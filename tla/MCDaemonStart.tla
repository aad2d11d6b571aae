---------------------------- MODULE MCDaemonStart ----------------------------
EXTENDS DaemonStart
=============================================================================
