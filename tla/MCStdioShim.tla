---------------------------- MODULE MCStdioShim ----------------------------
EXTENDS StdioShim
=============================================================================
