------------------------------ MODULE MCFlowRun ------------------------------
EXTENDS FlowRun
=============================================================================
