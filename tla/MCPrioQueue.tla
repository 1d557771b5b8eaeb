---------------------------- MODULE MCPrioQueue ----------------------------
EXTENDS PrioQueue
=============================================================================
