-------------------------- MODULE MCPeakDataQueue --------------------------
EXTENDS PeakDataQueue
=============================================================================
