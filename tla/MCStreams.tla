------------------------------- MODULE MCStreams -------------------------------
EXTENDS StreamManager

CONSTANTS c1, c2
=============================================================================
