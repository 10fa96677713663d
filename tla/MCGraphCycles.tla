--------------------------- MODULE MCGraphCycles ---------------------------
EXTENDS GraphPath
=============================================================================
