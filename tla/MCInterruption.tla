--------------------------- MODULE MCInterruption ---------------------------
EXTENDS Interruption
CONSTANT n1
=============================================================================
