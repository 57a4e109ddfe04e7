--------------------------- MODULE MCWaitForPages ---------------------------
EXTENDS WaitForPages
=============================================================================
