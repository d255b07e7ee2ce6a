--------------------------- MODULE MCWindowThread ---------------------------
EXTENDS WindowThread
=============================================================================
