------------------------------- MODULE MCLink -------------------------------
EXTENDS Link
=============================================================================
