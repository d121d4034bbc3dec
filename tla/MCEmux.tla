------------------------------- MODULE MCEmux -------------------------------
EXTENDS Emux
=============================================================================
