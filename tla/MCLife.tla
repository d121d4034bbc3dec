------------------------------- MODULE MCLife ------------------------------
EXTENDS Life
CONSTANTS e1, e2, e3
MCPostponable == {e1, e2}
=============================================================================
