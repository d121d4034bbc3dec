------------------------------ MODULE MCThrdPool ------------------------------
EXTENDS ThrdPool
=============================================================================
