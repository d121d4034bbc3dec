-------------------------------- MODULE MCKvpfs --------------------------------
EXTENDS Kvpfs, TLC
Symmetric == Permutations(Values)
=============================================================================
