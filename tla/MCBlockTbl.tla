----------------------------- MODULE MCBlockTbl -----------------------------
(* BlockTbl for TLC. *)
EXTENDS BlockTbl, TLC

Symmetry == Permutations(Clients)
=============================================================================
