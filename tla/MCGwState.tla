------------------------------ MODULE MCGwState ------------------------------
(* GwState for TLC. *)
EXTENDS GwState, TLC
=============================================================================
