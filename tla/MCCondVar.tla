------------------------------ MODULE MCCondVar ------------------------------
(* CondVar for TLC. *)
EXTENDS CondVar, TLC
=============================================================================
