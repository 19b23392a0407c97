----------------------------- MODULE MCSparseMem -----------------------------
(***************************************************************************)
(* SparseMem for TLC.                                                      *)
(***************************************************************************)
EXTENDS SparseMem
=============================================================================
