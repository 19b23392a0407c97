----------------------------- MODULE MCWasmArena -----------------------------
(***************************************************************************)
(* WasmArena for TLC.  Four slots and a divisor of two make a ceiling with *)
(* a nonzero headroom (2 of 4) reachable; the code's divisor of 16 needs   *)
(* sixteen live modules for the same case.                                 *)
(***************************************************************************)
EXTENDS WasmArena
=============================================================================
