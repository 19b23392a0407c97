---------------------------- MODULE MCWasmStorage ----------------------------
(***************************************************************************)
(* WasmStorage for TLC: three records, batches of two, guest blocks of     *)
(* which two overlap.                                                      *)
(***************************************************************************)
EXTENDS WasmStorage

CONSTANTS e1, e2, e3, e4, c1, c2, c3

MCLen == [g \in Guests |-> IF g = 0 THEN 2 ELSE 1]
\* The block at 3 ends at the top of the guest's address space.
MCTop == 4

MCLoaded == [g \in Guests |-> c3]

\* c1 and c2 lower to the same length, exits and leaf site.
MCShape(c) == c = c3

Symmetry == Permutations(Entries) \cup Permutations({c1, c2})
=============================================================================
