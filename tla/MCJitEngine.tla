----------------------------- MODULE MCJitEngine -----------------------------
(***************************************************************************)
(* JitEngine for TLC: three blocks, one at a boundary, that share front    *)
(* entries; fewer host addresses and slots than blocks.                    *)
(***************************************************************************)
EXTENDS JitEngine, TLC

CONSTANTS a, b, c, h1, h2, h3

\* b loops to itself; c, the boundary, is reached from a.
MCSucc == [x \in Addrs |-> IF x = b THEN b ELSE IF x = a THEN c ELSE a]

\* a and b compete for one front entry.
MCFront(x) == IF x = c THEN 1 ELSE 0
Symmetry == Permutations({h1, h2, h3})
=============================================================================
