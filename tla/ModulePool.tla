----------------------------- MODULE ModulePool ------------------------------
(***************************************************************************)
(* What the arena of WebAssembly modules promises its caller, without the  *)
(* free list, the engine's handles or the counters: a bounded set of       *)
(* tokens, handed out one at a time while not in use, and a ceiling that   *)
(* stops new ones after the engine has refused a module, until enough have *)
(* been given back.  WasmArena implements it; WasmStorage is built on it.  *)
(***************************************************************************)
EXTENDS Integers, FiniteSets

CONSTANTS
  Capacity,         \* tokens
  HeadroomDivisor   \* kX86pWasmCeilingHeadroomDivisor

VARIABLES
  held,             \* tokens in use
  ceiling,          \* number held at the engine's last refusal, 0: none in force
  headroom

poolVars == <<held, ceiling, headroom>>

Tokens == 0 .. Capacity - 1

PoolInit == held = {} /\ ceiling = 0 /\ headroom = 0

(* Whether a caller that evicts first may go on to publish.                *)
PoolHasRoom ==
  /\ Cardinality(held) < Capacity
  /\ ceiling = 0 \/ Cardinality(held) + headroom < ceiling

(* The engine takes a module: any token not in use.                        *)
Take(t) ==
  /\ t \in Tokens \ held
  /\ held' = held \cup {t}
  /\ UNCHANGED <<ceiling, headroom>>

(* Mutant: the headroom is the whole ceiling.                              *)
RefuseAllHeadroom ==
  /\ held # Tokens
  /\ ceiling = 0 \/ Cardinality(held) < ceiling
  /\ ceiling' = Cardinality(held) /\ headroom' = ceiling'
  /\ UNCHANGED held

(* The engine refuses one for its own reasons: the number held becomes the *)
(* ceiling unless a lower one is in force.                                 *)
Refuse ==
  /\ held # Tokens
  /\ ceiling = 0 \/ Cardinality(held) < ceiling
  /\ ceiling' = Cardinality(held)
  /\ headroom' = ceiling' \div HeadroomDivisor
  /\ UNCHANGED held

(* Tokens are given back; the ceiling goes once that has backed off far    *)
(* enough below it.                                                        *)
Give(S) ==
  /\ held' = held \ S
  /\ IF ceiling # 0 /\ Cardinality(held') + headroom < ceiling
     THEN ceiling' = 0 /\ headroom' = 0
     ELSE UNCHANGED <<ceiling, headroom>>

PoolNext ==
  \/ \E t \in Tokens : Take(t)
  \/ Refuse
  \/ \E t \in held : Give({t})

PoolSpec == PoolInit /\ [][PoolNext]_poolVars
=============================================================================
