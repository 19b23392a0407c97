------------------------------ MODULE WasmArena ------------------------------
(***************************************************************************)
(* The lifetime of instantiated WebAssembly modules: jit_wasm_arena.c over *)
(* the engine glue of jit_wasm_host.c.                                     *)
(*                                                                         *)
(* A slot is live, holding one handle of the engine, or it is on a free    *)
(* list threaded through the slots themselves.  As in the code, links are  *)
(* index + 1 and 0 ends the list.  The engine is the set of handles it     *)
(* holds; whether it takes a module is a choice of the environment.        *)
(*                                                                         *)
(* Left out: the wording of the reasons, and the null-argument guards.     *)
(***************************************************************************)
EXTENDS Integers, FiniteSets

CONSTANTS
  Capacity,         \* slots the caller asked for
  HeadroomDivisor,  \* kX86pWasmCeilingHeadroomDivisor
  MaxPublished,     \* bound: successful publications considered
  MaxFailed         \* bound: refused publications considered

ASSUME CapacityAssumption == Capacity \in Nat \ {0}
ASSUME DivisorAssumption == HeadroomDivisor \in Nat /\ HeadroomDivisor > 1
ASSUME BoundAssumption == MaxPublished \in Nat /\ MaxFailed \in Nat

VARIABLES
  slot,             \* [Tokens -> [live, module, next_free]]
  free_head,        \* link to the first free slot, 0 when there is none
  live,             \* the arena's own count of live modules
  ceiling,          \* live count at the engine's last refusal, 0: none in force
  headroom,         \* how far below the ceiling the arena backs off
  published, released, refusals, failures,
  ceilings_learned, ceilings_retired,
  sweep,            \* index of x86p_wasm_arena_release_all's loop, Capacity: idle
  engine,           \* handles the engine holds (host.modules)
  next_handle       \* host.next

vars == <<slot, free_head, live, ceiling, headroom, published, released,
          refusals, failures, ceilings_learned, ceilings_retired, sweep,
          engine, next_handle>>

slots      == <<slot, free_head, live>>
limits     == <<ceiling, headroom, ceilings_learned, ceilings_retired>>
host       == <<engine, next_handle>>

Idle == sweep = Capacity

Tokens == 0 .. Capacity - 1
Links  == 0 .. Capacity

LiveTokens == {t \in Tokens : slot[t].live}

-----------------------------------------------------------------------------
(* x86p_wasm_arena_init: every slot free, lowest index first.              *)

Init ==
  /\ slot = [t \in Tokens |->
               [live |-> FALSE, module |-> 0,
                next_free |-> IF t + 1 < Capacity THEN t + 2 ELSE 0]]
  /\ free_head = 1
  /\ live = 0 /\ ceiling = 0 /\ headroom = 0
  /\ published = 0 /\ released = 0 /\ refusals = 0 /\ failures = 0
  /\ ceilings_learned = 0 /\ ceilings_retired = 0
  /\ sweep = Capacity
  /\ engine = {} /\ next_handle = 1

(* x86p_wasm_arena_has_room: what eviction asks before it evicts.          *)
HasRoom ==
  /\ live < Capacity
  /\ ceiling = 0 \/ live + headroom < ceiling

(* The free list disagreeing with the slots is refused, never overwritten. *)
FreeHeadIsUsable ==
  /\ free_head # 0
  /\ free_head - 1 < Capacity
  /\ ~slot[free_head - 1].live

-----------------------------------------------------------------------------
(* x86p_wasm_arena_publish, one action per way out of it.                  *)

\* No free slot, or a free list that names a live one: nothing is asked of
\* the engine.
PublishRefused ==
  /\ Idle /\ refusals < MaxFailed
  /\ ~FreeHeadIsUsable
  /\ refusals' = refusals + 1
  /\ UNCHANGED <<slots, limits, host, sweep, published, released, failures>>

\* A refusal teaches unless a ceiling at least as low is already in force.
RefusalTeaches == ceiling = 0 \/ live < ceiling

HeadroomFor(c) == c \div HeadroomDivisor

LearnCeiling ==
  /\ ceiling' = live
  /\ headroom' = HeadroomFor(live)
  /\ ceilings_learned' = ceilings_learned + 1
  /\ UNCHANGED ceilings_retired

\* The engine would not take another module (-1), or would not compile this
\* one (-2); only the first is about how many modules it holds.
PublishFailed(by_engine) ==
  /\ Idle /\ failures < MaxFailed
  /\ FreeHeadIsUsable
  /\ failures' = failures + 1
  /\ IF by_engine /\ RefusalTeaches THEN LearnCeiling ELSE UNCHANGED limits
  /\ UNCHANGED <<slots, host, sweep, published, released, refusals>>

\* host_instantiate hands out a new handle and the head of the free list
\* takes it.
Publish ==
  /\ Idle /\ published < MaxPublished
  /\ FreeHeadIsUsable
  /\ engine' = engine \cup {next_handle}
  /\ next_handle' = next_handle + 1
  /\ free_head' = slot[free_head - 1].next_free
  /\ slot' = [slot EXCEPT ![free_head - 1] =
                [live |-> TRUE, module |-> next_handle, next_free |-> 0]]
  /\ live' = live + 1
  /\ published' = published + 1
  /\ UNCHANGED <<limits, sweep, released, refusals, failures>>

-----------------------------------------------------------------------------
(* Release: the engine drops the handle, the slot heads the free list.     *)

\* Mutants: the engine keeps the module; the slot's link is lost; a ceiling
\* outlives its back-off by one.
HostReleaseKeeps(handles) == UNCHANGED engine
FreedSlotUnlinked(link) == [live |-> FALSE, module |-> 0, next_free |-> 0]
BackedOffLate(now) == ceiling # 0 /\ now + headroom + 1 < ceiling

HostRelease(handles) == engine' = engine \ handles

FreedSlot(link) == [live |-> FALSE, module |-> 0, next_free |-> link]

CountReleased == live' = live - 1 /\ released' = released + 1

\* The arena is below the ceiling by the headroom, with `now` modules live.
BackedOff(now) == ceiling # 0 /\ now + headroom < ceiling

RetireCeilingIfBackedOff(now) ==
  IF BackedOff(now)
  THEN /\ ceiling' = 0
       /\ headroom' = 0
       /\ ceilings_retired' = ceilings_retired + 1
       /\ UNCHANGED ceilings_learned
  ELSE UNCHANGED limits

(* x86p_wasm_arena_release of a live token.  One that is not live is left  *)
(* alone.                                                                  *)
ReleaseLive(t) ==
  /\ slot[t].live
  /\ HostRelease({slot[t].module})
  /\ slot' = [slot EXCEPT ![t] = FreedSlot(free_head)]
  /\ free_head' = t + 1
  /\ CountReleased
  /\ RetireCeilingIfBackedOff(live - 1)
  /\ UNCHANGED <<published, refusals, failures, next_handle>>

Release(t) == Idle /\ ReleaseLive(t) /\ UNCHANGED sweep

(* x86p_wasm_arena_release_all: a loop over every index.  Nothing else     *)
(* runs meanwhile.                                                         *)
BeginReleaseAll ==
  /\ Idle
  /\ sweep' = 0
  /\ UNCHANGED <<slots, limits, host, published, released, refusals, failures>>

\* Mutant: the loop leaves the last slot out.
SweepStopsShort == IF sweep + 2 >= Capacity THEN Capacity ELSE sweep + 1

SweepNext == sweep + 1

Sweep ==
  /\ ~Idle
  /\ sweep' = SweepNext
  /\ \/ ReleaseLive(sweep)
     \/ /\ ~slot[sweep].live
        /\ UNCHANGED <<slots, limits, host, published, released, refusals, failures>>

Next ==
  \/ PublishRefused
  \/ \E by_engine \in BOOLEAN : PublishFailed(by_engine)
  \/ Publish
  \/ \E t \in Tokens : Release(t)
  \/ BeginReleaseAll
  \/ Sweep

Spec == Init /\ [][Next]_vars

(* The loop, once entered, runs to its end; nothing else is promised.      *)
FairSpec == Spec /\ WF_vars(Sweep)

-----------------------------------------------------------------------------
(* Types.                                                                  *)
TypeOK ==
  /\ slot \in [Tokens -> [live : BOOLEAN, module : Nat, next_free : Links]]
  /\ free_head \in Links
  /\ live \in Nat /\ ceiling \in Nat /\ headroom \in Nat
  /\ published \in Nat /\ released \in Nat
  /\ refusals \in Nat /\ failures \in Nat
  /\ ceilings_learned \in Nat /\ ceilings_retired \in Nat
  /\ sweep \in 0 .. Capacity
  /\ engine \in SUBSET Nat /\ next_handle \in Nat \ {0}

(* A list of the free slots: `f` names them in order, n of them, and the   *)
(* links lead from the head through f[1], ..., f[n] to the end.            *)
IsFreeList(n, f) ==
  /\ free_head = IF n = 0 THEN 0 ELSE f[1] + 1
  /\ \A k \in 1 .. n :
       /\ ~slot[f[k]].live
       /\ slot[f[k]].next_free = IF k < n THEN f[k + 1] + 1 ELSE 0
  /\ \A j, k \in 1 .. n : f[j] = f[k] => j = k
  /\ \A t \in Tokens : ~slot[t].live => \E k \in 1 .. n : f[k] = t

(* The links thread exactly the slots that are not live, each once: no     *)
(* sequence of publications and releases loses a slot, hands a live one    *)
(* out again or closes the list into a cycle.  Both halves matter to       *)
(* x86p_wasm_arena_publish, which trusts free_head = 0 to mean "full".     *)
FreeListExact ==
  \E n \in 0 .. Capacity : \E f \in [1 .. n -> Tokens] : IsFreeList(n, f)

(* `live`, `published` and `released` are kept at three places; they agree *)
(* with the slots after every way out of publish and release.              *)
CountsAgree ==
  /\ live = Cardinality(LiveTokens)
  /\ published = released + live

(* The engine holds exactly the handles of the live slots, each in one     *)
(* slot: nothing is leaked inside the engine (the modules the file exists  *)
(* to bound) and nothing reachable was handed back.                        *)
EngineAgrees ==
  /\ engine = {slot[t].module : t \in LiveTokens}
  /\ \A t, u \in LiveTokens : slot[t].module = slot[u].module => t = u

(* A ceiling in force always stops the arena: it is learned at the live    *)
(* count itself and retired by the very release that would have opened     *)
(* room under it, so HasRoom never answers from below a ceiling.           *)
CeilingBlocks == ceiling # 0 => ~HasRoom

(* An arena emptied by releases always takes a module again: whatever it   *)
(* learned on the way, the back-off is reachable, so a flush of the code   *)
(* cache does make room.                                                   *)
EmptyIsOpen == live = 0 => HasRoom

(* A publication is refused without asking the engine only when every slot *)
(* is live: the "internal: free list names slot ..." refusal is dead code  *)
(* and no slot is ever lost.                                               *)
RefusedOnlyWhenFull ==
  [][refusals' > refusals => live = Capacity]_vars

(* x86p_wasm_arena_release_all empties the arena and leaves it open,       *)
(* whatever it held, which is what a flush of the code cache relies on.    *)
ReleaseAllEmpties == (sweep = 0) ~> (Idle /\ live = 0 /\ HasRoom)

(* A ceiling only ratchets down or is retired (jit_wasm_arena.h:153): no   *)
(* step replaces one in force by a higher one.                             *)
CeilingRatchets ==
  [][ceiling # 0 => ceiling' <= ceiling]_vars

(* What the proofs need besides the above: handles are never reused, the   *)
(* headroom is the divisor's share, and a ceiling in force is not yet      *)
(* backed off.                                                             *)
HandlesFresh == \A h \in engine : h < next_handle
CeilingNotBackedOff ==
  /\ headroom = ceiling \div HeadroomDivisor
  /\ ceiling # 0 => live + headroom >= ceiling

ArenaInv ==
  /\ TypeOK /\ FreeListExact /\ CountsAgree /\ EngineAgrees
  /\ HandlesFresh /\ CeilingNotBackedOff

(* The arena keeps the promise WasmStorage is built on: with the live      *)
(* slots as the tokens in use, every step is one of ModulePool's or        *)
(* changes nothing it sees.                                                *)
Pool == INSTANCE ModulePool WITH held <- LiveTokens

ImplementsPool == Pool!PoolSpec
=============================================================================
