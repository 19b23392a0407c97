------------------------------ MODULE JitEngine ------------------------------
(***************************************************************************)
(* The product dispatcher (jit_engine.c, x86p_jit_engine_run) and the      *)
(* chained exits that skip it (jit_chain.c; jit_x64_branch.c and           *)
(* jit_arm64_branch.c on native hosts, jit_wasm_chain.c on WebAssembly).   *)
(*                                                                         *)
(* A block is a guest address with two exits, one to a fixed target and    *)
(* one computed (a RET, an indirect JMP), each with a slot.  Translated    *)
(* code lives at a host address.  One thread runs; the consumer's          *)
(* callbacks and the calls it makes between runs are the environment.      *)
(* Storage is abstract: a native one never takes back a host address       *)
(* before a flush, the WebAssembly one does, when it evicts or             *)
(* invalidates (WasmStorage).  Left out: what a block computes, and        *)
(* leaves, which return through the same exits.                            *)
(***************************************************************************)
EXTENDS Integers, FiniteSets

CONSTANTS
  Addrs,        \* guest addresses blocks start at
  Succ,         \* [Addrs -> Addrs]: the target of a block's direct exit
  Boundary,     \* addresses the boundary predicate reports
  Hosts,        \* host addresses code may be published at
  CacheBlocks,  \* blocks the cache holds
  Capacity,     \* chain slots
  FrontOf(_),   \* a guest address's index in the cache's front array
  MaxSteps,     \* max_steps of a run
  Word,         \* 2^64: what the budget wraps at
  Backend,      \* "native" or "wasm"
  None

ASSUME EngineAssumption ==
  /\ Succ \in [Addrs -> Addrs] /\ Boundary \subseteq Addrs
  /\ CacheBlocks \in Nat \ {0} /\ Capacity \in Nat /\ Capacity >= 2
  /\ MaxSteps \in Nat \ {0} /\ Word \in Nat /\ MaxSteps < Word
  /\ Backend \in {"native", "wasm"}
  /\ None \notin Addrs \cup Hosts \cup [host : Hosts, guarded : BOOLEAN]
             \cup [guest : Addrs, first : 1 .. Capacity]

VARIABLES
  cache,        \* [Addrs -> [host, guarded] or None]: JcBlockCache
  front,        \* [Fronts -> [guest, host] or None]: its front array
  region,       \* [Hosts -> block or None]: the code at a host address
  slots,        \* [1 .. Capacity -> [guest, host] or None]: chain slots
  claimed,      \* slots handed to translations since the last flush
  chain_run,    \* the run header, which the dispatcher writes before a call
                \* and reads after it: budget, stop, last, pending
  run_stop, armed, cache_disabled,   \* the embedder's settings
  stop, steps, retries,              \* locals of x86p_jit_engine_run
  pending,      \* its ChainPending, with whether a flush came after it
  pc,
  eip,          \* the guest's EIP, during a run
  at,           \* the host address running
  asked,        \* whether the intercept was asked for the entry under way
  taken         \* blocks entered and intercepts dispatched in this run, as far
                \* as MaxSteps + 1

code == <<cache, front, region, slots, claimed>>
settings == <<run_stop, armed, cache_disabled>>
locals == <<stop, steps, retries, taken>>
vars == <<code, chain_run, settings, locals, pending, pc, eip, at, asked>>

Fronts == {FrontOf(a) : a \in Addrs}
SlotsPerBlock == 2
NoPending == [slot |-> 0, flushed |-> FALSE]

Counted == IF taken > MaxSteps THEN taken ELSE taken + 1

Contract == run_stop /\ ~cache_disabled
Linking == Contract /\ ~armed
Cached == {a \in Addrs : cache[a] # None}

Init ==
  /\ cache = [a \in Addrs |-> None]
  /\ front = [i \in Fronts |-> None]
  /\ region = [h \in Hosts |-> None]
  /\ slots = [i \in 1 .. Capacity |-> None] /\ claimed = 0
  /\ chain_run = None
  /\ run_stop = FALSE /\ armed = FALSE /\ cache_disabled = FALSE
  /\ stop = None /\ steps = 0 /\ retries = 0 /\ taken = 0
  /\ pending = NoPending
  /\ pc = "out" /\ eip = None /\ at = None /\ asked = FALSE

-----------------------------------------------------------------------------
(* Retiring translations.                                                  *)

\* Mutants: an invalidation keeps the links; a front entry outlives its block.
UnlinkedKeeps == slots
FrontWithoutKeeps(gone) == front

\* x86p_jit_chain_unlink_all.
Unlinked == [i \in 1 .. Capacity |-> IF i <= claimed THEN None ELSE slots[i]]

\* Every path that retires a translation clears its front slot.
FrontWithout(gone) ==
  [i \in Fronts |-> IF front[i] # None /\ front[i].guest \in gone THEN None ELSE front[i]]

\* Slots return only with a flush.
ClaimedWithout(gone) == claimed

\* x86p_jit_engine_invalidate_all.
Flush ==
  /\ cache' = [a \in Addrs |-> None]
  /\ front' = [i \in Fronts |-> None]
  /\ region' = [h \in Hosts |-> None]
  /\ slots' = Unlinked /\ claimed' = 0

\* drop_range and forget_evicted: the blocks at `gone` go, and every link.
\* Only the WebAssembly storage takes their host addresses back.
Drop(gone) ==
  /\ cache' = [a \in Addrs |-> IF a \in gone THEN None ELSE cache[a]]
  /\ front' = FrontWithout(gone)
  /\ region' = [h \in Hosts |->
       IF Backend = "wasm" /\ region[h] # None /\ region[h].guest \in gone
       THEN None ELSE region[h]]
  /\ slots' = IF Cached \cap gone # {} THEN Unlinked ELSE slots
  /\ claimed' = ClaimedWithout(gone)

-----------------------------------------------------------------------------
(* The embedder, between runs.                                             *)

Invalidate(a) ==
  /\ pc = "out" /\ cache[a] # None
  /\ Drop({a})
  /\ UNCHANGED <<chain_run, settings, locals, pending, pc, eip, at, asked>>

InvalidateAll ==
  /\ pc = "out" /\ Cached # {}
  /\ Flush
  /\ UNCHANGED <<chain_run, settings, locals, pending, pc, eip, at, asked>>

\* x86p_jit_engine_set_run_stop refuses the contract once blocks are cached.
MayInstall == Cached = {}

SetRunStop(on) ==
  /\ pc = "out" /\ run_stop # on
  /\ on => MayInstall
  /\ run_stop' = on
  /\ UNCHANGED <<code, chain_run, armed, cache_disabled, locals, pending, pc, eip, at, asked>>

\* set_profile, set_chain_census, set_entry_watch; set_cache.
SetDiagnostics(on) ==
  /\ pc = "out" /\ armed # on
  /\ armed' = on
  /\ UNCHANGED <<code, chain_run, run_stop, cache_disabled, locals, pending, pc, eip, at, asked>>

SetCache(enabled) ==
  /\ pc = "out" /\ cache_disabled = enabled
  /\ cache_disabled' = ~enabled
  /\ UNCHANGED <<code, chain_run, run_stop, armed, locals, pending, pc, eip, at, asked>>

\* x86p_jit_engine_run, up to its loop.  The stop function is asked once;
\* `host_state`: it changed since the last run, so everything is flushed.
Run(from, at_stop, host_state) ==
  /\ pc = "out"
  /\ host_state => Cached # {}
  /\ IF host_state THEN Flush ELSE UNCHANGED code
  /\ eip' = from /\ pc' = "top"
  /\ stop' = IF Contract THEN at_stop ELSE None
  /\ steps' = 0 /\ retries' = 0 /\ taken' = 0
  /\ pending' = NoPending
  /\ UNCHANGED <<chain_run, settings, at, asked>>
-----------------------------------------------------------------------------
(* The loop of x86p_jit_engine_run.                                        *)

\* Mutant: every run may chain.
AllowedAlways == MaxSteps - steps

\* One more than the transfers the next call may make.
Allowed == IF Linking THEN MaxSteps - steps ELSE 1

\* x86p_jit_call_entry of the block at `eip`.
Enter(h) ==
  /\ chain_run' = [budget |-> Allowed, stop |-> stop, last |-> eip, pending |-> 0]
  /\ at' = h /\ pc' = "in"
  /\ retries' = 0 /\ taken' = Counted
  /\ UNCHANGED <<settings, stop, steps, eip>>

\* jc_block_take_hit: the front array holds the last unguarded hit.
FrontHit == front' = [front EXCEPT ![FrontOf(eip)] = [guest |-> eip, host |-> cache[eip].host]]

\* x86p_jit_engine_run returns, and its locals with it.
RunReturns ==
  /\ pc' = "out" /\ eip' = None /\ asked' = FALSE
  /\ stop' = None /\ steps' = 0 /\ retries' = 0 /\ taken' = 0
  /\ pending' = NoPending

\* link_pending's conditions.
MayLink == pending.slot # 0 /\ ~pending.flushed /\ pending.slot <= claimed

\* The dispatcher may enter without asking.
Unguarded == Contract /\ eip # stop /\ cache[eip] # None /\ ~cache[eip].guarded

BudgetSpent ==
  /\ pc = "top" /\ steps >= MaxSteps
  /\ RunReturns
  /\ UNCHANGED <<code, chain_run, settings, at>>

EnterUnguarded ==
  /\ pc = "top" /\ steps < MaxSteps /\ Unguarded
  /\ slots' = IF Linking /\ MayLink
              THEN [slots EXCEPT ![pending.slot] = [guest |-> eip, host |-> cache[eip].host]]
              ELSE slots
  /\ pending' = NoPending
  /\ FrontHit
  /\ asked' = FALSE
  /\ Enter(cache[eip].host)
  /\ UNCHANGED <<cache, region, claimed>>

AskFirst ==
  /\ pc = "top" /\ steps < MaxSteps /\ ~Unguarded
  /\ pending' = NoPending
  /\ pc' = "ask"
  /\ UNCHANGED <<code, chain_run, settings, locals, eip, at, asked>>

\* Where the contract lets the intercept fire; without it, anywhere.
MayFire == Contract => eip \in Boundary \/ eip = stop

InterceptUnwinds ==
  /\ pc = "ask" /\ MayFire
  /\ RunReturns
  /\ UNCHANGED <<code, chain_run, settings, at>>

\* The dispatch handler runs host code in place, which may set EIP and
\* retire translations.
Dispatched(to, gone) ==
  /\ pc = "ask" /\ MayFire
  /\ CASE gone = "all" -> Flush
       [] gone \in Addrs -> Drop({gone})
       [] OTHER -> UNCHANGED code
  /\ steps' = steps + 1 /\ taken' = Counted
  /\ eip' = to /\ pc' = "top"
  /\ UNCHANGED <<chain_run, settings, stop, retries, pending, at, asked>>

\* The intercept declines an address that is cached ...
EnterAsked ==
  /\ pc = "ask" /\ ~cache_disabled /\ cache[eip] # None
  /\ IF cache[eip].guarded THEN UNCHANGED front ELSE FrontHit
  /\ asked' = TRUE
  /\ Enter(cache[eip].host)
  /\ UNCHANGED <<cache, region, slots, claimed, pending>>

\* ... or one that must be translated.
Missed ==
  /\ pc = "ask" /\ (cache_disabled \/ cache[eip] = None)
  /\ asked' = TRUE
  /\ pc' = "room"
  /\ UNCHANGED <<code, chain_run, settings, locals, pending, eip, at>>

-----------------------------------------------------------------------------
(* translate_at.                                                           *)

FreeHosts == {h \in Hosts : region[h] = None}

\* A native storage writes at its bump pointer; the table of the WebAssembly host has any free entry.
Offered == IF Backend = "native" THEN {h \in FreeHosts : h = CHOOSE n \in FreeHosts : TRUE} ELSE FreeHosts

SlotsSuffice == claimed + SlotsPerBlock <= Capacity

\* evict_for_room flushes for slots, and on a native storage for space.
FlushForRoom ==
  /\ pc = "room"
  /\ ~SlotsSuffice \/ (Backend = "native" /\ FreeHosts = {})
  /\ Flush
  /\ UNCHANGED <<chain_run, settings, locals, pending, pc, eip, at, asked>>

\* The WebAssembly storage evicts a module: some blocks go (WasmStorage).
EvictForRoom(gone) ==
  /\ pc = "room" /\ SlotsSuffice /\ Backend = "wasm"
  /\ gone # {} /\ gone \subseteq Cached
  /\ Drop(gone)
  /\ UNCHANGED <<chain_run, settings, locals, pending, pc, eip, at, asked>>

\* Mutant: a failed translation is tried for as long as it fails.
MayRetryForEver == TRUE

MayRetry == retries < 1

\* Going round again, or giving up with kX86pRunOutOfCode.
RetryOrGiveUp ==
  IF MayRetry
  THEN /\ retries' = 1 /\ pc' = "top" /\ asked' = FALSE
       /\ UNCHANGED <<stop, steps, taken, pending, eip>>
  ELSE RunReturns

\* kX86pJitOutOfSpace: claims are rewound.
OutOfSpace ==
  /\ pc = "room" /\ SlotsSuffice /\ FreeHosts # {}
  /\ RetryOrGiveUp
  /\ UNCHANGED <<code, chain_run, settings, at>>

\* A refusal of the translator, a fetch fault or a decode failure.
TranslateRefused ==
  /\ pc = "room" /\ SlotsSuffice /\ FreeHosts # {}
  /\ RunReturns
  /\ UNCHANGED <<code, chain_run, settings, at>>

\* jc_block_insert finds the cache full: everything is flushed.
CacheFull ==
  /\ pc = "room" /\ SlotsSuffice /\ FreeHosts # {}
  /\ Cardinality(Cached) >= CacheBlocks /\ eip \notin Cached
  /\ Flush
  /\ RetryOrGiveUp
  /\ UNCHANGED <<chain_run, settings, at>>

\* A block at an address the consumer may take over is cached guarded.
Guards == run_stop /\ eip \in Boundary

\* The block is published at h, its exits claim the next slots.
Translate(h) ==
  /\ pc = "room" /\ SlotsSuffice /\ h \in Offered
  /\ Cardinality(Cached) < CacheBlocks \/ eip \in Cached
  /\ region' = [region EXCEPT ![h] = [guest |-> eip, first |-> claimed + 1]]
  /\ slots' = [i \in 1 .. Capacity |->
       IF i \in claimed + 1 .. claimed + SlotsPerBlock THEN None ELSE slots[i]]
  /\ claimed' = claimed + SlotsPerBlock
  /\ cache' = [cache EXCEPT ![eip] = [host |-> h, guarded |-> Guards]]
  /\ front' = FrontWithout({eip})
  /\ Enter(h)
  /\ UNCHANGED <<pending, asked>>

-----------------------------------------------------------------------------
(* Translated code: the block at `at` leaves for a next guest address.     *)

\* Mutants: the stop address is not looked at; the budget is one too large.
TryIgnoresStop(b, target) == [go |-> (b + Word - 1) % Word # 0, budget |-> (b + Word - 1) % Word]
TryOneMore(b, target) ==
  IF target = chain_run.stop THEN [go |-> FALSE, budget |-> b]
  ELSE [go |-> b # 0, budget |-> (b + Word - 1) % Word]

\* emit_transfer_checks: not the run's stop address; step the budget, and
\* leave when it reaches zero.
Try(b, target) ==
  IF target = chain_run.stop THEN [go |-> FALSE, budget |-> b]
  ELSE [go |-> (b + Word - 1) % Word # 0, budget |-> (b + Word - 1) % Word]

\* The host address the exit's slot, or the front array, has for a target.
Linked(s, target) ==
  IF slots[s] # None /\ slots[s].guest = target THEN slots[s].host ELSE None
Probed(target) ==
  LET f == front[FrontOf(target)]
  IN  IF f # None /\ f.guest = target THEN f.host ELSE None

(* What an exit through slot s does: where it jumps (None: it returns),    *)
(* the budget it leaves, the slot it names as pending.                     *)
\* emit_chained_exit, emit_chain_probe: only a miss of the slot probes.
NativeExit(s, target, computed) ==
  LET host == Linked(s, target)
      try  == Try(chain_run.budget, target)
      front_host == Probed(target)
  IN  IF host # None /\ try.go
      THEN [to |-> host, budget |-> try.budget, pending |-> chain_run.pending]
      ELSE IF host # None
      THEN [to |-> None, budget |-> try.budget, pending |-> s]
      ELSE IF computed /\ front_host # None
      THEN [to |-> IF try.go THEN front_host ELSE None, budget |-> try.budget,
            pending |-> IF try.go THEN 0 ELSE s]
      ELSE [to |-> None, budget |-> chain_run.budget, pending |-> s]

\* x86p_wasm_chain_emit: every way out of the slot's path falls into the
\* probe, with the budget already stepped.
WasmExit(s, target, computed) ==
  LET host == Linked(s, target)
      try  == IF host = None THEN [go |-> FALSE, budget |-> chain_run.budget]
              ELSE Try(chain_run.budget, target)
      front_host == IF computed THEN Probed(target) ELSE None
      again == Try(try.budget, target)
  IN  IF try.go
      THEN [to |-> host, budget |-> try.budget, pending |-> chain_run.pending]
      ELSE IF front_host # None
      THEN [to |-> IF again.go THEN front_host ELSE None, budget |-> again.budget,
            pending |-> IF again.go THEN 0 ELSE s]
      ELSE [to |-> None, budget |-> try.budget, pending |-> s]

Exit(computed, target) ==
  LET s == region[at].first + (IF computed THEN 1 ELSE 0)
  IN  IF Backend = "wasm" THEN WasmExit(s, target, computed)
      ELSE NativeExit(s, target, computed)

Targets(computed) ==
  IF pc # "in" THEN {} ELSE IF computed THEN Addrs ELSE {Succ[eip]}

Transfer(computed, target) ==
  LET x == Exit(computed, target)
  IN  /\ pc = "in" /\ x.to # None
      /\ chain_run' = [chain_run EXCEPT !.budget = x.budget, !.last = target,
                                        !.pending = x.pending]
      /\ at' = x.to /\ eip' = target
      /\ asked' = FALSE /\ taken' = Counted
      /\ UNCHANGED <<code, settings, stop, steps, retries, pending, pc>>

\* Mutant: the step that found the budget at 1 counts as a transfer.
TransfersAndLast(budget) == (Allowed + Word - budget) % Word

\* chained_transfers.
Transfers(budget) == (Allowed + 2 * Word - budget - (IF budget = 0 THEN 1 ELSE 0)) % Word

\* What the dispatcher does once a block has returned.
AfterCall ==
  /\ IF cache_disabled THEN Flush ELSE UNCHANGED code
  /\ chain_run' = None /\ at' = None
  /\ UNCHANGED settings

Return(computed, target) ==
  LET x == Exit(computed, target)
  IN  /\ pc = "in" /\ x.to = None
      /\ AfterCall
      /\ pending' = [slot |-> x.pending, flushed |-> cache_disabled]
      /\ steps' = (steps + 1 + Transfers(x.budget)) % Word
      /\ eip' = target /\ pc' = "top" /\ asked' = FALSE
      /\ UNCHANGED <<stop, retries, taken>>

\* A fault, a divide error, an unsupported instruction: the run ends.
Fault ==
  /\ pc = "in"
  /\ AfterCall
  /\ RunReturns

-----------------------------------------------------------------------------
Embedder ==
  \/ \E a \in Addrs : Invalidate(a)
  \/ InvalidateAll
  \/ \E on \in BOOLEAN : SetRunStop(on) \/ SetDiagnostics(on) \/ SetCache(on)
  \/ \E from, at_stop \in Addrs, host_state \in BOOLEAN : Run(from, at_stop, host_state)

Engine ==
  \/ BudgetSpent \/ EnterUnguarded \/ AskFirst
  \/ InterceptUnwinds \/ EnterAsked \/ Missed
  \/ \E to \in Addrs, gone \in Addrs \cup {"all", None} : Dispatched(to, gone)
  \/ FlushForRoom \/ OutOfSpace \/ TranslateRefused \/ CacheFull
  \/ \E gone \in SUBSET Addrs : EvictForRoom(gone)
  \/ \E h \in Hosts : Translate(h)
  \/ \E computed \in BOOLEAN : \E target \in Targets(computed) : Transfer(computed, target)
  \/ \E computed \in BOOLEAN : \E target \in Targets(computed) : Return(computed, target)
  \/ Fault

Next == Embedder \/ Engine

Spec == Init /\ [][Next]_vars
(* The thread of a run goes on: translated code and callbacks return.      *)
FairSpec == Spec /\ WF_vars(Engine)

-----------------------------------------------------------------------------
(* Types.                                                                  *)
TypeOK ==
  /\ cache \in [Addrs -> [host : Hosts, guarded : BOOLEAN] \cup {None}]
  /\ front \in [Fronts -> [guest : Addrs, host : Hosts] \cup {None}]
  /\ region \in [Hosts -> [guest : Addrs, first : 1 .. Capacity] \cup {None}]
  /\ slots \in [1 .. Capacity -> [guest : Addrs, host : Hosts] \cup {None}]
  /\ claimed \in 0 .. Capacity
  /\ chain_run \in [budget : 0 .. Word - 1, stop : Addrs \cup {None}, last : Addrs,
                    pending : 0 .. Capacity] \cup {None}
  /\ run_stop \in BOOLEAN /\ armed \in BOOLEAN /\ cache_disabled \in BOOLEAN
  /\ stop \in Addrs \cup {None} /\ steps \in 0 .. Word - 1 /\ retries \in 0 .. 1
  /\ taken \in 0 .. MaxSteps + 1
  /\ pending \in [slot : 0 .. Capacity, flushed : BOOLEAN]
  /\ pc \in {"out", "top", "ask", "room", "in"} /\ eip \in Addrs \cup {None}
  /\ at \in Hosts \cup {None} /\ asked \in BOOLEAN

(* Whatever code may be entered through without the dispatcher, a linked   *)
(* slot or a front entry, is the unguarded translation cached for its      *)
(* guest address: no dropped, evicted or reused code is reachable.  (With  *)
(* the cache off a block is translated over its old self; it runs alone    *)
(* and everything is flushed when it returns.)                             *)
LinksLive ==
  ~(cache_disabled /\ pc = "in") =>
  LET live(x) == x # None =>
        /\ cache[x.guest] # None
        /\ cache[x.guest].host = x.host /\ ~cache[x.guest].guarded
  IN  /\ \A i \in 1 .. claimed : live(slots[i])
      /\ \A i \in Fronts : live(front[i])

(* The code running is the translation of the guest address the thread is  *)
(* at, and the cache still holds it.                                       *)
RunsItsBlock ==
  pc = "in" => /\ region[at] # None /\ region[at].guest = eip
               /\ cache[eip] # None /\ cache[eip].host = at
               /\ chain_run.last = eip

(* No two cached blocks share a chain slot, and their slots are claimed:   *)
(* one exit's link is never another's.                                     *)
SlotsOwned ==
  LET owned(a) == LET f == region[cache[a].host].first IN f .. f + SlotsPerBlock - 1
  IN  \A a \in Cached :
        /\ owned(a) \subseteq 1 .. claimed
        /\ \A b \in Cached \ {a} : owned(a) \cap owned(b) = {}

(* What a chained exit trusts without asking: its slot is its own, and     *)
(* what the slot or the front array names is live.                         *)
EngineSound == TypeOK /\ LinksLive /\ SlotsOwned

(* The intercept contract (jit_engine.h, set_run_stop): an address the     *)
(* predicate could take over, at a boundary or the run's stop, is entered  *)
(* only after asking it, however the thread got there.                     *)
ContractAsks ==
  pc = "in" /\ Contract /\ (eip \in Boundary \/ eip = stop) => asked

(* Without the contract every block is asked about before it runs          *)
(* (jit_engine.h: "the intercept predicate is asked before every block").  *)
EveryEntryAsked == pc = "in" /\ ~Contract => asked

(* jit_engine.h: a run ends when `max_steps` steps have been taken, blocks *)
(* chained past the dispatcher included.                                   *)
BudgetHolds == taken <= MaxSteps

(* What the dispatcher counts, from the budget a call left, is what        *)
(* happened: one step for each block entered and intercept dispatched.     *)
StepsExact == pc \in {"top", "ask", "room"} => steps = taken

(* A run ends, though blocks chain to themselves, translations fail and    *)
(* the cache is full.                                                      *)
RunEnds == pc # "out" ~> pc = "out"
=============================================================================
