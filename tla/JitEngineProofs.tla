---------------------------- MODULE JitEngineProofs ----------------------------
(***************************************************************************)
(* Proofs about JitEngine for every set of blocks, exits, host addresses,  *)
(* slots and steps.  On both kinds of host, whatever a chained exit is     *)
(* followed through is live and the intercept contract holds; on native    *)
(* hosts a run keeps its budget, counts exactly and asks before every      *)
(* block when it must.                                                     *)
(***************************************************************************)
EXTENDS JitEngine, TLAPS

Header == [budget : 0 .. Word - 1, stop : Addrs \cup {None}, last : Addrs,
           pending : 0 .. Capacity]

CodeTypes ==
  /\ cache \in [Addrs -> [host : Hosts, guarded : BOOLEAN] \cup {None}]
  /\ front \in [Fronts -> [guest : Addrs, host : Hosts] \cup {None}]
  /\ region \in [Hosts -> [guest : Addrs, first : 1 .. Capacity] \cup {None}]
  /\ slots \in [1 .. Capacity -> [guest : Addrs, host : Hosts] \cup {None}]
  /\ claimed \in 0 .. Capacity

(* The code at a cached block's host address is that block's.              *)
Placed ==
  \A x \in Cached : region[cache[x].host] # None /\ region[cache[x].host].guest = x

(* The exits of all code still at a host address, cached or not, have      *)
(* slots of their own.                                                     *)
SlotsApart ==
  \A h \in Hosts : region[h] # None =>
    /\ region[h].first >= 1 /\ region[h].first + 1 <= claimed
    /\ \A k \in Hosts \ {h} : region[k] # None =>
         \/ region[h].first + 1 < region[k].first
         \/ region[k].first + 1 < region[h].first

(* A way into translated code is the unguarded block cached at its address. *)
Points(x) ==
  x # None => /\ cache[x.guest] # None
              /\ cache[x.guest].host = x.host /\ ~cache[x.guest].guarded
LinksPoint == (\A i \in 1 .. claimed : Points(slots[i])) /\ (\A i \in Fronts : Points(front[i]))

CodeSound == CodeTypes /\ Placed /\ SlotsApart

(* While a contract is installed the guarded blocks are those at a         *)
(* boundary: set_run_stop refuses a cache that holds others.               *)
GuardsMatch == run_stop => \A x \in Cached : cache[x].guarded <=> x \in Boundary

(* What the thread of a run holds: it has a step left, and the header it   *)
(* wrote carries the run's stop.                                           *)
Thread ==
  /\ run_stop \in BOOLEAN /\ armed \in BOOLEAN /\ cache_disabled \in BOOLEAN
  /\ stop \in Addrs \cup {None} /\ steps \in 0 .. Word - 1 /\ retries \in 0 .. 1
  /\ taken \in 0 .. MaxSteps + 1
  /\ pending \in [slot : 0 .. Capacity, flushed : BOOLEAN]
  /\ pc \in {"out", "top", "ask", "room", "in"} /\ eip \in Addrs \cup {None}
  /\ at \in Hosts \cup {None} /\ asked \in BOOLEAN
  /\ chain_run \in Header \cup {None}
  /\ pc # "out" => eip \in Addrs
  /\ pc \in {"ask", "room"} => steps < MaxSteps
  /\ pc = "room" => asked
  /\ pc = "in" => chain_run \in Header /\ chain_run.stop = stop /\ steps < MaxSteps

(* A translation under way is not cached: nothing links to what it         *)
(* replaces.                                                               *)
MissedIsMissing == pc = "room" /\ ~cache_disabled => cache[eip] = None

(* With the cache off the block running was just translated, so its own    *)
(* slots are empty and its one step is the last: it cannot chain.          *)
Alone ==
  pc = "in" /\ cache_disabled =>
    /\ chain_run.budget = 1
    /\ slots[region[at].first] = None /\ slots[region[at].first + 1] = None

EngineInv ==
  /\ CodeSound /\ (~(cache_disabled /\ pc = "in") => LinksPoint)
  /\ Thread /\ GuardsMatch /\ MissedIsMissing /\ Alone /\ RunsItsBlock /\ ContractAsks

(* What a native run has taken, from the budget in the header.             *)
Counts ==
  /\ pc = "out" => taken = 0
  /\ pc \in {"top", "ask", "room"} => steps = taken /\ steps <= MaxSteps
  /\ pc = "in" => /\ chain_run.budget \in 1 .. Allowed
                  /\ taken = steps + 1 + (Allowed - chain_run.budget)

-----------------------------------------------------------------------------
(* The wrapping arithmetic of the budget.                                  *)

LEMMA WrapFact ==
  ASSUME NEW w \in Nat, w > 0, NEW x \in Int, x >= 0, x < w
  PROVE  x % w = x /\ (x + w) % w = x /\ (x + 2 * w) % w = x
  OBVIOUS

LEMMA StepFact ==
  ASSUME NEW b \in 0 .. Word - 1
  PROVE  /\ (b + Word - 1) % Word \in 0 .. Word - 1
         /\ b # 0 => (b + Word - 1) % Word = b - 1
  BY EngineAssumption

LEMMA ResidueFact ==
  ASSUME NEW x \in Int
  PROVE  x % Word \in 0 .. Word - 1
  BY EngineAssumption
-----------------------------------------------------------------------------
(* Retiring translations.                                                  *)

(* A flush leaves nothing cached, nothing linked and no slot claimed.      *)
LEMMA FlushSound ==
  ASSUME CodeTypes, Flush
  PROVE  CodeSound' /\ LinksPoint' /\ Cached' = {} /\ (\A x \in Addrs : cache'[x] = None)
         /\ slots' \in [1 .. Capacity -> [guest : Addrs, host : Hosts] \cup {None}]
<1>1. /\ cache' = [x \in Addrs |-> None] /\ front' = [i \in Fronts |-> None]
      /\ region' = [h \in Hosts |-> None] /\ slots' = Unlinked /\ claimed' = 0
  BY DEF Flush
<1>2. slots' \in [1 .. Capacity -> [guest : Addrs, host : Hosts] \cup {None}]
  BY <1>1 DEF CodeTypes, Unlinked
<1>3. Cached' = {} /\ \A x \in Addrs : cache'[x] = None
  BY <1>1 DEF Cached
<1>4. CodeTypes'
  BY <1>1, <1>2, EngineAssumption DEF CodeTypes
<1>5. Placed' /\ SlotsApart'
  BY <1>1, <1>3 DEF Placed, SlotsApart
<1>6. LinksPoint'
  <2>1. \A i \in 1 .. claimed' : FALSE
    BY <1>1
  <2> QED
    BY <1>1, <2>1 DEF LinksPoint, Points
<1> QED
  BY <1>2, <1>3, <1>4, <1>5, <1>6 DEF CodeSound

(* Dropping blocks drops every link to them, and keeps the others sound.   *)
LEMMA DropSound ==
  ASSUME CodeSound, NEW gone \in SUBSET Addrs, Drop(gone)
  PROVE  /\ CodeSound' /\ (LinksPoint => LinksPoint')
         /\ Cached' \subseteq Cached /\ \A x \in Cached' : cache'[x] = cache[x]
<1>1. /\ cache' = [x \in Addrs |-> IF x \in gone THEN None ELSE cache[x]]
      /\ front' = FrontWithout(gone)
      /\ region' = [h \in Hosts |->
           IF Backend = "wasm" /\ region[h] # None /\ region[h].guest \in gone
           THEN None ELSE region[h]]
      /\ slots' = IF Cached \cap gone # {} THEN Unlinked ELSE slots
      /\ claimed' = claimed
  BY DEF Drop, ClaimedWithout
<1>2. slots' \in [1 .. Capacity -> [guest : Addrs, host : Hosts] \cup {None}]
  BY <1>1 DEF CodeSound, CodeTypes, Unlinked
<1>3. CodeTypes'
  BY <1>1, <1>2 DEF CodeSound, CodeTypes, FrontWithout
<1>4. /\ Cached' \subseteq Cached /\ Cached' \cap gone = {}
      /\ \A x \in Cached' : cache'[x] = cache[x]
  BY <1>1 DEF Cached
<1>5. Placed'
  <2> SUFFICES ASSUME NEW x \in Cached'
               PROVE  region'[cache'[x].host] # None /\ region'[cache'[x].host].guest = x
    BY DEF Placed
  <2>1. x \in Cached /\ x \notin gone /\ cache'[x] = cache[x] /\ cache[x].host \in Hosts
    BY <1>4 DEF CodeSound, CodeTypes, Cached
  <2>2. region[cache[x].host] # None /\ region[cache[x].host].guest = x
    BY <2>1 DEF CodeSound, Placed
  <2> QED
    BY <1>1, <2>1, <2>2
<1>6. SlotsApart'
  <2>1. \A h \in Hosts : region'[h] # None => region[h] # None /\ region'[h] = region[h]
    BY <1>1
  <2> QED
    BY <1>1, <2>1 DEF CodeSound, SlotsApart
<1>7. ASSUME LinksPoint PROVE LinksPoint'
  <2>1. CASE Cached \cap gone = {}
    <3>1. cache' = cache
      BY <1>1, <2>1 DEF Cached, CodeSound, CodeTypes
    <3>2. slots' = slots /\ claimed' = claimed
          /\ \A i \in Fronts : front'[i] # None => front'[i] = front[i]
      BY <1>1, <2>1 DEF FrontWithout
    <3> QED
      BY <1>7, <3>1, <3>2 DEF LinksPoint, Points
  <2>2. CASE Cached \cap gone # {}
    <3>1. \A i \in 1 .. claimed' : slots'[i] = None
      BY <1>1, <2>2, EngineAssumption DEF Unlinked, CodeSound, CodeTypes
    <3>2. ASSUME NEW i \in Fronts, front'[i] # None
          PROVE  /\ cache'[front'[i].guest] # None /\ cache'[front'[i].guest].host = front'[i].host
                 /\ ~cache'[front'[i].guest].guarded
      <4>1. front[i] # None /\ front[i].guest \notin gone /\ front'[i] = front[i]
            /\ front[i].guest \in Addrs
        BY <1>1, <3>2 DEF FrontWithout, CodeSound, CodeTypes
      <4>2. cache'[front[i].guest] = cache[front[i].guest]
        BY <1>1, <4>1
      <4> QED
        BY <1>7, <4>1, <4>2 DEF LinksPoint, Points
    <3> QED
      BY <3>1, <3>2 DEF LinksPoint, Points
  <2> QED
    BY <2>1, <2>2
<1> QED
  BY <1>3, <1>4, <1>5, <1>6, <1>7 DEF CodeSound
(* The code may be left alone, flushed or thinned; it stays sound, and no  *)
(* block becomes cached.                                                   *)
Retired == UNCHANGED code \/ Flush \/ \E gone \in SUBSET Addrs : Drop(gone)

LEMMA RetiredSound ==
  ASSUME CodeSound, LinksPoint, GuardsMatch, Retired, UNCHANGED run_stop
  PROVE  CodeSound' /\ LinksPoint' /\ GuardsMatch' /\ \A x \in Addrs : cache[x] = None => cache'[x] = None
<1>1. CASE UNCHANGED code
  <2>1. UNCHANGED <<cache, front, region, slots, claimed>>
    BY <1>1 DEF code
  <2> QED
    BY <2>1 DEF CodeSound, CodeTypes, Placed, SlotsApart, LinksPoint, Points, GuardsMatch, Cached
<1>2. CASE Flush
  <2>1. CodeSound' /\ LinksPoint' /\ Cached' = {} /\ \A x \in Addrs : cache'[x] = None
    BY <1>2, FlushSound DEF CodeSound
  <2> QED
    BY <2>1 DEF GuardsMatch
<1>3. CASE \E gone \in SUBSET Addrs : Drop(gone)
  <2>1. PICK gone \in SUBSET Addrs : Drop(gone)
    BY <1>3
  <2>2. /\ CodeSound' /\ LinksPoint'
        /\ Cached' \subseteq Cached /\ \A x \in Cached' : cache'[x] = cache[x]
    BY <2>1, DropSound
  <2>3. GuardsMatch'
    BY <2>2 DEF GuardsMatch
  <2>4. \A x \in Addrs : cache[x] = None => cache'[x] = None
    BY <2>2 DEF Cached
  <2> QED
    BY <2>2, <2>3, <2>4
<1> QED
  BY <1>1, <1>2, <1>3 DEF Retired

(* Away from translated code the invariant is what the parts say.          *)
LEMMA NotRunning ==
  ASSUME (CodeSound /\ LinksPoint /\ GuardsMatch /\ Thread /\ MissedIsMissing /\ pc # "in")'
  PROVE  EngineInv'
  BY DEF EngineInv, Alone, RunsItsBlock, ContractAsks

(* A step that retires code at most, from and to outside translated code.  *)
LEMMA RetiredStep ==
  ASSUME EngineInv, pc # "in", Retired, UNCHANGED run_stop,
         Thread', MissedIsMissing', pc' # "in"
  PROVE  EngineInv'
<1>1. CodeSound /\ LinksPoint /\ GuardsMatch
  BY DEF EngineInv
<1>2. CodeSound' /\ LinksPoint' /\ GuardsMatch'
  BY <1>1, RetiredSound
<1> QED
  BY <1>2, NotRunning

-----------------------------------------------------------------------------
(* What an exit of a block does.                                           *)

(* The checks before a transfer: not to the run's stop, and not with the   *)
(* last of the budget.                                                     *)
LEMMA TryFact ==
  ASSUME NEW n \in 0 .. Word - 1, NEW target
  PROVE  /\ Try(n, target).budget \in 0 .. Word - 1
         /\ Try(n, target).go => target # chain_run.stop /\ n # 1
         /\ n >= 1 => IF Try(n, target).go THEN Try(n, target).budget = n - 1
                      ELSE Try(n, target).budget = n \/ (n = 1 /\ Try(n, target).budget = 0)
<1>1. /\ (n + Word - 1) % Word \in 0 .. Word - 1
      /\ n # 0 => (n + Word - 1) % Word = n - 1
  BY StepFact
<1>2. CASE target = chain_run.stop
  BY <1>2 DEF Try
<1>3. CASE target # chain_run.stop
  <2> DEFINE m == (n + Word - 1) % Word
  <2>1. m \in 0 .. Word - 1 /\ (n # 0 => m = n - 1)
    BY <1>1
  <2>2. Try(n, target).budget = m /\ (Try(n, target).go <=> m # 0)
    BY <1>3 DEF Try
  <2> HIDE DEF m
  <2> QED
    BY <1>3, <2>1, <2>2
<1> QED
  BY <1>2, <1>3

(* A native exit is followed through its slot or the front array, never to *)
(* the run's stop, and takes one of the budget, which was not its last.    *)
LEMMA NativeExitFact ==
  ASSUME NEW s \in 1 .. Capacity, NEW target, NEW computed \in BOOLEAN, chain_run \in Header
  PROVE  LET x == NativeExit(s, target, computed)
             b == chain_run.budget
         IN  /\ x.budget \in 0 .. Word - 1 /\ x.pending \in 0 .. Capacity
             /\ x.to # None => /\ x.to = Linked(s, target) \/ x.to = Probed(target)
                               /\ target # chain_run.stop
                               /\ b # 1
             /\ b >= 1 => IF x.to # None THEN x.budget = b - 1
                          ELSE x.budget = b \/ (b = 1 /\ x.budget = 0)
<1>1. chain_run.budget \in 0 .. Word - 1 /\ chain_run.pending \in 0 .. Capacity
  BY DEF Header
<1>2. Capacity \in Nat
  BY EngineAssumption
<1> DEFINE b == chain_run.budget
           try == Try(b, target)
<1>3. /\ try.budget \in 0 .. Word - 1
      /\ try.go => target # chain_run.stop /\ b # 1
      /\ b >= 1 => IF try.go THEN try.budget = b - 1
                   ELSE try.budget = b \/ (b = 1 /\ try.budget = 0)
  BY <1>1, TryFact
<1> HIDE DEF try
<1>4. NativeExit(s, target, computed) =
        IF Linked(s, target) # None /\ try.go
        THEN [to |-> Linked(s, target), budget |-> try.budget, pending |-> chain_run.pending]
        ELSE IF Linked(s, target) # None
        THEN [to |-> None, budget |-> try.budget, pending |-> s]
        ELSE IF computed /\ Probed(target) # None
        THEN [to |-> IF try.go THEN Probed(target) ELSE None, budget |-> try.budget,
              pending |-> IF try.go THEN 0 ELSE s]
        ELSE [to |-> None, budget |-> b, pending |-> s]
  BY DEF NativeExit, try
<1> QED
  BY <1>1, <1>2, <1>3, <1>4

(* A WebAssembly exit may step the budget twice; an exit whose slot is     *)
(* empty, at its last step, is not followed.                               *)
LEMMA WasmExitFact ==
  ASSUME NEW s \in 1 .. Capacity, NEW target, NEW computed \in BOOLEAN, chain_run \in Header
  PROVE  LET x == WasmExit(s, target, computed)
             b == chain_run.budget
         IN  /\ x.budget \in 0 .. Word - 1 /\ x.pending \in 0 .. Capacity
             /\ x.to # None => /\ x.to = Linked(s, target) \/ x.to = Probed(target)
                               /\ target # chain_run.stop
             /\ b = 1 /\ slots[s] = None => x.to = None
<1> DEFINE b == chain_run.budget
           host == Linked(s, target)
           first == IF host = None THEN [go |-> FALSE, budget |-> b] ELSE Try(b, target)
           second == Try(first.budget, target)
           probed == IF computed THEN Probed(target) ELSE None
<1>1. b \in 0 .. Word - 1 /\ chain_run.pending \in 0 .. Capacity
  BY DEF Header
<1>2. Capacity \in Nat /\ Word \in Nat
  BY EngineAssumption
<1>3. \A n \in 0 .. Word - 1 :
        /\ Try(n, target).budget \in 0 .. Word - 1
        /\ Try(n, target).go => target # chain_run.stop
        /\ n = 1 => ~Try(n, target).go
  BY TryFact
<1>4. /\ first.budget \in 0 .. Word - 1 /\ (first.go => target # chain_run.stop)
      /\ host = None => ~first.go /\ first.budget = b
  BY <1>1, <1>3
<1>5. second.budget \in 0 .. Word - 1 /\ (second.go => target # chain_run.stop)
  BY <1>3, <1>4
<1>6. WasmExit(s, target, computed) =
        IF first.go
        THEN [to |-> host, budget |-> first.budget, pending |-> chain_run.pending]
        ELSE IF probed # None
        THEN [to |-> IF second.go THEN probed ELSE None, budget |-> second.budget,
              pending |-> IF second.go THEN 0 ELSE s]
        ELSE [to |-> None, budget |-> first.budget, pending |-> s]
  BY DEF WasmExit
<1> HIDE DEF first, second
<1>7. slots[s] = None => host = None
  BY DEF Linked
<1>8. b = 1 /\ slots[s] = None => ~first.go /\ ~second.go
  BY <1>1, <1>3, <1>4, <1>7 DEF second
<1> QED
  BY <1>1, <1>2, <1>4, <1>5, <1>6, <1>8
(* The block running has its own slots and the header of its run.          *)
LEMMA RunningFact ==
  ASSUME EngineInv, pc = "in"
  PROVE  /\ eip \in Addrs /\ eip \in Cached /\ at \in Hosts /\ region[at] # None
         /\ region[at].first \in 1 .. claimed /\ region[at].first + 1 \in 1 .. claimed
         /\ claimed \in 0 .. Capacity /\ Capacity \in Nat
         /\ chain_run \in Header /\ chain_run.stop = stop
<1>1. eip \in Addrs /\ chain_run \in Header /\ chain_run.stop = stop
  BY DEF EngineInv, Thread
<1>2. cache[eip] # None /\ cache[eip].host = at /\ region[at] # None
  BY DEF EngineInv, RunsItsBlock
<1>3. at \in Hosts
  BY <1>1, <1>2 DEF EngineInv, CodeSound, CodeTypes
<1>4. claimed \in 0 .. Capacity /\ Capacity \in Nat
  BY EngineAssumption DEF EngineInv, CodeSound, CodeTypes
<1>5. region[at].first \in 1 .. Capacity
  BY <1>2, <1>3 DEF EngineInv, CodeSound, CodeTypes
<1>6. region[at].first >= 1 /\ region[at].first + 1 <= claimed
  BY <1>2, <1>3 DEF EngineInv, CodeSound, SlotsApart
<1> QED
  BY <1>1, <1>2, <1>3, <1>4, <1>5, <1>6 DEF Cached

(* Where an exit leads: to an unguarded cached block that is not the       *)
(* run's stop, and never with the cache off.                               *)
LEMMA ExitSound ==
  ASSUME EngineInv, pc = "in", NEW computed \in BOOLEAN, NEW target \in Addrs
  PROVE  LET x == Exit(computed, target)
         IN  /\ x.budget \in 0 .. Word - 1 /\ x.pending \in 0 .. Capacity
             /\ x.to # None => /\ ~cache_disabled /\ target # stop
                               /\ cache[target] # None /\ cache[target].host = x.to
                               /\ ~cache[target].guarded
<1> DEFINE x == Exit(computed, target)
           s == region[at].first + (IF computed THEN 1 ELSE 0)
<1>1. /\ s \in 1 .. claimed /\ s \in 1 .. Capacity
      /\ chain_run \in Header /\ chain_run.stop = stop
  BY RunningFact
<1>2. x = IF Backend = "wasm" THEN WasmExit(s, target, computed) ELSE NativeExit(s, target, computed)
  BY DEF Exit
<1>3. cache_disabled => slots[s] = None /\ chain_run.budget = 1
  BY RunningFact DEF EngineInv, Alone
<1> HIDE DEF s, x
<1>4. /\ x.budget \in 0 .. Word - 1 /\ x.pending \in 0 .. Capacity
      /\ x.to # None => /\ x.to = Linked(s, target) \/ x.to = Probed(target)
                        /\ target # stop /\ ~cache_disabled
  <2>1. CASE Backend = "wasm"
    BY <1>1, <1>2, <1>3, <2>1, WasmExitFact
  <2>2. CASE Backend # "wasm"
    BY <1>1, <1>2, <1>3, <2>2, NativeExitFact
  <2> QED
    BY <2>1, <2>2
<1>5. ASSUME x.to # None
      PROVE  cache[target] # None /\ cache[target].host = x.to /\ ~cache[target].guarded
  <2>1. LinksPoint
    BY <1>4, <1>5 DEF EngineInv
  <2>2. CASE x.to = Linked(s, target)
    <3>1. slots[s] # None /\ slots[s].guest = target /\ slots[s].host = x.to
      BY <1>5, <2>2 DEF Linked
    <3>2. Points(slots[s])
      BY <1>1, <2>1 DEF LinksPoint
    <3> QED
      BY <3>1, <3>2 DEF Points
  <2>3. CASE x.to = Probed(target)
    <3>1. front[FrontOf(target)] # None /\ front[FrontOf(target)].guest = target
          /\ front[FrontOf(target)].host = x.to
      BY <1>5, <2>3 DEF Probed
    <3>2. FrontOf(target) \in Fronts
      BY DEF Fronts
    <3>3. Points(front[FrontOf(target)])
      BY <2>1, <3>2 DEF LinksPoint
    <3> QED
      BY <3>1, <3>3 DEF Points
  <2> QED
    BY <1>4, <1>5, <2>2, <2>3
<1> QED
  BY <1>4, <1>5 DEF x

-----------------------------------------------------------------------------
(* The steps of the embedder and of the dispatcher.                        *)

(* A run that returns leaves the thread idle.                              *)
LEMMA ReturnsThread ==
  ASSUME Thread, RunReturns, chain_run' \in Header \cup {None}, UNCHANGED settings,
         at' \in Hosts \cup {None}
  PROVE  Thread' /\ MissedIsMissing' /\ pc' # "in"
<1>1. 0 \in 0 .. Word - 1 /\ 0 \in 0 .. MaxSteps + 1 /\ 0 \in 0 .. Capacity
  BY EngineAssumption
<1>2. pending' \in [slot : 0 .. Capacity, flushed : BOOLEAN]
  BY <1>1 DEF RunReturns, NoPending
<1>3. /\ pc' = "out" /\ eip' = None /\ asked' = FALSE
      /\ stop' = None /\ steps' = 0 /\ retries' = 0 /\ taken' = 0
      /\ run_stop' = run_stop /\ armed' = armed /\ cache_disabled' = cache_disabled
  BY DEF RunReturns, settings
<1>4. chain_run' \in Header' \cup {None}
  BY DEF Header
<1>5. (run_stop \in BOOLEAN /\ armed \in BOOLEAN /\ cache_disabled \in BOOLEAN)'
  BY <1>3 DEF Thread
<1>6. MissedIsMissing' /\ pc' # "in"
  BY <1>3 DEF MissedIsMissing
<1>7. asked' \in BOOLEAN /\ (pc' = "room" => asked')
  BY <1>3
<1>8. /\ stop' \in Addrs \cup {None} /\ steps' \in 0 .. Word - 1 /\ retries' \in 0 .. 1
      /\ taken' \in 0 .. MaxSteps + 1
      /\ pc' \in {"out", "top", "ask", "room", "in"} /\ eip' \in Addrs \cup {None}
      /\ pc' = "out"
  BY <1>1, <1>3
<1> QED
  BY <1>2, <1>4, <1>5, <1>6, <1>7, <1>8 DEF Thread

(* A block is entered with a step left, under a header of this run.        *)
LEMMA EnterThread ==
  ASSUME Thread, pc \in {"top", "ask", "room"}, steps < MaxSteps, NEW h \in Hosts, Enter(h),
         pending' \in [slot : 0 .. Capacity, flushed : BOOLEAN], asked' \in BOOLEAN
  PROVE  Thread' /\ UNCHANGED settings
<1>1. MaxSteps \in Nat /\ Word \in Nat /\ MaxSteps < Word /\ 1 <= MaxSteps
  BY EngineAssumption
<1>2. Allowed \in 0 .. Word - 1
  BY <1>1 DEF Allowed, Thread
<1>3. chain_run' \in Header /\ chain_run'.stop = stop
  <2>1. 0 \in 0 .. Capacity
    BY EngineAssumption
  <2> QED
    BY <1>2, <2>1 DEF Enter, Header, Thread
<1>4. taken' \in 0 .. MaxSteps + 1
  BY <1>1 DEF Enter, Counted, Thread
<1> QED
  BY <1>3, <1>4 DEF Enter, Thread, settings

(* Where invalidation, the intercept and the storage take blocks away.     *)
LEMMA Retires ==
  /\ UNCHANGED code => Retired
  /\ Flush => Retired
  /\ \A gone \in SUBSET Addrs : Drop(gone) => Retired
  BY DEF Retired

LEMMA EmbedderStep ==
  ASSUME EngineInv, Embedder
  PROVE  EngineInv'
<1>1. Thread /\ pc = "out"
  BY DEF EngineInv, Embedder, Invalidate, InvalidateAll, SetRunStop, SetDiagnostics, SetCache, Run
<1>2. ASSUME NEW x \in Addrs, Invalidate(x) PROVE EngineInv'
  <2>1. Retired /\ UNCHANGED run_stop
    BY <1>2, Retires DEF Invalidate, settings
  <2>2. Thread' /\ MissedIsMissing' /\ pc' # "in"
    BY <1>1, <1>2 DEF Invalidate, Thread, settings, locals, MissedIsMissing
  <2> QED
    BY <1>1, <2>1, <2>2, RetiredStep
<1>3. CASE InvalidateAll
  <2>1. Retired /\ UNCHANGED run_stop
    BY <1>3, Retires DEF InvalidateAll, settings
  <2>2. Thread' /\ MissedIsMissing' /\ pc' # "in"
    BY <1>1, <1>3 DEF InvalidateAll, Thread, settings, locals, MissedIsMissing
  <2> QED
    BY <1>1, <2>1, <2>2, RetiredStep
<1>4. ASSUME NEW on \in BOOLEAN, SetRunStop(on) PROVE EngineInv'
  <2>1. Thread' /\ MissedIsMissing' /\ pc' # "in"
    BY <1>1, <1>4 DEF SetRunStop, Thread, locals, MissedIsMissing
  <2>2. UNCHANGED <<cache, front, region, slots, claimed>>
    BY <1>4 DEF SetRunStop, code
  <2>3. CodeSound' /\ LinksPoint'
    BY <1>1, <2>2 DEF EngineInv, CodeSound, CodeTypes, Placed, SlotsApart, LinksPoint, Points, Cached
  <2>4. GuardsMatch'
    <3>1. run_stop' => Cached' = {}
      BY <1>4, <2>2 DEF SetRunStop, MayInstall, Cached
    <3> QED
      BY <3>1 DEF GuardsMatch
  <2> QED
    BY <2>1, <2>3, <2>4, NotRunning
<1>5. ASSUME NEW on \in BOOLEAN, SetDiagnostics(on) PROVE EngineInv'
  <2>1. Retired /\ UNCHANGED run_stop
    BY <1>5, Retires DEF SetDiagnostics
  <2>2. Thread' /\ MissedIsMissing' /\ pc' # "in"
    BY <1>1, <1>5 DEF SetDiagnostics, Thread, locals, MissedIsMissing
  <2> QED
    BY <1>1, <2>1, <2>2, RetiredStep
<1>6. ASSUME NEW on \in BOOLEAN, SetCache(on) PROVE EngineInv'
  <2>1. Retired /\ UNCHANGED run_stop
    BY <1>6, Retires DEF SetCache
  <2>2. Thread' /\ MissedIsMissing' /\ pc' # "in"
    BY <1>1, <1>6 DEF SetCache, Thread, locals, MissedIsMissing
  <2> QED
    BY <1>1, <2>1, <2>2, RetiredStep
<1>7. ASSUME NEW from \in Addrs, NEW at_stop \in Addrs, NEW host_state \in BOOLEAN,
             Run(from, at_stop, host_state)
      PROVE  EngineInv'
  <2>1. Retired /\ UNCHANGED run_stop
    BY <1>7, Retires DEF Run, settings
  <2>2. MaxSteps \in Nat /\ Word \in Nat /\ MaxSteps < Word /\ Capacity \in Nat
    BY EngineAssumption
  <2>3. Thread' /\ MissedIsMissing' /\ pc' # "in"
    BY <1>1, <1>7, <2>2 DEF Run, Thread, settings, MissedIsMissing, NoPending
  <2> QED
    BY <1>1, <2>1, <2>3, RetiredStep
<1> QED
  BY <1>2, <1>3, <1>4, <1>5, <1>6, <1>7 DEF Embedder

(* The dispatcher outside translated code and short of entering it.        *)
Dispatching ==
  \/ BudgetSpent \/ AskFirst \/ InterceptUnwinds \/ Missed
  \/ \E to \in Addrs, gone \in Addrs \cup {"all", None} : Dispatched(to, gone)
  \/ FlushForRoom \/ OutOfSpace \/ TranslateRefused \/ CacheFull
  \/ \E gone \in SUBSET Addrs : EvictForRoom(gone)

LEMMA DispatchStep ==
  ASSUME EngineInv, Dispatching
  PROVE  EngineInv'
<1>1. Thread /\ MissedIsMissing
  BY DEF EngineInv
<1>2. MaxSteps \in Nat /\ Word \in Nat /\ MaxSteps < Word /\ Capacity \in Nat
  BY EngineAssumption
<1>3. CASE BudgetSpent
  <2>1. pc # "in" /\ Retired /\ UNCHANGED run_stop
    BY <1>3, Retires DEF BudgetSpent, settings
  <2>2. Thread' /\ MissedIsMissing' /\ pc' # "in"
    <3>1. chain_run' \in Header \cup {None} /\ at' \in Hosts \cup {None}
      BY <1>1, <1>3 DEF BudgetSpent, Thread
    <3> QED
      BY <1>1, <1>3, <3>1, ReturnsThread DEF BudgetSpent
  <2> QED
    BY <2>1, <2>2, RetiredStep
<1>4. CASE AskFirst
  <2>1. pc # "in" /\ Retired /\ UNCHANGED run_stop
    BY <1>4, Retires DEF AskFirst, settings
  <2>2. Thread' /\ MissedIsMissing' /\ pc' # "in"
    BY <1>1, <1>2, <1>4 DEF AskFirst, Thread, settings, locals, MissedIsMissing, NoPending
  <2> QED
    BY <2>1, <2>2, RetiredStep
<1>5. CASE InterceptUnwinds
  <2>1. pc # "in" /\ Retired /\ UNCHANGED run_stop
    BY <1>5, Retires DEF InterceptUnwinds, settings
  <2>2. Thread' /\ MissedIsMissing' /\ pc' # "in"
    <3>1. chain_run' \in Header \cup {None} /\ at' \in Hosts \cup {None}
      BY <1>1, <1>5 DEF InterceptUnwinds, Thread
    <3> QED
      BY <1>1, <1>5, <3>1, ReturnsThread DEF InterceptUnwinds
  <2> QED
    BY <2>1, <2>2, RetiredStep
<1>6. CASE Missed
  <2>1. pc # "in" /\ Retired /\ UNCHANGED run_stop
    BY <1>6, Retires DEF Missed, settings
  <2>2. Thread' /\ pc' # "in"
    BY <1>1, <1>6 DEF Missed, Thread, settings, locals
  <2>3. MissedIsMissing'
    BY <1>6 DEF Missed, MissedIsMissing, settings, code
  <2> QED
    BY <2>1, <2>2, <2>3, RetiredStep
<1>7. ASSUME NEW to \in Addrs, NEW gone \in Addrs \cup {"all", None}, Dispatched(to, gone)
      PROVE  EngineInv'
  <2>1. pc # "in" /\ UNCHANGED run_stop
    BY <1>7 DEF Dispatched, settings
  <2>2. Retired
    <3>1. Flush \/ UNCHANGED code \/ (gone \in Addrs /\ Drop({gone}))
      BY <1>7 DEF Dispatched
    <3> QED
      BY <3>1, Retires
  <2>3. steps < MaxSteps
    BY <1>1, <1>7 DEF Dispatched, Thread
  <2>4. Thread' /\ MissedIsMissing' /\ pc' # "in"
    BY <1>1, <1>2, <1>7, <2>3 DEF Dispatched, Thread, settings, Counted, MissedIsMissing
  <2> QED
    BY <2>1, <2>2, <2>4, RetiredStep
<1>8. CASE FlushForRoom
  <2>1. pc # "in" /\ Retired /\ UNCHANGED run_stop
    BY <1>8, Retires DEF FlushForRoom, settings
  <2>2. Thread' /\ pc' # "in"
    BY <1>1, <1>8 DEF FlushForRoom, Thread, settings, locals
  <2>3. MissedIsMissing'
    BY <1>1, <1>8 DEF FlushForRoom, Flush, MissedIsMissing, Thread
  <2> QED
    BY <2>1, <2>2, <2>3, RetiredStep
<1>9. ASSUME NEW gone \in SUBSET Addrs, EvictForRoom(gone) PROVE EngineInv'
  <2>1. pc # "in" /\ Retired /\ UNCHANGED run_stop
    BY <1>9, Retires DEF EvictForRoom, settings
  <2>2. Thread' /\ pc' # "in"
    BY <1>1, <1>9 DEF EvictForRoom, Thread, settings, locals
  <2>3. MissedIsMissing'
    BY <1>1, <1>9 DEF EvictForRoom, Drop, MissedIsMissing, Thread, settings
  <2> QED
    BY <2>1, <2>2, <2>3, RetiredStep
<1>10. ASSUME pc = "room", RetryOrGiveUp, UNCHANGED <<chain_run, settings, at>>
       PROVE  Thread' /\ MissedIsMissing' /\ pc' # "in"
  <2>1. CASE MayRetry
    <3>1. UNCHANGED <<stop, steps, taken, pending, eip, chain_run, at,
                      run_stop, armed, cache_disabled>>
      BY <1>10, <2>1 DEF RetryOrGiveUp, settings
    <3>2. retries' \in 0 .. 1 /\ pc' = "top"
      BY <1>10, <2>1 DEF RetryOrGiveUp
    <3>3. asked' \in BOOLEAN
      BY <1>10, <2>1, Zenon DEF RetryOrGiveUp
    <3> QED
      BY <1>1, <1>10, <3>1, <3>2, <3>3 DEF Thread, Header, MissedIsMissing
  <2>2. CASE ~MayRetry
    <3>1. RunReturns /\ chain_run' \in Header \cup {None} /\ at' \in Hosts \cup {None}
      BY <1>1, <1>10, <2>2 DEF RetryOrGiveUp, Thread
    <3> QED
      BY <1>1, <1>10, <3>1, ReturnsThread
  <2> QED
    BY <2>1, <2>2
<1>11. CASE OutOfSpace
  <2>1. pc # "in" /\ Retired /\ UNCHANGED run_stop
    BY <1>11, Retires DEF OutOfSpace, settings
  <2> QED
    BY <1>10, <1>11, <2>1, RetiredStep DEF OutOfSpace
<1>12. CASE TranslateRefused
  <2>1. pc # "in" /\ Retired /\ UNCHANGED run_stop
    BY <1>12, Retires DEF TranslateRefused, settings
  <2>2. Thread' /\ MissedIsMissing' /\ pc' # "in"
    <3>1. chain_run' \in Header \cup {None} /\ at' \in Hosts \cup {None}
      BY <1>1, <1>12 DEF TranslateRefused, Thread
    <3> QED
      BY <1>1, <1>12, <3>1, ReturnsThread DEF TranslateRefused
  <2> QED
    BY <2>1, <2>2, RetiredStep
<1>13. CASE CacheFull
  <2>1. pc # "in" /\ Retired /\ UNCHANGED run_stop
    BY <1>13, Retires DEF CacheFull, settings
  <2> QED
    BY <1>10, <1>13, <2>1, RetiredStep DEF CacheFull
<1> QED
  BY <1>3, <1>4, <1>5, <1>6, <1>7, <1>8, <1>9, <1>11, <1>12, <1>13 DEF Dispatching

-----------------------------------------------------------------------------
(* The steps into, between and out of translated code.                     *)

(* A cached block is entered, and may be written into a slot or the front  *)
(* array if no one need ask about it.                                      *)
LEMMA CachedEntry ==
  ASSUME EngineInv, pc \in {"top", "ask"}, steps < MaxSteps, ~cache_disabled,
         cache[eip] # None, Enter(cache[eip].host), UNCHANGED <<cache, region, claimed>>,
         slots' \in {slots} \cup
           {[slots EXCEPT ![i] = [guest |-> eip, host |-> cache[eip].host]] : i \in 1 .. Capacity},
         front' \in {front, [front EXCEPT ![FrontOf(eip)] = [guest |-> eip, host |-> cache[eip].host]]},
         cache[eip].guarded => UNCHANGED <<slots, front>>,
         pending' \in [slot : 0 .. Capacity, flushed : BOOLEAN], asked' \in BOOLEAN,
         Contract => asked' \/ (eip # stop /\ ~cache[eip].guarded)
  PROVE  EngineInv'
<1>1. eip \in Addrs /\ CodeSound /\ LinksPoint /\ Thread /\ GuardsMatch
  BY DEF EngineInv, Thread
<1>2. cache[eip] \in [host : Hosts, guarded : BOOLEAN]
  BY <1>1 DEF CodeSound, CodeTypes
<1>3. /\ chain_run' = [budget |-> Allowed, stop |-> stop, last |-> eip, pending |-> 0]
      /\ at' = cache[eip].host /\ pc' = "in" /\ eip' = eip /\ stop' = stop
  BY DEF Enter
<1>4. Thread' /\ UNCHANGED <<run_stop, armed, cache_disabled>>
  BY <1>1, <1>2, EnterThread DEF settings
<1> DEFINE link == [guest |-> eip, host |-> cache[eip].host]
<1>5. link \in [guest : Addrs, host : Hosts]
  BY <1>1, <1>2
<1>6. /\ \A i \in 1 .. Capacity : slots'[i] = slots[i] \/ (slots'[i] = link /\ ~cache[eip].guarded)
      /\ \A i \in Fronts : front'[i] = front[i] \/ (front'[i] = link /\ ~cache[eip].guarded)
  BY <1>1 DEF CodeSound, CodeTypes
<1>7. CodeTypes'
  BY <1>1, <1>5 DEF CodeSound, CodeTypes
<1>8. Placed' /\ SlotsApart' /\ GuardsMatch'
  BY <1>1, <1>4 DEF CodeSound, Placed, SlotsApart, GuardsMatch, Cached
<1>9. LinksPoint'
  <2>1. claimed \in 0 .. Capacity
    BY <1>1 DEF CodeSound, CodeTypes
  <2>2. \A i \in 1 .. claimed : slots'[i] # None =>
          /\ cache[slots'[i].guest] # None /\ cache[slots'[i].guest].host = slots'[i].host
          /\ ~cache[slots'[i].guest].guarded
    BY <1>1, <1>6, <2>1, EngineAssumption DEF LinksPoint, Points
  <2>3. \A i \in Fronts : front'[i] # None =>
          /\ cache[front'[i].guest] # None /\ cache[front'[i].guest].host = front'[i].host
          /\ ~cache[front'[i].guest].guarded
    BY <1>1, <1>6 DEF LinksPoint, Points
  <2> QED
    BY <2>2, <2>3 DEF LinksPoint, Points
<1>10. RunsItsBlock'
  <2>1. region[cache[eip].host] # None /\ region[cache[eip].host].guest = eip
    BY <1>1 DEF CodeSound, Placed, Cached
  <2> QED
    BY <1>3, <2>1 DEF RunsItsBlock
<1>11. MissedIsMissing' /\ Alone'
  BY <1>3, <1>4 DEF MissedIsMissing, Alone
<1>12. ContractAsks'
  <2>1. run_stop /\ ~cache[eip].guarded => eip \notin Boundary
    BY <1>1 DEF GuardsMatch, Cached
  <2>2. Contract' <=> Contract
    BY <1>4 DEF Contract
  <2> QED
    BY <1>3, <2>1, <2>2 DEF ContractAsks, Contract
<1> QED
  BY <1>4, <1>7, <1>8, <1>9, <1>10, <1>11, <1>12 DEF EngineInv, CodeSound

(* The dispatcher enters a cached block without asking, or having asked.   *)
LEMMA EnterStep ==
  ASSUME EngineInv, EnterUnguarded \/ EnterAsked
  PROVE  EngineInv'
<1>1. Thread /\ CodeSound
  BY DEF EngineInv
<1>2. NoPending \in [slot : 0 .. Capacity, flushed : BOOLEAN]
  BY EngineAssumption DEF NoPending
<1>3. CASE EnterUnguarded
  <2>1. /\ pc = "top" /\ steps < MaxSteps /\ Contract /\ ~cache_disabled
        /\ eip # stop /\ cache[eip] # None /\ ~cache[eip].guarded
        /\ Enter(cache[eip].host) /\ UNCHANGED <<cache, region, claimed>>
    BY <1>3 DEF EnterUnguarded, Unguarded, Contract
  <2>2. pending' \in [slot : 0 .. Capacity, flushed : BOOLEAN]
    BY <1>2, <1>3 DEF EnterUnguarded
  <2>3. asked' \in BOOLEAN
    BY <1>3, Zenon DEF EnterUnguarded
  <2>4. MayLink => pending.slot \in 1 .. Capacity
    BY <1>1, EngineAssumption DEF MayLink, Thread
  <2>5. slots' \in {slots} \cup
          {[slots EXCEPT ![i] = [guest |-> eip, host |-> cache[eip].host]] : i \in 1 .. Capacity}
    BY <1>3, <2>4 DEF EnterUnguarded
  <2>6. front' \in {front, [front EXCEPT ![FrontOf(eip)] = [guest |-> eip, host |-> cache[eip].host]]}
    BY <1>3 DEF EnterUnguarded, FrontHit
  <2> QED
    BY <2>1, <2>2, <2>3, <2>5, <2>6, CachedEntry
<1>4. CASE EnterAsked
  <2>1. /\ pc = "ask" /\ ~cache_disabled /\ cache[eip] # None
        /\ Enter(cache[eip].host) /\ UNCHANGED <<cache, region, claimed, slots, pending>>
    BY <1>4 DEF EnterAsked
  <2>2. steps < MaxSteps /\ pending \in [slot : 0 .. Capacity, flushed : BOOLEAN]
    BY <1>1, <2>1 DEF Thread
  <2>3. asked' \in BOOLEAN /\ asked'
    BY <1>4, Zenon DEF EnterAsked
  <2>4. /\ front' \in {front, [front EXCEPT ![FrontOf(eip)] = [guest |-> eip, host |-> cache[eip].host]]}
        /\ cache[eip].guarded => front' = front
    BY <1>4 DEF EnterAsked, FrontHit
  <2> QED
    BY <2>1, <2>2, <2>3, <2>4, CachedEntry
<1> QED
  BY <1>3, <1>4

(* A new translation replaces nothing that is linked to, unless the cache  *)
(* is off and it runs alone; its slots are fresh.                          *)
LEMMA TranslateStep ==
  ASSUME EngineInv, NEW h \in Hosts, Translate(h)
  PROVE  EngineInv'
<1>1. /\ CodeSound /\ LinksPoint /\ Thread /\ GuardsMatch /\ MissedIsMissing
      /\ pc = "room" /\ eip \in Addrs /\ steps < MaxSteps /\ asked
      /\ region[h] = None
  BY DEF EngineInv, Thread, Translate, Offered, FreeHosts
<1>2. /\ region' = [region EXCEPT ![h] = [guest |-> eip, first |-> claimed + 1]]
      /\ slots' = [i \in 1 .. Capacity |->
           IF i \in claimed + 1 .. claimed + 2 THEN None ELSE slots[i]]
      /\ claimed' = claimed + 2
      /\ cache' = [cache EXCEPT ![eip] = [host |-> h, guarded |-> Guards]]
      /\ front' = FrontWithout({eip})
      /\ Enter(h) /\ pending' = pending /\ asked' = asked
  BY DEF Translate, SlotsPerBlock
<1>3. claimed \in Nat /\ Capacity \in Nat /\ claimed + 2 <= Capacity
  BY <1>1, EngineAssumption DEF Translate, SlotsSuffice, SlotsPerBlock, CodeSound, CodeTypes
<1>4. /\ chain_run' = [budget |-> Allowed, stop |-> stop, last |-> eip, pending |-> 0]
      /\ at' = h /\ pc' = "in" /\ eip' = eip /\ stop' = stop
  BY <1>2 DEF Enter
<1>5. Thread' /\ UNCHANGED <<run_stop, armed, cache_disabled>>
  BY <1>1, <1>2, EnterThread DEF settings, Thread
<1>6. Guards \in BOOLEAN
  BY <1>1 DEF Guards, Thread
<1>7. CodeTypes'
  <2>1. slots' \in [1 .. Capacity -> [guest : Addrs, host : Hosts] \cup {None}]
    BY <1>1, <1>2 DEF CodeSound, CodeTypes
  <2>2. front' \in [Fronts -> [guest : Addrs, host : Hosts] \cup {None}]
    BY <1>1, <1>2 DEF CodeSound, CodeTypes, FrontWithout
  <2>3. region' \in [Hosts -> [guest : Addrs, first : 1 .. Capacity] \cup {None}]
    BY <1>1, <1>2, <1>3 DEF CodeSound, CodeTypes
  <2>4. cache' \in [Addrs -> [host : Hosts, guarded : BOOLEAN] \cup {None}]
    BY <1>1, <1>2, <1>6 DEF CodeSound, CodeTypes
  <2>5. claimed' \in 0 .. Capacity
    BY <1>2, <1>3
  <2> QED
    BY <2>1, <2>2, <2>3, <2>4, <2>5 DEF CodeTypes
<1>8. \A x \in Addrs : x # eip => cache'[x] = cache[x]
  BY <1>1, <1>2 DEF CodeSound, CodeTypes
<1>9. cache'[eip] # None /\ cache'[eip].host = h /\ (cache'[eip].guarded <=> Guards)
  BY <1>1, <1>2, <1>6, EngineAssumption DEF CodeSound, CodeTypes
<1>10. /\ region'[h].guest = eip /\ region'[h].first = claimed + 1 /\ region'[h] # None
       /\ \A k \in Hosts \ {h} : region'[k] = region[k]
  BY <1>1, <1>2, <1>3, EngineAssumption DEF CodeSound, CodeTypes
<1>11. Placed'
  <2> SUFFICES ASSUME NEW x \in Cached'
               PROVE  region'[cache'[x].host] # None /\ region'[cache'[x].host].guest = x
    BY DEF Placed
  <2>1. CASE x = eip
    BY <1>9, <1>10, <2>1
  <2>2. CASE x # eip
    <3>1. x \in Cached /\ cache'[x] = cache[x] /\ cache[x].host \in Hosts
      BY <1>1, <1>8, <2>2 DEF Cached, CodeSound, CodeTypes
    <3>2. region[cache[x].host] # None /\ region[cache[x].host].guest = x
      BY <1>1, <3>1 DEF CodeSound, Placed
    <3> QED
      BY <1>1, <1>10, <3>1, <3>2
  <2> QED
    BY <2>1, <2>2
<1>12. SlotsApart'
  <2>1. \A k \in Hosts \ {h} : region'[k] # None =>
          /\ region[k] # None /\ region'[k] = region[k]
          /\ region[k].first \in Nat /\ region[k].first >= 1 /\ region[k].first + 1 <= claimed
    BY <1>1, <1>10 DEF CodeSound, CodeTypes, SlotsApart
  <2>2. ASSUME NEW g \in Hosts, region'[g] # None
        PROVE  region'[g].first >= 1 /\ region'[g].first + 1 <= claimed'
    <3>1. CASE g = h
      BY <1>2, <1>3, <1>10, <3>1
    <3>2. CASE g # h
      BY <1>2, <1>3, <2>1, <2>2, <3>2
    <3> QED
      BY <3>1, <3>2
  <2>3. ASSUME NEW g \in Hosts, region'[g] # None, NEW k \in Hosts \ {g}, region'[k] # None
        PROVE  \/ region'[g].first + 1 < region'[k].first
               \/ region'[k].first + 1 < region'[g].first
    <3>1. CASE g = h
      <4>1. region'[g].first = claimed + 1 /\ region'[k].first + 1 <= claimed
            /\ region'[k].first \in Nat
        BY <1>10, <2>1, <2>3, <3>1
      <4> QED
        BY <1>3, <4>1
    <3>2. CASE k = h
      <4>1. region'[k].first = claimed + 1 /\ region'[g].first + 1 <= claimed
            /\ region'[g].first \in Nat
        BY <1>10, <2>1, <2>3, <3>2
      <4> QED
        BY <1>3, <4>1
    <3>3. CASE g # h /\ k # h
      BY <1>1, <2>1, <2>3, <3>3 DEF CodeSound, SlotsApart
    <3> QED
      BY <3>1, <3>2, <3>3
  <2> QED
    BY <2>2, <2>3 DEF SlotsApart
<1>13. ASSUME ~cache_disabled PROVE LinksPoint'
  <2>1. cache[eip] = None
    BY <1>1, <1>13 DEF MissedIsMissing
  <2>2. ASSUME NEW i \in 1 .. claimed', slots'[i] # None
        PROVE  /\ cache'[slots'[i].guest] # None /\ cache'[slots'[i].guest].host = slots'[i].host
               /\ ~cache'[slots'[i].guest].guarded
    <3>1. i \in 1 .. claimed /\ slots'[i] = slots[i] /\ slots[i] # None
      BY <1>2, <1>3, <2>2
    <3>2. Points(slots[i]) /\ slots[i].guest \in Addrs
      BY <1>1, <1>3, <3>1 DEF LinksPoint, CodeSound, CodeTypes
    <3>3. slots[i].guest # eip
      BY <2>1, <3>1, <3>2 DEF Points
    <3> QED
      BY <1>8, <3>1, <3>2, <3>3 DEF Points
  <2>3. ASSUME NEW i \in Fronts, front'[i] # None
        PROVE  /\ cache'[front'[i].guest] # None /\ cache'[front'[i].guest].host = front'[i].host
               /\ ~cache'[front'[i].guest].guarded
    <3>1. front'[i] = front[i] /\ front[i] # None /\ front[i].guest # eip
      BY <1>2, <2>3 DEF FrontWithout
    <3>2. Points(front[i]) /\ front[i].guest \in Addrs
      BY <1>1, <3>1 DEF LinksPoint, CodeSound, CodeTypes
    <3> QED
      BY <1>8, <3>1, <3>2 DEF Points
  <2> QED
    BY <2>2, <2>3 DEF LinksPoint, Points
<1>14. GuardsMatch'
  <2> SUFFICES ASSUME run_stop', NEW x \in Cached'
               PROVE  cache'[x].guarded <=> x \in Boundary
    BY DEF GuardsMatch
  <2>1. CASE x = eip
    BY <1>5, <1>9, <2>1 DEF Guards
  <2>2. CASE x # eip
    <3>1. x \in Cached /\ cache'[x] = cache[x]
      BY <1>8, <2>2 DEF Cached
    <3> QED
      BY <1>1, <1>5, <3>1 DEF GuardsMatch
  <2> QED
    BY <2>1, <2>2
<1>15. Alone'
  <2> SUFFICES ASSUME cache_disabled
               PROVE  /\ chain_run'.budget = 1
                      /\ slots'[region'[at'].first] = None /\ slots'[region'[at'].first + 1] = None
    BY <1>5 DEF Alone
  <2>1. Allowed = 1
    BY DEF Allowed, Linking, Contract
  <2> QED
    BY <1>2, <1>3, <1>4, <1>10, <2>1
<1>16. RunsItsBlock'
  BY <1>4, <1>9, <1>10 DEF RunsItsBlock
<1>17. MissedIsMissing' /\ ContractAsks'
  BY <1>1, <1>2, <1>4 DEF MissedIsMissing, ContractAsks
<1> QED
  BY <1>4, <1>5, <1>7, <1>11, <1>12, <1>13, <1>14, <1>15, <1>16, <1>17 DEF EngineInv, CodeSound

(* A chained exit is followed into live, unguarded code that is not at the *)
(* run's stop, so what it skipped asking about could not be taken over.    *)
LEMMA TransferStep ==
  ASSUME EngineInv, NEW computed \in BOOLEAN, NEW target \in Targets(computed),
         Transfer(computed, target)
  PROVE  EngineInv'
<1> DEFINE x == Exit(computed, target)
<1>1. /\ pc = "in" /\ CodeSound /\ Thread /\ GuardsMatch
      /\ eip \in Addrs /\ chain_run \in Header /\ chain_run.stop = stop /\ steps < MaxSteps
  BY DEF EngineInv, Thread, Transfer
<1>2. target \in Addrs
  BY <1>1, EngineAssumption DEF Targets
<1>3. /\ x.to # None
      /\ chain_run' = [chain_run EXCEPT !.budget = x.budget, !.last = target, !.pending = x.pending]
      /\ at' = x.to /\ eip' = target /\ asked' = FALSE /\ taken' = Counted
      /\ UNCHANGED <<cache, front, region, slots, claimed, run_stop, armed, cache_disabled,
                     stop, steps, retries, pending, pc>>
  BY DEF Transfer, code, settings
<1>4. /\ x.budget \in 0 .. Word - 1 /\ x.pending \in 0 .. Capacity
      /\ ~cache_disabled /\ target # stop /\ cache[target] # None /\ cache[target].host = x.to
      /\ ~cache[target].guarded
  BY <1>1, <1>2, <1>3, ExitSound
<1> HIDE DEF x
<1>5. LinksPoint
  BY <1>4 DEF EngineInv
<1>6. CodeSound' /\ LinksPoint' /\ GuardsMatch'
  BY <1>1, <1>3, <1>5 DEF CodeSound, CodeTypes, Placed, SlotsApart, GuardsMatch, Cached, LinksPoint, Points
<1>7. Thread'
  <2>1. chain_run' \in Header /\ chain_run'.stop = stop
    BY <1>1, <1>2, <1>3, <1>4 DEF Header
  <2>2. taken' \in 0 .. MaxSteps + 1
    BY <1>1, <1>3, EngineAssumption DEF Counted, Thread
  <2>3. at' \in Hosts /\ eip' \in Addrs
    BY <1>1, <1>2, <1>3, <1>4 DEF CodeSound, CodeTypes
  <2>4. asked' \in BOOLEAN
    BY <1>3, Zenon
  <2> QED
    BY <1>1, <1>3, <2>1, <2>2, <2>3, <2>4 DEF Thread, Header
<1>8. RunsItsBlock'
  <2>1. region[cache[target].host] # None /\ region[cache[target].host].guest = target
    BY <1>1, <1>2, <1>4 DEF CodeSound, Placed, Cached
  <2>2. chain_run'.last = target
    BY <1>1, <1>3 DEF Header
  <2> QED
    BY <1>3, <1>4, <2>1, <2>2 DEF RunsItsBlock
<1>9. ContractAsks'
  <2>1. run_stop => target \notin Boundary
    BY <1>1, <1>2, <1>4 DEF GuardsMatch, Cached
  <2>2. Contract' => run_stop
    BY <1>3 DEF Contract
  <2> QED
    BY <1>3, <1>4, <2>1, <2>2 DEF ContractAsks
<1>10. MissedIsMissing' /\ Alone'
  BY <1>1, <1>3, <1>4 DEF MissedIsMissing, Alone
<1> QED
  BY <1>6, <1>7, <1>8, <1>9, <1>10 DEF EngineInv

(* After a call the code is left alone, or with the cache off flushed.     *)
LEMMA AfterCallSound ==
  ASSUME EngineInv, pc = "in", AfterCall
  PROVE  CodeSound' /\ LinksPoint' /\ GuardsMatch'
<1>1. CodeSound /\ GuardsMatch /\ UNCHANGED run_stop
  BY DEF EngineInv, AfterCall, settings
<1>2. CASE cache_disabled
  <2>1. Flush
    BY <1>2 DEF AfterCall
  <2>2. CodeSound' /\ LinksPoint' /\ Cached' = {}
    BY <1>1, <2>1, FlushSound DEF CodeSound
  <2> QED
    BY <2>2 DEF GuardsMatch
<1>3. CASE ~cache_disabled
  <2>1. UNCHANGED code /\ LinksPoint
    BY <1>3 DEF AfterCall, EngineInv
  <2> QED
    BY <1>1, <2>1, RetiredSound DEF Retired
<1> QED
  BY <1>2, <1>3

LEMMA LeaveStep ==
  ASSUME EngineInv,
         \/ \E computed \in BOOLEAN : \E target \in Targets(computed) : Return(computed, target)
         \/ Fault
  PROVE  EngineInv'
<1>1. Thread
  BY DEF EngineInv
<1>2. ASSUME NEW computed \in BOOLEAN, NEW target \in Targets(computed), Return(computed, target)
      PROVE  EngineInv'
  <2> DEFINE x == Exit(computed, target)
  <2>1. /\ pc = "in" /\ AfterCall
        /\ pending' = [slot |-> x.pending, flushed |-> cache_disabled]
        /\ steps' = (steps + 1 + Transfers(x.budget)) % Word
        /\ eip' = target /\ pc' = "top" /\ asked' = FALSE
        /\ UNCHANGED <<stop, retries, taken>>
    BY <1>2 DEF Return
  <2>2. eip \in Addrs /\ target \in Addrs
    BY <1>1, <2>1, EngineAssumption DEF Targets, Thread
  <2>3. x.budget \in 0 .. Word - 1 /\ x.pending \in 0 .. Capacity
    BY <2>1, <2>2, ExitSound
  <2> HIDE DEF x
  <2>4. steps' \in 0 .. Word - 1
    <3>1. Allowed \in Int /\ steps \in Int /\ x.budget \in Int /\ Word \in Nat /\ Word > 0
      BY <1>1, <2>3, EngineAssumption DEF Allowed, Thread
    <3>2. Transfers(x.budget) \in Int
      BY <3>1 DEF Transfers
    <3> QED
      BY <2>1, <3>1, <3>2, ResidueFact
  <2>5. Thread'
    <3>1. /\ chain_run' = None /\ at' = None
          /\ UNCHANGED <<run_stop, armed, cache_disabled>>
      BY <2>1 DEF AfterCall, settings
    <3>2. asked' \in BOOLEAN
      BY <2>1, Zenon
    <3>3. pending' \in [slot : 0 .. Capacity, flushed : BOOLEAN]
      BY <1>1, <2>1, <2>3 DEF Thread
    <3> QED
      BY <1>1, <2>1, <2>2, <2>4, <3>1, <3>2, <3>3 DEF Thread
  <2>6. MissedIsMissing' /\ pc' # "in"
    BY <2>1 DEF MissedIsMissing
  <2> QED
    BY <2>1, <2>5, <2>6, AfterCallSound, NotRunning
<1>3. CASE Fault
  <2>1. pc = "in" /\ AfterCall /\ RunReturns
    BY <1>3 DEF Fault
  <2>2. chain_run' \in Header \cup {None} /\ at' \in Hosts \cup {None} /\ UNCHANGED settings
    BY <2>1 DEF AfterCall
  <2> QED
    BY <1>1, <2>1, <2>2, ReturnsThread, AfterCallSound, NotRunning
<1> QED
  BY <1>2, <1>3

-----------------------------------------------------------------------------
(* The invariant holds throughout.                                         *)

LEMMA EngineInit ==
  ASSUME Init
  PROVE  EngineInv
<1>1. /\ \A a \in Addrs : cache[a] = None
      /\ \A i \in Fronts : front[i] = None
      /\ \A h \in Hosts : region[h] = None
      /\ claimed = 0 /\ pc = "out" /\ run_stop = FALSE /\ Cached = {}
  BY DEF Init, Cached
<1>2. CodeTypes
  BY EngineAssumption DEF Init, CodeTypes
<1>3. Placed /\ SlotsApart /\ LinksPoint
  BY <1>1 DEF Placed, SlotsApart, LinksPoint, Points
<1>4. Thread
  <2>1. 0 \in 0 .. Word - 1 /\ 0 \in 0 .. MaxSteps + 1 /\ 0 \in 0 .. Capacity
    BY EngineAssumption
  <2>2. pending \in [slot : 0 .. Capacity, flushed : BOOLEAN]
    BY <2>1 DEF Init, NoPending
  <2>3. /\ run_stop \in BOOLEAN /\ armed \in BOOLEAN /\ cache_disabled \in BOOLEAN
        /\ asked \in BOOLEAN
    BY Zenon DEF Init
  <2> QED
    BY <2>1, <2>2, <2>3 DEF Init, Thread
<1>5. GuardsMatch /\ MissedIsMissing /\ Alone /\ RunsItsBlock /\ ContractAsks
  BY <1>1 DEF GuardsMatch, MissedIsMissing, Alone, RunsItsBlock, ContractAsks
<1> QED
  BY <1>2, <1>3, <1>4, <1>5 DEF EngineInv, CodeSound

LEMMA EngineStep ==
  ASSUME EngineInv, [Next]_vars
  PROVE  EngineInv'
<1>1. CASE UNCHANGED vars
  <2>1. UNCHANGED <<cache, front, region, slots, claimed, chain_run, run_stop, armed,
                    cache_disabled, stop, steps, retries, taken, pending, pc, eip, at, asked>>
    BY <1>1 DEF vars, code, settings, locals
  <2>2. CodeSound' /\ (LinksPoint => LinksPoint') /\ GuardsMatch'
    BY <2>1 DEF EngineInv, CodeSound, CodeTypes, Placed, SlotsApart, LinksPoint, Points, GuardsMatch, Cached
  <2>3. Thread'
    BY <2>1 DEF EngineInv, Thread, Header
  <2>4. MissedIsMissing' /\ Alone' /\ RunsItsBlock' /\ ContractAsks'
    BY <2>1 DEF EngineInv, MissedIsMissing, Alone, RunsItsBlock, ContractAsks, Contract
  <2> QED
    BY <2>1, <2>2, <2>3, <2>4 DEF EngineInv
<1>2. CASE Embedder
  BY <1>2, EmbedderStep
<1>3. CASE Engine
  <2>1. \/ Dispatching \/ EnterUnguarded \/ EnterAsked
        \/ \E h \in Hosts : Translate(h)
        \/ \E computed \in BOOLEAN : \E target \in Targets(computed) : Transfer(computed, target)
        \/ \E computed \in BOOLEAN : \E target \in Targets(computed) : Return(computed, target)
        \/ Fault
    BY <1>3 DEF Engine, Dispatching
  <2> QED
    BY <2>1, DispatchStep, EnterStep, TranslateStep, TransferStep, LeaveStep
<1> QED
  BY <1>1, <1>2, <1>3 DEF Next

THEOREM EngineInvariant == Spec => []EngineInv
  BY EngineInit, EngineStep, PTL DEF Spec

(* What a chained exit trusts is live, and no two blocks share a slot.     *)
THEOREM EngineIsSound == Spec => []EngineSound
<1>1. EngineInv => EngineSound
  <2> SUFFICES ASSUME EngineInv PROVE EngineSound
    OBVIOUS
  <2>1. TypeOK
    BY DEF EngineInv, CodeSound, CodeTypes, Thread, Header, TypeOK
  <2>2. LinksLive
    BY DEF EngineInv, LinksPoint, Points, LinksLive
  <2>3. SlotsOwned
    <3>1. \A a \in Cached : /\ cache[a].host \in Hosts /\ region[cache[a].host] # None
                            /\ region[cache[a].host].guest = a
      BY DEF EngineInv, CodeSound, CodeTypes, Placed, Cached
    <3>2. claimed \in Nat /\ \A h \in Hosts : region[h] # None => region[h].first \in Nat
      BY EngineAssumption DEF EngineInv, CodeSound, CodeTypes
    <3>3. ASSUME NEW a \in Cached
          PROVE  LET f == region[cache[a].host].first IN f .. f + SlotsPerBlock - 1 \subseteq 1 .. claimed
      BY <3>1, <3>2 DEF EngineInv, CodeSound, SlotsApart, SlotsPerBlock
    <3>4. ASSUME NEW a \in Cached, NEW b \in Cached \ {a}
          PROVE  \/ region[cache[a].host].first + 1 < region[cache[b].host].first
                 \/ region[cache[b].host].first + 1 < region[cache[a].host].first
      BY <3>1 DEF EngineInv, CodeSound, SlotsApart
    <3> QED
      BY <3>1, <3>2, <3>3, <3>4 DEF SlotsOwned, SlotsPerBlock
  <2> QED
    BY <2>1, <2>2, <2>3 DEF EngineSound
<1> QED
  BY <1>1, EngineInvariant, PTL

(* The code running is the cached translation of the address the guest is  *)
(* at.                                                                     *)
THEOREM EngineRunsItsBlock == Spec => []RunsItsBlock
<1>1. EngineInv => RunsItsBlock
  BY DEF EngineInv
<1> QED
  BY <1>1, EngineInvariant, PTL

(* Under the contract an address the intercept could take over is entered  *)
(* only after asking, dispatched or chained.                               *)
THEOREM EngineKeepsContract == Spec => []ContractAsks
<1>1. EngineInv => ContractAsks
  BY DEF EngineInv
<1> QED
  BY <1>1, EngineInvariant, PTL

-----------------------------------------------------------------------------
(* Native hosts: the budget of a run, and who is asked without a contract. *)

NativeInv == EngineInv /\ Counts /\ EveryEntryAsked

LEMMA AllowedFact ==
  ASSUME steps \in Nat, steps < MaxSteps
  PROVE  /\ Allowed \in 1 .. MaxSteps - steps /\ (~Contract => Allowed = 1)
         /\ MaxSteps \in Nat /\ Word \in Nat /\ MaxSteps < Word
<1>1. MaxSteps \in Nat /\ Word \in Nat /\ MaxSteps < Word
  BY EngineAssumption
<1> QED
  BY <1>1 DEF Allowed, Linking

(* Entering starts the count of a call.                                    *)
LEMMA EnterCounts ==
  ASSUME NativeInv, pc \in {"top", "ask", "room"}, steps < MaxSteps, NEW h, Enter(h),
         Contract \/ asked'
  PROVE  Counts' /\ EveryEntryAsked'
<1>1. steps \in Nat /\ taken = steps /\ taken < MaxSteps
  BY DEF NativeInv, EngineInv, Thread, Counts
<1>2. Allowed \in 1 .. MaxSteps - steps
  BY <1>1, AllowedFact
<1>3. /\ UNCHANGED <<run_stop, armed, cache_disabled, steps>> /\ pc' = "in"
      /\ chain_run'.budget = Allowed /\ taken' = Counted
  BY DEF Enter, settings
<1>4. Allowed' = Allowed /\ (Contract' <=> Contract)
  BY <1>3 DEF Allowed, Linking, Contract
<1>5. taken' = taken + 1
  BY <1>1, <1>3, AllowedFact DEF Counted
<1>6. Counts'
  BY <1>1, <1>2, <1>3, <1>4, <1>5 DEF Counts
<1>7. EveryEntryAsked'
  BY <1>4 DEF EveryEntryAsked
<1> QED
  BY <1>6, <1>7

LEMMA NativeTransfer ==
  ASSUME NativeInv, Backend = "native", NEW computed \in BOOLEAN,
         NEW target \in Targets(computed), Transfer(computed, target)
  PROVE  Counts' /\ EveryEntryAsked'
<1> DEFINE x == Exit(computed, target)
           b == chain_run.budget
<1>1. /\ pc = "in" /\ pc' = "in" /\ x.to # None /\ taken' = Counted
      /\ chain_run' = [chain_run EXCEPT !.budget = x.budget, !.last = target, !.pending = x.pending]
      /\ UNCHANGED <<run_stop, armed, cache_disabled, steps>>
  BY DEF Transfer, settings
<1>2. /\ steps \in Nat /\ steps < MaxSteps /\ chain_run \in Header
      /\ b \in 1 .. Allowed /\ taken = steps + 1 + (Allowed - b)
  BY <1>1 DEF NativeInv, EngineInv, Thread, Counts
<1>3. Allowed \in 1 .. MaxSteps - steps /\ (~Contract => Allowed = 1) /\ MaxSteps \in Nat
  BY <1>2, AllowedFact
<1>4. x.budget = b - 1 /\ b # 1
  <2>1. region[at].first + (IF computed THEN 1 ELSE 0) \in 1 .. Capacity
    BY <1>1, RunningFact DEF NativeInv
  <2>2. x = NativeExit(region[at].first + (IF computed THEN 1 ELSE 0), target, computed)
    BY DEF Exit
  <2> QED
    BY <1>1, <1>2, <1>3, <2>1, <2>2, NativeExitFact
<1> HIDE DEF x
<1>5. Allowed' = Allowed /\ (Contract' <=> Contract)
  BY <1>1 DEF Allowed, Linking, Contract
<1>6. chain_run'.budget = b - 1
  BY <1>1, <1>2, <1>4 DEF Header
<1>7. taken' = taken + 1
  BY <1>1, <1>2, <1>3, <1>4 DEF Counted
<1>8. Counts'
  BY <1>1, <1>2, <1>3, <1>4, <1>5, <1>6, <1>7 DEF Counts
<1>9. Contract
  BY <1>2, <1>3, <1>4
<1> QED
  BY <1>5, <1>8, <1>9 DEF EveryEntryAsked

(* What the dispatcher reads off the budget is what the call took.         *)
LEMMA NativeReturn ==
  ASSUME NativeInv, Backend = "native", NEW computed \in BOOLEAN,
         NEW target \in Targets(computed), Return(computed, target)
  PROVE  Counts' /\ EveryEntryAsked'
<1> DEFINE x == Exit(computed, target)
           b == chain_run.budget
<1>1. /\ pc = "in" /\ pc' = "top" /\ x.to = None
      /\ steps' = (steps + 1 + Transfers(x.budget)) % Word /\ taken' = taken
  BY DEF Return
<1>2. /\ steps \in Nat /\ steps < MaxSteps /\ chain_run \in Header
      /\ b \in 1 .. Allowed /\ taken = steps + 1 + (Allowed - b)
  BY <1>1 DEF NativeInv, EngineInv, Thread, Counts
<1>3. /\ Allowed \in 1 .. MaxSteps - steps
      /\ MaxSteps \in Nat /\ Word \in Nat /\ MaxSteps < Word
  BY <1>2, AllowedFact
<1>4. x.budget = b \/ (b = 1 /\ x.budget = 0)
  <2>1. region[at].first + (IF computed THEN 1 ELSE 0) \in 1 .. Capacity
    BY <1>1, RunningFact DEF NativeInv
  <2>2. x = NativeExit(region[at].first + (IF computed THEN 1 ELSE 0), target, computed)
    BY DEF Exit
  <2> QED
    BY <1>1, <1>2, <1>3, <2>1, <2>2, NativeExitFact
<1> HIDE DEF x
<1>5. Transfers(x.budget) = Allowed - b
  <2>1. Allowed + 2 * Word - x.budget - (IF x.budget = 0 THEN 1 ELSE 0) = (Allowed - b) + 2 * Word
    BY <1>2, <1>3, <1>4
  <2>2. Allowed - b >= 0 /\ Allowed - b < Word /\ Allowed - b \in Int
    BY <1>2, <1>3
  <2> QED
    BY <1>3, <2>1, <2>2, WrapFact DEF Transfers
<1>6. steps' = taken /\ taken <= MaxSteps
  <2>1. steps + 1 + (Allowed - b) \in Int /\ steps + 1 + (Allowed - b) >= 0
        /\ steps + 1 + (Allowed - b) <= MaxSteps
    BY <1>2, <1>3
  <2> QED
    BY <1>1, <1>2, <1>3, <1>5, <2>1, WrapFact
<1> QED
  BY <1>1, <1>6 DEF Counts, EveryEntryAsked

LEMMA NativeStep ==
  ASSUME NativeInv, Backend = "native", [Next]_vars
  PROVE  NativeInv'
<1>1. EngineInv'
  BY EngineStep DEF NativeInv
<1>2. Thread /\ Counts /\ EveryEntryAsked /\ steps \in Nat /\ taken \in 0 .. MaxSteps + 1
  BY EngineAssumption DEF NativeInv, EngineInv, Thread
<1>3. ASSUME pc' = "out", taken' = 0 PROVE Counts' /\ EveryEntryAsked'
  BY <1>3 DEF Counts, EveryEntryAsked
<1>4. ASSUME pc' \in {"top", "ask", "room"}, pc \in {"top", "ask", "room"}, UNCHANGED <<steps, taken>>
      PROVE  Counts' /\ EveryEntryAsked'
  BY <1>2, <1>4 DEF Counts, EveryEntryAsked
<1>5. CASE UNCHANGED vars
  <2>1. UNCHANGED <<chain_run, run_stop, armed, cache_disabled, steps, taken, pc, asked>>
    BY <1>5 DEF vars, settings, locals
  <2> QED
    BY <1>1, <1>2, <2>1 DEF NativeInv, Counts, EveryEntryAsked, Allowed, Linking, Contract
<1>6. CASE Embedder
  <2>1. \/ pc = "out" /\ pc' = "out" /\ taken' = taken
        \/ pc' = "top" /\ steps' = 0 /\ taken' = 0
    BY <1>6 DEF Embedder, Invalidate, InvalidateAll, SetRunStop, SetDiagnostics, SetCache, Run, locals
  <2> QED
    BY <1>1, <1>2, <2>1, EngineAssumption DEF NativeInv, Counts, EveryEntryAsked
<1>7. CASE Dispatching
  <2>1. ASSUME NEW to \in Addrs, NEW gone \in Addrs \cup {"all", None}, Dispatched(to, gone)
        PROVE  Counts' /\ EveryEntryAsked'
    <3>1. /\ pc = "ask" /\ pc' = "top" /\ steps' = steps + 1 /\ taken' = Counted
      BY <2>1 DEF Dispatched
    <3>2. steps < MaxSteps /\ taken = steps /\ MaxSteps \in Nat
      BY <1>2, <3>1, EngineAssumption DEF Thread, Counts
    <3> QED
      BY <1>2, <3>1, <3>2 DEF Counted, Counts, EveryEntryAsked
  <2>2. \/ pc' = "out" /\ taken' = 0
        \/ pc' \in {"top", "ask", "room"} /\ pc \in {"top", "ask", "room"} /\ UNCHANGED <<steps, taken>>
        \/ \E to \in Addrs, gone \in Addrs \cup {"all", None} : Dispatched(to, gone)
    BY <1>7 DEF Dispatching, BudgetSpent, AskFirst, InterceptUnwinds, Missed, FlushForRoom, OutOfSpace,
                TranslateRefused, CacheFull, EvictForRoom, RetryOrGiveUp, RunReturns, locals
  <2> QED
    BY <1>1, <1>3, <1>4, <2>1, <2>2 DEF NativeInv
<1>8. CASE EnterUnguarded
  <2>1. pc = "top" /\ steps < MaxSteps /\ Enter(cache[eip].host) /\ Contract
    BY <1>8 DEF EnterUnguarded, Unguarded
  <2> QED
    BY <1>1, <2>1, EnterCounts DEF NativeInv
<1>9. CASE EnterAsked
  <2>1. pc = "ask" /\ Enter(cache[eip].host) /\ asked'
    BY <1>9 DEF EnterAsked
  <2>2. steps < MaxSteps
    BY <1>2, <2>1 DEF Thread
  <2> QED
    BY <1>1, <2>1, <2>2, EnterCounts DEF NativeInv
<1>10. ASSUME NEW h \in Hosts, Translate(h) PROVE NativeInv'
  <2>1. pc = "room" /\ Enter(h) /\ asked' = asked
    BY <1>10 DEF Translate
  <2>2. steps < MaxSteps /\ asked
    BY <1>2, <2>1 DEF Thread
  <2>3. asked'
    BY <2>1, <2>2
  <2> QED
    BY <1>1, <2>1, <2>2, <2>3, EnterCounts DEF NativeInv
<1>11. CASE Fault
  <2>1. pc' = "out" /\ taken' = 0
    BY <1>11 DEF Fault, RunReturns
  <2> QED
    BY <1>1, <1>3, <2>1 DEF NativeInv
<1> QED
  <2>1. CASE Embedder
    BY <1>6, <2>1
  <2>2. CASE Engine
    <3>1. \/ Dispatching \/ EnterUnguarded \/ EnterAsked \/ Fault
          \/ \E h \in Hosts : Translate(h)
          \/ \E computed \in BOOLEAN : \E target \in Targets(computed) : Transfer(computed, target)
          \/ \E computed \in BOOLEAN : \E target \in Targets(computed) : Return(computed, target)
      BY <2>2 DEF Engine, Dispatching
    <3> QED
      BY <1>1, <1>7, <1>8, <1>9, <1>10, <1>11, <3>1, NativeTransfer, NativeReturn DEF NativeInv
  <2> QED
    BY <1>5, <2>1, <2>2 DEF Next

THEOREM NativeInvariant ==
  ASSUME Backend = "native" PROVE Spec => []NativeInv
<1>1. Init => NativeInv
  BY EngineInit DEF NativeInv, Init, Counts, EveryEntryAsked
<1>2. NativeInv /\ [Next]_vars => NativeInv'
  BY NativeStep
<1> QED
  BY <1>1, <1>2, PTL DEF Spec

(* On native hosts a run takes no more steps than max_steps, chained       *)
(* blocks included.                                                        *)
THEOREM NativeKeepsBudget ==
  ASSUME Backend = "native" PROVE Spec => []BudgetHolds
<1>1. NativeInv => BudgetHolds
  BY EngineAssumption DEF NativeInv, EngineInv, Thread, Counts, Allowed, Linking, BudgetHolds
<1> QED
  BY <1>1, NativeInvariant, PTL

(* On native hosts the dispatcher's count of steps is what happened.       *)
THEOREM NativeCountsExactly ==
  ASSUME Backend = "native" PROVE Spec => []StepsExact
<1>1. NativeInv => StepsExact
  BY DEF NativeInv, Counts, StepsExact
<1> QED
  BY <1>1, NativeInvariant, PTL

(* On native hosts, without the contract every block is asked about.       *)
THEOREM NativeAsksEverywhere ==
  ASSUME Backend = "native" PROVE Spec => []EveryEntryAsked
<1>1. NativeInv => EveryEntryAsked
  BY DEF NativeInv
<1> QED
  BY <1>1, NativeInvariant, PTL
=============================================================================
