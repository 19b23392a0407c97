-------------------------- MODULE WasmStorageProofs --------------------------
(***************************************************************************)
(* StorageInv is inductive for every number of records, every batch, every *)
(* table and every guest memory: the accounts of jit_storage_wasm.c, the   *)
(* entries of the function table and the dispatcher's cache stay in step   *)
(* through publication, eviction, invalidation and sharing.                *)
(*                                                                         *)
(* The sums of bytes and the walk over the records that are dropped go by  *)
(* the inductions of Induction; then the storage itself, one lemma for     *)
(* each action.                                                            *)
(***************************************************************************)
EXTENDS WasmStorage, Induction

-----------------------------------------------------------------------------
(* Walks and sums.                                                         *)

(* The bytes of a set of modules, computed by a fold in whatever order,    *)
(* are their sum.                                                          *)
LEMMA BytesTotal ==
  ASSUME NEW mods, NEW S, IsFiniteSet(S), \A t \in S : mods[t].bytes \in Nat
  PROVE  BytesIn(mods, S) = Total([t \in S |-> mods[t].bytes], S)
<1> DEFINE f == [t \in S |-> mods[t].bytes]
<1> DEFINE pick(s) == CHOOSE x \in s : TRUE
<1> DEFINE Body(g) == [s \in SUBSET S |-> IF s = {} THEN 0 ELSE mods[pick(s)].bytes + g[s \ {pick(s)}]]
<1> DEFINE c == CHOOSE g : g = Body(g)
<1>1. BytesIn(mods, S) = c[S]
  BY DEF BytesIn, MapThenSumSet, MapThenFoldSet
<1>2. \A x \in S : f[x] \in Nat
  OBVIOUS
<1>3. PICK g : g = FoldStep(f, g, S)
  <2> HIDE DEF f
  <2> QED
    BY <1>2, FoldExists
<1>4. \A s \in SUBSET S : s # {} => f[pick(s)] = mods[pick(s)].bytes
  <2>1. \A s \in SUBSET S : s # {} => pick(s) \in S
    OBVIOUS
  <2> HIDE DEF pick
  <2> QED
    BY <2>1
<1>5. \A k : Body(k) = FoldStep(f, k, S)
  BY <1>4 DEF FoldStep
<1>6. g = Body(g)
  BY <1>3, <1>5, Zenon
<1>7. c = Body(c)
  BY <1>6, Zenon
<1>8. c = FoldStep(f, c, S)
  BY <1>5, <1>7, Zenon
<1>9. c[S] = Total(f, S)
  <2> HIDE DEF f, c
  <2> QED
    BY <1>2, <1>8, FoldTotal
<1> QED
  BY <1>1, <1>9

(* Integer division by at least two stays in the naturals and below its    *)
(* dividend.                                                               *)
LEMMA DivBelow ==
  ASSUME NEW c \in Nat, NEW d \in Nat, d > 1
  PROVE  /\ c \div d \in Nat
         /\ c # 0 => c \div d < c
<1> DEFINE q == c \div d
<1>1. q \in Int /\ q * d <= c /\ c < (q + 1) * d
  OBVIOUS
<1>2. q >= 0
  <2>1. SUFFICES ASSUME q + 1 <= 0 PROVE FALSE
    BY <1>1
  <2>2. (q + 1) * d <= 0
    BY <1>1, <2>1
  <2> QED
    BY <1>1, <2>2
<1>3. q * d >= 2 * q
  BY <1>1, <1>2
<1> HIDE DEF q
<1>4. c # 0 => q < c
  BY <1>1, <1>2, <1>3
<1> QED
  BY <1>2, <1>4 DEF q

(* Tokens, and so the records and the modules, are finitely many.          *)
LEMMA TokensFinite ==
  /\ IsFiniteSet(Tokens) /\ Cardinality(Tokens) = Capacity
  /\ \A S \in SUBSET Tokens : IsFiniteSet(S) /\ Cardinality(S) \in Nat /\ Cardinality(S) <= Capacity
<1>1. IsFiniteSet(Tokens) /\ Cardinality(Tokens) = Capacity
  BY StorageAssumption, FS_Interval DEF Tokens
<1>2. \A S \in SUBSET Tokens : IsFiniteSet(S) /\ Cardinality(S) \in Nat /\ Cardinality(S) <= Capacity
  BY <1>1, FS_Subset, FS_CardinalityType
<1> QED
  BY <1>1, <1>2

Distinct(p) == \A i, j \in 1 .. Len(p) : p[i] = p[j] => i = j

(* forget_pending takes the block out of the batch, and nothing else.      *)
LEMMA ForgetPendingExact ==
  ASSUME NEW p \in Seq(Slots), Distinct(p), NEW s
  PROVE  LET q == ForgetPending(p, s)
         IN  /\ q \in Seq(Slots) /\ Distinct(q) /\ Len(q) <= Len(p)
             /\ ToSet(q) = ToSet(p) \ {s}
<1>1. CASE \E i \in 1 .. Len(p) : p[i] = s
  <2> DEFINE i == CHOOSE i \in 1 .. Len(p) : p[i] = s
             n == Len(p)
             r == [p EXCEPT ![i] = p[n]]
             q == SubSeq(r, 1, n - 1)
  <2>1. i \in 1 .. n /\ p[i] = s
    BY <1>1
  <2>2. ForgetPending(p, s) = q
    BY <1>1 DEF ForgetPending
  <2> HIDE DEF i
  <2>3. n \in Nat /\ n \in 1 .. n /\ p \in [1 .. n -> Slots]
    BY <2>1
  <2>4. r \in Seq(Slots) /\ Len(r) = n /\ \A k \in 1 .. n : r[k] = IF k = i THEN p[n] ELSE p[k]
    BY <2>1, <2>3
  <2> HIDE DEF r
  <2>5. q \in Seq(Slots) /\ Len(q) = n - 1 /\ \A k \in 1 .. n - 1 : q[k] = r[k]
    BY <2>3, <2>4
  <2> HIDE DEF q, n
  <2>6. \A k \in 1 .. n - 1 : k \in 1 .. n /\ q[k] = IF k = i THEN p[n] ELSE p[k]
    BY <2>3, <2>4, <2>5
  <2>7. \A j, k \in 1 .. n : p[j] = p[k] => j = k
    BY DEF Distinct, n
  <2>8. Distinct(q)
    BY <2>3, <2>5, <2>6, <2>7 DEF Distinct
  <2>9. ToSet(p) = {p[k] : k \in 1 .. n} /\ ToSet(q) = {q[k] : k \in 1 .. n - 1}
    BY <2>5 DEF ToSet, n
  <2>10. ASSUME NEW k \in 1 .. n - 1 PROVE q[k] \in ToSet(p) \ {s}
    BY <2>1, <2>3, <2>6, <2>7, <2>9
  <2>11. ASSUME NEW k \in 1 .. n, p[k] # s PROVE p[k] \in ToSet(q)
    <3>1. CASE k = n
      <4>1. i \in 1 .. n - 1 /\ q[i] = p[k]
        BY <2>1, <2>3, <2>6, <2>11, <3>1
      <4> QED
        BY <2>9, <4>1
    <3>2. CASE k # n
      <4>1. k \in 1 .. n - 1 /\ q[k] = p[k]
        BY <2>1, <2>3, <2>6, <2>11, <3>2
      <4> QED
        BY <2>9, <4>1
    <3> QED
      BY <3>1, <3>2
  <2>12. ToSet(q) = ToSet(p) \ {s}
    BY <2>9, <2>10, <2>11
  <2>13. Len(q) <= Len(p)
    BY <2>3, <2>5 DEF n
  <2> QED
    BY <2>2, <2>5, <2>8, <2>12, <2>13
<1>2. CASE ~ \E i \in 1 .. Len(p) : p[i] = s
  <2>1. ForgetPending(p, s) = p
    BY <1>2 DEF ForgetPending
  <2>2. s \notin ToSet(p)
    BY <1>2 DEF ToSet
  <2>3. Len(p) <= Len(p)
    OBVIOUS
  <2> QED
    BY <2>1, <2>2, <2>3
<1> QED
  BY <1>1, <1>2

(* The slots below a number, counted up one by one.                        *)
LEMMA BelowGrows ==
  ASSUME NEW n \in Nat, NEW S \in SUBSET (0 .. n - 1)
  PROVE  /\ {s \in S : s < 0} = {} /\ {s \in S : s < n} = S
         /\ \A m \in 0 .. n - 1 : {s \in S : s < m + 1} =
              IF m \in S THEN {s \in S : s < m} \cup {m} ELSE {s \in S : s < m}
<1>1. \A s \in S : s \in Nat /\ s < n /\ ~(s < 0)
  OBVIOUS
<1>2. {s \in S : s < 0} = {}
  BY <1>1
<1>3. {s \in S : s < n} = S
  BY <1>1
<1>4. ASSUME NEW m \in 0 .. n - 1
      PROVE  {s \in S : s < m + 1} = IF m \in S THEN {s \in S : s < m} \cup {m} ELSE {s \in S : s < m}
  <2>1. \A s \in S : s < m + 1 <=> s < m \/ s = m
    BY <1>1
  <2>2. CASE m \in S
    BY <2>1, <2>2
  <2>3. CASE m \notin S
    BY <2>1, <2>3
  <2> QED
    BY <2>2, <2>3
<1> QED
  BY <1>2, <1>3, <1>4

(* forget_pending for each slot of a set in turn takes out exactly that    *)
(* set.                                                                    *)
LEMMA ForgettingWalk ==
  ASSUME NEW p \in Seq(Slots), Distinct(p), NEW S \in SUBSET Slots, NEW c, c[0] = p,
         \A n \in 0 .. Capacity - 1 : c[n + 1] = IF n \in S THEN ForgetPending(c[n], n) ELSE c[n]
  PROVE  /\ c[Capacity] \in Seq(Slots) /\ Distinct(c[Capacity])
         /\ Len(c[Capacity]) <= Len(p) /\ ToSet(c[Capacity]) = ToSet(p) \ S
<1> DEFINE Below(n) == {s \in S : s < n}
           T == {n \in 0 .. Capacity : /\ c[n] \in Seq(Slots) /\ Distinct(c[n]) /\ Len(c[n]) <= Len(p)
                                       /\ ToSet(c[n]) = ToSet(p) \ Below(n)}
<1>1. Capacity \in Nat /\ S \subseteq 0 .. Capacity - 1
  BY StorageAssumption DEF Slots, Tokens
<1>2. /\ Below(0) = {} /\ Below(Capacity) = S
      /\ \A n \in 0 .. Capacity - 1 : Below(n + 1) = IF n \in S THEN Below(n) \cup {n} ELSE Below(n)
  BY <1>1, BelowGrows
<1> HIDE DEF Below
<1>3. 0 \in T
  <2>1. 0 \in 0 .. Capacity /\ Len(p) <= Len(p)
    BY <1>1
  <2> QED
    BY <1>2, <2>1
<1>4. ASSUME NEW n \in 0 .. Capacity - 1, n \in T PROVE n + 1 \in T
  <2>1. n + 1 \in 0 .. Capacity
    BY <1>1
  <2>2. c[n] \in Seq(Slots) /\ Distinct(c[n]) /\ Len(c[n]) <= Len(p) /\ ToSet(c[n]) = ToSet(p) \ Below(n)
    BY <1>4
  <2>3. CASE n \in S
    <3>1. c[n + 1] = ForgetPending(c[n], n) /\ Below(n + 1) = Below(n) \cup {n}
      BY <1>2, <2>3
    <3>2. /\ c[n + 1] \in Seq(Slots) /\ Distinct(c[n + 1]) /\ Len(c[n + 1]) <= Len(c[n])
          /\ ToSet(c[n + 1]) = ToSet(c[n]) \ {n}
      BY <2>2, <3>1, ForgetPendingExact
    <3>3. ToSet(c[n + 1]) = ToSet(p) \ Below(n + 1)
      BY <2>2, <3>1, <3>2
    <3>4. Len(c[n + 1]) <= Len(p)
      BY <2>2, <3>2
    <3> QED
      BY <2>1, <3>2, <3>3, <3>4
  <2>4. CASE n \notin S
    BY <1>2, <2>1, <2>2, <2>4
  <2> QED
    BY <2>3, <2>4
<1>5. 0 .. Capacity \subseteq T
  <2> HIDE DEF T
  <2> QED
    BY <1>1, <1>3, <1>4, InductionInterval
<1>6. Capacity \in T
  <2> HIDE DEF T
  <2> QED
    BY <1>1, <1>5
<1>7. /\ c[Capacity] \in Seq(Slots) /\ Distinct(c[Capacity])
      /\ Len(c[Capacity]) <= Len(p) /\ ToSet(c[Capacity]) = ToSet(p) \ Below(Capacity)
  BY <1>6
<1> QED
  BY <1>2, <1>7

(* What is left of the batch when the records of a set are dropped.        *)
LEMMA PendingWithoutExact ==
  ASSUME pending \in Seq(Slots), Distinct(pending), NEW S \in SUBSET Slots
  PROVE  /\ PendingWithout(S) \in Seq(Slots) /\ Distinct(PendingWithout(S))
         /\ Len(PendingWithout(S)) <= Len(pending)
         /\ ToSet(PendingWithout(S)) = ToSet(pending) \ S
<1> DEFINE V == {p \in Seq(Slots) : Distinct(p)}
           Turn(k, p) == IF k - 1 \in S THEN ForgetPending(p, k - 1) ELSE p
           step == [k \in 1 .. Capacity |-> [p \in V |-> Turn(k, p)]]
           Body(f) == [n \in 0 .. Capacity |-> IF n = 0 THEN pending
                         ELSE IF n - 1 \in S THEN ForgetPending(f[n - 1], n - 1) ELSE f[n - 1]]
           c == CHOOSE f : f = Body(f)
<1>1. PendingWithout(S) = c[Capacity]
  BY DEF PendingWithout
<1>2. Capacity \in Nat
  BY StorageAssumption
<1>3. Steps(step, V, Capacity) /\ pending \in V
  <2>1. \A k \in 1 .. Capacity : \A p \in V : Turn(k, p) \in V
    BY ForgetPendingExact
  <2> HIDE DEF Turn, V
  <2>2. Steps(step, V, Capacity)
    BY <2>1 DEF Steps
  <2> QED
    BY <2>2 DEF V
<1>4. PICK f : f = WalkStep(f, pending, step, Capacity) /\ \A k \in 0 .. Capacity : f[k] \in V
  <2> HIDE DEF step, V
  <2> QED
    BY <1>2, <1>3, WalkExists
<1>5. \A k \in 1 .. Capacity : \A p \in V : step[k][p] = Turn(k, p)
  OBVIOUS
<1>6. f = Body(f)
  <2> HIDE DEF step, V
  <2>1. \A k \in 0 .. Capacity : k # 0 => k \in 1 .. Capacity /\ k - 1 \in 0 .. Capacity
    BY <1>2
  <2>2. \A k \in 0 .. Capacity : k # 0 => step[k][f[k - 1]] = Turn(k, f[k - 1])
    BY <1>4, <1>5, <2>1
  <2>3. WalkStep(f, pending, step, Capacity) = Body(f)
    BY <2>2 DEF WalkStep
  <2> QED
    BY <1>4, <2>3
<1>7. c = Body(c)
  <2> HIDE DEF Body
  <2> QED
    BY <1>6
<1> HIDE DEF c
<1>8. c[0] = pending /\ \A n \in 0 .. Capacity - 1 : c[n + 1] = IF n \in S THEN ForgetPending(c[n], n) ELSE c[n]
  <2>1. \A n \in 0 .. Capacity - 1 : n + 1 \in 0 .. Capacity /\ n + 1 # 0 /\ (n + 1) - 1 = n
    BY <1>2
  <2>2. c[0] = pending
    BY <1>2, <1>7
  <2>3. ASSUME NEW n \in 0 .. Capacity - 1
        PROVE  c[n + 1] = IF n \in S THEN ForgetPending(c[n], n) ELSE c[n]
    <3>1. c[n + 1] = Body(c)[n + 1]
      BY <1>7, Zenon
    <3> QED
      BY <2>1, <3>1
  <2> QED
    BY <2>2, <2>3
<1> HIDE DEF Turn, step, Body
<1>9. /\ c[Capacity] \in Seq(Slots) /\ Distinct(c[Capacity])
      /\ Len(c[Capacity]) <= Len(pending) /\ ToSet(c[Capacity]) = ToSet(pending) \ S
  BY <1>8, ForgettingWalk
<1> QED
  BY <1>1, <1>9

-----------------------------------------------------------------------------
(* The inductive invariant.                                                *)

(* Where the thread is: the block just published is live until its entry   *)
(* is in the cache, and a batch being moved is whole and lowered alike.    *)
Phase ==
  /\ pc # "idle" => eip \in Guests
  /\ pc \in {"share", "adopt", "insert"} => fresh \in LiveSlots /\ blocks[fresh].guest = eip
  /\ (shared # None) <=> (pc = "adopt")
  /\ pc \in {"share", "adopt"} => Len(pending) = Batch
  /\ pc = "adopt" =>
       /\ shared.moved <= Len(pending)
       /\ BlocksOf(shared.token) = {}
       /\ LoweredTheSame

(* A module without a claim costs nothing, one with a claim does, and the  *)
(* siblings it may call keep their entries in it.                          *)
ModulesKept ==
  \A t \in Tokens :
    /\ modules[t].blocks = 0 => modules[t] = NoModule
    /\ modules[t].blocks > 0 => modules[t].bytes > 0
    /\ \A e \in modules[t].siblings : table[e].owner = t

(* A module published for one block has no sibling to call.                *)
BatchSingle == \A s \in ToSet(pending) : modules[blocks[s].token].siblings = {}

(* The module a block's entry leads into.                                  *)
Runner(s) == IF pc = "adopt" /\ s \in MovedSoFar THEN shared.token ELSE blocks[s].token

EntriesLead ==
  /\ \A s \in LiveSlots : /\ table[blocks[s].entry].owner = Runner(s)
                          /\ Shape(table[blocks[s].entry].code) = Shape(blocks[s].code)
                          /\ table[blocks[s].entry].code = blocks[s].code \/ Shared(blocks[s].entry)
  /\ \A e \in Entries : table[e] # Free => table[e].code \in Codes

(* Below the top of the guest's addresses the dispatcher is told of every  *)
(* block that goes.                                                        *)
CacheBelowTop ==
  \A g \in Guests : cache[g] # None /\ End(g) < TopAddress =>
    \E s \in LiveSlots : blocks[s].guest = g /\ blocks[s].entry = cache[g]

CeilingAbove == ceiling # 0 => headroom < ceiling

StorageInv ==
  /\ TypeOK /\ ClaimsAgree /\ UsedAgrees /\ PendingAlone /\ EntriesOwned
  /\ Phase /\ ModulesKept /\ BatchSingle /\ EntriesLead /\ CacheBelowTop /\ CeilingAbove

-----------------------------------------------------------------------------
(* Sums of bytes.                                                          *)
Costs == [Tokens -> [bytes : Nat, blocks : Nat, siblings : SUBSET Entries]]
BytesOf(mods) == [t \in Tokens |-> mods[t].bytes]

(* BytesIn as a sum over the modules.                                      *)
LEMMA BytesIsTotal ==
  ASSUME NEW mods \in Costs, NEW S \in SUBSET Tokens
  PROVE  /\ BytesIn(mods, S) = Total(BytesOf(mods), S)
         /\ \A t \in Tokens : BytesOf(mods)[t] = mods[t].bytes /\ BytesOf(mods)[t] \in Nat
<1>1. IsFiniteSet(S)
  BY TokensFinite
<1>2. \A t \in Tokens : mods[t].bytes \in Nat
  BY DEF Costs
<1>3. \A t \in Tokens : BytesOf(mods)[t] = mods[t].bytes
  BY DEF BytesOf
<1> DEFINE f == [t \in S |-> mods[t].bytes]
<1>4. BytesIn(mods, S) = Total(f, S)
  BY <1>1, <1>2, BytesTotal
<1>5. \A t \in S : BytesOf(mods)[t] \in Nat /\ f[t] = BytesOf(mods)[t]
  BY <1>2, <1>3
<1>6. Total(f, S) = Total(BytesOf(mods), S)
  <2> HIDE DEF f
  <2> QED
    BY <1>1, <1>5, TotalSame
<1> QED
  BY <1>2, <1>3, <1>4, <1>6

(* The bytes of all modules are those of a set and those of the others.    *)
LEMMA BytesSplit ==
  ASSUME NEW mods \in Costs, NEW S \in SUBSET Tokens
  PROVE  /\ BytesIn(mods, Tokens) = BytesIn(mods, Tokens \ S) + BytesIn(mods, S)
         /\ BytesIn(mods, S) \in Nat /\ BytesIn(mods, Tokens \ S) \in Nat
         /\ BytesIn(mods, Tokens) \in Nat
<1>1. /\ BytesIn(mods, S) = Total(BytesOf(mods), S)
      /\ BytesIn(mods, Tokens) = Total(BytesOf(mods), Tokens)
      /\ BytesIn(mods, Tokens \ S) = Total(BytesOf(mods), Tokens \ S)
      /\ \A t \in Tokens : BytesOf(mods)[t] \in Nat
  BY BytesIsTotal
<1>2. IsFiniteSet(Tokens)
  BY TokensFinite
<1>3. /\ Total(BytesOf(mods), Tokens) = Total(BytesOf(mods), Tokens \ S) + Total(BytesOf(mods), S)
      /\ Total(BytesOf(mods), S) \in Nat /\ Total(BytesOf(mods), Tokens \ S) \in Nat
  BY <1>1, <1>2, TotalWithout
<1> QED
  BY <1>1, <1>3

(* One module more adds its bytes.                                         *)
LEMMA BytesJoin ==
  ASSUME NEW mods \in Costs, NEW S \in SUBSET Tokens, NEW t \in Tokens, t \notin S
  PROVE  BytesIn(mods, S \cup {t}) = BytesIn(mods, S) + BytesIn(mods, {t})
<1>1. S \cup {t} \in SUBSET Tokens /\ {t} \in SUBSET Tokens
  OBVIOUS
<1>2. /\ BytesIn(mods, S) = Total(BytesOf(mods), S)
      /\ BytesIn(mods, {t}) = Total(BytesOf(mods), {t})
      /\ BytesIn(mods, S \cup {t}) = Total(BytesOf(mods), S \cup {t})
      /\ \A u \in Tokens : BytesOf(mods)[u] \in Nat
  BY <1>1, BytesIsTotal
<1>3. IsFiniteSet(S) /\ IsFiniteSet({t})
  BY <1>1, TokensFinite
<1>4. S \cap {t} = {} /\ \A x \in S \cup {t} : BytesOf(mods)[x] \in Nat
  BY <1>2
<1>5. Total(BytesOf(mods), S \cup {t}) = Total(BytesOf(mods), S) + Total(BytesOf(mods), {t})
  BY <1>3, <1>4, TotalUnion
<1> QED
  BY <1>2, <1>5

(* Modules that cost the same before and after a step.                     *)
LEMMA BytesSame ==
  ASSUME NEW mods \in Costs, NEW after \in Costs, NEW S \in SUBSET Tokens,
         \A t \in S : after[t].bytes = mods[t].bytes
  PROVE  BytesIn(after, S) = BytesIn(mods, S)
<1>1. /\ BytesIn(mods, S) = Total(BytesOf(mods), S) /\ BytesIn(after, S) = Total(BytesOf(after), S)
      /\ \A t \in Tokens : BytesOf(mods)[t] = mods[t].bytes /\ BytesOf(mods)[t] \in Nat
      /\ \A t \in Tokens : BytesOf(after)[t] = after[t].bytes
  BY BytesIsTotal
<1>2. IsFiniteSet(S)
  BY TokensFinite
<1>3. \A t \in S : BytesOf(mods)[t] \in Nat /\ BytesOf(after)[t] = BytesOf(mods)[t]
  BY <1>1
<1>4. Total(BytesOf(after), S) = Total(BytesOf(mods), S)
  BY <1>2, <1>3, TotalSame
<1> QED
  BY <1>1, <1>4

(* Modules that cost nothing.                                              *)
LEMMA BytesNone ==
  ASSUME NEW mods \in Costs, NEW S \in SUBSET Tokens, \A t \in S : mods[t].bytes = 0
  PROVE  BytesIn(mods, S) = 0
<1>1. /\ BytesIn(mods, S) = Total(BytesOf(mods), S)
      /\ \A t \in S : BytesOf(mods)[t] = 0
  BY BytesIsTotal
<1>2. IsFiniteSet(S)
  BY TokensFinite
<1> QED
  BY <1>1, <1>2, TotalZero

(* A single module.                                                        *)
LEMMA BytesOne ==
  ASSUME NEW mods \in Costs, NEW t \in Tokens
  PROVE  BytesIn(mods, {t}) = mods[t].bytes
<1>1. /\ BytesIn(mods, {t}) = Total(BytesOf(mods), {t})
      /\ BytesOf(mods)[t] = mods[t].bytes /\ BytesOf(mods)[t] \in Nat
  BY BytesIsTotal
<1> QED
  BY <1>1, TotalSingle

-----------------------------------------------------------------------------
(* What the storage gives back.                                            *)

(* Giving tokens back leaves the headroom below its ceiling.               *)
LEMMA GiveKeeps ==
  ASSUME held \subseteq Tokens, ceiling \in Nat, headroom \in Nat, CeilingAbove, NEW S, Give(S)
  PROVE  /\ held' = held \ S /\ held' \subseteq Tokens
         /\ ceiling' \in Nat /\ headroom' \in Nat /\ CeilingAbove'
BY DEF Give, CeilingAbove

(* A refusal sets a ceiling with the headroom below it.                    *)
LEMMA RefuseKeeps ==
  ASSUME held \subseteq Tokens, ceiling \in Nat, headroom \in Nat, Refuse
  PROVE  held' = held /\ ceiling' \in Nat /\ headroom' \in Nat /\ CeilingAbove'
<1>1. Cardinality(held) \in Nat
  BY TokensFinite
<1>2. held' = held /\ ceiling' = Cardinality(held) /\ headroom' = ceiling' \div HeadroomDivisor
  BY DEF Refuse
<1>3. HeadroomDivisor \in Nat /\ HeadroomDivisor > 1
  BY StorageAssumption
<1>4. headroom' \in Nat /\ (ceiling' # 0 => headroom' < ceiling')
  BY <1>1, <1>2, <1>3, DivBelow
<1> QED
  BY <1>1, <1>2, <1>4 DEF CeilingAbove

(* host_release clears the entries of the modules that go and no other.    *)
LEMMA ReleaseClears ==
  ASSUME TypeOK, NEW gone, NEW S, HostRelease(gone, S)
  PROVE  /\ \A e \in Entries : table'[e] = IF table[e].owner \in gone THEN Free ELSE table[e]
         /\ table' \in [Entries -> [owner : Tokens \cup {None}, code : Codes \cup {None}]]
<1>1. table' = [e \in Entries |-> IF table[e].owner \in gone THEN Free ELSE table[e]]
  BY DEF HostRelease, Cleared
<1>2. Free \in [owner : Tokens \cup {None}, code : Codes \cup {None}]
  BY DEF Free
<1>3. table \in [Entries -> [owner : Tokens \cup {None}, code : Codes \cup {None}]]
  BY DEF TypeOK
<1> HIDE DEF Free
<1> QED
  BY <1>1, <1>2, <1>3

(* What TypeOK says of the live blocks and the blocks of a module.         *)
LEMMA BlocksFacts ==
  ASSUME TypeOK
  PROVE  /\ LiveSlots \in SUBSET Slots /\ Slots = Tokens
         /\ \A s \in LiveSlots : blocks[s] \in Block /\ blocks[s] # None
         /\ \A t : BlocksOf(t) \in SUBSET LiveSlots
         /\ \A t : IsFiniteSet(BlocksOf(t)) /\ Cardinality(BlocksOf(t)) \in Nat
         /\ IsFiniteSet(LiveSlots) /\ Cardinality(LiveSlots) \in Nat
<1>1. LiveSlots \in SUBSET Slots /\ Slots = Tokens
  BY DEF LiveSlots, Slots
<1>2. \A s \in LiveSlots : blocks[s] \in Block /\ blocks[s] # None
  BY DEF LiveSlots, TypeOK
<1>3. \A t : BlocksOf(t) \in SUBSET LiveSlots
  BY DEF BlocksOf
<1>4. \A t : BlocksOf(t) \in SUBSET Tokens
  BY <1>1, <1>3
<1> QED
  BY <1>1, <1>2, <1>3, <1>4, TokensFinite

(* A module has no claim exactly when no live block is in it.              *)
LEMMA EmptyHasNone ==
  ASSUME TypeOK, ClaimsAgree
  PROVE  /\ \A t \in Tokens : modules[t].blocks = 0 <=> BlocksOf(t) = {}
         /\ \A t \in Tokens : modules[t].blocks > 0 <=> BlocksOf(t) # {}
         /\ \A t \in Tokens : modules[t].blocks \in Nat /\ modules[t].bytes \in Nat
<1>1. \A t \in Tokens : modules[t].blocks = Cardinality(BlocksOf(t))
  BY DEF ClaimsAgree
<1>2. \A t : IsFiniteSet(BlocksOf(t)) /\ Cardinality(BlocksOf(t)) \in Nat
  BY BlocksFacts
<1>3. \A t : Cardinality(BlocksOf(t)) = 0 <=> BlocksOf(t) = {}
  BY <1>2, FS_EmptySet
<1>4. \A t \in Tokens : modules[t].blocks \in Nat /\ modules[t].bytes \in Nat
  BY DEF TypeOK
<1> QED
  BY <1>1, <1>2, <1>3, <1>4

(* The modules have the type the sums are about.                           *)
LEMMA ModulesAreCosts ==
  ASSUME TypeOK
  PROVE  modules \in Costs
BY DEF TypeOK, Costs

-----------------------------------------------------------------------------
(* Dropping blocks keeps every account.                                    *)

(* drop_block of a set of records: the records, the batch and the arena.   *)
LEMMA DropTypes ==
  ASSUME TypeOK, PendingAlone, CeilingAbove, ClaimsAgree, UsedAgrees, NEW S \in SUBSET LiveSlots, DropBlocks(S)
  PROVE  /\ held' = held \ EmptiedBy(S) /\ held' \subseteq Tokens
         /\ ceiling' \in Nat /\ headroom' \in Nat /\ CeilingAbove'
         /\ blocks' \in [Slots -> Block \cup {None}]
         /\ pending' \in Seq(Slots) /\ Distinct(pending') /\ Len(pending') <= Len(pending)
         /\ ToSet(pending') = ToSet(pending) \ S
         /\ LiveSlots' = LiveSlots \ S
         /\ \A s \in LiveSlots' : blocks'[s] = blocks[s]
         /\ \A t : BlocksOf(t)' = BlocksOf(t) \ S
<1>1. Give(EmptiedBy(S)) /\ held \subseteq Tokens /\ ceiling \in Nat /\ headroom \in Nat
  BY DEF DropBlocks, TypeOK
<1>2. /\ held' = held \ EmptiedBy(S) /\ held' \subseteq Tokens
      /\ ceiling' \in Nat /\ headroom' \in Nat /\ CeilingAbove'
  BY <1>1, GiveKeeps
<1>3. blocks' = [s \in Slots |-> IF s \in S THEN None ELSE blocks[s]] /\ blocks \in [Slots -> Block \cup {None}]
  BY DEF DropBlocks, TypeOK
<1>4. blocks' \in [Slots -> Block \cup {None}]
  BY <1>3
<1>5. pending' = PendingWithout(S) /\ pending \in Seq(Slots) /\ Distinct(pending) /\ S \in SUBSET Slots
  BY BlocksFacts DEF DropBlocks, TypeOK, PendingAlone, Distinct
<1>6. /\ pending' \in Seq(Slots) /\ Distinct(pending') /\ Len(pending') <= Len(pending)
      /\ ToSet(pending') = ToSet(pending) \ S
  BY <1>5, PendingWithoutExact
<1>7. LiveSlots' = LiveSlots \ S
  BY <1>3 DEF LiveSlots
<1>8. \A s \in LiveSlots' : blocks'[s] = blocks[s]
  BY <1>3, <1>7 DEF LiveSlots
<1>9. \A t : BlocksOf(t)' = BlocksOf(t) \ S
  BY <1>7, <1>8 DEF BlocksOf
<1> QED
  BY <1>2, <1>4, <1>6, <1>7, <1>8, <1>9

(* drop_block: the claims, the bytes and the count of blocks still agree;  *)
(* a module goes exactly when its last block does.                         *)
LEMMA DropClaims ==
  ASSUME TypeOK, PendingAlone, CeilingAbove, ClaimsAgree, UsedAgrees, ModulesKept, shared = None, shared' = None,
         NEW S \in SUBSET LiveSlots, DropBlocks(S)
  PROVE  /\ modules' \in Costs /\ ClaimsAgree'
         /\ \A t \in Tokens :
              /\ t \in EmptiedBy(S) => modules'[t] = NoModule
              /\ t \notin EmptiedBy(S) => /\ modules'[t].bytes = modules[t].bytes
                                          /\ modules'[t].siblings = modules[t].siblings
         /\ \A t \in Tokens : modules'[t].blocks = 0 => modules'[t] = NoModule
         /\ \A t \in Tokens : modules'[t].blocks > 0 => modules'[t].bytes > 0
         /\ used' \in Nat /\ live_blocks' \in Nat /\ UsedAgrees'
<1> DEFINE gone == EmptiedBy(S)
           kept(t) == modules[t].blocks - Cardinality(BlocksOf(t) \cap S)
<1>1. modules' = [t \in Tokens |-> IF t \in gone THEN NoModule ELSE [modules[t] EXCEPT !.blocks = kept(t)]]
  BY DEF DropBlocks
<1>2. \A t \in Tokens : modules[t].blocks = Cardinality(BlocksOf(t)) /\ IsFiniteSet(BlocksOf(t))
  BY BlocksFacts DEF ClaimsAgree
<1>3. \A t \in Tokens : kept(t) = Cardinality(BlocksOf(t) \ S)
  BY <1>2, FS_Difference
<1>4. \A t \in Tokens : BlocksOf(t)' = BlocksOf(t) \ S
  BY DropTypes
<1>5. \A t \in Tokens : IsFiniteSet(BlocksOf(t) \ S) /\ Cardinality(BlocksOf(t) \ S) \in Nat
  BY <1>2, FS_Difference, FS_CardinalityType
<1>6. held = {t \in Tokens : modules[t].blocks > 0} /\ held \subseteq Tokens
  BY DEF ClaimsAgree, TypeOK
<1>7. \A t \in Tokens : t \in gone <=> BlocksOf(t) # {} /\ BlocksOf(t) \ S = {}
  <2>1. \A t \in Tokens : t \in held <=> BlocksOf(t) # {}
    BY <1>6, EmptyHasNone
  <2> QED
    BY <2>1 DEF EmptiedBy
<1>8. \A t \in Tokens : modules[t] \in [bytes : Nat, blocks : Nat, siblings : SUBSET Entries]
  BY DEF TypeOK
<1>9. \A t \in Tokens : kept(t) \in Nat
  BY <1>3, <1>5
<1> HIDE DEF kept, gone
<1>10. ASSUME NEW t \in Tokens
       PROVE  /\ modules'[t] \in [bytes : Nat, blocks : Nat, siblings : SUBSET Entries]
              /\ t \in gone => modules'[t] = NoModule
              /\ t \notin gone => /\ modules'[t].bytes = modules[t].bytes
                                  /\ modules'[t].blocks = kept(t)
                                  /\ modules'[t].siblings = modules[t].siblings
  <2>1. modules'[t] = IF t \in gone THEN NoModule ELSE [modules[t] EXCEPT !.blocks = kept(t)]
    BY <1>1
  <2>2. NoModule \in [bytes : Nat, blocks : Nat, siblings : SUBSET Entries]
    BY DEF NoModule
  <2>3. CASE t \in gone
    BY <2>1, <2>2, <2>3
  <2>4. CASE t \notin gone
    BY <1>8, <1>9, <2>1, <2>4
  <2> QED
    BY <2>3, <2>4
<1>11. modules' \in Costs
  <2>1. modules' = [t \in Tokens |-> modules'[t]]
    BY <1>1
  <2> QED
    BY <1>10, <2>1 DEF Costs
<1>12. \A t \in Tokens :
           /\ t \in gone => modules'[t] = NoModule
           /\ t \notin gone => /\ modules'[t].bytes = modules[t].bytes
                               /\ modules'[t].siblings = modules[t].siblings
  BY <1>10
<1>13. ASSUME NEW t \in Tokens PROVE modules'[t].blocks = Cardinality(BlocksOf(t) \ S)
  <2>1. CASE t \in gone
    <3>1. BlocksOf(t) \ S = {}
      BY <1>7, <2>1
    <3>2. modules'[t].blocks = 0
      BY <1>10, <2>1 DEF NoModule
    <3> QED
      BY <3>1, <3>2, FS_EmptySet
  <2>2. CASE t \notin gone
    <3>1. modules'[t].blocks = kept(t)
      BY <1>10, <2>2
    <3> QED
      BY <1>3, <3>1
  <2> QED
    BY <2>1, <2>2
<1>14. \A t \in Tokens : modules'[t].blocks = 0 <=> BlocksOf(t) \ S = {}
  BY <1>5, <1>13, FS_EmptySet
<1>15. ASSUME NEW t \in Tokens, modules'[t].blocks = 0 PROVE modules'[t] = NoModule
  <2>1. BlocksOf(t) \ S = {}
    BY <1>14, <1>15
  <2>2. CASE t \in gone
    BY <1>10, <2>2
  <2>3. CASE t \notin gone
    <3>1. BlocksOf(t) = {}
      BY <1>7, <2>1, <2>3
    <3>2. modules[t].blocks = 0
      BY <3>1, EmptyHasNone
    <3>3. modules[t] = NoModule
      BY <3>2 DEF ModulesKept
    <3>4. kept(t) = 0
      BY <1>3, <2>1, FS_EmptySet
    <3> QED
      BY <1>10, <2>3, <3>3, <3>4 DEF NoModule
  <2> QED
    BY <2>2, <2>3
<1>16. ASSUME NEW t \in Tokens, modules'[t].blocks > 0 PROVE modules'[t].bytes > 0
  <2>1. t \notin gone /\ BlocksOf(t) # {}
    BY <1>5, <1>7, <1>13, <1>16, FS_EmptySet
  <2>2. modules[t].blocks > 0
    BY <2>1, EmptyHasNone
  <2> QED
    BY <1>12, <2>1, <2>2 DEF ModulesKept
<1>17. held' = {t \in Tokens : modules'[t].blocks > 0}
  <2>1. held' = held \ gone
    BY DropTypes DEF gone
  <2>2. ASSUME NEW t \in Tokens PROVE t \in held' <=> modules'[t].blocks > 0
    <3>1. modules'[t].blocks > 0 <=> BlocksOf(t) \ S # {}
      <4>1. modules'[t].blocks \in Nat
        BY <1>10
      <4>2. modules'[t].blocks = 0 <=> BlocksOf(t) \ S = {}
        BY <1>14
      <4> QED
        BY <4>1, <4>2
    <3>2. t \in held <=> BlocksOf(t) # {}
      BY <1>6, EmptyHasNone
    <3> QED
      BY <1>7, <2>1, <3>1, <3>2
  <2> QED
    BY <1>6, <2>1, <2>2
<1>18. ClaimsAgree'
  <2>1. \A t \in Tokens : modules'[t].blocks = Cardinality(BlocksOf(t)')
    BY <1>4, <1>13
  <2> QED
    BY <1>17, <2>1 DEF ClaimsAgree
<1>19. used' \in Nat /\ used' = BytesIn(modules', Tokens)
  <2>1. used' = used - BytesIn(modules, gone) /\ used = BytesIn(modules, Tokens)
    BY DEF DropBlocks, UsedWithout, UsedAgrees, gone
  <2>2. modules \in Costs /\ gone \in SUBSET Tokens /\ Tokens \ gone \in SUBSET Tokens
    BY <1>6, ModulesAreCosts DEF gone, EmptiedBy
  <2>3. /\ used = BytesIn(modules, Tokens \ gone) + BytesIn(modules, gone)
        /\ BytesIn(modules, gone) \in Nat /\ BytesIn(modules, Tokens \ gone) \in Nat
    BY <2>1, <2>2, BytesSplit
  <2>4. /\ BytesIn(modules', Tokens) = BytesIn(modules', Tokens \ gone) + BytesIn(modules', gone)
        /\ BytesIn(modules', Tokens \ gone) \in Nat
    BY <1>11, <2>2, BytesSplit
  <2>5. BytesIn(modules', Tokens \ gone) = BytesIn(modules, Tokens \ gone)
    BY <1>11, <1>12, <2>2, BytesSame
  <2>6. \A t \in gone : modules'[t].bytes = 0
    BY <1>12, <2>2 DEF NoModule
  <2>7. BytesIn(modules', gone) = 0
    BY <1>11, <2>2, <2>6, BytesNone
  <2> QED
    BY <2>1, <2>3, <2>4, <2>5, <2>7
<1>20. live_blocks' \in Nat /\ live_blocks' = Cardinality(LiveSlots')
  <2>1. live_blocks' = Cardinality(LiveSlots) - Cardinality(S) /\ IsFiniteSet(LiveSlots)
    BY BlocksFacts DEF DropBlocks, UsedAgrees
  <2>2. LiveSlots \cap S = S
    OBVIOUS
  <2>3. Cardinality(LiveSlots \ S) = Cardinality(LiveSlots) - Cardinality(S) /\ IsFiniteSet(LiveSlots \ S)
    BY <2>1, <2>2, FS_Difference
  <2>4. LiveSlots' = LiveSlots \ S
    BY DropTypes
  <2> QED
    BY <2>1, <2>3, <2>4, FS_CardinalityType
<1>21. UsedAgrees'
  BY <1>19, <1>20 DEF UsedAgrees
<1> QED
  BY <1>11, <1>12, <1>15, <1>16, <1>18, <1>19, <1>20, <1>21 DEF gone

(* drop_block: the blocks left in the batch are still alone in their       *)
(* modules.                                                                *)
LEMMA DropPending ==
  ASSUME TypeOK, PendingAlone, BatchSingle, CeilingAbove, ClaimsAgree, UsedAgrees, ModulesKept,
         shared = None, shared' = None, NEW S \in SUBSET LiveSlots, DropBlocks(S)
  PROVE  PendingAlone' /\ BatchSingle'
<1>1. /\ pending' \in Seq(Slots) /\ Distinct(pending') /\ ToSet(pending') = ToSet(pending) \ S
      /\ LiveSlots' = LiveSlots \ S /\ \A s \in LiveSlots' : blocks'[s] = blocks[s]
      /\ \A t : BlocksOf(t)' = BlocksOf(t) \ S
  BY DropTypes
<1>2. pending \in Seq(Slots)
  BY DEF TypeOK
<1>3. /\ ToSet(pending) = {pending[i] : i \in 1 .. Len(pending)}
      /\ ToSet(pending') = {pending'[i] : i \in 1 .. Len(pending')}
  BY <1>1, <1>2 DEF ToSet
<1>4. \A s \in ToSet(pending) : s \in LiveSlots /\ BlocksOf(blocks[s].token) = {s}
  BY <1>3 DEF PendingAlone
<1>5. ASSUME NEW s \in ToSet(pending')
      PROVE  /\ s \in LiveSlots' /\ BlocksOf(blocks[s].token)' = {s} /\ blocks'[s] = blocks[s]
             /\ modules'[blocks[s].token].siblings = {}
  <2>1. s \in ToSet(pending) /\ s \notin S /\ s \in LiveSlots' /\ blocks'[s] = blocks[s]
    BY <1>1, <1>4
  <2>2. BlocksOf(blocks[s].token) = {s}
    BY <1>4, <2>1
  <2>3. \A t : BlocksOf(t)' = BlocksOf(t) \ S
    BY <1>1
  <2>4. (BlocksOf(blocks[s].token))' = BlocksOf(blocks[s].token) \ S
    BY <1>1, <2>1 DEF BlocksOf
  <2>5. blocks[s].token \in Tokens /\ blocks[s].token \notin EmptiedBy(S)
    <3>1. s \in LiveSlots
      BY <1>4, <2>1
    <3> QED
      BY <2>1, <2>2, <3>1, BlocksFacts DEF EmptiedBy, Block
  <2>6. modules'[blocks[s].token].siblings = modules[blocks[s].token].siblings
    BY <2>5, DropClaims
  <2>7. modules[blocks[s].token].siblings = {}
    BY <2>1 DEF BatchSingle
  <2> QED
    BY <2>1, <2>2, <2>4, <2>6, <2>7
<1>6. PendingAlone'
  <2>1. \A i, j \in 1 .. Len(pending') : pending'[i] = pending'[j] => i = j
    BY <1>1 DEF Distinct
  <2>2. \A s \in ToSet(pending') : s \in LiveSlots' /\ {r \in LiveSlots' : blocks'[r].token = blocks'[s].token} = {s}
    BY <1>5 DEF BlocksOf
  <2>3. \A i \in 1 .. Len(pending') : pending'[i] \in ToSet(pending')
    BY <1>3
  <2>4. \A i \in 1 .. Len(pending') : /\ pending'[i] \in LiveSlots'
           /\ {r \in LiveSlots' : blocks'[r].token = blocks'[pending'[i]].token} = {pending'[i]}
    BY <2>2, <2>3
  <2> QED
    BY <2>1, <2>4 DEF PendingAlone, BlocksOf
<1>7. BatchSingle'
  BY <1>5 DEF BatchSingle
<1> QED
  BY <1>6, <1>7

(* drop_block: the entries of the blocks that stay, and of their siblings, *)
(* are not cleared.                                                        *)
LEMMA DropTable ==
  ASSUME TypeOK, PendingAlone, CeilingAbove, ClaimsAgree, UsedAgrees, ModulesKept, EntriesOwned, EntriesLead,
         Phase, pc \in {"idle", "room"}, pc' = pc, shared' = shared, shared = None,
         NEW S \in SUBSET LiveSlots, DropBlocks(S)
  PROVE  /\ table' \in [Entries -> [owner : Tokens \cup {None}, code : Codes \cup {None}]]
         /\ EntriesOwned' /\ EntriesLead' /\ ModulesKept'
<1> DEFINE gone == EmptiedBy(S)
<1>1. /\ \A e \in Entries : table'[e] = IF table[e].owner \in gone THEN Free ELSE table[e]
      /\ table' \in [Entries -> [owner : Tokens \cup {None}, code : Codes \cup {None}]]
  BY ReleaseClears DEF DropBlocks
<1>2. /\ held' = held \ gone /\ LiveSlots' = LiveSlots \ S
      /\ \A s \in LiveSlots' : blocks'[s] = blocks[s]
  BY DropTypes
<1>3. pc # "adopt" /\ pc' # "adopt"
  OBVIOUS
<1>4. \A s \in LiveSlots : s \in BlocksOf(blocks[s].token) /\ blocks[s].entry \in Entries /\ blocks[s].token \in Tokens
  BY BlocksFacts DEF BlocksOf, Block
<1>5. ASSUME NEW s \in LiveSlots'
      PROVE  /\ s \in LiveSlots /\ blocks'[s] = blocks[s]
             /\ table[blocks[s].entry].owner = blocks[s].token
             /\ table'[blocks[s].entry] = table[blocks[s].entry]
             /\ blocks[s].token \notin gone
  <2>1. s \in LiveSlots /\ s \notin S /\ blocks'[s] = blocks[s]
    BY <1>2
  <2>2. table[blocks[s].entry].owner = blocks[s].token
    BY <1>3, <2>1 DEF EntriesLead, Runner
  <2>3. blocks[s].token \notin gone
    BY <1>4, <2>1 DEF EmptiedBy
  <2> QED
    BY <1>1, <1>4, <2>1, <2>2, <2>3
<1>6. EntriesOwned'
  <2>1. \A s, r \in LiveSlots' : blocks'[s].entry = blocks'[r].entry => s = r
    BY <1>5 DEF EntriesOwned
  <2>2. ASSUME NEW e \in Entries, table'[e] # Free PROVE table'[e].owner \in held'
    <3>1. table'[e] = table[e] /\ table[e] # Free /\ table[e].owner \notin gone
      BY <1>1, <2>2
    <3>2. table[e].owner \in held
      BY <3>1 DEF EntriesOwned
    <3> QED
      BY <1>2, <3>1, <3>2
  <2>3. Free' = Free
    BY DEF Free
  <2> QED
    BY <2>1, <2>2, <2>3 DEF EntriesOwned
<1>7. EntriesLead'
  <2>1. ASSUME NEW s \in LiveSlots'
        PROVE  /\ table'[blocks'[s].entry].owner = blocks'[s].token
               /\ Shape(table'[blocks'[s].entry].code) = Shape(blocks'[s].code)
               /\ table'[blocks'[s].entry].code = blocks'[s].code \/ Shared(blocks[s].entry)'
    <3>1. modules'[blocks[s].token].siblings = modules[blocks[s].token].siblings
      BY <1>4, <1>5, DropClaims
    <3>2. Shared(blocks[s].entry) => Shared(blocks[s].entry)'
      BY <1>5, <3>1 DEF Shared
    <3> QED
      BY <1>5, <3>2 DEF EntriesLead
  <2>2. ASSUME NEW e \in Entries, table'[e] # Free PROVE table'[e].code \in Codes
    BY <1>1, <2>2 DEF EntriesLead
  <2>3. Free' = Free
    BY DEF Free
  <2> QED
    BY <1>3, <2>1, <2>2, <2>3 DEF EntriesLead, Runner
<1>8. ModulesKept'
  <2>1. /\ \A t \in Tokens : /\ t \in gone => modules'[t] = NoModule
                             /\ t \notin gone => modules'[t].siblings = modules[t].siblings
        /\ \A t \in Tokens : modules'[t].blocks = 0 => modules'[t] = NoModule
        /\ \A t \in Tokens : modules'[t].blocks > 0 => modules'[t].bytes > 0
    BY DropClaims
  <2>2. ASSUME NEW t \in Tokens, NEW e \in modules'[t].siblings PROVE table'[e].owner = t
    <3>1. t \notin gone /\ e \in modules[t].siblings
      BY <2>1, <2>2 DEF NoModule
    <3>2. table[e].owner = t /\ e \in Entries
      BY <3>1 DEF ModulesKept, TypeOK
    <3> QED
      BY <1>1, <3>1, <3>2
  <2>3. NoModule' = NoModule
    BY DEF NoModule
  <2> QED
    BY <2>1, <2>2, <2>3 DEF ModulesKept
<1> QED
  BY <1>1, <1>6, <1>7, <1>8

(* What is dropped is forgotten: below the top the cache is told, whatever *)
(* else it forgets.                                                        *)
LEMMA DropCache ==
  ASSUME TypeOK, CacheBelowTop, NEW S \in SUBSET LiveSlots,
         LiveSlots' = LiveSlots \ S, \A s \in LiveSlots' : blocks'[s] = blocks[s],
         \A g \in Guests : cache'[g] # None => cache'[g] = cache[g],
         \A s \in S : End(blocks[s].guest) < TopAddress => cache'[blocks[s].guest] = None
  PROVE  CacheBelowTop'
<1>1. ASSUME NEW g \in Guests, cache'[g] # None, End(g) < TopAddress
      PROVE  \E s \in LiveSlots' : blocks'[s].guest = g /\ blocks'[s].entry = cache'[g]
  <2>1. cache'[g] = cache[g]
    BY <1>1
  <2>2. PICK s \in LiveSlots : blocks[s].guest = g /\ blocks[s].entry = cache[g]
    BY <1>1, <2>1 DEF CacheBelowTop
  <2>3. s \notin S
    BY <1>1, <2>2
  <2> QED
    BY <2>1, <2>2, <2>3
<1>2. \A g : End(g)' = End(g)
  BY DEF End
<1> QED
  BY <1>1, <1>2 DEF CacheBelowTop

(* Dropping a set of blocks and telling the cache of them keeps the        *)
(* invariant.                                                              *)
LEMMA DropKeeps ==
  ASSUME StorageInv, pc \in {"idle", "room"}, NEW S \in SUBSET LiveSlots, DropBlocks(S),
         next_victim' \in Tokens, cache' \in [Guests -> Entries \cup {None}],
         \A g \in Guests : cache'[g] # None => cache'[g] = cache[g],
         \A s \in S : End(blocks[s].guest) < TopAddress => cache'[blocks[s].guest] = None,
         UNCHANGED <<memory, cannot_compact, has_batch, pc, eip, fresh, shared>>
  PROVE  StorageInv'
<1> USE DEF StorageInv
<1>1. shared = None /\ shared' = None /\ pc # "adopt" /\ pc' = pc
  BY DEF Phase
<1>2. /\ held' \subseteq Tokens /\ ceiling' \in Nat /\ headroom' \in Nat /\ CeilingAbove'
      /\ blocks' \in [Slots -> Block \cup {None}]
      /\ pending' \in Seq(Slots) /\ Len(pending') <= Len(pending)
      /\ LiveSlots' = LiveSlots \ S /\ \A s \in LiveSlots' : blocks'[s] = blocks[s]
  BY DropTypes
<1>3. modules' \in Costs /\ ClaimsAgree' /\ UsedAgrees' /\ used' \in Nat /\ live_blocks' \in Nat
  BY <1>1, DropClaims
<1>4. PendingAlone' /\ BatchSingle'
  BY <1>1, DropPending
<1>5. /\ table' \in [Entries -> [owner : Tokens \cup {None}, code : Codes \cup {None}]]
      /\ EntriesOwned' /\ EntriesLead' /\ ModulesKept'
  BY <1>1, DropTable
<1>6. CacheBelowTop'
  BY <1>2, DropCache
<1>7. Len(pending') <= Batch
  BY <1>2, StorageAssumption DEF TypeOK
<1>8. TypeOK'
  BY <1>2, <1>3, <1>5, <1>7 DEF TypeOK, Costs, Block, Slots
<1>9. Phase'
  BY <1>1 DEF Phase
<1> QED
  BY <1>2, <1>3, <1>4, <1>5, <1>6, <1>8, <1>9

(* A reset of the storage with a flush of the cache keeps the invariant.   *)
LEMMA ResetKeeps ==
  ASSUME StorageInv, pc \in {"idle", "room"}, pc' \in {"idle", "room"}, pc' # "idle" => eip' \in Guests,
         eip' \in Guests \cup {None}, Reset,
         UNCHANGED <<memory, cannot_compact, has_batch, fresh, shared>>
  PROVE  StorageInv'
<1> USE DEF StorageInv
<1>1. shared = None /\ shared' = None /\ pc # "adopt" /\ pc' # "adopt" /\ pc' # "share" /\ pc' # "insert"
  BY DEF Phase
<1>2. /\ blocks' = [s \in Slots |-> None] /\ modules' = [t \in Tokens |-> NoModule]
      /\ pending' = <<>> /\ used' = 0 /\ next_victim' = 0 /\ live_blocks' = 0
      /\ cache' = [g \in Guests |-> None]
  BY DEF Reset
<1>3. held' = {} /\ ceiling' \in Nat /\ headroom' \in Nat /\ CeilingAbove'
  <2>1. Give(held) /\ held \subseteq Tokens /\ ceiling \in Nat /\ headroom \in Nat /\ held \ held = {}
    BY DEF Reset, TypeOK
  <2>2. held' = held \ held /\ ceiling' \in Nat /\ headroom' \in Nat /\ CeilingAbove'
    BY <2>1, GiveKeeps
  <2> QED
    BY <2>1, <2>2
<1>4. LiveSlots' = {} /\ \A t : BlocksOf(t)' = {}
  <2>1. LiveSlots' = {}
    BY <1>2 DEF LiveSlots
  <2> QED
    BY <2>1 DEF BlocksOf
<1>5. \A e \in Entries : table'[e] = Free
  <2>1. \A e \in Entries : table'[e] = IF table[e].owner \in held THEN Free ELSE table[e]
    BY ReleaseClears DEF Reset
  <2> QED
    BY <2>1 DEF EntriesOwned
<1>6. table' \in [Entries -> [owner : Tokens \cup {None}, code : Codes \cup {None}]]
  BY ReleaseClears DEF Reset
<1>7. \A t \in Tokens : modules'[t] = NoModule /\ modules'[t].bytes = 0 /\ modules'[t].blocks = 0 /\ modules'[t].siblings = {}
  BY <1>2 DEF NoModule
<1>8. modules' \in Costs
  BY <1>2 DEF Costs, NoModule
<1>9. TypeOK'
  <2>1. 0 \in Tokens /\ Batch \in Nat
    BY StorageAssumption DEF Tokens
  <2>2. pending' \in Seq(Slots) /\ Len(pending') <= Batch
    BY <1>2, <2>1
  <2>3. blocks' \in [Slots -> Block \cup {None}] /\ cache' \in [Guests -> Entries \cup {None}]
    BY <1>2
  <2> QED
    BY <1>1, <1>2, <1>3, <1>6, <1>8, <2>1, <2>2, <2>3 DEF TypeOK, Costs, Block, Slots
<1>10. ClaimsAgree'
  <2>1. \A t \in Tokens : modules'[t].blocks = Cardinality(BlocksOf(t)')
    BY <1>4, <1>7, FS_EmptySet
  <2>2. held' = {t \in Tokens : modules'[t].blocks > 0}
    BY <1>3, <1>7
  <2> QED
    BY <1>1, <2>1, <2>2 DEF ClaimsAgree
<1>11. UsedAgrees'
  <2>1. BytesIn(modules', Tokens) = 0
    BY <1>7, <1>8, BytesNone
  <2> QED
    BY <1>2, <1>4, <2>1, FS_EmptySet DEF UsedAgrees
<1>12. PendingAlone' /\ BatchSingle'
  BY <1>2 DEF PendingAlone, BatchSingle, ToSet
<1>13. EntriesOwned' /\ EntriesLead'
  <2>1. Free' = Free
    BY DEF Free
  <2> QED
    BY <1>4, <1>5, <2>1 DEF EntriesOwned, EntriesLead
<1>14. ModulesKept'
  <2>1. NoModule' = NoModule
    BY DEF NoModule
  <2> QED
    BY <1>7, <2>1 DEF ModulesKept
<1>15. CacheBelowTop'
  BY <1>2 DEF CacheBelowTop
<1>16. Phase'
  BY <1>1 DEF Phase
<1> QED
  BY <1>3, <1>9, <1>10, <1>11, <1>12, <1>13, <1>14, <1>15, <1>16

(* Nothing of the storage moves, but that the batch may be given up.       *)
LEMMA StillKeeps ==
  ASSUME StorageInv, pc # "adopt", pc' # "adopt", held' = held,
         UNCHANGED <<blocks, modules, used, live_blocks, table, shared>>,
         pending' = pending \/ pending' = <<>>
  PROVE  /\ ClaimsAgree' /\ UsedAgrees' /\ PendingAlone' /\ EntriesOwned'
         /\ ModulesKept' /\ BatchSingle' /\ EntriesLead'
         /\ LiveSlots' = LiveSlots
<1> USE DEF StorageInv
<1>1. LiveSlots' = LiveSlots
  BY DEF LiveSlots
<1>2. \A t : BlocksOf(t)' = BlocksOf(t)
  BY <1>1 DEF BlocksOf
<1>3. Free' = Free /\ NoModule' = NoModule
  BY DEF Free, NoModule
<1>4. ClaimsAgree'
  BY <1>2 DEF ClaimsAgree
<1>5. UsedAgrees'
  <2>1. modules' = modules /\ used' = used /\ live_blocks' = live_blocks
    OBVIOUS
  <2> QED
    BY <1>1, <2>1 DEF UsedAgrees
<1>6. PendingAlone' /\ BatchSingle'
  <2>1. CASE pending' = pending
    BY <1>1, <2>1 DEF PendingAlone, BatchSingle, BlocksOf
  <2>2. CASE pending' = <<>>
    BY <2>2 DEF PendingAlone, BatchSingle, ToSet
  <2> QED
    BY <2>1, <2>2
<1>7. EntriesOwned' /\ EntriesLead'
  BY <1>1, <1>3 DEF EntriesOwned, EntriesLead, Runner, Shared
<1>8. ModulesKept'
  BY <1>3 DEF ModulesKept
<1> QED
  BY <1>1, <1>4, <1>5, <1>6, <1>7, <1>8

-----------------------------------------------------------------------------
(* Eviction.                                                               *)

(* The cursor reaches every module.                                        *)
LEMMA CursorReaches ==
  ASSUME NEW v \in Tokens, NEW t \in Tokens
  PROVE  \E i \in 0 .. Capacity - 1 : (v + i) % Capacity = t
<1>1. Capacity \in Nat /\ Capacity > 0 /\ v \in 0 .. Capacity - 1 /\ t \in 0 .. Capacity - 1
  BY StorageAssumption DEF Tokens
<1>2. CASE v <= t
  <2>1. t - v \in 0 .. Capacity - 1 /\ v + (t - v) = t
    BY <1>1, <1>2
  <2>2. t % Capacity = t
    BY <1>1
  <2> QED
    BY <2>1, <2>2
<1>3. CASE t < v
  <2>1. t - v + Capacity \in 0 .. Capacity - 1 /\ v + (t - v + Capacity) = t + Capacity
    BY <1>1, <1>3
  <2>2. (t + Capacity) % Capacity = t
    BY <1>1
  <2> QED
    BY <2>1, <2>2
<1> QED
  BY <1>1, <1>2, <1>3

(* A victim is a module with a claim, and there is one as soon as there is *)
(* any claim at all.                                                       *)
LEMMA VictimHasClaims ==
  ASSUME TypeOK
  PROVE  /\ Victim # None => Victim \in Tokens /\ modules[Victim].blocks > 0
         /\ (\E t \in Tokens : modules[t].blocks > 0) => Victim # None
<1> DEFINE at(i) == (next_victim + i) % Capacity
           steps == {i \in 0 .. Capacity - 1 : modules[at(i)].blocks > 0}
<1>1. Victim = IF steps = {} THEN None ELSE at(Min(steps))
  BY DEF Victim
<1>2. Capacity \in Nat /\ Capacity > 0 /\ next_victim \in 0 .. Capacity - 1
  BY StorageAssumption DEF TypeOK, Tokens
<1>3. \A i \in 0 .. Capacity - 1 : at(i) \in Tokens
  BY <1>2 DEF Tokens
<1>4. ASSUME steps # {} PROVE Min(steps) \in steps
  <2>1. steps \subseteq Nat
    BY <1>2
  <2>2. \E i \in steps : \A j \in steps : i <= j
    <3> HIDE DEF steps
    <3> QED
      BY <1>4, <2>1, LeastNat
  <2> HIDE DEF steps
  <2> QED
    BY <2>2 DEF Min
<1>5. None \notin Tokens
  BY StorageAssumption
<1>6. ASSUME steps # {} PROVE Victim \in Tokens /\ modules[Victim].blocks > 0 /\ Victim # None
  <2>1. Min(steps) \in 0 .. Capacity - 1 /\ modules[at(Min(steps))].blocks > 0
    BY <1>4, <1>6
  <2>2. Victim = at(Min(steps)) /\ at(Min(steps)) \in Tokens
    <3> HIDE DEF at, steps
    <3> QED
      BY <1>1, <1>3, <1>6, <2>1
  <2> HIDE DEF at, steps
  <2> QED
    BY <1>5, <2>1, <2>2
<1>7. ASSUME NEW t \in Tokens, modules[t].blocks > 0 PROVE steps # {}
  <2>1. next_victim \in Tokens
    BY DEF TypeOK
  <2>2. PICK i \in 0 .. Capacity - 1 : (next_victim + i) % Capacity = t
    BY <2>1, CursorReaches
  <2>3. i \in steps
    BY <1>7, <2>2
  <2> HIDE DEF steps
  <2> QED
    BY <2>3
<1> HIDE DEF steps
<1> QED
  BY <1>1, <1>6, <1>7

(* Every block of a module goes with it, and nothing else.                 *)
LEMMA EmptiesVictim ==
  ASSUME TypeOK, ClaimsAgree, NEW t \in Tokens, modules[t].blocks > 0
  PROVE  EmptiedBy(BlocksOf(t)) = {t}
<1>1. BlocksOf(t) # {}
  BY EmptyHasNone
<1>2. t \in held /\ held \subseteq Tokens
  BY DEF ClaimsAgree, TypeOK
<1>3. \A u \in held : BlocksOf(u) # {} /\ BlocksOf(u) \subseteq BlocksOf(t) => u = t
  BY DEF BlocksOf
<1> QED
  BY <1>1, <1>2, <1>3 DEF EmptiedBy

(* When there is no room some module has a claim, the victim is such a     *)
(* module, every block of it goes, and its bytes were counted in `used`.   *)
LEMMA EvictionEnough == StorageInv => EvictionSuffices
<1> SUFFICES ASSUME StorageInv, pc = "room", ~Room PROVE EvictionFrees
  BY DEF EvictionSuffices
<1> USE DEF StorageInv
<1>1. shared = None
  BY DEF Phase
<1>2. \E t \in Tokens : modules[t].blocks > 0
  <2>1. SUFFICES ASSUME \A t \in Tokens : ~(modules[t].blocks > 0) PROVE FALSE
    OBVIOUS
  <2>2. \A t \in Tokens : BlocksOf(t) = {} /\ modules[t].bytes = 0
    <3>1. \A t \in Tokens : modules[t].blocks = 0
      BY <2>1, EmptyHasNone
    <3> QED
      BY <3>1, EmptyHasNone DEF ModulesKept, NoModule
  <2>3. used = 0
    BY <2>2, ModulesAreCosts, BytesNone DEF UsedAgrees
  <2>4. live_blocks = 0
    <3>1. LiveSlots = {}
      BY <2>2, BlocksFacts DEF BlocksOf, Block
    <3> QED
      BY <3>1, FS_EmptySet DEF UsedAgrees
  <2>5. Cardinality(held) = 0
    <3>1. held = {}
      BY <1>1, <2>1 DEF ClaimsAgree
    <3> QED
      BY <3>1, FS_EmptySet
  <2>6. /\ Capacity \in Nat /\ Capacity > 0 /\ ByteBudget \in Nat /\ MinModule \in Nat
        /\ MinModule <= ByteBudget
    BY StorageAssumption
  <2>7. ceiling \in Nat /\ headroom \in Nat /\ (ceiling # 0 => headroom < ceiling)
    BY DEF TypeOK, CeilingAbove
  <2>8. PoolHasRoom
    BY <2>5, <2>6, <2>7 DEF PoolHasRoom
  <2> QED
    BY <2>3, <2>4, <2>6, <2>8 DEF Room
<1>3. Victim # None /\ Victim \in Tokens /\ modules[Victim].blocks > 0
  BY <1>2, VictimHasClaims
<1>4. EmptiedBy(VictimBlocks(Victim)) = {Victim}
  BY <1>3, EmptiesVictim DEF VictimBlocks
<1>5. UsedWithout({Victim}) = used - modules[Victim].bytes
  BY <1>3, ModulesAreCosts, BytesOne DEF UsedWithout
<1>6. modules[Victim].bytes > 0 /\ modules[Victim].bytes \in Nat /\ used \in Nat
  BY <1>3 DEF ModulesKept, TypeOK
<1>7. UsedWithout({Victim}) < used
  BY <1>5, <1>6
<1> QED
  BY <1>3, <1>4, <1>7 DEF EvictionFrees

-----------------------------------------------------------------------------
(* One lemma for each action.                                              *)

(* The guest rewrites its code while no translation is under way.          *)
LEMMA GuestWritesKeeps ==
  ASSUME StorageInv, NEW g \in Guests, NEW c \in Codes, GuestWrites(g, c)
  PROVE  StorageInv'
<1> USE DEF StorageInv
<1>1. /\ pc = "idle" /\ pc' = pc /\ held' = held /\ ceiling' = ceiling /\ headroom' = headroom
      /\ UNCHANGED <<records, table, shared>>
      /\ UNCHANGED <<cannot_compact, has_batch, next_victim, cache, eip, fresh>>
  BY DEF GuestWrites, arena
<1>2. memory' = [memory EXCEPT ![g] = c]
  BY DEF GuestWrites
<1>3. pc # "adopt" /\ pc' # "adopt" /\ pc' # "share" /\ pc' # "insert"
  BY <1>1
<1>4. /\ ClaimsAgree' /\ UsedAgrees' /\ PendingAlone' /\ EntriesOwned'
      /\ ModulesKept' /\ BatchSingle' /\ EntriesLead' /\ LiveSlots' = LiveSlots
  BY <1>1, <1>3, StillKeeps DEF records
<1>5. TypeOK'
  BY <1>1, <1>2 DEF TypeOK, records, Block
<1>6. Phase'
  BY <1>1, <1>3 DEF Phase
<1>7. CacheBelowTop' /\ CeilingAbove'
  BY <1>1, <1>4 DEF CacheBelowTop, CeilingAbove, records, End
<1> QED
  BY <1>4, <1>5, <1>6, <1>7

(* x86p_jit_engine_invalidate.                                             *)
LEMMA InvalidateKeeps ==
  ASSUME StorageInv, NEW lo, NEW hi, Invalidate(lo, hi)
  PROVE  StorageInv'
<1> DEFINE hit == {s \in LiveSlots : Overlaps(blocks[s].guest, lo, hi)}
<1>1. /\ pc = "idle" /\ DropBlocks(hit) /\ Forget({<<lo, hi>>})
      /\ UNCHANGED <<memory, cannot_compact, has_batch, next_victim, pc, eip, fresh, shared>>
  BY DEF Invalidate
<1>2. hit \in SUBSET LiveSlots
  OBVIOUS
<1>3. cache' = [g \in Guests |-> IF Overlaps(g, lo, hi) THEN None ELSE cache[g]]
  BY <1>1 DEF Forget
<1>4. cache \in [Guests -> Entries \cup {None}] /\ next_victim' \in Tokens
  BY <1>1 DEF StorageInv, TypeOK
<1>5. /\ cache' \in [Guests -> Entries \cup {None}]
      /\ \A g \in Guests : cache'[g] # None => cache'[g] = cache[g]
  BY <1>3, <1>4
<1>6. \A s \in hit : cache'[blocks[s].guest] = None
  <2>1. \A s \in hit : blocks[s].guest \in Guests
    BY BlocksFacts DEF StorageInv, Block
  <2> QED
    BY <1>3, <2>1
<1> HIDE DEF hit
<1> QED
  BY <1>1, <1>2, <1>4, <1>5, <1>6, DropKeeps

(* x86p_jit_engine_invalidate_all.                                         *)
LEMMA InvalidateAllKeeps ==
  ASSUME StorageInv, InvalidateAll
  PROVE  StorageInv'
<1>1. /\ pc = "idle" /\ pc' = "idle" /\ Reset
      /\ UNCHANGED <<memory, cannot_compact, has_batch, fresh, shared>>
      /\ eip' = eip
  BY DEF InvalidateAll
<1>2. eip' \in Guests \cup {None}
  BY <1>1 DEF StorageInv, TypeOK
<1> QED
  BY <1>1, <1>2, ResetKeeps

(* A call of translate_at begins, with a flush or without.                 *)
LEMMA TranslateAtKeeps ==
  ASSUME StorageInv, NEW g \in Guests, NEW slots_gone \in BOOLEAN, TranslateAt(g, slots_gone)
  PROVE  StorageInv'
<1> USE DEF StorageInv
<1>1. /\ pc = "idle" /\ pc' = "room" /\ eip' = g
      /\ UNCHANGED <<memory, cannot_compact, has_batch, fresh, shared>>
  BY DEF TranslateAt
<1>2. CASE slots_gone
  <2>1. Reset
    BY <1>2 DEF TranslateAt
  <2> QED
    BY <1>1, <2>1, ResetKeeps
<1>3. CASE ~slots_gone
  <2>1. UNCHANGED <<arena, records, next_victim, table, cache>>
    BY <1>3 DEF TranslateAt
  <2>2. /\ pc # "adopt" /\ pc' # "adopt" /\ held' = held /\ ceiling' = ceiling /\ headroom' = headroom
        /\ UNCHANGED <<records, table, shared>>
    BY <1>1, <2>1 DEF arena
  <2>3. /\ ClaimsAgree' /\ UsedAgrees' /\ PendingAlone' /\ EntriesOwned'
        /\ ModulesKept' /\ BatchSingle' /\ EntriesLead' /\ LiveSlots' = LiveSlots
    BY <2>2, StillKeeps DEF records
  <2>4. TypeOK'
    BY <1>1, <2>1, <2>2 DEF TypeOK, records, Block
  <2>5. Phase'
    BY <1>1 DEF Phase
  <2>6. CacheBelowTop' /\ CeilingAbove'
    BY <2>1, <2>2, <2>3 DEF CacheBelowTop, CeilingAbove, records, End
  <2> QED
    BY <2>3, <2>4, <2>5, <2>6
<1> QED
  BY <1>2, <1>3

(* A turn of evict_for_room: the victim's blocks go and the cache is told, *)
(* or everything goes.                                                     *)
LEMMA EvictForRoomKeeps ==
  ASSUME StorageInv, EvictForRoom
  PROVE  StorageInv'
<1>1. /\ pc = "room"
      /\ UNCHANGED <<memory, cannot_compact, has_batch, pc, eip, fresh, shared>>
  BY DEF EvictForRoom
<1>2. CASE EvictionFrees
  <2>1. /\ next_victim' = (Victim + 1) % Capacity
        /\ DropBlocks(VictimBlocks(Victim))
        /\ Forget(Told(VictimBlocks(Victim)))
    BY <1>2 DEF EvictForRoom
  <2> DEFINE S == VictimBlocks(Victim)
  <2>2. S \in SUBSET LiveSlots
    BY BlocksFacts DEF VictimBlocks, StorageInv
  <2>3. Victim \in Tokens
    BY <1>2, VictimHasClaims DEF EvictionFrees, StorageInv
  <2>4. next_victim' \in Tokens
    BY <2>1, <2>3, StorageAssumption DEF Tokens
  <2> HIDE DEF S
  <2>5. cache' = [g \in Guests |-> IF \E r \in Told(S) : Overlaps(g, r[1], r[2]) THEN None ELSE cache[g]]
    BY <2>1 DEF Forget, S
  <2>6. /\ cache' \in [Guests -> Entries \cup {None}]
        /\ \A g \in Guests : cache'[g] # None => cache'[g] = cache[g]
    BY <2>5 DEF StorageInv, TypeOK
  <2>7. ASSUME NEW s \in S, End(blocks[s].guest) < TopAddress PROVE cache'[blocks[s].guest] = None
    <3>1. blocks[s].guest \in Guests
      BY <2>2, BlocksFacts DEF StorageInv, Block
    <3>2. <<blocks[s].guest, End(blocks[s].guest)>> \in Told(S)
      BY <2>7 DEF Told
    <3>3. blocks[s].guest \in Nat /\ GuestLen[blocks[s].guest] \in Nat /\ GuestLen[blocks[s].guest] > 0
      <4>1. \A g \in Guests : g \in Nat /\ GuestLen[g] \in Nat /\ GuestLen[g] > 0
        BY StorageAssumption
      <4> QED
        BY <3>1, <4>1
    <3>4. blocks[s].guest < End(blocks[s].guest)
      BY <3>3 DEF End
    <3>5. Overlaps(blocks[s].guest, blocks[s].guest, End(blocks[s].guest))
      BY <3>4 DEF Overlaps
    <3>6. \E r \in Told(S) : Overlaps(blocks[s].guest, r[1], r[2])
      <4> DEFINE r == <<blocks[s].guest, End(blocks[s].guest)>>
      <4>1. r[1] = blocks[s].guest /\ r[2] = End(blocks[s].guest) /\ r \in Told(S)
        BY <3>2
      <4> HIDE DEF r
      <4> QED
        BY <3>5, <4>1
    <3> QED
      BY <2>5, <3>1, <3>6
  <2>8. DropBlocks(S)
    BY <2>1 DEF S
  <2> QED
    BY <1>1, <2>2, <2>4, <2>6, <2>7, <2>8, DropKeeps
<1>3. CASE ~EvictionFrees
  <2>1. Reset
    BY <1>3 DEF EvictForRoom
  <2>2. pc' = "room" /\ eip' \in Guests
    BY <1>1 DEF StorageInv, Phase
  <2> QED
    BY <1>1, <2>1, <2>2, ResetKeeps
<1> QED
  BY <1>2, <1>3

(* The thread goes back to idle, or on to the insertion, with the storage  *)
(* as it was.                                                              *)
LEMMA ReturnKeeps ==
  ASSUME StorageInv, pc = "room", pc' = "idle", eip' = None, held' = held,
         ceiling' \in Nat, headroom' \in Nat, CeilingAbove',
         UNCHANGED <<memory, records, cannot_compact, has_batch, next_victim, table, cache, fresh, shared>>
  PROVE  StorageInv'
<1> USE DEF StorageInv
<1>1. UNCHANGED <<records, table, shared>>
  OBVIOUS
<1>2. /\ ClaimsAgree' /\ UsedAgrees' /\ PendingAlone' /\ EntriesOwned'
      /\ ModulesKept' /\ BatchSingle' /\ EntriesLead' /\ LiveSlots' = LiveSlots
  BY <1>1, StillKeeps DEF records
<1>3. TypeOK'
  BY DEF TypeOK, records, Block
<1>4. Phase'
  BY DEF Phase
<1>5. CacheBelowTop'
  BY <1>2 DEF CacheBelowTop, records, End
<1> QED
  BY <1>2, <1>3, <1>4, <1>5

(* The translation is given up.                                            *)
LEMMA TranslateFailsKeeps ==
  ASSUME StorageInv, TranslateFails
  PROVE  StorageInv'
<1>1. /\ pc = "room" /\ pc' = "idle" /\ eip' = None /\ held' = held /\ ceiling' = ceiling /\ headroom' = headroom
      /\ UNCHANGED <<memory, records, cannot_compact, has_batch, next_victim, table, cache, fresh, shared>>
  BY DEF TranslateFails, arena
<1>2. ceiling' \in Nat /\ headroom' \in Nat /\ CeilingAbove'
  BY <1>1 DEF StorageInv, TypeOK, CeilingAbove
<1> QED
  BY <1>1, <1>2, ReturnKeeps

(* The engine refuses the module.                                          *)
LEMMA PublishRefusedKeeps ==
  ASSUME StorageInv, PublishRefused
  PROVE  StorageInv'
<1>1. /\ pc = "room" /\ pc' = "idle" /\ eip' = None /\ Refuse
      /\ UNCHANGED <<memory, records, cannot_compact, has_batch, next_victim, table, cache, fresh, shared>>
  BY DEF PublishRefused
<1>2. held \subseteq Tokens /\ ceiling \in Nat /\ headroom \in Nat
  BY DEF StorageInv, TypeOK
<1>3. held' = held /\ ceiling' \in Nat /\ headroom' \in Nat /\ CeilingAbove'
  BY <1>1, <1>2, RefuseKeeps
<1> QED
  BY <1>1, <1>3, ReturnKeeps

(* jc_block_insert: the cache enters the block just published.             *)
LEMMA InsertKeeps ==
  ASSUME StorageInv, Insert
  PROVE  StorageInv'
<1> USE DEF StorageInv
<1>1. /\ pc = "insert" /\ pc' = "idle" /\ eip' = None /\ fresh' = None
      /\ held' = held /\ ceiling' = ceiling /\ headroom' = headroom
      /\ cache' = [cache EXCEPT ![eip] = blocks[fresh].entry]
      /\ UNCHANGED <<memory, blocks, modules, pending, used, live_blocks, cannot_compact, has_batch,
                     next_victim, table, shared>>
  BY DEF Insert, arena, records
<1>2. /\ ClaimsAgree' /\ UsedAgrees' /\ PendingAlone' /\ EntriesOwned'
      /\ ModulesKept' /\ BatchSingle' /\ EntriesLead' /\ LiveSlots' = LiveSlots
  BY <1>1, StillKeeps
<1>3. eip \in Guests /\ fresh \in LiveSlots /\ blocks[fresh].guest = eip
  BY <1>1 DEF Phase
<1>4. blocks[fresh].entry \in Entries
  BY <1>3, BlocksFacts DEF Block
<1>5. cache' \in [Guests -> Entries \cup {None}]
  BY <1>1, <1>3, <1>4 DEF TypeOK
<1>6. TypeOK'
  BY <1>1, <1>5 DEF TypeOK, Block
<1>7. Phase'
  BY <1>1 DEF Phase
<1>8. ASSUME NEW g \in Guests, cache'[g] # None, End(g) < TopAddress
      PROVE  \E s \in LiveSlots : blocks[s].guest = g /\ blocks[s].entry = cache'[g]
  <2>1. cache \in [Guests -> Entries \cup {None}]
    BY DEF TypeOK
  <2>2. CASE g = eip
    BY <1>1, <1>3, <2>1, <2>2
  <2>3. CASE g # eip
    <3>1. cache'[g] = cache[g]
      BY <1>1, <2>1, <2>3
    <3> QED
      BY <1>8, <3>1 DEF CacheBelowTop
  <2> QED
    BY <2>2, <2>3
<1>9. CacheBelowTop' /\ CeilingAbove'
  BY <1>1, <1>2, <1>8 DEF CacheBelowTop, CeilingAbove, End
<1> QED
  BY <1>2, <1>6, <1>7, <1>9

(* No buffer for a batch.                                                  *)
LEMMA ShareNoBufferKeeps ==
  ASSUME StorageInv, ShareNoBuffer
  PROVE  StorageInv'
<1> USE DEF StorageInv
<1>1. /\ pc = "share" /\ pc' = "insert" /\ cannot_compact' = TRUE
      /\ held' = held /\ ceiling' = ceiling /\ headroom' = headroom
      /\ UNCHANGED <<memory, blocks, modules, pending, used, live_blocks, has_batch,
                     next_victim, table, cache, eip, fresh, shared>>
  BY DEF ShareNoBuffer, arena, records
<1>2. /\ ClaimsAgree' /\ UsedAgrees' /\ PendingAlone' /\ EntriesOwned'
      /\ ModulesKept' /\ BatchSingle' /\ EntriesLead' /\ LiveSlots' = LiveSlots
  BY <1>1, StillKeeps
<1>3. TypeOK'
  BY <1>1 DEF TypeOK, Block
<1>4. Phase'
  BY <1>1, <1>2 DEF Phase
<1>5. CacheBelowTop' /\ CeilingAbove'
  BY <1>1, <1>2 DEF CacheBelowTop, CeilingAbove, End
<1> QED
  BY <1>2, <1>3, <1>4, <1>5

(* A batch is given up as it was.                                          *)
LEMMA ShareRefusedKeeps ==
  ASSUME StorageInv, NEW by_engine \in BOOLEAN, ShareRefused(by_engine)
  PROVE  StorageInv'
<1> USE DEF StorageInv
<1>1. /\ pc = "share" /\ pc' = "insert" /\ has_batch' = TRUE /\ cannot_compact' = ~CanAdopt
      /\ pending' = <<>>
      /\ UNCHANGED <<memory, blocks, modules, used, live_blocks, next_victim, table, cache, eip, fresh, shared>>
  BY DEF ShareRefused
<1>2. held \subseteq Tokens /\ ceiling \in Nat /\ headroom \in Nat
  BY DEF TypeOK
<1>3. held' = held /\ ceiling' \in Nat /\ headroom' \in Nat /\ CeilingAbove'
  <2>1. CASE by_engine
    BY <1>2, <2>1, RefuseKeeps DEF ShareRefused
  <2>2. CASE ~by_engine
    BY <1>2, <2>2 DEF ShareRefused, arena, CeilingAbove
  <2> QED
    BY <2>1, <2>2
<1>4. /\ ClaimsAgree' /\ UsedAgrees' /\ PendingAlone' /\ EntriesOwned'
      /\ ModulesKept' /\ BatchSingle' /\ EntriesLead' /\ LiveSlots' = LiveSlots
  BY <1>1, <1>3, StillKeeps
<1>5. TypeOK'
  <2>1. CanAdopt \in BOOLEAN /\ Batch \in Nat
    BY StorageAssumption
  <2>2. pending' \in Seq(Slots) /\ Len(pending') <= Batch
    BY <1>1, <2>1
  <2>3. cannot_compact' \in BOOLEAN
    BY <1>1, <2>1
  <2> QED
    BY <1>1, <1>3, <2>2, <2>3 DEF TypeOK, Block
<1>6. Phase'
  BY <1>1, <1>4 DEF Phase
<1>7. CacheBelowTop'
  BY <1>1, <1>4 DEF CacheBelowTop, End
<1> QED
  BY <1>3, <1>4, <1>5, <1>6, <1>7

(* The shared module is published, with no claim yet.                      *)
LEMMA SharePublishKeeps ==
  ASSUME StorageInv, NEW t \in Tokens, SharePublish(t)
  PROVE  StorageInv'
<1> USE DEF StorageInv
<1>1. /\ pc = "share" /\ pc' = "adopt" /\ LoweredTheSame /\ has_batch' = TRUE
      /\ t \notin held /\ held' = held \cup {t} /\ ceiling' = ceiling /\ headroom' = headroom
      /\ shared' = [token |-> t, moved |-> 0]
      /\ UNCHANGED <<memory, blocks, modules, pending, used, live_blocks, cannot_compact,
                     next_victim, table, cache, eip, fresh>>
  BY DEF SharePublish, Take, records
<1>2. shared = None
  BY <1>1 DEF Phase
<1>3. Batch \in Nat /\ 0 \in 0 .. Batch
  BY StorageAssumption
<1>4. shared' \in [token : Tokens, moved : 0 .. Batch] /\ shared' # None
  BY <1>1, <1>3, StorageAssumption
<1>5. shared'.token = t /\ shared'.moved = 0
  BY <1>1
<1>6. LiveSlots' = LiveSlots /\ \A u : BlocksOf(u)' = BlocksOf(u)
  <2>1. LiveSlots' = LiveSlots
    BY <1>1 DEF LiveSlots
  <2> QED
    BY <1>1, <2>1 DEF BlocksOf
<1>7. Free' = Free /\ NoModule' = NoModule
  BY DEF Free, NoModule
<1>8. TypeOK'
  BY <1>1, <1>4 DEF TypeOK, Block
<1>9. ClaimsAgree'
  <2>1. held = {u \in Tokens : modules[u].blocks > 0}
    BY <1>2 DEF ClaimsAgree
  <2>2. \A u \in Tokens : modules'[u].blocks = Cardinality(BlocksOf(u)')
    BY <1>1, <1>6 DEF ClaimsAgree
  <2>3. held' = {u \in Tokens : modules'[u].blocks > 0} \cup {shared'.token}
    BY <1>1, <1>5, <2>1
  <2> QED
    BY <1>4, <2>2, <2>3 DEF ClaimsAgree
<1>10. UsedAgrees'
  BY <1>1, <1>6 DEF UsedAgrees
<1>11. PendingAlone' /\ BatchSingle'
  BY <1>1, <1>6 DEF PendingAlone, BatchSingle, BlocksOf
<1>12. EntriesOwned'
  BY <1>1, <1>6, <1>7 DEF EntriesOwned
<1>13. BlocksOf(t) = {}
  <2>1. ~(modules[t].blocks > 0)
    BY <1>1, <1>2 DEF ClaimsAgree
  <2> QED
    BY <2>1, EmptyHasNone
<1>14. Phase'
  <2>1. (BlocksOf(shared.token))' = {}
    BY <1>1, <1>5, <1>6, <1>13 DEF BlocksOf
  <2>2. LoweredTheSame'
    BY <1>1 DEF LoweredTheSame
  <2>3. pending \in Seq(Slots)
    BY DEF TypeOK
  <2>4. shared'.moved <= Len(pending')
    BY <1>1, <1>5, <2>3
  <2> QED
    BY <1>1, <1>4, <1>6, <2>1, <2>2, <2>4 DEF Phase
<1>15. ModulesKept'
  BY <1>1, <1>7 DEF ModulesKept
<1>16. EntriesLead'
  <2>1. MovedSoFar' = {}
    BY <1>5 DEF MovedSoFar
  <2>2. \A s \in LiveSlots : Shared(blocks[s].entry) => Shared(blocks[s].entry)'
    BY <1>1, <1>2 DEF Shared
  <2>3. \A s \in LiveSlots : Runner(s) = blocks[s].token /\ Runner(s)' = blocks[s].token
    BY <1>1, <2>1 DEF Runner
  <2> QED
    BY <1>1, <1>6, <1>7, <2>2, <2>3 DEF EntriesLead
<1>17. CacheBelowTop' /\ CeilingAbove'
  BY <1>1, <1>6 DEF CacheBelowTop, CeilingAbove, End
<1> QED
  BY <1>8, <1>9, <1>10, <1>11, <1>12, <1>14, <1>15, <1>16, <1>17

(* Publication: a free record, a module and an entry of the table that no  *)
(* block, batch or sibling uses.                                           *)
LEMMA PublishKeeps ==
  ASSUME StorageInv, NEW t \in Tokens, NEW e \in Entries, NEW bytes \in BlockBytes, Publish(t, e, bytes)
  PROVE  StorageInv'
<1> USE DEF StorageInv
<1> DEFINE s == Min(Slots \ LiveSlots)
           b == [guest |-> eip, token |-> t, entry |-> e, code |-> memory[eip]]
<1>1. /\ pc = "room" /\ Room /\ bytes <= ByteBudget - used /\ table[e] = Free
      /\ t \notin held /\ held' = held \cup {t} /\ ceiling' = ceiling /\ headroom' = headroom
      /\ blocks' = [blocks EXCEPT ![s] = b] /\ fresh' = s
      /\ pending' = IF Len(pending) < Batch THEN Append(pending, s) ELSE pending
      /\ table' = [table EXCEPT ![e] = [owner |-> t, code |-> memory[eip]]]
      /\ modules' = [modules EXCEPT ![t] = [bytes |-> bytes, blocks |-> 1, siblings |-> {}]]
      /\ used' = used + bytes /\ live_blocks' = live_blocks + 1
      /\ pc' = IF Len(pending') = Batch /\ ~cannot_compact THEN "share" ELSE "insert"
      /\ UNCHANGED <<memory, cannot_compact, has_batch, next_victim, cache, eip, shared>>
  BY DEF Publish, Take
<1>2. /\ shared = None /\ shared' = None /\ eip \in Guests /\ memory[eip] \in Codes
      /\ pc' \in {"share", "insert"} /\ pc # "adopt" /\ pc' # "adopt"
  BY <1>1 DEF Phase, TypeOK
<1>3. s \in Slots /\ s \notin LiveSlots
  <2>1. Slots \ LiveSlots # {}
    <3>1. Cardinality(LiveSlots) < Capacity
      BY <1>1 DEF UsedAgrees, Room
    <3>2. Cardinality(Slots) = Capacity /\ Capacity \in Nat
      BY TokensFinite, StorageAssumption DEF Slots
    <3>3. LiveSlots \subseteq Slots
      BY BlocksFacts
    <3>4. LiveSlots # Slots
      BY <3>1, <3>2
    <3> QED
      BY <3>3, <3>4
  <2>2. Slots \ LiveSlots \subseteq Nat
    BY DEF Slots, Tokens
  <2>3. \E m \in Slots \ LiveSlots : \A k \in Slots \ LiveSlots : m <= k
    BY <2>1, <2>2, LeastNat
  <2> QED
    BY <2>3 DEF Min
<1>4. b \in Block /\ b # None
  BY <1>2, StorageAssumption DEF Block
<1>5. b.guest = eip /\ b.token = t /\ b.entry = e /\ b.code = memory[eip]
  OBVIOUS
<1> HIDE DEF s, b
<1>6. blocks' \in [Slots -> Block \cup {None}] /\ blocks'[s] = b /\ \A r \in Slots \ {s} : blocks'[r] = blocks[r]
  BY <1>1, <1>3, <1>4 DEF TypeOK
<1>7. /\ LiveSlots' = LiveSlots \cup {s}
      /\ \A r \in LiveSlots : r # s /\ blocks'[r] = blocks[r]
  <2>1. LiveSlots' = {r \in Slots : blocks'[r] # None}
    BY DEF LiveSlots
  <2>2. LiveSlots \subseteq Slots
    BY BlocksFacts
  <2> QED
    BY <1>3, <1>4, <1>6, <2>1, <2>2 DEF LiveSlots
<1>8. held = {u \in Tokens : modules[u].blocks > 0}
  BY <1>2 DEF ClaimsAgree
<1>9. BlocksOf(t) = {} /\ modules[t] = NoModule
  <2>1. ~(modules[t].blocks > 0)
    BY <1>1, <1>8
  <2>2. BlocksOf(t) = {}
    BY <2>1, EmptyHasNone
  <2> QED
    BY <2>2, EmptyHasNone DEF ModulesKept
<1>10. \A r \in LiveSlots : /\ blocks[r] \in Block /\ blocks[r].token # t /\ blocks[r].token \in Tokens
                            /\ blocks[r].entry \in Entries
  BY <1>9, BlocksFacts DEF BlocksOf, Block
<1>11. BlocksOf(t)' = {s} /\ \A u : u # t => BlocksOf(u)' = BlocksOf(u)
  BY <1>5, <1>6, <1>7, <1>10 DEF BlocksOf
<1>12. /\ modules' \in Costs /\ modules'[t] = [bytes |-> bytes, blocks |-> 1, siblings |-> {}]
       /\ \A u \in Tokens : u # t => modules'[u] = modules[u]
  <2>1. bytes \in Nat
    BY StorageAssumption
  <2>2. modules \in Costs
    BY ModulesAreCosts
  <2> QED
    BY <1>1, <2>1, <2>2 DEF Costs
<1>13. modules'[t].bytes = bytes /\ modules'[t].blocks = 1 /\ modules'[t].siblings = {} /\ bytes \in Nat /\ bytes > 0
  BY <1>12, StorageAssumption
<1>14. ClaimsAgree'
  <2>1. \A u \in Tokens : modules'[u].blocks = Cardinality(BlocksOf(u)')
    <3>1. Cardinality({s}) = 1
      BY FS_Singleton
    <3> QED
      BY <1>11, <1>12, <1>13, <3>1 DEF ClaimsAgree
  <2>2. held' = {u \in Tokens : modules'[u].blocks > 0}
    BY <1>1, <1>8, <1>12, <1>13
  <2> QED
    BY <1>2, <2>1, <2>2 DEF ClaimsAgree
<1>15. used' \in Nat /\ live_blocks' \in Nat /\ UsedAgrees'
  <2>1. used = BytesIn(modules, Tokens) /\ live_blocks = Cardinality(LiveSlots)
    BY DEF UsedAgrees
  <2>2. {t} \in SUBSET Tokens /\ Tokens \ {t} \in SUBSET Tokens /\ modules \in Costs
    BY ModulesAreCosts
  <2>3. /\ BytesIn(modules, Tokens) = BytesIn(modules, Tokens \ {t}) + BytesIn(modules, {t})
        /\ BytesIn(modules, Tokens \ {t}) \in Nat
    BY <2>2, BytesSplit
  <2>4. BytesIn(modules', Tokens) = BytesIn(modules', Tokens \ {t}) + BytesIn(modules', {t})
    BY <1>12, <2>2, BytesSplit
  <2>5. BytesIn(modules', Tokens \ {t}) = BytesIn(modules, Tokens \ {t})
    <3>1. \A u \in Tokens \ {t} : modules'[u].bytes = modules[u].bytes
      BY <1>12
    <3> QED
      BY <1>12, <2>2, <3>1, BytesSame
  <2>6. BytesIn(modules, {t}) = 0
    BY <1>9, <2>2, BytesOne DEF NoModule
  <2>7. BytesIn(modules', {t}) = bytes
    BY <1>12, <1>13, BytesOne
  <2>8. Cardinality(LiveSlots \cup {s}) = Cardinality(LiveSlots) + 1 /\ Cardinality(LiveSlots) \in Nat
    BY <1>3, BlocksFacts, FS_AddElement
  <2>9. used' = BytesIn(modules', Tokens) /\ used' \in Nat
    BY <1>1, <1>13, <2>1, <2>3, <2>4, <2>5, <2>6, <2>7
  <2>10. live_blocks' = Cardinality(LiveSlots') /\ live_blocks' \in Nat
    BY <1>1, <1>7, <2>1, <2>8
  <2> QED
    BY <2>9, <2>10 DEF UsedAgrees
<1>16. pending \in Seq(Slots) /\ Len(pending) <= Batch /\ Batch \in Nat
  BY StorageAssumption DEF TypeOK
<1>17. /\ pending' \in Seq(Slots) /\ Len(pending') <= Batch
       /\ \A i \in 1 .. Len(pending') :
            \/ pending'[i] = s /\ i = Len(pending) + 1
            \/ i \in 1 .. Len(pending) /\ pending'[i] = pending[i]
  <2>1. CASE Len(pending) < Batch
    BY <1>1, <1>3, <1>16, <2>1
  <2>2. CASE ~(Len(pending) < Batch)
    BY <1>1, <1>16, <2>2
  <2> QED
    BY <2>1, <2>2
<1>18. \A i \in 1 .. Len(pending) : /\ pending[i] \in LiveSlots
                                    /\ BlocksOf(blocks[pending[i]].token) = {pending[i]}
  BY DEF PendingAlone
<1>19. \A i \in 1 .. Len(pending) : /\ pending[i] # s /\ blocks'[pending[i]] = blocks[pending[i]]
                                    /\ blocks[pending[i]].token # t /\ blocks[pending[i]].token \in Tokens
  BY <1>7, <1>10, <1>18
<1>20. \A r \in LiveSlots : {q \in LiveSlots' : blocks'[q].token = blocks[r].token} = BlocksOf(blocks[r].token)
  BY <1>5, <1>6, <1>7, <1>10 DEF BlocksOf
<1>21. {q \in LiveSlots' : blocks'[q].token = t} = {s}
  BY <1>11 DEF BlocksOf
<1>22. PendingAlone'
  <2>1. \A i, j \in 1 .. Len(pending') : pending'[i] = pending'[j] => i = j
    BY <1>17, <1>19 DEF PendingAlone
  <2>2. ASSUME NEW i \in 1 .. Len(pending')
        PROVE  /\ pending'[i] \in LiveSlots'
               /\ {q \in LiveSlots' : blocks'[q].token = blocks'[pending'[i]].token} = {pending'[i]}
    <3>1. CASE pending'[i] = s
      BY <1>5, <1>6, <1>7, <1>21, <3>1
    <3>2. CASE i \in 1 .. Len(pending) /\ pending'[i] = pending[i]
      <4>1. pending'[i] \in LiveSlots /\ blocks'[pending'[i]] = blocks[pending'[i]]
            /\ BlocksOf(blocks[pending'[i]].token) = {pending'[i]}
        BY <1>18, <1>19, <3>2
      <4> QED
        BY <1>7, <1>20, <4>1
    <3> QED
      BY <1>17, <3>1, <3>2
  <2> QED
    BY <2>1, <2>2 DEF PendingAlone, BlocksOf
<1>23. BatchSingle'
  <2>1. ASSUME NEW i \in 1 .. Len(pending') PROVE modules'[blocks'[pending'[i]].token].siblings = {}
    <3>1. CASE pending'[i] = s
      BY <1>5, <1>6, <1>13, <3>1
    <3>2. CASE i \in 1 .. Len(pending) /\ pending'[i] = pending[i]
      <4>1. blocks'[pending'[i]].token = blocks[pending[i]].token /\ modules'[blocks[pending[i]].token] = modules[blocks[pending[i]].token]
        BY <1>12, <1>19, <3>2
      <4>2. pending[i] \in ToSet(pending)
        BY <1>16, <3>2 DEF ToSet
      <4> QED
        BY <4>1, <4>2 DEF BatchSingle
    <3> QED
      BY <1>17, <3>1, <3>2
  <2>2. ToSet(pending') = {pending'[i] : i \in 1 .. Len(pending')}
    BY <1>17 DEF ToSet
  <2>3. \A r \in ToSet(pending') : modules'[blocks'[r].token].siblings = {}
    BY <2>1, <2>2
  <2> QED
    BY <2>3 DEF BatchSingle
<1>24. None \notin Tokens /\ Free' = Free /\ NoModule' = NoModule /\ Free.owner = None
  BY StorageAssumption DEF Free, NoModule
<1>25. /\ table' \in [Entries -> [owner : Tokens \cup {None}, code : Codes \cup {None}]]
       /\ table'[e].owner = t /\ table'[e].code = memory[eip]
       /\ \A d \in Entries : d # e => table'[d] = table[d]
  BY <1>1, <1>2 DEF TypeOK
<1>26. \A r \in LiveSlots : table[blocks[r].entry].owner = blocks[r].token /\ blocks[r].entry # e
  BY <1>1, <1>2, <1>10, <1>24 DEF EntriesLead, Runner
<1>27. EntriesOwned'
  <2>1. \A q, r \in LiveSlots' : blocks'[q].entry = blocks'[r].entry => q = r
    BY <1>5, <1>6, <1>7, <1>26 DEF EntriesOwned
  <2>2. \A d \in Entries : table'[d] # Free => table'[d].owner \in held'
    BY <1>1, <1>25 DEF EntriesOwned
  <2> QED
    BY <1>24, <2>1, <2>2 DEF EntriesOwned
<1>28. EntriesLead'
  <2>1. ASSUME NEW r \in LiveSlots'
        PROVE  /\ table'[blocks'[r].entry].owner = blocks'[r].token
               /\ Shape(table'[blocks'[r].entry].code) = Shape(blocks'[r].code)
               /\ table'[blocks'[r].entry].code = blocks'[r].code \/ Shared(blocks[r].entry)'
    <3>1. CASE r = s
      BY <1>5, <1>6, <1>25, <3>1
    <3>2. CASE r \in LiveSlots
      <4>1. blocks'[r] = blocks[r] /\ table'[blocks[r].entry] = table[blocks[r].entry]
        BY <1>7, <1>10, <1>25, <1>26, <3>2
      <4>2. blocks[r].token \in Tokens /\ blocks[r].token # t
        BY <1>10, <1>12, <1>26, <3>2
      <4>3. modules'[blocks[r].token] = modules[blocks[r].token]
        BY <1>12, <4>2
      <4>4. Shared(blocks[r].entry) => Shared(blocks[r].entry)'
        BY <1>2, <1>26, <3>2, <4>1, <4>3 DEF Shared
      <4> QED
        BY <1>26, <3>2, <4>1, <4>4 DEF EntriesLead
    <3> QED
      BY <1>7, <3>1, <3>2
  <2>2. \A d \in Entries : table'[d] # Free => table'[d].code \in Codes
    BY <1>2, <1>25 DEF EntriesLead
  <2> QED
    BY <1>2, <1>24, <2>1, <2>2 DEF EntriesLead, Runner
<1>29. ModulesKept'
  <2>1. ASSUME NEW u \in Tokens, NEW d \in modules'[u].siblings PROVE table'[d].owner = u
    <3>1. u # t /\ d \in modules[u].siblings
      BY <1>12, <1>13, <2>1
    <3>2. table[d].owner = u /\ d \in Entries
      BY <3>1 DEF ModulesKept, TypeOK
    <3>3. d # e
      BY <1>1, <1>24, <3>2
    <3> QED
      BY <1>25, <3>2, <3>3
  <2>2. \A u \in Tokens : /\ modules'[u].blocks = 0 => modules'[u] = NoModule
                          /\ modules'[u].blocks > 0 => modules'[u].bytes > 0
    BY <1>12, <1>13 DEF ModulesKept
  <2> QED
    BY <1>24, <2>1, <2>2 DEF ModulesKept
<1>30. CacheBelowTop' /\ CeilingAbove'
  <2>1. ASSUME NEW g \in Guests, cache[g] # None, End(g) < TopAddress
        PROVE  \E r \in LiveSlots' : blocks'[r].guest = g /\ blocks'[r].entry = cache[g]
    <3>1. PICK r \in LiveSlots : blocks[r].guest = g /\ blocks[r].entry = cache[g]
      BY <2>1 DEF CacheBelowTop
    <3> QED
      BY <1>7, <3>1
  <2> QED
    BY <1>1, <2>1 DEF CacheBelowTop, CeilingAbove, End
<1>31. TypeOK'
  BY <1>1, <1>2, <1>3, <1>6, <1>12, <1>15, <1>17, <1>25 DEF TypeOK, Costs, Block
<1>32. Phase'
  <2>1. fresh' \in LiveSlots' /\ blocks'[fresh'].guest = eip'
    BY <1>1, <1>5, <1>6, <1>7
  <2>2. pc' = "share" => Len(pending') = Batch
    BY <1>1
  <2> QED
    BY <1>1, <1>2, <2>1, <2>2 DEF Phase
<1> QED
  BY <1>14, <1>15, <1>22, <1>23, <1>27, <1>28, <1>29, <1>30, <1>31, <1>32

(* One entry of the batch is moved onto the shared module.                 *)
LEMMA AdoptKeeps ==
  ASSUME StorageInv, Adopt
  PROVE  StorageInv'
<1> USE DEF StorageInv
<1> DEFINE n == shared.moved + 1
           s == pending[n]
           e == blocks[s].entry
<1>1. /\ pc = "adopt" /\ pc' = "adopt" /\ shared.moved < Len(pending)
      /\ table' = [table EXCEPT ![e] = [owner |-> shared.token, code |-> memory[blocks[s].guest]]]
      /\ shared' = [shared EXCEPT !.moved = n]
      /\ held' = held /\ ceiling' = ceiling /\ headroom' = headroom
      /\ UNCHANGED <<memory, blocks, modules, pending, used, live_blocks, cannot_compact, has_batch,
                     next_victim, cache, eip, fresh>>
  BY DEF Adopt, Adopted, arena, records
<1>2. shared # None /\ shared \in [token : Tokens, moved : 0 .. Batch]
  BY <1>1 DEF Phase, TypeOK
<1>3. pending \in Seq(Slots) /\ Len(pending) <= Batch /\ Batch \in Nat
  BY StorageAssumption DEF TypeOK
<1>4. n \in 1 .. Len(pending) /\ shared.moved \in Nat /\ n = shared.moved + 1
  BY <1>1, <1>2, <1>3
<1>5. /\ s \in LiveSlots /\ s \in ToSet(pending) /\ blocks[s] \in Block /\ s = pending[n]
      /\ e \in Entries /\ e = blocks[s].entry
  <2>1. s \in LiveSlots /\ s \in ToSet(pending)
    BY <1>3, <1>4 DEF PendingAlone, ToSet
  <2> QED
    BY <2>1, BlocksFacts DEF Block
<1> HIDE DEF n, s, e
<1>6. /\ shared' \in [token : Tokens, moved : 0 .. Batch] /\ shared' # None
      /\ shared'.token = shared.token /\ shared'.moved = n
  <2>1. shared' \in [token : Tokens, moved : 0 .. Batch] /\ shared'.token = shared.token /\ shared'.moved = n
    BY <1>1, <1>2, <1>3, <1>4
  <2> QED
    BY <2>1, StorageAssumption
<1>7. s \notin MovedSoFar /\ MovedSoFar' = MovedSoFar \cup {s}
  <2>1. \A i \in 1 .. shared.moved : i \in 1 .. Len(pending) /\ i # n
    BY <1>3, <1>4
  <2>2. s \notin MovedSoFar
    BY <1>4, <1>5, <2>1 DEF MovedSoFar, PendingAlone
  <2>3. MovedSoFar' = {pending[i] : i \in 1 .. n}
    BY <1>1, <1>6 DEF MovedSoFar
  <2>4. \A i : i \in 1 .. n <=> i \in 1 .. shared.moved \/ i = n
    BY <1>4
  <2>5. {pending[i] : i \in 1 .. n} = {pending[i] : i \in 1 .. shared.moved} \cup {pending[n]}
    BY <2>4
  <2> QED
    BY <1>5, <2>2, <2>3, <2>5 DEF MovedSoFar
<1>8. LiveSlots' = LiveSlots /\ \A u : BlocksOf(u)' = BlocksOf(u)
  <2>1. LiveSlots' = LiveSlots
    BY <1>1 DEF LiveSlots
  <2> QED
    BY <1>1, <2>1 DEF BlocksOf
<1>9. Free' = Free /\ NoModule' = NoModule
  BY DEF Free, NoModule
<1>10. blocks[s].guest \in Guests /\ memory[blocks[s].guest] \in Codes
  BY <1>5 DEF Block, TypeOK
<1>11. /\ table' \in [Entries -> [owner : Tokens \cup {None}, code : Codes \cup {None}]]
       /\ table'[e].owner = shared.token /\ table'[e].code = memory[blocks[s].guest]
       /\ \A d \in Entries : d # e => table'[d] = table[d]
  BY <1>1, <1>2, <1>5, <1>10 DEF TypeOK
<1>12. TypeOK'
  BY <1>1, <1>6, <1>11 DEF TypeOK, Block
<1>13. ClaimsAgree'
  <2>1. \A u \in Tokens : modules'[u].blocks = Cardinality(BlocksOf(u)')
    BY <1>1, <1>8 DEF ClaimsAgree
  <2>2. held' = {u \in Tokens : modules'[u].blocks > 0} \cup {shared'.token}
    BY <1>1, <1>2, <1>6 DEF ClaimsAgree
  <2> QED
    BY <1>6, <2>1, <2>2 DEF ClaimsAgree
<1>14. UsedAgrees'
  BY <1>1, <1>8 DEF UsedAgrees
<1>15. PendingAlone' /\ BatchSingle'
  BY <1>1, <1>8 DEF PendingAlone, BatchSingle, BlocksOf
<1>16. EntriesOwned'
  <2>1. shared.token \in held
    BY <1>2 DEF ClaimsAgree
  <2>2. \A d \in Entries : table'[d] # Free => table'[d].owner \in held
    BY <1>11, <2>1 DEF EntriesOwned
  <2> QED
    BY <1>1, <1>8, <1>9, <2>2 DEF EntriesOwned
<1>17. table[e].owner = blocks[s].token
  BY <1>1, <1>5, <1>7 DEF EntriesLead, Runner
<1>18. EntriesLead'
  <2>1. ASSUME NEW r \in LiveSlots
        PROVE  /\ table'[blocks[r].entry].owner = IF r \in MovedSoFar' THEN shared.token ELSE blocks[r].token
               /\ Shape(table'[blocks[r].entry].code) = Shape(blocks[r].code)
               /\ table'[blocks[r].entry].code = blocks[r].code \/ Shared(blocks[r].entry)'
    <3>1. CASE r = s
      <4>1. LoweredTheSame
        BY <1>1 DEF Phase
      <4>2. Shape(memory[blocks[pending[n]].guest]) = Shape(blocks[pending[n]].code)
        BY <1>4, <4>1 DEF LoweredTheSame
      <4>3. Shared(blocks[r].entry)'
        BY <1>1, <1>5, <1>6, <1>11, <3>1 DEF Shared
      <4> QED
        BY <1>5, <1>7, <1>11, <3>1, <4>2, <4>3
    <3>2. CASE r # s
      <4>1. blocks[r].entry # e /\ blocks[r].entry \in Entries
        BY <1>5, <3>2, BlocksFacts DEF EntriesOwned, Block
      <4>2. table'[blocks[r].entry] = table[blocks[r].entry] /\ (r \in MovedSoFar' <=> r \in MovedSoFar)
        BY <1>7, <1>11, <3>2, <4>1
      <4>3. Shared(blocks[r].entry) => Shared(blocks[r].entry)'
        BY <1>1, <1>2, <1>6, <4>2 DEF Shared
      <4> QED
        BY <1>1, <4>2, <4>3 DEF EntriesLead, Runner
    <3> QED
      BY <3>1, <3>2
  <2>2. \A d \in Entries : table'[d] # Free => table'[d].code \in Codes
    BY <1>10, <1>11 DEF EntriesLead
  <2>3. ASSUME NEW r \in LiveSlots
        PROVE  Runner(r)' = IF r \in MovedSoFar' THEN shared.token ELSE blocks[r].token
    BY <1>1, <1>6 DEF Runner
  <2> QED
    BY <1>1, <1>8, <1>9, <2>1, <2>2, <2>3 DEF EntriesLead
<1>19. ModulesKept'
  <2>1. ASSUME NEW u \in Tokens, NEW d \in modules[u].siblings PROVE table'[d].owner = u
    <3>1. table[d].owner = u /\ d \in Entries
      BY <2>1 DEF ModulesKept, TypeOK
    <3>2. modules[blocks[s].token].siblings = {}
      BY <1>5 DEF BatchSingle
    <3>3. d # e
      BY <1>17, <2>1, <3>1, <3>2
    <3> QED
      BY <1>11, <3>1, <3>3
  <2> QED
    BY <1>1, <1>9, <2>1 DEF ModulesKept
<1>20. CacheBelowTop' /\ CeilingAbove'
  BY <1>1, <1>8 DEF CacheBelowTop, CeilingAbove, End
<1>21. Phase'
  <2>1. (BlocksOf(shared.token))' = {}
    BY <1>1, <1>6, <1>8 DEF BlocksOf, Phase
  <2>2. LoweredTheSame'
    BY <1>1 DEF LoweredTheSame, Phase
  <2>3. shared'.moved <= Len(pending')
    BY <1>1, <1>4, <1>6
  <2> QED
    BY <1>1, <1>6, <1>8, <2>1, <2>2, <2>3 DEF Phase
<1> QED
  BY <1>12, <1>13, <1>14, <1>15, <1>16, <1>18, <1>19, <1>20, <1>21

(* An adoption fails: the entries already moved go back to the modules and *)
(* the codes they came from.                                               *)
LEMMA AdoptFailsKeeps ==
  ASSUME StorageInv, AdoptFails
  PROVE  StorageInv'
<1> USE DEF StorageInv
<1> DEFINE back(e) == blocks[CHOOSE s \in MovedSoFar : blocks[s].entry = e]
<1>1. /\ pc = "adopt" /\ pc' = "insert" /\ shared.moved < Len(pending) /\ Give({shared.token})
      /\ table' = [e \in Entries |->
           IF \E s \in MovedSoFar : blocks[s].entry = e
           THEN [owner |-> back(e).token, code |-> back(e).code]
           ELSE IF table[e].owner = shared.token THEN Free ELSE table[e]]
      /\ pending' = <<>> /\ shared' = None
      /\ UNCHANGED <<memory, blocks, modules, used, live_blocks, cannot_compact, has_batch,
                     next_victim, cache, eip, fresh>>
  BY DEF AdoptFails
<1>2. shared # None /\ shared.token \in Tokens /\ shared.moved \in Nat /\ pending \in Seq(Slots)
  BY <1>1 DEF Phase, TypeOK
<1>3. \A s \in MovedSoFar : s \in LiveSlots
  <2>1. \A i \in 1 .. shared.moved : i \in 1 .. Len(pending)
    BY <1>1, <1>2
  <2> QED
    BY <2>1 DEF MovedSoFar, PendingAlone
<1>4. \A s \in LiveSlots : blocks[s] \in Block
  BY BlocksFacts
<1>5. ASSUME NEW s \in MovedSoFar PROVE back(blocks[s].entry) = blocks[s]
  <2>1. \A r \in MovedSoFar : blocks[r].entry = blocks[s].entry => r = s
    BY <1>3 DEF EntriesOwned
  <2>2. (CHOOSE r \in MovedSoFar : blocks[r].entry = blocks[s].entry) = s
    BY <2>1
  <2> QED
    BY <2>2
<1> HIDE DEF back
<1>6. BlocksOf(shared.token) = {} /\ modules[shared.token] = NoModule
  <2>1. BlocksOf(shared.token) = {}
    BY <1>1 DEF Phase
  <2> QED
    BY <1>2, <2>1, EmptyHasNone DEF ModulesKept
<1>7. \A s \in LiveSlots : blocks[s].token # shared.token
  BY <1>6 DEF BlocksOf
<1>8. held' = held \ {shared.token} /\ ceiling' \in Nat /\ headroom' \in Nat /\ CeilingAbove' /\ held' \subseteq Tokens
  BY <1>1, GiveKeeps DEF TypeOK
<1>9. held' = {u \in Tokens : modules[u].blocks > 0}
  <2>1. held = {u \in Tokens : modules[u].blocks > 0} \cup {shared.token}
    BY <1>2 DEF ClaimsAgree
  <2>2. ~(modules[shared.token].blocks > 0)
    BY <1>6 DEF NoModule
  <2> QED
    BY <1>8, <2>1, <2>2
<1>10. LiveSlots' = LiveSlots /\ \A u : BlocksOf(u)' = BlocksOf(u)
  <2>1. LiveSlots' = LiveSlots
    BY <1>1 DEF LiveSlots
  <2> QED
    BY <1>1, <2>1 DEF BlocksOf
<1>11. Free' = Free /\ NoModule' = NoModule /\ Free.owner = None /\ None \notin Tokens
  BY StorageAssumption DEF Free, NoModule
<1>12. ASSUME NEW s \in MovedSoFar
       PROVE  table'[blocks[s].entry].owner = blocks[s].token /\ table'[blocks[s].entry].code = blocks[s].code
  <2>1. blocks[s].entry \in Entries
    BY <1>3, <1>4 DEF Block
  <2> QED
    BY <1>1, <1>5, <2>1
<1>13. \A e \in Entries : (\A s \in MovedSoFar : blocks[s].entry # e) =>
           table'[e] = IF table[e].owner = shared.token THEN Free ELSE table[e]
  BY <1>1
<1>14. ASSUME NEW s \in LiveSlots, s \notin MovedSoFar
       PROVE  table'[blocks[s].entry] = table[blocks[s].entry] /\ table[blocks[s].entry].owner = blocks[s].token
  <2>1. \A r \in MovedSoFar : blocks[r].entry # blocks[s].entry
    BY <1>3, <1>14 DEF EntriesOwned
  <2>2. table[blocks[s].entry].owner = blocks[s].token
    BY <1>14 DEF EntriesLead, Runner
  <2>3. blocks[s].entry \in Entries
    BY <1>4 DEF Block
  <2> QED
    BY <1>7, <1>13, <2>1, <2>2, <2>3
<1>15. table' \in [Entries -> [owner : Tokens \cup {None}, code : Codes \cup {None}]]
  <2>1. ASSUME NEW e \in Entries PROVE table'[e] \in [owner : Tokens \cup {None}, code : Codes \cup {None}]
    <3>1. CASE \E s \in MovedSoFar : blocks[s].entry = e
      <4>1. PICK s \in MovedSoFar : blocks[s].entry = e
        BY <3>1
      <4>2. back(e) = blocks[s] /\ blocks[s] \in Block
        BY <1>3, <1>4, <1>5, <4>1
      <4>3. table'[e] = [owner |-> blocks[s].token, code |-> blocks[s].code]
        BY <1>1, <3>1, <4>2
      <4> QED
        BY <4>2, <4>3 DEF Block
    <3>2. CASE \A s \in MovedSoFar : blocks[s].entry # e
      <4>1. table[e] \in [owner : Tokens \cup {None}, code : Codes \cup {None}]
        BY DEF TypeOK
      <4>2. Free \in [owner : Tokens \cup {None}, code : Codes \cup {None}]
        BY DEF Free
      <4> QED
        BY <1>13, <3>2, <4>1, <4>2
    <3> QED
      BY <3>1, <3>2
  <2>2. table' = [e \in Entries |-> table'[e]]
    BY <1>1
  <2> QED
    BY <2>1, <2>2
<1>16. TypeOK'
  <2>1. pending' \in Seq(Slots) /\ Len(pending') <= Batch
    BY <1>1, StorageAssumption
  <2> QED
    BY <1>1, <1>8, <1>15, <2>1 DEF TypeOK, Block
<1>17. ClaimsAgree'
  <2>1. \A u \in Tokens : modules'[u].blocks = Cardinality(BlocksOf(u)')
    BY <1>1, <1>10 DEF ClaimsAgree
  <2> QED
    BY <1>1, <1>9, <2>1 DEF ClaimsAgree
<1>18. UsedAgrees'
  BY <1>1, <1>10 DEF UsedAgrees
<1>19. PendingAlone' /\ BatchSingle'
  BY <1>1 DEF PendingAlone, BatchSingle, ToSet
<1>20. EntriesOwned'
  <2>1. ASSUME NEW e \in Entries, table'[e] # Free PROVE table'[e].owner \in held'
    <3>1. CASE \E s \in MovedSoFar : blocks[s].entry = e
      <4>1. PICK s \in MovedSoFar : blocks[s].entry = e
        BY <3>1
      <4>2. table'[e].owner = blocks[s].token /\ s \in LiveSlots /\ blocks[s].token \in Tokens
        BY <1>3, <1>4, <1>12, <4>1 DEF Block
      <4>3. BlocksOf(blocks[s].token) # {}
        BY <4>2 DEF BlocksOf
      <4> QED
        BY <1>9, <4>2, <4>3, EmptyHasNone
    <3>2. CASE \A s \in MovedSoFar : blocks[s].entry # e
      <4>1. table'[e] = table[e] /\ table[e] # Free /\ table[e].owner # shared.token
        BY <1>13, <2>1, <3>2
      <4>2. table[e].owner \in held
        BY <4>1 DEF EntriesOwned
      <4> QED
        BY <1>8, <4>1, <4>2
    <3> QED
      BY <3>1, <3>2
  <2> QED
    BY <1>1, <1>10, <1>11, <2>1 DEF EntriesOwned
<1>21. EntriesLead'
  <2>1. ASSUME NEW s \in LiveSlots
        PROVE  /\ table'[blocks[s].entry].owner = blocks[s].token
               /\ Shape(table'[blocks[s].entry].code) = Shape(blocks[s].code)
               /\ table'[blocks[s].entry].code = blocks[s].code \/ Shared(blocks[s].entry)'
    <3>1. CASE s \in MovedSoFar
      BY <1>12, <3>1
    <3>2. CASE s \notin MovedSoFar
      <4>1. Shared(blocks[s].entry) => Shared(blocks[s].entry)'
        BY <1>1, <1>7, <1>14, <3>2 DEF Shared
      <4> QED
        BY <1>14, <3>2, <4>1 DEF EntriesLead
    <3> QED
      BY <3>1, <3>2
  <2>2. ASSUME NEW e \in Entries, table'[e] # Free PROVE table'[e].code \in Codes
    <3>1. CASE \E s \in MovedSoFar : blocks[s].entry = e
      <4>1. PICK s \in MovedSoFar : blocks[s].entry = e
        BY <3>1
      <4> QED
        BY <1>3, <1>4, <1>12, <4>1 DEF Block
    <3>2. CASE \A s \in MovedSoFar : blocks[s].entry # e
      <4>1. table'[e] = table[e]
        BY <1>13, <2>2, <3>2
      <4> QED
        BY <2>2, <4>1 DEF EntriesLead
    <3> QED
      BY <3>1, <3>2
  <2>3. \A s : Runner(s)' = blocks'[s].token
    BY <1>1 DEF Runner
  <2> QED
    BY <1>1, <1>10, <1>11, <2>1, <2>2, <2>3 DEF EntriesLead
<1>22. ModulesKept'
  <2>1. ASSUME NEW u \in Tokens, NEW d \in modules[u].siblings PROVE table'[d].owner = u
    <3>1. table[d].owner = u /\ d \in Entries
      BY <2>1 DEF ModulesKept, TypeOK
    <3>2. u # shared.token
      BY <1>6, <2>1 DEF NoModule
    <3>3. \A s \in MovedSoFar : blocks[s].entry # d
      <4>1. \A s \in MovedSoFar : table[blocks[s].entry].owner = shared.token
        BY <1>1, <1>3 DEF EntriesLead, Runner
      <4> QED
        BY <3>1, <3>2, <4>1
    <3> QED
      BY <1>13, <3>1, <3>2, <3>3
  <2> QED
    BY <1>1, <1>11, <2>1 DEF ModulesKept
<1>23. CacheBelowTop'
  BY <1>1, <1>10 DEF CacheBelowTop, End
<1>24. Phase'
  BY <1>1, <1>10 DEF Phase
<1> QED
  BY <1>8, <1>16, <1>17, <1>18, <1>19, <1>20, <1>21, <1>22, <1>23, <1>24

(* What a batch's modules cost, counted by its blocks and by its modules.  *)
LEMMA BatchTotal ==
  ASSUME NEW B, IsFiniteSet(B), B = ToSet(pending),
         \A s \in B : modules[blocks[s].token].blocks = 1 /\ modules[blocks[s].token].bytes \in Nat
  PROVE  BatchBytes = Total([s \in B |-> modules[blocks[s].token].bytes], B)
<1> DEFINE f == [s \in B |-> modules[blocks[s].token].bytes]
           cost(s) == IF modules[blocks[s].token].blocks = 1 THEN modules[blocks[s].token].bytes ELSE 0
           pick(T) == CHOOSE x \in T : TRUE
           Body(g) == [T \in SUBSET B |-> IF T = {} THEN 0 ELSE cost(pick(T)) + g[T \ {pick(T)}]]
           c == CHOOSE g : g = Body(g)
<1>1. BatchBytes = c[B]
  BY DEF BatchBytes, MapThenSumSet, MapThenFoldSet
<1>2. \A x \in B : f[x] \in Nat
  OBVIOUS
<1>3. PICK g : g = FoldStep(f, g, B)
  <2> HIDE DEF f
  <2> QED
    BY <1>2, FoldExists
<1>4. \A T \in SUBSET B : T # {} => f[pick(T)] = cost(pick(T))
  <2>1. \A T \in SUBSET B : T # {} => pick(T) \in B
    OBVIOUS
  <2> HIDE DEF pick
  <2> QED
    BY <2>1
<1>5. \A k : Body(k) = FoldStep(f, k, B)
  <2> HIDE DEF cost, f
  <2> QED
    BY <1>4 DEF FoldStep
<1>6. g = Body(g)
  BY <1>3, <1>5, Zenon
<1>7. c = Body(c)
  <2> HIDE DEF Body
  <2> QED
    BY <1>6
<1>8. c = FoldStep(f, c, B)
  BY <1>5, <1>7, Zenon
<1>9. c[B] = Total(f, B)
  <2> HIDE DEF f, c
  <2> QED
    BY <1>2, <1>8, FoldTotal
<1> QED
  BY <1>1, <1>9

(* Each block of the batch is alone in its module, so the bytes            *)
(* share_a_module takes off are those of the modules it releases.          *)
LEMMA BatchBytesIn ==
  ASSUME TypeOK, ClaimsAgree, PendingAlone
  PROVE  LET B   == ToSet(pending)
             old == {blocks[s].token : s \in B}
         IN  /\ BatchBytes = BytesIn(modules, old) /\ old \in SUBSET Tokens /\ IsFiniteSet(B)
             /\ \A s \in B : s \in LiveSlots /\ BlocksOf(blocks[s].token) = {s}
             /\ \A t \in old : modules[t].blocks = 1
<1> DEFINE B == ToSet(pending)
           h == [s \in B |-> blocks[s].token]
           old == {blocks[s].token : s \in B}
           g == [s \in B |-> modules[blocks[s].token].bytes]
<1>1. pending \in Seq(Slots) /\ B = {pending[i] : i \in 1 .. Len(pending)}
  BY DEF TypeOK, ToSet
<1>2. \A s \in B : s \in LiveSlots /\ BlocksOf(blocks[s].token) = {s}
  BY <1>1 DEF PendingAlone
<1>3. IsFiniteSet(B)
  <2>1. B \in SUBSET Tokens
    BY <1>2, BlocksFacts
  <2> QED
    BY <2>1, TokensFinite
<1>4. \A s \in B : blocks[s].token \in Tokens
  BY <1>2, BlocksFacts DEF Block
<1>5. \A s \in B : modules[blocks[s].token].blocks = 1 /\ modules[blocks[s].token].bytes \in Nat
  <2>1. \A s \in B : Cardinality(BlocksOf(blocks[s].token)) = 1
    BY <1>2, FS_Singleton
  <2> QED
    BY <1>4, <2>1, EmptyHasNone DEF ClaimsAgree
<1>6. \A t \in old : modules[t].blocks = 1
  BY <1>5
<1>7. old \in SUBSET Tokens
  BY <1>4
<1>8. \A x, y \in B : h[x] = h[y] => x = y
  <2>1. \A x, y \in B : blocks[x].token = blocks[y].token => {x} = {y}
    BY <1>2
  <2> QED
    BY <2>1
<1>9. {h[x] : x \in B} = old
  OBVIOUS
<1>10. \A x \in B : BytesOf(modules)[h[x]] \in Nat /\ g[x] = BytesOf(modules)[h[x]]
  BY <1>4, ModulesAreCosts, BytesIsTotal
<1>11. BatchBytes = Total(g, B)
  BY <1>3, <1>5, BatchTotal
<1> HIDE DEF h, g
<1>12. Total(BytesOf(modules), {h[x] : x \in B}) = Total(g, B)
  <2> DEFINE f == BytesOf(modules)
  <2>1. \A x \in B : f[h[x]] \in Nat
    BY <1>10
  <2>2. \A x \in B : g[x] = f[h[x]]
    BY <1>10
  <2> HIDE DEF B, f
  <2>3. Total(f, {h[x] : x \in B}) = Total(g, B)
    BY <1>3, <1>8, <2>1, <2>2, TotalImage
  <2> QED
    BY <2>3 DEF f
<1>13. BytesIn(modules, old) = Total(BytesOf(modules), old)
  BY <1>7, ModulesAreCosts, BytesIsTotal
<1> HIDE DEF old, B
<1>14. BatchBytes = BytesIn(modules, old)
  BY <1>9, <1>11, <1>12, <1>13
<1> QED
  BY <1>2, <1>3, <1>6, <1>7, <1>14 DEF old, B

(* A batch has as many blocks as it is long.                               *)
LEMMA BatchCount ==
  ASSUME NEW p \in Seq(Slots), Distinct(p)
  PROVE  Cardinality(ToSet(p)) = Len(p)
<1> DEFINE n == Len(p)
           f == [i \in 1 .. n |-> p[i]]
<1>1. ToSet(p) = {p[i] : i \in 1 .. n} /\ n \in Nat
  BY DEF ToSet
<1>2. f \in [1 .. n -> ToSet(p)]
  BY <1>1
<1>3. \A i, j \in 1 .. n : f[i] = f[j] => i = j
  BY DEF Distinct
<1>4. \A s \in ToSet(p) : \E i \in 1 .. n : f[i] = s
  BY <1>1
<1> HIDE DEF f, n
<1>5. f \in Bijection(1 .. n, ToSet(p))
  BY <1>2, <1>3, <1>4 DEF Bijection, Injection, Surjection, IsInjective
<1>6. ExistsBijection(1 .. n, ToSet(p))
  BY <1>5 DEF ExistsBijection
<1>7. Cardinality(ToSet(p)) = n
  BY <1>1, <1>6, FS_CountingElements
<1> QED
  BY <1>7 DEF n

(* The batch is shared: its old modules are released, its records and      *)
(* claims follow, and its entries stay.                                    *)
LEMMA ShareDoneKeeps ==
  ASSUME StorageInv, NEW bytes \in SharedBytes, ShareDone(bytes)
  PROVE  StorageInv'
<1> USE DEF StorageInv
<1>0. PICK T : T = shared.token
  OBVIOUS
<1> DEFINE B == ToSet(pending)
           old == {blocks[s].token : s \in B}
           entries == {blocks[s].entry : s \in B}
           new == [bytes |-> bytes, blocks |-> shared.moved, siblings |-> entries]
<1>1. /\ pc = "adopt" /\ pc' = "insert" /\ shared.moved = Len(pending)
      /\ Give(old) /\ HostRelease(old, {})
      /\ blocks' = [s \in Slots |-> IF s \in B THEN [blocks[s] EXCEPT !.token = T] ELSE blocks[s]]
      /\ modules' = [t \in Tokens |->
           CASE t = T -> new
             [] t \in old /\ modules[t].blocks = 1 -> NoModule
             [] OTHER -> modules[t]]
      /\ used' = used - BatchBytes + bytes
      /\ pending' = <<>> /\ shared' = None
      /\ UNCHANGED <<memory, live_blocks, cannot_compact, has_batch, next_victim, cache, eip, fresh>>
  BY <1>0 DEF ShareDone
<1>2. shared # None /\ T \in Tokens /\ pending \in Seq(Slots) /\ Distinct(pending)
  BY <1>0, <1>1 DEF Phase, TypeOK, PendingAlone, Distinct
<1>3. /\ BatchBytes = BytesIn(modules, old) /\ old \in SUBSET Tokens /\ IsFiniteSet(B)
      /\ \A s \in B : s \in LiveSlots /\ BlocksOf(blocks[s].token) = {s}
      /\ \A t \in old : modules[t].blocks = 1
  BY BatchBytesIn
<1>4. MovedSoFar = B
  BY <1>1, <1>2 DEF MovedSoFar, ToSet
<1>5. BlocksOf(T) = {} /\ modules[T] = NoModule /\ T \notin old
  <2>1. BlocksOf(T) = {}
    BY <1>0, <1>1 DEF Phase
  <2>2. \A s \in B : blocks[s].token # T
    BY <1>3, <2>1
  <2> QED
    BY <1>2, <2>1, <2>2, EmptyHasNone DEF ModulesKept
<1>6. Cardinality(B) = shared.moved /\ shared.moved \in Nat /\ shared.moved > 0
  <2>1. Len(pending) = Batch /\ Batch \in Nat /\ Batch > 0
    BY <1>1, StorageAssumption DEF Phase
  <2> QED
    BY <1>1, <1>2, <2>1, BatchCount
<1>7. \A s \in LiveSlots : /\ blocks[s] \in Block /\ blocks[s] # None /\ s \in Slots
                           /\ blocks[s].entry \in Entries /\ blocks[s].token \in Tokens
  BY BlocksFacts DEF Block
<1>8. entries \in SUBSET Entries
  BY <1>3, <1>7
<1>9. new.bytes = bytes /\ new.blocks = shared.moved /\ new.siblings = entries /\ bytes \in Nat /\ bytes > 0
      /\ new \in [bytes : Nat, blocks : Nat, siblings : SUBSET Entries]
  BY <1>6, <1>8, StorageAssumption
<1> HIDE DEF B, old, entries, new
<1>10. /\ held' = held \ old /\ held' \subseteq Tokens
       /\ ceiling' \in Nat /\ headroom' \in Nat /\ CeilingAbove'
  BY <1>1, GiveKeeps DEF TypeOK
<1>11. ASSUME NEW s \in B
       PROVE  /\ blocks'[s] \in Block /\ blocks'[s] # None /\ blocks'[s].token = T
              /\ blocks'[s].guest = blocks[s].guest /\ blocks'[s].entry = blocks[s].entry
              /\ blocks'[s].code = blocks[s].code
  <2>1. blocks[s] \in Block /\ s \in Slots
    BY <1>3, <1>7
  <2>2. blocks'[s] = [blocks[s] EXCEPT !.token = T]
    BY <1>1, <2>1
  <2>3. blocks'[s] \in Block
    BY <1>2, <2>1, <2>2 DEF Block
  <2>4. None \notin Block
    BY StorageAssumption DEF Block
  <2> QED
    BY <2>1, <2>2, <2>3, <2>4 DEF Block
<1>12. \A s \in Slots \ B : blocks'[s] = blocks[s]
  BY <1>1
<1>13. blocks' \in [Slots -> Block \cup {None}]
  <2>1. \A s \in Slots : blocks'[s] \in Block \cup {None}
    BY <1>11, <1>12 DEF TypeOK
  <2>2. blocks' = [s \in Slots |-> blocks'[s]]
    BY <1>1
  <2> QED
    BY <2>1, <2>2
<1>14. LiveSlots' = LiveSlots
  <2>1. \A s \in Slots : blocks'[s] # None <=> blocks[s] # None
    BY <1>3, <1>7, <1>11, <1>12
  <2> QED
    BY <2>1 DEF LiveSlots
<1>15. \A s \in LiveSlots : /\ blocks'[s].guest = blocks[s].guest /\ blocks'[s].entry = blocks[s].entry
                            /\ blocks'[s].code = blocks[s].code
                            /\ blocks'[s].token = IF s \in B THEN T ELSE blocks[s].token
  BY <1>7, <1>11, <1>12
<1>16. \A s \in LiveSlots : s \in B <=> blocks[s].token \in old
  <2>1. \A s \in LiveSlots, r \in B : blocks[s].token = blocks[r].token => s = r
    BY <1>3 DEF BlocksOf
  <2> QED
    BY <2>1 DEF old
<1>17. /\ BlocksOf(T)' = B
       /\ \A u \in old : BlocksOf(u)' = {}
       /\ \A u \in Tokens : u # T /\ u \notin old => BlocksOf(u)' = BlocksOf(u)
  <2>1. \A u : BlocksOf(u)' = {s \in LiveSlots : blocks'[s].token = u}
    BY <1>14 DEF BlocksOf
  <2>2. \A s \in LiveSlots : blocks[s].token # T
    BY <1>5 DEF BlocksOf
  <2>3. BlocksOf(T)' = B
    <3>1. {s \in LiveSlots : blocks'[s].token = T} = B
      BY <1>3, <1>15, <2>2
    <3> QED
      BY <2>1, <3>1
  <2>4. ASSUME NEW u \in old PROVE BlocksOf(u)' = {}
    <3>1. \A s \in LiveSlots : blocks'[s].token # u
      BY <1>5, <1>15, <1>16, <2>4
    <3> QED
      BY <2>1, <3>1
  <2>5. ASSUME NEW u \in Tokens, u # T, u \notin old PROVE BlocksOf(u)' = BlocksOf(u)
    <3>1. \A s \in LiveSlots : blocks'[s].token = u <=> blocks[s].token = u
      BY <1>15, <1>16, <2>5
    <3> QED
      BY <2>1, <3>1 DEF BlocksOf
  <2> QED
    BY <2>3, <2>4, <2>5
<1>18. /\ modules'[T] = new
       /\ \A u \in old : modules'[u] = NoModule
       /\ \A u \in Tokens : u # T /\ u \notin old => modules'[u] = modules[u]
  BY <1>1, <1>2, <1>3, <1>5
<1>19. modules' \in Costs
  <2>1. NoModule \in [bytes : Nat, blocks : Nat, siblings : SUBSET Entries]
    BY DEF NoModule
  <2>2. \A u \in Tokens : modules'[u] \in [bytes : Nat, blocks : Nat, siblings : SUBSET Entries]
    BY <1>9, <1>18, <2>1 DEF TypeOK
  <2>3. modules' = [u \in Tokens |-> modules'[u]]
    BY <1>1
  <2> QED
    BY <2>2, <2>3 DEF Costs
<1>20. ClaimsAgree'
  <2>1. ASSUME NEW u \in Tokens PROVE modules'[u].blocks = Cardinality(BlocksOf(u)')
    <3>1. CASE u = T
      BY <1>6, <1>9, <1>17, <1>18, <3>1
    <3>2. CASE u \in old
      <4>1. modules'[u].blocks = 0 /\ BlocksOf(u)' = {}
        BY <1>17, <1>18, <3>2 DEF NoModule
      <4> QED
        BY <4>1, FS_EmptySet
    <3>3. CASE u # T /\ u \notin old
      BY <1>17, <1>18, <3>3 DEF ClaimsAgree
    <3> QED
      BY <3>1, <3>2, <3>3
  <2>2. held = {u \in Tokens : modules[u].blocks > 0} \cup {T}
    BY <1>0, <1>2 DEF ClaimsAgree
  <2>3. ASSUME NEW u \in Tokens PROVE u \in held' <=> modules'[u].blocks > 0
    <3>1. CASE u = T
      BY <1>5, <1>6, <1>9, <1>10, <1>18, <2>2, <3>1
    <3>2. CASE u \in old
      <4>1. modules'[u].blocks = 0
        BY <1>18, <3>2 DEF NoModule
      <4> QED
        BY <1>10, <3>2, <4>1
    <3>3. CASE u # T /\ u \notin old
      BY <1>10, <1>18, <2>2, <3>3
    <3> QED
      BY <3>1, <3>2, <3>3
  <2>4. held' = {u \in Tokens : modules'[u].blocks > 0}
    BY <1>10, <2>3
  <2> QED
    BY <1>1, <2>1, <2>4 DEF ClaimsAgree
<1>21. used' \in Nat /\ UsedAgrees'
  <2> DEFINE out == old \cup {T}
             rest == Tokens \ out
  <2>1. used = BytesIn(modules, Tokens) /\ modules \in Costs
    BY ModulesAreCosts DEF UsedAgrees
  <2>2. out \in SUBSET Tokens /\ rest \in SUBSET Tokens /\ {T} \in SUBSET Tokens /\ out \in SUBSET Tokens
    BY <1>2, <1>3
  <2>3. BytesIn(modules, Tokens) = BytesIn(modules, rest) + BytesIn(modules, out)
        /\ BytesIn(modules, rest) \in Nat
    BY <2>1, <2>2, BytesSplit
  <2>4. BytesIn(modules', Tokens) = BytesIn(modules', rest) + BytesIn(modules', out)
    BY <1>19, <2>2, BytesSplit
  <2>5. BytesIn(modules', rest) = BytesIn(modules, rest)
    <3>1. \A u \in rest : modules'[u].bytes = modules[u].bytes
      BY <1>18
    <3> QED
      BY <1>19, <2>1, <2>2, <3>1, BytesSame
  <2>6. BytesIn(modules, out) = BytesIn(modules, old) /\ BytesIn(modules, old) \in Nat
    <3>1. BytesIn(modules, out) = BytesIn(modules, old) + BytesIn(modules, {T})
      BY <1>2, <1>3, <1>5, <2>1, BytesJoin
    <3>2. BytesIn(modules, {T}) = 0
      BY <1>2, <1>5, <2>1, BytesOne DEF NoModule
    <3>3. BytesIn(modules, old) \in Nat
      BY <1>3, <2>1, BytesSplit
    <3> QED
      BY <3>1, <3>2, <3>3
  <2>7. BytesIn(modules', out) = bytes
    <3>1. BytesIn(modules', out) = BytesIn(modules', old) + BytesIn(modules', {T})
      BY <1>2, <1>3, <1>5, <1>19, BytesJoin
    <3>2. BytesIn(modules', {T}) = bytes
      BY <1>2, <1>9, <1>18, <1>19, BytesOne
    <3>3. \A u \in old : modules'[u].bytes = 0
      BY <1>18 DEF NoModule
    <3>4. BytesIn(modules', old) = 0
      BY <1>3, <1>19, <3>3, BytesNone
    <3> QED
      BY <1>9, <3>1, <3>2, <3>4
  <2> HIDE DEF out, rest
  <2>8. used' = BytesIn(modules', Tokens) /\ used' \in Nat
    BY <1>1, <1>3, <1>9, <2>1, <2>3, <2>4, <2>5, <2>6, <2>7
  <2> QED
    BY <1>1, <1>14, <2>8 DEF UsedAgrees
<1>22. /\ \A e \in Entries : table'[e] = IF table[e].owner \in old THEN Free ELSE table[e]
       /\ table' \in [Entries -> [owner : Tokens \cup {None}, code : Codes \cup {None}]]
  BY <1>1, ReleaseClears
<1>23. TypeOK'
  <2>1. pending' \in Seq(Slots) /\ Len(pending') <= Batch
    BY <1>1, StorageAssumption
  <2> QED
    BY <1>1, <1>10, <1>13, <1>19, <1>21, <1>22, <2>1 DEF TypeOK, Costs, Block
<1>24. PendingAlone' /\ BatchSingle'
  BY <1>1 DEF PendingAlone, BatchSingle, ToSet
<1>25. Free' = Free /\ NoModule' = NoModule
  BY DEF Free, NoModule
<1>26. ASSUME NEW s \in LiveSlots
       PROVE  /\ table[blocks[s].entry].owner = IF s \in B THEN T ELSE blocks[s].token
              /\ table'[blocks[s].entry] = table[blocks[s].entry]
  <2>1. table[blocks[s].entry].owner = IF s \in B THEN T ELSE blocks[s].token
    BY <1>0, <1>1, <1>4 DEF EntriesLead, Runner
  <2>2. table[blocks[s].entry].owner \notin old
    BY <1>5, <1>16, <2>1
  <2> QED
    BY <1>7, <1>22, <2>1, <2>2
<1>27. EntriesOwned'
  <2>1. \A s, r \in LiveSlots : blocks'[s].entry = blocks'[r].entry => s = r
    BY <1>15 DEF EntriesOwned
  <2>2. ASSUME NEW e \in Entries, table'[e] # Free PROVE table'[e].owner \in held'
    <3>1. table'[e] = table[e] /\ table[e] # Free /\ table[e].owner \notin old
      BY <1>22, <2>2
    <3> QED
      BY <1>10, <3>1 DEF EntriesOwned
  <2> QED
    BY <1>14, <1>25, <2>1, <2>2 DEF EntriesOwned
<1>28. EntriesLead'
  <2>1. ASSUME NEW s \in LiveSlots
        PROVE  /\ table'[blocks'[s].entry].owner = blocks'[s].token
               /\ Shape(table'[blocks'[s].entry].code) = Shape(blocks'[s].code)
               /\ table'[blocks'[s].entry].code = blocks'[s].code \/ Shared(blocks[s].entry)'
    <3>1. CASE s \in B
      <4>1. blocks[s].entry \in entries
        BY <3>1 DEF entries
      <4>2. Shared(blocks[s].entry)'
        BY <1>9, <1>15, <1>18, <1>26, <3>1, <4>1 DEF Shared
      <4> QED
        BY <1>15, <1>26, <3>1, <4>2 DEF EntriesLead
    <3>2. CASE s \notin B
      <4>1. blocks[s].token # T /\ blocks[s].token \notin old /\ blocks[s].token \in Tokens
        BY <1>5, <1>7, <1>16, <1>22, <1>26, <3>2 DEF BlocksOf
      <4>2. modules'[blocks[s].token] = modules[blocks[s].token]
        BY <1>18, <4>1
      <4>3. Shared(blocks[s].entry) => Shared(blocks[s].entry)'
        BY <1>0, <1>15, <1>26, <3>2, <4>1, <4>2 DEF Shared
      <4> QED
        BY <1>15, <1>26, <3>2, <4>3 DEF EntriesLead
    <3> QED
      BY <3>1, <3>2
  <2>2. \A e \in Entries : table'[e] # Free => table'[e].code \in Codes
    BY <1>22 DEF EntriesLead
  <2>3. \A s : Runner(s)' = blocks'[s].token
    BY <1>1 DEF Runner
  <2> QED
    BY <1>14, <1>25, <2>1, <2>2, <2>3 DEF EntriesLead
<1>29. ModulesKept'
  <2>1. ASSUME NEW u \in Tokens, NEW e \in modules'[u].siblings PROVE table'[e].owner = u
    <3>1. CASE u = T
      <4>1. e \in entries
        BY <1>9, <1>18, <2>1, <3>1
      <4>2. PICK s \in B : e = blocks[s].entry
        BY <4>1 DEF entries
      <4> QED
        BY <1>3, <1>26, <3>1, <4>2
    <3>2. CASE u \in old
      BY <1>18, <2>1, <3>2 DEF NoModule
    <3>3. CASE u # T /\ u \notin old
      <4>1. e \in modules[u].siblings
        BY <1>18, <2>1, <3>3
      <4>2. table[e].owner = u /\ e \in Entries
        BY <4>1 DEF ModulesKept, TypeOK
      <4> QED
        BY <1>22, <3>3, <4>2
    <3> QED
      BY <3>1, <3>2, <3>3
  <2>2. ASSUME NEW u \in Tokens
        PROVE  /\ modules'[u].blocks = 0 => modules'[u] = NoModule
               /\ modules'[u].blocks > 0 => modules'[u].bytes > 0
    <3>1. CASE u = T
      BY <1>6, <1>9, <1>18, <3>1
    <3>2. CASE u \in old
      BY <1>18, <3>2 DEF NoModule
    <3>3. CASE u # T /\ u \notin old
      BY <1>18, <3>3 DEF ModulesKept
    <3> QED
      BY <3>1, <3>2, <3>3
  <2> QED
    BY <1>25, <2>1, <2>2 DEF ModulesKept
<1>30. CacheBelowTop'
  <2>1. ASSUME NEW g \in Guests, cache'[g] # None, End(g) < TopAddress
        PROVE  \E s \in LiveSlots' : blocks'[s].guest = g /\ blocks'[s].entry = cache'[g]
    <3>1. cache' = cache
      BY <1>1
    <3>2. PICK s \in LiveSlots : blocks[s].guest = g /\ blocks[s].entry = cache[g]
      BY <2>1, <3>1 DEF CacheBelowTop
    <3> QED
      BY <1>14, <1>15, <3>1, <3>2
  <2>2. \A g : End(g)' = End(g)
    BY DEF End
  <2> QED
    BY <2>1, <2>2 DEF CacheBelowTop
<1>31. Phase'
  <2>1. fresh \in LiveSlots /\ blocks[fresh].guest = eip
    BY <1>1 DEF Phase
  <2> QED
    BY <1>1, <1>14, <1>15, <2>1 DEF Phase
<1> QED
  BY <1>10, <1>20, <1>21, <1>23, <1>24, <1>27, <1>28, <1>29, <1>30, <1>31

-----------------------------------------------------------------------------
(* StorageInv is inductive.                                                *)

(* The storage begins empty.                                               *)
LEMMA StorageStart == Init => StorageInv
<1> SUFFICES ASSUME Init PROVE StorageInv
  OBVIOUS
<1> USE DEF Init, PoolInit
<1>1. LiveSlots = {} /\ \A t : BlocksOf(t) = {}
  BY DEF LiveSlots, BlocksOf
<1>2. \A t \in Tokens : modules[t] = NoModule /\ modules[t].bytes = 0 /\ modules[t].blocks = 0 /\ modules[t].siblings = {}
  BY DEF NoModule
<1>3. \A e \in Entries : table[e] = Free
  OBVIOUS
<1>4. TypeOK
  <2>1. 0 \in Tokens /\ Batch \in Nat
    BY StorageAssumption DEF Tokens
  <2>2. pending \in Seq(Slots) /\ Len(pending) <= Batch
    BY <2>1
  <2>3. modules \in [Tokens -> [bytes : Nat, blocks : Nat, siblings : SUBSET Entries]]
    BY DEF NoModule
  <2>4. table \in [Entries -> [owner : Tokens \cup {None}, code : Codes \cup {None}]]
    BY DEF Free
  <2>5. memory \in [Guests -> Codes]
    BY StorageAssumption
  <2> QED
    BY <2>1, <2>2, <2>3, <2>4, <2>5 DEF TypeOK
<1>5. ClaimsAgree
  <2>1. \A t \in Tokens : modules[t].blocks = Cardinality(BlocksOf(t))
    BY <1>1, <1>2, FS_EmptySet
  <2>2. {t \in Tokens : modules[t].blocks > 0} = {} /\ held = {} /\ shared = None
    BY <1>2
  <2> HIDE DEF Init, PoolInit
  <2> QED
    BY <2>1, <2>2 DEF ClaimsAgree
<1>6. UsedAgrees
  <2>1. BytesIn(modules, Tokens) = 0
    BY <1>2, <1>4, ModulesAreCosts, BytesNone
  <2> QED
    BY <1>1, <2>1, FS_EmptySet DEF UsedAgrees
<1>7. PendingAlone /\ BatchSingle
  BY DEF PendingAlone, BatchSingle, ToSet
<1>8. EntriesOwned /\ EntriesLead
  BY <1>1, <1>3 DEF EntriesOwned, EntriesLead
<1>9. ModulesKept
  BY <1>2 DEF ModulesKept
<1>10. Phase /\ CacheBelowTop /\ CeilingAbove
  BY DEF Phase, CacheBelowTop, CeilingAbove
<1> QED
  BY <1>4, <1>5, <1>6, <1>7, <1>8, <1>9, <1>10 DEF StorageInv

(* Nothing happens.                                                        *)
LEMMA StutterKeeps ==
  ASSUME StorageInv, UNCHANGED vars
  PROVE  StorageInv'
<1> USE DEF StorageInv
<1>1. UNCHANGED <<held, ceiling, headroom, memory, blocks, modules, pending, used, live_blocks, cannot_compact,
                  has_batch, next_victim, table, cache, pc, eip, fresh, shared>>
  BY DEF vars, arena, records
<1>2. LiveSlots' = LiveSlots
  BY <1>1 DEF LiveSlots
<1>3. \A t : BlocksOf(t)' = BlocksOf(t)
  BY <1>1, <1>2 DEF BlocksOf
<1>4. Free' = Free /\ NoModule' = NoModule /\ MovedSoFar' = MovedSoFar
  BY <1>1 DEF Free, NoModule, MovedSoFar
<1>5. TypeOK'
  BY <1>1 DEF TypeOK, Block
<1>6. ClaimsAgree' /\ UsedAgrees'
  BY <1>1, <1>2, <1>3 DEF ClaimsAgree, UsedAgrees
<1>7. PendingAlone' /\ BatchSingle'
  BY <1>1, <1>2 DEF PendingAlone, BatchSingle, BlocksOf
<1>8. EntriesOwned' /\ EntriesLead'
  BY <1>1, <1>2, <1>4 DEF EntriesOwned, EntriesLead, Runner, Shared
<1>9. ModulesKept'
  BY <1>1, <1>4 DEF ModulesKept
<1>10. Phase'
  BY <1>1, <1>2 DEF Phase, LoweredTheSame, BlocksOf
<1>11. CacheBelowTop' /\ CeilingAbove'
  BY <1>1, <1>2 DEF CacheBelowTop, CeilingAbove, End
<1> QED
  BY <1>5, <1>6, <1>7, <1>8, <1>9, <1>10, <1>11

(* Every step of the storage and its dispatcher keeps the invariant.       *)
LEMMA StorageStep == StorageInv /\ [Next]_vars => StorageInv'
<1> SUFFICES ASSUME StorageInv, [Next]_vars PROVE StorageInv'
  OBVIOUS
<1>1. CASE UNCHANGED vars
  BY <1>1, StutterKeeps
<1>2. CASE Embedder
  <2>1. ASSUME NEW g \in Guests, NEW slots_gone \in BOOLEAN, TranslateAt(g, slots_gone) PROVE StorageInv'
    BY <2>1, TranslateAtKeeps
  <2>2. ASSUME NEW g \in Rewritten, NEW c \in Codes, GuestWrites(g, c) PROVE StorageInv'
    BY <2>2, GuestWritesKeeps, StorageAssumption
  <2>3. ASSUME NEW lo, NEW hi, Invalidate(lo, hi) PROVE StorageInv'
    BY <2>3, InvalidateKeeps
  <2>4. CASE InvalidateAll
    BY <2>4, InvalidateAllKeeps
  <2> QED
    BY <1>2, <2>1, <2>2, <2>3, <2>4 DEF Embedder
<1>3. CASE Thread
  <2>1. CASE EvictForRoom
    BY <2>1, EvictForRoomKeeps
  <2>2. CASE TranslateFails
    BY <2>2, TranslateFailsKeeps
  <2>3. CASE PublishRefused
    BY <2>3, PublishRefusedKeeps
  <2>4. ASSUME NEW t \in Tokens, NEW e \in Entries, NEW bytes \in BlockBytes, Publish(t, e, bytes)
        PROVE  StorageInv'
    BY <2>4, PublishKeeps
  <2>5. CASE Insert
    BY <2>5, InsertKeeps
  <2>6. CASE ShareNoBuffer
    BY <2>6, ShareNoBufferKeeps
  <2>7. ASSUME NEW by_engine \in BOOLEAN, ShareRefused(by_engine) PROVE StorageInv'
    BY <2>7, ShareRefusedKeeps
  <2>8. ASSUME NEW t \in Tokens, SharePublish(t) PROVE StorageInv'
    BY <2>8, SharePublishKeeps
  <2>9. CASE Adopt
    BY <2>9, AdoptKeeps
  <2>10. CASE AdoptFails
    BY <2>10, AdoptFailsKeeps
  <2>11. ASSUME NEW bytes \in SharedBytes, ShareDone(bytes) PROVE StorageInv'
    BY <2>11, ShareDoneKeeps
  <2> QED
    BY <1>3, <2>1, <2>2, <2>3, <2>4, <2>5, <2>6, <2>7, <2>8, <2>9, <2>10, <2>11 DEF Thread
<1> QED
  BY <1>1, <1>2, <1>3 DEF Next

-----------------------------------------------------------------------------
(* The theorems.                                                           *)

(* The inductive invariant of jit_storage_wasm.c under its dispatcher.     *)
THEOREM StorageInvariant == Spec => []StorageInv
<1>1. StorageInv /\ [Next]_vars => StorageInv'
  BY StorageStep
<1> QED
  BY <1>1, StorageStart, PTL DEF Spec

(* The accounts of the storage agree after every operation: a module's     *)
(* count of claims is the number of its live blocks, the arena holds the   *)
(* modules with a claim, `used` is the sum of their bytes, the batch names *)
(* live blocks alone in their modules, and no entry has two blocks.        *)
THEOREM StorageAccounts == Spec => []StorageSound
<1>1. StorageInv => StorageSound
  BY DEF StorageInv, StorageSound
<1> QED
  BY <1>1, StorageInvariant, PTL

(* As long as a shared module is held, the entries its bodies call direct- *)
(* ly lead into it, whichever of its blocks have been dropped              *)
(* (jit_wasm_chain.h, sibling calls; host_release).                        *)
THEOREM SiblingsHold == Spec => []SiblingsKeepTheirEntries
<1>1. StorageInv => SiblingsKeepTheirEntries
  BY DEF StorageInv, SiblingsKeepTheirEntries, ModulesKept, TypeOK
<1> QED
  BY <1>1, StorageInvariant, PTL

(* evict_for_room never falls through to a flush on this storage: one      *)
(* x86p_jit_storage_evict empties a module that had bytes.                 *)
THEOREM EvictionHelps == Spec => []EvictionSuffices
  BY EvictionEnough, StorageInvariant, PTL

(* A block's table entry runs the code the block was lowered from, through *)
(* every adoption that fails or is undone; in a shared module it runs that *)
(* code or one lowered_the_same cannot tell from it.  Nothing is assumed   *)
(* of what lowered_the_same compares or of what the guest rewrites.        *)
THEOREM EntriesRunTheirBlocks == Spec => []EntryRunsItsBlock
<1>1. StorageInv => EntryRunsItsBlock
  BY DEF StorageInv, EntryRunsItsBlock, EntriesLead, Runner
<1> QED
  BY <1>1, StorageInvariant, PTL

-----------------------------------------------------------------------------
(* What a step may do to the code an entry runs.                           *)

(* drop_block: a block that stays keeps what its entry runs.               *)
LEMMA DropSpares ==
  ASSUME StorageInv, pc # "adopt", NEW S \in SUBSET LiveSlots, DropBlocks(S),
         NEW s \in LiveSlots, blocks'[s] # None
  PROVE  table'[blocks[s].entry] = table[blocks[s].entry]
<1> USE DEF StorageInv
<1>1. s \in Slots /\ blocks[s].entry \in Entries /\ s \in BlocksOf(blocks[s].token)
  BY BlocksFacts DEF Block, BlocksOf
<1>2. \A e \in Entries : table'[e] = IF table[e].owner \in EmptiedBy(S) THEN Free ELSE table[e]
  BY ReleaseClears DEF DropBlocks
<1>3. s \notin S
  BY <1>1 DEF DropBlocks
<1>4. table[blocks[s].entry].owner = blocks[s].token
  BY DEF EntriesLead, Runner
<1>5. blocks[s].token \notin EmptiedBy(S)
  BY <1>1, <1>3 DEF EmptiedBy
<1> QED
  BY <1>1, <1>2, <1>4, <1>5

(* A module for one block takes an entry no live block has.                *)
LEMMA PublishSpares ==
  ASSUME StorageInv, NEW t \in Tokens, NEW e \in Entries, NEW bytes, Publish(t, e, bytes), NEW s \in LiveSlots
  PROVE  table'[blocks[s].entry] = table[blocks[s].entry]
<1> USE DEF StorageInv
<1>1. pc # "adopt" /\ table[e] = Free /\ table' = [table EXCEPT ![e] = [owner |-> t, code |-> memory[eip]]]
  BY DEF Publish
<1>2. blocks[s].entry \in Entries /\ blocks[s].token \in Tokens
  BY BlocksFacts DEF Block
<1>3. table[blocks[s].entry].owner = blocks[s].token
  BY <1>1 DEF EntriesLead, Runner
<1>4. blocks[s].entry # e
  BY <1>1, <1>2, <1>3, StorageAssumption DEF Free
<1> QED
  BY <1>1, <1>2, <1>4 DEF TypeOK

(* An adoption gives an entry what its block's guest address holds now.    *)
LEMMA AdoptLowersMemory ==
  ASSUME StorageInv, Adopt, NEW s \in LiveSlots
  PROVE  \/ table'[blocks[s].entry].code = table[blocks[s].entry].code
         \/ table'[blocks[s].entry].code = memory[blocks[s].guest]
<1> USE DEF StorageInv
<1> DEFINE r == pending[shared.moved + 1]
<1>1. /\ pc = "adopt" /\ shared.moved < Len(pending)
      /\ table' = [table EXCEPT ![blocks[r].entry] = [owner |-> shared.token, code |-> memory[blocks[r].guest]]]
  BY DEF Adopt, Adopted
<1>2. shared.moved \in Nat /\ pending \in Seq(Slots)
  BY <1>1 DEF Phase, TypeOK
<1>3. r \in LiveSlots
  BY <1>1, <1>2 DEF PendingAlone
<1>4. blocks[s].entry \in Entries /\ blocks[r].entry \in Entries
  BY <1>3, BlocksFacts DEF Block
<1> HIDE DEF r
<1>5. CASE r = s
  BY <1>1, <1>4, <1>5 DEF TypeOK
<1>6. CASE r # s
  BY <1>1, <1>3, <1>4, <1>6 DEF TypeOK, EntriesOwned
<1> QED
  BY <1>5, <1>6

(* An adoption undone gives each entry moved its own code back, and leaves *)
(* the others.                                                             *)
LEMMA AdoptFailsRestores ==
  ASSUME StorageInv, AdoptFails, NEW s \in LiveSlots
  PROVE  \/ table'[blocks[s].entry].code = table[blocks[s].entry].code
         \/ table'[blocks[s].entry].code = blocks[s].code
<1> USE DEF StorageInv
<1> DEFINE back(e) == blocks[CHOOSE r \in MovedSoFar : blocks[r].entry = e]
           e == blocks[s].entry
<1>1. /\ pc = "adopt" /\ shared.moved < Len(pending)
      /\ table' = [d \in Entries |->
           IF \E r \in MovedSoFar : blocks[r].entry = d
           THEN [owner |-> back(d).token, code |-> back(d).code]
           ELSE IF table[d].owner = shared.token THEN Free ELSE table[d]]
  BY DEF AdoptFails
<1>2. shared.moved \in Nat /\ pending \in Seq(Slots)
  BY <1>1 DEF Phase, TypeOK
<1>3. \A r \in MovedSoFar : r \in LiveSlots
  <2>1. \A i \in 1 .. shared.moved : i \in 1 .. Len(pending)
    BY <1>1, <1>2
  <2> QED
    BY <2>1 DEF MovedSoFar, PendingAlone
<1>4. e \in Entries /\ s \in BlocksOf(blocks[s].token)
  BY BlocksFacts DEF Block, BlocksOf
<1>5. CASE s \in MovedSoFar
  <2>1. \A r \in MovedSoFar : blocks[r].entry = e => r = s
    BY <1>3 DEF EntriesOwned
  <2>2. back(e) = blocks[s]
    <3>1. (CHOOSE r \in MovedSoFar : blocks[r].entry = e) = s
      BY <1>5, <2>1
    <3> QED
      BY <3>1
  <2> HIDE DEF back
  <2> QED
    BY <1>1, <1>4, <1>5, <2>2
<1>6. CASE s \notin MovedSoFar
  <2>1. \A r \in MovedSoFar : blocks[r].entry # e
    BY <1>3, <1>6 DEF EntriesOwned
  <2>2. table[e].owner = blocks[s].token
    BY <1>6 DEF EntriesLead, Runner
  <2>3. blocks[s].token # shared.token
    BY <1>1, <1>4 DEF Phase
  <2> HIDE DEF back
  <2> QED
    BY <1>1, <1>4, <2>1, <2>2, <2>3
<1> QED
  BY <1>5, <1>6

(* The old modules of a batch are released when no live entry is in them.  *)
LEMMA ShareDoneSpares ==
  ASSUME StorageInv, NEW bytes, ShareDone(bytes), NEW s \in LiveSlots
  PROVE  table'[blocks[s].entry] = table[blocks[s].entry]
<1> USE DEF StorageInv
<1> DEFINE old == {blocks[r].token : r \in ToSet(pending)}
<1>1. pc = "adopt" /\ shared.moved = Len(pending) /\ HostRelease(old, {})
  BY DEF ShareDone
<1>2. \A e \in Entries : table'[e] = IF table[e].owner \in old THEN Free ELSE table[e]
  BY <1>1, ReleaseClears
<1>3. pending \in Seq(Slots)
  BY DEF TypeOK
<1>4. MovedSoFar = ToSet(pending)
  BY <1>1, <1>3 DEF MovedSoFar, ToSet
<1>5. /\ \A r \in ToSet(pending) : r \in LiveSlots /\ BlocksOf(blocks[r].token) = {r}
      /\ table[blocks[s].entry].owner = IF s \in ToSet(pending) THEN shared.token ELSE blocks[s].token
  <2>1. \A r \in ToSet(pending) : \E i \in 1 .. Len(pending) : r = pending[i]
    BY <1>3 DEF ToSet
  <2> QED
    BY <1>1, <1>4, <2>1 DEF EntriesLead, Runner, PendingAlone
<1>6. blocks[s].entry \in Entries /\ s \in BlocksOf(blocks[s].token)
  BY BlocksFacts DEF Block, BlocksOf
<1>7. shared.token \notin old
  BY <1>1, <1>5 DEF Phase
<1>8. s \notin ToSet(pending) => blocks[s].token \notin old
  BY <1>5, <1>6
<1> HIDE DEF old
<1> QED
  BY <1>2, <1>5, <1>6, <1>7, <1>8

(* Every step keeps an entry on its block's code while memory holds it.    *)
LEMMA OwnCodeStep ==
  ASSUME StorageInv, Next
  PROVE  OwnCodeKept
<1> SUFFICES ASSUME NEW s \in LiveSlots, blocks'[s] # None,
                    table[blocks[s].entry].code = blocks[s].code, memory[blocks[s].guest] = blocks[s].code
             PROVE  table'[blocks[s].entry].code = blocks[s].code
  BY DEF OwnCodeKept
<1>1. ~Reset
  BY BlocksFacts DEF StorageInv, Reset
<1>2. CASE UNCHANGED table
  BY <1>2
<1>3. CASE Embedder
  <2>1. ASSUME NEW g \in Guests, NEW slots_gone \in BOOLEAN, TranslateAt(g, slots_gone) PROVE UNCHANGED table
    BY <1>1, <2>1 DEF TranslateAt
  <2>2. ASSUME NEW g, NEW c, GuestWrites(g, c) PROVE UNCHANGED table
    BY <2>2 DEF GuestWrites
  <2>3. ASSUME NEW lo, NEW hi, Invalidate(lo, hi) PROVE table'[blocks[s].entry] = table[blocks[s].entry]
    <3> DEFINE hit == {r \in LiveSlots : Overlaps(blocks[r].guest, lo, hi)}
    <3>1. DropBlocks(hit) /\ pc # "adopt" /\ hit \in SUBSET LiveSlots
      BY <2>3 DEF Invalidate
    <3> HIDE DEF hit
    <3> QED
      BY <3>1, DropSpares
  <2>4. ~InvalidateAll
    BY <1>1 DEF InvalidateAll
  <2> QED
    BY <1>2, <1>3, <2>1, <2>2, <2>3, <2>4 DEF Embedder
<1>4. CASE Thread
  <2>1. ASSUME EvictForRoom PROVE table'[blocks[s].entry] = table[blocks[s].entry]
    <3>1. DropBlocks(VictimBlocks(Victim)) /\ pc # "adopt"
      BY <1>1, <2>1 DEF EvictForRoom
    <3>2. VictimBlocks(Victim) \in SUBSET LiveSlots
      BY DEF VictimBlocks, BlocksOf
    <3> QED
      BY <3>1, <3>2, DropSpares
  <2>2. TranslateFails \/ PublishRefused \/ Insert \/ ShareNoBuffer => UNCHANGED table
    BY DEF TranslateFails, PublishRefused, Insert, ShareNoBuffer
  <2>3. ASSUME NEW t \in Tokens, NEW e \in Entries, NEW bytes \in BlockBytes, Publish(t, e, bytes)
        PROVE  table'[blocks[s].entry] = table[blocks[s].entry]
    BY <2>3, PublishSpares
  <2>4. ASSUME NEW by_engine, ShareRefused(by_engine) PROVE UNCHANGED table
    BY <2>4 DEF ShareRefused
  <2>5. ASSUME NEW t, SharePublish(t) PROVE UNCHANGED table
    BY <2>5 DEF SharePublish
  <2>6. ASSUME Adopt PROVE table'[blocks[s].entry].code = blocks[s].code
    BY <2>6, AdoptLowersMemory
  <2>7. ASSUME AdoptFails PROVE table'[blocks[s].entry].code = blocks[s].code
    BY <2>7, AdoptFailsRestores
  <2>8. ASSUME NEW bytes, ShareDone(bytes) PROVE table'[blocks[s].entry] = table[blocks[s].entry]
    BY <2>8, ShareDoneSpares
  <2> QED
    BY <1>2, <1>4, <2>1, <2>2, <2>3, <2>4, <2>5, <2>6, <2>7, <2>8 DEF Thread
<1> QED
  BY <1>3, <1>4 DEF Next

(* An entry is taken off its block's code only while guest memory holds    *)
(* other code than the block was lowered from: the one window in which     *)
(* lowered_the_same can be passed by instructions that are not the block's.*)
THEOREM RewritesAloneReplace == Spec => OnlyRewritesReplace
<1>1. StorageInv /\ [Next]_vars => [OwnCodeKept]_vars
  BY OwnCodeStep
<1> QED
  BY <1>1, StorageInvariant, PTL DEF Spec, OnlyRewritesReplace

(* Every address in the dispatcher's cache is the entry of a live block at *)
(* that guest address, whatever was evicted, dropped, shared or flushed,   *)
(* when no block ends at the top of the guest's address space: there       *)
(* x86p_jit_storage_evict tells the dispatcher nothing.                    *)
THEOREM CacheEntersLiveBlocks ==
  ASSUME \A g \in Guests : g + GuestLen[g] < TopAddress
  PROVE  Spec => []CacheEntersItsBlock
<1>1. StorageInv => CacheEntersItsBlock
  BY DEF StorageInv, CacheBelowTop, CacheEntersItsBlock, End
<1> QED
  BY <1>1, StorageInvariant, PTL
=============================================================================
