------------------------------ MODULE HostProofs ------------------------------
(***************************************************************************)
(* Proofs about the memory each host keeps translated code in.             *)
(*                                                                         *)
(* NativeStorage, for every capacity, chunk size, slack and block size:    *)
(* translations never overlap, stay where the bump pointer cannot reach    *)
(* them, and a promise of room is kept.                                    *)
(*                                                                         *)
(* WasmArena, for every capacity and every headroom divisor above one:     *)
(* ArenaInv is inductive, and the properties of WasmArena follow from it.  *)
(***************************************************************************)
EXTENDS NativeStorage, WasmArena, FiniteSetTheorems, TLAPS

-----------------------------------------------------------------------------
(* NativeStorage.                                                          *)

(* A request that has been told there is room still has it, and a request  *)
(* under way names the guest address it is for.                            *)
RoomPromised == pc = "chunk" => Room
RequestNamed == pc # "idle" => eip \in Guests

NativeInv ==
  /\ NativeTypeOK /\ InChunk /\ BlocksBehind /\ BlocksDisjoint
  /\ RoomIsReal /\ RoomPromised /\ RequestNamed

-----------------------------------------------------------------------------
(* Quotients.                                                              *)

(* A quotient of naturals is a natural, and is not zero when the divisor   *)
(* fits in what is divided.                                                *)
LEMMA QuotientFact ==
  ASSUME NEW a \in Nat, NEW b \in Nat \ {0}
  PROVE  a \div b \in Nat /\ (a >= b => a \div b >= 1)
  OBVIOUS

(* The sizes x86p_jit_storage_create settles on: a chunk holds a smallest  *)
(* block, a chunk is left before it cannot, and there is at least one.     *)
LEMMA SizesFact ==
  /\ ChunkBytes \in Nat /\ ChunkBytes >= MinBlock
  /\ ChunkSlack \in Nat /\ ChunkSlack >= MinBlock
  /\ ChunkLimit \in Nat /\ ChunkLimit >= 1
  /\ MinBlock \in Nat \ {0}
<1>1. MinBlock \in Nat \ {0} /\ CodeCapacity \in Nat /\ CodeCapacity >= MinBlock
      /\ ChunkMax \in Nat /\ ChunkMax >= MinBlock
      /\ ChunksPerCapacity \in Nat \ {0} /\ SlackMax \in Nat /\ SlackDivisor \in Nat \ {0}
  BY NativeAssumption
<1>2. CodeCapacity \div ChunksPerCapacity \in Nat
  BY <1>1, QuotientFact
<1>3. ChunkBytes \in Nat /\ ChunkBytes >= MinBlock
  BY <1>1, <1>2 DEF ChunkBytes, SmallerOf, LargerOf
<1>4. ChunkBytes \div SlackDivisor \in Nat
  BY <1>1, <1>3, QuotientFact
<1>5. ChunkSlack \in Nat /\ ChunkSlack >= MinBlock
  BY <1>1, <1>4 DEF ChunkSlack, SmallerOf, LargerOf
<1>6. CodeCapacity + ChunkBytes - 1 \in Nat /\ ChunkBytes \in Nat \ {0}
      /\ CodeCapacity + ChunkBytes - 1 >= ChunkBytes
  BY <1>1, <1>3
<1>7. ChunkLimit \in Nat /\ ChunkLimit >= 1
  BY <1>6, QuotientFact DEF ChunkLimit
<1> QED
  BY <1>1, <1>3, <1>5, <1>7

-----------------------------------------------------------------------------
(* The parts of the invariant that say where code lies.                    *)
Layout ==
  /\ chunk_count \in Nat /\ current \in Nat /\ used \in Nat /\ retired_bytes \in Nat
  /\ cache \in [Guests -> Placed \cup {None}]
  /\ InChunk /\ BlocksBehind /\ BlocksDisjoint

(* A flush leaves no block and rewinds to the first chunk: nothing can be  *)
(* overwritten, and the first chunk has room.                              *)
LEMMA FlushLayout ==
  ASSUME Layout, Flush, UNCHANGED chunk_count
  PROVE  Layout' /\ Room'
<1>1. cache' = [g \in Guests |-> None] /\ current' = 0 /\ used' = 0 /\ retired_bytes' = 0
  BY DEF Flush, Reset
<1>2. Cached' = {}
  BY <1>1 DEF Cached
<1>3. BlocksBehind' /\ BlocksDisjoint'
  BY <1>2 DEF BlocksBehind, BlocksDisjoint
<1>4. InChunk' /\ Room'
  BY <1>1, SizesFact DEF Layout, InChunk, Room, ChunkLeft
<1>5. cache' \in [Guests -> Placed \cup {None}]
  BY <1>1
<1> QED
  BY <1>1, <1>3, <1>4, <1>5 DEF Layout

(* A step that writes nothing and drops nothing keeps the layout.          *)
LEMMA StillLayout ==
  ASSUME Layout, UNCHANGED <<chunk_count, place, cache>>
  PROVE  Layout' /\ (Room => Room') /\ ChunkLeft' = ChunkLeft
  BY DEF Layout, place, InChunk, BlocksBehind, BlocksDisjoint, Cached, Room, ChunkLeft

(* A retry or an answer keeps the dispatcher's types.                      *)
LEMMA RetryControl ==
  ASSUME RetryOrGiveUp, retries \in 0 .. 1, eip \in Guests, pc \in {"chunk", "write"},
         outcome \in {"none", "entered", "refused", "out_of_code"}
  PROVE  /\ pc' \in {"idle", "room"} /\ eip' \in Guests \cup {None} /\ retries' \in 0 .. 1
         /\ outcome' \in {"none", "entered", "refused", "out_of_code"}
         /\ pc' # "idle" => eip' \in Guests
  BY DEF RetryOrGiveUp, MayRetry, Answer

(* Every step of the embedder and of the dispatcher preserves the          *)
(* invariant.                                                              *)
LEMMA NativeStep ==
  ASSUME NativeInv, [NativeNext]_nativeVars
  PROVE  NativeInv'
<1> DEFINE Outcomes == {"none", "entered", "refused", "out_of_code"}
<1> DEFINE Control ==
      /\ pc \in {"idle", "room", "chunk", "write"} /\ eip \in Guests \cup {None}
      /\ retries \in 0 .. 1 /\ flushed \in BOOLEAN /\ outcome \in Outcomes
      /\ RequestNamed
<1>a. Layout /\ Control /\ RoomIsReal /\ RoomPromised
  BY DEF NativeInv, NativeTypeOK, Layout
<1>b. Layout' /\ Control' /\ RoomIsReal' /\ RoomPromised' => NativeInv'
  BY DEF NativeInv, NativeTypeOK, Layout
<1>1. CASE UNCHANGED nativeVars
  <2>1. Layout' /\ (Room => Room') /\ ChunkLeft' = ChunkLeft
    BY <1>1, <1>a, StillLayout DEF nativeVars
  <2>2. Control' /\ RoomIsReal' /\ RoomPromised'
    BY <1>1, <1>a, <2>1 DEF nativeVars, RequestNamed, RoomIsReal, RoomPromised
  <2> QED
    BY <2>1, <2>2, <1>b
<1>2. ASSUME NEW g \in Guests, Invalidate(g) PROVE NativeInv'
  <2>1. pc = "idle" /\ cache' = [cache EXCEPT ![g] = None]
        /\ UNCHANGED <<chunk_count, current, used, retired_bytes, pc, eip, retries, flushed, outcome>>
    BY <1>2 DEF Invalidate, place
  <2>2. cache' \in [Guests -> Placed \cup {None}]
    BY <2>1, <1>a DEF Layout
  <2>3. \A h \in Cached' : h \in Cached /\ cache'[h] = cache[h]
    BY <2>1, <1>a DEF Layout, Cached
  <2>4. InChunk' /\ BlocksBehind'
    BY <2>1, <2>3, <1>a DEF Layout, InChunk, BlocksBehind
  <2>5. BlocksDisjoint'
    BY <2>3, <1>a DEF Layout, BlocksDisjoint
  <2>6. Layout'
    BY <2>1, <2>2, <2>4, <2>5, <1>a DEF Layout
  <2>7. Control' /\ RoomIsReal' /\ RoomPromised'
    BY <2>1, <1>a DEF RequestNamed, RoomIsReal, RoomPromised
  <2> QED
    BY <2>6, <2>7, <1>b
<1>3. CASE InvalidateAll
  <2>1. Layout'
    BY <1>3, <1>a, FlushLayout DEF InvalidateAll
  <2>2. Control' /\ RoomIsReal' /\ RoomPromised'
    BY <1>3, <1>a DEF InvalidateAll, RequestNamed, RoomIsReal, RoomPromised
  <2> QED
    BY <2>1, <2>2, <1>b
<1>4. ASSUME NEW g \in Guests, Miss(g) PROVE NativeInv'
  <2>1. Layout'
    BY <1>4, <1>a, StillLayout DEF Miss
  <2>2. flushed' \in BOOLEAN
    BY <1>4, Zenon DEF Miss
  <2>3. pc' = "room" /\ eip' = g /\ retries' = 0 /\ outcome' = "none"
    BY <1>4 DEF Miss
  <2>4. Control' /\ RoomIsReal' /\ RoomPromised'
    BY <2>2, <2>3, <1>a DEF RequestNamed, RoomIsReal, RoomPromised
  <2> QED
    BY <2>1, <2>4, <1>b
<1>5. CASE FlushForRoom \/ FlushForSlots
  <2>1. Layout'
    BY <1>5, <1>a, FlushLayout DEF FlushForRoom, FlushForSlots
  <2>2. Control' /\ RoomIsReal' /\ RoomPromised'
    BY <1>5, <1>a DEF FlushForRoom, FlushForSlots, RequestNamed, RoomIsReal, RoomPromised
  <2> QED
    BY <2>1, <2>2, <1>b
<1>6. CASE RoomFound
  <2>1. Layout' /\ Room'
    BY <1>6, <1>a, StillLayout DEF RoomFound
  <2>2. Control' /\ RoomIsReal' /\ RoomPromised'
    BY <1>6, <1>a, <2>1 DEF RoomFound, RequestNamed, RoomIsReal, RoomPromised
  <2> QED
    BY <2>1, <2>2, <1>b
<1>7. CASE KeepChunk
  <2>1. Layout' /\ ChunkLeft' = ChunkLeft
    BY <1>7, <1>a, StillLayout DEF KeepChunk
  <2>2. ChunkLeft >= MinBlock
    BY <1>7, <1>a, SizesFact
    DEF KeepChunk, StaysInChunk, RoomPromised, Room, Layout, InChunk, ChunkLeft
  <2>3. Control' /\ RoomIsReal' /\ RoomPromised'
    BY <1>7, <1>a, <2>1, <2>2 DEF KeepChunk, RequestNamed, RoomIsReal, RoomPromised
  <2> QED
    BY <2>1, <2>3, <1>b
<1>8. CASE NextChunk
  <2>1. /\ pc = "chunk" /\ pc' = "write" /\ ~(current + 1 >= ChunkLimit)
        /\ chunk_count' = IF current + 1 = chunk_count THEN chunk_count + 1 ELSE chunk_count
        /\ retired_bytes' = retired_bytes + used /\ current' = current + 1 /\ used' = 0
        /\ UNCHANGED <<cache, eip, retries, flushed, outcome>>
    BY <1>8 DEF NextChunk, StaysInChunk, Made, Retire
  <2>2. InChunk' /\ chunk_count' \in Nat /\ retired_bytes' \in Nat
    BY <2>1, <1>a, SizesFact DEF Layout, InChunk
  <2>3. ASSUME NEW g \in Cached
        PROVE  cache[g].chunk < current + 1 /\ cache[g].at + cache[g].size <= ChunkBytes
    <3>1. cache[g] \in Placed
      BY <1>a DEF Layout, Cached
    <3> QED
      BY <3>1, <1>a, SizesFact DEF Layout, BlocksBehind, InChunk, Placed
  <2>4. BlocksBehind' /\ BlocksDisjoint'
    BY <2>1, <2>3, <1>a DEF Layout, BlocksBehind, BlocksDisjoint, Cached
  <2>5. Layout'
    BY <2>1, <2>2, <2>4, <1>a DEF Layout
  <2>6. RoomIsReal' /\ RoomPromised'
    BY <2>1, SizesFact DEF RoomIsReal, RoomPromised, ChunkLeft
  <2>7. Control'
    BY <2>1, <1>a DEF RequestNamed
  <2> QED
    BY <2>5, <2>6, <2>7, <1>b
<1>9. CASE ChunkRefused \/ WriteRefused
  <2>1. Layout'
    BY <1>9, <1>a, StillLayout DEF ChunkRefused, WriteRefused
  <2>2. RetryOrGiveUp /\ pc \in {"chunk", "write"} /\ UNCHANGED flushed
    BY <1>9 DEF ChunkRefused, WriteRefused
  <2>3. Control' /\ RoomIsReal' /\ RoomPromised'
    BY <2>2, <1>a, RetryControl DEF RequestNamed, RoomIsReal, RoomPromised
  <2> QED
    BY <2>1, <2>3, <1>b
<1>10. CASE TranslateRefused
  <2>1. Layout'
    BY <1>10, <1>a, StillLayout DEF TranslateRefused
  <2>2. Control' /\ RoomIsReal' /\ RoomPromised'
    BY <1>10, <1>a DEF TranslateRefused, Answer, RequestNamed, RoomIsReal, RoomPromised
  <2> QED
    BY <2>1, <2>2, <1>b
<1>11. ASSUME NEW size \in Sizes, PublishCode(size) PROVE NativeInv'
  <2> DEFINE new == [chunk |-> current, at |-> used, size |-> size]
  <2>0. size \in Nat \ {0}
    BY NativeAssumption
  <2>1. /\ pc = "write" /\ size <= ChunkLeft /\ eip \in Guests
        /\ cache' = [cache EXCEPT ![eip] = new] /\ used' = used + size
        /\ pc' = "idle" /\ eip' = None /\ outcome' = "entered"
        /\ UNCHANGED <<chunk_count, current, retired_bytes, retries, flushed>>
    BY <1>11, <1>a DEF PublishCode, Bumped, Answer, RequestNamed
  <2>2. new \in Placed /\ new.chunk = current /\ new.at = used /\ new.size = size
    BY <2>0, <1>a DEF Layout, Placed
  <2> HIDE DEF new
  <2>3. /\ cache' \in [Guests -> Placed \cup {None}] /\ cache'[eip] = new
        /\ \A h \in Guests \ {eip} : cache'[h] = cache[h]
    BY <2>1, <2>2, <1>a DEF Layout
  <2>4. ASSUME NEW h \in Cached', h # eip
        PROVE  h \in Cached /\ cache'[h] = cache[h] /\ cache[h] \in Placed
    BY <2>3, <2>4, <1>a DEF Cached, Layout
  <2>5. InChunk' /\ used' \in Nat
    BY <2>0, <2>1, <1>a, SizesFact DEF Layout, InChunk, ChunkLeft
  <2>6. BlocksBehind'
    <3> SUFFICES ASSUME NEW h \in Cached'
                 PROVE  \/ cache'[h].chunk < current' /\ cache'[h].at + cache'[h].size <= ChunkBytes
                        \/ cache'[h].chunk = current' /\ cache'[h].at + cache'[h].size <= used'
      BY DEF BlocksBehind
    <3>1. CASE h = eip
      BY <3>1, <2>1, <2>2, <2>3
    <3>2. CASE h # eip
      <4>1. h \in Cached /\ cache'[h] = cache[h] /\ cache[h] \in Placed
        BY <2>4, <3>2
      <4>2. \/ cache[h].chunk < current /\ cache[h].at + cache[h].size <= ChunkBytes
            \/ cache[h].chunk = current /\ cache[h].at + cache[h].size <= used
        BY <4>1, <1>a DEF Layout, BlocksBehind
      <4> QED
        BY <4>1, <4>2, <2>0, <2>1, <1>a DEF Layout, Placed
    <3> QED
      BY <3>1, <3>2
  <2>7. ASSUME NEW h \in Cached', h # eip, cache'[h].chunk = current
        PROVE  cache'[h].at + cache'[h].size <= used
    <3>1. h \in Cached /\ cache'[h] = cache[h] /\ cache[h] \in Placed
      BY <2>4, <2>7
    <3> QED
      BY <3>1, <2>7, <1>a DEF Layout, BlocksBehind, Placed
  <2>8. BlocksDisjoint'
    <3> SUFFICES ASSUME NEW g \in Cached', NEW h \in Cached', g # h,
                        cache'[g].chunk = cache'[h].chunk
                 PROVE  \/ cache'[g].at + cache'[g].size <= cache'[h].at
                        \/ cache'[h].at + cache'[h].size <= cache'[g].at
      BY DEF BlocksDisjoint
    <3>1. CASE g = eip
      BY <3>1, <2>2, <2>3, <2>7
    <3>2. CASE h = eip
      BY <3>2, <2>2, <2>3, <2>7
    <3>3. CASE g # eip /\ h # eip
      BY <3>3, <2>4, <1>a DEF Layout, BlocksDisjoint
    <3> QED
      BY <3>1, <3>2, <3>3
  <2>9. Layout'
    BY <2>1, <2>3, <2>5, <2>6, <2>8, <1>a DEF Layout
  <2>10. Control' /\ RoomIsReal' /\ RoomPromised'
    BY <2>1, <1>a DEF RequestNamed, RoomIsReal, RoomPromised
  <2> QED
    BY <2>9, <2>10, <1>b
<1>12. ASSUME NEW size \in Sizes, CacheFull(size) PROVE NativeInv'
  <2>1. Layout'
    BY <1>12, <1>a, FlushLayout DEF CacheFull
  <2>2. RetryOrGiveUp /\ pc \in {"chunk", "write"} /\ flushed' = TRUE
    BY <1>12 DEF CacheFull
  <2>3. Control' /\ RoomIsReal' /\ RoomPromised'
    BY <2>2, <1>a, RetryControl DEF RequestNamed, RoomIsReal, RoomPromised
  <2> QED
    BY <2>1, <2>3, <1>b
<1> QED
  BY <1>1, <1>2, <1>3, <1>4, <1>5, <1>6, <1>7, <1>8, <1>9, <1>10, <1>11, <1>12
  DEF NativeNext, Embedder, Dispatcher

(* A storage just created satisfies the invariant.                         *)
LEMMA NativeStart == NativeInit => NativeInv
<1> SUFFICES ASSUME NativeInit PROVE NativeInv
  OBVIOUS
<1>1. Cached = {}
  BY DEF NativeInit, Cached
<1>2. BlocksBehind /\ BlocksDisjoint
  BY <1>1 DEF BlocksBehind, BlocksDisjoint
<1>3. InChunk
  BY SizesFact DEF NativeInit, InChunk
<1>4. flushed \in BOOLEAN /\ eip \in Guests \cup {None}
  BY Zenon DEF NativeInit
<1>5. cache \in [Guests -> Placed \cup {None}]
  BY DEF NativeInit
<1>6. NativeTypeOK
  BY <1>4, <1>5 DEF NativeInit, NativeTypeOK
<1>7. RoomIsReal /\ RoomPromised /\ RequestNamed
  BY DEF NativeInit, RoomIsReal, RoomPromised, RequestNamed
<1> QED
  BY <1>2, <1>3, <1>6, <1>7 DEF NativeInv

(* The inductive invariant holds of every run of the storage.              *)
THEOREM NativeInvariant == NativeSpec => []NativeInv
<1>1. NativeInv /\ [NativeNext]_nativeVars => NativeInv'
  BY NativeStep
<1> QED
  BY <1>1, NativeStart, PTL DEF NativeSpec

(* Types.                                                                  *)
THEOREM NativeTypes == NativeSpec => []NativeTypeOK
<1>1. NativeInv => NativeTypeOK
  BY DEF NativeInv
<1> QED
  BY <1>1, NativeInvariant, PTL

(* The bump pointer stays inside a chunk that exists, and no more chunks   *)
(* are made than x86p_jit_storage_create allowed.                          *)
THEOREM NativeInChunk == NativeSpec => []InChunk
<1>1. NativeInv => InChunk
  BY DEF NativeInv
<1> QED
  BY <1>1, NativeInvariant, PTL

(* Every cached translation lies behind the bump pointer.                  *)
THEOREM NativeBlocksBehind == NativeSpec => []BlocksBehind
<1>1. NativeInv => BlocksBehind
  BY DEF NativeInv
<1> QED
  BY <1>1, NativeInvariant, PTL

(* No two cached translations share a byte, whatever is flushed, retried   *)
(* or refused between them.                                                *)
THEOREM NativeBlocksDisjoint == NativeSpec => []BlocksDisjoint
<1>1. NativeInv => BlocksDisjoint
  BY DEF NativeInv
<1> QED
  BY <1>1, NativeInvariant, PTL

(* When x86p_jit_storage_room promised room, the chunk the translator is   *)
(* handed holds a smallest block.                                          *)
THEOREM NativeRoomIsReal == NativeSpec => []RoomIsReal
<1>1. NativeInv => RoomIsReal
  BY DEF NativeInv
<1> QED
  BY <1>1, NativeInvariant, PTL

-----------------------------------------------------------------------------
(* WasmArena.                                                              *)

USE CapacityAssumption, DivisorAssumption, BoundAssumption

(* Integer division by at least two stays in the naturals and below its    *)
(* dividend: the headroom never swallows the ceiling it belongs to.        *)
LEMMA DivBelow ==
  ASSUME NEW c \in Nat, NEW d \in Nat, d > 1
  PROVE  /\ c \div d \in Nat
         /\ c # 0 => c \div d < c
  <1> DEFINE q == c \div d
  <1>1. q \in Int /\ q * d <= c /\ c < (q + 1) * d
    OBVIOUS
  <1>2. q >= 0
    <2>1. SUFFICES ASSUME q + 1 <= 0 PROVE FALSE
      BY <1>1
    <2>2. (q + 1) * d <= 0
      BY <1>1, <2>1
    <2> QED
      BY <1>1, <2>2
  <1>3. q * d >= 2 * q
    BY <1>1, <1>2
  <1> HIDE DEF q
  <1>4. c # 0 => q < c
    BY <1>1, <1>2, <1>3
  <1> QED
    BY <1>2, <1>4 DEF q

(* The slots are finitely many, and so are the live ones among them.       *)
LEMMA TokensFinite ==
  /\ IsFiniteSet(Tokens)
  /\ Cardinality(Tokens) = Capacity
  /\ \A S \in SUBSET Tokens : IsFiniteSet(S) /\ Cardinality(S) \in Nat
  <1>1. IsFiniteSet(Tokens) /\ Cardinality(Tokens) = Capacity
    BY FS_Interval DEF Tokens
  <1>2. \A S \in SUBSET Tokens : IsFiniteSet(S) /\ Cardinality(S) \in Nat
    BY <1>1, FS_Subset, FS_CardinalityType
  <1> QED
    BY <1>1, <1>2

(* A head that ends the list means that every slot is live, and a head     *)
(* that does not names a slot that is free: x86p_wasm_arena_publish never  *)
(* meets its "internal" refusal.                                           *)
LEMMA HeadIsFree ==
  ASSUME TypeOK, FreeListExact
  PROVE  /\ free_head = 0 => \A t \in Tokens : slot[t].live
         /\ free_head # 0 => FreeHeadIsUsable /\ free_head - 1 \in Tokens
  <1>1. PICK n \in 0 .. Capacity : \E f \in [1 .. n -> Tokens] : IsFreeList(n, f)
    BY DEF FreeListExact
  <1>2. PICK f \in [1 .. n -> Tokens] : IsFreeList(n, f)
    BY <1>1
  <1>3. CASE n = 0
    BY <1>2, <1>3 DEF IsFreeList, Tokens
  <1>4. CASE n # 0
    <2>1. 1 \in 1 .. n /\ f[1] \in Tokens
      BY <1>4
    <2>2. free_head = f[1] + 1 /\ ~slot[f[1]].live
      BY <1>2, <1>4, <2>1 DEF IsFreeList
    <2> QED
      BY <2>1, <2>2 DEF FreeHeadIsUsable, Tokens
  <1> QED
    BY <1>3, <1>4

(* Popping the head leaves a list of the slots still free.                 *)
LEMMA PopKeepsList ==
  ASSUME TypeOK, FreeListExact, FreeHeadIsUsable,
         NEW h, slot' = [slot EXCEPT ![free_head - 1] =
                           [live |-> TRUE, module |-> h, next_free |-> 0]],
         free_head' = slot[free_head - 1].next_free
  PROVE  FreeListExact'
  <1>1. PICK n \in 0 .. Capacity : \E f \in [1 .. n -> Tokens] : IsFreeList(n, f)
    BY DEF FreeListExact
  <1>2. PICK f \in [1 .. n -> Tokens] : IsFreeList(n, f)
    BY <1>1
  <1>3. n # 0
    BY <1>2 DEF IsFreeList, FreeHeadIsUsable
  <1> DEFINE m == n - 1
             g == [k \in 1 .. m |-> f[k + 1]]
  <1>4. m \in 0 .. Capacity /\ g \in [1 .. m -> Tokens]
    BY <1>3
  <1>5. free_head = f[1] + 1 /\ free_head - 1 = f[1] /\ f[1] \in Tokens
    BY <1>2, <1>3 DEF IsFreeList, Tokens
  <1>6. \A t \in Tokens : t # f[1] => slot'[t] = slot[t]
    BY <1>5 DEF TypeOK
  <1>7. slot'[f[1]].live
    BY <1>5 DEF TypeOK
  <1>8. \A k \in 1 .. m : k + 1 \in 1 .. n /\ g[k] = f[k + 1] /\ f[k + 1] # f[1]
                          /\ f[k + 1] \in Tokens
    BY <1>2, <1>3 DEF IsFreeList
  <1>9. free_head' = IF m = 0 THEN 0 ELSE g[1] + 1
    <2>1. 1 \in 1 .. n
      BY <1>3
    <2>2. slot[f[1]].next_free = IF 1 < n THEN f[2] + 1 ELSE 0
      BY <1>2, <2>1 DEF IsFreeList
    <2> QED
      BY <1>5, <2>2, <1>8, <1>3
  <1>10. \A k \in 1 .. m :
           /\ ~slot'[g[k]].live
           /\ slot'[g[k]].next_free = IF k < m THEN g[k + 1] + 1 ELSE 0
    BY <1>2, <1>6, <1>8 DEF IsFreeList
  <1>11. \A j, k \in 1 .. m : g[j] = g[k] => j = k
    BY <1>2, <1>8 DEF IsFreeList
  <1>12. \A t \in Tokens : ~slot'[t].live => \E k \in 1 .. m : g[k] = t
    <2>1. SUFFICES ASSUME NEW t \in Tokens, ~slot'[t].live
                   PROVE  \E k \in 1 .. m : g[k] = t
      OBVIOUS
    <2>2. t # f[1] /\ ~slot[t].live
      BY <1>6, <1>7, <2>1
    <2>3. PICK k \in 1 .. n : f[k] = t
      BY <1>2, <2>2 DEF IsFreeList
    <2>4. k - 1 \in 1 .. m /\ g[k - 1] = t
      BY <2>2, <2>3
    <2> QED
      BY <2>4
  <1> HIDE DEF g, m
  <1>13. IsFreeList(m, g)'
    BY <1>9, <1>10, <1>11, <1>12 DEF IsFreeList
  <1> QED
    BY <1>4, <1>13 DEF FreeListExact

(* Pushing a released slot in front leaves a list of the slots now free.   *)
LEMMA PushKeepsList ==
  ASSUME TypeOK, FreeListExact, NEW t \in Tokens, slot[t].live,
         slot' = [slot EXCEPT ![t] = FreedSlot(free_head)],
         free_head' = t + 1
  PROVE  FreeListExact'
  <1>1. PICK n \in 0 .. Capacity : \E f \in [1 .. n -> Tokens] : IsFreeList(n, f)
    BY DEF FreeListExact
  <1>2. PICK f \in [1 .. n -> Tokens] : IsFreeList(n, f)
    BY <1>1
  <1> DEFINE m == n + 1
             g == [k \in 1 .. m |-> IF k = 1 THEN t ELSE f[k - 1]]
  <1>3. g \in [1 .. m -> Tokens]
    OBVIOUS
  <1>4. \A u \in Tokens : u # t => slot'[u] = slot[u]
    BY DEF TypeOK
  <1>5. ~slot'[t].live /\ slot'[t].next_free = free_head
    BY DEF TypeOK, FreedSlot
  <1>6. \A k \in 1 .. n : f[k] # t /\ f[k] \in Tokens
    BY <1>2 DEF IsFreeList
  <1>7. \A k \in 1 .. m : k # 1 => k - 1 \in 1 .. n /\ g[k] = f[k - 1]
    OBVIOUS
  <1>8. g[1] = t /\ free_head' = g[1] + 1
    OBVIOUS
  <1>9. \A k \in 1 .. m :
           /\ ~slot'[g[k]].live
           /\ slot'[g[k]].next_free = IF k < m THEN g[k + 1] + 1 ELSE 0
    <2>1. SUFFICES ASSUME NEW k \in 1 .. m
                   PROVE  /\ ~slot'[g[k]].live
                          /\ slot'[g[k]].next_free = IF k < m THEN g[k + 1] + 1 ELSE 0
      OBVIOUS
    <2>2. CASE k = 1
      <3>1. free_head = IF 1 < m THEN g[2] + 1 ELSE 0
        BY <1>2 DEF IsFreeList
      <3> QED
        BY <2>2, <3>1, <1>5, <1>8
    <2>3. CASE k # 1
      <3>1. k - 1 \in 1 .. n /\ g[k] = f[k - 1] /\ g[k] # t /\ g[k] \in Tokens
        BY <2>3, <1>6, <1>7
      <3>2. slot'[g[k]] = slot[f[k - 1]]
        BY <3>1, <1>4
      <3>3. ~slot[f[k - 1]].live
            /\ slot[f[k - 1]].next_free = IF k - 1 < n THEN f[(k - 1) + 1] + 1 ELSE 0
        BY <1>2, <3>1 DEF IsFreeList
      <3>4. k < m => g[k + 1] = f[k]
        BY <2>3
      <3> QED
        BY <3>2, <3>3, <3>4
    <2> QED
      BY <2>2, <2>3
  <1>10. \A j, k \in 1 .. m : g[j] = g[k] => j = k
    BY <1>2, <1>6, <1>7, <1>8 DEF IsFreeList
  <1>11. \A u \in Tokens : ~slot'[u].live => \E k \in 1 .. m : g[k] = u
    <2>1. SUFFICES ASSUME NEW u \in Tokens, ~slot'[u].live
                   PROVE  \E k \in 1 .. m : g[k] = u
      OBVIOUS
    <2>2. CASE u = t
      BY <2>2, <1>8
    <2>3. CASE u # t
      <3>1. PICK k \in 1 .. n : f[k] = u
        BY <1>2, <1>4, <2>1, <2>3 DEF IsFreeList
      <3>2. k + 1 \in 1 .. m /\ g[k + 1] = u
        BY <3>1
      <3> QED
        BY <3>2
    <2> QED
      BY <2>2, <2>3
  <1>12. m \in 0 .. Capacity
    \* n distinct slots are free and t is not among them.
    <2> DEFINE S == 1 .. m
    <2>1. IsFiniteSet(S) /\ Cardinality(S) = m /\ g \in [S -> Tokens]
      BY <1>3, FS_Interval
    <2> HIDE DEF S, g
    <2>2. Capacity < m => \E j, k \in S : j # k /\ g[j] = g[k]
      BY <2>1, TokensFinite, FS_PigeonHole
    <2> USE DEF S
    <2> QED
      BY <2>2, <1>10
  <1> HIDE DEF g, m
  <1>13. IsFreeList(m, g)'
    <2>1. m # 0
      BY DEF m
    <2> QED
      BY <2>1, <1>8, <1>9, <1>10, <1>11 DEF IsFreeList
  <1> QED
    BY <1>3, <1>12, <1>13 DEF FreeListExact

-----------------------------------------------------------------------------
(* ArenaInv holds initially: the list is 0, 1, ..., Capacity - 1.          *)
LEMMA InitInv == Init => ArenaInv
  <1> SUFFICES ASSUME Init PROVE ArenaInv
    OBVIOUS
  <1>1. TypeOK
    BY DEF Init, TypeOK, Tokens, Links
  <1>2. LiveTokens = {}
    BY DEF Init, LiveTokens
  <1>3. FreeListExact
    <2> DEFINE f == [k \in 1 .. Capacity |-> k - 1]
    <2>1. f \in [1 .. Capacity -> Tokens]
      BY DEF Tokens
    <2>2. \A k \in 1 .. Capacity :
            /\ ~slot[f[k]].live
            /\ slot[f[k]].next_free = IF k < Capacity THEN f[k + 1] + 1 ELSE 0
      BY <2>1 DEF Init, Tokens
    <2>3. \A t \in Tokens : t + 1 \in 1 .. Capacity /\ f[t + 1] = t
      BY DEF Tokens
    <2>4. free_head = f[1] + 1 /\ \A j, k \in 1 .. Capacity : f[j] = f[k] => j = k
      BY DEF Init
    <2> HIDE DEF f
    <2>5. IsFreeList(Capacity, f)
      BY <2>2, <2>3, <2>4 DEF IsFreeList
    <2> QED
      BY <2>1, <2>5 DEF FreeListExact
  <1>4. CountsAgree
    BY <1>2, FS_EmptySet DEF CountsAgree, Init
  <1>5. EngineAgrees /\ HandlesFresh
    BY <1>2 DEF EngineAgrees, HandlesFresh, Init
  <1>6. CeilingNotBackedOff
    BY DEF CeilingNotBackedOff, Init
  <1> QED
    BY <1>1, <1>3, <1>4, <1>5, <1>6 DEF ArenaInv

(* A step that leaves the slots alone leaves the list as it was.           *)
LEMMA SameList ==
  ASSUME FreeListExact, slot' = slot, free_head' = free_head
  PROVE  FreeListExact'
  <1>1. PICK n \in 0 .. Capacity : \E f \in [1 .. n -> Tokens] : IsFreeList(n, f)
    BY DEF FreeListExact
  <1>2. PICK f \in [1 .. n -> Tokens] : IsFreeList(n, f)
    BY <1>1
  <1>3. IsFreeList(n, f)'
    BY <1>2 DEF IsFreeList
  <1> QED
    BY <1>3 DEF FreeListExact

(* Every step preserves ArenaInv.                                          *)
LEMMA NextInv == ArenaInv /\ [Next]_vars => ArenaInv'
  <1> SUFFICES ASSUME ArenaInv, [Next]_vars PROVE ArenaInv'
    OBVIOUS
  <1> USE DEF ArenaInv
  <1>1. ASSUME UNCHANGED <<slots, limits, host, published, released>>,
               sweep' \in 0 .. Capacity,
               refusals' \in Nat, failures' \in Nat
        PROVE  ArenaInv'
    <2>1. TypeOK'
      BY <1>1 DEF slots, limits, host, TypeOK
    <2>2. FreeListExact'
      <3>1. slot' = slot /\ free_head' = free_head
        BY <1>1 DEF slots
      <3> QED
        BY <3>1, SameList
    <2>3. LiveTokens' = LiveTokens
      BY <1>1 DEF slots, LiveTokens
    <2>4. CountsAgree' /\ EngineAgrees'
      BY <1>1, <2>3 DEF slots, host, CountsAgree, EngineAgrees
    <2>5. HandlesFresh' /\ CeilingNotBackedOff'
      BY <1>1 DEF slots, limits, host, HandlesFresh, CeilingNotBackedOff
    <2> QED
      BY <2>1, <2>2, <2>4, <2>5
  <1>2. CASE PublishRefused
    BY <1>1, <1>2 DEF PublishRefused, TypeOK
  <1>3. ASSUME NEW by_engine \in BOOLEAN, PublishFailed(by_engine)
        PROVE  ArenaInv'
    <2>1. CASE by_engine /\ RefusalTeaches
      <3>1. UNCHANGED <<slots, host, sweep, published, released, refusals>>
            /\ failures' = failures + 1 /\ LearnCeiling
        BY <1>3, <2>1 DEF PublishFailed
      <3>2. ceiling' = live /\ headroom' = live \div HeadroomDivisor
            /\ headroom' \in Nat
        BY <3>1, DivBelow DEF LearnCeiling, HeadroomFor, TypeOK
      <3>3. TypeOK' /\ CeilingNotBackedOff'
        BY <3>1, <3>2 DEF TypeOK, CeilingNotBackedOff, LearnCeiling, slots, host
      <3>4. FreeListExact'
        BY <3>1, SameList DEF slots
      <3>5. CountsAgree' /\ EngineAgrees' /\ HandlesFresh'
        BY <3>1 DEF CountsAgree, EngineAgrees, HandlesFresh, LiveTokens, slots, host
      <3> QED
        BY <3>3, <3>4, <3>5
    <2>2. CASE ~(by_engine /\ RefusalTeaches)
      BY <1>1, <1>3, <2>2 DEF PublishFailed, TypeOK
    <2> QED
      BY <2>1, <2>2
  <1>4. CASE Publish
    <2> DEFINE t == free_head - 1
    <2>1. /\ t \in Tokens /\ ~slot[t].live
          /\ slot' = [slot EXCEPT ![t] =
                [live |-> TRUE, module |-> next_handle, next_free |-> 0]]
      BY <1>4, HeadIsFree DEF Publish, FreeHeadIsUsable
    <2>2. TypeOK'
      BY <1>4, <2>1 DEF Publish, TypeOK, Links, limits
    <2>3. FreeListExact'
      BY <1>4, PopKeepsList DEF Publish
    <2>4. LiveTokens' = LiveTokens \cup {t} /\ t \notin LiveTokens
          /\ LiveTokens \in SUBSET Tokens
      BY <2>1 DEF LiveTokens, TypeOK
    <2>5. CountsAgree'
      <3>1. Cardinality(LiveTokens') = Cardinality(LiveTokens) + 1
        BY <2>4, TokensFinite, FS_AddElement
      <3> QED
        BY <1>4, <3>1 DEF CountsAgree, Publish, TypeOK
    <2>6. EngineAgrees'
      <3>1. \A u \in LiveTokens : slot'[u] = slot[u] /\ slot[u].module \in engine
        BY <2>1, <2>4 DEF EngineAgrees, TypeOK
      <3>2. slot'[t].module = next_handle /\ next_handle \notin engine
        BY <2>1 DEF TypeOK, HandlesFresh
      <3>3. engine' = engine \cup {next_handle}
        BY <1>4 DEF Publish
      <3> HIDE DEF t
      <3> QED
        BY <2>4, <3>1, <3>2, <3>3 DEF EngineAgrees
    <2>7. HandlesFresh' /\ CeilingNotBackedOff'
      BY <1>4 DEF Publish, HandlesFresh, CeilingNotBackedOff, TypeOK, limits
    <2> QED
      BY <2>2, <2>3, <2>5, <2>6, <2>7
  <1>5. ASSUME NEW t \in Tokens, ReleaseLive(t), sweep' \in 0 .. Capacity
        PROVE  ArenaInv'
    <2>1. slot[t].live /\ t \in LiveTokens /\ LiveTokens \in SUBSET Tokens
      BY <1>5 DEF ReleaseLive, LiveTokens
    <2>2. LiveTokens' = LiveTokens \ {t}
      BY <1>5 DEF ReleaseLive, LiveTokens, FreedSlot, TypeOK
    <2>3. Cardinality(LiveTokens') = Cardinality(LiveTokens) - 1
          /\ Cardinality(LiveTokens') \in Nat
      BY <2>1, <2>2, TokensFinite, FS_RemoveElement
    <2>4. live' = live - 1 /\ live' \in Nat /\ released' = released + 1
      BY <1>5, <2>3 DEF ReleaseLive, CountReleased, CountsAgree, TypeOK
    <2>5. /\ ceiling' \in Nat /\ headroom' \in Nat
          /\ ceilings_learned' \in Nat /\ ceilings_retired' \in Nat
          /\ CeilingNotBackedOff'
      <3>1. RetireCeilingIfBackedOff(live - 1)
        BY <1>5 DEF ReleaseLive
      <3>2. CASE BackedOff(live - 1)
        <4>1. 0 \div HeadroomDivisor = 0
          OBVIOUS
        <4> QED
          BY <3>1, <3>2, <4>1 DEF RetireCeilingIfBackedOff, CeilingNotBackedOff, TypeOK
      <3>3. CASE ~BackedOff(live - 1)
        BY <2>4, <3>1, <3>3 DEF RetireCeilingIfBackedOff, BackedOff, limits,
             CeilingNotBackedOff, TypeOK
      <3> QED
        BY <3>2, <3>3
    <2>6. TypeOK'
      <3>1. FreedSlot(free_head) \in [live : BOOLEAN, module : Nat, next_free : Links]
        BY DEF FreedSlot, TypeOK
      <3>2. slot' \in [Tokens -> [live : BOOLEAN, module : Nat, next_free : Links]]
        BY <1>5, <3>1 DEF ReleaseLive, TypeOK
      <3>3. free_head' \in Links
        BY <1>5 DEF ReleaseLive, Tokens, Links
      <3>4. engine' \in SUBSET Nat /\ next_handle' \in Nat \ {0}
        BY <1>5 DEF ReleaseLive, HostRelease, TypeOK
      <3>5. published' \in Nat /\ refusals' \in Nat /\ failures' \in Nat /\ released' \in Nat
        BY <1>5, <2>4 DEF ReleaseLive, TypeOK
      <3> QED
        BY <1>5, <2>4, <2>5, <3>2, <3>3, <3>4, <3>5 DEF TypeOK
    <2>7. FreeListExact'
      BY <1>5, <2>1, PushKeepsList DEF ReleaseLive
    <2>8. CountsAgree'
      BY <1>5, <2>3, <2>4 DEF CountsAgree, ReleaseLive, TypeOK
    <2>9. EngineAgrees'
      <3>1. \A u \in LiveTokens' : slot'[u] = slot[u] /\ u # t /\ u \in LiveTokens
        BY <1>5, <2>2 DEF ReleaseLive, TypeOK, LiveTokens
      <3>2. engine' = engine \ {slot[t].module}
        BY <1>5 DEF ReleaseLive, HostRelease
      <3> QED
        BY <2>1, <2>2, <3>1, <3>2 DEF EngineAgrees
    <2>10. HandlesFresh'
      BY <1>5 DEF ReleaseLive, HostRelease, HandlesFresh
    <2> QED
      BY <2>5, <2>6, <2>7, <2>8, <2>9, <2>10
  <1>6. ASSUME NEW t \in Tokens, Release(t)
        PROVE  ArenaInv'
    BY <1>5, <1>6 DEF Release, TypeOK
  <1>7. CASE BeginReleaseAll
    BY <1>1, <1>7 DEF BeginReleaseAll, TypeOK
  <1>8. CASE Sweep
    <2>1. sweep \in Tokens /\ sweep' \in 0 .. Capacity
      BY <1>8 DEF Sweep, SweepNext, Idle, TypeOK, Tokens
    <2> QED
      BY <1>1, <1>5, <1>8, <2>1 DEF Sweep, TypeOK
  <1>9. CASE UNCHANGED vars
    BY <1>1, <1>9 DEF vars, slots, limits, host, TypeOK
  <1> QED
    BY <1>2, <1>3, <1>4, <1>6, <1>7, <1>8, <1>9 DEF Next

(* The invariant holds throughout.                                         *)
THEOREM ArenaInvariant == Spec => []ArenaInv
  BY InitInv, NextInv, PTL DEF Spec

(* Type correctness.                                                       *)
THEOREM ArenaTypes == Spec => []TypeOK
  <1>1. ArenaInv => TypeOK
    BY DEF ArenaInv
  <1> QED
    BY ArenaInvariant, <1>1, PTL

(* The free list is always exactly the slots that are not live.            *)
THEOREM FreeListTheorem == Spec => []FreeListExact
  <1>1. ArenaInv => FreeListExact
    BY DEF ArenaInv
  <1> QED
    BY ArenaInvariant, <1>1, PTL

(* The engine always holds exactly the modules of the live slots.          *)
THEOREM EngineTheorem == Spec => []EngineAgrees
  <1>1. ArenaInv => EngineAgrees
    BY DEF ArenaInv
  <1> QED
    BY ArenaInvariant, <1>1, PTL

(* The three counts always agree with the slots.                           *)
THEOREM CountsTheorem == Spec => []CountsAgree
  <1>1. ArenaInv => CountsAgree
    BY DEF ArenaInv
  <1> QED
    BY ArenaInvariant, <1>1, PTL

(* A ceiling in force always blocks, and an empty arena is always open.    *)
THEOREM CeilingTheorem == Spec => [](CeilingBlocks /\ EmptyIsOpen)
  <1>1. ArenaInv => CeilingBlocks
    BY DEF ArenaInv, CeilingNotBackedOff, CeilingBlocks, HasRoom, TypeOK
  <1>2. ArenaInv => EmptyIsOpen
    <2> SUFFICES ASSUME ArenaInv, live = 0 PROVE HasRoom
      BY DEF EmptyIsOpen
    <2>1. ceiling = 0 \/ headroom < ceiling
      BY DivBelow DEF ArenaInv, CeilingNotBackedOff, TypeOK
    <2> QED
      BY <2>1 DEF ArenaInv, CeilingNotBackedOff, HasRoom, TypeOK
  <1> QED
    BY ArenaInvariant, <1>1, <1>2, PTL

(* A publication is refused without asking the engine only when every slot *)
(* is live.                                                                *)
THEOREM RefusalTheorem == Spec => RefusedOnlyWhenFull
  <1>1. ArenaInv /\ [Next]_vars => [refusals' > refusals => live = Capacity]_vars
    <2> SUFFICES ASSUME ArenaInv, Next, refusals' > refusals
                 PROVE  live = Capacity
      OBVIOUS
    <2>1. PublishRefused
      <3>1. refusals \in Nat /\ refusals' # refusals
        BY DEF ArenaInv, TypeOK
      <3>2. \A by_engine \in BOOLEAN : ~PublishFailed(by_engine)
        BY <3>1 DEF PublishFailed
      <3>3. ~Publish /\ ~BeginReleaseAll
        BY <3>1 DEF Publish, BeginReleaseAll
      <3>4. \A t : ~ReleaseLive(t)
        BY <3>1 DEF ReleaseLive
      <3> QED
        BY <3>1, <3>2, <3>3, <3>4 DEF Next, Release, Sweep
    <2>2. free_head = 0
      BY <2>1, HeadIsFree DEF PublishRefused, ArenaInv
    <2>3. LiveTokens = Tokens
      BY <2>2, HeadIsFree DEF ArenaInv, LiveTokens
    <2> QED
      BY <2>3, TokensFinite DEF ArenaInv, CountsAgree
  <1> QED
    BY ArenaInvariant, <1>1, PTL DEF Spec, RefusedOnlyWhenFull

(* A ceiling in force is never replaced by a higher one.                   *)
THEOREM RatchetTheorem == Spec => CeilingRatchets
  <1>1. ArenaInv /\ [Next]_vars => [ceiling # 0 => ceiling' <= ceiling]_vars
    <2> SUFFICES ASSUME ArenaInv, Next, ceiling # 0
                 PROVE  ceiling' <= ceiling
      OBVIOUS
    <2>1. ceiling \in Nat /\ live \in Nat
      BY DEF ArenaInv, TypeOK
    <2>2. CASE PublishRefused \/ Publish \/ BeginReleaseAll
      BY <2>1, <2>2 DEF PublishRefused, Publish, BeginReleaseAll, limits
    <2>3. ASSUME NEW by_engine \in BOOLEAN, PublishFailed(by_engine)
          PROVE  ceiling' <= ceiling
      BY <2>1, <2>3 DEF PublishFailed, RefusalTeaches, LearnCeiling, limits
    <2>4. ASSUME NEW t, ReleaseLive(t)
          PROVE  ceiling' <= ceiling
      BY <2>1, <2>4 DEF ReleaseLive, RetireCeilingIfBackedOff, limits
    <2>5. CASE Sweep
      BY <2>1, <2>4, <2>5 DEF Sweep, limits
    <2> QED
      BY <2>2, <2>3, <2>4, <2>5 DEF Next, Release
  <1> QED
    BY ArenaInvariant, <1>1, PTL DEF Spec, CeilingRatchets

(* The pool counts its tokens as the arena's module does.                  *)
LEMMA PoolCardinality == \A S : Pool!Cardinality(S) = Cardinality(S)
  BY DEF Pool!Cardinality, Cardinality, Pool!IsFiniteSet, IsFiniteSet

(* The arena implements the pool of tokens: the steps of the free list,    *)
(* the engine and the counters are the pool's own steps or invisible to    *)
(* it.                                                                     *)
THEOREM PoolRefinement == Spec => ImplementsPool
  <1>1. Init => Pool!PoolInit
    BY DEF Init, Pool!PoolInit, LiveTokens
  <1>2. ArenaInv /\ [Next]_vars => [Pool!PoolNext]_(Pool!poolVars)
    <2> SUFFICES ASSUME ArenaInv, [Next]_vars
                 PROVE  [Pool!PoolNext]_(Pool!poolVars)
      OBVIOUS
    <2>1. ASSUME UNCHANGED <<slots, limits>>
          PROVE  UNCHANGED Pool!poolVars
      BY <2>1 DEF slots, limits, LiveTokens, Pool!poolVars
    <2>2. live = Cardinality(LiveTokens) /\ LiveTokens \in SUBSET Tokens
      BY DEF ArenaInv, CountsAgree, LiveTokens
    <2>3. CASE PublishRefused \/ BeginReleaseAll \/ UNCHANGED vars
      BY <2>1, <2>3 DEF PublishRefused, BeginReleaseAll, vars, slots, limits
    <2>4. ASSUME NEW by_engine \in BOOLEAN, PublishFailed(by_engine)
          PROVE  [Pool!PoolNext]_(Pool!poolVars)
      <3>1. CASE by_engine /\ RefusalTeaches
        <4>1. LiveTokens' = LiveTokens /\ LearnCeiling
          BY <2>4, <3>1 DEF PublishFailed, slots, LiveTokens
        <4>2. LiveTokens # Tokens
          BY <2>4, HeadIsFree DEF PublishFailed, FreeHeadIsUsable, ArenaInv, LiveTokens
        <4>3. Pool!Refuse
          <5>1. ceiling' = Cardinality(LiveTokens) /\ headroom' = ceiling' \div HeadroomDivisor
            BY <2>2, <4>1 DEF LearnCeiling, HeadroomFor
          <5>2. ceiling = 0 \/ Cardinality(LiveTokens) < ceiling
            BY <2>2, <3>1 DEF RefusalTeaches
          <5>3. Tokens = Pool!Tokens
            BY DEF Tokens, Pool!Tokens
          <5> QED
            BY <4>1, <4>2, <5>1, <5>2, <5>3, PoolCardinality DEF Pool!Refuse
        <4> QED
          BY <4>3 DEF Pool!PoolNext
      <3>2. CASE ~(by_engine /\ RefusalTeaches)
        BY <2>1, <2>4, <3>2 DEF PublishFailed
      <3> QED
        BY <3>1, <3>2
    <2>5. CASE Publish
      <3> DEFINE t == free_head - 1
      <3>1. t \in Tokens /\ ~slot[t].live /\ slot \in [Tokens -> [live : BOOLEAN, module : Nat, next_free : Links]]
        BY <2>5, HeadIsFree DEF Publish, FreeHeadIsUsable, ArenaInv, TypeOK
      <3>2. LiveTokens' = LiveTokens \cup {t} /\ t \notin LiveTokens
        BY <2>5, <3>1 DEF Publish, LiveTokens
      <3>3. Pool!Take(t)
        BY <2>5, <3>1, <3>2 DEF Pool!Take, Publish, limits, Tokens, Pool!Tokens
      <3> QED
        BY <3>1, <3>3 DEF Pool!PoolNext, Tokens, Pool!Tokens
    <2>6. ASSUME NEW t \in Tokens, ReleaseLive(t)
          PROVE  [Pool!PoolNext]_(Pool!poolVars)
      <3>1. t \in LiveTokens /\ LiveTokens' = LiveTokens \ {t}
        BY <2>6 DEF ReleaseLive, LiveTokens, FreedSlot, ArenaInv, TypeOK
      <3>2. Cardinality(LiveTokens') = live - 1
        BY <2>2, <3>1, TokensFinite, FS_RemoveElement
      <3>3. Pool!Give({t})
        <4>1. RetireCeilingIfBackedOff(Cardinality(LiveTokens'))
          BY <2>6, <3>2 DEF ReleaseLive
        <4>2. IF ceiling # 0 /\ Cardinality(LiveTokens') + headroom < ceiling
              THEN ceiling' = 0 /\ headroom' = 0
              ELSE UNCHANGED <<ceiling, headroom>>
          BY <4>1 DEF RetireCeilingIfBackedOff, BackedOff, limits
        <4> QED
          BY <3>1, <4>2, PoolCardinality DEF Pool!Give
      <3> QED
        BY <3>1, <3>3 DEF Pool!PoolNext
    <2>7. CASE Sweep
      <3>1. sweep \in Tokens
        BY <2>7 DEF Sweep, Idle, Tokens, ArenaInv, TypeOK
      <3> QED
        BY <2>1, <2>6, <2>7, <3>1 DEF Sweep
    <2> QED
      BY <2>3, <2>4, <2>5, <2>6, <2>7 DEF Next, Release
  <1> QED
    BY ArenaInvariant, <1>1, <1>2, PTL DEF Spec, ImplementsPool, Pool!PoolSpec
=============================================================================
