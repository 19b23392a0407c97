----------------------------- MODULE WasmStorage -----------------------------
(***************************************************************************)
(* Where translated code lives on the WebAssembly host:                    *)
(* jit_storage_wasm.c and jit_wasm_compact.c over the arena (ModulePool)   *)
(* and the host's function table (jit_wasm_host.c), driven by the part of  *)
(* the dispatcher that translates (jit_engine.c: translate_at,             *)
(* evict_for_room, drop_range, invalidate_all).                            *)
(*                                                                         *)
(* A block is published in a module of its own; when a batch of such       *)
(* blocks is full they are lowered again into one shared module and each   *)
(* block's table entry is moved onto it.  The code is one thread, so its   *)
(* control is one program counter; a batch is moved entry by entry.        *)
(*                                                                         *)
(* Guest code is abstract: memory holds one of Codes at each of Guests,    *)
(* and Shape is what a lowering records of a code (its length, chained     *)
(* exits and leaf site).  Left out: what the lowered bytes compute.        *)
(***************************************************************************)
EXTENDS ModulePool, Sequences, FiniteSetsExt, SequencesExt

CONSTANTS
  Guests,        \* guest addresses a block may start at
  GuestLen,      \* guest bytes a block at an address covers
  TopAddress,    \* 2^32: the address one past the last guest byte
  Codes,         \* what guest memory may hold at an address
  Loaded,        \* [Guests -> Codes]: what it holds at first
  Rewritten,     \* addresses where the guest rewrites its code
  Shape(_),      \* what lowered_the_same compares of a code
  Entries,       \* indices of the function table
  Batch,         \* X86P_WASM_COMPACT_BATCH
  ByteBudget,    \* byte_budget
  MinModule,     \* X86P_WASM_MIN_MODULE_BYTES
  BlockBytes,    \* sizes a singly published module may have
  SharedBytes,   \* sizes a shared module may have
  CanAdopt,      \* whether the host can move an entry
  None

ASSUME StorageAssumption ==
  /\ Capacity \in Nat \ {0} /\ HeadroomDivisor \in Nat /\ HeadroomDivisor > 1
  /\ Guests \subseteq Nat /\ GuestLen \in [Guests -> Nat \ {0}]
  /\ \A g \in Guests : g + GuestLen[g] <= TopAddress
  /\ Batch \in Nat \ {0} /\ ByteBudget \in Nat /\ MinModule \in Nat \ {0}
  /\ MinModule <= ByteBudget
  /\ BlockBytes \subseteq Nat \ {0} /\ SharedBytes \subseteq Nat \ {0}
  /\ CanAdopt \in BOOLEAN
  /\ Loaded \in [Guests -> Codes] /\ Rewritten \subseteq Guests
  /\ None \notin Guests \cup Tokens \cup Entries \cup Codes
  /\ None \notin [guest : Guests, token : Tokens, entry : Entries, code : Codes]
  /\ None \notin [token : Tokens, moved : 0 .. Batch]

VARIABLES
  memory,          \* [Guests -> Codes]: guest memory, which the guest may rewrite
  blocks,          \* [Slots -> Block \cup {None}]: the block records, each with
                   \* the code it was lowered from
  modules,         \* [Tokens -> [bytes, blocks, siblings]]: what a module costs,
                   \* its claims, and the entries its bodies call directly
  pending,         \* records published singly since the last batch
  cannot_compact, has_batch, used, next_victim, live_blocks,
  table,           \* [Entries -> [owner, code]]: the function table
  cache,           \* [Guests -> Entries \cup {None}]: the dispatcher's block cache
  pc,              \* where the thread is
  eip,             \* the guest address translate_at was called for
  fresh,           \* the record storage_translate has just filled
  shared           \* the batch's module, and how many entries it has adopted

arena   == <<held, ceiling, headroom>>
records == <<blocks, modules, pending, used, live_blocks>>
vars == <<arena, memory, records, cannot_compact, has_batch, next_victim,
          table, cache, pc, eip, fresh, shared>>

(* The records are as many as the module slots: both are max_blocks.       *)
Slots == Tokens

Free == [owner |-> None, code |-> None]
NoModule == [bytes |-> 0, blocks |-> 0, siblings |-> {}]

LiveSlots == {s \in Slots : blocks[s] # None}
BlocksOf(t) == {s \in LiveSlots : blocks[s].token = t}
End(g) == g + GuestLen[g]
Overlaps(g, lo, hi) == g < hi /\ End(g) > lo

-----------------------------------------------------------------------------
Init ==
  /\ PoolInit
  /\ memory = Loaded
  /\ blocks = [s \in Slots |-> None]
  /\ modules = [t \in Tokens |-> NoModule]
  /\ pending = <<>> /\ cannot_compact = FALSE /\ has_batch = FALSE
  /\ used = 0 /\ next_victim = 0 /\ live_blocks = 0
  /\ table = [e \in Entries |-> Free]
  /\ cache = [g \in Guests |-> None]
  /\ pc = "idle" /\ eip = None /\ fresh = None /\ shared = None

(* x86p_jit_storage_room: bytes, records and the engine's limit.           *)
Room ==
  /\ used <= ByteBudget /\ ByteBudget - used >= MinModule
  /\ live_blocks < Capacity
  /\ PoolHasRoom

-----------------------------------------------------------------------------
(* Dropping blocks.                                                        *)

\* drop_module: the modules whose last claim the blocks in S hold.
EmptiedBy(S) == {t \in held : BlocksOf(t) # {} /\ BlocksOf(t) \subseteq S}

BytesIn(mods, S) == MapThenSumSet(LAMBDA t : mods[t].bytes, S)
UsedWithout(gone) == used - BytesIn(modules, gone)

\* Mutant: a block's entry is handed back with the block, its module or not.
ClearedWithBlock(gone, S) ==
  {e \in Entries : table[e].owner \in gone \/ \E s \in S : blocks[s].entry = e}

\* host_release: the entries a released module owns are cleared, to be
\* handed out again.  A dropped block's entry stays with a module that is
\* still held.
Cleared(gone, S) == {e \in Entries : table[e].owner \in gone}

HostRelease(gone, S) ==
  table' = [e \in Entries |-> IF e \in Cleared(gone, S) THEN Free ELSE table[e]]

\* forget_pending closes the gap with the last of the batch.
ForgetPending(p, s) ==
  IF \E i \in 1 .. Len(p) : p[i] = s
  THEN LET i == CHOOSE i \in 1 .. Len(p) : p[i] = s
           last == Len(p)
       IN  SubSeq([p EXCEPT ![i] = p[last]], 1, last - 1)
  ELSE p

\* The records of S are dropped in the order of their slots.
PendingWithout(S) ==
  LET after[n \in 0 .. Capacity] ==
        IF n = 0 THEN pending
        ELSE IF n - 1 \in S THEN ForgetPending(after[n - 1], n - 1) ELSE after[n - 1]
  IN  after[Capacity]

\* drop_block of each record in S.
DropBlocks(S) ==
  LET gone == EmptiedBy(S)
  IN  /\ Give(gone)
      /\ HostRelease(gone, S)
      /\ blocks' = [s \in Slots |-> IF s \in S THEN None ELSE blocks[s]]
      /\ modules' = [t \in Tokens |->
           IF t \in gone THEN NoModule
           ELSE [modules[t] EXCEPT !.blocks = @ - Cardinality(BlocksOf(t) \cap S)]]
      /\ pending' = PendingWithout(S)
      /\ used' = UsedWithout(gone)
      /\ live_blocks' = live_blocks - Cardinality(S)

\* jc_block_invalidate_range: the cache forgets what overlaps a range.
Forget(ranges) ==
  cache' = [g \in Guests |->
              IF \E r \in ranges : Overlaps(g, r[1], r[2]) THEN None ELSE cache[g]]

\* x86p_jit_storage_reset, with the flush of the cache before it.
Reset ==
  /\ Give(held)
  /\ HostRelease(held, LiveSlots)
  /\ blocks' = [s \in Slots |-> None]
  /\ modules' = [t \in Tokens |-> NoModule]
  /\ pending' = <<>> /\ used' = 0 /\ next_victim' = 0 /\ live_blocks' = 0
  /\ cache' = [g \in Guests |-> None]

-----------------------------------------------------------------------------
(* The embedder's calls, made while no translation is under way.           *)

\* The guest rewrites code.  Reporting it is the embedder's duty.
GuestWrites(g, c) ==
  /\ pc = "idle" /\ memory[g] # c
  /\ memory' = [memory EXCEPT ![g] = c]
  /\ UNCHANGED <<arena, records, cannot_compact, has_batch, next_victim, table,
                 cache, pc, eip, fresh, shared>>

\* x86p_jit_engine_invalidate: drop_range of the cache and of the storage.
Invalidate(lo, hi) ==
  /\ pc = "idle" /\ lo < hi
  /\ LET hit == {s \in LiveSlots : Overlaps(blocks[s].guest, lo, hi)}
     IN  hit # {} /\ DropBlocks(hit)
  /\ Forget({<<lo, hi>>})
  /\ UNCHANGED <<memory, cannot_compact, has_batch, next_victim, pc, eip, fresh, shared>>

\* x86p_jit_engine_invalidate_all.
InvalidateAll ==
  /\ pc = "idle" /\ live_blocks > 0
  /\ Reset
  /\ UNCHANGED <<memory, cannot_compact, has_batch, pc, eip, fresh, shared>>

-----------------------------------------------------------------------------
(* translate_at: make room, translate, publish, perhaps share, insert.     *)

(* `slots_gone`: the chain has too few free slots for a block, which only  *)
(* a flush returns (evict_for_room's first test).                          *)
TranslateAt(g, slots_gone) ==
  /\ pc = "idle" /\ cache[g] = None
  /\ pc' = "room" /\ eip' = g
  /\ slots_gone => live_blocks > 0
  /\ IF slots_gone THEN Reset
     ELSE UNCHANGED <<arena, records, next_victim, table, cache>>
  /\ UNCHANGED <<memory, cannot_compact, has_batch, fresh, shared>>

\* module_to_empty: the first module with a claim at or after the cursor.
Victim ==
  LET at(i) == (next_victim + i) % Capacity
      steps == {i \in 0 .. Capacity - 1 : modules[at(i)].blocks > 0}
  IN  IF steps = {} THEN None ELSE at(Min(steps))

\* Mutant: eviction half-empties the module.
VictimBlocksOne(t) == {CHOOSE s \in BlocksOf(t) : TRUE}

\* Every block of the victim's module goes.
VictimBlocks(t) == BlocksOf(t)

\* Mutant: no block is told.
ToldNone(S) == {}

\* x86p_jit_storage_evict tells the dispatcher of each block it drops, when
\* the block's end fits a 32-bit address.
Told(S) == {<<blocks[s].guest, End(blocks[s].guest)>> :
              s \in {s \in S : End(blocks[s].guest) < TopAddress}}

\* Whether an eviction lowers the bytes in use.
EvictionFrees ==
  /\ Victim # None
  /\ UsedWithout(EmptiedBy(VictimBlocks(Victim))) < used

\* A turn of evict_for_room's loop: evict; flush when that frees nothing.
EvictForRoom ==
  /\ pc = "room" /\ ~Room
  /\ IF EvictionFrees
     THEN /\ next_victim' = (Victim + 1) % Capacity
          /\ DropBlocks(VictimBlocks(Victim))
          /\ Forget(Told(VictimBlocks(Victim)))
     ELSE Reset
  /\ UNCHANGED <<memory, cannot_compact, has_batch, pc, eip, fresh, shared>>

\* The translator refuses, or the block does not fit, or its module could
\* not be entered and was released again.
TranslateFails ==
  /\ pc = "room" /\ Room
  /\ pc' = "idle" /\ eip' = None
  /\ UNCHANGED <<arena, memory, records, cannot_compact, has_batch, next_victim,
                 table, cache, fresh, shared>>

\* The engine will not take another module.
PublishRefused ==
  /\ pc = "room" /\ Room
  /\ Refuse
  /\ pc' = "idle" /\ eip' = None
  /\ UNCHANGED <<memory, records, cannot_compact, has_batch, next_victim, table,
                 cache, fresh, shared>>

\* x86p_jit_storage_translate: the first free record, a module of its own,
\* an entry of the table.  A full batch is shared next.
Publish(t, e, bytes) ==
  /\ pc = "room" /\ Room
  /\ bytes <= ByteBudget - used
  /\ table[e] = Free
  /\ Take(t)
  /\ LET s == Min(Slots \ LiveSlots)
     IN  /\ blocks' = [blocks EXCEPT ![s] =
                         [guest |-> eip, token |-> t, entry |-> e, code |-> memory[eip]]]
         /\ fresh' = s
         /\ pending' = IF Len(pending) < Batch THEN Append(pending, s) ELSE pending
  /\ table' = [table EXCEPT ![e] = [owner |-> t, code |-> memory[eip]]]
  /\ modules' = [modules EXCEPT ![t] = [bytes |-> bytes, blocks |-> 1, siblings |-> {}]]
  /\ used' = used + bytes
  /\ live_blocks' = live_blocks + 1
  /\ pc' = IF Len(pending') = Batch /\ ~cannot_compact THEN "share" ELSE "insert"
  /\ UNCHANGED <<memory, cannot_compact, has_batch, next_victim, cache, eip, shared>>

\* jc_block_insert of the block just published.
Insert ==
  /\ pc = "insert"
  /\ cache' = [cache EXCEPT ![eip] = blocks[fresh].entry]
  /\ pc' = "idle" /\ eip' = None /\ fresh' = None
  /\ UNCHANGED <<arena, memory, records, cannot_compact, has_batch, next_victim,
                 table, shared>>

-----------------------------------------------------------------------------
(* share_a_module and x86p_wasm_compact.                                   *)

\* The batch's buffer cannot be allocated: no batch will ever be shared.
ShareNoBuffer ==
  /\ pc = "share" /\ ~has_batch
  /\ cannot_compact' = TRUE
  /\ pc' = "insert"
  /\ UNCHANGED <<arena, memory, records, has_batch, next_victim, table, cache,
                 eip, fresh, shared>>

\* Mutant: a second lowering is taken as it comes.
LoweredAnyhow == TRUE

\* lowered_the_same, for every block of the batch.
LoweredTheSame ==
  \A i \in 1 .. Len(pending) :
    LET b == blocks[pending[i]] IN Shape(memory[b.guest]) = Shape(b.code)

\* The batch is left as it was: the host cannot adopt, a block lowers
\* differently or not at all, or the shared module is not taken.
ShareRefused(by_engine) ==
  /\ pc = "share"
  /\ has_batch' = TRUE
  /\ cannot_compact' = ~CanAdopt
  /\ IF by_engine THEN CanAdopt /\ LoweredTheSame /\ Refuse ELSE UNCHANGED arena
  /\ pending' = <<>>
  /\ pc' = "insert"
  /\ UNCHANGED <<memory, blocks, modules, used, live_blocks, next_victim, table,
                 cache, eip, fresh, shared>>

\* The shared module is published; its entries are still the old ones.
SharePublish(t) ==
  /\ pc = "share" /\ CanAdopt /\ LoweredTheSame
  /\ has_batch' = TRUE
  /\ Take(t)
  /\ shared' = [token |-> t, moved |-> 0]
  /\ pc' = "adopt"
  /\ UNCHANGED <<memory, records, cannot_compact, next_victim, table, cache, eip, fresh>>

\* Mutant: every entry is moved onto the batch's first body.
AdoptedFirst(s, t, code) ==
  [table EXCEPT ![blocks[s].entry] = [owner |-> t, code |-> memory[blocks[pending[1]].guest]]]

\* host_adopt: the entry runs the destination's code and belongs to it.
Adopted(s, t, code) == [table EXCEPT ![blocks[s].entry] = [owner |-> t, code |-> code]]

Adopt ==
  /\ pc = "adopt" /\ shared.moved < Len(pending)
  /\ LET s == pending[shared.moved + 1]
     IN  table' = Adopted(s, shared.token, memory[blocks[s].guest])
  /\ shared' = [shared EXCEPT !.moved = @ + 1]
  /\ UNCHANGED <<arena, memory, records, cannot_compact, has_batch, next_victim,
                 cache, pc, eip, fresh>>

\* The blocks whose entries have been moved so far.
MovedSoFar == {pending[i] : i \in 1 .. shared.moved}

\* An entry cannot be moved: those already moved are adopted back by their
\* old modules, and the new one is released.
AdoptFails ==
  /\ pc = "adopt" /\ shared.moved < Len(pending)
  /\ Give({shared.token})
  /\ table' = [e \in Entries |->
       IF \E s \in MovedSoFar : blocks[s].entry = e
       THEN LET b == blocks[CHOOSE s \in MovedSoFar : blocks[s].entry = e]
            IN  [owner |-> b.token, code |-> b.code]
       ELSE IF table[e].owner = shared.token THEN Free ELSE table[e]]
  /\ pending' = <<>> /\ shared' = None
  /\ pc' = "insert"
  /\ UNCHANGED <<memory, blocks, modules, used, live_blocks, cannot_compact,
                 has_batch, next_victim, cache, eip, fresh>>

\* Mutant: the old modules' bytes stay counted.
BatchBytesKept == 0

\* The claims share_a_module drops: each old module held one block.
BatchBytes ==
  MapThenSumSet(LAMBDA s : LET was == modules[blocks[s].token]
                           IN  IF was.blocks = 1 THEN was.bytes ELSE 0,
                ToSet(pending))

\* Every entry is on the new module: the old ones are released and the
\* records follow.
ShareDone(bytes) ==
  LET batch == ToSet(pending)
      old   == {blocks[s].token : s \in batch}
  IN  /\ pc = "adopt" /\ shared.moved = Len(pending)
      /\ Give(old)
      /\ HostRelease(old, {})
      /\ blocks' = [s \in Slots |->
           IF s \in batch THEN [blocks[s] EXCEPT !.token = shared.token] ELSE blocks[s]]
      /\ modules' = [t \in Tokens |->
           CASE t = shared.token -> [bytes |-> bytes, blocks |-> shared.moved,
                                 siblings |-> {blocks[s].entry : s \in batch}]
             [] t \in old /\ modules[t].blocks = 1 -> NoModule
             [] OTHER -> modules[t]]
      /\ used' = used - BatchBytes + bytes
      /\ pending' = <<>> /\ shared' = None
      /\ pc' = "insert"
      /\ UNCHANGED <<memory, live_blocks, cannot_compact, has_batch, next_victim,
                     cache, eip, fresh>>

-----------------------------------------------------------------------------
Embedder ==
  \/ \E g \in Guests, slots_gone \in BOOLEAN : TranslateAt(g, slots_gone)
  \/ \E g \in Rewritten, c \in Codes : GuestWrites(g, c)
  \/ \E lo, hi \in 0 .. TopAddress - 1 : Invalidate(lo, hi)
  \/ InvalidateAll

(* One call of translate_at runs on by itself, whatever the engine says.   *)
Thread ==
  \/ EvictForRoom \/ TranslateFails \/ PublishRefused
  \/ \E t \in Tokens, e \in Entries, bytes \in BlockBytes : Publish(t, e, bytes)
  \/ Insert
  \/ ShareNoBuffer
  \/ \E by_engine \in BOOLEAN : ShareRefused(by_engine)
  \/ \E t \in Tokens : SharePublish(t)
  \/ Adopt \/ AdoptFails
  \/ \E bytes \in SharedBytes : ShareDone(bytes)

Next == Embedder \/ Thread

Spec == Init /\ [][Next]_vars
FairSpec == Spec /\ WF_vars(Thread)

-----------------------------------------------------------------------------
Block == [guest : Guests, token : Tokens, entry : Entries, code : Codes]

(* Types.                                                                  *)
TypeOK ==
  /\ held \subseteq Tokens /\ ceiling \in Nat /\ headroom \in Nat
  /\ memory \in [Guests -> Codes]
  /\ blocks \in [Slots -> Block \cup {None}]
  /\ modules \in [Tokens -> [bytes : Nat, blocks : Nat, siblings : SUBSET Entries]]
  /\ pending \in Seq(Slots) /\ Len(pending) <= Batch
  /\ cannot_compact \in BOOLEAN /\ has_batch \in BOOLEAN
  /\ used \in Nat /\ next_victim \in Tokens /\ live_blocks \in Nat
  /\ table \in [Entries -> [owner : Tokens \cup {None}, code : Codes \cup {None}]]
  /\ cache \in [Guests -> Entries \cup {None}]
  /\ pc \in {"idle", "room", "share", "adopt", "insert"}
  /\ eip \in Guests \cup {None} /\ fresh \in Slots \cup {None}
  /\ shared \in [token : Tokens, moved : 0 .. Batch] \cup {None}

(* A module's claims are the live blocks published in it, and the arena    *)
(* holds exactly the modules with a claim (and a shared one being filled). *)
(* drop_module trusts the count to decide when code may be freed.          *)
ClaimsAgree ==
  /\ \A t \in Tokens : modules[t].blocks = Cardinality(BlocksOf(t))
  /\ held = {t \in Tokens : modules[t].blocks > 0}
             \cup (IF shared = None THEN {} ELSE {shared.token})

(* `used` is the bytes of the modules held, and `live_blocks` the records  *)
(* in use: the two figures eviction decides by, maintained by increments   *)
(* in publication, sharing and dropping.                                   *)
UsedAgrees ==
  /\ used = BytesIn(modules, Tokens)
  /\ live_blocks = Cardinality(LiveSlots)

(* The batch names live blocks, none twice, each alone in its module: the  *)
(* premise share_a_module checks rather than assumes, because with two     *)
(* claims it would mis-account silently.                                   *)
PendingAlone ==
  /\ \A i, j \in 1 .. Len(pending) : pending[i] = pending[j] => i = j
  /\ \A i \in 1 .. Len(pending) :
       /\ pending[i] \in LiveSlots
       /\ BlocksOf(blocks[pending[i]].token) = {pending[i]}

\* An entry that a batch has moved, or is moving, into a module it shares.
Shared(e) ==
  \/ e \in modules[table[e].owner].siblings
  \/ shared # None /\ table[e].owner = shared.token

(* A block's entry runs the code the block was lowered from for as long as *)
(* it stays in a module of its own, through sharing that is refused or is  *)
(* taken back halfway; in a shared module it runs what lowered_the_same    *)
(* could not tell from that code, whatever the guest has rewritten.  It    *)
(* belongs to the block's module whenever no sharing is under way.         *)
EntryRunsItsBlock ==
  \A s \in LiveSlots :
    LET b == blocks[s]
        entry == table[b.entry]
    IN  /\ entry.code = b.code \/ (Shared(b.entry) /\ Shape(entry.code) = Shape(b.code))
        /\ pc # "adopt" => entry.owner = b.token

(* An entry stops running its block's code only in a step taken when guest *)
(* memory no longer held that code: a guest that reports what it rewrites  *)
(* before it runs again is never given other instructions by a batch.      *)
OwnCodeKept ==
  \A s \in LiveSlots :
    LET b == blocks[s]
    IN  blocks'[s] # None /\ table[b.entry].code = b.code /\ memory[b.guest] = b.code =>
          table'[b.entry].code = b.code
OnlyRewritesReplace == [][OwnCodeKept]_vars

(* No two blocks share an entry, and an entry in use belongs to a module   *)
(* that is held: nothing is handed out twice and none outlives its module. *)
EntriesOwned ==
  /\ \A s, r \in LiveSlots : blocks[s].entry = blocks[r].entry => s = r
  /\ \A e \in Entries : table[e] # Free => table[e].owner \in held

(* The accounts of the storage agree with one another and with the engine: *)
(* types, claims, bytes, the batch and the table, after every operation.   *)
StorageSound == TypeOK /\ ClaimsAgree /\ UsedAgrees /\ PendingAlone /\ EntriesOwned

(* A body of a shared module calls a sibling directly when the slot names  *)
(* the sibling's entry (jit_wasm_chain.h, SIBLING CALLS), so for as long   *)
(* as the module is held that entry must lead into it: not even after the  *)
(* sibling is dropped may the entry go to another block.                   *)
SiblingsKeepTheirEntries ==
  \A t \in held : \A e \in modules[t].siblings : table[e].owner = t

(* Every address the dispatcher would enter is the entry of a live block   *)
(* at that guest address (jit_storage.h: eviction tells the engine of each *)
(* block before its address can be handed out again).                      *)
CacheEntersItsBlock ==
  \A g \in Guests : cache[g] # None =>
    \E s \in LiveSlots : blocks[s].guest = g /\ blocks[s].entry = cache[g]

(* Making room never costs the whole cache: one eviction empties a module  *)
(* and lowers `used`, so evict_for_room does not fall through to a flush   *)
(* (x86p_jit_storage_evict: half-emptying a module would free nothing).    *)
EvictionSuffices == pc = "room" /\ ~Room => EvictionFrees

(* A call of translate_at ends: evict_for_room's loop of evictions and     *)
(* flushes makes room whatever the engine has refused before.              *)
TranslationEnds == pc # "idle" ~> pc = "idle"
=============================================================================
