---------------------------- MODULE NativeStorage ----------------------------
(***************************************************************************)
(* Where translated code lives on a machine-code host:                     *)
(* jit_storage_native.c, under the part of the dispatcher that makes room, *)
(* translates and retries (jit_engine.c: evict_for_room, translate_at and  *)
(* the retry in x86p_jit_engine_run).                                      *)
(*                                                                         *)
(* Code is written at a bump pointer into chunks made as they are needed;  *)
(* only a flush takes bytes back.  A chunk is as large as it was asked to  *)
(* be (code memory may round it up to pages).  Left out: the code itself.  *)
(***************************************************************************)
EXTENDS Integers

CONSTANTS
  Guests,          \* guest addresses blocks start at
  CodeCapacity,    \* capacity
  MinBlock,        \* X86P_JIT_MIN_BLOCK_BYTES
  ChunkMax,        \* kChunkMaxBytes
  ChunksPerCapacity,
  SlackMax,        \* kChunkMaxSlack
  SlackDivisor,    \* the eighth a chunk is retired at
  Sizes,           \* host bytes a block may take
  None

ASSUME NativeAssumption ==
  /\ CodeCapacity \in Nat /\ MinBlock \in Nat \ {0} /\ CodeCapacity >= MinBlock
  /\ ChunkMax \in Nat /\ ChunkMax >= MinBlock
  /\ ChunksPerCapacity \in Nat \ {0}
  /\ SlackMax \in Nat /\ SlackDivisor \in Nat \ {0}
  /\ Sizes \subseteq Nat \ {0}
  /\ None \notin Guests

VARIABLES
  chunk_count,     \* chunks made so far
  current,         \* the chunk being written, from 0
  used,            \* bytes written into it
  retired_bytes,   \* bytes written into chunks before it
  cache,           \* [Guests -> [chunk, at, size] or None]: the block cache
  pc,              \* where the dispatcher is with `eip`
  eip,
  retries,         \* consecutive_translate_retries
  flushed,         \* whether this request has flushed
  outcome          \* how the last request ended

place == <<current, used, retired_bytes>>
nativeVars == <<chunk_count, place, cache, pc, eip, retries, flushed, outcome>>

-----------------------------------------------------------------------------
(* x86p_jit_storage_create.                                                *)

SmallerOf(a, b) == IF a < b THEN a ELSE b
LargerOf(a, b) == IF a > b THEN a ELSE b

ChunkBytes == SmallerOf(LargerOf(CodeCapacity \div ChunksPerCapacity, MinBlock), ChunkMax)

\* Mutant: a small chunk retires at its eighth, however little that is.
ChunkSlackUnclamped == SmallerOf(ChunkBytes \div SlackDivisor, SlackMax)

ChunkSlack == LargerOf(SmallerOf(ChunkBytes \div SlackDivisor, SlackMax), MinBlock)

ChunkLimit == (CodeCapacity + ChunkBytes - 1) \div ChunkBytes

NativeInit ==
  /\ chunk_count = 1 /\ current = 0 /\ used = 0 /\ retired_bytes = 0
  /\ cache = [g \in Guests |-> None]
  /\ pc = "idle" /\ eip = None /\ retries = 0 /\ flushed = FALSE /\ outcome = "none"

ChunkLeft == ChunkBytes - used

Room == ChunkLeft >= MinBlock \/ current + 1 < ChunkLimit

\* Mutant: a reset keeps the place it was writing at.
ResetKeepsPlace == current' = current /\ used' = used /\ retired_bytes' = 0

\* x86p_jit_storage_reset: chunks stay, to be written again from the first.
Reset == current' = 0 /\ used' = 0 /\ retired_bytes' = 0

\* Mutant: the region is rewound under blocks that stay cached.
FlushKeepsBlocks == UNCHANGED cache /\ Reset

\* x86p_jit_engine_invalidate_all: both halves, together.
Flush == cache' = [g \in Guests |-> None] /\ Reset

-----------------------------------------------------------------------------
(* The embedder drops a translation; its bytes stay written.               *)
Invalidate(g) ==
  /\ pc = "idle" /\ cache[g] # None
  /\ cache' = [cache EXCEPT ![g] = None]
  /\ UNCHANGED <<chunk_count, place, pc, eip, retries, flushed, outcome>>

InvalidateAll ==
  /\ pc = "idle" /\ retired_bytes + used > 0
  /\ Flush
  /\ UNCHANGED <<chunk_count, pc, eip, retries, flushed, outcome>>

\* The dispatcher misses `g`.
Miss(g) ==
  /\ pc = "idle" /\ cache[g] = None
  /\ pc' = "room" /\ eip' = g /\ retries' = 0 /\ flushed' = FALSE
  /\ outcome' = "none"
  /\ UNCHANGED <<chunk_count, place, cache>>

\* evict_for_room: nothing can be evicted here, so everything is.
FlushForRoom ==
  /\ pc = "room" /\ ~Room
  /\ Flush
  /\ flushed' = TRUE
  /\ UNCHANGED <<chunk_count, pc, eip, retries, outcome>>

\* Chain slots come back only with a flush; after one there are enough.
FlushForSlots ==
  /\ pc = "room" /\ ~flushed
  /\ Flush
  /\ flushed' = TRUE
  /\ UNCHANGED <<chunk_count, pc, eip, retries, outcome>>

RoomFound ==
  /\ pc = "room" /\ Room
  /\ pc' = "chunk"
  /\ UNCHANGED <<chunk_count, place, cache, eip, retries, flushed, outcome>>

Answer(what) == pc' = "idle" /\ eip' = None /\ outcome' = what


MayRetry == retries < 1

\* kX86pJitOutOfSpace: once round again, then kX86pRunOutOfCode.
RetryOrGiveUp ==
  IF MayRetry
  THEN retries' = retries + 1 /\ pc' = "room" /\ UNCHANGED <<eip, outcome>>
  ELSE retries' = retries /\ Answer("out_of_code")

-----------------------------------------------------------------------------
(* ensure_chunk.                                                           *)
StaysInChunk == ChunkLeft >= ChunkSlack \/ current + 1 >= ChunkLimit

KeepChunk ==
  /\ pc = "chunk" /\ StaysInChunk
  /\ pc' = "write"
  /\ UNCHANGED <<chunk_count, place, cache, eip, retries, flushed, outcome>>

Retire == retired_bytes' = retired_bytes + used


\* The next chunk exists, or is made.
Made == IF current + 1 = chunk_count THEN chunk_count + 1 ELSE chunk_count

NextChunk ==
  /\ pc = "chunk" /\ ~StaysInChunk
  /\ chunk_count' = Made
  /\ Retire
  /\ current' = current + 1 /\ used' = 0
  /\ pc' = "write"
  /\ UNCHANGED <<cache, eip, retries, flushed, outcome>>

\* Code memory refuses to make it.
ChunkRefused ==
  /\ pc = "chunk" /\ ~StaysInChunk /\ current + 1 = chunk_count
  /\ RetryOrGiveUp
  /\ UNCHANGED <<chunk_count, place, cache, flushed>>

-----------------------------------------------------------------------------
(* x86p_jit_storage_translate in the chunk that is current now.            *)

\* The write window or the publication is refused, or the block does not fit.
WriteRefused ==
  /\ pc = "write"
  /\ RetryOrGiveUp
  /\ UNCHANGED <<chunk_count, place, cache, flushed>>

\* The translator refuses the guest's code.
TranslateRefused ==
  /\ pc = "write"
  /\ Answer("refused")
  /\ UNCHANGED <<chunk_count, place, cache, retries, flushed>>

\* Mutant: the pointer stops one byte short of the block's end.
BumpedShort(size) == used + size - 1

Bumped(size) == used + size

PublishCode(size) ==
  /\ pc = "write" /\ size <= ChunkLeft
  /\ cache' = [cache EXCEPT ![eip] = [chunk |-> current, at |-> used, size |-> size]]
  /\ used' = Bumped(size)
  /\ Answer("entered")
  /\ UNCHANGED <<chunk_count, current, retired_bytes, retries, flushed>>

\* The block cache is full: what was just written goes with the flush.
CacheFull(size) ==
  /\ pc = "write" /\ size <= ChunkLeft
  /\ Flush
  /\ flushed' = TRUE
  /\ RetryOrGiveUp
  /\ UNCHANGED chunk_count

-----------------------------------------------------------------------------
Embedder == (\E g \in Guests : Invalidate(g) \/ Miss(g)) \/ InvalidateAll

Dispatcher ==
  \/ FlushForRoom \/ FlushForSlots \/ RoomFound
  \/ KeepChunk \/ NextChunk \/ ChunkRefused
  \/ WriteRefused \/ TranslateRefused 
  \/ \E size \in Sizes : PublishCode(size) \/ CacheFull(size)

NativeNext == Embedder \/ Dispatcher

NativeSpec == NativeInit /\ [][NativeNext]_nativeVars
NativeFairSpec == NativeSpec /\ WF_nativeVars(Dispatcher)

-----------------------------------------------------------------------------
Placed == [chunk : Nat, at : Nat, size : Nat \ {0}]
Cached == {g \in Guests : cache[g] # None}

(* Types.                                                                  *)
NativeTypeOK ==
  /\ chunk_count \in Nat /\ current \in Nat /\ used \in Nat /\ retired_bytes \in Nat
  /\ cache \in [Guests -> Placed \cup {None}]
  /\ pc \in {"idle", "room", "chunk", "write"} /\ eip \in Guests \cup {None}
  /\ retries \in 0 .. 1 /\ flushed \in BOOLEAN
  /\ outcome \in {"none", "entered", "refused", "out_of_code"}

(* The bump pointer stays inside the chunk it writes, which exists, and no *)
(* more chunks are made than the capacity allows.                          *)
InChunk == used <= ChunkBytes /\ current < chunk_count /\ chunk_count <= ChunkLimit

(* A cached block lies below the bump pointer, in the current chunk or one *)
(* before it, so the next translation cannot overwrite it.                 *)
BlocksBehind ==
  \A g \in Cached :
    \/ cache[g].chunk < current /\ cache[g].at + cache[g].size <= ChunkBytes
    \/ cache[g].chunk = current /\ cache[g].at + cache[g].size <= used

(* No two cached blocks share a byte, across chunks, flushes and retries.  *)
BlocksDisjoint ==
  \A g, h \in Cached : g # h /\ cache[g].chunk = cache[h].chunk =>
    \/ cache[g].at + cache[g].size <= cache[h].at
    \/ cache[h].at + cache[h].size <= cache[g].at

(* Room means room: when x86p_jit_storage_room said yes, the translator is *)
(* handed at least X86P_JIT_MIN_BLOCK_BYTES, whichever chunk that takes.   *)
RoomIsReal == pc = "write" => ChunkLeft >= MinBlock

(* A miss is answered: a refusal is retried once, not for ever.            *)
MissAnswered == pc # "idle" ~> pc = "idle"

=============================================================================
