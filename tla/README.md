# Verification of x86port

x86port runs 32-bit x86 guest code by translating basic blocks to host code
(x86-64, ARM64 or WebAssembly), caching the translations and chaining them so
that most transfers between blocks never reach the dispatcher.  This directory
holds TLA+ models of the parts of it whose state outlives a call, the TLC runs
that check them on small instances, and TLAPS proofs of the results that hold
for every instance.

Paths below are relative to `src/src/x86port/` unless they say otherwise.

## Inventory

| Component | State it keeps | Operations | Interacts with | What is hard | What makes it correct |
| --- | --- | --- | --- | --- | --- |
| Product JIT dispatcher (`jit_engine.c`) | block cache, settings (run-stop contract, diagnostics, cache off), retry counter, the run header | create, set_*, invalidate, invalidate_all, run | storage, chain, leaf sites, the consumer's intercept, boundary, stop and dispatch callbacks | callbacks change the cache in the middle of a run; links outlive settings; an unsigned budget shared with emitted code | only live, current code runs; the intercept contract; the step budget; a run ends |
| Block chaining (`jit_chain.c`, `jit_*_branch.c`, `jit_wasm_chain.c`) | slot pool, claimed count, run header | claim, rewind, link, unlink_all, reset; the emitted exits | dispatcher, cache front array | stale links, slots reused after a flush, two transfer paths on one exit | a link names a live unguarded translation; no slot has two owners |
| WebAssembly module arena (`jit_wasm_arena.c`) | slots with a threaded free list, counters, learned ceiling | init, publish, release, release_all | engine (vtable), storage | the free list lives in the dead slots; a ceiling is learned from a refusal and must be given up | nothing leaked or handed out twice; an emptied arena takes modules again |
| WebAssembly host (`jit_wasm_host.c`) | engine handles, function table entries and owners | instantiate, adopt, release | arena, compactor | an entry outlives the module that made it | an entry runs the code of the block it was given to |
| Published storage, WebAssembly (`jit_storage_wasm.c`, `jit_wasm_compact.c`) | block records, modules with claim counts, batch, bytes in use, eviction cursor | translate, share, evict, invalidate, reset | arena, host, dispatcher's drop callback | sharing is a multi-step publication with rollback; eviction frees whole modules; indices are reused | claims, bytes and entries agree; the dispatcher never enters a dropped block; making room ends |
| Published storage, native (`jit_storage_native.c`) | chunks, bump pointer, retired bytes | room, translate, reset | code memory, dispatcher | code memory refuses; the last chunk; the rewind | code is never written over while it is cached; room promised is room found |
| Sparse guest memory (`memory_sparse.c`) | sorted array of mappings, allocation counter | map, unmap, protect, span, resolve, reverse lookup | `memory.c`, the embedder | fragments made by partial changes, aliases, a fixed rebuild buffer | the array is the documented byte map; lookups answer for that map |
| Checked guest memory (`memory.c`) | page permissions (borrowed), write observer | span, accessible, resolve, read, write, fill, copy | every semantic helper | partial changes of mappings, all-or-nothing faults, spans that cross mappings | a fault leaves no effect; outside the changed range nothing moves |
| Leaf sites (`jit_leaf_sites.c`) | pool of per-CALL caches | claim, mark, rewind, reset, fill | dispatcher, translated CALLs | a site refilled while code runs, a rewind under a failed translation | a site's leaf belongs to its target; sites never have two owners |
| CPU state, flags (`cpu.c`, `flags.c`, `cond.c`) | registers, lazy flag tuple | set flags, evaluate conditions | all semantics | the lazy tuple stands for six flags | every condition equals the architectural one |
| Integer semantics (`alu.c`, `bit_ops.c`, `bcd.c`, `multiply.c`, `stack_ops.c`) | none | one function per operation | CPU state, memory | shift counts, carries, partial faults | result and flags equal the definition |
| String operations (`string_ops.c`) | progress in ECX, ESI, EDI | one per REP form | memory | a fault halfway, overlap, direction | the registers name the element that faulted |
| x87 stack and state (`x87.c`, `x87_stack.c`, `x87_state.c`, `x87_exec.c`, ...) | TOP, tags, status and control words, operation census | push, pop, arithmetic, compare, store, save, restore | CPU state, memory, the backends | stack overflow and underflow, masked responses, two builds of the arithmetic | TOP and tags agree with what was pushed; a value is rounded once, where the control word says |
| Floating point and vectors (`simd*.c`, `three_dnow.c`, `x87_ext80_*.c`, ...) | registers | pure operations | CPU state | bit-exactness | equals the hardware |
| Decode and decode cache (`decode.c`, `decode_cache.c`) | cache of decoded instructions | decode, lookup, invalidate | memory | stale decodes | a hit equals a decode |
| Flag liveness (`jit_flag_liveness.c`) | none | one forward question per flag writer | translators | a fault, a helper or a block end between writer and overwriter | a dropped write is never observed |
| JIT profile and census (`jit_profile.c`, `jit_chain_census.c`) | open-addressed tables | note, report | dispatcher | tables at their limit | counts add up |
| Backends and encoders (`jit_x64*.c`, `jit_arm64*.c`, `jit_wasm_*.c`, `emit_*.c`) | code buffer; while translating: register cache, x87 mirror, proven flag word, operands left in host registers | lower one instruction, fault stubs, block ends | decode, helpers, chain | what the translator believes must hold on every path into the next instruction, and be written back on every way out | a block leaves what the interpreter leaves |
| PE32 images (`pe_image.c`) | none | parse, map, tables | memory | untrusted sizes | no access outside the image |
| Test interpreter (`exec.c`, `x87_exec.c`) | none of its own | step | all semantics | order of a fault and an effect | the oracle of the lockstep comparison |

`PROJECT.json` lists the same components with what is and is not modelled, and
the hazards, each at the line where it bites.

## How the modules fit together

```
ModulePool  <--implements-- WasmArena                       <-- HostProofs
     ^
     | INSTANCE
WasmStorage        (arena's promise + host table + records + the dispatcher's cache)
                                                            <-- WasmStorageProofs
NativeStorage      (chunks + the dispatcher's room, retry and flush)
                                                            <-- HostProofs
JitEngine          (dispatcher + chain + emitted exits, over an abstract storage)
                                                            <-- JitEngineProofs
GuestMap    <--implements-- SparseMem                       <-- SparseMemProofs

Word <- Flags <- Alu <- Decimal <- IntegerUnit              <-- IntegerUnitProofs
                           |
                           +-- Cpu <- Interp <- Block <-+- BlockX64   --+
                                                        +- BlockArm64 --+-- Lockstep  <-- LockstepProofs, LockstepArm64Proofs
                                                        +- BlockWasm  --+
                                                        +- Decode     --+
X87 (unit and interpreter) <- X87Block <-+- X87X64   --+
                                         +- X87Arm64 --+-- X87Lockstep
                                         +- X87Wasm  --+
```

The arrows `<-` without a word are EXTENDS.  The `MC*` modules give the
constants their values for TLC.  WasmStorageProofs, SparseMemProofs,
IntegerUnitProofs and LockstepProofs also extend Induction, the lemmas about
numbers, sums and recursive functions, and LockstepArm64Proofs extends
LockstepProofs. HostProofs extends two modules that share no variable: the names
NativeStorage has in common with other components carry its own prefix
(`NativeInit`, `NativeNext`, `NativeSpec`, `CodeCapacity`, `PublishCode`).

### The dispatcher and the storage of code

- **ModulePool** is what the arena promises: a bounded set of tokens and a
  ceiling that closes it after an engine refusal until enough tokens are back.
- **WasmArena** is `jit_wasm_arena.c` field by field: the slots, the free list
  threaded through them as index + 1 with 0 as its end, `live`, the counters,
  `ceiling` and `headroom`; plus `host.modules` and `host.next` of the engine
  glue. `x86p_wasm_arena_publish` is three actions, one for each way out;
  `x86p_wasm_arena_release_all` is a loop, one action a slot.
- **WasmStorage** is `jit_storage_wasm.c` with `jit_wasm_compact.c` and the
  table of `jit_wasm_host.c`. The variable `pc` is where one call of
  `translate_at` is: making room, sharing the batch, moving entries one at a
  time, inserting. Guest memory holds one code per block, so that a second
  lowering may find something else than the first did; `Shape` is what
  `lowered_the_same` compares (guest length, chained exits, leaf site), which two
  codes may have in common. `Loaded` is the memory at first and `Rewritten` the
  addresses the guest writes code at. Claim counts, the byte count and the
  eviction cursor are the code's own.
- **NativeStorage** is `jit_storage_native.c` in bytes: chunk geometry as
  `x86p_jit_storage_create` computes it, the bump pointer, retirement, chunk
  creation that code memory may refuse, publication that may be refused after
  translation; with `evict_for_room`, the retry and the full block cache of
  `jit_engine.c` around it, because those are what rewinds it.
- **JitEngine** is `x86p_jit_engine_run`: `pc` is the top of its loop, the
  intercept question, `translate_at`, or inside translated code. Blocks have a
  direct and a computed exit with a slot each. `NativeExit` and `WasmExit` are
  the two emitted forms of an exit; their budget arithmetic is modulo `Word`.
  Between runs the embedder invalidates, flushes and changes settings; inside a
  run the dispatch callback may do the same. Storage is abstract: host
  addresses that only a flush (native) or also an eviction (WebAssembly)
  returns. A native block goes to the one address at the bump pointer, a
  WebAssembly block to any free one (`Offered`).
- **GuestMap** is the byte map `memory_sparse.h` promises; **SparseMem** is
  `memory_sparse.c`: the sequence of mappings, `upper_bound` by bisection, the
  loops of `whole_span` and `x86p_sparse_resolve` as recursive functions of the
  cursor, and `change_range` as the concatenation of what it leaves of each
  mapping. The implementation property relates each call with its own arguments
  to the change of bytes documented for it, which is stronger than refinement
  of the two next-state relations.

### What a block computes

- **Word**, **Flags**, **Alu**, **Decimal** are `flags.c`, `cond.c`, `alu.c`,
  `bit_ops.c` and `bcd.c` as operators over words of `ByteBits` bits a byte. A
  flag record is the code's: kind, operands, result, width and the carry-in
  byte, from which CF, OF, AF and PF are derived when someone asks.
- **IntegerUnit** runs sequences of these operations, so that a record is read
  by an operation that did not make it, and judges each result by definitions
  that do not use the record (a shift is that many shifts by one; a quotient is
  the number that multiplies back; a decimal sum is a sum of decimals).
- **Cpu** is the guest's registers, its memory as one window of cells with
  nothing mapped on either side, the stack helpers, the string operations with
  their bulk paths, and the atomics on operands. **Interp** is `exec.c`, one
  operator per case of `execute`, in the order the case reads, writes, faults
  and records flags.
- **Block** is what the three translators share: a block in execution beside
  what its translator believes at that instruction, the flag-liveness scan, the
  shared helpers. **BlockX64**, **BlockArm64**, **BlockWasm** are the three
  lowerings: which instructions each accepts, what its emitted code reads from
  where (the x64 register cache, the ARM64 registers that still hold the last
  record's operands, the wasm locals), which flag writes it drops, where it
  faults and what EIP it leaves. They are written over what the emitted code
  does to the guest state, not over instruction bytes.
- **Decode** says what `decode.c` hands to the engines: the operands `map_operand`
  fills in, the operands each integer instruction comes with (`Decoded`), and the
  states of the guest (`Cpus`). It is the premise on programs and starting states
  of the proofs, and TLC evaluates it on every program of the `lockstep` run.
- **Lockstep** runs one program on the interpreter and on the three blocks, an
  instruction at a time, and compares as `cpu_compare.c` does.
- **X87** is the x87 unit with its interpreter; **X87Block** the predicates and
  helpers the backends share; **X87X64** the host-FPU code with its mirror of
  the top of the stack (entries, dirtiness, TOP still to be written back,
  evictions, out-of-line write-back, the fault stub that spills it);
  **X87Arm64** the double-precision fast paths and their guards; **X87Wasm**
  the classification, widening and rounding it emits. A value is a sign and a
  magnitude in eighths; a double holds the multiples of 4 and a single the
  multiples of 8, so that a value can be exact, round, or round differently in
  two steps than in one. **X87Lockstep** compares each backend with the
  interpreter of its own build: the arithmetic of the host-FPU build (x64) and
  of the software build are two different references.

Null-argument guards, wording of reasons, statistics and emitted bytes are left
out everywhere.

## Runs

| Run | Instance | Shows |
| --- | --- | --- |
| `arena` | 4 slots, divisor 2, 6 publications, 2 failures of each kind | the free list is exactly the free slots, the modules of the engine are those of the live slots, a ceiling always blocks, release_all empties and reopens, the arena implements ModulePool |
| `storage` | 3 records and modules, batches of 2, 4 entries, 3 guest blocks of which two overlap and two are rewritten, 3 codes of which 2 have one shape | `StorageSound` (types, claim counts, bytes in use, a pending module has no other owner, entries have one owner); entries, siblings and the dispatcher's cache stay consistent through sharing that succeeds, is refused, or is rolled back halfway; an entry runs its block's code, or in a shared module one `lowered_the_same` cannot tell from it, and leaves its block's code only while guest memory holds other code; one eviction always frees something |
| `storage_ends` | 2 records | a call of `translate_at` ends |
| `storage_top` (violation) | a block that ends at the top of the address space | its eviction is not reported to the dispatcher |
| `native` | capacity 13, chunks of 6, smallest block 3, sizes 1, 3, 4, 2 guest blocks | live code is never written over; a promise of room is kept; every miss is answered |
| `engine_native` | 3 addresses (one loops to itself, one is a boundary), 3 host addresses, 7 slots, cache of 2, budget 3 | `EngineSound` (types, links and front entries live, slots have one owner), the running code is the cached block, every entry is asked about without the contract, exact step counts and budget, a run ends, whether a translation fails, the region or the slots run out, or the block cache fills first |
| `engine_wasm` | 3 host addresses, 7 slots, a cache of 2 that fills, eviction | `EngineSound`, the running code is the cached block, the contract |
| `engine_wasm_budget` (violation) | 2 host addresses, 5 slots | an exit that falls from a spent budget into the probe |
| `sparse` | 4 guest bytes, 5 host bytes, 2 allocations, 2 accesses | the array implements the byte map call by call; resolution, in-use and the reverse lookup are exact; the rebuild buffer is large enough |
| `integer` | bytes of 8 bits, widths 1 and 2, 7 accumulators and 6 operands at edges, counts 0, 1, 8, 9, 12, 31, sequences of 2 | carries and conditions are those of exact sums and differences; shifts and rotates are that many single steps; divisions are exact or refused; decimal adjustments give the decimal result |
| `lockstep` | bytes of 4 bits, a window of 8 cells, blocks of 3, programs of 1 to 4 | every instruction form alone from three register sets and four flag states, every form before every reader of flags, writer-middle-reader triples, and a record made by the last instruction a block can hold: at each instruction the block and the interpreter agree |
| `x87` | 4 registers, programs of 1 to 5 | every form alone from stacks of each occupancy, with ordinary and edge values, rounding modes and unmapped memory; every form after each builder of a mirror; sequences that fill, evict and spill it |

**Why the bounds are enough.** The arena needs a ceiling with a positive
headroom (4 / 2) and enough publications to use every slot twice. The storage
needs a shared module next to one that is not, an eviction between two lowerings
of a block, and a record reused while it may still be named: three records and
batches of two do that, and one entry more than records lets a released entry be
told from a fresh one. Of its three codes two have one shape, so a rewrite
between the two lowerings of a block is noticed or passes unnoticed, and two
addresses that are rewritten let one block of a batch change, or both. The native storage needs a capacity that is not a
multiple of its chunks, a block size that fits the slack and one that does not,
and a third chunk so that a retired, a current and an unmade one exist together;
two guest blocks are what two blocks' overlap needs. Sparse memory needs one
mapping cut on both sides with another in the hole, and adjacent fragments of one
and of two allocations: four bytes and two allocations.
The engine needs two blocks that compete for a front entry, a cache and a pool
too small for all blocks (and on native exits a third host address, free when
the cache of two is full, so that a translation meets the full cache and not
the full region), and a budget that a chain of transfers can spend;
`Word` is 8 so that a budget that wraps stays far above the budget it came from.

The integer unit is run at the real width of a byte, where parity, half carries
and decimal digits are; a word is there so that two widths meet in one sequence.
A sequence of two is enough for one record to be read by the next operation;
what a translator carries over longer stretches is `lockstep`'s subject. There a
byte has four bits, so that a dword has sixteen and a state is small: every width,
high-byte register, sign, carry and wrap still exists, and the counts 4, 5 and 9
stand below, inside and past the widths. The window is reached from both of its
ends by one-, two- and four-cell accesses, so an access can be inside, straddle
the end, and start outside. A block of three lets the liveness scan, the register
cache and the held operands span a whole block, and a fourth instruction shows
the end of the block as an observer. The mirror of the x87 stack holds three
entries (`MirrorMax` is the code's); four registers leave one below it, so that a fourth
push evicts, a fifth instruction reads what was evicted, and the empty, full and
wrapped stack all occur.

**Fairness.** `WF` is put on the thread of a call and nothing else: one OS
thread runs the loop in question, translated code and callbacks return (the
code's own premise), and no step of it waits for another thread. In
`engine_native` and `native` a translation is free to fail each time; in
`storage_ends` the engine is free to refuse each time; in `arena` only the
`release_all` loop is fair. Nothing obliges the embedder or the guest to act.

`CHECK_DEADLOCK FALSE` is in the three configurations whose machine really
stops, the sequence of operations or the program having reached its end:
`MCIntegerUnit`, `MCLockstep` and `MCX87`.

## Findings

Two properties that the sources state do not hold of the code:

1. `jit_wasm_chain.c:230`: the slot path's failures fall into the probe with the
   budget already stepped, so a budget of 1 wraps (`engine_wasm_budget`). By the same
   path a call that allows no transfer makes one. The native exits return
   instead.
2. `jit_storage_wasm.c:402`: a block whose end is 2^32 is evicted without the
   dispatcher being told (`storage_top`).

Seen while modelling, each a difference between two parts of the code or between
the code and its comments, and not the subject of a run:

- `jit_wasm_compact.c:93`: the comparison that, by the comment above it, is "the
  check that the guest has not rewritten the code in between" compares guest
  length, chained exits and leaf site, so a rewrite that keeps all three is
  adopted and a live block goes on as other instructions. In the instance of
  `storage` it takes a rewrite between two publications and the batch they fill.
  No property claims more than the code does: `EntryRunsItsBlock` allows it in
  shared modules between codes of one shape, and `OnlyRewritesReplace` says that
  it happens only in a step taken while guest memory holds other code than the
  block was lowered from. (Without the first allowance TLC refutes
  `EntryRunsItsBlock` in ten states.) A guest that reports a rewrite before anything else is
  translated (`x86p_jit_engine_invalidate` drops the block and its place in the
  batch) never meets it.
- `jit_storage_native.c:202`: a refused chunk is retried without a flush and ends
  the run, though `jit_engine.h:53` describes a flush.
- `jit_wasm_arena.c:116`: a refusal at zero live modules counts a learned ceiling
  that is not in force.
- `jit_storage_native.c:67`: the chunk limit rounds up, so live bytes can pass
  the capacity by part of a chunk.
- `memory_sparse.c:141`: the reverse lookup counts mappings, so an allocation
  split by a protection has no guest address where `memory_sparse.h:48` promises
  one; a span across two fragments of one allocation is refused likewise.
  `InUseExact` states what it does answer.
- `memory.c:208-259`: the bulk fill and copy resolve their destination for
  reading only.
- Arithmetic with a destination in memory: the interpreter records the flags
  before its store can be refused (`exec.c:259`), the backends ask for both
  permissions first, as `docs/memory.md` wants. Only a page that may be read and
  not written tells them apart, and the window has none.
- `exec.c:943`: BOUND compares an index of 16 bits without extending it, with
  bounds that are sign-extended.
- JECXZ under a 16-bit address size: `jit_wasm_branch.c:108` tests CX, the
  interpreter (`exec.c:891`) the whole of ECX. The `lockstep` programs give JECXZ
  the 32-bit form only.
- LEA: the interpreter adds the segment base, the backends do not; the decoder
  leaves LEA's segment at DS, whose base is zero, so no program can tell.
- `x87.c:528` and `x87.c:592`: on the software build a fast attempt that declines
  after its note is noted again, so the census counts that operation twice where
  `x87_op_census.h:4` speaks of one count. The comparison on those builds is
  therefore "nothing uncounted"; on x64 it is equality.

## Proofs

Eight modules hold theorems; all constants are arbitrary under the named
assumptions of the modules proved about.

**HostProofs**, of WasmArena (`Capacity >= 1`, `HeadroomDivisor > 1`). The inductive
invariant `ArenaInv` adds two facts to the checked properties: handles in the
engine are below the next handle (else a new module could take a live one's),
and a ceiling in force has `headroom = ceiling \div HeadroomDivisor` and is not
yet backed off (else a release might not retire it in time). The free list is
stated as the existence of an enumeration of the free slots that the links
follow, so popping and pushing are shown by shifting that enumeration
(`PopKeepsList`, `PushKeepsList`); the counts need the cardinality lemmas of
finite sets, and a headroom strictly below its ceiling needs `DivBelow`, which
is where the divisor must exceed one. From `ArenaInv` follow the type invariant,
each safety invariant of the `arena` run, two action properties no run repeats
(`RefusedOnlyWhenFull`, `CeilingRatchets`), that an emptied arena is open, and
`PoolRefinement`: with the live slots as the tokens held, each step of the arena
is a step of `ModulePool` or invisible to it.

**HostProofs**, of NativeStorage (`CodeCapacity >= MinBlock`, `ChunkMax >= MinBlock`,
block sizes positive). `NativeInv` adds that a request told there is room still has it
when it chooses its chunk, and that a request under way names its address.
`SizesFact` derives from `x86p_jit_storage_create`'s arithmetic that a chunk
holds a smallest block, that it is left no later than when it cannot, and that
there is at least one; every other step is linear. Theorems: types, `InChunk`,
`BlocksBehind`, `BlocksDisjoint`, `RoomIsReal`.

**Induction** holds what the other proof modules need and the library states only
with an operator parameter: induction over the naturals and over an interval,
stated for a *set* of numbers; a least and a greatest number; sums over a finite
set (`Total`, by its two equations, `SumExists` and `SumUnique`) and that a fold
with an arbitrary choice of the next element computes one (`FoldTotal`); and that
a recursive function over `0 .. n` exists and stays in its set of values
(`WalkExists`).

**WasmStorageProofs** (`StorageAssumption`: at least one record, any
batch, positive lengths and sizes, a budget no smaller than the smallest module,
no block past the top of the address space, and `None` not a value of any kind). `StorageInv` is `TypeOK`, the parts of
`StorageSound` and what they lack to be inductive:

- `Phase`: where the call of `translate_at` stands. The block it published is
  live until its entry is in the cache, and while a batch is being adopted it is
  whole, the shared module has no claim yet and what was lowered still matches;
- `ModulesKept`: a module without a claim is all zero and costs nothing, one with
  a claim costs something (without it an eviction could free no byte), and the
  siblings it may call have their entries in it;
- `BatchSingle`: a block waiting for its batch is in a module made for it alone,
  so releasing that module strands nobody's sibling call;
- `EntriesLead`: a live block's entry leads into its `Runner` - its own module,
  or the shared one from the moment the entry has been moved - and the code there
  is the block's own or, in a shared module, what `lowered_the_same` could not
  tell from it;
- `CacheBelowTop`: `CacheEntersItsBlock` for blocks that end below the top of the
  address space, the ones `x86p_jit_storage_evict` speaks of;
- `CeilingAbove`: `headroom` stays below a ceiling in force.

Each action has its lemma. The dropped records are a fold over an interval
(`PendingWithout`), walked by `WalkExists`; the bytes are a fold over modules,
so `share_a_module`'s one subtraction is shown equal to what its releases take
off by counting the batch's modules with its members (`BatchSingle` makes them
as many). From `StorageInv` follow `StorageSound`, `SiblingsKeepTheirEntries`,
`EvictionSuffices` and `EntryRunsItsBlock` with no further hypothesis: nothing is
assumed of `Shape`, so two codes may look alike to `lowered_the_same`, nor of
which blocks the guest rewrites. `OnlyRewritesReplace` is proved action by action
(`OwnCodeStep`): every step but `Adopt` leaves the code behind a live entry alone,
and `Adopt` replaces it only where guest memory holds other code than the block
was lowered from. `CacheEntersItsBlock` needs that no
block ends at the top of the address space, which is exactly what finding 2 is
about; the `storage_top` run shows the hypothesis cannot be dropped.

**SparseMemProofs** (`SparseAssumption`: address spaces that are not empty, any
accesses that include none, `None` neither an address nor a byte's backing; any
number of mappings). The invariant `SparseInv` is `Tidy` - the mappings are
sorted, apart, and within guest and host memory, the premise of the bisection -,
that allocation numbers are those handed out so far, and `OneBacking`: all
fragments of one allocation have the same distance from guest to host, which is
why `x86p_sparse_resolve`'s comparison of host addresses never fails on fragments
of one allocation that touch, whatever cut them apart. Recursive functions get closed forms
by induction on what is left to do: `UpperBoundFact` for the bisection,
`WholeSpanFact` and `ResolveWalk` for the two loops, `FlattenFact` for the fold
by which `change_range` appends what it keeps of each mapping. `CutFact` says
what it keeps of one, `ChangedFact` that the result is tidy and holds exactly
those pieces, and `Leading` that at most one mapping is cut at each end, hence
`SplitsBounded`. The byte view is read through `ViewFact` (the one mapping that
holds an address says what its byte is) and compared through `ViewSame` (two
arrays with the same mappings over an address agree on it), so that
`SparseImplementsMap` has one lemma per call: `MapView`, `UnmapView` and
`ChangeView`. `ResolveExact` and `InUseExact` follow from `SparseInv` alone.

**JitEngineProofs** (any sets of guest and host addresses and of boundaries, any
successor relation, front-array index, cache size, slot pool and budget below
`Word`; `None` outside all of them). The invariant `EngineInv`, on both kinds
of exit, is what `EngineSound` lacks to be inductive:

- `Placed` and `SlotsApart`: what `EngineSound` says of cached blocks is kept by
  everything still at a host address, cached or not, because a block that was
  invalidated can still be returned from, and its slot still be linked if it is
  translated again at the same place;
- `LinksPoint`, *unless* the running block was translated with the cache off:
  such a block is in no cache and its slots are fresh, so `Alone` says instead
  that both are empty and its one step is its last;
- `GuardsMatch`: while a contract is installed the cache holds no guarded block
  away from a boundary, nor an unguarded one at a boundary, which is what
  `set_run_stop` refuses to disturb; without it a chained exit could enter a
  boundary the consumer was never asked about;
- `MissedIsMissing`: an address being translated is not cached, so nothing links
  to the block the new one replaces;
- `Thread`: the run's header carries the run's stop address, so the test in
  emitted code is the test of the dispatcher.

`FlushSound`, `DropSound` and `RetiredSound` say that a flush, an invalidation
and an eviction keep the part about code; `NativeExitFact` and `WasmExitFact`
say where an exit can go, and `ExitSound` that it goes to the cached block of
its target; the step lemmas then have one case per action. `EngineInv` yields
`EngineSound`, `RunsItsBlock` and `ContractAsks`. For native exits `NativeInv`
adds that the steps taken are those counted so far plus the entered block and
what the header's budget has lost (`Counts`), from which `BudgetHolds`,
`StepsExact` and `EveryEntryAsked` follow; the step that fails for WebAssembly
is the wrapping subtraction of finding 1.

**IntegerUnitProofs** (any operand and count sets, any bound on the sequence of
operations, and every width whose powers of two double up to one past it:
`WidthsAssumption`, stated because exponentiation has no axioms in the prover,
and evaluated by TLC for the widths of the run; `OctetAssumption` says that
`ByteBits` is 8, which the decimal adjustments need). The module goes question
by question, and each invariant is the weakest that carries the flag record from
the operation that leaves it to the one that reads it.

- *Carries and conditions.* `UnitInv` says that an empty record has an empty word
  and that after an additive operation the flags are the record `Alu` or
  `AluUnary` leaves for what the operation was given. One lemma per record
  (`SubtractFact`, `AddFact`, `AdcFact`, `SbbFact`, `StepFact`) derives its carry,
  overflow and zero from its operands by the arithmetic of one wrap-around
  (`Wraps`, `TopBit`, `SignFact`). AF is read from an exclusive or:
  `AndExists` and `AndUnique` show by induction over numbers that the recursive
  function the conjunction chooses exists and is the only one, `XorBit` reads one
  bit of it, and `HalfCarry` equates that bit with the carry out of the low half.
  `ConditionsAgree` says a condition read from the record is the one read from
  the word. They give `CarriesAreRight` (`CarriesExact`) and `ConditionsAreRight`
  (`ConditionsOrder`).
- *Shifts and rotates.* `LastMoved` says that after one of them the accumulator
  and the flags are what `Alu` leaves. A rotate by j exchanges the two parts of
  a word (`Exchange`, `TurnParts`), so one by j + 1 is one by j and one bit more
  (`TurnStep`), and n of them are none (`TurnWhole`): that is the course of a
  rotate of a byte, and of a byte with the carry as a ninth bit. The shifts have
  a course of their own (`ShlStep`, `ShrStep`, `SarStep`) with the rule past the
  width. The loop of single moves is a recursive function, which has one value
  (`MovedIs`); `ShiftsAreRight` (`ShiftsStepwise`) follows for every count.
- *Divisions.* `DivisionInv`: the upper half is a byte whatever is computed, and a
  division left its quotient and remainder or nothing. `QuotientFact` is division
  truncated towards zero. `DivisionsAreRight` (`DivisionExact`).
- *Decimals.* `DecimalInv` adds to `UnitInv` that the accumulator holds the sum or
  difference of what an addition or subtraction of bytes was given, and that an
  adjustment left the adjustment of that: the carries `UnitInv` derives are the
  ones DAA and DAS read. `DaaFact` and `DasFact` go through the digits.
  `DecimalsAreRight` (`DecimalExact`), for all pairs of packed decimals.

**LockstepProofs** (`ByteAssumption`, `WindowAssumption`: bytes of any even
number of bits, any memory window below the top of the address space;
`CasesAssumption`: any set of programs of decoded instructions and states of the
guest, from address 0; `PowerAssumption`: powers of two double, for the bits of a
dword and of the flag word, stated because exponentiation has no axioms in the
prover). It proves `WasmSafe`: `WasmAgrees` for every program, whatever its length
and its operands, and every limit on a block. The inductive invariant is
`WasmInvariant`. While the block runs (`Following`) it is where the interpreter is
and the two states are `Twin`: the same registers, memory and direction flag, and
records that differ at most in a carry-in byte no one reads. And what the
translator knows of the record is so (`Sure`): a kind it has learned is the
record's, at the width it has learned, with operands and result that are words of
that width. That is what `WasmAgrees` alone lacks, since a wrong belief does no harm
until an instruction reads it. Where a block was left (`Settled`), the two states,
the address and the outcome agree; the invariant has been checked by TLC over the
programs of the `lockstep` run.

- *What a record says.* `WasmCondFact` goes through the conditions by kind: each
  comparison of `jit_wasm_cond.c` on truncated words is the condition of the lazy
  record (`SubCond`, from the arithmetic of one wrap-around), and
  `WasmCarryFact` does the same for the carry.
- *What an operation reads.* `AluFact`, `UnaryFact`, `ShiftFact` and their like: an
  operation gives the same result and a record alike from records that are alike,
  so it does not matter that a carry-in byte differs.
- *Addresses and guards.* The backend computes an address with one wrap at the end
  and the interpreter at each addition; its guard is one unsigned comparison
  (`GuardFact`). Writes, pushes and pops of both move both alike (`Moved`,
  `Worked`), through ENTER's copies, PUSHAD and POPAD, and the turns of a repeated
  string operation, which are walked by induction (`RepeatedFact`).
- *Each instruction.* One lemma per lowering (`Done`), gathered by `LoweredDone`.
  The cases that need an argument of their own are the exchange, whose two stores
  are in one order in the code and in another in the interpreter; BT with a
  register, which moves the address by whole dwords; LOOP; and a count past the
  width in SHLD, which leaves the block unsupported.
- *The block.* `ContinueDone` for its three ways to stop and `StepFollowing` for one
  instruction of both.

**LockstepArm64Proofs** (the same assumptions, and `InsnsAssumption`: the longest
block is some number of instructions). It proves `Arm64Safe`: `Arm64Agrees` for
every program, every window, every width and every limit on a block. The two states
are not always alike here, for two reasons, and `ArmInvariant` carries both.

- *A record may be missing.* ARM64 does not write the flag record of an instruction
  when `x86p_jit_flag_write_is_dead` finds a later one that writes all flags before
  anything can see them. So while the block runs (`ArmFollowing`) registers, memory
  and direction flag are the interpreter's (`Even`), and the records either are
  alike, or `WriteIsDead` still holds at this point of the program: every
  instruction up to the next kill is emitted, is no boundary, fits in the block and
  neither reads the flags nor leaves. `DeadNext` walks that promise one instruction
  on; `TransparentLoose` says that an instruction on the way does the same to states
  whose records differ and cannot fault or leave; `KillsDone` that the killer makes
  the records alike again whatever they were. The scan's answer at the writer is
  thus shown to be enough at each of the instructions it looked past, the last of
  the block included.
- *Its words may be in host registers.* An instruction leaves the operands and the
  result of the record it made in X0, X1 and X2 for the next one, which may find
  them there instead of loading them. `Words` says that each register named holds
  that word of the record the guest state holds; it is kept for the one instruction
  the names live (`made`, then `held`). `ArmOperandsAre` shows that
  `load_operands_aligned` brings the right words from every arrangement of them,
  the exchanged ones included. `ArmKnown` adds to what WebAssembly knows that a
  shift's record has the kind of its own, which its conditions are read from.

`ArmCondFact` and `ArmCarryFact` are the conditions and carries under `ArmKnown` and
`Words`; one lemma per emitter (`ArmDone`) is gathered by `ArmEmittedDone`; and
`ArmContinue` and `ArmStepFollowing` take the block one instruction on. TLC has
checked `ArmInvariant` over the programs of the `lockstep` run.

**Only model-checked.** All liveness (`ReleaseAllEmpties`, `TranslationEnds`,
`MissAnswered`, `RunEnds`), since fairness is out of the prover's reach; the x64
backend's `X64Agrees`; and the three x87 counterparts. The x64 block keeps guest
registers in host ones, writes them back on its ways out, and proves a word of
flags from instruction to instruction: an invariant has to say which registers are
dirty and which flags the word answers for, beside what `ArmInvariant` says. The
lemmas about operations, operands, the interpreter and the liveness scan are the
ones such a proof would start from. The x87 blocks need the same of TOP, the tags
and the mirrored stack.

## Not modelled

- Emitted bytes: encodings, branch ranges and relocations. The backends are
  modelled by what the code they choose does to guest state, so an encoder that
  writes a wrong byte is not seen.
- SIMD, MMX arithmetic and 3DNow!, bit-exact floating point and transcendental
  functions: 32- to 128-bit operands are out of a model checker's reach, and a
  smaller format would not have their special cases. Where MMX and x87 meet (a
  write to an MMX register, EMMS) is in X87. The conversions among x87 memory
  formats are modelled by what they round and refuse, not bit by bit.
- The end of the code buffer. A block also ends when its next instruction might
  not fit (`jit_x64.c:886`, `jit_arm64.c:763`, `jit_wasm_lower.c:382`), and the
  liveness scan stops where the loop might (`jit_flag_liveness.c:35`). In the model
  only the number of instructions ends a block early, whatever that number is in
  the proofs. By reading, the scan never looks past the loop's end: it charges the
  worst case for each instruction up to and including the killer, no instruction
  may emit more (`jit_x64.c:361`, `jit_arm64.c:666`), and what it starts from
  includes the tail the loop reserves (`jit_x64.c:977`, `jit_arm64.c:842`).
- The helpers that x64's x87 code calls when its fast path does not apply
  (`Called` in X87X64): they are the interpreter's own step, which
  `jit_x64_x87.c` is read to agree with. X87X64 is about when the fast path is
  taken and what it does.
- Pages that may be read and not written, under the instructions: permission
  tables are in SparseMem, and the window the instructions run over is uniformly
  accessible.
- Decoding of bytes, a table over Zydis (Decode says what it yields), and its cache, which the test interpreter alone
  uses and which compares the bytes on every hit; XLAT, whose index is a byte of
  a register; port I/O, CPUID, segment loads and descriptor queries.
- Leaf sites: a leaf is the consumer's replacement for a callee, and what it does
  is its own; a site caches the consumer's last answer and returns to the pool
  with the flush that JitEngine models.
- PE32 images, profile and census tables, diagnostics, names and tools.
- The block cache and code memory belong to the jit-common submodule, whose
  files are not in the repository: they are modelled as `jit_engine.c` and the
  emitted probes use them.
