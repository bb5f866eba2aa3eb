# Formal models of the segregated-fit allocator in `src/mm.c`

This directory holds TLA+ models of the `malloc`/`free`/`realloc`/`calloc`
implementation in `src/mm.c`, TLC configurations that model-check them on a
small region, an abstract specification of what the allocator promises its
caller with a refinement mapping from the heap model, and TLAPS proofs of
type correctness (for the heap) and of separation (for the contract) for
every value of the constants.

## The system

`src/mm.c` manages one contiguous region that memlib's `mem_sbrk` hands out
from its base upward. It has the following parts:

| part | code | what it does |
|---|---|---|
| header codec | `pack`, `extract_*`, `get_*` (225-397) | A header word is a size with its low four bits clear, plus three status bits: alloc, prev_alloc and prev_mini. |
| heap walker | `find_next`, `find_prev`, `header_to_footer`, `footer_to_header` (295-458) | Walks forward by header size. Walks backward through the previous block's footer, which exists only when that block is free and not mini. |
| block writers | `write_block`, `write_miniblock`, `write_epilogue` (406-534) | Step 1 writes the block's header, plus a footer when the block is free and not mini. Step 2 rewrites the next block's header so that its prev bits describe this block. |
| segregated lists | `determine_seg_index`, `add_to_free_list`, `remove_from_free_list` (575-736) | Ten doubly-linked LIFO lists, indexed by size class, threaded through the `next_free`/`prev_free` words of free blocks. |
| mini list | `add_to_mini_free_list`, `remove_from_mini_free_list` (608-693) | A singly-linked LIFO list of free 16-byte blocks. Removal scans from the head. |
| coalescer | `coalesce_block` (747-850) | Merges a newly free block with its free neighbours (four cases), then pushes the result on its list. |
| extension and initialisation | `extend_heap`, `mm_init` (860-882, 1340-1373) | Install the prologue and epilogue sentinels, reset the lists, and grow the region by a chunk. Each new block is written over the old epilogue and then coalesced. |
| splitter | `split_block` (893-931) | Carves the requested size out of a block and pushes the remainder of 16 bytes or more. |
| fit finder | `find_mini_fit`, `find_fit` (940-1015) | Returns the mini head for 16-byte requests. Otherwise takes the first fitting node of the first class that has one, then looks through the next 20 nodes for a smaller fit. |
| API | `malloc`, `free`, `realloc`, `calloc` (1383-1555) | The public entry points. |
| debug checker | `mm_checkheap` and sub-checks (1024-1331) | Called through `dbg_requires`/`dbg_ensures` in debug builds, before and after malloc and free and at the end of `coalesce_block`. |

The globals are:
- `heap_start`;
- `segment_list[10]`;
- `mini_list_start`;
- memlib's break.

The allocator is single-threaded, and the driver calls it one entry point at
a time. The parts interact only through the heap words and these globals. The
hard behaviours are long sequences of calls, not concurrent ones:
- each operation reads boundary tags and list pointers that earlier operations
  wrote;
- a stale prev bit, footer or back link shows up only calls later, when a
  merge or an unlink trusts it.

## Modules

### `MMHeap.tla`: the allocator

**State.**
- `mem` maps the 8-byte word addresses of the region (`Addrs`) to integer
  words.
- `brk` is memlib's break.
- `start` is `heap_start`, `seg` is `segment_list` and `mini` is
  `mini_list_start`.
- `req` is the driver's record: the byte count asked for at each payload
  pointer it holds.

**Helpers.**
- Every static helper of `mm.c` is an operator over a state record
  `[mem, brk, start, seg, mini]`, and returns a new record, or
  `[st, ret]` when the C function returns a value.
- Helpers keep the C names (`WriteBlock`, `RemoveFromFreeList`,
  `CoalesceBlock`, `SplitBlock`, `FindFit`, ...), and PROJECT.json's `map`
  gives the lines each one translates.
- Each operator does everything the C function does, including the calls it
  makes:
  - `MallocOp` does the lazy `mm_init`, the `size == 0` return,
    `round_up(size + wsize, dsize)` with size_t wrap-around, `find_fit`,
    `extend_heap`, `write_block`, `remove_from_free_list` and `split_block`,
    in the code's order;
  - `ExtendHeap` includes the coalesce.
- A function that calls another and then works on its outcome is split at
  that call. The later stage is an operator taking the outcome as an
  argument:
  - malloc runs as `MallocOp` (the lazy `mm_init`), then `MallocFrom`
    (`size == 0`, `asize`), then `FitOrExtend`, then `PlaceBlock`;
  - realloc's tail is `ReallocMove`;
  - coalesce_block's three merges are `MergeNext`, `MergePrev` and
    `MergeBoth`, each over the state its removals left;
  - the actions install an outcome through `MallocDone` and `ReallocDone`.
- `CoalesceBlock` returns the state and the merged block, as the C function
  does.

**Actions.** Each public entry point is one action: `MmInitAction`,
`Malloc(n)`, `Free(p)`, `Realloc(p, n)` and `Calloc(k, n)`.
- `Free` and `Realloc` take only pointers the driver holds (`Held`), or NULL.
- A double free is undefined behaviour, and the driver never does it.

**Data abstraction.**
- Payload bytes are not modelled: `memcpy` in realloc and `memset` in calloc
  change nothing in the model.
- A payload word keeps whatever the allocator last wrote there, which is what
  the word holds when the program never writes its payload.
- Sizes are taken modulo `2^Width`, so that the code's size_t overflow is
  reproduced.

**Faults.** A read outside the region, which would be a fault in C, yields
NULL (`Load`).

**Bounded walks.**
- Lists and walks are recursive functions, materialised over bounded ranges:
  `Chain` over `0..MaxChain` and `HeapWalk` over `0..MaxBlocks`. `HeapWalk`
  recurses on `<<block, steps>>` pairs, so that each step reads a block
  address that is already a value: the walk then costs TLC linear time even
  where it cannot cache intermediate results (under a prime, in the
  refinement's step check).
- Those bounds are the number of 16-byte blocks in the region, so no real
  list or walk is cut short.
- `FitInList` clamps its result to an address of the region (`AsBlock`). On
  reachable heaps this changes nothing, because list nodes are blocks
  (`FreeListsExact`).

**Constants.**
- `Width`: the bits of size_t.
- `HeapBase`: `mem_heap_lo`.
- `MaxHeap`: memlib's `MAX_HEAP`.
- `ChunkSize`.
- `ScanLimit`: the 20 of `find_fit`.
- `Requests` and `CallocArgs`: the driver's inputs.

The named assumptions say what the code needs of them.

memlib is not in this repository. `SbrkFails` and `Addrs` are modelled from
the spec: the break grows until `MaxHeap` bytes are in use, and then
`mem_sbrk` fails.

### `MMCheckheap.tla`: the debug checker

Every sub-check of `mm_checkheap` is a Boolean operator over the state record:
- `ValidPrologue`, `ValidEpilogue`, `ValidBlocks`;
- `CheckCoalescing`;
- `NoCycles`, `ConsistentPointers`, `AllFree`;
- `ListMatchHeap`.

Each one follows the code, including these quirks:
- `valid_epilogue`'s loop condition is always true;
- `consistent_pointers` returns at the end of the first non-empty list;
- `list_match_heap` counts only the segregated lists.

The checker writes nothing, so it has no action. Its runs evaluate it on every
state the allocator reaches.

### `MMAlloc.tla`: the contract, and the refinement

`MMAlloc` states what the allocator promises its caller, with the heap left
out.
- `live` is a set of allocations `<<p, sz>>`: a payload pointer and its usable
  bytes. `held[p]` is what the caller asked for at `p`.
- `Alloc(p)` (malloc, calloc, realloc(NULL, n)) hands out a pointer the caller
  did not hold. It is aligned, lies in the region, and its `sz >= n` bytes
  overlap no live allocation.
- `Release(p)` (free, realloc(p, 0)) takes one back.
- `Move(p, q)` (a successful realloc) is both in one step. The new bytes must
  also clear the old block.
- Failed calls, `mm_init`, and everything the allocator does inside its own
  words are stutters.

At the end of `MMHeap`, `Allocations` maps the heap to `live`: every allocated
block of the walk from `heap_start`, as its payload pointer and its size less
the header. `req` maps to `held`. `ContractRefined == Contract!Spec` is
checked as a PROPERTY, which is the usual INSTANCE ... WITH form.

### `MMFitLoops.tla` and `MMFindFit.tla`: find_fit's loops

`MMFitLoops` writes `find_fit`'s three nested C loops (mm.c 958-1015) as the
code runs them. Each loop is a recursive function of the iteration number,
whose k-th value is the loop's state before iteration k:
- `CompareStep` is one iteration of the innermost loop. It compares the block
  against `best_fit` with the strict `<` and returns after the block with
  counter 20 (`ScanLimit`). It stops at NULL.
- `CompareStates` and `CompareLoop` run the innermost loop from the first fit.
- `ListStep` and `ListLoop` run the middle loop to the first block of
  `asize` bytes.
- `SegPick` and `SegLoop` run the outer loop from `determine_seg_index`
  upwards.
- `FindFitLoop` adds the mini-list shortcut.

A state that has left its loop is marked done, and later iterations keep it.
A list that ends in NULL has at most `MaxChain` nodes, so every loop over
such a list has left by iteration `LoopBound = MaxChain + 1`.

`MMFindFit` instantiates `MMFitLoops`, and with it `MMHeap`. It builds free
lists with the model's own `AddToFreeList` and `RemoveFromFreeList` on four
32-byte slots. The actions are `Push(b, size)` (a free header, then
`add_to_free_list`) and `Pop(b)`, so the lists reach every order of every
mix of sizes that four blocks allow. `FitAgrees` compares the model's
set-based `FindFit` with the loops.

### `MMStrayWrite.tla`: a fault the checker is for

This module adds one program fault to `MMCheckheap`: a write through a pointer
already freed, which lands on the block's `next_free` or `prev_free` word.
- The value written is a free block, NULL, or the first address past the
  region.
- The fault ends the behaviour. The next malloc or free would start with
  `dbg_requires(mm_checkheap)`, which is what the run evaluates.

### `MMHeapProofs.tla`, `MMAllocProofs.tla`, `MMFitProofs.tla`, `MMFitLoopsProofs.tla`, `MMSizeProofs.tla`: the proofs

These modules hold the TLAPS lemmas and theorems (see Proofs below):
- `MMHeapProofs`: the type invariant of the heap model;
- `MMAllocProofs`: the separation invariant of the contract;
- `MMFitProofs`: find_fit's correctness, given exact free lists;
- `MMFitLoopsProofs`: find_fit's C loops equal the set-based `FindFit`;
- `MMSizeProofs`: the size_t arithmetic of the header codec, malloc and
  calloc.

### `MC_MMHeap.tla`, `MC_MMCheckheap.tla`, `MC_MMFindFit.tla`, `MC_MMStrayWrite.tla`: the instances for TLC

## Properties

The properties are in `MMHeap.tla`, each with a comment:

- `TypeOK`: a type invariant, which includes `brk` staying within the region.
- `HeapConsistent` (spec invariants 1-5):
  - the walk from `heap_start` ends exactly on the epilogue word below the
    break;
  - block sizes and alignment are valid;
  - every block's and the epilogue's prev_alloc and prev_mini bits match the
    block before it;
  - every free non-mini block has a footer equal to its header.
- `Coalesced` (invariant 6): no two adjacent free blocks.
- `FreeListsExact` (invariants 7-11):
  - the mini list holds exactly the free 16-byte blocks;
  - segregated list `i` holds exactly the free non-mini blocks of class `i`;
  - every list is acyclic and ends in NULL;
  - the head's prev is NULL, and each next's prev points back.
- `AllocationsSound`:
  - every pointer the driver holds is the payload of an allocated block with
    room for its request;
  - every allocated block is held.

  It catches a block freed behind the driver's back, a freed block left
  marked allocated, and a block that is too small. A block handed out again
  while held only overwrites the driver's record at the same pointer, so
  `MallocContract` (not already held) and `ContractRefined` catch that.
- `FitCorrect`: for every block size a request can ask for, `find_fit`
  returns NULL exactly when no free block of the heap is large enough, and
  otherwise a free block that is large enough. So malloc extends the heap,
  and fails once the region is spent, only when nothing fits. This rests on
  three things: `determine_seg_index` is monotone, the scan starts at the
  request's own class, and every free block is on its class's list.
- `MallocContract`: from every reachable state, for every request, malloc's
  result, when not NULL, satisfies all of these:
  - it is 16-byte aligned;
  - it is not already held;
  - it is allocated;
  - it is big enough.

- `PayloadUntouched` (an action property): no call writes a word of a
  payload that the driver holds both before and after it. The allocator's own
  writes never reach the caller's bytes: headers, footers, list links, the
  epilogue, splits, merges, and write_block's update of the next header.
- `ContractRefined`: the heap implements `MMAlloc`. Beyond `AllocationsSound`,
  this checks that:
  - live payloads never overlap;
  - realloc's new block is apart from the old one;
  - no call resizes a block the driver keeps.

`MMFindFit.tla` adds `FitAgrees`: the set-based `FindFit` returns what the C
loops return, for every request. `MMStrayWrite.tla` adds
`PointersCheckSound`: when `consistent_pointers` accepts, every segregated list
satisfies spec invariants 9 and 10.

`MMCheckheap.tla` adds two properties, stated from the spec's description of
the checker:
- `CoalescingCheckAccepts`: `check_coalescing` accepts every reachable heap.
- `ParityCheckAccepts`: `list_match_heap` accepts every reachable heap.

`SplitAssertHolds` states the `dbg_assert`s at the end of `split_block`
(`mm.c:922-926`): from every reachable state, whenever the next malloc splits
off a 16-byte remainder, that remainder heads the mini list and the
epilogue's `prev_mini` bit is set. `HeapConsistent` does not cover this: it
asks that each block's `prev_mini` bit match its predecessor, not that a mini
remainder be the last block. `HeapConsistent` also does not check
`valid_epilogue`'s loop condition, which is always true (`mm.c:1049`). It
shows only that on every reachable heap the walk meets the epilogue, so the
loop ends there.

## Runs

| run | cfg | expect | what it shows |
|---|---|---|---|
| heap_shape | `MMHeap.cfg` | pass | `TypeOK`, `HeapConsistent`, `Coalesced`, `FreeListsExact` and `FitCorrect` hold on all 75,879 reachable states. |
| client_contract | `MMHeapClient.cfg` | pass | `AllocationsSound`, `MallocContract` and `PayloadUntouched` hold on the same states and steps. |
| contract_refinement | `MMHeapContract.cfg` | pass | Every step of the heap model is a step of `MMAlloc` or a stutter. |
| find_fit_loops | `MMFindFit.cfg` | pass | `FitAgrees` on all 44,560 list configurations of four slots, with `ScanLimit` 2. |
| checker_stray_links | `MMStrayWrite.cfg` | violation | A corrupted second list passes `consistent_pointers`. |
| malloc_overflow | `MMHeapOverflow.cfg` | violation | `malloc(SIZE_MAX)` returns a 16-byte block. |
| checker_coalescing | `MMCheckheapCoalescing.cfg` | violation | After `mm_init; malloc(8)`, `check_coalescing` rejects a correct heap. |
| split_mini_assert | `MMHeapSplitAssert.cfg` | violation | `split_block`'s assertion fails on a mini remainder split off mid-heap. |
| checker_parity | `MMCheckheapParity.cfg` | violation | After `mm_init; malloc(24)`, `list_match_heap` rejects a correct heap. |

**Bounds.**
- size_t has 12 bits, so requests near `SIZE_MAX = 4095` are expressible.
- The region is 112 bytes starting at 16: mm_init's two sentinel words plus
  two 48-byte chunks.
- The heap is extended once after mm_init, then `mem_sbrk` refuses. Both
  `extend_heap`'s success and its failure are reached, as is a failing
  `realloc`.
- Requests are 0, 8, 24 and 40 bytes, giving adjusted sizes of 16 (mini), 32
  and 48. Together with the remainders that splits leave, this reaches:
  - all four coalesce cases, including the one that finds the previous block
    by prev_mini arithmetic;
  - mini and segregated lists of two or more nodes;
  - removal at the head and in the middle of a list;
  - remainders of exactly 16 bytes.
- `calloc` arguments cover no elements, a plain product, and a product that
  wraps. The plain product, `calloc(2, 12)`, reaches the states that
  `malloc(24)` reaches, which is what the code does.

Each heap run finishes in two to four minutes on two workers. The heap
instance never has a list whose first fitting node is followed by a smaller
fitting node. That would take a larger region than TLC can cover
exhaustively, together with everything else. find_fit_loops reaches this case
by building lists directly:
- there are four slots and sizes 16, 32, 48, 64 and 80, so class 2 can hold
  48 and 64 in any order;
- with `ScanLimit` 2, a smaller fit can sit inside the window, exactly on its
  last block (counter = `ScanLimit`), or just past it.

`ScanLimit` is a constant because only the number of blocks the window
compares matters, not its value of 20.

Every pass property has a mutant in PROJECT.json, a plausible bug in the
definition it replaces, and TLC finds each mutant:

| property | mutant |
|---|---|
| `TypeOK` | `SbrkNeverFails`: memlib never refuses |
| `HeapConsistent` | `WriteBlockNoNext`: write_block without step 2 |
| `Coalesced` | `FreeOpNoCoalesce`: free without coalesce_block |
| `FreeListsExact` | `RemoveFromFreeListNoBackLink`: no `next->prev_free = prev` |
| `AllocationsSound` | `ReallocMoveFreeOnFail`: realloc frees the old block when malloc fails |
| `MallocContract` | `FindFitAnyMini`: the mini head for any request |
| `PayloadUntouched` | `SetNextPrevBitsFooterAlways`: write_block's step 2 also rewrites the next block's footer slot without the `is_next_alloc` test |
| `ContractRefined` | `ReallocFreeFirst`: realloc frees the old block before it allocates the new one |
| `FitAgrees` | `FitInListShortWindow`: the window ends one block early |

No fairness is assumed, and no liveness property is checked. The driver may
stop calling at any point, and the allocator itself has no pending work: every
entry point runs to completion within one action.

## Findings

1. **malloc overflow** (`mm.c:1408`). `asize = round_up(size + wsize, dsize)`
   wraps for requests within 23 of `SIZE_MAX`, so `malloc(SIZE_MAX)` returns a
   16-byte block instead of NULL. `calloc(1, SIZE_MAX)` passes calloc's
   overflow test, reaches the same path, and `memset`s far past the block.
2. **check_coalescing reads payload as a footer** (`mm.c:1109`). The checker
   calls `find_prev` on each free block even when the block before it is
   allocated and has no footer. The verdict then depends on user data. With a
   zero word there, a correct heap is reported as uncoalesced, and malloc's
   `dbg_ensures` aborts a debug build after its first small allocation.
3. **list_match_heap ignores the mini list** (`mm.c:1198`). The free blocks of
   the implicit list include mini blocks, but the list count does not include
   `mini_list_start`'s list. So every heap with a free mini block fails the
   checker. TLC's trace, `mm_init; malloc(24)`, relies on the model's 48-byte
   chunk. With the real 4096-byte `chunksize` it takes `malloc(8); malloc(8);
   free(first)`: the freed 16-byte block sits between allocated neighbours.

4. **consistent_pointers checks one list** (`mm.c:1154`). The loop returns
   true as soon as it reaches the end of the first non-empty segregated list.
   Its comment, and spec section 4.10, say that it checks all free-list
   pointers. TLC builds the heap `[free 48][alloc 16][free 32]`, which puts
   one block in class 1 and one in class 2. A write through the freed 48-byte
   block then points its `next_free` at itself. `consistent_pointers` walks
   only class 1 and accepts the heap.
5. **split_block's assertion on mini remainders** (`mm.c:922-926`). After a
   split that leaves a 16-byte remainder, `split_block` asserts two things.
   The remainder must head the mini list, and the epilogue's `prev_mini` bit
   must be set, so the remainder must be the last block. A free block in the
   middle of the heap, split down to a mini remainder, breaks the second
   assertion. TLC reaches this after `malloc(24); realloc(p, 24); malloc(8)`
   on the 48-byte chunk. With the real chunk it takes `malloc(24);
   malloc(4056); free(first); malloc(8)`. No free mini block exists before
   that split, so the debug build's `mm_checkheap` calls pass up to this
   assertion, and then the build aborts on a legal sequence of calls. The
   heap itself is consistent there, and release builds are unaffected.

write_block's step 2 also disagrees with its own comment, and with spec
section 4.7. For a free next block the comment says "edit header and footer",
but the code writes only the header. This is harmless: a free block written
next to a free block is merged at once, and only a footer's size is ever read.
`HeapConsistent` (footer equal to header) holds in every reachable state, and
the mutant that does write the footer slot unconditionally breaks
`PayloadUntouched`.

The allocator itself satisfies every invariant of the spec's section 3 on the
checked instance. Findings 2 and 3 are in the debug checker, and they abort
debug builds on correct heaps, and finding 5 is a debug assertion that is
false on correct heaps.

## Proofs

`MMHeapProofs.tla` proves `THEOREM TypeCorrect == Spec => []TypeOK` for every
value of the constants that satisfies the module's assumptions. TLAPS checks
every step.

The assumptions are:
- `Width` is a natural number of at least 8;
- `2^Width` is a positive natural;
- the region is 16-aligned and fits below `2^Width`;
- the chunk is a positive multiple of 16;
- requests and calloc arguments are size_t values;
- `2^Width` is a multiple of 16 of at least 256 (`SizeModAlignedAssumption`,
  which again holds for every `Width >= 8`).

`SizeModAssumption` restates a fact of arithmetic that the provers cannot
derive, because they do not evaluate `^`. TLC evaluates it on every run.

**The argument.** `TypeOK` is inductive as it stands, so no strengthening is
needed. The proof rests on one lemma per helper, each saying that it maps a
typed state record (`SType`) to a typed state record and returns an integer.
- **Words.** `Load` yields integers, and `Store` keeps the memory typed
  wherever it writes, because an `EXCEPT` outside the domain changes nothing.
  So no lemma needs to know which address a helper touches.
- **Lists and walks.** This is why the recursive list walks never have to be
  reasoned about. TLAPS sees them only as `CHOOSE`, and nothing is known of
  their values.
- **Fit finding.** `FitInList`'s result is typed by its clamp to the region.
- **Size classes.** `SegIndex` is within `0..9` by a cardinality bound
  (`FS_Subset`, `FS_Interval`).
- **The break.** `extend_heap` and `mm_init` move `brk` only when
  `SbrkFails` is false. That, together with `round_up`'s result being a size_t
  (`RoundUpRange`), keeps `brk` within `HeapBase .. HeapBase + MaxHeap`.
- **The driver's record.** `req` stays a size_t because requests are, and
  calloc's product is reduced modulo `2^Width`.

**The contract.** `MMAllocProofs.tla` proves `THEOREM Separation ==
ConstantsOK => (Spec => []Separated)` for `MMAlloc`. `ConstantsOK` says that
pointers and sizes are naturals, and that requests and usable sizes are
positive. `Separated` says that:
- the caller holds exactly the live pointers;
- each allocation is at least its request;
- no two allocations share a byte.

It is not inductive alone. The inductive invariant `Inv` adds the types of
`live` and `held`, because an allocation step needs the new pair to be a
natural pointer and a positive size. Each action has a lemma:
- `AllocInv`: the new pair is apart from every live one (`FitsApart`), so its
  pointer is new.
- `ReleaseInv`.
- `MoveInv`: `q # p`, because the new block must clear the old one.

These compose into `NextInv`, and the theorem follows by PTL. Together with
the refinement that contract_refinement checks, this is what the heap of
mm.c guarantees its caller. The refinement itself is only model-checked,
because its mapping goes through the recursive heap walk.

**find_fit.** `MMFitProofs.tla` proves `THEOREM FitFromLists == TypeOK /\
FreeListsExact => FitCorrect`. It holds for every width, region and scan
limit. The argument is in three parts.
- **A list's search.** `FitInListSpec` says that `FitInList` returns a node
  of the chain with at least `asize` bytes when the chain has one, and NULL
  otherwise. This holds whichever node the window's better-fit scan picks.
  The proof needs only the head of `Chain`, which `ChainHead` unfolds once
  with `NatInductiveDef`, and least elements, which `LeastNat` obtains from
  `WFMin` on `Nat`'s order.
- **The classes.** `SegIndexMonotone` says that a larger size never has a
  lower class. So a free block with `asize` bytes or more lies on a list
  that find_fit scans, either its own class's list or the mini list.
- **The theorem.** `FindFitSpec` gives find_fit's answer in terms of its
  lists. `FreeListsExact` turns the lists into the free blocks of the walk.

`FreeListsExact` itself is only model-checked (see below). The theorem
therefore moves the question from find_fit's search to the lists' upkeep.
heap_shape checks both halves on its instance.

**find_fit's loops.** `MMFitLoopsProofs.tla` proves `THEOREM LoopsAgree`:
for every allocator state whose segregated lists end in NULL within
`MaxChain` nodes (`ListEnds`), and every request, `FindFitLoop = FindFit`.
This is the equation that find_fit_loops checks as `FitAgrees`, proved here
for every width, region and scan limit. Each loop's state sequence is
described by an invariant of its k-th state, proved for every k by
induction. The induction rule `SetInduction` is derived from `WFMin` on
`Nat`'s order for a set, not an operator, so the provers can instantiate
it. The proof has three parts, one per loop:
- **The middle loop.** `ListStatesWalk` shows that the loop walks the chain
  up to `Stop` (the first node that is NULL or fits) and stays there.
  `StopFits` shows that `Stop` is the least fit when the list has one.
- **The compare loop.** `CompareRun` shows that before iteration k the
  state is the node at `Stop + k`, counter k, and `best_fit` the best node
  of the window seen so far (`Seen`). Each comparison extends the window by
  one node (`SeenStep`, `BstExtend`). `CompareWindow` shows that the loop
  leaves at the list's end or at counter `ScanLimit`, whichever comes
  first, with the best of FitInList's window, and that later iterations
  change nothing. `ListLoopFit` concludes that the two inner loops are
  `FitInList` of the list.
- **The outer loop.** `SegRun` shows that after j iterations from the top
  class down, the answer is the fit of the lowest class with one.

`THEOREM LoopsCorrect` combines `LoopsAgree` with `FitFromLists`.
`FreeListsExact` contains `ChainAcyclic`, whose first conjunct is
`ListEnds`, so on every heap with exact free lists the C loops are a correct
search.

**Size arithmetic.** `MMSizeProofs.tla` proves three theorems about size_t
values, for every `Width >= 8`. Each rests on `DivModChar`, which
characterises `%` and `\div` by the unique `q * d + r` with `0 <= r < d`.
- `PackRoundTrip`: the `extract_*` functions recover the size and the three
  status bits from `pack`'s word, whenever the size has its low four bits
  clear. So the header and boundary-tag writes lose no information.
- `MallocSizeBoundary`: for every `size > 0`, malloc's `asize =
  round_up(size + wsize, dsize)` is a multiple of 16. It has room for the
  request and the header exactly when `size <= SIZE_MAX - 23`. For the 23
  larger sizes it wraps to 0 or 16 (`AdjustedSizeWraps`). This is why the
  malloc_overflow finding is not an artefact of the 12-bit instance: it
  happens at every width.
- `CallocCheckExact`: for `elements > 0`, calloc's test `asize / elements
  != size` fires exactly when the product does not fit in size_t. So
  calloc's part of the overflow finding comes only from malloc's rounding.

**Out of the provers' reach.** These properties are only model-checked:
- `HeapConsistent`, `Coalesced`, `FreeListsExact`, `AllocationsSound`,
  `MallocContract`, `PayloadUntouched` and `ContractRefined` are about the
  values of the recursive walks (`HeapWalk`, `Chain`). One step of a walk can
  be unfolded, as `ChainHead` does. Showing that a call keeps a whole walk
  well formed, however, needs an induction over its length for each call.
  The library's induction theorems take an operator parameter, which the
  installed provers cannot instantiate. `SetInduction` in
  `MMFitLoopsProofs` works around this for find_fit's loops. The walks'
  invariants, however, relate a walk before a call to a walk after it,
  through splitting, coalescing and list surgery, a far larger proof, and
  they remain checked by TLC only.
- `FitCorrect` is proved only from `FreeListsExact`. Without that
  hypothesis it is model-checked.
- `FitAgrees` is proved for every state whose lists end (`LoopsAgree`).
  That the lists `MMFindFit` builds with its pushes and pops always end is
  checked by TLC only.
- The checker module uses `FiniteSetsExt`, which brings in recursive folds,
  so it holds no theorems.
- No liveness property is stated or proved. The allocator is sequential,
  and every call returns after a bounded number of loop iterations.

## Not modelled

- Payload data: what `memcpy` and `memset` write. The driver's data only
  matters to the checker's reads, which are discussed above.
- `not_in_free_list`: used only inside `dbg_requires`.
- `print_heap` and `dbg_printf`.
- memlib, beyond the break pointer.
- The driver, beyond its choice of calls.
- Concurrency: the code has none.

## Plan for later work

1. TLAPS proofs of the heap invariants that do not need the walks, for
   instance that the globals always point inside the region or are NULL.
   The `DivModChar` lemmas of `MMSizeProofs` and the unfolding of `Chain`
   in `MMFitProofs` are the tools for this.
2. A proof of the refinement's step correspondence for the calls whose
   effect on the walk can be stated without recursion, such as a failed
   malloc or mm_init.
3. More faults for the checker: a double free, and a write over a header.
