------------------------------- MODULE MMHeap -------------------------------
(***************************************************************************)
(* The segregated-fit allocator of src/mm.c, modelled word by word.        *)
(*                                                                         *)
(* Memory is the region memlib hands out, one value per 8-byte word.  The *)
(* allocator's globals are heap_start, segment_list[0..9] and              *)
(* mini_list_start; memlib's break pointer says how much of the region is *)
(* in use.  Every static helper of mm.c is an operator from a state record *)
(* [mem, brk, start, seg, mini] (and its arguments) to a new state record, *)
(* or to a record [st |-> state, ret |-> result] when the C function       *)
(* returns a value.  Each public entry point (mm_init, malloc, free,       *)
(* realloc, calloc) is one atomic action: the allocator is single-threaded *)
(* and the driver calls it sequentially.                                   *)
(*                                                                         *)
(* The driver keeps req: for every payload pointer it holds, the byte      *)
(* count it asked for (0 when it holds no such pointer).  Payload bytes    *)
(* written by the driver are not modelled: the allocator never reads them *)
(* except through the debug checker (module MMCheckheap).                 *)
(***************************************************************************)
EXTENDS Integers, FiniteSets

CONSTANTS
  Width,      \* bits of size_t; sizes and requests are taken modulo 2^Width
  HeapBase,   \* mem_heap_lo(): the first address memlib hands out
  MaxHeap,    \* memlib's MAX_HEAP: bytes mem_sbrk can hand out in total
  ChunkSize,  \* chunksize: the least amount malloc extends the heap by
  ScanLimit,  \* the 20 of find_fit: further blocks scanned after a first fit
  Requests,   \* byte counts the driver passes to malloc and realloc
  CallocArgs  \* <<elements, size>> pairs the driver passes to calloc

SizeMod == 2 ^ Width

ASSUME WidthAssumption == Width \in Nat /\ Width >= 8
\* 2^Width is a positive natural: a consequence of WidthAssumption that the
\* provers cannot derive (they do not evaluate ^), stated for them and
\* evaluated by TLC.
ASSUME SizeModAssumption == SizeMod \in Nat \ {0}
\* Likewise: 2^Width, Width >= 8, is a multiple of 16 of at least 256.
ASSUME SizeModAlignedAssumption == SizeMod % 16 = 0 /\ SizeMod >= 256
ASSUME HeapAssumption ==
  /\ HeapBase \in Nat \ {0} /\ HeapBase % 16 = 0
  /\ MaxHeap \in Nat /\ MaxHeap % 16 = 0
  /\ HeapBase + MaxHeap < SizeMod
ASSUME ChunkAssumption == ChunkSize \in Nat \ {0} /\ ChunkSize % 16 = 0
ASSUME ScanAssumption == ScanLimit \in Nat
ASSUME RequestAssumption ==
  /\ Requests \subseteq 0 .. SizeMod - 1
  /\ CallocArgs \subseteq (0 .. SizeMod - 1) \X (0 .. SizeMod - 1)

VARIABLES
  mem,    \* word address -> word: the contents of memlib's region
  brk,    \* memlib's break: mem_heap_hi() + 1
  start,  \* heap_start
  seg,    \* segment_list: class index -> head of a doubly-linked free list
  mini,   \* mini_list_start: head of the singly-linked list of 16-byte blocks
  req     \* driver: payload pointer -> bytes requested (0: not held)

vars == <<mem, brk, start, seg, mini, req>>

-----------------------------------------------------------------------------
(* Constants of mm.c (lines 112-160).                                      *)

NULL == 0
WSize == 8
DSize == 16
MinBlockSize == 16
SegListLen == 10
SegIdx == 0 .. SegListLen - 1
\* FIRST_GROUP_SIZE .. NINTH_GROUP_SIZE: GroupSize[i + 1] bounds class i
GroupSize == <<16, 32, 64, 128, 256, 512, 1024, 2048, 4096>>

\* The word addresses of memlib's region.
Addrs == {a \in HeapBase .. HeapBase + MaxHeap - 1 : a % WSize = 0}

\* A word read.  Every address the allocator reads in a well-formed heap is
\* in the region; a read outside it (a fault in C) yields NULL, and the
\* invariants of this module rule out the states in which that can happen.
Load(m, a) == IF a \in DOMAIN m THEN m[a] ELSE NULL
Store(m, a, v) == [m EXCEPT ![a] = v]

\* The least element of a non-empty set of integers.
Least(S) == CHOOSE k \in S : \A j \in S : k <= j

-----------------------------------------------------------------------------
(* Header codec: pack and the extract_* / get_* accessors.  The size      *)
(* passed to pack always has its low four bits clear, so OR-ing in the     *)
(* status bits is adding them.                                             *)

Bit(b) == IF b THEN 1 ELSE 0
Pack(size, alloc, prevAlloc, prevMini) ==
  size + Bit(alloc) + 2 * Bit(prevAlloc) + 4 * Bit(prevMini)
ExtractSize(w) == w - (w % 16)
ExtractAlloc(w) == w % 2 = 1
ExtractPrevAlloc(w) == (w \div 2) % 2 = 1
ExtractPrevMini(w) == (w \div 4) % 2 = 1

GetSize(m, b) == ExtractSize(Load(m, b))
GetAlloc(m, b) == ExtractAlloc(Load(m, b))
GetPrevAlloc(m, b) == ExtractPrevAlloc(Load(m, b))
GetPrevMini(m, b) == ExtractPrevMini(Load(m, b))

\* round_up on size_t: the additions wrap at 2^Width.
RoundUp(size, n) == (n * (((size + (n - 1)) % SizeMod) \div n)) % SizeMod
max(x, y) == IF x > y THEN x ELSE y

-----------------------------------------------------------------------------
(* Heap walker and block writers.                                          *)

HeaderToFooter(m, b) == b + WSize + GetSize(m, b) - DSize
FindNext(m, b) == b + GetSize(m, b)
\* find_prev: read the word before b as a footer; footer_to_header.
FindPrev(m, b) ==
  LET footer == b - WSize
      size == ExtractSize(Load(m, footer))
  IN IF size = 0 THEN footer ELSE footer + WSize - size
NextFree(m, b) == Load(m, b + WSize)
PrevFree(m, b) == Load(m, b + DSize)

WriteEpilogue(m, b, isPrevMini) == Store(m, b, Pack(0, TRUE, FALSE, isPrevMini))

\* Mutant of SetNextPrevBits: the next block's footer slot is rewritten too,
\* without the is_next_alloc test the comments of step 2 describe.
SetNextPrevBitsFooterAlways(m, b, alloc, isMini) ==
  LET nb == FindNext(m, b)
      nw == Load(m, nb)
      m1 == Store(m, nb, Pack(ExtractSize(nw), ExtractAlloc(nw), alloc, isMini))
  IN Store(m1, HeaderToFooter(m1, nb), Pack(ExtractSize(nw), ExtractAlloc(nw), alloc, isMini))

\* Step 2 of write_block and write_miniblock: rewrite the next block's
\* header with its own size and alloc bit and the given prev bits.
SetNextPrevBits(m, b, alloc, isMini) ==
  LET nb == FindNext(m, b)
      nw == Load(m, nb)
  IN Store(m, nb, Pack(ExtractSize(nw), ExtractAlloc(nw), alloc, isMini))

WriteMiniblock(m, b, size, alloc, prevAlloc, prevMini) ==
  SetNextPrevBits(Store(m, b, Pack(size, alloc, prevAlloc, prevMini)), b, alloc, TRUE)

\* Mutant of WriteBlock: a non-mini block is written without step 2, so
\* the next block's prev_alloc and prev_mini bits go stale.
WriteBlockNoNext(m, b, size, alloc, prevAlloc, prevMini) ==
  IF size = MinBlockSize
  THEN WriteMiniblock(m, b, size, alloc, prevAlloc, prevMini)
  ELSE LET m1 == Store(m, b, Pack(size, alloc, prevAlloc, prevMini))
       IN IF alloc THEN m1
          ELSE Store(m1, HeaderToFooter(m1, b), Pack(size, alloc, prevAlloc, prevMini))

WriteBlock(m, b, size, alloc, prevAlloc, prevMini) ==
  IF size = MinBlockSize
  THEN WriteMiniblock(m, b, size, alloc, prevAlloc, prevMini)
  ELSE LET m1 == Store(m, b, Pack(size, alloc, prevAlloc, prevMini))
           m2 == IF alloc THEN m1
                 ELSE Store(m1, HeaderToFooter(m1, b), Pack(size, alloc, prevAlloc, prevMini))
       IN SetNextPrevBits(m2, b, alloc, FALSE)

-----------------------------------------------------------------------------
(* Free lists.                                                             *)

\* determine_seg_index: the first class whose bound is >= size, else 9.
\* The bounds increase, so that class is the number of bounds below size.
SegIndex(size) == Cardinality({i \in 1 .. 9 : GroupSize[i] < size})

\* No list holds more nodes than the region has 16-byte blocks.
MaxChain == MaxHeap \div MinBlockSize

\* The nodes met by following next_free from head: Chain(m, head)[k] is the
\* k-th node, NULL once the walk has reached the end.
Chain(m, head) ==
  LET f[k \in Nat] == IF k = 0 THEN head
                      ELSE IF f[k - 1] = NULL THEN NULL
                      ELSE NextFree(m, f[k - 1])
  IN [k \in 0 .. MaxChain |-> f[k]]

AddToMiniFreeList(s, b) ==
  [s EXCEPT !.mem = Store(@, b + WSize, s.mini), !.mini = b]

AddToFreeList(s, b) ==
  LET size == GetSize(s.mem, b)
      i == SegIndex(size)
      head == s.seg[i]
  IN IF size = MinBlockSize THEN AddToMiniFreeList(s, b)
     ELSE IF head = NULL
     THEN [s EXCEPT !.seg[i] = b,
                    !.mem = Store(Store(@, b + DSize, NULL), b + WSize, NULL)]
     ELSE [s EXCEPT !.mem = Store(Store(Store(@, b + WSize, head), head + DSize, b),
                                  b + DSize, NULL),
                    !.seg[i] = b]

\* Linear search for b; unlink it from its predecessor or from the head.
RemoveFromMiniFreeList(s, b) ==
  LET f == Chain(s.mem, s.mini)
      hits == {k \in 0 .. MaxChain : f[k] = b}
      k == Least(hits)
      nxt == NextFree(s.mem, b)
  IN IF hits = {} THEN s
     ELSE IF k = 0 THEN [s EXCEPT !.mini = nxt]
     ELSE [s EXCEPT !.mem = Store(@, f[k - 1] + WSize, nxt)]

\* Mutant of RemoveFromFreeList: the successor's prev_free is not updated.
RemoveFromFreeListNoBackLink(s, b) ==
  LET size == GetSize(s.mem, b)
      i == SegIndex(size)
      nxt == NextFree(s.mem, b)
      prv == PrevFree(s.mem, b)
      m1 == IF prv # NULL THEN Store(s.mem, prv + WSize, nxt) ELSE s.mem
  IN IF size = MinBlockSize THEN RemoveFromMiniFreeList(s, b)
     ELSE [s EXCEPT !.mem = Store(Store(m1, b + WSize, NULL), b + DSize, NULL),
                    !.seg = IF prv = NULL THEN [@ EXCEPT ![i] = nxt] ELSE @]

RemoveFromFreeList(s, b) ==
  LET size == GetSize(s.mem, b)
      i == SegIndex(size)
      nxt == NextFree(s.mem, b)
      prv == PrevFree(s.mem, b)
      m1 == IF prv # NULL THEN Store(s.mem, prv + WSize, nxt) ELSE s.mem
      m2 == IF nxt # NULL THEN Store(m1, nxt + DSize, prv) ELSE m1
  IN IF size = MinBlockSize THEN RemoveFromMiniFreeList(s, b)
     ELSE [s EXCEPT !.mem = Store(Store(m2, b + WSize, NULL), b + DSize, NULL),
                    !.seg = IF prv = NULL THEN [@ EXCEPT ![i] = nxt] ELSE @]

-----------------------------------------------------------------------------
(* Coalescing.                                                             *)

\* The block before b: 16 bytes back when it is a mini block, else located
\* through its footer.
PrevBlock(m, b) == IF GetPrevMini(m, b) THEN b - MinBlockSize ELSE FindPrev(m, b)

\* The block coalesce_block returns (and pushes on a free list).
CoalesceResult(s, b) ==
  IF GetPrevAlloc(s.mem, b) THEN b ELSE PrevBlock(s.mem, b)

\* The merges of coalesce_block's three free cases, each on the state s1 its
\* remove_from_free_list calls left: write_block of the merged block, its
\* size summed from the headers in s1.
MergeNext(s1, b, nb, prevMini) ==
  [s1 EXCEPT !.mem = WriteBlock(s1.mem, b, GetSize(s1.mem, b) + GetSize(s1.mem, nb),
                                FALSE, TRUE, prevMini)]
MergePrev(s1, pb, b) ==
  [s1 EXCEPT !.mem = WriteBlock(s1.mem, pb, GetSize(s1.mem, pb) + GetSize(s1.mem, b),
                                FALSE, GetPrevAlloc(s1.mem, pb), GetPrevMini(s1.mem, pb))]
MergeBoth(s1, pb, b, nb) ==
  [s1 EXCEPT !.mem = WriteBlock(s1.mem, pb,
                                GetSize(s1.mem, pb) + GetSize(s1.mem, b) + GetSize(s1.mem, nb),
                                FALSE, GetPrevAlloc(s1.mem, pb), GetPrevMini(s1.mem, pb))]

CoalesceBlock(s, b) ==
  LET nb == FindNext(s.mem, b)
      nextFree == ~GetAlloc(s.mem, nb)
      prevFree == ~GetPrevAlloc(s.mem, b)
      pb == PrevBlock(s.mem, b)
      merged ==
        CASE ~prevFree /\ ~nextFree -> s
          [] ~prevFree /\ nextFree ->
               MergeNext(RemoveFromFreeList(s, nb), b, nb, GetPrevMini(s.mem, b))
          [] prevFree /\ ~nextFree -> MergePrev(RemoveFromFreeList(s, pb), pb, b)
          [] prevFree /\ nextFree ->
               MergeBoth(RemoveFromFreeList(RemoveFromFreeList(s, pb), nb), pb, b, nb)
      r == CoalesceResult(s, b)
  IN [st |-> AddToFreeList(merged, r), ret |-> r]

-----------------------------------------------------------------------------
(* Heap extension, splitting, fit finding.                                 *)

\* mem_sbrk(incr) fails when the region cannot grow by incr bytes.
\* Mutant of SbrkFails: a provider that never refuses.
SbrkNeverFails(s, incr) == FALSE

SbrkFails(s, incr) == s.brk + incr > HeapBase + MaxHeap

\* extend_heap up to the coalesce: the new block starts on the old epilogue.
ExtendWrite(s, size) ==
  LET sz == RoundUp(size, DSize)
      b == s.brk - WSize
      m1 == WriteBlock(s.mem, b, sz, FALSE, GetPrevAlloc(s.mem, b), GetPrevMini(s.mem, b))
      m2 == WriteEpilogue(m1, FindNext(m1, b), GetSize(m1, b) = MinBlockSize)
  IN [s EXCEPT !.mem = m2, !.brk = @ + sz]

ExtendHeap(s, size) ==
  IF SbrkFails(s, RoundUp(size, DSize))
  THEN [st |-> s, ret |-> NULL]
  ELSE CoalesceBlock(ExtendWrite(s, size), s.brk - WSize)

SplitBlock(s, b, asize) ==
  LET blockSize == GetSize(s.mem, b)
      rest == (blockSize - asize) % SizeMod
      m1 == WriteBlock(s.mem, b, asize, TRUE, GetPrevAlloc(s.mem, b), GetPrevMini(s.mem, b))
      nb == FindNext(m1, b)
      m2 == WriteBlock(m1, nb, rest, FALSE, TRUE, GetSize(m1, b) = MinBlockSize)
  IN IF rest >= MinBlockSize THEN AddToFreeList([s EXCEPT !.mem = m2], nb) ELSE s

\* split_block's debug assertions after a split (dbg_assert, compiled in
\* the debug build only): a 16-byte remainder heads the mini list, and the
\* epilogue (mem_heap_hi() - 7) has its prev_mini bit set.
SplitAsserts(s, b, asize) ==
  LET post == SplitBlock(s, b, asize)
      nb == FindNext(post.mem, b)
  IN (GetSize(s.mem, b) - asize) % SizeMod >= MinBlockSize
       /\ GetSize(post.mem, nb) = MinBlockSize
       => /\ post.mini = nb
          /\ GetPrevMini(post.mem, post.brk - WSize)

\* A node the list walk yields, as a block pointer: a node outside the
\* region (a fault in C) is no block.
AsBlock(a) == IF a \in Addrs THEN a ELSE NULL

\* Mutant of FitInList: the window ends one block early (the block with
\* counter = 20 is not compared).
FitInListShortWindow(m, f, asize) ==
  LET nodes == {k \in 0 .. MaxChain : \A j \in 0 .. k : f[j] # NULL}
      fits == {k \in nodes : GetSize(m, f[k]) >= asize}
      window == {k \in fits : k < Least(fits) + ScanLimit}
      best == CHOOSE k \in window :
                \A j \in window : \/ GetSize(m, f[k]) < GetSize(m, f[j])
                                  \/ GetSize(m, f[k]) = GetSize(m, f[j]) /\ k <= j
  IN IF fits = {} THEN NULL ELSE AsBlock(f[best])

\* The block find_fit picks in the list whose nodes f gives (a value of
\* Chain): the first node of size >= asize
\* (the anchor), then among it and the ScanLimit nodes after it the fitting
\* one of least size, the first one on ties.
FitInList(m, f, asize) ==
  LET nodes == {k \in 0 .. MaxChain : \A j \in 0 .. k : f[j] # NULL}
      fits == {k \in nodes : GetSize(m, f[k]) >= asize}
      anchor == Least(fits)
      window == {k \in fits : k <= anchor + ScanLimit}
      best == CHOOSE k \in window :
                \A j \in window : \/ GetSize(m, f[k]) < GetSize(m, f[j])
                                  \/ GetSize(m, f[k]) = GetSize(m, f[j]) /\ k <= j
  IN IF fits = {} THEN NULL ELSE AsBlock(f[best])

\* Mutant of FindFit: the scan of the segregated lists starts one class
\* above the request's own.
FindFitAboveClass(s, asize) ==
  LET hits == {i \in SegIndex(asize) + 1 .. SegListLen - 1 :
                 FitInList(s.mem, Chain(s.mem, s.seg[i]), asize) # NULL}
  IN IF asize = MinBlockSize /\ s.mini # NULL THEN s.mini
     ELSE IF hits = {} THEN NULL
     ELSE FitInList(s.mem, Chain(s.mem, s.seg[Least(hits)]), asize)

\* Mutant of FindFit: the mini list's head is returned for any request.
FindFitAnyMini(s, asize) ==
  LET hits == {i \in SegIndex(asize) .. SegListLen - 1 :
                 FitInList(s.mem, Chain(s.mem, s.seg[i]), asize) # NULL}
  IN IF s.mini # NULL THEN s.mini
     ELSE IF hits = {} THEN NULL
     ELSE FitInList(s.mem, Chain(s.mem, s.seg[Least(hits)]), asize)

FindFit(s, asize) ==
  LET hits == {i \in SegIndex(asize) .. SegListLen - 1 :
                 FitInList(s.mem, Chain(s.mem, s.seg[i]), asize) # NULL}
  IN IF asize = MinBlockSize /\ s.mini # NULL THEN s.mini
     ELSE IF hits = {} THEN NULL
     ELSE FitInList(s.mem, Chain(s.mem, s.seg[Least(hits)]), asize)

-----------------------------------------------------------------------------
(* The public operations, as functions of the allocator state.             *)

MmInit(s) ==
  LET base == s.brk
      s1 == [s EXCEPT !.seg = [i \in SegIdx |-> NULL], !.mini = NULL,
                      !.mem = Store(Store(@, base, Pack(0, TRUE, FALSE, FALSE)),
                                    base + WSize, Pack(0, TRUE, TRUE, FALSE)),
                      !.start = base + WSize, !.brk = @ + 2 * WSize]
      ext == ExtendHeap(s1, ChunkSize)
  IN IF SbrkFails(s, 2 * WSize) THEN [st |-> s, ret |-> FALSE]
     ELSE [st |-> ext.st, ret |-> ext.ret # NULL]

\* find_fit, and extend_heap by at least a chunk when it finds nothing.
FitOrExtend(s, asize, fit) ==
  IF fit # NULL THEN [st |-> s, ret |-> fit] ELSE ExtendHeap(s, max(asize, ChunkSize))

\* The block found (or extend_heap's failure): mark it allocated, unlink it,
\* split it.
PlaceUnlinked(got) ==
  LET b == got.ret
      m1 == WriteBlock(got.st.mem, b, GetSize(got.st.mem, b), TRUE,
                       GetPrevAlloc(got.st.mem, b), GetPrevMini(got.st.mem, b))
  IN RemoveFromFreeList([got.st EXCEPT !.mem = m1], b)

PlaceBlock(got, asize) ==
  IF got.ret = NULL THEN [st |-> got.st, ret |-> NULL]
  ELSE [st |-> SplitBlock(PlaceUnlinked(got), got.ret, asize), ret |-> got.ret + WSize]

\* malloc's adjusted block size: round_up(size + wsize, dsize) on size_t.
AdjustedSize(size) == RoundUp((size + WSize) % SizeMod, DSize)

\* malloc from init, the outcome of its lazy mm_init.
MallocFrom(init, size) ==
  LET asize == AdjustedSize(size)
  IN CASE ~init.ret -> [st |-> init.st, ret |-> NULL]
       [] size = 0 -> [st |-> init.st, ret |-> NULL]
       [] OTHER -> PlaceBlock(FitOrExtend(init.st, asize, FindFit(init.st, asize)), asize)

MallocOp(s0, size) ==
  MallocFrom(IF s0.start = NULL THEN MmInit(s0) ELSE [st |-> s0, ret |-> TRUE], size)

\* Mutant of FreeOp: the freed block is pushed on its list uncoalesced.
FreeOpNoCoalesce(s, bp) ==
  LET b == bp - WSize
      m1 == WriteBlock(s.mem, b, GetSize(s.mem, b), FALSE,
                       GetPrevAlloc(s.mem, b), GetPrevMini(s.mem, b))
  IN IF bp = NULL THEN s ELSE AddToFreeList([s EXCEPT !.mem = m1], b)

FreeOp(s, bp) ==
  LET b == bp - WSize
      m1 == WriteBlock(s.mem, b, GetSize(s.mem, b), FALSE,
                       GetPrevAlloc(s.mem, b), GetPrevMini(s.mem, b))
  IN IF bp = NULL THEN s ELSE CoalesceBlock([s EXCEPT !.mem = m1], b).st

\* Mutant of ReallocMove: the old block is freed even when malloc fails.
ReallocMoveFreeOnFail(r, ptr) == [st |-> FreeOp(r.st, ptr), ret |-> r.ret]

\* realloc's tail, from r, the outcome of its malloc: the old block is freed
\* only when malloc succeeded.  memcpy is not modelled.
ReallocMove(r, ptr) ==
  IF r.ret = NULL THEN r ELSE [st |-> FreeOp(r.st, ptr), ret |-> r.ret]

\* Mutant of ReallocOp: the old block is freed before the new one is
\* allocated (so the copy reads a block the free has already reused).
ReallocFreeFirst(s, ptr, size) ==
  CASE size = 0 -> [st |-> FreeOp(s, ptr), ret |-> NULL]
    [] ptr = NULL -> MallocOp(s, size)
    [] OTHER -> MallocOp(FreeOp(s, ptr), size)

ReallocOp(s, ptr, size) ==
  CASE size = 0 -> [st |-> FreeOp(s, ptr), ret |-> NULL]
    [] ptr = NULL -> MallocOp(s, size)
    [] OTHER -> ReallocMove(MallocOp(s, size), ptr)

\* calloc: the product wraps at 2^Width; memset is not modelled.
CallocOp(s, elements, size) ==
  LET asize == (elements * size) % SizeMod
  IN IF elements = 0 \/ asize \div elements # size THEN [st |-> s, ret |-> NULL]
     ELSE MallocOp(s, asize)

-----------------------------------------------------------------------------
(* The specification.                                                      *)

State == [mem |-> mem, brk |-> brk, start |-> start, seg |-> seg, mini |-> mini]

SetState(s) ==
  /\ mem' = s.mem /\ brk' = s.brk /\ start' = s.start
  /\ seg' = s.seg /\ mini' = s.mini

\* Before mm_init: memlib's break at the region's base, globals zeroed.
\* Untouched words read as 0 (the first words written over them are never
\* read before they are written).
Init ==
  /\ mem = [a \in Addrs |-> 0]
  /\ brk = HeapBase
  /\ start = NULL
  /\ seg = [i \in SegIdx |-> NULL]
  /\ mini = NULL
  /\ req = [a \in Addrs |-> 0]

\* The driver calls mm_init once, before any other call.
MmInitAction ==
  /\ start = NULL
  /\ SetState(MmInit(State).st)
  /\ UNCHANGED req

Held == {p \in Addrs : req[p] > 0}

\* Install r, the outcome of a call that allocates n bytes; the driver
\* records the pointer it gets back.
MallocDone(r, n) ==
  /\ SetState(r.st)
  /\ req' = IF r.ret = NULL THEN req ELSE [req EXCEPT ![r.ret] = n]

Malloc(n) == MallocDone(MallocOp(State, n), n)

Free(p) ==
  /\ SetState(FreeOp(State, p))
  /\ req' = [req EXCEPT ![p] = 0]

\* Install r, the outcome of realloc(p, n): the driver drops p when it was
\* freed and records the new pointer.
ReallocDone(r, p, n) ==
  /\ SetState(r.st)
  /\ req' = CASE n = 0 -> [req EXCEPT ![p] = 0]
              [] r.ret = NULL -> req
              [] OTHER -> [[req EXCEPT ![p] = 0] EXCEPT ![r.ret] = n]

Realloc(p, n) == ReallocDone(ReallocOp(State, p, n), p, n)

Calloc(k, n) == MallocDone(CallocOp(State, k, n), (k * n) % SizeMod)

Next ==
  \/ MmInitAction
  \/ \E n \in Requests : Malloc(n)
  \/ \E p \in Held : Free(p)
  \/ \E p \in Held \cup {NULL}, n \in Requests : Realloc(p, n)
  \/ \E a \in CallocArgs : Calloc(a[1], a[2])

Spec == Init /\ [][Next]_vars

-----------------------------------------------------------------------------
(* Properties.                                                             *)

\* Every variable holds a value of its kind, and memlib's break never
\* leaves the region: mm_init and extend_heap grow it only through
\* mem_sbrk, which refuses to pass MAX_HEAP.
TypeOK ==
  /\ mem \in [Addrs -> Int]
  /\ brk \in HeapBase .. HeapBase + MaxHeap
  /\ start \in Int
  /\ seg \in [SegIdx -> Int]
  /\ mini \in Int
  /\ req \in [Addrs -> 0 .. SizeMod - 1]

MaxBlocks == MaxHeap \div MinBlockSize

\* The implicit list: HeapWalk(m, first)[k] is the k-th block from first,
\* found by adding header sizes (find_next); it stays on the first word of
\* size 0 it meets, where find_next adds nothing.  f[<<b, k>>] is the block
\* k steps after b.
HeapWalk(m, first) ==
  LET f[x \in Int \X Nat] == IF x[2] = 0 THEN x[1] ELSE f[<<FindNext(m, x[1]), x[2] - 1>>]
  IN [k \in 0 .. MaxBlocks |-> f[<<first, k>>]]
\* The blocks of a walk w, the epilogue excluded.
WalkBlocks(w, epi) == {w[k] : k \in 0 .. MaxBlocks} \ {epi}
Epilogue == brk - WSize
Initialized == start # NULL

\* Spec invariants 1-5 (what mm_checkheap's valid_prologue, valid_epilogue
\* and valid_blocks look for, and what coalesce_block relies on when it
\* reads boundary tags): the walk from heap_start ends exactly on the
\* epilogue word below memlib's break; every block is a multiple of 16 of at
\* least 16 bytes with a 16-aligned payload; the prev_alloc and prev_mini
\* bits of every block and of the epilogue describe the block before it
\* (the prologue for the first); every free block of 32 bytes or more ends
\* in a footer equal to its header.  extend_heap, write_block's step 2 and
\* write_epilogue maintain the tags across malloc, free and coalescing.
HeapConsistent ==
  Initialized =>
    LET w == HeapWalk(mem, start)
        blocks == WalkBlocks(w, Epilogue)
    IN /\ Load(mem, start - WSize) = Pack(0, TRUE, FALSE, FALSE)
       /\ \E k \in 0 .. MaxBlocks : w[k] = Epilogue
       /\ GetSize(mem, Epilogue) = 0 /\ GetAlloc(mem, Epilogue)
       /\ \A b \in blocks :
            /\ GetSize(mem, b) % 16 = 0 /\ GetSize(mem, b) >= MinBlockSize
            /\ (b + WSize) % 16 = 0
            /\ ~GetAlloc(mem, b) /\ GetSize(mem, b) > MinBlockSize =>
                 Load(mem, b + GetSize(mem, b) - WSize) = Load(mem, b)
       /\ GetPrevAlloc(mem, start) /\ ~GetPrevMini(mem, start)
       /\ \A k \in 1 .. MaxBlocks :
            w[k - 1] # Epilogue =>
              /\ GetPrevAlloc(mem, w[k]) = GetAlloc(mem, w[k - 1])
              /\ GetPrevMini(mem, w[k]) = (GetSize(mem, w[k - 1]) = MinBlockSize)

\* Spec invariant 6: no two neighbouring blocks are both free, whatever
\* sequence of frees, reallocs and heap extensions led here (coalesce_block
\* merges each newly freed or newly added block with free neighbours).
Coalesced ==
  Initialized =>
    LET w == HeapWalk(mem, start)
    IN \A k \in 1 .. MaxBlocks :
         w[k - 1] # Epilogue /\ w[k] # Epilogue =>
           GetAlloc(mem, w[k - 1]) \/ GetAlloc(mem, w[k])

\* The nodes of a chain c (a value of Chain), and whether it ends in NULL
\* without meeting a node twice.
ChainNodes(c) == {c[k] : k \in {j \in 0 .. MaxChain : \A i \in 0 .. j : c[i] # NULL}}
ChainAcyclic(c) ==
  /\ \E k \in 0 .. MaxChain : c[k] = NULL
  /\ \A j, k \in 0 .. MaxChain : j < k /\ c[k] # NULL => c[j] # c[k]

\* Spec invariants 7-11: every free block is on exactly one free list, the
\* one of its size class (mini blocks on the mini list), and nothing else
\* is; every list ends in NULL without repeating a node; the segregated
\* lists are doubly linked (head's prev is NULL, a node's next points back).
\* Frees, coalescing (which unlinks neighbours), splitting (which pushes the
\* remainder) and malloc's unlink of the chosen block all edit these lists.
FreeListsExact ==
  Initialized =>
    LET free == {b \in WalkBlocks(HeapWalk(mem, start), Epilogue) : ~GetAlloc(mem, b)}
        miniChain == Chain(mem, mini)
    IN /\ ChainAcyclic(miniChain)
       /\ ChainNodes(miniChain) = {b \in free : GetSize(mem, b) = MinBlockSize}
       /\ \A i \in SegIdx :
            LET c == Chain(mem, seg[i])
                nodes == ChainNodes(c)
            IN /\ ChainAcyclic(c)
               /\ nodes = {b \in free : GetSize(mem, b) # MinBlockSize
                                        /\ SegIndex(GetSize(mem, b)) = i}
               /\ seg[i] # NULL => PrevFree(mem, seg[i]) = NULL
               /\ \A a \in nodes :
                    NextFree(mem, a) # NULL => PrevFree(mem, NextFree(mem, a)) = a

\* What the driver holds is what the heap has allocated: every pointer it
\* holds is the payload of an allocated block with room for the bytes it
\* asked for, and every allocated block is one it holds.  A block freed
\* behind the driver's back, one free left marked allocated, or one too
\* small breaks this.  (A block handed out again while held overwrites
\* req at the same pointer, so it is MallocContract that catches that.)
AllocationsSound ==
  Initialized =>
    LET blocks == WalkBlocks(HeapWalk(mem, start), Epilogue)
    IN /\ \A p \in Held :
            /\ p - WSize \in blocks /\ GetAlloc(mem, p - WSize)
            /\ GetSize(mem, p - WSize) - WSize >= req[p]
       /\ \A b \in blocks : GetAlloc(mem, b) => req[b + WSize] > 0

\* What malloc's outcome r owes a request of n bytes.
MallocMeets(r, n) ==
  r.ret # NULL =>
    /\ r.ret % 16 = 0
    /\ r.ret \notin Held
    /\ GetAlloc(r.st.mem, r.ret - WSize)
    /\ GetSize(r.st.mem, r.ret - WSize) - WSize >= n

\* The contract of malloc (spec section 8), for every request from every
\* reachable state: a non-NULL result is 16-byte aligned, is not a pointer
\* the driver already holds, and is the payload of an allocated block of at
\* least the requested size.
MallocContract == \A n \in Requests : MallocMeets(MallocOp(State, n), n)

\* The adjusted sizes a block of the region can have: the sizes malloc's
\* round_up(size + wsize, dsize) passes to find_fit that some block could
\* meet.
FitSizes == {DSize * k : k \in 1 .. MaxHeap \div DSize}

\* What find_fit owes malloc on a heap whose free blocks are free: its
\* answer fit is NULL exactly when no free block has asize bytes, and
\* otherwise is a free block with at least asize bytes.
FitMeets(fit, free, asize) ==
  /\ fit = NULL <=> \A b \in free : GetSize(mem, b) < asize
  /\ fit # NULL => fit \in free /\ GetSize(mem, fit) >= asize

\* find_fit is a correct search of the free lists (spec section 5): it
\* finds a block whenever the heap has a free block large enough, so that
\* malloc calls extend_heap (and fails once the region is spent) only when
\* none fits, and the block it picks is free and large enough.  It relies
\* on determine_seg_index being monotone, on the scan starting at the
\* request's own class and on every free block being on the list of its
\* class, which frees, coalescing and splitting must keep.
FitCorrect ==
  Initialized =>
    \A asize \in FitSizes :
      FitMeets(FindFit(State, asize),
               {b \in WalkBlocks(HeapWalk(mem, start), Epilogue) : ~GetAlloc(mem, b)},
               asize)

\* The words of the payload at p, from p to the end of its block.
Payload(m, p) == {a \in Addrs : p <= a /\ a < p - WSize + GetSize(m, p - WSize)}

\* No call writes into a payload the driver holds before and after it: the
\* allocator's words (headers, footers, list links, the epilogue) of every
\* step, malloc's split, free's coalescing with both neighbours and
\* write_block's update of the next block's header, stay outside the
\* bytes the program owns.
PayloadUntouched ==
  [][\A p \in Held \cap Held' : \A a \in Payload(mem, p) : mem'[a] = mem[a]]_vars

\* split_block's assertion (mm.c:922-926) holds in every malloc the driver
\* can make next: whenever place_block splits off a 16-byte remainder, the
\* remainder heads the mini list and the epilogue's prev_mini bit is set,
\* i.e. the code assumes a mini remainder always lies at the heap's end.
SplitAssertHolds ==
  \A n \in Requests \ {0} :
    LET init == IF start = NULL THEN MmInit(State) ELSE [st |-> State, ret |-> TRUE]
        asize == AdjustedSize(n)
        got == FitOrExtend(init.st, asize, FindFit(init.st, asize))
    IN init.ret /\ got.ret # NULL => SplitAsserts(PlaceUnlinked(got), got.ret, asize)

-----------------------------------------------------------------------------
(* Refinement: the heap implements the contract of module MMAlloc.        *)

\* The allocations of the heap: every allocated block of the walk from
\* heap_start, as its payload pointer and its size less the header word.
AllocationsOf(m, blocks) ==
  {<<b + WSize, GetSize(m, b) - WSize>> : b \in {b \in blocks : GetAlloc(m, b)}}
Allocations ==
  IF Initialized THEN AllocationsOf(mem, WalkBlocks(HeapWalk(mem, start), Epilogue))
  ELSE {}

\* The positive byte counts an allocating call records: malloc's and
\* realloc's requests and calloc's products.
AllocBytes ==
  {n \in Requests \cup {(a[1] * a[2]) % SizeMod : a \in CallocArgs} : n > 0}

Contract == INSTANCE MMAlloc
  WITH live <- Allocations, held <- req, Words <- Addrs,
       Limit <- HeapBase + MaxHeap, Align <- DSize, Bytes <- AllocBytes,
       Usable <- {16 * k - WSize : k \in 1 .. MaxHeap \div 16}

\* Every call of the heap is a step of the contract: malloc and calloc
\* hand out a fresh 16-aligned payload, large enough and clear of every
\* allocated block; free gives back exactly the block it is passed;
\* realloc allocates its new block before it frees the old one, so the
\* two never overlap; and no call changes the usable size of a block the
\* driver keeps (no split, merge or extension reaches into one).
ContractRefined == Contract!Spec

=============================================================================
