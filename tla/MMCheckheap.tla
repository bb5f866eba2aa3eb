---------------------------- MODULE MMCheckheap ----------------------------
(***************************************************************************)
(* mm_checkheap of src/mm.c (lines 1024-1330), the debug routine that     *)
(* dbg_requires and dbg_ensures call before and after malloc and free and *)
(* at the end of coalesce_block.  Every sub-check is a Boolean operator   *)
(* of the allocator state record of MMHeap.  The checker writes nothing, *)
(* so it adds no action: its runs evaluate it on every reachable state.   *)
(*                                                                         *)
(* A loop of the C code that would run forever, or fault, on a heap       *)
(* without an epilogue or with a cyclic list is bounded here by the       *)
(* materialised walks of MMHeap (HeapWalk, Chain); on the heaps the       *)
(* allocator reaches (HeapConsistent, FreeListsExact) the bound is never *)
(* met.                                                                    *)
(***************************************************************************)
EXTENDS MMHeap, FiniteSetsExt

\* The blocks for (block = heap_start; get_size(block) > 0; ...) visits.
CheckedBlocks(s) ==
  LET w == HeapWalk(s.mem, s.start)
  IN {w[k] : k \in {j \in 0 .. MaxBlocks : \A i \in 0 .. j : GetSize(s.mem, w[i]) > 0}}

\* The nodes of segment_list[i], in for (A = start; A != NULL; A = A->next_free).
SegNodes(s, i) == ChainNodes(Chain(s.mem, s.seg[i]))

ValidPrologue(s) ==
  s.start = NULL \/ GetSize(s.mem, FindPrev(s.mem, s.start)) = 0

\* The loop condition get_size(block) >= 0 is always true: the loop ends
\* only by meeting a block of size 0.
ValidEpilogue(s) ==
  LET w == HeapWalk(s.mem, s.start)
  IN s.start = NULL \/ \E k \in 0 .. MaxBlocks : GetSize(s.mem, w[k]) = 0

ValidBlocks(s) ==
  s.start = NULL \/
  \A b \in CheckedBlocks(s) : (b + WSize) % 16 = 0 /\ GetSize(s.mem, b) >= MinBlockSize

\* For a free block, find_prev reads the word before the header as a footer
\* whether or not the block before is free and has one.
CheckCoalescing(s) ==
  s.start = NULL \/
  \A b \in CheckedBlocks(s) :
    ~GetAlloc(s.mem, b) =>
      GetAlloc(s.mem, FindPrev(s.mem, b)) /\ GetAlloc(s.mem, FindNext(s.mem, b))

NoCycles(s) ==
  \A i \in SegIdx : \A a \in SegNodes(s, i) : NextFree(s.mem, a) # a

\* consistent_pointers returns true as soon as it reaches the last node of
\* the first non-empty list: only that list is examined.
ConsistentPointers(s) ==
  LET nonEmpty == {i \in SegIdx : s.seg[i] # NULL}
      first == Least(nonEmpty)
  IN nonEmpty = {} \/
     \A a \in SegNodes(s, first) :
       /\ HeapBase <= a /\ a <= s.brk - 1
       /\ NextFree(s.mem, a) # NULL => PrevFree(s.mem, NextFree(s.mem, a)) = a

AllFree(s) ==
  \A i \in SegIdx : \A a \in SegNodes(s, i) : ~GetAlloc(s.mem, a)

\* The free blocks of the implicit list against the nodes of the ten
\* segregated lists; the mini list is not counted.
ListMatchHeap(s) ==
  LET heapCount == IF s.start = NULL THEN 0
                   ELSE Cardinality({b \in CheckedBlocks(s) : ~GetAlloc(s.mem, b)})
      listCount == MapThenSumSet(LAMBDA i : Cardinality(SegNodes(s, i)), SegIdx)
  IN heapCount = listCount

MmCheckheap(s) ==
  /\ ValidEpilogue(s)
  /\ ValidPrologue(s)
  /\ ValidBlocks(s)
  /\ CheckCoalescing(s)
  /\ NoCycles(s)
  /\ ConsistentPointers(s)
  /\ AllFree(s)
  /\ ListMatchHeap(s)

\* Spec section 4.10: the checker validates the invariants of section 3 and
\* is called before and after every public operation (malloc and free end
\* in dbg_ensures(mm_checkheap(__LINE__))).  So check_coalescing accepts
\* every heap the allocator produces, all of which satisfy Coalesced.  The
\* word it reads before a free block's header belongs, when the block
\* before is allocated, to that block's payload; the model holds there what
\* the allocator last wrote, which is what the word holds when the program
\* has not written its payload.
CoalescingCheckAccepts == CheckCoalescing(State)

\* Spec section 8, list-heap parity: the free blocks of the implicit list
\* are as many as the entries of the ten segregated lists and the mini list
\* together.  mm_checkheap's list_match_heap is meant to test exactly this,
\* so it accepts every heap the allocator produces (all satisfy
\* FreeListsExact).
ParityCheckAccepts == ListMatchHeap(State)
=============================================================================
