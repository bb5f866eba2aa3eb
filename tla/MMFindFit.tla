------------------------------ MODULE MMFindFit ------------------------------
(***************************************************************************)
(* find_fit (src/mm.c, lines 957-1015) as the C code runs it, three       *)
(* nested loops over the free lists (module MMFitLoops), against the      *)
(* set-based FindFit of MMHeap that the heap model calls.                  *)
(*                                                                         *)
(* The free lists are built by MMHeap's own add_to_free_list and          *)
(* remove_from_free_list on a few fixed slots: a block is given a header  *)
(* of some size and pushed, or unlinked again, in any order, so that the  *)
(* lists reach every order of every mix of sizes a slot count allows.     *)
(* Only the headers and link words of the slots are written; the blocks  *)
(* need not tile a heap for find_fit, which reads nothing else.           *)
(***************************************************************************)
EXTENDS Integers

CONSTANTS
  Width,       \* bits of size_t
  HeapBase,    \* the first address of the region
  MaxHeap,     \* bytes of the region: one 32-byte slot per block
  ScanLimit,   \* the 20 of find_fit
  BlockSizes   \* sizes a listed block can have, also the requests tried

VARIABLES fl   \* the allocator's state record: memory, segment_list, mini_list_start

H == INSTANCE MMFitLoops
  WITH mem <- fl.mem, brk <- fl.brk, start <- fl.start, seg <- fl.seg,
       mini <- fl.mini, req <- [a \in {} |-> 0], ChunkSize <- 16,
       Requests <- {}, CallocArgs <- {}

Slots == {HeapBase + 32 * k : k \in 0 .. MaxHeap \div 32 - 1}

\* The slots on some list: the mini list or a segregated one.
Listed ==
  UNION {H!ChainNodes(H!Chain(fl.mem, head)) : head \in {fl.mini} \cup {fl.seg[i] : i \in H!SegIdx}}

Init ==
  fl = [mem |-> [a \in H!Addrs |-> 0], brk |-> HeapBase, start |-> H!NULL,
        seg |-> [i \in H!SegIdx |-> H!NULL], mini |-> H!NULL]

\* free or coalesce_block: a block gets a free header and is pushed on the
\* list of its class.
Push(b, size) ==
  /\ b \notin Listed
  /\ fl' = H!AddToFreeList([fl EXCEPT !.mem = H!Store(@, b, H!Pack(size, FALSE, TRUE, FALSE))], b)

\* malloc or coalesce_block: a listed block is unlinked.
Pop(b) ==
  /\ b \in Listed
  /\ fl' = H!RemoveFromFreeList(fl, b)

Next ==
  \/ \E b \in Slots, size \in BlockSizes : Push(b, size)
  \/ \E b \in Slots : Pop(b)

Spec == Init /\ [][Next]_fl

-----------------------------------------------------------------------------

\* The set-based FindFit of the heap model picks the block the C loops pick,
\* for every request and every order of sizes on the lists: the first
\* fitting list, its first fit, then the least fitting size among that
\* block and the ScanLimit blocks after it, the earliest on ties.  The
\* block with counter = 20, the last the loop compares, is the edge.
FitAgrees == \A asize \in BlockSizes : H!FindFit(fl, asize) = H!FindFitLoop(fl, asize)

=============================================================================
