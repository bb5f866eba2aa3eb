------------------------------ MODULE MMFitLoops ------------------------------
(***************************************************************************)
(* The three nested loops of find_fit (src/mm.c, lines 957-1015) as the C *)
(* code runs them, iteration by iteration, beside the set-based FindFit   *)
(* of MMHeap that the heap model calls.                                    *)
(*                                                                         *)
(* Each loop is the sequence of its loop states: f[k] is the state before *)
(* iteration k, and an iteration that leaves the loop (its condition is   *)
(* false, or a return inside it) marks the state done, which later        *)
(* iterations keep.  A list that ends in NULL has at most MaxChain nodes, *)
(* so every loop over such a list has left by iteration LoopBound.        *)
(***************************************************************************)
EXTENDS MMHeap

\* Iterations enough for a loop over a list of at most MaxChain nodes to
\* have met its NULL.
LoopBound == MaxChain + 1

\* One iteration of the innermost for loop: compare_block's size replaces
\* best_fit when it is strictly smaller and still fits; the loop returns
\* once the block with counter = 20 (ScanLimit) has been compared, and
\* stops at the end of the list.
CompareStep(m, asize, x) ==
  IF x.done \/ x.cb = NULL THEN [x EXCEPT !.done = TRUE]
  ELSE LET cs == GetSize(m, x.cb)
           best2 == IF cs < GetSize(m, x.best) /\ cs >= asize THEN x.cb ELSE x.best
       IN IF x.counter = ScanLimit THEN [x EXCEPT !.best = best2, !.done = TRUE]
          ELSE [cb |-> NextFree(m, x.cb), counter |-> x.counter + 1,
                best |-> best2, done |-> FALSE]

\* The compare loop from the first fit block: counter 0, best_fit = block.
CompareStates(m, block, asize) ==
  LET f[k \in Nat] ==
        IF k = 0 THEN [cb |-> block, counter |-> 0, best |-> block, done |-> FALSE]
        ELSE CompareStep(m, asize, f[k - 1])
  IN f
CompareLoop(m, block, asize) == CompareStates(m, block, asize)[LoopBound].best

\* One iteration of the middle for loop: stay on a block that fits (the
\* loop returns there) or on NULL (the loop is over), else follow next_free.
ListStep(m, asize, b) ==
  IF b = NULL \/ GetSize(m, b) >= asize THEN b ELSE NextFree(m, b)

\* The middle loop over the list from head: the first block with
\* size >= asize starts the compare loop, whose answer is returned.
ListLoop(m, head, asize) ==
  LET f[k \in Nat] == IF k = 0 THEN head ELSE ListStep(m, asize, f[k - 1])
      first == f[LoopBound]
  IN IF first = NULL THEN NULL ELSE CompareLoop(m, first, asize)

\* The outer loop's choice at class i: return what the list gave, or go on
\* to the classes above (rest).
SegPick(r, rest) == IF r # NULL THEN r ELSE rest

\* The outer for loop, from determine_seg_index(asize) to SEG_LIST_LEN - 1;
\* g[j] is the loop's answer from class SEG_LIST_LEN - j on.
SegLoop(s, asize) ==
  LET g[j \in Nat] ==
        IF j = 0 THEN NULL
        ELSE SegPick(ListLoop(s.mem, s.seg[SegListLen - j], asize), g[j - 1])
  IN g[SegListLen - SegIndex(asize)]

\* find_fit: a request of min_block_size takes the mini list's head.
FindFitLoop(s, asize) ==
  IF asize = MinBlockSize /\ s.mini # NULL THEN s.mini
  ELSE SegLoop(s, asize)

=============================================================================
