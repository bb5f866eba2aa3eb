---------------------------- MODULE MMStrayWrite ----------------------------
(***************************************************************************)
(* A program fault the debug checker of src/mm.c exists to catch: after   *)
(* free(p) the program keeps p and writes through it.  The first two      *)
(* payload words of a free block of 32 bytes or more are its next_free    *)
(* and prev_free links, so the write lands in a free list.  The fault is  *)
(* the last step of a behaviour: the next malloc or free begins with      *)
(* dbg_requires(mm_checkheap), which is what a run evaluates on the state *)
(* the write leaves.                                                       *)
(***************************************************************************)
EXTENDS MMCheckheap

VARIABLE strayed   \* the program has written through a freed pointer

FreeBlocks ==
  IF Initialized
  THEN {b \in WalkBlocks(HeapWalk(mem, start), Epilogue) : ~GetAlloc(mem, b)}
  ELSE {}

\* *(p + off) = v for a pointer p = b + 8 the program freed: v is a
\* free block (b itself included), NULL, or the first address past the
\* region.
StrayWrite(b, off, v) ==
  /\ ~strayed
  /\ GetSize(mem, b) > MinBlockSize
  /\ mem' = [mem EXCEPT ![b + off] = v]
  /\ strayed' = TRUE
  /\ UNCHANGED <<brk, start, seg, mini, req>>

FaultNext ==
  \/ ~strayed /\ Next /\ UNCHANGED strayed
  \/ \E b \in FreeBlocks, off \in {WSize, DSize},
        v \in FreeBlocks \cup {NULL, HeapBase + MaxHeap} : StrayWrite(b, off, v)

FaultSpec == Init /\ strayed = FALSE /\ [][FaultNext]_<<vars, strayed>>

\* Invariants 9 and 10 of the spec on every segregated list: each node lies
\* in the heap and its successor's prev_free points back to it.
LinksSound(s) ==
  \A i \in SegIdx : \A a \in SegNodes(s, i) :
    /\ HeapBase <= a /\ a <= s.brk - 1
    /\ NextFree(s.mem, a) # NULL => PrevFree(s.mem, NextFree(s.mem, a)) = a

\* The comment above consistent_pointers (and spec section 4.10: the checker
\* validates every invariant of section 3): it accepts a heap only when all
\* free-list pointers lie in the heap and all next/prev pairs agree.  The
\* loop returns true on reaching the end of the first non-empty list.
PointersCheckSound == ConsistentPointers(State) => LinksSound(State)
=============================================================================
