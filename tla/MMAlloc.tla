------------------------------- MODULE MMAlloc -------------------------------
(***************************************************************************)
(* What the allocator of src/mm.c promises its caller, with the heap left *)
(* out: the contract of malloc, free, realloc and calloc (spec section 8, *)
(* and the comments above each of them in mm.c).                           *)
(*                                                                         *)
(* live is the set of allocations, each a pair <<p, sz>> of a payload    *)
(* pointer and the number of usable bytes there; held[p] is the byte      *)
(* count the caller asked for at p (0 when it holds no such pointer).  An *)
(* allocation hands out an aligned pointer whose bytes lie in the region  *)
(* and overlap no live allocation; a free takes one back; realloc is an   *)
(* allocation and a free in one step, the new bytes overlapping neither   *)
(* the live ones nor the old block.  Failed calls, mm_init and the        *)
(* allocator's bookkeeping are steps that leave both alone.               *)
(***************************************************************************)
EXTENDS Naturals

CONSTANTS
  Words,   \* the addresses a payload pointer can take
  Limit,   \* one past the last byte of the region
  Align,   \* the alignment of every payload pointer
  Bytes,   \* the positive byte counts a caller asks for
  Usable   \* the usable sizes an allocation can have

VARIABLES live, held

avars == <<live, held>>

\* The allocations other than the one at p.
Others(p) == {a \in live : a[1] # p}

\* sz bytes at p sit inside the region and clear of every live allocation.
Fits(p, sz) ==
  /\ p % Align = 0
  /\ p + sz <= Limit
  /\ \A a \in live : p + sz <= a[1] \/ a[1] + a[2] <= p

Init ==
  /\ live = {}
  /\ held = [p \in Words |-> 0]

\* malloc, calloc and realloc(NULL, n): the caller comes to hold a pointer p
\* it did not hold, with room for the n bytes it asked for.
Alloc(p) ==
  /\ held[p] = 0
  /\ held'[p] # 0
  /\ \E n \in Bytes :
       /\ held' = [held EXCEPT ![p] = n]
       /\ \E sz \in Usable :
            /\ n <= sz
            /\ Fits(p, sz)
            /\ live' = live \cup {<<p, sz>>}

\* free(p) and realloc(p, 0).
Release(p) ==
  /\ held[p] > 0
  /\ held' = [held EXCEPT ![p] = 0]
  /\ live' = Others(p)

\* A successful realloc(p, n) that returns q: the caller gives up p and
\* comes to hold q.
Move(p, q) ==
  /\ held[p] > 0
  /\ held'[p] = 0
  /\ held'[q] # 0
  /\ \E n \in Bytes :
       /\ held' = [held EXCEPT ![p] = 0, ![q] = n]
       /\ \E sz \in Usable :
            /\ n <= sz
            /\ Fits(q, sz)
            /\ live' = Others(p) \cup {<<q, sz>>}

Next ==
  \E p \in Words :
    \/ Alloc(p)
    \/ Release(p)
    \/ \E q \in Words : Move(p, q)

Spec == Init /\ [][Next]_avars

\* The caller's view of the contract: it holds exactly the live pointers,
\* each with at least the bytes it asked for, and no two live allocations
\* share a byte (what lets the program write every payload it holds
\* without corrupting another).
Separated ==
  /\ \A p \in Words : held[p] > 0 <=> \E a \in live : a[1] = p
  /\ \A a \in live : held[a[1]] <= a[2]
  /\ \A a, b \in live : a # b => a[1] + a[2] <= b[1] \/ b[1] + b[2] <= a[1]

=============================================================================
