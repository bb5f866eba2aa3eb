---------------------------- MODULE MMAllocProofs ----------------------------
(***************************************************************************)
(* Proof that the contract of MMAlloc keeps the caller's allocations      *)
(* separated, for every region, alignment and set of sizes.  Separated   *)
(* is not inductive alone: the step of an allocation needs the new pair   *)
(* to be a pointer and a positive size, so the inductive invariant adds   *)
(* the types of live and held.  With the refinement that TLC checks      *)
(* (MMHeap's ContractRefined), it says the same of the heap of mm.c.      *)
(***************************************************************************)
EXTENDS MMAlloc, TLAPS

\* What the proof needs of the constants: pointers and sizes are naturals,
\* and a request and a usable size are never 0.
ConstantsOK ==
  /\ Words \subseteq Nat
  /\ Bytes \subseteq Nat \ {0}
  /\ Usable \subseteq Nat \ {0}

TypeOK ==
  /\ live \subseteq Words \X Usable
  /\ held \in [Words -> Nat]

Inv == TypeOK /\ Separated

\* Two byte ranges that Fits keeps apart.
Apart(a, b) == a[1] + a[2] <= b[1] \/ b[1] + b[2] <= a[1]

\* In a state of Inv, no allocation sits at a pointer the caller does not
\* hold.
LEMMA NotHeldNotLive ==
  ASSUME Inv, NEW p \in Words, held[p] = 0
  PROVE  \A a \in live : a[1] # p
BY DEF Inv, TypeOK, Separated

\* An allocation that Fits places at p, in a state of Inv, is apart from
\* every live one, and p is no live pointer.
LEMMA FitsApart ==
  ASSUME ConstantsOK, Inv, NEW p \in Words, NEW sz \in Usable, Fits(p, sz)
  PROVE  /\ \A a \in live : Apart(<<p, sz>>, a) /\ a[1] # p
<1>1. SUFFICES ASSUME NEW a \in live PROVE Apart(<<p, sz>>, a) /\ a[1] # p
  OBVIOUS
<1>2. a[1] \in Nat /\ a[2] \in Nat \ {0} /\ p \in Nat /\ sz \in Nat \ {0}
  BY DEF ConstantsOK, Inv, TypeOK
<1>3. p + sz <= a[1] \/ a[1] + a[2] <= p
  BY DEF Fits
<1>. QED  BY <1>2, <1>3 DEF Apart

LEMMA InitInv == ASSUME Init PROVE Inv
BY DEF Init, Inv, TypeOK, Separated

\* malloc, calloc and realloc(NULL, n) keep the invariant.
LEMMA AllocInv ==
  ASSUME ConstantsOK, Inv, NEW p \in Words, Alloc(p)
  PROVE  Inv'
<1>1. PICK n \in Bytes, sz \in Usable :
        /\ held' = [held EXCEPT ![p] = n]
        /\ n <= sz
        /\ Fits(p, sz)
        /\ live' = live \cup {<<p, sz>>}
  BY DEF Alloc
<1>2. \A a \in live : Apart(<<p, sz>>, a) /\ a[1] # p
  BY <1>1, FitsApart
<1>3. n \in Nat \ {0} /\ sz \in Nat
  BY DEF ConstantsOK
<1>4. TypeOK'
  BY <1>1, <1>3 DEF Inv, TypeOK
<1>5. \A x \in Words : held'[x] > 0 <=> \E a \in live' : a[1] = x
  BY <1>1, <1>2, <1>3 DEF Inv, TypeOK, Separated
<1>6. \A a \in live' : held'[a[1]] <= a[2]
  BY <1>1, <1>2 DEF Inv, TypeOK, Separated
<1>7. \A a, b \in live' : a # b => Apart(a, b)
  BY <1>1, <1>2 DEF Inv, Separated, Apart
<1>. QED  BY <1>4, <1>5, <1>6, <1>7 DEF Inv, Separated, Apart

\* free(p) and realloc(p, 0) keep the invariant.
LEMMA ReleaseInv ==
  ASSUME Inv, NEW p \in Words, Release(p)
  PROVE  Inv'
BY DEF Release, Others, Inv, TypeOK, Separated

\* A successful realloc keeps the invariant: the new block is apart from
\* the old one too, so it is not at the old pointer.
LEMMA MoveInv ==
  ASSUME ConstantsOK, Inv, NEW p \in Words, NEW q \in Words, Move(p, q)
  PROVE  Inv'
<1>1. PICK n \in Bytes, sz \in Usable :
        /\ held' = [held EXCEPT ![p] = 0, ![q] = n]
        /\ n <= sz
        /\ Fits(q, sz)
        /\ live' = Others(p) \cup {<<q, sz>>}
  BY DEF Move
<1>2. \A a \in live : Apart(<<q, sz>>, a) /\ a[1] # q
  BY <1>1, FitsApart
<1>3. q # p
  <2>1. \E a \in live : a[1] = p
    BY DEF Move, Inv, Separated
  <2>. QED  BY <1>2, <2>1
<1>4. n \in Nat \ {0} /\ sz \in Nat
  BY DEF ConstantsOK
<1>5. held' = [x \in Words |-> IF x = q THEN n ELSE IF x = p THEN 0 ELSE held[x]]
  BY <1>1, <1>3 DEF Inv, TypeOK
<1>6. TypeOK'
  BY <1>1, <1>4, <1>5 DEF Inv, TypeOK, Others
<1>7. \A x \in Words : held'[x] > 0 <=> \E a \in live' : a[1] = x
  BY <1>1, <1>2, <1>3, <1>4, <1>5 DEF Inv, TypeOK, Separated, Others
<1>8. \A a \in live' : held'[a[1]] <= a[2]
  BY <1>1, <1>2, <1>3, <1>5 DEF Inv, TypeOK, Separated, Others
<1>9. \A a, b \in live' : a # b => Apart(a, b)
  BY <1>1, <1>2 DEF Inv, Separated, Apart, Others
<1>. QED  BY <1>6, <1>7, <1>8, <1>9 DEF Inv, Separated, Apart

LEMMA NextInv ==
  ASSUME ConstantsOK, Inv, [Next]_avars
  PROVE  Inv'
<1>1. CASE UNCHANGED avars
  BY <1>1 DEF avars, Inv, TypeOK, Separated
<1>2. CASE Next
  BY <1>2, AllocInv, ReleaseInv, MoveInv DEF Next
<1>. QED  BY <1>1, <1>2

\* The contract's separation (Separated): in every state of every
\* behaviour of malloc, free, realloc and calloc as MMAlloc states them,
\* the caller holds exactly the live pointers, each with room for what it
\* asked, and no two allocations share a byte.
THEOREM Separation == ConstantsOK => (Spec => []Separated)
<1>. SUFFICES ASSUME ConstantsOK PROVE Spec => []Separated
  OBVIOUS
<1>1. Init => Inv
  BY InitInv
<1>2. Inv /\ [Next]_avars => Inv'
  BY NextInv
<1>3. Inv => Separated
  BY DEF Inv
<1>. QED  BY <1>1, <1>2, <1>3, PTL DEF Spec

=============================================================================
