-------------------------- MODULE MMFitLoopsProofs --------------------------
(***************************************************************************)
(* Proof that find_fit's three C loops (MMFitLoops) return what the       *)
(* set-based FindFit of MMHeap returns, on every free list that ends in   *)
(* NULL, for every region, request and scan limit: the equivalence that   *)
(* the run find_fit_loops (FitAgrees) checks on four slots.               *)
(*                                                                         *)
(* Each loop is a sequence of loop states indexed by the iteration.  Its  *)
(* behaviour is stated as an invariant of the k-th state, proved for all  *)
(* k by induction: the induction rule SetInduction is derived from the    *)
(* well-foundedness of < on Nat, for a set rather than an operator, which *)
(* the provers instantiate.                                               *)
(***************************************************************************)
EXTENDS MMFitLoops, MMFitProofs, TLAPS

\* The list from head ends in NULL within MaxChain nodes.
ListEnds(m, h) == \E k \in 0 .. MaxChain : Chain(m, h)[k] = NULL

-----------------------------------------------------------------------------
(* Induction.                                                              *)

\* A set that holds 0 and is closed under successor holds every natural.
LEMMA SetInduction ==
  ASSUME NEW S, 0 \in S, \A k \in Nat : k \in S => k + 1 \in S
  PROVE  Nat \subseteq S
<1>. SUFFICES ASSUME Nat \ S # {} PROVE FALSE
  OBVIOUS
<1>. DEFINE x == Least(Nat \ S)
<1>1. x \in Nat \ S /\ \A j \in Nat \ S : x <= j
  BY LeastNat
<1>2. x # 0
  BY <1>1
<1>3. x - 1 \in Nat /\ x - 1 \in S
  BY <1>1, <1>2
<1>. QED  BY <1>1, <1>3

-----------------------------------------------------------------------------
(* The list walk.                                                          *)

\* Each node of the walk is the next_free of the one before, until NULL.
LEMMA ChainStep ==
  ASSUME NEW m, NEW h, NEW k \in 1 .. MaxChain
  PROVE  Chain(m, h)[k] = IF Chain(m, h)[k - 1] = NULL THEN NULL
                          ELSE NextFree(m, Chain(m, h)[k - 1])
<1>. DEFINE Def(v, n) == IF v = NULL THEN NULL ELSE NextFree(m, v)
            f == CHOOSE g : g = [i \in Nat |-> IF i = 0 THEN h ELSE Def(g[i - 1], i)]
<1>1. NatInductiveDefConclusion(f, h, Def)
  <2>1. NatInductiveDefHypothesis(f, h, Def)
    BY DEF NatInductiveDefHypothesis
  <2>. QED  BY <2>1, NatInductiveDef
<1>2. f[k] = Def(f[k - 1], k)
  <2>1. f = [i \in Nat |-> IF i = 0 THEN h ELSE Def(f[i - 1], i)]
    BY <1>1 DEF NatInductiveDefConclusion
  <2>2. k \in Nat /\ k # 0
    BY MaxChainNat
  <2>. HIDE DEF f, Def
  <2>. QED  BY <2>1, <2>2
<1>3. Chain(m, h)[k] = f[k] /\ Chain(m, h)[k - 1] = f[k - 1]
  BY MaxChainNat DEF Chain
<1>. QED  BY <1>2, <1>3

\* The length of a list that ends: the position of its first NULL.
ListLen(m, h) == Least({k \in 0 .. MaxChain : Chain(m, h)[k] = NULL})

\* A list that ends reaches exactly the positions before its first NULL.
LEMMA ListLenFacts ==
  ASSUME NEW m, NEW h, ListEnds(m, h)
  PROVE  LET c == Chain(m, h)
             L == ListLen(m, h)
         IN  /\ L \in 0 .. MaxChain
             /\ c[L] = NULL
             /\ \A j \in 0 .. L - 1 : c[j] # NULL
             /\ Reached(c) = 0 .. L - 1
<1>. DEFINE c == Chain(m, h)
            N == {k \in 0 .. MaxChain : c[k] = NULL}
            L == ListLen(m, h)
<1>1. N \in SUBSET Nat /\ N # {}
  BY MaxChainNat DEF ListEnds
<1>2. L \in N /\ \A j \in N : L <= j
  BY <1>1, LeastNat DEF ListLen
<1>3. \A j \in 0 .. L - 1 : c[j] # NULL
  BY <1>2, MaxChainNat
<1>4. Reached(c) = 0 .. L - 1
  <2>1. Reached(c) \subseteq 0 .. L - 1
    BY <1>2, MaxChainNat DEF Reached
  <2>2. 0 .. L - 1 \subseteq Reached(c)
    BY <1>2, <1>3, MaxChainNat DEF Reached
  <2>. QED  BY <2>1, <2>2
<1>. QED  BY <1>2, <1>3, <1>4

-----------------------------------------------------------------------------
(* The middle loop: the walk to the first fit.                            *)

\* The middle loop's states, as ListLoop's recursive function defines them.
ListStates(m, h, asize) ==
  CHOOSE g : g = [k \in Nat |-> IF k = 0 THEN h ELSE ListStep(m, asize, g[k - 1])]

\* ListLoop runs the compare loop from where the middle loop stops.
LEMMA ListLoopDef ==
  ASSUME NEW m, NEW h, NEW asize
  PROVE  ListLoop(m, h, asize) =
           IF ListStates(m, h, asize)[LoopBound] = NULL THEN NULL
           ELSE CompareLoop(m, ListStates(m, h, asize)[LoopBound], asize)
BY DEF ListLoop, ListStates

\* The middle loop's first state is the list's head, and each iteration is
\* one ListStep.
LEMMA ListStatesUnfold ==
  ASSUME NEW m, NEW h, NEW asize
  PROVE  /\ ListStates(m, h, asize)[0] = h
         /\ \A k \in Nat \ {0} :
              ListStates(m, h, asize)[k] = ListStep(m, asize, ListStates(m, h, asize)[k - 1])
<1>. DEFINE Def(v, n) == ListStep(m, asize, v)
            f == ListStates(m, h, asize)
<1>1. NatInductiveDefConclusion(f, h, Def)
  <2>1. NatInductiveDefHypothesis(f, h, Def)
    BY DEF NatInductiveDefHypothesis, ListStates
  <2>. QED  BY <2>1, NatInductiveDef
<1>2. f = [i \in Nat |-> IF i = 0 THEN h ELSE Def(f[i - 1], i)]
  BY <1>1 DEF NatInductiveDefConclusion
<1>. HIDE DEF f
<1>3. f[0] = h /\ \A k \in Nat \ {0} : f[k] = ListStep(m, asize, f[k - 1])
  BY <1>2
<1>. QED  BY <1>3 DEF f

\* Where the middle loop stops: the first position that is NULL or fits.
Stop(m, h, asize) ==
  Least({k \in 0 .. MaxChain : Chain(m, h)[k] = NULL \/ GetSize(m, Chain(m, h)[k]) >= asize})

\* The middle loop walks the list up to Stop and stays there.
LEMMA ListStatesWalk ==
  ASSUME NEW m, NEW h, NEW asize, ListEnds(m, h)
  PROVE  LET c == Chain(m, h)
             a == Stop(m, h, asize)
         IN  /\ a \in 0 .. MaxChain
             /\ c[a] = NULL \/ GetSize(m, c[a]) >= asize
             /\ \A j \in 0 .. a - 1 : c[j] # NULL /\ ~(GetSize(m, c[j]) >= asize)
             /\ \A k \in Nat : ListStates(m, h, asize)[k] = c[IF k <= a THEN k ELSE a]
<1>. DEFINE c == Chain(m, h)
            a == Stop(m, h, asize)
            T == {k \in 0 .. MaxChain : c[k] = NULL \/ GetSize(m, c[k]) >= asize}
            LS == ListStates(m, h, asize)
<1>1. T \in SUBSET Nat /\ T # {}
  BY MaxChainNat DEF ListEnds
<1>2. a \in T /\ \A j \in T : a <= j
  BY <1>1, LeastNat DEF Stop
<1>3. \A j \in 0 .. a - 1 : c[j] # NULL /\ ~(GetSize(m, c[j]) >= asize)
  BY <1>2, MaxChainNat
<1>. DEFINE P(k) == LS[k] = c[IF k <= a THEN k ELSE a]
            S == {k \in Nat : P(k)}
<1>4. 0 \in S
  <2>1. LS[0] = h /\ c[0] = h
    BY ListStatesUnfold, ChainHead
  <2>. QED  BY <1>2, <2>1
<1>5. ASSUME NEW k \in Nat, k \in S PROVE k + 1 \in S
  <2>1. LS[k + 1] = ListStep(m, asize, LS[k])
    BY ListStatesUnfold
  <2>2. CASE k < a
    <3>0. k \in 0 .. a - 1 /\ k <= a
      BY <1>2, <2>2, MaxChainNat
    <3>1. LS[k] = c[k] /\ c[k] # NULL /\ ~(GetSize(m, c[k]) >= asize)
      BY <1>3, <1>5, <3>0
    <3>2. ListStep(m, asize, LS[k]) = NextFree(m, c[k])
      BY <3>1 DEF ListStep
    <3>3. c[k + 1] = NextFree(m, c[k])
      <4>1. k + 1 \in 1 .. MaxChain
        BY <1>2, <2>2, MaxChainNat
      <4>. QED  BY <3>1, <4>1, ChainStep
    <3>4. k + 1 <= a
      BY <1>2, <2>2, MaxChainNat
    <3>. QED  BY <2>1, <3>2, <3>3, <3>4
  <2>3. CASE k >= a
    <3>1. LS[k] = c[a]
      BY <1>5, <2>3, <1>2
    <3>2. ListStep(m, asize, c[a]) = c[a]
      BY <1>2 DEF ListStep
    <3>. QED  BY <2>1, <2>3, <3>1, <3>2, <1>2
  <2>. QED  BY <2>2, <2>3, <1>2
<1>6. Nat \subseteq S
  <2>. HIDE DEF S
  <2>. QED  BY <1>4, <1>5, SetInduction
<1>. QED  BY <1>2, <1>3, <1>6

\* The middle loop stops on NULL exactly when the list has no fit, and
\* otherwise on the first fit.
LEMMA StopFits ==
  ASSUME NEW m, NEW h, NEW asize, ListEnds(m, h)
  PROVE  LET c == Chain(m, h)
             a == Stop(m, h, asize)
         IN  /\ c[a] = NULL => FitsAt(m, c, asize) = {}
             /\ c[a] # NULL => a \in FitsAt(m, c, asize)
                               /\ \A j \in FitsAt(m, c, asize) : a <= j
<1>. DEFINE c == Chain(m, h)
            a == Stop(m, h, asize)
            T == {k \in 0 .. MaxChain : c[k] = NULL \/ GetSize(m, c[k]) >= asize}
<1>1. a \in T /\ \A j \in T : a <= j
  BY MaxChainNat, LeastNat DEF ListEnds, Stop
<1>2. FitsAt(m, c, asize) \subseteq T
  BY DEF FitsAt, Reached
<1>3. ASSUME c[a] = NULL PROVE FitsAt(m, c, asize) = {}
  <2>. SUFFICES ASSUME NEW j \in FitsAt(m, c, asize) PROVE FALSE
    OBVIOUS
  <2>1. a <= j /\ a \in 0 .. MaxChain
    BY <1>1, <1>2
  <2>2. \A i \in 0 .. j : c[i] # NULL
    BY DEF FitsAt, Reached
  <2>3. a \in 0 .. j
    BY <2>1, MaxChainNat DEF FitsAt, Reached
  <2>. QED  BY <1>3, <2>2, <2>3
<1>4. ASSUME c[a] # NULL PROVE a \in FitsAt(m, c, asize)
  <2>1. \A i \in 0 .. a : c[i] # NULL
    <3>1. \A i \in 0 .. a - 1 : c[i] # NULL
      BY ListStatesWalk
    <3>. QED  BY <1>1, <1>4, <3>1, MaxChainNat
  <2>2. GetSize(m, c[a]) >= asize
    BY <1>1, <1>4
  <2>. QED  BY <1>1, <2>1, <2>2 DEF FitsAt, Reached
<1>. QED  BY <1>1, <1>2, <1>3, <1>4

-----------------------------------------------------------------------------
(* The best fit of a window.                                               *)

\* The position FitInList's CHOOSE picks in a window W of positions.
Bst(m, c, W) == CHOOSE j \in W : \A i \in W : Better(m, c, j, i)

\* Two positions each better than or equal to all of W are the same.
LEMMA BetterUnique ==
  ASSUME NEW m \in MemT, NEW c, NEW W \in SUBSET Nat,
         NEW k \in W, NEW k2 \in W,
         \A i \in W : Better(m, c, k, i), \A i \in W : Better(m, c, k2, i)
  PROVE  k = k2
<1>1. Better(m, c, k, k2) /\ Better(m, c, k2, k)
  OBVIOUS
<1>2. GetSize(m, c[k]) \in Int /\ GetSize(m, c[k2]) \in Int
  BY GetSizeFacts
<1>. QED  BY <1>1, <1>2 DEF Better

\* The best of a window of fits is in it and better than all of it.
LEMMA BstSpec ==
  ASSUME NEW m \in MemT, NEW c, NEW asize \in Int, NEW W \in SUBSET Nat, W # {},
         \A k \in W : GetSize(m, c[k]) >= asize
  PROVE  Bst(m, c, W) \in W /\ \A i \in W : Better(m, c, Bst(m, c, W), i)
<1>1. \E k \in W : \A j \in W : Better(m, c, k, j)
  BY BestExists
<1>. QED  BY <1>1 DEF Bst

\* Extending a window of fits by a later fit n: n becomes the best exactly
\* when it is strictly smaller than the best so far (the loop's test
\* compare_size < best_size).
LEMMA BstExtend ==
  ASSUME NEW m \in MemT, NEW c, NEW asize \in Int, NEW W \in SUBSET Nat, W # {},
         \A k \in W : GetSize(m, c[k]) >= asize,
         NEW n \in Nat, \A k \in W : k < n, GetSize(m, c[n]) >= asize
  PROVE  Bst(m, c, W \cup {n}) =
           IF GetSize(m, c[n]) < GetSize(m, c[Bst(m, c, W)]) THEN n ELSE Bst(m, c, W)
<1>. DEFINE b == Bst(m, c, W)
            W2 == W \cup {n}
<1>1. b \in W /\ \A i \in W : Better(m, c, b, i)
  BY BstSpec
<1>2. \A k \in W2 : GetSize(m, c[k]) >= asize
  OBVIOUS
<1>3. Bst(m, c, W2) \in W2 /\ \A i \in W2 : Better(m, c, Bst(m, c, W2), i)
  <2>. HIDE DEF W2
  <2>. QED  BY <1>2, BstSpec DEF W2
<1>4. \A k \in W2 : GetSize(m, c[k]) \in Int
  BY GetSizeFacts
<1>7. W2 \in SUBSET Nat /\ n \in W2 /\ b \in W2 /\ b \in Nat /\ b < n
  BY <1>1
<1>8. GetSize(m, c[n]) \in Int /\ GetSize(m, c[b]) \in Int
  BY <1>4, <1>7
<1>5. CASE GetSize(m, c[n]) < GetSize(m, c[b])
  <2>1. \A i \in W2 : Better(m, c, n, i)
    <3>. SUFFICES ASSUME NEW i \in W2 PROVE Better(m, c, n, i)
      OBVIOUS
    <3>1. CASE i = n
      BY <1>8, <3>1 DEF Better
    <3>2. CASE i \in W
      <4>1. Better(m, c, b, i)
        BY <1>1, <3>2
      <4>2. GetSize(m, c[i]) \in Int
        BY <1>4, <3>2
      <4>3. GetSize(m, c[b]) <= GetSize(m, c[i])
        BY <4>1, <4>2, <1>8 DEF Better
      <4>. QED  BY <1>5, <1>8, <4>2, <4>3 DEF Better
    <3>. QED  BY <3>1, <3>2
  <2>2. Bst(m, c, W2) = n
    <3>. HIDE DEF W2
    <3>. QED  BY <1>3, <1>7, <2>1, BetterUnique
  <2>. QED  BY <1>5, <2>2
<1>6. CASE ~(GetSize(m, c[n]) < GetSize(m, c[b]))
  <2>1. \A i \in W2 : Better(m, c, b, i)
    <3>. SUFFICES ASSUME NEW i \in W2 PROVE Better(m, c, b, i)
      OBVIOUS
    <3>1. CASE i = n
      BY <1>7, <1>8, <1>6, <3>1 DEF Better
    <3>2. CASE i \in W
      BY <1>1, <3>2
    <3>. QED  BY <3>1, <3>2
  <2>2. Bst(m, c, W2) = b
    <3>. HIDE DEF W2, b
    <3>. QED  BY <1>3, <1>7, <2>1, BetterUnique
  <2>. QED  BY <1>6, <2>2
<1>. QED  BY <1>5, <1>6


-----------------------------------------------------------------------------
(* The innermost loop: the better-fit scan after the first fit.           *)

\* The compare loop's first state is (block, 0, block, not done), and each
\* iteration is one CompareStep.
LEMMA CompareStatesUnfold ==
  ASSUME NEW m, NEW b, NEW asize
  PROVE  /\ CompareStates(m, b, asize)[0] =
              [cb |-> b, counter |-> 0, best |-> b, done |-> FALSE]
         /\ \A k \in Nat \ {0} :
              CompareStates(m, b, asize)[k] =
                CompareStep(m, asize, CompareStates(m, b, asize)[k - 1])
<1>. DEFINE Def(v, n) == CompareStep(m, asize, v)
            x0 == [cb |-> b, counter |-> 0, best |-> b, done |-> FALSE]
            f == CompareStates(m, b, asize)
<1>1. NatInductiveDefConclusion(f, x0, Def)
  <2>1. NatInductiveDefHypothesis(f, x0, Def)
    BY DEF NatInductiveDefHypothesis, CompareStates
  <2>. QED  BY <2>1, NatInductiveDef
<1>2. f = [i \in Nat |-> IF i = 0 THEN x0 ELSE Def(f[i - 1], i)]
  BY <1>1 DEF NatInductiveDefConclusion
<1>. HIDE DEF f
<1>3. f[0] = x0 /\ \A k \in Nat \ {0} : f[k] = CompareStep(m, asize, f[k - 1])
  BY <1>2
<1>. QED  BY <1>3 DEF f

\* The compare loop's iteration k + 1 is one CompareStep from iteration k.
LEMMA CompareStatesStep ==
  ASSUME NEW m, NEW b, NEW asize, NEW k \in Nat
  PROVE  CompareStates(m, b, asize)[k + 1] =
           CompareStep(m, asize, CompareStates(m, b, asize)[k])
<1>. DEFINE Def(v, n) == CompareStep(m, asize, v)
            x0 == [cb |-> b, counter |-> 0, best |-> b, done |-> FALSE]
            f == CompareStates(m, b, asize)
<1>1. NatInductiveDefConclusion(f, x0, Def)
  <2>1. NatInductiveDefHypothesis(f, x0, Def)
    BY DEF NatInductiveDefHypothesis, CompareStates
  <2>. QED  BY <2>1, NatInductiveDef
<1>2. f = [i \in Nat |-> IF i = 0 THEN x0 ELSE Def(f[i - 1], i)]
  BY <1>1 DEF NatInductiveDefConclusion
<1>. HIDE DEF f, x0
<1>3. k + 1 \in Nat /\ k + 1 # 0 /\ (k + 1) - 1 = k
  OBVIOUS
<1>4. f[k + 1] = CompareStep(m, asize, f[k])
  BY <1>2, <1>3, Zenon
<1>. QED  BY <1>4 DEF f

\* An iteration at the end of the list leaves the loop with best_fit as is.
LEMMA CompareStepEnd ==
  ASSUME NEW m, NEW asize, NEW n, NEW bst
  PROVE  CompareStep(m, asize, [cb |-> NULL, counter |-> n, best |-> bst, done |-> FALSE])
           = [cb |-> NULL, counter |-> n, best |-> bst, done |-> TRUE]
BY DEF CompareStep

\* The iteration on the block with counter = ScanLimit compares it and
\* returns.
LEMMA CompareStepLimit ==
  ASSUME NEW m, NEW asize, NEW b, b # NULL, NEW bst
  PROVE  CompareStep(m, asize, [cb |-> b, counter |-> ScanLimit, best |-> bst, done |-> FALSE])
           = [cb |-> b, counter |-> ScanLimit,
              best |-> IF GetSize(m, b) < GetSize(m, bst) /\ GetSize(m, b) >= asize
                       THEN b ELSE bst,
              done |-> TRUE]
BY DEF CompareStep

\* Once the loop has left, later iterations change nothing.
LEMMA CompareStepDone ==
  ASSUME NEW m, NEW asize, NEW b, NEW n, NEW bst
  PROVE  CompareStep(m, asize, [cb |-> b, counter |-> n, best |-> bst, done |-> TRUE])
           = [cb |-> b, counter |-> n, best |-> bst, done |-> TRUE]
BY DEF CompareStep

\* The window the compare loop has seen before iteration k of a scan that
\* started at the first fit a: the fits before position a + k, and a.
Seen(m, c, asize, a, k) == {j \in FitsAt(m, c, asize) : j < a + k} \cup {a}

\* One comparison keeps the best of the window seen so far: the loop's
\* best_fit after comparing the block at position a + k is the best of the
\* window that now includes a + k.
LEMMA SeenStep ==
  ASSUME NEW m \in MemT, NEW h, NEW asize \in Nat \ {0}, ListEnds(m, h),
         Chain(m, h)[Stop(m, h, asize)] # NULL,
         NEW k \in Nat, Stop(m, h, asize) + k < ListLen(m, h)
  PROVE  LET c == Chain(m, h)
             a == Stop(m, h, asize)
             cs == GetSize(m, c[a + k])
             B == Bst(m, c, Seen(m, c, asize, a, k))
         IN  (IF cs < GetSize(m, c[B]) /\ cs >= asize THEN c[a + k] ELSE c[B])
               = c[Bst(m, c, Seen(m, c, asize, a, k + 1))]
<1>. DEFINE c == Chain(m, h)
            a == Stop(m, h, asize)
            L == ListLen(m, h)
            fits == FitsAt(m, c, asize)
            cs == GetSize(m, c[a + k])
            V0 == Seen(m, c, asize, a, k)
            V1 == Seen(m, c, asize, a, k + 1)
            B == Bst(m, c, V0)
<1>1. a \in fits /\ \A j \in fits : a <= j
  BY StopFits
<1>2. L \in 0 .. MaxChain /\ Reached(c) = 0 .. L - 1
  BY ListLenFacts
<1>3. fits \in SUBSET Nat /\ a \in Nat /\ a + k \in Reached(c)
  BY <1>1, <1>2, MaxChainNat DEF FitsAt
<1>4. V0 \in SUBSET Nat /\ V0 # {} /\ \A j \in V0 : GetSize(m, c[j]) >= asize
  BY <1>1, <1>3 DEF Seen, FitsAt
<1>5. B \in V0 /\ \A i \in V0 : Better(m, c, B, i)
  <2>. HIDE DEF V0
  <2>. QED  BY <1>4, BstSpec DEF B
<1>6. cs \in Int /\ GetSize(m, c[B]) \in Int
  BY GetSizeFacts
<1>7. CASE k = 0
  <2>1. V0 = {a} /\ V1 = {a}
    BY <1>1, <1>3, <1>7 DEF Seen
  <2>2. B = a
    BY <1>5, <2>1
  <2>3. a + k = a
    BY <1>3, <1>7
  <2>4. ~(cs < GetSize(m, c[B]))
    BY <1>6, <2>2, <2>3
  <2>. QED  BY <2>1, <2>2, <2>4
<1>8. CASE k # 0 /\ a + k \in fits
  <2>1. V1 = V0 \cup {a + k}
    BY <1>3, <1>8 DEF Seen
  <2>2. \A j \in V0 : j < a + k
    BY <1>3, <1>8 DEF Seen
  <2>3. cs >= asize
    BY <1>8 DEF FitsAt
  <2>4. Bst(m, c, V0 \cup {a + k}) = IF cs < GetSize(m, c[B]) THEN a + k ELSE B
    <3>. HIDE DEF V0, B, cs
    <3>. QED  BY <1>3, <1>4, <2>2, <2>3, BstExtend DEF B, cs
  <2>. QED  BY <2>1, <2>3, <2>4
<1>9. CASE a + k \notin fits
  <2>1. V1 = V0
    BY <1>3, <1>9 DEF Seen
  <2>2. ~(cs >= asize)
    BY <1>3, <1>9 DEF FitsAt
  <2>. QED  BY <2>1, <2>2
<1>. QED  BY <1>7, <1>8, <1>9


\* The iteration at which the compare loop leaves: at the list's end
\* (compare_block = NULL), or at the block with counter = ScanLimit,
\* whichever comes first.
ScanEnd(m, h, asize) ==
  IF ListLen(m, h) - Stop(m, h, asize) <= ScanLimit
  THEN ListLen(m, h) - Stop(m, h, asize) ELSE ScanLimit

\* The compare loop's state before iteration k, up to ScanEnd.
ScanState(m, h, asize, k) ==
  LET c == Chain(m, h)
      a == Stop(m, h, asize)
  IN  [cb |-> c[a + k], counter |-> k,
       best |-> c[Bst(m, c, Seen(m, c, asize, a, k))], done |-> FALSE]

\* The compare loop, started at the first fit, walks the list with its
\* counter equal to the distance walked and best_fit the best of what it
\* has seen, until it leaves.
LEMMA CompareRun ==
  ASSUME NEW m \in MemT, NEW h, NEW asize \in Nat \ {0}, ListEnds(m, h),
         Chain(m, h)[Stop(m, h, asize)] # NULL
  PROVE  \A k \in Nat : k <= ScanEnd(m, h, asize) =>
            CompareStates(m, Chain(m, h)[Stop(m, h, asize)], asize)[k] =
              ScanState(m, h, asize, k)
<1>. DEFINE c == Chain(m, h)
            a == Stop(m, h, asize)
            L == ListLen(m, h)
            fits == FitsAt(m, c, asize)
            E == ScanEnd(m, h, asize)
            CS == CompareStates(m, c[a], asize)
            St(k) == ScanState(m, h, asize, k)
<1>1. a \in fits /\ \A j \in fits : a <= j
  BY StopFits
<1>2. /\ L \in 0 .. MaxChain
      /\ c[L] = NULL
      /\ \A j \in 0 .. L - 1 : c[j] # NULL
      /\ Reached(c) = 0 .. L - 1
  BY ListLenFacts
<1>3. fits \subseteq 0 .. L - 1 /\ L \in Nat /\ a \in Nat /\ a < L
  <2>1. fits \subseteq Reached(c)
    BY DEF FitsAt
  <2>0. Reached(c) = 0 .. L - 1
    BY <1>2
  <2>2. fits \subseteq 0 .. L - 1
    <3>. HIDE DEF fits, c, L
    <3>. QED  BY <2>0, <2>1
  <2>3. L \in Nat
    BY <1>2, MaxChainNat
  <2>4. a \in 0 .. L - 1
    BY <1>1, <2>2
  <2>. QED  BY <2>2, <2>3, <2>4
<1>4. E \in Nat /\ E <= L - a /\ E <= ScanLimit
  BY <1>3, ScanAssumption DEF ScanEnd
<1>. DEFINE S == {k \in Nat : k <= E => CS[k] = St(k)}
<1>5. 0 \in S
  <2>1. Seen(m, c, asize, a, 0) = {a}
    BY <1>1, <1>3 DEF Seen
  <2>2. Bst(m, c, {a}) = a
    <3>1. \A j \in {a} : GetSize(m, c[j]) >= asize
      BY <1>1 DEF FitsAt
    <3>. QED  BY <1>3, <3>1, BstSpec
  <2>3. CS[0] = [cb |-> c[a], counter |-> 0, best |-> c[a], done |-> FALSE]
    BY CompareStatesUnfold
  <2>4. a + 0 = a
    BY <1>3
  <2>. QED  BY <2>1, <2>2, <2>3, <2>4 DEF ScanState
<1>6. ASSUME NEW k \in Nat, k \in S PROVE k + 1 \in S
  <2>. SUFFICES ASSUME k + 1 <= E PROVE CS[k + 1] = St(k + 1)
    OBVIOUS
  <2>0. k <= E
    BY <1>4
  <2>1. CS[k + 1] = CompareStep(m, asize, St(k))
    <3>1. CS[k] = St(k)
      BY <1>6, <2>0
    <3>3. CS[k + 1] = CompareStep(m, asize, CS[k])
      BY CompareStatesStep
    <3>. HIDE DEF CS, St
    <3>. QED  BY <3>1, <3>3
  <2>2. a + k < L /\ k # ScanLimit /\ a + (k + 1) \in 1 .. MaxChain
    BY <1>2, <1>3, <1>4, MaxChainNat, ScanAssumption
  <2>3. c[a + k] # NULL
    BY <1>2, <1>3, <2>2
  <2>4. c[a + (k + 1)] = NextFree(m, c[a + k])
    <3>1. a + (k + 1) \in 1 .. MaxChain /\ (a + (k + 1)) - 1 = a + k
      BY <1>3, <2>2
    <3>. QED  BY <2>2, <2>3, <3>1, ChainStep
  <2>. DEFINE cs == GetSize(m, c[a + k])
              B == Bst(m, c, Seen(m, c, asize, a, k))
              best2 == IF cs < GetSize(m, c[B]) /\ cs >= asize THEN c[a + k] ELSE c[B]
  <2>5. best2 = c[Bst(m, c, Seen(m, c, asize, a, k + 1))]
    BY <2>2, SeenStep
  <2>6. CompareStep(m, asize, St(k)) =
          [cb |-> NextFree(m, c[a + k]), counter |-> k + 1, best |-> best2, done |-> FALSE]
    <3>1. St(k) = [cb |-> c[a + k], counter |-> k, best |-> c[B], done |-> FALSE]
      BY DEF ScanState
    <3>. HIDE DEF St, c, B
    <3>. QED  BY <2>2, <2>3, <3>1 DEF CompareStep
  <2>7. St(k + 1) = [cb |-> c[a + (k + 1)], counter |-> k + 1,
                     best |-> c[Bst(m, c, Seen(m, c, asize, a, k + 1))], done |-> FALSE]
    BY DEF ScanState
  <2>. HIDE DEF St, CS, best2, c
  <2>. QED  BY <2>1, <2>4, <2>5, <2>6, <2>7
<1>7. Nat \subseteq S
  <2>. HIDE DEF S
  <2>. QED  BY <1>5, <1>6, SetInduction
<1>. QED  BY <1>7


\* The compare loop returns the best fit of the window: the fits from the
\* first fit a up to a + ScanLimit, smallest first and earliest among
\* equals.
LEMMA CompareWindow ==
  ASSUME NEW m \in MemT, NEW h, NEW asize \in Nat \ {0}, ListEnds(m, h),
         Chain(m, h)[Stop(m, h, asize)] # NULL
  PROVE  LET c == Chain(m, h)
             a == Stop(m, h, asize)
         IN  CompareLoop(m, c[a], asize) =
               c[Bst(m, c, {k \in FitsAt(m, c, asize) : k <= a + ScanLimit})]
<1>. DEFINE c == Chain(m, h)
            a == Stop(m, h, asize)
            L == ListLen(m, h)
            fits == FitsAt(m, c, asize)
            E == ScanEnd(m, h, asize)
            CS == CompareStates(m, c[a], asize)
            window == {k \in fits : k <= a + ScanLimit}
            R == [cb |-> c[a + E], counter |-> E, best |-> c[Bst(m, c, window)],
                  done |-> TRUE]
<1>1. a \in fits /\ \A j \in fits : a <= j
  BY StopFits
<1>2. /\ L \in 0 .. MaxChain
      /\ c[L] = NULL
      /\ \A j \in 0 .. L - 1 : c[j] # NULL
      /\ Reached(c) = 0 .. L - 1
  BY ListLenFacts
<1>3. fits \subseteq 0 .. L - 1 /\ L \in Nat /\ a \in Nat /\ a < L
  <2>1. fits \subseteq Reached(c)
    BY DEF FitsAt
  <2>2. fits \subseteq 0 .. L - 1
    <3>. HIDE DEF fits, c, L
    <3>. QED  BY <1>2, <2>1
  <2>3. L \in Nat
    BY <1>2, MaxChainNat
  <2>. QED  BY <1>1, <2>2, <2>3
<1>4. E \in Nat /\ E <= L - a /\ E <= ScanLimit
  BY <1>3, ScanAssumption DEF ScanEnd
<1>5. CS[E + 1] = CompareStep(m, asize, ScanState(m, h, asize, E))
  <2>1. CS[E] = ScanState(m, h, asize, E)
    BY <1>4, CompareRun
  <2>2. CS[E + 1] = CompareStep(m, asize, CS[E])
    BY <1>4, CompareStatesStep
  <2>. QED  BY <2>1, <2>2
<1>6. ScanState(m, h, asize, E) =
        [cb |-> c[a + E], counter |-> E,
         best |-> c[Bst(m, c, Seen(m, c, asize, a, E))], done |-> FALSE]
  BY DEF ScanState
<1>7. CS[E + 1] = R
  <2>1. CASE L - a <= ScanLimit
    <3>1. a + E = L
      BY <1>3, <2>1 DEF ScanEnd
    <3>2. c[a + E] = NULL
      BY <1>2, <3>1
    <3>3. Seen(m, c, asize, a, E) = window
      BY <1>1, <1>3, <2>1, <3>1, ScanAssumption DEF Seen
    <3>4. CompareStep(m, asize, ScanState(m, h, asize, E)) =
            [cb |-> c[a + E], counter |-> E,
             best |-> c[Bst(m, c, Seen(m, c, asize, a, E))], done |-> TRUE]
      <4>. HIDE DEF ScanState, c, a, E
      <4>. QED  BY <1>6, <3>2, CompareStepEnd
    <3>. QED  BY <1>5, <3>3, <3>4
  <2>2. CASE ~(L - a <= ScanLimit)
    <3>1. E = ScanLimit /\ a + E < L
      BY <1>3, <2>2, ScanAssumption DEF ScanEnd
    <3>2. c[a + E] # NULL
      BY <1>2, <1>3, <1>4, <3>1
    <3>3. Seen(m, c, asize, a, E + 1) = window
      BY <1>1, <1>3, <3>1, ScanAssumption DEF Seen
    <3>. DEFINE cs == GetSize(m, c[a + E])
                B == Bst(m, c, Seen(m, c, asize, a, E))
                best2 == IF cs < GetSize(m, c[B]) /\ cs >= asize THEN c[a + E] ELSE c[B]
    <3>4. best2 = c[Bst(m, c, Seen(m, c, asize, a, E + 1))]
      BY <1>4, <3>1, SeenStep
    <3>5. CompareStep(m, asize, ScanState(m, h, asize, E)) =
            [cb |-> c[a + E], counter |-> E, best |-> best2, done |-> TRUE]
      <4>1. ScanState(m, h, asize, E) =
              [cb |-> c[a + E], counter |-> ScanLimit, best |-> c[B], done |-> FALSE]
        BY <1>6, <3>1
      <4>. HIDE DEF ScanState, c, a, E, B
      <4>. QED  BY <4>1, <3>1, <3>2, CompareStepLimit
    <3>. QED  BY <1>5, <3>3, <3>4, <3>5
  <2>. QED  BY <2>1, <2>2
<1>8. CompareStep(m, asize, R) = R
  BY CompareStepDone
<1>. DEFINE S == {k \in Nat : k >= E + 1 => CS[k] = R}
<1>9. 0 \in S
  BY <1>4
<1>10. ASSUME NEW k \in Nat, k \in S PROVE k + 1 \in S
  <2>1. CS[k + 1] = CompareStep(m, asize, CS[k])
    BY CompareStatesStep
  <2>2. CASE k = E
    BY <1>7, <2>2
  <2>3. CASE k # E
    <3>. SUFFICES ASSUME k + 1 >= E + 1 PROVE CS[k + 1] = R
      OBVIOUS
    <3>1. CS[k] = R
      BY <1>4, <1>10, <2>3
    <3>. HIDE DEF CS, R
    <3>. QED  BY <1>8, <2>1, <3>1
  <2>. QED  BY <2>2, <2>3
<1>11. Nat \subseteq S
  <2>. HIDE DEF S
  <2>. QED  BY <1>9, <1>10, SetInduction
<1>12. LoopBound \in Nat /\ LoopBound >= E + 1
  BY <1>2, <1>3, <1>4, MaxChainNat DEF LoopBound
<1>13. CS[LoopBound] = R
  BY <1>11, <1>12
<1>14. CompareLoop(m, c[a], asize) = CS[LoopBound].best
  BY DEF CompareLoop
<1>. HIDE DEF CS
<1>. QED  BY <1>13, <1>14


-----------------------------------------------------------------------------
(* The middle loop and the compare loop together are FitInList.           *)

\* FitInList is the best of the window after the least fit.
LEMMA FitInListBst ==
  ASSUME NEW m, NEW c, NEW asize
  PROVE  LET fits == FitsAt(m, c, asize)
         IN  FitInList(m, c, asize) =
               IF fits = {} THEN NULL
               ELSE AsBlock(c[Bst(m, c, {k \in fits : k <= Least(fits) + ScanLimit})])
BY DEF FitInList, FitsAt, Reached, Better, Bst

\* The loops over one free list of find_fit return what FitInList says of
\* that list, for every list that ends: NULL when no block is large enough,
\* else the best fit of the window of ScanLimit blocks after the first fit.
LEMMA ListLoopFit ==
  ASSUME NEW m \in MemT, NEW h, NEW asize \in Nat \ {0}, ListEnds(m, h)
  PROVE  ListLoop(m, h, asize) = FitInList(m, Chain(m, h), asize)
<1>. DEFINE c == Chain(m, h)
            a == Stop(m, h, asize)
            fits == FitsAt(m, c, asize)
            window == {k \in fits : k <= a + ScanLimit}
<1>1. a \in 0 .. MaxChain /\ \A k \in Nat : ListStates(m, h, asize)[k] = c[IF k <= a THEN k ELSE a]
  BY ListStatesWalk
<1>2. ListStates(m, h, asize)[LoopBound] = c[a]
  <2>1. LoopBound \in Nat /\ ~(LoopBound <= a)
    BY <1>1, MaxChainNat DEF LoopBound
  <2>. QED  BY <1>1, <2>1
<1>3. ListLoop(m, h, asize) = IF c[a] = NULL THEN NULL ELSE CompareLoop(m, c[a], asize)
  BY <1>2, ListLoopDef
<1>4. CASE c[a] = NULL
  <2>1. fits = {}
    BY <1>4, StopFits
  <2>. QED  BY <1>3, <1>4, <2>1, FitInListBst
<1>5. CASE c[a] # NULL
  <2>1. a \in fits /\ \A j \in fits : a <= j
    BY <1>5, StopFits
  <2>2. fits \in SUBSET Nat
    BY MaxChainNat DEF FitsAt, Reached
  <2>3. Least(fits) = a
    <3>1. Least(fits) \in fits /\ \A j \in fits : Least(fits) <= j
      BY <2>1, <2>2, LeastNat
    <3>. QED  BY <2>1, <2>2, <3>1
  <2>4. CompareLoop(m, c[a], asize) = c[Bst(m, c, window)]
    BY <1>5, CompareWindow
  <2>5. c[Bst(m, c, window)] \in Addrs
    <3>1. window \in SUBSET Nat /\ window # {} /\ \A k \in window : GetSize(m, c[k]) >= asize
      BY <2>1, <2>2, ScanAssumption DEF FitsAt
    <3>2. Bst(m, c, window) \in window
      <4>. HIDE DEF window
      <4>. QED  BY <3>1, BstSpec
    <3>3. GetSize(m, c[Bst(m, c, window)]) > 0
      <4>1. GetSize(m, c[Bst(m, c, window)]) >= asize
        BY <3>1, <3>2
      <4>2. GetSize(m, c[Bst(m, c, window)]) \in Int
        BY GetSizeFacts
      <4>. QED  BY <4>1, <4>2
    <3>. QED  BY <3>3, GetSizeFacts
  <2>6. FitInList(m, c, asize) = AsBlock(c[Bst(m, c, window)])
    <3>1. FitInList(m, c, asize) =
            AsBlock(c[Bst(m, c, {k \in fits : k <= Least(fits) + ScanLimit})])
      BY <2>1, FitInListBst
    <3>2. {k \in fits : k <= Least(fits) + ScanLimit} = window
      BY <2>3
    <3>. QED  BY <3>1, <3>2
  <2>. QED  BY <1>3, <1>5, <2>4, <2>5, <2>6 DEF AsBlock
<1>. QED  BY <1>4, <1>5


-----------------------------------------------------------------------------
(* The outer loop over the size classes.                                   *)

\* Least(S) is the element of S no other element is below.
LEMMA LeastIs ==
  ASSUME NEW S \in SUBSET Nat, NEW x \in S, \A y \in S : x <= y
  PROVE  Least(S) = x
<1>1. Least(S) \in S /\ \A j \in S : Least(S) <= j
  BY LeastNat
<1>2. Least(S) \in Nat /\ x \in Nat /\ Least(S) <= x /\ x <= Least(S)
  BY <1>1
<1>. QED  BY <1>2

\* The outer loop's answers, as SegLoop's recursive function defines them:
\* the j-th is the answer from class SEG_LIST_LEN - j upwards.
SegStates(s, asize) ==
  CHOOSE g : g = [j \in Nat |-> IF j = 0 THEN NULL
                                ELSE SegPick(ListLoop(s.mem, s.seg[SegListLen - j], asize),
                                             g[j - 1])]

\* SegLoop's answer is that of the iteration for determine_seg_index(asize).
LEMMA SegLoopDef ==
  ASSUME NEW s, NEW asize
  PROVE  SegLoop(s, asize) = SegStates(s, asize)[SegListLen - SegIndex(asize)]
BY DEF SegLoop, SegStates

\* Before any class the answer is NULL; each iteration (taken from the
\* highest class down) is one SegPick.
LEMMA SegStatesUnfold ==
  ASSUME NEW s, NEW asize
  PROVE  /\ SegStates(s, asize)[0] = NULL
         /\ \A j \in Nat :
              SegStates(s, asize)[j + 1] =
                SegPick(ListLoop(s.mem, s.seg[SegListLen - (j + 1)], asize),
                        SegStates(s, asize)[j])
<1>. DEFINE Def(v, n) == SegPick(ListLoop(s.mem, s.seg[SegListLen - n], asize), v)
            f == SegStates(s, asize)
<1>1. NatInductiveDefConclusion(f, NULL, Def)
  <2>1. NatInductiveDefHypothesis(f, NULL, Def)
    BY DEF NatInductiveDefHypothesis, SegStates
  <2>. QED  BY <2>1, NatInductiveDef
<1>2. f = [i \in Nat |-> IF i = 0 THEN NULL ELSE Def(f[i - 1], i)]
  BY <1>1 DEF NatInductiveDefConclusion
<1>. HIDE DEF f
<1>3. f[0] = NULL
  BY <1>2
<1>4. ASSUME NEW j \in Nat
      PROVE  f[j + 1] = SegPick(ListLoop(s.mem, s.seg[SegListLen - (j + 1)], asize), f[j])
  <2>1. j + 1 \in Nat /\ j + 1 # 0 /\ (j + 1) - 1 = j
    OBVIOUS
  <2>. QED  BY <1>2, <2>1, Zenon
<1>. QED  BY <1>3, <1>4 DEF f


\* What FitInList says of the list of class i, and the classes from
\* SEG_LIST_LEN - j upwards whose list has a fit.
ListFit(s, asize, i) == FitInList(s.mem, Chain(s.mem, s.seg[i]), asize)
Hits(s, asize, j) == {i \in SegListLen - j .. SegListLen - 1 : ListFit(s, asize, i) # NULL}

\* After j iterations from the top class down, the outer loop's answer is
\* the fit of the lowest of those classes whose list has one.
LEMMA SegRun ==
  ASSUME NEW s, s.mem \in MemT, NEW asize \in Nat \ {0},
         \A i \in SegIdx : ListEnds(s.mem, s.seg[i])
  PROVE  \A j \in 0 .. SegListLen :
           SegStates(s, asize)[j] =
             IF Hits(s, asize, j) = {} THEN NULL
             ELSE ListFit(s, asize, Least(Hits(s, asize, j)))
<1>. DEFINE G == SegStates(s, asize)
            Ans(j) == IF Hits(s, asize, j) = {} THEN NULL
                      ELSE ListFit(s, asize, Least(Hits(s, asize, j)))
            S == {j \in Nat : j <= SegListLen => G[j] = Ans(j)}
<1>1. 0 \in S
  <2>1. Hits(s, asize, 0) = {}
    BY DEF Hits, SegListLen
  <2>2. G[0] = NULL
    BY SegStatesUnfold
  <2>. QED  BY <2>1, <2>2
<1>2. ASSUME NEW j \in Nat, j \in S PROVE j + 1 \in S
  <2>. SUFFICES ASSUME j + 1 <= SegListLen PROVE G[j + 1] = Ans(j + 1)
    OBVIOUS
  <2>. DEFINE i0 == SegListLen - (j + 1)
  <2>1. i0 \in SegIdx /\ i0 \in Nat
    BY DEF SegIdx, SegListLen
  <2>2. G[j + 1] = SegPick(ListLoop(s.mem, s.seg[i0], asize), G[j])
    BY SegStatesUnfold
  <2>3. ListLoop(s.mem, s.seg[i0], asize) = ListFit(s, asize, i0)
    BY <2>1, ListLoopFit DEF ListFit
  <2>4. G[j] = Ans(j)
    BY <1>2 DEF SegListLen
  <2>5. SegListLen - (j + 1) .. SegListLen - 1 = {i0} \cup (SegListLen - j .. SegListLen - 1)
    BY DEF SegListLen
  <2>6. \A i \in Hits(s, asize, j) : i0 < i /\ i \in Nat
    BY DEF Hits, SegListLen
  <2>7. CASE ListFit(s, asize, i0) # NULL
    <3>1. i0 \in Hits(s, asize, j + 1) /\ Hits(s, asize, j + 1) \in SUBSET Nat
      BY <2>1, <2>5, <2>7 DEF Hits
    <3>2. \A i \in Hits(s, asize, j + 1) : i0 <= i
      BY <2>5, <2>6 DEF Hits
    <3>3. Least(Hits(s, asize, j + 1)) = i0
      BY <3>1, <3>2, LeastIs
    <3>4. G[j + 1] = ListFit(s, asize, i0)
      BY <2>2, <2>3, <2>7 DEF SegPick
    <3>. QED  BY <3>1, <3>3, <3>4
  <2>8. CASE ListFit(s, asize, i0) = NULL
    <3>1. Hits(s, asize, j + 1) = Hits(s, asize, j)
      BY <2>5, <2>8 DEF Hits
    <3>2. G[j + 1] = G[j]
      BY <2>2, <2>3, <2>8 DEF SegPick
    <3>. QED  BY <2>4, <3>1, <3>2
  <2>. QED  BY <2>7, <2>8
<1>3. Nat \subseteq S
  <2>. HIDE DEF S
  <2>. QED  BY <1>1, <1>2, SetInduction
<1>. QED  BY <1>3 DEF SegListLen

\* find_fit's three loops return the block of the set-based FindFit, for
\* every request and every allocator state whose free lists end in NULL:
\* the mini list's head for a request of min_block_size, else the first
\* class from determine_seg_index upwards whose list has a fit, and there
\* the best fit of the window of ScanLimit blocks after the first fit.
THEOREM LoopsAgree ==
  ASSUME NEW s, s.mem \in MemT, NEW asize \in Nat \ {0},
         \A i \in SegIdx : ListEnds(s.mem, s.seg[i])
  PROVE  FindFitLoop(s, asize) = FindFit(s, asize)
<1>. DEFINE j0 == SegListLen - SegIndex(asize)
<1>1. j0 \in 0 .. SegListLen /\ SegListLen - j0 = SegIndex(asize)
  BY SegIndexRange DEF SegIdx, SegListLen
<1>2. SegLoop(s, asize) =
        IF Hits(s, asize, j0) = {} THEN NULL
        ELSE ListFit(s, asize, Least(Hits(s, asize, j0)))
  BY <1>1, SegRun, SegLoopDef
<1>3. Hits(s, asize, j0) =
        {i \in SegIndex(asize) .. SegListLen - 1 :
           FitInList(s.mem, Chain(s.mem, s.seg[i]), asize) # NULL}
  BY <1>1 DEF Hits, ListFit
<1>. QED  BY <1>2, <1>3 DEF FindFitLoop, FindFit, ListFit


\* On every heap whose free lists are exact (MMHeap's FreeListsExact, which
\* the heap runs check), find_fit's C loops are a correct search: they
\* return NULL exactly when no free block has asize bytes, and otherwise a
\* free block that does.  The lists of such a heap end in NULL, so
\* LoopsAgree applies, and FitFromLists gives the rest.
THEOREM LoopsCorrect ==
  TypeOK /\ FreeListsExact =>
    (Initialized =>
       \A asize \in FitSizes :
         FitMeets(FindFitLoop(State, asize),
                  {b \in WalkBlocks(HeapWalk(mem, start), Epilogue) : ~GetAlloc(mem, b)},
                  asize))
<1>. SUFFICES ASSUME TypeOK, FreeListsExact, Initialized, NEW asize \in FitSizes
              PROVE  FitMeets(FindFitLoop(State, asize),
                              {b \in WalkBlocks(HeapWalk(mem, start), Epilogue) :
                                 ~GetAlloc(mem, b)},
                              asize)
  OBVIOUS
<1>1. State.mem = mem /\ State.seg = seg /\ mem \in MemT
  BY DEF State, TypeOK, MemT
<1>2. \A i \in SegIdx : ListEnds(mem, seg[i])
  BY DEF FreeListsExact, ChainAcyclic, ListEnds
<1>3. asize \in Nat \ {0}
  BY HeapAssumption DEF FitSizes, DSize
<1>4. FindFitLoop(State, asize) = FindFit(State, asize)
  BY <1>1, <1>2, <1>3, LoopsAgree
<1>5. FitCorrect
  BY FitFromLists
<1>. QED  BY <1>4, <1>5 DEF FitCorrect

=============================================================================
