----------------------------- MODULE MMFitProofs -----------------------------
(***************************************************************************)
(* Proofs about find_fit and determine_seg_index of src/mm.c, as MMHeap   *)
(* models them, for every size of the region and every scan limit.       *)
(*                                                                         *)
(* The main result, FitFromLists, says that find_fit is a correct search  *)
(* on every heap whose free lists are exact (MMHeap's FreeListsExact): it *)
(* returns NULL exactly when no free block is large enough, and otherwise *)
(* a free block that is.  FreeListsExact itself is checked by TLC only    *)
(* (its preservation is an induction over the heap walk), so together    *)
(* they give FitCorrect on the instances TLC explores, and this module   *)
(* gives the step from the lists to find_fit for every instance.          *)
(***************************************************************************)
EXTENDS MMHeap, NaturalsInduction, WellFoundedInduction, FiniteSetTheorems, TLAPS

MemT == [Addrs -> Int]

\* The positions of a list value c (a value of Chain) that the walk from
\* its head reaches before NULL, and those of them that fit asize bytes.
Reached(c) == {k \in 0 .. MaxChain : \A j \in 0 .. k : c[j] # NULL}
FitsAt(m, c, asize) == {k \in Reached(c) : GetSize(m, c[k]) >= asize}

-----------------------------------------------------------------------------
(* Constants.                                                              *)

LEMMA MaxChainNat == MaxChain \in Nat
BY HeapAssumption DEF MaxChain, MinBlockSize

LEMMA NullNotAddr == NULL \notin Addrs
BY HeapAssumption DEF NULL, Addrs

-----------------------------------------------------------------------------
(* The list walk.                                                          *)

\* The walk of a list starts at its head: Chain's recursive function is
\* the primitive recursion of NatInductiveDef.
LEMMA ChainHead ==
  ASSUME NEW m, NEW h
  PROVE  Chain(m, h)[0] = h
<1>. DEFINE Def(v, n) == IF v = NULL THEN NULL ELSE NextFree(m, v)
            f == CHOOSE g : g = [i \in Nat |-> IF i = 0 THEN h ELSE Def(g[i - 1], i)]
<1>1. NatInductiveDefConclusion(f, h, Def)
  <2>1. NatInductiveDefHypothesis(f, h, Def)
    BY DEF NatInductiveDefHypothesis
  <2>. QED  BY <2>1, NatInductiveDef
<1>2. f[0] = h
  BY <1>1 DEF NatInductiveDefConclusion
<1>. QED  BY <1>2, MaxChainNat DEF Chain

\* An empty list has no nodes; a non-empty one has its head among them.
LEMMA ChainNodesHead ==
  ASSUME NEW m, NEW h
  PROVE  /\ h = NULL => ChainNodes(Chain(m, h)) = {}
         /\ h # NULL => h \in ChainNodes(Chain(m, h))
<1>1. Chain(m, h)[0] = h
  BY ChainHead
<1>2. 0 \in 0 .. MaxChain
  BY MaxChainNat
<1>. QED  BY <1>1, <1>2 DEF ChainNodes

-----------------------------------------------------------------------------
(* Least elements.                                                         *)

\* A non-empty set of naturals has a least element, which Least picks:
\* < is well founded on Nat.
LEMMA LeastNat ==
  ASSUME NEW S \in SUBSET Nat, S # {}
  PROVE  Least(S) \in S /\ \A j \in S : Least(S) <= j
<1>1. PICK x \in S : \A y \in S : ~(<<y, x>> \in OpToRel(<, Nat))
  BY NatLessThanWellFounded, WFMin
<1>2. ASSUME NEW y \in S PROVE x <= y
  <2>1. ~(<<y, x>> \in OpToRel(<, Nat))
    BY <1>1
  <2>2. <<y, x>> \in Nat \X Nat
    OBVIOUS
  <2>. QED  BY <2>1, <2>2 DEF OpToRel
<1>. QED  BY <1>2 DEF Least

-----------------------------------------------------------------------------
(* determine_seg_index.                                                    *)

\* A non-empty interval of integers is finite, of its length.
LEMMA IntervalSize ==
  ASSUME NEW a \in Int, NEW b \in Int, a <= b
  PROVE  IsFiniteSet(a .. b) /\ Cardinality(a .. b) = b - a + 1
BY FS_Interval

\* 1 .. 9, the bounds of determine_seg_index, is a set of nine.
LEMMA NineBounds == IsFiniteSet(1 .. 9) /\ Cardinality(1 .. 9) = 9
<1>1. 1 \in Int /\ 9 \in Int /\ 1 <= 9
  OBVIOUS
<1>2. IsFiniteSet(1 .. 9) /\ Cardinality(1 .. 9) = 9 - 1 + 1
  BY <1>1, IntervalSize, Zenon
<1>. QED  BY <1>2

\* The classes below size: determine_seg_index returns how many there are.
LEMMA SegIndexRange ==
  ASSUME NEW size
  PROVE  SegIndex(size) \in SegIdx
<1>. DEFINE T == {i \in 1 .. 9 : GroupSize[i] < size}
<1>1. IsFiniteSet(1 .. 9) /\ Cardinality(1 .. 9) = 9
  BY NineBounds
<1>2. IsFiniteSet(T) /\ Cardinality(T) <= 9
  BY <1>1, FS_Subset
<1>3. Cardinality(T) \in Nat
  BY <1>2, FS_CardinalityType
<1>. HIDE DEF T
<1>2a. Cardinality(T) \in 0 .. 9
  BY <1>2, <1>3
<1>. QED  BY <1>2a DEF SegIndex, SegIdx, SegListLen, T

\* determine_seg_index never sends a larger block to a lower class: a
\* block that fits a request is in the request's class or above it.
LEMMA SegIndexMonotone ==
  ASSUME NEW x \in Int, NEW y \in Int, x <= y
  PROVE  SegIndex(x) <= SegIndex(y)
<1>1. GroupSize \in [1 .. 9 -> Int]
  BY DEF GroupSize
<1>2. {i \in 1 .. 9 : GroupSize[i] < x} \subseteq {i \in 1 .. 9 : GroupSize[i] < y}
  BY <1>1
<1>. DEFINE X == {i \in 1 .. 9 : GroupSize[i] < x}
            Y == {i \in 1 .. 9 : GroupSize[i] < y}
<1>3. IsFiniteSet(1 .. 9)
  BY NineBounds
<1>4. IsFiniteSet(Y)
  BY <1>3, FS_Subset
<1>. HIDE DEF X, Y
<1>5. Cardinality(X) <= Cardinality(Y)
  BY <1>2, <1>4, FS_Subset DEF X, Y
<1>. QED  BY <1>5 DEF SegIndex, X, Y

-----------------------------------------------------------------------------
(* find_fit.                                                               *)

\* get_size of a typed memory is an integer; a block of positive size is
\* a word of the region (a read outside it yields NULL, of size 0).
LEMMA GetSizeFacts ==
  ASSUME NEW m \in MemT, NEW b
  PROVE  /\ GetSize(m, b) \in Int
         /\ GetSize(m, b) > 0 => b \in Addrs
BY DEF GetSize, ExtractSize, Load, MemT, NULL

\* The ordering find_fit's better-fit loop keeps: a block that is strictly
\* smaller, or the first one among equal sizes.
Better(m, c, k, j) ==
  \/ GetSize(m, c[k]) < GetSize(m, c[j])
  \/ GetSize(m, c[k]) = GetSize(m, c[j]) /\ k <= j

\* A non-empty window of list positions, each of at least asize bytes, has
\* a position better than or equal to all others (what the CHOOSE of
\* FitInList needs to pick one).
LEMMA BestExists ==
  ASSUME NEW m \in MemT, NEW c, NEW asize \in Int,
         NEW W \in SUBSET Nat, W # {},
         \A k \in W : GetSize(m, c[k]) >= asize
  PROVE  \E k \in W : \A j \in W : Better(m, c, k, j)
<1>. DEFINE D == {GetSize(m, c[k]) - asize : k \in W}
            d == Least(D)
            K == {k \in W : GetSize(m, c[k]) - asize = d}
<1>1. \A k \in W : GetSize(m, c[k]) \in Int
  BY GetSizeFacts
<1>2. D \in SUBSET Nat /\ D # {}
  <2>1. ASSUME NEW k \in W PROVE GetSize(m, c[k]) - asize \in Nat
    BY <1>1
  <2>. QED  BY <2>1
<1>3. d \in D /\ \A e \in D : d <= e
  <2>. HIDE DEF D
  <2>. QED  BY <1>2, LeastNat
<1>4. K \in SUBSET Nat /\ K # {}
  BY <1>3
<1>5. Least(K) \in K /\ \A j \in K : Least(K) <= j
  <2>. HIDE DEF K
  <2>. QED  BY <1>4, LeastNat
<1>6. \A j \in W : Better(m, c, Least(K), j)
  <2>. DEFINE k0 == Least(K)
  <2>. SUFFICES ASSUME NEW j \in W PROVE Better(m, c, k0, j)
    OBVIOUS
  <2>. DEFINE x == GetSize(m, c[k0])
              y == GetSize(m, c[j])
  <2>1. y - asize \in D
    OBVIOUS
  <2>2. x - asize = d /\ k0 \in W
    BY <1>5
  <2>3. d <= y - asize
    BY <1>3, <2>1
  <2>4. y - asize = d => k0 <= j
    BY <1>5
  <2>5. x \in Int /\ y \in Int
    BY <1>1, <2>2
  <2>. HIDE DEF x, y, k0, K, D, d
  <2>6. x < y \/ (x = y /\ k0 <= j)
    BY <2>2, <2>3, <2>4, <2>5
  <2>. QED  BY <2>6 DEF Better, x, y
<1>. QED  BY <1>5, <1>6

\* FitInList returns NULL on a list with no position of asize bytes, and
\* otherwise a block of the region at such a position.
LEMMA FitInListSpec ==
  ASSUME NEW m \in MemT, NEW c, NEW asize \in Nat \ {0}
  PROVE  /\ FitsAt(m, c, asize) = {} => FitInList(m, c, asize) = NULL
         /\ FitsAt(m, c, asize) # {} =>
              \E k \in FitsAt(m, c, asize) :
                 FitInList(m, c, asize) = c[k] /\ c[k] \in Addrs
<1>. DEFINE fits == FitsAt(m, c, asize)
            anchor == Least(fits)
            window == {k \in fits : k <= anchor + ScanLimit}
            best == CHOOSE k \in window : \A j \in window : Better(m, c, k, j)
<1>1. fits \in SUBSET Nat
  BY MaxChainNat DEF FitsAt, Reached
<1>2. FitInList(m, c, asize) = IF fits = {} THEN NULL ELSE AsBlock(c[best])
  BY DEF FitInList, FitsAt, Reached, Better
<1>3. CASE fits # {}
  <2>1. anchor \in window
    BY <1>1, <1>3, LeastNat, ScanAssumption
  <2>2. \E k \in window : \A j \in window : Better(m, c, k, j)
    <3>1. \A k \in window : GetSize(m, c[k]) >= asize
      BY DEF FitsAt
    <3>2. window \in SUBSET Nat /\ window # {}
      BY <1>1, <2>1
    <3>3. asize \in Int
      OBVIOUS
    <3>. HIDE DEF window
    <3>. QED  BY <3>1, <3>2, <3>3, BestExists, Zenon
  <2>3. best \in fits /\ GetSize(m, c[best]) >= asize
    BY <2>2 DEF FitsAt
  <2>4. c[best] \in Addrs
    BY <2>3, GetSizeFacts
  <2>. QED  BY <1>2, <1>3, <2>3, <2>4 DEF AsBlock
<1>. QED  BY <1>2, <1>3

\* find_fit past its mini-list shortcut: the scan of the classes from the
\* request's own upwards returns NULL when no list there has a position of
\* asize bytes, and otherwise a block of the region at such a position of
\* one of them.
LEMMA FindFitSpec ==
  ASSUME NEW s, s.mem \in MemT, NEW asize \in Nat \ {0},
         ~(asize = MinBlockSize /\ s.mini # NULL)
  PROVE  /\ (\A i \in SegIndex(asize) .. SegListLen - 1 :
               FitsAt(s.mem, Chain(s.mem, s.seg[i]), asize) = {})
              => FindFit(s, asize) = NULL
         /\ (\E i \in SegIndex(asize) .. SegListLen - 1 :
               FitsAt(s.mem, Chain(s.mem, s.seg[i]), asize) # {})
              => \E j \in SegIndex(asize) .. SegListLen - 1 :
                   \E k \in FitsAt(s.mem, Chain(s.mem, s.seg[j]), asize) :
                     /\ FindFit(s, asize) = Chain(s.mem, s.seg[j])[k]
                     /\ Chain(s.mem, s.seg[j])[k] \in Addrs
<1>. DEFINE C(i) == Chain(s.mem, s.seg[i])
            R == SegIndex(asize) .. SegListLen - 1
            hits == {i \in R : FitInList(s.mem, C(i), asize) # NULL}
<1>1. \A i \in R : FitInList(s.mem, C(i), asize) # NULL <=> FitsAt(s.mem, C(i), asize) # {}
  BY FitInListSpec, NullNotAddr
<1>2. FindFit(s, asize) = IF hits = {} THEN NULL ELSE FitInList(s.mem, C(Least(hits)), asize)
  BY DEF FindFit
<1>3. hits \in SUBSET Nat
  BY SegIndexRange DEF SegIdx, SegListLen
<1>4. ASSUME NEW i \in R, FitsAt(s.mem, C(i), asize) # {}
      PROVE  \E j \in R : \E k \in FitsAt(s.mem, C(j), asize) :
               FindFit(s, asize) = C(j)[k] /\ C(j)[k] \in Addrs
  <2>1. i \in hits
    BY <1>1, <1>4
  <2>2. Least(hits) \in hits
    BY <1>3, <2>1, LeastNat
  <2>3. FitsAt(s.mem, C(Least(hits)), asize) # {}
    BY <1>1, <2>2
  <2>4. \E k \in FitsAt(s.mem, C(Least(hits)), asize) :
          FitInList(s.mem, C(Least(hits)), asize) = C(Least(hits))[k]
          /\ C(Least(hits))[k] \in Addrs
    BY <2>3, FitInListSpec
  <2>. QED  BY <1>2, <2>1, <2>2, <2>4
<1>. QED  BY <1>1, <1>2, <1>4

-----------------------------------------------------------------------------
(* find_fit on a heap whose free lists are exact.                          *)

\* find_fit is correct on every heap whose free lists hold exactly its free
\* blocks (FitCorrect from FreeListsExact): malloc never extends the heap
\* while a free block of the adjusted size exists, and the block find_fit
\* hands it is free and large enough.  The step from a fitting free block
\* to a non-empty scan uses the monotonicity of determine_seg_index; the
\* mini-list shortcut is taken only for 16-byte requests, and every
\* 16-byte free block is on the mini list.
THEOREM FitFromLists == TypeOK /\ FreeListsExact => FitCorrect
<1>. DEFINE free == {b \in WalkBlocks(HeapWalk(mem, start), Epilogue) : ~GetAlloc(mem, b)}
            Nodes(i) == ChainNodes(Chain(mem, seg[i]))
            R(a) == SegIndex(a) .. SegListLen - 1
<1>. SUFFICES ASSUME TypeOK, FreeListsExact, Initialized, NEW asize \in FitSizes
              PROVE  FitMeets(FindFit(State, asize), free, asize)
  BY DEF FitCorrect
<1>1. /\ ChainNodes(Chain(mem, mini)) = {b \in free : GetSize(mem, b) = MinBlockSize}
      /\ \A i \in SegIdx :
           Nodes(i) = {b \in free : GetSize(mem, b) # MinBlockSize
                                    /\ SegIndex(GetSize(mem, b)) = i}
  BY DEF FreeListsExact
<1>2. asize \in Nat \ {0} /\ asize >= MinBlockSize
  BY HeapAssumption DEF FitSizes, DSize, MinBlockSize
<1>3. State.mem = mem /\ State.seg = seg /\ State.mini = mini /\ mem \in MemT
  BY DEF State, TypeOK, MemT
<1>4. \A b : GetSize(mem, b) \in Int
  BY <1>3, GetSizeFacts
<1>5. CASE asize = MinBlockSize /\ mini # NULL
  <2>1. FindFit(State, asize) = mini
    BY <1>3, <1>5 DEF FindFit
  <2>2. mini \in free /\ GetSize(mem, mini) = MinBlockSize
    BY <1>1, <1>5, ChainNodesHead
  <2>. QED  BY <1>5, <2>1, <2>2 DEF FitMeets, MinBlockSize
<1>6. CASE ~(asize = MinBlockSize /\ mini # NULL)
  <2>1. \A i \in R(asize) : FitsAt(mem, Chain(mem, seg[i]), asize) # {} =>
          \E j \in R(asize) : \E k \in FitsAt(mem, Chain(mem, seg[j]), asize) :
             FindFit(State, asize) = Chain(mem, seg[j])[k] /\ Chain(mem, seg[j])[k] \in Addrs
    BY <1>2, <1>3, <1>6, FindFitSpec
  <2>2. (\A i \in R(asize) : FitsAt(mem, Chain(mem, seg[i]), asize) = {})
          => FindFit(State, asize) = NULL
    BY <1>2, <1>3, <1>6, FindFitSpec
  <2>3. CASE \E i \in R(asize) : FitsAt(mem, Chain(mem, seg[i]), asize) # {}
    <3>0. PICK j \in R(asize) : \E k \in FitsAt(mem, Chain(mem, seg[j]), asize) :
            FindFit(State, asize) = Chain(mem, seg[j])[k] /\ Chain(mem, seg[j])[k] \in Addrs
      BY <2>1, <2>3
    <3>1. PICK k \in FitsAt(mem, Chain(mem, seg[j]), asize) :
            FindFit(State, asize) = Chain(mem, seg[j])[k] /\ Chain(mem, seg[j])[k] \in Addrs
      BY <3>0
    <3>2. j \in SegIdx
      BY SegIndexRange DEF SegIdx, SegListLen
    <3>3. Chain(mem, seg[j])[k] \in Nodes(j) /\ GetSize(mem, Chain(mem, seg[j])[k]) >= asize
      BY DEF FitsAt, Reached, ChainNodes
    <3>4. FindFit(State, asize) \in free /\ FindFit(State, asize) # NULL
          /\ GetSize(mem, FindFit(State, asize)) >= asize
      BY <1>1, <3>1, <3>2, <3>3, NullNotAddr
    <3>5. ~\A b \in free : GetSize(mem, b) < asize
      <4>. HIDE DEF free
      <4>. QED  BY <1>2, <1>4, <3>4
    <3>. QED  BY <3>4, <3>5 DEF FitMeets
  <2>4. CASE \A i \in R(asize) : FitsAt(mem, Chain(mem, seg[i]), asize) = {}
    <3>1. FindFit(State, asize) = NULL
      BY <2>2, <2>4
    <3>2. ASSUME NEW b \in free, GetSize(mem, b) >= asize PROVE FALSE
      <4>1. CASE GetSize(mem, b) = MinBlockSize
        <5>1. b \in ChainNodes(Chain(mem, mini))
          BY <1>1, <4>1
        <5>2. mini # NULL
          BY <5>1, ChainNodesHead
        <5>3. asize = MinBlockSize
          BY <1>2, <1>4, <3>2, <4>1
        <5>. QED  BY <1>6, <5>2, <5>3
      <4>2. CASE GetSize(mem, b) # MinBlockSize
        <5>. DEFINE i == SegIndex(GetSize(mem, b))
        <5>1. i \in SegIdx /\ b \in Nodes(i)
          BY <1>1, <4>2, SegIndexRange
        <5>2. i \in R(asize)
          <6>1. SegIndex(asize) <= i
            BY <1>2, <1>4, <3>2, SegIndexMonotone
          <6>. QED  BY <5>1, <6>1 DEF SegIdx, SegListLen
        <5>3. PICK k \in Reached(Chain(mem, seg[i])) : Chain(mem, seg[i])[k] = b
          BY <5>1 DEF ChainNodes, Reached
        <5>4. k \in FitsAt(mem, Chain(mem, seg[i]), asize)
          BY <3>2, <5>3 DEF FitsAt
        <5>. QED  BY <2>4, <5>2, <5>4
      <4>. QED  BY <4>1, <4>2
    <3>3. \A b \in free : GetSize(mem, b) < asize
      <4>. HIDE DEF free
      <4>. QED  BY <1>2, <1>4, <3>2
    <3>. QED  BY <3>1, <3>3 DEF FitMeets, NULL
  <2>. QED  BY <2>3, <2>4
<1>. QED  BY <1>5, <1>6

=============================================================================
