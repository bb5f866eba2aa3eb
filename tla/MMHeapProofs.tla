---------------------------- MODULE MMHeapProofs ----------------------------
(***************************************************************************)
(* Proofs about MMHeap.  Every helper of mm.c is an operator from a state *)
(* record to a state record; the lemmas below show that each one maps a    *)
(* well-typed state to a well-typed state, and the theorems lift this to   *)
(* the actions and to the specification.                                  *)
(***************************************************************************)
EXTENDS MMHeap, FiniteSetTheorems, TLAPS

\* The values the allocator's memory, its state records, and the records
\* the C functions with a result return.
MemT == [Addrs -> Int]
SType == [mem : MemT, brk : HeapBase .. HeapBase + MaxHeap, start : Int,
          seg : [SegIdx -> Int], mini : Int]

-----------------------------------------------------------------------------
(* Words.                                                                  *)

\* A read from a typed memory is an integer, wherever it is made.
LEMMA LoadInt ==
  ASSUME NEW m \in MemT, NEW a
  PROVE  Load(m, a) \in Int
BY DEF Load, MemT, NULL

\* A write of an integer keeps the memory typed, wherever it is made (a
\* write outside the region changes nothing).
LEMMA StoreMem ==
  ASSUME NEW m \in MemT, NEW a, NEW v \in Int
  PROVE  Store(m, a, v) \in MemT
BY DEF Store, MemT

\* pack of an integer size is an integer.
LEMMA PackInt ==
  ASSUME NEW size \in Int, NEW x, NEW y, NEW z
  PROVE  Pack(size, x, y, z) \in Int
BY DEF Pack, Bit

\* get_size of a typed memory is an integer.
LEMMA GetSizeInt ==
  ASSUME NEW m \in MemT, NEW b
  PROVE  GetSize(m, b) \in Int
BY LoadInt DEF GetSize, ExtractSize

\* find_next of a block address is an address.
LEMMA FindNextInt ==
  ASSUME NEW m \in MemT, NEW b \in Int
  PROVE  FindNext(m, b) \in Int
BY GetSizeInt DEF FindNext

-----------------------------------------------------------------------------
(* Block writers: write_epilogue, step 2 of write_block, write_miniblock   *)
(* and write_block keep the memory typed whatever the block and the size.  *)

LEMMA WriteEpilogueMem ==
  ASSUME NEW m \in MemT, NEW b, NEW x
  PROVE  WriteEpilogue(m, b, x) \in MemT
<1>1. Pack(0, TRUE, FALSE, x) \in Int
  BY DEF Pack, Bit
<1>. QED  BY <1>1, StoreMem DEF WriteEpilogue

LEMMA SetNextPrevBitsMem ==
  ASSUME NEW m \in MemT, NEW b, NEW x, NEW y
  PROVE  SetNextPrevBits(m, b, x, y) \in MemT
<1>1. ExtractSize(Load(m, FindNext(m, b))) \in Int
  BY LoadInt DEF ExtractSize
<1>. QED  BY <1>1, StoreMem, PackInt DEF SetNextPrevBits

LEMMA WriteMiniblockMem ==
  ASSUME NEW m \in MemT, NEW b, NEW size \in Int, NEW x, NEW y, NEW z
  PROVE  WriteMiniblock(m, b, size, x, y, z) \in MemT
BY StoreMem, PackInt, SetNextPrevBitsMem DEF WriteMiniblock

LEMMA WriteBlockMem ==
  ASSUME NEW m \in MemT, NEW b, NEW size \in Int, NEW x, NEW y, NEW z
  PROVE  WriteBlock(m, b, size, x, y, z) \in MemT
<1>1. Store(m, b, Pack(size, x, y, z)) \in MemT
  BY StoreMem, PackInt
<1>2. Store(Store(m, b, Pack(size, x, y, z)),
            HeaderToFooter(Store(m, b, Pack(size, x, y, z)), b),
            Pack(size, x, y, z)) \in MemT
  BY <1>1, StoreMem, PackInt
<1>. QED  BY <1>1, <1>2, WriteMiniblockMem, SetNextPrevBitsMem DEF WriteBlock

\* determine_seg_index returns one of the ten class indices.
LEMMA SegIndexType ==
  ASSUME NEW size
  PROVE  SegIndex(size) \in SegIdx
<1>. DEFINE S == {i \in 1 .. 9 : GroupSize[i] < size}
<1>1. IsFiniteSet(1 .. 9) /\ Cardinality(1 .. 9) = 9
  <2>0. 1 \in Int /\ 9 \in Int
    OBVIOUS
  <2>1. IsFiniteSet(1 .. 9) /\ Cardinality(1 .. 9) = IF 1 > 9 THEN 0 ELSE 9 - 1 + 1
    BY <2>0, FS_Interval
  <2>. QED  BY <2>1
<1>2. S \subseteq 1 .. 9
  OBVIOUS
<1>3. Cardinality(S) \in Nat /\ Cardinality(S) <= 9
  BY <1>1, <1>2, FS_Subset, FS_CardinalityType
<1>. QED  BY <1>3 DEF SegIndex, SegIdx, SegListLen

-----------------------------------------------------------------------------
(* Free lists.  A node pointer stored anywhere is an integer: a block      *)
(* address, or NULL, or a word read from memory.                           *)

LEMMA AddToMiniFreeListType ==
  ASSUME NEW s \in SType, NEW b \in Int
  PROVE  AddToMiniFreeList(s, b) \in SType
<1>1. Store(s.mem, b + WSize, s.mini) \in MemT
  BY StoreMem DEF SType
<1>. QED  BY <1>1 DEF AddToMiniFreeList, SType

LEMMA AddToFreeListType ==
  ASSUME NEW s \in SType, NEW b \in Int
  PROVE  AddToFreeList(s, b) \in SType
<1>. DEFINE i == SegIndex(GetSize(s.mem, b))
            head == s.seg[i]
<1>1. head \in Int
  BY SegIndexType DEF SType
<1>2. CASE GetSize(s.mem, b) = MinBlockSize
  BY <1>2, AddToMiniFreeListType DEF AddToFreeList
<1>3. CASE GetSize(s.mem, b) # MinBlockSize /\ head = NULL
  <2>1. Store(Store(s.mem, b + DSize, NULL), b + WSize, NULL) \in MemT
    BY StoreMem DEF SType, NULL
  <2>. QED  BY <1>3, <2>1 DEF AddToFreeList, SType
<1>4. CASE GetSize(s.mem, b) # MinBlockSize /\ head # NULL
  <2>2. Store(Store(Store(s.mem, b + WSize, head), head + DSize, b), b + DSize, NULL)
          \in MemT
    BY <1>1, StoreMem DEF SType, NULL
  <2>. QED  BY <1>4, <2>2 DEF AddToFreeList, SType
<1>. QED  BY <1>2, <1>3, <1>4

LEMMA RemoveFromMiniFreeListType ==
  ASSUME NEW s \in SType, NEW b
  PROVE  RemoveFromMiniFreeList(s, b) \in SType
<1>. DEFINE nxt == NextFree(s.mem, b)
<1>1. nxt \in Int
  BY LoadInt DEF NextFree, SType
<1>2. \A a : Store(s.mem, a, nxt) \in MemT
  BY <1>1, StoreMem DEF SType
<1>. QED  BY <1>1, <1>2 DEF RemoveFromMiniFreeList, SType

LEMMA RemoveFromFreeListType ==
  ASSUME NEW s \in SType, NEW b
  PROVE  RemoveFromFreeList(s, b) \in SType
<1>. DEFINE nxt == NextFree(s.mem, b)
            prv == PrevFree(s.mem, b)
            m1 == IF prv # NULL THEN Store(s.mem, prv + WSize, nxt) ELSE s.mem
            m2 == IF nxt # NULL THEN Store(m1, nxt + DSize, prv) ELSE m1
<1>1. nxt \in Int /\ prv \in Int
  BY LoadInt DEF NextFree, PrevFree, SType
<1>2. m1 \in MemT
  BY <1>1, StoreMem DEF SType
<1>3. m2 \in MemT
  BY <1>1, <1>2, StoreMem
<1>4. Store(Store(m2, b + WSize, NULL), b + DSize, NULL) \in MemT
  BY <1>3, StoreMem DEF NULL
<1>5. [s.seg EXCEPT ![SegIndex(GetSize(s.mem, b))] = nxt] \in [SegIdx -> Int]
  BY <1>1 DEF SType
<1>. QED  BY <1>4, <1>5, RemoveFromMiniFreeListType DEF RemoveFromFreeList, SType

-----------------------------------------------------------------------------
(* Coalescing.                                                             *)

\* The block before b, however coalesce_block locates it, is an address.
LEMMA PrevBlockInt ==
  ASSUME NEW m \in MemT, NEW b \in Int
  PROVE  PrevBlock(m, b) \in Int
<1>1. ExtractSize(Load(m, b - WSize)) \in Int
  BY LoadInt DEF ExtractSize
<1>. QED  BY <1>1 DEF PrevBlock, FindPrev, MinBlockSize, WSize

LEMMA CoalesceResultInt ==
  ASSUME NEW s \in SType, NEW b \in Int
  PROVE  CoalesceResult(s, b) \in Int
BY PrevBlockInt DEF CoalesceResult, SType

\* Replacing the memory of a typed state by a typed memory gives a typed
\* state.
LEMMA SetMemType ==
  ASSUME NEW s \in SType, NEW m \in MemT
  PROVE  [s EXCEPT !.mem = m] \in SType
BY DEF SType

\* mm_init's assignment of every global keeps a state typed.
LEMMA SetAllType ==
  ASSUME NEW s \in SType, NEW m \in MemT, NEW k \in HeapBase .. HeapBase + MaxHeap,
         NEW st \in Int, NEW sg \in [SegIdx -> Int], NEW mi \in Int
  PROVE  [s EXCEPT !.seg = sg, !.mini = mi, !.mem = m, !.start = st, !.brk = k] \in SType
BY DEF SType

\* The result of a C function returning a pointer, and the state after it.
RType == [st : SType, ret : Int]

\* Each merge of coalesce_block writes a typed block over a typed state.
LEMMA MergeType ==
  ASSUME NEW s1 \in SType, NEW b \in Int, NEW nb \in Int, NEW pb \in Int,
         NEW prevMini \in BOOLEAN
  PROVE  /\ MergeNext(s1, b, nb, prevMini) \in SType
         /\ MergePrev(s1, pb, b) \in SType
         /\ MergeBoth(s1, pb, b, nb) \in SType
<1>1. s1.mem \in MemT
  BY DEF SType
<1>2. GetSize(s1.mem, b) + GetSize(s1.mem, nb) \in Int
      /\ GetSize(s1.mem, pb) + GetSize(s1.mem, b) \in Int
      /\ GetSize(s1.mem, pb) + GetSize(s1.mem, b) + GetSize(s1.mem, nb) \in Int
  BY <1>1, GetSizeInt
<1>. QED  BY <1>1, <1>2, WriteBlockMem, SetMemType DEF MergeNext, MergePrev, MergeBoth

LEMMA CoalesceBlockType ==
  ASSUME NEW s \in SType, NEW b \in Int
  PROVE  CoalesceBlock(s, b) \in RType
<1>. DEFINE nb == FindNext(s.mem, b)
            pb == PrevBlock(s.mem, b)
            nextFree == ~GetAlloc(s.mem, nb)
            prevFree == ~GetPrevAlloc(s.mem, b)
            merged ==
              CASE ~prevFree /\ ~nextFree -> s
                [] ~prevFree /\ nextFree ->
                     MergeNext(RemoveFromFreeList(s, nb), b, nb, GetPrevMini(s.mem, b))
                [] prevFree /\ ~nextFree -> MergePrev(RemoveFromFreeList(s, pb), pb, b)
                [] prevFree /\ nextFree ->
                     MergeBoth(RemoveFromFreeList(RemoveFromFreeList(s, pb), nb), pb, b, nb)
            r == CoalesceResult(s, b)
<1>1. nb \in Int /\ pb \in Int
  BY FindNextInt, PrevBlockInt DEF SType
<1>2. /\ RemoveFromFreeList(s, nb) \in SType
      /\ RemoveFromFreeList(s, pb) \in SType
      /\ RemoveFromFreeList(RemoveFromFreeList(s, pb), nb) \in SType
  BY <1>1, RemoveFromFreeListType
<1>3. GetPrevMini(s.mem, b) \in BOOLEAN
  BY DEF GetPrevMini, ExtractPrevMini
<1>4. merged \in SType
  BY <1>1, <1>2, <1>3, MergeType
<1>5. r \in Int
  BY CoalesceResultInt
<1>6. CoalesceBlock(s, b) = [st |-> AddToFreeList(merged, r), ret |-> r]
  BY DEF CoalesceBlock
<1>. HIDE DEF merged, r
<1>. QED  BY <1>4, <1>5, <1>6, AddToFreeListType DEF RType

-----------------------------------------------------------------------------
(* Extension, splitting, fit finding.                                      *)

\* round_up on size_t yields a size_t.
LEMMA RoundUpRange ==
  ASSUME NEW size \in Int, NEW n \in Nat \ {0}
  PROVE  RoundUp(size, n) \in 0 .. SizeMod - 1
BY SizeModAssumption DEF RoundUp

\* extend_heap's write of the new block and epilogue, once mem_sbrk has
\* granted the bytes, moves the break within the region.
LEMMA ExtendWriteType ==
  ASSUME NEW s \in SType, NEW size \in Int,
         ~SbrkFails(s, RoundUp(size, DSize))
  PROVE  ExtendWrite(s, size) \in SType
<1>. DEFINE sz == RoundUp(size, DSize)
            b == s.brk - WSize
            m1 == WriteBlock(s.mem, b, sz, FALSE, GetPrevAlloc(s.mem, b), GetPrevMini(s.mem, b))
<1>1. sz \in 0 .. SizeMod - 1
  BY RoundUpRange DEF DSize
<1>2. m1 \in MemT
  <2>1. sz \in Int
    BY <1>1, SizeModAssumption
  <2>. QED  BY <2>1, WriteBlockMem DEF SType
<1>3. WriteEpilogue(m1, FindNext(m1, b), GetSize(m1, b) = MinBlockSize) \in MemT
  BY <1>2, WriteEpilogueMem
<1>4. s.brk + sz \in HeapBase .. HeapBase + MaxHeap
  BY <1>1, SizeModAssumption, HeapAssumption DEF SType, SbrkFails
<1>. QED  BY <1>3, <1>4 DEF ExtendWrite, SType

LEMMA ExtendHeapType ==
  ASSUME NEW s \in SType, NEW size \in Int
  PROVE  ExtendHeap(s, size) \in RType
<1>1. CASE SbrkFails(s, RoundUp(size, DSize))
  BY <1>1 DEF ExtendHeap, NULL, RType
<1>2. CASE ~SbrkFails(s, RoundUp(size, DSize))
  <2>1. ExtendWrite(s, size) \in SType
    BY <1>2, ExtendWriteType
  <2>2. s.brk - WSize \in Int
    BY DEF SType, WSize
  <2>. QED  BY <1>2, <2>1, <2>2, CoalesceBlockType DEF ExtendHeap, RType
<1>. QED  BY <1>1, <1>2

LEMMA SplitBlockType ==
  ASSUME NEW s \in SType, NEW b \in Int, NEW asize \in Int
  PROVE  SplitBlock(s, b, asize) \in SType
<1>. DEFINE rest == (GetSize(s.mem, b) - asize) % SizeMod
            m1 == WriteBlock(s.mem, b, asize, TRUE, GetPrevAlloc(s.mem, b), GetPrevMini(s.mem, b))
            nb == FindNext(m1, b)
            m2 == WriteBlock(m1, nb, rest, FALSE, TRUE, GetSize(m1, b) = MinBlockSize)
<1>1. m1 \in MemT
  BY WriteBlockMem DEF SType
<1>2. rest \in Int /\ nb \in Int
  <2>1. GetSize(s.mem, b) \in Int /\ GetSize(m1, b) \in Int
    BY <1>1, GetSizeInt DEF SType
  <2>2. rest \in Int
    BY <2>1, SizeModAssumption
  <2>3. nb \in Int
    BY <1>1, FindNextInt
  <2>. QED  BY <2>2, <2>3
<1>3. m2 \in MemT
  BY <1>1, <1>2, WriteBlockMem
<1>4. [s EXCEPT !.mem = m2] \in SType
  BY <1>3, SetMemType
<1>. QED  BY <1>2, <1>4, AddToFreeListType DEF SplitBlock

\* find_fit returns a block address or NULL.
LEMMA FindFitInt ==
  ASSUME NEW s \in SType, NEW asize
  PROVE  FindFit(s, asize) \in Int
<1>1. \A m, h : FitInList(m, h, asize) \in Int
  BY DEF FitInList, AsBlock, NULL, Addrs
<1>. QED  BY <1>1 DEF FindFit, SType, NULL

-----------------------------------------------------------------------------
(* The public operations.                                                  *)

LEMMA MmInitType ==
  ASSUME NEW s \in SType
  PROVE  MmInit(s) \in [st : SType, ret : BOOLEAN]
<1>. DEFINE base == s.brk
            s1 == [s EXCEPT !.seg = [i \in SegIdx |-> NULL], !.mini = NULL,
                            !.mem = Store(Store(@, base, Pack(0, TRUE, FALSE, FALSE)),
                                          base + WSize, Pack(0, TRUE, TRUE, FALSE)),
                            !.start = base + WSize, !.brk = @ + 2 * WSize]
<1>1. CASE SbrkFails(s, 2 * WSize)
  BY <1>1 DEF MmInit
<1>2. CASE ~SbrkFails(s, 2 * WSize)
  <2>1. Store(Store(s.mem, base, Pack(0, TRUE, FALSE, FALSE)),
              base + WSize, Pack(0, TRUE, TRUE, FALSE)) \in MemT
    <3>1. Pack(0, TRUE, FALSE, FALSE) \in Int /\ Pack(0, TRUE, TRUE, FALSE) \in Int
      BY DEF Pack, Bit
    <3>. QED  BY <3>1, StoreMem DEF SType
  <2>2. s.brk + 2 * WSize \in HeapBase .. HeapBase + MaxHeap
    BY <1>2, HeapAssumption DEF SbrkFails, SType, WSize
  <2>3. s1 \in SType
    <3>1. [i \in SegIdx |-> NULL] \in [SegIdx -> Int] /\ NULL \in Int /\ base + WSize \in Int
      BY DEF NULL, SType, WSize
    <3>. QED  BY <2>1, <2>2, <3>1, SetAllType
  <2>4. ExtendHeap(s1, ChunkSize) \in RType
    BY <2>3, ChunkAssumption, ExtendHeapType
  <2>. QED  BY <1>2, <2>4 DEF MmInit, RType
<1>. QED  BY <1>1, <1>2

\* find_fit's block, or extend_heap's.
LEMMA FitOrExtendType ==
  ASSUME NEW s \in SType, NEW asize \in Int, NEW fit \in Int
  PROVE  FitOrExtend(s, asize, fit) \in RType
<1>1. max(asize, ChunkSize) \in Int
  BY ChunkAssumption DEF max
<1>. QED  BY <1>1, ExtendHeapType DEF FitOrExtend, RType

LEMMA PlaceBlockType ==
  ASSUME NEW got \in RType, NEW asize \in Int
  PROVE  PlaceBlock(got, asize) \in RType
<1>. DEFINE b == got.ret
            m1 == WriteBlock(got.st.mem, b, GetSize(got.st.mem, b), TRUE,
                             GetPrevAlloc(got.st.mem, b), GetPrevMini(got.st.mem, b))
<1>1. got.st \in SType /\ b \in Int
  BY DEF RType
<1>2. m1 \in MemT
  BY <1>1, GetSizeInt, WriteBlockMem DEF SType
<1>3. PlaceUnlinked(got) \in SType
  BY <1>1, <1>2, SetMemType, RemoveFromFreeListType DEF PlaceUnlinked
<1>4. SplitBlock(PlaceUnlinked(got), b, asize) \in SType
  BY <1>1, <1>3, SplitBlockType
<1>5. b + WSize \in Int /\ NULL \in Int
  BY <1>1 DEF WSize, NULL
<1>. QED  BY <1>1, <1>4, <1>5 DEF PlaceBlock, RType

LEMMA MallocFromType ==
  ASSUME NEW init \in [st : SType, ret : BOOLEAN], NEW size \in Int
  PROVE  MallocFrom(init, size) \in RType
<1>. DEFINE asize == AdjustedSize(size)
<1>1. asize \in Int
  <2>1. (size + WSize) % SizeMod \in Int
    BY SizeModAssumption DEF WSize
  <2>. QED  BY <2>1, RoundUpRange, SizeModAssumption DEF DSize, AdjustedSize
<1>2. FindFit(init.st, asize) \in Int
  BY FindFitInt
<1>3. PlaceBlock(FitOrExtend(init.st, asize, FindFit(init.st, asize)), asize) \in RType
  BY <1>1, <1>2, FitOrExtendType, PlaceBlockType
<1>4. NULL \in Int
  BY DEF NULL
<1>5. MallocFrom(init, size) =
        CASE ~init.ret -> [st |-> init.st, ret |-> NULL]
          [] size = 0 -> [st |-> init.st, ret |-> NULL]
          [] OTHER -> PlaceBlock(FitOrExtend(init.st, asize, FindFit(init.st, asize)), asize)
  BY DEF MallocFrom
<1>. HIDE DEF asize
<1>. QED  BY <1>3, <1>4, <1>5 DEF RType

LEMMA MallocOpType ==
  ASSUME NEW s0 \in SType, NEW size \in Int
  PROVE  MallocOp(s0, size) \in RType
<1>1. (IF s0.start = NULL THEN MmInit(s0) ELSE [st |-> s0, ret |-> TRUE])
        \in [st : SType, ret : BOOLEAN]
  BY MmInitType
<1>. QED  BY <1>1, MallocFromType DEF MallocOp

LEMMA FreeOpType ==
  ASSUME NEW s \in SType, NEW bp \in Int
  PROVE  FreeOp(s, bp) \in SType
<1>. DEFINE b == bp - WSize
            m1 == WriteBlock(s.mem, b, GetSize(s.mem, b), FALSE,
                             GetPrevAlloc(s.mem, b), GetPrevMini(s.mem, b))
<1>1. m1 \in MemT
  BY GetSizeInt, WriteBlockMem DEF SType
<1>2. [s EXCEPT !.mem = m1] \in SType
  BY <1>1, SetMemType
<1>3. b \in Int
  BY DEF WSize
<1>. QED  BY <1>2, <1>3, CoalesceBlockType DEF FreeOp, RType

LEMMA ReallocOpType ==
  ASSUME NEW s \in SType, NEW ptr \in Int, NEW size \in Int
  PROVE  ReallocOp(s, ptr, size) \in RType
<1>1. MallocOp(s, size) \in RType
  BY MallocOpType
<1>2. FreeOp(s, ptr) \in SType /\ FreeOp(MallocOp(s, size).st, ptr) \in SType
  BY <1>1, FreeOpType DEF RType
<1>3. ReallocMove(MallocOp(s, size), ptr) \in RType
  BY <1>1, <1>2 DEF ReallocMove, RType
<1>. QED  BY <1>1, <1>2, <1>3 DEF ReallocOp, RType, NULL

LEMMA CallocOpType ==
  ASSUME NEW s \in SType, NEW elements \in Int, NEW size \in Int
  PROVE  CallocOp(s, elements, size) \in RType
<1>1. (elements * size) % SizeMod \in Int
  BY SizeModAssumption
<1>. QED  BY <1>1, MallocOpType DEF CallocOp, RType, NULL

-----------------------------------------------------------------------------
(* Type correctness of the specification.                                 *)

\* The state record of a typed state is typed.
LEMMA StateType ==
  TypeOK => State \in SType
BY DEF TypeOK, State, SType, MemT

\* Installing a typed state record types the allocator's variables.
LEMMA SetStateType ==
  ASSUME NEW s \in SType, SetState(s)
  PROVE  /\ mem' \in [Addrs -> Int]
         /\ brk' \in HeapBase .. HeapBase + MaxHeap
         /\ start' \in Int
         /\ seg' \in [SegIdx -> Int]
         /\ mini' \in Int
BY DEF SetState, SType, MemT

\* Every call of the driver (mm_init, malloc, free, realloc, calloc) maps a
\* typed state to a typed state: the allocator's words stay integers,
\* memlib's break stays within MAX_HEAP (extend_heap and mm_init grow it
\* only when mem_sbrk grants the bytes), and the driver's record of each
\* held pointer stays a size_t.
THEOREM TypeCorrect == Spec => []TypeOK
<1>1. Init => TypeOK
  BY HeapAssumption, SizeModAssumption DEF Init, TypeOK, NULL, SegIdx, SegListLen
<1>2. TypeOK /\ [Next]_vars => TypeOK'
  <2> SUFFICES ASSUME TypeOK, [Next]_vars PROVE TypeOK'
    OBVIOUS
  <2>1. State \in SType
    BY StateType
  <2>2. 0 \in 0 .. SizeMod - 1
    BY SizeModAssumption
  <2>3. CASE MmInitAction
    <3>1. MmInit(State).st \in SType
      BY <2>1, MmInitType
    <3>. QED  BY <2>3, <3>1, SetStateType DEF MmInitAction, TypeOK
  <2>4. ASSUME NEW n \in Requests, Malloc(n)
        PROVE  TypeOK'
    <3>1. MallocOp(State, n) \in RType
      BY <2>1, RequestAssumption, MallocOpType
    <3>2. n \in 0 .. SizeMod - 1
      BY RequestAssumption
    <3>. QED  BY <2>4, <3>1, <3>2, SetStateType DEF Malloc, MallocDone, RType, TypeOK
  <2>5. ASSUME NEW p \in Held, Free(p)
        PROVE  TypeOK'
    <3>1. FreeOp(State, p) \in SType
      BY <2>1, FreeOpType DEF Held, Addrs
    <3>. QED  BY <2>2, <2>5, <3>1, SetStateType DEF Free, TypeOK
  <2>6. ASSUME NEW p \in Held \cup {NULL}, NEW n \in Requests, Realloc(p, n)
        PROVE  TypeOK'
    <3>1. ReallocOp(State, p, n) \in RType
      BY <2>1, RequestAssumption, ReallocOpType DEF Held, Addrs, NULL
    <3>2. n \in 0 .. SizeMod - 1
      BY RequestAssumption
    <3>. QED  BY <2>2, <2>6, <3>1, <3>2, SetStateType DEF Realloc, ReallocDone, RType, TypeOK
  <2>7. ASSUME NEW a \in CallocArgs, Calloc(a[1], a[2])
        PROVE  TypeOK'
    <3>1. a[1] \in 0 .. SizeMod - 1 /\ a[2] \in 0 .. SizeMod - 1
      BY RequestAssumption
    <3>2. CallocOp(State, a[1], a[2]) \in RType
      BY <2>1, <3>1, SizeModAssumption, CallocOpType
    <3>3. (a[1] * a[2]) % SizeMod \in 0 .. SizeMod - 1
      BY <3>1, SizeModAssumption
    <3>. QED  BY <2>7, <3>2, <3>3, SetStateType DEF Calloc, MallocDone, RType, TypeOK
  <2>8. CASE UNCHANGED vars
    BY <2>8 DEF vars, TypeOK
  <2>. QED  BY <2>3, <2>4, <2>5, <2>6, <2>7, <2>8 DEF Next
<1>. QED  BY <1>1, <1>2, PTL DEF Spec
=============================================================================
