----------------------------- MODULE MMSizeProofs -----------------------------
(***************************************************************************)
(* Proofs about the size arithmetic of src/mm.c on size_t, for every      *)
(* width of size_t of at least 8 bits: the header codec, malloc's         *)
(* adjusted size round_up(size + wsize, dsize) and calloc's overflow      *)
(* test.  Sizes are naturals below 2^Width and every addition and product *)
(* wraps, as MMHeap takes them.                                            *)
(***************************************************************************)
EXTENDS MMHeap, TLAPS

-----------------------------------------------------------------------------
(* Division and remainder by a positive natural.                          *)

\* x % d and x \div d are the remainder and quotient of the one way of
\* writing x as q * d + r with 0 <= r < d.
LEMMA DivModChar ==
  ASSUME NEW d \in Nat \ {0}, NEW x \in Int, NEW q \in Int, NEW r \in 0 .. d - 1,
         x = q * d + r
  PROVE  x % d = r /\ x \div d = q
BY SMT

\* A natural below d is its own remainder.
LEMMA ModSmall ==
  ASSUME NEW d \in Nat \ {0}, NEW x \in 0 .. d - 1
  PROVE  x % d = x /\ x \div d = 0
BY DivModChar

\* A natural in d .. 2d - 1 wraps once.
LEMMA ModOnce ==
  ASSUME NEW d \in Nat \ {0}, NEW x \in d .. 2 * d - 1
  PROVE  x % d = x - d
<1>1. x = 1 * d + (x - d) /\ x - d \in 0 .. d - 1
  OBVIOUS
<1>. QED  BY <1>1, DivModChar

\* A natural of at least d loses at least d to its remainder.
LEMMA ModBelow ==
  ASSUME NEW d \in Nat \ {0}, NEW x \in Nat, x >= d
  PROVE  x % d <= x - d
BY SMT

\* e times the quotient of a by e is at most a.
LEMMA DivLower ==
  ASSUME NEW e \in Nat \ {0}, NEW a \in Nat
  PROVE  e * (a \div e) <= a
BY SMT

-----------------------------------------------------------------------------
(* The header codec.                                                       *)

\* The status bits pack adds to a size: one of 0 .. 7.
LEMMA BitsRange ==
  ASSUME NEW a \in BOOLEAN, NEW pa \in BOOLEAN, NEW pm \in BOOLEAN
  PROVE  /\ Bit(a) \in 0 .. 1 /\ Bit(pa) \in 0 .. 1 /\ Bit(pm) \in 0 .. 1
         /\ Bit(a) = 1 <=> a
         /\ Bit(pa) = 1 <=> pa
         /\ Bit(pm) = 1 <=> pm
BY DEF Bit

\* pack and the extract_* functions are inverse on every header mm.c
\* writes (mm.c:225-241 and 253-370): a size with its low four bits clear
\* and three status bits packed into one word come back out unchanged, so
\* write_block, write_epilogue and the boundary tags never lose or mix a
\* bit whatever the block's size.
THEOREM PackRoundTrip ==
  ASSUME NEW size \in Nat, size % 16 = 0,
         NEW a \in BOOLEAN, NEW pa \in BOOLEAN, NEW pm \in BOOLEAN
  PROVE  LET w == Pack(size, a, pa, pm)
         IN  /\ ExtractSize(w) = size
             /\ ExtractAlloc(w) = a
             /\ ExtractPrevAlloc(w) = pa
             /\ ExtractPrevMini(w) = pm
<1>. DEFINE w == Pack(size, a, pa, pm)
            k == size \div 16
            x == Bit(a)
            y == Bit(pa)
            z == Bit(pm)
<1>1. x \in 0 .. 1 /\ y \in 0 .. 1 /\ z \in 0 .. 1
      /\ (x = 1 <=> a) /\ (y = 1 <=> pa) /\ (z = 1 <=> pm)
  BY BitsRange
<1>2. size = 16 * k /\ k \in Nat
  BY SMT
<1>3. w = size + x + 2 * y + 4 * z
  BY DEF Pack
<1>. HIDE DEF w, k, x, y, z
<1>4. w = 16 * k + (x + 2 * y + 4 * z)
  BY <1>1, <1>2, <1>3
<1>5. ExtractSize(w) = size
  <2>1. w % 16 = x + 2 * y + 4 * z
    BY <1>1, <1>2, <1>4, DivModChar
  <2>. QED  BY <1>2, <1>4, <2>1 DEF ExtractSize
<1>6. ExtractAlloc(w) = a
  <2>1. w % 2 = x
    <3>1. w = (8 * k + y + 2 * z) * 2 + x
      BY <1>1, <1>2, <1>4
    <3>. QED  BY <1>1, <1>2, <3>1, DivModChar
  <2>. QED  BY <1>1, <2>1 DEF ExtractAlloc
<1>7. ExtractPrevAlloc(w) = pa
  <2>1. w \div 2 = (4 * k + z) * 2 + y
    <3>1. w = ((4 * k + z) * 2 + y) * 2 + x
      BY <1>1, <1>2, <1>4
    <3>. QED  BY <1>1, <1>2, <3>1, DivModChar
  <2>2. (w \div 2) % 2 = y
    BY <1>1, <1>2, <2>1, DivModChar
  <2>. QED  BY <1>1, <2>2 DEF ExtractPrevAlloc
<1>8. ExtractPrevMini(w) = pm
  <2>1. w \div 4 = (2 * k) * 2 + z
    <3>1. w = ((2 * k) * 2 + z) * 4 + (x + 2 * y)
      BY <1>1, <1>2, <1>4
    <3>. QED  BY <1>1, <1>2, <3>1, DivModChar
  <2>2. (w \div 4) % 2 = z
    BY <1>1, <1>2, <2>1, DivModChar
  <2>. QED  BY <1>1, <2>2 DEF ExtractPrevMini
<1>. QED  BY <1>5, <1>6, <1>7, <1>8 DEF w

-----------------------------------------------------------------------------
(* malloc's adjusted size.                                                 *)

\* The facts about size_t's modulus that the proofs below use.
LEMMA SizeModFacts == SizeMod \in Nat \ {0} /\ SizeMod >= 256 /\ SizeMod % 16 = 0
BY SizeModAssumption, SizeModAlignedAssumption

\* What round_up(size + wsize, dsize) computes, written as a remainder of
\* 16: the block of q 16-byte units.
LEMMA AdjustedSizeUnits ==
  ASSUME NEW n \in 0 .. SizeMod - 1
  PROVE  AdjustedSize(n) = (16 * (((((n + 8) % SizeMod) + 15) % SizeMod) \div 16)) % SizeMod
<1>. DEFINE x == (n + 8) % SizeMod
<1>1. x \in Int
  BY SizeModFacts
<1>2. x + (16 - 1) = x + 15
  BY <1>1
<1>3. AdjustedSize(n) = (16 * (((x + (16 - 1)) % SizeMod) \div 16)) % SizeMod
  BY DEF AdjustedSize, RoundUp, WSize, DSize
<1>. QED  BY <1>2, <1>3, Zenon

\* Every request but the 23 largest: round_up(size + wsize, dsize) is the
\* least multiple of 16 that holds the request and its header word.
LEMMA AdjustedSizeSmall ==
  ASSUME NEW n \in 1 .. SizeMod - 24
  PROVE  /\ AdjustedSize(n) % 16 = 0
         /\ n + WSize <= AdjustedSize(n)
         /\ AdjustedSize(n) <= n + WSize + 15
<1>. DEFINE M == SizeMod
            q == (n + 23) \div 16
<1>1. M \in Nat \ {0} /\ M >= 256
  BY SizeModFacts
<1>2. (n + 8) % M = n + 8
  <2>1. n + 8 \in 0 .. M - 1
    BY <1>1
  <2>. QED  BY <1>1, <2>1, ModSmall, Zenon
<1>3. (n + 8 + 15) % M = n + 23
  <2>1. n + 8 + 15 \in 0 .. M - 1
    BY <1>1
  <2>2. (n + 8 + 15) % M = n + 8 + 15
    BY <1>1, <2>1, ModSmall, Zenon
  <2>. QED  BY <2>2
<1>4. n + 23 = q * 16 + ((n + 23) % 16) /\ (n + 23) % 16 \in 0 .. 15
  OBVIOUS
<1>5. (16 * q) % M = 16 * q
  <2>1. 16 * q \in 0 .. M - 1
    BY <1>1, <1>4
  <2>. QED  BY <1>1, <2>1, ModSmall, Zenon
<1>6. AdjustedSize(n) = 16 * q
  <2>1. AdjustedSize(n) = (16 * (((((n + 8) % M) + 15) % M) \div 16)) % M
    <3>1. n \in 0 .. SizeMod - 1
      BY <1>1
    <3>. QED  BY <3>1, AdjustedSizeUnits, Zenon
  <2>. QED  BY <1>2, <1>3, <1>5, <2>1, Zenon
<1>. QED  BY <1>4, <1>6 DEF WSize

\* The 23 largest requests: size + wsize or the rounding wraps, and the
\* block is of 0 or 16 bytes, too small for the request.
LEMMA AdjustedSizeWraps ==
  ASSUME NEW n \in SizeMod - 23 .. SizeMod - 1
  PROVE  AdjustedSize(n) \in {0, 16}
<1>. DEFINE M == SizeMod
            y == (((n + 8) % M) + 15) % M
<1>1. M \in Nat \ {0} /\ M >= 256
  BY SizeModFacts
<1>2. AdjustedSize(n) = (16 * (y \div 16)) % M
  <2>1. n \in 0 .. SizeMod - 1
    BY <1>1
  <2>. QED  BY <2>1, AdjustedSizeUnits, Zenon
<1>3. y \in 0 .. 22
  <2>1. CASE n + 8 <= M - 1
    <3>1. n + 8 \in 0 .. M - 1
      BY <1>1, <2>1
    <3>2. (n + 8) % M = n + 8
      BY <1>1, <3>1, ModSmall, Zenon
    <3>3. n + 8 + 15 \in M .. 2 * M - 1
      BY <1>1, <2>1
    <3>4. (n + 8 + 15) % M = n + 8 + 15 - M
      <4>1. SizeMod \in Nat \ {0}
        BY <1>1
      <4>. QED  BY <4>1, <3>3, ModOnce
    <3>. QED  BY <1>1, <2>1, <3>2, <3>4
  <2>2. CASE n + 8 >= M
    <3>1. n + 8 \in M .. 2 * M - 1
      BY <1>1, <2>2
    <3>2. (n + 8) % M = n + 8 - M
      <4>1. SizeMod \in Nat \ {0}
        BY <1>1
      <4>. QED  BY <4>1, <3>1, ModOnce
    <3>3. n + 8 - M + 15 \in 0 .. M - 1
      BY <1>1, <2>2
    <3>4. (n + 8 - M + 15) % M = n + 8 - M + 15
      BY <1>1, <3>3, ModSmall, Zenon
    <3>. QED  BY <1>1, <2>2, <3>2, <3>4
  <2>3. n + 8 <= M - 1 \/ n + 8 >= M
    BY <1>1
  <2>. QED  BY <2>1, <2>2, <2>3, Zenon
<1>4. 16 * (y \div 16) \in {0, 16}
  BY <1>3
<1>5. (16 * (y \div 16)) % M = 16 * (y \div 16)
  <2>1. 16 * (y \div 16) \in 0 .. M - 1
    BY <1>1, <1>4
  <2>. QED  BY <1>1, <2>1, ModSmall, Zenon
<1>. QED  BY <1>2, <1>4, <1>5

\* malloc's adjusted size, for every request size > 0 (mm.c:1408): a
\* multiple of dsize, and it holds the request and the header word exactly
\* when size <= SIZE_MAX - 23; past that round_up(size + wsize, dsize)
\* wraps on size_t to a block of at most 16 bytes.
THEOREM MallocSizeBoundary ==
  ASSUME NEW n \in 1 .. SizeMod - 1
  PROVE  /\ AdjustedSize(n) % DSize = 0
         /\ (AdjustedSize(n) >= n + WSize) <=> (n <= SizeMod - 24)
<1>1. SizeMod \in Nat \ {0} /\ SizeMod >= 256
  BY SizeModFacts
<1>2. CASE n <= SizeMod - 24
  <2>1. n \in 1 .. SizeMod - 24
    BY <1>1, <1>2
  <2>. QED  BY <1>2, <2>1, AdjustedSizeSmall DEF DSize
<1>3. CASE n > SizeMod - 24
  <2>1. n \in SizeMod - 23 .. SizeMod - 1
    BY <1>1, <1>3
  <2>2. AdjustedSize(n) \in {0, 16}
    BY <2>1, AdjustedSizeWraps, Zenon
  <2>3. AdjustedSize(n) % 16 = 0
    BY <2>2
  <2>4. ~(AdjustedSize(n) >= n + 8)
    <3>1. \A a \in {0, 16} : ~(a >= n + 8)
      BY <1>1, <2>1
    <3>. QED  BY <2>2, <3>1, Zenon
  <2>5. ~(n <= SizeMod - 24)
    BY <1>1, <1>3
  <2>6. DSize = 16 /\ WSize = 8
    BY DEF DSize, WSize
  <2>. QED  BY <2>3, <2>4, <2>5, <2>6, Zenon
<1>4. n <= SizeMod - 24 \/ n > SizeMod - 24
  BY <1>1
<1>. QED  BY <1>2, <1>3, <1>4, Zenon

-----------------------------------------------------------------------------
(* calloc's overflow test.                                                 *)

\* calloc (mm.c:1536-1544) computes asize = elements * size on size_t and
\* takes asize / elements != size for an overflow: for elements > 0 that
\* test fires exactly when the true product does not fit in size_t, so
\* calloc never hands malloc a wrapped product and never refuses one that
\* fits.
THEOREM CallocCheckExact ==
  ASSUME NEW e \in 1 .. SizeMod - 1, NEW sz \in 0 .. SizeMod - 1
  PROVE  (((e * sz) % SizeMod) \div e # sz) <=> (e * sz >= SizeMod)
<1>. DEFINE M == SizeMod
            p == e * sz
            a == p % M
<1>1. M \in Nat \ {0} /\ e \in Nat \ {0} /\ p \in Nat
  BY SizeModFacts
<1>2. a \in 0 .. M - 1
  BY <1>1
<1>3. CASE p < M
  <2>1. a = p
    <3>1. p \in 0 .. M - 1
      BY <1>1, <1>3
    <3>. QED  BY <1>1, <3>1, ModSmall
  <2>2. p \div e = sz
    <3>1. p = sz * e + 0
      OBVIOUS
    <3>. QED  BY <1>1, <3>1, DivModChar
  <2>3. a \div e = sz
    BY <2>1, <2>2, Zenon
  <2>4. ~(p >= M)
    BY <1>1, <1>3
  <2>. QED  BY <2>3, <2>4, Zenon
<1>4. CASE p >= M
  <2>1. a <= p - M
    BY <1>1, <1>4, ModBelow
  <2>2. e * (a \div e) <= a
    BY <1>1, <1>2, DivLower
  <2>3. a \div e # sz
    BY <1>1, <1>4, <2>1, <2>2
  <2>. QED  BY <1>4, <2>3
<1>. QED  BY <1>1, <1>3, <1>4

=============================================================================
