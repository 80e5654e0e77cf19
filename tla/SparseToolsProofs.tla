------------------------- MODULE SparseToolsProofs -------------------------
(***************************************************************************)
(* Proofs about SparseTools, for any images, any sizes of a piece and any  *)
(* number of runs and kills: the pieces that simg2simg writes are no       *)
(* longer than it was told to make them and are as many as it counted,     *)
(* cutting keeps every block of the image, and simg reads back as the      *)
(* image that it was made from.                                            *)
(*                                                                         *)
(* Recursive functions and lists of cells come first, then where           *)
(* move_chunks_up_to_len() cuts a list and why a second pass over the      *)
(* pieces cuts where the first one did, then what the readers and writers  *)
(* make of a list, and the first inductive invariant and theorem.  What is *)
(* in an image follows: a block is compared by what the cells say of it    *)
(* (Has), in a list, in the pieces of one and in a file that is read back. *)
(* The second inductive invariant and its two theorems are last.           *)
(***************************************************************************)
EXTENDS SparseToolsInvariants, SequenceTheorems, FiniteSetTheorems, WellFoundedInduction, TLAPS

-----------------------------------------------------------------------------
(***************************************************************************)
(* Numbers                                                                 *)
(***************************************************************************)
LEMMA MinimalElement ==
  ASSUME NEW R, IsWellFoundedOn(R, Nat), NEW T \in SUBSET Nat, T # {}
  PROVE  \E x \in T : \A y \in T : ~ (<<y, x>> \in R)
BY WFMin

LEMMA LessThanRelation ==
  \A x, y \in Nat : x < y => <<x, y>> \in OpToRel(<, Nat)
BY Zenon DEF OpToRel

\* A set of numbers has a least one, and if it has a bound a greatest one.
LEMMA LeastNumber ==
  ASSUME NEW T \in SUBSET Nat, T # {}
  PROVE  \E x \in T : \A y \in T : x <= y
<1>1. PICK x \in T : \A y \in T : ~ (<<y, x>> \in OpToRel(<, Nat))
  BY MinimalElement, NatLessThanWellFounded, Zenon
<1>2. \A y \in T : ~ (y < x)
  BY <1>1, LessThanRelation, Zenon
<1> QED BY <1>2

\* Induction up to N: the least number that is not in T would have a predecessor.
LEMMA UpTo ==
  ASSUME NEW N \in Nat, NEW T, 0 \in T, \A n \in 0 .. N - 1 : n \in T => n + 1 \in T
  PROVE  \A n \in 0 .. N : n \in T
<1> DEFINE S == {n \in 0 .. N : n \notin T}
<1>1. SUFFICES ASSUME S # {} PROVE FALSE
  OBVIOUS
<1>0. S \in SUBSET Nat
  OBVIOUS
<1>2. PICK m \in S : \A x \in S : m <= x
  BY <1>0, <1>1, LeastNumber
<1>3. m # 0 /\ m - 1 \in 0 .. N - 1 /\ m - 1 \notin S
  BY <1>2
<1> QED
  BY <1>2, <1>3

\* Blocks are not empty.
LEMMA Blocks == BlockSize \in Nat /\ BlockSize >= 1024 /\ Wrap \in Nat \ {0}
  BY FormatAssumption

\* Dividing by the size of a block, rounded up and down.
LEMMA Division ==
  ASSUME NEW n \in Nat
  PROVE  /\ n \div BlockSize \in Nat /\ n % BlockSize \in 0 .. BlockSize - 1
         /\ n = BlockSize * (n \div BlockSize) + (n % BlockSize)
  BY Blocks

LEMMA Quotient ==
  ASSUME NEW n \in Nat, NEW q \in Nat, NEW r \in 0 .. BlockSize - 1, n = BlockSize * q + r
  PROVE  n \div BlockSize = q /\ n % BlockSize = r
<1>1. n \div BlockSize \in Nat /\ n % BlockSize \in 0 .. BlockSize - 1
      /\ n = BlockSize * (n \div BlockSize) + (n % BlockSize)
  BY Division
<1> DEFINE d == n \div BlockSize
           m == n % BlockSize
<1> HIDE DEF d, m
<1>2. /\ d \in Nat /\ m \in 0 .. BlockSize - 1 /\ n = BlockSize * d + m
  BY <1>1 DEF d, m
<1>3. ASSUME NEW a \in Nat, NEW b \in Nat, NEW e \in 0 .. BlockSize - 1, NEW f \in 0 .. BlockSize - 1,
             BlockSize * a + e = BlockSize * b + f, a < b
      PROVE  FALSE
  <2>1. PICK c \in Nat : b = a + 1 + c
    <3>1. b - a - 1 \in Nat /\ b = a + 1 + (b - a - 1)
      BY <1>3
    <3> QED
      BY <3>1
  <2>2. BlockSize * b = BlockSize * a + BlockSize + BlockSize * c /\ BlockSize * c \in Nat /\ BlockSize * a \in Nat
    BY <2>1, Blocks
  <2> QED
    BY <1>3, <2>2, Blocks
<1>4. d = q
  BY <1>2, <1>3
<1>5. BlockSize * q \in Nat /\ n = BlockSize * q + m
  BY <1>2, <1>4, Blocks
<1>6. m = r
  BY <1>2, <1>5, Blocks
<1> QED
  BY <1>4, <1>6 DEF d, m

LEMMA RoundUp ==
  ASSUME NEW n \in Nat
  PROVE  /\ DivRoundUp(n) \in Nat
         /\ n <= BlockSize * DivRoundUp(n) /\ BlockSize * DivRoundUp(n) < n + BlockSize
<1> DEFINE k == n + BlockSize - 1
           d == k \div BlockSize
           m == k % BlockSize
<1>1. k \in Nat
  BY Blocks
<1>2. d \in Nat /\ m \in 0 .. BlockSize - 1 /\ k = BlockSize * d + m
  BY <1>1, Division
<1>3. BlockSize * d \in Nat
  BY <1>2, Blocks
<1> HIDE DEF d, m
<1>4. n <= BlockSize * d /\ BlockSize * d < n + BlockSize
  BY <1>2, <1>3, Blocks
<1> QED
  BY <1>2, <1>4 DEF DivRoundUp, d

LEMMA RoundUpIs ==
  ASSUME NEW n \in Nat, NEW q \in Nat, n <= BlockSize * q, BlockSize * q < n + BlockSize
  PROVE  DivRoundUp(n) = q
<1> DEFINE k == n + BlockSize - 1
           r == k - BlockSize * q
<1>1. BlockSize * q \in Nat /\ k \in Nat
  BY Blocks
<1>2. r \in 0 .. BlockSize - 1 /\ k = BlockSize * q + r
  BY <1>1, Blocks
<1> HIDE DEF r
<1> QED
  BY <1>1, <1>2, Quotient DEF DivRoundUp

\* Whole blocks, and a number of bytes with a number of whole blocks.
LEMMA WholeBlocks ==
  ASSUME NEW q \in Nat
  PROVE  /\ DivRoundUp(BlockSize * q) = q /\ (BlockSize * q) \div BlockSize = q
         /\ (BlockSize * q) % BlockSize = 0 /\ BlockSize * q \in Nat
<1>1. BlockSize * q \in Nat /\ 0 \in 0 .. BlockSize - 1 /\ BlockSize * q = BlockSize * q + 0
  BY Blocks
<1> QED
  BY <1>1, Blocks, Quotient, RoundUpIs

LEMMA RoundDown ==
  ASSUME NEW n \in Nat
  PROVE  /\ AlignDown(n) \in Nat /\ n \div BlockSize \in Nat
         /\ AlignDown(n) = BlockSize * (n \div BlockSize)
         /\ AlignDown(n) <= n /\ n < AlignDown(n) + BlockSize
         /\ AlignDown(n) \div BlockSize = n \div BlockSize
         /\ DivRoundUp(AlignDown(n)) = n \div BlockSize
<1> DEFINE d == n \div BlockSize
           m == n % BlockSize
<1>1. d \in Nat /\ m \in 0 .. BlockSize - 1 /\ n = BlockSize * d + m
  BY Division
<1>2. BlockSize * d \in Nat /\ DivRoundUp(BlockSize * d) = d /\ (BlockSize * d) \div BlockSize = d
  BY <1>1, WholeBlocks
<1> HIDE DEF d, m
<1>3. AlignDown(n) = BlockSize * d
  BY <1>1, <1>2 DEF AlignDown, m
<1>4. BlockSize * d <= n /\ n < BlockSize * d + BlockSize
  BY <1>1, <1>2, Blocks
<1> QED
  BY <1>1, <1>2, <1>3, <1>4 DEF d

\* How rounding adds up.
LEMMA RoundUpSum ==
  ASSUME NEW a \in Nat, NEW b \in Nat
  PROVE  DivRoundUp(BlockSize * a + b) = a + DivRoundUp(b)
<1> DEFINE q == DivRoundUp(b)
           x == BlockSize * a
           y == BlockSize * q
<1>1. q \in Nat /\ b <= y /\ y < b + BlockSize
  BY RoundUp
<1>2. x \in Nat /\ y \in Nat /\ BlockSize * (a + q) = x + y
  BY <1>1, Blocks
<1> HIDE DEF x, y, q
<1>3. x + b \in Nat /\ a + q \in Nat /\ x + b <= x + y /\ x + y < x + b + BlockSize
  BY <1>1, <1>2, Blocks
<1>4. DivRoundUp(x + b) = a + q
  BY <1>2, <1>3, RoundUpIs
<1> QED
  BY <1>4 DEF x, q
-----------------------------------------------------------------------------
(***************************************************************************)
(* Recursive functions.  Going along a list is defined by one, and it is   *)
(* what its equations say because there is one that satisfies them.        *)
(***************************************************************************)
Follows(f, g, b, S, n) ==
  f \in [0 .. n -> S] /\ f[0] = b /\ \A i \in 1 .. n : f[i] = g[<<i, f[i - 1]>>]

LEMMA RecursionExists ==
  ASSUME NEW N \in Nat, NEW S, NEW b \in S, NEW g \in [(1 .. N) \X S -> S]
  PROVE  \E f : Follows(f, g, b, S, N)
<1> DEFINE T == {n \in 0 .. N : \E f : Follows(f, g, b, S, n)}
<1>1. 0 \in T
  <2>1. Follows([i \in 0 .. 0 |-> b], g, b, S, 0)
    BY DEF Follows
  <2> QED
    BY <2>1
<1>2. ASSUME NEW n \in 0 .. N - 1, n \in T
      PROVE  n + 1 \in T
  <2>1. PICK f : Follows(f, g, b, S, n)
    BY <1>2
  <2> DEFINE h == [i \in 0 .. n + 1 |-> IF i <= n THEN f[i] ELSE g[<<n + 1, f[n]>>]]
  <2>2. f[n] \in S /\ g[<<n + 1, f[n]>>] \in S
    BY <2>1 DEF Follows
  <2>3. h \in [0 .. n + 1 -> S] /\ h[0] = b
    BY <2>1, <2>2 DEF Follows
  <2>4. \A i \in 1 .. n + 1 : h[i] = g[<<i, h[i - 1]>>]
    <3> TAKE i \in 1 .. n + 1
    <3>1. CASE i = n + 1
      BY SMTT(30), <3>1
    <3>2. CASE i <= n
      BY <2>1, <3>2 DEF Follows
    <3> QED
      BY <3>1, <3>2
  <2>5. Follows(h, g, b, S, n + 1)
    BY <2>3, <2>4 DEF Follows
  <2> QED
    BY <2>5
<1>3. N \in T
  <2> HIDE DEF T
  <2>1. \A n \in 0 .. N - 1 : n \in T => n + 1 \in T
    BY <1>2
  <2>2. \A n \in 0 .. N : n \in T
    BY <1>1, <2>1, UpTo
  <2> QED
    BY <2>2
<1> QED
  BY <1>3

\* Sums of numbers, and the functions that are defined to be sums.
LEMMA SumsExist ==
  ASSUME NEW N \in Nat, NEW b \in Nat, NEW w \in [1 .. N -> Nat]
  PROVE  \E f \in [0 .. N -> Nat] : f[0] = b /\ \A i \in 1 .. N : f[i] = f[i - 1] + w[i]
<1> DEFINE g == [p \in (1 .. N) \X Nat |-> p[2] + w[p[1]]]
<1>1. g \in [(1 .. N) \X Nat -> Nat]
  OBVIOUS
<1> HIDE DEF g
<1>2. PICK f : Follows(f, g, b, Nat, N)
  BY <1>1, RecursionExists
<1>3. f \in [0 .. N -> Nat] /\ f[0] = b
  BY <1>2 DEF Follows
<1>4. ASSUME NEW i \in 1 .. N
      PROVE  f[i] = f[i - 1] + w[i]
  <2>1. f[i] = g[<<i, f[i - 1]>>] /\ f[i - 1] \in Nat
    BY <1>2 DEF Follows
  <2>2. g[<<i, f[i - 1]>>] = f[i - 1] + w[i]
    BY <2>1 DEF g
  <2> QED
    BY <2>1, <2>2
<1> QED
  BY <1>3, <1>4

IsFunction(f, S) == f = [i \in S |-> f[i]]

IsSum(f, N, b, w) ==
  /\ N \in Nat /\ b \in Nat /\ w \in [1 .. N -> Nat]
  /\ IsFunction(f, 0 .. N) /\ f[0] = b /\ \A i \in 1 .. N : f[i] = f[i - 1] + w[i]

LEMMA SumIs ==
  ASSUME NEW f, NEW N, NEW b, NEW w, IsSum(f, N, b, w)
  PROVE  /\ f \in [0 .. N -> Nat] /\ f[0] = b
         /\ \A i \in 1 .. N : f[i] = f[i - 1] + w[i] /\ f[i - 1] <= f[i]
<1> SUFFICES ASSUME N \in Nat, b \in Nat, w \in [1 .. N -> Nat],
                    IsFunction(f, 0 .. N), f[0] = b, \A i \in 1 .. N : f[i] = f[i - 1] + w[i]
             PROVE  /\ f \in [0 .. N -> Nat] /\ f[0] = b
                    /\ \A i \in 1 .. N : f[i] = f[i - 1] + w[i] /\ f[i - 1] <= f[i]
  BY DEF IsSum
<1> DEFINE T == {i \in 0 .. N : f[i] \in Nat}
<1>1. f[0] = b
  OBVIOUS
<1>2. ASSUME NEW i \in 1 .. N
      PROVE  f[i] = f[i - 1] + w[i] /\ w[i] \in Nat
  OBVIOUS
<1>3. \A n \in 0 .. N : n \in T
  <2>1. 0 \in T
    BY <1>1
  <2>2. \A n \in 0 .. N - 1 : n \in T => n + 1 \in T
    <3> TAKE n \in 0 .. N - 1
    <3>1. n + 1 \in 1 .. N /\ n + 1 - 1 = n
      OBVIOUS
    <3>2. f[n + 1] = f[n + 1 - 1] + w[n + 1] /\ w[n + 1] \in Nat
      BY <3>1, <1>2
    <3> QED
      BY <3>1, <3>2
  <2> HIDE DEF T
  <2> QED
    BY <2>1, <2>2, UpTo
<1>4. \A i \in 0 .. N : f[i] \in Nat
  BY <1>3
<1>6. f \in [0 .. N -> Nat]
  <2>1. f = [i \in 0 .. N |-> f[i]]
    BY DEF IsFunction
  <2> QED
    BY <2>1, <1>4
<1>7. ASSUME NEW i \in 1 .. N
      PROVE  f[i - 1] <= f[i]
  <2>0. i - 1 \in 0 .. N
    OBVIOUS
  <2>1. f[i] = f[i - 1] + w[i] /\ w[i] \in Nat /\ f[i - 1] \in Nat
    BY <2>0, <1>2, <1>4, Zenon
  <2> QED
    BY <2>1
<1> QED
  BY <1>1, <1>2, <1>6, <1>7

\* Two sums of the same numbers are equal as far as the numbers are.
LEMMA SameSum ==
  ASSUME NEW f, NEW g, NEW n \in Nat, f[0] = g[0],
         \A i \in 1 .. n : f[i - 1] = g[i - 1] => f[i] = g[i]
  PROVE  \A i \in 0 .. n : f[i] = g[i]
<1> DEFINE T == {i \in 0 .. n : f[i] = g[i]}
<1>1. 0 \in T
  OBVIOUS
<1>2. \A i \in 0 .. n - 1 : i \in T => i + 1 \in T
  <2> TAKE i \in 0 .. n - 1
  <2>1. i + 1 \in 1 .. n /\ i + 1 - 1 = i
    OBVIOUS
  <2> QED
    BY <2>1
<1> HIDE DEF T
<1>3. \A i \in 0 .. n : i \in T
  BY <1>1, <1>2, UpTo
<1> QED
  BY <1>3 DEF T
-----------------------------------------------------------------------------
(***************************************************************************)
(* Cells and their chunks                                                  *)
(***************************************************************************)

LEMMA ChunkOfCell ==
  ASSUME NEW c \in Cells
  PROVE  /\ c.type = "fill" => Chunk(c) = FillChunk(c) /\ Chunk(c).size = 16
         /\ c.type = "fd" => /\ Chunk(c) = DataChunk(c)
                             /\ Chunk(c).size = 12 + BlockSize * DivRoundUp(c.len)
         /\ Chunk(c).size \in Nat /\ Chunk(c).size >= 12
         /\ c.type \in {"fill", "fd"}
<1>1. c.len \in Nat /\ c.type \in {"fill", "fd"}
  BY DEF Cells
<1>2. DivRoundUp(c.len) \in Nat /\ BlockSize \in Nat
  BY <1>1, RoundUp, Blocks
<1> DEFINE q == DivRoundUp(c.len)
<1>3. BlockSize * q \in Nat /\ q * BlockSize = BlockSize * q
  BY <1>2
<1>4. CASE c.type = "fill"
  <2>1. Chunk(c) = FillChunk(c)
    BY <1>4 DEF Chunk
  <2> QED
    BY <1>4, <2>1 DEF FillChunk, CHUNK_HEADER_LEN
<1>5. CASE c.type = "fd"
  <2>1. Chunk(c) = DataChunk(c)
    BY <1>5 DEF Chunk
  <2>2. DataChunk(c).size = 12 + q * BlockSize
    BY DEF DataChunk, CHUNK_HEADER_LEN
  <2> HIDE DEF q
  <2>3. Chunk(c).size = 12 + BlockSize * q
    BY <2>1, <2>2, <1>3
  <2> QED
    BY <1>5, <2>1, <2>3, <1>3 DEF q
<1> QED
  BY <1>1, <1>4, <1>5

\* What a cell of a list costs, which only depends on it and the one before.
LEMMA CostIs ==
  ASSUME NEW l \in Seq(Cells), NEW i \in 1 .. Len(l)
  PROVE  /\ Cost(l, i) = (IF Gap(l, i) THEN 12 ELSE 0) + Chunk(l[i]).size
         /\ Cost(l, i) \in Nat /\ Cost(l, i) >= 12
<1>1. l[i] \in Cells
  OBVIOUS
<1> QED
  BY <1>1, ChunkOfCell DEF Cost, CHUNK_HEADER_LEN

LEMMA SameCost ==
  ASSUME NEW l \in Seq(Cells), NEW m \in Seq(Cells), NEW i \in 1 .. Len(l), i <= Len(m),
         l[i] = m[i], i > 1 => l[i - 1] = m[i - 1]
  PROVE  Gap(l, i) = Gap(m, i) /\ Cost(l, i) = Cost(m, i)
BY DEF Cost, Gap, EndBlock

LEMMA FileLenIs ==
  ASSUME NEW l \in Seq(Cells)
  PROVE  /\ FileLen(l) \in [0 .. Len(l) -> Nat] /\ FileLen(l)[0] = 0
         /\ \A i \in 1 .. Len(l) : FileLen(l)[i] = FileLen(l)[i - 1] + Cost(l, i)
<1> DEFINE N == Len(l)
           w == [i \in 1 .. N |-> Cost(l, i)]
           Is(f) == f = [i \in 0 .. Len(l) |-> IF i = 0 THEN 0 ELSE f[i - 1] + Cost(l, i)]
           cur == CHOOSE f : Is(f)
<1>0. N \in Nat /\ w \in [1 .. N -> Nat] /\ \A i \in 1 .. N : w[i] = Cost(l, i)
  BY CostIs
<1>1. \E f \in [0 .. N -> Nat] : f[0] = 0 /\ \A i \in 1 .. N : f[i] = f[i - 1] + w[i]
  <2> HIDE DEF w, N
  <2>1. 0 \in Nat
    OBVIOUS
  <2> QED
    BY <1>0, <2>1, SumsExist, Zenon
<1>2. \E f : Is(f)
  BY <1>1
<1>3. Is(cur)
  <2> HIDE DEF Is
  <2> QED
    BY <1>2
<1>4. FileLen(l) = cur
  BY DEF FileLen
<1> HIDE DEF cur
<1>5. IsSum(cur, N, 0, w)
  BY SMTT(30), <1>0, <1>3 DEF IsFunction, IsSum
<1>6. /\ cur \in [0 .. N -> Nat] /\ cur[0] = 0
      /\ \A i \in 1 .. N : cur[i] = cur[i - 1] + w[i]
  <2> HIDE DEF w, N, Is
  <2> QED
    BY <1>5, SumIs
<1> QED
  BY <1>0, <1>4, <1>6

LEMMA FileLenNext ==
  ASSUME NEW l \in Seq(Cells), NEW i \in 0 .. Len(l) - 1
  PROVE  /\ FileLen(l)[i + 1] = FileLen(l)[i] + Cost(l, i + 1)
         /\ FileLen(l)[i + 1] \in Nat /\ FileLen(l)[i] \in Nat /\ Cost(l, i + 1) \in Nat
<1> DEFINE f == FileLen(l)
           j == i + 1
<1>1. f \in [0 .. Len(l) -> Nat] /\ \A k \in 1 .. Len(l) : f[k] = f[k - 1] + Cost(l, k)
  BY FileLenIs
<1>2. j \in 1 .. Len(l) /\ j - 1 = i
  OBVIOUS
<1> HIDE DEF j, f
<1>3. f[j] = f[i] + Cost(l, j) /\ f[i] \in Nat /\ f[j] \in Nat
  BY <1>1, <1>2
<1>4. Cost(l, j) \in Nat
  BY <1>2, CostIs
<1> QED
  BY <1>3, <1>4 DEF f, j

LEMMA FileLenGrows ==
  ASSUME NEW l \in Seq(Cells)
  PROVE  \A i, j \in 0 .. Len(l) : i <= j => FileLen(l)[i] <= FileLen(l)[j]
<1> DEFINE f == FileLen(l)
<1>1. f \in [0 .. Len(l) -> Nat] /\ \A i \in 1 .. Len(l) : f[i] = f[i - 1] + Cost(l, i) /\ Cost(l, i) \in Nat
  BY FileLenIs, CostIs
<1> HIDE DEF f
<1> TAKE i \in 0 .. Len(l)
<1> DEFINE T == {j \in 0 .. Len(l) : i <= j => f[i] <= f[j]}
<1>2. 0 \in T
  BY <1>1
<1>3. \A n \in 0 .. Len(l) - 1 : n \in T => n + 1 \in T
  <2> SUFFICES ASSUME NEW n \in 0 .. Len(l) - 1, n \in T, i <= n + 1
               PROVE  f[i] <= f[n + 1]
    OBVIOUS
  <2>1. f[n + 1] = f[n] + Cost(l, n + 1) /\ Cost(l, n + 1) \in Nat /\ f[n] \in Nat /\ f[i] \in Nat
    <3>1. n + 1 \in 1 .. Len(l) /\ n + 1 - 1 = n
      OBVIOUS
    <3> QED
      BY <1>1, <3>1
  <2> QED
    BY <2>1
<1>4. \A j \in 0 .. Len(l) : j \in T
  <2> HIDE DEF T
  <2> QED
    BY SMTT(30), <1>2, <1>3, UpTo
<1> QED
  BY <1>4 DEF f

\* Lists that begin with the same cells cost the same so far.
LEMMA SameFileLen ==
  ASSUME NEW l \in Seq(Cells), NEW m \in Seq(Cells), NEW n \in Nat, n <= Len(l), n <= Len(m),
         \A i \in 1 .. n : l[i] = m[i]
  PROVE  \A i \in 0 .. n : FileLen(l)[i] = FileLen(m)[i]
<1>1. \A i \in 1 .. n : FileLen(l)[i - 1] = FileLen(m)[i - 1] => FileLen(l)[i] = FileLen(m)[i]
  <2> TAKE i \in 1 .. n
  <2>1. Cost(l, i) = Cost(m, i)
    BY SameCost
  <2> QED
    BY <2>1, FileLenIs
<1>2. FileLen(l)[0] = FileLen(m)[0]
  BY FileLenIs
<1> DEFINE f == FileLen(l)
           g == FileLen(m)
<1> HIDE DEF f, g
<1>3. \A i \in 0 .. n : f[i] = g[i]
  BY ZenonT(30), <1>1, <1>2, SameSum DEF f, g
<1> QED
  BY <1>3 DEF f, g
-----------------------------------------------------------------------------
(***************************************************************************)
(* Where move_chunks_up_to_len cuts.  The size of a piece is large enough  *)
(* for a block and its headers, and a number of 32 bits.                   *)
(***************************************************************************)

LEMMA FirstOver ==
  ASSUME NEW l \in Seq(Cells), NEW len \in Nat, NEW j, OverAt(l, len, j)
  PROVE  LET over == {i \in 1 .. Len(l) : FileLen(l)[i] > len}
         IN j \in over /\ (CHOOSE i \in over : \A k \in over : i <= k) = j
<1> DEFINE f == FileLen(l)
           over == {i \in 1 .. Len(l) : f[i] > len}
           m == CHOOSE i \in over : \A k \in over : i <= k
<1>1. f \in [0 .. Len(l) -> Nat] /\ \A i, k \in 0 .. Len(l) : i <= k => f[i] <= f[k]
  BY FileLenIs, FileLenGrows
<1>2. j \in 1 .. Len(l) /\ f[j] > len /\ f[j - 1] <= len
  BY DEF OverAt
<1> HIDE DEF f
<1>3. \A k \in over : j <= k
  <2> SUFFICES ASSUME NEW k \in over, k < j PROVE FALSE
    BY <1>2
  <2>1. k <= j - 1 /\ k \in 0 .. Len(l) /\ j - 1 \in 0 .. Len(l)
    BY <1>2
  <2>2. f[k] <= f[j - 1] /\ f[k] \in Nat /\ f[j - 1] \in Nat /\ f[k] > len
    BY <2>1, <1>1
  <2> QED
    BY <1>2, <2>2
<1>4. j \in over
  BY <1>2
<1>5. m \in over /\ \A k \in over : m <= k
  BY <1>3, <1>4
<1>6. m = j
  BY <1>3, <1>4, <1>5
<1> QED
  BY <1>4, <1>6 DEF f

LEMMA FitOrOver ==
  ASSUME NEW l \in Seq(Cells), NEW len \in Nat, ~ (FileLen(l)[Len(l)] <= len)
  PROVE  \E j : OverAt(l, len, j)
<1> DEFINE f == FileLen(l)
           over == {i \in 1 .. Len(l) : f[i] > len}
<1>1. f \in [0 .. Len(l) -> Nat] /\ f[0] = 0
  BY FileLenIs
<1> HIDE DEF f
<1>2. Len(l) \in over
  BY <1>1 DEF f
<1>3. PICK j \in over : \A k \in over : j <= k
  <2>1. over \in SUBSET Nat /\ over # {}
    BY <1>2
  <2> HIDE DEF over
  <2> QED
    BY <2>1, LeastNumber
<1>4. f[j - 1] <= len
  <2>1. CASE j = 1
    BY <2>1, <1>1
  <2>2. CASE j > 1
    <3>1. j - 1 \in 1 .. Len(l) /\ j - 1 \notin over /\ f[j - 1] \in Nat
      BY <2>2, <1>3, <1>1
    <3> QED
      BY <3>1
  <2> QED
    BY <2>1, <2>2
<1> QED
  BY <1>3, <1>4 DEF OverAt, f

LEMMA MoveAll ==
  ASSUME NEW l \in Seq(Cells), NEW max, Roomy(max), FileLen(l)[Len(l)] <= max - 56
  PROVE  MoveChunks(l, max) = [piece |-> l, rest |-> <<>>, more |-> FALSE]
<1> DEFINE f == FileLen(l)
<1>0. (max - 56) % Wrap = max - 56 /\ max - 56 \in Nat
  BY Blocks DEF Roomy
<1>1. f \in [0 .. Len(l) -> Nat] /\ \A i, k \in 0 .. Len(l) : i <= k => f[i] <= f[k]
  BY FileLenIs, FileLenGrows
<1>2. f[Len(l)] <= max - 56
  OBVIOUS
<1> HIDE DEF f
<1>3. {i \in 1 .. Len(l) : f[i] > max - 56} = {}
  <2> SUFFICES ASSUME NEW i \in 1 .. Len(l), f[i] > max - 56 PROVE FALSE
    OBVIOUS
  <2>1. f[i] <= f[Len(l)] /\ f[i] \in Nat /\ f[Len(l)] \in Nat
    BY <1>1
  <2> QED
    BY <2>1, <1>0, <1>2
<1>4. {i \in 1 .. Len(l) : FileLen(l)[i] > (max - (28 + 2 * 12 + 4)) % Wrap} = {}
  <2>1. max - (28 + 2 * 12 + 4) = max - 56
    BY <1>0
  <2> QED
    BY <1>0, <1>3, <2>1 DEF f
<1> QED
  BY <1>4 DEF MoveChunks, SPARSE_HEADER_LEN, CHUNK_HEADER_LEN

\* A cell of the list that is split, or moved because it nearly fits, is one of
\* a file: fills are too small for it.
LEMMA MoveAt ==
  ASSUME NEW l \in Seq(Cells), NEW max, Roomy(max), NEW j, OverAt(l, max - 56, j)
  PROVE  LET len == max - 56
             room == len - (FileLen(l)[j - 1] + 12)
         IN  IF j = 1 \/ room > len \div 8
             THEN /\ room \in Nat /\ l[j].type = "fd"
                  /\ MoveChunks(l, max) =
                       [piece |-> SubSeq(l, 1, j - 1) \o <<SplitBb(l[j], room)[1]>>,
                        rest |-> Tail(SplitBb(l[j], room)) \o SubSeq(l, j + 1, Len(l)), more |-> TRUE]
             ELSE MoveChunks(l, max) =
                    [piece |-> SubSeq(l, 1, j - 1), rest |-> SubSeq(l, j, Len(l)), more |-> TRUE]
<1> DEFINE len == (max - (28 + 2 * 12 + 4)) % Wrap
           f == FileLen(l)
           over == {i \in 1 .. Len(l) : f[i] > len}
           room == len - (f[j - 1] + 12)
<1>0. len = max - 56 /\ len \in Nat /\ len >= 1024 + 12 /\ len < Wrap
  BY Blocks DEF Roomy
<1>1. f \in [0 .. Len(l) -> Nat] /\ f[0] = 0 /\ \A i \in 1 .. Len(l) : f[i] = f[i - 1] + Cost(l, i)
  BY FileLenIs
<1>a. OverAt(l, len, j)
  BY <1>0
<1>2. j \in 1 .. Len(l) /\ f[j] > len /\ f[j - 1] <= len /\ f[j] = f[j - 1] + Cost(l, j)
      /\ f[j - 1] \in Nat /\ f[j] \in Nat
  BY <1>1, <1>a DEF OverAt
<1>3. j \in over /\ over # {} /\ (CHOOSE i \in over : \A k \in over : i <= k) = j
  BY <1>0, <1>a, FirstOver
<1>4. len \div 8 \in Nat /\ len \div 8 >= 16
  BY <1>0
<1> HIDE DEF f, len
<1>5. ASSUME j = 1 \/ room > len \div 8
      PROVE  room \in Nat /\ room >= 16 /\ room < Wrap /\ room % Wrap = room
  <2>1. room \in Int /\ room >= 16
    <3>1. CASE j = 1
      BY <3>1, <1>0, <1>1
    <3>2. CASE room > len \div 8
      BY SMTT(30), <3>2, <1>0, <1>2, <1>4
    <3> QED
      BY <1>5, <3>1, <3>2
  <2>2. room < Wrap
    BY <1>0, <1>2, Blocks
  <2> HIDE DEF room
  <2> QED
    BY <2>1, <2>2, Blocks
<1>6. ASSUME j = 1 \/ room > len \div 8
      PROVE  l[j].type = "fd"
  <2>1. l[j] \in Cells
    BY <1>2
  <2>2. SUFFICES ASSUME l[j].type = "fill" PROVE FALSE
    BY <2>1, ChunkOfCell
  <2>a. Chunk(l[j]).size = 16
    BY <2>1, <2>2, ChunkOfCell
  <2>3. Cost(l, j) <= 28 /\ Cost(l, j) \in Nat
    BY <1>2, <2>a, CostIs
  <2>4. room >= 16 /\ room \in Nat
    BY <1>5, <1>6
  <2>5. room = len - f[j - 1] - 12
    BY <1>0, <1>2
  <2> HIDE DEF room
  <2> QED
    BY SMTT(30), <2>3, <2>4, <2>5, <1>0, <1>2
<1>7. MoveChunks(l, max) =
        LET jj == CHOOSE i \in over : \A k \in over : i <= k
            rm == len - (f[jj - 1] + 12)
            cut == IF jj = 1 \/ rm > len \div 8 THEN SplitBb(l[jj], rm % Wrap) ELSE <<>>
        IN  IF over = {} THEN [piece |-> l, rest |-> <<>>, more |-> FALSE]
            ELSE IF cut = <<>> THEN [piece |-> SubSeq(l, 1, jj - 1), rest |-> SubSeq(l, jj, Len(l)), more |-> TRUE]
            ELSE [piece |-> SubSeq(l, 1, jj - 1) \o <<cut[1]>>,
                  rest |-> Tail(cut) \o SubSeq(l, jj + 1, Len(l)), more |-> TRUE]
  BY Zenon DEF MoveChunks, SPARSE_HEADER_LEN, CHUNK_HEADER_LEN, f, len
<1> HIDE DEF over
<1>8. CASE j = 1 \/ room > len \div 8
  <2>1. room % Wrap = room /\ SplitBb(l[j], room) # <<>>
    BY <1>5, <1>8 DEF SplitBb
  <2> HIDE DEF room
  <2>2. room = len - (f[j - 1] + 12)
    BY DEF room
  <2> QED
    BY <1>0, <1>3, <1>5, <1>6, <1>7, <1>8, <2>1, <2>2, ZenonT(30) DEF f
<1>9. CASE ~ (j = 1 \/ room > len \div 8)
  BY <1>0, <1>3, <1>7, <1>9, ZenonT(30) DEF f
<1> QED
  BY <1>0, <1>8, <1>9, Zenon DEF f
-----------------------------------------------------------------------------
(***************************************************************************)
(* Lists                                                                   *)
(***************************************************************************)
LEMMA Joined ==
  ASSUME NEW S, NEW a \in Seq(S), NEW b \in Seq(S)
  PROVE  /\ a \o b \in Seq(S) /\ Len(a \o b) = Len(a) + Len(b)
         /\ \A i \in 1 .. Len(a) : (a \o b)[i] = a[i]
         /\ \A i \in 1 .. Len(b) : (a \o b)[Len(a) + i] = b[i]
OBVIOUS

LEMMA One ==
  ASSUME NEW S, NEW x \in S
  PROVE  <<x>> \in Seq(S) /\ Len(<<x>>) = 1 /\ <<x>>[1] = x
OBVIOUS

LEMMA Part ==
  ASSUME NEW S, NEW l \in Seq(S), NEW m \in 1 .. Len(l) + 1, NEW n \in m - 1 .. Len(l)
  PROVE  /\ SubSeq(l, m, n) \in Seq(S) /\ Len(SubSeq(l, m, n)) = n - m + 1
         /\ \A i \in 1 .. n - m + 1 : SubSeq(l, m, n)[i] = l[m + i - 1]
OBVIOUS

LEMMA Equal ==
  ASSUME NEW S, NEW a \in Seq(S), NEW b \in Seq(S), Len(a) = Len(b), \A i \in 1 .. Len(a) : a[i] = b[i]
  PROVE  a = b
OBVIOUS

\* The list behind its beginning.
LEMMA Behind ==
  ASSUME NEW S, NEW a \in Seq(S), NEW b \in Seq(S)
  PROVE  /\ SubSeq(a \o b, Len(a) + 1, Len(a \o b)) = b
         /\ b # <<>> => <<b[1]>> \o SubSeq(a \o b, Len(a) + 2, Len(a \o b)) = b
<1> DEFINE c == a \o b
<1>1. /\ c \in Seq(S) /\ Len(c) = Len(a) + Len(b)
      /\ \A i \in 1 .. Len(b) : c[Len(a) + i] = b[i]
      /\ Len(a) \in Nat /\ Len(b) \in Nat
  BY Joined
<1> HIDE DEF c
<1>2. SubSeq(c, Len(a) + 1, Len(c)) = b
  <2> DEFINE d == SubSeq(c, Len(a) + 1, Len(c))
  <2>1. d \in Seq(S) /\ Len(d) = Len(b) /\ \A i \in 1 .. Len(b) : d[i] = c[Len(a) + 1 + i - 1]
    BY <1>1, Part
  <2> HIDE DEF d
  <2>2. \A i \in 1 .. Len(b) : d[i] = b[i]
    BY <1>1, <2>1
  <2>3. d = b
    BY <2>1, <2>2, Equal
  <2> QED
    BY <2>3 DEF d
<1>3. ASSUME b # <<>>
      PROVE  <<b[1]>> \o SubSeq(c, Len(a) + 2, Len(c)) = b
  <2> DEFINE d == SubSeq(c, Len(a) + 2, Len(c))
  <2>0. Len(b) >= 1 /\ b[1] \in S
    BY <1>3
  <2>1. d \in Seq(S) /\ Len(d) = Len(b) - 1 /\ \A i \in 1 .. Len(b) - 1 : d[i] = c[Len(a) + 2 + i - 1]
    <3>1. Len(a) + 2 \in 1 .. Len(c) + 1 /\ Len(c) \in Len(a) + 2 - 1 .. Len(c)
          /\ Len(c) - (Len(a) + 2) + 1 = Len(b) - 1
      BY <1>1, <2>0
    <3> QED
      BY <1>1, <3>1, Part
  <2> HIDE DEF d
  <2>2. <<b[1]>> \in Seq(S) /\ Len(<<b[1]>>) = 1 /\ <<b[1]>>[1] = b[1]
    BY <2>0
  <2> DEFINE e == <<b[1]>> \o d
  <2>3. /\ e \in Seq(S) /\ Len(e) = Len(b) /\ e[1] = b[1]
        /\ \A i \in 1 .. Len(b) - 1 : e[1 + i] = d[i]
    BY <2>0, <2>1, <2>2, Joined
  <2> HIDE DEF e
  <2>4. ASSUME NEW i \in 1 .. Len(b)
        PROVE  e[i] = b[i]
    <3>1. CASE i = 1
      BY <3>1, <2>3
    <3>2. CASE i # 1
      <4>1. i - 1 \in 1 .. Len(b) - 1 /\ 1 + (i - 1) = i /\ Len(a) + 2 + (i - 1) - 1 = Len(a) + i
        BY <3>2, <1>1
      <4>2. e[i] = d[i - 1] /\ d[i - 1] = c[Len(a) + i]
        BY <4>1, <2>1, <2>3
      <4> QED
        BY <4>2, <1>1
    <3> QED
      BY <3>1, <3>2
  <2>5. e = b
    BY <2>3, <2>4, Equal
  <2> QED
    BY <2>5 DEF e, d
<1> QED
  BY <1>2, <1>3 DEF c
-----------------------------------------------------------------------------
(***************************************************************************)
(* backed_block_split                                                      *)
(***************************************************************************)

LEMMA SplitIs ==
  ASSUME NEW bb \in Cells, NEW room \in Nat, bb.len > AlignDown(room)
  PROVE  \E x, y \in Cells : SplitBb(bb, room) = <<x, y>> /\ IsSplit(bb, room, x, y)
<1> DEFINE k == AlignDown(room)
           n == room \div BlockSize
           d == DivRoundUp(bb.len)
           x == [bb EXCEPT !.len = k, !.data = SubSeq(@, 1, n)]
           y == [bb EXCEPT !.len = @ - k, !.block = @ + n, !.data = SubSeq(@, n + 1, Len(@)),
                           !.off = IF bb.type = "fill" THEN @ ELSE @ + k]
           Rec == [block : Nat, len : Nat, type : {"fill", "fd"}, src : Contents \union Fds,
                   off : Nat, data : Seq(Contents)]
<1>1. k \in Nat /\ n \in Nat /\ k = BlockSize * n /\ DivRoundUp(k) = n /\ k \div BlockSize = n
  BY RoundDown
<1>2. bb \in Rec /\ Len(bb.data) = d /\ bb.data \in Seq(Contents) /\ bb.len \in Nat
      /\ bb.block \in Nat /\ bb.off \in Nat
  BY DEF Cells
<1>3. d \in Nat /\ bb.len <= BlockSize * d
  BY <1>2, RoundUp
<1>4. SplitBb(bb, room) = <<x, y>>
  <2>1. k \div BlockSize = n /\ ~ (bb.len <= k)
    BY <1>1, <1>2
  <2> HIDE DEF n
  <2>2. SplitBb(bb, room) =
          IF bb.len <= k THEN <<bb>>
          ELSE <<[bb EXCEPT !.len = k, !.data = SubSeq(@, 1, k \div BlockSize)],
             [bb EXCEPT !.len = @ - k, !.block = @ + (k \div BlockSize),
                        !.data = SubSeq(@, (k \div BlockSize) + 1, Len(@)),
                        !.off = IF bb.type = "fill" THEN @ ELSE @ + k]>>
    BY DEF SplitBb
  <2> HIDE DEF k
  <2> QED
    BY <2>1, <2>2
<1>a. bb.len > k
  OBVIOUS
<1> HIDE DEF k, n, d
<1>5. n < d
  <2>1. BlockSize * n < BlockSize * d
    <3>1. BlockSize * d \in Nat
      BY <1>3, Blocks
    <3> DEFINE e == BlockSize * d
    <3>2. k < e
      BY <3>1, <1>1, <1>2, <1>3, <1>a
    <3> HIDE DEF e
    <3>3. BlockSize * n < e
      BY <3>2, <1>1
    <3> QED
      BY <3>3 DEF e
  <2> QED
    BY <2>1, <1>1, <1>3, Blocks
<1>6. /\ SubSeq(bb.data, 1, n) \in Seq(Contents) /\ Len(SubSeq(bb.data, 1, n)) = n
      /\ SubSeq(bb.data, n + 1, Len(bb.data)) \in Seq(Contents)
      /\ Len(SubSeq(bb.data, n + 1, Len(bb.data))) = d - n
  <2>1. 1 \in 1 .. Len(bb.data) + 1 /\ n \in 1 - 1 .. Len(bb.data) /\ n + 1 \in 1 .. Len(bb.data) + 1
        /\ Len(bb.data) \in n + 1 - 1 .. Len(bb.data)
    BY <1>1, <1>2, <1>3, <1>5
  <2>2. SubSeq(bb.data, 1, n) \in Seq(Contents) /\ Len(SubSeq(bb.data, 1, n)) = n - 1 + 1
    BY <2>1, <1>2, Part
  <2>3. /\ SubSeq(bb.data, n + 1, Len(bb.data)) \in Seq(Contents)
        /\ Len(SubSeq(bb.data, n + 1, Len(bb.data))) = Len(bb.data) - (n + 1) + 1
    BY SMTT(30), <2>1, <1>2, Part
  <2> QED
    BY <2>2, <2>3, <1>1, <1>2, <1>3
<1>7. bb.len - k \in Nat /\ DivRoundUp(bb.len - k) = d - n
  <2>1. bb.len - k \in Nat /\ bb.len = BlockSize * n + (bb.len - k)
    BY <1>1, <1>2, <1>a
  <2> DEFINE b == bb.len - k
  <2> HIDE DEF b
  <2>2. b \in Nat /\ bb.len = BlockSize * n + b
    BY <2>1 DEF b
  <2>3. DivRoundUp(BlockSize * n + b) = n + DivRoundUp(b) /\ DivRoundUp(b) \in Nat
    BY <2>2, <1>1, RoundUpSum, RoundUp
  <2>4. d = n + DivRoundUp(b)
    BY <2>2, <2>3 DEF d
  <2> QED
    BY <2>1, <2>3, <2>4, <1>1 DEF b
<1>8. x \in Cells
  BY <1>1, <1>2, <1>6 DEF Cells
<1>9. y \in Cells
  <2>1. (IF bb.type = "fill" THEN bb.off ELSE bb.off + k) \in Nat /\ bb.block + n \in Nat
    BY <1>1, <1>2
  <2> QED
    BY <2>1, <1>1, <1>2, <1>6, <1>7 DEF Cells
<1>10. ASSUME n = 0
       PROVE  y = bb
  <2>1. k = 0
    BY <1>1, <1>10, Blocks
  <2>2. SubSeq(bb.data, 1, Len(bb.data)) = bb.data
    BY <1>2
  <2>3. (IF bb.type = "fill" THEN bb.off ELSE bb.off + k) = bb.off /\ bb.block + n = bb.block
        /\ bb.len - k = bb.len /\ SubSeq(bb.data, n + 1, Len(bb.data)) = bb.data
    BY <1>2, <1>10, <2>1, <2>2
  <2>4. y = [bb EXCEPT !.len = bb.len, !.block = bb.block, !.data = bb.data, !.off = bb.off]
    BY <2>3
  <2> QED
    BY <1>2, <2>4
<1>11. IsSplit(bb, room, x, y)
  BY <1>2, <1>10 DEF IsSplit, n, k
<1> QED
  BY <1>4, <1>8, <1>9, <1>11

LEMMA NoSplit ==
  ASSUME NEW bb \in Cells, NEW room \in Nat, bb.len <= AlignDown(room)
  PROVE  SplitBb(bb, room) = <<bb>>
BY DEF SplitBb
-----------------------------------------------------------------------------
(***************************************************************************)
(* What a call of move_chunks_up_to_len() does that leaves more: it stops  *)
(* in front of a cell, behind one whose chunk just fits without the skip   *)
(* in front of it, or in a cell that it splits.                            *)
(***************************************************************************)

LEMMA CutAt ==
  ASSUME NEW l \in Seq(Cells), NEW max, Roomy(max), NEW j, OverAt(l, max - 56, j)
  PROVE  LET m == MoveChunks(l, max)
             len == max - 56
         IN /\ m.more
            /\ \/ StopsBefore(l, m, len, j)
               \/ StopsBehind(l, m, len, j)
               \/ \E x, y \in Cells : StopsIn(l, m, len, j, x, y)
<1> DEFINE m == MoveChunks(l, max)
           len == max - 56
           room == Room(l, len, j)
<1>1. room = len - (FileLen(l)[j - 1] + 12) /\ j \in 1 .. Len(l) /\ l[j] \in Cells
  BY DEF Room, OverAt
<1> HIDE DEF room
<1>2. IF TakesPart(l, len, j)
      THEN /\ room \in Nat /\ l[j].type = "fd"
           /\ m = [piece |-> SubSeq(l, 1, j - 1) \o <<SplitBb(l[j], room)[1]>>,
                   rest |-> Tail(SplitBb(l[j], room)) \o SubSeq(l, j + 1, Len(l)), more |-> TRUE]
      ELSE m = [piece |-> SubSeq(l, 1, j - 1), rest |-> SubSeq(l, j, Len(l)), more |-> TRUE]
  <2>1. TakesPart(l, len, j) <=> (j = 1 \/ room > len \div 8)
    BY DEF TakesPart, room
  <2> QED
    BY <1>1, <2>1, MoveAt, ZenonT(30)
<1> HIDE DEF m, len
<1>3. CASE ~ TakesPart(l, len, j)
  <2>1. m.more /\ StopsBefore(l, m, len, j)
    BY <1>2, <1>3 DEF StopsBefore
  <2> QED
    BY <2>1 DEF m, len
<1>4. CASE TakesPart(l, len, j) /\ l[j].len <= AlignDown(room)
  <2>1. SplitBb(l[j], room) = <<l[j]>>
    BY <1>1, <1>2, <1>4, NoSplit
  <2>2. SubSeq(l, j + 1, Len(l)) \in Seq(Cells)
    BY <1>1, Part
  <2>3. Tail(<<l[j]>>) \o SubSeq(l, j + 1, Len(l)) = SubSeq(l, j + 1, Len(l)) /\ <<l[j]>>[1] = l[j]
    BY SMTT(30), <2>2
  <2>4. m = [piece |-> SubSeq(l, 1, j - 1) \o <<l[j]>>, rest |-> SubSeq(l, j + 1, Len(l)), more |-> TRUE]
    BY <1>2, <1>4, <2>1, <2>3, Zenon
  <2>5. m.more /\ StopsBehind(l, m, len, j)
    BY <1>2, <1>4, <2>4 DEF StopsBehind, room
  <2> QED
    BY <2>5 DEF m, len
<1>5. CASE TakesPart(l, len, j) /\ l[j].len > AlignDown(room)
  <2>1. PICK x, y \in Cells : SplitBb(l[j], room) = <<x, y>> /\ IsSplit(l[j], room, x, y)
    BY <1>1, <1>2, <1>5, SplitIs
  <2>3. Tail(<<x, y>>) = <<y>> /\ <<x, y>>[1] = x
    OBVIOUS
  <2>4. m = [piece |-> SubSeq(l, 1, j - 1) \o <<x>>, rest |-> <<y>> \o SubSeq(l, j + 1, Len(l)), more |-> TRUE]
    BY <1>2, <1>5, <2>1, <2>3, Zenon
  <2>5. m.more /\ StopsIn(l, m, len, j, x, y)
    BY <1>2, <1>5, <2>1, <2>4 DEF StopsIn, room
  <2> QED
    BY <2>5 DEF m, len
<1>6. l[j].len \in Nat /\ (TakesPart(l, len, j) => AlignDown(room) \in Nat)
  BY <1>1, <1>2, RoundDown DEF Cells
<1> QED
  BY <1>3, <1>4, <1>5, <1>6

LEMMA CutCases ==
  ASSUME NEW l \in Seq(Cells), NEW max, Roomy(max)
  PROVE  LET m == MoveChunks(l, max)
             len == max - 56
         IN \/ ~ m.more /\ m.piece = l /\ m.rest = <<>> /\ FileLen(l)[Len(l)] <= len
            \/ /\ m.more
               /\ \E j : /\ OverAt(l, len, j)
                         /\ \/ StopsBefore(l, m, len, j)
                            \/ StopsBehind(l, m, len, j)
                            \/ \E x, y \in Cells : StopsIn(l, m, len, j, x, y)
<1>0. max - 56 \in Nat
  BY Blocks DEF Roomy
<1>1. CASE FileLen(l)[Len(l)] <= max - 56
  <2>1. MoveChunks(l, max) = [piece |-> l, rest |-> <<>>, more |-> FALSE]
    BY <1>1, MoveAll
  <2> QED
    BY <1>1, <2>1
<1>2. CASE ~ (FileLen(l)[Len(l)] <= max - 56)
  <2>1. PICK j : OverAt(l, max - 56, j)
    BY <1>0, <1>2, FitOrOver
  <2> QED
    BY <2>1, CutAt
<1> QED
  BY <1>1, <1>2

LEMMA SmallRoom ==
  ASSUME NEW r \in Nat, r < BlockSize
  PROVE  AlignDown(r) = 0 /\ r \div BlockSize = 0
<1>1. r \in 0 .. BlockSize - 1 /\ 0 \in Nat /\ r = BlockSize * 0 + r
  BY Blocks
<1>2. r \div BlockSize = 0 /\ r % BlockSize = r
  BY <1>1, Quotient
<1> QED
  BY <1>2 DEF AlignDown
-----------------------------------------------------------------------------
(***************************************************************************)
(* The second pass cuts where the first one did.  What the first pass left *)
(* in front of the next cut is still there, or the beginning of it is.     *)
(***************************************************************************)

LEMMA ChunkIsLong ==
  ASSUME NEW c \in Cells, c.type = "fd"
  PROVE  /\ Chunk(c).size \in Nat /\ c.len \in Nat /\ Chunk(c).size >= 12 + c.len
         /\ c.len > 0 => Chunk(c).size >= 12 + BlockSize
<1> DEFINE e == BlockSize * DivRoundUp(c.len)
<1>1. c.len \in Nat /\ DivRoundUp(c.len) \in Nat /\ c.len <= e
  BY RoundUp DEF Cells
<1>2. e \in Nat /\ Chunk(c).size = 12 + e
  BY <1>1, ChunkOfCell, Blocks
<1>3. ASSUME c.len > 0
      PROVE  e >= BlockSize
  <2> DEFINE d == DivRoundUp(c.len)
  <2>1. d \in Nat /\ d # 0
    BY <1>1, <1>3, Blocks
  <2> HIDE DEF d
  <2>2. PICK f \in Nat : d = f + 1
    <3>1. d - 1 \in Nat /\ d = d - 1 + 1
      BY <2>1
    <3> QED
      BY <3>1
  <2>3. BlockSize * d = BlockSize * f + BlockSize /\ BlockSize * f \in Nat
    BY <2>2, Blocks
  <2> QED
    BY <2>3, Blocks DEF d
<1> HIDE DEF e
<1> QED
  BY <1>1, <1>2, <1>3, Blocks

LEMMA ChunkIsShort ==
  ASSUME NEW c \in Cells, NEW room \in Nat, c.type = "fd", c.len <= AlignDown(room)
  PROVE  Chunk(c).size <= 12 + AlignDown(room)
<1> DEFINE d == DivRoundUp(c.len)
           n == room \div BlockSize
<1>1. c.len \in Nat /\ d \in Nat /\ BlockSize * d < c.len + BlockSize
  BY RoundUp DEF Cells
<1>2. n \in Nat /\ AlignDown(room) = BlockSize * n
  BY RoundDown
<1>3. Chunk(c).size = 12 + BlockSize * d
  BY ChunkOfCell
<1> HIDE DEF d, n
<1>4. d <= n
  <2> SUFFICES ASSUME n < d PROVE FALSE
    BY <1>1, <1>2
  <2>1. PICK f \in Nat : d = n + 1 + f
    <3>1. d - n - 1 \in Nat /\ d = n + 1 + (d - n - 1)
      BY <1>1, <1>2
    <3> QED
      BY <3>1
  <2>2. BlockSize * d = BlockSize * n + BlockSize + BlockSize * f /\ BlockSize * f \in Nat /\ BlockSize * n \in Nat
    BY <2>1, <1>2, Blocks
  <2> QED
    BY <2>2, <1>1, <1>2, Blocks
<1>5. PICK f \in Nat : n = d + f
  <2>1. n - d \in Nat /\ n = d + (n - d)
    BY <1>1, <1>2, <1>4
  <2> QED
    BY <2>1
<1>6. BlockSize * n = BlockSize * d + BlockSize * f /\ BlockSize * f \in Nat /\ BlockSize * d \in Nat
  BY <1>1, <1>5, Blocks
<1> QED
  BY <1>2, <1>3, <1>6

LEMMA StableBefore ==
  ASSUME NEW l \in Seq(Cells), NEW max, Roomy(max), NEW m, NEW j, OverAt(l, max - 56, j),
         StopsBefore(l, m, max - 56, j), NEW new \in Seq(Cells), Like(new, m.rest, max - 56)
  PROVE  LET n == MoveChunks(m.piece \o new, max) IN n.more /\ n.rest = new
<1> DEFINE len == max - 56
           a == SubSeq(l, 1, j - 1)
           k == a \o new
           f == FileLen(l)
           g == FileLen(k)
           room == Room(l, len, j)
<1>0. len \in Nat /\ len \div 8 \in Nat
  BY Blocks DEF Roomy
<1>1. j \in 1 .. Len(l) /\ f[j] > len /\ f[j - 1] <= len
  BY DEF OverAt
<1>2. ~ (j = 1 \/ room > len \div 8) /\ room = len - (f[j - 1] + 12)
  BY DEF StopsBefore, TakesPart, Room
<1>3. m.piece = a /\ m.rest = SubSeq(l, j, Len(l)) /\ a \in Seq(Cells) /\ Len(a) = j - 1
      /\ \A i \in 1 .. j - 1 : a[i] = l[i]
  <2>1. m.piece = a /\ m.rest = SubSeq(l, j, Len(l))
    BY DEF StopsBefore
  <2>2. 1 \in 1 .. Len(l) + 1 /\ j - 1 \in 1 - 1 .. Len(l) /\ j - 1 - 1 + 1 = j - 1
    BY <1>1
  <2>3. a \in Seq(Cells) /\ Len(a) = j - 1 - 1 + 1 /\ \A i \in 1 .. j - 1 - 1 + 1 : a[i] = l[1 + i - 1]
    BY <2>2, Part
  <2>4. \A i \in 1 .. j - 1 : 1 + i - 1 = i
    OBVIOUS
  <2> HIDE DEF a
  <2> QED
    BY <2>1, <2>2, <2>3, <2>4
<1>4. m.rest # <<>> /\ m.rest[1] = l[j] /\ l[j] \in Cells
  <2>1. j \in 1 .. Len(l) + 1 /\ Len(l) \in j - 1 .. Len(l)
    BY <1>1
  <2>2. Len(m.rest) = Len(l) - j + 1 /\ \A i \in 1 .. Len(l) - j + 1 : m.rest[i] = l[j + i - 1]
    BY <2>1, <1>3, Part
  <2> QED
    BY <1>1, <2>2
<1> HIDE DEF a, len
<1>5. new # <<>> /\ Len(new) >= 1 /\ new[1] \in Cells
      /\ \/ new[1] = l[j]
         \/ new[1].type = "fd" /\ new[1].block = l[j].block /\ new[1].len > len \div 8
  BY <1>4 DEF Like, len
<1>6. /\ k \in Seq(Cells) /\ Len(k) = j - 1 + Len(new)
      /\ \A i \in 1 .. j - 1 : k[i] = l[i]
      /\ k[j] = new[1]
  <2>0. a \in Seq(Cells) /\ new \in Seq(Cells)
    BY <1>3
  <2>1. k \in Seq(Cells) /\ Len(k) = Len(a) + Len(new) /\ \A i \in 1 .. Len(a) : k[i] = a[i]
    BY <2>0, Joined, Zenon
  <2>2. \A i \in 1 .. Len(new) : (a \o new)[Len(a) + i] = new[i]
    BY <2>0, Joined
  <2>3. 1 \in 1 .. Len(new) /\ Len(a) + 1 = j
    BY <1>1, <1>3, <1>5
  <2> HIDE DEF k
  <2>4. k[j] = new[1]
    BY <2>2, <2>3 DEF k
  <2> QED
    BY <1>3, <2>1, <2>4
<1> HIDE DEF k
<1>7. f[j - 1] \in Nat /\ f[j] = f[j - 1] + Cost(l, j) /\ Cost(l, j) \in Nat
  <2>1. f \in [0 .. Len(l) -> Nat] /\ \A i \in 1 .. Len(l) : f[i] = f[i - 1] + Cost(l, i)
    BY FileLenIs
  <2>2. Cost(l, j) \in Nat
    BY <1>1, CostIs
  <2>3. j - 1 \in 0 .. Len(l)
    BY <1>1
  <2> HIDE DEF f
  <2> QED
    BY <1>1, <2>1, <2>2, <2>3
<1>8. g[j - 1] = f[j - 1]
  <2>1. j - 1 \in Nat /\ j - 1 <= Len(l) /\ j - 1 <= Len(k) /\ j - 1 \in 0 .. j - 1
    BY <1>1, <1>5, <1>6
  <2> QED
    BY <2>1, <1>6, SameFileLen
<1>9. j \in 1 .. Len(k) /\ g[j] = g[j - 1] + Cost(k, j) /\ Cost(k, j) \in Nat
  <2>1. j \in 1 .. Len(k)
    BY <1>1, <1>5, <1>6
  <2> QED
    BY <2>1, <1>6, FileLenIs, CostIs
<1> HIDE DEF f, g
<1>10. g[j] > len
  <2>1. CASE new[1] = l[j]
    <3>1. Cost(k, j) = Cost(l, j)
      BY <2>1, <1>1, <1>6, <1>9, SameCost
    <3> QED
      BY <3>1, <1>1, <1>7, <1>8, <1>9
  <2>2. CASE new[1].type = "fd" /\ new[1].len > len \div 8
    <3>1. Chunk(new[1]).size >= 12 + new[1].len /\ new[1].len \in Nat /\ Chunk(new[1]).size \in Nat
      BY <1>5, <2>2, ChunkIsLong
    <3>2. Cost(k, j) >= Chunk(new[1]).size
      <4>1. Cost(k, j) = (IF Gap(k, j) THEN 12 ELSE 0) + Chunk(k[j]).size
        BY <1>6, <1>9, CostIs
      <4> QED
        BY <4>1, <3>1, <1>6
    <3>3. room <= len \div 8 /\ room \in Int
      BY <1>0, <1>2, <1>7
    <3>4. room = len - (f[j - 1] + 12)
      BY <1>2
    <3> HIDE DEF room
    <3>5. Cost(k, j) >= 12 + new[1].len /\ g[j] = f[j - 1] + Cost(k, j)
      BY <3>1, <3>2, <1>8, <1>9
    <3>6. len <= f[j - 1] + 12 + len \div 8
      BY SMTT(30), <3>3, <3>4, <1>0, <1>7
    <3> DEFINE e == len \div 8
               c == Cost(k, j)
               o == new[1].len
    <3>7. e \in Nat /\ c \in Nat /\ o \in Nat /\ c >= 12 + o /\ g[j] = f[j - 1] + c
          /\ len <= f[j - 1] + 12 + e /\ o > e /\ f[j - 1] \in Nat
      BY <3>1, <3>5, <3>6, <2>2, <1>0, <1>7, <1>9
    <3> HIDE DEF e, c, o
    <3> QED
      BY <3>7, <1>0
  <2> QED
    BY <1>5, <2>1, <2>2
<1>11. OverAt(k, len, j)
  BY <1>1, <1>8, <1>9, <1>10 DEF OverAt, g
<1>12. ~ TakesPart(k, len, j)
  <2>1. Room(k, len, j) = room
    BY <1>2, <1>8 DEF Room, g
  <2> QED
    BY <2>1, <1>2 DEF TakesPart
<1>13. LET n == MoveChunks(k, max) IN n.more /\ n.rest = SubSeq(k, j, Len(k))
  BY <1>6, <1>11, <1>12, CutAt DEF len, StopsBefore, StopsBehind, StopsIn
<1>14. SubSeq(k, j, Len(k)) = new
  <2>1. SubSeq(k, Len(a) + 1, Len(k)) = new /\ Len(a) + 1 = j
    BY SMTT(30), <1>1, <1>3, Behind DEF k
  <2> QED
    BY <2>1
<1> QED
  BY <1>3, <1>13, <1>14 DEF k

\* The piece ends with a cell x at the block where cell j was.
LEMMA StableUpTo ==
  ASSUME NEW l \in Seq(Cells), NEW max, Roomy(max), NEW j, OverAt(l, max - 56, j),
         TakesPart(l, max - 56, j), Room(l, max - 56, j) \in Nat,
         NEW x \in Cells, x.type = "fd", x.block = l[j].block, x.len <= AlignDown(Room(l, max - 56, j)),
         NEW new \in Seq(Cells),
         \/ x = l[j]
         \/ /\ x.len = AlignDown(Room(l, max - 56, j))
            /\ new # <<>> /\ new[1].type = "fd" /\ new[1].len > 0
            /\ new[1].block = x.block + Room(l, max - 56, j) \div BlockSize
  PROVE  LET n == MoveChunks((SubSeq(l, 1, j - 1) \o <<x>>) \o new, max) IN n.more /\ n.rest = new
<1> DEFINE len == max - 56
           b == SubSeq(l, 1, j - 1)
           a == b \o <<x>>
           k == a \o new
           f == FileLen(l)
           g == FileLen(k)
           room == Room(l, len, j)
<1>0. len \in Nat /\ len \div 8 \in Nat
  BY Blocks DEF Roomy
<1>1. j \in 1 .. Len(l) /\ f[j] > len /\ f[j - 1] <= len
  BY DEF OverAt
<1>2. (j = 1 \/ room > len \div 8) /\ room = len - (f[j - 1] + 12) /\ room \in Nat
  BY DEF TakesPart, Room
<1>3. /\ a \in Seq(Cells) /\ Len(a) = j /\ a[j] = x
      /\ \A i \in 1 .. j - 1 : a[i] = l[i]
  <2>1. 1 \in 1 .. Len(l) + 1 /\ j - 1 \in 1 - 1 .. Len(l) /\ j - 1 - 1 + 1 = j - 1
    BY <1>1
  <2>2. b \in Seq(Cells) /\ Len(b) = j - 1 - 1 + 1 /\ \A i \in 1 .. j - 1 - 1 + 1 : b[i] = l[1 + i - 1]
    BY <2>1, Part
  <2> HIDE DEF b
  <2>a. \A i \in 1 .. j - 1 : 1 + i - 1 = i
    OBVIOUS
  <2>3. \A i \in 1 .. j - 1 : b[i] = l[i]
    BY <2>1, <2>2, <2>a
  <2>4. <<x>> \in Seq(Cells) /\ Len(<<x>>) = 1 /\ <<x>>[1] = x
    OBVIOUS
  <2>5. a \in Seq(Cells) /\ Len(a) = Len(b) + Len(<<x>>) /\ \A i \in 1 .. Len(b) : a[i] = b[i]
    BY <2>2, <2>4, Joined
  <2>6. \A i \in 1 .. Len(<<x>>) : (b \o <<x>>)[Len(b) + i] = <<x>>[i]
    BY <2>2, <2>4, Joined
  <2>7. a[j] = x
    <3>1. 1 \in 1 .. Len(<<x>>) /\ Len(b) + 1 = j
      BY <1>1, <2>2, <2>4
    <3> QED
      BY <2>4, <2>6, <3>1
  <2> HIDE DEF a
  <2> QED
    BY <1>1, <2>2, <2>3, <2>4, <2>5, <2>7
<1>4. /\ k \in Seq(Cells) /\ Len(k) = j + Len(new)
      /\ \A i \in 1 .. j - 1 : k[i] = l[i]
      /\ k[j] = x
      /\ new # <<>> => Len(new) >= 1 /\ k[j + 1] = new[1] /\ new[1] \in Cells
  <2> HIDE DEF a
  <2>0. a \in Seq(Cells) /\ new \in Seq(Cells)
    BY <1>3
  <2>1. k \in Seq(Cells) /\ Len(k) = Len(a) + Len(new) /\ \A i \in 1 .. Len(a) : k[i] = a[i]
    BY <2>0, Joined, ZenonT(30)
  <2>2. \A i \in 1 .. Len(new) : (a \o new)[Len(a) + i] = new[i]
    BY <1>3, Joined
  <2>3. ASSUME new # <<>>
        PROVE  Len(new) >= 1 /\ k[j + 1] = new[1] /\ new[1] \in Cells
    <3>1. 1 \in 1 .. Len(new) /\ new[1] \in Cells
      BY <2>3
    <3> QED
      BY <1>3, <2>2, <3>1
  <2> HIDE DEF k
  <2> QED
    BY <1>1, <1>3, <2>1, <2>3
<1>a. SubSeq(k, j + 1, Len(k)) = new
      /\ (new # <<>> => <<new[1]>> \o SubSeq(k, j + 2, Len(k)) = new)
  <2> HIDE DEF a
  <2> QED
    BY <1>3, Behind
<1> HIDE DEF a, b, k, len
<1>5. f[j - 1] \in Nat
  BY SMTT(30), <1>1, FileLenIs
<1>6. g[j - 1] = f[j - 1]
  <2>1. j - 1 \in Nat /\ j - 1 <= Len(l) /\ j - 1 <= Len(k) /\ j - 1 \in 0 .. j - 1
    BY <1>1, <1>4
  <2> QED
    BY <2>1, <1>4, SameFileLen
<1>7. /\ j \in 1 .. Len(k) /\ g[j] = g[j - 1] + Cost(k, j) /\ Cost(k, j) \in Nat /\ g[j] \in Nat
      /\ Cost(k, j) >= Chunk(x).size
  <2>1. j \in 1 .. Len(k)
    BY <1>1, <1>4
  <2>2. g[j] = g[j - 1] + Cost(k, j) /\ Cost(k, j) \in Nat /\ g[j] \in Nat
    <3>1. g \in [0 .. Len(k) -> Nat] /\ \A i \in 1 .. Len(k) : g[i] = g[i - 1] + Cost(k, i)
      BY <1>4, FileLenIs
    <3>2. Cost(k, j) \in Nat
      BY <2>1, <1>4, CostIs
    <3> HIDE DEF g
    <3> QED
      BY SMTT(30), <2>1, <3>1, <3>2
  <2>3. Cost(k, j) = (IF Gap(k, j) THEN 12 ELSE 0) + Chunk(k[j]).size
    BY <2>1, <1>4, CostIs
  <2>4. Chunk(x).size \in Nat
    BY ChunkOfCell
  <2> QED
    BY <2>1, <2>2, <2>3, <2>4, <1>4
<1> HIDE DEF f, g
<1>8. TakesPart(k, len, j) /\ Room(k, len, j) = room
  <2>1. Room(k, len, j) = room
    BY <1>2, <1>6 DEF Room, g
  <2> QED
    BY <2>1, <1>2 DEF TakesPart
<1>9. CASE g[j] > len
  <2>1. OverAt(k, len, j)
    BY <1>1, <1>6, <1>7, <1>9 DEF OverAt, g
  <2>2. x.len \in Nat /\ AlignDown(room) \in Nat /\ x.len <= AlignDown(room)
    BY <1>2, RoundDown DEF Cells, len
  <2> DEFINE n == MoveChunks(k, max)
  <2>3. /\ n.more
        /\ \/ StopsBefore(k, n, len, j)
           \/ StopsBehind(k, n, len, j)
           \/ \E y, z \in Cells : StopsIn(k, n, len, j, y, z)
    BY <1>4, <2>1, CutAt DEF len
  <2> HIDE DEF n
  <2>4. ~ StopsBefore(k, n, len, j)
    BY <1>8 DEF StopsBefore
  <2>5. ~ \E y, z \in Cells : StopsIn(k, n, len, j, y, z)
    <3> SUFFICES ASSUME NEW y \in Cells, NEW z \in Cells, StopsIn(k, n, len, j, y, z)
                 PROVE  FALSE
      OBVIOUS
    <3>1. k[j].len > AlignDown(Room(k, len, j))
      BY DEF StopsIn
    <3>2. x.len > AlignDown(room)
      BY <3>1, <1>4, <1>8
    <3> HIDE DEF room
    <3> QED
      BY <3>2, <2>2
  <2>6. n.rest = SubSeq(k, j + 1, Len(k))
    BY <2>3, <2>4, <2>5 DEF StopsBehind
  <2> QED
    BY <1>a, <2>3, <2>6 DEF n, k, a, b
<1>10. CASE ~ (g[j] > len)
  <2>1. x # l[j]
    <3> SUFFICES ASSUME x = l[j] PROVE FALSE
      OBVIOUS
    <3>0. k[j] = l[j] /\ (j > 1 => k[j - 1] = l[j - 1]) /\ j <= Len(l) /\ j \in 1 .. Len(k)
          /\ k \in Seq(Cells)
      BY <1>1, <1>4, <1>7
    <3>1. Cost(k, j) = Cost(l, j)
      BY <3>0, SameCost
    <3>2. f[j] = f[j - 1] + Cost(l, j)
      BY <1>1, FileLenIs DEF f
    <3> QED
      BY <3>1, <3>2, <1>1, <1>6, <1>7, <1>10
  <2>2. /\ x.len = AlignDown(room) /\ new # <<>> /\ new[1].type = "fd" /\ new[1].len > 0
        /\ new[1].block = x.block + room \div BlockSize
        /\ k[j + 1] = new[1] /\ Len(new) >= 1 /\ new[1] \in Cells
    BY <2>1, <1>4 DEF len
  <2>3. /\ AlignDown(room) \in Nat /\ room < AlignDown(room) + BlockSize
        /\ DivRoundUp(AlignDown(room)) = room \div BlockSize
    BY <1>2, RoundDown
  <2>4. g[j] + BlockSize > len /\ BlockSize \in Nat
    <3>1. Chunk(x).size \in Nat /\ Chunk(x).size >= 12 + x.len
      BY ChunkIsLong
    <3>2. room = len - (f[j - 1] + 12)
      BY <1>2
    <3> DEFINE c == Cost(k, j)
               d == AlignDown(room)
               e == Chunk(x).size
               p == f[j - 1]
               q == g[j]
    <3>3. /\ c \in Nat /\ d \in Nat /\ e \in Nat /\ e >= 12 + d /\ room < d + BlockSize
          /\ q = p + c /\ c >= e
      BY <3>1, <2>2, <2>3, <1>6, <1>7
    <3>4. room = len - (p + 12) /\ p \in Nat /\ len \in Nat /\ BlockSize \in Nat
      BY <3>2, <1>0, <1>5, Blocks
    <3> HIDE DEF room, c, d, e, p, q
    <3>5. q + BlockSize > len
      BY <3>3, <3>4
    <3> QED
      BY <3>4, <3>5 DEF q
  <2>5. /\ j + 1 \in 1 .. Len(k) /\ g[j + 1] = g[j] + Cost(k, j + 1) /\ Cost(k, j + 1) \in Nat
        /\ Cost(k, j + 1) >= 12 + BlockSize
    <3>1. j + 1 \in 1 .. Len(k) /\ j + 1 - 1 = j
      BY <1>1, <1>4, <2>2
    <3>2. g[j + 1] = g[j] + Cost(k, j + 1) /\ Cost(k, j + 1) \in Nat
      <4>1. j \in 0 .. Len(k) - 1
        BY <3>1, <1>1, <1>4
      <4> QED
        BY <4>1, <1>4, FileLenNext DEF g
    <3>3. Cost(k, j + 1) = (IF Gap(k, j + 1) THEN 12 ELSE 0) + Chunk(k[j + 1]).size
      BY <3>1, <1>4, CostIs
    <3>4. Chunk(new[1]).size >= 12 + BlockSize /\ Chunk(new[1]).size \in Nat
      BY <2>2, ChunkIsLong
    <3> QED
      BY <3>1, <3>2, <3>3, <3>4, <2>2, Blocks
  <2>6. OverAt(k, len, j + 1)
    <3>1. g[j + 1] > len /\ g[j] <= len /\ j + 1 - 1 = j
      BY SMTT(30), <1>0, <1>1, <1>7, <1>10, <2>4, <2>5
    <3> QED
      BY <3>1, <2>5 DEF OverAt, g
  <2> DEFINE r == Room(k, len, j + 1)
  <2>7. r = len - (g[j] + 12) /\ r < BlockSize
    <3>1. r = len - (g[j] + 12)
      BY <1>1 DEF Room, g
    <3> HIDE DEF r
    <3> QED
      BY SMTT(30), <3>1, <2>4, <1>0, <1>7
  <2>8. new[1].len \in Nat
    BY <2>2 DEF Cells
  <2>9. LET n == MoveChunks(k, max)
        IN /\ n.more
           /\ \/ StopsBefore(k, n, len, j + 1)
              \/ StopsBehind(k, n, len, j + 1)
              \/ \E y, z \in Cells : StopsIn(k, n, len, j + 1, y, z)
    BY <1>4, <2>6, CutAt DEF len
  <2> DEFINE n == MoveChunks(k, max)
  <2> HIDE DEF n
  <2>10. CASE StopsBefore(k, n, len, j + 1)
    BY <2>9, <2>10, <1>a DEF StopsBefore, n, k, a, b
  <2>11. CASE StopsBehind(k, n, len, j + 1)
    <3>1. r \in Nat /\ AlignDown(r) = 0 /\ new[1].len <= AlignDown(r)
      BY <2>2, <2>7, <2>11, SmallRoom DEF StopsBehind
    <3> QED
      BY <3>1, <2>2, <2>8
  <2>12. ASSUME NEW y \in Cells, NEW z \in Cells, StopsIn(k, n, len, j + 1, y, z)
         PROVE  n.rest = new
    <3>1. r \in Nat /\ r \div BlockSize = 0
      BY <2>7, <2>12, SmallRoom DEF StopsIn
    <3>2. z = new[1] /\ n.rest = <<z>> \o SubSeq(k, j + 1 + 1, Len(k)) /\ j + 1 + 1 = j + 2
      BY <3>1, <2>2, <2>12, <1>1 DEF StopsIn, IsSplit
    <3> QED
      BY <3>2, <2>2, <1>a
  <2> QED
    BY <2>9, <2>10, <2>11, <2>12 DEF n, k, a, b
<1> QED
  BY <1>9, <1>10

LEMMA Stable ==
  ASSUME NEW l \in Seq(Cells), NEW max, Roomy(max), MoveChunks(l, max).more,
         NEW new \in Seq(Cells), Like(new, MoveChunks(l, max).rest, max - 56)
  PROVE  LET n == MoveChunks(MoveChunks(l, max).piece \o new, max) IN n.more /\ n.rest = new
<1> DEFINE m == MoveChunks(l, max)
           len == max - 56
           k == m.piece \o new
<1>0. len \in Nat /\ len >= BlockSize + 12
  BY Blocks DEF Roomy
<1>1. PICK j : /\ OverAt(l, len, j)
               /\ \/ StopsBefore(l, m, len, j)
                  \/ StopsBehind(l, m, len, j)
                  \/ \E x, y \in Cells : StopsIn(l, m, len, j, x, y)
  BY CutCases
<1>2. j \in 1 .. Len(l) /\ l[j] \in Cells
  BY <1>1 DEF OverAt
<1>3. Like(new, m.rest, len)
  OBVIOUS
<1> HIDE DEF m
<1>4. CASE StopsBefore(l, m, len, j)
  BY <1>1, <1>3, <1>4, StableBefore DEF m
<1>5. CASE StopsBehind(l, m, len, j)
  <2>1. /\ TakesPart(l, len, j) /\ Room(l, len, j) \in Nat /\ l[j].type = "fd"
        /\ l[j].len <= AlignDown(Room(l, len, j)) /\ m.piece = SubSeq(l, 1, j - 1) \o <<l[j]>>
    BY <1>5 DEF StopsBehind
  <2>2. LET n == MoveChunks((SubSeq(l, 1, j - 1) \o <<l[j]>>) \o new, max) IN n.more /\ n.rest = new
    BY <1>1, <1>2, <2>1, StableUpTo
  <2> QED
    BY <2>1, <2>2 DEF m
<1>6. ASSUME NEW x \in Cells, NEW y \in Cells, StopsIn(l, m, len, j, x, y)
      PROVE  LET n == MoveChunks(k, max) IN n.more /\ n.rest = new
  <2> DEFINE room == Room(l, len, j)
             a == SubSeq(l, 1, j - 1) \o <<x>>
  <2>1. /\ TakesPart(l, len, j) /\ room \in Nat /\ l[j].type = "fd"
        /\ l[j].len > AlignDown(room) /\ m.piece = a
        /\ m.rest = <<y>> \o SubSeq(l, j + 1, Len(l))
    BY <1>6 DEF StopsIn
  <2>2. /\ x.block = l[j].block /\ x.len = AlignDown(room) /\ x.type = "fd"
        /\ y.block = l[j].block + room \div BlockSize /\ y.len = l[j].len - AlignDown(room)
        /\ y.type = "fd"
    BY <2>1, <1>6 DEF StopsIn, IsSplit
  <2>3. y.len > 0 /\ len \div 8 \in Nat /\ AlignDown(room) \in Nat
    <3>1. AlignDown(room) \in Nat
      BY <2>1, RoundDown
    <3>a. l[j].len \in Nat
      BY <1>2 DEF Cells
    <3>2. l[j].len \in Nat /\ len \div 8 \in Nat
      BY <1>0, <3>a
    <3> HIDE DEF room
    <3> QED
      BY <2>1, <2>2, <3>1, <3>2
  <2>4. m.rest # <<>> /\ m.rest[1] = y
    <3>1. SubSeq(l, j + 1, Len(l)) \in Seq(Cells)
      BY <1>2, Part
    <3> QED
      BY <2>1, <3>1
  <2>5. new # <<>> /\ new[1].type = "fd" /\ new[1].len > 0 /\ new[1].block = x.block + room \div BlockSize
    <3>1. new # <<>> /\ new[1] \in Cells
      BY <1>3, <2>4 DEF Like
    <3>2. new[1].len \in Nat
      BY <3>1 DEF Cells
    <3>3. CASE new[1] = y
      BY <3>1, <3>3, <2>2, <2>3
    <3>4. CASE new[1].type = "fd" /\ new[1].block = y.block /\ new[1].len > len \div 8
      BY <3>1, <3>2, <3>4, <2>2, <2>3
    <3> QED
      BY <3>3, <3>4, <1>3, <2>4 DEF Like
  <2>6. x.len <= AlignDown(room)
    BY <2>2, <2>3
  <2>7. LET n == MoveChunks(a \o new, max) IN n.more /\ n.rest = new
    <3>1. \/ x = l[j]
          \/ /\ x.len = AlignDown(Room(l, max - 56, j))
             /\ new # <<>> /\ new[1].type = "fd" /\ new[1].len > 0
             /\ new[1].block = x.block + Room(l, max - 56, j) \div BlockSize
      BY <2>2, <2>5
    <3>2. /\ OverAt(l, max - 56, j) /\ TakesPart(l, max - 56, j) /\ Room(l, max - 56, j) \in Nat
          /\ x.type = "fd" /\ x.block = l[j].block /\ x.len <= AlignDown(Room(l, max - 56, j))
      BY <1>1, <2>1, <2>2, <2>6
    <3> QED
      BY <3>1, <3>2, StableUpTo
  <2> QED
    BY <2>1, <2>7
<1> QED
  BY <1>1, <1>4, <1>5, <1>6 DEF m

\* What the first pass makes of the rest of a list begins like it.
LEMMA StillLike ==
  ASSUME NEW l \in Seq(Cells), NEW max, Roomy(max),
         NEW new \in Seq(Cells), MoveChunks(l, max).more \/ new = <<>>
  PROVE  Like(MoveChunks(l, max).piece \o new, l, max - 56)
<1> DEFINE m == MoveChunks(l, max)
           len == max - 56
<1>0. len \in Nat /\ len >= BlockSize + 12 /\ BlockSize \in Nat
  BY Blocks DEF Roomy
<1>1. SUFFICES ASSUME l # <<>> PROVE Like(m.piece \o new, l, len)
  BY DEF Like
<1> HIDE DEF m
<1>2. CASE m.piece = l /\ new = <<>>
  BY <1>1, <1>2 DEF Like
<1>3. ASSUME NEW j, OverAt(l, len, j),
             \/ StopsBefore(l, m, len, j)
             \/ StopsBehind(l, m, len, j)
             \/ \E x, y \in Cells : StopsIn(l, m, len, j, x, y)
      PROVE  Like(m.piece \o new, l, len)
  <2>1. j \in 1 .. Len(l) /\ l[j] \in Cells
    BY <1>3 DEF OverAt
  <2> DEFINE b == SubSeq(l, 1, j - 1)
  <2>2. b \in Seq(Cells) /\ Len(b) = j - 1 /\ (j > 1 => b[1] = l[1])
    <3>1. 1 \in 1 .. Len(l) + 1 /\ j - 1 \in 1 - 1 .. Len(l) /\ j - 1 - 1 + 1 = j - 1
      BY <2>1
    <3>2. b \in Seq(Cells) /\ Len(b) = j - 1 - 1 + 1 /\ \A i \in 1 .. j - 1 - 1 + 1 : b[i] = l[1 + i - 1]
      BY <3>1, Part
    <3> HIDE DEF b
    <3> QED
      BY <2>1, <3>1, <3>2
  <2>3. \/ j > 1 /\ m.piece = b
        \/ \E x \in Cells : m.piece = b \o <<x>> /\ (j = 1 => Like(<<x>>, l, len))
    <3>1. CASE StopsBefore(l, m, len, j)
      BY <2>1, <3>1 DEF StopsBefore, TakesPart
    <3>2. CASE StopsBehind(l, m, len, j)
      BY <2>1, <3>2 DEF StopsBehind, Like
    <3>3. ASSUME NEW x \in Cells, NEW y \in Cells, StopsIn(l, m, len, j, x, y)
          PROVE  m.piece = b \o <<x>> /\ (j = 1 => Like(<<x>>, l, len))
      <4>1. m.piece = b \o <<x>>
        BY <3>3 DEF StopsIn
      <4>2. ASSUME j = 1
            PROVE  Like(<<x>>, l, len)
        <5>1. FileLen(l)[0] = 0
          BY FileLenIs
        <5>2. Room(l, len, j) = len - 12
          BY <5>1, <4>2, <1>0 DEF Room
        <5>3. x.type = "fd" /\ x.block = l[1].block /\ x.len = AlignDown(len - 12)
          BY <5>2, <4>2, <3>3 DEF StopsIn, IsSplit
        <5>4. AlignDown(len - 12) > len \div 8
          <6> DEFINE r == len - 12
                     q == r \div BlockSize
                     k == AlignDown(r)
          <6>1. r \in Nat /\ r >= BlockSize /\ len = r + 12
            BY <1>0
          <6>2. q \in Nat /\ k \in Nat /\ k = BlockSize * q /\ r < k + BlockSize
            BY <6>1, RoundDown
          <6> HIDE DEF r, q, k
          <6>3. q # 0
            BY <6>1, <6>2, <1>0
          <6>4. PICK p \in Nat : q = p + 1
            <7>1. q - 1 \in Nat /\ q = q - 1 + 1
              BY <6>2, <6>3
            <7> QED
              BY <7>1
          <6>5. BlockSize * q = BlockSize * p + BlockSize /\ BlockSize * p \in Nat
            BY <6>4, <1>0
          <6>6. k >= BlockSize
            BY <6>2, <6>5, <1>0
          <6>7. len < 2 * k + 12 /\ k >= 1024
            BY <6>1, <6>2, <6>6, Blocks
          <6>8. len \div 8 < k
            BY <6>7, <6>2, <1>0
          <6> QED
            BY <6>8, <6>2, <1>0 DEF k, r
        <5> QED
          BY <5>3, <5>4 DEF Like
      <4> QED
        BY <4>1, <4>2
    <3> QED
      BY <3>1, <3>2, <3>3, <1>3
  <2> HIDE DEF b
  <2>4. ASSUME j > 1, m.piece = b
        PROVE  Like(m.piece \o new, l, len)
    <3>1. (m.piece \o new)[1] = l[1] /\ m.piece \o new # <<>>
      BY <2>1, <2>2, <2>4
    <3> QED
      BY <3>1 DEF Like
  <2>5. ASSUME NEW x \in Cells, m.piece = b \o <<x>>, j = 1 => Like(<<x>>, l, len)
        PROVE  Like(m.piece \o new, l, len)
    <3>1. m.piece \in Seq(Cells) /\ Len(m.piece) = j
      BY <2>1, <2>2, <2>5
    <3>2. m.piece \o new # <<>> /\ (m.piece \o new)[1] = m.piece[1]
      BY <3>1, <2>1
    <3>3. CASE j = 1
      <4>1. m.piece[1] = x /\ <<x>>[1] = x
        BY <3>3, <2>2, <2>5
      <4> QED
        BY <4>1, <3>2, <3>3, <2>5 DEF Like
    <3>4. CASE j > 1
      <4>0. 1 \in 1 .. Len(b) /\ <<x>> \in Seq(Cells) /\ b \in Seq(Cells)
        BY <3>4, <2>1, <2>2
      <4>a. (b \o <<x>>)[1] = b[1]
        BY <4>0, Joined
      <4>1. m.piece[1] = l[1]
        BY <3>4, <4>a, <2>2, <2>5
      <4> QED
        BY <4>1, <3>2 DEF Like
    <3> QED
      BY <3>3, <3>4, <2>1
  <2> QED
    BY <2>3, <2>4, <2>5
<1> QED
  <2>1. \/ ~ m.more /\ m.piece = l
        \/ /\ m.more
           /\ \E j : /\ OverAt(l, len, j)
                     /\ \/ StopsBefore(l, m, len, j)
                        \/ StopsBehind(l, m, len, j)
                        \/ \E x, y \in Cells : StopsIn(l, m, len, j, x, y)
    BY CutCases DEF m
  <2> QED
    BY <2>1, <1>2, <1>3 DEF m

\* Piece and rest are lists, and the chunks of the piece fit but for one skip.
LEMMA PieceFits ==
  ASSUME NEW l \in Seq(Cells), NEW max, Roomy(max)
  PROVE  LET m == MoveChunks(l, max)
         IN /\ m.piece \in Seq(Cells) /\ m.rest \in Seq(Cells) /\ m.more \in BOOLEAN
            /\ FileLen(m.piece)[Len(m.piece)] <= max - 56 + 12
<1> DEFINE m == MoveChunks(l, max)
           len == max - 56
           f == FileLen(l)
           g == FileLen(m.piece)
<1>0. len \in Nat /\ len >= BlockSize + 12 /\ BlockSize \in Nat
  BY Blocks DEF Roomy
<1>1. m.more \in BOOLEAN
  BY Zenon DEF MoveChunks
<1> HIDE DEF m
<1>2. CASE ~ m.more /\ m.piece = l /\ m.rest = <<>> /\ f[Len(l)] <= len
  <2>1. f[Len(l)] \in Nat
    BY FileLenIs
  <2>2. g[Len(m.piece)] <= len + 12
    BY <1>0, <1>2, <2>1
  <2> QED
    BY <1>1, <1>2, <2>2 DEF m
<1>3. ASSUME m.more = TRUE, NEW j, OverAt(l, len, j),
             \/ StopsBefore(l, m, len, j)
             \/ StopsBehind(l, m, len, j)
             \/ \E x, y \in Cells : StopsIn(l, m, len, j, x, y)
      PROVE  m.piece \in Seq(Cells) /\ m.rest \in Seq(Cells) /\ m.more \in BOOLEAN /\ g[Len(m.piece)] <= len + 12
  <2>1. j \in 1 .. Len(l) /\ l[j] \in Cells /\ f[j - 1] <= len
    BY <1>3 DEF OverAt
  <2> DEFINE b == SubSeq(l, 1, j - 1)
  <2>2. b \in Seq(Cells) /\ Len(b) = j - 1 /\ \A i \in 1 .. j - 1 : b[i] = l[i]
    <3>1. 1 \in 1 .. Len(l) + 1 /\ j - 1 \in 1 - 1 .. Len(l) /\ j - 1 - 1 + 1 = j - 1
      BY <2>1
    <3>2. b \in Seq(Cells) /\ Len(b) = j - 1 - 1 + 1 /\ \A i \in 1 .. j - 1 - 1 + 1 : b[i] = l[1 + i - 1]
      BY <3>1, Part
    <3>3. \A i \in 1 .. j - 1 : 1 + i - 1 = i
      OBVIOUS
    <3> HIDE DEF b
    <3> QED
      BY <2>1, <3>1, <3>2, <3>3
  <2>3. SubSeq(l, j, Len(l)) \in Seq(Cells) /\ SubSeq(l, j + 1, Len(l)) \in Seq(Cells)
    <3>1. j \in 1 .. Len(l) + 1 /\ Len(l) \in j - 1 .. Len(l) /\ j + 1 \in 1 .. Len(l) + 1
          /\ Len(l) \in j + 1 - 1 .. Len(l)
      BY <2>1
    <3> QED
      BY <3>1, Part
  <2>4. f[j - 1] \in Nat
    BY <2>1, FileLenIs
  <2> DEFINE room == Room(l, len, j)
  <2>5. \/ m.piece = b /\ m.rest \in Seq(Cells)
        \/ \E x \in Cells : /\ m.piece = b \o <<x>> /\ m.rest \in Seq(Cells)
                            /\ x.type = "fd" /\ room \in Nat /\ x.len <= AlignDown(room)
    <3>1. CASE StopsBefore(l, m, len, j)
      BY <2>3, <3>1 DEF StopsBefore
    <3>2. CASE StopsBehind(l, m, len, j)
      BY <2>1, <2>3, <3>2 DEF StopsBehind
    <3>3. ASSUME NEW x \in Cells, NEW y \in Cells, StopsIn(l, m, len, j, x, y)
          PROVE  /\ m.piece = b \o <<x>> /\ m.rest \in Seq(Cells)
                 /\ x.type = "fd" /\ room \in Nat /\ x.len <= AlignDown(room)
      <4>1. m.piece = b \o <<x>> /\ m.rest = <<y>> \o SubSeq(l, j + 1, Len(l)) /\ room \in Nat
            /\ x.type = "fd" /\ x.len = AlignDown(room)
        BY <3>3 DEF StopsIn, IsSplit
      <4>2. AlignDown(room) \in Nat
        BY <4>1, RoundDown
      <4>3. m.rest \in Seq(Cells)
        BY <4>1, <2>3
      <4> HIDE DEF room
      <4> QED
        BY <4>1, <4>2, <4>3
    <3> QED
      BY <3>1, <3>2, <3>3, <1>3
  <2>6. ASSUME NEW k \in Seq(Cells), j - 1 <= Len(k), \A i \in 1 .. j - 1 : k[i] = l[i]
        PROVE  FileLen(k)[j - 1] = f[j - 1]
    <3>1. j - 1 \in Nat /\ j - 1 <= Len(l) /\ j - 1 \in 0 .. j - 1
      BY <2>1
    <3> QED
      BY <3>1, <2>6, SameFileLen
  <2> HIDE DEF b
  <2>7. CASE m.piece = b /\ m.rest \in Seq(Cells)
    <3>1. g[j - 1] = f[j - 1]
      <4>1. m.piece \in Seq(Cells) /\ j - 1 <= Len(m.piece) /\ \A i \in 1 .. j - 1 : m.piece[i] = l[i]
        BY <2>1, <2>2, <2>7
      <4> QED
        BY <4>1, <2>6
    <3>2. Len(m.piece) = j - 1
      BY <2>2, <2>7
    <3> HIDE DEF f, g
    <3>3. g[Len(m.piece)] <= len + 12
      BY <3>1, <3>2, <2>1, <2>4, <1>0
    <3> QED
      BY <3>3, <2>2, <2>7, <1>1
  <2>8. ASSUME NEW x \in Cells, m.piece = b \o <<x>>, m.rest \in Seq(Cells),
               x.type = "fd", room \in Nat, x.len <= AlignDown(room)
        PROVE  m.piece \in Seq(Cells) /\ m.rest \in Seq(Cells) /\ m.more \in BOOLEAN /\ g[Len(m.piece)] <= len + 12
    <3> DEFINE k == m.piece
    <3>0. <<x>> \in Seq(Cells) /\ Len(<<x>>) = 1 /\ <<x>>[1] = x
      OBVIOUS
    <3>1. k \in Seq(Cells) /\ Len(k) = Len(b) + Len(<<x>>) /\ \A i \in 1 .. Len(b) : k[i] = b[i]
      BY <3>0, <2>2, <2>8, Joined
    <3>2. k[j] = x
      <4>1. \A i \in 1 .. Len(<<x>>) : (b \o <<x>>)[Len(b) + i] = <<x>>[i]
        BY <3>0, <2>2, Joined
      <4>2. 1 \in 1 .. Len(<<x>>) /\ Len(b) + 1 = j
        BY <3>0, <2>1, <2>2
      <4> QED
        BY <4>1, <4>2, <3>0, <2>8
    <3>3. Len(k) = j /\ \A i \in 1 .. j - 1 : k[i] = l[i]
      BY <3>0, <3>1, <2>1, <2>2
    <3>4. j - 1 \in 0 .. Len(k) - 1 /\ j - 1 + 1 = j /\ j - 1 <= Len(k) /\ j \in 1 .. Len(k)
      BY <2>1, <3>3
    <3>5. FileLen(k)[j - 1] = f[j - 1]
      BY <3>1, <3>3, <3>4, <2>6
    <3>6. FileLen(k)[j] = FileLen(k)[j - 1] + Cost(k, j)
      BY <3>1, <3>4, FileLenNext
    <3>7. Cost(k, j) = (IF Gap(k, j) THEN 12 ELSE 0) + Chunk(x).size
      BY <3>1, <3>2, <3>4, CostIs
    <3>8. Chunk(x).size <= 12 + AlignDown(room) /\ Chunk(x).size \in Nat
      BY <2>8, ChunkIsShort, ChunkOfCell
    <3>9. AlignDown(room) <= room /\ AlignDown(room) \in Nat
      BY <2>8, RoundDown
    <3>10. room = len - (f[j - 1] + 12) /\ room \in Nat
      BY <2>8 DEF Room
    <3> DEFINE c == Cost(k, j)
               d == AlignDown(room)
               p == f[j - 1]
               e == Chunk(x).size
    <3>11. c <= 12 + e /\ c \in Nat
      BY <3>7, <3>8
    <3>12. e <= 12 + d /\ e \in Nat /\ d <= room /\ d \in Nat /\ p \in Nat /\ room = len - (p + 12)
      BY <3>8, <3>9, <3>10, <2>4
    <3> HIDE DEF c, d, p, e, room
    <3>13. p + c <= len + 12
      BY <3>11, <3>12, <1>0
    <3>14. FileLen(k)[Len(k)] = p + c
      BY <3>3, <3>5, <3>6 DEF p, c
    <3>15. FileLen(k)[Len(k)] <= len + 12
      BY <3>13, <3>14
    <3> QED
      BY <3>1, <3>15, <2>8, <1>3
  <2> QED
    BY <2>5, <2>7, <2>8
<1> QED
  <2>1. \/ ~ m.more /\ m.piece = l /\ m.rest = <<>> /\ f[Len(l)] <= len
        \/ /\ m.more = TRUE
           /\ \E j : /\ OverAt(l, len, j)
                     /\ \/ StopsBefore(l, m, len, j)
                        \/ StopsBehind(l, m, len, j)
                        \/ \E x, y \in Cells : StopsIn(l, m, len, j, x, y)
    BY <1>1, CutCases DEF m
  <2> QED
    BY <2>1, <1>2, <1>3 DEF m
-----------------------------------------------------------------------------
(***************************************************************************)
(* Cutting keeps a list as it is, or replaces one cell by its two parts.   *)
(* Cells that are apart stay apart, and pieces that are collected at the   *)
(* place where they belong are appended.                                   *)
(***************************************************************************)

LEMMA JoinedAt ==
  ASSUME NEW S, NEW a \in Seq(S), NEW b \in Seq(S), NEW i \in 1 .. Len(a) + Len(b)
  PROVE  (a \o b)[i] = IF i <= Len(a) THEN a[i] ELSE b[i - Len(a)]
OBVIOUS

LEMMA ReplacedInMiddle ==
  ASSUME NEW t \in Seq(Cells), NEW l \in Seq(Cells), NEW j \in 1 .. Len(l),
         NEW x \in Cells, NEW y \in Cells
  PROVE  Replaced(t \o l, (t \o (SubSeq(l, 1, j - 1) \o <<x>>)) \o (<<y>> \o SubSeq(l, j + 1, Len(l))),
                  Len(t) + j, x, y)
<1> DEFINE b == SubSeq(l, 1, j - 1)
           z == SubSeq(l, j + 1, Len(l))
           X == <<x>>
           Y == <<y>>
           c == b \o X
           u == t \o c
           v == Y \o z
           old == t \o l
           new == u \o v
           p == Len(t) + j
<1>0. X \in Seq(Cells) /\ Y \in Seq(Cells) /\ Len(X) = 1 /\ Len(Y) = 1 /\ X[1] = x /\ Y[1] = y
  OBVIOUS
<1>1. b \in Seq(Cells) /\ Len(b) = j - 1 /\ \A i \in 1 .. j - 1 : b[i] = l[i]
  <2>1. 1 \in 1 .. Len(l) + 1 /\ j - 1 \in 1 - 1 .. Len(l) /\ j - 1 - 1 + 1 = j - 1
    OBVIOUS
  <2>2. b \in Seq(Cells) /\ Len(b) = j - 1 - 1 + 1 /\ \A i \in 1 .. j - 1 - 1 + 1 : b[i] = l[1 + i - 1]
    BY <2>1, Part
  <2>3. \A i \in 1 .. j - 1 : 1 + i - 1 = i
    OBVIOUS
  <2> HIDE DEF b
  <2> QED
    BY <2>1, <2>2, <2>3
<1>2. z \in Seq(Cells) /\ Len(z) = Len(l) - j /\ \A i \in 1 .. Len(l) - j : z[i] = l[j + i]
  <2>1. j + 1 \in 1 .. Len(l) + 1 /\ Len(l) \in j + 1 - 1 .. Len(l) /\ Len(l) - (j + 1) + 1 = Len(l) - j
    OBVIOUS
  <2> DEFINE q == j + 1
             w == SubSeq(l, q, Len(l))
  <2>a. q \in 1 .. Len(l) + 1 /\ Len(l) \in q - 1 .. Len(l)
    BY <2>1
  <2>b. z = w
    OBVIOUS
  <2> HIDE DEF q
  <2>c. w \in Seq(Cells) /\ Len(w) = Len(l) - q + 1 /\ \A i \in 1 .. Len(l) - q + 1 : w[i] = l[q + i - 1]
    BY <2>a, Part
  <2> HIDE DEF w, z
  <2>2. z \in Seq(Cells) /\ Len(z) = Len(l) - (j + 1) + 1 /\ \A i \in 1 .. Len(l) - (j + 1) + 1 : z[i] = l[j + 1 + i - 1]
    BY <2>b, <2>c DEF q
  <2>3. \A i \in 1 .. Len(l) - j : j + 1 + i - 1 = j + i
    OBVIOUS
  <2> HIDE DEF z
  <2> QED
    BY <2>1, <2>2, <2>3
<1> HIDE DEF b, z, X, Y
<1>3. c \in Seq(Cells) /\ Len(c) = j /\ \A i \in 1 .. j : c[i] = IF i <= j - 1 THEN b[i] ELSE X[i - (j - 1)]
  <2>1. c \in Seq(Cells) /\ Len(c) = Len(b) + Len(X)
    BY <1>0, <1>1, Joined, Zenon
  <2>2. \A i \in 1 .. Len(b) + Len(X) : c[i] = IF i <= Len(b) THEN b[i] ELSE X[i - Len(b)]
    BY <1>0, <1>1, JoinedAt
  <2> HIDE DEF c
  <2> QED
    BY <2>1, <2>2, <1>0, <1>1
<1> HIDE DEF c
<1>4. u \in Seq(Cells) /\ Len(u) = p /\ \A i \in 1 .. p : u[i] = IF i <= Len(t) THEN t[i] ELSE c[i - Len(t)]
  <2>1. u \in Seq(Cells) /\ Len(u) = Len(t) + Len(c)
    BY <1>3, Joined, Zenon
  <2>2. \A i \in 1 .. Len(t) + Len(c) : u[i] = IF i <= Len(t) THEN t[i] ELSE c[i - Len(t)]
    BY <1>3, JoinedAt
  <2> HIDE DEF u
  <2> QED
    BY <2>1, <2>2, <1>3
<1>5. v \in Seq(Cells) /\ Len(v) = 1 + Len(l) - j /\ \A i \in 1 .. 1 + Len(l) - j : v[i] = IF i <= 1 THEN Y[i] ELSE z[i - 1]
  <2>1. v \in Seq(Cells) /\ Len(v) = Len(Y) + Len(z)
    BY <1>0, <1>2, Joined, Zenon
  <2>2. \A i \in 1 .. Len(Y) + Len(z) : v[i] = IF i <= Len(Y) THEN Y[i] ELSE z[i - Len(Y)]
    BY <1>0, <1>2, JoinedAt
  <2> HIDE DEF v
  <2> QED
    BY <2>1, <2>2, <1>0, <1>2
<1>6. old \in Seq(Cells) /\ Len(old) = Len(t) + Len(l)
      /\ \A i \in 1 .. Len(t) + Len(l) : old[i] = IF i <= Len(t) THEN t[i] ELSE l[i - Len(t)]
  <2>1. old \in Seq(Cells) /\ Len(old) = Len(t) + Len(l)
    BY Joined, Zenon
  <2>2. \A i \in 1 .. Len(t) + Len(l) : old[i] = IF i <= Len(t) THEN t[i] ELSE l[i - Len(t)]
    BY JoinedAt
  <2> QED
    BY <2>1, <2>2
<1> HIDE DEF u, v, old
<1>7. new \in Seq(Cells) /\ Len(new) = Len(u) + Len(v)
      /\ \A i \in 1 .. Len(u) + Len(v) : new[i] = IF i <= Len(u) THEN u[i] ELSE v[i - Len(u)]
  <2>1. new \in Seq(Cells) /\ Len(new) = Len(u) + Len(v)
    BY <1>4, <1>5, Joined, Zenon
  <2>2. \A i \in 1 .. Len(u) + Len(v) : new[i] = IF i <= Len(u) THEN u[i] ELSE v[i - Len(u)]
    BY <1>4, <1>5, JoinedAt
  <2> QED
    BY <2>1, <2>2
<1> HIDE DEF new
<1>8. Len(t) \in Nat /\ Len(l) \in Nat /\ p \in 1 .. Len(old) /\ p = Len(t) + j
  BY <1>6
<1> HIDE DEF p
<1>9. Len(new) = Len(old) + 1
  BY <1>4, <1>5, <1>6, <1>7, <1>8
<1>10. ASSUME NEW i \in 1 .. p - 1
       PROVE  new[i] = old[i]
  <2>1. i \in 1 .. Len(u) + Len(v) /\ i <= Len(u) /\ i \in 1 .. Len(t) + Len(l) /\ i \in 1 .. p
    BY <1>4, <1>5, <1>8
  <2>2. new[i] = u[i]
    BY <2>1, <1>7
  <2>3. CASE i <= Len(t)
    BY <2>1, <2>2, <2>3, <1>4, <1>6
  <2>4. CASE ~ (i <= Len(t))
    <3>1. i - Len(t) \in 1 .. j /\ i - Len(t) <= j - 1 /\ i - Len(t) \in 1 .. j - 1
      BY <2>4, <1>8
    <3>2. u[i] = c[i - Len(t)] /\ old[i] = l[i - Len(t)]
      BY <2>1, <2>4, <1>4, <1>6
    <3>3. c[i - Len(t)] = b[i - Len(t)] /\ b[i - Len(t)] = l[i - Len(t)]
      BY <3>1, <1>1, <1>3
    <3> QED
      BY <2>2, <3>2, <3>3
  <2> QED
    BY <2>3, <2>4
<1>11. new[p] = x
  <2>1. p \in 1 .. Len(u) + Len(v) /\ p <= Len(u) /\ p \in 1 .. p /\ ~ (p <= Len(t)) /\ p - Len(t) = j
        /\ j \in 1 .. j /\ ~ (j <= j - 1) /\ j - (j - 1) = 1
    BY <1>4, <1>5, <1>8
  <2>2. new[p] = u[p] /\ u[p] = c[j]
    BY <2>1, <1>4, <1>7
  <2>3. c[j] = X[1]
    BY <2>1, <1>3
  <2> QED
    BY <2>2, <2>3, <1>0
<1>12. new[p + 1] = y
  <2>1. p + 1 \in 1 .. Len(u) + Len(v) /\ ~ (p + 1 <= Len(u)) /\ p + 1 - Len(u) = 1 /\ 1 \in 1 .. 1 + Len(l) - j
    BY <1>4, <1>5, <1>8
  <2> DEFINE q == p + 1
  <2>a. q \in 1 .. Len(u) + Len(v) /\ ~ (q <= Len(u)) /\ q - Len(u) = 1
    BY <1>4, <1>5, <1>8
  <2> HIDE DEF q
  <2>b. new[q] = v[q - Len(u)]
    BY <2>a, <1>7
  <2>2. new[p + 1] = v[1]
    BY <2>a, <2>b DEF q
  <2>3. v[1] = Y[1]
    BY <2>1, <1>5
  <2> QED
    BY <2>2, <2>3, <1>0
<1>13. ASSUME NEW i \in p + 1 .. Len(old)
       PROVE  new[i + 1] = old[i]
  <2> DEFINE k == i - p
  <2>1. k \in 1 .. Len(l) - j /\ i = p + k
    BY <1>6, <1>8
  <2> HIDE DEF k
  <2>2. i + 1 \in 1 .. Len(u) + Len(v) /\ ~ (i + 1 <= Len(u)) /\ i + 1 - Len(u) = k + 1
        /\ k + 1 \in 1 .. 1 + Len(l) - j /\ ~ (k + 1 <= 1) /\ k + 1 - 1 = k
        /\ i \in 1 .. Len(t) + Len(l) /\ ~ (i <= Len(t)) /\ i - Len(t) = j + k
    BY <2>1, <1>4, <1>5, <1>8
  <2> DEFINE q == i + 1
  <2>a. q \in 1 .. Len(u) + Len(v) /\ ~ (q <= Len(u)) /\ q - Len(u) = k + 1
    BY <2>2
  <2> HIDE DEF q
  <2>b. new[q] = v[q - Len(u)]
    BY <2>a, <1>7
  <2>3. new[i + 1] = v[k + 1]
    BY <2>a, <2>b DEF q
  <2> DEFINE h == k + 1
  <2>c. h \in 1 .. 1 + Len(l) - j /\ ~ (h <= 1) /\ h - 1 = k
    BY <2>1
  <2> HIDE DEF h
  <2>d. v[h] = z[k]
    BY <2>c, <1>5
  <2>4. v[k + 1] = z[k]
    BY <2>d DEF h
  <2>5. z[k] = l[j + k]
    BY <2>1, <1>2
  <2>6. old[i] = l[j + k]
    BY <2>2, <1>6
  <2> QED
    BY <2>3, <2>4, <2>5, <2>6
<1>14. Replaced(old, new, p, x, y)
  BY <1>7, <1>8, <1>9, <1>10, <1>11, <1>12, <1>13 DEF Replaced
<1> QED
  BY <1>14 DEF old, new, p, u, v, c, b, z, X, Y

LEMMA MoveKeeps ==
  ASSUME NEW t \in Seq(Cells), NEW l \in Seq(Cells), NEW max, Roomy(max)
  PROVE  LET m == MoveChunks(l, max)
             old == t \o l
             new == (t \o m.piece) \o m.rest
         IN \/ new = old
            \/ \E p, x, y, room : /\ room \in Nat /\ x \in Cells /\ y \in Cells
                                  /\ Replaced(old, new, p, x, y) /\ IsSplit(old[p], room, x, y)
                                  /\ old[p].type = "fd" /\ old[p].len > AlignDown(room)
<1> DEFINE m == MoveChunks(l, max)
           len == max - 56
           old == t \o l
           new == (t \o m.piece) \o m.rest
<1> HIDE DEF m
<1>1. CASE ~ m.more /\ m.piece = l /\ m.rest = <<>>
  <2>1. old \in Seq(Cells)
    OBVIOUS
  <2>2. old \o <<>> = old
    OBVIOUS
  <2> QED
    BY <1>1, <2>2 DEF m
<1>2. ASSUME NEW j, OverAt(l, len, j), m.piece \o m.rest = l, m.piece \in Seq(Cells), m.rest \in Seq(Cells)
      PROVE  new = old
  <2> DEFINE a == m.piece
             b == m.rest
  <2>a. a \in Seq(Cells) /\ b \in Seq(Cells)
    BY <1>2
  <2> HIDE DEF a, b
  <2>b. (t \o a) \o b = t \o (a \o b)
    BY <2>a, ConcatAssociative
  <2>1. (t \o m.piece) \o m.rest = t \o (m.piece \o m.rest)
    BY <2>b DEF a, b
  <2> QED
    BY <2>1, <1>2, Zenon
<1>3. ASSUME NEW j, OverAt(l, len, j), StopsBefore(l, m, len, j)
      PROVE  new = old
  <2>1. j \in 1 .. Len(l) /\ m.piece = SubSeq(l, 1, j - 1) /\ m.rest = SubSeq(l, j, Len(l))
    BY <1>3 DEF OverAt, StopsBefore
  <2>a. 1 \in 1 .. Len(l) + 1 /\ j - 1 \in 1 - 1 .. Len(l) /\ Len(l) \in j - 1 .. Len(l) /\ j - 1 + 1 = j
    BY <2>1
  <2>b. SubSeq(l, 1, j - 1) \o SubSeq(l, j - 1 + 1, Len(l)) = SubSeq(l, 1, Len(l))
    BY <2>a, ConcatAdjacentSubSeq, Zenon
  <2>2. m.piece \o m.rest = l
    BY <2>1, <2>a, <2>b, SubSeqFull
  <2>3. m.piece \in Seq(Cells) /\ m.rest \in Seq(Cells)
    BY PieceFits DEF m
  <2> QED
    BY <1>2, <1>3, <2>2, <2>3
<1>4. ASSUME NEW j, OverAt(l, len, j), StopsBehind(l, m, len, j)
      PROVE  new = old
  <2>1. j \in 1 .. Len(l) /\ m.piece = SubSeq(l, 1, j - 1) \o <<l[j]>> /\ m.rest = SubSeq(l, j + 1, Len(l))
    BY <1>4 DEF OverAt, StopsBehind
  <2>a. 1 \in 1 .. Len(l) + 1 /\ j \in 1 - 1 .. Len(l) /\ Len(l) \in j .. Len(l) /\ 1 \in 1 .. Len(l)
        /\ j \in 1 .. Len(l)
    BY <2>1
  <2>b. SubSeq(l, 1, j) \o SubSeq(l, j + 1, Len(l)) = SubSeq(l, 1, Len(l))
    BY <2>a, ConcatAdjacentSubSeq, Zenon
  <2>c. SubSeq(l, 1, j) = SubSeq(l, 1, j - 1) \o <<l[j]>>
    BY <2>a, SubSeqRecursiveSecond, Zenon
  <2>2. m.piece \o m.rest = l
    BY <2>1, <2>b, <2>c, SubSeqFull
  <2>3. m.piece \in Seq(Cells) /\ m.rest \in Seq(Cells)
    BY PieceFits DEF m
  <2> QED
    BY <1>2, <1>4, <2>2, <2>3
<1>5. ASSUME NEW j, OverAt(l, len, j), NEW x \in Cells, NEW y \in Cells, StopsIn(l, m, len, j, x, y)
      PROVE  \E p, room : /\ room \in Nat
                          /\ Replaced(old, new, p, x, y) /\ IsSplit(old[p], room, x, y)
                          /\ old[p].type = "fd" /\ old[p].len > AlignDown(room)
  <2> DEFINE room == Room(l, len, j)
  <2>1. /\ j \in 1 .. Len(l) /\ m.piece = SubSeq(l, 1, j - 1) \o <<x>>
        /\ m.rest = <<y>> \o SubSeq(l, j + 1, Len(l)) /\ room \in Nat /\ IsSplit(l[j], room, x, y)
        /\ l[j].type = "fd" /\ l[j].len > AlignDown(room)
    BY <1>5 DEF OverAt, StopsIn
  <2>2. Replaced(old, new, Len(t) + j, x, y)
    BY <2>1, ReplacedInMiddle
  <2>a. \A i \in 1 .. Len(l) : (t \o l)[Len(t) + i] = l[i]
    BY Joined
  <2>3. old[Len(t) + j] = l[j]
    BY <2>1, <2>a
  <2> QED
    BY <2>1, <2>2, <2>3
<1> QED
  <2>1. \/ ~ m.more /\ m.piece = l /\ m.rest = <<>>
        \/ \E j : /\ OverAt(l, len, j)
                  /\ \/ StopsBefore(l, m, len, j)
                     \/ StopsBehind(l, m, len, j)
                     \/ \E x, y \in Cells : StopsIn(l, m, len, j, x, y)
    BY CutCases DEF m
  <2> HIDE DEF len
  <2> QED
    BY <2>1, <1>1, <1>3, <1>4, <1>5, Zenon DEF m, len

LEMMA EndIs ==
  ASSUME NEW c \in Cells
  PROVE  c.block \in Nat /\ EndOf(c) \in Nat /\ c.block <= EndOf(c)
<1>1. c.block \in Nat /\ c.len \in Nat
  BY DEF Cells
<1> QED
  BY <1>1, RoundUp DEF EndOf

LEMMA ApartIsSorted ==
  ASSUME NEW l \in Seq(Cells), Apart(l)
  PROVE  \A i, j \in 1 .. Len(l) : i <= j => l[i].block <= l[j].block
<1> TAKE i \in 1 .. Len(l)
<1> DEFINE T == {n \in 0 .. Len(l) : n \in 1 .. Len(l) /\ i <= n => l[i].block <= l[n].block}
<1>0. \A k \in 1 .. Len(l) : l[k].block \in Nat /\ EndOf(l[k]) \in Nat /\ l[k].block <= EndOf(l[k])
  BY EndIs
<1>1. 0 \in T
  OBVIOUS
<1>2. ASSUME NEW n \in 0 .. Len(l) - 1, n \in T
      PROVE  n + 1 \in T
  <2> SUFFICES ASSUME i <= n + 1
               PROVE  l[i].block <= l[n + 1].block
    OBVIOUS
  <2>1. CASE i = n + 1
    BY <2>1, <1>0
  <2>2. CASE i <= n
    <3>1. n \in 1 .. Len(l) - 1 /\ n + 1 \in 1 .. Len(l) /\ n \in 1 .. Len(l)
      BY <2>2
    <3>2. l[i].block <= l[n].block
      BY <1>2, <2>2, <3>1
    <3>3. EndOf(l[n]) <= l[n + 1].block
      BY <3>1 DEF Apart
    <3>4. /\ l[i].block \in Nat /\ l[n].block \in Nat /\ l[n + 1].block \in Nat /\ EndOf(l[n]) \in Nat
          /\ l[n].block <= EndOf(l[n])
      BY <1>0, <3>1
    <3> DEFINE q == l[i].block
               r == l[n].block
               s == l[n + 1].block
               e == EndOf(l[n])
    <3> HIDE DEF q, r, s, e
    <3>5. q <= r /\ r <= e /\ e <= s /\ q \in Nat /\ r \in Nat /\ s \in Nat /\ e \in Nat
      BY <3>2, <3>3, <3>4 DEF q, r, s, e
    <3>6. q <= s
      BY <3>5
    <3> QED
      BY <3>6 DEF q, s
  <2> QED
    BY <2>1, <2>2
<1>3. \A n \in 0 .. Len(l) : n \in T
  <2> HIDE DEF T
  <2>1. \A n \in 0 .. Len(l) - 1 : n \in T => n + 1 \in T
    BY <1>2
  <2>2. Len(l) \in Nat
    OBVIOUS
  <2> QED
    BY <1>1, <2>1, <2>2, UpTo, Zenon
<1> TAKE j \in 1 .. Len(l)
<1> QED
  BY <1>3

LEMMA ListMoveAppends ==
  ASSUME NEW from \in Seq(Cells), NEW to \in Seq(Cells), Apart(to \o from)
  PROVE  ListMove(from, to) = to \o from
<1>1. CASE from = <<>>
  <2>1. ListMove(from, to) = to
    BY <1>1 DEF ListMove
  <2> QED
    BY <1>1, <2>1
<1>2. CASE from # <<>> /\ to # <<>>
  <2> DEFINE n == Len(to)
             l == to \o from
             after == {i \in 1 .. Len(to) : i = Len(to) \/ to[i+1].block > from[1].block}
             p == CHOOSE i \in after : \A j \in after : i <= j
  <2>1. n \in Nat /\ n >= 1 /\ Len(from) >= 1 /\ from[1] \in Cells
    BY <1>2
  <2>2. l \in Seq(Cells) /\ Len(l) = n + Len(from) /\ \A i \in 1 .. n : l[i] = to[i]
    BY Joined, Zenon
  <2>3. l[n + 1] = from[1]
    <3>1. \A i \in 1 .. Len(from) : (to \o from)[Len(to) + i] = from[i]
      BY Joined
    <3> QED
      BY <2>1, <3>1
  <2>4. \A i \in 1 .. n : to[i].block <= from[1].block /\ to[i].block \in Nat /\ from[1].block \in Nat
    <3> TAKE i \in 1 .. n
    <3>1. i \in 1 .. Len(l) /\ n + 1 \in 1 .. Len(l) /\ i <= n + 1
      BY <2>1, <2>2
    <3> HIDE DEF l
    <3>2. l[i].block <= l[n + 1].block
      BY <2>2, <3>1, ApartIsSorted DEF l
    <3>3. to[i] \in Cells
      OBVIOUS
    <3> QED
      BY <2>1, <2>2, <2>3, <3>2, <3>3, EndIs
  <2>5. after = {n}
    BY <2>1, <2>4
  <2> HIDE DEF after
  <2>6. p = n
    BY <2>5
  <2>7. ListMove(from, to) = SubSeq(to, 1, p) \o from \o SubSeq(to, p + 1, Len(to))
    BY <1>2, Zenon DEF ListMove, after
  <2> HIDE DEF p
  <2>8. SubSeq(to, 1, n) = to /\ SubSeq(to, n + 1, Len(to)) = <<>>
    OBVIOUS
  <2>9. l \o <<>> = l
    BY <2>2
  <2> QED
    BY <2>6, <2>7, <2>8, <2>9
<1>3. CASE from # <<>> /\ to = <<>>
  <2>1. ListMove(from, to) = from
    BY <1>3 DEF ListMove
  <2> QED
    BY <1>3, <2>1
<1> QED
  BY <1>1, <1>2, <1>3

\* The parts of a cell take its place.
LEMMA ReplacedApart ==
  ASSUME NEW old \in Seq(Cells), Apart(old), NEW new, NEW p, NEW x \in Cells, NEW y \in Cells, NEW room \in Nat,
         Replaced(old, new, p, x, y), IsSplit(old[p], room, x, y), old[p].len > AlignDown(room)
  PROVE  Apart(new)
<1> DEFINE c == old[p]
           n == room \div BlockSize
<1>0. p \in 1 .. Len(old) /\ new \in Seq(Cells) /\ Len(new) = Len(old) + 1 /\ c \in Cells
      /\ (\A i \in 1 .. p - 1 : new[i] = old[i]) /\ new[p] = x /\ new[p + 1] = y
      /\ \A i \in p + 1 .. Len(old) : new[i + 1] = old[i]
  BY DEF Replaced
<1>1. /\ x.block = c.block /\ x.len = AlignDown(room)
      /\ y.block = c.block + n /\ y.len = c.len - AlignDown(room)
  BY DEF IsSplit
<1>2. n \in Nat /\ AlignDown(room) = BlockSize * n /\ DivRoundUp(AlignDown(room)) = n /\ AlignDown(room) \in Nat
  BY RoundDown
<1>3. c.len \in Nat /\ c.block \in Nat /\ y.len \in Nat
  BY <1>0 DEF Cells
<1>4. EndOf(x) = y.block
  BY <1>1, <1>2 DEF EndOf
<1>5. EndOf(y) = EndOf(c)
  <2>1. c.len = BlockSize * n + y.len
    BY <1>1, <1>2, <1>3
  <2>2. DivRoundUp(BlockSize * n + y.len) = n + DivRoundUp(y.len) /\ DivRoundUp(y.len) \in Nat
    BY <1>2, <1>3, RoundUpSum, RoundUp
  <2>3. DivRoundUp(c.len) = n + DivRoundUp(y.len)
    BY <2>1, <2>2
  <2> DEFINE d == DivRoundUp(y.len)
             e == c.block
  <2>4. EndOf(c) = e + (n + d) /\ EndOf(y) = (e + n) + d /\ e \in Nat /\ n \in Nat /\ d \in Nat
    BY <2>2, <2>3, <1>1, <1>2, <1>3 DEF EndOf
  <2> HIDE DEF d, e, n
  <2> QED
    BY <2>4
<1>6. \A i \in 1 .. Len(old) - 1 : EndOf(old[i]) <= old[i + 1].block
  BY DEF Apart
<1> HIDE DEF c, n
<1>7. c = old[p] /\ y.block \in Nat
  BY DEF c, Cells
<1>8. SUFFICES ASSUME NEW i \in 1 .. Len(new) - 1
               PROVE  EndOf(new[i]) <= new[i + 1].block
  BY DEF Apart
<1>9. CASE i < p - 1
  <2>1. new[i] = old[i] /\ new[i + 1] = old[i + 1] /\ i \in 1 .. Len(old) - 1
    BY <1>0, <1>9
  <2> QED
    BY <2>1, <1>6
<1>10. CASE i = p - 1
  <2>1. new[i] = old[i] /\ new[i + 1] = x /\ i \in 1 .. Len(old) - 1 /\ old[i + 1] = c
    BY <1>0, <1>7, <1>10
  <2> QED
    BY <2>1, <1>1, <1>6
<1>11. CASE i = p
  BY <1>0, <1>4, <1>7, <1>11
<1>12. CASE i = p + 1
  <2>1. p \in 1 .. Len(old) - 1 /\ p + 1 \in p + 1 .. Len(old)
    BY <1>0, <1>12
  <2>2. new[p + 1 + 1] = old[p + 1]
    BY <1>0, <2>1
  <2>3. EndOf(c) <= old[p + 1].block
    BY <1>6, <1>7, <2>1
  <2> QED
    BY <1>0, <1>5, <1>12, <2>2, <2>3
<1>13. CASE i > p + 1
  <2> DEFINE k == i - 1
  <2>1. k \in p + 1 .. Len(old) /\ k + 1 \in p + 1 .. Len(old) /\ k \in 1 .. Len(old) - 1 /\ i = k + 1
    BY <1>0, <1>13
  <2> HIDE DEF k
  <2>2. new[k + 1] = old[k] /\ new[k + 1 + 1] = old[k + 1]
    BY <1>0, <2>1
  <2> QED
    BY <1>6, <2>1, <2>2
<1> QED
  BY <1>0, <1>8, <1>9, <1>10, <1>11, <1>12, <1>13

LEMMA MoveApart ==
  ASSUME NEW t \in Seq(Cells), NEW l \in Seq(Cells), NEW max, Roomy(max), Apart(t \o l)
  PROVE  LET m == MoveChunks(l, max) IN Apart((t \o m.piece) \o m.rest) /\ Apart(t \o m.piece)
<1> DEFINE m == MoveChunks(l, max)
           new == (t \o m.piece) \o m.rest
<1>0. m.piece \in Seq(Cells) /\ m.rest \in Seq(Cells)
  BY PieceFits
<1>1. Apart(new)
  <2>0. t \o l \in Seq(Cells)
    BY Joined, Zenon
  <2>1. CASE new = t \o l
    BY <2>1
  <2>2. ASSUME NEW p, NEW x, NEW y, NEW room, room \in Nat, x \in Cells, y \in Cells,
               Replaced(t \o l, new, p, x, y), IsSplit((t \o l)[p], room, x, y),
               (t \o l)[p].len > AlignDown(room)
        PROVE  Apart(new)
    BY <2>0, <2>2, ReplacedApart
  <2> HIDE DEF new
  <2> QED
    BY <2>1, <2>2, MoveKeeps DEF new
<1> DEFINE a == t \o m.piece
           b == m.rest
<1>2. a \in Seq(Cells) /\ b \in Seq(Cells) /\ Apart(a \o b)
  BY <1>0, <1>1
<1> HIDE DEF a, b, m
<1>3. /\ Len(a \o b) = Len(a) + Len(b) /\ Len(a) \in Nat /\ Len(b) \in Nat
      /\ \A i \in 1 .. Len(a) : (a \o b)[i] = a[i]
  BY <1>2, Joined
<1>4. Apart(a)
  BY <1>2, <1>3 DEF Apart
<1> QED
  BY <1>1, <1>4 DEF a, m

-----------------------------------------------------------------------------
(***************************************************************************)
(* Reading.  The cells are added at the end, so that they are apart.       *)
(***************************************************************************)
\* A recursion that stays within the sets G[0], G[1], ...
Stays(N, S, G, b, g) ==
  /\ N \in Nat /\ b \in G[0] /\ \A i \in 0 .. N : G[i] \subseteq S
  /\ \A i \in 1 .. N : \A x \in G[i - 1] : g[<<i, x>>] \in G[i]
Within(f, N, S, G, b, g) ==
  /\ f \in [0 .. N -> S] /\ f[0] = b
  /\ \A i \in 1 .. N : f[i] = g[<<i, f[i - 1]>>]
  /\ \A i \in 0 .. N : f[i] \in G[i]

LEMMA RecursionWithin ==
  ASSUME NEW N, NEW S, NEW G, NEW b, NEW g, Stays(N, S, G, b, g)
  PROVE  \E f : Within(f, N, S, G, b, g)
<1>0. /\ N \in Nat /\ b \in G[0] /\ \A i \in 0 .. N : G[i] \subseteq S
      /\ \A i \in 1 .. N : \A x \in G[i - 1] : g[<<i, x>>] \in G[i]
  BY DEF Stays
<1> DEFINE h == [p \in (1 .. N) \X S |-> IF p[2] \in G[p[1] - 1] THEN g[p] ELSE b]
<1>1. b \in S
  BY <1>0, 0 \in 0 .. N
<1>2. h \in [(1 .. N) \X S -> S]
  <2> SUFFICES ASSUME NEW p \in (1 .. N) \X S
               PROVE  (IF p[2] \in G[p[1] - 1] THEN g[p] ELSE b) \in S
    OBVIOUS
  <2>1. p = <<p[1], p[2]>> /\ p[1] \in 1 .. N /\ p[1] \in 0 .. N
    OBVIOUS
  <2>2. CASE p[2] \in G[p[1] - 1]
    <3>1. g[<<p[1], p[2]>>] \in G[p[1]]
      BY <1>0, <2>1, <2>2
    <3> QED
      BY <1>0, <3>1, <2>1, <2>2
  <2> QED
    BY <2>2, <1>1
<1>3. \A i \in 1 .. N : \A x \in G[i - 1] : x \in S /\ h[<<i, x>>] = g[<<i, x>>]
  <2> TAKE i \in 1 .. N
  <2> TAKE x \in G[i - 1]
  <2>1. i - 1 \in 0 .. N
    BY <1>0
  <2>2. x \in S
    BY <1>0, <2>1
  <2>3. <<i, x>> \in (1 .. N) \X S /\ <<i, x>>[1] = i /\ <<i, x>>[2] = x
    BY <2>2
  <2> QED
    BY <2>2, <2>3
<1> HIDE DEF h
<1>4. PICK f : Follows(f, h, b, S, N)
  BY <1>0, <1>1, <1>2, RecursionExists
<1> DEFINE T == {i \in 0 .. N : f[i] \in G[i]}
<1>5. 0 \in T
  BY <1>0, <1>4 DEF Follows
<1>6. \A n \in 0 .. N - 1 : n \in T => n + 1 \in T
  <2> TAKE n \in 0 .. N - 1
  <2> HAVE n \in T
  <2> DEFINE q == n + 1
  <2>1. q \in 1 .. N /\ q - 1 = n /\ q \in 0 .. N
    BY <1>0
  <2> HIDE DEF q
  <2>2. f[q - 1] \in G[q - 1]
    BY <2>1
  <2>3. f[q] = h[<<q, f[q - 1]>>]
    BY <1>4, <2>1 DEF Follows
  <2>4. f[q] \in G[q]
    BY <1>0, <2>1, <2>2, <2>3, <1>3
  <2>5. q \in T
    BY <2>4, <2>1
  <2> QED
    BY <2>5 DEF q
<1> HIDE DEF T
<1>7. \A n \in 0 .. N : n \in T
  BY <1>0, <1>5, <1>6, UpTo
<1>8. \A n \in 0 .. N : f[n] \in G[n]
  BY <1>7 DEF T
<1>9. \A i \in 1 .. N : f[i] = g[<<i, f[i - 1]>>]
  <2> TAKE i \in 1 .. N
  <2>1. i - 1 \in 0 .. N
    BY <1>0
  <2> QED
    BY <2>1, <1>8, <1>3, <1>4 DEF Follows
<1> QED
  BY <1>4, <1>8, <1>9 DEF Follows, Within

\* Rounding up gives no more than any number of blocks that is enough.
LEMMA RoundUpLeast ==
  ASSUME NEW n \in Nat, NEW q \in Nat, n <= BlockSize * q
  PROVE  DivRoundUp(n) <= q
<1> DEFINE d == DivRoundUp(n)
<1>1. d \in Nat /\ BlockSize * d < n + BlockSize
  BY RoundUp
<1> HIDE DEF d
<1>2. BlockSize * d < BlockSize * (q + 1)
  BY <1>1, Blocks
<1>3. ~ (q + 1 <= d)
  <2> SUFFICES ASSUME q + 1 <= d
               PROVE  FALSE
    OBVIOUS
  <2>1. PICK e \in Nat : d = q + 1 + e
    <3>1. d - (q + 1) \in Nat /\ d = q + 1 + (d - (q + 1))
      BY <1>1
    <3> QED
      BY <3>1
  <2>2. BlockSize * d = BlockSize * (q + 1) + BlockSize * e /\ BlockSize * e \in Nat
    BY <2>1, Blocks
  <2> QED
    BY <2>2, <1>2, <1>1, Blocks
<1>4. d <= q
  BY <1>1, <1>3
<1> QED
  BY <1>4 DEF d

LEMMA EndsBefore ==
  ASSUME NEW c \in Cells, c.len > 0, NEW q \in Nat, BlockSize * c.block + c.len <= BlockSize * q
  PROVE  EndOf(c) <= q /\ c.block < q
<1> DEFINE a == c.block
           n == c.len
<1>1. a \in Nat /\ n \in Nat /\ n > 0 /\ BlockSize * a + n <= BlockSize * q
  BY DEF Cells
<1> HIDE DEF a, n
<1>2. a < q
  <2>1. CASE q <= a
    <3>1. PICK e \in Nat : a = q + e
      <4>1. a - q \in Nat /\ a = q + (a - q)
        BY <1>1, <2>1
      <4> QED
        BY <4>1
    <3>2. BlockSize * a = BlockSize * q + BlockSize * e /\ BlockSize * e \in Nat /\ BlockSize * q \in Nat
      BY <3>1, Blocks
    <3> QED
      BY <3>2, <1>1
  <2> QED
    BY <1>1, <2>1
<1>3. PICK e \in Nat : q = a + e
  <2>1. q - a \in Nat /\ q = a + (q - a)
    BY <1>1, <1>2
  <2> QED
    BY <2>1
<1>4. BlockSize * q = BlockSize * a + BlockSize * e /\ BlockSize * e \in Nat /\ BlockSize * a \in Nat
  BY <1>1, <1>3, Blocks
<1>5. n <= BlockSize * e
  BY <1>1, <1>4
<1>6. DivRoundUp(n) <= e /\ DivRoundUp(n) \in Nat
  BY <1>1, <1>5, RoundUpLeast, RoundUp
<1> QED
  BY <1>1, <1>2, <1>3, <1>6 DEF EndOf, a, n

\* merge_bb of a cell and the one that begins where it ends.
LEMMA MergedIs ==
  ASSUME NEW a \in Cells, NEW b \in Cells, a.len > 0, CanMerge(a, b), EndOf(a) <= b.block,
         BlockSize * b.block + b.len < Wrap
  PROVE  /\ Merged(a, b) \in Cells
         /\ Merged(a, b).block = a.block /\ Merged(a, b).type = a.type /\ Merged(a, b).src = a.src
         /\ Merged(a, b).len > 0
         /\ BlockSize * a.block + Merged(a, b).len = BlockSize * b.block + b.len
         /\ Merged(a, b).data = a.data \o b.data /\ EndOf(a) = b.block
<1> DEFINE x == a.block
           n == a.len
           y == b.block
           m == b.len
           q == n \div BlockSize
           d == DivRoundUp(n)
           e == DivRoundUp(m)
           c == Merged(a, b)
<1>1. /\ x \in Nat /\ n \in Nat /\ y \in Nat /\ m \in Nat /\ n > 0 /\ x + q = y /\ x + d <= y
      /\ BlockSize * y + m < Wrap
  BY DEF Cells, CanMerge, EndOf
<1>2. c = [a EXCEPT !.len = (n + m) % Wrap, !.data = a.data \o b.data]
  BY DEF Merged
<1>3. /\ a \in [block : Nat, len : Nat, type : {"fill", "fd"}, src : Contents \union Fds,
                off : Nat, data : Seq(Contents)]
      /\ b.data \in Seq(Contents) /\ Len(a.data) = d /\ Len(b.data) = e
      /\ a.type = "fill" => a.src \in Contents
  BY DEF Cells
<1>4. q \in Nat /\ n = BlockSize * q + (n % BlockSize) /\ n % BlockSize \in Nat
  <2>1. q \in Nat /\ n % BlockSize \in 0 .. BlockSize - 1 /\ n = BlockSize * q + (n % BlockSize)
    BY <1>1, Division
  <2> QED
    BY <2>1, Blocks
<1>5. d \in Nat /\ n <= BlockSize * d
  BY <1>1, RoundUp
<1>6. e \in Nat
  BY <1>1, RoundUp
<1> HIDE DEF x, n, y, m, d, e, c
<1>7. d <= q
  BY <1>1, <1>4, <1>5
<1>8. n <= BlockSize * q
  <2>1. PICK r \in Nat : q = d + r
    <3>1. q - d \in Nat /\ q = d + (q - d)
      BY <1>4, <1>5, <1>7
    <3> QED
      BY <3>1
  <2>2. BlockSize * q = BlockSize * d + BlockSize * r /\ BlockSize * r \in Nat /\ BlockSize * d \in Nat
    BY <1>5, <2>1, Blocks
  <2> QED
    BY <1>1, <1>5, <2>2
<1>9. n = BlockSize * q
  <2>1. BlockSize * q \in Nat
    BY <1>4, Blocks
  <2> QED
    BY <2>1, <1>1, <1>4, <1>8
<1> HIDE DEF q
<1>10. BlockSize * y = BlockSize * x + BlockSize * q /\ BlockSize * x \in Nat /\ BlockSize * q \in Nat
  BY <1>1, <1>4, Blocks
<1>11. BlockSize * x + (n + m) = BlockSize * y + m /\ n + m \in Nat /\ n + m < Wrap /\ n + m > 0
  BY <1>1, <1>9, <1>10, Blocks
<1>12. (n + m) % Wrap = n + m
  <2> DEFINE s == n + m
  <2>1. s \in Nat /\ s < Wrap /\ Wrap \in Nat \ {0}
    BY <1>11, Blocks
  <2> HIDE DEF s
  <2>2. s % Wrap = s
    BY <2>1
  <2> QED
    BY <2>2 DEF s
<1>13. DivRoundUp(n + m) = q + e
  BY <1>1, <1>4, <1>9, RoundUpSum DEF e
<1>14. d = q
  BY <1>4, <1>9, WholeBlocks DEF d
<1>15. a.data \o b.data \in Seq(Contents) /\ Len(a.data \o b.data) = q + e
  <2>1. a.data \in Seq(Contents) /\ b.data \in Seq(Contents)
    BY <1>3
  <2>2. a.data \o b.data \in Seq(Contents) /\ Len(a.data \o b.data) = Len(a.data) + Len(b.data)
    BY <2>1, Joined
  <2> QED
    BY <2>2, <1>3, <1>14
<1>16. c = [a EXCEPT !.len = n + m, !.data = a.data \o b.data]
  BY <1>2, <1>12
<1>17. /\ c \in [block : Nat, len : Nat, type : {"fill", "fd"}, src : Contents \union Fds,
                 off : Nat, data : Seq(Contents)]
       /\ c.len = n + m /\ c.data = a.data \o b.data /\ c.block = a.block /\ c.type = a.type /\ c.src = a.src
  <2> DEFINE s == n + m
             v == a.data \o b.data
  <2>1. s \in Nat /\ v \in Seq(Contents) /\ c = [a EXCEPT !.len = s, !.data = v]
    BY <1>11, <1>15, <1>16
  <2> HIDE DEF s, v
  <2>2. /\ c \in [block : Nat, len : Nat, type : {"fill", "fd"}, src : Contents \union Fds,
                  off : Nat, data : Seq(Contents)]
        /\ c.len = s /\ c.data = v /\ c.block = a.block /\ c.type = a.type /\ c.src = a.src
    BY <2>1, <1>3
  <2> QED
    BY <2>2 DEF s, v
<1>18. c \in Cells
  <2>1. Len(c.data) = DivRoundUp(c.len)
    BY <1>13, <1>15, <1>17
  <2> QED
    BY <2>1, <1>17, <1>3 DEF Cells
<1>19. EndOf(a) = b.block
  BY <1>1, <1>14 DEF EndOf, x, y, d, n
<1> QED
  BY <1>17, <1>18, <1>19, <1>11 DEF c, x, y, n, m

LEMMA AddNothing ==
  ASSUME NEW S, NEW a \in Seq(S), NEW y
  PROVE  (a \o <<y>>) \o <<>> = a \o <<y>>
<1>1. a \in Seq(S \union {y}) /\ <<y>> \in Seq(S \union {y})
  OBVIOUS
<1>2. a \o <<y>> \in Seq(S \union {y})
  BY <1>1, Joined
<1> QED
  BY <1>2

\* queue_bb of a cell behind all others: the cell is added, and merged if it can be.
LEMMA QueueIs ==
  ASSUME NEW l \in Seq(Cells), NEW x \in Cells, \A i \in 1 .. Len(l) : l[i].block < x.block
  PROVE  IF l # <<>> /\ CanMerge(l[Len(l)], x)
         THEN Queue(l, x) = SubSeq(l, 1, Len(l) - 1) \o <<Merged(l[Len(l)], x)>>
         ELSE Queue(l, x) = l \o <<x>>
<1> DEFINE lower == Cardinality({i \in 1 .. Len(l) : l[i].block < x.block})
           n == Len(l)
           m == l \o <<x>>
           k == IF lower > 0 \/ l = <<>> \/ l[1].block > x.block THEN lower ELSE 1
<1>1. n \in Nat /\ {i \in 1 .. Len(l) : l[i].block < x.block} = 1 .. n
  OBVIOUS
<1>2. lower = n
  <2>1. Cardinality(1 .. n) = IF 1 > n THEN 0 ELSE n - 1 + 1
    BY SMTT(30), <1>1, FS_Interval
  <2>2. Cardinality(1 .. n) = n
    BY <2>1, <1>1
  <2> QED
    BY <2>2, <1>1
<1>3. Queue(l, x) = IF k = 0 THEN <<x>> \o l
                    ELSE MergeAt(MergeAt(InsertAt(l, k + 1, x), k + 1), k)
  BY DEF Queue
<1>a. <<x>> \in Seq(Cells)
  OBVIOUS
<1> HIDE DEF lower
<1>4. CASE l = <<>>
  <2>1. k = 0 /\ l \o <<x>> = <<x>> \o l
    BY <1>1, <1>2, <1>4, <1>a
  <2> QED
    BY <2>1, <1>3, <1>4
<1>5. CASE l # <<>>
  <2>1. n > 0 /\ k = n
    BY <1>1, <1>2, <1>5
  <2>2. InsertAt(l, n + 1, x) = m
    <3>1. InsertAt(l, n + 1, x) = (SubSeq(l, 1, n + 1 - 1) \o <<x>>) \o SubSeq(l, n + 1, n)
      BY DEF InsertAt
    <3>2. SubSeq(l, 1, n + 1 - 1) = l
      <4>1. n + 1 - 1 = n
        BY <1>1
      <4>2. SubSeq(l, 1, n) = l
        OBVIOUS
      <4> QED
        BY <4>1, <4>2
    <3>3. SubSeq(l, n + 1, n) = <<>>
      OBVIOUS
    <3>4. m \in Seq(Cells)
      BY <1>a, Joined, Zenon
    <3>5. m \o <<>> = m
      BY <3>4
    <3> QED
      BY <3>1, <3>2, <3>3, <3>5
  <2>3. m \in Seq(Cells) /\ Len(m) = n + 1 /\ m[n] = l[n] /\ m[n + 1] = x
    BY <1>a, <2>1, <1>1
  <2>4. MergeAt(m, n + 1) = m
    <3> HIDE DEF m
    <3>1. n + 1 \notin 1 .. Len(m) - 1
      BY <2>3, <1>1
    <3> QED
      BY <3>1 DEF MergeAt
  <2>5. MergeAt(m, n) = IF CanMerge(l[n], x)
                        THEN (SubSeq(m, 1, n - 1) \o <<Merged(l[n], x)>>) \o SubSeq(m, n + 2, n + 1) ELSE m
    <3>1. n \in 1 .. Len(m) - 1
      BY <2>1, <2>3, <1>1
    <3> QED
      BY <3>1, <2>3 DEF MergeAt
  <2>6. SubSeq(m, n + 2, n + 1) = <<>>
    <3> HIDE DEF m
    <3> QED
      BY <1>1, <2>3
  <2>7. SubSeq(m, 1, n - 1) = SubSeq(l, 1, n - 1)
    <3>1. 1 \in 1 .. n + 1 /\ 1 \in 1 .. Len(m) + 1 /\ n - 1 \in 1 - 1 .. n /\ n - 1 \in 1 - 1 .. Len(m)
      BY <1>1, <2>1, <2>3
    <3>2. /\ SubSeq(m, 1, n - 1) \in Seq(Cells) /\ Len(SubSeq(m, 1, n - 1)) = n - 1 - 1 + 1
          /\ \A i \in 1 .. n - 1 - 1 + 1 : SubSeq(m, 1, n - 1)[i] = m[1 + i - 1]
      <4> HIDE DEF m
      <4> QED
        BY <3>1, <2>3, Part
    <3>3. /\ SubSeq(l, 1, n - 1) \in Seq(Cells) /\ Len(SubSeq(l, 1, n - 1)) = n - 1 - 1 + 1
          /\ \A i \in 1 .. n - 1 - 1 + 1 : SubSeq(l, 1, n - 1)[i] = l[1 + i - 1]
      BY <3>1, Part
    <3>4. \A i \in 1 .. n - 1 - 1 + 1 : m[1 + i - 1] = l[1 + i - 1]
      <4> TAKE i \in 1 .. n - 1 - 1 + 1
      <4> DEFINE q == 1 + i - 1
      <4>1. q \in 1 .. n
        BY <1>1
      <4> HIDE DEF q
      <4>2. m[q] = l[q]
        BY <4>1, <1>a, Joined
      <4> QED
        BY <4>2 DEF q
    <3> DEFINE u == SubSeq(m, 1, n - 1)
               v == SubSeq(l, 1, n - 1)
    <3>5. /\ u \in Seq(Cells) /\ v \in Seq(Cells) /\ Len(u) = Len(v)
          /\ \A i \in 1 .. Len(u) : u[i] = v[i]
      BY <3>2, <3>3, <3>4
    <3> HIDE DEF u, v
    <3>6. u = v
      BY <3>5, Equal
    <3> QED
      BY <3>6 DEF u, v
  <2>8. (SubSeq(l, 1, n - 1) \o <<Merged(l[n], x)>>) \o <<>> = SubSeq(l, 1, n - 1) \o <<Merged(l[n], x)>>
    <3>1. SubSeq(l, 1, n - 1) \in Seq(Cells)
      BY <1>1, <2>1, Part
    <3> QED
      BY <3>1, AddNothing
  <2>9. k # 0
    BY <2>1
  <2>10. Queue(l, x) = MergeAt(MergeAt(InsertAt(l, k + 1, x), k + 1), k)
    BY <2>9, <1>3
  <2>11. Queue(l, x) = MergeAt(m, n)
    BY <2>10, <2>1, <2>2, <2>4
  <2> HIDE DEF m
  <2>12. MergeAt(m, n) = IF CanMerge(l[n], x) THEN SubSeq(l, 1, n - 1) \o <<Merged(l[n], x)>> ELSE m
    BY <2>5, <2>6, <2>7, <2>8
  <2> QED
    BY <2>11, <2>12, <1>5 DEF m
<1> QED
  BY <1>4, <1>5

LEMMA AppendTiled ==
  ASSUME NEW l, NEW k \in Nat, NEW fd, Tiled(l, k, fd), NEW x \in Cells, x.len > 0,
         x.type = "fd" => x.src = fd, l # <<>> => EndOf(l[Len(l)]) <= x.block,
         NEW e \in Nat, k <= e, BlockSize * x.block + x.len <= e
  PROVE  Tiled(l \o <<x>>, e, fd)
<1> DEFINE n == Len(l)
           m == l \o <<x>>
<1>1. /\ l \in Seq(Cells) /\ n \in Nat /\ \A i \in 1 .. n - 1 : EndOf(l[i]) <= l[i + 1].block
      /\ \A i \in 1 .. n : /\ l[i] \in Cells /\ l[i].len > 0 /\ BlockSize * l[i].block + l[i].len <= k
                           /\ l[i].type = "fd" => l[i].src = fd
  BY DEF Tiled, Apart
<1>2. <<x>> \in Seq(Cells) /\ Len(<<x>>) = 1 /\ <<x>>[1] = x
  BY One
<1>3. m \in Seq(Cells) /\ Len(m) = n + 1
  BY <1>1, <1>2, Joined
<1>4. \A i \in 1 .. n : m[i] = l[i]
  BY <1>1, <1>2, Joined
<1>5. m[n + 1] = x
  BY <1>1
<1> HIDE DEF m
<1>6. Apart(m)
  <2> SUFFICES ASSUME NEW i \in 1 .. n
               PROVE  EndOf(m[i]) <= m[i + 1].block
    BY <1>3, <1>1 DEF Apart
  <2>1. CASE i = n
    BY <2>1, <1>1, <1>4, <1>5
  <2>2. CASE i < n
    <3> DEFINE q == i + 1
    <3>1. q \in 1 .. n /\ i \in 1 .. n - 1
      BY <2>2, <1>1
    <3>2. EndOf(l[i]) <= l[q].block
      BY <1>1, <3>1
    <3> HIDE DEF q
    <3>3. EndOf(m[i]) <= m[q].block
      BY <3>1, <3>2, <1>4
    <3> QED
      BY <3>3 DEF q
  <2> QED
    BY <2>1, <2>2, <1>1
<1>7. ASSUME NEW i \in 1 .. Len(m)
      PROVE  /\ m[i].len > 0 /\ BlockSize * m[i].block + m[i].len <= e
             /\ m[i].type = "fd" => m[i].src = fd
  <2>1. CASE i = n + 1
    BY <2>1, <1>5
  <2>2. CASE i \in 1 .. n
    <3> DEFINE v == BlockSize * l[i].block
    <3>1. l[i].len \in Nat /\ l[i].block \in Nat /\ v + l[i].len <= k
      BY <2>2, <1>1 DEF Cells
    <3>2. v \in Nat
      BY <3>1, Blocks
    <3> HIDE DEF v
    <3>3. v + l[i].len <= e
      BY <3>1, <3>2
    <3> QED
      BY <2>2, <1>1, <1>4, <3>3 DEF v
  <2> QED
    BY <2>1, <2>2, <1>1, <1>3
<1> QED
  BY <1>3, <1>6, <1>7 DEF Tiled, m

\* The next part of an image is added behind the cells read so far.
LEMMA QueueAtEnd ==
  ASSUME NEW l, NEW k \in Nat, NEW fd, Tiled(l, k, fd), NEW x \in Cells, x.len > 0,
         x.type = "fd" => x.src = fd, k <= BlockSize * x.block, BlockSize * x.block + x.len < Wrap
  PROVE  Tiled(Queue(l, x), BlockSize * x.block + x.len, fd)
<1> DEFINE n == Len(l)
           e == BlockSize * x.block + x.len
<1>1. /\ l \in Seq(Cells) /\ n \in Nat /\ \A i \in 1 .. n - 1 : EndOf(l[i]) <= l[i + 1].block
      /\ \A i \in 1 .. n : /\ l[i] \in Cells /\ l[i].len > 0 /\ BlockSize * l[i].block + l[i].len <= k
                           /\ l[i].type = "fd" => l[i].src = fd
  BY DEF Tiled, Apart
<1>2. x.block \in Nat /\ x.len \in Nat /\ BlockSize * x.block \in Nat
  BY Blocks DEF Cells
<1>3. e \in Nat /\ k <= e
  BY <1>2
<1>4. ASSUME NEW i \in 1 .. n
      PROVE  EndOf(l[i]) <= x.block /\ l[i].block < x.block
  <2> DEFINE v == BlockSize * l[i].block
             w == BlockSize * x.block
  <2>1. l[i].len \in Nat /\ l[i].block \in Nat /\ v + l[i].len <= k
    BY <1>1 DEF Cells
  <2>2. v \in Nat /\ w \in Nat /\ k <= w
    BY SMTT(30), <2>1, <1>2, Blocks
  <2> HIDE DEF v, w
  <2>3. v + l[i].len <= w
    BY <2>1, <2>2
  <2>4. BlockSize * l[i].block + l[i].len <= BlockSize * x.block
    BY <2>3 DEF v, w
  <2> QED
    BY <2>4, <1>1, <1>2, EndsBefore
<1>5. CASE l # <<>> /\ CanMerge(l[n], x)
  <2> DEFINE a == l[n]
             c == Merged(a, x)
             u == SubSeq(l, 1, n - 1)
  <2>1. n \in 1 .. n /\ n > 0
    BY <1>1, <1>5
  <2>2. a \in Cells /\ a.len > 0 /\ CanMerge(a, x) /\ EndOf(a) <= x.block
        /\ (a.type = "fd" => a.src = fd)
    BY <2>1, <1>1, <1>4, <1>5
  <2>3. /\ c \in Cells /\ c.block = a.block /\ c.type = a.type /\ c.src = a.src /\ c.len > 0
        /\ BlockSize * a.block + c.len = e
    <3> HIDE DEF a
    <3> QED
      BY <2>2, MergedIs
  <2>4. Queue(l, x) = u \o <<c>>
    BY <1>1, <1>4, <1>5, QueueIs
  <2>5. u \in Seq(Cells) /\ Len(u) = n - 1 /\ \A i \in 1 .. n - 1 : u[i] = l[i]
    <3>1. 1 \in 1 .. n + 1 /\ n - 1 \in 1 - 1 .. n
      BY <2>1, <1>1
    <3>2. u \in Seq(Cells) /\ Len(u) = n - 1 - 1 + 1 /\ \A i \in 1 .. n - 1 - 1 + 1 : u[i] = l[1 + i - 1]
      BY <3>1, <1>1, Part
    <3> HIDE DEF u
    <3>3. \A i \in 1 .. n - 1 : u[i] = l[i]
      <4> TAKE i \in 1 .. n - 1
      <4>1. i \in 1 .. n - 1 - 1 + 1 /\ 1 + i - 1 = i
        BY <1>1
      <4>2. u[i] = l[1 + i - 1]
        BY <4>1, <3>2
      <4> QED
        BY <4>1, <4>2
    <3> QED
      BY <3>2, <3>3, <1>1
  <2> HIDE DEF u
  <2>6. Tiled(u, k, fd)
    <3>1. Apart(u)
      <4> SUFFICES ASSUME NEW i \in 1 .. n - 1 - 1
                   PROVE  EndOf(u[i]) <= u[i + 1].block
        BY <2>5 DEF Apart
      <4> DEFINE q == i + 1
      <4>1. i \in 1 .. n - 1 /\ q \in 1 .. n - 1 /\ EndOf(l[i]) <= l[q].block
        BY <1>1
      <4> HIDE DEF q
      <4>2. EndOf(u[i]) <= u[q].block
        BY <4>1, <2>5
      <4> QED
        BY <4>2 DEF q
    <3> QED
      BY <3>1, <2>5, <1>1 DEF Tiled
  <2>7. u # <<>> => EndOf(u[Len(u)]) <= c.block
    <3> SUFFICES ASSUME u # <<>>
                 PROVE  EndOf(u[n - 1]) <= a.block
      BY <2>3, <2>5
    <3> DEFINE q == n - 1
    <3>1. q \in 1 .. n - 1 /\ q + 1 = n
      BY <2>5, <1>1
    <3>2. EndOf(l[q]) <= l[q + 1].block
      BY <1>1, <3>1
    <3> HIDE DEF q
    <3>3. EndOf(u[q]) <= l[n].block
      BY <3>1, <3>2, <2>5
    <3> QED
      BY <3>3 DEF q
  <2>8. c.type = "fd" => c.src = fd
    BY <2>2, <2>3
  <2>9. BlockSize * c.block + c.len <= e
    BY <2>3, <1>3
  <2> HIDE DEF c, a, e
  <2>10. Tiled(u \o <<c>>, e, fd)
    BY <2>3, <2>6, <2>7, <2>8, <2>9, <1>3, AppendTiled
  <2> QED
    BY <2>4, <2>10 DEF e
<1>6. CASE ~ (l # <<>> /\ CanMerge(l[n], x))
  <2>1. Queue(l, x) = l \o <<x>>
    BY <1>1, <1>4, <1>6, QueueIs
  <2>2. l # <<>> => EndOf(l[Len(l)]) <= x.block
    <3> SUFFICES ASSUME l # <<>>
                 PROVE  EndOf(l[n]) <= x.block
      OBVIOUS
    <3>1. n \in 1 .. n
      BY <1>1
    <3> QED
      BY <3>1, <1>4
  <2>3. BlockSize * x.block + x.len <= e
    BY <1>3
  <2> HIDE DEF e
  <2>4. Tiled(l \o <<x>>, e, fd)
    BY <1>3, <2>2, <2>3, AppendTiled
  <2> QED
    BY <2>1, <2>4 DEF e
<1> QED
  BY <1>5, <1>6

-----------------------------------------------------------------------------
(***************************************************************************)
(* What the readers return.                                                *)
(***************************************************************************)
LEMMA FillIsCell ==
  ASSUME NEW b \in Nat, NEW n \in Nat, NEW v \in Contents
  PROVE  /\ Fill(b, n, v) \in Cells /\ Fill(b, n, v).block = b /\ Fill(b, n, v).len = n
         /\ Fill(b, n, v).type = "fill"
<1> DEFINE d == DivRoundUp(n)
           s == [i \in 1 .. d |-> v]
<1>1. d \in Nat
  BY RoundUp
<1> HIDE DEF d
<1>2. s \in Seq(Contents) /\ Len(s) = d
  BY <1>1
<1> HIDE DEF s
<1>3. Fill(b, n, v) = [block |-> b, len |-> n, type |-> "fill", src |-> v, off |-> 0, data |-> s]
  BY DEF Fill, s, d
<1>4. Len(s) = DivRoundUp(n)
  BY <1>2 DEF d
<1> QED
  BY <1>2, <1>3, <1>4 DEF Cells

LEMMA FdIsCell ==
  ASSUME NEW b \in Nat, NEW n \in Nat, NEW fd \in Fds, NEW off \in Nat, NEW s \in Seq(Contents),
         Len(s) = DivRoundUp(n)
  PROVE  /\ Fd(b, n, fd, off, s) \in Cells /\ Fd(b, n, fd, off, s).block = b
         /\ Fd(b, n, fd, off, s).len = n /\ Fd(b, n, fd, off, s).type = "fd"
         /\ Fd(b, n, fd, off, s).src = fd /\ Fd(b, n, fd, off, s).off = off
BY DEF Fd, Cells

LEMMA ToReadIs ==
  ASSUME NEW len \in Nat, NEW i \in 1 .. DivRoundUp(len)
  PROVE  /\ ToRead(len, i) \in Nat /\ ToRead(len, i) > 0 /\ DivRoundUp(ToRead(len, i)) = 1
         /\ BlockSize * (i - 1) + ToRead(len, i) = UpToBlock(len, i)
         /\ UpToBlock(len, i - 1) <= BlockSize * (i - 1)
         /\ UpToBlock(len, i) \in Nat /\ UpToBlock(len, i) <= len
<1> DEFINE N == DivRoundUp(len)
           p == i - 1
           t == ToRead(len, i)
           v == BlockSize * p
<1>1. N \in Nat /\ len <= BlockSize * N /\ BlockSize * N < len + BlockSize /\ i \in 1 .. N
  BY RoundUp
<1> HIDE DEF N
<1>2. p \in Nat /\ i = p + 1
  BY <1>1
<1> HIDE DEF p
<1>3. /\ v \in Nat /\ i * BlockSize = v + BlockSize /\ p * BlockSize = v
  BY <1>2, Blocks
<1>4. v < len
  <2>1. PICK e \in Nat : N = p + 1 + e
    <3>1. N - (p + 1) \in Nat /\ N = p + 1 + (N - (p + 1))
      BY <1>1, <1>2
    <3> QED
      BY <3>1
  <2>2. BlockSize * N = v + BlockSize + BlockSize * e /\ BlockSize * e \in Nat
    BY <1>2, <2>1, Blocks
  <2> HIDE DEF v
  <2> QED
    BY <2>2, <1>1, <1>3, Blocks
<1>5. UpToBlock(len, p) <= v
  BY <1>3, <1>4 DEF UpToBlock
<1>6. CASE v + BlockSize <= len
  <2>1. t = BlockSize /\ UpToBlock(len, i) = v + BlockSize
    BY <1>3, <1>6 DEF UpToBlock, ToRead
  <2>2. DivRoundUp(BlockSize) = 1
    BY RoundUpIs, Blocks
  <2> QED
    BY <2>1, <2>2, <1>3, <1>5, <1>6, Blocks DEF v, p
<1>7. CASE len < v + BlockSize
  <2>1. t = len % BlockSize /\ UpToBlock(len, i) = len
    BY <1>3, <1>7, Blocks DEF UpToBlock, ToRead
  <2> DEFINE r == len - v
  <2>2. r \in 0 .. BlockSize - 1 /\ r > 0 /\ len = v + r
    <3> HIDE DEF v
    <3> QED
      BY <1>3, <1>4, <1>7, Blocks
  <2> HIDE DEF r
  <2>3. len % BlockSize = r
    BY <2>2, <1>2, Quotient
  <2>4. DivRoundUp(r) = 1
    BY <2>2, RoundUpIs, Blocks
  <2>5. t \in Nat /\ t > 0 /\ DivRoundUp(t) = 1 /\ v + t = len
    <3> HIDE DEF v, t
    <3> QED
      BY <2>1, <2>2, <2>3, <2>4
  <2> QED
    BY <2>1, <2>5, <1>5 DEF v, p
<1> QED
  BY <1>3, <1>6, <1>7, Blocks

\* What sparse_file_read_normal adds for a block, and the list after each of them,
\* when the image is not longer than a cell can be.
BlockRead(raw, fd, i) ==
  IF ToRead(raw.len, i) = BlockSize /\ raw.blocks[i] \in Uniform
  THEN Fill(i - 1, ToRead(raw.len, i), raw.blocks[i])
  ELSE Fd(i - 1, ToRead(raw.len, i), fd, (i - 1) * BlockSize, <<raw.blocks[i]>>)

LEMMA BlockReadIs ==
  ASSUME NEW raw, raw.len \in Nat, raw.blocks \in Seq(Contents), Len(raw.blocks) = DivRoundUp(raw.len),
         raw.len < Wrap, NEW fd \in Fds, NEW i \in 1 .. Len(raw.blocks)
  PROVE  LET x == BlockRead(raw, fd, i)
         IN /\ x \in Cells /\ x.len > 0 /\ (x.type = "fd" => x.src = fd)
            /\ x.block = i - 1 /\ BlockSize * (i - 1) + x.len = UpToBlock(raw.len, i)
            /\ UpToBlock(raw.len, i - 1) <= BlockSize * (i - 1) /\ UpToBlock(raw.len, i) < Wrap
            /\ UpToBlock(raw.len, i - 1) \in Nat
<1> DEFINE len == raw.len
           N == Len(raw.blocks)
           at(j) == UpToBlock(len, j)
<1>1. N \in Nat /\ N = DivRoundUp(len) /\ len \in Nat /\ len < Wrap
  OBVIOUS
<1> DEFINE t == ToRead(len, i)
           v == raw.blocks[i]
           p == i - 1
           off == p * BlockSize
<1>b1. /\ t \in Nat /\ t > 0 /\ DivRoundUp(t) = 1 /\ BlockSize * (i - 1) + t = at(i)
      /\ at(i - 1) <= BlockSize * (i - 1) /\ at(i) \in Nat /\ at(i) <= len
  BY <1>1, ToReadIs
<1>b2. v \in Contents /\ p \in Nat /\ off \in Nat /\ <<v>> \in Seq(Contents) /\ Len(<<v>>) = 1
  BY <1>1, Blocks
<1>b3. at(i) < Wrap
  <2> DEFINE a == at(i)
  <2>1. a \in Nat /\ a <= len
    BY <1>b1
  <2> HIDE DEF a
  <2>2. a < Wrap
    BY <2>1, <1>1, Blocks
  <2> QED
    BY <2>2 DEF a
<1>b4. at(i - 1) \in Nat
  BY <1>1, <1>b2 DEF UpToBlock
<1>b5. /\ BlockRead(raw, fd, i) \in Cells /\ BlockRead(raw, fd, i).len = t /\ BlockRead(raw, fd, i).block = p
      /\ (BlockRead(raw, fd, i).type = "fd" => BlockRead(raw, fd, i).src = fd)
  <2>1. BlockRead(raw, fd, i) = IF t = BlockSize /\ v \in Uniform THEN Fill(p, t, v) ELSE Fd(p, t, fd, off, <<v>>)
    BY DEF BlockRead
  <2> HIDE DEF t, v, p, off
  <2>2. /\ Fill(p, t, v) \in Cells /\ Fill(p, t, v).block = p /\ Fill(p, t, v).len = t
        /\ Fill(p, t, v).type = "fill"
    BY <1>b1, <1>b2, FillIsCell
  <2>3. /\ Fd(p, t, fd, off, <<v>>) \in Cells /\ Fd(p, t, fd, off, <<v>>).block = p
        /\ Fd(p, t, fd, off, <<v>>).len = t /\ Fd(p, t, fd, off, <<v>>).src = fd
    <3>1. Len(<<v>>) = DivRoundUp(t)
      BY <1>b1, <1>b2
    <3> DEFINE s == <<v>>
    <3>2. p \in Nat /\ t \in Nat /\ off \in Nat /\ s \in Seq(Contents) /\ Len(s) = DivRoundUp(t)
      BY <1>b1, <1>b2, <3>1
    <3> HIDE DEF s
    <3>3. /\ Fd(p, t, fd, off, s) \in Cells /\ Fd(p, t, fd, off, s).block = p
          /\ Fd(p, t, fd, off, s).len = t /\ Fd(p, t, fd, off, s).src = fd
      BY <3>2, FdIsCell
    <3> QED
      BY <3>3 DEF s
  <2> QED
    BY <2>1, <2>2, <2>3
<1> DEFINE x == BlockRead(raw, fd, i)
<1>b6. /\ x \in Cells /\ x.len > 0 /\ (x.type = "fd" => x.src = fd)
       /\ x.block = i - 1 /\ BlockSize * (i - 1) + x.len = at(i)
       /\ at(i - 1) <= BlockSize * (i - 1) /\ at(i) < Wrap /\ at(i - 1) \in Nat
  <2> HIDE DEF at
  <2> QED
    BY <1>b1, <1>b3, <1>b4, <1>b5
<1> QED
  BY <1>b6

\* The list after i blocks.
ReadRun(b, raw, fd) ==
  /\ b[0] = <<>> /\ ReadNormal(raw, fd).bbs = b[Len(raw.blocks)]
  /\ \A i \in 1 .. Len(raw.blocks) : b[i] = Queue(b[i - 1], BlockRead(raw, fd, i))
  /\ \A i \in 0 .. Len(raw.blocks) : Tiled(b[i], UpToBlock(raw.len, i), fd)

LEMMA ReadNormalRun ==
  ASSUME NEW raw, raw.len \in Nat, raw.blocks \in Seq(Contents), Len(raw.blocks) = DivRoundUp(raw.len),
         raw.len < Wrap, NEW fd \in Fds
  PROVE  /\ ReadNormal(raw, fd) = [len |-> raw.len, bbs |-> ReadNormal(raw, fd).bbs]
         /\ Tiled(ReadNormal(raw, fd).bbs, raw.len, fd)
         /\ \E b : ReadRun(b, raw, fd)
<1> DEFINE len == raw.len
           N == Len(raw.blocks)
           block(i) == BlockRead(raw, fd, i)
           Is(f) == f = [i \in 0 .. N |-> IF i = 0 THEN <<>> ELSE Queue(f[i - 1], block(i))]
           bbs == CHOOSE f : Is(f)
           at(i) == UpToBlock(len, i)
           G == [i \in 0 .. N |-> {l \in Seq(Cells) : Tiled(l, at(i), fd)}]
           S == Seq(Cells)
           g == [p \in (1 .. N) \X S |-> Queue(p[2], block(p[1]))]
<1>1. N \in Nat /\ N = DivRoundUp(len) /\ len \in Nat /\ len < Wrap
  OBVIOUS
<1>2. ReadNormal(raw, fd) = [len |-> len, bbs |-> bbs[N]]
  BY DEF ReadNormal, ToRead, BlockRead
<1>3. ASSUME NEW i \in 1 .. N
      PROVE  /\ block(i) \in Cells /\ block(i).len > 0 /\ (block(i).type = "fd" => block(i).src = fd)
             /\ block(i).block = i - 1 /\ BlockSize * (i - 1) + block(i).len = at(i)
             /\ at(i - 1) <= BlockSize * (i - 1) /\ at(i) < Wrap /\ at(i - 1) \in Nat
  BY BlockReadIs
<1> HIDE DEF block, at
<1>4. \A i \in 0 .. N : G[i] = {l \in S : Tiled(l, at(i), fd)} /\ G[i] \subseteq S
  OBVIOUS
<1>5. <<>> \in G[0]
  <2>1. <<>> \in S /\ Tiled(<<>>, at(0), fd)
    BY DEF Tiled, Apart
  <2> QED
    BY <2>1, <1>1, <1>4
<1>6. \A i \in 1 .. N : \A l \in G[i - 1] : g[<<i, l>>] \in G[i] /\ g[<<i, l>>] = Queue(l, block(i))
  <2> TAKE i \in 1 .. N
  <2> TAKE l \in G[i - 1]
  <2> DEFINE x == block(i)
             k == at(i - 1)
             e == at(i)
  <2>1. l \in S /\ Tiled(l, k, fd)
    <3>1. i - 1 \in 0 .. N
      BY <1>1
    <3> HIDE DEF at, G
    <3> QED
      BY <3>1, <1>4
  <2>2. /\ x \in Cells /\ x.len > 0 /\ (x.type = "fd" => x.src = fd) /\ k \in Nat
        /\ k <= BlockSize * x.block /\ BlockSize * x.block + x.len = e /\ e < Wrap
    BY <1>3
  <2>3. g[<<i, l>>] = Queue(l, x)
    BY <2>1
  <2> HIDE DEF x, k, e, g, G
  <2>4. Tiled(Queue(l, x), e, fd)
    BY <2>1, <2>2, QueueAtEnd
  <2>5. g[<<i, l>>] \in G[i]
    <3>1. Queue(l, x) \in S
      BY <2>4 DEF Tiled
    <3>2. i \in 0 .. N
      BY <1>1
    <3> QED
      BY <3>1, <3>2, <2>3, <2>4, <1>4 DEF e
  <2> QED
    BY <2>3, <2>5 DEF x
<1> HIDE DEF G, g
<1>7. PICK f : Within(f, N, S, G, <<>>, g)
  <2>1. Stays(N, S, G, <<>>, g)
    <3>1. \A i \in 0 .. N : G[i] \subseteq S
      BY <1>4
    <3>2. \A i \in 1 .. N : \A x \in G[i - 1] : g[<<i, x>>] \in G[i]
      BY <1>6
    <3> HIDE DEF S, N
    <3> QED
      BY <1>1, <1>5, <3>1, <3>2 DEF Stays
  <2> QED
    BY <2>1, RecursionWithin
<1>8. Is(f)
  <2>1. \A i \in 1 .. N : f[i] = Queue(f[i - 1], block(i))
    <3> TAKE i \in 1 .. N
    <3>1. i - 1 \in 0 .. N
      BY <1>1
    <3>2. f[i - 1] \in G[i - 1]
      BY <3>1, <1>7 DEF Within
    <3> QED
      BY <3>2, <1>6, <1>7 DEF Within
  <2> QED
    BY <1>7, <2>1 DEF Within
<1>9. Is(bbs)
  <2> HIDE DEF Is
  <2> QED
    BY <1>8
<1> HIDE DEF bbs
<1>10. /\ bbs[0] = <<>> /\ \A i \in 1 .. N : bbs[i] = Queue(bbs[i - 1], block(i))
  BY <1>9, <1>1
<1> DEFINE T == {i \in 0 .. N : bbs[i] \in G[i]}
<1>11. \A n \in 0 .. N - 1 : n \in T => n + 1 \in T
  <2> TAKE n \in 0 .. N - 1
  <2> HAVE n \in T
  <2> DEFINE q == n + 1
  <2>1. q \in 1 .. N /\ q - 1 = n /\ q \in 0 .. N
    BY <1>1
  <2> HIDE DEF q
  <2>2. bbs[q - 1] \in G[q - 1]
    BY <2>1
  <2>3. bbs[q] \in G[q]
    BY <2>1, <2>2, <1>6, <1>10
  <2>4. q \in T
    BY <2>1, <2>3
  <2> QED
    BY <2>4 DEF q
<1>12. 0 \in T
  BY <1>10, <1>5, <1>1
<1> HIDE DEF T, N
<1>u. \A n \in 0 .. N : n \in T
  BY <1>1, <1>11, <1>12, UpTo
<1>13. N \in T
  BY <1>u, <1>1
<1>v. \A n \in 0 .. N : Tiled(bbs[n], at(n), fd)
  BY <1>u, <1>4 DEF T
<1>14. Tiled(bbs[N], at(N), fd)
  BY <1>13, <1>4 DEF T
<1>15. at(N) = len
  <2>1. len <= BlockSize * N /\ N * BlockSize = BlockSize * N /\ BlockSize * N \in Nat
    <3>1. len <= BlockSize * DivRoundUp(len)
      BY <1>1, RoundUp
    <3> QED
      BY <3>1, <1>1, Blocks
  <2> QED
    BY <2>1, <1>1 DEF at, UpToBlock
<1>16. ReadRun(bbs, raw, fd)
  <2>1. ReadNormal(raw, fd).bbs = bbs[N]
    BY <1>2
  <2> QED
    BY <2>1, <1>10, <1>v DEF ReadRun, N, block, at
<1> QED
  BY <1>2, <1>14, <1>15, <1>16

LEMMA ReadNormalIs ==
  ASSUME NEW raw, raw.len \in Nat, raw.blocks \in Seq(Contents), Len(raw.blocks) = DivRoundUp(raw.len),
         raw.len < Wrap, NEW fd \in Fds
  PROVE  /\ ReadNormal(raw, fd) = [len |-> raw.len, bbs |-> ReadNormal(raw, fd).bbs]
         /\ Tiled(ReadNormal(raw, fd).bbs, raw.len, fd)
BY ReadNormalRun

LEMMA SumGrows ==
  ASSUME NEW N \in Nat, NEW f \in [0 .. N -> Nat], \A i \in 1 .. N : f[i - 1] <= f[i]
  PROVE  \A i \in 0 .. N : f[i] <= f[N]
<1> TAKE i \in 0 .. N
<1> DEFINE T == {j \in 0 .. N : i <= j => f[i] <= f[j]}
<1>1. 0 \in T
  OBVIOUS
<1>2. \A n \in 0 .. N - 1 : n \in T => n + 1 \in T
  <2> SUFFICES ASSUME NEW n \in 0 .. N - 1, n \in T, i <= n + 1
               PROVE  f[i] <= f[n + 1]
    OBVIOUS
  <2>1. CASE i = n + 1
    BY <2>1
  <2>2. CASE i <= n
    <3> DEFINE q == n + 1
    <3>1. q \in 1 .. N /\ q - 1 = n /\ n \in 0 .. N /\ q \in 0 .. N
      OBVIOUS
    <3> HIDE DEF q
    <3>2. f[q - 1] <= f[q]
      BY <3>1
    <3>3. f[i] <= f[n] /\ f[i] \in Nat /\ f[n] \in Nat /\ f[q] \in Nat
      BY <2>2, <3>1
    <3>4. f[i] <= f[q]
      BY <3>1, <3>2, <3>3
    <3> QED
      BY <3>4 DEF q
  <2> QED
    BY <2>1, <2>2
<1> HIDE DEF T
<1>3. \A j \in 0 .. N : j \in T
  BY <1>1, <1>2, UpTo
<1> QED
  BY <1>3 DEF T

\* The sums that go along the chunks of a file.
LEMMA BlocksUpToIs ==
  ASSUME NEW S, \A c \in S : c.chunk_sz \in Nat, NEW chunks \in Seq(S)
  PROVE  LET f == BlocksUpTo(chunks)
         IN /\ f \in [0 .. Len(chunks) -> Nat] /\ f[0] = 0
            /\ \A i \in 1 .. Len(chunks) : f[i] = f[i - 1] + chunks[i].chunk_sz /\ f[i - 1] <= f[i]
            /\ \A i \in 0 .. Len(chunks) : f[i] <= f[Len(chunks)]
<1> DEFINE N == Len(chunks)
           w == [i \in 1 .. N |-> chunks[i].chunk_sz]
           Is(f) == f = [i \in 0 .. N |-> IF i = 0 THEN 0 ELSE f[i - 1] + chunks[i].chunk_sz]
           cur == CHOOSE f : Is(f)
<1>0. N \in Nat /\ w \in [1 .. N -> Nat] /\ \A i \in 1 .. N : w[i] = chunks[i].chunk_sz
  OBVIOUS
<1>1. \E f \in [0 .. N -> Nat] : f[0] = 0 /\ \A i \in 1 .. N : f[i] = f[i - 1] + w[i]
  <2> HIDE DEF w, N
  <2>1. 0 \in Nat
    OBVIOUS
  <2> QED
    BY <1>0, <2>1, SumsExist, Zenon
<1>2. \E f : Is(f)
  BY <1>1
<1>3. Is(cur)
  <2> HIDE DEF Is
  <2> QED
    BY <1>2
<1>4. BlocksUpTo(chunks) = cur
  BY DEF BlocksUpTo
<1> HIDE DEF cur
<1>5. IsSum(cur, N, 0, w)
  BY <1>0, <1>3 DEF IsFunction, IsSum
<1>6. /\ cur \in [0 .. N -> Nat] /\ cur[0] = 0
      /\ \A i \in 1 .. N : cur[i] = cur[i - 1] + w[i] /\ cur[i - 1] <= cur[i]
  <2> HIDE DEF w, N, Is
  <2> QED
    BY <1>5, SumIs
<1>7. \A i \in 0 .. N : cur[i] <= cur[N]
  <2> HIDE DEF w, N, Is
  <2> QED
    BY <1>6, <1>0, SumGrows
<1> QED
  BY <1>0, <1>4, <1>6, <1>7

LEMMA BytesUpToIs ==
  ASSUME NEW S, \A c \in S : c.size \in Nat, NEW chunks \in Seq(S)
  PROVE  BytesUpTo(chunks) \in [0 .. Len(chunks) -> Nat]
<1> DEFINE N == Len(chunks)
           w == [i \in 1 .. N |-> chunks[i].size]
           Is(f) == f = [i \in 0 .. N |-> IF i = 0 THEN 28 ELSE f[i - 1] + chunks[i].size]
           off == CHOOSE f : Is(f)
<1>0. N \in Nat /\ w \in [1 .. N -> Nat] /\ \A i \in 1 .. N : w[i] = chunks[i].size
  OBVIOUS
<1>1. \E f \in [0 .. N -> Nat] : f[0] = 28 /\ \A i \in 1 .. N : f[i] = f[i - 1] + w[i]
  <2> HIDE DEF w, N
  <2>1. 28 \in Nat
    OBVIOUS
  <2> QED
    BY <1>0, <2>1, SumsExist, Zenon
<1>2. \E f : Is(f)
  BY <1>1
<1>3. Is(off)
  <2> HIDE DEF Is
  <2> QED
    BY <1>2
<1>4. BytesUpTo(chunks) = off
  BY DEF BytesUpTo, SPARSE_HEADER_LEN
<1> HIDE DEF off
<1>5. IsSum(off, N, 28, w)
  BY <1>0, <1>3 DEF IsFunction, IsSum
<1>6. off \in [0 .. N -> Nat]
  <2> HIDE DEF w, N, Is
  <2> QED
    BY <1>5, SumIs
<1> QED
  BY <1>4, <1>6

LEMMA FileSizeIs ==
  ASSUME NEW S, \A c \in S : c.size \in Nat, NEW items \in Seq(S)
  PROVE  \E f \in [0 .. Len(items) -> Nat] :
           /\ f[0] = 0 /\ FileSize(items) = f[Len(items)]
           /\ \A i \in 1 .. Len(items) : f[i] = f[i - 1] + items[i].size /\ f[i - 1] <= f[i]
<1> DEFINE N == Len(items)
           w == [i \in 1 .. N |-> items[i].size]
           Is(f) == f = [i \in 0 .. N |-> IF i = 0 THEN 0 ELSE f[i - 1] + items[i].size]
           size == CHOOSE f : Is(f)
<1>0. N \in Nat /\ w \in [1 .. N -> Nat] /\ \A i \in 1 .. N : w[i] = items[i].size
  OBVIOUS
<1>1. \E f \in [0 .. N -> Nat] : f[0] = 0 /\ \A i \in 1 .. N : f[i] = f[i - 1] + w[i]
  <2> HIDE DEF w, N
  <2>1. 0 \in Nat
    OBVIOUS
  <2> QED
    BY <1>0, <2>1, SumsExist, Zenon
<1>2. \E f : Is(f)
  BY <1>1
<1>3. Is(size)
  <2> HIDE DEF Is
  <2> QED
    BY <1>2
<1>4. FileSize(items) = size[N]
  BY DEF FileSize
<1> HIDE DEF size
<1>5. IsSum(size, N, 0, w)
  BY <1>0, <1>3 DEF IsFunction, IsSum
<1>6. /\ size \in [0 .. N -> Nat] /\ size[0] = 0
      /\ \A i \in 1 .. N : size[i] = size[i - 1] + w[i] /\ size[i - 1] <= size[i]
  <2> HIDE DEF w, N, Is
  <2> QED
    BY <1>5, SumIs
<1> QED
  BY <1>0, <1>4, <1>6

\* The size of a file is that of its parts.
LEMMA FileSizeNat ==
  ASSUME NEW S, \A c \in S : c.size \in Nat, NEW items \in Seq(S)
  PROVE  FileSize(items) \in Nat
BY FileSizeIs

LEMMA FileSizeJoined ==
  ASSUME NEW S, \A c \in S : c.size \in Nat, NEW a \in Seq(S), NEW b \in Seq(S)
  PROVE  FileSize(a \o b) = FileSize(a) + FileSize(b)
<1> DEFINE m == Len(a)
           n == Len(b)
           ab == a \o b
<1>1. /\ m \in Nat /\ n \in Nat /\ ab \in Seq(S) /\ Len(ab) = m + n
  BY Joined
<1>2. \A i \in 1 .. m : ab[i] = a[i]
  BY Joined
<1>3. \A i \in 1 .. n : ab[m + i] = b[i]
  <2>1. \A i \in 1 .. Len(b) : (a \o b)[Len(a) + i] = b[i]
    BY Joined
  <2> QED
    BY <2>1
<1>4. PICK f \in [0 .. m -> Nat] : /\ f[0] = 0 /\ FileSize(a) = f[m]
                                   /\ \A i \in 1 .. m : f[i] = f[i - 1] + a[i].size /\ f[i - 1] <= f[i]
  BY FileSizeIs
<1>5. PICK g \in [0 .. n -> Nat] : /\ g[0] = 0 /\ FileSize(b) = g[n]
                                   /\ \A i \in 1 .. n : g[i] = g[i - 1] + b[i].size /\ g[i - 1] <= g[i]
  BY FileSizeIs
<1> HIDE DEF ab
<1>6. PICK h \in [0 .. m + n -> Nat] :
        /\ h[0] = 0 /\ FileSize(ab) = h[m + n]
        /\ \A i \in 1 .. m + n : h[i] = h[i - 1] + ab[i].size /\ h[i - 1] <= h[i]
  <2>1. \E h \in [0 .. Len(ab) -> Nat] :
           /\ h[0] = 0 /\ FileSize(ab) = h[Len(ab)]
           /\ \A i \in 1 .. Len(ab) : h[i] = h[i - 1] + ab[i].size /\ h[i - 1] <= h[i]
    BY <1>1, FileSizeIs
  <2> QED
    BY <1>1, <2>1
<1> HIDE DEF m, n
<1>7. \A i \in 0 .. m : h[i] = f[i]
  <2>1. \A i \in 1 .. m : h[i - 1] = f[i - 1] => h[i] = f[i]
    <3> TAKE i \in 1 .. m
    <3>1. i \in 1 .. m + n
      BY <1>1
    <3>2. h[i] = h[i - 1] + ab[i].size /\ f[i] = f[i - 1] + a[i].size
      BY <3>1, <1>4, <1>6
    <3> QED
      BY <3>2, <1>2
  <2> DEFINE U == {i \in 0 .. m : h[i] = f[i]}
  <2>2. 0 \in U
    BY <1>1, <1>4, <1>6
  <2>3. \A i \in 0 .. m - 1 : i \in U => i + 1 \in U
    <3> TAKE i \in 0 .. m - 1
    <3>1. i + 1 \in 1 .. m /\ i + 1 - 1 = i
      BY <1>1
    <3> QED
      BY <3>1, <2>1
  <2> HIDE DEF U
  <2>4. \A i \in 0 .. m : i \in U
    BY <1>1, <2>2, <2>3, UpTo
  <2> QED
    BY <2>4 DEF U
<1> DEFINE T == {i \in 0 .. n : h[m + i] = f[m] + g[i]}
<1>8. 0 \in T
  <2>1. h[m] = f[m] /\ f[m] \in Nat /\ m + 0 = m
    BY <1>1, <1>4, <1>7
  <2> QED
    BY <2>1, <1>1, <1>5
<1>9. \A i \in 0 .. n - 1 : i \in T => i + 1 \in T
  <2> TAKE i \in 0 .. n - 1
  <2> HAVE i \in T
  <2> DEFINE q == i + 1
             r == m + q
  <2>1. q \in 1 .. n /\ q - 1 = i /\ r \in 1 .. m + n /\ r - 1 = m + i /\ q \in 0 .. n /\ m + q = r
    BY <1>1
  <2>2. h[m + i] = f[m] + g[i] /\ ab[m + q] = b[q]
    BY <2>1, <1>3
  <2> HIDE DEF q, r
  <2>3. h[r] = h[r - 1] + ab[r].size /\ g[q] = g[q - 1] + b[q].size /\ b[q] \in S
    BY <2>1, <1>5, <1>6 DEF n
  <2>4. h[r] = f[m] + g[i] + b[q].size /\ g[q] = g[i] + b[q].size /\ b[q].size \in Nat
    BY <2>1, <2>2, <2>3
  <2>5. f[m] \in Nat /\ g[i] \in Nat
    BY <1>1, <1>4, <1>5
  <2>6. h[m + q] = f[m] + g[q]
    <3>1. h[m + q] = h[r]
      BY <2>1
    <3> DEFINE s == b[q].size
               x == f[m]
               y == g[i]
               z == g[q]
    <3>2. h[r] = x + y + s /\ z = y + s /\ s \in Nat /\ x \in Nat /\ y \in Nat
      BY <2>4, <2>5
    <3> HIDE DEF s, x, y, z
    <3>3. h[r] = x + z
      BY <3>2
    <3> QED
      BY <3>1, <3>3 DEF x, z
  <2>7. q \in T
    BY <2>1, <2>6
  <2> QED
    BY <2>7 DEF q
<1> HIDE DEF T
<1>10. \A i \in 0 .. n : i \in T
  BY <1>1, <1>8, <1>9, UpTo
<1>11. h[m + n] = f[m] + g[n]
  BY <1>1, <1>10 DEF T
<1> QED
  BY <1>4, <1>5, <1>6, <1>11 DEF ab

LEMMA FileSizeOne ==
  ASSUME NEW c, c.size \in Nat
  PROVE  FileSize(<<c>>) = c.size /\ FileSize(<<>>) = 0
<1> DEFINE S == {c}
           s == <<c>>
           e == <<>>
<1>1. /\ \A d \in S : d.size \in Nat
      /\ s \in Seq(S) /\ Len(s) = 1 /\ s[1] = c /\ e \in Seq(S) /\ Len(e) = 0
  OBVIOUS
<1> HIDE DEF S, s, e
<1>2. PICK f \in [0 .. Len(s) -> Nat] :
        /\ f[0] = 0 /\ FileSize(s) = f[Len(s)]
        /\ \A i \in 1 .. Len(s) : f[i] = f[i - 1] + s[i].size /\ f[i - 1] <= f[i]
  BY <1>1, FileSizeIs
<1>3. PICK g \in [0 .. Len(e) -> Nat] :
        /\ g[0] = 0 /\ FileSize(e) = g[Len(e)]
        /\ \A i \in 1 .. Len(e) : g[i] = g[i - 1] + e[i].size /\ g[i - 1] <= g[i]
  BY <1>1, FileSizeIs
<1>4. f[1] = f[1 - 1] + s[1].size
  BY <1>1, <1>2
<1>5. f[1] = c.size
  BY <1>4, <1>1, <1>2
<1> QED
  BY <1>1, <1>2, <1>3, <1>5 DEF s, e

LEMMA ItemIs ==
  ASSUME NEW c \in Items
  PROVE  /\ c.size \in Nat
         /\ c.type = "header" => c \in Headers /\ c.total_blks \in Nat /\ c.total_chunks \in Nat
         /\ c.type \in {"raw", "fill", "skip", "crc32"} => c \in Chunks
<1>1. CASE c \in Headers
  BY <1>1 DEF Headers, SPARSE_HEADER_LEN
<1>2. CASE c \in Chunks
  BY <1>2 DEF Chunks
<1>3. CASE c = Torn
  BY <1>3 DEF Torn
<1> QED
  BY <1>1, <1>2, <1>3 DEF Items

LEMMA TiledOnly ==
  ASSUME NEW l, NEW k \in Nat, NEW e \in Nat, NEW fd, Tiled(l, k, fd), k <= e
  PROVE  Tiled(l, e, fd)
<1>1. \A i \in 1 .. Len(l) : BlockSize * l[i].block + l[i].len <= e
  <2> TAKE i \in 1 .. Len(l)
  <2> DEFINE v == BlockSize * l[i].block + l[i].len
  <2>1. v <= k
    BY DEF Tiled
  <2>2. v \in Nat
    <3>1. l[i] \in Cells
      BY DEF Tiled
    <3>2. l[i].block \in Nat /\ l[i].len \in Nat
      BY <3>1 DEF Cells
    <3> QED
      BY SMTT(30), <3>2, Blocks
  <2> HIDE DEF v
  <2>3. v <= e
    BY <2>1, <2>2
  <2> QED
    BY <2>3 DEF v
<1> QED
  BY <1>1 DEF Tiled

\* process_chunk adds what a chunk expands to at the end.
LEMMA ProcessIs ==
  ASSUME NEW c \in Chunks, NEW cur \in Nat, NEW off \in Nat, NEW fd \in Fds,
         NEW l, Tiled(l, BlockSize * cur, fd), NEW next, next = cur + c.chunk_sz, BlockSize * next < Wrap
  PROVE  Tiled(ProcessChunk(l, c, cur, fd, off), BlockSize * next, fd)
<1> DEFINE n == c.chunk_sz * BlockSize
           v == BlockSize * cur
           w == BlockSize * next
<1>1. c.chunk_sz \in Nat /\ c.data \in Seq(Contents) /\ c.type \in {"raw", "fill", "skip", "crc32"}
  BY DEF Chunks
<1>2. /\ n \in Nat /\ v \in Nat /\ w \in Nat /\ w = v + n /\ DivRoundUp(n) = c.chunk_sz
      /\ (c.chunk_sz > 0 => n > 0)
  <2> DEFINE s == c.chunk_sz
  <2>1. s \in Nat
    BY <1>1
  <2> HIDE DEF s
  <2>2. DivRoundUp(BlockSize * s) = s /\ BlockSize * s \in Nat
    BY <2>1, WholeBlocks
  <2>3. s * BlockSize = BlockSize * s /\ BlockSize * (cur + s) = BlockSize * cur + BlockSize * s
        /\ BlockSize * cur \in Nat
    BY <2>1, Blocks
  <2>4. s > 0 => BlockSize * s > 0
    BY <2>1, Blocks
  <2> QED
    BY <2>2, <2>3, <2>4 DEF s
<1> HIDE DEF n
<1>3. CASE c.type = "raw"
  <2> DEFINE x == Fd(cur, n, fd, off, c.data)
  <2>1. Len(c.data) = c.chunk_sz /\ n > 0
    BY <1>2, <1>3 DEF Chunks
  <2>2. /\ x \in Cells /\ x.block = cur /\ x.len = n /\ x.src = fd
    <3> DEFINE s == c.data
    <3>1. s \in Seq(Contents) /\ Len(s) = DivRoundUp(n)
      BY <1>1, <1>2, <2>1
    <3> HIDE DEF s
    <3>2. /\ Fd(cur, n, fd, off, s) \in Cells /\ Fd(cur, n, fd, off, s).block = cur
          /\ Fd(cur, n, fd, off, s).len = n /\ Fd(cur, n, fd, off, s).src = fd
      BY <3>1, <1>2, FdIsCell
    <3> QED
      BY <3>2 DEF s
  <2>3. ProcessChunk(l, c, cur, fd, off) = Queue(l, x)
    BY <1>3 DEF ProcessChunk, ProcessRaw, n
  <2> HIDE DEF x
  <2>4. Tiled(Queue(l, x), BlockSize * x.block + x.len, fd)
    <3>1. v <= BlockSize * x.block /\ BlockSize * x.block + x.len < Wrap
      BY <1>2, <2>2
    <3> QED
      BY <3>1, <1>2, <2>1, <2>2, QueueAtEnd
  <2> QED
    BY <2>2, <2>3, <2>4, <1>2
<1>4. CASE c.type = "fill"
  <2> DEFINE x == Fill(cur, n, c.data[1])
  <2>1. c.data[1] \in Contents /\ n > 0
    BY <1>1, <1>2, <1>4 DEF Chunks
  <2>2. /\ x \in Cells /\ x.block = cur /\ x.len = n /\ x.type = "fill"
    <3> DEFINE u == c.data[1]
    <3>1. u \in Contents /\ n \in Nat
      BY <2>1, <1>2
    <3> HIDE DEF u
    <3>2. /\ Fill(cur, n, u) \in Cells /\ Fill(cur, n, u).block = cur /\ Fill(cur, n, u).len = n
          /\ Fill(cur, n, u).type = "fill"
      BY <3>1, FillIsCell
    <3> QED
      BY <3>2 DEF u
  <2>3. ProcessChunk(l, c, cur, fd, off) = Queue(l, x)
    BY <1>4 DEF ProcessChunk, ProcessFill, n
  <2> HIDE DEF x
  <2>4. Tiled(Queue(l, x), BlockSize * x.block + x.len, fd)
    <3>1. v <= BlockSize * x.block /\ BlockSize * x.block + x.len < Wrap
      BY <1>2, <2>2
    <3> QED
      BY <3>1, <1>2, <2>1, <2>2, QueueAtEnd
  <2> QED
    BY <2>2, <2>3, <2>4, <1>2
<1>5. CASE c.type \in {"skip", "crc32"}
  <2>1. ProcessChunk(l, c, cur, fd, off) = l
    BY <1>5 DEF ProcessChunk
  <2> HIDE DEF v, w
  <2>2. Tiled(l, v, fd) /\ v <= w
    BY <1>2 DEF v
  <2>3. Tiled(l, w, fd)
    BY <1>2, <2>2, TiledOnly
  <2> QED
    BY <2>1, <2>3 DEF w
<1> QED
  BY <1>1, <1>3, <1>4, <1>5

LEMMA ImportIsRun ==
  ASSUME NEW f, f.items \in Seq(Items), Importable(f), f.items[1].total_blks * BlockSize < Wrap,
         NEW fd \in Fds
  PROVE  /\ Import(f, fd).len \in Nat /\ Import(f, fd).len = f.items[1].total_blks * BlockSize
         /\ Import(f, fd) = [len |-> Import(f, fd).len, bbs |-> Import(f, fd).bbs]
         /\ Tiled(Import(f, fd).bbs, Import(f, fd).len, fd)
         /\ \E b, blk, off : ImportRun(b, blk, off, f, fd)
<1> DEFINE items == f.items
           h == items[1]
           total == h.total_blks
           chunks == ChunksOf(f)
           N == Len(chunks)
           blk == BlocksUpTo(chunks)
           off == BytesUpTo(chunks)
           step(i, l) == ProcessChunk(l, chunks[i], blk[i - 1], fd, off[i - 1] + CHUNK_HEADER_LEN)
           Is(b) == b = [i \in 0 .. N |-> IF i = 0 THEN <<>> ELSE step(i, b[i - 1])]
           bbs == CHOOSE b : Is(b)
           S == Seq(Cells)
           G == [i \in 0 .. N |-> {l \in S : Tiled(l, BlockSize * blk[i], fd)}]
           g == [p \in (1 .. N) \X S |-> step(p[1], p[2])]
<1>1. /\ items # <<>> /\ h.type = "header" /\ h.total_chunks + 1 <= Len(items)
      /\ \A i \in 1 .. N : chunks[i].type \in {"raw", "fill", "skip", "crc32"}
      /\ blk[N] = total
  BY DEF Importable, IsSparse
<1>2. total \in Nat /\ h.total_chunks \in Nat
  <2>1. h \in Items
    BY <1>1
  <2> QED
    BY <2>1, <1>1, ItemIs
<1>3. Import(f, fd) = [len |-> total * BlockSize, bbs |-> bbs[N]]
  BY DEF Import
<1>4. chunks \in Seq(Chunks) /\ N \in Nat
  <2>1. 2 \in 1 .. Len(items) + 1 /\ h.total_chunks + 1 \in 2 - 1 .. Len(items)
    BY <1>1, <1>2
  <2>2. SubSeq(items, 2, h.total_chunks + 1) \in Seq(Items)
    BY <2>1, Part
  <2>3. chunks \in Seq(Items)
    BY <2>2 DEF ChunksOf
  <2>4. \A i \in 1 .. N : chunks[i] \in Chunks
    BY <2>3, <1>1, ItemIs
  <2> HIDE DEF chunks
  <2> QED
    BY <2>3, <2>4
<1>5. /\ blk \in [0 .. N -> Nat] /\ blk[0] = 0
      /\ \A i \in 1 .. N : blk[i] = blk[i - 1] + chunks[i].chunk_sz
      /\ \A i \in 0 .. N : blk[i] <= blk[N]
  <2>1. \A c \in Chunks : c.chunk_sz \in Nat
    BY DEF Chunks
  <2> HIDE DEF chunks
  <2> QED
    BY <2>1, <1>4, BlocksUpToIs
<1>6. off \in [0 .. N -> Nat]
  <2>1. \A c \in Chunks : c.size \in Nat
    BY DEF Chunks
  <2> HIDE DEF chunks
  <2> QED
    BY <2>1, <1>4, BytesUpToIs
<1> HIDE DEF chunks, N, blk, off, items, h, total, bbs
<1>7. \A i \in 0 .. N : BlockSize * blk[i] < Wrap /\ BlockSize * blk[i] \in Nat
  <2> TAKE i \in 0 .. N
  <2> DEFINE b == blk[i]
  <2>1. b \in Nat /\ b <= total /\ total * BlockSize < Wrap
    BY <1>1, <1>5 DEF total, h, items
  <2> HIDE DEF b
  <2>2. PICK e \in Nat : total = b + e
    <3>1. total - b \in Nat /\ total = b + (total - b)
      BY <2>1, <1>2
    <3> QED
      BY <3>1
  <2>3. total * BlockSize = BlockSize * b + BlockSize * e /\ BlockSize * e \in Nat /\ BlockSize * b \in Nat
    BY <2>1, <2>2, Blocks
  <2>4. BlockSize * b < Wrap
    BY <2>1, <2>3, Blocks
  <2> QED
    BY <2>3, <2>4 DEF b
<1>8. \A i \in 0 .. N : G[i] = {l \in S : Tiled(l, BlockSize * blk[i], fd)} /\ G[i] \subseteq S
  OBVIOUS
<1>9. <<>> \in G[0]
  <2>1. <<>> \in S /\ Tiled(<<>>, BlockSize * blk[0], fd)
    BY DEF Tiled, Apart
  <2> QED
    BY <2>1, <1>4, <1>8
<1>10. \A i \in 1 .. N : \A l \in G[i - 1] : g[<<i, l>>] \in G[i] /\ g[<<i, l>>] = step(i, l)
  <2> TAKE i \in 1 .. N
  <2> TAKE l \in G[i - 1]
  <2> DEFINE cur == blk[i - 1]
             next == blk[i]
             o == off[i - 1] + CHUNK_HEADER_LEN
             c == chunks[i]
  <2>0. i - 1 \in 0 .. N /\ i \in 0 .. N
    BY <1>4
  <2>1. l \in S /\ Tiled(l, BlockSize * cur, fd)
    <3> HIDE DEF G
    <3> QED
      BY <2>0, <1>8
  <2>2. c \in Chunks
    BY <1>4 DEF N
  <2>3. cur \in Nat /\ next = cur + c.chunk_sz /\ BlockSize * next < Wrap
    BY <2>0, <1>5, <1>7
  <2>4. o \in Nat
    BY <2>0, <1>6 DEF CHUNK_HEADER_LEN
  <2>5. g[<<i, l>>] = ProcessChunk(l, c, cur, fd, o)
    BY <2>1
  <2> HIDE DEF cur, next, o, c, g, G
  <2>6. Tiled(ProcessChunk(l, c, cur, fd, o), BlockSize * next, fd)
    BY <2>1, <2>2, <2>3, <2>4, ProcessIs
  <2>7. ProcessChunk(l, c, cur, fd, o) \in S
    BY <2>6 DEF Tiled
  <2>8. g[<<i, l>>] \in G[i]
    BY <2>0, <2>5, <2>6, <2>7, <1>8 DEF next
  <2> QED
    BY <2>5, <2>8 DEF cur, o, c
<1> HIDE DEF G, g
<1>11. PICK b : Within(b, N, S, G, <<>>, g)
  <2>1. Stays(N, S, G, <<>>, g)
    <3>1. \A i \in 0 .. N : G[i] \subseteq S
      BY <1>8
    <3>2. \A i \in 1 .. N : \A x \in G[i - 1] : g[<<i, x>>] \in G[i]
      BY <1>10
    <3> HIDE DEF S
    <3> QED
      BY <1>4, <1>9, <3>1, <3>2 DEF Stays
  <2> QED
    BY <2>1, RecursionWithin
<1> HIDE DEF step
<1>12. Is(b)
  <2>1. \A i \in 1 .. N : b[i] = step(i, b[i - 1])
    <3> TAKE i \in 1 .. N
    <3>1. i - 1 \in 0 .. N
      BY <1>4
    <3>2. b[i - 1] \in G[i - 1]
      BY <3>1, <1>11 DEF Within
    <3> QED
      BY <3>2, <1>10, <1>11 DEF Within
  <2> QED
    BY <1>11, <2>1 DEF Within
<1>13. Is(bbs)
  <2> HIDE DEF Is
  <2> QED
    BY <1>12 DEF bbs
<1>14. bbs[0] = <<>> /\ \A i \in 1 .. N : bbs[i] = step(i, bbs[i - 1])
  BY <1>13, <1>4
<1> DEFINE T == {i \in 0 .. N : bbs[i] \in G[i]}
<1>15. \A n \in 0 .. N - 1 : n \in T => n + 1 \in T
  <2> TAKE n \in 0 .. N - 1
  <2> HAVE n \in T
  <2> DEFINE q == n + 1
  <2>1. q \in 1 .. N /\ q - 1 = n /\ q \in 0 .. N
    BY <1>4
  <2> HIDE DEF q
  <2>2. bbs[q - 1] \in G[q - 1]
    BY <2>1
  <2>3. bbs[q] \in G[q]
    BY <2>1, <2>2, <1>10, <1>14
  <2>4. q \in T
    BY <2>1, <2>3
  <2> QED
    BY <2>4 DEF q
<1>16. 0 \in T
  BY <1>4, <1>9, <1>14
<1> HIDE DEF T
<1>u. \A n \in 0 .. N : n \in T
  BY <1>4, <1>15, <1>16, UpTo
<1>17. N \in T
  BY <1>u, <1>4
<1>v. \A n \in 0 .. N : Tiled(bbs[n], BlockSize * blk[n], fd)
  BY <1>u, <1>8 DEF T
<1>18. Tiled(bbs[N], BlockSize * total, fd)
  BY <1>1, <1>8, <1>17 DEF T
<1>19. BlockSize * total = total * BlockSize /\ total * BlockSize \in Nat
  BY <1>2, Blocks
<1>20. ImportRun(bbs, blk, off, f, fd)
  <2>1. Import(f, fd).bbs = bbs[N]
    BY <1>3
  <2> QED
    BY <2>1, <1>4, <1>5, <1>6, <1>7, <1>14, <1>v DEF ImportRun, N, chunks, step
<1>21. \E b_1, b_2, b_3 : ImportRun(b_1, b_2, b_3, f, fd)
  <2> HIDE DEF Is, S, g, step
  <2> QED
    BY <1>20
<1> QED
  BY <1>3, <1>18, <1>19, <1>21 DEF total, h, items

LEMMA ImportIs ==
  ASSUME NEW f, f.items \in Seq(Items), Importable(f), f.items[1].total_blks * BlockSize < Wrap,
         NEW fd \in Fds
  PROVE  /\ Import(f, fd).len \in Nat /\ Import(f, fd).len = f.items[1].total_blks * BlockSize
         /\ Import(f, fd) = [len |-> Import(f, fd).len, bbs |-> Import(f, fd).bbs]
         /\ Tiled(Import(f, fd).bbs, Import(f, fd).len, fd)
BY ImportIsRun

-----------------------------------------------------------------------------
(***************************************************************************)
(* Writing.  What is written of a list takes the bytes that its cells cost *)
(* and the skip at the end.                                                *)
(***************************************************************************)

LEMMA DiskItemIs ==
  ASSUME NEW c \in DiskItems
  PROVE  c.size \in Nat
<1>1. CASE c \in Headers
  BY <1>1 DEF Headers, SPARSE_HEADER_LEN
<1>2. CASE c \in DiskChunks
  BY <1>2 DEF DiskChunks
<1>3. CASE c = Torn
  BY <1>3 DEF Torn
<1> QED
  BY <1>1, <1>2, <1>3 DEF DiskItems

LEMMA MappedIs ==
  ASSUME NEW s \in Seq(Contents)
  PROVE  Mapped(s) \in Seq(Contents) /\ Len(Mapped(s)) = Len(s)
<1>1. Zero \in Contents
  BY FormatAssumption
<1>2. Mapped(s) = [i \in 1 .. Len(s) |-> IF s[i] = Missing THEN Zero ELSE s[i]]
  BY DEF Mapped
<1> QED
  BY <1>1, <1>2

LEMMA HeaderOnDisk ==
  ASSUME NEW op \in Headers
  PROVE  OnDisk(op) = op /\ op.size = 28 /\ OnDisk(op) \in Items /\ OnDisk(op) \in DiskItems
BY DEF OnDisk, Headers, Items, DiskItems, SPARSE_HEADER_LEN

LEMMA SkipOnDisk ==
  ASSUME NEW op \in Skips
  PROVE  OnDisk(op).size = 12 /\ OnDisk(op) \in Items /\ OnDisk(op) \in DiskItems
<1> DEFINE q == op.len \div BlockSize
           e == Mapped(<<>>)
           c == [type |-> "skip", chunk_sz |-> q, data |-> e, size |-> 12]
<1>1. op.type = "skip" /\ op.len \in Nat
  BY DEF Skips
<1>2. q \in Nat
  BY <1>1, Division
<1>3. e \in Seq(Contents)
  <2> DEFINE z == <<>>
  <2>1. z \in Seq(Contents)
    OBVIOUS
  <2> HIDE DEF z
  <2>2. Mapped(z) \in Seq(Contents)
    BY <2>1, MappedIs
  <2> QED
    BY <2>2 DEF z
<1>4. OnDisk(op) = c
  BY <1>1 DEF OnDisk, Chunk, SkipChunk, CHUNK_HEADER_LEN
<1> HIDE DEF q, e
<1>5. c \in Chunks /\ c \in DiskChunks /\ c.size = 12
  BY <1>2, <1>3 DEF Chunks, DiskChunks
<1> HIDE DEF c
<1> QED
  BY <1>4, <1>5 DEF Items, DiskItems

LEMMA CellOnDisk ==
  ASSUME NEW op \in Cells
  PROVE  /\ OnDisk(op).size = Chunk(op).size /\ OnDisk(op) \in DiskItems
         /\ op.len > 0 => OnDisk(op) \in Items
<1> DEFINE d == DivRoundUp(op.len)
           n == 12 + d * BlockSize
<1>1. /\ op.type \in {"fill", "fd"} /\ op.len \in Nat /\ op.data \in Seq(Contents) /\ Len(op.data) = d
      /\ (op.type = "fill" => op.src \in Contents)
  BY DEF Cells
<1>2. d \in Nat /\ n \in Nat /\ (op.len > 0 => d > 0)
  <2>1. d \in Nat /\ op.len <= BlockSize * d
    BY <1>1, RoundUp
  <2> HIDE DEF d
  <2>2. n \in Nat
    BY <2>1, Blocks
  <2>3. ASSUME op.len > 0
        PROVE  d > 0
    <3>1. CASE d = 0
      BY <2>1, <3>1, <2>3, <1>1, Blocks
    <3> QED
      BY <3>1, <2>1
  <2> QED
    BY <2>1, <2>2, <2>3
<1> HIDE DEF d
<1>3. CASE op.type = "fill"
  <2> DEFINE s == <<op.src>>
             e == Mapped(s)
             c == [type |-> "fill", chunk_sz |-> d, data |-> e, size |-> 16]
  <2>1. s \in Seq(Contents) /\ Len(s) = 1
    BY <1>1, <1>3
  <2>2. OnDisk(op) = c /\ Chunk(op).size = 16
    BY <1>3 DEF OnDisk, Chunk, FillChunk, CHUNK_HEADER_LEN, d
  <2> HIDE DEF s
  <2>3. e \in Seq(Contents) /\ Len(e) = 1
    BY <2>1, MappedIs
  <2> HIDE DEF e
  <2>4. c \in DiskChunks /\ c.size = 16 /\ (op.len > 0 => c \in Chunks)
    BY <2>3, <1>2 DEF DiskChunks, Chunks
  <2> HIDE DEF c
  <2> QED
    BY <2>2, <2>4 DEF Items, DiskItems
<1>4. CASE op.type = "fd"
  <2> DEFINE e == Mapped(op.data)
             c == [type |-> "raw", chunk_sz |-> d, data |-> e, size |-> n]
  <2>1. OnDisk(op) = c /\ Chunk(op).size = n
    BY <1>4 DEF OnDisk, Chunk, DataChunk, CHUNK_HEADER_LEN, d
  <2>2. e \in Seq(Contents) /\ Len(e) = d
    BY <1>1, MappedIs
  <2> HIDE DEF e, n
  <2>3. c \in DiskChunks /\ c.size = n /\ (op.len > 0 => c \in Chunks)
    BY <2>2, <1>2 DEF DiskChunks, Chunks
  <2> HIDE DEF c
  <2> QED
    BY <2>1, <2>3 DEF Items, DiskItems
<1> QED
  BY <1>1, <1>3, <1>4

\* The chunks of a sequence of writes, and how many bytes they have.
LEMMA OnDiskAllIs ==
  ASSUME NEW ops \in Seq(Headers \union Skips \union Cells)
  PROVE  OnDiskAll(ops) \in Seq(DiskItems) /\ Len(OnDiskAll(ops)) = Len(ops)
         /\ FileSize(OnDiskAll(ops)) \in Nat
<1>1. \A i \in 1 .. Len(ops) : OnDisk(ops[i]) \in DiskItems
  BY HeaderOnDisk, SkipOnDisk, CellOnDisk
<1>2. OnDiskAll(ops) \in Seq(DiskItems) /\ Len(OnDiskAll(ops)) = Len(ops)
  BY <1>1 DEF OnDiskAll
<1>3. \A c \in DiskItems : c.size \in Nat
  BY DiskItemIs
<1> QED
  BY <1>2, <1>3, FileSizeNat

LEMMA OnDiskJoined ==
  ASSUME NEW a \in Seq(Headers \union Skips \union Cells), NEW b \in Seq(Headers \union Skips \union Cells)
  PROVE  /\ OnDiskAll(a \o b) = OnDiskAll(a) \o OnDiskAll(b)
         /\ FileSize(OnDiskAll(a \o b)) = FileSize(OnDiskAll(a)) + FileSize(OnDiskAll(b))
<1> DEFINE S == Headers \union Skips \union Cells
           u == OnDiskAll(a)
           v == OnDiskAll(b)
           w == OnDiskAll(a \o b)
<1>1. a \in Seq(S) /\ b \in Seq(S)
  OBVIOUS
<1>2. /\ a \o b \in Seq(S) /\ Len(a \o b) = Len(a) + Len(b)
      /\ \A i \in 1 .. Len(a) + Len(b) : (a \o b)[i] = IF i <= Len(a) THEN a[i] ELSE b[i - Len(a)]
  <2> HIDE DEF S
  <2> QED
    BY <1>1, Joined, JoinedAt
<1>3. /\ u \in Seq(DiskItems) /\ Len(u) = Len(a) /\ v \in Seq(DiskItems) /\ Len(v) = Len(b)
      /\ w \in Seq(DiskItems) /\ Len(w) = Len(a) + Len(b)
  BY <1>2, OnDiskAllIs
<1>4. /\ u \o v \in Seq(DiskItems) /\ Len(u \o v) = Len(a) + Len(b)
      /\ \A i \in 1 .. Len(a) + Len(b) : (u \o v)[i] = IF i <= Len(a) THEN u[i] ELSE v[i - Len(a)]
  <2> HIDE DEF u, v
  <2>1. u \o v \in Seq(DiskItems) /\ Len(u \o v) = Len(u) + Len(v)
    BY <1>3, Joined
  <2>2. \A i \in 1 .. Len(u) + Len(v) : (u \o v)[i] = IF i <= Len(u) THEN u[i] ELSE v[i - Len(u)]
    BY <1>3, JoinedAt
  <2> QED
    BY <1>3, <2>1, <2>2
<1>5. \A i \in 1 .. Len(a) + Len(b) : w[i] = (u \o v)[i]
  <2> TAKE i \in 1 .. Len(a) + Len(b)
  <2>1. w[i] = OnDisk((a \o b)[i])
    BY <1>2 DEF OnDiskAll
  <2>2. CASE i <= Len(a)
    <3>1. i \in 1 .. Len(a) /\ u[i] = OnDisk(a[i])
      BY <2>2 DEF OnDiskAll
    <3> HIDE DEF u, v, w
    <3> QED
      BY <2>1, <2>2, <3>1, <1>2, <1>4
  <2>3. CASE ~ (i <= Len(a))
    <3> DEFINE q == i - Len(a)
    <3>1. q \in 1 .. Len(b)
      BY <2>3
    <3> HIDE DEF q
    <3>2. v[q] = OnDisk(b[q])
      BY <3>1 DEF OnDiskAll
    <3> HIDE DEF u, v, w
    <3> QED
      BY <2>1, <2>3, <3>2, <1>2, <1>4 DEF q
  <2> QED
    BY <2>2, <2>3
<1> HIDE DEF u, v, w
<1>6. w = u \o v
  <2> DEFINE x == u \o v
  <2>1. x \in Seq(DiskItems) /\ Len(w) = Len(x) /\ \A i \in 1 .. Len(w) : w[i] = x[i]
    BY <1>3, <1>4, <1>5
  <2> HIDE DEF x
  <2>2. w = x
    BY <2>1, <1>3, Equal
  <2> QED
    BY <2>2 DEF x
<1>7. FileSize(u \o v) = FileSize(u) + FileSize(v)
  <2>1. \A c \in DiskItems : c.size \in Nat
    BY DiskItemIs
  <2> QED
    BY <2>1, <1>3, FileSizeJoined
<1> QED
  BY <1>6, <1>7 DEF u, v, w

LEMMA BytesJoined ==
  ASSUME NEW a \in Seq(Ops), NEW b \in Seq(Ops)
  PROVE  a \o b \in Seq(Ops) /\ Bytes(a \o b) = Bytes(a) + Bytes(b) /\ Bytes(a) \in Nat /\ Bytes(b) \in Nat
<1>1. a \o b \in Seq(Ops)
  BY Joined
<1>2. Bytes(a \o b) = Bytes(a) + Bytes(b)
  BY OnDiskJoined DEF Bytes, Ops
<1>3. Bytes(a) \in Nat /\ Bytes(b) \in Nat
  BY OnDiskAllIs DEF Bytes, Ops
<1> QED
  BY <1>1, <1>2, <1>3

LEMMA BytesOne ==
  ASSUME NEW op \in Ops
  PROVE  /\ <<op>> \in Seq(Ops) /\ Bytes(<<op>>) = OnDisk(op).size /\ OnDisk(op).size \in Nat
         /\ Bytes(<<>>) = 0 /\ <<>> \in Seq(Ops)
<1> DEFINE c == OnDisk(op)
<1>1. c \in DiskItems
  BY HeaderOnDisk, SkipOnDisk, CellOnDisk DEF Ops
<1>2. c.size \in Nat
  BY <1>1, DiskItemIs
<1>3. OnDiskAll(<<op>>) = <<c>> /\ OnDiskAll(<<>>) = <<>>
  <2>1. OnDiskAll(<<op>>) = [i \in 1 .. 1 |-> c]
    BY DEF OnDiskAll
  <2> QED
    BY <2>1 DEF OnDiskAll
<1> HIDE DEF c
<1>4. FileSize(<<c>>) = c.size /\ FileSize(<<>>) = 0
  BY <1>2, FileSizeOne
<1> QED
  BY <1>2, <1>3, <1>4 DEF Bytes, c

LEMMA BytesOpt ==
  ASSUME NEW cond \in BOOLEAN, NEW op, cond => op \in Skips
  PROVE  /\ Opt(cond, op) \in Seq(Skips) /\ Opt(cond, op) \in Seq(Ops)
         /\ Bytes(Opt(cond, op)) = IF cond THEN 12 ELSE 0
<1>1. CASE cond
  <2>1. op \in Ops /\ Opt(cond, op) = <<op>>
    BY <1>1 DEF Ops, Opt
  <2>2. Bytes(<<op>>) = 12
    BY <1>1, <2>1, BytesOne, SkipOnDisk
  <2>3. <<op>> \in Seq(Skips) /\ <<op>> \in Seq(Ops)
    BY <1>1, <2>1
  <2> QED
    BY <1>1, <2>1, <2>2, <2>3
<1>2. CASE ~ cond
  <2>1. Opt(cond, op) = <<>> /\ OnDiskAll(<<>>) = <<>>
    BY <1>2 DEF Opt, OnDiskAll
  <2>2. FileSize(<<>>) = 0
    <3>1. Torn.size \in Nat
      BY DEF Torn
    <3> QED
      BY <3>1, FileSizeOne
  <2> QED
    BY <1>2, <2>1, <2>2 DEF Bytes
<1> QED
  BY <1>1, <1>2

LEMMA AllBlocksRun ==
  ASSUME NEW C \in SUBSET Cells, NEW l \in Seq(C), NEW s, s.len \in Nat, s.bbs = l
  PROVE  /\ AllBlocks(s) \in Seq(Skips \union C)
         /\ Bytes(AllBlocks(s)) \in Nat /\ Bytes(AllBlocks(s)) <= FileLen(l)[Len(l)] + 12
         /\ \E o : WriteRun(o, s)
<1> DEFINE N == Len(l)
           pad == s.len - EndBlock(l, N) * BlockSize
           gap(i) == Skip((l[i].block - EndBlock(l, i - 1)) * BlockSize)
           step(i, o) == (o \o Opt(Gap(l, i), gap(i))) \o <<l[i]>>
           Is(f) == f = [i \in 0 .. N |-> IF i = 0 THEN <<>> ELSE step(i, f[i - 1])]
           ops == CHOOSE f : Is(f)
           S == Seq(Skips \union C)
           g == [p \in (1 .. N) \X S |-> step(p[1], p[2])]
<1>1. N \in Nat /\ l \in Seq(Cells) /\ (\A i \in 1 .. N : l[i] \in C /\ l[i] \in Cells) /\ S \subseteq Seq(Ops)
  BY DEF Ops
<1>2. AllBlocks(s) = ops[N] \o Opt(pad > 0, Skip(pad))
  BY DEF AllBlocks
<1>3. \A i \in 0 .. N : EndBlock(l, i) \in Nat
  <2> TAKE i \in 0 .. N
  <2>1. CASE i = 0
    BY <2>1 DEF EndBlock
  <2>2. CASE i # 0
    <3>1. l[i].block \in Nat /\ l[i].len \in Nat
      BY <2>2, <1>1 DEF Cells
    <3>2. DivRoundUp(l[i].len) \in Nat
      BY <3>1, RoundUp
    <3> QED
      BY <2>2, <3>1, <3>2 DEF EndBlock
  <2> QED
    BY <2>1, <2>2
<1>4. \A i \in 1 .. N : Gap(l, i) \in BOOLEAN /\ (Gap(l, i) => gap(i) \in Skips)
  <2> TAKE i \in 1 .. N
  <2> DEFINE e == EndBlock(l, i - 1)
             b == l[i].block
  <2>1. e \in Nat /\ b \in Nat
    <3>1. i - 1 \in 0 .. N
      BY <1>1
    <3> QED
      BY <3>1, <1>3, <1>1 DEF Cells
  <2>2. Gap(l, i) = (b > e)
    BY DEF Gap
  <2> HIDE DEF e, b
  <2>3. ASSUME b > e
        PROVE  (b - e) * BlockSize \in Nat
    <3> DEFINE d == b - e
    <3>1. d \in Nat
      BY <2>1, <2>3
    <3> HIDE DEF d
    <3>2. d * BlockSize \in Nat
      BY <3>1, Blocks
    <3> QED
      BY <3>2 DEF d
  <2>4. b > e => Skip((b - e) * BlockSize) \in Skips
    BY <2>3 DEF Skip, Skips
  <2>5. Gap(l, i) \in BOOLEAN
    BY <2>2
  <2>6. gap(i) = Skip((b - e) * BlockSize)
    BY DEF e, b
  <2> HIDE DEF gap
  <2> QED
    BY <2>2, <2>4, <2>5, <2>6
<1> HIDE DEF gap
<1>5. \A i \in 1 .. N : /\ Opt(Gap(l, i), gap(i)) \in Seq(Skips)
                        /\ Opt(Gap(l, i), gap(i)) \in Seq(Ops)
                        /\ Bytes(Opt(Gap(l, i), gap(i))) = IF Gap(l, i) THEN 12 ELSE 0
  BY <1>4, BytesOpt
<1>6. g \in [(1 .. N) \X S -> S]
  <2> SUFFICES ASSUME NEW p \in (1 .. N) \X S
               PROVE  step(p[1], p[2]) \in S
    OBVIOUS
  <2> DEFINE i == p[1]
             o == Opt(Gap(l, i), gap(i))
             A == Skips \union C
  <2>1. i \in 1 .. N /\ p[2] \in Seq(A)
    OBVIOUS
  <2>2. o \in Seq(A)
    <3>1. o \in Seq(Skips)
      BY <2>1, <1>5
    <3> HIDE DEF o
    <3> QED
      BY <3>1
  <2>3. <<l[i]>> \in Seq(A)
    BY <2>1, <1>1
  <2> HIDE DEF i, o, A
  <2>4. p[2] \o o \in Seq(A)
    BY <2>1, <2>2, Joined
  <2>5. (p[2] \o o) \o <<l[i]>> \in Seq(A)
    BY <2>4, <2>3, Joined
  <2> QED
    BY <2>5 DEF i, o, A
<1> HIDE DEF g
<1>7. PICK f : Follows(f, g, <<>>, S, N)
  <2>1. <<>> \in S
    OBVIOUS
  <2> HIDE DEF S, N
  <2> QED
    BY <2>1, <1>1, <1>6, RecursionExists
<1> HIDE DEF step
<1>8. Is(f)
  <2>1. \A i \in 1 .. N : f[i] = step(i, f[i - 1])
    <3> TAKE i \in 1 .. N
    <3>1. i - 1 \in 0 .. N
      BY <1>1
    <3>2. f[i - 1] \in S /\ f[i] = g[<<i, f[i - 1]>>]
      BY <3>1, <1>7 DEF Follows
    <3> QED
      BY <3>2 DEF g
  <2>2. f = [i \in 0 .. N |-> f[i]] /\ f[0] = <<>>
    <3> HIDE DEF S
    <3> QED
      BY <1>7 DEF Follows
  <2>3. \A i \in 0 .. N : f[i] = IF i = 0 THEN <<>> ELSE step(i, f[i - 1])
    <3> TAKE i \in 0 .. N
    <3>1. CASE i = 0
      BY <3>1, <2>2
    <3>2. CASE i # 0
      <4>1. i \in 1 .. N
        BY <3>2, <1>1
      <4>2. f[i] = step(i, f[i - 1])
        BY <4>1, <2>1
      <4> QED
        BY <3>2, <4>2
    <3> QED
      BY <3>1, <3>2
  <2> QED
    BY <2>2, <2>3
<1>9. Is(ops)
  <2> HIDE DEF Is
  <2> QED
    BY <1>8
<1> HIDE DEF ops
<1>10. ops[0] = <<>> /\ \A i \in 1 .. N : ops[i] = step(i, ops[i - 1])
  BY <1>9, <1>1
<1> DEFINE T == {i \in 0 .. N : ops[i] \in S /\ Bytes(ops[i]) = FileLen(l)[i]}
<1>11. 0 \in T
  <2>1. Bytes(<<>>) = 0
    <3>1. [type |-> "skip", len |-> 0] \in Ops
      BY DEF Ops, Skips
    <3> QED
      BY <3>1, BytesOne
  <2>2. FileLen(l)[0] = 0
    BY <1>1, FileLenIs
  <2>3. <<>> \in S /\ 0 \in 0 .. N
    BY <1>1
  <2> HIDE DEF S
  <2> QED
    BY <2>1, <2>2, <2>3, <1>10
<1>12. \A n \in 0 .. N - 1 : n \in T => n + 1 \in T
  <2> TAKE n \in 0 .. N - 1
  <2> HAVE n \in T
  <2> DEFINE i == n + 1
             o == Opt(Gap(l, i), gap(i))
             c == <<l[i]>>
             v == ops[n]
  <2>1. i \in 1 .. N /\ i - 1 = n /\ i \in 0 .. N
    BY <1>1
  <2> HIDE DEF i
  <2>2. v \in S /\ v \in Seq(Ops) /\ Bytes(v) = FileLen(l)[n]
    BY <1>1
  <2>3. ops[i] = (v \o o) \o c
    BY <2>1, <1>10 DEF step
  <2>4. o \in Seq(Ops) /\ o \in Seq(Skips) /\ Bytes(o) = IF Gap(l, i) THEN 12 ELSE 0
    BY <2>1, <1>5
  <2>5. c \in Seq(Ops) /\ c \in Seq(Skips \union C) /\ Bytes(c) = Chunk(l[i]).size
    <3>1. l[i] \in C /\ l[i] \in Cells /\ l[i] \in Ops
      BY <2>1, <1>1 DEF Ops
    <3>2. Bytes(<<l[i]>>) = OnDisk(l[i]).size /\ OnDisk(l[i]).size = Chunk(l[i]).size
      BY <3>1, BytesOne, CellOnDisk
    <3> QED
      BY <3>1, <3>2
  <2>6. FileLen(l)[i] = FileLen(l)[n] + Cost(l, i)
    BY <2>1, <1>1, FileLenIs
  <2>7. Cost(l, i) = (IF Gap(l, i) THEN 12 ELSE 0) + Chunk(l[i]).size
    BY <2>1, <1>1, CostIs
  <2> HIDE DEF o, c, v
  <2>8. v \o o \in Seq(Ops) /\ Bytes(v \o o) = Bytes(v) + Bytes(o) /\ Bytes(v) \in Nat /\ Bytes(o) \in Nat
    BY <2>2, <2>4, BytesJoined
  <2>9. Bytes((v \o o) \o c) = Bytes(v \o o) + Bytes(c) /\ Bytes(c) \in Nat
    BY <2>8, <2>5, BytesJoined
  <2>10. Bytes(ops[i]) = FileLen(l)[i]
    <3> DEFINE x == Bytes(v)
               y == Bytes(o)
               z == Bytes(c)
    <3>1. Bytes(ops[i]) = x + y + z /\ x \in Nat /\ y \in Nat /\ z \in Nat
      BY <2>3, <2>8, <2>9
    <3>2. FileLen(l)[i] = x + (y + z)
      BY <2>2, <2>4, <2>5, <2>6, <2>7
    <3> HIDE DEF x, y, z
    <3> QED
      BY <3>1, <3>2
  <2>11. ops[i] \in S
    <3> DEFINE A == Skips \union C
    <3>1. v \in Seq(A) /\ o \in Seq(A) /\ c \in Seq(A)
      BY <2>2, <2>4, <2>5
    <3> HIDE DEF A
    <3>2. v \o o \in Seq(A)
      BY <3>1, Joined
    <3>3. (v \o o) \o c \in Seq(A)
      BY <3>1, <3>2, Joined
    <3> QED
      BY <3>3, <2>3 DEF A
  <2>12. i \in T
    BY <2>1, <2>10, <2>11
  <2> QED
    BY <2>12 DEF i
<1> HIDE DEF T
<1>u. \A n \in 0 .. N : n \in T
  BY <1>1, <1>11, <1>12, UpTo
<1>13. N \in T
  BY <1>u, <1>1
<1>w. WriteRun(ops, s)
  <2>1. \A n \in 0 .. N : ops[n] \in Seq(Skips \union Cells)
    <3>1. S \subseteq Seq(Skips \union Cells)
      BY <1>1
    <3> QED
      BY <1>u, <3>1 DEF T
  <2>2. \A i \in 1 .. N : ops[i] = (ops[i - 1] \o SkipBefore(l, i)) \o <<l[i]>>
    BY <1>10 DEF step, gap, SkipBefore
  <2>3. \A i \in 1 .. N : SkipBefore(l, i) \in Seq(Skips)
    BY <1>5 DEF SkipBefore, gap
  <2>4. AllBlocks(s) = ops[N] \o Opt(PadOf(s) > 0, Skip(PadOf(s)))
    BY <1>2 DEF PadOf
  <2> QED
    BY <2>1, <2>2, <2>3, <2>4, <1>10 DEF WriteRun
<1>14. ops[N] \in S /\ ops[N] \in Seq(Ops) /\ Bytes(ops[N]) = FileLen(l)[N]
  BY <1>13, <1>1 DEF T
<1> DEFINE e == Opt(pad > 0, Skip(pad))
<1>15. e \in Seq(Skips) /\ e \in Seq(Ops) /\ Bytes(e) <= 12 /\ Bytes(e) \in Nat
  <2>1. pad \in Int
    <3> DEFINE b == EndBlock(l, N)
    <3>1. b \in Nat
      BY <1>1, <1>3
    <3> HIDE DEF b
    <3>2. b * BlockSize \in Nat
      BY <3>1, Blocks
    <3> QED
      BY <3>2 DEF b
  <2> HIDE DEF pad
  <2>2. (pad > 0) \in BOOLEAN /\ (pad > 0 => Skip(pad) \in Skips)
    BY <2>1 DEF Skip, Skips
  <2> DEFINE x == Skip(pad)
             y == pad > 0
  <2>3. y \in BOOLEAN /\ (y => x \in Skips)
    BY <2>2
  <2> HIDE DEF x, y
  <2>4. Opt(y, x) \in Seq(Skips) /\ Opt(y, x) \in Seq(Ops) /\ Bytes(Opt(y, x)) = IF y THEN 12 ELSE 0
    BY <2>3, BytesOpt
  <2> QED
    BY <2>4 DEF x, y
<1> HIDE DEF e
<1>16. Bytes(ops[N] \o e) = Bytes(ops[N]) + Bytes(e) /\ Bytes(ops[N]) \in Nat
  BY <1>14, <1>15, BytesJoined
<1>17. ops[N] \o e \in Seq(Skips \union C)
  <2> DEFINE A == Skips \union C
  <2>1. ops[N] \in Seq(A) /\ e \in Seq(A)
    BY <1>14, <1>15
  <2> HIDE DEF A
  <2>2. ops[N] \o e \in Seq(A)
    BY <2>1, Joined
  <2> QED
    BY <2>2 DEF A
<1> QED
  <2> DEFINE x == Bytes(ops[N])
             y == Bytes(e)
  <2>1. Bytes(ops[N] \o e) = x + y /\ x \in Nat /\ y \in Nat /\ y <= 12 /\ FileLen(l)[N] = x
    BY <1>14, <1>15, <1>16
  <2>2. AllBlocks(s) = ops[N] \o e
    BY <1>2 DEF e
  <2> HIDE DEF x, y
  <2>3. x + y \in Nat /\ x + y <= x + 12
    BY <2>1
  <2>4. \E o : WriteRun(o, s)
    BY <1>w
  <2> QED
    BY <2>1, <2>2, <2>3, <2>4, <1>17

LEMMA AllBlocksIs ==
  ASSUME NEW C \in SUBSET Cells, NEW l \in Seq(C), NEW s, s.len \in Nat, s.bbs = l
  PROVE  /\ AllBlocks(s) \in Seq(Skips \union C)
         /\ Bytes(AllBlocks(s)) \in Nat /\ Bytes(AllBlocks(s)) <= FileLen(l)[Len(l)] + 12
BY AllBlocksRun

IsAppended(v, items, x) == v = items \o <<x>>

LEMMA PutAtIs ==
  ASSUME NEW S, NEW items \in Seq(S), NEW at \in Nat \ {0}, NEW x \in S, NEW z \in S
  PROVE  /\ PutAt(items, at, <<x>>, z) \in Seq(S)
         /\ Len(PutAt(items, at, <<x>>, z)) = IF Len(items) > at THEN Len(items) ELSE at
         /\ at = Len(items) + 1 => IsAppended(PutAt(items, at, <<x>>, z), items, x)
<1> DEFINE n == Len(items)
           m == IF n > at THEN n ELSE at
           s == [i \in 1 .. m |-> IF i = at THEN x ELSE IF i <= n THEN items[i] ELSE z]
<1>1. n \in Nat /\ m \in Nat /\ n <= m /\ at <= m
  OBVIOUS
<1>2. PutAt(items, at, <<x>>, z) = s
  <2> DEFINE u == <<x>>
             e == IF n > at - 1 + Len(u) THEN n ELSE at - 1 + Len(u)
  <2>1. Len(u) = 1 /\ u[1] = x
    OBVIOUS
  <2> HIDE DEF u
  <2>2. e = m
    BY <2>1, <1>1
  <2>3. \A i \in 1 .. m : (IF i \in at .. at - 1 + Len(u) THEN u[i - at + 1] ELSE IF i <= n THEN items[i] ELSE z)
                          = IF i = at THEN x ELSE IF i <= n THEN items[i] ELSE z
    <3> TAKE i \in 1 .. m
    <3>1. CASE i = at
      <4>1. i - at + 1 = 1 /\ i \in at .. at - 1 + Len(u)
        BY <3>1, <2>1
      <4> QED
        BY <4>1, <2>1, <3>1
    <3>2. CASE i # at
      <4>1. i \notin at .. at - 1 + Len(u)
        BY <3>2, <2>1
      <4> QED
        BY <4>1, <3>2
    <3> QED
      BY <3>1, <3>2
  <2>4. PutAt(items, at, u, z) =
          [i \in 1 .. e |-> IF i \in at .. at - 1 + Len(u) THEN u[i - at + 1] ELSE IF i <= n THEN items[i] ELSE z]
    BY DEF PutAt
  <2> HIDE DEF e, m
  <2>5. PutAt(items, at, u, z) = s
    BY <2>2, <2>3, <2>4
  <2> QED
    BY <2>5 DEF u
<1>3. s \in Seq(S) /\ Len(s) = m
  <2>1. \A i \in 1 .. m : (IF i = at THEN x ELSE IF i <= n THEN items[i] ELSE z) \in S
    BY <1>1
  <2> HIDE DEF m
  <2> QED
    BY <2>1, <1>1
<1>4. ASSUME at = n + 1
      PROVE  s = items \o <<x>>
  <2>1. m = n + 1
    BY <1>4, <1>1
  <2> DEFINE v == items \o <<x>>
  <2>2. <<x>> \in Seq(S) /\ Len(<<x>>) = 1
    OBVIOUS
  <2>3. v \in Seq(S) /\ Len(v) = n + 1
    BY <2>2, Joined
  <2>4. \A i \in 1 .. n : v[i] = items[i]
    BY <2>2, Joined
  <2>5. v[n + 1] = x
    OBVIOUS
  <2>6. \A i \in 1 .. n + 1 : s[i] = v[i]
    <3> TAKE i \in 1 .. n + 1
    <3>1. CASE i = n + 1
      <4>1. s[i] = x
        BY <3>1, <2>1, <1>4, <1>1
      <4> QED
        BY <4>1, <3>1, <2>5
    <3>2. CASE i \in 1 .. n
      <4>1. s[i] = items[i]
        BY <3>2, <2>1, <1>4, <1>1
      <4> HIDE DEF s, v
      <4> QED
        BY <4>1, <3>2, <2>4
    <3> QED
      BY <3>1, <3>2, <1>1
  <2> HIDE DEF s, v
  <2>7. s = v
    <3>1. Len(s) = Len(v) /\ \A i \in 1 .. Len(s) : s[i] = v[i]
      BY <1>3, <2>1, <2>3, <2>6
    <3> QED
      BY <3>1, <1>3, <2>3, Equal
  <2> QED
    BY <2>7 DEF v
<1>5. at = n + 1 => IsAppended(s, items, x)
  BY <1>4 DEF IsAppended
<1> HIDE DEF s
<1> QED
  BY <1>2, <1>3, <1>5

LEMMA HeaderIs ==
  ASSUME NEW s, s.len \in Nat, NEW l \in Seq(Cells), s.bbs = l
  PROVE  Header(s) \in Headers
<1> DEFINE G == {i \in 1 .. Len(l) : Gap(l, i)}
           e == Opt(EndBlock(l, Len(l)) < DivRoundUp(s.len), "skip")
<1>1. IsFiniteSet(1 .. Len(l)) /\ G \subseteq 1 .. Len(l)
  BY FS_Interval
<1>2. Cardinality(G) \in Nat
  <2>1. IsFiniteSet(G)
    BY <1>1, FS_Subset
  <2> QED
    BY <2>1, FS_CardinalityType
<1>3. Len(e) \in Nat
  BY DEF Opt
<1>4. CountChunks(s) = Cardinality(G) + Len(l) + Len(e)
  BY DEF CountChunks
<1> HIDE DEF G, e
<1>5. CountChunks(s) \in Nat
  BY <1>2, <1>3, <1>4
<1>6. DivRoundUp(s.len) \in Nat
  BY RoundUp
<1> QED
  BY <1>5, <1>6 DEF Header, Headers, SPARSE_HEADER_LEN

\* What append2simg adds is of another file, so that nothing is merged with it.
LEMMA QueueOther ==
  ASSUME NEW C \in SUBSET Cells, NEW l \in Seq(C), NEW x \in C, x.type = "fd",
         \A i \in 1 .. Len(l) : l[i].type = "fd" => l[i].src # x.src
  PROVE  Queue(l, x) \in Seq(C)
<1> DEFINE n == Len(l)
           low == {i \in 1 .. Len(l) : l[i].block < x.block}
           lower == Cardinality(low)
           k == IF lower > 0 \/ l = <<>> \/ l[1].block > x.block THEN lower ELSE 1
           u == SubSeq(l, 1, k)
           v == SubSeq(l, k + 1, n)
           m == (u \o <<x>>) \o v
<1>1. n \in Nat /\ \A i \in 1 .. n : l[i] \in C
  OBVIOUS
<1>2. lower \in 0 .. n
  <2>1. IsFiniteSet(1 .. n) /\ Cardinality(1 .. n) = n
    <3>1. IsFiniteSet(1 .. n) /\ Cardinality(1 .. n) = IF 1 > n THEN 0 ELSE n - 1 + 1
      BY <1>1, FS_Interval
    <3> QED
      BY <3>1, <1>1
  <2>2. low \subseteq 1 .. n
    OBVIOUS
  <2> HIDE DEF low
  <2>3. IsFiniteSet(low) /\ Cardinality(low) <= Cardinality(1 .. n)
    BY <2>1, <2>2, FS_Subset
  <2>4. Cardinality(low) \in Nat
    BY <2>3, FS_CardinalityType
  <2> QED
    BY <2>1, <2>3, <2>4
<1>3. Queue(l, x) = IF k = 0 THEN <<x>> \o l ELSE MergeAt(MergeAt(InsertAt(l, k + 1, x), k + 1), k)
  BY DEF Queue
<1> HIDE DEF lower
<1>a. <<x>> \in Seq(C) /\ Len(<<x>>) = 1 /\ <<x>>[1] = x
  OBVIOUS
<1>4. CASE k = 0
  <2>1. <<x>> \o l \in Seq(C)
    BY <1>a, Joined
  <2> QED
    BY <2>1, <1>3, <1>4
<1>5. CASE k # 0
  <2>1. k \in 1 .. n
    <3>1. CASE lower > 0
      BY <3>1, <1>2
    <3>2. CASE ~ (lower > 0)
      <4>1. k = 1 /\ l # <<>>
        BY <3>2, <1>2, <1>5
      <4>2. n > 0
        BY <4>1, <1>1
      <4> QED
        BY <4>1, <4>2, <1>1
    <3> QED
      BY <3>1, <3>2
  <2> HIDE DEF k
  <2>2. u \in Seq(C) /\ Len(u) = k /\ \A i \in 1 .. k : u[i] = l[i]
    <3>1. 1 \in 1 .. n + 1 /\ k \in 1 - 1 .. n
      BY <2>1
    <3>2. u \in Seq(C) /\ Len(u) = k - 1 + 1 /\ \A i \in 1 .. k - 1 + 1 : u[i] = l[1 + i - 1]
      BY <3>1, Part
    <3> HIDE DEF u
    <3>3. \A i \in 1 .. k : u[i] = l[i]
      <4> TAKE i \in 1 .. k
      <4>1. i \in 1 .. k - 1 + 1 /\ 1 + i - 1 = i
        BY <2>1
      <4>2. u[i] = l[1 + i - 1]
        BY <4>1, <3>2
      <4> QED
        BY <4>1, <4>2
    <3> QED
      BY <3>2, <3>3, <2>1
  <2>3. v \in Seq(C) /\ Len(v) = n - k /\ (k < n => v[1] = l[k + 1])
    <3>1. k + 1 \in 1 .. n + 1 /\ n \in k + 1 - 1 .. n
      BY <2>1, <1>1
    <3>2. /\ v \in Seq(C) /\ Len(v) = n - (k + 1) + 1
          /\ \A i \in 1 .. n - (k + 1) + 1 : v[i] = l[k + 1 + i - 1]
      BY <3>1, Part
    <3> HIDE DEF v
    <3>3. k < n => v[1] = l[k + 1]
      <4> SUFFICES ASSUME k < n
                   PROVE  v[1] = l[k + 1]
        OBVIOUS
      <4>1. 1 \in 1 .. n - (k + 1) + 1 /\ k + 1 + 1 - 1 = k + 1
        BY <2>1, <1>1
      <4>2. v[1] = l[k + 1 + 1 - 1]
        BY <4>1, <3>2
      <4> QED
        BY <4>1, <4>2
    <3> QED
      BY <3>2, <3>3, <2>1, <1>1
  <2>4. InsertAt(l, k + 1, x) = m
    <3>1. InsertAt(l, k + 1, x) = (SubSeq(l, 1, (k + 1) - 1) \o <<x>>) \o SubSeq(l, k + 1, n)
      BY DEF InsertAt
    <3>2. (k + 1) - 1 = k
      BY <2>1
    <3> QED
      BY <3>1, <3>2
  <2> HIDE DEF u, v
  <2> DEFINE w == u \o <<x>>
  <2>5. w \in Seq(C) /\ Len(w) = k + 1 /\ w[k] = l[k] /\ w[k + 1] = x
    <3>1. w \in Seq(C) /\ Len(w) = k + 1
      BY <2>2, <1>a, Joined
    <3>2. w[k] = u[k]
      BY <2>1, <2>2, <1>a, Joined
    <3>3. w[k + 1] = x
      BY <2>1, <2>2
    <3> QED
      BY <3>1, <3>2, <3>3, <2>1, <2>2
  <2>6. m = w \o v
    OBVIOUS
  <2> HIDE DEF w, m
  <2>7. m \in Seq(C) /\ Len(m) = n + 1 /\ m[k] = l[k] /\ m[k + 1] = x
    <3>1. m \in Seq(C) /\ Len(m) = k + 1 + (n - k)
      <4>1. w \o v \in Seq(C) /\ Len(w \o v) = Len(w) + Len(v)
        BY <2>3, <2>5, Joined
      <4> QED
        BY <4>1, <2>3, <2>5, <2>6
    <3>2. \A i \in 1 .. Len(w) : (w \o v)[i] = w[i]
      BY <2>3, <2>5, Joined
    <3>3. k \in 1 .. Len(w) /\ k + 1 \in 1 .. Len(w)
      BY <2>1, <2>5
    <3>4. k + 1 + (n - k) = n + 1
      BY <2>1, <1>1
    <3> QED
      BY <3>1, <3>2, <3>3, <3>4, <2>5, <2>6
  <2>8. k < n => m[k + 2] = l[k + 1]
    <3> SUFFICES ASSUME k < n
                 PROVE  m[k + 2] = l[k + 1]
      OBVIOUS
    <3>1. \A i \in 1 .. Len(v) : (w \o v)[Len(w) + i] = v[i]
      BY <2>3, <2>5, Joined
    <3>2. 1 \in 1 .. Len(v)
      BY <2>1, <2>3, <1>1
    <3>3. (w \o v)[Len(w) + 1] = v[1]
      BY <3>1, <3>2
    <3>4. Len(w) + 1 = k + 2
      BY <2>1, <2>5
    <3> QED
      BY <3>3, <3>4, <2>3, <2>6
  <2>9. MergeAt(m, k + 1) = m
    <3>1. CASE k < n
      <4> DEFINE p == k + 1
      <4>1. p \in 1 .. n /\ p + 1 = k + 2
        BY <2>1, <3>1
      <4>2. m[p] = x /\ m[p + 1] = l[p]
        BY <4>1, <2>7, <2>8, <3>1
      <4> HIDE DEF p
      <4>3. ~ CanMerge(m[p], m[p + 1])
        BY <4>1, <4>2 DEF CanMerge
      <4>4. MergeAt(m, p) = m
        BY <4>3 DEF MergeAt
      <4> QED
        BY <4>4 DEF p
    <3>2. CASE ~ (k < n)
      <4>1. k + 1 \notin 1 .. Len(m) - 1
        BY <2>1, <2>7, <3>2, <1>1
      <4> QED
        BY <4>1 DEF MergeAt
    <3> QED
      BY <3>1, <3>2
  <2>10. MergeAt(m, k) = m
    <3>1. ~ CanMerge(m[k], m[k + 1])
      BY <2>1, <2>7 DEF CanMerge
    <3> QED
      BY <3>1 DEF MergeAt
  <2>11. Queue(l, x) = m
    BY <1>3, <1>5, <2>4, <2>9, <2>10
  <2> QED
    BY <2>7, <2>11
<1> QED
  BY <1>4, <1>5

-----------------------------------------------------------------------------
(***************************************************************************)
(* The inductive invariant                                                 *)
(***************************************************************************)

\* The names of the pieces are distinct, and no other file has one.
LEMMA PieceNameIs ==
  /\ \A k \in 1 .. Len(PieceNames) :
       /\ PieceNames[k] \in Names /\ PieceNames[k] \notin {"raw", "input", "simg", Tmp, "out"}
       /\ \A j \in 1 .. Len(PieceNames) : PieceNames[j] = PieceNames[k] => j = k
  /\ Len(PieceNames) \in Nat
<1>1. PieceNames \in Seq(STRING) /\ DOMAIN PieceNames = 1 .. Len(PieceNames) /\ Len(PieceNames) \in Nat
  BY NamesAssumption
<1>2. Range(PieceNames) = {PieceNames[k] : k \in 1 .. Len(PieceNames)}
  BY <1>1 DEF Range
<1>3. ASSUME NEW k \in 1 .. Len(PieceNames)
      PROVE  PieceNames[k] \in Names /\ PieceNames[k] \notin {"raw", "input", "simg", Tmp, "out"}
  <2>1. PieceNames[k] \in Range(PieceNames)
    BY <1>2
  <2> QED
    BY <2>1, NamesAssumption DEF Names
<1>4. ASSUME NEW k \in 1 .. Len(PieceNames), NEW j \in 1 .. Len(PieceNames), PieceNames[j] = PieceNames[k]
      PROVE  j = k
  BY <1>1, <1>4, NamesAssumption DEF IsInjective
<1> QED
  BY <1>1, <1>3, <1>4

LEMMA FilesKept ==
  ASSUME NEW fs, FilesOK(fs), NEW t \in Names, t \notin {"raw", "input"}, NEW g,
         t = "simg" => g \in SparseFiles \union RawImages, t = Tmp => g \in SparseFiles \union {NoFile}
  PROVE  LET new == [fs EXCEPT ![t] = g]
         IN FilesOK(new) /\ new[t] = g /\ \A n \in Names : n # t => new[n] = fs[n]
<1> DEFINE new == [fs EXCEPT ![t] = g]
<1>1. /\ {"raw", "input", "simg", Tmp} \subseteq Names
      /\ "raw" # "input"
  BY DEF Names
<1>2. DOMAIN fs = Names /\ DOMAIN new = Names /\ new = [n \in Names |-> new[n]]
  BY DEF FilesOK
<1>3. new[t] = g /\ \A n \in Names : n # t => new[n] = fs[n]
  BY <1>2
<1> HIDE DEF new
<1>4. FilesOK(new)
  <2>1. new["raw"] \in RawImages /\ new["input"] \in RawImages
    BY <1>1, <1>3 DEF FilesOK
  <2>2. new["simg"] \in {NoFile} \union RawImages \union SparseFiles
    BY <1>1, <1>3 DEF FilesOK
  <2>3. new[Tmp] \in {NoFile} \union SparseFiles
    BY <1>1, <1>3 DEF FilesOK
  <2> QED
    BY <1>2, <2>1, <2>2, <2>3 DEF FilesOK
<1> QED
  BY <1>3, <1>4 DEF new

LEMMA HeadTail ==
  ASSUME NEW S, NEW s \in Seq(S), s # <<>>
  PROVE  Head(s) \in S /\ Tail(s) \in Seq(S) /\ s = <<Head(s)>> \o Tail(s)
<1>1. Head(s) \in S /\ Tail(s) \in Seq(S) /\ Len(Tail(s)) = Len(s) - 1 /\ Len(s) \in Nat /\ Len(s) > 0
  OBVIOUS
<1>2. \A i \in 1 .. Len(s) - 1 : Tail(s)[i] = s[i + 1]
  OBVIOUS
<1>3. Head(s) = s[1]
  OBVIOUS
<1> DEFINE h == Head(s)
           u == Tail(s)
           n == Len(s)
           v == <<h>> \o u
<1>4. <<h>> \in Seq(S) /\ Len(<<h>>) = 1
  BY <1>1
<1>5. h \in S /\ u \in Seq(S) /\ Len(u) = n - 1 /\ n \in Nat /\ n > 0 /\ s[1] = h
      /\ \A i \in 1 .. n - 1 : u[i] = s[i + 1]
  BY <1>1, <1>2, <1>3
<1> HIDE DEF h, u, n
<1>6. v \in Seq(S) /\ Len(v) = 1 + (n - 1)
  <2>1. v \in Seq(S) /\ Len(v) = Len(<<h>>) + Len(u)
    BY <1>4, <1>5, Joined
  <2> QED
    BY <2>1, <1>4, <1>5
<1>7. \A i \in 1 .. n : s[i] = v[i]
  <2> TAKE i \in 1 .. n
  <2>1. CASE i = 1
    BY <2>1, <1>5
  <2>2. CASE i # 1
    <3> DEFINE q == i - 1
    <3>1. q \in 1 .. n - 1 /\ q + 1 = i /\ q \in 1 .. Len(u) /\ 1 + q = i
      BY <2>2, <1>5
    <3> HIDE DEF q
    <3>2. \A j \in 1 .. Len(u) : (<<h>> \o u)[Len(<<h>>) + j] = u[j]
      BY <1>4, <1>5, Joined
    <3>3. v[1 + q] = u[q]
      BY <3>1, <3>2, <1>4
    <3> HIDE DEF v
    <3> QED
      BY <3>1, <3>3, <1>5
  <2> QED
    BY <2>1, <2>2
<1> HIDE DEF v
<1>8. s = v
  <2>1. Len(s) = Len(v) /\ \A i \in 1 .. Len(s) : s[i] = v[i]
    BY <1>5, <1>6, <1>7 DEF n
  <2> QED
    BY <2>1, <1>6, Equal
<1> QED
  BY <1>1, <1>8 DEF v, h, u

\* What write_chunk does to a sparse file.
LEMMA WrittenIs ==
  ASSUME NEW f, f = [kind |-> "sparse", items |-> f.items], NEW op, NEW at
  PROVE  Written(f, op, at) = [kind |-> "sparse", items |-> PutAt(f.items, at, <<OnDisk(op)>>, Torn)]
<1>1. f.kind = "sparse"
  BY f.kind = [kind |-> "sparse", items |-> f.items].kind
<1>2. Written(f, op, at) = [f EXCEPT !.items = PutAt(@, at, <<OnDisk(op)>>, Torn)]
  BY <1>1 DEF Written, OnDisk
<1> DEFINE x == PutAt(f.items, at, <<OnDisk(op)>>, Torn)
<1>3. Written(f, op, at) = [f EXCEPT !.items = x]
  BY <1>2
<1> HIDE DEF x
<1>4. [f EXCEPT !.items = x] = [kind |-> "sparse", items |-> x]
  BY f = [kind |-> "sparse", items |-> f.items]
<1> QED
  BY <1>3, <1>4 DEF x

LEMMA UsableOnDisk ==
  ASSUME NEW op \in Headers \union Skips \union Usable
  PROVE  /\ op \in Ops
         /\ Mappable(op) => OnDisk(op) \in Items
<1>1. op \in Ops
  BY DEF Usable, Ops
<1>2. CASE op \in Headers \union Skips
  BY <1>1, <1>2, HeaderOnDisk, SkipOnDisk
<1>3. CASE op \in Usable
  <2>1. op \in Cells /\ (Mappable(op) => op.len > 0)
    BY <1>3 DEF Usable
  <2> QED
    BY <2>1, <1>1, CellOnDisk
<1> QED
  BY <1>2, <1>3

LEMMA DebrisIs ==
  ASSUME NEW op \in Ops, NEW d \in Debris(op)
  PROVE  d \in Items /\ (op.type = "skip" => d = Torn)
<1>1. CASE d = Torn
  BY <1>1 DEF Items
<1>2. CASE d # Torn
  <2>1. op.type = "fd" /\ op.len > 0
        /\ d = [Chunk(op) EXCEPT !.data = PutAt(@, Len(@), <<Missing>>, Zero)]
    BY <1>2 DEF Debris
  <2>2. op \in Cells
    BY <2>1 DEF Ops, Headers, Skips
  <2> DEFINE k == DivRoundUp(op.len)
             s == op.data
             n == 12 + k * BlockSize
             e == PutAt(s, k, <<Missing>>, Zero)
             c == [type |-> "raw", chunk_sz |-> k, data |-> e, size |-> n]
  <2>3. s \in Seq(Contents) /\ Len(s) = k /\ op.len \in Nat
    BY <2>2 DEF Cells
  <2>4. k \in Nat \ {0} /\ n \in Nat
    <3>1. k \in Nat /\ op.len <= BlockSize * k
      BY <2>3, RoundUp
    <3> HIDE DEF k
    <3>2. CASE k = 0
      BY <3>1, <3>2, <2>1, <2>3, Blocks
    <3>3. n \in Nat
      BY <3>1, Blocks
    <3> QED
      BY <3>1, <3>2, <3>3
  <2>5. d = c
    <3>1. Chunk(op) = [type |-> "raw", chunk_sz |-> k, data |-> s, size |-> n]
      BY <2>1 DEF Chunk, DataChunk, CHUNK_HEADER_LEN
    <3> HIDE DEF k, s, n
    <3> QED
      BY <3>1, <2>1, <2>3
  <2> HIDE DEF k, s, n
  <2>6. e \in Seq(Contents) /\ Len(e) = k
    <3>1. Missing \in Contents /\ Zero \in Contents
      BY FormatAssumption
    <3>2. e \in Seq(Contents) /\ Len(e) = IF Len(s) > k THEN Len(s) ELSE k
      BY <3>1, <2>3, <2>4, PutAtIs
    <3> QED
      BY <3>2, <2>3, <2>4
  <2> HIDE DEF e
  <2>7. c \in Chunks
    BY <2>4, <2>6 DEF Chunks
  <2> QED
    BY <2>1, <2>5, <2>7 DEF Items
<1> QED
  BY <1>1, <1>2

LEMMA SparseFileIs ==
  ASSUME NEW f \in SparseFiles
  PROVE  f = [kind |-> "sparse", items |-> f.items] /\ f.items \in Seq(Items) /\ f.kind = "sparse"
BY DEF SparseFiles, Items

\* A process that goes on with what it writes.
SameRun(q, p) ==
  /\ q.pc = p.pc /\ q.s = p.s /\ q.target = p.target /\ q.mode = p.mode /\ q.then = p.then
  /\ q.tool = p.tool /\ q.i = p.i /\ q.max = p.max /\ q.slots = p.slots
  /\ q.c = p.c /\ q.outs = p.outs /\ q.tmp = p.tmp

LEMMA AdvanceIs ==
  ASSUME NEW p, IsProc(p), NEW op
  PROVE  /\ IsProc(Advance(p, op)) /\ SameRun(Advance(p, op), p)
         /\ Advance(p, op).todo = Tail(p.todo) /\ Advance(p, op).lost = p.lost
         /\ p.mode = "sparse" => Advance(p, op).at = p.at + 1
BY DEF Advance, IsProc, Fields, SameRun

LEMMA LostIs ==
  ASSUME NEW p, IsProc(p)
  PROVE  LET q == [p EXCEPT !.lost = TRUE]
         IN IsProc(q) /\ SameRun(q, p) /\ q.lost = TRUE /\ q.todo = p.todo /\ q.at = p.at
BY DEF IsProc, Fields, SameRun

LEMMA DroppedIs ==
  ASSUME NEW p, IsProc(p)
  PROVE  LET q == [p EXCEPT !.todo = Tail(@), !.lost = TRUE]
         IN IsProc(q) /\ SameRun(q, p) /\ q.lost = TRUE /\ q.todo = Tail(p.todo) /\ q.at = p.at
BY DEF IsProc, Fields, SameRun

\* A step of img2simg or append2simg that wrote an item, or none.
LEMMA StreamsOn ==
  ASSUME NEW fs, FilesOK(fs), NEW p, Streaming(p, fs), p.pc = "write", p.todo # <<>>,
         NEW q, SameRun(q, p), q.todo = Tail(p.todo), q.at \in {p.at, p.at + 1}
  PROVE  /\ Streaming(q, fs)
         /\ \A x \in Items :
              LET new == [fs EXCEPT ![p.target] =
                            [kind |-> "sparse", items |-> PutAt(fs[p.target].items, p.at, <<x>>, Torn)]]
              IN FilesOK(new) /\ Streaming(q, new)
<1> DEFINE t == Target(p.tool)
           W == Headers \union Skips \union Usable
<1>1. /\ p.tool \in {"img2simg", "append2simg"} /\ fs[t] \in SparseFiles
      /\ p.mode = "sparse" /\ p.target = t /\ p.then = (IF p.tool = "img2simg" THEN "exit" ELSE "rename")
      /\ p.at \in Nat \ {0} /\ p.todo \in Seq(W)
  BY DEF Streaming
<1>2. Tail(p.todo) \in Seq(W)
  <2> HIDE DEF W
  <2> QED
    BY <1>1, HeadTail
<1>3. q.at \in Nat \ {0}
  BY <1>1
<1>4. ASSUME NEW new, new[t] \in SparseFiles
      PROVE  Streaming(q, new)
  BY <1>1, <1>2, <1>3, <1>4 DEF Streaming, SameRun
<1>5. t \in {"simg", Tmp} /\ t \in Names /\ t \notin {"raw", "input"}
  BY <1>1 DEF Target, Names, Tmp
<1> HIDE DEF t, W
<1>6. ASSUME NEW x \in Items
      PROVE  LET new == [fs EXCEPT ![p.target] =
                            [kind |-> "sparse", items |-> PutAt(fs[p.target].items, p.at, <<x>>, Torn)]]
             IN FilesOK(new) /\ Streaming(q, new)
  <2> DEFINE s == PutAt(fs[t].items, p.at, <<x>>, Torn)
             g == [kind |-> "sparse", items |-> s]
             new == [fs EXCEPT ![t] = g]
  <2>1. s \in Seq(Items)
    <3>1. fs[t].items \in Seq(Items) /\ Torn \in Items
      BY <1>1, SparseFileIs DEF Items
    <3> QED
      BY <3>1, <1>1, PutAtIs
  <2> HIDE DEF s
  <2>2. g \in SparseFiles
    BY <2>1 DEF SparseFiles, Items
  <2> HIDE DEF g
  <2>3. FilesOK(new) /\ new[t] = g
    BY <1>5, <2>2, FilesKept
  <2> HIDE DEF new
  <2>4. Streaming(q, new)
    BY <1>4, <2>2, <2>3
  <2> QED
    BY <2>3, <2>4, <1>1 DEF new, g, s
<1> QED
  BY <1>1, <1>4, <1>6

\* The file after a failed write.
Failed(fs, p, d) == [fs EXCEPT ![p.target].items = PutAt(@, p.at, <<d>>, Torn)]

LEMMA FailedIs ==
  ASSUME NEW fs, FilesOK(fs), NEW p, p.target \in Names, NEW d,
         fs[p.target] = [kind |-> "sparse", items |-> fs[p.target].items]
  PROVE  Failed(fs, p, d) =
           [fs EXCEPT ![p.target] = [kind |-> "sparse", items |-> PutAt(fs[p.target].items, p.at, <<d>>, Torn)]]
<1> DEFINE t == p.target
           s == fs[t].items
           x == PutAt(s, p.at, <<d>>, Torn)
<1>1. Failed(fs, p, d) = [fs EXCEPT ![t] = [fs[t] EXCEPT !.items = x]]
  BY DEF Failed
<1> HIDE DEF x
<1>2. [fs[t] EXCEPT !.items = x] = [kind |-> "sparse", items |-> x]
  <2> DEFINE f == fs[t]
  <2>1. f = [kind |-> "sparse", items |-> f.items]
    OBVIOUS
  <2> HIDE DEF f
  <2>2. [f EXCEPT !.items = x] = [kind |-> "sparse", items |-> x]
    BY <2>1
  <2> QED
    BY <2>2 DEF f
<1> QED
  BY <1>1, <1>2 DEF x

LEMMA StreamingWrites ==
  ASSUME NEW fs, FilesOK(fs), NEW p, IsProc(p), Streaming(p, fs), p.pc = "write", p.todo # <<>>,
         NEW op, op = Head(p.todo)
  PROVE  /\ op \in Ops
         /\ Mappable(op) =>
              LET new == [fs EXCEPT ![p.target] = Written(@, op, p.at)]
              IN FilesOK(new) /\ Streaming(Advance(p, op), new)
         /\ Streaming([p EXCEPT !.todo = Tail(@), !.lost = TRUE], fs)
         /\ \A d \in Debris(op) : /\ FilesOK(Failed(fs, p, d))
                                  /\ Streaming([Advance(p, op) EXCEPT !.lost = TRUE], Failed(fs, p, d))
<1> DEFINE t == p.target
           W == Headers \union Skips \union Usable
           f == fs[t]
<1>1. /\ t = Target(p.tool) /\ f \in SparseFiles /\ p.mode = "sparse" /\ p.todo \in Seq(W) /\ p.at \in Nat
      /\ t \in Names
  <2>1. t = Target(p.tool) /\ f \in SparseFiles /\ p.mode = "sparse" /\ p.todo \in Seq(W) /\ p.at \in Nat
    BY DEF Streaming
  <2>2. "simg" \in Names /\ Tmp \in Names
    BY DEF Names
  <2> QED
    BY <2>1, <2>2 DEF Target
<1>2. op \in W
  <2> HIDE DEF W
  <2> QED
    BY <1>1, HeadTail
<1>3. op \in Ops /\ (Mappable(op) => OnDisk(op) \in Items)
  BY <1>2, UsableOnDisk
<1>4. f = [kind |-> "sparse", items |-> f.items]
  BY <1>1, SparseFileIs
<1> DEFINE a == Advance(p, op)
           b == [p EXCEPT !.todo = Tail(@), !.lost = TRUE]
           c == [Advance(p, op) EXCEPT !.lost = TRUE]
<1>5. SameRun(a, p) /\ a.todo = Tail(p.todo) /\ a.at = p.at + 1 /\ IsProc(a)
  BY <1>1, AdvanceIs
<1>6. SameRun(b, p) /\ b.todo = Tail(p.todo) /\ b.at = p.at
  BY DroppedIs
<1>7. SameRun(c, p) /\ c.todo = Tail(p.todo) /\ c.at = p.at + 1
  <2> HIDE DEF a
  <2>1. LET q == [a EXCEPT !.lost = TRUE] IN SameRun(q, a) /\ q.todo = a.todo /\ q.at = a.at
    BY <1>5, LostIs
  <2> DEFINE q == [a EXCEPT !.lost = TRUE]
  <2>2. SameRun(q, p) /\ q.todo = Tail(p.todo) /\ q.at = p.at + 1
    BY <1>5, <2>1 DEF SameRun
  <2> QED
    BY <2>2 DEF a
<1>8. ASSUME Mappable(op)
      PROVE  LET new == [fs EXCEPT ![p.target] = Written(@, op, p.at)]
             IN FilesOK(new) /\ Streaming(Advance(p, op), new)
  <2>1. Written(f, op, p.at) = [kind |-> "sparse", items |-> PutAt(f.items, p.at, <<OnDisk(op)>>, Torn)]
    BY <1>4, WrittenIs
  <2>2. OnDisk(op) \in Items
    BY <1>3, <1>8
  <2> DEFINE x == OnDisk(op)
             new == [fs EXCEPT ![t] = [kind |-> "sparse", items |-> PutAt(fs[t].items, p.at, <<x>>, Torn)]]
  <2> HIDE DEF a, x
  <2>3. FilesOK(new) /\ Streaming(a, new)
    BY <1>5, <2>2, StreamsOn DEF x
  <2> QED
    BY <2>1, <2>3 DEF a, x
<1>9. Streaming(b, fs)
  <2> HIDE DEF b
  <2> QED
    BY <1>6, StreamsOn
<1>10. ASSUME NEW d \in Debris(op)
       PROVE  FilesOK(Failed(fs, p, d)) /\ Streaming(c, Failed(fs, p, d))
  <2>1. d \in Items
    BY <1>3, DebrisIs
  <2>2. Failed(fs, p, d) =
          [fs EXCEPT ![t] = [kind |-> "sparse", items |-> PutAt(fs[t].items, p.at, <<d>>, Torn)]]
    BY <1>1, <1>4, FailedIs
  <2> HIDE DEF c
  <2>3. LET new == [fs EXCEPT ![t] = [kind |-> "sparse", items |-> PutAt(fs[t].items, p.at, <<d>>, Torn)]]
        IN FilesOK(new) /\ Streaming(c, new)
    BY <1>7, <2>1, StreamsOn
  <2> QED
    BY <2>2, <2>3
<1> QED
  BY <1>3, <1>8, <1>9, <1>10

\* A step of simg2simg that wrote an item of a piece, or none.
LEMMA PieceOn ==
  ASSUME NEW fs, FilesOK(fs), NEW p, Cutting(p, fs), p.pc = "write", p.todo # <<>>,
         NEW q, SameRun(q, p), q.lost \in {p.lost, TRUE}, q.todo = Tail(p.todo)
  PROVE  /\ p.mode = "sparse" /\ Head(p.todo) \in Ops /\ p.target \in Names
         /\ fs[p.target] = [kind |-> "sparse", items |-> fs[p.target].items]
         /\ q.at = p.at => Cutting(q, fs)
         /\ \A g : FilesOK([fs EXCEPT ![p.target] = g])
         /\ \A x \in DiskItems :
              (q.at = p.at + 1 /\ x.size <= OnDisk(Head(p.todo)).size) =>
                Cutting(q, [fs EXCEPT ![p.target] =
                              [kind |-> "sparse", items |-> PutAt(fs[p.target].items, p.at, <<x>>, Torn)]])
<1> DEFINE t == p.target
           items == fs[t].items
           op == Head(p.todo)
           i == p.i
<1>0. /\ q.pc = p.pc /\ q.s = p.s /\ q.target = p.target /\ q.mode = p.mode /\ q.then = p.then
      /\ q.tool = p.tool /\ q.i = p.i /\ q.max = p.max /\ q.slots = p.slots
      /\ q.c = p.c /\ q.outs = p.outs /\ q.tmp = p.tmp
  BY DEF SameRun
<1>1. /\ p.tool = "simg2simg" /\ CutType(p) /\ (p.lost \/ p.c <= p.slots)
      /\ i \in Nat /\ i > 1 /\ i - 1 <= p.c /\ WrittenUpTo(i - 2, p, fs)
      /\ p.mode = "sparse" /\ p.then = "open" /\ t = PieceNames[i - 1]
      /\ fs[t] \in DiskFiles /\ p.todo \in Seq(Ops) /\ p.at = Len(items) + 1
      /\ FileSize(items) + Bytes(p.todo) <= p.max
  BY DEF Cutting
<1>2. CutType(q) /\ (q.lost \/ q.c <= q.slots)
  BY <1>0, <1>1 DEF CutType
<1>3. op \in Ops /\ Tail(p.todo) \in Seq(Ops) /\ p.todo = <<op>> \o Tail(p.todo)
  BY <1>1, HeadTail
<1>4. items \in Seq(DiskItems) /\ fs[t] = [kind |-> "sparse", items |-> items]
  BY <1>1 DEF DiskFiles
<1>5. /\ Bytes(p.todo) = OnDisk(op).size + Bytes(Tail(p.todo)) /\ OnDisk(op).size \in Nat
      /\ Bytes(Tail(p.todo)) \in Nat /\ Bytes(p.todo) \in Nat
  <2>1. <<op>> \in Seq(Ops) /\ Bytes(<<op>>) = OnDisk(op).size /\ OnDisk(op).size \in Nat
    BY <1>3, BytesOne
  <2> DEFINE u == Tail(p.todo)
             v == <<op>>
  <2>2. u \in Seq(Ops) /\ p.todo = v \o u /\ v \in Seq(Ops)
    BY <1>3, <2>1
  <2> HIDE DEF u, v
  <2>3. Bytes(v \o u) = Bytes(v) + Bytes(u) /\ Bytes(v) \in Nat /\ Bytes(u) \in Nat
    BY <2>2, BytesJoined
  <2>4. Bytes(p.todo) = Bytes(v) + Bytes(u) /\ Bytes(u) \in Nat /\ Bytes(v) \in Nat
    BY <2>2, <2>3
  <2>5. Bytes(v) = OnDisk(op).size
    BY <2>1 DEF v
  <2>6. Bytes(p.todo) = OnDisk(op).size + Bytes(u) /\ Bytes(u) \in Nat /\ Bytes(p.todo) \in Nat
    BY <2>4, <2>5
  <2> QED
    BY <2>1, <2>6 DEF u
<1>6. FileSize(items) \in Nat
  BY <1>4, DiskItemIs, FileSizeNat
<1>7. p.max \in Nat /\ p.c \in Nat /\ p.c <= Len(PieceNames)
  BY <1>1, SizesAssumption DEF CutType
<1>8. /\ i - 1 \in 1 .. Len(PieceNames) /\ t \in Names /\ t \notin {"raw", "input", "simg", Tmp, "out"}
      /\ \A k \in 1 .. i - 2 : PieceNames[k] \in Names /\ PieceNames[k] # t
  <2> HIDE DEF t
  <2>1. i - 1 \in 1 .. Len(PieceNames)
    BY <1>1, <1>7, PieceNameIs
  <2> DEFINE j == i - 1
  <2>2. j \in 1 .. Len(PieceNames) /\ t = PieceNames[j] /\ i - 2 = j - 1
    BY <1>1, <2>1
  <2> HIDE DEF j
  <2>3. \A k \in 1 .. j - 1 : k \in 1 .. Len(PieceNames) /\ k # j
    BY <2>2, PieceNameIs
  <2>4. \A k \in 1 .. j - 1 : PieceNames[k] \in Names /\ PieceNames[k] # t
    BY <2>2, <2>3, PieceNameIs
  <2>5. t \in Names /\ t \notin {"raw", "input", "simg", Tmp, "out"}
    BY <2>2, PieceNameIs
  <2> QED
    BY <2>1, <2>2, <2>4, <2>5
<1>9. ASSUME q.at = p.at
      PROVE  Cutting(q, fs)
  <2>1. FileSize(items) + Bytes(Tail(p.todo)) <= p.max
    <3> DEFINE a == FileSize(items)
               b == Bytes(Tail(p.todo))
               c == Bytes(p.todo)
               e == OnDisk(op).size
    <3>1. a \in Nat /\ b \in Nat /\ e \in Nat /\ c = e + b /\ a + c <= p.max
      BY <1>1, <1>5, <1>6
    <3> HIDE DEF a, b, c, e
    <3>2. a + b <= p.max
      BY <3>1, <1>7
    <3> QED
      BY <3>2 DEF a, b
  <2>2. WrittenUpTo(q.i - 2, q, fs)
    BY <1>0, <1>1 DEF WrittenUpTo
  <2> QED
    BY <1>0, <1>1, <1>2, <1>3, <1>9, <2>1, <2>2 DEF Cutting
<1>10. ASSUME NEW g
       PROVE  FilesOK([fs EXCEPT ![t] = g])
  <2> HIDE DEF t
  <2> QED
    BY <1>8, FilesKept
<1>11. ASSUME NEW x \in DiskItems, q.at = p.at + 1, x.size <= OnDisk(op).size
       PROVE  Cutting(q, [fs EXCEPT ![t] = [kind |-> "sparse", items |-> PutAt(items, p.at, <<x>>, Torn)]])
  <2> DEFINE s == PutAt(items, p.at, <<x>>, Torn)
             g == [kind |-> "sparse", items |-> s]
             new == [fs EXCEPT ![t] = g]
  <2>1. s \in Seq(DiskItems) /\ s = items \o <<x>> /\ Len(s) = p.at /\ Len(items) \in Nat
    <3>1. Torn \in DiskItems
      BY DEF DiskItems
    <3> DEFINE n == p.at
               m == Len(items)
    <3>2. n \in Nat \ {0} /\ n = m + 1 /\ m \in Nat /\ items \in Seq(DiskItems)
      BY <1>1, <1>4
    <3> DEFINE y == PutAt(items, n, <<x>>, Torn)
    <3> HIDE DEF n, items
    <3>3. PutAt(items, n, <<x>>, Torn) \in Seq(DiskItems)
      BY <3>1, <3>2, PutAtIs
    <3>6. Len(PutAt(items, n, <<x>>, Torn)) = IF Len(items) > n THEN Len(items) ELSE n
      BY <3>1, <3>2, PutAtIs
    <3>7. PutAt(items, n, <<x>>, Torn) = items \o <<x>>
      <4>1. IsAppended(PutAt(items, n, <<x>>, Torn), items, x)
        BY <3>1, <3>2, PutAtIs
      <4> QED
        BY <4>1 DEF IsAppended
    <3>5. y \in Seq(DiskItems) /\ Len(y) = (IF m > n THEN m ELSE n) /\ (n = m + 1 => y = items \o <<x>>)
      BY <3>3, <3>6, <3>7
    <3> HIDE DEF m, y
    <3>4. y \in Seq(DiskItems) /\ Len(y) = n /\ y = items \o <<x>>
      BY <3>2, <3>5
    <3> QED
      BY <3>2, <3>4 DEF n, m, y
  <2>2. FileSize(s) = FileSize(items) + x.size
    <3> DEFINE v == <<x>>
    <3>1. v \in Seq(DiskItems) /\ FileSize(v) = x.size /\ s = items \o v
      <4>1. x.size \in Nat
        BY DiskItemIs
      <4> QED
        BY <2>1, <4>1, FileSizeOne
    <3> HIDE DEF v, s, items
    <3>2. FileSize(items \o v) = FileSize(items) + FileSize(v)
      BY <3>1, <1>4, DiskItemIs, FileSizeJoined
    <3> QED
      BY <3>1, <3>2
  <2> HIDE DEF s
  <2>3. g \in DiskFiles /\ g.items = s
    BY <2>1 DEF DiskFiles
  <2>4. FileSize(s) + Bytes(Tail(p.todo)) <= p.max
    <3> DEFINE a == FileSize(items)
               b == Bytes(Tail(p.todo))
               c == Bytes(p.todo)
               e == OnDisk(op).size
               y == x.size
               z == FileSize(s)
    <3>1. /\ a \in Nat /\ b \in Nat /\ e \in Nat /\ c = e + b /\ a + c <= p.max /\ y <= e /\ z = a + y
          /\ y \in Nat
      BY <1>1, <1>5, <1>6, <1>11, <2>2, DiskItemIs
    <3> HIDE DEF a, b, c, e, y, z
    <3>2. z + b <= p.max
      BY <3>1, <1>7
    <3> QED
      BY <3>2 DEF z, b
  <2> HIDE DEF g, t
  <2>5. new[t] = g /\ \A n \in Names : n # t => new[n] = fs[n]
    <3>1. t \in Names /\ t \notin {"raw", "input"} /\ t # "simg" /\ t # Tmp
      BY <1>8
    <3>2. DOMAIN fs = Names
      BY DEF FilesOK
    <3> QED
      BY <3>1, <3>2
  <2> HIDE DEF new
  <2>6. WrittenUpTo(q.i - 2, q, new)
    <3>1. \A k \in 1 .. i - 2 : new[PieceNames[k]] = fs[PieceNames[k]]
      BY <1>8, <2>5
    <3> QED
      BY <3>1, <1>0, <1>1 DEF WrittenUpTo
  <2>7. q.at = Len(new[t].items) + 1
    BY <1>11, <2>1, <2>3, <2>5
  <2>8. Cutting(q, new)
    <3>1. /\ q.tool = "simg2simg" /\ q.pc = "write" /\ q.i \in Nat /\ q.i > 1 /\ q.i - 1 <= q.c
          /\ q.mode = "sparse" /\ q.then = "open" /\ q.target = PieceNames[q.i - 1] /\ q.target = t
          /\ q.todo \in Seq(Ops)
      BY <1>0, <1>1, <1>3 DEF t
    <3>2. new[q.target] \in DiskFiles /\ FileSize(new[q.target].items) + Bytes(q.todo) <= q.max
      BY <3>1, <1>0, <2>3, <2>4, <2>5
    <3> QED
      BY <1>2, <3>1, <3>2, <2>6, <2>7 DEF Cutting
  <2> QED
    BY <2>8 DEF new, g, s
<1> QED
  BY <1>1, <1>3, <1>4, <1>8, <1>9, <1>10, <1>11

LEMMA CuttingWrites ==
  ASSUME NEW fs, FilesOK(fs), NEW p, IsProc(p), Cutting(p, fs), p.pc = "write", p.todo # <<>>,
         NEW op, op = Head(p.todo)
  PROVE  /\ LET new == [fs EXCEPT ![p.target] = Written(@, op, p.at)]
            IN FilesOK(new) /\ Cutting(Advance(p, op), new)
         /\ Cutting([p EXCEPT !.todo = Tail(@), !.lost = TRUE], fs)
         /\ \A d \in Debris(op) :
              /\ FilesOK(Failed(fs, p, d))
              /\ op.type = "skip" => Cutting([Advance(p, op) EXCEPT !.lost = TRUE], Failed(fs, p, d))
<1> DEFINE t == p.target
           a == Advance(p, op)
           b == [p EXCEPT !.todo = Tail(@), !.lost = TRUE]
           c == [Advance(p, op) EXCEPT !.lost = TRUE]
<1>3. SameRun(b, p) /\ b.lost = TRUE /\ b.todo = Tail(p.todo) /\ b.at = p.at
  BY DroppedIs
<1>1. /\ p.mode = "sparse" /\ op \in Ops /\ t \in Names
      /\ fs[t] = [kind |-> "sparse", items |-> fs[t].items]
      /\ \A g : FilesOK([fs EXCEPT ![t] = g])
  <2> HIDE DEF b, t
  <2>4. p.mode = "sparse" /\ p.todo \in Seq(Ops)
    BY DEF Cutting
  <2>5. op \in Ops
    BY <2>4, HeadTail
  <2>6. p.target \in Names
    BY <1>3, PieceOn
  <2>1. p.mode = "sparse" /\ op \in Ops /\ p.target \in Names
    BY <2>4, <2>5, <2>6
  <2>2. fs[p.target] = [kind |-> "sparse", items |-> fs[p.target].items]
    BY <1>3, PieceOn
  <2>3. \A g : FilesOK([fs EXCEPT ![p.target] = g])
    BY <1>3, PieceOn
  <2> QED
    BY <2>1, <2>2, <2>3 DEF t
<1>2. SameRun(a, p) /\ IsProc(a) /\ a.lost = p.lost /\ a.todo = Tail(p.todo) /\ a.at = p.at + 1
  BY <1>1, AdvanceIs
<1>4. SameRun(c, p) /\ c.lost = TRUE /\ c.todo = Tail(p.todo) /\ c.at = p.at + 1
  <2> HIDE DEF a
  <2>1. LET q == [a EXCEPT !.lost = TRUE]
        IN SameRun(q, a) /\ q.lost = TRUE /\ q.todo = a.todo /\ q.at = a.at
    BY <1>2, LostIs
  <2> DEFINE q == [a EXCEPT !.lost = TRUE]
  <2>2. SameRun(q, p) /\ q.lost = TRUE /\ q.todo = Tail(p.todo) /\ q.at = p.at + 1
    BY <1>2, <2>1 DEF SameRun
  <2> QED
    BY <2>2 DEF a
<1>5. OnDisk(op) \in DiskItems /\ OnDisk(op).size \in Nat
  <2>1. OnDisk(op) \in DiskItems
    BY <1>1, HeaderOnDisk, SkipOnDisk, CellOnDisk DEF Ops
  <2> QED
    BY <2>1, DiskItemIs
<1> DEFINE File(x) == [fs EXCEPT ![t] = [kind |-> "sparse", items |-> PutAt(fs[t].items, p.at, <<x>>, Torn)]]
<1>6. LET new == [fs EXCEPT ![p.target] = Written(@, op, p.at)]
      IN FilesOK(new) /\ Cutting(Advance(p, op), new)
  <2>1. Written(fs[t], op, p.at) = [kind |-> "sparse", items |-> PutAt(fs[t].items, p.at, <<OnDisk(op)>>, Torn)]
    BY <1>1, WrittenIs
  <2> DEFINE x == OnDisk(op)
  <2>2. x \in DiskItems /\ x.size <= OnDisk(Head(p.todo)).size
    BY <1>5
  <2> HIDE DEF a, x
  <2>3. Cutting(a, File(x))
    BY <1>2, <2>2, PieceOn
  <2>4. FilesOK([fs EXCEPT ![p.target] = Written(@, op, p.at)])
    BY <1>1
  <2> QED
    BY <2>1, <2>3, <2>4 DEF a, x
<1>7. Cutting(b, fs)
  <2> HIDE DEF b
  <2> QED
    BY <1>3, PieceOn
<1>8. ASSUME NEW d \in Debris(op)
      PROVE  /\ FilesOK(Failed(fs, p, d))
             /\ op.type = "skip" => Cutting(c, Failed(fs, p, d))
  <2>1. Failed(fs, p, d) = File(d)
    BY ZenonT(30), <1>1, FailedIs
  <2>2. FilesOK(File(d))
    BY <1>1
  <2>3. ASSUME op.type = "skip" PROVE Cutting(c, File(d))
    <3>1. d = Torn
      BY <1>1, <2>3, DebrisIs
    <3>2. d \in DiskItems /\ d.size <= OnDisk(Head(p.todo)).size
      BY <3>1, <1>5 DEF Torn, DiskItems
    <3> HIDE DEF c
    <3> QED
      BY <1>4, <3>2, PieceOn
  <2> HIDE DEF c
  <2> QED
    BY <2>1, <2>2, <2>3
<1> QED
  BY <1>6, <1>7, <1>8

LEMMA RestoringWrites ==
  ASSUME NEW fs, FilesOK(fs), NEW p, IsProc(p), Restoring(p), p.pc = "write", NEW op
  PROVE  /\ p.mode = "normal" /\ p.target = "out"
         /\ \A g : FilesOK([fs EXCEPT ![p.target] = g])
         /\ Restoring(Advance(p, op))
         /\ Restoring([p EXCEPT !.todo = Tail(@), !.lost = TRUE])
<1>1. p.tool = "simg2img" /\ p.mode = "normal" /\ p.target = "out" /\ p.then = "import"
  BY DEF Restoring
<1>2. ASSUME NEW q, SameRun(q, p)
      PROVE  Restoring(q)
  BY <1>1, <1>2 DEF Restoring, SameRun
<1>3. SameRun(Advance(p, op), p)
  BY AdvanceIs
<1>4. SameRun([p EXCEPT !.todo = Tail(@), !.lost = TRUE], p)
  BY DroppedIs
<1>5. "out" \in Names /\ "out" \notin {"raw", "input"} /\ "out" # "simg" /\ "out" # Tmp
  BY DEF Names, Tmp
<1>6. ASSUME NEW g
      PROVE  FilesOK([fs EXCEPT !["out"] = g])
  BY <1>5, FilesKept
<1> QED
  BY <1>1, <1>2, <1>3, <1>4, <1>6

\* Whatever a write does, the process and the files are as they should be.
LEMMA ProcWrites ==
  ASSUME NEW fs, FilesOK(fs), NEW p, ProcOK(p, fs), p.pc = "write", p.todo # <<>>,
         NEW op, op = Head(p.todo)
  PROVE  /\ Mappable(op) => LET new == [fs EXCEPT ![p.target] = Written(@, op, p.at)]
                            IN FilesOK(new) /\ ProcOK(Advance(p, op), new)
         /\ ProcOK([p EXCEPT !.todo = Tail(@), !.lost = TRUE], fs)
         /\ p.mode = "sparse" =>
              \A d \in Debris(op) :
                /\ FilesOK(Failed(fs, p, d))
                /\ op.type = "skip" => ProcOK([Advance(p, op) EXCEPT !.lost = TRUE], Failed(fs, p, d))
<1> DEFINE a == Advance(p, op)
           b == [p EXCEPT !.todo = Tail(@), !.lost = TRUE]
           c == [Advance(p, op) EXCEPT !.lost = TRUE]
           new == [fs EXCEPT ![p.target] = Written(@, op, p.at)]
<1>1. IsProc(p)
  BY DEF ProcOK
<1>2. IsProc(a) /\ IsProc(b)
  BY <1>1, AdvanceIs, DroppedIs
<1>3. IsProc(c)
  <2> HIDE DEF a
  <2>1. IsProc([a EXCEPT !.lost = TRUE])
    BY <1>2, LostIs
  <2> QED
    BY <2>1 DEF a
<1>4. CASE Streaming(p, fs)
  <2>1. Mappable(op) => FilesOK(new) /\ Streaming(a, new)
    BY <1>1, <1>4, StreamingWrites
  <2>2. Streaming(b, fs)
    BY <1>1, <1>4, StreamingWrites
  <2>3. \A d \in Debris(op) : FilesOK(Failed(fs, p, d)) /\ Streaming(c, Failed(fs, p, d))
    BY <1>1, <1>4, StreamingWrites
  <2> HIDE DEF a, b, c, new
  <2>4. /\ Mappable(op) => FilesOK(new) /\ ProcOK(a, new)
        /\ ProcOK(b, fs)
        /\ \A d \in Debris(op) : FilesOK(Failed(fs, p, d)) /\ ProcOK(c, Failed(fs, p, d))
    BY <1>2, <1>3, <2>1, <2>2, <2>3 DEF ProcOK
  <2> QED
    BY <2>4 DEF a, b, c, new
<1>5. CASE Restoring(p)
  <2>1. p.mode = "normal" /\ FilesOK(new) /\ Restoring(a) /\ Restoring(b)
    BY <1>1, <1>5, RestoringWrites
  <2> HIDE DEF a, b, new
  <2>2. p.mode = "normal" /\ FilesOK(new) /\ ProcOK(a, new) /\ ProcOK(b, fs)
    BY <1>2, <2>1 DEF ProcOK
  <2> QED
    BY <2>2 DEF a, b, new
<1>6. CASE Cutting(p, fs)
  <2>1. FilesOK(new) /\ Cutting(a, new)
    BY <1>1, <1>6, CuttingWrites
  <2>2. Cutting(b, fs)
    BY <1>1, <1>6, CuttingWrites
  <2>3. \A d \in Debris(op) : FilesOK(Failed(fs, p, d)) /\ (op.type = "skip" => Cutting(c, Failed(fs, p, d)))
    BY <1>1, <1>6, CuttingWrites
  <2> HIDE DEF a, b, c, new
  <2>4. /\ FilesOK(new) /\ ProcOK(a, new)
        /\ ProcOK(b, fs)
        /\ \A d \in Debris(op) : FilesOK(Failed(fs, p, d)) /\ (op.type = "skip" => ProcOK(c, Failed(fs, p, d)))
    BY <1>2, <1>3, <2>1, <2>2, <2>3 DEF ProcOK
  <2> QED
    BY <2>4 DEF a, b, c, new
<1> QED
  BY <1>4, <1>5, <1>6 DEF ProcOK

\* Nobody writes normal images but simg2img.
LEMMA ProcCloses ==
  ASSUME NEW fs, FilesOK(fs), NEW p, ProcOK(p, fs), p.pc = "write", p.todo = <<>>
  PROVE  /\ p.mode = "sparse" => ProcOK([p EXCEPT !.pc = p.then], fs)
         /\ p.mode # "sparse" => \A g : /\ FilesOK([fs EXCEPT ![p.target] = g])
                                        /\ ProcOK([p EXCEPT !.pc = p.then], [fs EXCEPT ![p.target] = g])
         /\ p.mode = "normal" => ProcOK([p EXCEPT !.pc = p.then, !.lost = TRUE], fs)
<1> DEFINE a == [p EXCEPT !.pc = p.then]
           b == [p EXCEPT !.pc = p.then, !.lost = TRUE]
<1>0. IsProc(p)
  BY DEF ProcOK
<1>1. IsProc(a) /\ IsProc(b) /\ a.pc = p.then /\ b.pc = p.then
  BY <1>0 DEF IsProc, Fields
<1>2. /\ a.s = p.s /\ a.tool = p.tool /\ a.i = p.i /\ a.max = p.max /\ a.slots = p.slots
      /\ a.c = p.c /\ a.outs = p.outs /\ a.tmp = p.tmp /\ a.lost = p.lost
  BY <1>0 DEF IsProc, Fields
<1>3. b.tool = p.tool
  BY <1>0 DEF IsProc, Fields
<1> HIDE DEF a, b
<1>4. CASE Streaming(p, fs)
  <2>1. p.mode = "sparse" /\ Streaming(a, fs)
    BY <1>1, <1>2, <1>4 DEF Streaming
  <2>2. ProcOK(a, fs)
    BY <1>1, <2>1 DEF ProcOK
  <2> QED
    BY <2>1, <2>2 DEF a
<1>5. CASE Restoring(p)
  <2>1. p.mode = "normal" /\ p.target = "out" /\ Restoring(a) /\ Restoring(b)
    BY <1>1, <1>2, <1>3, <1>5 DEF Restoring
  <2>2. "out" \in Names /\ "out" \notin {"raw", "input"} /\ "out" # "simg" /\ "out" # Tmp
    BY DEF Names, Tmp
  <2>3. ASSUME NEW g
        PROVE  FilesOK([fs EXCEPT ![p.target] = g])
    BY <2>1, <2>2, FilesKept
  <2>4. ProcOK(b, fs) /\ \A new : ProcOK(a, new)
    BY <1>1, <2>1 DEF ProcOK
  <2> QED
    BY <2>1, <2>3, <2>4 DEF a, b
<1>6. CASE Cutting(p, fs)
  <2>1. /\ p.tool = "simg2simg" /\ CutType(p) /\ (p.lost \/ p.c <= p.slots)
        /\ p.i \in Nat /\ p.i > 1 /\ p.i - 1 <= p.c /\ WrittenUpTo(p.i - 2, p, fs)
        /\ p.mode = "sparse" /\ p.then = "open" /\ p.target = PieceNames[p.i - 1]
        /\ fs[p.target] \in DiskFiles
        /\ FileSize(fs[p.target].items) + Bytes(p.todo) <= p.max
    BY <1>6 DEF Cutting
  <2>2. Bytes(<<>>) = 0
    <3>1. [type |-> "skip", len |-> 0] \in Ops
      BY DEF Ops, Skips
    <3> QED
      BY <3>1, BytesOne
  <2>3. FileSize(fs[p.target].items) <= p.max
    <3>2. Bytes(p.todo) = 0
      BY <2>2
    <3>1. FileSize(fs[p.target].items) \in Nat
      BY <2>1, DiskItemIs, FileSizeNat DEF DiskFiles
    <3> QED
      BY <2>1, <3>2, <3>1
  <2>4. WrittenUpTo(p.i - 1, a, fs)
    <3> DEFINE j == p.i - 1
    <3>1. j \in Nat /\ j > 0 /\ p.i - 2 = j - 1 /\ fs[PieceNames[j]] \in DiskFiles
          /\ FileSize(fs[PieceNames[j]].items) <= p.max
      BY <2>1, <2>3
    <3> HIDE DEF j
    <3>2. WrittenUpTo(j - 1, p, fs)
      BY <2>1, <3>1
    <3>3. \A k \in 1 .. j : k = j \/ k \in 1 .. j - 1
      BY <3>1
    <3>4. WrittenUpTo(j, a, fs)
      BY <1>2, <3>1, <3>2, <3>3 DEF WrittenUpTo
    <3> QED
      BY <3>4 DEF j
  <2>5. CutType(a) /\ (a.lost \/ a.c <= a.slots)
    BY <2>1, <1>2 DEF CutType
  <2>6. a.i \in Nat \ {0} /\ a.i - 1 <= a.c /\ WrittenUpTo(a.i - 1, a, fs)
    BY <2>1, <2>4, <1>2
  <2>7. Cutting(a, fs)
    BY <1>1, <1>2, <2>1, <2>5, <2>6 DEF Cutting
  <2>8. ProcOK(a, fs)
    BY <1>1, <2>7 DEF ProcOK
  <2> QED
    BY <2>1, <2>8 DEF a
<1> QED
  BY <1>4, <1>5, <1>6 DEF ProcOK
-----------------------------------------------------------------------------
(***************************************************************************)
(* The steps of the writer, and the steps that end a process.              *)
(***************************************************************************)
\* A process that goes on.
LEMMA GoesOn ==
  ASSUME FilesOK(files'), ProcOK(proc', files')
  PROVE  PiecesInv'
BY DEF PiecesInv

LEMMA Ends ==
  ASSUME PiecesInv, proc' = Idle, FilesOK(files')
  PROVE  PiecesInv'
BY DEF PiecesInv, Running

LEMMA Writes ==
  ASSUME PiecesInv, WriteChunk \/ WriteRefused \/ WriteFails
  PROVE  PiecesInv'
<1>1. FilesOK(files) /\ ProcOK(proc, files) /\ proc.pc = "write" /\ proc.todo # <<>>
  BY DEF PiecesInv, WriteChunk, WriteRefused, WriteFails
<1> DEFINE op == Head(proc.todo)
           a == Advance(proc, op)
           b == [proc EXCEPT !.todo = Tail(@), !.lost = TRUE]
           c == [Advance(proc, op) EXCEPT !.lost = TRUE]
           new == [files EXCEPT ![proc.target] = Written(@, op, proc.at)]
<1>2. /\ Mappable(op) => FilesOK(new) /\ ProcOK(a, new)
      /\ ProcOK(b, files)
      /\ proc.mode = "sparse" =>
           \A d \in Debris(op) : /\ FilesOK(Failed(files, proc, d))
                                 /\ op.type = "skip" => ProcOK(c, Failed(files, proc, d))
  BY <1>1, ProcWrites
<1>3. CASE WriteChunk
  <2>1. Mappable(op) /\ ((proc' = a /\ files' = new) \/ (proc' = b /\ files' = files))
    BY <1>3 DEF WriteChunk, Op
  <2> HIDE DEF a, b, c, new, op
  <2>2. FilesOK(files') /\ ProcOK(proc', files')
    BY <1>1, <1>2, <2>1
  <2> QED
    BY <2>2, GoesOn
<1>4. CASE WriteRefused
  <2>1. proc' = Idle /\ files' = files
    BY <1>4 DEF WriteRefused
  <2> QED
    BY <1>1, <2>1, Ends
<1>5. CASE WriteFails
  <2>1. \/ files' = files /\ op.type = "skip" /\ proc' = b
        \/ files' = files /\ proc' = Idle
        \/ /\ proc.mode = "sparse"
           /\ \E d \in Debris(op) : files' = Failed(files, proc, d)
           /\ (op.type = "skip" /\ proc' = c) \/ proc' = Idle
    BY <1>5 DEF WriteFails, Op, Failed
  <2> HIDE DEF a, b, c, new, op
  <2>2. FilesOK(files') /\ (proc' = Idle \/ ProcOK(proc', files'))
    BY <1>1, <1>2, <2>1
  <2> QED
    BY <2>2, GoesOn, Ends
<1> QED
  BY <1>3, <1>4, <1>5

LEMMA Closes ==
  ASSUME PiecesInv, CloseOutput
  PROVE  PiecesInv'
<1>1. FilesOK(files) /\ ProcOK(proc, files) /\ proc.pc = "write" /\ proc.todo = <<>>
  BY DEF PiecesInv, CloseOutput
<1> DEFINE a == [proc EXCEPT !.pc = proc.then]
           b == [proc EXCEPT !.pc = proc.then, !.lost = TRUE]
<1>2. /\ proc.mode = "sparse" => ProcOK(a, files)
      /\ proc.mode # "sparse" => \A g : /\ FilesOK([files EXCEPT ![proc.target] = g])
                                        /\ ProcOK(a, [files EXCEPT ![proc.target] = g])
      /\ proc.mode = "normal" => ProcOK(b, files)
  BY <1>1, ProcCloses
<1> DEFINE g == Pad(files[proc.target], proc.s.len)
<1>3. \/ proc' = a /\ proc.mode = "sparse" /\ files' = files
      \/ proc' = a /\ proc.mode # "sparse" /\ files' = [files EXCEPT ![proc.target] = g]
      \/ proc' = b /\ proc.mode = "normal" /\ files' = files
  BY DEF CloseOutput
<1> HIDE DEF a, b, g
<1>4. FilesOK(files') /\ ProcOK(proc', files')
  BY <1>1, <1>2, <1>3
<1> QED
  BY <1>4, GoesOn

\* The steps that end a process and leave the files.
LEMMA Stops ==
  ASSUME PiecesInv, Sigbus \/ Kill \/ Img2simgExit \/ Simg2simgExit \/ Simg2imgExit
  PROVE  PiecesInv'
<1>1. proc' = Idle /\ files' = files
  BY DEF Sigbus, Kill, Img2simgExit, Simg2simgExit, Simg2imgExit
<1>2. FilesOK(files)
  BY DEF PiecesInv
<1> QED
  BY <1>1, <1>2, Ends

LEMMA Renames ==
  ASSUME PiecesInv, Rename
  PROVE  PiecesInv'
<1>1. FilesOK(files) /\ ProcOK(proc, files) /\ proc.pc = "rename"
  BY DEF PiecesInv, Rename
<1>2. proc' = Idle /\ files' = [files EXCEPT !["simg"] = files[Tmp], ![Tmp] = NoFile]
  BY DEF Rename
<1>3. Streaming(proc, files)
  BY <1>1 DEF ProcOK, Restoring, Cutting
<1>4. files[Tmp] \in SparseFiles
  BY <1>1, <1>3 DEF Streaming, Target
<1>5. "simg" \in Names /\ Tmp \in Names /\ "simg" # Tmp /\ Tmp \notin {"raw", "input"}
  BY DEF Names, Tmp
<1> DEFINE mid == [files EXCEPT !["simg"] = files[Tmp]]
           new == [mid EXCEPT ![Tmp] = NoFile]
<1>6. FilesOK(mid)
  BY <1>1, <1>4, <1>5, FilesKept
<1> HIDE DEF mid
<1>7. FilesOK(new)
  BY <1>5, <1>6, FilesKept
<1>8. files' = new
  BY <1>2 DEF mid
<1> HIDE DEF new
<1> QED
  BY <1>2, <1>7, <1>8, Ends
-----------------------------------------------------------------------------
(***************************************************************************)
(* The tools start.                                                        *)
(***************************************************************************)
LEMMA NewProcIs ==
  ASSUME NEW tool, NEW goal
  PROVE  LET p == NewProc(tool, goal)
         IN /\ IsProc(p) /\ p.tool = tool /\ p.lost = FALSE /\ p.i = 1 /\ p.slots = 0 /\ p.c = 0
            /\ p.outs = <<>> /\ p.tmp = <<>>
BY DEF NewProc, IsProc, Fields

LEMMA WriterIs ==
  ASSUME NEW p, IsProc(p), NEW s, NEW target, NEW mode, NEW then
  PROVE  LET q == Writer(p, s, target, mode, then)
         IN /\ IsProc(q) /\ q.pc = "write" /\ q.s = s /\ q.target = target /\ q.mode = mode /\ q.then = then
            /\ q.at = 1 /\ q.todo = Opt(mode = "sparse", Header(s)) \o AllBlocks(s)
            /\ q.tool = p.tool /\ q.lost = p.lost /\ q.i = p.i /\ q.max = p.max /\ q.slots = p.slots
            /\ q.c = p.c /\ q.outs = p.outs /\ q.tmp = p.tmp
<1> DEFINE todo == Opt(mode = "sparse", Header(s)) \o AllBlocks(s)
           q == [p EXCEPT !.pc = "write", !.s = s, !.target = target, !.mode = mode, !.then = then, !.at = 1,
                          !.todo = todo]
<1>1. Writer(p, s, target, mode, then) = q
  BY DEF Writer
<1>2. todo = Opt(mode = "sparse", Header(s)) \o AllBlocks(s)
  OBVIOUS
<1> HIDE DEF todo
<1>3. /\ IsProc(q) /\ q.pc = "write" /\ q.s = s /\ q.target = target /\ q.mode = mode /\ q.then = then
      /\ q.at = 1 /\ q.todo = todo
      /\ q.tool = p.tool /\ q.lost = p.lost /\ q.i = p.i /\ q.max = p.max /\ q.slots = p.slots
      /\ q.c = p.c /\ q.outs = p.outs /\ q.tmp = p.tmp
  BY DEF IsProc, Fields
<1> HIDE DEF q
<1> QED
  BY <1>1, <1>2, <1>3

LEMMA Restores ==
  ASSUME PiecesInv, Simg2imgOfSimg \/ Simg2imgOfPieces
  PROVE  PiecesInv'
<1>1. PICK in, goal : Simg2img(in, goal)
  BY DEF Simg2imgOfSimg, Simg2imgOfPieces
<1>2. /\ files' = [files EXCEPT !["out"] = Truncated("raw")]
      /\ proc' = [NewProc("simg2img", goal) EXCEPT !.pc = "import", !.in = in]
  BY <1>1 DEF Simg2img
<1>3. FilesOK(files')
  <2>1. FilesOK(files)
    BY DEF PiecesInv
  <2>2. "out" \in Names /\ "out" \notin {"raw", "input"} /\ "out" # "simg" /\ "out" # Tmp
    BY DEF Names, Tmp
  <2> QED
    BY <1>2, <2>1, <2>2, FilesKept
<1>4. IsProc(proc') /\ proc'.tool = "simg2img" /\ proc'.pc = "import"
  BY <1>2 DEF NewProc, IsProc, Fields
<1>5. ProcOK(proc', files')
  BY <1>4 DEF ProcOK, Restoring
<1> QED
  BY <1>3, <1>5, GoesOn

LEMMA Imports ==
  ASSUME PiecesInv, ImportInput
  PROVE  PiecesInv'
<1>1. FilesOK(files) /\ ProcOK(proc, files) /\ proc.pc = "import" /\ files' = files
  BY DEF PiecesInv, ImportInput
<1>2. IsProc(proc) /\ proc.tool = "simg2img"
  BY <1>1 DEF ProcOK, Restoring, Streaming, Cutting
<1>3. CASE proc' = Idle
  BY <1>1, <1>3, Ends
<1>4. CASE proc' # Idle
  <2> DEFINE s == Import(files[proc.in[proc.i]], proc.in[proc.i])
             p == Writer(proc, s, "out", "normal", "import")
  <2>1. proc' = [p EXCEPT !.i = @ + 1]
    BY <1>4 DEF ImportInput
  <2>2. /\ IsProc(p) /\ p.tool = "simg2img" /\ p.pc = "write" /\ p.mode = "normal" /\ p.target = "out"
        /\ p.then = "import"
    <3> HIDE DEF s
    <3> QED
      BY <1>2, WriterIs
  <2> HIDE DEF p
  <2>3. IsProc(proc') /\ Restoring(proc')
    BY <2>1, <2>2 DEF IsProc, Fields, Restoring
  <2>4. ProcOK(proc', files')
    BY <2>3 DEF ProcOK
  <2> QED
    BY <1>1, <2>4, GoesOn
<1> QED
  BY <1>3, <1>4

\* A process that starts to write one sparse file.
LEMMA Streams ==
  ASSUME NEW fs, NEW tool \in {"img2simg", "append2simg"}, fs[Target(tool)] \in SparseFiles, NEW goal,
         NEW l \in Seq(Usable), NEW s, s.bbs = l, s.len \in Nat,
         NEW then, then = IF tool = "img2simg" THEN "exit" ELSE "rename"
  PROVE  ProcOK(Writer(NewProc(tool, goal), s, Target(tool), "sparse", then), fs)
<1> DEFINE W == Headers \union Skips \union Usable
           h == Header(s)
           a == AllBlocks(s)
           v == <<h>>
           p == NewProc(tool, goal)
           q == Writer(p, s, Target(tool), "sparse", then)
<1>1. IsProc(p) /\ p.tool = tool
  BY NewProcIs
<1> HIDE DEF p
<1>2. /\ IsProc(q) /\ q.pc = "write" /\ q.target = Target(tool) /\ q.mode = "sparse" /\ q.then = then
      /\ q.at = 1 /\ q.todo = Opt("sparse" = "sparse", h) \o a /\ q.tool = tool
  BY <1>1, WriterIs
<1>3. h \in Headers
  <2>1. l \in Seq(Cells)
    BY DEF Usable
  <2> QED
    BY <2>1, HeaderIs
<1>4. a \in Seq(Skips \union Usable)
  <2>1. Usable \in SUBSET Cells
    BY DEF Usable
  <2> QED
    BY <2>1, AllBlocksIs
<1>5. Opt("sparse" = "sparse", h) = v
  BY DEF Opt
<1> HIDE DEF h, a, q
<1>6. v \in Seq(W) /\ a \in Seq(W)
  BY <1>3, <1>4
<1> HIDE DEF v, W
<1>7. v \o a \in Seq(W)
  BY <1>6, Joined
<1>8. q.todo \in Seq(W) /\ q.at \in Nat \ {0}
  BY <1>2, <1>5, <1>7
<1>9. Streaming(q, fs)
  BY <1>2, <1>8 DEF Streaming, W
<1>10. ProcOK(q, fs)
  BY <1>2, <1>9 DEF ProcOK
<1> QED
  BY <1>10 DEF q, p

LEMMA TiledIsUsable ==
  ASSUME NEW l, NEW n, NEW fd, Tiled(l, n, fd)
  PROVE  l \in Seq(Usable)
<1>1. l \in Seq(Cells) /\ \A i \in 1 .. Len(l) : l[i].len > 0
  BY DEF Tiled
<1>2. \A i \in 1 .. Len(l) : l[i] \in Usable
  BY <1>1 DEF Usable
<1> QED
  BY <1>1, <1>2

LEMMA Reads ==
  ASSUME PiecesInv, Small', Img2simg
  PROVE  PiecesInv'
<1> DEFINE raw == files["raw"]
           s == ReadNormal(raw, "raw")
           p == NewProc("img2simg", raw.blocks)
<1>1. FilesOK(files)
  BY DEF PiecesInv
<1>2. /\ files' = [files EXCEPT !["simg"] = Truncated("sparse")]
      /\ proc' = Writer(p, s, "simg", "sparse", "exit")
  BY DEF Img2simg
<1>3. FilesOK(files') /\ files'["simg"] \in SparseFiles
  <2>1. Truncated("sparse") \in SparseFiles
    BY DEF Truncated, SparseFiles
  <2>2. "simg" \in Names /\ "simg" \notin {"raw", "input"} /\ "simg" # Tmp
    BY DEF Names, Tmp
  <2> DEFINE g == Truncated("sparse")
  <2> HIDE DEF g
  <2>3. FilesOK([files EXCEPT !["simg"] = g]) /\ [files EXCEPT !["simg"] = g]["simg"] = g
    BY <1>1, <2>1, <2>2, FilesKept DEF g
  <2> QED
    BY <1>2, <2>1, <2>3 DEF g
<1>4. /\ raw.len \in Nat /\ raw.blocks \in Seq(Contents) /\ Len(raw.blocks) = DivRoundUp(raw.len)
  BY <1>1 DEF FilesOK, RawImages
<1>5. s.len = raw.len
  BY DEF ReadNormal
<1>6. IsProc(p)
  BY NewProcIs
<1>7. proc'.s = s /\ proc' # Idle
  <2> HIDE DEF p, s
  <2>1. IsProc(proc') /\ proc'.s = s
    BY <1>2, <1>6, WriterIs
  <2>2. "s" \notin DOMAIN Idle /\ "s" \in DOMAIN proc'
    BY <2>1 DEF Idle, IsProc, Fields
  <2> QED
    BY <2>1, <2>2
<1>8. raw.len < Wrap
  BY <1>5, <1>7 DEF Small, Running
<1>9. s.bbs \in Seq(Usable) /\ s.len \in Nat
  <2>1. Tiled(s.bbs, raw.len, "raw")
    <3> DEFINE fd == "raw"
    <3>1. fd \in Fds
      BY DEF Fds
    <3> HIDE DEF raw, fd
    <3>2. Tiled(ReadNormal(raw, fd).bbs, raw.len, fd)
      BY <1>4, <1>8, <3>1, ReadNormalIs
    <3> QED
      BY <3>2 DEF fd
  <2> HIDE DEF s, raw
  <2> QED
    BY <2>1, <1>4, <1>5, TiledIsUsable
<1>10. ProcOK(proc', files')
  <2>1. Target("img2simg") = "simg"
    BY DEF Target
  <2> DEFINE goal == raw.blocks
  <2>2. p = NewProc("img2simg", goal)
    OBVIOUS
  <2> HIDE DEF s, p, goal
  <2>3. ProcOK(Writer(NewProc("img2simg", goal), s, "simg", "sparse", "exit"), files')
    BY <1>3, <1>9, <2>1, Streams
  <2> QED
    BY <1>2, <2>2, <2>3
<1> QED
  BY <1>3, <1>10, GoesOn

\* What append2simg reads, whatever the file is.
LEMMA ImportAutoIs ==
  ASSUME NEW f \in RawImages \union SparseFiles, ImportAuto(f).len < Wrap
  PROVE  ImportAuto(f).len \in Nat /\ Tiled(ImportAuto(f).bbs, ImportAuto(f).len, "simg")
<1> DEFINE fd == "simg"
<1>0. fd \in Fds
  BY DEF Fds
<1>1. CASE Importable(f)
  <2> DEFINE s == Import(f, fd)
             n == f.items[1].total_blks * BlockSize
  <2>1. ImportAuto(f) = s
    BY <1>1 DEF ImportAuto
  <2>2. s.len = n
    BY DEF Import
  <2>3. f.kind = "sparse" /\ f.items # <<>> /\ f.items[1].type = "header"
    BY <1>1 DEF Importable, IsSparse
  <2>4. f.items \in Seq(Items)
    BY <2>3 DEF RawImages, SparseFiles, Items
  <2> HIDE DEF s, n, fd
  <2>5. n < Wrap
    BY <2>1, <2>2
  <2>6. Import(f, fd).len \in Nat /\ Tiled(Import(f, fd).bbs, Import(f, fd).len, fd)
    <3>1. f.items[1].total_blks * BlockSize < Wrap
      BY <2>5 DEF n
    <3>2. Import(f, fd).len \in Nat
      BY <1>0, <1>1, <2>4, <3>1, ImportIs
    <3>3. Tiled(Import(f, fd).bbs, Import(f, fd).len, fd)
      BY <1>0, <1>1, <2>4, <3>1, ImportIs
    <3> QED
      BY <3>2, <3>3
  <2>7. s.len \in Nat /\ Tiled(s.bbs, s.len, fd)
    BY <2>6 DEF s
  <2> QED
    BY <2>1, <2>7 DEF fd
<1>2. CASE ~ Importable(f)
  <2> DEFINE raw == AsRaw(f)
             s == ReadNormal(raw, fd)
  <2>1. ImportAuto(f) = s /\ s.len = raw.len
    BY <1>2 DEF ImportAuto, ReadNormal
  <2>2. raw.len \in Nat /\ raw.blocks \in Seq(Contents) /\ Len(raw.blocks) = DivRoundUp(raw.len)
    <3>1. CASE f.kind = "raw"
      BY <3>1 DEF AsRaw, RawImages, SparseFiles
    <3>2. CASE f.kind # "raw"
      <4> DEFINE n == FileSize(f.items)
                 b == [i \in 1 .. DivRoundUp(n) |-> Other]
      <4>1. f.items \in Seq(Items)
        BY <3>2 DEF RawImages, SparseFiles, Items
      <4>2. n \in Nat
        BY <4>1, ItemIs, FileSizeNat
      <4>3. raw = [len |-> n, blocks |-> b]
        BY <3>2 DEF AsRaw
      <4> HIDE DEF n
      <4>4. DivRoundUp(n) \in Nat
        BY <4>2, RoundUp
      <4>5. Other \in Contents
        BY FilesAssumption
      <4> DEFINE k == DivRoundUp(n)
      <4> HIDE DEF k
      <4>6. [i \in 1 .. k |-> Other] \in Seq(Contents) /\ Len([i \in 1 .. k |-> Other]) = k
        BY <4>4, <4>5 DEF k
      <4>7. b \in Seq(Contents) /\ Len(b) = DivRoundUp(n)
        BY <4>6 DEF k
      <4> HIDE DEF b, raw
      <4> QED
        BY <4>2, <4>3, <4>7
    <3> QED
      BY <3>1, <3>2
  <2> HIDE DEF raw, fd
  <2>3. raw.len < Wrap
    BY <2>1
  <2>4. Tiled(s.bbs, raw.len, fd)
    BY <1>0, <2>2, <2>3, ReadNormalIs
  <2> HIDE DEF s
  <2> QED
    BY <2>1, <2>2, <2>4 DEF fd
<1> QED
  BY <1>1, <1>2

\* The length of what append2simg reads.
LEMMA AutoLength ==
  ASSUME NEW f \in RawImages \union SparseFiles
  PROVE  ImportAuto(f).len \in Nat
<1> DEFINE s == ImportAuto(f)
<1>1. CASE Importable(f)
  <2>1. s.len = f.items[1].total_blks * BlockSize
    BY <1>1 DEF ImportAuto, Import
  <2>2. f.kind = "sparse" /\ f.items # <<>> /\ f.items[1].type = "header"
    BY <1>1 DEF Importable, IsSparse
  <2>3. f.items \in Seq(Items)
    BY <2>2 DEF RawImages, SparseFiles, Items
  <2>4. f.items[1] \in Items
    BY <2>2, <2>3
  <2>5. f.items[1].total_blks \in Nat
    BY <2>2, <2>4, ItemIs
  <2> QED
    BY <2>1, <2>5, Blocks
<1>2. CASE ~ Importable(f)
  <2>1. s.len = AsRaw(f).len
    BY <1>2 DEF ImportAuto, ReadNormal
  <2>2. CASE f.kind = "raw"
    BY <2>1, <2>2 DEF AsRaw, RawImages, SparseFiles
  <2>3. CASE f.kind # "raw"
    <3>1. f.items \in Seq(Items)
      BY <2>3 DEF RawImages, SparseFiles, Items
    <3>2. FileSize(f.items) \in Nat
      BY <3>1, ItemIs, FileSizeNat
    <3> QED
      BY <2>1, <2>3, <3>2 DEF AsRaw
  <2> QED
    BY <2>2, <2>3
<1> QED
  BY <1>1, <1>2

LEMMA Appends ==
  ASSUME PiecesInv, Small', Append2simg
  PROVE  PiecesInv'
<1> DEFINE simg == files["simg"]
           s == ImportAuto(simg)
           input == files["input"]
           b == s.len \div BlockSize
           bb == Fd(b, input.len, "input", 0, input.blocks)
           goal == IF want.simg = Unknown \/ s.len % BlockSize # 0 THEN Unknown ELSE want.simg \o input.blocks
           stale == IF files[Tmp] = NoFile THEN <<>> ELSE files[Tmp].items
           items == [i \in DOMAIN stale |-> Torn]
           g == [kind |-> "sparse", items |-> items]
           l == Queue(s.bbs, bb)
           n == s.len + input.len
           t == [len |-> n, bbs |-> l]
           p == NewProc("append2simg", goal)
<1>1. FilesOK(files)
  BY DEF PiecesInv
<1>2. /\ simg # NoFile
      /\ files' = [files EXCEPT ![Tmp] = g]
      /\ proc' = Writer(p, t, Tmp, "sparse", "rename")
  BY DEF Append2simg
<1> HIDE DEF goal
<1>3. FilesOK(files') /\ files'[Tmp] \in SparseFiles
  <2>1. stale = <<>> \/ stale \in Seq(Items)
    <3>1. files[Tmp] \in {NoFile} \union SparseFiles
      BY <1>1 DEF FilesOK
    <3> DEFINE f == files[Tmp]
    <3> HIDE DEF f
    <3>2. f \in {NoFile} \union SparseFiles
      BY <3>1 DEF f
    <3>3. (IF f = NoFile THEN <<>> ELSE f.items) = <<>> \/ (IF f = NoFile THEN <<>> ELSE f.items) \in Seq(Items)
      BY <3>2, SparseFileIs
    <3> QED
      BY <3>3 DEF f
  <2> HIDE DEF stale
  <2>2. PICK k \in Nat : DOMAIN stale = 1 .. k
    <3>1. CASE stale = <<>>
      <4>1. DOMAIN stale = 1 .. 0
        BY <3>1
      <4> QED
        BY <4>1
    <3>2. CASE stale \in Seq(Items)
      <4>1. DOMAIN stale = 1 .. Len(stale) /\ Len(stale) \in Nat
        BY <3>2
      <4> QED
        BY <4>1
    <3> QED
      BY <2>1, <3>1, <3>2
  <2>3. Torn \in Items
    BY DEF Items
  <2>4. items \in Seq(Items)
    BY <2>2, <2>3
  <2> HIDE DEF items
  <2>5. g \in SparseFiles
    BY <2>4 DEF SparseFiles, Items
  <2> HIDE DEF g
  <2>6. Tmp \in Names /\ Tmp \notin {"raw", "input"} /\ Tmp # "simg"
    BY DEF Names, Tmp
  <2>7. FilesOK([files EXCEPT ![Tmp] = g]) /\ [files EXCEPT ![Tmp] = g][Tmp] = g
    BY <1>1, <2>5, <2>6, FilesKept
  <2> QED
    BY <1>2, <2>5, <2>7
<1> HIDE DEF g
<1>4. input.len \in Nat /\ input.blocks \in Seq(Contents) /\ Len(input.blocks) = DivRoundUp(input.len)
  BY <1>1 DEF FilesOK, RawImages
<1>5. simg \in RawImages \union SparseFiles
  BY <1>1, <1>2 DEF FilesOK
<1> HIDE DEF simg, input
<1>6. proc'.s = t /\ proc' # Idle
  <2>1. IsProc(p)
    BY NewProcIs
  <2> HIDE DEF p, t
  <2>2. IsProc(proc') /\ proc'.s = t
    BY <1>2, <2>1, WriterIs
  <2>3. "s" \notin DOMAIN Idle /\ "s" \in DOMAIN proc'
    BY <2>2 DEF Idle, IsProc, Fields
  <2> QED
    BY <2>2, <2>3
<1>7. n < Wrap
  BY <1>6 DEF Small, Running
<1>8. s.len \in Nat /\ Tiled(s.bbs, s.len, "simg")
  <2> DEFINE m == s.len
  <2>1. ImportAuto(simg).len < Wrap
    <3>1. s.len \in Int
      BY <1>5, AutoLength
    <3> HIDE DEF s
    <3>2. s.len < Wrap
      BY <1>4, <1>7, <3>1, Blocks
    <3> QED
      BY <3>2 DEF s
  <2> QED
    BY <1>5, <2>1, ImportAutoIs
<1> HIDE DEF s
<1>9. b \in Nat /\ n \in Nat
  <2> DEFINE x == s.len
             y == input.len
  <2>1. x \in Nat /\ y \in Nat /\ BlockSize \in Nat /\ BlockSize > 0
    BY <1>4, <1>8, Blocks
  <2> HIDE DEF x, y
  <2>2. x \div BlockSize \in Nat /\ x + y \in Nat
    BY <2>1, Division
  <2> QED
    BY <2>2 DEF x, y
<1> HIDE DEF b
<1>10. bb \in Usable /\ bb.type = "fd" /\ bb.src = "input"
  <2>1. bb \in Cells /\ bb.type = "fd" /\ bb.src = "input" /\ bb.off = 0
    <3> DEFINE fd == "input"
               c == input.blocks
    <3>1. fd \in Fds /\ c \in Seq(Contents) /\ Len(c) = DivRoundUp(input.len) /\ 0 \in Nat
      BY <1>4 DEF Fds
    <3> HIDE DEF fd, c
    <3>2. /\ Fd(b, input.len, fd, 0, c) \in Cells
          /\ Fd(b, input.len, fd, 0, c).type = "fd" /\ Fd(b, input.len, fd, 0, c).src = fd
          /\ Fd(b, input.len, fd, 0, c).off = 0
      BY <1>4, <1>9, <3>1, FdIsCell
    <3> QED
      BY <3>2 DEF fd, c
  <2> HIDE DEF bb
  <2>2. bb.len \in Nat
    BY <2>1 DEF Cells
  <2>3. 0 % 4096 = 0
    OBVIOUS
  <2> QED
    BY <2>1, <2>2, <2>3 DEF Usable, Mappable
<1> HIDE DEF bb
<1>11. l \in Seq(Usable)
  <2>1. s.bbs \in Seq(Usable)
    BY <1>8, TiledIsUsable
  <2>2. \A i \in 1 .. Len(s.bbs) : s.bbs[i].type = "fd" => s.bbs[i].src # bb.src
    BY <1>8, <1>10 DEF Tiled
  <2>3. Usable \in SUBSET Cells
    BY DEF Usable
  <2> QED
    BY <1>10, <2>1, <2>2, <2>3, QueueOther
<1> HIDE DEF l
<1>12. t.bbs = l /\ t.len \in Nat
  BY <1>9
<1> HIDE DEF t
<1>13. ProcOK(proc', files')
  <2>1. Target("append2simg") = Tmp
    BY DEF Target
  <2>2. ProcOK(Writer(NewProc("append2simg", goal), t, Tmp, "sparse", "rename"), files')
    BY <1>3, <1>11, <1>12, <2>1, Streams
  <2> QED
    BY <1>2, <2>2
<1> QED
  BY <1>3, <1>13, GoesOn

\* No cut was made: everything is in front of the list.
LEMMA CountingStarts ==
  ASSUME NEW p, p.slots = 0, p.c = 0, p.tmp = <<>>, p.s.bbs \in Seq(Cells), Apart(p.s.bbs)
  PROVE  Counting(p)
<1> DEFINE l == p.s.bbs
           e == <<>>
           T == [i \in 0 .. p.c |-> e]
<1>1. e \in Seq(Cells) /\ e = p.tmp /\ e \o l = l
  OBVIOUS
<1> HIDE DEF e, l
<1>2. T \in [0 .. p.c -> Seq(Cells)] /\ T[0] = p.tmp /\ T[p.c] = e
  BY <1>1
<1>3. 1 .. p.c = {}
  OBVIOUS
<1>4. Apart(p.tmp \o p.s.bbs)
  BY <1>1 DEF l
<1>5. T[p.c] = <<>>
  BY <1>2 DEF e
<1> HIDE DEF T
<1>6. \E U \in [0 .. p.c -> Seq(Cells)] :
       /\ U[0] = p.tmp /\ U[p.c] = <<>>
       /\ \A i \in 1 .. p.c : \A R \in Seq(Cells) :
            Like(R, p.s.bbs, p.max - 56) =>
              LET m == MoveChunks(U[i - 1] \o R, p.max) IN m.more /\ m.rest = U[i] \o R
  <2> DEFINE Q(U) ==
               /\ U[0] = p.tmp /\ U[p.c] = <<>>
               /\ \A i \in 1 .. p.c : \A R \in Seq(Cells) :
                    Like(R, p.s.bbs, p.max - 56) =>
                      LET m == MoveChunks(U[i - 1] \o R, p.max) IN m.more /\ m.rest = U[i] \o R
  <2>1. Q(T)
    BY <1>2, <1>3, <1>5
  <2> HIDE DEF Q
  <2>2. \E U \in [0 .. p.c -> Seq(Cells)] : Q(U)
    BY <1>2, <2>1
  <2> QED
    BY <2>2 DEF Q
<1> QED
  BY <1>4, <1>6 DEF Counting

LEMMA Cuts ==
  ASSUME PiecesInv, Small', NEW max \in MaxSizes, Simg2simg(max)
  PROVE  PiecesInv'
<1> DEFINE f == files["simg"]
           fd == "simg"
           s == Import(f, fd)
           p == NewProc("simg2simg", want.simg)
<1>1. FilesOK(files) /\ files' = files /\ Importable(f)
  BY DEF PiecesInv, Simg2simg
<1>2. proc' = [p EXCEPT !.pc = "count", !.max = max, !.s = s]
  BY DEF Simg2simg
<1>3. f.kind = "sparse" /\ f.items # <<>> /\ f.items[1].type = "header"
  BY <1>1 DEF Importable, IsSparse
<1>4. f \in SparseFiles
  BY <1>1, <1>3 DEF FilesOK, RawImages, NoFile
<1>5. f.items \in Seq(Items)
  BY <1>4 DEF SparseFiles, Items
<1>6. IsProc(p) /\ p.tool = "simg2simg" /\ p.lost = FALSE /\ p.i = 1 /\ p.slots = 0 /\ p.c = 0
      /\ p.outs = <<>> /\ p.tmp = <<>>
  BY DEF NewProc, IsProc, Fields
<1>7. s.len = f.items[1].total_blks * BlockSize
  BY DEF Import
<1> HIDE DEF f, p, s
<1>8. /\ IsProc(proc') /\ proc'.tool = "simg2simg" /\ proc'.pc = "count" /\ proc'.max = max /\ proc'.s = s
      /\ proc'.lost = FALSE /\ proc'.i = 1 /\ proc'.slots = 0 /\ proc'.c = 0 /\ proc'.outs = <<>>
      /\ proc'.tmp = <<>>
  BY <1>2, <1>6 DEF IsProc, Fields
<1>9. proc' # Idle
  <2>1. "s" \notin DOMAIN Idle /\ "s" \in DOMAIN proc'
    BY <1>8 DEF Idle, IsProc, Fields
  <2> QED
    BY <2>1
<1>10. f.items[1].total_blks * BlockSize < Wrap
  <2>1. s.len < Wrap
    BY <1>8, <1>9 DEF Small, Running
  <2> QED
    BY <1>7, <2>1
<1>11. s.len \in Nat /\ s = [len |-> s.len, bbs |-> s.bbs] /\ s.bbs \in Seq(Cells) /\ Apart(s.bbs)
  <2>1. fd \in Fds
    BY DEF Fds
  <2> HIDE DEF fd
  <2>2. Import(f, fd).len \in Nat
    BY <1>1, <1>5, <1>10, <2>1, ImportIs
  <2>3. Import(f, fd) = [len |-> Import(f, fd).len, bbs |-> Import(f, fd).bbs]
    BY <1>1, <1>5, <1>10, <2>1, ImportIs
  <2>4. Tiled(Import(f, fd).bbs, Import(f, fd).len, fd)
    BY <1>1, <1>5, <1>10, <2>1, ImportIs
  <2>5. s = Import(f, fd)
    BY DEF s
  <2>6. Tiled(s.bbs, s.len, fd) /\ s.len \in Nat
    BY <2>2, <2>4, <2>5
  <2>7. s = [len |-> s.len, bbs |-> s.bbs]
    BY <2>3, <2>5
  <2> QED
    BY <2>6, <2>7 DEF Tiled
<1>12. Counting(proc')
  BY <1>8, <1>11, CountingStarts
<1>13. CutType(proc')
  <2> DEFINE outs == proc'.outs
  <2>1. outs = <<>> /\ Len(outs) = 0 /\ outs \in Seq(Seq(Cells)) /\ 1 .. Len(outs) = {}
    BY <1>8
  <2>2. proc'.tmp \in Seq(Cells) /\ 0 <= Len(PieceNames)
    BY <1>8, PieceNameIs
  <2>3. /\ proc'.s = [len |-> proc'.s.len, bbs |-> proc'.s.bbs] /\ proc'.s.len \in Nat
        /\ proc'.s.bbs \in Seq(Cells)
    BY <1>8, <1>11
  <2> HIDE DEF outs
  <2>4. /\ proc'.outs \in Seq(Seq(Cells)) /\ 1 .. Len(proc'.outs) = {}
    BY <2>1 DEF outs
  <2>5. \A k \in 1 .. Len(proc'.outs) : Fits(proc'.outs[k], proc'.max)
    BY <2>4
  <2>6. proc'.max \in MaxSizes /\ proc'.slots \in Nat /\ proc'.c \in Nat /\ proc'.c <= Len(PieceNames)
    BY <1>8, <2>2
  <2>7. proc'.lost \in BOOLEAN
    BY <1>8
  <2> QED
    BY <2>7, <2>2, <2>3, <2>4, <2>5, <2>6 DEF CutType
<1>14. ProcOK(proc', files')
  BY <1>8, <1>12, <1>13 DEF ProcOK, Cutting
<1> QED
  BY <1>1, <1>14, GoesOn

\* The file of a piece is not one of those that are read.
LEMMA PieceOpened ==
  ASSUME NEW fs, FilesOK(fs), NEW p, Cutting(p, fs), p.pc = "open", p.i <= p.c, NEW g
  PROVE  LET new == [fs EXCEPT ![PieceNames[p.i]] = g]
         IN FilesOK(new) /\ new[PieceNames[p.i]] = g /\ WrittenUpTo(p.i - 1, p, new)
<1> DEFINE i == p.i
           t == PieceNames[i]
           new == [fs EXCEPT ![t] = g]
<1>1. /\ CutType(p) /\ i \in Nat \ {0} /\ WrittenUpTo(i - 1, p, fs)
      /\ p.c \in Nat /\ p.c <= Len(PieceNames)
  BY DEF Cutting, CutType
<1>2. i \in 1 .. Len(PieceNames) /\ \A k \in 1 .. i - 1 : k \in 1 .. Len(PieceNames) /\ k # i
  BY <1>1, PieceNameIs
<1> HIDE DEF i
<1>3. t \in Names /\ t \notin {"raw", "input"} /\ t # "simg" /\ t # Tmp
  BY <1>2, PieceNameIs
<1>4. \A k \in 1 .. i - 1 : PieceNames[k] \in Names /\ PieceNames[k] # t
  BY <1>2, PieceNameIs
<1> HIDE DEF t
<1>5. FilesOK(new)
  BY <1>3, FilesKept
<1>6. DOMAIN fs = Names
  BY DEF FilesOK
<1>7. new[t] = g /\ \A n \in Names : n # t => new[n] = fs[n]
  BY <1>3, <1>6
<1> HIDE DEF new
<1>8. WrittenUpTo(i - 1, p, new)
  <2>1. \A k \in 1 .. i - 1 : new[PieceNames[k]] = fs[PieceNames[k]]
    BY <1>4, <1>7
  <2> QED
    BY <2>1, <1>1 DEF WrittenUpTo
<1> QED
  BY <1>5, <1>7, <1>8 DEF new, t, i

LEMMA SpoilsPiece ==
  ASSUME PiecesInv, BadPiece
  PROVE  PiecesInv'
<1>1. /\ FilesOK(files) /\ ProcOK(proc, files) /\ proc.pc = "open" /\ proc.i <= proc.c
      /\ files' = [files EXCEPT ![PieceNames[proc.i]] = Truncated("sparse")] /\ proc' = Idle
  BY DEF PiecesInv, BadPiece
<1>2. Cutting(proc, files)
  BY <1>1 DEF ProcOK, Streaming, Restoring
<1> DEFINE g == Truncated("sparse")
<1> HIDE DEF g
<1>3. FilesOK([files EXCEPT ![PieceNames[proc.i]] = g])
  BY <1>1, <1>2, PieceOpened
<1> QED
  BY <1>1, <1>3, Ends DEF g

LEMMA OpensPiece ==
  ASSUME PiecesInv, OpenPiece
  PROVE  PiecesInv'
<1> DEFINE i == proc.i
           name == PieceNames[i]
           l == proc.outs[i]
           piece == [len |-> proc.s.len, bbs |-> l]
           g == Truncated("sparse")
           p == Writer(proc, piece, name, "sparse", "open")
<1>1. /\ FilesOK(files) /\ ProcOK(proc, files) /\ proc.pc = "open" /\ i <= proc.c /\ i <= Len(proc.outs)
      /\ files' = [files EXCEPT ![name] = g] /\ proc' = [p EXCEPT !.i = @ + 1]
  BY DEF PiecesInv, OpenPiece
<1>2. Cutting(proc, files) /\ IsProc(proc)
  BY <1>1 DEF ProcOK, Streaming, Restoring
<1>3. /\ proc.tool = "simg2simg" /\ CutType(proc) /\ (proc.lost \/ proc.c <= proc.slots)
      /\ i \in Nat \ {0}
  BY <1>1, <1>2 DEF Cutting
<1>4. FilesOK(files') /\ files'[name] = g /\ WrittenUpTo(i - 1, proc, files')
  <2> HIDE DEF g
  <2>1. LET new == [files EXCEPT ![PieceNames[proc.i]] = g]
        IN FilesOK(new) /\ new[PieceNames[proc.i]] = g /\ WrittenUpTo(proc.i - 1, proc, new)
    BY <1>1, <1>2, PieceOpened
  <2> QED
    BY <1>1, <2>1
<1>5. l \in Seq(Cells) /\ FileLen(l)[Len(l)] <= proc.max - 44 /\ proc.max \in Nat /\ proc.s.len \in Nat
  <2>1. Fits(l, proc.max)
    BY <1>1, <1>3 DEF CutType
  <2>2. proc.max \in Nat /\ proc.s.len \in Nat
    BY <1>3, SizesAssumption DEF CutType
  <2> HIDE DEF l
  <2> QED
    BY <2>1, <2>2 DEF Fits
<1> HIDE DEF l
<1>6. piece.bbs = l /\ piece.len = proc.s.len /\ piece = [len |-> piece.len, bbs |-> piece.bbs]
  OBVIOUS
<1> DEFINE h == Header(piece)
           a == AllBlocks(piece)
           todo == <<h>> \o a
<1> HIDE DEF piece
<1>7. h \in Headers /\ a \in Seq(Ops) /\ Bytes(a) \in Nat /\ Bytes(a) <= proc.max - 32
  <2>1. h \in Headers
    BY <1>5, <1>6, HeaderIs
  <2> HIDE DEF h
  <2>2. Cells \in SUBSET Cells
    OBVIOUS
  <2>3. /\ a \in Seq(Skips \union Cells)
        /\ Bytes(a) \in Nat /\ Bytes(a) <= FileLen(l)[Len(l)] + 12
    BY <1>5, <1>6, <2>2, AllBlocksIs
  <2> HIDE DEF a
  <2>4. a \in Seq(Ops)
    BY <2>3 DEF Ops
  <2> DEFINE x == Bytes(a)
             y == FileLen(l)[Len(l)]
  <2>5. y \in Nat
    BY <1>5, FileLenIs
  <2>6. x \in Nat /\ x <= y + 12 /\ y <= proc.max - 44 /\ proc.max \in Nat
    BY <1>5, <2>3
  <2> HIDE DEF x, y
  <2>7. x <= proc.max - 32
    BY <2>5, <2>6
  <2> QED
    BY <2>1, <2>3, <2>4, <2>7 DEF x
<1>8. todo \in Seq(Ops) /\ Bytes(todo) \in Nat /\ Bytes(todo) <= proc.max
  <2>1. h \in Ops /\ OnDisk(h).size = 28
    BY <1>7, HeaderOnDisk DEF Ops
  <2> HIDE DEF h, a
  <2> DEFINE v == <<h>>
  <2>2. v \in Seq(Ops) /\ Bytes(v) = 28
    BY <2>1, BytesOne
  <2>3. todo = v \o a
    OBVIOUS
  <2> HIDE DEF v, todo
  <2>4. v \o a \in Seq(Ops) /\ Bytes(v \o a) = Bytes(v) + Bytes(a)
    BY <1>7, <2>2, BytesJoined
  <2> QED
    BY <1>5, <1>7, <2>2, <2>3, <2>4
<1>9. /\ IsProc(p) /\ p.pc = "write" /\ p.s = piece /\ p.target = name /\ p.mode = "sparse" /\ p.then = "open"
      /\ p.at = 1 /\ p.todo = todo
      /\ p.tool = proc.tool /\ p.lost = proc.lost /\ p.i = i /\ p.max = proc.max /\ p.slots = proc.slots
      /\ p.c = proc.c /\ p.outs = proc.outs /\ p.tmp = proc.tmp
  <2> HIDE DEF h, a, name
  <2>1. Opt("sparse" = "sparse", h) = <<h>>
    BY DEF Opt
  <2>2. /\ IsProc(p) /\ p.pc = "write" /\ p.s = piece /\ p.target = name /\ p.mode = "sparse"
        /\ p.then = "open" /\ p.at = 1 /\ p.todo = Opt("sparse" = "sparse", h) \o a
    BY <1>2, WriterIs DEF h, a
  <2>3. /\ p.tool = proc.tool /\ p.lost = proc.lost /\ p.i = i /\ p.max = proc.max /\ p.slots = proc.slots
        /\ p.c = proc.c /\ p.outs = proc.outs /\ p.tmp = proc.tmp
    BY <1>2, WriterIs
  <2> HIDE DEF p
  <2>4. p.todo = todo
    BY <2>1, <2>2
  <2> QED
    BY <2>2, <2>3, <2>4
<1> HIDE DEF p, todo, name
<1> DEFINE q == proc'
<1>10. /\ IsProc(q) /\ q.pc = "write" /\ q.s = piece /\ q.target = name /\ q.mode = "sparse" /\ q.then = "open"
       /\ q.at = 1 /\ q.todo = todo
       /\ q.tool = proc.tool /\ q.lost = proc.lost /\ q.i = i + 1 /\ q.max = proc.max /\ q.slots = proc.slots
       /\ q.c = proc.c /\ q.outs = proc.outs /\ q.tmp = proc.tmp
  BY <1>1, <1>9 DEF IsProc, Fields
<1> HIDE DEF q
<1>11. CutType(q)
  <2>1. q.s = [len |-> q.s.len, bbs |-> q.s.bbs] /\ q.s.len \in Nat /\ q.s.bbs \in Seq(Cells)
    BY <1>5, <1>6, <1>10
  <2> QED
    BY <1>3, <1>10, <2>1 DEF CutType
<1>12. WrittenUpTo(q.i - 2, q, files')
  <2>1. q.i - 2 = i - 1
    BY <1>3, <1>10
  <2> QED
    BY <1>4, <1>10, <2>1 DEF WrittenUpTo
<1>13. /\ files'[q.target] \in DiskFiles /\ q.at = Len(files'[q.target].items) + 1
       /\ FileSize(files'[q.target].items) + Bytes(q.todo) <= q.max
  <2> DEFINE e == <<>>
  <2>1. g = [kind |-> "sparse", items |-> e] /\ e \in Seq(DiskItems) /\ Len(e) = 0
    BY DEF Truncated
  <2>2. FileSize(e) = 0
    <3>1. Torn.size \in Nat
      BY DEF Torn
    <3> QED
      BY <3>1, FileSizeOne
  <2> HIDE DEF e, g
  <2>3. g \in DiskFiles /\ g.items = e
    BY <2>1 DEF DiskFiles
  <2>4. files'[q.target] = g
    BY <1>4, <1>10
  <2> QED
    BY <1>5, <1>8, <1>10, <2>1, <2>2, <2>3, <2>4
<1>14. q.i \in Nat /\ q.i > 1 /\ q.i - 1 <= q.c /\ q.target = PieceNames[q.i - 1]
  <2>1. q.i - 1 = i /\ q.i \in Nat /\ q.i > 1
    BY <1>3, <1>10
  <2> QED
    BY <1>1, <1>10, <2>1 DEF name
<1>15. Cutting(q, files')
  BY <1>3, <1>8, <1>10, <1>11, <1>12, <1>13, <1>14 DEF Cutting
<1>16. ProcOK(q, files')
  BY <1>10, <1>15 DEF ProcOK
<1> QED
  BY <1>4, <1>16, GoesOn DEF q
-----------------------------------------------------------------------------
(***************************************************************************)
(* Cutting an image into pieces, twice.                                    *)
(***************************************************************************)
LEMMA ListMoveIs ==
  ASSUME NEW from \in Seq(Cells), NEW to \in Seq(Cells)
  PROVE  /\ ListMove(from, to) \in Seq(Cells)
         /\ from = <<>> => ListMove(from, to) = to
         /\ to = <<>> => ListMove(from, to) = from
<1>1. CASE from = <<>>
  BY <1>1 DEF ListMove
<1>2. CASE from # <<>> /\ to = <<>>
  BY <1>2 DEF ListMove
<1>3. CASE from # <<>> /\ to # <<>>
  <2> DEFINE after == {i \in 1 .. Len(to) : i = Len(to) \/ to[i + 1].block > from[1].block}
             p == CHOOSE i \in after : \A j \in after : i <= j
             a == SubSeq(to, 1, p)
             b == SubSeq(to, p + 1, Len(to))
  <2>1. Len(to) \in Nat /\ Len(to) > 0
    BY <1>3
  <2>2. after \subseteq Nat /\ after # {} /\ after \subseteq 1 .. Len(to)
    BY <2>1
  <2>3. \E i \in after : \A j \in after : i <= j
    <3> HIDE DEF after
    <3> QED
      BY <2>2, LeastNumber
  <2>4. p \in after
    <3> HIDE DEF after
    <3> QED
      BY <2>3
  <2> DEFINE n == Len(to)
  <2>5. p \in 1 .. n /\ n \in Nat
    BY <2>1, <2>2, <2>4
  <2> HIDE DEF p, after
  <2>6. ListMove(from, to) = a \o from \o b
    BY <1>3 DEF ListMove, p, after
  <2>7. a \in Seq(Cells)
    <3>1. 1 \in 1 .. Len(to) + 1 /\ p \in 0 .. Len(to)
      BY <2>5
    <3> QED
      BY <3>1
  <2>8. b \in Seq(Cells)
    BY <2>5
  <2> HIDE DEF a, b
  <2>9. (a \o from) \o b \in Seq(Cells)
    <3>1. a \o from \in Seq(Cells)
      BY <2>7, Joined
    <3> DEFINE c == a \o from
    <3> HIDE DEF c
    <3>2. c \o b \in Seq(Cells)
      BY <2>8, <3>1, Joined DEF c
    <3> QED
      BY <3>2 DEF c
  <2> QED
    BY <1>3, <2>6, <2>9
<1> QED
  BY <1>1, <1>2, <1>3

\* What a turn does to the process.
LEMMA TurnIs ==
  ASSUME NEW p, proc = p, IsProc(p), CutType(p), NEW m, NEW lost, Turn(m, lost)
  PROVE  LET q == proc'
             tmp == IF p.c < p.slots THEN p.tmp ELSE ListMove(m.piece, p.tmp)
         IN /\ IsProc(q) /\ q.tool = p.tool /\ q.goal = p.goal /\ q.max = p.max /\ q.lost = (p.lost \/ lost)
            /\ p.c + 1 <= Len(PieceNames)
            /\ q.outs = (IF p.c < p.slots THEN Append(p.outs, m.piece) ELSE p.outs)
            /\ q.s = [len |-> p.s.len, bbs |-> IF m.more THEN m.rest ELSE ListMove(tmp, m.rest)]
            /\ q.tmp = (IF m.more THEN tmp ELSE <<>>)
            /\ q.pc = (IF m.more THEN p.pc ELSE IF p.pc = "count" THEN "split" ELSE "open")
            /\ q.slots = (IF ~ m.more /\ p.pc = "count" THEN p.c + 1 ELSE p.slots)
            /\ q.c = (IF ~ m.more /\ p.pc = "count" THEN 0 ELSE p.c + 1)
            /\ q.i = (IF m.more \/ p.pc = "count" THEN p.i ELSE 1)
<1> DEFINE tmp == IF p.c < p.slots THEN p.tmp ELSE ListMove(m.piece, p.tmp)
           outs == IF p.c < p.slots THEN Append(p.outs, m.piece) ELSE p.outs
           l == p.lost \/ lost
           moved == ListMove(tmp, m.rest)
           r == m.rest
           c == p.c + 1
           a == [p EXCEPT !.c = c, !.tmp = tmp, !.s.bbs = r, !.lost = l, !.outs = outs]
           b == [a EXCEPT !.tmp = <<>>, !.s.bbs = moved]
<1>1. /\ c <= Len(PieceNames)
      /\ proc' = IF m.more THEN a
                 ELSE IF p.pc = "count" THEN [b EXCEPT !.pc = "split", !.slots = c, !.c = 0]
                 ELSE [b EXCEPT !.pc = "open", !.i = 1]
  BY DEF Turn
<1>2. p.s = [len |-> p.s.len, bbs |-> p.s.bbs]
  BY DEF CutType
<1> HIDE DEF tmp, outs, l, moved, r, c
<1>3. /\ IsProc(a) /\ a.tool = p.tool /\ a.goal = p.goal /\ a.max = p.max /\ a.lost = l /\ a.outs = outs /\ a.tmp = tmp
      /\ a.pc = p.pc /\ a.slots = p.slots /\ a.c = c /\ a.i = p.i
  BY DEF IsProc, Fields
<1>4. a.s = [len |-> p.s.len, bbs |-> r]
  <2>1. a.s = [p.s EXCEPT !.bbs = r]
    BY DEF IsProc, Fields
  <2> DEFINE s == p.s
  <2>2. s = [len |-> s.len, bbs |-> s.bbs]
    BY <1>2
  <2> HIDE DEF s
  <2>3. [s EXCEPT !.bbs = r] = [len |-> s.len, bbs |-> r]
    BY <2>2
  <2> QED
    BY <2>1, <2>3 DEF s
<1> HIDE DEF a
<1>5. /\ IsProc(b) /\ b.tool = p.tool /\ b.goal = p.goal /\ b.max = p.max /\ b.lost = l /\ b.outs = outs /\ b.tmp = <<>>
      /\ b.pc = p.pc /\ b.slots = p.slots /\ b.c = c /\ b.i = p.i
  BY <1>3 DEF IsProc, Fields
<1>6. b.s = [len |-> p.s.len, bbs |-> moved]
  <2>1. b.s = [a.s EXCEPT !.bbs = moved]
    BY <1>3 DEF IsProc, Fields
  <2> DEFINE n == p.s.len
  <2> HIDE DEF n
  <2>2. [[len |-> n, bbs |-> r] EXCEPT !.bbs = moved] = [len |-> n, bbs |-> moved]
    OBVIOUS
  <2> QED
    BY <1>4, <2>1, <2>2 DEF n
<1> HIDE DEF b
<1> DEFINE d == [b EXCEPT !.pc = "split", !.slots = c, !.c = 0]
           e == [b EXCEPT !.pc = "open", !.i = 1]
<1>7. /\ IsProc(d) /\ d.tool = p.tool /\ d.goal = p.goal /\ d.max = p.max /\ d.lost = l /\ d.outs = outs /\ d.tmp = <<>>
      /\ d.pc = "split" /\ d.slots = c /\ d.c = 0 /\ d.i = p.i /\ d.s = b.s
  BY <1>5 DEF IsProc, Fields
<1>8. /\ IsProc(e) /\ e.tool = p.tool /\ e.goal = p.goal /\ e.max = p.max /\ e.lost = l /\ e.outs = outs /\ e.tmp = <<>>
      /\ e.pc = "open" /\ e.slots = p.slots /\ e.c = c /\ e.i = 1 /\ e.s = b.s
  BY <1>5 DEF IsProc, Fields
<1> HIDE DEF d, e
<1>9. proc' = IF m.more THEN a ELSE IF p.pc = "count" THEN d ELSE e
  BY <1>1 DEF d, e
<1>10. CASE m.more
  BY <1>1, <1>3, <1>4, <1>9, <1>10 DEF tmp, outs, l, moved, r, c
<1>11. CASE ~ m.more /\ p.pc = "count"
  BY <1>1, <1>6, <1>7, <1>9, <1>11 DEF tmp, outs, l, moved, r, c
<1>12. CASE ~ m.more /\ p.pc # "count"
  BY <1>1, <1>6, <1>8, <1>9, <1>12 DEF tmp, outs, l, moved, r, c
<1> QED
  BY <1>10, <1>11, <1>12

LEMMA MoveEnds ==
  ASSUME NEW l, NEW max, ~ MoveChunks(l, max).more
  PROVE  MoveChunks(l, max).piece = l /\ MoveChunks(l, max).rest = <<>>
<1> DEFINE overhead == SPARSE_HEADER_LEN + 2 * CHUNK_HEADER_LEN + 4
           len == (max - overhead) % Wrap
           file_len == FileLen(l)
           over == {i \in 1 .. Len(l) : file_len[i] > len}
           j == CHOOSE i \in over : \A k \in over : i <= k
           room == len - (file_len[j-1] + CHUNK_HEADER_LEN)
           cut == IF j = 1 \/ room > len \div 8 THEN SplitBb(l[j], room % Wrap) ELSE <<>>
           a == SubSeq(l, 1, j - 1)
           b == SubSeq(l, j, Len(l))
           c == SubSeq(l, 1, j - 1) \o <<cut[1]>>
           d == Tail(cut) \o SubSeq(l, j + 1, Len(l))
<1>1. MoveChunks(l, max) =
        IF over = {} THEN [piece |-> l, rest |-> <<>>, more |-> FALSE]
        ELSE IF cut = <<>> THEN [piece |-> a, rest |-> b, more |-> TRUE]
        ELSE [piece |-> c, rest |-> d, more |-> TRUE]
  BY DEF MoveChunks
<1> HIDE DEF over, cut, a, b, c, d
<1> QED
  BY <1>1

LEMMA Associative ==
  ASSUME NEW S, NEW a \in Seq(S), NEW b \in Seq(S), NEW c \in Seq(S)
  PROVE  (a \o b) \o c = a \o (b \o c)
<1> DEFINE x == a \o b
           y == b \o c
           v == x \o c
           w == a \o y
           n == Len(a)
           k == Len(b)
           m == Len(c)
<1>1. n \in Nat /\ k \in Nat /\ m \in Nat
  OBVIOUS
<1>2. /\ x \in Seq(S) /\ Len(x) = n + k /\ y \in Seq(S) /\ Len(y) = k + m
  BY Joined
<1>3. \A i \in 1 .. n + k : x[i] = IF i <= n THEN a[i] ELSE b[i - n]
  BY JoinedAt
<1>4. \A i \in 1 .. k + m : y[i] = IF i <= k THEN b[i] ELSE c[i - k]
  BY JoinedAt
<1> HIDE DEF x, y
<1>5. v \in Seq(S) /\ Len(v) = n + k + m /\ w \in Seq(S) /\ Len(w) = n + k + m
  <2>1. v \in Seq(S) /\ Len(v) = Len(x) + Len(c) /\ w \in Seq(S) /\ Len(w) = Len(a) + Len(y)
    BY <1>2, Joined
  <2> QED
    BY <2>1, <1>1, <1>2
<1>6. \A i \in 1 .. (n + k) + m : v[i] = IF i <= n + k THEN x[i] ELSE c[i - (n + k)]
  BY <1>1, <1>2, JoinedAt
<1>7. \A i \in 1 .. n + (k + m) : w[i] = IF i <= n THEN a[i] ELSE y[i - n]
  BY <1>1, <1>2, JoinedAt
<1> HIDE DEF v, w, n, k, m
<1>8. \A i \in 1 .. n + k + m : v[i] = w[i]
  <2> TAKE i \in 1 .. n + k + m
  <2>1. CASE i <= n
    <3>1. i \in 1 .. n + k /\ i <= n + k
      BY <2>1, <1>1
    <3> QED
      BY <2>1, <3>1, <1>1, <1>3, <1>6, <1>7
  <2>2. CASE i > n /\ i <= n + k
    <3> DEFINE q == i - n
    <3>1. i \in 1 .. n + k /\ q \in 1 .. k + m /\ q <= k /\ ~ (i <= n)
      BY <2>2, <1>1
    <3>4. i \in 1 .. (n + k) + m /\ i \in 1 .. n + (k + m)
      BY <1>1
    <3>5. v[i] = x[i]
      BY <2>2, <3>4, <1>6
    <3>6. x[i] = b[q]
      BY <3>1, <1>3
    <3>7. w[i] = y[q]
      BY <3>1, <3>4, <1>7
    <3>2. v[i] = x[i] /\ x[i] = b[q] /\ w[i] = y[q]
      BY <3>5, <3>6, <3>7
    <3> HIDE DEF q
    <3>3. y[q] = b[q]
      BY <3>1, <1>4
    <3> QED
      BY <3>2, <3>3
  <2>3. CASE i > n + k
    <3> DEFINE q == i - n
    <3>1. q \in 1 .. k + m /\ ~ (q <= k) /\ ~ (i <= n) /\ q - k = i - (n + k) /\ ~ (i <= n + k)
      BY <2>3, <1>1
    <3>2. v[i] = c[i - (n + k)] /\ w[i] = y[q]
      BY <3>1, <1>1, <1>6, <1>7
    <3> HIDE DEF q
    <3>3. y[q] = c[q - k]
      BY <3>1, <1>4
    <3> QED
      BY <3>1, <3>2, <3>3
  <2> QED
    BY <2>1, <2>2, <2>3, <1>1
<1>9. v = w
  <2>1. Len(v) = Len(w) /\ \A i \in 1 .. Len(v) : v[i] = w[i]
    BY <1>5, <1>8
  <2> QED
    BY <2>1, <1>5, Equal
<1> QED
  BY <1>9 DEF v, w, x, y

Cat(a, b) == a \o b

LEMMA CatAssociative ==
  ASSUME NEW a \in Seq(Cells), NEW b \in Seq(Cells), NEW c \in Seq(Cells)
  PROVE  Cat(Cat(a, b), c) = Cat(a, Cat(b, c))
<1>1. (a \o b) \o c = a \o (b \o c)
  BY Associative
<1> QED
  BY <1>1 DEF Cat

\* After every cut of the first pass the next one goes on from what it left.
CutsGoOn(T, c, l, max) ==
  \A i \in 1 .. c : \A R \in Seq(Cells) :
    Like(R, l, max - 56) => MoveChunks(T[i - 1] \o R, max).more /\ MoveChunks(T[i - 1] \o R, max).rest = T[i] \o R

NextCuts(T, c, piece) == [i \in 0 .. c + 1 |-> IF i = c + 1 THEN <<>> ELSE T[i] \o piece]

LEMMA CountingIs ==
  ASSUME NEW p
  PROVE  Counting(p) <=> /\ p.slots = 0 /\ Apart(p.tmp \o p.s.bbs)
                         /\ \E T \in [0 .. p.c -> Seq(Cells)] :
                              T[0] = p.tmp /\ T[p.c] = <<>> /\ CutsGoOn(T, p.c, p.s.bbs, p.max)
BY DEF Counting, CutsGoOn

LEMMA FollowsOn ==
  ASSUME NEW c \in Nat, NEW T \in [0 .. c -> Seq(Cells)], T[c] = <<>>, NEW l \in Seq(Cells),
         NEW max, Roomy(max), CutsGoOn(T, c, l, max), MoveChunks(l, max).more,
         NEW piece, piece = MoveChunks(l, max).piece, NEW rest, rest = MoveChunks(l, max).rest
  PROVE  LET U == NextCuts(T, c, piece)
         IN /\ U \in [0 .. c + 1 -> Seq(Cells)] /\ U[0] = Cat(T[0], piece) /\ U[c + 1] = <<>>
            /\ CutsGoOn(U, c + 1, rest, max)
<1> DEFINE e == <<>>
           k == c + 1
           U == [i \in 0 .. k |-> IF i = k THEN e ELSE T[i] \o piece]
<1>1. piece \in Seq(Cells) /\ rest \in Seq(Cells)
  BY PieceFits
<1>2. e \in Seq(Cells) /\ T[c] = e
  OBVIOUS
<1>e. \A s \in Seq(Cells) : e \o s = s
  OBVIOUS
<1> HIDE DEF e
<1>3. k \in Nat /\ k # 0 /\ c \in 0 .. k /\ c # k /\ 0 \in 0 .. k /\ k \in 0 .. k
      /\ \A i \in 0 .. k : i # k => i \in 0 .. c
  OBVIOUS
<1>k. k = c + 1
  OBVIOUS
<1> HIDE DEF k
<1>4. \A i \in 0 .. c : T[i] \o piece \in Seq(Cells)
  <2> TAKE i \in 0 .. c
  <2>1. T[i] \in Seq(Cells)
    OBVIOUS
  <2> DEFINE t == T[i]
  <2> HIDE DEF t
  <2>2. t \o piece \in Seq(Cells)
    BY <1>1, <2>1, Joined DEF t
  <2> QED
    BY <2>2 DEF t
<1>5. U \in [0 .. k -> Seq(Cells)] /\ U[0] = T[0] \o piece /\ U[k] = e
      /\ \A i \in 0 .. c : U[i] = T[i] \o piece
  <2>1. \A i \in 0 .. k : (IF i = k THEN e ELSE T[i] \o piece) \in Seq(Cells)
    BY <1>2, <1>3, <1>4
  <2>2. \A i \in 0 .. c : i \in 0 .. k /\ i # k
    BY <1>3, <1>k
  <2> QED
    BY <1>3, <2>1, <2>2
<1> HIDE DEF U
<1>6. ASSUME NEW i \in 1 .. k, NEW R \in Seq(Cells), Like(R, rest, max - 56)
      PROVE  MoveChunks(U[i - 1] \o R, max).more /\ MoveChunks(U[i - 1] \o R, max).rest = U[i] \o R
  <2> DEFINE q == i - 1
             new == piece \o R
  <2>1. q \in 0 .. c /\ (i # k => i \in 1 .. c /\ i \in 0 .. c)
    BY <1>k
  <2>2. new \in Seq(Cells)
    BY <1>1, Joined
  <2>3. U[q] = T[q] \o piece
    BY <1>5, <2>1
  <2>t. T[q] \in Seq(Cells)
    BY <2>1
  <2> DEFINE t == T[q]
  <2>4. (t \o piece) \o R = t \o new
    <3>1. t \in Seq(Cells)
      BY <2>t
    <3> HIDE DEF t
    <3>2. Cat(Cat(t, piece), R) = Cat(t, Cat(piece, R))
      BY <1>1, <3>1, CatAssociative
    <3> QED
      BY <3>2 DEF Cat
  <2>5. U[q] \o R = t \o new
    BY <2>3, <2>4
  <2>6. CASE i # k
    <3>1. Like(new, l, max - 56)
      BY <1>1, <1>6, StillLike
    <3>2. T[i] \in Seq(Cells)
      BY <2>1, <2>6
    <3> DEFINE u == T[i]
    <3>3. MoveChunks(t \o new, max).more /\ MoveChunks(t \o new, max).rest = u \o new
      BY <2>1, <2>2, <2>6, <3>1 DEF CutsGoOn
    <3>4. U[i] = u \o piece
      BY <1>5, <2>1, <2>6
    <3>5. (u \o piece) \o R = u \o new
      <4>1. u \in Seq(Cells)
        BY <3>2
      <4> HIDE DEF u
      <4>2. Cat(Cat(u, piece), R) = Cat(u, Cat(piece, R))
        BY <1>1, <4>1, CatAssociative
      <4> QED
        BY <4>2 DEF Cat
    <3> HIDE DEF u, t, new, q
    <3>6. MoveChunks(U[q] \o R, max).more /\ MoveChunks(U[q] \o R, max).rest = U[i] \o R
      BY <2>5, <3>3, <3>4, <3>5
    <3> QED
      BY <3>6 DEF q
  <2>7. CASE i = k
    <3>1. q = c /\ t = e
      BY <2>7, <1>2, <1>k
    <3>2. t \o new = new
      BY <1>e, <2>2, <3>1
    <3>3. MoveChunks(new, max).more /\ MoveChunks(new, max).rest = R
      BY <1>6, Stable
    <3>4. U[i] \o R = R
      BY <1>5, <1>e, <2>7
    <3> HIDE DEF t, new, q
    <3>6. MoveChunks(U[q] \o R, max).more /\ MoveChunks(U[q] \o R, max).rest = U[i] \o R
      BY <2>5, <3>2, <3>3, <3>4
    <3> QED
      BY <3>6 DEF q
  <2> QED
    BY <2>6, <2>7
<1>7. CutsGoOn(U, k, rest, max)
  BY <1>6 DEF CutsGoOn
<1> QED
  BY <1>5, <1>7 DEF U, k, e, NextCuts, Cat

LEMMA SplittingIs ==
  ASSUME NEW p, NEW n \in Nat, NEW r \in [0 .. n -> Seq(Cells)], p.tmp = <<>>, p.c + n < p.slots,
         r[0] = p.s.bbs, ~ MoveChunks(r[n], p.max).more,
         \A i \in 1 .. n : MoveChunks(r[i - 1], p.max).more /\ MoveChunks(r[i - 1], p.max).rest = r[i]
  PROVE  Splitting(p)
BY DEF Splitting

\* A turn of the first pass.
LEMMA CountTurn ==
  ASSUME NEW p, p.tmp \in Seq(Cells), p.s.bbs \in Seq(Cells), p.c \in Nat, Roomy(p.max), Counting(p),
         NEW m, m = MoveChunks(p.s.bbs, p.max)
  PROVE  /\ ListMove(m.piece, p.tmp) = p.tmp \o m.piece
         /\ m.more => \A q : (/\ q.slots = 0 /\ q.tmp = p.tmp \o m.piece /\ q.s.bbs = m.rest
                              /\ q.c = p.c + 1 /\ q.max = p.max) => Counting(q)
         /\ ~ m.more => \A q : (/\ q.slots = p.c + 1 /\ q.c = 0 /\ q.tmp = <<>> /\ q.s.bbs = p.tmp \o m.piece
                                /\ q.max = p.max) => Splitting(q)
<1> DEFINE t == p.tmp
           l == p.s.bbs
           c == p.c
           max == p.max
           piece == m.piece
           rest == m.rest
<1>0. t \in Seq(Cells) /\ l \in Seq(Cells) /\ c \in Nat /\ Roomy(max)
  OBVIOUS
<1>1. piece \in Seq(Cells) /\ rest \in Seq(Cells) /\ m.more \in BOOLEAN
  BY PieceFits
<1>2. p.slots = 0 /\ Apart(t \o l)
  BY CountingIs
<1>3. PICK T \in [0 .. c -> Seq(Cells)] : T[0] = t /\ T[c] = <<>> /\ CutsGoOn(T, c, l, max)
  BY CountingIs
<1>4. Apart((t \o piece) \o rest) /\ Apart(t \o piece)
  BY <1>0, <1>2, MoveApart
<1>5. ListMove(piece, t) = t \o piece
  <2> HIDE DEF t, piece
  <2> QED
    BY <1>0, <1>1, <1>4, ListMoveAppends
<1>6. ASSUME m.more, NEW q, q.slots = 0, q.tmp = t \o piece, q.s.bbs = rest, q.c = c + 1, q.max = max
      PROVE  Counting(q)
  <2> DEFINE U == NextCuts(T, c, piece)
  <2>1. /\ U \in [0 .. c + 1 -> Seq(Cells)] /\ U[0] = T[0] \o piece /\ U[c + 1] = <<>>
        /\ CutsGoOn(U, c + 1, rest, max)
    <3>1. piece = MoveChunks(l, max).piece /\ rest = MoveChunks(l, max).rest /\ MoveChunks(l, max).more
      BY <1>6
    <3> HIDE DEF t, l, c, max, piece, rest
    <3>2. T \in [0 .. c -> Seq(Cells)] /\ T[c] = <<>>
      BY <1>3
    <3>3. U \in [0 .. c + 1 -> Seq(Cells)]
      BY <1>0, <1>3, <3>1, <3>2, FollowsOn
    <3>4. U[0] = Cat(T[0], piece) /\ U[c + 1] = <<>>
      <4>1. 0 \in 0 .. c + 1 /\ 0 # c + 1 /\ c + 1 \in 0 .. c + 1
        BY <1>0
      <4> DEFINE k == c + 1
                 x == T[0] \o piece
                 e == <<>>
      <4>2. U = [i \in 0 .. k |-> IF i = k THEN e ELSE T[i] \o piece]
        BY DEF NextCuts
      <4> HIDE DEF k, e
      <4>3. U[0] = x /\ U[k] = e
        BY <4>1, <4>2 DEF k
      <4> QED
        BY <4>3 DEF k, e, Cat
    <3>6. CutsGoOn(U, c + 1, rest, max)
      BY <1>0, <1>3, <3>1, <3>2, FollowsOn
    <3> QED
      BY <3>3, <3>4, <3>6 DEF Cat
  <2> HIDE DEF U, t, l, c, max, piece, rest
  <2>2. /\ U \in [0 .. q.c -> Seq(Cells)] /\ U[0] = q.tmp /\ U[q.c] = <<>>
        /\ CutsGoOn(U, q.c, q.s.bbs, q.max)
    BY <1>3, <1>6, <2>1
  <2>3. q.slots = 0 /\ Apart(q.tmp \o q.s.bbs)
    BY <1>4, <1>6
  <2> QED
    BY <2>2, <2>3, CountingIs
<1>7. ASSUME ~ m.more, NEW q, q.slots = c + 1, q.c = 0, q.tmp = <<>>, q.s.bbs = t \o piece, q.max = max
      PROVE  Splitting(q)
  <2>1. piece = l /\ ~ MoveChunks(l, max).more
    <3> HIDE DEF l, max
    <3>1. ~ MoveChunks(l, max).more
      BY <1>7 DEF l, max
    <3>2. MoveChunks(l, max).piece = l
      BY <3>1, MoveEnds
    <3> QED
      BY <3>1, <3>2 DEF l, max
  <2> DEFINE r == [i \in 0 .. c |-> Cat(T[i], l)]
  <2> HIDE DEF t, l, c, max, piece, rest
  <2>2. r \in [0 .. c -> Seq(Cells)]
    <3>1. \A s \in Seq(Cells) : Cat(s, l) \in Seq(Cells)
      BY <1>0, Joined DEF Cat
    <3> QED
      BY <3>1
  <2>3. 0 \in 0 .. c /\ c \in 0 .. c
    BY <1>0
  <2>4. r[0] = q.s.bbs
    BY <1>3, <1>7, <2>1, <2>3 DEF Cat
  <2>5. r[c] = l
    <3> DEFINE e == <<>>
    <3>1. e \o l = l /\ T[c] = e
      BY <1>0, <1>3
    <3> HIDE DEF e
    <3> QED
      BY <3>1, <2>3 DEF Cat
  <2>6. ~ MoveChunks(r[c], q.max).more
    BY <1>7, <2>1, <2>5
  <2>7. Like(l, l, max - 56)
    BY DEF Like
  <2>8. ASSUME NEW i \in 1 .. c
        PROVE  MoveChunks(r[i - 1], q.max).more /\ MoveChunks(r[i - 1], q.max).rest = r[i]
    <3>1. i - 1 \in 0 .. c /\ i \in 0 .. c
      BY <1>0
    <3>2. r[i - 1] = T[i - 1] \o l /\ r[i] = T[i] \o l
      BY <3>1 DEF Cat
    <3>3. MoveChunks(T[i - 1] \o l, max).more /\ MoveChunks(T[i - 1] \o l, max).rest = T[i] \o l
      BY <1>0, <1>3, <2>7 DEF CutsGoOn
    <3> HIDE DEF r
    <3> QED
      BY <1>7, <3>2, <3>3
  <2> HIDE DEF r
  <2>9. q.c + c < q.slots
    BY <1>0, <1>7
  <2> QED
    BY <1>0, <1>7, <2>2, <2>4, <2>6, <2>8, <2>9, SplittingIs
<1>8. m.more => \A q : (/\ q.slots = 0 /\ q.tmp = t \o piece /\ q.s.bbs = rest
                        /\ q.c = c + 1 /\ q.max = max) => Counting(q)
  BY <1>6
<1>9. ~ m.more => \A q : (/\ q.slots = c + 1 /\ q.c = 0 /\ q.tmp = <<>> /\ q.s.bbs = t \o piece
                          /\ q.max = max) => Splitting(q)
  BY <1>7
<1> QED
  BY <1>5, <1>8, <1>9

\* A turn of the second pass.
LEMMA SplitTurn ==
  ASSUME NEW p, p.s.bbs \in Seq(Cells), p.c \in Nat, p.slots \in Nat, Roomy(p.max), Splitting(p),
         NEW m, m = MoveChunks(p.s.bbs, p.max)
  PROVE  /\ p.c + 1 <= p.slots
         /\ m.more => \A q : (/\ q.slots = p.slots /\ q.c = p.c + 1 /\ q.tmp = <<>> /\ q.s.bbs = m.rest
                              /\ q.max = p.max) => Splitting(q)
<1>1. PICK n \in Nat : /\ p.c + n < p.slots
                       /\ \E r \in [0 .. n -> Seq(Cells)] :
                            /\ r[0] = p.s.bbs /\ ~ MoveChunks(r[n], p.max).more
                            /\ \A i \in 1 .. n : MoveChunks(r[i - 1], p.max).more
                                                 /\ MoveChunks(r[i - 1], p.max).rest = r[i]
  BY DEF Splitting
<1>2. PICK r \in [0 .. n -> Seq(Cells)] :
         /\ r[0] = p.s.bbs /\ ~ MoveChunks(r[n], p.max).more
         /\ \A i \in 1 .. n : MoveChunks(r[i - 1], p.max).more /\ MoveChunks(r[i - 1], p.max).rest = r[i]
  BY <1>1
<1> DEFINE c == p.c
           slots == p.slots
<1>3. c \in Nat /\ slots \in Nat /\ n \in Nat /\ c + n < slots
  BY <1>1
<1> HIDE DEF c, slots
<1>4. c + 1 <= slots
  BY <1>3
<1>5. ASSUME m.more, NEW q, q.slots = slots, q.c = c + 1, q.tmp = <<>>, q.s.bbs = m.rest, q.max = p.max
      PROVE  Splitting(q)
  <2>1. n # 0
    BY <1>2, <1>5
  <2> DEFINE k == n - 1
             u == [i \in 0 .. k |-> r[i + 1]]
  <2>2. k \in Nat /\ n = k + 1 /\ \A i \in 0 .. k : i + 1 \in 0 .. n /\ i + 1 \in 1 .. n /\ (i + 1) - 1 = i
    BY <2>1
  <2>3. 0 \in 0 .. k /\ k \in 0 .. k /\ 0 + 1 = 1
    BY <2>2
  <2> HIDE DEF k
  <2>4. u \in [0 .. k -> Seq(Cells)] /\ \A i \in 0 .. k : u[i] = r[i + 1]
    BY <2>2
  <2>5. u[k] = r[n] /\ u[0] = r[1]
    BY <2>2, <2>3
  <2>6. 1 \in 1 .. n /\ 1 - 1 = 0
    BY <2>1
  <2>7. r[1] = m.rest
    <3>1. MoveChunks(r[1 - 1], p.max).rest = r[1]
      BY <1>2, <2>6
    <3> QED
      BY <1>2, <2>6, <3>1
  <2> HIDE DEF u
  <2>8. ASSUME NEW i \in 1 .. k
        PROVE  MoveChunks(u[i - 1], q.max).more /\ MoveChunks(u[i - 1], q.max).rest = u[i]
    <3> DEFINE j == i - 1
    <3>1. j \in 0 .. k /\ j + 1 = i /\ i \in 0 .. k /\ i + 1 \in 1 .. n /\ (i + 1) - 1 = i
      BY <2>2
    <3> HIDE DEF j
    <3>2. u[j] = r[i] /\ u[i] = r[i + 1]
      BY <2>4, <3>1
    <3>3. MoveChunks(r[(i + 1) - 1], p.max).more /\ MoveChunks(r[(i + 1) - 1], p.max).rest = r[i + 1]
      BY <1>2, <3>1
    <3>4. MoveChunks(u[j], q.max).more /\ MoveChunks(u[j], q.max).rest = u[i]
      BY <1>5, <3>1, <3>2, <3>3
    <3> QED
      BY <3>4 DEF j
  <2>9. q.c + k < q.slots
    BY <1>3, <1>5, <2>2
  <2>10. u[0] = q.s.bbs /\ ~ MoveChunks(u[k], q.max).more
    BY <1>2, <1>5, <2>5, <2>7
  <2> QED
    BY <1>5, <2>2, <2>4, <2>8, <2>9, <2>10, SplittingIs
<1> QED
  BY <1>4, <1>5 DEF c, slots

LEMMA TurnTyped ==
  ASSUME NEW p, proc = p, IsProc(p), CutType(p), NEW m, m.piece \in Seq(Cells), m.rest \in Seq(Cells),
         m.more \in BOOLEAN, Fits(m.piece, p.max), NEW lost \in BOOLEAN, Turn(m, lost)
  PROVE  CutType(proc')
<1> DEFINE q == proc'
           tmp == IF p.c < p.slots THEN p.tmp ELSE ListMove(m.piece, p.tmp)
           l == IF m.more THEN m.rest ELSE ListMove(tmp, m.rest)
           outs == IF p.c < p.slots THEN Append(p.outs, m.piece) ELSE p.outs
<1>1. /\ q.tool = p.tool /\ q.max = p.max /\ q.lost = (p.lost \/ lost) /\ p.c + 1 <= Len(PieceNames)
      /\ q.outs = outs /\ q.s = [len |-> p.s.len, bbs |-> l]
      /\ q.tmp = (IF m.more THEN tmp ELSE <<>>)
      /\ q.slots = (IF ~ m.more /\ p.pc = "count" THEN p.c + 1 ELSE p.slots)
      /\ q.c = (IF ~ m.more /\ p.pc = "count" THEN 0 ELSE p.c + 1)
  BY TurnIs
<1>2. /\ p.s.len \in Nat /\ p.max \in MaxSizes /\ p.lost \in BOOLEAN /\ p.slots \in Nat /\ p.tmp \in Seq(Cells)
      /\ p.c \in Nat /\ p.outs \in Seq(Seq(Cells)) /\ \A k \in 1 .. Len(p.outs) : Fits(p.outs[k], p.max)
  BY DEF CutType
<1>3. tmp \in Seq(Cells)
  BY <1>2, ListMoveIs
<1> HIDE DEF tmp
<1>4. l \in Seq(Cells)
  BY <1>3, ListMoveIs
<1> HIDE DEF l
<1>5. outs \in Seq(Seq(Cells)) /\ \A k \in 1 .. Len(outs) : Fits(outs[k], p.max)
  <2>1. CASE p.c < p.slots
    <3> DEFINE o == p.outs
               x == m.piece
               S == Seq(Cells)
    <3>1. o \in Seq(S) /\ x \in S /\ Fits(x, p.max) /\ \A k \in 1 .. Len(o) : Fits(o[k], p.max)
      BY <1>2
    <3> HIDE DEF o, x, S
    <3>2. /\ Append(o, x) \in Seq(S) /\ Len(Append(o, x)) = Len(o) + 1 /\ Append(o, x)[Len(o) + 1] = x
          /\ \A k \in 1 .. Len(o) : Append(o, x)[k] = o[k]
      BY <3>1
    <3>3. Len(o) \in Nat
      BY <3>1
    <3> DEFINE a == Append(o, x)
    <3>4. outs = a
      BY <2>1 DEF o, x
    <3> HIDE DEF a, outs
    <3>5. \A k \in 1 .. Len(a) : k \in 1 .. Len(o) \/ k = Len(o) + 1
      BY <3>2, <3>3 DEF a
    <3>6. \A k \in 1 .. Len(a) : Fits(a[k], p.max)
      BY <3>1, <3>2, <3>5 DEF a
    <3> QED
      BY <3>2, <3>4, <3>6 DEF a, S
  <2>2. CASE ~ (p.c < p.slots)
    BY <1>2, <2>2
  <2> QED
    BY <2>1, <2>2
<1> HIDE DEF outs, q
<1>6. q.tmp \in Seq(Cells)
  <2>1. <<>> \in Seq(Cells)
    OBVIOUS
  <2> QED
    BY <1>1, <1>3, <2>1
<1>7. q.s = [len |-> q.s.len, bbs |-> q.s.bbs] /\ q.s.len \in Nat /\ q.s.bbs \in Seq(Cells)
  BY <1>1, <1>2, <1>4
<1>8. q.c \in Nat /\ q.slots \in Nat /\ q.c <= Len(PieceNames)
  <2>1. Len(PieceNames) \in Nat
    BY PieceNameIs
  <2>2. q.slots \in {p.c + 1, p.slots} /\ q.c \in {0, p.c + 1} /\ p.c + 1 <= Len(PieceNames)
    BY <1>1
  <2> QED
    BY <1>2, <2>1, <2>2
<1>9. q.lost \in BOOLEAN
  BY <1>1, <1>2
<1>10. q.outs \in Seq(Seq(Cells)) /\ (\A k \in 1 .. Len(q.outs) : Fits(q.outs[k], q.max)) /\ q.max \in MaxSizes
  BY <1>1, <1>2, <1>5
<1>11. CutType(q)
  BY <1>6, <1>7, <1>8, <1>9, <1>10 DEF CutType
<1> QED
  BY <1>11 DEF q

LEMMA TurnOK ==
  ASSUME NEW p, proc = p, IsProc(p), Cutting(p, files), p.pc \in {"count", "split"},
         NEW m, m.piece \in Seq(Cells), m.rest \in Seq(Cells),
         m.more \in BOOLEAN, Fits(m.piece, p.max), NEW lost \in BOOLEAN,
         lost \/ m = MoveChunks(p.s.bbs, p.max), Turn(m, lost)
  PROVE  IsProc(proc') /\ Cutting(proc', files')
<1> DEFINE q == proc'
           tmp == IF p.c < p.slots THEN p.tmp ELSE ListMove(m.piece, p.tmp)
           l == IF m.more THEN m.rest ELSE ListMove(tmp, m.rest)
<1>1. CutType(p) /\ p.tool = "simg2simg" /\ p.i = 1
      /\ (p.lost \/ (p.pc = "count" /\ Counting(p)) \/ (p.pc = "split" /\ Splitting(p)))
  BY DEF Cutting
<1>2. CutType(q)
  BY <1>1, TurnTyped
<1>3. /\ IsProc(q) /\ q.tool = p.tool /\ q.max = p.max /\ q.lost = (p.lost \/ lost)
      /\ q.s = [len |-> p.s.len, bbs |-> l]
      /\ q.tmp = (IF m.more THEN tmp ELSE <<>>)
      /\ q.pc = (IF m.more THEN p.pc ELSE IF p.pc = "count" THEN "split" ELSE "open")
      /\ q.slots = (IF ~ m.more /\ p.pc = "count" THEN p.c + 1 ELSE p.slots)
      /\ q.c = (IF ~ m.more /\ p.pc = "count" THEN 0 ELSE p.c + 1)
      /\ q.i = (IF m.more \/ p.pc = "count" THEN p.i ELSE 1)
  BY <1>1, TurnIs
<1>4. /\ p.s.bbs \in Seq(Cells) /\ p.tmp \in Seq(Cells) /\ p.c \in Nat /\ p.slots \in Nat /\ p.max \in MaxSizes
      /\ p.lost \in BOOLEAN
  BY <1>1 DEF CutType
<1>5. Roomy(p.max)
  BY <1>4, SizesAssumption DEF Roomy
<1>6. q.tool = "simg2simg" /\ q.i = 1 /\ q.s.bbs = l /\ WrittenUpTo(q.i - 1, q, files')
  <2>1. q.i = 1 /\ q.s.bbs = l /\ q.tool = "simg2simg"
    BY <1>1, <1>3
  <2> HIDE DEF q
  <2>2. WrittenUpTo(q.i - 1, q, files')
    <3>1. 1 .. q.i - 1 = {}
      BY <2>1
    <3> QED
      BY <3>1 DEF WrittenUpTo
  <2> QED
    BY <2>1, <2>2
<1>7. ASSUME q.lost \/ /\ q.pc = "count" => Counting(q)
                       /\ q.pc = "split" => Splitting(q)
                       /\ q.pc = "open" => q.c <= q.slots
      PROVE  Cutting(q, files')
  <2>1. q.pc \in {"count", "split", "open"}
    BY <1>3
  <2>2. q.i - 1 <= q.c /\ q.i \in Nat \ {0}
    <3>1. q.c \in Nat
      BY <1>2 DEF CutType
    <3> QED
      BY <1>6, <3>1
  <2> HIDE DEF q
  <2> QED
    BY <1>2, <1>6, <1>7, <2>1, <2>2 DEF Cutting
<1>8. CASE q.lost
  BY <1>3, <1>7, <1>8
<1>9. CASE ~ q.lost
  <2>1. ~ p.lost /\ ~ lost
    BY <1>3, <1>9
  <2>2. m = MoveChunks(p.s.bbs, p.max)
    BY <2>1
  <2>3. CASE p.pc = "count"
    <3>1. Counting(p)
      BY <1>1, <2>1, <2>3
    <3>2. /\ ListMove(m.piece, p.tmp) = p.tmp \o m.piece
          /\ m.more => \A x : (/\ x.slots = 0 /\ x.tmp = p.tmp \o m.piece /\ x.s.bbs = m.rest
                               /\ x.c = p.c + 1 /\ x.max = p.max) => Counting(x)
          /\ ~ m.more => \A x : (/\ x.slots = p.c + 1 /\ x.c = 0 /\ x.tmp = <<>> /\ x.s.bbs = p.tmp \o m.piece
                                 /\ x.max = p.max) => Splitting(x)
      BY <1>4, <1>5, <2>2, <3>1, CountTurn
    <3>3. p.slots = 0
      BY <3>1, CountingIs
    <3>4. tmp = p.tmp \o m.piece
      <4> DEFINE x == ListMove(m.piece, p.tmp)
                 y == p.tmp \o m.piece
      <4>1. x = y
        BY <3>2
      <4>2. ~ (p.c < p.slots)
        BY <1>4, <3>3
      <4>3. tmp = x
        BY <4>2
      <4> HIDE DEF tmp, x, y
      <4>4. tmp = y
        BY <4>1, <4>3
      <4> QED
        BY <4>4 DEF y
    <3>5. CASE m.more
      <4>1. q.slots = 0 /\ q.tmp = tmp /\ q.s.bbs = m.rest /\ q.c = p.c + 1 /\ q.max = p.max /\ q.pc = "count"
        BY <1>3, <1>6, <2>3, <3>3, <3>5
      <4> HIDE DEF q, tmp
      <4>2. Counting(q)
        BY <3>2, <3>4, <3>5, <4>1
      <4> QED
        BY <1>3, <1>7, <4>1, <4>2 DEF q
    <3>6. CASE ~ m.more
      <4>1. m.rest = <<>>
        BY <2>2, <3>6, MoveEnds
      <4>2. tmp \in Seq(Cells)
        BY <1>4, ListMoveIs
      <4>3. l = tmp
        <5> HIDE DEF tmp
        <5> QED
          BY <3>6, <4>1, <4>2, ListMoveIs
      <4>4. /\ q.slots = p.c + 1 /\ q.tmp = <<>> /\ q.s.bbs = tmp /\ q.c = 0 /\ q.max = p.max
            /\ q.pc = "split"
        BY <1>3, <1>6, <2>3, <3>6, <4>3
      <4> HIDE DEF q, tmp
      <4>5. Splitting(q)
        BY <3>2, <3>4, <3>6, <4>4
      <4> QED
        BY <1>3, <1>7, <4>4, <4>5 DEF q
    <3> QED
      BY <3>5, <3>6
  <2>4. CASE p.pc = "split"
    <3>1. Splitting(p)
      BY <1>1, <2>1, <2>4
    <3>2. /\ p.c + 1 <= p.slots
          /\ m.more => \A x : (/\ x.slots = p.slots /\ x.c = p.c + 1 /\ x.tmp = <<>> /\ x.s.bbs = m.rest
                               /\ x.max = p.max) => Splitting(x)
      BY <1>4, <1>5, <2>2, <3>1, SplitTurn
    <3>3. p.c < p.slots /\ p.tmp = <<>>
      BY <1>4, <3>1, <3>2 DEF Splitting
    <3>4. tmp = <<>>
      BY <3>3
    <3>5. CASE m.more
      <4>1. /\ q.slots = p.slots /\ q.tmp = <<>> /\ q.s.bbs = m.rest /\ q.c = p.c + 1 /\ q.max = p.max
            /\ q.pc = "split"
        BY <1>3, <1>6, <2>4, <3>4, <3>5
      <4> HIDE DEF q
      <4>2. Splitting(q)
        BY <3>2, <3>5, <4>1
      <4> QED
        BY <1>3, <1>7, <4>1, <4>2 DEF q
    <3>6. CASE ~ m.more
      <4>1. q.slots = p.slots /\ q.c = p.c + 1 /\ q.pc = "open"
        BY <1>3, <2>4, <3>6
      <4> HIDE DEF q
      <4> QED
        BY <1>3, <1>7, <3>2, <4>1 DEF q
    <3> QED
      BY <3>5, <3>6
  <2> QED
    BY <2>3, <2>4
<1> QED
  BY <1>8, <1>9

LEMMA Resparses ==
  ASSUME PiecesInv, Resparse \/ ResparseFails
  PROVE  PiecesInv'
<1> DEFINE p == proc
           l == p.s.bbs
<1>1. FilesOK(files) /\ ProcOK(p, files) /\ p.pc \in {"count", "split"} /\ files' = files
  BY DEF PiecesInv, Resparse, ResparseFails
<1>2. IsProc(p) /\ Cutting(p, files)
  BY <1>1 DEF ProcOK, Streaming, Restoring
<1>3. l \in Seq(Cells) /\ p.max \in MaxSizes /\ p.max \in Nat /\ Roomy(p.max)
  BY <1>2, SizesAssumption DEF Cutting, CutType, Roomy
<1>4. ASSUME NEW m, m.piece \in Seq(Cells), m.rest \in Seq(Cells),
             m.more \in BOOLEAN, Fits(m.piece, p.max), NEW lost \in BOOLEAN,
             lost \/ m = MoveChunks(p.s.bbs, p.max), Turn(m, lost)
      PROVE  PiecesInv'
  <2>1. p = proc
    OBVIOUS
  <2> HIDE DEF p
  <2>2. IsProc(proc') /\ Cutting(proc', files')
    BY <1>1, <1>2, <1>4, <2>1, TurnOK
  <2>3. ProcOK(proc', files') /\ FilesOK(files')
    BY <1>1, <2>2 DEF ProcOK
  <2> QED
    BY <2>3, GoesOn
<1>5. CASE Resparse
  <2> DEFINE m == MoveChunks(l, p.max)
             no == FALSE
  <2>1. Turn(m, no)
    BY <1>5 DEF Resparse
  <2> HIDE DEF p, l
  <2>2. /\ m.piece \in Seq(Cells) /\ m.rest \in Seq(Cells) /\ m.more \in BOOLEAN
        /\ FileLen(m.piece)[Len(m.piece)] <= p.max - 56 + 12
    BY <1>3, PieceFits
  <2> HIDE DEF m
  <2>3. Fits(m.piece, p.max)
    <3>1. FileLen(m.piece) \in [0 .. Len(m.piece) -> Nat] /\ Len(m.piece) \in Nat
      BY <2>2, FileLenIs
    <3>2. FileLen(m.piece)[Len(m.piece)] \in Nat
      BY <3>1
    <3> DEFINE x == FileLen(m.piece)[Len(m.piece)]
    <3> HIDE DEF x
    <3>3. x <= p.max - 44
      BY <1>3, <2>2, <3>2 DEF x
    <3> QED
      BY <2>2, <3>3 DEF Fits, x
  <2>4. m = MoveChunks(p.s.bbs, p.max)
    BY DEF m, l
  <2>5. no \in BOOLEAN
    OBVIOUS
  <2> HIDE DEF no
  <2> QED
    BY <1>4, <2>1, <2>2, <2>3, <2>4, <2>5
<1>6. CASE ResparseFails
  <2> DEFINE e == <<>>
             m == [piece |-> e, rest |-> l, more |-> FALSE]
             yes == TRUE
  <2>1. Turn(m, yes)
    BY <1>6 DEF ResparseFails
  <2>2. e \in Seq(Cells) /\ Len(e) = 0
    OBVIOUS
  <2> HIDE DEF p, l, e
  <2>3. m.piece = e /\ m.rest = l /\ m.more = FALSE
    OBVIOUS
  <2> HIDE DEF m
  <2>4. Fits(e, p.max)
    <3>1. FileLen(e)[0] = 0
      BY <2>2, FileLenIs
    <3>2. 0 <= p.max - 44
      BY <1>3, Blocks DEF Roomy
    <3> QED
      BY <2>2, <3>1, <3>2 DEF Fits
  <2>5. yes \in BOOLEAN /\ yes
    OBVIOUS
  <2>6. m.more \in BOOLEAN
    BY <2>3
  <2>7. Fits(m.piece, p.max) /\ m.piece \in Seq(Cells) /\ m.rest \in Seq(Cells)
    BY <1>3, <2>2, <2>3, <2>4
  <2> HIDE DEF yes
  <2> QED
    BY <1>4, <2>1, <2>5, <2>6, <2>7
<1> QED
  BY <1>5, <1>6
-----------------------------------------------------------------------------
(***************************************************************************)
(* The theorem                                                             *)
(***************************************************************************)
LEMMA PiecesInvFirst == Init => PiecesInv
<1> SUFFICES ASSUME Init PROVE PiecesInv
  OBVIOUS
<1>1. PICK first \in FirstFiles : files = [n \in Names |-> IF n \in DOMAIN first THEN first[n] ELSE NoFile]
  BY DEF Init
<1>2. /\ DOMAIN first = {"raw", "input", "simg"} /\ first["raw"] \in RawImages /\ first["input"] \in RawImages
      /\ first["simg"] \in {NoFile} \union RawImages \union SparseFiles
  BY FilesAssumption
<1>3. {"raw", "input", "simg", Tmp} \subseteq Names /\ Tmp \notin {"raw", "input", "simg"}
  BY DEF Names, Tmp
<1>4. /\ files["raw"] = first["raw"] /\ files["input"] = first["input"] /\ files["simg"] = first["simg"]
      /\ files[Tmp] = NoFile
  BY <1>1, <1>2, <1>3
<1>5. FilesOK(files)
  <2>1. DOMAIN files = Names /\ files = [n \in Names |-> files[n]]
    BY <1>1
  <2> QED
    BY <1>2, <1>4, <2>1 DEF FilesOK
<1>6. ~ Running
  BY DEF Init, Running
<1> QED
  BY <1>5, <1>6 DEF PiecesInv

LEMMA PiecesInvNext == PiecesInv /\ Small' /\ [Next]_vars => PiecesInv'
<1> SUFFICES ASSUME PiecesInv, Small', [Next]_vars PROVE PiecesInv'
  OBVIOUS
<1>1. CASE Next
  <2>1. CASE WriteChunk \/ WriteRefused \/ WriteFails
    BY <2>1, Writes
  <2>2. CASE CloseOutput
    BY <2>2, Closes
  <2>3. CASE Sigbus \/ Kill \/ Img2simgExit \/ Simg2simgExit \/ Simg2imgExit
    BY <2>3, Stops
  <2>4. CASE Rename
    BY <2>4, Renames
  <2>5. CASE Simg2imgOfSimg \/ Simg2imgOfPieces
    BY <2>5, Restores
  <2>6. CASE ImportInput
    BY <2>6, Imports
  <2>7. CASE Img2simg
    BY <2>7, Reads
  <2>8. CASE Append2simg
    BY <2>8, Appends
  <2>9. CASE \E max \in MaxSizes : Simg2simg(max)
    BY <2>9, Cuts
  <2>10. CASE BadPiece
    BY <2>10, SpoilsPiece
  <2>11. CASE OpenPiece
    BY <2>11, OpensPiece
  <2>12. CASE Resparse \/ ResparseFails
    BY <2>12, Resparses
  <2> QED
    BY <1>1, <2>1, <2>2, <2>3, <2>4, <2>5, <2>6, <2>7, <2>8, <2>9, <2>10, <2>11, <2>12 DEF Next, Step
<1>2. CASE UNCHANGED vars
  BY <1>2 DEF vars, PiecesInv, Running
<1> QED
  BY <1>1, <1>2

LEMMA PiecesInvSound == PiecesInv => PiecesSound
<1> SUFFICES ASSUME PiecesInv PROVE PiecesSound
  OBVIOUS
<1>1. ASSUME Running, proc.pc = "open"
      PROVE  /\ \A i \in 1 .. proc.i - 1 : FileSize(files[PieceNames[i]].items) <= proc.max
             /\ ~ proc.lost => proc.c <= proc.slots
  <2>1. Cutting(proc, files)
    BY <1>1 DEF PiecesInv, ProcOK, Streaming, Restoring
  <2> QED
    BY <1>1, <2>1 DEF Cutting, WrittenUpTo
<1> QED
  BY <1>1 DEF PiecesSound, PiecesFit, PiecesInArray

\* As long as no image is 4 GiB or longer, every piece that simg2simg has
\* written is no longer than max_size, and the second resparse makes no more
\* pieces than the first one counted.
THEOREM PiecesAreSound == Spec /\ []Small => []PiecesSound
<1>1. Init => PiecesInv
  BY PiecesInvFirst
<1>2. PiecesInv /\ Small' /\ [Next]_vars => PiecesInv'
  BY PiecesInvNext
<1>3. PiecesInv => PiecesSound
  BY PiecesInvSound
<1> QED
  BY <1>1, <1>2, <1>3, PTL DEF Spec

-----------------------------------------------------------------------------
(***************************************************************************)
(* What is in an image.  Block i of a list is v if a cell has it there.    *)
(***************************************************************************)

LEMMA ImageIs ==
  ASSUME NEW s
  PROVE  Image(s) = [i \in 1 .. DivRoundUp(s.len) |-> Value(s.bbs, i)]
BY DEF Image, Value, At

LEMMA DataIs ==
  ASSUME NEW c \in Cells
  PROVE  /\ c.data \in Seq(Contents) /\ Len(c.data) = DivRoundUp(c.len) /\ Len(c.data) \in Nat
         /\ DOMAIN c.data = 1 .. Len(c.data) /\ EndOf(c) = c.block + Len(c.data) /\ c.block \in Nat
BY DEF Cells, EndOf

\* Cells that are apart do not share a block.
LEMMA AtOne ==
  ASSUME NEW l \in Seq(Cells), Apart(l), NEW i \in Nat, NEW n \in 1 .. Len(l), NEW m \in 1 .. Len(l),
         i - l[n].block \in 1 .. Len(l[n].data), i - l[m].block \in 1 .. Len(l[m].data)
  PROVE  n = m
<1>1. ASSUME NEW j \in 1 .. Len(l), NEW k \in 1 .. Len(l), j < k,
             i - l[j].block \in 1 .. Len(l[j].data), i - l[k].block \in 1 .. Len(l[k].data)
      PROVE  FALSE
  <2> DEFINE q == j + 1
  <2>1. j \in 1 .. Len(l) - 1 /\ q \in 1 .. Len(l) /\ q <= k
    BY <1>1
  <2>2. EndOf(l[j]) <= l[q].block
    BY <2>1 DEF Apart
  <2> HIDE DEF q
  <2>3. l[q].block <= l[k].block
    BY <2>1, ApartIsSorted
  <2>4. /\ l[j] \in Cells /\ l[k] \in Cells /\ l[q] \in Cells
    BY <2>1
  <2> DEFINE a == l[j].block
             b == Len(l[j].data)
             c == l[q].block
             d == l[k].block
  <2>5. a \in Nat /\ b \in Nat /\ EndOf(l[j]) = a + b /\ c \in Nat /\ d \in Nat
    BY <2>4, DataIs
  <2>6. i - a <= b /\ i - d >= 1
    BY <1>1, <2>5
  <2> HIDE DEF a, b, c, d
  <2>7. a + b <= c /\ c <= d
    BY <2>2, <2>3, <2>5 DEF c, d
  <2> QED
    BY <2>5, <2>6, <2>7
<1>2. ~ (n < m) /\ ~ (m < n)
  BY <1>1
<1> QED
  BY <1>2

LEMMA ValueIs ==
  ASSUME NEW l \in Seq(Cells), Apart(l), NEW i \in Nat
  PROVE  /\ \A v : Has(l, i, v) => Value(l, i) = v /\ v \in Contents
         /\ (\A v \in Contents : ~ Has(l, i, v)) => Value(l, i) = Zero
<1>1. \A n \in 1 .. Len(l) : l[n] \in Cells /\ DOMAIN l[n].data = 1 .. Len(l[n].data)
  BY DataIs
<1>2. DOMAIN l = 1 .. Len(l)
  OBVIOUS
<1>3. ASSUME NEW v, Has(l, i, v)
      PROVE  Value(l, i) = v /\ v \in Contents
  <2>1. PICK n \in 1 .. Len(l) : i - l[n].block \in 1 .. Len(l[n].data) /\ l[n].data[i - l[n].block] = v
    BY <1>3 DEF Has
  <2>2. At(l, i) = {n}
    <3>1. \A m \in 1 .. Len(l) : i - l[m].block \in 1 .. Len(l[m].data) => m = n
      BY <2>1, AtOne
    <3> QED
      BY <3>1, <2>1, <1>1, <1>2 DEF At
  <2>3. Max(At(l, i)) = n
    <3>1. n \in Nat
      OBVIOUS
    <3> QED
      BY <2>2, <3>1 DEF Max
  <2>4. Value(l, i) = v
    BY <2>1, <2>2, <2>3 DEF Value
  <2>5. l[n].data \in Seq(Contents)
    BY <1>1, DataIs
  <2> QED
    BY <2>1, <2>4, <2>5
<1>4. ASSUME \A v \in Contents : ~ Has(l, i, v)
      PROVE  Value(l, i) = Zero
  <2>1. ASSUME NEW n \in At(l, i)
        PROVE  FALSE
    <3>1. n \in 1 .. Len(l) /\ i - l[n].block \in 1 .. Len(l[n].data)
      BY <2>1, <1>1, <1>2 DEF At
    <3>2. l[n].data \in Seq(Contents)
      BY <3>1, <1>1, DataIs
    <3>3. l[n].data[i - l[n].block] \in Contents
      BY <3>1, <3>2
    <3> QED
      BY <1>4, <3>1, <3>3 DEF Has
  <2> QED
    BY <2>1 DEF Value
<1> QED
  BY <1>3, <1>4

LEMMA SameImage ==
  ASSUME NEW l \in Seq(Cells), Apart(l), NEW m \in Seq(Cells), Apart(m), SameBlocks(l, m), NEW len \in Nat
  PROVE  /\ \A i \in Nat : Value(l, i) = Value(m, i)
         /\ Image([len |-> len, bbs |-> l]) = Image([len |-> len, bbs |-> m])
<1>1. ASSUME NEW i \in Nat
      PROVE  Value(l, i) = Value(m, i)
  <2>1. CASE \E v \in Contents : Has(l, i, v)
    BY <2>1, ValueIs DEF SameBlocks
  <2>2. CASE \A v \in Contents : ~ Has(l, i, v)
    BY <2>2, ValueIs DEF SameBlocks
  <2> QED
    BY <2>1, <2>2
<1>2. DivRoundUp(len) \in Nat
  BY RoundUp
<1> DEFINE N == DivRoundUp(len)
<1>3. /\ Image([len |-> len, bbs |-> l]) = [i \in 1 .. N |-> Value(l, i)]
      /\ Image([len |-> len, bbs |-> m]) = [i \in 1 .. N |-> Value(m, i)]
  BY ImageIs
<1>4. \A i \in 1 .. N : Value(l, i) = Value(m, i)
  BY <1>1, <1>2
<1> HIDE DEF N
<1>5. [i \in 1 .. N |-> Value(l, i)] = [i \in 1 .. N |-> Value(m, i)]
  BY <1>4
<1> QED
  BY <1>1, <1>3, <1>5

\* The parts of a cell have its blocks.
LEMMA ReplacedSame ==
  ASSUME NEW old \in Seq(Cells), NEW new, NEW p, NEW x \in Cells, NEW y \in Cells, NEW room \in Nat,
         Replaced(old, new, p, x, y), IsSplit(old[p], room, x, y), old[p].len > AlignDown(room)
  PROVE  SameBlocks(old, new)
<1> DEFINE c == old[p]
           k == room \div BlockSize
           d == c.data
           a == c.block
<1>0. /\ p \in 1 .. Len(old) /\ new \in Seq(Cells) /\ Len(new) = Len(old) + 1 /\ c \in Cells
      /\ (\A i \in 1 .. p - 1 : new[i] = old[i]) /\ new[p] = x /\ new[p + 1] = y
      /\ \A i \in p + 1 .. Len(old) : new[i + 1] = old[i]
  BY DEF Replaced
<1>1. /\ x.block = a /\ x.data = SubSeq(d, 1, k) /\ x.len = AlignDown(room)
      /\ y.block = a + k /\ y.data = SubSeq(d, k + 1, Len(d))
  BY DEF IsSplit
<1>2. k \in Nat /\ DivRoundUp(AlignDown(room)) = k /\ AlignDown(room) = BlockSize * k
  BY RoundDown
<1>3. a \in Nat /\ d \in Seq(Contents) /\ Len(d) \in Nat /\ Len(d) = DivRoundUp(c.len) /\ c.len \in Nat
  BY <1>0, DataIs DEF Cells
<1>4. k <= Len(d)
  <2> DEFINE n == c.len
             e == Len(d)
  <2>1. n \in Nat /\ e \in Nat /\ n <= BlockSize * e /\ n > BlockSize * k
    BY <1>2, <1>3, RoundUp
  <2> HIDE DEF n, e, k
  <2>2. CASE k > e
    <3>1. PICK r \in Nat : k = e + r
      <4>1. k - e \in Nat /\ k = e + (k - e)
        BY <2>1, <2>2, <1>2
      <4> QED
        BY <4>1
    <3>2. BlockSize * k = BlockSize * e + BlockSize * r /\ BlockSize * r \in Nat /\ BlockSize * e \in Nat
      BY <2>1, <3>1, Blocks
    <3> QED
      BY <2>1, <3>2
  <2> QED
    BY <2>1, <2>2, <1>2 DEF e
<1> HIDE DEF k, d, a
<1>5. /\ Len(x.data) = k /\ \A i \in 1 .. k : x.data[i] = d[i]
      /\ Len(y.data) = Len(d) - k /\ \A i \in 1 .. Len(d) - k : y.data[i] = d[k + i]
  <2>1. Len(SubSeq(d, 1, k)) = k /\ \A i \in 1 .. k : SubSeq(d, 1, k)[i] = d[i]
    BY <1>2, <1>3, <1>4
  <2>2. /\ Len(SubSeq(d, k + 1, Len(d))) = Len(d) - k
        /\ \A i \in 1 .. Len(d) - k : SubSeq(d, k + 1, Len(d))[i] = d[k + i]
    BY <1>2, <1>3, <1>4
  <2> QED
    BY <1>1, <2>1, <2>2
<1>6. ASSUME NEW i \in Nat, NEW v \in Contents, Has(old, i, v)
      PROVE  Has(new, i, v)
  <2>1. PICK n \in 1 .. Len(old) : i - old[n].block \in 1 .. Len(old[n].data) /\ old[n].data[i - old[n].block] = v
    BY <1>6 DEF Has
  <2>2. CASE n < p
    <3>1. new[n] = old[n] /\ n \in 1 .. Len(new)
      BY <2>2, <1>0
    <3> QED
      BY <2>1, <3>1 DEF Has
  <2>3. CASE n > p
    <3> DEFINE q == n + 1
    <3>1. q \in 1 .. Len(new) /\ new[q] = old[n]
      BY <2>3, <1>0
    <3> HIDE DEF q
    <3> QED
      BY <2>1, <3>1 DEF Has
  <2>4. CASE n = p
    <3> DEFINE j == i - a
    <3>1. j \in 1 .. Len(d) /\ d[j] = v
      BY <2>1, <2>4 DEF a, d
    <3>2. CASE j <= k
      <4>1. j \in 1 .. Len(x.data) /\ x.data[j] = v /\ i - x.block = j
        BY <3>1, <3>2, <1>1, <1>2, <1>5
      <4>2. p \in 1 .. Len(new)
        BY <1>0
      <4> HIDE DEF j
      <4> QED
        BY <4>1, <4>2, <1>0 DEF Has
    <3>3. CASE j > k
      <4> DEFINE h == j - k
                 q == p + 1
      <4>1. h \in 1 .. Len(d) - k /\ k + h = j
        BY <3>1, <3>3, <1>2, <1>3
      <4>2. i - y.block = h
        BY <1>1, <1>2, <1>3
      <4>3. q \in 1 .. Len(new) /\ new[q] = y
        BY <1>0
      <4> HIDE DEF h, q, j
      <4>4. y.data[h] = v /\ h \in 1 .. Len(y.data)
        BY <3>1, <4>1, <1>5
      <4> QED
        BY <4>2, <4>3, <4>4 DEF Has
    <3> QED
      BY <3>1, <3>2, <3>3, <1>2
  <2> QED
    BY <2>2, <2>3, <2>4, <1>0
<1>7. ASSUME NEW i \in Nat, NEW v \in Contents, Has(new, i, v)
      PROVE  Has(old, i, v)
  <2>1. PICK n \in 1 .. Len(new) : i - new[n].block \in 1 .. Len(new[n].data) /\ new[n].data[i - new[n].block] = v
    BY <1>7 DEF Has
  <2>2. CASE n < p
    <3>1. new[n] = old[n] /\ n \in 1 .. Len(old)
      BY <2>2, <1>0
    <3> QED
      BY <2>1, <3>1 DEF Has
  <2>3. CASE n > p + 1
    <3> DEFINE q == n - 1
    <3>1. q \in p + 1 .. Len(old) /\ n = q + 1
      BY <2>3, <1>0
    <3>2. q \in 1 .. Len(old)
      BY <3>1, <1>0
    <3> HIDE DEF q
    <3>3. new[n] = old[q]
      BY <3>1, <1>0
    <3> QED
      BY <2>1, <3>2, <3>3 DEF Has
  <2>4. CASE n = p
    <3> DEFINE j == i - a
    <3>1. j \in 1 .. k /\ d[j] = v
      BY <2>1, <2>4, <1>0, <1>1, <1>5
    <3>2. j \in 1 .. Len(d)
      BY <3>1, <1>2, <1>3, <1>4
    <3> QED
      BY <3>1, <3>2, <1>0 DEF Has, a, d, c
  <2>5. CASE n = p + 1
    <3> DEFINE h == i - y.block
               j == i - a
    <3>1. h \in 1 .. Len(d) - k /\ d[k + h] = v
      BY <2>1, <2>5, <1>0, <1>5
    <3>2. k + h = j /\ j \in 1 .. Len(d)
      BY <3>1, <1>1, <1>2, <1>3
    <3>3. d[j] = v
      BY <3>1, <3>2
    <3> QED
      BY <3>2, <3>3, <1>0 DEF Has, a, d, c
  <2> QED
    BY <2>2, <2>3, <2>4, <2>5, <1>0
<1> QED
  BY <1>6, <1>7 DEF SameBlocks

\* A cut keeps the image.
LEMMA MoveSame ==
  ASSUME NEW t \in Seq(Cells), NEW l \in Seq(Cells), NEW max, Roomy(max)
  PROVE  LET m == MoveChunks(l, max) IN SameBlocks(t \o l, (t \o m.piece) \o m.rest)
<1> DEFINE m == MoveChunks(l, max)
           old == t \o l
           new == (t \o m.piece) \o m.rest
<1>0. old \in Seq(Cells)
  BY Joined, Zenon
<1>1. CASE new = old
  BY <1>1, Zenon DEF SameBlocks
<1>2. ASSUME NEW p, NEW x, NEW y, NEW room, room \in Nat, x \in Cells, y \in Cells,
             Replaced(old, new, p, x, y), IsSplit(old[p], room, x, y), old[p].len > AlignDown(room)
      PROVE  SameBlocks(old, new)
  <2> HIDE DEF old, new
  <2> QED
    BY <1>0, <1>2, ReplacedSame
<1> HIDE DEF new, old
<1>3. \/ new = old
      \/ \E p, x, y, room : /\ room \in Nat /\ x \in Cells /\ y \in Cells
                            /\ Replaced(old, new, p, x, y) /\ IsSplit(old[p], room, x, y)
                            /\ old[p].type = "fd" /\ old[p].len > AlignDown(room)
  BY MoveKeeps DEF new, old
<1> QED
  BY <1>1, <1>2, <1>3 DEF new, old

-----------------------------------------------------------------------------
(***************************************************************************)
(* The pieces so far, one behind the other.                                *)
(***************************************************************************)
\* A list of lists, flattened.
LEMMA FlattenIs ==
  ASSUME NEW outs \in Seq(Seq(Cells)), Len(outs) > 0
  PROVE  \E f \in [0 .. Len(outs) -> Seq(Cells)] :
           /\ f[0] = <<>> /\ FlattenSeq(outs) = f[Len(outs)]
           /\ \A i \in 1 .. Len(outs) : f[i] = f[i - 1] \o outs[i]
<1> DEFINE N == Len(outs)
           S == Seq(Cells)
           e == <<>>
           G == [i \in 0 .. N |-> S]
           g == [p \in (1 .. N) \X S |-> p[2] \o outs[p[1]]]
           Is(h) == h = [i \in 1 .. N |-> IF i = 1 THEN outs[i] ELSE h[i - 1] \o outs[i]]
           flatten == CHOOSE h : Is(h)
<1>1. FlattenSeq(outs) = flatten[N]
  BY DEF FlattenSeq
<1>2. N \in Nat /\ N > 0 /\ e \in S /\ \A i \in 1 .. N : outs[i] \in S
  OBVIOUS
<1>3. \A a, b \in S : a \o b \in S
  OBVIOUS
<1>e. \A a \in S : e \o a = a
  OBVIOUS
<1> HIDE DEF S, N, e, flatten
<1>4. \A i \in 1 .. N : \A x \in S : g[<<i, x>>] = x \o outs[i]
  OBVIOUS
<1>5. Stays(N, S, G, e, g)
  <2>1. e \in G[0] /\ \A i \in 0 .. N : G[i] \subseteq S /\ G[i] = S
    BY <1>2
  <2>2. \A i \in 1 .. N : i - 1 \in 0 .. N /\ i \in 0 .. N
    BY <1>2
  <2>3. \A i \in 1 .. N : \A x \in S : g[<<i, x>>] \in S
    BY <1>2, <1>3, <1>4
  <2> HIDE DEF G, g
  <2> QED
    BY <1>2, <2>1, <2>2, <2>3 DEF Stays
<1> HIDE DEF G, g
<1>6. PICK f : Within(f, N, S, G, e, g)
  BY <1>5, RecursionWithin
<1>7. /\ f \in [0 .. N -> S] /\ f[0] = e
      /\ \A i \in 1 .. N : f[i] = f[i - 1] \o outs[i]
  <2>1. \A i \in 1 .. N : i - 1 \in 0 .. N
    BY <1>2
  <2> QED
    BY <1>4, <1>6, <2>1 DEF Within
<1> DEFINE h == [i \in 1 .. N |-> f[i]]
<1>8. Is(h)
  <2>1. ASSUME NEW i \in 1 .. N
        PROVE  f[i] = IF i = 1 THEN outs[i] ELSE h[i - 1] \o outs[i]
    <3>1. CASE i = 1
      <4>1. f[1] = f[0] \o outs[1]
        <5>1. 1 \in 1 .. N /\ 1 - 1 = 0
          BY <1>2
        <5> QED
          BY <1>7, <5>1
      <4> QED
        BY <3>1, <4>1, <1>7, <1>e, <1>2
    <3>2. CASE i # 1
      <4>1. i - 1 \in 1 .. N
        BY <3>2, <1>2
      <4> QED
        BY <3>2, <4>1, <1>7
    <3> QED
      BY <3>1, <3>2
  <2> HIDE DEF h
  <2>2. h = [i \in 1 .. N |-> f[i]]
    BY DEF h
  <2>3. [i \in 1 .. N |-> f[i]] = [i \in 1 .. N |-> IF i = 1 THEN outs[i] ELSE h[i - 1] \o outs[i]]
    BY <2>1
  <2> QED
    BY <2>2, <2>3
<1>9. Is(flatten)
  <2> HIDE DEF h, Is
  <2>1. \E x : Is(x)
    BY <1>8
  <2> QED
    BY <2>1 DEF flatten
<1> DEFINE T == {i \in 0 .. N : i = 0 \/ flatten[i] = f[i]}
<1>10. 0 \in T
  BY <1>2
<1>11. \A i \in 0 .. N - 1 : i \in T => i + 1 \in T
  <2> TAKE i \in 0 .. N - 1
  <2> HAVE i \in T
  <2> DEFINE q == i + 1
  <2>0. N \in Nat /\ i \in Nat /\ i <= N - 1
    BY <1>2
  <2>1. q \in 1 .. N /\ q \in 0 .. N /\ q - 1 = i /\ (i = 0 => q = 1) /\ (i # 0 => q # 1)
    BY <2>0
  <2> HIDE DEF q
  <2>2. flatten[q] = IF q = 1 THEN outs[q] ELSE flatten[q - 1] \o outs[q]
    <3> DEFINE F == [j \in 1 .. N |-> IF j = 1 THEN outs[j] ELSE flatten[j - 1] \o outs[j]]
    <3>1. flatten = F
      BY <1>9
    <3>2. F[q] = IF q = 1 THEN outs[q] ELSE flatten[q - 1] \o outs[q]
      BY <2>1
    <3> HIDE DEF F
    <3> QED
      BY <3>1, <3>2
  <2>3. f[q] = f[q - 1] \o outs[q]
    BY <1>7, <2>1
  <2>4. CASE i = 0
    <3>1. f[q] = outs[q]
      BY <2>1, <2>3, <2>4, <1>7, <1>e, <1>2
    <3> QED
      BY <2>1, <2>2, <2>4, <3>1 DEF q
  <2>5. CASE i # 0
    <3>1. flatten[i] = f[i]
      BY <2>5
    <3>2. flatten[q] = f[q]
      BY <2>1, <2>2, <2>3, <2>5, <3>1
    <3> QED
      BY <2>1, <3>2 DEF q
  <2> QED
    BY <2>4, <2>5
<1> HIDE DEF T
<1>12. \A i \in 0 .. N : i \in T
  BY <1>2, <1>10, <1>11, UpTo
<1>13. flatten[N] = f[N]
  <2>1. N \in T
    BY <1>2, <1>12
  <2> QED
    BY <1>2, <2>1 DEF T
<1> QED
  BY <1>1, <1>7, <1>13 DEF N, S, e

\* Another piece goes to the end.
LEMMA FlattenNext ==
  ASSUME NEW outs \in Seq(Seq(Cells)), NEW piece \in Seq(Cells)
  PROVE  /\ FlattenSeq(outs) \in Seq(Cells)
         /\ FlattenSeq(Append(outs, piece)) = FlattenSeq(outs) \o piece
         /\ outs = <<>> => FlattenSeq(outs) = <<>>
<1> DEFINE S == Seq(Cells)
           e == <<>>
           n == Len(outs)
           k == n + 1
           more == Append(outs, piece)
<1>1. /\ n \in Nat /\ more \in Seq(S) /\ Len(more) = k /\ more[k] = piece
      /\ \A i \in 1 .. n : more[i] = outs[i]
  OBVIOUS
<1>2. k \in Nat /\ k > 0 /\ k \in 1 .. k /\ k - 1 = n
  BY <1>1
<1>e. e \in S /\ (outs = e <=> n = 0)
  OBVIOUS
<1>p. piece \in S /\ outs \in Seq(S) /\ e \o piece = piece
  OBVIOUS
<1>3. outs = e => FlattenSeq(outs) = e
  BY DEF FlattenSeq
<1> HIDE DEF k, more, S
<1>4. PICK f \in [0 .. k -> S] :
        /\ f[0] = e /\ FlattenSeq(more) = f[k]
        /\ \A i \in 1 .. k : f[i] = f[i - 1] \o more[i]
  <2>1. more \in Seq(Seq(Cells)) /\ Len(more) > 0
    BY <1>1, <1>2 DEF S
  <2>2. \E f \in [0 .. Len(more) -> Seq(Cells)] :
           /\ f[0] = <<>> /\ FlattenSeq(more) = f[Len(more)]
           /\ \A i \in 1 .. Len(more) : f[i] = f[i - 1] \o more[i]
    BY <2>1, FlattenIs
  <2> QED
    BY <1>1, <2>2 DEF S
<1>5. f[k] = f[n] \o piece
  BY <1>1, <1>2, <1>4
<1>6. CASE n = 0
  <2>1. FlattenSeq(outs) = e /\ f[n] = e
    BY <1>3, <1>4, <1>6, <1>e
  <2> QED
    BY <1>3, <1>4, <1>5, <1>e, <2>1 DEF S, more
<1>7. CASE n # 0
  <2>1. PICK g \in [0 .. n -> S] :
          /\ g[0] = e /\ FlattenSeq(outs) = g[n]
          /\ \A i \in 1 .. n : g[i] = g[i - 1] \o outs[i]
    <3>1. n > 0
      BY <1>1, <1>7
    <3>2. \E g \in [0 .. Len(outs) -> Seq(Cells)] :
           /\ g[0] = <<>> /\ FlattenSeq(outs) = g[Len(outs)]
           /\ \A i \in 1 .. Len(outs) : g[i] = g[i - 1] \o outs[i]
      BY <3>1, FlattenIs
    <3> QED
      BY <3>2 DEF S
  <2> HIDE DEF n
  <2> DEFINE T == {i \in 0 .. n : g[i] = f[i]}
  <2>2. 0 \in T
    BY <2>1, <1>4, <1>1
  <2>3. \A i \in 0 .. n - 1 : i \in T => i + 1 \in T
    <3> TAKE i \in 0 .. n - 1
    <3> HAVE i \in T
    <3> DEFINE q == i + 1
    <3>1. q \in 1 .. n /\ q \in 0 .. n /\ q - 1 = i /\ q \in 1 .. k
      BY <1>1, <1>2
    <3> HIDE DEF q
    <3>2. g[q] = g[i] \o outs[q] /\ f[q] = f[i] \o more[q] /\ more[q] = outs[q]
      BY <3>1, <2>1, <1>4, <1>1
    <3>3. g[i] = f[i]
      OBVIOUS
    <3>4. q \in T
      BY <3>1, <3>2, <3>3
    <3> QED
      BY <3>4 DEF q
  <2> HIDE DEF T
  <2>4. n \in T
    <3>1. \A i \in 0 .. n : i \in T
      BY <1>1, <2>2, <2>3, UpTo
    <3> QED
      BY <3>1, <1>1
  <2>5. g[n] = f[n] /\ g[n] \in S
    BY <2>1, <2>4, <1>1 DEF T
  <2>6. FlattenSeq(outs) = g[n]
    BY <2>1
  <2> QED
    BY <1>4, <1>5, <1>7, <2>5, <2>6, <1>1, <1>e DEF S, more, n
<1> QED
  BY <1>6, <1>7

-----------------------------------------------------------------------------
(***************************************************************************)
(* The image while it is cut                                               *)
(***************************************************************************)

LEMMA AllTyped ==
  ASSUME NEW p, CutType(p)
  PROVE  /\ FlattenSeq(p.outs) \in Seq(Cells) /\ All(p) \in Seq(Cells)
         /\ All(p) = (FlattenSeq(p.outs) \o p.tmp) \o p.s.bbs
<1> DEFINE f == FlattenSeq(p.outs)
           t == p.tmp
           l == p.s.bbs
<1>1. t \in Seq(Cells) /\ l \in Seq(Cells) /\ p.outs \in Seq(Seq(Cells))
  BY DEF CutType
<1>2. f \in Seq(Cells)
  <2>1. \A outs \in Seq(Seq(Cells)) : FlattenSeq(outs) \in Seq(Cells)
    <3> TAKE outs \in Seq(Seq(Cells))
    <3> DEFINE e == <<>>
    <3>1. e \in Seq(Cells)
      OBVIOUS
    <3> HIDE DEF e
    <3> QED
      BY <3>1, FlattenNext
  <2> QED
    BY <1>1, <2>1
<1> HIDE DEF f, t, l
<1>3. f \o t \in Seq(Cells)
  BY <1>1, <1>2, Joined
<1> DEFINE ft == f \o t
<1> HIDE DEF ft
<1>4. ft \o l \in Seq(Cells)
  BY <1>1, <1>3, Joined DEF ft
<1>5. All(p) = (f \o t) \o l
  BY DEF All, f, t, l
<1> QED
  BY <1>2, <1>4, <1>5 DEF ft, f, t, l

LEMMA KeptIs ==
  ASSUME NEW p, CutType(p)
  PROVE  Kept(p) <=> ((p.pc \in {"count", "split"} /\ ~ p.lost) =>
                        /\ p.pc = "count" => p.outs = <<>>
                        /\ Apart(All(p))
                        /\ p.goal # Unknown => ImageOf(p, All(p)) = p.goal)
<1> DEFINE s == p.s
           n == p.s.len
           l == All(p)
<1>1. s = [len |-> n, bbs |-> s.bbs]
  BY DEF CutType
<1> HIDE DEF l, n
<1>2. [s EXCEPT !.bbs = l] = [len |-> n, bbs |-> l]
  <2> HIDE DEF s
  <2> QED
    BY <1>1
<1>3. [p.s EXCEPT !.bbs = All(p)] = [len |-> p.s.len, bbs |-> All(p)]
  BY <1>2 DEF l, n
<1> QED
  BY <1>3 DEF Kept, ImageOf

\* A turn of the loop moves cells from the list to the pieces.
LEMMA TurnKeeps ==
  ASSUME NEW p, proc = p, IsProc(p), Cutting(p, files), p.pc \in {"count", "split"}, Kept(p),
         NEW m, m = MoveChunks(p.s.bbs, p.max), Turn(m, FALSE), CutType(proc'), proc'.goal = p.goal
  PROVE  Kept(proc')
<1> DEFINE q == proc'
           no == FALSE
           f == FlattenSeq(p.outs)
           t == p.tmp
           l == p.s.bbs
           piece == m.piece
           rest == m.rest
           e == <<>>
<1> SUFFICES ASSUME q.pc \in {"count", "split"}, ~ q.lost
             PROVE  /\ q.pc = "count" => q.outs = <<>>
                    /\ Apart(All(q))
                    /\ q.goal # Unknown => ImageOf(q, All(q)) = q.goal
  BY KeptIs
<1>1. CutType(p) /\ (p.lost \/ (p.pc = "count" /\ Counting(p)) \/ (p.pc = "split" /\ Splitting(p)))
  BY DEF Cutting
<1>2. LET tmp == IF p.c < p.slots THEN p.tmp ELSE ListMove(m.piece, p.tmp)
      IN /\ q.lost = (p.lost \/ no)
         /\ q.outs = (IF p.c < p.slots THEN Append(p.outs, m.piece) ELSE p.outs)
         /\ q.s = [len |-> p.s.len, bbs |-> IF m.more THEN m.rest ELSE ListMove(tmp, m.rest)]
         /\ q.tmp = (IF m.more THEN tmp ELSE <<>>)
         /\ q.pc = (IF m.more THEN p.pc ELSE IF p.pc = "count" THEN "split" ELSE "open")
  BY <1>1, TurnIs
<1>3. ~ p.lost
  BY <1>2
<1>4. /\ t \in Seq(Cells) /\ l \in Seq(Cells) /\ p.c \in Nat /\ p.slots \in Nat /\ p.max \in MaxSizes
      /\ p.outs \in Seq(Seq(Cells)) /\ p.s.len \in Nat /\ f \in Seq(Cells)
  BY <1>1, AllTyped DEF CutType
<1>5. Roomy(p.max)
  BY <1>4, SizesAssumption DEF Roomy
<1>6. piece \in Seq(Cells) /\ rest \in Seq(Cells) /\ m.more \in BOOLEAN
  BY <1>4, <1>5, PieceFits
<1>7. /\ p.pc = "count" => p.outs = e
      /\ Apart((f \o t) \o l)
      /\ p.goal # Unknown => ImageOf(p, (f \o t) \o l) = p.goal
  BY <1>1, <1>3, KeptIs, AllTyped
<1> DEFINE ft == f \o t
           new == (ft \o piece) \o rest
<1>8. ft \in Seq(Cells)
  <2> HIDE DEF f, t
  <2> QED
    BY <1>4, Joined
<1>9. e \in Seq(Cells) /\ \A s \in Seq(Cells) : e \o s = s /\ s \o e = s
  OBVIOUS
<1> HIDE DEF ft, f, t, e
<1>10. Apart(ft \o l) /\ (p.goal # Unknown => ImageOf(p, ft \o l) = p.goal)
  BY <1>7 DEF ft
<1>11. Apart(new) /\ new \in Seq(Cells)
  <2> HIDE DEF l
  <2>1. Apart(new)
    BY <1>4, <1>5, <1>8, <1>10, MoveApart DEF l
  <2> DEFINE fp == ft \o piece
  <2>2. fp \in Seq(Cells)
    BY <1>6, <1>8, Joined
  <2> HIDE DEF fp
  <2>3. fp \o rest \in Seq(Cells)
    BY <1>6, <2>2, Joined
  <2> QED
    BY <2>1, <2>3 DEF fp
<1>12. ImageOf(p, new) = ImageOf(p, ft \o l)
  <2>1. SameBlocks(ft \o l, new)
    BY <1>4, <1>5, <1>8, MoveSame DEF l
  <2>2. ft \o l \in Seq(Cells)
    BY <1>4, <1>8, Joined, Zenon
  <2> DEFINE a == ft \o l
             n == p.s.len
  <2> HIDE DEF a, new, n
  <2>3. Image([len |-> n, bbs |-> a]) = Image([len |-> n, bbs |-> new])
    BY <1>4, <1>10, <1>11, <2>1, <2>2, SameImage DEF a, n
  <2> QED
    BY <2>3 DEF ImageOf, a, n
<1>13. (q.pc = "count" => q.outs = e) /\ All(q) = new
  <2>0. All(q) = (FlattenSeq(q.outs) \o q.tmp) \o q.s.bbs
    BY AllTyped
  <2>1. CASE p.pc = "count"
    <3>1. Counting(p)
      BY <1>1, <1>3, <2>1
    <3>2. ListMove(piece, t) = t \o piece
      BY <1>4, <1>5, <3>1, CountTurn DEF t
    <3>3. ~ (p.c < p.slots)
      BY <1>4, <3>1, CountingIs
    <3>4. p.outs = e /\ f = e
      <4>1. p.outs = e
        BY <1>7, <2>1
      <4>2. f = e
        <5>1. p.outs = <<>> => f = <<>>
          BY <1>4, <1>6, FlattenNext DEF f
        <5> QED
          BY <4>1, <5>1 DEF e
      <4> QED
        BY <4>1, <4>2
    <3>5. q.outs = p.outs
      BY <1>2, <3>3
    <3>t. t \o piece \in Seq(Cells) /\ ft = t
      <4>1. t \o piece \in Seq(Cells)
        BY <1>4, <1>6, Joined DEF t
      <4> QED
        BY <4>1, <1>4, <1>9, <3>4 DEF ft, t
    <3> DEFINE tp == t \o piece
    <3>6. CASE m.more
      <4>1. q.tmp = tp /\ q.s.bbs = rest
        <5>1. q.tmp = ListMove(piece, p.tmp) /\ q.s = [len |-> p.s.len, bbs |-> rest]
          BY <1>2, <3>3, <3>6
        <5>2. q.s.bbs = rest
          BY <5>1
        <5> HIDE DEF q
        <5>3. q.tmp = tp
          BY <3>2, <5>1 DEF t
        <5> QED
          BY <5>2, <5>3
      <4>2. FlattenSeq(q.outs) = e
        BY <3>4, <3>5 DEF f
      <4>3. All(q) = (e \o tp) \o rest
        BY <2>0, <4>1, <4>2
      <4>4. e \o tp = tp
        BY <3>t, <1>9
      <4> QED
        BY <3>4, <3>5, <3>t, <4>3, <4>4
    <3>7. CASE ~ m.more
      <4>1. rest = e
        BY <3>7, MoveEnds DEF e
      <4>2. q.tmp = e /\ q.s.bbs = ListMove(tp, rest)
        BY <1>2, <3>2, <3>3, <3>7 DEF e, t
      <4>3. ListMove(tp, rest) = tp
        <5> HIDE DEF tp
        <5> QED
          BY <1>6, <3>t, <4>1, ListMoveIs DEF e, tp
      <4>4. FlattenSeq(q.outs) = e
        BY <3>4, <3>5 DEF f
      <4>5. All(q) = (e \o e) \o tp
        BY <2>0, <4>2, <4>3, <4>4
      <4>6. e \o e = e /\ e \o tp = tp /\ tp \o e = tp
        BY <1>9, <3>t
      <4>7. All(q) = tp
        BY <4>5, <4>6
      <4>8. new = tp
        BY <3>t, <4>1, <4>6
      <4>9. q.pc = "split"
        BY <1>2, <2>1, <3>7
      <4> QED
        BY <4>7, <4>8, <4>9
    <3> QED
      BY <3>6, <3>7, <1>6
  <2>2. CASE p.pc = "split"
    <3>1. Splitting(p)
      BY <1>1, <1>3, <2>2
    <3>2. p.c < p.slots /\ p.tmp = <<>>
      <4>1. p.c + 1 <= p.slots
        BY <1>4, <1>5, <3>1, SplitTurn
      <4>2. p.tmp = <<>>
        BY <3>1 DEF Splitting
      <4> QED
        BY <1>4, <4>1, <4>2
    <3>3. m.more
      BY <1>2, <2>2, <1>6
    <3>4. /\ q.outs = Append(p.outs, piece) /\ q.tmp = e /\ q.s.bbs = rest /\ q.pc = "split"
      BY <1>2, <2>2, <3>2, <3>3 DEF e
    <3>5. FlattenSeq(q.outs) = f \o piece
      <4>1. FlattenSeq(Append(p.outs, piece)) = f \o piece
        BY <1>4, <1>6, FlattenNext DEF f
      <4> QED
        BY <3>4, <4>1
    <3> DEFINE fp == f \o piece
    <3>6. fp \in Seq(Cells)
      BY <1>4, <1>6, Joined
    <3> HIDE DEF fp
    <3>7. All(q) = (fp \o e) \o rest
      BY <2>0, <3>4, <3>5 DEF fp
    <3>8. fp \o e = fp
      BY <3>6, <1>9
    <3>9. ft = f
      <4>1. t = e
        BY <3>2 DEF t, e
      <4> QED
        BY <4>1, <1>4, <1>9 DEF ft
    <3> QED
      BY <3>4, <3>7, <3>8, <3>9 DEF fp
  <2> QED
    BY <2>1, <2>2
<1>14. ImageOf(q, All(q)) = ImageOf(p, new)
  <2>1. q.s.len = p.s.len
    BY <1>2
  <2> QED
    BY <1>13, <2>1 DEF ImageOf
<1> QED
  BY <1>10, <1>11, <1>12, <1>13, <1>14 DEF e

-----------------------------------------------------------------------------
(***************************************************************************)
(* What is in a list that a reader has made.                               *)
(***************************************************************************)

LEMMA HasIs ==
  ASSUME NEW l, NEW i, NEW v
  PROVE  Has(l, i, v) <=> \E n \in 1 .. Len(l) : HasIn(l[n], i, v)
BY DEF Has, HasIn

LEMMA AppendHas ==
  ASSUME NEW l \in Seq(Cells), NEW x \in Cells
  PROVE  /\ l \o <<x>> \in Seq(Cells)
         /\ \A i, v : Has(l \o <<x>>, i, v) <=> Has(l, i, v) \/ HasIn(x, i, v)
         /\ Plain(l) /\ PlainCell(x) => Plain(l \o <<x>>)
<1> DEFINE n == Len(l)
           m == l \o <<x>>
<1>1. /\ m \in Seq(Cells) /\ Len(m) = n + 1 /\ n \in Nat /\ m[n + 1] = x
      /\ \A k \in 1 .. n : m[k] = l[k]
  OBVIOUS
<1> HIDE DEF m, n
<1>2. \A k \in 1 .. n + 1 : k \in 1 .. n \/ k = n + 1
  BY <1>1
<1>3. 1 .. n \subseteq 1 .. n + 1 /\ n + 1 \in 1 .. n + 1
  BY <1>1
<1>4. ASSUME NEW i, NEW v
      PROVE  Has(m, i, v) <=> Has(l, i, v) \/ HasIn(x, i, v)
  <2>1. Has(m, i, v) <=> \E k \in 1 .. n + 1 : HasIn(m[k], i, v)
    BY <1>1, HasIs
  <2>2. Has(l, i, v) <=> \E k \in 1 .. n : HasIn(l[k], i, v)
    BY HasIs DEF n
  <2> QED
    BY <2>1, <2>2, <1>1, <1>2, <1>3
<1>5. ASSUME Plain(l), PlainCell(x)
      PROVE  Plain(m)
  <2>1. \A k \in 1 .. n : PlainCell(l[k])
    BY <1>5 DEF Plain, n
  <2>2. \A k \in 1 .. Len(m) : PlainCell(m[k])
    BY <2>1, <1>1, <1>2, <1>5
  <2> QED
    BY <2>2 DEF Plain
<1> QED
  BY <1>1, <1>4, <1>5 DEF m

\* A cell that is merged with the one behind it.
LEMMA MergedHas ==
  ASSUME NEW a \in Cells, NEW b \in Cells, a.len > 0, CanMerge(a, b), EndOf(a) <= b.block,
         BlockSize * b.block + b.len < Wrap
  PROVE  /\ \A i \in Nat : \A v : HasIn(Merged(a, b), i, v) <=> HasIn(a, i, v) \/ HasIn(b, i, v)
         /\ PlainCell(a) /\ PlainCell(b) => PlainCell(Merged(a, b))
<1> DEFINE c == Merged(a, b)
           d == a.data
           e == b.data
           x == a.block
           y == b.block
           m == Len(d)
           n == Len(e)
<1>1. c.block = x /\ c.type = a.type /\ c.src = a.src /\ c.data = d \o e /\ EndOf(a) = y
  BY MergedIs
<1>2. /\ d \in Seq(Contents) /\ m \in Nat /\ EndOf(a) = x + m /\ x \in Nat
      /\ e \in Seq(Contents) /\ n \in Nat /\ y \in Nat
  BY DataIs
<1>3. a.type = b.type /\ a.src = b.src
  BY DEF CanMerge
<1> HIDE DEF c, d, e
<1>4. /\ Len(d \o e) = m + n /\ (\A i \in 1 .. m : (d \o e)[i] = d[i])
      /\ \A i \in 1 .. n : (d \o e)[m + i] = e[i]
  BY <1>2, Joined
<1> HIDE DEF m, n, x, y
<1>5. y = x + m
  BY <1>1, <1>2
<1>6. ASSUME NEW i \in Nat, NEW v
      PROVE  HasIn(c, i, v) <=> HasIn(a, i, v) \/ HasIn(b, i, v)
  <2> DEFINE j == i - x
             k == i - y
  <2>1. HasIn(c, i, v) <=> j \in 1 .. m + n /\ (d \o e)[j] = v
    BY <1>1, <1>4 DEF HasIn
  <2>2. HasIn(a, i, v) <=> j \in 1 .. m /\ d[j] = v
    BY DEF HasIn, d, x, m
  <2>3. HasIn(b, i, v) <=> k \in 1 .. n /\ e[k] = v
    BY DEF HasIn, e, y, n
  <2>4. j \in Int /\ k \in Int /\ j = m + k
    BY <1>2, <1>5
  <2> HIDE DEF j, k
  <2>5. j \in 1 .. m + n => (j \in 1 .. m \/ k \in 1 .. n)
    BY <2>4, <1>2
  <2>6. (j \in 1 .. m => j \in 1 .. m + n) /\ (k \in 1 .. n => j \in 1 .. m + n)
    BY <2>4, <1>2
  <2>7. (j \in 1 .. m => (d \o e)[j] = d[j]) /\ (k \in 1 .. n => (d \o e)[j] = e[k])
    BY <2>4, <1>4
  <2> QED
    BY <2>1, <2>2, <2>3, <2>5, <2>6, <2>7
<1>7. ASSUME PlainCell(a), PlainCell(b), c.type = "fill", NEW i \in 1 .. m + n
      PROVE  (d \o e)[i] = a.src
  <2>1. (\A j \in 1 .. m : d[j] = a.src) /\ \A j \in 1 .. n : e[j] = a.src
    BY <1>7, <1>1, <1>3 DEF PlainCell, d, e, m, n
  <2>2. CASE i \in 1 .. m
    BY <2>1, <2>2, <1>4
  <2>3. CASE i \notin 1 .. m
    <3> DEFINE k == i - m
    <3>1. k \in 1 .. n /\ i = m + k
      BY <2>3, <1>2
    <3> HIDE DEF k
    <3> QED
      BY <2>1, <3>1, <1>4
  <2> QED
    BY <2>2, <2>3
<1>8. PlainCell(a) /\ PlainCell(b) => PlainCell(c)
  BY <1>1, <1>4, <1>7 DEF PlainCell
<1> QED
  BY <1>6, <1>8 DEF c

\* A cell queued behind all others adds its blocks.
LEMMA QueueHas ==
  ASSUME NEW l, NEW k \in Nat, NEW fd, Tiled(l, k, fd), NEW x \in Cells, x.len > 0,
         k <= BlockSize * x.block, BlockSize * x.block + x.len < Wrap,
         Plain(l), PlainCell(x)
  PROVE  /\ \A i \in Nat : \A v : Has(Queue(l, x), i, v) <=> Has(l, i, v) \/ HasIn(x, i, v)
         /\ Plain(Queue(l, x))
<1> DEFINE n == Len(l)
<1>1. /\ l \in Seq(Cells) /\ n \in Nat
      /\ \A i \in 1 .. n : l[i] \in Cells /\ l[i].len > 0 /\ BlockSize * l[i].block + l[i].len <= k
  BY DEF Tiled
<1>2. x.block \in Nat /\ x.len \in Nat /\ BlockSize * x.block \in Nat
  BY Blocks DEF Cells
<1>4. ASSUME NEW i \in 1 .. n
      PROVE  EndOf(l[i]) <= x.block /\ l[i].block < x.block
  <2> DEFINE v == BlockSize * l[i].block
             w == BlockSize * x.block
  <2>1. l[i].len \in Nat /\ l[i].block \in Nat /\ v + l[i].len <= k
    BY <1>1 DEF Cells
  <2>2. v \in Nat /\ w \in Nat /\ k <= w
    BY SMTT(30), <2>1, <1>2, Blocks
  <2> HIDE DEF v, w
  <2>3. v + l[i].len <= w
    BY <2>1, <2>2
  <2>4. BlockSize * l[i].block + l[i].len <= BlockSize * x.block
    BY <2>3 DEF v, w
  <2> QED
    BY <2>4, <1>1, <1>2, EndsBefore
<1>5. CASE l # <<>> /\ CanMerge(l[n], x)
  <2> DEFINE a == l[n]
             c == Merged(a, x)
             u == SubSeq(l, 1, n - 1)
  <2>1. n \in 1 .. n /\ n > 0
    BY <1>1, <1>5
  <2>2. a \in Cells /\ a.len > 0 /\ CanMerge(a, x) /\ EndOf(a) <= x.block
    BY <2>1, <1>1, <1>4, <1>5
  <2>3. /\ c \in Cells
        /\ \A i \in Nat : \A v : HasIn(c, i, v) <=> HasIn(a, i, v) \/ HasIn(x, i, v)
        /\ PlainCell(a) /\ PlainCell(x) => PlainCell(c)
    <3> HIDE DEF a
    <3> QED
      BY <2>2, MergedIs, MergedHas
  <2>4. Queue(l, x) = u \o <<c>>
    BY <1>1, <1>4, <1>5, QueueIs
  <2>5. u \in Seq(Cells) /\ u \o <<a>> = l
    <3>1. 1 \in 1 .. n + 1 /\ n - 1 \in 1 - 1 .. n
      BY <2>1, <1>1
    <3>2. u \in Seq(Cells) /\ Len(u) = n - 1 - 1 + 1 /\ \A i \in 1 .. n - 1 - 1 + 1 : u[i] = l[1 + i - 1]
      BY <3>1, <1>1, Part
    <3> HIDE DEF u
    <3>3. \A i \in 1 .. n - 1 : u[i] = l[i]
      <4> TAKE i \in 1 .. n - 1
      <4>1. i \in 1 .. n - 1 - 1 + 1 /\ 1 + i - 1 = i
        BY <1>1
      <4>2. u[i] = l[1 + i - 1]
        BY <4>1, <3>2
      <4> QED
        BY <4>1, <4>2
    <3>4. Len(u) = n - 1
      BY <3>2, <1>1
    <3> DEFINE m == u \o <<a>>
    <3>5. /\ m \in Seq(Cells) /\ Len(m) = Len(u) + 1 /\ m[Len(u) + 1] = a
          /\ \A i \in 1 .. Len(u) : m[i] = u[i]
      BY <2>2, <3>2
    <3> HIDE DEF m
    <3>6. Len(m) = n /\ m[n] = l[n] /\ \A i \in 1 .. n - 1 : m[i] = l[i]
      BY <3>3, <3>4, <3>5, <1>1
    <3>7. \A i \in 1 .. n : i = n \/ i \in 1 .. n - 1
      BY <1>1
    <3>8. \A i \in 1 .. n : m[i] = l[i]
      BY <3>6, <3>7
    <3>9. m = l
      BY <3>5, <3>6, <3>8, <1>1, Equal
    <3> QED
      BY <3>2, <3>9 DEF m
  <2>6. Plain(u) /\ PlainCell(a)
    <3>1. PlainCell(a)
      BY <2>1 DEF Plain
    <3> DEFINE m == Len(u)
    <3>2. Len(l) = m + 1 /\ m \in Nat /\ \A i \in 1 .. m : l[i] = u[i]
      <4> HIDE DEF u, a
      <4>1. /\ Len(u \o <<a>>) = m + 1 /\ m \in Nat /\ \A i \in 1 .. m : (u \o <<a>>)[i] = u[i]
        BY <2>2, <2>5
      <4> QED
        BY <4>1, <2>5
    <3> HIDE DEF u, a
    <3>3. \A i \in 1 .. m : PlainCell(u[i])
      BY <3>2 DEF Plain
    <3> QED
      BY <3>1, <3>3 DEF Plain
  <2> HIDE DEF c, a, u
  <2>7. \A i, v : Has(l, i, v) <=> Has(u, i, v) \/ HasIn(a, i, v)
    BY <2>2, <2>5, AppendHas
  <2>8. (\A i, v : Has(u \o <<c>>, i, v) <=> Has(u, i, v) \/ HasIn(c, i, v)) /\ Plain(u \o <<c>>)
    BY <2>3, <2>5, <2>6, AppendHas
  <2> QED
    BY <2>3, <2>4, <2>7, <2>8
<1>6. CASE ~ (l # <<>> /\ CanMerge(l[n], x))
  <2>1. Queue(l, x) = l \o <<x>>
    BY <1>1, <1>4, <1>6, QueueIs
  <2> QED
    BY <2>1, <1>1, AppendHas
<1> QED
  BY <1>5, <1>6

\* Nothing is in the empty list.
LEMMA NothingHas ==
  (\A i, v : ~ Has(<<>>, i, v)) /\ Plain(<<>>)
<1>1. Len(<<>>) = 0
  OBVIOUS
<1> QED
  BY <1>1 DEF Has, Plain

-----------------------------------------------------------------------------
(***************************************************************************)
(* Where the chunks of a file are in the image.                            *)
(***************************************************************************)

LEMMA ExtentIs ==
  ASSUME NEW op \in Skips \union Cells
  PROVE  Extent(op) \in Nat /\ (op \in Skips <=> op.type = "skip") /\ (op \in Cells <=> op.type # "skip")
<1>1. CASE op \in Skips
  <2>1. op.type = "skip" /\ op.len \in Nat /\ op \notin Cells
    BY <1>1 DEF Skips, Cells
  <2> QED
    BY <1>1, <2>1, Division DEF Extent
<1>2. CASE op \in Cells
  <2>1. op.type # "skip" /\ op.len \in Nat
    BY <1>2 DEF Cells
  <2> QED
    BY <1>2, <2>1, RoundUp DEF Extent, Skips
<1> QED
  BY <1>1, <1>2

\* One more chunk.
LEMMA LaysNext ==
  ASSUME NEW ops \in Seq(Skips \union Cells), NEW e \in Nat, NEW at, Lays(ops, e, at),
         NEW op \in Skips \union Cells, op \in Cells => op.block = e
  PROVE  /\ \E bt : Lays(ops \o <<op>>, e + Extent(op), bt)
         /\ \A i, v : OpsHas(ops \o <<op>>, i, v) <=> OpsHas(ops, i, v) \/ (op \in Cells /\ HasIn(op, i, v))
         /\ ops \o <<op>> \in Seq(Skips \union Cells) /\ Len(ops \o <<op>>) = Len(ops) + 1
<1> DEFINE n == Len(ops)
           m == ops \o <<op>>
           q == n + 1
           x == Extent(op)
           bt == [k \in 0 .. q |-> IF k = q THEN e + x ELSE at[k]]
<1>1. /\ m \in Seq(Skips \union Cells) /\ Len(m) = q /\ n \in Nat /\ m[q] = op
      /\ \A k \in 1 .. n : m[k] = ops[k]
  OBVIOUS
<1>2. x \in Nat /\ (op \in Cells <=> op.type # "skip")
  BY ExtentIs
<1>q. q \in Nat /\ q > n /\ q = n + 1
  BY <1>1
<1> HIDE DEF m, x, q
<1>3. \A k \in 1 .. q : k \in 1 .. n \/ k = q
  BY <1>1, <1>q
<1>4. 1 .. n \subseteq 1 .. q /\ q \in 1 .. q
  BY <1>1, <1>q
<1>5. /\ at \in [0 .. n -> Nat] /\ at[0] = 0 /\ at[n] = e
      /\ \A k \in 1 .. n : at[k] = at[k - 1] + Extent(ops[k]) /\ (ops[k].type # "skip" => ops[k].block = at[k - 1])
  BY DEF Lays
<1> HIDE DEF n
<1>6. Lays(m, e + x, bt)
  <2>1. bt \in [0 .. q -> Nat]
    <3>1. \A k \in 0 .. q : k = q \/ k \in 0 .. n
      BY <1>1, <1>q
    <3>2. e + x \in Nat
      BY <1>2
    <3>3. \A k \in 0 .. n : at[k] \in Nat
      BY <1>5
    <3> QED
      BY <3>1, <3>2, <3>3
  <2>2. bt[0] = 0 /\ bt[q] = e + x /\ bt[n] = e
    BY <1>1, <1>q, <1>5
  <2>3. ASSUME NEW k \in 1 .. n
        PROVE  bt[k] = at[k] /\ bt[k - 1] = at[k - 1]
    <3>1. k \in 0 .. q /\ k - 1 \in 0 .. q /\ k # q /\ k - 1 # q
      BY <1>1, <1>q
    <3> QED
      BY <3>1
  <2>4. q - 1 = n
    BY <1>1, <1>q
  <2> HIDE DEF bt
  <2>5. ASSUME NEW k \in 1 .. q
        PROVE  bt[k] = bt[k - 1] + Extent(m[k]) /\ (m[k].type # "skip" => m[k].block = bt[k - 1])
    <3>1. CASE k \in 1 .. n
      <4>1. m[k] = ops[k]
        BY <3>1, <1>1
      <4> QED
        BY <3>1, <4>1, <2>3, <1>5
    <3>2. CASE k = q
      BY <3>2, <2>2, <2>4, <1>1, <1>2 DEF x
    <3> QED
      BY <3>1, <3>2, <1>3
  <2> QED
    BY <1>1, <2>1, <2>2, <2>5 DEF Lays
<1>7. ASSUME NEW i, NEW v
      PROVE  OpsHas(m, i, v) <=> OpsHas(ops, i, v) \/ (op \in Cells /\ HasIn(op, i, v))
  <2>1. OpsHas(m, i, v) <=> \E k \in 1 .. q : m[k].type # "skip" /\ HasIn(m[k], i, v)
    BY <1>1 DEF OpsHas
  <2>2. OpsHas(ops, i, v) <=> \E k \in 1 .. n : ops[k].type # "skip" /\ HasIn(ops[k], i, v)
    BY DEF OpsHas, n
  <2> QED
    BY <2>1, <2>2, <1>1, <1>2, <1>3, <1>4
<1> QED
  BY <1>1, <1>6, <1>7 DEF m, x, q, n

\* What write_all_blocks has laid out with the first i cells.
Laid(ops, i, l) ==
  /\ ops \in Seq(Skips \union Cells)
  /\ \E at : Lays(ops, EndBlock(l, i), at)
  /\ \A x, v : OpsHas(ops, x, v) <=> \E n \in 1 .. i : HasIn(l[n], x, v)
  /\ Len(ops) = i + Cardinality({n \in 1 .. i : Gap(l, n)})
  /\ IsFiniteSet({n \in 1 .. i : Gap(l, n)})

LEMMA EndBlockIs ==
  ASSUME NEW l \in Seq(Cells), Apart(l)
  PROVE  /\ \A i \in 0 .. Len(l) : EndBlock(l, i) \in Nat
         /\ \A i \in 1 .. Len(l) : /\ EndBlock(l, i) = EndOf(l[i]) /\ EndBlock(l, i - 1) <= l[i].block
                                   /\ l[i].block \in Nat
<1>1. \A i \in 1 .. Len(l) : l[i].block \in Nat /\ EndBlock(l, i) = EndOf(l[i]) /\ EndOf(l[i]) \in Nat
  <2> TAKE i \in 1 .. Len(l)
  <2>1. l[i] \in Cells /\ i # 0
    OBVIOUS
  <2> QED
    BY <2>1, EndIs DEF EndBlock, EndOf
<1>2. EndBlock(l, 0) = 0
  BY DEF EndBlock
<1>3. \A i \in 0 .. Len(l) : i = 0 \/ i \in 1 .. Len(l)
  OBVIOUS
<1>4. ASSUME NEW i \in 1 .. Len(l)
      PROVE  EndBlock(l, i - 1) <= l[i].block
  <2>1. CASE i = 1
    <3>1. EndBlock(l, i - 1) = 0
      BY <2>1, <1>2
    <3> QED
      BY <3>1, <1>1
  <2>2. CASE i # 1
    <3> DEFINE j == i - 1
    <3>1. j \in 1 .. Len(l) - 1 /\ j + 1 = i /\ j \in 1 .. Len(l)
      BY <2>2
    <3> HIDE DEF j
    <3>2. EndOf(l[j]) <= l[i].block
      BY <3>1 DEF Apart
    <3>3. EndBlock(l, j) = EndOf(l[j])
      BY <3>1, <1>1
    <3> QED
      BY <3>2, <3>3 DEF j
  <2> QED
    BY <2>1, <2>2
<1> QED
  BY <1>1, <1>2, <1>3, <1>4

LEMMA LaidNext ==
  ASSUME NEW l \in Seq(Cells), Apart(l), NEW i \in 1 .. Len(l), NEW ops, Laid(ops, i - 1, l)
  PROVE  Laid((ops \o SkipBefore(l, i)) \o <<l[i]>>, i, l)
<1> DEFINE j == i - 1
           e == EndBlock(l, j)
           c == l[i]
           S == Skips \union Cells
           skip == SkipBefore(l, i)
           mid == ops \o skip
           new == mid \o <<c>>
           G == {n \in 1 .. j : Gap(l, n)}
           H == {n \in 1 .. i : Gap(l, n)}
<1>1. /\ j \in Nat /\ j \in 0 .. Len(l) /\ i = j + 1 /\ i \in Nat
      /\ c \in Cells /\ c \in S
  OBVIOUS
<1>2. e \in Nat /\ c.block \in Nat /\ e <= c.block /\ EndBlock(l, i) = c.block + DivRoundUp(c.len)
  BY <1>1, EndBlockIs DEF EndOf
<1>3. /\ ops \in Seq(S) /\ (\E at : Lays(ops, e, at))
      /\ \A x, v : OpsHas(ops, x, v) <=> \E n \in 1 .. j : HasIn(l[n], x, v)
      /\ Len(ops) = j + Cardinality(G) /\ IsFiniteSet(G)
  BY DEF Laid
<1>4. Gap(l, i) <=> c.block > e
  BY DEF Gap
<1>5. IF Gap(l, i) THEN H = G \union {i} /\ i \notin G ELSE H = G
  <2>1. \A n : n \in 1 .. i <=> n \in 1 .. j \/ n = i
    BY <1>1
  <2>2. i \notin 1 .. j
    BY <1>1
  <2> QED
    BY <2>1, <2>2
<1>6. IsFiniteSet(H) /\ Cardinality(H) = Cardinality(G) + (IF Gap(l, i) THEN 1 ELSE 0) /\ Cardinality(G) \in Nat
  <2> HIDE DEF G, H
  <2>1. Cardinality(G) \in Nat
    BY <1>3, FS_CardinalityType
  <2>2. CASE Gap(l, i)
    BY <2>1, <2>2, <1>3, <1>5, FS_AddElement
  <2>3. CASE ~ Gap(l, i)
    BY <2>1, <2>3, <1>3, <1>5
  <2> QED
    BY <2>2, <2>3
<1>7. /\ mid \in Seq(S) /\ (\E at : Lays(mid, c.block, at))
      /\ \A x, v : OpsHas(mid, x, v) <=> OpsHas(ops, x, v)
      /\ Len(mid) = Len(ops) + (IF Gap(l, i) THEN 1 ELSE 0)
  <2>1. CASE Gap(l, i)
    <3> DEFINE k == c.block - e
               op == Skip(k * BlockSize)
    <3>1. k \in Nat
      BY <1>2
    <3> HIDE DEF k
    <3>2. op \in Skips /\ Extent(op) = k
      <4>1. k * BlockSize = BlockSize * k
        BY <3>1, Blocks
      <4>2. BlockSize * k \in Nat /\ (BlockSize * k) \div BlockSize = k
        BY <3>1, WholeBlocks
      <4> QED
        BY <4>1, <4>2 DEF Skip, Skips, Extent
    <3>3. op \notin Cells /\ op \in S
      BY <3>2 DEF Skips, Cells
    <3>4. skip = <<op>>
      BY <2>1 DEF SkipBefore, Opt, k
    <3>5. e + Extent(op) = c.block
      BY <3>1, <3>2, <1>2 DEF k
    <3> HIDE DEF op, skip, e, c, mid
    <3>6. PICK at : Lays(ops, e, at)
      BY <1>3
    <3> DEFINE m == ops \o <<op>>
    <3>7. /\ \E bt : Lays(m, e + Extent(op), bt)
          /\ \A x, v : OpsHas(m, x, v) <=> OpsHas(ops, x, v) \/ (op \in Cells /\ HasIn(op, x, v))
          /\ m \in Seq(S) /\ Len(m) = Len(ops) + 1
      BY <1>2, <1>3, <3>3, <3>6, LaysNext
    <3>8. mid = m
      BY <3>4 DEF mid
    <3> HIDE DEF m
    <3> QED
      BY <2>1, <3>3, <3>5, <3>7, <3>8
  <2>2. CASE ~ Gap(l, i)
    <3>1. skip = <<>> /\ c.block = e
      BY <2>2, <1>2, <1>4 DEF SkipBefore, Opt
    <3>2. mid = ops
      BY <3>1, <1>3
    <3>3. Len(ops) \in Nat
      BY <1>3
    <3> HIDE DEF mid, skip
    <3> QED
      BY <3>1, <3>2, <3>3, <2>2, <1>3
  <2> QED
    BY <2>1, <2>2
<1>8. /\ new \in Seq(S) /\ (\E at : Lays(new, EndBlock(l, i), at))
      /\ \A x, v : OpsHas(new, x, v) <=> OpsHas(mid, x, v) \/ HasIn(c, x, v)
      /\ Len(new) = Len(mid) + 1
  <2> HIDE DEF mid, c
  <2>1. Extent(c) = DivRoundUp(c.len)
    BY <1>1 DEF Extent, Cells
  <2>2. PICK at : Lays(mid, c.block, at)
    BY <1>7
  <2>3. /\ \E bt : Lays(mid \o <<c>>, c.block + Extent(c), bt)
        /\ \A x, v : OpsHas(mid \o <<c>>, x, v) <=> OpsHas(mid, x, v) \/ (c \in Cells /\ HasIn(c, x, v))
        /\ mid \o <<c>> \in Seq(S) /\ Len(mid \o <<c>>) = Len(mid) + 1
    BY <1>1, <1>2, <1>7, <2>2, LaysNext
  <2> QED
    BY <1>1, <1>2, <2>1, <2>3
<1> HIDE DEF mid, new, G, H
<1>9. Len(new) = i + Cardinality(H)
  BY <1>1, <1>3, <1>6, <1>7, <1>8
<1>10. ASSUME NEW x, NEW v
       PROVE  OpsHas(new, x, v) <=> \E n \in 1 .. i : HasIn(l[n], x, v)
  <2>1. \A n : n \in 1 .. i <=> n \in 1 .. j \/ n = i
    BY <1>1
  <2> HIDE DEF j
  <2>2. OpsHas(new, x, v) <=> (\E n \in 1 .. j : HasIn(l[n], x, v)) \/ HasIn(l[i], x, v)
    BY <1>3, <1>7, <1>8
  <2> QED
    BY <2>1, <2>2
<1>11. Laid(new, i, l)
  BY <1>6, <1>8, <1>9, <1>10 DEF Laid, H
<1> QED
  BY <1>11 DEF new, mid

LEMMA LaidAll ==
  ASSUME NEW l \in Seq(Cells), Apart(l), NEW s, s.bbs = l, NEW o, WriteRun(o, s)
  PROVE  Laid(o[Len(l)], Len(l), l)
<1> DEFINE N == Len(l)
           T == {i \in 0 .. N : Laid(o[i], i, l)}
<1>1. /\ N \in Nat /\ o[0] = <<>>
      /\ \A i \in 1 .. N : o[i] = (o[i - 1] \o SkipBefore(l, i)) \o <<l[i]>>
  <2>1. N \in Nat
    OBVIOUS
  <2>2. /\ o[0] = <<>>
        /\ \A i \in 1 .. Len(s.bbs) : o[i] = o[i - 1] \o SkipBefore(s.bbs, i) \o <<(s.bbs)[i]>>
    BY DEF WriteRun
  <2> HIDE DEF N
  <2>3. N = Len(s.bbs)
    BY DEF N
  <2> QED
    BY <2>1, <2>2, <2>3, Zenon
<1>2. Laid(o[0], 0, l)
  <2> DEFINE e == <<>>
             at == [k \in 0 .. 0 |-> 0]
             G == {n \in 1 .. 0 : Gap(l, n)}
  <2>1. e \in Seq(Skips \union Cells) /\ Len(e) = 0
    OBVIOUS
  <2>2. G = {} /\ \A n : n \notin 1 .. 0
    OBVIOUS
  <2> HIDE DEF e, G
  <2>3. EndBlock(l, 0) = 0
    BY DEF EndBlock
  <2>4. Lays(e, 0, at)
    BY <2>1, <2>2 DEF Lays
  <2>5. \A x, v : ~ OpsHas(e, x, v)
    BY <2>1, <2>2 DEF OpsHas
  <2>6. IsFiniteSet(G) /\ Cardinality(G) = 0
    BY <2>2, FS_EmptySet
  <2>7. Laid(e, 0, l)
    BY <2>1, <2>2, <2>3, <2>4, <2>5, <2>6 DEF Laid, G
  <2> QED
    BY <1>1, <2>7 DEF e
<1>3. 0 \in T
  BY <1>1, <1>2
<1>4. \A i \in 0 .. N - 1 : i \in T => i + 1 \in T
  <2> TAKE i \in 0 .. N - 1
  <2> HAVE i \in T
  <2> DEFINE q == i + 1
  <2>1. q \in 1 .. N /\ q \in 0 .. N /\ q - 1 = i
    BY <1>1
  <2> HIDE DEF q
  <2>2. Laid(o[q - 1], q - 1, l)
    BY <2>1
  <2>3. Laid(o[q], q, l)
    BY <1>1, <2>1, <2>2, LaidNext
  <2> QED
    BY <2>1, <2>3 DEF q
<1> HIDE DEF T
<1>5. \A i \in 0 .. N : i \in T
  BY <1>1, <1>3, <1>4, UpTo
<1>6. N \in T
  BY <1>1, <1>5
<1> QED
  BY <1>6 DEF T

\* The chunks that write_all_blocks writes cover the whole image, have its
\* blocks, and are as many as sparse_count_chunks said.
LEMMA AllLaid ==
  ASSUME NEW s, s.len \in Nat, NEW l \in Seq(Cells), s.bbs = l, Apart(l),
         \A i \in 1 .. Len(l) : EndOf(l[i]) <= DivRoundUp(s.len),
         NEW ops, ops = AllBlocks(s), \A k \in 1 .. Len(ops) : Writable(ops[k])
  PROVE  /\ ops \in Seq(Skips \union Cells) /\ Len(ops) = CountChunks(s)
         /\ \E at : Lays(ops, DivRoundUp(s.len), at)
         /\ \A i, v : OpsHas(ops, i, v) <=> Has(l, i, v)
<1> DEFINE N == Len(l)
           S == Skips \union Cells
           e == EndBlock(l, N)
           d == DivRoundUp(s.len)
           pad == s.len - e * BlockSize
           G == {n \in 1 .. N : Gap(l, n)}
           end == Opt(pad > 0, Skip(pad))
<1>1. PICK o : WriteRun(o, s)
  <2>1. Cells \in SUBSET Cells
    OBVIOUS
  <2> QED
    BY <2>1, AllBlocksRun
<1> DEFINE all == o[N]
<1>2. ops = all \o end /\ N \in Nat
  BY <1>1 DEF WriteRun, PadOf
<1>3. Laid(all, N, l)
  BY <1>1, LaidAll
<1>4. e \in Nat /\ e <= d /\ d \in Nat
  <2>1. d \in Nat
    BY RoundUp
  <2>2. CASE N = 0
    BY <2>1, <2>2 DEF EndBlock
  <2>3. CASE N # 0
    <3>1. N \in 1 .. N
      BY <2>3, <1>2
    <3>2. e = EndOf(l[N]) /\ e \in Nat
      BY <3>1, EndBlockIs
    <3> QED
      BY <2>1, <3>1, <3>2
  <2> QED
    BY <2>2, <2>3
<1>5. /\ all \in Seq(S) /\ (\E at : Lays(all, e, at))
      /\ \A x, v : OpsHas(all, x, v) <=> \E n \in 1 .. N : HasIn(l[n], x, v)
      /\ Len(all) = N + Cardinality(G) /\ Cardinality(G) \in Nat
  <2>1. IsFiniteSet(G)
    BY <1>3 DEF Laid
  <2>2. Cardinality(G) \in Nat
    BY <2>1, FS_CardinalityType
  <2> QED
    BY <1>3, <2>2 DEF Laid
<1>6. \A x, v : OpsHas(all, x, v) <=> Has(l, x, v)
  BY <1>5, HasIs
<1>7. CountChunks(s) = Cardinality(G) + N + Len(Opt(e < d, "skip"))
  BY DEF CountChunks
<1>8. BlockSize * e \in Nat /\ e * BlockSize = BlockSize * e
  BY <1>4, Blocks
<1>9. pad > 0 <=> e < d
  <2> DEFINE w == BlockSize * e
             n == s.len
  <2>1. n <= BlockSize * d /\ BlockSize * d < n + BlockSize /\ n \in Nat /\ w \in Nat
    BY RoundUp, <1>8
  <2>2. CASE e < d
    <3>1. PICK r \in Nat : d = e + 1 + r
      <4>1. d - e - 1 \in Nat /\ d = e + 1 + (d - e - 1)
        BY <2>2, <1>4
      <4> QED
        BY <4>1
    <3> HIDE DEF d, e, n
    <3>2. BlockSize * d = w + BlockSize + BlockSize * r /\ BlockSize * r \in Nat
      BY <3>1, <1>4, Blocks
    <3> HIDE DEF w
    <3>3. w < n
      BY <3>2, <2>1, Blocks
    <3> QED
      BY <2>2, <3>3, <1>8 DEF w, n
  <2>3. CASE ~ (e < d)
    <3>1. e = d
      BY <2>3, <1>4
    <3>2. ~ (w < n)
      BY <3>1, <2>1, <1>8
    <3> HIDE DEF d, e
    <3> QED
      BY <2>3, <3>2, <1>8
  <2> QED
    BY <2>2, <2>3
<1> HIDE DEF all, e, d, pad, end, G, N
<1>10. CASE e < d
  <2> DEFINE op == Skip(pad)
  <2>1. end = <<op>> /\ ops = all \o <<op>>
    BY <1>2, <1>9, <1>10 DEF end, Opt
  <2>2. pad \in Nat /\ pad + BlockSize * e = s.len
    BY <1>4, <1>8, <1>9, <1>10 DEF pad
  <2>3. op \in Skips /\ op \notin Cells /\ op.type = "skip" /\ op.len = pad
    BY <2>2 DEF Skip, Skips, Cells
  <2>t. op \in S
    BY <2>3
  <2>h. PICK ct : Lays(all, e, ct)
    BY <1>5
  <2> HIDE DEF op, S
  <2>4. /\ \E bt : Lays(all \o <<op>>, e + Extent(op), bt)
        /\ \A i, v : OpsHas(all \o <<op>>, i, v) <=> OpsHas(all, i, v) \/ (op \in Cells /\ HasIn(op, i, v))
        /\ all \o <<op>> \in Seq(S) /\ Len(all \o <<op>>) = Len(all) + 1
    BY <2>t, <2>h, <2>3, <1>4, <1>5, LaysNext DEF S
  <2>5. pad % BlockSize = 0
    <3>1. /\ Len(ops) = Len(all) + 1 /\ Len(all) \in Nat /\ ops[Len(all) + 1] = op
      <4>1. all \in Seq(S) /\ op \in S
        BY <1>5, <2>t
      <4> QED
        BY <2>1, <4>1
    <3> DEFINE q == Len(all) + 1
    <3>2. q \in 1 .. Len(ops)
      BY <3>1
    <3> HIDE DEF q
    <3>3. Writable(op)
      BY <3>1, <3>2 DEF q
    <3> QED
      BY <2>3, <3>3 DEF Writable
  <2>6. e + Extent(op) = d
    <3> DEFINE k == pad \div BlockSize
    <3>1. k \in Nat /\ pad = BlockSize * k
      <4>1. k \in Nat /\ pad = BlockSize * k + (pad % BlockSize)
        BY <2>2, Division
      <4>2. BlockSize * k \in Nat
        BY <4>1, Blocks
      <4> QED
        BY <4>1, <4>2, <2>5
    <3>2. Extent(op) = k
      BY <2>3 DEF Extent
    <3> HIDE DEF k
    <3>3. s.len = BlockSize * (e + k)
      BY <2>2, <3>1, <1>4, Blocks
    <3>4. DivRoundUp(BlockSize * (e + k)) = e + k
      BY <3>1, <1>4, WholeBlocks
    <3> QED
      BY <3>2, <3>3, <3>4 DEF d
  <2>7. Len(Opt(e < d, "skip")) = 1
    BY <1>10 DEF Opt
  <2>8. Len(ops) = CountChunks(s)
    <3> DEFINE g == Cardinality(G)
               k == Len(Opt(e < d, "skip"))
    <3>1. CountChunks(s) = g + N + k /\ k = 1
      BY <1>7, <2>7
    <3>2. Len(all) = N + g /\ g \in Nat /\ N \in Nat
      BY <1>2, <1>5
    <3> HIDE DEF g, k
    <3>3. Len(ops) = Len(all) + 1
      BY <2>1, <2>4
    <3> QED
      BY <3>1, <3>2, <3>3
  <2>9. \E at : Lays(ops, d, at)
    BY <2>1, <2>4, <2>6
  <2>10. \A i, v : OpsHas(ops, i, v) <=> Has(l, i, v)
    BY <2>1, <2>3, <2>4, <1>6
  <2>11. ops \in Seq(S)
    BY <2>1, <2>4
  <2> QED
    BY <2>8, <2>9, <2>10, <2>11 DEF d, S
<1>11. CASE ~ (e < d)
  <2>1. end = <<>> /\ Len(Opt(e < d, "skip")) = 0
    BY <1>9, <1>11 DEF end, Opt
  <2>2. ops = all
    BY <1>2, <1>5, <2>1
  <2>3. e = d
    BY <1>4, <1>11
  <2> QED
    BY <2>1, <2>2, <2>3, <1>2, <1>5, <1>6, <1>7 DEF d
<1> QED
  BY <1>10, <1>11

-----------------------------------------------------------------------------
(***************************************************************************)
(* Reading back what was written.                                          *)
(***************************************************************************)
\* What a reader queues for chunk c.
Queued(c, cur, fd, off) ==
  IF c.type = "raw" THEN Fd(cur, c.chunk_sz * BlockSize, fd, off, c.data)
  ELSE Fill(cur, c.chunk_sz * BlockSize, c.data[1])

LEMMA QueuedIs ==
  ASSUME NEW c \in Chunks, c.type \in {"raw", "fill"}, NEW cur \in Nat, NEW off \in Nat, NEW fd \in Fds,
         NEW l
  PROVE  LET x == Queued(c, cur, fd, off)
         IN /\ ProcessChunk(l, c, cur, fd, off) = Queue(l, x)
            /\ x \in Cells /\ x.len > 0 /\ PlainCell(x) /\ x.block = cur
            /\ BlockSize * cur + x.len = BlockSize * (cur + c.chunk_sz)
            /\ Len(x.data) = c.chunk_sz
            /\ c.type = "raw" => x.data = c.data
            /\ c.type = "fill" => \A i \in 1 .. c.chunk_sz : x.data[i] = c.data[1]
<1> DEFINE n == c.chunk_sz
           m == n * BlockSize
           x == Queued(c, cur, fd, off)
<1>1. /\ n \in Nat /\ n > 0 /\ c.data \in Seq(Contents)
      /\ c.type = "raw" => Len(c.data) = n
      /\ c.type = "fill" => Len(c.data) = 1
  BY DEF Chunks
<1>2. m = BlockSize * n /\ m \in Nat /\ DivRoundUp(m) = n
  <2> HIDE DEF n
  <2>1. n * BlockSize = BlockSize * n
    BY <1>1, Blocks
  <2>2. BlockSize * n \in Nat /\ DivRoundUp(BlockSize * n) = n
    BY <1>1, WholeBlocks
  <2> QED
    BY <2>1, <2>2
<1>3. m > 0 /\ BlockSize * cur + m = BlockSize * (cur + n)
  BY <1>1, <1>2, Blocks
<1> HIDE DEF m
<1>4. CASE c.type = "raw"
  <2>1. x = Fd(cur, m, fd, off, c.data)
    BY <1>4 DEF Queued, m
  <2>2. ProcessChunk(l, c, cur, fd, off) = Queue(l, x)
    BY <1>4, <2>1 DEF ProcessChunk, ProcessRaw, m
  <2>3. x \in Cells /\ x.block = cur /\ x.len = m /\ x.type = "fd"
    BY <1>1, <1>2, <1>4, <2>1, FdIsCell
  <2>4. x.data = c.data
    BY <2>1 DEF Fd
  <2> HIDE DEF x
  <2> QED
    BY <1>1, <1>3, <1>4, <2>2, <2>3, <2>4 DEF PlainCell, x
<1>5. CASE c.type = "fill"
  <2> DEFINE v == c.data[1]
  <2>0. v \in Contents
    BY <1>1, <1>5
  <2>1. x = Fill(cur, m, v)
    BY <1>5 DEF Queued, m
  <2>2. ProcessChunk(l, c, cur, fd, off) = Queue(l, x)
    BY <1>5, <2>1 DEF ProcessChunk, ProcessFill, m
  <2> HIDE DEF v
  <2>3. x \in Cells /\ x.block = cur /\ x.len = m /\ x.type = "fill"
    BY <1>2, <2>0, <2>1, FillIsCell
  <2>4. x.data = [i \in 1 .. n |-> v] /\ x.src = v
    BY <2>1, <1>2 DEF Fill
  <2>5. Len(x.data) = n /\ \A i \in 1 .. n : x.data[i] = v
    BY <2>4, <1>1
  <2> HIDE DEF x
  <2> QED
    BY <1>1, <1>3, <1>5, <2>2, <2>3, <2>4, <2>5 DEF PlainCell, x, v
<1> QED
  BY <1>4, <1>5

\* What process_chunk does with the blocks.
LEMMA ProcessHas ==
  ASSUME NEW c \in Chunks, NEW cur \in Nat, NEW off \in Nat, NEW fd \in Fds,
         NEW l, Tiled(l, BlockSize * cur, fd), Plain(l), BlockSize * (cur + c.chunk_sz) < Wrap
  PROVE  LET new == ProcessChunk(l, c, cur, fd, off)
         IN /\ Plain(new)
            /\ c.type \in {"skip", "crc32"} => new = l
            /\ c.type \in {"raw", "fill"} =>
                 \A i \in Nat : \A v : Has(new, i, v) <=> Has(l, i, v) \/ HasIn(Queued(c, cur, fd, off), i, v)
<1> DEFINE new == ProcessChunk(l, c, cur, fd, off)
           x == Queued(c, cur, fd, off)
           k == BlockSize * cur
<1>1. c.type \in {"raw", "fill", "skip", "crc32"}
  BY DEF Chunks
<1>2. CASE c.type \in {"skip", "crc32"}
  <2>1. new = l
    BY <1>2 DEF ProcessChunk
  <2> QED
    BY <1>2, <2>1
<1>3. CASE c.type \in {"raw", "fill"}
  <2>1. /\ new = Queue(l, x) /\ x \in Cells /\ x.len > 0 /\ PlainCell(x) /\ x.block = cur
        /\ k + x.len = BlockSize * (cur + c.chunk_sz)
    BY <1>3, QueuedIs
  <2>2. k \in Nat /\ k <= BlockSize * x.block /\ BlockSize * x.block + x.len < Wrap
    BY <2>1, Blocks
  <2> HIDE DEF x, k, new
  <2>3. /\ \A i \in Nat : \A v : Has(Queue(l, x), i, v) <=> Has(l, i, v) \/ HasIn(x, i, v)
        /\ Plain(Queue(l, x))
    BY <2>1, <2>2, QueueHas DEF k
  <2> QED
    BY <2>1, <2>3, <1>3 DEF x, new
<1> QED
  BY <1>1, <1>2, <1>3

\* What is read is plain.
LEMMA ImportPlain ==
  ASSUME NEW f, NEW fd \in Fds, NEW b, NEW blk, NEW off, ImportRun(b, blk, off, f, fd)
  PROVE  \A i \in 0 .. Len(ChunksOf(f)) : Plain(b[i])
<1> DEFINE chunks == ChunksOf(f)
           N == Len(chunks)
           T == {i \in 0 .. N : Plain(b[i])}
<1>1. /\ N \in Nat /\ chunks \in Seq(Chunks) /\ b[0] = <<>>
      /\ \A i \in 1 .. N : b[i] = ProcessChunk(b[i - 1], chunks[i], blk[i - 1], fd, off[i - 1] + CHUNK_HEADER_LEN)
      /\ blk \in [0 .. N -> Nat] /\ blk[0] = 0 /\ off \in [0 .. N -> Nat]
      /\ \A i \in 1 .. N : blk[i] = blk[i - 1] + chunks[i].chunk_sz
      /\ \A i \in 0 .. N : Tiled(b[i], BlockSize * blk[i], fd) /\ BlockSize * blk[i] < Wrap
  BY DEF ImportRun
<1> HIDE DEF chunks, N
<1>2. 0 \in T
  BY <1>1, NothingHas
<1>3. \A i \in 0 .. N - 1 : i \in T => i + 1 \in T
  <2> TAKE i \in 0 .. N - 1
  <2> HAVE i \in T
  <2> DEFINE q == i + 1
  <2>1. q \in 1 .. N /\ q \in 0 .. N /\ q - 1 = i /\ i \in 0 .. N
    BY <1>1
  <2> HIDE DEF q
  <2> DEFINE c == chunks[q]
             cur == blk[i]
             o == off[i] + CHUNK_HEADER_LEN
  <2>2. c \in Chunks
    BY <1>1, <2>1 DEF N
  <2>3. cur \in Nat /\ o \in Nat
    BY <1>1, <2>1 DEF CHUNK_HEADER_LEN
  <2>4. BlockSize * (cur + c.chunk_sz) < Wrap
    BY <1>1, <2>1
  <2>5. Tiled(b[i], BlockSize * cur, fd) /\ Plain(b[i])
    BY <1>1, <2>1
  <2>6. b[q] = ProcessChunk(b[i], c, cur, fd, o)
    BY <1>1, <2>1
  <2> HIDE DEF c, cur, o
  <2>7. Plain(b[q])
    BY <2>2, <2>3, <2>4, <2>5, <2>6, ProcessHas
  <2> QED
    BY <2>1, <2>7 DEF q
<1> HIDE DEF T
<1>4. \A i \in 0 .. N : i \in T
  BY <1>1, <1>2, <1>3, UpTo
<1> QED
  BY <1>4 DEF T, N, chunks

LEMMA OnDiskIs ==
  ASSUME NEW op \in Skips \union Cells, op \in Cells => op.len > 0 /\ PlainCell(op) /\ Known(op)
  PROVE  LET c == OnDisk(op)
         IN /\ c \in Chunks /\ c.chunk_sz = Extent(op)
            /\ op.type = "skip" => c.type = "skip"
            /\ op.type # "skip" => c.type \in {"raw", "fill"} /\ Len(op.data) = c.chunk_sz
            /\ c.type = "raw" => c.data = op.data
            /\ c.type = "fill" => \A i \in 1 .. c.chunk_sz : op.data[i] = c.data[1]
<1> DEFINE c == OnDisk(op)
           d == DivRoundUp(op.len)
<1>1. CASE op \in Skips
  <2>1. op.type = "skip" /\ op.len \in Nat
    BY <1>1 DEF Skips
  <2>2. c \in Items
    BY <1>1, SkipOnDisk
  <2>3. c.type = "skip" /\ c.chunk_sz = op.len \div BlockSize
    BY <2>1 DEF OnDisk, Chunk, SkipChunk
  <2>4. c \in Chunks
    BY <2>2, <2>3, ItemIs
  <2> QED
    BY <2>1, <2>3, <2>4 DEF Extent
<1>2. CASE op \in Cells
  <2>1. /\ op.type \in {"fill", "fd"} /\ op.len \in Nat /\ op.len > 0 /\ PlainCell(op) /\ Known(op)
        /\ op.data \in Seq(Contents) /\ Len(op.data) = d
    BY <1>2 DEF Cells
  <2>2. c \in Items
    BY <1>2, <2>1, CellOnDisk
  <2>3. d \in Nat /\ d > 0
    <3>1. d \in Nat /\ op.len <= BlockSize * d
      BY <2>1, RoundUp
    <3> HIDE DEF d
    <3>2. d # 0
      BY <2>1, <3>1, Blocks
    <3> QED
      BY <3>1, <3>2
  <2>4. CASE op.type = "fd"
    <3>1. c.type = "raw" /\ c.chunk_sz = d /\ c.data = Mapped(op.data)
      BY <2>4 DEF OnDisk, Chunk, DataChunk
    <3>2. Mapped(op.data) = op.data
      <4>1. \A i \in DOMAIN op.data : op.data[i] # Missing
        BY <2>1 DEF Known
      <4> DEFINE s == op.data
      <4>2. s = [i \in DOMAIN s |-> s[i]]
        BY <2>1
      <4> HIDE DEF s
      <4>3. Mapped(s) = [i \in DOMAIN s |-> s[i]]
        BY <4>1 DEF Mapped, s
      <4> QED
        BY <4>2, <4>3 DEF s
    <3>3. c \in Chunks
      BY <2>2, <3>1, ItemIs
    <3> QED
      BY <2>1, <2>4, <3>1, <3>2, <3>3 DEF Extent
  <2>5. CASE op.type = "fill"
    <3>1. c.type = "fill" /\ c.chunk_sz = d /\ c.data = Mapped(<<op.src>>)
      BY <2>5 DEF OnDisk, Chunk, FillChunk
    <3>2. \A i \in 1 .. d : op.data[i] = op.src
      BY <2>1, <2>5 DEF PlainCell
    <3>3. op.src # Missing
      <4>1. 1 \in 1 .. d
        BY <2>3
      <4> QED
        BY <4>1, <3>2, <2>1 DEF Known
    <3>4. c.data[1] = op.src
      BY <3>1, <3>3 DEF Mapped
    <3>5. c \in Chunks
      BY <2>2, <3>1, ItemIs
    <3> QED
      BY <2>1, <2>5, <3>1, <3>2, <3>4, <3>5 DEF Extent
  <2> QED
    BY <2>1, <2>4, <2>5
<1> QED
  BY <1>1, <1>2

\* A chunk that was written is read back.
LEMMA ChunkBack ==
  ASSUME NEW op \in Skips \union Cells, op \in Cells => op.len > 0 /\ PlainCell(op) /\ Known(op),
         NEW cur \in Nat, op \in Cells => op.block = cur, NEW off \in Nat, NEW fd \in Fds,
         NEW l, Tiled(l, BlockSize * cur, fd), Plain(l), BlockSize * (cur + Extent(op)) < Wrap,
         NEW new, new = ProcessChunk(l, OnDisk(op), cur, fd, off)
  PROVE  /\ Plain(new)
         /\ \A i \in Nat : \A v : Has(new, i, v) <=> Has(l, i, v) \/ (op.type # "skip" /\ HasIn(op, i, v))
<1> DEFINE c == OnDisk(op)
           x == Queued(c, cur, fd, off)
<1>1. /\ c \in Chunks /\ c.chunk_sz = Extent(op)
      /\ op.type = "skip" => c.type = "skip"
      /\ op.type # "skip" => c.type \in {"raw", "fill"} /\ Len(op.data) = c.chunk_sz
      /\ c.type = "raw" => c.data = op.data
      /\ c.type = "fill" => \A i \in 1 .. c.chunk_sz : op.data[i] = c.data[1]
  BY OnDiskIs
<1> HIDE DEF c
<1>2. /\ Plain(new)
      /\ c.type \in {"skip", "crc32"} => new = l
      /\ c.type \in {"raw", "fill"} => \A i \in Nat : \A v : Has(new, i, v) <=> Has(l, i, v) \/ HasIn(x, i, v)
  BY <1>1, ProcessHas DEF c
<1>3. CASE op.type = "skip"
  BY <1>1, <1>2, <1>3
<1>4. CASE op.type # "skip"
  <2>1. op \in Cells /\ op.block = cur
    BY <1>4, ExtentIs
  <2>2. /\ x.block = cur /\ Len(x.data) = c.chunk_sz
        /\ c.type = "raw" => x.data = c.data
        /\ c.type = "fill" => \A i \in 1 .. c.chunk_sz : x.data[i] = c.data[1]
    <3>1. c.type \in {"raw", "fill"}
      BY <1>1, <1>4
    <3>2. /\ ProcessChunk(l, c, cur, fd, off) = Queue(l, x)
          /\ x \in Cells /\ x.len > 0 /\ PlainCell(x) /\ x.block = cur
          /\ BlockSize * cur + x.len = BlockSize * (cur + c.chunk_sz)
          /\ Len(x.data) = c.chunk_sz
          /\ c.type = "raw" => x.data = c.data
          /\ c.type = "fill" => \A i \in 1 .. c.chunk_sz : x.data[i] = c.data[1]
      <4>1. c \in Chunks
        BY <1>1
      <4> HIDE DEF x
      <4> QED
        BY <4>1, <3>1, QueuedIs DEF x
    <3> QED
      BY <3>2
  <2> HIDE DEF x
  <2>3. Len(x.data) = Len(op.data) /\ \A i \in 1 .. Len(op.data) : x.data[i] = op.data[i]
    BY <1>1, <1>4, <2>2
  <2>4. \A i, v : HasIn(x, i, v) <=> HasIn(op, i, v)
    BY <2>1, <2>2, <2>3 DEF HasIn
  <2> QED
    BY <1>1, <1>2, <1>4, <2>4
<1> QED
  BY <1>3, <1>4

LEMMA ReadsBack ==
  ASSUME NEW s, s.len \in Nat, NEW l \in Seq(Sane), s.bbs = l, Apart(l),
         \A i \in 1 .. Len(l) : EndOf(l[i]) <= DivRoundUp(s.len), BlockSize * DivRoundUp(s.len) < Wrap,
         NEW f, f.items \in Seq(Items), OnFile(f, s, Len(AllBlocks(s)) + 1)
  PROVE  /\ Importable(f)
         /\ Image(Import(f, "simg")) = Image(s)
<1> DEFINE ops == AllBlocks(s)
           h == Header(s)
           items == f.items
           chunks == ChunksOf(f)
           N == Len(ops)
           d == DivRoundUp(s.len)
           S == Skips \union Sane
           fd == "simg"
<1>1. l \in Seq(Cells) /\ Sane \subseteq Cells /\ S \subseteq Skips \union Cells /\ Sane \in SUBSET Cells
  <2>1. Sane \subseteq Cells
    BY DEF Sane, Usable
  <2> QED
    BY <2>1
<1>2. ops \in Seq(S)
  BY <1>1, AllBlocksIs
<1> HIDE DEF ops, h
<1>3. N \in Nat /\ \A k \in 1 .. N : ops[k] \in S
  BY <1>2
<1>4. d \in Nat
  BY RoundUp
<1>5. h \in Headers /\ h.type = "header" /\ h.total_blks = d /\ h.total_chunks = CountChunks(s)
  BY <1>1, HeaderIs DEF h, Header
<1>6. /\ f.kind = "sparse" /\ N + 1 <= Len(items) /\ items[1] = h
      /\ \A k \in 1 .. N : items[k + 1] = OnDisk(ops[k]) /\ Writable(ops[k]) /\ Mappable(ops[k])
  <2> DEFINE all == <<h>> \o ops
  <2>1. /\ f.kind = "sparse" /\ N + 1 <= Len(items)
        /\ \A k \in 1 .. N + 1 : items[k] = OnDisk(all[k]) /\ Writable(all[k]) /\ Mappable(all[k])
    BY DEF OnFile, ops, h
  <2>2. all[1] = h /\ \A k \in 1 .. N : all[k + 1] = ops[k]
    BY <1>2
  <2> HIDE DEF all, N, items
  <2>3. items[1] = h
    <3>1. 1 \in 1 .. N + 1
      BY <1>3
    <3>2. items[1] = OnDisk(h)
      BY <2>1, <2>2, <3>1
    <3> QED
      BY <1>5, <3>2, HeaderOnDisk
  <2>4. \A k \in 1 .. N : k + 1 \in 1 .. N + 1
    BY <1>3
  <2> QED
    BY <2>1, <2>2, <2>3, <2>4
<1>7. \A k \in 1 .. N : /\ ops[k] \in Skips \union Cells
                        /\ ops[k] \in Cells => ops[k].len > 0 /\ PlainCell(ops[k]) /\ Known(ops[k])
  <2> TAKE k \in 1 .. N
  <2>1. ops[k] \in S /\ Mappable(ops[k])
    BY <1>3, <1>6
  <2>2. ops[k] \in Cells => ops[k] \in Sane
    BY <2>1, ExtentIs DEF Skips, Cells
  <2> QED
    BY <1>1, <2>1, <2>2 DEF Sane, Usable
<1>8. /\ N = CountChunks(s)
      /\ \E at : Lays(ops, d, at)
      /\ \A i, v : OpsHas(ops, i, v) <=> Has(l, i, v)
  <2>1. \A k \in 1 .. Len(ops) : Writable(ops[k])
    BY <1>6
  <2> QED
    BY <1>1, <2>1, AllLaid DEF ops
<1>9. PICK at : Lays(ops, d, at)
  BY <1>8
<1>10. /\ at \in [0 .. N -> Nat] /\ at[0] = 0 /\ at[N] = d
       /\ \A k \in 1 .. N : at[k] = at[k - 1] + Extent(ops[k]) /\ (ops[k].type # "skip" => ops[k].block = at[k - 1])
  BY <1>9 DEF Lays
<1>11. \A k \in 1 .. N : LET c == OnDisk(ops[k]) IN c \in Chunks /\ c.chunk_sz = Extent(ops[k])
  BY <1>7, OnDiskIs
<1>12. chunks \in Seq(Chunks) /\ Len(chunks) = N /\ \A k \in 1 .. N : chunks[k] = OnDisk(ops[k])
  <2> DEFINE K == N + 1
  <2>1. chunks = SubSeq(items, 2, K)
    BY <1>5, <1>6, <1>8 DEF ChunksOf
  <2>2. 2 \in 1 .. Len(items) + 1 /\ K \in 2 - 1 .. Len(items)
    BY <1>3, <1>6
  <2>0. K - 2 + 1 = N /\ K = N + 1
    BY <1>3
  <2> HIDE DEF items, N, chunks, K
  <2>i. items \in Seq(Items)
    BY DEF items
  <2>3. /\ chunks \in Seq(Items) /\ Len(chunks) = K - 2 + 1
        /\ \A i \in 1 .. K - 2 + 1 : chunks[i] = items[2 + i - 1]
    BY <2>1, <2>2, <2>i, Part
  <2>4. chunks \in Seq(Items) /\ Len(chunks) = N
    BY <2>0, <2>3
  <2>5. \A k \in 1 .. N : chunks[k] = OnDisk(ops[k])
    <3> TAKE k \in 1 .. N
    <3>1. k \in 1 .. K - 2 + 1 /\ 2 + k - 1 = k + 1
      BY <2>0, <1>3
    <3>2. chunks[k] = items[2 + k - 1]
      BY <2>3, <3>1
    <3> QED
      BY <3>1, <3>2, <1>6
  <2>6. \A k \in 1 .. Len(chunks) : chunks[k] \in Chunks
    BY <2>4, <2>5, <1>11
  <2>7. chunks \in Seq(Chunks)
    BY <2>4, <2>6
  <2> QED
    BY <2>4, <2>5, <2>7
<1>e. \A k \in 1 .. N : chunks[k].chunk_sz = Extent(ops[k])
  <2> TAKE k \in 1 .. N
  <2>1. chunks[k] = OnDisk(ops[k])
    BY <1>12
  <2>2. OnDisk(ops[k]).chunk_sz = Extent(ops[k])
    BY <1>11
  <2> HIDE DEF chunks, ops
  <2> QED
    BY <2>1, <2>2
<1> HIDE DEF chunks, N, d
<1>13. Importable(f)
  <2>1. IsSparse(f)
    <3>1. items # <<>>
      BY <1>6, <1>3
    <3> QED
      BY <3>1, <1>5, <1>6 DEF IsSparse
  <2>2. f.items[1].total_chunks + 1 <= Len(f.items)
    BY <1>5, <1>6, <1>8
  <2>3. \A i \in DOMAIN chunks : chunks[i].type \in {"raw", "fill", "skip", "crc32"}
    <3>1. \A i \in DOMAIN chunks : chunks[i] \in Chunks
      BY <1>12
    <3> QED
      BY <3>1 DEF Chunks
  <2>4. BlocksUpTo(chunks)[Len(chunks)] = f.items[1].total_blks
    <3> DEFINE g == BlocksUpTo(chunks)
    <3>1. \A c \in Chunks : c.chunk_sz \in Nat
      BY DEF Chunks
    <3>2. g[0] = 0 /\ \A i \in 1 .. N : g[i] = g[i - 1] + chunks[i].chunk_sz
      BY <3>1, <1>12, BlocksUpToIs
    <3> HIDE DEF g
    <3>3. \A i \in 1 .. N : g[i - 1] = at[i - 1] => g[i] = at[i]
      BY <3>2, <1>10, <1>e
    <3>z. g[0] = at[0]
      BY <3>2, <1>10
    <3>4. \A i \in 0 .. N : g[i] = at[i]
      BY ZenonT(30), <3>z, <3>3, <1>3, SameSum
    <3>5. g[N] = d
      BY <3>4, <1>3, <1>10
    <3> QED
      BY <3>5, <1>5, <1>6, <1>12 DEF g
  <2> QED
    BY <2>1, <2>2, <2>3, <2>4 DEF Importable, chunks
<1>14. f.items[1].total_blks * BlockSize = BlockSize * d /\ BlockSize * d < Wrap /\ fd \in Fds
  BY <1>4, <1>5, <1>6, Blocks DEF d, Fds
<1>15. PICK b, blk, off : ImportRun(b, blk, off, f, fd)
  BY <1>13, <1>14, ImportIsRun
<1>16. /\ Import(f, fd).len = BlockSize * d
       /\ Import(f, fd) = [len |-> Import(f, fd).len, bbs |-> Import(f, fd).bbs]
       /\ Import(f, fd).bbs \in Seq(Cells) /\ Apart(Import(f, fd).bbs)
  BY <1>13, <1>14, ImportIs DEF Tiled
<1>17. /\ b[0] = <<>> /\ Import(f, fd).bbs = b[N]
       /\ \A i \in 1 .. N : b[i] = ProcessChunk(b[i - 1], chunks[i], blk[i - 1], fd, off[i - 1] + CHUNK_HEADER_LEN)
       /\ blk \in [0 .. N -> Nat] /\ blk[0] = 0 /\ off \in [0 .. N -> Nat]
       /\ \A i \in 1 .. N : blk[i] = blk[i - 1] + chunks[i].chunk_sz
       /\ \A i \in 0 .. N : Tiled(b[i], BlockSize * blk[i], fd) /\ BlockSize * blk[i] < Wrap
  BY <1>12, <1>15 DEF ImportRun, chunks
<1>18. \A i \in 0 .. N : Plain(b[i]) /\ blk[i] = at[i]
  <2>1. \A i \in 0 .. N : Plain(b[i])
    BY <1>12, <1>14, <1>15, ImportPlain DEF chunks
  <2>2. \A i \in 1 .. N : blk[i - 1] = at[i - 1] => blk[i] = at[i]
    BY <1>10, <1>e, <1>17
  <2>z. blk[0] = at[0]
    BY <1>10, <1>17
  <2>3. \A i \in 0 .. N : blk[i] = at[i]
    BY ZenonT(30), <2>2, <2>z, <1>3, SameSum
  <2> QED
    BY <2>1, <2>3
<1> DEFINE Up(n, i, v) == \E k \in 1 .. n : ops[k].type # "skip" /\ HasIn(ops[k], i, v)
           T == {n \in 0 .. N : \A i \in Nat : \A v : Has(b[n], i, v) <=> Up(n, i, v)}
<1>19. 0 \in T
  <2>1. \A k : k \notin 1 .. 0
    OBVIOUS
  <2> QED
    BY <2>1, <1>3, <1>17, NothingHas
<1>20. \A n \in 0 .. N - 1 : n \in T => n + 1 \in T
  <2> TAKE n \in 0 .. N - 1
  <2> HAVE n \in T
  <2> DEFINE q == n + 1
  <2>1. q \in 1 .. N /\ q \in 0 .. N /\ q - 1 = n /\ n \in 0 .. N
    BY <1>3
  <2>2. \A k : k \in 1 .. q <=> k \in 1 .. n \/ k = q
    BY <1>3
  <2> HIDE DEF q
  <2> DEFINE op == ops[q]
             cur == at[n]
             o == off[n] + CHUNK_HEADER_LEN
  <2>3. op \in Skips \union Cells /\ (op \in Cells => op.len > 0 /\ PlainCell(op) /\ Known(op))
    BY <1>7, <2>1
  <2>4. cur \in Nat /\ o \in Nat
    BY <1>10, <1>17, <2>1 DEF CHUNK_HEADER_LEN
  <2>5. op \in Cells => op.block = cur
    BY <1>10, <2>1, <2>3, ExtentIs
  <2>6. BlockSize * (cur + Extent(op)) < Wrap
    <3>1. at[q] = cur + Extent(op)
      BY <1>10, <2>1
    <3>2. BlockSize * at[q] < Wrap
      BY <1>17, <1>18, <2>1
    <3> QED
      BY <3>1, <3>2
  <2>7. Tiled(b[n], BlockSize * cur, fd) /\ Plain(b[n])
    BY <1>17, <1>18, <2>1
  <2>8. b[q] = ProcessChunk(b[n], OnDisk(op), cur, fd, o)
    <3>1. chunks[q] = OnDisk(op) /\ blk[n] = cur
      BY <1>12, <1>18, <2>1
    <3>2. b[q] = ProcessChunk(b[q - 1], chunks[q], blk[q - 1], fd, off[q - 1] + CHUNK_HEADER_LEN)
      BY <1>17, <2>1
    <3> QED
      BY <2>1, <3>1, <3>2
  <2> HIDE DEF op, cur, o
  <2>9. \A i \in Nat : \A v : Has(b[q], i, v) <=> Has(b[n], i, v) \/ (op.type # "skip" /\ HasIn(op, i, v))
    BY <1>14, <2>3, <2>4, <2>5, <2>6, <2>7, <2>8, ChunkBack
  <2>10. \A i, v : Up(q, i, v) <=> Up(n, i, v) \/ (op.type # "skip" /\ HasIn(op, i, v))
    BY <2>2 DEF op
  <2> HIDE DEF Up
  <2>11. q \in T
    BY <2>1, <2>9, <2>10
  <2> QED
    BY <2>11 DEF q
<1> HIDE DEF T
<1>21. N \in T
  <2>1. \A n \in 0 .. N : n \in T
    BY <1>3, <1>19, <1>20, UpTo
  <2> QED
    BY <2>1, <1>3
<1>22. SameBlocks(b[N], l)
  <2>1. \A i \in Nat : \A v : Has(b[N], i, v) <=> Up(N, i, v)
    BY <1>21 DEF T
  <2>2. \A i, v : OpsHas(ops, i, v) <=> Up(N, i, v)
    BY DEF OpsHas, N
  <2> HIDE DEF Up
  <2> QED
    BY <2>1, <2>2, <1>8 DEF SameBlocks
<1>23. Image(Import(f, fd)) = Image(s)
  <2> DEFINE bN == b[N]
             len == BlockSize * d
  <2>1. bN \in Seq(Cells) /\ Apart(bN) /\ Import(f, fd) = [len |-> len, bbs |-> bN]
    BY <1>16, <1>17
  <2>2. DivRoundUp(len) = d /\ len \in Nat
    BY <1>4, WholeBlocks
  <2>3. \A i \in Nat : Value(bN, i) = Value(l, i)
    <3> HIDE DEF bN
    <3>1. SameBlocks(bN, l)
      BY <1>22 DEF bN
    <3> QED
      BY <2>1, <2>2, <3>1, <1>1, SameImage
  <2>4. Image(Import(f, fd)) = [i \in 1 .. d |-> Value(bN, i)]
    <3> DEFINE m == Import(f, fd)
    <3>1. m.len = len /\ m.bbs = bN
      BY <2>1
    <3> HIDE DEF m, len, bN
    <3>2. Image(m) = [i \in 1 .. DivRoundUp(m.len) |-> Value(m.bbs, i)]
      BY ImageIs
    <3> QED
      BY <2>2, <3>1, <3>2 DEF m
  <2>5. Image(s) = [i \in 1 .. d |-> Value(l, i)]
    BY ImageIs DEF d
  <2> HIDE DEF bN
  <2>6. [i \in 1 .. d |-> Value(bN, i)] = [i \in 1 .. d |-> Value(l, i)]
    BY <2>3, <1>4
  <2> QED
    BY <2>4, <2>5, <2>6
<1> QED
  BY <1>13, <1>23

-----------------------------------------------------------------------------
(***************************************************************************)
(* The cookies that are written to simg.                                   *)
(***************************************************************************)

LEMMA ImageTyped ==
  ASSUME NEW len \in Nat, NEW l \in Seq(Cells), Apart(l)
  PROVE  LET s == [len |-> len, bbs |-> l]
         IN /\ Image(s) \in Seq(Contents) /\ Len(Image(s)) = DivRoundUp(len)
            /\ \A i \in 1 .. DivRoundUp(len) : Image(s)[i] = Value(l, i)
<1> DEFINE d == DivRoundUp(len)
           s == [len |-> len, bbs |-> l]
<1>1. d \in Nat
  BY RoundUp
<1>2. \A i \in Nat : Value(l, i) \in Contents
  BY ValueIs, FormatAssumption
<1>3. Image(s) = [i \in 1 .. d |-> Value(l, i)]
  BY ImageIs
<1> HIDE DEF d, s
<1>4. [i \in 1 .. d |-> Value(l, i)] \in Seq(Contents)
  BY <1>1, <1>2
<1> QED
  BY <1>1, <1>3, <1>4 DEF d, s

\* A cell of a whole image is known.
LEMMA TiledGood ==
  ASSUME NEW len \in Nat, NEW l, NEW fd, Tiled(l, len, fd), Plain(l),
         NEW image, image = Image([len |-> len, bbs |-> l]), Missing \notin Range(image)
  PROVE  Good([len |-> len, bbs |-> l], image)
<1> DEFINE d == DivRoundUp(len)
<1>1. /\ l \in Seq(Cells) /\ Apart(l) /\ Len(l) \in Nat
      /\ \A i \in 1 .. Len(l) : l[i] \in Cells /\ l[i].len > 0 /\ BlockSize * l[i].block + l[i].len <= len
  BY DEF Tiled
<1>2. d \in Nat /\ len <= BlockSize * d /\ BlockSize * d \in Nat
  BY RoundUp, Blocks
<1> HIDE DEF d
<1>3. ASSUME NEW i \in 1 .. Len(l)
      PROVE  EndOf(l[i]) <= d
  <2> DEFINE n == BlockSize * l[i].block + l[i].len
  <2>1. l[i].block \in Nat /\ l[i].len \in Nat
    BY <1>1 DEF Cells
  <2>2. n \in Nat
    BY <2>1, Blocks
  <2>3. n <= len
    BY <1>1
  <2> HIDE DEF n
  <2>4. n <= BlockSize * d
    BY <2>2, <2>3, <1>2
  <2> QED
    BY <2>4, <1>1, <1>2, EndsBefore DEF n
<1>4. ASSUME NEW i \in 1 .. Len(l)
      PROVE  Known(l[i])
  <2> DEFINE c == l[i]
  <2>1. c \in Cells
    BY <1>1
  <2> SUFFICES ASSUME NEW j \in 1 .. Len(c.data), c.data[j] = Missing
               PROVE  FALSE
    BY DEF Known
  <2> DEFINE k == c.block + j
  <2>2. c.block \in Nat /\ Len(c.data) \in Nat /\ EndOf(c) = c.block + Len(c.data)
    BY <2>1, DataIs
  <2>3. EndOf(c) <= d
    BY <1>3
  <2>4. k \in 1 .. d /\ k - c.block = j /\ k \in Nat
    <3>1. j \in Nat /\ j >= 1 /\ j <= Len(c.data)
      BY <2>2
    <3>2. k \in Nat /\ k >= 1 /\ k - c.block = j /\ k <= EndOf(c)
      BY <2>2, <3>1
    <3> HIDE DEF k
    <3>3. k <= d
      BY <2>2, <2>3, <3>2, <1>2
    <3> QED BY <3>2, <3>3, <1>2
  <2> HIDE DEF k
  <2>5. Has(l, k, Missing)
    BY <2>4 DEF Has
  <2> HIDE DEF c
  <2>6. Value(l, k) = Missing
    BY <2>4, <2>5, <1>1, ValueIs
  <2>7. image \in Seq(Contents) /\ Len(image) = d /\ image[k] = Value(l, k)
    BY <1>1, <2>4, ImageTyped DEF d
  <2>8. Missing \in Range(image)
    BY <2>4, <2>6, <2>7 DEF Range
  <2> QED
    BY <2>8
<1>5. l \in Seq(Sane)
  <2>1. \A i \in 1 .. Len(l) : l[i] \in Sane
    BY <1>1, <1>4 DEF Sane, Usable, Plain
  <2> QED
    BY <2>1, <1>1
<1> QED
  BY <1>1, <1>3, <1>5 DEF Good, d

\* A raw image that is read is the image it was.
LEMMA ReadImage ==
  ASSUME NEW raw, raw.len \in Nat, raw.blocks \in Seq(Contents), Len(raw.blocks) = DivRoundUp(raw.len),
         raw.len < Wrap, NEW fd \in Fds
  PROVE  /\ Plain(ReadNormal(raw, fd).bbs)
         /\ Image(ReadNormal(raw, fd)) = raw.blocks
<1> DEFINE s == ReadNormal(raw, fd)
           len == raw.len
           blocks == raw.blocks
           N == Len(blocks)
<1>1. s = [len |-> len, bbs |-> s.bbs] /\ Tiled(s.bbs, len, fd)
  BY ReadNormalRun
<1>2. PICK b : ReadRun(b, raw, fd)
  BY ReadNormalRun
<1>3. /\ N \in Nat /\ b[0] = <<>> /\ s.bbs = b[N]
      /\ \A i \in 1 .. N : b[i] = Queue(b[i - 1], BlockRead(raw, fd, i))
      /\ \A i \in 0 .. N : Tiled(b[i], UpToBlock(len, i), fd)
  BY <1>2 DEF ReadRun
<1> DEFINE T == {n \in 0 .. N : /\ Plain(b[n])
                               /\ \A i \in Nat : \A v : Has(b[n], i, v) <=> i \in 1 .. n /\ blocks[i] = v}
<1>4. 0 \in T
  <2>1. \A i : i \notin 1 .. 0
    OBVIOUS
  <2> QED
    BY <2>1, <1>3, NothingHas
<1>5. \A n \in 0 .. N - 1 : n \in T => n + 1 \in T
  <2> TAKE n \in 0 .. N - 1
  <2> HAVE n \in T
  <2> DEFINE q == n + 1
             x == BlockRead(raw, fd, q)
             k == UpToBlock(len, n)
  <2>1. q \in 1 .. N /\ q \in 0 .. N /\ q - 1 = n /\ n \in 0 .. N /\ n \in Nat /\ q = n + 1
    BY <1>3
  <2>2. \A i : i \in 1 .. q <=> i \in 1 .. n \/ i = q
    BY <1>3
  <2> HIDE DEF q
  <2>3. /\ x \in Cells /\ x.len > 0 /\ x.block = q - 1 /\ BlockSize * (q - 1) + x.len = UpToBlock(len, q)
        /\ UpToBlock(len, q - 1) <= BlockSize * (q - 1) /\ UpToBlock(len, q) < Wrap
        /\ UpToBlock(len, q - 1) \in Nat
    BY <2>1, BlockReadIs
  <2>4. x.data = <<blocks[q]>> /\ PlainCell(x)
    <3> DEFINE r == ToRead(len, q)
               v == blocks[q]
    <3>1. DivRoundUp(r) = 1
      <4>1. q \in 1 .. DivRoundUp(len)
        BY <2>1
      <4> QED
        BY <4>1, ToReadIs
    <3> HIDE DEF r
    <3>2. CASE r = BlockSize /\ v \in Uniform
      <4>1. x = Fill(q - 1, r, v)
        BY <3>2 DEF BlockRead, r
      <4> HIDE DEF v
      <4>2. x.data = [i \in 1 .. 1 |-> v] /\ x.src = v
        BY <4>1, <3>1 DEF Fill
      <4>3. x.data = <<v>> /\ Len(x.data) = 1
        BY <4>2
      <4>4. \A i \in 1 .. Len(x.data) : x.data[i] = x.src
        BY <4>2, <4>3
      <4> HIDE DEF x
      <4> QED
        BY <4>3, <4>4 DEF PlainCell, v
    <3>3. CASE ~ (r = BlockSize /\ v \in Uniform)
      <4>1. x = Fd(q - 1, r, fd, (q - 1) * BlockSize, <<v>>)
        BY <3>3 DEF BlockRead, r
      <4> QED
        BY <4>1 DEF Fd, PlainCell
    <3> QED
      BY <3>2, <3>3
  <2> HIDE DEF x
  <2>5. k \in Nat /\ k <= BlockSize * x.block /\ BlockSize * x.block + x.len < Wrap
    BY <2>1, <2>3
  <2>6. Tiled(b[n], k, fd) /\ Plain(b[n])
    BY <1>3, <2>1
  <2> HIDE DEF k
  <2>7. b[q] = Queue(b[n], x)
    BY <1>3, <2>1 DEF x
  <2>8. /\ \A i \in Nat : \A v : Has(b[q], i, v) <=> Has(b[n], i, v) \/ HasIn(x, i, v)
        /\ Plain(b[q])
    BY <2>3, <2>4, <2>5, <2>6, <2>7, QueueHas
  <2>9. ASSUME NEW i \in Nat, NEW v
        PROVE  HasIn(x, i, v) <=> i = q /\ blocks[q] = v
    <3> DEFINE j == i - x.block
    <3>1. Len(x.data) = 1 /\ x.data[1] = blocks[q]
      BY <2>4
    <3>2. j \in 1 .. 1 <=> i = q
      BY <2>1, <2>3
    <3>3. i = q => j = 1
      BY <2>1, <2>3
    <3>4. HasIn(x, i, v) <=> j \in 1 .. 1 /\ x.data[j] = v
      BY <3>1 DEF HasIn
    <3> HIDE DEF j
    <3> QED
      BY <3>1, <3>2, <3>3, <3>4
  <2>10. \A i \in Nat : \A v : Has(b[n], i, v) <=> i \in 1 .. n /\ blocks[i] = v
    OBVIOUS
  <2>11. q \in T
    BY <2>1, <2>2, <2>8, <2>9, <2>10
  <2> QED
    BY <2>11 DEF q
<1> HIDE DEF T
<1>6. N \in T
  <2>1. \A n \in 0 .. N : n \in T
    BY <1>3, <1>4, <1>5, UpTo
  <2> QED
    BY <2>1, <1>3
<1> DEFINE l == s.bbs
<1>7. Plain(l) /\ \A i \in Nat : \A v : Has(l, i, v) <=> i \in 1 .. N /\ blocks[i] = v
  BY <1>3, <1>6 DEF T
<1>8. l \in Seq(Cells) /\ Apart(l) /\ len \in Nat /\ N = DivRoundUp(len)
  BY <1>1 DEF Tiled
<1>9. /\ Image(s) \in Seq(Contents) /\ Len(Image(s)) = N
      /\ \A i \in 1 .. N : Image(s)[i] = Value(l, i)
  <2> HIDE DEF l
  <2>1. s = [len |-> len, bbs |-> l]
    BY <1>1 DEF l
  <2> HIDE DEF s, len, N
  <2> QED
    BY <1>8, <2>1, ImageTyped
<1>10. \A i \in 1 .. N : Value(l, i) = blocks[i]
  <2> TAKE i \in 1 .. N
  <2>1. i \in Nat /\ Has(l, i, blocks[i])
    BY <1>3, <1>7
  <2> HIDE DEF l, N
  <2> QED
    BY <2>1, <1>8, ValueIs
<1> HIDE DEF s, l
<1>11. Image(s) = blocks
  BY <1>9, <1>10, Equal
<1> QED
  BY <1>7, <1>11 DEF s, l

\* A block that two lists have alike.
LEMMA SameValue ==
  ASSUME NEW l \in Seq(Cells), Apart(l), NEW m \in Seq(Cells), Apart(m), NEW i \in Nat,
         \A v \in Contents : Has(l, i, v) <=> Has(m, i, v)
  PROVE  Value(l, i) = Value(m, i)
<1>1. CASE \E v \in Contents : Has(l, i, v)
  <2>1. PICK v \in Contents : Has(l, i, v)
    BY <1>1
  <2>2. Value(l, i) = v
    BY <2>1, ValueIs
  <2>3. Value(m, i) = v
    BY <2>1, ValueIs
  <2> QED
    BY <2>2, <2>3
<1>2. CASE \A v \in Contents : ~ Has(l, i, v)
  BY <1>2, ValueIs
<1> QED
  BY <1>1, <1>2

LEMMA JoinedBlocks ==
  \A a, b \in Seq(Contents) :
    /\ a \o b \in Seq(Contents) /\ Len(a \o b) = Len(a) + Len(b)
    /\ \A i \in 1 .. Len(a) : (a \o b)[i] = a[i]
    /\ \A i \in 1 .. Len(b) : (a \o b)[Len(a) + i] = b[i]
OBVIOUS

\* append2simg adds the blocks of the input behind those of the image.
LEMMA AppendGood ==
  ASSUME NEW len \in Nat, NEW l, Tiled(l, len, "simg"), Plain(l), len % BlockSize = 0,
         NEW image, image = Image([len |-> len, bbs |-> l]), Missing \notin Range(image),
         NEW input \in RawImages, Missing \notin Range(input.blocks), input.len % BlockSize = 0,
         NEW bb, bb = Fd(len \div BlockSize, input.len, "input", 0, input.blocks)
  PROVE  Good([len |-> len + input.len, bbs |-> Queue(l, bb)], image \o input.blocks)
<1> DEFINE a == len \div BlockSize
           n == input.len
           blocks == input.blocks
           N == Len(blocks)
           new == Queue(l, bb)
           m == Len(l)
           both == image \o blocks
<1>1. a \in Nat /\ len = BlockSize * a /\ DivRoundUp(len) = a
  <2>1. a \in Nat /\ len = BlockSize * a + (len % BlockSize)
    BY Division
  <2> HIDE DEF a
  <2>2. BlockSize * a \in Nat /\ DivRoundUp(BlockSize * a) = a
    BY <2>1, WholeBlocks
  <2> QED
    BY <2>1, <2>2
<1>2. n \in Nat /\ blocks \in Seq(Contents) /\ N = DivRoundUp(n) /\ N \in Nat
  BY DEF RawImages
<1>3. /\ l \in Seq(Cells) /\ Apart(l) /\ m \in Nat
      /\ \A i \in 1 .. m : /\ l[i] \in Cells /\ l[i].len > 0 /\ BlockSize * l[i].block + l[i].len <= len
                           /\ l[i].type = "fd" => l[i].src = "simg"
  BY DEF Tiled
<1>4. /\ bb \in Cells /\ bb.block = a /\ bb.len = n /\ bb.type = "fd" /\ bb.src = "input" /\ bb.off = 0
      /\ bb.data = blocks
  <2>1. "input" \in Fds
    BY DEF Fds
  <2> HIDE DEF a, n, blocks
  <2>2. bb = Fd(a, n, "input", 0, blocks)
    BY DEF a, n, blocks
  <2>3. /\ bb \in Cells /\ bb.block = a /\ bb.len = n /\ bb.type = "fd" /\ bb.src = "input" /\ bb.off = 0
    BY <1>1, <1>2, <2>1, <2>2, FdIsCell
  <2>4. bb.data = blocks
    BY <2>2 DEF Fd
  <2> QED
    BY <2>3, <2>4
<1> HIDE DEF a, n, blocks, N
<1>m. m \in Nat /\ a \in Nat /\ N \in Nat /\ n \in Nat
  BY <1>1, <1>2, <1>3
<1>5. \A i \in 1 .. m : EndOf(l[i]) <= a /\ l[i].block < a
  <2> TAKE i \in 1 .. m
  <2>1. l[i] \in Cells /\ l[i].len > 0
    BY <1>3, Zenon
  <2>2. BlockSize * l[i].block + l[i].len <= BlockSize * a
    BY <1>1, <1>3, Zenon
  <2> QED
    BY <2>1, <2>2, <1>m, EndsBefore
<1>6. new = l \o <<bb>>
  <2>1. \A i \in 1 .. Len(l) : l[i].block < bb.block
    BY <1>4, <1>5
  <2>2. ~ (l # <<>> /\ CanMerge(l[m], bb))
    <3> SUFFICES ASSUME l # <<>>, CanMerge(l[m], bb)
                 PROVE  FALSE
      OBVIOUS
    <3>1. m \in 1 .. m
      BY <1>3
    <3>2. l[m].type = "fd" /\ l[m].src = "input"
      BY <1>4 DEF CanMerge
    <3>3. l[m].type = "fd" => l[m].src = "simg"
      BY <3>1, <1>3, Zenon
    <3> QED
      BY <3>2, <3>3
  <2> QED
    BY <1>3, <1>4, <2>1, <2>2, QueueIs
<1>7. /\ new \in Seq(Cells) /\ Len(new) = m + 1 /\ new[m + 1] = bb /\ \A i \in 1 .. m : new[i] = l[i]
      /\ \A i, v : Has(new, i, v) <=> Has(l, i, v) \/ HasIn(bb, i, v)
  <2>1. l \o <<bb>> \in Seq(Cells) /\ \A i, v : Has(l \o <<bb>>, i, v) <=> Has(l, i, v) \/ HasIn(bb, i, v)
    BY <1>3, <1>4, AppendHas
  <2>2. /\ Len(l \o <<bb>>) = m + 1 /\ (l \o <<bb>>)[m + 1] = bb
        /\ \A i \in 1 .. m : (l \o <<bb>>)[i] = l[i]
    BY <1>3, <1>4
  <2> QED
    BY <1>6, <2>1, <2>2
<1> HIDE DEF new, m
<1>8. Apart(new)
  <2> SUFFICES ASSUME NEW i \in 1 .. m
               PROVE  EndOf(new[i]) <= new[i + 1].block
    BY <1>3, <1>7 DEF Apart
  <2>1. CASE i = m
    <3>1. new[i] = l[i] /\ new[i + 1] = bb
      BY <2>1, <1>7
    <3> QED
      BY <3>1, <1>4, <1>5
  <2>2. CASE i # m
    <3> DEFINE q == i + 1
    <3>1. i \in 1 .. m - 1 /\ q \in 1 .. m
      BY <2>2, <1>3
    <3>2. new[i] = l[i] /\ new[q] = l[q]
      BY <3>1, <1>7
    <3>3. EndOf(l[i]) <= l[i + 1].block
      BY <3>1, <1>3 DEF Apart, m
    <3> QED
      BY <3>2, <3>3
  <2> QED
    BY <2>1, <2>2
<1>9. DivRoundUp(len + n) = a + N /\ len + n \in Nat
  <2>1. DivRoundUp(BlockSize * a + n) = a + DivRoundUp(n)
    BY <1>m, RoundUpSum
  <2>2. DivRoundUp(len + n) = a + N
    BY <2>1, <1>1, <1>2
  <2>3. len + n \in Nat
    BY <1>m
  <2> QED
    BY <2>2, <2>3
<1>10. EndOf(bb) = a + N
  BY <1>2, <1>4 DEF EndOf
<1>11. \A i \in 1 .. m + 1 : EndOf(new[i]) <= a + N
  <2> TAKE i \in 1 .. m + 1
  <2>1. CASE i = m + 1
    BY <2>1, <1>1, <1>2, <1>7, <1>10
  <2>2. CASE i # m + 1
    <3>1. i \in 1 .. m
      BY <2>2, <1>m
    <3>2. EndOf(l[i]) <= a /\ EndOf(l[i]) \in Nat
      <4>1. l[i] \in Cells
        BY <3>1, <1>3, Zenon
      <4> QED
        BY <3>1, <4>1, <1>5, EndIs
    <3> QED
      BY <3>1, <3>2, <1>m, <1>7
  <2> QED
    BY <2>1, <2>2
<1>12. new \in Seq(Sane)
  <2>1. l \in Seq(Sane)
    <3>1. Good([len |-> len, bbs |-> l], image)
      BY TiledGood
    <3> QED
      BY <3>1 DEF Good
  <2>2. bb \in Sane
    <3>1. Known(bb)
      <4>1. \A i \in 1 .. Len(blocks) : blocks[i] # Missing
        BY <1>2 DEF Range, blocks
      <4> QED
        BY <4>1, <1>4 DEF Known
    <3>2. PlainCell(bb)
      BY <1>4 DEF PlainCell
    <3>3. bb.len > 0 \/ ~ Mappable(bb)
      BY <1>2, <1>4 DEF Mappable
    <3> QED
      BY <1>4, <3>1, <3>2, <3>3 DEF Sane, Usable
  <2>3. l \o <<bb>> \in Seq(Sane)
    BY <2>1, <2>2
  <2> QED
    BY <2>3, <1>6
<1> DEFINE s == [len |-> len + n, bbs |-> new]
<1>13. image \in Seq(Contents) /\ Len(image) = a /\ \A i \in 1 .. a : image[i] = Value(l, i)
  <2> HIDE DEF a
  <2> QED
    BY <1>1, <1>3, ImageTyped
<1>14. Image(s) \in Seq(Contents) /\ Len(Image(s)) = a + N /\ \A i \in 1 .. a + N : Image(s)[i] = Value(new, i)
  BY <1>7, <1>8, <1>9, ImageTyped
<1>15. /\ both \in Seq(Contents) /\ Len(both) = a + N
       /\ (\A i \in 1 .. a : both[i] = image[i])
       /\ \A i \in 1 .. N : both[a + i] = blocks[i]
  <2>1. Len(blocks) = N
    BY DEF N
  <2>2. /\ image \o blocks \in Seq(Contents) /\ Len(image \o blocks) = Len(image) + Len(blocks)
        /\ (\A i \in 1 .. Len(image) : (image \o blocks)[i] = image[i])
        /\ \A i \in 1 .. Len(blocks) : (image \o blocks)[Len(image) + i] = blocks[i]
    BY <1>2, <1>13, JoinedBlocks, Zenon
  <2>3. Len(image) = a
    BY <1>13
  <2> QED
    BY <2>1, <2>2, <2>3
<1> HIDE DEF both, s
<1>16. ASSUME NEW i \in 1 .. a
       PROVE  Value(new, i) = both[i]
  <2>1. \A v : ~ HasIn(bb, i, v)
    <3>1. ~ (i - bb.block \in 1 .. Len(bb.data))
      BY <1>1, <1>4
    <3> QED
      BY <3>1 DEF HasIn
  <2>2. i \in Nat /\ \A v \in Contents : Has(l, i, v) <=> Has(new, i, v)
    BY <1>7, <2>1, <1>1
  <2>3. Value(l, i) = Value(new, i)
    BY <2>2, <1>3, <1>7, <1>8, SameValue
  <2> QED
    BY <2>3, <1>13, <1>15
<1>17. ASSUME NEW j \in 1 .. N
       PROVE  Value(new, a + j) = both[a + j]
  <2> DEFINE i == a + j
  <2>1. i - bb.block = j /\ i \in Nat /\ Len(bb.data) = N
    BY <1>1, <1>2, <1>4 DEF N
  <2> HIDE DEF i
  <2>2. HasIn(bb, i, blocks[j])
    BY <2>1, <1>4 DEF HasIn
  <2>3. Has(new, i, blocks[j])
    BY <2>2, <1>7
  <2>4. Value(new, i) = blocks[j]
    BY <2>1, <2>3, <1>7, <1>8, ValueIs
  <2> QED
    BY <2>4, <1>15 DEF i
<1>18. Image(s) = both
  <2>1. ASSUME NEW i \in 1 .. a + N
        PROVE  Image(s)[i] = both[i]
    <3>1. CASE i <= a
      <4>1. i \in 1 .. a
        BY <3>1, <1>1, <1>2
      <4> QED
        BY <4>1, <1>14, <1>16
    <3>2. CASE ~ (i <= a)
      <4> DEFINE j == i - a
      <4>1. j \in 1 .. N /\ i = a + j
        BY <3>2, <1>1, <1>2
      <4> HIDE DEF j
      <4>2. Value(new, i) = both[i]
        BY <4>1, <1>17
      <4> QED
        BY <4>2, <1>14
    <3> QED
      BY <3>1, <3>2
  <2> QED
    BY <2>1, <1>14, <1>15, Equal
<1>19. Missing \notin Range(both)
  <2> SUFFICES ASSUME NEW i \in 1 .. a + N, both[i] = Missing
               PROVE  FALSE
    BY <1>15 DEF Range
  <2>1. CASE i <= a
    <3>1. i \in 1 .. a
      BY <2>1, <1>1, <1>2
    <3>2. image[i] = Missing /\ i \in DOMAIN image
      BY <3>1, <1>13, <1>15
    <3> QED
      BY <3>2 DEF Range
  <2>2. CASE ~ (i <= a)
    <3> DEFINE j == i - a
    <3>1. j \in 1 .. N /\ i = a + j
      BY <2>2, <1>1, <1>2
    <3> HIDE DEF j
    <3>2. blocks[j] = Missing /\ j \in DOMAIN blocks
      BY <3>1, <1>2, <1>15 DEF N
    <3> QED
      BY <3>2 DEF Range, blocks
  <2> QED
    BY <2>1, <2>2
<1>20. Good(s, both)
  <2>1. s = [len |-> len + n, bbs |-> new] /\ s.len = len + n /\ s.bbs = new
    BY DEF s
  <2>2. \A i \in 1 .. Len(s.bbs) : EndOf(s.bbs[i]) <= DivRoundUp(s.len)
    BY <2>1, <1>7, <1>9, <1>11
  <2>3. s = [len |-> s.len, bbs |-> s.bbs]
    BY <2>1
  <2> QED
    BY <2>1, <2>2, <2>3, <1>8, <1>9, <1>12, <1>18, <1>19 DEF Good
<1> QED
  BY <1>20 DEF s, both, n, new, blocks

-----------------------------------------------------------------------------
(***************************************************************************)
(* The second inductive invariant: what the files expand to.  What is to   *)
(* be written reads back as the image, what is written is a part of that,  *)
(* and what is cut still makes up the image.                               *)
(***************************************************************************)

LEMMA KeptStops ==
  ASSUME PiecesInv', "simg" \in DOMAIN want', SimgKept(files', want'.simg), proc' = Idle
  PROVE  SimgInv'
BY DEF SimgInv, Running

LEMMA KeptGoes ==
  ASSUME PiecesInv', "simg" \in DOMAIN want', SimgKept(files', want'.simg),
         proc'.tool = "img2simg" => want'.simg = Unknown, Streamed(proc', files'), Kept(proc')
  PROVE  SimgInv'
BY DEF SimgInv, Running

\* A process that is not about to cut keeps nothing.
LEMMA NotCutting ==
  ASSUME NEW p, p.pc \notin {"count", "split"}
  PROVE  Kept(p)
BY DEF Kept

\* A process that streams nothing.
LEMMA NotStreaming ==
  ASSUME NEW p, NEW fs, p.tool \notin {"img2simg", "append2simg"} \/ p.lost
  PROVE  Streamed(p, fs)
BY DEF Streamed

\* Writing another file.
LEMMA OthersKept ==
  ASSUME NEW fs, FilesOK(fs), NEW image, SimgKept(fs, image), NEW t, t \notin {"raw", "input"},
         t = "simg" => image = Unknown, NEW g
  PROVE  SimgKept([fs EXCEPT ![t] = g], image)
<1> DEFINE new == [fs EXCEPT ![t] = g]
<1>1. {"raw", "input", "simg"} \subseteq Names
  BY DEF Names
<1>2. \A n \in Names : n # t => new[n] = fs[n]
  BY DEF FilesOK
<1> HIDE DEF new
<1>3. new["raw"] = fs["raw"] /\ new["input"] = fs["input"] /\ (t # "simg" => new["simg"] = fs["simg"])
  BY <1>1, <1>2
<1>4. SimgKept(new, image)
  BY <1>3 DEF SimgKept
<1> QED
  BY <1>4 DEF new

\* The file a process writes is not one that is read.
LEMMA TargetIs ==
  ASSUME NEW fs, NEW p, ProcOK(p, fs), p.pc = "write"
  PROVE  p.target \notin {"raw", "input"} /\ (p.target = "simg" => p.tool = "img2simg")
<1>1. CASE Streaming(p, fs)
  BY <1>1 DEF Streaming, Target, Tmp
<1>2. CASE Restoring(p)
  BY <1>2 DEF Restoring
<1>3. CASE Cutting(p, fs)
  <2> DEFINE j == p.i - 1
  <2>1. p.target = PieceNames[j] /\ j \in 1 .. p.c /\ p.c \in Nat /\ p.c <= Len(PieceNames)
    BY <1>3 DEF Cutting, CutType
  <2> HIDE DEF j
  <2>2. j \in 1 .. Len(PieceNames)
    BY <2>1, PieceNameIs
  <2> QED
    BY <2>1, <2>2, PieceNameIs
<1> QED
  BY <1>1, <1>2, <1>3 DEF ProcOK

LEMMA GoalStays ==
  ASSUME NEW p, IsProc(p), NEW op
  PROVE  Advance(p, op).goal = p.goal
BY DEF Advance, IsProc, Fields

LEMMA PutAtAt ==
  ASSUME NEW S, NEW items \in Seq(S), NEW at \in Nat \ {0}, NEW x, NEW z,
         NEW new, new = PutAt(items, at, <<x>>, z)
  PROVE  /\ new[at] = x /\ at <= Len(new)
         /\ \A i \in 1 .. Len(items) : i # at => new[i] = items[i]
<1> DEFINE n == Len(items)
           m == IF n > at THEN n ELSE at
           s == [i \in 1 .. m |-> IF i = at THEN x ELSE IF i <= n THEN items[i] ELSE z]
<1>1. n \in Nat /\ m \in Nat /\ n <= m /\ at <= m
  OBVIOUS
<1>2. PutAt(items, at, <<x>>, z) = s
  <2> DEFINE u == <<x>>
             e == IF n > at - 1 + Len(u) THEN n ELSE at - 1 + Len(u)
  <2>1. Len(u) = 1 /\ u[1] = x
    OBVIOUS
  <2> HIDE DEF u
  <2>2. e = m
    BY <2>1, <1>1
  <2>3. \A i \in 1 .. m : (IF i \in at .. at - 1 + Len(u) THEN u[i - at + 1] ELSE IF i <= n THEN items[i] ELSE z)
                          = IF i = at THEN x ELSE IF i <= n THEN items[i] ELSE z
    <3> TAKE i \in 1 .. m
    <3>1. CASE i = at
      <4>1. i - at + 1 = 1 /\ i \in at .. at - 1 + Len(u)
        BY <3>1, <2>1
      <4> QED
        BY <4>1, <2>1, <3>1
    <3>2. CASE i # at
      <4>1. i \notin at .. at - 1 + Len(u)
        BY <3>2, <2>1
      <4> QED
        BY <4>1, <3>2
    <3> QED
      BY <3>1, <3>2
  <2>4. PutAt(items, at, u, z) =
          [i \in 1 .. e |-> IF i \in at .. at - 1 + Len(u) THEN u[i - at + 1] ELSE IF i <= n THEN items[i] ELSE z]
    BY DEF PutAt
  <2> HIDE DEF e, m
  <2>5. PutAt(items, at, u, z) = s
    BY <2>2, <2>3, <2>4
  <2> QED
    BY <2>5 DEF u

<1> HIDE DEF n, m
<1>3. Len(s) = m /\ \A i \in 1 .. m : s[i] = IF i = at THEN x ELSE IF i <= n THEN items[i] ELSE z
  BY <1>1
<1> HIDE DEF s
<1>4. s[at] = x /\ at <= Len(s) /\ \A i \in 1 .. n : i # at => s[i] = items[i]
  BY <1>1, <1>3
<1> QED
  BY <1>2, <1>4 DEF n

\* What is left of a list without its first element.
LEMMA TailOfPart ==
  ASSUME NEW S, NEW l \in Seq(S), NEW k \in 0 .. Len(l), SubSeq(l, k + 1, Len(l)) # <<>>
  PROVE  /\ k + 1 \in 1 .. Len(l) /\ Head(SubSeq(l, k + 1, Len(l))) = l[k + 1]
         /\ Tail(SubSeq(l, k + 1, Len(l))) = SubSeq(l, k + 2, Len(l))
<1> DEFINE n == Len(l)
           m == k + 1
           a == SubSeq(l, m, n)
           b == SubSeq(l, k + 2, n)
<1>1. n \in Nat /\ m \in 1 .. n + 1 /\ n \in m - 1 .. n
  OBVIOUS
<1>2. a \in Seq(S) /\ Len(a) = n - m + 1 /\ \A i \in 1 .. n - m + 1 : a[i] = l[m + i - 1]
  BY <1>1, Part
<1>3. Len(a) # 0
  BY <1>2
<1>4. m \in 1 .. n
  BY <1>1, <1>2, <1>3
<1>5. b \in Seq(S) /\ Len(b) = n - m /\ \A i \in 1 .. n - m : b[i] = l[m + i]
  <2> DEFINE j == k + 2
  <2>1. j \in 1 .. Len(l) + 1 /\ n \in j - 1 .. Len(l) /\ n - j + 1 = n - m
    BY <1>1, <1>4
  <2>2. SubSeq(l, j, n) \in Seq(S) /\ Len(SubSeq(l, j, n)) = n - j + 1
        /\ \A i \in 1 .. n - j + 1 : SubSeq(l, j, n)[i] = l[j + i - 1]
    BY <2>1, Part
  <2>3. \A i \in 1 .. n - m : j + i - 1 = m + i
    BY <1>1
  <2> QED
    BY <2>1, <2>2, <2>3
<1> HIDE DEF a, b, m
<1>6. Tail(a) \in Seq(S) /\ Len(Tail(a)) = n - m /\ Head(a) = a[1]
      /\ \A i \in 1 .. n - m : Tail(a)[i] = a[i + 1]
  <2>1. a # <<>> /\ Len(a) - 1 = n - m
    BY <1>1, <1>2, <1>3, <1>4
  <2>2. Tail(a) \in Seq(S) /\ Len(Tail(a)) = Len(a) - 1
    BY <1>2, <2>1
  <2>3. \A i \in 1 .. Len(a) - 1 : Tail(a)[i] = a[i + 1]
    BY <1>2, <2>1
  <2> QED
    BY <2>1, <2>2, <2>3
<1>7. Tail(a) = b
  <2>1. \A i \in 1 .. n - m : a[i + 1] = l[m + i]
    <3> TAKE i \in 1 .. n - m
    <3>1. i + 1 \in 1 .. n - m + 1 /\ m + (i + 1) - 1 = m + i
      BY <1>1, <1>4
    <3> QED
      BY <3>1, <1>2
  <2>2. \A i \in 1 .. Len(b) : Tail(a)[i] = b[i]
    BY <1>5, <1>6, <2>1
  <2> QED
    BY <1>5, <1>6, <2>2, Equal
<1>8. Head(a) = l[m]
  <2>1. 1 \in 1 .. n - m + 1 /\ m + 1 - 1 = m
    BY <1>1, <1>4
  <2> QED
    BY <1>2, <1>6, <2>1
<1> QED
  BY <1>4, <1>7, <1>8 DEF a, b, m

LEMMA PlanIs ==
  ASSUME NEW s, NEW image, Good(s, image)
  PROVE  /\ Plan(s) \in Seq(Headers \union Skips \union Usable)
         /\ Len(Plan(s)) = Len(AllBlocks(s)) + 1 /\ Len(Plan(s)) \in Nat
<1> DEFINE W == Headers \union Skips \union Usable
           h == Header(s)
           a == AllBlocks(s)
           l == s.bbs
<1>1. l \in Seq(Usable) /\ s.len \in Nat
  <2>1. l \in Seq(Sane) /\ s.len \in Nat
    BY DEF Good
  <2>2. Sane \subseteq Usable
    BY DEF Sane
  <2> QED
    BY <2>1, <2>2
<1>2. h \in Headers
  <2>1. l \in Seq(Cells)
    BY <1>1 DEF Usable
  <2> QED
    BY <1>1, <2>1, HeaderIs
<1>3. a \in Seq(Skips \union Usable)
  <2>1. Usable \in SUBSET Cells
    BY DEF Usable
  <2> QED
    BY <1>1, <2>1, AllBlocksIs
<1> HIDE DEF h, a
<1>4. h \in W /\ a \in Seq(W)
  BY <1>2, <1>3
<1> HIDE DEF W
<1>5. <<h>> \in Seq(W) /\ Len(<<h>>) = 1
  BY <1>4
<1> DEFINE v == <<h>>
<1>6. v \in Seq(W) /\ Len(v) = 1
  BY <1>5
<1> HIDE DEF v
<1>7. v \o a \in Seq(W) /\ Len(v \o a) = Len(v) + Len(a)
  BY <1>4, <1>6, Joined
<1>8. Plan(s) = v \o a
  BY DEF Plan, v, h, a
<1>9. Len(a) \in Nat
  BY <1>4
<1>10. Len(v \o a) = Len(a) + 1 /\ Len(a) + 1 \in Nat
  BY <1>6, <1>7, <1>9
<1> QED
  BY <1>7, <1>8, <1>10 DEF W, a

\* One more item of the plan is written.
LEMMA OnFileNext ==
  ASSUME NEW s, NEW f \in SparseFiles, NEW k \in Nat, OnFile(f, s, k),
         NEW op, op = Plan(s)[k + 1], Writable(op), Mappable(op)
  PROVE  OnFile([kind |-> "sparse", items |-> PutAt(f.items, k + 1, <<OnDisk(op)>>, Torn)], s, k + 1)
<1> DEFINE items == f.items
           at == k + 1
           x == OnDisk(op)
           new == PutAt(items, at, <<x>>, Torn)
           g == [kind |-> "sparse", items |-> new]
<1>1. items \in Seq(Items) /\ at \in Nat \ {0} /\ k <= Len(items) /\ Len(items) \in Nat
  BY SparseFileIs DEF OnFile
<1>2. \A i \in 1 .. k : items[i] = OnDisk(Plan(s)[i]) /\ Writable(Plan(s)[i]) /\ Mappable(Plan(s)[i])
  BY DEF OnFile, Plan
<1> HIDE DEF items, x
<1>3. new[at] = x /\ at <= Len(new) /\ \A i \in 1 .. Len(items) : i # at => new[i] = items[i]
  <2> HIDE DEF at
  <2>1. new = PutAt(items, at, <<x>>, Torn)
    OBVIOUS
  <2> HIDE DEF new
  <2>2. items \in Seq(Items)
    BY <1>1
  <2>3. at \in Nat \ {0}
    BY <1>1
  <2>4. new[at] = x
    BY <2>1, <2>2, <2>3, PutAtAt
  <2>5. at <= Len(new)
    BY <2>1, <2>2, <2>3, PutAtAt
  <2>6. \A i \in 1 .. Len(items) : i # at => new[i] = items[i]
    BY <2>1, <2>2, <2>3, PutAtAt
  <2> QED
    BY <2>4, <2>5, <2>6
<1>4. \A i \in 1 .. at : i = at \/ (i \in 1 .. k /\ i \in 1 .. Len(items) /\ i # at)
  BY <1>1
<1> HIDE DEF new
<1>5. \A i \in 1 .. at : new[i] = OnDisk(Plan(s)[i]) /\ Writable(Plan(s)[i]) /\ Mappable(Plan(s)[i])
  <2> HIDE DEF at
  <2> TAKE i \in 1 .. at
  <2>1. CASE i = at
    BY <2>1, <1>3 DEF x, at
  <2>2. CASE i # at
    BY <2>2, <1>2, <1>3, <1>4
  <2> QED
    BY <2>1, <2>2
<1>6. g.kind = "sparse" /\ g.items = new
  OBVIOUS
<1> HIDE DEF g
<1>7. OnFile(g, s, at)
  BY <1>3, <1>5, <1>6 DEF OnFile, Plan
<1> QED
  BY <1>7 DEF g, new, x, items

\* img2simg or append2simg writes the next item of its plan.
LEMMA StreamedOn ==
  ASSUME NEW fs, FilesOK(fs), NEW p, IsProc(p), Streaming(p, fs), Streamed(p, fs),
         p.pc = "write", p.todo # <<>>, NEW op, op = Head(p.todo), Mappable(op), Writable(op)
  PROVE  Streamed(Advance(p, op), [fs EXCEPT ![p.target] = Written(@, op, p.at)])
<1> DEFINE q == Advance(p, op)
           t == p.target
           f == fs[t]
           g == Written(f, op, p.at)
           new == [fs EXCEPT ![t] = g]
           s == p.s
           plan == Plan(s)
           n == Len(plan)
<1>1. /\ t = Target(p.tool) /\ f \in SparseFiles /\ p.mode = "sparse" /\ t \in Names
      /\ f = [kind |-> "sparse", items |-> f.items]
  <2>1. t = Target(p.tool) /\ fs[Target(p.tool)] \in SparseFiles /\ p.mode = "sparse"
    BY DEF Streaming
  <2>2. t \in Names
    BY <2>1 DEF Target, Names
  <2>3. f = [kind |-> "sparse", items |-> f.items]
    <3> HIDE DEF t
    <3> QED
      BY <2>1, SparseFileIs
  <2> QED
    BY <2>1, <2>2, <2>3
<1>2. /\ SameRun(q, p) /\ q.todo = Tail(p.todo) /\ q.lost = p.lost /\ q.goal = p.goal /\ q.at = p.at + 1
  BY <1>1, AdvanceIs, GoalStays
<1> HIDE DEF q
<1> SUFFICES ASSUME q.tool \in {"img2simg", "append2simg"}, ~ q.lost, q.goal # Unknown
             PROVE  Streamed(q, new)
  BY DEF Streamed, q
<1>3. /\ Good(s, p.goal)
      /\ \E k \in 0 .. n : p.at = k + 1 /\ p.todo = SubSeq(plan, k + 1, n) /\ OnFile(f, s, k)
  BY <1>1, <1>2 DEF Streamed, SameRun
<1>4. PICK k \in 0 .. n : p.at = k + 1 /\ p.todo = SubSeq(plan, k + 1, n) /\ OnFile(f, s, k)
  BY <1>3
<1> DEFINE W == Headers \union Skips \union Usable
<1>5. plan \in Seq(W) /\ n \in Nat
  BY <1>3, PlanIs
<1> HIDE DEF s, plan, W
<1>6. k + 1 \in 1 .. n /\ op = plan[k + 1] /\ Tail(p.todo) = SubSeq(plan, k + 2, n)
  BY <1>4, <1>5, TailOfPart
<1>7. g = [kind |-> "sparse", items |-> PutAt(f.items, k + 1, <<OnDisk(op)>>, Torn)]
  <2> HIDE DEF f
  <2> QED
    BY <1>1, <1>4, WrittenIs
<1>8. OnFile(g, s, k + 1)
  <2>1. k \in Nat /\ op = Plan(s)[k + 1]
    BY <1>5, <1>6 DEF plan
  <2> HIDE DEF f, g
  <2>2. OnFile([kind |-> "sparse", items |-> PutAt(f.items, k + 1, <<OnDisk(op)>>, Torn)], s, k + 1)
    BY <1>1, <1>4, <2>1, OnFileNext
  <2> QED
    BY <1>7, <2>2
<1>9. new[t] = g
  BY <1>1 DEF FilesOK
<1> HIDE DEF g, new
<1> DEFINE j == k + 1
<1>10. j \in 0 .. n /\ q.at = j + 1 /\ q.todo = SubSeq(plan, j + 1, n)
  <2>1. j + 1 = k + 2 /\ j \in 0 .. n /\ q.at = j + 1
    BY <1>2, <1>4, <1>6
  <2> HIDE DEF j
  <2> QED
    BY <1>2, <1>6, <2>1
<1>11. q.s = s /\ q.pc = "write" /\ Target(q.tool) = t
  BY <1>1, <1>2 DEF SameRun, s
<1>12. OnFile(new[t], s, j)
  BY <1>8, <1>9
<1> HIDE DEF j
<1>13. \E i \in 0 .. n : q.at = i + 1 /\ q.todo = SubSeq(plan, i + 1, n) /\ OnFile(new[t], s, i)
  BY <1>10, <1>12
<1> QED
  BY <1>2, <1>3, <1>11, <1>13 DEF Streamed, plan

\* The whole plan is written.
LEMMA StreamedAll ==
  ASSUME NEW fs, NEW p, IsProc(p), Streamed(p, fs), p.pc = "write", p.todo = <<>>, p.then # "write"
  PROVE  Streamed([p EXCEPT !.pc = p.then], fs)
<1> DEFINE q == [p EXCEPT !.pc = p.then]
           s == p.s
           plan == Plan(s)
           n == Len(plan)
           f == fs[Target(p.tool)]
<1>1. q.tool = p.tool /\ q.s = p.s /\ q.lost = p.lost /\ q.goal = p.goal /\ q.pc # "write"
  BY DEF IsProc, Fields
<1> HIDE DEF q
<1> SUFFICES ASSUME p.tool \in {"img2simg", "append2simg"}, ~ p.lost, p.goal # Unknown
             PROVE  Good(s, p.goal) /\ OnFile(f, s, n)
  BY <1>1 DEF Streamed, q
<1>2. /\ Good(s, p.goal)
      /\ \E k \in 0 .. n : p.todo = SubSeq(plan, k + 1, n) /\ OnFile(f, s, k)
  BY DEF Streamed
<1>3. PICK k \in 0 .. n : p.todo = SubSeq(plan, k + 1, n) /\ OnFile(f, s, k)
  BY <1>2
<1> DEFINE W == Headers \union Skips \union Usable
<1>4. plan \in Seq(W) /\ n \in Nat
  BY <1>2, PlanIs
<1> HIDE DEF s, plan, W, f
<1>5. k = n
  <2> SUFFICES ASSUME k # n PROVE FALSE
    OBVIOUS
  <2> DEFINE m == k + 1
  <2>1. m \in 1 .. Len(plan) + 1 /\ n \in m - 1 .. Len(plan) /\ n - m + 1 > 0
    BY <1>4
  <2> HIDE DEF m
  <2>2. Len(SubSeq(plan, m, n)) = n - m + 1
    BY <1>4, <2>1, Part
  <2>3. SubSeq(plan, m, n) = <<>>
    BY <1>3 DEF m
  <2>4. Len(SubSeq(plan, m, n)) = 0
    BY <2>3
  <2> QED
    BY <2>1, <2>2, <2>4
<1> QED
  BY <1>2, <1>3, <1>5

\* The file that was promised reads back.
LEMMA Delivers ==
  ASSUME NEW fs, NEW p, Streaming(p, fs), Streamed(p, fs), p.pc # "write",
         ~ p.lost, p.goal # Unknown, BlockSize * DivRoundUp(p.s.len) < Wrap
  PROVE  Holds(fs[Target(p.tool)], p.goal) /\ Missing \notin Range(p.goal)
<1> DEFINE f == fs[Target(p.tool)]
           s == p.s
           l == s.bbs
<1>1. p.tool \in {"img2simg", "append2simg"} /\ f \in SparseFiles
  BY DEF Streaming
<1>2. Good(s, p.goal) /\ OnFile(f, s, Len(Plan(s)))
  BY <1>1 DEF Streamed
<1>3. Len(Plan(s)) = Len(AllBlocks(s)) + 1
  BY <1>2, PlanIs
<1> HIDE DEF f, s
<1>4. f.items \in Seq(Items) /\ f.kind = "sparse"
  BY <1>1, SparseFileIs
<1>5. /\ s.len \in Nat /\ l \in Seq(Sane) /\ Apart(l) /\ \A i \in 1 .. Len(l) : EndOf(l[i]) <= DivRoundUp(s.len)
      /\ Image(s) = p.goal /\ Missing \notin Range(p.goal)
  BY <1>2 DEF Good
<1>6. BlockSize * DivRoundUp(s.len) < Wrap
  BY DEF s
<1>7. l = s.bbs
  OBVIOUS
<1> HIDE DEF l
<1>8. Importable(f) /\ Image(Import(f, "simg")) = Image(s)
  BY <1>2, <1>3, <1>4, <1>5, <1>6, <1>7, ReadsBack
<1>9. Holds(f, p.goal)
  BY <1>4, <1>5, <1>8 DEF Holds
<1> QED
  BY <1>5, <1>9 DEF f

LEMMA WritesKeep ==
  ASSUME SimgInv, PiecesInv', WriteChunk \/ WriteRefused \/ WriteFails
  PROVE  SimgInv'
<1> DEFINE op == Head(proc.todo)
           t == proc.target
           a == Advance(proc, op)
           b == [proc EXCEPT !.todo = Tail(@), !.lost = TRUE]
           c == [Advance(proc, op) EXCEPT !.lost = TRUE]
           new == [files EXCEPT ![t] = Written(@, op, proc.at)]
<1>1. /\ FilesOK(files) /\ ProcOK(proc, files) /\ IsProc(proc) /\ proc.pc = "write" /\ proc.todo # <<>>
      /\ want' = want /\ "simg" \in DOMAIN want /\ SimgKept(files, want.simg)
      /\ (proc.tool = "img2simg" => want.simg = Unknown) /\ Streamed(proc, files)
  BY DEF SimgInv, PiecesInv, ProcOK, WriteChunk, WriteRefused, WriteFails
<1>2. t \notin {"raw", "input"} /\ (t = "simg" => want.simg = Unknown)
  BY <1>1, TargetIs
<1>3. \A g : SimgKept([files EXCEPT ![t] = g], want.simg)
  BY <1>1, <1>2, OthersKept
<1>4. /\ a.tool = proc.tool /\ a.pc = "write" /\ IsProc(a)
      /\ b.tool = proc.tool /\ b.pc = "write" /\ b.lost = TRUE
  <2>1. IsProc(a) /\ SameRun(a, proc)
    BY <1>1, AdvanceIs
  <2>2. SameRun(b, proc) /\ b.lost = TRUE
    BY <1>1, DroppedIs
  <2> HIDE DEF a, b
  <2> QED
    BY <1>1, <2>1, <2>2 DEF SameRun
<1>5. c.tool = proc.tool /\ c.pc = "write" /\ c.lost = TRUE
  <2> HIDE DEF a
  <2>1. LET q == [a EXCEPT !.lost = TRUE] IN q.tool = a.tool /\ q.pc = a.pc /\ q.lost = TRUE
    BY <1>4, LostIs DEF SameRun
  <2> QED
    BY <1>4, <2>1 DEF a
<1>6. Kept(a) /\ Kept(b) /\ Kept(c)
  <2> HIDE DEF a, b, c
  <2> QED
    BY <1>4, <1>5, NotCutting
<1>7. \A fs : Streamed(b, fs) /\ Streamed(c, fs)
  <2> HIDE DEF b, c
  <2> QED
    BY <1>4, <1>5, NotStreaming
<1>8. CASE WriteChunk
  <2>1. \/ proc' = a /\ files' = new /\ Mappable(op) /\ (proc.mode = "normal" \/ Writable(op))
        \/ proc' = b /\ files' = files
    BY <1>8 DEF WriteChunk, Op
  <2>2. ASSUME Mappable(op), proc.mode = "normal" \/ Writable(op)
        PROVE  Streamed(a, new)
    <3>1. CASE Streaming(proc, files)
      <4>1. Writable(op)
        <5>1. proc.mode = "sparse"
          BY <1>1, <3>1 DEF Streaming
        <5> QED
          BY <2>2, <5>1
      <4>2. op = Head(proc.todo)
        OBVIOUS
      <4> HIDE DEF op
      <4> QED
        BY <1>1, <2>2, <3>1, <4>1, <4>2, StreamedOn
    <3>2. CASE ~ Streaming(proc, files)
      <4>1. a.tool \notin {"img2simg", "append2simg"}
        BY <1>1, <1>4, <3>2 DEF ProcOK, Restoring, Cutting
      <4> HIDE DEF a, new
      <4> QED
        BY <4>1, NotStreaming
    <3> QED
      BY <3>1, <3>2
  <2>3. SimgKept(new, want.simg)
    BY <1>3
  <2> HIDE DEF a, b, new, op
  <2>4. SimgKept(files', want'.simg) /\ proc'.tool = proc.tool /\ Streamed(proc', files') /\ Kept(proc')
    BY <1>1, <1>4, <1>6, <1>7, <2>1, <2>2, <2>3
  <2> QED
    BY <1>1, <2>4, KeptGoes
<1>9. CASE WriteRefused
  <2>1. proc' = Idle /\ files' = files
    BY <1>9 DEF WriteRefused
  <2> QED
    BY <1>1, <2>1, KeptStops
<1>10. CASE WriteFails
  <2>1. \/ files' = files /\ (proc' = b \/ proc' = Idle)
        \/ /\ \E d : files' = Failed(files, proc, d)
           /\ proc' = c \/ proc' = Idle
    BY <1>10 DEF WriteFails, Op, Failed
  <2>2. SimgKept(files', want.simg)
    <3>2. ASSUME NEW d
          PROVE  SimgKept(Failed(files, proc, d), want.simg)
      <4> DEFINE g == [files[t] EXCEPT !.items = PutAt(@, proc.at, <<d>>, Torn)]
      <4>1. Failed(files, proc, d) = [files EXCEPT ![t] = g]
        BY DEF Failed
      <4> HIDE DEF g
      <4> QED
        BY <1>3, <4>1
    <3> QED
      BY <1>1, <2>1, <3>2
  <2> HIDE DEF b, c
  <2>3. CASE proc' = Idle
    BY <1>1, <2>2, <2>3, KeptStops
  <2>4. CASE proc' \in {b, c}
    <3>1. proc'.tool = proc.tool /\ Streamed(proc', files') /\ Kept(proc')
      BY <1>4, <1>5, <1>6, <1>7, <2>4
    <3> QED
      BY <1>1, <2>2, <3>1, KeptGoes
  <2> QED
    BY <2>1, <2>3, <2>4
<1> QED
  BY <1>8, <1>9, <1>10

LEMMA ClosesKeep ==
  ASSUME SimgInv, PiecesInv', CloseOutput
  PROVE  SimgInv'
<1> DEFINE t == proc.target
           a == [proc EXCEPT !.pc = proc.then]
           b == [proc EXCEPT !.pc = proc.then, !.lost = TRUE]
           g == Pad(files[t], proc.s.len)
           new == [files EXCEPT ![t] = g]
<1>1. /\ FilesOK(files) /\ ProcOK(proc, files) /\ IsProc(proc) /\ proc.pc = "write" /\ proc.todo = <<>>
      /\ want' = want /\ "simg" \in DOMAIN want /\ SimgKept(files, want.simg)
      /\ (proc.tool = "img2simg" => want.simg = Unknown) /\ Streamed(proc, files)
  BY DEF SimgInv, PiecesInv, ProcOK, CloseOutput
<1>2. t \notin {"raw", "input"} /\ (t = "simg" => want.simg = Unknown)
  BY <1>1, TargetIs
<1>3. SimgKept(new, want.simg)
  <2> HIDE DEF g, t
  <2> QED
    BY <1>1, <1>2, OthersKept
<1>4. /\ proc.then \in {"exit", "rename", "import", "open"}
      /\ (proc.mode # "sparse" => proc.tool \notin {"img2simg", "append2simg"})
  BY <1>1 DEF ProcOK, Streaming, Restoring, Cutting
<1>5. a.tool = proc.tool /\ a.pc = proc.then /\ b.tool = proc.tool /\ b.pc = proc.then /\ b.lost = TRUE
  BY <1>1 DEF IsProc, Fields
<1>6. \/ proc' = a /\ (proc.mode = "sparse" /\ files' = files)
      \/ proc' = a /\ (proc.mode # "sparse" /\ files' = new)
      \/ proc' = b /\ files' = files
  BY DEF CloseOutput
<1>7. Streamed(a, files) /\ (proc.mode # "sparse" => Streamed(a, new)) /\ Streamed(b, files)
  <2>1. Streamed(a, files)
    BY <1>1, <1>4, StreamedAll
  <2> HIDE DEF a, b, new
  <2> QED
    BY <1>4, <1>5, <2>1, NotStreaming
<1>8. Kept(a) /\ Kept(b)
  <2> HIDE DEF a, b
  <2> QED
    BY <1>4, <1>5, NotCutting
<1> HIDE DEF a, b, new
<1>9. SimgKept(files', want'.simg) /\ proc'.tool = proc.tool /\ Streamed(proc', files') /\ Kept(proc')
  BY <1>1, <1>3, <1>5, <1>6, <1>7, <1>8
<1> QED
  BY <1>1, <1>9, KeptGoes

\* The steps that end a process and promise nothing of simg.
LEMMA StopsKeep ==
  ASSUME SimgInv, PiecesInv', Sigbus \/ Kill \/ Simg2simgExit \/ Simg2imgExit
  PROVE  SimgInv'
<1>1. proc' = Idle /\ files' = files
  BY DEF Sigbus, Kill, Simg2simgExit, Simg2imgExit
<1>2. "simg" \in DOMAIN want /\ SimgKept(files, want.simg)
  BY DEF SimgInv
<1>3. "simg" \in DOMAIN want' /\ want'.simg = want.simg
  <2>1. CASE Sigbus \/ Kill
    BY <1>2, <2>1 DEF Sigbus, Kill
  <2>2. CASE Simg2simgExit
    <3>1. want' = [want EXCEPT !.pieces = Promise(proc), !.count = proc.c]
      BY <2>2 DEF Simg2simgExit
    <3> QED
      BY <1>2, <3>1
  <2>3. CASE Simg2imgExit
    <3>1. want' = [want EXCEPT !.out = Promise(proc)]
      BY <2>3 DEF Simg2imgExit
    <3> QED
      BY <1>2, <3>1
  <2> QED
    BY <2>1, <2>2, <2>3
<1> QED
  BY <1>1, <1>2, <1>3, KeptStops

\* img2simg and append2simg promise what they have written.
LEMMA ExitsKeep ==
  ASSUME SimgInv, PiecesInv', SmallImages, Img2simgExit
  PROVE  SimgInv'
<1>1. /\ FilesOK(files) /\ ProcOK(proc, files) /\ proc.pc = "exit" /\ proc.tool = "img2simg"
      /\ "simg" \in DOMAIN want /\ SimgKept(files, want.simg) /\ Streamed(proc, files)
      /\ BlockSize * DivRoundUp(proc.s.len) < Wrap
  BY DEF SimgInv, PiecesInv, Img2simgExit, SmallImages
<1>2. proc' = Idle /\ files' = files /\ want' = [want EXCEPT !.simg = Promise(proc)]
  BY DEF Img2simgExit
<1>3. "simg" \in DOMAIN want' /\ want'.simg = Promise(proc)
  BY <1>1, <1>2
<1>4. Streaming(proc, files)
  BY <1>1 DEF ProcOK, Restoring, Cutting
<1>5. ASSUME Promise(proc) # Unknown
      PROVE  Holds(files["simg"], Promise(proc)) /\ Missing \notin Range(Promise(proc))
  <2>1. ~ proc.lost /\ Promise(proc) = proc.goal /\ proc.goal # Unknown
    BY <1>5 DEF Promise
  <2>2. Holds(files[Target(proc.tool)], proc.goal) /\ Missing \notin Range(proc.goal)
    BY <1>1, <1>4, <2>1, Delivers
  <2> QED
    BY <1>1, <2>1, <2>2 DEF Target
<1>6. SimgKept(files', want'.simg)
  BY <1>1, <1>2, <1>3, <1>5 DEF SimgKept
<1> QED
  BY <1>2, <1>3, <1>6, KeptStops

LEMMA RenamesKeep ==
  ASSUME SimgInv, PiecesInv', SmallImages, Rename
  PROVE  SimgInv'
<1>1. /\ FilesOK(files) /\ ProcOK(proc, files) /\ proc.pc = "rename"
      /\ "simg" \in DOMAIN want /\ SimgKept(files, want.simg) /\ Streamed(proc, files)
      /\ BlockSize * DivRoundUp(proc.s.len) < Wrap
  BY DEF SimgInv, PiecesInv, Rename, SmallImages
<1>2. /\ proc' = Idle /\ files' = [files EXCEPT !["simg"] = files[Tmp], ![Tmp] = NoFile]
      /\ want' = [want EXCEPT !.simg = Promise(proc)]
  BY DEF Rename
<1>3. "simg" \in DOMAIN want' /\ want'.simg = Promise(proc)
  BY <1>1, <1>2
<1>4. Streaming(proc, files) /\ proc.tool = "append2simg"
  BY <1>1 DEF ProcOK, Streaming, Restoring, Cutting
<1>5. files'["simg"] = files[Tmp] /\ files'["raw"] = files["raw"] /\ files'["input"] = files["input"]
  <2>1. {"simg", "raw", "input", Tmp} \subseteq Names /\ Tmp \notin {"simg", "raw", "input"}
    BY DEF Names, Tmp
  <2> QED
    BY <1>1, <1>2, <2>1 DEF FilesOK
<1>6. ASSUME Promise(proc) # Unknown
      PROVE  Holds(files'["simg"], Promise(proc)) /\ Missing \notin Range(Promise(proc))
  <2>1. ~ proc.lost /\ Promise(proc) = proc.goal /\ proc.goal # Unknown
    BY <1>6 DEF Promise
  <2>2. Holds(files[Target(proc.tool)], proc.goal) /\ Missing \notin Range(proc.goal)
    BY <1>1, <1>4, <2>1, Delivers
  <2>3. Target(proc.tool) = Tmp
    BY <1>4 DEF Target
  <2> QED
    BY <1>5, <2>1, <2>2, <2>3
<1>7. SimgKept(files', want'.simg)
  BY <1>1, <1>3, <1>5, <1>6 DEF SimgKept
<1> QED
  BY <1>2, <1>3, <1>7, KeptStops

\* simg2img writes another file.
LEMMA RestoresKeep ==
  ASSUME SimgInv, PiecesInv', Simg2imgOfSimg \/ Simg2imgOfPieces
  PROVE  SimgInv'
<1>1. PICK in, goal : Simg2img(in, goal)
  BY DEF Simg2imgOfSimg, Simg2imgOfPieces
<1>2. /\ files' = [files EXCEPT !["out"] = Truncated("raw")] /\ want' = [want EXCEPT !.out = Unknown]
      /\ proc' = [NewProc("simg2img", goal) EXCEPT !.pc = "import", !.in = in]
  BY <1>1 DEF Simg2img
<1>3. FilesOK(files) /\ "simg" \in DOMAIN want /\ SimgKept(files, want.simg)
  BY DEF SimgInv, PiecesInv
<1>4. "simg" \in DOMAIN want' /\ want'.simg = want.simg
  BY <1>2, <1>3
<1>5. SimgKept(files', want'.simg)
  <2> DEFINE g == Truncated("raw")
  <2> HIDE DEF g
  <2>1. SimgKept([files EXCEPT !["out"] = g], want.simg)
    BY <1>3, OthersKept
  <2> QED
    BY <1>2, <1>4, <2>1 DEF g
<1>6. proc'.tool = "simg2img" /\ proc'.pc = "import"
  BY <1>2 DEF NewProc
<1>7. Streamed(proc', files') /\ Kept(proc')
  BY <1>6, NotStreaming, NotCutting
<1> QED
  BY <1>4, <1>5, <1>6, <1>7, KeptGoes

LEMMA ImportsKeep ==
  ASSUME SimgInv, PiecesInv', ImportInput
  PROVE  SimgInv'
<1>1. /\ FilesOK(files) /\ ProcOK(proc, files) /\ proc.pc = "import" /\ files' = files /\ want' = want
      /\ "simg" \in DOMAIN want /\ SimgKept(files, want.simg)
  BY DEF SimgInv, PiecesInv, ImportInput
<1>2. IsProc(proc) /\ proc.tool = "simg2img"
  BY <1>1 DEF ProcOK, Restoring, Streaming, Cutting
<1>3. CASE proc' = Idle
  BY <1>1, <1>3, KeptStops
<1>4. CASE proc' # Idle
  <2> DEFINE s == Import(files[proc.in[proc.i]], proc.in[proc.i])
             p == Writer(proc, s, "out", "normal", "import")
  <2>1. proc' = [p EXCEPT !.i = @ + 1]
    BY <1>4 DEF ImportInput
  <2>2. IsProc(p) /\ p.tool = "simg2img" /\ p.pc = "write"
    <3> HIDE DEF s
    <3> QED
      BY <1>2, WriterIs
  <2> HIDE DEF p
  <2>3. proc'.tool = "simg2img" /\ proc'.pc = "write"
    BY <2>1, <2>2 DEF IsProc, Fields
  <2>4. Streamed(proc', files') /\ Kept(proc')
    BY <2>3, NotStreaming, NotCutting
  <2> QED
    BY <1>1, <2>3, <2>4, KeptGoes
<1> QED
  BY <1>3, <1>4

\* simg2simg writes files of its own.
LEMMA PiecesKeep ==
  ASSUME SimgInv, PiecesInv', OpenPiece \/ BadPiece
  PROVE  SimgInv'
<1> DEFINE i == proc.i
           t == PieceNames[i]
           g == Truncated("sparse")
           new == [files EXCEPT ![t] = g]
<1>1. /\ FilesOK(files) /\ ProcOK(proc, files) /\ proc.pc = "open" /\ i <= proc.c
      /\ want' = want /\ "simg" \in DOMAIN want /\ SimgKept(files, want.simg) /\ files' = new
  BY DEF SimgInv, PiecesInv, OpenPiece, BadPiece
<1>2. IsProc(proc) /\ Cutting(proc, files)
  BY <1>1 DEF ProcOK, Streaming, Restoring
<1>3. t \notin {"raw", "input", "simg"}
  <2>1. i \in Nat \ {0} /\ proc.c \in Nat /\ proc.c <= Len(PieceNames)
    BY <1>1, <1>2 DEF Cutting, CutType
  <2>2. i \in 1 .. Len(PieceNames)
    BY <1>1, <2>1, PieceNameIs
  <2> HIDE DEF i
  <2> QED
    BY <2>2, PieceNameIs
<1>4. SimgKept(files', want'.simg)
  <2> HIDE DEF g, t
  <2>1. SimgKept(new, want.simg)
    BY <1>1, <1>3, OthersKept
  <2> QED
    BY <1>1, <2>1
<1>5. CASE proc' = Idle
  BY <1>1, <1>4, <1>5, KeptStops
<1>6. CASE proc' # Idle
  <2> DEFINE piece == [len |-> proc.s.len, bbs |-> proc.outs[i]]
             p == Writer(proc, piece, t, "sparse", "open")
  <2>1. proc' = [p EXCEPT !.i = @ + 1]
    BY <1>6 DEF OpenPiece, BadPiece
  <2>2. IsProc(p) /\ p.tool = "simg2simg" /\ p.pc = "write"
    <3>1. proc.tool = "simg2simg"
      BY <1>2 DEF Cutting
    <3> HIDE DEF piece, t
    <3> QED
      BY <1>2, <3>1, WriterIs
  <2> HIDE DEF p
  <2>3. proc'.tool = "simg2simg" /\ proc'.pc = "write"
    BY <2>1, <2>2 DEF IsProc, Fields
  <2>4. Streamed(proc', files') /\ Kept(proc')
    BY <2>3, NotStreaming, NotCutting
  <2> QED
    BY <1>1, <1>4, <2>3, <2>4, KeptGoes
<1> QED
  BY <1>5, <1>6

\* Before the first cut everything is in the list.
LEMMA AllIsList ==
  ASSUME NEW p, CutType(p), p.outs = <<>>, p.tmp = <<>>
  PROVE  All(p) = p.s.bbs
<1> DEFINE e == <<>>
           l == p.s.bbs
<1>1. e \in Seq(Cells) /\ e \in Seq(Seq(Cells)) /\ l \in Seq(Cells) /\ (e \o e) \o l = l
  BY DEF CutType
<1>2. FlattenSeq(e) = e
  <2>1. \A outs \in Seq(Seq(Cells)) : \A piece \in Seq(Cells) : outs = <<>> => FlattenSeq(outs) = <<>>
    BY FlattenNext
  <2> QED
    BY <1>1, <2>1
<1>3. All(p) = (FlattenSeq(e) \o e) \o l
  BY AllTyped
<1> QED
  BY <1>1, <1>2, <1>3

LEMMA CutsKeep ==
  ASSUME SimgInv, PiecesInv', NEW max \in MaxSizes, Simg2simg(max)
  PROVE  SimgInv'
<1> DEFINE f == files["simg"]
           s == Import(f, "simg")
           goal == want.simg
           p == NewProc("simg2simg", goal)
           q == proc'
<1>1. /\ FilesOK(files) /\ files' = files /\ Importable(f) /\ "simg" \in DOMAIN want /\ SimgKept(files, goal)
      /\ want' = [want EXCEPT !.pieces = Unknown]
  BY DEF SimgInv, PiecesInv, Simg2simg
<1>2. "simg" \in DOMAIN want' /\ want'.simg = goal /\ SimgKept(files', want'.simg)
  BY <1>1
<1>3. q = [p EXCEPT !.pc = "count", !.max = max, !.s = s]
  BY DEF Simg2simg
<1>4. IsProc(p) /\ p.tool = "simg2simg" /\ p.outs = <<>> /\ p.tmp = <<>> /\ p.goal = goal
  BY DEF NewProc, IsProc, Fields
<1> HIDE DEF f, p, s, goal
<1>5. /\ IsProc(q) /\ q.tool = "simg2simg" /\ q.pc = "count" /\ q.s = s /\ q.outs = <<>> /\ q.tmp = <<>>
      /\ q.goal = goal
  BY <1>3, <1>4 DEF IsProc, Fields
<1> HIDE DEF q
<1>6. q # Idle
  <2>1. "s" \notin DOMAIN Idle /\ "s" \in DOMAIN q
    BY <1>5 DEF Idle, IsProc, Fields
  <2> QED
    BY <2>1
<1>7. CutType(q) /\ (q.lost \/ Counting(q))
  <2>1. ProcOK(q, files')
    BY <1>6 DEF PiecesInv, Running, q
  <2>2. Cutting(q, files')
    BY <1>5, <2>1 DEF ProcOK, Streaming, Restoring
  <2> QED
    BY <1>5, <2>2 DEF Cutting
<1>8. All(q) = q.s.bbs
  BY <1>5, <1>7, AllIsList
<1>9. q.s = [len |-> q.s.len, bbs |-> q.s.bbs]
  BY <1>7 DEF CutType
<1>10. Kept(q)
  <2> SUFFICES ASSUME ~ q.lost
               PROVE  Apart(All(q)) /\ (q.goal # Unknown => ImageOf(q, All(q)) = q.goal)
    BY <1>5, <1>7, KeptIs
  <2>1. Apart(q.s.bbs)
    <3> DEFINE e == <<>>
               l == q.s.bbs
    <3>1. Apart(e \o l) /\ l \in Seq(Cells)
      BY <1>5, <1>7 DEF Counting, CutType
    <3>2. e \o l = l
      BY <3>1
    <3> QED
      BY <3>1, <3>2
  <2>2. ASSUME q.goal # Unknown PROVE ImageOf(q, q.s.bbs) = q.goal
    <3>1. Holds(f, goal) /\ f.kind = "sparse"
      BY <1>1, <1>5, <2>2 DEF SimgKept, f, Importable, IsSparse
    <3>2. Image(s) = goal
      BY <3>1 DEF Holds, s
    <3>3. ImageOf(q, q.s.bbs) = Image(s)
      BY <1>5, <1>9 DEF ImageOf
    <3> QED
      BY <1>5, <3>2, <3>3
  <2> QED
    BY <1>8, <2>1, <2>2
<1>11. Streamed(q, files')
  BY <1>5, NotStreaming
<1> QED
  BY <1>2, <1>5, <1>10, <1>11, KeptGoes DEF q

LEMMA ResparsesKeep ==
  ASSUME SimgInv, PiecesInv', Resparse \/ ResparseFails
  PROVE  SimgInv'
<1> DEFINE p == proc
           q == proc'
           l == p.s.bbs
<1>1. /\ FilesOK(files) /\ ProcOK(p, files) /\ p.pc \in {"count", "split"} /\ files' = files /\ want' = want
      /\ "simg" \in DOMAIN want /\ SimgKept(files, want.simg) /\ Kept(p)
  BY DEF SimgInv, PiecesInv, Resparse, ResparseFails
<1>2. IsProc(p) /\ Cutting(p, files)
  BY <1>1 DEF ProcOK, Streaming, Restoring
<1>3. CutType(p) /\ p.tool = "simg2simg"
  BY <1>2 DEF Cutting
<1>4. ASSUME NEW m, NEW lost, Turn(m, lost), lost \/ (lost = FALSE /\ m = MoveChunks(l, p.max))
      PROVE  SimgInv'
  <2>1. /\ IsProc(q) /\ q.tool = p.tool /\ q.goal = p.goal /\ q.lost = (p.lost \/ lost)
        /\ q.pc \in {"count", "split", "open"}
    <3>1. p = proc
      OBVIOUS
    <3> HIDE DEF p
    <3>2. /\ IsProc(q) /\ q.tool = p.tool /\ q.goal = p.goal /\ q.lost = (p.lost \/ lost)
          /\ q.pc = (IF m.more THEN p.pc ELSE IF p.pc = "count" THEN "split" ELSE "open")
      BY <1>2, <1>3, <1>4, <3>1, TurnIs
    <3> QED
      BY <1>1, <3>2
  <2> HIDE DEF q
  <2>2. q # Idle
    <3>1. "s" \notin DOMAIN Idle /\ "s" \in DOMAIN q
      BY <2>1 DEF Idle, IsProc, Fields
    <3> QED
      BY <3>1
  <2>3. CutType(q)
    <3>1. ProcOK(q, files')
      BY <2>2 DEF PiecesInv, Running, q
    <3>2. Cutting(q, files')
      BY <1>3, <2>1, <3>1 DEF ProcOK, Streaming, Restoring
    <3> QED
      BY <3>2 DEF Cutting
  <2>4. Kept(q)
    <3>1. CASE lost
      <4>1. q.lost
        BY <2>1, <3>1
      <4> QED
        BY <4>1 DEF Kept
    <3>2. CASE lost = FALSE /\ m = MoveChunks(l, p.max)
      <4>1. p = proc /\ Turn(m, FALSE) /\ m = MoveChunks(p.s.bbs, p.max)
        BY <1>4, <3>2
      <4> HIDE DEF p
      <4>2. CutType(proc') /\ proc'.goal = p.goal
        BY <2>1, <2>3 DEF q
      <4>3. Kept(proc')
        BY <1>1, <1>2, <4>1, <4>2, TurnKeeps
      <4> QED
        BY <4>3 DEF q
    <3> QED
      BY <1>4, <3>1, <3>2
  <2>5. Streamed(q, files')
    BY <1>3, <2>1, NotStreaming
  <2> QED
    BY <1>1, <1>3, <2>1, <2>4, <2>5, KeptGoes DEF q
<1>5. CASE Resparse
  <2> DEFINE m == MoveChunks(l, p.max)
             no == FALSE
  <2>1. Turn(m, no)
    BY <1>5 DEF Resparse
  <2>2. m = MoveChunks(l, p.max) /\ no = FALSE
    OBVIOUS
  <2> HIDE DEF m, no, l, p
  <2> QED
    BY <1>4, <2>1, <2>2
<1>6. CASE ResparseFails
  <2> DEFINE m == [piece |-> <<>>, rest |-> l, more |-> FALSE]
             yes == TRUE
  <2>1. Turn(m, yes)
    BY <1>6 DEF ResparseFails
  <2>2. yes
    OBVIOUS
  <2> HIDE DEF m, yes, l, p
  <2> QED
    BY <1>4, <2>1, <2>2
<1> QED
  BY <1>5, <1>6

\* A process that is about to write its plan.
LEMMA StreamedStarts ==
  ASSUME NEW fs, NEW p, fs[Target(p.tool)] \in SparseFiles, p.pc = "write",
         p.goal # Unknown => Good(p.s, p.goal),
         p.at = 1, p.todo = Plan(p.s)
  PROVE  Streamed(p, fs)
<1> DEFINE s == p.s
           f == fs[Target(p.tool)]
           plan == Plan(s)
           n == Len(plan)
           W == Headers \union Skips \union Usable
<1> SUFFICES ASSUME p.goal # Unknown
             PROVE  \E k \in 0 .. n : p.at = k + 1 /\ p.todo = SubSeq(plan, k + 1, n) /\ OnFile(f, s, k)
  BY DEF Streamed
<1>1. plan \in Seq(W) /\ n \in Nat
  BY PlanIs
<1>2. f.kind = "sparse" /\ f.items \in Seq(Items) /\ Len(f.items) \in Nat
  <2> HIDE DEF f
  <2>1. f \in SparseFiles
    BY DEF f
  <2>2. f.kind = "sparse" /\ f.items \in Seq(Items)
    BY <2>1, SparseFileIs
  <2> QED
    BY <2>2
<1> HIDE DEF f
<1>3. OnFile(f, s, 0)
  <2>1. 1 .. 0 = {}
    OBVIOUS
  <2> QED
    BY <1>2, <2>1 DEF OnFile
<1>4. p.todo = plan
  OBVIOUS
<1> HIDE DEF s, plan, W
<1>5. SubSeq(plan, 1, n) = plan
  BY <1>1
<1>6. 0 \in 0 .. n /\ p.at = 0 + 1 /\ p.todo = SubSeq(plan, 0 + 1, n)
  BY <1>1, <1>4, <1>5
<1> QED
  BY <1>3, <1>6

LEMMA NewWriterIs ==
  ASSUME NEW tool, NEW goal, NEW s, NEW target, NEW then
  PROVE  LET q == Writer(NewProc(tool, goal), s, target, "sparse", then)
         IN /\ IsProc(q) /\ q # Idle /\ q.pc = "write" /\ q.s = s /\ q.at = 1 /\ q.todo = Plan(s)
            /\ q.tool = tool /\ q.goal = goal
<1> DEFINE p == NewProc(tool, goal)
           q == Writer(p, s, target, "sparse", then)
<1>1. IsProc(p) /\ p.tool = tool
  BY NewProcIs
<1>2. p.goal = goal
  BY DEF NewProc
<1>3. q.goal = p.goal
  <2> HIDE DEF p
  <2> QED
    BY <1>1 DEF Writer, IsProc, Fields
<1>4. Opt("sparse" = "sparse", Header(s)) = <<Header(s)>>
  BY DEF Opt
<1> HIDE DEF p
<1>5. /\ IsProc(q) /\ q.pc = "write" /\ q.s = s /\ q.at = 1 /\ q.tool = p.tool
      /\ q.todo = Opt("sparse" = "sparse", Header(s)) \o AllBlocks(s)
  BY <1>1, WriterIs
<1> HIDE DEF q
<1>6. q # Idle
  <2>1. "s" \notin DOMAIN Idle /\ "s" \in DOMAIN q
    BY <1>5 DEF Idle, IsProc, Fields
  <2> QED
    BY <2>1
<1>7. q.todo = Plan(s)
  BY <1>4, <1>5 DEF Plan
<1> QED
  BY <1>1, <1>2, <1>3, <1>5, <1>6, <1>7 DEF p, q

LEMMA ReadsKeep ==
  ASSUME SimgInv, PiecesInv', SmallImages', Img2simg
  PROVE  SimgInv'
<1> DEFINE raw == files["raw"]
           fd == "raw"
           s == ReadNormal(raw, fd)
           goal == raw.blocks
           q == proc'
<1>1. /\ FilesOK(files) /\ "simg" \in DOMAIN want /\ SimgKept(files, want.simg)
      /\ files' = [files EXCEPT !["simg"] = Truncated("sparse")]
      /\ want' = [want EXCEPT !.simg = Unknown]
      /\ q = Writer(NewProc("img2simg", goal), s, "simg", "sparse", "exit")
  BY DEF SimgInv, PiecesInv, Img2simg
<1>2. "simg" \in DOMAIN want' /\ want'.simg = Unknown
  BY <1>1
<1>3. SimgKept(files', want'.simg)
  <2> DEFINE g == Truncated("sparse")
  <2>1. SimgKept(files, Unknown)
    BY <1>1 DEF SimgKept
  <2> HIDE DEF g
  <2>2. SimgKept([files EXCEPT !["simg"] = g], Unknown)
    BY <1>1, <2>1, OthersKept
  <2> QED
    BY <1>1, <1>2, <2>2 DEF g
<1>4. files'[Target("img2simg")] \in SparseFiles
  <2>1. Truncated("sparse") \in SparseFiles
    BY DEF Truncated, SparseFiles
  <2>2. "simg" \in Names
    BY DEF Names
  <2> QED
    BY <1>1, <2>1, <2>2 DEF FilesOK, Target
<1>5. /\ raw.len \in Nat /\ goal \in Seq(Contents) /\ Len(goal) = DivRoundUp(raw.len) /\ Missing \notin Range(goal)
  BY <1>1 DEF FilesOK, RawImages, SimgKept
<1>6. s.len = raw.len
  BY DEF ReadNormal
<1>7. fd \in Fds
  BY DEF Fds
<1> HIDE DEF s, q
<1>8. /\ q # Idle /\ q.pc = "write" /\ q.s = s /\ q.at = 1 /\ q.todo = Plan(s) /\ q.tool = "img2simg"
      /\ q.goal = goal
  <2> HIDE DEF goal
  <2> QED
    BY <1>1, NewWriterIs
<1>9. raw.len < Wrap
  BY <1>6, <1>8 DEF SmallImages, Small, Running, q
<1>10. Good(s, goal)
  <2>1. s = ReadNormal(raw, fd)
    BY DEF s
  <2> HIDE DEF raw, fd
  <2>2. s = [len |-> raw.len, bbs |-> s.bbs] /\ Tiled(s.bbs, raw.len, fd)
    BY <1>5, <1>7, <1>9, <2>1, ReadNormalIs
  <2>3. Plain(s.bbs) /\ Image(s) = goal
    BY <1>5, <1>7, <1>9, <2>1, ReadImage
  <2> DEFINE l == s.bbs
             len == raw.len
  <2>4. len \in Nat /\ Tiled(l, len, fd) /\ Plain(l) /\ goal = Image([len |-> len, bbs |-> l])
        /\ Missing \notin Range(goal) /\ s = [len |-> len, bbs |-> l]
    BY <1>5, <2>2, <2>3
  <2> HIDE DEF l, len, goal
  <2>5. Good([len |-> len, bbs |-> l], goal)
    BY <2>4, TiledGood
  <2> QED
    BY <2>4, <2>5
<1> HIDE DEF goal
<1>11. Streamed(q, files')
  BY <1>4, <1>8, <1>10, StreamedStarts
<1>12. Kept(q)
  BY <1>8, NotCutting
<1> QED
  BY <1>2, <1>3, <1>11, <1>12, KeptGoes DEF q

\* The image of the file that is appended to.
LEMMA AutoImage ==
  ASSUME NEW f \in RawImages \union SparseFiles, ImportAuto(f).len < Wrap,
         NEW image, Holds(f, image)
  PROVE  LET s == ImportAuto(f)
         IN s = [len |-> s.len, bbs |-> s.bbs] /\ Plain(s.bbs) /\ Image(s) = image
<1> DEFINE fd == "simg"
           s == ImportAuto(f)
<1>0. fd \in Fds
  BY DEF Fds
<1>1. CASE f.kind = "raw"
  <2>1. ~ Importable(f)
    BY <1>1 DEF Importable, IsSparse
  <2>2. s = ReadNormal(f, fd)
    BY <1>1, <2>1 DEF ImportAuto, AsRaw
  <2>3. s.len = f.len
    BY <2>2 DEF ReadNormal
  <2>4. f \in RawImages
    BY <1>1 DEF SparseFiles
  <2>5. f.len \in Nat /\ f.blocks \in Seq(Contents) /\ Len(f.blocks) = DivRoundUp(f.len)
    BY <2>4 DEF RawImages
  <2>6. f.len < Wrap /\ f.blocks = image
    BY <1>1, <2>3 DEF Holds
  <2> HIDE DEF s, fd
  <2>7. s = [len |-> f.len, bbs |-> s.bbs]
    BY <1>0, <2>2, <2>5, <2>6, ReadNormalIs
  <2>8. Plain(s.bbs) /\ Image(s) = f.blocks
    BY <1>0, <2>2, <2>5, <2>6, ReadImage
  <2> QED
    BY <2>3, <2>6, <2>7, <2>8 DEF s
<1>2. CASE f.kind # "raw"
  <2>1. Importable(f) /\ Image(Import(f, fd)) = image
    BY <1>2 DEF Holds
  <2>2. s = Import(f, fd)
    BY <2>1 DEF ImportAuto
  <2>3. f.items \in Seq(Items)
    BY <1>2, SparseFileIs DEF RawImages
  <2>4. f.items[1].total_blks * BlockSize < Wrap
    BY <2>2 DEF Import
  <2> HIDE DEF s, fd
  <2>5. s = [len |-> s.len, bbs |-> s.bbs]
    BY <1>0, <2>1, <2>2, <2>3, <2>4, ImportIsRun
  <2>6. PICK b, blk, off : ImportRun(b, blk, off, f, fd)
    BY <1>0, <2>1, <2>3, <2>4, ImportIsRun
  <2>7. \A i \in 0 .. Len(ChunksOf(f)) : Plain(b[i])
    BY <1>0, <2>6, ImportPlain
  <2>8. Len(ChunksOf(f)) \in Nat /\ Import(f, fd).bbs = b[Len(ChunksOf(f))]
    BY <2>6 DEF ImportRun
  <2>9. Len(ChunksOf(f)) \in 0 .. Len(ChunksOf(f))
    BY <2>8
  <2> QED
    BY <2>1, <2>2, <2>5, <2>7, <2>8, <2>9 DEF s
<1> QED
  BY <1>1, <1>2

LEMMA AppendsKeep ==
  ASSUME SimgInv, PiecesInv', SmallImages', Append2simg
  PROVE  SimgInv'
<1> DEFINE simg == files["simg"]
           s == ImportAuto(simg)
           input == files["input"]
           bb == Fd(s.len \div BlockSize, input.len, "input", 0, input.blocks)
           goal == IF want.simg = Unknown \/ s.len % BlockSize # 0 THEN Unknown ELSE want.simg \o input.blocks
           stale == IF files[Tmp] = NoFile THEN <<>> ELSE files[Tmp].items
           g == [kind |-> "sparse", items |-> [i \in DOMAIN stale |-> Torn]]
           t == [len |-> s.len + input.len, bbs |-> Queue(s.bbs, bb)]
           q == proc'
<1>1. /\ FilesOK(files) /\ "simg" \in DOMAIN want /\ SimgKept(files, want.simg) /\ want' = want
      /\ simg # NoFile /\ input.len % BlockSize = 0 /\ files' = [files EXCEPT ![Tmp] = g]
      /\ q = Writer(NewProc("append2simg", goal), t, Tmp, "sparse", "rename")
  BY DEF SimgInv, PiecesInv, Append2simg
<1> HIDE DEF g
<1>2. SimgKept(files', want'.simg)
  <2>1. Tmp \notin {"raw", "input", "simg"}
    BY DEF Tmp
  <2>2. SimgKept([files EXCEPT ![Tmp] = g], want.simg)
    BY <1>1, <2>1, OthersKept
  <2> QED
    BY <1>1, <2>2
<1> HIDE DEF q
<1>3. /\ q # Idle /\ IsProc(q) /\ q.pc = "write" /\ q.s = t /\ q.at = 1 /\ q.todo = Plan(t)
      /\ q.tool = "append2simg" /\ q.goal = goal
  <2> HIDE DEF t, goal
  <2> QED
    BY <1>1, NewWriterIs
<1>4. files'[Target(q.tool)] \in SparseFiles
  <2>1. ProcOK(q, files')
    BY <1>3 DEF PiecesInv, Running, q
  <2>2. Streaming(q, files')
    BY <1>3, <2>1 DEF ProcOK, Restoring, Cutting
  <2> QED
    BY <2>2 DEF Streaming
<1>5. /\ input \in RawImages /\ input.len \in Nat /\ Missing \notin Range(input.blocks)
      /\ simg \in RawImages \union SparseFiles
  BY <1>1 DEF FilesOK, RawImages, SimgKept
<1>6. s.len < Wrap /\ s.len \in Nat
  <2>1. s.len \in Nat
    BY <1>5, AutoLength
  <2>2. t.len < Wrap /\ t.len = s.len + input.len
    BY <1>3 DEF SmallImages, Small, Running, q
  <2> DEFINE m == s.len
             n == t.len
             k == input.len
  <2>3. m \in Nat /\ k \in Nat /\ n < Wrap /\ n = m + k /\ Wrap \in Nat
    BY <1>5, <2>1, <2>2, Blocks
  <2> HIDE DEF m, n, k
  <2>4. m < Wrap
    BY <2>3
  <2> QED
    BY <2>1, <2>4 DEF m
<1>7. ASSUME goal # Unknown
      PROVE  Good(t, goal)
  <2> DEFINE image == want.simg
             l == s.bbs
             len == s.len
  <2>1. /\ goal = image \o input.blocks /\ image # Unknown /\ len % BlockSize = 0
        /\ Holds(simg, image) /\ Missing \notin Range(image)
    BY <1>1, <1>7 DEF SimgKept
  <2> HIDE DEF simg, goal, input, image
  <2>2. Tiled(l, len, "simg") /\ len \in Nat
    BY <1>5, <1>6, ImportAutoIs
  <2>3. s = [len |-> len, bbs |-> l] /\ Plain(l) /\ Image(s) = image
    BY <1>5, <1>6, <2>1, AutoImage
  <2>4. /\ bb = Fd(len \div BlockSize, input.len, "input", 0, input.blocks)
        /\ t = [len |-> len + input.len, bbs |-> Queue(l, bb)]
        /\ image = Image([len |-> len, bbs |-> l])
    BY <2>3
  <2> HIDE DEF s, l, len, bb, t
  <2>5. Good([len |-> len + input.len, bbs |-> Queue(l, bb)], image \o input.blocks)
    BY <1>1, <1>5, <2>1, <2>2, <2>3, <2>4, AppendGood
  <2> QED
    BY <2>1, <2>4, <2>5
<1> HIDE DEF t, goal
<1>8. Streamed(q, files')
  BY <1>3, <1>4, <1>7, StreamedStarts
<1>9. Kept(q)
  BY <1>3, NotCutting
<1> QED
  BY <1>1, <1>2, <1>3, <1>8, <1>9, KeptGoes DEF q

LEMMA FirstHolds ==
  ASSUME NEW f, f.kind \in {"none", "raw", "sparse"}, FirstImage(f) # Unknown,
         f.kind = "raw" => Missing \notin Range(f.blocks)
  PROVE  Holds(f, FirstImage(f)) /\ Missing \notin Range(FirstImage(f))
<1> DEFINE image == Image(Import(f, "simg"))
           known == Importable(f) /\ Missing \notin Range(image)
<1>1. CASE f.kind = "raw"
  <2>1. FirstImage(f) = f.blocks
    BY <1>1 DEF FirstImage
  <2> QED
    BY <1>1, <2>1 DEF Holds
<1>2. CASE f.kind = "sparse"
  <2>1. FirstImage(f) = IF known THEN image ELSE Unknown
    BY <1>2 DEF FirstImage
  <2>2. known /\ FirstImage(f) = image
    <3> HIDE DEF known, image
    <3> QED
      BY <2>1
  <2> QED
    BY <1>2, <2>2 DEF Holds
<1>3. CASE f.kind = "none"
  BY <1>3 DEF FirstImage
<1> QED
  BY <1>1, <1>2, <1>3

LEMMA SimgInvFirst == Init => SimgInv
<1> SUFFICES ASSUME Init PROVE SimgInv
  OBVIOUS
<1>1. PICK first \in FirstFiles :
        /\ files = [n \in Names |-> IF n \in DOMAIN first THEN first[n] ELSE NoFile]
        /\ want = [simg |-> FirstImage(first.simg), pieces |-> Unknown, out |-> Unknown, count |-> 0]
  BY DEF Init
<1>2. /\ DOMAIN first = {"raw", "input", "simg"} /\ first["raw"] \in RawImages /\ first["input"] \in RawImages
      /\ first["simg"] \in {NoFile} \union RawImages \union SparseFiles
      /\ \A f \in {first["raw"], first["input"], first["simg"]} : f.kind = "raw" => Missing \notin Range(f.blocks)
  BY FilesAssumption
<1>3. files["raw"] = first["raw"] /\ files["input"] = first["input"] /\ files["simg"] = first["simg"]
  BY <1>1, <1>2 DEF Names
<1>4. want.simg = FirstImage(first["simg"]) /\ "simg" \in DOMAIN want
  BY <1>1
<1>5. Missing \notin Range(files["raw"].blocks) /\ Missing \notin Range(files["input"].blocks)
  BY <1>2, <1>3 DEF RawImages
<1>6. ASSUME want.simg # Unknown
      PROVE  Holds(files["simg"], want.simg) /\ Missing \notin Range(want.simg)
  <2> DEFINE f == files["simg"]
  <2>1. FirstImage(f) # Unknown /\ (f.kind = "raw" => Missing \notin Range(f.blocks))
        /\ f.kind \in {"none", "raw", "sparse"}
    BY <1>2, <1>3, <1>4, <1>6 DEF NoFile, RawImages, SparseFiles
  <2> HIDE DEF f
  <2>2. Holds(f, FirstImage(f)) /\ Missing \notin Range(FirstImage(f))
    BY <2>1, FirstHolds
  <2> QED
    BY <1>3, <1>4, <2>2 DEF f
<1>7. ~ Running
  BY DEF Init, Running
<1>8. PiecesInv
  BY PiecesInvFirst
<1> QED
  BY <1>4, <1>5, <1>6, <1>7, <1>8 DEF SimgInv, SimgKept

LEMMA SimgInvNext == SimgInv /\ SmallImages /\ SmallImages' /\ [Next]_vars => SimgInv'
<1> SUFFICES ASSUME SimgInv, SmallImages, SmallImages', [Next]_vars PROVE SimgInv'
  OBVIOUS
<1>1. PiecesInv'
  BY PiecesInvNext DEF SimgInv, SmallImages
<1>2. CASE Next
  <2>1. CASE WriteChunk \/ WriteRefused \/ WriteFails
    BY <1>1, <2>1, WritesKeep
  <2>2. CASE CloseOutput
    BY <1>1, <2>2, ClosesKeep
  <2>3. CASE Sigbus \/ Kill \/ Simg2simgExit \/ Simg2imgExit
    BY <1>1, <2>3, StopsKeep
  <2>4. CASE Img2simgExit
    BY <1>1, <2>4, ExitsKeep
  <2>5. CASE Rename
    BY <1>1, <2>5, RenamesKeep
  <2>6. CASE Simg2imgOfSimg \/ Simg2imgOfPieces
    BY <1>1, <2>6, RestoresKeep
  <2>7. CASE ImportInput
    BY <1>1, <2>7, ImportsKeep
  <2>8. CASE Img2simg
    BY <1>1, <2>8, ReadsKeep
  <2>9. CASE Append2simg
    BY <1>1, <2>9, AppendsKeep
  <2>10. CASE \E max \in MaxSizes : Simg2simg(max)
    BY <1>1, <2>10, CutsKeep
  <2>11. CASE OpenPiece \/ BadPiece
    BY <1>1, <2>11, PiecesKeep
  <2>12. CASE Resparse \/ ResparseFails
    BY <1>1, <2>12, ResparsesKeep
  <2> QED
    BY <1>2, <2>1, <2>2, <2>3, <2>4, <2>5, <2>6, <2>7, <2>8, <2>9, <2>10, <2>11, <2>12 DEF Next, Step
<1>3. CASE UNCHANGED vars
  BY <1>1, <1>3 DEF vars, SimgInv, Running
<1> QED
  BY <1>2, <1>3

LEMMA SimgInvKeeps == SimgInv => ResparseKeepsImage
<1> SUFFICES ASSUME SimgInv, Running, proc.pc \in {"count", "split"}, ~ proc.lost, proc.goal # Unknown
             PROVE  LET all == FlattenSeq(proc.outs) \o proc.tmp \o proc.s.bbs
                    IN  /\ Image([proc.s EXCEPT !.bbs = all]) = proc.goal
                        /\ \A i \in 1 .. Len(all) - 1 : EndBlock(all, i) <= all[i+1].block
  BY DEF ResparseKeepsImage
<1> DEFINE l == All(proc)
<1>1. Kept(proc) /\ ProcOK(proc, files)
  BY DEF SimgInv, PiecesInv
<1>2. CutType(proc)
  BY <1>1 DEF ProcOK, Streaming, Restoring, Cutting
<1>3. Apart(l) /\ Image([proc.s EXCEPT !.bbs = l]) = proc.goal
  BY <1>1 DEF Kept
<1>4. l \in Seq(Cells)
  BY <1>2, AllTyped
<1> HIDE DEF l
<1>5. \A i \in 1 .. Len(l) - 1 : EndBlock(l, i) <= l[i+1].block
  <2> TAKE i \in 1 .. Len(l) - 1
  <2> DEFINE j == i + 1
  <2>1. j \in 1 .. Len(l) /\ j - 1 = i
    BY <1>4
  <2> HIDE DEF j
  <2>2. EndBlock(l, j - 1) <= l[j].block
    BY <1>3, <1>4, <2>1, EndBlockIs
  <2> QED
    BY <2>1, <2>2 DEF j
<1> QED
  BY <1>3, <1>5 DEF l, All

\* As long as no image is 4 GiB or longer, an image is cut into pieces without
\* losing, doubling or moving a block: sparse_file_resparse, in the pass that
\* counts and in the one that splits, keeps in the pieces, the collected
\* blocks and the list together the image that simg was promised to hold.
THEOREM ResparseKeeps == Spec /\ []SmallImages => []ResparseKeepsImage
<1>1. Init => SimgInv
  BY SimgInvFirst
<1>2. SimgInv /\ SmallImages /\ SmallImages' /\ [Next]_vars => SimgInv'
  BY SimgInvNext
<1>3. SimgInv => ResparseKeepsImage
  BY SimgInvKeeps
<1> QED
  BY <1>1, <1>2, <1>3, PTL DEF Spec

\* As long as no image is 4 GiB or longer, the sparse file that img2simg or
\* append2simg has finished reads back as the image it was made from, and a
\* tool that was killed or failed has left the promised image of simg intact.
THEOREM SimgIsReadBack == Spec /\ []SmallImages => []SimgReadsBack
<1>1. Init => SimgInv
  BY SimgInvFirst
<1>2. SimgInv /\ SmallImages /\ SmallImages' /\ [Next]_vars => SimgInv'
  BY SimgInvNext
<1>3. SimgInv => SimgReadsBack
  BY DEF SimgInv, SimgKept, SimgReadsBack
<1> QED
  BY <1>1, <1>2, <1>3, PTL DEF Spec
=============================================================================
