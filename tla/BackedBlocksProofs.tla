------------------------- MODULE BackedBlocksProofs -------------------------
(***************************************************************************)
(* The lists of backed blocks are whole and without dangling pointers      *)
(* after any calls, for any number of cells, lists and blocks, and in      *)
(* order unless they were misused, and they implement SparseImage, as long *)
(* as the size of the image is a number that an unsigned int can hold.     *)
(*                                                                         *)
(* A list that something was moved back to is not in the order of its      *)
(* blocks.  That it can be walked is kept as the existence of ranks, the   *)
(* places of the cells on the walk; in a list that is in order the number  *)
(* of the block is such a rank.                                            *)
(***************************************************************************)
EXTENDS BackedBlocks, WellFoundedInduction, TLAPS

\* The links of a list follow the ranks of its cells.
Ranked(l, r) ==
  /\ In(l) = {} => data_blocks[l] = nullptr
  /\ In(l) # {} => data_blocks[l] \in In(l)
  /\ \A n, m \in In(l) :
       /\ r[data_blocks[l]] <= r[m]
       /\ n # m => r[n] # r[m]
       /\ r[n] < r[m] => next[n] \in In(l) /\ r[n] < r[next[n]] /\ r[next[n]] <= r[m]
  /\ \A n \in In(l) : next[n] # nullptr => next[n] \in In(l) /\ r[n] < r[next[n]]

Walkable(l) == \E k \in Nat : \E r \in [Nodes -> 0 .. k] : Ranked(l, r)

Good(l) ==
  /\ misuse[l] = "none" => Sorted(l)
  /\ misuse[l] # "added_twice" => Disjoint(l)
  /\ Walkable(l)

\* What an invariant of the lists needs; that walks are complete follows from it.
Core == TypeOK /\ (\A l \in Lists : Good(l)) /\ LastUsedListed /\ QueueSound
-----------------------------------------------------------------------------
(***************************************************************************)
(* Numbers of blocks and of bytes.                                         *)
(***************************************************************************)
LEMMA BlockFacts ==
  /\ BlockSize \in Nat /\ BlockSize > 0
  /\ Size \in Nat /\ Wrap \in Nat /\ Wrap > 0
BY ListAssumption DEF Size

LEMMA ProductOrder ==
  ASSUME NEW a \in Nat, NEW b \in Nat, NEW c \in Nat, c > 0
  PROVE  /\ a * c \in Nat
         /\ a < b => a * c + c <= b * c
         /\ a <= b => a * c <= b * c
<1>1. a * c \in Nat /\ b * c \in Nat
  OBVIOUS
<1>2. ASSUME a < b PROVE a * c + c <= b * c
  <2>1. PICK d \in Nat : b = a + 1 + d
    <3>1. b - a - 1 \in Nat /\ b = a + 1 + (b - a - 1)
      BY <1>2
    <3> QED BY <3>1
  <2>2. b * c = a * c + c + d * c
    BY <2>1
  <2>3. d * c \in Nat
    OBVIOUS
  <2> QED BY <1>1, <2>2, <2>3
<1> QED BY <1>1, <1>2

LEMMA Quotient ==
  ASSUME NEW k \in Nat, NEW c \in Nat, c > 0
  PROVE  /\ k \div c \in Nat /\ k % c \in 0 .. c - 1
         /\ k = (k \div c) * c + (k % c)
OBVIOUS

LEMMA Modulo ==
  ASSUME NEW k \in Nat, NEW c \in Nat, k < c
  PROVE  k % c = k
OBVIOUS

\* AlignDown() is a whole number of blocks.
LEMMA Aligned ==
  ASSUME NEW k \in Nat
  PROVE  /\ AlignDown(k) \in Nat /\ AlignDown(k) <= k
         /\ AlignDown(k) \div BlockSize \in Nat
         /\ (AlignDown(k) \div BlockSize) * BlockSize = AlignDown(k)
<1> DEFINE q == k \div BlockSize
<1>1. q \in Nat /\ k % BlockSize \in 0 .. BlockSize - 1 /\ k = q * BlockSize + (k % BlockSize)
  BY BlockFacts, Quotient
<1>2. AlignDown(k) = q * BlockSize
  BY <1>1, BlockFacts DEF AlignDown
<1>3. q * BlockSize \in Nat
  BY <1>1, BlockFacts
<1>4. (q * BlockSize) \div BlockSize = q
  BY <1>1, BlockFacts
<1> HIDE DEF q
<1> QED BY <1>1, <1>2, <1>3, <1>4, BlockFacts

\* A set of numbers has a least element; if it is bounded, a greatest one.
LEMMA MinimalElement ==
  ASSUME NEW R, IsWellFoundedOn(R, Nat), NEW T \in SUBSET Nat, T # {}
  PROVE  \E x \in T : \A y \in T : ~ (<<y, x>> \in R)
BY WFMin

LEMMA LessThanRelation == \A x, y \in Nat : x < y => <<x, y>> \in OpToRel(<, Nat)
BY Zenon DEF OpToRel

LEMMA LeastNumber ==
  ASSUME NEW T \in SUBSET Nat, T # {}
  PROVE  \E x \in T : \A y \in T : x <= y
<1>1. PICK x \in T : \A y \in T : ~ (<<y, x>> \in OpToRel(<, Nat))
  BY MinimalElement, NatLessThanWellFounded, Zenon
<1>2. \A y \in T : ~ (y < x)
  BY <1>1, LessThanRelation, Zenon
<1> QED BY <1>2

LEMMA GreatestNumber ==
  ASSUME NEW T \in SUBSET Nat, T # {}, NEW bound \in Nat, \A y \in T : y <= bound
  PROVE  \E x \in T : \A y \in T : y <= x
<1> DEFINE U == {z \in Nat : \E y \in T : z = bound - y}
<1>0. \A y \in T : bound - y \in U
  OBVIOUS
<1>1. U \in SUBSET Nat /\ U # {}
  BY <1>0
<1>2. PICK u \in U : \A v \in U : u <= v
  BY <1>1, LeastNumber
<1>3. PICK x \in T : u = bound - x
  BY <1>2
<1>4. \A y \in T : bound - x <= bound - y
  BY <1>0, <1>2, <1>3
<1> HIDE DEF U
<1> QED BY <1>4
-----------------------------------------------------------------------------
(***************************************************************************)
(* Cells.                                                                  *)
(***************************************************************************)
LEMMA BlockRecord ==
  ASSUME NEW b \in BackedBlock
  PROVE  /\ b.block \in Nat /\ b.len \in Nat /\ b.off \in Nat
         /\ b.block * BlockSize \in Nat /\ b.block * BlockSize + b.len \in Nat
<1>1. b.block \in Nat /\ b.len \in Nat /\ b.off \in Nat
  BY DEF BackedBlock
<1> QED BY <1>1, BlockFacts, ProductOrder

LEMMA ChangedBlock ==
  ASSUME NEW b \in BackedBlock, NEW len \in Nat, NEW block \in Nat, NEW off \in Nat
  PROVE  [b EXCEPT !.len = len, !.block = block, !.off = off] \in BackedBlock
BY DEF BackedBlock

LEMMA BlockOrder ==
  ASSUME NEW b \in BackedBlock, NEW c \in BackedBlock
  PROVE  b.block < c.block <=> b.block * BlockSize < c.block * BlockSize
<1>1. /\ b.block \in Nat /\ c.block \in Nat
      /\ b.block * BlockSize \in Nat /\ c.block * BlockSize \in Nat
  BY BlockRecord
<1>2. b.block < c.block => b.block * BlockSize + BlockSize <= c.block * BlockSize
  BY <1>1, BlockFacts, ProductOrder
<1>3. c.block <= b.block => c.block * BlockSize <= b.block * BlockSize
  BY <1>1, BlockFacts, ProductOrder
<1> QED BY <1>1, <1>2, <1>3, BlockFacts

LEMMA CellFacts ==
  ASSUME TypeOK, NEW n \in Nodes, owner[n] # Free
  PROVE  /\ bb[n] \in BackedBlock
         /\ bb[n].block \in Nat /\ bb[n].len \in Nat /\ bb[n].off \in Nat
         /\ Start(n) \in Nat /\ End(n) \in Nat /\ End(n) = Start(n) + bb[n].len
<1>1. bb[n] \in BackedBlock
  BY DEF TypeOK
<1> QED BY <1>1, BlockRecord DEF Start, End

LEMMA CellFactsNext ==
  ASSUME TypeOK', NEW n \in Nodes, owner'[n] # Free
  PROVE  /\ bb'[n] \in BackedBlock
         /\ bb'[n].block \in Nat /\ bb'[n].len \in Nat /\ bb'[n].off \in Nat
         /\ Start(n)' \in Nat /\ End(n)' \in Nat /\ End(n)' = Start(n)' + bb'[n].len
<1>1. bb'[n] \in BackedBlock
  BY DEF TypeOK
<1> QED BY <1>1, BlockRecord DEF Start, End

LEMMA CellOrder ==
  ASSUME TypeOK, NEW n \in Nodes, owner[n] # Free, NEW m \in Nodes, owner[m] # Free
  PROVE  bb[n].block < bb[m].block <=> Start(n) < Start(m)
BY CellFacts, BlockOrder DEF Start

LEMMA CellOrderNext ==
  ASSUME TypeOK', NEW n \in Nodes, owner'[n] # Free, NEW m \in Nodes, owner'[m] # Free
  PROVE  bb'[n].block < bb'[m].block <=> Start(n)' < Start(m)'
BY CellFactsNext, BlockOrder DEF Start

\* The sources are what they should be.
LEMMA NewBlock ==
  ASSUME NEW block \in 0 .. Blocks - 1, NEW len \in Lens, NEW s \in Sources
  PROVE  [block |-> block, len |-> len, type |-> s.type, src |-> s.src, off |-> s.off] \in BackedBlock
BY ListAssumption DEF BackedBlock

LEMMA InFacts ==
  ASSUME NEW l \in Lists, NEW n \in In(l)
  PROVE  n \in Nodes /\ owner[n] = l /\ owner[n] # Free /\ owner[n] # Fresh /\ n # nullptr
BY ListAssumption DEF In


\* A list in order is ranked by its blocks.
LEMMA SortedRanked ==
  ASSUME NEW l \in Lists, NEW r, \A n \in In(l) : r[n] = bb[n].block, Ranked(l, r)
  PROVE  Sorted(l)
<1>1. In(l) # {} => data_blocks[l] \in In(l)
  BY DEF Ranked
<1> QED BY <1>1 DEF Ranked, Sorted

LEMMA RankedSorted ==
  ASSUME NEW l \in Lists, NEW r, \A n \in In(l) : r[n] = bb[n].block, Sorted(l)
  PROVE  Ranked(l, r)
<1>1. In(l) # {} => data_blocks[l] \in In(l)
  BY DEF Sorted
<1> QED BY <1>1 DEF Ranked, Sorted

LEMMA SortedRankedNext ==
  ASSUME NEW l \in Lists, NEW r, \A n \in In(l)' : r[n] = bb'[n].block, Ranked(l, r)'
  PROVE  Sorted(l)'
<1>1. In(l)' # {} => data_blocks'[l] \in In(l)'
  BY DEF Ranked
<1> QED BY <1>1 DEF Ranked, Sorted

LEMMA BlockBound ==
  ASSUME TypeOK, NEW l \in Lists, Disjoint(l), NEW n \in In(l)
  PROVE  bb[n].block \in 0 .. Size
<1>1. /\ bb[n].block \in Nat /\ bb[n].len \in Nat /\ Start(n) \in Nat
      /\ Start(n) + bb[n].len <= Size
  BY InFacts, CellFacts DEF Disjoint
<1>2. bb[n].block <= bb[n].block * BlockSize
  BY <1>1, BlockFacts, ProductOrder
<1> QED BY <1>1, <1>2, BlockFacts DEF Start

LEMMA SortedWalkable ==
  ASSUME NEW l \in Lists
  PROVE  TypeOK /\ Sorted(l) /\ Disjoint(l) => Walkable(l)
<1> SUFFICES ASSUME TypeOK, Sorted(l), Disjoint(l) PROVE Walkable(l)
  OBVIOUS
<1> DEFINE r == [n \in Nodes |-> IF n \in In(l) THEN bb[n].block ELSE 0]
<1>1. \A n \in In(l) : r[n] = bb[n].block
  BY InFacts
<1>2. r \in [Nodes -> 0 .. Size]
  BY BlockBound, BlockFacts
<1> HIDE DEF r
<1>3. Ranked(l, r)
  BY <1>1, RankedSorted
<1> QED BY <1>2, <1>3, BlockFacts DEF Walkable

LEMMA SortedGood ==
  ASSUME NEW l \in Lists
  PROVE  TypeOK /\ Sorted(l) /\ Disjoint(l) => Good(l)
BY SortedWalkable DEF Good

LEMMA SortedGoodNext ==
  ASSUME NEW l \in Lists
  PROVE  TypeOK' /\ Sorted(l)' /\ Disjoint(l)' => Good(l)'
<1>1. TypeOK /\ Sorted(l) /\ Disjoint(l) => Good(l)
  BY SortedGood
<1> QED BY <1>1, PTL

\* Lists that a step leaves alone.
LEMMA ListKept ==
  ASSUME NEW k \in Lists, In(k)' = In(k), data_blocks'[k] = data_blocks[k],
         \A m \in In(k) : bb'[m] = bb[m] /\ next'[m] = next[m]
  PROVE  /\ Sorted(k) => Sorted(k)'
         /\ Disjoint(k) => Disjoint(k)'
         /\ Walkable(k) => Walkable(k)'
<1>1. \A m \in In(k) : Start(m)' = Start(m) /\ End(m)' = End(m)
  BY DEF Start, End
<1>2. Disjoint(k) => Disjoint(k)'
  BY <1>1 DEF Disjoint
<1>3. ASSUME Sorted(k) PROVE Sorted(k)'
  BY <1>3 DEF Sorted
<1>4. ASSUME NEW r, Ranked(k, r) PROVE Ranked(k, r)'
  BY <1>4 DEF Ranked
<1> QED BY <1>2, <1>3, <1>4 DEF Walkable

LEMMA GoodKept ==
  ASSUME NEW k \in Lists, In(k)' = In(k), data_blocks'[k] = data_blocks[k],
         \A m \in In(k) : bb'[m] = bb[m] /\ next'[m] = next[m],
         misuse'[k] = misuse[k], Good(k)
  PROVE  Good(k)'
BY ListKept DEF Good

\* What is known of a list that nothing wrong was done to, and of any.
LEMMA Regular ==
  ASSUME Core, NEW l \in Lists, misuse[l] = "none"
  PROVE  Sorted(l) /\ Disjoint(l) /\ Walkable(l)
BY DEF Core, Good

LEMMA Linked ==
  ASSUME Core, NEW l \in Lists
  PROVE  /\ In(l) = {} <=> data_blocks[l] = nullptr
         /\ In(l) # {} => data_blocks[l] \in In(l)
         /\ \A n \in In(l) : next[n] # nullptr => next[n] \in In(l) /\ next[n] # n
<1>1. PICK k \in Nat : \E r \in [Nodes -> 0 .. k] : Ranked(l, r)
  BY DEF Core, Good, Walkable
<1>2. PICK r \in [Nodes -> 0 .. k] : Ranked(l, r)
  BY <1>1
<1>3. \A n \in In(l) : r[n] \in Nat /\ n # nullptr
  BY InFacts
<1> QED BY <1>2, <1>3 DEF Ranked
-----------------------------------------------------------------------------
(***************************************************************************)
(* Adding a cell: the first one, at the head, or behind another.           *)
(***************************************************************************)
LEMMA AddFirstTypeOK ==
  ASSUME Core, NEW l \in Lists, NEW n \in Nodes, NEW block \in 0 .. Blocks - 1,
         NEW len \in Lens, NEW s \in Sources, AddFirst(l, n, block, len, s)
  PROVE  TypeOK'
BY NewBlock DEF Core, TypeOK, AddFirst, Filled, Owners

LEMMA AddFirstCore ==
  ASSUME Core, NEW l \in Lists, NEW n \in Nodes, NEW block \in 0 .. Blocks - 1,
         NEW len \in Lens, NEW s \in Sources, AddFirst(l, n, block, len, s)
  PROVE  Core'
<1>1. TypeOK'
  BY AddFirstTypeOK
<1>2. In(l) = {} /\ owner[n] = Free /\ pc = "idle" /\ misuse' = misuse
  BY Linked DEF AddFirst, Filled
<1>3. In(l)' = {n} /\ \A k \in Lists \ {l} : In(k)' = In(k) /\ n \notin In(k)
  BY <1>2, ListAssumption DEF AddFirst, In, Core, TypeOK
<1>4. \A m \in Nodes \ {n} : bb'[m] = bb[m] /\ next'[m] = next[m]
  BY DEF AddFirst, Filled, Core, TypeOK
<1>5. \A k \in Lists \ {l} : data_blocks'[k] = data_blocks[k]
  BY DEF AddFirst, Core, TypeOK
<1>6. /\ bb'[n].block = block /\ bb'[n].len = len /\ End(n)' = block * BlockSize + len
      /\ len > 0 /\ End(n)' <= Size
  BY ListAssumption DEF AddFirst, Filled, Core, TypeOK, Start, End
<1>7. data_blocks'[l] = n /\ next'[n] = nullptr
  BY DEF AddFirst, Core, TypeOK
<1>8. \A k \in Lists \ {l} : Good(k)'
  BY <1>2, <1>3, <1>4, <1>5, GoodKept, InFacts DEF Core
<1>9. Sorted(l)'
  BY <1>3, <1>6, <1>7 DEF Sorted
<1>10. Disjoint(l)'
  BY <1>3, <1>6 DEF Disjoint
<1>11. LastUsedListed'
  BY <1>2, <1>3 DEF AddFirst, Core, LastUsedListed
<1>12. QueueSound'
  BY <1>2, ListAssumption DEF AddFirst, Core, QueueSound, TypeOK
<1> QED BY <1>1, <1>8, <1>9, <1>10, <1>11, <1>12, SortedGoodNext DEF Core

\* A cell linked behind another one.
LEMMA InsertRanked ==
  ASSUME NEW l \in Lists, NEW r, Ranked(l, r), NEW a \in In(l), NEW n \in Nodes, n \notin In(l),
         In(l)' = In(l) \union {n}, data_blocks'[l] = data_blocks[l],
         \A m \in In(l) : r[m] \in Nat,
         \A m \in In(l) \ {a} : next'[m] = next[m],
         next'[a] = n, next'[n] = next[a],
         r[n] \in Nat, r[a] < r[n],
         next[a] # nullptr => r[n] < r[next[a]]
  PROVE  Ranked(l, r)'
<1>2. ASSUME NEW m \in In(l), r[m] = r[n] PROVE FALSE
  <2>1. next[a] \in In(l) /\ r[next[a]] <= r[m]
    BY <1>2 DEF Ranked
  <2> QED BY <2>1, <1>2, InFacts
<1>3. data_blocks[l] \in In(l) /\ data_blocks'[l] \in In(l)'
  BY DEF Ranked
<1>4. \A m \in In(l)' : r[data_blocks'[l]] <= r[m]
  BY <1>3 DEF Ranked
<1>5. \A p, q \in In(l)' : p # q => r[p] # r[q]
  BY <1>2 DEF Ranked
<1>6. \A p \in In(l)' : next'[p] # nullptr => next'[p] \in In(l)' /\ r[p] < r[next'[p]]
  BY DEF Ranked
<1>7. ASSUME NEW p \in In(l)', NEW q \in In(l)', r[p] < r[q]
      PROVE  next'[p] \in In(l)' /\ r[p] < r[next'[p]] /\ r[next'[p]] <= r[q]
  <2>1. CASE p = n
    <3>1. q \in In(l) /\ r[a] < r[q]
      BY <1>7, <2>1
    <3>2. next[a] \in In(l) /\ r[next[a]] <= r[q]
      BY <3>1 DEF Ranked
    <3> QED BY <2>1, <3>1, <3>2, InFacts
  <2>2. CASE p = a
    <3>1. CASE q = n
      BY <2>2, <3>1
    <3>2. CASE q # n
      <4>1. q \in In(l) /\ r[a] < r[q]
        BY <1>7, <2>2, <3>2
      <4>2. next[a] \in In(l) /\ r[next[a]] <= r[q]
        BY <4>1 DEF Ranked
      <4> QED BY <2>2, <4>1, <4>2, InFacts
    <3> QED BY <3>1, <3>2
  <2>3. CASE p # n /\ p # a
    <3>1. p \in In(l) /\ next'[p] = next[p]
      BY <2>3
    <3>2. CASE q = n
      \* p is before n, hence before a
      <4>1. r[p] < r[n]
        BY <1>7, <3>1, <3>2
      <4>2. r[p] < r[a]
        <5> SUFFICES ASSUME r[a] < r[p] PROVE FALSE
          BY <2>3, <3>1 DEF Ranked
        <5>1. next[a] \in In(l) /\ r[next[a]] <= r[p]
          BY <3>1 DEF Ranked
        <5> QED BY <5>1, <4>1, <3>1, InFacts
      <4>3. next[p] \in In(l) /\ r[p] < r[next[p]] /\ r[next[p]] <= r[a]
        BY <3>1, <4>2 DEF Ranked
      <4> QED BY <3>1, <3>2, <4>3
    <3>3. CASE q # n
      <4>1. q \in In(l) /\ r[p] < r[q]
        BY <1>7, <3>1, <3>3
      <4>2. next[p] \in In(l) /\ r[p] < r[next[p]] /\ r[next[p]] <= r[q]
        BY <3>1, <4>1 DEF Ranked
      <4> QED BY <3>1, <4>1, <4>2
    <3> QED BY <3>2, <3>3
  <2> QED BY <2>1, <2>2, <2>3
<1> QED BY <1>3, <1>4, <1>5, <1>6, <1>7 DEF Ranked

LEMMA InsertSorted ==
  ASSUME NEW l \in Lists, TypeOK, Sorted(l), NEW a \in In(l), NEW n \in Nodes, n \notin In(l),
         In(l)' = In(l) \union {n}, data_blocks'[l] = data_blocks[l],
         \A m \in In(l) : bb'[m].block = bb[m].block,
         \A m \in In(l) \ {a} : next'[m] = next[m],
         next'[a] = n, next'[n] = next[a],
         bb'[n].block \in Nat, bb[a].block < bb'[n].block,
         next[a] # nullptr => bb'[n].block < bb[next[a]].block
  PROVE  Sorted(l)'
<1>1. \A m \in In(l) : bb[m].block \in Nat /\ m # n /\ m \in Nodes
  BY InFacts, CellFacts
<1>2. PICK r : r = [m \in Nodes |-> IF m = n THEN bb'[n].block ELSE bb[m].block]
  OBVIOUS
<1>3. \A m \in In(l) : r[m] = bb[m].block
  BY <1>1, <1>2
<1>4. r[n] = bb'[n].block
  BY <1>2
<1>5. next[a] # nullptr => r[n] < r[next[a]]
  BY <1>3, <1>4 DEF Sorted
<1>6. Ranked(l, r)
  BY <1>3, RankedSorted
<1>7. Ranked(l, r)'
  BY <1>1, <1>3, <1>4, <1>5, <1>6, InsertRanked
<1>8. \A m \in In(l)' : r[m] = bb'[m].block
  BY <1>3, <1>4
<1> QED BY <1>7, <1>8, SortedRankedNext

\* It can be ranked in whatever list, between its neighbours.
LEMMA InsertWalkable ==
  ASSUME NEW l \in Lists, Walkable(l), NEW a \in In(l), NEW n \in Nodes, n \notin In(l),
         In(l)' = In(l) \union {n}, data_blocks'[l] = data_blocks[l],
         \A m \in In(l) \ {a} : next'[m] = next[m],
         next'[a] = n, next'[n] = next[a]
  PROVE  Walkable(l)'
<1>1. PICK k \in Nat : \E r \in [Nodes -> 0 .. k] : Ranked(l, r)
  BY DEF Walkable
<1>2. PICK r \in [Nodes -> 0 .. k] : Ranked(l, r)
  BY <1>1
<1>3. \A m \in In(l) : r[m] \in 0 .. k /\ m \in Nodes /\ m # n
  BY InFacts
<1>4. PICK s : s = [m \in Nodes |-> IF m = n THEN 2 * r[a] + 1 ELSE 2 * r[m]]
  OBVIOUS
<1>5. \A m \in In(l) : s[m] = 2 * r[m] /\ s[m] \in Nat
  BY <1>3, <1>4
<1>6. s[n] = 2 * r[a] + 1 /\ s[n] \in Nat
  BY <1>3, <1>4
<1>7. s \in [Nodes -> 0 .. 2 * k + 1] /\ 2 * k + 1 \in Nat
  BY <1>3, <1>4
<1>8. Ranked(l, s)
  <2>1. \A p, q \in In(l) : /\ r[p] <= r[q] <=> s[p] <= s[q]
                            /\ r[p] < r[q] <=> s[p] < s[q]
                            /\ r[p] = r[q] <=> s[p] = s[q]
    BY <1>3, <1>5
  <2>2. In(l) # {} => data_blocks[l] \in In(l)
    BY <1>2 DEF Ranked
  <2> QED BY <1>2, <2>1, <2>2 DEF Ranked
<1>9. s[a] < s[n] /\ (next[a] # nullptr => s[n] < s[next[a]])
  BY <1>2, <1>3, <1>5, <1>6 DEF Ranked
<1>10. Ranked(l, s)'
  BY <1>5, <1>6, <1>8, <1>9, InsertRanked
<1> QED BY <1>7, <1>10 DEF Walkable
\* The cell behind another one taken out.
LEMMA RemoveSorted ==
  ASSUME NEW l \in Lists, TypeOK, Sorted(l), NEW a \in In(l), NEW b \in In(l), next[a] = b,
         In(l)' = In(l) \ {b}, data_blocks'[l] = data_blocks[l],
         \A m \in In(l) \ {b} : bb'[m].block = bb[m].block,
         \A m \in In(l) \ {a, b} : next'[m] = next[m],
         next'[a] = next[b]
  PROVE  Sorted(l)'
<1>1. \A m \in In(l) : bb[m].block \in Nat /\ m # nullptr
  BY InFacts, CellFacts
<1>2. bb[a].block < bb[b].block /\ a # b
  BY <1>1 DEF Sorted
<1>3. data_blocks[l] \in In(l) /\ data_blocks'[l] \in In(l)'
  <2>1. data_blocks[l] \in In(l) /\ bb[data_blocks[l]].block <= bb[a].block
    BY DEF Sorted
  <2> QED BY <2>1, <1>1, <1>2
<1>4. \A m \in In(l)' : bb'[data_blocks'[l]].block <= bb'[m].block
  BY <1>3 DEF Sorted
<1>5. \A p, q \in In(l)' : p # q => bb'[p].block # bb'[q].block
  BY DEF Sorted
<1>6. ASSUME NEW p \in In(l)', next'[p] # nullptr
      PROVE  next'[p] \in In(l)' /\ bb'[p].block < bb'[next'[p]].block
  <2>1. CASE p = a
    <3>1. next[b] \in In(l) /\ bb[b].block < bb[next[b]].block
      BY <2>1, <1>6 DEF Sorted
    <3> QED BY <2>1, <3>1, <1>1, <1>2
  <2>2. CASE p # a
    <3>1. p \in In(l) /\ next'[p] = next[p] /\ next[p] \in In(l) /\ bb[p].block < bb[next[p]].block
      BY <2>2, <1>6 DEF Sorted
    <3>2. next[p] # b
      <4> SUFFICES ASSUME next[p] = b PROVE FALSE
        OBVIOUS
      <4>1. CASE bb[p].block < bb[a].block
        <5>1. bb[next[p]].block <= bb[a].block
          BY <3>1, <4>1 DEF Sorted
        <5> QED BY <5>1, <1>1, <1>2
      <4>2. CASE bb[a].block < bb[p].block
        <5>1. bb[next[a]].block <= bb[p].block
          BY <3>1, <4>2 DEF Sorted
        <5> QED BY <5>1, <1>1, <3>1
      <4> QED BY <4>1, <4>2, <2>2, <3>1, <1>1 DEF Sorted
    <3> QED BY <3>1, <3>2, <1>6
  <2> QED BY <2>1, <2>2
<1>7. ASSUME NEW p \in In(l)', NEW q \in In(l)', bb'[p].block < bb'[q].block
      PROVE  next'[p] \in In(l)' /\ bb'[p].block < bb'[next'[p]].block /\ bb'[next'[p]].block <= bb'[q].block
  <2>0. p \in In(l) /\ q \in In(l) /\ bb[p].block < bb[q].block /\ q # b
    BY <1>7
  <2>1. CASE p = a
    <3>1. bb[b].block <= bb[q].block
      BY <2>0, <2>1 DEF Sorted
    <3>2. bb[b].block < bb[q].block
      BY <2>0, <3>1, <1>1 DEF Sorted
    <3>3. next[b] \in In(l) /\ bb[b].block < bb[next[b]].block /\ bb[next[b]].block <= bb[q].block
      BY <2>0, <3>2 DEF Sorted
    <3> QED BY <2>1, <2>0, <3>3, <1>1, <1>2
  <2>2. CASE p # a
    <3>1. next[p] \in In(l) /\ bb[next[p]].block <= bb[q].block /\ next'[p] = next[p]
      BY <2>0, <2>2, <1>7 DEF Sorted
    <3>2. next'[p] # nullptr
      BY <3>1, <1>1
    <3>3. next'[p] \in In(l)' /\ bb'[p].block < bb'[next'[p]].block
      BY <3>2, <1>6
    <3> QED BY <3>1, <3>3, <2>0
  <2> QED BY <2>1, <2>2
<1> QED BY <1>3, <1>4, <1>5, <1>6, <1>7 DEF Sorted

\* A cell added to the regions of a list.
LEMMA InsertDisjoint ==
  ASSUME NEW l \in Lists, TypeOK, TypeOK', Disjoint(l), NEW n \in Nodes, n \notin In(l),
         In(l)' = In(l) \union {n},
         \A m \in In(l) : bb'[m] = bb[m],
         bb'[n].len > 0, End(n)' <= Size,
         \A m \in In(l) : End(m) <= Start(n)' \/ End(n)' <= Start(m)
  PROVE  Disjoint(l)'
<1>1. \A m \in In(l) : /\ m \in Nodes /\ owner[m] = l /\ Start(m)' = Start(m) /\ End(m)' = End(m)
                       /\ Start(m) \in Nat /\ End(m) \in Nat /\ End(m) = Start(m) + bb[m].len
                       /\ bb[m].len \in Nat /\ bb[m].len > 0
  BY InFacts, CellFacts DEF Start, End, Disjoint
<1>2. \A m \in In(l)' : m \in Nodes /\ owner'[m] # Free
  BY ListAssumption DEF In
<1>3. \A p, q \in In(l)' : bb'[p].block < bb'[q].block <=> Start(p)' < Start(q)'
  BY <1>2, CellOrderNext
<1>4. Start(n)' \in Nat /\ End(n)' \in Nat /\ End(n)' = Start(n)' + bb'[n].len /\ bb'[n].len \in Nat
  BY <1>2, CellFactsNext
<1>5. \A m \in In(l) : bb'[m].block # bb'[n].block
  <2>1. \A m \in In(l) : Start(m)' # Start(n)'
    BY <1>1, <1>4
  <2> QED BY <2>1 DEF Start
<1> QED BY <1>1, <1>3, <1>4, <1>5 DEF Disjoint

LEMMA AddAtHeadCore ==
  ASSUME Core, NEW l \in Lists, NEW n \in Nodes, NEW block \in 0 .. Blocks - 1,
         NEW len \in Lens, NEW s \in Sources, AddAtHead(l, n, block, len, s)
  PROVE  Core'
<1>1. TypeOK'
  BY NewBlock DEF Core, TypeOK, AddAtHead, Filled, Owners
<1>2. owner[n] = Free /\ pc = "idle" /\ n \notin In(l) /\ n # nullptr /\ misuse[l] = "none" /\ misuse' = misuse
  BY InFacts, ListAssumption DEF AddAtHead, Filled
<1>3. In(l)' = In(l) \union {n} /\ \A k \in Lists \ {l} : In(k)' = In(k) /\ n \notin In(k)
  BY <1>2, ListAssumption DEF AddAtHead, In, Core, TypeOK
<1>4. \A m \in Nodes \ {n} : bb'[m] = bb[m] /\ next'[m] = next[m]
  BY DEF AddAtHead, Filled, Core, TypeOK
<1>5. \A k \in Lists \ {l} : data_blocks'[k] = data_blocks[k]
  BY DEF AddAtHead, Core, TypeOK
<1>6. /\ bb'[n].block = block /\ bb'[n].len = len
      /\ Start(n)' = block * BlockSize /\ End(n)' = block * BlockSize + len
      /\ len > 0 /\ End(n)' <= Size /\ block \in Nat
  BY ListAssumption DEF AddAtHead, Filled, Core, TypeOK, Start, End
<1>7. data_blocks'[l] = n /\ next'[n] = data_blocks[l]
  BY DEF AddAtHead, Core, TypeOK
<1>8. \A k \in Lists \ {l} : Good(k)'
  BY <1>2, <1>3, <1>4, <1>5, GoodKept, InFacts DEF Core
<1>9. Sorted(l) /\ Disjoint(l)
  BY <1>2, Regular
<1>10. Sorted(l)'
  <2>1. /\ data_blocks[l] \in In(l) /\ block < bb[data_blocks[l]].block
        /\ \A m \in In(l) : bb[data_blocks[l]].block <= bb[m].block /\ bb[m].block \in Nat
    BY <1>9, InFacts, CellFacts DEF Core, Sorted, AddAtHead
  <2>2. \A m \in In(l) : bb'[m] = bb[m] /\ next'[m] = next[m]
    BY <1>2, <1>4, InFacts
  <2> QED BY <1>2, <1>3, <1>6, <1>7, <1>9, <2>1, <2>2 DEF Core, Sorted
<1>11. Disjoint(l)'
  <2>1. \A m \in In(l) : End(m) <= Start(n)' \/ End(n)' <= Start(m)
    BY <1>6 DEF AddAtHead, Unused
  <2>2. \A m \in In(l) : bb'[m] = bb[m]
    BY <1>2, <1>4, InFacts
  <2> QED BY <1>1, <1>2, <1>3, <1>6, <1>9, <2>1, <2>2, InsertDisjoint DEF Core
<1>12. LastUsedListed'
  BY <1>2, <1>3 DEF AddAtHead, Core, LastUsedListed
<1>13. QueueSound'
  BY <1>2, ListAssumption DEF AddAtHead, Core, QueueSound, TypeOK
<1> QED BY <1>1, <1>8, <1>10, <1>11, <1>12, <1>13, SortedGoodNext DEF Core

LEMMA AddBehindCore ==
  ASSUME Core, NEW l \in Lists, NEW n \in Nodes, NEW block \in 0 .. Blocks - 1,
         NEW len \in Lens, NEW s \in Sources, AddBehind(l, n, block, len, s)
  PROVE  Core'
<1>1. /\ owner[n] = Free /\ pc = "idle" /\ n # nullptr /\ misuse[l] = "none" /\ misuse' = misuse
      /\ \A k \in Lists : n \notin In(k)
  BY InFacts, ListAssumption DEF AddBehind, Filled
<1>2. \A k \in Lists : In(k)' = In(k)
  BY <1>1, ListAssumption DEF AddBehind, In, Core, TypeOK
<1>3. \A m \in Nodes \ {n} : bb'[m] = bb[m] /\ next'[m] = next[m]
  BY DEF AddBehind, Filled, Core, TypeOK
<1>4. /\ bb'[n].block = block /\ bb'[n].len = len /\ bb'[n].src = s.src
      /\ Start(n)' = block * BlockSize /\ End(n)' = block * BlockSize + len
      /\ len > 0 /\ End(n)' <= Size /\ block \in Nat
  BY ListAssumption DEF AddBehind, Filled, Core, TypeOK, Start, End
<1>5. \A k \in Lists : Good(k)'
  BY <1>1, <1>2, <1>3, GoodKept, InFacts DEF AddBehind, Core
<1>6. Sorted(l) /\ Disjoint(l)
  BY <1>1, Regular
<1>7. data_blocks[l] \in In(l) /\ bb[data_blocks[l]].block <= block
  BY <1>6 DEF AddBehind, Core, Sorted
<1>8. FirstBb(l, block) \in In(l) /\ bb[FirstBb(l, block)].block <= block
  <2>1. CASE last_used[l] # nullptr /\ block > bb[last_used[l]].block
    <3>1. last_used[l] \in In(l)
      BY <1>1, <2>1 DEF Core, LastUsedListed
    <3>2. bb[last_used[l]].block \in Nat
      BY <3>1, InFacts, CellFacts DEF Core
    <3> QED BY <2>1, <3>1, <3>2, <1>4 DEF FirstBb
  <2>2. CASE ~(last_used[l] # nullptr /\ block > bb[last_used[l]].block)
    BY <2>2, <1>7 DEF FirstBb
  <2> QED BY <2>1, <2>2
<1>9. TypeOK'
  <2>1. FirstBb(l, block) \in Nodes
    BY <1>8, InFacts
  <2> QED BY <2>1, NewBlock DEF Core, TypeOK, AddBehind, Filled, Owners
<1>10. cur' \in In(l) /\ cur' # n /\ bb'[cur'] = bb[cur'] /\ bb'[cur'].block <= block
  BY <1>1, <1>3, <1>8, InFacts DEF AddBehind
\* where the regions do not overlap, the order is strict
<1>11. ASSUME Unused(l, block, len) PROVE bb'[cur'].block < block
  <2> DEFINE c == cur'
  <2>1. /\ Start(c) \in Nat /\ End(c) = Start(c) + bb[c].len /\ bb[c].len \in Nat
        /\ bb[c].len > 0 /\ bb[c].block \in Nat
    BY <1>6, <1>10, InFacts, CellFacts DEF Core, Disjoint
  <2>2. End(c) <= block * BlockSize \/ block * BlockSize + len <= Start(c)
    BY <1>10, <1>11 DEF Unused
  <2>3. bb[c].block # block
    BY <2>1, <2>2, <1>4, ListAssumption, ProductOrder, BlockFacts DEF Start
  <2> QED BY <2>1, <2>3, <1>10, <1>4
<1>12. LastUsedListed'
  BY <1>1, <1>2 DEF AddBehind, Core, LastUsedListed, TypeOK
<1>13. QueueSound'
  <2>1. \A m \in Nodes : owner'[m] = Fresh => pc' = "search" /\ m = new_bb'
    BY <1>1 DEF AddBehind, Core, QueueSound, TypeOK
  <2>2. list' = l /\ cur' \in In(list)' /\ new_bb' = n /\ last_used'[l] = n
        /\ pc' = "search" /\ owner'[n] = Fresh /\ misuse'[l] = "none"
    BY <1>1, <1>2, <1>10 DEF AddBehind, Core, TypeOK
  <2>3. \A m \in In(l) : End(m)' = End(m) /\ Start(m)' = Start(m) /\ bb'[m] = bb[m]
    BY <1>1, <1>3, InFacts DEF Start, End
  <2>4. Unused(l, block, len) => Unused(l, block, len)'
    BY <1>2, <2>3 DEF Unused
  <2>5. AtPartialBlock(l, block, len, s.src) => AtPartialBlock(l, block, len, s.src)'
    BY <1>2, <2>3 DEF AtPartialBlock
  <2>6. \/ /\ Unused(list, bb[new_bb].block, bb[new_bb].len)'
           /\ bb'[cur'].block < bb'[new_bb'].block
        \/ /\ AtPartialBlock(list, bb[new_bb].block, bb[new_bb].len, bb[new_bb].src)'
           /\ bb'[cur'].block <= bb'[new_bb'].block
    <3>1. CASE Unused(l, block, len)
      BY <1>4, <1>11, <2>2, <2>4, <3>1 DEF Unused
    <3>2. CASE AtPartialBlock(l, block, len, s.src)
      BY <1>4, <1>10, <2>2, <2>5, <3>2 DEF AtPartialBlock
    <3> QED BY <3>1, <3>2 DEF AddBehind
  <2>7. (bb[new_bb].len > 0 /\ End(new_bb) <= Size)'
    BY <1>4, <2>2
  <2> QED BY <2>1, <2>2, <2>6, <2>7 DEF QueueSound
<1> QED BY <1>5, <1>9, <1>12, <1>13 DEF Core

LEMMA SearchCore ==
  ASSUME Core, Search
  PROVE  Core'
<1>1. /\ pc = "search" /\ list \in Lists /\ cur \in In(list) /\ new_bb \in Nodes
      /\ next[cur] # nullptr /\ bb[next[cur]].block < bb[new_bb].block
  BY DEF Core, QueueSound, Search, NextIsBefore
<1>2. next[cur] \in In(list)
  BY <1>1, Linked
<1>3. \A k \in Lists : In(k)' = In(k)
  BY DEF Search, In
<1>4. TypeOK'
  BY <1>2, InFacts, <1>1 DEF Search, Core, TypeOK
<1>5. \A k \in Lists : Good(k)'
  BY <1>3, GoodKept DEF Search, Core
<1>6. LastUsedListed'
  BY <1>3 DEF Search, Core, LastUsedListed
<1>7. bb[cur'].block \in Nat /\ bb[new_bb].block \in Nat
  BY <1>1, <1>2, InFacts, CellFacts, ListAssumption DEF Search, Core, QueueSound
<1>8. QueueSound'
  <2>1. (pc = "search" /\ list \in Lists /\ cur \in In(list) /\ new_bb \in Nodes
         /\ last_used[list] = new_bb /\ bb[cur].block < bb[new_bb].block /\ owner[new_bb] = Fresh
         /\ misuse[list] = "none")'
    BY <1>1, <1>2, <1>3 DEF Search, Core, QueueSound
  <2>2. (bb[new_bb].len > 0 /\ End(new_bb) <= Size)'
    BY <1>1 DEF Search, Core, QueueSound, Start, End
  <2>3. \/ Unused(list, bb[new_bb].block, bb[new_bb].len)'
        \/ AtPartialBlock(list, bb[new_bb].block, bb[new_bb].len, bb[new_bb].src)'
    BY <1>1, <1>3 DEF Search, Core, QueueSound, Unused, AtPartialBlock, Start, End
  <2>4. \A m \in Nodes : owner'[m] = Fresh => pc' = "search" /\ m = new_bb'
    BY DEF Search, Core, QueueSound
  <2>5. bb'[cur'].block <= bb'[new_bb'].block
    BY <1>7, <2>1 DEF Search
  <2> QED BY <2>1, <2>2, <2>3, <2>4, <2>5 DEF QueueSound
<1> QED BY <1>4, <1>5, <1>6, <1>8 DEF Core

LEMMA LinkCore ==
  ASSUME Core, Link
  PROVE  Core'
<1>1. /\ pc = "search" /\ list \in Lists /\ cur \in In(list) /\ new_bb \in Nodes
      /\ owner[new_bb] = Fresh /\ last_used[list] = new_bb /\ misuse[list] = "none"
      /\ bb[new_bb].len > 0 /\ End(new_bb) <= Size
      /\ next[cur] # nullptr => ~(bb[next[cur]].block < bb[new_bb].block)
      /\ bb' = bb /\ data_blocks' = data_blocks /\ list' = list
  BY DEF Core, QueueSound, Link, NextIsBefore
<1>2. PICK l \in Lists : l = list
  BY <1>1
<1>3. PICK n \in Nodes : n = new_bb
  BY <1>1
<1>4. PICK a \in In(l) : a = cur
  BY <1>1, <1>2
<1>5. bb[a].block <= bb[n].block /\ a \in Nodes /\ n # nullptr /\ \A k \in Lists : n \notin In(k)
  <2>1. a \in Nodes /\ owner[a] # Free /\ n # nullptr /\ \A k \in Lists : n \notin In(k)
    BY <1>1, <1>3, InFacts, ListAssumption
  <2>2. bb[a].block \in Nat /\ bb[n].block \in Nat
    BY <2>1, <1>1, <1>3, CellFacts, ListAssumption DEF Core
  <2> QED BY <1>1, <1>3, <1>4, <2>1, <2>2 DEF Core, QueueSound
<1>6. In(l)' = In(l) \union {n} /\ \A k \in Lists \ {l} : In(k)' = In(k)
  BY <1>1, <1>2, <1>3, ListAssumption DEF Link, In, Core, TypeOK
<1>7. next'[a] = n /\ next'[n] = next[a] /\ \A m \in Nodes \ {a, n} : next'[m] = next[m]
  BY <1>3, <1>4, <1>5 DEF Link, Core, TypeOK
<1>8. \A m \in In(l) : m \in Nodes /\ m # n
  BY <1>5, InFacts
<1>9. TypeOK'
  BY <1>1, InFacts, ListAssumption DEF Link, Core, TypeOK, Owners
<1>10. Sorted(l) /\ Disjoint(l) /\ Walkable(l)
  BY <1>1, <1>2, Regular
<1>11. \A m \in In(l) : /\ bb[m].len > 0 /\ owner[m] # Free /\ bb[m].len \in Nat
                        /\ bb[m].block \in Nat /\ Start(m) \in Nat /\ End(m) = Start(m) + bb[m].len
  BY <1>10, InFacts, CellFacts DEF Disjoint, Core
<1>12. /\ owner[n] # Free /\ bb[n].block \in Nat /\ bb[n].len \in Nat
       /\ Start(n) \in Nat /\ End(n) = Start(n) + bb[n].len
  BY <1>1, <1>3, CellFacts, ListAssumption DEF Core
<1>13. ASSUME Unused(l, bb[n].block, bb[n].len), NEW m \in In(l)
       PROVE  (End(m) <= Start(n) \/ End(n) <= Start(m)) /\ bb[m].block # bb[n].block
  <2>1. End(m) <= Start(n) \/ End(n) <= Start(m)
    BY <1>13 DEF Unused, Start, End
  <2>2. Start(m) # Start(n)
    BY <2>1, <1>1, <1>3, <1>11, <1>12
  <2> QED BY <2>1, <2>2 DEF Start
<1>14. ASSUME Unused(l, bb[n].block, bb[n].len)
       PROVE  Good(l)' /\ bb[a].block < bb[n].block
  <2>1. bb[a].block < bb[n].block
    BY <1>5, <1>11, <1>12, <1>13, <1>14
  <2>2. next[a] # nullptr => bb[n].block < bb[next[a]].block
    <3> SUFFICES ASSUME next[a] # nullptr PROVE bb[n].block < bb[next[a]].block
      OBVIOUS
    <3>1. PICK m \in In(l) : m = next[a]
      BY <1>10 DEF Sorted
    <3>2. ~(bb[m].block < bb[n].block)
      BY <1>1, <1>3, <1>4, <3>1
    <3> QED BY <1>11, <1>12, <1>13, <1>14, <3>1, <3>2
  <2>3. Sorted(l)'
    BY <1>1, <1>5, <1>6, <1>7, <1>8, <1>10, <1>12, <2>1, <2>2, InsertSorted DEF Core
  <2>4. Start(n)' = Start(n) /\ End(n)' = End(n)
    BY <1>1 DEF Start, End
  <2>5. \A m \in In(l) : bb'[m] = bb[m] /\ (End(m) <= Start(n)' \/ End(n)' <= Start(m))
    BY <1>1, <1>13, <1>14, <2>4
  <2>6. Disjoint(l)'
    BY <1>1, <1>3, <1>5, <1>6, <1>9, <1>10, <2>4, <2>5, InsertDisjoint DEF Core
  <2> QED BY <1>9, <2>1, <2>3, <2>6, SortedGoodNext
<1>15. misuse' = [misuse EXCEPT ![l] = IF Unused(l, bb[n].block, bb[n].len)
                                        THEN misuse[l] ELSE "added_twice"]
  BY <1>2, <1>3 DEF Link
<1>16. ASSUME ~Unused(l, bb[n].block, bb[n].len)
       PROVE  Good(l)' /\ \A m \in In(l) : bb[m].src # bb[n].src
  <2>1. misuse'[l] = "added_twice"
    BY <1>15, <1>16 DEF Core, TypeOK
  <2>2. Walkable(l)'
    BY <1>1, <1>5, <1>6, <1>7, <1>8, <1>10, InsertWalkable
  <2>3. \A m \in In(l) : bb[m].src # bb[n].src
    BY <1>1, <1>2, <1>3, <1>16 DEF Core, QueueSound, AtPartialBlock
  <2> QED BY <2>1, <2>2, <2>3 DEF Good
<1>17. \A k \in Lists \ {l} : Good(k)'
  <2> SUFFICES ASSUME NEW k \in Lists \ {l} PROVE Good(k)'
    OBVIOUS
  <2>1. a \notin In(k) /\ n \notin In(k)
    BY <1>5, InFacts
  <2>2. \A m \in In(k) : bb'[m] = bb[m] /\ next'[m] = next[m]
    BY <1>1, <1>7, <2>1, InFacts
  <2>3. misuse'[k] = misuse[k]
    BY <1>15 DEF Core, TypeOK
  <2> QED BY <1>1, <1>6, <2>2, <2>3, GoodKept DEF Core
<1>18. LastUsedListed'
  BY <1>1, <1>2, <1>3, <1>6 DEF Link, Core, LastUsedListed
<1>19. QueueSound'
  <2>1. \A m \in Nodes : owner'[m] # Fresh
    BY <1>1, ListAssumption DEF Link, Core, QueueSound, TypeOK
  <2>2. pc' = "merge_next" /\ list' = l /\ cur' = a /\ new_bb' = n
    BY <1>1, <1>2, <1>3, <1>4 DEF Link
  <2>3. last_used'[l] = n /\ owner'[n] = l
    BY <1>1, <1>2, <1>3 DEF Link, Core, TypeOK
  <2>4. misuse'[l] = "none" => bb'[a].block < bb'[n].block
    BY <1>1, <1>14, <1>15 DEF Core, TypeOK
  <2>5. misuse'[l] # "none" => \A m \in In(l)' \ {n} : bb'[m].src # bb'[n].src
    BY <1>1, <1>2, <1>6, <1>15, <1>16 DEF Core, TypeOK
  <2> QED BY <1>6, <1>7, <2>1, <2>2, <2>3, <2>4, <2>5 DEF QueueSound
<1> QED BY <1>9, <1>14, <1>16, <1>17, <1>18, <1>19 DEF Core
-----------------------------------------------------------------------------
(***************************************************************************)
(* merge_bb().                                                             *)
(***************************************************************************)
\* What is merged is adjacent: a quotient that was rounded down would be the
\* number of a block that overlaps the first cell.
LEMMA Adjacent ==
  ASSUME Size < Wrap, Core, NEW l \in Lists, misuse[l] = "none",
         NEW a \in In(l), NEW b \in In(l), next[a] = b, CanMerge(a, b)
  PROVE  /\ End(a) = Start(b) /\ bb[a].block < bb[b].block
         /\ (bb[a].len + bb[b].len) % Wrap = bb[a].len + bb[b].len
<1> DEFINE q == bb[a].len \div BlockSize
           r == bb[a].len % BlockSize
<1>1. /\ bb[a].block \in Nat /\ bb[b].block \in Nat /\ bb[a].len \in Nat /\ bb[b].len \in Nat
      /\ Start(a) \in Nat /\ End(a) = Start(a) + bb[a].len /\ End(a) \in Nat
      /\ Start(b) \in Nat /\ End(b) = Start(b) + bb[b].len /\ End(b) \in Nat
  BY InFacts, CellFacts DEF Core
<1>2. bb[a].block < bb[b].block
  BY Regular, InFacts DEF Sorted
<1>3. End(a) <= Start(b) /\ End(a) <= Size /\ End(b) <= Size
  BY <1>2, Regular DEF Disjoint
<1>4. q \in Nat /\ r \in Nat /\ bb[a].len = q * BlockSize + r
  <2>1. q \in Nat /\ r \in 0 .. BlockSize - 1 /\ bb[a].len = q * BlockSize + r
    <3>1. \A k \in Nat : /\ k \div BlockSize \in Nat /\ k % BlockSize \in 0 .. BlockSize - 1
                          /\ k = (k \div BlockSize) * BlockSize + (k % BlockSize)
      BY BlockFacts, Quotient
    <3> QED BY <1>1, <3>1, Zenon
  <2> QED BY <2>1, BlockFacts
<1>5. (bb[a].block + q) % Wrap = bb[b].block
  BY DEF CanMerge
<1> HIDE DEF q, r
<1>6. (bb[a].block + q) * BlockSize = Start(a) + q * BlockSize /\ q * BlockSize \in Nat
  BY <1>1, <1>4, BlockFacts DEF Start
<1>7. bb[a].block + q <= (bb[a].block + q) * BlockSize
  BY <1>1, <1>4, BlockFacts, ProductOrder
<1>8. bb[a].block + q \in Nat /\ bb[a].block + q < Wrap
  BY <1>1, <1>3, <1>4, <1>6, <1>7, BlockFacts
<1>9. bb[a].block + q = bb[b].block
  BY <1>5, <1>8, BlockFacts, Modulo
<1>10. Start(b) = Start(a) + q * BlockSize
  BY <1>6, <1>9 DEF Start
<1>11. End(a) = Start(b)
  BY <1>1, <1>3, <1>4, <1>6, <1>10
<1>12. bb[a].len + bb[b].len \in Nat /\ bb[a].len + bb[b].len < Wrap
  BY <1>1, <1>3, <1>11, BlockFacts
<1> QED BY <1>2, <1>11, <1>12, BlockFacts, Modulo

LEMMA MergeLists ==
  ASSUME Size < Wrap, Core, NEW l \in Lists, misuse[l] = "none",
         NEW a \in In(l), NEW b \in In(l), next[a] = b, CanMerge(a, b), Merge(a, b),
         data_blocks' = data_blocks, misuse' = misuse
  PROVE  /\ In(l)' = In(l) \ {b} /\ a # b
         /\ \A k \in Lists \ {l} : In(k)' = In(k) /\ b \notin In(k)
         /\ \A m \in Nodes \ {a, b} : bb'[m] = bb[m]
         /\ bb'[a] = [bb[a] EXCEPT !.len = bb[a].len + bb[b].len]
         /\ bb'[a] \in BackedBlock /\ bb'[b] = Poison
         /\ Start(a)' = Start(a) /\ End(a)' = End(b)
         /\ Sorted(l)' /\ Disjoint(l)' /\ \A k \in Lists \ {l} : Good(k)'
<1>1. /\ End(a) = Start(b) /\ bb[a].block < bb[b].block
      /\ (bb[a].len + bb[b].len) % Wrap = bb[a].len + bb[b].len
  BY Adjacent
<1>2. \A m \in In(l) : /\ m \in Nodes /\ owner[m] = l /\ bb[m] \in BackedBlock
                       /\ bb[m].block \in Nat /\ bb[m].len \in Nat /\ m # nullptr
                       /\ Start(m) \in Nat /\ End(m) = Start(m) + bb[m].len /\ End(m) \in Nat
  BY InFacts, CellFacts DEF Core
<1>3. a # b /\ Sorted(l) /\ Disjoint(l)
  BY <1>1, <1>2, Regular
<1>4. In(l)' = In(l) \ {b} /\ \A k \in Lists \ {l} : In(k)' = In(k) /\ b \notin In(k)
  BY <1>2, ListAssumption DEF Merge, In, Core, TypeOK
<1>5. /\ \A m \in Nodes \ {a, b} : bb'[m] = bb[m] /\ next'[m] = next[m]
      /\ bb'[b] = Poison
      /\ bb'[a] = [bb[a] EXCEPT !.len = bb[a].len + bb[b].len]
      /\ next'[a] = next[b]
  BY <1>1, <1>2, <1>3 DEF Merge, Core, TypeOK
<1>6. /\ bb'[a] \in BackedBlock /\ bb'[a].block = bb[a].block
      /\ bb'[a].len = bb[a].len + bb[b].len
  BY <1>2, <1>5 DEF BackedBlock
<1>7. Start(a)' = Start(a) /\ End(a)' = End(b)
  BY <1>1, <1>2, <1>6 DEF Start, End
<1>8. ASSUME NEW k \in Lists \ {l} PROVE Good(k)'
  <2>1. \A m \in In(k) : m # a /\ m # b /\ m \in Nodes
    BY <1>2, InFacts
  <2> QED BY <1>4, <1>5, <2>1, GoodKept DEF Core
<1>9. Sorted(l)'
  <2>1. \A m \in In(l) \ {b} : bb'[m].block = bb[m].block
    BY <1>2, <1>5, <1>6
  <2>2. \A m \in In(l) \ {a, b} : next'[m] = next[m]
    BY <1>2, <1>5
  <2> QED BY <1>3, <1>4, <1>5, <2>1, <2>2, RemoveSorted DEF Core
<1>10. Disjoint(l)'
  <2>1. \A m \in In(l)' \ {a} : bb'[m] = bb[m] /\ Start(m)' = Start(m) /\ End(m)' = End(m)
    BY <1>2, <1>4, <1>5 DEF Start, End
  <2>2. \A m \in In(l)' : bb'[m].len > 0 /\ End(m)' <= Size
    BY <1>2, <1>3, <1>4, <1>6, <1>7, <2>1 DEF Disjoint
  <2>3. ASSUME NEW p \in In(l)', NEW q \in In(l)', bb'[p].block < bb'[q].block
        PROVE  End(p)' <= Start(q)'
    <3>1. p \in In(l) /\ q \in In(l) /\ q # b /\ p # b /\ bb[p].block < bb[q].block
      BY <1>4, <1>6, <2>1, <2>3
    <3>2. CASE p = a
      <4>1. bb[b].block <= bb[q].block /\ bb[b].block # bb[q].block
        BY <1>3, <3>1, <3>2 DEF Sorted
      <4>2. End(b) <= Start(q)
        BY <1>3, <3>1, <4>1, <1>2 DEF Disjoint
      <4> QED BY <3>1, <3>2, <4>2, <1>2, <1>7, <2>1
    <3>3. CASE p # a
      <4>1. End(p) <= Start(q)
        BY <1>3, <3>1 DEF Disjoint
      <4> QED BY <3>1, <3>3, <4>1, <1>2, <1>7, <2>1
    <3> QED BY <3>2, <3>3
  <2>4. \A p, q \in In(l)' : p # q => bb'[p].block # bb'[q].block
    BY <1>3, <1>4, <1>6, <2>1 DEF Disjoint
  <2> QED BY <2>2, <2>3, <2>4 DEF Disjoint
<1> QED BY <1>3, <1>4, <1>5, <1>6, <1>7, <1>8, <1>9, <1>10

\* Between linking and the end of queue_bb().  The region that append2simg adds
\* twice comes from another file, so that it is never merged.
LEMMA MergeState ==
  ASSUME Core, pc \in {"merge_next", "merge_prev"}
  PROVE  /\ list \in Lists /\ cur \in In(list) /\ new_bb \in In(list) /\ next[cur] = new_bb
         /\ last_used[list] = new_bb /\ cur # new_bb
         /\ misuse[list] = "none" => bb[cur].block < bb[new_bb].block
         /\ cur \in Nodes /\ new_bb \in Nodes
         /\ \A m \in Nodes : owner[m] # Fresh
         /\ next[new_bb] # nullptr => next[new_bb] \in In(list) /\ next[new_bb] # new_bb
         /\ CanMerge(new_bb, next[new_bb]) => misuse[list] = "none" /\ next[new_bb] \in In(list)
         /\ CanMerge(cur, new_bb) => misuse[list] = "none"
<1>1. /\ list \in Lists /\ cur \in In(list) /\ new_bb \in In(list) /\ next[cur] = new_bb
      /\ last_used[list] = new_bb /\ cur \in Nodes /\ new_bb \in Nodes
      /\ \A m \in Nodes : owner[m] # Fresh
      /\ misuse[list] = "none" => bb[cur].block < bb[new_bb].block
      /\ misuse[list] # "none" => \A m \in In(list) \ {new_bb} : bb[m].src # bb[new_bb].src
  BY DEF Core, QueueSound, In
<1>2. cur # new_bb /\ (next[new_bb] # nullptr => next[new_bb] \in In(list) /\ next[new_bb] # new_bb)
  BY <1>1, Linked, InFacts
<1>3. CanMerge(new_bb, next[new_bb]) => misuse[list] = "none" /\ next[new_bb] \in In(list)
  BY <1>1, <1>2 DEF CanMerge
<1>4. CanMerge(cur, new_bb) => misuse[list] = "none"
  BY <1>1, <1>2 DEF CanMerge
<1> QED BY <1>1, <1>2, <1>3, <1>4

LEMMA MergeNextCore ==
  ASSUME Size < Wrap, Core, MergeNext
  PROVE  Core'
<1>1. /\ pc = "merge_next" /\ pc' = "merge_prev" /\ data_blocks' = data_blocks /\ misuse' = misuse
      /\ last_used' = last_used /\ list' = list /\ cur' = cur /\ new_bb' = new_bb
  BY DEF MergeNext
<1>2. PICK l \in Lists : l = list
  BY <1>1, MergeState
<1>3. PICK n \in In(l) : n = new_bb
  BY <1>1, <1>2, MergeState
<1>4. /\ cur \in In(l) /\ next[cur] = n /\ cur # n /\ last_used[l] = n
      /\ cur \in Nodes /\ n \in Nodes /\ \A m \in Nodes : owner[m] # Fresh
      /\ misuse[l] = "none" => bb[cur].block < bb[n].block
  BY <1>1, <1>2, <1>3, MergeState
<1>5. ASSUME CanMerge(new_bb, next[new_bb]), Merge(new_bb, next[new_bb]) PROVE Core'
  <2>1. misuse[l] = "none" /\ next[n] \in In(l)
    BY <1>1, <1>2, <1>3, <1>5, MergeState
  <2>2. PICK b \in In(l) : b = next[n]
    BY <2>1
  <2>3. /\ In(l)' = In(l) \ {b} /\ n # b
        /\ \A k \in Lists \ {l} : In(k)' = In(k) /\ b \notin In(k)
        /\ \A m \in Nodes \ {n, b} : bb'[m] = bb[m]
        /\ bb'[n] = [bb[n] EXCEPT !.len = bb[n].len + bb[b].len]
        /\ bb'[n] \in BackedBlock /\ bb'[b] = Poison
        /\ Sorted(l)' /\ Disjoint(l)' /\ \A k \in Lists \ {l} : Good(k)'
    BY <1>1, <1>3, <1>5, <2>1, <2>2, MergeLists
  <2>4. bb'[n].block = bb[n].block /\ b \in Nodes /\ owner[n] = l /\ n # nullptr
    BY <2>3, InFacts, CellFacts DEF Core, BackedBlock
  <2>5. cur # b
    <3>1. bb[n].block < bb[b].block /\ bb[n].block \in Nat /\ bb[b].block \in Nat /\ bb[cur].block \in Nat
      BY <1>4, <2>1, <2>2, <2>4, Regular, InFacts, CellFacts DEF Core, Sorted
    <3> QED BY <1>4, <2>1, <3>1
  <2>6. /\ owner' = [owner EXCEPT ![b] = Free] /\ owner' \in [Nodes -> Owners]
        /\ next' = [next EXCEPT ![n] = next[b], ![b] = nullptr]
    BY <1>3, <1>5, <2>2 DEF Merge, Core, TypeOK, Owners
  <2>7. next'[cur] = n /\ owner'[n] = l
    BY <1>4, <2>3, <2>4, <2>5, <2>6 DEF Core, TypeOK
  <2>8. \A m \in Nodes : owner'[m] # Fresh
    BY <1>4, <2>6, ListAssumption DEF Core, TypeOK
  <2>9. TypeOK'
    <3>1. next' \in [Nodes -> Nodes \union {nullptr}]
      BY <1>4, <2>4, <2>6 DEF Core, TypeOK
    <3>2. bb' \in [Nodes -> BackedBlock \union {Poison}]
      <4>1. bb' = [m \in Nodes |-> bb'[m]]
        BY <1>5 DEF Merge, Core, TypeOK
      <4>2. \A m \in Nodes : bb'[m] \in BackedBlock \union {Poison}
        BY <2>3 DEF Core, TypeOK
      <4> QED BY <4>1, <4>2
    <3>3. \A m \in Nodes : owner'[m] # Free => bb'[m] \in BackedBlock
      BY <2>3, <2>4, <2>6 DEF Core, TypeOK
    <3> QED BY <1>1, <2>6, <3>1, <3>2, <3>3 DEF Core, TypeOK
  <2>10. LastUsedListed'
    BY <1>1, <1>4, <2>3 DEF Core, LastUsedListed
  <2>11. QueueSound'
    <3>1. cur \in In(l)' /\ (misuse'[l] = "none" => bb'[cur].block < bb'[n].block)
      BY <1>1, <1>4, <2>3, <2>4, <2>5
    <3> QED BY <1>1, <1>2, <1>3, <1>4, <2>1, <2>7, <2>8, <3>1 DEF QueueSound
  <2> QED BY <2>3, <2>9, <2>10, <2>11, SortedGoodNext DEF Core
<1>6. CASE UNCHANGED <<bb, next, owner>>
  <2>1. \A k \in Lists : In(k)' = In(k)
    BY <1>6 DEF In
  <2>2. \A k \in Lists : Good(k)'
    BY <1>1, <1>6, <2>1, GoodKept DEF Core
  <2>3. QueueSound'
    <3>1. \A m \in Nodes : owner'[m] # Fresh
      BY <1>4, <1>6
    <3>2. misuse'[l] # "none" => \A m \in In(l)' \ {n} : bb'[m].src # bb'[n].src
      BY <1>1, <1>2, <1>3, <1>6, <2>1 DEF Core, QueueSound
    <3>3. owner'[n] = l
      BY <1>6, InFacts
    <3> QED BY <1>1, <1>2, <1>3, <1>4, <1>6, <2>1, <3>1, <3>2, <3>3 DEF QueueSound
  <2>4. TypeOK' /\ LastUsedListed'
    BY <1>1, <1>6, <2>1 DEF Core, TypeOK, LastUsedListed
  <2> QED BY <2>2, <2>3, <2>4 DEF Core
<1> QED BY <1>5, <1>6 DEF MergeNext

LEMMA MergePrevCore ==
  ASSUME Size < Wrap, Core, MergePrev
  PROVE  Core'
<1>1. /\ pc = "merge_prev" /\ pc' = "idle" /\ data_blocks' = data_blocks /\ misuse' = misuse
      /\ list' = nullptr /\ cur' = nullptr /\ new_bb' = nullptr
  BY DEF MergePrev
<1>2. /\ list \in Lists /\ cur \in In(list) /\ new_bb \in In(list) /\ next[cur] = new_bb
      /\ last_used[list] = new_bb /\ cur \in Nodes /\ new_bb \in Nodes
      /\ \A m \in Nodes : owner[m] # Fresh
  BY <1>1, MergeState
<1>3. ASSUME CanMerge(cur, new_bb), Merge(cur, new_bb), last_used' = [last_used EXCEPT ![list] = cur]
      PROVE  Core'
  <2>1. PICK l \in Lists : l = list
    BY <1>2
  <2>2. PICK a \in In(l) : a = cur
    BY <1>2, <2>1
  <2>3. PICK b \in In(l) : b = new_bb
    BY <1>2, <2>1
  <2>4. misuse[l] = "none"
    BY <1>1, <1>3, <2>1, MergeState
  <2>5. /\ In(l)' = In(l) \ {b} /\ a # b
        /\ \A k \in Lists \ {l} : In(k)' = In(k) /\ b \notin In(k)
        /\ \A m \in Nodes \ {a, b} : bb'[m] = bb[m]
        /\ bb'[a] \in BackedBlock /\ bb'[b] = Poison
        /\ Sorted(l)' /\ Disjoint(l)' /\ \A k \in Lists \ {l} : Good(k)'
    BY <1>1, <1>2, <1>3, <2>1, <2>2, <2>3, <2>4, MergeLists
  <2>6. a \in Nodes /\ b \in Nodes
    BY <1>2, <2>2, <2>3
  <2>7. owner' = [owner EXCEPT ![b] = Free] /\ owner' \in [Nodes -> Owners]
    BY <1>3, <2>3 DEF Merge, Core, TypeOK, Owners
  <2>8. next' \in [Nodes -> Nodes \union {nullptr}]
    BY <1>2, <1>3 DEF Merge, Core, TypeOK
  <2>9. bb' \in [Nodes -> BackedBlock \union {Poison}]
    <3>1. bb' = [m \in Nodes |-> bb'[m]]
      BY <1>3 DEF Merge, Core, TypeOK
    <3>2. \A m \in Nodes : bb'[m] \in BackedBlock \union {Poison}
      BY <2>5 DEF Core, TypeOK
    <3> QED BY <3>1, <3>2
  <2>10. \A m \in Nodes : owner'[m] # Free => bb'[m] \in BackedBlock
    BY <2>5, <2>6, <2>7 DEF Core, TypeOK
  <2>11. TypeOK'
    BY <1>1, <1>2, <1>3, <2>7, <2>8, <2>9, <2>10 DEF Core, TypeOK
  <2>12. LastUsedListed'
    <3> SUFFICES ASSUME NEW k \in Lists PROVE last_used'[k] \in In(k)' \union {nullptr}
      BY <1>1 DEF LastUsedListed
    <3>1. CASE k = l
      BY <1>3, <2>1, <2>2, <2>5, <3>1 DEF Core, TypeOK
    <3>2. CASE k # l
      BY <1>1, <1>3, <2>1, <2>5, <3>2 DEF Core, TypeOK, LastUsedListed
    <3> QED BY <3>1, <3>2
  <2>13. QueueSound'
    BY <1>1, <1>2, <2>6, <2>7, ListAssumption DEF QueueSound, Core, TypeOK
  <2> QED BY <2>5, <2>11, <2>12, <2>13, SortedGoodNext DEF Core
<1>4. CASE UNCHANGED <<bb, next, owner, last_used>>
  <2>1. \A k \in Lists : In(k)' = In(k)
    BY <1>4 DEF In
  <2>2. \A k \in Lists : Good(k)'
    BY <1>1, <1>4, <2>1, GoodKept DEF Core
  <2>3. TypeOK' /\ LastUsedListed' /\ QueueSound'
    BY <1>1, <1>2, <1>4, <2>1 DEF Core, TypeOK, LastUsedListed, QueueSound, In
  <2> QED BY <2>2, <2>3 DEF Core
<1> QED BY <1>3, <1>4 DEF MergePrev
-----------------------------------------------------------------------------
(***************************************************************************)
(* backed_block_split(), list_move() and list_destroy().                   *)
(***************************************************************************)
\* The two parts of a cell that is split.
LEMMA SplitCells ==
  ASSUME Core, NEW l \in Lists, NEW n \in Nodes, NEW m \in Nodes, NEW max \in MaxLens,
         Split(l, n, m, max)
  PROVE  /\ n \in In(l) /\ m \notin In(l) /\ n # m /\ pc = "idle"
         /\ In(l)' = In(l) \union {m}
         /\ \A k \in Lists \ {l} : In(k)' = In(k) /\ n \notin In(k) /\ m \notin In(k)
         /\ \A c \in Nodes \ {n, m} : bb'[c] = bb[c]
         /\ bb'[n] \in BackedBlock /\ bb'[m] \in BackedBlock
         /\ bb'[n].len > 0 /\ bb'[m].len > 0
         /\ bb'[n].block = bb[n].block /\ bb[n].block < bb'[m].block
         /\ Start(n)' = Start(n) /\ End(n)' = Start(m)' /\ End(m)' = End(n)
<1> DEFINE k == AlignDown(max)
           q == k \div BlockSize
<1>1. /\ pc = "idle" /\ owner[n] = l /\ owner[m] = Free /\ k > 0 /\ bb[n].len > k
      /\ owner' = [owner EXCEPT ![m] = l]
      /\ bb' = [bb EXCEPT ![n].len = k,
                          ![m] = [bb[n] EXCEPT !.len = @ - k, !.block = @ + q,
                                               !.off = IF bb[n].type = "fill" THEN @ ELSE @ + k]]
  BY DEF Split
<1>2. k \in Nat /\ q \in Nat /\ q * BlockSize = k
  BY ListAssumption, Aligned
<1> HIDE DEF q, k
<1>3. n \in In(l) /\ m \notin In(l) /\ n # m
  BY <1>1, ListAssumption DEF In
<1>4. In(l)' = In(l) \union {m} /\ \A j \in Lists \ {l} : In(j)' = In(j) /\ n \notin In(j) /\ m \notin In(j)
  BY <1>1, ListAssumption DEF In, Core, TypeOK
<1>5. /\ bb[n] \in BackedBlock /\ bb[n].block \in Nat /\ bb[n].len \in Nat /\ bb[n].off \in Nat
      /\ Start(n) \in Nat /\ End(n) = Start(n) + bb[n].len
  BY <1>1, CellFacts, ListAssumption DEF Core
<1>6. /\ \A c \in Nodes \ {n, m} : bb'[c] = bb[c]
      /\ bb'[n] = [bb[n] EXCEPT !.len = k]
      /\ bb'[m] = [bb[n] EXCEPT !.len = @ - k, !.block = @ + q,
                                !.off = IF bb[n].type = "fill" THEN @ ELSE @ + k]
  BY <1>1, <1>3 DEF Core, TypeOK
<1>7. /\ bb'[n] \in BackedBlock /\ bb'[n].block = bb[n].block /\ bb'[n].len = k
      /\ bb'[m] \in BackedBlock /\ bb'[m].block = bb[n].block + q /\ bb'[m].len = bb[n].len - k
  <2>1. \A f \in Nat : [bb[n] EXCEPT !.len = bb[n].len - k, !.block = bb[n].block + q, !.off = f] \in BackedBlock
    <3>1. bb[n].len - k \in Nat /\ bb[n].block + q \in Nat
      BY <1>1, <1>2, <1>5
    <3> QED BY <1>5, <3>1, ChangedBlock
  <2>2. bb[n].off + k \in Nat
    BY <1>2, <1>5
  <2>3. bb'[m] \in BackedBlock
    BY <1>5, <1>6, <2>1, <2>2
  <2>4. bb'[m].block = bb[n].block + q /\ bb'[m].len = bb[n].len - k
    BY <1>5, <1>6 DEF BackedBlock
  <2>5. bb'[n] \in BackedBlock /\ bb'[n].block = bb[n].block /\ bb'[n].len = k
    BY <1>2, <1>5, <1>6 DEF BackedBlock
  <2> QED BY <2>3, <2>4, <2>5
<1>8. q > 0
  BY <1>1, <1>2, BlockFacts
<1>9. (bb[n].block + q) * BlockSize = Start(n) + k
  BY <1>2, <1>5, BlockFacts DEF Start
<1>10. Start(n)' = Start(n) /\ End(n)' = Start(n) + k /\ Start(m)' = Start(n) + k /\ End(m)' = End(n)
  BY <1>1, <1>2, <1>5, <1>7, <1>9 DEF Start, End
<1>11. bb'[n].len > 0 /\ bb'[m].len > 0 /\ bb[n].block < bb'[m].block
  BY <1>1, <1>2, <1>5, <1>7, <1>8
<1> QED BY <1>1, <1>3, <1>4, <1>6, <1>7, <1>10, <1>11

LEMMA SplitCore ==
  ASSUME Core, NEW l \in Lists, NEW n \in Nodes, NEW m \in Nodes, NEW max \in MaxLens,
         Split(l, n, m, max)
  PROVE  Core'
<1>1. /\ n \in In(l) /\ m \notin In(l) /\ n # m /\ pc = "idle"
      /\ In(l)' = In(l) \union {m}
      /\ \A k \in Lists \ {l} : In(k)' = In(k) /\ n \notin In(k) /\ m \notin In(k)
      /\ \A c \in Nodes \ {n, m} : bb'[c] = bb[c]
      /\ bb'[n] \in BackedBlock /\ bb'[m] \in BackedBlock
      /\ bb'[n].len > 0 /\ bb'[m].len > 0
      /\ bb'[n].block = bb[n].block /\ bb[n].block < bb'[m].block
      /\ Start(n)' = Start(n) /\ End(n)' = Start(m)' /\ End(m)' = End(n)
  BY SplitCells
<1>2. /\ next' = [next EXCEPT ![m] = next[n], ![n] = m] /\ owner' = [owner EXCEPT ![m] = l]
      /\ UNCHANGED <<data_blocks, last_used, misuse, pc, list, cur, new_bb>>
      /\ misuse[l] # "added_twice"
  BY DEF Split
<1>3. TypeOK'
  <2>1. bb' = [c \in Nodes |-> bb'[c]]
    BY DEF Split, Core, TypeOK
  <2>2. \A c \in Nodes : bb'[c] \in BackedBlock \union {Poison}
    BY <1>1 DEF Core, TypeOK
  <2>3. bb' \in [Nodes -> BackedBlock \union {Poison}]
    BY <2>1, <2>2
  <2>4. \A c \in Nodes : owner'[c] # Free => bb'[c] \in BackedBlock
    BY <1>1, <1>2 DEF Core, TypeOK
  <2> QED BY <1>2, <2>3, <2>4 DEF Core, TypeOK, Owners
<1>4. Disjoint(l) /\ Walkable(l)
  BY <1>2 DEF Core, Good
<1>5. \A c \in In(l) : /\ c \in Nodes /\ bb[c].block \in Nat /\ bb'[c].block = bb[c].block
                       /\ Start(c) \in Nat /\ End(c) = Start(c) + bb[c].len
                       /\ bb[c].len \in Nat /\ bb[c].len > 0 /\ End(c) <= Size /\ c # nullptr
                       /\ owner[c] # Free /\ Start(c)' = Start(c)
  BY <1>1, <1>4, InFacts, CellFacts DEF Core, Disjoint, Start
<1>6. bb'[m].block \in Nat /\ bb'[m].len \in Nat /\ Start(m)' \in Nat /\ End(m)' = Start(m)' + bb'[m].len
  BY <1>1, BlockRecord DEF Start, End
<1>7. owner'[m] # Free /\ \A c \in In(l) : owner'[c] # Free
  BY <1>1, <1>2, <1>5, ListAssumption DEF Core, TypeOK
\* a cell behind n is behind m too
<1>8. ASSUME NEW c \in In(l), bb[n].block < bb[c].block PROVE bb'[m].block < bb[c].block
  <2>1. End(n) <= Start(c)
    BY <1>1, <1>4, <1>8 DEF Disjoint
  <2>2. Start(m)' < Start(c)'
    BY <1>1, <1>5, <1>6, <2>1
  <2>3. bb'[m].block < bb'[c].block
    BY <1>3, <1>5, <1>7, <2>2, CellOrderNext
  <2> QED BY <1>5, <2>3
<1>9. next'[n] = m /\ next'[m] = next[n] /\ \A c \in In(l) \ {n} : next'[c] = next[c]
  BY <1>1, <1>2, <1>5 DEF Core, TypeOK
<1>10. Walkable(l)'
  BY <1>1, <1>2, <1>4, <1>9, InsertWalkable
<1>11. ASSUME misuse[l] = "none" PROVE Sorted(l)'
  <2>1. Sorted(l)
    BY <1>11, Regular
  <2>2. next[n] # nullptr => next[n] \in In(l) /\ bb[n].block < bb[next[n]].block
    BY <1>1, <2>1 DEF Sorted
  <2>3. next[n] # nullptr => bb'[m].block < bb[next[n]].block
    BY <1>8, <2>2
  <2> QED BY <1>1, <1>2, <1>5, <1>6, <1>9, <2>1, <2>3, InsertSorted DEF Core
<1>12. Disjoint(l)'
  <2>1. \A c \in In(l) \ {n} : Start(c)' = Start(c) /\ End(c)' = End(c) /\ bb'[c].len = bb[c].len
    BY <1>1, <1>5 DEF Start, End
  <2>2. \A c \in In(l)' : bb'[c].len > 0 /\ End(c)' <= Size
    <3>1. End(m)' <= Size
      BY <1>1, <1>5
    <3>2. End(n)' <= Size
      BY <1>1, <1>5, <1>6, <3>1, BlockFacts
    <3> QED BY <1>1, <1>5, <2>1, <3>1, <3>2
  <2>3. ASSUME NEW p \in In(l)', NEW o \in In(l)', bb'[p].block < bb'[o].block
        PROVE  End(p)' <= Start(o)'
    <3>1. Start(p)' < Start(o)'
      <4>1. owner'[p] # Free /\ owner'[o] # Free /\ p \in Nodes /\ o \in Nodes
        BY ListAssumption DEF In
      <4> QED BY <1>3, <2>3, <4>1, CellOrderNext
    <3>2. CASE p = m
      <4>1. CASE o = n
        BY <1>1, <2>3, <3>2, <4>1, <1>5, <1>6
      <4>2. CASE o # n
        <5>1. o \in In(l) /\ bb[n].block < bb[o].block
          BY <1>1, <1>5, <1>6, <2>3, <3>2, <4>2
        <5>2. End(n) <= Start(o)
          BY <1>1, <5>1, <1>4 DEF Disjoint
        <5> QED BY <1>1, <2>1, <3>2, <4>2, <5>1, <5>2
      <4> QED BY <4>1, <4>2
    <3>3. CASE p = n
      <4>1. CASE o = m
        BY <1>1, <3>3, <4>1, <1>6
      <4>2. CASE o # m
        <5>1. o \in In(l) /\ o # n /\ bb[n].block < bb[o].block
          BY <1>1, <1>5, <2>3, <3>3, <4>2
        <5>2. End(n) <= Start(o)
          BY <1>1, <5>1, <1>4 DEF Disjoint
        <5> QED BY <1>1, <1>5, <1>6, <2>1, <3>3, <5>1, <5>2
      <4> QED BY <4>1, <4>2
    <3>4. CASE p # m /\ p # n
      <4>1. p \in In(l) /\ End(p)' = End(p) /\ bb'[p].block = bb[p].block
        BY <1>1, <1>5, <2>1, <3>4
      <4>2. CASE o = m
        \* p is before m, and not between n and m
        <5>1. bb[p].block < bb[n].block
          <6> SUFFICES ASSUME bb[n].block < bb[p].block PROVE FALSE
            BY <1>1, <1>5, <3>4, <4>1, <1>4 DEF Disjoint
          <6>1. End(n) <= Start(p)
            BY <1>1, <4>1, <1>4 DEF Disjoint
          <6> QED BY <1>1, <1>5, <1>6, <3>1, <4>1, <4>2, <6>1, <2>1
        <5>2. End(p) <= Start(n)
          BY <1>1, <4>1, <5>1, <1>4 DEF Disjoint
        <5>3. Start(n) <= Start(m)'
          <6>1. End(n)' = Start(n)' + bb'[n].len /\ bb'[n].len \in Nat
            BY <1>1, BlockRecord DEF Start, End
          <6> QED BY <1>1, <1>5, <6>1
        <5> QED BY <1>1, <1>5, <1>6, <4>1, <4>2, <5>2, <5>3
      <4>3. CASE o # m
        <5>1. o \in In(l) /\ bb[p].block < bb[o].block
          BY <1>1, <1>5, <2>3, <4>1, <4>3
        <5>2. End(p) <= Start(o)
          BY <4>1, <5>1, <1>4 DEF Disjoint
        <5> QED BY <1>5, <4>1, <5>1, <5>2
      <4> QED BY <4>2, <4>3
    <3> QED BY <3>2, <3>3, <3>4
  <2>4. ASSUME NEW c \in In(l) PROVE bb'[c].block # bb'[m].block
    <3>1. CASE c = n \/ bb[c].block < bb[n].block
      BY <1>1, <1>5, <1>6, <3>1
    <3>2. CASE c # n /\ ~(bb[c].block < bb[n].block)
      BY <1>1, <1>4, <1>5, <1>6, <1>8, <3>2 DEF Disjoint
    <3> QED BY <3>1, <3>2
  <2>5. \A p, o \in In(l)' : p # o => bb'[p].block # bb'[o].block
    BY <1>1, <1>4, <1>5, <2>4 DEF Disjoint
  <2> QED BY <2>2, <2>3, <2>5 DEF Disjoint
<1>13. ASSUME NEW k \in Lists \ {l} PROVE Good(k)'
  <2>1. \A c \in In(k) : bb'[c] = bb[c] /\ next'[c] = next[c]
    BY <1>1, <1>2, InFacts DEF Core, TypeOK
  <2> QED BY <1>1, <1>2, <2>1, GoodKept DEF Core
<1>14. LastUsedListed'
  BY <1>1, <1>2 DEF Core, LastUsedListed
<1>15. QueueSound'
  BY <1>1, <1>2, ListAssumption DEF Core, QueueSound, TypeOK
<1>16. Good(l)'
  BY <1>2, <1>10, <1>11, <1>12 DEF Good
<1> QED BY <1>3, <1>13, <1>14, <1>15, <1>16 DEF Core

LEMMA ListDestroyCore ==
  ASSUME Core, NEW l \in Lists, ListDestroy(l)
  PROVE  Core'
<1>1. /\ pc = "idle" /\ pc' = "idle" /\ \A m \in Nodes : owner[m] # Fresh
      /\ data_blocks' = [data_blocks EXCEPT ![l] = nullptr]
      /\ last_used' = [last_used EXCEPT ![l] = nullptr]
      /\ misuse' = [misuse EXCEPT ![l] = "none"]
      /\ \A m \in Nodes : /\ owner'[m] = IF owner[m] = l THEN Free ELSE owner[m]
                          /\ owner[m] # l => bb'[m] = bb[m] /\ next'[m] = next[m]
  BY DEF ListDestroy, Core, QueueSound
<1>2. In(l)' = {} /\ \A k \in Lists \ {l} : In(k)' = In(k)
  BY <1>1, ListAssumption DEF In
<1>3. TypeOK'
  BY ListAssumption DEF ListDestroy, Core, TypeOK, Owners
<1>4. Sorted(l)' /\ Disjoint(l)'
  BY <1>1, <1>2 DEF Sorted, Disjoint, Core, TypeOK
<1>5. ASSUME NEW k \in Lists \ {l} PROVE Good(k)'
  <2>1. \A m \in In(k) : bb'[m] = bb[m] /\ next'[m] = next[m]
    BY <1>1, InFacts
  <2>2. data_blocks'[k] = data_blocks[k] /\ misuse'[k] = misuse[k]
    BY <1>1 DEF Core, TypeOK
  <2> QED BY <1>2, <2>1, <2>2, GoodKept DEF Core
<1>6. LastUsedListed'
  BY <1>1, <1>2 DEF Core, LastUsedListed, TypeOK
<1>7. QueueSound'
  BY <1>1, ListAssumption DEF QueueSound
<1> QED BY <1>3, <1>4, <1>5, <1>6, <1>7, SortedGoodNext DEF Core


\* A cell of a list, other than its head, is the next of the last one before it.
LEMMA Predecessor ==
  ASSUME NEW l \in Lists, NEW k \in Nat, NEW r \in [Nodes -> 0 .. k], Ranked(l, r),
         NEW m \in In(l), m # data_blocks[l]
  PROVE  \E c \in In(l) : next[c] = m /\ r[c] < r[m]
<1>1. \A c \in In(l) : r[c] \in 0 .. k
  BY InFacts
<1> DEFINE U == {i \in Nat : \E c \in In(l) : i = r[c] /\ i < r[m]}
<1>2. data_blocks[l] \in In(l) /\ r[data_blocks[l]] < r[m]
  BY <1>1 DEF Ranked
<1>3. U \in SUBSET Nat /\ U # {} /\ \A i \in U : i <= k
  BY <1>1, <1>2
<1>4. PICK i \in U : \A j \in U : j <= i
  BY <1>3, GreatestNumber
<1>5. PICK c \in In(l) : i = r[c] /\ i < r[m]
  BY <1>4
<1>6. next[c] \in In(l) /\ r[c] < r[next[c]] /\ r[next[c]] <= r[m]
  BY <1>5 DEF Ranked
<1>7. ~(r[next[c]] < r[m])
  <2> SUFFICES ASSUME r[next[c]] < r[m] PROVE FALSE
    OBVIOUS
  <2>1. r[next[c]] \in U
    BY <1>1, <1>6
  <2>2. r[next[c]] <= i
    BY <1>4, <2>1
  <2> QED BY <1>1, <1>5, <1>6, <2>2
<1>8. r[next[c]] = r[m]
  BY <1>1, <1>6, <1>7
<1>9. next[c] = m
  BY <1>6, <1>8 DEF Ranked
<1> QED BY <1>5, <1>9

\* A walk visits the cells whose ranks go up to that of its end.
LEMMA UpToRanked ==
  ASSUME TypeOK, NEW l \in Lists, NEW k \in Nat, NEW r \in [Nodes -> 0 .. k], Ranked(l, r),
         NEW end \in In(l) \union {nullptr}
  PROVE  UpTo(l, end) = {n \in In(l) : end # nullptr => r[n] <= r[end]}
<1> DEFINE W == {n \in In(l) : end # nullptr => r[n] <= r[end]}
<1>1. \A c \in In(l) : r[c] \in 0 .. k /\ c \in Nodes /\ c # nullptr
  BY InFacts
<1>2. W \in SUBSET Nodes /\ Closed(l, end, W)
  <2>1. data_blocks[l] \in W \union {nullptr}
    BY <1>1 DEF Ranked
  <2>2. ASSUME NEW n \in W \ {end} PROVE next[n] \in W \union {nullptr}
    <3>1. CASE end = nullptr
      BY <3>1 DEF Ranked
    <3>2. CASE end # nullptr
      <4>1. end \in In(l) /\ r[n] <= r[end] /\ r[n] # r[end]
        BY <3>2 DEF Ranked
      <4>2. r[n] < r[end]
        BY <1>1, <4>1
      <4> QED BY <4>1, <4>2 DEF Ranked
    <3> QED BY <3>1, <3>2
  <2> QED BY <1>1, <2>1, <2>2 DEF Closed
<1>3. ASSUME NEW n \in W, NEW S \in SUBSET Nodes, Closed(l, end, S), n \notin S PROVE FALSE
  <2> DEFINE T == {i \in Nat : \E c \in W \ S : i = r[c]}
  <2>1. T \in SUBSET Nat /\ T # {}
    <3>1. r[n] \in T
      BY <1>1, <1>3
    <3> QED BY <3>1
  <2>2. PICK i \in T : \A j \in T : i <= j
    BY <2>1, LeastNumber
  <2>3. PICK m \in W \ S : i = r[m]
    BY <2>2
  <2>4. \A c \in W : r[c] < r[m] => c \in S
    <3> SUFFICES ASSUME NEW c \in W, r[c] < r[m], c \notin S PROVE FALSE
      OBVIOUS
    <3>1. r[c] \in T
      BY <1>1
    <3> QED BY <1>1, <2>2, <2>3, <3>1
  <2>5. CASE m = data_blocks[l]
    BY <1>1, <1>3, <2>3, <2>5 DEF Closed
  <2>6. CASE m # data_blocks[l]
    <3>1. PICK c \in In(l) : next[c] = m /\ r[c] < r[m]
      BY <2>3, <2>6, Predecessor
    <3>2. c \in W /\ c # end
      BY <1>1, <2>3, <3>1
    <3>3. c \in S
      BY <2>4, <3>1, <3>2
    <3> QED BY <1>1, <1>3, <2>3, <3>1, <3>2, <3>3 DEF Closed
  <2> QED BY <2>5, <2>6
<1>4. UpTo(l, end) \subseteq W
  BY <1>2 DEF UpTo
<1>5. W \subseteq UpTo(l, end)
  BY <1>1, <1>3 DEF UpTo
<1> QED BY <1>4, <1>5

\* A list that is not empty has a last cell.
LEMMA LastCell ==
  ASSUME NEW l \in Lists, NEW k \in Nat, NEW r \in [Nodes -> 0 .. k], Ranked(l, r), In(l) # {}
  PROVE  \E b \in In(l) : next[b] = nullptr
<1>1. \A c \in In(l) : r[c] \in 0 .. k /\ c # nullptr
  BY InFacts
<1> DEFINE T == {i \in Nat : \E c \in In(l) : i = r[c]}
<1>2. T \in SUBSET Nat /\ T # {} /\ \A i \in T : i <= k
  BY <1>1
<1>3. PICK top \in T : \A i \in T : i <= top
  BY <1>2, GreatestNumber
<1>4. PICK b \in In(l) : top = r[b]
  BY <1>3
<1>5. \A c \in In(l) : r[c] <= r[b]
  BY <1>1, <1>3, <1>4
<1>6. ASSUME next[b] # nullptr PROVE FALSE
  <2>1. next[b] \in In(l) /\ r[b] < r[next[b]]
    BY <1>6 DEF Ranked
  <2> QED BY <1>1, <1>5, <2>1
<1> QED BY <1>6

\* list_move() finds a cell to link behind.
LEMMA LastBeforeFound ==
  ASSUME Core, NEW to \in Lists, In(to) # {}, NEW block \in Nat
  PROVE  LastBefore(to, block) \in Behind(to, block)
<1>1. PICK k \in Nat : \E r \in [Nodes -> 0 .. k] : Ranked(to, r)
  BY DEF Core, Good, Walkable
<1>2. PICK r \in [Nodes -> 0 .. k] : Ranked(to, r)
  BY <1>1
<1>3. \A c \in In(to) : r[c] \in 0 .. k
  BY InFacts
<1>4. PICK last \in In(to) : next[last] = nullptr
  BY <1>2, LastCell
<1>5. last \in Behind(to, block) /\ Behind(to, block) \subseteq In(to)
  BY <1>4 DEF Behind
<1> DEFINE T == {i \in Nat : \E c \in Behind(to, block) : i = r[c]}
<1>6. T \in SUBSET Nat /\ T # {}
  <2>1. r[last] \in T
    BY <1>3, <1>5
  <2> QED BY <2>1
<1>7. PICK i \in T : \A j \in T : i <= j
  BY <1>6, LeastNumber
<1>8. PICK b \in Behind(to, block) : i = r[b]
  BY <1>7
<1>9. ASSUME NEW c \in Behind(to, block) PROVE b \in UpTo(to, c)
  <2>1. c \in In(to) /\ b \in In(to)
    BY <1>5
  <2>2. r[c] \in T
    BY <1>3, <2>1
  <2>3. r[b] <= r[c]
    BY <1>7, <1>8, <2>2
  <2>4. UpTo(to, c) = {n \in In(to) : c # nullptr => r[n] <= r[c]}
    BY <1>2, <2>1, UpToRanked DEF Core
  <2> QED BY <2>1, <2>3, <2>4
<1> QED BY <1>9 DEF LastBefore

\* The cells that are moved, and those that stay.
LEMMA MovedCells ==
  ASSUME Core, NEW from \in Lists, NEW to \in Lists, NEW end \in Nodes, ListMove(from, to, end)
  PROVE  /\ pc = "idle" /\ from # to /\ end \in In(from) /\ data_blocks[from] \in In(from)
         /\ Disjoint(from) /\ Disjoint(to)
         /\ UpTo(from, end) \subseteq In(from)
         /\ data_blocks[from] \in UpTo(from, end) /\ end \in UpTo(from, end)
         /\ In(from)' = In(from) \ UpTo(from, end)
         /\ In(to)' = In(to) \union UpTo(from, end)
         /\ \A k \in Lists \ {from, to} : In(k)' = In(k)
         /\ \A n \in UpTo(from, end), m \in In(to) : End(m) <= Start(n) \/ End(n) <= Start(m)
<1>1. /\ pc = "idle" /\ from # to /\ owner[end] = from
      /\ "added_twice" \notin {misuse[from], misuse[to]}
      /\ \A n \in UpTo(from, end), m \in In(to) : End(m) <= Start(n) \/ End(n) <= Start(m)
      /\ \A n \in Nodes : owner'[n] = IF n \in UpTo(from, end) THEN to ELSE owner[n]
  BY DEF ListMove
<1>2. end \in In(from) /\ data_blocks[from] \in In(from)
  BY <1>1, Linked DEF In
<1>3. Disjoint(from) /\ Disjoint(to)
  BY <1>1 DEF Core, Good
<1>4. PICK k \in Nat : \E r \in [Nodes -> 0 .. k] : Ranked(from, r)
  BY DEF Core, Good, Walkable
<1>5. PICK r \in [Nodes -> 0 .. k] : Ranked(from, r)
  BY <1>4
<1>6. UpTo(from, end) = {n \in In(from) : end # nullptr => r[n] <= r[end]}
  BY <1>2, <1>5, UpToRanked DEF Core
<1>7. data_blocks[from] \in UpTo(from, end) /\ end \in UpTo(from, end)
  BY <1>2, <1>5, <1>6, InFacts DEF Ranked
<1>8. UpTo(from, end) \subseteq In(from)
  BY <1>6
<1>9. /\ In(from)' = In(from) \ UpTo(from, end)
      /\ In(to)' = In(to) \union UpTo(from, end)
      /\ \A j \in Lists \ {from, to} : In(j)' = In(j)
  BY <1>1, <1>8 DEF In
<1> QED BY <1>1, <1>2, <1>3, <1>7, <1>8, <1>9

\* The list that cells are taken from keeps its ranks.
LEMMA FromRanked ==
  ASSUME NEW l \in Lists, NEW r, Ranked(l, r), \A n \in In(l) : r[n] \in Nat, NEW end \in In(l),
         In(l)' = {n \in In(l) : ~(r[n] <= r[end])},
         data_blocks'[l] = next[end], \A n \in In(l)' : next'[n] = next[n]
  PROVE  Ranked(l, r)'
<1>0. \A n \in In(l) : n # nullptr
  BY InFacts
<1>1. next[end] # nullptr => next[end] \in In(l) /\ r[end] < r[next[end]]
  BY DEF Ranked
<1>2. \A q \in In(l)' : next[end] \in In(l) /\ r[end] < r[next[end]] /\ r[next[end]] <= r[q]
  BY DEF Ranked
<1>3. /\ In(l)' = {} => data_blocks'[l] = nullptr
      /\ In(l)' # {} => data_blocks'[l] \in In(l)'
      /\ \A m \in In(l)' : r[data_blocks'[l]] <= r[m]
  BY <1>0, <1>1, <1>2
<1>4. \A n \in In(l)' : next'[n] # nullptr => next'[n] \in In(l)' /\ r[n] < r[next'[n]]
  <2> SUFFICES ASSUME NEW n \in In(l)', next[n] # nullptr
               PROVE  next[n] \in In(l)' /\ r[n] < r[next[n]]
    OBVIOUS
  <2>1. next[n] \in In(l) /\ r[n] < r[next[n]]
    BY DEF Ranked
  <2> QED BY <2>1
<1>5. \A n, m \in In(l)' : /\ n # m => r[n] # r[m]
                           /\ r[n] < r[m] => /\ next'[n] \in In(l)'
                                             /\ r[n] < r[next'[n]]
                                             /\ r[next'[n]] <= r[m]
  <2> SUFFICES ASSUME NEW n \in In(l)', NEW m \in In(l)'
               PROVE  /\ n # m => r[n] # r[m]
                      /\ r[n] < r[m] => /\ next[n] \in In(l)'
                                        /\ r[n] < r[next[n]]
                                        /\ r[next[n]] <= r[m]
    OBVIOUS
  <2>1. /\ n # m => r[n] # r[m]
        /\ r[n] < r[m] => next[n] \in In(l) /\ r[n] < r[next[n]] /\ r[next[n]] <= r[m]
    BY DEF Ranked
  <2> QED BY <2>1
<1> QED BY <1>3, <1>4, <1>5 DEF Ranked

\* What the ranks of the moved cells say, also once they are moved.
Piece(moved, start, end, r) ==
  /\ start \in moved /\ end \in moved
  /\ \A n \in moved : next'[n] = next[n] \/ n = end
  /\ \A n, m \in moved :
       /\ r[start] <= r[m] /\ r[m] <= r[end]
       /\ n # m => r[n] # r[m]
       /\ n # end => next[n] \in moved /\ r[n] < r[next[n]]
       /\ r[n] < r[m] => r[next[n]] <= r[m]

LEMMA MovedPiece ==
  ASSUME NEW l \in Lists, NEW r, Ranked(l, r), \A n \in In(l) : r[n] \in Nat, NEW end \in In(l),
         NEW moved, moved = {n \in In(l) : r[n] <= r[end]},
         \A n \in moved : next'[n] = next[n] \/ n = end
  PROVE  Piece(moved, data_blocks[l], end, r)
<1>1. data_blocks[l] \in In(l) /\ \A m \in In(l) : r[data_blocks[l]] <= r[m]
  BY DEF Ranked
<1>2. ASSUME NEW n \in moved, n # end PROVE next[n] \in moved /\ r[n] < r[next[n]]
  <2>1. r[n] < r[end]
    BY <1>2 DEF Ranked
  <2> QED BY <2>1 DEF Ranked
<1>3. \A n, m \in moved : /\ n # m => r[n] # r[m]
                          /\ r[n] < r[m] => r[next[n]] <= r[m]
  BY DEF Ranked
<1> QED BY <1>1, <1>2, <1>3 DEF Piece

\* A list that was empty has the ranks of what is moved to it ...
LEMMA ToRankedEmpty ==
  ASSUME NEW l \in Lists, NEW r, NEW moved, NEW start, NEW end, Piece(moved, start, end, r),
         moved \subseteq Nodes, \A n \in moved : r[n] \in Nat,
         In(l)' = moved, data_blocks'[l] = start, next'[end] = nullptr
  PROVE  Ranked(l, r)'
<1>1. \A n \in In(l)' : n # nullptr
  BY ListAssumption
<1>2. ASSUME NEW n \in moved, NEW m \in moved, r[n] < r[m] PROVE n # end
  BY <1>2 DEF Piece
<1>3. \A n \in moved : n # end => next'[n] \in moved /\ r[n] < r[next'[n]]
  BY DEF Piece
<1>4. \A n, m \in moved : r[n] < r[m] => /\ next'[n] \in moved
                                         /\ r[n] < r[next'[n]] /\ r[next'[n]] <= r[m]
  BY <1>2, <1>3 DEF Piece
<1> QED BY <1>1, <1>3, <1>4 DEF Ranked, Piece

\* ... and to any other it fits in behind a cell of which the ranks leave room.
LEMMA ToRanked ==
  ASSUME NEW l \in Lists, NEW r, Ranked(l, r), \A n \in In(l) : r[n] \in Nat, NEW b \in In(l),
         NEW moved, NEW start, NEW end, Piece(moved, start, end, r), moved \subseteq Nodes,
         \A n \in moved : r[n] \in Nat /\ n \notin In(l),
         In(l)' = In(l) \union moved, data_blocks'[l] = data_blocks[l],
         next'[b] = start, next'[end] = next[b], \A n \in In(l) \ {b} : next'[n] = next[n],
         \A c \in In(l), m \in moved : \/ r[c] <= r[b] /\ r[c] < r[m]
                                       \/ r[b] < r[c] /\ r[m] < r[c]
  PROVE  Ranked(l, r)'
<1>1. start \in moved /\ end \in moved
  BY DEF Piece
<1>2. data_blocks[l] \in In(l) /\ \A m \in In(l) : r[data_blocks[l]] <= r[m]
  BY DEF Ranked
<1>3. \A m \in In(l)' : r[data_blocks'[l]] <= r[m]
  BY <1>2
<1>4. \A p, q \in In(l)' : p # q => r[p] # r[q]
  BY DEF Ranked, Piece
<1>5. \A n \in moved : n # end => next'[n] = next[n] /\ next[n] \in moved /\ r[n] < r[next[n]]
  BY DEF Piece
<1>6. next[b] # nullptr => next[b] \in In(l) /\ r[b] < r[next[b]]
  BY DEF Ranked
<1>7. ASSUME NEW p \in In(l)', next'[p] # nullptr PROVE next'[p] \in In(l)' /\ r[p] < r[next'[p]]
  <2>1. CASE p = b
    <3>1. r[b] < r[start]
      BY <1>1
    <3> QED BY <1>1, <2>1, <3>1
  <2>2. CASE p \in In(l) /\ p # b
    BY <1>7, <2>2 DEF Ranked
  <2>3. CASE p = end
    BY <1>1, <1>6, <1>7, <2>3
  <2>4. CASE p \in moved /\ p # end
    BY <1>5, <2>4
  <2> QED BY <2>1, <2>2, <2>3, <2>4
<1>8. ASSUME NEW p \in In(l)', NEW q \in In(l)', r[p] < r[q]
      PROVE  next'[p] \in In(l)' /\ r[p] < r[next'[p]] /\ r[next'[p]] <= r[q]
  <2>1. CASE p = b
    <3>1. CASE q \in moved
      BY <1>1, <2>1, <3>1 DEF Piece
    <3>2. CASE q \in In(l)
      BY <1>1, <1>8, <2>1, <3>2
    <3> QED BY <3>1, <3>2
  <2>2. CASE p \in In(l) /\ p # b
    <3>1. CASE q \in In(l)
      BY <1>8, <2>2, <3>1 DEF Ranked
    <3>2. CASE q \in moved
      <4>1. r[p] < r[b]
        BY <1>8, <2>2, <3>2 DEF Ranked
      <4>2. next[p] \in In(l) /\ r[p] < r[next[p]] /\ r[next[p]] <= r[b]
        BY <2>2, <4>1 DEF Ranked
      <4> QED BY <2>2, <3>2, <4>2
    <3> QED BY <3>1, <3>2
  <2>3. CASE p = end
    <3>1. q \in In(l) /\ r[b] < r[q]
      <4>1. q \notin moved
        BY <1>1, <1>8, <2>3 DEF Piece
      <4> QED BY <1>1, <1>8, <2>3, <4>1
    <3>2. next[b] \in In(l) /\ r[next[b]] <= r[q] /\ r[b] < r[next[b]]
      BY <3>1 DEF Ranked
    <3> QED BY <1>1, <2>3, <3>2
  <2>4. CASE p \in moved /\ p # end
    <3>1. CASE q \in moved
      BY <1>5, <1>8, <2>4, <3>1 DEF Piece
    <3>2. CASE q \in In(l)
      BY <1>5, <1>8, <2>4, <3>2
    <3> QED BY <3>1, <3>2
  <2> QED BY <2>1, <2>2, <2>3, <2>4
<1> QED BY <1>2, <1>3, <1>4, <1>7, <1>8 DEF Ranked

\* The links that a move changes.
LEMMA MovedLinks ==
  ASSUME Core, NEW from \in Lists, NEW to \in Lists, NEW end \in Nodes, ListMove(from, to, end)
  PROVE  /\ bb' = bb /\ UNCHANGED <<pc, list, cur, new_bb>>
         /\ last_used' = [last_used EXCEPT ![from] = nullptr, ![to] = nullptr]
         /\ data_blocks'[from] = next[end]
         /\ \A k \in Lists \ {from, to} : data_blocks'[k] = data_blocks[k]
         /\ In(to) = {} => /\ data_blocks'[to] = data_blocks[from] /\ next'[end] = nullptr
                           /\ \A n \in Nodes \ {end} : next'[n] = next[n]
         /\ In(to) # {} => data_blocks'[to] = data_blocks[to]
         /\ In(to) # {} =>
              \E b \in Behind(to, bb[data_blocks[from]].block) :
                /\ b \in In(to) /\ next'[b] = data_blocks[from] /\ next'[end] = next[b]
                /\ \A n \in Nodes \ {end, b} : next'[n] = next[n]
         /\ next' \in [Nodes -> Nodes \union {nullptr}]
         /\ data_blocks' \in [Lists -> Nodes \union {nullptr}]
<1>1. from # to /\ end \in In(from) /\ data_blocks[from] \in In(from)
  BY MovedCells
<1>2. PICK start \in In(from) : start = data_blocks[from]
  BY <1>1
<1>3. start \in Nodes /\ bb[start].block \in Nat
  BY InFacts, CellFacts DEF Core
<1>4. /\ bb' = bb /\ UNCHANGED <<pc, list, cur, new_bb>>
      /\ last_used' = [last_used EXCEPT ![from] = nullptr, ![to] = nullptr]
  BY DEF ListMove
<1>5. In(to) = {} <=> data_blocks[to] = nullptr
  BY Linked
<1>6. CASE In(to) = {}
  <2>1. /\ data_blocks' = [data_blocks EXCEPT ![from] = next[end], ![to] = start]
        /\ next' = [next EXCEPT ![end] = nullptr]
    BY <1>2, <1>5, <1>6 DEF ListMove
  <2> QED BY <1>1, <1>2, <1>3, <1>4, <1>6, <2>1 DEF Core, TypeOK
<1>7. CASE In(to) # {}
  <2>1. PICK b : b = LastBefore(to, bb[start].block)
    OBVIOUS
  <2>2. b \in Behind(to, bb[start].block)
    BY <1>3, <1>7, <2>1, LastBeforeFound
  <2>3. b \in In(to) /\ b \in Nodes /\ b # end
    BY <1>1, <2>2, InFacts DEF Behind
  <2>4. /\ data_blocks' = [data_blocks EXCEPT ![from] = next[end]]
        /\ next' = [next EXCEPT ![end] = next[b], ![b] = start]
    BY <1>2, <1>5, <1>7, <2>1 DEF ListMove
  <2>5. /\ data_blocks'[from] = next[end] /\ \A k \in Lists \ {from} : data_blocks'[k] = data_blocks[k]
        /\ data_blocks' \in [Lists -> Nodes \union {nullptr}]
    BY <2>4 DEF Core, TypeOK
  <2>6. /\ next'[b] = start /\ next'[end] = next[b]
        /\ \A n \in Nodes \ {end, b} : next'[n] = next[n]
        /\ next' \in [Nodes -> Nodes \union {nullptr}]
    BY <1>3, <2>3, <2>4 DEF Core, TypeOK
  <2> QED BY <1>1, <1>2, <1>4, <1>7, <2>2, <2>3, <2>5, <2>6
<1> QED BY <1>6, <1>7

\* What is left behind.
LEMMA MoveFrom ==
  ASSUME Core, NEW from \in Lists, NEW to \in Lists, NEW end \in Nodes, ListMove(from, to, end),
         NEW k \in Nat, NEW r \in [Nodes -> 0 .. k], Ranked(from, r)
  PROVE  /\ Ranked(from, r)'
         /\ UpTo(from, end) = {n \in In(from) : r[n] <= r[end]}
         /\ Piece(UpTo(from, end), data_blocks[from], end, r)
<1>1. /\ from # to /\ end \in In(from) /\ end # nullptr
      /\ In(from)' = In(from) \ UpTo(from, end)
  BY MovedCells, InFacts
<1>2. \A n \in In(from) : r[n] \in Nat /\ n \in Nodes /\ n \notin In(to)
  BY <1>1, InFacts
<1>3. UpTo(from, end) = {n \in In(from) : r[n] <= r[end]}
  BY <1>1, UpToRanked DEF Core
<1>4. data_blocks'[from] = next[end]
  BY MovedLinks
<1>5. \A n \in In(from) : next'[n] = next[n] \/ n = end
  <2>1. CASE In(to) = {}
    BY <1>2, <2>1, MovedLinks
  <2>2. CASE In(to) # {}
    BY <1>2, <2>2, MovedLinks
  <2> QED BY <2>1, <2>2
<1>6. In(from)' = {n \in In(from) : ~(r[n] <= r[end])} /\ \A n \in In(from)' : n # end
  BY <1>1, <1>2, <1>3
<1>7. Ranked(from, r)'
  BY <1>1, <1>2, <1>4, <1>5, <1>6, FromRanked
<1>8. PICK moved : moved = UpTo(from, end)
  OBVIOUS
<1>9. Piece(moved, data_blocks[from], end, r)
  BY <1>1, <1>2, <1>3, <1>5, <1>8, MovedPiece
<1> QED BY <1>3, <1>7, <1>8, <1>9

\* What is moved to a list where all is before it, or to an empty one, comes
\* behind all it has; the blocks are the ranks of both.
LEMMA MoveToSorted ==
  ASSUME Core, NEW from \in Lists, NEW to \in Lists, NEW end \in Nodes, ListMove(from, to, end),
         misuse[from] = "none", misuse[to] = "none",
         \A m \in In(to) : End(m) <= Start(data_blocks[from])
  PROVE  Sorted(to)'
<1>1. /\ from # to /\ end \in In(from) /\ data_blocks[from] \in In(from)
      /\ UpTo(from, end) \subseteq In(from)
      /\ In(to)' = In(to) \union UpTo(from, end)
  BY MovedCells
<1>2. Sorted(from) /\ Disjoint(from) /\ Sorted(to) /\ Disjoint(to)
  BY Regular
<1>3. \A l \in Lists : \A n \in In(l) : /\ n \in Nodes /\ owner[n] = l /\ owner[n] # Free
                                        /\ bb[n].block \in Nat /\ n # nullptr
                                        /\ Start(n) \in Nat /\ bb[n].len \in Nat
                                        /\ End(n) = Start(n) + bb[n].len
  BY InFacts, CellFacts DEF Core
<1>4. PICK r : r = [n \in Nodes |-> IF n \in In(from) \union In(to) THEN bb[n].block ELSE 0]
  OBVIOUS
<1>5. \A n \in In(from) \union In(to) : r[n] = bb[n].block /\ r[n] \in Nat /\ n \in Nodes
  BY <1>3, <1>4
<1>6. r \in [Nodes -> 0 .. Size]
  <2>1. \A n \in In(from) \union In(to) : bb[n].block \in 0 .. Size
    BY <1>2, BlockBound DEF Core
  <2> QED BY <1>4, <2>1, BlockFacts
<1>7. Ranked(from, r) /\ Ranked(to, r)
  BY <1>2, <1>5, RankedSorted
<1>8. Piece(UpTo(from, end), data_blocks[from], end, r)
  BY <1>6, <1>7, BlockFacts, MoveFrom
<1>9. PICK moved : moved = UpTo(from, end)
  OBVIOUS
<1>10. PICK start : start = data_blocks[from]
  OBVIOUS
<1>11. \A m \in moved : r[start] <= r[m] /\ m \in In(from) /\ m \notin In(to)
  BY <1>1, <1>2, <1>3, <1>5, <1>9, <1>10 DEF Sorted
<1>12. \A c \in In(to) : r[c] < r[start]
  <2> SUFFICES ASSUME NEW c \in In(to) PROVE bb[c].block < bb[start].block
    BY <1>1, <1>5, <1>10
  <2>1. End(c) <= Start(start) /\ bb[c].len > 0
    BY <1>2, <1>10 DEF Disjoint
  <2>2. Start(c) < Start(start)
    BY <1>1, <1>3, <1>10, <2>1
  <2> QED BY <1>1, <1>3, <1>10, <2>2, CellOrder DEF Core
<1>13. Ranked(to, r)'
  <2>1. CASE In(to) = {}
    <3>1. data_blocks'[to] = start /\ next'[end] = nullptr
      BY <1>10, <2>1, MovedLinks
    <3>2. In(to)' = moved
      BY <1>1, <1>9, <2>1
    <3>3. \A n \in moved : r[n] \in Nat /\ n \in Nodes
      BY <1>5, <1>11
    <3> QED BY <1>8, <1>9, <1>10, <3>1, <3>2, <3>3, ToRankedEmpty
  <2>2. CASE In(to) # {}
    <3>1. data_blocks'[to] = data_blocks[to]
      BY <2>2, MovedLinks
    <3>2. PICK b \in Behind(to, bb[start].block) :
                /\ b \in In(to) /\ next'[b] = start /\ next'[end] = next[b]
                /\ \A n \in Nodes \ {end, b} : next'[n] = next[n]
      BY <1>10, <2>2, MovedLinks
    <3>3. next[b] = nullptr
      <4> SUFFICES ASSUME next[b] # nullptr PROVE FALSE
        OBVIOUS
      <4>1. next[b] \in In(to) /\ bb[next[b]].block > bb[start].block
        BY <1>2, <3>2 DEF Behind, Sorted
      <4> QED BY <1>1, <1>3, <1>5, <1>10, <1>12, <4>1
    <3>4. \A c \in In(to) : r[c] <= r[b]
      BY <1>3, <1>5, <1>7, <3>2, <3>3 DEF Ranked
    <3>5. \A c \in In(to), m \in moved : r[c] <= r[b] /\ r[c] < r[m]
      BY <1>1, <1>5, <1>10, <1>11, <1>12, <3>4
    <3>6. \A n \in In(to) \ {b} : next'[n] = next[n]
      BY <1>1, <1>3, <3>2
    <3>7. \A n \in moved : r[n] \in Nat /\ n \notin In(to) /\ n \in Nodes
      BY <1>5, <1>11
    <3>8. In(to)' = In(to) \union moved
      BY <1>1, <1>9
    <3>9. Piece(moved, start, end, r)
      BY <1>8, <1>9, <1>10
    <3>10. \A n \in In(to) : r[n] \in Nat
      BY <1>5
    <3> QED BY <1>7, <3>1, <3>2, <3>5, <3>6, <3>7, <3>8, <3>9, <3>10, ToRanked
  <2> QED BY <2>1, <2>2
<1>14. \A n \in In(to)' : r[n] = bb'[n].block
  BY <1>1, <1>5, MovedLinks
<1> QED BY <1>13, <1>14, SortedRankedNext

\* Wherever the cells go in a list, it can be walked.
LEMMA MoveToWalkable ==
  ASSUME Core, NEW from \in Lists, NEW to \in Lists, NEW end \in Nodes, ListMove(from, to, end)
  PROVE  Walkable(to)'
<1>1. /\ from # to /\ end \in In(from) /\ end \in UpTo(from, end)
      /\ UpTo(from, end) \subseteq In(from)
      /\ In(to)' = In(to) \union UpTo(from, end)
  BY MovedCells
<1>2. \A l \in Lists : \A n \in In(l) : n \in Nodes /\ owner[n] = l
  BY InFacts
<1>3. PICK k \in Nat : \E r \in [Nodes -> 0 .. k] : Ranked(from, r)
  BY DEF Core, Good, Walkable
<1>4. PICK r \in [Nodes -> 0 .. k] : Ranked(from, r)
  BY <1>3
<1>5. PICK j \in Nat : \E q \in [Nodes -> 0 .. j] : Ranked(to, q)
  BY DEF Core, Good, Walkable
<1>6. PICK q \in [Nodes -> 0 .. j] : Ranked(to, q)
  BY <1>5
<1>7. PICK moved : moved = UpTo(from, end)
  OBVIOUS
<1>8. PICK start : start = data_blocks[from]
  OBVIOUS
<1>9. moved = {n \in In(from) : r[n] <= r[end]} /\ Piece(moved, start, end, r)
  BY <1>4, <1>7, <1>8, MoveFrom
<1>10. \A n \in moved : r[n] \in Nat /\ r[n] <= r[end] /\ n \in Nodes /\ n \notin In(to)
  BY <1>1, <1>2, <1>7, <1>9
<1>11. CASE In(to) = {}
  <2>1. data_blocks'[to] = start /\ next'[end] = nullptr
    BY <1>8, <1>11, MovedLinks
  <2>2. In(to)' = moved
    BY <1>1, <1>7, <1>11
  <2>3. Ranked(to, r)'
    BY <1>9, <1>10, <2>1, <2>2, ToRankedEmpty
  <2> QED BY <2>3 DEF Walkable
<1>12. CASE In(to) # {}
  <2>1. data_blocks'[to] = data_blocks[to]
    BY <1>12, MovedLinks
  <2>2. PICK b \in In(to) : /\ next'[b] = start /\ next'[end] = next[b]
                            /\ \A n \in Nodes \ {end, b} : next'[n] = next[n]
    BY <1>8, <1>12, MovedLinks
  <2>3. PICK s : s = [n \in Nodes |-> IF n \in moved THEN q[b] + 1 + r[n]
                                      ELSE IF q[n] <= q[b] THEN q[n] ELSE q[n] + r[end] + 1]
    OBVIOUS
  <2>4. \A n \in In(to) : q[n] \in 0 .. j /\ n \in Nodes /\ n \notin moved
    BY <1>2, <1>10
  <2>5. r[end] \in 0 .. k /\ q[b] \in 0 .. j /\ b \in Nodes
    BY <1>1, <1>2, <2>4
  <2>6. s \in [Nodes -> 0 .. j + k + 1] /\ j + k + 1 \in Nat
    <3> SUFFICES ASSUME NEW n \in Nodes
                 PROVE  (IF n \in moved THEN q[b] + 1 + r[n]
                         ELSE IF q[n] <= q[b] THEN q[n] ELSE q[n] + r[end] + 1) \in 0 .. j + k + 1
      BY <2>3
    <3>1. r[n] \in 0 .. k /\ q[n] \in 0 .. j
      OBVIOUS
    <3> QED BY <2>5, <3>1
  <2>7. \A n \in moved : s[n] = q[b] + 1 + r[n] /\ s[n] \in Nat
    <3> SUFFICES ASSUME NEW n \in moved PROVE s[n] = q[b] + 1 + r[n] /\ s[n] \in Nat
      OBVIOUS
    <3>1. n \in Nodes /\ r[n] \in Nat
      BY <1>10
    <3>2. s[n] = q[b] + 1 + r[n]
      BY <2>3, <3>1
    <3> QED BY <2>5, <3>1, <3>2
  <2>8. \A n \in In(to) : s[n] = (IF q[n] <= q[b] THEN q[n] ELSE q[n] + r[end] + 1) /\ s[n] \in Nat
    <3> SUFFICES ASSUME NEW n \in In(to)
                 PROVE  /\ s[n] = (IF q[n] <= q[b] THEN q[n] ELSE q[n] + r[end] + 1)
                        /\ s[n] \in Nat
      OBVIOUS
    <3>1. n \in Nodes /\ n \notin moved
      BY <2>4
    <3>2. s[n] = (IF q[n] <= q[b] THEN q[n] ELSE q[n] + r[end] + 1)
      BY <2>3, <3>1
    <3>3. s[n] \in Nat
      BY <2>6, <3>1
    <3> QED BY <3>2, <3>3
  <2>9. Ranked(to, s)
    <3>1. \A m, n \in In(to) : /\ q[m] <= q[n] <=> s[m] <= s[n]
                               /\ q[m] < q[n] <=> s[m] < s[n]
                               /\ q[m] = q[n] <=> s[m] = s[n]
      BY <2>4, <2>5, <2>8
    <3>2. data_blocks[to] \in In(to)
      BY <1>6, <1>12 DEF Ranked
    <3> QED BY <1>6, <3>1, <3>2 DEF Ranked
  <2>10. Piece(moved, start, end, s)
    <3>1. \A m, n \in moved : /\ r[m] <= r[n] <=> s[m] <= s[n]
                              /\ r[m] < r[n] <=> s[m] < s[n]
                              /\ r[m] = r[n] <=> s[m] = s[n]
      BY <1>10, <2>5, <2>7
    <3>2. start \in moved /\ end \in moved
      BY <1>9 DEF Piece
    <3>3. \A n, m \in moved : r[n] < r[m] => n # end
      BY <1>9, <1>10 DEF Piece
    <3> QED BY <1>9, <3>1, <3>2, <3>3 DEF Piece
  <2>11. \A c \in In(to), m \in moved : \/ s[c] <= s[b] /\ s[c] < s[m]
                                        \/ s[b] < s[c] /\ s[m] < s[c]
    BY <1>10, <2>4, <2>5, <2>7, <2>8
  <2>12. \A n \in In(to) \ {b} : next'[n] = next[n]
    BY <1>1, <1>2, <2>2
  <2>13. In(to)' = In(to) \union moved
    BY <1>1, <1>7
  <2>14. Ranked(to, s)'
    BY <1>10, <2>1, <2>2, <2>7, <2>8, <2>9, <2>10, <2>11, <2>12, <2>13, ToRanked
  <2> QED BY <2>6, <2>14 DEF Walkable
<1> QED BY <1>11, <1>12

LEMMA ListMoveCore ==
  ASSUME Core, NEW from \in Lists, NEW to \in Lists, NEW end \in Nodes, ListMove(from, to, end)
  PROVE  Core'
<1>1. /\ pc = "idle" /\ from # to /\ end \in In(from) /\ data_blocks[from] \in In(from)
      /\ Disjoint(from) /\ Disjoint(to)
      /\ UpTo(from, end) \subseteq In(from)
      /\ In(from)' = In(from) \ UpTo(from, end)
      /\ In(to)' = In(to) \union UpTo(from, end)
      /\ \A k \in Lists \ {from, to} : In(k)' = In(k)
      /\ \A n \in UpTo(from, end), m \in In(to) : End(m) <= Start(n) \/ End(n) <= Start(m)
  BY MovedCells
<1>2. /\ bb' = bb /\ UNCHANGED <<pc, list, cur, new_bb>>
      /\ last_used' = [last_used EXCEPT ![from] = nullptr, ![to] = nullptr]
      /\ next' \in [Nodes -> Nodes \union {nullptr}]
      /\ data_blocks' \in [Lists -> Nodes \union {nullptr}]
      /\ \A k \in Lists \ {from, to} : data_blocks'[k] = data_blocks[k]
  BY MovedLinks
<1>3. PICK moved : moved = UpTo(from, end)
  OBVIOUS
<1>4. /\ owner' = [n \in Nodes |-> IF n \in moved THEN to ELSE owner[n]]
      /\ misuse' = [misuse EXCEPT
                      ![to] = IF /\ misuse[from] = "none"
                                 /\ \A m \in In(to) : End(m) <= Start(data_blocks[from])
                              THEN @ ELSE "moved_back"]
      /\ "added_twice" \notin {misuse[from], misuse[to]}
  BY <1>3 DEF ListMove
<1>5. \A n \in Nodes : owner'[n] # Free => owner[n] # Free
  <2>1. \A n \in moved : owner[n] # Free
    BY <1>1, <1>3, InFacts
  <2> QED BY <1>4, <2>1
<1>6. TypeOK'
  <2>1. owner' \in [Nodes -> Owners]
    BY <1>4 DEF Core, TypeOK, Owners
  <2>2. misuse' \in [Lists -> {"none", "added_twice", "moved_back"}]
    BY <1>4 DEF Core, TypeOK
  <2>3. last_used' \in [Lists -> Nodes \union {nullptr}]
    BY <1>2 DEF Core, TypeOK
  <2> QED BY <1>2, <1>5, <2>1, <2>2, <2>3 DEF Core, TypeOK
<1>7. /\ \A k \in Lists \ {to} : misuse'[k] = misuse[k]
      /\ misuse'[to] = "none" => /\ misuse[from] = "none" /\ misuse[to] = "none"
                                 /\ \A m \in In(to) : End(m) <= Start(data_blocks[from])
  BY <1>4 DEF Core, TypeOK
<1>8. \A n : Start(n)' = Start(n) /\ End(n)' = End(n)
  BY <1>2 DEF Start, End
<1>9. Good(from)'
  <2>1. Walkable(from)'
    <3>1. PICK k \in Nat : \E r \in [Nodes -> 0 .. k] : Ranked(from, r)
      BY DEF Core, Good, Walkable
    <3>2. PICK r \in [Nodes -> 0 .. k] : Ranked(from, r)
      BY <3>1
    <3>3. Ranked(from, r)'
      BY <3>2, MoveFrom
    <3> QED BY <3>3 DEF Walkable
  <2>2. ASSUME misuse[from] = "none" PROVE Sorted(from)'
    <3>1. Sorted(from)
      BY <2>2, Regular
    <3>2. PICK r : r = [n \in Nodes |-> IF n \in In(from) THEN bb[n].block ELSE 0]
      OBVIOUS
    <3>3. \A n \in In(from) : r[n] = bb[n].block
      BY <3>2, InFacts
    <3>4. r \in [Nodes -> 0 .. Size]
      <4>1. \A n \in In(from) : bb[n].block \in 0 .. Size
        BY <1>1, BlockBound DEF Core
      <4> QED BY <3>2, <4>1, BlockFacts
    <3>5. Ranked(from, r)'
      BY <3>1, <3>3, <3>4, RankedSorted, MoveFrom, BlockFacts
    <3>6. \A n \in In(from)' : r[n] = bb'[n].block
      BY <1>1, <1>2, <3>3
    <3> QED BY <3>5, <3>6, SortedRankedNext
  <2>3. Disjoint(from)'
    BY <1>1, <1>2, <1>8 DEF Disjoint
  <2> QED BY <1>1, <1>7, <2>1, <2>2, <2>3 DEF Good
<1>10. Good(to)'
  <2>1. Walkable(to)'
    BY MoveToWalkable
  <2>2. misuse'[to] = "none" => Sorted(to)'
    BY <1>7, MoveToSorted
  <2>3. Disjoint(to)'
    <3>1. ASSUME NEW n \in In(to)'
          PROVE  /\ n \in Nodes /\ owner[n] # Free /\ Start(n) \in Nat /\ bb[n].len \in Nat
                 /\ bb[n].block \in Nat /\ bb[n].len > 0 /\ End(n) <= Size
                 /\ End(n) = Start(n) + bb[n].len
      <4>1. n \in In(to) \/ n \in In(from)
        BY <1>1
      <4>2. bb[n].len > 0 /\ End(n) <= Size
        BY <1>1, <4>1 DEF Disjoint
      <4> QED BY <4>1, <4>2, InFacts, CellFacts DEF Core
    <3>2. ASSUME NEW n \in In(to)', NEW m \in In(to)', n \in moved, m \notin moved
          PROVE  /\ bb[n].block # bb[m].block
                 /\ bb[n].block < bb[m].block => End(n) <= Start(m)
                 /\ bb[m].block < bb[n].block => End(m) <= Start(n)
      <4>1. End(m) <= Start(n) \/ End(n) <= Start(m)
        BY <1>1, <1>3, <3>2
      <4>2. /\ bb[n].block < bb[m].block <=> Start(n) < Start(m)
            /\ bb[m].block < bb[n].block <=> Start(m) < Start(n)
        BY <3>1, CellOrder DEF Core
      <4> QED BY <3>1, <4>1, <4>2
    <3>3. ASSUME NEW n \in In(to)', NEW m \in In(to)'
          PROVE  /\ n # m => bb[n].block # bb[m].block
                 /\ bb[n].block < bb[m].block => End(n) <= Start(m)
      <4>1. CASE n \in moved /\ m \in moved
        BY <1>1, <1>3, <4>1 DEF Disjoint
      <4>2. CASE n \notin moved /\ m \notin moved
        BY <1>1, <1>3, <4>2 DEF Disjoint
      <4> QED BY <3>2, <4>1, <4>2
    <3> QED BY <1>2, <1>8, <3>1, <3>3 DEF Disjoint
  <2> QED BY <2>1, <2>2, <2>3 DEF Good
<1>11. ASSUME NEW k \in Lists \ {from, to} PROVE Good(k)'
  <2>1. \A n \in In(k) : n \in Nodes /\ n \notin In(from) /\ n \notin In(to)
    BY InFacts
  <2>2. \A n \in In(k) : next'[n] = next[n]
    <3>1. CASE In(to) = {}
      BY <1>1, <2>1, <3>1, MovedLinks
    <3>2. CASE In(to) # {}
      BY <1>1, <2>1, <3>2, MovedLinks
    <3> QED BY <3>1, <3>2
  <2> QED BY <1>1, <1>2, <1>7, <2>2, GoodKept DEF Core
<1>12. LastUsedListed'
  BY <1>1, <1>2 DEF Core, LastUsedListed, TypeOK
<1>13. QueueSound'
  <2>1. \A n \in Nodes : owner[n] # Fresh
    BY <1>1 DEF Core, QueueSound
  <2> QED BY <1>1, <1>2, <1>4, <2>1, ListAssumption DEF QueueSound
<1> QED BY <1>6, <1>9, <1>10, <1>11, <1>12, <1>13 DEF Core
-----------------------------------------------------------------------------
LEMMA InitCore == Init => Core
<1> SUFFICES ASSUME Init PROVE Core
  OBVIOUS
<1>1. TypeOK
  BY DEF Init, TypeOK, Owners
<1>2. \A l \in Lists : In(l) = {} /\ data_blocks[l] = nullptr /\ last_used[l] = nullptr
  BY ListAssumption DEF Init, In
<1>3. \A l \in Lists : Sorted(l) /\ Disjoint(l)
  BY <1>2 DEF Sorted, Disjoint
<1>4. LastUsedListed
  BY <1>2 DEF LastUsedListed
<1>5. QueueSound
  BY ListAssumption DEF Init, QueueSound
<1> QED BY <1>1, <1>3, <1>4, <1>5, SortedGood DEF Core

LEMMA StutterCore == Core /\ UNCHANGED vars => Core'
<1> SUFFICES ASSUME Core, UNCHANGED vars PROVE Core'
  OBVIOUS
<1>1. /\ data_blocks' = data_blocks /\ last_used' = last_used /\ next' = next /\ bb' = bb
      /\ owner' = owner /\ misuse' = misuse
      /\ pc' = pc /\ list' = list /\ cur' = cur /\ new_bb' = new_bb
  BY DEF vars
<1>2. \A l \in Lists : In(l)' = In(l)
  BY <1>1 DEF In
<1>3. \A l \in Lists : Good(l)'
  BY <1>1, <1>2, GoodKept DEF Core
<1>4. TypeOK'
  BY <1>1 DEF Core, TypeOK
<1>5. LastUsedListed'
  BY <1>1 DEF Core, LastUsedListed, In
<1>6. QueueSound'
  BY <1>1 DEF Core, QueueSound, In, Unused, AtPartialBlock, Start, End
<1> QED BY <1>3, <1>4, <1>5, <1>6 DEF Core

LEMMA AddCore == ASSUME Core, NEW l \in Lists, Add(l) PROVE Core'
BY AddFirstCore, AddAtHeadCore, AddBehindCore DEF Add

LEMMA NextCore == Size < Wrap /\ Core /\ [Next]_vars => Core'
<1> SUFFICES ASSUME Size < Wrap, Core, [Next]_vars PROVE Core'
  OBVIOUS
<1>1. CASE Search
  BY <1>1, SearchCore
<1>2. CASE Link
  BY <1>2, LinkCore
<1>3. CASE MergeNext
  BY <1>3, MergeNextCore
<1>4. CASE MergePrev
  BY <1>4, MergePrevCore
<1>5. ASSUME NEW l \in Lists, Add(l) PROVE Core'
  BY <1>5, AddCore
<1>6. ASSUME NEW l \in Lists, NEW n \in Nodes, NEW m \in Nodes, NEW max \in MaxLens,
             Split(l, n, m, max)
      PROVE  Core'
  BY <1>6, SplitCore
<1>7. ASSUME NEW l \in Lists, NEW to \in Lists, NEW end \in Nodes, ListMove(l, to, end) PROVE Core'
  BY <1>7, ListMoveCore
<1>8. ASSUME NEW l \in Lists, ListDestroy(l) PROVE Core'
  BY <1>8, ListDestroyCore
<1>9. CASE UNCHANGED vars
  BY <1>9, StutterCore
<1> QED BY <1>1, <1>2, <1>3, <1>4, <1>5, <1>6, <1>7, <1>8, <1>9 DEF Next

LEMMA ChainFollows == Core => ChainWhole
<1> SUFFICES ASSUME Core, NEW l \in Lists PROVE Chain(l) = In(l)
  BY DEF ChainWhole
<1>1. PICK k \in Nat : \E r \in [Nodes -> 0 .. k] : Ranked(l, r)
  BY DEF Core, Good, Walkable
<1>2. PICK r \in [Nodes -> 0 .. k] : Ranked(l, r)
  BY <1>1
<1>3. PICK end : end = nullptr
  OBVIOUS
<1>4. UpTo(l, end) = {n \in In(l) : end # nullptr => r[n] <= r[end]}
  BY <1>2, <1>3, UpToRanked DEF Core
<1> QED BY <1>3, <1>4 DEF Chain

\* Whatever calls are made in whatever order, last_used and the locals of
\* queue_bb() never point to a freed cell, and a walk finds every cell of a
\* list.  The cells do not overlap unless append2simg added a region twice, and
\* are in the order of their blocks unless a failed counting pass put cells
\* back behind later ones.  The size of an image is one that unsigned int can
\* hold.
THEOREM ListsSound == Size < Wrap => (Spec => []ListInv)
<1> SUFFICES ASSUME Size < Wrap PROVE Spec => []ListInv
  OBVIOUS
<1>1. Core /\ [Next]_vars => Core'
  BY NextCore
<1>2. Core => ListInv
  BY ChainFollows DEF Core, ListInv, ListSorted, BlocksDisjoint, Good
<1> QED BY InitCore, <1>1, <1>2, PTL DEF Spec
-----------------------------------------------------------------------------
(***************************************************************************)
(* The contents of the image.                                              *)
(***************************************************************************)
\* What the cells are backed by: a fill has no offset, and the cell being
\* queued is backed by what the caller gave.
Backed ==
  /\ \A n \in Nodes : owner[n] # Free /\ bb[n].type = "fill" => bb[n].off = 0
  /\ pc = "search" => Source(new_bb) \in Sources

LEMMA NextBacked == Core /\ Backed /\ [Next]_vars => Backed'
<1> SUFFICES ASSUME Core, Backed, [Next]_vars PROVE Backed'
  OBVIOUS
<1>1. CASE Search
  BY <1>1 DEF Search, Backed, Source
<1>2. CASE Link
  <2>1. owner[new_bb] # Free /\ new_bb \in Nodes
    BY <1>2, ListAssumption DEF Core, QueueSound, Link
  <2> QED BY <1>2, <2>1 DEF Link, Backed, Core, TypeOK
<1>3. ASSUME NEW a \in Nodes, NEW b \in Nodes, owner[a] # Free, a # b, Merge(a, b), pc' # "search"
      PROVE  Backed'
  <2>1. bb[a] \in BackedBlock
    BY <1>3 DEF Core, TypeOK
  <2>2. bb'[a] = [bb[a] EXCEPT !.len = (bb[a].len + bb[b].len) % Wrap] /\ \A m \in Nodes \ {a, b} : bb'[m] = bb[m]
    BY <1>3 DEF Merge, Core, TypeOK
  <2>3. bb'[a].type = bb[a].type /\ bb'[a].off = bb[a].off
    BY <2>1, <2>2 DEF BackedBlock
  <2>4. owner'[b] = Free /\ \A m \in Nodes \ {b} : owner'[m] = owner[m]
    BY <1>3 DEF Merge, Core, TypeOK
  <2> QED BY <1>3, <2>2, <2>3, <2>4 DEF Backed
<1>4. ASSUME pc \in {"merge_next", "merge_prev"}, UNCHANGED <<bb, owner>>, pc' # "search" PROVE Backed'
  BY <1>4 DEF Backed
<1>5. CASE MergeNext
  <2>1. pc = "merge_next" /\ pc' = "merge_prev"
    BY <1>5 DEF MergeNext
  <2>2. new_bb \in In(list) /\ list \in Lists /\ new_bb \in Nodes
    BY <2>1, MergeState
  <2>3. owner[new_bb] # Free
    BY <2>2, InFacts
  <2>4. CASE CanMerge(new_bb, next[new_bb]) /\ Merge(new_bb, next[new_bb])
    <3>1. next[new_bb] \in Nodes /\ next[new_bb] # new_bb
      BY <2>1, <2>2, <2>4, MergeState, InFacts
    <3> QED BY <1>3, <2>1, <2>2, <2>3, <2>4, <3>1
  <2>5. CASE UNCHANGED <<bb, next, owner>>
    BY <1>4, <2>1, <2>5
  <2> QED BY <1>5, <2>4, <2>5 DEF MergeNext
<1>6. CASE MergePrev
  <2>1. pc = "merge_prev" /\ pc' = "idle"
    BY <1>6 DEF MergePrev
  <2>2. new_bb \in Nodes /\ cur \in In(list) /\ list \in Lists /\ cur \in Nodes /\ cur # new_bb
    BY <2>1, MergeState
  <2>3. owner[cur] # Free
    BY <2>2, InFacts
  <2>4. CASE CanMerge(cur, new_bb) /\ Merge(cur, new_bb)
    BY <1>3, <2>1, <2>2, <2>3, <2>4
  <2>5. CASE UNCHANGED <<bb, next, owner>>
    BY <1>4, <2>1, <2>5
  <2> QED BY <1>6, <2>4, <2>5 DEF MergePrev
<1>7. ASSUME NEW l \in Lists, Add(l) PROVE Backed'
  <2>1. PICK n \in Nodes, block \in 0 .. Blocks - 1, len \in Lens, s \in Sources :
          \/ AddFirst(l, n, block, len, s)
          \/ AddAtHead(l, n, block, len, s)
          \/ AddBehind(l, n, block, len, s)
    BY <1>7 DEF Add
  <2>2. Filled(l, n, block, len, s) /\ \A m \in Nodes \ {n} : owner'[m] = owner[m]
    BY <2>1 DEF AddFirst, AddAtHead, AddBehind, Core, TypeOK
  <2>3. /\ bb'[n].type = s.type /\ bb'[n].src = s.src /\ bb'[n].off = s.off
        /\ \A m \in Nodes \ {n} : bb'[m] = bb[m]
        /\ pc = "idle"
    BY <2>2 DEF Filled, Core, TypeOK
  <2>4. s.type = "fill" => s.off = 0
    BY ListAssumption
  <2>5. \A m \in Nodes : owner'[m] # Free /\ bb'[m].type = "fill" => bb'[m].off = 0
    BY <2>2, <2>3, <2>4 DEF Backed
  <2>6. pc' = "search" => new_bb' = n
    BY <2>1, <2>3 DEF AddFirst, AddAtHead, AddBehind
  <2>7. [type |-> bb'[n].type, src |-> bb'[n].src, off |-> bb'[n].off] \in Sources
    BY <2>3, ListAssumption
  <2> QED BY <2>5, <2>6, <2>7 DEF Backed, Source
<1>8. ASSUME NEW l \in Lists, NEW n \in Nodes, NEW m \in Nodes, NEW max \in MaxLens,
             Split(l, n, m, max)
      PROVE  Backed'
  <2> DEFINE k == AlignDown(max)
             q == k \div BlockSize
  <2>1. /\ pc = "idle" /\ owner[n] = l /\ owner[m] = Free /\ pc' = pc
        /\ owner' = [owner EXCEPT ![m] = l]
        /\ bb' = [bb EXCEPT ![n].len = k,
                            ![m] = [bb[n] EXCEPT !.len = @ - k, !.block = @ + q,
                                                 !.off = IF bb[n].type = "fill" THEN @ ELSE @ + k]]
    BY <1>8 DEF Split
  <2> HIDE DEF q, k
  <2>2. bb[n] \in BackedBlock /\ n # m /\ owner[n] # Free
    BY <2>1, ListAssumption DEF Core, TypeOK
  <2>3. /\ \A c \in Nodes \ {n, m} : bb'[c] = bb[c]
        /\ bb'[n] = [bb[n] EXCEPT !.len = k]
        /\ bb'[m] = [bb[n] EXCEPT !.len = @ - k, !.block = @ + q,
                                  !.off = IF bb[n].type = "fill" THEN @ ELSE @ + k]
    BY <2>1, <2>2 DEF Core, TypeOK
  <2>4. /\ bb'[n].type = bb[n].type /\ bb'[n].off = bb[n].off
        /\ bb'[m].type = bb[n].type
        /\ bb[n].type = "fill" => bb'[m].off = bb[n].off
    BY <2>2, <2>3 DEF BackedBlock
  <2>5. \A c \in Nodes \ {m} : owner'[c] = owner[c]
    BY <2>1 DEF Core, TypeOK
  <2>6. \A c \in Nodes \ {n, m} : bb'[c] = bb[c]
    BY <2>3
  <2>7. pc' # "search"
    BY <2>1
  <2>8. bb[n].type = "fill" => bb[n].off = 0
    BY <2>2 DEF Backed
  <2>9. ASSUME NEW c \in Nodes, owner'[c] # Free, bb'[c].type = "fill" PROVE bb'[c].off = 0
    BY <2>4, <2>5, <2>6, <2>8, <2>9 DEF Backed
  <2> QED BY <2>7, <2>9 DEF Backed
<1>9. ASSUME NEW l \in Lists, NEW to \in Lists, NEW end \in Nodes, ListMove(l, to, end) PROVE Backed'
  <2>1. bb' = bb /\ pc' # "search"
    BY <1>9, MovedCells, MovedLinks
  <2>2. \A n \in UpTo(l, end) : owner[n] # Free
    BY <1>9, MovedCells, InFacts
  <2>3. \A n \in Nodes : owner'[n] # Free => owner[n] # Free
    BY <1>9, <2>2 DEF ListMove
  <2> QED BY <2>1, <2>3 DEF Backed
<1>10. ASSUME NEW l \in Lists, ListDestroy(l) PROVE Backed'
  BY <1>10 DEF ListDestroy, Backed
<1>11. CASE UNCHANGED vars
  BY <1>11 DEF vars, Backed, Source
<1> QED BY <1>1, <1>2, <1>5, <1>6, <1>7, <1>8, <1>9, <1>10, <1>11 DEF Next
\* A byte of the image according to cell n.
Byte(n, p) == SourceByte(Source(n), p - Start(n))

LEMMA Bytes ==
  \A l \in Lists : \A p \in 0 .. Size - 1 : \A v :
    v \in Content(l)[p] <=> \E n \in In(l) : Covers(n, p) /\ v = Byte(n, p)
BY DEF Content, Backing, Byte

LEMMA BytesNext ==
  \A l \in Lists : \A p \in 0 .. Size - 1 : \A v :
    v \in Content(l)'[p] <=> \E n \in In(l)' : Covers(n, p)' /\ v = Byte(n, p)'
<1>1. (\A l \in Lists : \A p \in 0 .. Size - 1 : \A v :
         v \in Content(l)[p] <=> \E n \in In(l) : Covers(n, p) /\ v = Byte(n, p))'
  BY Bytes, PTL
<1> QED BY <1>1

LEMMA SameElements ==
  ASSUME NEW A, NEW B, \A v : v \in A <=> v \in B
  PROVE  A = B
OBVIOUS

LEMMA OneMore ==
  ASSUME NEW A, NEW B, NEW e, \A v : v \in A <=> v \in B \/ v = e
  PROVE  A = B \union {e}
OBVIOUS

\* Contents are equal when they are at every byte.
LEMMA ContentFunction ==
  ASSUME NEW l \in Lists
  PROVE  /\ Content(l) = [p \in 0 .. Size - 1 |-> Content(l)[p]]
         /\ Content(l)' = [p \in 0 .. Size - 1 |-> Content(l)'[p]]
BY DEF Content

LEMMA SourceByteRecord ==
  ASSUME NEW t, NEW r, NEW o, NEW d
  PROVE  SourceByte([type |-> t, src |-> r, off |-> o], d)
           = [type |-> t, src |-> r, off |-> IF t = "fill" THEN o ELSE o + d]
BY DEF SourceByte

LEMMA ByteRecord ==
  ASSUME NEW n, NEW p
  PROVE  /\ Byte(n, p)
              = [type |-> bb[n].type, src |-> bb[n].src,
                 off |-> IF bb[n].type = "fill" THEN bb[n].off ELSE bb[n].off + (p - Start(n))]
         /\ Byte(n, p)'
              = [type |-> bb'[n].type, src |-> bb'[n].src,
                 off |-> IF bb'[n].type = "fill" THEN bb'[n].off ELSE bb'[n].off + (p - Start(n)')]
<1>1. SourceByte(Source(n), p - Start(n))
        = [type |-> bb[n].type, src |-> bb[n].src,
           off |-> IF bb[n].type = "fill" THEN bb[n].off ELSE bb[n].off + (p - Start(n))]
  BY SourceByteRecord DEF Source
<1>2. SourceByte(Source(n)', p - Start(n)')
        = [type |-> bb'[n].type, src |-> bb'[n].src,
           off |-> IF bb'[n].type = "fill" THEN bb'[n].off ELSE bb'[n].off + (p - Start(n)')]
  BY SourceByteRecord DEF Source
<1>3. Byte(n, p) = SourceByte(Source(n), p - Start(n))
  BY DEF Byte
<1>4. Byte(n, p)' = SourceByte(Source(n)', p - Start(n)')
  BY DEF Byte, SourceByte
<1> QED BY <1>1, <1>2, <1>3, <1>4

\* A cell that a step leaves alone.
LEMMA CellKept ==
  ASSUME NEW m, bb'[m] = bb[m]
  PROVE  /\ Start(m)' = Start(m) /\ End(m)' = End(m)
         /\ \A p : (Covers(m, p)' <=> Covers(m, p)) /\ Byte(m, p)' = Byte(m, p)
BY DEF Start, End, Source, Covers, Byte, SourceByte

\* Contents with the same bytes: of cells left alone, joined or cut in two.
LEMMA SameBytes ==
  ASSUME NEW l \in Lists,
         \A p \in 0 .. Size - 1, m \in In(l) : Covers(m, p) =>
            \E c \in In(l)' : Covers(c, p)' /\ Byte(c, p)' = Byte(m, p),
         \A p \in 0 .. Size - 1, c \in In(l)' : Covers(c, p)' =>
            \E m \in In(l) : Covers(m, p) /\ Byte(c, p)' = Byte(m, p)
  PROVE  Content(l)' = Content(l)
<1>1. ASSUME NEW p \in 0 .. Size - 1 PROVE Content(l)'[p] = Content(l)[p]
  <2>1. \A v : v \in Content(l)'[p] <=> v \in Content(l)[p]
    BY Bytes, BytesNext
  <2> QED BY <2>1, SameElements
<1> QED BY <1>1, ContentFunction

LEMMA ContentKept ==
  ASSUME NEW l \in Lists, In(l)' = In(l), \A m \in In(l) : bb'[m] = bb[m]
  PROVE  Content(l)' = Content(l)
BY CellKept, SameBytes

LEMMA EmptyContent ==
  ASSUME NEW l \in Lists
  PROVE  /\ In(l) = {} => Content(l) = Img!Empty
         /\ In(l)' = {} => Content(l)' = Img!Empty
BY DEF Content, Backing, Img!Empty, Img!Bytes

\* A new cell adds exactly its region.
LEMMA CellAdds ==
  ASSUME TypeOK', NEW l \in Lists, NEW n \in Nodes, In(l)' = In(l) \union {n}, n \notin In(l),
         \A m \in In(l) : bb'[m] = bb[m], bb'[n].len > 0, End(n)' <= Size,
         NEW s \in Sources, Source(n)' = s,
         NEW start, start = Start(n)', NEW len, len = bb'[n].len
  PROVE  /\ start \in Img!Bytes /\ len \in 1 .. Size
         /\ Img!Add(Content(l), Content(l)', start, len, s)
<1>1. start \in Nat /\ len \in Nat /\ End(n)' = start + len /\ start + len <= Size /\ n \in In(l)'
  <2>1. n \in In(l)' /\ owner'[n] # Free
    BY ListAssumption DEF In
  <2> QED BY <2>1, CellFactsNext
<1>2. start \in Img!Bytes /\ len \in 1 .. Size
  BY <1>1, BlockFacts DEF Img!Bytes
<1> DEFINE region == start .. start + len - 1
<1>3. region \subseteq Img!Bytes
  BY <1>1, BlockFacts DEF Img!Bytes
<1>4. \A p \in 0 .. Size - 1 : p \in region <=> Covers(n, p)'
  BY <1>1, BlockFacts DEF Covers
<1> HIDE DEF region
<1>5. \A p : Byte(n, p)' = Img!SourceByte(s, p - start)
  BY DEF Byte, SourceByte, Img!SourceByte
<1>6. ASSUME NEW p \in 0 .. Size - 1
      PROVE  Content(l)'[p] = IF p \in region THEN Content(l)[p] \union {Img!SourceByte(s, p - start)}
                              ELSE Content(l)[p]
  <2>1. \A m \in In(l) : (Covers(m, p)' <=> Covers(m, p)) /\ Byte(m, p)' = Byte(m, p)
    BY CellKept
  <2>2. ASSUME NEW v
        PROVE  v \in Content(l)'[p] <=> \/ v \in Content(l)[p]
                                        \/ p \in region /\ v = Img!SourceByte(s, p - start)
    <3>1. v \in Content(l)'[p] <=> \E m \in In(l)' : Covers(m, p)' /\ v = Byte(m, p)'
      BY BytesNext
    <3>2. v \in Content(l)[p] <=> \E m \in In(l) : Covers(m, p) /\ v = Byte(m, p)
      BY Bytes
    <3>3. Covers(n, p)' /\ v = Byte(n, p)' <=> p \in region /\ v = Img!SourceByte(s, p - start)
      BY <1>4, <1>5
    <3>4. (\E m \in In(l)' : Covers(m, p)' /\ v = Byte(m, p)')
            <=> \/ \E m \in In(l) : Covers(m, p) /\ v = Byte(m, p)
                \/ Covers(n, p)' /\ v = Byte(n, p)'
      BY <2>1
    <3> QED BY <3>1, <3>2, <3>3, <3>4
  <2>3. CASE p \in region
    BY <2>2, <2>3, OneMore
  <2>4. CASE p \notin region
    BY <2>2, <2>4, SameElements
  <2> QED BY <2>3, <2>4
<1>7. Content(l)' = [p \in Img!Bytes |-> IF p \in region
                                         THEN Content(l)[p] \union {Img!SourceByte(s, p - start)}
                                         ELSE Content(l)[p]]
  BY <1>6, ContentFunction DEF Img!Bytes
<1> QED BY <1>2, <1>3, <1>7 DEF Img!Add, region

LEMMA MergeContent ==
  ASSUME Size < Wrap, Core, Backed, NEW l \in Lists, misuse[l] = "none",
         NEW a \in In(l), NEW b \in In(l), next[a] = b, CanMerge(a, b), Merge(a, b),
         data_blocks' = data_blocks, misuse' = misuse, NEW k \in Lists
  PROVE  Content(k)' = Content(k)
<1>1. /\ In(l)' = In(l) \ {b} /\ a # b
      /\ \A j \in Lists \ {l} : In(j)' = In(j) /\ b \notin In(j)
      /\ \A m \in Nodes \ {a, b} : bb'[m] = bb[m]
      /\ bb'[a] = [bb[a] EXCEPT !.len = bb[a].len + bb[b].len]
      /\ Start(a)' = Start(a) /\ End(a)' = End(b)
  BY MergeLists
<1>2. End(a) = Start(b)
  BY Adjacent
<1>3. \A m \in In(l) : /\ m \in Nodes /\ bb[m] \in BackedBlock /\ bb[m].off \in Nat /\ bb[m].len \in Nat
                       /\ Start(m) \in Nat /\ End(m) = Start(m) + bb[m].len /\ owner[m] = l /\ owner[m] # Free
  BY InFacts, CellFacts DEF Core
<1>4. bb'[a].type = bb[a].type /\ bb'[a].src = bb[a].src /\ bb'[a].off = bb[a].off
  BY <1>1, <1>3 DEF BackedBlock
<1>5. /\ bb[a].type = bb[b].type /\ bb[a].src = bb[b].src
      /\ bb[a].type # "fill" => bb[a].off + bb[a].len = bb[b].off
      /\ bb[a].type = "fill" => bb[a].off = bb[b].off
  BY <1>3 DEF CanMerge, Backed
<1>6. CASE k # l
  <2>1. \A m \in In(k) : m # a /\ m # b /\ m \in Nodes
    BY <1>3, <1>6, InFacts
  <2> QED BY <1>1, <1>6, <2>1, ContentKept
<1>7. CASE k = l
  <2>1. \A p \in 0 .. Size - 1 : p \in Nat
    BY BlockFacts
  <2>2. \A m \in In(l) \ {a, b} : m \in In(l)' /\ bb'[m] = bb[m]
    BY <1>1, <1>3
  <2>3. ASSUME NEW p \in 0 .. Size - 1 PROVE Byte(a, p)' = Byte(a, p) /\ Byte(b, p) = Byte(a, p)
    <3>1. bb[a].type # "fill" => bb[b].off + (p - Start(b)) = bb[a].off + (p - Start(a))
      BY <1>2, <1>3, <1>5, <2>1
    <3>2. Byte(a, p) = [type |-> bb[a].type, src |-> bb[a].src,
                        off |-> IF bb[a].type = "fill" THEN bb[a].off ELSE bb[a].off + (p - Start(a))]
      BY ByteRecord
    <3>3. Byte(a, p)' = Byte(a, p)
      <4>1. Byte(a, p)' = [type |-> bb'[a].type, src |-> bb'[a].src,
                           off |-> IF bb'[a].type = "fill" THEN bb'[a].off
                                   ELSE bb'[a].off + (p - Start(a)')]
        BY ByteRecord
      <4>2. p - Start(a)' = p - Start(a)
        BY <1>1
      <4> QED BY <1>4, <3>2, <4>1, <4>2
    <3>4. Byte(b, p) = [type |-> bb[b].type, src |-> bb[b].src,
                        off |-> IF bb[b].type = "fill" THEN bb[b].off ELSE bb[b].off + (p - Start(b))]
      BY ByteRecord
    <3>5. Byte(b, p) = Byte(a, p)
      BY <1>5, <3>1, <3>2, <3>4
    <3> QED BY <3>3, <3>5
  <2>4. \A p \in 0 .. Size - 1 : Covers(a, p)' <=> Covers(a, p) \/ Covers(b, p)
    BY <1>1, <1>2, <1>3, <2>1 DEF Covers
  <2>5. ASSUME NEW p \in 0 .. Size - 1, NEW m \in In(l), Covers(m, p)
        PROVE  \E c \in In(l)' : Covers(c, p)' /\ Byte(c, p)' = Byte(m, p)
    <3>1. CASE m = a \/ m = b
      <4>1. Covers(a, p)' /\ a \in In(l)' /\ Byte(a, p)' = Byte(m, p)
        BY <1>1, <2>3, <2>4, <2>5, <3>1
      <4> QED BY <4>1
    <3>2. CASE m # a /\ m # b
      BY <2>2, <2>5, <3>2, CellKept
    <3> QED BY <3>1, <3>2
  <2>6. ASSUME NEW p \in 0 .. Size - 1, NEW c \in In(l)', Covers(c, p)'
        PROVE  \E m \in In(l) : Covers(m, p) /\ Byte(c, p)' = Byte(m, p)
    <3>1. CASE c = a
      BY <2>3, <2>4, <2>6, <3>1
    <3>2. CASE c # a
      BY <1>1, <2>2, <2>6, <3>2, CellKept
    <3> QED BY <3>1, <3>2
  <2> QED BY <1>7, <2>5, <2>6, SameBytes
<1> QED BY <1>6, <1>7

LEMMA SplitContent ==
  ASSUME Core, Core', NEW l \in Lists, NEW n \in Nodes, NEW m \in Nodes, NEW max \in MaxLens,
         Split(l, n, m, max), NEW j \in Lists
  PROVE  Content(j)' = Content(j)
<1> DEFINE k == AlignDown(max)
           q == k \div BlockSize
<1>1. /\ n \in In(l) /\ m \notin In(l) /\ n # m
      /\ In(l)' = In(l) \union {m}
      /\ \A i \in Lists \ {l} : In(i)' = In(i) /\ n \notin In(i) /\ m \notin In(i)
      /\ \A c \in Nodes \ {n, m} : bb'[c] = bb[c]
      /\ Start(n)' = Start(n) /\ End(n)' = Start(m)' /\ End(m)' = End(n)
  BY SplitCells
<1>2. k \in Nat
  BY ListAssumption, Aligned
<1>3. bb' = [bb EXCEPT ![n].len = k,
                       ![m] = [bb[n] EXCEPT !.len = @ - k, !.block = @ + q,
                                            !.off = IF bb[n].type = "fill" THEN @ ELSE @ + k]]
  BY DEF Split
<1> HIDE DEF q, k
<1>4. /\ bb[n] \in BackedBlock /\ bb[n].off \in Nat /\ bb[n].len \in Nat /\ Start(n) \in Nat
      /\ End(n) = Start(n) + bb[n].len
  BY <1>1, InFacts, CellFacts DEF Core
<1>5. /\ bb'[n] = [bb[n] EXCEPT !.len = k]
      /\ bb'[m] = [bb[n] EXCEPT !.len = @ - k, !.block = @ + q,
                                !.off = IF bb[n].type = "fill" THEN @ ELSE @ + k]
  BY <1>1, <1>3 DEF Core, TypeOK
<1>6. /\ bb'[n].type = bb[n].type /\ bb'[n].src = bb[n].src /\ bb'[n].off = bb[n].off /\ bb'[n].len = k
      /\ bb'[m].type = bb[n].type /\ bb'[m].src = bb[n].src
      /\ bb[n].type = "fill" => bb'[m].off = bb[n].off
      /\ bb[n].type # "fill" => bb'[m].off = bb[n].off + k
  BY <1>4, <1>5 DEF BackedBlock
<1>7. Start(m)' = Start(n) + k /\ Start(m)' \in Nat
  <2>1. End(n)' = Start(n)' + bb'[n].len
    BY DEF End
  <2> QED BY <1>1, <1>2, <1>4, <1>6, <2>1
<1>8. CASE j # l
  <2>1. \A c \in In(j) : c # n /\ c # m /\ c \in Nodes
    BY <1>1, <1>8, InFacts
  <2> QED BY <1>1, <1>8, <2>1, ContentKept
<1>9. CASE j = l
  <2>1. \A p \in 0 .. Size - 1 : p \in Nat
    BY BlockFacts
  <2>2. \A c \in In(l) \ {n} : c \in In(l)' /\ c # m /\ bb'[c] = bb[c]
    BY <1>1, InFacts
  <2>3. ASSUME NEW p \in 0 .. Size - 1 PROVE Byte(n, p)' = Byte(n, p) /\ Byte(m, p)' = Byte(n, p)
    <3>1. bb[n].type # "fill" => bb'[m].off + (p - Start(m)') = bb[n].off + (p - Start(n))
      BY <1>2, <1>4, <1>6, <1>7, <2>1
    <3> QED BY <1>1, <1>6, <3>1, ByteRecord
  <2>4. Start(n) <= Start(m)' /\ Start(m)' <= End(n) /\ End(n) \in Nat
    <3>1. End(m)' = Start(m)' + bb'[m].len /\ bb'[m].len \in Nat
      <4>1. m \in In(l)' /\ owner'[m] # Free
        BY <1>1, ListAssumption DEF In
      <4> QED BY <4>1, CellFactsNext DEF Core
    <3> QED BY <1>1, <1>2, <1>4, <1>7, <3>1
  <2>5. \A p \in 0 .. Size - 1 : Covers(n, p) <=> Covers(n, p)' \/ Covers(m, p)'
    BY <1>1, <1>4, <1>7, <2>1, <2>4 DEF Covers
  <2>6. ASSUME NEW p \in 0 .. Size - 1, NEW i \in In(l), Covers(i, p)
        PROVE  \E c \in In(l)' : Covers(c, p)' /\ Byte(c, p)' = Byte(i, p)
    <3>1. CASE i = n
      BY <1>1, <2>3, <2>5, <2>6, <3>1
    <3>2. CASE i # n
      BY <2>2, <2>6, <3>2, CellKept
    <3> QED BY <3>1, <3>2
  <2>7. ASSUME NEW p \in 0 .. Size - 1, NEW c \in In(l)', Covers(c, p)'
        PROVE  \E i \in In(l) : Covers(i, p) /\ Byte(c, p)' = Byte(i, p)
    <3>1. CASE c = n \/ c = m
      BY <1>1, <2>3, <2>5, <2>7, <3>1
    <3>2. CASE c # n /\ c # m
      BY <1>1, <2>2, <2>7, <3>2, CellKept
    <3> QED BY <3>1, <3>2
  <2> QED BY <1>9, <2>6, <2>7, SameBytes
<1> QED BY <1>8, <1>9

\* A byte that no two cells of a list cover.
LEMMA CoverUnique ==
  ASSUME TypeOK, NEW l \in Lists, Disjoint(l), NEW n \in In(l), NEW m \in In(l), NEW p \in Nat,
         Covers(n, p), Covers(m, p)
  PROVE  n = m
<1>1. /\ Start(n) \in Nat /\ End(n) \in Nat /\ Start(m) \in Nat /\ End(m) \in Nat
      /\ bb[n].block \in Nat /\ bb[m].block \in Nat
  BY InFacts, CellFacts
<1>2. /\ bb[n].block < bb[m].block => End(n) <= Start(m)
      /\ bb[m].block < bb[n].block => End(m) <= Start(n)
      /\ n # m => bb[n].block # bb[m].block
  BY DEF Disjoint
<1> QED BY <1>1, <1>2 DEF Covers

LEMMA UsedBytes ==
  ASSUME NEW l \in Lists, NEW p \in 0 .. Size - 1
  PROVE  /\ p \in Img!Used(Content(l)) <=> \E n \in In(l) : Covers(n, p)
         /\ p \in Img!Used(Content(l)') <=> \E n \in In(l)' : Covers(n, p)'
         /\ (\A n \in In(l) : ~Covers(n, p)) => Content(l)[p] = {}
         /\ (\A n \in In(l)' : ~Covers(n, p)') => Content(l)'[p] = {}
<1>1. \A v : /\ v \in Content(l)[p] <=> \E n \in In(l) : Covers(n, p) /\ v = Byte(n, p)
             /\ v \in Content(l)'[p] <=> \E n \in In(l)' : Covers(n, p)' /\ v = Byte(n, p)'
  BY Bytes, BytesNext
<1>2. Content(l)[p] # {} <=> \E n \in In(l) : Covers(n, p)
  BY <1>1
<1>3. Content(l)'[p] # {} <=> \E n \in In(l)' : Covers(n, p)'
  BY <1>1
<1> QED BY <1>2, <1>3 DEF Img!Used, Img!Bytes

\* What is moved is what the moved cells cover.
MovedBytes(l) == Img!Used(Content(l)) \ Img!Used(Content(l)')

LEMMA MovedUsed ==
  ASSUME Core, NEW from \in Lists, NEW to \in Lists, NEW end \in Nodes, ListMove(from, to, end),
         NEW p \in 0 .. Size - 1
  PROVE  /\ p \in MovedBytes(from) <=> \E n \in UpTo(from, end) : Covers(n, p)
         /\ p \in MovedBytes(from) => /\ \A m \in In(from) \ UpTo(from, end) : ~Covers(m, p)
                                      /\ \A m \in In(to) : ~Covers(m, p)
<1>1. /\ Disjoint(from) /\ UpTo(from, end) \subseteq In(from)
      /\ In(from)' = In(from) \ UpTo(from, end)
      /\ \A n \in UpTo(from, end), m \in In(to) : End(m) <= Start(n) \/ End(n) <= Start(m)
  BY MovedCells
<1>2. PICK moved : moved = UpTo(from, end)
  OBVIOUS
<1>3. \A m : (Covers(m, p)' <=> Covers(m, p))
  BY MovedLinks, CellKept
<1>4. p \in Nat
  BY BlockFacts
<1>5. p \in MovedBytes(from) <=> /\ \E n \in In(from) : Covers(n, p)
                                 /\ \A m \in In(from) \ moved : ~Covers(m, p)
  BY <1>1, <1>2, <1>3, UsedBytes DEF MovedBytes
<1>6. ASSUME NEW n \in moved, Covers(n, p), NEW m \in In(from) \ moved, Covers(m, p) PROVE FALSE
  <2>1. n \in In(from)
    BY <1>1, <1>2
  <2> QED BY <1>1, <1>4, <1>6, <2>1, CoverUnique DEF Core
<1>7. ASSUME NEW n \in moved, Covers(n, p), NEW m \in In(to), Covers(m, p) PROVE FALSE
  <2>1. n \in In(from) /\ (End(m) <= Start(n) \/ End(n) <= Start(m))
    BY <1>1, <1>2
  <2>2. Start(n) \in Nat /\ End(n) \in Nat /\ Start(m) \in Nat /\ End(m) \in Nat
    BY <2>1, InFacts, CellFacts DEF Core
  <2> QED BY <1>4, <1>7, <2>1, <2>2 DEF Covers
<1>8. p \in MovedBytes(from) <=> \E n \in moved : Covers(n, p)
  <2>1. ASSUME NEW n \in moved, Covers(n, p) PROVE p \in MovedBytes(from)
    BY <1>1, <1>2, <1>5, <1>6, <2>1
  <2>2. ASSUME p \in MovedBytes(from) PROVE \E n \in moved : Covers(n, p)
    BY <1>5, <2>2
  <2> QED BY <2>1, <2>2
<1>9. p \in MovedBytes(from) => \A m \in In(to) : ~Covers(m, p)
  BY <1>7, <1>8
<1> QED BY <1>2, <1>5, <1>8, <1>9

LEMMA MoveContent ==
  ASSUME Core, NEW from \in Lists, NEW to \in Lists, NEW end \in Nodes, ListMove(from, to, end)
  PROVE  /\ from # to /\ \A k \in Lists \ {from, to} : Content(k)' = Content(k)
         /\ Img!Move(Content(from), Content(from)', Content(to), Content(to)', MovedBytes(from))
<1>1. /\ from # to /\ UpTo(from, end) \subseteq In(from)
      /\ In(from)' = In(from) \ UpTo(from, end)
      /\ In(to)' = In(to) \union UpTo(from, end)
      /\ \A k \in Lists \ {from, to} : In(k)' = In(k)
  BY MovedCells
<1>2. PICK moved : moved = UpTo(from, end)
  OBVIOUS
<1>3. bb' = bb /\ \A m, p : (Covers(m, p)' <=> Covers(m, p)) /\ Byte(m, p)' = Byte(m, p)
  BY MovedLinks, CellKept
<1>4. \A k \in Lists \ {from, to} : Content(k)' = Content(k)
  BY <1>1, <1>3, ContentKept
<1>5. PICK ps : ps = MovedBytes(from)
  OBVIOUS
<1>6. ps \subseteq Img!Used(Content(from)) /\ \A p \in ps : p \in 0 .. Size - 1
  BY <1>5 DEF MovedBytes, Img!Used, Img!Bytes
<1>7. \A p \in 0 .. Size - 1 : /\ p \in ps <=> \E n \in moved : Covers(n, p)
                               /\ p \in ps => /\ \A m \in In(from) \ moved : ~Covers(m, p)
                                              /\ \A m \in In(to) : ~Covers(m, p)
  BY <1>2, <1>5, MovedUsed
<1>8. ps \intersect Img!Used(Content(to)) = {}
  BY <1>6, <1>7, UsedBytes
<1>9. ASSUME NEW p \in 0 .. Size - 1
      PROVE  /\ Content(from)'[p] = IF p \in ps THEN {} ELSE Content(from)[p]
             /\ Content(to)'[p] = IF p \in ps THEN Content(from)[p] ELSE Content(to)[p]
  <2>2. \A v : /\ v \in Content(from)[p] <=> \E n \in In(from) : Covers(n, p) /\ v = Byte(n, p)
               /\ v \in Content(to)[p] <=> \E n \in In(to) : Covers(n, p) /\ v = Byte(n, p)
    BY Bytes
  <2>3. \A v : /\ v \in Content(from)'[p] <=> \E n \in In(from)' : Covers(n, p) /\ v = Byte(n, p)
               /\ v \in Content(to)'[p] <=> \E n \in In(to)' : Covers(n, p) /\ v = Byte(n, p)
    BY <1>3, BytesNext
  <2>4. CASE p \in ps
    <3>1. Content(from)'[p] = {}
      BY <1>1, <1>2, <1>3, <1>7, <2>4, UsedBytes
    <3>2. \A v : v \in Content(to)'[p] <=> v \in Content(from)[p]
      BY <1>1, <1>2, <1>7, <2>2, <2>3, <2>4
    <3> QED BY <2>4, <3>1, <3>2, SameElements
  <2>5. CASE p \notin ps
    <3>1. \A v : v \in Content(from)'[p] <=> v \in Content(from)[p]
      BY <1>1, <1>2, <1>7, <2>2, <2>3, <2>5
    <3>2. \A v : v \in Content(to)'[p] <=> v \in Content(to)[p]
      BY <1>1, <1>2, <1>7, <2>2, <2>3, <2>5
    <3> QED BY <2>5, <3>1, <3>2, SameElements
  <2> QED BY <2>4, <2>5
<1>10. /\ Content(from)' = [p \in Img!Bytes |-> IF p \in ps THEN {} ELSE Content(from)[p]]
       /\ Content(to)' = [p \in Img!Bytes |-> IF p \in ps THEN Content(from)[p] ELSE Content(to)[p]]
  BY <1>9, ContentFunction DEF Img!Bytes
<1> QED BY <1>1, <1>4, <1>5, <1>6, <1>8, <1>10 DEF Img!Move

\* The refinement mapping.
Contents == [l \in Lists |-> Content(l)]
Shuffled == {l \in Lists : misuse[l] = "moved_back"}

\* What is moved from a list that is in order lies before what stays, and a
\* list that is not in order afterwards is known to the image as one that
\* something was moved back to.
LEMMA MoveOrder ==
  ASSUME Core, NEW from \in Lists, NEW to \in Lists, NEW end \in Nodes, ListMove(from, to, end)
  PROVE  /\ Content(from)' # Content(from)
         /\ \/ from \in Shuffled
            \/ Img!Before(MovedBytes(from), Img!Used(Content(from)) \ MovedBytes(from))
         /\ \/ Shuffled' = Shuffled
            \/ /\ from \in Shuffled \/ ~Img!Before(Img!Used(Content(to)), MovedBytes(from))
               /\ Shuffled' = Shuffled \union {to}
<1>1. /\ Disjoint(from) /\ Disjoint(to) /\ UpTo(from, end) \subseteq In(from)
      /\ end \in In(from) /\ data_blocks[from] \in UpTo(from, end)
      /\ In(from)' = In(from) \ UpTo(from, end)
      /\ \A n \in UpTo(from, end), m \in In(to) : End(m) <= Start(n) \/ End(n) <= Start(m)
  BY MovedCells
<1>2. PICK moved : moved = UpTo(from, end)
  OBVIOUS
<1>3. PICK start : start = data_blocks[from]
  OBVIOUS
<1>4. /\ "added_twice" \notin {misuse[from], misuse[to]}
      /\ misuse' = [misuse EXCEPT
                      ![to] = IF /\ misuse[from] = "none"
                                 /\ \A m \in In(to) : End(m) <= Start(start)
                              THEN @ ELSE "moved_back"]
  BY <1>3 DEF ListMove
<1>5. ASSUME NEW l \in Lists, Disjoint(l), NEW n \in In(l)
      PROVE  /\ Start(n) \in Nat /\ End(n) \in Nat /\ End(n) <= Size /\ Start(n) < End(n)
             /\ Start(n) \in 0 .. Size - 1 /\ Covers(n, Start(n)) /\ bb[n].block \in Nat
  <2>1. /\ Start(n) \in Nat /\ End(n) = Start(n) + bb[n].len /\ bb[n].len \in Nat /\ bb[n].block \in Nat
        /\ bb[n].len > 0 /\ End(n) <= Size
    BY <1>5, InFacts, CellFacts DEF Core, Disjoint
  <2> QED BY <2>1, BlockFacts DEF Covers
<1>6. start \in In(from) /\ start \in moved
  BY <1>1, <1>2, <1>3
<1>7. Start(start) \in MovedBytes(from)
  BY <1>1, <1>2, <1>5, <1>6, MovedUsed
<1>8. Content(from)' # Content(from)
  BY <1>7 DEF MovedBytes
<1>9. \A p \in Img!Used(Content(from)) \union Img!Used(Content(to)) : p \in 0 .. Size - 1 /\ p \in Nat
  BY BlockFacts DEF Img!Used, Img!Bytes
<1>10. ASSUME misuse[from] = "none", NEW p \in MovedBytes(from),
              NEW q \in Img!Used(Content(from)) \ MovedBytes(from)
       PROVE  p < q
  <2>1. p \in 0 .. Size - 1 /\ q \in 0 .. Size - 1 /\ p \in Nat /\ q \in Nat
    BY <1>9, <1>10 DEF MovedBytes
  <2>2. PICK n \in moved : Covers(n, p)
    BY <1>2, <1>10, <2>1, MovedUsed
  <2>3. PICK m \in In(from) : Covers(m, q)
    BY <1>10, <2>1, UsedBytes
  <2>4. m \notin moved
    BY <1>2, <1>10, <2>1, <2>3, MovedUsed
  <2>5. bb[n].block < bb[m].block
    <3>1. PICK r : r = [c \in Nodes |-> IF c \in In(from) THEN bb[c].block ELSE 0]
      OBVIOUS
    <3>2. \A c \in In(from) : r[c] = bb[c].block
      BY <3>1, InFacts
    <3>3. r \in [Nodes -> 0 .. Size]
      <4>1. \A c \in In(from) : bb[c].block \in 0 .. Size
        BY <1>1, BlockBound DEF Core
      <4> QED BY <3>1, <4>1, BlockFacts
    <3>4. Sorted(from)
      BY <1>10, Regular
    <3>5. Ranked(from, r)
      BY <3>2, <3>4, RankedSorted
    <3>6. UpTo(from, end) = {c \in In(from) : r[c] <= r[end]}
      BY <3>3, <3>5, MoveFrom, BlockFacts
    <3>7. n \in In(from) /\ r[n] <= r[end] /\ ~(r[m] <= r[end])
      BY <1>2, <2>2, <2>3, <2>4, <3>6
    <3>8. bb[n].block <= bb[end].block /\ ~(bb[m].block <= bb[end].block)
      BY <1>1, <2>3, <3>2, <3>7
    <3>9. bb[n].block \in Nat /\ bb[m].block \in Nat /\ bb[end].block \in Nat
      BY <1>1, <1>5, <2>3, <3>7
    <3> QED BY <3>8, <3>9
  <2>6. End(n) <= Start(m)
    BY <1>1, <1>2, <2>2, <2>3, <2>5 DEF Disjoint
  <2>7. n \in In(from) /\ End(n) \in Nat /\ Start(m) \in Nat
    BY <1>1, <1>2, <1>5, <2>2, <2>3
  <2> QED BY <2>1, <2>2, <2>3, <2>6, <2>7 DEF Covers
<1>11. misuse[from] # "none" => from \in Shuffled
  BY <1>4 DEF Shuffled, Core, TypeOK
<1>12. \/ from \in Shuffled
       \/ Img!Before(MovedBytes(from), Img!Used(Content(from)) \ MovedBytes(from))
  BY <1>10, <1>11 DEF Img!Before
<1>13. ASSUME NEW m \in In(to), ~(End(m) <= Start(start))
       PROVE  ~Img!Before(Img!Used(Content(to)), MovedBytes(from))
  <2>1. End(start) <= Start(m)
    BY <1>1, <1>2, <1>6, <1>13
  <2>2. /\ Start(start) \in Nat /\ End(start) \in Nat /\ Start(start) < End(start)
        /\ Start(m) \in Nat
    BY <1>1, <1>5, <1>6
  <2>3. Start(m) \in Img!Used(Content(to))
    BY <1>1, <1>5, UsedBytes
  <2>4. ~(Start(m) < Start(start))
    BY <2>1, <2>2
  <2> QED BY <1>7, <2>3, <2>4 DEF Img!Before
<1>14. CASE misuse[from] = "none" /\ \A m \in In(to) : End(m) <= Start(start)
  <2>1. misuse' = misuse
    BY <1>4, <1>14 DEF Core, TypeOK
  <2> QED BY <1>8, <1>12, <2>1 DEF Shuffled
<1>15. CASE ~(misuse[from] = "none" /\ \A m \in In(to) : End(m) <= Start(start))
  <2>1. misuse' = [misuse EXCEPT ![to] = "moved_back"]
    BY <1>4, <1>15
  <2>2. Shuffled' = Shuffled \union {to}
    BY <2>1 DEF Shuffled, Core, TypeOK
  <2>3. from \in Shuffled \/ ~Img!Before(Img!Used(Content(to)), MovedBytes(from))
    BY <1>11, <1>13, <1>15
  <2> QED BY <1>8, <1>12, <2>2, <2>3
<1> QED BY <1>14, <1>15

\* Steps of the image.
LEMMA Stutter ==
  ASSUME \A k \in Lists : Content(k)' = Content(k), Shuffled' = Shuffled
  PROVE  [Img!Next]_<<Contents, Shuffled>>
BY DEF Contents

LEMMA AddRefines ==
  ASSUME NEW l \in Lists, \A k \in Lists \ {l} : Content(k)' = Content(k), Shuffled' = Shuffled,
         NEW start \in Img!Bytes, NEW len \in 1 .. Size, NEW s \in Sources,
         Img!Add(Content(l), Content(l)', start, len, s)
  PROVE  [Img!Next]_<<Contents, Shuffled>>
<1>1. CASE Content(l)' = Content(l)
  BY <1>1, Stutter
<1>2. CASE Content(l)' # Content(l)
  BY <1>2 DEF Img!Next, Img!Unchanged, Shuffled
<1> QED BY <1>1, <1>2

LEMMA DestroyRefines ==
  ASSUME NEW l \in Lists, \A k \in Lists \ {l} : Content(k)' = Content(k),
         Content(l)' = Img!Empty, Shuffled' = Shuffled \ {l}
  PROVE  Img!Next
BY DEF Img!Next, Img!Unchanged, Shuffled

LEMMA MoveRefines ==
  ASSUME NEW from \in Lists, NEW to \in Lists, from # to,
         \A k \in Lists \ {from, to} : Content(k)' = Content(k),
         Content(from)' # Content(from),
         Img!Move(Content(from), Content(from)', Content(to), Content(to)', MovedBytes(from)),
         \/ from \in Shuffled
         \/ Img!Before(MovedBytes(from), Img!Used(Content(from)) \ MovedBytes(from)),
         \/ Shuffled' = Shuffled
         \/ /\ from \in Shuffled \/ ~Img!Before(Img!Used(Content(to)), MovedBytes(from))
            /\ Shuffled' = Shuffled \union {to}
  PROVE  Img!Next
BY DEF Img!Next, Img!Unchanged, Shuffled, MovedBytes

LEMMA NextRefines ==
  Size < Wrap /\ Core /\ Core' /\ Backed /\ [Next]_vars => [Img!Next]_<<Contents, Shuffled>>
<1> SUFFICES ASSUME Size < Wrap, Core, Core', Backed, [Next]_vars
             PROVE  [Img!Next]_<<Contents, Shuffled>>
  OBVIOUS
<1>0. misuse' = misuse => Shuffled' = Shuffled
  BY DEF Shuffled
<1>1. CASE Search
  BY <1>0, <1>1, ContentKept, Stutter DEF Search, In
<1>2. CASE Link
  <2>1. PICK l \in Lists : l = list /\ list' = list
    BY <1>2 DEF Link, Core, QueueSound
  <2>2. PICK n \in Nodes : n = new_bb /\ new_bb' = n
    BY <1>2 DEF Link, Core, QueueSound
  <2>3. /\ owner[n] = Fresh /\ bb' = bb /\ owner' = [owner EXCEPT ![n] = l] /\ Source(n) \in Sources
        /\ bb[n].len > 0 /\ End(n) <= Size /\ misuse[l] = "none"
    BY <1>2, <2>1, <2>2 DEF Link, Core, QueueSound, Backed
  <2>4. /\ In(l)' = In(l) \union {n} /\ n \notin In(l)
        /\ \A k \in Lists \ {l} : In(k)' = In(k)
    BY <2>3, ListAssumption DEF In, Core, TypeOK
  <2>5. \A k \in Lists \ {l} : Content(k)' = Content(k)
    BY <2>3, <2>4, ContentKept
  <2>6. PICK s \in Sources : s = Source(n)'
    BY <2>3 DEF Source
  <2>7. PICK start, len : start = Start(n)' /\ len = bb'[n].len
    OBVIOUS
  <2>8. bb'[n].len > 0 /\ End(n)' <= Size
    BY <2>3 DEF Start, End
  <2>9. /\ start \in Img!Bytes /\ len \in 1 .. Size
        /\ Img!Add(Content(l), Content(l)', start, len, s)
    BY <2>3, <2>4, <2>6, <2>7, <2>8, CellAdds DEF Core
  <2>10. \A k \in Lists : misuse'[k] = "moved_back" <=> misuse[k] = "moved_back"
    <3>1. \/ misuse' = misuse
          \/ misuse' = [misuse EXCEPT ![l] = "added_twice"]
      BY <1>2, <2>1 DEF Link, Core, TypeOK
    <3> QED BY <2>3, <3>1 DEF Core, TypeOK
  <2>11. Shuffled' = Shuffled
    BY <2>10 DEF Shuffled
  <2> QED BY <2>5, <2>9, <2>11, AddRefines
<1>3. CASE MergeNext
  <2>1. pc = "merge_next" /\ data_blocks' = data_blocks /\ misuse' = misuse
    BY <1>3 DEF MergeNext
  <2>2. list \in Lists /\ new_bb \in In(list)
    BY <2>1, MergeState
  <2>3. CASE CanMerge(new_bb, next[new_bb]) /\ Merge(new_bb, next[new_bb])
    <3>1. next[new_bb] \in In(list) /\ misuse[list] = "none"
      BY <2>1, <2>3, MergeState
    <3>2. \A k \in Lists : Content(k)' = Content(k)
      BY <2>1, <2>2, <2>3, <3>1, MergeContent
    <3> QED BY <1>0, <2>1, <3>2, Stutter
  <2>4. CASE UNCHANGED <<bb, next, owner>>
    BY <1>0, <2>1, <2>4, ContentKept, Stutter DEF In
  <2> QED BY <1>3, <2>3, <2>4 DEF MergeNext
<1>4. CASE MergePrev
  <2>1. pc = "merge_prev" /\ data_blocks' = data_blocks /\ misuse' = misuse
    BY <1>4 DEF MergePrev
  <2>2. list \in Lists /\ cur \in In(list) /\ new_bb \in In(list) /\ next[cur] = new_bb
    BY <2>1, MergeState
  <2>3. CASE CanMerge(cur, new_bb) /\ Merge(cur, new_bb)
    <3>1. misuse[list] = "none"
      BY <2>1, <2>3, MergeState
    <3>2. \A k \in Lists : Content(k)' = Content(k)
      BY <2>1, <2>2, <2>3, <3>1, MergeContent
    <3> QED BY <1>0, <2>1, <3>2, Stutter
  <2>4. CASE UNCHANGED <<bb, next, owner>>
    BY <1>0, <2>1, <2>4, ContentKept, Stutter DEF In
  <2> QED BY <1>4, <2>3, <2>4 DEF MergePrev
<1>5. ASSUME NEW l \in Lists, Add(l) PROVE [Img!Next]_<<Contents, Shuffled>>
  <2>1. PICK n \in Nodes, block \in 0 .. Blocks - 1, len \in Lens, s \in Sources :
          \/ AddFirst(l, n, block, len, s)
          \/ AddAtHead(l, n, block, len, s)
          \/ AddBehind(l, n, block, len, s)
    BY <1>5 DEF Add
  <2>2. Filled(l, n, block, len, s) /\ misuse' = misuse
    BY <2>1 DEF AddFirst, AddAtHead, AddBehind
  <2>3. /\ owner[n] = Free /\ \A m \in Nodes \ {n} : bb'[m] = bb[m]
        /\ bb'[n].type = s.type /\ bb'[n].src = s.src /\ bb'[n].off = s.off
        /\ bb'[n].block = block /\ bb'[n].len = len /\ block * BlockSize + len <= Size
    BY <2>2 DEF Filled, Core, TypeOK
  <2>4. \A k \in Lists : n \notin In(k) /\ \A m \in In(k) : bb'[m] = bb[m]
    BY <2>3, InFacts
  <2>5. CASE owner' = [owner EXCEPT ![n] = l]
    <3>1. In(l)' = In(l) \union {n} /\ \A k \in Lists \ {l} : In(k)' = In(k)
      BY <2>3, <2>5, ListAssumption DEF In, Core, TypeOK
    <3>2. \A k \in Lists \ {l} : Content(k)' = Content(k)
      BY <2>4, <3>1, ContentKept
    <3>3. Source(n)' = s
      BY <2>3, ListAssumption DEF Source
    <3>4. PICK start, size : start = Start(n)' /\ size = bb'[n].len
      OBVIOUS
    <3>5. bb'[n].len > 0 /\ End(n)' <= Size
      BY <2>3, ListAssumption DEF Start, End
    <3>6. /\ start \in Img!Bytes /\ size \in 1 .. Size
          /\ Img!Add(Content(l), Content(l)', start, size, s)
      BY <2>4, <3>1, <3>3, <3>4, <3>5, CellAdds DEF Core
    <3> QED BY <1>0, <2>2, <3>2, <3>6, AddRefines
  <2>6. CASE AddBehind(l, n, block, len, s)
    <3>1. \A k \in Lists : In(k)' = In(k)
      BY <2>3, <2>6, ListAssumption DEF AddBehind, In, Core, TypeOK
    <3> QED BY <1>0, <2>2, <2>4, <3>1, ContentKept, Stutter
  <2> QED BY <2>1, <2>5, <2>6 DEF AddFirst, AddAtHead
<1>6. ASSUME NEW l \in Lists, NEW n \in Nodes, NEW m \in Nodes, NEW max \in MaxLens,
             Split(l, n, m, max)
      PROVE  [Img!Next]_<<Contents, Shuffled>>
  <2>1. misuse' = misuse
    BY <1>6 DEF Split
  <2> QED BY <1>0, <1>6, <2>1, SplitContent, Stutter
<1>7. ASSUME NEW l \in Lists, NEW to \in Lists, NEW end \in Nodes, ListMove(l, to, end)
      PROVE  Img!Next
  BY <1>7, MoveContent, MoveOrder, MoveRefines
<1>8. ASSUME NEW l \in Lists, ListDestroy(l) PROVE Img!Next
  <2>1. /\ \A m \in Nodes : /\ owner'[m] = IF owner[m] = l THEN Free ELSE owner[m]
                            /\ owner[m] # l => bb'[m] = bb[m]
        /\ misuse' = [misuse EXCEPT ![l] = "none"]
    BY <1>8 DEF ListDestroy
  <2>2. In(l)' = {} /\ \A k \in Lists \ {l} : In(k)' = In(k) /\ \A m \in In(k) : bb'[m] = bb[m]
    BY <2>1, ListAssumption DEF In
  <2>3. Shuffled' = Shuffled \ {l}
    BY <2>1 DEF Shuffled, Core, TypeOK
  <2>4. Content(l)' = Img!Empty /\ \A k \in Lists \ {l} : Content(k)' = Content(k)
    BY <2>2, ContentKept, EmptyContent
  <2> QED BY <2>3, <2>4, DestroyRefines
<1>9. CASE UNCHANGED vars
  BY <1>0, <1>9, ContentKept, Stutter DEF vars, In
<1> QED BY <1>1, <1>2, <1>3, <1>4, <1>5, <1>6, <1>7, <1>8, <1>9 DEF Next

LEMMA InitRefines == Init => Img!Init /\ Backed
<1> SUFFICES ASSUME Init PROVE Img!Init /\ Backed
  OBVIOUS
<1>1. \A l \in Lists : In(l) = {} /\ misuse[l] = "none"
  BY ListAssumption DEF Init, In
<1>2. \A l \in Lists : Content(l) = Img!Empty
  BY <1>1, EmptyContent
<1>3. Img!Init
  BY <1>1, <1>2 DEF Img!Init
<1> QED BY <1>3 DEF Init, Backed

\* The lists implement the image that sparse.h promises: queueing with its
\* merges adds exactly the region it was given, beside what append2simg has
\* there already; a split changes nothing; and a move takes its bytes from one
\* image to the other, those before all that stays unless a failed counting
\* pass had put something back.
THEOREM ListsImplementImage == Size < Wrap => (Spec => Refines)
<1> SUFFICES ASSUME Size < Wrap PROVE Spec => Refines
  OBVIOUS
<1>1. Core /\ [Next]_vars => Core'
  BY NextCore
<1>2. Core /\ Core' /\ Backed /\ [Next]_vars => [Img!Next]_<<Contents, Shuffled>>
  BY NextRefines
<1> QED BY InitCore, InitRefines, NextBacked, <1>1, <1>2, PTL
        DEF Spec, Refines, Img!Spec, Img!vars, Contents, Shuffled

\* A merge joins two cells without changing a byte of any image.
THEOREM MergesKeepContents == Size < Wrap => (Spec => MergeKeepsContents)
<1> SUFFICES ASSUME Size < Wrap PROVE Spec => MergeKeepsContents
  OBVIOUS
<1>1. Core /\ [Next]_vars => Core'
  BY NextCore
<1>2. Core /\ Core' /\ Backed /\ [Next]_vars
        => [MergeNext \/ MergePrev => \A l \in Lists : Content(l)' = Content(l)]_vars
  <2> SUFFICES ASSUME Core, Core', Backed, MergeNext \/ MergePrev, NEW l \in Lists
               PROVE  Content(l)' = Content(l)
    OBVIOUS
  <2>1. pc \in {"merge_next", "merge_prev"} /\ data_blocks' = data_blocks /\ misuse' = misuse
    BY DEF MergeNext, MergePrev
  <2>2. list \in Lists /\ cur \in In(list) /\ new_bb \in In(list) /\ next[cur] = new_bb
    BY <2>1, MergeState
  <2>3. CASE CanMerge(new_bb, next[new_bb]) /\ Merge(new_bb, next[new_bb])
    <3>1. next[new_bb] \in In(list) /\ misuse[list] = "none"
      BY <2>1, <2>3, MergeState
    <3> QED BY <2>1, <2>2, <2>3, <3>1, MergeContent
  <2>4. CASE CanMerge(cur, new_bb) /\ Merge(cur, new_bb)
    <3>1. misuse[list] = "none"
      BY <2>1, <2>4, MergeState
    <3> QED BY <2>1, <2>2, <2>4, <3>1, MergeContent
  <2>5. CASE UNCHANGED <<bb, next, owner>>
    BY <2>5, ContentKept DEF In
  <2> QED BY <2>3, <2>4, <2>5 DEF MergeNext, MergePrev
<1> QED BY InitCore, InitRefines, NextBacked, <1>1, <1>2, PTL DEF Spec, MergeKeepsContents
=============================================================================
