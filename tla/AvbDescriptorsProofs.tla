------------------------ MODULE AvbDescriptorsProofs ------------------------
(***************************************************************************)
(* What the editor's lists of descriptors amount to, for every image:      *)
(* reading and writing is the identity, signing changes one digest, and    *)
(* packing replaces one descriptor, all in place.                          *)
(***************************************************************************)
EXTENDS AvbDescriptors, FiniteSetTheorems, TLAPS

-----------------------------------------------------------------------------
(* Counting along a total order.                                           *)

\* A total order on I, given by what comes up to each element.
TotalOrder(I, down) ==
  /\ down \in [I -> SUBSET I]
  /\ \A i \in I : i \in down[i]
  /\ \A i, j \in I : i \in down[j] => down[i] \subseteq down[j]
  /\ \A i, j \in I : i # j => (i \in down[j] <=> j \notin down[i])

\* Every element of I has its place, and every place its element.
Placed(I, down) ==
  /\ \A i \in I : Cardinality(down[i]) \in 1 .. Cardinality(I)
  /\ \A i, j \in I : Cardinality(down[i]) = Cardinality(down[j]) => i = j
  /\ \A n \in 1 .. Cardinality(I) : \E i \in I : Cardinality(down[i]) = n

\* In a finite set with a total order the elements have the places 1, 2 and so on.
LEMMA Ranking ==
  ASSUME NEW I, IsFiniteSet(I), NEW down, TotalOrder(I, down)
  PROVE  Placed(I, down)
<1> DEFINE place == [i \in I |-> Cardinality(down[i])]
<1> USE DEF TotalOrder
<1>0. Cardinality(I) \in Nat
  BY FS_CardinalityType
<1>1. \A i \in I : IsFiniteSet(down[i]) /\ Cardinality(down[i]) \in 1 .. Cardinality(I)
  <2> TAKE i \in I
  <2>1. IsFiniteSet(down[i]) /\ Cardinality(down[i]) <= Cardinality(I)
    BY FS_Subset
  <2>2. Cardinality(down[i]) \in Nat /\ Cardinality(down[i]) # 0
    BY <2>1, FS_CardinalityType, FS_EmptySet
  <2> QED
    BY <1>0, <2>1, <2>2
<1>2. \A i, j \in I : i # j /\ i \in down[j] => Cardinality(down[i]) # Cardinality(down[j])
  <2> SUFFICES ASSUME NEW i \in I, NEW j \in I, i # j, i \in down[j],
                      Cardinality(down[i]) = Cardinality(down[j])
               PROVE  FALSE
    OBVIOUS
  <2>1. down[i] \in SUBSET down[j]
    OBVIOUS
  <2>2. down[j] = down[i]
    BY <1>1, <2>1, FS_Subset
  <2> QED
    BY <2>2
<1>3. \A i, j \in I : Cardinality(down[i]) = Cardinality(down[j]) => i = j
  BY <1>2
<1>4. place \in Injection(I, 1 .. Cardinality(I))
  BY <1>1, <1>3 DEF Injection, IsInjective
<1>5. IsFiniteSet(1 .. Cardinality(I)) /\ Cardinality(1 .. Cardinality(I)) = Cardinality(I)
  BY <1>0, FS_Interval
<1>6. place \in Surjection(I, 1 .. Cardinality(I))
  BY <1>4, <1>5, FS_Injection
<1>7. \A n \in 1 .. Cardinality(I) : \E i \in I : Cardinality(down[i]) = n
  BY <1>6 DEF Surjection
<1> QED
  BY <1>1, <1>3, <1>7 DEF Placed

\* Nth() and Rank() of a finite set of numbers are inverse to each other, and
\* keep the order.
LEMMA NthRank ==
  ASSUME NEW I \in SUBSET Nat, IsFiniteSet(I)
  PROVE  /\ Cardinality(I) \in Nat
         /\ \A n \in 1 .. Cardinality(I) : Nth(I, n) \in I /\ Rank(I, Nth(I, n)) = n
         /\ \A i \in I : Rank(I, i) \in 1 .. Cardinality(I) /\ Nth(I, Rank(I, i)) = i
<1> DEFINE down == [i \in I |-> {j \in I : j <= i}]
<1>0. Cardinality(I) \in Nat
  BY FS_CardinalityType
<1>a. down \in [I -> SUBSET I]
  OBVIOUS
<1>b. \A i, j \in I : i \in down[j] <=> i <= j
  OBVIOUS
<1>c. \A j \in I : \A x \in down[j] : x \in I
  OBVIOUS
<1>d. \A i \in I : i \in Nat
  OBVIOUS
<1> HIDE DEF down
<1>1. \A i, j \in I : i \in down[j] => down[i] \subseteq down[j]
  <2>1. ASSUME NEW i \in I, NEW j \in I, i \in down[j]
        PROVE  down[i] \subseteq down[j]
    <3> SUFFICES ASSUME NEW x \in down[i] PROVE x \in down[j]
      OBVIOUS
    <3>1. x \in I /\ x <= i /\ i <= j
      BY <1>b, <1>c, <2>1
    <3>2. x \in Nat /\ i \in Nat /\ j \in Nat
      BY <1>d, <3>1
    <3>3. x <= j
      BY <3>1, <3>2
    <3> QED
      BY <1>b, <3>1, <3>3
  <2> QED
    BY <2>1
<1>e. \A i, j \in I : i # j => (i \in down[j] <=> j \notin down[i])
  BY <1>b, <1>d
<1>f. \A i \in I : i \in down[i]
  BY <1>b, <1>d
<1>2. /\ \A i \in I : Cardinality(down[i]) \in 1 .. Cardinality(I)
      /\ \A i, j \in I : Cardinality(down[i]) = Cardinality(down[j]) => i = j
      /\ \A n \in 1 .. Cardinality(I) : \E i \in I : Cardinality(down[i]) = n
  <2>1. TotalOrder(I, down)
    BY <1>a, <1>1, <1>e, <1>f DEF TotalOrder
  <2>2. Placed(I, down)
    BY <2>1, Ranking
  <2> QED
    BY <2>2 DEF Placed
<1>3. \A i \in I : Rank(I, i) = Cardinality(down[i])
  BY DEF Rank, down
<1>4. \A n \in 1 .. Cardinality(I) : \E i \in I : Rank(I, i) = n
  BY <1>2, <1>3
<1>5. \A n \in 1 .. Cardinality(I) : Nth(I, n) \in I /\ Rank(I, Nth(I, n)) = n
  BY <1>4 DEF Nth
<1>6. \A i \in I : Rank(I, i) \in 1 .. Cardinality(I) /\ Nth(I, Rank(I, i)) = i
  <2> TAKE i \in I
  <2>1. Rank(I, i) \in 1 .. Cardinality(I)
    BY <1>2, <1>3
  <2>2. Nth(I, Rank(I, i)) \in I /\ Rank(I, Nth(I, Rank(I, i))) = Rank(I, i)
    BY <1>5, <2>1
  <2> QED
    BY <1>2, <1>3, <2>1, <2>2
<1> QED
  BY <1>0, <1>5, <1>6

LEMMA RankOrder ==
  ASSUME NEW I \in SUBSET Nat, IsFiniteSet(I), NEW i \in I, NEW j \in I, i < j
  PROVE  Rank(I, i) < Rank(I, j)
<1> DEFINE A == {x \in I : x <= i}
           B == {x \in I : x <= j}
<1>1. A \in SUBSET B /\ B # A
  <2>1. j \in B /\ j \notin A
    OBVIOUS
  <2>2. ASSUME NEW x \in A PROVE x \in B
    <3>1. x \in Nat /\ i \in Nat /\ j \in Nat /\ x <= i
      OBVIOUS
    <3>2. x <= j
      BY <3>1
    <3> QED
      BY <3>2
  <2> QED
    BY <2>1, <2>2
<1>2. IsFiniteSet(B)
  BY FS_Subset
<1>3. Cardinality(A) <= Cardinality(B) /\ Cardinality(A) # Cardinality(B)
  <2> HIDE DEF A, B
  <2> QED
    BY <1>1, <1>2, FS_Subset
<1>4. IsFiniteSet(A) /\ Cardinality(A) \in Nat /\ Cardinality(B) \in Nat
  BY FS_Subset, FS_CardinalityType, <1>2
<1> QED
  BY <1>3, <1>4 DEF Rank

LEMMA NthOrder ==
  ASSUME NEW I \in SUBSET Nat, IsFiniteSet(I),
         NEW m \in 1 .. Cardinality(I), NEW n \in 1 .. Cardinality(I), m < n
  PROVE  Nth(I, m) < Nth(I, n)
<1>1. /\ Nth(I, m) \in I /\ Nth(I, n) \in I
      /\ Rank(I, Nth(I, m)) = m /\ Rank(I, Nth(I, n)) = n
      /\ Cardinality(I) \in Nat
  BY NthRank
<1>2. CASE Nth(I, n) < Nth(I, m)
  <2>1. Rank(I, Nth(I, n)) < Rank(I, Nth(I, m))
    BY <1>1, <1>2, RankOrder
  <2> QED
    BY <1>1, <2>1
<1>3. CASE Nth(I, n) = Nth(I, m)
  BY <1>1, <1>3
<1>4. Nth(I, m) \in Nat /\ Nth(I, n) \in Nat
  BY <1>1
<1> QED
  BY <1>2, <1>3, <1>4

\* The n-th number of an interval.
LEMMA NthInterval ==
  ASSUME NEW a \in {0, 1}, NEW b \in Nat
  PROVE  /\ Cardinality(a .. b) = b - a + 1
         /\ \A n \in 1 .. b - a + 1 : Nth(a .. b, n) = n + a - 1
<1>1. IsFiniteSet(a .. b) /\ Cardinality(a .. b) = b - a + 1
  BY FS_Interval
<1>2. ASSUME NEW n \in 1 .. b - a + 1
      PROVE  Nth(a .. b, n) = n + a - 1
  <2>1. n + a - 1 \in a .. b
    OBVIOUS
  <2>2. {j \in a .. b : j <= n + a - 1} = a .. n + a - 1
    OBVIOUS
  <2>3. Rank(a .. b, n + a - 1) = n
    <3>1. n + a - 1 \in Int /\ a \in Int /\ ~(a > n + a - 1) /\ n + a - 1 - a + 1 = n
      OBVIOUS
    <3>2. Cardinality(a .. n + a - 1) = n
      BY <3>1, FS_Interval
    <3> QED
      BY <2>2, <3>2 DEF Rank
  <2>4. Nth(a .. b, Rank(a .. b, n + a - 1)) = n + a - 1
    BY <1>1, <2>1, NthRank
  <2> QED
    BY <2>3, <2>4
<1> QED
  BY <1>1, <1>2

\* The sequence w holds what s has at the places in I, each once and in order.
Picks(w, s, I, S) ==
  /\ w \in Seq(S) /\ Len(w) = Cardinality(I) /\ Cardinality(I) \in Nat
  /\ \A n \in DOMAIN w : Nth(I, n) \in I /\ w[n] = s[Nth(I, n)]
  /\ \A m, n \in DOMAIN w : m < n => Nth(I, m) < Nth(I, n)
  /\ \A i \in I : /\ Rank(I, i) \in DOMAIN w /\ Nth(I, Rank(I, i)) = i
                  /\ w[Rank(I, i)] = s[i]

\* At() is such a sequence.
LEMMA AtProperties ==
  ASSUME NEW S, NEW I \in SUBSET Nat, IsFiniteSet(I), NEW s, \A i \in I : s[i] \in S
  PROVE  Picks(At(s, I), s, I, S)
<1>1. Cardinality(I) \in Nat /\ \A n \in 1 .. Cardinality(I) : Nth(I, n) \in I
  BY NthRank
<1>2. \A i \in I : Rank(I, i) \in 1 .. Cardinality(I) /\ Nth(I, Rank(I, i)) = i
  BY NthRank
<1>3. \A m, n \in 1 .. Cardinality(I) : m < n => Nth(I, m) < Nth(I, n)
  BY NthOrder
<1>4. DOMAIN At(s, I) = 1 .. Cardinality(I)
  BY DEF At
<1>5. \A n \in 1 .. Cardinality(I) : At(s, I)[n] = s[Nth(I, n)]
  BY DEF At
<1>6. At(s, I) \in [1 .. Cardinality(I) -> S]
  BY <1>1 DEF At
<1>7. At(s, I) \in Seq(S) /\ Len(At(s, I)) = Cardinality(I)
  BY <1>1, <1>6
<1> QED
  BY <1>1, <1>2, <1>3, <1>4, <1>5, <1>7 DEF Picks
-----------------------------------------------------------------------------
(* Lists of numbered descriptors.                                          *)

Entry(D) == [desc : D, sequence : Nat]

\* The list s holds, in some order, the descriptors c[i] with their numbers i
\* in K, each once.
Numbered(s, K, c, D) ==
  /\ s \in Seq(Entry(D))
  /\ \A i \in DOMAIN s : s[i].sequence \in K /\ s[i].desc = c[s[i].sequence]
  /\ \A i, j \in DOMAIN s : s[i].sequence = s[j].sequence => i = j
  /\ \A n \in K : \E i \in DOMAIN s : s[i].sequence = n

LEMMA ConcatNumbered ==
  ASSUME NEW D, NEW c, NEW s, NEW K, NEW u, NEW M,
         Numbered(s, K, c, D), Numbered(u, M, c, D), K \intersect M = {}
  PROVE  Numbered(s \o u, K \union M, c, D)
<1> DEFINE E == Entry(D)
           w == s \o u
           L == Len(s)
           P == Len(u)
<1>0. s \in Seq(E) /\ u \in Seq(E) /\ L \in Nat /\ P \in Nat /\ DOMAIN s = 1 .. L /\ DOMAIN u = 1 .. P
  BY DEF Numbered
<1>1. /\ w \in Seq(E) /\ DOMAIN w = 1 .. L + P
      /\ \A i \in 1 .. L : w[i] = s[i]
      /\ \A i \in L + 1 .. L + P : w[i] = u[i - L]
  <2> HIDE DEF E
  <2> QED
    BY <1>0
<1>2. /\ \A i \in 1 .. L : s[i].sequence \in K /\ s[i].desc = c[s[i].sequence]
      /\ \A i \in 1 .. P : u[i].sequence \in M /\ u[i].desc = c[u[i].sequence]
      /\ \A i, j \in 1 .. L : s[i].sequence = s[j].sequence => i = j
      /\ \A i, j \in 1 .. P : u[i].sequence = u[j].sequence => i = j
      /\ \A n \in K : \E i \in 1 .. L : s[i].sequence = n
      /\ \A n \in M : \E i \in 1 .. P : u[i].sequence = n
  BY <1>0 DEF Numbered
<1> HIDE DEF w, L, P
<1>3. ASSUME NEW i \in 1 .. L + P
      PROVE  \/ i \in 1 .. L /\ w[i] = s[i]
             \/ i - L \in 1 .. P /\ w[i] = u[i - L] /\ i = (i - L) + L
  BY <1>0, <1>1
<1>4. \A i \in 1 .. L + P : w[i].sequence \in K \union M /\ w[i].desc = c[w[i].sequence]
  BY <1>2, <1>3
<1>5. ASSUME NEW i \in 1 .. L + P, NEW j \in 1 .. L + P, w[i].sequence = w[j].sequence
      PROVE  i = j
  <2>1. CASE i \in 1 .. L /\ w[i] = s[i]
    BY <1>2, <1>3, <1>5, <2>1
  <2>2. CASE i - L \in 1 .. P /\ w[i] = u[i - L] /\ i = (i - L) + L
    BY <1>2, <1>3, <1>5, <2>2
  <2> QED
    BY <1>3, <2>1, <2>2
<1>6. ASSUME NEW n \in K PROVE \E i \in 1 .. L + P : w[i].sequence = n
  BY <1>0, <1>1, <1>2
<1>7. ASSUME NEW n \in M PROVE \E i \in 1 .. L + P : w[i].sequence = n
  <2>1. PICK i \in 1 .. P : u[i].sequence = n
    BY <1>2
  <2>2. i + L \in L + 1 .. L + P /\ (i + L) - L = i /\ i + L \in 1 .. L + P
    BY <1>0
  <2>3. w[i + L] = u[i]
    BY <1>1, <2>2
  <2> QED
    BY <2>1, <2>2, <2>3
<1>8. /\ w \in Seq(Entry(D)) /\ DOMAIN w = 1 .. L + P
  BY <1>1
<1> QED
  BY <1>4, <1>5, <1>6, <1>7, <1>8 DEF Numbered, w

\* Writing such a list in the order of its numbers.
LEMMA SortedNumbered ==
  ASSUME NEW D, NEW c, NEW s, NEW K \in SUBSET Nat, Numbered(s, K, c, D)
  PROVE  /\ IsFiniteSet(K)
         /\ [n \in DOMAIN s |-> SortBySequence(s)[n].desc] = At(c, K)
<1> DEFINE N == Len(s)
           number == [i \in 1 .. N |-> s[i].sequence]
<1>0. N \in Nat /\ DOMAIN s = 1 .. N
  BY DEF Numbered
<1>1. /\ \A i \in 1 .. N : s[i].sequence \in K /\ s[i].desc = c[s[i].sequence]
      /\ \A i, j \in 1 .. N : s[i].sequence = s[j].sequence => i = j
      /\ \A n \in K : \E i \in 1 .. N : s[i].sequence = n
  BY <1>0 DEF Numbered
<1>2. number \in Bijection(1 .. N, K)
  <2>1. number \in [1 .. N -> K]
    BY <1>1
  <2>2. \A i, j \in 1 .. N : number[i] = number[j] => i = j
    BY <1>1
  <2>3. \A n \in K : \E i \in 1 .. N : number[i] = n
    BY <1>1
  <2> HIDE DEF number
  <2> QED
    BY <2>1, <2>2, <2>3 DEF Bijection, Injection, Surjection, IsInjective
<1>3. IsFiniteSet(1 .. N) /\ Cardinality(1 .. N) = N
  BY <1>0, FS_Interval
<1>4. IsFiniteSet(K) /\ Cardinality(K) = N
  <2>1. ExistsBijection(1 .. N, K)
    BY <1>2 DEF ExistsBijection
  <2> QED
    BY <1>3, <2>1, FS_Bijection
<1>5. ASSUME NEW j \in 1 .. N
      PROVE  Place(s, j) = Rank(K, s[j].sequence)
  <2> DEFINE A == {i \in DOMAIN s : \/ s[i].sequence < s[j].sequence
                                    \/ s[i].sequence = s[j].sequence /\ i <= j}
             B == {x \in K : x <= s[j].sequence}
             f == [i \in A |-> s[i].sequence]
  <2>0. \A i \in 1 .. N : s[i].sequence \in Nat
    BY <1>1
  <2>1. \A i \in 1 .. N : i \in A <=> s[i].sequence <= s[j].sequence
    <3> TAKE i \in 1 .. N
    <3>1. s[i].sequence = s[j].sequence => i = j
      BY <1>1
    <3>2. s[i].sequence \in Nat /\ s[j].sequence \in Nat
      BY <2>0
    <3> QED
      BY <1>0, <3>1, <3>2
  <2>2. A \in SUBSET (1 .. N)
    BY <1>0
  <2>3. \A x : x \in B <=> x \in K /\ x <= s[j].sequence
    OBVIOUS
  <2>4. f \in [A -> B]
    <3> SUFFICES ASSUME NEW i \in A PROVE s[i].sequence \in B
      OBVIOUS
    <3> HIDE DEF A, B
    <3> QED
      BY <1>1, <2>1, <2>2, <2>3
  <2>5. \A i, k \in A : f[i] = f[k] => i = k
    <3> HIDE DEF A, B
    <3> QED
      BY <1>1, <2>2
  <2>6. \A x \in B : \E i \in A : f[i] = x
    <3> HIDE DEF A, B
    <3> TAKE x \in B
    <3>1. PICK i \in 1 .. N : s[i].sequence = x
      BY <1>1, <2>3
    <3>2. i \in A
      BY <2>1, <2>3, <3>1
    <3> QED
      BY <3>1, <3>2
  <2>7. ExistsBijection(A, B)
    <3> HIDE DEF A, B, f
    <3>1. f \in Bijection(A, B)
      BY <2>4, <2>5, <2>6 DEF Bijection, Injection, Surjection, IsInjective
    <3> QED
      BY <3>1 DEF ExistsBijection
  <2>8. IsFiniteSet(A)
    BY <1>3, <2>2, FS_Subset
  <2>9. Cardinality(A) = Cardinality(B)
    <3> HIDE DEF A, B
    <3> QED
      BY <2>7, <2>8, FS_Bijection
  <2> QED
    BY <2>9 DEF Place, Rank
<1>6. ASSUME NEW n \in 1 .. N
      PROVE  SortBySequence(s)[n].desc = At(c, K)[n]
  <2>1. Nth(K, n) \in K /\ Rank(K, Nth(K, n)) = n
    BY <1>4, NthRank
  <2>2. PICK j \in 1 .. N : s[j].sequence = Nth(K, n)
    BY <1>1, <2>1
  <2>3. Place(s, j) = n
    BY <1>5, <2>1, <2>2
  <2> DEFINE m == CHOOSE i \in DOMAIN s : Place(s, i) = n
  <2>4. m \in 1 .. N /\ Place(s, m) = n
    BY <1>0, <2>3
  <2> HIDE DEF m
  <2>5. s[m].sequence \in K /\ Rank(K, s[m].sequence) = n
    BY <1>1, <1>5, <2>4
  <2>6. Nth(K, Rank(K, s[m].sequence)) = s[m].sequence
    BY <1>4, <2>5, NthRank
  <2>7. s[m].desc = c[Nth(K, n)]
    BY <1>1, <2>4, <2>5, <2>6
  <2>8. SortBySequence(s)[n] = s[m]
    BY <1>0 DEF SortBySequence, m
  <2>9. At(c, K)[n] = c[Nth(K, n)]
    BY <1>4 DEF At
  <2> QED
    BY <2>7, <2>8, <2>9
<1>7. DOMAIN At(c, K) = 1 .. N
  BY <1>4 DEF At
<1>8. At(c, K) = [n \in 1 .. N |-> At(c, K)[n]]
  BY <1>4 DEF At
<1> QED
  BY <1>0, <1>4, <1>6, <1>8

\* Leaving out some of such a list.
LEMMA SublistNumbered ==
  ASSUME NEW D, NEW c, NEW s, NEW K, Numbered(s, K, c, D),
         NEW J \in SUBSET DOMAIN s, NEW M,
         \A j \in J : s[j].sequence \in M, \A n \in M : \E j \in J : s[j].sequence = n
  PROVE  Numbered(At(s, J), M, c, D)
<1> DEFINE E == Entry(D)
           N == Len(s)
           w == At(s, J)
<1>0. N \in Nat /\ DOMAIN s = 1 .. N /\ s \in Seq(E)
  BY DEF Numbered
<1>1. /\ \A i \in 1 .. N : s[i].sequence \in K /\ s[i].desc = c[s[i].sequence]
      /\ \A i, j \in 1 .. N : s[i].sequence = s[j].sequence => i = j
  BY <1>0 DEF Numbered
<1>2. J \in SUBSET Nat /\ IsFiniteSet(J) /\ \A i \in J : s[i] \in E /\ i \in 1 .. N
  <2>1. IsFiniteSet(1 .. N)
    BY <1>0, FS_Interval
  <2>2. \A i \in 1 .. N : s[i] \in E
    <3> HIDE DEF E
    <3> QED
      BY <1>0
  <2> QED
    BY <1>0, <2>1, <2>2, FS_Subset
<1>3. /\ w \in Seq(E)
      /\ \A n \in DOMAIN w : Nth(J, n) \in J /\ w[n] = s[Nth(J, n)]
      /\ \A m, n \in DOMAIN w : m < n => Nth(J, m) < Nth(J, n)
      /\ \A i \in J : Rank(J, i) \in DOMAIN w /\ w[Rank(J, i)] = s[i]
  <2> HIDE DEF E
  <2>1. \A i \in J : s[i] \in E
    BY <1>2
  <2>2. Picks(At(s, J), s, J, E)
    BY <1>2, <2>1, AtProperties
  <2> QED
    BY <2>2 DEF Picks
<1>4. DOMAIN w \in SUBSET Nat
  <2> HIDE DEF E, w
  <2> QED
    BY <1>3
<1>5. \A n \in DOMAIN w : Nth(J, n) \in 1 .. N
  BY <1>2, <1>3
<1> HIDE DEF w, N
<1>6. ASSUME NEW m \in DOMAIN w, NEW n \in DOMAIN w, w[m].sequence = w[n].sequence
      PROVE  m = n
  <2>1. Nth(J, m) = Nth(J, n)
    BY <1>1, <1>3, <1>5, <1>6
  <2>2. Nth(J, m) \in Nat /\ m \in Nat /\ n \in Nat
    BY <1>0, <1>4, <1>5
  <2> QED
    BY <1>3, <2>1, <2>2
<1>7. \A n \in DOMAIN w : w[n].sequence \in M /\ w[n].desc = c[w[n].sequence]
  BY <1>1, <1>3, <1>5
<1>8. \A n \in M : \E i \in DOMAIN w : w[i].sequence = n
  BY <1>3
<1> QED
  BY <1>3, <1>6, <1>7, <1>8 DEF Numbered, w

\* What the list is compared with matters only at its numbers.
LEMMA NumberedElsewhere ==
  ASSUME NEW D, NEW c, NEW s, NEW K, Numbered(s, K, c, D),
         NEW G, D \subseteq G, NEW b, \A i \in K : b[i] = c[i]
  PROVE  Numbered(s, K, b, G)
<1>1. s \in Seq(Entry(G))
  <2>1. Entry(D) \subseteq Entry(G)
    BY DEF Entry
  <2>2. s \in Seq(Entry(D))
    BY DEF Numbered
  <2>3. Len(s) \in Nat /\ DOMAIN s = 1 .. Len(s) /\ \A i \in 1 .. Len(s) : s[i] \in Entry(D)
    BY <2>2
  <2>4. s = [i \in 1 .. Len(s) |-> s[i]]
    BY <2>2
  <2>5. s \in [1 .. Len(s) -> Entry(G)]
    BY <2>1, <2>3, <2>4
  <2> QED
    BY <2>3, <2>5
<1> QED
  BY <1>1 DEF Numbered

LEMMA OneNumbered ==
  ASSUME NEW D, NEW d \in D, NEW n \in Nat, NEW c, c[n] = d
  PROVE  Numbered(<<[desc |-> d, sequence |-> n]>>, {n}, c, D)
<1> DEFINE e == [desc |-> d, sequence |-> n]
<1>1. e \in Entry(D) /\ e.sequence = n /\ e.desc = d
  BY DEF Entry
<1> HIDE DEF e
<1>2. <<e>> \in Seq(Entry(D)) /\ DOMAIN <<e>> = {1} /\ <<e>>[1] = e
  BY <1>1
<1>3. Numbered(<<e>>, {n}, c, D)
  BY <1>1, <1>2 DEF Numbered
<1> QED
  BY <1>3 DEF e

\* Lists by tag that share no number.
Lists(aux, K, c, D) ==
  /\ K \in [Tags -> SUBSET Nat]
  /\ \A t \in Tags : Numbered(aux[t], K[t], c, D)
  /\ \A t, v \in Tags : t # v => K[t] \intersect K[v] = {}

Together(K) == UNION {K[t] : t \in Tags}

\* encodeDescriptors() of such lists.
LEMMA EncodeNumbered ==
  ASSUME NEW D, NEW c, NEW aux, NEW K, Lists(aux, K, c, D)
  PROVE  EncodeDescriptors(aux) = At(c, Together(K))
<1> DEFINE a2 == aux["property"] \o aux["hashtree"]
           k2 == K["property"] \union K["hashtree"]
           a3 == a2 \o aux["hash"]
           k3 == k2 \union K["hash"]
           a4 == a3 \o aux["cmdline"]
           k4 == k3 \union K["cmdline"]
           a5 == a4 \o aux["chain"]
           k5 == k4 \union K["chain"]
           a6 == a5 \o aux["unknown"]
           k6 == k5 \union K["unknown"]
<1> USE DEF Lists
<1>0. {"property", "hashtree", "hash", "cmdline", "chain", "unknown"} = Tags
  BY DEF Tags
<1>1. /\ Numbered(aux["property"], K["property"], c, D) /\ Numbered(aux["hashtree"], K["hashtree"], c, D)
      /\ Numbered(aux["hash"], K["hash"], c, D) /\ Numbered(aux["cmdline"], K["cmdline"], c, D)
      /\ Numbered(aux["chain"], K["chain"], c, D) /\ Numbered(aux["unknown"], K["unknown"], c, D)
  BY <1>0
<1>2. /\ K["property"] \intersect K["hashtree"] = {} /\ k2 \intersect K["hash"] = {}
      /\ k3 \intersect K["cmdline"] = {} /\ k4 \intersect K["chain"] = {} /\ k5 \intersect K["unknown"] = {}
  <2>1. \A t, v \in Tags : t # v => \A x : ~(x \in K[t] /\ x \in K[v])
    OBVIOUS
  <2>2. \A v \in {"hashtree", "hash", "cmdline", "chain", "unknown"} : K["property"] \intersect K[v] = {}
    BY <1>0
  <2>3. \A v \in {"hash", "cmdline", "chain", "unknown"} : K["hashtree"] \intersect K[v] = {}
    BY <1>0
  <2>4. \A v \in {"cmdline", "chain", "unknown"} : K["hash"] \intersect K[v] = {}
    BY <1>0
  <2>5. \A v \in {"chain", "unknown"} : K["cmdline"] \intersect K[v] = {}
    BY <1>0
  <2>6. K["chain"] \intersect K["unknown"] = {}
    BY <1>0
  <2> QED
    BY <2>2, <2>3, <2>4, <2>5, <2>6
<1>3. Numbered(a2, k2, c, D)
  BY <1>1, <1>2, ConcatNumbered
<1>4. Numbered(a3, k3, c, D)
  <2> HIDE DEF a2, k2
  <2> QED
    BY <1>1, <1>2, <1>3, ConcatNumbered
<1>5. Numbered(a4, k4, c, D)
  <2> HIDE DEF a3, k3
  <2> QED
    BY <1>1, <1>2, <1>4, ConcatNumbered
<1>6. Numbered(a5, k5, c, D)
  <2> HIDE DEF a4, k4
  <2> QED
    BY <1>1, <1>2, <1>5, ConcatNumbered
<1>7. Numbered(a6, k6, c, D)
  <2> HIDE DEF a5, k5
  <2> QED
    BY <1>1, <1>2, <1>6, ConcatNumbered
<1>8. k6 = Together(K)
  <2>1. Together(K)
          = UNION {K["property"], K["hashtree"], K["hash"], K["cmdline"], K["chain"], K["unknown"]}
    BY <1>0 DEF Together
  <2> QED
    BY <2>1
<1>9. k6 \in SUBSET Nat
  BY <1>0
<1>10. [n \in DOMAIN a6 |-> SortBySequence(a6)[n].desc] = At(c, k6)
  <2> HIDE DEF a6, k6
  <2> QED
    BY <1>7, <1>9, SortedNumbered
<1>11. EncodeDescriptors(aux) = [n \in DOMAIN a6 |-> SortBySequence(a6)[n].desc]
  BY DEF EncodeDescriptors
<1> HIDE DEF a6, k6
<1> QED
  BY <1>8, <1>10, <1>11
-----------------------------------------------------------------------------
(* Reading and writing.                                                    *)

\* The descriptors of an image, of any kind that the editor has a list for.
Descriptors(D) == \A d \in D : d.tag \in Tags

OfTag(ds, t) == {i \in DOMAIN ds : ds[i].tag = t}

\* The list for the tag t that parseVbMeta() makes.
LEMMA AuxBlobList ==
  ASSUME NEW D, NEW ds \in Seq(D), NEW t \in Tags
  PROVE  LET l == AuxBlob(ds)[t]
             I == OfTag(ds, t)
         IN /\ I \in SUBSET (1 .. Len(ds)) /\ I \in SUBSET Nat /\ IsFiniteSet(I)
            /\ Numbered(l, I, ds, D)
            /\ \A n \in DOMAIN l : /\ Nth(I, n) \in I
                                   /\ l[n] = [desc |-> ds[Nth(I, n)], sequence |-> Nth(I, n)]
            /\ \A m, n \in DOMAIN l : m < n => Nth(I, m) < Nth(I, n)
            /\ \A i \in I : Rank(I, i) \in DOMAIN l /\ Nth(I, Rank(I, i)) = i
            /\ DOMAIN l = 1 .. Cardinality(I) /\ Cardinality(I) \in Nat
<1> DEFINE I == OfTag(ds, t)
           numbered == [i \in DOMAIN ds |-> [desc |-> ds[i], sequence |-> i]]
           l == At(numbered, I)
           N == Len(ds)
<1>0. N \in Nat /\ DOMAIN ds = 1 .. N /\ \A i \in 1 .. N : ds[i] \in D
  OBVIOUS
<1>1. AuxBlob(ds)[t] = l
  BY DEF AuxBlob, OfTag
<1>2. I \in SUBSET (1 .. N) /\ I \in SUBSET Nat /\ IsFiniteSet(I)
  <2>1. IsFiniteSet(1 .. N)
    BY <1>0, FS_Interval
  <2>2. I \in SUBSET (1 .. N) /\ I \in SUBSET Nat
    BY <1>0 DEF OfTag
  <2> QED
    BY <2>1, <2>2, FS_Subset
<1>3. /\ DOMAIN numbered = 1 .. N
      /\ \A i \in 1 .. N : numbered[i] = [desc |-> ds[i], sequence |-> i]
      /\ \A i \in 1 .. N : numbered[i] \in Entry(D)
      /\ numbered \in Seq(Entry(D))
  <2>1. \A i \in 1 .. N : [desc |-> ds[i], sequence |-> i] \in Entry(D)
    BY <1>0 DEF Entry
  <2>2. numbered \in [1 .. N -> Entry(D)]
    BY <1>0, <2>1
  <2> QED
    BY <1>0, <2>1, <2>2
<1> HIDE DEF numbered, I, N
<1>4. Numbered(numbered, 1 .. N, ds, D)
  BY <1>3 DEF Numbered
<1>5. Numbered(l, I, ds, D)
  <2>1. \A i \in I : i \in 1 .. N /\ numbered[i].sequence = i
    BY <1>2, <1>3
  <2>2. I \in SUBSET DOMAIN numbered
    BY <1>2, <1>3
  <2>3. \A i \in I : numbered[i].sequence \in I
    BY <2>1
  <2>4. \A n \in I : \E i \in I : numbered[i].sequence = n
    BY <2>1
  <2> QED
    BY <1>4, <2>2, <2>3, <2>4, SublistNumbered
<1>6. Picks(l, numbered, I, Entry(D))
  <2>1. \A i \in I : numbered[i] \in Entry(D)
    BY <1>2, <1>3
  <2> QED
    BY <1>2, <2>1, AtProperties
<1> HIDE DEF l
<1>7. /\ \A n \in DOMAIN l : Nth(I, n) \in I /\ l[n] = numbered[Nth(I, n)]
      /\ \A m, n \in DOMAIN l : m < n => Nth(I, m) < Nth(I, n)
      /\ \A i \in I : Rank(I, i) \in DOMAIN l /\ Nth(I, Rank(I, i)) = i
      /\ l \in Seq(Entry(D)) /\ Len(l) = Cardinality(I) /\ Cardinality(I) \in Nat
  BY <1>6 DEF Picks
<1>8. DOMAIN l = 1 .. Cardinality(I)
  BY <1>7
<1>9. \A n \in DOMAIN l : l[n] = [desc |-> ds[Nth(I, n)], sequence |-> Nth(I, n)]
  BY <1>2, <1>3, <1>7
<1> QED
  BY <1>1, <1>2, <1>5, <1>7, <1>8, <1>9 DEF I, N

\* Taking all of a sequence.
LEMMA AtAll ==
  ASSUME NEW D, NEW ds \in Seq(D)
  PROVE  At(ds, 1 .. Len(ds)) = ds
<1> DEFINE N == Len(ds)
<1>1. Cardinality(1 .. N) = N /\ \A n \in 1 .. N : Nth(1 .. N, n) = n
  <2>1. N \in Nat /\ N - 1 + 1 = N /\ \A n \in 1 .. N : n + 1 - 1 = n
    OBVIOUS
  <2> HIDE DEF N
  <2> QED
    BY <2>1, NthInterval
<1>2. ds = [n \in 1 .. N |-> ds[n]]
  OBVIOUS
<1> QED
  BY <1>1, <1>2 DEF At

\* parseVbMeta() and encodeDescriptors() are inverse to each other: reading a
\* vbmeta image and writing it again leaves its descriptors as they were, in
\* particular the order of descriptors of different types.
THEOREM RoundTrips ==
  ASSUME NEW D, Descriptors(D), NEW ds \in Seq(D)
  PROVE  EncodeDescriptors(AuxBlob(ds)) = ds
<1> DEFINE K == [t \in Tags |-> OfTag(ds, t)]
<1>0. DOMAIN ds = 1 .. Len(ds) /\ \A i \in 1 .. Len(ds) : ds[i].tag \in Tags
  BY DEF Descriptors
<1>1. K \in [Tags -> SUBSET Nat]
  <2>1. \A t \in Tags : OfTag(ds, t) \in SUBSET Nat
    BY AuxBlobList
  <2> QED
    BY <2>1
<1>2. \A t \in Tags : Numbered(AuxBlob(ds)[t], K[t], ds, D)
  BY AuxBlobList
<1>3. \A t, v \in Tags : t # v => K[t] \intersect K[v] = {}
  BY DEF OfTag
<1>4. Together(K) = 1 .. Len(ds)
  <2>1. \A i : i \in Together(K) <=> \E t \in Tags : i \in K[t]
    BY DEF Together
  <2>2. \A i \in 1 .. Len(ds) : i \in K[ds[i].tag]
    BY <1>0 DEF OfTag
  <2>3. \A t \in Tags : K[t] \subseteq 1 .. Len(ds)
    BY <1>0 DEF OfTag
  <2> HIDE DEF K
  <2> QED
    BY <1>0, <2>1, <2>2, <2>3
<1>5. EncodeDescriptors(AuxBlob(ds)) = At(ds, Together(K))
  <2> HIDE DEF K
  <2>1. Lists(AuxBlob(ds), K, ds, D)
    BY <1>1, <1>2, <1>3 DEF Lists
  <2> QED
    BY <2>1, EncodeNumbered
<1> QED
  BY <1>4, <1>5, AtAll
-----------------------------------------------------------------------------
(* Signing and merging.                                                    *)

LEMMA MaxMin ==
  ASSUME NEW S \in SUBSET Nat, IsFiniteSet(S), S # {}
  PROVE  /\ Max(S) \in S /\ \A x \in S : x <= Max(S)
         /\ Min(S) \in S /\ \A x \in S : Min(S) <= x
<1> DEFINE C == Cardinality(S)
<1>1. /\ C \in Nat
      /\ \A n \in 1 .. C : Nth(S, n) \in S
      /\ \A i \in S : Rank(S, i) \in 1 .. C /\ Nth(S, Rank(S, i)) = i
  BY NthRank
<1>2. C # 0
  BY FS_EmptySet
<1>3. \A m, n \in 1 .. C : m < n => Nth(S, m) < Nth(S, n)
  BY NthOrder
<1> HIDE DEF C
<1>4. 1 \in 1 .. C /\ C \in 1 .. C
  BY <1>1, <1>2
<1>5. ASSUME NEW x \in S
      PROVE  Nth(S, 1) <= x /\ x <= Nth(S, C)
  <2> DEFINE r == Rank(S, x)
  <2>1. r \in 1 .. C /\ Nth(S, r) = x
    BY <1>1
  <2>2. x \in Nat /\ Nth(S, 1) \in Nat /\ Nth(S, C) \in Nat
    BY <1>1, <1>4
  <2> HIDE DEF r
  <2>3. 1 = r \/ 1 < r
    BY <2>1
  <2>4. r = C \/ r < C
    BY <1>1, <2>1
  <2>5. Nth(S, 1) <= x
    BY <1>3, <1>4, <2>1, <2>2, <2>3
  <2>6. x <= Nth(S, C)
    BY <1>3, <1>4, <2>1, <2>2, <2>4
  <2> QED
    BY <2>5, <2>6
<1>6. \E m \in S : \A x \in S : m <= x
  BY <1>1, <1>4, <1>5
<1>7. \E m \in S : \A x \in S : m >= x
  <2>1. \A x \in S : x \in Nat
    OBVIOUS
  <2>2. \A m \in S, x \in S : x <= m => m >= x
    BY <2>1
  <2> QED
    BY <1>1, <1>4, <1>5, <2>2
<1>8. Min(S) \in S /\ \A x \in S : Min(S) <= x
  BY <1>6 DEF Min
<1>9. Max(S) \in S /\ \A x \in S : Max(S) >= x
  BY <1>7 DEF Max
<1> QED
  BY <1>8, <1>9

\* The entries about a partition in the list of hash descriptors, and its hash
\* descriptors in the image.
LEMMA HashEntries ==
  ASSUME NEW D, NEW ds \in Seq(D), NEW p
  PROVE  LET hashes == AuxBlob(ds)["hash"]
             I == OfTag(ds, "hash")
             X == Entries(AuxBlob(ds), p)
             H == HashesOf(ds, p)
         IN /\ H \in SUBSET I /\ H \in SUBSET Nat /\ IsFiniteSet(H)
            /\ X \in SUBSET DOMAIN hashes /\ X \in SUBSET Nat /\ IsFiniteSet(X)
            /\ \A n \in DOMAIN hashes : n \in X <=> Nth(I, n) \in H
            /\ X = {} <=> H = {}
            /\ H # {} => /\ Max(X) \in X /\ Nth(I, Max(X)) = Max(H) /\ Max(H) \in H
                         /\ Min(X) \in X /\ Nth(I, Min(X)) = Min(H) /\ Min(H) \in H
<1> DEFINE hashes == AuxBlob(ds)["hash"]
           I == OfTag(ds, "hash")
           X == Entries(AuxBlob(ds), p)
           H == HashesOf(ds, p)
           L == Len(ds)
<1>0. "hash" \in Tags
  BY DEF Tags
<1>1. /\ I \in SUBSET Nat /\ IsFiniteSet(I)
      /\ \A n \in DOMAIN hashes : /\ Nth(I, n) \in I
                                  /\ hashes[n] = [desc |-> ds[Nth(I, n)], sequence |-> Nth(I, n)]
      /\ \A m, n \in DOMAIN hashes : m < n => Nth(I, m) < Nth(I, n)
      /\ \A i \in I : Rank(I, i) \in DOMAIN hashes /\ Nth(I, Rank(I, i)) = i
      /\ DOMAIN hashes = 1 .. Cardinality(I) /\ Cardinality(I) \in Nat
  BY <1>0, AuxBlobList
<1>2. \A i : i \in H <=> i \in I /\ ds[i].partition = p
  BY DEF HashesOf, OfTag
<1>3. \A n : n \in X <=> n \in DOMAIN hashes /\ hashes[n].desc.partition = p
  BY DEF Entries
<1> HIDE DEF hashes, I, X, H
<1>4. \A n \in DOMAIN hashes : n \in X <=> Nth(I, n) \in H
  BY <1>1, <1>2, <1>3
<1>5. H \in SUBSET I /\ H \in SUBSET Nat /\ IsFiniteSet(H)
  <2>1. H \in SUBSET I
    BY <1>2
  <2> QED
    BY <1>1, <2>1, FS_Subset
<1>6. X \in SUBSET DOMAIN hashes /\ X \in SUBSET Nat /\ IsFiniteSet(X)
  <2>1. X \in SUBSET DOMAIN hashes
    BY <1>3
  <2>2. IsFiniteSet(DOMAIN hashes) /\ DOMAIN hashes \in SUBSET Nat
    BY <1>1, FS_Interval
  <2> QED
    BY <2>1, <2>2, FS_Subset
<1>7. \A i \in H : Rank(I, i) \in X /\ Nth(I, Rank(I, i)) = i
  BY <1>1, <1>4, <1>5
<1>8. \A n \in X : Nth(I, n) \in H
  BY <1>4, <1>6
<1>9. X = {} <=> H = {}
  BY <1>7, <1>8
<1>10. ASSUME H # {}
       PROVE  /\ Max(X) \in X /\ Nth(I, Max(X)) = Max(H) /\ Max(H) \in H
              /\ Min(X) \in X /\ Nth(I, Min(X)) = Min(H) /\ Min(H) \in H
  <2>1. /\ Max(X) \in X /\ \A n \in X : n <= Max(X)
        /\ Min(X) \in X /\ \A n \in X : Min(X) <= n
    BY <1>6, <1>9, <1>10, MaxMin
  <2>2. /\ Max(H) \in H /\ \A i \in H : i <= Max(H)
        /\ Min(H) \in H /\ \A i \in H : Min(H) <= i
    BY <1>5, <1>10, MaxMin
  <2>3. ASSUME NEW m \in X, NEW n \in X, m <= n
        PROVE  Nth(I, m) <= Nth(I, n)
    <3>1. m \in Nat /\ n \in Nat /\ Nth(I, m) \in Nat /\ Nth(I, n) \in Nat
      BY <1>5, <1>6, <1>8
    <3>2. CASE m = n
      BY <3>1, <3>2
    <3>3. CASE m < n
      <4>1. Nth(I, m) < Nth(I, n)
        BY <1>1, <1>6, <3>3
      <4> QED
        BY <3>1, <4>1
    <3> QED
      BY <2>3, <3>1, <3>2, <3>3
  <2>4. Nth(I, Max(X)) = Max(H)
    <3>1. Nth(I, Rank(I, Max(H))) <= Nth(I, Max(X)) /\ Nth(I, Rank(I, Max(H))) = Max(H)
      BY <1>7, <2>1, <2>2, <2>3
    <3>2. Nth(I, Max(X)) <= Max(H) /\ Nth(I, Max(X)) \in Nat /\ Max(H) \in Nat
      BY <1>5, <1>8, <2>1, <2>2
    <3> QED
      BY <3>1, <3>2
  <2>5. Nth(I, Min(X)) = Min(H)
    <3>1. Nth(I, Min(X)) <= Nth(I, Rank(I, Min(H))) /\ Nth(I, Rank(I, Min(H))) = Min(H)
      BY <1>7, <2>1, <2>2, <2>3
    <3>2. Min(H) <= Nth(I, Min(X)) /\ Nth(I, Min(X)) \in Nat /\ Min(H) \in Nat
      BY <1>5, <1>8, <2>1, <2>2
    <3> QED
      BY <3>1, <3>2
  <2> QED
    BY <2>1, <2>2, <2>4, <2>5
<1> QED
  BY <1>4, <1>5, <1>6, <1>9, <1>10 DEF hashes, I, X, H

\* The list of hash descriptors without some of its entries, and with a new
\* one in the place of them.
LEMMA HashListChanged ==
  ASSUME NEW D, NEW ds \in Seq(D), NEW J \in SUBSET DOMAIN AuxBlob(ds)["hash"], NEW R,
         \A n \in DOMAIN AuxBlob(ds)["hash"] : n \in J <=> Nth(OfTag(ds, "hash"), n) \notin R,
         NEW G, D \subseteq G, NEW d \in G, NEW m \in Nat, NEW b, b[m] = d,
         m \notin OfTag(ds, "hash") \ R, \A i \in OfTag(ds, "hash") \ R : b[i] = ds[i]
  PROVE  Numbered(Append(At(AuxBlob(ds)["hash"], J), [desc |-> d, sequence |-> m]),
                  (OfTag(ds, "hash") \ R) \union {m}, b, G)
<1> DEFINE hashes == AuxBlob(ds)["hash"]
           I == OfTag(ds, "hash")
           e == [desc |-> d, sequence |-> m]
           others == At(hashes, J)
<1>0. "hash" \in Tags
  BY DEF Tags
<1>1. /\ Numbered(hashes, I, ds, D)
      /\ \A n \in DOMAIN hashes : /\ Nth(I, n) \in I
                                  /\ hashes[n] = [desc |-> ds[Nth(I, n)], sequence |-> Nth(I, n)]
      /\ \A i \in I : Rank(I, i) \in DOMAIN hashes /\ Nth(I, Rank(I, i)) = i
  BY <1>0, AuxBlobList
<1>2. J \in SUBSET DOMAIN hashes /\ \A n \in DOMAIN hashes : n \in J <=> Nth(I, n) \notin R
  OBVIOUS
<1>3. m \notin I \ R /\ \A i \in I \ R : b[i] = ds[i]
  OBVIOUS
<1> HIDE DEF hashes, I
<1>4. Numbered(others, I \ R, ds, D)
  <2>1. \A n \in J : hashes[n].sequence \in I \ R
    BY <1>1, <1>2
  <2>2. \A i \in I \ R : \E n \in J : hashes[n].sequence = i
    <3> TAKE i \in I \ R
    <3>1. Rank(I, i) \in DOMAIN hashes /\ Nth(I, Rank(I, i)) = i
      BY <1>1
    <3>2. Rank(I, i) \in J
      BY <1>2, <3>1
    <3>3. hashes[Rank(I, i)].sequence = i
      BY <1>1, <3>1
    <3> QED
      BY <3>2, <3>3
  <2> QED
    BY <1>1, <1>2, <2>1, <2>2, SublistNumbered
<1> HIDE DEF others
<1>5. Numbered(others, I \ R, b, G)
  BY <1>3, <1>4, NumberedElsewhere
<1>6. Numbered(<<e>>, {m}, b, G)
  BY OneNumbered
<1>7. Append(others, e) = others \o <<e>>
  <2>1. others \in Seq(Entry(G)) /\ e \in Entry(G)
    BY <1>5 DEF Numbered, Entry
  <2> HIDE DEF e
  <2> QED
    BY <2>1
<1>8. Numbered(others \o <<e>>, (I \ R) \union {m}, b, G)
  <2> HIDE DEF e
  <2>1. (I \ R) \intersect {m} = {}
    BY <1>3
  <2> QED
    BY <1>5, <1>6, <2>1, ConcatNumbered
<1> QED
  BY <1>7, <1>8 DEF hashes, I, others

\* The lists with another list of hash descriptors, and the descriptors that
\* this does not concern.
WithHashes(ds, list) == [AuxBlob(ds) EXCEPT !["hash"] = list]
NotHashes(ds) == {i \in 1 .. Len(ds) : ds[i].tag # "hash"}

\* Such lists, written again.
LEMMA EncodeChanged ==
  ASSUME NEW D, Descriptors(D), NEW ds \in Seq(D), NEW G, D \subseteq G,
         NEW list, NEW M \in SUBSET Nat, NEW b, Numbered(list, M, b, G),
         \A i \in NotHashes(ds) : i \notin M /\ b[i] = ds[i]
  PROVE  EncodeDescriptors(WithHashes(ds, list)) = At(b, M \union NotHashes(ds))
<1> USE DEF NotHashes
<1> DEFINE aux == WithHashes(ds, list)
<1> DEFINE K == [t \in Tags |-> IF t = "hash" THEN M ELSE OfTag(ds, t)]
<1>0. "hash" \in Tags /\ DOMAIN ds = 1 .. Len(ds) /\ \A i \in 1 .. Len(ds) : ds[i].tag \in Tags
  BY DEF Tags, Descriptors
<1>1. DOMAIN AuxBlob(ds) = Tags
  BY DEF AuxBlob
<1>2. aux["hash"] = list /\ \A t \in Tags : t # "hash" => aux[t] = AuxBlob(ds)[t]
  BY <1>0, <1>1 DEF WithHashes
<1>3. \A t \in Tags : /\ OfTag(ds, t) \in SUBSET Nat
                      /\ Numbered(AuxBlob(ds)[t], OfTag(ds, t), ds, D)
  BY AuxBlobList
<1>4. K \in [Tags -> SUBSET Nat]
  BY <1>3
<1>5. ASSUME NEW t \in Tags
      PROVE  Numbered(aux[t], K[t], b, G)
  <2>1. CASE t = "hash"
    BY <1>2, <2>1
  <2>2. CASE t # "hash"
    <3>1. \A i \in OfTag(ds, t) : b[i] = ds[i]
      BY <1>0, <2>2 DEF OfTag
    <3>2. Numbered(AuxBlob(ds)[t], OfTag(ds, t), b, G)
      BY <1>3, <3>1, NumberedElsewhere
    <3> QED
      BY <1>2, <2>2, <3>2
  <2> QED
    BY <2>1, <2>2
<1>6. \A t, v \in Tags : t # v => K[t] \intersect K[v] = {}
  <2>1. \A t \in Tags : t # "hash" => M \intersect OfTag(ds, t) = {}
    BY <1>0 DEF OfTag
  <2>2. \A t, v \in Tags : t # v => OfTag(ds, t) \intersect OfTag(ds, v) = {}
    BY DEF OfTag
  <2> QED
    BY <2>1, <2>2
<1>7. Together(K) = M \union {i \in 1 .. Len(ds) : ds[i].tag # "hash"}
  <2>1. \A i : i \in Together(K) <=> \E t \in Tags : i \in K[t]
    BY DEF Together
  <2>2. \A i : (\E t \in Tags : i \in K[t]) <=> i \in M \/ \E t \in Tags : t # "hash" /\ i \in OfTag(ds, t)
    BY <1>0
  <2>3. \A i : (\E t \in Tags : t # "hash" /\ i \in OfTag(ds, t)) <=> i \in 1 .. Len(ds) /\ ds[i].tag # "hash"
    BY <1>0 DEF OfTag
  <2> HIDE DEF K
  <2> QED
    BY <2>1, <2>2, <2>3
<1>8. Lists(aux, K, b, G)
  <2> HIDE DEF K
  <2> QED
    BY <1>4, <1>5, <1>6 DEF Lists
<1> HIDE DEF K, aux
<1>9. EncodeDescriptors(aux) = At(b, Together(K))
  BY <1>8, EncodeNumbered
<1> QED
  BY <1>7, <1>9 DEF aux

\* addHashFooter() on the descriptors that were read from an image: of the hash
\* descriptors of the partition the last keeps its place and gets the digest,
\* and the others go; all else stays as it is and where it is.
THEOREM SigningInPlace ==
  ASSUME NEW D, Descriptors(D), NEW ds \in Seq(D), NEW p, NEW digest, HashesOf(ds, p) # {}
  PROVE  EncodeDescriptors(UpdateHash(AuxBlob(ds), p, digest)) = Resigned(ds, p, digest)
<1> DEFINE hashes == AuxBlob(ds)["hash"]
           I == OfTag(ds, "hash")
           X == Entries(AuxBlob(ds), p)
           H == HashesOf(ds, p)
           keep == Max(H)
           J == DOMAIN hashes \ X
           R == H
           nd == [ds[keep] EXCEPT !.digest = digest]
           new == [ds EXCEPT ![keep].digest = digest]
           G == D \union {nd}
           M == (I \ R) \union {keep}
           list == Append(At(hashes, J), [desc |-> nd, sequence |-> keep])
<1>0. "hash" \in Tags /\ DOMAIN ds = 1 .. Len(ds)
  BY DEF Tags
<1>1. /\ H \in SUBSET I /\ H \in SUBSET Nat /\ X \in SUBSET DOMAIN hashes
      /\ \A n \in DOMAIN hashes : n \in X <=> Nth(I, n) \in H
      /\ Max(X) \in X /\ Nth(I, Max(X)) = keep /\ keep \in H
  BY HashEntries
<1>2. /\ \A n \in DOMAIN hashes : hashes[n] = [desc |-> ds[Nth(I, n)], sequence |-> Nth(I, n)]
      /\ I \in SUBSET (1 .. Len(ds)) /\ I \in SUBSET Nat
  BY <1>0, AuxBlobList
<1>3. hashes[Max(X)] = [desc |-> ds[keep], sequence |-> keep]
  BY <1>1, <1>2
<1>4. UpdateHash(AuxBlob(ds), p, digest) = WithHashes(ds, list)
  <2>1. [hashes[Max(X)] EXCEPT !.desc.digest = digest] = [desc |-> nd, sequence |-> keep]
    BY <1>3
  <2> QED
    BY <2>1 DEF UpdateHash, WithHashes
<1>5. keep \in 1 .. Len(ds) /\ ds[keep].tag = "hash" /\ keep \in Nat
  BY <1>0, <1>1 DEF HashesOf
<1>6. new[keep] = nd /\ \A i \in 1 .. Len(ds) : i # keep => new[i] = ds[i]
  BY <1>0, <1>5
<1>7. Numbered(list, M, new, G)
  <2>1. J \in SUBSET DOMAIN hashes /\ \A n \in DOMAIN hashes : n \in J <=> Nth(I, n) \notin R
    BY <1>1
  <2>2. D \subseteq G /\ nd \in G
    OBVIOUS
  <2>3. keep \notin I \ R /\ \A i \in I \ R : new[i] = ds[i]
    BY <1>1, <1>2, <1>6
  <2> HIDE DEF J, nd, new, G, keep, R
  <2> QED
    BY <1>5, <1>6, <2>1, <2>2, <2>3, HashListChanged
<1>8. \A i \in NotHashes(ds) : i \notin M /\ new[i] = ds[i]
  <2>1. \A i \in I : ds[i].tag = "hash"
    BY DEF OfTag
  <2> QED
    BY <1>5, <1>6, <2>1 DEF NotHashes
<1>9. M \in SUBSET Nat
  BY <1>2, <1>5
<1>10. EncodeDescriptors(UpdateHash(AuxBlob(ds), p, digest))
         = At(new, M \union NotHashes(ds))
  <2>1. D \subseteq G
    OBVIOUS
  <2> HIDE DEF list, M, new, G
  <2> QED
    BY <1>4, <1>7, <1>8, <1>9, <2>1, EncodeChanged
<1>11. M \union NotHashes(ds) = {i \in DOMAIN ds : i \notin H \ {keep}}
  <2>1. \A i : i \in I <=> i \in 1 .. Len(ds) /\ ds[i].tag = "hash"
    BY <1>0 DEF OfTag
  <2> HIDE DEF I, H, keep
  <2> QED
    BY <1>0, <1>1, <1>5, <2>1 DEF NotHashes
<1>12. Resigned(ds, p, digest) = At(new, {i \in DOMAIN ds : i \notin H \ {keep}})
  BY DEF Resigned
<1> HIDE DEF M, new, H, keep
<1> QED
  BY <1>10, <1>11, <1>12

\* pack() on the descriptors that were read from vbmeta.img: the first hash
\* descriptor of the partition is replaced where it is, or the new one put in
\* front if there is none; all else stays as it is.
THEOREM MergingInPlace ==
  ASSUME NEW D, Descriptors(D), NEW ds \in Seq(D), NEW p, NEW new
  PROVE  EncodeDescriptors(ReplaceHash(AuxBlob(ds), p, new)) = Merged(ds, p, new)
<1> DEFINE hashes == AuxBlob(ds)["hash"]
           I == OfTag(ds, "hash")
           X == Entries(AuxBlob(ds), p)
           H == HashesOf(ds, p)
           N == Len(ds)
           gone == {i \in X : i = Min(X)}
           J == DOMAIN hashes \ gone
           G == D \union {new}
           other == NotHashes(ds)
<1>0. "hash" \in Tags /\ DOMAIN ds = 1 .. N /\ N \in Nat /\ \A i \in 1 .. N : ds[i] \in D
  BY DEF Tags
<1>1. /\ H \in SUBSET I /\ H \in SUBSET Nat /\ X \in SUBSET DOMAIN hashes
      /\ \A n \in DOMAIN hashes : n \in X <=> Nth(I, n) \in H
      /\ X = {} <=> H = {}
      /\ H # {} => Min(X) \in X /\ Nth(I, Min(X)) = Min(H) /\ Min(H) \in H
  BY HashEntries
<1>2. /\ \A n \in DOMAIN hashes : hashes[n] = [desc |-> ds[Nth(I, n)], sequence |-> Nth(I, n)]
      /\ I \in SUBSET (1 .. N) /\ I \in SUBSET Nat
      /\ \A m, n \in DOMAIN hashes : m < n => Nth(I, m) < Nth(I, n)
      /\ \A n \in DOMAIN hashes : Nth(I, n) \in I
      /\ DOMAIN hashes = 1 .. Cardinality(I) /\ Cardinality(I) \in Nat
  BY <1>0, AuxBlobList
<1>3. \A i : i \in I <=> i \in 1 .. N /\ ds[i].tag = "hash"
  BY <1>0 DEF OfTag
<1>4. D \subseteq G /\ new \in G
  OBVIOUS
<1>5. CASE H = {}
  <2> DEFINE b == [i \in 0 .. N |-> IF i = 0 THEN new ELSE ds[i]]
             M == (I \ {}) \union {0}
             list == Append(At(hashes, J), [desc |-> new, sequence |-> 0])
  <2>1. ReplaceHash(AuxBlob(ds), p, new) = WithHashes(ds, list)
    BY <1>1, <1>5 DEF ReplaceHash, WithHashes
  <2>2. b[0] = new /\ \A i \in 1 .. N : b[i] = ds[i]
    BY <1>0
  <2>3. Numbered(list, M, b, G)
    <3>1. J \in SUBSET DOMAIN hashes /\ \A n \in DOMAIN hashes : n \in J <=> Nth(I, n) \notin {}
      BY <1>1, <1>5
    <3>2. 0 \notin I \ {} /\ \A i \in I \ {} : b[i] = ds[i]
      BY <1>2, <2>2
    <3>3. 0 \in Nat
      OBVIOUS
    <3> HIDE DEF J, G, b
    <3> QED
      BY <1>4, <2>2, <3>1, <3>2, <3>3, HashListChanged
  <2>4. \A i \in NotHashes(ds) : i \notin M /\ b[i] = ds[i]
    BY <1>3, <2>2 DEF NotHashes
  <2>5. M \in SUBSET Nat
    BY <1>2
  <2>6. EncodeDescriptors(ReplaceHash(AuxBlob(ds), p, new)) = At(b, M \union other)
    <3> HIDE DEF list, M, b, G
    <3> QED
      BY <1>4, <2>1, <2>3, <2>4, <2>5, EncodeChanged
  <2>7. M \union other = 0 .. N
    <3>1. \A i : i \in 0 .. N <=> i = 0 \/ i \in 1 .. N
      BY <1>0
    <3> HIDE DEF I
    <3> QED
      BY <1>3, <3>1 DEF NotHashes
  <2>8. Cardinality(0 .. N) = N + 1 /\ \A n \in 1 .. N + 1 : Nth(0 .. N, n) = n - 1
    <3>1. N - 0 + 1 = N + 1 /\ \A n \in 1 .. N + 1 : n + 0 - 1 = n - 1
      BY <1>0
    <3> HIDE DEF N
    <3> QED
      BY <1>0, <3>1, NthInterval
  <2>9. At(b, 0 .. N) = [n \in 1 .. N + 1 |-> b[n - 1]]
    <3> HIDE DEF b, N
    <3> QED
      BY <2>8 DEF At
  <2>10. <<new>> \o ds = [n \in 1 .. N + 1 |-> b[n - 1]]
    <3>1. ds \in Seq(G) /\ <<new>> \in Seq(G) /\ Len(<<new>>) = 1 /\ <<new>>[1] = new
      OBVIOUS
    <3>2. <<new>> \o ds \in Seq(G) /\ Len(<<new>> \o ds) = N + 1
      BY <3>1
    <3>3. /\ (<<new>> \o ds)[1] = new
          /\ \A n \in 2 .. N + 1 : (<<new>> \o ds)[n] = ds[n - 1]
      BY <3>1
    <3>4. \A n \in 1 .. N + 1 : (<<new>> \o ds)[n] = b[n - 1]
      <4> TAKE n \in 1 .. N + 1
      <4>1. CASE n = 1
        BY <2>2, <3>3, <4>1
      <4>2. CASE n # 1
        <5>1. n \in 2 .. N + 1 /\ n - 1 \in 1 .. N
          BY <1>0, <4>2
        <5> QED
          BY <2>2, <3>3, <5>1
      <4> QED
        BY <4>1, <4>2
    <3>5. <<new>> \o ds = [n \in 1 .. N + 1 |-> (<<new>> \o ds)[n]]
      BY <3>2
    <3> HIDE DEF b, N
    <3> QED
      BY <3>4, <3>5
  <2>11. Merged(ds, p, new) = <<new>> \o ds
    BY <1>5 DEF Merged
  <2> HIDE DEF b, M, other
  <2> QED
    BY <2>6, <2>7, <2>9, <2>10, <2>11
<1>6. CASE H # {}
  <2> DEFINE first == Min(H)
             b == [ds EXCEPT ![first] = new]
             M == (I \ {first}) \union {first}
             list == Append(At(hashes, J), [desc |-> new, sequence |-> first])
  <2>0. first \in 1 .. N /\ first \in I /\ first \in Nat
    BY <1>1, <1>2, <1>6
  <2>1. ReplaceHash(AuxBlob(ds), p, new) = WithHashes(ds, list)
    <3>1. hashes[Min(X)].sequence = first
      <4>1. Min(X) \in DOMAIN hashes /\ Nth(I, Min(X)) = first
        BY <1>1, <1>6
      <4> HIDE DEF hashes, X, I, first
      <4> QED
        BY <1>2, <4>1
    <3> QED
      BY <1>1, <1>6, <3>1 DEF ReplaceHash, WithHashes
  <2>2. b[first] = new /\ \A i \in 1 .. N : i # first => b[i] = ds[i]
    BY <1>0, <2>0
  <2>3. Numbered(list, M, b, G)
    <3>1. ASSUME NEW n \in DOMAIN hashes
          PROVE  n \in J <=> Nth(I, n) \notin {first}
      <4> DEFINE x == Min(X)
      <4>1. x \in X /\ x \in DOMAIN hashes /\ Nth(I, x) = first
        BY <1>1, <1>6
      <4>2. n \in J <=> n # x
        BY <4>1
      <4> HIDE DEF x, J
      <4>3. n \in Nat /\ x \in Nat /\ Nth(I, n) \in Nat
        BY <1>2, <4>1
      <4>4. CASE n = x
        BY <4>1, <4>2, <4>4
      <4>5. CASE n < x
        <5>1. Nth(I, n) < first
          BY <1>2, <4>1, <4>5
        <5> QED
          BY <2>0, <4>2, <4>3, <4>5, <5>1
      <4>6. CASE x < n
        <5>1. first < Nth(I, n)
          BY <1>2, <4>1, <4>6
        <5> QED
          BY <2>0, <4>2, <4>3, <4>6, <5>1
      <4> QED
        BY <4>3, <4>4, <4>5, <4>6
    <3>2. J \in SUBSET DOMAIN hashes
      OBVIOUS
    <3>3. first \notin I \ {first} /\ \A i \in I \ {first} : b[i] = ds[i]
      BY <1>2, <2>2
    <3> HIDE DEF J, G, b, first
    <3> QED
      BY <1>4, <2>0, <2>2, <3>1, <3>2, <3>3, HashListChanged
  <2>4. \A i \in NotHashes(ds) : i \notin M /\ b[i] = ds[i]
    <3> HIDE DEF I, first, b
    <3> QED
      BY <1>3, <2>0, <2>2 DEF NotHashes
  <2>5. M \in SUBSET Nat
    BY <1>2, <2>0
  <2>6. EncodeDescriptors(ReplaceHash(AuxBlob(ds), p, new)) = At(b, M \union other)
    <3> HIDE DEF list, M, b, G
    <3> QED
      BY <1>4, <2>1, <2>3, <2>4, <2>5, EncodeChanged
  <2>7. M \union other = 1 .. N
    <3> HIDE DEF I, first
    <3> QED
      BY <1>3, <2>0 DEF NotHashes
  <2>8. b \in Seq(G) /\ Len(b) = N
    <3>1. ds \in Seq(G)
      OBVIOUS
    <3> HIDE DEF G, first
    <3> QED
      BY <1>4, <2>0, <3>1
  <2>9. At(b, 1 .. N) = b
    <3> HIDE DEF b, G
    <3> QED
      BY <2>8, AtAll
  <2>10. Merged(ds, p, new) = b
    BY <1>6 DEF Merged
  <2> HIDE DEF b, M, other
  <2> QED
    BY <2>6, <2>7, <2>9, <2>10
<1> QED
  BY <1>5, <1>6

\* There is a hash descriptor of the partition with the new digest, and it is
\* the first of all hash descriptors.
HasSigned(r, p, digest) ==
  \E n \in DOMAIN r : r[n].tag = "hash" /\ r[n].partition = p /\ r[n].digest = digest
FirstSigned(r, p, digest) ==
  \E n \in DOMAIN r : /\ r[n].tag = "hash" /\ r[n].partition = p /\ r[n].digest = digest
                      /\ AuxBlob(r)["hash"] # <<>> /\ AuxBlob(r)["hash"][1].desc = r[n]

\* The first hash descriptor is of the partition p, and no other one is.
OnlyFirst(ds, p) ==
  /\ AuxBlob(ds)["hash"] # <<>> /\ AuxBlob(ds)["hash"][1].desc.partition = p
  /\ \A i, j \in HashesOf(ds, p) : i = j

\* Reading an image back after it was signed: there is a hash descriptor of the
\* partition with the new digest; and if there was only one of that partition,
\* then it is still the first of all hash descriptors when it was before, which
\* is where pack() looks for it.
THEOREM SignedReadBack ==
  ASSUME NEW P, NEW Q, NEW ds \in Seq([tag : Tags, partition : P, digest : Q]),
         NEW p, NEW digest, HashesOf(ds, p) # {}
  PROVE  /\ Resigned(ds, p, digest) \in Seq([tag : Tags, partition : P, digest : Q \union {digest}])
         /\ HasSigned(Resigned(ds, p, digest), p, digest)
         /\ OnlyFirst(ds, p) => FirstSigned(Resigned(ds, p, digest), p, digest)
<1> DEFINE D == [tag : Tags, partition : P, digest : Q]
           G == [tag : Tags, partition : P, digest : Q \union {digest}]
           N == Len(ds)
           H == HashesOf(ds, p)
           keep == Max(H)
           new == [ds EXCEPT ![keep].digest = digest]
           kept == {i \in DOMAIN ds : i \notin H \ {keep}}
           r == Resigned(ds, p, digest)
           I == OfTag(ds, "hash")
           hashes == AuxBlob(ds)["hash"]
<1>0. /\ "hash" \in Tags /\ DOMAIN ds = 1 .. N /\ N \in Nat
      /\ \A i \in 1 .. N : ds[i] \in D
  <2>1. "hash" \in Tags
    BY DEF Tags
  <2>2. ds \in Seq(D)
    OBVIOUS
  <2> HIDE DEF D
  <2> QED
    BY <2>1, <2>2
<1>1. \A i : i \in H <=> i \in 1 .. N /\ ds[i].tag = "hash" /\ ds[i].partition = p
  BY <1>0 DEF HashesOf
<1>2. keep \in H
  BY HashEntries
<1>3. keep \in 1 .. N /\ ds[keep] \in D /\ ds[keep].tag = "hash" /\ ds[keep].partition = p
  BY <1>0, <1>1, <1>2
<1> HIDE DEF H, keep
<1>4. /\ new[keep] = [ds[keep] EXCEPT !.digest = digest]
      /\ \A i \in 1 .. N : i # keep => new[i] = ds[i]
      /\ DOMAIN new = 1 .. N
  BY <1>0, <1>3
<1>5. /\ new[keep].tag = "hash" /\ new[keep].partition = p /\ new[keep].digest = digest
      /\ new[keep] \in G
  BY <1>3, <1>4
<1>6. \A i \in 1 .. N : new[i] \in G /\ new[i].tag = ds[i].tag
  <2> TAKE i \in 1 .. N
  <2>1. CASE i = keep
    BY <1>3, <1>5, <2>1
  <2>2. CASE i # keep
    BY <1>0, <1>4, <2>2
  <2> QED
    BY <2>1, <2>2
<1>7. r = At(new, kept)
  BY DEF Resigned, H, keep
<1>8. kept \in SUBSET Nat /\ IsFiniteSet(kept) /\ kept \in SUBSET (1 .. N) /\ keep \in kept
  <2>1. IsFiniteSet(1 .. N)
    BY <1>0, FS_Interval
  <2>2. kept \in SUBSET Nat /\ kept \in SUBSET (1 .. N) /\ keep \in kept
    BY <1>0, <1>3
  <2> QED
    BY <2>1, <2>2, FS_Subset
<1> HIDE DEF kept, new, r
<1>9. Picks(r, new, kept, G)
  <2>1. \A i \in kept : new[i] \in G
    BY <1>6, <1>8
  <2> HIDE DEF G
  <2> QED
    BY <1>7, <1>8, <2>1, AtProperties
<1>10. r \in Seq(G)
  BY <1>9 DEF Picks
<1>11. \E n \in DOMAIN r : r[n].tag = "hash" /\ r[n].partition = p /\ r[n].digest = digest
  <2>1. Rank(kept, keep) \in DOMAIN r /\ r[Rank(kept, keep)] = new[keep]
    BY <1>8, <1>9 DEF Picks
  <2> QED
    BY <1>5, <2>1
<1>12. ASSUME hashes # <<>>, hashes[1].desc.partition = p, \A i, j \in H : i = j
       PROVE  \E n \in DOMAIN r : /\ r[n].tag = "hash" /\ r[n].partition = p
                                  /\ r[n].digest = digest
                                  /\ AuxBlob(r)["hash"] # <<>>
                                  /\ AuxBlob(r)["hash"][1].desc = r[n]
  <2>1. kept = 1 .. N
    BY <1>0, <1>2, <1>12 DEF kept
  <2>2. new \in Seq(G) /\ Len(new) = N
    <3>1. new \in [1 .. N -> G]
      <4>1. new = [i \in 1 .. N |-> new[i]]
        BY <1>0 DEF new
      <4> QED
        BY <1>6, <4>1
    <3> HIDE DEF G, N
    <3> QED
      BY <1>0, <3>1
  <2>3. r = new
    <3> HIDE DEF G
    <3> QED
      BY <1>7, <2>1, <2>2, AtAll
  <2>4. OfTag(r, "hash") = I
    BY <1>0, <1>4, <1>6, <2>3 DEF OfTag
  <2>5. /\ \A n \in DOMAIN hashes : /\ Nth(I, n) \in I
                                    /\ hashes[n] = [desc |-> ds[Nth(I, n)], sequence |-> Nth(I, n)]
        /\ DOMAIN hashes = 1 .. Cardinality(I) /\ Cardinality(I) \in Nat
        /\ hashes \in Seq(Entry(D))
    <3>1. Numbered(hashes, I, ds, D)
      BY <1>0, AuxBlobList
    <3> QED
      BY <1>0, <3>1, AuxBlobList DEF Numbered
  <2>6. 1 \in DOMAIN hashes
    <3> HIDE DEF D, hashes, I
    <3> QED
      BY <1>12, <2>5
  <2>7. Nth(I, 1) \in I /\ hashes[1].desc = ds[Nth(I, 1)]
    <3> HIDE DEF hashes, I, D
    <3>1. Nth(I, 1) \in I /\ hashes[1] = [desc |-> ds[Nth(I, 1)], sequence |-> Nth(I, 1)]
      BY <2>5, <2>6
    <3> QED
      BY <3>1
  <2>8. Nth(I, 1) \in H
    <3>1. \A i \in I : i \in 1 .. N /\ ds[i].tag = "hash"
      BY <1>0 DEF OfTag
    <3> HIDE DEF I, hashes
    <3> QED
      BY <1>1, <1>12, <2>7, <3>1
  <2>9. Nth(I, 1) = keep
    BY <1>2, <1>12, <2>8
  <2> DEFINE back == AuxBlob(r)["hash"]
  <2>10. /\ DOMAIN back = 1 .. Cardinality(I)
         /\ \A n \in DOMAIN back : back[n] = [desc |-> r[Nth(I, n)], sequence |-> Nth(I, n)]
    <3> HIDE DEF G
    <3> QED
      BY <1>0, <1>10, <2>4, AuxBlobList
  <2>11. 1 \in DOMAIN back /\ back[1].desc = r[keep]
    <3> HIDE DEF back, I, hashes
    <3> QED
      BY <2>5, <2>6, <2>9, <2>10
  <2>12. back # <<>>
    <3> HIDE DEF back
    <3>1. DOMAIN <<>> = {}
      OBVIOUS
    <3> QED
      BY <2>11, <3>1
  <2>13. keep \in DOMAIN r
    BY <1>3, <1>4, <2>3
  <2> HIDE DEF back
  <2>14. r[keep].tag = "hash" /\ r[keep].partition = p /\ r[keep].digest = digest
    BY <1>5, <2>3
  <2> QED
    BY <2>11, <2>12, <2>13, <2>14 DEF back
<1> QED
  BY <1>10, <1>11, <1>12 DEF r, H, hashes, HasSigned, FirstSigned, OnlyFirst
=============================================================================
