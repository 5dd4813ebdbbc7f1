--------------------------- MODULE SelectionFacts ---------------------------
(***************************************************************************)
(* What Selected does to a sequence, for every sequence and set of places. *)
(***************************************************************************)
EXTENDS Selections, SequenceTheorems, FiniteSetTheorems, FunctionTheorems, TLAPS

\* A bigger element has a bigger rank.
LEMMA RankGrows ==
    ASSUME NEW K \in SUBSET Nat, IsFiniteSet(K), NEW i \in K, NEW k \in K, i < k
    PROVE  /\ Rank(K, i) \in Nat /\ Rank(K, k) \in Nat
           /\ Rank(K, i) < Rank(K, k)
<1> DEFINE I == {j \in K : j <= i}
           J == {j \in K : j <= k}
<1>1. IsFiniteSet(I) /\ IsFiniteSet(J)
  BY FS_Subset
<1>2. I \subseteq J /\ k \in J /\ k \notin I
  <2>1. i \in Nat /\ k \in Nat /\ \A j \in K : j \in Nat
    OBVIOUS
  <2>2. \A j \in K : j <= i => j <= k
    BY <2>1
  <2>3. k <= k /\ ~(k <= i)
    BY <2>1
  <2> QED
    BY <2>2, <2>3
<1>3. /\ Cardinality(I) \in Nat /\ Cardinality(J) \in Nat
      /\ Cardinality(I) <= Cardinality(J)
      /\ Cardinality(I) = Cardinality(J) => I = J
  BY <1>1, <1>2, FS_Subset, FS_CardinalityType
<1>4. Cardinality(I) < Cardinality(J)
  BY <1>2, <1>3
<1> QED
  BY <1>3, <1>4 DEF Rank

\* Ranks are the numbers from 1 on.
LEMMA RankRange ==
    ASSUME NEW K \in SUBSET Nat, IsFiniteSet(K), NEW k \in K
    PROVE  Rank(K, k) \in 1..Cardinality(K)
<1> DEFINE J == {j \in K : j <= k}
<1>1. k \in J /\ J \in SUBSET K
  OBVIOUS
<1>2. IsFiniteSet(J) /\ Cardinality(J) <= Cardinality(K)
  BY <1>1, FS_Subset
<1>3. Cardinality(J) \in Nat /\ Cardinality(K) \in Nat
  BY <1>2, FS_CardinalityType
<1>4. Cardinality(J) # 0
  BY <1>1, <1>2, FS_EmptySet
<1> QED
  BY <1>2, <1>3, <1>4 DEF Rank

\* Every number up to the size of a set is the rank of one of its elements: an
\* injection between sets of the same size is a surjection.
LEMMA NthRank ==
    ASSUME NEW K \in SUBSET Nat, IsFiniteSet(K), NEW i \in 1..Cardinality(K)
    PROVE  Nth(K, i) \in K /\ Rank(K, Nth(K, i)) = i
<1> DEFINE n == Cardinality(K)
           f == [k \in K |-> Rank(K, k)]
<1>1. n \in Nat
  BY FS_CardinalityType
<1>2. f \in [K -> 1..n]
  BY RankRange
<1>3. f \in Injection(K, 1..n)
  <2> SUFFICES ASSUME NEW a \in K, NEW b \in K, f[a] = f[b] PROVE a = b
    BY <1>2, Fun_IsInj
  <2>1. Rank(K, a) = Rank(K, b)
    OBVIOUS
  <2>2. a \in Nat /\ b \in Nat
    OBVIOUS
  <2>3. ~(a < b)
    BY <2>1, RankGrows
  <2>4. ~(b < a)
    BY <2>1, RankGrows
  <2> QED
    BY <2>2, <2>3, <2>4
<1>4. IsFiniteSet(1..n) /\ Cardinality(1..n) = n
  BY <1>1, FS_Interval
<1>5. f \in Surjection(K, 1..n)
  BY <1>3, <1>4, FS_Injection
<1>6. \E k \in K : Rank(K, k) = i
  BY <1>5 DEF Surjection
<1> QED
  BY <1>6 DEF Nth

\* ... and only one element has it.
LEMMA NthOfRank ==
    ASSUME NEW K \in SUBSET Nat, IsFiniteSet(K), NEW k \in K
    PROVE  Nth(K, Rank(K, k)) = k
<1> DEFINE c == Nth(K, Rank(K, k))
<1>1. c \in K /\ Rank(K, c) = Rank(K, k)
  BY RankRange, NthRank
<1> HIDE DEF c
<1>2. c \in Nat /\ k \in Nat
  BY <1>1
<1>3. Rank(K, k) \in Nat
  BY RankRange, FS_CardinalityType
<1>4. ~(c < k)
  BY <1>1, <1>3, RankGrows
<1>5. ~(k < c)
  BY <1>1, <1>3, RankGrows
<1>6. c = k
  BY <1>2, <1>4, <1>5
<1> QED
  BY <1>6 DEF c

\* The i-th element grows with i.
LEMMA NthGrows ==
    ASSUME NEW K \in SUBSET Nat, IsFiniteSet(K),
           NEW i \in 1..Cardinality(K), NEW j \in 1..Cardinality(K), i < j
    PROVE  Nth(K, i) < Nth(K, j)
<1>1. /\ Nth(K, i) \in K /\ Rank(K, Nth(K, i)) = i
      /\ Nth(K, j) \in K /\ Rank(K, Nth(K, j)) = j
  BY NthRank
<1>2. Cardinality(K) \in Nat
  BY FS_CardinalityType
<1>3. i \in Nat /\ j \in Nat /\ Nth(K, i) \in Nat /\ Nth(K, j) \in Nat
  <2>1. i \in Nat /\ j \in Nat
    BY <1>2
  <2>2. Nth(K, i) \in K /\ Nth(K, j) \in K
    BY <1>1
  <2> QED
    BY <2>1, <2>2
<1>4. Nth(K, i) # Nth(K, j)
  BY <1>1, <1>3
<1>5. ~(Nth(K, j) < Nth(K, i))
  <2> SUFFICES ASSUME Nth(K, j) < Nth(K, i) PROVE FALSE
    OBVIOUS
  <2>1. j < i
    BY <1>1, RankGrows
  <2> QED
    BY <2>1, <1>3
<1> QED
  BY <1>3, <1>4, <1>5

\* A list of the elements of K in increasing order is the only one.
LEMMA InOrder ==
    ASSUME NEW K \in SUBSET Nat, NEW m \in Nat, NEW h \in [1..m -> K],
           \A i, j \in 1..m : i < j => h[i] < h[j],
           \A k \in K : \E i \in 1..m : h[i] = k
    PROVE  /\ IsFiniteSet(K) /\ Cardinality(K) = m
           /\ \A i \in 1..m : Nth(K, i) = h[i]
<1>1. \A i, j \in 1..m : h[i] \in Nat /\ i \in Nat /\ (h[i] = h[j] => i = j)
  <2> SUFFICES ASSUME NEW i \in 1..m, NEW j \in 1..m
               PROVE  h[i] \in Nat /\ i \in Nat /\ (h[i] = h[j] => i = j)
    OBVIOUS
  <2>1. h[i] \in K /\ h[j] \in K
    OBVIOUS
  <2>2. h[i] \in Nat /\ h[j] \in Nat
    BY <2>1
  <2>3. i \in Nat /\ j \in Nat
    OBVIOUS
  <2> QED
    BY <2>2, <2>3
<1>2. h \in Bijection(1..m, K)
  BY <1>1, Fun_IsBij
<1>3. ExistsBijection(1..m, K)
  BY <1>2 DEF ExistsBijection
<1>4. IsFiniteSet(K) /\ Cardinality(K) = m
  BY <1>3, FS_NatBijection, FS_CountingElements
<1>5. ASSUME NEW i \in 1..m PROVE Nth(K, i) = h[i]
  <2> DEFINE J == {k \in K : k <= h[i]}
             g == [x \in 1..i |-> h[x]]
  <2>1. i \in Nat /\ 1..i \subseteq 1..m
    OBVIOUS
  <2>2. \A x \in 1..m : h[x] <= h[i] <=> x <= i
    <3> SUFFICES ASSUME NEW x \in 1..m PROVE h[x] <= h[i] <=> x <= i
      OBVIOUS
    <3>1. x \in Nat /\ h[x] \in Nat /\ h[i] \in Nat
      BY <1>1
    <3>2. CASE x < i
      BY <3>1, <3>2, <2>1
    <3>3. CASE x = i
      BY <3>1, <3>3, <2>1
    <3>4. CASE i < x
      BY <3>1, <3>4, <2>1
    <3> QED
      BY <3>1, <3>2, <3>3, <3>4, <2>1
  <2>3. g \in [1..i -> J]
    BY <2>1, <2>2
  <2>4. \A x, y \in 1..i : g[x] = g[y] => x = y
    BY <2>1, <1>1
  <2>5. \A k \in J : \E x \in 1..i : g[x] = k
    <3> SUFFICES ASSUME NEW k \in J PROVE \E x \in 1..i : g[x] = k
      OBVIOUS
    <3>1. PICK x \in 1..m : h[x] = k
      OBVIOUS
    <3>2. x \in 1..i
      BY <3>1, <2>1, <2>2
    <3> QED
      BY <3>1, <3>2
  <2>6. g \in Bijection(1..i, J)
    BY <2>3, <2>4, <2>5, Fun_IsBij
  <2>7. Cardinality(J) = i
    BY <2>1, <2>6, FS_CountingElements DEF ExistsBijection
  <2>8. h[i] \in K /\ Rank(K, h[i]) = i
    BY <2>7 DEF Rank
  <2> QED
    BY <2>8, <1>4, NthOfRank
<1> QED
  BY <1>4, <1>5

\* The first element has no smaller one.
LEMMA Least ==
    ASSUME NEW K \in SUBSET Nat, IsFiniteSet(K), K # {}
    PROVE  \E i \in K : \A j \in K : i <= j
<1> DEFINE c == Nth(K, 1)
<1>1. Cardinality(K) \in Nat /\ Cardinality(K) # 0
  BY FS_CardinalityType, FS_EmptySet
<1>2. 1 \in 1..Cardinality(K)
  BY <1>1
<1>3. c \in K /\ Rank(K, c) = 1
  BY <1>2, NthRank
<1> HIDE DEF c
<1>4. ASSUME NEW j \in K PROVE c <= j
  <2>1. j \in Nat /\ c \in Nat
    BY <1>3
  <2>2. Rank(K, j) \in Nat /\ ~(Rank(K, j) < 1)
    BY <1>1, RankRange
  <2>3. ~(j < c)
    BY <1>3, <2>2, RankGrows
  <2> QED
    BY <2>1, <2>3
<1> QED
  BY <1>3, <1>4

\* ... and the last no bigger one.
LEMMA Greatest ==
    ASSUME NEW K \in SUBSET Nat, IsFiniteSet(K), K # {}
    PROVE  \E i \in K : \A j \in K : j <= i
<1> DEFINE n == Cardinality(K)
           c == Nth(K, n)
<1>1. n \in Nat /\ n # 0
  BY FS_CardinalityType, FS_EmptySet
<1>2. n \in 1..n
  BY <1>1
<1>3. c \in K /\ Rank(K, c) = n
  BY <1>2, NthRank
<1> HIDE DEF c
<1>4. ASSUME NEW j \in K
      PROVE  j <= c
  <2>1. j \in Nat /\ c \in Nat
    BY <1>3
  <2>2. Rank(K, j) \in 1..n
    BY RankRange
  <2>3. ~(c < j)
    BY <1>1, <1>3, <2>2, RankGrows
  <2> QED
    BY <2>1, <2>3
<1> QED
  BY <1>3, <1>4

----------------------------------------------------------------------------
(* Selected.                                                               *)

\* It has the elements at the chosen places, each once, and in their order.
LEMMA SelectedIs ==
    ASSUME NEW S, NEW s \in Seq(S), NEW K \in SUBSET DOMAIN s
    PROVE  /\ Selected(s, K) \in Seq(S)
           /\ Len(Selected(s, K)) = Cardinality(K) /\ Cardinality(K) \in Nat
           /\ DOMAIN Selected(s, K) = 1..Cardinality(K)
           /\ \A i \in 1..Cardinality(K) :
                  Nth(K, i) \in K /\ Selected(s, K)[i] = s[Nth(K, i)]
           /\ \A i, j \in 1..Cardinality(K) : i < j => Nth(K, i) < Nth(K, j)
           /\ \A k \in K : \E i \in 1..Cardinality(K) : Nth(K, i) = k
<1>1. DOMAIN s = 1..Len(s) /\ Len(s) \in Nat
  OBVIOUS
<1>2. IsFiniteSet(K) /\ K \in SUBSET Nat
  <2>1. IsFiniteSet(1..Len(s))
    BY <1>1, FS_Interval
  <2>2. K \in SUBSET (1..Len(s))
    BY <1>1
  <2>3. IsFiniteSet(K)
    BY <2>1, <2>2, FS_Subset
  <2> QED
    BY <2>2, <2>3
<1>3. Cardinality(K) \in Nat
  BY <1>2, FS_CardinalityType
<1>4. \A i \in 1..Cardinality(K) : Nth(K, i) \in K /\ s[Nth(K, i)] \in S
  BY <1>1, <1>2, NthRank
<1>5. Selected(s, K) = [i \in 1..Cardinality(K) |-> s[Nth(K, i)]]
  BY DEF Selected
<1>6. /\ Selected(s, K) \in Seq(S)
      /\ Len(Selected(s, K)) = Cardinality(K)
      /\ DOMAIN Selected(s, K) = 1..Cardinality(K)
  BY <1>3, <1>4, <1>5
<1>7. \A i, j \in 1..Cardinality(K) : i < j => Nth(K, i) < Nth(K, j)
  BY <1>2, NthGrows
<1>8. \A k \in K : \E i \in 1..Cardinality(K) : Nth(K, i) = k
  BY <1>2, RankRange, NthOfRank
<1> QED
  BY <1>3, <1>4, <1>5, <1>6, <1>7, <1>8

\* All elements are the sequence.
LEMMA SelectedAll ==
    ASSUME NEW S, NEW s \in Seq(S)
    PROVE  Selected(s, DOMAIN s) = s
<1> DEFINE n == Len(s)
           h == [i \in 1..n |-> i]
<1>1. n \in Nat /\ DOMAIN s = 1..n
  OBVIOUS
<1>2. h \in [1..n -> 1..n] /\ 1..n \in SUBSET Nat
  OBVIOUS
<1>3. Cardinality(1..n) = n /\ \A i \in 1..n : Nth(1..n, i) = h[i]
  <2>1. \A i, j \in 1..n : i < j => h[i] < h[j]
    OBVIOUS
  <2>2. \A k \in 1..n : \E i \in 1..n : h[i] = k
    OBVIOUS
  <2> HIDE DEF h, n
  <2> QED
    BY <1>1, <1>2, <2>1, <2>2, InOrder
<1>4. Selected(s, 1..n) = [i \in 1..n |-> s[i]]
  BY <1>3 DEF Selected
<1> QED
  BY <1>1, <1>4

\* Two selections are equal when their elements are, in their order.
LEMMA SelectedEqual ==
    ASSUME NEW S, NEW s \in Seq(S), NEW K \in SUBSET DOMAIN s,
           NEW T, NEW t \in Seq(T), NEW L \in SUBSET DOMAIN t,
           NEW f \in [K -> L],
           \A i, j \in K : i < j => f[i] < f[j],
           \A l \in L : \E k \in K : f[k] = l,
           \A k \in K : t[f[k]] = s[k]
    PROVE  Selected(s, K) = Selected(t, L)
<1> DEFINE m == Cardinality(K)
           h == [i \in 1..m |-> f[Nth(K, i)]]
<1>1. /\ m \in Nat
      /\ \A i \in 1..m : Nth(K, i) \in K
      /\ \A i, j \in 1..m : i < j => Nth(K, i) < Nth(K, j)
      /\ \A k \in K : \E i \in 1..m : Nth(K, i) = k
  BY SelectedIs
<1>2. L \in SUBSET Nat
  OBVIOUS
<1>3. h \in [1..m -> L]
  BY <1>1
<1>4. \A i, j \in 1..m : i < j => h[i] < h[j]
  BY <1>1
<1>5. \A l \in L : \E i \in 1..m : h[i] = l
  BY <1>1
<1>6. Cardinality(L) = m /\ \A i \in 1..m : Nth(L, i) = h[i]
  <2>1. m \in Nat
    BY <1>1
  <2> HIDE DEF h, m
  <2> QED
    BY <1>2, <1>3, <1>4, <1>5, <2>1, InOrder, Zenon
<1>7. \A i \in 1..m : t[Nth(L, i)] = s[Nth(K, i)]
  BY <1>1, <1>6
<1> QED
  BY <1>6, <1>7 DEF Selected
=============================================================================
