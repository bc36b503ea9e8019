------------------------------ MODULE FilterProofs ------------------------------
(***************************************************************************)
(* What Filter returns, for every sequence and every set of its indices.    *)
(***************************************************************************)
EXTENDS Filter, FiniteSetTheorems, TLAPS

\* There are finitely many indices, no more than the sequence is long.
LEMMA IndicesFinite ==
    ASSUME NEW m \in Nat, NEW K \in SUBSET (1..m)
    PROVE  /\ IsFiniteSet(K)
           /\ Cardinality(K) \in Nat
           /\ Cardinality(K) <= m
<1>1. 1 \in Int /\ m \in Int
  OBVIOUS
<1>2. IsFiniteSet(1..m)
  BY <1>1, FS_Interval
<1>3. Cardinality(1..m) = m
  <2>1. Cardinality(1..m) = IF 1 > m THEN 0 ELSE m - 1 + 1
    BY <1>1, FS_Interval
  <2> QED
    BY <2>1
<1>4. IsFiniteSet(K) /\ Cardinality(K) <= Cardinality(1..m)
  BY <1>2, FS_Subset
<1>5. Cardinality(K) \in Nat
  BY <1>4, FS_CardinalityType
<1> QED
  BY <1>3, <1>4, <1>5

\* Every place is taken: ranks differ and do not exceed the number of indices.
LEMMA RankOnto ==
    ASSUME NEW m \in Nat, NEW K \in SUBSET (1..m), NEW n \in 1..Cardinality(K)
    PROVE  \E k \in K : Rank(K, k) = n
<1> DEFINE r == [k \in K |-> Rank(K, k)]
           Up(k) == {j \in K : j <= k}
<1>1. IsFiniteSet(K) /\ Cardinality(K) \in Nat
  BY IndicesFinite
<1>2. ASSUME NEW k \in K
      PROVE  /\ IsFiniteSet(Up(k)) /\ Cardinality(Up(k)) \in Nat
             /\ Cardinality(Up(k)) <= Cardinality(K) /\ Cardinality(Up(k)) # 0
  <2>1. Up(k) \in SUBSET K /\ k \in Up(k)
    OBVIOUS
  <2> HIDE DEF Up
  <2>2. IsFiniteSet(Up(k)) /\ Cardinality(Up(k)) <= Cardinality(K)
    BY <1>1, <2>1, FS_Subset
  <2>3. Cardinality(Up(k)) \in Nat
    BY <2>2, FS_CardinalityType
  <2>4. Cardinality(Up(k)) # 0
    BY <2>1, <2>2, FS_EmptySet
  <2> QED
    BY <2>2, <2>3, <2>4
<1>3. r \in [K -> 1..Cardinality(K)]
  <2>1. \A k \in K : Cardinality(Up(k)) \in 1..Cardinality(K)
    BY <1>1, <1>2
  <2> QED
    BY <2>1 DEF Rank
<1>4. ASSUME NEW j \in K, NEW k \in K, j < k PROVE r[j] # r[k]
  <2>1. Up(j) \in SUBSET Up(k) /\ Up(j) # Up(k)
    <3>1. j \in Nat /\ k \in Nat /\ \A i \in K : i \in Nat
      OBVIOUS
    <3>2. \A i \in K : i <= j => i <= k
      BY <1>4, <3>1
    <3>3. k \in Up(k) /\ k \notin Up(j)
      BY <1>4, <3>1
    <3> QED
      BY <3>2, <3>3
  <2>2. r[j] = Cardinality(Up(j)) /\ r[k] = Cardinality(Up(k))
    BY DEF Rank
  <2> HIDE DEF Up, r
  <2> QED
    BY <1>2, <2>1, <2>2, FS_Subset
<1>5. r \in Injection(K, 1..Cardinality(K))
  <2>1. \A j, k \in K : r[j] = r[k] => j = k
    BY <1>4
  <2> HIDE DEF r
  <2> QED
    BY <1>3, <2>1 DEF Injection, IsInjective
<1>6. /\ Cardinality(1..Cardinality(K)) = Cardinality(K)
      /\ IsFiniteSet(1..Cardinality(K))
  BY <1>1, FS_Interval
<1>7. r \in Surjection(K, 1..Cardinality(K))
  <2> HIDE DEF r
  <2> QED
    BY <1>5, <1>6, FS_Injection
<1>8. PICK k \in K : r[k] = n
  <2> HIDE DEF r
  <2> QED
    BY <1>7 DEF Surjection
<1> QED
  BY <1>8

\* What filter returns is a sequence, no longer than the one it was given, of
\* elements that were at the indices asked for.
LEMMA FilterProperties ==
    ASSUME NEW S, NEW s \in Seq(S), NEW K \in SUBSET DOMAIN s
    PROVE  /\ Filter(s, K) \in Seq(S)
           /\ Len(Filter(s, K)) = Cardinality(K)
           /\ Len(Filter(s, K)) \in 0..Len(s)
           /\ \A n \in DOMAIN Filter(s, K) : \E k \in K : Filter(s, K)[n] = s[k]
<1>1. Len(s) \in Nat /\ DOMAIN s = 1..Len(s)
  OBVIOUS
<1>2. Cardinality(K) \in Nat /\ Cardinality(K) <= Len(s)
  BY <1>1, IndicesFinite
<1>3. ASSUME NEW n \in 1..Cardinality(K)
      PROVE  \E k \in K : Filter(s, K)[n] = s[k]
  <2>1. \E k \in K : Rank(K, k) = n
    BY <1>1, RankOnto
  <2>2. (CHOOSE k \in K : Rank(K, k) = n) \in K
    BY <2>1
  <2> QED
    BY <2>2 DEF Filter
<1>4. DOMAIN Filter(s, K) = 1..Cardinality(K)
  BY DEF Filter
<1>5. \A n \in 1..Cardinality(K) : Filter(s, K)[n] \in S
  BY <1>3
<1>6. Filter(s, K) = [n \in 1..Cardinality(K) |-> Filter(s, K)[n]]
  BY DEF Filter
<1>7. Filter(s, K) \in Seq(S)
  <2> DEFINE F == Filter(s, K)
  <2> HIDE DEF F
  <2>1. F \in [1..Cardinality(K) -> S]
    BY <1>5, <1>6 DEF F
  <2> QED
    BY <1>2, <2>1 DEF F
<1>8. Len(Filter(s, K)) = Cardinality(K)
  BY <1>2, <1>4, <1>7
<1> QED
  BY <1>1, <1>2, <1>3, <1>4, <1>7, <1>8
=============================================================================
