-------------------------- MODULE SortedSetsProofs ---------------------------
(***************************************************************************)
(* What Sorted and Kept return, for every finite set of integers and every *)
(* sequence.  Sorted(ids) is well defined because the number of elements   *)
(* below is a bijection from ids to 0 .. Cardinality(ids) - 1 (Ranks).     *)
(***************************************************************************)
EXTENDS SortedSets, FiniteSetTheorems, FunctionTheorems, TLAPS

Rank(ids, i) == Cardinality({j \in ids : j < i})

LEMMA Ranks ==
    ASSUME NEW ids \in SUBSET Int, IsFiniteSet(ids)
    PROVE  /\ Cardinality(ids) \in Nat
           /\ \A i \in ids : Rank(ids, i) \in 0 .. Cardinality(ids) - 1
           /\ \A i, j \in ids : i < j => Rank(ids, i) < Rank(ids, j)
           /\ \A k \in 1 .. Cardinality(ids) : \E i \in ids : Rank(ids, i) = k - 1
<1> DEFINE n == Cardinality(ids)
           Below(i) == {j \in ids : j < i}
<1>1. n \in Nat
  BY FS_CardinalityType
<1>2. ASSUME NEW i \in ids
      PROVE  /\ IsFiniteSet(Below(i)) /\ Cardinality(Below(i)) \in Nat
             /\ Cardinality(Below(i)) < n
  <2>1. Below(i) \in SUBSET ids /\ Below(i) # ids
    <3>1. i \notin Below(i)
      OBVIOUS
    <3> QED BY <3>1
  <2>2. IsFiniteSet(Below(i)) /\ Cardinality(Below(i)) <= n /\ n # Cardinality(Below(i))
    BY <2>1, FS_Subset
  <2>3. Cardinality(Below(i)) \in Nat
    BY <2>2, FS_CardinalityType
  <2> QED BY <1>1, <2>2, <2>3
<1>3. ASSUME NEW i \in ids, NEW j \in ids, i < j
      PROVE  Cardinality(Below(i)) < Cardinality(Below(j))
  <2>1. Below(i) \in SUBSET Below(j)
    <3>1. SUFFICES ASSUME NEW k \in ids, k < i PROVE k < j
      OBVIOUS
    <3>2. i \in Int /\ j \in Int /\ k \in Int
      OBVIOUS
    <3> QED BY <1>3, <3>1, <3>2
  <2>2. i \in Below(j) /\ i \notin Below(i)
    BY <1>3
  <2>3. Below(i) # Below(j)
    BY <2>2
  <2>4. Cardinality(Below(i)) <= Cardinality(Below(j)) /\ Cardinality(Below(j)) # Cardinality(Below(i))
    BY <1>2, <2>1, <2>3, FS_Subset
  <2> QED BY <1>2, <2>4
<1>4. \A i \in ids : Rank(ids, i) = Cardinality(Below(i))
  BY DEF Rank
<1> HIDE DEF Below
<1>5. \A i \in ids : Rank(ids, i) \in 0 .. n - 1
  BY <1>1, <1>2, <1>4
<1>6. \A i, j \in ids : i < j => Rank(ids, i) < Rank(ids, j)
  BY <1>3, <1>4
<1> DEFINE rank == [i \in ids |-> Rank(ids, i)]
<1>7. \A k \in 1 .. n : \E i \in ids : Rank(ids, i) = k - 1
  <2>1. rank \in [ids -> 0 .. n - 1]
    BY <1>5
  <2>2. \A i, j \in ids : rank[i] = rank[j] => i = j
    <3>1. SUFFICES ASSUME NEW i \in ids, NEW j \in ids, rank[i] = rank[j] PROVE i = j
      OBVIOUS
    <3>2. i \in Int /\ j \in Int /\ rank[i] \in Int /\ rank[j] \in Int
      BY <1>1, <2>1
    <3>3. CASE i < j
      BY <1>6, <3>1, <3>2, <3>3
    <3>4. CASE j < i
      BY <1>6, <3>1, <3>2, <3>4
    <3> QED BY <3>2, <3>3, <3>4
  <2>3. rank \in Injection(ids, 0 .. n - 1)
    BY <2>1, <2>2, Fun_IsInj
  <2>4. IsFiniteSet(0 .. n - 1) /\ Cardinality(0 .. n - 1) = n
    <3>1. n - 1 \in Int /\ 0 \in Int
      BY <1>1
    <3> QED BY <1>1, <3>1, FS_Interval
  <2>5. rank \in Surjection(ids, 0 .. n - 1)
    BY <2>3, <2>4, FS_Injection
  <2>6. \A t \in 0 .. n - 1 : \E i \in ids : rank[i] = t
    BY <2>5 DEF Surjection
  <2>7. SUFFICES ASSUME NEW k \in 1 .. n PROVE \E i \in ids : Rank(ids, i) = k - 1
    OBVIOUS
  <2>8. k - 1 \in 0 .. n - 1
    BY <1>1
  <2> QED BY <2>6, <2>8
<1> QED BY <1>1, <1>5, <1>6, <1>7

\* Sorted lists the elements of a finite set, each once, in ascending order.
LEMMA SortedProperties ==
    ASSUME NEW ids \in SUBSET Int, IsFiniteSet(ids)
    PROVE  /\ Sorted(ids) \in Seq(ids) /\ Len(Sorted(ids)) = Cardinality(ids)
           /\ DOMAIN Sorted(ids) = 1 .. Cardinality(ids)
           /\ \A k \in 1 .. Cardinality(ids) :
                 Sorted(ids)[k] \in ids /\ Rank(ids, Sorted(ids)[k]) = k - 1
           /\ \A k, m \in 1 .. Cardinality(ids) : k < m => Sorted(ids)[k] < Sorted(ids)[m]
           /\ \A i \in ids : \E k \in 1 .. Cardinality(ids) : Sorted(ids)[k] = i
<1> DEFINE n == Cardinality(ids)
           s == Sorted(ids)
<1>1. n \in Nat
  BY Ranks
<1>2. /\ \A k \in 1 .. n : s[k] \in ids /\ Rank(ids, s[k]) = k - 1
      /\ s = [k \in 1 .. n |-> s[k]]
  <2>1. s = [k \in 1 .. n |-> CHOOSE i \in ids : Rank(ids, i) = k - 1]
    BY DEF Sorted, Rank
  <2>2. ASSUME NEW k \in 1 .. n
        PROVE  s[k] \in ids /\ Rank(ids, s[k]) = k - 1
    <3>1. \E i \in ids : Rank(ids, i) = k - 1
      BY Ranks
    <3>2. s[k] = CHOOSE i \in ids : Rank(ids, i) = k - 1
      BY <2>1
    <3> QED BY <3>1, <3>2
  <2> QED BY <2>1, <2>2
<1> HIDE DEF s
<1>3. s \in Seq(ids) /\ Len(s) = n /\ DOMAIN s = 1 .. n
  <2>1. s \in [1 .. n -> ids]
    BY <1>2
  <2> QED BY <1>1, <2>1
<1>4. \A k, m \in 1 .. n : k < m => s[k] < s[m]
  <2>1. SUFFICES ASSUME NEW k \in 1 .. n, NEW m \in 1 .. n, k < m PROVE s[k] < s[m]
    OBVIOUS
  <2>2. s[k] \in ids /\ s[m] \in ids /\ Rank(ids, s[k]) < Rank(ids, s[m])
        /\ Rank(ids, s[k]) \in Int /\ Rank(ids, s[m]) \in Int
    BY <1>1, <1>2, <2>1
  <2>3. s[k] \in Int /\ s[m] \in Int
    BY <2>2
  <2>4. CASE s[k] = s[m]
    BY <2>2, <2>4
  <2>5. CASE s[m] < s[k]
    <3>1. Rank(ids, s[m]) < Rank(ids, s[k])
      BY <2>2, <2>5, Ranks
    <3> QED BY <2>2, <3>1
  <2> QED BY <2>3, <2>4, <2>5
<1>5. \A i \in ids : \E k \in 1 .. n : s[k] = i
  <2>1. SUFFICES ASSUME NEW i \in ids PROVE \E k \in 1 .. n : s[k] = i
    OBVIOUS
  <2> DEFINE k == Rank(ids, i) + 1
  <2>2. k \in 1 .. n /\ Rank(ids, i) = k - 1 /\ Rank(ids, i) \in Int
    BY <1>1, Ranks
  <2>3. s[k] \in ids /\ Rank(ids, s[k]) = Rank(ids, i)
    BY <1>2, <2>2
  <2>4. s[k] \in Int /\ i \in Int
    BY <2>3
  <2>5. ~(s[k] < i) /\ ~(i < s[k])
    <3>1. \A j \in ids : j < i => Rank(ids, j) < Rank(ids, i)
      BY Ranks
    <3>2. \A j \in ids : i < j => Rank(ids, i) < Rank(ids, j)
      BY Ranks
    <3> HIDE DEF k
    <3>3. ~(Rank(ids, s[k]) < Rank(ids, i)) /\ ~(Rank(ids, i) < Rank(ids, s[k]))
      BY <2>2, <2>3
    <3> QED BY <2>3, <3>1, <3>2, <3>3
  <2> QED BY <2>2, <2>4, <2>5
<1> QED BY <1>2, <1>3, <1>4, <1>5 DEF s

\* Consecutive numbers are sorted as they are.
LEMMA SortedInterval ==
    ASSUME NEW b \in Nat, NEW n \in Nat
    PROVE  Sorted(b .. b + n - 1) = [k \in 1 .. n |-> b + k - 1]
<1> DEFINE ids == b .. b + n - 1
<1>1. b + n - 1 \in Int /\ ids \in SUBSET Int
  OBVIOUS
<1>2. IsFiniteSet(ids) /\ Cardinality(ids) = n
  BY <1>1, FS_Interval
<1>3. \A i \in ids : Rank(ids, i) = i - b
  <2>1. SUFFICES ASSUME NEW i \in ids PROVE Rank(ids, i) = i - b
    OBVIOUS
  <2>2. i \in Int /\ i - 1 \in Int /\ b \in Int /\ i >= b /\ i <= b + n - 1
    OBVIOUS
  <2>3. {j \in ids : j < i} = b .. i - 1
    BY <2>2
  <2>4. Cardinality(b .. i - 1) = i - b
    <3>1. Cardinality(b .. i - 1) = IF b > i - 1 THEN 0 ELSE (i - 1) - b + 1
      <4> DEFINE c == i - 1
      <4>1. c \in Int /\ b \in Int
        BY <2>2
      <4> HIDE DEF c
      <4>2. Cardinality(b .. c) = IF b > c THEN 0 ELSE c - b + 1
        BY <4>1, FS_Interval
      <4> QED BY <4>2 DEF c
    <3> QED BY <2>2, <3>1
  <2> QED BY <2>3, <2>4 DEF Rank
<1> HIDE DEF ids
<1>4. ASSUME NEW k \in 1 .. n
      PROVE  Sorted(ids)[k] = b + k - 1
  <2>1. Sorted(ids)[k] \in ids /\ Rank(ids, Sorted(ids)[k]) = k - 1
    BY <1>1, <1>2, SortedProperties
  <2>2. Sorted(ids)[k] \in Int /\ Sorted(ids)[k] - b = k - 1
    BY <1>1, <1>3, <2>1
  <2> QED BY <2>2
<1>5. Sorted(ids) \in Seq(ids) /\ DOMAIN Sorted(ids) = 1 .. n
  BY <1>1, <1>2, SortedProperties
<1>6. Sorted(ids) = [k \in 1 .. n |-> Sorted(ids)[k]]
  BY <1>5
<1> QED BY <1>4, <1>6 DEF ids

\* A set of integers that is finite and not empty has a least and a greatest element.
LEMMA LeastAndGreatest ==
    ASSUME NEW ids \in SUBSET Int, IsFiniteSet(ids), ids # {}
    PROVE  /\ \E i \in ids : \A j \in ids : i <= j
           /\ \E i \in ids : \A j \in ids : i >= j
<1> DEFINE n == Cardinality(ids)
           s == Sorted(ids)
<1>1. n \in Nat /\ n # 0
  BY FS_CardinalityType, FS_EmptySet
<1>2. \A k \in 1 .. n : s[k] \in ids /\ s[k] \in Int
  BY SortedProperties
<1>3. \A k, m \in 1 .. n : k < m => s[k] < s[m]
  BY SortedProperties
<1>4. \A i \in ids : \E k \in 1 .. n : s[k] = i
  BY SortedProperties
<1> HIDE DEF s
<1>5. 1 \in 1 .. n /\ n \in 1 .. n
  BY <1>1
<1>6. \A k \in 1 .. n : s[1] <= s[k] /\ s[n] >= s[k]
  <2>1. SUFFICES ASSUME NEW k \in 1 .. n PROVE s[1] <= s[k] /\ s[n] >= s[k]
    OBVIOUS
  <2>2. k = 1 \/ 1 < k
    BY <1>1
  <2>3. k = n \/ k < n
    BY <1>1
  <2> QED BY <1>2, <1>3, <1>5, <2>2, <2>3
<1> QED BY <1>2, <1>4, <1>5, <1>6

\* What is kept of a sequence.
LEMMA KeptProperties ==
    ASSUME NEW T, NEW s \in Seq(T), NEW set
    PROVE  /\ Kept(s, set) \in Seq(T) /\ Len(Kept(s, set)) <= Len(s)
           /\ Contents(Kept(s, set)) = Contents(s) \intersect set
           /\ T \subseteq Int /\ (\A i, j \in DOMAIN s : i < j => s[i] < s[j]) =>
                 \A i, j \in DOMAIN Kept(s, set) : i < j => Kept(s, set)[i] < Kept(s, set)[j]
           /\ Contents(s) \subseteq set => Kept(s, set) = s
<1> DEFINE ids == {i \in DOMAIN s : s[i] \in set}
           at == Sorted(ids)
           n == Cardinality(ids)
           kept == Kept(s, set)
<1>1. Len(s) \in Nat /\ DOMAIN s = 1 .. Len(s)
  OBVIOUS
<1>2. ids \in SUBSET Int /\ IsFiniteSet(ids)
  <2>1. IsFiniteSet(1 .. Len(s))
    BY <1>1, FS_Interval
  <2> QED BY <1>1, <2>1, FS_Subset
<1>3. n \in Nat /\ n <= Len(s)
  <2>1. IsFiniteSet(1 .. Len(s)) /\ Cardinality(1 .. Len(s)) = Len(s)
    BY <1>1, FS_Interval
  <2>2. ids \in SUBSET (1 .. Len(s))
    BY <1>1
  <2> HIDE DEF ids
  <2> QED BY <1>2, <2>1, <2>2, FS_CardinalityType, FS_Subset
<1>4. /\ DOMAIN at = 1 .. n /\ \A k \in 1 .. n : at[k] \in ids
      /\ \A k, m \in 1 .. n : k < m => at[k] < at[m]
      /\ \A i \in ids : \E k \in 1 .. n : at[k] = i
  BY <1>2, SortedProperties
<1>5. kept = [k \in DOMAIN at |-> s[at[k]]]
  BY DEF Kept
<1>6. Contents(s) \subseteq set => kept = s
  <2>1. SUFFICES ASSUME Contents(s) \subseteq set PROVE kept = s
    OBVIOUS
  <2>2. ids = 1 .. Len(s)
    BY <1>1, <2>1 DEF Contents
  <2>3. Sorted(1 .. 1 + Len(s) - 1) = [k \in 1 .. Len(s) |-> 1 + k - 1]
    BY <1>1, SortedInterval
  <2>4. 1 + Len(s) - 1 = Len(s) /\ \A k \in 1 .. Len(s) : 1 + k - 1 = k
    BY <1>1
  <2>5. at = [k \in 1 .. Len(s) |-> k]
    BY <2>2, <2>3, <2>4
  <2>6. kept = [k \in 1 .. Len(s) |-> s[k]]
    BY <1>5, <2>5
  <2> QED BY <1>1, <2>6
<1> HIDE DEF at, kept, n
<1>7. kept \in Seq(T) /\ DOMAIN kept = 1 .. n /\ Len(kept) = n
  <2>1. \A k \in 1 .. n : s[at[k]] \in T
    BY <1>1, <1>4
  <2>2. kept \in [1 .. n -> T]
    BY <1>4, <1>5, <2>1
  <2> QED BY <1>3, <2>2
<1>8. Contents(kept) = Contents(s) \intersect set
  <2>1. \A k \in 1 .. n : kept[k] \in Contents(s) \intersect set
    BY <1>4, <1>5 DEF Contents
  <2>2. ASSUME NEW x \in Contents(s) \intersect set
        PROVE  \E k \in 1 .. n : kept[k] = x
    <3>1. PICK i \in DOMAIN s : s[i] = x
      BY DEF Contents
    <3>2. PICK k \in 1 .. n : at[k] = i
      BY <1>4, <2>2, <3>1
    <3> QED BY <1>4, <1>5, <3>1, <3>2
  <2> QED BY <1>7, <2>1, <2>2 DEF Contents
<1>9. ASSUME T \subseteq Int, \A i, j \in DOMAIN s : i < j => s[i] < s[j]
      PROVE  \A i, j \in DOMAIN kept : i < j => kept[i] < kept[j]
  <2>1. SUFFICES ASSUME NEW i \in 1 .. n, NEW j \in 1 .. n, i < j PROVE kept[i] < kept[j]
    BY <1>7
  <2>2. at[i] \in DOMAIN s /\ at[j] \in DOMAIN s /\ at[i] < at[j]
    BY <1>4, <2>1
  <2> QED BY <1>4, <1>5, <1>9, <2>2
<1> QED BY <1>3, <1>6, <1>7, <1>8, <1>9 DEF kept
=============================================================================
