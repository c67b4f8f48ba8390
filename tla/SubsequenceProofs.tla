--------------------------- MODULE SubsequenceProofs ---------------------------
(***************************************************************************)
(* Lemmas about Subsequences: what is kept of a sequence, in which order,  *)
(* and that a sorted sequence has the elements it had before.              *)
(***************************************************************************)
EXTENDS Subsequences, FiniteSetTheorems, TLAPS

(* The rank of a member of a finite set under a total order, which is a    *)
(* set of pairs here: how many members come before it, itself included.    *)
OrderRank(L, R) == [i \in L |-> Cardinality({j \in L : <<j, i>> \in R})]

TotalOrder(L, R) ==
  /\ \A i \in L : <<i, i>> \in R
  /\ \A i, j \in L : <<i, j>> \in R \/ <<j, i>> \in R
  /\ \A i, j \in L : <<i, j>> \in R /\ <<j, i>> \in R => i = j
  /\ \A i, j, k \in L : <<i, j>> \in R /\ <<j, k>> \in R => <<i, k>> \in R

(* Ranks are positions: they run from 1 to the size of the set, each is    *)
(* taken once, and they rise with the order.                               *)
LEMMA RanksArePositions ==
  ASSUME NEW L, IsFiniteSet(L), NEW R, TotalOrder(L, R)
  PROVE  /\ \A i \in L : OrderRank(L, R)[i] \in 1..Cardinality(L)
         /\ \A i, j \in L : OrderRank(L, R)[i] <= OrderRank(L, R)[j]
                              <=> <<i, j>> \in R
         /\ \A i, j \in L : OrderRank(L, R)[i] = OrderRank(L, R)[j] => i = j
         /\ \A n \in 1..Cardinality(L) : \E i \in L : OrderRank(L, R)[i] = n
<1> DEFINE B(i) == {j \in L : <<j, i>> \in R}
           r == OrderRank(L, R)
<1>1. Cardinality(L) \in Nat
  BY FS_CardinalityType
<1>2. ASSUME NEW i \in L
      PROVE  IsFiniteSet(B(i)) /\ r[i] = Cardinality(B(i)) /\ r[i] \in 1..Cardinality(L)
  <2>1. B(i) \in SUBSET L /\ i \in B(i)
    BY DEF TotalOrder
  <2>2. IsFiniteSet(B(i)) /\ Cardinality(B(i)) <= Cardinality(L)
    BY <2>1, FS_Subset
  <2>3. Cardinality(B(i)) \in Nat /\ Cardinality(B(i)) # 0
    BY <2>1, <2>2, FS_CardinalityType, FS_EmptySet
  <2>4. r[i] = Cardinality(B(i))
    BY DEF OrderRank
  <2>5. QED
    BY <1>1, <2>2, <2>3, <2>4
<1>12. \A i \in L : r[i] \in Int
  <2>1. 1..Cardinality(L) \subseteq Int
    BY <1>1
  <2>2. QED
    BY <1>2, <2>1
<1>3. ASSUME NEW i \in L, NEW j \in L, <<i, j>> \in R PROVE r[i] <= r[j]
  <2>1. B(i) \in SUBSET B(j)
    BY <1>3 DEF TotalOrder
  <2>2. Cardinality(B(i)) <= Cardinality(B(j))
    BY <1>2, <2>1, FS_Subset
  <2>3. QED
    BY <1>2, <2>2
<1>4. ASSUME NEW i \in L, NEW j \in L, <<i, j>> \in R, i # j PROVE r[i] # r[j]
  <2>1. B(i) \in SUBSET B(j) /\ j \in B(j) /\ j \notin B(i)
    BY <1>4 DEF TotalOrder
  <2>2. Cardinality(B(j)) # Cardinality(B(i))
    BY <1>2, <2>1, FS_Subset
  <2>3. QED
    BY <1>2, <2>2
<1>5. \A i, j \in L : r[i] = r[j] => i = j
  BY <1>4 DEF TotalOrder
<1>6. \A i, j \in L : r[i] <= r[j] <=> <<i, j>> \in R
  <2> SUFFICES ASSUME NEW i \in L, NEW j \in L, r[i] <= r[j] PROVE <<i, j>> \in R
    BY <1>3
  <2>1. r[i] \in Int /\ r[j] \in Int
    BY <1>12
  <2>2. CASE <<j, i>> \in R
    <3>1. r[j] = r[i]
      BY <1>3, <2>1, <2>2
    <3>2. QED
      BY <1>5, <2>2, <3>1
  <2>3. QED
    BY <2>2 DEF TotalOrder
<1>7. r \in Injection(L, 1..Cardinality(L))
  <2>1. r \in [L -> 1..Cardinality(L)]
    BY <1>2 DEF OrderRank
  <2>2. QED
    BY <1>5, <2>1 DEF Injection, IsInjective
<1>8. IsFiniteSet(1..Cardinality(L)) /\ Cardinality(1..Cardinality(L)) = Cardinality(L)
  BY <1>1, FS_Interval
<1>9. r \in Surjection(L, 1..Cardinality(L))
  BY <1>7, <1>8, FS_Injection
<1>10. \A n \in 1..Cardinality(L) : \E i \in L : r[i] = n
  BY <1>9 DEF Surjection
<1>11. QED
  BY <1>2, <1>5, <1>6, <1>10

(* The same for integers in their own order, the positions of a sequence   *)
(* for one: there is an n-th smallest for every n up to their number.      *)
LEMMA NthSmallest ==
  ASSUME NEW K \in SUBSET Int, IsFiniteSet(K)
  PROVE  /\ Cardinality(K) \in Nat
         /\ \A k \in K : Rank(K, k) \in 1..Cardinality(K) /\ Nth(K, Rank(K, k)) = k
         /\ \A n \in 1..Cardinality(K) : Nth(K, n) \in K /\ Rank(K, Nth(K, n)) = n
         /\ \A m, n \in 1..Cardinality(K) : m < n => Nth(K, m) < Nth(K, n)
<1> DEFINE R == {p \in K \X K : p[1] <= p[2]}
<1>1. TotalOrder(K, R)
  BY DEF TotalOrder
<1>2. \A i \in K : OrderRank(K, R)[i] = Rank(K, i)
  <2> SUFFICES ASSUME NEW i \in K PROVE OrderRank(K, R)[i] = Rank(K, i)
    OBVIOUS
  <2>1. {j \in K : <<j, i>> \in R} = {j \in K : j <= i}
    OBVIOUS
  <2>2. QED
    BY <2>1 DEF OrderRank, Rank
<1> HIDE DEF R
<1>3. Cardinality(K) \in Nat
  BY FS_CardinalityType
<1>4. /\ \A k \in K : Rank(K, k) \in 1..Cardinality(K)
      /\ \A j, k \in K : Rank(K, j) = Rank(K, k) => j = k
      /\ \A n \in 1..Cardinality(K) : \E k \in K : Rank(K, k) = n
  <2>1. /\ \A k \in K : OrderRank(K, R)[k] \in 1..Cardinality(K)
        /\ \A j, k \in K : OrderRank(K, R)[j] = OrderRank(K, R)[k] => j = k
        /\ \A n \in 1..Cardinality(K) : \E k \in K : OrderRank(K, R)[k] = n
    <3>1. \A k \in K : OrderRank(K, R)[k] \in 1..Cardinality(K)
      BY <1>1, RanksArePositions
    <3>2. \A j, k \in K : OrderRank(K, R)[j] = OrderRank(K, R)[k] => j = k
      BY <1>1, RanksArePositions
    <3>3. \A n \in 1..Cardinality(K) : \E k \in K : OrderRank(K, R)[k] = n
      BY <1>1, RanksArePositions
    <3>4. QED
      BY <3>1, <3>2, <3>3
  <2>2. QED
    BY <1>2, <2>1
<1>5. \A j, k \in K : Rank(K, j) <= Rank(K, k) <=> j <= k
  <2>1. \A j, k \in K : Rank(K, j) <= Rank(K, k) <=> <<j, k>> \in R
    <3>1. \A j, k \in K :
            OrderRank(K, R)[j] <= OrderRank(K, R)[k] <=> <<j, k>> \in R
      BY <1>1, RanksArePositions
    <3>2. QED
      BY <1>2, <3>1
  <2>2. QED
    BY <2>1 DEF R
<1>6. \A n \in 1..Cardinality(K) : Nth(K, n) \in K /\ Rank(K, Nth(K, n)) = n
  BY <1>4 DEF Nth
<1>7. \A k \in K : Nth(K, Rank(K, k)) = k
  <2> SUFFICES ASSUME NEW k \in K PROVE Nth(K, Rank(K, k)) = k
    OBVIOUS
  <2>1. Rank(K, k) \in 1..Cardinality(K)
    BY <1>4
  <2>2. /\ Nth(K, Rank(K, k)) \in K
        /\ Rank(K, Nth(K, Rank(K, k))) = Rank(K, k)
    BY <1>6, <2>1
  <2>3. QED
    BY <1>4, <2>2
<1>8. ASSUME NEW m \in 1..Cardinality(K), NEW n \in 1..Cardinality(K), m < n
      PROVE  Nth(K, m) < Nth(K, n)
  <2>1. ~(Nth(K, n) <= Nth(K, m))
    <3>1. /\ Nth(K, n) \in K /\ Rank(K, Nth(K, n)) = n
          /\ Nth(K, m) \in K /\ Rank(K, Nth(K, m)) = m
      BY <1>6
    <3>2. ~(n <= m)
      BY <1>3, <1>8
    <3>3. Rank(K, Nth(K, n)) <= Rank(K, Nth(K, m)) <=> Nth(K, n) <= Nth(K, m)
      <4>1. Nth(K, n) \in K /\ Nth(K, m) \in K
        BY <3>1
      <4>2. QED
        BY <1>5, <4>1
    <3>4. QED
      BY <3>1, <3>2, <3>3
  <2>2. Nth(K, n) \in Int /\ Nth(K, m) \in Int
    BY <1>6
  <2>3. QED
    BY <2>1, <2>2
<1>9. QED
  BY <1>3, <1>4, <1>6, <1>7, <1>8

(* A finite set of integers that is not empty has a greatest member.       *)
LEMMA Greatest ==
  ASSUME NEW K \in SUBSET Int, IsFiniteSet(K), K # {}
  PROVE  \E k \in K : \A j \in K : j <= k
<1>1. Cardinality(K) \in Nat /\ Cardinality(K) # 0
  BY FS_EmptySet, FS_CardinalityType
<1>2. PICK k \in K : Rank(K, k) = Cardinality(K)
  <2>1. Cardinality(K) \in 1..Cardinality(K)
    BY <1>1
  <2>2. \A n \in 1..Cardinality(K) : Nth(K, n) \in K /\ Rank(K, Nth(K, n)) = n
    BY NthSmallest
  <2>3. QED
    BY <2>1, <2>2
<1>3. {j \in K : j <= k} = K
  BY <1>2, FS_Subset DEF Rank
<1>4. QED
  BY <1>3

(* What is kept of a sequence: the elements at those positions, in their   *)
(* order, each as often as before.                                         *)
LEMMA KeptFacts ==
  ASSUME NEW S, NEW s \in Seq(S), NEW K \in SUBSET (1..Len(s))
  PROVE  /\ IsFiniteSet(K) /\ Cardinality(K) \in 0..Len(s)
         /\ Kept(s, K) \in Seq(S) /\ Len(Kept(s, K)) = Cardinality(K)
         /\ Elements(Kept(s, K)) = {s[k] : k \in K}
         /\ Distinct(s) => Distinct(Kept(s, K))
         /\ K = 1..Len(s) => Kept(s, K) = s
<1>1. Len(s) \in Nat /\ \A i \in 1..Len(s) : s[i] \in S
  OBVIOUS
<1>2. IsFiniteSet(1..Len(s)) /\ Cardinality(1..Len(s)) = Len(s)
  <2>1. 1 \in Int /\ Len(s) \in Int /\ (1 > Len(s) => Len(s) = 0)
    BY <1>1
  <2>2. /\ IsFiniteSet(1..Len(s))
        /\ Cardinality(1..Len(s)) = IF 1 > Len(s) THEN 0 ELSE Len(s) - 1 + 1
    BY <2>1, FS_Interval
  <2>3. QED
    BY <1>1, <2>1, <2>2
<1>3. IsFiniteSet(K) /\ Cardinality(K) \in 0..Len(s) /\ Cardinality(K) \in Nat
  <2>1. IsFiniteSet(K) /\ Cardinality(K) <= Cardinality(1..Len(s))
    BY <1>2, FS_Subset
  <2>2. Cardinality(K) \in Nat
    BY <2>1, FS_CardinalityType
  <2>3. QED
    BY <1>1, <1>2, <2>1, <2>2
<1>4. /\ \A k \in K : Rank(K, k) \in 1..Cardinality(K) /\ Nth(K, Rank(K, k)) = k
      /\ \A n \in 1..Cardinality(K) : Nth(K, n) \in K /\ Rank(K, Nth(K, n)) = n
      /\ \A m, n \in 1..Cardinality(K) : m < n => Nth(K, m) < Nth(K, n)
  BY <1>1, <1>3, NthSmallest
<1>5. Kept(s, K) \in Seq(S) /\ Len(Kept(s, K)) = Cardinality(K)
      /\ \A n \in 1..Cardinality(K) : Kept(s, K)[n] = s[Nth(K, n)]
  <2> DEFINE t == [n \in 1..Cardinality(K) |-> s[Nth(K, n)]]
  <2>1. \A n \in 1..Cardinality(K) : s[Nth(K, n)] \in S
    BY <1>1, <1>4
  <2>2. t \in Seq(S) /\ Len(t) = Cardinality(K)
    BY <1>3, <2>1
  <2>3. QED
    BY <2>2 DEF Kept
<1>6. Elements(Kept(s, K)) = {s[k] : k \in K}
  <2>1. Elements(Kept(s, K)) = {s[Nth(K, n)] : n \in 1..Cardinality(K)}
    BY <1>5 DEF Elements
  <2>2. QED
    BY <1>4, <2>1
<1>7. Distinct(s) => Distinct(Kept(s, K))
  <2> SUFFICES ASSUME Distinct(s), NEW m \in 1..Cardinality(K),
                      NEW n \in 1..Cardinality(K), s[Nth(K, m)] = s[Nth(K, n)]
               PROVE  m = n
    BY <1>5 DEF Distinct
  <2>1. Nth(K, m) \in 1..Len(s) /\ Nth(K, n) \in 1..Len(s)
    BY <1>4
  <2>2. Nth(K, m) = Nth(K, n)
    BY <2>1 DEF Distinct
  <2>3. QED
    BY <1>4, <2>2
<1>8. ASSUME K = 1..Len(s) PROVE Kept(s, K) = s
  <2>1. \A n \in 1..Len(s) : Rank(K, n) = n
    <3> SUFFICES ASSUME NEW n \in 1..Len(s) PROVE Rank(K, n) = n
      OBVIOUS
    <3>1. {j \in K : j <= n} = 1..n
      BY <1>8
    <3>2. QED
      <4>1. n \in Int /\ 1 \in Int /\ ~(1 > n) /\ n - 1 + 1 = n
        OBVIOUS
      <4>2. Cardinality(1..n) = n
        BY <4>1, FS_Interval
      <4>3. QED
        BY <3>1, <4>2 DEF Rank
  <2>2. \A n \in 1..Len(s) : Nth(K, n) = n
    BY <1>2, <1>4, <1>8, <2>1
  <2>3. QED
    BY <1>2, <1>8, <2>2 DEF Kept
<1>9. QED
  BY <1>3, <1>5, <1>6, <1>7, <1>8

(* The positions of the elements that are not dropped from a sequence.     *)
LEMMA RetainedFacts ==
  ASSUME NEW S, NEW s \in Seq(S), NEW T
  PROVE  /\ Retained(s, T) \in Seq(S) /\ Len(Retained(s, T)) <= Len(s)
         /\ Elements(Retained(s, T)) = Elements(s) \cap T
         /\ Distinct(s) => Distinct(Retained(s, T))
<1> DEFINE K == {i \in 1..Len(s) : s[i] \in T}
<1>1. K \in SUBSET (1..Len(s)) /\ Retained(s, T) = Kept(s, K)
  BY DEF Retained
<1>2. Elements(s) \cap T = {s[k] : k \in K}
  BY DEF Elements
<1> HIDE DEF K
<1>3. Kept(s, K) \in Seq(S)
  BY <1>1, KeptFacts
<1>4. Len(Kept(s, K)) = Cardinality(K) /\ Cardinality(K) \in 0..Len(s)
  BY <1>1, KeptFacts
<1>5. Elements(Kept(s, K)) = {s[k] : k \in K}
  BY <1>1, KeptFacts
<1>6. Distinct(s) => Distinct(Kept(s, K))
  BY <1>1, KeptFacts
<1>7. QED
  BY <1>1, <1>2, <1>3, <1>4, <1>5, <1>6

(* A sequence without repetitions is as long as it has elements.           *)
LEMMA DistinctLen ==
  ASSUME NEW S, NEW s \in Seq(S)
  PROVE  /\ IsFiniteSet(Elements(s)) /\ Cardinality(Elements(s)) <= Len(s)
         /\ Distinct(s) => Cardinality(Elements(s)) = Len(s)
<1> DEFINE f == [i \in 1..Len(s) |-> s[i]]
<1>1. Len(s) \in Nat
  OBVIOUS
<1>2. IsFiniteSet(1..Len(s)) /\ Cardinality(1..Len(s)) = Len(s)
  <2>1. 1 \in Int /\ Len(s) \in Int /\ (1 > Len(s) => Len(s) = 0)
    BY <1>1
  <2>2. /\ IsFiniteSet(1..Len(s))
        /\ Cardinality(1..Len(s)) = IF 1 > Len(s) THEN 0 ELSE Len(s) - 1 + 1
    BY <2>1, FS_Interval
  <2>3. QED
    BY <1>1, <2>1, <2>2
<1>3. f \in Surjection(1..Len(s), Elements(s))
  BY DEF Surjection, Elements
<1>4. /\ IsFiniteSet(Elements(s))
      /\ Cardinality(Elements(s)) <= Cardinality(1..Len(s))
      /\ Cardinality(Elements(s)) = Cardinality(1..Len(s))
           <=> f \in Injection(1..Len(s), Elements(s))
  <2> HIDE DEF f
  <2>1. QED
    BY <1>2, <1>3, FS_Surjection
<1>5. ASSUME Distinct(s) PROVE f \in Injection(1..Len(s), Elements(s))
  <2>1. f \in [1..Len(s) -> Elements(s)]
    BY DEF Elements
  <2>2. \A i, j \in 1..Len(s) : f[i] = f[j] => i = j
    BY <1>5 DEF Distinct
  <2>3. QED
    BY <2>1, <2>2 DEF Injection, IsInjective
<1>6. QED
  BY <1>2, <1>4, <1>5

(* Dropping one element from a sequence.                                   *)
LEMMA WithoutFacts ==
  ASSUME NEW S, NEW s \in Seq(S), NEW x
  PROVE  /\ Without(s, x) \in Seq(S) /\ Len(Without(s, x)) <= Len(s)
         /\ Elements(Without(s, x)) = Elements(s) \ {x}
         /\ Distinct(s) => Distinct(Without(s, x))
         /\ x \notin Elements(s) => Without(s, x) = s
         /\ Distinct(s) /\ x \in Elements(s) => Len(Without(s, x)) = Len(s) - 1
<1> DEFINE K == {i \in 1..Len(s) : s[i] # x}
<1>1. K \in SUBSET (1..Len(s)) /\ Without(s, x) = Kept(s, K)
  BY DEF Without
<1>2. Elements(s) \ {x} = {s[k] : k \in K}
  BY DEF Elements
<1>7. x \notin Elements(s) => K = 1..Len(s)
  BY DEF Elements
<1> HIDE DEF K
<1>3. Kept(s, K) \in Seq(S)
  BY <1>1, KeptFacts
<1>4. Len(Kept(s, K)) = Cardinality(K) /\ Cardinality(K) \in 0..Len(s)
  BY <1>1, KeptFacts
<1>5. Elements(Kept(s, K)) = {s[k] : k \in K}
  BY <1>1, KeptFacts
<1>6. Distinct(s) => Distinct(Kept(s, K))
  BY <1>1, KeptFacts
<1>8. K = 1..Len(s) => Kept(s, K) = s
  BY <1>1, KeptFacts
<1>9. ASSUME Distinct(s), x \in Elements(s) PROVE Len(Without(s, x)) = Len(s) - 1
  <2>1. IsFiniteSet(Elements(s)) /\ Cardinality(Elements(s)) = Len(s)
    BY <1>9, DistinctLen
  <2>2. Cardinality(Elements(s) \ {x}) = Cardinality(Elements(s)) - 1
    BY <1>9, <2>1, FS_RemoveElement
  <2>3. Cardinality(Elements(Without(s, x))) = Len(Without(s, x))
    BY <1>1, <1>3, <1>6, <1>9, DistinctLen
  <2>4. QED
    BY <1>1, <1>2, <1>5, <2>1, <2>2, <2>3
<1>10. QED
  BY <1>1, <1>2, <1>3, <1>4, <1>5, <1>6, <1>7, <1>8, <1>9

(* Appending an element.                                                   *)
LEMMA AppendFacts ==
  ASSUME NEW S, NEW s \in Seq(S), NEW x \in S
  PROVE  /\ Append(s, x) \in Seq(S) /\ Len(Append(s, x)) = Len(s) + 1
         /\ Elements(Append(s, x)) = Elements(s) \cup {x}
         /\ Distinct(s) /\ x \notin Elements(s) => Distinct(Append(s, x))
<1>1. Append(s, x) \in Seq(S) /\ Len(Append(s, x)) = Len(s) + 1 /\ Len(s) \in Nat
  OBVIOUS
<1>2. /\ \A i \in 1..Len(s) : Append(s, x)[i] = s[i]
      /\ Append(s, x)[Len(s) + 1] = x
  OBVIOUS
<1>3. 1..Len(s) + 1 = (1..Len(s)) \cup {Len(s) + 1}
  BY <1>1
<1>4. Elements(Append(s, x)) = Elements(s) \cup {x}
  BY <1>1, <1>2, <1>3 DEF Elements
<1>5. Distinct(s) /\ x \notin Elements(s) => Distinct(Append(s, x))
  BY <1>1, <1>2, <1>3 DEF Elements, Distinct
<1>6. QED
  BY <1>1, <1>4, <1>5

(* Putting another element at a position, if the sequence has it.          *)
LEMMA ReplaceFacts ==
  ASSUME NEW S, NEW s \in Seq(S), NEW i, NEW v \in S
  PROVE  /\ [s EXCEPT ![i] = v] \in Seq(S)
         /\ Len([s EXCEPT ![i] = v]) = Len(s)
         /\ \A j \in 1..Len(s) : [s EXCEPT ![i] = v][j] = IF j = i THEN v ELSE s[j]
<1> DEFINE t == [j \in 1..Len(s) |-> IF j = i THEN v ELSE s[j]]
<1>1. Len(s) \in Nat /\ DOMAIN s = 1..Len(s) /\ \A j \in 1..Len(s) : s[j] \in S
  OBVIOUS
<1>2. [s EXCEPT ![i] = v] = t
  BY <1>1
<1>3. \A j \in 1..Len(s) : (IF j = i THEN v ELSE s[j]) \in S
  BY <1>1
<1>4. t \in Seq(S) /\ Len(t) = Len(s)
  BY <1>1, <1>3
<1>5. QED
  BY <1>2, <1>4

(* Taking the last element off, as a stack does.                           *)
LEMMA PopFacts ==
  ASSUME NEW S, NEW s \in Seq(S), s # <<>>
  PROVE  /\ Len(s) \in Nat \ {0} /\ s[Len(s)] \in Elements(s)
         /\ SubSeq(s, 1, Len(s) - 1) \in Seq(S)
         /\ Len(SubSeq(s, 1, Len(s) - 1)) = Len(s) - 1
         /\ Elements(SubSeq(s, 1, Len(s) - 1)) \subseteq Elements(s)
         /\ Distinct(s) =>
              /\ Elements(SubSeq(s, 1, Len(s) - 1)) = Elements(s) \ {s[Len(s)]}
              /\ Distinct(SubSeq(s, 1, Len(s) - 1))
<1>1. Len(s) \in Nat \ {0}
  OBVIOUS
<1> DEFINE t == SubSeq(s, 1, Len(s) - 1)
<1>2. t \in Seq(S) /\ Len(t) = Len(s) - 1 /\ \A i \in 1..Len(s) - 1 : t[i] = s[i]
  <2>1. Len(s) - 1 \in Nat /\ \A i \in 1..Len(s) - 1 : i \in 1..Len(s)
    BY <1>1
  <2>2. \A i \in 1..Len(s) - 1 : s[i] \in S
    BY <2>1
  <2>3. t = [i \in 1..Len(s) - 1 |-> s[i]]
    BY <1>1, <2>1
  <2> HIDE DEF t
  <2>4. \A i \in 1..Len(s) - 1 : t[i] = s[i]
    BY <2>3
  <2>5. [i \in 1..Len(s) - 1 |-> s[i]] \in Seq(S)
    BY <2>1, <2>2
  <2>6. Len([i \in 1..Len(s) - 1 |-> s[i]]) = Len(s) - 1
    BY <2>1
  <2>7. QED
    BY <2>3, <2>4, <2>5, <2>6
<1> HIDE DEF t
<1>3. 1..Len(s) = (1..Len(s) - 1) \cup {Len(s)} /\ Len(s) \notin 1..Len(s) - 1
  BY <1>1
<1>4. Distinct(s) => Elements(t) = Elements(s) \ {s[Len(s)]} /\ Distinct(t)
  BY <1>1, <1>2, <1>3 DEF Elements, Distinct
<1>5. Elements(t) \subseteq Elements(s) /\ s[Len(s)] \in Elements(s)
  BY <1>1, <1>2, <1>3 DEF Elements
<1>6. QED
  BY <1>1, <1>2, <1>4, <1>5 DEF t

(* Dropping the first n elements.                                          *)
LEMMA DropFacts ==
  ASSUME NEW S, NEW s \in Seq(S), NEW n \in 0..Len(s)
  PROVE  /\ SubSeq(s, n + 1, Len(s)) \in Seq(S)
         /\ Len(SubSeq(s, n + 1, Len(s))) = Len(s) - n
         /\ Elements(SubSeq(s, n + 1, Len(s))) \subseteq Elements(s)
<1> DEFINE t == SubSeq(s, n + 1, Len(s))
<1>1. /\ Len(s) \in Nat /\ Len(s) - n \in Nat
      /\ \A i \in 1..Len(s) - n : i + n \in 1..Len(s)
  OBVIOUS
<1>2. \A i \in 1..Len(s) - n : s[i + n] \in S
  BY <1>1
<1>3. t = [i \in 1..Len(s) - n |-> s[i + n]]
  BY <1>1
<1> HIDE DEF t
<1>4. t \in Seq(S) /\ Len(t) = Len(s) - n
  BY <1>1, <1>2, <1>3
<1>5. Elements(t) \subseteq Elements(s)
  BY <1>1, <1>3, <1>4 DEF Elements
<1>6. QED
  BY <1>4, <1>5 DEF t

(* Taking the first element off, as a queue does.                          *)
LEMMA TailFacts ==
  ASSUME NEW S, NEW s \in Seq(S), s # <<>>
  PROVE  /\ Len(s) \in Nat \ {0} /\ Head(s) \in S /\ Head(s) \in Elements(s)
         /\ Head(s) = s[1]
         /\ Tail(s) \in Seq(S) /\ Len(Tail(s)) = Len(s) - 1
         /\ \A i \in 1..Len(s) - 1 : Tail(s)[i] = s[i + 1]
         /\ Elements(s) = {Head(s)} \cup Elements(Tail(s))
         /\ Distinct(s) => Head(s) \notin Elements(Tail(s)) /\ Distinct(Tail(s))
<1>1. /\ Len(s) \in Nat \ {0} /\ Head(s) = s[1] /\ s[1] \in S
      /\ Tail(s) \in Seq(S) /\ Len(Tail(s)) = Len(s) - 1
      /\ \A i \in 1..Len(s) - 1 : Tail(s)[i] = s[i + 1]
  OBVIOUS
<1>2. \A i \in 1..Len(s) : i = 1 \/ (i - 1 \in 1..Len(s) - 1 /\ Tail(s)[i - 1] = s[i])
  BY <1>1
<1>3. \A i \in 1..Len(s) - 1 : i + 1 \in 1..Len(s) /\ i + 1 # 1
  BY <1>1
<1>4. Elements(s) = {Head(s)} \cup Elements(Tail(s))
  <2> DEFINE t == Tail(s)
             n == Len(s)
  <2>1. n \in Nat \ {0} /\ Len(t) = n - 1 /\ Head(s) = s[1]
    BY <1>1
  <2>2. \A i \in 1..n : i = 1 \/ (i - 1 \in 1..n - 1 /\ t[i - 1] = s[i])
    BY <1>2
  <2>3. \A i \in 1..n - 1 : i + 1 \in 1..n /\ t[i] = s[i + 1]
    BY <1>1, <1>3
  <2>4. 1 \in 1..n
    BY <2>1
  <2> HIDE DEF t, n
  <2>5. {s[i] : i \in 1..n} = {s[1]} \cup {t[i] : i \in 1..n - 1}
    <3>1. ASSUME NEW i \in 1..n
          PROVE  s[i] = s[1] \/ \E j \in 1..n - 1 : s[i] = t[j]
      BY <2>2
    <3>2. ASSUME NEW j \in 1..n - 1 PROVE \E i \in 1..n : t[j] = s[i]
      BY <2>3
    <3>3. QED
      BY <2>4, <3>1, <3>2
  <2>6. Elements(s) = {s[i] : i \in 1..n} /\ Elements(t) = {t[i] : i \in 1..n - 1}
    BY <2>1 DEF Elements, n
  <2>7. QED
    BY <2>1, <2>5, <2>6 DEF t
<1>5. Distinct(s) => Head(s) \notin Elements(Tail(s)) /\ Distinct(Tail(s))
  BY <1>1, <1>3 DEF Elements, Distinct
<1>6. QED
  BY <1>1, <1>4, <1>5 DEF Elements

(* Sorting by keys permutes the positions, so that the keys rise and those *)
(* of one key stay in order.                                               *)
LEMMA SortedByFacts ==
  ASSUME NEW T, NEW s \in Seq(T), NEW key \in Seq(Int), Len(key) = Len(s)
  PROVE  \E pos \in [1..Len(s) -> 1..Len(s)] :
           /\ SortedBy(s, key) = [n \in 1..Len(s) |-> s[pos[n]]]
           /\ \A m, n \in 1..Len(s) : pos[m] = pos[n] => m = n
           /\ \A p \in 1..Len(s) : \E n \in 1..Len(s) : pos[n] = p
           /\ \A m, n \in 1..Len(s) : m < n => key[pos[m]] <= key[pos[n]]
           /\ \A m, n \in 1..Len(s) :
                m < n /\ key[pos[m]] = key[pos[n]] => pos[m] < pos[n]
<1> DEFINE L == 1..Len(s)
           Before(q, p) == key[q] < key[p] \/ (key[q] = key[p] /\ q <= p)
           R == {p \in L \X L : Before(p[1], p[2])}
           r(p) == Cardinality({q \in L : Before(q, p)})
           Pos(n) == CHOOSE p \in L : r(p) = n
<1>1. Len(s) \in Nat /\ L \subseteq Int /\ \A i \in L : key[i] \in Int
  OBVIOUS
<1>2. IsFiniteSet(L) /\ Cardinality(L) = Len(s)
  <2>1. 1 \in Int /\ Len(s) \in Int /\ (1 > Len(s) => Len(s) = 0)
    BY <1>1
  <2>2. /\ IsFiniteSet(1..Len(s))
        /\ Cardinality(1..Len(s)) = IF 1 > Len(s) THEN 0 ELSE Len(s) - 1 + 1
    BY <2>1, FS_Interval
  <2>3. QED
    BY <1>1, <2>1, <2>2
<1>3. TotalOrder(L, R)
  <2>1. \A p, q \in L : <<p, q>> \in R <=> key[p] < key[q] \/ (key[p] = key[q] /\ p <= q)
    OBVIOUS
  <2>2. \A p \in L : p \in Int /\ key[p] \in Int
    BY <1>1
  <2> HIDE DEF R, L
  <2>3. \A p \in L : <<p, p>> \in R
    BY <2>1, <2>2
  <2>4. \A p, q \in L : <<p, q>> \in R \/ <<q, p>> \in R
    <3> SUFFICES ASSUME NEW p \in L, NEW q \in L PROVE <<p, q>> \in R \/ <<q, p>> \in R
      OBVIOUS
    <3>1. p \in Int /\ q \in Int /\ key[p] \in Int /\ key[q] \in Int
      BY <2>2
    <3>2. key[p] < key[q] \/ key[q] < key[p] \/ (key[p] = key[q] /\ (p <= q \/ q <= p))
      BY <3>1
    <3>3. QED
      BY <2>1, <3>2
  <2>5. \A p, q \in L : <<p, q>> \in R /\ <<q, p>> \in R => p = q
    BY <2>1, <2>2
  <2>6. \A p, q, k \in L : <<p, q>> \in R /\ <<q, k>> \in R => <<p, k>> \in R
    <3> SUFFICES ASSUME NEW p \in L, NEW q \in L, NEW k \in L,
                        <<p, q>> \in R, <<q, k>> \in R
                 PROVE  <<p, k>> \in R
      OBVIOUS
    <3>1. QED
      BY <2>1, <2>2
  <2>7. QED
    BY <2>3, <2>4, <2>5, <2>6 DEF TotalOrder
<1>4. \A p \in L : OrderRank(L, R)[p] = r(p)
  <2> SUFFICES ASSUME NEW p \in L PROVE OrderRank(L, R)[p] = r(p)
    OBVIOUS
  <2>1. {q \in L : <<q, p>> \in R} = {q \in L : Before(q, p)}
    OBVIOUS
  <2>2. QED
    BY <2>1 DEF OrderRank
<1>5. \A p, q \in L : <<p, q>> \in R => key[p] <= key[q]
  BY <1>1
<1>17. \A p, q \in L : <<p, q>> \in R /\ key[p] = key[q] => p <= q
  BY <1>1
<1>6. SortedBy(s, key) = [n \in L |-> s[Pos(n)]]
  BY DEF SortedBy
<1> HIDE DEF L, R, r
<1>7. /\ \A p \in L : r(p) \in 1..Len(s)
      /\ \A p, q \in L : r(p) <= r(q) <=> <<p, q>> \in R
      /\ \A n \in 1..Len(s) : \E p \in L : r(p) = n
  <2>1. \A p \in L : OrderRank(L, R)[p] \in 1..Cardinality(L)
    BY <1>2, <1>3, RanksArePositions
  <2>2. \A p, q \in L : OrderRank(L, R)[p] <= OrderRank(L, R)[q] <=> <<p, q>> \in R
    BY <1>2, <1>3, RanksArePositions
  <2>3. \A n \in 1..Cardinality(L) : \E p \in L : OrderRank(L, R)[p] = n
    BY <1>2, <1>3, RanksArePositions
  <2>5. QED
    BY <1>2, <1>4, <2>1, <2>2, <2>3
<1>8. \A p, q \in L : r(p) = r(q) => p = q
  <2>1. \A p, q \in L : OrderRank(L, R)[p] = OrderRank(L, R)[q] => p = q
    BY <1>2, <1>3, RanksArePositions
  <2>2. QED
    BY <1>4, <2>1
<1>9. \A n \in L : Pos(n) \in L /\ r(Pos(n)) = n
  BY <1>7 DEF L
<1>10. \A p \in L : r(p) \in L /\ Pos(r(p)) = p
  BY <1>7, <1>8, <1>9 DEF L
<1> HIDE DEF Pos
<1> DEFINE pos == [n \in L |-> Pos(n)]
<1>11. pos \in [L -> L] /\ \A n \in L : pos[n] = Pos(n)
  BY <1>9
<1> HIDE DEF pos
<1>12. SortedBy(s, key) = [n \in L |-> s[pos[n]]]
  BY <1>6, <1>11
<1>13. \A m, n \in L : pos[m] = pos[n] => m = n
  BY <1>9, <1>11
<1>14. \A p \in L : \E n \in L : pos[n] = p
  BY <1>10, <1>11
<1>15. ASSUME NEW m \in L, NEW n \in L, m < n PROVE key[pos[m]] <= key[pos[n]]
  <2>1. Pos(m) \in L /\ Pos(n) \in L /\ r(Pos(m)) = m /\ r(Pos(n)) = n
    BY <1>9
  <2>2. m <= n
    BY <1>1, <1>15
  <2>3. <<Pos(m), Pos(n)>> \in R
    BY <1>7, <2>1, <2>2
  <2>4. QED
    BY <1>5, <1>11, <2>1, <2>3
<1>16. ASSUME NEW m \in L, NEW n \in L, m < n, key[pos[m]] = key[pos[n]]
       PROVE  pos[m] < pos[n]
  <2>1. Pos(m) \in L /\ Pos(n) \in L /\ r(Pos(m)) = m /\ r(Pos(n)) = n
    BY <1>9
  <2>2. m <= n /\ m # n
    BY <1>1, <1>16
  <2>3. <<Pos(m), Pos(n)>> \in R
    BY <1>7, <2>1, <2>2
  <2>4. Pos(m) <= Pos(n) /\ Pos(m) # Pos(n)
    BY <1>11, <1>16, <1>17, <2>1, <2>2, <2>3
  <2>5. Pos(m) \in Int /\ Pos(n) \in Int
    BY <1>1, <2>1
  <2>6. pos[m] = Pos(m) /\ pos[n] = Pos(n)
    BY <1>11
  <2>7. QED
    BY <2>4, <2>5, <2>6
<1>18. QED
  BY <1>11, <1>12, <1>13, <1>14, <1>15, <1>16 DEF L

(* What is kept begins with the first and ends with the last kept position.*)
LEMMA KeptEnds ==
  ASSUME NEW S, NEW s \in Seq(S), NEW K \in SUBSET (1..Len(s)), K # {}
  PROVE  \E lo, hi \in K :
           /\ \A k \in K : lo <= k /\ k <= hi
           /\ Kept(s, K)[1] = s[lo] /\ Kept(s, K)[Cardinality(K)] = s[hi]
<1> DEFINE n == Cardinality(K)
<1>1. IsFiniteSet(K) /\ n \in Nat
  BY KeptFacts, FS_CardinalityType
<1>2. K \in SUBSET Int /\ n # 0
  BY <1>1, FS_EmptySet
<1>3. /\ \A k \in K : Rank(K, k) \in 1..n /\ Nth(K, Rank(K, k)) = k
      /\ \A m \in 1..n : Nth(K, m) \in K
      /\ \A l, m \in 1..n : l < m => Nth(K, l) < Nth(K, m)
  BY <1>1, <1>2, NthSmallest
<1>4. Kept(s, K)[1] = s[Nth(K, 1)] /\ Kept(s, K)[n] = s[Nth(K, n)]
  BY <1>1, <1>2 DEF Kept
<1> HIDE DEF n
<1>5. 1 \in 1..n /\ n \in 1..n
  BY <1>1, <1>2
<1>6. ASSUME NEW k \in K PROVE Nth(K, 1) <= k /\ k <= Nth(K, n)
  <2> DEFINE r == Rank(K, k)
  <2>1. r \in 1..n /\ Nth(K, r) = k /\ k \in Int
    BY <1>2, <1>3
  <2> HIDE DEF r
  <2>2. r = 1 \/ Nth(K, 1) < Nth(K, r)
    BY <1>3, <1>5, <2>1
  <2>3. r = n \/ Nth(K, r) < Nth(K, n)
    BY <1>1, <1>3, <1>5, <2>1
  <2>4. Nth(K, 1) \in Int /\ Nth(K, n) \in Int
    BY <1>2, <1>3, <1>5
  <2>5. QED
    BY <2>1, <2>2, <2>3, <2>4
<1>7. QED
  BY <1>3, <1>4, <1>5, <1>6 DEF n

(* Sorting integers keeps every element, as often as it was there, in      *)
(* rising order.                                                           *)
LEMMA SortedFacts ==
  ASSUME NEW s \in Seq(Int)
  PROVE  /\ Sorted(s) \in Seq(Int) /\ Len(Sorted(s)) = Len(s)
         /\ Elements(Sorted(s)) = Elements(s)
         /\ Distinct(s) => Distinct(Sorted(s))
         /\ \A m, n \in 1..Len(s) : m < n => Sorted(s)[m] <= Sorted(s)[n]
<1> DEFINE L == 1..Len(s)
<1>1. PICK pos \in [1..Len(s) -> 1..Len(s)] :
        /\ SortedBy(s, s) = [n \in 1..Len(s) |-> s[pos[n]]]
        /\ \A m, n \in 1..Len(s) : pos[m] = pos[n] => m = n
        /\ \A p \in 1..Len(s) : \E n \in 1..Len(s) : pos[n] = p
        /\ \A m, n \in 1..Len(s) : m < n => s[pos[m]] <= s[pos[n]]
  BY SortedByFacts
<1>2. Len(s) \in Nat /\ \A i \in L : s[i] \in Int
  OBVIOUS
<1>3. Sorted(s) = [n \in L |-> s[pos[n]]] /\ \A n \in L : pos[n] \in L
  BY <1>1 DEF Sorted
<1>4. Sorted(s) \in Seq(Int) /\ Len(Sorted(s)) = Len(s)
      /\ \A n \in L : Sorted(s)[n] = s[pos[n]]
  <2>1. \A n \in L : s[pos[n]] \in Int
    BY <1>2, <1>3
  <2>2. [n \in L |-> s[pos[n]]] \in Seq(Int) /\ Len([n \in L |-> s[pos[n]]]) = Len(s)
    BY <1>2, <2>1
  <2>3. QED
    BY <1>3, <2>2
<1>5. Elements(Sorted(s)) = Elements(s)
  <2>1. Elements(Sorted(s)) = {s[pos[n]] : n \in L} /\ Elements(s) = {s[p] : p \in L}
    BY <1>4 DEF Elements
  <2>2. \A p \in L : \E n \in L : pos[n] = p
    BY <1>1
  <2> HIDE DEF L
  <2>3. {s[pos[n]] : n \in L} = {s[p] : p \in L}
    BY <1>3, <2>2
  <2>4. QED
    BY <2>1, <2>3
<1>6. ASSUME Distinct(s) PROVE Distinct(Sorted(s))
  <2> SUFFICES ASSUME NEW m \in L, NEW n \in L, s[pos[m]] = s[pos[n]] PROVE m = n
    BY <1>4 DEF Distinct
  <2>1. pos[m] = pos[n]
    BY <1>3, <1>6 DEF Distinct
  <2>2. QED
    BY <1>1, <2>1
<1>7. QED
  BY <1>1, <1>4, <1>5, <1>6

(* Induction over an interval, for the set of the numbers that have the    *)
(* property in question.                                                   *)
LEMMA CountingUp ==
  ASSUME NEW n \in Nat, NEW S, 0 \in S, \A k \in 0..n : k \in S /\ k # n => k + 1 \in S
  PROVE  \A k \in 0..n : k \in S
<1> DEFINE G == {g \in 0..n : \A k \in 0..g : k \in S}
<1>1. 0 \in G /\ G \in SUBSET Int
  OBVIOUS
<1>2. IsFiniteSet(G)
  <2>1. 0 \in Int /\ n \in Int
    OBVIOUS
  <2>2. IsFiniteSet(0..n)
    BY <2>1, FS_Interval
  <2>3. QED
    BY <2>2, FS_Subset
<1>3. PICK g \in G : \A j \in G : j <= g
  BY <1>1, <1>2, Greatest
<1>4. ASSUME g # n PROVE FALSE
  <2>1. g \in 0..n /\ g + 1 \in 0..n /\ g + 1 \in S
    BY <1>4
  <2>2. \A k \in 0..g + 1 : k \in 0..g \/ k = g + 1
    BY <2>1
  <2>3. g + 1 \in G
    BY <2>1, <2>2
  <2>4. QED
    BY <1>3, <2>1, <2>3
<1>5. QED
  BY <1>4
===============================================================================
