-------------------------- MODULE JobFiles_proofs ---------------------------
(* What the search for the next job id finds, and the least and greatest id. *)
EXTENDS JobFiles, Integers, FiniteSetTheorems, WellFoundedInduction, TLAPS

\* Every nonempty set of ids has a least one.
LEMMA LeastId ==
  ASSUME NEW T \in SUBSET Nat, T # {}
  PROVE  \E k \in T : \A y \in T : k <= y
<1> DEFINE R == {ss \in Nat \X Nat : ss[1] < ss[2]}
<1>1. IsWellFoundedOn(R, Nat)
  BY NatLessThanWellFounded, Zenon DEF OpToRel
<1>2. PICK k \in T : \A y \in T : ~ (<<y, k>> \in R)
  <2> HIDE DEF R
  <2>1. QED
    BY <1>1, WFMin, Zenon
<1>3. ASSUME NEW y \in T
      PROVE  k <= y
  <2>1. y \in Nat /\ k \in Nat
    OBVIOUS
  <2>2. <<y, k>> \in Nat \X Nat /\ <<y, k>>[1] = y /\ <<y, k>>[2] = k
    BY <2>1
  <2>3. QED
    BY <1>2, <2>1, <2>2
<1>4. QED
  BY <1>3

\* Every nonempty set of ids below a bound has a greatest one.
LEMMA GreatestId ==
  ASSUME NEW S \in SUBSET Nat, S # {}, NEW n \in Nat, \A i \in S : i <= n
  PROVE  \E x \in S : \A y \in S : x >= y
<1> DEFINE T == {m \in Nat : \A i \in S : i <= m}
<1>1. PICK k \in T : \A y \in T : k <= y
  <2>1. T \in SUBSET Nat /\ n \in T
    OBVIOUS
  <2>2. QED
    BY <2>1, LeastId
<1>2. k \in Nat /\ \A i \in S : i <= k /\ i \in Nat
  BY <1>1
<1>3. k \in S
  <2>1. SUFFICES ASSUME k \notin S
                 PROVE  FALSE
    OBVIOUS
  <2>2. \A i \in S : i < k
    BY <1>2, <2>1
  <2>3. k - 1 \in Nat /\ \A i \in S : i <= k - 1
    <3>1. PICK i \in S : i < k
      BY <2>2
    <3>2. k # 0
      BY <1>2, <3>1
    <3>3. \A j \in S : j <= k - 1
      BY <1>2, <2>2
    <3>4. QED
      BY <1>2, <3>2, <3>3
  <2>4. k - 1 \in T
    BY <2>3
  <2>5. QED
    BY <1>1, <1>2, <2>4
<1>4. QED
  BY <1>2, <1>3

\* If the files are 0 .. n-1, the search of the DataBase constructor ends at n,
\* an id that no file has.
LEMMA FirstFreeOfInterval ==
  ASSUME NEW n \in Nat
  PROVE  FirstFree(0 .. n - 1) = n
<1> DEFINE S == 0 .. n - 1
           Free(k) == k \notin S /\ \A m \in 0 .. k - 1 : m \in S
<1>1. Cardinality(S) = n
  BY FS_Interval
<1>2. n \in 0 .. n /\ Free(n)
  OBVIOUS
<1>3. ASSUME NEW k \in 0 .. n, Free(k)
      PROVE  k = n
  BY <1>3
<1>4. n = CHOOSE k \in 0 .. n : Free(k)
  BY <1>2, <1>3
<1>5. QED
  BY <1>1, <1>4 DEF FirstFree

\* Whatever request files there are, the search ends, at the least id without
\* one: among Cardinality(S) + 1 ids one is not in S.
LEMMA FirstFreeIsNew ==
  ASSUME NEW S \in SUBSET Nat, IsFiniteSet(S)
  PROVE  /\ FirstFree(S) \in Nat \ S
         /\ \A m \in 0 .. FirstFree(S) - 1 : m \in S
<1> DEFINE c == Cardinality(S)
           T == (0 .. c) \ S
<1>1. c \in Nat
  BY FS_CardinalityType
<1>2. T # {}
  <2>1. SUFFICES ASSUME 0 .. c \subseteq S PROVE FALSE
    OBVIOUS
  <2>2. Cardinality(0 .. c) <= c
    BY <2>1, FS_Subset
  <2>3. Cardinality(0 .. c) = c + 1
    BY <1>1, FS_Interval
  <2>4. QED
    BY <1>1, <2>2, <2>3
<1>3. PICK k \in T : \A y \in T : k <= y
  <2>1. T \in SUBSET Nat
    BY <1>1
  <2>2. QED
    BY <1>2, <2>1, LeastId
<1>4. k \in 0 .. c /\ k \notin S /\ \A m \in 0 .. k - 1 : m \in S
  BY <1>1, <1>3
<1>5. QED
  BY <1>1, <1>4 DEF FirstFree
=============================================================================
