--------------------------- MODULE NaturalBounds ----------------------------
(***************************************************************************)
(* Least and greatest elements: what MIN(), MAX() and ORDER BY ... LIMIT 1 *)
(* rest on, for sets of minutes and for rows ranked by a column.           *)
(***************************************************************************)
EXTENDS Integers, WellFoundedInduction, FiniteSetTheorems, TLAPS

\* No set of naturals is without a least element.
LEMMA LeastNatural ==
    ASSUME NEW S \in SUBSET Nat, S # {}
    PROVE  \E m \in S : \A n \in S : m <= n
<1> DEFINE Less == {ss \in Nat \X Nat : ss[1] < ss[2]}
<1>1. IsWellFoundedOn(Less, Nat)
  BY NatLessThanWellFounded DEF OpToRel
<1>2. PICK m \in S : \A n \in S : <<n, m>> \notin Less
  <2> HIDE DEF Less
  <2> QED
    BY <1>1, WFMin
<1>3. \A n \in S : ~(n < m)
  BY <1>2
<1> QED
  BY <1>3

\* A set that is bounded above has a greatest element.
LEMMA GreatestInRange ==
    ASSUME NEW limit \in Nat, NEW S \in SUBSET (1 .. limit), S # {}
    PROVE  \E m \in S : \A n \in S : n <= m
<1> DEFINE Left == {k \in Nat : limit - k \in S}
<1>1. Left # {}
  <2>1. PICK s \in S : TRUE
    OBVIOUS
  <2>2. limit - s \in Nat /\ limit - (limit - s) = s
    BY <2>1
  <2> QED
    BY <2>1, <2>2
<1>2. PICK k \in Left : \A n \in Left : k <= n
  <2>1. Left \in SUBSET Nat
    OBVIOUS
  <2> HIDE DEF Left
  <2> QED
    BY <1>1, <2>1, LeastNatural
<1>3. \A n \in S : n <= limit - k
  <2> TAKE n \in S
  <2>1. limit - n \in Nat /\ limit - (limit - n) = n
    OBVIOUS
  <2>2. k <= limit - n
    BY <2>1, <1>2
  <2>3. k \in Nat /\ n \in Nat
    OBVIOUS
  <2> QED
    BY <2>2, <2>3
<1> QED
  BY <1>2, <1>3

\* A finite set has a first element of every ranking by integers.
LEMMA FirstByRank ==
    ASSUME NEW C, IsFiniteSet(C), C # {}, NEW rank, \A x \in C : rank[x] \in Int
    PROVE  \E first \in C : \A x \in C : rank[x] <= rank[first]
<1> DEFINE Above(x) == {y \in C : rank[y] > rank[x]}
           Sizes == {n \in Nat : \E x \in C : n = Cardinality(Above(x))}
<1>1. \A x \in C : IsFiniteSet(Above(x)) /\ Cardinality(Above(x)) \in Nat
  <2> TAKE x \in C
  <2>1. IsFiniteSet(Above(x))
    BY FS_Subset
  <2> HIDE DEF Above
  <2> QED
    BY <2>1, FS_CardinalityType
<1>2. Sizes # {} /\ Sizes \in SUBSET Nat
  <2> HIDE DEF Above
  <2> QED
    BY <1>1
<1>3. PICK n \in Sizes : \A m \in Sizes : n <= m
  <2> HIDE DEF Sizes
  <2> QED
    BY <1>2, LeastNatural
<1>4. PICK first \in C : n = Cardinality(Above(first))
  OBVIOUS
<1>5. ASSUME NEW x \in C, rank[x] > rank[first]
      PROVE  FALSE
  <2>1. Above(x) \in SUBSET Above(first) /\ Above(x) # Above(first)
    <3>1. \A y \in C : rank[y] > rank[x] => rank[y] > rank[first]
      BY <1>5
    <3>2. x \in Above(first) /\ x \notin Above(x)
      BY <1>5
    <3> QED
      BY <3>1, <3>2
  <2>2. Cardinality(Above(x)) \in Sizes
    <3> HIDE DEF Above
    <3> QED
      BY <1>1
  <2>3. n <= Cardinality(Above(x))
    BY <1>3, <2>2
  <2> HIDE DEF Above, Sizes
  <2>4. /\ Cardinality(Above(x)) <= Cardinality(Above(first))
        /\ Cardinality(Above(x)) # Cardinality(Above(first))
    BY <1>1, <2>1, FS_Subset
  <2> QED
    BY <1>1, <1>4, <2>3, <2>4
<1> QED
  BY <1>5
=============================================================================
