------------------------------ MODULE OrderFacts ------------------------------
(***************************************************************************)
(* Least numbers, and the list of a finite set in an order.  The proofs of *)
(* the components use the first in place of induction: what they show of   *)
(* all numbers they show of the least one of which it would be false.      *)
(***************************************************************************)
EXTENDS Integers, FiniteSets, FiniteSetTheorems, WellFoundedInduction, TLAPS

LEMMA LessThanOnNat ==
    \E R : IsWellFoundedOn(R, Nat) /\ \A k, m \in Nat : <<k, m>> \in R <=> k < m
<1> DEFINE R == OpToRel(<, Nat)
<1>1. IsWellFoundedOn(R, Nat)
  BY NatLessThanWellFounded
<1>2. \A k, m \in Nat : <<k, m>> \in R <=> k < m
  BY DEF OpToRel
<1> HIDE DEF R
<1> QED BY <1>1, <1>2

(* A set of numbers that is not empty has a least one.                     *)
LEMMA LeastOf ==
    ASSUME NEW T, T \subseteq Nat, T # {}
    PROVE  \E m \in T : \A k \in T : m <= k
<1>1. PICK R : IsWellFoundedOn(R, Nat) /\ \A k, m \in Nat : <<k, m>> \in R <=> k < m
  BY LessThanOnNat
<1>2. PICK m \in T : \A k \in T : ~ (<<k, m>> \in R)
  <2>1. IsWellFoundedOn(R, Nat)
    BY <1>1
  <2> HIDE <1>1
  <2> QED BY <2>1, WFMin, Zenon
<1>3. \A k \in T : m <= k
  <2>1. \A k \in T : ~ (k < m)
    BY <1>1, <1>2
  <2> QED BY <2>1
<1> QED BY <1>3

-----------------------------------------------------------------------------
IsOrder(R, S) ==
    /\ \A x \in S : <<x, x>> \notin R
    /\ \A x, y, z \in S : <<x, y>> \in R /\ <<y, z>> \in R => <<x, z>> \in R
    /\ \A x, y \in S : x = y \/ <<x, y>> \in R \/ <<y, x>> \in R

Preceding(R, S, x) == {y \in S : <<y, x>> \in R}

\* The elements of S, the k-th of which has k - 1 before it.
Listed(R, S) ==
    [k \in 1 .. Cardinality(S) |->
        CHOOSE x \in S : Cardinality(Preceding(R, S, x)) = k - 1]

LEMMA PrecedingFinite ==
    ASSUME NEW R, NEW S, IsFiniteSet(S)
    PROVE  /\ Cardinality(S) \in Nat
           /\ \A x \in S : /\ IsFiniteSet(Preceding(R, S, x))
                           /\ Cardinality(Preceding(R, S, x)) \in Nat
<1>1. \A U \in SUBSET S : IsFiniteSet(U) /\ Cardinality(U) \in Nat
  BY FS_Subset, FS_CardinalityType
<1>2. \A x \in S : Preceding(R, S, x) \in SUBSET S
  BY DEF Preceding
<1> QED BY <1>1, <1>2

LEMMA PrecedingGrow ==
    ASSUME NEW R, NEW S, IsFiniteSet(S), IsOrder(R, S),
           NEW x \in S, NEW y \in S, <<x, y>> \in R
    PROVE  Cardinality(Preceding(R, S, x)) < Cardinality(Preceding(R, S, y))
<1> DEFINE A == Preceding(R, S, x)
           B == Preceding(R, S, y)
<1>1. x \notin A
  BY DEF Preceding, IsOrder
<1>2. A \cup {x} \in SUBSET B
  BY DEF Preceding, IsOrder
<1>3. IsFiniteSet(A) /\ IsFiniteSet(B) /\ Cardinality(A) \in Nat /\ Cardinality(B) \in Nat
  BY PrecedingFinite
<1> HIDE DEF A, B
<1>4. Cardinality(A \cup {x}) = Cardinality(A) + 1
  BY <1>1, <1>3, FS_AddElement
<1>5. Cardinality(A \cup {x}) <= Cardinality(B)
  BY <1>2, <1>3, FS_Subset
<1>6. Cardinality(A) < Cardinality(B)
  BY <1>3, <1>4, <1>5
<1> QED BY <1>6 DEF A, B

(* Every place of the list has one element.                                *)
LEMMA PlaceTells ==
    ASSUME NEW R, NEW S, IsFiniteSet(S), IsOrder(R, S), NEW x \in S, NEW y \in S,
           Cardinality(Preceding(R, S, x)) = Cardinality(Preceding(R, S, y))
    PROVE  x = y
<1> SUFFICES ASSUME x # y PROVE FALSE
  OBVIOUS
<1>1. <<x, y>> \in R \/ <<y, x>> \in R
  BY DEF IsOrder
<1>2. Cardinality(Preceding(R, S, x)) \in Nat
  BY PrecedingFinite
<1> QED BY <1>1, <1>2, PrecedingGrow

LEMMA PlaceIsTaken ==
    ASSUME NEW R, NEW S, IsFiniteSet(S), IsOrder(R, S), NEW k \in 1 .. Cardinality(S)
    PROVE  \E x \in S : Cardinality(Preceding(R, S, x)) = k - 1
<1> DEFINE n == Cardinality(S)
           place == [x \in S |-> Cardinality(Preceding(R, S, x))]
<1>1. n \in Nat
  BY PrecedingFinite
<1>2. \A x \in S : Cardinality(Preceding(R, S, x)) \in 0 .. n - 1
  <2> SUFFICES ASSUME NEW x \in S PROVE Cardinality(Preceding(R, S, x)) \in 0 .. n - 1
    OBVIOUS
  <2>1. x \notin Preceding(R, S, x) /\ Preceding(R, S, x) \in SUBSET S
    BY DEF Preceding, IsOrder
  <2>2. Cardinality(Preceding(R, S, x)) <= n /\ Cardinality(Preceding(R, S, x)) # n
    BY <1>1, <2>1, FS_Subset
  <2> QED BY <1>1, <2>2, PrecedingFinite
<1>3. place \in Injection(S, 0 .. n - 1)
  <2>1. place \in [S -> 0 .. n - 1]
    BY <1>2
  <2>2. \A x, y \in S : place[x] = place[y] => x = y
    BY PlaceTells
  <2> HIDE DEF place
  <2> QED BY <2>1, <2>2 DEF Injection, IsInjective
<1>4. IsFiniteSet(0 .. n - 1) /\ Cardinality(0 .. n - 1) = n
  <2> HIDE DEF n
  <2>1. 0 \in Int /\ n - 1 \in Int
    BY <1>1
  <2>2. /\ IsFiniteSet(0 .. n - 1)
        /\ Cardinality(0 .. n - 1) = IF 0 > n - 1 THEN 0 ELSE n - 1 - 0 + 1
    BY <2>1, FS_Interval
  <2> QED BY <1>1, <2>2
<1> HIDE DEF place
<1>5. place \in Surjection(S, 0 .. n - 1)
  BY <1>3, <1>4, FS_Injection
<1>6. PICK x \in S : place[x] = k - 1
  BY <1>1, <1>5 DEF Surjection
<1> QED BY <1>6 DEF place

(* The list has all elements, each once and in the order.                  *)
LEMMA ListedInOrder ==
    ASSUME NEW R, NEW S, IsFiniteSet(S), IsOrder(R, S)
    PROVE  /\ Cardinality(S) \in Nat
           /\ Listed(R, S) \in [1 .. Cardinality(S) -> S]
           /\ \A x \in S : \E k \in 1 .. Cardinality(S) : Listed(R, S)[k] = x
           /\ \A j, k \in 1 .. Cardinality(S) :
                 j < k <=> <<Listed(R, S)[j], Listed(R, S)[k]>> \in R
<1> DEFINE n == Cardinality(S)
           at(k) == CHOOSE x \in S : Cardinality(Preceding(R, S, x)) = k - 1
           before(x) == Cardinality(Preceding(R, S, x))
<1>1. n \in Nat /\ \A x \in S : before(x) \in Nat
  BY PrecedingFinite
<1>2. \A k \in 1 .. n : at(k) \in S /\ before(at(k)) = k - 1
  BY PlaceIsTaken
<1>3. Listed(R, S) = [k \in 1 .. n |-> at(k)]
  BY DEF Listed
<1> HIDE DEF at, n
<1>4. Listed(R, S) \in [1 .. n -> S] /\ \A k \in 1 .. n : Listed(R, S)[k] = at(k)
  BY <1>2, <1>3
<1>5. ASSUME NEW x \in S PROVE \E k \in 1 .. n : at(k) = x
  <2>1. x \notin Preceding(R, S, x) /\ Preceding(R, S, x) \in SUBSET S
    BY DEF Preceding, IsOrder
  <2>2. before(x) <= n /\ before(x) # n
    BY <2>1, FS_Subset DEF n
  <2>3. before(x) \in Nat
    BY <1>1
  <2> HIDE DEF before
  <2>4. PICK k \in 1 .. n : k - 1 = before(x)
    <3>1. before(x) + 1 \in 1 .. n /\ (before(x) + 1) - 1 = before(x)
      BY <1>1, <2>2, <2>3
    <3> QED BY <3>1
  <2>5. at(k) \in S /\ before(at(k)) = before(x)
    BY <1>2, <2>4
  <2>6. at(k) = x
    <3>1. \A y \in S : before(y) = before(x) => y = x
      BY PlaceTells DEF before
    <3> QED BY <2>5, <3>1
  <2> QED BY <2>6
<1>6. ASSUME NEW j \in 1 .. n, NEW k \in 1 .. n
      PROVE  j < k <=> <<at(j), at(k)>> \in R
  <2>1. at(j) \in S /\ at(k) \in S /\ before(at(j)) = j - 1 /\ before(at(k)) = k - 1
    BY <1>2
  <2>2. ASSUME <<at(j), at(k)>> \in R PROVE j < k
    <3>1. before(at(j)) < before(at(k))
      BY <2>1, <2>2, PrecedingGrow
    <3> QED BY <1>1, <2>1, <3>1
  <2>3. ASSUME <<at(k), at(j)>> \in R PROVE k < j
    <3>1. before(at(k)) < before(at(j))
      BY <2>1, <2>3, PrecedingGrow
    <3> QED BY <1>1, <2>1, <3>1
  <2>4. at(j) = at(k) => j = k
    <3>1. at(j) = at(k) => j - 1 = k - 1
      BY <2>1
    <3> QED BY <1>1, <3>1
  <2>5. at(j) = at(k) \/ <<at(j), at(k)>> \in R \/ <<at(k), at(j)>> \in R
    BY <2>1 DEF IsOrder
  <2> QED BY <1>1, <2>2, <2>3, <2>4, <2>5
<1> QED BY <1>1, <1>4, <1>5, <1>6 DEF n
=============================================================================
