------------------------------ MODULE Extrema ------------------------------
(***************************************************************************)
(* The first and the last of a set of numbers: what the searches of the    *)
(* models choose, and why there is one to choose.                          *)
(***************************************************************************)
EXTENDS Integers, TLAPS, WellFoundedInduction

\* A nonempty set of natural numbers has a least one.
LEMMA LeastExists ==
    ASSUME NEW S \in SUBSET Nat, S # {}
    PROVE  \E n \in S : \A m \in S : n <= m
  <1> DEFINE less == {p \in Nat \X Nat : p[1] < p[2]}
  <1>1. OpToRel(<, Nat) = less
    BY DEF OpToRel
  <1>2. IsWellFoundedOn(less, Nat)
    BY <1>1, NatLessThanWellFounded
  <1>3. \A x, y \in Nat : x < y => <<x, y>> \in less
    OBVIOUS
  <1> HIDE DEF less
  <1>4. PICK x \in S : \A y \in S : ~ (<<y, x>> \in less)
    BY <1>2, WFMin
  <1>5. \A m \in S : ~ (m < x)
    BY <1>3, <1>4
  <1>6. \A m \in S : x <= m
    BY <1>5
  <1> QED
    BY <1>6

\* A nonempty set of natural numbers with an upper bound has a greatest one.
LEMMA GreatestExists ==
    ASSUME NEW k \in Nat, NEW S \in SUBSET (0 .. k), S # {}
    PROVE  \E n \in S : \A m \in S : m <= n
  <1> DEFINE T == {d \in Nat : k - d \in S}
  <1>1. T \in SUBSET Nat /\ T # {}
    <2>1. PICK n \in S : TRUE
      OBVIOUS
    <2>2. k - n \in Nat /\ k - (k - n) = n
      OBVIOUS
    <2>3. k - n \in T
      BY <2>2
    <2> QED
      BY <2>3
  <1>2. PICK d \in T : \A e \in T : d <= e
    BY <1>1, LeastExists
  <1>3. k - d \in S
    BY <1>2
  <1>4. \A m \in S : m <= k - d
    <2> SUFFICES ASSUME NEW m \in S
                 PROVE  m <= k - d
      OBVIOUS
    <2>1. k - m \in Nat /\ k - (k - m) = m
      OBVIOUS
    <2>2. d <= k - m
      BY <1>2, <2>1
    <2> QED
      BY <1>2, <2>1, <2>2
  <1> QED
    BY <1>3, <1>4
=============================================================================
