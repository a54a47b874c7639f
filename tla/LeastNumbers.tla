------------------------------ MODULE LeastNumbers ------------------------------
(***************************************************************************)
(* Least elements of sets of numbers, and induction over a set of them,    *)
(* for the proofs of the other modules.                                    *)
(***************************************************************************)
EXTENDS Integers, FiniteSets, FiniteSetsExt, FiniteSetTheorems, WellFoundedInduction, TLAPS

\* A non-empty set of distances has a least element, and Min is it.
LEMMA MinOf ==
    ASSUME NEW n \in Nat, NEW S \in SUBSET (0 .. n), S # {}
    PROVE  Min(S) \in S /\ \A d \in S : Min(S) <= d
<1> DEFINE UpTo(i) == {k \in 0 .. n : k <= i}
           T == {UpTo(i) : i \in S}
<1>1. T \subseteq SUBSET (0 .. n) /\ T # {}
  OBVIOUS
<1>2. IsFiniteSet(0 .. n)
  BY FS_Interval
<1>3. PICK x \in T : \A y \in T : ~ (<<y, x>> \in StrictSubsetOrdering(0 .. n))
  <2>1. T \subseteq FiniteSubsetsOf(0 .. n)
    <3> HIDE DEF T
    <3> QED
      BY <1>1, <1>2, FS_FiniteSubsetsOfFinite
  <2>2. IsWellFoundedOn(StrictSubsetOrdering(0 .. n), FiniteSubsetsOf(0 .. n))
    BY FS_StrictSubsetOrderingWellFounded
  <2> HIDE DEF T
  <2> QED
    BY <1>1, <2>1, <2>2, WFMin
<1>4. PICK m \in S : x = UpTo(m)
  OBVIOUS
<1>5. \A j \in S : m <= j
  <2> SUFFICES ASSUME NEW j \in S, j < m PROVE FALSE
    OBVIOUS
  <2>1. UpTo(j) \subseteq UpTo(m) /\ UpTo(j) # UpTo(m)
    <3>1. m \in UpTo(m) /\ m \notin UpTo(j)
      OBVIOUS
    <3>2. UpTo(j) \subseteq UpTo(m)
      OBVIOUS
    <3> QED
      BY <3>1, <3>2
  <2>2. <<UpTo(j), UpTo(m)>> \in StrictSubsetOrdering(0 .. n)
    <3>1. UpTo(j) \in SUBSET (0 .. n) /\ UpTo(m) \in SUBSET (0 .. n)
      OBVIOUS
    <3> HIDE DEF UpTo
    <3> QED
      BY <2>1, <3>1 DEF StrictSubsetOrdering
  <2>3. UpTo(j) \in T
    OBVIOUS
  <2> HIDE DEF UpTo, T
  <2> QED
    BY <1>3, <1>4, <2>2, <2>3
<1> HIDE DEF UpTo, T
<1> QED
  BY <1>5 DEF Min

-----------------------------------------------------------------------------
(* Induction.                                                              *)

\* A non-empty set of numbers has a least element.
LEMMA LeastNumber ==
    ASSUME NEW S \in SUBSET Nat, S # {}
    PROVE  \E m \in S : \A d \in S : m <= d
<1>1. PICK n \in S : TRUE
  OBVIOUS
<1> DEFINE L == S \cap (0 .. n)
<1>2. L \in SUBSET (0 .. n) /\ L # {} /\ n \in Nat
  BY <1>1
<1>3. \A d \in S : d \notin L => n < d
  BY <1>1
<1>4. L \subseteq S /\ n \in L
  BY <1>1
<1> HIDE DEF L
<1>5. Min(L) \in L /\ \A d \in L : Min(L) <= d
  BY <1>2, MinOf
<1>6. Min(L) \in Nat /\ Min(L) <= n /\ S \subseteq Nat
  BY <1>4, <1>5, <1>2
<1>7. \A d \in S : Min(L) <= d
  BY <1>3, <1>5, <1>6, <1>2
<1> QED
  BY <1>4, <1>5, <1>7

\* A set that holds 0 and the successor of each of its members holds every number.
LEMMA EveryNumber ==
    ASSUME NEW S, 0 \in S, \A n \in Nat : n \in S => n + 1 \in S
    PROVE  Nat \subseteq S
<1> SUFFICES ASSUME Nat \ S # {} PROVE FALSE
  OBVIOUS
<1>1. PICK m \in Nat \ S : \A d \in Nat \ S : m <= d
  BY LeastNumber
<1>2. m # 0 /\ m - 1 \in Nat /\ m - 1 \notin Nat \ S
  BY <1>1
<1> QED
  BY <1>1, <1>2
=============================================================================
