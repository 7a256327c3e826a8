--------------------------- MODULE InductionLemmas ---------------------------
(* Induction, for the proofs about the other modules.  The library's       *)
(* theorems take a predicate, which no prover here instantiates: these are *)
(* about a set, and follow from what it says of well-founded relations.    *)
EXTENDS Integers, FiniteSets, FiniteSetTheorems, WellFoundedInduction, TLAPS
-----------------------------------------------------------------------------
(***************************************************************************)
(* Numbers.                                                                *)
(***************************************************************************)
(* Every set of naturals has a least element... *)
LEMMA LeastNatural ==
  ASSUME NEW T \in SUBSET Nat, T # {}
  PROVE  \E x \in T : \A y \in T : x <= y
  <1> DEFINE R == {ss \in Nat \X Nat : ss[1] < ss[2]}
  <1>1. IsWellFoundedOn(R, Nat)
    BY NatLessThanWellFounded DEF OpToRel
  <1>2. \E x \in T : \A y \in T : ~(<<y, x>> \in R)
    <2> HIDE DEF R
    <2>1. QED
      BY <1>1, WFMin
  <1>3. PICK x \in T : \A y \in T : ~(<<y, x>> \in R)
    BY <1>2
  <1>4. \A y \in T : ~(y < x)
    BY <1>3
  <1>5. \A y \in T : y \in Nat /\ x \in Nat
    OBVIOUS
  <1>6. QED
    BY <1>4, <1>5

(* ... so what holds of 0 and of the next number holds up to n. *)
LEMMA UpTo ==
  ASSUME NEW n \in Nat, NEW S, 0 \in S, \A i \in 1 .. n : i - 1 \in S => i \in S
  PROVE  0 .. n \subseteq S
  <1> DEFINE T == {i \in 0 .. n : i \notin S}
  <1>1. SUFFICES ASSUME T # {} PROVE FALSE
    OBVIOUS
  <1>2. T \in SUBSET Nat
    OBVIOUS
  <1>3. PICK i \in T : \A j \in T : i <= j
    <2> HIDE DEF T
    <2>1. QED
      BY <1>1, <1>2, LeastNatural
  <1>4. i \in 1 .. n /\ i - 1 \in 0 .. n /\ i - 1 \notin T
    BY <1>3
  <1>5. QED
    BY <1>3, <1>4
-----------------------------------------------------------------------------
(***************************************************************************)
(* Finite sets.                                                            *)
(***************************************************************************)
(* Of the subsets of a finite set that are in F one has no smaller one in F. *)
LEMMA MinimalSubset ==
  ASSUME NEW S, IsFiniteSet(S), NEW F \in SUBSET (SUBSET S), F # {}
  PROVE  \E C \in F : \A D \in F : D \subseteq C => D = C
  <1>1. F \subseteq FiniteSubsetsOf(S)
    BY FS_FiniteSubsetsOfFinite
  <1>2. IsWellFoundedOn(StrictSubsetOrdering(S), FiniteSubsetsOf(S))
    BY FS_StrictSubsetOrderingWellFounded
  <1>3. PICK C \in F : \A D \in F : ~(<<D, C>> \in StrictSubsetOrdering(S))
    BY <1>1, <1>2, WFMin
  <1>4. \A D \in F : D \in SUBSET S /\ C \in SUBSET S
    OBVIOUS
  <1>5. QED
    BY <1>3, <1>4 DEF StrictSubsetOrdering

(* If everyone in a finite set waits for another one of it, then so does   *)
(* everyone in a part of it in which everyone is waited for as well.       *)
LEMMA CircleOfWaits ==
  ASSUME NEW S, IsFiniteSet(S), S # {}, NEW R,
         \A d \in S : \E e \in S : <<d, e>> \in R
  PROVE  \E C \in SUBSET S :
           /\ C # {}
           /\ \A d \in C : (\E e \in C : <<d, e>> \in R) /\ (\E e \in C : <<e, d>> \in R)
  <1> DEFINE Closed(C) == \A d \in C : \E e \in C : <<d, e>> \in R
             F == {C \in SUBSET S : C # {} /\ Closed(C)}
  <1>1. S \in F
    OBVIOUS
  <1>2. F \in SUBSET (SUBSET S)
    OBVIOUS
  <1>3. PICK C \in F : \A D \in F : D \subseteq C => D = C
    <2> HIDE DEF F
    <2>1. QED
      BY <1>1, <1>2, MinimalSubset
  <1>4. ASSUME NEW d \in C, \A e \in C : <<e, d>> \notin R PROVE FALSE
    <2> DEFINE D == C \ {d}
    <2>1. PICK e \in C : <<d, e>> \in R
      BY <1>3
    <2>2. e \in D
      BY <1>4, <2>1
    <2>3. Closed(D)
      BY <1>3, <1>4
    <2>4. D \in F
      BY <1>3, <2>2, <2>3
    <2>5. QED
      BY <1>3, <2>4
  <1>5. QED
    BY <1>3, <1>4

(* If everyone in a finite set waits for just one of it, a part of it is a *)
(* circle: nobody waits outside, and no two wait for the same one.         *)
LEMMA CircleOfOne ==
  ASSUME NEW S, IsFiniteSet(S), S # {}, NEW f \in [S -> S]
  PROVE  \E C \in SUBSET S :
           /\ C # {}
           /\ \A d \in C : f[d] \in C
           /\ \A d, e \in C : f[d] = f[e] => d = e
  <1> DEFINE F == {C \in SUBSET S : C # {} /\ \A d \in C : f[d] \in C}
  <1>1. S \in F
    OBVIOUS
  <1>2. F \in SUBSET (SUBSET S)
    OBVIOUS
  <1>3. PICK C \in F : \A D \in F : D \subseteq C => D = C
    <2> HIDE DEF F
    <2>1. QED
      BY <1>1, <1>2, MinimalSubset
  <1> DEFINE g == [d \in C |-> f[d]]
             D == {f[d] : d \in C}
  <1>4. D = C
    <2>1. D \in F
      BY <1>3
    <2>2. D \subseteq C
      BY <1>3
    <2>3. QED
      BY <1>3, <2>1, <2>2
  <1>5. g \in Surjection(C, C)
    BY <1>3, <1>4 DEF Surjection
  <1>6. IsFiniteSet(C)
    BY <1>3, FS_Subset
  <1>7. g \in Injection(C, C)
    <2> HIDE DEF g
    <2>1. QED
      BY <1>5, <1>6, FS_SurjSameCardinalityImpliesInj
  <1>8. \A d, e \in C : f[d] = f[e] => d = e
    BY <1>7 DEF Injection, IsInjective
  <1>9. QED
    BY <1>3, <1>8
=============================================================================
