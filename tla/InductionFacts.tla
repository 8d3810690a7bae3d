--------------------------- MODULE InductionFacts ---------------------------
(***************************************************************************)
(* Facts about sets of natural numbers that the proofs of RemoteCache and  *)
(* FederatedQuery need, among them induction.  The induction theorems of   *)
(* the library take the predicate as a parameter; here it is a set of      *)
(* numbers, and the proof goes through the least member of its complement. *)
(***************************************************************************)
EXTENDS Integers, FiniteSets, WellFoundedInduction, FiniteSetTheorems, TLAPS

(* A set of numbers that is not empty has a least element: the intervals   *)
(* that start at 0 and end in the set are finite, and strict inclusion is  *)
(* well founded on finite sets.                                            *)
LEMMA Least ==
  ASSUME NEW S \in SUBSET Nat, S # {}
  PROVE  \E m \in S : \A n \in S : m <= n
<1> DEFINE D == {0..n : n \in S}
           R == StrictSubsetOrdering(Nat)
<1>1. D \subseteq FiniteSubsetsOf(Nat)
  <2>1. \A n \in S : 0..n \subseteq Nat /\ IsFiniteSet(0..n)
    BY FS_Interval
  <2> QED BY <2>1 DEF FiniteSubsetsOf
<1>2. IsWellFoundedOn(R, FiniteSubsetsOf(Nat))
  BY FS_StrictSubsetOrderingWellFounded
<1>3. PICK d \in D : \A e \in D : ~(<<e, d>> \in R)
  <2> HIDE DEF R
  <2>1. D # {} OBVIOUS
  <2> HIDE DEF D
  <2> QED BY <1>1, <1>2, <2>1, WFMin
<1>4. PICK m \in S : d = 0..m OBVIOUS
<1>5. ASSUME NEW n \in S, n < m PROVE FALSE
  <2>1. 0..n \in D OBVIOUS
  <2>2. 0..n \subseteq 0..m /\ m \notin 0..n /\ m \in 0..m BY <1>5
  <2>3. <<0..n, d>> \in R
    BY <2>2, <1>4 DEF StrictSubsetOrdering
  <2> QED BY <2>1, <2>3, <1>3
<1> QED BY <1>5

(* A set of numbers that holds 0 and, up to n, the successor of each of its *)
(* members, holds all the numbers up to n.                                  *)
LEMMA Induct ==
  ASSUME NEW n \in Nat, NEW S, 0 \in S, \A i \in 0..(n - 1) : i \in S => i + 1 \in S
  PROVE  \A i \in 0..n : i \in S
<1> DEFINE Rest == {i \in 0..n : i \notin S}
<1> SUFFICES ASSUME Rest # {} PROVE FALSE OBVIOUS
<1>1. Rest \in SUBSET Nat OBVIOUS
<1>2. PICK m \in Rest : \A i \in Rest : m <= i
  <2> HIDE DEF Rest
  <2> QED BY <1>1, Least
<1>3. m # 0 /\ m \in 0..n /\ m \notin S OBVIOUS
<1>4. m - 1 \in 0..(n - 1) BY <1>3
<1>5. m - 1 \in S BY <1>2, <1>4
<1> QED BY <1>3, <1>4, <1>5

=============================================================================
