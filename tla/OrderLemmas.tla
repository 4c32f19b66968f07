---------------------------- MODULE OrderLemmas ----------------------------
(***************************************************************************)
(* Facts about natural numbers and finite sets of them that the proofs of  *)
(* several modules need.  They are stated about sets, so that the provers  *)
(* can use them: induction on n is a proof that the set of the numbers for *)
(* which a statement fails has no least element.                           *)
(***************************************************************************)
EXTENDS FiniteSetTheorems, TLAPS

\* Every set of natural numbers that is not empty has a least element.
LEMMA LeastNatural ==
  ASSUME NEW S \in SUBSET Nat, S # {}
  PROVE  \E n \in S : \A m \in S : n <= m
<1>1. PICK top \in S : TRUE
  OBVIOUS
<1> DEFINE Below(n) == 0 .. n
           T == {Below(n) : n \in S \cap Below(top)}
           R == StrictSubsetOrdering(Below(top))
<1>2. IsWellFoundedOn(R, FiniteSubsetsOf(Below(top)))
  BY FS_StrictSubsetOrderingWellFounded
<1>3. T \subseteq FiniteSubsetsOf(Below(top)) /\ T # {}
  <2>1. \A n \in S \cap Below(top) : Below(n) \subseteq Below(top) /\ IsFiniteSet(Below(n))
    BY FS_Interval
  <2>2. top \in S \cap Below(top)
    OBVIOUS
  <2> QED
    BY <2>1, <2>2 DEF FiniteSubsetsOf
<1>4. PICK x \in T : \A y \in T : ~ (<<y, x>> \in R)
  <2> HIDE DEF T, R
  <2> QED
    BY <1>2, <1>3, WFMin
<1>5. PICK n \in S \cap Below(top) : x = Below(n)
  OBVIOUS
<1>6. ASSUME NEW m \in S, m < n PROVE FALSE
  <2>1. m \in S \cap Below(top) /\ n \in Nat /\ m \in Nat
    BY <1>6
  <2>2. Below(m) \in T
    BY <2>1
  <2>3. Below(m) \subseteq Below(n) /\ Below(m) # Below(n)
    <3>1. n \in Below(n) /\ n \notin Below(m)
      BY <1>6, <2>1
    <3> QED
      BY <1>6, <2>1, <3>1
  <2>4. Below(n) \subseteq Below(top) /\ Below(m) \subseteq Below(top)
    BY <2>1
  <2>5. <<Below(m), Below(n)>> \in R
    BY <2>3, <2>4 DEF StrictSubsetOrdering
  <2> QED
    BY <1>4, <1>5, <2>2, <2>5
<1>7. n \in Nat /\ \A m \in S : m \in Nat
  OBVIOUS
<1> QED
  BY <1>6, <1>7

\* A set of natural numbers with a bound has a greatest element.
LEMMA GreatestNatural ==
  ASSUME NEW S \in SUBSET Nat, S # {}, NEW top \in Nat, \A n \in S : n <= top
  PROVE  \E n \in S : \A m \in S : m <= n
<1> DEFINE Gaps == {top - n : n \in S}
<1>1. Gaps \in SUBSET Nat /\ Gaps # {}
  <2>1. \A n \in S : n \in Nat /\ top - n \in Nat
    OBVIOUS
  <2> QED
    BY <2>1
<1>2. PICK g \in Gaps : \A h \in Gaps : g <= h
  BY <1>1, LeastNatural
<1>3. PICK n \in S : g = top - n
  BY <1>2
<1>4. ASSUME NEW m \in S PROVE m <= n
  <2>1. g <= top - m
    BY <1>2
  <2> QED
    BY <1>3, <2>1
<1> QED
  BY <1>4

-----------------------------------------------------------------------------
(* The place of a number in a set *)

Earlier(S, d) == {e \in S : e < d}
Rank(S, d) == Cardinality(Earlier(S, d))

LEMMA RankType ==
  ASSUME NEW S \in SUBSET Nat, NEW d \in Nat
  PROVE  IsFiniteSet(Earlier(S, d)) /\ Rank(S, d) \in Nat
<1>0. Earlier(S, d) \in SUBSET Nat
  BY DEF Earlier
<1>1. \A e \in Earlier(S, d) : e <= d
  BY DEF Earlier
<1>2. IsFiniteSet(Earlier(S, d))
  BY <1>0, <1>1, FS_BoundedSetOfNaturals
<1> QED
  BY <1>2, FS_CardinalityType DEF Rank

\* A later number has more elements of the set before it.
LEMMA RankGrows ==
  ASSUME NEW S \in SUBSET Nat, NEW a \in S, NEW b \in Nat, a < b
  PROVE  Rank(S, a) < Rank(S, b)
<1>0. a \in Earlier(S, b) /\ a \notin Earlier(S, a)
  BY DEF Earlier
<1>1. Earlier(S, a) \subseteq Earlier(S, b)
  <2>1. \A e \in S : e < a => e < b
    BY \A e \in S : e \in Nat
  <2> QED
    BY <2>1 DEF Earlier
<1>2. /\ IsFiniteSet(Earlier(S, b)) /\ Rank(S, b) \in Nat /\ Rank(S, a) \in Nat
  BY RankType
<1>3. Rank(S, a) <= Rank(S, b) /\ (Rank(S, a) = Rank(S, b) => Earlier(S, a) = Earlier(S, b))
  BY <1>1, <1>2, FS_Subset DEF Rank
<1> QED
  BY <1>0, <1>2, <1>3

\* Places are taken once.
LEMMA RankInjective ==
  ASSUME NEW S \in SUBSET Nat, NEW a \in S, NEW b \in S, Rank(S, a) = Rank(S, b)
  PROVE  a = b
<1>1. a \in Nat /\ b \in Nat /\ Rank(S, a) \in Nat
  BY RankType
<1>2. ~(a < b) /\ ~(b < a)
  BY <1>1, RankGrows
<1> QED
  BY <1>1, <1>2

\* Every place up to the size of a finite set is taken.
LEMMA RankTaken ==
  ASSUME NEW S \in SUBSET Nat, NEW top \in Nat, \A m \in S : m <= top,
         NEW n \in Nat, n < Cardinality(S)
  PROVE  \E d \in S : Rank(S, d) = n
<1>1. IsFiniteSet(S) /\ Cardinality(S) \in Nat
  BY FS_BoundedSetOfNaturals, FS_CardinalityType
<1> DEFINE U == {d \in S : n <= Rank(S, d)}
<1>2. U # {}
  <2>1. S # {}
    BY <1>1, FS_EmptySet
  <2>2. PICK last \in S : \A m \in S : m <= last
    BY <2>1, GreatestNatural
  <2>3. Earlier(S, last) = S \ {last}
    <3>1. \A m \in S : m \in Nat /\ (m # last => m < last)
      BY <2>2
    <3>2. \A m \in S : m < last => m # last
      BY <3>1
    <3> QED
      BY <3>1, <3>2 DEF Earlier
  <2>4. Rank(S, last) = Cardinality(S) - 1
    BY <1>1, <2>3, FS_RemoveElement DEF Rank
  <2> QED
    BY <1>1, <2>4
<1>3. PICK d \in U : \A e \in U : d <= e
  BY <1>2, LeastNatural
<1>4. d \in Nat /\ Rank(S, d) \in Nat /\ IsFiniteSet(Earlier(S, d))
  BY RankType
<1>5. CASE Rank(S, d) = n
  BY <1>5
<1>6. CASE Rank(S, d) # n
  <2>0. \A e \in S : e \in Nat
    OBVIOUS
  <2>1. Earlier(S, d) \in SUBSET Nat
    BY DEF Earlier
  <2>1a. \A e \in Earlier(S, d) : e <= d
    BY DEF Earlier
  <2>2. Earlier(S, d) # {}
    BY <1>4, <1>6, FS_EmptySet DEF Rank
  <2>3. PICK e \in Earlier(S, d) : \A m \in Earlier(S, d) : m <= e
    BY <1>4, <2>1, <2>1a, <2>2, GreatestNatural
  <2>4. e \in S /\ e < d
    BY DEF Earlier
  <2>5. Earlier(S, e) = Earlier(S, d) \ {e}
    <3>1. \A m \in Earlier(S, d) : m \in Nat /\ (m # e => m < e)
      BY <2>1, <2>3
    <3>2. \A m \in S : m < e => m < d /\ m # e
      BY <1>4, <2>0, <2>4
    <3> QED
      BY <3>1, <3>2 DEF Earlier
  <2>6. Rank(S, e) = Rank(S, d) - 1
    <3>1. Cardinality(Earlier(S, d) \ {e}) = Cardinality(Earlier(S, d)) - 1
      BY <1>4, <2>3, FS_RemoveElement
    <3> QED
      BY <2>5, <3>1 DEF Rank
  <2>7. e \in U
    BY <1>4, <1>6, <2>4, <2>6
  <2> QED
    BY <1>3, <1>4, <2>4, <2>7
<1> QED
  BY <1>5, <1>6

-----------------------------------------------------------------------------
(* Initial segments *)

\* A has all of B that is before an element of it.
Initial(A, B) == A \subseteq B /\ \A a \in A, b \in B : b < a => b \in A

\* An element has the same place in both.
LEMMA RankInitial ==
  ASSUME NEW A, NEW B, Initial(A, B), NEW a \in A
  PROVE  Earlier(A, a) = Earlier(B, a) /\ Rank(A, a) = Rank(B, a)
BY DEF Initial, Earlier, Rank
=============================================================================
