------------------------------- MODULE NatLemmas -------------------------------
(***************************************************************************)
(* The least element of a set of positions.                                *)
(***************************************************************************)
EXTENDS Naturals, TLAPS, FiniteSetTheorems

\* Every non-empty set of naturals has a least element: among the intervals
\* 0..n that end in T one is minimal for inclusion.
LEMMA LeastNat ==
    ASSUME NEW T \in SUBSET Nat, T # {}
    PROVE  \E n \in T : \A m \in T : n <= m
<1> DEFINE Intervals == {0..n : n \in T}
           Order == StrictSubsetOrdering(Nat)
<1>1. Intervals \subseteq FiniteSubsetsOf(Nat)
    <2>1. ASSUME NEW n \in T PROVE 0..n \in FiniteSubsetsOf(Nat)
        <3>1. IsFiniteSet(0..n) BY FS_Interval
        <3>2. 0..n \subseteq Nat OBVIOUS
        <3> QED BY <3>1, <3>2 DEF FiniteSubsetsOf
    <2> QED BY <2>1
<1>2. Intervals # {} OBVIOUS
<1>3. IsWellFoundedOn(Order, FiniteSubsetsOf(Nat))
    BY FS_StrictSubsetOrderingWellFounded
<1> HIDE DEF Intervals, Order
<1>4. PICK I \in Intervals : \A J \in Intervals : <<J, I>> \notin Order
    BY <1>1, <1>2, <1>3, WFMin
<1>5. PICK n \in T : I = 0..n BY <1>4 DEF Intervals
<1>6. ASSUME NEW m \in T, m < n PROVE FALSE
    <2>1. 0..m \in Intervals BY DEF Intervals
    <2>2. 0..m \subseteq 0..n /\ n \in 0..n /\ n \notin 0..m BY <1>6
    <2>3. 0..m \subseteq Nat /\ 0..n \subseteq Nat OBVIOUS
    <2>4. <<0..m, 0..n>> \in Order BY <2>2, <2>3 DEF Order, StrictSubsetOrdering
    <2> QED BY <1>4, <1>5, <2>1, <2>4
<1> QED BY <1>6
=============================================================================
