----------------------------- MODULE LeastNumber -----------------------------
(* Every set of natural numbers that is not empty has a least element: the   *)
(* principle behind every "first record that ..." of the data files.         *)
EXTENDS Naturals, FiniteSetTheorems, WellFoundedInduction, TLAPS

(* Strict inclusion of finite sets is well founded, and the sets of the      *)
(* members up to some member are finite.                                     *)
LEMMA LeastNumberExists ==
  ASSUME NEW T \in SUBSET Nat, T # {}
  PROVE  \E m \in T : \A n \in T : m <= n
<1> DEFINE UpTo(x) == {t \in T : t <= x}
           F == {UpTo(x) : x \in T}
<1>1. F \subseteq FiniteSubsetsOf(Nat)
  <2>1. SUFFICES ASSUME NEW x \in T PROVE UpTo(x) \in FiniteSubsetsOf(Nat)
    OBVIOUS
  <2>2. UpTo(x) \in SUBSET Nat /\ x \in Nat /\ \A s \in UpTo(x) : s <= x
    OBVIOUS
  <2>3. IsFiniteSet(UpTo(x))
    BY <2>2, FS_BoundedSetOfNaturals
  <2> QED
    BY <2>2, <2>3 DEF FiniteSubsetsOf
<1>2. F # {}
  OBVIOUS
<1>3. \E U \in F : \A V \in F : ~(<<V, U>> \in StrictSubsetOrdering(Nat))
  <2> HIDE DEF F
  <2> QED
    BY <1>1, <1>2, FS_StrictSubsetOrderingWellFounded, WFMin
<1>4. PICK x \in T : \A y \in T : ~(<<UpTo(y), UpTo(x)>> \in StrictSubsetOrdering(Nat))
  BY <1>3
<1>5. ASSUME NEW y \in T, y < x
      PROVE  FALSE
  <2>1. x \in Nat /\ y \in Nat
    OBVIOUS
  <2>2. \A t \in T : t <= y => t <= x
    BY <1>5, <2>1
  <2>3. ~(x <= y) /\ x <= x
    BY <1>5, <2>1
  <2>4. UpTo(y) \subseteq UpTo(x) /\ x \in UpTo(x) /\ x \notin UpTo(y)
    BY <2>2, <2>3
  <2>5. <<UpTo(y), UpTo(x)>> \in StrictSubsetOrdering(Nat)
    BY <2>4 DEF StrictSubsetOrdering
  <2> QED
    BY <2>5, <1>4
<1> QED
  BY <1>5

=============================================================================
