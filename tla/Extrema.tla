------------------------------ MODULE Extrema -------------------------------
(***************************************************************************)
(* Finite sets of numbers have a largest and a smallest element, which Max *)
(* and Min choose.  Lists are searched with these: the entry that counts   *)
(* is the last one, or the first.  Of all elements, the one with the       *)
(* fewest beyond it is taken; strict inclusion on the subsets of a finite  *)
(* set is well founded.                                                    *)
(***************************************************************************)
EXTENDS Integers, FiniteSets, FiniteSetsExt, FiniteSetTheorems,
        WellFoundedInduction, TLAPS

\* A finite set of numbers has a largest one.
LEMMA MaxExists ==
  ASSUME NEW T \in SUBSET Nat, IsFiniteSet(T), T # {}
  PROVE  Max(T) \in T /\ \A y \in T : Max(T) >= y
<1> DEFINE Above(x) == {z \in T : z > x}
           Aboves == {Above(x) : x \in T}
<1>1. IsWellFoundedOn(StrictSubsetOrdering(T), SUBSET T)
  BY FS_StrictSubsetOrderingWellFounded, FS_FiniteSubsetsOfFinite
<1>2. Aboves \subseteq SUBSET T /\ Aboves # {}
  OBVIOUS
<1> HIDE DEF Aboves
<1>3. PICK A \in Aboves :
        \A B \in Aboves : ~(<<B, A>> \in StrictSubsetOrdering(T))
  BY <1>1, <1>2, WFMin
<1>4. PICK x \in T : A = Above(x)
  BY <1>3 DEF Aboves
<1>5. ASSUME NEW y \in T, ~(x >= y)
      PROVE  FALSE
  <2>1. x \in Nat /\ y \in Nat /\ y > x
    BY <1>4, <1>5
  <2>2. Above(y) \subseteq Above(x) /\ y \in Above(x) /\ y \notin Above(y)
    <3>1. ASSUME NEW z \in T, z > y
          PROVE  z > x
      <4>1. z \in Nat
        OBVIOUS
      <4> QED
        BY <2>1, <3>1, <4>1
    <3>2. y > x /\ ~(y > y)
      BY <2>1
    <3> QED
      BY <3>1, <3>2
  <2>3. Above(y) \in Aboves
    BY DEF Aboves
  <2>4. <<Above(y), Above(x)>> \in StrictSubsetOrdering(T)
    BY <2>2 DEF StrictSubsetOrdering
  <2> QED
    BY <1>3, <1>4, <2>3, <2>4
<1> QED
  BY <1>5 DEF Max

\* A finite set of numbers has a smallest one.
LEMMA MinExists ==
  ASSUME NEW T \in SUBSET Nat, IsFiniteSet(T), T # {}
  PROVE  Min(T) \in T /\ \A y \in T : Min(T) =< y
<1> DEFINE Below(x) == {z \in T : z < x}
           Belows == {Below(x) : x \in T}
<1>1. IsWellFoundedOn(StrictSubsetOrdering(T), SUBSET T)
  BY FS_StrictSubsetOrderingWellFounded, FS_FiniteSubsetsOfFinite
<1>2. Belows \subseteq SUBSET T /\ Belows # {}
  OBVIOUS
<1> HIDE DEF Belows
<1>3. PICK A \in Belows :
        \A B \in Belows : ~(<<B, A>> \in StrictSubsetOrdering(T))
  BY <1>1, <1>2, WFMin
<1>4. PICK x \in T : A = Below(x)
  BY <1>3 DEF Belows
<1>5. ASSUME NEW y \in T, ~(x =< y)
      PROVE  FALSE
  <2>1. x \in Nat /\ y \in Nat /\ y < x
    BY <1>4, <1>5
  <2>2. Below(y) \subseteq Below(x) /\ y \in Below(x) /\ y \notin Below(y)
    <3>1. ASSUME NEW z \in T, z < y
          PROVE  z < x
      <4>1. z \in Nat
        OBVIOUS
      <4> QED
        BY <2>1, <3>1, <4>1
    <3>2. y < x /\ ~(y < y)
      BY <2>1
    <3> QED
      BY <3>1, <3>2
  <2>3. Below(y) \in Belows
    BY DEF Belows
  <2>4. <<Below(y), Below(x)>> \in StrictSubsetOrdering(T)
    BY <2>2 DEF StrictSubsetOrdering
  <2> QED
    BY <1>3, <1>4, <2>3, <2>4
<1> QED
  BY <1>5 DEF Min

=============================================================================
