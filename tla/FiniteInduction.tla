--------------------------- MODULE FiniteInduction ---------------------------
(***************************************************************************)
(* Induction as statements about sets, which a proof can cite by name: a   *)
(* property is given as the set of things that have it.                    *)
(***************************************************************************)
EXTENDS Integers, FiniteSets, FiniteSetsExt, FiniteSetTheorems, WellFoundedInduction, TLAPS

\* A finite set is in G when {} is and when G is closed under adding an element.
LEMMA SetInduction ==
  ASSUME NEW S, IsFiniteSet(S), NEW G, {} \in G,
         \A T \in SUBSET S : \A x \in S \ T : T \in G => T \union {x} \in G
  PROVE  S \in G
<1> DEFINE F == FiniteSubsetsOf(S)
           Bad == {T \in F : T \notin G}
<1>1. SUFFICES ASSUME S \notin G PROVE FALSE
  OBVIOUS
<1>2. S \in Bad
  BY <1>1 DEF FiniteSubsetsOf
<1>3. IsWellFoundedOn(StrictSubsetOrdering(S), F)
  BY FS_StrictSubsetOrderingWellFounded
<1>4. PICK T \in Bad : \A U \in Bad : ~(<<U, T>> \in StrictSubsetOrdering(S))
  <2>1. Bad \subseteq F /\ Bad # {}
    BY <1>2
  <2> HIDE DEF F, Bad
  <2> QED BY <1>3, <2>1, WFMin
<1>5. T # {} /\ T \in SUBSET S /\ IsFiniteSet(T)
  BY DEF FiniteSubsetsOf
<1>6. PICK x \in T : TRUE
  BY <1>5
<1>7. /\ T \ {x} \in SUBSET S /\ IsFiniteSet(T \ {x})
      /\ T = (T \ {x}) \union {x} /\ x \in S \ (T \ {x})
  BY <1>5, <1>6, FS_RemoveElement
<1>8. <<T \ {x}, T>> \in StrictSubsetOrdering(S)
  BY <1>5, <1>7 DEF StrictSubsetOrdering
<1>9. T \ {x} \in G
  BY <1>4, <1>7, <1>8 DEF FiniteSubsetsOf
<1> QED BY <1>5, <1>7, <1>9

\* All natural numbers are in G when 0 is and when G is closed under successor.
LEMMA NatSetInduction ==
  ASSUME NEW G, 0 \in G, \A n \in Nat : n \in G => n + 1 \in G
  PROVE  Nat \subseteq G
<1> DEFINE R   == OpToRel(<, Nat)
           Bad == Nat \ G
<1>1. SUFFICES ASSUME Bad # {} PROVE FALSE
  OBVIOUS
<1>2. \A m, n \in Nat : m < n => <<m, n>> \in R
  BY Zenon DEF OpToRel
<1>3. Bad \subseteq Nat /\ IsWellFoundedOn(R, Nat)
  BY NatLessThanWellFounded
<1> HIDE DEF R
<1>4. \E n \in Bad : \A m \in Bad : ~(<<m, n>> \in R)
  <2> HIDE DEF Bad
  <2> QED BY <1>1, <1>3, WFMin
<1>5. PICK n \in Bad : \A m \in Bad : ~(m < n)
  BY <1>2, <1>3, <1>4
<1>6. n # 0
  BY <1>5
<1>7. n - 1 \in Nat /\ (n - 1) + 1 = n /\ n - 1 < n
  BY <1>5, <1>6
<1> QED BY <1>5, <1>7

\* A finite nonempty set of integers has a largest and a smallest element.
LEMMA FiniteMaxMin ==
  ASSUME NEW S \in SUBSET Int, IsFiniteSet(S), S # {}
  PROVE  /\ Max(S) \in S /\ \A y \in S : y <= Max(S)
         /\ Min(S) \in S /\ \A y \in S : Min(S) <= y
<1> DEFINE G == {T \in SUBSET S : T # {} => /\ \E x \in T : \A y \in T : x >= y
                                            /\ \E x \in T : \A y \in T : x =< y}
<1>1. {} \in G
  OBVIOUS
<1>2. ASSUME NEW T \in SUBSET S, NEW z \in S \ T, T \in G PROVE T \union {z} \in G
  <2> DEFINE U == T \union {z}
  <2>1. \E x \in U : \A y \in U : x >= y
    <3>1. CASE T = {}
      BY <3>1
    <3>2. CASE T # {}
      <4>1. PICK x \in T : \A y \in T : x >= y
        BY <1>2, <3>2
      <4>2. x \in Int /\ z \in Int /\ \A y \in T : y \in Int
        OBVIOUS
      <4>3. CASE x >= z
        BY <4>1, <4>3
      <4>4. CASE z >= x
        BY <4>1, <4>2, <4>4
      <4> QED BY <4>2, <4>3, <4>4
    <3> QED BY <3>1, <3>2
  <2>2. \E x \in U : \A y \in U : x =< y
    <3>1. CASE T = {}
      BY <3>1
    <3>2. CASE T # {}
      <4>1. PICK x \in T : \A y \in T : x =< y
        BY <1>2, <3>2
      <4>2. x \in Int /\ z \in Int /\ \A y \in T : y \in Int
        OBVIOUS
      <4>3. CASE x =< z
        BY <4>1, <4>3
      <4>4. CASE z =< x
        BY <4>1, <4>2, <4>4
      <4> QED BY <4>2, <4>3, <4>4
    <3> QED BY <3>1, <3>2
  <2> QED BY <2>1, <2>2
<1>3. S \in G
  <2> HIDE DEF G
  <2> QED BY <1>1, <1>2, SetInduction
<1>4. /\ \E x \in S : \A y \in S : x >= y
      /\ \E x \in S : \A y \in S : x =< y
  BY <1>3
<1>5. Max(S) \in S /\ \A y \in S : Max(S) >= y
  BY <1>4 DEF Max
<1>6. Min(S) \in S /\ \A y \in S : Min(S) =< y
  BY <1>4 DEF Min
<1> QED BY <1>5, <1>6
=============================================================================
