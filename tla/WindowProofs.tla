----------------------------- MODULE WindowProofs -----------------------------
(***************************************************************************)
(* The tracker for every window size, and the rounding of pivots for every *)
(* power.                                                                  *)
(***************************************************************************)
EXTENDS WindowStatTracker, FiniteSetTheorems, TLAPS

-----------------------------------------------------------------------------
(* Rounding. *)

Distance(a, b) == IF a < b THEN b - a ELSE a - b

\* The comment "Set it to the nearest multiple of 4" in calculate_max_pivots: the
\* result is one, and no other multiple is nearer.
THEOREM NearestMultiple ==
  ASSUME NEW B \in Nat, NEW n \in Nat
  PROVE  /\ CalculateMaxPivots(B) % 4 = 0
         /\ Distance(CalculateMaxPivots(B), B) <= Distance(4 * n, B)
<1> DEFINE q == B \div 4
           r == B % 4
<1>1. q \in Nat /\ r \in 0 .. 3 /\ B = 4 * q + r
  OBVIOUS
<1>2. \E k \in Nat : CalculateMaxPivots(B) = 4 * k /\ (k = q \/ (k = q + 1 /\ r >= 2))
                     /\ (r = 3 => k = q + 1)
  <2>1. CASE r < 2
    <3>1. CalculateMaxPivots(B) = 4 * q
      BY <1>1, <2>1 DEF CalculateMaxPivots
    <3> QED BY <1>1, <2>1, <3>1
  <2>2. CASE r = 2
    <3>1. CalculateMaxPivots(B) = IF B > 32 THEN 4 * (q + 1) ELSE 4 * q
      BY <1>1, <2>2 DEF CalculateMaxPivots
    <3> QED BY <1>1, <2>2, <3>1
  <2>3. CASE r = 3
    <3>1. CalculateMaxPivots(B) = 4 * (q + 1)
      BY <1>1, <2>3 DEF CalculateMaxPivots
    <3> QED BY <1>1, <2>3, <3>1
  <2> HIDE DEF q, r
  <2> QED BY <1>1, <2>1, <2>2, <2>3
<1>3. PICK k \in Nat : CalculateMaxPivots(B) = 4 * k /\ (k = q \/ (k = q + 1 /\ r >= 2))
                       /\ (r = 3 => k = q + 1)
  BY <1>2
<1>4. (4 * k) % 4 = 0
  BY <1>3
<1> HIDE DEF q, r
<1>5. Distance(4 * k, B) <= Distance(4 * n, B)
  BY <1>1, <1>3 DEF Distance
<1> QED BY <1>3, <1>4, <1>5

-----------------------------------------------------------------------------
(* The window. *)

\* A full window drops the oldest operation, and one that is not full none.
LEMMA PushWindow ==
  ASSUME NEW w \in Seq(Operations), Len(w) <= W, NEW op \in Operations
  PROVE  LET new  == Push(w, W, op)
             drop == IF Len(w) >= W THEN 1 ELSE 0
         IN  /\ new \in Seq(Operations)
             /\ Len(new) = (Len(w) - drop) + 1
             /\ \A i \in 1 .. Len(w) - drop : new[i] = w[i + drop]
             /\ new[Len(new)] = op
BY WindowAssumption DEF Push

\* The invariant: the types and WindowIsRecent.
IInv == TypeOK /\ WindowIsRecent

\* An empty window is the recent past of nothing.
LEMMA RecentInit == Init => IInv
BY WindowAssumption DEF Init, IInv, TypeOK, WindowIsRecent, Operations

\* Adding an operation keeps the window the recent past.
LEMMA RecentStep == IInv /\ [Next]_vars => IInv'
<1> SUFFICES ASSUME IInv, [Next]_vars PROVE IInv'
  OBVIOUS
<1> USE DEF IInv
<1>1. CASE UNCHANGED vars
  BY <1>1 DEF vars, TypeOK, WindowIsRecent
<1>2. ASSUME NEW op \in Operations, Add(op) PROVE IInv'
  <2> DEFINE drop == IF Len(window) >= W THEN 1 ELSE 0
  <2>1. /\ window \in Seq(Operations) /\ history \in Seq(Operations)
        /\ Len(window) <= W /\ W \in Nat \ {0}
        /\ Len(window) = IF Len(history) < W THEN Len(history) ELSE W
        /\ Len(window) \in Nat /\ Len(history) \in Nat
    <3>1. Len(window) \in Nat /\ Len(history) \in Nat
      BY DEF TypeOK
    <3> QED BY <3>1, WindowAssumption DEF TypeOK, WindowIsRecent
  <2>2. /\ window' \in Seq(Operations)
        /\ Len(window') = (Len(window) - drop) + 1
        /\ \A i \in 1 .. Len(window) - drop : window'[i] = window[i + drop]
        /\ window'[Len(window')] = op
    BY <1>2, <2>1, PushWindow DEF Add
  <2>3. /\ history' \in Seq(Operations) /\ Len(history') = Len(history) + 1
        /\ \A i \in 1 .. Len(history) : history'[i] = history[i]
        /\ history'[Len(history) + 1] = op
    BY <1>2, <2>1 DEF Add
  <2>0. /\ Len(window') = IF Len(history') < W THEN Len(history') ELSE W
        /\ \A i \in 1 .. Len(window') :
              (Len(history) - Len(window)) + (i + drop) = (Len(history') - Len(window')) + i
        /\ (Len(history') - Len(window')) + Len(window') = Len(history')
    <3> DEFINE h == Len(history)
               l == Len(window)
    <3>1. /\ h \in Nat /\ l \in Nat /\ l = IF h < W THEN h ELSE W
          /\ Len(history') = h + 1 /\ Len(window') = (l - drop) + 1
      BY <2>1, <2>2, <2>3
    <3>2. drop = IF l >= W THEN 1 ELSE 0
      OBVIOUS
    <3> HIDE DEF h, l, drop
    <3>3. /\ (l - drop) + 1 = IF h + 1 < W THEN h + 1 ELSE W
          /\ \A i \in 1 .. (l - drop) + 1 :
                (h - l) + (i + drop) = ((h + 1) - ((l - drop) + 1)) + i
          /\ (h + 1 - ((l - drop) + 1)) + ((l - drop) + 1) = h + 1
      BY <3>1, <3>2, WindowAssumption
    <3>4. /\ Len(window') = IF Len(history') < W THEN Len(history') ELSE W
          /\ \A i \in 1 .. Len(window') :
                (h - l) + (i + drop) = (Len(history') - Len(window')) + i
          /\ (Len(history') - Len(window')) + Len(window') = Len(history')
      BY <3>1, <3>3
    <3> QED BY <3>4 DEF h, l
  <2>4. Len(window') = IF Len(history') < W THEN Len(history') ELSE W
    BY <2>0
  <2>5. ASSUME NEW i \in 1 .. Len(window')
        PROVE  window'[i] = history'[(Len(history') - Len(window')) + i]
    <3>1. CASE i = Len(window')
      BY <2>0, <2>1, <2>2, <2>3, <3>1
    <3>2. CASE i # Len(window')
      <4>1. i \in 1 .. Len(window) - drop /\ i + drop \in 1 .. Len(window)
        BY <2>1, <2>2, <3>2
      <4>2. window'[i] = history[(Len(history) - Len(window)) + (i + drop)]
        BY <2>2, <4>1 DEF WindowIsRecent
      <4>3. (Len(history) - Len(window)) + (i + drop) = (Len(history') - Len(window')) + i
        BY <2>0
      <4>4. (Len(history) - Len(window)) + (i + drop) \in 1 .. Len(history)
        BY <2>1, <4>1
      <4> QED BY <2>3, <4>2, <4>3, <4>4
    <3> QED BY <3>1, <3>2
  <2> QED BY <2>2, <2>3, <2>4, <2>5 DEF TypeOK, WindowIsRecent
<1>3. Read \in Operations /\ Write \in Operations
  BY DEF Operations
<1> QED BY <1>1, <1>2, <1>3 DEF Next, AddRead, AddWrite

\* add_read and add_write keep the most recent W operations, for every W.
THEOREM Recent == Spec => []WindowIsRecent
<1>1. IInv => WindowIsRecent
  BY DEF IInv
<1> QED BY <1>1, RecentInit, RecentStep, PTL DEF Spec

-----------------------------------------------------------------------------
(* The epsilon. *)

Writes(w) == {i \in DOMAIN w : w[i] = Write}

\* A count reaches the window size only when all are writes.
LEMMA CountWrites ==
  ASSUME NEW w \in Seq(Operations), Len(w) <= W
  PROVE  /\ WriteCount(w) \in 0 .. W
         /\ WriteCount(w) = W <=> Len(w) = W /\ \A i \in 1 .. W : w[i] = Write
<1>1. /\ IsFiniteSet(1 .. Len(w)) /\ Cardinality(1 .. Len(w)) = Len(w)
      /\ DOMAIN w = 1 .. Len(w) /\ Len(w) \in Nat /\ W \in Nat \ {0}
  <2>1. Len(w) \in Nat /\ DOMAIN w = 1 .. Len(w)
    OBVIOUS
  <2>2. IsFiniteSet(1 .. Len(w)) /\ Cardinality(1 .. Len(w)) = Len(w)
    BY <2>1, FS_Interval
  <2> QED BY <2>1, <2>2, WindowAssumption
<1>2. Writes(w) \subseteq 1 .. Len(w)
  BY <1>1 DEF Writes
<1>3. /\ IsFiniteSet(Writes(w)) /\ Cardinality(Writes(w)) \in Nat
      /\ Cardinality(Writes(w)) <= Len(w)
      /\ Cardinality(Writes(w)) = Len(w) => Writes(w) = 1 .. Len(w)
  BY <1>1, <1>2, FS_Subset, FS_CardinalityType
<1>4. WriteCount(w) = Cardinality(Writes(w))
  BY DEF WriteCount, Writes
<1>5. WriteCount(w) = W => Len(w) = W /\ \A i \in 1 .. W : w[i] = Write
  <2> SUFFICES ASSUME WriteCount(w) = W PROVE Len(w) = W /\ \A i \in 1 .. W : w[i] = Write
    OBVIOUS
  <2>1. Len(w) = W /\ Writes(w) = 1 .. W
    BY <1>1, <1>3, <1>4
  <2> QED BY <2>1 DEF Writes
<1>6. Len(w) = W /\ (\A i \in 1 .. W : w[i] = Write) => WriteCount(w) = W
  <2> SUFFICES ASSUME Len(w) = W, \A i \in 1 .. W : w[i] = Write PROVE WriteCount(w) = W
    OBVIOUS
  <2>1. Writes(w) = 1 .. Len(w)
    BY <1>1 DEF Writes
  <2> QED BY <1>1, <1>4, <2>1
<1> QED BY <1>1, <1>3, <1>4, <1>5, <1>6

\* Division of integers leaves two epsilons.
LEMMA EpsilonOf ==
  ASSUME NEW w \in Seq(Operations), Len(w) <= W
  PROVE  GetEpsilon(w, W) = IF WriteCount(w) = W THEN WRITE_HEAVY_E ELSE READ_HEAVY_E
<1>1. WriteCount(w) \in 0 .. W /\ W \in Nat \ {0}
  BY CountWrites, WindowAssumption
<1>2. WriteCount(w) \div W = IF WriteCount(w) = W THEN 1 ELSE 0
  <2> DEFINE c == WriteCount(w)
  <2> HIDE DEF c
  <2>1. c \in 0 .. W => c \div W = IF c = W THEN 1 ELSE 0
    BY <1>1
  <2> QED BY <1>1, <2>1 DEF c
<1> QED BY <1>2 DEF GetEpsilon, READ_HEAVY_E, WRITE_HEAVY_E

\* The epsilon of the window is the small one when it holds W writes and the large
\* one otherwise; the window holds what the history ends in.
LEMMA TwoWorkloadsHolds == IInv => TwoWorkloads
<1> SUFFICES ASSUME IInv PROVE TwoWorkloads
  OBVIOUS
<1> DEFINE last    == (Len(history) - W) + 1 .. Len(history)
           writing == Len(history) >= W /\ \A i \in last : history[i] = Write
<1>1. /\ window \in Seq(Operations) /\ history \in Seq(Operations)
      /\ Len(window) <= W /\ W \in Nat \ {0}
      /\ Len(window) = IF Len(history) < W THEN Len(history) ELSE W
      /\ \A i \in 1 .. Len(window) :
            window[i] = history[(Len(history) - Len(window)) + i]
  <2>1. Len(window) \in Nat /\ Len(history) \in Nat
    BY DEF IInv, TypeOK
  <2>2. Len(window) = IF Len(history) < W THEN Len(history) ELSE W
    BY DEF IInv, WindowIsRecent
  <2>3. \A i \in 1 .. Len(window) :
            window[i] = history[(Len(history) - Len(window)) + i]
    BY DEF IInv, WindowIsRecent
  <2>4. Len(window) <= W
    BY <2>1, <2>2, WindowAssumption
  <2> QED BY <2>2, <2>3, <2>4, WindowAssumption DEF IInv, TypeOK
<1>2. ASSUME WriteCount(window) = W PROVE writing
  <2>1. Len(window) = W /\ \A i \in 1 .. W : window[i] = Write
    BY <1>1, <1>2, CountWrites
  <2>2. Len(history) >= W /\ Len(history) \in Nat
    BY <1>1, <2>1
  <2>3. ASSUME NEW i \in last PROVE history[i] = Write
    <3>1. i - (Len(history) - W) \in 1 .. W
      BY <1>1, <2>2
    <3>2. window[i - (Len(history) - W)] = history[(Len(history) - W) + (i - (Len(history) - W))]
      BY <1>1, <2>1, <3>1
    <3>3. (Len(history) - W) + (i - (Len(history) - W)) = i
      BY <1>1, <2>2
    <3> QED BY <2>1, <3>1, <3>2, <3>3
  <2> QED BY <2>2, <2>3
<1>3. ASSUME writing PROVE WriteCount(window) = W
  <2>1. Len(window) = W
    BY <1>1, <1>3
  <2>2. ASSUME NEW i \in 1 .. W PROVE window[i] = Write
    <3>1. (Len(history) - W) + i \in last
      BY <1>1, <1>3
    <3> QED BY <1>1, <1>3, <2>1, <3>1
  <2> QED BY <1>1, <2>1, <2>2, CountWrites
<1>4. GetEpsilon(window, W) = IF WriteCount(window) = W THEN WRITE_HEAVY_E ELSE READ_HEAVY_E
  BY <1>1, EpsilonOf
<1> HIDE DEF writing
<1>5. writing <=> WriteCount(window) = W
  BY <1>2, <1>3
<1>6. GetEpsilon(window, W) = IF writing THEN WRITE_HEAVY_E ELSE READ_HEAVY_E
  BY <1>4, <1>5
<1> QED BY <1>6 DEF TwoWorkloads, writing

\* The tracker tells all writes from anything else, and no more: epsilon is the
\* small one after W writes in a row and the large one at any other time.
THEOREM OnlyTwoWorkloads == Spec => []TwoWorkloads
BY RecentInit, RecentStep, TwoWorkloadsHolds, PTL DEF Spec

\* One more read never lowers the epsilon, one more write never raises it.
LEMMA FollowsStep ==
  ASSUME IInv, Next
  PROVE  /\ AddRead  => GetEpsilon(window', W) >= GetEpsilon(window, W)
         /\ AddWrite => GetEpsilon(window', W) <= GetEpsilon(window, W)
<1> DEFINE drop == IF Len(window) >= W THEN 1 ELSE 0
<1>1. IInv'
  BY RecentStep
<1>2. /\ window \in Seq(Operations) /\ window' \in Seq(Operations)
      /\ Len(window) <= W /\ Len(window') <= W /\ W \in Nat \ {0}
  BY <1>1, WindowAssumption DEF IInv, TypeOK, WindowIsRecent
<1>3. /\ GetEpsilon(window, W) =
            IF WriteCount(window) = W THEN WRITE_HEAVY_E ELSE READ_HEAVY_E
      /\ GetEpsilon(window', W) =
            IF WriteCount(window') = W THEN WRITE_HEAVY_E ELSE READ_HEAVY_E
  BY <1>2, EpsilonOf
<1>4. ASSUME NEW op \in Operations, Add(op)
      PROVE  /\ Len(window') = (Len(window) - drop) + 1
             /\ \A i \in 1 .. Len(window) - drop : window'[i] = window[i + drop]
             /\ window'[Len(window')] = op
  BY <1>2, <1>4, PushWindow DEF Add
<1>5. Read \in Operations /\ Write \in Operations /\ Read # Write
  BY DEF Operations, Read, Write
<1>6. ASSUME AddRead PROVE WriteCount(window') # W
  <2>1. window'[Len(window')] # Write
    BY <1>4, <1>5, <1>6 DEF AddRead
  <2>2. Len(window') = W => W \in 1 .. W
    BY <1>2
  <2> QED BY <1>2, <2>1, <2>2, CountWrites
<1>7. ASSUME AddWrite, WriteCount(window) = W PROVE WriteCount(window') = W
  <2>1. Len(window) = W /\ \A i \in 1 .. W : window[i] = Write
    BY <1>2, <1>7, CountWrites
  <2>2. /\ Len(window') = W
        /\ \A i \in 1 .. W - 1 : window'[i] = window[i + 1]
        /\ window'[W] = Write
    BY <1>2, <1>4, <1>5, <1>7, <2>1 DEF AddWrite
  <2>3. \A i \in 1 .. W : window'[i] = Write
    BY <1>2, <2>1, <2>2
  <2> QED BY <1>2, <2>2, <2>3, CountWrites
<1> QED BY <1>3, <1>6, <1>7 DEF READ_HEAVY_E, WRITE_HEAVY_E

\* Each operation moves epsilon towards its own end of the range or leaves it.
THEOREM Follows == Spec => FollowsWorkload
<1>1. IInv /\ [Next]_vars =>
        [ /\ AddRead  => GetEpsilon(window', W) >= GetEpsilon(window, W)
          /\ AddWrite => GetEpsilon(window', W) <= GetEpsilon(window, W) ]_vars
  BY FollowsStep DEF Next
<1> QED BY <1>1, RecentInit, RecentStep, PTL DEF Spec, FollowsWorkload
=============================================================================
