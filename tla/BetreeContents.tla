--------------------------- MODULE BetreeContents ---------------------------
(***************************************************************************)
(* The tree holds what was put into it, as long as its shortcut is taken   *)
(* only when the comment at betree.hpp:914 is right, DirtyChildBufferEmpty:*)
(* the runs show how a shortcut past buffered messages loses some.         *)
(*                                                                         *)
(* In the middle of a call the messages on their way are in two places,    *)
(* the buffer that they are flushed from and the argument of the flush(),  *)
(* and the parts of a node that was split are in none.  The proof is about *)
(* a view of the tree in which each message and each part is in one place: *)
(* a node without the batch it waits for, with what it was given and has   *)
(* not applied yet, and with its parts as children when it was split.      *)
(*                                                                         *)
(* For each node of the view and each key there are a time, no message for *)
(* the key there or below is later, and a value, which the messages there  *)
(* and below come to; messages for a key move down in the order of their   *)
(* times, and the values of the root are those of the std::map.            *)
(*                                                                         *)
(* The last two sections say when the comment is right: as long as every   *)
(* node is in memory, which a cache that is larger than the tree ensures.  *)
(***************************************************************************)
EXTENDS BetreeOrder

-----------------------------------------------------------------------------
(* The view of a tree. *)

\* The keys that pivot p leads to.
InRange(n, p, k) == p <= k /\ \A q \in NextPivots(n, p) : k < q

\* What a query of n for k gets from the child it asks.
Below(v, n, k) ==
    IF ~IsLeaf(n) /\ FirstPivot(n) <= k THEN v[n.pivots[GetPivot(n, k)]][k] ELSE None

Held(n) == n.elements \union n.given

ViewNode(n, ids, now) ==
    /\ DOMAIN n.pivots \subseteq Keys /\ n.pivots \in [DOMAIN n.pivots -> ids]
    /\ n.elements \in Buffer(now) /\ Orderly(n.elements)
    /\ n.given \in Buffer(now) /\ Orderly(n.given)

\* The times and values of a node are in order.
TimesOK(t, n, id) ==
    /\ \A m \in Held(n) : m.ts <= t[id][m.key]
    /\ \A m \in n.elements : \A x \in n.given : m.key = x.key => m.ts < x.ts
    /\ \A p \in DOMAIN n.pivots :
          /\ \A k \in Keys : /\ t[n.pivots[p]][k] <= t[id][k]
                             /\ t[n.pivots[p]][k] > 0 => InRange(n, p, k)
          /\ \A m \in Held(n) : t[n.pivots[p]][m.key] < m.ts

ValuesOK(t, v, n, id) ==
    \A k \in Keys :
        /\ v[id][k] = Eval(n.given, k, Eval(n.elements, k, Below(v, n, k)))
        /\ t[id][k] = 0 => v[id][k] = None

ViewTypes(t, v, w, now) ==
    /\ t \in [DOMAIN w -> [Keys -> 0 .. now - 1]]
    /\ v \in [DOMAIN w -> [Keys -> Answers]]
    /\ \A id \in DOMAIN w : ViewNode(w[id], DOMAIN w, now)

ViewOK(t, v, w, now) ==
    /\ ViewTypes(t, v, w, now)
    /\ \A id \in DOMAIN w : TimesOK(t, w[id], id) /\ ValuesOK(t, v, w[id], id)

-----------------------------------------------------------------------------
(* Reading a view. *)

\* get_pivot finds the pivot whose range a key is in, and no other has the key.
LEMMA RangeIs ==
  ASSUME NEW n, DOMAIN n.pivots \subseteq Keys
  PROVE  /\ ~IsLeaf(n) => /\ FirstPivot(n) \in DOMAIN n.pivots
                          /\ \A p \in DOMAIN n.pivots : FirstPivot(n) <= p
         /\ \A k \in Keys : ~IsLeaf(n) /\ FirstPivot(n) <= k =>
               /\ GetPivot(n, k) \in DOMAIN n.pivots /\ InRange(n, GetPivot(n, k), k)
         /\ \A k \in Keys : \A p \in DOMAIN n.pivots : InRange(n, p, k) =>
               ~IsLeaf(n) /\ FirstPivot(n) <= k /\ GetPivot(n, k) = p
<1>1. DOMAIN n.pivots \in SUBSET Int /\ IsFiniteSet(DOMAIN n.pivots)
  BY KeysAssumption, FS_Subset
<1>2. ~IsLeaf(n) => /\ FirstPivot(n) \in DOMAIN n.pivots
                    /\ \A p \in DOMAIN n.pivots : FirstPivot(n) <= p
  BY <1>1, FiniteMaxMin DEF IsLeaf, FirstPivot
<1>3. ASSUME NEW k \in Keys, ~IsLeaf(n), FirstPivot(n) <= k
      PROVE  GetPivot(n, k) \in DOMAIN n.pivots /\ InRange(n, GetPivot(n, k), k)
  <2> DEFINE S == {p \in DOMAIN n.pivots : p <= k}
  <2>1. S \in SUBSET Int /\ IsFiniteSet(S) /\ S # {} /\ k \in Int
    BY <1>1, <1>2, <1>3, FS_Subset, KeysAssumption
  <2>2. Max(S) \in S /\ \A y \in S : y <= Max(S)
    <3> HIDE DEF S
    <3> QED BY <2>1, FiniteMaxMin
  <2> QED BY <1>1, <2>1, <2>2 DEF GetPivot, InRange, NextPivots
<1>4. ASSUME NEW k \in Keys, NEW p \in DOMAIN n.pivots, InRange(n, p, k)
      PROVE  ~IsLeaf(n) /\ FirstPivot(n) <= k /\ GetPivot(n, k) = p
  <2>1. ~IsLeaf(n) /\ k \in Int
    BY KeysAssumption DEF IsLeaf
  <2>2. FirstPivot(n) <= k
    BY <1>1, <1>2, <1>4, <2>1 DEF InRange
  <2>3. GetPivot(n, k) \in DOMAIN n.pivots /\ InRange(n, GetPivot(n, k), k)
    BY <1>3, <2>1, <2>2
  <2> QED BY <1>1, <1>4, <2>1, <2>2, <2>3 DEF InRange, NextPivots
<1> QED BY <1>2, <1>3, <1>4

\* What is below is the value of the child whose range the key is in, if there is one.
LEMMA BelowIs ==
  ASSUME NEW n, DOMAIN n.pivots \subseteq Keys, NEW k \in Keys
  PROVE  /\ \A p \in DOMAIN n.pivots : InRange(n, p, k) =>
               \A v : Below(v, n, k) = v[n.pivots[p]][k]
         /\ (\A p \in DOMAIN n.pivots : ~InRange(n, p, k)) => \A v : Below(v, n, k) = None
<1>1. \A p \in DOMAIN n.pivots : InRange(n, p, k) =>
         ~IsLeaf(n) /\ FirstPivot(n) <= k /\ GetPivot(n, k) = p
  BY RangeIs
<1>2. ~IsLeaf(n) /\ FirstPivot(n) <= k =>
         GetPivot(n, k) \in DOMAIN n.pivots /\ InRange(n, GetPivot(n, k), k)
  BY RangeIs
<1>3. ASSUME NEW p \in DOMAIN n.pivots, InRange(n, p, k), NEW v
      PROVE  Below(v, n, k) = v[n.pivots[p]][k]
  BY <1>1, <1>3 DEF Below
<1>4. ASSUME \A p \in DOMAIN n.pivots : ~InRange(n, p, k), NEW v
      PROVE  Below(v, n, k) = None
  BY <1>2, <1>4 DEF Below
<1> QED BY <1>3, <1>4

\* Times and values of a node and its children are all that counts for it.
LEMMA Elsewhere ==
  ASSUME NEW n, DOMAIN n.pivots \subseteq Keys, NEW id, NEW t, NEW v
  PROVE  \A s, x : s[id] = t[id] /\ x[id] = v[id]
                   /\ (\A p \in DOMAIN n.pivots : s[n.pivots[p]] = t[n.pivots[p]]
                                                  /\ x[n.pivots[p]] = v[n.pivots[p]]) =>
            /\ TimesOK(t, n, id) => TimesOK(s, n, id)
            /\ ValuesOK(t, v, n, id) => ValuesOK(s, x, n, id)
<1> SUFFICES ASSUME NEW s, NEW x, s[id] = t[id], x[id] = v[id],
                    \A p \in DOMAIN n.pivots : s[n.pivots[p]] = t[n.pivots[p]]
                                               /\ x[n.pivots[p]] = v[n.pivots[p]]
             PROVE  /\ TimesOK(t, n, id) => TimesOK(s, n, id)
                    /\ ValuesOK(t, v, n, id) => ValuesOK(s, x, n, id)
  OBVIOUS
<1>1. TimesOK(t, n, id) => TimesOK(s, n, id)
  BY DEF TimesOK
<1>2. ASSUME NEW k \in Keys PROVE Below(x, n, k) = Below(v, n, k)
  BY RangeIs DEF Below
<1>3. ValuesOK(t, v, n, id) => ValuesOK(s, x, n, id)
  BY <1>2 DEF ValuesOK
<1> QED BY <1>1, <1>3

\* What is below is an answer.
LEMMA BelowIn ==
  ASSUME NEW t, NEW v, NEW w, NEW now, ViewTypes(t, v, w, now), NEW id \in DOMAIN w
  PROVE  \A k \in Keys : Below(v, w[id], k) \in Answers
                         /\ (IsLeaf(w[id]) => Below(v, w[id], k) = None)
<1> DEFINE n == w[id]
<1> SUFFICES ASSUME NEW k \in Keys
             PROVE  Below(v, n, k) \in Answers /\ (IsLeaf(n) => Below(v, n, k) = None)
  OBVIOUS
<1>1. /\ DOMAIN n.pivots \subseteq Keys /\ n.pivots \in [DOMAIN n.pivots -> DOMAIN w]
      /\ v \in [DOMAIN w -> [Keys -> Answers]]
  BY DEF ViewTypes, ViewNode
<1>2. ~IsLeaf(n) /\ FirstPivot(n) <= k => GetPivot(n, k) \in DOMAIN n.pivots
  <2> HIDE DEF n
  <2> QED BY <1>1, RangeIs
<1>3. None \in Answers
  BY DEF Answers
<1> HIDE DEF n
<1> QED BY <1>1, <1>2, <1>3 DEF Below

\* A node of the view in parts.
LEMMA ViewFacts ==
  ASSUME NEW t, NEW v, NEW w, NEW now, ViewOK(t, v, w, now), NEW id \in DOMAIN w
  PROVE  /\ ViewTypes(t, v, w, now) /\ ViewNode(w[id], DOMAIN w, now)
         /\ TimesOK(t, w[id], id) /\ ValuesOK(t, v, w[id], id)
         /\ \A k \in Keys : t[id][k] \in 0 .. now - 1 /\ t[id][k] \in Nat /\ v[id][k] \in Answers
         /\ \A p \in DOMAIN w[id].pivots : w[id].pivots[p] \in DOMAIN w
         /\ \A m \in Held(w[id]) : /\ m.key \in Keys /\ m.key \in Int /\ m.ts \in Nat
                                   /\ 0 < m.ts /\ m.ts \in 1 .. now - 1
BY MessageFields DEF ViewOK, ViewTypes, ViewNode, Held

-----------------------------------------------------------------------------
(* Changes of the view. *)

\* u is w with m for its node id.
Only(u, w, id, m) ==
    /\ id \in DOMAIN w /\ DOMAIN u = DOMAIN w /\ u[id] = m
    /\ \A i \in DOMAIN w : i # id => u[i] = w[i]

\* m holds no message that n did not, and the messages of both come to the same.
Rewrites(m, n, ids, now) ==
    /\ ViewNode(m, ids, now) /\ Moves(m, n)
    /\ \A e \in Held(m) : \E x \in Held(n) : x.key = e.key /\ x.ts = e.ts
    /\ \A e \in m.elements : \A x \in m.given : e.key = x.key => e.ts < x.ts
    /\ \A k \in Keys : \A b \in Answers : (IsLeaf(n) => b = None) =>
          Eval(m.given, k, Eval(m.elements, k, b)) = Eval(n.given, k, Eval(n.elements, k, b))

\* A node applies what it was given, or has the keys of its pivots lowered.
LEMMA ViewChange ==
  ASSUME NEW t, NEW v, NEW w, NEW now, ViewOK(t, v, w, now),
         NEW id, NEW m, NEW u, Only(u, w, id, m), Rewrites(m, w[id], DOMAIN w, now)
  PROVE  ViewOK(t, v, u, now)
<1> SUFFICES ASSUME ViewNode(m, DOMAIN w, now), Moves(m, w[id]),
                    \A e \in Held(m) : \E x \in Held(w[id]) : x.key = e.key /\ x.ts = e.ts,
                    \A e \in m.elements : \A x \in m.given : e.key = x.key => e.ts < x.ts,
                    \A k \in Keys : \A b \in Answers : (IsLeaf(w[id]) => b = None) =>
                       Eval(m.given, k, Eval(m.elements, k, b))
                         = Eval(w[id].given, k, Eval(w[id].elements, k, b))
             PROVE  ViewOK(t, v, u, now)
  BY DEF Rewrites
<1> DEFINE n == w[id]
<1>1. /\ ViewTypes(t, v, w, now) /\ ViewNode(n, DOMAIN w, now) /\ id \in DOMAIN w
      /\ TimesOK(t, n, id) /\ ValuesOK(t, v, n, id)
      /\ \A k \in Keys : t[id][k] \in Nat
      /\ \A p \in DOMAIN n.pivots : n.pivots[p] \in DOMAIN w
  BY ViewFacts DEF Only
<1>2. PICK o \in [DOMAIN m.pivots -> DOMAIN n.pivots] :
         /\ \A p \in DOMAIN m.pivots : /\ p <= o[p] /\ m.pivots[p] = n.pivots[o[p]]
                                       /\ \A q \in NextPivots(m, p) : q \in NextPivots(n, o[p])
         /\ \A q \in DOMAIN n.pivots : \E p \in DOMAIN m.pivots : o[p] = q
  BY DEF Moves
<1>3. /\ DOMAIN n.pivots \subseteq Int /\ DOMAIN m.pivots \subseteq Int /\ Keys \subseteq Int
      /\ DOMAIN n.pivots \subseteq Keys /\ DOMAIN m.pivots \subseteq Keys
  <2> HIDE DEF n
  <2> QED BY <1>1, KeysAssumption DEF ViewNode
<1>4. \A p \in DOMAIN m.pivots : \A k \in Keys : InRange(n, o[p], k) => InRange(m, p, k)
  <2> HIDE DEF n
  <2> QED BY <1>2, <1>3 DEF InRange
<1>5. ASSUME NEW k \in Keys PROVE Below(v, m, k) = Below(v, n, k)
  <2>1. CASE \E q \in DOMAIN n.pivots : InRange(n, q, k)
    <3>1. PICK q \in DOMAIN n.pivots : InRange(n, q, k)
      BY <2>1
    <3>2. PICK p \in DOMAIN m.pivots : o[p] = q
      BY <1>2
    <3>3. InRange(m, p, k) /\ m.pivots[p] = n.pivots[q]
      BY <1>2, <1>4, <3>1, <3>2
    <3> HIDE DEF n
    <3> QED BY <1>3, <3>1, <3>3, BelowIs
  <2>2. CASE \A q \in DOMAIN n.pivots : ~InRange(n, q, k)
    <3>1. Below(v, n, k) = None
      <4> HIDE DEF n
      <4> QED BY <1>3, <2>2, BelowIs
    <3>2. ASSUME NEW p \in DOMAIN m.pivots, InRange(m, p, k)
          PROVE  Below(v, m, k) = None
      <4>1. Below(v, m, k) = v[m.pivots[p]][k]
        BY <1>3, <3>2, BelowIs
      <4>2. o[p] \in DOMAIN n.pivots /\ m.pivots[p] = n.pivots[o[p]]
        BY <1>2
      <4>3. n.pivots[o[p]] \in DOMAIN w
        BY <1>1, <4>2
      <4>4. /\ ~(t[n.pivots[o[p]]][k] > 0) /\ t[n.pivots[o[p]]][k] \in Nat
            /\ t[n.pivots[o[p]]][k] = 0 => v[n.pivots[o[p]]][k] = None
        <5>1. t[n.pivots[o[p]]][k] > 0 => InRange(n, o[p], k)
          BY <1>1, <4>2 DEF TimesOK
        <5>2. /\ t[n.pivots[o[p]]][k] \in Nat
              /\ t[n.pivots[o[p]]][k] = 0 => v[n.pivots[o[p]]][k] = None
          <6> HIDE DEF n
          <6> QED BY <4>3, ViewFacts DEF ValuesOK
        <5> QED BY <2>2, <4>2, <5>1, <5>2
      <4> QED BY <4>1, <4>2, <4>4
    <3>3. (\A p \in DOMAIN m.pivots : ~InRange(m, p, k)) => Below(v, m, k) = None
      BY <1>3, BelowIs
    <3> QED BY <3>1, <3>2, <3>3
  <2> QED BY <2>1, <2>2
<1>6. TimesOK(t, m, id)
  <2>1. \A e \in Held(m) : e.ts <= t[id][e.key]
    <3> HIDE DEF n
    <3> QED BY <1>1 DEF TimesOK, n
  <2>2. ASSUME NEW p \in DOMAIN m.pivots
        PROVE  /\ \A k \in Keys : /\ t[m.pivots[p]][k] <= t[id][k]
                                  /\ t[m.pivots[p]][k] > 0 => InRange(m, p, k)
               /\ \A e \in Held(m) : t[m.pivots[p]][e.key] < e.ts
    <3>1. o[p] \in DOMAIN n.pivots /\ m.pivots[p] = n.pivots[o[p]]
      BY <1>2
    <3>2. /\ \A k \in Keys : /\ t[n.pivots[o[p]]][k] <= t[id][k]
                             /\ t[n.pivots[o[p]]][k] > 0 => InRange(n, o[p], k)
          /\ \A e \in Held(n) : t[n.pivots[o[p]]][e.key] < e.ts
      BY <1>1, <3>1 DEF TimesOK
    <3>3. \A e \in Held(m) : t[m.pivots[p]][e.key] < e.ts
      BY <3>1, <3>2
    <3> HIDE DEF n
    <3> QED BY <1>4, <3>1, <3>2, <3>3
  <2> QED BY <2>1, <2>2 DEF TimesOK
<1>7. ValuesOK(t, v, m, id)
  <2> SUFFICES ASSUME NEW k \in Keys
               PROVE  /\ v[id][k] = Eval(m.given, k, Eval(m.elements, k, Below(v, m, k)))
                      /\ t[id][k] = 0 => v[id][k] = None
    BY DEF ValuesOK
  <2>1. Below(v, n, k) \in Answers /\ (IsLeaf(n) => Below(v, n, k) = None)
    <3> HIDE DEF n
    <3> QED BY <1>1, BelowIn DEF n
  <2>2. /\ v[id][k] = Eval(n.given, k, Eval(n.elements, k, Below(v, n, k)))
        /\ t[id][k] = 0 => v[id][k] = None
    BY <1>1 DEF ValuesOK
  <2> QED BY <1>5, <2>1, <2>2
<1>8. ASSUME NEW i \in DOMAIN u
      PROVE  /\ ViewNode(u[i], DOMAIN u, now)
             /\ TimesOK(t, u[i], i) /\ ValuesOK(t, v, u[i], i)
  <2>1. CASE i = id
    BY <1>6, <1>7, <2>1 DEF Only
  <2>2. CASE i # id
    <3>1. u[i] = w[i] /\ i \in DOMAIN w /\ DOMAIN u = DOMAIN w
      BY <2>2 DEF Only
    <3> QED BY <3>1, ViewFacts
  <2> QED BY <2>1, <2>2
<1>9. DOMAIN u = DOMAIN w
  BY DEF Only
<1> QED BY <1>1, <1>8, <1>9 DEF ViewOK, ViewTypes

\* m is left of the node id of w, and b is sent to its child on pivot p.
Sends(u, w, id, p, m, b) ==
    LET n == w[id]
        c == n.pivots[p]
    IN  /\ id \in DOMAIN w /\ p \in DOMAIN n.pivots /\ c # id
        /\ \A a \in DOMAIN w : \A q \in DOMAIN w[a].pivots : w[a].pivots[q] = c => a = id /\ q = p
        /\ DOMAIN u = DOMAIN w /\ u[id] = m /\ w[c].given = {}
        /\ u[c].pivots = w[c].pivots /\ u[c].elements = w[c].elements /\ u[c].given = b
        /\ \A i \in DOMAIN w : i # id /\ i # c => u[i] = w[i]
        /\ m.pivots = n.pivots /\ m.given = {} /\ m.elements \subseteq n.elements
        /\ b \subseteq Held(n)

\* All messages of n for the keys that pivot p leads to are in b, and all others in m.
Halves(n, p, m, b, now) ==
    /\ b \in Buffer(now) /\ Orderly(b) /\ \A e \in b : InRange(n, p, e.key)
    /\ \A e \in m.elements : ~InRange(n, p, e.key)
    /\ \A k \in Keys : \A y \in Answers :
          Eval(n.given, k, Eval(n.elements, k, y))
            = IF InRange(n, p, k) THEN Eval(b, k, y) ELSE Eval(m.elements, k, y)

\* A node sends its child all messages that it holds for the keys in the range of the
\* child: none is left behind that a later one has overtaken.
LEMMA ViewSend ==
  ASSUME NEW t, NEW v, NEW w, NEW now \in Nat, ViewOK(t, v, w, now),
         NEW id, NEW p, NEW m, NEW b, NEW u, Sends(u, w, id, p, m, b),
         Halves(w[id], p, m, b, now)
  PROVE  \E s, x : /\ ViewOK(s, x, u, now)
                   /\ \A i \in DOMAIN w : i # w[id].pivots[p] => x[i] = v[i]
<1> SUFFICES ASSUME b \in Buffer(now), Orderly(b), \A e \in b : InRange(w[id], p, e.key),
                    \A e \in m.elements : ~InRange(w[id], p, e.key),
                    \A k \in Keys : \A y \in Answers :
                       Eval(w[id].given, k, Eval(w[id].elements, k, y))
                         = IF InRange(w[id], p, k) THEN Eval(b, k, y) ELSE Eval(m.elements, k, y)
             PROVE  \E s, x : /\ ViewOK(s, x, u, now)
                              /\ \A i \in DOMAIN w : i # w[id].pivots[p] => x[i] = v[i]
  BY DEF Halves
<1> DEFINE n == w[id]
           c == n.pivots[p]
           d == w[c]
           s == [t EXCEPT ![c] = [k \in Keys |-> IF InRange(n, p, k) THEN t[id][k] ELSE 0]]
           x == [v EXCEPT ![c] = [k \in Keys |-> Eval(b, k, v[c][k])]]
<1>1. /\ ViewTypes(t, v, w, now) /\ ViewNode(n, DOMAIN w, now) /\ id \in DOMAIN w
      /\ TimesOK(t, n, id) /\ ValuesOK(t, v, n, id)
      /\ \A k \in Keys : t[id][k] \in 0 .. now - 1 /\ t[id][k] \in Nat /\ v[id][k] \in Answers
      /\ c \in DOMAIN w /\ p \in DOMAIN n.pivots /\ c # id
      /\ \A e \in Held(n) : e.key \in Keys /\ e.ts \in Nat /\ 0 < e.ts
  BY ViewFacts DEF Sends
<1>2. /\ ViewNode(d, DOMAIN w, now) /\ TimesOK(t, d, c) /\ ValuesOK(t, v, d, c)
      /\ \A k \in Keys : t[c][k] \in Nat /\ v[c][k] \in Answers
      /\ \A e \in Held(d) : e.key \in Keys /\ e.ts \in Nat /\ 0 < e.ts
      /\ d.given = {}
      /\ \A q \in DOMAIN d.pivots : d.pivots[q] \in DOMAIN w /\ d.pivots[q] # c
  <2>1. \A q \in DOMAIN d.pivots : d.pivots[q] # c
    BY <1>1 DEF Sends
  <2>2. d.given = {}
    BY DEF Sends
  <2> HIDE DEF c
  <2> QED BY <1>1, <2>1, <2>2, ViewFacts
<1>3. \A k \in Keys : /\ t[c][k] <= t[id][k]
                      /\ t[c][k] > 0 => InRange(n, p, k)
                      /\ ~InRange(n, p, k) => t[c][k] = 0
  <2>1. \A k \in Keys : t[c][k] <= t[id][k] /\ (t[c][k] > 0 => InRange(n, p, k))
    BY <1>1 DEF TimesOK
  <2> HIDE DEF n, c
  <2> QED BY <1>2, <2>1
<1>4. \A e \in Held(n) : t[c][e.key] < e.ts
  BY <1>1 DEF TimesOK
<1>5. /\ DOMAIN t = DOMAIN w /\ DOMAIN v = DOMAIN w
      /\ DOMAIN n.pivots \subseteq Keys /\ DOMAIN d.pivots \subseteq Keys
  BY <1>1, <1>2 DEF ViewTypes, ViewNode
<1>6. /\ \A k \in Keys : s[c][k] = IF InRange(n, p, k) THEN t[id][k] ELSE 0
      /\ \A k \in Keys : x[c][k] = Eval(b, k, v[c][k])
      /\ \A i \in DOMAIN w : i # c => s[i] = t[i] /\ x[i] = v[i]
  BY <1>1, <1>5
<1>7. \A k \in Keys : \A y \in Answers : Eval(b, k, y) \in Answers
                                         /\ (~InRange(n, p, k) => Eval(b, k, y) = y)
  <2> SUFFICES ASSUME NEW k \in Keys, NEW y \in Answers
               PROVE  Eval(b, k, y) \in Answers /\ (~InRange(n, p, k) => Eval(b, k, y) = y)
    OBVIOUS
  <2>1. ~InRange(n, p, k) => For(b, k) = {}
    BY DEF For
  <2> QED BY <2>1, EvalIn
<1>8. ViewTypes(s, x, u, now)
  <2>1. s \in [DOMAIN w -> [Keys -> 0 .. now - 1]]
    <3>1. \A k \in Keys : (IF InRange(n, p, k) THEN t[id][k] ELSE 0) \in 0 .. now - 1
      <4> HIDE DEF n
      <4> QED BY <1>1
    <3>2. t \in [DOMAIN w -> [Keys -> 0 .. now - 1]]
      BY <1>1 DEF ViewTypes
    <3> HIDE DEF n, c
    <3> QED BY <1>1, <3>1, <3>2
  <2>2. x \in [DOMAIN w -> [Keys -> Answers]]
    <3>1. v \in [DOMAIN w -> [Keys -> Answers]]
      BY <1>1 DEF ViewTypes
    <3>2. \A k \in Keys : Eval(b, k, v[c][k]) \in Answers
      <4> HIDE DEF n, c
      <4> QED BY <1>2, <1>7
    <3> HIDE DEF n, c
    <3> QED BY <1>1, <3>1, <3>2
  <2>3. ASSUME NEW i \in DOMAIN u PROVE ViewNode(u[i], DOMAIN u, now)
    <3>1. CASE i = id
      <4>1. m.elements \in Buffer(now) /\ Orderly(m.elements)
        <5>1. n.elements \in Buffer(now) /\ Orderly(n.elements) /\ m.elements \subseteq n.elements
          BY <1>1 DEF ViewNode, Sends
        <5>2. m.elements \in Buffer(now)
          BY <5>1, MessageFields
        <5> HIDE DEF n
        <5> QED BY <5>1, <5>2 DEF Orderly
      <4>2. m.given \in Buffer(now) /\ Orderly(m.given)
        BY FS_EmptySet DEF Buffer, Orderly, Sends
      <4>3. m.pivots = n.pivots /\ u[i] = m /\ DOMAIN u = DOMAIN w
        BY <3>1 DEF Sends
      <4> HIDE DEF n
      <4> QED BY <1>1, <4>1, <4>2, <4>3 DEF ViewNode
    <3>2. CASE i = c
      <4>1. /\ u[i].pivots = d.pivots /\ u[i].elements = d.elements /\ u[i].given = b
            /\ DOMAIN u = DOMAIN w
        BY <3>2 DEF Sends
      <4> HIDE DEF c, d
      <4> QED BY <1>2, <4>1 DEF ViewNode
    <3>3. CASE i # id /\ i # c
      BY <1>1, <3>3 DEF Sends, ViewTypes
    <3> QED BY <3>1, <3>2, <3>3
  <2>4. DOMAIN u = DOMAIN w
    BY DEF Sends
  <2> HIDE DEF s, x
  <2> QED BY <2>1, <2>2, <2>3, <2>4 DEF ViewTypes
<1> HIDE DEF s, x
\* The node that sends.
<1>9. \A k \in Keys : ~InRange(n, p, k) => Below(x, n, k) = Below(v, n, k)
  <2> SUFFICES ASSUME NEW k \in Keys, ~InRange(n, p, k) PROVE Below(x, n, k) = Below(v, n, k)
    OBVIOUS
  <2>1. \A q \in DOMAIN n.pivots : n.pivots[q] \in DOMAIN w /\ (n.pivots[q] = c => q = p)
    BY <1>1 DEF Sends, ViewNode
  <2>2. CASE \E q \in DOMAIN n.pivots : InRange(n, q, k)
    <3>1. PICK q \in DOMAIN n.pivots : InRange(n, q, k)
      BY <2>2
    <3>2. n.pivots[q] \in DOMAIN w /\ n.pivots[q] # c
      BY <2>1, <3>1
    <3>3. x[n.pivots[q]] = v[n.pivots[q]]
      BY <1>6, <3>2
    <3> HIDE DEF n, c
    <3> QED BY <1>5, <3>1, <3>3, BelowIs
  <2>3. CASE \A q \in DOMAIN n.pivots : ~InRange(n, q, k)
    <3> HIDE DEF n, c
    <3> QED BY <1>5, <2>3, BelowIs
  <2> QED BY <2>2, <2>3
<1>10. \A k \in Keys : InRange(n, p, k) => /\ Below(x, n, k) = Eval(b, k, v[c][k])
                                           /\ Below(v, n, k) = v[c][k]
  <2> SUFFICES ASSUME NEW k \in Keys, InRange(n, p, k)
               PROVE  Below(x, n, k) = Eval(b, k, v[c][k]) /\ Below(v, n, k) = v[c][k]
    OBVIOUS
  <2>1. Below(x, n, k) = x[c][k] /\ Below(v, n, k) = v[c][k]
    <3> HIDE DEF n
    <3> QED BY <1>1, <1>5, BelowIs DEF n
  <2> QED BY <1>6, <2>1
<1>11. /\ m.pivots = n.pivots /\ m.given = {} /\ m.elements \subseteq n.elements
       /\ \A k \in Keys : \A y : Eval(m.given, k, y) = y
       /\ \A z : \A k \in Keys : Below(z, m, k) = Below(z, n, k)
       /\ \A q \in DOMAIN n.pivots : \A k : InRange(m, q, k) <=> InRange(n, q, k)
  <2>1. m.pivots = n.pivots /\ m.given = {} /\ m.elements \subseteq n.elements
    BY DEF Sends
  <2>2. \A k \in Keys : \A y : Eval({}, k, y) = y
    BY DEF Eval, For
  <2> HIDE DEF n
  <2> QED BY <2>1, <2>2 DEF Below, IsLeaf, FirstPivot, GetPivot, InRange, NextPivots
<1>12. TimesOK(s, m, id)
  <2>1. Held(m) \subseteq Held(n) /\ Held(m) = m.elements
    BY <1>11 DEF Held
  <2>2. s[id] = t[id]
    BY <1>1, <1>6
  <2>3. \A e \in Held(m) : e.ts <= s[id][e.key]
    BY <1>1, <2>1, <2>2 DEF TimesOK
  <2>4. ASSUME NEW q \in DOMAIN m.pivots
        PROVE  /\ \A k \in Keys : /\ s[m.pivots[q]][k] <= s[id][k]
                                  /\ s[m.pivots[q]][k] > 0 => InRange(m, q, k)
               /\ \A e \in Held(m) : s[m.pivots[q]][e.key] < e.ts
    <3>1. CASE q = p
      <4>1. m.pivots[q] = c /\ \A k : InRange(m, q, k) <=> InRange(n, p, k)
        BY <1>1, <1>11, <3>1
      <4>2. \A e \in Held(m) : e.key \in Keys /\ ~InRange(n, p, e.key) /\ e.ts \in Nat /\ 0 < e.ts
        BY <1>1, <2>1
      <4> HIDE DEF n, c
      <4> QED BY <1>1, <1>6, <2>2, <4>1, <4>2
    <3>2. CASE q # p
      <4>1. m.pivots[q] = n.pivots[q] /\ q \in DOMAIN n.pivots /\ n.pivots[q] # c
            /\ n.pivots[q] \in DOMAIN w
        BY <1>1, <1>11, <3>2 DEF Sends, ViewNode
      <4>2. /\ \A k \in Keys : /\ t[n.pivots[q]][k] <= t[id][k]
                               /\ t[n.pivots[q]][k] > 0 => InRange(n, q, k)
            /\ \A e \in Held(n) : t[n.pivots[q]][e.key] < e.ts
        BY <1>1, <4>1 DEF TimesOK
      <4>3. s[m.pivots[q]] = t[n.pivots[q]]
        BY <1>6, <4>1
      <4>4. \A k : InRange(n, q, k) => InRange(m, q, k)
        BY <1>11, <4>1
      <4>5. \A e \in Held(m) : t[n.pivots[q]][e.key] < e.ts
        BY <2>1, <4>2
      <4> HIDE DEF n, c
      <4> QED BY <2>2, <4>2, <4>3, <4>4, <4>5
    <3> QED BY <3>1, <3>2
  <2> QED BY <1>11, <2>3, <2>4 DEF TimesOK
<1>13. ValuesOK(s, x, m, id)
  <2> SUFFICES ASSUME NEW k \in Keys
               PROVE  /\ x[id][k] = Eval(m.given, k, Eval(m.elements, k, Below(x, m, k)))
                      /\ s[id][k] = 0 => x[id][k] = None
    BY DEF ValuesOK
  <2>1. x[id] = v[id] /\ s[id] = t[id]
    BY <1>1, <1>6
  <2>2. /\ v[id][k] = Eval(n.given, k, Eval(n.elements, k, Below(v, n, k)))
        /\ t[id][k] = 0 => v[id][k] = None
    BY <1>1 DEF ValuesOK
  <2>3. Below(v, n, k) \in Answers
    <3> HIDE DEF n
    <3> QED BY <1>1, BelowIn DEF n
  <2>4. v[id][k] = IF InRange(n, p, k) THEN Eval(b, k, Below(v, n, k))
                   ELSE Eval(m.elements, k, Below(v, n, k))
    BY <2>2, <2>3
  <2>5. Eval(m.given, k, Eval(m.elements, k, Below(x, m, k))) = Eval(m.elements, k, Below(x, n, k))
    BY <1>11
  <2>6. CASE InRange(n, p, k)
    <3>1. For(m.elements, k) = {}
      BY <2>6 DEF For
    <3>2. \A y : Eval(m.elements, k, y) = y
      BY <3>1 DEF Eval
    <3> HIDE DEF n, c
    <3> QED BY <1>10, <2>1, <2>2, <2>4, <2>5, <2>6, <3>2
  <2>7. CASE ~InRange(n, p, k)
    <3> HIDE DEF n, c
    <3> QED BY <1>9, <2>1, <2>2, <2>4, <2>5, <2>7
  <2> QED BY <2>6, <2>7
\* The child that it sends to.
<1>14. /\ u[c].pivots = d.pivots /\ u[c].elements = d.elements /\ u[c].given = b
       /\ \A z : \A k \in Keys : Below(z, u[c], k) = Below(z, d, k)
       /\ \A q \in DOMAIN d.pivots : \A k : InRange(u[c], q, k) <=> InRange(d, q, k)
       /\ Held(d) = d.elements
  <2>1. u[c].pivots = d.pivots /\ u[c].elements = d.elements /\ u[c].given = b
    BY DEF Sends
  <2>2. Held(d) = d.elements
    BY <1>2 DEF Held
  <2> HIDE DEF c, d
  <2> QED BY <2>1, <2>2 DEF Below, IsLeaf, FirstPivot, GetPivot, InRange, NextPivots
<1>15. \A e \in b : /\ e \in Held(n) /\ e.key \in Keys /\ InRange(n, p, e.key)
                    /\ e.ts <= t[id][e.key] /\ t[c][e.key] < e.ts
  BY <1>1, <1>4 DEF Sends, TimesOK
<1>16. \A e \in d.elements : e.ts <= t[c][e.key] /\ e.key \in Keys /\ e.ts \in Nat /\ 0 < e.ts
  BY <1>2, <1>14 DEF TimesOK
<1>17. TimesOK(s, u[c], c)
  <2>1. ASSUME NEW e \in Held(u[c]) PROVE e.ts <= s[c][e.key]
    <3>1. e \in d.elements \/ e \in b
      BY <1>14, <2>1 DEF Held
    <3>2. CASE e \in d.elements
      <4> HIDE DEF n, c, d
      <4> QED BY <1>1, <1>2, <1>3, <1>6, <1>16, <3>2
    <3>3. CASE e \in b
      <4> HIDE DEF n, c, d
      <4> QED BY <1>6, <1>15, <3>3
    <3> QED BY <3>1, <3>2, <3>3
  <2>2. ASSUME NEW e \in u[c].elements, NEW y \in u[c].given, e.key = y.key PROVE e.ts < y.ts
    <3>1. e \in d.elements /\ y \in b
      BY <1>14, <2>2
    <3>2. y.ts \in Nat
      BY <1>1, <1>15, <3>1
    <3> HIDE DEF n, c, d
    <3> QED BY <1>2, <1>15, <1>16, <2>2, <3>1, <3>2
  <2>3. ASSUME NEW q \in DOMAIN u[c].pivots
        PROVE  /\ \A k \in Keys : /\ s[u[c].pivots[q]][k] <= s[c][k]
                                  /\ s[u[c].pivots[q]][k] > 0 => InRange(u[c], q, k)
               /\ \A e \in Held(u[c]) : s[u[c].pivots[q]][e.key] < e.ts
    <3>1. q \in DOMAIN d.pivots /\ u[c].pivots[q] = d.pivots[q]
      BY <1>14
    <3>2. s[u[c].pivots[q]] = t[d.pivots[q]] /\ d.pivots[q] \in DOMAIN w
      BY <1>2, <1>6, <3>1
    <3>3. /\ \A k \in Keys : /\ t[d.pivots[q]][k] <= t[c][k]
                             /\ t[d.pivots[q]][k] > 0 => InRange(d, q, k)
          /\ \A e \in Held(d) : t[d.pivots[q]][e.key] < e.ts
      BY <1>2, <3>1 DEF TimesOK
    <3>4. \A k \in Keys : t[d.pivots[q]][k] \in Nat
      <4> HIDE DEF n, c, d
      <4> QED BY <1>1, <3>2 DEF ViewTypes
    <3>5. \A k : InRange(d, q, k) => InRange(u[c], q, k)
      BY <1>14, <3>1
    <3>6. \A k \in Keys : t[c][k] <= s[c][k]
      <4> HIDE DEF n, c, d
      <4> QED BY <1>1, <1>2, <1>3, <1>6
    <3>7. \A k \in Keys : s[c][k] \in Nat
      <4> HIDE DEF n, c, d
      <4> QED BY <1>1, <1>6
    <3>8. ASSUME NEW e \in Held(u[c]) PROVE s[u[c].pivots[q]][e.key] < e.ts
      <4>1. e \in d.elements \/ e \in b
        BY <1>14, <3>8 DEF Held
      <4>2. CASE e \in d.elements
        BY <1>14, <3>2, <3>3, <4>2
      <4>3. CASE e \in b
        <5>1. e.key \in Keys /\ t[c][e.key] < e.ts /\ e.ts \in Nat
          BY <1>1, <1>15, <4>3
        <5> HIDE DEF n, c, d
        <5> QED BY <1>2, <3>2, <3>3, <3>4, <5>1
      <4> QED BY <4>1, <4>2, <4>3
    <3>9. ASSUME NEW k \in Keys
          PROVE  /\ s[u[c].pivots[q]][k] <= s[c][k]
                 /\ s[u[c].pivots[q]][k] > 0 => InRange(u[c], q, k)
      <4> HIDE DEF n, c, d
      <4> QED BY <1>2, <3>2, <3>3, <3>4, <3>5, <3>6, <3>7
    <3> QED BY <3>8, <3>9
  <2> HIDE DEF c, d
  <2> QED BY <2>1, <2>2, <2>3 DEF TimesOK
<1>18. ValuesOK(s, x, u[c], c)
  <2> SUFFICES ASSUME NEW k \in Keys
               PROVE  /\ x[c][k] = Eval(u[c].given, k, Eval(u[c].elements, k, Below(x, u[c], k)))
                      /\ s[c][k] = 0 => x[c][k] = None
    BY DEF ValuesOK
  <2>1. v[c][k] = Eval(d.elements, k, Below(v, d, k)) /\ (t[c][k] = 0 => v[c][k] = None)
    <3>1. /\ v[c][k] = Eval({}, k, Eval(d.elements, k, Below(v, d, k)))
          /\ t[c][k] = 0 => v[c][k] = None
      BY <1>2 DEF ValuesOK
    <3>2. \A y : Eval({}, k, y) = y
      BY DEF Eval, For
    <3> QED BY <3>1, <3>2
  <2>2. Below(x, u[c], k) = Below(v, d, k)
    <3>1. \A q \in DOMAIN d.pivots : x[d.pivots[q]] = v[d.pivots[q]]
      BY <1>2, <1>6
    <3>2. ~IsLeaf(d) /\ FirstPivot(d) <= k => GetPivot(d, k) \in DOMAIN d.pivots
      <4> HIDE DEF d
      <4> QED BY <1>5, RangeIs
    <3>3. Below(x, d, k) = Below(v, d, k)
      <4> HIDE DEF d
      <4> QED BY <3>1, <3>2 DEF Below
    <3> QED BY <1>14, <3>3
  <2>3. x[c][k] = Eval(u[c].given, k, Eval(u[c].elements, k, Below(x, u[c], k)))
    <3>1. u[c].given = b /\ u[c].elements = d.elements
      BY <1>14
    <3>2. x[c][k] = Eval(b, k, v[c][k])
      BY <1>6
    <3> QED BY <2>1, <2>2, <3>1, <3>2
  <2>4. ASSUME s[c][k] = 0 PROVE x[c][k] = None
    <3>1. For(b, k) = {} /\ t[c][k] = 0
      <4>1. CASE InRange(n, p, k)
        <5>1. t[id][k] = 0
          BY <1>6, <2>4, <4>1
        <5>2. \A e \in b : e.key # k
          <6> SUFFICES ASSUME NEW e \in b, e.key = k PROVE FALSE
            OBVIOUS
          <6>1. e.ts <= 0 /\ 0 < e.ts /\ e.ts \in Nat
            BY <1>1, <1>15, <5>1
          <6> QED BY <6>1
        <5> HIDE DEF n, c, d
        <5> QED BY <1>2, <1>3, <5>1, <5>2 DEF For
      <4>2. CASE ~InRange(n, p, k)
        BY <1>3, <4>2 DEF For
      <4> QED BY <4>1, <4>2
    <3>2. Eval(b, k, v[c][k]) = v[c][k]
      BY <3>1 DEF Eval
    <3> QED BY <1>6, <2>1, <3>1, <3>2
  <2> QED BY <2>3, <2>4
\* The other nodes.
<1>19. ASSUME NEW i \in DOMAIN u PROVE TimesOK(s, u[i], i) /\ ValuesOK(s, x, u[i], i)
  <2>1. CASE i = id
    BY <1>12, <1>13, <2>1 DEF Sends
  <2>2. CASE i = c
    BY <1>17, <1>18, <2>2
  <2>3. CASE i # id /\ i # c
    <3>1. u[i] = w[i] /\ i \in DOMAIN w
      BY <2>3 DEF Sends
    <3>2. s[i] = t[i] /\ x[i] = v[i]
      BY <1>6, <2>3, <3>1
    <3>3. \A q \in DOMAIN w[i].pivots : w[i].pivots[q] \in DOMAIN w /\ w[i].pivots[q] # c
      BY <2>3, <3>1, ViewFacts DEF Sends
    <3>4. \A q \in DOMAIN w[i].pivots : /\ s[w[i].pivots[q]] = t[w[i].pivots[q]]
                                        /\ x[w[i].pivots[q]] = v[w[i].pivots[q]]
      BY <1>6, <3>3
    <3>5. /\ TimesOK(t, w[i], i) /\ ValuesOK(t, v, w[i], i) /\ DOMAIN w[i].pivots \subseteq Keys
      BY <3>1, ViewFacts DEF ViewNode
    <3> HIDE DEF n, c, d
    <3>6. TimesOK(s, w[i], i) /\ ValuesOK(s, x, w[i], i)
      BY <3>2, <3>4, <3>5, Elsewhere
    <3> QED BY <3>1, <3>6
  <2> QED BY <2>1, <2>2, <2>3
<1>20. ViewOK(s, x, u, now)
  BY <1>8, <1>19 DEF ViewOK
<1> QED BY <1>6, <1>20

\* The node id of w is split into the parts that `parts` leads to, each with the
\* messages and the pivots in its range.
Parted(u, w, id, parts) ==
    LET n == w[id]
    IN  /\ id \in DOMAIN w /\ n.given = {}
        /\ DOMAIN parts \subseteq Keys
        /\ parts \in [DOMAIN parts -> DOMAIN u]
        /\ \A a \in DOMAIN parts : parts[a] \in DOMAIN u /\ parts[a] \notin DOMAIN w
        /\ \A a, b \in DOMAIN parts : parts[a] = parts[b] => a = b
        /\ \A i \in DOMAIN u : i \in DOMAIN w \/ \E a \in DOMAIN parts : i = parts[a]
        /\ DOMAIN w \subseteq DOMAIN u
        /\ u[id].pivots = parts /\ u[id].elements = {} /\ u[id].given = {}
        /\ \A i \in DOMAIN w : i # id => u[i] = w[i]
        /\ \A a \in DOMAIN parts :
              LET part == u[parts[a]]
              IN  /\ part.given = {} /\ part.elements \subseteq n.elements
                  /\ \A p \in DOMAIN part.pivots : /\ p \in DOMAIN n.pivots
                                                   /\ part.pivots[p] = n.pivots[p]
                                                   /\ InRange(u[id], a, p)
                  /\ part.pivots \in [DOMAIN part.pivots -> DOMAIN u]
                  /\ \A m \in part.elements : InRange(u[id], a, m.key)
                  /\ ~IsLeaf(n) => a \in DOMAIN part.pivots
        /\ \A m \in n.elements : \E a \in DOMAIN parts : m \in u[parts[a]].elements
        /\ \A p \in DOMAIN n.pivots : \E a \in DOMAIN parts : p \in DOMAIN u[parts[a]].pivots

\* The parts come to what the node did, and so does the node that has them as children.
LEMMA ViewSplit ==
  ASSUME NEW t, NEW v, NEW w, NEW now \in Nat, ViewOK(t, v, w, now), 0 < now,
         NEW id, NEW parts, NEW u, Parted(u, w, id, parts)
  PROVE  \E s, x : ViewOK(s, x, u, now) /\ \A i \in DOMAIN w : x[i] = v[i]
<1> DEFINE n      == w[id]
           e      == u[id]
           key(i) == CHOOSE a \in DOMAIN parts : parts[a] = i
           s      == [i \in DOMAIN u |-> IF i \in DOMAIN w THEN t[i] ELSE
                        [k \in Keys |-> IF InRange(e, key(i), k) THEN t[id][k] ELSE 0]]
           x      == [i \in DOMAIN u |-> IF i \in DOMAIN w THEN v[i] ELSE
                        [k \in Keys |-> IF InRange(e, key(i), k) THEN v[id][k] ELSE None]]
<1>1. /\ ViewTypes(t, v, w, now) /\ ViewNode(n, DOMAIN w, now) /\ id \in DOMAIN w
      /\ TimesOK(t, n, id) /\ ValuesOK(t, v, n, id)
      /\ \A k \in Keys : t[id][k] \in 0 .. now - 1 /\ t[id][k] \in Nat /\ v[id][k] \in Answers
      /\ \A p \in DOMAIN n.pivots : n.pivots[p] \in DOMAIN w
      /\ \A m \in Held(n) : m.key \in Keys /\ m.ts \in Nat /\ 0 < m.ts
  BY ViewFacts DEF Parted
<1>2. /\ DOMAIN n.pivots \subseteq Keys /\ e.pivots = parts /\ DOMAIN e.pivots \subseteq Keys
      /\ n.given = {} /\ Held(n) = n.elements /\ Keys \subseteq Int
  BY <1>1, KeysAssumption DEF Parted, ViewNode, Held
<1>3. ASSUME NEW a \in DOMAIN parts
      PROVE  LET part == u[parts[a]]
             IN  /\ parts[a] \in DOMAIN u /\ parts[a] \notin DOMAIN w /\ key(parts[a]) = a
                 /\ part.given = {} /\ part.elements \subseteq n.elements
                 /\ \A p \in DOMAIN part.pivots : /\ p \in DOMAIN n.pivots
                                                  /\ part.pivots[p] = n.pivots[p]
                                                  /\ InRange(e, a, p)
                 /\ \A m \in part.elements : InRange(e, a, m.key)
                 /\ ~IsLeaf(n) => a \in DOMAIN part.pivots
                 /\ DOMAIN part.pivots \subseteq Keys
  <2>1. \A b \in DOMAIN parts : parts[b] = parts[a] => b = a
    BY DEF Parted
  <2>2. key(parts[a]) = a
    BY <2>1
  <2> HIDE DEF key
  <2> QED BY <1>2, <2>2 DEF Parted
<1>4. /\ \A i \in DOMAIN w : s[i] = t[i] /\ x[i] = v[i]
      /\ \A a \in DOMAIN parts : \A k \in Keys :
            /\ s[parts[a]][k] = IF InRange(e, a, k) THEN t[id][k] ELSE 0
            /\ x[parts[a]][k] = IF InRange(e, a, k) THEN v[id][k] ELSE None
      /\ \A a \in DOMAIN parts :
            /\ s[parts[a]] = [k \in Keys |-> IF InRange(e, a, k) THEN t[id][k] ELSE 0]
            /\ x[parts[a]] = [k \in Keys |-> IF InRange(e, a, k) THEN v[id][k] ELSE None]
  <2>1. DOMAIN w \subseteq DOMAIN u
    BY DEF Parted
  <2> HIDE DEF key, e, n
  <2> QED BY <1>3, <2>1
<1> HIDE DEF s, x, key
<1>5. \A k \in Keys : \A a, b \in DOMAIN parts : InRange(e, a, k) /\ InRange(e, b, k) => a = b
  <2> HIDE DEF e
  <2> QED BY <1>2, RangeIs
\* What the keys in the range of a part find in it.
<1>6. ASSUME NEW a \in DOMAIN parts, NEW p \in DOMAIN u[parts[a]].pivots, NEW k \in Keys,
             InRange(n, p, k)
      PROVE  InRange(e, a, k) /\ InRange(u[parts[a]], p, k)
  <2>1. /\ p \in DOMAIN n.pivots /\ InRange(e, a, p) /\ DOMAIN u[parts[a]].pivots \subseteq DOMAIN n.pivots
        /\ p \in Int /\ a \in Int /\ k \in Int
    BY <1>2, <1>3
  <2>2. \A b \in DOMAIN parts : b \in DOMAIN n.pivots /\ b \in Int
    <3>1. ~IsLeaf(n)
      BY <2>1 DEF IsLeaf
    <3> HIDE DEF n, e
    <3> QED BY <1>2, <1>3, <3>1
  <2>3. InRange(u[parts[a]], p, k)
    <3> HIDE DEF n, e
    <3> QED BY <1>6, <2>1 DEF InRange, NextPivots
  <2> HIDE DEF n, e
  <2> QED BY <1>2, <1>6, <2>1, <2>2, <2>3 DEF InRange, NextPivots
<1>7. ASSUME NEW a \in DOMAIN parts, NEW k \in Keys
      PROVE  LET part == u[parts[a]]
             IN  /\ InRange(e, a, k) => For(part.elements, k) = For(n.elements, k)
                 /\ ~InRange(e, a, k) => For(part.elements, k) = {}
                 /\ InRange(e, a, k) => Below(x, part, k) = Below(v, n, k)
                 /\ ~InRange(e, a, k) => Below(x, part, k) = None
  <2> DEFINE part == u[parts[a]]
  <2>1. ASSUME InRange(e, a, k) PROVE For(part.elements, k) = For(n.elements, k)
    <3>1. ASSUME NEW m \in n.elements, m.key = k PROVE m \in part.elements
      <4>1. PICK b \in DOMAIN parts : m \in u[parts[b]].elements
        BY DEF Parted
      <4>2. InRange(e, b, k)
        BY <1>3, <3>1, <4>1
      <4> QED BY <1>5, <2>1, <4>1, <4>2
    <3>2. part.elements \subseteq n.elements
      BY <1>3
    <3> HIDE DEF part, n
    <3> QED BY <3>1, <3>2 DEF For
  <2>2. ASSUME ~InRange(e, a, k) PROVE For(part.elements, k) = {}
    BY <1>3, <2>2 DEF For
  <2>3. /\ DOMAIN part.pivots \subseteq Keys
        /\ \A p \in DOMAIN part.pivots : x[part.pivots[p]] = v[n.pivots[p]] /\ p \in DOMAIN n.pivots
    BY <1>1, <1>3, <1>4
  <2>4. ASSUME NEW p \in DOMAIN part.pivots, InRange(n, p, k)
        PROVE  /\ InRange(e, a, k) /\ Below(x, part, k) = v[n.pivots[p]][k]
               /\ Below(v, n, k) = v[n.pivots[p]][k]
    <3>1. InRange(e, a, k) /\ InRange(part, p, k)
      BY <1>6, <2>4
    <3>2. Below(x, part, k) = x[part.pivots[p]][k]
      <4> HIDE DEF part
      <4> QED BY <2>3, <3>1, BelowIs
    <3>3. Below(v, n, k) = v[n.pivots[p]][k]
      <4>1. p \in DOMAIN n.pivots
        BY <2>3
      <4> HIDE DEF n
      <4> QED BY <1>2, <2>4, <4>1, BelowIs
    <3> QED BY <2>3, <3>1, <3>2, <3>3
  <2>5. ASSUME \A p \in DOMAIN part.pivots : ~InRange(n, p, k)
        PROVE  Below(x, part, k) = None
    <3>1. ASSUME NEW p \in DOMAIN part.pivots, InRange(part, p, k)
          PROVE  Below(x, part, k) = None
      <4>1. Below(x, part, k) = v[n.pivots[p]][k]
        <5>1. Below(x, part, k) = x[part.pivots[p]][k]
          <6> HIDE DEF part
          <6> QED BY <2>3, <3>1, BelowIs
        <5> QED BY <2>3, <5>1
      <4>2. p \in DOMAIN n.pivots /\ ~InRange(n, p, k)
        BY <2>3, <2>5
      <4>3. n.pivots[p] \in DOMAIN w /\ ~(t[n.pivots[p]][k] > 0)
        BY <1>1, <4>2 DEF TimesOK
      <4>4. t[n.pivots[p]][k] \in Nat /\ (t[n.pivots[p]][k] = 0 => v[n.pivots[p]][k] = None)
        <5> HIDE DEF n
        <5> QED BY <4>3, ViewFacts DEF ValuesOK
      <4> QED BY <4>1, <4>3, <4>4
    <3>2. (\A p \in DOMAIN part.pivots : ~InRange(part, p, k)) => Below(x, part, k) = None
      <4> HIDE DEF part
      <4> QED BY <2>3, BelowIs
    <3> QED BY <3>1, <3>2
  <2>6. ASSUME InRange(e, a, k), \A p \in DOMAIN part.pivots : ~InRange(n, p, k)
        PROVE  Below(v, n, k) = None
    <3> SUFFICES ASSUME NEW q \in DOMAIN n.pivots, InRange(n, q, k) PROVE FALSE
      <4> HIDE DEF n
      <4> QED BY <1>2, BelowIs
    <3>1. PICK b \in DOMAIN parts : q \in DOMAIN u[parts[b]].pivots
      BY DEF Parted
    <3>2. InRange(e, b, k)
      BY <1>6, <3>1
    <3>3. a = b
      BY <1>5, <2>6, <3>2
    <3> QED BY <2>6, <3>1, <3>3
  <2>7. InRange(e, a, k) => Below(x, part, k) = Below(v, n, k)
    BY <2>4, <2>5, <2>6
  <2>8. ~InRange(e, a, k) => Below(x, part, k) = None
    BY <2>4, <2>5
  <2> QED BY <2>1, <2>2, <2>7, <2>8
\* The parts.
<1>8. ASSUME NEW a \in DOMAIN parts
      PROVE  TimesOK(s, u[parts[a]], parts[a]) /\ ValuesOK(s, x, u[parts[a]], parts[a])
  <2> DEFINE part == u[parts[a]]
  <2>1. /\ part.given = {} /\ Held(part) = part.elements /\ part.elements \subseteq n.elements
        /\ \A m \in part.elements : InRange(e, a, m.key)
    BY <1>3 DEF Held
  <2>2. \A m \in Held(part) : m.ts <= s[parts[a]][m.key]
    <3>1. \A m \in part.elements : m.ts <= t[id][m.key] /\ m.key \in Keys
      BY <1>1, <1>2, <2>1 DEF TimesOK
    <3> HIDE DEF part, n, e
    <3> QED BY <1>4, <2>1, <3>1
  <2>3. ASSUME NEW p \in DOMAIN part.pivots
        PROVE  /\ \A k \in Keys : /\ s[part.pivots[p]][k] <= s[parts[a]][k]
                                  /\ s[part.pivots[p]][k] > 0 => InRange(part, p, k)
               /\ \A m \in Held(part) : s[part.pivots[p]][m.key] < m.ts
    <3>1. /\ p \in DOMAIN n.pivots /\ part.pivots[p] = n.pivots[p]
          /\ n.pivots[p] \in DOMAIN w /\ s[part.pivots[p]] = t[n.pivots[p]]
      BY <1>1, <1>3, <1>4
    <3>2. /\ \A k \in Keys : /\ t[n.pivots[p]][k] <= t[id][k]
                             /\ t[n.pivots[p]][k] > 0 => InRange(n, p, k)
          /\ \A m \in Held(n) : t[n.pivots[p]][m.key] < m.ts
      BY <1>1, <3>1 DEF TimesOK
    <3>3. \A k \in Keys : t[n.pivots[p]][k] \in Nat
      <4> HIDE DEF n
      <4> QED BY <3>1, ViewFacts
    <3>4. \A m \in Held(part) : s[part.pivots[p]][m.key] < m.ts
      BY <1>2, <2>1, <3>1, <3>2
    <3>5. ASSUME NEW k \in Keys
          PROVE  /\ s[part.pivots[p]][k] <= s[parts[a]][k]
                 /\ s[part.pivots[p]][k] > 0 => InRange(part, p, k)
      <4>1. InRange(n, p, k) => InRange(e, a, k) /\ InRange(part, p, k)
        BY <1>6
      <4>2. s[parts[a]][k] = IF InRange(e, a, k) THEN t[id][k] ELSE 0
        BY <1>4
      <4> HIDE DEF part, n, e
      <4> QED BY <3>1, <3>2, <3>3, <4>1, <4>2
    <3> QED BY <3>4, <3>5
  <2>4. TimesOK(s, part, parts[a])
    <3> HIDE DEF part
    <3> QED BY <2>1, <2>2, <2>3 DEF TimesOK
  <2>5. ASSUME NEW k \in Keys
        PROVE  /\ x[parts[a]][k] = Eval(part.given, k, Eval(part.elements, k, Below(x, part, k)))
               /\ s[parts[a]][k] = 0 => x[parts[a]][k] = None
    <3>1. \A y : Eval({}, k, y) = y
      BY DEF Eval, For
    <3>2. /\ v[id][k] = Eval(n.elements, k, Below(v, n, k))
          /\ t[id][k] = 0 => v[id][k] = None
      BY <1>1, <1>2, <3>1 DEF ValuesOK
    <3>3. /\ InRange(e, a, k) => For(part.elements, k) = For(n.elements, k)
          /\ ~InRange(e, a, k) => For(part.elements, k) = {}
          /\ InRange(e, a, k) => Below(x, part, k) = Below(v, n, k)
          /\ ~InRange(e, a, k) => Below(x, part, k) = None
      BY <1>7
    <3>4. /\ s[parts[a]][k] = IF InRange(e, a, k) THEN t[id][k] ELSE 0
          /\ x[parts[a]][k] = IF InRange(e, a, k) THEN v[id][k] ELSE None
      BY <1>4
    <3> HIDE DEF part, n, e
    <3>5. CASE InRange(e, a, k)
      <4>1. \A y : Eval(part.elements, k, y) = Eval(n.elements, k, y)
        BY <3>3, <3>5, EvalSame
      <4> QED BY <2>1, <3>1, <3>2, <3>3, <3>4, <3>5, <4>1
    <3>6. CASE ~InRange(e, a, k)
      <4>1. \A y : Eval(part.elements, k, y) = y
        BY <3>3, <3>6 DEF Eval
      <4> QED BY <2>1, <3>1, <3>3, <3>4, <3>6, <4>1
    <3> QED BY <3>5, <3>6
  <2>6. ValuesOK(s, x, part, parts[a])
    <3> HIDE DEF part
    <3> QED BY <2>5 DEF ValuesOK
  <2> QED BY <2>4, <2>6
\* The node that was split.
<1>9. TimesOK(s, e, id) /\ ValuesOK(s, x, e, id)
  <2>1. Held(e) = {} /\ e.elements = {} /\ e.given = {} /\ s[id] = t[id] /\ x[id] = v[id]
    BY <1>1, <1>4 DEF Held, Parted
  <2>2. \A a \in DOMAIN parts : \A k \in Keys : /\ s[parts[a]][k] <= s[id][k]
                                                /\ s[parts[a]][k] > 0 => InRange(e, a, k)
    <3> HIDE DEF e, n
    <3> QED BY <1>1, <1>4, <2>1
  <2>3. TimesOK(s, e, id)
    <3> HIDE DEF e
    <3> QED BY <1>2, <2>1, <2>2 DEF TimesOK
  <2>4. ASSUME NEW k \in Keys
        PROVE  /\ x[id][k] = Eval(e.given, k, Eval(e.elements, k, Below(x, e, k)))
               /\ s[id][k] = 0 => x[id][k] = None
    <3>1. \A y : Eval({}, k, y) = y
      BY DEF Eval, For
    <3>2. /\ v[id][k] = Eval(n.elements, k, Below(v, n, k))
          /\ t[id][k] = 0 => v[id][k] = None
      BY <1>1, <1>2, <3>1 DEF ValuesOK
    <3>3. Below(x, e, k) = v[id][k]
      <4>1. CASE \E a \in DOMAIN parts : InRange(e, a, k)
        <5>1. PICK a \in DOMAIN parts : InRange(e, a, k)
          BY <4>1
        <5>2. Below(x, e, k) = x[parts[a]][k]
          <6> HIDE DEF e
          <6> QED BY <1>2, <5>1, BelowIs
        <5> QED BY <1>4, <5>1, <5>2
      <4>2. CASE \A a \in DOMAIN parts : ~InRange(e, a, k)
        <5>1. Below(x, e, k) = None
          <6> HIDE DEF e
          <6> QED BY <1>2, <4>2, BelowIs
        <5>2. For(n.elements, k) = {}
          <6> SUFFICES ASSUME NEW m \in n.elements, m.key = k PROVE FALSE
            BY DEF For
          <6>1. PICK b \in DOMAIN parts : m \in u[parts[b]].elements
            BY DEF Parted
          <6> QED BY <1>3, <4>2, <6>1
        <5>3. \A q \in DOMAIN n.pivots : ~InRange(n, q, k)
          <6> SUFFICES ASSUME NEW q \in DOMAIN n.pivots, InRange(n, q, k) PROVE FALSE
            OBVIOUS
          <6>1. PICK b \in DOMAIN parts : q \in DOMAIN u[parts[b]].pivots
            BY DEF Parted
          <6> QED BY <1>6, <4>2, <6>1
        <5>4. Below(v, n, k) = None
          <6> HIDE DEF n
          <6> QED BY <1>2, <5>3, BelowIs
        <5> QED BY <3>2, <5>1, <5>2, <5>4 DEF Eval
      <4> QED BY <4>1, <4>2
    <3> QED BY <2>1, <3>1, <3>2, <3>3
  <2>5. ValuesOK(s, x, e, id)
    <3> HIDE DEF e
    <3> QED BY <2>4 DEF ValuesOK
  <2> QED BY <2>3, <2>5
\* All others are as they were.
<1>10. ASSUME NEW i \in DOMAIN u PROVE TimesOK(s, u[i], i) /\ ValuesOK(s, x, u[i], i)
  <2>1. CASE i = id
    BY <1>9, <2>1
  <2>2. CASE \E a \in DOMAIN parts : i = parts[a]
    BY <1>8, <2>2
  <2>3. CASE i \in DOMAIN w /\ i # id
    <3>1. u[i] = w[i]
      BY <2>3 DEF Parted
    <3>2. s[i] = t[i] /\ x[i] = v[i]
      BY <1>4, <2>3
    <3>3. \A q \in DOMAIN w[i].pivots : w[i].pivots[q] \in DOMAIN w
      BY <2>3, ViewFacts
    <3>4. \A q \in DOMAIN w[i].pivots : /\ s[w[i].pivots[q]] = t[w[i].pivots[q]]
                                        /\ x[w[i].pivots[q]] = v[w[i].pivots[q]]
      BY <1>4, <3>3
    <3>5. /\ TimesOK(t, w[i], i) /\ ValuesOK(t, v, w[i], i) /\ DOMAIN w[i].pivots \subseteq Keys
      BY <2>3, ViewFacts DEF ViewNode
    <3> HIDE DEF n, e
    <3>6. TimesOK(s, w[i], i) /\ ValuesOK(s, x, w[i], i)
      BY <3>2, <3>4, <3>5, Elsewhere
    <3> QED BY <3>1, <3>6
  <2>4. i \in DOMAIN w \/ \E a \in DOMAIN parts : i = parts[a]
    BY DEF Parted
  <2> QED BY <2>1, <2>2, <2>3, <2>4
<1>11. ViewTypes(s, x, u, now)
  <2>1. /\ t \in [DOMAIN w -> [Keys -> 0 .. now - 1]]
        /\ v \in [DOMAIN w -> [Keys -> Answers]]
    BY <1>1 DEF ViewTypes
  <2>2. ASSUME NEW i \in DOMAIN u
        PROVE  s[i] \in [Keys -> 0 .. now - 1] /\ x[i] \in [Keys -> Answers]
    <3>1. CASE i \in DOMAIN w
      BY <1>4, <2>1, <3>1
    <3>2. CASE \E a \in DOMAIN parts : i = parts[a]
      <4>1. PICK a \in DOMAIN parts : i = parts[a]
        BY <3>2
      <4>2. /\ s[i] = [k \in Keys |-> IF InRange(e, a, k) THEN t[id][k] ELSE 0]
            /\ x[i] = [k \in Keys |-> IF InRange(e, a, k) THEN v[id][k] ELSE None]
        BY <1>4, <4>1
      <4>3. 0 \in 0 .. now - 1 /\ None \in Answers
        BY DEF Answers
      <4> HIDE DEF e, n
      <4> QED BY <1>1, <4>2, <4>3
    <3>3. i \in DOMAIN w \/ \E a \in DOMAIN parts : i = parts[a]
      BY DEF Parted
    <3> QED BY <3>1, <3>2, <3>3
  <2>3. DOMAIN s = DOMAIN u /\ DOMAIN x = DOMAIN u /\ s = [i \in DOMAIN u |-> s[i]]
        /\ x = [i \in DOMAIN u |-> x[i]]
    BY DEF s, x
  <2>4. s \in [DOMAIN u -> [Keys -> 0 .. now - 1]] /\ x \in [DOMAIN u -> [Keys -> Answers]]
    <3> HIDE DEF e, n
    <3> QED BY <2>2, <2>3
  <2>5. ASSUME NEW i \in DOMAIN u PROVE ViewNode(u[i], DOMAIN u, now)
    <3>1. {} \in Buffer(now) /\ Orderly({})
      BY FS_EmptySet DEF Buffer, Orderly
    <3>2. CASE i = id
      <4>1. /\ u[i].elements = {} /\ u[i].given = {} /\ u[i].pivots = parts
            /\ \A a \in DOMAIN parts : parts[a] \in DOMAIN u
        BY <3>2 DEF Parted
      <4>2. parts \in [DOMAIN parts -> DOMAIN u]
        BY DEF Parted
      <4> HIDE DEF e, n
      <4> QED BY <1>2, <3>1, <4>1, <4>2 DEF ViewNode
    <3>3. CASE \E a \in DOMAIN parts : i = parts[a]
      <4>1. PICK a \in DOMAIN parts : i = parts[a]
        BY <3>3
      <4>2. /\ u[i].given = {} /\ u[i].elements \subseteq n.elements
            /\ DOMAIN u[i].pivots \subseteq Keys
            /\ u[i].pivots \in [DOMAIN u[i].pivots -> DOMAIN u]
        BY <1>3, <4>1 DEF Parted
      <4>3. n.elements \in Buffer(now) /\ Orderly(n.elements)
        BY <1>1 DEF ViewNode
      <4> HIDE DEF e, n
      <4>4. u[i].elements \in Buffer(now)
        BY <4>2, <4>3, MessageFields
      <4>5. Orderly(u[i].elements)
        BY <4>2, <4>3 DEF Orderly
      <4> QED BY <3>1, <4>2, <4>4, <4>5 DEF ViewNode
    <3>4. CASE i \in DOMAIN w /\ i # id
      <4>1. u[i] = w[i] /\ DOMAIN w \subseteq DOMAIN u /\ ViewNode(w[i], DOMAIN w, now)
        BY <1>1, <3>4 DEF Parted, ViewTypes
      <4> HIDE DEF e, n
      <4> QED BY <4>1 DEF ViewNode
    <3>5. i \in DOMAIN w \/ \E a \in DOMAIN parts : i = parts[a]
      BY DEF Parted
    <3> QED BY <3>2, <3>3, <3>4, <3>5
  <2> QED BY <2>4, <2>5 DEF ViewTypes
<1>12. ViewOK(s, x, u, now)
  BY <1>10, <1>11 DEF ViewOK
<1> QED BY <1>4, <1>12

\* The parts of the child on pivot p of the node id take its place.
Joined(u, w, id, p) ==
    LET n == w[id]
        e == n.pivots[p]
        parts == w[e].pivots
    IN  /\ id \in DOMAIN w /\ p \in DOMAIN n.pivots /\ e # id
        /\ w[e].elements = {} /\ w[e].given = {}
        /\ DOMAIN parts # {} /\ \A a \in DOMAIN parts : parts[a] # e
        /\ \A a \in DOMAIN parts : p <= a /\ \A q \in NextPivots(n, p) : a < q
        /\ \A a \in DOMAIN w : \A q \in DOMAIN w[a].pivots : w[a].pivots[q] = e => a = id /\ q = p
        /\ DOMAIN u = DOMAIN w \ {e}
        /\ u[id].pivots = Replace(n.pivots, p, parts)
        /\ u[id].elements = n.elements /\ u[id].given = n.given
        /\ \A i \in DOMAIN u : i # id => u[i] = w[i]

\* The keys that the pivots lead to when a child has been replaced by its parts.
LEMMA JoinedRanges ==
  ASSUME NEW w, NEW u, NEW id, NEW p, Joined(u, w, id, p), DOMAIN w[id].pivots \subseteq Keys,
         DOMAIN w[w[id].pivots[p]].pivots \subseteq Keys
  PROVE  LET n == w[id]
             d == w[n.pivots[p]]
             m == u[id]
         IN  /\ DOMAIN m.pivots \subseteq Keys /\ DOMAIN m.pivots # {}
             /\ DOMAIN m.pivots = (DOMAIN n.pivots \ {p}) \union DOMAIN d.pivots
             /\ \A q \in DOMAIN n.pivots \ {p} : q \notin DOMAIN d.pivots
                                                 /\ m.pivots[q] = n.pivots[q]
             /\ \A q \in DOMAIN d.pivots : m.pivots[q] = d.pivots[q]
             /\ \A k \in Keys : /\ \A q \in DOMAIN n.pivots \ {p} :
                                      InRange(n, q, k) => InRange(m, q, k)
                                /\ \A q \in DOMAIN d.pivots :
                                      /\ InRange(n, p, k) /\ InRange(d, q, k) => InRange(m, q, k)
                                      /\ InRange(m, q, k) => InRange(d, q, k)
<1> DEFINE n == w[id]
           d == w[n.pivots[p]]
           m == u[id]
<1>1. /\ p \in DOMAIN n.pivots /\ m.pivots = Replace(n.pivots, p, d.pivots)
      /\ \A a \in DOMAIN d.pivots : p <= a /\ \A q \in NextPivots(n, p) : a < q
      /\ DOMAIN d.pivots # {}
  BY DEF Joined
<1>2. /\ DOMAIN n.pivots \subseteq Keys /\ DOMAIN d.pivots \subseteq Keys /\ Keys \subseteq Int
  BY KeysAssumption
<1> HIDE DEF n, d, m
<1>3. \A q \in DOMAIN n.pivots \ {p} : q \notin DOMAIN d.pivots
  <2> SUFFICES ASSUME NEW q \in DOMAIN n.pivots \ {p}, q \in DOMAIN d.pivots PROVE FALSE
    OBVIOUS
  <2>1. q \in Int /\ p \in Int /\ p <= q /\ q # p
    BY <1>1, <1>2
  <2>2. q \in NextPivots(n, p)
    BY <2>1 DEF NextPivots
  <2> QED BY <1>1, <2>1, <2>2
<1>4. /\ DOMAIN m.pivots = (DOMAIN n.pivots \ {p}) \union DOMAIN d.pivots
      /\ \A q \in DOMAIN d.pivots : m.pivots[q] = d.pivots[q]
      /\ \A q \in DOMAIN n.pivots \ {p} : m.pivots[q] = n.pivots[q]
  BY <1>1, <1>3 DEF Replace
<1>5. ASSUME NEW k \in Keys, NEW q \in DOMAIN n.pivots \ {p}, InRange(n, q, k)
      PROVE  InRange(m, q, k)
  <2> SUFFICES ASSUME NEW x \in DOMAIN m.pivots, q < x PROVE k < x
    BY <1>5 DEF InRange, NextPivots
  <2>1. CASE x \in DOMAIN n.pivots
    BY <1>5, <2>1 DEF InRange, NextPivots
  <2>2. CASE x \in DOMAIN d.pivots
    <3>1. x \in Int /\ q \in Int /\ p \in Int /\ k \in Int /\ p <= x /\ q # p
      BY <1>1, <1>2, <2>2
    <3>2. CASE q < p
      <4>1. k < p
        BY <1>1, <1>5, <3>2 DEF InRange, NextPivots
      <4> QED BY <3>1, <4>1
    <3>3. CASE p < q
      <4>1. x < q
        BY <1>1, <2>2, <3>3 DEF NextPivots
      <4> QED BY <3>1, <4>1
    <3> QED BY <3>1, <3>2, <3>3
  <2> QED BY <1>4, <2>1, <2>2
<1>6. ASSUME NEW k \in Keys, NEW q \in DOMAIN d.pivots
      PROVE  /\ InRange(n, p, k) /\ InRange(d, q, k) => InRange(m, q, k)
             /\ InRange(m, q, k) => InRange(d, q, k)
  <2>1. InRange(m, q, k) => InRange(d, q, k)
    BY <1>4 DEF InRange, NextPivots
  <2>2. ASSUME InRange(n, p, k), InRange(d, q, k) PROVE InRange(m, q, k)
    <3> SUFFICES ASSUME NEW x \in DOMAIN m.pivots, q < x PROVE k < x
      BY <2>2 DEF InRange, NextPivots
    <3>1. CASE x \in DOMAIN d.pivots
      BY <2>2, <3>1 DEF InRange, NextPivots
    <3>2. CASE x \in DOMAIN n.pivots \ {p}
      <4>1. x \in Int /\ q \in Int /\ p \in Int /\ p <= q
        BY <1>1, <1>2, <3>2
      <4>2. p < x
        BY <4>1
      <4> QED BY <2>2, <3>2, <4>2 DEF InRange, NextPivots
    <3> QED BY <1>4, <3>1, <3>2
  <2> QED BY <2>1, <2>2
<1>7. DOMAIN m.pivots \subseteq Keys /\ DOMAIN m.pivots # {}
  BY <1>1, <1>2, <1>4
<1> QED BY <1>3, <1>4, <1>5, <1>6, <1>7 DEF n, d, m

\* Nothing changes for the node when its child is replaced by the parts it was split
\* into, or for any other node.
LEMMA ViewMerge ==
  ASSUME NEW t, NEW v, NEW w, NEW now, ViewOK(t, v, w, now),
         NEW id, NEW p, NEW u, Joined(u, w, id, p)
  PROVE  \E s, x : ViewOK(s, x, u, now) /\ \A i \in DOMAIN u : x[i] = v[i]
<1> DEFINE n == w[id]
           c == n.pivots[p]
           d == w[c]
           m == u[id]
           s == [i \in DOMAIN u |-> t[i]]
           x == [i \in DOMAIN u |-> v[i]]
<1>1. /\ id \in DOMAIN w /\ p \in DOMAIN n.pivots /\ c # id /\ DOMAIN u = DOMAIN w \ {c}
      /\ d.elements = {} /\ d.given = {} /\ m.elements = n.elements /\ m.given = n.given
      /\ \A a \in DOMAIN d.pivots : d.pivots[a] # c
      /\ \A a \in DOMAIN w : \A q \in DOMAIN w[a].pivots : w[a].pivots[q] = c => a = id /\ q = p
      /\ \A i \in DOMAIN u : i # id => u[i] = w[i]
  BY DEF Joined
<1>2. /\ \A i \in DOMAIN w : /\ ViewNode(w[i], DOMAIN w, now)
                             /\ TimesOK(t, w[i], i) /\ ValuesOK(t, v, w[i], i)
                             /\ DOMAIN w[i].pivots \subseteq Keys
                             /\ \A q \in DOMAIN w[i].pivots : w[i].pivots[q] \in DOMAIN w
                             /\ \A k \in Keys : t[i][k] \in Nat
      /\ t \in [DOMAIN w -> [Keys -> 0 .. now - 1]]
      /\ v \in [DOMAIN w -> [Keys -> Answers]]
  BY ViewFacts DEF ViewNode, ViewOK, ViewTypes
<1>3. c \in DOMAIN w /\ id \in DOMAIN u
  BY <1>1, <1>2
<1>4. \A i \in DOMAIN u : s[i] = t[i] /\ x[i] = v[i] /\ i \in DOMAIN w
  BY <1>1
<1>5. /\ DOMAIN m.pivots \subseteq Keys /\ DOMAIN m.pivots # {}
      /\ DOMAIN m.pivots = (DOMAIN n.pivots \ {p}) \union DOMAIN d.pivots
      /\ \A q \in DOMAIN n.pivots \ {p} : q \notin DOMAIN d.pivots /\ m.pivots[q] = n.pivots[q]
      /\ \A q \in DOMAIN d.pivots : m.pivots[q] = d.pivots[q]
      /\ \A k \in Keys : /\ \A q \in DOMAIN n.pivots \ {p} : InRange(n, q, k) => InRange(m, q, k)
                         /\ \A q \in DOMAIN d.pivots :
                               /\ InRange(n, p, k) /\ InRange(d, q, k) => InRange(m, q, k)
                               /\ InRange(m, q, k) => InRange(d, q, k)
  BY <1>1, <1>2, <1>3, JoinedRanges
<1> HIDE DEF s, x, m
<1>6. ASSUME NEW i \in DOMAIN u, i # id
      PROVE  TimesOK(s, u[i], i) /\ ValuesOK(s, x, u[i], i) /\ ViewNode(u[i], DOMAIN u, now)
  <2>1. u[i] = w[i] /\ i \in DOMAIN w
    BY <1>1, <1>4, <1>6
  <2>2. \A q \in DOMAIN w[i].pivots : w[i].pivots[q] \in DOMAIN u
    BY <1>1, <1>2, <1>6, <2>1
  <2>3. /\ s[i] = t[i] /\ x[i] = v[i] /\ DOMAIN w[i].pivots \subseteq Keys
        /\ \A q \in DOMAIN w[i].pivots : /\ s[w[i].pivots[q]] = t[w[i].pivots[q]]
                                         /\ x[w[i].pivots[q]] = v[w[i].pivots[q]]
    BY <1>2, <1>4, <2>1, <2>2
  <2>4. TimesOK(s, w[i], i) /\ ValuesOK(s, x, w[i], i)
    <3> HIDE DEF n, c, d
    <3> QED BY <1>2, <2>1, <2>3, Elsewhere
  <2>5. ViewNode(w[i], DOMAIN u, now)
    <3> HIDE DEF n, c, d
    <3> QED BY <1>2, <2>1, <2>2 DEF ViewNode
  <2> QED BY <2>1, <2>4, <2>5
<1>7. \A q \in DOMAIN m.pivots : m.pivots[q] \in DOMAIN u
  <2> HIDE DEF c, d, n
  <2>1. \A q \in DOMAIN n.pivots \ {p} : n.pivots[q] \in DOMAIN w /\ n.pivots[q] # c
    BY <1>1, <1>2 DEF n
  <2>2. \A q \in DOMAIN d.pivots : d.pivots[q] \in DOMAIN w /\ d.pivots[q] # c
    BY <1>1, <1>2, <1>3 DEF d
  <2> QED BY <1>1, <1>5, <2>1, <2>2
<1>8. /\ TimesOK(t, n, id) /\ ValuesOK(t, v, n, id) /\ TimesOK(t, d, c) /\ ValuesOK(t, v, d, c)
      /\ ViewNode(n, DOMAIN w, now)
  BY <1>1, <1>2, <1>3
<1>9. Held(m) = Held(n)
  BY <1>1 DEF Held
\* The parts are no later than their node was.
<1>10. \A k \in Keys : /\ t[c][k] <= t[id][k] /\ (t[c][k] > 0 => InRange(n, p, k))
                       /\ t[c][k] \in Nat /\ t[id][k] \in Nat
  BY <1>1, <1>2, <1>3, <1>8 DEF TimesOK
<1>11. \A e \in Held(n) : t[c][e.key] < e.ts /\ e.key \in Keys /\ e.ts \in Nat
  <2>1. \A e \in Held(n) : e.key \in Keys /\ e.ts \in Nat
    BY <1>1, ViewFacts
  <2> QED BY <1>1, <1>8, <2>1 DEF TimesOK
<1>12. ASSUME NEW q \in DOMAIN d.pivots, NEW k \in Keys
       PROVE  /\ t[d.pivots[q]][k] <= t[c][k] /\ (t[d.pivots[q]][k] > 0 => InRange(d, q, k))
              /\ t[d.pivots[q]][k] \in Nat
  BY <1>2, <1>3, <1>8 DEF TimesOK
<1>13. ASSUME NEW q \in DOMAIN n.pivots \ {p}, NEW k \in Keys
       PROVE  /\ t[n.pivots[q]][k] <= t[id][k] /\ (t[n.pivots[q]][k] > 0 => InRange(n, q, k))
              /\ t[n.pivots[q]][k] \in Nat
  BY <1>1, <1>2, <1>8 DEF TimesOK
<1>14. TimesOK(s, m, id)
  <2>1. s[id] = t[id]
    BY <1>3, <1>4
  <2>2. \A e \in Held(m) : e.ts <= s[id][e.key]
    BY <1>8, <1>9, <2>1 DEF TimesOK
  <2>3. \A a \in m.elements : \A b \in m.given : a.key = b.key => a.ts < b.ts
    BY <1>1, <1>8 DEF TimesOK
  <2>4. ASSUME NEW q \in DOMAIN m.pivots
        PROVE  /\ \A k \in Keys : /\ s[m.pivots[q]][k] <= s[id][k]
                                  /\ s[m.pivots[q]][k] > 0 => InRange(m, q, k)
               /\ \A e \in Held(m) : s[m.pivots[q]][e.key] < e.ts
    <3>1. CASE q \in DOMAIN d.pivots
      <4>1. m.pivots[q] = d.pivots[q] /\ s[m.pivots[q]] = t[d.pivots[q]]
        BY <1>4, <1>5, <1>7, <3>1
      <4>2. ASSUME NEW k \in Keys
            PROVE  t[d.pivots[q]][k] <= t[id][k] /\ (t[d.pivots[q]][k] > 0 => InRange(m, q, k))
        <5> HIDE DEF n, c, d
        <5> QED BY <1>5, <1>10, <1>12, <3>1
      <4>3. \A e \in Held(n) : t[d.pivots[q]][e.key] < e.ts
        <5> HIDE DEF n, c, d
        <5> QED BY <1>10, <1>11, <1>12, <3>1
      <4> QED BY <1>9, <2>1, <4>1, <4>2, <4>3
    <3>2. CASE q \in DOMAIN n.pivots \ {p}
      <4>1. m.pivots[q] = n.pivots[q] /\ s[m.pivots[q]] = t[n.pivots[q]]
        BY <1>4, <1>5, <1>7, <3>2
      <4>2. ASSUME NEW k \in Keys
            PROVE  t[n.pivots[q]][k] <= t[id][k] /\ (t[n.pivots[q]][k] > 0 => InRange(m, q, k))
        <5> HIDE DEF n, c, d
        <5> QED BY <1>5, <1>13, <3>2
      <4>3. \A e \in Held(n) : t[n.pivots[q]][e.key] < e.ts
        BY <1>8, <3>2 DEF TimesOK
      <4> QED BY <1>9, <2>1, <4>1, <4>2, <4>3
    <3> QED BY <1>5, <3>1, <3>2
  <2> QED BY <2>2, <2>3, <2>4 DEF TimesOK
<1>15. ASSUME NEW k \in Keys PROVE Below(x, m, k) = Below(v, n, k)
  <2>1. \A q \in DOMAIN m.pivots : InRange(m, q, k) => Below(x, m, k) = v[m.pivots[q]][k]
    <3>1. \A q \in DOMAIN m.pivots : InRange(m, q, k) => Below(x, m, k) = x[m.pivots[q]][k]
      BY <1>5, BelowIs
    <3> QED BY <1>4, <1>7, <3>1
  <2>2. (\A q \in DOMAIN m.pivots : ~InRange(m, q, k)) => Below(x, m, k) = None
    BY <1>5, BelowIs
  <2>3. /\ \A q \in DOMAIN n.pivots : InRange(n, q, k) => Below(v, n, k) = v[n.pivots[q]][k]
        /\ (\A q \in DOMAIN n.pivots : ~InRange(n, q, k)) => Below(v, n, k) = None
        /\ \A q, y \in DOMAIN n.pivots : InRange(n, q, k) /\ InRange(n, y, k) => q = y
    <3>1. DOMAIN n.pivots \subseteq Keys
      BY <1>1, <1>2
    <3> HIDE DEF n
    <3> QED BY <3>1, BelowIs, RangeIs
  <2>4. /\ \A q \in DOMAIN d.pivots : InRange(d, q, k) => Below(v, d, k) = v[d.pivots[q]][k]
        /\ (\A q \in DOMAIN d.pivots : ~InRange(d, q, k)) => Below(v, d, k) = None
    <3>1. DOMAIN d.pivots \subseteq Keys
      BY <1>2, <1>3
    <3> HIDE DEF d
    <3> QED BY <3>1, BelowIs
  <2>5. v[c][k] = Below(v, d, k)
    <3>1. \A y : Eval({}, k, y) = y
      BY DEF Eval, For
    <3> QED BY <1>1, <1>8, <3>1 DEF ValuesOK
  <2>6. \A i \in DOMAIN w : t[i][k] = 0 => v[i][k] = None
    BY <1>2 DEF ValuesOK
  <2>7. /\ \A q \in DOMAIN n.pivots \ {p} : ~InRange(n, q, k) => v[n.pivots[q]][k] = None
        /\ \A q \in DOMAIN d.pivots : ~InRange(n, p, k) => v[d.pivots[q]][k] = None
    <3>1. \A q \in DOMAIN n.pivots \ {p} : n.pivots[q] \in DOMAIN w
      BY <1>1, <1>2
    <3>2. \A q \in DOMAIN d.pivots : d.pivots[q] \in DOMAIN w
      BY <1>2, <1>3
    <3> HIDE DEF n, c, d
    <3>3. \A q \in DOMAIN n.pivots \ {p} : ~InRange(n, q, k) => t[n.pivots[q]][k] = 0
      BY <1>13
    <3>4. \A q \in DOMAIN d.pivots : ~InRange(n, p, k) => t[d.pivots[q]][k] = 0
      BY <1>10, <1>12
    <3> QED BY <2>6, <3>1, <3>2, <3>3, <3>4
  <2>8. CASE InRange(n, p, k)
    <3>1. Below(v, n, k) = Below(v, d, k)
      BY <1>1, <2>3, <2>5, <2>8
    <3>2. CASE \E q \in DOMAIN d.pivots : InRange(d, q, k)
      <4>1. PICK q \in DOMAIN d.pivots : InRange(d, q, k)
        BY <3>2
      <4>2. Below(v, d, k) = v[d.pivots[q]][k]
        BY <2>4, <4>1
      <4>3. q \in DOMAIN m.pivots /\ m.pivots[q] = d.pivots[q] /\ InRange(m, q, k)
        BY <1>5, <2>8, <4>1
      <4>4. Below(x, m, k) = v[m.pivots[q]][k]
        BY <2>1, <4>3
      <4> QED BY <3>1, <4>2, <4>3, <4>4
    <3>3. CASE \A q \in DOMAIN d.pivots : ~InRange(d, q, k)
      <4>1. \A q \in DOMAIN d.pivots : ~InRange(m, q, k)
        BY <1>5, <3>3
      <4>2. \A q \in DOMAIN n.pivots \ {p} : v[m.pivots[q]][k] = None
        BY <1>1, <1>5, <2>3, <2>7, <2>8
      <4>3. Below(x, m, k) = None
        BY <1>5, <2>1, <2>2, <4>1, <4>2
      <4> QED BY <2>4, <3>1, <3>3, <4>3
    <3> QED BY <3>2, <3>3
  <2>9. CASE \E q \in DOMAIN n.pivots \ {p} : InRange(n, q, k)
    BY <1>5, <2>1, <2>3, <2>9
  <2>10. CASE \A q \in DOMAIN n.pivots : ~InRange(n, q, k)
    <3>1. Below(v, n, k) = None
      BY <2>3, <2>10
    <3>2. \A q \in DOMAIN m.pivots : v[m.pivots[q]][k] = None
      BY <1>1, <1>5, <2>7, <2>10
    <3> QED BY <2>1, <2>2, <3>1, <3>2
  <2> QED BY <2>8, <2>9, <2>10
<1>16. ValuesOK(s, x, m, id)
  <2>1. s[id] = t[id] /\ x[id] = v[id] /\ m.elements = n.elements /\ m.given = n.given
    BY <1>1, <1>3, <1>4
  <2> HIDE DEF n, c, d
  <2> QED BY <1>8, <1>15, <2>1 DEF ValuesOK
<1>17. ViewNode(m, DOMAIN u, now)
  <2>1. m.pivots = [q \in DOMAIN m.pivots |-> m.pivots[q]]
    <3>1. m.pivots = Replace(n.pivots, p, d.pivots)
      BY DEF Joined, m
    <3> QED BY <3>1 DEF Replace
  <2> HIDE DEF n, c, d
  <2>2. m.pivots \in [DOMAIN m.pivots -> DOMAIN u]
    BY <1>7, <2>1
  <2> QED BY <1>1, <1>5, <1>8, <2>2 DEF ViewNode
<1>18. ASSUME NEW i \in DOMAIN u
       PROVE  TimesOK(s, u[i], i) /\ ValuesOK(s, x, u[i], i) /\ ViewNode(u[i], DOMAIN u, now)
  <2>1. CASE i = id
    BY <1>14, <1>16, <1>17, <2>1 DEF m
  <2> QED BY <1>6, <2>1
<1>19. s \in [DOMAIN u -> [Keys -> 0 .. now - 1]] /\ x \in [DOMAIN u -> [Keys -> Answers]]
  <2> HIDE DEF n, c, d
  <2> QED BY <1>2, <1>4 DEF s, x
<1>20. ViewOK(s, x, u, now)
  BY <1>18, <1>19 DEF ViewOK, ViewTypes
<1> QED BY <1>4, <1>20

\* The node above the parts of the root takes its place.
LEMMA ViewGrow ==
  ASSUME NEW t, NEW v, NEW w, NEW now, ViewOK(t, v, w, now),
         NEW top \in DOMAIN w, NEW new, new \notin DOMAIN w,
         \A a \in DOMAIN w : \A q \in DOMAIN w[a].pivots : w[a].pivots[q] # top,
         NEW u, DOMAIN u = (DOMAIN w \ {top}) \union {new}, u[new] = w[top],
         \A i \in DOMAIN w : i # top => u[i] = w[i]
  PROVE  \E s, x : ViewOK(s, x, u, now) /\ x[new] = v[top]
<1> DEFINE s == [i \in DOMAIN u |-> IF i = new THEN t[top] ELSE t[i]]
           x == [i \in DOMAIN u |-> IF i = new THEN v[top] ELSE v[i]]
<1>1. /\ \A i \in DOMAIN w : /\ ViewNode(w[i], DOMAIN w, now)
                             /\ TimesOK(t, w[i], i) /\ ValuesOK(t, v, w[i], i)
                             /\ DOMAIN w[i].pivots \subseteq Keys
                             /\ \A q \in DOMAIN w[i].pivots : w[i].pivots[q] \in DOMAIN w
      /\ t \in [DOMAIN w -> [Keys -> 0 .. now - 1]]
      /\ v \in [DOMAIN w -> [Keys -> Answers]]
  BY ViewFacts DEF ViewNode, ViewOK, ViewTypes
<1>2. /\ s[new] = t[top] /\ x[new] = v[top]
      /\ \A i \in DOMAIN w : i # top => i \in DOMAIN u /\ s[i] = t[i] /\ x[i] = v[i]
  OBVIOUS
<1>3. s \in [DOMAIN u -> [Keys -> 0 .. now - 1]] /\ x \in [DOMAIN u -> [Keys -> Answers]]
  BY <1>1
<1> HIDE DEF s, x
<1>4. ASSUME NEW i \in DOMAIN w
      PROVE  /\ ViewNode(w[i], DOMAIN u, now)
             /\ DOMAIN w[i].pivots \subseteq Keys
             /\ \A q \in DOMAIN w[i].pivots : /\ s[w[i].pivots[q]] = t[w[i].pivots[q]]
                                              /\ x[w[i].pivots[q]] = v[w[i].pivots[q]]
  <2>1. \A q \in DOMAIN w[i].pivots : w[i].pivots[q] \in DOMAIN w /\ w[i].pivots[q] # top
    BY <1>1
  <2> QED BY <1>1, <1>2, <2>1 DEF ViewNode
<1>5. ASSUME NEW i \in DOMAIN w, i # top
      PROVE  TimesOK(s, u[i], i) /\ ValuesOK(s, x, u[i], i) /\ ViewNode(u[i], DOMAIN u, now)
  <2>1. u[i] = w[i] /\ s[i] = t[i] /\ x[i] = v[i]
    BY <1>2, <1>5
  <2>2. TimesOK(s, w[i], i) /\ ValuesOK(s, x, w[i], i)
    BY <1>1, <1>4, <2>1, Elsewhere
  <2> QED BY <1>4, <2>1, <2>2
<1>6. TimesOK(s, w[top], new) /\ ValuesOK(s, x, w[top], new)
  <2> DEFINE n == w[top]
  <2>1. TimesOK(t, n, top) /\ ValuesOK(t, v, n, top)
    BY <1>1
  <2>2. /\ DOMAIN n.pivots \subseteq Keys
        /\ \A q \in DOMAIN n.pivots : s[n.pivots[q]] = t[n.pivots[q]]
        /\ \A q \in DOMAIN n.pivots : x[n.pivots[q]] = v[n.pivots[q]]
    BY <1>4
  <2> HIDE DEF n
  <2>3. TimesOK(s, n, new)
    BY <1>2, <2>1, <2>2 DEF TimesOK
  <2>4. ASSUME NEW k \in Keys PROVE Below(x, n, k) = Below(v, n, k)
    BY <2>2, RangeIs DEF Below
  <2>5. ValuesOK(s, x, n, new)
    BY <1>2, <2>1, <2>4 DEF ValuesOK
  <2> QED BY <2>3, <2>5 DEF n
<1>7. ViewOK(s, x, u, now)
  <2>1. \A i \in DOMAIN u : /\ TimesOK(s, u[i], i) /\ ValuesOK(s, x, u[i], i)
                            /\ ViewNode(u[i], DOMAIN u, now)
    BY <1>4, <1>5, <1>6
  <2> QED BY <1>3, <2>1 DEF ViewOK, ViewTypes
<1> QED BY <1>2, <1>7

\* A buffer is one when the clock has gone on.
LEMMA BufferLater ==
  ASSUME NEW now \in Nat, NEW later \in Nat, now <= later
  PROVE  Buffer(now) \subseteq Buffer(later)
<1>1. Message(now) \subseteq Message(later)
  BY DEF Message
<1> QED BY <1>1 DEF Buffer

\* An upsert gives the root a message that is newer than all there are, and this takes
\* its effect on the value of the root at once.
LEMMA ViewCall ==
  ASSUME NEW t, NEW v, NEW w, NEW now \in Nat, ViewOK(t, v, w, now), now > 0,
         NEW top \in DOMAIN w, w[top].given = {},
         \A a \in DOMAIN w : \A q \in DOMAIN w[a].pivots : w[a].pivots[q] # top,
         NEW m \in Message(now + 1), m.ts = now,
         NEW u, DOMAIN u = DOMAIN w,
         u[top].pivots = w[top].pivots, u[top].elements = w[top].elements, u[top].given = {m},
         \A i \in DOMAIN w : i # top => u[i] = w[i]
  PROVE  \E s, x : /\ ViewOK(s, x, u, now + 1)
                   /\ x[top] = [v[top] EXCEPT ![m.key] =
                                   Reference!Effect(m.op, m.val, v[top][m.key])]
<1> DEFINE s == [t EXCEPT ![top] = [t[top] EXCEPT ![m.key] = now]]
           x == [v EXCEPT ![top] =
                    [v[top] EXCEPT ![m.key] = Reference!Effect(m.op, m.val, v[top][m.key])]]
           n == w[top]
           d == u[top]
<1>1. /\ \A i \in DOMAIN w : /\ ViewNode(w[i], DOMAIN w, now)
                             /\ TimesOK(t, w[i], i) /\ ValuesOK(t, v, w[i], i)
                             /\ DOMAIN w[i].pivots \subseteq Keys
                             /\ \A q \in DOMAIN w[i].pivots : w[i].pivots[q] \in DOMAIN w
                             /\ \A k \in Keys : t[i][k] \in 0 .. now - 1 /\ t[i][k] \in Nat
                                                /\ v[i][k] \in Answers
      /\ t \in [DOMAIN w -> [Keys -> 0 .. now - 1]]
      /\ v \in [DOMAIN w -> [Keys -> Answers]]
  BY ViewFacts DEF ViewNode, ViewOK, ViewTypes
<1>2. m.key \in Keys /\ m.val \in Seq(Nat) /\ m.op \in Opcodes
  BY DEF Message
<1>3. /\ s[top] = [t[top] EXCEPT ![m.key] = now]
      /\ x[top] = [v[top] EXCEPT ![m.key] = Reference!Effect(m.op, m.val, v[top][m.key])]
      /\ \A i \in DOMAIN w : i # top => s[i] = t[i] /\ x[i] = v[i]
  BY <1>1
<1>4. {m} \in Buffer(now + 1) /\ Orderly({m})
  BY FS_Singleton DEF Buffer, Orderly
<1>5. Reference!Effect(m.op, m.val, v[top][m.key]) \in Answers
  <2>1. v[top][m.key] \in Answers
    BY <1>1, <1>2
  <2> QED BY <1>2, <2>1, EmptySeq, ConcatProperties DEF Reference!Effect, Answers, Opcodes, Reference!Default
<1>6. s \in [DOMAIN w -> [Keys -> 0 .. (now + 1) - 1]] /\ x \in [DOMAIN w -> [Keys -> Answers]]
  <2>1. 0 .. now - 1 \subseteq 0 .. (now + 1) - 1 /\ now \in 0 .. (now + 1) - 1
    OBVIOUS
  <2>2. t \in [DOMAIN w -> [Keys -> 0 .. (now + 1) - 1]]
    BY <1>1, <2>1
  <2> QED BY <1>1, <1>2, <1>5, <2>1, <2>2
<1> HIDE DEF s, x
<1>7. ASSUME NEW i \in DOMAIN w, i # top
      PROVE  TimesOK(s, u[i], i) /\ ValuesOK(s, x, u[i], i)
  <2>1. u[i] = w[i] /\ s[i] = t[i] /\ x[i] = v[i]
    BY <1>3, <1>7
  <2>2. \A q \in DOMAIN w[i].pivots : w[i].pivots[q] # top /\ w[i].pivots[q] \in DOMAIN w
    BY <1>1
  <2>3. \A q \in DOMAIN w[i].pivots : s[w[i].pivots[q]] = t[w[i].pivots[q]]
                                      /\ x[w[i].pivots[q]] = v[w[i].pivots[q]]
    BY <1>3, <2>2
  <2>4. TimesOK(s, w[i], i) /\ ValuesOK(s, x, w[i], i)
    <3>1. /\ TimesOK(t, w[i], i) /\ ValuesOK(t, v, w[i], i) /\ DOMAIN w[i].pivots \subseteq Keys
      BY <1>1
    <3> QED BY <2>1, <2>3, <3>1, Elsewhere
  <2> QED BY <2>1, <2>4
<1>8. /\ DOMAIN n.pivots \subseteq Keys /\ TimesOK(t, n, top) /\ ValuesOK(t, v, n, top)
      /\ \A q \in DOMAIN n.pivots : n.pivots[q] \in DOMAIN w /\ n.pivots[q] # top
      /\ n.elements \in Buffer(now) /\ Orderly(n.elements) /\ n.given = {}
      /\ d.pivots = n.pivots /\ d.elements = n.elements /\ d.given = {m}
  BY <1>1 DEF ViewNode
<1>9. \A q \in DOMAIN n.pivots : s[n.pivots[q]] = t[n.pivots[q]] /\ x[n.pivots[q]] = v[n.pivots[q]]
  BY <1>3, <1>8
<1>10. \A e \in n.elements : e.key \in Keys /\ e.ts \in Nat /\ e.ts < now /\ e.ts <= t[top][e.key]
  <2>1. \A e \in n.elements : e.key \in Keys /\ e.ts \in 1 .. now - 1
    BY <1>8, MessageFields
  <2> QED BY <1>8, <2>1 DEF TimesOK, Held
<1>11. TimesOK(s, d, top)
  <2>1. \A e \in Held(d) : e = m \/ e \in n.elements
    BY <1>8 DEF Held
  <2>2. \A k \in Keys : t[top][k] <= s[top][k]
    BY <1>1, <1>2, <1>3
  <2>3. s[top][m.key] = now
    BY <1>1, <1>2, <1>3
  <2>4. \A e \in Held(d) : e.ts <= s[top][e.key]
    <3> SUFFICES ASSUME NEW e \in Held(d) PROVE e.ts <= s[top][e.key]
      OBVIOUS
    <3>1. CASE e = m
      BY <2>3, <3>1
    <3>2. CASE e \in n.elements
      <4>1. /\ e.key \in Keys /\ e.ts \in Nat /\ e.ts <= t[top][e.key] /\ t[top][e.key] \in Nat
            /\ t[top][e.key] <= s[top][e.key] /\ s[top][e.key] \in Int
        BY <1>1, <1>6, <1>10, <2>2, <3>2
      <4> HIDE DEF n, d
      <4> QED BY <4>1
    <3> QED BY <2>1, <3>1, <3>2
  <2>5. \A e \in d.elements : \A y \in d.given : e.key = y.key => e.ts < y.ts
    BY <1>8, <1>10
  <2>6. ASSUME NEW q \in DOMAIN d.pivots
        PROVE  /\ \A k \in Keys : /\ s[d.pivots[q]][k] <= s[top][k]
                                  /\ s[d.pivots[q]][k] > 0 => InRange(d, q, k)
               /\ \A e \in Held(d) : s[d.pivots[q]][e.key] < e.ts
    <3>1. /\ q \in DOMAIN n.pivots /\ d.pivots[q] = n.pivots[q] /\ n.pivots[q] \in DOMAIN w
          /\ s[n.pivots[q]] = t[n.pivots[q]]
      BY <1>8, <1>9
    <3>2. /\ \A k \in Keys : /\ t[n.pivots[q]][k] <= t[top][k]
                             /\ t[n.pivots[q]][k] > 0 => InRange(n, q, k)
          /\ \A e \in Held(n) : t[n.pivots[q]][e.key] < e.ts
      BY <1>8, <3>1 DEF TimesOK
    <3>3. \A k \in Keys : /\ t[n.pivots[q]][k] \in 0 .. now - 1
                          /\ t[top][k] \in Nat /\ s[top][k] \in Int
      BY <1>1, <1>6, <3>1
    <3>4. \A k \in Keys : InRange(n, q, k) => InRange(d, q, k)
      BY <1>8 DEF InRange, NextPivots
    <3>5. \A k \in Keys : s[d.pivots[q]][k] <= s[top][k]
                          /\ (s[d.pivots[q]][k] > 0 => InRange(d, q, k))
      <4> HIDE DEF n, d
      <4> QED BY <2>2, <3>1, <3>2, <3>3, <3>4
    <3>6. \A e \in Held(d) : s[d.pivots[q]][e.key] < e.ts
      <4>1. \A e \in n.elements : t[n.pivots[q]][e.key] < e.ts
        BY <3>2 DEF Held
      <4>2. t[n.pivots[q]][m.key] < m.ts
        BY <1>2, <3>3
      <4> QED BY <2>1, <3>1, <4>1, <4>2
    <3> QED BY <3>5, <3>6
  <2> HIDE DEF d
  <2> QED BY <2>4, <2>5, <2>6 DEF TimesOK
<1>12. ASSUME NEW k \in Keys
       PROVE  /\ x[top][k] = Eval(d.given, k, Eval(d.elements, k, Below(x, d, k)))
              /\ s[top][k] = 0 => x[top][k] = None
  <2>1. Below(x, d, k) = Below(v, n, k)
    <3>1. Below(x, n, k) = Below(v, n, k)
      <4> HIDE DEF n
      <4> QED BY <1>8, <1>9, RangeIs DEF Below
    <3> QED BY <1>8, <3>1 DEF Below, IsLeaf, FirstPivot, GetPivot
  <2>2. /\ v[top][k] = Eval(n.elements, k, Below(v, n, k))
        /\ t[top][k] = 0 => v[top][k] = None
        /\ v[top][k] \in Answers
    <3>1. \A y : Eval({}, k, y) = y
      BY DEF Eval, For
    <3> QED BY <1>1, <1>8, <3>1 DEF ValuesOK
  <2>3. CASE k = m.key
    <3>1. Eval({m}, k, v[top][k]) = Reference!Effect(m.op, m.val, v[top][k])
      <4>1. /\ {m} \ {m} = {} /\ Eval({m} \ {m}, m.key, v[top][k]) = v[top][k]
            /\ Newer({m} \ {m}, m) /\ m \in {m}
        BY DEF Eval, For, Newer
      <4>2. Eval({m}, m.key, v[top][k])
               = Reference!Effect(m.op, m.val, Eval({m} \ {m}, m.key, v[top][k]))
        <5> DEFINE b == {m}
        <5>1. b \in Buffer(now + 1) /\ Orderly(b) /\ m \in b /\ Newer(b \ {m}, m)
          BY <1>4, <4>1
        <5> HIDE DEF b
        <5>2. Eval(b, m.key, v[top][k])
                 = Reference!Effect(m.op, m.val, Eval(b \ {m}, m.key, v[top][k]))
          BY <2>2, <5>1, EvalNewest
        <5> QED BY <5>2 DEF b
      <4> QED BY <2>3, <4>1, <4>2
    <3>2. x[top][k] = Reference!Effect(m.op, m.val, v[top][k]) /\ s[top][k] = now
      BY <1>1, <1>2, <1>3, <2>3
    <3> QED BY <1>8, <2>1, <2>2, <3>1, <3>2
  <2>4. CASE k # m.key
    <3>1. For({m}, k) = {}
      BY <2>4 DEF For
    <3>2. \A y : Eval({m}, k, y) = y
      BY <3>1 DEF Eval
    <3>3. x[top][k] = v[top][k] /\ s[top][k] = t[top][k]
      BY <1>1, <1>3, <2>4
    <3> QED BY <1>8, <2>1, <2>2, <3>2, <3>3
  <2> QED BY <2>3, <2>4
<1>13. ValuesOK(s, x, d, top)
  <2> HIDE DEF d
  <2> QED BY <1>12 DEF ValuesOK
<1>14. \A i \in DOMAIN w : ViewNode(u[i], DOMAIN u, now + 1)
  <2>1. Buffer(now) \subseteq Buffer(now + 1)
    BY BufferLater
  <2>2. ASSUME NEW i \in DOMAIN w PROVE ViewNode(u[i], DOMAIN u, now + 1)
    <3>1. ViewNode(w[i], DOMAIN w, now)
      BY <1>1
    <3>2. CASE i = top
      <4>1. u[i].pivots = w[i].pivots /\ u[i].elements = w[i].elements /\ u[i].given = {m}
        BY <3>2
      <4> HIDE DEF n, d
      <4> QED BY <1>4, <2>1, <3>1, <4>1 DEF ViewNode
    <3>3. CASE i # top
      <4>1. u[i] = w[i]
        BY <3>3
      <4> HIDE DEF n, d
      <4> QED BY <2>1, <3>1, <4>1 DEF ViewNode
    <3> QED BY <3>2, <3>3
  <2> QED BY <2>2
<1>15. ViewOK(s, x, u, now + 1)
  <2>1. \A i \in DOMAIN u : TimesOK(s, u[i], i) /\ ValuesOK(s, x, u[i], i)
    BY <1>7, <1>11, <1>13
  <2> QED BY <1>6, <1>14, <2>1 DEF ViewOK, ViewTypes
<1> QED BY <1>3, <1>15

-----------------------------------------------------------------------------
(* The invariant. *)

\* What the activation that runs was given and has not applied.
Given(st, id) ==
    IF st # << >> /\ Last(st).fn = "flush" /\ Last(st).id = id /\ Last(st).pc \in {"count", "enter"}
    THEN Last(st).arg ELSE {}

\* What a node has sent to a child and not yet erased.
Sent(st, nodes, id) ==
    {m \in nodes[id].elements :
        \E i \in 1 .. Len(st) : st[i].id = id /\ st[i].pc = "batch"
                                /\ m \in Batch(nodes[id], st[i].pivot)}

ViewOf(st, nodes, parts, emptied) ==
    [id \in DOMAIN nodes |->
        [pivots   |-> IF id \in emptied THEN parts ELSE nodes[id].pivots,
         elements |-> nodes[id].elements \ Sent(st, nodes, id),
         given    |-> Given(st, id)]]

View == ViewOf(stack, node, returned, Emptied(stack, node, root, returned))

\* The messages of the view come to the std::map.
Valued(w, now, top, ref) == \E t, v : ViewOK(t, v, w, now) /\ v[top] = ref

\* A buffer is in order, and get_pivot finds a pivot for each message in it.
TidyNode(n) ==
    /\ Orderly(n.elements)
    /\ ~IsLeaf(n) => \A m \in n.elements : FirstPivot(n) <= m.key

\* A node that takes the shortcut holds nothing for the child, a client only runs
\* what it has called, and a query asks the child that get_pivot leads to.
TidyFrame(f, nodes, client) ==
    /\ f.pc = "direct" => Batch(nodes[f.id], f.pivot) = {}
    /\ f.fn = "flush" <=> client = "upsert"
    /\ f.pc = "below" => ~IsLeaf(nodes[f.id]) /\ FirstPivot(nodes[f.id]) <= f.arg

Asks(f, g, nodes) ==
    f.pc = "below" => g.arg = f.arg /\ g.id = nodes[f.id].pivots[GetPivot(nodes[f.id], f.arg)]

TidyStack(st, nodes, client) ==
    /\ \A i \in 1 .. Len(st) : TidyFrame(st[i], nodes, client)
    /\ \A i \in 1 .. Len(st) : i > 1 => Asks(st[i - 1], st[i], nodes)

\* A query has found what the values below are.
FoundOK ==
    Running("query", "below") =>
        \A t, v : ViewOK(t, v, View, next_timestamp) => found = Below(v, Current, Top.arg)

CInv ==
    /\ OInv
    /\ \A id \in DOMAIN node : TidyNode(node[id])
    /\ \A id \in Emptied(stack, node, root, returned) : node[id].elements = {}
    /\ TidyStack(stack, node, call)
    /\ FoundOK
    /\ Valued(View, next_timestamp, root, reference)

-----------------------------------------------------------------------------
(* The view before and after a step. *)

\* The node that was split is another than that of the activation that runs.
LEMMA EmptiedElsewhere ==
  ASSUME OInv, stack # << >>
  PROVE  /\ Top.id \notin Emptied(stack, node, root, returned)
         /\ Top.pc \notin {"direct", "batch"} => Emptied(stack, node, root, returned) = {}
<1>1. /\ Len(stack) \in Nat \ {0} /\ Top = stack[Len(stack)] /\ FrameOK(Top, node)
      /\ Top.pc \notin {"direct", "batch"} => returned = EmptyMap
  BY TopFacts DEF OInv
<1>2. Top.pc \notin {"direct", "batch"} => Emptied(stack, node, root, returned) = {}
  BY <1>1 DEF Emptied
<1>3. ASSUME Top.id \in Emptied(stack, node, root, returned) PROVE FALSE
  <2>1. Top.pc \in {"direct", "batch"} /\ Top.pivot \in DOMAIN node[Top.id].pivots
    BY <1>1, <1>2, <1>3 DEF FrameOK
  <2>2. IsLeaf(node[Top.id])
    BY <1>3 DEF OInv, PartsOK
  <2> QED BY <2>1, <2>2 DEF IsLeaf
<1> QED BY <1>2, <1>3

\* The view while an activation runs.
LEMMA ViewTop ==
  ASSUME OInv, stack # << >>
  PROVE  /\ DOMAIN View = DOMAIN node /\ Top.id \in DOMAIN node
         /\ View[Top.id] =
              [pivots   |-> Current.pivots,
               elements |-> IF Top.pc = "batch" THEN Current.elements \ Batch(Current, Top.pivot)
                                                ELSE Current.elements,
               given    |-> IF Top.fn = "flush" /\ Top.pc \in {"count", "enter"}
                            THEN Top.arg ELSE {}]
         /\ \A id \in DOMAIN node :
               /\ id # Top.id => View[id].given = {}
               /\ id \notin Emptied(stack, node, root, returned)
                     => View[id].pivots = node[id].pivots
               /\ id \in Emptied(stack, node, root, returned) => View[id].pivots = returned
               /\ View[id].elements = node[id].elements \ Sent(stack, node, id)
<1>1. /\ Len(stack) \in Nat \ {0} /\ Top = stack[Len(stack)] /\ Top.id \in DOMAIN node
      /\ \A i \in 1 .. Len(stack) - 1 : stack[i].id # Top.id
  BY TopFacts DEF OInv, FrameOK
<1>2. Last(stack) = Top
  BY DEF Top
<1>3. \A id \in DOMAIN node : id # Top.id => Given(stack, id) = {}
  BY <1>2 DEF Given
<1>4. Given(stack, Top.id) = IF Top.fn = "flush" /\ Top.pc \in {"count", "enter"}
                             THEN Top.arg ELSE {}
  BY <1>2 DEF Given
<1>5. Current.elements \ Sent(stack, node, Top.id)
        = IF Top.pc = "batch" THEN Current.elements \ Batch(Current, Top.pivot)
                              ELSE Current.elements
  <2>1. \A i \in 1 .. Len(stack) : stack[i].id = Top.id => i = Len(stack)
    BY <1>1
  <2>2. Len(stack) \in 1 .. Len(stack)
    BY <1>1
  <2>3. Sent(stack, node, Top.id) =
           {m \in Current.elements : Top.pc = "batch" /\ m \in Batch(Current, Top.pivot)}
    <3> DEFINE S == Sent(stack, node, Top.id)
               T == {m \in Current.elements : Top.pc = "batch" /\ m \in Batch(Current, Top.pivot)}
    <3>1. ASSUME NEW m \in S PROVE m \in T
      BY <1>1, <2>1 DEF Sent, Current
    <3>2. ASSUME NEW m \in T PROVE m \in S
      BY <1>1, <2>2 DEF Sent, Current
    <3> QED BY <3>1, <3>2
  <2>4. Batch(Current, Top.pivot) \subseteq Current.elements
    BY DEF Batch
  <2> QED BY <2>3, <2>4
<1>6. Top.id \notin Emptied(stack, node, root, returned)
  BY EmptiedElsewhere
<1> DEFINE gone == Emptied(stack, node, root, returned)
<1>7. View = [id \in DOMAIN node |->
        [pivots   |-> IF id \in gone THEN returned ELSE node[id].pivots,
         elements |-> node[id].elements \ Sent(stack, node, id),
         given    |-> Given(stack, id)]]
  BY DEF View, ViewOf
<1>8. Top.id \notin gone
  BY <1>6
<1> HIDE DEF gone
<1>9. /\ DOMAIN View = DOMAIN node
      /\ View[Top.id] = [pivots |-> node[Top.id].pivots,
                         elements |-> node[Top.id].elements \ Sent(stack, node, Top.id),
                         given |-> Given(stack, Top.id)]
      /\ \A id \in DOMAIN node :
            /\ View[id].given = Given(stack, id)
            /\ View[id].pivots = IF id \in gone THEN returned ELSE node[id].pivots
            /\ View[id].elements = node[id].elements \ Sent(stack, node, id)
  BY <1>1, <1>7, <1>8
<1> QED BY <1>1, <1>3, <1>4, <1>5, <1>9 DEF gone, Current

\* Between calls, and before the end of one, the view is the tree itself but for a
\* root that was split.
LEMMA ViewIdle ==
  ASSUME stack = << >>
  PROVE  /\ DOMAIN View = DOMAIN node
         /\ \A id \in DOMAIN node :
               View[id] = [pivots   |-> IF id \in Emptied(stack, node, root, returned)
                                        THEN returned ELSE node[id].pivots,
                           elements |-> node[id].elements, given |-> {}]
<1>1. \A id : Given(stack, id) = {}
  BY DEF Given
<1>2. \A id : node[id].elements \ Sent(stack, node, id) = node[id].elements
  BY DEF Sent
<1> DEFINE gone == Emptied(stack, node, root, returned)
<1>3. View = [id \in DOMAIN node |->
        [pivots   |-> IF id \in gone THEN returned ELSE node[id].pivots,
         elements |-> node[id].elements \ Sent(stack, node, id),
         given    |-> Given(stack, id)]]
  BY DEF View, ViewOf
<1> HIDE DEF gone
<1> QED BY <1>1, <1>2, <1>3 DEF gone

\* What other activations have sent is not touched by the one that runs.
LEMMA SentStep ==
  ASSUME IInv, stack # << >>, NEW new, Len(new) \in Nat, Len(stack) - 1 <= Len(new),
         \A i \in 1 .. Len(stack) - 1 : new[i] = stack[i],
         \A i \in 1 .. Len(new) : /\ i = Len(stack) => new[i].id = Top.id
                                  /\ i > Len(stack) => new[i].pc # "batch",
         NEW more
  PROVE  /\ \A id \in DOMAIN node : id # Top.id /\ more[id] = node[id] =>
               Sent(new, more, id) = Sent(stack, node, id)
         /\ \A id : id \notin DOMAIN node => Sent(new, more, id) = {}
         /\ Sent(new, more, Top.id) =
               IF Len(new) >= Len(stack) /\ new[Len(stack)].pc = "batch"
               THEN Batch(more[Top.id], new[Len(stack)].pivot) ELSE {}
<1>1. /\ Len(stack) \in Nat \ {0} /\ Top = stack[Len(stack)] /\ Top.id \in DOMAIN node
      /\ \A i \in 1 .. Len(stack) - 1 : stack[i].id \in DOMAIN node /\ stack[i].id # Top.id
  BY TopFacts DEF FrameOK
<1>2. \A i \in 1 .. Len(new) : i < Len(stack) \/ i = Len(stack) \/ i > Len(stack)
  BY <1>1
<1>3. ASSUME NEW id \in DOMAIN node, id # Top.id, more[id] = node[id]
      PROVE  Sent(new, more, id) = Sent(stack, node, id)
  <2>1. \A i \in 1 .. Len(new) : new[i].id = id /\ new[i].pc = "batch" => i \in 1 .. Len(stack) - 1
    BY <1>1, <1>3
  <2>2. \A i \in 1 .. Len(stack) : stack[i].id = id => i \in 1 .. Len(stack) - 1
    BY <1>1, <1>3
  <2>3. 1 .. Len(stack) - 1 \subseteq 1 .. Len(new) /\ 1 .. Len(stack) - 1 \subseteq 1 .. Len(stack)
    BY <1>1
  <2>4. Sent(new, more, id) \subseteq Sent(stack, node, id)
    BY <1>3, <2>1, <2>3 DEF Sent
  <2>5. Sent(stack, node, id) \subseteq Sent(new, more, id)
    BY <1>3, <2>2, <2>3 DEF Sent
  <2> QED BY <2>4, <2>5
<1>4. ASSUME NEW id, id \notin DOMAIN node PROVE Sent(new, more, id) = {}
  <2>1. \A i \in 1 .. Len(new) : ~(new[i].id = id /\ new[i].pc = "batch")
    BY <1>1, <1>2, <1>4
  <2> QED BY <2>1 DEF Sent
<1>5. Sent(new, more, Top.id) =
         IF Len(new) >= Len(stack) /\ new[Len(stack)].pc = "batch"
         THEN Batch(more[Top.id], new[Len(stack)].pivot) ELSE {}
  <2>1. \A i \in 1 .. Len(new) : new[i].id = Top.id /\ new[i].pc = "batch" => i = Len(stack)
    BY <1>1, <1>2
  <2>2. \A p : Batch(more[Top.id], p) \subseteq more[Top.id].elements
    BY DEF Batch
  <2>3. CASE Len(new) >= Len(stack) /\ new[Len(stack)].pc = "batch"
    <3>1. Len(stack) \in 1 .. Len(new) /\ new[Len(stack)].id = Top.id
      BY <1>1, <2>3
    <3>2. Sent(new, more, Top.id) \subseteq Batch(more[Top.id], new[Len(stack)].pivot)
      BY <2>1 DEF Sent
    <3>3. Batch(more[Top.id], new[Len(stack)].pivot) \subseteq Sent(new, more, Top.id)
      BY <2>2, <2>3, <3>1 DEF Sent
    <3> QED BY <2>3, <3>2, <3>3
  <2>4. CASE ~(Len(new) >= Len(stack) /\ new[Len(stack)].pc = "batch")
    <3>1. \A i \in 1 .. Len(new) : ~(new[i].id = Top.id /\ new[i].pc = "batch")
      BY <1>1, <2>1, <2>4
    <3> QED BY <2>4, <3>1 DEF Sent
  <2> QED BY <2>3, <2>4
<1> QED BY <1>3, <1>4, <1>5

\* The stack when the running activation returns or goes on ...
LEMMA StayStack ==
  ASSUME OInv, stack # << >>, NEW new,
         \/ new = Front(stack)
         \/ \E pc \in {"loop", "end", "adopt"} : new = At(pc, 0)
  PROVE  /\ Len(new) \in {Len(stack) - 1, Len(stack)}
         /\ \A i \in 1 .. Len(stack) - 1 : new[i] = stack[i]
         /\ Len(new) = Len(stack) =>
               /\ new[Len(stack)].fn = Top.fn /\ new[Len(stack)].id = Top.id
               /\ new[Len(stack)].arg = Top.arg
               /\ new[Len(stack)].pc \in {"loop", "end", "adopt"}
         /\ new # << >> => Last(new).pc \notin {"count", "enter"}
<1> DEFINE F == Flushes(next_timestamp) \union Queries
<1>1. /\ stack \in Seq(F) /\ Len(stack) \in Nat \ {0} /\ Top = stack[Len(stack)] /\ Top \in F
      /\ FramesOK(stack, node, root, returned, call, next_timestamp)
  BY TopFacts DEF OInv, IInv
<1>2. /\ Front(stack) \in Seq(F) /\ Len(Front(stack)) = Len(stack) - 1
      /\ \A i \in 1 .. Len(stack) - 1 : Front(stack)[i] = stack[i]
  BY <1>1, FrontOfFrames
<1>3. CASE new = Front(stack)
  <2>1. ASSUME Front(stack) # << >> PROVE Last(Front(stack)).pc \notin {"count", "enter"}
    <3> DEFINE len == Len(stack)
    <3>1. Front(stack) # << >> /\ Last(Front(stack)) = Front(stack)[Len(Front(stack))]
          /\ Len(Front(stack)) \in Nat \ {0}
      <4> HIDE DEF F
      <4> QED BY <1>2, <2>1, FrontAndLast
    <3>2. len \in 1 .. len /\ len > 1 /\ len - 1 \in 1 .. len - 1
      <4>1. len - 1 # 0 /\ len \in Nat \ {0}
        BY <1>1, <1>2, <3>1
      <4> HIDE DEF len
      <4> QED BY <4>1
    <3>3. Last(Front(stack)) = stack[len - 1]
      BY <1>2, <3>1, <3>2
    <3>4. Waits(stack[len - 1], stack[len], node)
      BY <1>1, <3>2 DEF FramesOK
    <3> QED BY <3>3, <3>4 DEF Waits
  <2>2. Len(new) = Len(stack) - 1 /\ Len(new) # Len(stack)
    BY <1>1, <1>2, <1>3
  <2> QED BY <1>2, <1>3, <2>1, <2>2
<1>4. CASE \E pc \in {"loop", "end", "adopt"} : new = At(pc, 0)
  <2>1. PICK pc \in {"loop", "end", "adopt"} : new = At(pc, 0)
    BY <1>4
  <2> DEFINE f == [Top EXCEPT !.pc = pc, !.pivot = 0]
  <2>2. f.id = Top.id /\ f.fn = Top.fn /\ f.arg = Top.arg /\ f.pc = pc
    BY <1>1 DEF Flushes, Queries
  <2>3. new = Append(Front(stack), f)
    BY <2>1 DEF At
  <2> HIDE DEF f
  <2>4. /\ Len(new) = Len(stack) /\ new[Len(stack)] = f /\ Last(new) = f
        /\ \A i \in 1 .. Len(stack) - 1 : new[i] = stack[i]
    BY <1>1, <1>2, <2>3 DEF Last
  <2> QED BY <2>1, <2>2, <2>4
<1> QED BY <1>3, <1>4

\* ... and when it calls an activation of a child.
Called(new, pc, p, c, arg) ==
    LET f == new[Len(stack)]
        g == new[Len(stack) + 1]
    IN  /\ Len(new) = Len(stack) + 1 /\ new # << >> /\ Last(new) = g
        /\ \A i \in 1 .. Len(stack) - 1 : new[i] = stack[i]
        /\ f.fn = Top.fn /\ f.id = Top.id /\ f.arg = Top.arg /\ f.pc = pc /\ f.pivot = p
        /\ g.fn = Top.fn /\ g.id = c /\ g.arg = arg /\ g.pc \in {"count", "enter"}

LEMMA DownStack ==
  ASSUME OInv, stack # << >>, NEW pc, NEW p, NEW c, NEW arg
  PROVE  Called(Append(At(pc, p), Activation(Top.fn, c, arg)), pc, p, c, arg)
<1> DEFINE f == [Top EXCEPT !.pc = pc, !.pivot = p]
           g == Activation(Top.fn, c, arg)
           new == Append(At(pc, p), g)
           F == Flushes(next_timestamp) \union Queries
<1>1. /\ stack \in Seq(F) /\ Len(stack) \in Nat \ {0} /\ Top = stack[Len(stack)] /\ Top \in F
      /\ FramesOK(stack, node, root, returned, call, next_timestamp)
  BY TopFacts DEF OInv, IInv
<1>2. f.id = Top.id /\ f.fn = Top.fn /\ f.arg = Top.arg /\ f.pc = pc /\ f.pivot = p
  BY <1>1 DEF Flushes, Queries
<1>3. g.fn = Top.fn /\ g.id = c /\ g.arg = arg /\ g.pc \in {"count", "enter"}
  BY DEF Activation
<1>4. /\ Len(new) = Len(stack) + 1 /\ new[Len(stack)] = f /\ new[Len(stack) + 1] = g
      /\ \A i \in 1 .. Len(stack) - 1 : new[i] = stack[i]
      /\ new # << >> /\ Last(new) = g
  <2>1. /\ Front(stack) \in Seq(F) /\ Len(Front(stack)) = Len(stack) - 1
        /\ \A i \in 1 .. Len(stack) - 1 : Front(stack)[i] = stack[i]
    BY <1>1, FrontOfFrames
  <2>2. new = Append(Append(Front(stack), f), g)
    BY DEF At
  <2> DEFINE G == F \union {f, g}
             one == Append(Front(stack), f)
  <2>3. F \subseteq G /\ f \in G /\ g \in G
    OBVIOUS
  <2> HIDE DEF f, g, new, F, G, one
  <2>4. Front(stack) \in Seq(G)
    BY <2>1, <2>3, WiderSeq
  <2>5. /\ one \in Seq(G) /\ Len(one) = Len(Front(stack)) + 1 /\ one[Len(Front(stack)) + 1] = f
        /\ \A i \in 1 .. Len(Front(stack)) : one[i] = Front(stack)[i]
    BY <2>3, <2>4, Pushed DEF one
  <2>6. /\ new # << >> /\ Len(new) = Len(one) + 1 /\ new[Len(one) + 1] = g
        /\ \A i \in 1 .. Len(one) : new[i] = one[i]
    BY <2>2, <2>3, <2>5, Pushed DEF one
  <2>7. Len(one) = Len(stack)
    BY <1>1, <2>1, <2>5
  <2>8. /\ Len(new) = Len(stack) + 1 /\ new[Len(stack)] = f /\ new[Len(stack) + 1] = g
        /\ \A i \in 1 .. Len(stack) - 1 : new[i] = stack[i]
    <3>1. Len(stack) \in 1 .. Len(stack)
      BY <1>1
    <3>2. new[Len(stack)] = one[Len(stack)] /\ one[Len(stack)] = f
      BY <1>1, <2>1, <2>5, <2>6, <2>7, <3>1
    <3>3. ASSUME NEW i \in 1 .. Len(stack) - 1 PROVE new[i] = stack[i]
      <4>1. i \in 1 .. Len(stack) /\ i \in 1 .. Len(Front(stack))
        BY <1>1, <2>1, <3>3
      <4> QED BY <2>1, <2>5, <2>6, <2>7, <4>1
    <3> QED BY <2>6, <2>7, <3>2, <3>3
  <2> QED BY <1>1, <2>6, <2>8 DEF Last
<1> HIDE DEF f, new
<1> SUFFICES Called(new, pc, p, c, arg)
  BY DEF new
<1> HIDE DEF g
<1> QED BY <1>2, <1>3, <1>4 DEF Called

\* The view when the running activation returns or goes on.
Stays(u, more, parts, gone) ==
    /\ DOMAIN u = DOMAIN more
    /\ \A id \in DOMAIN more :
          /\ u[id] = [pivots |-> u[id].pivots, elements |-> u[id].elements, given |-> {}]
          /\ u[id].pivots = IF id \in gone THEN parts ELSE more[id].pivots
          /\ id = Top.id \/ id \notin DOMAIN node => u[id].elements = more[id].elements
          /\ id \in DOMAIN node /\ id # Top.id /\ more[id] = node[id] =>
                u[id].elements = View[id].elements

LEMMA ViewStay ==
  ASSUME OInv, stack # << >>, NEW new,
         \/ new = Front(stack)
         \/ \E pc \in {"loop", "end", "adopt"} : new = At(pc, 0),
         NEW more, NEW parts, NEW gone
  PROVE  Stays(ViewOf(new, more, parts, gone), more, parts, gone)
<1> DEFINE u == ViewOf(new, more, parts, gone)
           F == Flushes(next_timestamp) \union Queries
<1>1. /\ stack \in Seq(F) /\ Len(stack) \in Nat \ {0} /\ Top = stack[Len(stack)] /\ Top \in F
      /\ FramesOK(stack, node, root, returned, call, next_timestamp) /\ IInv
  BY TopFacts DEF OInv, IInv
<1>2. /\ Len(new) \in Nat /\ Len(stack) - 1 <= Len(new)
      /\ \A i \in 1 .. Len(stack) - 1 : new[i] = stack[i]
      /\ \A i \in 1 .. Len(new) : /\ i = Len(stack) => new[i].id = Top.id /\ new[i].pc # "batch"
                                  /\ i <= Len(stack)
      /\ \A id : Given(new, id) = {}
  <2>1. /\ Len(new) \in {Len(stack) - 1, Len(stack)}
        /\ \A i \in 1 .. Len(stack) - 1 : new[i] = stack[i]
        /\ Len(new) = Len(stack) => /\ new[Len(stack)].id = Top.id
                                    /\ new[Len(stack)].pc \in {"loop", "end", "adopt"}
        /\ new # << >> => Last(new).pc \notin {"count", "enter"}
    BY StayStack
  <2>2. \A id : Given(new, id) = {}
    BY <2>1 DEF Given
  <2> QED BY <1>1, <2>1, <2>2
<1>3. /\ \A id \in DOMAIN node : id # Top.id /\ more[id] = node[id] =>
            Sent(new, more, id) = Sent(stack, node, id)
      /\ \A id : id \notin DOMAIN node => Sent(new, more, id) = {}
      /\ Sent(new, more, Top.id) = {}
  <2>1. /\ \A id \in DOMAIN node : id # Top.id /\ more[id] = node[id] =>
            Sent(new, more, id) = Sent(stack, node, id)
        /\ \A id : id \notin DOMAIN node => Sent(new, more, id) = {}
        /\ Sent(new, more, Top.id) =
               IF Len(new) >= Len(stack) /\ new[Len(stack)].pc = "batch"
               THEN Batch(more[Top.id], new[Len(stack)].pivot) ELSE {}
    BY <1>1, <1>2, SentStep
  <2>2. ~(Len(new) >= Len(stack) /\ new[Len(stack)].pc = "batch")
    BY <1>1, <1>2
  <2> QED BY <2>1, <2>2
<1>4. /\ DOMAIN u = DOMAIN more
      /\ \A id \in DOMAIN more :
            u[id] = [pivots |-> IF id \in gone THEN parts ELSE more[id].pivots,
                     elements |-> more[id].elements \ Sent(new, more, id), given |-> {}]
  BY <1>2 DEF ViewOf
<1>5. \A id \in DOMAIN node : View[id].elements = node[id].elements \ Sent(stack, node, id)
  BY ViewTop
<1> HIDE DEF u
<1>6. \A id \in DOMAIN more :
         /\ u[id] = [pivots |-> u[id].pivots, elements |-> u[id].elements, given |-> {}]
         /\ u[id].pivots = IF id \in gone THEN parts ELSE more[id].pivots
         /\ u[id].elements = more[id].elements \ Sent(new, more, id)
  BY <1>4
<1>7. \A S : S \ {} = S
  OBVIOUS
<1>8. ASSUME NEW id \in DOMAIN more
      PROVE  /\ id = Top.id \/ id \notin DOMAIN node => u[id].elements = more[id].elements
             /\ id \in DOMAIN node /\ id # Top.id /\ more[id] = node[id] =>
                   u[id].elements = View[id].elements
  <2>1. CASE id = Top.id \/ id \notin DOMAIN node
    <3>1. Sent(new, more, id) = {}
      BY <1>3, <2>1
    <3>2. u[id].elements = more[id].elements
      BY <1>6, <1>7, <3>1
    <3> QED BY <2>1, <3>2
  <2>2. CASE id # Top.id /\ id \in DOMAIN node
    <3>1. ASSUME more[id] = node[id] PROVE u[id].elements = View[id].elements
      BY <1>3, <1>5, <1>6, <2>2, <3>1
    <3> QED BY <2>2, <3>1
  <2> QED BY <2>1, <2>2
<1>9. DOMAIN u = DOMAIN more
  BY <1>4
<1> SUFFICES Stays(u, more, parts, gone)
  BY DEF u
<1> QED BY <1>6, <1>8, <1>9 DEF Stays

\* The view when it calls one of a child.
Descends(u, more, parts, gone, pc, p, c, arg) ==
    /\ DOMAIN u = DOMAIN more
    /\ \A id \in DOMAIN more :
          /\ u[id] = [pivots |-> u[id].pivots, elements |-> u[id].elements,
                      given |-> IF Top.fn = "flush" /\ id = c THEN arg ELSE {}]
          /\ u[id].pivots = IF id \in gone THEN parts ELSE more[id].pivots
          /\ id # Top.id /\ more[id] = node[id] => u[id].elements = View[id].elements
    /\ u[Top.id].elements = IF pc = "batch" THEN more[Top.id].elements \ Batch(more[Top.id], p)
                                            ELSE more[Top.id].elements

LEMMA ViewDown ==
  ASSUME OInv, stack # << >>, NEW pc, NEW p, NEW c, NEW arg, NEW more, NEW parts, NEW gone,
         DOMAIN more = DOMAIN node
  PROVE  Descends(ViewOf(Append(At(pc, p), Activation(Top.fn, c, arg)), more, parts, gone),
                  more, parts, gone, pc, p, c, arg)
<1> DEFINE new == Append(At(pc, p), Activation(Top.fn, c, arg))
           u == ViewOf(new, more, parts, gone)
           F == Flushes(next_timestamp) \union Queries
<1>1. /\ stack \in Seq(F) /\ Len(stack) \in Nat \ {0} /\ Top = stack[Len(stack)] /\ Top \in F
      /\ FramesOK(stack, node, root, returned, call, next_timestamp) /\ IInv /\ Top.id \in DOMAIN node
  BY TopFacts DEF OInv, IInv, FrameOK
<1>0. Called(new, pc, p, c, arg)
  BY DownStack
<1> HIDE DEF new
<1>2. /\ Len(new) = Len(stack) + 1 /\ new # << >> /\ Last(new) = new[Len(stack) + 1]
      /\ \A i \in 1 .. Len(stack) - 1 : new[i] = stack[i]
      /\ new[Len(stack)].id = Top.id /\ new[Len(stack)].pc = pc /\ new[Len(stack)].pivot = p
  BY <1>0 DEF Called
<1>3. LET h == new[Len(stack) + 1]
      IN  h.fn = Top.fn /\ h.id = c /\ h.arg = arg /\ h.pc \in {"count", "enter"}
  BY <1>0 DEF Called
<1>5. \A id : Given(new, id) = IF Top.fn = "flush" /\ id = c THEN arg ELSE {}
  BY <1>2, <1>3 DEF Given
<1>6. /\ \A id \in DOMAIN node : id # Top.id /\ more[id] = node[id] =>
            Sent(new, more, id) = Sent(stack, node, id)
      /\ Sent(new, more, Top.id) = IF pc = "batch" THEN Batch(more[Top.id], p) ELSE {}
  <2>1. /\ Len(new) \in Nat /\ Len(stack) - 1 <= Len(new) /\ Len(new) >= Len(stack)
        /\ \A i \in 1 .. Len(new) : /\ i = Len(stack) => new[i].id = Top.id
                                    /\ i > Len(stack) => new[i].pc # "batch"
    <3>1. \A i \in 1 .. Len(new) : i > Len(stack) => i = Len(stack) + 1
      BY <1>1, <1>2
    <3> QED BY <1>1, <1>2, <1>3, <3>1
  <2> QED BY <1>1, <1>2, <2>1, SentStep
<1>7. /\ DOMAIN u = DOMAIN more
      /\ \A id \in DOMAIN more :
            u[id] = [pivots |-> IF id \in gone THEN parts ELSE more[id].pivots,
                     elements |-> more[id].elements \ Sent(new, more, id),
                     given |-> IF Top.fn = "flush" /\ id = c THEN arg ELSE {}]
  BY <1>5 DEF ViewOf
<1>8. \A id \in DOMAIN node : View[id].elements = node[id].elements \ Sent(stack, node, id)
  BY ViewTop
<1> HIDE DEF u
<1>9. \A id \in DOMAIN more :
         /\ u[id] = [pivots |-> u[id].pivots, elements |-> u[id].elements,
                     given |-> IF Top.fn = "flush" /\ id = c THEN arg ELSE {}]
         /\ u[id].pivots = IF id \in gone THEN parts ELSE more[id].pivots
         /\ u[id].elements = more[id].elements \ Sent(new, more, id)
  BY <1>7
<1>10. \A id \in DOMAIN more : id # Top.id /\ more[id] = node[id] =>
          u[id].elements = View[id].elements
  BY <1>6, <1>8, <1>9
<1>11. u[Top.id].elements = IF pc = "batch" THEN more[Top.id].elements \ Batch(more[Top.id], p)
                                             ELSE more[Top.id].elements
  <2>1. /\ \A S : S \ {} = S
        /\ u[Top.id].elements = more[Top.id].elements \ Sent(new, more, Top.id)
    BY <1>1, <1>9
  <2> QED BY <1>6, <2>1
<1>12. DOMAIN u = DOMAIN more
  BY <1>7
<1> SUFFICES Descends(u, more, parts, gone, pc, p, c, arg)
  BY DEF u, new
<1> QED BY <1>9, <1>10, <1>11, <1>12 DEF Descends

\* The activations stay tidy when the running one returns or goes on ...
LEMMA TidyStay ==
  ASSUME OInv, stack # << >>, TidyStack(stack, node, call), NEW new,
         \/ new = Front(stack)
         \/ \E pc \in {"loop", "end", "adopt"} : new = At(pc, 0),
         NEW more, \A i \in 1 .. Len(stack) - 1 : more[stack[i].id] = node[stack[i].id]
  PROVE  TidyStack(new, more, call)
<1>1. /\ Len(new) \in {Len(stack) - 1, Len(stack)}
      /\ \A i \in 1 .. Len(stack) - 1 : new[i] = stack[i]
      /\ Len(new) = Len(stack) => /\ new[Len(stack)].fn = Top.fn /\ new[Len(stack)].id = Top.id
                                  /\ new[Len(stack)].arg = Top.arg
                                  /\ new[Len(stack)].pc \in {"loop", "end", "adopt"}
  BY StayStack
<1>2. Len(stack) \in Nat \ {0} /\ Top = stack[Len(stack)]
  BY TopFacts DEF OInv
<1>3. \A i \in 1 .. Len(new) : i \in 1 .. Len(stack) - 1 \/ (i = Len(stack) /\ Len(new) = Len(stack))
  BY <1>1, <1>2
<1>4. ASSUME NEW i \in 1 .. Len(new) PROVE TidyFrame(new[i], more, call)
  <2>1. CASE i \in 1 .. Len(stack) - 1
    <3>1. TidyFrame(stack[i], node, call)
      BY <1>2, <2>1 DEF TidyStack
    <3> QED BY <1>1, <2>1, <3>1 DEF TidyFrame
  <2>2. CASE i = Len(stack) /\ Len(new) = Len(stack)
    <3>1. TidyFrame(Top, node, call)
      BY <1>2 DEF TidyStack
    <3> QED BY <1>1, <2>2, <3>1 DEF TidyFrame
  <2> QED BY <1>3, <2>1, <2>2
<1>5. ASSUME NEW i \in 1 .. Len(new), i > 1 PROVE Asks(new[i - 1], new[i], more)
  <2>1. i - 1 \in 1 .. Len(stack) - 1 /\ i \in 1 .. Len(stack)
    BY <1>2, <1>3, <1>5
  <2>2. Asks(stack[i - 1], stack[i], node)
    BY <1>5, <2>1 DEF TidyStack
  <2>3. new[i - 1] = stack[i - 1] /\ new[i].arg = stack[i].arg /\ new[i].id = stack[i].id
    BY <1>1, <1>2, <1>3, <2>1
  <2> QED BY <2>1, <2>2, <2>3 DEF Asks
<1> QED BY <1>4, <1>5 DEF TidyStack

\* ... and when it calls one of a child.
TidyCall(n, pc, p, c, arg) ==
    /\ pc = "direct" => Batch(n, p) = {}
    /\ pc = "below" => /\ ~IsLeaf(n) /\ FirstPivot(n) <= Top.arg
                       /\ arg = Top.arg /\ c = n.pivots[GetPivot(n, Top.arg)]

LEMMA TidyDown ==
  ASSUME OInv, stack # << >>, TidyStack(stack, node, call), NEW pc, NEW p, NEW c, NEW arg,
         NEW more, \A i \in 1 .. Len(stack) - 1 : more[stack[i].id] = node[stack[i].id],
         TidyCall(more[Top.id], pc, p, c, arg)
  PROVE  TidyStack(Append(At(pc, p), Activation(Top.fn, c, arg)), more, call)
<1> DEFINE new == Append(At(pc, p), Activation(Top.fn, c, arg))
           len == Len(stack)
<1>1. /\ Len(new) = len + 1
      /\ \A i \in 1 .. len - 1 : new[i] = stack[i]
      /\ new[len].fn = Top.fn /\ new[len].id = Top.id /\ new[len].arg = Top.arg
      /\ new[len].pc = pc /\ new[len].pivot = p
      /\ new[len + 1].fn = Top.fn /\ new[len + 1].id = c /\ new[len + 1].arg = arg
      /\ new[len + 1].pc \in {"count", "enter"}
  <2>1. Called(new, pc, p, c, arg)
    BY DownStack
  <2> HIDE DEF new
  <2> QED BY <2>1 DEF Called
<1>2. len \in Nat \ {0} /\ Top = stack[len]
  BY TopFacts DEF OInv
<1> HIDE DEF new, len
<1>3. \A i \in 1 .. Len(new) : i \in 1 .. len - 1 \/ i = len \/ i = len + 1
  BY <1>1, <1>2
<1>4. TidyFrame(Top, node, call) /\ \A i \in 1 .. len - 1 : TidyFrame(stack[i], node, call)
  BY <1>2 DEF TidyStack, len
<1>5. ASSUME NEW i \in 1 .. Len(new) PROVE TidyFrame(new[i], more, call)
  <2>1. CASE i \in 1 .. len - 1
    <3>1. TidyFrame(stack[i], node, call) /\ more[stack[i].id] = node[stack[i].id]
      BY <1>4, <2>1 DEF len
    <3> QED BY <1>1, <2>1, <3>1 DEF TidyFrame
  <2>2. CASE i = len
    BY <1>1, <1>4, <2>2 DEF TidyFrame, TidyCall
  <2>3. CASE i = len + 1
    BY <1>1, <1>4, <2>3 DEF TidyFrame
  <2> QED BY <1>3, <2>1, <2>2, <2>3
<1>6. ASSUME NEW i \in 1 .. Len(new), i > 1 PROVE Asks(new[i - 1], new[i], more)
  <2>1. CASE i = len + 1
    <3>1. i - 1 = len
      BY <1>2, <2>1
    <3> QED BY <1>1, <2>1, <3>1 DEF Asks, TidyCall
  <2>2. CASE i # len + 1
    <3>1. i - 1 \in 1 .. len - 1 /\ i \in 1 .. len
      BY <1>2, <1>3, <1>6, <2>2
    <3>2. Asks(stack[i - 1], stack[i], node) /\ more[stack[i - 1].id] = node[stack[i - 1].id]
      BY <1>6, <3>1 DEF TidyStack, len
    <3>3. new[i - 1] = stack[i - 1] /\ new[i].arg = stack[i].arg /\ new[i].id = stack[i].id
      BY <1>1, <1>2, <1>3, <2>2, <3>1
    <3> QED BY <3>2, <3>3 DEF Asks
  <2> QED BY <2>1, <2>2
<1> QED BY <1>5, <1>6 DEF TidyStack, new

\* A node of the view applies what it was given to its buffer.
LEMMA ViewApply ==
  ASSUME NEW t, NEW v, NEW w, NEW now, ViewOK(t, v, w, now), NEW id, NEW u, NEW m,
         Only(u, w, id, m), NEW leaf \in BOOLEAN, leaf <=> IsLeaf(w[id]),
         leaf => Inserts(w[id].elements),
         Moves(m, w[id]), DOMAIN m.pivots \subseteq Keys,
         m.pivots \in [DOMAIN m.pivots -> DOMAIN w],
         m.elements = ApplyAll(w[id].elements, w[id].given, leaf), m.given = {}
  PROVE  ViewOK(t, v, u, now) /\ Orderly(m.elements)
<1> DEFINE n == w[id]
           es == n.elements
           b == n.given
           fs == ApplyAll(es, b, leaf)
<1>1. /\ es \in Buffer(now) /\ Orderly(es) /\ b \in Buffer(now) /\ Orderly(b)
      /\ \A x \in b : Newer(es, x)
      /\ id \in DOMAIN w
  <2>1. id \in DOMAIN w
    BY DEF Only
  <2>2. ViewNode(n, DOMAIN w, now) /\ TimesOK(t, n, id)
    BY <2>1, ViewFacts
  <2> HIDE DEF n
  <2> QED BY <2>1, <2>2 DEF ViewNode, TimesOK, Newer
<1> HIDE DEF es, b
<1>2. /\ Orderly(fs)
      /\ \A e \in fs : \E x \in es \union b : x.key = e.key /\ x.ts = e.ts
      /\ \A below \in Answers : (leaf => below = None) =>
            \A k : Eval(fs, k, below) = Eval(b, k, Eval(es, k, below))
  <2>1. leaf => Inserts(es)
    BY DEF es
  <2> QED BY <1>1, <2>1, ApplyAllEval
<1>3. fs \in Buffer(now)
  <2>1. leaf => Inserts(es)
    BY DEF es
  <2> QED BY <1>1, <2>1, ApplyAllKeeps
<1>4. m.elements = fs /\ m.given = {}
  BY DEF es, b
<1> HIDE DEF fs
<1>5. {} \in Buffer(now) /\ Orderly({})
  BY FS_EmptySet DEF Buffer, Orderly
<1>6. ViewNode(m, DOMAIN w, now)
  BY <1>2, <1>3, <1>4, <1>5 DEF ViewNode
<1>7. \A e \in Held(m) : \E x \in Held(w[id]) : x.key = e.key /\ x.ts = e.ts
  BY <1>2, <1>4 DEF Held, es, b
<1>8. \A e \in m.elements : \A x \in m.given : e.key = x.key => e.ts < x.ts
  BY <1>4
<1>9. \A k \in Keys : \A y \in Answers : (IsLeaf(w[id]) => y = None) =>
         Eval(m.given, k, Eval(m.elements, k, y))
           = Eval(w[id].given, k, Eval(w[id].elements, k, y))
  <2>1. \A k : \A y : Eval({}, k, y) = y
    BY DEF Eval, For
  <2> QED BY <1>2, <1>4, <2>1 DEF es, b
<1>10. ViewOK(t, v, u, now)
  <2>1. Rewrites(m, w[id], DOMAIN w, now)
    BY <1>6, <1>7, <1>8, <1>9 DEF Rewrites
  <2> QED BY <2>1, ViewChange
<1> QED BY <1>2, <1>4, <1>10

-----------------------------------------------------------------------------
(* A split, in the view. *)

\* Each message of a leaf that is split goes to one of the parts.
LEMMA LeafPlaced ==
  ASSUME NEW n, NEW ids, NEW now, NodeOK(n, ids, now), IsLeaf(n), NEW m \in n.elements
  PROVE  \E i \in Parts(n) : m \in Part(n, i).elements
<1> DEFINE i == LeafPart(n, m)
           B == {e \in n.elements : MsgLess(e, m)}
<1>1. /\ Things(n) \in Nat \ {0} /\ NumNew(n) \in Nat \ {0} /\ PerNew(n) \in Nat \ {0}
      /\ IsFiniteSet(n.elements) /\ m.key \in Int /\ m.ts \in Int
  <2>1. Things(n) \in Nat \ {0} /\ NumNew(n) \in Nat \ {0} /\ PerNew(n) \in Nat \ {0}
    BY SplitSizes
  <2>2. n.elements \in Buffer(now)
    BY DEF NodeOK
  <2> QED BY <2>1, <2>2, MessageFields
<1>2. B \subseteq n.elements \ {m}
  BY <1>1 DEF MsgLess
<1>3. i = Cardinality(B) \div PerNew(n)
  BY DEF LeafPart
<1> HIDE DEF i, B
<1>4. Cardinality(B) \in Nat /\ Cardinality(B) < Things(n)
  <2> DEFINE D == n.elements
  <2>1. IsFiniteSet(D \ {m}) /\ Cardinality(D \ {m}) = Cardinality(D) - 1 /\ Cardinality(D) \in Nat
    BY <1>1, FS_RemoveElement, FS_CardinalityType
  <2>2. Cardinality(B) \in Nat /\ Cardinality(B) <= Cardinality(D \ {m})
    BY <1>2, <2>1, FS_Subset, FS_CardinalityType
  <2>3. Cardinality(DOMAIN n.pivots) = 0
    BY FS_EmptySet DEF IsLeaf
  <2> QED BY <2>1, <2>2, <2>3 DEF Things
<1>5. i \in 0 .. NumNew(n) - 1
  <2> DEFINE x == Cardinality(B)
             t == Things(n)
             k == NumNew(n)
  <2>1. x \in Nat /\ x < t /\ t \in Nat \ {0} /\ k \in Nat \ {0} /\ PerNew(n) = (t + k - 1) \div k
        /\ i = x \div PerNew(n)
    BY <1>1, <1>3, <1>4 DEF PerNew
  <2> HIDE DEF x, t, k
  <2>2. x \div ((t + k - 1) \div k) <= k - 1
    BY <2>1, DivShares
  <2>3. i \in Nat
    BY <1>1, <2>1
  <2> QED BY <1>1, <2>1, <2>2, <2>3 DEF k
<1> DEFINE part == Part(n, i)
<1>6. part.pivots = EmptyMap /\ part.elements = {e \in n.elements : LeafPart(n, e) = i}
  BY PartOfLeaf
<1> HIDE DEF part
<1>7. m \in part.elements /\ part.elements \subseteq n.elements
  BY <1>6 DEF i
<1>8. Things(part) > 0
  <2>1. IsFiniteSet(part.elements) /\ DOMAIN part.pivots = {}
    BY <1>1, <1>6, <1>7, FS_Subset, EmptyMapFacts
  <2>2. Cardinality(part.elements) \in Nat \ {0} /\ Cardinality(DOMAIN part.pivots) = 0
    BY <1>7, <2>1, FS_CardinalityType, FS_EmptySet
  <2> QED BY <2>2 DEF Things
<1> QED BY <1>5, <1>7, <1>8 DEF Parts, part

\* Each message goes to some part, and each part is filed below what it holds.
LEMMA PartHolds ==
  ASSUME NEW n, NEW ids, NEW now, NodeOK(n, ids, now), n.elements # {} \/ ~IsLeaf(n), TidyNode(n)
  PROVE  /\ \A m \in n.elements : \E i \in Parts(n) : m \in Part(n, i).elements
         /\ \A i \in Parts(n) :
               LET part == Part(n, i)
               IN  /\ TidyNode(part) /\ part.elements \subseteq n.elements
                   /\ \A k \in KeysOf(part) : PartKey(part) <= k
                   /\ ~IsLeaf(n) => PartKey(part) \in DOMAIN part.pivots
<1>1. ASSUME NEW m \in n.elements PROVE \E i \in Parts(n) : m \in Part(n, i).elements
  <2>1. CASE IsLeaf(n)
    BY <2>1, LeafPlaced
  <2>2. CASE ~IsLeaf(n)
    <3>1. Owner(n, m) \in DOMAIN n.pivots
      BY <2>2, OwnerIn
    <3>2. PICK i \in Parts(n) : Owner(n, m) \in DOMAIN Part(n, i).pivots
      BY <2>2, <3>1, AllPlaced
    <3> DEFINE mine == {p \in DOMAIN n.pivots : PivotPart(n, p) = i}
               part == Part(n, i)
    <3>3. /\ part.pivots = [p \in mine |-> n.pivots[p]]
          /\ part.elements = {e \in n.elements : Owner(n, e) \in mine}
      BY <2>2, PartOfInner
    <3>4. Owner(n, m) \in DOMAIN part.pivots
      BY <3>2
    <3> HIDE DEF mine, part
    <3>5. m \in part.elements
      BY <3>3, <3>4
    <3> QED BY <3>2, <3>5 DEF part
  <2> QED BY <2>1, <2>2
<1>2. ASSUME NEW i \in Parts(n)
      PROVE  LET part == Part(n, i)
             IN  /\ TidyNode(part) /\ part.elements \subseteq n.elements
                 /\ \A k \in KeysOf(part) : PartKey(part) <= k
                 /\ ~IsLeaf(n) => PartKey(part) \in DOMAIN part.pivots
  <2> DEFINE part == Part(n, i)
  <2>1. /\ NodeOK(part, ids, now) /\ (IsLeaf(part) <=> IsLeaf(n))
        /\ DOMAIN part.pivots \subseteq DOMAIN n.pivots
    BY PartOK
  <2>2. PartKey(part) \in Settled(part) /\ \A k \in Settled(part) : PartKey(part) <= k
    BY PartKeys
  <2>3. CASE IsLeaf(n)
    <3>1. part.elements = {m \in n.elements : LeafPart(n, m) = i}
      BY <2>3, PartOfLeaf
    <3> HIDE DEF part
    <3>2. part.elements \subseteq n.elements
      BY <3>1
    <3>3. TidyNode(part)
      BY <2>1, <2>3, <3>2 DEF TidyNode, Orderly
    <3>4. KeysOf(part) = Settled(part)
      BY <2>1, <2>3 DEF KeysOf, Settled, IsLeaf
    <3> QED BY <2>2, <2>3, <3>2, <3>3, <3>4 DEF part
  <2>4. CASE ~IsLeaf(n)
    <3> DEFINE mine == {p \in DOMAIN n.pivots : PivotPart(n, p) = i}
    <3>1. /\ part.pivots = [p \in mine |-> n.pivots[p]]
          /\ part.elements = {e \in n.elements : Owner(n, e) \in mine}
      BY <2>4, PartOfInner
    <3> HIDE DEF part, mine
    <3>2. part.elements \subseteq n.elements
          /\ \A m \in part.elements : Owner(n, m) \in DOMAIN part.pivots
      BY <3>1
    <3>3. ASSUME NEW m \in part.elements
          PROVE  /\ m.key \in Int /\ Owner(n, m) \in Int /\ Owner(n, m) <= m.key
                 /\ Owner(n, m) \in DOMAIN part.pivots
      <4>1. m \in n.elements /\ m.key \in Int
        <5>1. n.elements \in Buffer(now)
          BY DEF NodeOK
        <5> QED BY <3>2, <5>1, MessageFields
      <4>2. FirstPivot(n) <= m.key /\ FirstPivot(n) \in Int
        BY <2>4, <4>1, PivotFacts DEF TidyNode
      <4>3. Owner(n, m) = GetPivot(n, m.key)
        BY <4>1, <4>2 DEF Owner
      <4>4. GetPivot(n, m.key) <= m.key
        BY <2>4, <4>1, <4>2, GetPivotIs
      <4>5. Owner(n, m) \in DOMAIN n.pivots
        BY <2>4, <4>1, OwnerIn
      <4>6. Owner(n, m) \in Int
        BY <2>4, <4>5, PivotFacts
      <4> QED BY <3>2, <4>1, <4>3, <4>4, <4>6
    <3>4. /\ FirstPivot(part) \in DOMAIN part.pivots
          /\ \A p \in DOMAIN part.pivots : p \in Int /\ FirstPivot(part) <= p
      BY <2>1, <2>4, PivotFacts
    <3>5. Settled(part) = DOMAIN part.pivots
      BY <2>1, <2>4 DEF Settled
    <3>6. ASSUME NEW m \in part.elements PROVE FirstPivot(part) <= m.key /\ PartKey(part) <= m.key
      <4>1. FirstPivot(part) <= Owner(n, m) /\ PartKey(part) <= Owner(n, m)
        BY <2>2, <3>3, <3>4, <3>5
      <4>2. FirstPivot(part) \in Int /\ PartKey(part) \in Int
        BY <2>2, <3>4, <3>5
      <4> QED BY <3>3, <4>1, <4>2
    <3>7. TidyNode(part)
      BY <2>1, <2>4, <3>2, <3>6 DEF TidyNode, Orderly
    <3>8. \A k \in KeysOf(part) : PartKey(part) <= k
      BY <2>2, <3>5, <3>6 DEF KeysOf
    <3> QED BY <2>2, <3>2, <3>5, <3>7, <3>8 DEF part
  <2> QED BY <2>3, <2>4
<1> QED BY <1>1, <1>2

\* u is w with the node id, which holds what n does, emptied into its parts.
SplitView(u, w, id, n) ==
    /\ id \in DOMAIN w
    /\ w[id] = [pivots |-> n.pivots, elements |-> n.elements, given |-> {}]
    /\ DOMAIN u = DOMAIN w \union {IdOf(i) : i \in Parts(n)}
    /\ u[id] = [pivots |-> SplitResult(n), elements |-> {}, given |-> {}]
    /\ \A i \in DOMAIN w : i # id => u[i] = w[i]
    /\ \A i \in Parts(n) : /\ u[IdOf(i)].pivots = Part(n, i).pivots
                           /\ u[IdOf(i)].elements = Part(n, i).elements
                           /\ u[IdOf(i)].given = {}

LEMMA PartedIs ==
  ASSUME NEW n, NEW ids, NEW now, NodeOK(n, ids, now), n.elements # {} \/ ~IsLeaf(n), TidyNode(n),
         next_id \in Nat, ids \subseteq 1 .. next_id - 1,
         NEW u, NEW w, NEW id, DOMAIN w = ids, SplitView(u, w, id, n)
  PROVE  Parted(u, w, id, SplitResult(n))
<1> DEFINE R == SplitResult(n)
           key(i) == PartKey(Part(n, i))
<1>1. /\ R # EmptyMap /\ DOMAIN R \subseteq Keys /\ R \in [DOMAIN R -> {IdOf(i) : i \in Parts(n)}]
      /\ \A p, q \in DOMAIN R : R[p] = R[q] => p = q
  BY SplitResultOK
<1>2. /\ \A a \in DOMAIN R : \E i \in Parts(n) : a = key(i)
      /\ \A i \in Parts(n) : key(i) \in DOMAIN R /\ R[key(i)] = IdOf(i)
      /\ \A i, j \in Parts(n) : key(i) < key(j) => i < j
  BY SplitKeys
<1>3. /\ \A m \in n.elements : \E i \in Parts(n) : m \in Part(n, i).elements
      /\ \A i \in Parts(n) : /\ Part(n, i).elements \subseteq n.elements
                             /\ \A k \in KeysOf(Part(n, i)) : key(i) <= k
                             /\ ~IsLeaf(n) => key(i) \in DOMAIN Part(n, i).pivots
  BY PartHolds
<1>4. \A i \in Parts(n) : i \in Nat
  BY SplitSizes DEF Parts
<1>5. \A i \in Parts(n) : IdOf(i) \notin ids
  BY <1>4 DEF IdOf
<1>6. \A i, j \in Parts(n) : i < j => \A k \in KeysOf(Part(n, i)) : k < key(j)
  <2>1. \A j \in Parts(n) : key(j) \in Settled(Part(n, j))
    BY PartKeys
  <2>2. \A i, j \in Parts(n) : i < j =>
           \A k \in KeysOf(Part(n, i)) : \A l \in Settled(Part(n, j)) : k < l
    BY PartsOrdered
  <2> QED BY <2>1, <2>2
<1>7. \A i \in Parts(n) : /\ DOMAIN Part(n, i).pivots \subseteq DOMAIN n.pivots
                          /\ \A p \in DOMAIN Part(n, i).pivots :
                                Part(n, i).pivots[p] = n.pivots[p]
                          /\ Part(n, i).pivots \in [DOMAIN Part(n, i).pivots -> ids]
  <2>1. \A i \in Parts(n) : NodeOK(Part(n, i), ids, now)
    BY PartOK
  <2>2. \A i \in Parts(n) : \A p \in DOMAIN Part(n, i).pivots :
           p \in DOMAIN n.pivots /\ Part(n, i).pivots[p] = n.pivots[p]
    BY PartOK
  <2> QED BY <2>1, <2>2 DEF NodeOK
<1> HIDE DEF R, key
<1>0. \A i \in Parts(n) : /\ u[R[key(i)]].pivots = Part(n, i).pivots
                          /\ u[R[key(i)]].elements = Part(n, i).elements
                          /\ u[R[key(i)]].given = {}
  BY <1>2 DEF SplitView
<1>8. ASSUME NEW i \in Parts(n), NEW k \in KeysOf(Part(n, i))
      PROVE  InRange(u[id], key(i), k)
  <2>1. u[id].pivots = R
    BY DEF SplitView, R
  <2>2. ASSUME NEW b \in DOMAIN R, key(i) < b PROVE k < b
    <3>1. PICK j \in Parts(n) : b = key(j)
      BY <1>2
    <3> QED BY <1>2, <1>6, <1>8, <2>2, <3>1
  <2>3. \A b \in NextPivots(u[id], key(i)) : b \in DOMAIN R /\ key(i) < b
    <3>1. key(i) \in Int /\ DOMAIN R \subseteq Int
      BY <1>1, <1>2, KeysAssumption
    <3> QED BY <2>1, <3>1 DEF NextPivots
  <2> QED BY <1>3, <1>8, <2>2, <2>3 DEF InRange
<1>9. ASSUME NEW a \in DOMAIN R
      PROVE  /\ R[a] \in DOMAIN u /\ R[a] \notin DOMAIN w
             /\ LET part == u[R[a]]
                IN  /\ part.given = {} /\ part.elements \subseteq n.elements
                    /\ \A p \in DOMAIN part.pivots : /\ p \in DOMAIN n.pivots
                                                     /\ part.pivots[p] = n.pivots[p]
                                                     /\ InRange(u[id], a, p)
                    /\ part.pivots \in [DOMAIN part.pivots -> DOMAIN u]
                    /\ \A m \in part.elements : InRange(u[id], a, m.key)
                    /\ ~IsLeaf(n) => a \in DOMAIN part.pivots
  <2>1. PICK i \in Parts(n) : a = key(i)
    BY <1>2
  <2>2. R[a] = IdOf(i)
    BY <1>2, <2>1
  <2>3. R[a] \in DOMAIN u /\ R[a] \notin DOMAIN w
    BY <1>5, <2>2 DEF SplitView
  <2> DEFINE part == u[R[a]]
             g == Part(n, i)
  <2>4. part.given = {} /\ part.elements = g.elements /\ part.pivots = g.pivots
    BY <1>0, <2>1
  <2>5. /\ g.elements \subseteq n.elements /\ DOMAIN g.pivots \subseteq DOMAIN n.pivots
        /\ \A p \in DOMAIN g.pivots : g.pivots[p] = n.pivots[p]
        /\ g.pivots \in [DOMAIN g.pivots -> ids]
        /\ ~IsLeaf(n) => a \in DOMAIN g.pivots
        /\ \A k \in KeysOf(g) : InRange(u[id], a, k)
    BY <1>3, <1>7, <1>8, <2>1
  <2> HIDE DEF part, g
  <2>6. (\A p \in DOMAIN g.pivots : p \in KeysOf(g)) /\ \A m \in g.elements : m.key \in KeysOf(g)
    BY DEF KeysOf
  <2>7. part.pivots \in [DOMAIN part.pivots -> DOMAIN u]
    <3>1. ids \subseteq DOMAIN u
      BY DEF SplitView
    <3> QED BY <2>4, <2>5, <3>1
  <2> QED BY <2>3, <2>4, <2>5, <2>6, <2>7 DEF part
<1>10. \A m \in n.elements : \E a \in DOMAIN R : m \in u[R[a]].elements
  <2>1. ASSUME NEW m \in n.elements PROVE \E a \in DOMAIN R : m \in u[R[a]].elements
    <3>1. PICK i \in Parts(n) : m \in Part(n, i).elements
      BY <1>3
    <3>2. u[R[key(i)]].elements = Part(n, i).elements /\ key(i) \in DOMAIN R
      BY <1>0, <1>2
    <3> QED BY <3>1, <3>2
  <2> QED BY <2>1
<1>11. \A p \in DOMAIN n.pivots : \E a \in DOMAIN R : p \in DOMAIN u[R[a]].pivots
  <2>1. ASSUME NEW p \in DOMAIN n.pivots PROVE \E a \in DOMAIN R : p \in DOMAIN u[R[a]].pivots
    <3>1. PICK i \in Parts(n) : p \in DOMAIN Part(n, i).pivots
      BY AllPlaced DEF IsLeaf
    <3>2. u[R[key(i)]].pivots = Part(n, i).pivots /\ key(i) \in DOMAIN R
      BY <1>0, <1>2
    <3> QED BY <3>1, <3>2
  <2> QED BY <2>1
<1>12. \A i \in DOMAIN u : i \in DOMAIN w \/ \E a \in DOMAIN R : i = R[a]
  BY <1>2 DEF SplitView
<1>13. /\ w[id].given = {} /\ w[id].elements = n.elements /\ w[id].pivots = n.pivots
       /\ u[id].pivots = R /\ u[id].elements = {} /\ u[id].given = {} /\ id \in DOMAIN w
       /\ DOMAIN w \subseteq DOMAIN u /\ \A i \in DOMAIN w : i # id => u[i] = w[i]
  BY DEF SplitView, R
<1>14. IsLeaf(w[id]) <=> IsLeaf(n)
  BY <1>13 DEF IsLeaf
<1>15. R \in [DOMAIN R -> DOMAIN u] /\ DOMAIN R \subseteq Keys
       /\ \A a, b \in DOMAIN R : R[a] = R[b] => a = b
  BY <1>1, <1>9
<1> SUFFICES Parted(u, w, id, R)
  BY DEF R
<1> QED BY <1>9, <1>10, <1>11, <1>12, <1>13, <1>14, <1>15 DEF Parted

-----------------------------------------------------------------------------
(* The steps. *)

\* A view is what its nodes are.
LEMMA ViewFields ==
  ASSUME NEW st, NEW nodes, NEW parts, NEW gone
  PROVE  LET u == ViewOf(st, nodes, parts, gone)
         IN  \A id \in DOMAIN nodes : u[id] = [pivots |-> u[id].pivots, elements |-> u[id].elements,
                                               given |-> u[id].given]
BY DEF ViewOf

LEMMA ViewSame ==
  ASSUME NEW w, NEW u, DOMAIN u = DOMAIN w, \A id \in DOMAIN w : u[id] = w[id]
  PROVE  \A t, v, now : ViewOK(t, v, w, now) => ViewOK(t, v, u, now)
BY DEF ViewOK, ViewTypes

LEMMA ValuedSame ==
  ASSUME NEW w, NEW u, DOMAIN u = DOMAIN w, \A id \in DOMAIN w : u[id] = w[id],
         NEW now, NEW top, NEW ref, Valued(w, now, top, ref)
  PROVE  Valued(u, now, top, ref)
BY ViewSame DEF Valued

\* There is no query while an upsert runs.
LEMMA FlushFinds ==
  ASSUME OInv', TidyStack(stack', node', call'), call' = "upsert"
  PROVE  FoundOK'
<1>1. SUFFICES ASSUME stack' # << >>, Last(stack').fn = "query" PROVE FALSE
  BY DEF FoundOK, Running, Top
<1>2. FramesOK(stack', node', root', returned', call', next_timestamp')
  BY DEF OInv, IInv
<1>3. Len(stack') \in Nat \ {0} /\ Last(stack') = stack'[Len(stack')]
  BY <1>1, <1>2, FrontAndLast DEF FramesOK
<1>4. TidyFrame(stack'[Len(stack')], node', call')
  BY <1>3 DEF TidyStack
<1> QED BY <1>1, <1>3, <1>4 DEF TidyFrame

\* What the running activation leaves when it ends: n holds what its node comes to.
Leaves(w, n) ==
    /\ DOMAIN w = DOMAIN View
    /\ w[Top.id] = [pivots |-> n.pivots, elements |-> n.elements, given |-> {}]
    /\ \A id \in DOMAIN View : id # Top.id => w[id] = View[id]

\* The activation ends or goes on with n in its node, and splits nothing.
LEMMA StayContents ==
  ASSUME CInv, stack # << >>, Top.fn = "flush", returned = EmptyMap, OInv',
         NEW n, TidyNode(n), DOMAIN node' = DOMAIN node, node'[Top.id] = n,
         \A id \in DOMAIN node : id # Top.id => node'[id] = node[id],
         returned' = EmptyMap, UNCHANGED <<root, next_timestamp, call, reference>>,
         \/ stack' = Front(stack)
         \/ \E pc \in {"loop", "end", "adopt"} : stack' = At(pc, 0),
         NEW w, Leaves(w, n), Valued(w, next_timestamp, root, reference)
  PROVE  CInv'
<1> DEFINE gone == Emptied(stack', node', root', returned')
           u    == View'
<1>1. /\ OInv /\ IInv /\ TidyStack(stack, node, call) /\ \A id \in DOMAIN node : TidyNode(node[id])
      /\ returned = EmptyMap /\ call = "upsert"
  <2>1. OInv /\ IInv /\ TidyStack(stack, node, call) /\ \A id \in DOMAIN node : TidyNode(node[id])
    BY DEF CInv, OInv
  <2> QED BY <2>1, TopFacts
<1>2. /\ Len(stack) \in Nat \ {0} /\ Top.id \in DOMAIN node
      /\ \A i \in 1 .. Len(stack) - 1 : stack[i].id \in DOMAIN node /\ stack[i].id # Top.id
  BY <1>1, TopFacts DEF FrameOK
<1>3. /\ DOMAIN View = DOMAIN node
      /\ \A id \in DOMAIN node : /\ View[id].pivots = node[id].pivots
                                 /\ id # Top.id => View[id].given = {}
  <2>1. Emptied(stack, node, root, returned) = {}
    BY <1>1 DEF Emptied
  <2> QED BY <1>1, <2>1, ViewTop
<1>4. /\ DOMAIN u = DOMAIN node'
      /\ \A id \in DOMAIN node' :
            /\ u[id] = [pivots |-> u[id].pivots, elements |-> u[id].elements, given |-> {}]
            /\ u[id].pivots = IF id \in gone THEN returned' ELSE node'[id].pivots
            /\ id = Top.id \/ id \notin DOMAIN node => u[id].elements = node'[id].elements
            /\ id \in DOMAIN node /\ id # Top.id /\ node'[id] = node[id] =>
                  u[id].elements = View[id].elements
  <2>1. Stays(ViewOf(stack', node', returned', gone), node', returned', gone)
    BY <1>1, ViewStay
  <2>2. u = ViewOf(stack', node', returned', gone)
    BY DEF View
  <2> HIDE DEF u
  <2> QED BY <2>1, <2>2 DEF Stays
<1>5. TidyStack(stack', node', call')
  <2>1. \A i \in 1 .. Len(stack) - 1 : node'[stack[i].id] = node[stack[i].id]
    BY <1>2
  <2>2. TidyStack(stack', node', call)
    BY <1>1, <2>1, TidyStay
  <2> QED BY <2>2
<1>6. FoundOK'
  BY <1>1, <1>5, FlushFinds
<1>7. gone = {}
  BY DEF Emptied
<1> HIDE DEF gone, u
<1>8. \A id \in DOMAIN node' : TidyNode(node'[id])
  BY <1>1
<1>9. DOMAIN u = DOMAIN w /\ \A id \in DOMAIN w : u[id] = w[id]
  <2>1. ASSUME NEW id \in DOMAIN node PROVE u[id] = w[id]
    <3>1. CASE id = Top.id
      <4>1. u[id].pivots = n.pivots /\ u[id].elements = n.elements
        BY <1>4, <1>7, <3>1
      <4> QED BY <1>4, <3>1, <4>1 DEF Leaves
    <3>2. CASE id # Top.id
      <4>1. u[id].pivots = View[id].pivots /\ u[id].elements = View[id].elements
        BY <1>3, <1>4, <1>7, <3>2
      <4>2. View[id] = [pivots |-> View[id].pivots, elements |-> View[id].elements,
                        given |-> View[id].given]
        BY ViewFields DEF View
      <4>3. View[id].given = {} /\ w[id] = View[id]
        BY <1>3, <3>2 DEF Leaves
      <4>4. u[id] = [pivots |-> u[id].pivots, elements |-> u[id].elements, given |-> {}]
        BY <1>4
      <4> QED BY <4>1, <4>2, <4>3, <4>4
    <3> QED BY <3>1, <3>2
  <2> QED BY <1>3, <1>4, <2>1 DEF Leaves
<1>10. Valued(u, next_timestamp, root, reference)
  BY <1>9, ValuedSame
<1> QED BY <1>5, <1>6, <1>7, <1>8, <1>10 DEF CInv, gone, u

\* The activation ends, and may split its node.
LEMMA FinishContents ==
  ASSUME CInv, stack # << >>, Top.fn = "flush", Top.pc \in {"enter", "loop", "end"}, OInv',
         NEW n, NodeOK(n, DOMAIN node, next_timestamp), TidyNode(n),
         NEW splits \in BOOLEAN, splits => n.elements # {} \/ ~IsLeaf(n), Finish(n, splits),
         NEW w, Leaves(w, n), Valued(w, next_timestamp, root, reference)
  PROVE  CInv'
<1> DEFINE gone  == Emptied(stack', node', root', returned')
           parts == SplitResult(n)
           new   == {IdOf(j) : j \in Parts(n)}
           shell == [n EXCEPT !.pivots = EmptyMap, !.elements = {}]
           u     == View'
<1>1. /\ OInv /\ IInv /\ TidyStack(stack, node, call) /\ \A id \in DOMAIN node : TidyNode(node[id])
      /\ returned = EmptyMap /\ call = "upsert"
  <2>1. OInv /\ IInv /\ TidyStack(stack, node, call) /\ \A id \in DOMAIN node : TidyNode(node[id])
    BY DEF CInv, OInv
  <2> QED BY <2>1, TopFacts
<1>2. /\ UNCHANGED <<root, next_timestamp, call, reference>> /\ stack' = Front(stack)
  BY DEF Finish, Return
<1>3. /\ Len(stack) \in Nat \ {0} /\ Top = stack[Len(stack)] /\ Top.id \in DOMAIN node
      /\ \A i \in 1 .. Len(stack) - 1 : stack[i].id \in DOMAIN node /\ stack[i].id # Top.id
  BY <1>1, TopFacts DEF FrameOK
<1>4. /\ DOMAIN View = DOMAIN node
      /\ \A id \in DOMAIN node : /\ View[id].pivots = node[id].pivots
                                 /\ id # Top.id => View[id].given = {}
  <2>1. Emptied(stack, node, root, returned) = {}
    BY <1>1 DEF Emptied
  <2> QED BY <1>1, <2>1, ViewTop
<1>5. /\ next_id \in Nat /\ next_timestamp \in Nat \ {0} /\ DOMAIN node \subseteq 1 .. next_id - 1
      /\ FramesOK(stack, node, root, returned, call, next_timestamp)
  BY <1>1 DEF IInv, NodesOK
<1>6. /\ DOMAIN u = DOMAIN node'
      /\ \A id \in DOMAIN node' :
            /\ u[id] = [pivots |-> u[id].pivots, elements |-> u[id].elements, given |-> {}]
            /\ u[id].pivots = IF id \in gone THEN returned' ELSE node'[id].pivots
            /\ id = Top.id \/ id \notin DOMAIN node => u[id].elements = node'[id].elements
            /\ id \in DOMAIN node /\ id # Top.id /\ node'[id] = node[id] =>
                  u[id].elements = View[id].elements
  <2>1. Stays(ViewOf(stack', node', returned', gone), node', returned', gone)
    BY <1>1, <1>2, ViewStay
  <2>2. u = ViewOf(stack', node', returned', gone)
    BY DEF View
  <2> HIDE DEF u
  <2> QED BY <2>1, <2>2 DEF Stays
<1>7. /\ Top.id \in DOMAIN node' /\ DOMAIN node \subseteq DOMAIN node'
      /\ \A id \in DOMAIN node : id # Top.id => node'[id] = node[id]
      /\ ~splits => returned' = EmptyMap /\ DOMAIN node' = DOMAIN node /\ node'[Top.id] = n
      /\ splits => /\ returned' = parts /\ DOMAIN node' = DOMAIN node \union new
                   /\ node'[Top.id] = shell
                   /\ \A id \in DOMAIN node' : id \notin DOMAIN node =>
                         node'[id] = Part(n, id - next_id)
  <2>1. CASE splits
    <3>1. /\ returned' = parts
          /\ node' = [i \in DOMAIN node \union new |->
                       IF i = Top.id THEN shell
                       ELSE IF i \in DOMAIN node THEN node[i] ELSE Part(n, i - next_id)]
      BY <2>1 DEF Finish, Return
    <3> HIDE DEF parts, shell, new
    <3> QED BY <1>3, <2>1, <3>1
  <2>2. CASE ~splits
    <3>1. returned' = EmptyMap /\ node' = [node EXCEPT ![Top.id] = n]
      BY <2>2 DEF Finish
    <3> QED BY <1>3, <2>2, <3>1
  <2> QED BY <2>1, <2>2
<1>8. TidyStack(stack', node', call')
  <2>1. \A i \in 1 .. Len(stack) - 1 : node'[stack[i].id] = node[stack[i].id]
    BY <1>3, <1>7
  <2>2. TidyStack(stack', node', call)
    BY <1>1, <1>2, <2>1, TidyStay
  <2> QED BY <1>2, <2>2
<1>9. FoundOK'
  BY <1>1, <1>2, <1>8, FlushFinds
<1> HIDE DEF gone, u
<1>10. CASE ~splits
  <2>1. returned' = EmptyMap /\ DOMAIN node' = DOMAIN node /\ node'[Top.id] = n
    BY <1>7, <1>10
  <2> QED BY <1>1, <1>2, <1>7, <2>1, StayContents
<1>11. CASE splits
  <2>0. n.elements # {} \/ ~IsLeaf(n)
    BY <1>11
  <2>1. parts # EmptyMap
    BY <1>5, <2>0, SplitResultOK
  <2>2. gone = {Top.id}
    <3>1. \A i \in 1 .. Len(stack) - 1 : /\ stack[i].id \in DOMAIN node'
                                         /\ node'[stack[i].id].pivots = node[stack[i].id].pivots
      BY <1>3, <1>7
    <3>2. stack[Len(stack)].fn = "flush" /\ stack[Len(stack)].id = Top.id
      BY <1>3
    <3>3. FramesOK(stack, node, root, returned, call, next_timestamp)
      BY <1>5
    <3> HIDE DEF parts
    <3>4. Emptied(Front(stack), node', root, parts) = {stack[Len(stack)].id}
      BY <2>1, <3>1, <3>2, <3>3, EmptiedReturn
    <3> QED BY <1>2, <1>7, <1>11, <3>2, <3>4 DEF gone
  <2>3. shell.pivots = EmptyMap /\ shell.elements = {}
    BY DEF NodeOK
  <2>4. \A j \in Parts(n) : /\ IdOf(j) \in DOMAIN node' /\ IdOf(j) \notin DOMAIN node
                            /\ node'[IdOf(j)] = Part(n, j)
    <3>1. \A j \in Parts(n) : j \in Nat
      BY <2>0, SplitSizes DEF Parts
    <3>2. ASSUME NEW j \in Parts(n)
          PROVE  /\ IdOf(j) \in DOMAIN node' /\ IdOf(j) \notin DOMAIN node
                 /\ node'[IdOf(j)] = Part(n, j)
      <4>1. IdOf(j) \in DOMAIN node' /\ IdOf(j) \notin DOMAIN node
        BY <1>5, <1>7, <1>11, <3>1 DEF IdOf
      <4>2. IdOf(j) - next_id = j
        BY <1>5, <3>1 DEF IdOf
      <4> QED BY <1>7, <1>11, <4>1, <4>2
    <3> QED BY <3>2
  <2>5. \A id \in DOMAIN node' : TidyNode(node'[id])
    <3>1. \A j \in Parts(n) : TidyNode(Part(n, j))
      BY <2>0, PartHolds
    <3>2. TidyNode(shell)
      BY <2>3, EmptyMapFacts DEF TidyNode, Orderly, IsLeaf
    <3> HIDE DEF shell
    <3>3. \A id \in DOMAIN node' : id \in DOMAIN node \/ \E j \in Parts(n) : id = IdOf(j)
      BY <1>7, <1>11
    <3> QED BY <1>1, <1>7, <1>11, <2>4, <3>1, <3>2, <3>3
  <2> HIDE DEF shell
  <2>6. \A id \in gone : node'[id].elements = {}
    BY <1>7, <1>11, <2>2, <2>3
  <2>7. SplitView(u, w, Top.id, n)
    <3>1. u[Top.id] = [pivots |-> parts, elements |-> {}, given |-> {}]
      <4> DEFINE i == Top.id
      <4>1. /\ u[i] = [pivots |-> u[i].pivots, elements |-> u[i].elements, given |-> {}]
            /\ u[i].pivots = returned' /\ u[i].elements = node'[i].elements
        BY <1>6, <1>7, <2>2
      <4>2. returned' = parts /\ node'[i].elements = {}
        BY <1>7, <1>11, <2>3
      <4> QED BY <4>1, <4>2
    <3>2. ASSUME NEW id \in DOMAIN node, id # Top.id PROVE u[id] = w[id]
      <4>1. u[id].pivots = View[id].pivots /\ u[id].elements = View[id].elements
        BY <1>4, <1>6, <1>7, <2>2, <3>2
      <4>2. View[id] = [pivots |-> View[id].pivots, elements |-> View[id].elements,
                        given |-> View[id].given]
        BY ViewFields DEF View
      <4>3. View[id].given = {} /\ w[id] = View[id]
        BY <1>4, <3>2 DEF Leaves
      <4>4. u[id] = [pivots |-> u[id].pivots, elements |-> u[id].elements, given |-> {}]
        BY <1>6, <1>7
      <4> QED BY <4>1, <4>2, <4>3, <4>4
    <3>3. ASSUME NEW j \in Parts(n)
          PROVE  /\ u[IdOf(j)].pivots = Part(n, j).pivots
                 /\ u[IdOf(j)].elements = Part(n, j).elements
                 /\ u[IdOf(j)].given = {}
      <4> DEFINE i == IdOf(j)
      <4>1. i \in DOMAIN node' /\ i \notin DOMAIN node /\ node'[i] = Part(n, j) /\ i # Top.id
        BY <1>3, <2>4
      <4> HIDE DEF i
      <4>2. /\ u[i] = [pivots |-> u[i].pivots, elements |-> u[i].elements, given |-> {}]
            /\ u[i].pivots = IF i \in gone THEN returned' ELSE node'[i].pivots
            /\ u[i].elements = node'[i].elements
        BY <1>6, <4>1
      <4> QED BY <2>2, <4>1, <4>2 DEF i
    <3>4. DOMAIN w = DOMAIN node /\ DOMAIN u = DOMAIN node \union new
      BY <1>4, <1>6, <1>7, <1>11 DEF Leaves
    <3> QED BY <1>3, <3>1, <3>2, <3>3, <3>4 DEF SplitView, Leaves
  <2>8. Parted(u, w, Top.id, parts)
    <3> DEFINE ids == DOMAIN node
               top == Top.id
    <3>1. /\ NodeOK(n, ids, next_timestamp) /\ ids \subseteq 1 .. next_id - 1 /\ DOMAIN w = ids
          /\ SplitView(u, w, top, n) /\ next_id \in Nat
      BY <1>4, <1>5, <2>7 DEF Leaves
    <3> HIDE DEF ids, top
    <3>2. Parted(u, w, top, SplitResult(n))
      BY <2>0, <3>1, PartedIs
    <3> QED BY <3>2 DEF top
  <2>9. Valued(u, next_timestamp, root, reference)
    <3>1. PICK t, v : ViewOK(t, v, w, next_timestamp) /\ v[root] = reference
      BY DEF Valued
    <3>2. PICK s, x : ViewOK(s, x, u, next_timestamp) /\ \A i \in DOMAIN w : x[i] = v[i]
      <4> DEFINE now == next_timestamp
                 top == Top.id
      <4>1. now \in Nat /\ 0 < now /\ ViewOK(t, v, w, now) /\ Parted(u, w, top, parts)
        BY <1>5, <2>8, <3>1
      <4> HIDE DEF now, top, parts
      <4>2. \E s, x : ViewOK(s, x, u, now) /\ \A i \in DOMAIN w : x[i] = v[i]
        BY <4>1, ViewSplit
      <4> QED BY <4>2 DEF now
    <3>3. root \in DOMAIN w
      BY <1>1, <1>4 DEF Leaves, IInv, NodesOK
    <3> QED BY <3>1, <3>2, <3>3 DEF Valued
  <2> QED BY <1>2, <1>8, <1>9, <2>5, <2>6, <2>9 DEF CInv, gone, u
<1> QED BY <1>10, <1>11

\* A leaf takes the messages and may be split.
LEMMA FlushLeafContents ==
  ASSUME CInv, FlushLeaf
  PROVE  CInv'
<1> DEFINE es      == ApplyAll(Current.elements, Top.arg, TRUE)
           applied == [Current EXCEPT !.elements = ApplyAll(@, Top.arg, TRUE)]
           splits  == Cardinality(applied.elements) >= MaxMessages
           m       == [pivots |-> applied.pivots, elements |-> applied.elements, given |-> {}]
           w       == [View EXCEPT ![Top.id] = m]
           now     == next_timestamp
<1>1. stack # << >> /\ Top.fn = "flush" /\ Top.pc = "enter" /\ IsLeaf(Current)
      /\ Finish(applied, splits) /\ OInv /\ IInv
  BY DEF FlushLeaf, Running, CInv, OInv
<1>2. /\ Top \in Flushes(now) \union Queries /\ Top.id \in DOMAIN node
      /\ NodeOK(Current, DOMAIN node, now)
      /\ Top.id \in PinnedBy(stack) /\ PinnedBy(stack) \subseteq Cache!Resident(cache)
  <2>1. Top.id \in PinnedBy(stack)
    BY <1>1, TopFacts DEF PinnedBy
  <2> QED BY <1>1, <2>1, TopFacts DEF FrameOK
<1>3. /\ Current.elements \in Buffer(now) /\ Inserts(Current.elements)
      /\ Top.arg \in Buffer(now)
  BY <1>1, <1>2 DEF NodeOK, Flushes, Queries
<1>4. es \in Buffer(now) /\ Inserts(es)
  <2> DEFINE leaf == TRUE
             old  == Current.elements
             sent == Top.arg
  <2>1. leaf \in BOOLEAN /\ old \in Buffer(now) /\ sent \in Buffer(now) /\ (leaf => Inserts(old))
    BY <1>3
  <2>2. leaf
    OBVIOUS
  <2> HIDE DEF leaf, old, sent, now
  <2>3. /\ ApplyAll(old, sent, leaf) \in Buffer(now)
        /\ leaf => Inserts(ApplyAll(old, sent, leaf))
    BY <2>1, ApplyAllKeeps
  <2> QED BY <2>2, <2>3 DEF leaf, old, sent
<1>5. applied = [Current EXCEPT !.elements = es]
  OBVIOUS
<1> HIDE DEF es, applied
<1>6. /\ NodeOK(applied, DOMAIN node, now)
      /\ applied.pivots = Current.pivots /\ applied.elements = es
  BY <1>2, <1>4, <1>5, ElementsOK
<1>7. ASSUME splits PROVE applied.elements # {}
  <2>1. SUFFICES ASSUME applied.elements = {} PROVE FALSE
    OBVIOUS
  <2>2. Cardinality(applied.elements) = 0
    BY <2>1, FS_EmptySet
  <2>3. cache.members[Top.id].max_pivots \in 0 .. NodeSize - 1
    BY <1>1, <1>2 DEF IInv, CacheOK
  <2> QED BY <1>7, <2>2, <2>3, SizeAssumption DEF MaxMessages, MaxPivots
<1>8. splits \in BOOLEAN
  OBVIOUS
<1>9. /\ DOMAIN View = DOMAIN node
      /\ View[Top.id].pivots = Current.pivots /\ View[Top.id].elements = Current.elements
      /\ View[Top.id].given = Top.arg
  BY <1>1, ViewTop
<1>10. Only(w, View, Top.id, m)
  BY <1>2, <1>9 DEF Only, View, ViewOf
<1>11. /\ m.pivots = Current.pivots /\ m.elements = es /\ m.given = {}
       /\ IsLeaf(View[Top.id])
  BY <1>1, <1>6, <1>9 DEF IsLeaf
<1> HIDE DEF m, w, splits
<1>12. Moves(m, View[Top.id]) /\ DOMAIN m.pivots \subseteq Keys
       /\ m.pivots \in [DOMAIN m.pivots -> DOMAIN View]
  <2>1. DOMAIN m.pivots \subseteq Keys /\ m.pivots \in [DOMAIN m.pivots -> DOMAIN View]
    BY <1>2, <1>9, <1>11 DEF NodeOK
  <2>2. DOMAIN View[Top.id].pivots \subseteq Int /\ m.pivots = View[Top.id].pivots
    BY <1>9, <1>11, <2>1, KeysAssumption
  <2> QED BY <2>1, <2>2, MovesNothing
<1>13. PICK t, v : ViewOK(t, v, View, now) /\ v[root] = reference
  BY DEF CInv, Valued
<1>14. ViewOK(t, v, w, now) /\ Orderly(m.elements)
  <2> DEFINE leaf == TRUE
             id   == Top.id
  <2>1. /\ leaf \in BOOLEAN /\ (leaf <=> IsLeaf(View[id])) /\ (leaf => Inserts(View[id].elements))
        /\ m.elements = ApplyAll(View[id].elements, View[id].given, leaf) /\ m.given = {}
    BY <1>3, <1>9, <1>11 DEF es
  <2>2. /\ ViewOK(t, v, View, now) /\ Only(w, View, id, m) /\ Moves(m, View[id])
        /\ DOMAIN m.pivots \subseteq Keys /\ m.pivots \in [DOMAIN m.pivots -> DOMAIN View]
    BY <1>10, <1>12, <1>13
  <2> HIDE DEF leaf, id, now
  <2> QED BY <2>1, <2>2, ViewApply
<1>15. Valued(w, now, root, reference)
  BY <1>13, <1>14 DEF Valued
<1>16. TidyNode(applied) /\ Leaves(w, applied)
  BY <1>1, <1>6, <1>10, <1>11, <1>14 DEF TidyNode, Leaves, Only, IsLeaf, m
<1>17. OInv'
  BY <1>1, FlushLeafOrder
<1> QED BY <1>1, <1>6, <1>7, <1>8, <1>15, <1>16, <1>17, FinishContents

\* The end of a flush() that has applied all it was given.
LEMMA DoneContents ==
  ASSUME CInv, stack # << >>, Top.fn = "flush", Top.pc \in {"loop", "end"}, OInv',
         NEW splits \in BOOLEAN, splits => ~IsLeaf(Current), Finish(Current, splits)
  PROVE  CInv'
<1>1. OInv /\ IInv
  BY DEF CInv, OInv
<1>2. /\ NodeOK(Current, DOMAIN node, next_timestamp) /\ Top.id \in DOMAIN node
  BY <1>1, TopFacts DEF FrameOK
<1>3. TidyNode(Current)
  BY <1>2 DEF CInv, Current
<1>4. Leaves(View, Current)
  BY <1>1, ViewTop DEF Leaves
<1>5. Valued(View, next_timestamp, root, reference)
  BY DEF CInv
<1>6. splits => Current.elements # {} \/ ~IsLeaf(Current)
  OBVIOUS
<1>7. Top.pc \in {"enter", "loop", "end"}
  OBVIOUS
<1> QED BY <1>2, <1>3, <1>4, <1>5, <1>6, <1>7, FinishContents

LEMMA FlushDoneContents ==
  ASSUME CInv, FlushDone
  PROVE  CInv'
<1> DEFINE splits == Cardinality(DOMAIN Current.pivots) > MaxPivots
<1>1. /\ stack # << >> /\ Top.fn = "flush" /\ Top.pc = "loop" /\ OInv /\ IInv
      /\ Finish(Current, splits)
  BY DEF FlushDone, Running, CInv, OInv
<1>2. ~IsLeaf(Current)
  BY <1>1, TopFacts DEF FrameOK, Current
<1>3. OInv'
  BY <1>1, FlushDoneOrder
<1>4. splits \in BOOLEAN
  OBVIOUS
<1> HIDE DEF splits
<1> QED BY <1>1, <1>2, <1>3, <1>4, DoneContents

LEMMA DirectDoneContents ==
  ASSUME CInv, DirectDone
  PROVE  CInv'
<1>1. /\ stack # << >> /\ Top.fn = "flush" /\ Top.pc = "end" /\ OInv
      /\ Finish(Current, FALSE)
  BY DEF DirectDone, Running, CInv, OInv
<1>2. OInv'
  BY <1>1, DirectDoneOrder
<1> DEFINE splits == FALSE
<1>3. splits \in BOOLEAN /\ ~splits /\ Finish(Current, splits)
  BY <1>1
<1> HIDE DEF splits
<1> QED BY <1>1, <1>2, <1>3, DoneContents

\* The first pivot of a node is not raised when pivots move.
LEMMA MovesFirst ==
  ASSUME NEW m, NEW n, Moves(m, n), DOMAIN m.pivots \subseteq Keys, DOMAIN n.pivots \subseteq Keys,
         ~IsLeaf(n)
  PROVE  ~IsLeaf(m) /\ FirstPivot(m) \in Int /\ FirstPivot(n) \in Int
         /\ FirstPivot(m) <= FirstPivot(n)
<1>1. FirstPivot(n) \in DOMAIN n.pivots
  BY RangeIs
<1>2. PICK o \in [DOMAIN m.pivots -> DOMAIN n.pivots] :
         /\ \A p \in DOMAIN m.pivots : p <= o[p]
         /\ \A q \in DOMAIN n.pivots : \E p \in DOMAIN m.pivots : o[p] = q
  BY DEF Moves
<1>3. PICK p \in DOMAIN m.pivots : p <= FirstPivot(n)
  BY <1>1, <1>2
<1>4. ~IsLeaf(m)
  BY <1>3 DEF IsLeaf
<1>5. FirstPivot(m) \in DOMAIN m.pivots /\ FirstPivot(m) <= p
  BY <1>3, <1>4, RangeIs
<1>6. \A k \in Keys : k \in Int
  BY KeysAssumption
<1>7. FirstPivot(m) \in Int /\ p \in Int /\ FirstPivot(n) \in Int
  BY <1>1, <1>3, <1>5, <1>6
<1>8. \A a, b, c \in Int : a <= b /\ b <= c => a <= c
  OBVIOUS
<1>9. FirstPivot(m) <= FirstPivot(n)
  BY <1>3, <1>5, <1>7, <1>8
<1> QED BY <1>4, <1>7, <1>9

\* An inner node buffers the messages.
LEMMA FlushBufferContents ==
  ASSUME CInv, FlushBuffer
  PROVE  CInv'
<1> DEFINE n    == Rekeyed(Current, Top.arg)
           es   == ApplyAll(n.elements, Top.arg, FALSE)
           new  == [n EXCEPT !.elements = es]
           m    == [pivots |-> new.pivots, elements |-> new.elements, given |-> {}]
           w    == [View EXCEPT ![Top.id] = m]
           keys == {x.key : x \in Top.arg}
           now  == next_timestamp
<1>1. /\ stack # << >> /\ Top.fn = "flush" /\ Top.pc = "enter" /\ ~IsLeaf(Current)
      /\ node' = [node EXCEPT ![Top.id] = new]
      /\ stack' = At("loop", 0) /\ OInv /\ IInv
      /\ UNCHANGED <<root, next_timestamp, returned, call, reference>>
  BY DEF FlushBuffer, Running, CInv, OInv
<1>2. /\ Top \in Flushes(now) \union Queries /\ Top.id \in DOMAIN node
      /\ NodeOK(Current, DOMAIN node, now) /\ returned = EmptyMap
  BY <1>1, TopFacts DEF FrameOK
<1>3. Top.arg \in Buffer(now) /\ Top.arg # {} /\ Current.elements \in Buffer(now)
  BY <1>1, <1>2 DEF NodeOK, Flushes, Queries
<1>4. /\ NodeOK(n, DOMAIN node, now) /\ ~IsLeaf(n) /\ n.elements = Current.elements
      /\ Moves(n, Current)
      /\ \A k \in keys : FirstPivot(n) <= Min(keys) /\ Min(keys) \in Int /\ k \in Int /\ Min(keys) <= k
  <2>1. NodeOK(n, DOMAIN node, now) /\ Lowered(n, Current, keys)
    BY <1>1, <1>2, <1>3, RekeyedMoves
  <2> QED BY <2>1 DEF Lowered
<1> HIDE DEF n
<1>5. /\ es \in Buffer(now)
      /\ \A e \in es : \E x \in n.elements \union Top.arg : x.key = e.key
  <2> DEFINE leaf == FALSE
             old  == n.elements
             sent == Top.arg
  <2>1. leaf \in BOOLEAN /\ old \in Buffer(now) /\ sent \in Buffer(now) /\ (leaf => Inserts(old))
    BY <1>3, <1>4
  <2> HIDE DEF leaf, old, sent, now
  <2>2. /\ ApplyAll(old, sent, leaf) \in Buffer(now)
        /\ \A e \in ApplyAll(old, sent, leaf) : \E x \in old \union sent : x.key = e.key
    BY <2>1, ApplyAllKeeps
  <2> QED BY <2>2 DEF leaf, old, sent
<1> HIDE DEF es
<1>6. NodeOK(new, DOMAIN node, now) /\ new.pivots = n.pivots /\ new.elements = es
  BY <1>4, <1>5, ElementsOK
<1> HIDE DEF new
<1>7. /\ DOMAIN View = DOMAIN node
      /\ View[Top.id].pivots = Current.pivots /\ View[Top.id].elements = Current.elements
      /\ View[Top.id].given = Top.arg
  BY <1>1, ViewTop
<1>8. Only(w, View, Top.id, m)
  BY <1>2, <1>7 DEF Only, View, ViewOf
<1>9. m.pivots = n.pivots /\ m.elements = es /\ m.given = {} /\ ~IsLeaf(View[Top.id])
  BY <1>1, <1>6, <1>7 DEF IsLeaf
<1>10. m = [pivots |-> new.pivots, elements |-> new.elements, given |-> {}]
  OBVIOUS
<1> HIDE DEF m, w
<1>11. Moves(m, View[Top.id]) /\ DOMAIN m.pivots \subseteq Keys
       /\ m.pivots \in [DOMAIN m.pivots -> DOMAIN View]
  BY <1>4, <1>7, <1>9 DEF NodeOK, Moves, NextPivots
<1>12. PICK t, v : ViewOK(t, v, View, now) /\ v[root] = reference
  BY DEF CInv, Valued
<1>13. ViewOK(t, v, w, now) /\ Orderly(m.elements)
  <2> DEFINE leaf == FALSE
             id   == Top.id
  <2>1. /\ leaf \in BOOLEAN /\ (leaf <=> IsLeaf(View[id])) /\ (leaf => Inserts(View[id].elements))
        /\ m.elements = ApplyAll(View[id].elements, View[id].given, leaf) /\ m.given = {}
    BY <1>4, <1>7, <1>9 DEF es
  <2>2. /\ ViewOK(t, v, View, now) /\ Only(w, View, id, m) /\ Moves(m, View[id])
        /\ DOMAIN m.pivots \subseteq Keys /\ m.pivots \in [DOMAIN m.pivots -> DOMAIN View]
    BY <1>8, <1>11, <1>12
  <2> HIDE DEF leaf, id, now
  <2> QED BY <2>1, <2>2, ViewApply
<1>14. Valued(w, now, root, reference)
  BY <1>12, <1>13 DEF Valued
<1>15. TidyNode(new)
  <2>1. TidyNode(Current)
    BY <1>2 DEF CInv, Current
  <2>2. ~IsLeaf(new) /\ FirstPivot(new) = FirstPivot(n)
    BY <1>4, <1>6 DEF IsLeaf, FirstPivot
  <2>3. FirstPivot(n) \in Int /\ FirstPivot(Current) \in Int /\ FirstPivot(n) <= FirstPivot(Current)
    BY <1>1, <1>2, <1>4, MovesFirst DEF NodeOK
  <2>4. ASSUME NEW e \in es PROVE FirstPivot(n) <= e.key
    <3>1. PICK x \in n.elements \union Top.arg : x.key = e.key
      BY <1>5
    <3>2. CASE x \in Top.arg
      <4>1. x.key \in keys
        BY <3>2
      <4> HIDE DEF keys
      <4>2. FirstPivot(n) <= Min(keys) /\ Min(keys) \in Int /\ x.key \in Int /\ Min(keys) <= x.key
        BY <1>4, <4>1
      <4> QED BY <2>3, <3>1, <4>2
    <3>3. CASE x \in n.elements
      <4>1. x \in Current.elements
        BY <1>4, <3>3
      <4>2. FirstPivot(Current) <= x.key
        BY <1>1, <2>1, <4>1 DEF TidyNode
      <4>3. x.key \in Int
        BY <1>3, <4>1, MessageFields
      <4> QED BY <2>3, <3>1, <4>2, <4>3
    <3> QED BY <3>2, <3>3
  <2> QED BY <1>6, <1>9, <1>13, <2>2, <2>4 DEF TidyNode
<1>16. Leaves(w, new)
  BY <1>8, <1>10 DEF Leaves, Only
<1>17. OInv'
  BY <1>1, FlushBufferOrder
<1>18. /\ DOMAIN node' = DOMAIN node /\ node'[Top.id] = new
       /\ \A i \in DOMAIN node : i # Top.id => node'[i] = node[i]
       /\ returned' = EmptyMap /\ returned = EmptyMap
  BY <1>1, <1>2
<1> QED BY <1>1, <1>14, <1>15, <1>16, <1>17, <1>18, StayContents

\* The activation calls one of a child, with all messages in its range: w is the view
\* before they are sent.
LEMMA SendContents ==
  ASSUME CInv, stack # << >>, Top.fn = "flush", Top.pc \in {"enter", "loop"}, OInv',
         NEW n, TidyNode(n), DOMAIN node' = DOMAIN node, node'[Top.id] = n,
         \A id \in DOMAIN node : id # Top.id => node'[id] = node[id],
         NEW p \in DOMAIN n.pivots, NEW b, NEW pc \in {"direct", "batch"},
         stack' = Append(At(pc, p), Activation(Top.fn, n.pivots[p], b)),
         UNCHANGED <<root, next_timestamp, returned, call, reference>>,
         pc = "direct" => Batch(n, p) = {},
         NEW w, Valued(w, next_timestamp, root, reference), DOMAIN w = DOMAIN View,
         \A id \in DOMAIN View : id # Top.id => w[id] = View[id],
         w[Top.id].pivots = n.pivots, b \subseteq Held(w[Top.id]),
         NEW m, m = [pivots |-> n.pivots,
                     elements |-> IF pc = "batch" THEN n.elements \ Batch(n, p) ELSE n.elements,
                     given |-> {}],
         m.elements \subseteq w[Top.id].elements,
         Halves(w[Top.id], p, m, b, next_timestamp)
  PROVE  CInv'
<1> DEFINE gone == Emptied(stack', node', root', returned')
           u    == View'
           c    == n.pivots[p]
           top  == Top.id
           now  == next_timestamp
<1>1. /\ OInv /\ IInv /\ TidyStack(stack, node, call) /\ \A id \in DOMAIN node : TidyNode(node[id])
      /\ returned = EmptyMap /\ call = "upsert"
  <2>1. OInv /\ IInv /\ TidyStack(stack, node, call) /\ \A id \in DOMAIN node : TidyNode(node[id])
    BY DEF CInv, OInv
  <2> QED BY <2>1, TopFacts
<1>2. /\ Len(stack) \in Nat \ {0} /\ top \in DOMAIN node
      /\ \A i \in 1 .. Len(stack) - 1 : stack[i].id \in DOMAIN node /\ stack[i].id # top
  BY <1>1, TopFacts DEF FrameOK
<1>3. /\ DOMAIN View = DOMAIN node
      /\ \A id \in DOMAIN node : /\ View[id].pivots = node[id].pivots
                                 /\ id # top => View[id].given = {}
  <2>1. Emptied(stack, node, root, returned) = {}
    BY <1>1 DEF Emptied
  <2> QED BY <1>1, <2>1, ViewTop
<1>4. gone = {}
  BY <1>1 DEF Emptied
<1>5. /\ DOMAIN u = DOMAIN node'
      /\ \A id \in DOMAIN node' :
            /\ u[id] = [pivots |-> u[id].pivots, elements |-> u[id].elements,
                        given |-> IF id = c THEN b ELSE {}]
            /\ u[id].pivots = node'[id].pivots
            /\ id # top /\ node'[id] = node[id] => u[id].elements = View[id].elements
      /\ u[top].elements = m.elements
  <2> DEFINE new == Append(At(pc, p), Activation(Top.fn, c, b))
  <2>1. Descends(ViewOf(new, node', returned', gone), node', returned', gone, pc, p, c, b)
    BY <1>1, ViewDown
  <2>2. u = ViewOf(stack', node', returned', gone)
    BY DEF View
  <2>3. u = ViewOf(new, node', returned', gone)
    BY <2>2
  <2> HIDE DEF u, new, gone
  <2>4. Descends(u, node', returned', gone, pc, p, c, b)
    BY <2>1, <2>3
  <2> QED BY <1>4, <2>4 DEF Descends
<1>6. TidyStack(stack', node', call')
  <2>1. \A i \in 1 .. Len(stack) - 1 : node'[stack[i].id] = node[stack[i].id]
    BY <1>2
  <2>2. TidyCall(node'[Top.id], pc, p, c, b)
    BY DEF TidyCall
  <2>3. TidyStack(Append(At(pc, p), Activation(Top.fn, c, b)), node', call)
    <3> HIDE DEF c
    <3> QED BY <1>1, <2>1, <2>2, TidyDown
  <2> QED BY <2>3
<1>7. FoundOK'
  BY <1>1, <1>6, FlushFinds
<1> HIDE DEF gone, u
<1>8. /\ c \in DOMAIN node /\ c # top /\ c # root
      /\ \A a \in DOMAIN node' : \A q \in DOMAIN node'[a].pivots :
            node'[a].pivots[q] = c => a = top /\ q = p
  <2>1. /\ OwnersOK(node', root', returned')
        /\ NodesOK(node', root', returned', next_id', next_timestamp')
    BY DEF OInv, IInv
  <2>2. PICK h : HeightsOK(h, node', returned', gone)
    BY DEF OInv, IInv, gone
  <2>3. c \in DOMAIN node
    BY <1>2, <2>1 DEF NodesOK, NodeOK
  <2>4. h[top] = h[c] + 1 /\ h[c] \in Nat
    BY <1>2, <2>2, <2>3 DEF HeightsOK
  <2>5. c # top
    BY <2>4
  <2>6. /\ c # root'
        /\ \A a \in DOMAIN node' : \A q \in DOMAIN node'[a].pivots :
              node'[a].pivots[q] = c => a = top /\ q = p
    BY <1>2, <2>1 DEF OwnersOK
  <2> QED BY <2>3, <2>5, <2>6
<1>9. \A id \in DOMAIN node : w[id].pivots = node'[id].pivots
  BY <1>2, <1>3
<1>10. ASSUME NEW id \in DOMAIN node, id # top, id # c PROVE u[id] = w[id]
  <2>1. View[id] = [pivots |-> View[id].pivots, elements |-> View[id].elements,
                    given |-> View[id].given]
    BY DEF View, ViewOf
  <2>2. /\ u[id] = [pivots |-> u[id].pivots, elements |-> u[id].elements, given |-> {}]
        /\ u[id].pivots = View[id].pivots /\ u[id].elements = View[id].elements
    BY <1>3, <1>5, <1>10
  <2>3. View[id].given = {} /\ w[id] = View[id]
    BY <1>3, <1>10
  <2> QED BY <2>1, <2>2, <2>3
<1>11. /\ w[c].given = {} /\ u[c].pivots = w[c].pivots /\ u[c].elements = w[c].elements
       /\ u[c].given = b
  <2>1. w[c] = View[c] /\ View[c].given = {} /\ View[c].pivots = node'[c].pivots
        /\ node'[c] = node[c]
    BY <1>3, <1>8
  <2>2. u[c] = [pivots |-> u[c].pivots, elements |-> u[c].elements, given |-> b]
    BY <1>5, <1>8
  <2>3. u[c].given = b
    BY <2>2
  <2> QED BY <1>5, <1>8, <2>1, <2>3
<1>12. u[top] = m
  <2>1. u[top] = [pivots |-> u[top].pivots, elements |-> u[top].elements, given |-> {}]
    BY <1>2, <1>5, <1>8
  <2>2. u[top].pivots = m.pivots /\ u[top].elements = m.elements
    BY <1>2, <1>5
  <2>3. m = [pivots |-> m.pivots, elements |-> m.elements, given |-> {}]
    OBVIOUS
  <2> QED BY <2>1, <2>2, <2>3
<1>13. Sends(u, w, top, p, m, b)
  <2>1. DOMAIN u = DOMAIN w /\ DOMAIN w = DOMAIN node /\ w[top].pivots = n.pivots
        /\ m.pivots = n.pivots /\ m.given = {} /\ m.elements \subseteq w[top].elements
        /\ b \subseteq Held(w[top])
    BY <1>3, <1>5
  <2>2. \A a \in DOMAIN w : \A q \in DOMAIN w[a].pivots : w[a].pivots[q] = c => a = top /\ q = p
    BY <1>8, <1>9, <2>1
  <2> QED BY <1>2, <1>8, <1>10, <1>11, <1>12, <2>1, <2>2 DEF Sends
<1>14. PICK t, v : ViewOK(t, v, w, now) /\ v[root] = reference
  BY DEF Valued
<1>15. \E s, x : ViewOK(s, x, u, now) /\ \A i \in DOMAIN w : i # w[top].pivots[p] => x[i] = v[i]
  <2>1. now \in Nat /\ Halves(w[top], p, m, b, now)
    BY <1>1 DEF IInv, NodesOK
  <2> HIDE DEF now, top
  <2> QED BY <1>13, <1>14, <2>1, ViewSend
<1>16. PICK s, x : ViewOK(s, x, u, now) /\ \A i \in DOMAIN w : i # w[top].pivots[p] => x[i] = v[i]
  BY <1>15
<1>17. root \in DOMAIN w /\ w[top].pivots[p] = c
  BY <1>1, <1>3 DEF IInv, NodesOK
<1>18. Valued(u, now, root, reference)
  BY <1>8, <1>14, <1>16, <1>17 DEF Valued
<1>19. \A id \in DOMAIN node' : TidyNode(node'[id])
  BY <1>1
<1> QED BY <1>4, <1>6, <1>7, <1>18, <1>19 DEF CInv, gone, u

\* A batch is all that a node holds for the range of a child ...
LEMMA BatchHalves ==
  ASSUME NEW n, NEW ids, NEW now, NodeOK(n, ids, now), TidyNode(n), NEW p \in DOMAIN n.pivots,
         NEW m, m.elements = n.elements \ Batch(n, p)
  PROVE  Halves([pivots |-> n.pivots, elements |-> n.elements, given |-> {}], p, m, Batch(n, p), now)
<1> DEFINE x == [pivots |-> n.pivots, elements |-> n.elements, given |-> {}]
           b == Batch(n, p)
<1>1. /\ b \in Buffer(now) /\ b \subseteq n.elements /\ Orderly(b)
  <2>1. b \in Buffer(now) /\ b \subseteq n.elements
    BY BatchIn DEF Batch
  <2> QED BY <2>1 DEF TidyNode, Orderly
<1>2. \A e \in n.elements : e \in b <=> InRange(x, p, e.key)
  <2>1. p \in Int /\ \A e \in n.elements : e.key \in Int
    BY MessageFields, KeysAssumption DEF NodeOK
  <2> QED BY <2>1 DEF Batch, InRange, NextPivots
<1>3. x.elements = n.elements /\ \A k, y : Eval(x.given, k, y) = y
  BY DEF Eval, For
<1> HIDE DEF x, b
<1>4. ASSUME NEW k \in Keys, NEW y \in Answers
      PROVE  Eval(n.elements, k, y) = IF InRange(x, p, k) THEN Eval(b, k, y)
                                                          ELSE Eval(m.elements, k, y)
  <2>1. CASE InRange(x, p, k)
    <3>1. For(n.elements, k) = For(b, k)
      BY <1>1, <1>2, <2>1 DEF For
    <3> QED BY <2>1, <3>1, EvalSame
  <2>2. CASE ~InRange(x, p, k)
    <3>1. For(n.elements, k) = For(m.elements, k)
      BY <1>1, <1>2, <2>2 DEF For, b
    <3> QED BY <2>2, <3>1, EvalSame
  <2> QED BY <2>1, <2>2
<1>5. \A e \in b : InRange(x, p, e.key)
  BY <1>1, <1>2
<1>6. \A e \in m.elements : ~InRange(x, p, e.key)
  BY <1>2 DEF b
<1>7. ASSUME NEW k \in Keys, NEW y \in Answers
      PROVE  Eval(x.given, k, Eval(x.elements, k, y))
                = IF InRange(x, p, k) THEN Eval(b, k, y) ELSE Eval(m.elements, k, y)
  <2>1. Eval(x.given, k, Eval(n.elements, k, y)) = Eval(n.elements, k, y)
    BY <1>3
  <2>2. x.elements = n.elements
    BY <1>3
  <2> QED BY <1>4, <2>1, <2>2
<1>8. Halves(x, p, m, b, now)
  BY <1>1, <1>5, <1>6, <1>7 DEF Halves
<1> QED BY <1>8 DEF x, b

\* ... and so is what it was given, when it is all in that range and the buffer holds
\* nothing for it.
LEMMA ArgHalves ==
  ASSUME NEW n, NEW ids, NEW now, NodeOK(n, ids, now), NEW p \in DOMAIN n.pivots,
         Batch(n, p) = {}, NEW b \in Buffer(now), Orderly(b), \A e \in b : InRange(n, p, e.key),
         NEW m, m.elements = n.elements
  PROVE  Halves([pivots |-> n.pivots, elements |-> n.elements, given |-> b], p, m, b, now)
<1> DEFINE x == [pivots |-> n.pivots, elements |-> n.elements, given |-> b]
<1>1. \A e \in n.elements : ~InRange(x, p, e.key)
  <2>1. p \in Int /\ \A e \in n.elements : e.key \in Int
    BY MessageFields, KeysAssumption DEF NodeOK
  <2> QED BY <2>1 DEF Batch, InRange, NextPivots
<1>2. \A e \in b : InRange(x, p, e.key)
  BY DEF InRange, NextPivots
<1>3. x.elements = n.elements /\ x.given = b
  OBVIOUS
<1> HIDE DEF x
<1>4. ASSUME NEW k \in Keys, NEW y \in Answers
      PROVE  Eval(b, k, Eval(n.elements, k, y)) = IF InRange(x, p, k) THEN Eval(b, k, y)
                                                                      ELSE Eval(m.elements, k, y)
  <2>1. CASE InRange(x, p, k)
    <3>1. For(n.elements, k) = {}
      BY <1>1, <2>1 DEF For
    <3>2. Eval(n.elements, k, y) = y
      BY <3>1 DEF Eval
    <3> QED BY <2>1, <3>2
  <2>2. CASE ~InRange(x, p, k)
    <3>1. For(b, k) = {}
      BY <1>2, <2>2 DEF For
    <3>2. \A z : Eval(b, k, z) = z
      BY <3>1 DEF Eval
    <3> QED BY <2>2, <3>2
  <2> QED BY <2>1, <2>2
<1>5. Halves(x, p, m, b, now)
  BY <1>1, <1>2, <1>3, <1>4 DEF Halves
<1> QED BY <1>5 DEF x

\* A batch goes to the child with the most messages.
LEMMA FlushBatchContents ==
  ASSUME CInv, FlushBatch
  PROVE  CInv'
<1> DEFINE p   == Largest(Current)
           b   == Batch(Current, p)
           m   == [pivots |-> Current.pivots, elements |-> Current.elements \ b, given |-> {}]
           now == next_timestamp
<1>1. /\ stack # << >> /\ Top.fn = "flush" /\ Top.pc = "loop" /\ OInv /\ IInv
      /\ stack' = Append(At("batch", p), Activation(Top.fn, Current.pivots[p], b))
      /\ UNCHANGED <<node, root, next_timestamp, returned, call, reference>>
  BY DEF FlushBatch, Running, Call, CInv, OInv
<1>2. /\ Top.id \in DOMAIN node /\ NodeOK(Current, DOMAIN node, now) /\ ~IsLeaf(Current)
  BY <1>1, TopFacts DEF FrameOK, Current
<1>3. p \in DOMAIN Current.pivots
  BY <1>2, LargestIn
<1> HIDE DEF p
<1>4. TidyNode(Current)
  BY <1>2 DEF CInv, Current
<1>5. /\ DOMAIN View = DOMAIN node
      /\ View[Top.id] = [pivots |-> Current.pivots, elements |-> Current.elements, given |-> {}]
  BY <1>1, ViewTop
<1>6. m.elements = Current.elements \ Batch(Current, p)
  OBVIOUS
<1> DEFINE pc == "batch"
<1>7. pc \in {"direct", "batch"}
      /\ (pc = "direct" => Batch(Current, p) = {})
      /\ m = [pivots |-> Current.pivots,
              elements |-> IF pc = "batch" THEN Current.elements \ Batch(Current, p)
                                           ELSE Current.elements,
              given |-> {}]
      /\ stack' = Append(At(pc, p), Activation(Top.fn, Current.pivots[p], b))
  BY <1>1
<1> HIDE DEF m, pc
<1>8. Halves(View[Top.id], p, m, b, now)
  BY <1>2, <1>3, <1>4, <1>5, <1>6, BatchHalves
<1>9. /\ View[Top.id].pivots = Current.pivots /\ b \subseteq Held(View[Top.id])
      /\ m.elements \subseteq View[Top.id].elements
  BY <1>5, <1>6 DEF Held, Batch
<1>10. OInv'
  BY <1>1, FlushBatchOrder
<1>11. /\ DOMAIN node' = DOMAIN node /\ node'[Top.id] = Current
       /\ \A id \in DOMAIN node : id # Top.id => node'[id] = node[id]
       /\ UNCHANGED <<root, next_timestamp, returned, call, reference>>
  BY <1>1 DEF Current
<1> DEFINE w == View
<1>12. /\ Valued(w, now, root, reference) /\ DOMAIN w = DOMAIN View
       /\ \A id \in DOMAIN View : id # Top.id => w[id] = View[id]
       /\ w[Top.id].pivots = Current.pivots /\ b \subseteq Held(w[Top.id])
       /\ m.elements \subseteq w[Top.id].elements
       /\ Halves(w[Top.id], p, m, b, now)
  BY <1>8, <1>9 DEF CInv
<1> DEFINE n == Current
<1>13. /\ TidyNode(n) /\ node'[Top.id] = n /\ p \in DOMAIN n.pivots
       /\ stack' = Append(At(pc, p), Activation(Top.fn, n.pivots[p], b))
       /\ (pc = "direct" => Batch(n, p) = {}) /\ w[Top.id].pivots = n.pivots
       /\ m = [pivots |-> n.pivots,
               elements |-> IF pc = "batch" THEN n.elements \ Batch(n, p) ELSE n.elements,
               given |-> {}]
  BY <1>3, <1>4, <1>7, <1>11, <1>12
<1> HIDE DEF w, b, n
<1> QED BY <1>1, <1>7, <1>10, <1>11, <1>12, <1>13, SendContents

\* The shortcut: what the node was given goes straight to a child, past a buffer that
\* holds nothing for it.
LEMMA FlushDirectContents ==
  ASSUME CInv, DirtyChildBufferEmpty, FlushDirect
  PROVE  CInv'
<1> DEFINE n    == Rekeyed(Current, Top.arg)
           keys == {x.key : x \in Top.arg}
           hi   == Max(keys)
           p    == GetPivot(n, Min(keys))
           b    == Top.arg
           x    == [pivots |-> n.pivots, elements |-> n.elements, given |-> b]
           m    == [pivots |-> n.pivots, elements |-> n.elements, given |-> {}]
           w    == [View EXCEPT ![Top.id] = x]
           now  == next_timestamp
<1>1. /\ stack # << >> /\ Top.fn = "flush" /\ Top.pc = "enter" /\ ~IsLeaf(Current)
      /\ node' = [node EXCEPT ![Top.id] = n] /\ OInv /\ IInv
      /\ p = GetPivot(n, hi) /\ Batch(n, p) = {}
      /\ stack' = Append(At("direct", p), Activation(Top.fn, n.pivots[p], b))
      /\ UNCHANGED <<root, next_timestamp, returned, call, reference>>
  <2>1. /\ stack # << >> /\ Top.fn = "flush" /\ Top.pc = "enter" /\ ~IsLeaf(Current)
        /\ node' = [node EXCEPT ![Top.id] = n] /\ GoesDirect(n, Top.arg)
        /\ stack' = Append(At("direct", p), Activation(Top.fn, n.pivots[p], b))
        /\ UNCHANGED <<root, next_timestamp, returned, call, reference>>
    BY DEF FlushDirect, Running, Call
  <2>2. Batch(n, p) = {}
    BY <2>1 DEF DirtyChildBufferEmpty, Running
  <2>3. p = GetPivot(n, hi)
    BY <2>1 DEF GoesDirect
  <2> QED BY <2>1, <2>2, <2>3 DEF CInv, OInv
<1>2. /\ Top \in Flushes(now) \union Queries /\ Top.id \in DOMAIN node
      /\ NodeOK(Current, DOMAIN node, now) /\ returned = EmptyMap
  BY <1>1, TopFacts DEF FrameOK
<1>3. b \in Buffer(now) /\ b # {}
  BY <1>1, <1>2 DEF Flushes, Queries
<1>4. /\ NodeOK(n, DOMAIN node, now) /\ ~IsLeaf(n) /\ n.elements = Current.elements
      /\ Moves(n, Current) /\ Min(keys) \in keys /\ hi \in keys
      /\ \A k \in keys : k \in Int /\ Min(keys) <= k /\ k <= hi
      /\ FirstPivot(n) <= Min(keys)
  <2>1. NodeOK(n, DOMAIN node, now) /\ Lowered(n, Current, keys)
    BY <1>1, <1>2, <1>3, RekeyedMoves
  <2> QED BY <2>1 DEF Lowered
<1> HIDE DEF n, hi
<1>5. p \in DOMAIN n.pivots /\ \A e \in b : InRange(n, p, e.key)
  <2>1. p \in DOMAIN n.pivots /\ p <= Min(keys) /\ Min(keys) \in Int /\ hi \in Int
    BY <1>4, GetPivotIs
  <2>2. FirstPivot(n) \in Int /\ p \in Int /\ \A q \in DOMAIN n.pivots : q \in Int
    BY <1>4, <2>1, PivotFacts
  <2>3. \A q \in NextPivots(n, p) : hi < q /\ q \in Int
    <3>1. FirstPivot(n) <= hi
      BY <1>4, <2>1, <2>2
    <3> QED BY <1>1, <1>4, <2>1, <2>2, <3>1, GetPivotIs DEF NextPivots
  <2> DEFINE low == Min(keys)
  <2>4. low \in Int /\ p <= low /\ \A k \in keys : k \in Int /\ low <= k /\ k <= hi
    BY <1>4, <2>1
  <2> HIDE DEF low, p
  <2>5. \A k \in keys : p <= k /\ \A q \in NextPivots(n, p) : k < q
    BY <2>1, <2>2, <2>3, <2>4
  <2> HIDE DEF keys
  <2>6. \A e \in b : e.key \in keys
    BY DEF keys
  <2> QED BY <2>1, <2>5, <2>6 DEF InRange
<1> HIDE DEF p
<1>6. TidyNode(Current) /\ TidyNode(n)
  <2>1. TidyNode(Current)
    BY <1>2 DEF CInv, Current
  <2>2. FirstPivot(n) \in Int /\ FirstPivot(Current) \in Int /\ FirstPivot(n) <= FirstPivot(Current)
    BY <1>1, <1>2, <1>4, MovesFirst DEF NodeOK
  <2>3. ASSUME NEW e \in n.elements PROVE FirstPivot(n) <= e.key
    <3>1. e.key \in Int
      BY <1>4, <2>3, MessageFields DEF NodeOK
    <3>2. FirstPivot(Current) <= e.key
      BY <1>1, <1>4, <2>1, <2>3 DEF TidyNode
    <3> QED BY <2>2, <3>1, <3>2
  <2> QED BY <1>4, <2>1, <2>3 DEF TidyNode
<1>7. /\ DOMAIN View = DOMAIN node
      /\ View[Top.id] = [pivots |-> Current.pivots, elements |-> Current.elements, given |-> b]
  BY <1>1, ViewTop
<1>8. PICK t, v : ViewOK(t, v, View, now) /\ v[root] = reference
  BY DEF CInv, Valued
<1>9. Only(w, View, Top.id, x)
  BY <1>2, <1>7 DEF Only, View, ViewOf
<1>10. ViewNode(View[Top.id], DOMAIN View, now) /\ TimesOK(t, View[Top.id], Top.id)
  <2> DEFINE top == Top.id
  <2>1. top \in DOMAIN View
    BY <1>2, <1>7
  <2> HIDE DEF top, now
  <2>2. ViewNode(View[top], DOMAIN View, now) /\ TimesOK(t, View[top], top)
    BY <1>8, <2>1, ViewFacts
  <2> QED BY <2>2 DEF top
<1>11. /\ b \in Buffer(now) /\ Orderly(b)
       /\ \A e \in n.elements : \A f \in b : e.key = f.key => e.ts < f.ts
  BY <1>4, <1>7, <1>10 DEF ViewNode, TimesOK
<1>12. x.pivots = n.pivots /\ x.elements = n.elements /\ x.given = b
  OBVIOUS
<1>13. /\ m = [pivots |-> n.pivots,
               elements |-> IF "direct" = "batch" THEN n.elements \ Batch(n, p) ELSE n.elements,
               given |-> {}]
       /\ m.elements = n.elements
  OBVIOUS
<1>14. Halves(x, p, m, b, now)
  <2> HIDE DEF m
  <2> QED BY <1>1, <1>4, <1>5, <1>11, <1>13, ArgHalves
<1> HIDE DEF m, x, w
<1>15. Rewrites(x, View[Top.id], DOMAIN View, now)
  <2> DEFINE old == View[Top.id]
  <2>1. old.pivots = Current.pivots /\ old.elements = n.elements /\ old.given = b
    BY <1>4, <1>7
  <2>2. ViewNode(x, DOMAIN View, now)
    BY <1>4, <1>6, <1>7, <1>11, <1>12 DEF ViewNode, NodeOK, TidyNode
  <2>3. Moves(x, old)
    BY <1>4, <1>12, <2>1 DEF Moves, NextPivots
  <2> HIDE DEF old
  <2>4. Held(x) = Held(old)
    BY <1>12, <2>1 DEF Held
  <2>5. Rewrites(x, old, DOMAIN View, now)
    BY <1>11, <1>12, <2>1, <2>2, <2>3, <2>4 DEF Rewrites
  <2> QED BY <2>5 DEF old
<1>16. Valued(w, now, root, reference)
  <2> DEFINE top == Top.id
  <2>1. Only(w, View, top, x) /\ Rewrites(x, View[top], DOMAIN View, now)
    BY <1>9, <1>15
  <2> HIDE DEF top, now
  <2>2. ViewOK(t, v, w, now)
    BY <1>8, <2>1, ViewChange
  <2> QED BY <1>8, <2>2 DEF Valued
<1>17. /\ DOMAIN w = DOMAIN View /\ w[Top.id] = x
       /\ \A id \in DOMAIN View : id # Top.id => w[id] = View[id]
       /\ w[Top.id].pivots = n.pivots /\ b \subseteq Held(w[Top.id])
       /\ m.elements \subseteq w[Top.id].elements
       /\ Halves(w[Top.id], p, m, b, now)
  BY <1>9, <1>12, <1>13, <1>14 DEF Only, Held
<1>18. OInv'
  BY <1>1, FlushDirectOrder
<1>19. /\ DOMAIN node' = DOMAIN node /\ node'[Top.id] = n
       /\ \A id \in DOMAIN node : id # Top.id => node'[id] = node[id]
  BY <1>1, <1>2
<1> DEFINE pc == "direct"
<1>20. /\ pc \in {"direct", "batch"} /\ (pc = "direct" => Batch(n, p) = {})
       /\ stack' = Append(At(pc, p), Activation(Top.fn, n.pivots[p], b))
       /\ m = [pivots |-> n.pivots,
               elements |-> IF pc = "batch" THEN n.elements \ Batch(n, p) ELSE n.elements,
               given |-> {}]
       /\ UNCHANGED <<root, next_timestamp, returned, call, reference>>
       /\ Top.pc \in {"enter", "loop"}
  BY <1>1, <1>13
<1> HIDE DEF pc, b
<1> QED BY <1>1, <1>5, <1>6, <1>16, <1>17, <1>18, <1>19, <1>20, SendContents

\* With its messages for a child gone, a node keeps a pivot for each of the others when
\* the child is replaced.
LEMMA ReplacedTidy ==
  ASSUME NEW n, NEW ids, NEW now, NodeOK(n, ids, now), TidyNode(n), NEW p \in DOMAIN n.pivots,
         Batch(n, p) = {}, NEW m, DOMAIN m.pivots \subseteq Keys,
         DOMAIN n.pivots \ {p} \subseteq DOMAIN m.pivots, m.elements = n.elements
  PROVE  TidyNode(m)
<1>1. ASSUME NEW e \in n.elements
      PROVE  \E q \in DOMAIN n.pivots \ {p} : q \in Int /\ e.key \in Int /\ q <= e.key
  <2>1. /\ e.key \in Int /\ FirstPivot(n) \in DOMAIN n.pivots /\ FirstPivot(n) <= e.key
        /\ \A q \in DOMAIN n.pivots : q \in Int /\ FirstPivot(n) <= q
    <3>1. e.key \in Int /\ DOMAIN n.pivots \subseteq Keys
      BY MessageFields DEF NodeOK
    <3>2. ~IsLeaf(n)
      BY DEF IsLeaf
    <3>3. FirstPivot(n) <= e.key
      BY <3>2 DEF TidyNode
    <3> QED BY <3>1, <3>2, <3>3, RangeIs, KeysAssumption
  <2>2. CASE FirstPivot(n) # p
    BY <2>1, <2>2
  <2>3. CASE FirstPivot(n) = p
    <3>1. \E q \in NextPivots(n, p) : ~(e.key < q)
      BY <2>1, <2>3 DEF Batch
    <3> QED BY <2>1, <3>1 DEF NextPivots
  <2> QED BY <2>2, <2>3
<1>2. ASSUME NEW e \in m.elements
      PROVE  FirstPivot(m) <= e.key
  <2>1. PICK q \in DOMAIN m.pivots : q \in Int /\ e.key \in Int /\ q <= e.key
    BY <1>1
  <2>2. FirstPivot(m) \in DOMAIN m.pivots /\ FirstPivot(m) <= q
    BY <2>1, RangeIs DEF IsLeaf
  <2> DEFINE first == FirstPivot(m)
             key   == e.key
  <2>3. first \in Int
    BY <2>2, KeysAssumption
  <2>4. first <= q /\ q <= key /\ key \in Int /\ q \in Int
    BY <2>1, <2>2
  <2> HIDE DEF first, key
  <2>5. first <= key
    BY <2>3, <2>4
  <2> QED BY <2>5 DEF first, key
<1> QED BY <1>2 DEF TidyNode

\* The view when the parts of a child take its place.
LEMMA MergedView ==
  ASSUME OInv, stack # << >>, Top.fn = "flush", Top.pc \in {"direct", "batch"},
         NEW n, n.pivots = Current.pivots,
         n.elements = IF Top.pc = "batch" THEN Current.elements \ Batch(Current, Top.pivot)
                                          ELSE Current.elements,
         returned # EmptyMap,
         Merges(node, Top.id, Top.pivot, returned, node', next_timestamp),
         node'[Top.id].elements = n.elements,
         Emptied(stack, node, root, returned) = {node[Top.id].pivots[Top.pivot]},
         \A id \in Emptied(stack, node, root, returned) : node[id].elements = {},
         NEW u, Stays(u, node', EmptyMap, {})
  PROVE  Joined(u, View, Top.id, Top.pivot)
<1> DEFINE top == Top.id
           p   == Top.pivot
           e   == node[top].pivots[p]
<1>1. /\ IInv /\ NodesOK(node, root, returned, next_id, next_timestamp)
      /\ OwnersOK(node, root, returned)
  BY DEF OInv, IInv
<1>2. /\ top \in DOMAIN node /\ p \in DOMAIN node[top].pivots
      /\ DOMAIN node' = DOMAIN node \ {e}
      /\ node'[top].pivots = Replace(node[top].pivots, p, returned)
      /\ \A i \in DOMAIN node' : i # top => node'[i] = node[i]
  BY DEF Merges
<1>3. /\ DOMAIN View = DOMAIN node
      /\ View[top].pivots = Current.pivots /\ View[top].elements = n.elements
      /\ View[top].given = {}
      /\ \A id \in DOMAIN node :
            /\ id # top => View[id].given = {}
            /\ id # e => View[id].pivots = node[id].pivots
      /\ View[e].pivots = returned
      /\ View[e].elements = {}
  <2>1. e \in DOMAIN node
    BY <1>1, <1>2 DEF NodesOK, NodeOK
  <2>2. node[e].elements = {}
    OBVIOUS
  <2> HIDE DEF e
  <2>3. Emptied(stack, node, root, returned) = {e}
    BY DEF e
  <2>4. /\ DOMAIN View = DOMAIN node
        /\ View[top] =
             [pivots   |-> Current.pivots,
              elements |-> n.elements,
              given    |-> {}]
        /\ \A id \in DOMAIN node :
              /\ id # top => View[id].given = {}
              /\ id # e => View[id].pivots = node[id].pivots
              /\ id = e => View[id].pivots = returned
              /\ View[id].elements = node[id].elements \ Sent(stack, node, id)
    BY <2>3, ViewTop
  <2> QED BY <2>1, <2>2, <2>4
<1>4. e \in DOMAIN node /\ e # top
  <2>1. Top.id \notin Emptied(stack, node, root, returned)
    BY EmptiedElsewhere
  <2> QED BY <1>1, <1>2, <2>1 DEF NodesOK, NodeOK
<1> HIDE DEF e
<1>5. \A a \in DOMAIN returned : returned[a] # e
  BY <1>1, <1>2 DEF OwnersOK, e
<1>6. DOMAIN returned # {}
  BY <1>1, EmptyMapFacts DEF NodesOK
<1>7. \A a \in DOMAIN returned : p <= a /\ \A q \in NextPivots(Current, p) : a < q
  <2>1. \A a \in DOMAIN returned : p <= a
    <3>1. Top = stack[Len(stack)]
      BY <1>1, TopFacts
    <3> QED BY <3>1 DEF OInv, ReturnOK
  <2>2. PICK r : /\ LimitsOK(r, node) /\ PartsOK(r, node, returned, {e})
    BY DEF OInv, e
  <2>3. ASSUME NEW a \in DOMAIN returned, NEW q \in NextPivots(Current, p) PROVE a < q
    <3>1. a <= r[returned[a]] /\ r[returned[a]] <= r[e]
      BY <2>2 DEF PartsOK
    <3>2. r[e] < q
      BY <1>2, <2>2 DEF LimitsOK, Current, e
    <3>3. r[returned[a]] \in Int /\ r[e] \in Int
      BY <1>1, <1>4, <2>2 DEF LimitsOK, NodesOK
    <3>4. a \in Int /\ q \in Int
      BY <1>1, <1>2, KeysAssumption DEF NodesOK, NodeOK, NextPivots, Current
    <3> QED BY <3>1, <3>2, <3>3, <3>4
  <2> QED BY <2>1, <2>3
<1>8. \A a \in DOMAIN View : \A q \in DOMAIN View[a].pivots : View[a].pivots[q] = e => a = top /\ q = p
  <2>1. ASSUME NEW a \in DOMAIN View, NEW q \in DOMAIN View[a].pivots, View[a].pivots[q] = e
        PROVE  a = top /\ q = p
    <3>1. CASE a = e
      BY <1>3, <1>5, <2>1, <3>1
    <3>2. CASE a # e
      <4>1. a \in DOMAIN node /\ q \in DOMAIN node[a].pivots /\ node[a].pivots[q] = e
        BY <1>3, <2>1, <3>2
      <4> QED BY <1>1, <1>2, <4>1 DEF OwnersOK, e
    <3> QED BY <3>1, <3>2
  <2> QED BY <2>1
<1>9. /\ DOMAIN u = DOMAIN node \ {e}
      /\ u[top].pivots = Replace(Current.pivots, p, returned)
      /\ u[top].elements = n.elements /\ u[top].given = {}
  <2>1. top \in DOMAIN node'
    BY <1>2, <1>4 DEF e
  <2>2. u[top] = [pivots |-> u[top].pivots, elements |-> u[top].elements, given |-> {}]
    BY <2>1 DEF Stays
  <2>3. /\ DOMAIN u = DOMAIN node' /\ u[top].pivots = node'[top].pivots
        /\ u[top].elements = n.elements
    BY <2>1 DEF Stays
  <2>4. u[top].given = {}
    BY <2>2
  <2> QED BY <1>2, <2>3, <2>4 DEF Current, e
<1>10. ASSUME NEW id \in DOMAIN u, id # top PROVE u[id] = View[id]
  <2>1. id \in DOMAIN node' /\ id \in DOMAIN node /\ id # e /\ node'[id] = node[id]
    BY <1>2, <1>9, <1>10 DEF Stays, e
  <2>2. View[id] = [pivots |-> View[id].pivots, elements |-> View[id].elements,
                    given |-> View[id].given]
    BY <2>1 DEF View, ViewOf
  <2>3. View[id].given = {} /\ View[id].pivots = node[id].pivots
    BY <1>3, <1>10, <2>1
  <2>4. /\ u[id] = [pivots |-> u[id].pivots, elements |-> u[id].elements, given |-> {}]
        /\ u[id].pivots = node[id].pivots /\ u[id].elements = View[id].elements
    BY <1>10, <2>1 DEF Stays
  <2> QED BY <2>2, <2>3, <2>4
<1>11. View[top].pivots[p] = e /\ NextPivots(View[top], p) = NextPivots(Current, p)
       /\ p \in DOMAIN View[top].pivots
  BY <1>2, <1>3 DEF e, Current, NextPivots
<1> HIDE DEF top, p
<1> QED BY <1>2, <1>3, <1>4, <1>5, <1>6, <1>7, <1>8, <1>9, <1>10, <1>11 DEF Joined, top, p

\* The flush() of a child has returned, and n has the pivots it was called with.
LEMMA ChildContents ==
  ASSUME CInv, stack # << >>, Top.fn = "flush", Top.pc \in {"direct", "batch"}, OInv',
         NEW n, NodeOK(n, DOMAIN node, next_timestamp), n.pivots = Current.pivots,
         n.elements = IF Top.pc = "batch" THEN Current.elements \ Batch(Current, Top.pivot)
                                          ELSE Current.elements,
         ChildReturned(n, Top.pivot),
         NEW pc \in {"end", "loop"}, stack' = At(pc, 0), returned' = EmptyMap,
         UNCHANGED <<root, next_timestamp, call, reference>>
  PROVE  CInv'
<1> DEFINE now == next_timestamp
           p   == Top.pivot
<1>1. /\ OInv /\ IInv /\ TidyStack(stack, node, call) /\ \A id \in DOMAIN node : TidyNode(node[id])
      /\ Valued(View, now, root, reference) /\ call = "upsert"
      /\ \A id \in Emptied(stack, node, root, returned) : node[id].elements = {}
  <2>1. /\ OInv /\ IInv /\ TidyStack(stack, node, call) /\ \A id \in DOMAIN node : TidyNode(node[id])
        /\ Valued(View, now, root, reference)
        /\ \A id \in Emptied(stack, node, root, returned) : node[id].elements = {}
    BY DEF CInv, OInv
  <2> QED BY <2>1, TopFacts
<1>2. /\ Len(stack) \in Nat \ {0} /\ Top = stack[Len(stack)] /\ Top.id \in DOMAIN node
      /\ NodeOK(Current, DOMAIN node, now) /\ p \in DOMAIN Current.pivots
      /\ \A i \in 1 .. Len(stack) - 1 : stack[i].id \in DOMAIN node /\ stack[i].id # Top.id
  BY <1>1, TopFacts DEF FrameOK, Current
<1>3. Batch(n, p) = {}
  <2>1. CASE Top.pc = "batch"
    <3>1. n.elements = Current.elements \ Batch(Current, p)
      BY <2>1
    <3> QED BY <3>1 DEF Batch, NextPivots
  <2>2. CASE Top.pc = "direct"
    <3>1. n.elements = Current.elements
      BY <2>2
    <3>2. Batch(Current, p) = {}
      <4>1. TidyFrame(stack[Len(stack)], node, call)
        BY <1>1, <1>2 DEF TidyStack
      <4> QED BY <1>2, <2>2, <4>1 DEF TidyFrame, Current
    <3> QED BY <3>1, <3>2 DEF Batch, NextPivots
  <2> QED BY <2>1, <2>2
<1>4. TidyNode(n)
  <2>1. TidyNode(Current)
    BY <1>1, <1>2 DEF Current
  <2>2. n.elements \subseteq Current.elements
    OBVIOUS
  <2>3. IsLeaf(n) <=> IsLeaf(Current)
    BY DEF IsLeaf
  <2>4. FirstPivot(n) = FirstPivot(Current)
    BY DEF FirstPivot
  <2> QED BY <2>1, <2>2, <2>3, <2>4 DEF TidyNode, Orderly
<1>5. CASE returned = EmptyMap
  <2>1. node' = [node EXCEPT ![Top.id] = n]
    BY <1>5 DEF ChildReturned
  <2>2. /\ DOMAIN node' = DOMAIN node /\ node'[Top.id] = n
        /\ \A id \in DOMAIN node : id # Top.id => node'[id] = node[id]
    BY <1>2, <2>1
  <2>3. Leaves(View, n)
    <3>1. View[Top.id] =
              [pivots   |-> Current.pivots,
               elements |-> IF Top.pc = "batch" THEN Current.elements \ Batch(Current, Top.pivot)
                                                ELSE Current.elements,
               given    |-> {}]
      BY <1>1, ViewTop
    <3> QED BY <3>1 DEF Leaves
  <2>4. \E c \in {"loop", "end", "adopt"} : stack' = At(c, 0)
    OBVIOUS
  <2> QED BY <1>1, <1>4, <1>5, <2>2, <2>3, <2>4, StayContents
<1>6. CASE returned # EmptyMap
  <2> DEFINE gone == Emptied(stack', node', root', returned')
             u    == View'
  <2>1. /\ Merges(node, Top.id, p, returned, node', now)
        /\ node'[Top.id].elements = n.elements
        /\ Emptied(stack, node, root, returned) = {node[Top.id].pivots[p]}
        /\ \A i \in 1 .. Len(stack) : stack[i].id # n.pivots[p]
    BY <1>1, <1>6, ChildMerges
  <2>2. gone = {}
    BY DEF Emptied
  <2>3. Stays(u, node', EmptyMap, {})
    <3>1. \E c \in {"loop", "end", "adopt"} : stack' = At(c, 0)
      OBVIOUS
    <3>2. Stays(ViewOf(stack', node', returned', gone), node', returned', gone)
      BY <1>1, <3>1, ViewStay
    <3>3. u = ViewOf(stack', node', returned', gone)
      BY DEF View
    <3> QED BY <2>2, <3>2, <3>3
  <2> HIDE DEF gone, u
  <2>4. Joined(u, View, Top.id, p)
    BY <1>1, <1>6, <2>1, <2>3, MergedView
  <2>5. PICK t, v : ViewOK(t, v, View, now) /\ v[root] = reference
    BY <1>1 DEF Valued
  <2>6. \E s, x : ViewOK(s, x, u, now) /\ \A i \in DOMAIN u : x[i] = v[i]
    <3> DEFINE top == Top.id
    <3>1. Joined(u, View, top, p)
      BY <2>4
    <3> HIDE DEF top, p, now
    <3> QED BY <2>5, <3>1, ViewMerge
  <2>7. PICK s, x : ViewOK(s, x, u, now) /\ \A i \in DOMAIN u : x[i] = v[i]
    BY <2>6
  <2>8. root \in DOMAIN u
    <3>1. root' \in DOMAIN node'
      BY DEF OInv, IInv, NodesOK
    <3> QED BY <2>3, <3>1 DEF Stays
  <2>9. Valued(u, now, root, reference)
    BY <2>5, <2>7, <2>8 DEF Valued
  <2>10. /\ DOMAIN node' \subseteq DOMAIN node /\ Top.id \in DOMAIN node'
         /\ \A id \in DOMAIN node' : id # Top.id => node'[id] = node[id]
         /\ node'[Top.id].pivots = Replace(Current.pivots, p, returned)
         /\ \A i \in 1 .. Len(stack) - 1 : node'[stack[i].id] = node[stack[i].id]
    <3>1. /\ DOMAIN node' = DOMAIN node \ {Current.pivots[p]}
          /\ \A id \in DOMAIN node' : id # Top.id => node'[id] = node[id]
          /\ node'[Top.id].pivots = Replace(Current.pivots, p, returned)
      BY <2>1 DEF Merges, Current
    <3>2. Top.id # Current.pivots[p]
      BY <1>2, <2>1
    <3>3. \A i \in 1 .. Len(stack) - 1 : stack[i].id \in DOMAIN node'
      BY <1>2, <2>1, <3>1
    <3> QED BY <1>2, <3>1, <3>2, <3>3
  <2>11. TidyNode(node'[Top.id])
    <3> DEFINE m == node'[Top.id]
    <3>1. DOMAIN m.pivots = (DOMAIN n.pivots \ {p}) \union DOMAIN returned
      BY <2>10 DEF Replace
    <3>2. DOMAIN m.pivots \subseteq Keys
      BY <1>1, <3>1 DEF IInv, NodesOK, NodeOK
    <3>3. m.elements = n.elements
      BY <2>1
    <3> HIDE DEF m
    <3>4. p \in DOMAIN n.pivots /\ DOMAIN n.pivots \ {p} \subseteq DOMAIN m.pivots
      BY <1>2, <3>1
    <3> HIDE DEF p, now
    <3>5. NodeOK(n, DOMAIN node, now)
      BY DEF now
    <3>6. TidyNode(m)
      BY <1>3, <1>4, <3>2, <3>3, <3>4, <3>5, ReplacedTidy
    <3> QED BY <3>6 DEF m
  <2>12. \A id \in DOMAIN node' : TidyNode(node'[id])
    BY <1>1, <2>10, <2>11
  <2>13. TidyStack(stack', node', call')
    <3>1. \E c \in {"loop", "end", "adopt"} : stack' = At(c, 0)
      OBVIOUS
    <3>2. TidyStack(stack', node', call)
      BY <1>1, <2>10, <3>1, TidyStay
    <3> QED BY <3>2
  <2>14. FoundOK'
    BY <1>1, <2>13, FlushFinds
  <2> QED BY <2>2, <2>9, <2>12, <2>13, <2>14 DEF CInv, gone, u
<1> QED BY <1>5, <1>6

\* Back from the shortcut ...
LEMMA DirectReturnedContents ==
  ASSUME CInv, DirectReturned
  PROVE  CInv'
<1>1. /\ stack # << >> /\ Top.fn = "flush" /\ Top.pc = "direct" /\ OInv /\ IInv
      /\ ChildReturned(Current, Top.pivot)
      /\ stack' = At("end", 0) /\ returned' = EmptyMap
      /\ UNCHANGED <<root, next_timestamp, call, reference>>
  BY DEF DirectReturned, Running, CInv, OInv
<1>2. NodeOK(Current, DOMAIN node, next_timestamp)
  BY <1>1, TopFacts
<1>3. OInv'
  BY <1>1, DirectReturnedOrder
<1> DEFINE n  == Current
           pc == "end"
<1>4. /\ pc \in {"end", "loop"} /\ Top.pc \in {"direct", "batch"} /\ stack' = At(pc, 0)
      /\ NodeOK(n, DOMAIN node, next_timestamp) /\ n.pivots = Current.pivots
      /\ n.elements = IF Top.pc = "batch" THEN Current.elements \ Batch(Current, Top.pivot)
                                          ELSE Current.elements
      /\ ChildReturned(n, Top.pivot)
  BY <1>1, <1>2
<1> HIDE DEF n, pc
<1> QED BY <1>1, <1>3, <1>4, ChildContents

\* ... and from a batch, which is erased.
LEMMA BatchReturnedContents ==
  ASSUME CInv, BatchReturned
  PROVE  CInv'
<1> DEFINE es == Current.elements \ Batch(Current, Top.pivot)
           n  == [Current EXCEPT !.elements = es]
           pc == "loop"
<1>1. /\ stack # << >> /\ Top.fn = "flush" /\ Top.pc = "batch" /\ OInv /\ IInv
      /\ ChildReturned(n, Top.pivot)
      /\ stack' = At("loop", 0) /\ returned' = EmptyMap
      /\ UNCHANGED <<root, next_timestamp, call, reference>>
  BY DEF BatchReturned, Running, CInv, OInv
<1>2. NodeOK(Current, DOMAIN node, next_timestamp) /\ FrameOK(Top, node)
  BY <1>1, TopFacts
<1>3. es \in Buffer(next_timestamp)
  BY <1>2, FS_Subset DEF NodeOK, Buffer
<1>4. ~IsLeaf(Current)
  BY <1>1, <1>2 DEF FrameOK, IsLeaf, Current
<1>5. OInv'
  BY <1>1, BatchReturnedOrder
<1>6. es = IF Top.pc = "batch" THEN Current.elements \ Batch(Current, Top.pivot)
                               ELSE Current.elements
  BY <1>1
<1>7. pc \in {"end", "loop"} /\ Top.pc \in {"direct", "batch"} /\ stack' = At(pc, 0)
  BY <1>1
<1> HIDE DEF es, pc
<1>8. NodeOK(n, DOMAIN node, next_timestamp) /\ n.pivots = Current.pivots /\ n.elements = es
  BY <1>2, <1>3, <1>4, ElementsOK
<1> HIDE DEF n
<1> QED BY <1>1, <1>5, <1>6, <1>7, <1>8, ChildContents

-----------------------------------------------------------------------------
(* The ends and starts of calls. *)

\* Without activations a view is the tree but for the node that was split ...
LEMMA IdleView ==
  ASSUME NEW nodes, NEW parts, NEW gone
  PROVE  LET u == ViewOf(<< >>, nodes, parts, gone)
         IN  /\ DOMAIN u = DOMAIN nodes
             /\ \A id \in DOMAIN nodes :
                   u[id] = [pivots   |-> IF id \in gone THEN parts ELSE nodes[id].pivots,
                            elements |-> nodes[id].elements, given |-> {}]
<1>1. \A id : Given(<< >>, id) = {}
  BY DEF Given
<1>2. \A id : nodes[id].elements \ Sent(<< >>, nodes, id) = nodes[id].elements
  BY DEF Sent
<1> QED BY <1>1, <1>2 DEF ViewOf

\* ... and with the first one of a call, it has what that was given.
Starts(u, nodes, fn, top, arg) ==
    /\ DOMAIN u = DOMAIN nodes
    /\ \A id \in DOMAIN nodes :
          u[id] = [pivots |-> nodes[id].pivots, elements |-> nodes[id].elements,
                   given  |-> IF fn = "flush" /\ id = top THEN arg ELSE {}]

LEMMA StartView ==
  ASSUME NEW nodes, NEW fn, NEW top, NEW arg, NEW parts
  PROVE  Starts(ViewOf(Append(<< >>, Activation(fn, top, arg)), nodes, parts, {}), nodes, fn, top, arg)
<1> DEFINE f   == Activation(fn, top, arg)
           new == << f >>
<1>1. f.fn = fn /\ f.id = top /\ f.arg = arg /\ f.pc \in {"count", "enter"}
  BY DEF Activation
<1>2. Append(<< >>, f) = new
  OBVIOUS
<1> HIDE DEF f
<1>3. Len(new) = 1 /\ new[1] = f /\ new # << >> /\ Last(new) = f
  BY DEF Last
<1> HIDE DEF new
<1>4. \A id : Given(new, id) = IF fn = "flush" /\ id = top THEN arg ELSE {}
  BY <1>1, <1>3 DEF Given
<1>5. \A id : nodes[id].elements \ Sent(new, nodes, id) = nodes[id].elements
  BY <1>1, <1>3 DEF Sent
<1>6. Starts(ViewOf(new, nodes, parts, {}), nodes, fn, top, arg)
  BY <1>4, <1>5 DEF Starts, ViewOf
<1> QED BY <1>2, <1>6 DEF f

\* Between calls the view is the tree.
LEMMA ViewBetween ==
  ASSUME CInv, call = "none"
  PROVE  /\ stack = << >> /\ returned = EmptyMap /\ DOMAIN View = DOMAIN node
         /\ \A id \in DOMAIN node :
               View[id] = [pivots |-> node[id].pivots, elements |-> node[id].elements, given |-> {}]
<1>1. stack = << >> /\ returned = EmptyMap
  BY DEF CInv, OInv, IInv, FramesOK
<1>2. Emptied(stack, node, root, returned) = {}
  BY <1>1 DEF Emptied
<1> QED BY <1>1, <1>2, ViewIdle

\* The first activation of a call is tidy, and nothing has been found yet.
LEMMA StartTidy ==
  ASSUME NEW fn, NEW top, NEW arg, NEW nodes, NEW client, fn = "flush" <=> client = "upsert"
  PROVE  LET new == Append(<< >>, Activation(fn, top, arg))
         IN  TidyStack(new, nodes, client) /\ Last(new).pc # "below"
<1> DEFINE f   == Activation(fn, top, arg)
           new == << f >>
<1>1. f.fn = fn /\ f.pc \in {"count", "enter"}
  BY DEF Activation
<1>2. Append(<< >>, f) = new
  OBVIOUS
<1> HIDE DEF f
<1>3. Len(new) = 1 /\ new[1] = f /\ Last(new) = f
  BY DEF Last
<1> HIDE DEF new
<1>4. TidyStack(new, nodes, client) /\ Last(new).pc # "below"
  BY <1>1, <1>3 DEF TidyStack, TidyFrame
<1> QED BY <1>2, <1>4 DEF f

\* An upsert gives its message to the root, and takes effect at once.
LEMMA UpsertContents ==
  ASSUME CInv, NEW op \in Ops, NEW k \in Keys, Upsert(op, k)
  PROVE  CInv'
<1> DEFINE val  == IF op = "delete" THEN Default ELSE <<next_timestamp>>
           m    == [key |-> k, ts |-> next_timestamp, op |-> op, val |-> val]
           now  == next_timestamp
           gone == Emptied(stack', node', root', returned')
           u    == View'
           arg  == {m}
           fn   == "flush"
<1>1. /\ call = "none" /\ call' = "upsert" /\ UNCHANGED <<node, root, returned>>
      /\ stack' = Append(<< >>, Activation(fn, root, arg))
      /\ next_timestamp' = now + 1
      /\ reference' = [reference EXCEPT ![k] = Reference!Effect(op, val, @)]
  BY DEF Upsert, Call
<1>2. /\ stack = << >> /\ returned = EmptyMap /\ DOMAIN View = DOMAIN node
      /\ \A id \in DOMAIN node :
            View[id] = [pivots |-> node[id].pivots, elements |-> node[id].elements, given |-> {}]
  BY <1>1, ViewBetween
<1>3. /\ OInv /\ NodesOK(node, root, returned, next_id, now) /\ OwnersOK(node, root, returned)
      /\ \A id \in DOMAIN node : TidyNode(node[id])
  BY DEF CInv, OInv, IInv
<1>4. OInv'
  BY <1>3, UpsertOrder
<1>5. gone = {}
  BY <1>1, <1>2 DEF Emptied
<1>6. m \in Message(now + 1) /\ m.ts = now /\ m.key = k /\ m.op = op /\ m.val = val
  <2>1. op \in Opcodes
    BY OpsAssumption
  <2>2. val \in Seq(Nat) /\ now \in 1 .. now /\ now \in Nat
    BY <1>3 DEF NodesOK, Default
  <2> HIDE DEF val, now
  <2>3. now \in 1 .. (now + 1) - 1
    BY <2>2
  <2> QED BY <2>1, <2>2, <2>3 DEF Message, now
<1> HIDE DEF m
<1>7. Starts(u, node, fn, root, arg)
  <2>1. u = ViewOf(stack', node', returned', gone)
    BY DEF View
  <2> HIDE DEF arg, fn, u
  <2>2. u = ViewOf(Append(<< >>, Activation(fn, root, arg)), node, returned, {})
    BY <1>1, <1>5, <2>1
  <2> QED BY <2>2, StartView
<1> HIDE DEF u, gone
<1>8. TidyStack(stack', node', call') /\ Last(stack').pc # "below"
  <2>1. fn = "flush" <=> call' = "upsert"
    BY <1>1
  <2> HIDE DEF fn, arg
  <2> QED BY <1>1, <2>1, StartTidy
<1>9. FoundOK'
  BY <1>8 DEF FoundOK, Running, Top
<1>10. PICK t, v : ViewOK(t, v, View, now) /\ v[root] = reference
  BY DEF CInv, Valued
<1>11. \E s, x : /\ ViewOK(s, x, u, now + 1)
                 /\ x[root] = [v[root] EXCEPT ![m.key] =
                                   Reference!Effect(m.op, m.val, v[root][m.key])]
  <2> DEFINE w == View
  <2>1. /\ root \in DOMAIN w /\ w[root].given = {} /\ DOMAIN u = DOMAIN w
        /\ \A a \in DOMAIN w : \A q \in DOMAIN w[a].pivots : w[a].pivots[q] # root
    BY <1>2, <1>3, <1>7 DEF NodesOK, OwnersOK, Starts
  <2>2. /\ u[root].pivots = w[root].pivots /\ u[root].elements = w[root].elements
        /\ u[root].given = {m}
    <3>1. root \in DOMAIN node
      BY <1>3 DEF NodesOK
    <3>2. u[root] = [pivots |-> node[root].pivots, elements |-> node[root].elements,
                     given |-> {m}]
      BY <1>7, <3>1 DEF Starts
    <3> QED BY <1>2, <3>1, <3>2
  <2>3. \A i \in DOMAIN w : i # root => u[i] = w[i]
    BY <1>2, <1>7 DEF Starts
  <2>4. now \in Nat /\ now > 0
    BY <1>3 DEF NodesOK
  <2> HIDE DEF w, now
  <2>5. ViewOK(t, v, w, now)
    BY <1>10 DEF w
  <2> QED BY <1>6, <2>1, <2>2, <2>3, <2>4, <2>5, ViewCall
<1>12. Valued(u, next_timestamp', root', reference')
  <2>1. PICK s, x : /\ ViewOK(s, x, u, now + 1)
                    /\ x[root] = [v[root] EXCEPT ![m.key] =
                                   Reference!Effect(m.op, m.val, v[root][m.key])]
    BY <1>11
  <2>2. x[root] = reference'
    BY <1>1, <1>6, <1>10, <2>1
  <2> QED BY <1>1, <2>1, <2>2 DEF Valued
<1>13. \A id \in DOMAIN node' : TidyNode(node'[id])
  BY <1>1, <1>3
<1> QED BY <1>4, <1>5, <1>8, <1>9, <1>12, <1>13 DEF CInv, u, gone

\* A query starts, and changes nothing.
LEMMA QueryContents ==
  ASSUME CInv, NEW k \in Keys, Query(k)
  PROVE  CInv'
<1> DEFINE now  == next_timestamp
           gone == Emptied(stack', node', root', returned')
           u    == View'
           fn   == "query"
<1>1. /\ call = "none" /\ call' = "query"
      /\ UNCHANGED <<node, root, returned, next_timestamp, reference>>
      /\ stack' = Append(<< >>, Activation(fn, root, k))
  BY DEF Query, Call
<1>2. /\ stack = << >> /\ returned = EmptyMap /\ DOMAIN View = DOMAIN node
      /\ \A id \in DOMAIN node :
            View[id] = [pivots |-> node[id].pivots, elements |-> node[id].elements, given |-> {}]
  BY <1>1, ViewBetween
<1>3. OInv /\ \A id \in DOMAIN node : TidyNode(node[id])
  BY DEF CInv
<1>4. OInv'
  BY <1>3, QueryOrder
<1>5. gone = {}
  BY <1>1, <1>2 DEF Emptied
<1>6. Starts(u, node, fn, root, k)
  <2>1. u = ViewOf(stack', node', returned', gone)
    BY DEF View
  <2> HIDE DEF fn, u
  <2>2. u = ViewOf(Append(<< >>, Activation(fn, root, k)), node, returned, {})
    BY <1>1, <1>5, <2>1
  <2> QED BY <2>2, StartView
<1> HIDE DEF u, gone
<1>7. TidyStack(stack', node', call') /\ Last(stack').pc # "below"
  <2>1. fn = "flush" <=> call' = "upsert"
    BY <1>1
  <2> HIDE DEF fn
  <2> QED BY <1>1, <2>1, StartTidy
<1>8. FoundOK'
  BY <1>7 DEF FoundOK, Running, Top
<1>9. DOMAIN u = DOMAIN View /\ \A id \in DOMAIN View : u[id] = View[id]
  BY <1>2, <1>6 DEF Starts
<1>10. Valued(u, next_timestamp', root', reference')
  <2>1. Valued(View, next_timestamp, root, reference)
    BY DEF CInv
  <2> DEFINE w == View
  <2>2. Valued(w, next_timestamp, root, reference) /\ DOMAIN u = DOMAIN w
        /\ \A id \in DOMAIN w : u[id] = w[id]
    BY <1>9, <2>1
  <2> HIDE DEF w
  <2>3. Valued(u, next_timestamp, root, reference)
    BY <2>2, ValuedSame
  <2> QED BY <1>1, <2>3
<1>11. \A id \in DOMAIN node' : TidyNode(node'[id])
  BY <1>1, <1>3
<1> QED BY <1>4, <1>5, <1>7, <1>8, <1>10, <1>11 DEF CInv, u, gone

\* An upsert ends, with a root above the parts of the old one or without.
LEMMA UpsertReturnContents ==
  ASSUME CInv, UpsertReturn
  PROVE  CInv'
<1> DEFINE now  == next_timestamp
           gone == Emptied(stack', node', root', returned')
           u    == View'
<1>1. /\ stack = << >> /\ stack' = << >> /\ returned' = EmptyMap
      /\ next_timestamp' = now /\ reference' = reference
  BY DEF UpsertReturn
<1>2. /\ OInv /\ IInv /\ NodesOK(node, root, returned, next_id, now)
      /\ OwnersOK(node, root, returned) /\ \A id \in DOMAIN node : TidyNode(node[id])
      /\ \A id \in Emptied(stack, node, root, returned) : node[id].elements = {}
      /\ Valued(View, now, root, reference)
  BY DEF CInv, OInv, IInv
<1>3. OInv'
  BY <1>2, UpsertReturnOrder
<1>4. gone = {}
  BY <1>1 DEF Emptied
<1>5. /\ DOMAIN u = DOMAIN node'
      /\ \A id \in DOMAIN node' :
            u[id] = [pivots |-> node'[id].pivots, elements |-> node'[id].elements, given |-> {}]
  <2>1. u = ViewOf(stack', node', returned', gone)
    BY DEF View
  <2> DEFINE more == node'
  <2> HIDE DEF u, gone, more
  <2>2. u = ViewOf(<< >>, more, EmptyMap, {})
    BY <1>1, <1>4, <2>1 DEF more
  <2>3. /\ DOMAIN u = DOMAIN more
        /\ \A id \in DOMAIN more :
              u[id] = [pivots |-> more[id].pivots, elements |-> more[id].elements, given |-> {}]
    BY <2>2, IdleView
  <2> QED BY <2>3 DEF more
<1>6. TidyStack(stack', node', call')
  BY <1>1 DEF TidyStack
<1>7. FoundOK'
  BY <1>1 DEF FoundOK, Running
<1>8. /\ DOMAIN View = DOMAIN node
      /\ \A id \in DOMAIN node :
            View[id] = [pivots   |-> IF id \in Emptied(stack, node, root, returned)
                                     THEN returned ELSE node[id].pivots,
                        elements |-> node[id].elements, given |-> {}]
  BY <1>1, ViewIdle
<1> HIDE DEF u, gone
<1>9. CASE returned = EmptyMap
  <2>1. node' = node /\ root' = root
    BY <1>9 DEF UpsertReturn
  <2>2. Emptied(stack, node, root, returned) = {}
    BY <1>9 DEF Emptied
  <2>3. DOMAIN u = DOMAIN View /\ \A id \in DOMAIN View : u[id] = View[id]
    BY <1>5, <1>8, <2>1, <2>2
  <2>4. Valued(u, next_timestamp', root', reference')
    <3> DEFINE w == View
    <3>1. Valued(w, now, root, reference) /\ DOMAIN u = DOMAIN w /\ \A id \in DOMAIN w : u[id] = w[id]
      BY <1>2, <2>3
    <3> HIDE DEF w
    <3>2. Valued(u, now, root, reference)
      BY <3>1, ValuedSame
    <3> QED BY <1>1, <2>1, <3>2
  <2>5. \A id \in DOMAIN node' : TidyNode(node'[id])
    BY <1>2, <2>1
  <2> QED BY <1>3, <1>4, <1>6, <1>7, <2>4, <2>5 DEF CInv, u, gone
<1>10. CASE returned # EmptyMap
  <2>1. Grows(node, root, returned, next_id, node') /\ root' = next_id
    BY <1>2, <1>10, UpsertGrows DEF UpsertReturn
  <2>2. /\ DOMAIN node' = (DOMAIN node \ {root}) \union {next_id}
        /\ \A i \in DOMAIN node : i # root => node'[i] = node[i]
        /\ node'[next_id].pivots = returned /\ node'[next_id].elements = {}
    BY <2>1 DEF Grows
  <2>3. Emptied(stack, node, root, returned) = {root}
    BY <1>1, <1>10 DEF Emptied
  <2>4. root \in DOMAIN node /\ next_id \notin DOMAIN node
    BY <1>2 DEF NodesOK
  <2>5. PICK t, v : ViewOK(t, v, View, now) /\ v[root] = reference
    BY <1>2 DEF Valued
  <2>6. \E s, x : ViewOK(s, x, u, now) /\ x[next_id] = v[root]
    <3> DEFINE w   == View
               new == next_id
               top == root
    <3>1. /\ top \in DOMAIN w /\ new \notin DOMAIN w
          /\ DOMAIN u = (DOMAIN w \ {top}) \union {new}
      BY <1>5, <1>8, <2>2, <2>4
    <3>2. \A a \in DOMAIN w : \A q \in DOMAIN w[a].pivots : w[a].pivots[q] # top
      BY <1>2, <1>8, <2>3 DEF OwnersOK
    <3>3. u[new] = w[top]
      <4>1. u[next_id] = [pivots |-> returned, elements |-> {}, given |-> {}]
        BY <1>5, <2>2
      <4>2. View[root] = [pivots |-> returned, elements |-> {}, given |-> {}]
        BY <1>2, <1>8, <2>3, <2>4
      <4> QED BY <4>1, <4>2
    <3>4. \A i \in DOMAIN w : i # top => u[i] = w[i]
      BY <1>5, <1>8, <2>2, <2>3
    <3>5. ViewOK(t, v, w, now)
      BY <2>5
    <3> HIDE DEF w, new, top, now
    <3>6. \E s, x : ViewOK(s, x, u, now) /\ x[new] = v[top]
      BY <3>1, <3>2, <3>3, <3>4, <3>5, ViewGrow
    <3> QED BY <3>6 DEF new, top
  <2>7. Valued(u, next_timestamp', root', reference')
    <3>1. PICK s, x : ViewOK(s, x, u, now) /\ x[next_id] = v[root]
      BY <2>6
    <3> QED BY <1>1, <2>1, <2>5, <3>1 DEF Valued
  <2>8. \A id \in DOMAIN node' : TidyNode(node'[id])
    BY <1>2, <2>2 DEF TidyNode, Orderly
  <2> QED BY <1>3, <1>4, <1>6, <1>7, <2>7, <2>8 DEF CInv, u, gone
<1> QED BY <1>9, <1>10

\* The view stays the same while a query runs.
LEMMA QueryView ==
  ASSUME CInv, stack # << >>, Top.fn = "query", UNCHANGED <<node, root, returned>>,
         \/ stack' = Front(stack)
         \/ \E pc \in {"loop", "end", "adopt"} : stack' = At(pc, 0)
         \/ \E p, c, arg : stack' = Append(At("below", p), Activation(Top.fn, c, arg))
  PROVE  /\ Emptied(stack', node', root', returned') = {}
         /\ DOMAIN View' = DOMAIN View /\ \A id \in DOMAIN View : View'[id] = View[id]
         /\ DOMAIN View = DOMAIN node
         /\ \A id \in DOMAIN node : View[id].pivots = node[id].pivots /\ View[id].given = {}
         /\ View[Top.id].elements = Current.elements /\ Top.id \in DOMAIN node
<1> DEFINE u    == View'
           gone == Emptied(stack', node', root', returned')
<1>1. /\ OInv /\ IInv /\ returned = EmptyMap /\ Top.id \in DOMAIN node /\ Top.pc # "batch"
  <2>1. OInv /\ IInv
    BY DEF CInv, OInv
  <2>2. Top.pc \notin {"direct", "batch"}
    BY <2>1, TopFacts DEF Queries, Flushes
  <2> QED BY <2>1, <2>2, TopFacts DEF FrameOK
<1>2. gone = {} /\ Emptied(stack, node, root, returned) = {}
  BY <1>1 DEF Emptied
<1>3. /\ DOMAIN View = DOMAIN node
      /\ \A id \in DOMAIN node : View[id].pivots = node[id].pivots /\ View[id].given = {}
      /\ View[Top.id].elements = Current.elements
  <2>1. /\ View[Top.id] = [pivots |-> Current.pivots, elements |-> Current.elements, given |-> {}]
        /\ DOMAIN View = DOMAIN node
        /\ \A id \in DOMAIN node : /\ id # Top.id => View[id].given = {}
                                   /\ View[id].pivots = node[id].pivots
    BY <1>1, <1>2, ViewTop
  <2> QED BY <2>1
<1>4. u = ViewOf(stack', node, returned, gone)
  BY DEF View
<1> HIDE DEF u, gone
<1>5. /\ DOMAIN u = DOMAIN node
      /\ \A id \in DOMAIN node :
            /\ u[id] = [pivots |-> u[id].pivots, elements |-> u[id].elements, given |-> {}]
            /\ u[id].pivots = node[id].pivots
            /\ u[id].elements = View[id].elements
  <2>1. CASE \/ stack' = Front(stack)
             \/ \E pc \in {"loop", "end", "adopt"} : stack' = At(pc, 0)
    <3>1. Stays(u, node, returned, gone)
      BY <1>1, <1>4, <2>1, ViewStay
    <3> QED BY <1>2, <1>3, <3>1 DEF Stays, Current
  <2>2. CASE \E p, c, arg : stack' = Append(At("below", p), Activation(Top.fn, c, arg))
    <3>1. PICK p, c, arg : stack' = Append(At("below", p), Activation(Top.fn, c, arg))
      BY <2>2
    <3> DEFINE pc == "below"
    <3>2. u = ViewOf(Append(At(pc, p), Activation(Top.fn, c, arg)), node, returned, gone)
      BY <1>4, <3>1
    <3>3. pc # "batch"
      OBVIOUS
    <3> HIDE DEF pc
    <3>4. Descends(u, node, returned, gone, pc, p, c, arg)
      BY <1>1, <3>2, ViewDown
    <3> QED BY <1>2, <1>3, <3>3, <3>4 DEF Descends, Current
  <2> QED BY <2>1, <2>2
<1>6. ASSUME NEW id \in DOMAIN node PROVE u[id] = View[id]
  <2>1. View[id] = [pivots |-> View[id].pivots, elements |-> View[id].elements,
                    given |-> View[id].given]
    BY DEF View, ViewOf
  <2>2. View[id].given = {} /\ View[id].pivots = node[id].pivots
    BY <1>3
  <2> QED BY <1>5, <2>1, <2>2
<1>7. DOMAIN u = DOMAIN View /\ \A id \in DOMAIN View : u[id] = View[id]
  BY <1>3, <1>5, <1>6
<1> QED BY <1>1, <1>2, <1>3, <1>7 DEF u, gone

\* A query asks a child.
LEMMA QueryDownContents ==
  ASSUME CInv, QueryDown
  PROVE  CInv'
<1> DEFINE c    == Current.pivots[GetPivot(Current, Top.arg)]
           arg  == Top.arg
           now  == next_timestamp
           gone == Emptied(stack', node', root', returned')
           u    == View'
<1>1. /\ stack # << >> /\ Top.fn = "query" /\ AsksChild
      /\ stack' = Append(At("below", 0), Activation(Top.fn, c, arg))
      /\ UNCHANGED <<node, root, next_timestamp, returned, call, reference>>
  BY DEF QueryDown, Running, Call
<1>2. OInv /\ TidyStack(stack, node, call) /\ \A id \in DOMAIN node : TidyNode(node[id])
  BY DEF CInv
<1>3. OInv'
  BY <1>2, QueryDownOrder
<1>4. gone = {} /\ DOMAIN u = DOMAIN View /\ \A id \in DOMAIN View : u[id] = View[id]
  <2>1. \E p, e, x : stack' = Append(At("below", p), Activation(Top.fn, e, x))
    BY <1>1
  <2> QED BY <1>1, <2>1, QueryView
<1> HIDE DEF u, gone
<1> DEFINE pc == "below"
           p  == 0
<1>5. TidyCall(Current, pc, p, c, arg)
  BY <1>1 DEF TidyCall, AsksChild
<1>6. stack' = Append(At(pc, p), Activation(Top.fn, c, arg))
  BY <1>1
<1> HIDE DEF c, arg, pc, p
<1>7. TidyStack(stack', node', call')
  <2>1. TidyStack(Append(At(pc, p), Activation(Top.fn, c, arg)), node, call)
    BY <1>1, <1>2, <1>5, TidyDown DEF Current
  <2> QED BY <1>1, <1>6, <2>1
<1>8. FoundOK'
  <2>1. Called(stack', pc, p, c, arg)
    BY <1>1, <1>2, <1>6, DownStack
  <2>2. Last(stack').pc # "below"
    BY <2>1 DEF Called
  <2> QED BY <2>2 DEF FoundOK, Running, Top
<1>9. Valued(u, next_timestamp', root', reference')
  <2> DEFINE w == View
  <2>1. Valued(w, now, root, reference) /\ DOMAIN u = DOMAIN w /\ \A id \in DOMAIN w : u[id] = w[id]
    BY <1>4 DEF CInv
  <2> HIDE DEF w
  <2>2. Valued(u, now, root, reference)
    BY <2>1, ValuedSame
  <2> QED BY <1>1, <2>2
<1>10. \A id \in DOMAIN node' : TidyNode(node'[id])
  BY <1>1, <1>2
<1> QED BY <1>3, <1>4, <1>7, <1>8, <1>9, <1>10 DEF CInv, u, gone

\* What node::query returns is what the messages of its node and those below come to.
Answered == Eval(Current.elements, Top.arg, IF Top.pc = "below" THEN found ELSE None)

LEMMA QueryAnswer ==
  ASSUME CInv, QueryFound
  PROVE  \A t, v : ViewOK(t, v, View, next_timestamp) => Answered = v[Top.id][Top.arg]
<1> DEFINE k   == Top.arg
           now == next_timestamp
           top == Top.id
           n   == Current
           es  == n.elements
<1>1. /\ stack # << >> /\ Top.fn = "query" /\ UNCHANGED <<node, root, returned>>
      /\ \/ Top.pc = "enter" /\ ~AsksChild
         \/ Top.pc = "below"
      /\ \/ stack' = Front(stack)
         \/ \E pc \in {"loop", "end", "adopt"} : stack' = At(pc, 0)
  BY DEF QueryFound, Running, QueryReturn, Return
<1>2. /\ DOMAIN View = DOMAIN node /\ View[top].pivots = n.pivots /\ View[top].given = {}
      /\ View[top].elements = es /\ top \in DOMAIN node
  BY <1>1, QueryView DEF Current
<1>3. k \in Keys /\ FoundOK
  <2>1. Top \in Flushes(now) \union Queries
    BY <1>1, TopFacts DEF CInv, OInv
  <2> QED BY <1>1, <2>1 DEF Flushes, Queries, CInv
<1> SUFFICES ASSUME NEW t, NEW v, ViewOK(t, v, View, now)
             PROVE  Answered = v[top][k]
  OBVIOUS
<1>4. v[top][k] = Eval(es, k, Below(v, n, k))
  <2>1. ValuesOK(t, v, View[top], top)
    <3> HIDE DEF top, now
    <3> QED BY <1>2, ViewFacts
  <2>2. v[top][k] = Eval(View[top].given, k, Eval(View[top].elements, k, Below(v, View[top], k)))
    BY <1>3, <2>1 DEF ValuesOK
  <2>3. Below(v, View[top], k) = Below(v, n, k)
    BY <1>2 DEF Below, IsLeaf, FirstPivot, GetPivot
  <2>4. \A y : Eval(View[top].given, k, y) = y
    BY <1>2 DEF Eval, For
  <2> QED BY <1>2, <2>2, <2>3, <2>4
<1>5. CASE Top.pc = "below"
  <2>1. found = Below(v, n, k)
    BY <1>1, <1>3, <1>5 DEF FoundOK, Running
  <2> QED BY <1>4, <1>5, <2>1 DEF Answered
<1>6. CASE Top.pc = "enter" /\ ~AsksChild
  <2>1. Answered = Eval(es, k, None)
    BY <1>6 DEF Answered
  <2>2. CASE IsLeaf(n) \/ ~(FirstPivot(n) <= k)
    BY <1>4, <2>1, <2>2 DEF Below
  <2>3. CASE ~NeedsBelow(es, k)
    <3>1. For(es, k) # {} /\ Earliest(For(es, k)).op # "update"
      BY <2>3 DEF NeedsBelow
    <3>2. Earliest(For(es, k)).op \in {"insert", "delete"}
      <4>1. es \in Buffer(now) /\ Orderly(es)
        BY <1>2 DEF CInv, OInv, IInv, NodesOK, NodeOK, TidyNode, Current
      <4> HIDE DEF es, now, k
      <4>2. Earliest(For(es, k)) \in For(es, k)
        BY <3>1, <4>1, EarliestIn
      <4>3. Earliest(For(es, k)) \in es
        BY <4>2 DEF For
      <4>4. Earliest(For(es, k)).op \in Opcodes
        BY <4>1, <4>3 DEF Buffer, Message
      <4> QED BY <3>1, <4>4 DEF Opcodes
    <3>3. \A y : Eval(es, k, y) = Eval(es, k, None)
      <4> HIDE DEF es, k
      <4>1. CASE Earliest(For(es, k)).op = "insert"
        BY <3>1, <4>1 DEF Eval
      <4>2. CASE Earliest(For(es, k)).op = "delete"
        BY <3>1, <4>2 DEF Eval
      <4> QED BY <3>2, <4>1, <4>2
    <3> QED BY <1>4, <2>1, <3>3
  <2> QED BY <1>6, <2>2, <2>3 DEF AsksChild
<1> QED BY <1>1, <1>5, <1>6

\* The activation that asked finds it.
LEMMA QueryFoundContents ==
  ASSUME CInv, QueryFound
  PROVE  CInv'
<1> DEFINE now  == next_timestamp
           gone == Emptied(stack', node', root', returned')
           u    == View'
           len  == Len(stack)
<1>1. /\ stack # << >> /\ Top.fn = "query"
      /\ UNCHANGED <<node, root, next_timestamp, returned, reference>>
      /\ found' = Answered
      /\ \/ stack' = At("adopt", 0) /\ call' = call
         \/ stack' = Front(stack) /\ call' = IF len = 1 THEN "none" ELSE call
  BY DEF QueryFound, Running, QueryReturn, Return, Answered
<1>2. /\ OInv /\ IInv /\ TidyStack(stack, node, call) /\ \A id \in DOMAIN node : TidyNode(node[id])
      /\ Valued(View, now, root, reference)
  BY DEF CInv, OInv
<1>3. OInv'
  BY <1>2, QueryFoundOrder
<1>4. \/ stack' = Front(stack)
      \/ \E pc \in {"loop", "end", "adopt"} : stack' = At(pc, 0)
  BY <1>1
<1>5. /\ gone = {} /\ DOMAIN u = DOMAIN View /\ \A id \in DOMAIN View : u[id] = View[id]
      /\ DOMAIN View = DOMAIN node
      /\ \A id \in DOMAIN node : View[id].pivots = node[id].pivots
  BY <1>1, <1>4, QueryView
<1>6. /\ len \in Nat \ {0} /\ Top = stack[len]
      /\ Front(stack) \in Seq(Flushes(now) \union Queries) /\ Len(Front(stack)) = len - 1
      /\ \A i \in 1 .. len - 1 : Front(stack)[i] = stack[i]
  <2> DEFINE F == Flushes(now) \union Queries
  <2>1. stack \in Seq(F) /\ Top = stack[len]
    BY <1>1, <1>2, TopFacts
  <2> HIDE DEF F
  <2> QED BY <1>1, <2>1, FrontAndLast DEF F
<1> HIDE DEF u, gone
<1>7. TidyStack(stack', node', call')
  <2>1. TidyStack(stack', node, call)
    BY <1>1, <1>2, <1>4, TidyStay
  <2>2. CASE stack' = Front(stack) /\ len = 1
    <3>1. Len(stack') = 0
      BY <1>6, <2>2
    <3> QED BY <3>1 DEF TidyStack
  <2>3. CASE call' = call
    BY <1>1, <2>1, <2>3
  <2> QED BY <1>1, <2>2, <2>3
<1>8. FoundOK'
  <2> SUFFICES ASSUME stack' # << >>, Last(stack').pc = "below",
                      NEW t, NEW v, ViewOK(t, v, u, now)
               PROVE  found' = Below(v, node'[Last(stack').id], Last(stack').arg)
    BY <1>1 DEF FoundOK, Running, Top, Current, u
  <2>1. stack' = Front(stack)
    <3>1. SUFFICES ASSUME stack' = At("adopt", 0) PROVE FALSE
      BY <1>1
    <3>2. \E pc \in {"loop", "end", "adopt"} : stack' = At(pc, 0)
      BY <3>1
    <3>3. Last(stack').pc \in {"loop", "end", "adopt"}
      <4> DEFINE f == [Top EXCEPT !.pc = "adopt", !.pivot = 0]
      <4>1. f.pc = "adopt"
        BY <1>1, <1>2, TopFacts DEF Queries, Flushes
      <4>2. Last(At("adopt", 0)) = f
        <5> DEFINE st == Front(stack)
                   F  == Flushes(now) \union Queries \union {f}
        <5>1. st \in Seq(F)
          BY <1>6, WiderSeq
        <5>2. f \in F
          OBVIOUS
        <5> HIDE DEF st, F, f
        <5>3. Append(st, f) # << >> /\ Len(Append(st, f)) = Len(st) + 1 /\ Append(st, f)[Len(st) + 1] = f
          BY <5>1, <5>2, Pushed
        <5> QED BY <5>3 DEF At, Last, st, f
      <4> QED BY <3>1, <4>1, <4>2
    <3> QED BY <3>3
  <2> DEFINE f == stack[len - 1]
             n == node[f.id]
  <2>2. len > 1 /\ Last(stack') = f
    <3>1. len - 1 # 0
      <4> SUFFICES ASSUME len - 1 = 0 PROVE FALSE
        OBVIOUS
      <4>1. Len(stack') = 0 /\ stack' \in Seq(Flushes(now) \union Queries)
        BY <1>6, <2>1
      <4> HIDE DEF now
      <4> QED BY <4>1, EmptySeq
    <3>2. Last(stack') = Front(stack)[len - 1]
      BY <1>6, <2>1 DEF Last
    <3> QED BY <1>6, <3>1, <3>2
  <2>3. /\ ~IsLeaf(n) /\ FirstPivot(n) <= f.arg
        /\ Top.arg = f.arg /\ Top.id = n.pivots[GetPivot(n, f.arg)]
    <3>1. len - 1 \in 1 .. len /\ len \in 1 .. len /\ f.pc = "below"
      BY <1>6, <2>2
    <3>2. TidyFrame(f, node, call) /\ Asks(f, stack[len], node)
      BY <1>2, <2>2, <3>1 DEF TidyStack
    <3> QED BY <1>6, <3>1, <3>2 DEF TidyFrame, Asks
  <2>4. Below(v, n, f.arg) = v[Top.id][Top.arg]
    BY <2>3 DEF Below
  <2>5. ViewOK(t, v, View, now)
    <3> DEFINE w == View
    <3>1. DOMAIN w = DOMAIN u /\ \A id \in DOMAIN u : w[id] = u[id]
      BY <1>5
    <3> HIDE DEF w, now
    <3>2. ViewOK(t, v, w, now)
      BY <3>1, ViewSame
    <3> QED BY <3>2 DEF w
  <2>6. Answered = v[Top.id][Top.arg]
    BY <2>5, QueryAnswer
  <2> QED BY <1>1, <2>2, <2>4, <2>6
<1>9. Valued(u, next_timestamp', root', reference')
  <2> DEFINE w == View
  <2>1. Valued(w, now, root, reference) /\ DOMAIN u = DOMAIN w /\ \A id \in DOMAIN w : u[id] = w[id]
    BY <1>2, <1>5
  <2> HIDE DEF w
  <2>2. Valued(u, now, root, reference)
    BY <2>1, ValuedSame
  <2> QED BY <1>1, <2>2
<1>10. \A id \in DOMAIN node' : TidyNode(node'[id])
  BY <1>1, <1>2
<1> QED BY <1>3, <1>5, <1>7, <1>8, <1>9, <1>10 DEF CInv, u, gone

\* The tree of one empty leaf holds nothing, and neither does the std::map.
LEMMA InitContents == Init => CInv
<1> SUFFICES ASSUME Init PROVE CInv
  OBVIOUS
<1> DEFINE leaf == NewNode(StartingEpsilon, 0)
           n    == [pivots |-> leaf.pivots, elements |-> leaf.elements, given |-> {}]
           t    == [id \in {1} |-> [k \in Keys |-> 0]]
           v    == [id \in {1} |-> [k \in Keys |-> None]]
           w    == View
           now  == next_timestamp
<1>1. /\ DOMAIN node = {1} /\ node[1] = leaf /\ root = 1 /\ now = 1
      /\ stack = << >> /\ returned = EmptyMap /\ reference = [k \in Keys |-> None]
  BY DEF Init
<1>2. DOMAIN leaf.pivots = {} /\ leaf.elements = {}
  BY DEF NewNode, EmptyMap
<1>3. OInv
  BY InitOrder
<1>4. Emptied(stack, node, root, returned) = {}
  BY <1>1 DEF Emptied
<1>5. DOMAIN w = {1} /\ w[1] = n
  BY <1>1, <1>4, ViewIdle
<1>6. DOMAIN n.pivots = {} /\ n.elements = {} /\ n.given = {} /\ n.pivots = leaf.pivots
  BY <1>2
<1>7. n.pivots \in [DOMAIN n.pivots -> {1}]
  BY <1>1, <1>3 DEF OInv, IInv, NodesOK, NodeOK
<1> HIDE DEF leaf, n, w, now
<1>8. ViewNode(n, {1}, now)
  <2>1. {} \in Buffer(now)
    BY FS_EmptySet DEF Buffer
  <2> QED BY <1>6, <1>7, <2>1 DEF ViewNode, Orderly
<1>9. TimesOK(t, n, 1)
  BY <1>6 DEF TimesOK, Held
<1>10. ValuesOK(t, v, n, 1)
  <2>1. \A k \in Keys : Below(v, n, k) = None
    BY <1>6 DEF Below, IsLeaf
  <2>2. \A k, y : Eval(n.given, k, y) = y /\ Eval(n.elements, k, y) = y
    BY <1>6 DEF Eval, For
  <2> QED BY <2>1, <2>2 DEF ValuesOK
<1>11. ViewOK(t, v, w, now)
  <2>1. t \in [{1} -> [Keys -> 0 .. now - 1]] /\ v \in [{1} -> [Keys -> Answers]]
    BY <1>1 DEF Answers
  <2> HIDE DEF t, v
  <2> QED BY <1>5, <1>8, <1>9, <1>10, <2>1 DEF ViewOK, ViewTypes
<1>12. v[root] = reference
  BY <1>1
<1>13. Valued(w, now, root, reference)
  <2> HIDE DEF t, v
  <2> QED BY <1>11, <1>12 DEF Valued
<1>14. TidyNode(node[1])
  BY <1>1, <1>2 DEF TidyNode, Orderly
<1>15. TidyStack(stack, node, call) /\ FoundOK
  BY <1>1 DEF TidyStack, FoundOK, Running
<1> QED BY <1>1, <1>3, <1>4, <1>13, <1>14, <1>15 DEF CInv, w, now

LEMMA ContentsKeeps == CInv /\ DirtyChildBufferEmpty /\ [Next]_vars => CInv'
<1> SUFFICES ASSUME CInv, DirtyChildBufferEmpty, [Next]_vars PROVE CInv'
  OBVIOUS
<1>1. CASE \E k \in Keys : Query(k) \/ \E op \in Ops : Upsert(op, k)
  BY <1>1, QueryContents, UpsertContents
<1>2. CASE FlushLeaf
  BY <1>2, FlushLeafContents
<1>3. CASE FlushDirect
  BY <1>3, FlushDirectContents
<1>4. CASE FlushBuffer
  BY <1>4, FlushBufferContents
<1>5. CASE FlushBatch
  BY <1>5, FlushBatchContents
<1>6. CASE FlushDone
  BY <1>6, FlushDoneContents
<1>7. CASE DirectReturned
  BY <1>7, DirectReturnedContents
<1>8. CASE DirectDone
  BY <1>8, DirectDoneContents
<1>9. CASE BatchReturned
  BY <1>9, BatchReturnedContents
<1>10. CASE UpsertReturn
  BY <1>10, UpsertReturnContents
<1>11. CASE QueryDown
  BY <1>11, QueryDownContents
<1>12. CASE QueryFound
  BY <1>12, QueryFoundContents
<1>13. CASE UNCHANGED vars
  <2>1. OInv'
    BY <1>13, OrderKeeps DEF CInv
  <2> QED BY <1>13, <2>1
          DEF vars, CInv, FoundOK, Running, Current, Top, View, Valued
<1> QED
  BY <1>1, <1>2, <1>3, <1>4, <1>5, <1>6, <1>7, <1>8, <1>9, <1>10, <1>11, <1>12, <1>13
  DEF Next, Step

\* Where each message is and what it comes to, as long as the shortcut passes no
\* message that is buffered.
THEOREM ContentsKept == Spec /\ []DirtyChildBufferEmpty => []CInv
  BY InitContents, ContentsKeeps, PTL DEF Spec

-----------------------------------------------------------------------------
(* What the invariant gives. *)

\* get_pivot finds what flushes and splits have put away: every pivot and message
\* below a pivot lies between it and the next one.
THEOREM KeysAreFound == Spec /\ []DirtyChildBufferEmpty => []Routing
<1>1. CInv => Routing
  <2> SUFFICES ASSUME CInv, NEW id \in DOMAIN node, NEW p \in DOMAIN node[id].pivots,
                      NEW c \in Subtree[node[id].pivots[p]], NEW k \in KeysOf(node[c])
               PROVE  k >= p /\ \A q \in NextPivots(node[id], p) : k < q
    BY DEF Routing
  <2> DEFINE n == node[c]
  <2>1. OInv
    BY DEF CInv
  <2>2. /\ c \in DOMAIN node /\ \A q \in NextPivots(node[id], p) : k < q
        /\ \A x \in Settled(n) : p <= x
    BY <2>1, SearchOrderIs
  <2>3. \A i \in DOMAIN node : NodeOK(node[i], DOMAIN node, next_timestamp)
    BY <2>1 DEF OInv, IInv, NodesOK
  <2>4. p \in Int /\ k \in Int /\ DOMAIN n.pivots \subseteq Keys
    <3>1. p \in KeysOf(node[id])
      BY DEF KeysOf
    <3> QED BY <2>2, <2>3, <3>1, KeysIn DEF NodeOK
  <2>5. CASE IsLeaf(n)
    <3>1. k \in Settled(n)
      BY <2>5 DEF KeysOf, Settled, IsLeaf
    <3> QED BY <2>2, <2>4, <3>1
  <2>6. CASE ~IsLeaf(n)
    <3>1. FirstPivot(n) \in DOMAIN n.pivots /\ \A x \in DOMAIN n.pivots : FirstPivot(n) <= x
      BY <2>4, <2>6, RangeIs
    <3>2. p <= FirstPivot(n) /\ FirstPivot(n) \in Int
      BY <2>2, <2>4, <2>6, <3>1, KeysAssumption DEF Settled
    <3>3. FirstPivot(n) <= k
      BY <2>2, <2>6, <3>1 DEF CInv, TidyNode, KeysOf
    <3> QED BY <2>2, <2>4, <3>2, <3>3
  <2> QED BY <2>5, <2>6
<1> QED BY <1>1, ContentsKept, PTL

\* The assertion of node::query on a buffer (betree.hpp:1078): behind the first
\* message for a key there are only updates.
THEOREM BuffersStayInOrder == Spec /\ []DirtyChildBufferEmpty => []BuffersInOrder
<1>1. CInv => BuffersInOrder
  <2> SUFFICES ASSUME CInv, NEW id \in DOMAIN node, NEW k \in Keys,
                      NEW a \in For(node[id].elements, k), NEW m \in For(node[id].elements, k),
                      a.ts < m.ts
               PROVE  m.op = "update"
    BY DEF BuffersInOrder, UpdatesBehind
  <2> DEFINE es == node[id].elements
  <2>1. Orderly(es) /\ es \in Buffer(next_timestamp)
    BY DEF CInv, TidyNode, OInv, IInv, NodesOK, NodeOK
  <2> HIDE DEF es
  <2>2. a \in es /\ m \in es /\ a.key = m.key
    BY DEF For, es
  <2>3. a.ts \in Int /\ m.ts \in Int
    BY <2>1, <2>2, MessageFields
  <2>4. a # m /\ ~(m.ts < a.ts)
    BY <2>3
  <2>5. \/ a.ts < m.ts /\ m.op = "update"
        \/ m.ts < a.ts /\ a.op = "update"
    BY <2>1, <2>2, <2>4 DEF Orderly
  <2> QED BY <2>4, <2>5
<1> QED BY <1>1, ContentsKept, PTL

\* A relation that leads from a node to its children leads to all nodes below.
LEMMA BelowRelated ==
  ASSUME OInv, NEW R, \A id \in DOMAIN node : <<id, id>> \in R,
         \A id \in DOMAIN node : \A p \in DOMAIN node[id].pivots : <<id, node[id].pivots[p]>> \in R,
         \A a, b, c \in DOMAIN node : <<a, b>> \in R /\ <<b, c>> \in R => <<a, c>> \in R
  PROVE  \A id \in DOMAIN node : \A c \in Subtree[id] : c \in DOMAIN node /\ <<id, c>> \in R
<1>1. PICK h : HeightsOK(h, node, returned, Emptied(stack, node, root, returned))
  BY DEF OInv, IInv
<1>2. \A id \in DOMAIN node : NodeOK(node[id], DOMAIN node, next_timestamp)
  BY DEF OInv, IInv, NodesOK
<1>3. \A id \in DOMAIN node : \A c \in ChildrenOf(id) : c \in DOMAIN node /\ <<id, c>> \in R
  BY <1>2 DEF NodeOK, ChildrenOf
<1>4. /\ \A id \in DOMAIN node : h[id] \in Nat
      /\ \A id \in DOMAIN node : \A c \in ChildrenOf(id) : c \in DOMAIN node /\ h[id] = h[c] + 1
  <2>1. \A id \in DOMAIN node : h[id] \in Nat
    BY <1>1 DEF HeightsOK
  <2>2. \A id \in DOMAIN node : \A c \in ChildrenOf(id) : h[id] = h[c] + 1
    BY <1>1 DEF HeightsOK, ChildrenOf
  <2> QED BY <1>3, <2>1, <2>2
<1>5. \A id \in DOMAIN node : Subtree[id] = {id} \union UNION {Subtree[c] : c \in ChildrenOf(id)}
  BY <1>3, SubtreeIs
<1> DEFINE Leads(id) == \A c \in Subtree[id] : c \in DOMAIN node /\ <<id, c>> \in R
           G == {n \in Nat : \A id \in DOMAIN node : h[id] = n => Leads(id)}
<1>6. ASSUME NEW id \in DOMAIN node, \A c \in ChildrenOf(id) : Leads(c)
      PROVE  Leads(id)
  <2> SUFFICES ASSUME NEW d \in Subtree[id] PROVE d \in DOMAIN node /\ <<id, d>> \in R
    OBVIOUS
  <2>1. CASE d = id
    BY <2>1
  <2>2. ASSUME NEW c \in ChildrenOf(id), d \in Subtree[c]
        PROVE  d \in DOMAIN node /\ <<id, d>> \in R
    <3>1. c \in DOMAIN node /\ d \in DOMAIN node /\ <<id, c>> \in R /\ <<c, d>> \in R
      BY <1>3, <1>6, <2>2
    <3> QED BY <3>1
  <2> QED BY <1>5, <2>1, <2>2
<1> HIDE DEF Leads
<1>7. 0 \in G
  <2>1. \A id \in DOMAIN node : h[id] = 0 => ChildrenOf(id) = {}
    BY <1>4
  <2> QED BY <1>6, <2>1
<1>8. ASSUME NEW n \in Nat, n \in G PROVE n + 1 \in G
  <2> SUFFICES ASSUME NEW id \in DOMAIN node, h[id] = n + 1 PROVE Leads(id)
    OBVIOUS
  <2>1. \A c \in ChildrenOf(id) : h[c] = n /\ c \in DOMAIN node
    BY <1>4
  <2> QED BY <1>6, <1>8, <2>1
<1>9. Nat \subseteq G
  <2> HIDE DEF G
  <2> QED BY <1>7, <1>8, NatSetInduction
<1>10. \A id \in DOMAIN node : Leads(id)
  BY <1>4, <1>9
<1> QED BY <1>10 DEF Leads

\* A message for a key is newer than all messages for the key in the nodes below:
\* what node::query relies on when it stops at the first insert or erase.
THEOREM NewestOnTop == Spec /\ []DirtyChildBufferEmpty => []NewerAbove
<1>1. CInv => NewerAbove
  <2> SUFFICES ASSUME CInv, call = "none", NEW id \in DOMAIN node, NEW m \in node[id].elements,
                      NEW c \in Subtree[id] \ {id}, NEW older \in For(node[c].elements, m.key)
               PROVE  older.ts < m.ts
    BY DEF NewerAbove
  <2> DEFINE now == next_timestamp
             k   == m.key
  <2>1. PICK t, v : ViewOK(t, v, View, now)
    BY DEF CInv, Valued
  <2>2. /\ DOMAIN View = DOMAIN node
        /\ \A i \in DOMAIN node : View[i].pivots = node[i].pivots
                                  /\ View[i].elements = node[i].elements
    BY ViewBetween
  <2>3. ASSUME NEW i \in DOMAIN node
        PROVE  /\ \A x \in Keys : t[i][x] \in Nat
               /\ \A e \in node[i].elements : e.key \in Keys /\ e.ts \in Nat /\ e.ts <= t[i][e.key]
               /\ \A p \in DOMAIN node[i].pivots :
                     /\ node[i].pivots[p] \in DOMAIN node
                     /\ \A x \in Keys : t[node[i].pivots[p]][x] <= t[i][x]
                     /\ \A e \in node[i].elements : t[node[i].pivots[p]][e.key] < e.ts
    <3> DEFINE w == View
    <3> HIDE DEF w, now
    <3>1. /\ TimesOK(t, w[i], i) /\ \A x \in Keys : t[i][x] \in Nat
          /\ \A p \in DOMAIN w[i].pivots : w[i].pivots[p] \in DOMAIN w
          /\ \A e \in Held(w[i]) : e.key \in Keys /\ e.ts \in Nat
      BY <2>1, <2>2, ViewFacts DEF w
    <3> QED BY <2>2, <3>1 DEF TimesOK, Held, w
  <2> DEFINE R == {x \in (DOMAIN node) \X (DOMAIN node) : t[x[2]][k] <= t[x[1]][k]}
  <2>4. OInv /\ k \in Keys
    BY <2>3 DEF CInv
  <2>5. \A a, b \in DOMAIN node : <<a, b>> \in R <=> t[b][k] <= t[a][k]
    OBVIOUS
  <2>6. \A a \in DOMAIN node : t[a][k] \in Nat
    BY <2>3, <2>4
  <2> HIDE DEF R, k
  <2>7. /\ \A a \in DOMAIN node : <<a, a>> \in R
        /\ \A a \in DOMAIN node : \A p \in DOMAIN node[a].pivots : <<a, node[a].pivots[p]>> \in R
        /\ \A a, b, d \in DOMAIN node : <<a, b>> \in R /\ <<b, d>> \in R => <<a, d>> \in R
    BY <2>3, <2>4, <2>5, <2>6
  <2>8. \A a \in DOMAIN node : \A d \in Subtree[a] : d \in DOMAIN node /\ t[d][k] <= t[a][k]
    <3>1. \A a \in DOMAIN node : \A d \in Subtree[a] : d \in DOMAIN node /\ <<a, d>> \in R
      <4>1. OInv
        BY <2>4
      <4> QED BY <4>1, <2>7, BelowRelated
    <3> QED BY <2>5, <3>1
  <2>9. PICK p \in DOMAIN node[id].pivots : c \in Subtree[node[id].pivots[p]]
    <3>1. \A i \in DOMAIN node : ChildrenOf(i) \subseteq DOMAIN node
      BY <2>3 DEF ChildrenOf
    <3>2. Subtree[id] = {id} \union UNION {Subtree[x] : x \in ChildrenOf(id)}
      BY <3>1, SubtreeIs
    <3>3. PICK x \in ChildrenOf(id) : c \in Subtree[x]
      BY <3>2
    <3> QED BY <3>3 DEF ChildrenOf
  <2> DEFINE d == node[id].pivots[p]
  <2>10. d \in DOMAIN node /\ t[d][k] < m.ts /\ m.ts \in Nat
    BY <2>3 DEF k
  <2>11. c \in DOMAIN node /\ t[c][k] <= t[d][k]
    BY <2>8, <2>9, <2>10
  <2>12. older.ts \in Nat /\ older.ts <= t[c][k]
    BY <2>3, <2>11 DEF For, k
  <2>13. t[c][k] \in Nat /\ t[d][k] \in Nat
    BY <2>6, <2>10, <2>11
  <2> HIDE DEF d
  <2> QED BY <2>10, <2>11, <2>12, <2>13
<1> QED BY <1>1, ContentsKept, PTL

\* Outside upsert() the view is the tree: a query moves nothing.
LEMMA ViewOutside ==
  ASSUME CInv, call # "upsert"
  PROVE  /\ DOMAIN View = DOMAIN node
         /\ \A id \in DOMAIN node :
               View[id] = [pivots |-> node[id].pivots, elements |-> node[id].elements, given |-> {}]
<1> DEFINE now  == next_timestamp
           gone == Emptied(stack, node, root, returned)
<1>1. /\ stack \in Seq(Flushes(now) \union Queries) /\ returned = EmptyMap
      /\ \A i \in 1 .. Len(stack) : stack[i].fn # "flush"
  BY DEF CInv, OInv, IInv, FramesOK, TidyStack, TidyFrame
<1>2. gone = {}
  BY <1>1 DEF Emptied
<1>3. \A i \in 1 .. Len(stack) : stack[i].pc # "batch"
  <2> SUFFICES ASSUME NEW i \in 1 .. Len(stack) PROVE stack[i].pc # "batch"
    OBVIOUS
  <2>1. stack[i] \in Flushes(now) \union Queries
    <3> DEFINE F == Flushes(now) \union Queries
    <3>1. stack \in Seq(F)
      BY <1>1
    <3> HIDE DEF F
    <3>2. stack[i] \in F
      BY <3>1
    <3> QED BY <3>2 DEF F
  <2>2. stack[i] \in Queries
    BY <1>1, <2>1 DEF Flushes
  <2> QED BY <2>2 DEF Queries
<1>4. stack # << >> => Last(stack).fn # "flush"
  <2> SUFFICES ASSUME stack # << >> PROVE Last(stack).fn # "flush"
    OBVIOUS
  <2> DEFINE F == Flushes(now) \union Queries
  <2>1. stack \in Seq(F)
    BY <1>1
  <2> HIDE DEF F
  <2>2. Len(stack) \in Nat \ {0} /\ Last(stack) = stack[Len(stack)]
    BY <2>1, FrontAndLast
  <2>3. Len(stack) \in 1 .. Len(stack)
    BY <2>2
  <2> QED BY <1>1, <2>2, <2>3
<1>5. \A id : Sent(stack, node, id) = {} /\ Given(stack, id) = {}
  BY <1>3, <1>4 DEF Sent, Given
<1> HIDE DEF gone
<1> QED BY <1>2, <1>5 DEF View, ViewOf, gone

\* The recursion of ValueOf has one solution, since no node is below itself.
LEMMA ValueIs ==
  ASSUME OInv, NEW k \in Keys, NEW v,
         \A id \in DOMAIN node :
            v[id][k] = Eval(node[id].elements, k, Below(v, node[id], k))
  PROVE  ValueOf(k) = v[root][k]
<1> DEFINE Child(n)    == n.pivots[GetPivot(n, k)]
           Asked(n)    == ~IsLeaf(n) /\ FirstPivot(n) <= k
           Under(f, n) == IF Asked(n) THEN f[Child(n)] ELSE None
           D(f) == [id \in DOMAIN node |-> Eval(node[id].elements, k, Under(f, node[id]))]
           w == [id \in DOMAIN node |-> v[id][k]]
           value == CHOOSE f : f = D(f)
<1>1. PICK h : HeightsOK(h, node, returned, Emptied(stack, node, root, returned))
  BY DEF OInv, IInv
<1>2. \A id \in DOMAIN node : NodeOK(node[id], DOMAIN node, next_timestamp)
  BY DEF OInv, IInv, NodesOK
<1>3. \A id \in DOMAIN node : Asked(node[id]) =>
         Child(node[id]) \in DOMAIN node /\ h[id] = h[Child(node[id])] + 1
  <2> SUFFICES ASSUME NEW id \in DOMAIN node, Asked(node[id])
               PROVE  Child(node[id]) \in DOMAIN node /\ h[id] = h[Child(node[id])] + 1
    OBVIOUS
  <2>1. GetPivot(node[id], k) \in DOMAIN node[id].pivots
    BY <1>2, RangeIs DEF NodeOK
  <2> QED BY <1>1, <1>2, <2>1 DEF NodeOK, HeightsOK
<1>4. \A id \in DOMAIN node : h[id] \in Nat
  BY <1>1 DEF HeightsOK
<1>5. ValueOf(k) = value[root]
  BY DEF ValueOf
<1>6. \A id \in DOMAIN node : v[id][k] = Eval(node[id].elements, k, Under(w, node[id]))
  <2> SUFFICES ASSUME NEW id \in DOMAIN node PROVE Below(v, node[id], k) = Under(w, node[id])
    OBVIOUS
  <2> QED BY <1>3 DEF Below
<1> HIDE DEF Asked, Child
<1>7. w = D(w)
  <2> HIDE DEF Under
  <2> QED BY <1>6
<1>8. value = D(value)
  <2> HIDE DEF w, D
  <2> QED BY <1>7
<1> HIDE DEF value, w
<1>9. \A id \in DOMAIN node : value[id] = Eval(node[id].elements, k, Under(value, node[id]))
  <2> HIDE DEF Under
  <2> QED BY <1>8
<1> HIDE DEF D
<1>10. ASSUME NEW id \in DOMAIN node,
              Asked(node[id]) => value[Child(node[id])] = v[Child(node[id])][k]
       PROVE  value[id] = v[id][k]
  <2>1. Under(value, node[id]) = Under(w, node[id])
    BY <1>3, <1>10 DEF w
  <2> HIDE DEF Under
  <2> QED BY <1>6, <1>9, <2>1
<1> HIDE DEF Under
<1> DEFINE G == {n \in Nat : \A id \in DOMAIN node : h[id] = n => value[id] = v[id][k]}
<1>11. 0 \in G
  <2>1. \A id \in DOMAIN node : h[id] = 0 => ~Asked(node[id])
    BY <1>3, <1>4
  <2> QED BY <1>10, <2>1
<1>12. ASSUME NEW n \in Nat, n \in G PROVE n + 1 \in G
  <2> SUFFICES ASSUME NEW id \in DOMAIN node, h[id] = n + 1 PROVE value[id] = v[id][k]
    OBVIOUS
  <2>1. Asked(node[id]) => Child(node[id]) \in DOMAIN node /\ h[Child(node[id])] = n
    BY <1>3, <1>4
  <2> QED BY <1>10, <1>12, <2>1
<1>13. Nat \subseteq G
  <2> HIDE DEF G
  <2> QED BY <1>11, <1>12, NatSetInduction
<1>14. root \in DOMAIN node
  BY DEF OInv, IInv, NodesOK
<1> QED BY <1>4, <1>5, <1>13, <1>14

\* Outside upsert() the tree holds what the std::map does.
LEMMA ContentsAre ==
  ASSUME CInv, call # "upsert"
  PROVE  Contents = reference
<1>1. PICK t, v : ViewOK(t, v, View, next_timestamp) /\ v[root] = reference
  BY DEF CInv, Valued
<1>2. OInv /\ root \in DOMAIN node
  BY DEF CInv, OInv, IInv, NodesOK
<1>3. DOMAIN View = DOMAIN node
  BY ViewOutside
<1>4. ASSUME NEW k \in Keys PROVE ValueOf(k) = v[root][k]
  <2>1. ASSUME NEW id \in DOMAIN node
        PROVE  v[id][k] = Eval(node[id].elements, k, Below(v, node[id], k))
    <3> DEFINE w == View
    <3>1. w[id] = [pivots |-> node[id].pivots, elements |-> node[id].elements, given |-> {}]
      BY ViewOutside
    <3> HIDE DEF w
    <3>2. ValuesOK(t, v, w[id], id)
      BY <1>1, <1>3, ViewFacts DEF w
    <3>3. Below(v, w[id], k) = Below(v, node[id], k)
      BY <3>1 DEF Below, IsLeaf, FirstPivot, GetPivot
    <3>4. \A y : Eval(w[id].given, k, y) = y
      BY <3>1 DEF Eval, For
    <3> QED BY <3>1, <3>2, <3>3, <3>4 DEF ValuesOK
  <2> QED BY <1>2, <2>1, ValueIs
<1>5. v[root] = [k \in Keys |-> v[root][k]]
  <2> DEFINE w == View
             now == next_timestamp
  <2>1. v \in [DOMAIN w -> [Keys -> Answers]] /\ root \in DOMAIN w
    BY <1>1, <1>2, <1>3 DEF ViewOK, ViewTypes
  <2> HIDE DEF w
  <2> QED BY <2>1
<1> QED BY <1>1, <1>4, <1>5 DEF Contents

\* What test.cpp checks: the tree and the std::map give the same result, for each
\* key that could be asked now.
THEOREM TreeHoldsMap == Spec /\ []DirtyChildBufferEmpty => []ContentsRight
<1>1. CInv => ContentsRight
  BY ContentsAre DEF ContentsRight
<1> QED BY <1>1, ContentsKept, PTL

-----------------------------------------------------------------------------
(* The tree implements the dictionary. *)

\* What a step does to the std::map and to the last answer.
Sets(k, op, val) == reference' = [reference EXCEPT ![k] = Reference!Effect(op, val, @)]
Answers1(k) == answer' = <<k, reference[k]>> /\ reference' = reference

MapStep ==
    \/ UNCHANGED <<reference, answer>>
    \/ \E k \in Keys : \/ \E op \in Opcodes, val \in Values : Sets(k, op, val) /\ answer' = answer
                       \/ Answers1(k)

\* An upsert changes the map at its start.
LEMMA UpsertSets ==
  ASSUME OInv, NEW op \in Ops, NEW k \in Keys, Upsert(op, k)
  PROVE  MapStep
<1> DEFINE val == IF op = "delete" THEN Default ELSE <<next_timestamp>>
<1>1. next_timestamp \in Nat \ {0} /\ next_timestamp <= MaxUpserts
  BY DEF Upsert, OInv, IInv, NodesOK
<1>2. val \in Values
  BY <1>1 DEF Values
<1>3. op \in Opcodes
  BY OpsAssumption
<1>4. Sets(k, op, val) /\ answer' = answer
  BY DEF Upsert, Sets
<1> HIDE DEF val
<1> QED BY <1>2, <1>3, <1>4 DEF MapStep

\* The last activation of a query returns what the map has for its key.
LEMMA QueryAnswers ==
  ASSUME CInv, QueryFound
  PROVE  MapStep
<1>1. /\ stack # << >> /\ Top.fn = "query" /\ UNCHANGED reference
      /\ \/ answer' = answer
         \/ Len(stack) = 1 /\ answer' = <<Top.arg, Answered>>
  BY DEF QueryFound, Running, QueryReturn, Answered
<1>2. CASE answer' = answer
  BY <1>1, <1>2 DEF MapStep
<1>3. CASE Len(stack) = 1 /\ answer' = <<Top.arg, Answered>>
  <2>1. OInv /\ IInv
    BY DEF CInv, OInv
  <2>2. Top = stack[Len(stack)] /\ Top \in Flushes(next_timestamp) \union Queries
    BY <1>1, <2>1, TopFacts
  <2>3. Top.arg \in Keys
    BY <1>1, <2>2 DEF Flushes, Queries
  <2>4. Top.id = root
    BY <1>1, <1>3, <2>1, <2>2 DEF IInv, FramesOK
  <2>5. PICK t, v : ViewOK(t, v, View, next_timestamp) /\ v[root] = reference
    BY DEF CInv, Valued
  <2>6. Answered = v[Top.id][Top.arg]
    BY <2>5, QueryAnswer
  <2>7. Answers1(Top.arg)
    BY <1>1, <1>3, <2>4, <2>5, <2>6 DEF Answers1
  <2> QED BY <2>3, <2>7 DEF MapStep
<1> QED BY <1>1, <1>2, <1>3

LEMMA StepsOfMap ==
  ASSUME CInv, [Next]_vars
  PROVE  MapStep
<1>1. OInv
  BY DEF CInv
<1>2. ASSUME NEW k \in Keys, Query(k) PROVE MapStep
  BY <1>2 DEF Query, MapStep
<1>3. ASSUME NEW k \in Keys, NEW op \in Ops, Upsert(op, k) PROVE MapStep
  BY <1>1, <1>3, UpsertSets
<1>4. CASE QueryFound
  BY <1>4, QueryAnswers
<1>5. CASE \/ FlushLeaf \/ FlushDirect \/ FlushBuffer \/ FlushBatch \/ FlushDone
           \/ DirectReturned \/ DirectDone \/ BatchReturned \/ UpsertReturn
           \/ QueryDown \/ UNCHANGED vars
  <2>1. UNCHANGED <<reference, answer>>
    BY <1>5 DEF FlushLeaf, FlushDirect, FlushBuffer, FlushBatch, FlushDone, DirectReturned,
                DirectDone, BatchReturned, UpsertReturn, QueryDown, Finish, vars
  <2> QED BY <2>1 DEF MapStep
<1> QED BY <1>2, <1>3, <1>4, <1>5 DEF Next, Step

\* The dictionary that the tree implements is the std::map.
Dict == IF call = "upsert" THEN reference ELSE Contents

DictRight == Dict = reference

LEMMA DictIs == CInv => DictRight
  BY ContentsAre DEF Dict, DictRight

\* Each step of the tree is one of the dictionary, or none.
LEMMA Implements ==
  CInv /\ CInv' /\ [Next]_vars => [Map!Next]_(Map!vars)
<1>1. CInv => DictRight
  BY DictIs
<1>2. CInv' => DictRight'
  BY <1>1, PTL
<1> SUFFICES ASSUME CInv, CInv', [Next]_vars PROVE [Map!Next]_(Map!vars)
  OBVIOUS
<1>3. Dict = reference /\ Dict' = reference' /\ MapStep
  BY <1>1, <1>2, StepsOfMap DEF DictRight
<1>4. CASE UNCHANGED <<reference, answer>>
  BY <1>3, <1>4 DEF Map!vars, Dict
<1>5. ASSUME NEW k \in Keys, NEW op \in Opcodes, NEW val \in Values, Sets(k, op, val),
             answer' = answer
      PROVE  Map!Next
  <2>1. Map!Effect(op, val, reference[k]) = Reference!Effect(op, val, reference[k])
    BY DEF Map!Effect, Map!Default, Reference!Effect, Reference!Default
  <2>2. Dict' = [Dict EXCEPT ![k] = Map!Effect(op, val, Dict[k])] /\ answer' = answer
    BY <1>3, <1>5, <2>1 DEF Sets
  <2>3. Map!Upsert(op, k, val)
    BY <2>2 DEF Map!Upsert, Dict
  <2> QED BY <2>3 DEF Map!Next, Opcodes
<1>6. ASSUME NEW k \in Keys, Answers1(k) PROVE Map!Next
  <2>1. Map!Query(k)
    BY <1>3, <1>6 DEF Map!Query, Answers1, Dict
  <2> QED BY <2>1 DEF Map!Next
<1> QED BY <1>3, <1>4, <1>5, <1>6 DEF MapStep

\* The tree implements the dictionary: an upsert takes effect at once, and neither
\* the flushes and splits of later ones nor a query changes what is answered.
THEOREM TreeIsMap == Spec /\ []DirtyChildBufferEmpty => MapSpec
<1>1. Init => Map!Init
  <2> SUFFICES ASSUME Init PROVE Map!Init
    OBVIOUS
  <2>1. Dict = reference
    BY InitContents, DictIs DEF DictRight
  <2> QED BY <2>1 DEF Init, Map!Init, Dict
<1>2. CInv /\ CInv' /\ [Next]_vars => [Map!Next]_(Map!vars)
  BY Implements
<1> QED BY <1>1, <1>2, ContentsKept, PTL DEF MapSpec, Map!Spec, Spec

-----------------------------------------------------------------------------
(* A tree that fits in memory.  All that is in memory is dirty, so that each *)
(* message goes down by the shortcut: no buffer is used, and no inner node is *)
(* split, since the shortcut looks at no limit.                               *)

AllInMemory == DOMAIN node \subseteq Cache!Resident(cache)

\* The root is the only inner node, and buffers nothing.
FlatTree(nodes, top) ==
    \A id \in DOMAIN nodes : ~IsLeaf(nodes[id]) => id = top /\ nodes[id].elements = {}

\* A flush() has one message, and is in its leaf branch or in the shortcut.
Short(f) == f.fn = "flush" => /\ f.pc \in {"count", "enter", "direct", "end"}
                              /\ \E m : f.arg = {m}
ShortStack(st) == \A i \in 1 .. Len(st) : Short(st[i])

MInv == OInv /\ FlatTree(node, root) /\ ShortStack(stack)

\* The activation that runs ends, or a flush() goes on to its end.
LEMMA ShortStay ==
  ASSUME OInv, stack # << >>, ShortStack(stack), NEW new,
         \/ new = Front(stack)
         \/ new = At("end", 0)
         \/ Top.fn = "query" /\ new = At("adopt", 0)
  PROVE  ShortStack(new)
<1> DEFINE len == Len(stack)
           F   == Flushes(next_timestamp) \union Queries
<1>1. /\ len \in Nat \ {0} /\ Len(new) \in {len - 1, len}
      /\ \A i \in 1 .. len - 1 : new[i] = stack[i]
  <2>1. len \in Nat \ {0}
    BY TopFacts DEF OInv
  <2>2. new = Front(stack) \/ \E pc \in {"loop", "end", "adopt"} : new = At(pc, 0)
    OBVIOUS
  <2> QED BY <2>1, <2>2, StayStack
<1>2. ASSUME Len(new) = len PROVE Short(new[len])
  <2>1. stack \in Seq(F) /\ Top \in F /\ Top = stack[len] /\ Len(Front(stack)) = len - 1
    BY TopFacts, FrontAndLast DEF OInv
  <2>2. PICK pc \in {"end", "adopt"} : new = At(pc, 0) /\ (pc = "adopt" => Top.fn = "query")
    <3>1. new # Front(stack)
      BY <1>1, <1>2, <2>1
    <3> QED BY <3>1
  <2> DEFINE f == [Top EXCEPT !.pc = pc, !.pivot = 0]
             G == F \union {f}
             st == Front(stack)
  <2>3. new[len] = f
    <3>1. stack \in Seq(G) /\ stack # << >> /\ f \in G
      BY <2>1, WiderSeq
    <3>2. new = Append(st, f)
      BY <2>2 DEF At
    <3> HIDE DEF f, G, F
    <3>3. Append(Front(stack), f)[Len(stack)] = f
      BY <3>1, Replaced
    <3> QED BY <3>2, <3>3
  <2>4. f.fn = Top.fn /\ f.arg = Top.arg /\ f.pc = pc
    <3>1. CASE Top \in Flushes(next_timestamp)
      BY <3>1 DEF Flushes
    <3>2. CASE Top \in Queries
      BY <3>2 DEF Queries
    <3> QED BY <2>1, <3>1, <3>2
  <2>5. Short(Top)
    BY <1>1, <2>1 DEF ShortStack
  <2> HIDE DEF f
  <2> QED BY <2>2, <2>3, <2>4, <2>5 DEF Short
<1>3. \A i \in 1 .. len - 1 : Short(new[i])
  BY <1>1 DEF ShortStack
<1> HIDE DEF len
<1> QED BY <1>1, <1>2, <1>3 DEF ShortStack

\* It calls one of a child, with the message it has.
LEMMA ShortDown ==
  ASSUME OInv, stack # << >>, ShortStack(stack), NEW pc, NEW p, NEW c, NEW arg,
         Top.fn = "flush" => pc = "direct" /\ arg = Top.arg
  PROVE  ShortStack(Append(At(pc, p), Activation(Top.fn, c, arg)))
<1> DEFINE new == Append(At(pc, p), Activation(Top.fn, c, arg))
           len == Len(stack)
<1>1. Called(new, pc, p, c, arg)
  BY DownStack
<1>2. len \in Nat \ {0} /\ Top = stack[len]
  BY TopFacts DEF OInv
<1>3. Short(Top)
  BY <1>2 DEF ShortStack
<1> HIDE DEF new
<1>4. Short(new[len]) /\ Short(new[len + 1])
  BY <1>1, <1>3 DEF Called, Short
<1>5. \A i \in 1 .. len - 1 : Short(new[i])
  BY <1>1, <1>2 DEF Called, ShortStack
<1>6. Len(new) = len + 1
  BY <1>1 DEF Called
<1> HIDE DEF len
<1>7. \A i \in 1 .. Len(new) : i \in 1 .. len - 1 \/ i = len \/ i = len + 1
  BY <1>2, <1>6
<1> QED BY <1>4, <1>5, <1>7 DEF ShortStack, new

\* The first activation of a call.
LEMMA ShortStart ==
  ASSUME NEW fn, NEW top, NEW arg, fn = "flush" => \E m : arg = {m}
  PROVE  ShortStack(Append(<< >>, Activation(fn, top, arg)))
<1> DEFINE f == Activation(fn, top, arg)
<1>1. f.fn = fn /\ f.arg = arg /\ f.pc \in {"count", "enter"}
  BY DEF Activation
<1>2. Short(f)
  BY <1>1 DEF Short
<1> HIDE DEF f
<1>3. Append(<< >>, f) = <<f>>
  OBVIOUS
<1> QED BY <1>2, <1>3 DEF ShortStack, f

\* A flush() is not in the loop.
LEMMA NeverLoops ==
  ASSUME MInv, stack # << >>, Top.fn = "flush"
  PROVE  Top.pc \in {"count", "enter", "direct", "end"} /\ \E m : Top.arg = {m}
<1>1. Len(stack) \in Nat \ {0} /\ Top = stack[Len(stack)]
  BY TopFacts DEF MInv, OInv
<1>2. Short(Top)
  BY <1>1 DEF MInv, ShortStack
<1> QED BY <1>2 DEF Short

\* One message in an inner node of a tree in memory takes the shortcut.
LEMMA NeverBuffers ==
  ASSUME MInv, AllInMemory
  PROVE  ~FlushBuffer
<1> SUFFICES ASSUME FlushBuffer PROVE FALSE
  OBVIOUS
<1> DEFINE n    == Rekeyed(Current, Top.arg)
           keys == {x.key : x \in Top.arg}
           p    == GetPivot(n, Min(keys))
           now  == next_timestamp
<1>1. /\ stack # << >> /\ Top.fn = "flush" /\ ~IsLeaf(Current) /\ OInv /\ IInv
      /\ ~(p = GetPivot(n, Max(keys)) /\ n.pivots[p] \in cache.dirty)
  BY DEF FlushBuffer, Running, GoesDirect, MInv, OInv
<1>2. /\ Top \in Flushes(now) \union Queries /\ NodeOK(Current, DOMAIN node, now)
  BY <1>1, TopFacts
<1>3. Top.arg \in Buffer(now) /\ Top.arg # {}
  BY <1>1, <1>2 DEF Flushes, Queries
<1>4. /\ NodeOK(n, DOMAIN node, now) /\ ~IsLeaf(n) /\ Min(keys) \in keys /\ Max(keys) \in keys
      /\ \A k \in keys : k \in Int
      /\ FirstPivot(n) <= Min(keys)
  <2>1. NodeOK(n, DOMAIN node, now) /\ Lowered(n, Current, keys)
    BY <1>1, <1>2, <1>3, RekeyedMoves
  <2> QED BY <2>1 DEF Lowered
<1>5. Min(keys) = Max(keys)
  <2>1. PICK m : Top.arg = {m}
    BY <1>1, NeverLoops
  <2>2. \A a, b \in keys : a = b
    BY <2>1
  <2> HIDE DEF keys
  <2> QED BY <1>4, <2>2
<1> HIDE DEF n
<1>6. n.pivots[p] \in DOMAIN node
  <2>1. p \in DOMAIN n.pivots
    BY <1>4, GetPivotIs
  <2> QED BY <1>4, <2>1 DEF NodeOK
<1>7. cache.dirty = Cache!Resident(cache)
  BY <1>1 DEF IInv, CacheOK
<1> QED BY <1>1, <1>5, <1>6, <1>7 DEF AllInMemory
\* The flush() of a leaf, split or not, and the end of the shortcut.
LEMMA FinishFlat ==
  ASSUME MInv, stack # << >>, Top.fn = "flush",
         NEW n, NodeOK(n, DOMAIN node, next_timestamp),
         NEW splits \in BOOLEAN, IsLeaf(n) \/ (n = Current /\ ~splits), Finish(n, splits)
  PROVE  FlatTree(node', root') /\ ShortStack(stack')
<1>1. OInv /\ FlatTree(node, root) /\ ShortStack(stack) /\ root' = root
  BY DEF MInv, Finish
<1>2. stack' = Front(stack)
  BY DEF Finish, Return
<1>3. ShortStack(stack')
  BY <1>1, <1>2, ShortStay
<1>4. SUFFICES ASSUME NEW id \in DOMAIN node', ~IsLeaf(node'[id])
               PROVE  id = root /\ node'[id].elements = {}
  BY <1>1, <1>3 DEF FlatTree
<1>5. CASE splits
  <2> DEFINE emptied == [n EXCEPT !.pivots = EmptyMap, !.elements = {}]
  <2>1. node' = [i \in DOMAIN node \union {IdOf(j) : j \in Parts(n)} |->
                    IF i = Top.id THEN emptied
                    ELSE IF i \in DOMAIN node THEN node[i]
                    ELSE Part(n, i - next_id)]
    BY <1>5 DEF Finish
  <2>2. IsLeaf(emptied)
    <3>1. n = [pivots |-> n.pivots, elements |-> n.elements, epsilon |-> n.epsilon,
               node_level |-> n.node_level, ready_for_adoption |-> n.ready_for_adoption]
      BY DEF NodeOK
    <3>2. emptied.pivots = EmptyMap
      BY <3>1
    <3> QED BY <3>2, EmptyMapFacts DEF IsLeaf
  <2> HIDE DEF emptied
  <2>3. id # Top.id
    BY <1>4, <2>1, <2>2
  <2>4. CASE id \in DOMAIN node
    <3>1. node'[id] = node[id]
      BY <2>1, <2>3, <2>4
    <3> QED BY <1>1, <1>4, <2>4, <3>1 DEF FlatTree
  <2>5. CASE id \notin DOMAIN node
    <3>1. PICK j \in Parts(n) : id = IdOf(j)
      BY <2>1, <2>5
    <3>2. j \in Int /\ next_id \in Int
      <4>1. j \in 0 .. NumNew(n) - 1
        BY DEF Parts
      <4> QED BY <1>1, <4>1 DEF OInv, IInv, NodesOK
    <3>3. id - next_id = j
      BY <3>1, <3>2 DEF IdOf
    <3>4. node'[id] = Part(n, j)
      BY <2>1, <2>3, <2>5, <3>3
    <3> QED BY <1>4, <1>5, <3>4, PartOK
  <2> QED BY <2>4, <2>5
<1>6. CASE ~splits
  <2>1. node' = [node EXCEPT ![Top.id] = n]
    BY <1>6 DEF Finish
  <2>2. id \in DOMAIN node /\ node'[id] = IF id = Top.id THEN n ELSE node[id]
    BY <2>1
  <2>3. node'[id] = node[id]
    BY <1>4, <1>6, <2>2 DEF Current
  <2> QED BY <1>1, <1>4, <2>2, <2>3 DEF FlatTree
<1> QED BY <1>5, <1>6

LEMMA FlushLeafFlat ==
  ASSUME MInv, FlushLeaf
  PROVE  FlatTree(node', root') /\ ShortStack(stack')
<1> DEFINE es      == ApplyAll(Current.elements, Top.arg, TRUE)
           applied == [Current EXCEPT !.elements = es]
           splits  == Cardinality(applied.elements) >= MaxMessages
<1>1. /\ stack # << >> /\ Top.fn = "flush" /\ IsLeaf(Current)
      /\ Finish(applied, splits) /\ IInv
  BY DEF FlushLeaf, Running, MInv, OInv
<1>2. /\ Top \in Flushes(next_timestamp) \union Queries
      /\ NodeOK(Current, DOMAIN node, next_timestamp)
  BY <1>1, TopFacts
<1>3. Top.arg \in Buffer(next_timestamp)
  BY <1>1, <1>2 DEF Flushes, Queries
<1>4. es \in Buffer(next_timestamp) /\ Inserts(es)
  <2>1. Current.elements \in Buffer(next_timestamp) /\ Inserts(Current.elements)
    BY <1>1, <1>2 DEF NodeOK
  <2> QED BY <1>3, <2>1, ApplyAllKeeps
<1> HIDE DEF es
<1>5. NodeOK(applied, DOMAIN node, next_timestamp) /\ applied.pivots = Current.pivots
  BY <1>2, <1>4, ElementsOK
<1>6. IsLeaf(applied)
  BY <1>1, <1>5 DEF IsLeaf
<1>7. splits \in BOOLEAN
  OBVIOUS
<1> HIDE DEF splits, applied
<1> QED BY <1>1, <1>5, <1>6, <1>7, FinishFlat

LEMMA DirectDoneFlat ==
  ASSUME MInv, DirectDone
  PROVE  FlatTree(node', root') /\ ShortStack(stack')
<1> DEFINE splits == FALSE
<1>1. stack # << >> /\ Top.fn = "flush" /\ Finish(Current, splits) /\ IInv
  BY DEF DirectDone, Running, MInv, OInv
<1>2. NodeOK(Current, DOMAIN node, next_timestamp)
  BY <1>1, TopFacts
<1>3. splits \in BOOLEAN /\ ~splits
  OBVIOUS
<1> HIDE DEF splits
<1> QED BY <1>1, <1>2, <1>3, FinishFlat

\* The shortcut: the root may get a lower first pivot.
LEMMA FlushDirectFlat ==
  ASSUME MInv, FlushDirect
  PROVE  FlatTree(node', root') /\ ShortStack(stack')
<1> DEFINE arg == Top.arg
           n   == Rekeyed(Current, arg)
           p   == GetPivot(n, Min({m.key : m \in arg}))
           pc  == "direct"
           fn  == "flush"
           c   == n.pivots[p]
<1>1. /\ stack # << >> /\ Top.fn = fn /\ ~IsLeaf(Current) /\ OInv /\ IInv
      /\ FlatTree(node, root) /\ ShortStack(stack)
      /\ node' = [node EXCEPT ![Top.id] = n] /\ root' = root
      /\ stack' = Append(At(pc, p), Activation(fn, c, arg))
  BY DEF FlushDirect, Running, MInv, OInv, Call
<1>2. /\ Top \in Flushes(next_timestamp) \union Queries /\ Top.id \in DOMAIN node
      /\ NodeOK(Current, DOMAIN node, next_timestamp)
  BY <1>1, TopFacts DEF FrameOK
<1>3. arg \in Buffer(next_timestamp) /\ arg # {}
  BY <1>1, <1>2 DEF Flushes, Queries
<1> DEFINE m == n
<1>4. m.elements = Current.elements
  <2> HIDE DEF arg
  <2> QED BY <1>1, <1>2, <1>3, RekeyedOK
<1>5. pc = "direct" /\ arg = Top.arg
  OBVIOUS
<1> HIDE DEF arg, n, p, pc, fn, c
<1>6. ShortStack(stack')
  BY <1>1, <1>5, ShortDown
<1>7. Top.id = root /\ Current.elements = {}
  BY <1>1, <1>2 DEF FlatTree, Current
<1>8. ASSUME NEW id \in DOMAIN node', ~IsLeaf(node'[id])
      PROVE  id = root /\ node'[id].elements = {}
  <2>1. id \in DOMAIN node /\ node'[id] = IF id = Top.id THEN n ELSE node[id]
    BY <1>1
  <2> QED BY <1>1, <1>4, <1>7, <1>8, <2>1 DEF FlatTree
<1> QED BY <1>1, <1>6, <1>8 DEF FlatTree

\* Back from it, the parts of a leaf that was split are leaves of the root.
LEMMA DirectReturnedFlat ==
  ASSUME MInv, DirectReturned
  PROVE  FlatTree(node', root') /\ ShortStack(stack')
<1> DEFINE pc == "end"
<1>1. /\ stack # << >> /\ Top.fn = "flush" /\ Top.pc = "direct" /\ OInv /\ IInv
      /\ FlatTree(node, root) /\ ShortStack(stack)
      /\ ChildReturned(Current, Top.pivot) /\ stack' = At(pc, 0) /\ root' = root
  BY DEF DirectReturned, Running, MInv, OInv
<1>2. NodeOK(Current, DOMAIN node, next_timestamp) /\ FrameOK(Top, node)
  BY <1>1, TopFacts
<1>3. ShortStack(stack')
  <2>1. stack' = At("end", 0)
    BY <1>1
  <2> QED BY <1>1, <2>1, ShortStay
<1>4. Top.id \in DOMAIN node /\ Top.id = root /\ Current.elements = {}
  <2>1. Top.id \in DOMAIN node /\ Top.pivot \in DOMAIN Current.pivots
    BY <1>1, <1>2 DEF FrameOK, Current
  <2>2. ~IsLeaf(Current)
    BY <2>1 DEF IsLeaf
  <2> QED BY <1>1, <2>1, <2>2 DEF FlatTree, Current
<1>5. ASSUME NEW id \in DOMAIN node', ~IsLeaf(node'[id])
      PROVE  id = root /\ node'[id].elements = {}
  <2>1. CASE returned # EmptyMap
    <3>1. Current.pivots = Current.pivots
      OBVIOUS
    <3>2. /\ Merges(node, Top.id, Top.pivot, returned, node', next_timestamp)
          /\ node'[Top.id].elements = Current.elements
      BY <1>1, <1>2, <2>1, <3>1, ChildMerges
    <3>3. CASE id = Top.id
      BY <1>4, <3>2, <3>3
    <3>4. CASE id # Top.id
      <4>1. id \in DOMAIN node /\ node'[id] = node[id]
        BY <1>5, <3>2, <3>4 DEF Merges
      <4> QED BY <1>1, <1>5, <4>1 DEF FlatTree
    <3> QED BY <3>3, <3>4
  <2>2. CASE returned = EmptyMap
    <3>1. node' = [node EXCEPT ![Top.id] = Current]
      BY <1>1, <2>2 DEF ChildReturned
    <3>2. id \in DOMAIN node /\ node'[id] = node[id]
      BY <3>1 DEF Current
    <3> QED BY <1>1, <1>5, <3>2 DEF FlatTree
  <2> QED BY <2>1, <2>2
<1> QED BY <1>1, <1>3, <1>5 DEF FlatTree

\* The parts of a root that was split, a leaf, are leaves of the new one.
LEMMA UpsertReturnFlat ==
  ASSUME MInv, UpsertReturn
  PROVE  FlatTree(node', root') /\ ShortStack(stack')
<1>1. FlatTree(node, root) /\ ShortStack(stack) /\ IInv /\ stack' = stack
  BY DEF MInv, OInv, UpsertReturn
<1>2. CASE returned = EmptyMap
  BY <1>1, <1>2 DEF UpsertReturn
<1>3. CASE returned # EmptyMap
  <2>1. Grows(node, root, returned, next_id, node') /\ root' = next_id
    BY <1>1, <1>3, UpsertGrows DEF UpsertReturn
  <2>2. ASSUME NEW id \in DOMAIN node', ~IsLeaf(node'[id])
        PROVE  id = next_id /\ node'[id].elements = {}
    <3>1. CASE id = next_id
      <4>1. node'[next_id].elements = {}
        BY <2>1 DEF Grows
      <4> QED BY <3>1, <4>1
    <3>2. CASE id # next_id
      <4>1. id \in DOMAIN node /\ id # root /\ node'[id] = node[id]
        BY <2>1, <2>2, <3>2 DEF Grows
      <4> QED BY <1>1, <2>2, <4>1 DEF FlatTree
    <3> QED BY <3>1, <3>2
  <2> QED BY <1>1, <2>1, <2>2 DEF FlatTree
<1> QED BY <1>2, <1>3

\* A call starts, at a root that may be a leaf.
LEMMA UpsertFlat ==
  ASSUME MInv, NEW op \in Ops, NEW k \in Keys, Upsert(op, k)
  PROVE  FlatTree(node', root') /\ ShortStack(stack')
<1> DEFINE val == IF op = "delete" THEN Default ELSE <<next_timestamp>>
           m   == [key |-> k, ts |-> next_timestamp, op |-> op, val |-> val]
           arg == {m}
           fn  == "flush"
<1>1. stack' = Append(<< >>, Activation(fn, root, arg)) /\ node' = node /\ root' = root
  BY DEF Upsert, Call
<1>2. \E x : arg = {x}
  OBVIOUS
<1> HIDE DEF arg, fn
<1> QED BY <1>1, <1>2, ShortStart DEF MInv

LEMMA QueryFlat ==
  ASSUME MInv, NEW k \in Keys, Query(k)
  PROVE  FlatTree(node', root') /\ ShortStack(stack')
<1> DEFINE fn == "query"
<1>1. stack' = Append(<< >>, Activation(fn, root, k)) /\ node' = node /\ root' = root
  BY DEF Query, Call
<1>2. fn # "flush"
  OBVIOUS
<1> HIDE DEF fn
<1> QED BY <1>1, <1>2, ShortStart DEF MInv

\* A query changes no node.
LEMMA QueryDownFlat ==
  ASSUME MInv, QueryDown
  PROVE  FlatTree(node', root') /\ ShortStack(stack')
<1> DEFINE pc == "below"
           p  == 0
           c  == Current.pivots[GetPivot(Current, Top.arg)]
           fn == "query"
<1>1. /\ stack # << >> /\ Top.fn = fn /\ OInv /\ ShortStack(stack) /\ FlatTree(node, root)
      /\ stack' = Append(At(pc, p), Activation(fn, c, Top.arg)) /\ node' = node /\ root' = root
  BY DEF QueryDown, Running, Call, MInv
<1>2. Top.fn = "flush" => pc = "direct" /\ Top.arg = Top.arg
  BY <1>1
<1> HIDE DEF pc, p, c, fn
<1>3. ShortStack(stack')
  BY <1>1, <1>2, ShortDown
<1> QED BY <1>1, <1>3

LEMMA QueryFoundFlat ==
  ASSUME MInv, QueryFound
  PROVE  FlatTree(node', root') /\ ShortStack(stack')
<1>1. /\ stack # << >> /\ Top.fn = "query" /\ OInv /\ ShortStack(stack) /\ FlatTree(node, root)
      /\ node' = node /\ root' = root
      /\ stack' = Front(stack) \/ stack' = At("adopt", 0)
  BY DEF QueryFound, Running, QueryReturn, Return, MInv
<1>2. ShortStack(stack')
  BY <1>1, ShortStay
<1> QED BY <1>1, <1>2

\* The tree starts as a leaf.
LEMMA InitFlat == Init => MInv
<1> SUFFICES ASSUME Init PROVE MInv
  OBVIOUS
<1>1. OInv
  BY InitOrder
<1>2. node = [id \in {1} |-> NewNode(StartingEpsilon, 0)] /\ stack = << >>
  BY DEF Init
<1>3. ShortStack(stack)
  BY <1>2 DEF ShortStack
<1>4. \A id \in DOMAIN node : IsLeaf(node[id])
  <2>1. NewNode(StartingEpsilon, 0).pivots = EmptyMap
    BY DEF NewNode
  <2> QED BY <1>2, <2>1, EmptyMapFacts DEF IsLeaf
<1> QED BY <1>1, <1>3, <1>4 DEF MInv, FlatTree

LEMMA FlatKeeps == MInv /\ AllInMemory /\ [Next]_vars => MInv'
<1> SUFFICES ASSUME MInv, AllInMemory, [Next]_vars
             PROVE  FlatTree(node', root') /\ ShortStack(stack')
  BY OrderKeeps DEF MInv
<1>1. CASE \E k \in Keys : Query(k) \/ \E op \in Ops : Upsert(op, k)
  BY <1>1, QueryFlat, UpsertFlat
<1>2. CASE FlushLeaf
  BY <1>2, FlushLeafFlat
<1>3. CASE FlushDirect
  BY <1>3, FlushDirectFlat
<1>4. CASE FlushBuffer
  BY <1>4, NeverBuffers
<1>5. CASE FlushBatch \/ FlushDone \/ BatchReturned
  <2>1. stack # << >> /\ Top.fn = "flush" /\ Top.pc \in {"loop", "batch"}
    BY <1>5 DEF FlushBatch, FlushDone, BatchReturned, Running
  <2> QED BY <2>1, NeverLoops
<1>6. CASE DirectReturned
  BY <1>6, DirectReturnedFlat
<1>7. CASE DirectDone
  BY <1>7, DirectDoneFlat
<1>8. CASE UpsertReturn
  BY <1>8, UpsertReturnFlat
<1>9. CASE QueryDown
  BY <1>9, QueryDownFlat
<1>10. CASE QueryFound
  BY <1>10, QueryFoundFlat
<1>11. CASE UNCHANGED vars
  BY <1>11 DEF vars, MInv
<1> QED BY <1>1, <1>2, <1>3, <1>4, <1>5, <1>6, <1>7, <1>8, <1>9, <1>10, <1>11
        DEF Next, Step

\* As long as all nodes stay in memory, only the root is an inner node, and it
\* buffers nothing: a leaf that is split gives the root more pivots, whatever
\* max_pivots is, since the shortcut returns past the check of the limits.
THEOREM FlatInMemory == Spec /\ []AllInMemory => []FlatTree(node, root)
<1>1. MInv => FlatTree(node, root)
  BY DEF MInv
<1> QED BY <1>1, InitFlat, FlatKeeps, PTL DEF Spec

\* As long as all nodes stay in memory, the comment at the shortcut is right: it
\* passes by no message that the node holds for the child, since the node holds none.
THEOREM NoneOvertakenInMemory == Spec /\ []AllInMemory => []DirtyChildBufferEmpty
<1>1. MInv => DirtyChildBufferEmpty
  <2> SUFFICES ASSUME MInv, stack # << >>, Top.fn = "flush", ~IsLeaf(Current),
                      NEW p
               PROVE  Batch(Rekeyed(Current, Top.arg), p) = {}
    BY DEF DirtyChildBufferEmpty, Running
  <2> DEFINE arg == Top.arg
             n   == Rekeyed(Current, arg)
  <2>1. /\ Top \in Flushes(next_timestamp) \union Queries /\ Top.id \in DOMAIN node
        /\ NodeOK(Current, DOMAIN node, next_timestamp)
    BY TopFacts DEF MInv, OInv, FrameOK
  <2>2. arg \in Buffer(next_timestamp) /\ arg # {}
    BY <2>1 DEF Flushes, Queries
  <2>3. Current.elements = {}
    BY <2>1 DEF MInv, FlatTree, Current
  <2> HIDE DEF arg
  <2>4. n.elements = Current.elements
    BY <2>1, <2>2, RekeyedOK
  <2> HIDE DEF n
  <2>5. Batch(n, p) = {}
    BY <2>3, <2>4 DEF Batch
  <2> QED BY <2>5 DEF n, arg
<1> QED BY <1>1, InitFlat, FlatKeeps, PTL DEF Spec

\* As long as all nodes stay in memory, the tree is the dictionary.
THEOREM InMemoryIsMap == Spec /\ []AllInMemory => MapSpec
BY NoneOvertakenInMemory, TreeIsMap, PTL

\* upsert and query take the non-const operator-> only: all that is in memory is
\* dirty, so that is_dirty() tells the shortcut no more than is_in_memory() would, and
\* each eviction writes.
THEOREM DirtyIsResident == Spec => [](cache.dirty = Cache!Resident(cache))
<1>1. IInv => cache.dirty = Cache!Resident(cache)
  BY DEF IInv, CacheOK
<1> QED BY <1>1, Shape, PTL

-----------------------------------------------------------------------------
(* A cache with room for the tree and a node more: nothing is ever evicted, so *)
(* that the tree is one that fits in memory.                                  *)

Roomy == CacheSize < Word /\ Cardinality(DOMAIN node) < CacheSize

\* All these nodes are in the cache, and its counter knows them.
Whole(c, ids) ==
    /\ CacheOK(c, ids) /\ Cache!Resident(c) = ids
    /\ c.count = Cardinality(ids) /\ c.count <= CacheSize

\* Nothing is evicted from a cache that is not too full.
LEMMA EvictsNothing ==
  ASSUME NEW c, IsFiniteSet(Cache!Resident(c)), c.count \in Int, c.count <= CacheSize,
         NEW pinned
  PROVE  LET left == Cache!Evict(c, pinned)
         IN  Cache!Resident(left) = Cache!Resident(c) /\ left.count = c.count
<1> DEFINE objects == Cache!Resident(c) \ pinned
           older(o) == {x \in objects : c.lru[x] < c.lru[o]}
           victims == Cache!Oldest(c, objects)
           count   == c.count - Cardinality(victims)
           left    == Cache!Leave(c, victims, count)
<1>1. Cache!Evict(c, pinned) = left
  BY CardinalityInCache DEF Cache!Evict
<1>2. victims = {}
  <2>1. victims = {o \in objects : Cardinality(older(o)) < c.count - CacheSize}
    BY CardinalityInCache DEF Cache!Oldest
  <2>2. \A o \in objects : Cardinality(older(o)) \in Nat
    BY FS_Subset, FS_CardinalityType
  <2>3. c.count - CacheSize <= 0 /\ c.count - CacheSize \in Int
    BY CacheAssumption
  <2> HIDE DEF victims, objects, older
  <2> QED BY <2>1, <2>2, <2>3
<1>3. count = c.count
  <2>1. Cardinality(victims) = 0
    BY <1>2, FS_EmptySet
  <2> HIDE DEF victims
  <2> QED BY <2>1
<1> HIDE DEF victims, count
<1>4. left.lru = Cache!Only(c.lru, Cache!Resident(c) \ victims) /\ left.count = count
  BY DEF Cache!Leave
<1> HIDE DEF left
<1>5. Cache!Resident(left) = Cache!Resident(c) \ victims
  BY <1>4 DEF Cache!Resident, Cache!Only
<1> QED BY <1>1, <1>2, <1>3, <1>4, <1>5

\* The operations of such a cache: an eviction and a return ...
LEMMA WholeEvict ==
  ASSUME NEW c, NEW ids, Whole(c, ids), NEW pinned
  PROVE  Whole(Cache!Evict(c, pinned), ids)
<1>1. CacheOK(c, ids) /\ Cache!Resident(c) = ids /\ c.count = Cardinality(ids)
      /\ c.count <= CacheSize
  BY DEF Whole
<1>2. IsFiniteSet(Cache!Resident(c)) /\ c.count \in Int
  BY <1>1 DEF CacheOK
<1> DEFINE left == Cache!Evict(c, pinned)
<1>3. CacheOK(left, ids)
  BY <1>1, EvictKeeps
<1>4. Cache!Resident(left) = Cache!Resident(c) /\ left.count = c.count
  BY <1>1, <1>2, EvictsNothing
<1> HIDE DEF left
<1>5. Whole(left, ids)
  BY <1>1, <1>3, <1>4 DEF Whole
<1> QED BY <1>5 DEF left

\* ... an access ...
LEMMA WholeAccess ==
  ASSUME NEW c, NEW ids, Whole(c, ids), NEW o \in ids, NEW pinned \in SUBSET ids
  PROVE  Whole(Cache!Access(c, o, pinned), ids)
<1> DEFINE d == [lru     |-> Cache!Recent(c.lru, o),
                 dirty   |-> c.dirty \union {o},
                 count   |-> IF Cache!InMemory(c, o) THEN c.count ELSE (c.count + 1) % Word,
                 members |-> IF Cache!InMemory(c, o) THEN c.members
                             ELSE Cache!Put(c.members, o, DefaultMembers)]
           used == Cache!Access(c, o, pinned)
<1>1. CacheOK(c, ids) /\ Cache!Resident(c) = ids /\ c.count = Cardinality(ids)
      /\ c.count <= CacheSize /\ IsFiniteSet(ids) /\ c.count \in Int
  BY DEF Whole, CacheOK
<1>2. used = Cache!Evict(d, pinned \union {o})
  BY DEF Cache!Access, Cache!Use
<1>3. d.count = c.count
  BY <1>1 DEF Cache!InMemory
<1>4. Cache!Resident(d) = ids
  <2>1. d.lru = Cache!Recent(c.lru, o)
    OBVIOUS
  <2>2. DOMAIN Cache!Recent(c.lru, o) = DOMAIN c.lru \union {o}
    BY DEF Cache!Recent
  <2> HIDE DEF d
  <2> QED BY <1>1, <2>1, <2>2 DEF Cache!Resident
<1> HIDE DEF d
<1>5. Cache!Resident(used) = ids /\ used.count = c.count
  BY <1>1, <1>2, <1>3, <1>4, EvictsNothing
<1>6. CacheOK(used, ids)
  BY <1>1, AccessKeeps
<1> HIDE DEF used
<1>7. Whole(used, ids)
  BY <1>1, <1>5, <1>6 DEF Whole
<1> QED BY <1>7 DEF used

LEMMA WholeTouch ==
  ASSUME NEW c, NEW ids, Whole(c, ids), NEW o \in ids, NEW pinned \in SUBSET ids
  PROVE  Whole(Cache!Touch(c, o, pinned), ids)
<1> DEFINE used == Cache!Access(c, o, pinned)
<1>1. Whole(used, ids)
  BY WholeAccess
<1>2. Cache!Touch(c, o, pinned) = Cache!Evict(used, pinned)
  BY DEF Cache!Touch
<1> HIDE DEF used
<1> QED BY <1>1, <1>2, WholeEvict

\* ... a new node, for which there is room ...
LEMMA WholeAllocate ==
  ASSUME NEW c, NEW ids, Whole(c, ids), NEW o, o \notin ids, NEW epsilon,
         NEW pinned \in SUBSET ids,
         CacheSize < Word, Cardinality(ids) < CacheSize
  PROVE  Whole(Cache!Allocate(c, o, Constructed(epsilon), pinned), ids \union {o})
<1> DEFINE put == Cache!Put(c.members, o, Constructed(epsilon))
           d   == [lru |-> Cache!Recent(c.lru, o), dirty |-> c.dirty \union {o},
                   count |-> (c.count + 1) % Word, members |-> put]
           new == Cache!Allocate(c, o, Constructed(epsilon), pinned)
           all == ids \union {o}
<1>1. CacheOK(c, ids) /\ Cache!Resident(c) = ids /\ c.count = Cardinality(ids)
      /\ c.count <= CacheSize /\ IsFiniteSet(ids) /\ c.count \in Nat
  BY FS_CardinalityType DEF Whole, CacheOK
<1>2. new = Cache!Evict(d, pinned)
  BY DEF Cache!Allocate
<1>3. d.count = c.count + 1
  <2>1. c.count + 1 \in 0 .. Word - 1 /\ Word \in Nat \ {0}
    BY <1>1, CacheAssumption
  <2>2. \A x \in 0 .. Word - 1 : x % Word = x
    BY <2>1
  <2> QED BY <2>1, <2>2
<1>4. Cache!Resident(d) = all
  <2>1. d.lru = Cache!Recent(c.lru, o)
    OBVIOUS
  <2>2. DOMAIN Cache!Recent(c.lru, o) = DOMAIN c.lru \union {o}
    BY DEF Cache!Recent
  <2> HIDE DEF d
  <2> QED BY <1>1, <2>1, <2>2 DEF Cache!Resident
<1> HIDE DEF d
<1>5. IsFiniteSet(all) /\ Cardinality(all) = Cardinality(ids) + 1
  BY <1>1, FS_AddElement
<1>6. d.count \in Int /\ d.count <= CacheSize /\ d.count = Cardinality(all)
  BY <1>1, <1>3, <1>5, CacheAssumption
<1>7. Cache!Resident(new) = all /\ new.count = d.count
  BY <1>2, <1>4, <1>5, <1>6, EvictsNothing
<1>8. CacheOK(new, all)
  BY <1>1, AllocateKeeps
<1> HIDE DEF new, all
<1>9. Whole(new, all)
  BY <1>6, <1>7, <1>8 DEF Whole
<1> QED BY <1>9 DEF new, all

\* ... and one less.
LEMMA WholeFree ==
  ASSUME NEW c, NEW ids, Whole(c, ids), NEW o \in ids
  PROVE  Whole(Cache!Free(c, o), ids \ {o})
<1> DEFINE count == (c.count + Word - 1) % Word
           freed == Cache!Free(c, o)
           rest  == ids \ {o}
<1>1. CacheOK(c, ids) /\ Cache!Resident(c) = ids /\ c.count = Cardinality(ids)
      /\ c.count <= CacheSize /\ IsFiniteSet(ids) /\ c.count \in 0 .. Word - 1
  BY DEF Whole, CacheOK
<1>2. IsFiniteSet(rest) /\ Cardinality(rest) = c.count - 1 /\ Cardinality(rest) \in Nat
  BY <1>1, FS_RemoveElement, FS_CardinalityType
<1>3. count = c.count - 1 /\ count \in 0 .. Word - 1
  <2>1. c.count - 1 \in 0 .. Word - 1 /\ Word \in Nat \ {0}
    BY <1>1, <1>2, CacheAssumption
  <2>2. \A x \in 0 .. Word - 1 : (x + Word) % Word = x
    BY <2>1
  <2>3. c.count + Word - 1 = (c.count - 1) + Word
    BY <1>1, <2>1
  <2> QED BY <2>1, <2>2, <2>3
<1> HIDE DEF count
<1>4. freed = Cache!Leave(c, {o}, count)
  BY DEF Cache!Free, count
<1>5. CacheOK(freed, rest) /\ Cache!Resident(freed) = rest
  BY <1>1, <1>3, <1>4, LeaveKeeps
<1>6. freed.count = count
  BY <1>4 DEF Cache!Leave
<1> HIDE DEF freed, rest
<1>7. Whole(freed, rest)
  BY <1>1, <1>2, <1>3, <1>5, <1>6, CacheAssumption DEF Whole
<1> QED BY <1>7 DEF freed, rest

\* A split, as the two folds it is.
FillWhole(s, taken, c) == \A i \in Int : taken = 0 .. i => Whole(c, FilledTo(s, i))
SizeWhole(s, taken, c) == Whole(c, Filled(s))

FillingAll == INSTANCE FoldRule WITH op <- FillOne, choose <- Max, Inv <- FillWhole
SizingAll  == INSTANCE FoldRule WITH op <- SizeOne, choose <- Max, Inv <- SizeWhole

\* A split in a cache that has room for one node more than there are after it: a part
\* that is skipped is freed only when the next one is there.
SplitRoom(s) ==
    /\ s.first \in Nat /\ s.ids \subseteq 1 .. s.first - 1 /\ s.pinned \subseteq s.ids
    /\ Parts(s.n) \in SUBSET Nat /\ IsFiniteSet(Parts(s.n)) /\ Parts(s.n) # {}
    /\ IsFiniteSet(s.ids)
    /\ CacheSize < Word /\ Cardinality(Filled(s)) < CacheSize

\* When a part is filled there is room for it.
LEMMA RoomToFill ==
  ASSUME NEW s, SplitRoom(s), NEW i \in 0 .. Max(Parts(s.n))
  PROVE  /\ s.first + i \notin FilledTo(s, i - 1)
         /\ IsFiniteSet(FilledTo(s, i - 1)) /\ Cardinality(FilledTo(s, i - 1)) < CacheSize
<1> DEFINE last   == Max(Parts(s.n))
           before == FilledTo(s, i - 1)
           places == {s.first + j : j \in Parts(s.n)}
<1>1. last \in Parts(s.n) /\ last \in Nat /\ \A j \in Parts(s.n) : j <= last
  BY FiniteMaxMin DEF SplitRoom
<1>2. s.first \in Nat /\ s.ids \subseteq 1 .. s.first - 1
  BY DEF SplitRoom
<1> HIDE DEF last
<1>3. i \in Nat /\ i <= last
  BY <1>1 DEF last
<1>4. s.first + i \notin before
  BY <1>2, <1>3 DEF FilledTo
<1>5. IsFiniteSet(Filled(s)) /\ Cardinality(Filled(s)) \in Nat
      /\ Cardinality(Filled(s)) < CacheSize
  <2>1. IsFiniteSet(places)
    <3>1. places \subseteq s.first .. s.first + last
      BY <1>1, <1>2 DEF SplitRoom
    <3>2. s.first \in Int /\ s.first + last \in Int
      BY <1>1, <1>2
    <3> HIDE DEF places
    <3> QED BY <3>1, <3>2, FS_Interval, FS_Subset
  <2> HIDE DEF places
  <2>2. IsFiniteSet(s.ids \union places)
    BY <2>1, FS_Union DEF SplitRoom
  <2> QED BY <2>2, FS_CardinalityType DEF SplitRoom, Filled, places
<1> DEFINE top  == s.first + last
           prev == s.first + (i - 1)
           most == (Filled(s) \ {top}) \union {prev}
<1>6. before \subseteq most
  <2> SUFFICES ASSUME NEW x \in before, x # prev PROVE x \in Filled(s) /\ x # top
    OBVIOUS
  <2>1. CASE x \in s.ids
    BY <1>1, <1>2, <2>1 DEF Filled
  <2>2. CASE x \notin s.ids
    <3>1. PICK j \in 0 .. i - 1 : x = s.first + j /\ (j \in Parts(s.n) \/ j = i - 1)
      BY <2>2 DEF FilledTo
    <3>2. j \in Parts(s.n) /\ j < last
      BY <1>1, <1>2, <1>3, <3>1
    <3> QED BY <1>1, <1>2, <3>1, <3>2 DEF Filled
  <2> QED BY <2>1, <2>2
<1>7. IsFiniteSet(most) /\ Cardinality(most) <= Cardinality(Filled(s))
      /\ Cardinality(most) \in Nat
  <2>1. top \in Filled(s)
    BY <1>1 DEF Filled
  <2> HIDE DEF top, prev
  <2> DEFINE F == Filled(s)
             G == F \ {top}
  <2>2. IsFiniteSet(F) /\ Cardinality(F) \in Nat
    BY <1>5
  <2> HIDE DEF F
  <2>3. IsFiniteSet(G) /\ Cardinality(G) = Cardinality(F) - 1
    BY <2>1, <2>2, FS_RemoveElement DEF F
  <2> HIDE DEF G
  <2>4. IsFiniteSet(G \union {prev}) /\ Cardinality(G \union {prev}) <= Cardinality(G) + 1
    <3>1. Cardinality(G \union {prev}) = Cardinality(G) \/ Cardinality(G \union {prev}) = Cardinality(G) + 1
      BY <2>3, FS_AddElement
    <3>2. IsFiniteSet(G \union {prev})
      BY <2>3, FS_AddElement
    <3> QED BY <2>2, <2>3, <3>1, <3>2
  <2>5. Cardinality(G \union {prev}) \in Nat
    BY <2>4, FS_CardinalityType
  <2>6. Cardinality(G \union {prev}) <= Cardinality(F)
    BY <2>2, <2>3, <2>4, <2>5
  <2> QED BY <2>4, <2>5, <2>6 DEF F, G
<1> HIDE DEF before, most
<1>8. IsFiniteSet(before) /\ Cardinality(before) <= Cardinality(most)
      /\ Cardinality(before) \in Nat
  BY <1>6, <1>7, FS_Subset, FS_CardinalityType
<1>9. Cardinality(before) < CacheSize
  BY <1>5, <1>7, <1>8, CacheAssumption
<1> QED BY <1>4, <1>8, <1>9 DEF before

\* One round of the loop.
LEMMA FillKeepsWhole ==
  ASSUME NEW s, SplitRoom(s), NEW i \in 0 .. Max(Parts(s.n)),
         NEW c, Whole(c, FilledTo(s, i - 1))
  PROVE  Whole(FillOne(s, i, c), FilledTo(s, i))
<1> DEFINE o      == s.first + i
           before == FilledTo(s, i - 1)
           all    == before \union {o}
           new    == Cache!Allocate(c, o, Constructed(s.n.epsilon), s.pinned)
           filled == Cache!Touch(new, o, s.pinned)
           last   == s.first + (i - 1)
<1>1. /\ s.first \in Nat /\ s.ids \subseteq 1 .. s.first - 1
      /\ s.pinned \in SUBSET before /\ CacheSize < Word /\ i \in Nat
  <2>1. Max(Parts(s.n)) \in Nat
    BY FiniteMaxMin DEF SplitRoom
  <2> QED BY <2>1 DEF SplitRoom, FilledTo
<1>2. o \notin before /\ Cardinality(before) < CacheSize
  BY RoomToFill
<1>3. (i = 0 \/ i - 1 \in Parts(s.n)) => FilledTo(s, i) = all
  BY <1>1 DEF FilledTo
<1>4. ~(i = 0 \/ i - 1 \in Parts(s.n)) => FilledTo(s, i) = all \ {last} /\ last \in all
  <2> SUFFICES ASSUME i # 0, i - 1 \notin Parts(s.n)
               PROVE  FilledTo(s, i) = all \ {last} /\ last \in all
    OBVIOUS
  <2>1. i - 1 \in 0 .. i - 1 /\ \A j \in 0 .. i : j # i => j \in 0 .. i - 1
    BY <1>1
  <2>2. last \in all
    BY <2>1 DEF FilledTo
  <2>3. last \notin s.ids /\ last # o
    BY <1>1
  <2>4. FilledTo(s, i) \subseteq all \ {last}
    <3> SUFFICES ASSUME NEW x \in FilledTo(s, i) PROVE x \in all /\ x # last
      OBVIOUS
    <3>1. CASE x \in s.ids
      BY <2>3, <3>1 DEF FilledTo
    <3>2. CASE x \notin s.ids
      <4>1. PICK j \in 0 .. i : x = s.first + j /\ (j \in Parts(s.n) \/ j = i)
        BY <3>2 DEF FilledTo
      <4>2. CASE j = i
        BY <2>3, <4>1, <4>2
      <4>3. CASE j # i
        <5>1. j \in 0 .. i - 1 /\ j \in Parts(s.n) /\ j # i - 1
          BY <2>1, <4>1, <4>3
        <5>2. x \in before
          BY <4>1, <5>1 DEF FilledTo
        <5>3. x # last
          BY <1>1, <4>1, <5>1
        <5> QED BY <5>2, <5>3
      <4> QED BY <4>2, <4>3
    <3> QED BY <3>1, <3>2
  <2>5. all \ {last} \subseteq FilledTo(s, i)
    <3> SUFFICES ASSUME NEW x \in all, x # last PROVE x \in FilledTo(s, i)
      OBVIOUS
    <3>1. CASE x = o
      BY <1>1, <3>1 DEF FilledTo
    <3>2. CASE x \in s.ids
      BY <3>2 DEF FilledTo
    <3>3. CASE x # o /\ x \notin s.ids
      <4>1. PICK j \in 0 .. i - 1 : x = s.first + j /\ (j \in Parts(s.n) \/ j = i - 1)
        BY <3>3 DEF FilledTo
      <4>2. j \in Parts(s.n) /\ j \in 0 .. i
        BY <1>1, <4>1
      <4> QED BY <4>1, <4>2 DEF FilledTo
    <3> QED BY <3>1, <3>2, <3>3
  <2> QED BY <2>2, <2>4, <2>5
<1> HIDE DEF o, before, last
<1>5. Whole(new, all)
  BY <1>1, <1>2, WholeAllocate DEF before
<1>6. Whole(filled, all)
  <2>1. o \in all /\ s.pinned \in SUBSET all
    BY <1>1
  <2> HIDE DEF new, all
  <2> QED BY <1>5, <2>1, WholeTouch
<1> HIDE DEF filled, new, all
<1>7. CASE i = 0 \/ i - 1 \in Parts(s.n)
  <2>1. FillOne(s, i, c) = filled
    BY <1>7 DEF FillOne, filled, new, o
  <2> QED BY <1>3, <1>6, <1>7, <2>1
<1>8. CASE ~(i = 0 \/ i - 1 \in Parts(s.n))
  <2>1. FillOne(s, i, c) = Cache!Free(filled, last)
    BY <1>8 DEF FillOne, filled, new, o, last
  <2>2. Whole(Cache!Free(filled, last), all \ {last})
    BY <1>4, <1>6, <1>8, WholeFree
  <2> QED BY <1>4, <1>8, <2>1, <2>2
<1> QED BY <1>7, <1>8

\* All accesses of a split.
LEMMA WholeSplit ==
  ASSUME NEW n, NEW ids, NEW now, NodeOK(n, ids, now), n.elements # {} \/ ~IsLeaf(n),
         next_id \in Nat, ids \subseteq 1 .. next_id - 1,
         NEW c, Whole(c, ids), NEW pinned \in SUBSET ids,
         CacheSize < Word, Cardinality(ids \union {IdOf(i) : i \in Parts(n)}) < CacheSize
  PROVE  Whole(SplitCache(n, c, pinned), ids \union {IdOf(i) : i \in Parts(n)})
<1> DEFINE s      == [n |-> n, ids |-> ids, first |-> next_id, pinned |-> pinned]
           places == 0 .. Max(Parts(n))
           filled == FillingAll!Fold(s, c, places)
           sized  == SizingAll!Fold(s, filled, Parts(n))
<1>1. SplitCache(n, c, pinned) = sized
  BY DEF SplitCache, InTurn, FillPart, IdOf, FillOne, SizeOne, FillingAll!Fold, SizingAll!Fold,
         MapThenFoldSet, FillingAll!MapThenFoldSet, SizingAll!MapThenFoldSet
<1>2. Parts(n) \in SUBSET Nat /\ IsFiniteSet(Parts(n)) /\ Parts(n) # {}
  <2> DEFINE last == NumNew(n) - 1
  <2>1. Parts(n) \subseteq 0 .. last /\ last \in Int
    BY SplitSizes DEF Parts
  <2>2. 0 .. last \subseteq Nat
    BY <2>1
  <2> HIDE DEF last
  <2>3. IsFiniteSet(Parts(n))
    BY <2>1, FiniteUpTo, FS_Subset
  <2>4. Parts(n) # {}
    BY FirstPart
  <2> QED BY <2>1, <2>2, <2>3, <2>4
<1>3. Max(Parts(n)) \in Parts(n) /\ Max(Parts(n)) \in Nat
      /\ \A i \in Parts(n) : i <= Max(Parts(n))
  BY <1>2, FiniteMaxMin
<1>4. places \in SUBSET Int /\ IsFiniteSet(places)
  BY <1>3, FiniteUpTo
<1>5. Filled(s) = ids \union {IdOf(i) : i \in Parts(n)}
  BY DEF Filled, IdOf
<1>6. SplitRoom(s) /\ s.n = n /\ s.pinned \in SUBSET Filled(s)
  <2>1. IsFiniteSet(ids)
    BY DEF Whole, CacheOK
  <2>2. s.n = n /\ s.ids = ids /\ s.first = next_id /\ s.pinned = pinned
    OBVIOUS
  <2>3. Cardinality(Filled(s)) < CacheSize /\ s.pinned \in SUBSET Filled(s)
    BY <1>5
  <2> HIDE DEF s
  <2> QED BY <1>2, <2>1, <2>2, <2>3 DEF SplitRoom
<1>7. FillWhole(s, places, filled)
  <2>1. \A T \in SUBSET places : T # {} => Max(T) \in T
    BY <1>4, MaxOfSome
  <2>2. FillWhole(s, {}, c)
    <3> SUFFICES ASSUME NEW i \in Int, {} = 0 .. i PROVE Whole(c, FilledTo(s, i))
      BY DEF FillWhole
    <3>1. ids = FilledTo(s, i)
      BY DEF FilledTo
    <3> QED BY <3>1
  <2>3. ASSUME NEW T \in SUBSET places, NEW acc, T # {}, FillWhole(s, T \ {Max(T)}, acc)
        PROVE  FillWhole(s, T, FillOne(s, Max(T), acc))
    <3> SUFFICES ASSUME NEW i \in Int, T = 0 .. i
                 PROVE  Whole(FillOne(s, Max(T), acc), FilledTo(s, i))
      BY DEF FillWhole
    <3>1. i \in Nat /\ i \in T
      BY <2>3
    <3>2. Max(T) = i
      <4>1. Max(T) \in T /\ \A x \in T : x <= Max(T)
        BY <1>4, <2>3, FS_Subset, FiniteMaxMin
      <4> QED BY <3>1, <4>1
    <3>3. T \ {Max(T)} = 0 .. i - 1
      BY <3>1, <3>2
    <3>4. Whole(acc, FilledTo(s, i - 1))
      BY <2>3, <3>1, <3>3 DEF FillWhole
    <3>5. i \in 0 .. Max(Parts(s.n))
      BY <1>6, <2>3, <3>1
    <3> HIDE DEF s
    <3> QED BY <1>6, <3>2, <3>4, <3>5, FillKeepsWhole
  <2>4. FillingAll!IsFiniteSet(places)
    BY <1>4 DEF IsFiniteSet, FillingAll!IsFiniteSet
  <2> HIDE DEF s, places
  <2> QED BY <2>1, <2>2, <2>3, <2>4, FillingAll!FoldInvariant
<1>8. Whole(filled, Filled(s))
  <2>1. Whole(filled, FilledTo(s, Max(Parts(n))))
    <3> HIDE DEF s, filled
    <3> QED BY <1>3, <1>7 DEF FillWhole
  <2>2. FilledTo(s, Max(Parts(n))) = Filled(s)
    <3>1. {k \in 0 .. Max(Parts(n)) : k \in Parts(n) \/ k = Max(Parts(n))} = Parts(n)
      BY <1>2, <1>3
    <3>2. s.n = n
      OBVIOUS
    <3> HIDE DEF s
    <3> QED BY <3>1, <3>2 DEF FilledTo, Filled
  <2> HIDE DEF s, filled
  <2> QED BY <2>1, <2>2
<1> HIDE DEF filled
<1>9. SizeWhole(s, Parts(n), sized)
  <2>1. \A T \in SUBSET Parts(n) : T # {} => Max(T) \in T
    BY <1>2, MaxOfSome
  <2>2. SizeWhole(s, {}, filled)
    BY <1>8 DEF SizeWhole
  <2>3. ASSUME NEW T \in SUBSET Parts(n), NEW acc, T # {}, SizeWhole(s, T \ {Max(T)}, acc)
        PROVE  SizeWhole(s, T, SizeOne(s, Max(T), acc))
    <3> DEFINE o == s.first + Max(T)
    <3>1. o \in Filled(s)
      BY <2>1, <2>3 DEF Filled
    <3>2. Whole(acc, Filled(s))
      BY <2>3 DEF SizeWhole
    <3> HIDE DEF s, o
    <3>3. Whole(Cache!Touch(acc, o, s.pinned), Filled(s))
      BY <1>6, <3>1, <3>2, WholeTouch
    <3> QED BY <3>3 DEF SizeWhole, SizeOne, o
  <2>4. SizingAll!IsFiniteSet(Parts(n))
    BY <1>2 DEF IsFiniteSet, SizingAll!IsFiniteSet
  <2> HIDE DEF s
  <2> QED BY <2>1, <2>2, <2>3, <2>4, SizingAll!FoldInvariant
<1> HIDE DEF s, sized
<1> QED BY <1>1, <1>5, <1>9 DEF SizeWhole

\* The cache in step with the tree.
RInv == OInv /\ Whole(cache, DOMAIN node)

\* A step keeps to what it has when it evicts only.
LEMMA WholeInv ==
  ASSUME RInv
  PROVE  /\ OInv /\ IInv /\ Whole(cache, DOMAIN node)
         /\ CacheOK(cache, DOMAIN node) /\ Cache!Resident(cache) = DOMAIN node
         /\ IsFiniteSet(DOMAIN node) /\ root \in DOMAIN node
         /\ next_id \in Nat /\ DOMAIN node \subseteq 1 .. next_id - 1
         /\ PinnedBy(stack) \in SUBSET DOMAIN node
<1>1. OInv /\ IInv /\ Whole(cache, DOMAIN node)
  BY DEF RInv, OInv
<1>2. CacheOK(cache, DOMAIN node) /\ Cache!Resident(cache) = DOMAIN node
  BY <1>1 DEF Whole
<1>3. IsFiniteSet(DOMAIN node)
  BY <1>2 DEF CacheOK
<1>4. PinnedBy(stack) \subseteq DOMAIN node
  BY <1>1, <1>2 DEF IInv, PinnedInMemory
<1> QED BY <1>1, <1>2, <1>3, <1>4 DEF IInv, NodesOK

\* The running activation calls one of a child ...
LEMMA WholeDown ==
  ASSUME RInv, OInv', stack # << >>, DOMAIN node' = DOMAIN node,
         NEW pc, NEW p, NEW c, NEW arg, Call(At(pc, p), Top.fn, c, arg)
  PROVE  Whole(cache', DOMAIN node')
<1> DEFINE F == Flushes(next_timestamp) \union Queries
           f == [Top EXCEPT !.pc = pc, !.pivot = p]
           G == F \union {f}
           new == Append(At(pc, p), Activation(Top.fn, c, arg))
<1>1. /\ OInv /\ IInv /\ Whole(cache, DOMAIN node) /\ PinnedBy(stack) \in SUBSET DOMAIN node
  BY WholeInv
<1>2. stack \in Seq(F) /\ Top \in F /\ Top = Last(stack)
  BY <1>1, TopFacts DEF Top
<1>3. f.id = Top.id
  BY <1>2 DEF Flushes, Queries
<1>4. stack' = new /\ cache' = Cache!Access(cache, c, PinnedBy(At(pc, p)))
  BY DEF Call
<1>5. PinnedBy(At(pc, p)) = PinnedBy(stack)
  <2>1. stack \in Seq(G) /\ f \in G /\ f.id = Last(stack).id
    BY <1>2, <1>3, WiderSeq
  <2>2. At(pc, p) = Append(Front(stack), f)
    BY DEF At
  <2> HIDE DEF f, G, F
  <2> QED BY <2>1, <2>2, PinnedPopped
<1>6. c \in DOMAIN node
  <2>1. Called(new, pc, p, c, arg)
    BY <1>1, DownStack
  <2> HIDE DEF new
  <2>2. Len(stack') = Len(stack) + 1 /\ stack'[Len(stack) + 1].id = c
    BY <1>4, <2>1 DEF Called
  <2>3. Len(stack) \in Nat
    BY <1>1, TopFacts
  <2>4. \A i \in 1 .. Len(stack') : stack'[i].id \in DOMAIN node'
    BY DEF OInv, IInv, FramesOK, FrameOK
  <2>5. stack'[Len(stack) + 1].id \in DOMAIN node'
    BY <2>2, <2>3, <2>4
  <2> QED BY <2>2, <2>5
<1> QED BY <1>1, <1>4, <1>5, <1>6, WholeAccess

\* ... or the client one of the root.
LEMMA WholeFirst ==
  ASSUME RInv, node' = node, NEW fn, NEW arg, Call(<< >>, fn, root, arg)
  PROVE  Whole(cache', DOMAIN node')
<1>1. Whole(cache, DOMAIN node) /\ root \in DOMAIN node
  BY WholeInv
<1>2. cache' = Cache!Access(cache, root, {})
  BY NothingPinned DEF Call
<1> QED BY <1>1, <1>2, WholeAccess

\* It ends, with or without a split.
LEMMA WholeFinish ==
  ASSUME RInv, Roomy', stack # << >>, NEW n, NodeOK(n, DOMAIN node, next_timestamp),
         NEW splits \in BOOLEAN, splits => n.elements # {} \/ ~IsLeaf(n), Finish(n, splits)
  PROVE  Whole(cache', DOMAIN node')
<1> DEFINE ids    == DOMAIN node
           all    == ids \union {IdOf(j) : j \in Parts(n)}
           pinned == PinnedBy(stack)
           left   == PinnedBy(Front(stack))
<1>1. Whole(cache, ids) /\ pinned \in SUBSET ids /\ next_id \in Nat /\ ids \subseteq 1 .. next_id - 1
  BY WholeInv
<1>2. CASE splits
  <2> DEFINE split == SplitCache(n, cache, pinned)
  <2>1. cache' = Cache!Evict(split, left) /\ DOMAIN node' = all
    BY <1>2 DEF Finish, Return
  <2>2. CacheSize < Word /\ Cardinality(all) < CacheSize
    BY <2>1 DEF Roomy
  <2>3. NodeOK(n, ids, next_timestamp)
    OBVIOUS
  <2> HIDE DEF ids, pinned, left
  <2>4. Whole(split, all)
    BY <1>1, <1>2, <2>2, <2>3, WholeSplit
  <2> HIDE DEF split, all
  <2> QED BY <2>1, <2>4, WholeEvict
<1>3. CASE ~splits
  <2>1. cache' = Cache!Evict(cache, left) /\ DOMAIN node' = ids
    BY <1>3 DEF Finish, Return
  <2> HIDE DEF ids, left
  <2> QED BY <1>1, <2>1, WholeEvict
<1> QED BY <1>2, <1>3

LEMMA FlushLeafWhole ==
  ASSUME RInv, Roomy', FlushLeaf
  PROVE  Whole(cache', DOMAIN node')
<1> DEFINE es      == ApplyAll(Current.elements, Top.arg, TRUE)
           applied == [Current EXCEPT !.elements = es]
           splits  == Cardinality(applied.elements) >= MaxMessages
<1>1. /\ stack # << >> /\ Top.fn = "flush" /\ IsLeaf(Current)
      /\ Finish(applied, splits) /\ IInv
  BY WholeInv DEF FlushLeaf, Running
<1>2. /\ Top \in Flushes(next_timestamp) \union Queries
      /\ NodeOK(Current, DOMAIN node, next_timestamp)
      /\ Top.id \in Cache!Resident(cache)
  <2>1. Top.id \in DOMAIN node
    BY <1>1, TopFacts DEF FrameOK
  <2> QED BY <1>1, <2>1, TopFacts, WholeInv
<1>3. Top.arg \in Buffer(next_timestamp)
  BY <1>1, <1>2 DEF Flushes, Queries
<1>4. es \in Buffer(next_timestamp) /\ Inserts(es)
  <2>1. Current.elements \in Buffer(next_timestamp) /\ Inserts(Current.elements)
    BY <1>1, <1>2 DEF NodeOK
  <2> QED BY <1>3, <2>1, ApplyAllKeeps
<1> HIDE DEF es
<1>5. NodeOK(applied, DOMAIN node, next_timestamp)
  BY <1>2, <1>4, ElementsOK
<1> HIDE DEF applied
<1>6. ASSUME splits PROVE applied.elements # {}
  <2>1. SUFFICES ASSUME applied.elements = {} PROVE FALSE
    OBVIOUS
  <2>2. Cardinality(applied.elements) = 0
    BY <2>1, FS_EmptySet
  <2>3. cache.members[Top.id].max_pivots \in 0 .. NodeSize - 1
    BY <1>1, <1>2 DEF IInv, CacheOK
  <2> QED BY <1>6, <2>2, <2>3, SizeAssumption DEF MaxMessages, MaxPivots
<1>7. splits \in BOOLEAN
  OBVIOUS
<1> HIDE DEF splits
<1> QED BY <1>1, <1>5, <1>6, <1>7, WholeFinish

LEMMA FlushDoneWhole ==
  ASSUME RInv, Roomy', FlushDone \/ DirectDone
  PROVE  Whole(cache', DOMAIN node')
<1>1. /\ stack # << >> /\ Top.fn = "flush" /\ IInv
      /\ \E splits \in BOOLEAN : Finish(Current, splits) /\ (splits => Top.pc = "loop")
  <2>1. IInv
    BY WholeInv
  <2>2. CASE FlushDone
    <3> DEFINE splits == Cardinality(DOMAIN Current.pivots) > MaxPivots
    <3>1. stack # << >> /\ Top.fn = "flush" /\ Top.pc = "loop" /\ Finish(Current, splits)
      BY <2>2 DEF FlushDone, Running
    <3>2. splits \in BOOLEAN
      OBVIOUS
    <3> HIDE DEF splits
    <3> QED BY <2>1, <3>1, <3>2
  <2>3. CASE DirectDone
    <3> DEFINE splits == FALSE
    <3>1. stack # << >> /\ Top.fn = "flush" /\ Finish(Current, splits)
      BY <2>3 DEF DirectDone, Running
    <3>2. splits \in BOOLEAN /\ ~splits
      OBVIOUS
    <3> HIDE DEF splits
    <3> QED BY <2>1, <3>1, <3>2
  <2> QED BY <2>2, <2>3
<1>2. NodeOK(Current, DOMAIN node, next_timestamp) /\ FrameOK(Top, node)
  BY <1>1, TopFacts
<1>3. PICK splits \in BOOLEAN : Finish(Current, splits) /\ (splits => Top.pc = "loop")
  BY <1>1
<1>4. splits => ~IsLeaf(Current)
  BY <1>2, <1>3 DEF FrameOK, Current
<1> QED BY <1>1, <1>2, <1>3, <1>4, WholeFinish

\* Back from a child: it is freed, or its size is read.
LEMMA WholeReturned ==
  ASSUME RInv, stack # << >>, Top.fn = "flush", Top.pc \in {"direct", "batch"},
         NEW n, n.pivots = Current.pivots, ChildReturned(n, Top.pivot)
  PROVE  Whole(cache', DOMAIN node')
<1> DEFINE child  == n.pivots[Top.pivot]
           ids    == DOMAIN node
           pinned == PinnedBy(stack)
<1>1. IInv /\ Whole(cache, ids) /\ pinned \in SUBSET ids
  BY WholeInv
<1>2. child \in ids
  <2>1. FrameOK(Top, node) /\ NodeOK(Current, DOMAIN node, next_timestamp)
    BY <1>1, TopFacts
  <2>2. Top.pivot \in DOMAIN Current.pivots
    BY <2>1 DEF FrameOK, Current
  <2> QED BY <2>1, <2>2 DEF NodeOK
<1>3. CASE returned # EmptyMap
  <2>1. cache' = Cache!Free(cache, child) /\ DOMAIN node' = ids \ {child}
    BY <1>3 DEF ChildReturned
  <2> HIDE DEF child, ids
  <2> QED BY <1>1, <1>2, <2>1, WholeFree
<1>4. CASE returned = EmptyMap
  <2>1. cache' = Cache!Touch(cache, child, pinned) /\ DOMAIN node' = ids
    BY <1>4 DEF ChildReturned
  <2> HIDE DEF child, ids, pinned
  <2> QED BY <1>1, <1>2, <2>1, WholeTouch
<1> QED BY <1>3, <1>4

LEMMA ReturnedWhole ==
  ASSUME RInv, DirectReturned \/ BatchReturned
  PROVE  Whole(cache', DOMAIN node')
<1>1. stack # << >> /\ Top.fn = "flush" /\ Top.pc \in {"direct", "batch"} /\ IInv
  BY WholeInv DEF DirectReturned, BatchReturned, Running
<1>2. NodeOK(Current, DOMAIN node, next_timestamp)
  BY <1>1, TopFacts
<1> DEFINE es    == Current.elements \ Batch(Current, Top.pivot)
           erase == [Current EXCEPT !.elements = es]
<1>3. erase.pivots = Current.pivots
  <2>1. Current = [pivots |-> Current.pivots, elements |-> Current.elements,
                   epsilon |-> Current.epsilon, node_level |-> Current.node_level,
                   ready_for_adoption |-> Current.ready_for_adoption]
    BY <1>2 DEF NodeOK
  <2> HIDE DEF es
  <2> QED BY <2>1
<1>4. ChildReturned(Current, Top.pivot) \/ ChildReturned(erase, Top.pivot)
  BY DEF DirectReturned, BatchReturned
<1> HIDE DEF erase
<1> QED BY <1>1, <1>3, <1>4, WholeReturned

\* A new root is there before the old one goes.
LEMMA UpsertReturnWhole ==
  ASSUME RInv, Roomy, UpsertReturn
  PROVE  Whole(cache', DOMAIN node')
<1> DEFINE ids   == DOMAIN node
           all   == ids \union {next_id}
           eps   == node[root].epsilon
           read  == Cache!Touch(cache, root, {})
           grown == Cache!Allocate(read, next_id, Constructed(eps), {})
           freed == Cache!Free(grown, root)
<1>1. Whole(cache, ids) /\ root \in ids /\ next_id \in Nat /\ ids \subseteq 1 .. next_id - 1
  BY WholeInv
<1>2. CASE returned = EmptyMap
  BY <1>1, <1>2 DEF UpsertReturn
<1>3. CASE returned # EmptyMap
  <2>1. cache' = Cache!Touch(freed, next_id, {}) /\ DOMAIN node' = (ids \ {root}) \union {next_id}
    BY <1>3 DEF UpsertReturn
  <2>2. next_id \notin ids /\ CacheSize < Word /\ Cardinality(ids) < CacheSize
    BY <1>1 DEF Roomy
  <2>3. (ids \ {root}) \union {next_id} = all \ {root} /\ next_id \in all \ {root}
    BY <1>1, <2>2
  <2>4. {} \in SUBSET ids /\ root \in all
    BY <1>1
  <2> HIDE DEF ids, eps
  <2>5. Whole(read, ids)
    BY <1>1, <2>4, WholeTouch
  <2> HIDE DEF read
  <2>6. Whole(grown, all)
    BY <2>2, <2>4, <2>5, WholeAllocate
  <2> HIDE DEF grown, all
  <2>7. Whole(freed, all \ {root})
    BY <2>4, <2>6, WholeFree
  <2> HIDE DEF freed
  <2>8. {} \in SUBSET (all \ {root})
    OBVIOUS
  <2>9. Whole(Cache!Touch(freed, next_id, {}), all \ {root})
    BY <2>3, <2>7, <2>8, WholeTouch
  <2> QED BY <2>1, <2>3, <2>9
<1> QED BY <1>2, <1>3

LEMMA WholeKeeps == RInv /\ Roomy /\ Roomy' /\ [Next]_vars => RInv'
<1> SUFFICES ASSUME RInv, Roomy, Roomy', [Next]_vars PROVE RInv'
  OBVIOUS
<1>1. OInv'
  BY OrderKeeps DEF RInv
<1>2. SUFFICES Whole(cache', DOMAIN node')
  BY <1>1 DEF RInv
<1>3. IInv /\ Whole(cache, DOMAIN node)
  BY WholeInv
<1>4. CASE \E k \in Keys : Query(k) \/ \E op \in Ops : Upsert(op, k)
  <2>1. node' = node /\ \E fn, arg : Call(<< >>, fn, root, arg)
    BY <1>4 DEF Query, Upsert
  <2> QED BY <2>1, WholeFirst
<1>5. CASE FlushDirect
  <2> DEFINE n  == Rekeyed(Current, Top.arg)
             p  == GetPivot(n, Min({m.key : m \in Top.arg}))
             pc == "direct"
             c  == n.pivots[p]
  <2>1. /\ stack # << >> /\ node' = [node EXCEPT ![Top.id] = n]
        /\ Call(At(pc, p), Top.fn, c, Top.arg)
    BY <1>5 DEF FlushDirect, Running
  <2> HIDE DEF n, p, pc, c
  <2>2. DOMAIN node' = DOMAIN node
    BY <2>1
  <2> QED BY <1>1, <2>1, <2>2, WholeDown
<1>6. CASE FlushBatch
  <2> DEFINE p  == Largest(Current)
             pc == "batch"
             c  == Current.pivots[p]
             arg == Batch(Current, p)
  <2>1. stack # << >> /\ node' = node /\ Call(At(pc, p), Top.fn, c, arg)
    BY <1>6 DEF FlushBatch, Running
  <2> HIDE DEF p, pc, c, arg
  <2> QED BY <1>1, <2>1, WholeDown
<1>7. CASE QueryDown
  <2> DEFINE c  == Current.pivots[GetPivot(Current, Top.arg)]
             pc == "below"
             p  == 0
  <2>1. stack # << >> /\ node' = node /\ Call(At(pc, p), Top.fn, c, Top.arg)
    BY <1>7 DEF QueryDown, Running
  <2> HIDE DEF p, pc, c
  <2> QED BY <1>1, <2>1, WholeDown
<1>8. CASE FlushLeaf
  BY <1>8, FlushLeafWhole
<1>9. CASE FlushDone \/ DirectDone
  BY <1>9, FlushDoneWhole
<1>10. CASE DirectReturned \/ BatchReturned
  BY <1>10, ReturnedWhole
<1>11. CASE UpsertReturn
  BY <1>11, UpsertReturnWhole
<1>12. CASE FlushBuffer
  <2>1. DOMAIN node' = DOMAIN node /\ cache' = cache
    BY <1>12 DEF FlushBuffer
  <2> QED BY <1>3, <2>1
<1>13. CASE QueryFound
  <2>1. node' = node /\ (cache' = cache \/ cache' = Cache!Evict(cache, PinnedBy(Front(stack))))
    BY <1>13 DEF QueryFound, QueryReturn, Return
  <2> QED BY <1>3, <2>1, WholeEvict
<1>14. CASE UNCHANGED vars
  BY <1>3, <1>14 DEF vars
<1> QED
  BY <1>4, <1>5, <1>6, <1>7, <1>8, <1>9, <1>10, <1>11, <1>12, <1>13, <1>14 DEF Next, Step

\* The first leaf is in memory.
LEMMA WholeInit == Init /\ Roomy => RInv
<1> SUFFICES ASSUME Init, Roomy PROVE RInv
  OBVIOUS
<1> DEFINE empty == Cache!Empty
           none  == {}
           one   == 1
<1>1. OInv
  BY InitOrder
<1>2. /\ DOMAIN node = none \union {one}
      /\ cache = Cache!Allocate(empty, one, Constructed(StartingEpsilon), none)
  BY DEF Init
<1>3. DOMAIN empty.lru = none /\ empty.dirty = none /\ empty.count = 0
      /\ DOMAIN empty.members = none
  BY DEF Cache!Empty
<1>4. Cache!Resident(empty) = none
  BY <1>3 DEF Cache!Resident
<1>5. IsFiniteSet(none) /\ Cardinality(none) = 0
  BY FS_EmptySet
<1>6. CacheOK(empty, none)
  <2>1. empty.lru \in [none -> Nat]
    BY DEF Cache!Empty
  <2>2. 0 \in 0 .. Word - 1
    BY CacheAssumption
  <2> HIDE DEF empty
  <2> QED BY <1>3, <1>4, <1>5, <2>1, <2>2 DEF CacheOK
<1>7. Whole(empty, none)
  <2> HIDE DEF empty
  <2> QED BY <1>3, <1>4, <1>5, <1>6, CacheAssumption DEF Whole
<1>8. Cardinality(none) < CacheSize /\ CacheSize < Word
  <2>1. Cardinality(DOMAIN node) \in Nat
    <3> HIDE DEF none, one
    <3>1. IsFiniteSet(DOMAIN node)
      BY <1>2, <1>5, FS_AddElement
    <3> QED BY <3>1, FS_CardinalityType
  <2> QED BY <1>5, <2>1, CacheAssumption DEF Roomy
<1>9. one \notin none /\ none \in SUBSET none
  OBVIOUS
<1> HIDE DEF empty, none, one
<1>10. Whole(cache, DOMAIN node)
  BY <1>2, <1>7, <1>8, <1>9, WholeAllocate
<1> QED BY <1>1, <1>10 DEF RInv

\* A cache that is larger than the tree, by one node that a split or a new root needs
\* for a moment, never evicts: the object counter is exact as long as nothing is
\* freed that was evicted before.
THEOREM RoomForAll == Spec /\ []Roomy => []AllInMemory
<1>1. RInv => AllInMemory
  BY WholeInv DEF AllInMemory
<1> QED BY <1>1, WholeInit, WholeKeeps, PTL DEF Spec

\* With such a cache the tree is the dictionary, whatever is upserted and asked: the
\* wrong answers of stale messages need a tree that outgrows its cache.
THEOREM RoomyIsMap == Spec /\ []Roomy => MapSpec
BY RoomForAll, InMemoryIsMap, PTL
=============================================================================
