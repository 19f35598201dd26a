----------------------------- MODULE BetreeOrder -----------------------------
(***************************************************************************)
(* The tree stays a search tree with one owner for each node, whatever     *)
(* upserts and queries it gets and in whatever order messages overtake each*)
(* other.                                                                  *)
(*                                                                         *)
(* A pivot bounds what is below it from both sides.  From below the bound  *)
(* is direct: a pivot is not above the pivots or elements of its child.    *)
(* From above it is the next pivot of any node on the way, so each node has*)
(* a limit that all keys in its subtree keep, as the witness of the        *)
(* invariant; a call raises the limit of a child to what it sends there.   *)
(***************************************************************************)
EXTENDS BetreeShape

-----------------------------------------------------------------------------
(* The invariant. *)

\* Each node but the root is held by a pivot or by the map just returned.
OwnedOK(nodes, top, parts) ==
    \A id \in DOMAIN nodes :
        \/ id = top
        \/ \E a \in DOMAIN nodes : \E p \in DOMAIN nodes[a].pivots : nodes[a].pivots[p] = id
        \/ \E q \in DOMAIN parts : parts[q] = id

AboveOK(nodes) ==
    \A id \in DOMAIN nodes : \A p \in DOMAIN nodes[id].pivots :
        \A k \in Settled(nodes[nodes[id].pivots[p]]) : p <= k

LimitsOK(r, nodes) ==
    /\ r \in [DOMAIN nodes -> Int]
    /\ \A id \in DOMAIN nodes :
          /\ \A k \in KeysOf(nodes[id]) : k <= r[id]
          /\ \A p \in DOMAIN nodes[id].pivots :
                /\ r[nodes[id].pivots[p]] <= r[id]
                /\ \A q \in NextPivots(nodes[id], p) : r[nodes[id].pivots[p]] < q

\* The parts of a node lie side by side, where the node was.
PartsOK(r, nodes, parts, emptied) ==
    /\ \A a \in DOMAIN parts :
          /\ a <= r[parts[a]] /\ \A k \in Settled(nodes[parts[a]]) : a <= k
          /\ \A b \in DOMAIN parts : a < b => r[parts[a]] < b
          /\ \A e \in emptied : r[parts[a]] <= r[e]
    /\ \A e \in emptied : IsLeaf(nodes[e])

\* What is sent to a node lies between the pivot it is sent along and its limit.
ArgsOK(r, st) ==
    \A i \in 1 .. Len(st) : st[i].fn = "flush" =>
        \A m \in st[i].arg : m.key <= r[st[i].id] /\ (i > 1 => st[i - 1].pivot <= m.key)

\* The keys of the parts are not below the pivot that they replace.
ReturnOK(st, parts) ==
    parts # EmptyMap /\ st # << >> => \A a \in DOMAIN parts : st[Len(st)].pivot <= a

OInv ==
    /\ IInv
    /\ OwnedOK(node, root, returned) /\ AboveOK(node) /\ ReturnOK(stack, returned)
    /\ \E r : /\ LimitsOK(r, node) /\ ArgsOK(r, stack)
              /\ PartsOK(r, node, returned, Emptied(stack, node, root, returned))

-----------------------------------------------------------------------------
(* Lemmas about numbers and keys. *)

\* Division keeps the order ...
LEMMA DivMonotone ==
  ASSUME NEW d \in Nat \ {0}, NEW a \in Nat, NEW b \in Nat, a <= b
  PROVE  a \div d <= b \div d
<1>1. /\ a \div d \in Nat /\ b \div d \in Nat
  OBVIOUS
<1>2. d * (a \div d) <= a /\ b < d * (b \div d) + d
  OBVIOUS
<1>3. ASSUME NEW x \in Nat, NEW y \in Nat, d * x <= a, b < d * y + d PROVE x <= y
  <2> SUFFICES ASSUME x >= y + 1 PROVE FALSE
    OBVIOUS
  <2>1. d * x >= d * (y + 1)
    OBVIOUS
  <2>2. d * (y + 1) = d * y + d
    OBVIOUS
  <2> QED BY <1>3, <2>1, <2>2
<1> QED BY <1>1, <1>2, <1>3

\* ... and shares that are rounded up leave nothing over.
LEMMA DivShares ==
  ASSUME NEW t \in Nat \ {0}, NEW k \in Nat \ {0}, NEW x \in Nat, x < t
  PROVE  x \div ((t + k - 1) \div k) <= k - 1
<1> DEFINE per == (t + k - 1) \div k
<1>1. per \in Nat \ {0}
  OBVIOUS
<1>2. t <= k * per
  OBVIOUS
<1>3. ASSUME NEW p \in Nat \ {0}, t <= k * p PROVE x \div p <= k - 1
  <2>1. x \div p \in Nat /\ p * (x \div p) <= x
    OBVIOUS
  <2>2. ASSUME NEW y \in Nat, p * y <= x, y >= k PROVE FALSE
    <3>1. p * y >= p * k
      BY <2>2
    <3>2. p * k = k * p
      OBVIOUS
    <3> QED BY <1>3, <2>2, <3>1, <3>2
  <2> QED BY <2>1, <2>2
<1> QED BY <1>1, <1>2, <1>3

\* The keys of a node are finitely many numbers.
LEMMA KeysIn ==
  ASSUME NEW n, NEW ids, NEW now, NodeOK(n, ids, now)
  PROVE  /\ KeysOf(n) \subseteq Keys /\ KeysOf(n) \subseteq Int /\ IsFiniteSet(KeysOf(n))
         /\ Settled(n) \subseteq KeysOf(n)
<1>1. KeysOf(n) \subseteq Keys
  BY DEF NodeOK, Buffer, Message, KeysOf
<1>2. Settled(n) \subseteq KeysOf(n)
  BY DEF Settled, KeysOf
<1> QED BY <1>1, <1>2, KeysAssumption, FS_Subset

-----------------------------------------------------------------------------
(* Splitting a node. *)

\* A part holds some of the keys, and is filed under its least one.
LEMMA PartKeys ==
  ASSUME NEW n, NEW ids, NEW now, NodeOK(n, ids, now), n.elements # {} \/ ~IsLeaf(n),
         NEW i \in Parts(n)
  PROVE  LET part == Part(n, i)
         IN  /\ KeysOf(part) \subseteq KeysOf(n) /\ Settled(part) \subseteq Settled(n)
             /\ PartKey(part) \in Settled(part)
             /\ \A k \in Settled(part) : PartKey(part) <= k
<1> DEFINE part == Part(n, i)
<1>1. /\ NodeOK(part, ids, now) /\ (IsLeaf(part) <=> IsLeaf(n))
      /\ DOMAIN part.pivots \subseteq DOMAIN n.pivots
      /\ Things(part) > 0
  BY PartOK DEF Parts
<1>2. part.elements \subseteq n.elements
  <2> DEFINE mine == {p \in DOMAIN n.pivots : PivotPart(n, p) = i}
  <2>1. CASE IsLeaf(n)
    <3>1. part.elements = {m \in n.elements : LeafPart(n, m) = i}
      BY <2>1, PartOfLeaf
    <3> HIDE DEF part
    <3> QED BY <3>1
  <2>2. CASE ~IsLeaf(n)
    <3>1. /\ part.pivots = [p \in mine |-> n.pivots[p]]
          /\ part.elements = {m \in n.elements : Owner(n, m) \in mine}
      BY <2>2, PartOfInner
    <3> HIDE DEF part, mine
    <3> QED BY <3>1
  <2> QED BY <2>1, <2>2
<1> HIDE DEF part
<1>3. KeysOf(part) \subseteq KeysOf(n) /\ Settled(part) \subseteq Settled(n)
  BY <1>1, <1>2 DEF KeysOf, Settled
<1>4. Settled(part) # {}
  <2>1. CASE IsLeaf(part)
    <3>1. part.elements # {}
      <4>1. SUFFICES ASSUME part.elements = {} PROVE Things(part) = 0
        BY <1>1
      <4>2. DOMAIN part.pivots = {}
        BY <2>1 DEF IsLeaf
      <4> QED BY <4>1, <4>2, FS_EmptySet DEF Things
    <3> QED BY <2>1, <3>1 DEF Settled
  <2>2. CASE ~IsLeaf(part)
    BY <2>2 DEF Settled, IsLeaf
  <2> QED BY <2>1, <2>2
<1>5. PartKey(part) = Min(Settled(part))
  BY DEF PartKey, Settled, FirstPivot
<1>6. Settled(part) \in SUBSET Int /\ IsFiniteSet(Settled(part))
  BY <1>1, KeysIn, FS_Subset
<1>7. Min(Settled(part)) \in Settled(part) /\ \A k \in Settled(part) : Min(Settled(part)) <= k
  <2> DEFINE S == Settled(part)
  <2> HIDE DEF S
  <2>1. S \in SUBSET Int /\ IsFiniteSet(S) /\ S # {} => Min(S) \in S /\ \A k \in S : Min(S) <= k
    BY FiniteMaxMin
  <2> QED BY <1>4, <1>6, <2>1 DEF S
<1> QED BY <1>3, <1>5, <1>7 DEF part

\* All keys of a part are below those that a later part is reached by.
LEMMA PartsOrdered ==
  ASSUME NEW n, NEW ids, NEW now, NodeOK(n, ids, now), n.elements # {} \/ ~IsLeaf(n),
         NEW i \in Parts(n), NEW j \in Parts(n), i < j
  PROVE  \A k \in KeysOf(Part(n, i)) : \A l \in Settled(Part(n, j)) : k < l
<1> DEFINE here  == Part(n, i)
           there == Part(n, j)
           mine(x) == {p \in DOMAIN n.pivots : PivotPart(n, p) = x}
<1>1. /\ PerNew(n) \in Nat \ {0} /\ i \in Int /\ j \in Int
      /\ IsFiniteSet(n.elements) /\ IsFiniteSet(DOMAIN n.pivots)
      /\ \A m \in n.elements : m.key \in Int /\ m.ts \in Int
  <2>1. PerNew(n) \in Nat \ {0} /\ NumNew(n) \in Nat
    BY SplitSizes
  <2>2. IsFiniteSet(n.elements) /\ IsFiniteSet(DOMAIN n.pivots)
    BY KeysAssumption, FS_Subset DEF NodeOK, Buffer
  <2>3. \A m \in n.elements : m.key \in Int /\ m.ts \in Int
    BY KeysAssumption DEF NodeOK, Buffer, Message
  <2> QED BY <2>1, <2>2, <2>3 DEF Parts
<1>2. CASE IsLeaf(n)
  <2>1. /\ KeysOf(here) = {m.key : m \in {e \in n.elements : LeafPart(n, e) = i}}
        /\ Settled(there) = {m.key : m \in {e \in n.elements : LeafPart(n, e) = j}}
    <3>1. ASSUME NEW x
          PROVE  /\ Part(n, x).pivots = EmptyMap
                 /\ Part(n, x).elements = {m \in n.elements : LeafPart(n, m) = x}
      BY <1>2, PartOfLeaf
    <3> QED BY <3>1, EmptyMapFacts DEF KeysOf, Settled, IsLeaf
  <2>2. ASSUME NEW e \in n.elements, NEW f \in n.elements, LeafPart(n, e) = i,
               LeafPart(n, f) = j, f.key <= e.key
        PROVE  FALSE
    <3>1. f.key < e.key
      <4>1. e # f
        BY <1>1, <2>2
      <4>2. e.key # f.key
        BY <1>2, <2>2, <4>1 DEF NodeOK, Inserts, For
      <4> QED BY <1>1, <2>2, <4>2
    <3> DEFINE A == {x \in n.elements : MsgLess(x, f)}
               B == {x \in n.elements : MsgLess(x, e)}
    <3>2. A \subseteq B
      BY <1>1, <3>1 DEF MsgLess
    <3>3. IsFiniteSet(A) /\ IsFiniteSet(B)
      BY <1>1, FS_Subset
    <3>4. LeafPart(n, e) = Cardinality(B) \div PerNew(n)
          /\ LeafPart(n, f) = Cardinality(A) \div PerNew(n)
      BY DEF LeafPart
    <3> HIDE DEF A, B
    <3>5. Cardinality(A) \in Nat /\ Cardinality(B) \in Nat /\ Cardinality(A) <= Cardinality(B)
      BY <3>2, <3>3, FS_CardinalityType, FS_Subset
    <3>6. Cardinality(A) \div PerNew(n) <= Cardinality(B) \div PerNew(n)
      BY <1>1, <3>5, DivMonotone
    <3> QED BY <1>1, <2>2, <3>4, <3>6
  <2>3. \A e, f \in n.elements : LeafPart(n, e) = i /\ LeafPart(n, f) = j => e.key < f.key
    BY <1>1, <2>2
  <2> HIDE DEF here, there
  <2>4. \A k \in KeysOf(here) : \A l \in Settled(there) : k < l
    BY <2>1, <2>3
  <2> QED BY <2>4 DEF here, there
<1>3. CASE ~IsLeaf(n)
  <2>1. /\ DOMAIN here.pivots = mine(i) /\ DOMAIN there.pivots = mine(j)
        /\ here.elements = {m \in n.elements : Owner(n, m) \in mine(i)}
    <3>1. here.pivots = [p \in mine(i) |-> n.pivots[p]]
          /\ here.elements = {m \in n.elements : Owner(n, m) \in mine(i)}
      BY <1>3, PartOfInner
    <3>2. there.pivots = [p \in mine(j) |-> n.pivots[p]]
      BY <1>3, PartOfInner
    <3> HIDE DEF here, there, mine
    <3> QED BY <3>1, <3>2
  <2>2. ~IsLeaf(there)
    BY <1>3, PartOK
  <2>3. /\ FirstPivot(n) \in DOMAIN n.pivots
        /\ \A p \in DOMAIN n.pivots : p \in Int /\ FirstPivot(n) <= p
    BY <1>3, PivotFacts
  <2>4. \A m \in n.elements : Owner(n, m) \in DOMAIN n.pivots
    BY <1>3, OwnerIn
  <2>5. ASSUME NEW p \in mine(i), NEW q \in mine(j), q <= p PROVE FALSE
    <3> DEFINE A == {x \in DOMAIN n.pivots : x < q}
               B == {x \in DOMAIN n.pivots : x < p}
               C == {m \in n.elements : Owner(n, m) < q}
               D == {m \in n.elements : Owner(n, m) < p}
    <3>1. p \in Int /\ q \in Int
      BY <2>3
    <3>2. A \subseteq B
      BY <2>3, <2>5, <3>1
    <3>3. C \subseteq D
      BY <2>3, <2>4, <2>5, <3>1
    <3>4. IsFiniteSet(A) /\ IsFiniteSet(B) /\ IsFiniteSet(C) /\ IsFiniteSet(D)
      BY <1>1, FS_Subset
    <3>5. PivotPart(n, p) = (Cardinality(B) + Cardinality(D)) \div PerNew(n)
          /\ PivotPart(n, q) = (Cardinality(A) + Cardinality(C)) \div PerNew(n)
      BY DEF PivotPart
    <3> HIDE DEF A, B, C, D
    <3>6. /\ Cardinality(A) \in Nat /\ Cardinality(B) \in Nat /\ Cardinality(A) <= Cardinality(B)
          /\ Cardinality(C) \in Nat /\ Cardinality(D) \in Nat /\ Cardinality(C) <= Cardinality(D)
      BY <3>2, <3>3, <3>4, FS_CardinalityType, FS_Subset
    <3>7. (Cardinality(A) + Cardinality(C)) \div PerNew(n)
             <= (Cardinality(B) + Cardinality(D)) \div PerNew(n)
      BY <1>1, <3>6, DivMonotone
    <3> QED BY <1>1, <2>5, <3>5, <3>7
  <2>6. \A p \in mine(i) : \A q \in mine(j) : p < q
    BY <2>3, <2>5
  <2>7. ASSUME NEW m \in here.elements, NEW q \in mine(j) PROVE m.key < q
    <3>1. m \in n.elements /\ Owner(n, m) < q /\ m.key \in Int
      BY <1>1, <2>1, <2>6, <2>7
    <3>2. q \in DOMAIN n.pivots
      OBVIOUS
    <3>3. CASE m.key < FirstPivot(n)
      BY <2>3, <3>1, <3>2, <3>3
    <3>4. CASE FirstPivot(n) <= m.key
      <4> DEFINE below == {p \in DOMAIN n.pivots : p <= m.key}
      <4>1. Owner(n, m) = Max(below)
        BY <2>3, <3>1, <3>4 DEF Owner, GetPivot
      <4>2. below \in SUBSET Int /\ IsFiniteSet(below)
        BY <1>1, <2>3, FS_Subset
      <4>3. q <= m.key => q \in below
        BY <3>2
      <4> HIDE DEF below
      <4>4. q \in below => q <= Max(below) /\ Max(below) \in Int
        BY <4>2, FiniteMaxMin
      <4> QED BY <2>3, <3>1, <3>2, <4>1, <4>3, <4>4
    <3> QED BY <2>3, <3>1, <3>3, <3>4
  <2> HIDE DEF here, there, mine
  <2>8. KeysOf(here) = mine(i) \union {m.key : m \in here.elements} /\ Settled(there) = mine(j)
    BY <2>1, <2>2 DEF KeysOf, Settled
  <2>9. \A k \in KeysOf(here) : \A l \in Settled(there) : k < l
    BY <2>6, <2>7, <2>8
  <2> QED BY <2>9 DEF here, there
<1> QED BY <1>2, <1>3

-----------------------------------------------------------------------------
(* Changes of the tree. *)

Ordered(r, nodes, top) ==
    OwnedOK(nodes, top, EmptyMap) /\ AboveOK(nodes) /\ LimitsOK(r, nodes)

\* m has the children of n, none behind a higher pivot or before a lower one.
Moves(m, n) ==
    \E o \in [DOMAIN m.pivots -> DOMAIN n.pivots] :
        /\ \A p \in DOMAIN m.pivots : /\ p <= o[p] /\ m.pivots[p] = n.pivots[o[p]]
                                      /\ \A q \in NextPivots(m, p) : q \in NextPivots(n, o[p])
        /\ \A q \in DOMAIN n.pivots : \E p \in DOMAIN m.pivots : o[p] = q

\* A node with the same pivots is a case of it.
LEMMA MovesNothing ==
  ASSUME NEW n, NEW m, m.pivots = n.pivots, DOMAIN n.pivots \subseteq Int
  PROVE  Moves(m, n)
<1> DEFINE o == [p \in DOMAIN n.pivots |-> p]
<1>1. /\ o \in [DOMAIN m.pivots -> DOMAIN n.pivots]
      /\ \A p \in DOMAIN m.pivots : /\ p <= o[p] /\ m.pivots[p] = n.pivots[o[p]]
                                    /\ \A q \in NextPivots(m, p) : q \in NextPivots(n, o[p])
      /\ \A q \in DOMAIN n.pivots : o[q] = q
  BY DEF NextPivots
<1> HIDE DEF o
<1> QED BY <1>1 DEF Moves

\* A node takes in keys that were sent to it.
LEMMA OrderStep ==
  ASSUME NEW nodes, NEW top, NEW next, NEW now, NEW r,
         NodesOK(nodes, top, EmptyMap, next, now), Ordered(r, nodes, top),
         NEW id \in DOMAIN nodes, NEW m, NodeOK(m, DOMAIN nodes, now), Moves(m, nodes[id]),
         NEW keys \in SUBSET Int, \A k \in keys : k <= r[id],
         KeysOf(m) \subseteq KeysOf(nodes[id]) \union keys,
         Settled(m) \subseteq Settled(nodes[id]) \union keys,
         \A a \in DOMAIN nodes : \A p \in DOMAIN nodes[a].pivots :
            nodes[a].pivots[p] = id => \A k \in keys : p <= k,
         NEW more, DOMAIN more = DOMAIN nodes, more[id] = m,
         \A i \in DOMAIN nodes : i # id => more[i] = nodes[i]
  PROVE  Ordered(r, more, top)
<1>1. PICK o \in [DOMAIN m.pivots -> DOMAIN nodes[id].pivots] :
        /\ \A p \in DOMAIN m.pivots :
              /\ p <= o[p] /\ m.pivots[p] = nodes[id].pivots[o[p]]
              /\ \A q \in NextPivots(m, p) : q \in NextPivots(nodes[id], o[p])
        /\ \A q \in DOMAIN nodes[id].pivots : \E p \in DOMAIN m.pivots : o[p] = q
  BY DEF Moves
<1>2. /\ \A i \in DOMAIN nodes : /\ KeysOf(nodes[i]) \subseteq Int
                                 /\ Settled(nodes[i]) \subseteq KeysOf(nodes[i])
                                 /\ DOMAIN nodes[i].pivots \subseteq Int
                                 /\ \A p \in DOMAIN nodes[i].pivots :
                                       nodes[i].pivots[p] \in DOMAIN nodes
      /\ KeysOf(m) \subseteq Int /\ Settled(m) \subseteq KeysOf(m) /\ DOMAIN m.pivots \subseteq Int
  <2>1. \A i \in DOMAIN nodes : NodeOK(nodes[i], DOMAIN nodes, now)
    BY DEF NodesOK
  <2>2. \A n : NodeOK(n, DOMAIN nodes, now) =>
           /\ KeysOf(n) \subseteq Int /\ Settled(n) \subseteq KeysOf(n)
           /\ DOMAIN n.pivots \subseteq Int
           /\ \A p \in DOMAIN n.pivots : n.pivots[p] \in DOMAIN nodes
    BY KeysIn DEF KeysOf, NodeOK
  <2> QED BY <2>1, <2>2
\* The pivot that a child had before.
<1>3. ASSUME NEW a \in DOMAIN more, NEW p \in DOMAIN more[a].pivots
      PROVE  \E q \in DOMAIN nodes[a].pivots :
                /\ p <= q /\ more[a].pivots[p] = nodes[a].pivots[q]
                /\ \A x \in NextPivots(more[a], p) : x \in NextPivots(nodes[a], q)
  <2>1. CASE a = id
    BY <1>1, <2>1
  <2>2. CASE a # id
    <3>1. more[a] = nodes[a] /\ p \in Int
      BY <1>2, <2>2
    <3> QED BY <3>1
  <2> QED BY <2>1, <2>2
<1>4. OwnedOK(more, top, EmptyMap)
  <2> SUFFICES ASSUME NEW i \in DOMAIN more, i # top
               PROVE  \E a \in DOMAIN more : \E p \in DOMAIN more[a].pivots : more[a].pivots[p] = i
    BY DEF OwnedOK
  <2>1. PICK a \in DOMAIN nodes : \E p \in DOMAIN nodes[a].pivots : nodes[a].pivots[p] = i
    BY EmptyMapFacts DEF Ordered, OwnedOK
  <2>2. PICK p \in DOMAIN nodes[a].pivots : nodes[a].pivots[p] = i
    BY <2>1
  <2>3. CASE a = id
    BY <1>1, <2>2, <2>3
  <2>4. CASE a # id
    BY <2>2, <2>4
  <2> QED BY <2>3, <2>4
<1>5. AboveOK(more)
  <2> SUFFICES ASSUME NEW a \in DOMAIN more, NEW p \in DOMAIN more[a].pivots,
                      NEW k \in Settled(more[more[a].pivots[p]])
               PROVE  p <= k
    BY DEF AboveOK
  <2>1. PICK q \in DOMAIN nodes[a].pivots : p <= q /\ more[a].pivots[p] = nodes[a].pivots[q]
    BY <1>3
  <2> DEFINE c == more[a].pivots[p]
  <2>2. c \in DOMAIN nodes /\ c = nodes[a].pivots[q] /\ q \in Int
    BY <1>2, <2>1
  <2>3. p \in Int
    BY <1>2
  <2> HIDE DEF c
  <2>4. k \in Settled(nodes[c]) \/ (c = id /\ k \in keys)
    BY <2>2 DEF c
  <2>5. k \in Settled(nodes[c]) => q <= k /\ k \in Int
    BY <1>2, <2>2 DEF Ordered, AboveOK
  <2>6. c = id /\ k \in keys => q <= k /\ k \in Int
    BY <2>2
  <2> QED BY <2>1, <2>2, <2>3, <2>4, <2>5, <2>6
<1>6. LimitsOK(r, more)
  <2>1. r \in [DOMAIN more -> Int]
    BY DEF Ordered, LimitsOK
  <2>2. ASSUME NEW i \in DOMAIN more, NEW k \in KeysOf(more[i]) PROVE k <= r[i]
    BY <2>2 DEF Ordered, LimitsOK
  <2>3. ASSUME NEW a \in DOMAIN more, NEW p \in DOMAIN more[a].pivots
        PROVE  /\ r[more[a].pivots[p]] <= r[a]
               /\ \A x \in NextPivots(more[a], p) : r[more[a].pivots[p]] < x
    BY <1>3, <2>3 DEF Ordered, LimitsOK
  <2> QED BY <2>1, <2>2, <2>3 DEF LimitsOK
<1> QED BY <1>4, <1>5, <1>6 DEF Ordered

\* Limits with room for keys up to hi in c.
Raised(r, nodes, top, c, hi) ==
    \E s : /\ Ordered(s, nodes, top) /\ hi <= s[c]
          /\ \A i \in DOMAIN nodes : r[i] <= s[i]

\* Room for keys up to hi in a node, where its place in the tree has it.
LEMMA OrderRaise ==
  ASSUME NEW nodes, NEW top, NEW r, Ordered(r, nodes, top), NEW c \in DOMAIN nodes, NEW hi \in Int,
         \A a \in DOMAIN nodes : /\ KeysOf(nodes[a]) \subseteq Int
                                 /\ \A p \in DOMAIN nodes[a].pivots :
                                       nodes[a].pivots[p] \in DOMAIN nodes,
         \A a \in DOMAIN nodes : \A p \in DOMAIN nodes[a].pivots :
            nodes[a].pivots[p] = c => hi <= r[a] /\ \A q \in NextPivots(nodes[a], p) : hi < q
  PROVE  Raised(r, nodes, top, c, hi)
<1> DEFINE s == [i \in DOMAIN nodes |-> IF i = c /\ r[c] < hi THEN hi ELSE r[i]]
<1>1. r \in [DOMAIN nodes -> Int]
  BY DEF Ordered, LimitsOK
<1>2. /\ s \in [DOMAIN nodes -> Int] /\ hi <= s[c]
      /\ \A i \in DOMAIN nodes : r[i] <= s[i] /\ (s[i] = r[i] \/ (i = c /\ s[i] = hi))
  BY <1>1
<1> HIDE DEF s
<1>3. ASSUME NEW i \in DOMAIN nodes, NEW k \in KeysOf(nodes[i]) PROVE k <= s[i]
  <2>1. k <= r[i] /\ k \in Int
    BY DEF Ordered, LimitsOK
  <2> QED BY <1>1, <1>2, <2>1
<1>4. ASSUME NEW a \in DOMAIN nodes, NEW p \in DOMAIN nodes[a].pivots
      PROVE  /\ s[nodes[a].pivots[p]] <= s[a]
             /\ \A q \in NextPivots(nodes[a], p) : s[nodes[a].pivots[p]] < q
  <2> DEFINE d == nodes[a].pivots[p]
  <2>1. d \in DOMAIN nodes /\ r[d] <= r[a] /\ \A q \in NextPivots(nodes[a], p) : r[d] < q
    BY DEF Ordered, LimitsOK
  <2>2. d = c => hi <= r[a] /\ \A q \in NextPivots(nodes[a], p) : hi < q
    OBVIOUS
  <2>3. \A q \in NextPivots(nodes[a], p) : q \in Int
    BY DEF NextPivots, KeysOf
  <2> HIDE DEF d
  <2>4. s[d] <= s[a] /\ \A q \in NextPivots(nodes[a], p) : s[d] < q
    BY <1>1, <1>2, <2>1, <2>2, <2>3
  <2> QED BY <2>4 DEF d
<1>5. LimitsOK(s, nodes)
  BY <1>2, <1>3, <1>4 DEF LimitsOK
<1> QED BY <1>2, <1>5 DEF Ordered, Raised

\* Room for keys in a child, from its pivot up to the next one.
LEMMA RoomBelow ==
  ASSUME NEW nodes, NEW top, NEW next, NEW now, NodesOK(nodes, top, EmptyMap, next, now),
         OwnersOK(nodes, top, EmptyMap), NEW r, Ordered(r, nodes, top),
         NEW id \in DOMAIN nodes, NEW p \in DOMAIN nodes[id].pivots,
         NEW hi \in Int, hi <= r[id], \A q \in NextPivots(nodes[id], p) : hi < q
  PROVE  Raised(r, nodes, top, nodes[id].pivots[p], hi)
<1> DEFINE c == nodes[id].pivots[p]
<1>1. \A a \in DOMAIN nodes : /\ KeysOf(nodes[a]) \subseteq Int
                              /\ \A q \in DOMAIN nodes[a].pivots :
                                    nodes[a].pivots[q] \in DOMAIN nodes
  <2>1. \A a \in DOMAIN nodes : NodeOK(nodes[a], DOMAIN nodes, now)
    BY DEF NodesOK
  <2> QED BY <2>1, KeysIn DEF NodeOK
<1>2. \A a \in DOMAIN nodes : \A q \in DOMAIN nodes[a].pivots :
         nodes[a].pivots[q] = c => hi <= r[a] /\ \A x \in NextPivots(nodes[a], q) : hi < x
  <2> SUFFICES ASSUME NEW a \in DOMAIN nodes, NEW q \in DOMAIN nodes[a].pivots,
                      nodes[a].pivots[q] = c
               PROVE  hi <= r[a] /\ \A x \in NextPivots(nodes[a], q) : hi < x
    OBVIOUS
  <2>1. a = id /\ q = p
    BY DEF OwnersOK
  <2> QED BY <2>1
<1>3. c \in DOMAIN nodes
  BY <1>1
<1> HIDE DEF c
<1>4. Raised(r, nodes, top, c, hi)
  BY <1>1, <1>2, <1>3, OrderRaise
<1> QED BY <1>4 DEF c

\* Each child of a node that is split goes to one of the parts.
LEMMA AllPlaced ==
  ASSUME NEW n, NEW ids, NEW now, NodeOK(n, ids, now), ~IsLeaf(n), NEW q \in DOMAIN n.pivots
  PROVE  \E i \in Parts(n) : q \in DOMAIN Part(n, i).pivots /\ Part(n, i).pivots[q] = n.pivots[q]
<1> DEFINE i == PivotPart(n, q)
           A == {x \in DOMAIN n.pivots : x < q}
           B == {m \in n.elements : Owner(n, m) < q}
<1>1. /\ Things(n) \in Nat \ {0} /\ NumNew(n) \in Nat \ {0} /\ PerNew(n) \in Nat \ {0}
      /\ IsFiniteSet(n.elements) /\ IsFiniteSet(DOMAIN n.pivots) /\ q \in Int
  <2>1. Things(n) \in Nat \ {0} /\ NumNew(n) \in Nat \ {0} /\ PerNew(n) \in Nat \ {0}
    BY SplitSizes
  <2>2. IsFiniteSet(n.elements) /\ IsFiniteSet(DOMAIN n.pivots) /\ q \in Int
    BY KeysAssumption, FS_Subset DEF NodeOK, Buffer
  <2> QED BY <2>1, <2>2
<1>2. A \subseteq DOMAIN n.pivots \ {q} /\ B \subseteq n.elements
  BY <1>1
<1>3. i = (Cardinality(A) + Cardinality(B)) \div PerNew(n)
  BY DEF PivotPart
<1> HIDE DEF i, A, B
<1>4. /\ Cardinality(A) \in Nat /\ Cardinality(B) \in Nat
      /\ Cardinality(A) + Cardinality(B) < Things(n)
  <2> DEFINE D == DOMAIN n.pivots
  <2>1. IsFiniteSet(D \ {q}) /\ Cardinality(D \ {q}) = Cardinality(D) - 1 /\ Cardinality(D) \in Nat
    BY <1>1, FS_RemoveElement, FS_CardinalityType
  <2>2. Cardinality(A) \in Nat /\ Cardinality(A) <= Cardinality(D \ {q})
    BY <1>2, <2>1, FS_Subset, FS_CardinalityType
  <2>3. Cardinality(B) \in Nat /\ Cardinality(B) <= Cardinality(n.elements)
        /\ Cardinality(n.elements) \in Nat
    BY <1>1, <1>2, FS_Subset, FS_CardinalityType
  <2> QED BY <2>1, <2>2, <2>3 DEF Things
<1>5. i \in 0 .. NumNew(n) - 1
  <2> DEFINE x == Cardinality(A) + Cardinality(B)
             t == Things(n)
             k == NumNew(n)
  <2>1. x \in Nat /\ x < t /\ t \in Nat \ {0} /\ k \in Nat \ {0} /\ PerNew(n) = (t + k - 1) \div k
        /\ i = x \div PerNew(n)
    BY <1>1, <1>3, <1>4 DEF PerNew
  <2> HIDE DEF x, t, k
  <2>2. x \div ((t + k - 1) \div k) <= k - 1
    BY <2>1, DivShares
  <2>3. i \in Nat
    BY <1>1, <2>1
  <2> QED BY <1>1, <2>1, <2>2, <2>3 DEF k
<1> DEFINE mine == {p \in DOMAIN n.pivots : PivotPart(n, p) = i}
           part == Part(n, i)
<1>6. part.pivots = [p \in mine |-> n.pivots[p]]
      /\ part.elements = {m \in n.elements : Owner(n, m) \in mine}
  BY PartOfInner
<1>7. q \in mine /\ mine \subseteq DOMAIN n.pivots
  BY DEF i
<1> HIDE DEF mine, part
<1>8. q \in DOMAIN part.pivots /\ part.pivots[q] = n.pivots[q]
      /\ DOMAIN part.pivots \subseteq DOMAIN n.pivots /\ part.elements \subseteq n.elements
  BY <1>6, <1>7
<1>9. Things(part) > 0
  <2>1. IsFiniteSet(part.elements) /\ IsFiniteSet(DOMAIN part.pivots)
    BY <1>1, <1>8, FS_Subset
  <2>2. Cardinality(part.elements) \in Nat /\ Cardinality(DOMAIN part.pivots) \in Nat \ {0}
    BY <1>8, <2>1, FS_CardinalityType, FS_EmptySet
  <2> QED BY <2>2 DEF Things
<1> QED BY <1>5, <1>8, <1>9 DEF Parts, part

\* The map that a split returns has each part under its own key.
LEMMA SplitKeys ==
  ASSUME NEW n, NEW ids, NEW now, NodeOK(n, ids, now), n.elements # {} \/ ~IsLeaf(n)
  PROVE  /\ \A a \in DOMAIN SplitResult(n) : \E i \in Parts(n) : a = PartKey(Part(n, i))
         /\ \A i \in Parts(n) : /\ PartKey(Part(n, i)) \in DOMAIN SplitResult(n)
                                 /\ SplitResult(n)[PartKey(Part(n, i))] = IdOf(i)
         /\ \A i, j \in Parts(n) : PartKey(Part(n, i)) < PartKey(Part(n, j)) => i < j
<1> DEFINE key(i) == PartKey(Part(n, i))
           keys   == {key(i) : i \in Parts(n)}
           at(k)  == CHOOSE i \in Parts(n) : key(i) = k
<1>1. ASSUME NEW i \in Parts(n), NEW j \in Parts(n), i < j PROVE key(i) < key(j)
  <2>1. key(i) \in KeysOf(Part(n, i)) /\ key(j) \in Settled(Part(n, j))
    BY PartKeys DEF KeysOf, Settled
  <2> QED BY <1>1, <2>1, PartsOrdered
<1>2. \A i \in Parts(n) : i \in Int /\ key(i) \in Int
  <2>1. \A i \in Parts(n) : key(i) \in Keys
    BY PartOK
  <2>2. \A i \in Parts(n) : i \in Int
    BY SplitSizes DEF Parts
  <2> QED BY <2>1, <2>2, KeysAssumption
<1>3. SplitResult(n) = [k \in keys |-> IdOf(at(k))]
  BY DEF SplitResult
<1> HIDE DEF key
<1>4. \A i, j \in Parts(n) : key(i) = key(j) => i = j
  BY <1>1, <1>2
<1>5. \A i \in Parts(n) : at(key(i)) = i
  BY <1>4
<1> HIDE DEF at
<1>6. \A i \in Parts(n) : SplitResult(n)[key(i)] = IdOf(i)
  BY <1>3, <1>5
<1>7. \A i, j \in Parts(n) : key(i) < key(j) => i < j
  BY <1>1, <1>2
<1>8. DOMAIN SplitResult(n) = keys
  BY <1>3
<1>9. /\ \A a \in DOMAIN SplitResult(n) : \E i \in Parts(n) : a = key(i)
      /\ \A i \in Parts(n) : key(i) \in DOMAIN SplitResult(n)
  BY <1>8
<1> QED BY <1>6, <1>7, <1>9 DEF key

\* The least limit for a node whose children have limits r.
Limit(m, r) == Max(KeysOf(m) \union {r[m.pivots[p]] : p \in DOMAIN m.pivots})

LEMMA LimitIs ==
  ASSUME NEW m, NEW ids, NEW now, NodeOK(m, ids, now), KeysOf(m) # {},
         NEW r, r \in [ids -> Int]
  PROVE  /\ Limit(m, r) \in Int
         /\ \A k \in KeysOf(m) : k <= Limit(m, r)
         /\ \A p \in DOMAIN m.pivots : r[m.pivots[p]] <= Limit(m, r)
         /\ \/ Limit(m, r) \in KeysOf(m)
            \/ \E p \in DOMAIN m.pivots : Limit(m, r) = r[m.pivots[p]]
<1> DEFINE f == [p \in DOMAIN m.pivots |-> r[m.pivots[p]]]
           D == DOMAIN m.pivots
           S == KeysOf(m) \union {f[p] : p \in D}
<1>1. IsFiniteSet(D) /\ \A p \in D : f[p] \in Int /\ f[p] = r[m.pivots[p]]
  BY KeysAssumption, FS_Subset DEF NodeOK
<1>2. KeysOf(m) \subseteq Int /\ IsFiniteSet(KeysOf(m))
  BY KeysIn
<1>3. S = KeysOf(m) \union {r[m.pivots[p]] : p \in DOMAIN m.pivots}
  BY <1>1
<1>4. Limit(m, r) = Max(S)
  BY <1>3 DEF Limit
<1> HIDE DEF f
<1>5. IsFiniteSet({f[p] : p \in D})
  <2>1. f \in Surjection(D, {f[p] : p \in D})
    BY DEF f, Surjection
  <2> HIDE DEF D
  <2> QED BY <1>1, <2>1, FS_Surjection
<1>6. S \in SUBSET Int /\ IsFiniteSet(S) /\ S # {}
  BY <1>1, <1>2, <1>5, FS_Union
<1>7. Max(S) \in S /\ \A y \in S : y <= Max(S)
  <2> HIDE DEF S
  <2> QED BY <1>6, FiniteMaxMin
<1> QED BY <1>1, <1>4, <1>6, <1>7

\* A node that is split is emptied into its parts.
Splits(nodes, id, n, more) ==
    /\ id \in DOMAIN nodes /\ n = nodes[id] /\ (n.elements # {} \/ ~IsLeaf(n))
    /\ DOMAIN more = DOMAIN nodes \union {IdOf(j) : j \in Parts(n)}
    /\ more[id] = [n EXCEPT !.pivots = EmptyMap, !.elements = {}]
    /\ \A i \in DOMAIN nodes : i # id => more[i] = nodes[i]
    /\ \A i \in DOMAIN more : i \notin DOMAIN nodes => more[i] = Part(n, i - next_id)

\* Limits for the parts, with those of the other nodes as they were.
SplitLimits(r, nodes, id, parts, more) ==
    \E s : /\ LimitsOK(s, more) /\ PartsOK(s, more, parts, {id})
          /\ \A i \in DOMAIN nodes : s[i] = r[i]

\* The parts are limited by what they hold.
LEMMA OrderSplit ==
  ASSUME NEW nodes, NEW top, NEW now, NEW r,
         NodesOK(nodes, top, EmptyMap, next_id, now), Ordered(r, nodes, top),
         NEW id, NEW n, NEW more, Splits(nodes, id, n, more)
  PROVE  /\ OwnedOK(more, top, SplitResult(n)) /\ AboveOK(more)
         /\ \A a \in DOMAIN SplitResult(n) : a \in Settled(n)
         /\ SplitLimits(r, nodes, id, SplitResult(n), more)
<1>0. /\ id \in DOMAIN nodes /\ n = nodes[id] /\ (n.elements # {} \/ ~IsLeaf(n))
      /\ DOMAIN more = DOMAIN nodes \union {IdOf(j) : j \in Parts(n)}
      /\ more[id] = [n EXCEPT !.pivots = EmptyMap, !.elements = {}]
      /\ \A i \in DOMAIN nodes : i # id => more[i] = nodes[i]
      /\ \A i \in DOMAIN more : i \notin DOMAIN nodes => more[i] = Part(n, i - next_id)
      /\ next_id \in Nat /\ DOMAIN nodes \subseteq 1 .. next_id - 1
      /\ \A i \in DOMAIN nodes : NodeOK(nodes[i], DOMAIN nodes, now)
  BY DEF Splits, NodesOK
<1> USE <1>0
<1> DEFINE old    == DOMAIN nodes
           parts  == SplitResult(n)
           key(j) == PartKey(Part(n, j))
           L(j)   == Limit(Part(n, j), r)
           s      == [i \in DOMAIN more |-> IF i \in old THEN r[i] ELSE L(i - next_id)]
<1>1. \A j \in Parts(n) : /\ IdOf(j) \in DOMAIN more /\ IdOf(j) \notin old
                          /\ IdOf(j) - next_id = j /\ more[IdOf(j)] = Part(n, j)
  <2>1. \A j \in Parts(n) : j \in Nat
    BY SplitSizes DEF Parts
  <2>2. \A j \in Parts(n) : IdOf(j) \in DOMAIN more /\ IdOf(j) \notin old /\ IdOf(j) - next_id = j
    BY <2>1 DEF IdOf
  <2> QED BY <2>2
<1>2. NodeOK(n, old, now) /\ r \in [old -> Int]
  BY DEF Ordered, LimitsOK
<1>3. \A j \in Parts(n) :
         /\ NodeOK(Part(n, j), old, now)
         /\ KeysOf(Part(n, j)) \subseteq KeysOf(n) /\ Settled(Part(n, j)) \subseteq Settled(n)
         /\ key(j) \in Settled(Part(n, j)) /\ \A k \in Settled(Part(n, j)) : key(j) <= k
         /\ \A p \in DOMAIN Part(n, j).pivots :
               p \in DOMAIN n.pivots /\ Part(n, j).pivots[p] = n.pivots[p]
  <2>1. ASSUME NEW j \in Parts(n)
        PROVE  /\ KeysOf(Part(n, j)) \subseteq KeysOf(n)
               /\ Settled(Part(n, j)) \subseteq Settled(n)
               /\ key(j) \in Settled(Part(n, j)) /\ \A k \in Settled(Part(n, j)) : key(j) <= k
    BY <1>2, PartKeys
  <2>2. ASSUME NEW j \in Parts(n)
        PROVE  /\ NodeOK(Part(n, j), old, now)
               /\ \A p \in DOMAIN Part(n, j).pivots :
                     p \in DOMAIN n.pivots /\ Part(n, j).pivots[p] = n.pivots[p]
    BY <1>2, PartOK
  <2> HIDE DEF key
  <2> QED BY <2>1, <2>2
<1>4. /\ \A a \in DOMAIN parts : \E j \in Parts(n) : a = key(j)
      /\ \A j \in Parts(n) : key(j) \in DOMAIN parts /\ parts[key(j)] = IdOf(j)
      /\ \A i, j \in Parts(n) : key(i) < key(j) => i < j
  BY <1>2, SplitKeys
<1>5. \A j \in Parts(n) :
         /\ L(j) \in Int
         /\ \A k \in KeysOf(Part(n, j)) : k <= L(j)
         /\ \A p \in DOMAIN Part(n, j).pivots : r[Part(n, j).pivots[p]] <= L(j)
         /\ \/ L(j) \in KeysOf(Part(n, j))
            \/ \E p \in DOMAIN Part(n, j).pivots : L(j) = r[Part(n, j).pivots[p]]
  <2> SUFFICES ASSUME NEW j \in Parts(n)
               PROVE  /\ L(j) \in Int
                      /\ \A k \in KeysOf(Part(n, j)) : k <= L(j)
                      /\ \A p \in DOMAIN Part(n, j).pivots : r[Part(n, j).pivots[p]] <= L(j)
                      /\ \/ L(j) \in KeysOf(Part(n, j))
                         \/ \E p \in DOMAIN Part(n, j).pivots : L(j) = r[Part(n, j).pivots[p]]
    OBVIOUS
  <2>1. KeysOf(Part(n, j)) # {} /\ NodeOK(Part(n, j), old, now)
    BY <1>3, KeysIn
  <2> QED BY <1>2, <2>1, LimitIs
<1>6. \A x \in DOMAIN more : x \in old \/ \E j \in Parts(n) : x = IdOf(j)
  OBVIOUS
<1>7. /\ DOMAIN more[id].pivots = {} /\ more[id].elements = {}
      /\ IsLeaf(more[id]) /\ KeysOf(more[id]) = {} /\ Settled(more[id]) = {}
  <2> DEFINE none == {}
             map  == EmptyMap
  <2>1. more[id] = [n EXCEPT !.pivots = map, !.elements = none]
    OBVIOUS
  <2>2. n = [pivots |-> n.pivots, elements |-> n.elements, epsilon |-> n.epsilon,
             node_level |-> n.node_level, ready_for_adoption |-> n.ready_for_adoption]
    BY <1>2 DEF NodeOK
  <2> HIDE DEF none, map
  <2>3. more[id].pivots = map /\ more[id].elements = none
    BY <2>1, <2>2
  <2>4. DOMAIN more[id].pivots = {} /\ more[id].elements = {}
    BY <2>3, EmptyMapFacts DEF none, map
  <2> QED BY <2>4 DEF IsLeaf, KeysOf, Settled
<1>8. /\ \A i \in old : i # id => more[i] = nodes[i]
      /\ DOMAIN more = old \union {IdOf(j) : j \in Parts(n)}
      /\ n = nodes[id] /\ id \in old
  OBVIOUS
<1> HIDE DEF parts, key, L
<1>9. s \in [DOMAIN more -> Int] /\ \A i \in old : s[i] = r[i] /\ i \in DOMAIN more
  BY <1>2, <1>1, <1>5, <1>6, <1>8
<1>10. \A j \in Parts(n) : s[IdOf(j)] = L(j)
  BY <1>1
<1> HIDE DEF s
<1>11. /\ KeysOf(n) \subseteq Int /\ Settled(n) \subseteq KeysOf(n)
       /\ \A k \in KeysOf(n) : k <= r[id]
       /\ \A p \in DOMAIN n.pivots :
             /\ n.pivots[p] \in old /\ r[n.pivots[p]] <= r[id]
             /\ \A q \in NextPivots(n, p) : r[n.pivots[p]] < q
  BY <1>2, <1>8, KeysIn DEF Ordered, LimitsOK, NodeOK
\* What a part's limit is below.
<1>12. \A j \in Parts(n) : L(j) <= r[id]
  BY <1>3, <1>5, <1>11
<1>13. ASSUME NEW i \in Parts(n), NEW j \in Parts(n), key(i) < key(j) PROVE L(i) < key(j)
  <2>1. \A k \in KeysOf(Part(n, i)) : k < key(j)
    BY <1>2, <1>3, <1>4, <1>13, PartsOrdered
  <2>2. ASSUME NEW p \in DOMAIN Part(n, i).pivots PROVE r[Part(n, i).pivots[p]] < key(j)
    <3>1. p \in DOMAIN n.pivots /\ Part(n, i).pivots[p] = n.pivots[p]
      BY <1>3
    <3>2. p < key(j)
      BY <2>1 DEF KeysOf
    <3>3. key(j) \in DOMAIN n.pivots
      BY <1>3, <3>1 DEF Settled, IsLeaf
    <3> QED BY <1>11, <3>1, <3>2, <3>3 DEF NextPivots
  <2> QED BY <1>5, <2>1, <2>2
<1>14. OwnedOK(more, top, parts)
  <2> SUFFICES ASSUME NEW x \in DOMAIN more, x # top,
                      \A q \in DOMAIN parts : parts[q] # x
               PROVE  \E a \in DOMAIN more : \E p \in DOMAIN more[a].pivots : more[a].pivots[p] = x
    BY DEF OwnedOK
  <2>1. x \in old
    BY <1>4, <1>6
  <2>2. PICK a \in old : \E p \in DOMAIN nodes[a].pivots : nodes[a].pivots[p] = x
    BY <2>1, EmptyMapFacts DEF Ordered, OwnedOK
  <2>3. PICK p \in DOMAIN nodes[a].pivots : nodes[a].pivots[p] = x
    BY <2>2
  <2>4. CASE a = id
    <3>1. p \in DOMAIN n.pivots /\ n.pivots[p] = x /\ ~IsLeaf(n)
      BY <1>8, <2>3, <2>4 DEF IsLeaf
    <3>2. PICK j \in Parts(n) : p \in DOMAIN Part(n, j).pivots /\ Part(n, j).pivots[p] = x
      BY <1>2, <3>1, AllPlaced
    <3> QED BY <1>1, <3>2
  <2>5. CASE a # id
    BY <1>8, <1>9, <2>3, <2>5
  <2> QED BY <2>4, <2>5
\* A child of a node, or of a part, is one that there was before.
<1>15. ASSUME NEW x \in DOMAIN more, NEW p \in DOMAIN more[x].pivots
       PROVE  \E a \in old : /\ p \in DOMAIN nodes[a].pivots /\ more[x].pivots[p] = nodes[a].pivots[p]
                             /\ nodes[a].pivots[p] \in old
                             /\ \A q \in NextPivots(more[x], p) : q \in NextPivots(nodes[a], p)
                             /\ r[nodes[a].pivots[p]] <= s[x]
  <2>1. CASE x \in old
    <3>1. x # id
      BY <1>7
    <3>2. more[x] = nodes[x] /\ s[x] = r[x]
      BY <1>8, <1>9, <2>1, <3>1
    <3> QED BY <2>1, <3>2 DEF Ordered, LimitsOK, NodeOK
  <2>2. ASSUME NEW j \in Parts(n), x = IdOf(j)
        PROVE  /\ p \in DOMAIN nodes[id].pivots /\ more[x].pivots[p] = nodes[id].pivots[p]
               /\ nodes[id].pivots[p] \in old
               /\ \A q \in NextPivots(more[x], p) : q \in NextPivots(nodes[id], p)
               /\ r[nodes[id].pivots[p]] <= s[x]
    <3>1. more[x] = Part(n, j) /\ s[x] = L(j)
      BY <1>1, <1>10, <2>2
    <3>2. /\ p \in DOMAIN n.pivots /\ more[x].pivots[p] = n.pivots[p]
          /\ \A q \in DOMAIN more[x].pivots : q \in DOMAIN n.pivots
      BY <1>3, <3>1
    <3>3. r[more[x].pivots[p]] <= s[x]
      BY <1>5, <3>1
    <3> QED BY <1>8, <1>11, <3>2, <3>3 DEF NextPivots
  <2> QED BY <1>6, <1>8, <2>1, <2>2
<1>16. AboveOK(more)
  <2> SUFFICES ASSUME NEW x \in DOMAIN more, NEW p \in DOMAIN more[x].pivots,
                      NEW k \in Settled(more[more[x].pivots[p]])
               PROVE  p <= k
    BY DEF AboveOK
  <2>1. PICK a \in old : /\ p \in DOMAIN nodes[a].pivots /\ more[x].pivots[p] = nodes[a].pivots[p]
                         /\ nodes[a].pivots[p] \in old
    BY <1>15
  <2> DEFINE c == more[x].pivots[p]
  <2>2. c \in old /\ c = nodes[a].pivots[p] /\ k \in Settled(more[c])
    BY <2>1
  <2> HIDE DEF c
  <2>3. c # id
    BY <1>7, <2>2
  <2>4. k \in Settled(nodes[c])
    BY <1>8, <2>2, <2>3
  <2> QED BY <2>1, <2>2, <2>4 DEF Ordered, AboveOK
<1>17. LimitsOK(s, more)
  <2>1. ASSUME NEW x \in DOMAIN more, NEW k \in KeysOf(more[x]) PROVE k <= s[x]
    <3>1. CASE x \in old
      <4>1. x # id
        BY <1>7
      <4>2. more[x] = nodes[x] /\ s[x] = r[x]
        BY <1>8, <1>9, <3>1, <4>1
      <4> QED BY <3>1, <4>2 DEF Ordered, LimitsOK
    <3>2. CASE \E j \in Parts(n) : x = IdOf(j)
      BY <1>1, <1>5, <1>10, <3>2
    <3> QED BY <1>6, <3>1, <3>2
  <2>2. ASSUME NEW x \in DOMAIN more, NEW p \in DOMAIN more[x].pivots
        PROVE  /\ s[more[x].pivots[p]] <= s[x]
               /\ \A q \in NextPivots(more[x], p) : s[more[x].pivots[p]] < q
    <3>1. PICK a \in old : /\ p \in DOMAIN nodes[a].pivots /\ more[x].pivots[p] = nodes[a].pivots[p]
                           /\ nodes[a].pivots[p] \in old
                           /\ \A q \in NextPivots(more[x], p) : q \in NextPivots(nodes[a], p)
                           /\ r[nodes[a].pivots[p]] <= s[x]
      BY <1>15
    <3>2. s[more[x].pivots[p]] = r[nodes[a].pivots[p]]
      BY <1>9, <3>1
    <3>3. \A q \in NextPivots(nodes[a], p) : r[nodes[a].pivots[p]] < q
      BY <3>1 DEF Ordered, LimitsOK
    <3> QED BY <3>1, <3>2, <3>3
  <2> QED BY <1>9, <2>1, <2>2 DEF LimitsOK
<1>18. PartsOK(s, more, parts, {id})
  <2>1. ASSUME NEW a \in DOMAIN parts
        PROVE  /\ a <= s[parts[a]] /\ \A k \in Settled(more[parts[a]]) : a <= k
               /\ \A b \in DOMAIN parts : a < b => s[parts[a]] < b
               /\ s[parts[a]] <= s[id]
    <3>1. PICK i \in Parts(n) : a = key(i)
      BY <1>4
    <3>2. parts[a] = IdOf(i) /\ s[parts[a]] = L(i) /\ more[parts[a]] = Part(n, i)
      BY <1>1, <1>4, <1>10, <3>1
    <3>3. a \in KeysOf(Part(n, i))
      BY <1>3, <3>1, KeysIn
    <3>4. a <= L(i)
      BY <1>5, <3>3
    <3>5. \A b \in DOMAIN parts : a < b => L(i) < b
      BY <1>4, <1>13, <3>1
    <3>6. L(i) <= s[id]
      BY <1>8, <1>9, <1>12
    <3> QED BY <1>3, <3>1, <3>2, <3>4, <3>5, <3>6
  <2> QED BY <1>7, <2>1 DEF PartsOK
<1>19. \A a \in DOMAIN parts : a \in Settled(n)
  BY <1>3, <1>4
<1>20. SplitLimits(r, nodes, id, parts, more)
  BY <1>9, <1>17, <1>18 DEF SplitLimits
<1> QED BY <1>14, <1>16, <1>19, <1>20 DEF parts

\* Limits for what is left, as they were.
MergeLimits(r, more, top) == \E s : Ordered(s, more, top) /\ \A i \in DOMAIN more : s[i] = r[i]

\* The parts take the place of the child that they were.
LEMMA OrderMerge ==
  ASSUME NEW nodes, NEW top, NEW parts, NEW next, NEW now, NEW r, NEW id, NEW p, NEW more,
         NodesOK(nodes, top, parts, next, now), OwnersOK(nodes, top, parts),
         OwnedOK(nodes, top, parts), AboveOK(nodes), LimitsOK(r, nodes), parts # EmptyMap,
         PartsOK(r, nodes, parts, {nodes[id].pivots[p]}), \A a \in DOMAIN parts : p <= a,
         Merges(nodes, id, p, parts, more, now), more[id].elements \subseteq nodes[id].elements
  PROVE  MergeLimits(r, more, top)
<1> DEFINE old   == DOMAIN nodes
           new   == DOMAIN more
           own   == nodes[id].pivots
           child == own[p]
           m     == more[id]
           s     == [i \in new |-> r[i]]
<1>1. /\ id \in old /\ p \in DOMAIN own /\ new = old \ {child}
      /\ m.pivots = Replace(own, p, parts)
      /\ \A i \in new : i # id => more[i] = nodes[i]
  BY DEF Merges
<1>2. /\ \A i \in old : /\ DOMAIN nodes[i].pivots \subseteq Int /\ KeysOf(nodes[i]) \subseteq Int
                        /\ Settled(nodes[i]) \subseteq KeysOf(nodes[i])
                        /\ \A q \in DOMAIN nodes[i].pivots : nodes[i].pivots[q] \in old
      /\ DOMAIN parts \subseteq Int /\ \A a \in DOMAIN parts : parts[a] \in old
      /\ r \in [old -> Int]
  <2>1. \A i \in old : NodeOK(nodes[i], old, now)
    BY DEF NodesOK
  <2>2. \A n : NodeOK(n, old, now) =>
           /\ KeysOf(n) \subseteq Int /\ Settled(n) \subseteq KeysOf(n)
           /\ DOMAIN n.pivots \subseteq Int
           /\ \A q \in DOMAIN n.pivots : n.pivots[q] \in old
    BY KeysIn DEF KeysOf, NodeOK
  <2>3. DOMAIN parts \subseteq Int /\ \A a \in DOMAIN parts : parts[a] \in old
    BY KeysAssumption DEF NodesOK
  <2> QED BY <2>1, <2>2, <2>3 DEF LimitsOK
<1>3. child \in old /\ IsLeaf(nodes[child]) /\ child # id /\ id \in new
  <2>1. IsLeaf(nodes[child])
    BY DEF PartsOK
  <2>2. child # id
    BY <1>1, <2>1 DEF IsLeaf
  <2> QED BY <1>1, <1>2, <2>1, <2>2
<1>4. /\ \A a \in DOMAIN parts : /\ p <= a /\ a <= r[parts[a]] /\ r[parts[a]] <= r[child]
                                 /\ \A k \in Settled(nodes[parts[a]]) : a <= k
                                 /\ \A b \in DOMAIN parts : a < b => r[parts[a]] < b
                                 /\ parts[a] # child
  <2>1. \A a \in DOMAIN parts : parts[a] # child
    BY <1>1 DEF OwnersOK
  <2> QED BY <2>1 DEF PartsOK
<1>5. /\ r[child] <= r[id] /\ \A q \in DOMAIN own : p < q => r[child] < q
      /\ \A k \in KeysOf(nodes[id]) : k <= r[id]
      /\ \A q \in DOMAIN own : /\ r[own[q]] <= r[id]
                               /\ \A x \in DOMAIN own : q < x => r[own[q]] < x
      /\ \A q \in DOMAIN own : q # p => own[q] # child
  <2>1. \A q \in DOMAIN own : q # p => own[q] # child
    BY <1>1 DEF OwnersOK
  <2> QED BY <1>1, <2>1 DEF LimitsOK, NextPivots
\* No part is filed under the key of another child.
<1>6. \A q \in DOMAIN own \ {p} : q \notin DOMAIN parts
  BY <1>1, <1>2, <1>3, <1>4, <1>5
<1>7. /\ DOMAIN m.pivots = (DOMAIN own \ {p}) \union DOMAIN parts
      /\ \A q \in DOMAIN parts : m.pivots[q] = parts[q]
      /\ \A q \in DOMAIN own \ {p} : m.pivots[q] = own[q]
  BY <1>1, <1>6 DEF Replace
<1>8. s \in [new -> Int] /\ \A i \in new : s[i] = r[i] /\ i \in old
  BY <1>1, <1>2
<1>9. \A a \in DOMAIN parts : a <= r[id] /\ r[parts[a]] <= r[id]
  <2> SUFFICES ASSUME NEW a \in DOMAIN parts PROVE a <= r[id] /\ r[parts[a]] <= r[id]
    OBVIOUS
  <2>1. a \in Int /\ r[parts[a]] \in Int /\ r[child] \in Int /\ r[id] \in Int
    BY <1>1, <1>2, <1>3
  <2>2. a <= r[parts[a]] /\ r[parts[a]] <= r[child] /\ r[child] <= r[id]
    BY <1>4, <1>5
  <2> HIDE DEF child
  <2> QED BY <2>1, <2>2
<1> DEFINE fields == m.elements \subseteq nodes[id].elements
<1>10. fields
  OBVIOUS
<1> HIDE DEF new, s, m, own, fields
<1>11. KeysOf(m) \subseteq KeysOf(nodes[id]) \union DOMAIN parts
  BY <1>7, <1>10 DEF KeysOf, own, fields
<1>12. Settled(m) \subseteq DOMAIN own \union DOMAIN parts /\ Settled(nodes[id]) = DOMAIN own
       /\ DOMAIN own \subseteq Int /\ DOMAIN m.pivots \subseteq Int
  <2>1. Settled(nodes[id]) = DOMAIN own /\ DOMAIN own \subseteq Int
    BY <1>1, <1>2 DEF Settled, IsLeaf, own
  <2>2. DOMAIN parts # {}
    BY EmptyMapFacts DEF NodesOK
  <2>3. Settled(m) = DOMAIN m.pivots
    BY <1>7, <2>2 DEF Settled, IsLeaf
  <2> QED BY <1>2, <1>7, <2>1, <2>3
\* What bounds a node from below still does.
<1>13. ASSUME NEW i \in new, NEW k \in Settled(more[i])
       PROVE  \E l \in Settled(nodes[i]) : l \in Int /\ l <= k
  <2>1. CASE i = id
    <3>1. k \in DOMAIN own \/ (k \in DOMAIN parts /\ p <= k)
      BY <1>4, <1>12, <2>1 DEF m
    <3>2. p \in Settled(nodes[id]) /\ p \in Int
      BY <1>1, <1>12
    <3> QED BY <1>12, <2>1, <3>1, <3>2
  <2>2. CASE i # id
    BY <1>1, <1>2, <1>8, <2>2
  <2> QED BY <2>1, <2>2
<1>14. ASSUME NEW a \in new, NEW q \in DOMAIN more[a].pivots
       PROVE  /\ more[a].pivots[q] \in new
              /\ \A k \in Settled(nodes[more[a].pivots[q]]) : q <= k
              /\ r[more[a].pivots[q]] <= r[a]
              /\ \A x \in NextPivots(more[a], q) : r[more[a].pivots[q]] < x
  <2>1. CASE a # id
    <3>1. more[a] = nodes[a] /\ a \in old
      BY <1>1, <1>8, <2>1
    <3>2. more[a].pivots[q] # child
      BY <1>1, <2>1, <3>1 DEF OwnersOK, own
    <3> QED BY <1>1, <1>2, <3>1, <3>2 DEF LimitsOK, AboveOK
  <2>2. CASE a = id /\ q \in DOMAIN parts
    <3>1. more[a].pivots[q] = parts[q] /\ parts[q] \in new
      BY <1>1, <1>2, <1>4, <1>7, <2>2 DEF m
    <3>2. ASSUME NEW x \in NextPivots(m, q) PROVE r[parts[q]] < x
      <4>1. x \in DOMAIN m.pivots /\ q < x
        BY DEF NextPivots
      <4>2. CASE x \in DOMAIN parts
        BY <1>4, <2>2, <4>1, <4>2
      <4>3. CASE x \in DOMAIN own
        <5>1. p <= q /\ p \in Int /\ q \in Int /\ x \in Int
          BY <1>1, <1>2, <1>4, <1>12, <2>2, <4>3
        <5>2. r[child] < x
          BY <1>5, <4>1, <4>3, <5>1
        <5>3. r[parts[q]] <= r[child] /\ r[parts[q]] \in Int /\ r[child] \in Int
          BY <1>2, <1>3, <1>4, <2>2
        <5> QED BY <5>1, <5>2, <5>3
      <4> QED BY <1>7, <4>1, <4>2, <4>3
    <3> QED BY <1>4, <1>9, <2>2, <3>1, <3>2 DEF m
  <2>3. CASE a = id /\ q \in DOMAIN own \ {p}
    <3>1. more[a].pivots[q] = own[q] /\ own[q] \in new
      BY <1>1, <1>2, <1>5, <1>6, <1>7, <2>3 DEF m, own
    <3>2. ASSUME NEW x \in NextPivots(m, q) PROVE r[own[q]] < x
      <4>1. x \in DOMAIN m.pivots /\ q < x
        BY DEF NextPivots
      <4>2. CASE x \in DOMAIN own
        BY <1>5, <2>3, <4>1, <4>2
      <4>3. CASE x \in DOMAIN parts
        <5>1. p \in Int /\ q \in Int /\ x \in Int /\ p <= x /\ x <= r[parts[x]]
              /\ r[parts[x]] <= r[child] /\ r[parts[x]] \in Int /\ r[child] \in Int
              /\ r[own[q]] \in Int
          BY <1>1, <1>2, <1>3, <1>4, <1>12, <2>3, <4>3 DEF own
        <5>2. ~(p < q)
          BY <1>5, <2>3, <4>1, <5>1
        <5>3. r[own[q]] < p
          BY <1>1, <1>5, <2>3, <5>1, <5>2
        <5> QED BY <5>1, <5>3
      <4> QED BY <1>7, <4>1, <4>2, <4>3
    <3>3. \A k \in Settled(nodes[own[q]]) : q <= k
      BY <1>1, <2>3 DEF AboveOK, own
    <3> QED BY <1>5, <2>3, <3>1, <3>2, <3>3 DEF m
  <2> QED BY <1>7, <2>1, <2>2, <2>3 DEF m
<1>15. OwnedOK(more, top, EmptyMap)
  <2> SUFFICES ASSUME NEW i \in new, i # top
               PROVE  \E a \in new : \E q \in DOMAIN more[a].pivots : more[a].pivots[q] = i
    BY DEF OwnedOK, new
  <2>1. \/ \E a \in old : \E q \in DOMAIN nodes[a].pivots : nodes[a].pivots[q] = i
        \/ \E q \in DOMAIN parts : parts[q] = i
    BY <1>8 DEF OwnedOK
  <2>2. CASE \E q \in DOMAIN parts : parts[q] = i
    BY <1>3, <1>7, <2>2 DEF m
  <2>3. ASSUME NEW a \in old, NEW q \in DOMAIN nodes[a].pivots, nodes[a].pivots[q] = i
        PROVE  \E b \in new : \E x \in DOMAIN more[b].pivots : more[b].pivots[x] = i
    <3>1. a # child
      BY <1>3, <2>3 DEF IsLeaf
    <3>2. CASE a = id
      <4>1. q # p
        BY <1>1, <2>3, <3>2 DEF own
      <4>2. q \in DOMAIN m.pivots /\ m.pivots[q] = i
        BY <1>6, <1>7, <2>3, <3>2, <4>1 DEF own
      <4> QED BY <1>3, <4>2 DEF m
    <3>3. CASE a # id
      BY <1>1, <2>3, <3>1, <3>3
    <3> QED BY <3>2, <3>3
  <2> QED BY <2>1, <2>2, <2>3
<1>16. AboveOK(more)
  <2> SUFFICES ASSUME NEW a \in new, NEW q \in DOMAIN more[a].pivots,
                      NEW k \in Settled(more[more[a].pivots[q]])
               PROVE  q <= k
    BY DEF AboveOK, new
  <2>1. more[a].pivots[q] \in new /\ \A l \in Settled(nodes[more[a].pivots[q]]) : q <= l
    BY <1>14
  <2>2. PICK l \in Settled(nodes[more[a].pivots[q]]) : l \in Int /\ l <= k
    BY <1>13, <2>1
  <2>3. q \in Int
    <3>1. CASE a = id
      BY <1>12, <3>1 DEF m
    <3>2. CASE a # id
      BY <1>1, <1>2, <1>8, <3>2
    <3> QED BY <3>1, <3>2
  <2>4. k \in Int
    <3> DEFINE c == more[a].pivots[q]
    <3>1. CASE c = id
      BY <1>2, <1>12, <3>1 DEF m
    <3>2. CASE c # id
      BY <1>1, <1>2, <1>8, <2>1, <3>2
    <3> QED BY <3>1, <3>2
  <2> QED BY <2>1, <2>2, <2>3, <2>4
<1>17. LimitsOK(s, more)
  <2>1. ASSUME NEW i \in new, NEW k \in KeysOf(more[i]) PROVE k <= s[i]
    <3>1. CASE i = id
      BY <1>5, <1>8, <1>9, <1>11, <3>1 DEF m
    <3>2. CASE i # id
      <4>1. more[i] = nodes[i] /\ i \in old
        BY <1>1, <1>8, <3>2
      <4> QED BY <1>8, <4>1 DEF LimitsOK
    <3> QED BY <3>1, <3>2
  <2>2. ASSUME NEW a \in new, NEW q \in DOMAIN more[a].pivots
        PROVE  /\ s[more[a].pivots[q]] <= s[a]
               /\ \A x \in NextPivots(more[a], q) : s[more[a].pivots[q]] < x
    BY <1>8, <1>14
  <2> QED BY <1>8, <2>1, <2>2 DEF LimitsOK, new
<1> QED BY <1>8, <1>15, <1>16, <1>17 DEF Ordered, new, MergeLimits

\* The root gives way to one above its parts.
LEMMA OrderGrow ==
  ASSUME NEW nodes, NEW top, NEW parts, NEW next, NEW now, NEW r, NEW more,
         NodesOK(nodes, top, parts, next, now), OwnersOK(nodes, top, parts),
         OwnedOK(nodes, top, parts), AboveOK(nodes), LimitsOK(r, nodes),
         PartsOK(r, nodes, parts, {top}), parts # EmptyMap,
         Grows(nodes, top, parts, next, more)
  PROVE  \E s : Ordered(s, more, next)
<1> DEFINE old == DOMAIN nodes
           new == DOMAIN more
           s   == [i \in new |-> IF i = next THEN r[top] ELSE r[i]]
<1>1. /\ new = (old \ {top}) \union {next}
      /\ \A i \in old : i # top => more[i] = nodes[i]
      /\ more[next].pivots = parts /\ more[next].elements = {}
  BY DEF Grows
<1>2. /\ top \in old /\ next \notin old
      /\ \A i \in old : \A p \in DOMAIN nodes[i].pivots :
            nodes[i].pivots[p] \in old /\ nodes[i].pivots[p] # top
      /\ \A a \in DOMAIN parts : parts[a] \in old /\ parts[a] # top /\ a \in Int
      /\ r \in [old -> Int] /\ DOMAIN parts # {}
  <2>1. top \in old /\ next \notin old
    BY DEF NodesOK
  <2>2. \A i \in old : \A p \in DOMAIN nodes[i].pivots :
            nodes[i].pivots[p] \in old /\ nodes[i].pivots[p] # top
    BY DEF NodesOK, NodeOK, OwnersOK
  <2>3. \A a \in DOMAIN parts : parts[a] \in old /\ parts[a] # top /\ a \in Int
    BY KeysAssumption DEF NodesOK, OwnersOK
  <2>4. DOMAIN parts # {}
    BY EmptyMapFacts DEF NodesOK
  <2> QED BY <2>1, <2>2, <2>3, <2>4 DEF LimitsOK
<1>3. /\ s \in [new -> Int] /\ s[next] = r[top]
      /\ \A i \in old : i # top => i \in new /\ i # next /\ s[i] = r[i]
      /\ next \in new /\ \A i \in new : i # next => i \in old /\ i # top
  BY <1>1, <1>2
<1> HIDE DEF s, new, old
<1>4. OwnedOK(more, next, EmptyMap)
  <2> SUFFICES ASSUME NEW i \in new, i # next
               PROVE  \E a \in new : \E p \in DOMAIN more[a].pivots : more[a].pivots[p] = i
    BY DEF OwnedOK, new
  <2>1. i \in old /\ i # top
    BY <1>3
  <2>2. CASE \E q \in DOMAIN parts : parts[q] = i
    BY <1>1, <1>3, <2>2
  <2>3. ASSUME NEW a \in old, NEW p \in DOMAIN nodes[a].pivots, nodes[a].pivots[p] = i
        PROVE  \E b \in new : \E q \in DOMAIN more[b].pivots : more[b].pivots[q] = i
    <3>1. a # top
      <4>1. IsLeaf(nodes[top])
        BY DEF PartsOK
      <4> QED BY <2>3, <4>1 DEF IsLeaf
    <3> QED BY <1>1, <1>3, <2>3, <3>1
  <2> QED BY <2>1, <2>2, <2>3 DEF OwnedOK, old
<1>5. AboveOK(more)
  <2> SUFFICES ASSUME NEW a \in new, NEW p \in DOMAIN more[a].pivots,
                      NEW k \in Settled(more[more[a].pivots[p]])
               PROVE  p <= k
    BY DEF AboveOK, new
  <2>1. CASE a = next
    <3>1. p \in DOMAIN parts /\ more[a].pivots[p] = parts[p] /\ more[parts[p]] = nodes[parts[p]]
      BY <1>1, <1>2, <2>1
    <3> QED BY <3>1 DEF PartsOK
  <2>2. CASE a # next
    <3>1. a \in old /\ more[a] = nodes[a]
      BY <1>1, <1>3, <2>2
    <3>2. more[nodes[a].pivots[p]] = nodes[nodes[a].pivots[p]]
      BY <1>1, <1>2, <3>1
    <3> QED BY <3>1, <3>2 DEF AboveOK, old
  <2> QED BY <2>1, <2>2
<1>6. LimitsOK(s, more)
  <2>1. ASSUME NEW i \in new, NEW k \in KeysOf(more[i]) PROVE k <= s[i]
    <3>1. CASE i = next
      <4>1. k \in DOMAIN parts
        BY <1>1, <2>1, <3>1 DEF KeysOf
      <4>2. k <= r[parts[k]] /\ r[parts[k]] <= r[top]
        BY <4>1 DEF PartsOK
      <4>3. k \in Int /\ r[parts[k]] \in Int /\ r[top] \in Int
        BY <1>2, <4>1
      <4> QED BY <1>3, <3>1, <4>2, <4>3
    <3>2. CASE i # next
      <4>1. i \in old /\ more[i] = nodes[i] /\ s[i] = r[i]
        BY <1>1, <1>3, <3>2
      <4> QED BY <4>1 DEF LimitsOK, old
    <3> QED BY <3>1, <3>2
  <2>2. ASSUME NEW a \in new, NEW p \in DOMAIN more[a].pivots
        PROVE  /\ s[more[a].pivots[p]] <= s[a]
               /\ \A q \in NextPivots(more[a], p) : s[more[a].pivots[p]] < q
    <3>1. CASE a = next
      <4>1. p \in DOMAIN parts /\ more[a].pivots = parts /\ s[parts[p]] = r[parts[p]]
        BY <1>1, <1>2, <1>3, <3>1
      <4> QED BY <1>3, <3>1, <4>1 DEF PartsOK, NextPivots
    <3>2. CASE a # next
      <4>1. a \in old /\ more[a] = nodes[a] /\ s[a] = r[a]
        BY <1>1, <1>3, <3>2
      <4>2. s[nodes[a].pivots[p]] = r[nodes[a].pivots[p]]
        BY <1>2, <1>3, <4>1
      <4> QED BY <4>1, <4>2 DEF LimitsOK, old
    <3> QED BY <3>1, <3>2
  <2> QED BY <1>3, <2>1, <2>2 DEF LimitsOK, new
<1> QED BY <1>4, <1>5, <1>6 DEF Ordered

-----------------------------------------------------------------------------
(* The steps. *)

\* When no map has just been returned, the invariant is about the nodes and the stack.
LEMMA OrderedIs ==
  ASSUME OInv, returned = EmptyMap
  PROVE  \E r : Ordered(r, node, root) /\ ArgsOK(r, stack)
  BY DEF OInv, Ordered

LEMMA OrderedGives ==
  ASSUME IInv', returned' = EmptyMap, NEW r, Ordered(r, node', root'), ArgsOK(r, stack')
  PROVE  OInv'
<1>1. PartsOK(r, node', returned', Emptied(stack', node', root', returned'))
  BY EmptyMapFacts DEF PartsOK, Emptied
<1>2. ReturnOK(stack', returned') /\ OwnedOK(node', root', returned')
  BY DEF ReturnOK, Ordered
<1> QED BY <1>1, <1>2 DEF OInv, Ordered

\* What is left of the stack is bounded as it was, under limits that are no lower.
LEMMA ArgsStep ==
  ASSUME NEW r, NEW s, NEW st, NEW new, NEW now, ArgsOK(r, st), Len(st) \in Nat,
         Len(new) \in Nat, NEW ids, r \in [ids -> Int], DOMAIN s \subseteq ids,
         \A i \in DOMAIN s : s[i] \in Int /\ r[i] <= s[i],
         \A i \in 1 .. Len(new) :
            /\ new[i] \in Flushes(now) \union Queries /\ new[i].id \in DOMAIN s
            /\ i <= Len(st) => new[i].fn = st[i].fn /\ new[i].id = st[i].id /\ new[i].arg = st[i].arg
            /\ i < Len(st) /\ i < Len(new) => new[i].pivot = st[i].pivot
            /\ i > Len(st) /\ new[i].fn = "flush" =>
                  \A m \in new[i].arg : m.key <= s[new[i].id]
                                        /\ (i > 1 => new[i - 1].pivot <= m.key)
  PROVE  ArgsOK(s, new)
<1> SUFFICES ASSUME NEW i \in 1 .. Len(new), new[i].fn = "flush", NEW m \in new[i].arg
             PROVE  m.key <= s[new[i].id] /\ (i > 1 => new[i - 1].pivot <= m.key)
  BY DEF ArgsOK
<1>1. CASE i > Len(st)
  BY <1>1
<1>2. CASE i <= Len(st)
  <2>1. i \in 1 .. Len(st) /\ st[i].fn = "flush" /\ m \in st[i].arg /\ st[i].id = new[i].id
    BY <1>2
  <2>2. m.key <= r[st[i].id] /\ (i > 1 => st[i - 1].pivot <= m.key)
    BY <2>1 DEF ArgsOK
  <2>3. m.key \in Int
    <3>1. new[i] \in Flushes(now)
      BY DEF Queries
    <3>2. m \in Message(now)
      BY <3>1 DEF Flushes, Buffer
    <3> QED BY <3>2, KeysAssumption DEF Message
  <2>4. m.key <= s[new[i].id]
    BY <2>1, <2>2, <2>3
  <2>5. i > 1 => new[i - 1].pivot = st[i - 1].pivot
    <3> SUFFICES ASSUME i > 1 PROVE new[i - 1].pivot = st[i - 1].pivot
      OBVIOUS
    <3> DEFINE j == i - 1
    <3>1. j \in 1 .. Len(new) /\ j < Len(st) /\ j < Len(new)
      BY <1>2
    <3> HIDE DEF j
    <3>2. new[j].pivot = st[j].pivot
      BY <3>1
    <3> QED BY <3>2 DEF j
  <2> QED BY <2>2, <2>4, <2>5
<1> QED BY <1>1, <1>2

\* What the running activation was given fits below its limit, and above the pivot
\* that its node is held by.
LEMMA ArgFits ==
  ASSUME IInv, stack # << >>, Top.fn = "flush", NEW r, ArgsOK(r, stack)
  PROVE  /\ Top.arg \in Buffer(next_timestamp) /\ Top.arg # {}
         /\ \A m \in Top.arg : m.key \in Int /\ m.key <= r[Top.id]
         /\ \A a \in DOMAIN node : \A p \in DOMAIN node[a].pivots :
               node[a].pivots[p] = Top.id => \A m \in Top.arg : p <= m.key
         /\ Len(stack) > 1 => /\ stack[Len(stack) - 1].id \in DOMAIN node
                              /\ stack[Len(stack) - 1].pivot
                                    \in DOMAIN node[stack[Len(stack) - 1].id].pivots
                              /\ node[stack[Len(stack) - 1].id].pivots[stack[Len(stack) - 1].pivot]
                                    = Top.id
<1> DEFINE len == Len(stack)
           f   == stack[len - 1]
<1>1. /\ len \in Nat \ {0} /\ Top = stack[len]
      /\ Top \in Flushes(next_timestamp) \union Queries
  BY TopFacts
<1>2. Top.arg \in Buffer(next_timestamp) /\ Top.arg # {}
  BY <1>1 DEF Flushes, Queries
<1>3. \A m \in Top.arg : m.key \in Int /\ m.key <= r[Top.id] /\ (len > 1 => f.pivot <= m.key)
  <2>1. \A m \in Top.arg : m.key \in Int
    BY <1>2, KeysAssumption DEF Buffer, Message
  <2>2. len \in 1 .. len
    BY <1>1
  <2> QED BY <1>1, <2>1, <2>2 DEF ArgsOK
<1>4. len > 1 => /\ f.id \in DOMAIN node /\ f.pivot \in DOMAIN node[f.id].pivots
                 /\ node[f.id].pivots[f.pivot] = Top.id
  <2> SUFFICES ASSUME len > 1
               PROVE  /\ f.id \in DOMAIN node /\ f.pivot \in DOMAIN node[f.id].pivots
                      /\ node[f.id].pivots[f.pivot] = Top.id
    OBVIOUS
  <2>1. len \in 1 .. len /\ len - 1 \in 1 .. len
    BY <1>1
  <2>2. Waits(f, Top, node) /\ FrameOK(f, node)
    BY <1>1, <2>1 DEF IInv, FramesOK
  <2> HIDE DEF f
  <2> QED BY <2>2 DEF Waits, FrameOK
<1>5. len = 1 => Top.id = root
  BY <1>1 DEF IInv, FramesOK
<1>6. ASSUME NEW a \in DOMAIN node, NEW p \in DOMAIN node[a].pivots, node[a].pivots[p] = Top.id,
             NEW m \in Top.arg
      PROVE  p <= m.key
  <2>1. Top.id # root
    BY <1>6 DEF IInv, OwnersOK
  <2>2. len > 1
    <3>1. len # 1 /\ len \in Nat \ {0}
      BY <1>1, <1>5, <2>1
    <3> HIDE DEF len
    <3> QED BY <3>1
  <2>3. a = f.id /\ p = f.pivot
    <3> HIDE DEF f
    <3> QED BY <1>4, <1>6, <2>2 DEF IInv, OwnersOK
  <2> QED BY <1>3, <2>2, <2>3
<1> QED BY <1>2, <1>3, <1>4, <1>6

\* What is left when the running activation returns.
LEMMA ArgsPop ==
  ASSUME IInv, stack # << >>, NEW r, LimitsOK(r, node), ArgsOK(r, stack),
         NEW s, DOMAIN s \subseteq DOMAIN node, DOMAIN node \subseteq DOMAIN s,
         \A i \in DOMAIN node : s[i] = r[i]
  PROVE  ArgsOK(s, Front(stack))
<1> DEFINE new == Front(stack)
           len == Len(stack)
<1>1. /\ len \in Nat \ {0}
      /\ \A i \in 1 .. len - 1 : stack[i].id \in DOMAIN node
  BY TopFacts
<1>2. /\ new \in Seq(Flushes(next_timestamp) \union Queries)
      /\ Len(new) = len - 1 /\ \A i \in 1 .. len - 1 : new[i] = stack[i]
  BY FrontOfFrames DEF IInv
<1>3. r \in [DOMAIN node -> Int] /\ \A i \in DOMAIN s : s[i] \in Int /\ r[i] <= s[i]
  BY DEF LimitsOK
<1> HIDE DEF new
<1>4. \A i \in 1 .. Len(new) :
         /\ new[i] \in Flushes(next_timestamp) \union Queries /\ new[i].id \in DOMAIN s
         /\ new[i].fn = stack[i].fn /\ new[i].id = stack[i].id /\ new[i].arg = stack[i].arg
         /\ new[i].pivot = stack[i].pivot
         /\ ~(i > Len(stack))
  BY <1>1, <1>2
<1>5. Len(stack) \in Nat /\ Len(new) \in Nat
  BY <1>1, <1>2
<1>6. ArgsOK(s, new)
  <2> HIDE DEF len
  <2> QED BY <1>3, <1>4, <1>5, ArgsStep
<1> QED BY <1>6 DEF new

\* The end of a flush() that leaves n, which took in what was sent, in its node.
LEMMA FinishOrder ==
  ASSUME OInv, stack # << >>, Top.fn = "flush", returned = EmptyMap,
         NEW n, NodeOK(n, DOMAIN node, next_timestamp), n.pivots = Current.pivots,
         KeysOf(n) \subseteq KeysOf(Current) \union {m.key : m \in Top.arg},
         Settled(n) \subseteq Settled(Current) \union {m.key : m \in Top.arg},
         NEW splits \in BOOLEAN, splits => n.elements # {} \/ ~IsLeaf(n),
         Finish(n, splits)
  PROVE  OInv'
<1> DEFINE sent  == {m.key : m \in Top.arg}
           nodes == [node EXCEPT ![Top.id] = n]
           len   == Len(stack)
           f     == stack[len - 1]
<1>1. IInv /\ IInv'
  BY FinishKeeps DEF OInv
<1>2. PICK r : Ordered(r, node, root) /\ ArgsOK(r, stack)
  BY OrderedIs
<1>3. /\ NodesOK(node, root, EmptyMap, next_id, next_timestamp)
      /\ FramesOK(stack, node, root, EmptyMap, call, next_timestamp)
  BY <1>1 DEF IInv
<1>4. /\ stack \in Seq(Flushes(next_timestamp) \union Queries)
      /\ len \in Nat \ {0} /\ Top = stack[len] /\ Top.id \in DOMAIN node
      /\ \A i \in 1 .. len - 1 : stack[i].id \in DOMAIN node /\ stack[i].id # Top.id
  BY <1>1, TopFacts DEF FrameOK
<1>5. /\ \A k \in sent : k \in Int /\ k <= r[Top.id]
      /\ \A a \in DOMAIN node : \A p \in DOMAIN node[a].pivots :
            node[a].pivots[p] = Top.id => \A k \in sent : p <= k
      /\ len > 1 => /\ f.id \in DOMAIN node /\ f.pivot \in DOMAIN node[f.id].pivots
                    /\ node[f.id].pivots[f.pivot] = Top.id
  BY <1>1, <1>2, ArgFits
<1>6. /\ DOMAIN nodes = DOMAIN node /\ nodes[Top.id] = n
      /\ \A i \in DOMAIN node : i # Top.id => nodes[i] = node[i]
  BY <1>4
<1>7. Moves(n, node[Top.id])
  <2>1. DOMAIN Current.pivots \subseteq Int
    BY <1>3, <1>4, KeysAssumption DEF NodesOK, NodeOK, Current
  <2> QED BY <2>1, MovesNothing DEF Current
<1> HIDE DEF sent, nodes
<1>8. Ordered(r, nodes, root)
  <2>1. /\ KeysOf(n) \subseteq KeysOf(node[Top.id]) \union sent
        /\ Settled(n) \subseteq Settled(node[Top.id]) \union sent
        /\ sent \in SUBSET Int /\ \A k \in sent : k <= r[Top.id]
    BY <1>5 DEF sent, Current
  <2>2. NodesOK(node, root, EmptyMap, next_id, next_timestamp) /\ Ordered(r, node, root)
        /\ Top.id \in DOMAIN node
    BY <1>2, <1>3, <1>4
  <2>3. \A a \in DOMAIN node : \A p \in DOMAIN node[a].pivots :
           node[a].pivots[p] = Top.id => \A k \in sent : p <= k
    BY <1>5
  <2> QED BY <1>6, <1>7, <2>1, <2>2, <2>3, OrderStep
<1>9. /\ root' = root /\ stack' = Front(stack)
  BY DEF Finish, Return
<1>10. /\ Front(stack) \in Seq(Flushes(next_timestamp) \union Queries)
       /\ Len(Front(stack)) = len - 1
       /\ \A i \in 1 .. len - 1 : Front(stack)[i] = stack[i]
       /\ Front(stack) = << >> <=> len = 1
  BY <1>3, FrontOfFrames
<1>11. ASSUME NEW s, DOMAIN s \subseteq DOMAIN node, DOMAIN node \subseteq DOMAIN s,
              \A i \in DOMAIN node : s[i] = r[i]
       PROVE  ArgsOK(s, stack')
  <2>1. LimitsOK(r, node)
    BY <1>2 DEF Ordered
  <2>2. ArgsOK(s, Front(stack))
    BY <1>1, <1>2, <1>11, <2>1, ArgsPop
  <2> QED BY <1>9, <2>2
<1>12. CASE ~splits
  <2>1. returned' = EmptyMap /\ node' = nodes
    BY <1>12 DEF Finish, nodes
  <2>2. ArgsOK(r, stack')
    BY <1>2, <1>11 DEF Ordered, LimitsOK
  <2> QED BY <1>1, <1>8, <1>9, <2>1, <2>2, OrderedGives
<1>13. CASE splits
  <2> DEFINE parts == SplitResult(n)
             new   == {IdOf(j) : j \in Parts(n)}
             shell == [n EXCEPT !.pivots = EmptyMap, !.elements = {}]
  <2>1. /\ returned' = parts
        /\ node' = [i \in DOMAIN node \union new |->
                       IF i = Top.id THEN shell
                       ELSE IF i \in DOMAIN node THEN node[i] ELSE Part(n, i - next_id)]
    BY <1>13 DEF Finish, Return
  <2>2. n.elements # {} \/ ~IsLeaf(n)
    BY <1>13
  <2> HIDE DEF parts, shell, new
  <2>3. /\ DOMAIN node' = DOMAIN nodes \union new
        /\ node'[Top.id] = shell
        /\ \A i \in DOMAIN nodes : i # Top.id => node'[i] = nodes[i]
        /\ \A i \in DOMAIN node' : i \notin DOMAIN nodes => node'[i] = Part(n, i - next_id)
    BY <1>4, <1>6, <2>1
  <2>4. NodesOK(nodes, root, EmptyMap, next_id, next_timestamp)
    <3>1. SameOwned(n, node[Top.id]) /\ (IsLeaf(n) => IsLeaf(node[Top.id]))
      BY SamePivots DEF IsLeaf, Current
    <3>2. OwnersOK(node, root, EmptyMap) /\ \E h : HeightsOK(h, node, EmptyMap, {})
      BY <1>1 DEF IInv, Emptied
    <3> QED BY <1>3, <1>4, <1>6, <3>1, <3>2, TreeStep
  <2>5. /\ OwnedOK(node', root, parts) /\ AboveOK(node')
        /\ \A a \in DOMAIN parts : a \in Settled(n)
        /\ SplitLimits(r, nodes, Top.id, parts, node')
    <3>1. Splits(nodes, Top.id, n, node')
      BY <1>4, <1>6, <2>2, <2>3 DEF Splits, new, shell
    <3> QED BY <1>8, <2>4, <3>1, OrderSplit DEF parts
  <2>6. PICK s : /\ LimitsOK(s, node') /\ PartsOK(s, node', parts, {Top.id})
                 /\ \A i \in DOMAIN nodes : s[i] = r[i]
    BY <2>5 DEF SplitLimits
  <2>7. parts # EmptyMap
    BY <2>2, <1>3, SplitResultOK DEF parts, NodesOK
  <2>8. Emptied(stack', node', root, parts) = {Top.id}
    <3>1. \A i \in 1 .. Len(stack) - 1 : /\ stack[i].id \in DOMAIN node'
                                         /\ node'[stack[i].id].pivots = node[stack[i].id].pivots
      BY <1>4, <1>6, <2>3
    <3>2. stack[Len(stack)].fn = "flush"
      BY <1>4
    <3>3. FramesOK(stack, node, root, EmptyMap, call, next_timestamp)
      BY <1>3
    <3>4. Emptied(Front(stack), node', root, parts) = {stack[Len(stack)].id}
      BY <2>7, <3>1, <3>2, <3>3, EmptiedReturn
    <3> QED BY <1>4, <1>9, <3>4
  <2>9. ReturnOK(stack', parts)
    <3> SUFFICES ASSUME Front(stack) # << >>, NEW a \in DOMAIN parts
                 PROVE  Front(stack)[len - 1].pivot <= a
      BY <1>9, <1>10 DEF ReturnOK
    <3>1. len > 1 /\ Front(stack)[len - 1] = f
      <4>1. len # 1 /\ len \in Nat \ {0}
        BY <1>4, <1>10
      <4> HIDE DEF len
      <4>2. len > 1 /\ len - 1 \in 1 .. len - 1
        BY <4>1
      <4> QED BY <1>10, <4>2
    <3> HIDE DEF f, len
    <3>2. f.id \in DOMAIN nodes /\ f.pivot \in DOMAIN nodes[f.id].pivots
          /\ nodes[f.id].pivots[f.pivot] = Top.id
      BY <1>5, <1>6, <3>1 DEF Current
    <3>3. a \in Settled(nodes[Top.id])
      BY <1>6, <2>5
    <3> QED BY <1>8, <3>1, <3>2, <3>3 DEF Ordered, AboveOK
  <2>10. ArgsOK(s, stack')
    <3> DEFINE t == [i \in DOMAIN node |-> s[i]]
    <3>1. /\ DOMAIN t \subseteq DOMAIN node /\ DOMAIN node \subseteq DOMAIN t
          /\ \A i \in DOMAIN node : t[i] = r[i] /\ t[i] = s[i]
      BY <1>6, <2>6
    <3> HIDE DEF t
    <3>2. ArgsOK(t, stack')
      BY <1>11, <3>1
    <3>3. \A i \in 1 .. Len(stack') : stack'[i].id \in DOMAIN node
      BY <1>4, <1>9, <1>10
    <3> QED BY <3>1, <3>2, <3>3 DEF ArgsOK
  <2> QED BY <1>1, <1>9, <2>1, <2>5, <2>6, <2>8, <2>9, <2>10 DEF OInv
<1> QED BY <1>12, <1>13

\* A stack of some frames is one of more frames.
LEMMA WiderSeq ==
  ASSUME NEW F, NEW U, F \subseteq U, NEW st \in Seq(F)
  PROVE  st \in Seq(U)
  OBVIOUS

\* A frame that goes on is what it was called for.
LEMMA GoesOn ==
  ASSUME NEW now, NEW top \in Flushes(now) \union Queries, NEW pc, NEW pivot
  PROVE  LET f == [top EXCEPT !.pc = pc, !.pivot = pivot]
         IN  f.fn = top.fn /\ f.id = top.id /\ f.arg = top.arg /\ f.pivot = pivot
<1>1. CASE top \in Flushes(now)
  BY <1>1 DEF Flushes
<1>2. CASE top \in Queries
  BY <1>2 DEF Queries
<1> QED BY <1>1, <1>2

\* The running activation goes on, and limits are no lower than they were.
LEMMA StayOrder ==
  ASSUME OInv, stack # << >>, IInv', returned' = EmptyMap, root' = root,
         NEW r, LimitsOK(r, node), ArgsOK(r, stack),
         NEW s, Ordered(s, node', root), DOMAIN node' \subseteq DOMAIN node,
         \A i \in DOMAIN node' : r[i] <= s[i],
         NEW pc, stack' = At(pc, 0)
  PROVE  OInv'
<1> DEFINE F   == Flushes(next_timestamp) \union Queries
           f   == [Top EXCEPT !.pc = pc, !.pivot = 0]
           len == Len(stack)
           now == next_timestamp'
           new == stack'
<1>1. /\ stack \in Seq(F) /\ len \in Nat \ {0} /\ Top = stack[len] /\ Top \in F
  BY TopFacts DEF OInv
<1>2. f.fn = Top.fn /\ f.id = Top.id /\ f.arg = Top.arg
  BY <1>1, GoesOn
<1> HIDE DEF f
<1>3. stack \in Seq(F \union {f})
  BY <1>1, WiderSeq
<1>4. new = Append(Front(stack), f)
  BY DEF At, f
<1>5. /\ Len(new) = len /\ new[len] = f /\ \A i \in 1 .. len - 1 : new[i] = stack[i]
  BY <1>3, <1>4, Replaced
<1>6. \A i \in 1 .. Len(new) : /\ new[i] \in Flushes(now) \union Queries
                               /\ new[i].id \in DOMAIN node'
  <2>1. FramesOK(new, node', root', returned', call', now)
    BY DEF IInv
  <2> HIDE DEF new, now
  <2>2. new \in Seq(Flushes(now) \union Queries)
        /\ \A i \in 1 .. Len(new) : new[i].id \in DOMAIN node'
    BY <2>1 DEF FramesOK, FrameOK
  <2> QED BY <2>2
<1>7. /\ r \in [DOMAIN node -> Int] /\ DOMAIN s = DOMAIN node'
      /\ \A i \in DOMAIN s : s[i] \in Int /\ r[i] <= s[i]
  BY DEF Ordered, LimitsOK
<1> HIDE DEF new, now
<1>8. \A i \in 1 .. Len(new) :
         /\ new[i] \in Flushes(now) \union Queries /\ new[i].id \in DOMAIN s
         /\ new[i].fn = stack[i].fn /\ new[i].id = stack[i].id /\ new[i].arg = stack[i].arg
         /\ i < len => new[i].pivot = stack[i].pivot
         /\ ~(i > len)
  <2> SUFFICES ASSUME NEW i \in 1 .. len
               PROVE  /\ new[i].fn = stack[i].fn /\ new[i].id = stack[i].id
                      /\ new[i].arg = stack[i].arg
                      /\ i < len => new[i].pivot = stack[i].pivot
                      /\ ~(i > len)
    BY <1>5, <1>6, <1>7
  <2>1. CASE i = len
    BY <1>1, <1>2, <1>5, <2>1
  <2>2. CASE i \in 1 .. len - 1
    BY <1>5, <2>2
  <2> QED BY <1>1, <2>1, <2>2
<1>9. ArgsOK(s, new)
  <2>1. Len(stack) \in Nat /\ Len(new) \in Nat /\ DOMAIN s \subseteq DOMAIN node
    BY <1>1, <1>5, <1>7
  <2> QED BY <1>7, <1>8, <2>1, ArgsStep
<1> QED BY <1>9, OrderedGives DEF new

\* The running activation calls one of a child, which has room for what it is sent.
LEMMA DownOrder ==
  ASSUME OInv, stack # << >>, IInv', returned' = EmptyMap, root' = root,
         NEW r, LimitsOK(r, node), ArgsOK(r, stack),
         NEW s, Ordered(s, node', root), DOMAIN node' \subseteq DOMAIN node,
         \A i \in DOMAIN node' : r[i] <= s[i],
         NEW pc, NEW pivot, NEW id, NEW arg,
         stack' = Append(At(pc, pivot), Activation(Top.fn, id, arg)),
         Top.fn = "flush" => \A m \in arg : m.key <= s[id] /\ pivot <= m.key
  PROVE  OInv'
<1> DEFINE F   == Flushes(next_timestamp) \union Queries
           f   == [Top EXCEPT !.pc = pc, !.pivot = pivot]
           g   == Activation(Top.fn, id, arg)
           len == Len(stack)
           now == next_timestamp'
           new == stack'
           all == F \union {f, g}
<1>1. /\ stack \in Seq(F) /\ len \in Nat \ {0} /\ Top = stack[len] /\ Top \in F
  BY TopFacts DEF OInv
<1>2. f.fn = Top.fn /\ f.id = Top.id /\ f.arg = Top.arg /\ f.pivot = pivot
  BY <1>1, GoesOn
<1>3. g.fn = Top.fn /\ g.id = id /\ g.arg = arg
  BY DEF Activation
<1>4. new = Append(Append(Front(stack), f), g)
  BY DEF At
<1> HIDE DEF f, g
<1>5. stack \in Seq(all) /\ f \in all /\ g \in all
  BY <1>1, WiderSeq
<1> HIDE DEF all
<1>6. /\ Len(new) = len + 1 /\ new[len] = f /\ new[len + 1] = g
      /\ \A i \in 1 .. len - 1 : new[i] = stack[i]
  <2> DEFINE frames == Append(Front(stack), f)
  <2>1. /\ frames \in Seq(all) /\ Len(frames) = len /\ frames[len] = f
        /\ \A i \in 1 .. len - 1 : frames[i] = stack[i]
    BY <1>5, Replaced
  <2> HIDE DEF frames
  <2>2. /\ Len(Append(frames, g)) = Len(frames) + 1 /\ Append(frames, g)[Len(frames) + 1] = g
        /\ \A i \in 1 .. Len(frames) : Append(frames, g)[i] = frames[i]
    BY <1>5, <2>1, Pushed
  <2>3. new = Append(frames, g)
    BY <1>4 DEF frames
  <2> QED BY <1>1, <2>1, <2>2, <2>3
<1>7. \A i \in 1 .. Len(new) : /\ new[i] \in Flushes(now) \union Queries
                               /\ new[i].id \in DOMAIN node'
  <2>1. FramesOK(new, node', root', returned', call', now)
    BY DEF IInv
  <2> HIDE DEF new, now
  <2>2. new \in Seq(Flushes(now) \union Queries)
        /\ \A i \in 1 .. Len(new) : new[i].id \in DOMAIN node'
    BY <2>1 DEF FramesOK, FrameOK
  <2> QED BY <2>2
<1>8. /\ r \in [DOMAIN node -> Int] /\ DOMAIN s = DOMAIN node'
      /\ \A i \in DOMAIN s : s[i] \in Int /\ r[i] <= s[i]
  BY DEF Ordered, LimitsOK
<1> HIDE DEF new, now
<1>9. \A i \in 1 .. Len(new) :
         /\ new[i] \in Flushes(now) \union Queries /\ new[i].id \in DOMAIN s
         /\ i <= len => new[i].fn = stack[i].fn /\ new[i].id = stack[i].id
                        /\ new[i].arg = stack[i].arg
         /\ i < len /\ i < Len(new) => new[i].pivot = stack[i].pivot
         /\ i > len /\ new[i].fn = "flush" =>
               \A m \in new[i].arg : m.key <= s[new[i].id]
                                     /\ (i > 1 => new[i - 1].pivot <= m.key)
  <2> SUFFICES ASSUME NEW i \in 1 .. len + 1
               PROVE  /\ i <= len => new[i].fn = stack[i].fn /\ new[i].id = stack[i].id
                                     /\ new[i].arg = stack[i].arg
                      /\ i < len => new[i].pivot = stack[i].pivot
                      /\ i > len /\ new[i].fn = "flush" =>
                            \A m \in new[i].arg : m.key <= s[new[i].id]
                                                  /\ (i > 1 => new[i - 1].pivot <= m.key)
    BY <1>6, <1>7, <1>8
  <2>1. CASE i = len
    BY <1>1, <1>2, <1>6, <2>1
  <2>2. CASE i \in 1 .. len - 1
    BY <1>1, <1>6, <2>2
  <2>3. CASE i = len + 1
    <3>1. new[i] = g /\ new[i - 1] = f /\ ~(i <= len)
      BY <1>1, <1>6, <2>3
    <3> QED BY <1>2, <1>3, <3>1
  <2> QED BY <1>1, <2>1, <2>2, <2>3
<1>10. ArgsOK(s, new)
  <2>1. Len(stack) \in Nat /\ Len(new) \in Nat /\ DOMAIN s \subseteq DOMAIN node
    BY <1>1, <1>6, <1>8
  <2> QED BY <1>8, <1>9, <2>1, ArgsStep
<1> QED BY <1>10, OrderedGives DEF new

\* A leaf takes the messages and may be split.
LEMMA FlushLeafOrder ==
  ASSUME OInv, FlushLeaf
  PROVE  OInv'
<1> DEFINE es      == ApplyAll(Current.elements, Top.arg, TRUE)
           applied == [Current EXCEPT !.elements = ApplyAll(@, Top.arg, TRUE)]
           splits  == Cardinality(applied.elements) >= MaxMessages
<1>1. stack # << >> /\ Top.fn = "flush" /\ Top.pc = "enter" /\ IsLeaf(Current)
      /\ Finish(applied, splits) /\ IInv
  BY DEF FlushLeaf, Running, OInv
<1>2. /\ Top \in Flushes(next_timestamp) \union Queries
      /\ NodeOK(Current, DOMAIN node, next_timestamp)
      /\ returned = EmptyMap
      /\ Top.id \in PinnedBy(stack) /\ PinnedBy(stack) \subseteq Cache!Resident(cache)
  <2>1. Top.id \in PinnedBy(stack)
    BY <1>1, TopFacts DEF PinnedBy
  <2> QED BY <1>1, <2>1, TopFacts
<1>3. /\ Current.elements \in Buffer(next_timestamp) /\ Inserts(Current.elements)
      /\ Top.arg \in Buffer(next_timestamp)
  BY <1>1, <1>2 DEF NodeOK, Flushes, Queries
<1>4. /\ es \in Buffer(next_timestamp) /\ Inserts(es)
      /\ \A e \in es : \E x \in Current.elements \union Top.arg : x.key = e.key
  <2> DEFINE leaf == TRUE
             old  == Current.elements
             sent == Top.arg
             now  == next_timestamp
  <2>1. leaf \in BOOLEAN /\ old \in Buffer(now) /\ sent \in Buffer(now) /\ (leaf => Inserts(old))
    BY <1>3
  <2>2. leaf
    OBVIOUS
  <2> HIDE DEF leaf, old, sent, now
  <2>3. /\ ApplyAll(old, sent, leaf) \in Buffer(now)
        /\ leaf => Inserts(ApplyAll(old, sent, leaf))
        /\ \A e \in ApplyAll(old, sent, leaf) : \E x \in old \union sent : x.key = e.key
    BY <2>1, ApplyAllKeeps
  <2> QED BY <2>2, <2>3 DEF leaf, old, sent, now
<1>5. applied = [Current EXCEPT !.elements = es]
  OBVIOUS
<1> HIDE DEF es, applied
<1>6. /\ NodeOK(applied, DOMAIN node, next_timestamp)
      /\ applied.pivots = Current.pivots /\ applied.elements = es
  BY <1>2, <1>4, <1>5, ElementsOK
<1>7. /\ KeysOf(applied) \subseteq KeysOf(Current) \union {m.key : m \in Top.arg}
      /\ Settled(applied) \subseteq Settled(Current) \union {m.key : m \in Top.arg}
  <2>1. IsLeaf(applied)
    BY <1>1, <1>6 DEF IsLeaf
  <2> QED BY <1>1, <1>4, <1>6, <2>1 DEF KeysOf, Settled
<1>8. ASSUME splits PROVE applied.elements # {}
  <2>1. SUFFICES ASSUME applied.elements = {} PROVE FALSE
    OBVIOUS
  <2>2. Cardinality(applied.elements) = 0
    BY <2>1, FS_EmptySet
  <2>3. cache.members[Top.id].max_pivots \in 0 .. NodeSize - 1
    BY <1>1, <1>2 DEF IInv, CacheOK
  <2> QED BY <1>8, <2>2, <2>3, SizeAssumption DEF MaxMessages, MaxPivots
<1>9. splits \in BOOLEAN
  OBVIOUS
<1> HIDE DEF splits
<1> QED BY <1>1, <1>2, <1>6, <1>7, <1>8, <1>9, FinishOrder

\* The end of the loop, with a split when there are too many pivots ...
LEMMA FlushDoneOrder ==
  ASSUME OInv, FlushDone
  PROVE  OInv'
<1> DEFINE splits == Cardinality(DOMAIN Current.pivots) > MaxPivots
<1>1. /\ stack # << >> /\ Top.fn = "flush" /\ Top.pc = "loop" /\ IInv
      /\ Finish(Current, splits)
  BY DEF FlushDone, Running, OInv
<1>2. /\ NodeOK(Current, DOMAIN node, next_timestamp) /\ FrameOK(Top, node)
      /\ returned = EmptyMap
  BY <1>1, TopFacts
<1>3. ~IsLeaf(Current)
  BY <1>1, <1>2 DEF FrameOK, Current
<1>4. splits \in BOOLEAN
  OBVIOUS
<1> HIDE DEF splits
<1> QED BY <1>1, <1>2, <1>3, <1>4, FinishOrder

\* ... and the end of the shortcut, without one.
LEMMA DirectDoneOrder ==
  ASSUME OInv, DirectDone
  PROVE  OInv'
<1>1. /\ stack # << >> /\ Top.fn = "flush" /\ Top.pc = "end" /\ IInv
      /\ Finish(Current, FALSE)
  BY DEF DirectDone, Running, OInv
<1>2. NodeOK(Current, DOMAIN node, next_timestamp) /\ returned = EmptyMap
  BY <1>1, TopFacts
<1> QED BY <1>1, <1>2, FinishOrder

\* The flush() of a child has returned.
LEMMA ChildOrder ==
  ASSUME OInv, stack # << >>, Top.fn = "flush", Top.pc \in {"direct", "batch"},
         NEW n, NodeOK(n, DOMAIN node, next_timestamp), n.pivots = Current.pivots,
         n.elements \subseteq Current.elements, ChildReturned(n, Top.pivot),
         NEW pc \in {"end", "loop"}, stack' = At(pc, 0), returned' = EmptyMap,
         UNCHANGED <<root, next_id, next_timestamp, call>>
  PROVE  OInv'
<1>1. IInv /\ IInv' /\ root' = root
  BY ChildKeeps DEF OInv
<1>2. /\ NodesOK(node, root, returned, next_id, next_timestamp)
      /\ OwnersOK(node, root, returned)
      /\ Top.id \in DOMAIN node /\ Len(stack) \in Nat \ {0} /\ Top = stack[Len(stack)]
  BY <1>1, TopFacts DEF IInv, FrameOK
<1>3. CASE returned = EmptyMap
  <2>1. PICK r : Ordered(r, node, root) /\ ArgsOK(r, stack)
    BY <1>3, OrderedIs
  <2>2. node' = [node EXCEPT ![Top.id] = n]
    BY <1>3 DEF ChildReturned
  <2>3. /\ DOMAIN node' = DOMAIN node /\ node'[Top.id] = n
        /\ \A i \in DOMAIN node : i # Top.id => node'[i] = node[i]
    BY <1>2, <2>2
  <2>4. Moves(n, node[Top.id])
    <3>1. DOMAIN Current.pivots \subseteq Int
      BY <1>2, KeysAssumption DEF NodesOK, NodeOK, Current
    <3> QED BY <3>1, MovesNothing DEF Current
  <2>5. Ordered(r, node', root)
    <3> DEFINE keys == {}
    <3>1. keys \in SUBSET Int /\ \A k \in keys : FALSE
      OBVIOUS
    <3>2. /\ KeysOf(n) \subseteq KeysOf(node[Top.id]) \union keys
          /\ Settled(n) \subseteq Settled(node[Top.id]) \union keys
      BY DEF KeysOf, Settled, IsLeaf, Current
    <3>3. NodesOK(node, root, EmptyMap, next_id, next_timestamp)
      BY <1>2, <1>3
    <3> HIDE DEF keys
    <3> QED BY <1>2, <2>1, <2>3, <2>4, <3>1, <3>2, <3>3, OrderStep
  <2>6. LimitsOK(r, node) /\ \A i \in DOMAIN node : r[i] <= r[i]
    BY <2>1 DEF Ordered, LimitsOK
  <2> QED BY <1>1, <2>1, <2>3, <2>5, <2>6, StayOrder
<1>4. CASE returned # EmptyMap
  <2>1. /\ Merges(node, Top.id, Top.pivot, returned, node', next_timestamp)
        /\ node'[Top.id].elements = n.elements
        /\ Emptied(stack, node, root, returned) = {node[Top.id].pivots[Top.pivot]}
    BY <1>1, <1>4, ChildMerges
  <2>2. PICK r : /\ LimitsOK(r, node) /\ ArgsOK(r, stack)
                 /\ PartsOK(r, node, returned, {node[Top.id].pivots[Top.pivot]})
    BY <2>1 DEF OInv
  <2>3. /\ OwnedOK(node, root, returned) /\ AboveOK(node)
        /\ \A a \in DOMAIN returned : Top.pivot <= a
    BY <1>2, <1>4 DEF OInv, ReturnOK
  <2>4. node'[Top.id].elements \subseteq node[Top.id].elements
    BY <2>1 DEF Current
  <2>5. PICK s : Ordered(s, node', root) /\ \A i \in DOMAIN node' : s[i] = r[i]
    <3> DEFINE more == node'
               id   == Top.id
               p    == Top.pivot
               now  == next_timestamp
    <3>1. /\ Merges(node, id, p, returned, more, now)
          /\ more[id].elements \subseteq node[id].elements
          /\ PartsOK(r, node, returned, {node[id].pivots[p]})
          /\ \A a \in DOMAIN returned : p <= a
          /\ NodesOK(node, root, returned, next_id, now)
      BY <1>2, <2>1, <2>2, <2>3, <2>4
    <3> HIDE DEF more, id, p, now
    <3>2. MergeLimits(r, more, root)
      <4>1. NodesOK(node, root, returned, next_id, now) /\ OwnersOK(node, root, returned)
        BY <1>2, <3>1
      <4>2. OwnedOK(node, root, returned) /\ AboveOK(node) /\ LimitsOK(r, node) /\ returned # EmptyMap
        BY <1>4, <2>2, <2>3
      <4> QED BY <3>1, <4>1, <4>2, OrderMerge
    <3> QED BY <3>2 DEF more, MergeLimits
  <2>6. DOMAIN node' \subseteq DOMAIN node /\ \A i \in DOMAIN node' : r[i] <= s[i]
    <3>1. DOMAIN node' \subseteq DOMAIN node
      BY <2>1 DEF Merges
    <3> QED BY <2>2, <2>5, <3>1 DEF LimitsOK
  <2> QED BY <1>1, <2>2, <2>5, <2>6, StayOrder
<1> QED BY <1>3, <1>4

\* Back from the shortcut ...
LEMMA DirectReturnedOrder ==
  ASSUME OInv, DirectReturned
  PROVE  OInv'
<1>1. /\ stack # << >> /\ Top.fn = "flush" /\ Top.pc = "direct" /\ IInv
      /\ ChildReturned(Current, Top.pivot)
      /\ stack' = At("end", 0) /\ returned' = EmptyMap
      /\ UNCHANGED <<root, next_id, next_timestamp, call>>
  BY DEF DirectReturned, Running, OInv
<1>2. NodeOK(Current, DOMAIN node, next_timestamp)
  BY <1>1, TopFacts
<1>3. "end" \in {"end", "loop"} /\ Top.pc \in {"direct", "batch"}
  BY <1>1
<1> QED BY <1>1, <1>2, <1>3, ChildOrder

\* ... and from a batch, which is erased.
LEMMA BatchReturnedOrder ==
  ASSUME OInv, BatchReturned
  PROVE  OInv'
<1> DEFINE es == Current.elements \ Batch(Current, Top.pivot)
           n  == [Current EXCEPT !.elements = es]
<1>1. /\ stack # << >> /\ Top.fn = "flush" /\ Top.pc = "batch" /\ IInv
      /\ ChildReturned(n, Top.pivot)
      /\ stack' = At("loop", 0) /\ returned' = EmptyMap
      /\ UNCHANGED <<root, next_id, next_timestamp, call>>
  BY DEF BatchReturned, Running, OInv
<1>2. NodeOK(Current, DOMAIN node, next_timestamp) /\ FrameOK(Top, node)
  BY <1>1, TopFacts
<1>3. es \in Buffer(next_timestamp) /\ es \subseteq Current.elements
  BY <1>2, FS_Subset DEF NodeOK, Buffer
<1>4. ~IsLeaf(Current)
  BY <1>1, <1>2 DEF FrameOK, IsLeaf, Current
<1> HIDE DEF es
<1>5. NodeOK(n, DOMAIN node, next_timestamp) /\ n.pivots = Current.pivots /\ n.elements = es
  BY <1>2, <1>3, <1>4, ElementsOK
<1> HIDE DEF n
<1>6. "loop" \in {"end", "loop"} /\ Top.pc \in {"direct", "batch"}
  BY <1>1
<1> QED BY <1>1, <1>3, <1>5, <1>6, ChildOrder

\* get_pivot finds the pivot that a key lies between with the next one.
LEMMA GetPivotIs ==
  ASSUME NEW n, NEW ids, NEW now, NodeOK(n, ids, now), ~IsLeaf(n), NEW k \in Int,
         FirstPivot(n) <= k
  PROVE  /\ GetPivot(n, k) \in DOMAIN n.pivots /\ GetPivot(n, k) <= k
         /\ \A q \in NextPivots(n, GetPivot(n, k)) : k < q
<1> DEFINE below == {p \in DOMAIN n.pivots : p <= k}
           pivot == GetPivot(n, k)
<1>1. DOMAIN n.pivots \in SUBSET Int /\ IsFiniteSet(DOMAIN n.pivots)
  BY KeysAssumption, FS_Subset DEF NodeOK
<1>2. FirstPivot(n) \in DOMAIN n.pivots
  BY PivotFacts
<1>3. below \in SUBSET Int /\ IsFiniteSet(below) /\ below # {}
  BY <1>1, <1>2, FS_Subset
<1>4. pivot = Max(below)
  BY DEF GetPivot
<1>5. \A q \in DOMAIN n.pivots : q \in below <=> q <= k
  OBVIOUS
<1>6. below \subseteq DOMAIN n.pivots
  OBVIOUS
<1> HIDE DEF below, pivot
<1>7. pivot \in below /\ \A q \in below : q <= pivot
  BY <1>3, <1>4, FiniteMaxMin
<1>8. pivot \in DOMAIN n.pivots /\ pivot <= k
  BY <1>5, <1>6, <1>7
<1>9. \A q \in DOMAIN n.pivots : q > pivot => k < q
  BY <1>1, <1>5, <1>7, <1>8
<1> QED BY <1>8, <1>9 DEF NextPivots, pivot

\* r is n with room before its first child for the keys.
Lowered(r, n, keys) ==
    /\ ~IsLeaf(r) /\ r.elements = n.elements /\ Moves(r, n)
    /\ DOMAIN r.pivots \subseteq DOMAIN n.pivots \union keys
    /\ Min(keys) \in keys /\ Max(keys) \in keys
    /\ \A k \in keys : k \in Int /\ Min(keys) <= k /\ k <= Max(keys)
    /\ FirstPivot(r) <= Min(keys)

\* Lowering the key of the first child only adds the key that it is lowered to.
LEMMA RekeyedMoves ==
  ASSUME NEW n, NEW ids, NEW now, NodeOK(n, ids, now), ~IsLeaf(n),
         NEW batch \in Buffer(now), batch # {}
  PROVE  /\ NodeOK(Rekeyed(n, batch), ids, now)
         /\ Lowered(Rekeyed(n, batch), n, {m.key : m \in batch})
<1> DEFINE r     == Rekeyed(n, batch)
           keys  == {m.key : m \in batch}
           low   == Min(keys)
           first == FirstPivot(n)
           own   == n.pivots
<1>1. /\ NodeOK(r, ids, now) /\ ~IsLeaf(r) /\ r.elements = n.elements
  BY RekeyedOK
<1>2. /\ low \in keys /\ Max(keys) \in keys
      /\ \A k \in keys : k \in Int /\ low <= k /\ k <= Max(keys)
  <2>1. keys \in SUBSET Keys /\ keys # {}
    BY DEF Buffer, Message
  <2> HIDE DEF keys
  <2>2. IsFiniteSet(keys) /\ keys \in SUBSET Int
    BY <2>1, KeysAssumption, FS_Subset
  <2> QED BY <2>1, <2>2, FiniteMaxMin
<1>3. first \in DOMAIN own /\ \A p \in DOMAIN own : p \in Int /\ first <= p
  BY PivotFacts
<1>4. r = IF low < first THEN [n EXCEPT !.pivots = Replace(own, first, [k \in {low} |-> own[first]])]
                         ELSE n
  BY DEF Rekeyed
<1>5. low \in Int
  BY <1>2
<1> HIDE DEF r, low, first, keys
<1>6. CASE low < first
  <2> DEFINE moved == Replace(own, first, [k \in {low} |-> own[first]])
             o     == [k \in DOMAIN moved |-> IF k = low THEN first ELSE k]
  <2>1. r.pivots = moved
    BY <1>4, <1>6 DEF NodeOK
  <2>2. /\ DOMAIN moved = (DOMAIN own \ {first}) \union {low}
        /\ moved[low] = own[first]
        /\ \A k \in DOMAIN own : k # first => moved[k] = own[k]
    BY <1>3, <1>5, <1>6 DEF Replace
  <2> HIDE DEF moved
  <2>3. low \notin DOMAIN own
    BY <1>3, <1>5, <1>6
  <2>4. /\ o \in [DOMAIN moved -> DOMAIN own]
        /\ o[low] = first /\ \A k \in DOMAIN own : k # first => o[k] = k
    BY <1>3, <2>2, <2>3
  <2> HIDE DEF o, own
  <2>5. ASSUME NEW p \in DOMAIN moved
        PROVE  p <= o[p] /\ moved[p] = own[o[p]] /\ \A q \in DOMAIN moved : q > p => q > o[p] /\ q \in DOMAIN own
    <3>1. CASE p = low
      <4>1. \A q \in DOMAIN moved : q > p => q > first /\ q \in DOMAIN own
        BY <1>3, <1>5, <2>2, <3>1
      <4> QED BY <1>3, <1>5, <1>6, <2>2, <2>4, <3>1, <4>1
    <3>2. CASE p \in DOMAIN own /\ p # first
      <4>1. \A q \in DOMAIN moved : q > p => q \in DOMAIN own
        BY <1>3, <1>5, <1>6, <2>2, <3>2
      <4> QED BY <1>3, <2>2, <2>4, <3>2, <4>1
    <3> QED BY <2>2, <3>1, <3>2
  <2>6. ASSUME NEW q \in DOMAIN own PROVE \E p \in DOMAIN moved : o[p] = q
    BY <2>2, <2>4
  <2>7. Moves(r, n)
    BY <2>1, <2>4, <2>5, <2>6 DEF Moves, NextPivots, own
  <2>8. low \in DOMAIN r.pivots
    BY <2>1, <2>2
  <2>9. FirstPivot(r) <= low
    BY <1>1, <2>8, PivotFacts
  <2>10. DOMAIN r.pivots \subseteq DOMAIN own \union keys
    BY <1>2, <2>1, <2>2
  <2> QED BY <1>1, <1>2, <2>7, <2>9, <2>10 DEF Lowered, r, low, keys, own
<1>7. CASE ~(low < first)
  <2>1. r = n
    BY <1>4, <1>7
  <2>2. first <= low
    BY <1>3, <1>5, <1>7
  <2>3. Moves(n, n)
    BY <1>3, MovesNothing
  <2> QED BY <1>1, <1>2, <2>1, <2>2, <2>3 DEF Lowered, r, low, keys, first
<1> QED BY <1>6, <1>7

\* The shortcut: what is sent on lies between the pivot of the child and the next one.
LEMMA FlushDirectOrder ==
  ASSUME OInv, FlushDirect
  PROVE  OInv'
<1> DEFINE n    == Rekeyed(Current, Top.arg)
           keys == {m.key : m \in Top.arg}
           hi   == Max(keys)
           p    == GetPivot(n, Min(keys))
           c    == n.pivots[p]
           now  == next_timestamp
<1>1. /\ stack # << >> /\ Top.fn = "flush" /\ Top.pc = "enter" /\ ~IsLeaf(Current)
      /\ node' = [node EXCEPT ![Top.id] = n]
      /\ p = GetPivot(n, hi)
      /\ stack' = Append(At("direct", p), Activation("flush", c, Top.arg))
      /\ UNCHANGED <<root, next_id, next_timestamp, returned>>
  BY DEF FlushDirect, Running, Call, GoesDirect
<1>2. /\ IInv /\ IInv' /\ Top.id \in DOMAIN node
      /\ NodeOK(Current, DOMAIN node, now) /\ returned = EmptyMap
      /\ NodesOK(node, root, EmptyMap, next_id, now)
  <2>1. IInv /\ IInv'
    BY FlushDirectKeeps DEF OInv
  <2>2. NodeOK(Current, DOMAIN node, now) /\ returned = EmptyMap /\ Top.id \in DOMAIN node
    BY <1>1, <2>1, TopFacts DEF FrameOK
  <2> QED BY <2>1, <2>2 DEF IInv
<1>3. PICK r : Ordered(r, node, root) /\ ArgsOK(r, stack)
  BY <1>2, OrderedIs
<1>4. /\ Top.arg \in Buffer(now) /\ Top.arg # {}
      /\ \A k \in keys : k \in Int /\ k <= r[Top.id]
      /\ \A a \in DOMAIN node : \A q \in DOMAIN node[a].pivots :
            node[a].pivots[q] = Top.id => \A k \in keys : q <= k
  BY <1>1, <1>2, <1>3, ArgFits
<1>5. /\ NodeOK(n, DOMAIN node, now) /\ ~IsLeaf(n) /\ n.elements = Current.elements
      /\ Moves(n, Current)
      /\ DOMAIN n.pivots \subseteq DOMAIN Current.pivots \union keys
      /\ Min(keys) \in keys /\ hi \in keys
      /\ \A k \in keys : k \in Int /\ Min(keys) <= k /\ k <= hi
      /\ FirstPivot(n) <= Min(keys)
  <2>1. NodeOK(n, DOMAIN node, now) /\ Lowered(n, Current, keys)
    BY <1>1, <1>2, <1>4, RekeyedMoves
  <2> QED BY <2>1 DEF Lowered
<1> HIDE DEF n, hi
<1>6. /\ p \in DOMAIN n.pivots /\ p \in Int /\ c \in DOMAIN node
      /\ \A k \in keys : p <= k
      /\ \A q \in NextPivots(n, p) : hi < q
  <2>1. p \in DOMAIN n.pivots /\ p <= Min(keys) /\ Min(keys) \in Int /\ hi \in Int
    BY <1>5, GetPivotIs
  <2>2. FirstPivot(n) \in Int /\ FirstPivot(n) <= hi
    <3>1. FirstPivot(n) \in Int
      BY <1>5, PivotFacts
    <3> QED BY <1>5, <2>1, <3>1
  <2>3. \A q \in NextPivots(n, p) : hi < q
    BY <1>1, <1>5, <2>1, <2>2, GetPivotIs
  <2>4. p \in Int /\ c \in DOMAIN node
    BY <1>5, <2>1, KeysAssumption DEF NodeOK
  <2>5. \A k \in keys : p <= k
    <3> DEFINE low == Min(keys)
    <3>1. low \in Int /\ p <= low /\ \A k \in keys : k \in Int /\ low <= k
      BY <1>5, <2>1
    <3> HIDE DEF low, p
    <3> QED BY <2>4, <3>1
  <2> QED BY <2>1, <2>3, <2>4, <2>5
<1> HIDE DEF p, c
<1>7. /\ DOMAIN node' = DOMAIN node /\ node'[Top.id] = n
      /\ \A i \in DOMAIN node : i # Top.id => node'[i] = node[i]
  BY <1>1, <1>2
<1>8. Ordered(r, node', root)
  <2>1. /\ KeysOf(n) \subseteq KeysOf(node[Top.id]) \union keys
        /\ Settled(n) \subseteq Settled(node[Top.id]) \union keys
    BY <1>1, <1>5 DEF KeysOf, Settled, Current
  <2>2. keys \in SUBSET Int /\ \A k \in keys : k <= r[Top.id]
    BY <1>4
  <2>3. Moves(n, node[Top.id])
    BY <1>5 DEF Current
  <2> HIDE DEF keys, now
  <2> QED BY <1>2, <1>3, <1>4, <1>5, <1>7, <2>1, <2>2, <2>3, OrderStep
<1>9. PICK s : /\ Ordered(s, node', root) /\ hi <= s[c] /\ \A i \in DOMAIN node' : r[i] <= s[i]
  <2>1. NodesOK(node', root, EmptyMap, next_id, now) /\ OwnersOK(node', root, EmptyMap)
    BY <1>1, <1>2 DEF IInv
  <2>2. hi \in Int /\ hi <= r[Top.id]
    BY <1>4, <1>5
  <2> DEFINE more == node'
             id   == Top.id
  <2> HIDE DEF more, id
  <2>3. /\ NodesOK(more, root, EmptyMap, next_id, now) /\ OwnersOK(more, root, EmptyMap)
        /\ Ordered(r, more, root)
        /\ id \in DOMAIN more /\ p \in DOMAIN more[id].pivots
        /\ hi <= r[id] /\ \A q \in NextPivots(more[id], p) : hi < q
    BY <1>2, <1>6, <1>7, <1>8, <2>1, <2>2 DEF more, id
  <2>4. Raised(r, more, root, more[id].pivots[p], hi)
    BY <2>2, <2>3, RoomBelow
  <2>5. more[id].pivots[p] = c
    BY <1>7 DEF c, more, id
  <2> QED BY <2>4, <2>5 DEF Raised, more
<1>10. \A m \in Top.arg : m.key <= s[c] /\ p <= m.key
  <2>1. s[c] \in Int
    BY <1>6, <1>7, <1>9 DEF Ordered, LimitsOK
  <2>2. \A k \in keys : k \in Int /\ k <= hi /\ p <= k /\ hi \in Int
    BY <1>5, <1>6
  <2> QED BY <1>9, <2>1, <2>2
<1>11. /\ LimitsOK(r, node) /\ ArgsOK(r, stack) /\ DOMAIN node' \subseteq DOMAIN node
       /\ returned' = EmptyMap /\ root' = root
  BY <1>1, <1>2, <1>3, <1>7 DEF Ordered
<1>12. stack' = Append(At("direct", p), Activation(Top.fn, c, Top.arg))
  BY <1>1
<1> QED BY <1>1, <1>2, <1>9, <1>10, <1>11, <1>12, DownOrder

\* The node buffers the messages.
LEMMA FlushBufferOrder ==
  ASSUME OInv, FlushBuffer
  PROVE  OInv'
<1> DEFINE n    == Rekeyed(Current, Top.arg)
           es   == ApplyAll(n.elements, Top.arg, FALSE)
           m    == [n EXCEPT !.elements = es]
           keys == {x.key : x \in Top.arg}
           now  == next_timestamp
<1>1. /\ stack # << >> /\ Top.fn = "flush" /\ Top.pc = "enter" /\ ~IsLeaf(Current)
      /\ node' = [node EXCEPT ![Top.id] = m]
      /\ stack' = At("loop", 0)
      /\ UNCHANGED <<root, next_id, next_timestamp, returned>>
  BY DEF FlushBuffer, Running
<1>2. /\ IInv /\ IInv' /\ Top.id \in DOMAIN node
      /\ NodeOK(Current, DOMAIN node, now) /\ returned = EmptyMap
      /\ NodesOK(node, root, EmptyMap, next_id, now)
  <2>1. IInv /\ IInv'
    BY FlushBufferKeeps DEF OInv
  <2>2. NodeOK(Current, DOMAIN node, now) /\ returned = EmptyMap /\ Top.id \in DOMAIN node
    BY <1>1, <2>1, TopFacts DEF FrameOK
  <2> QED BY <2>1, <2>2 DEF IInv
<1>3. PICK r : Ordered(r, node, root) /\ ArgsOK(r, stack)
  BY <1>2, OrderedIs
<1>4. /\ Top.arg \in Buffer(now) /\ Top.arg # {}
      /\ \A k \in keys : k \in Int /\ k <= r[Top.id]
      /\ \A a \in DOMAIN node : \A q \in DOMAIN node[a].pivots :
            node[a].pivots[q] = Top.id => \A k \in keys : q <= k
  BY <1>1, <1>2, <1>3, ArgFits
<1>5. /\ NodeOK(n, DOMAIN node, now) /\ ~IsLeaf(n) /\ n.elements = Current.elements
      /\ Moves(n, Current)
      /\ DOMAIN n.pivots \subseteq DOMAIN Current.pivots \union keys
  <2>1. NodeOK(n, DOMAIN node, now) /\ Lowered(n, Current, keys)
    BY <1>1, <1>2, <1>4, RekeyedMoves
  <2> QED BY <2>1 DEF Lowered
<1> HIDE DEF n
<1>6. /\ es \in Buffer(now)
      /\ \A e \in es : e.key \in {x.key : x \in n.elements} \union keys
  <2> DEFINE leaf == FALSE
             old  == n.elements
             sent == Top.arg
  <2>1. leaf \in BOOLEAN /\ old \in Buffer(now) /\ sent \in Buffer(now) /\ (leaf => Inserts(old))
    BY <1>4, <1>5 DEF NodeOK
  <2> HIDE DEF leaf, old, sent, now
  <2>2. /\ ApplyAll(old, sent, leaf) \in Buffer(now)
        /\ \A e \in ApplyAll(old, sent, leaf) : \E x \in old \union sent : x.key = e.key
    BY <2>1, ApplyAllKeeps
  <2> QED BY <2>2 DEF leaf, old, sent
<1> HIDE DEF es
<1>7. NodeOK(m, DOMAIN node, now) /\ m.pivots = n.pivots /\ m.elements = es
  BY <1>5, <1>6, ElementsOK
<1> HIDE DEF m
<1>8. /\ DOMAIN node' = DOMAIN node /\ node'[Top.id] = m
      /\ \A i \in DOMAIN node : i # Top.id => node'[i] = node[i]
  BY <1>1, <1>2
<1>9. Ordered(r, node', root)
  <2>1. /\ KeysOf(m) \subseteq KeysOf(node[Top.id]) \union keys
        /\ Settled(m) \subseteq Settled(node[Top.id]) \union keys
    <3>1. ~IsLeaf(m) /\ ~IsLeaf(node[Top.id])
      BY <1>1, <1>5, <1>7 DEF IsLeaf, Current
    <3> QED BY <1>5, <1>6, <1>7, <3>1 DEF KeysOf, Settled, Current
  <2>2. keys \in SUBSET Int /\ \A k \in keys : k <= r[Top.id]
    BY <1>4
  <2>3. Moves(m, node[Top.id])
    BY <1>5, <1>7 DEF Current, Moves, NextPivots
  <2> HIDE DEF keys, now
  <2> QED BY <1>2, <1>3, <1>4, <1>7, <1>8, <2>1, <2>2, <2>3, OrderStep
<1>10. /\ LimitsOK(r, node) /\ \A i \in DOMAIN node' : r[i] <= r[i]
       /\ returned' = EmptyMap /\ root' = root /\ DOMAIN node' \subseteq DOMAIN node
  BY <1>1, <1>2, <1>3, <1>8 DEF Ordered, LimitsOK
<1> QED BY <1>1, <1>2, <1>3, <1>9, <1>10, StayOrder

\* The child gets room for the batch.
LEMMA FlushBatchOrder ==
  ASSUME OInv, FlushBatch
  PROVE  OInv'
<1> DEFINE p     == Largest(Current)
           batch == Batch(Current, p)
           keys  == {m.key : m \in batch}
           hi    == Max(keys)
           now   == next_timestamp
<1>1. /\ stack # << >> /\ Top.fn = "flush" /\ Top.pc = "loop"
      /\ stack' = Append(At("batch", p), Activation("flush", Current.pivots[p], batch))
      /\ UNCHANGED <<node, root, next_id, next_timestamp, returned>>
      /\ Flushable(Current, p)
  BY DEF FlushBatch, Running, Call
<1>2. /\ IInv /\ IInv' /\ Top.id \in DOMAIN node
      /\ NodeOK(Current, DOMAIN node, now) /\ returned = EmptyMap
      /\ FrameOK(Top, node)
      /\ NodesOK(node, root, EmptyMap, next_id, now) /\ OwnersOK(node, root, EmptyMap)
  <2>1. IInv /\ IInv'
    BY FlushBatchKeeps DEF OInv
  <2>2. /\ NodeOK(Current, DOMAIN node, now) /\ returned = EmptyMap /\ Top.id \in DOMAIN node
        /\ FrameOK(Top, node)
    BY <1>1, <2>1, TopFacts DEF FrameOK
  <2> QED BY <2>1, <2>2 DEF IInv
<1>3. PICK r : Ordered(r, node, root) /\ ArgsOK(r, stack)
  BY <1>2, OrderedIs
<1>4. p \in DOMAIN Current.pivots /\ p \in Int
  <2>1. ~IsLeaf(Current)
    BY <1>1, <1>2 DEF FrameOK, Current
  <2>2. p \in DOMAIN Current.pivots
    BY <1>2, <2>1, LargestIn
  <2> HIDE DEF p
  <2> QED BY <1>2, <2>2, KeysAssumption DEF NodeOK
<1> HIDE DEF p
<1>5. \A k \in keys : k \in KeysOf(Current) /\ p <= k /\ \A q \in NextPivots(Current, p) : k < q
  <2>1. ASSUME NEW m \in batch
        PROVE  m \in Current.elements /\ m.key >= p /\ \A q \in NextPivots(Current, p) : m.key < q
    BY <2>1 DEF Batch
  <2> QED BY <2>1 DEF KeysOf
<1>6. keys # {} /\ keys \in SUBSET Int /\ IsFiniteSet(keys)
  <2>1. keys \subseteq KeysOf(Current)
    BY <1>5
  <2>2. batch # {}
    <3>1. SUFFICES ASSUME batch = {} PROVE FALSE
      OBVIOUS
    <3>2. BatchSize(Current, p) = 0
      BY <3>1, FS_EmptySet DEF BatchSize
    <3>3. MinFlush \in Nat /\ MinFlush \div 2 \in Nat
      BY SizeAssumption
    <3> QED BY <1>1, <3>2, <3>3 DEF Flushable
  <2> QED BY <1>2, <2>1, <2>2, KeysIn, FS_Subset
<1>7. hi \in keys /\ \A k \in keys : k <= hi
  <2> HIDE DEF keys
  <2> QED BY <1>6, FiniteMaxMin
<1> HIDE DEF hi
<1>8. /\ hi \in Int /\ hi <= r[Top.id] /\ \A q \in NextPivots(Current, p) : hi < q
  BY <1>2, <1>3, <1>5, <1>6, <1>7 DEF Ordered, LimitsOK, Current
<1> HIDE DEF keys
<1>9. PICK s : /\ Ordered(s, node, root) /\ hi <= s[Current.pivots[p]]
               /\ \A i \in DOMAIN node : r[i] <= s[i]
  <2> DEFINE id == Top.id
  <2>1. Current = node[id] /\ id \in DOMAIN node /\ hi <= r[id]
    BY <1>2, <1>8 DEF Current
  <2> HIDE DEF id, now
  <2>2. p \in DOMAIN node[id].pivots /\ \A q \in NextPivots(node[id], p) : hi < q
    BY <1>4, <1>8, <2>1
  <2>3. Raised(r, node, root, node[id].pivots[p], hi)
    BY <1>2, <1>3, <1>8, <2>1, <2>2, RoomBelow
  <2> QED BY <2>1, <2>3 DEF Raised
<1>10. \A m \in batch : m.key <= s[Current.pivots[p]] /\ p <= m.key
  <2>1. s[Current.pivots[p]] \in Int
    <3>1. Current.pivots[p] \in DOMAIN node
      BY <1>2, <1>4 DEF NodeOK
    <3> QED BY <1>9, <3>1 DEF Ordered, LimitsOK
  <2>2. \A m \in batch : m.key \in keys
    BY DEF keys
  <2> DEFINE limit == s[Current.pivots[p]]
  <2> HIDE DEF limit, batch
  <2>3. \A k \in keys : k <= limit /\ p <= k
    <3> SUFFICES ASSUME NEW k \in keys PROVE k <= limit /\ p <= k
      OBVIOUS
    <3>1. k \in Int /\ k <= hi /\ p <= k
      BY <1>5, <1>6, <1>7
    <3>2. hi <= limit /\ limit \in Int /\ hi \in Int
      BY <1>8, <1>9, <2>1 DEF limit
    <3> QED BY <3>1, <3>2
  <2> QED BY <2>2, <2>3 DEF limit
<1> HIDE DEF batch
<1>11. /\ LimitsOK(r, node) /\ ArgsOK(r, stack) /\ DOMAIN node' \subseteq DOMAIN node
       /\ returned' = EmptyMap /\ root' = root
       /\ Ordered(s, node', root) /\ \A i \in DOMAIN node' : r[i] <= s[i]
  BY <1>1, <1>2, <1>3, <1>9 DEF Ordered
<1>12. stack' = Append(At("batch", p), Activation(Top.fn, Current.pivots[p], batch))
  BY <1>1
<1> QED BY <1>1, <1>2, <1>10, <1>11, <1>12, DownOrder

\* Queries leave the tree as it is.
LEMMA QueryDownOrder ==
  ASSUME OInv, QueryDown
  PROVE  OInv'
<1> DEFINE c == Current.pivots[GetPivot(Current, Top.arg)]
<1>1. /\ stack # << >> /\ Top.fn = "query" /\ Top.pc = "enter"
      /\ stack' = Append(At("below", 0), Activation("query", c, Top.arg))
      /\ UNCHANGED <<node, root, returned>>
  BY DEF QueryDown, Running, Call
<1>2. IInv /\ IInv' /\ returned = EmptyMap
  BY <1>1, QueryDownKeeps, TopFacts DEF OInv
<1>3. PICK r : Ordered(r, node, root) /\ ArgsOK(r, stack)
  BY <1>2, OrderedIs
<1> HIDE DEF c
<1>4. /\ LimitsOK(r, node) /\ ArgsOK(r, stack) /\ DOMAIN node' \subseteq DOMAIN node
      /\ returned' = EmptyMap /\ root' = root
      /\ Ordered(r, node', root) /\ \A i \in DOMAIN node' : r[i] <= r[i]
  BY <1>1, <1>2, <1>3 DEF Ordered, LimitsOK
<1>5. /\ stack' = Append(At("below", 0), Activation(Top.fn, c, Top.arg))
      /\ Top.fn # "flush"
  BY <1>1
<1> QED BY <1>1, <1>2, <1>4, <1>5, DownOrder

LEMMA QueryFoundOrder ==
  ASSUME OInv, QueryFound
  PROVE  OInv'
<1> DEFINE below == IF Top.pc = "below" THEN found ELSE None
           value == Eval(Current.elements, Top.arg, below)
<1>1. /\ stack # << >> /\ Top.fn = "query" /\ Top.pc \in {"enter", "below"}
      /\ UNCHANGED <<node, root, returned>>
      /\ stack' = At("adopt", 0) \/ QueryReturn(cache, value)
  BY DEF QueryFound, Running
<1>2. IInv /\ IInv' /\ returned = EmptyMap
  BY <1>1, QueryFoundKeeps, TopFacts DEF OInv
<1>3. PICK r : Ordered(r, node, root) /\ ArgsOK(r, stack)
  BY <1>2, OrderedIs
<1>4. /\ LimitsOK(r, node) /\ ArgsOK(r, stack) /\ DOMAIN node' \subseteq DOMAIN node
      /\ returned' = EmptyMap /\ root' = root
      /\ Ordered(r, node', root) /\ \A i \in DOMAIN node' : r[i] <= r[i]
  BY <1>1, <1>2, <1>3 DEF Ordered, LimitsOK
<1>5. CASE stack' = At("adopt", 0)
  BY <1>1, <1>2, <1>4, <1>5, StayOrder
<1>6. CASE QueryReturn(cache, value)
  <2>1. stack' = Front(stack)
    BY <1>6 DEF QueryReturn, Return
  <2>2. DOMAIN r = DOMAIN node
    BY <1>4 DEF LimitsOK
  <2>3. ArgsOK(r, stack')
    BY <1>1, <1>2, <1>4, <2>1, <2>2, ArgsPop
  <2> QED BY <1>2, <1>4, <2>3, OrderedGives
<1> QED BY <1>1, <1>5, <1>6

\* Between calls nothing is on its way to a node.
LEMMA NoArgs == \A r : ArgsOK(r, << >>)
  BY DEF ArgsOK

\* The end of an upsert, with a new root or without.
LEMMA UpsertReturnOrder ==
  ASSUME OInv, UpsertReturn
  PROVE  OInv'
<1>1. stack = << >> /\ stack' = << >> /\ returned' = EmptyMap
  BY DEF UpsertReturn
<1>2. IInv /\ IInv'
  BY UpsertReturnKeeps DEF OInv
<1>3. CASE returned = EmptyMap
  <2>1. PICK r : Ordered(r, node, root) /\ ArgsOK(r, stack)
    BY <1>3, OrderedIs
  <2>2. node' = node /\ root' = root
    BY <1>3 DEF UpsertReturn
  <2> QED BY <1>1, <1>2, <2>1, <2>2, OrderedGives
<1>4. CASE returned # EmptyMap
  <2>1. Grows(node, root, returned, next_id, node') /\ root' = next_id
    BY <1>2, <1>4, UpsertGrows DEF UpsertReturn
  <2>2. Emptied(stack, node, root, returned) = {root}
    BY <1>1, <1>4 DEF Emptied
  <2>3. PICK r : LimitsOK(r, node) /\ PartsOK(r, node, returned, {root})
    BY <2>2 DEF OInv
  <2> DEFINE more == node'
             now  == next_timestamp
  <2>4. /\ NodesOK(node, root, returned, next_id, now) /\ OwnersOK(node, root, returned)
        /\ OwnedOK(node, root, returned) /\ AboveOK(node)
    BY <1>2 DEF IInv, OInv
  <2>5. Grows(node, root, returned, next_id, more)
    BY <2>1
  <2> HIDE DEF more, now
  <2>6. \E s : Ordered(s, more, next_id)
    BY <1>4, <2>3, <2>4, <2>5, OrderGrow
  <2>7. PICK s : Ordered(s, node', root')
    BY <2>1, <2>6 DEF more
  <2> QED BY <1>1, <1>2, <2>7, NoArgs, OrderedGives
<1> QED BY <1>3, <1>4

\* A call gets its message, or its key, to the root, where all keys have room.
LEMMA FirstCallOrder ==
  ASSUME OInv, IInv', returned = EmptyMap, UNCHANGED <<node, root, returned>>,
         NEW fn, NEW arg, stack' = Append(<< >>, Activation(fn, root, arg)),
         NEW hi \in Int, fn = "flush" => \A m \in arg : m.key <= hi
  PROVE  OInv'
<1>1. PICK r : Ordered(r, node, root)
  BY OrderedIs
<1>2. NodesOK(node, root, EmptyMap, next_id, next_timestamp) /\ OwnersOK(node, root, EmptyMap)
  BY DEF OInv, IInv
<1>3. PICK s : Ordered(s, node, root) /\ hi <= s[root]
  <2>1. \A a \in DOMAIN node : /\ KeysOf(node[a]) \subseteq Int
                               /\ \A q \in DOMAIN node[a].pivots : node[a].pivots[q] \in DOMAIN node
    <3>1. \A a \in DOMAIN node : NodeOK(node[a], DOMAIN node, next_timestamp)
      BY <1>2 DEF NodesOK
    <3> QED BY <3>1, KeysIn DEF NodeOK
  <2>2. \A a \in DOMAIN node : \A q \in DOMAIN node[a].pivots :
           node[a].pivots[q] = root => hi <= r[a] /\ \A x \in NextPivots(node[a], q) : hi < x
    BY <1>2 DEF OwnersOK
  <2>3. root \in DOMAIN node
    BY <1>2 DEF NodesOK
  <2>4. Raised(r, node, root, root, hi)
    BY <1>1, <2>1, <2>2, <2>3, OrderRaise
  <2> QED BY <2>4 DEF Raised
<1> DEFINE f   == Activation(fn, root, arg)
           new == << f >>
<1>4. stack' = new /\ f.fn = fn /\ f.id = root /\ f.arg = arg
  BY DEF Activation
<1> HIDE DEF f
<1>5. Len(new) = 1 /\ new[1] = f
  OBVIOUS
<1> HIDE DEF new
<1>6. ArgsOK(s, new)
  <2> SUFFICES ASSUME NEW i \in 1 .. Len(new), new[i].fn = "flush", NEW m \in new[i].arg
               PROVE  m.key <= s[new[i].id] /\ (i > 1 => new[i - 1].pivot <= m.key)
    BY DEF ArgsOK
  <2>1. i = 1
    BY <1>5
  <2>2. m \in arg /\ m.key <= hi /\ new[i].id = root
    BY <1>4, <1>5, <2>1
  <2>3. m.key \in Int /\ s[root] \in Int
    <3>1. new \in Seq(Flushes(next_timestamp') \union Queries)
      BY <1>4 DEF IInv, FramesOK
    <3>2. f \in Flushes(next_timestamp') \union Queries
      BY <1>5, <3>1
    <3>3. arg \in Buffer(next_timestamp')
      BY <1>4, <1>5, <2>1, <3>2 DEF Flushes, Queries
    <3>4. s[root] \in Int
      BY <1>2, <1>3 DEF Ordered, LimitsOK, NodesOK
    <3> QED BY <2>2, <3>3, <3>4, KeysAssumption DEF Buffer, Message
  <2> QED BY <1>3, <2>1, <2>2, <2>3
<1>7. ArgsOK(s, stack') /\ Ordered(s, node', root') /\ returned' = EmptyMap
  BY <1>3, <1>4, <1>6
<1> QED BY <1>7, OrderedGives

LEMMA UpsertOrder ==
  ASSUME OInv, NEW op \in Ops, NEW k \in Keys, Upsert(op, k)
  PROVE  OInv'
<1> DEFINE val == IF op = "delete" THEN Default ELSE <<next_timestamp>>
           m   == [key |-> k, ts |-> next_timestamp, op |-> op, val |-> val]
           arg == {m}
           fn  == "flush"
<1>1. /\ call = "none" /\ UNCHANGED <<node, root, returned>>
      /\ stack' = Append(<< >>, Activation(fn, root, arg))
  BY DEF Upsert, Call
<1>2. IInv /\ IInv' /\ returned = EmptyMap
  <2>1. IInv /\ IInv'
    BY UpsertKeeps DEF OInv
  <2> QED BY <1>1, <2>1 DEF IInv, FramesOK
<1>3. \A x \in arg : x.key <= k
  BY KeysAssumption
<1>4. k \in Int
  BY KeysAssumption
<1> HIDE DEF arg, fn
<1> QED BY <1>1, <1>2, <1>3, <1>4, FirstCallOrder

LEMMA QueryOrder ==
  ASSUME OInv, NEW k \in Keys, Query(k)
  PROVE  OInv'
<1> DEFINE fn == "query"
<1>1. /\ call = "none" /\ UNCHANGED <<node, root, returned>>
      /\ stack' = Append(<< >>, Activation(fn, root, k))
  BY DEF Query, Call
<1>2. IInv /\ IInv' /\ returned = EmptyMap
  <2>1. IInv /\ IInv'
    BY QueryKeeps DEF OInv
  <2> QED BY <1>1, <2>1 DEF IInv, FramesOK
<1>3. k \in Int /\ fn # "flush"
  BY KeysAssumption
<1> HIDE DEF fn
<1> QED BY <1>1, <1>2, <1>3, FirstCallOrder

\* A tree of one empty leaf is ordered.
LEMMA InitOrder == Init => OInv
<1> SUFFICES ASSUME Init PROVE OInv
  OBVIOUS
<1> DEFINE leaf == NewNode(StartingEpsilon, 0)
           r    == [id \in {1} |-> 0]
<1>1. /\ DOMAIN node = {1} /\ node[1] = leaf /\ root = 1
      /\ stack = << >> /\ returned = EmptyMap
  BY DEF Init
<1>2. IInv
  BY InitKeeps
<1>3. DOMAIN leaf.pivots = {} /\ KeysOf(leaf) = {}
  BY DEF NewNode, EmptyMap, KeysOf
<1> HIDE DEF leaf
<1>4. LimitsOK(r, node)
  BY <1>1, <1>3 DEF LimitsOK
<1> HIDE DEF r
<1>5. PartsOK(r, node, returned, Emptied(stack, node, root, returned))
  BY <1>1, EmptyMapFacts DEF PartsOK, Emptied
<1>6. ArgsOK(r, stack)
  BY <1>1, NoArgs
<1>7. OwnedOK(node, root, returned) /\ AboveOK(node) /\ ReturnOK(stack, returned)
  BY <1>1, <1>3 DEF OwnedOK, AboveOK, ReturnOK
<1> QED BY <1>2, <1>4, <1>5, <1>6, <1>7 DEF OInv

LEMMA OrderKeeps == OInv /\ [Next]_vars => OInv'
<1> SUFFICES ASSUME OInv, [Next]_vars PROVE OInv'
  OBVIOUS
<1>1. CASE \E k \in Keys : Query(k) \/ \E op \in Ops : Upsert(op, k)
  BY <1>1, QueryOrder, UpsertOrder
<1>2. CASE FlushLeaf
  BY <1>2, FlushLeafOrder
<1>3. CASE FlushDirect
  BY <1>3, FlushDirectOrder
<1>4. CASE FlushBuffer
  BY <1>4, FlushBufferOrder
<1>5. CASE FlushBatch
  BY <1>5, FlushBatchOrder
<1>6. CASE FlushDone
  BY <1>6, FlushDoneOrder
<1>7. CASE DirectReturned
  BY <1>7, DirectReturnedOrder
<1>8. CASE DirectDone
  BY <1>8, DirectDoneOrder
<1>9. CASE BatchReturned
  BY <1>9, BatchReturnedOrder
<1>10. CASE UpsertReturn
  BY <1>10, UpsertReturnOrder
<1>11. CASE QueryDown
  BY <1>11, QueryDownOrder
<1>12. CASE QueryFound
  BY <1>12, QueryFoundOrder
<1>13. CASE UNCHANGED vars
  <2>1. IInv'
    BY <1>13, StepKeeps DEF OInv
  <2> QED BY <1>13, <2>1 DEF vars, OInv
<1> QED
  BY <1>1, <1>2, <1>3, <1>4, <1>5, <1>6, <1>7, <1>8, <1>9, <1>10, <1>11, <1>12, <1>13
  DEF Next, Step

\* The pivots, leaf elements and limits stay in order, whatever a call does.
THEOREM OrderKept == Spec => []OInv
  BY InitOrder, OrderKeeps, PTL DEF Spec

-----------------------------------------------------------------------------
(* What the invariant gives. *)

\* The nodes form one tree, also while splits move pivots up through the returned
\* maps: a node other than the root is held by exactly one pivot, of a node or of
\* the map that a flush() has just returned.
THEOREM ExactlyOneOwner == Spec => []OneOwner
<1>1. OInv => OneOwner
  <2> SUFFICES ASSUME OInv, NEW id \in DOMAIN node
               PROVE  LET held  == {x \in (DOMAIN node) \X Keys :
                                      /\ x[2] \in DOMAIN node[x[1]].pivots
                                      /\ node[x[1]].pivots[x[2]] = id}
                          given == {p \in DOMAIN returned : returned[p] = id}
                      IN  Cardinality(held) + Cardinality(given) = IF id = root THEN 0 ELSE 1
    BY DEF OneOwner
  <2> DEFINE held  == {x \in (DOMAIN node) \X Keys :
                         x[2] \in DOMAIN node[x[1]].pivots /\ node[x[1]].pivots[x[2]] = id}
             given == {p \in DOMAIN returned : returned[p] = id}
  <2>1. OwnersOK(node, root, returned) /\ OwnedOK(node, root, returned)
    BY DEF OInv, IInv
  <2>2. \A a \in DOMAIN node : DOMAIN node[a].pivots \subseteq Keys
    BY DEF OInv, IInv, NodesOK, NodeOK
  <2>3. Cardinality({}) = 0 /\ \A x : Cardinality({x}) = 1
    BY FS_EmptySet, FS_Singleton
  <2>4. CASE id = root
    <3>1. held = {} /\ given = {}
      BY <2>1, <2>4 DEF OwnersOK
    <3> HIDE DEF held, given
    <3>2. Cardinality(held) + Cardinality(given) = 0
      BY <2>3, <3>1
    <3> QED BY <2>4, <3>2 DEF held, given
  <2>5. ASSUME NEW a \in DOMAIN node, NEW p \in DOMAIN node[a].pivots, node[a].pivots[p] = id
        PROVE  held = {<<a, p>>} /\ given = {} /\ id # root
    <3>1. <<a, p>> \in held
      BY <2>2, <2>5
    <3>2. ASSUME NEW x \in held PROVE x = <<a, p>>
      BY <2>1, <2>5, <3>2 DEF OwnersOK
    <3>3. given = {} /\ id # root
      BY <2>1, <2>5 DEF OwnersOK
    <3> HIDE DEF held, given
    <3> QED BY <3>1, <3>2, <3>3
  <2>6. ASSUME NEW q \in DOMAIN returned, returned[q] = id
        PROVE  held = {} /\ given = {q} /\ id # root
    BY <2>1, <2>6 DEF OwnersOK
  <2>7. CASE id # root
    <3>1. \/ \E a \in DOMAIN node : \E p \in DOMAIN node[a].pivots : node[a].pivots[p] = id
          \/ \E q \in DOMAIN returned : returned[q] = id
      BY <2>1, <2>7 DEF OwnedOK
    <3>2. (\E x : held = {x} /\ given = {}) \/ (\E x : held = {} /\ given = {x})
      BY <2>5, <2>6, <3>1
    <3> HIDE DEF held, given
    <3>3. Cardinality(held) + Cardinality(given) = 1
      <4>1. \A x : Cardinality({}) + Cardinality({x}) = 1 /\ Cardinality({x}) + Cardinality({}) = 1
        BY <2>3
      <4> QED BY <3>2, <4>1, Zenon
    <3> QED BY <2>7, <3>3 DEF held, given
  <2> QED BY <2>4, <2>7
<1> QED BY <1>1, OrderKept, PTL

\* The recursion of Subtree has a solution: what each set that is closed under
\* children has when it has the node.
LEMMA SubtreeIs ==
  ASSUME \A id \in DOMAIN node : ChildrenOf(id) \subseteq DOMAIN node
  PROVE  \A id \in DOMAIN node :
            Subtree[id] = {id} \union UNION {Subtree[c] : c \in ChildrenOf(id)}
<1> DEFINE ids == DOMAIN node
           D(d) == [id \in ids |-> {id} \union UNION {d[c] : c \in ChildrenOf(id)}]
           Closed == {S \in SUBSET ids : \A x \in S : ChildrenOf(x) \subseteq S}
           w == [id \in ids |-> {x \in ids : \A S \in Closed : id \in S => x \in S}]
<1>1. \A i \in ids : /\ i \in w[i] /\ w[i] \in Closed
                     /\ \A S \in Closed : i \in S => w[i] \subseteq S
  <2>1. \A i \in ids : /\ i \in w[i] /\ w[i] \in SUBSET ids
                       /\ \A x \in w[i] : ChildrenOf(x) \subseteq w[i]
                       /\ \A S \in Closed : i \in S => w[i] \subseteq S
    OBVIOUS
  <2> HIDE DEF w
  <2> QED BY <2>1
<1>2. w = [id \in ids |-> w[id]]
  OBVIOUS
<1> HIDE DEF w
<1>3. ASSUME NEW id \in ids PROVE w[id] = {id} \union UNION {w[c] : c \in ChildrenOf(id)}
  <2> DEFINE S == {id} \union UNION {w[c] : c \in ChildrenOf(id)}
  <2>1. \A c \in ChildrenOf(id) : c \in ids /\ c \in w[id]
    BY <1>1
  <2>2. \A x \in S : x = id \/ \E c \in ChildrenOf(id) : x \in w[c]
    OBVIOUS
  <2>3. id \in S /\ \A c \in ChildrenOf(id) : w[c] \subseteq S
    OBVIOUS
  <2> HIDE DEF S
  <2>4. S \subseteq w[id]
    <3>1. \A c \in ChildrenOf(id) : w[c] \subseteq w[id]
      BY <1>1, <2>1
    <3> QED BY <1>1, <2>2, <3>1
  <2>5. S \in Closed
    <3>1. S \in SUBSET ids
      BY <1>1, <2>4
    <3>2. ASSUME NEW x \in S PROVE ChildrenOf(x) \subseteq S
      <4>1. CASE x = id
        BY <1>1, <2>1, <2>3, <4>1
      <4>2. ASSUME NEW c \in ChildrenOf(id), x \in w[c] PROVE ChildrenOf(x) \subseteq S
        BY <1>1, <2>1, <2>3, <4>2
      <4> QED BY <2>2, <4>1, <4>2
    <3> QED BY <3>1, <3>2
  <2>6. w[id] \subseteq S
    BY <1>1, <2>3, <2>5
  <2> QED BY <2>4, <2>6 DEF S
<1>4. w = D(w)
  BY <1>2, <1>3
<1>5. Subtree = CHOOSE d : d = D(d)
  BY DEF Subtree
<1>6. Subtree = D(Subtree)
  <2> HIDE DEF D
  <2> QED BY <1>4, <1>5
<1> QED BY <1>6

\* Below a node nothing is above its limit, and no leaf element or pivot is below
\* the least one of the node.
LEMMA SubtreeBounds ==
  ASSUME NEW r, NEW h, LimitsOK(r, node), AboveOK(node),
         HeightsOK(h, node, returned, Emptied(stack, node, root, returned)),
         \A id \in DOMAIN node : /\ ChildrenOf(id) \subseteq DOMAIN node
                                 /\ Settled(node[id]) \subseteq Int
  PROVE  \A id \in DOMAIN node : \A c \in Subtree[id] :
            /\ c \in DOMAIN node /\ r[c] <= r[id]
            /\ \A x \in Int : (\A k \in Settled(node[id]) : x <= k)
                                 => \A k \in Settled(node[c]) : x <= k
<1> DEFINE Bounded(c, id) == /\ c \in DOMAIN node /\ r[c] <= r[id]
                             /\ \A x \in Int : (\A k \in Settled(node[id]) : x <= k)
                                                  => \A k \in Settled(node[c]) : x <= k
           G == {n \in Nat : \A id \in DOMAIN node : h[id] = n =>
                                \A c \in Subtree[id] : Bounded(c, id)}
<1>1. /\ \A id \in DOMAIN node : h[id] \in Nat /\ r[id] \in Int
      /\ \A id \in DOMAIN node : \A c \in ChildrenOf(id) : c \in DOMAIN node /\ h[id] = h[c] + 1
  BY DEF HeightsOK, LimitsOK, ChildrenOf
<1>2. \A id \in DOMAIN node : Subtree[id] = {id} \union UNION {Subtree[c] : c \in ChildrenOf(id)}
  BY SubtreeIs
<1>3. \A id \in DOMAIN node : Bounded(id, id)
  BY <1>1
<1>4. ASSUME NEW id \in DOMAIN node, NEW c \in ChildrenOf(id) PROVE Bounded(c, id)
  <2>1. PICK p \in DOMAIN node[id].pivots : node[id].pivots[p] = c
    BY DEF ChildrenOf
  <2>2. r[c] <= r[id] /\ \A k \in Settled(node[c]) : p <= k /\ k \in Int
    BY <1>1, <2>1 DEF LimitsOK, AboveOK
  <2>3. p \in Settled(node[id]) /\ p \in Int
    BY <2>1 DEF Settled, IsLeaf
  <2> QED BY <1>1, <2>2, <2>3
<1>5. ASSUME NEW id \in DOMAIN node, NEW c \in DOMAIN node, NEW d \in DOMAIN node,
             Bounded(c, id), Bounded(d, c)
      PROVE  Bounded(d, id)
  <2>1. r[d] <= r[id]
    BY <1>1, <1>5
  <2> QED BY <1>5, <2>1
<1> HIDE DEF Bounded
<1>6. ASSUME NEW id \in DOMAIN node, \A c \in ChildrenOf(id) : \A d \in Subtree[c] : Bounded(d, c)
      PROVE  \A d \in Subtree[id] : Bounded(d, id)
  <2> SUFFICES ASSUME NEW d \in Subtree[id] PROVE Bounded(d, id)
    OBVIOUS
  <2>1. CASE d = id
    BY <1>3, <2>1
  <2>2. ASSUME NEW c \in ChildrenOf(id), d \in Subtree[c] PROVE Bounded(d, id)
    <3>1. Bounded(c, id) /\ Bounded(d, c)
      BY <1>4, <1>6, <2>2
    <3>2. c \in DOMAIN node /\ d \in DOMAIN node
      BY <3>1 DEF Bounded
    <3> QED BY <1>5, <3>1, <3>2
  <2> QED BY <1>2, <2>1, <2>2
<1>7. 0 \in G
  <2>1. \A id \in DOMAIN node : h[id] = 0 => ChildrenOf(id) = {}
    BY <1>1
  <2> QED BY <1>6, <2>1
<1>8. ASSUME NEW n \in Nat, n \in G PROVE n + 1 \in G
  <2> SUFFICES ASSUME NEW id \in DOMAIN node, h[id] = n + 1
               PROVE  \A c \in Subtree[id] : Bounded(c, id)
    OBVIOUS
  <2>1. \A c \in ChildrenOf(id) : h[c] = n /\ c \in DOMAIN node
    BY <1>1
  <2> QED BY <1>6, <1>8, <2>1
<1>9. Nat \subseteq G
  <2> HIDE DEF G
  <2> QED BY <1>7, <1>8, NatSetInduction
<1>10. \A id \in DOMAIN node : \A c \in Subtree[id] : Bounded(c, id)
  BY <1>1, <1>9
<1> QED BY <1>10 DEF Bounded

\* What a search tree is, in parts.
LEMMA SearchOrderIs ==
  ASSUME OInv
  PROVE  \A id \in DOMAIN node : \A p \in DOMAIN node[id].pivots :
            \A c \in Subtree[node[id].pivots[p]] :
               /\ c \in DOMAIN node
               /\ \A k \in KeysOf(node[c]) : \A q \in NextPivots(node[id], p) : k < q
               /\ \A k \in Settled(node[c]) : p <= k
<1> SUFFICES ASSUME NEW id \in DOMAIN node, NEW p \in DOMAIN node[id].pivots,
                    NEW c \in Subtree[node[id].pivots[p]]
             PROVE  /\ c \in DOMAIN node
                    /\ \A k \in KeysOf(node[c]) : \A q \in NextPivots(node[id], p) : k < q
                    /\ \A k \in Settled(node[c]) : p <= k
  OBVIOUS
<1> DEFINE d == node[id].pivots[p]
<1>1. PICK r : LimitsOK(r, node)
  BY DEF OInv
<1>2. PICK h : HeightsOK(h, node, returned, Emptied(stack, node, root, returned))
  BY DEF OInv, IInv
<1>3. \A i \in DOMAIN node : /\ ChildrenOf(i) \subseteq DOMAIN node
                             /\ KeysOf(node[i]) \subseteq Int
                             /\ Settled(node[i]) \subseteq KeysOf(node[i])
                             /\ DOMAIN node[i].pivots \subseteq KeysOf(node[i])
  <2>1. \A i \in DOMAIN node : NodeOK(node[i], DOMAIN node, next_timestamp)
    BY DEF OInv, IInv, NodesOK
  <2>2. \A i \in DOMAIN node : /\ ChildrenOf(i) \subseteq DOMAIN node
                               /\ DOMAIN node[i].pivots \subseteq KeysOf(node[i])
    BY <2>1 DEF NodeOK, ChildrenOf, KeysOf
  <2> QED BY <2>1, <2>2, KeysIn
<1>4. d \in DOMAIN node
  BY <1>3 DEF ChildrenOf
<1>5. AboveOK(node) /\ \A i \in DOMAIN node : Settled(node[i]) \subseteq Int
  BY <1>3 DEF OInv
<1>6. /\ c \in DOMAIN node /\ r[c] <= r[d]
      /\ \A x \in Int : (\A k \in Settled(node[d]) : x <= k) => \A k \in Settled(node[c]) : x <= k
  BY <1>1, <1>2, <1>3, <1>4, <1>5, SubtreeBounds
<1>7. p \in Int /\ \A k \in Settled(node[d]) : p <= k
  BY <1>3, <1>5 DEF AboveOK
<1>8. ASSUME NEW k \in KeysOf(node[c]), NEW q \in NextPivots(node[id], p) PROVE k < q
  <2>1. k <= r[c] /\ r[d] < q
    BY <1>1, <1>6 DEF LimitsOK
  <2>2. k \in Int /\ q \in Int /\ r[c] \in Int /\ r[d] \in Int
    BY <1>1, <1>3, <1>4, <1>6 DEF LimitsOK, NextPivots
  <2> HIDE DEF d
  <2> QED BY <1>6, <2>1, <2>2
<1> QED BY <1>6, <1>7, <1>8

\* The tree is a search tree, in the middle of a call too: below a pivot all pivots
\* and all elements of leaves lie between it and the next one, and no message lies
\* on or behind the next one.
THEOREM AlwaysSearchTree == Spec => []SearchOrder
<1>1. OInv => SearchOrder
  BY SearchOrderIs DEF SearchOrder
<1> QED BY <1>1, OrderKept, PTL
=============================================================================
