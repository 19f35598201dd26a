----------------------------- MODULE BetreeShape -----------------------------
(***************************************************************************)
(* The tree keeps its shape whatever upserts and queries it gets, for all  *)
(* keys, limits, cache sizes and bounds: pointers lead to nodes that exist,*)
(* what runs stays in memory, all paths to the leaves are of one length    *)
(* and the leaves hold one insert for each of their keys.                  *)
(*                                                                         *)
(* Each part of the inductive invariant is an operator of what it is       *)
(* about, so that a lemma can say what a change of the tree or of the      *)
(* stack does to it.                                                       *)
(***************************************************************************)
EXTENDS BetreeLemmas, SequenceTheorems

-----------------------------------------------------------------------------
(* The inductive invariant. *)

NodesOK(nodes, top, parts, next, now) ==
    /\ next \in Nat /\ now \in Nat \ {0}
    /\ DOMAIN nodes \subseteq 1 .. next - 1 /\ top \in DOMAIN nodes
    /\ \A id \in DOMAIN nodes : NodeOK(nodes[id], DOMAIN nodes, now)
    /\ DOMAIN parts \subseteq Keys
    /\ parts \in [DOMAIN parts -> DOMAIN nodes]

\* A node has at most one owner, a pivot or the map just returned; the root has none.
OwnersOK(nodes, top, parts) ==
    /\ \A a, b \in DOMAIN nodes :
          \A p \in DOMAIN nodes[a].pivots : \A q \in DOMAIN nodes[b].pivots :
              nodes[a].pivots[p] = nodes[b].pivots[q] => a = b /\ p = q
    /\ \A p, q \in DOMAIN parts : parts[p] = parts[q] => p = q
    /\ \A a \in DOMAIN nodes : \A p \in DOMAIN nodes[a].pivots :
          /\ nodes[a].pivots[p] # top
          /\ \A q \in DOMAIN parts : nodes[a].pivots[p] # parts[q]
    /\ \A q \in DOMAIN parts : parts[q] # top

Flushes(now) == [fn : {"flush"}, id : Nat, arg : Buffer(now) \ {{}}, pivot : Int,
                 pc : {"count", "enter", "direct", "loop", "batch", "end"}]
Queries      == [fn : {"query"}, id : Nat, arg : Keys, pivot : Int,
                 pc : {"count", "enter", "below", "adopt"}]

\* What an activation relies on where it is.
FrameOK(f, nodes) ==
    /\ f.id \in DOMAIN nodes
    /\ f.pc \in {"direct", "batch"} => f.pivot \in DOMAIN nodes[f.id].pivots
    /\ f.pc = "loop" => ~IsLeaf(nodes[f.id])

\* An activation waits for that of the child it has called.
Waits(f, g, nodes) ==
    \/ f.pc \in {"direct", "batch"} /\ g.fn = "flush" /\ g.id = nodes[f.id].pivots[f.pivot]
    \/ f.pc = "below" /\ g.fn = "query"
       /\ \E p \in DOMAIN nodes[f.id].pivots : g.id = nodes[f.id].pivots[p]

FramesOK(st, nodes, top, parts, client, now) ==
    /\ st \in Seq(Flushes(now) \union Queries)
    /\ \A i \in 1 .. Len(st) : FrameOK(st[i], nodes)
    /\ \A i \in 1 .. Len(st) : i > 1 => Waits(st[i - 1], st[i], nodes)
    /\ st # << >> => st[1].id = top
    /\ client \in {"none", "upsert", "query"}
    /\ client = "none" => st = << >>
    /\ client = "query" => \A i \in 1 .. Len(st) : st[i].fn = "query"
    /\ parts # EmptyMap =>
          client = "upsert" /\ (st # << >> => st[Len(st)].pc \in {"direct", "batch"})

\* The node that was split last, until its parts replace it.
Emptied(st, nodes, top, parts) ==
    IF parts = EmptyMap THEN {}
    ELSE IF st = << >> THEN {top}
    ELSE {nodes[st[Len(st)].id].pivots[st[Len(st)].pivot]}

\* All paths from a node to a leaf are of one length, which is its height.
HeightsOK(h, nodes, parts, emptied) ==
    /\ h \in [DOMAIN nodes -> Nat]
    /\ \A id \in DOMAIN nodes : \A p \in DOMAIN nodes[id].pivots :
          h[id] = h[nodes[id].pivots[p]] + 1
    /\ \A id \in DOMAIN nodes : IsLeaf(nodes[id]) => h[id] = 0 \/ id \in emptied
    /\ \A p \in DOMAIN parts : \A e \in emptied : h[parts[p]] = h[e]

IInv ==
    /\ NodesOK(node, root, returned, next_id, next_timestamp)
    /\ OwnersOK(node, root, returned)
    /\ FramesOK(stack, node, root, returned, call, next_timestamp)
    /\ \E h : HeightsOK(h, node, returned, Emptied(stack, node, root, returned))
    /\ CacheOK(cache, DOMAIN node) /\ PinnedInMemory

-----------------------------------------------------------------------------
(* The stack. *)

\* A stack is its frames below the last one, and that.
LEMMA FrontAndLast ==
  ASSUME NEW F, NEW st \in Seq(F), st # << >>
  PROVE  /\ Len(st) \in Nat \ {0} /\ Last(st) = st[Len(st)] /\ Last(st) \in F
         /\ Front(st) \in Seq(F) /\ Len(Front(st)) = Len(st) - 1
         /\ \A i \in 1 .. Len(st) - 1 : Front(st)[i] = st[i]
<1>1. Len(st) \in Nat \ {0}
  BY EmptySeq
<1> QED BY <1>1 DEF Front, Last

\* The stack with one more frame.
LEMMA Pushed ==
  ASSUME NEW F, NEW st \in Seq(F), NEW f \in F
  PROVE  /\ Append(st, f) \in Seq(F) /\ Append(st, f) # << >>
         /\ Len(Append(st, f)) = Len(st) + 1
         /\ Append(st, f)[Len(st) + 1] = f
         /\ \A i \in 1 .. Len(st) : Append(st, f)[i] = st[i]
  OBVIOUS

\* The stack with another last frame.
LEMMA Replaced ==
  ASSUME NEW F, NEW st \in Seq(F), st # << >>, NEW f \in F
  PROVE  LET new == Append(Front(st), f)
         IN  /\ new \in Seq(F) /\ new # << >> /\ Len(new) = Len(st)
             /\ new[Len(st)] = f
             /\ \A i \in 1 .. Len(st) - 1 : new[i] = st[i]
<1>1. /\ Len(st) \in Nat \ {0} /\ Front(st) \in Seq(F) /\ Len(Front(st)) = Len(st) - 1
      /\ \A i \in 1 .. Len(st) - 1 : Front(st)[i] = st[i]
  BY FrontAndLast
<1> DEFINE front == Front(st)
<1> HIDE DEF front
<1>2. /\ Append(front, f) \in Seq(F) /\ Append(front, f) # << >>
      /\ Len(Append(front, f)) = Len(front) + 1
      /\ Append(front, f)[Len(front) + 1] = f
      /\ \A i \in 1 .. Len(front) : Append(front, f)[i] = front[i]
  BY <1>1, Pushed DEF front
<1>3. Len(front) + 1 = Len(st)
  BY <1>1 DEF front
<1> QED BY <1>1, <1>2, <1>3 DEF front

\* A new frame pins its node besides those pinned before ...
LEMMA PinnedPushed ==
  ASSUME NEW F, NEW st \in Seq(F), NEW f \in F
  PROVE  PinnedBy(Append(st, f)) = PinnedBy(st) \union {f.id}
<1>1. /\ Append(st, f) \in Seq(F)
      /\ Len(Append(st, f)) = Len(st) + 1
      /\ Append(st, f)[Len(st) + 1] = f
      /\ \A i \in 1 .. Len(st) : Append(st, f)[i] = st[i]
  BY Pushed
<1> DEFINE new == Append(st, f)
<1>2. /\ DOMAIN st = 1 .. Len(st) /\ Len(st) \in Nat
      /\ DOMAIN new = 1 .. Len(st) + 1
  BY <1>1
<1> HIDE DEF new
<1>3. \A i \in 1 .. Len(st) + 1 : new[i].id \in PinnedBy(st) \union {f.id}
  BY <1>1, <1>2 DEF PinnedBy, new
<1>4. \A i \in 1 .. Len(st) : st[i].id \in PinnedBy(new)
  BY <1>1, <1>2 DEF PinnedBy, new
<1>5. f.id \in PinnedBy(new)
  BY <1>1, <1>2 DEF PinnedBy, new
<1> QED BY <1>2, <1>3, <1>4, <1>5 DEF PinnedBy, new

\* ... and its pin is gone when it is.
LEMMA PinnedPopped ==
  ASSUME NEW F, NEW st \in Seq(F), st # << >>
  PROVE  /\ PinnedBy(Front(st)) \union {Last(st).id} = PinnedBy(st)
         /\ \A f : f.id = Last(st).id /\ f \in F => PinnedBy(Append(Front(st), f)) = PinnedBy(st)
<1>1. /\ Len(st) \in Nat \ {0} /\ Last(st) = st[Len(st)] /\ Last(st) \in F
      /\ Front(st) \in Seq(F) /\ Len(Front(st)) = Len(st) - 1
      /\ \A i \in 1 .. Len(st) - 1 : Front(st)[i] = st[i]
  BY FrontAndLast
<1>2. DOMAIN st = 1 .. Len(st) /\ DOMAIN Front(st) = 1 .. Len(st) - 1
  BY <1>1
<1>3. PinnedBy(Front(st)) \union {Last(st).id} = PinnedBy(st)
  <2> DEFINE front == Front(st)
  <2> HIDE DEF front
  <2>1. \A i \in 1 .. Len(st) - 1 : front[i].id \in PinnedBy(st)
    BY <1>1, <1>2 DEF PinnedBy, front
  <2>2. Last(st).id \in PinnedBy(st)
    BY <1>1, <1>2 DEF PinnedBy
  <2>3. \A i \in 1 .. Len(st) : st[i].id \in PinnedBy(front) \union {Last(st).id}
    BY <1>1, <1>2 DEF PinnedBy, front
  <2> QED BY <1>2, <2>1, <2>2, <2>3 DEF PinnedBy, front
<1>4. ASSUME NEW f \in F, f.id = Last(st).id
      PROVE  PinnedBy(Append(Front(st), f)) = PinnedBy(st)
  <2> DEFINE front == Front(st)
  <2>1. front \in Seq(F)
    BY <1>1
  <2> HIDE DEF front
  <2>2. PinnedBy(Append(front, f)) = PinnedBy(front) \union {f.id}
    BY <2>1, PinnedPushed
  <2> QED BY <1>3, <1>4, <2>2 DEF front
<1> QED BY <1>3, <1>4

\* An activation and the one it waits for are one level apart.
LEMMA WaitsBelow ==
  ASSUME NEW f, NEW g, NEW nodes, NEW parts, NEW emptied, NEW h,
         FrameOK(f, nodes), Waits(f, g, nodes), HeightsOK(h, nodes, parts, emptied)
  PROVE  h[f.id] = h[g.id] + 1
<1>1. \E p \in DOMAIN nodes[f.id].pivots : g.id = nodes[f.id].pivots[p]
  BY DEF FrameOK, Waits
<1> QED BY <1>1 DEF FrameOK, HeightsOK

\* The further down the stack, the higher in the tree.
LEMMA Descending ==
  ASSUME NEW st, NEW nodes, NEW top, NEW parts, NEW client, NEW now, NEW emptied, NEW h,
         FramesOK(st, nodes, top, parts, client, now), HeightsOK(h, nodes, parts, emptied)
  PROVE  \A i \in 1 .. Len(st) - 1 : h[st[i].id] > h[st[Len(st)].id]
<1> DEFINE hs == [i \in 1 .. Len(st) |-> h[st[i].id]]
           G  == {k \in Nat : k < Len(st) => hs[Len(st) - k] >= hs[Len(st)] + k}
<1>1. Len(st) \in Nat
  BY DEF FramesOK
<1>2. \A i \in 1 .. Len(st) : hs[i] \in Nat
  BY DEF FramesOK, FrameOK, HeightsOK
<1>3. \A i \in 1 .. Len(st) : i > 1 => hs[i - 1] = hs[i] + 1
  <2> SUFFICES ASSUME NEW i \in 1 .. Len(st), i > 1 PROVE hs[i - 1] = hs[i] + 1
    OBVIOUS
  <2>1. FrameOK(st[i - 1], nodes) /\ Waits(st[i - 1], st[i], nodes)
    BY <1>1 DEF FramesOK
  <2>2. h[st[i - 1].id] = h[st[i].id] + 1
    BY <2>1, WaitsBelow
  <2> QED BY <1>1, <2>2
<1>4. \A i \in 1 .. Len(st) : hs[i] = h[st[i].id]
  OBVIOUS
<1> HIDE DEF hs
<1>5. 0 \in G
  BY <1>1, <1>2
<1>6. ASSUME NEW k \in Nat, k \in G PROVE k + 1 \in G
  <2>1. CASE k + 1 < Len(st)
    <3>1. Len(st) - k \in 1 .. Len(st) /\ Len(st) - k > 1
      BY <1>1, <2>1
    <3>2. hs[(Len(st) - k) - 1] = hs[Len(st) - k] + 1
      BY <1>3, <3>1
    <3>3. hs[Len(st) - k] >= hs[Len(st)] + k
      BY <1>6, <1>1, <2>1
    <3>4. hs[Len(st)] \in Nat /\ hs[Len(st) - k] \in Nat
      BY <1>1, <1>2, <2>1
    <3>5. (Len(st) - k) - 1 = Len(st) - (k + 1)
      BY <1>1
    <3> QED BY <3>2, <3>3, <3>4, <3>5
  <2>2. CASE ~(k + 1 < Len(st))
    BY <2>2
  <2> QED BY <2>1, <2>2
<1>7. Nat \subseteq G
  <2> HIDE DEF G
  <2> QED BY <1>5, <1>6, NatSetInduction
<1> SUFFICES ASSUME NEW i \in 1 .. Len(st) - 1 PROVE h[st[i].id] > h[st[Len(st)].id]
  OBVIOUS
<1>8. Len(st) - i \in Nat /\ Len(st) - i < Len(st) /\ Len(st) - i > 0
  BY <1>1
<1>9. hs[Len(st) - (Len(st) - i)] >= hs[Len(st)] + (Len(st) - i)
  BY <1>7, <1>8
<1>10. Len(st) - (Len(st) - i) = i /\ i \in 1 .. Len(st) /\ Len(st) \in 1 .. Len(st)
  BY <1>1
<1>11. hs[i] > hs[Len(st)]
  BY <1>2, <1>8, <1>9, <1>10
<1> QED BY <1>4, <1>10, <1>11

\* What the frames rely on is not disturbed by a change of other nodes.
LEMMA FrameElsewhere ==
  ASSUME NEW f, NEW nodes, NEW more, FrameOK(f, nodes),
         f.id \in DOMAIN more, more[f.id].pivots = nodes[f.id].pivots
  PROVE  /\ FrameOK(f, more)
         /\ \A g : Waits(f, g, nodes) => Waits(f, g, more)
  BY DEF FrameOK, Waits, IsLeaf

\* The running activation goes on, and may have changed its node.
LEMMA FramesStep ==
  ASSUME NEW st, NEW nodes, NEW top, NEW parts, NEW client, NEW now,
         FramesOK(st, nodes, top, parts, client, now), st # << >>,
         NEW more,
         \A i \in 1 .. Len(st) - 1 : /\ st[i].id \in DOMAIN more
                                     /\ more[st[i].id].pivots = nodes[st[i].id].pivots,
         NEW f \in Flushes(now) \union Queries, FrameOK(f, more),
         f.id = st[Len(st)].id, f.fn = st[Len(st)].fn
  PROVE  FramesOK(Append(Front(st), f), more, top, EmptyMap, client, now)
<1> DEFINE F   == Flushes(now) \union Queries
           new == Append(Front(st), f)
           len == Len(st)
<1>1. st \in Seq(F) /\ len \in Nat \ {0}
  BY FrontAndLast DEF FramesOK
<1>2. /\ new \in Seq(F) /\ new # << >> /\ Len(new) = len
      /\ new[len] = f
      /\ \A i \in 1 .. len - 1 : new[i] = st[i]
  <2> HIDE DEF F
  <2> QED BY <1>1, Replaced DEF F
<1>3. /\ \A i \in 1 .. len : FrameOK(st[i], nodes)
      /\ \A i \in 1 .. len : i > 1 => Waits(st[i - 1], st[i], nodes)
      /\ st[1].id = top
      /\ client \in {"none", "upsert", "query"} /\ client # "none"
      /\ client = "query" => \A i \in 1 .. len : st[i].fn = "query"
  BY DEF FramesOK
<1> HIDE DEF new, len, F
<1>4. \A i \in 1 .. len : FrameOK(new[i], more)
  <2> SUFFICES ASSUME NEW i \in 1 .. len PROVE FrameOK(new[i], more)
    OBVIOUS
  <2>1. CASE i = len
    BY <1>2, <2>1
  <2>2. CASE i \in 1 .. len - 1
    BY <1>1, <1>2, <1>3, <2>2, FrameElsewhere DEF len
  <2> QED BY <1>1, <2>1, <2>2
<1>5. \A i \in 1 .. len : i > 1 => Waits(new[i - 1], new[i], more)
  <2> SUFFICES ASSUME NEW i \in 1 .. len, i > 1 PROVE Waits(new[i - 1], new[i], more)
    OBVIOUS
  <2>1. i - 1 \in 1 .. len - 1 /\ i - 1 \in 1 .. len /\ new[i - 1] = st[i - 1]
    BY <1>1, <1>2
  <2>2. Waits(st[i - 1], st[i], more)
    BY <1>3, <2>1, FrameElsewhere DEF len
  <2>3. new[i].id = st[i].id /\ new[i].fn = st[i].fn
    BY <1>1, <1>2 DEF len
  <2> QED BY <2>1, <2>2, <2>3 DEF Waits
<1>6. new[1].id = top
  BY <1>1, <1>2, <1>3 DEF len
<1>7. client = "query" => \A i \in 1 .. len : new[i].fn = "query"
  BY <1>1, <1>2, <1>3 DEF len
<1> QED BY <1>2, <1>3, <1>4, <1>5, <1>6, <1>7 DEF FramesOK, F, new

\* The running activation calls one of a child.
LEMMA FramesCall ==
  ASSUME NEW st, NEW nodes, NEW top, NEW client, NEW now,
         FramesOK(st, nodes, top, EmptyMap, client, now), st # << >>,
         NEW g \in Flushes(now) \union Queries, FrameOK(g, nodes),
         Waits(st[Len(st)], g, nodes), g.fn = st[Len(st)].fn
  PROVE  FramesOK(Append(st, g), nodes, top, EmptyMap, client, now)
<1> DEFINE F   == Flushes(now) \union Queries
           new == Append(st, g)
           len == Len(st)
<1>1. st \in Seq(F) /\ len \in Nat \ {0}
  BY FrontAndLast DEF FramesOK
<1>2. /\ new \in Seq(F) /\ new # << >> /\ Len(new) = len + 1
      /\ new[len + 1] = g
      /\ \A i \in 1 .. len : new[i] = st[i]
  <2> HIDE DEF F
  <2> QED BY <1>1, Pushed DEF F
<1>3. /\ \A i \in 1 .. len : FrameOK(st[i], nodes)
      /\ \A i \in 1 .. len : i > 1 => Waits(st[i - 1], st[i], nodes)
      /\ st[1].id = top
      /\ client \in {"none", "upsert", "query"} /\ client # "none"
      /\ client = "query" => \A i \in 1 .. len : st[i].fn = "query"
      /\ Waits(st[len], g, nodes) /\ g.fn = st[len].fn
  BY DEF FramesOK
<1> HIDE DEF new, len, F
<1>4. \A i \in 1 .. len + 1 : FrameOK(new[i], nodes)
  BY <1>1, <1>2, <1>3
<1>5. \A i \in 1 .. len + 1 : i > 1 => Waits(new[i - 1], new[i], nodes)
  <2> SUFFICES ASSUME NEW i \in 1 .. len + 1, i > 1 PROVE Waits(new[i - 1], new[i], nodes)
    OBVIOUS
  <2>1. i - 1 \in 1 .. len
    BY <1>1
  <2>2. CASE i = len + 1
    BY <1>1, <1>2, <1>3, <2>1, <2>2
  <2>3. CASE i \in 1 .. len
    BY <1>2, <1>3, <2>1, <2>3
  <2> QED BY <1>1, <2>2, <2>3
<1>6. new[1].id = top
  BY <1>1, <1>2, <1>3
<1>7. client = "query" => \A i \in 1 .. len + 1 : new[i].fn = "query"
  BY <1>1, <1>2, <1>3
<1> QED BY <1>2, <1>3, <1>4, <1>5, <1>6, <1>7 DEF FramesOK, F, new

\* The frames below the running one.
LEMMA FrontOfFrames ==
  ASSUME NEW st, NEW nodes, NEW top, NEW parts, NEW client, NEW now,
         FramesOK(st, nodes, top, parts, client, now), st # << >>
  PROVE  /\ Len(st) \in Nat \ {0}
         /\ Front(st) \in Seq(Flushes(now) \union Queries) /\ Len(Front(st)) = Len(st) - 1
         /\ \A i \in 1 .. Len(st) - 1 : Front(st)[i] = st[i]
         /\ Front(st) = << >> <=> Len(st) = 1
<1> DEFINE F   == Flushes(now) \union Queries
           new == Front(st)
<1>1. st \in Seq(F)
  BY DEF FramesOK
<1>2. /\ Len(st) \in Nat \ {0} /\ new \in Seq(F) /\ Len(new) = Len(st) - 1
      /\ \A i \in 1 .. Len(st) - 1 : new[i] = st[i]
  <2> HIDE DEF F
  <2> QED BY <1>1, FrontAndLast
<1> HIDE DEF new
<1>3. new = << >> <=> Len(new) = 0
  BY <1>2, EmptySeq
<1> QED BY <1>2, <1>3 DEF new

\* The node that the running activation has split is what its caller, or the end of
\* the call, will replace.
LEMMA EmptiedReturn ==
  ASSUME NEW st, NEW nodes, NEW top, NEW parts, NEW client, NEW now,
         FramesOK(st, nodes, top, parts, client, now), st # << >>,
         NEW more,
         \A i \in 1 .. Len(st) - 1 : /\ st[i].id \in DOMAIN more
                                     /\ more[st[i].id].pivots = nodes[st[i].id].pivots,
         NEW split, split # EmptyMap, st[Len(st)].fn = "flush"
  PROVE  Emptied(Front(st), more, top, split) = {st[Len(st)].id}
<1> DEFINE new == Front(st)
           len == Len(st)
<1>1. /\ len \in Nat \ {0} /\ Len(new) = len - 1
      /\ \A i \in 1 .. len - 1 : new[i] = st[i]
      /\ new = << >> <=> len = 1
  BY FrontOfFrames
<1>2. st[1].id = top /\ \A i \in 1 .. len : i > 1 => Waits(st[i - 1], st[i], nodes)
  BY DEF FramesOK
<1> HIDE DEF new, len
<1>3. CASE len = 1
  BY <1>1, <1>2, <1>3 DEF Emptied, new, len
<1>4. CASE len > 1
  <2>1. Waits(st[len - 1], st[len], nodes) /\ new[len - 1] = st[len - 1] /\ len - 1 \in 1 .. len - 1
    BY <1>1, <1>2, <1>4
  <2>2. more[st[len - 1].id].pivots = nodes[st[len - 1].id].pivots
    BY <2>1 DEF len
  <2>3. st[len].fn = "flush"
    BY DEF len
  <2>4. more[new[len - 1].id].pivots[new[len - 1].pivot] = st[len].id
    BY <2>1, <2>2, <2>3 DEF Waits
  <2>5. Emptied(new, more, top, split) = {st[len].id}
    BY <1>1, <1>4, <2>4 DEF Emptied
  <2> QED BY <2>5 DEF new, len
<1> QED BY <1>1, <1>3, <1>4

\* The frames that are left when it returns are right, with or without parts.
LEMMA FramesReturn ==
  ASSUME NEW st, NEW nodes, NEW top, NEW parts, NEW client, NEW now,
         FramesOK(st, nodes, top, parts, client, now), st # << >>,
         NEW more,
         \A i \in 1 .. Len(st) - 1 : /\ st[i].id \in DOMAIN more
                                     /\ more[st[i].id].pivots = nodes[st[i].id].pivots,
         NEW split, split # EmptyMap => st[Len(st)].fn = "flush",
         NEW after, after = client \/ (after = "none" /\ Len(st) = 1 /\ split = EmptyMap)
  PROVE  FramesOK(Front(st), more, top, split, after, now)
<1> DEFINE F   == Flushes(now) \union Queries
           new == Front(st)
           len == Len(st)
<1>1. /\ len \in Nat \ {0} /\ new \in Seq(F) /\ Len(new) = len - 1
      /\ \A i \in 1 .. len - 1 : new[i] = st[i]
      /\ new = << >> <=> len = 1
  BY FrontOfFrames
<1>2. /\ \A i \in 1 .. len : FrameOK(st[i], nodes)
      /\ \A i \in 1 .. len : i > 1 => Waits(st[i - 1], st[i], nodes)
      /\ st[1].id = top
      /\ client \in {"none", "upsert", "query"} /\ client # "none"
      /\ client = "query" => \A i \in 1 .. len : st[i].fn = "query"
  BY DEF FramesOK
<1>3. ASSUME split # EmptyMap, new # << >> PROVE new[len - 1].pc \in {"direct", "batch"}
  <2>1. len > 1 /\ len - 1 \in 1 .. len - 1 /\ len \in 1 .. len
    BY <1>1, <1>3
  <2>2. Waits(st[len - 1], st[len], nodes)
    BY <1>2, <2>1
  <2>3. st[len].fn = "flush"
    BY <1>3
  <2>4. st[len - 1].pc \in {"direct", "batch"}
    BY <2>2, <2>3 DEF Waits
  <2> QED BY <1>1, <2>1, <2>4
<1> HIDE DEF new, len, F
<1>4. \A i \in 1 .. len - 1 : FrameOK(new[i], more)
  BY <1>1, <1>2, FrameElsewhere DEF len
<1>5. \A i \in 1 .. len - 1 : i > 1 => Waits(new[i - 1], new[i], more)
  <2> SUFFICES ASSUME NEW i \in 1 .. len - 1, i > 1 PROVE Waits(new[i - 1], new[i], more)
    OBVIOUS
  <2>1. i - 1 \in 1 .. len - 1 /\ i - 1 \in 1 .. len /\ i \in 1 .. len
        /\ new[i - 1] = st[i - 1] /\ new[i] = st[i]
    BY <1>1
  <2> QED BY <1>2, <2>1, FrameElsewhere DEF len
<1>6. new # << >> => new[1].id = top
  BY <1>1, <1>2
<1>7. after = "query" => \A i \in 1 .. len - 1 : new[i].fn = "query"
  BY <1>1, <1>2
<1>8. after \in {"none", "upsert", "query"} /\ (after = "none" => new = << >>)
  BY <1>1, <1>2 DEF len
<1>9. split # EmptyMap => after = "upsert"
  BY <1>1, <1>2 DEF len
<1> QED BY <1>1, <1>3, <1>4, <1>5, <1>6, <1>7, <1>8, <1>9 DEF FramesOK, F, new

\* A call of the client starts an activation of the root.
LEMMA FramesFirst ==
  ASSUME NEW nodes, NEW top, NEW now, NEW client \in {"upsert", "query"},
         NEW g \in Flushes(now) \union Queries, FrameOK(g, nodes), g.id = top,
         client = "query" => g.fn = "query"
  PROVE  FramesOK(Append(<< >>, g), nodes, top, EmptyMap, client, now)
<1> DEFINE new == Append(<< >>, g)
<1>1. /\ new \in Seq(Flushes(now) \union Queries) /\ new # << >>
      /\ Len(new) = 1 /\ new[1] = g
  OBVIOUS
<1> HIDE DEF new
<1>2. \A i \in 1 .. 1 : new[i] = g /\ i = 1
  BY <1>1
<1> QED BY <1>1, <1>2 DEF FramesOK, new

-----------------------------------------------------------------------------
(* Changes of the tree. *)

\* m owns what n owns, if under other keys.
SameOwned(m, n) ==
    \E o \in [DOMAIN m.pivots -> DOMAIN n.pivots] :
        /\ \A p, q \in DOMAIN m.pivots : o[p] = o[q] => p = q
        /\ \A p \in DOMAIN m.pivots : m.pivots[p] = n.pivots[o[p]]

\* A node stays right when there are more nodes and the clock goes on.
LEMMA NodeGrows ==
  ASSUME NEW n, NEW ids, NEW now \in Nat, NodeOK(n, ids, now), NEW more, ids \subseteq more,
         NEW later \in Nat, now <= later
  PROVE  NodeOK(n, more, later)
<1>1. Message(now) \subseteq Message(later)
  BY DEF Message
<1>2. n.elements \in Buffer(later)
  BY <1>1 DEF NodeOK, Buffer
<1>3. n.pivots \in [DOMAIN n.pivots -> more]
  BY DEF NodeOK
<1> QED BY <1>2, <1>3 DEF NodeOK

\* The map without keys is one.
LEMMA EmptyMapFacts ==
  /\ DOMAIN EmptyMap = {}
  /\ \A f : \A S : f \in [DOMAIN f -> S] /\ DOMAIN f = {} => f = EmptyMap
<1>1. DOMAIN EmptyMap = {}
  BY DEF EmptyMap
<1>2. ASSUME NEW f, NEW S, f \in [DOMAIN f -> S], DOMAIN f = {} PROVE f = EmptyMap
  BY <1>2 DEF EmptyMap
<1> QED BY <1>1, <1>2

\* A node changes its messages or the keys of its pivots.
LEMMA TreeStep ==
  ASSUME NEW nodes, NEW top, NEW parts, NEW next, NEW now, NEW h, NEW emptied,
         NodesOK(nodes, top, parts, next, now), OwnersOK(nodes, top, parts),
         HeightsOK(h, nodes, parts, emptied),
         NEW id \in DOMAIN nodes, NEW m, NodeOK(m, DOMAIN nodes, now),
         SameOwned(m, nodes[id]), IsLeaf(m) => IsLeaf(nodes[id]),
         NEW more, DOMAIN more = DOMAIN nodes, more[id] = m,
         \A i \in DOMAIN nodes : i # id => more[i] = nodes[i]
  PROVE  /\ NodesOK(more, top, parts, next, now) /\ OwnersOK(more, top, parts)
         /\ HeightsOK(h, more, parts, emptied)
<1>1. /\ DOMAIN more = DOMAIN nodes /\ more[id] = m
      /\ \A i \in DOMAIN nodes : i # id => more[i] = nodes[i]
  OBVIOUS
<1>2. NodesOK(more, top, parts, next, now)
  BY <1>1 DEF NodesOK
<1>3. PICK o \in [DOMAIN m.pivots -> DOMAIN nodes[id].pivots] :
        /\ \A p, q \in DOMAIN m.pivots : o[p] = o[q] => p = q
        /\ \A p \in DOMAIN m.pivots : m.pivots[p] = nodes[id].pivots[o[p]]
  BY DEF SameOwned
<1>4. ASSUME NEW a \in DOMAIN more, NEW p \in DOMAIN more[a].pivots
      PROVE  \E s \in DOMAIN nodes[a].pivots : more[a].pivots[p] = nodes[a].pivots[s]
  <2>1. CASE a = id
    BY <1>1, <1>3, <2>1
  <2>2. CASE a # id
    BY <1>1, <2>2
  <2> QED BY <2>1, <2>2
<1>5. ASSUME NEW a \in DOMAIN more, NEW b \in DOMAIN more,
             NEW p \in DOMAIN more[a].pivots, NEW q \in DOMAIN more[b].pivots,
             more[a].pivots[p] = more[b].pivots[q]
      PROVE  a = b /\ p = q
  <2>1. a = b
    BY <1>1, <1>4, <1>5 DEF OwnersOK
  <2>2. CASE a = id
    BY <1>1, <1>3, <1>5, <2>1, <2>2 DEF OwnersOK
  <2>3. CASE a # id
    BY <1>1, <1>5, <2>1, <2>3 DEF OwnersOK
  <2> QED BY <2>1, <2>2, <2>3
<1>6. OwnersOK(more, top, parts)
  <2>1. \A a \in DOMAIN more : \A p \in DOMAIN more[a].pivots :
          /\ more[a].pivots[p] # top
          /\ \A q \in DOMAIN parts : more[a].pivots[p] # parts[q]
    BY <1>1, <1>4 DEF OwnersOK
  <2> QED BY <1>5, <2>1 DEF OwnersOK
<1>7. HeightsOK(h, more, parts, emptied)
  <2>1. \A a \in DOMAIN more : \A p \in DOMAIN more[a].pivots :
          h[a] = h[more[a].pivots[p]] + 1
    BY <1>1, <1>4 DEF HeightsOK
  <2>2. \A a \in DOMAIN more : IsLeaf(more[a]) => h[a] = 0 \/ a \in emptied
    BY <1>1 DEF HeightsOK
  <2> QED BY <1>1, <2>1, <2>2 DEF HeightsOK
<1> QED BY <1>2, <1>6, <1>7

\* A node is split: its parts take its messages and pivots.
LEMMA TreeSplit ==
  ASSUME NEW nodes, NEW top, NEW now, NEW h,
         NodesOK(nodes, top, EmptyMap, next_id, now), OwnersOK(nodes, top, EmptyMap),
         HeightsOK(h, nodes, EmptyMap, {}),
         NEW id \in DOMAIN nodes, NEW n, NodeOK(n, DOMAIN nodes, now),
         n.pivots = nodes[id].pivots, n.elements # {} \/ ~IsLeaf(n),
         NEW more,
         DOMAIN more = DOMAIN nodes \union {IdOf(j) : j \in Parts(n)},
         more[id] = [n EXCEPT !.pivots = EmptyMap, !.elements = {}],
         \A i \in DOMAIN nodes : i # id => more[i] = nodes[i],
         \A i \in DOMAIN more : i \notin DOMAIN nodes => more[i] = Part(n, i - next_id)
  PROVE  /\ NodesOK(more, top, SplitResult(n), next_id + NumNew(n), now)
         /\ OwnersOK(more, top, SplitResult(n))
         /\ \E g : HeightsOK(g, more, SplitResult(n), {id})
<1> DEFINE old   == DOMAIN nodes
           new   == {IdOf(j) : j \in Parts(n)}
           parts == SplitResult(n)
           shell == [n EXCEPT !.pivots = EmptyMap, !.elements = {}]
<1>1. /\ Parts(n) \subseteq 0 .. NumNew(n) - 1 /\ NumNew(n) \in Nat /\ next_id \in Nat
      /\ old \subseteq 1 .. next_id - 1
  BY SplitSizes DEF Parts, NodesOK
<1>2. \A j \in Parts(n) : /\ IdOf(j) \in next_id .. next_id + NumNew(n) - 1
                          /\ IdOf(j) - next_id = j /\ IdOf(j) \notin old
  BY <1>1 DEF IdOf
<1>3. /\ DOMAIN more = old \union new
      /\ more[id] = shell
      /\ \A i \in old : i # id => more[i] = nodes[i]
      /\ \A j \in Parts(n) : more[IdOf(j)] = Part(n, j)
  <2>1. ASSUME NEW j \in Parts(n) PROVE more[IdOf(j)] = Part(n, j)
    <3>1. IdOf(j) \in DOMAIN more /\ IdOf(j) \notin DOMAIN nodes /\ IdOf(j) - next_id = j
      BY <1>2
    <3> QED BY <3>1
  <2> QED BY <2>1
<1>4. /\ parts # EmptyMap /\ DOMAIN parts \subseteq Keys
      /\ parts \in [DOMAIN parts -> new]
      /\ \A p, q \in DOMAIN parts : parts[p] = parts[q] => p = q
  BY <1>1, SplitResultOK
<1>5. \A j \in Parts(n) :
        /\ NodeOK(Part(n, j), old, now)
        /\ IsLeaf(Part(n, j)) <=> IsLeaf(n)
        /\ \A p \in DOMAIN Part(n, j).pivots : /\ p \in DOMAIN n.pivots /\ PivotPart(n, p) = j
                                               /\ Part(n, j).pivots[p] = n.pivots[p]
  BY PartOK
<1>6. /\ shell.pivots = EmptyMap /\ DOMAIN shell.pivots = {} /\ IsLeaf(shell)
      /\ NodeOK(shell, old \union new, now)
  <2>1. /\ shell = [pivots |-> EmptyMap, elements |-> {}, epsilon |-> n.epsilon,
                    node_level |-> n.node_level, ready_for_adoption |-> n.ready_for_adoption]
    <3>1. n = [pivots |-> n.pivots, elements |-> n.elements, epsilon |-> n.epsilon,
               node_level |-> n.node_level, ready_for_adoption |-> n.ready_for_adoption]
      BY DEF NodeOK
    <3> QED BY <3>1
  <2>2. {} \in Buffer(now)
    BY FS_EmptySet DEF Buffer
  <2> HIDE DEF shell
  <2>3. shell.pivots = EmptyMap /\ DOMAIN shell.pivots = {} /\ IsLeaf(shell)
    BY <2>1, EmptyMapFacts DEF IsLeaf
  <2>4. shell.pivots \in [DOMAIN shell.pivots -> old \union new]
    BY <2>3 DEF EmptyMap
  <2> QED BY <2>1, <2>2, <2>3, <2>4 DEF NodeOK, Inserts
<1> HIDE DEF old, new, parts, shell
<1>7. ASSUME NEW a \in old \union new PROVE NodeOK(more[a], old \union new, now)
  <2>1. CASE a = id
    BY <1>3, <1>6, <2>1
  <2>2. CASE a \in old /\ a # id
    <3>1. NodeOK(nodes[a], old, now) /\ now \in Nat
      BY <2>2 DEF NodesOK, old
    <3> QED BY <1>3, <2>2, <3>1, NodeGrows
  <2>3. CASE a \in new
    <3>1. PICK j \in Parts(n) : a = IdOf(j)
      BY <2>3 DEF new
    <3>2. NodeOK(Part(n, j), old, now) /\ more[a] = Part(n, j) /\ now \in Nat
      BY <1>3, <1>5, <3>1 DEF NodesOK
    <3> QED BY <3>2, NodeGrows
  <2> QED BY <1>7, <2>1, <2>2, <2>3
<1>8. NodesOK(more, top, parts, next_id + NumNew(n), now)
  <2>1. old \union new \subseteq 1 .. (next_id + NumNew(n)) - 1
    <3>1. \A j \in Parts(n) : IdOf(j) \in 1 .. (next_id + NumNew(n)) - 1
      <4>1. next_id \in Nat \ {0}
        BY <1>1 DEF NodesOK, old
      <4> QED BY <1>1, <1>2, <4>1
    <3>2. \A i \in old : i \in 1 .. (next_id + NumNew(n)) - 1
      BY <1>1
    <3> QED BY <3>1, <3>2 DEF new
  <2>2. next_id + NumNew(n) \in Nat /\ now \in Nat \ {0} /\ top \in old
    BY <1>1 DEF NodesOK, old
  <2> QED BY <1>3, <1>4, <1>7, <2>1, <2>2 DEF NodesOK
\* Each pivot there is was one before, of a node or of the one that was split.
<1> DEFINE from(a) == IF a \in old THEN a ELSE id
<1>9. ASSUME NEW a \in old \union new, NEW p \in DOMAIN more[a].pivots
      PROVE  /\ a # id /\ from(a) \in old /\ p \in DOMAIN nodes[from(a)].pivots
             /\ more[a].pivots[p] = nodes[from(a)].pivots[p]
             /\ a \in new => from(a) = id /\ a = IdOf(PivotPart(n, p))
             /\ a \in old => from(a) = a
  <2>1. a # id
    BY <1>3, <1>6, <1>9
  <2>2. CASE a \in old
    <3>1. a \notin new
      BY <1>2, <2>2 DEF new
    <3> QED BY <1>3, <1>9, <2>1, <2>2, <3>1
  <2>3. CASE a \in new
    <3>1. PICK j \in Parts(n) : a = IdOf(j)
      BY <2>3 DEF new
    <3>2. a \notin old /\ more[a] = Part(n, j)
      BY <1>2, <1>3, <3>1
    <3> QED BY <1>5, <1>9, <2>1, <3>1, <3>2 DEF old
  <2> QED BY <2>2, <2>3
<1> HIDE DEF from
<1>10. OwnersOK(more, top, parts)
  <2>1. ASSUME NEW a \in old \union new, NEW b \in old \union new,
               NEW p \in DOMAIN more[a].pivots, NEW q \in DOMAIN more[b].pivots,
               more[a].pivots[p] = more[b].pivots[q]
        PROVE  a = b /\ p = q
    <3>1. /\ from(a) \in old /\ p \in DOMAIN nodes[from(a)].pivots
          /\ from(b) \in old /\ q \in DOMAIN nodes[from(b)].pivots
          /\ nodes[from(a)].pivots[p] = nodes[from(b)].pivots[q]
      BY <1>9, <2>1
    <3>2. from(a) = from(b) /\ p = q
      BY <3>1 DEF OwnersOK, old
    <3> QED BY <1>9, <2>1, <3>2
  <2>2. ASSUME NEW a \in old \union new, NEW p \in DOMAIN more[a].pivots
        PROVE  more[a].pivots[p] # top /\ more[a].pivots[p] \in old
    <3>1. from(a) \in old /\ p \in DOMAIN nodes[from(a)].pivots
          /\ more[a].pivots[p] = nodes[from(a)].pivots[p]
      BY <1>9, <2>2
    <3>2. nodes[from(a)].pivots[p] \in old
      BY <3>1 DEF NodesOK, NodeOK, old
    <3>3. nodes[from(a)].pivots[p] # top
      BY <3>1 DEF OwnersOK, old
    <3> QED BY <3>1, <3>2, <3>3
  <2>3. \A q \in DOMAIN parts : parts[q] \notin old
    BY <1>2, <1>4 DEF new
  <2>4. top \in old
    BY DEF NodesOK, old
  <2>5. \A q \in DOMAIN parts : parts[q] # top
    BY <2>3, <2>4
  <2>6. \A a \in old \union new : \A p \in DOMAIN more[a].pivots :
          \A q \in DOMAIN parts : more[a].pivots[p] # parts[q]
    BY <2>2, <2>3
  <2>7. \A a, b \in DOMAIN more :
           \A p \in DOMAIN more[a].pivots : \A q \in DOMAIN more[b].pivots :
              more[a].pivots[p] = more[b].pivots[q] => a = b /\ p = q
    BY <1>3, <2>1
  <2>8. \A a \in DOMAIN more : \A p \in DOMAIN more[a].pivots :
          /\ more[a].pivots[p] # top
          /\ \A q \in DOMAIN parts : more[a].pivots[p] # parts[q]
    BY <1>3, <2>2, <2>6
  <2> QED BY <1>4, <2>5, <2>7, <2>8 DEF OwnersOK
<1>11. \E g : HeightsOK(g, more, parts, {id})
  <2> DEFINE g == [a \in old \union new |-> IF a \in old THEN h[a] ELSE h[id]]
  <2>1. g \in [old \union new -> Nat]
    BY DEF HeightsOK, old
  <2>2. ASSUME NEW a \in old \union new PROVE g[a] = h[from(a)]
    BY DEF from
  <2>3. \A a \in old : g[a] = h[a]
    OBVIOUS
  <2>4. \A a \in new : g[a] = h[id]
    BY <1>2 DEF new
  <2> HIDE DEF g
  <2>5. ASSUME NEW a \in old \union new, NEW p \in DOMAIN more[a].pivots
        PROVE  g[a] = g[more[a].pivots[p]] + 1
    <3>1. from(a) \in old /\ p \in DOMAIN nodes[from(a)].pivots
          /\ more[a].pivots[p] = nodes[from(a)].pivots[p]
      BY <1>9, <2>5
    <3>2. h[from(a)] = h[nodes[from(a)].pivots[p]] + 1
      BY <3>1 DEF HeightsOK, old
    <3>3. nodes[from(a)].pivots[p] \in old
      BY <3>1 DEF NodesOK, NodeOK, old
    <3>4. g[a] = h[from(a)]
      BY <2>2
    <3> QED BY <2>3, <3>1, <3>2, <3>3, <3>4
  <2>6. ASSUME NEW a \in old \union new, IsLeaf(more[a]) PROVE g[a] = 0 \/ a \in {id}
    <3>1. CASE a \in old
      BY <1>3, <2>3, <2>6, <3>1 DEF HeightsOK, old
    <3>2. CASE a \in new
      <4>0. PICK j \in Parts(n) : a = IdOf(j)
        BY <3>2 DEF new
      <4>1. IsLeaf(n)
        BY <1>3, <1>5, <2>6, <4>0
      <4>2. h[id] = 0
        BY <4>1 DEF HeightsOK, IsLeaf
      <4> QED BY <2>4, <3>2, <4>2
    <3> QED BY <3>1, <3>2
  <2>7. \A p \in DOMAIN parts : \A e \in {id} : g[parts[p]] = g[e]
    BY <1>4, <2>3, <2>4 DEF old
  <2>8. HeightsOK(g, more, parts, {id})
    BY <1>3, <2>1, <2>5, <2>6, <2>7 DEF HeightsOK
  <2> QED BY <2>8
<1> QED BY <1>8, <1>10, <1>11 DEF parts

\* The parts that the child on pivot p of a node was split into replace it.
Merges(nodes, id, p, parts, more, now) ==
    LET m == more[id]
    IN  /\ id \in DOMAIN nodes /\ p \in DOMAIN nodes[id].pivots
        /\ DOMAIN more = DOMAIN nodes \ {nodes[id].pivots[p]}
        /\ m = [pivots |-> Replace(nodes[id].pivots, p, parts), elements |-> m.elements,
                epsilon |-> m.epsilon, node_level |-> m.node_level,
                ready_for_adoption |-> m.ready_for_adoption]
        /\ m.elements \in Buffer(now)
        /\ \A i \in DOMAIN more : i # id => more[i] = nodes[i]

\* The parts of a child take its place, and it is gone.
LEMMA TreeMerge ==
  ASSUME NEW nodes, NEW top, NEW parts, NEW next, NEW now, NEW h, NEW id, NEW p, NEW more,
         NodesOK(nodes, top, parts, next, now), OwnersOK(nodes, top, parts),
         HeightsOK(h, nodes, parts, {nodes[id].pivots[p]}), parts # EmptyMap,
         Merges(nodes, id, p, parts, more, now)
  PROVE  /\ NodesOK(more, top, EmptyMap, next, now) /\ OwnersOK(more, top, EmptyMap)
         /\ \E g : HeightsOK(g, more, EmptyMap, {})
         /\ ~IsLeaf(more[id])
<1> DEFINE old   == DOMAIN nodes
           new   == DOMAIN more
           own   == nodes[id].pivots
           child == own[p]
           m     == more[id]
<1>0. /\ id \in old /\ p \in DOMAIN own
      /\ new = old \ {child}
      /\ m.pivots = Replace(own, p, parts)
      /\ m.elements \in Buffer(now)
      /\ \A i \in new : i # id => more[i] = nodes[i]
      /\ HeightsOK(h, nodes, parts, {child})
  BY DEF Merges
<1>1. /\ \A i \in old : NodeOK(nodes[i], old, now)
      /\ DOMAIN parts \subseteq Keys /\ parts \in [DOMAIN parts -> old]
      /\ \A q \in DOMAIN parts : parts[q] # child
      /\ DOMAIN own \subseteq Keys /\ own \in [DOMAIN own -> old]
      /\ child \in old /\ child # top /\ top \in old
      /\ child = own[p]
  BY <1>0 DEF NodesOK, NodeOK, OwnersOK
<1> HIDE DEF child
<1>2. id # child /\ id \in new
  <2>1. h[id] = h[child] + 1 /\ h[child] \in Nat
    BY <1>0, <1>1 DEF HeightsOK
  <2> QED BY <1>0, <2>1
<1>3. DOMAIN parts # {}
  BY <1>1, EmptyMapFacts
<1>4. /\ DOMAIN m.pivots = (DOMAIN own \ {p}) \union DOMAIN parts
      /\ \A k \in DOMAIN own \ {p} : m.pivots[k] = own[k]
      /\ \A k \in DOMAIN m.pivots : k \notin DOMAIN own \ {p} => m.pivots[k] = parts[k]
  BY <1>0 DEF Replace
<1>5. ~IsLeaf(m)
  BY <1>3, <1>4 DEF IsLeaf
<1>6. \A a \in old : \A k \in DOMAIN nodes[a].pivots :
         nodes[a].pivots[k] = child => a = id /\ k = p
  BY <1>0, <1>1 DEF OwnersOK
<1>7. ASSUME NEW k \in DOMAIN m.pivots
      PROVE  /\ m.pivots[k] \in new
             /\ \/ k \in DOMAIN parts /\ m.pivots[k] = parts[k]
                \/ k \in DOMAIN own /\ m.pivots[k] = own[k]
  <2>1. CASE k \notin DOMAIN own \ {p}
    BY <1>0, <1>1, <1>4, <1>7, <2>1
  <2>2. CASE k \in DOMAIN own \ {p}
    BY <1>0, <1>1, <1>4, <1>6, <2>2
  <2> QED BY <2>1, <2>2
<1>8. NodeOK(m, new, now)
  <2>1. m.pivots \in [DOMAIN m.pivots -> new]
    <3>1. m.pivots = [k \in DOMAIN m.pivots |-> m.pivots[k]]
      BY <1>0 DEF Replace
    <3> QED BY <1>7, <3>1
  <2>2. DOMAIN m.pivots \subseteq Keys
    BY <1>1, <1>4
  <2>3. m = [pivots |-> m.pivots, elements |-> m.elements, epsilon |-> m.epsilon,
             node_level |-> m.node_level, ready_for_adoption |-> m.ready_for_adoption]
    BY DEF Merges
  <2> QED BY <1>0, <1>5, <2>1, <2>2, <2>3 DEF NodeOK
<1>9. ASSUME NEW a \in new, a # id
      PROVE  NodeOK(more[a], new, now) /\ more[a] = nodes[a] /\ a \in old
  <2>1. more[a] = nodes[a] /\ NodeOK(nodes[a], old, now) /\ a \in old
    BY <1>0, <1>1, <1>9
  <2>2. \A k \in DOMAIN nodes[a].pivots : nodes[a].pivots[k] \in new
    BY <1>0, <1>6, <1>9, <2>1 DEF NodeOK
  <2>3. nodes[a].pivots \in [DOMAIN nodes[a].pivots -> new]
    BY <2>1, <2>2 DEF NodeOK
  <2> QED BY <2>1, <2>3 DEF NodeOK
<1>10. NodesOK(more, top, EmptyMap, next, now)
  <2>1. \A a \in new : NodeOK(more[a], new, now)
    BY <1>8, <1>9
  <2>2. top \in new /\ new \subseteq 1 .. next - 1 /\ next \in Nat /\ now \in Nat \ {0}
    BY <1>0, <1>1 DEF NodesOK
  <2>3. DOMAIN EmptyMap \subseteq Keys /\ EmptyMap \in [DOMAIN EmptyMap -> new]
    BY EmptyMapFacts DEF EmptyMap
  <2> QED BY <2>1, <2>2, <2>3 DEF NodesOK
<1> HIDE DEF old, new, own
\* A pivot there is now was one before, or led to a part.
<1>11. ASSUME NEW a \in new, NEW k \in DOMAIN more[a].pivots
       PROVE  \/ a \in old /\ k \in DOMAIN nodes[a].pivots /\ more[a].pivots[k] = nodes[a].pivots[k]
              \/ a = id /\ k \in DOMAIN parts /\ more[a].pivots[k] = parts[k]
  <2>1. CASE a = id
    BY <1>0, <1>7, <1>11, <2>1 DEF old, own
  <2>2. CASE a # id
    BY <1>9, <1>11, <2>2
  <2> QED BY <2>1, <2>2
<1>12. OwnersOK(more, top, EmptyMap)
  <2>1. ASSUME NEW a \in new, NEW b \in new,
               NEW k \in DOMAIN more[a].pivots, NEW q \in DOMAIN more[b].pivots,
               more[a].pivots[k] = more[b].pivots[q]
        PROVE  a = b /\ k = q
    <3>1. /\ \/ a \in old /\ k \in DOMAIN nodes[a].pivots /\ more[a].pivots[k] = nodes[a].pivots[k]
             \/ a = id /\ k \in DOMAIN parts /\ more[a].pivots[k] = parts[k]
          /\ \/ b \in old /\ q \in DOMAIN nodes[b].pivots /\ more[b].pivots[q] = nodes[b].pivots[q]
             \/ b = id /\ q \in DOMAIN parts /\ more[b].pivots[q] = parts[q]
      BY <1>11
    <3> QED BY <2>1, <3>1 DEF OwnersOK, old
  <2>2. ASSUME NEW a \in new, NEW k \in DOMAIN more[a].pivots PROVE more[a].pivots[k] # top
    BY <1>11 DEF OwnersOK, old
  <2>3. \A a, b \in DOMAIN more :
           \A k \in DOMAIN more[a].pivots : \A q \in DOMAIN more[b].pivots :
              more[a].pivots[k] = more[b].pivots[q] => a = b /\ k = q
    BY <2>1 DEF new
  <2>4. \A a \in DOMAIN more : \A k \in DOMAIN more[a].pivots : more[a].pivots[k] # top
    BY <2>2 DEF new
  <2> QED BY <2>3, <2>4, EmptyMapFacts DEF OwnersOK
<1>13. \E g : HeightsOK(g, more, EmptyMap, {})
  <2> DEFINE g == [a \in new |-> h[a]]
  <2>1. g \in [new -> Nat] /\ \A a \in new : g[a] = h[a]
    BY <1>0 DEF HeightsOK, new, old
  <2> HIDE DEF g
  <2>2. ASSUME NEW a \in new, NEW k \in DOMAIN more[a].pivots
        PROVE  g[a] = g[more[a].pivots[k]] + 1
    <3>1. more[a].pivots[k] \in new
      BY <1>8, <1>9 DEF NodeOK
    <3>2. h[a] = h[more[a].pivots[k]] + 1
      <4>1. CASE a \in old /\ k \in DOMAIN nodes[a].pivots /\ more[a].pivots[k] = nodes[a].pivots[k]
        BY <4>1 DEF HeightsOK, old
      <4>2. CASE a = id /\ k \in DOMAIN parts /\ more[a].pivots[k] = parts[k]
        BY <1>0, <1>1, <4>2 DEF HeightsOK, own, old
      <4> QED BY <1>11, <4>1, <4>2
    <3> QED BY <2>1, <3>1, <3>2
  <2>3. ASSUME NEW a \in new, IsLeaf(more[a]) PROVE g[a] = 0
    <3>1. a # id
      BY <1>0, <1>5, <2>3
    <3>2. more[a] = nodes[a] /\ a \in old /\ a # child
      BY <1>0, <1>9, <3>1 DEF new
    <3>3. h[a] = 0
      BY <1>0, <2>3, <3>2 DEF HeightsOK, old
    <3> QED BY <2>1, <3>3
  <2>4. HeightsOK(g, more, EmptyMap, {})
    BY <2>1, <2>2, <2>3 DEF HeightsOK, new
  <2> QED BY <2>4
<1> QED BY <1>0, <1>5, <1>10, <1>12, <1>13

\* The root gives way to one above the parts that it was split into.
Grows(nodes, top, parts, next, more) ==
    /\ DOMAIN more = (DOMAIN nodes \ {top}) \union {next}
    /\ \A i \in DOMAIN nodes : i # top => more[i] = nodes[i]
    /\ \E epsilon, level :
          more[next] = [pivots |-> parts, elements |-> {}, epsilon |-> epsilon,
                        node_level |-> level, ready_for_adoption |-> FALSE]

\* The tree then grows by a level, at the top.
LEMMA TreeGrow ==
  ASSUME NEW nodes, NEW top, NEW parts, NEW next, NEW now, NEW h, NEW more,
         NodesOK(nodes, top, parts, next, now), OwnersOK(nodes, top, parts),
         HeightsOK(h, nodes, parts, {top}), parts # EmptyMap,
         Grows(nodes, top, parts, next, more)
  PROVE  /\ NodesOK(more, next, EmptyMap, next + 1, now) /\ OwnersOK(more, next, EmptyMap)
         /\ \E g : HeightsOK(g, more, EmptyMap, {})
<1>0. PICK epsilon, level :
         more[next] = [pivots |-> parts, elements |-> {}, epsilon |-> epsilon,
                       node_level |-> level, ready_for_adoption |-> FALSE]
  BY DEF Grows
<1> DEFINE old == DOMAIN nodes
           new == DOMAIN more
           m   == more[next]
<1>1. /\ \A i \in old : NodeOK(nodes[i], old, now)
      /\ DOMAIN parts \subseteq Keys /\ parts \in [DOMAIN parts -> old]
      /\ \A q \in DOMAIN parts : parts[q] # top
      /\ new = (old \ {top}) \union {next} /\ \A i \in old : i # top => more[i] = nodes[i]
      /\ \A i \in old : \A k \in DOMAIN nodes[i].pivots : nodes[i].pivots[k] # top
      /\ top \in old /\ next \in Nat /\ old \subseteq 1 .. next - 1 /\ next \notin old
  BY DEF NodesOK, OwnersOK, Grows
<1>2. DOMAIN parts # {}
  BY <1>1, EmptyMapFacts
<1>3. m.pivots = parts /\ ~IsLeaf(m)
  BY <1>0, <1>2 DEF IsLeaf
<1>4. NodeOK(m, new, now)
  <2>1. parts \in [DOMAIN parts -> new]
    BY <1>1
  <2>2. {} \in Buffer(now)
    BY FS_EmptySet DEF Buffer
  <2> QED BY <1>0, <1>1, <1>3, <2>1, <2>2 DEF NodeOK
<1>5. ASSUME NEW a \in new, a # next
      PROVE  NodeOK(more[a], new, now) /\ more[a] = nodes[a] /\ a \in old /\ a # top
  <2>1. more[a] = nodes[a] /\ NodeOK(nodes[a], old, now) /\ a \in old /\ a # top
    BY <1>1, <1>5
  <2>2. \A k \in DOMAIN nodes[a].pivots : nodes[a].pivots[k] \in new
    BY <1>1, <2>1 DEF NodeOK
  <2>3. nodes[a].pivots \in [DOMAIN nodes[a].pivots -> new]
    BY <2>1, <2>2 DEF NodeOK
  <2> QED BY <2>1, <2>3 DEF NodeOK
<1>6. NodesOK(more, next, EmptyMap, next + 1, now)
  <2>1. \A a \in new : NodeOK(more[a], new, now)
    BY <1>4, <1>5
  <2>2. next \in new /\ new \subseteq 1 .. (next + 1) - 1 /\ next + 1 \in Nat /\ now \in Nat \ {0}
    BY <1>1 DEF NodesOK
  <2>3. DOMAIN EmptyMap \subseteq Keys /\ EmptyMap \in [DOMAIN EmptyMap -> new]
    BY EmptyMapFacts DEF EmptyMap
  <2> QED BY <2>1, <2>2, <2>3 DEF NodesOK
<1> HIDE DEF old, new
<1>7. ASSUME NEW a \in new, NEW k \in DOMAIN more[a].pivots
      PROVE  \/ a \in old /\ a # next /\ k \in DOMAIN nodes[a].pivots
                /\ more[a].pivots[k] = nodes[a].pivots[k]
             \/ a = next /\ k \in DOMAIN parts /\ more[a].pivots[k] = parts[k]
  <2>1. CASE a = next
    BY <1>3, <1>7, <2>1
  <2>2. CASE a # next
    BY <1>5, <1>7, <2>2
  <2> QED BY <2>1, <2>2
<1>8. OwnersOK(more, next, EmptyMap)
  <2>1. ASSUME NEW a \in new, NEW b \in new,
               NEW k \in DOMAIN more[a].pivots, NEW q \in DOMAIN more[b].pivots,
               more[a].pivots[k] = more[b].pivots[q]
        PROVE  a = b /\ k = q
    BY <1>7, <2>1 DEF OwnersOK, old
  <2>2. ASSUME NEW a \in new, NEW k \in DOMAIN more[a].pivots PROVE more[a].pivots[k] # next
    <3>1. more[a].pivots[k] \in old
      BY <1>1, <1>7 DEF NodeOK
    <3> QED BY <1>1, <3>1
  <2>3. \A a, b \in DOMAIN more :
           \A k \in DOMAIN more[a].pivots : \A q \in DOMAIN more[b].pivots :
              more[a].pivots[k] = more[b].pivots[q] => a = b /\ k = q
    BY <2>1 DEF new
  <2>4. \A a \in DOMAIN more : \A k \in DOMAIN more[a].pivots : more[a].pivots[k] # next
    BY <2>2 DEF new
  <2> QED BY <2>3, <2>4, EmptyMapFacts DEF OwnersOK
<1>9. \E g : HeightsOK(g, more, EmptyMap, {})
  <2> DEFINE g == [a \in new |-> IF a = next THEN h[top] + 1 ELSE h[a]]
  <2>1. /\ \A a \in old : h[a] \in Nat
        /\ g \in [new -> Nat] /\ g[next] = h[top] + 1
        /\ \A a \in new : a # next => g[a] = h[a]
        /\ next \in new
    <3>1. \A a \in old : h[a] \in Nat
      BY DEF HeightsOK, old
    <3>2. \A a \in new : a # next => a \in old
      BY <1>5
    <3>3. next \in new /\ top \in old
      BY <1>1 DEF new
    <3> QED BY <3>1, <3>2, <3>3
  <2> HIDE DEF g
  <2>2. ASSUME NEW a \in new, NEW k \in DOMAIN more[a].pivots
        PROVE  g[a] = g[more[a].pivots[k]] + 1
    <3>1. more[a].pivots[k] \in new /\ more[a].pivots[k] # next
      <4>1. more[a].pivots[k] \in new
        BY <1>4, <1>5 DEF NodeOK
      <4>2. more[a].pivots[k] \in old
        BY <1>1, <1>7 DEF NodeOK
      <4> QED BY <1>1, <4>1, <4>2
    <3>2. g[more[a].pivots[k]] = h[more[a].pivots[k]]
      BY <2>1, <3>1
    <3>3. CASE a # next /\ a \in old /\ k \in DOMAIN nodes[a].pivots
               /\ more[a].pivots[k] = nodes[a].pivots[k]
      <4>1. h[a] = h[more[a].pivots[k]] + 1
        BY <3>3 DEF HeightsOK, old
      <4> QED BY <2>1, <3>2, <3>3, <4>1
    <3>4. CASE a = next /\ k \in DOMAIN parts /\ more[a].pivots[k] = parts[k]
      <4>1. h[more[a].pivots[k]] = h[top]
        BY <3>4 DEF HeightsOK
      <4> QED BY <2>1, <3>2, <3>4, <4>1
    <3> QED BY <1>7, <3>3, <3>4
  <2>3. ASSUME NEW a \in new, IsLeaf(more[a]) PROVE g[a] = 0
    <3>1. a # next
      BY <1>3, <2>3
    <3>2. more[a] = nodes[a] /\ a \in old /\ a # top
      BY <1>5, <3>1
    <3>3. h[a] = 0
      BY <2>3, <3>2 DEF HeightsOK, old
    <3> QED BY <2>1, <3>1, <3>3
  <2>4. HeightsOK(g, more, EmptyMap, {})
    BY <2>1, <2>2, <2>3 DEF HeightsOK, new
  <2> QED BY <2>4
<1> QED BY <1>6, <1>8, <1>9

\* The messages of a pivot are a batch that may be flushed.
LEMMA BatchIn ==
  ASSUME NEW n, NEW ids, NEW now, NodeOK(n, ids, now), NEW p
  PROVE  Batch(n, p) \in Buffer(now) /\ BatchSize(n, p) \in Nat
<1>1. Batch(n, p) \subseteq n.elements
  BY DEF Batch
<1>2. IsFiniteSet(Batch(n, p)) /\ Batch(n, p) \in Buffer(now)
  BY <1>1, FS_Subset DEF NodeOK, Buffer
<1> QED BY <1>2, FS_CardinalityType DEF BatchSize

\* A node with children has a child with the most messages.
LEMMA LargestIn ==
  ASSUME NEW n, NEW ids, NEW now, NodeOK(n, ids, now), ~IsLeaf(n)
  PROVE  Largest(n) \in DOMAIN n.pivots
<1> DEFINE D    == DOMAIN n.pivots
           size == [p \in D |-> BatchSize(n, p)]
<1>1. D \in SUBSET Int /\ IsFiniteSet(D) /\ D # {}
  BY KeysAssumption, FS_Subset DEF NodeOK, IsLeaf
<1>2. \A p \in D : size[p] \in Int /\ size[p] = BatchSize(n, p)
  BY BatchIn
<1>3. PICK x \in D : \A y \in D : size[y] <= size[x]
  <2> HIDE DEF D, size
  <2> QED BY <1>1, <1>2, Greatest
<1> DEFINE most == {p \in D : size[p] = size[x]}
<1>4. most \in SUBSET Int /\ IsFiniteSet(most) /\ x \in most /\ most \subseteq D
  BY <1>1, FS_Subset
<1>5. Min(most) \in most /\ \A y \in most : Min(most) <= y
  <2> HIDE DEF most
  <2> QED BY <1>4, FiniteMaxMin
<1> DEFINE z == Min(most)
<1> HIDE DEF z
<1>6. z \in D /\ size[z] = size[x] /\ \A y \in D : size[y] = size[x] => z <= y
  BY <1>4, <1>5 DEF z
<1>7. \A p \in D : p \in Int /\ size[p] \in Int
  BY <1>1, <1>2
<1> HIDE DEF size, most, D
<1>8. \A q \in D : size[z] > size[q] \/ (size[z] = size[q] /\ z <= q)
  <2> SUFFICES ASSUME NEW q \in D PROVE size[z] > size[q] \/ (size[z] = size[q] /\ z <= q)
    OBVIOUS
  <2>1. size[q] <= size[z]
    BY <1>3, <1>6
  <2> QED BY <1>6, <1>7, <2>1
<1>9. \A q \in D : \/ BatchSize(n, z) > BatchSize(n, q)
                   \/ BatchSize(n, z) = BatchSize(n, q) /\ z <= q
  BY <1>2, <1>6, <1>8
<1>10. \E p \in DOMAIN n.pivots :
          \A q \in DOMAIN n.pivots :
             \/ BatchSize(n, p) > BatchSize(n, q)
             \/ BatchSize(n, p) = BatchSize(n, q) /\ p <= q
  BY <1>6, <1>9 DEF D
<1> QED BY <1>10, Zenon DEF Largest

\* The first pivot of a node is lowered to the first key of a batch.
LEMMA RekeyedOK ==
  ASSUME NEW n, NEW ids, NEW now, NodeOK(n, ids, now), ~IsLeaf(n),
         NEW batch \in Buffer(now), batch # {}
  PROVE  LET r   == Rekeyed(n, batch)
             low == Min({m.key : m \in batch})
         IN  /\ NodeOK(r, ids, now) /\ ~IsLeaf(r) /\ r.elements = n.elements
             /\ SameOwned(r, n)
             /\ low \in Keys /\ GetPivot(r, low) \in DOMAIN r.pivots
<1> DEFINE r     == Rekeyed(n, batch)
           keys  == {m.key : m \in batch}
           low   == Min(keys)
           first == FirstPivot(n)
           own   == n.pivots
<1>1. low \in Keys /\ low \in Int
  <2>1. keys \in SUBSET Keys /\ keys # {}
    BY DEF Buffer, Message
  <2> HIDE DEF keys
  <2>2. low \in keys
    BY <2>1, KeysAssumption, FS_Subset, FiniteMaxMin
  <2> QED BY <2>1, <2>2, KeysAssumption
<1>2. first \in DOMAIN own /\ \A p \in DOMAIN own : p \in Int /\ first <= p
  BY PivotFacts
<1> HIDE DEF low, first
<1>3. CASE low < first
  <2> DEFINE moved == Replace(own, first, [k \in {low} |-> own[first]])
  <2>1. r = [n EXCEPT !.pivots = moved]
    BY <1>3 DEF Rekeyed, low, first
  <2>2. /\ DOMAIN moved = (DOMAIN own \ {first}) \union {low}
        /\ moved[low] = own[first]
        /\ \A k \in DOMAIN own : k # first => moved[k] = own[k]
        /\ moved = [k \in DOMAIN moved |-> moved[k]]
    BY <1>1, <1>2, <1>3 DEF Replace
  <2> HIDE DEF moved
  <2>3. /\ r = [pivots |-> moved, elements |-> n.elements, epsilon |-> n.epsilon,
                node_level |-> n.node_level, ready_for_adoption |-> n.ready_for_adoption]
    <3>1. n = [pivots |-> n.pivots, elements |-> n.elements, epsilon |-> n.epsilon,
               node_level |-> n.node_level, ready_for_adoption |-> n.ready_for_adoption]
      BY DEF NodeOK
    <3> QED BY <2>1, <3>1
  <2> DEFINE o == [k \in DOMAIN moved |-> IF k = low THEN first ELSE k]
  <2>4. /\ o \in [DOMAIN moved -> DOMAIN own]
        /\ \A k \in DOMAIN moved : moved[k] = own[o[k]]
        /\ \A p, q \in DOMAIN moved : o[p] = o[q] => p = q
    BY <1>1, <1>2, <1>3, <2>2
  <2>5. SameOwned(r, n)
    <3>1. r.pivots = moved
      BY <2>3
    <3> HIDE DEF o, r
    <3> QED BY <2>4, <3>1 DEF SameOwned
  <2> HIDE DEF o, r
  <2>6. ~IsLeaf(r)
    BY <2>2, <2>3 DEF IsLeaf
  <2>7. NodeOK(r, ids, now)
    <3>1. moved \in [DOMAIN moved -> ids]
      BY <2>2, <2>4 DEF NodeOK
    <3>2. DOMAIN moved \subseteq Keys
      BY <1>1, <2>2 DEF NodeOK
    <3> QED BY <2>3, <2>6, <3>1, <3>2 DEF NodeOK
  <2>8. FirstPivot(r) <= low
    <3>1. low \in DOMAIN r.pivots
      BY <2>2, <2>3
    <3> QED BY <2>6, <2>7, <3>1, PivotFacts
  <2>9. GetPivot(r, low) \in DOMAIN r.pivots
    BY <1>1, <2>6, <2>7, <2>8, PivotFacts
  <2> QED BY <1>1, <2>3, <2>5, <2>6, <2>7, <2>9 DEF r, low
<1>4. CASE ~(low < first)
  <2>1. r = n
    BY <1>4 DEF Rekeyed, low, first
  <2>2. first <= low /\ first \in Int
    BY <1>1, <1>2, <1>4
  <2>3. GetPivot(n, low) \in DOMAIN n.pivots
    BY <1>1, <2>2, PivotFacts DEF first
  <2>4. SameOwned(n, n)
    <3> DEFINE o == [k \in DOMAIN n.pivots |-> k]
    <3>1. /\ o \in [DOMAIN n.pivots -> DOMAIN n.pivots]
          /\ \A p, q \in DOMAIN n.pivots : o[p] = o[q] => p = q
          /\ \A p \in DOMAIN n.pivots : n.pivots[p] = n.pivots[o[p]]
      OBVIOUS
    <3> QED BY <3>1 DEF SameOwned
  <2> HIDE DEF r
  <2> QED BY <1>1, <2>1, <2>3, <2>4 DEF low, r
<1> QED BY <1>3, <1>4

-----------------------------------------------------------------------------
(* What the steps have in common. *)

\* A node with the same pivots owns the same nodes.
LEMMA SamePivots ==
  ASSUME NEW n, NEW m, m.pivots = n.pivots
  PROVE  SameOwned(m, n)
<1> DEFINE o == [p \in DOMAIN n.pivots |-> p]
<1>1. /\ o \in [DOMAIN n.pivots -> DOMAIN n.pivots]
      /\ \A p, q \in DOMAIN n.pivots : o[p] = o[q] => p = q
      /\ \A p \in DOMAIN n.pivots : n.pivots[p] = n.pivots[o[p]]
  OBVIOUS
<1> HIDE DEF o
<1> QED BY <1>1 DEF SameOwned

\* A frame below the running one is that of another node.
LEMMA TopFacts ==
  ASSUME IInv, stack # << >>
  PROVE  /\ stack \in Seq(Flushes(next_timestamp) \union Queries)
         /\ Len(stack) \in Nat \ {0} /\ Top = stack[Len(stack)]
         /\ Top \in Flushes(next_timestamp) \union Queries
         /\ FrameOK(Top, node) /\ NodeOK(Current, DOMAIN node, next_timestamp)
         /\ \A i \in 1 .. Len(stack) - 1 : stack[i].id \in DOMAIN node /\ stack[i].id # Top.id
         /\ PinnedBy(Front(stack)) \subseteq PinnedBy(stack)
         /\ PinnedBy(stack) \subseteq Cache!Resident(cache)
         /\ Top.pc \notin {"direct", "batch"} => returned = EmptyMap
         /\ Top.fn = "flush" => call = "upsert"
<1> DEFINE F == Flushes(next_timestamp) \union Queries
<1>1. stack \in Seq(F) /\ FramesOK(stack, node, root, returned, call, next_timestamp)
  BY DEF IInv, FramesOK
<1>2. Len(stack) \in Nat \ {0} /\ Top = stack[Len(stack)] /\ Top \in F
  <2> HIDE DEF F
  <2> QED BY <1>1, FrontAndLast DEF Top
<1>3. FrameOK(Top, node)
  BY <1>1, <1>2 DEF FramesOK
<1>4. NodeOK(Current, DOMAIN node, next_timestamp)
  BY <1>3 DEF FrameOK, IInv, NodesOK, Current
<1>5. ASSUME NEW i \in 1 .. Len(stack) - 1 PROVE stack[i].id \in DOMAIN node /\ stack[i].id # Top.id
  <2>1. PICK h : HeightsOK(h, node, returned, Emptied(stack, node, root, returned))
    BY DEF IInv
  <2>2. h[stack[i].id] > h[stack[Len(stack)].id]
    BY <1>1, <2>1, Descending
  <2>3. FrameOK(stack[i], node)
    BY <1>1, <1>2 DEF FramesOK
  <2>4. h[Top.id] \in Nat
    BY <1>3, <2>1 DEF FrameOK, HeightsOK
  <2> QED BY <1>2, <2>2, <2>3, <2>4 DEF FrameOK
<1>6. PinnedBy(Front(stack)) \subseteq PinnedBy(stack)
  <2> HIDE DEF F
  <2> QED BY <1>1, PinnedPopped
<1>7. PinnedBy(stack) \subseteq Cache!Resident(cache)
  BY DEF IInv, PinnedInMemory
<1>8. Top.pc \notin {"direct", "batch"} => returned = EmptyMap
  BY <1>1, <1>2 DEF FramesOK
<1>9. Top.fn = "flush" => call = "upsert"
  BY <1>1, <1>2 DEF FramesOK
<1> QED BY <1>1, <1>2, <1>3, <1>4, <1>5, <1>6, <1>7, <1>8, <1>9

\* A new activation of a node.
LEMMA FlushIn ==
  ASSUME NEW nodes, NEW id \in DOMAIN nodes, DOMAIN nodes \subseteq Nat,
         NEW now, NEW arg \in Buffer(now), arg # {}
  PROVE  LET g == Activation("flush", id, arg)
         IN  /\ g \in Flushes(now) \union Queries /\ FrameOK(g, nodes)
             /\ g.fn = "flush" /\ g.id = id
<1> DEFINE g == Activation("flush", id, arg)
<1>1. PICK pc \in {"count", "enter"} :
         g = [fn |-> "flush", id |-> id, arg |-> arg, pivot |-> 0, pc |-> pc]
  BY DEF Activation
<1> HIDE DEF g
<1>2. g.fn = "flush" /\ g.id = id /\ g.pc \in {"count", "enter"}
  BY <1>1
<1>3. FrameOK(g, nodes)
  BY <1>2 DEF FrameOK
<1>4. g \in Flushes(now)
  BY <1>1 DEF Flushes
<1> QED BY <1>2, <1>3, <1>4 DEF g

\* The same for node::query.
LEMMA QueryIn ==
  ASSUME NEW nodes, NEW id \in DOMAIN nodes, DOMAIN nodes \subseteq Nat,
         NEW now, NEW arg \in Keys
  PROVE  LET g == Activation("query", id, arg)
         IN  /\ g \in Flushes(now) \union Queries /\ FrameOK(g, nodes)
             /\ g.fn = "query" /\ g.id = id
<1> DEFINE g == Activation("query", id, arg)
<1>1. PICK pc \in {"count", "enter"} :
         g = [fn |-> "query", id |-> id, arg |-> arg, pivot |-> 0, pc |-> pc]
  BY DEF Activation
<1> HIDE DEF g
<1>2. g.fn = "query" /\ g.id = id /\ g.pc \in {"count", "enter"}
  BY <1>1
<1>3. FrameOK(g, nodes)
  BY <1>2 DEF FrameOK
<1>4. g \in Queries
  BY <1>1 DEF Queries
<1> QED BY <1>2, <1>3, <1>4 DEF g

\* The frames after a call of a child, with the caller where it waits for it.
LEMMA FramesDown ==
  ASSUME NEW st, NEW nodes, NEW top, NEW client, NEW now,
         FramesOK(st, nodes, top, EmptyMap, client, now), st # << >>,
         NEW more,
         \A i \in 1 .. Len(st) - 1 : /\ st[i].id \in DOMAIN more
                                     /\ more[st[i].id].pivots = nodes[st[i].id].pivots,
         NEW f \in Flushes(now) \union Queries, FrameOK(f, more),
         f.id = st[Len(st)].id, f.fn = st[Len(st)].fn,
         NEW g \in Flushes(now) \union Queries, FrameOK(g, more),
         Waits(f, g, more), g.fn = f.fn
  PROVE  FramesOK(Append(Append(Front(st), f), g), more, top, EmptyMap, client, now)
<1> DEFINE F   == Flushes(now) \union Queries
           new == Append(Front(st), f)
<1>1. FramesOK(new, more, top, EmptyMap, client, now)
  BY FramesStep
<1>2. /\ new # << >> /\ Len(new) = Len(st) /\ new[Len(st)] = f
  <2>1. st \in Seq(F)
    BY DEF FramesOK
  <2> HIDE DEF F
  <2> QED BY <2>1, Replaced DEF F
<1> HIDE DEF new
<1>3. FramesOK(Append(new, g), more, top, EmptyMap, client, now)
  BY <1>1, <1>2, FramesCall
<1> QED BY <1>3 DEF new

\* The cache and the pins after a call ...
LEMMA CallPins ==
  ASSUME NEW c, NEW ids, CacheOK(c, ids), NEW F, NEW frames \in Seq(F), NEW g \in F,
         g.id \in ids, PinnedBy(frames) \subseteq Cache!Resident(c)
  PROVE  LET used == Cache!Access(c, g.id, PinnedBy(frames))
         IN  CacheOK(used, ids) /\ PinnedBy(Append(frames, g)) \subseteq Cache!Resident(used)
<1> DEFINE pinned == PinnedBy(frames)
           o      == g.id
           used   == Cache!Access(c, o, pinned)
<1>1. PinnedBy(Append(frames, g)) = pinned \union {o}
  BY PinnedPushed
<1>2. pinned \in SUBSET Cache!Resident(c) /\ o \in ids
  OBVIOUS
<1> HIDE DEF pinned, o
<1>3. CacheOK(used, ids) /\ pinned \union {o} \subseteq Cache!Resident(used)
  BY <1>2, AccessKeeps
<1> QED BY <1>1, <1>3 DEF pinned, o

\* ... and after a return.
LEMMA ReturnPins ==
  ASSUME NEW c, NEW ids, CacheOK(c, ids), NEW pinned, pinned \subseteq Cache!Resident(c)
  PROVE  LET left == Cache!Evict(c, pinned)
         IN  CacheOK(left, ids) /\ pinned \subseteq Cache!Resident(left)
  BY EvictKeeps

-----------------------------------------------------------------------------
(* The steps. *)

\* A node with other messages.
LEMMA ElementsOK ==
  ASSUME NEW n, NEW ids, NEW now, NodeOK(n, ids, now), NEW es \in Buffer(now),
         IsLeaf(n) => Inserts(es)
  PROVE  LET m == [n EXCEPT !.elements = es]
         IN  NodeOK(m, ids, now) /\ m.pivots = n.pivots /\ m.elements = es
<1> DEFINE m == [n EXCEPT !.elements = es]
<1>1. n = [pivots |-> n.pivots, elements |-> n.elements, epsilon |-> n.epsilon,
           node_level |-> n.node_level, ready_for_adoption |-> n.ready_for_adoption]
  BY DEF NodeOK
<1>2. m = [pivots |-> n.pivots, elements |-> es, epsilon |-> n.epsilon,
           node_level |-> n.node_level, ready_for_adoption |-> n.ready_for_adoption]
  BY <1>1
<1> HIDE DEF m
<1>3. NodeOK(m, ids, now) /\ m.pivots = n.pivots /\ m.elements = es
  BY <1>2 DEF NodeOK, IsLeaf
<1> QED BY <1>3 DEF m

\* The end of a flush() that leaves n, with the pivots there are, in its node.
LEMMA FinishKeeps ==
  ASSUME IInv, stack # << >>, Top.fn = "flush", returned = EmptyMap,
         NEW n, NodeOK(n, DOMAIN node, next_timestamp), n.pivots = Current.pivots,
         NEW splits \in BOOLEAN, splits => n.elements # {} \/ ~IsLeaf(n),
         Finish(n, splits)
  PROVE  IInv'
<1>1. /\ stack \in Seq(Flushes(next_timestamp) \union Queries)
      /\ Len(stack) \in Nat \ {0} /\ Top = stack[Len(stack)]
      /\ Top.id \in DOMAIN node
      /\ \A i \in 1 .. Len(stack) - 1 : stack[i].id \in DOMAIN node /\ stack[i].id # Top.id
      /\ PinnedBy(Front(stack)) \subseteq PinnedBy(stack)
      /\ PinnedBy(stack) \subseteq Cache!Resident(cache)
  BY TopFacts DEF FrameOK
<1>2. /\ NodesOK(node, root, EmptyMap, next_id, next_timestamp)
      /\ OwnersOK(node, root, EmptyMap)
      /\ FramesOK(stack, node, root, EmptyMap, call, next_timestamp)
      /\ CacheOK(cache, DOMAIN node)
  BY DEF IInv
<1>3. PICK h : HeightsOK(h, node, EmptyMap, {})
  BY DEF IInv, Emptied
<1>4. /\ root' = root /\ next_timestamp' = next_timestamp /\ call' = call
      /\ stack' = Front(stack)
  BY DEF Finish, Return
<1>5. CASE splits
  <2> DEFINE parts == SplitResult(n)
             new   == {IdOf(j) : j \in Parts(n)}
             split == SplitCache(n, cache, PinnedBy(stack))
             shell == [n EXCEPT !.pivots = EmptyMap, !.elements = {}]
  <2>1. /\ returned' = parts /\ next_id' = next_id + NumNew(n)
        /\ cache' = Cache!Evict(split, PinnedBy(Front(stack)))
        /\ node' = [i \in DOMAIN node \union new |->
                       IF i = Top.id THEN shell
                       ELSE IF i \in DOMAIN node THEN node[i] ELSE Part(n, i - next_id)]
    BY <1>5 DEF Finish, Return
  <2> HIDE DEF parts, split, shell
  <2>2. /\ DOMAIN node' = DOMAIN node \union new
        /\ node'[Top.id] = shell
        /\ \A i \in DOMAIN node : i # Top.id => node'[i] = node[i]
        /\ \A i \in DOMAIN node' : i \notin DOMAIN node => node'[i] = Part(n, i - next_id)
    <3> HIDE DEF new
    <3> QED BY <1>1, <2>1
  <2>3. n.elements # {} \/ ~IsLeaf(n)
    BY <1>5
  <2>4. /\ NodesOK(node', root, parts, next_id + NumNew(n), next_timestamp)
        /\ OwnersOK(node', root, parts)
        /\ \E g : HeightsOK(g, node', parts, {Top.id})
    <3> HIDE DEF new
    <3> QED BY <1>1, <1>2, <1>3, <2>2, <2>3, TreeSplit DEF parts, shell, Current, new
  <2>5. parts # EmptyMap
    BY <2>3, <1>2, SplitResultOK DEF parts, NodesOK
  <2>6. /\ FramesOK(Front(stack), node', root, parts, call, next_timestamp)
        /\ Emptied(Front(stack), node', root, parts) = {Top.id}
    <3>1. \A i \in 1 .. Len(stack) - 1 : /\ stack[i].id \in DOMAIN node'
                                         /\ node'[stack[i].id].pivots = node[stack[i].id].pivots
      BY <1>1, <2>2
    <3>2. stack[Len(stack)].fn = "flush" /\ stack[Len(stack)].id = Top.id
      BY <1>1
    <3>3. FramesOK(stack, node, root, EmptyMap, call, next_timestamp)
      BY <1>2
    <3>4. FramesOK(Front(stack), node', root, parts, call, next_timestamp)
      BY <3>1, <3>2, <3>3, FramesReturn
    <3>5. Emptied(Front(stack), node', root, parts) = {stack[Len(stack)].id}
      BY <2>5, <3>1, <3>2, <3>3, EmptiedReturn
    <3> QED BY <3>2, <3>4, <3>5
  <2>7. CacheOK(split, DOMAIN node') /\ PinnedBy(stack) \subseteq Cache!Resident(split)
    <3>1. next_id \in Nat /\ DOMAIN node \subseteq 1 .. next_id - 1
      BY <1>2 DEF NodesOK
    <3> DEFINE pinned == PinnedBy(stack)
    <3>2. pinned \in SUBSET Cache!Resident(cache)
      BY <1>1
    <3> HIDE DEF pinned
    <3>3. /\ CacheOK(SplitCache(n, cache, pinned), DOMAIN node \union new)
          /\ pinned \subseteq Cache!Resident(SplitCache(n, cache, pinned))
      BY <1>2, <2>3, <3>1, <3>2, SplitCacheKeeps
    <3> QED BY <2>2, <3>3 DEF split, pinned
  <2>8. CacheOK(cache', DOMAIN node') /\ PinnedBy(stack') \subseteq Cache!Resident(cache')
    <3> DEFINE pinned == PinnedBy(Front(stack))
    <3>1. pinned \subseteq Cache!Resident(split)
      BY <1>1, <2>7
    <3> HIDE DEF pinned
    <3>2. /\ CacheOK(Cache!Evict(split, pinned), DOMAIN node')
          /\ pinned \subseteq Cache!Resident(Cache!Evict(split, pinned))
      BY <2>7, <3>1, ReturnPins
    <3> QED BY <1>4, <2>1, <3>2 DEF pinned
  <2> QED BY <1>4, <2>1, <2>4, <2>6, <2>8 DEF IInv, PinnedInMemory
<1>6. CASE ~splits
  <2>1. /\ returned' = EmptyMap /\ next_id' = next_id
        /\ cache' = Cache!Evict(cache, PinnedBy(Front(stack)))
        /\ node' = [node EXCEPT ![Top.id] = n]
    BY <1>6 DEF Finish, Return
  <2>2. /\ NodesOK(node', root, EmptyMap, next_id, next_timestamp)
        /\ OwnersOK(node', root, EmptyMap) /\ HeightsOK(h, node', EmptyMap, {})
    <3>1. SameOwned(n, node[Top.id]) /\ (IsLeaf(n) => IsLeaf(node[Top.id]))
      BY SamePivots DEF IsLeaf, Current
    <3>2. /\ DOMAIN node' = DOMAIN node /\ node'[Top.id] = n
          /\ \A i \in DOMAIN node : i # Top.id => node'[i] = node[i]
      BY <1>1, <2>1
    <3> QED BY <1>1, <1>2, <1>3, <3>1, <3>2, TreeStep
  <2>3. FramesOK(Front(stack), node', root, EmptyMap, call, next_timestamp)
    <3>1. \A i \in 1 .. Len(stack) - 1 : /\ stack[i].id \in DOMAIN node'
                                         /\ node'[stack[i].id].pivots = node[stack[i].id].pivots
      BY <1>1, <2>1
    <3> QED BY <1>1, <1>2, <3>1, FramesReturn
  <2>4. DOMAIN node' = DOMAIN node
    BY <2>1
  <2>5. CacheOK(cache', DOMAIN node') /\ PinnedBy(stack') \subseteq Cache!Resident(cache')
    <3> DEFINE pinned == PinnedBy(Front(stack))
    <3>1. pinned \subseteq Cache!Resident(cache)
      BY <1>1
    <3> HIDE DEF pinned
    <3>2. /\ CacheOK(Cache!Evict(cache, pinned), DOMAIN node)
          /\ pinned \subseteq Cache!Resident(Cache!Evict(cache, pinned))
      BY <1>2, <3>1, ReturnPins
    <3> QED BY <1>4, <2>1, <2>4, <3>2 DEF pinned
  <2> QED BY <1>4, <2>1, <2>2, <2>3, <2>5 DEF IInv, PinnedInMemory, Emptied
<1> QED BY <1>5, <1>6

\* A leaf takes the messages and may be split.
LEMMA FlushLeafKeeps ==
  ASSUME IInv, FlushLeaf
  PROVE  IInv'
<1> DEFINE applied == [Current EXCEPT !.elements = ApplyAll(@, Top.arg, TRUE)]
           splits  == Cardinality(applied.elements) >= MaxMessages
<1>1. stack # << >> /\ Top.fn = "flush" /\ Top.pc = "enter" /\ IsLeaf(Current)
      /\ Finish(applied, splits)
  BY DEF FlushLeaf, Running
<1>2. /\ Top \in Flushes(next_timestamp) \union Queries
      /\ NodeOK(Current, DOMAIN node, next_timestamp)
      /\ returned = EmptyMap
      /\ Top.id \in PinnedBy(stack) /\ PinnedBy(stack) \subseteq Cache!Resident(cache)
  <2>1. Top.id \in PinnedBy(stack)
    BY <1>1, TopFacts DEF PinnedBy
  <2> QED BY <1>1, <2>1, TopFacts
<1>3. Top.arg \in Buffer(next_timestamp)
  BY <1>1, <1>2 DEF Flushes, Queries
<1> DEFINE es == ApplyAll(Current.elements, Top.arg, TRUE)
<1>4. es \in Buffer(next_timestamp) /\ Inserts(es)
  <2>1. Current.elements \in Buffer(next_timestamp) /\ Inserts(Current.elements)
    BY <1>1, <1>2 DEF NodeOK
  <2> QED BY <1>3, <2>1, ApplyAllKeeps
<1>5. applied = [Current EXCEPT !.elements = es]
  OBVIOUS
<1> HIDE DEF es, applied
<1>6. NodeOK(applied, DOMAIN node, next_timestamp) /\ applied.pivots = Current.pivots
  BY <1>2, <1>4, <1>5, ElementsOK
<1>7. ASSUME splits PROVE applied.elements # {}
  <2>1. SUFFICES ASSUME applied.elements = {} PROVE FALSE
    OBVIOUS
  <2>2. Cardinality(applied.elements) = 0
    BY <2>1, FS_EmptySet
  <2>3. cache.members[Top.id].max_pivots \in 0 .. NodeSize - 1
    BY <1>2 DEF IInv, CacheOK
  <2> QED BY <1>7, <2>2, <2>3, SizeAssumption DEF MaxMessages, MaxPivots
<1>8. splits \in BOOLEAN
  OBVIOUS
<1> HIDE DEF splits
<1> QED BY <1>1, <1>2, <1>6, <1>7, <1>8, FinishKeeps

\* The running activation calls one of a child, and may have changed its own node.
LEMMA DownKeeps ==
  ASSUME IInv, stack # << >>, returned = EmptyMap,
         NEW n, NodeOK(n, DOMAIN node, next_timestamp),
         SameOwned(n, Current), IsLeaf(n) => IsLeaf(Current),
         DOMAIN node' = DOMAIN node, node'[Top.id] = n,
         \A i \in DOMAIN node : i # Top.id => node'[i] = node[i],
         NEW pc, NEW pivot \in Int, NEW id, NEW arg,
         \/ /\ Top.fn = "flush" /\ pc \in {"direct", "batch"}
            /\ pivot \in DOMAIN n.pivots /\ id = n.pivots[pivot]
            /\ arg \in Buffer(next_timestamp) /\ arg # {}
         \/ /\ Top.fn = "query" /\ pc = "below"
            /\ \E p \in DOMAIN n.pivots : id = n.pivots[p]
            /\ arg \in Keys,
         Call(At(pc, pivot), Top.fn, id, arg),
         UNCHANGED <<root, next_id, next_timestamp, returned, call>>
  PROVE  IInv'
<1> DEFINE f == [Top EXCEPT !.pc = pc, !.pivot = pivot]
           g == Activation(Top.fn, id, arg)
           F == Flushes(next_timestamp) \union Queries
<1>1. /\ stack \in Seq(F)
      /\ Len(stack) \in Nat \ {0} /\ Top = stack[Len(stack)]
      /\ Top \in F /\ Top.id \in DOMAIN node
      /\ \A i \in 1 .. Len(stack) - 1 : stack[i].id \in DOMAIN node /\ stack[i].id # Top.id
      /\ PinnedBy(stack) \subseteq Cache!Resident(cache)
  BY TopFacts DEF FrameOK
<1>2. /\ NodesOK(node, root, EmptyMap, next_id, next_timestamp)
      /\ OwnersOK(node, root, EmptyMap)
      /\ FramesOK(stack, node, root, EmptyMap, call, next_timestamp)
      /\ CacheOK(cache, DOMAIN node)
  BY DEF IInv
<1>3. PICK h : HeightsOK(h, node, EmptyMap, {})
  BY DEF IInv, Emptied
<1>4. /\ stack' = Append(At(pc, pivot), g) /\ At(pc, pivot) = Append(Front(stack), f)
      /\ cache' = Cache!Access(cache, id, PinnedBy(At(pc, pivot)))
  BY DEF Call, At
<1>5. /\ NodesOK(node', root, EmptyMap, next_id, next_timestamp)
      /\ OwnersOK(node', root, EmptyMap) /\ HeightsOK(h, node', EmptyMap, {})
  BY <1>1, <1>2, <1>3, TreeStep DEF Current
<1>6. DOMAIN node' = DOMAIN node /\ node'[Top.id] = n
      /\ \A i \in DOMAIN node : i # Top.id => node'[i] = node[i]
  OBVIOUS
<1>7. /\ f \in F /\ f.fn = Top.fn /\ f.id = Top.id /\ f.pc = pc /\ f.pivot = pivot
  <2> DEFINE top == Top
  <2>1. \/ /\ top \in Flushes(next_timestamp)
           /\ pc \in {"enter", "direct", "loop", "batch", "end"}
        \/ top \in Queries /\ pc \in {"enter", "below", "adopt"}
    BY <1>1 DEF Flushes, Queries
  <2> HIDE DEF top
  <2>2. LET at == [top EXCEPT !.pc = pc, !.pivot = pivot]
        IN  /\ at \in Flushes(next_timestamp) \union Queries
            /\ at.fn = top.fn /\ at.id = top.id /\ at.arg = top.arg
            /\ at.pc = pc /\ at.pivot = pivot
    <3>1. CASE /\ top \in Flushes(next_timestamp)
               /\ pc \in {"enter", "direct", "loop", "batch", "end"}
      BY <3>1 DEF Flushes
    <3>2. CASE top \in Queries /\ pc \in {"enter", "below", "adopt"}
      BY <3>2 DEF Queries
    <3> QED BY <2>1, <3>1, <3>2
  <2> QED BY <2>2 DEF top
<1>8. id \in DOMAIN node
  BY DEF NodeOK
<1>9. g \in F /\ FrameOK(g, node') /\ g.fn = Top.fn /\ g.id = id
  <2>1. DOMAIN node' \subseteq Nat
    BY <1>6, <1>2 DEF NodesOK
  <2> DEFINE fn   == Top.fn
             more == node'
  <2>2. \/ fn = "flush" /\ arg \in Buffer(next_timestamp) /\ arg # {}
        \/ fn = "query" /\ arg \in Keys
    OBVIOUS
  <2>3. id \in DOMAIN more /\ DOMAIN more \subseteq Nat
    BY <1>6, <1>8, <2>1
  <2> HIDE DEF fn, more
  <2>4. LET new == Activation(fn, id, arg)
        IN  /\ new \in Flushes(next_timestamp) \union Queries /\ FrameOK(new, more)
            /\ new.fn = fn /\ new.id = id
    <3>1. CASE fn = "flush" /\ arg \in Buffer(next_timestamp) /\ arg # {}
      BY <2>3, <3>1, FlushIn
    <3>2. CASE fn = "query" /\ arg \in Keys
      BY <2>3, <3>2, QueryIn
    <3> QED BY <2>2, <3>1, <3>2
  <2> QED BY <2>4 DEF fn, more
<1> HIDE DEF f, g, F
<1>10. FrameOK(f, node')
  BY <1>1, <1>6, <1>7 DEF FrameOK
<1>11. Waits(f, g, node')
  BY <1>6, <1>7, <1>9 DEF Waits
<1>12. FramesOK(stack', node', root, EmptyMap, call, next_timestamp)
  <2>1. \A i \in 1 .. Len(stack) - 1 : /\ stack[i].id \in DOMAIN node'
                                       /\ node'[stack[i].id].pivots = node[stack[i].id].pivots
    BY <1>1, <1>6
  <2>2. f.id = stack[Len(stack)].id /\ f.fn = stack[Len(stack)].fn /\ g.fn = f.fn
    BY <1>1, <1>7, <1>9
  <2>3. FramesOK(stack, node, root, EmptyMap, call, next_timestamp)
    BY <1>2
  <2>4. f \in Flushes(next_timestamp) \union Queries /\ g \in Flushes(next_timestamp) \union Queries
    BY <1>7, <1>9 DEF F
  <2>5. FramesOK(Append(Append(Front(stack), f), g), node', root, EmptyMap, call, next_timestamp)
    BY <1>9, <1>10, <1>11, <2>1, <2>2, <2>3, <2>4, FramesDown
  <2> QED BY <1>4, <2>5
<1>13. CacheOK(cache', DOMAIN node') /\ PinnedBy(stack') \subseteq Cache!Resident(cache')
  <2> DEFINE frames == Append(Front(stack), f)
  <2>1. frames \in Seq(F) /\ PinnedBy(frames) = PinnedBy(stack)
    BY <1>1, <1>7, Replaced, PinnedPopped DEF Top
  <2> HIDE DEF frames
  <2>2. PinnedBy(frames) \subseteq Cache!Resident(cache) /\ g.id \in DOMAIN node
    BY <1>1, <1>8, <1>9, <2>1
  <2>3. LET used == Cache!Access(cache, g.id, PinnedBy(frames))
        IN  /\ CacheOK(used, DOMAIN node)
            /\ PinnedBy(Append(frames, g)) \subseteq Cache!Resident(used)
    BY <1>2, <1>9, <2>1, <2>2, CallPins
  <2> QED BY <1>4, <1>6, <1>9, <2>3 DEF frames
<1> QED BY <1>5, <1>12, <1>13 DEF IInv, PinnedInMemory, Emptied

\* The shortcut: the messages go straight to a dirty child.
LEMMA FlushDirectKeeps ==
  ASSUME IInv, FlushDirect
  PROVE  IInv'
<1> DEFINE n == Rekeyed(Current, Top.arg)
           p == GetPivot(n, Min({m.key : m \in Top.arg}))
<1>1. /\ stack # << >> /\ Top.fn = "flush" /\ Top.pc = "enter" /\ ~IsLeaf(Current)
      /\ node' = [node EXCEPT ![Top.id] = n]
      /\ Call(At("direct", p), "flush", n.pivots[p], Top.arg)
      /\ UNCHANGED <<root, next_id, next_timestamp, returned, call>>
  BY DEF FlushDirect, Running
<1>2. /\ Top \in Flushes(next_timestamp) \union Queries
      /\ NodeOK(Current, DOMAIN node, next_timestamp)
      /\ returned = EmptyMap
  BY <1>1, TopFacts
<1>3. Top.arg \in Buffer(next_timestamp) /\ Top.arg # {}
  BY <1>1, <1>2 DEF Flushes, Queries
<1>4. /\ NodeOK(n, DOMAIN node, next_timestamp) /\ ~IsLeaf(n) /\ SameOwned(n, Current)
      /\ p \in DOMAIN n.pivots
  BY <1>1, <1>2, <1>3, RekeyedOK
<1> HIDE DEF n, p
<1>5. p \in Int
  BY <1>4, KeysAssumption DEF NodeOK
<1>6. Call(At("direct", p), Top.fn, n.pivots[p], Top.arg)
  BY <1>1
<1>7. /\ DOMAIN node' = DOMAIN node /\ node'[Top.id] = n
      /\ \A i \in DOMAIN node : i # Top.id => node'[i] = node[i]
  BY <1>1, TopFacts DEF FrameOK
<1> QED BY <1>1, <1>2, <1>3, <1>4, <1>5, <1>6, <1>7, DownKeeps

\* The loop flushes the largest batch.
LEMMA FlushBatchKeeps ==
  ASSUME IInv, FlushBatch
  PROVE  IInv'
<1> DEFINE p     == Largest(Current)
           batch == Batch(Current, p)
<1>1. /\ stack # << >> /\ Top.fn = "flush" /\ Top.pc = "loop"
      /\ Flushable(Current, p)
      /\ Call(At("batch", p), "flush", Current.pivots[p], batch)
      /\ UNCHANGED <<node, root, next_id, next_timestamp, returned, call>>
  BY DEF FlushBatch, Running
<1>2. /\ Top \in Flushes(next_timestamp) \union Queries
      /\ NodeOK(Current, DOMAIN node, next_timestamp) /\ FrameOK(Top, node)
      /\ returned = EmptyMap
  BY <1>1, TopFacts
<1>3. ~IsLeaf(Current)
  BY <1>1, <1>2 DEF FrameOK, Current
<1>4. p \in DOMAIN Current.pivots
  BY <1>2, <1>3, LargestIn
<1>5. p \in Int
  BY <1>2, <1>4, KeysAssumption DEF NodeOK
<1> HIDE DEF p
<1>6. batch \in Buffer(next_timestamp) /\ batch # {}
  <2>1. batch \in Buffer(next_timestamp)
    BY <1>2, BatchIn
  <2>2. SUFFICES ASSUME batch = {} PROVE FALSE
    BY <2>1
  <2>3. BatchSize(Current, p) = 0
    BY <2>2, FS_EmptySet DEF BatchSize
  <2>4. MinFlush \in Nat /\ MinFlush \div 2 \in Nat
    BY SizeAssumption
  <2> QED BY <1>1, <2>3, <2>4 DEF Flushable
<1> HIDE DEF batch
<1>7. /\ DOMAIN node' = DOMAIN node /\ node'[Top.id] = Current
      /\ \A i \in DOMAIN node : i # Top.id => node'[i] = node[i]
  BY <1>1 DEF Current
<1>8. SameOwned(Current, Current)
  BY SamePivots
<1>9. Call(At("batch", p), Top.fn, Current.pivots[p], batch)
  BY <1>1
<1> QED BY <1>1, <1>2, <1>4, <1>5, <1>6, <1>7, <1>8, <1>9, DownKeeps

\* A query asks a child.
LEMMA QueryDownKeeps ==
  ASSUME IInv, QueryDown
  PROVE  IInv'
<1> DEFINE p == GetPivot(Current, Top.arg)
<1>1. /\ stack # << >> /\ Top.fn = "query" /\ Top.pc = "enter" /\ AsksChild
      /\ Call(At("below", 0), "query", Current.pivots[p], Top.arg)
      /\ UNCHANGED <<node, root, next_id, next_timestamp, returned, call>>
  BY DEF QueryDown, Running
<1>2. /\ Top \in Flushes(next_timestamp) \union Queries
      /\ NodeOK(Current, DOMAIN node, next_timestamp)
      /\ returned = EmptyMap
  BY <1>1, TopFacts
<1>3. Top.arg \in Keys /\ Top.arg \in Int
  BY <1>1, <1>2, KeysAssumption DEF Flushes, Queries
<1>4. p \in DOMAIN Current.pivots
  BY <1>1, <1>2, <1>3, PivotFacts DEF AsksChild
<1> HIDE DEF p
<1>5. /\ DOMAIN node' = DOMAIN node /\ node'[Top.id] = Current
      /\ \A i \in DOMAIN node : i # Top.id => node'[i] = node[i]
  BY <1>1 DEF Current
<1>6. SameOwned(Current, Current)
  BY SamePivots
<1>7. Call(At("below", 0), Top.fn, Current.pivots[p], Top.arg)
  BY <1>1
<1>8. 0 \in Int /\ \E q \in DOMAIN Current.pivots : Current.pivots[p] = Current.pivots[q]
  BY <1>4
<1> QED BY <1>1, <1>2, <1>3, <1>5, <1>6, <1>7, <1>8, DownKeeps

\* The running activation goes on in its node, which still owns the same nodes.
LEMMA StayKeeps ==
  ASSUME IInv, stack # << >>, returned = EmptyMap,
         NEW n, NodeOK(n, DOMAIN node, next_timestamp),
         SameOwned(n, Current), IsLeaf(n) => IsLeaf(Current),
         DOMAIN node' = DOMAIN node, node'[Top.id] = n,
         \A i \in DOMAIN node : i # Top.id => node'[i] = node[i],
         NEW pc,
         \/ Top.fn = "flush" /\ pc = "loop" /\ ~IsLeaf(n)
         \/ Top.fn = "query" /\ pc = "adopt",
         stack' = At(pc, 0),
         UNCHANGED <<root, cache, next_id, next_timestamp, returned, call>>
  PROVE  IInv'
<1> DEFINE f == [Top EXCEPT !.pc = pc, !.pivot = 0]
           F == Flushes(next_timestamp) \union Queries
<1>1. /\ stack \in Seq(F)
      /\ Len(stack) \in Nat \ {0} /\ Top = stack[Len(stack)]
      /\ Top \in F /\ Top.id \in DOMAIN node
      /\ \A i \in 1 .. Len(stack) - 1 : stack[i].id \in DOMAIN node /\ stack[i].id # Top.id
      /\ PinnedBy(stack) \subseteq Cache!Resident(cache)
  BY TopFacts DEF FrameOK
<1>2. /\ NodesOK(node, root, EmptyMap, next_id, next_timestamp)
      /\ OwnersOK(node, root, EmptyMap)
      /\ FramesOK(stack, node, root, EmptyMap, call, next_timestamp)
      /\ CacheOK(cache, DOMAIN node)
  BY DEF IInv
<1>3. PICK h : HeightsOK(h, node, EmptyMap, {})
  BY DEF IInv, Emptied
<1>4. /\ NodesOK(node', root, EmptyMap, next_id, next_timestamp)
      /\ OwnersOK(node', root, EmptyMap) /\ HeightsOK(h, node', EmptyMap, {})
  BY <1>1, <1>2, <1>3, TreeStep DEF Current
<1>5. f \in F /\ f.fn = Top.fn /\ f.id = Top.id /\ f.pc = pc
  <2> DEFINE top == Top
  <2>1. \/ top \in Flushes(next_timestamp) /\ pc = "loop"
        \/ top \in Queries /\ pc = "adopt"
    BY <1>1 DEF Flushes, Queries
  <2> DEFINE zero == 0
  <2>3. zero \in Int
    OBVIOUS
  <2> HIDE DEF top, zero
  <2>2. LET at == [top EXCEPT !.pc = pc, !.pivot = zero]
        IN  at \in F /\ at.fn = top.fn /\ at.id = top.id /\ at.pc = pc
    <3>1. CASE top \in Flushes(next_timestamp) /\ pc = "loop"
      BY <2>3, <3>1 DEF Flushes
    <3>2. CASE top \in Queries /\ pc = "adopt"
      BY <2>3, <3>2 DEF Queries
    <3> QED BY <2>1, <3>1, <3>2
  <2> QED BY <2>2 DEF top, zero
<1> HIDE DEF f, F
<1>6. FrameOK(f, node')
  BY <1>1, <1>5 DEF FrameOK
<1>7. FramesOK(stack', node', root, EmptyMap, call, next_timestamp)
  <2>1. \A i \in 1 .. Len(stack) - 1 : /\ stack[i].id \in DOMAIN node'
                                       /\ node'[stack[i].id].pivots = node[stack[i].id].pivots
    BY <1>1
  <2>2. f.id = stack[Len(stack)].id /\ f.fn = stack[Len(stack)].fn
    BY <1>1, <1>5
  <2>3. FramesOK(stack, node, root, EmptyMap, call, next_timestamp)
    BY <1>2
  <2>4. f \in Flushes(next_timestamp) \union Queries
    BY <1>5 DEF F
  <2>5. FramesOK(Append(Front(stack), f), node', root, EmptyMap, call, next_timestamp)
    BY <1>6, <2>1, <2>2, <2>3, <2>4, FramesStep
  <2> QED BY <2>5 DEF At, f
<1>8. PinnedBy(stack') = PinnedBy(stack)
  <2> DEFINE frames == Append(Front(stack), f)
  <2>1. PinnedBy(frames) = PinnedBy(stack)
    BY <1>1, <1>5, PinnedPopped DEF Top
  <2>2. stack' = frames
    BY DEF At, f
  <2> QED BY <2>1, <2>2
<1> QED BY <1>1, <1>2, <1>4, <1>7, <1>8 DEF IInv, PinnedInMemory, Emptied

\* An inner node buffers the messages.
LEMMA FlushBufferKeeps ==
  ASSUME IInv, FlushBuffer
  PROVE  IInv'
<1> DEFINE n  == Rekeyed(Current, Top.arg)
           es == ApplyAll(n.elements, Top.arg, FALSE)
           m  == [n EXCEPT !.elements = es]
<1>1. /\ stack # << >> /\ Top.fn = "flush" /\ Top.pc = "enter" /\ ~IsLeaf(Current)
      /\ node' = [node EXCEPT ![Top.id] = m]
      /\ stack' = At("loop", 0)
      /\ UNCHANGED <<root, cache, next_id, next_timestamp, returned, call>>
  BY DEF FlushBuffer, Running
<1>2. /\ Top \in Flushes(next_timestamp) \union Queries
      /\ NodeOK(Current, DOMAIN node, next_timestamp)
      /\ returned = EmptyMap
  BY <1>1, TopFacts
<1>3. Top.arg \in Buffer(next_timestamp) /\ Top.arg # {}
  BY <1>1, <1>2 DEF Flushes, Queries
<1>4. NodeOK(n, DOMAIN node, next_timestamp) /\ ~IsLeaf(n) /\ SameOwned(n, Current)
  BY <1>1, <1>2, <1>3, RekeyedOK
<1> HIDE DEF n
<1>5. es \in Buffer(next_timestamp)
  <2>1. n.elements \in Buffer(next_timestamp)
    BY <1>4 DEF NodeOK
  <2> QED BY <1>3, <2>1, ApplyAllKeeps
<1> HIDE DEF es
<1>6. NodeOK(m, DOMAIN node, next_timestamp) /\ m.pivots = n.pivots
  BY <1>4, <1>5, ElementsOK
<1> HIDE DEF m
<1>7. NodeOK(m, DOMAIN node, next_timestamp) /\ ~IsLeaf(m) /\ SameOwned(m, Current)
  BY <1>4, <1>6 DEF IsLeaf, SameOwned
<1>8. /\ DOMAIN node' = DOMAIN node /\ node'[Top.id] = m
      /\ \A i \in DOMAIN node : i # Top.id => node'[i] = node[i]
  BY <1>1, TopFacts DEF FrameOK
<1> QED BY <1>1, <1>2, <1>7, <1>8, StayKeeps

\* The parts that a child has returned take its place, in the node that called it.
LEMMA ChildMerges ==
  ASSUME IInv, stack # << >>, Top.fn = "flush", Top.pc \in {"direct", "batch"},
         NEW n, NodeOK(n, DOMAIN node, next_timestamp), n.pivots = Current.pivots,
         ChildReturned(n, Top.pivot), returned # EmptyMap
  PROVE  /\ Merges(node, Top.id, Top.pivot, returned, node', next_timestamp)
         /\ node'[Top.id].elements = n.elements
         /\ Emptied(stack, node, root, returned) = {node[Top.id].pivots[Top.pivot]}
         /\ cache' = Cache!Free(cache, n.pivots[Top.pivot])
         /\ \A i \in 1 .. Len(stack) : stack[i].id # n.pivots[Top.pivot]
<1> DEFINE p     == Top.pivot
           child == n.pivots[p]
           m     == [n EXCEPT !.pivots = Replace(@, p, returned)]
<1>1. /\ Len(stack) \in Nat \ {0} /\ Top = stack[Len(stack)]
      /\ Top.id \in DOMAIN node /\ p \in DOMAIN n.pivots
      /\ \A i \in 1 .. Len(stack) - 1 : stack[i].id \in DOMAIN node
  BY TopFacts DEF FrameOK, Current
<1>2. Emptied(stack, node, root, returned) = {child}
  BY <1>1 DEF Emptied, Current
<1>3. child \in DOMAIN node /\ child = node[Top.id].pivots[p] /\ p \in DOMAIN node[Top.id].pivots
  BY <1>1 DEF NodeOK, Current
<1>4. \A i \in 1 .. Len(stack) : stack[i].id # child
  <2>1. PICK h : HeightsOK(h, node, returned, Emptied(stack, node, root, returned))
    BY DEF IInv
  <2>2. h[Top.id] = h[child] + 1 /\ h[child] \in Nat
    BY <1>1, <1>3, <2>1 DEF HeightsOK
  <2>3. \A i \in 1 .. Len(stack) - 1 : h[stack[i].id] > h[stack[Len(stack)].id]
    BY <2>1, Descending DEF IInv
  <2>4. \A i \in 1 .. Len(stack) - 1 : h[stack[i].id] > h[child]
    <3>1. \A i \in 1 .. Len(stack) - 1 : h[stack[i].id] \in Nat
      BY <1>1, <2>1 DEF HeightsOK
    <3> QED BY <1>1, <2>2, <2>3, <3>1
  <2> QED BY <1>1, <2>2, <2>4
<1>5. /\ node' = [i \in DOMAIN node \ {child} |-> IF i = Top.id THEN m ELSE node[i]]
      /\ cache' = Cache!Free(cache, child)
  BY DEF ChildReturned
<1>6. Top.id # child
  BY <1>1, <1>4
<1>7. /\ m = [pivots |-> Replace(node[Top.id].pivots, p, returned), elements |-> m.elements,
              epsilon |-> m.epsilon, node_level |-> m.node_level,
              ready_for_adoption |-> m.ready_for_adoption]
      /\ m.elements \in Buffer(next_timestamp) /\ m.elements = n.elements
  <2>1. /\ n = [pivots |-> n.pivots, elements |-> n.elements, epsilon |-> n.epsilon,
                node_level |-> n.node_level, ready_for_adoption |-> n.ready_for_adoption]
        /\ n.elements \in Buffer(next_timestamp) /\ n.pivots = node[Top.id].pivots
    BY DEF NodeOK, Current
  <2> QED BY <2>1
<1> HIDE DEF m
<1>8. /\ DOMAIN node' = DOMAIN node \ {child} /\ node'[Top.id] = m
      /\ \A i \in DOMAIN node' : i # Top.id => node'[i] = node[i]
  BY <1>1, <1>5, <1>6
<1>9. Merges(node, Top.id, p, returned, node', next_timestamp)
  BY <1>1, <1>3, <1>7, <1>8 DEF Merges
<1> QED BY <1>2, <1>3, <1>4, <1>5, <1>7, <1>8, <1>9

\* The flush() of a child has returned, and n has the pivots it was called with.
LEMMA ChildKeeps ==
  ASSUME IInv, stack # << >>, Top.fn = "flush", Top.pc \in {"direct", "batch"},
         NEW n, NodeOK(n, DOMAIN node, next_timestamp), n.pivots = Current.pivots,
         ChildReturned(n, Top.pivot),
         NEW pc \in {"end", "loop"}, stack' = At(pc, 0), returned' = EmptyMap,
         UNCHANGED <<root, next_id, next_timestamp, call>>
  PROVE  IInv'
<1> DEFINE f     == [Top EXCEPT !.pc = pc, !.pivot = 0]
           F     == Flushes(next_timestamp) \union Queries
           p     == Top.pivot
           child == n.pivots[p]
<1>1. /\ stack \in Seq(F)
      /\ Len(stack) \in Nat \ {0} /\ Top = stack[Len(stack)]
      /\ Top \in F /\ Top.id \in DOMAIN node /\ p \in DOMAIN n.pivots
      /\ \A i \in 1 .. Len(stack) - 1 : stack[i].id \in DOMAIN node /\ stack[i].id # Top.id
      /\ PinnedBy(stack) \subseteq Cache!Resident(cache)
  BY TopFacts DEF FrameOK, Current
<1>2. /\ NodesOK(node, root, returned, next_id, next_timestamp)
      /\ OwnersOK(node, root, returned)
      /\ FramesOK(stack, node, root, returned, call, next_timestamp)
      /\ CacheOK(cache, DOMAIN node)
  BY DEF IInv
<1>3. f \in F /\ f.fn = Top.fn /\ f.id = Top.id /\ f.pc = pc
  <2> DEFINE top == Top
  <2>1. top \in Flushes(next_timestamp)
    BY <1>1 DEF Flushes, Queries
  <2> DEFINE zero == 0
  <2>3. zero \in Int
    OBVIOUS
  <2> HIDE DEF top, zero
  <2>2. LET at == [top EXCEPT !.pc = pc, !.pivot = zero]
        IN  at \in F /\ at.fn = top.fn /\ at.id = top.id /\ at.pc = pc
    <3>1. CASE pc = "end"
      BY <2>1, <2>3, <3>1 DEF Flushes
    <3>2. CASE pc = "loop"
      BY <2>1, <2>3, <3>2 DEF Flushes
    <3> QED BY <3>1, <3>2
  <2> QED BY <2>2 DEF top, zero
<1>4. PICK h : HeightsOK(h, node, returned, Emptied(stack, node, root, returned))
  BY DEF IInv
<1>6. child \in DOMAIN node /\ child = node[Top.id].pivots[p] /\ p \in DOMAIN node[Top.id].pivots
  BY <1>1 DEF NodeOK, Current
<1> HIDE DEF f, F
<1>8. PinnedBy(stack') = PinnedBy(stack)
  <2> DEFINE frames == Append(Front(stack), f)
  <2>1. PinnedBy(frames) = PinnedBy(stack)
    BY <1>1, <1>3, PinnedPopped DEF Top
  <2>2. stack' = frames
    BY DEF At, f
  <2> QED BY <2>1, <2>2
<1>9. ASSUME \A i \in 1 .. Len(stack) - 1 :
                 /\ stack[i].id \in DOMAIN node'
                 /\ node'[stack[i].id].pivots = node[stack[i].id].pivots,
             Top.id \in DOMAIN node', ~IsLeaf(node'[Top.id])
      PROVE  FramesOK(stack', node', root, EmptyMap, call, next_timestamp)
  <2>1. FrameOK(f, node')
    BY <1>3, <1>9 DEF FrameOK
  <2>2. f.id = stack[Len(stack)].id /\ f.fn = stack[Len(stack)].fn
    BY <1>1, <1>3
  <2>3. f \in Flushes(next_timestamp) \union Queries
    BY <1>3 DEF F
  <2>4. FramesOK(Append(Front(stack), f), node', root, EmptyMap, call, next_timestamp)
    BY <1>2, <1>9, <2>1, <2>2, <2>3, FramesStep
  <2> QED BY <2>4 DEF At, f
<1>10. CASE returned # EmptyMap
  <2>1. /\ Merges(node, Top.id, p, returned, node', next_timestamp)
        /\ Emptied(stack, node, root, returned) = {child}
        /\ cache' = Cache!Free(cache, child)
        /\ \A i \in 1 .. Len(stack) : stack[i].id # child
    BY <1>6, <1>10, ChildMerges
  <2>2. Top.id # child
    BY <1>1, <2>1
  <2>4. /\ DOMAIN node' = DOMAIN node \ {child}
        /\ \A i \in DOMAIN node' : i # Top.id => node'[i] = node[i]
    BY <1>6, <2>1 DEF Merges
  <2>5. /\ NodesOK(node', root, EmptyMap, next_id, next_timestamp)
        /\ OwnersOK(node', root, EmptyMap)
        /\ \E g : HeightsOK(g, node', EmptyMap, {})
        /\ ~IsLeaf(node'[Top.id])
    <3>1. HeightsOK(h, node, returned, {node[Top.id].pivots[p]})
      BY <1>4, <1>6, <2>1
    <3>2. returned # EmptyMap
      BY <1>10
    <3>3. /\ NodesOK(node, root, returned, next_id, next_timestamp)
          /\ OwnersOK(node, root, returned)
      BY <1>2
    <3> HIDE DEF p
    <3> QED BY <2>1, <3>1, <3>2, <3>3, TreeMerge
  <2>6. FramesOK(stack', node', root, EmptyMap, call, next_timestamp)
    <3>1. \A i \in 1 .. Len(stack) - 1 :
                 /\ stack[i].id \in DOMAIN node'
                 /\ node'[stack[i].id].pivots = node[stack[i].id].pivots
      BY <1>1, <2>1, <2>4
    <3>2. Top.id \in DOMAIN node' /\ ~IsLeaf(node'[Top.id])
      BY <1>1, <2>2, <2>4, <2>5
    <3> QED BY <1>9, <3>1, <3>2
  <2>7. CacheOK(cache', DOMAIN node') /\ PinnedBy(stack') \subseteq Cache!Resident(cache')
    <3> DEFINE pinned == PinnedBy(stack)
    <3>1. child \notin pinned
      BY <1>1, <2>1 DEF PinnedBy
    <3>2. pinned \in SUBSET Cache!Resident(cache)
      BY <1>1
    <3> HIDE DEF pinned
    <3>3. /\ CacheOK(Cache!Free(cache, child), DOMAIN node \ {child})
          /\ pinned \subseteq Cache!Resident(Cache!Free(cache, child))
      BY <1>2, <3>1, <3>2, FreeKeeps
    <3> QED BY <1>8, <2>1, <2>4, <3>3 DEF pinned
  <2> QED BY <2>5, <2>6, <2>7 DEF IInv, PinnedInMemory, Emptied
<1>11. CASE returned = EmptyMap
  <2>1. node' = [node EXCEPT ![Top.id] = n] /\ cache' = Cache!Touch(cache, child, PinnedBy(stack))
    BY <1>11 DEF ChildReturned
  <2>2. /\ DOMAIN node' = DOMAIN node /\ node'[Top.id] = n
        /\ \A i \in DOMAIN node : i # Top.id => node'[i] = node[i]
    BY <1>1, <2>1
  <2>3. /\ NodesOK(node', root, EmptyMap, next_id, next_timestamp)
        /\ OwnersOK(node', root, EmptyMap) /\ HeightsOK(h, node', EmptyMap, {})
    <3>1. SameOwned(n, node[Top.id]) /\ (IsLeaf(n) => IsLeaf(node[Top.id]))
      BY SamePivots DEF IsLeaf, Current
    <3>2. HeightsOK(h, node, EmptyMap, {})
      BY <1>4, <1>11 DEF Emptied
    <3>3. /\ NodesOK(node, root, EmptyMap, next_id, next_timestamp)
          /\ OwnersOK(node, root, EmptyMap)
      BY <1>2, <1>11
    <3> QED BY <1>1, <2>2, <3>1, <3>2, <3>3, TreeStep
  <2>4. FramesOK(stack', node', root, EmptyMap, call, next_timestamp)
    <3>1. \A i \in 1 .. Len(stack) - 1 :
                 /\ stack[i].id \in DOMAIN node'
                 /\ node'[stack[i].id].pivots = node[stack[i].id].pivots
      BY <1>1, <2>2
    <3>2. Top.id \in DOMAIN node' /\ ~IsLeaf(node'[Top.id])
      BY <1>1, <2>2 DEF IsLeaf
    <3> QED BY <1>9, <3>1, <3>2
  <2>5. CacheOK(cache', DOMAIN node') /\ PinnedBy(stack') \subseteq Cache!Resident(cache')
    <3> DEFINE pinned == PinnedBy(stack)
    <3>1. pinned \in SUBSET Cache!Resident(cache)
      BY <1>1
    <3> HIDE DEF pinned, child
    <3>2. /\ CacheOK(Cache!Touch(cache, child, pinned), DOMAIN node)
          /\ pinned \subseteq Cache!Resident(Cache!Touch(cache, child, pinned))
      BY <1>2, <1>6, <3>1, TouchKeeps
    <3> QED BY <1>8, <2>1, <2>2, <3>2 DEF pinned
  <2> QED BY <2>3, <2>4, <2>5 DEF IInv, PinnedInMemory, Emptied
<1> QED BY <1>10, <1>11

\* Back from the shortcut ...
LEMMA DirectReturnedKeeps ==
  ASSUME IInv, DirectReturned
  PROVE  IInv'
<1>1. /\ stack # << >> /\ Top.fn = "flush" /\ Top.pc = "direct"
      /\ ChildReturned(Current, Top.pivot)
      /\ stack' = At("end", 0) /\ returned' = EmptyMap
      /\ UNCHANGED <<root, next_id, next_timestamp, call>>
  BY DEF DirectReturned, Running
<1>2. NodeOK(Current, DOMAIN node, next_timestamp)
  BY <1>1, TopFacts
<1>3. "end" \in {"end", "loop"} /\ Top.pc \in {"direct", "batch"}
  BY <1>1
<1> QED BY <1>1, <1>2, <1>3, ChildKeeps

\* ... and from a batch, which is erased.
LEMMA BatchReturnedKeeps ==
  ASSUME IInv, BatchReturned
  PROVE  IInv'
<1> DEFINE es == Current.elements \ Batch(Current, Top.pivot)
           n  == [Current EXCEPT !.elements = es]
<1>1. /\ stack # << >> /\ Top.fn = "flush" /\ Top.pc = "batch"
      /\ ChildReturned(n, Top.pivot)
      /\ stack' = At("loop", 0) /\ returned' = EmptyMap
      /\ UNCHANGED <<root, next_id, next_timestamp, call>>
  BY DEF BatchReturned, Running
<1>2. NodeOK(Current, DOMAIN node, next_timestamp) /\ FrameOK(Top, node)
  BY <1>1, TopFacts
<1>3. es \in Buffer(next_timestamp)
  BY <1>2, FS_Subset DEF NodeOK, Buffer
<1> HIDE DEF es
<1>4. ~IsLeaf(Current)
  BY <1>1, <1>2 DEF FrameOK, IsLeaf, Current
<1>5. NodeOK(n, DOMAIN node, next_timestamp) /\ n.pivots = Current.pivots
  BY <1>2, <1>3, <1>4, ElementsOK
<1>6. "loop" \in {"end", "loop"} /\ Top.pc \in {"direct", "batch"}
  BY <1>1
<1> QED BY <1>1, <1>5, <1>6, ChildKeeps

\* The end of the loop, with a split when there are too many pivots ...
LEMMA FlushDoneKeeps ==
  ASSUME IInv, FlushDone
  PROVE  IInv'
<1> DEFINE splits == Cardinality(DOMAIN Current.pivots) > MaxPivots
<1>1. /\ stack # << >> /\ Top.fn = "flush" /\ Top.pc = "loop"
      /\ Finish(Current, splits)
  BY DEF FlushDone, Running
<1>2. /\ NodeOK(Current, DOMAIN node, next_timestamp) /\ FrameOK(Top, node)
      /\ returned = EmptyMap
  BY <1>1, TopFacts
<1>3. ~IsLeaf(Current)
  BY <1>1, <1>2 DEF FrameOK, Current
<1>4. splits \in BOOLEAN
  OBVIOUS
<1> HIDE DEF splits
<1> QED BY <1>1, <1>2, <1>3, <1>4, FinishKeeps

\* ... and the end of the shortcut, without one.
LEMMA DirectDoneKeeps ==
  ASSUME IInv, DirectDone
  PROVE  IInv'
<1>1. /\ stack # << >> /\ Top.fn = "flush" /\ Top.pc = "end"
      /\ Finish(Current, FALSE)
  BY DEF DirectDone, Running
<1>2. NodeOK(Current, DOMAIN node, next_timestamp) /\ returned = EmptyMap
  BY <1>1, TopFacts
<1> QED BY <1>1, <1>2, FinishKeeps

\* Between the activations of one call of the client and those of the next.
LEMMA NoFrames ==
  ASSUME NEW nodes, NEW top, NEW now, NEW client \in {"none", "upsert", "query"}
  PROVE  FramesOK(<< >>, nodes, top, EmptyMap, client, now)
<1> DEFINE st == << >>
<1>1. st \in Seq(Flushes(now) \union Queries) /\ Len(st) = 0
  OBVIOUS
<1>2. \A i \in 1 .. Len(st) : FALSE
  BY <1>1
<1>3. st = << >>
  OBVIOUS
<1> HIDE DEF st
<1>4. FramesOK(st, nodes, top, EmptyMap, client, now)
  BY <1>1, <1>2, <1>3 DEF FramesOK
<1> QED BY <1>4 DEF st

\* Between calls nothing is pinned.
LEMMA NothingPinned == PinnedBy(<< >>) = {}
  BY DEF PinnedBy

\* The parts of a root that was split get a new root.
LEMMA UpsertGrows ==
  ASSUME IInv, UpsertReturn, returned # EmptyMap
  PROVE  Grows(node, root, returned, next_id, node')
<1> DEFINE epsilon == node[root].epsilon
           base    == NewNode(epsilon, 0)
           parts   == returned
           none    == {}
           level   == 0
           ready   == FALSE
           m       == [base EXCEPT !.pivots = parts]
           all     == (DOMAIN node \ {root}) \union {next_id}
<1>1. node' = [i \in all |-> IF i = next_id THEN m ELSE node[i]]
  BY DEF UpsertReturn
<1>2. m = [pivots |-> parts, elements |-> none, epsilon |-> epsilon,
           node_level |-> level, ready_for_adoption |-> ready]
  <2>1. base = [pivots |-> EmptyMap, elements |-> none, epsilon |-> epsilon,
                node_level |-> level, ready_for_adoption |-> ready]
    BY DEF NewNode
  <2> HIDE DEF epsilon, base, parts, none, level, ready
  <2> QED BY <2>1
<1>3. next_id \notin DOMAIN node
  BY DEF IInv, NodesOK
<1> HIDE DEF m
<1>4. /\ DOMAIN node' = all /\ node'[next_id] = m
      /\ \A i \in DOMAIN node : i # root => node'[i] = node[i]
  BY <1>1, <1>3
<1> QED BY <1>2, <1>4 DEF Grows

\* A call of upsert ends, with a new root if the old one was split.
LEMMA UpsertReturnKeeps ==
  ASSUME IInv, UpsertReturn
  PROVE  IInv'
<1>1. /\ call = "upsert" /\ stack = << >> /\ stack' = << >>
      /\ returned' = EmptyMap /\ call' = "none" /\ next_timestamp' = next_timestamp
  BY DEF UpsertReturn
<1>2. /\ NodesOK(node, root, returned, next_id, next_timestamp)
      /\ OwnersOK(node, root, returned)
      /\ CacheOK(cache, DOMAIN node)
  BY DEF IInv
<1>3. PICK h : HeightsOK(h, node, returned, Emptied(stack, node, root, returned))
  BY DEF IInv
<1>4. FramesOK(stack', node', root', EmptyMap, call', next_timestamp)
  BY <1>1, NoFrames
<1>5. PinnedBy(stack') = {}
  BY <1>1, NothingPinned
<1>6. CASE returned = EmptyMap
  <2>1. UNCHANGED <<node, root, cache, next_id>>
    BY <1>6 DEF UpsertReturn
  <2> QED BY <1>1, <1>2, <1>3, <1>4, <1>5, <1>6, <2>1 DEF IInv, PinnedInMemory, Emptied
<1>7. CASE returned # EmptyMap
  <2> DEFINE seen  == Cache!Touch(cache, root, {})
             grown == Cache!Allocate(seen, next_id, Constructed(node[root].epsilon), {})
             freed == Cache!Free(grown, root)
             all   == (DOMAIN node \ {root}) \union {next_id}
  <2>1. /\ root' = next_id /\ next_id' = next_id + 1
        /\ cache' = Cache!Touch(freed, next_id, {})
    BY <1>7 DEF UpsertReturn
  <2>2. Grows(node, root, returned, next_id, node')
    BY <1>7, UpsertGrows
  <2>3. /\ next_id \in Nat /\ next_id \notin DOMAIN node /\ root \in DOMAIN node
        /\ next_id # root
    BY <1>2 DEF NodesOK
  <2> HIDE DEF seen, grown, freed
  <2>4. DOMAIN node' = all
    BY <2>2 DEF Grows
  <2>5. /\ NodesOK(node', next_id, EmptyMap, next_id + 1, next_timestamp)
        /\ OwnersOK(node', next_id, EmptyMap)
        /\ \E g : HeightsOK(g, node', EmptyMap, {})
    <3>1. HeightsOK(h, node, returned, {root})
      BY <1>1, <1>3, <1>7 DEF Emptied
    <3>2. returned # EmptyMap
      BY <1>7
    <3> QED BY <1>2, <2>2, <3>1, <3>2, TreeGrow
  <2>6. CacheOK(cache', DOMAIN node')
    <3>1. {} \in SUBSET Cache!Resident(cache) /\ {} \in SUBSET Cache!Resident(seen)
          /\ {} \in SUBSET Cache!Resident(grown) /\ {} \in SUBSET Cache!Resident(freed)
      OBVIOUS
    <3>2. CacheOK(seen, DOMAIN node)
      BY <1>2, <2>3, <3>1, TouchKeeps DEF seen
    <3>3. CacheOK(grown, DOMAIN node \union {next_id})
      BY <3>1, <3>2, AllocateKeeps DEF grown
    <3>4. CacheOK(freed, (DOMAIN node \union {next_id}) \ {root})
      BY <3>1, <3>3, FreeKeeps DEF freed
    <3>5. (DOMAIN node \union {next_id}) \ {root} = all
      BY <2>3
    <3>6. CacheOK(freed, all) /\ next_id \in all
      BY <3>4, <3>5
    <3> HIDE DEF all
    <3>7. CacheOK(Cache!Touch(freed, next_id, {}), all)
      BY <3>1, <3>6, TouchKeeps
    <3> QED BY <2>1, <2>4, <3>7
  <2> QED BY <1>1, <1>4, <1>5, <2>1, <2>5, <2>6 DEF IInv, PinnedInMemory, Emptied
<1> QED BY <1>6, <1>7

\* A call of the client, which changes nothing but the clock, starts at the root.
LEMMA FirstCallKeeps ==
  ASSUME IInv, call = "none", UNCHANGED <<node, root, next_id, returned>>,
         next_timestamp' \in Nat, next_timestamp <= next_timestamp',
         NEW fn, NEW arg,
         \/ /\ call' = "upsert" /\ fn = "flush"
            /\ arg \in Buffer(next_timestamp') /\ arg # {}
         \/ call' = "query" /\ fn = "query" /\ arg \in Keys,
         Call(<< >>, fn, root, arg)
  PROVE  IInv'
<1> DEFINE now == next_timestamp'
           g   == Activation(fn, root, arg)
           F   == Flushes(now) \union Queries
<1>1. stack = << >> /\ returned = EmptyMap
  BY DEF IInv, FramesOK
<1>2. /\ NodesOK(node, root, EmptyMap, next_id, next_timestamp)
      /\ OwnersOK(node, root, EmptyMap)
      /\ CacheOK(cache, DOMAIN node)
  BY <1>1 DEF IInv
<1>3. PICK h : HeightsOK(h, node, EmptyMap, {})
  BY <1>1 DEF IInv, Emptied
<1>4. /\ stack' = Append(<< >>, g)
      /\ cache' = Cache!Access(cache, root, PinnedBy(<< >>))
  BY DEF Call
<1>5. root \in DOMAIN node /\ DOMAIN node \subseteq Nat /\ next_timestamp \in Nat \ {0}
  BY <1>2 DEF NodesOK
<1>6. NodesOK(node, root, EmptyMap, next_id, now)
  <2>1. \A id \in DOMAIN node : NodeOK(node[id], DOMAIN node, now)
    <3> SUFFICES ASSUME NEW id \in DOMAIN node PROVE NodeOK(node[id], DOMAIN node, now)
      OBVIOUS
    <3>1. NodeOK(node[id], DOMAIN node, next_timestamp) /\ next_timestamp \in Nat
      BY <1>2 DEF NodesOK
    <3> QED BY <3>1, NodeGrows
  <2>2. now \in Nat \ {0}
    BY <1>5
  <2> QED BY <1>2, <2>1, <2>2 DEF NodesOK
<1> HIDE DEF now
<1>7. g \in F /\ FrameOK(g, node) /\ g.fn = fn /\ g.id = root
  <2>1. CASE fn = "flush" /\ arg \in Buffer(now) /\ arg # {}
    BY <1>5, <2>1, FlushIn
  <2>2. CASE fn = "query" /\ arg \in Keys
    BY <1>5, <2>2, QueryIn
  <2> QED BY <2>1, <2>2 DEF now
<1> HIDE DEF g, F
<1>8. FramesOK(stack', node, root, EmptyMap, call', now)
  <2>1. call' \in {"upsert", "query"} /\ (call' = "query" => g.fn = "query")
    BY <1>7
  <2>2. g \in Flushes(now) \union Queries /\ FrameOK(g, node) /\ g.id = root
    BY <1>7 DEF F
  <2> DEFINE client == call'
  <2> HIDE DEF client
  <2>3. client \in {"upsert", "query"} /\ (client = "query" => g.fn = "query")
    BY <2>1 DEF client
  <2>4. FramesOK(Append(<< >>, g), node, root, EmptyMap, client, now)
    BY <2>2, <2>3, FramesFirst
  <2> QED BY <1>4, <2>4 DEF client
<1>9. CacheOK(cache', DOMAIN node) /\ PinnedBy(stack') \subseteq Cache!Resident(cache')
  <2> DEFINE frames == << >>
  <2>1. frames \in Seq(F) /\ PinnedBy(frames) \subseteq Cache!Resident(cache)
    BY NothingPinned
  <2> HIDE DEF frames
  <2>2. g \in F /\ g.id \in DOMAIN node
    BY <1>5, <1>7
  <2>3. LET used == Cache!Access(cache, g.id, PinnedBy(frames))
        IN  /\ CacheOK(used, DOMAIN node)
            /\ PinnedBy(Append(frames, g)) \subseteq Cache!Resident(used)
    BY <1>2, <2>1, <2>2, CallPins
  <2> QED BY <1>4, <1>7, <2>3 DEF frames
<1> QED BY <1>1, <1>2, <1>3, <1>6, <1>8, <1>9 DEF IInv, PinnedInMemory, Emptied, now

\* The client upserts ...
LEMMA UpsertKeeps ==
  ASSUME IInv, NEW op \in Ops, NEW k \in Keys, Upsert(op, k)
  PROVE  IInv'
<1> DEFINE val == IF op = "delete" THEN Default ELSE <<next_timestamp>>
           m   == [key |-> k, ts |-> next_timestamp, op |-> op, val |-> val]
<1>1. /\ call = "none" /\ next_timestamp' = next_timestamp + 1 /\ call' = "upsert"
      /\ Call(<< >>, "flush", root, {m})
      /\ UNCHANGED <<node, root, next_id, returned>>
  BY DEF Upsert
<1>2. next_timestamp \in Nat \ {0}
  BY DEF IInv, NodesOK
<1>3. {m} \in Buffer(next_timestamp') /\ {m} # {}
  <2>1. val \in Seq(Nat)
    BY <1>2 DEF Default
  <2>2. op \in Opcodes /\ next_timestamp \in 1 .. (next_timestamp + 1) - 1
    BY <1>2, OpsAssumption
  <2> HIDE DEF val
  <2>3. m \in Message(next_timestamp + 1)
    BY <2>1, <2>2 DEF Message
  <2> HIDE DEF m
  <2>4. IsFiniteSet({m})
    BY FS_Singleton
  <2> QED BY <1>1, <2>3, <2>4 DEF Buffer
<1>4. next_timestamp' \in Nat /\ next_timestamp <= next_timestamp'
  BY <1>1, <1>2
<1> HIDE DEF m
<1> DEFINE arg == {m}
<1> HIDE DEF arg
<1>5. Call(<< >>, "flush", root, arg) /\ arg \in Buffer(next_timestamp') /\ arg # {}
  BY <1>1, <1>3 DEF arg
<1> QED BY <1>1, <1>4, <1>5, FirstCallKeeps

\* ... or asks.
LEMMA QueryKeeps ==
  ASSUME IInv, NEW k \in Keys, Query(k)
  PROVE  IInv'
<1>1. /\ call = "none" /\ next_timestamp' = next_timestamp /\ call' = "query"
      /\ Call(<< >>, "query", root, k)
      /\ UNCHANGED <<node, root, next_id, returned>>
  BY DEF Query
<1>2. next_timestamp' \in Nat /\ next_timestamp <= next_timestamp'
  BY <1>1 DEF IInv, NodesOK
<1> QED BY <1>1, <1>2, FirstCallKeeps

\* A query has its answer, and returns it or adopts first.
LEMMA QueryFoundKeeps ==
  ASSUME IInv, QueryFound
  PROVE  IInv'
<1> DEFINE below == IF Top.pc = "below" THEN found ELSE None
           value == Eval(Current.elements, Top.arg, below)
<1>1. /\ stack # << >> /\ Top.fn = "query" /\ Top.pc \in {"enter", "below"}
      /\ UNCHANGED <<node, root, next_id, next_timestamp, returned>>
      /\ \/ stack' = At("adopt", 0) /\ UNCHANGED <<cache, call>>
         \/ QueryReturn(cache, value)
  BY DEF QueryFound, Running
<1>2. /\ NodeOK(Current, DOMAIN node, next_timestamp) /\ returned = EmptyMap
      /\ Top.id \in DOMAIN node
      /\ Len(stack) \in Nat \ {0}
      /\ \A i \in 1 .. Len(stack) - 1 : stack[i].id \in DOMAIN node
      /\ PinnedBy(Front(stack)) \subseteq Cache!Resident(cache)
  BY <1>1, TopFacts DEF FrameOK
<1>3. CASE stack' = At("adopt", 0) /\ UNCHANGED <<cache, call>>
  <2>1. SameOwned(Current, Current)
    BY SamePivots
  <2>2. /\ DOMAIN node' = DOMAIN node /\ node'[Top.id] = Current
        /\ \A i \in DOMAIN node : i # Top.id => node'[i] = node[i]
    BY <1>1 DEF Current
  <2>3. UNCHANGED <<root, cache, next_id, next_timestamp, returned, call>>
    BY <1>1, <1>3
  <2> QED BY <1>1, <1>2, <1>3, <2>1, <2>2, <2>3, StayKeeps
<1>4. CASE QueryReturn(cache, value)
  <2>1. /\ stack' = Front(stack)
        /\ cache' = Cache!Evict(cache, PinnedBy(Front(stack)))
        /\ call' = call \/ (call' = "none" /\ Len(stack) = 1)
    BY <1>4 DEF QueryReturn, Return
  <2>2. FramesOK(stack', node, root, EmptyMap, call', next_timestamp)
    <3>1. FramesOK(stack, node, root, EmptyMap, call, next_timestamp)
      BY <1>2 DEF IInv
    <3> DEFINE after == call'
               split == EmptyMap
    <3>2. /\ split # EmptyMap => stack[Len(stack)].fn = "flush"
          /\ after = call \/ (after = "none" /\ Len(stack) = 1 /\ split = EmptyMap)
      BY <2>1
    <3>3. \A i \in 1 .. Len(stack) - 1 : /\ stack[i].id \in DOMAIN node
                                         /\ node[stack[i].id].pivots = node[stack[i].id].pivots
      BY <1>2
    <3> HIDE DEF after, split
    <3>4. FramesOK(Front(stack), node, root, split, after, next_timestamp)
      BY <1>1, <3>1, <3>2, <3>3, FramesReturn
    <3> QED BY <2>1, <3>4 DEF after, split
  <2>3. CacheOK(cache', DOMAIN node) /\ PinnedBy(stack') \subseteq Cache!Resident(cache')
    <3> DEFINE pinned == PinnedBy(Front(stack))
    <3>1. CacheOK(cache, DOMAIN node) /\ pinned \subseteq Cache!Resident(cache)
      BY <1>2 DEF IInv
    <3> HIDE DEF pinned
    <3>2. /\ CacheOK(Cache!Evict(cache, pinned), DOMAIN node)
          /\ pinned \subseteq Cache!Resident(Cache!Evict(cache, pinned))
      BY <3>1, ReturnPins
    <3> QED BY <2>1, <3>2 DEF pinned
  <2> QED BY <1>1, <1>2, <2>2, <2>3 DEF IInv, PinnedInMemory, Emptied
<1> QED BY <1>1, <1>3, <1>4

-----------------------------------------------------------------------------
(* The theorems. *)

\* The tree starts as one empty leaf, in memory.
LEMMA InitKeeps == Init => IInv
<1> SUFFICES ASSUME Init PROVE IInv
  OBVIOUS
<1> DEFINE leaf == NewNode(StartingEpsilon, 0)
<1>1. /\ node = [id \in {1} |-> leaf] /\ root = 1 /\ next_id = 2 /\ next_timestamp = 1
      /\ cache = Cache!Allocate(Cache!Empty, 1, Constructed(StartingEpsilon), {})
      /\ stack = << >> /\ returned = EmptyMap /\ call = "none"
  BY DEF Init
<1>2. DOMAIN node = {1} /\ node[1] = leaf
  BY <1>1
<1>3. NodeOK(leaf, {1}, 1) /\ DOMAIN leaf.pivots = {}
  <2> DEFINE none  == {}
             level == 0
             ready == FALSE
             eps   == StartingEpsilon
  <2>1. leaf = [pivots |-> EmptyMap, elements |-> none, epsilon |-> eps,
                node_level |-> level, ready_for_adoption |-> ready]
    BY DEF NewNode
  <2>2. none \in Buffer(1) /\ Inserts(none)
    BY FS_EmptySet DEF Buffer, Inserts
  <2> HIDE DEF leaf, none, level, ready, eps
  <2>3. leaf.pivots = EmptyMap /\ leaf.elements = none
    BY <2>1
  <2>4. /\ leaf = [pivots |-> leaf.pivots, elements |-> leaf.elements, epsilon |-> leaf.epsilon,
                   node_level |-> leaf.node_level,
                   ready_for_adoption |-> leaf.ready_for_adoption]
    BY <2>1
  <2>5. EmptyMap \in [{} -> {1}] /\ DOMAIN EmptyMap = {}
    BY DEF EmptyMap
  <2> QED BY <2>2, <2>3, <2>4, <2>5 DEF NodeOK
<1> HIDE DEF leaf
<1>4. NodesOK(node, root, EmptyMap, next_id, next_timestamp)
  <2>1. DOMAIN EmptyMap \subseteq Keys /\ EmptyMap \in [DOMAIN EmptyMap -> DOMAIN node]
    BY DEF EmptyMap
  <2>2. 1 .. 2 - 1 = {1}
    OBVIOUS
  <2> QED BY <1>1, <1>2, <1>3, <2>1, <2>2 DEF NodesOK
<1>5. OwnersOK(node, root, EmptyMap)
  BY <1>2, <1>3, EmptyMapFacts DEF OwnersOK
<1>6. FramesOK(stack, node, root, EmptyMap, call, next_timestamp)
  BY <1>1, NoFrames
<1>7. \E h : HeightsOK(h, node, EmptyMap, {})
  <2> DEFINE h == [id \in {1} |-> 0]
  <2>1. HeightsOK(h, node, EmptyMap, {})
    BY <1>2, <1>3 DEF HeightsOK
  <2> QED BY <2>1
<1>8. CacheOK(cache, DOMAIN node)
  <2> DEFINE empty == Cache!Empty
  <2>1. CacheOK(empty, {})
    <3>1. /\ empty.lru = << >> /\ empty.dirty = {} /\ empty.count = 0
          /\ empty.members = << >>
      BY DEF Cache!Empty
    <3> HIDE DEF empty
    <3>2. DOMAIN empty.lru = {} /\ DOMAIN empty.members = {} /\ empty.lru \in [{} -> Nat]
      BY <3>1
    <3>3. Cache!Resident(empty) = {}
      BY <3>2 DEF Cache!Resident
    <3>4. IsFiniteSet({}) /\ empty.count \in 0 .. Word - 1
      BY <3>1, FS_EmptySet, CacheAssumption
    <3> QED BY <3>1, <3>2, <3>3, <3>4 DEF CacheOK
  <2> HIDE DEF empty
  <2>2. {} \in SUBSET Cache!Resident(empty)
    OBVIOUS
  <2>3. CacheOK(Cache!Allocate(empty, 1, Constructed(StartingEpsilon), {}), {} \union {1})
    BY <2>1, <2>2, AllocateKeeps
  <2> QED BY <1>1, <1>2, <2>3 DEF empty
<1>9. PinnedBy(stack) = {}
  BY <1>1, NothingPinned
<1> QED BY <1>1, <1>4, <1>5, <1>6, <1>7, <1>8, <1>9 DEF IInv, PinnedInMemory, Emptied

\* The inductive invariant: every step keeps it, and the client's pauses do.
LEMMA StepKeeps == IInv /\ [Next]_vars => IInv'
<1> SUFFICES ASSUME IInv, [Next]_vars PROVE IInv'
  OBVIOUS
<1>1. CASE \E k \in Keys : Query(k) \/ \E op \in Ops : Upsert(op, k)
  BY <1>1, QueryKeeps, UpsertKeeps
<1>2. CASE FlushLeaf
  BY <1>2, FlushLeafKeeps
<1>3. CASE FlushDirect
  BY <1>3, FlushDirectKeeps
<1>4. CASE FlushBuffer
  BY <1>4, FlushBufferKeeps
<1>5. CASE FlushBatch
  BY <1>5, FlushBatchKeeps
<1>6. CASE FlushDone
  BY <1>6, FlushDoneKeeps
<1>7. CASE DirectReturned
  BY <1>7, DirectReturnedKeeps
<1>8. CASE DirectDone
  BY <1>8, DirectDoneKeeps
<1>9. CASE BatchReturned
  BY <1>9, BatchReturnedKeeps
<1>10. CASE UpsertReturn
  BY <1>10, UpsertReturnKeeps
<1>11. CASE QueryDown
  BY <1>11, QueryDownKeeps
<1>12. CASE QueryFound
  BY <1>12, QueryFoundKeeps
<1>13. CASE UNCHANGED vars
  BY <1>13 DEF vars, IInv, PinnedInMemory
<1> QED
  BY <1>1, <1>2, <1>3, <1>4, <1>5, <1>6, <1>7, <1>8, <1>9, <1>10, <1>11, <1>12, <1>13
  DEF Next, Step

\* The inductive invariant holds always.
THEOREM Shape == Spec => []IInv
  BY InitKeeps, StepKeeps, PTL DEF Spec

\* Whatever is upserted and asked, pointers lead to nodes that exist, in the tree,
\* on the stack and in the cache, and what is dirty is in memory.
THEOREM TypeCorrect == Spec => []TypeOK
<1>1. IInv => TypeOK
  <2> SUFFICES ASSUME IInv PROVE TypeOK
    OBVIOUS
  <2>1. /\ NodesOK(node, root, returned, next_id, next_timestamp)
        /\ FramesOK(stack, node, root, returned, call, next_timestamp)
        /\ CacheOK(cache, DOMAIN node)
    BY DEF IInv
  <2>2. DOMAIN node \subseteq 1 .. next_id - 1 /\ root \in DOMAIN node
    BY <2>1 DEF NodesOK
  <2>3. ASSUME NEW id \in DOMAIN node
        PROVE  /\ DOMAIN node[id].pivots \subseteq Keys
               /\ ChildrenOf(id) \subseteq DOMAIN node
               /\ \A m \in node[id].elements :
                     m.key \in Keys /\ m.ts \in 1 .. next_timestamp - 1 /\ m.op \in Opcodes
    <3>1. NodeOK(node[id], DOMAIN node, next_timestamp)
      BY <2>1 DEF NodesOK
    <3>2. \A m \in node[id].elements : m \in Message(next_timestamp)
      BY <3>1 DEF NodeOK, Buffer
    <3>3. \A m \in node[id].elements :
                     m.key \in Keys /\ m.ts \in 1 .. next_timestamp - 1 /\ m.op \in Opcodes
      BY <3>2 DEF Message
    <3> QED BY <3>1, <3>3 DEF NodeOK, ChildrenOf
  <2>4. PinnedBy(stack) \subseteq DOMAIN node
    <3>1. stack \in Seq(Flushes(next_timestamp) \union Queries)
      BY <2>1 DEF FramesOK
    <3>2. DOMAIN stack = 1 .. Len(stack)
      BY <3>1
    <3>3. \A i \in DOMAIN stack : stack[i].id \in DOMAIN node
      BY <2>1, <3>2 DEF FramesOK, FrameOK
    <3> QED BY <3>3 DEF PinnedBy
  <2>5. Range(returned) \subseteq DOMAIN node
    BY <2>1 DEF NodesOK, Range
  <2>6. /\ Cache!Resident(cache) \subseteq DOMAIN node
        /\ cache.dirty \subseteq Cache!Resident(cache)
        /\ DOMAIN cache.members = Cache!Resident(cache)
        /\ cache.count \in 0 .. Word - 1
    BY <2>1 DEF CacheOK
  <2>7. call \in {"none", "upsert", "query", "scan"} /\ (call = "none" => stack = << >>)
    BY <2>1 DEF FramesOK
  <2> QED BY <2>2, <2>3, <2>4, <2>5, <2>6, <2>7 DEF TypeOK
<1> QED BY <1>1, Shape, PTL

\* No call below evicts a node that an activation of flush() or query() runs on:
\* its `this` stays valid.
THEOREM ThisStaysValid == Spec => []PinnedInMemory
<1>1. IInv => PinnedInMemory
  BY DEF IInv
<1> QED BY <1>1, Shape, PTL

\* The assertion of node::query on a leaf never fails: what an update or an erase
\* does to a leaf leaves one insert for each key it has.
THEOREM LeavesHoldInserts == Spec => []LeafInserts
<1>1. IInv => LeafInserts
  <2> SUFFICES ASSUME IInv, NEW id \in DOMAIN node, IsLeaf(node[id]),
                      NEW m \in node[id].elements
               PROVE  m.op = "insert" /\ For(node[id].elements, m.key) = {m}
    BY DEF LeafInserts
  <2>1. NodeOK(node[id], DOMAIN node, next_timestamp)
    BY DEF IInv, NodesOK
  <2> QED BY <2>1 DEF NodeOK, Inserts
<1> QED BY <1>1, Shape, PTL

\* However splits move pivots up, no node is ever held twice: by two pivots, by one
\* of a node and one of the map that a flush() has returned, or by any when it is
\* the root.
THEOREM NoSecondOwner == Spec => []OwnersOK(node, root, returned)
<1>1. IInv => OwnersOK(node, root, returned)
  BY DEF IInv
<1> QED BY <1>1, Shape, PTL

\* The recursion of Depths finds the height of each node.
LEMMA DepthIsHeight ==
  ASSUME NEW h, HeightsOK(h, node, EmptyMap, {}),
         \A id \in DOMAIN node : ChildrenOf(id) \subseteq DOMAIN node
  PROVE  \A id \in DOMAIN node : Depths[id] = {h[id]}
<1> DEFINE D(d) == [id \in DOMAIN node |->
                      IF IsLeaf(node[id]) THEN {0}
                      ELSE {x + 1 : x \in UNION {d[c] : c \in ChildrenOf(id)}}]
<1>1. \A id \in DOMAIN node : h[id] \in Nat
  BY DEF HeightsOK
<1>2. \A id \in DOMAIN node : \A c \in ChildrenOf(id) : h[id] = h[c] + 1
  BY DEF HeightsOK, ChildrenOf
<1>3. \A id \in DOMAIN node : IsLeaf(node[id]) <=> ChildrenOf(id) = {}
  BY DEF IsLeaf, ChildrenOf
<1>4. \A id \in DOMAIN node : IsLeaf(node[id]) => h[id] = 0
  BY DEF HeightsOK
<1>5. ASSUME NEW d, NEW id \in DOMAIN node,
             \A c \in ChildrenOf(id) : d[c] = {h[c]}
      PROVE  D(d)[id] = {h[id]}
  <2>1. CASE IsLeaf(node[id])
    BY <1>4, <2>1
  <2>2. CASE ~IsLeaf(node[id])
    <3>1. PICK b \in ChildrenOf(id) : TRUE
      BY <1>3, <2>2
    <3>2. \A c \in ChildrenOf(id) : d[c] = {h[b]}
      <4>1. \A c \in ChildrenOf(id) : h[c] = h[b]
        BY <1>1, <1>2, <3>1
      <4> QED BY <1>5, <4>1
    <3>3. UNION {d[c] : c \in ChildrenOf(id)} = {h[b]}
      BY <3>1, <3>2
    <3>4. h[id] = h[b] + 1
      BY <1>2, <3>1
    <3> QED BY <2>2, <3>3, <3>4
  <2> QED BY <2>1, <2>2
<1>6. Depths = D(Depths)
  <2> DEFINE w == [id \in DOMAIN node |-> {h[id]}]
  <2>1. \A id \in DOMAIN node : D(w)[id] = {h[id]}
    <3>1. \A id \in DOMAIN node : \A c \in ChildrenOf(id) : w[c] = {h[c]}
      OBVIOUS
    <3> HIDE DEF w, D
    <3> QED BY <1>5, <3>1
  <2>2. w = D(w)
    BY <2>1
  <2>3. Depths = CHOOSE d : d = D(d)
    BY DEF Depths
  <2> HIDE DEF w, D
  <2> QED BY <2>2, <2>3
<1> HIDE DEF D
<1> DEFINE G == {n \in Nat : \A id \in DOMAIN node : h[id] = n => Depths[id] = {h[id]}}
<1>7. ASSUME NEW id \in DOMAIN node, \A c \in ChildrenOf(id) : Depths[c] = {h[c]}
      PROVE  Depths[id] = {h[id]}
  <2>1. D(Depths)[id] = {h[id]}
    BY <1>5, <1>7
  <2> QED BY <1>6, <2>1
<1>8. 0 \in G
  <2>1. \A id \in DOMAIN node : h[id] = 0 => ChildrenOf(id) = {}
    BY <1>1, <1>2
  <2> QED BY <1>7, <2>1
<1>9. ASSUME NEW n \in Nat, n \in G PROVE n + 1 \in G
  <2> SUFFICES ASSUME NEW id \in DOMAIN node, h[id] = n + 1 PROVE Depths[id] = {h[id]}
    OBVIOUS
  <2>1. \A c \in ChildrenOf(id) : h[c] = n /\ c \in DOMAIN node
    BY <1>1, <1>2
  <2>2. \A c \in ChildrenOf(id) : Depths[c] = {h[c]}
    BY <1>9, <2>1
  <2> QED BY <1>7, <2>2
<1>10. Nat \subseteq G
  <2> HIDE DEF G
  <2> QED BY <1>8, <1>9, NatSetInduction
<1> QED BY <1>1, <1>10

\* Whatever splits a call went through, when it is over all leaves are at one depth.
THEOREM AlwaysBalanced == Spec => []Balanced
<1>1. IInv => Balanced
  <2> SUFFICES ASSUME IInv, call = "none" PROVE Cardinality(Depths[root]) = 1
    BY DEF Balanced
  <2>1. returned = EmptyMap
    BY DEF IInv, FramesOK
  <2>2. PICK h : HeightsOK(h, node, EmptyMap, {})
    BY <2>1 DEF IInv, Emptied
  <2>3. root \in DOMAIN node /\ \A id \in DOMAIN node : ChildrenOf(id) \subseteq DOMAIN node
    BY DEF IInv, NodesOK, NodeOK, ChildrenOf
  <2>4. Depths[root] = {h[root]}
    BY <2>2, <2>3, DepthIsHeight
  <2> QED BY <2>4, FS_Singleton
<1> QED BY <1>1, Shape, PTL
=============================================================================
