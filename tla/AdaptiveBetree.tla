---------------------------- MODULE AdaptiveBetree ----------------------------
(***************************************************************************)
(* The steps that a dynamic tree (is_dynamic = true) takes besides those   *)
(* of Betree.  A node down to the tunable level counts each call of        *)
(* flush() and query() before it does anything else, and from time to time *)
(* chooses a new epsilon, for itself or for its whole subtree.  A node     *)
(* whose limit grew adopts grandchildren at the end of its next query.     *)
(***************************************************************************)
EXTENDS Betree

Children(n) == LET keys == SetToSortSeq(DOMAIN n.pivots, <)
               IN  [i \in DOMAIN keys |-> n.pivots[keys[i]]]

\* step(v) where v is the value of `value`.  TLC may evaluate an argument again at
\* each use; a bound variable it evaluates once.
On(value, step(_)) == CHOOSE result \in {step(v) : v \in {value}} : TRUE

-----------------------------------------------------------------------------
(* add_read and add_write with set_epsilon. *)

Members == cache.members[Top.id]

\* The tracker after the call that is counted.
Counted ==
    LET operation == IF Top.fn = "flush" THEN Write ELSE Read
    IN  [Members EXCEPT !.window = Push(@, Members.W, operation),
                        !.operation_count = @ + 1]

Tunable == Current.node_level = TunableEpsilonLevel

RECURSIVE Visit(_, _, _, _)

\* Mutant: the limits of the nodes below are left.
MutVisit(c, id, pinned, limits) ==
    LET own == pinned \union {id}
        Down(c1, child)   == On(c1, LAMBDA a : Visit(a, child, own, << >>))
        Enter(acc, child) == On(Down(Cache!Access(acc, child, own), child),
                                LAMBDA a : Cache!Evict(a, own))
        Leave(below) == Cache!Assign(below, id, limits @@ below.members[id])
    IN  On(FoldLeft(Enter, c, Children(node[id])), Leave)

\* A walk over the subtree of a node, which is loaded and pinned, that accesses
\* each node and assigns `limits` to it after its children.
Visit(c, id, pinned, limits) ==
    LET own == pinned \union {id}
        Down(c1, child)   == On(c1, LAMBDA a : Visit(a, child, own, limits))
        Enter(acc, child) == On(Down(Cache!Access(acc, child, own), child),
                                LAMBDA a : Cache!Evict(a, own))
        Leave(below) == Cache!Assign(below, id, limits @@ below.members[id])
    IN  On(FoldLeft(Enter, c, Children(node[id])), Leave)

\* recursive_set_epsilon
RecursiveSetEpsilon(c, pivots) ==
    Visit(c, Top.id, PinnedBy(stack), [max_pivots |-> pivots])

\* flag_as_ready_for_adoption_recursive
FlagRecursive(c) == Visit(c, Top.id, PinnedBy(stack), << >>)

\* A call is counted and no update is due.
CountOp ==
    /\ stack # << >> /\ Top.pc = "count"
    /\ Counted.operation_count # Counted.ops_before
    /\ cache' = Cache!Assign(cache, Top.id, Counted)
    /\ stack' = At("enter", 0)
    /\ UNCHANGED <<node, root, next_id, next_timestamp, returned, call, found, answer, queries,
                   reference>>

\* The nodes that an update gives a new epsilon, or flags.
Retuned(deep) == IF deep THEN Subtree[Top.id] ELSE {Top.id}

\* What an update to a limit of `pivots` does to the cache: a new limit at the tunable
\* level is given to all nodes below, and if it is higher these are walked again to
\* flag them.
Relimit(pivots, deep, grows) ==
    LET counted == Cache!Assign(cache, Top.id, [Counted EXCEPT !.max_pivots = pivots])
        limited == IF deep THEN RecursiveSetEpsilon(counted, pivots) ELSE counted
        flagged == IF deep /\ grows THEN FlagRecursive(limited) ELSE limited
        Reset(c) == Cache!Assign(c, Top.id, [c.members[Top.id] EXCEPT !.operation_count = 0])
    IN  On(flagged, Reset)

\* A call is counted and the node updates its epsilon, for itself or for its subtree.
\* When the limit is higher than before these nodes get ready for adoption.
SetEpsilon ==
    /\ stack # << >> /\ Top.pc = "count"
    /\ Counted.operation_count = Counted.ops_before
    /\ \E new_epsilon \in {GetEpsilon(Counted.window, Members.W)} :
       LET pivots == PivotsFor(new_epsilon)
           deep   == pivots # Members.max_pivots /\ Tunable
           grows  == pivots > Members.max_pivots
       IN  /\ cache' = Relimit(pivots, deep, grows)
           /\ node' = [id \in DOMAIN node |->
                          IF id \in Retuned(deep)
                          THEN [node[id] EXCEPT !.epsilon = new_epsilon,
                                                !.ready_for_adoption = @ \/ grows]
                          ELSE node[id]]
    /\ stack' = At("enter", 0)
    /\ UNCHANGED <<root, next_id, next_timestamp, returned, call, found, answer, queries,
                   reference>>

-----------------------------------------------------------------------------
(* adopt. *)

\* The state of the loop: the nodes, the cache and the ids of the children that were
\* there before and are not yet adopted.
Adopting(nodes, c, ids) == [nodes |-> nodes, cache |-> c, ids |-> ids]

\* All its grandchildren or none.
CanAdopt(nodes, child) ==
    /\ Cardinality(DOMAIN nodes[Top.id].pivots) - 1
         + Cardinality(DOMAIN nodes[child].pivots) <= MaxPivots
    /\ ~IsLeaf(nodes[child])

\* Mutant: the messages of the child take the place of those of the node.
MutAdoptFrom(nodes, child) ==
    LET n == nodes[Top.id]
        p == CHOOSE q \in DOMAIN n.pivots : n.pivots[q] = child
        adopted == [n EXCEPT
                       !.elements = nodes[child].elements,
                       !.pivots   = Restrict(@, DOMAIN @ \ {p}) @@ nodes[child].pivots]
        Level(g) == [g EXCEPT !.node_level = (@ + Word - 1) % Word]
    IN  [id \in DOMAIN nodes \ {child} |->
            IF id = Top.id THEN adopted
            ELSE IF id \in Range(nodes[child].pivots) THEN Level(nodes[id])
            ELSE nodes[id]]

\* The messages of the child are applied to this node, its children become
\* children of this node one level higher, and the child is gone.
AdoptFrom(nodes, child) ==
    LET n == nodes[Top.id]
        p == CHOOSE q \in DOMAIN n.pivots : n.pivots[q] = child
        adopted == [n EXCEPT
                       !.elements = ApplyAll(@, nodes[child].elements, FALSE),
                       !.pivots   = Restrict(@, DOMAIN @ \ {p}) @@ nodes[child].pivots]
        Level(g) == [g EXCEPT !.node_level = (@ + Word - 1) % Word]
    IN  [id \in DOMAIN nodes \ {child} |->
            IF id = Top.id THEN adopted
            ELSE IF id \in Range(nodes[child].pivots) THEN Level(nodes[id])
            ELSE nodes[id]]

\* One round: always the first of the ids is looked for, from the first pivot on.
Look(s) ==
    LET children == Children(s.nodes[Top.id])
        place    == CHOOSE j \in DOMAIN children : children[j] = s.ids[1]
    IN  [s EXCEPT !.cache = Cache!TouchAll(@, SubSeq(children, 1, place), PinnedBy(stack))]

Take(s) ==
    LET child == s.ids[1]
        moved == Cache!TouchAll(s.cache, Children(s.nodes[child]), PinnedBy(stack))
    IN  IF CanAdopt(s.nodes, child)
        THEN Adopting(AdoptFrom(s.nodes, child), Cache!Free(moved, child), Tail(s.ids))
        ELSE s

AdoptRound(s, i) == On(On(s, Look), Take)

\* As many rounds as there were children, and then the sizes of all children are read.
Adopted ==
    LET children == Children(Current)
        begun    == Adopting(node, Cache!TouchAll(cache, children, PinnedBy(stack)), children)
        Size(s)  == [s EXCEPT !.cache =
                        Cache!TouchAll(@, Children(s.nodes[Top.id]), PinnedBy(stack))]
    IN  On(FoldLeft(AdoptRound, begun, children), Size)

\* A node that is full is only told that it is not ready.
Adopt ==
    /\ Running("query", "adopt")
    /\ \E end \in {IF Cardinality(DOMAIN Current.pivots) >= MaxPivots
                   THEN Adopting(node, cache, << >>) ELSE Adopted} :
          /\ node' = [end.nodes EXCEPT ![Top.id].ready_for_adoption = FALSE]
          /\ QueryReturn(end.cache, found)
    /\ UNCHANGED <<root, next_id, next_timestamp, returned, queries, reference>>

AdaptiveStep == CountOp \/ SetEpsilon \/ Adopt

-----------------------------------------------------------------------------
(* Properties. *)

\* The limit that a node works with is the one of its epsilon, through updates of a
\* node or its subtree, splits, new roots and adoption.  Limits are not serialized: a
\* node that was loaded, known by its ops_before, may have the limit that the default
\* constructor gave it.
LimitsFollowEpsilon ==
    \A id \in DOMAIN cache.members :
        LET m == cache.members[id]
        IN  \/ m.max_pivots = PivotsFor(node[id].epsilon)
            \/ m.ops_before = DefaultOps /\ m.max_pivots = DefaultMembers.max_pivots

\* Adoption changes what the tree holds for a key only when the node and a child that
\* goes both buffer messages for it (betree_adopt shows that it does then), or a
\* message was where get_pivot does not look already (see betree_stale).  The node's
\* own messages survive for every other key, and so do those of the child.
AdoptKeeps ==
    [][Running("query", "adopt") /\ Routing =>
          \A k \in Keys :
              (\A gone \in DOMAIN node \ DOMAIN node' :
                  For(Current.elements, k) = {} \/ For(node[gone].elements, k) = {})
              => Contents'[k] = Contents[k]]_vars
=============================================================================
