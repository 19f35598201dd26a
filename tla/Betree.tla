------------------------------- MODULE Betree -------------------------------
(***************************************************************************)
(* The B^e-tree of betree.hpp: upsert() and query() down to node::flush,   *)
(* node::split and node::query, over the cache of LruCache.  The program   *)
(* has one thread; its call stack is `stack`, and each action runs one     *)
(* activation up to the next call or return, the cache accesses of that    *)
(* stretch included.  This module is the whole of a tree with is_dynamic   *)
(* = false; the steps that an activation takes besides these in a dynamic  *)
(* tree, at `count` and `adopt`, are in AdaptiveBetree.                    *)
(*                                                                         *)
(* Nodes are read from `node` whether in memory or on disk: that the swap  *)
(* space makes no difference to contents is SwapSpace's refinement of      *)
(* Heap.  What is in memory and dirty does matter to flush().              *)
(***************************************************************************)
EXTENDS Integers, FiniteSets, FiniteSetsExt, SequencesExt, Functions, TLC

CONSTANTS
    Keys,         \* a set of numbers
    None,
    StartingEpsilon,                        \* startingepsilon, in thousandths
    StartPivots, WritePivots, ReadPivots,   \* calculate_max_pivots() of it and of
                                            \* the two ends of the range: 4 and 48
    NodeSize,     \* max_node_size: 64
    MinFlush,     \* min_flush_size: 4
    CacheSize, Word,
    IsDynamic, TunableEpsilonLevel, OpsBeforeUpdate, WindowSize,
    DefaultOps, DefaultWindow,   \* of a node that was loaded: 100 and 100
    Ops,          \* bound: the kinds of upsert issued
    MaxUpserts,   \* bound: upserts issued
    MaxQueries    \* bound: queries issued

ASSUME SizeAssumption ==
    /\ \A pivots \in {StartPivots, WritePivots, ReadPivots} : pivots \in 0 .. NodeSize - 1
    /\ MinFlush \in Nat /\ NodeSize \in Nat
    /\ MinFlush < (10 * NodeSize) \div 24

INSTANCE Messages
INSTANCE Window

ASSUME KeysAssumption == Keys \in SUBSET Int /\ IsFiniteSet(Keys)
ASSUME CacheAssumption == CacheSize \in Nat /\ Word \in Nat \ {0}
ASSUME OpsAssumption == Ops \subseteq Opcodes
ASSUME NoneAssumption == None \notin Seq(Nat)

-----------------------------------------------------------------------------
(* The members that a node does not serialize: its limits and its tracker. *)

PivotsFor(epsilon) == CASE epsilon = WRITE_HEAVY_E -> WritePivots
                        [] epsilon = READ_HEAVY_E  -> ReadPivots
                        [] OTHER                   -> StartPivots

Constructed(epsilon) ==
    [max_pivots |-> PivotsFor(epsilon), operation_count |-> 0,
     ops_before |-> OpsBeforeUpdate, W |-> WindowSize, window |-> << >>]

\* A load runs the default constructor and then reads the epsilon of the file.
DefaultMembers ==
    [max_pivots |-> PivotsFor(WRITE_HEAVY_E), operation_count |-> 0,
     ops_before |-> DefaultOps, W |-> DefaultWindow, window |-> << >>]

Cache == INSTANCE LruCache WITH Reloaded <- DefaultMembers

VARIABLES
    node,       \* id -> [pivots: key -> id, elements: set of messages,
                \*        epsilon, node_level, ready_for_adoption]
    root,
    cache,
    next_id, next_timestamp,
    stack,      \* activations, the running one last
    returned,   \* pivot map returned by the last flush()
    call,       \* what the client is in: "none", "upsert", "query" or "scan"
    found,      \* value returned by the last activation of node::query
    answer,     \* what the last betree::query returned
    queries,    \* queries issued
    reference   \* the std::map of test.cpp

vars == <<node, root, cache, next_id, next_timestamp, stack, returned, call,
          found, answer, queries, reference>>

EmptyMap  == [k \in {} |-> 0]
NewNode(epsilon, level) ==
    [pivots |-> EmptyMap, elements |-> {}, epsilon |-> epsilon, node_level |-> level,
     ready_for_adoption |-> FALSE]
Reference == INSTANCE KVMap WITH Values <- {Default}, dict <- reference

-----------------------------------------------------------------------------
(* Reading a node. *)

IsLeaf(n)    == DOMAIN n.pivots = {}
FirstPivot(n) == Min(DOMAIN n.pivots)
NextPivots(n, p) == {q \in DOMAIN n.pivots : q > p}

\* get_pivot(k): the last pivot that is not above k.
GetPivot(n, k) == Max({p \in DOMAIN n.pivots : p <= k})

\* The messages from get_element_begin(p) up to that of the next pivot.
Batch(n, p) ==
    {m \in n.elements : m.key >= p /\ \A q \in NextPivots(n, p) : m.key < q}

BatchSize(n, p) == Cardinality(Batch(n, p))

\* The child with the most messages, the first one among equals.
Largest(n) ==
    CHOOSE p \in DOMAIN n.pivots :
        \A q \in DOMAIN n.pivots : \/ BatchSize(n, p) > BatchSize(n, q)
                                   \/ BatchSize(n, p) = BatchSize(n, q) /\ p <= q


Flushable(n, p) ==
    \/ BatchSize(n, p) > MinFlush
    \/ BatchSize(n, p) > MinFlush \div 2 /\ Cache!InMemory(cache, n.pivots[p])

\* Replaces the pivot of a child that was split by the pivots of its parts; insert()
\* leaves an entry that is there already.
Replace(pivots, p, parts) ==
    [k \in (DOMAIN pivots \ {p}) \union DOMAIN parts |->
        IF k \in DOMAIN pivots \ {p} THEN pivots[k] ELSE parts[k]]

-----------------------------------------------------------------------------
(* node::split. *)

Things(n) == Cardinality(n.elements) + Cardinality(DOMAIN n.pivots)

NumNew(n) == Max({2, Things(n) \div ((10 * NodeSize) \div 24)})

\* Mutant: rounded down.
MutPerNew(n) == Things(n) \div NumNew(n)

PerNew(n) == (Things(n) + NumNew(n) - 1) \div NumNew(n)

\* The pivot that a message is moved with: a message left below all pivots goes
\* with the first one.
Owner(n, m) == IF m.key < FirstPivot(n) THEN FirstPivot(n) ELSE GetPivot(n, m.key)

\* The part that a pivot goes to, with its messages; they are moved in key order,
\* and a part is full when all parts so far hold PerNew each.
PivotPart(n, p) ==
    (Cardinality({q \in DOMAIN n.pivots : q < p})
       + Cardinality({m \in n.elements : Owner(n, m) < p})) \div PerNew(n)

LeafPart(n, m) == Cardinality({e \in n.elements : MsgLess(e, m)}) \div PerNew(n)

\* A part inherits the epsilon and is put a level below its node.
Part(n, i) ==
    LET mine == {p \in DOMAIN n.pivots : PivotPart(n, p) = i}
    IN  IF IsLeaf(n)
        THEN [NewNode(n.epsilon, (n.node_level + 1) % Word) EXCEPT
                 !.elements = {m \in n.elements : LeafPart(n, m) = i}]
        ELSE [NewNode(n.epsilon, (n.node_level + 1) % Word) EXCEPT
                 !.pivots   = Restrict(n.pivots, mine),
                 !.elements = {m \in n.elements : Owner(n, m) \in mine}]

\* Mutant: a part of a leaf is filed under its last key.
MutPartKey(part) == IF IsLeaf(part) THEN Max({m.key : m \in part.elements})
                                    ELSE FirstPivot(part)

PartKey(part) == IF IsLeaf(part) THEN Min({m.key : m \in part.elements})
                                 ELSE FirstPivot(part)

\* A part is skipped when the one before it took more than its share.
Parts(n) == {i \in 0 .. NumNew(n) - 1 : Things(Part(n, i)) > 0}

IdOf(i) == next_id + i

SplitResult(n) ==
    [k \in {PartKey(Part(n, i)) : i \in Parts(n)} |->
        IdOf(CHOOSE i \in Parts(n) : PartKey(Part(n, i)) = k)]

\* The accesses: each part is allocated and filled in turn, a part that was skipped
\* is freed when the next one takes its pivot, and then all sizes are read.
FillPart(n, i, c, pinned) ==
    LET new    == Cache!Allocate(c, IdOf(i), Constructed(n.epsilon), pinned)
        filled == Cache!Touch(new, IdOf(i), pinned)
    IN  IF i = 0 \/ i - 1 \in Parts(n) THEN filled ELSE Cache!Free(filled, IdOf(i - 1))

InTurn(step(_, _), c, places) == MapThenFoldSet(step, c, LAMBDA i : i, Max, places)

SplitCache(n, c, pinned) ==
    LET Fill(i, acc) == FillPart(n, i, acc, pinned)
        Size(i, acc) == Cache!Touch(acc, IdOf(i), pinned)
    IN  InTurn(Size, InTurn(Fill, c, 0 .. Max(Parts(n))), Parts(n))

-----------------------------------------------------------------------------
(* The call stack. *)

PinnedBy(st) == {st[i].id : i \in DOMAIN st}

Top     == Last(stack)
Running(fn, pc) == stack # << >> /\ Top.fn = fn /\ Top.pc = pc
Current == node[Top.id]

\* The limits of the node that runs.
MaxPivots   == cache.members[Top.id].max_pivots
MaxMessages == NodeSize - MaxPivots

OverLimit(n) == \/ Cardinality(n.elements) >= MaxMessages
                \/ Cardinality(DOMAIN n.pivots) >= MaxPivots

\* The nodes of a dynamic tree that count the calls they get.
Counts(id) == IsDynamic /\ node[id].node_level <= TunableEpsilonLevel

Activation(fn, id, arg) ==
    [fn |-> fn, id |-> id, arg |-> arg, pivot |-> 0,
     pc |-> IF Counts(id) THEN "count" ELSE "enter"]

\* p->f(arg): the activation pins its node ...
Call(frames, fn, id, arg) ==
    /\ stack' = Append(frames, Activation(fn, id, arg))
    /\ cache' = Cache!Access(cache, id, PinnedBy(frames))

\* ... and unpins it when it returns, after the cache went from `cache` to c.
Return(c) ==
    /\ stack' = Front(stack)
    /\ cache' = Cache!Evict(c, PinnedBy(Front(stack)))

At(pc, pivot) == Append(Front(stack), [Top EXCEPT !.pc = pc, !.pivot = pivot])

Init ==
    /\ node = [id \in {1} |-> NewNode(StartingEpsilon, 0)]
    /\ root = 1
    /\ cache = Cache!Allocate(Cache!Empty, 1, Constructed(StartingEpsilon), {})
    /\ next_id = 2 /\ next_timestamp = 1
    /\ stack = << >> /\ returned = EmptyMap /\ call = "none"
    /\ found = << >> /\ answer = << >> /\ queries = 0
    /\ reference = [k \in Keys |-> None]

-----------------------------------------------------------------------------
(* upsert. *)

\* betree::upsert, with a value that tells each call from the others.
Upsert(op, k) ==
    LET val == IF op = "delete" THEN Default ELSE <<next_timestamp>>
        m   == [key |-> k, ts |-> next_timestamp, op |-> op, val |-> val]
    IN  /\ call = "none" /\ next_timestamp <= MaxUpserts
        /\ next_timestamp' = next_timestamp + 1
        /\ reference' = [reference EXCEPT ![k] = Reference!Effect(op, val, @)]
        /\ call' = "upsert"
        /\ Call(<< >>, "flush", root, {m})
        /\ UNCHANGED <<node, root, next_id, returned, found, answer, queries>>

\* The end of a flush() that leaves n in its node, or splits it.
Finish(n, splits) ==
    /\ IF splits
       THEN /\ returned' = SplitResult(n)
            /\ node' = [i \in DOMAIN node \union {IdOf(j) : j \in Parts(n)} |->
                           IF i = Top.id THEN [n EXCEPT !.pivots = EmptyMap, !.elements = {}]
                           ELSE IF i \in DOMAIN node THEN node[i]
                           ELSE Part(n, i - next_id)]
            /\ next_id' = next_id + NumNew(n)
            /\ Return(SplitCache(n, cache, PinnedBy(stack)))
       ELSE /\ returned' = EmptyMap
            /\ node' = [node EXCEPT ![Top.id] = n]
            /\ Return(cache)
            /\ UNCHANGED next_id
    /\ UNCHANGED <<root, next_timestamp, call, found, answer, queries, reference>>

\* flush() of a leaf applies the messages and splits when there are too many.
FlushLeaf ==
    /\ Running("flush", "enter") /\ IsLeaf(Current)
    /\ \E applied \in {[Current EXCEPT !.elements = ApplyAll(@, Top.arg, TRUE)]} :
          Finish(applied, Cardinality(applied.elements) >= MaxMessages)

\* flush() of an inner node first lowers the key of its first child.
Rekeyed(n, batch) ==
    LET low == Min({m.key : m \in batch})
    IN  IF low < FirstPivot(n)
        THEN [n EXCEPT !.pivots = Replace(@, FirstPivot(n), [k \in {low} |-> @[FirstPivot(n)]])]
        ELSE n

\* All messages are for one child, and it is dirty: the shortcut.
GoesDirect(n, batch) ==
    LET first == GetPivot(n, Min({m.key : m \in batch}))
    IN  /\ first = GetPivot(n, Max({m.key : m \in batch}))
        /\ n.pivots[first] \in cache.dirty

FlushDirect ==
    /\ Running("flush", "enter") /\ ~IsLeaf(Current)
    /\ LET n == Rekeyed(Current, Top.arg)
           p == GetPivot(n, Min({m.key : m \in Top.arg}))
       IN  /\ GoesDirect(n, Top.arg)
           /\ node' = [node EXCEPT ![Top.id] = n]
           /\ Call(At("direct", p), "flush", n.pivots[p], Top.arg)
    /\ UNCHANGED <<root, next_id, next_timestamp, returned, call, found, answer, queries,
                   reference>>

\* Otherwise the node buffers the messages.
FlushBuffer ==
    /\ Running("flush", "enter") /\ ~IsLeaf(Current)
    /\ LET n == Rekeyed(Current, Top.arg)
       IN  /\ ~GoesDirect(n, Top.arg)
           /\ node' = [node EXCEPT ![Top.id] =
                          [n EXCEPT !.elements = ApplyAll(@, Top.arg, FALSE)]]
           /\ stack' = At("loop", 0)
    /\ UNCHANGED <<root, cache, next_id, next_timestamp, returned, call, found, answer, queries,
                   reference>>

\* While it holds too much it flushes the largest batch to its child ...
FlushBatch ==
    /\ Running("flush", "loop")
    /\ LET p == Largest(Current)
       IN  /\ OverLimit(Current) /\ Flushable(Current, p)
           /\ Call(At("batch", p), "flush", Current.pivots[p], Batch(Current, p))
    /\ UNCHANGED <<node, root, next_id, next_timestamp, returned, call, found, answer, queries,
                   reference>>

\* ... and then splits if it has too many pivots.
FlushDone ==
    /\ Running("flush", "loop")
    /\ ~(OverLimit(Current) /\ Flushable(Current, Largest(Current)))
    /\ Finish(Current, Cardinality(DOMAIN Current.pivots) > MaxPivots)

\* Mutant: the child keeps its parts as its own children.
MutChildReturned(n, p) ==
    LET child == n.pivots[p]
    IN  /\ node' = [node EXCEPT ![child].pivots = returned, ![Top.id] = n]
        /\ cache' = Cache!Touch(cache, child, PinnedBy(stack))

\* The flush() of the child on pivot p has returned: its parts replace it, which
\* frees it, or its size is read.
ChildReturned(n, p) ==
    LET child == n.pivots[p]
    IN  IF returned # EmptyMap
        THEN /\ node' = [i \in DOMAIN node \ {child} |->
                            IF i = Top.id THEN [n EXCEPT !.pivots = Replace(@, p, returned)]
                                          ELSE node[i]]
             /\ cache' = Cache!Free(cache, child)
        ELSE /\ node' = [node EXCEPT ![Top.id] = n]
             /\ cache' = Cache!Touch(cache, child, PinnedBy(stack))

\* Back from the shortcut the activation is at its end; no limit is looked at.
DirectReturned ==
    /\ Running("flush", "direct")
    /\ ChildReturned(Current, Top.pivot)
    /\ stack' = At("end", 0)
    /\ returned' = EmptyMap
    /\ UNCHANGED <<root, next_id, next_timestamp, call, found, answer, queries, reference>>

DirectDone ==
    /\ Running("flush", "end")
    /\ Finish(Current, FALSE)

\* Mutant: the flushed messages stay in the buffer.
MutBatchReturned ==
    /\ Running("flush", "batch")
    /\ ChildReturned(Current, Top.pivot)
    /\ stack' = At("loop", 0)
    /\ returned' = EmptyMap
    /\ UNCHANGED <<root, next_id, next_timestamp, call, found, answer, queries, reference>>

\* Mutant: the last message of the batch is not erased.
MutBatchErase ==
    /\ Running("flush", "batch")
    /\ LET batch == Batch(Current, Top.pivot)
           last  == CHOOSE m \in batch : \A e \in batch : ~MsgLess(m, e)
       IN  ChildReturned([Current EXCEPT !.elements = @ \ (batch \ {last})], Top.pivot)
    /\ stack' = At("loop", 0)
    /\ returned' = EmptyMap
    /\ UNCHANGED <<root, next_id, next_timestamp, call, found, answer, queries, reference>>

\* Back from flushing a batch its messages are erased, and the loop goes on.
BatchReturned ==
    /\ Running("flush", "batch")
    /\ ChildReturned([Current EXCEPT !.elements = @ \ Batch(Current, Top.pivot)], Top.pivot)
    /\ stack' = At("loop", 0)
    /\ returned' = EmptyMap
    /\ UNCHANGED <<root, next_id, next_timestamp, call, found, answer, queries, reference>>

\* Mutant: the parts of a root that was split are dropped.
MutUpsertReturn ==
    /\ call = "upsert" /\ stack = << >>
    /\ returned' = EmptyMap
    /\ call' = "none"
    /\ UNCHANGED <<node, root, cache, next_id, next_timestamp, stack, found, answer, queries,
                   reference>>

\* The end of betree::upsert: the parts of a root that was split get a new root.
UpsertReturn ==
    /\ call = "upsert" /\ stack = << >>
    /\ IF returned = EmptyMap
       THEN UNCHANGED <<node, root, cache, next_id>>
       ELSE /\ node' = [i \in (DOMAIN node \ {root}) \union {next_id} |->
                           IF i = next_id
                           THEN [NewNode(node[root].epsilon, 0) EXCEPT !.pivots = returned]
                           ELSE node[i]]
            /\ root' = next_id
            /\ next_id' = next_id + 1
            /\ LET new   == Constructed(node[root].epsilon)
                   grown == Cache!Allocate(Cache!Touch(cache, root, {}), next_id, new, {})
               IN  cache' = Cache!Touch(Cache!Free(grown, root), next_id, {})
    /\ returned' = EmptyMap
    /\ call' = "none"
    /\ UNCHANGED <<next_timestamp, stack, found, answer, queries, reference>>

-----------------------------------------------------------------------------
(* query. *)

Query(k) ==
    /\ call = "none" /\ queries < MaxQueries
    /\ queries' = queries + 1
    /\ call' = "query"
    /\ Call(<< >>, "query", root, k)
    /\ UNCHANGED <<node, root, next_id, next_timestamp, returned, found, answer, reference>>

\* A child is asked when the messages do not decide; get_pivot throws when the
\* key is below all pivots.
AsksChild == /\ ~IsLeaf(Current)
             /\ NeedsBelow(Current.elements, Top.arg)
             /\ FirstPivot(Current) <= Top.arg

QueryDown ==
    /\ Running("query", "enter") /\ AsksChild
    /\ Call(At("below", 0), "query", Current.pivots[GetPivot(Current, Top.arg)], Top.arg)
    /\ UNCHANGED <<node, root, next_id, next_timestamp, returned, call, found, answer, queries,
                   reference>>

\* The return of an activation of query() with a value.
QueryReturn(c, value) ==
    /\ found' = value
    /\ Return(c)
    /\ answer' = IF Len(stack) = 1 THEN <<Top.arg, value>> ELSE answer
    /\ call' = IF Len(stack) = 1 THEN "none" ELSE call

\* The value of this node, from that of its child if one was asked.  An inner
\* node that is ready adopts before it returns one; an exception passes it by.
QueryFound ==
    /\ \/ Running("query", "enter") /\ ~AsksChild
       \/ Running("query", "below")
    /\ LET below == IF Top.pc = "below" THEN found ELSE None
           value == Eval(Current.elements, Top.arg, below)
       IN  IF Current.ready_for_adoption /\ ~IsLeaf(Current) /\ value # None
           THEN /\ found' = value
                /\ stack' = At("adopt", 0)
                /\ UNCHANGED <<cache, answer, call>>
           ELSE QueryReturn(cache, value)
    /\ UNCHANGED <<node, root, next_id, next_timestamp, returned, queries, reference>>

Step ==
    \/ FlushLeaf \/ FlushDirect \/ FlushBuffer \/ FlushBatch \/ FlushDone
    \/ DirectReturned \/ DirectDone \/ BatchReturned \/ UpsertReturn
    \/ QueryDown \/ QueryFound

Next ==
    \/ \E k \in Keys : Query(k) \/ \E op \in Ops : Upsert(op, k)
    \/ Step

Spec == Init /\ [][Next]_vars

-----------------------------------------------------------------------------
(* Properties. *)

Values == {Default} \union {<<t>> : t \in 1 .. MaxUpserts}

ChildrenOf(id) == {node[id].pivots[p] : p \in DOMAIN node[id].pivots}

\* The nodes of the subtree of each node, and the depths of its leaves.
Subtree ==
    LET below[id \in DOMAIN node] == {id} \union UNION {below[c] : c \in ChildrenOf(id)}
    IN  below

Depths ==
    LET depths[id \in DOMAIN node] ==
            IF IsLeaf(node[id]) THEN {0}
            ELSE {d + 1 : d \in UNION {depths[c] : c \in ChildrenOf(id)}}
    IN  depths

\* What the tree holds for k: the recursion of node::query.
ValueOf(k) ==
    LET value[id \in DOMAIN node] ==
            LET n     == node[id]
                below == IF ~IsLeaf(n) /\ FirstPivot(n) <= k
                         THEN value[n.pivots[GetPivot(n, k)]] ELSE None
            IN  Eval(n.elements, k, below)
    IN  value[root]

Contents == [k \in Keys |-> ValueOf(k)]

\* Pointers lead to nodes that exist, in the tree, on the stack and in the cache,
\* and a node that left memory is not taken for dirty (is_dirty()).
TypeOK ==
    /\ DOMAIN node \subseteq 1 .. next_id - 1 /\ root \in DOMAIN node
    /\ \A id \in DOMAIN node :
          /\ DOMAIN node[id].pivots \subseteq Keys
          /\ ChildrenOf(id) \subseteq DOMAIN node
          /\ \A m \in node[id].elements :
                m.key \in Keys /\ m.ts \in 1 .. next_timestamp - 1 /\ m.op \in Opcodes
    /\ PinnedBy(stack) \subseteq DOMAIN node
    /\ Range(returned) \subseteq DOMAIN node
    /\ Cache!Resident(cache) \subseteq DOMAIN node /\ cache.dirty \subseteq Cache!Resident(cache)
    /\ DOMAIN cache.members = Cache!Resident(cache)
    /\ cache.count \in 0 .. Word - 1
    /\ call \in {"none", "upsert", "query", "scan"} /\ (call = "none" => stack = << >>)

\* The nodes form one tree, also while splits move pivots up through the returned
\* maps: a node other than the root is held by exactly one pivot, of a node or of
\* the map that a flush() has just returned.
OneOwner ==
    \A id \in DOMAIN node :
        LET held  == {x \in (DOMAIN node) \X Keys :
                         x[2] \in DOMAIN node[x[1]].pivots /\ node[x[1]].pivots[x[2]] = id}
            given == {p \in DOMAIN returned : returned[p] = id}
        IN  Cardinality(held) + Cardinality(given) = IF id = root THEN 0 ELSE 1

\* Whatever splits a call went through, when it is over all leaves are at one depth.
Balanced == call = "none" => Cardinality(Depths[root]) = 1

\* The assertion of node::query on a leaf (betree.hpp:1024): all it holds are
\* inserts, and one for each key.
LeafInserts ==
    \A id \in DOMAIN node : IsLeaf(node[id]) =>
        \A m \in node[id].elements : /\ m.op = "insert"
                                     /\ For(node[id].elements, m.key) = {m}

\* The assertion of node::query on a buffer (betree.hpp:1078): behind the first
\* message for a key there are only updates, after any flushes in any order.
BuffersInOrder == \A id \in DOMAIN node : \A k \in Keys : UpdatesBehind(node[id].elements, k)

\* A node that an activation of flush() or query() runs on stays in memory,
\* whatever the calls below it evict: `this` is a plain pointer into the cache.
PinnedInMemory == PinnedBy(stack) \subseteq Cache!Resident(cache)

\* The keys in a node, and those that get_pivot leads to: a message that an inner
\* node still buffers may have been overtaken by a shortcut and lie below all pivots.
KeysOf(n)  == DOMAIN n.pivots \union {m.key : m \in n.elements}
Settled(n) == IF IsLeaf(n) THEN {m.key : m \in n.elements} ELSE DOMAIN n.pivots

\* The tree is a search tree, in the middle of a call too: below a pivot all pivots
\* and all elements of leaves lie between it and the next one, and no message lies
\* on or behind the next one.
SearchOrder ==
    \A id \in DOMAIN node : \A p \in DOMAIN node[id].pivots :
        \A c \in Subtree[node[id].pivots[p]] :
            /\ \A k \in KeysOf(node[c]) : \A q \in NextPivots(node[id], p) : k < q
            /\ \A k \in Settled(node[c]) : p <= k

\* get_pivot finds what flushes and splits have put away: every pivot and message
\* below a pivot lies between it and the next one.
Routing ==
    \A id \in DOMAIN node : \A p \in DOMAIN node[id].pivots :
        \A c \in Subtree[node[id].pivots[p]] :
            \A k \in KeysOf(node[c]) : k >= p /\ \A q \in NextPivots(node[id], p) : k < q

\* A message for a key is newer than all messages for the key in the nodes below:
\* what node::query relies on when it stops at the first insert or erase.
NewerAbove ==
    call = "none" =>
    \A id \in DOMAIN node : \A m \in node[id].elements :
        \A c \in Subtree[id] \ {id} : \A older \in For(node[c].elements, m.key) : older.ts < m.ts

\* The comment in node::flush (betree.hpp:914): when it takes the shortcut to a
\* dirty child, it buffers no message for that child.
DirtyChildBufferEmpty ==
    Running("flush", "enter") /\ ~IsLeaf(Current) =>
        LET n == Rekeyed(Current, Top.arg)
        IN  GoesDirect(n, Top.arg) => Batch(n, GetPivot(n, Min({m.key : m \in Top.arg}))) = {}

\* The comment on node sizes (betree.hpp:38): whenever a flush returns, all nodes
\* below satisfy the max-size requirement.
MaxSizeRestored == call = "none" => \A id \in DOMAIN node : Things(node[id]) <= NodeSize

\* What test.cpp checks: the tree and the std::map give the same result, for each
\* key that could be asked now.
ContentsRight == call # "upsert" => Contents = reference

\* The tree implements the dictionary: an upsert takes effect at once, and neither
\* the flushes and splits of later ones nor a query changes what is answered.
Map == INSTANCE KVMap WITH dict <- IF call = "upsert" THEN reference ELSE Contents
MapSpec == Map!Spec

\* A call returns: the flush loop gets below its limits or gives up, and the
\* recursions end.
CallsReturn == call # "none" ~> call = "none"
=============================================================================
