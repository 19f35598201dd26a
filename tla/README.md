# Verification of the B^e-tree and its swap space

TLA+ models of `src/betree.hpp` and of the swap space below it
(`src/swap_space.hpp`, `src/swap_space.cpp`, `src/backing_store.cpp`), checked with
TLC on small instances. The swap space, the shape and the order of the tree with a
fixed epsilon, and the window of recent operations (`src/window_stat_tracker.hpp`)
are also proved with TLAPS for every value of their constants. So is that the tree
is the dictionary it is tested against, as long as no shortcut of `flush` passes by
a buffered message; a tree smaller than its cache takes no such shortcut, a larger
one can (finding 1). The program has one thread: what is hard in it is the order in
which flushes, splits, evictions and destructors happen inside one call, and what a
call leaves behind for a much later one.

## The system

| Part | State | Operations | Interacts with |
|---|---|---|---|
| Swap space | object table (content or NULL, version, reference count, dirty flag, pin count, leaf flag), LRU queue, object counter | `allocate`, copy, assignment and destruction of a `pointer`, `operator->` (pin, access, load), `~pin`, `write_back`, `maybe_evict_something` | called by the tree on every `p->...`; calls the backing store |
| Backing store | one file for each object version | `allocate`, `get`, `put`, `deallocate` | called by the swap space only |
| B^e-tree | nodes (pivots, messages), root, timestamps | `upsert`, `query`; in each node `flush`, `split`, `apply`, `query` | nodes hold pointers of the swap space; asks it `is_dirty()` and `is_in_memory()` |
| Adaptive part | window of operations, epsilon, limits and level of a node | `add_read`, `add_write`, `set_epsilon`, `adopt` | changes the limits `flush` looks at; rewires the tree in `query` |
| Iterator | position, element being assembled | `begin`, `lower_bound`, `upper_bound`, `++` | reads all nodes |
| Drivers | the `std::map` of `test.cpp` | inserts, updates, erases, queries, scans | compare the tree with the map |

What makes each part correct:

- **Swap space.** It is invisible: contents survive eviction and reloading, an
  object lives exactly as long as a pointer to it, a running member function
  keeps its object in memory. The table, the queue, the counter, the files and
  the reference counts must agree at every moment, also half way through a
  recursive free.
- **Tree.** It is a dictionary: each answer is that of the `std::map`. This rests
  on messages for a key being newer the higher they are, on keys being only
  below the pivot that `get_pivot` picks, and on all nodes forming one balanced
  tree while splits travel up in returned maps.
- **Adaptive part.** A window is the most recent operations, an epsilon follows
  it, and each node works with the limit of its epsilon. Adoption, which rewires
  the tree in the middle of a query, leaves one tree and changes no content.
- **Iterator.** It visits each key once, in order, with the value `query` gives.

`PROJECT.json` lists the hazards line by line.

## Modules

| Module | Models |
|---|---|
| `Heap` | abstract specification: objects that live while referenced, without memory limit, files, pins or counts |
| `SwapSpace` | the swap space and the backing store, one action per operation, one eviction and one destructor at a time; refines `Heap` |
| `SwapSpaceProofs` | theorems about `SwapSpace` |
| `KVMap` | abstract specification: the dictionary that `test.cpp` keeps beside the tree |
| `Messages` | pure rules: `Apply` is `node::apply`, `Eval` the part of `node::query` that reads messages |
| `LruCache` | which nodes are in memory and dirty, as functions on a record: `SwapSpace` seen by one thread, without contents |
| `Window` | pure rules: the window of recent operations, its epsilon, `calculate_max_pivots` |
| `WindowStatTracker`, `WindowProofs` | one tracker beside the history of all operations, and theorems about it |
| `Betree` | `upsert` and `query` down to `flush`, `split` and `node::query`, with `Messages` and `LruCache`; refines `KVMap` |
| `AdaptiveBetree` | what a dynamic tree does besides: counting, new limits, adoption |
| `BetreeLemmas` | lemmas about the operators of `Messages`, `LruCache` and `Betree`: what an applied message, a cache access and a split leave true; that `Apply` and `Eval` agree |
| `BetreeShape` | the inductive invariant of `Betree`, what each change of tree and stack and each action does to it, and the theorems about the shape of the tree |
| `BetreeOrder` | the invariant of the order of keys, its lemmas and theorems: one owner for each node, and a search tree |
| `BetreeContents` | the invariant of the contents, what follows from it, the refinement of `KVMap`; trees that fit in memory |
| `FiniteInduction`, `FoldRule` | induction on finite sets and on numbers, and the rule of invariants for folds, in a form the provers can use |
| `BetreeIterator` | the iterator, in step with that of the `std::map` |
| `MCBetree`, `MCLevels` | the whole tree, and the workloads of its runs |

### SwapSpace

The variables are the fields of the code: `objects`, `target`, `version`,
`is_leaf`, `refcount`, `target_is_dirty`, `pincount`, `lru_pqueue`,
`current_in_memory_objects`, `next_id`. `files` is the directory. Two variables
stand for the C++ program around them: `handles` counts the pointers that the
client has outside nodes, `doomed` the pointers whose destructor has begun and
where `depoint()` has still to run. Freeing an object dooms the pointers of its
content, so the recursion of the destructors is a sequence of `DepointShared` and
`DepointLast` steps in any order (the code's order is one of them). `writers`
counts the pins that were accessed non-const: only under such a pin may a client
write, link or unlink. `evicting` says that `maybe_evict_something()` is running;
`Evict` is one round of its loop, `WriteBack` included. The access time of an
object is its place in the queue.

The client is any client that obeys C++ scoping: it does not drop the pointer a
running member function was called through, and the graph of nodes has no cycle
(`swap_space.hpp:4-7` excludes them). Clients are not restricted to what the tree
does.

### Betree

A node is its pivots, its set of messages, its epsilon, its level and whether it is
ready for adoption: what the code serializes. What it does not serialize (the
limit, the count of operations, the window) is `cache.members`, which a node loses
with its place in memory; a loaded node has those of the default constructor.
`stack` holds the activations of `flush` and `query`, each with the node, the
argument and a place in the code; an action runs one activation to the next call
or return:

| Action | Code |
|---|---|
| `Upsert`, `UpsertReturn` | `betree::upsert` before and after `root->flush`, the new root included |
| `FlushLeaf` | the leaf branch of `flush`, `split` included |
| `FlushDirect`, `DirectReturned`, `DirectDone` | the shortcut to a single dirty child |
| `FlushBuffer` | applying the messages to the node itself |
| `FlushBatch`, `BatchReturned` | one round of the flush loop, before and after the call to the child |
| `FlushDone` | the end of the loop, with the split for too many pivots |
| `Query`, `QueryDown`, `QueryFound` | `betree::query` and `node::query` |
| `CountOp`, `SetEpsilon` | `add_write` and `add_read` at the start of `flush` and `query`, without and with an update; the update walks the subtree of a node at the tunable level, once to set the limit and once more to flag the nodes when it grew |
| `Adopt` | `adopt()` at the end of a query |
| `Scan`, `ScanNext`, `ScanEnd` | `begin`, `lower_bound` or `upper_bound`, each `++` of `do_scan` (`test.cpp`), and the end of the loop |

Every `p->...` of a stretch of code is an `Access` or `Touch` of `LruCache` in
the same action, since what is in memory and dirty decides where messages go.
Nodes are read from `node` whether they are in memory or not; that this is sound
is the refinement of `Heap` by `SwapSpace`. A value is the sequence of the upserts
it is made of, so that every wrong order shows. An exception for a missing key is
the value `None`.

The iterator and `get_next_message` go through const pointers: `Peek` loads and
evicts but dirties nothing. Epsilons are in thousandths and the powers of the node
size are constants (`StartPivots`, `WritePivots`, `ReadPivots`), since TLA+ has no
floats; `CalculateMaxPivots` gives the rounding, and `NearestMultiple` is proved
about it. Levels wrap at `Word`, as `uint64_t` does.

Left out: `child_size` (read only by dead code) and debug output.

## Runs

No run needs more than about two and a half minutes with two workers.

| Run | Asks | Bounds |
|---|---|---|
| `swap_graph` | types, queue, files, counts, dangling pointers, leaks, leaf flag, counter; calls return | 3 objects, a cache of 1, 2 versions of each object, one handle and one pin for each |
| `swap_writes` | no lost write, pins, refinement of `Heap` | 2 objects, 2 contents, 2 handles and 2 nested pins for each, 2 versions, a cache of 1 |
| `swap_cache_size` | *violated*: the cache size is kept | as above with one content |
| `betree_levels` | `NewerAbove`, `DirtyChildBufferEmpty`, `BuffersInOrder`, `Routing`, `ContentsRight`, `Balanced`, `LeafInserts` | static tree, upserts only; 4 keys in any order, or 11 updates of 6 keys (`Tall`) that leave seven nodes on three levels; then 3 upserts of any kind and key; 2 pivots and 3 messages in a node, a cache of 3 |
| `betree_buffers` | `ScanRight`, refinement of `KVMap` | static tree; 3 keys inserted, then 3 upserts, a scan from any key at any time after the inserts, then a query; 5 pivots, 3 messages, batches of 3 or more, a cache of 2 |
| `betree_adaptive` | `TypeOK`, `OneOwner`, `SearchOrder`, `PinnedInMemory`, `LimitsFollowEpsilon`, `AdoptKeeps`; every call returns | dynamic tree, limits of 2 and 3 pivots, windows of 2, the root tunable; 4 keys inserted, then 3 updates and a query in any order; a cache of 3 |
| `betree_in_memory` | `ScanRight`, refinement of `KVMap` | dynamic tree; 4 keys inserted, then an erase or update, 2 queries and a scan in any order; a cache that holds the whole tree |
| `betree_stale` | *violated*: contents are those of the map | static tree; 2 of 4 keys inserted, 2 upserts, a query; a cache of 2 |
| `betree_size` | *violated*: node sizes are restored | static tree; 6 keys inserted; a cache of 3 |
| `betree_adopt` | *violated*: contents are those of the map | dynamic tree; 4 keys inserted, 5 more inserts, then one query; a cache of 2 |
| `window` | `WindowIsRecent`, `TwoWorkloads`, `FollowsWorkload` | every sequence of 8 operations, a window of 3 |
| `window_epsilon` | *violated*: epsilon follows the share of writes | as above |

Why the bounds are enough. Three objects are the fewest that give a node which is
a child of one and a parent of another, and a diamond; with a cache of one, every
access evicts. Two versions distinguish the first write of an object from a
rewrite that removes a file. In the tree the limits are small (the code has 64
for a node, 4 pivots or 48, and batches of more than 4) and keep the order that
the code gives them: a batch that stays behind is smaller than the parts of a
split (`SizeAssumption`). With them four keys give three levels, inner nodes split,
and every branch of `flush` is taken. Adoption needs a tree of three levels, an
update of epsilon that raises the limit, and a query after it: with seven upserts
there is still one to come after the adoption, which flushes into a tree of the
new shape. That run also reaches the other ways in which a node comes to its limit: both
walks over a subtree, splits, new roots, and reloads, which lose the limit; its
`DefaultOps` differs from `OpsBeforeUpdate` so that `LimitsFollowEpsilon` can tell a
node that was loaded. `betree_in_memory` takes updates of epsilon between the splits
of a flat tree.

The order of evictions shows only in a larger tree than four keys and three upserts
give. One of the trees that `betree_levels` begins with is therefore a full one of
three levels, seven nodes for three places in memory, with messages in its buffers.
Three more upserts then suffice: with a queue in the order of the first access instead
of the last (`MutRecent`) they break both `DirtyChildBufferEmpty` and `NewerAbove`.
A batch with several messages for one key also reaches an inner node that buffers the
key already, so that `BuffersInOrder` is about merging batches too.

Deadlock. In the runs of the tree the client may stop between two calls (`Stop`)
and nowhere else, so that TLC reports any call that gets stuck half way. In
`SwapSpace` and `WindowStatTracker` every bound ends the run, and deadlock is not
checked.

Fairness. `SwapSpace` assumes weak fairness of `InternalStep` (an eviction loop or
destructor that has begun goes on), `MCBetree` of `Continue` (a call that has begun
is carried on): there is one thread and nothing blocks. In `MCBetree` the fairness
is written without ENABLED, which TLC evaluates slowly on steps of this size: a
call in progress always has a next step, which is what the deadlock check shows.
Nothing is assumed of the client.

## Findings

1. `betree_stale`. `flush` sends messages directly to a child that is dirty. The
   comment on line 914 says that nothing can be buffered for it, but `query` goes
   through the non-const `operator->` and makes clean children dirty. An upsert that
   is buffered, a query of the same key and another upsert of it leave the older
   message above the newer one, and the tree answers with the wrong value. The same
   overtaking can leave a message below all pivots: the child splits without it, its
   parts are filed under their own first keys, and `get_pivot` no longer finds the
   key. `AdoptKeeps` therefore speaks of trees where `Routing` holds. When no query
   comes before an upsert (`betree_levels`, `betree_buffers`), or the tree fits in memory
   (`betree_in_memory`), the comment is right and so are the answers. For a static
   tree that fits in memory this is proved (`RoomyIsMap`), and so is that nothing else
   goes wrong: where the comment is right throughout, so are the answers
   (`TreeIsMap`). `DirtyIsResident` says how little the shortcut asks: every node in
   memory is dirty. That the comment is right without queries is itself delicate: it
   depends on which nodes are in memory together, a child that is dirty leaving before
   its parent does. `betree_levels` shows it for the LRU order, and its mutant that
   another order would break it.
2. `swap_cache_size`. Freeing an evicted leaf decrements the counter of objects in
   memory although the leaf was not there. `CounterFollows` shows that this is the
   only step where the counter leaves the truth.
3. `betree_size`. The shortcut adds the pivots of a child that split and returns
   without looking at any limit. In a tree that fits in memory the shortcut is the
   only way down: `FlatInMemory` proves that the root never buffers anything, is never
   split once it has children, and has all leaves of the tree for children.
4. `betree_adopt`. `adopt` applies the messages of the child that goes to the node as
   if they were new, although the node's own are newer: an insert that the child still
   buffered replaces a later one of the same key. The comment of `adopt` says that
   they are applied to the grandchildren. `AdoptKeeps` shows that this is the only
   harm: every key that not both of them buffer keeps its value.
5. `window_epsilon`. The share of writes is a quotient of integers. A node is either
   write heavy, after a full window of writes, or read heavy (`TwoWorkloads`); the
   epsilons between are never chosen.

## Proofs

### Swap space

`SwapSpaceProofs` proves, for any number of objects, versions, handles and pins,
any cache size and any width of the counter (`BoundsAssumption`,
`NullAssumption`), that `Spec` implies all the invariants of the runs and
`CounterFollows`, and that `Spec` implements `Heap`.

The invariants are not inductive one by one. `IInv` is their conjunction in four
parts, with what they lack: `Memory` (queue, files, contents and leaf flag, and
that an object which may still be written has a version left to be written to),
`References` (the counts, and that ids not yet in use or freed have no trace in
any variable), `Pinning` (pins keep objects in memory and held by someone, so that
no step frees one; writers are pinned) and `TypeOK`. One lemma for each action
shows that it preserves `IInv`, `Invariance` combines them, and each theorem takes
its conjunct. The refinement adds, for each action, which action of `Heap` it is:
loads, evictions, write backs, pins and unpins leave `HeapView` as it is, and
`DepointLast` is `Destroy` because an exact reference count of one means that the
pointer in destruction is the only one.

`NothingLeaks` needs an invariant of its own, that the graph of objects is
acyclic: every non-empty set of objects has one that no other of the set points
to. `Link` keeps it by its guard, all other steps only remove edges. Were some
objects unreachable, they would have such a source; its count is exact, so that
it is held from outside or being destroyed, or gone. `CounterCorrect` goes through
the actions: each moves the counter and the set of residents together, but for
the free of an evicted leaf.

### The tree

`BetreeShape`, `BetreeOrder` and `BetreeContents` are about `Betree!Spec`, the tree
with `is_dynamic = false` (without scans, which are in `MCBetree`), for any finite
set of integer keys, any kinds and numbers of upserts and queries, any cache size,
and any limits with `SizeAssumption`: `max_pivots` below the node size, and
`min_flush_size` below the share of a part. The code's 64, 4 or 48 and 4 are such
values. The first keeps an empty leaf from being split, the second gives each part
of a split a positive share and the flush loop a batch that is not empty.
`NoneAssumption` keeps the exception apart from the values.

The shape. `IInv` has five parts that need each other:

- `NodesOK`: every pointer leads to a node, messages are older than the clock, and
  a leaf holds inserts, one for each key. The leaf part rests on what `apply` does
  there, and on parts of a leaf being leaves.
- `OwnersOK`: no node has two owners, the root none. Freeing the node that was
  split would otherwise free a node that is still held.
- `FramesOK`: each activation on the stack waits for the child it called, along the
  pivot it remembers, and a returned map is the business of the last one.
- `HeightsOK`: there is a height for each node, one more than that of its children
  and 0 for a leaf. It gives `AlwaysBalanced`, and that the nodes on the stack are
  different: an activation changes its own node without disturbing those above it.
  The one exemption, `Emptied`, is the node that was split last: it looks like a
  leaf at any level until its parts replace it.
- `CacheOK` and `PinnedInMemory`: the queue, the dirty set and the members are about
  nodes that exist, what is in memory is dirty, and every node on the stack is in
  memory.

The order. `OwnersOK` says at most one owner; `OwnedOK` adds at least one, which
needs that a split places every pivot in some part (`AllPlaced`). That pivots bound
what is below them cannot be stated for one node and its child alone: the upper
bound of a node is the next pivot of whichever node above has one. `OInv` therefore
has a witness, a limit for each node: its keys are not above it, the limit of a
child is not above that of its parent and is below the next pivot (`LimitsOK`). A
lower bound is direct (`AboveOK`): a pivot is not above the pivots, or the elements
if it is a leaf, of its child. `ArgsOK` says that what an activation was given lies
between the pivot it was called along and the limit of its node; a call raises the
limit of the child to what it sends, which its single owner has room for
(`RoomBelow`). `PartsOK` and `ReturnOK` say the same of the parts in a returned map.
Buffered messages have no lower bound, which is why all this holds although messages
overtake each other (finding 1), and why `Routing` does not follow.

The contents. `DirtyChildBufferEmpty` is the comment on line 914, read as a
property: when the shortcut is taken, the node holds nothing for the child.
`betree_levels` checks it, and only where it fails can contents go wrong as in
`betree_stale`. The theorems about contents have `[]DirtyChildBufferEmpty` as a
hypothesis, since finding 1 refutes them without it, and ask for nothing else: they
hold for every mixture of upserts and queries, and every cache and limit.

In the middle of a call a message can be in two places (the buffer it is taken from
and the argument of a `flush`) and the parts of a split node in none. `CInv` therefore
speaks of a view of the tree in which each is in one place: a node on the stack
is seen without the batch it waits for, with what it was given and has not applied,
and a node that was split with its parts as children. It has two witnesses, functions
of a node and a key:

- a time: no message for the key in or below the node is later, and what a node
  holds is later than the time of the child that its pivot leads to. A batch goes
  down as a whole, and raises the time of the child to no more than that of the
  node. A positive time is also what says that a key is only below the pivot that
  `get_pivot` picks; it is this that buffered messages lack in `OInv`.
- a value: what the messages of the node make of the value of the child. The values
  of the root are those of the dictionary.

That a step keeps the values is an algebra of messages, in `BetreeLemmas`: applying
a message to a buffer is `KVMap!Effect` on what the buffer evaluates to
(`ApplyEval`), applying a batch newer than the buffer is evaluating the batch on top
of it (`ApplyAllEval`), and only the messages for a key count for it, so that a
batch or a part of a split takes a key along as a whole. So `node::apply`, which
rewrites buffers, and `node::query`, which reads them, are two halves of one rule.
`ContentsKeeps` shows that each step keeps `CInv` if the shortcut it may take is
harmless. From it follow `Routing`, `NewerAbove`, `BuffersInOrder`, `ContentsRight`,
and that `Betree` implements `KVMap` (`TreeIsMap`): an upsert changes the dictionary
when it is called, and the answer of a query, which a walk through evicting and
loading nodes puts together, is that of the dictionary.

In memory. When is the hypothesis true? It is if every node is in memory throughout
(`AllInMemory`): then each child is dirty, and an upsert, which is one message for
one child, goes down by the shortcut. `FlatInMemory` is the invariant that this
leaves, `NoneOvertakenInMemory` the hypothesis, `InMemoryIsMap` the refinement
without it. And nodes stay in memory if the cache has room (`Roomy`): more places
than the tree has nodes, and a counter that can count them. `RInv` says that the
cache holds all nodes and that its counter is exact; the counter goes wrong only by
a free of an evicted node (finding 2), and none is evicted. One place more than
nodes is needed since a split fills a part before it frees the one that it skipped.
`RoomyIsMap` has no hypothesis about messages or shortcuts: a wrong answer needs a
tree that outgrows its cache.

Data are what the provers are weakest at. Induction over data is only available for
sets that can be named: `FiniteInduction` states it for finite sets and numbers
(`SetInduction`, `NatSetInduction`), and `FoldRule` turns it into the rule of
invariants for a `MapThenFoldSet`. The folds of `Betree` (applying a batch,
the cache accesses of a split) are instances. The recursive functions `Depths` and
`Subtree` are handled by giving a function that satisfies their equation (the
heights; the least sets closed under children), and by induction on heights.

Theorems that state a property of a run: `TypeCorrect`, `ThisStaysValid`
(`PinnedInMemory`), `LeavesHoldInserts`, `AlwaysBalanced`, `ExactlyOneOwner`,
`AlwaysSearchTree`; and as long as the shortcut is harmless `KeysAreFound`
(`Routing`), `NewestOnTop` (`NewerAbove`), `BuffersStayInOrder` (`BuffersInOrder`),
`TreeHoldsMap` (`ContentsRight`), and `TreeIsMap`, `InMemoryIsMap` and `RoomyIsMap`
(`MapSpec`). The runs check the same properties with scans, and some for the dynamic
tree.

### The window

`WindowProofs` proves, for every window size and every history
(`WindowAssumption`), the properties of the `window` run. `WindowIsRecent` together
with the types of window and history is inductive: `PushWindow` says what `Push`
does to each place of the window, and the step is the shift of the history by one.
`CountWrites` then says that all places count as writes only when each one is, so
that the integer quotient is 1 in that case and 0 otherwise (`EpsilonOf`); from it
follow `OnlyTwoWorkloads` and, for two windows one operation apart, `Follows`.
`NearestMultiple` shows that `calculate_max_pivots` returns a multiple of four and
none that is nearer; it is 0 for B up to 2, which the two epsilons of the tracker
never give.

### Only model-checked

- `CallsReturn`: liveness.
- `DirtyChildBufferEmpty` for trees larger than the cache. It does not hold for every
  workload (finding 1). Where it does hold, as in `betree_levels`, it is for the order in
  which the LRU queue lets nodes go, and for a workload without queries.
- All of the dynamic tree, `LimitsFollowEpsilon` and `AdoptKeeps` among it:
  `AdaptiveBetree` walks a subtree with a RECURSIVE operator, which a module with
  proofs cannot use.
- `ScanRight`: the iterator is right as far as the tree is.

## Not modelled

- `merge`, `merge_small_children` and `set_cache_size`: never called. `child_size`:
  read only there.
- Statistics of the tree, the text format of nodes and messages, I/O errors.
- Crash and recovery: nothing that a restart could read is written, although the
  `README.md` of the program speaks of resuming; the files only extend memory.
- The benchmarks and scripts.

Modelled, with no property of its own: `adopt` stops at the first child that it
cannot adopt, and a split puts its parts a level below their siblings. Nothing in
the code says what should happen instead.

## Plan

1. Done: `SwapSpace` with its refinement and proofs; `Messages`, `LruCache` and
   `Betree`; the window with its proofs, `AdaptiveBetree` and `BetreeIterator`.
2. Done: a run of `Betree` on a tall tree, deep enough to tell the LRU order from
   another by `DirtyChildBufferEmpty` (`betree_levels`).
3. `LruCache` related to `SwapSpace` by a run: the same calls leave the same queue,
   dirty set and counter.
4. Done: proofs that `Apply` and `Eval` agree, and with it what `DirtyChildBufferEmpty`
   gives if it holds throughout; that it does in a tree that fits in memory.
5. The walk of `set_epsilon` without a RECURSIVE operator, so that the theorems about
   the tree extend to the dynamic one.
