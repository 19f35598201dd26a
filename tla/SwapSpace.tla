----------------------------- MODULE SwapSpace -----------------------------
(***************************************************************************)
(* The swap space of swap_space.hpp / swap_space.cpp over the one-file-    *)
(* per-object store of backing_store.cpp: reference-counted objects that   *)
(* live in memory or in a versioned file, pinned while a member function   *)
(* of theirs runs, and evicted least-recently-used first.                  *)
(*                                                                         *)
(* The client (the B^e-tree) owns `handles`: pointer objects outside any   *)
(* node.  Pointers inside a node are the `ptrs` of its content.  A pointer *)
(* object being destroyed is in `doomed` until depoint() has run for it:   *)
(* freeing an object dooms the pointers of its content, which is how the   *)
(* recursive destructor walks down a tree.                                 *)
(***************************************************************************)
EXTENDS Integers, Sequences, FiniteSets, Functions

CONSTANTS
    Data,         \* what a node holds besides pointers
    NULL,         \* no object in memory, no file on disk
    MaxId,        \* bound: objects ever allocated
    MaxVersion,   \* bound: versions ever written of one object
    MaxHandles,   \* bound: pointers outside nodes, per object
    MaxPins,      \* bound: nested pins, per object
    CacheSize,    \* max_in_memory_objects
    Word          \* 2^64 in the code: the width of the object counter

Id       == 1 .. MaxId
Versions == 1 .. MaxVersion
Content  == [data : Data, ptrs : SUBSET Id]
Slot     == Content \union {NULL}

ASSUME BoundsAssumption ==
    /\ MaxId \in Nat /\ MaxVersion \in Nat /\ MaxHandles \in Nat /\ MaxPins \in Nat
    /\ CacheSize \in Nat /\ Word \in Nat \ {0}
ASSUME NullAssumption == NULL \notin Content

VARIABLES
    objects,      \* ids in the object table
    target,       \* id -> content in memory, NULL when evicted
    version,      \* id -> version of its file, 0 when it has none
    is_leaf,      \* id -> no pointer was serialized by the last write back
    refcount, target_is_dirty, pincount,
    writers,      \* id -> how many of its pins were accessed non-const
    lru_pqueue,   \* ids by last access, oldest first
    current_in_memory_objects,
    files,        \* id -> version -> content of that file, NULL when absent
    next_id,
    handles,      \* id -> client pointers outside any node
    doomed,       \* id -> pointers whose destructor has still to run
    evicting      \* maybe_evict_something() is running

client == <<handles, doomed>>
table  == <<objects, target, version, is_leaf, refcount, target_is_dirty>>
pins   == <<pincount, writers>>
cache  == <<lru_pqueue, current_in_memory_objects>>
vars   == <<table, pins, cache, files, next_id, client, evicting>>

-----------------------------------------------------------------------------
Queued == Range(lru_pqueue)

\* The content an object stands for, in memory or on disk.
Stored(o) == IF target[o] # NULL THEN target[o] ELSE files[o][version[o]]

Parents(o) == {p \in objects : o \in Stored(p).ptrs}

\* Everything the pointers of o lead to, o included: what is in each set of objects
\* that has o and what its members point to.
Closed(S) == \A x \in S : Stored(x).ptrs \subseteq S
Below(o)  == {x \in objects : \A S \in SUBSET objects : o \in S /\ Closed(S) => x \in S}

\* A pointer to o the client can use: its own, or one inside a pinned node.
Held(o) ==
    /\ o \in objects
    /\ \/ handles[o] > 0
       \/ \E p \in objects : pincount[p] > 0 /\ o \in Stored(p).ptrs

\* No destructor and no eviction is running: control is in the client.
Quiet == ~evicting /\ \A o \in Id : doomed[o] = 0

Increment(n) == IF n = Word - 1 THEN 0 ELSE n + 1

\* Mutant: a signed counter.
MutDecrement(n) == n - 1

\* The counter is unsigned: --0 is 2^64 - 1.
Decrement(n) == IF n = 0 THEN Word - 1 ELSE n - 1

\* lru_pqueue.erase(o): erasing an object that is not queued does nothing.
Without(q, o) ==
    IF \E i \in DOMAIN q : q[i] = o
    THEN LET at == CHOOSE i \in DOMAIN q : q[i] = o
         IN  [i \in 1 .. Len(q) - 1 |-> IF i < at THEN q[i] ELSE q[i + 1]]
    ELSE q

-----------------------------------------------------------------------------
Init ==
    /\ objects = {}
    /\ target = [o \in Id |-> NULL]
    /\ version = [o \in Id |-> 0]
    /\ is_leaf = [o \in Id |-> FALSE]
    /\ refcount = [o \in Id |-> 0]
    /\ target_is_dirty = [o \in Id |-> FALSE]
    /\ pincount = [o \in Id |-> 0]
    /\ writers = [o \in Id |-> 0]
    /\ lru_pqueue = << >>
    /\ current_in_memory_objects = 0
    /\ files = [o \in Id |-> [v \in Versions |-> NULL]]
    /\ next_id = 1
    /\ handles = [o \in Id |-> 0]
    /\ doomed = [o \in Id |-> 0]
    /\ evicting = FALSE

\* swap_space::allocate: a new dirty object without a file, and one pointer.
Allocate(d) ==
    /\ Quiet
    /\ next_id <= MaxId /\ MaxVersion > 0 /\ MaxHandles > 0
    /\ objects' = objects \union {next_id}
    /\ target' = [target EXCEPT ![next_id] = [data |-> d, ptrs |-> {}]]
    /\ refcount' = [refcount EXCEPT ![next_id] = 1]
    /\ target_is_dirty' = [target_is_dirty EXCEPT ![next_id] = TRUE]
    /\ lru_pqueue' = Append(lru_pqueue, next_id)
    /\ current_in_memory_objects' = Increment(current_in_memory_objects)
    /\ next_id' = next_id + 1
    /\ handles' = [handles EXCEPT ![next_id] = 1]
    /\ evicting' = TRUE
    /\ UNCHANGED <<version, is_leaf, pins, files, doomed>>

\* Mutant: a pointer copied bitwise.
MutCopyPointer(o) ==
    /\ Quiet
    /\ Held(o)
    /\ handles[o] < MaxHandles
    /\ handles' = [handles EXCEPT ![o] = @ + 1]
    /\ UNCHANGED <<table, pins, cache, files, next_id, doomed, evicting>>

\* pointer(const pointer &): the client copies a pointer it can reach.
CopyPointer(o) ==
    /\ Quiet
    /\ Held(o)
    /\ handles[o] < MaxHandles
    /\ refcount' = [refcount EXCEPT ![o] = @ + 1]
    /\ handles' = [handles EXCEPT ![o] = @ + 1]
    /\ UNCHANGED <<objects, target, version, is_leaf, target_is_dirty, pins, cache,
                   files, next_id, doomed, evicting>>

\* ~pointer() of a client pointer begins.  A client never drops the pointer a
\* running member function was called through.
DropPointer(o) ==
    /\ Quiet
    /\ handles[o] > 0
    /\ \/ pincount[o] = 0
       \/ handles[o] > 1
       \/ \E p \in objects : pincount[p] > 0 /\ o \in Stored(p).ptrs
    /\ handles' = [handles EXCEPT ![o] = @ - 1]
    /\ doomed' = [doomed EXCEPT ![o] = @ + 1]
    /\ UNCHANGED <<table, pins, cache, files, next_id, evicting>>

\* Mutant: the queue entry is added again without being erased.
MutTouch(o) == lru_pqueue' = Append(lru_pqueue, o)

\* access() moves the object to the recent end of the queue,
Touch(o) == lru_pqueue' = Append(Without(lru_pqueue, o), o)

\* Mutant: the flag is reset by the load that follows.
MutMarkDirty(o, dirty) ==
    target_is_dirty' = [target_is_dirty EXCEPT ![o] = target[o] # NULL /\ (@ \/ dirty)]

\* marks it dirty for a non-const access,
MarkDirty(o, dirty) == target_is_dirty' = [target_is_dirty EXCEPT ![o] = @ \/ dirty]

\* Mutant: a loaded object is not counted.
MutLoad(o) ==
    /\ target' = [target EXCEPT ![o] = Stored(o)]
    /\ UNCHANGED current_in_memory_objects

\* and loads it when it is on disk.
Load(o) ==
    /\ target' = [target EXCEPT ![o] = Stored(o)]
    /\ current_in_memory_objects' =
          IF target[o] = NULL THEN Increment(current_in_memory_objects)
                              ELSE current_in_memory_objects

\* pointer::operator->: dopin(), then access(), then maybe_evict_something().
PinAccess(o, dirty) ==
    /\ Quiet
    /\ Held(o)
    /\ pincount[o] < MaxPins
    /\ dirty => version[o] < MaxVersion
    /\ pincount' = [pincount EXCEPT ![o] = @ + 1]
    /\ writers' = [writers EXCEPT ![o] = @ + (IF dirty THEN 1 ELSE 0)]
    /\ Touch(o)
    /\ MarkDirty(o, dirty)
    /\ Load(o)
    /\ evicting' = TRUE
    /\ UNCHANGED <<objects, version, is_leaf, refcount, files, next_id, client>>

\* ~pin(): member functions called through the pointers of a node return
\* before the one running on that node.
Unpin(o, dirty) ==
    /\ Quiet
    /\ IF dirty THEN writers[o] > 0 ELSE pincount[o] > writers[o]
    /\ \/ pincount[o] > 1
       \/ \A c \in Stored(o).ptrs :
             \/ pincount[c] = 0
             \/ handles[c] > 0
             \/ \E p \in objects \ {o} : pincount[p] > 0 /\ c \in Stored(p).ptrs
    /\ pincount' = [pincount EXCEPT ![o] = @ - 1]
    /\ writers' = [writers EXCEPT ![o] = @ - (IF dirty THEN 1 ELSE 0)]
    /\ evicting' = TRUE
    /\ UNCHANGED <<table, cache, files, next_id, client>>

\* A member function of a node accessed non-const changes what it holds.
Write(o, d) ==
    /\ Quiet
    /\ writers[o] > 0
    /\ target' = [target EXCEPT ![o] = [data |-> d, ptrs |-> @.ptrs]]
    /\ UNCHANGED <<objects, version, is_leaf, refcount, target_is_dirty, pins, cache,
                   files, next_id, client, evicting>>

\* ... or copies into the node a pointer; the graph of nodes stays acyclic.
Link(p, o) ==
    /\ Quiet
    /\ writers[p] > 0
    /\ Held(o)
    /\ o \notin Stored(p).ptrs
    /\ p \notin Below(o)
    /\ target' = [target EXCEPT ![p] = [data |-> @.data, ptrs |-> @.ptrs \union {o}]]
    /\ refcount' = [refcount EXCEPT ![o] = @ + 1]
    /\ UNCHANGED <<objects, version, is_leaf, target_is_dirty, pins, cache,
                   files, next_id, client, evicting>>

\* ... or erases one, whose destructor begins.
Unlink(p, o) ==
    /\ Quiet
    /\ writers[p] > 0
    /\ o \in Stored(p).ptrs
    /\ \/ pincount[o] = 0
       \/ handles[o] > 0
       \/ \E q \in objects \ {p} : pincount[q] > 0 /\ o \in Stored(q).ptrs
    /\ target' = [target EXCEPT ![p] = [data |-> @.data, ptrs |-> @.ptrs \ {o}]]
    /\ doomed' = [doomed EXCEPT ![o] = @ + 1]
    /\ UNCHANGED <<objects, version, is_leaf, refcount, target_is_dirty, pins, cache,
                   files, next_id, handles, evicting>>

\* pointer::depoint() of a pointer that is not the last one.
DepointShared(o) ==
    /\ ~evicting
    /\ doomed[o] > 0 /\ refcount[o] > 1
    /\ refcount' = [refcount EXCEPT ![o] = @ - 1]
    /\ doomed' = [doomed EXCEPT ![o] = @ - 1]
    /\ UNCHANGED <<objects, target, version, is_leaf, target_is_dirty, pins, cache,
                   files, next_id, handles, evicting>>

\* Mutant: no evicted object is loaded before it is freed.
MutFreedPointers(o) == IF target[o] = NULL THEN {} ELSE target[o].ptrs

\* The pointers destroyed with an object.  An evicted one is loaded for their
\* sake, unless the write back saw that it holds none.
FreedPointers(o) == IF target[o] = NULL /\ is_leaf[o] THEN {} ELSE Stored(o).ptrs

\* pointer::depoint() of the last pointer.  The counter goes up for a load, and
\* down in each case.
DepointLast(o) ==
    LET loaded == IF target[o] = NULL /\ ~is_leaf[o]
                  THEN Increment(current_in_memory_objects)
                  ELSE current_in_memory_objects
    IN  /\ ~evicting
        /\ doomed[o] > 0 /\ refcount[o] = 1
        /\ refcount' = [refcount EXCEPT ![o] = 0]
        /\ doomed' = [c \in Id |-> IF c = o THEN doomed[c] - 1
                                   ELSE IF c \in FreedPointers(o) THEN doomed[c] + 1
                                   ELSE doomed[c]]
        /\ objects' = objects \ {o}
        /\ target' = [target EXCEPT ![o] = NULL]
        /\ lru_pqueue' = Without(lru_pqueue, o)
        /\ current_in_memory_objects' = Decrement(loaded)
        /\ files' = IF version[o] > 0 THEN [files EXCEPT ![o][version[o]] = NULL]
                                      ELSE files
        /\ version' = [version EXCEPT ![o] = 0]
        /\ is_leaf' = [is_leaf EXCEPT ![o] = FALSE]
        /\ target_is_dirty' = [target_is_dirty EXCEPT ![o] = FALSE]
        /\ UNCHANGED <<pins, next_id, handles, evicting>>

\* Mutant: the file of the old version stays, and once a leaf always a leaf.
MutWriteBack(o) ==
    /\ is_leaf' = [is_leaf EXCEPT ![o] = @ \/ target[o].ptrs = {}]
    /\ IF target_is_dirty[o]
       THEN /\ files' = [files EXCEPT ![o][version[o] + 1] = target[o]]
            /\ version' = [version EXCEPT ![o] = @ + 1]
            /\ target_is_dirty' = [target_is_dirty EXCEPT ![o] = FALSE]
       ELSE UNCHANGED <<files, version, target_is_dirty>>

\* write_back(): serializing shows whether the node holds pointers; a dirty
\* object goes to a new file and the file of the old version is removed.
WriteBack(o) ==
    /\ is_leaf' = [is_leaf EXCEPT ![o] = target[o].ptrs = {}]
    /\ IF target_is_dirty[o]
       THEN /\ files' = [files EXCEPT ![o] =
                  [v \in Versions |-> IF v = version[o] + 1 THEN target[o]
                                      ELSE IF v = version[o] THEN NULL
                                      ELSE @[v]]]
            /\ version' = [version EXCEPT ![o] = @ + 1]
            /\ target_is_dirty' = [target_is_dirty EXCEPT ![o] = FALSE]
       ELSE UNCHANGED <<files, version, target_is_dirty>>

\* Mutant: the oldest object goes, pinned or not.
MutVictim(i) == i = 1

\* The scan of the queue stops at the first unpinned object.
Victim(i) ==
    /\ pincount[lru_pqueue[i]] = 0
    /\ \A j \in 1 .. i - 1 : pincount[lru_pqueue[j]] > 0

\* One round of maybe_evict_something().
Evict(i) ==
    /\ evicting
    /\ current_in_memory_objects > CacheSize
    /\ Victim(i)
    /\ lru_pqueue' = Without(lru_pqueue, lru_pqueue[i])
    /\ WriteBack(lru_pqueue[i])
    /\ target' = [target EXCEPT ![lru_pqueue[i]] = NULL]
    /\ current_in_memory_objects' = Decrement(current_in_memory_objects)
    /\ UNCHANGED <<objects, refcount, pins, next_id, client, evicting>>

\* Mutant: eviction keeps looking for an unpinned object.
MutEvictDone ==
    /\ evicting
    /\ current_in_memory_objects <= CacheSize
    /\ evicting' = FALSE
    /\ UNCHANGED <<table, pins, cache, files, next_id, client>>

\* The loop ends when the counter fits, or when every object is pinned.
EvictDone ==
    /\ evicting
    /\ \/ current_in_memory_objects <= CacheSize
       \/ \A i \in DOMAIN lru_pqueue : pincount[lru_pqueue[i]] > 0
    /\ evicting' = FALSE
    /\ UNCHANGED <<table, pins, cache, files, next_id, client>>

ClientStep ==
    \/ \E d \in Data : Allocate(d)
    \/ \E o \in objects :
          \/ CopyPointer(o)
          \/ DropPointer(o)
          \/ \E dirty \in BOOLEAN : PinAccess(o, dirty) \/ Unpin(o, dirty)
          \/ \E d \in Data : Write(o, d)
          \/ \E c \in objects : Link(o, c) \/ Unlink(o, c)

InternalStep ==
    \/ \E o \in objects : DepointShared(o) \/ DepointLast(o)
    \/ \E i \in DOMAIN lru_pqueue : Evict(i)
    \/ EvictDone

Next == ClientStep \/ InternalStep

Spec == Init /\ [][Next]_vars

\* The swap space runs on the caller's thread: a call that has begun goes on.
FairSpec == Spec /\ WF_vars(InternalStep)

-----------------------------------------------------------------------------
\* Types of the variables, the bounds included.
TypeOK ==
    /\ objects \subseteq Id
    /\ target \in [Id -> Slot]
    /\ version \in [Id -> 0 .. MaxVersion]
    /\ is_leaf \in [Id -> BOOLEAN]
    /\ refcount \in [Id -> Nat]
    /\ target_is_dirty \in [Id -> BOOLEAN]
    /\ pincount \in [Id -> 0 .. MaxPins]
    /\ writers \in [Id -> 0 .. MaxPins]
    /\ lru_pqueue \in Seq(Id)
    /\ current_in_memory_objects \in 0 .. Word - 1
    /\ files \in [Id -> [Versions -> Slot]]
    /\ next_id \in 1 .. MaxId + 1
    /\ handles \in [Id -> 0 .. MaxHandles]
    /\ doomed \in [Id -> Nat]
    /\ evicting \in BOOLEAN

\* The eviction queue holds each object that is in memory, once, and nothing
\* else: eviction can neither miss an object nor write back a freed one.
QueueIsResidents ==
    /\ \A o \in Id : o \in Queued <=> target[o] # NULL
    /\ IsInjective(lru_pqueue)
    /\ Queued \subseteq objects

\* The directory holds exactly one file per object that has been written, that
\* of its current version: no version leaks, none is unlinked twice (the assert
\* of backing_store.cpp:30), none is missing when an object is loaded.
FilesExact ==
    \A o \in Id : \A v \in Versions :
        files[o][v] # NULL <=> o \in objects /\ v = version[o]

\* What is not in memory is clean and on disk, and a clean object in memory is
\* what its file says: evicting it without writing loses nothing.
NothingLost ==
    \A o \in objects :
        /\ target[o] = NULL => ~target_is_dirty[o]
        /\ ~target_is_dirty[o] => version[o] > 0
        /\ ~target_is_dirty[o] /\ target[o] # NULL => target[o] = files[o][version[o]]

\* A member function that runs on a node keeps it in memory, and dirty when it
\* may write, however many evictions its calls cause.
PinnedStays ==
    \A o \in Id :
        /\ pincount[o] > 0 => o \in objects /\ target[o] # NULL
        /\ writers[o] > 0 => target_is_dirty[o]

\* The reference count is the number of pointers there are: of the client, in
\* nodes in memory, in nodes on disk, and in the course of destruction.  An
\* object in the table has at least one (the assert of swap_space.hpp:311).
RefcountExact ==
    \A o \in objects :
        /\ refcount[o] > 0
        /\ refcount[o] = handles[o] + doomed[o] + Cardinality(Parents(o))

\* No pointer leads to a freed object.
NoDangling ==
    /\ \A o \in Id : handles[o] + doomed[o] + pincount[o] > 0 => o \in objects
    /\ \A p \in objects : Stored(p).ptrs \subseteq objects

\* When the client holds no pointer, no object and no file is left behind.
NoLeak ==
    (\A o \in Id : handles[o] + doomed[o] = 0) =>
        objects = {} /\ \A o \in Id : \A v \in Versions : files[o][v] = NULL

\* The flag depoint() consults to skip a load is right for every evicted object:
\* no pointer is forgotten by not loading it.
LeafFlagRight ==
    \A o \in objects : target[o] = NULL => (is_leaf[o] <=> Stored(o).ptrs = {})

\* The counter follows the number of objects in memory in every step but one:
\* freeing an evicted leaf, which depoint() does not load, still decrements it.
CounterStep ==
    LET Change == Cardinality(Queued') - Cardinality(Queued)
        FreesEvictedLeaf == \E o \in objects : /\ o \notin objects'
                                               /\ target[o] = NULL /\ is_leaf[o]
    IN  current_in_memory_objects' =
          (current_in_memory_objects + Change
             + (IF FreesEvictedLeaf THEN Word - 1 ELSE 0) + Word) % Word
CounterFollows == [][CounterStep]_vars

\* Destructors and evictions that a call starts come to an end.
CallsReturn == ~Quiet ~> Quiet

\* The cache size the constructor takes (swap_space.hpp:49-51): once a call has
\* returned no more objects are in memory than that, but for pinned ones.
CacheBound ==
    Quiet => \/ Cardinality(Queued) <= CacheSize
             \/ \A o \in Queued : pincount[o] > 0

\* The swap space implements a heap without limit: loads, evictions, write
\* backs and pins are invisible to the client.
HeapView == [o \in Id |-> IF o \in objects THEN Stored(o) ELSE NULL]
AsHeap == INSTANCE Heap WITH heap <- HeapView
HeapSpec == AsHeap!Spec
=============================================================================
