------------------------------ MODULE LruCache ------------------------------
(***************************************************************************)
(* Which nodes the swap space keeps in memory, for a client that calls it  *)
(* from one thread: SwapSpace without the contents and files, each call    *)
(* with the evictions it ends in.  A cache is a record of the eviction     *)
(* queue `lru`, which gives each object in memory its place from the       *)
(* oldest on, the set of `dirty` objects in memory, the object counter and *)
(* what the objects in memory hold in members that are not serialized.     *)
(***************************************************************************)
EXTENDS Integers, FiniteSetsExt, Functions, SequencesExt

CONSTANTS
    CacheSize,   \* max_in_memory_objects
    Word,        \* 2^64 in the code
    Reloaded     \* the members that are not serialized after a load

Empty == [lru |-> << >>, dirty |-> {}, count |-> 0, members |-> << >>]

Resident(cache)    == DOMAIN cache.lru
InMemory(cache, o) == o \in Resident(cache)

\* The queue with only these objects, in their order.
Only(q, kept) == [o \in kept |-> Cardinality({x \in kept : q[x] <= q[o]})]

\* Mutant: an access to an object in memory leaves the queue as it is.
MutRecent(q, o) ==
    [x \in DOMAIN q \union {o} |-> IF x \in DOMAIN q THEN q[x] ELSE Cardinality(DOMAIN q) + 1]

\* The queue after an access to o.
Recent(q, o) ==
    LET others == Only(q, DOMAIN q \ {o})
    IN  [x \in DOMAIN q \union {o} |->
            IF x = o THEN Cardinality(DOMAIN others) + 1 ELSE others[x]]

\* What is left of a cache when these objects leave memory.
Leave(cache, victims, count) ==
    LET kept == Resident(cache) \ victims
    IN  [lru     |-> Only(cache.lru, kept),
         dirty   |-> cache.dirty \ victims,
         count   |-> count,
         members |-> Restrict(cache.members, kept)]

\* The oldest of these objects, as many as the counter exceeds the cache size by.
Oldest(cache, objects) ==
    {o \in objects :
        Cardinality({x \in objects : cache.lru[x] < cache.lru[o]}) < cache.count - CacheSize}

\* Mutant: pins are not looked at.
MutEvict(cache, pinned) ==
    LET victims == Oldest(cache, Resident(cache))
    IN  Leave(cache, victims, cache.count - Cardinality(victims))

\* maybe_evict_something(): the oldest unpinned objects go until the counter
\* fits or there are none.
Evict(cache, pinned) ==
    LET victims == Oldest(cache, Resident(cache) \ pinned)
    IN  Leave(cache, victims, cache.count - Cardinality(victims))

Put(members, o, value) ==
    [x \in DOMAIN members \union {o} |-> IF x = o THEN value ELSE members[x]]

\* access(): the object is pinned, moved to the recent end, loaded, and marked
\* dirty unless the pointer is const.
Use(cache, o, pinned, dirties) ==
    Evict([lru     |-> Recent(cache.lru, o),
           dirty   |-> IF dirties THEN cache.dirty \union {o} ELSE cache.dirty,
           count   |-> IF InMemory(cache, o) THEN cache.count ELSE (cache.count + 1) % Word,
           members |-> IF InMemory(cache, o) THEN cache.members
                       ELSE Put(cache.members, o, Reloaded)],
          pinned \union {o})

\* operator-> as upsert and query take it everywhere, and as the iterator does.
Access(cache, o, pinned) == Use(cache, o, pinned, TRUE)
Peek(cache, o, pinned)   == Use(cache, o, pinned, FALSE)

\* An access whose pin ends with the expression, and a number of them.
Touch(cache, o, pinned) == Evict(Access(cache, o, pinned), pinned)
TouchAll(cache, os, pinned) == FoldLeft(LAMBDA c, o : Touch(c, o, pinned), cache, os)

\* An object is constructed with the given members.
Allocate(cache, o, members, pinned) ==
    Evict([lru     |-> Recent(cache.lru, o),
           dirty   |-> cache.dirty \union {o},
           count   |-> (cache.count + 1) % Word,
           members |-> Put(cache.members, o, members)],
          pinned)

\* Members of an object in memory are assigned.
Assign(cache, o, members) == [cache EXCEPT !.members = Put(@, o, members)]

\* Mutant: the object is still taken for dirty.
MutFree(cache, o) ==
    [Leave(cache, {o}, (cache.count + Word - 1) % Word) EXCEPT !.dirty = cache.dirty]

\* depoint() of the last pointer to a node without children, in memory or not.
Free(cache, o) == Leave(cache, {o}, (cache.count + Word - 1) % Word)
=============================================================================
