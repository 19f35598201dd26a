-------------------------- MODULE SwapSpaceProofs --------------------------
(***************************************************************************)
(* Proofs about the swap space for every number of objects, versions,      *)
(* handles and pins, every cache size and every width of the counter.      *)
(***************************************************************************)
EXTENDS SwapSpace, FiniteSetTheorems, SequenceTheorems, TLAPS

-----------------------------------------------------------------------------
(* The queue operators. *)

\* A queue is left as it is by the removal of an object that is not in it.
LEMMA WithoutAbsent ==
  ASSUME NEW q, NEW o, o \notin Range(q)
  PROVE  Without(q, o) = q
  BY DEF Without, Range

\* The removal of an object from the queue leaves the others, each once.
LEMMA WithoutQueue ==
  ASSUME NEW q \in Seq(Id), IsInjective(q), NEW o
  PROVE  /\ Without(q, o) \in Seq(Id)
         /\ Range(Without(q, o)) = Range(q) \ {o}
         /\ IsInjective(Without(q, o))
<1>1. CASE o \notin Range(q)
  BY <1>1, WithoutAbsent
<1>2. CASE o \in Range(q)
  <2> DEFINE at == CHOOSE i \in DOMAIN q : q[i] = o
             r == [i \in 1 .. Len(q) - 1 |-> IF i < at THEN q[i] ELSE q[i + 1]]
  <2>1. at \in 1 .. Len(q) /\ q[at] = o
    BY <1>2 DEF Range
  <2>2. Without(q, o) = r
    BY <1>2 DEF Without, Range
  <2> HIDE DEF at
  <2>3. Len(q) \in Nat /\ Len(q) - 1 \in Nat /\ DOMAIN q = 1 .. Len(q)
    BY <2>1
  <2>4. \A i \in 1 .. Len(q) - 1 : r[i] \in Id
    BY <2>1, <2>3
  <2>5. r \in Seq(Id)
    BY <2>3, <2>4
  <2>6. DOMAIN r = 1 .. Len(q) - 1
    OBVIOUS
  <2>7. IsInjective(r)
    BY <2>1, <2>3, <2>6 DEF IsInjective
  <2>8. ASSUME NEW x \in Range(r) PROVE x \in Range(q) \ {o}
    BY <2>1, <2>3, <2>6 DEF Range, IsInjective
  <2>9. ASSUME NEW x \in Range(q) \ {o} PROVE x \in Range(r)
    <3>1. PICK i \in 1 .. Len(q) : q[i] = x
      BY <2>3 DEF Range
    <3>2. CASE i < at
      BY <2>1, <2>3, <2>6, <3>1, <3>2 DEF Range
    <3>3. CASE i > at
      <4>1. i - 1 \in 1 .. Len(q) - 1 /\ r[i - 1] = x
        BY <2>1, <2>3, <3>1, <3>3
      <4> QED BY <4>1, <2>6 DEF Range
    <3> QED BY <2>1, <2>3, <3>1, <3>2, <3>3
  <2> QED BY <2>2, <2>5, <2>7, <2>8, <2>9
<1> QED BY <1>1, <1>2

\* An object that is not in the queue may be put at its recent end.
LEMMA AppendQueue ==
  ASSUME NEW q \in Seq(Id), IsInjective(q), NEW o \in Id, o \notin Range(q)
  PROVE  /\ Append(q, o) \in Seq(Id)
         /\ Range(Append(q, o)) = Range(q) \union {o}
         /\ IsInjective(Append(q, o))
<1> DEFINE r == Append(q, o)
<1>1. /\ r \in Seq(Id) /\ Len(q) \in Nat
      /\ DOMAIN q = 1 .. Len(q) /\ DOMAIN r = 1 .. Len(q) + 1
  OBVIOUS
<1>2. r[Len(q) + 1] = o /\ \A i \in 1 .. Len(q) : r[i] = q[i]
  OBVIOUS
<1> HIDE DEF r
<1>3. IsInjective(r)
  BY <1>1, <1>2 DEF IsInjective, Range
<1>4. Range(r) = Range(q) \union {o}
  <2>1. ASSUME NEW x \in Range(r) PROVE x \in Range(q) \union {o}
    BY <1>1, <1>2 DEF Range
  <2>2. ASSUME NEW x \in Range(q) \union {o} PROVE x \in Range(r)
    BY <1>1, <1>2 DEF Range
  <2> QED BY <2>1, <2>2
<1> QED BY <1>1, <1>3, <1>4 DEF r

-----------------------------------------------------------------------------
(* The inductive invariant. *)

\* Bound only: a dirty object can still be written back once.
DirtyRoom == \A o \in objects : target_is_dirty[o] => version[o] < MaxVersion

\* What is not in the table leaves no trace, and ids are not reused.
Unused ==
    /\ \A o \in Id \ objects : /\ target[o] = NULL /\ version[o] = 0
                               /\ ~is_leaf[o] /\ ~target_is_dirty[o]
    /\ \A o \in objects : o < next_id

\* A pin is held through a pointer that outlives it.
PinnedHeld == \A o \in Id : pincount[o] > 0 => Held(o)

WritersPinned == \A o \in Id : writers[o] <= pincount[o]

Memory == /\ QueueIsResidents /\ FilesExact /\ NothingLost
          /\ LeafFlagRight /\ DirtyRoom /\ Unused
References == RefcountExact /\ NoDangling
Pinning == PinnedStays /\ PinnedHeld /\ WritersPinned

IInv == TypeOK /\ Memory /\ References /\ Pinning

\* Each object has contents, in memory or in the file of its version.
LEMMA StoredContent ==
  ASSUME TypeOK, Memory, NEW o \in objects
  PROVE  /\ Stored(o) \in Content
         /\ target[o] = NULL => /\ version[o] \in Versions
                                /\ files[o][version[o]] \in Content
<1>1. o \in Id /\ version[o] \in 0 .. MaxVersion /\ target[o] \in Slot
  BY DEF TypeOK
<1>2. CASE target[o] = NULL
  <2>1. version[o] > 0
    BY <1>2 DEF Memory, NothingLost
  <2>2. version[o] \in Versions
    BY <2>1, <1>1 DEF Versions
  <2>3. files[o][version[o]] # NULL
    BY <2>2, <1>1 DEF Memory, FilesExact
  <2>4. files[o][version[o]] \in Slot
    BY <2>2, <1>1 DEF TypeOK
  <2> QED BY <1>2, <2>2, <2>3, <2>4 DEF Stored, Slot
<1>3. CASE target[o] # NULL
  BY <1>1, <1>3 DEF Stored, Slot
<1> QED BY <1>2, <1>3

\* The counters of an object are numbers.
LEMMA Counters ==
  ASSUME TypeOK
  PROVE  /\ objects \subseteq Id
         /\ refcount \in [Id -> Nat] /\ handles \in [Id -> Nat] /\ doomed \in [Id -> Nat]
         /\ pincount \in [Id -> Nat] /\ writers \in [Id -> Nat]
<1>1. 0 .. MaxHandles \subseteq Nat /\ 0 .. MaxPins \subseteq Nat
  BY BoundsAssumption
<1> QED BY <1>1 DEF TypeOK

\* An object has finitely many parents, so that they can be counted.
LEMMA ParentsFinite ==
  ASSUME TypeOK, NEW o
  PROVE  IsFiniteSet(objects) /\ IsFiniteSet(Parents(o)) /\ Cardinality(Parents(o)) \in Nat
<1>1. IsFiniteSet(Id)
  BY BoundsAssumption, FS_Interval DEF Id
<1>2. IsFiniteSet(objects)
  BY <1>1, FS_Subset DEF TypeOK
<1>3. IsFiniteSet(Parents(o))
  BY <1>2, FS_Subset DEF Parents
<1> QED BY <1>2, <1>3, FS_CardinalityType

\* An empty swap space satisfies the invariant.
LEMMA InitInv == Init => IInv
<1> SUFFICES ASSUME Init PROVE IInv
  OBVIOUS
<1> USE BoundsAssumption DEF Init
<1>1. TypeOK
  <2>1. files \in [Id -> [Versions -> Slot]] /\ target \in [Id -> Slot]
    BY DEF Slot
  <2>2. lru_pqueue \in Seq(Id)
    OBVIOUS
  <2>3. current_in_memory_objects \in 0 .. Word - 1 /\ next_id \in 1 .. MaxId + 1
    OBVIOUS
  <2>4. is_leaf \in [Id -> BOOLEAN] /\ target_is_dirty \in [Id -> BOOLEAN]
    BY Zenon
  <2>5. /\ version \in [Id -> 0 .. MaxVersion] /\ refcount \in [Id -> Nat]
        /\ pincount \in [Id -> 0 .. MaxPins] /\ writers \in [Id -> 0 .. MaxPins]
        /\ handles \in [Id -> 0 .. MaxHandles] /\ doomed \in [Id -> Nat]
    OBVIOUS
  <2>6. objects \subseteq Id /\ evicting \in BOOLEAN
    OBVIOUS
  <2> HIDE DEF Init
  <2> QED BY <2>1, <2>2, <2>3, <2>4, <2>5, <2>6, Zenon DEF TypeOK
<1>2. QueueIsResidents
  BY DEF QueueIsResidents, Queued, Range, IsInjective
<1>3. Memory
  BY <1>2 DEF Memory, FilesExact, NothingLost, LeafFlagRight, DirtyRoom, Unused
<1>4. References
  BY DEF References, RefcountExact, NoDangling
<1>5. Pinning
  BY DEF Pinning, PinnedStays, PinnedHeld, WritersPinned
<1> QED BY <1>1, <1>3, <1>4, <1>5 DEF IInv

-----------------------------------------------------------------------------
(* Steps that touch neither an object nor its file.                         *)

\* A step that touches no memory, file or queue changes no contents.
LEMMA SameMemory ==
  ASSUME IInv,
         UNCHANGED <<objects, target, version, is_leaf, target_is_dirty, files,
                     lru_pqueue, next_id>>
  PROVE  /\ Memory'
         /\ \A o : Stored(o)' = Stored(o)
         /\ \A o : Parents(o)' = Parents(o)
<1>1. \A o : Stored(o)' = Stored(o)
  BY DEF Stored
<1>2. \A o : Parents(o)' = Parents(o)
  BY <1>1 DEF Parents
<1>3. (QueueIsResidents /\ FilesExact /\ NothingLost)'
  BY DEF IInv, Memory, QueueIsResidents, FilesExact, NothingLost, Queued
<1>4. (LeafFlagRight /\ DirtyRoom /\ Unused)'
  BY <1>1 DEF IInv, Memory, LeafFlagRight, DirtyRoom, Unused
<1> QED BY <1>1, <1>2, <1>3, <1>4 DEF Memory

\* pointer(const pointer &): a copy keeps the invariant ...
LEMMA CopyPointerInv ==
  ASSUME IInv, NEW o \in objects, CopyPointer(o)
  PROVE  IInv'
<1> USE DEF CopyPointer
<1>1. TypeOK'
  <2>1. o \in Id /\ refcount[o] + 1 \in Nat /\ handles[o] + 1 \in 0 .. MaxHandles
    BY BoundsAssumption DEF IInv, TypeOK
  <2>2. refcount' \in [Id -> Nat] /\ handles' \in [Id -> 0 .. MaxHandles]
    BY <2>1 DEF IInv, TypeOK
  <2> QED BY <2>2, Zenon DEF IInv, TypeOK, pins, cache
<1>2. /\ Memory'
      /\ \A p : Stored(p)' = Stored(p)
      /\ \A p : Parents(p)' = Parents(p)
  BY SameMemory DEF cache
<1>3. RefcountExact'
  <2> SUFFICES ASSUME NEW p \in objects
               PROVE  /\ refcount'[p] > 0
                      /\ refcount'[p] = handles'[p] + doomed'[p] + Cardinality(Parents(p))
    BY <1>2 DEF RefcountExact
  <2>1. /\ refcount[p] > 0
        /\ refcount[p] = handles[p] + doomed[p] + Cardinality(Parents(p))
    BY DEF IInv, References, RefcountExact
  <2>2. Cardinality(Parents(p)) \in Nat
    BY ParentsFinite DEF IInv
  <2> QED BY <2>1, <2>2, Counters DEF IInv
<1>4. NoDangling'
  BY <1>2, Counters DEF IInv, References, NoDangling, pins
<1>5. Pinning'
  <2>1. PinnedStays' /\ WritersPinned'
    BY DEF IInv, Pinning, PinnedStays, WritersPinned, pins
  <2>2. PinnedHeld'
    BY <1>2, Counters DEF IInv, Pinning, PinnedHeld, Held, pins
  <2> QED BY <2>1, <2>2 DEF Pinning
<1> QED BY <1>1, <1>2, <1>3, <1>4, <1>5 DEF IInv, References

\* ... and so does the end of a pointer that was not the last one.
LEMMA DropPointerInv ==
  ASSUME IInv, NEW o \in objects, DropPointer(o)
  PROVE  IInv'
<1> USE DEF DropPointer
<1>1. TypeOK'
  <2>1. o \in Id /\ doomed[o] + 1 \in Nat /\ handles[o] - 1 \in 0 .. MaxHandles
    BY BoundsAssumption DEF IInv, TypeOK
  <2>2. doomed' \in [Id -> Nat] /\ handles' \in [Id -> 0 .. MaxHandles]
    BY <2>1 DEF IInv, TypeOK
  <2> QED BY <2>2, Zenon DEF IInv, TypeOK, pins, cache, table
<1>2. /\ Memory'
      /\ \A p : Stored(p)' = Stored(p)
      /\ \A p : Parents(p)' = Parents(p)
  BY SameMemory DEF cache, table
<1>3. RefcountExact'
  <2> SUFFICES ASSUME NEW p \in objects
               PROVE  /\ refcount'[p] > 0
                      /\ refcount'[p] = handles'[p] + doomed'[p] + Cardinality(Parents(p))
    BY <1>2 DEF RefcountExact, table
  <2>1. /\ refcount[p] > 0
        /\ refcount[p] = handles[p] + doomed[p] + Cardinality(Parents(p))
    BY DEF IInv, References, RefcountExact
  <2>2. Cardinality(Parents(p)) \in Nat
    BY ParentsFinite DEF IInv
  <2> QED BY <2>1, <2>2, Counters DEF IInv, table
<1>4. NoDangling'
  BY <1>2, Counters DEF IInv, References, NoDangling, pins, table
<1>5. Pinning'
  <2>1. PinnedStays' /\ WritersPinned'
    BY DEF IInv, Pinning, PinnedStays, WritersPinned, pins, table
  <2>2. PinnedHeld'
    <3> SUFFICES ASSUME NEW c \in Id, pincount[c] > 0 PROVE Held(c)'
      BY DEF PinnedHeld, pins
    <3>1. Held(c)
      BY DEF IInv, Pinning, PinnedHeld
    <3>2. CASE \E p \in objects : pincount[p] > 0 /\ c \in Stored(p).ptrs
      BY <3>1, <3>2, <1>2 DEF Held, pins, table
    <3>3. CASE c # o /\ handles[c] > 0
      <4>1. handles'[c] = handles[c]
        BY <3>3, Counters DEF IInv
      <4> QED BY <4>1, <3>1, <3>3 DEF Held, table
    <3>4. CASE c = o /\ handles[o] > 1
      <4>1. handles'[o] = handles[o] - 1
        BY Counters DEF IInv
      <4> QED BY <4>1, <3>1, <3>4, Counters DEF Held, table, IInv
    <3> QED BY <3>1, <3>2, <3>3, <3>4 DEF Held
  <2> QED BY <2>1, <2>2 DEF Pinning
<1> QED BY <1>1, <1>2, <1>3, <1>4, <1>5 DEF IInv, References

\* The end of a pin keeps the invariant.
LEMMA UnpinInv ==
  ASSUME IInv, NEW o \in objects, NEW dirty \in BOOLEAN, Unpin(o, dirty)
  PROVE  IInv'
<1> USE DEF Unpin
<1>0. /\ o \in Id /\ pincount[o] > 0 /\ pincount[o] \in 0 .. MaxPins
      /\ writers[o] \in 0 .. MaxPins /\ writers[o] <= pincount[o]
  <2>1. /\ o \in Id /\ pincount[o] \in 0 .. MaxPins /\ writers[o] \in 0 .. MaxPins
    BY DEF IInv, TypeOK
  <2>2. writers[o] <= pincount[o]
    BY <2>1 DEF IInv, Pinning, WritersPinned
  <2> QED BY <2>1, <2>2
<1>1. TypeOK'
  <2>1. /\ pincount[o] - 1 \in 0 .. MaxPins
        /\ writers[o] - (IF dirty THEN 1 ELSE 0) \in 0 .. MaxPins
    BY <1>0, BoundsAssumption
  <2>2. pincount' \in [Id -> 0 .. MaxPins] /\ writers' \in [Id -> 0 .. MaxPins]
    BY <2>1 DEF IInv, TypeOK
  <2> QED BY <2>2, Zenon DEF IInv, TypeOK, cache, table, client
<1>2. /\ Memory'
      /\ \A p : Stored(p)' = Stored(p)
      /\ \A p : Parents(p)' = Parents(p)
  BY SameMemory DEF cache, table
<1>3. RefcountExact'
  BY <1>2 DEF IInv, References, RefcountExact, table, client
<1>4. NoDangling'
  <2>1. ASSUME NEW p \in Id, handles'[p] + doomed'[p] + pincount'[p] > 0
        PROVE  handles[p] + doomed[p] + pincount[p] > 0
    <3>1. handles[p] \in Nat /\ doomed[p] \in Nat /\ pincount[p] \in Nat
      BY Counters DEF IInv
    <3>2. pincount'[p] = IF p = o THEN pincount[p] - 1 ELSE pincount[p]
      BY Counters DEF IInv
    <3> QED BY <2>1, <3>1, <3>2 DEF client
  <2> QED BY <1>2, <2>1 DEF IInv, References, NoDangling, table
<1>5. Pinning'
  <2>1. PinnedStays'
    BY <1>0, Counters DEF IInv, Pinning, PinnedStays, table
  <2>2. WritersPinned'
    BY <1>0, Counters DEF IInv, Pinning, WritersPinned
  <2>3. PinnedHeld'
    <3> SUFFICES ASSUME NEW c \in Id, pincount'[c] > 0 PROVE Held(c)'
      BY DEF PinnedHeld
    <3>1. pincount[c] > 0
      BY <1>0, Counters DEF IInv
    <3>2. Held(c)
      BY <3>1 DEF IInv, Pinning, PinnedHeld
    <3>3. CASE handles[c] > 0
      BY <3>2, <3>3 DEF Held, client, table
    <3>4. CASE \E p \in objects : pincount[p] > 0 /\ c \in Stored(p).ptrs
      <4>1. PICK p \in objects : pincount[p] > 0 /\ c \in Stored(p).ptrs
        BY <3>4
      <4>2. CASE p # o \/ pincount[o] > 1
        <5>1. pincount'[p] > 0
          BY <1>0, <4>1, <4>2, Counters DEF IInv
        <5> QED BY <5>1, <4>1, <3>2, <1>2 DEF Held, table
      <4>3. CASE p = o /\ ~(pincount[o] > 1)
        <5>1. CASE handles[c] > 0
          BY <3>2, <5>1 DEF Held, client, table
        <5>2. CASE \E q \in objects \ {o} : pincount[q] > 0 /\ c \in Stored(q).ptrs
          <6>1. PICK q \in objects \ {o} : pincount[q] > 0 /\ c \in Stored(q).ptrs
            BY <5>2
          <6>2. pincount'[q] > 0
            BY <6>1, Counters DEF IInv
          <6> QED BY <6>1, <6>2, <3>2, <1>2 DEF Held, table
        <5> QED BY <4>1, <4>3, <3>1, <5>1, <5>2
      <4> QED BY <4>2, <4>3
    <3> QED BY <3>2, <3>3, <3>4 DEF Held
  <2> QED BY <2>1, <2>2, <2>3 DEF Pinning
<1> QED BY <1>1, <1>2, <1>3, <1>4, <1>5 DEF IInv, References

\* A destroyed object lets go of an object that others point to.
LEMMA DepointSharedInv ==
  ASSUME IInv, NEW o \in objects, DepointShared(o)
  PROVE  IInv'
<1> USE DEF DepointShared
<1>1. TypeOK'
  <2>1. o \in Id /\ refcount[o] - 1 \in Nat /\ doomed[o] - 1 \in Nat
    BY DEF IInv, TypeOK
  <2>2. refcount' \in [Id -> Nat] /\ doomed' \in [Id -> Nat]
    BY <2>1 DEF IInv, TypeOK
  <2> QED BY <2>2, Zenon DEF IInv, TypeOK, pins, cache
<1>2. /\ Memory'
      /\ \A p : Stored(p)' = Stored(p)
      /\ \A p : Parents(p)' = Parents(p)
  BY SameMemory DEF cache
<1>3. RefcountExact'
  <2> SUFFICES ASSUME NEW p \in objects
               PROVE  /\ refcount'[p] > 0
                      /\ refcount'[p] = handles'[p] + doomed'[p] + Cardinality(Parents(p))
    BY <1>2 DEF RefcountExact
  <2>1. /\ refcount[p] > 0
        /\ refcount[p] = handles[p] + doomed[p] + Cardinality(Parents(p))
    BY DEF IInv, References, RefcountExact
  <2>2. /\ Cardinality(Parents(p)) \in Nat /\ handles[p] \in Nat
        /\ doomed[p] \in Nat /\ refcount[p] \in Nat
    <3>1. Cardinality(Parents(p)) \in Nat
      BY ParentsFinite DEF IInv
    <3> QED BY <3>1, Counters DEF IInv
  <2>3. /\ refcount'[p] = IF p = o THEN refcount[p] - 1 ELSE refcount[p]
        /\ doomed'[p] = IF p = o THEN doomed[p] - 1 ELSE doomed[p]
    BY Counters DEF IInv
  <2> QED BY <2>1, <2>2, <2>3
<1>4. NoDangling'
  <2>1. \A p \in Id : handles'[p] + doomed'[p] + pincount'[p] > 0
                        => handles[p] + doomed[p] + pincount[p] > 0
    BY Counters DEF IInv, pins
  <2> QED BY <1>2, <2>1 DEF IInv, References, NoDangling
<1>5. Pinning'
  BY <1>2 DEF IInv, Pinning, PinnedStays, WritersPinned, PinnedHeld, Held, pins
<1> QED BY <1>1, <1>2, <1>3, <1>4, <1>5 DEF IInv, References

\* maybe_evict_something() ends.
LEMMA EvictDoneInv ==
  ASSUME IInv, EvictDone
  PROVE  IInv'
<1> USE DEF EvictDone
<1>1. TypeOK'
  BY Zenon DEF IInv, TypeOK, pins, cache, table, client
<1>2. /\ Memory'
      /\ \A p : Stored(p)' = Stored(p)
      /\ \A p : Parents(p)' = Parents(p)
  BY SameMemory DEF cache, table
<1>3. References'
  BY <1>2 DEF IInv, References, RefcountExact, NoDangling, table, client, pins
<1>4. Pinning'
  BY <1>2 DEF IInv, Pinning, PinnedStays, WritersPinned, PinnedHeld, Held, pins, table, client
<1> QED BY <1>1, <1>2, <1>3, <1>4 DEF IInv

-----------------------------------------------------------------------------
(* Steps that move an object between memory and disk.                       *)

\* Parents are a matter of contents.
LEMMA SameContent ==
  ASSUME UNCHANGED objects, \A p \in objects : Stored(p)' = Stored(p)
  PROVE  \A p : Parents(p)' = Parents(p)
  BY DEF Parents

\* The queue holds what is in memory, each object once.
LEMMA QueueFacts ==
  ASSUME IInv
  PROVE  /\ lru_pqueue \in Seq(Id) /\ IsInjective(lru_pqueue)
         /\ DOMAIN lru_pqueue = 1 .. Len(lru_pqueue)
         /\ \A o \in Id : o \in Queued <=> target[o] # NULL
         /\ Queued \subseteq objects
<1>1. lru_pqueue \in Seq(Id)
  BY DEF IInv, TypeOK
<1> QED BY <1>1 DEF IInv, Memory, QueueIsResidents

\* An access keeps the invariant and, although it may load, all contents.
LEMMA PinAccessInv ==
  ASSUME IInv, NEW o \in objects, NEW dirty \in BOOLEAN, PinAccess(o, dirty)
  PROVE  /\ IInv'
         /\ \A p \in objects : Stored(p)' = Stored(p)
<1> USE DEF PinAccess, Touch, MarkDirty, Load
<1>1. /\ o \in Id /\ Stored(o) \in Content /\ Stored(o) # NULL
      /\ target[o] = NULL => Stored(o) = files[o][version[o]]
      /\ target[o] # NULL => Stored(o) = target[o]
  BY StoredContent, NullAssumption, Counters DEF IInv, Stored
<1>2. /\ target \in [Id -> Slot] /\ target' = [target EXCEPT ![o] = Stored(o)]
      /\ target'[o] = Stored(o) /\ \A p \in Id \ {o} : target'[p] = target[p]
  BY <1>1 DEF IInv, TypeOK
<1>3. /\ target_is_dirty'[o] = (target_is_dirty[o] \/ dirty)
      /\ \A p \in Id \ {o} : target_is_dirty'[p] = target_is_dirty[p]
  BY <1>1, Zenon DEF IInv, TypeOK
<1>4. /\ lru_pqueue' \in Seq(Id) /\ IsInjective(lru_pqueue')
      /\ Queued' = Queued \union {o}
  BY <1>1, QueueFacts, WithoutQueue, AppendQueue DEF Queued
<1>5. /\ pincount'[o] = pincount[o] + 1
      /\ writers'[o] = writers[o] + (IF dirty THEN 1 ELSE 0)
      /\ \A p \in Id \ {o} : pincount'[p] = pincount[p] /\ writers'[p] = writers[p]
  BY <1>1, Counters DEF IInv
<1>6. \A p \in Id : pincount[p] \in Nat /\ writers[p] \in Nat
  BY Counters DEF IInv
<1>7. \A p \in objects : Stored(p)' = Stored(p)
  BY <1>1, <1>2, Counters DEF Stored, IInv
<1>8. \A p : Parents(p)' = Parents(p)
  BY <1>7, SameContent
<1>a. TypeOK'
  <2>1. target' \in [Id -> Slot]
    BY <1>1, <1>2 DEF Slot
  <2>2. target_is_dirty' \in [Id -> BOOLEAN]
    BY <1>1, Zenon DEF IInv, TypeOK
  <2>3. pincount' \in [Id -> 0 .. MaxPins] /\ writers' \in [Id -> 0 .. MaxPins]
    <3>1. /\ pincount \in [Id -> 0 .. MaxPins] /\ writers \in [Id -> 0 .. MaxPins]
          /\ writers[o] <= pincount[o]
      BY <1>1, Zenon DEF IInv, TypeOK, Pinning, WritersPinned
    <3>2. /\ pincount[o] + 1 \in 0 .. MaxPins
          /\ writers[o] + (IF dirty THEN 1 ELSE 0) \in 0 .. MaxPins
      BY <1>1, <3>1, BoundsAssumption
    <3> QED BY <3>1, <3>2
  <2>4. current_in_memory_objects' \in 0 .. Word - 1
    BY BoundsAssumption DEF IInv, TypeOK, Increment
  <2>5. evicting' \in BOOLEAN
    OBVIOUS
  <2> QED BY <1>4, <2>1, <2>2, <2>3, <2>4, <2>5, Zenon DEF IInv, TypeOK, client
<1>b. QueueIsResidents'
  <2>1. \A p \in Id : p \in Queued' <=> target'[p] # NULL
    BY <1>1, <1>2, <1>4, QueueFacts
  <2>2. Queued' \subseteq objects'
    BY <1>4, QueueFacts
  <2> QED BY <1>4, <2>1, <2>2 DEF QueueIsResidents
<1>c. (FilesExact /\ Unused)'
  BY <1>1, <1>2, <1>3 DEF IInv, Memory, FilesExact, Unused
<1>d. NothingLost'
  <2> SUFFICES ASSUME NEW p \in objects
               PROVE  /\ target'[p] = NULL => ~target_is_dirty'[p]
                      /\ ~target_is_dirty'[p] => version[p] > 0
                      /\ ~target_is_dirty'[p] /\ target'[p] # NULL
                            => target'[p] = files[p][version[p]]
    BY DEF NothingLost
  <2>1. p \in Id
    BY Counters DEF IInv
  <2>2. /\ target[p] = NULL => ~target_is_dirty[p]
        /\ ~target_is_dirty[p] => version[p] > 0
        /\ ~target_is_dirty[p] /\ target[p] # NULL => target[p] = files[p][version[p]]
    BY DEF IInv, Memory, NothingLost
  <2> QED BY <2>1, <2>2, <1>1, <1>2, <1>3
<1>e. LeafFlagRight' /\ DirtyRoom'
  <2>1. LeafFlagRight'
    BY <1>1, <1>2, <1>7, Counters DEF IInv, Memory, LeafFlagRight
  <2>2. DirtyRoom'
    BY <1>3, Counters DEF IInv, Memory, DirtyRoom
  <2> QED BY <2>1, <2>2
<1>f. References'
  <2>1. RefcountExact'
    BY <1>8 DEF IInv, References, RefcountExact, client
  <2>2. ASSUME NEW p \in Id, handles'[p] + doomed'[p] + pincount'[p] > 0
        PROVE  p \in objects'
    <3>1. p # o => handles[p] + doomed[p] + pincount[p] > 0
      BY <2>2, <1>5 DEF client
    <3> QED BY <3>1 DEF IInv, References, NoDangling
  <2>3. \A p \in objects' : Stored(p)'.ptrs \subseteq objects'
    BY <1>7 DEF IInv, References, NoDangling
  <2> QED BY <2>1, <2>2, <2>3 DEF References, NoDangling
<1>g. Pinning'
  <2>1. PinnedStays'
    <3> SUFFICES ASSUME NEW p \in Id
                 PROVE  /\ pincount'[p] > 0 => p \in objects /\ target'[p] # NULL
                        /\ writers'[p] > 0 => target_is_dirty'[p]
      BY DEF PinnedStays
    <3>1. /\ pincount[p] > 0 => p \in objects /\ target[p] # NULL
          /\ writers[p] > 0 => target_is_dirty[p]
      BY DEF IInv, Pinning, PinnedStays
    <3>2. CASE p # o
      BY <3>1, <3>2, <1>2, <1>3, <1>5
    <3>3. CASE p = o
      <4>1. writers'[o] > 0 => dirty \/ writers[o] > 0
        BY <1>1, <1>5, <1>6
      <4> QED BY <3>1, <3>3, <4>1, <1>1, <1>2, <1>3
    <3> QED BY <3>2, <3>3
  <2>2. WritersPinned'
    BY <1>1, <1>5, <1>6 DEF IInv, Pinning, WritersPinned
  <2>3. PinnedHeld'
    <3> SUFFICES ASSUME NEW c \in Id, pincount'[c] > 0 PROVE Held(c)'
      BY DEF PinnedHeld
    <3>1. Held(c)
      BY <1>5 DEF IInv, Pinning, PinnedHeld
    <3>2. \A p \in objects : pincount[p] > 0 => pincount'[p] > 0
      BY <1>5, <1>6, Counters DEF IInv
    <3> QED BY <3>1, <3>2, <1>7 DEF Held, client
  <2> QED BY <2>1, <2>2, <2>3 DEF Pinning
<1> QED BY <1>a, <1>b, <1>c, <1>d, <1>e, <1>f, <1>g, <1>7 DEF IInv, Memory

\* An eviction, with its write-back, keeps the invariant and all contents.
LEMMA EvictInv ==
  ASSUME IInv, NEW i \in DOMAIN lru_pqueue, Evict(i)
  PROVE  /\ IInv'
         /\ \A p \in objects : Stored(p)' = Stored(p)
<1> DEFINE o == lru_pqueue[i]
<1> USE DEF Evict, Victim, WriteBack
<1>1. o \in Id /\ o \in objects /\ o \in Queued /\ target[o] # NULL /\ target[o] \in Content
  <2>1. o \in Queued /\ o \in Id
    BY QueueFacts DEF Queued, Range
  <2>2. target[o] # NULL /\ o \in objects /\ target[o] \in Slot
    BY <2>1, QueueFacts DEF IInv, TypeOK
  <2> QED BY <2>1, <2>2 DEF Slot
<1>2. /\ target'[o] = NULL /\ \A p \in Id \ {o} : target'[p] = target[p]
      /\ target' \in [Id -> Slot]
  BY <1>1 DEF IInv, TypeOK, Slot
<1>3. /\ pincount[o] = 0 /\ lru_pqueue' \in Seq(Id) /\ IsInjective(lru_pqueue')
      /\ Queued' = Queued \ {o}
  BY QueueFacts, WithoutQueue DEF Queued
<1>4. version[o] \in 0 .. MaxVersion
  BY <1>1 DEF IInv, TypeOK
<1>5. target_is_dirty[o] => version[o] + 1 \in Versions
  BY <1>1, <1>4, BoundsAssumption DEF IInv, Memory, DirtyRoom, Versions
<1>6. /\ ~target_is_dirty'[o]
      /\ \A p \in Id \ {o} : target_is_dirty'[p] = target_is_dirty[p]
      /\ target_is_dirty' \in [Id -> BOOLEAN]
  BY <1>1, Zenon DEF IInv, TypeOK
<1>7. /\ is_leaf'[o] = (target[o].ptrs = {})
      /\ \A p \in Id \ {o} : is_leaf'[p] = is_leaf[p]
      /\ is_leaf' \in [Id -> BOOLEAN]
  BY <1>1, Zenon DEF IInv, TypeOK
<1>8. /\ version'[o] = IF target_is_dirty[o] THEN version[o] + 1 ELSE version[o]
      /\ \A p \in Id \ {o} : version'[p] = version[p]
      /\ version' \in [Id -> 0 .. MaxVersion]
  <2>1. target_is_dirty[o] => version[o] + 1 \in 0 .. MaxVersion
    BY <1>4, <1>5, BoundsAssumption DEF Versions
  <2>2. version \in [Id -> 0 .. MaxVersion]
    BY DEF IInv, TypeOK
  <2> QED BY <1>1, <2>1, <2>2
<1>9. /\ \A p \in Id \ {o} : files'[p] = files[p]
      /\ \A v \in Versions : files'[o][v] =
            IF target_is_dirty[o]
            THEN IF v = version[o] + 1 THEN target[o]
                 ELSE IF v = version[o] THEN NULL ELSE files[o][v]
            ELSE files[o][v]
      /\ files' \in [Id -> [Versions -> Slot]]
  <2>1. files \in [Id -> [Versions -> Slot]]
    BY DEF IInv, TypeOK
  <2>2. CASE ~target_is_dirty[o]
    BY <2>1, <2>2
  <2>3. CASE target_is_dirty[o]
    <3> DEFINE row == [v \in Versions |-> IF v = version[o] + 1 THEN target[o]
                                          ELSE IF v = version[o] THEN NULL
                                          ELSE files[o][v]]
    <3>1. row \in [Versions -> Slot]
      BY <1>1, <2>1 DEF Slot
    <3>2. files' = [files EXCEPT ![o] = row]
      BY <2>3
    <3> QED BY <1>1, <2>1, <2>3, <3>1, <3>2
  <2> QED BY <2>2, <2>3
<1> DEFINE nv == version'[o]
<1>10. nv \in Versions /\ files'[o][nv] = target[o]
  <2>1. CASE target_is_dirty[o]
    BY <2>1, <1>5, <1>8, <1>9
  <2>2. CASE ~target_is_dirty[o]
    <3>1. version[o] > 0 /\ target[o] = files[o][version[o]]
      BY <1>1, <2>2 DEF IInv, Memory, NothingLost
    <3>2. version[o] \in Versions
      BY <3>1, <1>4 DEF Versions
    <3> QED BY <2>2, <3>1, <3>2, <1>8, <1>9
  <2> QED BY <2>1, <2>2
<1> HIDE DEF o, Evict, Victim, WriteBack
<1>11. UNCHANGED <<objects, refcount, pincount, writers, next_id, handles, doomed, evicting>>
  BY DEF Evict, pins, client
<1>12. \A p \in objects : Stored(p)' = Stored(p)
  BY <1>1, <1>2, <1>8, <1>9, <1>10, Counters DEF Stored, IInv
<1>13. \A p : Parents(p)' = Parents(p)
  BY <1>11, <1>12, SameContent
<1>a. TypeOK'
  <2>1. current_in_memory_objects' \in 0 .. Word - 1
    BY BoundsAssumption DEF IInv, TypeOK, Decrement, Evict
  <2> QED BY <1>2, <1>3, <1>6, <1>7, <1>8, <1>9, <1>11, <2>1, Zenon DEF IInv, TypeOK
<1>b. QueueIsResidents'
  BY <1>1, <1>2, <1>3, <1>11, QueueFacts DEF QueueIsResidents
<1>c. FilesExact'
  <2> SUFFICES ASSUME NEW p \in Id, NEW v \in Versions
               PROVE  files'[p][v] # NULL <=> p \in objects /\ v = version'[p]
    BY <1>11 DEF FilesExact
  <2>1. files[p][v] # NULL <=> p \in objects /\ v = version[p]
    BY DEF IInv, Memory, FilesExact
  <2>2. CASE p # o
    BY <2>1, <2>2, <1>8, <1>9
  <2>3. CASE p = o
    BY <2>1, <2>3, <1>1, <1>5, <1>8, <1>9, <1>10
  <2> QED BY <2>2, <2>3
<1>d. NothingLost'
  <2> SUFFICES ASSUME NEW p \in objects
               PROVE  /\ target'[p] = NULL => ~target_is_dirty'[p]
                      /\ ~target_is_dirty'[p] => version'[p] > 0
                      /\ ~target_is_dirty'[p] /\ target'[p] # NULL
                            => target'[p] = files'[p][version'[p]]
    BY <1>11 DEF NothingLost
  <2>1. CASE p # o
    <3>1. p \in Id
      BY Counters DEF IInv
    <3>2. /\ target'[p] = target[p] /\ target_is_dirty'[p] = target_is_dirty[p]
          /\ version'[p] = version[p] /\ files'[p] = files[p]
      BY <2>1, <3>1, <1>2, <1>6, <1>8, <1>9
    <3> QED BY <3>2 DEF IInv, Memory, NothingLost
  <2>2. CASE p = o
    <3>1. nv > 0
      BY <1>10 DEF Versions
    <3> QED BY <2>2, <3>1, <1>2, <1>6
  <2> QED BY <2>1, <2>2
<1>e. LeafFlagRight'
  <2> SUFFICES ASSUME NEW p \in objects, target'[p] = NULL
               PROVE  is_leaf'[p] <=> Stored(p).ptrs = {}
    BY <1>11, <1>12 DEF LeafFlagRight
  <2>1. CASE p # o
    BY <2>1, <1>2, <1>7, Counters DEF IInv, Memory, LeafFlagRight
  <2>2. CASE p = o
    BY <2>2, <1>1, <1>7 DEF Stored
  <2> QED BY <2>1, <2>2
<1>f. DirtyRoom' /\ Unused'
  BY <1>1, <1>2, <1>6, <1>7, <1>8, <1>11, Counters DEF IInv, Memory, DirtyRoom, Unused
<1>g. References'
  BY <1>11, <1>12, <1>13 DEF IInv, References, RefcountExact, NoDangling
<1>h. Pinning'
  <2>1. PinnedStays'
    <3> SUFFICES ASSUME NEW p \in Id
                 PROVE  /\ pincount[p] > 0 => p \in objects /\ target'[p] # NULL
                        /\ writers[p] > 0 => target_is_dirty'[p]
      BY <1>11 DEF PinnedStays
    <3>1. /\ pincount[p] > 0 => p \in objects /\ target[p] # NULL
          /\ writers[p] > 0 => target_is_dirty[p]
      BY DEF IInv, Pinning, PinnedStays
    <3>2. p = o => pincount[p] = 0 /\ ~(writers[p] > 0)
      BY <1>3, Counters DEF IInv, Pinning, WritersPinned
    <3> QED BY <3>1, <3>2, <1>2, <1>6
  <2>2. PinnedHeld' /\ WritersPinned'
    BY <1>11, <1>12 DEF IInv, Pinning, PinnedHeld, WritersPinned, Held
  <2> QED BY <2>1, <2>2 DEF Pinning
<1> QED BY <1>a, <1>b, <1>c, <1>d, <1>e, <1>f, <1>g, <1>h, <1>12 DEF IInv, Memory

-----------------------------------------------------------------------------
(* Steps that change what a node holds.                                     *)

\* A change of what a pinned object holds, in memory, is a change of that object only.
LEMMA ContentStep ==
  ASSUME IInv, NEW o \in objects, NEW content \in Content,
         writers[o] > 0,
         target' = [target EXCEPT ![o] = content],
         UNCHANGED <<objects, version, is_leaf, target_is_dirty, files, lru_pqueue, next_id>>
  PROVE  /\ target' \in [Id -> Slot]
         /\ Memory'
         /\ Stored(o)' = content /\ content # NULL
         /\ \A p \in objects \ {o} : Stored(p)' = Stored(p)
         /\ Stored(o) = target[o] /\ target[o] \in Content
         /\ pincount[o] > 0 /\ o \in Id
<1>1. /\ o \in Id /\ content # NULL /\ target \in [Id -> Slot] /\ content \in Slot
  BY NullAssumption, Counters DEF IInv, TypeOK, Slot
<1>2. /\ target'[o] = content /\ \A p \in Id \ {o} : target'[p] = target[p]
      /\ target' \in [Id -> Slot]
  BY <1>1
<1>3. pincount[o] > 0 /\ target[o] # NULL /\ target_is_dirty[o] /\ target[o] \in Content
  <2>1. pincount[o] > 0
    BY <1>1, Counters DEF IInv, Pinning, WritersPinned
  <2>2. target[o] # NULL /\ target_is_dirty[o]
    BY <1>1, <2>1 DEF IInv, Pinning, PinnedStays
  <2> QED BY <1>1, <2>1, <2>2 DEF Slot
<1>4. \A p \in objects \ {o} : Stored(p)' = Stored(p)
  BY <1>2, Counters DEF IInv, Stored
<1>5. Stored(o)' = content /\ Stored(o) = target[o]
  BY <1>1, <1>2, <1>3 DEF Stored
<1>6. QueueIsResidents'
  BY <1>1, <1>2, <1>3 DEF IInv, Memory, QueueIsResidents, Queued
<1>7. (FilesExact /\ DirtyRoom /\ Unused)'
  BY <1>1, <1>2 DEF IInv, Memory, FilesExact, DirtyRoom, Unused
<1>8. NothingLost'
  BY <1>1, <1>2, <1>3, Counters DEF IInv, Memory, NothingLost
<1>9. LeafFlagRight'
  BY <1>1, <1>2, <1>4, Counters DEF IInv, Memory, LeafFlagRight
<1> QED BY <1>1, <1>2, <1>3, <1>4, <1>5, <1>6, <1>7, <1>8, <1>9 DEF Memory

\* A write changes the data of one object ...
LEMMA WriteInv ==
  ASSUME IInv, NEW o \in objects, NEW d \in Data, Write(o, d)
  PROVE  /\ IInv'
         /\ Stored(o)' = [data |-> d, ptrs |-> Stored(o).ptrs]
         /\ \A p \in objects \ {o} : Stored(p)' = Stored(p)
<1> DEFINE content == [data |-> d, ptrs |-> Stored(o).ptrs]
<1> USE DEF Write
<1>0. Stored(o) \in Content /\ Stored(o) = target[o] /\ o \in Id
  <2>1. o \in Id /\ target[o] # NULL
    BY Counters DEF IInv, Pinning, PinnedStays, WritersPinned
  <2> QED BY <2>1, StoredContent DEF IInv, Stored
<1>1. content \in Content
  BY <1>0 DEF Content
<1>2. target' = [target EXCEPT ![o] = content]
  BY <1>0
<1> HIDE DEF content
<1>3. UNCHANGED <<objects, version, is_leaf, refcount, target_is_dirty, pincount, writers,
                  lru_pqueue, current_in_memory_objects, files, next_id, handles, doomed, evicting>>
  BY DEF pins, cache, client
<1> HIDE DEF Write
<1>4. /\ target' \in [Id -> Slot] /\ Memory'
      /\ Stored(o)' = content /\ content # NULL
      /\ \A p \in objects \ {o} : Stored(p)' = Stored(p)
  BY <1>1, <1>2, <1>3, ContentStep DEF Write
<1>5. \A p \in objects : Stored(p)'.ptrs = Stored(p).ptrs
  BY <1>4 DEF content
<1>6. \A p : Parents(p)' = Parents(p)
  BY <1>3, <1>5 DEF Parents
<1>7. TypeOK'
  BY <1>3, <1>4, Zenon DEF IInv, TypeOK
<1>8. References'
  BY <1>3, <1>5, <1>6 DEF IInv, References, RefcountExact, NoDangling
<1>9. Pinning'
  <2>1. \A p \in Id : target[p] # NULL => target'[p] # NULL
    BY <1>2, <1>4, <1>0 DEF IInv, TypeOK
  <2> QED BY <2>1, <1>3, <1>5 DEF IInv, Pinning, PinnedStays, PinnedHeld, WritersPinned, Held
<1> QED BY <1>4, <1>7, <1>8, <1>9 DEF IInv, content

\* ... a new child pointer, its pointers ...
LEMMA LinkInv ==
  ASSUME IInv, NEW p \in objects, NEW o \in objects, Link(p, o)
  PROVE  /\ IInv'
         /\ Stored(p)' = [data |-> Stored(p).data, ptrs |-> Stored(p).ptrs \union {o}]
         /\ \A q \in objects \ {p} : Stored(q)' = Stored(q)
<1> DEFINE content == [data |-> Stored(p).data, ptrs |-> Stored(p).ptrs \union {o}]
<1> USE DEF Link
<1>0. Stored(p) \in Content /\ Stored(p) = target[p] /\ p \in Id /\ o \in Id
  <2>1. p \in Id /\ o \in Id /\ target[p] # NULL
    BY Counters DEF IInv, Pinning, PinnedStays, WritersPinned
  <2> QED BY <2>1, StoredContent DEF IInv, Stored
<1>1. content \in Content
  BY <1>0 DEF Content
<1>2. target' = [target EXCEPT ![p] = content]
  BY <1>0
<1> HIDE DEF content
<1>3. /\ UNCHANGED <<objects, version, is_leaf, target_is_dirty, pincount, writers, lru_pqueue,
                     current_in_memory_objects, files, next_id, handles, doomed, evicting>>
      /\ refcount' = [refcount EXCEPT ![o] = @ + 1]
      /\ o \notin Stored(p).ptrs
  BY DEF pins, cache, client
<1>4. /\ target' \in [Id -> Slot] /\ Memory'
      /\ Stored(p)' = content /\ content # NULL
      /\ \A q \in objects \ {p} : Stored(q)' = Stored(q)
  BY <1>1, <1>2, <1>3, ContentStep DEF Link
<1> HIDE DEF Link
<1>5. /\ Stored(p)'.ptrs = Stored(p).ptrs \union {o}
      /\ \A q \in objects \ {p} : Stored(q)'.ptrs = Stored(q).ptrs
  BY <1>4 DEF content
<1>6. /\ Parents(o)' = Parents(o) \union {p} /\ p \notin Parents(o)
      /\ \A q \in objects \ {o} : Parents(q)' = Parents(q)
  BY <1>3, <1>5 DEF Parents
<1>7. TypeOK'
  <2>1. refcount' \in [Id -> Nat]
    BY <1>3, Counters DEF IInv
  <2> QED BY <2>1, <1>3, <1>4, Zenon DEF IInv, TypeOK
<1>8. References'
  <2>1. RefcountExact'
    <3> SUFFICES ASSUME NEW q \in objects
                 PROVE  /\ refcount'[q] > 0
                        /\ refcount'[q] = handles[q] + doomed[q] + Cardinality(Parents(q)')
      BY <1>3 DEF RefcountExact
    <3>1. /\ refcount[q] > 0 /\ refcount[q] = handles[q] + doomed[q] + Cardinality(Parents(q))
      BY DEF IInv, References, RefcountExact
    <3>2. Cardinality(Parents(q)') = Cardinality(Parents(q)) + (IF q = o THEN 1 ELSE 0)
      <4>1. IsFiniteSet(Parents(q)) /\ Cardinality(Parents(q)) \in Nat
        BY ParentsFinite DEF IInv
      <4> QED BY <4>1, <1>6, FS_AddElement
    <3>3. refcount'[q] = refcount[q] + (IF q = o THEN 1 ELSE 0)
      BY <1>0, <1>3, Counters DEF IInv
    <3>4. /\ refcount[q] \in Nat /\ handles[q] \in Nat /\ doomed[q] \in Nat
          /\ Cardinality(Parents(q)) \in Nat
      BY ParentsFinite, Counters DEF IInv
    <3> QED BY <3>1, <3>2, <3>3, <3>4
  <2>2. NoDangling'
    BY <1>3, <1>5 DEF IInv, References, NoDangling
  <2> QED BY <2>1, <2>2 DEF References
<1>9. Pinning'
  <2>1. \A q \in Id : target[q] # NULL => target'[q] # NULL
    BY <1>2, <1>4, <1>0 DEF IInv, TypeOK
  <2>2. \A q \in objects : Stored(q).ptrs \subseteq Stored(q)'.ptrs
    BY <1>5
  <2> QED BY <2>1, <2>2, <1>3 DEF IInv, Pinning, PinnedStays, PinnedHeld, WritersPinned, Held
<1> QED BY <1>4, <1>7, <1>8, <1>9 DEF IInv, content

\* ... and the removal of one, its pointers.
LEMMA UnlinkInv ==
  ASSUME IInv, NEW p \in objects, NEW o \in objects, Unlink(p, o)
  PROVE  /\ IInv'
         /\ Stored(p)' = [data |-> Stored(p).data, ptrs |-> Stored(p).ptrs \ {o}]
         /\ \A q \in objects \ {p} : Stored(q)' = Stored(q)
<1> DEFINE content == [data |-> Stored(p).data, ptrs |-> Stored(p).ptrs \ {o}]
<1> USE DEF Unlink
<1>0. Stored(p) \in Content /\ Stored(p) = target[p] /\ p \in Id /\ o \in Id
  <2>1. p \in Id /\ o \in Id /\ target[p] # NULL
    BY Counters DEF IInv, Pinning, PinnedStays, WritersPinned
  <2> QED BY <2>1, StoredContent DEF IInv, Stored
<1>1. content \in Content
  BY <1>0 DEF Content
<1>2. target' = [target EXCEPT ![p] = content]
  BY <1>0
<1> HIDE DEF content
<1>3. /\ UNCHANGED <<objects, version, is_leaf, refcount, target_is_dirty, pincount, writers,
                     lru_pqueue, current_in_memory_objects, files, next_id, handles, evicting>>
      /\ doomed' = [doomed EXCEPT ![o] = @ + 1]
      /\ o \in Stored(p).ptrs
  BY DEF pins, cache
<1>4. /\ target' \in [Id -> Slot] /\ Memory'
      /\ Stored(p)' = content /\ content # NULL
      /\ \A q \in objects \ {p} : Stored(q)' = Stored(q)
  BY <1>1, <1>2, <1>3, ContentStep DEF Unlink
<1>5. /\ Stored(p)'.ptrs = Stored(p).ptrs \ {o}
      /\ \A q \in objects \ {p} : Stored(q)'.ptrs = Stored(q).ptrs
  BY <1>4 DEF content
<1>6. /\ Parents(o)' = Parents(o) \ {p} /\ p \in Parents(o)
      /\ \A q \in objects \ {o} : Parents(q)' = Parents(q)
  BY <1>3, <1>5 DEF Parents
<1>7. TypeOK'
  <2>1. doomed' \in [Id -> Nat]
    BY <1>3, Counters DEF IInv
  <2> QED BY <2>1, <1>3, <1>4, Zenon DEF IInv, TypeOK
<1>8. References'
  <2>0. \A q \in Id : doomed'[q] = doomed[q] + (IF q = o THEN 1 ELSE 0)
    BY <1>0, <1>3, Counters DEF IInv
  <2>1. RefcountExact'
    <3> SUFFICES ASSUME NEW q \in objects
                 PROVE  /\ refcount[q] > 0
                        /\ refcount[q] = handles[q] + doomed'[q] + Cardinality(Parents(q)')
      BY <1>3 DEF RefcountExact
    <3>1. /\ refcount[q] > 0 /\ refcount[q] = handles[q] + doomed[q] + Cardinality(Parents(q))
      BY DEF IInv, References, RefcountExact
    <3>2. Cardinality(Parents(q)') = Cardinality(Parents(q)) - (IF q = o THEN 1 ELSE 0)
      <4>1. IsFiniteSet(Parents(q)) /\ Cardinality(Parents(q)) \in Nat
        BY ParentsFinite DEF IInv
      <4> QED BY <4>1, <1>6, FS_RemoveElement
    <3>4. /\ refcount[q] \in Nat /\ handles[q] \in Nat /\ doomed[q] \in Nat /\ q \in Id
          /\ Cardinality(Parents(q)) \in Nat
      BY ParentsFinite, Counters DEF IInv
    <3> QED BY <2>0, <3>1, <3>2, <3>4
  <2>2. \A q \in Id : handles'[q] + doomed'[q] + pincount'[q] > 0 => q \in objects'
    BY <1>3, <2>0 DEF IInv, References, NoDangling
  <2>3. \A q \in objects' : Stored(q)'.ptrs \subseteq objects'
    BY <1>3, <1>5 DEF IInv, References, NoDangling
  <2> QED BY <2>1, <2>2, <2>3 DEF References, NoDangling
<1>9. Pinning'
  <2>1. \A q \in Id : target[q] # NULL => target'[q] # NULL
    BY <1>2, <1>4, <1>0 DEF IInv, TypeOK
  <2>2. PinnedStays' /\ WritersPinned'
    BY <2>1, <1>3 DEF IInv, Pinning, PinnedStays, WritersPinned
  <2>3. PinnedHeld'
    <3> SUFFICES ASSUME NEW c \in Id, pincount[c] > 0 PROVE Held(c)'
      BY <1>3 DEF PinnedHeld
    <3>1. Held(c)
      BY DEF IInv, Pinning, PinnedHeld
    <3>2. CASE handles[c] > 0
      BY <1>3, <3>1, <3>2 DEF Held
    <3>3. CASE \E q \in objects \ {p} : pincount[q] > 0 /\ c \in Stored(q).ptrs
      BY <1>3, <1>5, <3>1, <3>3 DEF Held
    <3>4. CASE c # o
      BY <1>3, <1>5, <3>1, <3>4 DEF Held
    <3>5. CASE c = o
      <4>1. \/ pincount[o] = 0 \/ handles[o] > 0
            \/ \E q \in objects \ {p} : pincount[q] > 0 /\ o \in Stored(q).ptrs
        BY DEF Unlink
      <4> QED BY <4>1, <3>2, <3>3, <3>5, Counters DEF IInv
    <3> QED BY <3>4, <3>5
  <2> QED BY <2>2, <2>3 DEF Pinning
<1> QED BY <1>4, <1>7, <1>8, <1>9 DEF IInv, content

-----------------------------------------------------------------------------
(* Steps that create and free objects.                                      *)

\* A new object gets an id of its own and changes no other.
LEMMA AllocateInv ==
  ASSUME IInv, NEW d \in Data, Allocate(d)
  PROVE  /\ IInv'
         /\ next_id \in Id \ objects
         /\ \A n : n = next_id => Stored(n)' = [data |-> d, ptrs |-> {}]
         /\ \A p \in objects : Stored(p)' = Stored(p)
<1> DEFINE fresh == [data |-> d, ptrs |-> {}]
<1>0. PICK n : n = next_id
  OBVIOUS
<1> USE <1>0 DEF Allocate
<1>1. n \in Id /\ n \notin objects /\ fresh \in Content /\ fresh # NULL
  <2>1. n \in 1 .. MaxId + 1 /\ n <= MaxId
    BY DEF IInv, TypeOK
  <2>2. n \in Id
    BY <2>1, BoundsAssumption DEF Id
  <2>3. n \notin objects
    BY <2>1 DEF IInv, Memory, Unused
  <2> QED BY <2>2, <2>3, NullAssumption DEF Content
<1>2. target[n] = NULL /\ version[n] = 0 /\ ~target_is_dirty[n] /\ ~is_leaf[n]
  BY <1>1 DEF IInv, Memory, Unused
<1>3. handles[n] = 0 /\ doomed[n] = 0 /\ pincount[n] = 0 /\ writers[n] = 0
  <2>1. ~(handles[n] + doomed[n] + pincount[n] > 0)
    BY <1>1 DEF IInv, References, NoDangling
  <2>2. /\ handles[n] \in Nat /\ doomed[n] \in Nat /\ pincount[n] \in Nat
        /\ writers[n] \in Nat
    BY <1>1, Counters DEF IInv
  <2>3. writers[n] <= pincount[n]
    BY <1>1 DEF IInv, Pinning, WritersPinned
  <2> QED BY <2>1, <2>2, <2>3
<1>4. /\ target' \in [Id -> Slot] /\ target'[n] = fresh
      /\ \A p \in Id \ {n} : target'[p] = target[p]
  BY <1>1 DEF IInv, TypeOK, Slot
<1>5. /\ refcount' \in [Id -> Nat] /\ refcount'[n] = 1
      /\ \A p \in Id \ {n} : refcount'[p] = refcount[p]
  BY <1>1, Counters DEF IInv
<1>6. /\ handles' \in [Id -> 0 .. MaxHandles] /\ handles'[n] = 1
      /\ \A p \in Id \ {n} : handles'[p] = handles[p]
  <2>1. 1 \in 0 .. MaxHandles
    BY BoundsAssumption
  <2> QED BY <1>1, <2>1 DEF IInv, TypeOK
<1>7. /\ target_is_dirty' \in [Id -> BOOLEAN] /\ target_is_dirty'[n]
      /\ \A p \in Id \ {n} : target_is_dirty'[p] = target_is_dirty[p]
  BY <1>1, Zenon DEF IInv, TypeOK
<1>8. /\ lru_pqueue' \in Seq(Id) /\ IsInjective(lru_pqueue')
      /\ Queued' = Queued \union {n}
  <2>1. n \notin Range(lru_pqueue)
    BY <1>1, QueueFacts DEF Queued
  <2> QED BY <1>1, <2>1, QueueFacts, AppendQueue DEF Queued
<1>9. /\ objects' = objects \union {n}
      /\ UNCHANGED <<version, is_leaf, pincount, writers, files, doomed>>
      /\ next_id' = n + 1 /\ n \in 1 .. MaxId /\ MaxVersion > 0
  BY <1>1 DEF pins, IInv, TypeOK, Id
<1>10. current_in_memory_objects' \in 0 .. Word - 1 /\ evicting' \in BOOLEAN
  BY BoundsAssumption DEF IInv, TypeOK, Increment
<1> HIDE <1>0 DEF Allocate
<1>11. Stored(n)' = fresh /\ \A p \in objects : Stored(p)' = Stored(p)
  BY <1>1, <1>4, <1>9, Counters DEF IInv, Stored
<1>12. \A p \in objects : Parents(p)' = Parents(p)
  BY <1>1, <1>9, <1>11 DEF Parents
<1>13. Parents(n)' = {}
  BY <1>1, <1>9, <1>11 DEF Parents, IInv, References, NoDangling
<1>a. TypeOK'
  <2>1. objects' \subseteq Id /\ next_id' \in 1 .. MaxId + 1
    BY <1>1, <1>9, Counters, BoundsAssumption DEF IInv
  <2> QED BY <1>4, <1>5, <1>6, <1>7, <1>8, <1>9, <1>10, <2>1, Zenon DEF IInv, TypeOK
<1>b. QueueIsResidents'
  <2>1. \A p \in Id : p \in Queued' <=> target'[p] # NULL
    BY <1>1, <1>4, <1>8, QueueFacts
  <2> QED BY <1>8, <1>9, <2>1, QueueFacts DEF QueueIsResidents
<1>c. FilesExact'
  <2>1. 0 \notin Versions
    BY DEF Versions
  <2> QED BY <1>1, <1>2, <1>9, <2>1 DEF IInv, Memory, FilesExact
<1>d. NothingLost'
  <2> SUFFICES ASSUME NEW p \in objects'
               PROVE  /\ target'[p] = NULL => ~target_is_dirty'[p]
                      /\ ~target_is_dirty'[p] => version[p] > 0
                      /\ ~target_is_dirty'[p] /\ target'[p] # NULL
                            => target'[p] = files[p][version[p]]
    BY <1>9 DEF NothingLost
  <2>1. CASE p = n
    BY <2>1, <1>1, <1>4, <1>7
  <2>2. CASE p # n
    <3>1. p \in objects /\ p \in Id
      BY <2>2, <1>9, Counters DEF IInv
    <3>2. target'[p] = target[p] /\ target_is_dirty'[p] = target_is_dirty[p]
      BY <2>2, <3>1, <1>4, <1>7
    <3> QED BY <3>1, <3>2 DEF IInv, Memory, NothingLost
  <2> QED BY <2>1, <2>2
<1>e. LeafFlagRight'
  BY <1>1, <1>4, <1>9, <1>11, Counters DEF IInv, Memory, LeafFlagRight
<1>f. DirtyRoom' /\ Unused'
  <2>1. DirtyRoom'
    BY <1>2, <1>7, <1>9, Counters DEF IInv, Memory, DirtyRoom
  <2>2. \A p \in Id \ objects' : /\ target'[p] = NULL /\ version'[p] = 0
                                 /\ ~is_leaf'[p] /\ ~target_is_dirty'[p]
    BY <1>4, <1>7, <1>9 DEF IInv, Memory, Unused
  <2>3. \A p \in objects' : p < next_id'
    <3>1. \A p \in objects : p < n /\ p \in 1 .. MaxId
      BY <1>0, Counters DEF IInv, Memory, Unused, Id
    <3> QED BY <3>1, <1>9
  <2> QED BY <2>1, <2>2, <2>3 DEF Unused
<1>g. References'
  <2>1. RefcountExact'
    <3>1. refcount'[n] > 0 /\ refcount'[n] = handles'[n] + doomed'[n] + Cardinality(Parents(n)')
      BY <1>3, <1>5, <1>6, <1>9, <1>13, FS_EmptySet
    <3>2. ASSUME NEW p \in objects
          PROVE  /\ refcount'[p] > 0
                 /\ refcount'[p] = handles'[p] + doomed'[p] + Cardinality(Parents(p)')
      <4>1. /\ refcount[p] > 0 /\ refcount[p] = handles[p] + doomed[p] + Cardinality(Parents(p))
        BY DEF IInv, References, RefcountExact
      <4>2. p # n /\ p \in Id
        BY <1>1, Counters DEF IInv
      <4>3. refcount'[p] = refcount[p] /\ handles'[p] = handles[p] /\ doomed'[p] = doomed[p]
        BY <4>2, <1>5, <1>6, <1>9
      <4> QED BY <4>1, <4>3, <1>12
    <3> QED BY <3>1, <3>2, <1>9 DEF RefcountExact
  <2>2. \A p \in Id : handles'[p] + doomed'[p] + pincount'[p] > 0 => p \in objects'
    BY <1>6, <1>9 DEF IInv, References, NoDangling
  <2>3. \A p \in objects' : Stored(p)'.ptrs \subseteq objects'
    BY <1>9, <1>11 DEF IInv, References, NoDangling
  <2> QED BY <2>1, <2>2, <2>3 DEF References, NoDangling
<1>h. Pinning'
  <2>1. PinnedStays' /\ WritersPinned'
    <3>1. \A p \in Id : /\ p # n \/ (pincount'[p] = 0 /\ writers'[p] = 0)
                        /\ pincount'[p] = pincount[p] /\ writers'[p] = writers[p]
      BY <1>3, <1>9
    <3> QED BY <3>1, <1>4, <1>7, <1>9 DEF IInv, Pinning, PinnedStays, WritersPinned
  <2>2. PinnedHeld'
    <3> SUFFICES ASSUME NEW c \in Id, pincount[c] > 0 PROVE Held(c)'
      BY <1>9 DEF PinnedHeld
    <3>1. Held(c) /\ c # n
      BY <1>3 DEF IInv, Pinning, PinnedHeld
    <3> QED BY <3>1, <1>6, <1>9, <1>11 DEF Held
  <2> QED BY <2>1, <2>2 DEF Pinning
<1> QED BY <1>a, <1>b, <1>c, <1>d, <1>e, <1>f, <1>g, <1>h, <1>0, <1>1, <1>11 DEF IInv, Memory

\* What depoint() relies on when a count reaches zero: the pointer being
\* destroyed is the only one, and no member function runs on the object.
LEMMA LastPointer ==
  ASSUME IInv, NEW o \in objects, doomed[o] > 0, refcount[o] = 1
  PROVE  /\ handles[o] = 0 /\ doomed[o] = 1 /\ Parents(o) = {}
         /\ pincount[o] = 0 /\ writers[o] = 0
<1>1. /\ o \in Id /\ handles[o] \in Nat /\ doomed[o] \in Nat /\ pincount[o] \in Nat
      /\ writers[o] \in Nat
  BY Counters DEF IInv
<1>2. IsFiniteSet(Parents(o)) /\ Cardinality(Parents(o)) \in Nat
  BY ParentsFinite DEF IInv
<1>3. 1 = handles[o] + doomed[o] + Cardinality(Parents(o))
  BY DEF IInv, References, RefcountExact
<1>4. handles[o] = 0 /\ doomed[o] = 1 /\ Cardinality(Parents(o)) = 0
  BY <1>1, <1>2, <1>3
<1>5. Parents(o) = {}
  BY <1>2, <1>4, FS_EmptySet
<1>6. ~Held(o)
  BY <1>4, <1>5 DEF Held, Parents
<1>7. pincount[o] = 0
  BY <1>1, <1>6 DEF IInv, Pinning, PinnedHeld
<1> QED BY <1>1, <1>4, <1>5, <1>7 DEF IInv, Pinning, WritersPinned

\* The end of the last pointer to an object destroys it, and only it; each pointer
\* that it held is left to be dropped.
LEMMA DepointLastInv ==
  ASSUME IInv, NEW o \in objects, DepointLast(o)
  PROVE  /\ IInv'
         /\ \A p \in objects' : Stored(p)' = Stored(p)
         /\ \A c \in Id \ {o} : doomed'[c] = doomed[c] + (IF c \in Stored(o).ptrs THEN 1 ELSE 0)
         /\ doomed'[o] = 0 /\ doomed' \in [Id -> Nat]
<1> USE DEF DepointLast, FreedPointers
<1>1. /\ handles[o] = 0 /\ doomed[o] = 1 /\ Parents(o) = {}
      /\ pincount[o] = 0 /\ writers[o] = 0
  BY LastPointer
<1>2. o \in Id /\ version[o] \in 0 .. MaxVersion
  BY DEF IInv, TypeOK
<1>3. target[o] = NULL /\ is_leaf[o] => Stored(o).ptrs = {}
  BY DEF IInv, Memory, LeafFlagRight
<1>4. /\ doomed'[o] = 0
      /\ \A c \in Id \ {o} : doomed'[c] = doomed[c] + (IF c \in Stored(o).ptrs THEN 1 ELSE 0)
      /\ doomed' \in [Id -> Nat]
  <2>1. \A c \in Id : doomed'[c] = IF c = o THEN doomed[c] - 1
                                   ELSE IF c \in Stored(o).ptrs THEN doomed[c] + 1
                                   ELSE doomed[c]
    BY <1>3
  <2>2. \A c \in Id : doomed[c] \in Nat
    BY Counters DEF IInv
  <2>3. \A c \in Id : doomed'[c] \in Nat
    BY <2>1, <2>2, <1>1
  <2> QED BY <1>1, <1>2, <2>1, <2>2, <2>3
<1>5. /\ target' \in [Id -> Slot] /\ target'[o] = NULL
      /\ \A p \in Id \ {o} : target'[p] = target[p]
  BY <1>2 DEF IInv, TypeOK, Slot
<1>6. /\ lru_pqueue' \in Seq(Id) /\ IsInjective(lru_pqueue') /\ Queued' = Queued \ {o}
  BY QueueFacts, WithoutQueue DEF Queued
<1>7. /\ refcount' \in [Id -> Nat] /\ \A p \in Id \ {o} : refcount'[p] = refcount[p]
  BY <1>2, Counters DEF IInv
<1>8. /\ target_is_dirty' \in [Id -> BOOLEAN] /\ ~target_is_dirty'[o]
      /\ \A p \in Id \ {o} : target_is_dirty'[p] = target_is_dirty[p]
      /\ is_leaf' \in [Id -> BOOLEAN] /\ ~is_leaf'[o]
      /\ \A p \in Id \ {o} : is_leaf'[p] = is_leaf[p]
  BY <1>2, Zenon DEF IInv, TypeOK
<1>9. /\ version' \in [Id -> 0 .. MaxVersion] /\ version'[o] = 0
      /\ \A p \in Id \ {o} : version'[p] = version[p]
  BY <1>2, BoundsAssumption DEF IInv, TypeOK
<1>10. /\ files' \in [Id -> [Versions -> Slot]]
       /\ \A p \in Id \ {o} : files'[p] = files[p]
       /\ \A v \in Versions : files'[o][v] = IF v = version[o] THEN NULL ELSE files[o][v]
  <2>1. files \in [Id -> [Versions -> Slot]]
    BY DEF IInv, TypeOK
  <2>2. CASE version[o] > 0
    <3>1. version[o] \in Versions
      BY <1>2, <2>2 DEF Versions
    <3>2. files' = [files EXCEPT ![o] = [files[o] EXCEPT ![version[o]] = NULL]]
      BY <2>2
    <3>3. [files[o] EXCEPT ![version[o]] = NULL] \in [Versions -> Slot]
      BY <1>2, <2>1 DEF Slot
    <3> QED BY <1>2, <2>1, <3>1, <3>2, <3>3
  <2>3. CASE ~(version[o] > 0)
    <3>1. version[o] \notin Versions
      BY <2>3 DEF Versions
    <3> QED BY <2>1, <2>3, <3>1
  <2> QED BY <2>2, <2>3
<1>11. /\ objects' = objects \ {o}
       /\ UNCHANGED <<pincount, writers, next_id, handles, evicting>>
  BY DEF pins
<1>12. current_in_memory_objects' \in 0 .. Word - 1
  <2>1. \A x \in 0 .. Word - 1 : Increment(x) \in 0 .. Word - 1 /\ Decrement(x) \in 0 .. Word - 1
    BY BoundsAssumption DEF Increment, Decrement
  <2>2. current_in_memory_objects \in 0 .. Word - 1
    BY DEF IInv, TypeOK
  <2> QED BY <2>1, <2>2
<1> HIDE DEF DepointLast, FreedPointers
<1>13. \A p \in objects' : Stored(p)' = Stored(p)
  BY <1>5, <1>9, <1>10, <1>11, Counters DEF IInv, Stored
<1>14. \A p \in objects' : o \notin Stored(p).ptrs
  BY <1>1, <1>11 DEF Parents
<1>15. \A p \in objects' : Parents(p)' = Parents(p) \ {o}
  BY <1>11, <1>13 DEF Parents
<1>a. TypeOK'
  <2>1. objects' \subseteq Id
    BY <1>11, Counters DEF IInv
  <2> QED BY <1>4, <1>5, <1>6, <1>7, <1>8, <1>9, <1>10, <1>11, <1>12, <2>1, Zenon DEF IInv, TypeOK
<1>b. QueueIsResidents'
  BY <1>5, <1>6, <1>11, QueueFacts DEF QueueIsResidents
<1>c. FilesExact'
  <2> SUFFICES ASSUME NEW p \in Id, NEW v \in Versions
               PROVE  files'[p][v] # NULL <=> p \in objects' /\ v = version'[p]
    BY DEF FilesExact
  <2>1. files[p][v] # NULL <=> p \in objects /\ v = version[p]
    BY DEF IInv, Memory, FilesExact
  <2> QED BY <2>1, <1>9, <1>10, <1>11
<1>d. NothingLost'
  <2> SUFFICES ASSUME NEW p \in objects'
               PROVE  /\ target'[p] = NULL => ~target_is_dirty'[p]
                      /\ ~target_is_dirty'[p] => version'[p] > 0
                      /\ ~target_is_dirty'[p] /\ target'[p] # NULL
                            => target'[p] = files'[p][version'[p]]
    BY DEF NothingLost
  <2>1. p \in objects /\ p \in Id \ {o}
    BY <1>11, Counters DEF IInv
  <2>2. /\ target'[p] = target[p] /\ target_is_dirty'[p] = target_is_dirty[p]
        /\ version'[p] = version[p] /\ files'[p] = files[p]
    BY <2>1, <1>5, <1>8, <1>9, <1>10
  <2> QED BY <2>1, <2>2 DEF IInv, Memory, NothingLost
<1>e. LeafFlagRight'
  BY <1>5, <1>8, <1>11, <1>13, Counters DEF IInv, Memory, LeafFlagRight
<1>f. DirtyRoom' /\ Unused'
  <2>1. DirtyRoom'
    BY <1>8, <1>9, <1>11, Counters DEF IInv, Memory, DirtyRoom
  <2>2. Unused'
    BY <1>5, <1>8, <1>9, <1>11 DEF IInv, Memory, Unused
  <2> QED BY <2>1, <2>2
<1>g. References'
  <2>1. RefcountExact'
    <3> SUFFICES ASSUME NEW p \in objects'
                 PROVE  /\ refcount'[p] > 0
                        /\ refcount'[p] = handles'[p] + doomed'[p] + Cardinality(Parents(p)')
      BY DEF RefcountExact
    <3>1. p \in objects /\ p \in Id \ {o}
      BY <1>11, Counters DEF IInv
    <3>2. /\ refcount[p] > 0 /\ refcount[p] = handles[p] + doomed[p] + Cardinality(Parents(p))
      BY <3>1 DEF IInv, References, RefcountExact
    <3>3. Cardinality(Parents(p)')
            = Cardinality(Parents(p)) - (IF p \in Stored(o).ptrs THEN 1 ELSE 0)
      <4>1. IsFiniteSet(Parents(p)) /\ Cardinality(Parents(p)) \in Nat
        BY ParentsFinite DEF IInv
      <4>2. o \in Parents(p) <=> p \in Stored(o).ptrs
        BY DEF Parents
      <4> QED BY <4>1, <4>2, <1>15, FS_RemoveElement
    <3>4. /\ refcount[p] \in Nat /\ handles[p] \in Nat /\ doomed[p] \in Nat
          /\ Cardinality(Parents(p)) \in Nat
      BY <3>1, ParentsFinite, Counters DEF IInv
    <3>5. /\ refcount'[p] = refcount[p] /\ handles'[p] = handles[p]
          /\ doomed'[p] = doomed[p] + (IF p \in Stored(o).ptrs THEN 1 ELSE 0)
      BY <3>1, <1>4, <1>7, <1>11
    <3> QED BY <3>2, <3>3, <3>4, <3>5
  <2>2. ASSUME NEW p \in Id, handles'[p] + doomed'[p] + pincount'[p] > 0
        PROVE  p \in objects'
    <3>1. p # o
      BY <2>2, <1>1, <1>4, <1>11
    <3>2. CASE p \in Stored(o).ptrs
      BY <3>1, <3>2, <1>11 DEF IInv, References, NoDangling
    <3>3. CASE p \notin Stored(o).ptrs
      <4>1. doomed'[p] = doomed[p]
        BY <3>1, <3>3, <1>4, Counters DEF IInv
      <4> QED BY <2>2, <3>1, <4>1, <1>11 DEF IInv, References, NoDangling
    <3> QED BY <3>2, <3>3
  <2>3. \A p \in objects' : Stored(p)'.ptrs \subseteq objects'
    BY <1>11, <1>13, <1>14 DEF IInv, References, NoDangling
  <2> QED BY <2>1, <2>2, <2>3 DEF References, NoDangling
<1>h. Pinning'
  <2>1. PinnedStays'
    BY <1>1, <1>5, <1>8, <1>11 DEF IInv, Pinning, PinnedStays
  <2>2. WritersPinned'
    BY <1>11 DEF IInv, Pinning, WritersPinned
  <2>3. PinnedHeld'
    <3> SUFFICES ASSUME NEW c \in Id, pincount[c] > 0 PROVE Held(c)'
      BY <1>11 DEF PinnedHeld
    <3>1. Held(c) /\ c # o
      BY <1>1 DEF IInv, Pinning, PinnedHeld
    <3>2. \A p \in objects : pincount[p] > 0 => p \in objects'
      BY <1>1, <1>11
    <3> QED BY <3>1, <3>2, <1>11, <1>13 DEF Held
  <2> QED BY <2>1, <2>2, <2>3 DEF Pinning
<1> QED BY <1>a, <1>b, <1>c, <1>d, <1>e, <1>f, <1>g, <1>h, <1>4, <1>13 DEF IInv, Memory

-----------------------------------------------------------------------------
(* The invariants of SwapSpace.                                             *)

\* The invariant is inductive ...
LEMMA NextInv == IInv /\ [Next]_vars => IInv'
<1> SUFFICES ASSUME IInv, [Next]_vars PROVE IInv'
  OBVIOUS
<1>1. CASE UNCHANGED vars
  <2>1. /\ Memory'
        /\ \A p : Stored(p)' = Stored(p)
        /\ \A p : Parents(p)' = Parents(p)
    BY <1>1, SameMemory DEF vars, table, cache
  <2>2. TypeOK'
    BY <1>1, Zenon DEF IInv, TypeOK, vars, pins, cache, table, client
  <2>3. References'
    BY <1>1, <2>1 DEF IInv, References, RefcountExact, NoDangling, vars, table, client, pins
  <2>4. Pinning'
    BY <1>1, <2>1 DEF IInv, Pinning, PinnedStays, WritersPinned, PinnedHeld, Held,
                      vars, pins, table, client
  <2> QED BY <2>1, <2>2, <2>3, <2>4 DEF IInv
<1>2. CASE ClientStep
  BY <1>2, AllocateInv, CopyPointerInv, DropPointerInv, PinAccessInv, UnpinInv, WriteInv,
     LinkInv, UnlinkInv DEF ClientStep
<1>3. CASE InternalStep
  BY <1>3, DepointSharedInv, DepointLastInv, EvictInv, EvictDoneInv DEF InternalStep
<1> QED BY <1>1, <1>2, <1>3 DEF Next

\* ... and holds always.
LEMMA Invariance == Spec => []IInv
<1>1. Init => IInv
  BY InitInv
<1>2. IInv /\ [Next]_vars => IInv'
  BY NextInv
<1> QED BY <1>1, <1>2, PTL DEF Spec

\* Every variable keeps its type; in particular the counter stays a machine
\* word and no object outlives its room for versions.
THEOREM TypeCorrect == Spec => []TypeOK
<1>1. IInv => TypeOK
  BY DEF IInv
<1> QED BY <1>1, Invariance, PTL

\* The eviction queue is, at all times, exactly the set of objects in memory.
THEOREM QueueCorrect == Spec => []QueueIsResidents
<1>1. IInv => QueueIsResidents
  BY DEF IInv, Memory
<1> QED BY <1>1, Invariance, PTL

\* One file per written object, that of its version: the unlink of
\* backing_store.cpp:30 never fails, load() never misses its file.
THEOREM FilesCorrect == Spec => []FilesExact
<1>1. IInv => FilesExact
  BY DEF IInv, Memory
<1> QED BY <1>1, Invariance, PTL

\* Eviction never loses a write, whatever is loaded, pinned, written and freed
\* in between.
THEOREM NothingIsLost == Spec => []NothingLost
<1>1. IInv => NothingLost
  BY DEF IInv, Memory
<1> QED BY <1>1, Invariance, PTL

\* A pinned object is never evicted nor freed under the function running on it.
THEOREM PinsHold == Spec => []PinnedStays
<1>1. IInv => PinnedStays
  BY DEF IInv, Pinning
<1> QED BY <1>1, Invariance, PTL

\* Reference counts equal the number of pointers although most of the pointers
\* counted may be on disk.
THEOREM RefcountCorrect == Spec => []RefcountExact
<1>1. IInv => RefcountExact
  BY DEF IInv, References
<1> QED BY <1>1, Invariance, PTL

\* No pointer ever leads to a freed object.
THEOREM NeverDangling == Spec => []NoDangling
<1>1. IInv => NoDangling
  BY DEF IInv, References
<1> QED BY <1>1, Invariance, PTL

\* depoint() may skip loading an evicted leaf: it holds no pointer.
THEOREM LeafFlagCorrect == Spec => []LeafFlagRight
<1>1. IInv => LeafFlagRight
  BY DEF IInv, Memory
<1> QED BY <1>1, Invariance, PTL

-----------------------------------------------------------------------------
(* The swap space implements the heap.                                      *)

\* What the clients see of an object is its contents, wherever they are.
LEMMA HeapViewFacts ==
  ASSUME IInv
  PROVE  /\ HeapView \in [Id -> Slot]
         /\ \A o \in Id : HeapView[o] # NULL <=> o \in objects
         /\ \A o \in objects : HeapView[o] = Stored(o)
         /\ \A o \in Id \ objects : HeapView[o] = NULL
  BY StoredContent, NullAssumption, Counters DEF IInv, HeapView, Slot

\* The view is unchanged when no object and no contents change ...
LEMMA HeapViewSame ==
  ASSUME UNCHANGED objects, \A p \in objects : Stored(p)' = Stored(p)
  PROVE  HeapView' = HeapView
  BY DEF HeapView

\* ... and changes at one object when one changes.
LEMMA HeapViewChange ==
  ASSUME IInv, IInv', NEW o \in Id, NEW content,
         HeapView'[o] = content, \A p \in Id \ {o} : HeapView'[p] = HeapView[p]
  PROVE  HeapView' = [HeapView EXCEPT ![o] = content]
<1>1. HeapView \in [Id -> Slot]
  BY HeapViewFacts
<1>2. HeapView' = [p \in Id |-> HeapView'[p]]
  BY DEF HeapView
<1> QED BY <1>1, <1>2

\* An object of the heap is referenced by handles and by parents.
LEMMA HeapReferenced ==
  ASSUME IInv, NEW o \in Id
  PROVE  AsHeap!Referenced(o) <=> handles[o] > 0 \/ Parents(o) # {}
<1>1. AsHeap!Referenced(o) <=> \/ handles[o] > 0
                               \/ \E p \in Id : HeapView[p] # NULL /\ o \in HeapView[p].ptrs
  BY DEF AsHeap!Referenced
<1> QED BY <1>1, HeapViewFacts, Counters DEF IInv, Parents

\* Each operation of the swap space is one of the heap: allocation ...
LEMMA HeapAllocate ==
  ASSUME IInv, NEW d \in Data, Allocate(d)
  PROVE  AsHeap!New(d)
<1>0. PICK n : n = next_id
  OBVIOUS
<1>1. /\ IInv' /\ n \in Id \ objects /\ Stored(n)' = [data |-> d, ptrs |-> {}]
      /\ \A p \in objects : Stored(p)' = Stored(p)
  BY <1>0, AllocateInv
<1>2. objects' = objects \union {n}
  BY <1>0 DEF Allocate
<1>3. HeapView'[n] = [data |-> d, ptrs |-> {}] /\ \A p \in Id \ {n} : HeapView'[p] = HeapView[p]
  BY <1>1, <1>2 DEF HeapView
<1>4. HeapView' = [HeapView EXCEPT ![n] = [data |-> d, ptrs |-> {}]]
  BY <1>1, <1>3, HeapViewChange
<1> QED BY <1>0, <1>1, <1>4 DEF Allocate, AsHeap!New

\* ... a write ...
LEMMA HeapWrite ==
  ASSUME IInv, NEW o \in objects, NEW d \in Data, Write(o, d)
  PROVE  AsHeap!Write(o, d)
<1>1. /\ IInv' /\ o \in Id /\ Stored(o)' = [data |-> d, ptrs |-> Stored(o).ptrs]
      /\ \A p \in objects \ {o} : Stored(p)' = Stored(p)
  BY WriteInv, Counters DEF IInv
<1>2. objects' = objects /\ Stored(o) \in Content
  BY StoredContent DEF Write, IInv
<1>3. /\ HeapView'[o] = [data |-> d, ptrs |-> Stored(o).ptrs]
      /\ \A p \in Id \ {o} : HeapView'[p] = HeapView[p]
  BY <1>1, <1>2 DEF HeapView
<1>4. HeapView' = [HeapView EXCEPT ![o] = [data |-> d, ptrs |-> Stored(o).ptrs]]
  BY <1>1, <1>3, HeapViewChange
<1>5. HeapView[o] = Stored(o) /\ HeapView[o] # NULL
  BY <1>1, HeapViewFacts
<1> QED BY <1>4, <1>5 DEF Write, AsHeap!Write, client

\* ... a new child pointer ...
LEMMA HeapLink ==
  ASSUME IInv, NEW p \in objects, NEW o \in objects, Link(p, o)
  PROVE  AsHeap!Link(p, o)
<1> DEFINE content == [data |-> Stored(p).data, ptrs |-> Stored(p).ptrs \union {o}]
<1>1. /\ IInv' /\ p \in Id /\ o \in Id /\ Stored(p)' = content
      /\ \A q \in objects \ {p} : Stored(q)' = Stored(q)
  BY LinkInv, Counters DEF IInv
<1>2. objects' = objects
  BY DEF Link
<1>3. HeapView'[p] = content /\ \A q \in Id \ {p} : HeapView'[q] = HeapView[q]
  BY <1>1, <1>2 DEF HeapView
<1>4. HeapView' = [HeapView EXCEPT ![p] = content]
  BY <1>1, <1>3, HeapViewChange
<1>5. HeapView[p] = Stored(p) /\ HeapView[p] # NULL /\ HeapView[o] # NULL
  BY <1>1, HeapViewFacts
<1> QED BY <1>4, <1>5 DEF Link, AsHeap!Link, client

\* ... the removal of one ...
LEMMA HeapUnlink ==
  ASSUME IInv, NEW p \in objects, NEW o \in objects, Unlink(p, o)
  PROVE  AsHeap!Unlink(p, o)
<1> DEFINE content == [data |-> Stored(p).data, ptrs |-> Stored(p).ptrs \ {o}]
<1>1. /\ IInv' /\ p \in Id /\ Stored(p)' = content
      /\ \A q \in objects \ {p} : Stored(q)' = Stored(q)
  BY UnlinkInv, Counters DEF IInv
<1>2. objects' = objects
  BY DEF Unlink
<1>3. HeapView'[p] = content /\ \A q \in Id \ {p} : HeapView'[q] = HeapView[q]
  BY <1>1, <1>2 DEF HeapView
<1>4. HeapView' = [HeapView EXCEPT ![p] = content]
  BY <1>1, <1>3, HeapViewChange
<1>5. HeapView[p] = Stored(p) /\ HeapView[p] # NULL
  BY <1>1, HeapViewFacts
<1> QED BY <1>4, <1>5 DEF Unlink, AsHeap!Unlink

\* ... the drop of a pointer that a destroyed object held ...
LEMMA HeapDepointShared ==
  ASSUME IInv, NEW o \in objects, DepointShared(o)
  PROVE  AsHeap!Release(o)
<1>1. HeapView' = HeapView
  BY HeapViewSame DEF DepointShared, Stored
<1>2. doomed[o] > 1 \/ (doomed[o] = 1 /\ AsHeap!Referenced(o))
  <2>1. /\ o \in Id /\ handles[o] \in Nat /\ doomed[o] \in Nat
        /\ IsFiniteSet(Parents(o)) /\ Cardinality(Parents(o)) \in Nat
    BY ParentsFinite, Counters DEF IInv
  <2>2. doomed[o] > 0 /\ handles[o] + doomed[o] + Cardinality(Parents(o)) > 1
    BY DEF DepointShared, IInv, References, RefcountExact
  <2>3. doomed[o] = 1 => handles[o] > 0 \/ Cardinality(Parents(o)) # 0
    BY <2>1, <2>2
  <2>4. Cardinality(Parents(o)) # 0 => Parents(o) # {}
    BY FS_EmptySet
  <2> QED BY <2>1, <2>2, <2>3, <2>4, HeapReferenced
<1> QED BY <1>1, <1>2 DEF DepointShared, AsHeap!Release

\* ... and of the last pointer to an object.
LEMMA HeapDepointLast ==
  ASSUME IInv, NEW o \in objects, DepointLast(o)
  PROVE  AsHeap!Destroy(o)
<1>1. /\ IInv' /\ o \in Id
      /\ \A p \in objects' : Stored(p)' = Stored(p)
      /\ \A c \in Id \ {o} : doomed'[c] = doomed[c] + (IF c \in Stored(o).ptrs THEN 1 ELSE 0)
      /\ doomed'[o] = 0 /\ doomed' \in [Id -> Nat]
  BY DepointLastInv, Counters DEF IInv
<1>2. objects' = objects \ {o} /\ next_id' = next_id /\ handles' = handles
  BY DEF DepointLast
<1>3. HeapView'[o] = NULL /\ \A p \in Id \ {o} : HeapView'[p] = HeapView[p]
  BY <1>1, <1>2 DEF HeapView
<1>4. HeapView' = [HeapView EXCEPT ![o] = NULL]
  BY <1>1, <1>3, HeapViewChange
<1>5. HeapView[o] = Stored(o) /\ HeapView[o] # NULL
  BY <1>1, HeapViewFacts
<1>6. doomed[o] = 1 /\ ~AsHeap!Referenced(o)
  BY <1>1, LastPointer, HeapReferenced DEF DepointLast
<1>7. \A c \in Id : doomed[c] \in Nat
  BY Counters DEF IInv
<1>8. doomed' = [c \in Id |-> IF c = o THEN 0
                             ELSE IF c \in HeapView[o].ptrs THEN doomed[c] + 1
                             ELSE doomed[c]]
  BY <1>1, <1>5, <1>7
<1> QED BY <1>2, <1>4, <1>5, <1>6, <1>8 DEF AsHeap!Destroy

\* Pins, loads and evictions are no steps of the heap.
LEMMA HeapStutter ==
  ASSUME IInv,
         \/ \E o \in objects, dirty \in BOOLEAN : PinAccess(o, dirty) \/ Unpin(o, dirty)
         \/ \E i \in DOMAIN lru_pqueue : Evict(i)
         \/ EvictDone
         \/ UNCHANGED vars
  PROVE  UNCHANGED AsHeap!vars
<1>1. ASSUME NEW o \in objects, NEW dirty \in BOOLEAN, PinAccess(o, dirty)
      PROVE  UNCHANGED AsHeap!vars
  <2>1. HeapView' = HeapView
    BY <1>1, PinAccessInv, HeapViewSame DEF PinAccess
  <2> QED BY <1>1, <2>1 DEF PinAccess, client, AsHeap!vars
<1>2. ASSUME NEW o \in objects, NEW dirty \in BOOLEAN, Unpin(o, dirty)
      PROVE  UNCHANGED AsHeap!vars
  <2>1. HeapView' = HeapView
    BY <1>2, HeapViewSame DEF Unpin, table, Stored
  <2> QED BY <1>2, <2>1 DEF Unpin, client, AsHeap!vars
<1>3. ASSUME NEW i \in DOMAIN lru_pqueue, Evict(i)
      PROVE  UNCHANGED AsHeap!vars
  <2>1. HeapView' = HeapView
    BY <1>3, EvictInv, HeapViewSame DEF Evict
  <2> QED BY <1>3, <2>1 DEF Evict, client, AsHeap!vars
<1>4. ASSUME EvictDone \/ UNCHANGED vars
      PROVE  UNCHANGED AsHeap!vars
  <2>1. UNCHANGED <<objects, target, version, files, next_id, handles, doomed>>
    BY <1>4 DEF EvictDone, vars, table, client
  <2>2. HeapView' = HeapView
    BY <2>1, HeapViewSame DEF Stored
  <2> QED BY <2>1, <2>2 DEF AsHeap!vars
<1> QED BY <1>1, <1>2, <1>3, <1>4

\* Copies of pointers are copies there.
LEMMA HeapCopyDrop ==
  ASSUME IInv, NEW o \in objects
  PROVE  /\ CopyPointer(o) => AsHeap!Copy(o)
         /\ DropPointer(o) => AsHeap!Drop(o)
<1>1. HeapView[o] # NULL
  BY HeapViewFacts, Counters DEF IInv
<1>2. ASSUME CopyPointer(o) \/ DropPointer(o) PROVE HeapView' = HeapView
  BY <1>2, HeapViewSame DEF CopyPointer, DropPointer, table, Stored
<1> QED BY <1>1, <1>2 DEF CopyPointer, DropPointer, AsHeap!Copy, AsHeap!Drop

\* The swap space implements the heap: whatever is evicted, written back and
\* loaded, the client sees objects that keep their content until the last
\* pointer to them goes away, and not longer.
THEOREM ImplementsHeap == Spec => HeapSpec
<1>1. Init => AsHeap!Init
  BY DEF Init, AsHeap!Init, HeapView
<1>2. IInv /\ [Next]_vars => [AsHeap!Next]_(AsHeap!vars)
  <2> SUFFICES ASSUME IInv, [Next]_vars PROVE AsHeap!Next \/ UNCHANGED AsHeap!vars
    OBVIOUS
  <2>0. objects \subseteq Id
    BY Counters DEF IInv
  <2>1. CASE ClientStep
    BY <2>0, <2>1, HeapAllocate, HeapCopyDrop, HeapStutter, HeapWrite, HeapLink, HeapUnlink
       DEF ClientStep, AsHeap!Next
  <2>2. CASE InternalStep
    BY <2>0, <2>2, HeapDepointShared, HeapDepointLast, HeapStutter DEF InternalStep, AsHeap!Next
  <2>3. CASE UNCHANGED vars
    BY <2>3, HeapStutter
  <2> QED BY <2>1, <2>2, <2>3 DEF Next
<1> QED BY <1>1, <1>2, Invariance, PTL DEF Spec, HeapSpec, AsHeap!Spec

-----------------------------------------------------------------------------
(* The graph of objects has no cycle: every set of objects has one that     *)
(* none of the set points to.                                               *)

Acyclic == \A S \in SUBSET objects : S # {} => \E o \in S : Parents(o) \cap S = {}

\* Removing objects and pointers closes no cycle ...
LEMMA AcyclicShrinks ==
  ASSUME Acyclic, objects' \subseteq objects,
         \A p \in objects' : Stored(p)'.ptrs \subseteq Stored(p).ptrs
  PROVE  Acyclic'
<1>1. \A o : Parents(o)' \subseteq Parents(o)
  BY DEF Parents
<1> QED BY <1>1 DEF Acyclic

\* ... and nor does a new object.
LEMMA AllocateAcyclic ==
  ASSUME IInv, Acyclic, NEW d \in Data, Allocate(d)
  PROVE  Acyclic'
<1>0. PICK n : n = next_id
  OBVIOUS
<1>1. /\ n \in Id \ objects /\ objects' = objects \union {n}
      /\ Stored(n)'.ptrs = {} /\ \A p \in objects : Stored(p)' = Stored(p)
  <2>1. objects' = objects \union {next_id}
    BY DEF Allocate
  <2>2. /\ next_id \in Id \ objects /\ Stored(n)' = [data |-> d, ptrs |-> {}]
        /\ \A p \in objects : Stored(p)' = Stored(p)
    BY <1>0, AllocateInv
  <2> QED BY <1>0, <2>1, <2>2
<1>2. Parents(n)' = {}
  BY <1>1 DEF Parents, IInv, References, NoDangling
<1>3. \A o : Parents(o)' = Parents(o)
  <2> TAKE o
  <2>1. ASSUME NEW p \in objects'
        PROVE  o \in Stored(p)'.ptrs <=> p \in objects /\ o \in Stored(p).ptrs
    BY <1>1
  <2> QED BY <1>1, <2>1 DEF Parents
<1> SUFFICES ASSUME NEW S \in SUBSET objects', S # {}
             PROVE  \E o \in S : Parents(o)' \cap S = {}
  BY DEF Acyclic
<1>4. CASE n \in S
  BY <1>2, <1>4
<1>5. CASE n \notin S
  BY <1>1, <1>3, <1>5 DEF Acyclic
<1> QED BY <1>4, <1>5

\* What is reachable from an object is closed under its pointers.
LEMMA BelowClosed ==
  ASSUME IInv, NEW o \in objects
  PROVE  /\ o \in Below(o)
         /\ \A x \in Below(o) : x \in objects /\ Stored(x).ptrs \subseteq Below(o)
<1>1. o \in Below(o)
  BY DEF Below
<1>2. ASSUME NEW x \in Below(o), NEW y \in Stored(x).ptrs PROVE y \in Below(o)
  <2>1. x \in objects /\ y \in objects
    BY DEF Below, IInv, References, NoDangling
  <2>2. ASSUME NEW S \in SUBSET objects, o \in S, Closed(S) PROVE y \in S
    BY <2>2 DEF Below, Closed
  <2> QED BY <2>1, <2>2 DEF Below
<1> QED BY <1>1, <1>2 DEF Below

\* The guard of Link is what keeps the graph acyclic: a set with a source keeps
\* one, outside what the new pointer leads to or else inside.
LEMMA LinkAcyclic ==
  ASSUME IInv, Acyclic, NEW p \in objects, NEW o \in objects, Link(p, o)
  PROVE  Acyclic'
<1>1. /\ objects' = objects /\ p \notin Below(o)
      /\ Stored(p)'.ptrs = Stored(p).ptrs \union {o}
      /\ \A q \in objects \ {p} : Stored(q)' = Stored(q)
  <2>1. objects' = objects /\ p \notin Below(o)
    BY DEF Link
  <2>2. /\ Stored(p)' = [data |-> Stored(p).data, ptrs |-> Stored(p).ptrs \union {o}]
        /\ \A q \in objects \ {p} : Stored(q)' = Stored(q)
    BY LinkInv
  <2> QED BY <2>1, <2>2
<1>2. /\ Parents(o)' = Parents(o) \union {p}
      /\ \A q \in objects \ {o} : Parents(q)' = Parents(q)
  BY <1>1 DEF Parents
<1> SUFFICES ASSUME NEW S \in SUBSET objects, S # {}
             PROVE  \E w \in S : Parents(w)' \cap S = {}
  BY <1>1 DEF Acyclic
<1>3. CASE S \subseteq Below(o)
  <2>1. PICK w \in S : Parents(w) \cap S = {}
    BY DEF Acyclic
  <2> QED BY <1>1, <1>2, <1>3, <2>1
<1>4. CASE ~(S \subseteq Below(o))
  <2> DEFINE U == S \ Below(o)
  <2>1. PICK w \in U : Parents(w) \cap U = {}
    BY <1>4 DEF Acyclic
  <2>2. w \in S /\ w \notin Below(o) /\ w # o
    BY BelowClosed
  <2>3. \A x \in Below(o) : x \notin Parents(w)
    BY <2>2, BelowClosed DEF Parents
  <2> QED BY <1>2, <2>1, <2>2, <2>3
<1> QED BY <1>3, <1>4

\* No step closes a cycle: Link is guarded as the tree uses it.
LEMMA NextAcyclic == IInv /\ Acyclic /\ [Next]_vars => Acyclic'
<1> SUFFICES ASSUME IInv, Acyclic, [Next]_vars PROVE Acyclic'
  OBVIOUS
<1>1. ASSUME objects' \subseteq objects, \A p \in objects' : Stored(p)' = Stored(p) PROVE Acyclic'
  BY <1>1, AcyclicShrinks
<1>2. ASSUME UNCHANGED <<objects, target, version, files>> PROVE Acyclic'
  BY <1>2, <1>1 DEF Stored
<1>3. CASE UNCHANGED vars
  BY <1>2, <1>3 DEF vars, table
<1>4. CASE ClientStep
  <2>1. ASSUME NEW o \in objects, CopyPointer(o) \/ DropPointer(o) PROVE Acyclic'
    BY <1>2, <2>1 DEF CopyPointer, DropPointer, table
  <2>2. ASSUME NEW o \in objects, NEW dirty \in BOOLEAN, PinAccess(o, dirty) PROVE Acyclic'
    BY <1>1, <2>2, PinAccessInv DEF PinAccess
  <2>3. ASSUME NEW o \in objects, NEW dirty \in BOOLEAN, Unpin(o, dirty) PROVE Acyclic'
    BY <1>2, <2>3 DEF Unpin, table
  <2>4. ASSUME NEW o \in objects, NEW d \in Data, Write(o, d) PROVE Acyclic'
    <3>1. objects' = objects
      BY <2>4 DEF Write
    <3>2. \A p \in objects : Stored(p)'.ptrs \subseteq Stored(p).ptrs
      BY <2>4, WriteInv
    <3> QED BY <3>1, <3>2, AcyclicShrinks
  <2>5. ASSUME NEW p \in objects, NEW o \in objects, Unlink(p, o) PROVE Acyclic'
    <3>1. objects' = objects
      BY <2>5 DEF Unlink
    <3>2. \A q \in objects : Stored(q)'.ptrs \subseteq Stored(q).ptrs
      BY <2>5, UnlinkInv
    <3> QED BY <3>1, <3>2, AcyclicShrinks
  <2> QED BY <1>4, <2>1, <2>2, <2>3, <2>4, <2>5, AllocateAcyclic, LinkAcyclic DEF ClientStep
<1>5. CASE InternalStep
  <2>1. ASSUME NEW o \in objects, DepointShared(o) PROVE Acyclic'
    BY <1>2, <2>1 DEF DepointShared
  <2>2. ASSUME NEW o \in objects, DepointLast(o) PROVE Acyclic'
    <3>1. objects' \subseteq objects
      BY <2>2 DEF DepointLast
    <3> QED BY <1>1, <2>2, <3>1, DepointLastInv
  <2>3. ASSUME NEW i \in DOMAIN lru_pqueue, Evict(i) PROVE Acyclic'
    BY <1>1, <2>3, EvictInv DEF Evict
  <2>4. ASSUME EvictDone PROVE Acyclic'
    BY <1>2, <2>4 DEF EvictDone, table
  <2> QED BY <1>5, <2>1, <2>2, <2>3, <2>4 DEF InternalStep
<1> QED BY <1>3, <1>4, <1>5 DEF Next

\* Without cycles, objects that nobody holds from outside are all gone.
LEMMA NothingHeld ==
  ASSUME IInv, Acyclic, \A o \in Id : handles[o] + doomed[o] = 0
  PROVE  objects = {}
<1>1. SUFFICES ASSUME objects # {} PROVE FALSE
  OBVIOUS
<1>2. PICK o \in objects : Parents(o) \cap objects = {}
  BY <1>1 DEF Acyclic
<1>3. Parents(o) = {}
  BY <1>2 DEF Parents
<1>4. refcount[o] > 0 /\ refcount[o] = handles[o] + doomed[o] + Cardinality(Parents(o))
  BY DEF IInv, References, RefcountExact
<1>5. Cardinality(Parents(o)) = 0
  BY <1>3, FS_EmptySet
<1>6. handles[o] + doomed[o] = 0
  BY Counters DEF IInv
<1> QED BY <1>4, <1>5, <1>6

\* When the last pointer of the client is gone, so is every object, and with it
\* every file, on whatever part of the graph they were.
THEOREM NothingLeaks == Spec => []NoLeak
<1>1. Init => Acyclic
  BY DEF Init, Acyclic
<1>2. IInv /\ Acyclic => NoLeak
  <2> SUFFICES ASSUME IInv, Acyclic, \A o \in Id : handles[o] + doomed[o] = 0
               PROVE  objects = {} /\ \A o \in Id : \A v \in Versions : files[o][v] = NULL
    BY DEF NoLeak
  <2>1. objects = {}
    BY NothingHeld
  <2> QED BY <2>1 DEF IInv, Memory, FilesExact
<1> QED BY <1>1, <1>2, NextAcyclic, Invariance, PTL DEF Spec

-----------------------------------------------------------------------------
(* The counter of objects in memory.                                        *)

\* The counter of loaded objects in a machine word: up, down and back.
LEMMA WordArithmetic ==
  ASSUME NEW W \in Nat \ {0}, NEW c \in 0 .. W - 1
  PROVE  /\ (c + W) % W = c
         /\ (c + 1 + W) % W = IF c = W - 1 THEN 0 ELSE c + 1
         /\ (c - 1 + W) % W = IF c = 0 THEN W - 1 ELSE c - 1
         /\ (c + (W - 1) + W) % W = IF c = 0 THEN W - 1 ELSE c - 1
  OBVIOUS

\* The queue can be counted.
LEMMA QueueFinite ==
  ASSUME IInv
  PROVE  IsFiniteSet(Queued) /\ Cardinality(Queued) \in Nat
<1>1. IsFiniteSet(objects)
  BY ParentsFinite DEF IInv
<1> QED BY <1>1, QueueFacts, FS_Subset, FS_CardinalityType

\* What a step that frees no evicted leaf must do to the counter.
LEMMA CounterBy ==
  ASSUME IInv, NEW change \in {-1, 0, 1},
         Cardinality(Queued') = Cardinality(Queued) + change,
         current_in_memory_objects' = CASE change = 1  -> Increment(current_in_memory_objects)
                                        [] change = -1 -> Decrement(current_in_memory_objects)
                                        [] change = 0  -> current_in_memory_objects,
         \A o \in objects \ objects' : ~(target[o] = NULL /\ is_leaf[o])
  PROVE  CounterStep
<1> DEFINE c == current_in_memory_objects
<1>1. c \in 0 .. Word - 1 /\ Word \in Nat \ {0}
  BY BoundsAssumption DEF IInv, TypeOK
<1>2. Cardinality(Queued') - Cardinality(Queued) = change
  BY QueueFinite
<1>3. c' = (c + change + Word) % Word
  BY <1>1, WordArithmetic DEF Increment, Decrement
<1>4. ~ \E o \in objects : o \notin objects' /\ target[o] = NULL /\ is_leaf[o]
  OBVIOUS
<1>5. c + change + 0 + Word = c + change + Word
  BY <1>1
<1> QED BY <1>2, <1>3, <1>4, <1>5 DEF CounterStep

\* Steps that leave the cache alone leave the counter right ...
LEMMA QueueSame ==
  ASSUME IInv, UNCHANGED cache, objects \subseteq objects'
  PROVE  CounterStep
<1>1. Cardinality(Queued') = Cardinality(Queued) + 0
  BY QueueFinite DEF Queued, cache
<1>2. current_in_memory_objects' = current_in_memory_objects
  BY DEF cache
<1> QED BY <1>1, <1>2, CounterBy

\* ... and the others move it with the queue: a new object ...
LEMMA AllocateCounter ==
  ASSUME IInv, NEW d \in Data, Allocate(d)
  PROVE  CounterStep
<1>0. PICK n : n = next_id
  OBVIOUS
<1>1. n \in Id \ objects
  BY <1>0, AllocateInv
<1>2. /\ lru_pqueue' = Append(lru_pqueue, n) /\ objects' = objects \union {n}
      /\ current_in_memory_objects' = Increment(current_in_memory_objects)
  BY <1>0 DEF Allocate
<1>3. n \notin Queued
  BY <1>1, QueueFacts
<1>4. Queued' = Queued \union {n}
  BY <1>1, <1>2, <1>3, QueueFacts, AppendQueue DEF Queued
<1>5. Cardinality(Queued') = Cardinality(Queued) + 1
  BY <1>3, <1>4, QueueFinite, FS_AddElement
<1> QED BY <1>2, <1>5, CounterBy

\* ... an access, which may load ...
LEMMA PinAccessCounter ==
  ASSUME IInv, NEW o \in objects, NEW dirty \in BOOLEAN, PinAccess(o, dirty)
  PROVE  CounterStep
<1>1. /\ objects' = objects /\ lru_pqueue' = Append(Without(lru_pqueue, o), o)
      /\ current_in_memory_objects' = IF target[o] = NULL
                                      THEN Increment(current_in_memory_objects)
                                      ELSE current_in_memory_objects
  BY DEF PinAccess, Touch, Load
<1>2. o \in Id
  BY Counters DEF IInv
<1>3. /\ Without(lru_pqueue, o) \in Seq(Id) /\ IsInjective(Without(lru_pqueue, o))
      /\ Range(Without(lru_pqueue, o)) = Queued \ {o}
  BY QueueFacts, WithoutQueue DEF Queued
<1>4. Queued' = Queued \union {o}
  <2>1. Range(Append(Without(lru_pqueue, o), o)) = (Queued \ {o}) \union {o}
    BY <1>2, <1>3, AppendQueue
  <2> QED BY <1>1, <2>1 DEF Queued
<1>5. CASE target[o] = NULL
  <2>1. o \notin Queued
    BY <1>2, <1>5, QueueFacts
  <2>2. Cardinality(Queued') = Cardinality(Queued) + 1
    BY <1>4, <2>1, QueueFinite, FS_AddElement
  <2> QED BY <1>1, <1>5, <2>2, CounterBy
<1>6. CASE target[o] # NULL
  <2>1. o \in Queued
    BY <1>2, <1>6, QueueFacts
  <2>2. Queued' = Queued
    BY <1>4, <2>1
  <2>3. Cardinality(Queued') = Cardinality(Queued) + 0
    BY <2>2, QueueFinite
  <2> QED BY <1>1, <1>6, <2>3, CounterBy
<1> QED BY <1>5, <1>6

\* ... an eviction ...
LEMMA EvictCounter ==
  ASSUME IInv, NEW i \in DOMAIN lru_pqueue, Evict(i)
  PROVE  CounterStep
<1> DEFINE o == lru_pqueue[i]
<1>1. /\ objects' = objects /\ lru_pqueue' = Without(lru_pqueue, o)
      /\ current_in_memory_objects' = Decrement(current_in_memory_objects)
  BY DEF Evict
<1>2. o \in Queued
  BY QueueFacts DEF Queued, Range
<1> HIDE DEF o
<1>3. Queued' = Queued \ {o}
  BY <1>1, QueueFacts, WithoutQueue DEF Queued
<1>4. Cardinality(Queued') = Cardinality(Queued) - 1
  BY <1>2, <1>3, QueueFinite, FS_RemoveElement
<1>5. Cardinality(Queued') = Cardinality(Queued) + (-1)
  BY <1>4, QueueFinite
<1> QED BY <1>1, <1>5, CounterBy

\* ... and the end of an object, in memory or not.
LEMMA DepointLastCounter ==
  ASSUME IInv, NEW o \in objects, DepointLast(o)
  PROVE  CounterStep
<1> DEFINE c      == current_in_memory_objects
           loaded == IF target[o] = NULL /\ ~is_leaf[o] THEN Increment(c) ELSE c
<1>1. /\ objects' = objects \ {o} /\ lru_pqueue' = Without(lru_pqueue, o)
      /\ c' = Decrement(loaded)
  BY DEF DepointLast
<1>2. c \in 0 .. Word - 1 /\ Word \in Nat \ {0} /\ o \in Id
  BY BoundsAssumption, Counters DEF IInv, TypeOK
<1>3. Queued' = Queued \ {o}
  BY <1>1, QueueFacts, WithoutQueue DEF Queued
<1>4. \A x \in objects \ objects' : x = o
  BY <1>1
<1>5. CASE target[o] # NULL
  <2>1. o \in Queued
    BY <1>2, <1>5, QueueFacts
  <2>2. Cardinality(Queued') = Cardinality(Queued) - 1
    BY <1>3, <2>1, QueueFinite, FS_RemoveElement
  <2>3. Cardinality(Queued') = Cardinality(Queued) + (-1)
    BY <2>2, QueueFinite
  <2> QED BY <1>1, <1>4, <1>5, <2>3, CounterBy
<1>6. ASSUME target[o] = NULL
      PROVE  Queued' = Queued /\ Cardinality(Queued') = Cardinality(Queued) + 0
  <2>1. o \notin Queued
    BY <1>2, <1>6, QueueFacts
  <2>2. Queued' = Queued
    BY <1>3, <2>1
  <2> QED BY <2>2, QueueFinite
<1>7. CASE target[o] = NULL /\ ~is_leaf[o]
  <2>1. c' = c
    BY <1>1, <1>2, <1>7 DEF Increment, Decrement
  <2> QED BY <1>4, <1>6, <1>7, <2>1, CounterBy
<1>8. CASE target[o] = NULL /\ is_leaf[o]
  <2>1. c' = (c + (Word - 1) + Word) % Word
    BY <1>1, <1>2, <1>8, WordArithmetic DEF Decrement
  <2>2. Cardinality(Queued') - Cardinality(Queued) = 0
    BY <1>6, <1>8, QueueFinite
  <2>3. \E x \in objects : x \notin objects' /\ target[x] = NULL /\ is_leaf[x]
    BY <1>1, <1>8
  <2>4. c + 0 + (Word - 1) + Word = c + (Word - 1) + Word
    BY <1>2
  <2> QED BY <2>1, <2>2, <2>3, <2>4 DEF CounterStep
<1> QED BY <1>5, <1>7, <1>8

\* The counter that bounds the cache follows the number of objects in memory in
\* every step, the free of an evicted leaf excepted: there it goes down although
\* nothing leaves memory.
THEOREM CounterCorrect == Spec => CounterFollows
<1>1. IInv /\ [Next]_vars => [CounterStep]_vars
  <2> SUFFICES ASSUME IInv, Next PROVE CounterStep
    OBVIOUS
  <2>1. ASSUME NEW o \in objects, CopyPointer(o) \/ DropPointer(o) \/ DepointShared(o)
        PROVE  CounterStep
    BY <2>1, QueueSame DEF CopyPointer, DropPointer, DepointShared, table
  <2>2. ASSUME NEW o \in objects, NEW dirty \in BOOLEAN, Unpin(o, dirty) PROVE CounterStep
    BY <2>2, QueueSame DEF Unpin, table
  <2>3. ASSUME NEW o \in objects, NEW d \in Data, Write(o, d) PROVE CounterStep
    BY <2>3, QueueSame DEF Write
  <2>4. ASSUME NEW p \in objects, NEW o \in objects, Link(p, o) \/ Unlink(p, o)
        PROVE  CounterStep
    BY <2>4, QueueSame DEF Link, Unlink
  <2>5. ASSUME EvictDone PROVE CounterStep
    BY <2>5, QueueSame DEF EvictDone, table
  <2>6. CASE ClientStep
    BY <2>1, <2>2, <2>3, <2>4, <2>6, AllocateCounter, PinAccessCounter DEF ClientStep
  <2>7. CASE InternalStep
    BY <2>1, <2>5, <2>7, EvictCounter, DepointLastCounter DEF InternalStep
  <2> QED BY <2>6, <2>7 DEF Next
<1> QED BY <1>1, Invariance, PTL DEF Spec, CounterFollows
=============================================================================
