-------------------------------- MODULE Heap --------------------------------
(***************************************************************************)
(* What swap_space.hpp promises its client: a heap of objects that keep    *)
(* their content until no pointer refers to them, and are then destroyed   *)
(* together with the pointers they hold.  There is no memory limit, no     *)
(* file, no pin and no reference count here; whether an object is still    *)
(* referenced is read off the pointers themselves.                         *)
(***************************************************************************)
EXTENDS Integers

CONSTANTS Id, Data, NULL

VARIABLES
    heap,      \* id -> content, NULL when there is no such object
    next_id,
    handles,   \* id -> pointers outside any object
    doomed     \* id -> pointers being destroyed

vars == <<heap, next_id, handles, doomed>>

Referenced(o) ==
    \/ handles[o] > 0
    \/ \E p \in Id : heap[p] # NULL /\ o \in heap[p].ptrs

Init ==
    /\ heap = [o \in Id |-> NULL]
    /\ next_id = 1
    /\ handles = [o \in Id |-> 0]
    /\ doomed = [o \in Id |-> 0]

New(d) ==
    /\ next_id \in Id
    /\ heap' = [heap EXCEPT ![next_id] = [data |-> d, ptrs |-> {}]]
    /\ handles' = [handles EXCEPT ![next_id] = 1]
    /\ next_id' = next_id + 1
    /\ UNCHANGED doomed

Copy(o) ==
    /\ heap[o] # NULL
    /\ handles' = [handles EXCEPT ![o] = @ + 1]
    /\ UNCHANGED <<heap, next_id, doomed>>

Drop(o) ==
    /\ handles[o] > 0
    /\ handles' = [handles EXCEPT ![o] = @ - 1]
    /\ doomed' = [doomed EXCEPT ![o] = @ + 1]
    /\ UNCHANGED <<heap, next_id>>

Write(o, d) ==
    /\ heap[o] # NULL
    /\ heap' = [heap EXCEPT ![o] = [data |-> d, ptrs |-> @.ptrs]]
    /\ UNCHANGED <<next_id, handles, doomed>>

Link(p, o) ==
    /\ heap[p] # NULL /\ heap[o] # NULL
    /\ heap' = [heap EXCEPT ![p] = [data |-> @.data, ptrs |-> @.ptrs \union {o}]]
    /\ UNCHANGED <<next_id, handles, doomed>>

Unlink(p, o) ==
    /\ heap[p] # NULL /\ o \in heap[p].ptrs
    /\ heap' = [heap EXCEPT ![p] = [data |-> @.data, ptrs |-> @.ptrs \ {o}]]
    /\ doomed' = [doomed EXCEPT ![o] = @ + 1]
    /\ UNCHANGED <<next_id, handles>>

\* The destructor of a pointer while others still refer to the object ...
Release(o) ==
    /\ doomed[o] > 1 \/ (doomed[o] = 1 /\ Referenced(o))
    /\ doomed' = [doomed EXCEPT ![o] = @ - 1]
    /\ UNCHANGED <<heap, next_id, handles>>

\* ... and of the last one, which destroys the pointers the object holds.
Destroy(o) ==
    /\ doomed[o] = 1 /\ ~Referenced(o)
    /\ heap[o] # NULL
    /\ heap' = [heap EXCEPT ![o] = NULL]
    /\ doomed' = [c \in Id |-> IF c = o THEN 0
                               ELSE IF c \in heap[o].ptrs THEN doomed[c] + 1
                               ELSE doomed[c]]
    /\ UNCHANGED <<next_id, handles>>

Next ==
    \/ \E d \in Data : New(d)
    \/ \E o \in Id :
          \/ Copy(o) \/ Drop(o) \/ Release(o) \/ Destroy(o)
          \/ \E d \in Data : Write(o, d)
          \/ \E c \in Id : Link(o, c) \/ Unlink(o, c)

Spec == Init /\ [][Next]_vars
=============================================================================
