---------------------------- MODULE BetreeIterator ----------------------------
(***************************************************************************)
(* The iterator of betree.hpp, used as do_scan() of test.cpp does: one     *)
(* that starts at a message key and is incremented in step with an         *)
(* iterator of the std::map.  It reads through const pointers: nodes are   *)
(* loaded and evicted on its way, and none becomes dirty.                  *)
(***************************************************************************)
EXTENDS Betree

CONSTANT MaxScans     \* bound: scans begun

VARIABLES
    it,      \* the iterator: position (None when not valid), is_valid, first, second
    rest,    \* keys the iterator of the std::map has still to visit
    scans    \* scans begun

scanVars == <<it, rest, scans>>

Before == [position |-> None, is_valid |-> FALSE, first |-> None, second |-> None]

ScanInit == it = Before /\ rest = {} /\ scans = 0

-----------------------------------------------------------------------------
(* get_next_message: the message with the least message key above mkey in a *)
(* subtree, None for NULL and for the exception when there is none.         *)

RangeStart(k) == [key |-> k, ts |-> 0]
RangeEnd(k)   == [key |-> k, ts |-> Word - 1]

After(elements, mkey) == IF mkey = None THEN elements ELSE {m \in elements : MsgLess(mkey, m)}

FirstOf(ms) == IF ms = {} THEN None ELSE CHOOSE m \in ms : \A e \in ms : ~MsgLess(e, m)

\* Mutant: messages that a node buffers come first.
MutEarlier(own, kids) == IF own # None THEN own ELSE kids

Earlier(own, kids) ==
    IF own = None \/ (kids # None /\ MsgLess(kids, own)) THEN kids ELSE own

\* Mutant: only the child that has the key is asked.
MutAsked(n, mkey) ==
    {p \in DOMAIN n.pivots : p = IF mkey = None THEN FirstPivot(n) ELSE GetPivot(n, mkey.key)}

\* The pivots from the one that has the key.
Asked(n, mkey) == {p \in DOMAIN n.pivots : mkey = None \/ p >= GetPivot(n, mkey.key)}

RECURSIVE GetNextMessage(_, _, _, _)

\* These children are asked in turn, until one has a message.
GetNextFromChildren(c, id, mkey, pinned) ==
    LET n     == node[id]
        from  == IF mkey # None /\ mkey.key < FirstPivot(n) THEN None ELSE mkey
        Ask(got, p) ==
            IF got.message # None THEN got
            ELSE LET child == n.pivots[p]
                     next  == GetNextMessage(Cache!Peek(got.cache, child, pinned), child, from,
                                             pinned \union {child})
                 IN  [next EXCEPT !.cache = Cache!Evict(@, pinned)]
    IN  FoldLeft(Ask, [message |-> None, cache |-> c], SetToSortSeq(Asked(n, from), <))

GetNextMessage(c, id, mkey, pinned) ==
    LET own == FirstOf(After(node[id].elements, mkey))
    IN  IF IsLeaf(node[id]) THEN [message |-> own, cache |-> c]
        ELSE LET kids == GetNextFromChildren(c, id, mkey, pinned)
             IN  [kids EXCEPT !.message = Earlier(own, @)]

\* bet.root->get_next_message(mkey)
FromRoot(c, mkey) ==
    LET next == GetNextMessage(Cache!Peek(c, root, {}), root, mkey, {root})
    IN  [next EXCEPT !.cache = Cache!Evict(@, {})]

-----------------------------------------------------------------------------
(* The iterator. *)

ApplyTo(i, m) ==
    CASE m.op = "insert" -> [i EXCEPT !.first = m.key, !.second = m.val, !.is_valid = TRUE]
      [] m.op = "delete" -> [i EXCEPT !.is_valid = FALSE]
      [] m.op = "update" ->
            [i EXCEPT !.first = m.key, !.is_valid = TRUE,
                      !.second = (IF i.is_valid THEN @ ELSE Default) \o m.val]

RECURSIVE Assemble(_, _)

\* The loop of setup_next_element: messages up to one for another key than that of
\* the element they have made.
Assemble(i, c) ==
    IF i.position = None \/ (i.is_valid /\ i.position.key # i.first)
    THEN [it |-> i, cache |-> c]
    ELSE LET next == FromRoot(c, i.position)
         IN  Assemble([ApplyTo(i, i.position) EXCEPT !.position = next.message], next.cache)

SetupNextElement(i, c) == Assemble([i EXCEPT !.is_valid = FALSE], c)

Moves(i, c) ==
    /\ \E next \in {SetupNextElement(i, c)} : it' = next.it /\ cache' = next.cache
    /\ UNCHANGED <<node, root, next_id, next_timestamp, stack, returned, found, answer,
                   queries, reference>>

\* begin(), lower_bound(k) and upper_bound(k).
ScanFrom(mkey, keys) ==
    /\ call = "none" /\ scans < MaxScans
    /\ call' = "scan" /\ scans' = scans + 1
    /\ rest' = {k \in keys : reference[k] # None}
    /\ \E start \in {FromRoot(cache, mkey)} :
          Moves([Before EXCEPT !.position = start.message], start.cache)

Scan ==
    \/ ScanFrom(None, Keys)
    \/ \E k \in Keys : \/ ScanFrom(RangeStart(k), {l \in Keys : l >= k})
                       \/ ScanFrom(RangeEnd(k), {l \in Keys : l > k})

\* operator++
ScanNext ==
    /\ call = "scan" /\ rest # {}
    /\ rest' = rest \ {Min(rest)}
    /\ Moves(it, cache)
    /\ UNCHANGED <<call, scans>>

ScanEnd ==
    /\ call = "scan" /\ rest = {}
    /\ call' = "none" /\ it' = Before
    /\ UNCHANGED <<rest, scans, node, root, cache, next_id, next_timestamp, stack, returned,
                   found, answer, queries, reference>>

ScanStep == ScanNext \/ ScanEnd

-----------------------------------------------------------------------------
(* Properties. *)

\* The assertions of do_scan (test.cpp:90-102): the iterator is at the element that
\* the iterator of the std::map is at, and at its end together with it.
ScanRight ==
    call = "scan" =>
        IF rest = {} THEN ~it.is_valid /\ it.position = None
        ELSE it.is_valid /\ it.first = Min(rest) /\ it.second = reference[Min(rest)]
=============================================================================
