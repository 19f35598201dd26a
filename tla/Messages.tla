------------------------------ MODULE Messages ------------------------------
(***************************************************************************)
(* The messages of betree.hpp and the two rules that give them meaning:    *)
(* how a node merges one into its `elements` (node::apply), and what a     *)
(* query makes of the messages a node buffers for a key and of the value   *)
(* found below (node::query).  A message map, ordered by (key, timestamp), *)
(* is a set of records.                                                    *)
(***************************************************************************)
EXTENDS Integers, SequencesExt

CONSTANT None       \* "does not exist"

Default == << >>    \* default_value: the empty string
Opcodes == {"insert", "delete", "update"}

\* elements.lower_bound(range_start(k)) up to upper_bound(range_end(k))
For(elements, k) == {m \in elements : m.key = k}

MsgLess(a, b) == a.key < b.key \/ (a.key = b.key /\ a.ts < b.ts)

Newest(ms) == CHOOSE m \in ms : \A n \in ms : n.ts <= m.ts

-----------------------------------------------------------------------------
Others(elements, m) == elements \ For(elements, m.key)

\* Mutant: an update of a key that a leaf does not have stays an update.
MutApplyUpdate(elements, m, leaf) ==
    LET same == For(elements, m.key)
    IN  IF same # {} /\ Newest(same).op = "insert"
        THEN Others(elements, m)
               \union {[m EXCEPT !.op = "insert", !.val = Newest(same).val \o m.val]}
        ELSE elements \union {m}

\* An update is folded into an insert that it follows, starts from the default
\* value in a leaf that has none, and is kept beside the older messages otherwise.
ApplyUpdate(elements, m, leaf) ==
    LET same    == For(elements, m.key)
        Onto(v) == Others(elements, m) \union {[m EXCEPT !.op = "insert", !.val = v \o m.val]}
    IN  IF same = {} /\ leaf THEN Onto(Default)
        ELSE IF same # {} /\ Newest(same).op = "insert" THEN Onto(Newest(same).val)
        ELSE elements \union {m}

\* Mutant: an erase is not kept for the levels below.
MutApply(elements, m, leaf) ==
    CASE m.op = "insert" -> Others(elements, m) \union {m}
      [] m.op = "delete" -> Others(elements, m)
      [] m.op = "update" -> ApplyUpdate(elements, m, leaf)

\* Mutant: an erase is put behind the messages that it should replace.
MutApplyErase(elements, m, leaf) ==
    CASE m.op = "insert" -> Others(elements, m) \union {m}
      [] m.op = "delete" -> IF leaf THEN Others(elements, m) ELSE elements \union {m}
      [] m.op = "update" -> ApplyUpdate(elements, m, leaf)

\* node::apply: an insert replaces what there is for its key; an erase does too,
\* and stays as a message unless this is a leaf.
Apply(elements, m, leaf) ==
    CASE m.op = "insert" -> Others(elements, m) \union {m}
      [] m.op = "delete" -> IF leaf THEN Others(elements, m) ELSE Others(elements, m) \union {m}
      [] m.op = "update" -> ApplyUpdate(elements, m, leaf)

\* The last of a set of messages.
LastOf(ms) == CHOOSE m \in ms : \A n \in ms : ~MsgLess(m, n)

\* The messages of a batch are applied in their order, the last one last.
ApplyAll(elements, batch, leaf) ==
    MapThenFoldSet(LAMBDA m, es : Apply(es, m, leaf), elements, LAMBDA m : m, LastOf, batch)

-----------------------------------------------------------------------------
\* The first of a set of messages, and the value after the updates behind it.
Earliest(ms) == CHOOSE m \in ms : \A n \in ms : ~MsgLess(n, m)

Plus(v, updates) ==
    MapThenFoldSet(LAMBDA m, acc : acc \o m.val, v, LAMBDA m : m, LastOf, updates)

\* A query needs the value below a node when the node buffers nothing for the
\* key, or updates only.
NeedsBelow(elements, k) ==
    LET ms == For(elements, k) IN ms # {} => Earliest(ms).op = "update"

\* Mutant: updates found above a missing key are forgotten.
MutEval(elements, k, below) ==
    LET ms    == For(elements, k)
        first == Earliest(ms)
    IN  IF ms = {} \/ below = None THEN below
        ELSE CASE first.op = "update" -> Plus(below, ms)
               [] first.op = "insert" -> Plus(first.val, ms \ {first})
               [] first.op = "delete" -> IF ms = {first} THEN None
                                         ELSE Plus(Default, ms \ {first})

\* The answer of a node, given the one from below.
Eval(elements, k, below) ==
    LET ms    == For(elements, k)
        first == Earliest(ms)
    IN  IF ms = {} THEN below
        ELSE CASE first.op = "update" -> Plus(IF below = None THEN Default ELSE below, ms)
               [] first.op = "insert" -> Plus(first.val, ms \ {first})
               [] first.op = "delete" -> IF ms = {first} THEN None
                                         ELSE Plus(Default, ms \ {first})

\* What a query asserts of a buffer (betree.hpp:1078): behind the first message
\* for a key there are updates only.
UpdatesBehind(elements, k) ==
    \A first, m \in For(elements, k) : first.ts < m.ts => m.op = "update"
=============================================================================
