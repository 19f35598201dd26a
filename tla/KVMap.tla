------------------------------- MODULE KVMap -------------------------------
(***************************************************************************)
(* What betree.hpp promises: a dictionary.  It is the std::map that        *)
(* test.cpp keeps beside the tree and compares every answer with: insert   *)
(* replaces a value, update appends to it (or to the default one), erase   *)
(* removes it.                                                             *)
(***************************************************************************)
EXTENDS Sequences

CONSTANTS Keys, Values, None

VARIABLES
    dict,     \* key -> value, None when the key is absent
    answer    \* the key of the last query and what it returned, None for
              \* "does not exist"

vars == <<dict, answer>>

\* The effect of a message on a key that holds v; Default is the value that an
\* update of a missing key starts from.
Default == << >>
Effect(op, val, v) ==
    CASE op = "insert" -> val
      [] op = "delete" -> None
      [] op = "update" -> (IF v = None THEN Default ELSE v) \o val

Init == dict = [k \in Keys |-> None] /\ answer = << >>

Upsert(op, k, val) ==
    /\ dict' = [dict EXCEPT ![k] = Effect(op, val, @)]
    /\ UNCHANGED answer

Query(k) ==
    /\ answer' = <<k, dict[k]>>
    /\ UNCHANGED dict

Next == \E k \in Keys :
           \/ \E op \in {"insert", "delete", "update"}, val \in Values : Upsert(op, k, val)
           \/ Query(k)

Spec == Init /\ [][Next]_vars
=============================================================================
