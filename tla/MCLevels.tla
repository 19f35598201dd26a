------------------------------ MODULE MCLevels ------------------------------
(***************************************************************************)
(* Upserts on trees of three levels.  The first of them are updates of     *)
(* given keys, and those that follow are free.                             *)
(***************************************************************************)
EXTENDS MCBetree

CONSTANT FreeUpserts     \* bound: the upserts after the first ones

VARIABLE beginning       \* the keys of the first upserts; it does not change

levelVars == <<allVars, beginning>>

\* With two pivots in a node these leave a root, two inner nodes below it and two
\* leaves below each, and a message in a buffer on either level.
Tall == <<3, 2, 2, 4, 1, 6, 5, 6, 1, 1, 4>>

\* A tall tree to begin with, or one of as many keys as are preloaded, in any order.
LevelsInit ==
    /\ MCInit
    /\ beginning \in {Tall} \union SetToSeqs(1 .. Preload)

BeginUpsert ==
    /\ next_timestamp <= Len(beginning)
    /\ Upsert("update", beginning[next_timestamp])

FreeUpsert(op, k) ==
    /\ next_timestamp > Len(beginning)
    /\ next_timestamp <= Len(beginning) + FreeUpserts
    /\ Upsert(op, k)

LevelsNext ==
    /\ \/ BeginUpsert /\ UNCHANGED scanVars
       \/ \E op \in Ops, k \in Keys : FreeUpsert(op, k) /\ UNCHANGED scanVars
       \/ Continue
       \/ Stop
    /\ UNCHANGED beginning

LevelsSpec == LevelsInit /\ [][LevelsNext]_levelVars
=============================================================================
