------------------------------ MODULE MCBetree ------------------------------
(***************************************************************************)
(* The whole tree, with its adaptive steps and its iterator, and workloads *)
(* for the model checker: with all queries last, and with calls in any     *)
(* order after a preload.                                                  *)
(***************************************************************************)
EXTENDS AdaptiveBetree, BetreeIterator

CONSTANT Preload     \* bound: the first upserts that insert a new key each

ASSUME PreloadAssumption == Preload \in 0 .. MaxUpserts

allVars == <<vars, scanVars>>

MCInit == Init /\ ScanInit

Loading == next_timestamp <= Preload

\* Preload inserts of new keys in any order, and then upserts of the kinds in Ops.
LoadUpsert(k) ==
    IF Loading THEN reference[k] = None /\ Upsert("insert", k)
    ELSE \E op \in Ops : Upsert(op, k)

\* A call that has begun goes on.
Continue ==
    \/ (Step \/ AdaptiveStep) /\ UNCHANGED scanVars
    \/ ScanStep

\* The client may stop between two calls, and only there: any other state without
\* a successor is a deadlock.
Stop == call = "none" /\ UNCHANGED allVars

\* Queries come after the last upsert, as in testing_writes.cpp; scans at any time.
ReadsLastNext ==
    \/ \E k \in Keys : LoadUpsert(k) /\ UNCHANGED scanVars
    \/ \E k \in Keys : next_timestamp > MaxUpserts /\ Query(k) /\ UNCHANGED scanVars
    \/ ~Loading /\ Scan
    \/ Continue
    \/ Stop

ReadsLastSpec == MCInit /\ [][ReadsLastNext]_allVars

\* Queries come at any time after the preload, as in test.cpp.
MixedNext ==
    \/ \E k \in Keys : LoadUpsert(k) /\ UNCHANGED scanVars
    \/ \E k \in Keys : ~Loading /\ Query(k) /\ UNCHANGED scanVars
    \/ ~Loading /\ Scan
    \/ Continue
    \/ Stop

\* WF_allVars(Continue), with its ENABLED written out: a call goes on until it is
\* over, as the absence of deadlocks shows.
Fairness == []<>(call = "none") \/ []<><<Continue>>_allVars

MixedSpec == MCInit /\ [][MixedNext]_allVars /\ Fairness
=============================================================================
