--------------------------- MODULE WindowStatTracker ---------------------------
(***************************************************************************)
(* The tracker that each node has: the window that add_read and add_write  *)
(* keep, beside the history of all operations that it stands for.          *)
(***************************************************************************)
EXTENDS Window

CONSTANTS
    W,             \* window size, 100 by default
    MaxOperations  \* bound: operations tracked

\* A window of no size would divide by zero in get_epsilon.
ASSUME WindowAssumption == W \in Nat \ {0} /\ MaxOperations \in Nat

VARIABLES
    window,
    history        \* all operations so far

vars == <<window, history>>

Init == window = << >> /\ history = << >>

Add(operation) ==
    /\ Len(history) < MaxOperations
    /\ window' = Push(window, W, operation)
    /\ history' = Append(history, operation)

AddRead  == Add(Read)
AddWrite == Add(Write)

Next == AddRead \/ AddWrite

Spec == Init /\ [][Next]_vars

-----------------------------------------------------------------------------
Operations == {Read, Write}

TypeOK == window \in Seq(Operations) /\ history \in Seq(Operations)

\* The window is the most recent W operations (the head comment of the file), in
\* the order in which they came.
WindowIsRecent ==
    /\ Len(window) = IF Len(history) < W THEN Len(history) ELSE W
    /\ \A i \in 1 .. Len(window) :
          window[i] = history[(Len(history) - Len(window)) + i]

\* A tracker knows two workloads: it asks for the small epsilon exactly when each
\* of the last W operations was a write, and for the large one else.
TwoWorkloads ==
    LET last    == (Len(history) - W) + 1 .. Len(history)
        writing == Len(history) >= W /\ \A i \in last : history[i] = Write
    IN  GetEpsilon(window, W) = IF writing THEN WRITE_HEAVY_E ELSE READ_HEAVY_E

\* Whatever leaves the window, a read never asks for a smaller epsilon and a write
\* never for a larger one.
FollowsWorkload ==
    [][ /\ AddRead  => GetEpsilon(window', W) >= GetEpsilon(window, W)
        /\ AddWrite => GetEpsilon(window', W) <= GetEpsilon(window, W) ]_vars

\* The comment in get_epsilon: the percentage of writes is mapped from [0, 1] to
\* [WRITE_HEAVY_E, READ_HEAVY_E].
Normalized ==
    Len(window) = W =>
        W * GetEpsilon(window, W) =
            W * READ_HEAVY_E - (READ_HEAVY_E - WRITE_HEAVY_E) * WriteCount(window)
=============================================================================
