-------------------------------- MODULE Window --------------------------------
(***************************************************************************)
(* How a node chooses its limits: the window of its recent operations      *)
(* (window_stat_tracker.hpp), the epsilon of a window and the number of    *)
(* pivots of an epsilon.  Epsilons are in thousandths.                     *)
(***************************************************************************)
EXTENDS Integers, Sequences, FiniteSets

READ_HEAVY_E  == 935
WRITE_HEAVY_E == 400

Read  == 0
Write == 1

\* Mutant: the oldest operation goes one operation too late.
MutPush(window, W, operation) ==
    Append(IF Len(window) > W THEN Tail(window) ELSE window, operation)

\* add_read, add_write: a full window loses its oldest operation.
Push(window, W, operation) ==
    Append(IF Len(window) >= W THEN Tail(window) ELSE window, operation)

\* Mutant: the oldest operation is not counted.
MutWriteCount(window) == Cardinality({i \in DOMAIN window : i > 1 /\ window[i] = Write})

WriteCount(window) == Cardinality({i \in DOMAIN window : window[i] = Write})

\* Mutant: the ends of the range are swapped.
MutGetEpsilon(window, W) ==
    WRITE_HEAVY_E + (READ_HEAVY_E - WRITE_HEAVY_E) * (WriteCount(window) \div W)

\* The quotient is one of integers.
GetEpsilon(window, W) ==
    READ_HEAVY_E - (READ_HEAVY_E - WRITE_HEAVY_E) * (WriteCount(window) \div W)

\* calculate_max_pivots() where B is max_node_size to the power of epsilon, rounded.
CalculateMaxPivots(B) ==
    IF B % 4 < 2 \/ (B % 4 = 2 /\ B <= 32) THEN B - (B % 4) ELSE B + (4 - (B % 4))
=============================================================================
