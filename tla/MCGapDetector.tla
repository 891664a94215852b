---------------------------- MODULE MCGapDetector ----------------------------
(***************************************************************************)
(* Settings for GapDetector.  The default ones of app.py (threshold 5,     *)
(* interval 5 and lookback 10 minutes) have one ratio, that of Default,    *)
(* which is sure to see no gap; Wide looks back far enough to be sure of   *)
(* the shortest one above the threshold.                                   *)
(***************************************************************************)
EXTENDS GapDetector, TLC

Default == [threshold |-> 1, interval |-> 1, lookback |-> 2]
Wide == [threshold |-> 1, interval |-> 1, lookback |-> 5]
Both == {Default, Wide}
AnySymbol == Permutations(Symbols)
=============================================================================
