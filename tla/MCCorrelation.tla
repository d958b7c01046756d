--------------------------- MODULE MCCorrelation ---------------------------
(* Correlation on small instances; calls are interchangeable. *)
EXTENDS Correlation, TLC

CallSymmetry == Permutations(Calls)
=============================================================================
