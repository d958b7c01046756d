----------------------------- MODULE MCMessages -----------------------------
(***************************************************************************)
(* Messages on small instances; goroutines of the application are alike,   *)
(* and so are connections.                                                 *)
(***************************************************************************)
EXTENDS Messages, TLC

\* What the application registered before Login comes before the internal handler.
Before == {<<"user", "internal">>}
NothingBefore == {<<"internal">>}

Alike == Permutations(Callers) \cup Permutations(Loops)
=============================================================================
