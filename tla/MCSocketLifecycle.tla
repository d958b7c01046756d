------------------------- MODULE MCSocketLifecycle -------------------------
(* SocketLifecycle on small instances. *)
EXTENDS SocketLifecycle, TLC

ConnectorSymmetry == Permutations(Connectors)
=============================================================================
