---------------------------- MODULE MCSocketLive ----------------------------
(***************************************************************************)
(* SocketLifecycle on small instances for liveness.  The calls under way   *)
(* or over are those of one of Crews, which keeps the instances apart: a   *)
(* socket that reconnects, and one that is closed while others send.  A    *)
(* goroutine's own steps begin no other call, so fairness asks for no step *)
(* that the constraint forbids.                                            *)
(***************************************************************************)
EXTENDS SocketLifecycle

CONSTANT Crews      \* sets of calls of Connect, Close and senders

OneCrew == \E crew \in Crews : \A t \in Threads \ Loops : pc[t] # "idle" => t \in crew

LiveSpec == Spec /\ Fairness
=============================================================================
