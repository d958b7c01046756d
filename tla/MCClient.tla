------------------------------ MODULE MCClient ------------------------------
(***************************************************************************)
(* The machinery under the client's calls, on small instances: the login   *)
(* and retry goroutines (Client) and the queue that sends wait in          *)
(* (ThrottleQueue).  A behaviour is one of one of the two: part says which.*)
(***************************************************************************)
EXTENDS Client, ThrottleConstants, TLC

VARIABLES part, now, queue, arrived, held, kept, at, stage

queueVars == <<now, queue, arrived, held, kept, at, stage>>

Q == INSTANCE ThrottleQueue WITH pc <- stage

MCInit == Init /\ Q!Init /\ part \in {"client", "queue"}

MCNext ==
    \/ part = "client" /\ Next /\ UNCHANGED <<part, queueVars>>
    \/ part = "queue" /\ Q!Next /\ UNCHANGED <<part, vars>>

\* A client that does nothing has nothing enabled that fairness asks for; the
\* clock of the queue has, so what the queue assumes is stated with its property.
MCSpec == MCInit /\ [][MCNext]_<<part, vars, queueVars>> /\ Fairness

----------------------------------------------------------------------------
\* ThrottleQueue.RateBound: no second sees more than maxPerSecond launches.
RateBound == Q!RateBound
\* ThrottleQueue.LaunchOrder: jobs are launched in the order of their arrival.
LaunchOrder == Q!LaunchOrder
\* ThrottleQueue.EnqueueReturns: Enqueue returns if its own task does.
EnqueueReturns == Q!Fairness => Q!EnqueueReturns
=============================================================================
