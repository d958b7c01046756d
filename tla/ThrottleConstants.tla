------------------------- MODULE ThrottleConstants -------------------------
(***************************************************************************)
(* The parameters of an AsyncThrottleQueue (queue.go) and of its use.      *)
(***************************************************************************)
EXTENDS Integers, FiniteSets

CONSTANTS
    Jobs,       \* the Enqueue calls of a behaviour
    Max,        \* maxPerSecond
    Window,     \* ticks in a second
    Capacity,   \* capacity of q.jobs, 1024 in the code
    Horizon     \* bound: the clock shows at most this; see Tick

ASSUME JobsAssumption == IsFiniteSet(Jobs)
ASSUME MaxAssumption == Max \in Nat \ {0}
ASSUME WindowAssumption == Window \in Nat \ {0}
ASSUME CapacityAssumption == Capacity \in Nat \ {0}
ASSUME HorizonAssumption == Horizon \in Nat
=============================================================================
