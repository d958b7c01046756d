--------------------------- MODULE ThrottleQueue ---------------------------
(***************************************************************************)
(* AsyncThrottleQueue (queue.go): Enqueue puts a job on a buffered channel *)
(* and waits for its result; one goroutine takes the jobs in order, keeps  *)
(* the times of the recent launches, waits while there are maxPerSecond of *)
(* them within the last second, and launches a goroutine for each job (the *)
(* go statement).  Those goroutines begin in any order and run together.   *)
(* Time is counted in ticks; Window ticks are one second.                  *)
(***************************************************************************)
EXTENDS ThrottleConstants, Sequences

VARIABLES
    now,        \* time.Now()
    queue,      \* q.jobs
    arrived,    \* every job sent on q.jobs, in order (for the properties)
    held,       \* the job the worker has taken: {} or one job
    kept,       \* the jobs whose launch times are in `timestamps'
    at,         \* launch time of each job (meaningful once launched)
    pc          \* where each job is

vars == <<now, queue, arrived, held, kept, at, pc>>

Waiting    == {"idle", "sending", "queued"}
Dispatched == {"launched", "running", "done", "returned"}

Init ==
    /\ now = 0
    /\ queue = << >>
    /\ arrived = << >>
    /\ held = {}
    /\ kept = {}
    /\ at = [j \in Jobs |-> -Window]
    /\ pc = [j \in Jobs |-> "idle"]

Goto(j, label) == pc' = [pc EXCEPT ![j] = label]

----------------------------------------------------------------------------
(* Enqueue.                                                                *)

Call(j) ==
    /\ pc[j] = "idle"
    /\ Goto(j, "sending")
    /\ UNCHANGED <<now, queue, arrived, held, kept, at>>

\* q.jobs <- job blocks while the channel is full.
Send(j) ==
    /\ pc[j] = "sending"
    /\ Len(queue) < Capacity
    /\ queue' = Append(queue, j)
    /\ arrived' = Append(arrived, j)
    /\ Goto(j, "queued")
    /\ UNCHANGED <<now, held, kept, at>>

Receive(j) ==
    /\ pc[j] = "done"
    /\ Goto(j, "returned")
    /\ UNCHANGED <<now, queue, arrived, held, kept, at>>

----------------------------------------------------------------------------
(* The worker.                                                             *)

\* timestamps older than a second are dropped.
Prune(S) == {j \in S : now - at[j] < Window}

\* A stack instead of a channel.
TakeNewest ==
    /\ held = {}
    /\ queue # << >>
    /\ held' = {queue[Len(queue)]}
    /\ queue' = SubSeq(queue, 1, Len(queue) - 1)
    /\ kept' = Prune(kept)
    /\ UNCHANGED <<now, arrived, at, pc>>

Take ==
    /\ held = {}
    /\ queue # << >>
    /\ held' = {Head(queue)}
    /\ queue' = Tail(queue)
    /\ kept' = Prune(kept)
    /\ UNCHANGED <<now, arrived, at, pc>>

\* One launch too many.
FullOffByOne == Cardinality(kept) > Max

Full == Cardinality(kept) >= Max

\* The times not looked at again while waiting.
PaceStale ==
    /\ held # {}
    /\ Full
    /\ UNCHANGED vars

\* Sleep(10ms), then prune again.
Pace ==
    /\ held # {}
    /\ Full
    /\ kept' = Prune(kept)
    /\ UNCHANGED <<now, queue, arrived, held, at, pc>>

\* The time is recorded, and `go job()' launches the job's goroutine.
Dispatch(j) ==
    /\ j \in held
    /\ ~Full
    /\ held' = {}
    /\ kept' = kept \cup {j}
    /\ at' = [at EXCEPT ![j] = now]
    /\ Goto(j, "launched")
    /\ UNCHANGED <<now, queue, arrived>>

----------------------------------------------------------------------------
(* The goroutines of the jobs.                                             *)

\* The tasks run one at a time, as if the worker called job() itself.
BeginInline(j) ==
    /\ pc[j] = "launched"
    /\ \A i \in Jobs : pc[i] # "running"
    /\ Goto(j, "running")
    /\ UNCHANGED <<now, queue, arrived, held, kept, at>>

\* The task begins, whatever the others do.
Begin(j) ==
    /\ pc[j] = "launched"
    /\ Goto(j, "running")
    /\ UNCHANGED <<now, queue, arrived, held, kept, at>>

\* The task returns and its result goes into the caller's channel of one.
Finish(j) ==
    /\ pc[j] = "running"
    /\ Goto(j, "done")
    /\ UNCHANGED <<now, queue, arrived, held, kept, at>>

\* Only differences of times matter.  When the clock is at the horizon, a tick
\* moves the dispatch times back instead, as far as the start of the longest
\* window that can still be observed.
Older(t) == IF t > -Window THEN t - 1 ELSE t
Tick ==
    /\ IF now < Horizon THEN now' = now + 1 /\ at' = at
                        ELSE now' = now /\ at' = [j \in Jobs |-> Older(at[j])]
    /\ UNCHANGED <<queue, arrived, held, kept, pc>>

Worker == Take \/ Pace \/ \E j \in Jobs : Dispatch(j)
Caller(j) == Call(j) \/ Send(j) \/ Begin(j) \/ Finish(j) \/ Receive(j)

Next == Tick \/ Worker \/ \E j \in Jobs : Caller(j)

Spec == Init /\ [][Next]_vars

\* The clock runs, the worker and the goroutines are scheduled, and a caller
\* blocked on a full channel is served in turn.  No task is assumed to return: it
\* may hang in a write on the socket (Correlation).
Fairness ==
    /\ WF_vars(Tick)
    /\ WF_vars(Worker)
    /\ \A j \in Jobs : WF_vars(Begin(j)) /\ WF_vars(Receive(j)) /\ SF_vars(Send(j))

----------------------------------------------------------------------------
(* Properties.                                                             *)

\* Every variable has its type.
TypeOK ==
    /\ now \in 0 .. Horizon
    /\ queue \in Seq(Jobs)
    /\ arrived \in Seq(Jobs)
    /\ held \subseteq Jobs
    /\ kept \subseteq Jobs
    /\ at \in [Jobs -> -Window .. Horizon]
    /\ pc \in [Jobs -> Waiting \cup Dispatched]

Launched(j) == pc[j] \in Dispatched
LaunchedIn(t) == {j \in Jobs : Launched(j) /\ t <= at[j] /\ at[j] < t + Window}

\* No window of a second, wherever it starts, sees more than maxPerSecond
\* launches, although the worker only looks at the clock now and then.
RateBound == \A t \in 1 - Window .. Horizon : Cardinality(LaunchedIn(t)) <= Max

\* The jobs that have left the channel are those that arrived first, each launched
\* once and in the order of arrival; none is lost and none is passed by another
\* while the worker holds it back.  This is all that is left of "Tasks run one at a
\* time in FIFO order": launched tasks begin in any order and run together.
LaunchOrder ==
    LET left == Len(arrived) - Len(queue)
    IN  /\ queue = SubSeq(arrived, left + 1, Len(arrived))
        /\ {arrived[i] : i \in 1 .. left} = {j \in Jobs : Launched(j)} \cup held
        /\ \A m, n \in 1 .. left :
              m < n /\ Launched(arrived[n]) =>
                  Launched(arrived[m]) /\ at[arrived[m]] <= at[arrived[n]]

\* "it does not serialize them to one in-flight at a time": a call of Enqueue
\* returns if its own task does, though the tasks before it hang for ever.
EnqueueReturns ==
    \A j \in Jobs : WF_vars(Finish(j)) => (pc[j] = "sending" ~> pc[j] = "returned")
=============================================================================
