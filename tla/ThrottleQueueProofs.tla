------------------------ MODULE ThrottleQueueProofs ------------------------
(***************************************************************************)
(* ThrottleQueue for any number of jobs, any rate and any clock: types,    *)
(* the rate bound and the order of the launches.                           *)
(***************************************************************************)
EXTENDS ThrottleQueue, FiniteSetTheorems, TLAPS

USE JobsAssumption, MaxAssumption, WindowAssumption, CapacityAssumption, HorizonAssumption

\* Every launch of the last second is among the timestamps, none is in the
\* future.
KeptInv ==
    \A j \in Jobs : Launched(j) => /\ at[j] <= now
                                   /\ now - at[j] < Window => j \in kept

Inv == TypeOK /\ KeptInv

\* The empty channel.
LEMMA EmptyQueue == << >> \in Seq(Jobs)
OBVIOUS

\* The initial state.
LEMMA InvInit == Init => Inv
<1>1. SUFFICES ASSUME Init PROVE Inv
  OBVIOUS
<1>2. now \in 0 .. Horizon /\ at \in [Jobs -> -Window .. Horizon]
  BY <1>1 DEF Init
<1>3. pc \in [Jobs -> Waiting \cup Dispatched] /\ \A j \in Jobs : ~Launched(j)
  BY <1>1 DEF Init, Waiting, Dispatched, Launched
<1>4. TypeOK
  BY <1>1, <1>2, <1>3, EmptyQueue DEF Init, TypeOK
<1>5. QED
  BY <1>3, <1>4 DEF Inv, KeptInv

\* A tick at the horizon moves every time back by one tick or leaves it out of
\* every window that can be observed.
LEMMA OlderType ==
    ASSUME NEW t \in -Window .. Horizon
    PROVE  /\ Older(t) \in -Window .. Horizon
           /\ Older(t) > -Window => Older(t) = t - 1
           /\ Older(t) <= t
BY DEF Older

\* Steps of callers and tasks launch nothing.
LEMMA CallerStep ==
    ASSUME Inv, NEW j \in Jobs, Caller(j)
    PROVE  /\ Inv'
           /\ UNCHANGED <<now, at, kept>>
           /\ \A i \in Jobs : Launched(i)' = Launched(i)
<1> USE DEF Waiting, Dispatched, Launched, Goto, Inv, TypeOK, KeptInv
<1>1. CASE Send(j)
  BY <1>1 DEF Send
<1>2. CASE Call(j)
  BY <1>2 DEF Call
<1>3. CASE Finish(j)
  BY <1>3 DEF Finish
<1>4. CASE Receive(j)
  BY <1>4 DEF Receive
<1>5. CASE Begin(j)
  BY <1>5 DEF Begin
<1>6. QED
  BY <1>1, <1>2, <1>3, <1>4, <1>5 DEF Caller

\* Every step of the clock, the worker and the callers.
LEMMA InvNext == Inv /\ [Next]_vars => Inv'
<1>1. SUFFICES ASSUME Inv, [Next]_vars PROVE Inv'
  OBVIOUS
<1>2. CASE Tick
  <2>1. CASE now < Horizon
    BY <1>1, <1>2, <2>1 DEF Tick, Inv, TypeOK, KeptInv, Launched
  <2>2. CASE ~(now < Horizon)
    <3>1. now' = now /\ at' = [j \in Jobs |-> Older(at[j])] /\ UNCHANGED <<queue, arrived, held, kept, pc>>
      BY <1>2, <2>2 DEF Tick
    <3>2. \A j \in Jobs : /\ at'[j] \in -Window .. Horizon
                          /\ at'[j] > -Window => at'[j] = at[j] - 1
                          /\ at'[j] <= at[j]
      BY <1>1, <3>1, OlderType DEF Inv, TypeOK
    <3>3. at' \in [Jobs -> -Window .. Horizon]
      BY <3>1, <3>2
    <3>4. TypeOK'
      BY <1>1, <3>1, <3>3 DEF Inv, TypeOK
    <3>5. ASSUME NEW j \in Jobs, Launched(j)'
          PROVE  at'[j] <= now' /\ (now' - at'[j] < Window => j \in kept')
      <4>1. Launched(j) /\ at[j] <= now /\ (now - at[j] < Window => j \in kept)
        BY <1>1, <3>1, <3>5 DEF Inv, KeptInv, Launched
      <4>2. at[j] \in -Window .. Horizon /\ now \in 0 .. Horizon
        BY <1>1 DEF Inv, TypeOK
      <4>3. now - at'[j] < Window => at'[j] > -Window
        BY <3>2, <4>2
      <4>4. QED
        BY <3>1, <3>2, <4>1, <4>2, <4>3
    <3>6. QED
      BY <3>4, <3>5 DEF Inv, KeptInv
  <2>3. QED
    BY <2>1, <2>2
<1>3. CASE Take
  BY <1>1, <1>3 DEF Take, Inv, TypeOK, KeptInv, Prune, Launched
<1>4. CASE Pace
  BY <1>1, <1>4 DEF Pace, Inv, TypeOK, KeptInv, Prune, Launched
<1>5. ASSUME NEW j \in Jobs, Dispatch(j) PROVE Inv'
  BY <1>1, <1>5 DEF Dispatch, Goto, Inv, TypeOK, KeptInv, Launched, Waiting, Dispatched
<1>6. ASSUME NEW j \in Jobs, Caller(j) PROVE Inv'
  BY <1>1, <1>6, CallerStep
<1>7. CASE UNCHANGED vars
  BY <1>1, <1>7 DEF vars, Inv, TypeOK, KeptInv, Launched
<1>8. QED
  BY <1>1, <1>2, <1>3, <1>4, <1>5, <1>6, <1>7 DEF Next, Worker

\* Type correctness of every reachable state.
THEOREM TypeCorrect == Spec => []TypeOK
<1>1. Inv => TypeOK
  BY DEF Inv
<1>2. QED
  BY <1>1, InvInit, InvNext, PTL DEF Spec

(***************************************************************************)
(* The rate bound.                                                         *)
(***************************************************************************)

\* A part of a finite set of jobs is no larger.
LEMMA SmallerSet ==
    ASSUME NEW S, NEW T, S \subseteq T, T \subseteq Jobs
    PROVE  /\ IsFiniteSet(S) /\ IsFiniteSet(T)
           /\ Cardinality(S) \in Nat /\ Cardinality(T) \in Nat
           /\ Cardinality(S) <= Cardinality(T)
BY FS_Subset, FS_CardinalityType

\* A step that launches nothing and moves no time leaves every window alone.
LEMMA WindowsKept ==
    ASSUME RateBound, UNCHANGED at, \A i \in Jobs : Launched(i)' = Launched(i)
    PROVE  RateBound'
BY DEF RateBound, LaunchedIn

\* Only a dispatch adds to a window, and only when fewer than Max are recent.
LEMMA RateNext == Inv /\ RateBound /\ [Next]_vars => RateBound'
<1>1. SUFFICES ASSUME Inv, RateBound, [Next]_vars PROVE RateBound'
  OBVIOUS
<1>2. CASE Tick
  <2>1. CASE now < Horizon
    BY <1>1, <1>2, <2>1, WindowsKept DEF Tick, Launched
  <2>2. CASE ~(now < Horizon)
    <3>1. at' = [j \in Jobs |-> Older(at[j])] /\ UNCHANGED pc
      BY <1>2, <2>2 DEF Tick
    <3>2. SUFFICES ASSUME NEW t \in 1 - Window .. Horizon
                   PROVE  Cardinality(LaunchedIn(t)') <= Max
      BY DEF RateBound
    <3>3. ASSUME NEW j \in LaunchedIn(t)'
          PROVE  j \in Jobs /\ Launched(j) /\ t + 1 <= at[j] /\ at[j] < t + 1 + Window
      <4>1. j \in Jobs /\ Launched(j) /\ t <= at'[j] /\ at'[j] < t + Window
        BY <3>1, <3>3 DEF LaunchedIn, Launched
      <4>2. at[j] \in -Window .. Horizon /\ at'[j] = Older(at[j])
        BY <1>1, <3>1, <4>1 DEF Inv, TypeOK
      <4>3. at'[j] = at[j] - 1
        BY <4>1, <4>2, OlderType
      <4>4. QED
        BY <4>1, <4>2, <4>3
    <3>4. CASE t = Horizon
      <4>1. LaunchedIn(t)' = {}
        BY <1>1, <3>3, <3>4 DEF Inv, TypeOK
      <4>2. QED
        BY <4>1, FS_EmptySet
    <3>5. CASE t # Horizon
      <4>1. t + 1 \in 1 - Window .. Horizon
        BY <3>5
      <4>2. LaunchedIn(t)' \subseteq LaunchedIn(t + 1) /\ LaunchedIn(t + 1) \subseteq Jobs
        BY <3>3 DEF LaunchedIn
      <4>3. Cardinality(LaunchedIn(t + 1)) <= Max
        BY <1>1, <4>1 DEF RateBound
      <4>4. QED
        BY <4>2, <4>3, SmallerSet
    <3>6. QED
      BY <3>4, <3>5
  <2>3. QED
    BY <2>1, <2>2
<1>3. CASE Take \/ Pace
  BY <1>1, <1>3, WindowsKept DEF Take, Pace, Launched
<1>4. ASSUME NEW j \in Jobs, Dispatch(j) PROVE RateBound'
  <2>1. SUFFICES ASSUME NEW t \in 1 - Window .. Horizon
                 PROVE  Cardinality(LaunchedIn(t)') <= Max
    BY DEF RateBound
  <2>2. /\ at'[j] = now
        /\ \A i \in Jobs : i # j => at'[i] = at[i] /\ Launched(i)' = Launched(i)
    BY <1>1, <1>4 DEF Dispatch, Goto, Inv, TypeOK, Launched
  <2>3. kept \cup {j} \subseteq Jobs /\ Cardinality(kept \cup {j}) <= Max
    <3>1. kept \subseteq Jobs /\ IsFiniteSet(kept) /\ Cardinality(kept) \in Nat
      BY <1>1, SmallerSet DEF Inv, TypeOK
    <3>2. Cardinality(kept) < Max
      BY <1>4, <3>1 DEF Dispatch, Full
    <3>3. Cardinality(kept \cup {j}) \in {Cardinality(kept), Cardinality(kept) + 1}
      BY <3>1, FS_AddElement
    <3>4. QED
      BY <3>1, <3>2, <3>3
  <2>4. CASE t <= now /\ now < t + Window
    <3>1. ASSUME NEW i \in LaunchedIn(t)' PROVE i \in kept \cup {j}
      <4>1. CASE i # j
        <5>1. i \in Jobs /\ Launched(i) /\ t <= at[i]
          BY <2>2, <3>1, <4>1 DEF LaunchedIn
        <5>2. now - at[i] < Window
          BY <1>1, <2>4, <5>1 DEF Inv, TypeOK
        <5>3. QED
          BY <1>1, <5>1, <5>2 DEF Inv, KeptInv
      <4>2. QED
        BY <4>1
    <3>2. QED
      BY <2>3, <3>1, SmallerSet
  <2>5. CASE ~(t <= now /\ now < t + Window)
    <3>1. LaunchedIn(t)' \subseteq LaunchedIn(t) /\ LaunchedIn(t) \subseteq Jobs
      BY <2>2, <2>5 DEF LaunchedIn
    <3>2. Cardinality(LaunchedIn(t)) <= Max
      BY <1>1 DEF RateBound
    <3>3. QED
      BY <3>1, <3>2, SmallerSet
  <2>6. QED
    BY <2>4, <2>5
<1>5. ASSUME NEW j \in Jobs, Caller(j) PROVE RateBound'
  BY <1>1, <1>5, CallerStep, WindowsKept
<1>6. CASE UNCHANGED vars
  BY <1>1, <1>6, WindowsKept DEF vars, Launched
<1>7. QED
  BY <1>1, <1>2, <1>3, <1>4, <1>5, <1>6 DEF Next, Worker

\* At most maxPerSecond jobs are launched in any second, for any number of
\* callers, whatever the worker's clock readings and however long it was
\* delayed between pruning and launching.
THEOREM RateCorrect == Spec => []RateBound
<1>1. Init => RateBound
  <2>1. SUFFICES ASSUME Init, NEW t \in 1 - Window .. Horizon
                 PROVE  Cardinality(LaunchedIn(t)) <= Max
    BY DEF RateBound
  <2>2. LaunchedIn(t) = {}
    BY <2>1 DEF Init, LaunchedIn, Launched, Dispatched
  <2>3. QED
    BY <2>2, FS_EmptySet
<1>2. QED
  BY <1>1, InvInit, InvNext, RateNext, PTL DEF Spec

(***************************************************************************)
(* The order of the launches.                                              *)
(***************************************************************************)

\* How many jobs have left the channel.
Left == Len(arrived) - Len(queue)

\* The channel holds the jobs that arrived last, every job arrived once, and those
\* still in the channel have not been launched.
ChannelInv ==
    /\ Left >= 0
    /\ \A i \in 1 .. Len(queue) : queue[i] = arrived[Left + i]
    /\ \A m, n \in 1 .. Len(arrived) : arrived[m] = arrived[n] => m = n
    /\ \A i \in 1 .. Len(arrived) : pc[arrived[i]] \notin {"idle", "sending"}
    /\ \A i \in Left + 1 .. Len(arrived) : pc[arrived[i]] = "queued"

\* The worker holds the job that left last, if any; the others were launched.
WorkerInv ==
    /\ held = {} \/ (Left >= 1 /\ held = {arrived[Left]} /\ pc[arrived[Left]] = "queued")
    /\ \A i \in 1 .. Left : Launched(arrived[i]) \/ arrived[i] \in held
    /\ \A j \in Jobs : Launched(j) => \E i \in 1 .. Left : arrived[i] = j

\* Jobs that left earlier were launched earlier.
OrderInv ==
    \A m, n \in 1 .. Left :
        m < n /\ Launched(arrived[n]) => Launched(arrived[m]) /\ at[arrived[m]] <= at[arrived[n]]

QueueInv == ChannelInv /\ WorkerInv /\ OrderInv

\* Steps that leave the channel, the worker and the set of launched jobs alone, and
\* keep the order of the times.
LEMMA QueueKept ==
    ASSUME Inv, QueueInv, UNCHANGED <<queue, arrived, held>>,
           \A j \in Jobs : Launched(j)' = Launched(j),
           \A j \in Jobs : pc[j] = "queued" => pc'[j] = "queued",
           \A j \in Jobs : pc[j] \notin {"idle", "sending"} => pc'[j] \notin {"idle", "sending"},
           \A i, j \in Jobs : at[i] <= at[j] => at'[i] <= at'[j]
    PROVE  QueueInv'
<1>1. arrived \in Seq(Jobs) /\ queue \in Seq(Jobs) /\ Left \in Int /\ Left' = Left
  BY DEF Inv, TypeOK, Left
<1>2. \A i \in 1 .. Len(arrived) : arrived[i] \in Jobs
  BY <1>1
<1>3. \A i \in 1 .. Left : i \in 1 .. Len(arrived)
  BY <1>1 DEF Left
<1>4. \A i \in Left + 1 .. Len(arrived) : Left >= 0 => i \in 1 .. Len(arrived)
  BY <1>1
<1>5. ChannelInv'
  BY <1>1, <1>2, <1>4 DEF QueueInv, ChannelInv
<1>6. WorkerInv'
  <2>1. held = {} \/ (Left >= 1 /\ held = {arrived[Left]} /\ pc'[arrived[Left]] = "queued")
    BY <1>1, <1>2, <1>3 DEF QueueInv, WorkerInv
  <2>2. QED
    BY <1>1, <1>2, <1>3, <2>1 DEF QueueInv, WorkerInv
<1>7. OrderInv'
  BY <1>1, <1>2, <1>3 DEF QueueInv, OrderInv
<1>8. QED
  BY <1>5, <1>6, <1>7 DEF QueueInv

\* A job arrives: it is the last one and has not been there before.
LEMMA SendQueue ==
    ASSUME Inv, QueueInv, NEW j \in Jobs, Send(j)
    PROVE  QueueInv'
<1>1. arrived \in Seq(Jobs) /\ queue \in Seq(Jobs) /\ pc \in [Jobs -> Waiting \cup Dispatched]
  BY DEF Inv, TypeOK
<1>2. /\ Len(arrived') = Len(arrived) + 1 /\ arrived'[Len(arrived) + 1] = j
      /\ \A i \in 1 .. Len(arrived) : arrived'[i] = arrived[i] /\ arrived[i] \in Jobs
  BY <1>1 DEF Send
<1>3. /\ Len(queue') = Len(queue) + 1 /\ queue'[Len(queue) + 1] = j
      /\ \A i \in 1 .. Len(queue) : queue'[i] = queue[i]
  BY <1>1 DEF Send
<1>4. Len(arrived) \in Nat /\ Len(queue) \in Nat /\ Left' = Left /\ Left \in Nat
  BY <1>1, <1>2, <1>3 DEF Left, QueueInv, ChannelInv
<1>5. /\ pc[j] = "sending" /\ pc'[j] = "queued" /\ \A i \in Jobs : i # j => pc'[i] = pc[i]
      /\ UNCHANGED <<held, at>>
      /\ \A i \in Jobs : Launched(i)' = Launched(i)
  BY <1>1 DEF Send, Goto, Launched, Waiting, Dispatched
<1>6. \A i \in 1 .. Len(arrived) : arrived[i] # j /\ pc'[arrived[i]] = pc[arrived[i]]
  BY <1>2, <1>5 DEF QueueInv, ChannelInv
<1>7. ChannelInv'
  <2>1. \A i \in 1 .. Len(queue') : queue'[i] = arrived'[Left + i]
    <3>1. SUFFICES ASSUME NEW i \in 1 .. Len(queue) + 1 PROVE queue'[i] = arrived'[Left + i]
      BY <1>3
    <3>2. CASE i = Len(queue) + 1
      BY <1>2, <1>3, <1>4, <3>2 DEF Left
    <3>3. CASE i \in 1 .. Len(queue)
      <4>1. Left + i \in 1 .. Len(arrived)
        BY <1>4, <3>3 DEF Left
      <4>2. QED
        BY <1>2, <1>3, <3>3, <4>1 DEF QueueInv, ChannelInv
    <3>4. QED
      BY <1>4, <3>2, <3>3
  <2>2. \A m, n \in 1 .. Len(arrived') : arrived'[m] = arrived'[n] => m = n
    BY <1>2, <1>4, <1>6 DEF QueueInv, ChannelInv
  <2>3. \A i \in 1 .. Len(arrived') : pc'[arrived'[i]] \notin {"idle", "sending"}
    BY <1>2, <1>4, <1>5, <1>6 DEF QueueInv, ChannelInv
  <2>4. \A i \in Left + 1 .. Len(arrived') : pc'[arrived'[i]] = "queued"
    BY <1>2, <1>4, <1>5, <1>6 DEF QueueInv, ChannelInv
  <2>5. QED
    BY <1>4, <2>1, <2>2, <2>3, <2>4 DEF ChannelInv
<1>8. \A i \in 1 .. Left : i \in 1 .. Len(arrived) /\ arrived'[i] = arrived[i] /\ arrived[i] \in Jobs
  BY <1>2, <1>4 DEF Left
<1>9. WorkerInv'
  <2>1. held = {} \/ (Left >= 1 /\ held = {arrived[Left]} /\ pc'[arrived'[Left]] = "queued")
    BY <1>4, <1>6, <1>8 DEF QueueInv, WorkerInv
  <2>2. QED
    BY <1>4, <1>5, <1>8, <2>1 DEF QueueInv, WorkerInv
<1>10. OrderInv'
  BY <1>4, <1>5, <1>8 DEF QueueInv, OrderInv
<1>11. QED
  BY <1>7, <1>9, <1>10 DEF QueueInv

\* The worker takes the job at the head.
LEMMA TakeQueue ==
    ASSUME Inv, QueueInv, Take
    PROVE  QueueInv'
<1>1. arrived \in Seq(Jobs) /\ queue \in Seq(Jobs) /\ queue # << >> /\ held = {}
  BY DEF Inv, TypeOK, Take
<1>2. /\ Len(arrived) \in Nat /\ Len(queue) \in Nat /\ Len(queue) >= 1
      /\ Len(queue') = Len(queue) - 1 /\ \A i \in 1 .. Len(queue') : queue'[i] = queue[i + 1]
      /\ held' = {queue[1]}
      /\ UNCHANGED <<arrived, at, pc>>
  BY <1>1 DEF Take
<1>3. Left \in Nat /\ Left' = Left + 1 /\ Left + 1 \in 1 .. Len(arrived)
  BY <1>2 DEF Left, QueueInv, ChannelInv
<1>4. \A i \in 1 .. Len(arrived) : arrived[i] \in Jobs
  BY <1>1
<1>5. queue[1] = arrived[Left + 1] /\ pc[arrived[Left + 1]] = "queued" /\ ~Launched(arrived[Left + 1])
  BY <1>2, <1>3 DEF QueueInv, ChannelInv, Launched, Dispatched
<1>6. \A j \in Jobs : Launched(j)' = Launched(j)
  BY <1>2 DEF Launched
<1>7. ChannelInv'
  <2>1. \A i \in 1 .. Len(queue') : queue'[i] = arrived[Left' + i]
    <3>1. SUFFICES ASSUME NEW i \in 1 .. Len(queue) - 1 PROVE queue'[i] = arrived[Left' + i]
      BY <1>2
    <3>2. queue'[i] = queue[i + 1] /\ i + 1 \in 1 .. Len(queue)
      BY <1>2
    <3>3. queue[i + 1] = arrived[Left + (i + 1)]
      BY <3>2 DEF QueueInv, ChannelInv
    <3>4. Left + (i + 1) = Left' + i
      BY <1>3
    <3>5. QED
      BY <3>2, <3>3, <3>4
  <2>2. QED
    BY <1>2, <1>3, <2>1 DEF QueueInv, ChannelInv
<1>8. WorkerInv'
  <2>1. \A i \in 1 .. Left' : i \in 1 .. Left \/ i = Left + 1
    BY <1>3
  <2>2. \A i \in 1 .. Left' : arrived[i] \in Jobs
    BY <1>3, <1>4
  <2>3. \A i \in 1 .. Left : i \in 1 .. Left' /\ Launched(arrived[i])
    BY <1>1, <1>3 DEF QueueInv, WorkerInv
  <2>4. QED
    BY <1>2, <1>3, <1>5, <1>6, <2>1, <2>2, <2>3 DEF QueueInv, WorkerInv
<1>9. OrderInv'
  <2>1. SUFFICES ASSUME NEW m \in 1 .. Left + 1, NEW n \in 1 .. Left + 1, m < n, Launched(arrived[n])
                 PROVE  Launched(arrived[m]) /\ at[arrived[m]] <= at[arrived[n]]
    BY <1>2, <1>3 DEF OrderInv, Launched
  <2>2. m \in 1 .. Left /\ n \in 1 .. Left
    BY <1>3, <1>5, <2>1
  <2>3. QED
    BY <2>1, <2>2 DEF QueueInv, OrderInv
<1>10. QED
  BY <1>7, <1>8, <1>9 DEF QueueInv

\* The worker launches the job it holds, later than every job before.
LEMMA DispatchQueue ==
    ASSUME Inv, QueueInv, NEW j \in Jobs, Dispatch(j)
    PROVE  QueueInv'
<1>1. /\ arrived \in Seq(Jobs) /\ queue \in Seq(Jobs) /\ now \in Int
      /\ at \in [Jobs -> -Window .. Horizon] /\ pc \in [Jobs -> Waiting \cup Dispatched]
  BY DEF Inv, TypeOK
<1>2. /\ held = {j} /\ Left >= 1 /\ j = arrived[Left] /\ pc[j] = "queued"
  BY DEF Dispatch, QueueInv, WorkerInv
<1>3. /\ held' = {} /\ pc'[j] = "launched" /\ at'[j] = now
      /\ \A i \in Jobs : i # j => pc'[i] = pc[i] /\ at'[i] = at[i]
      /\ UNCHANGED <<queue, arrived>>
  BY <1>1 DEF Dispatch, Goto
<1>4. /\ Left' = Left /\ Left \in Int /\ Len(arrived) \in Nat /\ Left <= Len(arrived)
      /\ \A i \in 1 .. Len(arrived) : arrived[i] \in Jobs
  BY <1>1, <1>3 DEF Left
<1>5. Launched(j)' /\ ~Launched(j) /\ \A i \in Jobs : i # j => Launched(i)' = Launched(i)
  BY <1>2, <1>3 DEF Launched, Dispatched
<1>6. \A i \in 1 .. Len(arrived) : i # Left => arrived[i] # j
  BY <1>2, <1>4 DEF QueueInv, ChannelInv
<1>7. ChannelInv'
  <2>1. \A i \in 1 .. Len(arrived) : pc'[arrived[i]] \notin {"idle", "sending"}
    BY <1>3, <1>4 DEF QueueInv, ChannelInv
  <2>2. \A i \in Left + 1 .. Len(arrived) : pc'[arrived[i]] = "queued"
    BY <1>2, <1>3, <1>4, <1>6 DEF QueueInv, ChannelInv
  <2>3. QED
    BY <1>3, <1>4, <2>1, <2>2 DEF QueueInv, ChannelInv
<1>8. \A i \in 1 .. Left : i \in 1 .. Len(arrived) /\ Launched(arrived[i])'
  BY <1>2, <1>3, <1>4, <1>5 DEF QueueInv, WorkerInv
<1>9. WorkerInv'
  <2>1. \A i \in Jobs : Launched(i)' => \E n \in 1 .. Left : arrived[n] = i
    BY <1>2, <1>4, <1>5 DEF QueueInv, WorkerInv
  <2>2. QED
    BY <1>3, <1>4, <1>8, <2>1 DEF WorkerInv, Launched
<1>10. OrderInv'
  <2>1. SUFFICES ASSUME NEW m \in 1 .. Left, NEW n \in 1 .. Left, m < n
                 PROVE  at'[arrived[m]] <= at'[arrived[n]]
    BY <1>3, <1>4, <1>8 DEF OrderInv, Launched
  <2>2. arrived[m] \in Jobs /\ arrived[m] # j /\ Launched(arrived[m]) /\ at'[arrived[m]] = at[arrived[m]]
    BY <1>3, <1>4, <1>5, <1>6, <1>8, <2>1
  <2>3. CASE n = Left
    BY <1>2, <1>3, <2>2, <2>3 DEF Inv, KeptInv
  <2>4. CASE n # Left
    <3>1. arrived[n] \in Jobs /\ arrived[n] # j /\ Launched(arrived[n]) /\ at'[arrived[n]] = at[arrived[n]]
      BY <1>3, <1>4, <1>5, <1>6, <1>8, <2>4
    <3>2. QED
      BY <2>1, <2>2, <3>1 DEF QueueInv, OrderInv
  <2>5. QED
    BY <2>3, <2>4
<1>11. QED
  BY <1>7, <1>9, <1>10 DEF QueueInv

\* Every step keeps the channel and the order.
LEMMA QueueNext == Inv /\ QueueInv /\ [Next]_vars => QueueInv'
<1>1. SUFFICES ASSUME Inv, QueueInv, [Next]_vars PROVE QueueInv'
  OBVIOUS
<1>2. /\ at \in [Jobs -> -Window .. Horizon] /\ pc \in [Jobs -> Waiting \cup Dispatched]
  BY <1>1 DEF Inv, TypeOK
<1>3. CASE Tick
  <2>1. UNCHANGED <<queue, arrived, held, pc>>
    BY <1>3 DEF Tick
  <2>2. \A i, j \in Jobs : at[i] <= at[j] => at'[i] <= at'[j]
    <3>1. SUFFICES ASSUME NEW i \in Jobs, NEW j \in Jobs, at[i] <= at[j] PROVE at'[i] <= at'[j]
      OBVIOUS
    <3>2. at[i] \in -Window .. Horizon /\ at[j] \in -Window .. Horizon
      BY <1>2
    <3>3. Older(at[i]) <= Older(at[j])
      BY <3>1, <3>2 DEF Older
    <3>4. QED
      BY <1>3, <3>1, <3>3 DEF Tick
  <2>3. QED
    BY <1>1, <2>1, <2>2, QueueKept DEF Launched
<1>4. CASE Take
  BY <1>1, <1>4, TakeQueue
<1>5. CASE Pace
  BY <1>1, <1>5, QueueKept DEF Pace, Launched
<1>6. ASSUME NEW j \in Jobs, Dispatch(j) PROVE QueueInv'
  BY <1>1, <1>6, DispatchQueue
<1>7. ASSUME NEW j \in Jobs, Caller(j) PROVE QueueInv'
  <2>1. CASE Send(j)
    BY <1>1, <2>1, SendQueue
  <2>2. CASE Call(j) \/ Begin(j) \/ Finish(j) \/ Receive(j)
    <3>1. UNCHANGED <<queue, arrived, held, at>>
      BY <2>2 DEF Call, Begin, Finish, Receive
    <3>2. /\ \A i \in Jobs : Launched(i)' = Launched(i)
          /\ \A i \in Jobs : pc[i] = "queued" => pc'[i] = "queued"
          /\ \A i \in Jobs : pc[i] \notin {"idle", "sending"} => pc'[i] \notin {"idle", "sending"}
      BY <1>2, <2>2 DEF Call, Begin, Finish, Receive, Goto, Launched, Dispatched
    <3>3. QED
      BY <1>1, <3>1, <3>2, QueueKept
  <2>3. QED
    BY <1>7, <2>1, <2>2 DEF Caller
<1>8. CASE UNCHANGED vars
  BY <1>1, <1>8, QueueKept DEF vars, Launched
<1>9. QED
  BY <1>1, <1>3, <1>4, <1>5, <1>6, <1>7, <1>8 DEF Next, Worker

\* Jobs are launched in the order in which they arrived, each once and none lost,
\* for any number of callers, any rate, any capacity of the channel and any clock.
THEOREM LaunchOrderCorrect == Spec => []LaunchOrder
<1>1. Init => QueueInv
  BY DEF Init, QueueInv, ChannelInv, WorkerInv, OrderInv, Left, Launched, Dispatched
<1>2. Inv /\ QueueInv => LaunchOrder
  <2>1. SUFFICES ASSUME Inv, QueueInv PROVE LaunchOrder
    OBVIOUS
  <2>2. /\ arrived \in Seq(Jobs) /\ queue \in Seq(Jobs) /\ Left \in Nat /\ Left <= Len(arrived)
        /\ \A i \in 1 .. Len(arrived) : arrived[i] \in Jobs
    BY <2>1 DEF Inv, TypeOK, QueueInv, ChannelInv, Left
  <2>3. queue = SubSeq(arrived, Left + 1, Len(arrived))
    <3> DEFINE rest == SubSeq(arrived, Left + 1, Len(arrived))
    <3>1. rest \in Seq(Jobs) /\ Len(rest) = Len(queue)
      BY <2>2 DEF Left
    <3>2. \A i \in 1 .. Len(queue) : rest[i] = arrived[Left + i]
      BY <2>2 DEF Left
    <3>3. \A i \in 1 .. Len(queue) : queue[i] = rest[i]
      BY <2>1, <3>2 DEF QueueInv, ChannelInv
    <3> HIDE DEF rest
    <3>4. queue = rest
      BY <2>2, <3>1, <3>3
    <3>5. QED
      BY <3>4 DEF rest
  <2>4. {arrived[i] : i \in 1 .. Left} = {j \in Jobs : Launched(j)} \cup held
    <3>1. \A i \in 1 .. Left : i \in 1 .. Len(arrived)
      BY <2>2
    <3>2. \A i \in 1 .. Left : arrived[i] \in {j \in Jobs : Launched(j)} \cup held
      BY <2>1, <2>2, <3>1 DEF QueueInv, WorkerInv
    <3>3. \A j \in {i \in Jobs : Launched(i)} \cup held : \E i \in 1 .. Left : arrived[i] = j
      BY <2>1, <2>2 DEF QueueInv, WorkerInv
    <3>4. QED
      BY <3>2, <3>3
  <2>5. QED
    BY <2>1, <2>3, <2>4 DEF LaunchOrder, QueueInv, OrderInv, Left
<1>3. QED
  BY <1>1, <1>2, InvInit, InvNext, QueueNext, PTL DEF Spec
=============================================================================
