----------------------- MODULE SocketLifecycleProofs -----------------------
(***************************************************************************)
(* SocketLifecycle for any number of Connect, Close and send calls: types, *)
(* no nil connection, and the implementation of SocketSpec, from which the *)
(* bound on OnDisconnect calls follows.                                    *)
(***************************************************************************)
EXTENDS SocketLifecycle, FiniteSetTheorems, TLAPS

USE MaxConnsAssumption, FlagsAssumption, ThreadsAssumption

Holding == {"publish", "store"}
LoopsIdle(k) == pc[<<"reader", k>>] = "idle" /\ pc[<<"heart", k>>] = "idle"

\* A connection belongs to the one Connect call that dialled it until its loops
\* start, and they start once.
FreshInv ==
    /\ \A k \in Conns : k > dialled => LoopsIdle(k)
    /\ \A t \in Connectors : pc[t] \in Holding => on[t] \in 1 .. dialled /\ LoopsIdle(on[t])
    /\ \A t, u \in Connectors :
          pc[t] \in Holding /\ pc[u] \in Holding /\ on[t] = on[u] => t = u

\* A Close that goes on past its reads has read a connection.
GrabInv == \A t \in Threads : pc[t] = "closing" => on[t] # 0

Inv == TypeOK /\ FreshInv /\ GrabInv

\* Threads of different sorts are different.
LEMMA Sorts ==
    /\ \A t \in Connectors : t \in Threads /\ t \notin Loops /\ t \notin Closers /\ t \notin Senders
    /\ \A t \in Closers : t \in Threads /\ t \notin Loops /\ t \notin Connectors
    /\ \A t \in Senders : t \in Threads /\ t \notin Loops /\ t \notin Connectors
    /\ \A t \in Readers \cup Hearts : t \in Loops /\ t \in Threads /\ t \notin Connectors
    /\ \A t \in Loops : t \in Threads /\ t \notin Connectors /\ ConnOf(t) \in Conns
    /\ \A k \in Conns : <<"reader", k>> \in Loops /\ <<"heart", k>> \in Loops
    /\ \A t \in Loops : t = <<"reader", ConnOf(t)>> \/ t = <<"heart", ConnOf(t)>>
BY DEF Threads, Loops, Readers, Hearts, ConnOf

\* What a step that neither dials nor starts loops does to the program counters
\* and to the connections held.
Simple(t) ==
    /\ \E l \in Labels : /\ Goto(t, l)
                         /\ l \in Holding => pc[t] \in Holding
                         /\ l = "closing" => on'[t] # 0
    /\ pc[t] = "idle" => t \notin Loops
    /\ dialled' = dialled
    /\ \/ on' = on
       \/ t \notin Connectors /\ on' = [on EXCEPT ![t] = cur]

\* Every step of a thread is of that kind, except Dial and Store.
LEMMA StepShape ==
    ASSUME TypeOK, NEW t \in Threads, Step(t)
    PROVE  \/ t \in Connectors /\ Dial(t)
           \/ t \in Connectors /\ Store(t)
           \/ Simple(t)
<1> USE DEF Simple, Holding, Labels
<1>1. CASE t \in Connectors /\ Connect(t)
  BY <1>1, Sorts DEF Connect, CheckOpen, DialFails, Publish
<1>2. CASE t \in Closers /\ Close(t)
  BY <1>2, Sorts DEF Close, CloseFlag, CloseGrab, CloseDone, Shut, Goto, TypeOK
<1>3. ASSUME t \in Senders \cup Hearts, NEW label \in {"idle", "send"}, Send(t, label),
             label = "idle" => t \notin Loops
      PROVE  Simple(t)
  BY <1>3, Sorts DEF Send, SendCheck, Lock, WriteOk, WriteFails, Answered, GiveUp, SendFailed, SendOk
<1>4. ASSUME MarkDisconnected(t), t \in Loops PROVE Simple(t)
  BY <1>4, Sorts DEF MarkDisconnected, Mark, Swap, Report, Notify, AfterMark
<1>5. CASE t \in Readers /\ ReadLoop(t)
  <2>1. CASE ReadFails(t) \/ ReadEvent(t) \/ Offered(t) \/ ReaderSeesDone(t)
    BY <1>5, <2>1, Sorts DEF ReadFails, ReadEvent, Offered, ReaderSeesDone
  <2>2. QED
    BY <1>4, <1>5, <2>1, Sorts DEF ReadLoop
<1>6. CASE t \in Hearts /\ HeartbeatLoop(t)
  <2>1. CASE HeartSeesDone(t) \/ HeartWakes(t) \/ HeartChecks(t) \/ HeartFailed(t) \/ Shut(t, ConnOf(t))
    BY <1>6, <2>1, Sorts DEF HeartSeesDone, HeartWakes, HeartChecks, HeartFailed, Shut
  <2>2. QED
    BY <1>3, <1>4, <1>6, <2>1, Sorts DEF HeartbeatLoop
<1>7. QED
  BY <1>1, <1>2, <1>3, <1>5, <1>6, Sorts DEF Step

(***************************************************************************)
(* Types and fresh connections.                                            *)
(***************************************************************************)

\* The initial state.
LEMMA InvInit == Init => Inv
<1>1. SUFFICES ASSUME Init PROVE Inv
  OBVIOUS
<1>2. connected \in BOOLEAN
  BY <1>1, Zenon DEF Init
<1>3. /\ pc \in [Threads -> Labels] /\ on \in [Threads -> 0 .. MaxConns]
      /\ wire \in [Conns -> {"none", "up", "lost", "stuck", "shut"}]
      /\ mu \in Threads \cup {Nobody}
  BY <1>1 DEF Init, Labels
<1>4. TypeOK
  BY <1>1, <1>2, <1>3 DEF Init, TypeOK
<1>5. \A t \in Threads : pc[t] = "idle"
  BY <1>1 DEF Init
<1>6. FreshInv
  BY <1>5, Sorts DEF FreshInv, LoopsIdle, Holding
<1>7. QED
  BY <1>4, <1>5, <1>6 DEF Inv, GrabInv

\* The variables a step leaves in their types, other than pc and on.
Rest ==
    /\ connected \in BOOLEAN
    /\ cur \in 0 .. MaxConns
    /\ closed \subseteq Conns
    /\ wire \in [Conns -> {"none", "up", "lost", "stuck", "shut"}]
    /\ dialled \in 0 .. MaxConns
    /\ mu \in Threads \cup {Nobody}
    /\ opens \in Nat
    /\ notices \in Nat

\* A step of a thread keeps them in their types.
LEMMA RestStep ==
    ASSUME Inv, NEW t \in Threads, Step(t)
    PROVE  Rest'
<1> USE DEF Inv, TypeOK, Rest
<1>1. on[t] \in 0 .. MaxConns /\ (on[t] # 0 => on[t] \in Conns)
  BY DEF Conns
<1>2. \A k : [wire EXCEPT ![k] = "shut"] \in [Conns -> {"none", "up", "lost", "stuck", "shut"}]
  OBVIOUS
<1>3. CASE t \in Connectors /\ Connect(t)
  <2>1. CASE Dial(t)
    <3>1. dialled' \in 0 .. MaxConns
      BY <2>1 DEF Dial
    <3>2. wire' \in [Conns -> {"none", "up", "lost", "stuck", "shut"}]
      BY <2>1 DEF Dial
    <3>3. QED
      BY <2>1, <3>1, <3>2 DEF Dial
  <2>2. CASE Store(t)
    BY <2>2 DEF Store
  <2>3. CASE CheckOpen(t) \/ DialFails(t)
    BY <2>3 DEF CheckOpen, DialFails
  <2>4. CASE Publish(t)
    BY <1>1, <2>4 DEF Publish
  <2>5. QED
    BY <1>3, <2>1, <2>2, <2>3, <2>4 DEF Connect
<1>4. CASE t \in Closers /\ Close(t)
  <2>1. CASE CloseFlag(t)
    BY <2>1 DEF CloseFlag
  <2>2. CASE CloseGrab(t)
    BY <2>2 DEF CloseGrab
  <2>3. CASE CloseDone(t)
    BY <1>1, <2>3 DEF CloseDone, GrabInv
  <2>4. CASE Shut(t, on[t])
    BY <1>2, <2>4 DEF Shut
  <2>5. QED
    BY <1>4, <2>1, <2>2, <2>3, <2>4 DEF Close
<1>5. ASSUME NEW label, Send(t, label) PROVE Rest'
  BY <1>5 DEF Send, SendCheck, Lock, WriteOk, WriteFails, Answered, GiveUp
<1>6. ASSUME t \in Loops, MarkDisconnected(t) PROVE Rest'
  <2>1. CASE Mark(t)
    BY <2>1 DEF Mark
  <2>2. CASE Swap(t)
    BY <2>2 DEF Swap
  <2>3. CASE Report(t)
    BY <1>6, <2>3, Sorts DEF Report
  <2>4. CASE Notify(t)
    BY <2>4 DEF Notify
  <2>5. QED
    BY <1>6, <2>1, <2>2, <2>3, <2>4 DEF MarkDisconnected
<1>7. CASE t \in Readers /\ ReadLoop(t)
  <2>1. CASE ReadFails(t) \/ ReadEvent(t) \/ Offered(t) \/ ReaderSeesDone(t)
    BY <2>1 DEF ReadFails, ReadEvent, Offered, ReaderSeesDone
  <2>2. QED
    BY <1>6, <1>7, <2>1, Sorts DEF ReadLoop
<1>8. CASE t \in Hearts /\ HeartbeatLoop(t)
  <2>1. CASE HeartSeesDone(t) \/ HeartWakes(t) \/ HeartChecks(t) \/ HeartFailed(t)
    BY <2>1 DEF HeartSeesDone, HeartWakes, HeartChecks, HeartFailed
  <2>2. CASE Shut(t, ConnOf(t))
    BY <1>2, <2>2 DEF Shut
  <2>3. QED
    BY <1>5, <1>6, <1>8, <2>1, <2>2, Sorts DEF HeartbeatLoop
<1>9. QED
  BY <1>3, <1>4, <1>5, <1>7, <1>8 DEF Step

\* Every step of every thread and of the network.
LEMMA InvNext == Inv /\ [Next]_vars => Inv'
<1>1. SUFFICES ASSUME Inv, [Next]_vars PROVE Inv'
  OBVIOUS
<1>2. /\ pc \in [Threads -> Labels] /\ on \in [Threads -> 0 .. MaxConns]
      /\ dialled \in 0 .. MaxConns /\ cur \in 0 .. MaxConns
  BY <1>1 DEF Inv, TypeOK
<1>3. ASSUME NEW t \in Threads, Step(t) PROVE Inv'
  <2>1. Rest'
    BY <1>1, <1>3, RestStep
  <2>2. CASE t \in Connectors /\ Dial(t)
    <3>1. dialled + 1 \in Conns /\ dialled' = dialled + 1
      BY <1>2, <2>2 DEF Dial, Conns
    <3>2. /\ pc' = [pc EXCEPT ![t] = "publish"] /\ on' = [on EXCEPT ![t] = dialled + 1]
      BY <2>2 DEF Dial, Goto
    <3>3. pc' \in [Threads -> Labels] /\ on' \in [Threads -> 0 .. MaxConns]
      BY <1>2, <3>1, <3>2 DEF Labels, Conns
    <3>4. \A u \in Threads : u # t => pc'[u] = pc[u] /\ on'[u] = on[u]
      BY <1>2, <3>2
    <3>5. pc'[t] = "publish" /\ on'[t] = dialled + 1
      BY <1>2, <3>2
    <3>6. \A k \in Conns : LoopsIdle(k)' = LoopsIdle(k)
      BY <2>2, <3>4, Sorts DEF LoopsIdle
    <3>7. \A u \in Connectors : u # t /\ pc'[u] \in Holding => on'[u] \in 1 .. dialled
      BY <1>1, <3>4, Sorts DEF Inv, FreshInv
    <3>8. FreshInv'
      <4>1. \A k \in Conns : k > dialled' => LoopsIdle(k)'
        BY <1>1, <1>2, <3>1, <3>6 DEF Inv, FreshInv, Conns
      <4>2. ASSUME NEW u \in Connectors, pc'[u] \in Holding
            PROVE  on'[u] \in 1 .. dialled' /\ LoopsIdle(on[u])'
        <5>1. CASE u = t
          BY <1>1, <1>2, <3>1, <3>5, <3>6, <5>1 DEF Inv, FreshInv, Conns
        <5>2. CASE u # t
          <6>1. on'[u] = on[u] /\ on[u] \in 1 .. dialled /\ LoopsIdle(on[u])
            BY <1>1, <3>4, <4>2, <5>2, Sorts DEF Inv, FreshInv
          <6>2. on[u] \in Conns
            BY <1>2, <6>1 DEF Conns
          <6>3. QED
            BY <1>2, <3>1, <3>4, <3>6, <6>1, <6>2, Sorts DEF LoopsIdle
        <5>3. QED
          BY <5>1, <5>2
      <4>3. \A u, v \in Connectors :
              pc'[u] \in Holding /\ pc'[v] \in Holding /\ on'[u] = on'[v] => u = v
        <5>1. ASSUME NEW u \in Connectors, NEW v \in Connectors, u # t, v # t,
                     pc'[u] \in Holding, pc'[v] \in Holding, on'[u] = on'[v]
              PROVE  u = v
          BY <1>1, <3>4, <5>1, Sorts DEF Inv, FreshInv
        <5>2. ASSUME NEW u \in Connectors, u # t, pc'[u] \in Holding
              PROVE  on'[u] # on'[t]
          BY <1>2, <3>5, <3>7, <5>2
        <5>3. QED
          BY <5>1, <5>2
      <4>4. QED
        BY <4>1, <4>2, <4>3 DEF FreshInv
    <3>9. GrabInv'
      BY <1>1, <3>4, <3>5 DEF Inv, GrabInv
    <3>10. QED
      BY <2>1, <3>3, <3>8, <3>9 DEF Inv, TypeOK, Rest
  <2>3. CASE t \in Connectors /\ Store(t)
    <3>1. /\ pc' = [pc EXCEPT ![t] = "ended", ![<<"reader", on[t]>>] = "read",
                              ![<<"heart", on[t]>>] = "sleep"]
          /\ on' = on /\ dialled' = dialled /\ pc[t] = "store"
      BY <2>3 DEF Store
    <3>2. on[t] \in 1 .. dialled /\ on[t] \in Conns
      BY <1>1, <1>2, <2>3, <3>1 DEF Inv, FreshInv, Holding, Conns
    <3>3. pc' \in [Threads -> Labels]
      BY <1>2, <3>1 DEF Labels
    <3>4. \A u \in Connectors : u # t => pc'[u] = pc[u]
      BY <1>2, <3>1, <3>2, Sorts
    <3>5. pc'[t] = "ended"
      BY <1>2, <2>3, <3>1, <3>2, Sorts
    <3>6. \A k \in Conns : k # on[t] => LoopsIdle(k)' = LoopsIdle(k)
      BY <1>2, <2>3, <3>1, <3>2, Sorts DEF LoopsIdle
    <3>7. FreshInv'
      <4>1. \A k \in Conns : k > dialled' => LoopsIdle(k)'
        BY <1>1, <1>2, <3>1, <3>2, <3>6 DEF Inv, FreshInv, Conns
      <4>2. ASSUME NEW u \in Connectors, pc'[u] \in Holding
            PROVE  on'[u] \in 1 .. dialled' /\ LoopsIdle(on[u])'
        <5>1. u # t /\ pc[u] \in Holding
          BY <3>4, <3>5, <4>2 DEF Holding
        <5>2. on[u] \in 1 .. dialled /\ LoopsIdle(on[u]) /\ on[u] # on[t]
          BY <1>1, <2>3, <3>1, <5>1 DEF Inv, FreshInv, Holding
        <5>3. on[u] \in Conns
          BY <1>2, <5>2 DEF Conns
        <5>4. QED
          BY <3>1, <3>6, <5>2, <5>3 DEF LoopsIdle
      <4>3. \A u, v \in Connectors :
              pc'[u] \in Holding /\ pc'[v] \in Holding /\ on'[u] = on'[v] => u = v
        BY <1>1, <3>1, <3>4, <3>5 DEF Inv, FreshInv, Holding
      <4>4. QED
        BY <4>1, <4>2, <4>3 DEF FreshInv
    <3>8. GrabInv'
      BY <1>1, <1>2, <3>1 DEF Inv, GrabInv
    <3>9. QED
      BY <1>2, <2>1, <3>1, <3>3, <3>7, <3>8 DEF Inv, TypeOK, Rest
  <2>4. CASE Simple(t)
    <3>1. PICK l \in Labels : /\ pc' = [pc EXCEPT ![t] = l]
                              /\ l \in Holding => pc[t] \in Holding
                              /\ l = "closing" => on'[t] # 0
      BY <2>4 DEF Simple, Goto
    <3>2. pc' \in [Threads -> Labels] /\ on' \in [Threads -> 0 .. MaxConns] /\ dialled' = dialled
      BY <1>2, <2>4, <3>1 DEF Simple
    <3>3. \A u \in Connectors : on'[u] = on[u] /\ (pc'[u] \in Holding => pc[u] \in Holding)
      BY <1>2, <2>4, <3>1, Sorts DEF Simple
    <3>4. \A k \in Conns : LoopsIdle(k) => LoopsIdle(k)'
      BY <1>2, <2>4, <3>1, Sorts DEF Simple, LoopsIdle
    <3>5. FreshInv'
      <4>1. \A k \in Conns : k > dialled' => LoopsIdle(k)'
        BY <1>1, <3>2, <3>4 DEF Inv, FreshInv
      <4>2. ASSUME NEW u \in Connectors, pc'[u] \in Holding
            PROVE  on'[u] \in 1 .. dialled' /\ LoopsIdle(on[u])'
        <5>1. on[u] \in 1 .. dialled /\ LoopsIdle(on[u])
          BY <1>1, <3>3, <4>2 DEF Inv, FreshInv
        <5>2. on[u] \in Conns
          BY <1>2, <5>1 DEF Conns
        <5>3. QED
          BY <3>2, <3>3, <3>4, <5>1, <5>2 DEF LoopsIdle
      <4>3. \A u, v \in Connectors :
              pc'[u] \in Holding /\ pc'[v] \in Holding /\ on'[u] = on'[v] => u = v
        BY <1>1, <3>3 DEF Inv, FreshInv
      <4>4. QED
        BY <4>1, <4>2, <4>3 DEF FreshInv
    <3>6. GrabInv'
      <4>1. \A u \in Threads : u # t => pc'[u] = pc[u] /\ on'[u] = on[u]
        BY <1>2, <2>4, <3>1 DEF Simple
      <4>2. pc'[t] = l
        BY <1>2, <3>1
      <4>3. QED
        BY <1>1, <3>1, <4>1, <4>2 DEF Inv, GrabInv
    <3>7. QED
      BY <2>1, <3>2, <3>5, <3>6 DEF Inv, TypeOK, Rest
  <2>5. QED
    BY <1>1, <1>3, <2>2, <2>3, <2>4, StepShape DEF Inv
<1>4. CASE \E k \in Conns : Lose(k) \/ Stall(k)
  BY <1>1, <1>4 DEF Lose, Stall, Inv, TypeOK, FreshInv, LoopsIdle, GrabInv
<1>5. CASE UNCHANGED vars
  BY <1>1, <1>5 DEF vars, Inv, TypeOK, FreshInv, LoopsIdle, GrabInv
<1>6. QED
  BY <1>1, <1>3, <1>4, <1>5 DEF Next

\* Type correctness of every reachable state.
THEOREM TypeCorrect == Spec => []TypeOK
<1>1. Inv => TypeOK
  BY DEF Inv
<1>2. QED
  BY <1>1, InvInit, InvNext, PTL DEF Spec

(***************************************************************************)
(* No nil connection.                                                      *)
(***************************************************************************)

\* The flag is set, and the open check passed, only once conn is published.
NilInv ==
    /\ connected => cur # 0
    /\ \A t \in Threads : pc[t] \in {"store", "lock"} => cur # 0
    /\ NeverNilConn

\* Steps that leave conn alone and take no thread past the open check.
LEMMA NilQuiet ==
    ASSUME Inv, NilInv, NEW t \in Threads, NEW l \in Labels, Goto(t, l), UNCHANGED <<cur, on>>,
           connected' => connected,
           l \notin {"store", "lock", "write", "wait"}
    PROVE  NilInv'
BY DEF Inv, TypeOK, NilInv, NeverNilConn, Goto

\* Every step keeps conn published.
LEMMA NilNext == Inv /\ NilInv /\ [Next]_vars => NilInv'
<1>1. SUFFICES ASSUME Inv, NilInv, [Next]_vars PROVE NilInv'
  OBVIOUS
<1>2. pc \in [Threads -> Labels] /\ on \in [Threads -> 0 .. MaxConns]
  BY <1>1 DEF Inv, TypeOK
<1>3. ASSUME NEW t \in Threads, Step(t) PROVE NilInv'
  <2>1. CASE t \in Connectors /\ Connect(t)
    <3>1. CASE CheckOpen(t) \/ DialFails(t)
      BY <1>1, <3>1, NilQuiet DEF CheckOpen, DialFails, Labels
    <3>2. CASE Dial(t)
      BY <1>1, <1>2, <3>2 DEF Dial, Goto, NilInv, NeverNilConn
    <3>3. CASE Publish(t)
      <4>1. on[t] # 0
        BY <1>1, <2>1, <3>3 DEF Publish, Inv, TypeOK, FreshInv, Holding
      <4>2. QED
        BY <1>1, <1>2, <3>3, <4>1 DEF Publish, Goto, NilInv, NeverNilConn
    <3>4. CASE Store(t)
      BY <1>1, <1>2, <3>4 DEF Store, NilInv, NeverNilConn
    <3>5. QED
      BY <2>1, <3>1, <3>2, <3>3, <3>4 DEF Connect
  <2>2. CASE t \in Closers /\ Close(t)
    <3>1. CASE CloseFlag(t) \/ CloseDone(t) \/ Shut(t, on[t])
      BY <1>1, <3>1, NilQuiet DEF CloseFlag, CloseDone, Shut, Labels
    <3>2. CASE CloseGrab(t)
      BY <1>1, <1>2, <3>2 DEF CloseGrab, Goto, NilInv, NeverNilConn
    <3>3. QED
      BY <2>2, <3>1, <3>2 DEF Close
  <2>3. ASSUME NEW label, Send(t, label) PROVE NilInv'
    <3>1. CASE SendCheck(t, label)
      BY <1>1, <1>2, <3>1 DEF SendCheck, SendFailed, Goto, NilInv, NeverNilConn
    <3>2. CASE Lock(t)
      BY <1>1, <1>2, <3>2 DEF Lock, Goto, NilInv, NeverNilConn
    <3>3. CASE WriteOk(t)
      BY <1>1, <1>2, <3>3 DEF WriteOk, Goto, NilInv, NeverNilConn
    <3>4. CASE WriteFails(t) \/ Answered(t) \/ GiveUp(t)
      BY <1>1, <3>4, NilQuiet DEF WriteFails, Answered, GiveUp, SendFailed, SendOk, Labels
    <3>5. QED
      BY <2>3, <3>1, <3>2, <3>3, <3>4 DEF Send
  <2>4. ASSUME MarkDisconnected(t) PROVE NilInv'
    BY <1>1, <2>4, NilQuiet DEF MarkDisconnected, Mark, Swap, Report, Notify, AfterMark, Labels
  <2>5. CASE ReadFails(t) \/ ReadEvent(t) \/ Offered(t) \/ ReaderSeesDone(t)
    BY <1>1, <2>5, NilQuiet DEF ReadFails, ReadEvent, Offered, ReaderSeesDone, Labels
  <2>6. CASE HeartSeesDone(t) \/ HeartWakes(t) \/ HeartChecks(t) \/ HeartFailed(t) \/ Shut(t, ConnOf(t))
    BY <1>1, <2>6, NilQuiet DEF HeartSeesDone, HeartWakes, HeartChecks, HeartFailed, Shut, Labels
  <2>7. QED
    BY <1>3, <2>1, <2>2, <2>3, <2>4, <2>5, <2>6 DEF Step, ReadLoop, HeartbeatLoop
<1>4. CASE \E k \in Conns : Lose(k) \/ Stall(k)
  BY <1>1, <1>4 DEF Lose, Stall, NilInv, NeverNilConn
<1>5. CASE UNCHANGED vars
  BY <1>1, <1>5 DEF vars, NilInv, NeverNilConn
<1>6. QED
  BY <1>1, <1>3, <1>4, <1>5 DEF Next

\* No send, of a heartbeat or of a caller, ever meets a nil connection.
THEOREM NoNilConn == Spec => []NeverNilConn
<1>1. Init => NilInv
  BY DEF Init, NilInv, NeverNilConn
<1>2. NilInv => NeverNilConn
  BY DEF NilInv
<1>3. QED
  BY <1>1, <1>2, InvInit, InvNext, NilNext, PTL DEF Spec

(***************************************************************************)
(* The socket implements SocketSpec.                                       *)
(***************************************************************************)

OwedLabels == {"report", "notify"}

\* Steps that change neither the flag, nor the counters, nor what is owed.
LEMMA Quiet ==
    ASSUME Inv, NEW t \in Threads, NEW l \in Labels, Goto(t, l),
           UNCHANGED <<connected, opens, notices>>,
           t \in Loops => (pc[t] \in OwedLabels <=> l \in OwedLabels)
    PROVE  UNCHANGED Abstract!vars
<1>1. Owed' = Owed
  BY Sorts DEF Inv, TypeOK, Owed, OwedLabels, Goto
<1>2. QED
  BY <1>1 DEF Abstract!vars

\* Every step is a step of the abstract socket or changes nothing it can see.
LEMMA StepRefines == Inv /\ [Next]_vars => [Abstract!Next]_(Abstract!vars)
<1>1. SUFFICES ASSUME Inv, [Next]_vars PROVE Abstract!Next \/ UNCHANGED Abstract!vars
  OBVIOUS
<1>2. pc \in [Threads -> Labels] /\ connected \in BOOLEAN
  BY <1>1 DEF Inv, TypeOK
<1>3. ASSUME NEW t \in Threads, Step(t) PROVE Abstract!Next \/ UNCHANGED Abstract!vars
  <2>1. CASE t \in Connectors /\ Connect(t)
    <3>1. CASE CheckOpen(t) \/ DialFails(t) \/ Dial(t) \/ Publish(t)
      BY <1>1, <2>1, <3>1, Quiet, Sorts DEF CheckOpen, DialFails, Dial, Publish, Labels
    <3>2. CASE Store(t)
      <4>1. on[t] \in Conns /\ LoopsIdle(on[t])
        BY <1>1, <2>1, <3>2 DEF Store, Inv, TypeOK, FreshInv, Holding, Conns
      <4>2. Owed' = Owed
        BY <1>2, <2>1, <3>2, <4>1, Sorts DEF Store, Owed, LoopsIdle
      <4>3. Abstract!Open
        BY <3>2, <4>2 DEF Store, Abstract!Open
      <4>4. QED
        BY <4>3 DEF Abstract!Next
    <3>3. QED
      BY <2>1, <3>1, <3>2 DEF Connect
  <2>2. CASE t \in Closers /\ Close(t)
    <3>1. CASE CloseFlag(t)
      <4>1. Owed' = Owed
        BY <1>2, <2>2, <3>1, Sorts DEF CloseFlag, Goto, Owed
      <4>2. Abstract!Close
        BY <3>1, <4>1 DEF CloseFlag, Abstract!Close
      <4>3. QED
        BY <4>2 DEF Abstract!Next
    <3>2. CASE CloseGrab(t) \/ CloseDone(t) \/ Shut(t, on[t])
      BY <1>1, <2>2, <3>2, Quiet, Sorts DEF CloseGrab, CloseDone, Shut, Labels
    <3>3. QED
      BY <2>2, <3>1, <3>2 DEF Close
  <2>3. ASSUME NEW label, label \in {"idle", "send"}, Send(t, label) PROVE UNCHANGED Abstract!vars
    <3> USE DEF SendFailed, SendOk, Labels, OwedLabels
    <3>1. CASE SendCheck(t, label)
      BY <1>1, <2>3, <3>1, Quiet DEF SendCheck
    <3>2. CASE Lock(t) \/ WriteOk(t) \/ WriteFails(t)
      BY <1>1, <3>2, Quiet DEF Lock, WriteOk, WriteFails
    <3>3. CASE Answered(t) \/ GiveUp(t)
      BY <1>1, <3>3, Quiet DEF Answered, GiveUp
    <3>4. QED
      BY <2>3, <3>1, <3>2, <3>3 DEF Send
  <2>4. ASSUME t \in Loops, MarkDisconnected(t) PROVE Abstract!Next \/ UNCHANGED Abstract!vars
    <3>1. CASE Mark(t) \/ Report(t)
      BY <1>1, <3>1, Quiet DEF Mark, Report, AfterMark, Labels, OwedLabels
    <3>2. CASE Swap(t)
      <4>1. CASE connected
        <5>1. t \notin Owed /\ Owed' = Owed \cup {t}
          BY <1>2, <2>4, <3>2, <4>1, Sorts DEF Swap, Goto, Owed
        <5>2. Abstract!Drop(t)
          BY <3>2, <4>1, <5>1 DEF Swap, Abstract!Drop
        <5>3. QED
          BY <2>4, <5>2 DEF Abstract!Next
      <4>2. CASE ~connected
        BY <1>1, <1>2, <3>2, <4>2, Quiet DEF Swap, AfterMark, Labels, OwedLabels
      <4>3. QED
        BY <4>1, <4>2
    <3>3. CASE Notify(t)
      <4>1. t \in Owed /\ Owed' = Owed \ {t}
        BY <1>2, <2>4, <3>3, Sorts DEF Notify, AfterMark, Goto, Owed
      <4>2. Abstract!Notify(t)
        BY <3>3, <4>1 DEF Notify, Abstract!Notify
      <4>3. QED
        BY <2>4, <4>2 DEF Abstract!Next
    <3>4. QED
      BY <2>4, <3>1, <3>2, <3>3 DEF MarkDisconnected
  <2>5. CASE ReadFails(t) \/ ReadEvent(t) \/ Offered(t) \/ ReaderSeesDone(t)
    BY <1>1, <2>5, Quiet DEF ReadFails, ReadEvent, Offered, ReaderSeesDone, Labels, OwedLabels
  <2>6. CASE HeartSeesDone(t) \/ HeartWakes(t) \/ HeartChecks(t) \/ HeartFailed(t) \/ Shut(t, ConnOf(t))
    BY <1>1, <2>6, Quiet DEF HeartSeesDone, HeartWakes, HeartChecks, HeartFailed, Shut, Labels, OwedLabels
  <2>7. QED
    BY <1>3, <2>1, <2>2, <2>3, <2>4, <2>5, <2>6, Sorts DEF Step, ReadLoop, HeartbeatLoop
<1>4. CASE \E k \in Conns : Lose(k) \/ Stall(k)
  BY <1>1, <1>4 DEF Lose, Stall, Abstract!vars, Owed
<1>5. CASE UNCHANGED vars
  BY <1>1, <1>5 DEF vars, Abstract!vars, Owed
<1>6. QED
  BY <1>1, <1>3, <1>4, <1>5 DEF Next

\* A new socket is a closed abstract one.
LEMMA InitRefines == Init => Abstract!Init
<1>1. SUFFICES ASSUME Init PROVE Abstract!Init
  OBVIOUS
<1>2. Owed = {}
  BY <1>1, Sorts DEF Init, Owed
<1>3. QED
  BY <1>1, <1>2 DEF Init, Abstract!Init

\* The goroutines of a socket, however they interleave, implement SocketSpec.
THEOREM Implements == Spec => Refinement
  BY InitRefines, InvInit, InvNext, StepRefines, PTL DEF Spec, Refinement, Abstract!Spec

(***************************************************************************)
(* What SocketSpec guarantees holds here too: the bound is kept by every   *)
(* step of the abstract socket.                                            *)
(***************************************************************************)
OpenCount == IF connected THEN 1 ELSE 0
Bound == notices + Cardinality(Owed) + OpenCount <= opens

\* There are two loops for each connection.
LEMMA LoopsFinite == IsFiniteSet(Loops)
<1>1. ASSUME NEW a, NEW b PROVE IsFiniteSet({a, b})
  <2>1. IsFiniteSet({a})
    BY FS_Singleton
  <2>2. IsFiniteSet({a} \cup {b})
    BY <2>1, FS_AddElement
  <2>3. {a, b} = {a} \cup {b}
    OBVIOUS
  <2>4. QED
    BY <2>2, <2>3
<1>2. IsFiniteSet(Conns)
  BY FS_Interval, MaxConnsAssumption DEF Conns
<1>3. QED
  BY <1>1, <1>2, FS_Product DEF Loops

\* Owed notices can be counted.
LEMMA OwedFinite == IsFiniteSet(Owed) /\ Cardinality(Owed) \in Nat
BY LoopsFinite, FS_Subset, FS_CardinalityType DEF Owed

\* The flag counts as one opening.
LEMMA OpenCountType == OpenCount \in {0, 1} /\ OpenCount' \in {0, 1}
BY DEF OpenCount

\* Opening adds one, a drop turns an opening into a debt, a notice pays it.
LEMMA BoundNext ==
    ASSUME TypeOK, Bound, [Abstract!Next]_(Abstract!vars)
    PROVE  Bound'
<1>1. opens \in Nat /\ notices \in Nat /\ Cardinality(Owed) \in Nat /\ IsFiniteSet(Owed)
  BY OwedFinite DEF TypeOK
<1>2. CASE Abstract!Open
  BY <1>1, <1>2, OpenCountType DEF Bound, Abstract!Open
<1>3. CASE Abstract!Close
  <2>1. OpenCount' = 0
    BY <1>3 DEF Abstract!Close, OpenCount
  <2>2. QED
    BY <1>1, <1>3, <2>1, OpenCountType DEF Bound, Abstract!Close
<1>4. ASSUME NEW r \in Loops, Abstract!Drop(r) PROVE Bound'
  <2>1. OpenCount = 1 /\ OpenCount' = 0
    BY <1>4 DEF Abstract!Drop, OpenCount
  <2>2. Cardinality(Owed') = Cardinality(Owed) + 1
    BY <1>1, <1>4, FS_AddElement DEF Abstract!Drop
  <2>3. QED
    BY <1>1, <1>4, <2>1, <2>2 DEF Bound, Abstract!Drop
<1>5. ASSUME NEW r \in Loops, Abstract!Notify(r) PROVE Bound'
  <2>1. Cardinality(Owed') = Cardinality(Owed) - 1
    BY <1>1, <1>5, FS_RemoveElement DEF Abstract!Notify
  <2>2. OpenCount' = OpenCount
    BY <1>5 DEF Abstract!Notify, OpenCount
  <2>3. QED
    BY <1>1, <1>5, <2>1, <2>2, OpenCountType DEF Bound, Abstract!Notify
<1>6. CASE UNCHANGED Abstract!vars
  BY <1>6 DEF Bound, OpenCount, Abstract!vars
<1>7. QED
  BY <1>2, <1>3, <1>4, <1>5, <1>6 DEF Abstract!Next

\* OnDisconnect is called at most once for every time the socket was opened,
\* for any number of Connect, Close and send calls and any network.
THEOREM NoticesBounded == Spec => []NoticeBound
<1>1. Init => Bound
  <2>1. SUFFICES ASSUME Init PROVE Bound
    OBVIOUS
  <2>2. Owed = {} /\ ~connected /\ opens = 0 /\ notices = 0
    BY <2>1, InitRefines DEF Abstract!Init
  <2>3. QED
    BY <2>2, FS_EmptySet DEF Bound, OpenCount
<1>2. Inv /\ Bound /\ [Next]_vars => Bound'
  BY StepRefines, BoundNext DEF Inv
<1>3. Bound => NoticeBound
  BY DEF Bound, OpenCount, NoticeBound, Abstract!NoticeBound, Abstract!OpenCount, Cardinality, Abstract!Cardinality
<1>4. QED
  BY <1>1, <1>2, <1>3, InvInit, InvNext, PTL DEF Spec
=============================================================================
