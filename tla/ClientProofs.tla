---------------------------- MODULE ClientProofs ----------------------------
(***************************************************************************)
(* Client for any number of Login calls, Close calls and lost connections. *)
(***************************************************************************)
EXTENDS Client, FiniteSetTheorems, TLAPS

USE FiniteAssumption

\* The Login calls that may have made a socket.
Passed == {t \in Logins : pc[t] \notin {"idle", "auth"}}

\* Every socket was made by a Login of its own.
SockInv == sock <= Cardinality(Passed)

Inv == TypeOK /\ SockInv

\* The number of sockets is bounded by the number of Login calls.
LEMMA PassedFinite ==
    /\ IsFiniteSet(Passed)
    /\ Cardinality(Passed) \in Nat
    /\ MaxSockets \in Nat
    /\ Cardinality(Passed) <= MaxSockets
BY FS_Subset, FS_CardinalityType DEF Passed, MaxSockets

\* A Login that leaves authentication adds one to the bound on sockets.
LEMMA PassedGrows ==
    ASSUME TypeOK, NEW t \in Logins, pc[t] = "auth", NEW label \in Labels,
           label \notin {"idle", "auth"}, Goto(t, label)
    PROVE  Cardinality(Passed') = Cardinality(Passed) + 1
<1>1. t \in Threads
  BY DEF Threads
<1>2. Passed' = Passed \cup {t} /\ t \notin Passed
  BY <1>1 DEF TypeOK, Passed, Goto, Threads
<1>3. QED
  BY <1>2, PassedFinite, FS_AddElement

\* The initial state.
LEMMA InvInit == Init => Inv
<1>1. SUFFICES ASSUME Init PROVE Inv
  OBVIOUS
<1>2. pc \in [Threads -> Labels] /\ sock \in 0 .. MaxSockets
  BY <1>1, PassedFinite DEF Init, Labels
<1>3. /\ hard \in BOOLEAN /\ reconnecting \in BOOLEAN /\ open \in [Sockets -> BOOLEAN]
      /\ on \in [Threads -> {0}]
  BY <1>1, Zenon DEF Init
<1>4. SockInv
  BY <1>1, PassedFinite DEF Init, SockInv
<1>5. QED
  BY <1>2, <1>3, <1>4, PassedFinite DEF Inv, TypeOK

\* A step that moves one goroutine and keeps c.socket keeps the invariant, when
\* it sets the flags to Booleans.
LEMMA MoveStep ==
    ASSUME Inv, NEW t \in Threads, NEW label \in Labels, Goto(t, label), UNCHANGED sock,
           t \in Logins /\ pc[t] \in {"idle", "auth"} => label \in {"auth", "failed"},
           t \in Logins /\ pc[t] \notin {"idle", "auth"} => label \notin {"idle", "auth"},
           hard' \in BOOLEAN, reconnecting' \in BOOLEAN, open' \in [Sockets -> BOOLEAN],
           on' \in [Threads -> 0 .. MaxSockets]
    PROVE  Inv'
<1>1. pc' \in [Threads -> Labels]
  BY DEF Inv, TypeOK, Goto
<1>2. TypeOK'
  BY <1>1 DEF Inv, TypeOK
<1>3. Passed \subseteq Passed'
  BY DEF Inv, TypeOK, Passed, Goto, Threads
<1>4. IsFiniteSet(Passed') /\ Cardinality(Passed') \in Nat
  BY FS_Subset, FS_CardinalityType DEF Passed
<1>5. Cardinality(Passed) <= Cardinality(Passed')
  BY <1>3, <1>4, FS_Subset
<1>6. SockInv'
  BY <1>4, <1>5, PassedFinite DEF Inv, TypeOK, SockInv
<1>7. QED
  BY <1>2, <1>6 DEF Inv

\* Every step of every goroutine.
LEMMA InvNext == Inv /\ [Next]_vars => Inv'
<1>1. SUFFICES ASSUME Inv, [Next]_vars PROVE Inv'
  OBVIOUS
<1>2. /\ hard \in BOOLEAN /\ reconnecting \in BOOLEAN /\ open \in [Sockets -> BOOLEAN]
      /\ [open EXCEPT ![sock] = TRUE] \in [Sockets -> BOOLEAN]
      /\ [open EXCEPT ![sock] = FALSE] \in [Sockets -> BOOLEAN]
  BY <1>1 DEF Inv, TypeOK
<1>0. ASSUME NEW t \in Threads
      PROVE  /\ [open EXCEPT ![on[t]] = TRUE] \in [Sockets -> BOOLEAN]
             /\ on \in [Threads -> 0 .. MaxSockets]
             /\ [on EXCEPT ![t] = 0] \in [Threads -> 0 .. MaxSockets]
             /\ [on EXCEPT ![t] = sock] \in [Threads -> 0 .. MaxSockets]
  <2>1. /\ on \in [Threads -> 0 .. MaxSockets] /\ sock \in 0 .. MaxSockets
        /\ open \in [Sockets -> BOOLEAN] /\ MaxSockets \in Nat
    BY <1>1, PassedFinite DEF Inv, TypeOK
  <2>2. 0 \in 0 .. MaxSockets
    BY <2>1
  <2>3. [open EXCEPT ![on[t]] = TRUE] \in [Sockets -> BOOLEAN]
    BY <2>1
  <2>4. QED
    BY <2>1, <2>2, <2>3
<1>3. ASSUME NEW t \in Logins, Login(t) PROVE Inv'
  <2>0. t \in Threads
    BY DEF Threads
  <2>1. CASE Authenticate(t)
    <3>1. Cardinality(Passed') = Cardinality(Passed) + 1
      BY <1>1, <2>1, PassedGrows DEF Authenticate, Inv, Labels
    <3>2. Cardinality(Passed') <= MaxSockets
      BY FS_Subset DEF Passed, MaxSockets
    <3>3. sock' \in 0 .. MaxSockets /\ SockInv'
      BY <1>1, <2>1, <3>1, <3>2, PassedFinite DEF Authenticate, Inv, TypeOK, SockInv
    <3>4. pc' \in [Threads -> Labels]
      BY <1>1, <2>1 DEF Authenticate, Goto, Inv, TypeOK, Labels
    <3>5. QED
      BY <1>0, <1>2, <2>0, <2>1, <3>3, <3>4 DEF Authenticate, Inv, TypeOK
  <2>2. CASE LoginStart(t)
    BY <1>0, <1>1, <1>2, <2>0, <2>2, MoveStep DEF LoginStart, Labels
  <2>3. CASE AuthFails(t)
    BY <1>0, <1>1, <1>2, <2>0, <2>3, MoveStep DEF AuthFails, Labels
  <2>4. CASE ConnectOk(t)
    BY <1>0, <1>1, <1>2, <2>0, <2>4, MoveStep DEF ConnectOk, Labels
  <2>5. CASE ConnectFails(t, LoginFailed)
    BY <1>0, <1>1, <1>2, <2>0, <2>5, MoveStep DEF ConnectFails, LoginFailed, Labels
  <2>6. CASE InitEnds(t, "ready")
    BY <1>0, <1>1, <1>2, <2>0, <2>6, MoveStep DEF InitEnds, Labels
  <2>7. CASE InitEnds(t, LoginFailed)
    BY <1>0, <1>1, <1>2, <2>0, <2>7, MoveStep DEF InitEnds, LoginFailed, Labels
  <2>8. CASE Connect(t, "call")
    BY <1>0, <1>1, <1>2, <2>0, <2>8, MoveStep DEF Connect, Labels
  <2>9. QED
    BY <1>3, <2>1, <2>2, <2>3, <2>4, <2>5, <2>6, <2>7, <2>8 DEF Login
<1>4. ASSUME NEW t \in Closers, Close(t) PROVE Inv'
  <2>0. t \in Threads /\ t \notin Logins
    BY DEF Threads
  <2>1. CASE CloseFlag(t)
    BY <1>0, <1>1, <1>2, <2>0, <2>1, MoveStep DEF CloseFlag, Labels
  <2>2. CASE CloseSocket(t)
    BY <1>0, <1>1, <1>2, <2>0, <2>2, MoveStep DEF CloseSocket, Labels
  <2>3. QED
    BY <1>4, <2>1, <2>2 DEF Close
<1>5. ASSUME NEW r \in Retriers, RetryConnect(r) PROVE Inv'
  <2>0. r \in Threads /\ r \notin Logins
    BY DEF Threads
  <2>1. CASE OnDisconnect(r)
    BY <1>0, <1>1, <1>2, <2>0, <2>1, MoveStep DEF OnDisconnect, Labels
  <2>2. CASE Begin(r)
    <3>1. reconnecting' \in BOOLEAN
      BY <2>2, Zenon DEF Begin
    <3>2. QED
      BY <1>0, <1>1, <1>2, <2>0, <2>2, <3>1, MoveStep DEF Begin, Labels
  <2>3. CASE Loop(r)
    BY <1>0, <1>1, <1>2, <2>0, <2>3, MoveStep DEF Loop, Labels
  <2>4. CASE Connect(r, "sleep")
    BY <1>0, <1>1, <1>2, <2>0, <2>4, MoveStep DEF Connect, Labels
  <2>5. CASE ConnectOk(r)
    BY <1>0, <1>1, <1>2, <2>0, <2>5, MoveStep DEF ConnectOk, Labels
  <2>6. CASE ConnectFails(r, RetryAgain)
    BY <1>0, <1>1, <1>2, <2>0, <2>6, MoveStep DEF ConnectFails, RetryAgain, Labels
  <2>7. CASE InitEnds(r, "release") \/ InitEnds(r, RetryAgain)
    BY <1>0, <1>1, <1>2, <2>0, <2>7, MoveStep DEF InitEnds, RetryAgain, Labels
  <2>8. CASE Release(r)
    BY <1>0, <1>1, <1>2, <2>0, <2>8, MoveStep DEF Release, Labels
  <2>9. QED
    BY <1>5, <2>1, <2>2, <2>3, <2>4, <2>5, <2>6, <2>7, <2>8 DEF RetryConnect
<1>6. ASSUME NEW r \in Retriers, NEW s \in Sockets, Drop(r, s) PROVE Inv'
  <2>1. r \in Threads /\ r \notin Logins
    BY DEF Threads
  <2>2. open' \in [Sockets -> BOOLEAN]
    BY <1>2, <1>6 DEF Drop
  <2>3. QED
    BY <1>0, <1>1, <1>2, <1>6, <2>1, <2>2, MoveStep DEF Drop, Labels
<1>7. CASE UNCHANGED vars
  BY <1>1, <1>7 DEF vars, Inv, TypeOK, SockInv, Passed
<1>8. QED
  BY <1>1, <1>3, <1>4, <1>5, <1>6, <1>7 DEF Next

\* Type correctness; in particular c.socket is always one of the sockets made.
THEOREM TypeCorrect == Spec => []TypeOK
<1>1. Inv => TypeOK
  BY DEF Inv
<1>2. QED
  BY <1>1, InvInit, InvNext, PTL DEF Spec

(***************************************************************************)
(* One retry loop.                                                         *)
(***************************************************************************)

\* A step that leaves the flag and who is retrying alone.
LEMMA RetryKept ==
    ASSUME SingleRetry, UNCHANGED reconnecting,
           \A r \in Retriers : Retrying(r)' = Retrying(r)
    PROVE  SingleRetry'
BY DEF SingleRetry

\* Only Begin and Release change who is retrying, and both go with the flag.
LEMMA SingleRetryNext == Inv /\ SingleRetry /\ [Next]_vars => SingleRetry'
<1>1. SUFFICES ASSUME Inv, SingleRetry, [Next]_vars PROVE SingleRetry'
  OBVIOUS
<1> USE DEF Goto
<1>2. pc \in [Threads -> Labels] /\ Retriers \subseteq Threads
  BY <1>1 DEF Inv, TypeOK, Threads
<1>3. ASSUME NEW t \in Logins, Login(t) PROVE SingleRetry'
  <2>1. \A r \in Retriers : pc'[r] = pc[r]
    BY <1>2, <1>3 DEF Login, LoginStart, AuthFails, Authenticate, Connect, ConnectOk, ConnectFails, InitEnds
  <2>2. UNCHANGED reconnecting
    BY <1>3 DEF Login, LoginStart, AuthFails, Authenticate, Connect, ConnectOk, ConnectFails, InitEnds
  <2>3. QED
    BY <1>1, <2>1, <2>2, RetryKept DEF Retrying
<1>4. ASSUME NEW t \in Closers, Close(t) PROVE SingleRetry'
  <2>1. \A r \in Retriers : pc'[r] = pc[r]
    BY <1>2, <1>4 DEF Close, CloseFlag, CloseSocket
  <2>2. UNCHANGED reconnecting
    BY <1>4 DEF Close, CloseFlag, CloseSocket
  <2>3. QED
    BY <1>1, <2>1, <2>2, RetryKept DEF Retrying
<1>5. ASSUME NEW r \in Retriers, RetryConnect(r) PROVE SingleRetry'
  <2>1. CASE Begin(r)
    <3>1. CASE reconnecting \/ hard
      <4>1. \A q \in Retriers : Retrying(q)' = Retrying(q)
        BY <1>2, <2>1, <3>1 DEF Begin, Retrying
      <4>2. UNCHANGED reconnecting
        BY <1>1, <2>1, <3>1 DEF Begin, Inv, TypeOK
      <4>3. QED
        BY <1>1, <4>1, <4>2, RetryKept
    <3>2. CASE ~(reconnecting \/ hard)
      <4>1. Retrying(r)' /\ \A q \in Retriers : q # r => ~Retrying(q)'
        BY <1>1, <1>2, <2>1, <3>2 DEF Begin, Retrying, SingleRetry
      <4>2. reconnecting'
        BY <2>1, <3>2 DEF Begin
      <4>3. QED
        BY <4>1, <4>2 DEF SingleRetry
    <3>3. QED
      BY <3>1, <3>2
  <2>2. CASE Release(r)
    <3>1. Retrying(r) /\ ~Retrying(r)' /\ \A q \in Retriers : q # r => Retrying(q)' = Retrying(q)
      BY <1>2, <2>2 DEF Release, Retrying
    <3>2. ~reconnecting'
      BY <2>2 DEF Release
    <3>3. QED
      BY <1>1, <3>1, <3>2 DEF SingleRetry
  <2>3. CASE OnDisconnect(r) \/ Loop(r) \/ Connect(r, "sleep") \/ ConnectOk(r)
             \/ ConnectFails(r, RetryAgain) \/ InitEnds(r, "release") \/ InitEnds(r, RetryAgain)
    <3> USE DEF OnDisconnect, Loop, Connect, ConnectOk, ConnectFails, InitEnds, RetryAgain
    <3>1. \A q \in Retriers : Retrying(q)' = Retrying(q)
      BY <1>2, <2>3 DEF Retrying
    <3>2. UNCHANGED reconnecting
      BY <2>3
    <3>3. QED
      BY <1>1, <3>1, <3>2, RetryKept
  <2>4. QED
    BY <1>5, <2>1, <2>2, <2>3 DEF RetryConnect
<1>6. ASSUME NEW r \in Retriers, NEW s \in Sockets, Drop(r, s) PROVE SingleRetry'
  <2>1. \A q \in Retriers : Retrying(q)' = Retrying(q)
    BY <1>2, <1>6 DEF Drop, Retrying
  <2>2. QED
    BY <1>1, <1>6, <2>1, RetryKept DEF Drop
<1>7. CASE UNCHANGED vars
  BY <1>1, <1>7, RetryKept DEF vars, Retrying
<1>8. QED
  BY <1>1, <1>3, <1>4, <1>5, <1>6, <1>7 DEF Next

\* At most one retry loop runs and c.reconnecting says whether one does, for any
\* number of sockets, drops, Login and Close calls.
THEOREM SingleRetryCorrect == Spec => []SingleRetry
<1>1. Init => SingleRetry
  BY DEF Init, SingleRetry, Retrying, Threads
<1>2. QED
  BY <1>1, InvInit, InvNext, SingleRetryNext, PTL DEF Spec

(***************************************************************************)
(* Connect is called by one goroutine at a time.                           *)
(***************************************************************************)

Authenticated == {"call", "connect", "init", "ready"}

\* No socket has been open yet, so none has dropped.
Unopened ==
    /\ \A s \in Sockets : ~open[s]
    /\ \A r \in Retriers : pc[r] = "idle"

\* The first socket belongs to the Login that made it, and its first Connect comes
\* before any retry loop.
FirstInv ==
    /\ \A t \in Closers : pc[t] \in {"idle", "closing", "closed"}
    /\ sock = 0 => Unopened /\ \A t \in Logins : pc[t] \notin Authenticated
    /\ sock <= 1 =>
          /\ \A t, u \in Logins : pc[t] \in Authenticated /\ pc[u] \in Authenticated => t = u
          /\ (\E t \in Logins : pc[t] \in {"call", "connect"}) => Unopened

\* Every step keeps it.
LEMMA FirstNext == Inv /\ FirstInv /\ [Next]_vars => FirstInv'
<1>1. SUFFICES ASSUME Inv, FirstInv, [Next]_vars PROVE FirstInv'
  OBVIOUS
<1> USE DEF Goto, Authenticated
<1>2. /\ pc \in [Threads -> Labels] /\ sock \in Nat /\ open \in [Sockets -> BOOLEAN]
      /\ Logins \subseteq Threads /\ Closers \subseteq Threads /\ Retriers \subseteq Threads
  BY <1>1, PassedFinite DEF Inv, TypeOK, Threads
<1>3. ASSUME NEW t \in Logins, Login(t) PROVE FirstInv'
  <2>1. \A u \in Closers \cup Retriers : pc'[u] = pc[u]
    BY <1>2, <1>3 DEF Login, LoginStart, AuthFails, Authenticate, Connect, ConnectOk, ConnectFails, InitEnds
  <2>2. CASE Authenticate(t)
    <3>1. sock' = sock + 1 /\ open' = open /\ pc'[t] = "call"
          /\ \A u \in Logins : u # t => pc'[u] = pc[u]
      BY <1>2, <2>2 DEF Authenticate
    <3>2. CASE sock = 0
      <4>1. Unopened'
        BY <1>1, <2>1, <3>1, <3>2 DEF FirstInv, Unopened
      <4>2. QED
        BY <1>1, <2>1, <3>1, <3>2, <4>1 DEF FirstInv
    <3>3. CASE sock # 0
      BY <1>1, <1>2, <2>1, <3>1, <3>3 DEF FirstInv
    <3>4. QED
      BY <3>2, <3>3
  <2>3. CASE ConnectOk(t)
    <3>1. sock' = sock /\ pc[t] = "connect" /\ pc'[t] = "init"
          /\ \A u \in Logins : u # t => pc'[u] = pc[u]
      BY <1>2, <2>3 DEF ConnectOk
    <3>2. sock # 0 /\ (sock <= 1 => \A u \in Logins : u # t => pc[u] \notin {"call", "connect"})
      BY <1>1, <3>1 DEF FirstInv
    <3>3. QED
      BY <1>1, <2>1, <3>1, <3>2 DEF FirstInv
  <2>4. CASE LoginStart(t) \/ AuthFails(t) \/ ConnectFails(t, LoginFailed)
             \/ InitEnds(t, "ready") \/ InitEnds(t, LoginFailed) \/ Connect(t, "call")
    <3>1. /\ sock' = sock /\ open' = open
          /\ \A u \in Logins : u # t => pc'[u] = pc[u]
          /\ pc'[t] \in Authenticated => pc[t] \in Authenticated
          /\ pc'[t] \in {"call", "connect"} => pc[t] \in {"call", "connect"}
      BY <1>2, <2>4 DEF Connect, LoginStart, AuthFails, ConnectFails, InitEnds, LoginFailed
    <3>2. Unopened' = Unopened
      BY <2>1, <3>1 DEF Unopened
    <3>3. QED
      BY <1>1, <2>1, <3>1, <3>2 DEF FirstInv
  <2>5. QED
    BY <1>3, <2>2, <2>3, <2>4 DEF Login
<1>4. ASSUME NEW t \in Closers, Close(t) PROVE FirstInv'
  <2>1. /\ \A u \in Logins \cup Retriers : pc'[u] = pc[u]
        /\ pc'[t] \in {"closing", "closed"} /\ \A u \in Closers : u # t => pc'[u] = pc[u]
        /\ sock' = sock /\ \A s \in Sockets : ~open[s] => ~open'[s]
    BY <1>2, <1>4 DEF Close, CloseFlag, CloseSocket
  <2>2. Unopened => Unopened'
    BY <2>1 DEF Unopened
  <2>3. QED
    BY <1>1, <2>1, <2>2 DEF FirstInv
<1>5. ASSUME NEW r \in Retriers, ~Unopened, UNCHANGED sock,
             \A t \in Logins \cup Closers : pc'[t] = pc[t]
      PROVE  FirstInv'
  BY <1>1, <1>5 DEF FirstInv
<1>6. ASSUME NEW r \in Retriers, RetryConnect(r) PROVE FirstInv'
  <2> USE DEF RetryConnect, OnDisconnect, Begin, Loop, Connect, ConnectOk, ConnectFails, InitEnds, Release
  <2>1. pc[r] # "idle"
    BY <1>6
  <2>2. UNCHANGED sock /\ \A t \in Logins \cup Closers : pc'[t] = pc[t]
    BY <1>2, <1>6
  <2>3. QED
    BY <1>5, <2>1, <2>2 DEF Unopened
<1>7. ASSUME NEW r \in Retriers, NEW s \in Sockets, Drop(r, s) PROVE FirstInv'
  <2>1. UNCHANGED sock /\ \A t \in Logins \cup Closers : pc'[t] = pc[t]
    BY <1>2, <1>7 DEF Drop
  <2>2. QED
    BY <1>5, <1>7, <2>1 DEF Unopened, Drop
<1>8. CASE UNCHANGED vars
  BY <1>1, <1>8 DEF vars, FirstInv, Unopened
<1>9. QED
  BY <1>1, <1>3, <1>4, <1>6, <1>7, <1>8 DEF Next

\* DefaultSocket.Connect, which takes no lock, is called by one goroutine at a time
\* as long as Login has authenticated once: the Login before any retry loop, then
\* the one retry loop there is, for any number of Login calls, drops and Closes.
THEOREM ConnectsCorrect == Spec => []ConnectsSerial
<1>1. Init => FirstInv /\ SingleRetry
  BY DEF Init, FirstInv, Unopened, Authenticated, SingleRetry, Retrying, Threads
<1>2. FirstInv /\ SingleRetry => ConnectsSerial
  <2>1. SUFFICES ASSUME FirstInv, SingleRetry, sock <= 1,
                        NEW t \in Threads, NEW u \in Threads, pc[t] = "connect", pc[u] = "connect"
                 PROVE  t = u
    BY DEF ConnectsSerial
  <2>2. t \notin Closers /\ u \notin Closers
    BY <2>1 DEF FirstInv
  <2>3. CASE t \in Logins /\ u \in Logins
    BY <2>1, <2>3 DEF FirstInv, Authenticated
  <2>4. CASE t \in Retriers /\ u \in Retriers
    BY <2>1, <2>4 DEF SingleRetry, Retrying
  <2>5. CASE (t \in Logins /\ u \in Retriers) \/ (u \in Logins /\ t \in Retriers)
    BY <2>1, <2>5 DEF FirstInv, Unopened
  <2>6. QED
    BY <2>1, <2>2, <2>3, <2>4, <2>5 DEF Threads
<1>3. QED
  BY <1>1, <1>2, InvInit, InvNext, SingleRetryNext, FirstNext, PTL DEF Spec
=============================================================================
