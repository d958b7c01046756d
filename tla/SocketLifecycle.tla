-------------------------- MODULE SocketLifecycle --------------------------
(***************************************************************************)
(* The life of the connections of one DefaultSocket (socket.go): Connect,  *)
(* Close, the readLoop and heartbeatLoop that Connect starts for every     *)
(* connection, markDisconnected, and the senders that share writeMu with   *)
(* them.  One action is one step between two accesses to shared state:     *)
(* s.connected is atomic, s.conn/s.done/s.closeDone are read and written   *)
(* under writeMu, and a write to the network happens while writeMu is held.*)
(***************************************************************************)
EXTENDS Integers, FiniteSets

CONSTANTS
    Connectors,     \* calls of Connect
    Closers,        \* calls of Close
    Senders,        \* calls of sendResponse other than heartbeats
    ConnectsOverlap,\* whether Connect may be called while another call runs
    MaxConns,       \* bound: connections dialled
    WritesMayBlock  \* whether a write to a peer that stopped reading blocks

Conns == 1 .. MaxConns
Loops == {"reader", "heart"} \X Conns
Nobody == <<"nobody", 0>>
Threads == Connectors \cup Closers \cup Senders \cup Loops

ASSUME MaxConnsAssumption == MaxConns \in Nat \ {0}
ASSUME FlagsAssumption == WritesMayBlock \in BOOLEAN /\ ConnectsOverlap \in BOOLEAN
ASSUME ThreadsAssumption ==
    /\ Connectors \cap Closers = {}
    /\ Connectors \cap Senders = {}
    /\ Closers \cap Senders = {}
    /\ (Connectors \cup Closers \cup Senders) \cap (Loops \cup {Nobody}) = {}

VARIABLES
    connected,  \* s.connected
    cur,        \* the connection in s.conn, s.done and s.closeDone; 0: none
    closed,     \* connections whose done channel is closed
    wire,       \* the network's side of each connection
    dialled,    \* connections dialled so far
    mu,         \* the thread inside a write under writeMu, or Nobody
    pc,         \* where each thread is
    on,         \* the connection a thread holds in a local variable
    opens,      \* times connected was set (for the properties)
    notices     \* OnDisconnect calls (for the properties)

vars == <<connected, cur, closed, wire, dialled, mu, pc, on, opens, notices>>

ConnOf(t) == t[2]
Free == mu = Nobody

Init ==
    /\ connected = FALSE
    /\ cur = 0
    /\ closed = {}
    /\ wire = [k \in Conns |-> "none"]
    /\ dialled = 0
    /\ mu = Nobody
    /\ pc = [t \in Threads |-> "idle"]
    /\ on = [t \in Threads |-> 0]
    /\ opens = 0
    /\ notices = 0

Goto(t, label) == pc' = [pc EXCEPT ![t] = label]

----------------------------------------------------------------------------
(* Connect.                                                                *)

\* The client's reconnect loop calls Connect again only after it returned.
CheckOpen(t) ==
    /\ pc[t] = "idle"
    /\ ConnectsOverlap \/ \A u \in Connectors : pc[u] \in {"idle", "ended"}
    /\ Goto(t, IF connected THEN "ended" ELSE "dial")
    /\ UNCHANGED <<connected, cur, closed, wire, dialled, mu, on, opens, notices>>

\* The flag set as soon as the dial succeeds, before conn is published.
StoreEarly(t) ==
    /\ pc[t] = "dial"
    /\ dialled < MaxConns
    /\ dialled' = dialled + 1
    /\ wire' = [wire EXCEPT ![dialled + 1] = "up"]
    /\ on' = [on EXCEPT ![t] = dialled + 1]
    /\ connected' = TRUE
    /\ Goto(t, "publish")
    /\ UNCHANGED <<cur, closed, mu, opens, notices>>

Dial(t) ==
    /\ pc[t] = "dial"
    /\ dialled < MaxConns
    /\ dialled' = dialled + 1
    /\ wire' = [wire EXCEPT ![dialled + 1] = "up"]
    /\ on' = [on EXCEPT ![t] = dialled + 1]
    /\ Goto(t, "publish")
    /\ UNCHANGED <<connected, cur, closed, mu, opens, notices>>

DialFails(t) ==
    /\ pc[t] = "dial"
    /\ Goto(t, "ended")
    /\ UNCHANGED <<connected, cur, closed, wire, dialled, mu, on, opens, notices>>

\* conn, done and closeDone are replaced under writeMu ...
Publish(t) ==
    /\ pc[t] = "publish"
    /\ Free
    /\ cur' = on[t]
    /\ Goto(t, "store")
    /\ UNCHANGED <<connected, closed, wire, dialled, mu, on, opens, notices>>

\* ... then the flag is set and the loops of the new connection start.
Store(t) ==
    /\ pc[t] = "store"
    /\ connected' = TRUE
    /\ opens' = opens + 1
    /\ pc' = [pc EXCEPT ![t] = "ended", ![<<"reader", on[t]>>] = "read",
                        ![<<"heart", on[t]>>] = "sleep"]
    /\ UNCHANGED <<cur, closed, wire, dialled, mu, on, notices>>

----------------------------------------------------------------------------
(* Close.                                                                  *)

CloseFlag(t) ==
    /\ pc[t] = "idle"
    /\ connected' = FALSE
    /\ Goto(t, "grab")
    /\ UNCHANGED <<cur, closed, wire, dialled, mu, on, opens, notices>>

\* closeDone and conn are read together under writeMu; both nil before the
\* first Connect.
CloseGrab(t) ==
    /\ pc[t] = "grab"
    /\ Free
    /\ on' = [on EXCEPT ![t] = cur]
    /\ Goto(t, IF cur = 0 THEN "ended" ELSE "closing")
    /\ UNCHANGED <<connected, cur, closed, wire, dialled, mu, opens, notices>>

CloseDone(t) ==
    /\ pc[t] = "closing"
    /\ closed' = closed \cup {on[t]}
    /\ Goto(t, "shut")
    /\ UNCHANGED <<connected, cur, wire, dialled, mu, on, opens, notices>>

\* conn.close(), here and at the end of heartbeatLoop.
Shut(t, k) ==
    /\ pc[t] = "shut"
    /\ wire' = [wire EXCEPT ![k] = "shut"]
    /\ Goto(t, "ended")
    /\ UNCHANGED <<connected, cur, closed, dialled, mu, on, opens, notices>>

----------------------------------------------------------------------------
(* markDisconnected, called by the loops of connection ConnOf(t).          *)

AfterMark(t) == IF t[1] = "heart" THEN "shut" ELSE "ended"

Mark(t) ==
    /\ pc[t] = "mark"
    /\ Free
    /\ Goto(t, IF cur = ConnOf(t) THEN "swap" ELSE AfterMark(t))
    /\ UNCHANGED <<connected, cur, closed, wire, dialled, mu, on, opens, notices>>

\* The result of Swap ignored: every loop that gets here reports.
SwapUnchecked(t) ==
    /\ pc[t] = "swap"
    /\ connected' = FALSE
    /\ Goto(t, "report")
    /\ UNCHANGED <<cur, closed, wire, dialled, mu, on, opens, notices>>

Swap(t) ==
    /\ pc[t] = "swap"
    /\ connected' = FALSE
    /\ Goto(t, IF connected THEN "report" ELSE AfterMark(t))
    /\ UNCHANGED <<cur, closed, wire, dialled, mu, on, opens, notices>>

Report(t) ==
    /\ pc[t] = "report"
    /\ closed' = closed \cup {ConnOf(t)}
    /\ Goto(t, "notify")
    /\ UNCHANGED <<connected, cur, wire, dialled, mu, on, opens, notices>>

Notify(t) ==
    /\ pc[t] = "notify"
    /\ notices' = notices + 1
    /\ Goto(t, AfterMark(t))
    /\ UNCHANGED <<connected, cur, closed, wire, dialled, mu, on, opens>>

----------------------------------------------------------------------------
(* readLoop, apart from the frames it delivers (Correlation).              *)

ReadFails(t) ==
    /\ pc[t] = "read"
    /\ wire[ConnOf(t)] \in {"lost", "shut"}
    /\ Goto(t, "mark")
    /\ UNCHANGED <<connected, cur, closed, wire, dialled, mu, on, opens, notices>>

\* A pushed event is read and offered to the queue of dispatchLoop, ...
ReadEvent(t) ==
    /\ pc[t] = "read"
    /\ wire[ConnOf(t)] \in {"up", "lost"}
    /\ Goto(t, "offer")
    /\ UNCHANGED <<connected, cur, closed, wire, dialled, mu, on, opens, notices>>

\* ... which may be full for as long as a handler takes, ...
Offered(t) ==
    /\ pc[t] = "offer"
    /\ Goto(t, "read")
    /\ UNCHANGED <<connected, cur, closed, wire, dialled, mu, on, opens, notices>>

\* ... so the select also looks at done, and leaves without markDisconnected.
ReaderSeesDone(t) ==
    /\ pc[t] = "offer"
    /\ ConnOf(t) \in closed
    /\ Goto(t, "ended")
    /\ UNCHANGED <<connected, cur, closed, wire, dialled, mu, on, opens, notices>>

----------------------------------------------------------------------------
(* heartbeatLoop.                                                          *)

HeartSeesDone(t) ==
    /\ pc[t] = "sleep"
    /\ ConnOf(t) \in closed
    /\ Goto(t, "ended")
    /\ UNCHANGED <<connected, cur, closed, wire, dialled, mu, on, opens, notices>>

\* A select without done: only the flag can end the loop.
HeartWakesAnyway(t) ==
    /\ pc[t] = "sleep"
    /\ Goto(t, "awake")
    /\ UNCHANGED <<connected, cur, closed, wire, dialled, mu, on, opens, notices>>

\* The timer fires before done is closed; a closed done would be taken at once.
HeartWakes(t) ==
    /\ pc[t] = "sleep"
    /\ ConnOf(t) \notin closed
    /\ Goto(t, "awake")
    /\ UNCHANGED <<connected, cur, closed, wire, dialled, mu, on, opens, notices>>

HeartChecks(t) ==
    /\ pc[t] = "awake"
    /\ Goto(t, IF connected THEN "send" ELSE "ended")
    /\ UNCHANGED <<connected, cur, closed, wire, dialled, mu, on, opens, notices>>

\* A failed ping closes the connection but reports nothing.
HeartFailureIgnored(t) ==
    /\ pc[t] = "failed"
    /\ Goto(t, IF ConnOf(t) \in closed THEN "ended" ELSE "shut")
    /\ UNCHANGED <<connected, cur, closed, wire, dialled, mu, on, opens, notices>>

\* The ping failed: nothing to do if this connection is already torn down.
HeartFailed(t) ==
    /\ pc[t] = "failed"
    /\ Goto(t, IF ConnOf(t) \in closed THEN "ended" ELSE "mark")
    /\ UNCHANGED <<connected, cur, closed, wire, dialled, mu, on, opens, notices>>

----------------------------------------------------------------------------
(* sendResponse, as heartbeats and other senders run it.                   *)

SendFailed(t) == IF t \in Loops THEN "failed" ELSE "ended"
SendOk(t)     == IF t \in Loops THEN "sleep" ELSE "ended"

SendCheck(t, label) ==
    /\ pc[t] = label
    /\ Goto(t, IF connected THEN "lock" ELSE SendFailed(t))
    /\ UNCHANGED <<connected, cur, closed, wire, dialled, mu, on, opens, notices>>

\* writeMu is taken and the current connection captured.
Lock(t) ==
    /\ pc[t] = "lock"
    /\ Free
    /\ mu' = t
    /\ on' = [on EXCEPT ![t] = cur]
    /\ Goto(t, "write")
    /\ UNCHANGED <<connected, cur, closed, wire, dialled, opens, notices>>

\* A write to a peer that has gone may still succeed into the socket buffer.
WriteOk(t) ==
    /\ pc[t] = "write"
    /\ wire[on[t]] \in {"up", "lost"} \cup (IF WritesMayBlock THEN {} ELSE {"stuck"})
    /\ mu' = Nobody
    /\ Goto(t, "wait")
    /\ UNCHANGED <<connected, cur, closed, wire, dialled, on, opens, notices>>

WriteFails(t) ==
    /\ pc[t] = "write"
    /\ wire[on[t]] \in {"lost", "shut"}
    /\ mu' = Nobody
    /\ Goto(t, SendFailed(t))
    /\ UNCHANGED <<connected, cur, closed, wire, dialled, on, opens, notices>>

Answered(t) ==
    /\ pc[t] = "wait"
    /\ wire[on[t]] = "up"
    /\ pc[<<"reader", on[t]>>] = "read"
    /\ Goto(t, SendOk(t))
    /\ UNCHANGED <<connected, cur, closed, wire, dialled, mu, on, opens, notices>>

\* The send timeout fires, or the captured done channel is closed.
GiveUp(t) ==
    /\ pc[t] = "wait"
    /\ Goto(t, SendFailed(t))
    /\ UNCHANGED <<connected, cur, closed, wire, dialled, mu, on, opens, notices>>

----------------------------------------------------------------------------
(* The network (external).                                                 *)

Lose(k) ==
    /\ wire[k] \in {"up", "stuck"}
    /\ wire' = [wire EXCEPT ![k] = "lost"]
    /\ UNCHANGED <<connected, cur, closed, dialled, mu, pc, on, opens, notices>>

\* The peer goes silent: reads wait for ever and its receive window fills.
Stall(k) ==
    /\ wire[k] = "up"
    /\ wire' = [wire EXCEPT ![k] = "stuck"]
    /\ UNCHANGED <<connected, cur, closed, dialled, mu, pc, on, opens, notices>>

----------------------------------------------------------------------------
Connect(t) == CheckOpen(t) \/ Dial(t) \/ DialFails(t) \/ Publish(t) \/ Store(t)
Close(t) == CloseFlag(t) \/ CloseGrab(t) \/ CloseDone(t) \/ Shut(t, on[t])
Send(t, label) ==
    SendCheck(t, label) \/ Lock(t) \/ WriteOk(t) \/ WriteFails(t) \/ Answered(t) \/ GiveUp(t)
MarkDisconnected(t) == Mark(t) \/ Swap(t) \/ Report(t) \/ Notify(t)
ReadLoop(t) ==
    \/ ReadFails(t) \/ ReadEvent(t) \/ Offered(t) \/ ReaderSeesDone(t)
    \/ MarkDisconnected(t)
HeartbeatLoop(t) ==
    \/ HeartSeesDone(t) \/ HeartWakes(t) \/ HeartChecks(t) \/ HeartFailed(t)
    \/ Send(t, "send") \/ MarkDisconnected(t) \/ Shut(t, ConnOf(t))

Readers == {"reader"} \X Conns
Hearts  == {"heart"} \X Conns

Step(t) ==
    \/ t \in Connectors /\ Connect(t)
    \/ t \in Closers /\ Close(t)
    \/ t \in Senders /\ Send(t, "idle")
    \/ t \in Readers /\ ReadLoop(t)
    \/ t \in Hearts /\ HeartbeatLoop(t)

Next == (\E t \in Threads : Step(t)) \/ (\E k \in Conns : Lose(k) \/ Stall(k))

Spec == Init /\ [][Next]_vars

(***************************************************************************)
(* Every goroutine that can run does: timers fire, a read on a dead or     *)
(* closed connection fails once the finitely many frames before its end    *)
(* are read, a select does not pass over a closed done for ever, and a     *)
(* sync.Mutex does not starve a waiter.  Nothing is assumed of the network *)
(* or of the event handlers, which may keep a reader waiting for ever, nor *)
(* that anyone calls Close or a send, or comes to an end in Connect.       *)
(***************************************************************************)
Fairness ==
    /\ \A t \in Closers \cup Senders \cup Hearts : SF_vars(pc[t] # "idle" /\ Step(t))
    /\ \A t \in Readers : SF_vars(ReadFails(t) \/ ReaderSeesDone(t) \/ MarkDisconnected(t))

----------------------------------------------------------------------------
(* Properties.                                                             *)

Labels == {"idle", "dial", "publish", "store", "grab", "closing", "shut", "read", "offer",
           "sleep", "awake", "send", "lock", "write", "wait", "failed", "mark", "swap",
           "report", "notify", "ended"}

\* Every variable has its type.
TypeOK ==
    /\ connected \in BOOLEAN
    /\ cur \in 0 .. MaxConns
    /\ closed \subseteq Conns
    /\ wire \in [Conns -> {"none", "up", "lost", "stuck", "shut"}]
    /\ dialled \in 0 .. MaxConns
    /\ mu \in Threads \cup {Nobody}
    /\ pc \in [Threads -> Labels]
    /\ on \in [Threads -> 0 .. MaxConns]
    /\ opens \in Nat
    /\ notices \in Nat

Live == cur # 0 /\ wire[cur] = "up"
Owed == {t \in Loops : pc[t] \in {"report", "notify"}}

(***************************************************************************)
(* The socket implements SocketSpec: loops that have won the Swap owe the  *)
(* client one OnDisconnect.                                                *)
(***************************************************************************)
Abstract == INSTANCE SocketSpec WITH Reporters <- Loops, owed <- Owed

\* Every step of every goroutine is a step of the socket the client sees.
Refinement == Abstract!Spec

\* At most one OnDisconnect, made or under way, for every time the socket was
\* opened, and none for an opening that still stands (markDisconnected).
NoticeBound == Abstract!NoticeBound

\* Whoever passed the open check writes to a connection that exists: conn is
\* published before the flag is set and never taken back, so sendResponse, which
\* uses s.conn unchecked, cannot meet a nil connection, whatever closes meanwhile.
NeverNilConn == \A t \in Threads : pc[t] \in {"write", "wait"} => on[t] # 0

CloseCalled == \E t \in Closers : pc[t] # "idle"

\* A socket that is open on a dead connection is taken down by a loop that owes
\* the client an OnDisconnect (and, being scheduled, calls it), unless a racing
\* Connect puts a live connection in its place or the application calls Close,
\* whose losses nobody asks to be told of.
DeadReported == (connected /\ ~Live) ~> (Owed # {} \/ Live \/ CloseCalled)

\* Once the done channel of a connection is closed both its loops end.
LoopsEnd ==
    \A k \in Conns : k \in closed ~> /\ pc[<<"reader", k>>] \in {"idle", "ended"}
                                     /\ pc[<<"heart", k>>] \in {"idle", "ended"}

\* "a stale loop can never tear down a socket that a reconnect has since
\* installed": a loop that clears the flag belongs to the current connection.
NoStaleTeardown ==
    [][\A t \in Loops : Swap(t) /\ connected => ConnOf(t) = cur]_vars
=============================================================================
