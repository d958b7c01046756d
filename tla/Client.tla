------------------------------- MODULE Client -------------------------------
(***************************************************************************)
(* MezonClient's connection management (client.go): Login, the OnDisconnect*)
(* callback, the retryConnect goroutine it starts and Close, over sockets  *)
(* of which only the connected flag is kept (SocketSpec).  hardDisconnect  *)
(* and reconnecting are the two flags these goroutines coordinate with;    *)
(* reconnecting is tested and set under c.mu, hardDisconnect is not.       *)
(***************************************************************************)
EXTENDS Integers, FiniteSets

CONSTANTS
    Logins,     \* calls of Login; each that authenticates makes a new socket
    Closers,    \* calls of Close
    Retriers    \* bound: drops of a socket, one OnDisconnect goroutine each

ASSUME FiniteAssumption ==
    /\ IsFiniteSet(Logins)
    /\ Logins \cap Closers = {}
    /\ Logins \cap Retriers = {}
    /\ Closers \cap Retriers = {}

Threads == Logins \cup Closers \cup Retriers
MaxSockets == Cardinality(Logins)
Sockets == 1 .. MaxSockets

VARIABLES
    hard,           \* c.hardDisconnect
    reconnecting,   \* c.reconnecting
    sock,           \* which socket c.socket is; 0 before the first Login
    open,           \* connected flag of each socket
    on,             \* the socket on which a goroutine has called Connect; 0 if none
    pc              \* where each goroutine is

vars == <<hard, reconnecting, sock, open, on, pc>>

Init ==
    /\ hard = FALSE
    /\ reconnecting = FALSE
    /\ sock = 0
    /\ open = [s \in Sockets |-> FALSE]
    /\ on = [t \in Threads |-> 0]
    /\ pc = [t \in Threads |-> "idle"]

Goto(t, label) == pc' = [pc EXCEPT ![t] = label]

----------------------------------------------------------------------------
(* Login.                                                                  *)

LoginStart(t) ==
    /\ pc[t] = "idle"
    /\ hard' = FALSE
    /\ Goto(t, "auth")
    /\ UNCHANGED <<reconnecting, sock, open, on>>

AuthFails(t) ==
    /\ pc[t] = "auth"
    /\ Goto(t, "failed")
    /\ UNCHANGED <<hard, reconnecting, sock, open, on>>

\* The session is stored and initManagers replaces c.socket; an earlier socket
\* keeps its connection and its callback.
Authenticate(t) ==
    /\ pc[t] = "auth"
    /\ sock' = sock + 1
    /\ Goto(t, "call")
    /\ UNCHANGED <<hard, reconnecting, open, on>>

\* `c.socket.Connect(...)', in Login or when the back-off delay of retryConnect is
\* over, takes c.socket as it is now; an open socket is left as it is.
Connect(t, from) ==
    /\ pc[t] = from
    /\ on' = [on EXCEPT ![t] = sock]
    /\ Goto(t, IF open[sock] THEN "init" ELSE "connect")
    /\ UNCHANGED <<hard, reconnecting, sock, open>>

\* The dial ends.  A Login may have replaced c.socket in the meantime, or another
\* Connect have opened the same socket.
ConnectOk(t) ==
    /\ pc[t] = "connect"
    /\ open' = [open EXCEPT ![on[t]] = TRUE]
    /\ Goto(t, "init")
    /\ UNCHANGED <<hard, reconnecting, sock, on>>

ConnectFails(t, label) ==
    /\ pc[t] = "connect"
    /\ on' = [on EXCEPT ![t] = 0]
    /\ Goto(t, label)
    /\ UNCHANGED <<hard, reconnecting, sock, open>>

\* postConnectInit: the clan list can come over HTTP when the socket is gone,
\* clans that could not be joined and a failed DM list are only logged, so its
\* result says nothing about the socket.
InitEnds(t, label) ==
    /\ pc[t] = "init"
    /\ on' = [on EXCEPT ![t] = 0]
    /\ Goto(t, label)
    /\ UNCHANGED <<hard, reconnecting, sock, open>>

----------------------------------------------------------------------------
(* A connection is lost: markDisconnected clears the flag and calls        *)
(* OnDisconnect, which starts retryConnect unless the client was closed.   *)

Drop(r, s) ==
    /\ pc[r] = "idle"
    /\ open[s]
    /\ open' = [open EXCEPT ![s] = FALSE]
    /\ Goto(r, "callback")
    /\ UNCHANGED <<hard, reconnecting, sock, on>>

OnDisconnect(r) ==
    /\ pc[r] = "callback"
    /\ Goto(r, IF hard THEN "ended" ELSE "begin")
    /\ UNCHANGED <<hard, reconnecting, sock, open, on>>

----------------------------------------------------------------------------
(* retryConnect.                                                           *)

\* The flag of a running loop not looked at.
BeginUnchecked(r) ==
    /\ pc[r] = "begin"
    /\ reconnecting' = ~hard
    /\ Goto(r, IF hard THEN "ended" ELSE "loop")
    /\ UNCHANGED <<hard, sock, open, on>>

\* Under c.mu: another retry loop is running, or the client was closed.
Begin(r) ==
    /\ pc[r] = "begin"
    /\ reconnecting' = (reconnecting \/ ~hard)
    /\ Goto(r, IF reconnecting \/ hard THEN "ended" ELSE "loop")
    /\ UNCHANGED <<hard, sock, open, on>>

\* A loop without its condition.
LoopUnchecked(r) ==
    /\ pc[r] = "loop"
    /\ Goto(r, "sleep")
    /\ UNCHANGED <<hard, reconnecting, sock, open, on>>

\* for !c.hardDisconnect.  c.session, tested after the delay, was set before the
\* socket existed.
Loop(r) ==
    /\ pc[r] = "loop"
    /\ Goto(r, IF hard THEN "release" ELSE "sleep")
    /\ UNCHANGED <<hard, reconnecting, sock, open, on>>

Release(r) ==
    /\ pc[r] = "release"
    /\ reconnecting' = FALSE
    /\ Goto(r, "ended")
    /\ UNCHANGED <<hard, sock, open, on>>

----------------------------------------------------------------------------
(* Close.                                                                  *)

CloseFlag(t) ==
    /\ pc[t] = "idle"
    /\ hard' = TRUE
    /\ Goto(t, "closing")
    /\ UNCHANGED <<reconnecting, sock, open, on>>

CloseSocket(t) ==
    /\ pc[t] = "closing"
    /\ open' = IF sock = 0 THEN open ELSE [open EXCEPT ![sock] = FALSE]
    /\ Goto(t, "closed")
    /\ UNCHANGED <<hard, reconnecting, sock, on>>

----------------------------------------------------------------------------
\* A retry loop that leaves after one failure.
RetryGivesUp == "release"

\* Where a failed Connect and a failed init leave a caller.
LoginFailed == "failed"
RetryAgain == "loop"

Login(t) ==
    \/ LoginStart(t) \/ AuthFails(t) \/ Authenticate(t)
    \/ Connect(t, "call") \/ ConnectOk(t) \/ ConnectFails(t, LoginFailed)
    \/ InitEnds(t, "ready") \/ InitEnds(t, LoginFailed)

RetryConnect(r) ==
    \/ OnDisconnect(r) \/ Begin(r) \/ Loop(r)
    \/ Connect(r, "sleep") \/ ConnectOk(r) \/ ConnectFails(r, RetryAgain)
    \/ InitEnds(r, "release") \/ InitEnds(r, RetryAgain)
    \/ Release(r)

Close(t) == CloseFlag(t) \/ CloseSocket(t)

Next ==
    \/ \E t \in Logins : Login(t)
    \/ \E t \in Closers : Close(t)
    \/ \E r \in Retriers : RetryConnect(r) \/ \E s \in Sockets : Drop(r, s)

Spec == Init /\ [][Next]_vars

\* Goroutines that can run do; nothing makes a connection drop, a dial succeed,
\* or the application call Login or Close.
Fairness ==
    /\ \A r \in Retriers : WF_vars(RetryConnect(r))
    /\ \A t \in Closers : WF_vars(CloseSocket(t))
    /\ \A t \in Logins : WF_vars(pc[t] # "idle" /\ Login(t))

\* The server is back at some point: what is tried again and again succeeds.
ServerReturns ==
    \A r \in Retriers : SF_vars(ConnectOk(r)) /\ SF_vars(InitEnds(r, "release"))

----------------------------------------------------------------------------
(* Properties.                                                             *)

Labels == {"idle", "auth", "call", "connect", "init", "ready", "failed", "callback", "begin",
           "loop", "sleep", "release", "closing", "closed", "ended"}

\* Every variable has its type.
TypeOK ==
    /\ hard \in BOOLEAN
    /\ reconnecting \in BOOLEAN
    /\ sock \in 0 .. MaxSockets
    /\ open \in [Sockets -> BOOLEAN]
    /\ on \in [Threads -> 0 .. MaxSockets]
    /\ pc \in [Threads -> Labels]

Up == sock # 0 /\ open[sock]
Retrying(r) == pc[r] \in {"loop", "sleep", "connect", "init", "release"}

\* However many connections drop, of however many sockets, at most one retry
\* loop runs, and the flag is set exactly while it does: a second loop would
\* dial and join every clan twice, a stale flag would disable reconnecting.
SingleRetry ==
    /\ \A r, q \in Retriers : Retrying(r) /\ Retrying(q) => r = q
    /\ reconnecting <=> \E r \in Retriers : Retrying(r)

\* Until a second Login authenticates, Connect is never called while another call
\* of it runs: DefaultSocket.Connect checks IsOpen and dials without any lock.
ConnectsSerial ==
    sock <= 1 =>
        \A t, u \in Threads : pc[t] = "connect" /\ pc[u] = "connect" => t = u

\* A Login has replaced c.socket since the retry loop called Connect.
Overtaken(r) == pc[r] \in {"connect", "init"} /\ on[r] # sock

\* When the server comes back, a retry loop that has started goes on until the
\* client is up again, on whichever socket it has by then, or was closed; unless a
\* Login replaced c.socket while the loop dialled the old socket or used it: then
\* the loop leaves with the old socket open, whatever became of that Login.
RetryRecovers ==
    ServerReturns =>
        \A r \in Retriers : pc[r] = "loop" ~> (Up \/ hard \/ Overtaken(r))

\* Close ends a running retry loop, unless a new Login withdraws it.
CloseEndsRetry == \A r \in Retriers : (hard /\ Retrying(r)) ~> (~Retrying(r) \/ ~hard)

\* "Close shuts down the socket and prevents reconnection": after Close has
\* returned, and until Login is called again, no retry loop opens the socket.
ClosePrevents ==
    [][\A r \in Retriers, t \in Closers :
        pc[t] = "closed" /\ hard => ~ConnectOk(r)]_vars
=============================================================================
