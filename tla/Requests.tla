------------------------------ MODULE Requests ------------------------------
(***************************************************************************)
(* What the SDK does with the errors of a send.  An API call (doProto)     *)
(* goes over the socket and falls back to HTTP; a chat message             *)
(* (WriteChatMessage, WriteEphemeralMessage) that the server rejects with  *)
(* code 3 joins the channel and is sent once more; an edit, deletion or    *)
(* reaction is sent once.  One send and its errors are those of            *)
(* Correlation; here a request in flight may be carried out by the server  *)
(* whether or not its caller still waits for the answer.                   *)
(***************************************************************************)
EXTENDS Integers, FiniteSets

CONSTANTS
    ApiCalls,   \* calls of MezonApi's methods
    Chats,      \* calls of WriteChatMessage and WriteEphemeralMessage
    Edits,      \* calls of the other write methods of the socket
    MaxConns    \* bound: connections of a behaviour

ASSUME DisjointAssumption ==
    ApiCalls \cap Chats = {} /\ ApiCalls \cap Edits = {} /\ Chats \cap Edits = {}
ASSUME MaxConnsAssumption == MaxConns \in Nat

Calls == ApiCalls \cup Chats \cup Edits
Phases == {"first", "join", "again", "http"}
Answers == {"ok", "garbled", "refused", "invalid", "mustjoin"}
Results == Answers \cup {"error", "joinfailed"}

VARIABLES
    open,       \* IsOpen
    conn,       \* the number of the latest connection
    joined,     \* the connections on which the server has the bot in the channel
    pc,         \* "idle", "send", "wait" or "returned"
    phase,      \* which send of the call this is
    on,         \* the connection of the last socket send; 0 before
    answer,     \* the server's answer to the current send; {} until it is read
    result,     \* what the call returned
    joinedOn,   \* the connection on which the call's own join was answered
    wire,       \* requests in flight
    done        \* how often the server carried out the call's request

vars == <<open, conn, joined, pc, phase, on, answer, result, joinedOn, wire, done>>

Request == [call : Calls, phase : Phases, on : 0 .. MaxConns]

Init ==
    /\ open = FALSE
    /\ conn = 0
    /\ joined = {}
    /\ pc = [c \in Calls |-> "idle"]
    /\ phase = [c \in Calls |-> "first"]
    /\ on = [c \in Calls |-> 0]
    /\ answer = [c \in Calls |-> {}]
    /\ result = [c \in Calls |-> "none"]
    /\ joinedOn = [c \in Calls |-> 0]
    /\ wire = {}
    /\ done = [c \in Calls |-> 0]

----------------------------------------------------------------------------
(* The connection (SocketLifecycle).                                       *)

Connect ==
    /\ ~open
    /\ conn < MaxConns
    /\ open' = TRUE
    /\ conn' = conn + 1
    /\ UNCHANGED <<joined, pc, phase, on, answer, result, joinedOn, wire, done>>

Drop ==
    /\ open
    /\ open' = FALSE
    /\ UNCHANGED <<conn, joined, pc, phase, on, answer, result, joinedOn, wire, done>>

----------------------------------------------------------------------------
(* The steps of a call.                                                    *)

\* The next send of call c.
SendNext(c, p) ==
    /\ pc' = [pc EXCEPT ![c] = "send"]
    /\ phase' = [phase EXCEPT ![c] = p]
    /\ UNCHANGED result

Return(c, r) ==
    /\ pc' = [pc EXCEPT ![c] = "returned"]
    /\ result' = [result EXCEPT ![c] = r]
    /\ UNCHANGED phase

\* The content or the request may be refused before anything is sent (too long,
\* not encodable); an API name without an index goes over HTTP at once.
Start(c) ==
    /\ pc[c] = "idle"
    /\ \/ Return(c, "error")
       \/ SendNext(c, "first")
       \/ c \in ApiCalls /\ SendNext(c, "http")
    /\ UNCHANGED <<open, conn, joined, on, answer, joinedOn, wire, done>>

\* Sent again after a timeout, as if nothing had been written.
FailedResends(c, why) ==
    IF why = "timeout" THEN SendNext(c, phase[c]) ELSE Return(c, "error")

\* A missing answer taken for success.
FailedSwallowed(c, why) == Return(c, "ok")

\* A send over the socket ends without an answer.  doProtoSocket falls back for
\* a closed socket and for a timeout; a failed join reports both errors.
Failed(c, why) ==
    IF c \in ApiCalls /\ why \in {"closed", "timeout"}
    THEN SendNext(c, "http")
    ELSE Return(c, "error")

SendClosed(c) ==
    /\ pc[c] = "send"
    /\ phase[c] # "http"
    /\ ~open
    /\ Failed(c, "closed")
    /\ UNCHANGED <<open, conn, joined, on, answer, joinedOn, wire, done>>

\* A broken connection that is not known to be closed yet.
WriteFails(c) ==
    /\ pc[c] = "send"
    /\ phase[c] # "http"
    /\ open
    /\ Failed(c, "write")
    /\ UNCHANGED <<open, conn, joined, on, answer, joinedOn, wire, done>>

Write(c) ==
    /\ pc[c] = "send"
    /\ phase[c] # "http"
    /\ open
    /\ on' = [on EXCEPT ![c] = conn]
    /\ wire' = wire \cup {[call |-> c, phase |-> phase[c], on |-> conn]}
    /\ pc' = [pc EXCEPT ![c] = "wait"]
    /\ UNCHANGED <<open, conn, joined, phase, answer, result, joinedOn, done>>

Post(c) ==
    /\ pc[c] = "send"
    /\ phase[c] = "http"
    /\ wire' = wire \cup {[call |-> c, phase |-> "http", on |-> 0]}
    /\ pc' = [pc EXCEPT ![c] = "wait"]
    /\ UNCHANGED <<open, conn, joined, phase, on, answer, result, joinedOn, done>>

\* The connection's done channel is closed.
SeeDone(c) ==
    /\ pc[c] = "wait"
    /\ phase[c] # "http"
    /\ ~open \/ on[c] # conn
    /\ Failed(c, "closed")
    /\ answer' = [answer EXCEPT ![c] = {}]
    /\ UNCHANGED <<open, conn, joined, on, joinedOn, wire, done>>

\* An http.Client without a timeout.
TimeOutSocketOnly(c) ==
    /\ pc[c] = "wait"
    /\ phase[c] # "http"
    /\ Failed(c, "timeout")
    /\ answer' = [answer EXCEPT ![c] = {}]
    /\ UNCHANGED <<open, conn, joined, on, joinedOn, wire, done>>

\* Also when the answer is there: select picks either.
TimeOut(c) ==
    /\ pc[c] = "wait"
    /\ IF phase[c] = "http" THEN Return(c, "error") ELSE Failed(c, "timeout")
    /\ answer' = [answer EXCEPT ![c] = {}]
    /\ UNCHANGED <<open, conn, joined, on, joinedOn, wire, done>>

\* No retry.
MustJoinNever(c, a) == FALSE

\* isMustJoinChannelError matches every rejection with code 3, and
\* WriteChatMessage looks at its first send only.
MustJoin(c, a) == c \in Chats /\ phase[c] = "first" /\ a \in {"mustjoin", "invalid"}

Receive(c) ==
    /\ pc[c] = "wait"
    /\ \E a \in answer[c] :
        /\ \/ MustJoin(c, a) /\ SendNext(c, "join")
           \/ phase[c] = "join" /\ a = "ok" /\ SendNext(c, "again")
           \/ phase[c] = "join" /\ a # "ok" /\ Return(c, "joinfailed")
           \/ phase[c] # "join" /\ ~MustJoin(c, a) /\ Return(c, a)
        /\ joinedOn' = IF phase[c] = "join" /\ a = "ok"
                       THEN [joinedOn EXCEPT ![c] = on[c]] ELSE joinedOn
    /\ answer' = [answer EXCEPT ![c] = {}]
    /\ UNCHANGED <<open, conn, joined, on, wire, done>>

----------------------------------------------------------------------------
(* The server and the network (external).                                  *)

\* A caller still waits for the answer to m, and it can reach it.
Awaited(m) ==
    /\ pc[m.call] = "wait"
    /\ phase[m.call] = m.phase
    /\ m.phase = "http" \/ (open /\ m.on = conn /\ on[m.call] = conn)

\* The answer may be lost; a lost request is one that is never served.
Reply(m, a) ==
    /\ wire' = wire \ {m}
    /\ \/ answer' = answer
       \/ Awaited(m) /\ answer' = [answer EXCEPT ![m.call] = {a}]
    /\ UNCHANGED <<open, conn, pc, phase, on, result, joinedOn>>

\* The answer may be of the other kind (raw or envelope), or fail to decode.
Carry(m) ==
    /\ m.phase # "join"
    /\ m.call \in Chats => m.on \in joined
    /\ done' = [done EXCEPT ![m.call] = @ + 1]
    /\ joined' = joined
    /\ Reply(m, "ok") \/ Reply(m, "garbled")

\* A join lasts as long as its connection: the SDK never calls LeaveChat.
Join(m) ==
    /\ m.phase = "join"
    /\ joined' = joined \cup {m.on}
    /\ done' = done
    /\ Reply(m, "ok")

Unjoined(m) ==
    /\ m.call \in Chats
    /\ m.phase # "join"
    /\ m.on \notin joined
    /\ UNCHANGED <<joined, done>>
    /\ Reply(m, "mustjoin")

\* Another error of the server, of code 3 or not.
Refuse(m) ==
    /\ UNCHANGED <<joined, done>>
    /\ Reply(m, "refused") \/ Reply(m, "invalid")

----------------------------------------------------------------------------
Call(c) ==
    \/ Start(c) \/ SendClosed(c) \/ WriteFails(c) \/ Write(c) \/ Post(c)
    \/ SeeDone(c) \/ TimeOut(c) \/ Receive(c)

Server(m) == Carry(m) \/ Join(m) \/ Unjoined(m) \/ Refuse(m)

Next ==
    \/ Connect \/ Drop
    \/ \E c \in Calls : Call(c)
    \/ \E m \in wire : Server(m)

Spec == Init /\ [][Next]_vars

\* A goroutine that posts a request or waits for an answer runs, and its timer
\* fires; nothing is assumed of the server, the network, the connection, or the
\* write on the socket, which has no deadline.
Fairness == \A c \in Calls : WF_vars(Post(c) \/ TimeOut(c))
FairSpec == Spec /\ Fairness

----------------------------------------------------------------------------
(* Properties.                                                             *)

\* Every variable has its type.
TypeOK ==
    /\ open \in BOOLEAN
    /\ conn \in 0 .. MaxConns
    /\ joined \subseteq 0 .. MaxConns
    /\ pc \in [Calls -> {"idle", "send", "wait", "returned"}]
    /\ phase \in [Calls -> Phases]
    /\ on \in [Calls -> 0 .. MaxConns]
    /\ answer \in [Calls -> SUBSET Answers]
    /\ result \in [Calls -> Results \cup {"none"}]
    /\ joinedOn \in [Calls -> 0 .. MaxConns]
    /\ wire \subseteq Request
    /\ done \in [Calls -> Nat]

\* A chat message, an edit, a deletion or a reaction is carried out at most once,
\* although WriteChatMessage sends again and a request may be carried out after
\* its caller gave up: only a rejected message is sent again.
PostedOnce == \A c \in Chats \cup Edits : done[c] <= 1

\* An API request is carried out at most twice, and a second time only when the
\* socket gave no answer and doProto went on to HTTP.
RepeatedOnlyByFallback ==
    \A c \in ApiCalls : done[c] <= (IF phase[c] = "http" THEN 2 ELSE 1)

\* A call that returns without an error has been carried out, and one refused on
\* the socket has not and will not be: nothing of it is left in flight.  (After
\* the fallback a refusal says nothing about the request sent on the socket.)
ResultTrue ==
    \A c \in Calls :
        /\ result[c] = "ok" => done[c] >= 1
        /\ result[c] \in {"refused", "invalid", "mustjoin"} /\ phase[c] # "http" =>
               done[c] = 0 /\ ~\E m \in wire : m.call = c

\* The auto-join does its job: WriteChatMessage returns the server's "must join
\* channel" only if the connection on which it joined was replaced before the
\* second send.
JoinHelps ==
    \A c \in Chats : result[c] = "mustjoin" => phase[c] = "again" /\ joinedOn[c] # on[c]

\* No write on the socket blocks for ever: sendResponse gets beyond it.
WritesReturn == \A c \in Calls : WF_vars(SendClosed(c) \/ WriteFails(c) \/ Write(c))

\* A call that waits returns or comes to write on the socket once more, also
\* through the fallback; every call returns if those writes do, whatever else the
\* server, the network and the connection do.
CallsReturn ==
    /\ \A c \in Calls :
          pc[c] = "wait" ~> pc[c] = "returned" \/ (pc[c] = "send" /\ phase[c] # "http")
    /\ WritesReturn => \A c \in Calls : pc[c] = "send" ~> pc[c] = "returned"
=============================================================================
