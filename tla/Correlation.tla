---------------------------- MODULE Correlation ----------------------------
(***************************************************************************)
(* Request/response correlation on one DefaultSocket (socket.go): callers  *)
(* of sendResponse register a channel under a fresh cid, write, and wait   *)
(* for the reply, a timeout, or the close of the connection they wrote on; *)
(* the readLoop of each connection takes the channel a frame is meant for  *)
(* out of the map and sends the reply on it.  Envelope replies carry the   *)
(* whole cid; raw API chunks and pongs carry only its low 16 bits.         *)
(*                                                                         *)
(* Who closes a connection, and when, is the subject of SocketLifecycle:   *)
(* here `connected' may be cleared and a done channel closed at any        *)
(* moment, and a readLoop that has ended is one that takes no more steps.  *)
(* The map s.cids is shared by every connection, as in the code.           *)
(***************************************************************************)
EXTENDS Integers, Sequences

CONSTANTS
    Calls,      \* the sendResponse calls made during a behaviour
    RawMod,     \* 2^16 in the code: what a raw frame can tell apart
    Kinds,      \* what calls send: "envelope", "api", "ping" or some of them
    MaxConns,   \* bound: connections installed by Connect
    MaxChunks   \* bound: non-final chunks of one API response

ASSUME RawModAssumption == RawMod \in Nat \ {0}
ASSUME KindsAssumption == Kinds \subseteq {"envelope", "api", "ping"}
ASSUME MaxConnsAssumption == MaxConns \in Nat \ {0}
ASSUME MaxChunksAssumption == MaxChunks \in Nat

VARIABLES
    connected,  \* s.connected
    conn,       \* the connection s.conn/s.done stand for, 0 before the first
    closed,     \* connections whose done channel is closed
    nextCid,    \* s.nextCid
    cids,       \* the calls whose channel is in the map s.cids
    pc,         \* where each call is
    kind,       \* what each call sends
    cid,        \* the cid of each call, 0 before generateCid
    on,         \* the connection a call wrote on (its captured done)
    ch,         \* the replies sent on a call's channel, which has room for one
    streams,    \* per connection: chunks buffered under each raw cid
    wire,       \* per connection: frames the server sent, not yet read
    sent,       \* server: payload parts of the API response sent so far
    answered    \* server: calls whose response is complete

vars == <<connected, conn, closed, nextCid, cids, pc, kind, cid, on,
          ch, streams, wire, sent, answered>>

socketVars == <<connected, conn, closed>>
serverVars == <<wire, sent, answered>>
callVars   == <<nextCid, pc, kind, cid, on>>

Conns   == 1 .. MaxConns
Results == {"answered", "timeout", "closed", "failed"}
RawCids == 0 .. RawMod - 1

(***************************************************************************)
(* A part is one piece of an API response; `of' names the call the server  *)
(* answers, which no frame carries: it is there for the properties.        *)
(***************************************************************************)
Part  == [of : Calls, nr : Nat \ {0}]
Frame == [type : {"envelope", "pong", "chunk", "fin"}, cid : Nat, of : Calls,
          payload : Seq(Part)]
Reply == [of : Calls, raw : BOOLEAN, body : Seq(Part)]

InProgress == {"registered", "waiting"}
Written(c) == on[c] # 0

\* int32(uint16(cid)): what a raw frame keeps of a cid.
Low16(n) == n % RawMod

Init ==
    /\ connected = FALSE
    /\ conn = 0
    /\ closed = {}
    /\ nextCid = 1
    /\ cids = {}
    /\ pc = [c \in Calls |-> "idle"]
    /\ kind = [c \in Calls |-> "none"]
    /\ cid = [c \in Calls |-> 0]
    /\ on = [c \in Calls |-> 0]
    /\ ch = [c \in Calls |-> {}]
    /\ streams = [k \in Conns |-> [r \in RawCids |-> << >>]]
    /\ wire = [k \in Conns |-> << >>]
    /\ sent = [c \in Calls |-> 0]
    /\ answered = {}

----------------------------------------------------------------------------
(* The socket's connections, as far as a call can see them.                *)

Connect ==
    /\ ~connected
    /\ conn < MaxConns
    /\ conn' = conn + 1
    /\ connected' = TRUE
    /\ UNCHANGED <<closed, cids, ch, streams, callVars, serverVars>>

\* Close and markDisconnected clear the flag first ...
ClearConnected ==
    /\ connected
    /\ connected' = FALSE
    /\ UNCHANGED <<conn, closed, cids, ch, streams, callVars, serverVars>>

\* ... and then close the done channel they read.
CloseDone(k) ==
    /\ k <= conn
    /\ k \notin closed
    /\ closed' = closed \cup {k}
    /\ UNCHANGED <<connected, conn, cids, ch, streams, callVars, serverVars>>

----------------------------------------------------------------------------
(* sendResponse.                                                           *)

Return(c, result) == pc' = [pc EXCEPT ![c] = result]

\* The open check, generateCid and the registration under cidMu.
Register(c, k) ==
    /\ pc[c] = "idle"
    /\ connected
    /\ kind' = [kind EXCEPT ![c] = k]
    /\ cid' = [cid EXCEPT ![c] = nextCid]
    /\ nextCid' = nextCid + 1
    /\ cids' = cids \cup {c}
    /\ pc' = [pc EXCEPT ![c] = "registered"]
    /\ UNCHANGED <<on, ch, streams, socketVars, serverVars>>

RefuseClosed(c) ==
    /\ pc[c] = "idle"
    /\ ~connected
    /\ Return(c, "closed")
    /\ UNCHANGED <<cids, nextCid, kind, cid, on, ch, streams, socketVars, serverVars>>

\* delete by the truncated cid.
ClearTruncated(c) == {d \in cids : Low16(cid[d]) # Low16(cid[c])}
ClearCid(c) == cids \ {c}

\* Marshal or the write fails: the entry is removed, the error returned.
Fail(c) ==
    /\ pc[c] = "registered"
    /\ cids' = ClearCid(c)
    /\ Return(c, "failed")
    /\ UNCHANGED <<nextCid, kind, cid, on, ch, streams, socketVars, serverVars>>

\* The write succeeds on the connection that is current at that moment, which
\* need not be the one that was current at the open check.
Write(c) ==
    /\ pc[c] = "registered"
    /\ on' = [on EXCEPT ![c] = conn]
    /\ pc' = [pc EXCEPT ![c] = "waiting"]
    /\ UNCHANGED <<nextCid, cids, kind, cid, ch, streams, socketVars, serverVars>>

Receive(c) ==
    /\ pc[c] = "waiting"
    /\ ch[c] # {}
    /\ Return(c, "answered")
    /\ UNCHANGED <<cids, nextCid, kind, cid, on, ch, streams, socketVars, serverVars>>

\* A timer that only runs while the socket is open.
TimeoutWhileOpen(c) ==
    /\ pc[c] = "waiting"
    /\ connected
    /\ cids' = ClearCid(c)
    /\ Return(c, "timeout")
    /\ UNCHANGED <<nextCid, kind, cid, on, ch, streams, socketVars, serverVars>>

Timeout(c) ==
    /\ pc[c] = "waiting"
    /\ cids' = ClearCid(c)
    /\ Return(c, "timeout")
    /\ UNCHANGED <<nextCid, kind, cid, on, ch, streams, socketVars, serverVars>>

\* The connection's done channel is closed.  The entry stays in the map.
SeeDone(c) ==
    /\ pc[c] = "waiting"
    /\ on[c] \in closed
    /\ Return(c, "closed")
    /\ UNCHANGED <<cids, nextCid, kind, cid, on, ch, streams, socketVars, serverVars>>

----------------------------------------------------------------------------
(* The server (external): it answers each request it was sent at most once,*)
(* on the connection the request came on, in frames of the shape readLoop  *)
(* expects.                                                                *)

Push(c, f) == wire' = [wire EXCEPT ![on[c]] = Append(@, f)]

Open(c) == Written(c) /\ c \notin answered

\* Over the WebSocket transport a pong is an envelope, too.
ServeEnvelope(c) ==
    /\ Open(c)
    /\ sent[c] = 0
    /\ Push(c, [type |-> "envelope", cid |-> cid[c], of |-> c, payload |-> << >>])
    /\ answered' = answered \cup {c}
    /\ UNCHANGED <<sent, cids, ch, streams, callVars, socketVars>>

ServePong(c) ==
    /\ Open(c)
    /\ kind[c] = "ping"
    /\ Push(c, [type |-> "pong", cid |-> Low16(cid[c]), of |-> c, payload |-> << >>])
    /\ answered' = answered \cup {c}
    /\ UNCHANGED <<sent, cids, ch, streams, callVars, socketVars>>

ServeChunk(c) ==
    /\ Open(c)
    /\ kind[c] = "api"
    /\ sent[c] < MaxChunks
    /\ Push(c, [type |-> "chunk", cid |-> Low16(cid[c]), of |-> c,
                payload |-> << [of |-> c, nr |-> sent[c] + 1] >>])
    /\ sent' = [sent EXCEPT ![c] = @ + 1]
    /\ UNCHANGED <<answered, cids, ch, streams, callVars, socketVars>>

\* The final frame, with or without a payload of its own.
ServeFin(c, carries) ==
    /\ Open(c)
    /\ kind[c] = "api"
    /\ Push(c, [type |-> "fin", cid |-> Low16(cid[c]), of |-> c,
                payload |-> IF carries THEN << [of |-> c, nr |-> sent[c] + 1] >>
                                       ELSE << >>])
    /\ sent' = [sent EXCEPT ![c] = IF carries THEN @ + 1 ELSE @]
    /\ answered' = answered \cup {c}
    /\ UNCHANGED <<cids, ch, streams, callVars, socketVars>>

----------------------------------------------------------------------------
(* readLoop.                                                               *)

\* Envelopes, too, matched on the truncated cid.
TakeCidTruncated(n) == {c \in cids : Low16(cid[c]) = Low16(n)}

\* takeCid and takeRawCid: the entries a frame's cid may select.
TakeCid(n) == {c \in cids : cid[c] = n}

\* No second look by the truncated cid.
TakeRawExact(n) == TakeCid(n)
TakeRawCid(n) ==
    IF TakeCid(n) # {} THEN TakeCid(n) ELSE {c \in cids : Low16(cid[c]) = n}

\* The selected entry leaves the map and the reply goes into its channel,
\* which must have room; without an entry the reply is dropped.
Deliver(targets, reply) ==
    IF targets = {} THEN UNCHANGED <<cids, ch>>
    ELSE \E t \in targets :
            /\ ch[t] = {}
            /\ ch' = [ch EXCEPT ![t] = {reply}]
            /\ cids' = cids \ {t}

Reading(k) == wire[k] # << >>

Pull(k) == wire' = [wire EXCEPT ![k] = Tail(@)]

\* A cid-correlated envelope.
ReadEnvelope(k) ==
    /\ Reading(k)
    /\ Head(wire[k]).type = "envelope"
    /\ Pull(k)
    /\ LET f == Head(wire[k])
       IN  Deliver(TakeCid(f.cid), [of |-> f.of, raw |-> FALSE, body |-> << >>])
    /\ UNCHANGED <<streams, sent, answered, callVars, socketVars>>

\* An envelope that does not decode is logged and skipped.
SkipUndecodable(k) ==
    /\ Reading(k)
    /\ Head(wire[k]).type = "envelope"
    /\ Pull(k)
    /\ UNCHANGED <<cids, ch, streams, sent, answered, callVars, socketVars>>

ReadPong(k) ==
    /\ Reading(k)
    /\ Head(wire[k]).type = "pong"
    /\ Pull(k)
    /\ LET f == Head(wire[k])
       IN  Deliver(TakeRawCid(f.cid), [of |-> f.of, raw |-> TRUE, body |-> << >>])
    /\ UNCHANGED <<streams, sent, answered, callVars, socketVars>>

\* deliverAPIChunk, not fin: the payload joins the stream of its raw cid.
ReadChunk(k) ==
    /\ Reading(k)
    /\ Head(wire[k]).type = "chunk"
    /\ Pull(k)
    /\ LET f == Head(wire[k])
       IN  streams' = [streams EXCEPT ![k][f.cid] = @ \o f.payload]
    /\ UNCHANGED <<cids, ch, sent, answered, callVars, socketVars>>

\* deliverAPIChunk, fin: the stream is removed and the whole body delivered.
AfterFin(k, f) == [streams EXCEPT ![k][f.cid] = << >>]
\* The payload of the final frame dropped.
BodyWithoutFin(k, f) == streams[k][f.cid]
Body(k, f) == streams[k][f.cid] \o f.payload

ReadFin(k) ==
    /\ Reading(k)
    /\ Head(wire[k]).type = "fin"
    /\ Pull(k)
    /\ LET f == Head(wire[k])
       IN  /\ streams' = AfterFin(k, f)
           /\ Deliver(TakeRawCid(f.cid), [of |-> f.of, raw |-> TRUE, body |-> Body(k, f)])
    /\ UNCHANGED <<sent, answered, callVars, socketVars>>

----------------------------------------------------------------------------
Caller(c) ==
    \/ \E k \in Kinds : Register(c, k)
    \/ RefuseClosed(c)
    \/ Fail(c)
    \/ Write(c)
    \/ Receive(c)
    \/ Timeout(c)
    \/ SeeDone(c)

Server(c) ==
    \/ ServeEnvelope(c)
    \/ ServePong(c)
    \/ ServeChunk(c)
    \/ \E carries \in BOOLEAN : ServeFin(c, carries)

Reader(k) ==
    \/ ReadEnvelope(k)
    \/ SkipUndecodable(k)
    \/ ReadPong(k)
    \/ ReadChunk(k)
    \/ ReadFin(k)

Next ==
    \/ Connect
    \/ ClearConnected
    \/ \E k \in Conns : CloseDone(k) \/ Reader(k)
    \/ \E c \in Calls : Caller(c) \/ Server(c)

Spec == Init /\ [][Next]_vars

\* A caller in the final select is woken by its timer.  Nothing is assumed of the
\* server, the reader or the connection, and nothing of the write: it has no
\* deadline, and the timer is armed only after it.
Fairness == \A c \in Calls : WF_vars(Timeout(c))
FairSpec == Spec /\ Fairness

----------------------------------------------------------------------------
(* Properties.                                                             *)

\* Every variable has its type.
TypeOK ==
    /\ connected \in BOOLEAN
    /\ conn \in 0 .. MaxConns
    /\ closed \subseteq Conns
    /\ nextCid \in Nat \ {0}
    /\ cids \subseteq Calls
    /\ pc \in [Calls -> {"idle"} \cup InProgress \cup Results]
    /\ kind \in [Calls -> Kinds \cup {"none"}]
    /\ cid \in [Calls -> Nat]
    /\ on \in [Calls -> 0 .. MaxConns]
    /\ ch \in [Calls -> SUBSET Reply]
    /\ streams \in [Conns -> [RawCids -> Seq(Part)]]
    /\ wire \in [Conns -> Seq(Frame)]
    /\ sent \in [Calls -> Nat]
    /\ answered \subseteq Calls

\* As long as the counter has not given out more cids than a raw frame can tell
\* apart, the reply a caller gets is the reply to its own request, whatever
\* timed out, was dropped or was answered late before; and an envelope reply,
\* which carries the whole cid, is the caller's own for ever (takeCid,
\* takeRawCid, deliverAPIChunk).
AnswerMatches ==
    \A c \in Calls : \A r \in ch[c] :
        (~r.raw \/ nextCid <= RawMod + 1) => r.of = c

\* Under the same bound the body delivered by deliverAPIChunk is the caller's
\* own response, whole and in order: no chunk of another call, of an earlier
\* connection or of an abandoned stream is in it.
BodyWhole ==
    \A c \in Calls : \A r \in ch[c] :
        (r.raw /\ kind[c] = "api" /\ nextCid <= RawMod + 1) =>
            r.body = [i \in 1 .. sent[c] |-> [of |-> c, nr |-> i]]

\* A call that has not returned and has no reply yet can still be found by a
\* reader: no other call's timeout, failure or reply has removed its entry.
NoLostCaller ==
    \A c \in Calls : pc[c] \in InProgress /\ ch[c] = {} => c \in cids

\* A channel whose entry is still in the map is empty, so `ch <- resp' in
\* readLoop never blocks: every channel is sent to at most once.
ReaderNeverBlocks == \A c \in cids : ch[c] = {}

\* An entry outlives its call on one path only: the call returned because the
\* connection's done channel closed.
LeaksOnlyOnClose == \A c \in cids : pc[c] \in InProgress \cup {"closed"}

\* s.cids, the channels in it and the calls agree, whatever timed out, failed or
\* was answered late: no call in progress is lost to the readers, no reader blocks
\* on a channel it finds, and only a closed connection leaves an entry behind.
MapSound == NoLostCaller /\ ReaderNeverBlocks /\ LeaksOnlyOnClose

\* A complete reply read while its caller waits for it reaches that caller,
\* also at the cid that truncates to zero (an undecodable envelope aside).
ReplyReaches ==
    [][\A k \in Conns :
        (ReadEnvelope(k) \/ ReadPong(k) \/ ReadFin(k)) =>
            LET f == Head(wire[k])
            IN  /\ pc[f.of] = "waiting"
                /\ ch[f.of] = {}
                /\ f.type = "envelope" \/ nextCid <= RawMod + 1
                => ch'[f.of] # {}]_vars

\* The peer goes on reading, so that no write under writeMu blocks for ever.
WritesReturn == \A c \in Calls : WF_vars(Fail(c) \/ Write(c))

\* A caller whose write has returned gets out of sendResponse with no help from
\* the server, the reader or the connection; one that has only registered does so
\* if writes return, and has no timeout if they do not.
EveryCallReturns ==
    /\ \A c \in Calls : pc[c] = "waiting" ~> pc[c] \in Results
    /\ WritesReturn => \A c \in Calls : pc[c] \in InProgress ~> pc[c] \in Results
=============================================================================
