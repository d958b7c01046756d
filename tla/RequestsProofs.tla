--------------------------- MODULE RequestsProofs ---------------------------
(***************************************************************************)
(* Requests: what a call returns agrees with what the server did, for any  *)
(* calls and any number of connections.  The induction follows, for every  *)
(* call, which of its sends are still in flight: a send is made only when  *)
(* no earlier one that could be carried out is, except by the fallback.    *)
(* The last part is about ClanInit: every clan of a round is tried, and a  *)
(* joined clan is one that was loaded.                                     *)
(***************************************************************************)
EXTENDS MCRequests, Sequences, FiniteSetTheorems, TLAPS

Sent(c, p) == \E m \in wire : m.call = c /\ m.phase = p

\* Nothing of the present phase is in flight.
Clear(c) == \A m \in wire : m.call = c => m.phase # phase[c]

\* A call is where its phase says it is.
Shape(c) ==
    /\ phase[c] \in {"join", "again"} => c \in Chats
    /\ phase[c] = "http" => c \in ApiCalls
    /\ pc[c] = "idle" => phase[c] = "first" /\ done[c] = 0 /\ \A p \in Phases : ~Sent(c, p)
    /\ pc[c] = "send" => Clear(c)
    /\ answer[c] # {} => pc[c] = "wait" /\ Clear(c)
    /\ result[c] # "none" <=> pc[c] = "returned"

\* A send in flight belongs to this phase or to one the call has left without an
\* answer.
Flight(c) ==
    /\ Sent(c, "join") => phase[c] = "join"
    /\ Sent(c, "again") => phase[c] = "again"
    /\ Sent(c, "http") => phase[c] = "http"
    /\ Sent(c, "first") => phase[c] \in {"first", "http"}

\* What has been carried out, and what still may be.
Account(c) ==
    /\ phase[c] = "join" => done[c] = 0
    /\ pc[c] = "send" /\ phase[c] # "http" => done[c] = 0
    /\ phase[c] # "http" =>
           done[c] <= 1 /\ (Sent(c, "first") \/ Sent(c, "again") => done[c] = 0)
    /\ phase[c] = "http" /\ pc[c] = "send" =>
           done[c] <= 1 /\ (Sent(c, "first") => done[c] = 0)
    /\ phase[c] = "http" =>
           /\ done[c] <= 2
           /\ Sent(c, "first") \/ Sent(c, "http") => done[c] <= 1
           /\ Sent(c, "first") /\ Sent(c, "http") => done[c] = 0

\* The answer at hand and the result are true.
Truth(c) ==
    /\ answer[c] \cap {"ok", "garbled"} # {} /\ phase[c] # "join" => done[c] >= 1
    /\ answer[c] \cap {"refused", "invalid", "mustjoin"} # {} /\ phase[c] # "http" => done[c] = 0
    /\ result[c] = "ok" => done[c] >= 1
    /\ result[c] \in {"refused", "invalid", "mustjoin"} /\ phase[c] # "http" =>
           done[c] = 0 /\ phase[c] # "join" /\ Clear(c)

\* The server has the bot in the channel on the connection the call joined on.
Joins(c) ==
    /\ phase[c] = "again" => joinedOn[c] \in joined
    /\ phase[c] = "join" /\ "ok" \in answer[c] => on[c] \in joined
    /\ "mustjoin" \in answer[c] =>
           c \in Chats /\ phase[c] # "join" /\ (phase[c] = "again" => joinedOn[c] # on[c])
    /\ result[c] = "mustjoin" => phase[c] = "again" /\ joinedOn[c] # on[c]

Good(c) == Shape(c) /\ Flight(c) /\ Account(c) /\ Truth(c) /\ Joins(c)

Unique == \A m, n \in wire : m.call = n.call /\ m.phase = n.phase => m = n

Inv == TypeOK /\ Unique /\ \A c \in Calls : Good(c)

----------------------------------------------------------------------------
\* A step of another call, or of the server for another call, keeps what is known
\* of call d.
LEMMA Frame ==
    ASSUME NEW d \in Calls, Good(d), joined \subseteq joined',
           pc'[d] = pc[d], phase'[d] = phase[d], on'[d] = on[d], answer'[d] = answer[d],
           result'[d] = result[d], joinedOn'[d] = joinedOn[d], done'[d] = done[d],
           \A m : m.call = d => (m \in wire' <=> m \in wire)
    PROVE  Good(d)'
<1>1. (\A p : Sent(d, p)' <=> Sent(d, p)) /\ (Clear(d)' <=> Clear(d))
  BY DEF Sent, Clear
<1>2. Shape(d)' /\ Flight(d)'
  BY <1>1 DEF Good, Shape, Flight
<1>3. Account(d)'
  BY <1>1 DEF Good, Account
<1>4. Truth(d)' /\ Joins(d)'
  BY <1>1 DEF Good, Truth, Joins
<1> QED BY <1>2, <1>3, <1>4 DEF Good

\* The initial states.
LEMMA InitInv == Init => Inv
<1> SUFFICES ASSUME Init PROVE Inv
  OBVIOUS
<1>1. TypeOK
  <2>1. answer \in [Calls -> SUBSET Answers]
    BY DEF Init
  <2>2. open \in BOOLEAN /\ joined \subseteq 0 .. MaxConns /\ wire \subseteq Request
    BY DEF Init
  <2>3. conn \in 0 .. MaxConns /\ on \in [Calls -> 0 .. MaxConns]
        /\ joinedOn \in [Calls -> 0 .. MaxConns] /\ done \in [Calls -> Nat]
    BY MaxConnsAssumption DEF Init
  <2>4. /\ pc \in [Calls -> {"idle", "send", "wait", "returned"}]
        /\ phase \in [Calls -> Phases]
        /\ result \in [Calls -> Results \cup {"none"}]
    BY DEF Init, Phases
  <2> QED BY <2>1, <2>2, <2>3, <2>4 DEF TypeOK
<1>2. Unique
  BY DEF Init, Unique
<1>3. ASSUME NEW c \in Calls PROVE Good(c)
  BY DEF Init, Good, Shape, Flight, Account, Truth, Joins, Sent, Clear
<1> QED BY <1>1, <1>2, <1>3 DEF Inv

\* The next send, or the return, of a call keeps its types.
LEMMA MoveType ==
    ASSUME TypeOK, NEW c \in Calls,
           (\E p \in Phases : SendNext(c, p)) \/ (\E r \in Results : Return(c, r))
    PROVE  /\ pc' \in [Calls -> {"idle", "send", "wait", "returned"}]
           /\ phase' \in [Calls -> Phases]
           /\ result' \in [Calls -> Results \cup {"none"}]
  BY DEF TypeOK, SendNext, Return

\* A call whose socket send ends without an answer.
LEMMA FailedInv ==
    ASSUME Inv, NEW c \in Calls, NEW why, Failed(c, why), phase[c] # "http",
           pc[c] \in {"send", "wait"},
           answer' = [answer EXCEPT ![c] = {}],
           UNCHANGED <<open, conn, joined, on, joinedOn, wire, done>>
    PROVE  Inv'
<1>1. (SendNext(c, "http") /\ c \in ApiCalls) \/ Return(c, "error")
  BY DEF Failed
<1>2. TypeOK'
  BY <1>1, MoveType DEF Inv, TypeOK, Phases, Results
<1>3. Unique'
  BY DEF Inv, Unique
<1>4. Good(c) /\ TypeOK
  BY DEF Inv
<1>5. \A p : Sent(c, p)' <=> Sent(c, p)
  BY DEF Sent
<1>6. ASSUME SendNext(c, "http"), c \in ApiCalls PROVE Good(c)'
  <2>1. pc'[c] = "send" /\ phase'[c] = "http" /\ answer'[c] = {} /\ result'[c] = result[c]
    BY <1>4, <1>6 DEF SendNext, TypeOK
  <2>2. ~Sent(c, "http") /\ Clear(c)' /\ result[c] = "none"
    BY <1>4, <2>1 DEF Good, Flight, Shape, Sent, Clear
  <2>3. Shape(c)' /\ Flight(c)'
    BY <1>4, <1>5, <1>6, <2>1, <2>2, DisjointAssumption DEF Good, Shape, Flight
  <2>4. Account(c)'
    BY <1>4, <1>5, <2>1, <2>2 DEF Good, Account, TypeOK
  <2>5. Truth(c)' /\ Joins(c)'
    BY <1>4, <1>5, <2>1, <2>2 DEF Good, Truth, Joins
  <2> QED BY <2>3, <2>4, <2>5 DEF Good
<1>7. ASSUME Return(c, "error") PROVE Good(c)'
  <2>1. pc'[c] = "returned" /\ phase'[c] = phase[c] /\ answer'[c] = {} /\ result'[c] = "error"
    BY <1>4, <1>7 DEF Return, TypeOK
  <2>5. Clear(c)' <=> Clear(c)
    BY <2>1 DEF Clear
  <2>2. Shape(c)' /\ Flight(c)'
    BY <1>4, <1>5, <2>1, <2>5 DEF Good, Shape, Flight
  <2>3. Account(c)'
    BY <1>4, <1>5, <2>1 DEF Good, Account
  <2>4. Truth(c)' /\ Joins(c)'
    BY <1>4, <1>5, <2>1, <2>5 DEF Good, Truth, Joins
  <2> QED BY <2>2, <2>3, <2>4 DEF Good
<1>8. ASSUME NEW d \in Calls, d # c PROVE Good(d)'
  <2>1. /\ pc'[d] = pc[d] /\ phase'[d] = phase[d] /\ result'[d] = result[d]
        /\ answer'[d] = answer[d]
    BY <1>1, <1>4, <1>8 DEF SendNext, Return, TypeOK
  <2>2. Good(d)
    BY DEF Inv
  <2> QED BY <2>1, <2>2, Frame
<1> QED BY <1>1, <1>2, <1>3, <1>6, <1>7, <1>8 DEF Inv

\* A call ends with an error before its first send, or after an HTTP request
\* without an answer.
LEMMA ErrorInv ==
    ASSUME Inv, NEW c \in Calls, pc[c] # "returned", Return(c, "error"),
           answer' = [answer EXCEPT ![c] = {}],
           UNCHANGED <<open, conn, joined, on, joinedOn, wire, done>>
    PROVE  Inv'
<1>1. Good(c) /\ TypeOK
  BY DEF Inv
<1>2. TypeOK'
  BY <1>1, MoveType DEF TypeOK, Results
<1>3. Unique'
  BY DEF Inv, Unique
<1>4. pc'[c] = "returned" /\ phase'[c] = phase[c] /\ answer'[c] = {} /\ result'[c] = "error"
  BY <1>1 DEF Return, TypeOK
<1>5. (\A p : Sent(c, p)' <=> Sent(c, p)) /\ (Clear(c)' <=> Clear(c))
  BY <1>4 DEF Sent, Clear
<1>6. Good(c)'
  <2>1. Shape(c)' /\ Flight(c)'
    BY <1>1, <1>4, <1>5 DEF Good, Shape, Flight
  <2>2. Account(c)'
    BY <1>1, <1>4, <1>5 DEF Good, Account
  <2>3. Truth(c)' /\ Joins(c)'
    BY <1>1, <1>4, <1>5 DEF Good, Truth, Joins
  <2> QED BY <2>1, <2>2, <2>3 DEF Good
<1>7. ASSUME NEW d \in Calls, d # c PROVE Good(d)'
  <2>1. /\ pc'[d] = pc[d] /\ phase'[d] = phase[d] /\ result'[d] = result[d]
        /\ answer'[d] = answer[d]
    BY <1>1, <1>7 DEF Return, TypeOK
  <2>2. Good(d)
    BY DEF Inv
  <2> QED BY <2>1, <2>2, Frame
<1> QED BY <1>2, <1>3, <1>6, <1>7 DEF Inv

\* The first send of a call.
LEMMA StartInv == ASSUME Inv, NEW c \in Calls, Start(c) PROVE Inv'
<1>0. CASE Return(c, "error")
  <2>1. answer' = [answer EXCEPT ![c] = {}]
    BY DEF Start, Inv, Good, Shape, TypeOK
  <2> QED BY <1>0, <2>1, ErrorInv DEF Start
<1>s. SUFFICES ASSUME ~Return(c, "error") PROVE Inv'
  BY <1>0
<1>1. PICK p \in {"first", "http"} : SendNext(c, p) /\ (p = "http" => c \in ApiCalls)
  BY <1>s DEF Start
<1>2. Good(c) /\ TypeOK
  BY DEF Inv
<1>3. TypeOK'
  <2>1. p \in Phases
    BY DEF Phases
  <2> QED BY <1>1, <1>2, <2>1, MoveType DEF Start, TypeOK
<1>4. Unique'
  BY DEF Inv, Unique, Start
<1>5. /\ pc[c] = "idle" /\ pc'[c] = "send" /\ phase'[c] = p /\ result'[c] = result[c]
      /\ UNCHANGED <<on, answer, joined, joinedOn, done, wire>>
  BY <1>1, <1>2 DEF Start, SendNext, TypeOK
<1>6. (\A q : Sent(c, q)' <=> Sent(c, q)) /\ \A q \in Phases : ~Sent(c, q)
  BY <1>2, <1>5 DEF Sent, Good, Shape
<1>7. Clear(c)'
  BY <1>2, <1>5, <1>6 DEF Clear, Sent, TypeOK, Request
<1>8. Good(c)'
  BY <1>1, <1>2, <1>5, <1>6, <1>7 DEF Good, Shape, Flight, Account, Truth, Joins, Phases
<1>9. ASSUME NEW d \in Calls, d # c PROVE Good(d)'
  <2>1. pc'[d] = pc[d] /\ phase'[d] = phase[d] /\ result'[d] = result[d]
    BY <1>1, <1>2, <1>9 DEF SendNext, TypeOK
  <2>2. Good(d)
    BY DEF Inv
  <2> QED BY <1>5, <2>1, <2>2, Frame
<1> QED BY <1>3, <1>4, <1>8, <1>9 DEF Inv

\* A request goes out, over the socket or as an HTTP request.
LEMMA OutInv ==
    ASSUME Inv, NEW c \in Calls, NEW k \in 0 .. MaxConns,
           pc[c] = "send", pc' = [pc EXCEPT ![c] = "wait"],
           wire' = wire \cup {[call |-> c, phase |-> phase[c], on |-> k]},
           on' = on \/ on' = [on EXCEPT ![c] = k],
           UNCHANGED <<open, conn, joined, phase, answer, result, joinedOn, done>>
    PROVE  Inv'
<1>1. Good(c) /\ TypeOK
  BY DEF Inv
<1>2. TypeOK'
  BY <1>1 DEF TypeOK, Request
<1>3. Clear(c)
  BY <1>1 DEF Good, Shape
<1>4. Unique'
  BY <1>3 DEF Inv, Unique, Clear
<1>5. pc'[c] = "wait" /\ phase'[c] = phase[c] /\ answer[c] = {} /\ result[c] = "none"
  BY <1>1 DEF TypeOK, Good, Shape
<1>6. \A p : Sent(c, p)' <=> (p = phase[c] \/ Sent(c, p))
  <2> DEFINE r == [call |-> c, phase |-> phase[c], on |-> k]
  <2>1. r.call = c /\ r.phase = phase[c] /\ wire' = wire \cup {r}
    OBVIOUS
  <2> HIDE DEF r
  <2> QED BY <2>1 DEF Sent
<1>7. \A p : p = phase[c] => ~Sent(c, p)
  BY <1>3 DEF Sent, Clear
<1>8. Good(c)'
  <2>1. Shape(c)' /\ Flight(c)'
    BY <1>1, <1>5, <1>6, <1>7 DEF Good, Shape, Flight
  <2>2. Account(c)'
    BY <1>1, <1>5, <1>6, <1>7 DEF Good, Shape, Flight, Account, TypeOK
  <2>3. Truth(c)' /\ Joins(c)'
    BY <1>1, <1>5, <1>6 DEF Good, Truth, Joins
  <2> QED BY <2>1, <2>2, <2>3 DEF Good
<1>9. ASSUME NEW d \in Calls, d # c PROVE Good(d)'
  <2>1. pc'[d] = pc[d] /\ on'[d] = on[d]
    BY <1>1, <1>9 DEF TypeOK
  <2>2. \A m : m.call = d => (m \in wire' <=> m \in wire)
    BY <1>9
  <2>3. Good(d)
    BY DEF Inv
  <2> QED BY <2>1, <2>2, <2>3, Frame
<1> QED BY <1>2, <1>4, <1>8, <1>9 DEF Inv

\* An answer is read: the call returns, joins, or sends again.
LEMMA ReceiveInv == ASSUME Inv, NEW c \in Calls, Receive(c) PROVE Inv'
<1>1. PICK a \in answer[c] :
        /\ \/ MustJoin(c, a) /\ SendNext(c, "join")
           \/ phase[c] = "join" /\ a = "ok" /\ SendNext(c, "again")
           \/ phase[c] = "join" /\ a # "ok" /\ Return(c, "joinfailed")
           \/ phase[c] # "join" /\ ~MustJoin(c, a) /\ Return(c, a)
        /\ joinedOn' = IF phase[c] = "join" /\ a = "ok"
                       THEN [joinedOn EXCEPT ![c] = on[c]] ELSE joinedOn
  BY DEF Receive
<1>2. /\ pc[c] = "wait" /\ answer' = [answer EXCEPT ![c] = {}]
      /\ UNCHANGED <<open, conn, joined, on, wire, done>>
  BY DEF Receive
<1>3. Good(c) /\ TypeOK
  BY DEF Inv
<1>4. a \in Answers /\ answer'[c] = {} /\ Clear(c)
  BY <1>1, <1>2, <1>3 DEF TypeOK, Good, Shape
<1>5. TypeOK'
  <2>1. joinedOn' \in [Calls -> 0 .. MaxConns] /\ answer' \in [Calls -> SUBSET Answers]
    BY <1>1, <1>2, <1>3 DEF TypeOK
  <2>2. (\E p \in Phases : SendNext(c, p)) \/ (\E r \in Results : Return(c, r))
    BY <1>1, <1>4 DEF Phases, Results
  <2> QED BY <1>2, <1>3, <2>1, <2>2, MoveType DEF TypeOK
<1>6. Unique'
  BY <1>2 DEF Inv, Unique
<1>7. \A p : Sent(c, p)' <=> Sent(c, p)
  BY <1>2 DEF Sent
<1>8. ~Sent(c, phase[c])
  BY <1>4 DEF Sent, Clear
<1>9. ASSUME MustJoin(c, a), SendNext(c, "join") PROVE Good(c)'
  <2>1. /\ pc'[c] = "send" /\ phase'[c] = "join" /\ result'[c] = result[c]
        /\ phase[c] = "first" /\ c \in Chats /\ a \in {"mustjoin", "invalid"}
    BY <1>3, <1>9 DEF SendNext, MustJoin, TypeOK
  <2>2. done[c] = 0 /\ result[c] = "none"
    BY <1>1, <1>2, <1>3, <2>1 DEF Good, Truth, Shape
  <2>3. \A p \in Phases : ~Sent(c, p)
    BY <1>3, <1>8, <2>1 DEF Good, Flight, Phases
  <2>4. Clear(c)'
    BY <1>2, <1>3, <2>1, <2>3 DEF Clear, Sent, TypeOK, Request
  <2> QED BY <1>2, <1>3, <1>4, <1>7, <2>1, <2>2, <2>3, <2>4
       DEF Good, Shape, Flight, Account, Truth, Joins, Phases
<1>10. ASSUME phase[c] = "join", a = "ok", SendNext(c, "again") PROVE Good(c)'
  <2>1. /\ pc'[c] = "send" /\ phase'[c] = "again" /\ result'[c] = result[c]
        /\ joinedOn'[c] = on[c]
    BY <1>1, <1>3, <1>10 DEF SendNext, TypeOK
  <2>2. done[c] = 0 /\ result[c] = "none" /\ c \in Chats /\ on[c] \in joined
    BY <1>1, <1>2, <1>3, <1>10 DEF Good, Account, Shape, Joins
  <2>3. \A p \in Phases : ~Sent(c, p)
    BY <1>3, <1>8, <1>10 DEF Good, Flight, Phases
  <2>4. Clear(c)'
    BY <1>2, <1>3, <2>1, <2>3 DEF Clear, Sent, TypeOK, Request
  <2> QED BY <1>2, <1>3, <1>4, <1>7, <2>1, <2>2, <2>3, <2>4
       DEF Good, Shape, Flight, Account, Truth, Joins, Phases
<1>11. ASSUME NEW r \in Results, Return(c, r),
              r = "joinfailed" \/ (r = a /\ phase[c] # "join" /\ ~MustJoin(c, a))
       PROVE  Good(c)'
  <2>1. /\ pc'[c] = "returned" /\ phase'[c] = phase[c] /\ result'[c] = r
        /\ r # "none" /\ (Clear(c)' <=> Clear(c))
    BY <1>2, <1>3, <1>11 DEF Return, TypeOK, Results, Answers, Clear
  <2>2. Shape(c)' /\ Flight(c)'
    BY <1>2, <1>3, <1>4, <1>7, <2>1 DEF Good, Shape, Flight
  <2>3. Account(c)'
    BY <1>2, <1>3, <1>7, <2>1 DEF Good, Account
  <2>4. Truth(c)'
    BY <1>1, <1>2, <1>3, <1>4, <1>7, <1>11, <2>1 DEF Good, Truth
  <2>5. joinedOn'[c] = joinedOn[c] \/ r = "joinfailed"
    BY <1>1, <1>11
  <2>6. Joins(c)'
    <3>1. CASE r = "mustjoin"
      <4>1. "mustjoin" \in answer[c] /\ phase[c] # "join" /\ ~MustJoin(c, "mustjoin")
        BY <1>1, <1>11, <3>1
      <4>2. c \in Chats /\ (phase[c] = "again" => joinedOn[c] # on[c])
        BY <1>3, <4>1 DEF Good, Joins
      <4>3. phase[c] = "again"
        BY <1>3, <4>1, <4>2, DisjointAssumption DEF MustJoin, Good, Shape, TypeOK, Phases
      <4> QED BY <1>2, <1>3, <1>4, <2>1, <2>5, <3>1, <4>2, <4>3 DEF Good, Joins
    <3>2. CASE r # "mustjoin"
      <4>1. joinedOn'[c] = joinedOn[c] \/ phase[c] # "again"
        BY <1>1
      <4> QED BY <1>2, <1>3, <1>4, <2>1, <3>2, <4>1 DEF Good, Joins
    <3> QED BY <3>1, <3>2
  <2> QED BY <2>2, <2>3, <2>4, <2>6 DEF Good
<1>12. Good(c)'
  BY <1>1, <1>4, <1>9, <1>10, <1>11 DEF Results
<1>13. ASSUME NEW d \in Calls, d # c PROVE Good(d)'
  <2>1. /\ pc'[d] = pc[d] /\ phase'[d] = phase[d] /\ result'[d] = result[d]
        /\ answer'[d] = answer[d] /\ joinedOn'[d] = joinedOn[d]
    BY <1>1, <1>2, <1>3, <1>13 DEF SendNext, Return, TypeOK
  <2>2. Good(d)
    BY DEF Inv
  <2> QED BY <1>2, <2>1, <2>2, Frame
<1> QED BY <1>5, <1>6, <1>12, <1>13 DEF Inv

\* The server takes a request and may answer it.  What is left to show is that
\* the answer is true of what it did.
LEMMA ServeInv ==
    ASSUME Inv, NEW m \in wire, NEW a \in Answers, Reply(m, a),
           joined \subseteq joined', joined' \subseteq 0 .. MaxConns,
           \/ done' = done
           \/ m.phase # "join" /\ done' = [done EXCEPT ![m.call] = @ + 1],
           a \in {"ok", "garbled"} => m.phase = "join" \/ done' # done,
           a \in {"refused", "invalid", "mustjoin"} => done' = done,
           a = "ok" /\ m.phase = "join" => m.on \in joined',
           a = "mustjoin" => m.call \in Chats /\ m.phase # "join" /\ m.on \notin joined
    PROVE  Inv'
<1> DEFINE c == m.call
<1>1. /\ TypeOK /\ c \in Calls /\ m.phase \in Phases /\ Good(c) /\ Unique
  BY DEF Inv, TypeOK, Request
<1>2. /\ wire' = wire \ {m}
      /\ UNCHANGED <<open, conn, pc, phase, on, result, joinedOn>>
      /\ answer' = answer \/ (Awaited(m) /\ answer' = [answer EXCEPT ![c] = {a}])
  BY DEF Reply
<1>3. TypeOK'
  <2>1. done' \in [Calls -> Nat]
    BY <1>1 DEF TypeOK
  <2>2. answer' \in [Calls -> SUBSET Answers]
    BY <1>1, <1>2 DEF TypeOK
  <2> QED BY <1>1, <1>2, <2>1, <2>2 DEF TypeOK
<1>4. Unique'
  BY <1>1, <1>2 DEF Unique
<1>5. \A p : Sent(c, p)' <=> (Sent(c, p) /\ p # m.phase)
  BY <1>1, <1>2 DEF Sent, Unique
<1>6. Sent(c, m.phase)
  BY DEF Sent
<1>7. Clear(c) => Clear(c)'
  BY <1>2 DEF Clear
<1>8. Awaited(m) => pc[c] = "wait" /\ phase[c] = m.phase /\ Clear(c)'
                    /\ (m.phase = "http" \/ m.on = on[c])
  BY <1>1, <1>2 DEF Awaited, Clear, Unique
<1>9. done'[c] = done[c] \/ (m.phase # "join" /\ done'[c] = done[c] + 1)
  BY <1>1 DEF TypeOK
<1>10. answer'[c] = answer[c] \/ (Awaited(m) /\ answer'[c] = {a})
  BY <1>1, <1>2 DEF TypeOK
<1>11. pc'[c] = pc[c] /\ phase'[c] = phase[c] /\ on'[c] = on[c] /\ result'[c] = result[c]
       /\ joinedOn'[c] = joinedOn[c] /\ done[c] \in Nat /\ phase[c] \in Phases
  BY <1>1, <1>2 DEF TypeOK
<1> HIDE DEF c
<1>12. Shape(c)' /\ Flight(c)'
  <2>1. pc[c] # "idle"
    BY <1>1, <1>6 DEF Good, Shape
  <2> QED BY <1>1, <1>5, <1>7, <1>8, <1>10, <1>11, <2>1 DEF Good, Shape, Flight
<1>13. Account(c)'
  <2>1. m.phase = "join" \/ m.phase = "first" \/ m.phase = "again" \/ m.phase = "http"
    BY <1>1 DEF Phases
  <2>2. CASE m.phase = "join"
    BY <1>1, <1>5, <1>9, <1>11, <2>2 DEF Good, Account
  <2>3. CASE m.phase = "first"
    <3>1. phase[c] \in {"first", "http"} /\ (phase[c] = "first" => pc[c] # "send")
      BY <1>1, <1>6, <2>3 DEF Good, Flight, Shape, Clear, Sent, c
    <3> QED BY <1>1, <1>5, <1>6, <1>9, <1>11, <2>3, <3>1 DEF Good, Account, Flight
  <2>4. CASE m.phase = "again"
    <3>1. phase[c] = "again" /\ pc[c] # "send"
      BY <1>1, <1>6, <2>4 DEF Good, Flight, Shape, Clear, Sent, c
    <3> QED BY <1>1, <1>5, <1>6, <1>9, <1>11, <2>4, <3>1 DEF Good, Account, Flight
  <2>5. CASE m.phase = "http"
    <3>1. phase[c] = "http" /\ pc[c] # "send"
      BY <1>1, <1>6, <2>5 DEF Good, Flight, Shape, Clear, Sent, c
    <3> QED BY <1>1, <1>5, <1>6, <1>9, <1>11, <2>5, <3>1 DEF Good, Account, Flight
  <2> QED BY <2>1, <2>2, <2>3, <2>4, <2>5
<1>14. Truth(c)'
  <2>1. m.phase # "join" /\ phase[c] # "http" => done[c] = 0
    BY <1>1, <1>6 DEF Good, Account, Flight, Phases
  <2>2. m.phase # phase[c] \/ answer[c] = {}
    BY <1>1 DEF Good, Shape, Clear, c
  <2>3. phase[c] # "http" => m.phase = phase[c]
    BY <1>1, <1>6 DEF Good, Flight, Phases
  <2>4. done' # done => done'[c] = done[c] + 1
    BY <1>1 DEF c, TypeOK
  <2>5. done' = done => done'[c] = done[c]
    OBVIOUS
  <2>6. result[c] \in {"refused", "invalid", "mustjoin"} => phase[c] = "http"
    BY <1>1, <2>3 DEF Good, Truth, Clear, c
  <2>7. /\ answer'[c] \cap {"ok", "garbled"} # {} /\ phase'[c] # "join" => done'[c] >= 1
    BY <1>1, <1>8, <1>9, <1>10, <1>11, <2>4 DEF Good, Truth
  <2>8. answer'[c] \cap {"refused", "invalid", "mustjoin"} # {} /\ phase'[c] # "http"
          => done'[c] = 0
    BY <1>1, <1>8, <1>9, <1>10, <1>11, <2>1, <2>2, <2>3, <2>5 DEF Good, Account
  <2>9. result'[c] = "ok" => done'[c] >= 1
    BY <1>1, <1>9, <1>11 DEF Good, Truth
  <2> QED BY <1>11, <2>6, <2>7, <2>8, <2>9 DEF Truth
<1>15. Joins(c)'
  <2>1. "mustjoin" \in answer'[c] =>
            c \in Chats /\ phase[c] # "join" /\ (phase[c] = "again" => joinedOn[c] # on[c])
    BY <1>1, <1>8, <1>10 DEF Good, Joins, c
  <2>2. phase[c] = "join" /\ "ok" \in answer'[c] => on[c] \in joined'
    BY <1>1, <1>8, <1>10 DEF Good, Joins
  <2> QED BY <1>1, <1>11, <2>1, <2>2 DEF Good, Joins
<1>16. ASSUME NEW d \in Calls, d # c PROVE Good(d)'
  <2>1. done'[d] = done[d] /\ answer'[d] = answer[d]
    BY <1>1, <1>2, <1>16 DEF TypeOK, c
  <2>2. \A n : n.call = d => (n \in wire' <=> n \in wire)
    BY <1>2, <1>16 DEF c
  <2>3. Good(d)
    BY DEF Inv
  <2> QED BY <1>2, <2>1, <2>2, <2>3, Frame
<1> QED BY <1>1, <1>3, <1>4, <1>12, <1>13, <1>14, <1>15, <1>16 DEF Inv, Good

\* A step that changes only the connection.
LEMMA ConnectionInv ==
    ASSUME Inv, conn' \in 0 .. MaxConns, open' \in BOOLEAN,
           UNCHANGED <<joined, pc, phase, on, answer, result, joinedOn, wire, done>>
    PROVE  Inv'
<1>1. TypeOK' /\ Unique'
  BY DEF Inv, TypeOK, Unique
<1>2. ASSUME NEW d \in Calls PROVE Good(d)'
  BY Frame DEF Inv
<1> QED BY <1>1, <1>2 DEF Inv

\* Every step keeps the invariant.
LEMMA NextInv == Inv /\ [Next]_vars => Inv'
<1> SUFFICES ASSUME Inv, [Next]_vars PROVE Inv'
  OBVIOUS
<1>1. CASE Connect \/ Drop \/ UNCHANGED vars
  <2>1. conn' \in 0 .. MaxConns /\ open' \in BOOLEAN
    <3>1. conn \in 0 .. MaxConns /\ open \in BOOLEAN
      BY DEF Inv, TypeOK
    <3>2. CASE Connect
      BY <3>1, <3>2, MaxConnsAssumption DEF Connect
    <3>3. CASE Drop \/ UNCHANGED vars
      BY <3>1, <3>3 DEF Drop, vars
    <3> QED BY <1>1, <3>2, <3>3
  <2> QED BY <1>1, <2>1, ConnectionInv DEF Connect, Drop, vars
<1>2. ASSUME NEW c \in Calls, Call(c) PROVE Inv'
  <2>1. CASE Start(c)
    BY <2>1, StartInv
  <2>2. CASE SendClosed(c) \/ WriteFails(c)
    <3>1. answer' = [answer EXCEPT ![c] = {}]
      BY <2>2 DEF SendClosed, WriteFails, Inv, TypeOK, Good, Shape
    <3> QED BY <2>2, <3>1, FailedInv DEF SendClosed, WriteFails
  <2>3. CASE Write(c)
    <3>1. conn \in 0 .. MaxConns
      BY DEF Inv, TypeOK
    <3> QED BY <2>3, <3>1, OutInv DEF Write
  <2>4. CASE Post(c)
    <3>1. 0 \in 0 .. MaxConns
      BY MaxConnsAssumption
    <3> QED BY <2>4, <3>1, OutInv DEF Post
  <2>5. CASE SeeDone(c)
    BY <2>5, FailedInv DEF SeeDone
  <2>6. CASE TimeOut(c)
    BY <2>6, FailedInv, ErrorInv DEF TimeOut
  <2>7. CASE Receive(c)
    BY <2>7, ReceiveInv
  <2> QED BY <1>2, <2>1, <2>2, <2>3, <2>4, <2>5, <2>6, <2>7 DEF Call
<1>3. ASSUME NEW m \in wire, Server(m) PROVE Inv'
  <2>0. /\ joined \subseteq 0 .. MaxConns /\ m \in Request /\ {"ok", "garbled"} \subseteq Answers
        /\ {"refused", "invalid", "mustjoin"} \subseteq Answers /\ done \in [Calls -> Nat]
    BY DEF Inv, TypeOK, Answers
  <2>1. CASE Carry(m)
    <3>1. done' # done
      <4>1. done'[m.call] = done[m.call] + 1 /\ done[m.call] \in Nat
        BY <2>0, <2>1 DEF Carry, Request
      <4> QED BY <4>1
    <3>2. PICK a \in {"ok", "garbled"} : Reply(m, a)
      BY <2>1 DEF Carry
    <3>3. m.phase # "join" /\ joined' = joined /\ done' = [done EXCEPT ![m.call] = @ + 1]
      BY <2>1 DEF Carry
    <3> QED BY <2>0, <3>1, <3>2, <3>3, ServeInv
  <2>2. CASE Join(m)
    <3>1. Good(m.call) /\ m.call \in Calls
      BY <2>0 DEF Inv, Request
    <3>2. m.call \in Chats /\ m.phase = "join"
      BY <2>2, <3>1 DEF Join, Good, Shape, Flight, Sent
    <3>3. m.on \in 0 .. MaxConns
      BY <2>0 DEF Request
    <3> QED BY <2>0, <2>2, <3>2, <3>3, ServeInv DEF Join
  <2>3. CASE Unjoined(m)
    BY <2>0, <2>3, ServeInv DEF Unjoined
  <2>4. CASE Refuse(m)
    <3>1. PICK a \in {"refused", "invalid"} : Reply(m, a)
      BY <2>4 DEF Refuse
    <3>2. joined' = joined /\ done' = done
      BY <2>4 DEF Refuse
    <3> QED BY <2>0, <3>1, <3>2, ServeInv
  <2> QED BY <1>3, <2>1, <2>2, <2>3, <2>4 DEF Server
<1> QED BY <1>1, <1>2, <1>3 DEF Next

----------------------------------------------------------------------------
\* Every variable keeps its type.
THEOREM TypeCorrect == Spec => []TypeOK
<1>1. Inv => TypeOK
  BY DEF Inv
<1> QED BY <1>1, InitInv, NextInv, PTL DEF Spec

\* A chat message, an edit, a deletion or a reaction is carried out at most once
\* (WriteChatMessage's retry included), for any calls and connections.
THEOREM PostedCorrect == Spec => []PostedOnce
<1>1. Inv => PostedOnce
  <2> SUFFICES ASSUME Inv, NEW c \in Chats \cup Edits PROVE done[c] <= 1
    BY DEF PostedOnce
  <2>1. c \in Calls /\ c \notin ApiCalls
    BY DisjointAssumption DEF Calls
  <2> QED BY <2>1 DEF Inv, Good, Shape, Account
<1> QED BY <1>1, InitInv, NextInv, PTL DEF Spec

\* doProto has a request carried out at most twice, and a second time only after
\* it went on to HTTP.
THEOREM RepeatedCorrect == Spec => []RepeatedOnlyByFallback
<1>1. Inv => RepeatedOnlyByFallback
  BY DEF Inv, Good, Account, RepeatedOnlyByFallback, Calls
<1> QED BY <1>1, InitInv, NextInv, PTL DEF Spec

\* What a call returns is true of what the server did with its request.
THEOREM ResultCorrect == Spec => []ResultTrue
<1>1. Inv => ResultTrue
  <2> SUFFICES ASSUME Inv, NEW c \in Calls
               PROVE  /\ result[c] = "ok" => done[c] >= 1
                      /\ result[c] \in {"refused", "invalid", "mustjoin"} /\ phase[c] # "http" =>
                             done[c] = 0 /\ ~\E m \in wire : m.call = c
    BY DEF ResultTrue
  <2>1. Good(c) /\ wire \subseteq Request
    BY DEF Inv, TypeOK
  <2>2. \A m \in wire : m.call = c => Sent(c, m.phase) /\ m.phase \in Phases
    BY <2>1 DEF Sent, Request
  <2>3. ASSUME result[c] \in {"refused", "invalid", "mustjoin"}, phase[c] # "http",
               NEW m \in wire, m.call = c
        PROVE  FALSE
    <3>1. m.phase = phase[c]
      BY <2>1, <2>2, <2>3 DEF Good, Flight, Phases
    <3> QED BY <2>1, <2>3, <3>1 DEF Good, Truth, Clear
  <2> QED BY <2>1, <2>3 DEF Good, Truth
<1> QED BY <1>1, InitInv, NextInv, PTL DEF Spec

\* WriteChatMessage returns "must join" only when the connection it joined on was
\* replaced.
THEOREM JoinCorrect == Spec => []JoinHelps
<1>1. Inv => JoinHelps
  BY DEF Inv, Good, Joins, JoinHelps, Calls
<1> QED BY <1>1, InitInv, NextInv, PTL DEF Spec
----------------------------------------------------------------------------
(* ClanInit, in the behaviours of MCRequests.  The induction follows each  *)
(* call of connectSocket through its list of clans: which of them have an  *)
(* object, which are still to be tried in this round, and how often each   *)
(* has been; and it follows which calls overlapped.                        *)

\* Every variable of ClanInit has its type.
JobPcs == {"idle", "list", "look", "make", "init", "reload", "join", "ended"}
Job == [pc : JobPcs, list : Seq(C!All), todo : Seq(C!All), failed : Seq(C!All), attempt : Nat, obj : Nat]

ClanTypes ==
    /\ clanOf \in [C!All -> Nat] /\ made \in Nat /\ chats \subseteq C!All
    /\ job \in [C!Threads -> Job]
    /\ tries \in [Connectors -> [C!All -> Nat]] /\ won \in [Connectors -> SUBSET C!All]

Once(s) == \A i, j \in DOMAIN s : s[i] = s[j] => i = j
Ensuring(t) == job[t].pc \in {"look", "make"}
Initing(t) == job[t].pc \in {"init", "reload", "join"}
Todo(t) == C!Elements(job[t].todo)
Listed(t) == C!Elements(job[t].list)
Left(t) == C!Elements(job[t].failed)

\* There is a clan at hand; only connectSocket lists and joins.
ClanShape(t) ==
    /\ Ensuring(t) \/ Initing(t) => job[t].todo # <<>>
    /\ t \in Builders => job[t].pc \in {"idle", "look", "make", "ended"}
    /\ t \in Connectors /\ Ensuring(t) => job[t].list # <<>>
    /\ Once(job[t].list)
    /\ job[t].pc \in {"idle", "list"} => job[t].list = <<>>

\* ensureClanObjects has left an object for every clan it has passed.
ClanMade(t) ==
    /\ t \in Connectors /\ Ensuring(t) => \A c \in Listed(t) \ Todo(t) : clanOf[c] # 0
    /\ Initing(t) => \A c \in Listed(t) : clanOf[c] # 0

\* In a round: what is tried once more and what is not.
Again(t, c) == c \in Left(t) \/ (c = Head(job[t].todo) /\ ~C!At(t, "init"))

\* A round's clans are those the call has not joined, each there once, and each
\* has been tried in every round so far.
ClanRound(t) ==
    /\ job[t].pc \in {"idle", "list", "look", "make"} =>
           won[t] = {} /\ tries[t] = [c \in C!All |-> 0] /\ job[t].failed = <<>> /\ job[t].attempt = 0
    /\ \A c \in won[t] : tries[t][c] = 0
    /\ Initing(t) =>
           /\ Once(job[t].todo) /\ Once(job[t].failed) /\ Todo(t) \cap Left(t) = {}
           /\ Todo(t) \cup Left(t) = Listed(t) \ won[t]
           /\ job[t].attempt <= Rounds
           /\ \A c \in Todo(t) \cup Left(t) : tries[t][c] = job[t].attempt + (IF Again(t, c) THEN 1 ELSE 0)
    /\ C!At(t, "ended") => \A c \in Listed(t) \ won[t] : tries[t][c] = Rounds + 1

\* The channels of the clan at hand are being loaded, or are.
ClanLoaded(t) ==
    LET c == Head(job[t].todo)
    IN  /\ C!At(t, "reload") => c \in remade \/ job[t].obj = clanOf[c]
        /\ C!At(t, "join") => c \in {Global} \cup remade \/ clanOf[c] \in loaded

\* A call that overlaps another knows; one that is about to make an object for a clan
\* that has one does overlap another.
ClanCrossed(t) ==
    /\ t \in C!Active => \A u \in C!Active \ {t} : t \in crossed
    /\ C!At(t, "make") /\ clanOf[Head(job[t].todo)] # 0 => t \in crossed

ClanJoined == \A c \in chats : clanOf[c] # 0 /\ (c \in {Global} \cup remade \/ clanOf[c] \in loaded)

ClanInv ==
    /\ ClanTypes /\ ClanJoined
    /\ \A t \in C!Threads : ClanShape(t) /\ ClanMade(t) /\ ClanLoaded(t) /\ ClanCrossed(t)
    /\ \A t \in Connectors : ClanRound(t)

\* Taking the first clan off a list.
LEMMA TakeFirst ==
    ASSUME NEW S, NEW s \in Seq(S), s # <<>>
    PROVE  /\ Head(s) \in S /\ Head(s) \in C!Elements(s)
           /\ Tail(s) \in Seq(S) /\ C!Elements(s) = {Head(s)} \cup C!Elements(Tail(s))
           /\ Len(s) > 1 => Tail(s) # <<>>
           /\ ~(Len(s) > 1) => C!Elements(Tail(s)) = {}
           /\ Once(s) => Once(Tail(s)) /\ Head(s) \notin C!Elements(Tail(s))
<1>1. /\ Tail(s) \in Seq(S) /\ Len(Tail(s)) = Len(s) - 1
      /\ \A i \in 1 .. Len(s) - 1 : Tail(s)[i] = s[i + 1]
      /\ Len(s) \in Nat /\ Len(s) > 0 /\ Head(s) = s[1] /\ s[1] \in S
      /\ DOMAIN s = 1 .. Len(s) /\ DOMAIN Tail(s) = 1 .. Len(s) - 1
  OBVIOUS
<1>2. Head(s) \in C!Elements(s)
  BY <1>1 DEF C!Elements
<1>3. C!Elements(Tail(s)) \subseteq C!Elements(s)
  BY <1>1 DEF C!Elements
<1>4. ASSUME NEW x \in C!Elements(s), x # Head(s) PROVE x \in C!Elements(Tail(s))
  <2>1. PICK i \in 1 .. Len(s) : x = s[i]
    BY <1>1 DEF C!Elements
  <2>2. i - 1 \in 1 .. Len(s) - 1 /\ Tail(s)[i - 1] = x
    BY <1>1, <1>4, <2>1
  <2> QED BY <1>1, <2>2 DEF C!Elements
<1>5. Len(s) > 1 => Tail(s) # <<>>
  BY <1>1
<1>6. ~(Len(s) > 1) => C!Elements(Tail(s)) = {}
  BY <1>1 DEF C!Elements
<1>7. ASSUME Once(s) PROVE Once(Tail(s))
  BY <1>1, <1>7 DEF Once
<1>8. ASSUME Once(s) PROVE Head(s) \notin C!Elements(Tail(s))
  BY <1>1, <1>8 DEF Once, C!Elements
<1> QED BY <1>1, <1>2, <1>3, <1>4, <1>5, <1>6, <1>7, <1>8

\* Putting a clan at the end of a list.
LEMMA PutLast ==
    ASSUME NEW S, NEW s \in Seq(S), NEW x \in S
    PROVE  /\ Append(s, x) \in Seq(S) /\ Append(s, x) # <<>>
           /\ C!Elements(Append(s, x)) = C!Elements(s) \cup {x}
           /\ Once(s) /\ x \notin C!Elements(s) => Once(Append(s, x))
<1> DEFINE a == Append(s, x)
<1>1. /\ a \in Seq(S) /\ Len(a) = Len(s) + 1 /\ Len(s) \in Nat /\ a # <<>>
      /\ \A i \in 1 .. Len(s) : a[i] = s[i]
      /\ a[Len(s) + 1] = x
      /\ DOMAIN s = 1 .. Len(s) /\ DOMAIN a = 1 .. Len(s) + 1
  OBVIOUS
<1> HIDE DEF a
<1>2. C!Elements(a) = C!Elements(s) \cup {x}
  <2>1. C!Elements(a) \subseteq C!Elements(s) \cup {x}
    BY <1>1 DEF C!Elements
  <2>2. C!Elements(s) \subseteq C!Elements(a)
    BY <1>1 DEF C!Elements
  <2>3. x \in C!Elements(a)
    BY <1>1 DEF C!Elements
  <2> QED BY <2>1, <2>2, <2>3
<1>3. ASSUME Once(s), x \notin C!Elements(s) PROVE Once(a)
  <2>1. \A i \in 1 .. Len(s) : s[i] # x
    BY <1>1, <1>3 DEF C!Elements
  <2> QED BY <1>1, <1>3, <2>1 DEF Once
<1> QED BY <1>1, <1>2, <1>3 DEF a

\* An empty list has no elements.
LEMMA NoElements ==
    /\ C!Elements(<<>>) = {} /\ Once(<<>>)
    /\ \A S : \A s \in Seq(S) : C!Elements(s) = {} => s = <<>>
<1>1. C!Elements(<<>>) = {} /\ Once(<<>>)
  BY DEF C!Elements, Once
<1>2. ASSUME NEW S, NEW s \in Seq(S), s # <<>> PROVE C!Elements(s) # {}
  BY <1>2, TakeFirst
<1> QED BY <1>1, <1>2

----------------------------------------------------------------------------
\* What the objects and the loaded channels may do in a step.
ClanGrows ==
    /\ loaded \subseteq loaded' /\ remade \subseteq remade'
    /\ \A c \in C!All : clanOf'[c] = clanOf[c] \/ (clanOf'[c] # 0 /\ (clanOf[c] = 0 \/ c \in remade'))

\* The clan at hand in a round has an object.
LEMMA AtHand ==
    ASSUME ClanInv, NEW t \in C!Threads, Initing(t)
    PROVE  LET c == Head(job[t].todo) IN t \in Connectors /\ c \in Todo(t) /\ c \in C!All /\ clanOf[c] # 0
<1>1. t \in Connectors
  BY DEF ClanInv, ClanShape, Initing, C!Threads
<1>2. job[t].todo \in Seq(C!All) /\ job[t].todo # <<>>
  BY DEF ClanInv, ClanShape, ClanTypes, Job
<1>3. Head(job[t].todo) \in C!All /\ Head(job[t].todo) \in Todo(t)
  BY <1>2, TakeFirst DEF Todo
<1>4. Todo(t) \subseteq Listed(t)
  BY <1>1 DEF ClanInv, ClanRound
<1> QED BY <1>1, <1>3, <1>4 DEF ClanInv, ClanMade

\* A thread that does not move keeps what is known of it.
LEMMA ClanOther ==
    ASSUME ClanInv, NEW u \in C!Threads, job'[u] = job[u], ClanGrows,
           u \in Connectors => tries'[u] = tries[u] /\ won'[u] = won[u]
    PROVE  ClanShape(u)' /\ ClanMade(u)' /\ ClanLoaded(u)' /\ (u \in Connectors => ClanRound(u)')
<1>0. ClanShape(u) /\ ClanMade(u) /\ ClanLoaded(u) /\ (u \in Connectors => ClanRound(u))
  BY DEF ClanInv
<1>1. ClanShape(u)'
  BY <1>0 DEF ClanShape, Ensuring, Initing
<1>2. ClanMade(u)'
  <2>1. Listed(u) \subseteq C!All
    BY DEF ClanInv, ClanTypes, Job, Listed, C!Elements
  <2> QED BY <1>0, <2>1 DEF ClanMade, ClanGrows, Ensuring, Initing, Listed, Todo
<1>3. ClanLoaded(u)'
  <2>1. CASE C!At(u, "reload") \/ C!At(u, "join")
    <3>1. Head(job[u].todo) \in C!All /\ clanOf[Head(job[u].todo)] # 0
      BY <2>1, AtHand DEF Initing, C!At
    <3> QED BY <1>0, <3>1 DEF ClanLoaded, ClanGrows, C!At
  <2>2. CASE ~(C!At(u, "reload") \/ C!At(u, "join"))
    BY <2>2 DEF ClanLoaded, C!At
  <2> QED BY <2>1, <2>2
<1>4. ASSUME u \in Connectors PROVE ClanRound(u)'
  BY <1>0, <1>4 DEF ClanRound, Initing, Todo, Left, Listed, Again, C!At
<1> QED BY <1>1, <1>2, <1>3, <1>4

\* A step of thread t.
LEMMA ClanStep ==
    ASSUME ClanInv, NEW t \in C!Threads, ClanTypes', ClanJoined', ClanGrows,
           \A u \in C!Threads \ {t} : job'[u] = job[u],
           \A u \in Connectors \ {t} : tries'[u] = tries[u] /\ won'[u] = won[u],
           ClanShape(t)', ClanMade(t)', ClanLoaded(t)', t \in Connectors => ClanRound(t)',
           \A u \in C!Threads : ClanCrossed(u)'
    PROVE  ClanInv'
<1>1. ASSUME NEW u \in C!Threads \ {t}
      PROVE  ClanShape(u)' /\ ClanMade(u)' /\ ClanLoaded(u)' /\ (u \in Connectors => ClanRound(u)')
  BY ClanOther
<1>2. Connectors \subseteq C!Threads
  BY DEF C!Threads
<1>3. \A u \in C!Threads : ClanShape(u)' /\ ClanMade(u)' /\ ClanLoaded(u)' /\ (u \in Connectors => ClanRound(u)')
  BY <1>1
<1> QED BY <1>2, <1>3 DEF ClanInv

\* No call begins in the step of a call that runs.
LEMMA CrossedKept ==
    ASSUME ClanInv, NEW t \in C!Active, crossed' = crossed, clanOf' \in [C!All -> Nat],
           \A u \in C!Threads \ {t} : job'[u] = job[u],
           C!At(t, "make")' /\ clanOf'[Head(job'[t].todo)] # 0 => t \in crossed
    PROVE  \A u \in C!Threads : ClanCrossed(u)'
<1>1. C!Active' \subseteq C!Active /\ C!Active \subseteq C!Threads
  BY DEF C!Active
<1>2. ASSUME NEW u \in C!Threads, C!At(u, "make")', clanOf'[Head(job'[u].todo)] # 0 PROVE u \in crossed
  <2>1. CASE u = t
    BY <1>2, <2>1
  <2>2. CASE u # t
    <3>1. u \in C!Active
      BY <1>2, <2>2 DEF C!At, C!Active
    <3> QED BY <2>2, <3>1 DEF ClanInv, ClanCrossed
  <2> QED BY <2>1, <2>2
<1>3. ASSUME NEW u \in C!Active', NEW v \in C!Active' \ {u} PROVE u \in crossed
  BY <1>1 DEF ClanInv, ClanCrossed
<1> QED BY <1>2, <1>3 DEF ClanCrossed

----------------------------------------------------------------------------
\* A call that is not running.
LEMMA NoJobType == C!NoJob \in Job
<1>1. <<>> \in Seq(C!All)
  OBVIOUS
<1> QED BY <1>1 DEF C!NoJob, Job, JobPcs

\* Connect succeeds, or buildChannel begins: t runs, and crosses what runs.
LEMMA ClanBeginInv ==
    ASSUME ClanInv, NEW t \in C!Threads,
           (t \in Connectors /\ C!Connected(t)) \/ (t \in Builders /\ \E c \in Clans : C!Build(t, c))
    PROVE  ClanInv'
<1>1. /\ C!At(t, "idle") /\ C!Begins(t)
      /\ UNCHANGED <<clanOf, made, loaded, chats, tries, won, remade>>
  BY DEF C!Connected, C!Build
<1>2. PICK d \in Job : /\ C!Go(t, d) /\ d.list = <<>> /\ d.failed = <<>> /\ d.attempt = 0
                      /\ d.pc \in {"list", "look"} /\ (d.pc = "list" <=> t \in Connectors)
                      /\ (d.pc = "look" => d.todo # <<>>)
  <2>1. CASE t \in Connectors /\ C!Connected(t)
    <3> DEFINE d == [C!NoJob EXCEPT !.pc = "list"]
    <3>1. d \in Job /\ d.list = <<>> /\ d.failed = <<>> /\ d.attempt = 0 /\ d.pc = "list"
      BY NoJobType DEF C!NoJob, Job, JobPcs
    <3> QED BY <2>1, <3>1 DEF C!Connected
  <2>2. ASSUME t \in Builders, NEW c \in Clans, C!Build(t, c)
        PROVE \E d \in Job : /\ C!Go(t, d) /\ d.list = <<>> /\ d.failed = <<>> /\ d.attempt = 0
                             /\ d.pc = "look" /\ d.todo # <<>>
    <3> DEFINE d == [C!NoJob EXCEPT !.pc = "look", !.todo = <<c>>]
    <3>1. <<c>> \in Seq(C!All) /\ <<c>> # <<>>
      BY DEF C!All
    <3>2. d \in Job /\ d.list = <<>> /\ d.failed = <<>> /\ d.attempt = 0 /\ d.pc = "look" /\ d.todo = <<c>>
      BY <3>1, NoJobType DEF C!NoJob, Job, JobPcs
    <3> HIDE DEF d
    <3> QED BY <2>2, <3>1, <3>2 DEF C!Build, d
  <2> QED BY <2>1, <2>2, CallsAssumption
<1>3. job' \in [C!Threads -> Job] /\ job'[t] = d /\ \A u \in C!Threads \ {t} : job'[u] = job[u]
  BY <1>2 DEF C!Go, ClanInv, ClanTypes
<1>4. ClanTypes' /\ ClanJoined' /\ ClanGrows
  BY <1>1, <1>3 DEF ClanInv, ClanTypes, ClanJoined, ClanGrows
<1>5. ClanShape(t)' /\ ClanMade(t)' /\ ClanLoaded(t)'
  BY <1>2, <1>3, NoElements, CallsAssumption DEF ClanShape, ClanMade, ClanLoaded, Ensuring, Initing, Listed, C!At
<1>6. ASSUME t \in Connectors PROVE ClanRound(t)'
  <2>1. ClanRound(t) /\ job[t].pc = "idle"
    BY <1>1, <1>6 DEF ClanInv, C!At
  <2> QED BY <1>1, <1>2, <1>3, <1>6, <2>1 DEF ClanRound, Initing, C!At
<1>7. ASSUME NEW u \in C!Threads PROVE ClanCrossed(u)'
  <2>1. C!Active' = C!Active \cup {t} /\ t \notin C!Active
    BY <1>1, <1>2, <1>3 DEF C!Active, C!At
  <2>2. ASSUME NEW v \in C!Active', NEW w \in C!Active' \ {v} PROVE v \in crossed'
    <3>1. C!Active # {}
      BY <2>1, <2>2
    <3>2. crossed' = crossed \cup C!Active \cup {t}
      BY <1>1, <3>1 DEF C!Begins
    <3> QED BY <2>1, <2>2, <3>2
  <2>3. ASSUME C!At(u, "make")', clanOf'[Head(job'[u].todo)] # 0 PROVE u \in crossed'
    <3>1. u # t /\ C!At(u, "make") /\ clanOf[Head(job[u].todo)] # 0
      BY <1>1, <1>2, <1>3, <2>3 DEF C!At
    <3>2. u \in crossed
      BY <3>1 DEF ClanInv, ClanCrossed
    <3>3. crossed \subseteq crossed'
      BY <1>1 DEF C!Begins
    <3> QED BY <3>2, <3>3
  <2> QED BY <2>2, <2>3 DEF ClanCrossed
<1> QED BY <1>1, <1>3, <1>4, <1>5, <1>6, <1>7, ClanStep

\* The connection drops.
LEMMA ClanDropInv == ASSUME ClanInv, C!Drop PROVE ClanInv'
<1>1. chats' = {} /\ UNCHANGED <<clanOf, made, loaded, job, tries, won, crossed, remade>>
  BY DEF C!Drop, C!history
<1>2. ClanTypes' /\ ClanJoined' /\ ClanGrows
  BY <1>1 DEF ClanInv, ClanTypes, ClanJoined, ClanGrows
<1>3. ASSUME NEW u \in C!Threads
      PROVE  ClanShape(u)' /\ ClanMade(u)' /\ ClanLoaded(u)' /\ (u \in Connectors => ClanRound(u)')
  BY <1>1, <1>2, ClanOther
<1>4. ASSUME NEW u \in C!Threads PROVE ClanCrossed(u)'
  BY <1>1 DEF ClanInv, ClanCrossed, C!Active, C!At
<1>5. Connectors \subseteq C!Threads
  BY DEF C!Threads
<1> QED BY <1>2, <1>3, <1>4, <1>5 DEF ClanInv

\* The clans are listed.
LEMMA ClanListInv ==
    ASSUME ClanInv, NEW t \in Connectors, NEW list \in C!Lists, C!ListClans(t, list)
    PROVE  ClanInv'
<1>0. t \in C!Threads /\ t \notin Builders
  BY CallsAssumption DEF C!Threads
<1>1. C!At(t, "list") /\ crossed' = crossed /\ UNCHANGED <<clanOf, made, loaded, chats, tries, won, remade>>
  BY DEF C!ListClans, C!history
<1> DEFINE all == <<Global>> \o list
<1>2. all \in Seq(C!All) /\ all # <<>> /\ Once(all)
  <2>1. PICK n \in Nat : list \in [1 .. n -> Clans] /\ \A i, j \in DOMAIN list : i # j => list[i] # list[j]
    BY FS_CardinalityType, ClansAssumption DEF C!Lists
  <2>2. list \in Seq(Clans) /\ Len(list) = n
    BY <2>1
  <2>3. /\ all \in Seq(C!All) /\ Len(all) = n + 1 /\ all[1] = Global
        /\ \A i \in 2 .. n + 1 : all[i] = list[i - 1]
    BY <2>2 DEF C!All
  <2> HIDE DEF all
  <2>4. Once(all)
    <3> SUFFICES ASSUME NEW i \in 1 .. n + 1, NEW j \in 1 .. n + 1, i # j PROVE all[i] # all[j]
      BY <2>3 DEF Once
    <3>1. CASE i = 1 \/ j = 1
      BY <2>1, <2>3, <3>1, ClansAssumption
    <3>2. CASE i # 1 /\ j # 1
      <4>1. i - 1 \in 1 .. n /\ j - 1 \in 1 .. n /\ i - 1 # j - 1 /\ i \in 2 .. n + 1 /\ j \in 2 .. n + 1
        BY <3>2
      <4>2. list[i - 1] # list[j - 1]
        BY <2>1, <4>1
      <4> QED BY <2>3, <4>1, <4>2
    <3> QED BY <3>1, <3>2
  <2> QED BY <2>3, <2>4
<1> HIDE DEF all
<1>3. PICK d \in Job : /\ C!Go(t, d) /\ d.failed = <<>> /\ d.attempt = 0
                      /\ \/ d.pc = "ended" /\ d.list = <<>>
                         \/ d.pc = "look" /\ d.list = all /\ d.todo = all
  <2>1. job[t] \in Job /\ job[t].list = <<>> /\ job[t].failed = <<>> /\ job[t].attempt = 0
    BY <1>0, <1>1 DEF ClanInv, ClanTypes, ClanShape, ClanRound, C!At
  <2> DEFINE a == [job[t] EXCEPT !.pc = "ended"]
             b == [job[t] EXCEPT !.pc = "look", !.list = all, !.todo = all]
  <2>2. a \in Job /\ a.pc = "ended" /\ a.list = <<>> /\ a.failed = <<>> /\ a.attempt = 0
    BY <2>1 DEF Job, JobPcs
  <2>3. b \in Job /\ b.pc = "look" /\ b.list = all /\ b.todo = all /\ b.failed = <<>> /\ b.attempt = 0
    BY <1>2, <2>1 DEF Job, JobPcs
  <2>4. C!Go(t, a) \/ C!Go(t, b)
    BY DEF C!ListClans, all
  <2> HIDE DEF a, b
  <2> QED BY <2>2, <2>3, <2>4
<1>4. job' \in [C!Threads -> Job] /\ job'[t] = d /\ \A u \in C!Threads \ {t} : job'[u] = job[u]
  BY <1>0, <1>3 DEF C!Go, ClanInv, ClanTypes
<1>5. ClanTypes' /\ ClanJoined' /\ ClanGrows
  BY <1>1, <1>4 DEF ClanInv, ClanTypes, ClanJoined, ClanGrows
<1>6. ClanShape(t)' /\ ClanMade(t)' /\ ClanLoaded(t)'
  BY <1>0, <1>2, <1>3, <1>4, NoElements DEF ClanShape, ClanMade, ClanLoaded, Ensuring, Initing, Listed, Todo, C!At
<1>7. ClanRound(t)'
  <2>1. ClanRound(t) /\ job[t].pc = "list"
    BY <1>1 DEF ClanInv, C!At
  <2> QED BY <1>1, <1>3, <1>4, <2>1, NoElements DEF ClanRound, Initing, Listed, C!At
<1>8. \A u \in C!Threads : ClanCrossed(u)'
  <2>1. t \in C!Active
    BY <1>0, <1>1 DEF C!Active, C!At
  <2>2. ~C!At(t, "make")' /\ clanOf' \in [C!All -> Nat]
    BY <1>1, <1>3, <1>4 DEF C!At, ClanInv, ClanTypes
  <2> QED BY <1>1, <1>4, <2>1, <2>2, CrossedKept
<1> QED BY <1>0, <1>1, <1>4, <1>5, <1>6, <1>7, <1>8, ClanStep

----------------------------------------------------------------------------
(* ensureClanObjects.                                                      *)

\* What follows when the clan at hand has its object.
LEMMA EnsuredShape ==
    ASSUME ClanInv, NEW t \in C!Threads, Ensuring(t)
    PROVE  LET d == C!Ensured(t)
               h == Head(job[t].todo)
               rest == Tail(job[t].todo)
           IN  /\ d \in Job /\ h \in C!All
               /\ Todo(t) = {h} \cup C!Elements(rest)
               /\ \/ d.pc = "look" /\ rest # <<>> /\ d = [job[t] EXCEPT !.pc = "look", !.todo = rest]
                  \/ C!Elements(rest) = {} /\ t \in Builders /\ d = [C!NoJob EXCEPT !.pc = "ended"]
                  \/ /\ C!Elements(rest) = {} /\ t \notin Builders
                     /\ d = [job[t] EXCEPT !.pc = "init", !.todo = job[t].list]
<1>1. job[t] \in Job /\ job[t].todo \in Seq(C!All) /\ job[t].todo # <<>>
  BY DEF ClanInv, ClanTypes, ClanShape, Job
<1>2. /\ Head(job[t].todo) \in C!All /\ Tail(job[t].todo) \in Seq(C!All)
      /\ C!Elements(job[t].todo) = {Head(job[t].todo)} \cup C!Elements(Tail(job[t].todo))
      /\ Len(job[t].todo) > 1 => Tail(job[t].todo) # <<>>
      /\ ~(Len(job[t].todo) > 1) => C!Elements(Tail(job[t].todo)) = {}
  BY <1>1, TakeFirst
<1>3. CASE Len(job[t].todo) > 1
  <2>1. C!Ensured(t) = [job[t] EXCEPT !.pc = "look", !.todo = Tail(job[t].todo)]
    BY <1>3 DEF C!Ensured
  <2> QED BY <1>1, <1>2, <1>3, <2>1 DEF Job, JobPcs, Todo
<1>4. CASE ~(Len(job[t].todo) > 1) /\ t \in Builders
  BY <1>2, <1>4, NoJobType DEF C!Ensured, Job, JobPcs, Todo
<1>5. CASE ~(Len(job[t].todo) > 1) /\ t \notin Builders
  <2>1. C!Ensured(t) = [job[t] EXCEPT !.pc = "init", !.todo = job[t].list]
    BY <1>5 DEF C!Ensured
  <2> QED BY <1>1, <1>2, <1>5, <2>1 DEF Job, JobPcs, Todo
<1> QED BY <1>3, <1>4, <1>5

\* A call goes on, with an object for the clan at hand.
LEMMA EnsuredKeeps ==
    ASSUME ClanInv, NEW t \in C!Threads, Ensuring(t), C!Go(t, C!Ensured(t)), ClanGrows,
           clanOf'[Head(job[t].todo)] # 0, UNCHANGED <<tries, won>>
    PROVE  /\ job' \in [C!Threads -> Job] /\ \A u \in C!Threads \ {t} : job'[u] = job[u]
           /\ ClanShape(t)' /\ ClanMade(t)' /\ ClanLoaded(t)' /\ (t \in Connectors => ClanRound(t)')
           /\ job'[t].pc # "make"
<1> DEFINE h == Head(job[t].todo)
           rest == Tail(job[t].todo)
<1>1. PICK d \in Job : d = C!Ensured(t)
  BY EnsuredShape
<1>2. job' \in [C!Threads -> Job] /\ job'[t] = d /\ \A u \in C!Threads \ {t} : job'[u] = job[u]
  BY <1>1 DEF C!Go, ClanInv, ClanTypes
<1>3. job[t] \in Job /\ ClanShape(t) /\ ClanMade(t) /\ (t \in Connectors => ClanRound(t)) /\ Listed(t) \subseteq C!All
  BY DEF ClanInv, ClanTypes, Job, Listed, C!Elements
<1>4. Todo(t) = {h} \cup C!Elements(rest) /\ (t \in Connectors <=> t \notin Builders)
  BY EnsuredShape, CallsAssumption DEF C!Threads
<1>5. \A c \in C!All : clanOf[c] # 0 => clanOf'[c] # 0
  BY DEF ClanGrows
<1>6. CASE d.pc = "look" /\ rest # <<>> /\ d = [job[t] EXCEPT !.pc = "look", !.todo = rest]
  <2>1. d.pc = "look" /\ d.todo = rest /\ d.list = job[t].list /\ d.failed = job[t].failed /\ d.attempt = job[t].attempt
    BY <1>3, <1>6 DEF Job
  <2>2. ClanShape(t)'
    BY <1>2, <1>3, <1>6, <2>1 DEF ClanShape, Ensuring, Initing
  <2>3. ClanMade(t)'
    BY <1>2, <1>3, <1>4, <1>5, <2>1 DEF ClanMade, Ensuring, Initing, Listed, Todo
  <2>4. ClanLoaded(t)'
    BY <1>2, <2>1 DEF ClanLoaded, C!At
  <2>5. ASSUME t \in Connectors PROVE ClanRound(t)'
    BY <1>2, <1>3, <2>1, <2>5 DEF ClanRound, Initing, Ensuring, C!At
  <2> QED BY <1>2, <2>1, <2>2, <2>3, <2>4, <2>5
<1>7. CASE C!Elements(rest) = {} /\ t \in Builders /\ d = [C!NoJob EXCEPT !.pc = "ended"]
  <2>1. d.pc = "ended" /\ d.list = <<>>
    BY <1>7 DEF C!NoJob
  <2>2. ClanShape(t)'
    BY <1>2, <2>1, NoElements DEF ClanShape, Ensuring, Initing
  <2>3. ClanMade(t)' /\ ClanLoaded(t)'
    BY <1>2, <2>1 DEF ClanMade, ClanLoaded, Ensuring, Initing, C!At
  <2> QED BY <1>2, <1>4, <1>7, <2>1, <2>2, <2>3
<1>8. CASE C!Elements(rest) = {} /\ t \notin Builders /\ d = [job[t] EXCEPT !.pc = "init", !.todo = job[t].list]
  <2>1. /\ d.pc = "init" /\ d.todo = job[t].list /\ d.list = job[t].list
        /\ d.failed = job[t].failed /\ d.attempt = job[t].attempt /\ d.obj = job[t].obj
    BY <1>3, <1>8 DEF Job
  <2>2. \A c \in Listed(t) : clanOf'[c] # 0
    BY <1>3, <1>4, <1>5, <1>8 DEF ClanMade
  <2>3. ClanMade(t)' /\ ClanLoaded(t)'
    BY <1>2, <2>1, <2>2 DEF ClanMade, ClanLoaded, Ensuring, Initing, Listed, C!At
  <2>4. job[t].list # <<>>
    BY <1>3, <1>4, <1>8 DEF ClanShape, Ensuring
  <2>5. ClanShape(t)'
    BY <1>2, <1>3, <1>8, <2>1, <2>4 DEF ClanShape, Ensuring, Initing
  <2>6. ClanRound(t)'
    BY <1>2, <1>3, <1>4, <1>8, <2>1, NoElements, RoundsAssumption
       DEF ClanRound, ClanShape, Initing, Ensuring, Listed, Todo, Left, Again, C!At
  <2> QED BY <1>2, <2>1, <2>3, <2>5, <2>6
<1> QED BY <1>1, <1>6, <1>7, <1>8, EnsuredShape

\* Get finds an object or not, and Set stores a new one.
LEMMA ClanEnsureInv ==
    ASSUME ClanInv, NEW t \in C!Threads, C!Look(t) \/ C!Make(t)
    PROVE  ClanInv'
<1> DEFINE h == Head(job[t].todo)
<1>0. Ensuring(t) /\ h \in C!All /\ t \in C!Active
  <2>1. Ensuring(t)
    BY DEF C!Look, C!Make, Ensuring, C!At
  <2> QED BY <2>1, EnsuredShape DEF Ensuring, C!Active
<1>1. CASE C!Look(t)
  <2>1. C!At(t, "look") /\ crossed' = crossed /\ UNCHANGED <<clanOf, made, loaded, chats, tries, won, remade>>
    BY <1>1 DEF C!Look, C!history
  <2>2. ClanGrows /\ clanOf' \in [C!All -> Nat]
    BY <2>1 DEF ClanGrows, ClanInv, ClanTypes
  <2>3. CASE clanOf[h] # 0
    <3>1. C!Go(t, C!Ensured(t)) /\ clanOf'[h] # 0
      BY <1>1, <2>1, <2>3 DEF C!Look
    <3>2. /\ job' \in [C!Threads -> Job] /\ \A u \in C!Threads \ {t} : job'[u] = job[u]
          /\ ClanShape(t)' /\ ClanMade(t)' /\ ClanLoaded(t)' /\ (t \in Connectors => ClanRound(t)')
          /\ job'[t].pc # "make"
      BY <1>0, <2>1, <2>2, <3>1, EnsuredKeeps
    <3>3. \A u \in C!Threads : ClanCrossed(u)'
      BY <1>0, <2>1, <2>2, <3>2, CrossedKept DEF C!At
    <3>4. ClanTypes' /\ ClanJoined'
      BY <2>1, <3>2 DEF ClanInv, ClanTypes, ClanJoined
    <3> QED BY <2>1, <2>2, <3>2, <3>3, <3>4, ClanStep
  <2>4. CASE clanOf[h] = 0
    <3> DEFINE d == [job[t] EXCEPT !.pc = "make"]
    <3>1. C!Go(t, d) /\ job[t] \in Job
      BY <1>1, <2>4 DEF C!Look, ClanInv, ClanTypes
    <3>2. /\ d \in Job /\ d.pc = "make" /\ d.todo = job[t].todo /\ d.list = job[t].list
          /\ d.failed = job[t].failed /\ d.attempt = job[t].attempt
      BY <3>1 DEF Job, JobPcs
    <3> HIDE DEF d
    <3>3. job' \in [C!Threads -> Job] /\ job'[t] = d /\ \A u \in C!Threads \ {t} : job'[u] = job[u]
      BY <3>1, <3>2 DEF C!Go, ClanInv, ClanTypes
    <3>4. ClanTypes' /\ ClanJoined'
      BY <2>1, <3>3 DEF ClanInv, ClanTypes, ClanJoined
    <3>5. ClanShape(t) /\ ClanMade(t) /\ (t \in Connectors => ClanRound(t))
      BY DEF ClanInv
    <3>6. ClanShape(t)' /\ ClanMade(t)' /\ ClanLoaded(t)'
      BY <2>1, <3>2, <3>3, <3>5 DEF ClanShape, ClanMade, ClanLoaded, Ensuring, Initing, Listed, Todo, C!At
    <3>7. ASSUME t \in Connectors PROVE ClanRound(t)'
      BY <2>1, <3>2, <3>3, <3>5, <3>7 DEF ClanRound, Initing, C!At
    <3>8. \A u \in C!Threads : ClanCrossed(u)'
      <4>1. clanOf'[Head(job'[t].todo)] = 0
        BY <2>1, <2>4, <3>2, <3>3
      <4> QED BY <1>0, <2>1, <2>2, <3>3, <4>1, CrossedKept
    <3> QED BY <2>1, <2>2, <3>3, <3>4, <3>6, <3>7, <3>8, ClanStep
  <2> QED BY <2>3, <2>4, <1>0 DEF ClanInv, ClanTypes
<1>2. CASE C!Make(t)
  <2>1. /\ clanOf' = [clanOf EXCEPT ![h] = made + 1] /\ made' = made + 1 /\ C!Go(t, C!Ensured(t))
        /\ remade' = (IF clanOf[h] = 0 THEN remade ELSE remade \cup {h})
        /\ crossed' = crossed /\ UNCHANGED <<loaded, chats, tries, won>>
    BY <1>2 DEF C!Make
  <2>2. clanOf \in [C!All -> Nat] /\ made \in Nat /\ made + 1 \in Nat /\ made + 1 # 0
    BY DEF ClanInv, ClanTypes
  <2>3. clanOf' \in [C!All -> Nat] /\ \A c \in C!All : clanOf'[c] = IF c = h THEN made + 1 ELSE clanOf[c]
    BY <1>0, <2>1, <2>2
  <2>4. ClanGrows
    BY <2>1, <2>2, <2>3 DEF ClanGrows
  <2>5. /\ job' \in [C!Threads -> Job] /\ \A u \in C!Threads \ {t} : job'[u] = job[u]
        /\ ClanShape(t)' /\ ClanMade(t)' /\ ClanLoaded(t)' /\ (t \in Connectors => ClanRound(t)')
        /\ job'[t].pc # "make"
    BY <1>0, <2>1, <2>2, <2>3, <2>4, EnsuredKeeps
  <2>6. \A u \in C!Threads : ClanCrossed(u)'
    BY <1>0, <2>1, <2>3, <2>5, CrossedKept DEF C!At
  <2>7. ClanTypes'
    BY <2>1, <2>2, <2>3, <2>5 DEF ClanInv, ClanTypes
  <2>8. ClanJoined'
    BY <2>1, <2>3, <2>4 DEF ClanInv, ClanTypes, ClanJoined, ClanGrows
  <2> QED BY <2>1, <2>4, <2>5, <2>6, <2>7, <2>8, ClanStep
<1> QED BY <1>1, <1>2

----------------------------------------------------------------------------
(* initClan and the rounds.                                                *)

\* The clan at hand has been tried, and is among the failed ones f or joined.
LEMMA TriedKeeps ==
    ASSUME ClanInv, NEW t \in C!Threads, job[t].pc \in {"reload", "join"},
           NEW f \in Seq(C!All), Once(f), C!Go(t, C!Tried(t, f)), UNCHANGED clanOf,
           NEW rest, rest = C!Elements(Tail(job[t].todo)), NEW n, n = job[t].attempt,
           C!Elements(f) \cap rest = {}, C!Elements(f) \cup rest = Listed(t) \ won'[t],
           \A c \in C!Elements(f) : tries'[t][c] = n + 1,
           \A c \in rest : tries'[t][c] = n,
           \A c \in won'[t] : tries'[t][c] = 0
    PROVE  /\ job' \in [C!Threads -> Job] /\ \A u \in C!Threads \ {t} : job'[u] = job[u]
           /\ ClanShape(t)' /\ ClanMade(t)' /\ ClanLoaded(t)' /\ ClanRound(t)'
           /\ job'[t].pc # "make"
<1>1. /\ job[t] \in Job /\ job[t].todo \in Seq(C!All) /\ job[t].todo # <<>> /\ n \in Nat /\ n <= Rounds
      /\ Once(job[t].todo) /\ Once(job[t].list) /\ t \in Connectors /\ t \notin Builders
      /\ \A c \in Listed(t) : clanOf[c] # 0
  <2>1. Initing(t)
    BY DEF Initing
  <2>2. t \in Connectors
    BY <2>1, AtHand
  <2> QED BY <2>1, <2>2, CallsAssumption DEF ClanInv, ClanTypes, ClanShape, ClanMade, ClanRound, Job
<1>2. /\ Tail(job[t].todo) \in Seq(C!All) /\ Once(Tail(job[t].todo))
      /\ Len(job[t].todo) > 1 => Tail(job[t].todo) # <<>>
      /\ ~(Len(job[t].todo) > 1) => rest = {}
  BY <1>1, TakeFirst
<1>3. CASE Len(job[t].todo) > 1
  <2> DEFINE d == [job[t] EXCEPT !.pc = "init", !.todo = Tail(@), !.failed = f, !.obj = 0]
  <2>1. /\ d \in Job /\ d.pc = "init" /\ d.todo = Tail(job[t].todo) /\ d.failed = f
        /\ d.list = job[t].list /\ d.attempt = n
    BY <1>1, <1>2 DEF Job, JobPcs
  <2>2. C!Go(t, d)
    BY <1>3 DEF C!Tried
  <2> HIDE DEF d
  <2>3. job' \in [C!Threads -> Job] /\ job'[t] = d /\ \A u \in C!Threads \ {t} : job'[u] = job[u]
    BY <2>1, <2>2 DEF C!Go, ClanInv, ClanTypes
  <2>4. ClanShape(t)' /\ ClanMade(t)' /\ ClanLoaded(t)'
    BY <1>1, <1>2, <1>3, <2>1, <2>3 DEF ClanShape, ClanMade, ClanLoaded, Ensuring, Initing, Listed, C!At
  <2>5. Todo(t)' = rest /\ Left(t)' = C!Elements(f) /\ Listed(t)' = Listed(t)
    BY <2>1, <2>3 DEF Todo, Left, Listed
  <2>6. \A c : Again(t, c)' <=> c \in C!Elements(f)
    BY <2>1, <2>3, <2>5 DEF Again, C!At
  <2>7. ClanRound(t)'
    BY <1>1, <1>2, <2>1, <2>3, <2>5, <2>6 DEF ClanRound, Initing, C!At
  <2> QED BY <2>1, <2>3, <2>4, <2>7
<1>4. CASE ~(Len(job[t].todo) > 1) /\ f # <<>> /\ n < Rounds
  <2> DEFINE d == [job[t] EXCEPT !.pc = "init", !.todo = f, !.failed = <<>>, !.attempt = n + 1, !.obj = 0]
  <2>1. /\ d \in Job /\ d.pc = "init" /\ d.todo = f /\ d.failed = <<>>
        /\ d.list = job[t].list /\ d.attempt = n + 1
    <3>1. <<>> \in Seq(C!All) /\ n + 1 \in Nat
      BY <1>1
    <3> QED BY <1>1, <3>1 DEF Job, JobPcs
  <2>2. C!Go(t, d)
    BY <1>4 DEF C!Tried, C!RoundEnds, C!Another
  <2> HIDE DEF d
  <2>3. job' \in [C!Threads -> Job] /\ job'[t] = d /\ \A u \in C!Threads \ {t} : job'[u] = job[u]
    BY <2>1, <2>2 DEF C!Go, ClanInv, ClanTypes
  <2>4. ClanShape(t)' /\ ClanMade(t)' /\ ClanLoaded(t)'
    BY <1>1, <1>4, <2>1, <2>3 DEF ClanShape, ClanMade, ClanLoaded, Ensuring, Initing, Listed, C!At
  <2>5. Todo(t)' = C!Elements(f) /\ Left(t)' = {} /\ Listed(t)' = Listed(t)
    BY <2>1, <2>3, NoElements DEF Todo, Left, Listed
  <2>6. \A c : ~Again(t, c)'
    BY <2>1, <2>3, <2>5 DEF Again, C!At
  <2>7. n + 1 <= Rounds
    BY <1>1, <1>4, RoundsAssumption
  <2>8. ClanRound(t)'
    BY <1>1, <1>2, <1>4, <2>1, <2>3, <2>5, <2>6, <2>7, NoElements DEF ClanRound, Initing, C!At
  <2> QED BY <2>1, <2>3, <2>4, <2>8
<1>5. CASE ~(Len(job[t].todo) > 1) /\ ~(f # <<>> /\ n < Rounds)
  <2> DEFINE d == [C!NoJob EXCEPT !.pc = "ended", !.list = job[t].list]
  <2>1. d \in Job /\ d.pc = "ended" /\ d.list = job[t].list
    BY <1>1, NoJobType DEF Job, JobPcs
  <2>2. C!Go(t, d)
    BY <1>5 DEF C!Tried, C!RoundEnds, C!Ended
  <2> HIDE DEF d
  <2>3. job' \in [C!Threads -> Job] /\ job'[t] = d /\ \A u \in C!Threads \ {t} : job'[u] = job[u]
    BY <2>1, <2>2 DEF C!Go, ClanInv, ClanTypes
  <2>4. ClanShape(t)' /\ ClanMade(t)' /\ ClanLoaded(t)'
    BY <1>1, <2>1, <2>3 DEF ClanShape, ClanMade, ClanLoaded, Ensuring, Initing, C!At
  <2>5. \A c \in Listed(t) \ won'[t] : tries'[t][c] = Rounds + 1
    <3>1. ASSUME f # <<>> PROVE n = Rounds
      BY <1>1, <1>5, <3>1, RoundsAssumption
    <3>2. ASSUME f = <<>> PROVE Listed(t) \ won'[t] = {}
      BY <1>2, <1>5, <3>2, NoElements
    <3> QED BY <1>2, <1>5, <3>1, <3>2
  <2>6. ClanRound(t)'
    BY <2>1, <2>3, <2>5 DEF ClanRound, Initing, Listed, C!At
  <2> QED BY <2>1, <2>3, <2>4, <2>6
<1> QED BY <1>3, <1>4, <1>5

\* initClan begins with a clan.
LEMMA ClanPickInv ==
    ASSUME ClanInv, NEW t \in Connectors, C!Pick(t)
    PROVE  ClanInv'
<1> DEFINE h == Head(job[t].todo)
<1>0. t \in C!Threads /\ C!At(t, "init") /\ Initing(t) /\ t \in C!Active
  BY DEF C!Pick, C!Threads, C!At, Initing, C!Active
<1>1. h \in C!All /\ h \in Todo(t) /\ clanOf[h] # 0 /\ clanOf[h] \in Nat
  BY <1>0, AtHand DEF ClanInv, ClanTypes
<1>2. /\ job[t] \in Job /\ tries \in [Connectors -> [C!All -> Nat]] /\ ClanRound(t) /\ ClanShape(t) /\ ClanMade(t)
      /\ Todo(t) \cup Left(t) \subseteq C!All /\ Todo(t) \cup Left(t) = Listed(t) \ won[t]
      /\ won[t] \subseteq C!All /\ job[t].attempt \in Nat
  <2>1. job[t] \in Job /\ tries \in [Connectors -> [C!All -> Nat]] /\ won[t] \in SUBSET C!All
    BY <1>0 DEF ClanInv, ClanTypes
  <2>2. ClanRound(t) /\ ClanShape(t) /\ ClanMade(t)
    BY <1>0 DEF ClanInv
  <2>3. Todo(t) \cup Left(t) \subseteq C!All /\ job[t].attempt \in Nat
    BY <2>1 DEF Job, Todo, Left, C!Elements
  <2>4. Todo(t) \cup Left(t) = Listed(t) \ won[t]
    BY <1>0, <2>2 DEF ClanRound
  <2> QED BY <2>1, <2>2, <2>3, <2>4
<1>3. PICK d \in Job : /\ C!Go(t, d) /\ d.list = job[t].list /\ d.todo = job[t].todo /\ d.failed = job[t].failed
                      /\ d.attempt = job[t].attempt
                      /\ \/ h = Global /\ d.pc = "join"
                         \/ d.pc = "reload" /\ d.obj = clanOf[h]
  <2> DEFINE a == [job[t] EXCEPT !.pc = "join"]
             b == [job[t] EXCEPT !.pc = "reload", !.obj = clanOf[h]]
  <2>1. /\ a \in Job /\ a.list = job[t].list /\ a.todo = job[t].todo /\ a.failed = job[t].failed
        /\ a.attempt = job[t].attempt /\ a.pc = "join"
    BY <1>2 DEF Job, JobPcs
  <2>2. /\ b \in Job /\ b.list = job[t].list /\ b.todo = job[t].todo /\ b.failed = job[t].failed
        /\ b.attempt = job[t].attempt /\ b.pc = "reload" /\ b.obj = clanOf[h]
    BY <1>1, <1>2 DEF Job, JobPcs
  <2>3. C!Go(t, IF h = Global THEN a ELSE b)
    BY DEF C!Pick
  <2> HIDE DEF a, b
  <2> QED BY <2>1, <2>2, <2>3
<1>4. job' \in [C!Threads -> Job] /\ job'[t] = d /\ \A u \in C!Threads \ {t} : job'[u] = job[u]
  BY <1>0, <1>3 DEF C!Go, ClanInv, ClanTypes
<1>5. UNCHANGED <<clanOf, made, loaded, chats, won, crossed, remade>> /\ C!Trying(t)
  BY DEF C!Pick
<1>6. tries[t][h] = job[t].attempt /\ job[t].attempt <= Rounds
  <2>1. ~Again(t, h)
    BY <1>0, <1>1, <1>2 DEF ClanRound, Again
  <2> QED BY <1>0, <1>1, <1>2, <2>1 DEF ClanRound
<1>7. /\ tries' \in [Connectors -> [C!All -> Nat]]
      /\ \A c \in C!All : tries'[t][c] = tries[t][c] + (IF c = h THEN 1 ELSE 0)
      /\ \A u \in Connectors \ {t} : tries'[u] = tries[u]
  <2>1. tries' = [tries EXCEPT ![t] = [tries[t] EXCEPT ![h] = tries[t][h] + 1]]
    <3>1. tries[t][h] < Rounds + 2
      BY <1>2, <1>6, RoundsAssumption
    <3>2. tries' = [tries EXCEPT ![t][h] = IF tries[t][h] < Rounds + 2 THEN tries[t][h] + 1 ELSE tries[t][h]]
      BY <1>5 DEF C!Trying
    <3> QED BY <3>1, <3>2
  <2>2. [tries[t] EXCEPT ![h] = tries[t][h] + 1] \in [C!All -> Nat]
    BY <1>1, <1>2
  <2> QED BY <1>1, <1>2, <2>1, <2>2
<1>8. ClanTypes' /\ ClanJoined' /\ ClanGrows
  BY <1>4, <1>5, <1>7 DEF ClanInv, ClanTypes, ClanJoined, ClanGrows
<1>9. ClanShape(t)' /\ ClanMade(t)' /\ ClanLoaded(t)'
  BY <1>0, <1>2, <1>3, <1>4, <1>5 DEF ClanShape, ClanMade, ClanLoaded, Ensuring, Initing, Listed, C!At
<1>10. ClanRound(t)'
  <2>1. Todo(t)' = Todo(t) /\ Left(t)' = Left(t) /\ Listed(t)' = Listed(t) /\ won'[t] = won[t]
    BY <1>3, <1>4, <1>5 DEF Todo, Left, Listed
  <2>2. \A c : /\ Again(t, c)' <=> c \in Left(t) \/ c = h
               /\ Again(t, c) <=> c \in Left(t)
    BY <1>0, <1>3, <1>4, <2>1 DEF Again, C!At
  <2>3. h \notin Left(t) /\ h \notin won[t]
    BY <1>0, <1>1, <1>2 DEF ClanRound
  <2>4. \A c \in Todo(t) \cup Left(t) : tries'[t][c] = job[t].attempt + (IF Again(t, c)' THEN 1 ELSE 0)
    <3> SUFFICES ASSUME NEW c \in Todo(t) \cup Left(t) PROVE tries'[t][c] = job[t].attempt + (IF Again(t, c)' THEN 1 ELSE 0)
      OBVIOUS
    <3>1. tries[t][c] = job[t].attempt + (IF c \in Left(t) THEN 1 ELSE 0) /\ c \in C!All
      BY <1>0, <1>2, <2>2 DEF ClanRound
    <3>2. tries'[t][c] = tries[t][c] + (IF c = h THEN 1 ELSE 0)
      BY <1>7, <3>1
    <3> QED BY <1>2, <1>6, <2>2, <2>3, <3>1, <3>2
  <2>5. \A c \in won[t] : tries'[t][c] = 0
    BY <1>2, <1>7, <2>3 DEF ClanRound
  <2> QED BY <1>0, <1>2, <1>3, <1>4, <2>1, <2>4, <2>5 DEF ClanRound, Initing, C!At
<1>11. \A u \in C!Threads : ClanCrossed(u)'
  <2>1. ~C!At(t, "make")' /\ clanOf' \in [C!All -> Nat]
    BY <1>3, <1>4, <1>5 DEF C!At, ClanInv, ClanTypes
  <2> QED BY <1>0, <1>4, <1>5, <2>1, CrossedKept
<1> QED BY <1>0, <1>4, <1>5, <1>7, <1>8, <1>9, <1>10, <1>11, ClanStep

\* What is known at "reload" and "join".
LEMMA ClanTriedFacts ==
    ASSUME ClanInv, NEW t \in Connectors, job[t].pc \in {"reload", "join"}
    PROVE  LET h == Head(job[t].todo)
               rest == C!Elements(Tail(job[t].todo))
               f == job[t].failed
               n == job[t].attempt
           IN  /\ t \in C!Threads /\ t \in C!Active /\ h \in C!All /\ clanOf[h] # 0 /\ n \in Nat
               /\ f \in Seq(C!All) /\ Once(f) /\ h \notin rest /\ h \notin Left(t) /\ rest \cap Left(t) = {}
               /\ {h} \cup rest \cup Left(t) = Listed(t) \ won[t]
               /\ tries[t][h] = n + 1
               /\ \A c \in Left(t) : tries[t][c] = n + 1
               /\ \A c \in rest : tries[t][c] = n
               /\ \A c \in won[t] : tries[t][c] = 0
               /\ rest \subseteq C!All /\ won[t] \subseteq C!All
<1>1. t \in C!Threads /\ t \in C!Active /\ Initing(t)
  BY DEF C!Threads, C!Active, Initing
<1>2. /\ Head(job[t].todo) \in C!All /\ clanOf[Head(job[t].todo)] # 0
  BY <1>1, AtHand
<1>3. job[t] \in Job /\ won[t] \subseteq C!All /\ ClanRound(t) /\ job[t].todo # <<>>
  BY <1>1 DEF ClanInv, ClanTypes, ClanShape
<1>4. /\ job[t].todo \in Seq(C!All) /\ job[t].failed \in Seq(C!All) /\ job[t].attempt \in Nat
  BY <1>3 DEF Job
<1>5. /\ Once(job[t].todo) /\ Once(job[t].failed) /\ Todo(t) \cap Left(t) = {}
      /\ Todo(t) \cup Left(t) = Listed(t) \ won[t]
      /\ \A c \in Todo(t) \cup Left(t) : tries[t][c] = job[t].attempt + (IF Again(t, c) THEN 1 ELSE 0)
      /\ \A c \in won[t] : tries[t][c] = 0
  BY <1>1, <1>3 DEF ClanRound
<1>6. /\ Todo(t) = {Head(job[t].todo)} \cup C!Elements(Tail(job[t].todo))
      /\ Head(job[t].todo) \notin C!Elements(Tail(job[t].todo))
  BY <1>3, <1>4, <1>5, TakeFirst DEF Todo
<1>7. Todo(t) \subseteq C!All
  BY <1>4 DEF Todo, C!Elements
<1>8. \A c : Again(t, c) <=> c \in Left(t) \/ c = Head(job[t].todo)
  BY DEF Again, C!At
<1>9. \A c \in C!Elements(Tail(job[t].todo)) : ~Again(t, c) /\ c \in Todo(t)
  BY <1>5, <1>6, <1>8
<1>10. \A c \in Left(t) \cup {Head(job[t].todo)} : Again(t, c) /\ c \in Todo(t) \cup Left(t)
  BY <1>6, <1>8
<1>11. \A c \in C!Elements(Tail(job[t].todo)) : tries[t][c] = job[t].attempt
  BY <1>4, <1>5, <1>9
<1>12. \A c \in Left(t) \cup {Head(job[t].todo)} : tries[t][c] = job[t].attempt + 1
  BY <1>4, <1>5, <1>10
<1> QED BY <1>1, <1>2, <1>3, <1>4, <1>5, <1>6, <1>7, <1>11, <1>12

\* The clan at hand failed.
LEMMA FailedKeeps ==
    ASSUME ClanInv, NEW t \in Connectors, job[t].pc \in {"reload", "join"}, C!Failed(t),
           UNCHANGED <<clanOf, tries, won>>
    PROVE  /\ job' \in [C!Threads -> Job] /\ \A u \in C!Threads \ {t} : job'[u] = job[u]
           /\ ClanShape(t)' /\ ClanMade(t)' /\ ClanLoaded(t)' /\ ClanRound(t)'
           /\ job'[t].pc # "make"
<1> DEFINE h == Head(job[t].todo)
           f == job[t].failed
<1>1. PICK rest : rest = C!Elements(Tail(job[t].todo))
  OBVIOUS
<1>2. PICK n : n = job[t].attempt
  OBVIOUS
<1>3. PICK g : g = Append(f, h)
  OBVIOUS
<1>4. /\ t \in C!Threads /\ h \in C!All /\ n \in Nat
      /\ f \in Seq(C!All) /\ Once(f) /\ h \notin rest /\ h \notin Left(t) /\ rest \cap Left(t) = {}
      /\ {h} \cup rest \cup Left(t) = Listed(t) \ won[t]
      /\ tries[t][h] = n + 1
      /\ \A c \in Left(t) : tries[t][c] = n + 1
      /\ \A c \in rest : tries[t][c] = n
      /\ \A c \in won[t] : tries[t][c] = 0
  BY <1>1, <1>2, ClanTriedFacts
<1>5. g \in Seq(C!All) /\ Once(g) /\ C!Elements(g) = Left(t) \cup {h}
  BY <1>3, <1>4, PutLast DEF Left
<1>6. C!Go(t, C!Tried(t, g))
  BY <1>3 DEF C!Failed
<1>7. C!Elements(g) \cap rest = {} /\ C!Elements(g) \cup rest = Listed(t) \ won'[t]
  BY <1>4, <1>5
<1>8. /\ \A c \in C!Elements(g) : tries'[t][c] = n + 1
      /\ \A c \in rest : tries'[t][c] = n
      /\ \A c \in won'[t] : tries'[t][c] = 0
  BY <1>4, <1>5
<1> HIDE DEF h, f
<1> QED BY <1>1, <1>2, <1>4, <1>5, <1>6, <1>7, <1>8, TriedKeeps

\* ReloadChannels of the object that was found.
LEMMA ClanReloadInv ==
    ASSUME ClanInv, NEW t \in Connectors, C!Reload(t)
    PROVE  ClanInv'
<1> DEFINE h == Head(job[t].todo)
<1>0. C!At(t, "reload") /\ t \in C!Threads /\ t \in C!Active /\ Initing(t)
  BY DEF C!Reload, C!Threads, C!Active, C!At, Initing
<1>1. UNCHANGED <<clanOf, made, chats, tries, won, crossed, remade>> /\ loaded \subseteq loaded'
  BY DEF C!Reload, C!Reloaded, C!history
<1>2. ClanGrows /\ clanOf' \in [C!All -> Nat]
  BY <1>1 DEF ClanGrows, ClanInv, ClanTypes
<1>3. /\ job' \in [C!Threads -> Job] /\ \A u \in C!Threads \ {t} : job'[u] = job[u]
      /\ ClanShape(t)' /\ ClanMade(t)' /\ ClanLoaded(t)' /\ ClanRound(t)'
      /\ job'[t].pc # "make"
  <2>1. CASE C!Failed(t)
    BY <1>0, <1>1, <2>1, FailedKeeps DEF C!At
  <2>2. CASE C!Reloaded(t)
    <3> DEFINE d == [job[t] EXCEPT !.pc = "join", !.obj = 0]
    <3>1. job[t] \in Job /\ ClanShape(t) /\ ClanMade(t) /\ ClanLoaded(t) /\ ClanRound(t)
      BY <1>0 DEF ClanInv, ClanTypes
    <3>2. /\ d \in Job /\ d.list = job[t].list /\ d.todo = job[t].todo /\ d.failed = job[t].failed
          /\ d.attempt = job[t].attempt /\ d.pc = "join"
      BY <3>1 DEF Job, JobPcs
    <3>3. C!Go(t, d) /\ loaded' = loaded \cup {job[t].obj}
      BY <2>2 DEF C!Reloaded
    <3> HIDE DEF d
    <3>4. job' \in [C!Threads -> Job] /\ job'[t] = d /\ \A u \in C!Threads \ {t} : job'[u] = job[u]
      BY <1>0, <3>2, <3>3 DEF C!Go, ClanInv, ClanTypes
    <3>5. ClanShape(t)' /\ ClanMade(t)'
      BY <1>0, <1>1, <3>1, <3>2, <3>4 DEF ClanShape, ClanMade, Ensuring, Initing, Listed, C!At
    <3>6. ClanLoaded(t)'
      BY <1>0, <1>1, <3>1, <3>2, <3>3, <3>4 DEF ClanLoaded, C!At
    <3>7. Todo(t)' = Todo(t) /\ Left(t)' = Left(t) /\ Listed(t)' = Listed(t) /\ \A c : Again(t, c)' <=> Again(t, c)
      BY <1>0, <3>2, <3>4 DEF Todo, Left, Listed, Again, C!At
    <3>8. ClanRound(t)'
      BY <1>0, <1>1, <3>1, <3>2, <3>4, <3>7 DEF ClanRound, Initing, C!At
    <3> QED BY <3>2, <3>4, <3>5, <3>6, <3>8
  <2> QED BY <2>1, <2>2 DEF C!Reload
<1>4. ClanTypes' /\ ClanJoined'
  BY <1>1, <1>3 DEF ClanInv, ClanTypes, ClanJoined
<1>5. \A u \in C!Threads : ClanCrossed(u)'
  BY <1>0, <1>1, <1>2, <1>3, CrossedKept DEF C!At
<1> QED BY <1>0, <1>1, <1>2, <1>3, <1>4, <1>5, ClanStep

\* JoinClanChat.
LEMMA ClanJoinInv ==
    ASSUME ClanInv, NEW t \in Connectors, C!Join(t)
    PROVE  ClanInv'
<1> DEFINE h == Head(job[t].todo)
           f == job[t].failed
<1>0. C!At(t, "join") /\ t \in C!Threads /\ t \in C!Active /\ job[t].pc \in {"reload", "join"}
  BY DEF C!Join, C!Threads, C!Active, C!At
<1>1. UNCHANGED <<clanOf, made, loaded, crossed, remade>>
  BY DEF C!Join
<1>2. ClanGrows /\ clanOf' \in [C!All -> Nat]
  BY <1>1 DEF ClanGrows, ClanInv, ClanTypes
<1>3. CASE C!Failed(t) /\ UNCHANGED <<chats, won, tries>>
  <2>1. /\ job' \in [C!Threads -> Job] /\ \A u \in C!Threads \ {t} : job'[u] = job[u]
        /\ ClanShape(t)' /\ ClanMade(t)' /\ ClanLoaded(t)' /\ ClanRound(t)'
        /\ job'[t].pc # "make"
    BY <1>0, <1>1, <1>3, FailedKeeps
  <2>2. ClanTypes' /\ ClanJoined'
    BY <1>1, <1>3, <2>1 DEF ClanInv, ClanTypes, ClanJoined
  <2>3. \A u \in C!Threads : ClanCrossed(u)'
    BY <1>0, <1>1, <1>2, <2>1, CrossedKept DEF C!At
  <2> QED BY <1>0, <1>2, <1>3, <2>1, <2>2, <2>3, ClanStep
<1>4. CASE /\ chats' = chats \cup {h} /\ won' = [won EXCEPT ![t] = @ \cup {h}]
           /\ tries' = [tries EXCEPT ![t][h] = 0] /\ C!Go(t, C!Tried(t, f))
  <2>1. PICK rest : rest = C!Elements(Tail(job[t].todo))
    OBVIOUS
  <2>2. PICK n : n = job[t].attempt
    OBVIOUS
  <2>3. PICK g : g = f
    OBVIOUS
  <2>4. /\ h \in C!All /\ clanOf[h] # 0 /\ n \in Nat
        /\ f \in Seq(C!All) /\ Once(f) /\ h \notin rest /\ h \notin Left(t) /\ rest \cap Left(t) = {}
        /\ {h} \cup rest \cup Left(t) = Listed(t) \ won[t]
        /\ \A c \in Left(t) : tries[t][c] = n + 1
        /\ \A c \in rest : tries[t][c] = n
        /\ \A c \in won[t] : tries[t][c] = 0
        /\ rest \subseteq C!All /\ won[t] \subseteq C!All
    BY <1>0, <2>1, <2>2, ClanTriedFacts
  <2>5. g \in Seq(C!All) /\ Once(g) /\ C!Elements(g) = Left(t) /\ C!Go(t, C!Tried(t, g))
    BY <1>4, <2>3, <2>4 DEF Left
  <2>6. tries \in [Connectors -> [C!All -> Nat]] /\ won \in [Connectors -> SUBSET C!All]
    BY DEF ClanInv, ClanTypes
  <2>7. /\ won' \in [Connectors -> SUBSET C!All] /\ won'[t] = won[t] \cup {h}
        /\ \A u \in Connectors \ {t} : won'[u] = won[u]
    BY <1>4, <2>4, <2>6
  <2>8. /\ tries' \in [Connectors -> [C!All -> Nat]]
        /\ \A c \in C!All : tries'[t][c] = IF c = h THEN 0 ELSE tries[t][c]
        /\ \A u \in Connectors \ {t} : tries'[u] = tries[u]
    BY <1>4, <2>4, <2>6
  <2>9. Left(t) \subseteq C!All
    BY <2>4 DEF Left, C!Elements
  <2>10. C!Elements(g) \cap rest = {} /\ C!Elements(g) \cup rest = Listed(t) \ won'[t]
    BY <2>4, <2>5, <2>7
  <2>11. /\ \A c \in C!Elements(g) : tries'[t][c] = n + 1
         /\ \A c \in rest : tries'[t][c] = n
         /\ \A c \in won'[t] : tries'[t][c] = 0
    BY <2>4, <2>5, <2>7, <2>8, <2>9
  <2>12. /\ job' \in [C!Threads -> Job] /\ \A u \in C!Threads \ {t} : job'[u] = job[u]
         /\ ClanShape(t)' /\ ClanMade(t)' /\ ClanLoaded(t)' /\ ClanRound(t)'
         /\ job'[t].pc # "make"
    <3> HIDE DEF f, h
    <3> QED BY <1>0, <1>1, <2>1, <2>2, <2>5, <2>10, <2>11, TriedKeeps
  <2>13. ClanTypes'
    BY <1>1, <1>4, <2>4, <2>7, <2>8, <2>12 DEF ClanInv, ClanTypes
  <2>14. h \in {Global} \cup remade \/ clanOf[h] \in loaded
    BY <1>0 DEF ClanInv, ClanLoaded
  <2>15. ClanJoined'
    BY <1>1, <1>4, <2>4, <2>14 DEF ClanInv, ClanJoined
  <2>16. \A u \in C!Threads : ClanCrossed(u)'
    BY <1>0, <1>1, <1>2, <2>12, CrossedKept DEF C!At
  <2> QED BY <1>0, <1>2, <2>7, <2>8, <2>12, <2>13, <2>15, <2>16, ClanStep
<1> QED BY <1>3, <1>4 DEF C!Join

----------------------------------------------------------------------------
\* The initial states, and every step.
LEMMA ClanInvInit == C!Init => ClanInv
<1> SUFFICES ASSUME C!Init PROVE ClanInv
  OBVIOUS
<1>1. ClanTypes
  <2>1. job \in [C!Threads -> Job]
    BY NoJobType DEF C!Init
  <2> QED BY <2>1 DEF C!Init, ClanTypes
<1>2. ClanJoined
  BY DEF C!Init, ClanJoined
<1>3. ASSUME NEW t \in C!Threads
      PROVE /\ ClanShape(t) /\ ClanMade(t) /\ ClanLoaded(t) /\ ClanCrossed(t)
            /\ job[t].pc = "idle" /\ job[t].failed = <<>> /\ job[t].attempt = 0
  <2>1. job[t].pc = "idle" /\ job[t].list = <<>> /\ job[t].failed = <<>> /\ job[t].attempt = 0
    BY DEF C!Init, C!NoJob
  <2>2. t \notin C!Active
    BY <2>1 DEF C!Active
  <2> QED BY <2>1, <2>2, NoElements DEF ClanShape, ClanMade, ClanLoaded, ClanCrossed, Ensuring, Initing, C!At
<1>4. ASSUME NEW t \in Connectors PROVE ClanRound(t)
  <2>1. job[t].pc = "idle" /\ job[t].failed = <<>> /\ job[t].attempt = 0
    BY <1>3 DEF C!Threads
  <2> QED BY <2>1 DEF C!Init, ClanRound, Initing, C!At
<1> QED BY <1>1, <1>2, <1>3, <1>4 DEF ClanInv

\* Every step of ClanInit and of the calls beside it keeps the invariant.
LEMMA ClanInvNext == ASSUME ClanInv, [C!Next]_clanVars PROVE ClanInv'
<1>1. ASSUME NEW t \in Connectors, C!Connected(t) \/ C!ConnectSocket(t) PROVE ClanInv'
  <2>1. t \in C!Threads
    BY DEF C!Threads
  <2> QED BY <1>1, <2>1, ClanBeginInv, ClanListInv, ClanEnsureInv, ClanPickInv, ClanReloadInv, ClanJoinInv
      DEF C!ConnectSocket
<1>2. ASSUME NEW t \in Builders, C!Look(t) \/ C!Make(t) \/ \E c \in Clans : C!Build(t, c) PROVE ClanInv'
  <2>1. t \in C!Threads
    BY DEF C!Threads
  <2> QED BY <1>2, <2>1, ClanBeginInv, ClanEnsureInv
<1>3. CASE UNCHANGED clanVars
  <2>1. UNCHANGED <<clanOf, made, loaded, chats, job, tries, won, crossed, remade>>
    BY <1>3 DEF clanVars
  <2>2. ClanTypes' /\ ClanJoined' /\ ClanGrows
    BY <2>1 DEF ClanInv, ClanTypes, ClanJoined, ClanGrows
  <2>3. ASSUME NEW u \in C!Threads
        PROVE  ClanShape(u)' /\ ClanMade(u)' /\ ClanLoaded(u)' /\ (u \in Connectors => ClanRound(u)')
    BY <2>1, <2>2, ClanOther
  <2>4. ASSUME NEW u \in C!Threads PROVE ClanCrossed(u)'
    BY <2>1 DEF ClanInv, ClanCrossed, C!Active, C!At
  <2>5. Connectors \subseteq C!Threads
    BY DEF C!Threads
  <2> QED BY <2>2, <2>3, <2>4, <2>5 DEF ClanInv
<1> QED BY <1>1, <1>2, <1>3, ClanDropInv DEF C!Next

\* MCRequests moves the clans' part by a step of ClanInit, or not at all.
LEMMA ClanInvSpec == MCSpec => []ClanInv
<1>1. MCInit => ClanInv
  BY ClanInvInit DEF MCInit
<1>2. ClanInv /\ [MCNext]_<<part, vars, clanVars>> => ClanInv'
  BY ClanInvNext DEF MCNext
<1> QED BY <1>1, <1>2, PTL DEF MCSpec

\* ClanInit.TriedOften, for any clans, calls and number of rounds: a call of
\* connectSocket gives a clan up only after the first pass and every retry round,
\* and tries none it has joined, whatever drops and overlaps.
THEOREM ClanTriedOften == MCSpec => []TriedOften
<1>1. ClanInv => TriedOften
  <2>1. Connectors \subseteq C!Threads
    BY DEF C!Threads
  <2> QED BY <2>1 DEF ClanInv, ClanRound, TriedOften, C!TriedOften, Listed
<1> QED BY <1>1, ClanInvSpec, PTL

\* ClanInit.LoadedBeforeJoin, for any clans and calls: the channels of a joined clan
\* are loaded into the Clan object there is, unless an overlapping call replaced it.
THEOREM ClanLoadedBeforeJoin == MCSpec => []LoadedBeforeJoin
<1>1. ClanInv => LoadedBeforeJoin
  BY DEF ClanInv, ClanJoined, LoadedBeforeJoin, C!LoadedBeforeJoin
<1> QED BY <1>1, ClanInvSpec, PTL

\* ClanInit.ClansSurvive, for any clans and calls: an object is replaced only by a
\* call that another one crossed.
THEOREM ClansSurviveCalls == MCSpec => ClansSurvive
<1> DEFINE A == \A c \in C!All : clanOf[c] # 0 /\ clanOf'[c] # clanOf[c] => \E t \in crossed : C!At(t, "make")
<1>1. ClanInv /\ [MCNext]_<<part, vars, clanVars>> => [A]_C!vars
  <2> SUFFICES ASSUME ClanInv, [MCNext]_<<part, vars, clanVars>> PROVE [A]_C!vars
    OBVIOUS
  <2>1. ASSUME NEW t \in C!Threads, C!Make(t) PROVE A
    <3>1. clanOf \in [C!All -> Nat] /\ ClanCrossed(t)
      BY DEF ClanInv, ClanTypes
    <3>2. C!At(t, "make") /\ \E o : clanOf' = [clanOf EXCEPT ![Head(job[t].todo)] = o]
      BY <2>1 DEF C!Make
    <3>3. ASSUME NEW c \in C!All, clanOf[c] # 0, clanOf'[c] # clanOf[c] PROVE t \in crossed
      BY <3>1, <3>2, <3>3 DEF ClanCrossed
    <3> QED BY <3>2, <3>3
  <2>2. CASE C!Next /\ clanOf' = clanOf
    BY <2>2
  <2>3. CASE C!Next
    <3>1. clanOf' = clanOf \/ \E t \in C!Threads : C!Make(t)
      BY <2>3 DEF C!Next, C!ConnectSocket, C!Connected, C!ListClans, C!Look, C!Pick, C!Reload, C!Join,
                  C!Build, C!Drop, C!Threads
    <3> QED BY <2>1, <2>2, <2>3, <3>1
  <2>4. CASE UNCHANGED clanVars
    BY <2>4 DEF clanVars, C!vars
  <2> QED BY <2>3, <2>4 DEF MCNext
<1>2. MCSpec => [][A]_C!vars
  BY <1>1, ClanInvSpec, PTL DEF MCSpec
<1> QED BY <1>2 DEF ClansSurvive, C!ClansSurvive
=============================================================================
