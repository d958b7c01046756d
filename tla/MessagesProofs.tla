--------------------------- MODULE MessagesProofs ---------------------------
(***************************************************************************)
(* Messages for any number of messages, versions, calls, goroutines,       *)
(* connections at once and restarts: the store follows the server, the     *)
(* cache follows the store, as far as no loop of another connection and no *)
(* goroutine came late with an older version.                              *)
(***************************************************************************)
EXTENDS Messages, SequenceTheorems, TLAPS

\* dispatchLoops are none of the application's goroutines, and no message has the
\* empty id.
Distinct == Loops \cap Callers = {} /\ NoId \notin Msgs

Orders == {<<"internal">>, <<"user", "internal">>, <<"internal", "user">>}
Todos == Orders \cup {<<>>, <<"user">>}

\* When Login returns, the internal handler is bound.
Bound == Registered \subseteq Orders

Labels == {"idle", "get", "load", "put", "request", "edited", "write", "acked",
           "handler", "save", "fetch"}
Ops == {"none", "lookup", "edit", "delete", "send"}
Activity == [pc : Labels, op : Ops, msg : Msgs \cup {NoId}, ver : Nat, todo : Todos]
Events == [msg : Msgs, ver : Nat]

\* What the proofs need of the types.
Types ==
    /\ posted \in [Msgs -> Nat] /\ disk \in [Msgs -> Nat]
    /\ inbox \in [Loops -> Seq(Events)]
    /\ act \in [Threads -> Activity]
    /\ handlers \in Orders

\* The events of a message in a queue are in the order of its versions.
Increasing(s) == \A i, j \in DOMAIN s : i < j /\ s[i].msg = s[j].msg => s[i].ver < s[j].ver

\* Where a loop is tells which handlers it has run; its queue is in order, after
\* the event in its hand, and it has nothing the server has not posted.
LoopInv(l) ==
    /\ At(l, "idle") => act[l].todo = <<>>
    /\ At(l, "save") \/ At(l, "fetch") => act[l].todo \in {<<>>, <<"user">>}
    /\ At(l, "handler") => act[l].todo \in {<<>>, <<"internal">>}
    /\ Increasing(inbox[l])
    /\ \A e \in Queued(l) : e.ver <= posted[e.msg]
    /\ ~At(l, "idle") =>
          /\ act[l].msg \in Msgs
          /\ act[l].ver <= posted[act[l].msg]
          /\ \A e \in Queued(l) : e.msg = act[l].msg => act[l].ver < e.ver

\* No row is ahead of the server, nor of what is still to be saved.
OrderInv ==
    /\ \A m \in Msgs : disk[m] <= posted[m]
    /\ \A l \in Loops : \A e \in ToSave(l) : e.msg \notin outrun => disk[e.msg] <= e.ver

Latest(m) == [msg |-> m, ver |-> posted[m]]

\* The server's version of a message is in the store or on its way there.
WayInv ==
    \A m \in Msgs \ (missed \cup outrun) : disk[m] = posted[m] \/ \E l \in Loops : Latest(m) \in ToSave(l)

\* A goroutine with a version in hand, about to cache it.
Holding == {"put", "edited", "acked"}
Named == {"get", "load", "put", "request", "edited", "write"}

\* What the application's goroutines have in hand is real.
CallersInv ==
    \A w \in Callers :
        /\ act[w].pc \in Named => act[w].msg \in Msgs
        /\ act[w].pc \in Holding /\ act[w].msg \in Msgs => act[w].ver <= posted[act[w].msg]
        /\ act[w].pc = "acked" => act[w].ver = 1

Inv == Types /\ (\A l \in Loops : LoopInv(l)) /\ OrderInv /\ WayInv /\ CallersInv

(***************************************************************************)
(* Helpers.                                                                *)
(***************************************************************************)

\* The lists of handlers there are.
LEMMA Lists ==
    /\ \A todo \in Todos : "internal" \in Range(todo) <=> todo \in Orders
    /\ \A todo \in Todos : todo # <<>> => Tail(todo) \in Todos /\ Head(todo) \in {"internal", "user"}
    /\ \A todo \in Orders : Head(todo) = "internal" => Tail(todo) \in {<<>>, <<"user">>}
    /\ \A todo \in Orders : Head(todo) = "user" => Tail(todo) = <<"internal">>
    /\ Head(<<"user">>) = "user" /\ Tail(<<"user">>) = <<>>
    /\ Head(<<"internal">>) = "internal" /\ Tail(<<"internal">>) = <<>>
    /\ <<>> \notin Orders /\ <<"user">> \notin Orders /\ <<>> # <<"user">> /\ <<"internal">> \in Orders
BY DEF Todos, Orders, Range

\* A handler registered after Login comes after the internal one.
LEMMA Appended == Append(<<"internal">>, "user") = <<"internal", "user">>
<1> DEFINE S == {"internal", "user"}
<1> DEFINE o == <<"internal">>
<1> DEFINE s == Append(o, "user")
<1> DEFINE t == <<"internal", "user">>
<1>1. o \in Seq(S) /\ Len(o) = 1 /\ o[1] = "internal"
  OBVIOUS
<1>2. "user" \in S /\ "internal" \in S
  OBVIOUS
<1>3. t \in Seq(S) /\ Len(t) = 2 /\ t[1] = "internal" /\ t[2] = "user"
  OBVIOUS
<1> HIDE DEF o, t, S
<1>4. s \in Seq(S)
  BY <1>1, <1>2
<1>5. Len(s) = 2
  BY <1>1, <1>2, AppendProperties
<1>6. s[1] = "internal"
  BY <1>1, <1>2, AppendProperties
<1>7. s[2] = "user"
  BY <1>1, <1>2, AppendProperties
<1> HIDE DEF s
<1>8. \A i \in 1 .. 2 : s[i] = t[i]
  BY <1>3, <1>6, <1>7
<1>9. s = t
  BY <1>3, <1>4, <1>5, <1>8
<1>10. QED
  BY <1>9 DEF s, t, o

\* A goroutine that moves.
LEMMA Moves ==
    ASSUME Types, NEW t \in Threads, NEW d \in Activity, Go(t, d)
    PROVE  /\ act' \in [Threads -> Activity]
           /\ act'[t] = d
           /\ \A u \in Threads : u # t => act'[u] = act[u]
BY DEF Types, Go

\* A goroutine that goes to another place with what it has.
LEMMA MovesTo ==
    ASSUME Types, NEW t \in Threads, NEW pc \in Labels, To(t, pc)
    PROVE  /\ act' \in [Threads -> Activity]
           /\ act'[t].pc = pc /\ act'[t].msg = act[t].msg /\ act'[t].ver = act[t].ver
           /\ act'[t].todo = act[t].todo
           /\ \A u \in Threads : u # t => act'[u] = act[u]
<1>1. [act[t] EXCEPT !.pc = pc] \in Activity
  BY DEF Types, Activity
<1>2. QED
  BY <1>1, Moves DEF To, Types, Activity

\* Doing nothing.
LEMMA IdleIs == Idle \in Activity /\ Idle.pc = "idle" /\ Idle.todo = <<>> /\ <<>> \in Todos
<1>1. <<>> \in Todos
  BY DEF Todos
<1>2. QED
  BY <1>1 DEF Idle, Activity, Labels, Ops

\* A goroutine that is done.
LEMMA MovesIdle ==
    ASSUME Types, NEW t \in Threads, Done(t)
    PROVE  /\ act' \in [Threads -> Activity]
           /\ act'[t] = Idle /\ Idle.pc = "idle" /\ Idle.todo = <<>>
           /\ \A u \in Threads : u # t => act'[u] = act[u]
BY IdleIs, Moves DEF Done

(***************************************************************************)
(* Queues.                                                                 *)
(***************************************************************************)

\* A new event goes to the end of a queue.
LEMMA AppendQueue ==
    ASSUME NEW s \in Seq(Events), NEW e \in Events, Increasing(s),
           \A f \in Range(s) : f.msg = e.msg => f.ver < e.ver
    PROVE  /\ Append(s, e) \in Seq(Events) /\ Increasing(Append(s, e))
           /\ Range(Append(s, e)) = Range(s) \cup {e}
<1> DEFINE t == Append(s, e)
<1> DEFINE n == Len(s) + 1
<1>1. /\ t \in Seq(Events) /\ DOMAIN s = 1 .. Len(s) /\ DOMAIN t = 1 .. n /\ Len(s) \in Nat
      /\ t[n] = e /\ \A i \in 1 .. Len(s) : t[i] = s[i]
  BY AppendProperties
<1> HIDE DEF t
<1>2. DOMAIN t = DOMAIN s \cup {n}
  BY <1>1
<1>3. Range(t) = Range(s) \cup {e}
  BY <1>1, <1>2 DEF Range
<1>4. ASSUME NEW i \in DOMAIN t, NEW j \in DOMAIN t, i < j, t[i].msg = t[j].msg PROVE t[i].ver < t[j].ver
  <2>1. i \in DOMAIN s /\ i # n
    BY <1>1, <1>4
  <2>2. CASE j = n
    BY <1>1, <1>4, <2>1, <2>2 DEF Range
  <2>3. CASE j # n
    BY <1>1, <1>4, <2>1, <2>3 DEF Increasing
  <2>4. QED
    BY <2>2, <2>3
<1>5. QED
  BY <1>1, <1>3, <1>4 DEF t, Increasing

\* The first event leaves a queue.
LEMMA TailQueue ==
    ASSUME NEW s \in Seq(Events), s # <<>>, Increasing(s)
    PROVE  /\ Head(s) \in Events /\ Tail(s) \in Seq(Events) /\ Increasing(Tail(s))
           /\ Range(s) = {Head(s)} \cup Range(Tail(s))
           /\ \A f \in Range(Tail(s)) : f.msg = Head(s).msg => Head(s).ver < f.ver
<1> DEFINE t == Tail(s)
<1>1. /\ t \in Seq(Events) /\ Head(s) \in Events /\ Head(s) = s[1] /\ Len(s) \in Nat /\ Len(s) > 0
      /\ DOMAIN s = 1 .. Len(s) /\ DOMAIN t = 1 .. Len(s) - 1 /\ \A i \in 1 .. Len(s) - 1 : t[i] = s[i + 1]
  BY HeadTailProperties
<1> HIDE DEF t
<1>2. \A i \in DOMAIN t : i + 1 \in DOMAIN s /\ t[i] = s[i + 1] /\ 1 < i + 1
  BY <1>1
<1>3. \A i \in DOMAIN s : i = 1 \/ (i - 1 \in DOMAIN t /\ s[i] = t[i - 1])
  BY <1>1
<1>4. Range(s) = {Head(s)} \cup Range(t)
  <2>1. \A i \in DOMAIN s : s[i] = Head(s) \/ s[i] \in Range(t)
    BY <1>1, <1>3 DEF Range
  <2>2. \A i \in DOMAIN t : t[i] \in Range(s)
    BY <1>2 DEF Range
  <2>3. Head(s) \in Range(s)
    BY <1>1 DEF Range
  <2>4. QED
    BY <2>1, <2>2, <2>3 DEF Range
<1>5. ASSUME NEW f \in Range(t), f.msg = Head(s).msg PROVE Head(s).ver < f.ver
  <2>1. PICK i \in DOMAIN t : f = t[i]
    BY <1>5 DEF Range
  <2>2. QED
    BY <1>1, <1>2, <1>5, <2>1 DEF Increasing
<1>6. ASSUME NEW i \in DOMAIN t, NEW j \in DOMAIN t, i < j, t[i].msg = t[j].msg PROVE t[i].ver < t[j].ver
  <2>1. i + 1 < j + 1
    BY <1>1, <1>6
  <2>2. QED
    BY <1>2, <1>6, <2>1 DEF Increasing
<1>7. QED
  BY <1>1, <1>4, <1>5, <1>6 DEF t, Increasing

\* No event, no order.
LEMMA EmptyQueue == <<>> \in Seq(Events) /\ Increasing(<<>>) /\ Range(<<>>) = {}
BY DEF Increasing, Range

(***************************************************************************)
(* What loops have to save and to cache.                                   *)
(***************************************************************************)

\* A loop has events that the server has posted.
LEMMA Real ==
    ASSUME Types, NEW l \in Loops, LoopInv(l), NEW e \in ToKeep(l)
    PROVE  e \in Events /\ e.msg \in Msgs /\ e.ver \in Nat /\ e.ver <= posted[e.msg]
<1>1. CASE e \in Queued(l)
  <2>1. inbox[l] \in Seq(Events)
    BY DEF Types
  <2>2. PICK i \in DOMAIN inbox[l] : e = inbox[l][i]
    BY <1>1 DEF Queued, Range
  <2>3. e \in Events
    BY <2>1, <2>2
  <2>4. QED
    BY <1>1, <2>3 DEF Events, LoopInv
<1>2. CASE e = Event(l) /\ ~At(l, "idle")
  BY <1>2 DEF LoopInv, Event, Events, Types, Activity, Threads
<1>3. "internal" \in Range(act[l].todo) => ~At(l, "idle")
  BY DEF LoopInv, Range
<1>4. QED
  BY <1>1, <1>2, <1>3 DEF ToKeep, ToSave, At

\* A loop that is idle or has called the internal handler has its queue to save;
\* one that has not, also the event in its hand.
LEMMA Before ==
    ASSUME Types, NEW l \in Loops, LoopInv(l)
    PROVE  /\ At(l, "idle") => ToSave(l) = Queued(l) /\ ToKeep(l) = Queued(l)
           /\ At(l, "save") => ToSave(l) = Queued(l) \cup {Event(l)} /\ ToKeep(l) = ToSave(l)
           /\ At(l, "fetch") => ToSave(l) = Queued(l) /\ ToKeep(l) = Queued(l) \cup {Event(l)}
           /\ At(l, "handler") => ToKeep(l) = ToSave(l)
           /\ At(l, "handler") /\ act[l].todo = <<>> => ToSave(l) = Queued(l)
           /\ At(l, "handler") /\ act[l].todo = <<"internal">> => ToSave(l) = Queued(l) \cup {Event(l)}
<1>1. act[l].todo \in Todos
  BY DEF Types, Activity, Threads
<1>2. "internal" \in Range(act[l].todo) <=> act[l].todo \in Orders
  BY <1>1, Lists
<1>3. /\ <<>> \notin Orders /\ <<"user">> \notin Orders /\ <<"internal">> \in Orders
  BY Lists
<1>4. QED
  BY <1>2, <1>3 DEF LoopInv, ToSave, ToKeep, At

\* A loop to which nothing happens, while versions only grow.
LEMMA LoopKept ==
    ASSUME Types, NEW l \in Loops, LoopInv(l), inbox'[l] = inbox[l], act'[l] = act[l],
           \A m \in Msgs : posted[m] <= posted'[m] /\ posted'[m] \in Nat
    PROVE  /\ LoopInv(l)' /\ ToSave(l)' = ToSave(l) /\ ToKeep(l)' = ToKeep(l)
           /\ Event(l)' = Event(l) /\ Queued(l)' = Queued(l) /\ \A pc : At(l, pc)' = At(l, pc)
<1>1. /\ ToSave(l)' = ToSave(l) /\ ToKeep(l)' = ToKeep(l) /\ Event(l)' = Event(l) /\ Queued(l)' = Queued(l)
      /\ \A pc : At(l, pc)' = At(l, pc)
  BY DEF ToSave, ToKeep, Event, Queued, At
<1>2. ASSUME NEW e \in Queued(l) PROVE e.ver <= posted'[e.msg]
  <2>1. e \in ToKeep(l)
    BY <1>2 DEF ToKeep, ToSave
  <2>2. e.msg \in Msgs /\ e.ver \in Nat /\ e.ver <= posted[e.msg]
    BY <2>1, Real
  <2>3. posted[e.msg] \in Nat
    BY <2>2 DEF Types
  <2>4. QED
    BY <2>2, <2>3
<1>3. ASSUME ~At(l, "idle") PROVE act[l].msg \in Msgs /\ act[l].ver <= posted'[act[l].msg]
  <2>1. act[l].msg \in Msgs /\ act[l].ver <= posted[act[l].msg] /\ act[l].ver \in Nat
    BY <1>3 DEF LoopInv, Types, Activity, Threads
  <2>2. posted[act[l].msg] \in Nat
    BY <2>1 DEF Types
  <2>3. QED
    BY <2>1, <2>2
<1>4. QED
  BY <1>1, <1>2, <1>3 DEF LoopInv

\* An event of the inbox is taken in hand, and the first handler is called.
LEMMA EmitLoop ==
    ASSUME Types, NEW l \in Loops, LoopInv(l), Emit(l)
    PROVE  /\ Types' /\ LoopInv(l)' /\ ToSave(l)' = ToSave(l) /\ ToKeep(l)' = ToKeep(l)
           /\ \A u \in Threads : u # l => act'[u] = act[u]
           /\ \A k \in Loops : k # l => inbox'[k] = inbox[k]
           /\ ~At(l, "fetch") /\ ~At(l, "fetch")'
<1> DEFINE e == Head(inbox[l])
<1> DEFINE d == [Idle EXCEPT !.msg = e.msg, !.ver = e.ver, !.todo = handlers]
<1> DEFINE pc == IF Head(handlers) = "internal" THEN "save" ELSE "handler"
<1> DEFINE h == [d EXCEPT !.pc = pc, !.todo = Tail(handlers)]
<1>1. /\ l \in Threads /\ At(l, "idle") /\ inbox[l] # <<>> /\ inbox[l] \in Seq(Events)
      /\ UNCHANGED <<posted, disk, handlers>> /\ inbox' = [inbox EXCEPT ![l] = Tail(@)]
      /\ handlers \in Orders /\ handlers \in Todos /\ Increasing(inbox[l])
  BY DEF Threads, Emit, Types, LoopInv, Todos
<1>2. /\ e \in Events /\ Tail(inbox[l]) \in Seq(Events) /\ Increasing(Tail(inbox[l]))
      /\ Range(inbox[l]) = {e} \cup Range(Tail(inbox[l]))
      /\ \A f \in Range(Tail(inbox[l])) : f.msg = e.msg => e.ver < f.ver
  BY <1>1, TailQueue
<1>3. /\ inbox' \in [Loops -> Seq(Events)] /\ inbox'[l] = Tail(inbox[l])
      /\ \A k \in Loops : k # l => inbox'[k] = inbox[k]
  BY <1>1, <1>2 DEF Types
<1>4. handlers # <<>> /\ Tail(handlers) \in Todos /\ Head(handlers) \in {"internal", "user"}
  BY <1>1, Lists
<1>5. h \in Activity /\ h.pc = pc /\ h.msg = e.msg /\ h.ver = e.ver /\ h.todo = Tail(handlers)
      /\ d.todo = handlers
  BY <1>2, <1>4, IdleIs DEF Idle, Activity, Labels, Events, Ops
<1>6. Go(l, h)
  <2>1. Handle(d) = h
    BY <1>4, <1>5 DEF Handle
  <2>2. QED
    BY <2>1 DEF Emit, Dispatched
<1> HIDE DEF h, d
<1>7. /\ act' \in [Threads -> Activity] /\ act'[l].pc = pc /\ act'[l].todo = Tail(handlers)
      /\ act'[l].msg = e.msg /\ act'[l].ver = e.ver
      /\ \A u \in Threads : u # l => act'[u] = act[u]
  BY <1>1, <1>5, <1>6, Moves
<1>8. Types'
  BY <1>1, <1>3, <1>7 DEF Types
<1>9. /\ At(l, "save")' \/ At(l, "handler")'
      /\ ~At(l, "idle")' /\ ~At(l, "fetch") /\ ~At(l, "fetch")'
      /\ At(l, "save")' => act'[l].todo \in {<<>>, <<"user">>}
      /\ At(l, "handler")' => act'[l].todo = <<"internal">>
  BY <1>1, <1>4, <1>7, Lists DEF At
<1>10. Event(l)' = e /\ Queued(l)' = Range(Tail(inbox[l])) /\ Queued(l) = {e} \cup Queued(l)'
  BY <1>2, <1>3, <1>7 DEF Event, Queued, Events
<1>11. e.msg \in Msgs /\ e.ver <= posted[e.msg] /\ \A f \in Queued(l)' : f.ver <= posted[f.msg]
  BY <1>2, <1>10 DEF LoopInv, Events
<1>12. LoopInv(l)'
  <2>1. Increasing(inbox'[l]) /\ (\A f \in Queued(l)' : f.ver <= posted'[f.msg])
    BY <1>1, <1>2, <1>3, <1>11
  <2>2. /\ act'[l].msg \in Msgs /\ act'[l].ver <= posted'[act'[l].msg]
        /\ \A f \in Queued(l)' : f.msg = act'[l].msg => act'[l].ver < f.ver
    BY <1>1, <1>2, <1>7, <1>10, <1>11
  <2>3. QED
    BY <1>7, <1>9, <2>1, <2>2 DEF LoopInv, At
<1>13. ToSave(l)' = Queued(l) /\ ToKeep(l)' = ToSave(l)'
  <2>1. "internal" \in Range(act'[l].todo) <=> act'[l].todo \in Orders
    BY <1>4, <1>7, Lists
  <2>2. At(l, "save")' \/ act'[l].todo \in Orders
    BY <1>9, Lists
  <2>3. ToSave(l)' = Queued(l)' \cup {Event(l)'}
    BY <2>1, <2>2 DEF ToSave, At
  <2>4. QED
    BY <1>9, <1>10, <2>3 DEF ToKeep
<1>14. QED
  BY <1>1, <1>3, <1>7, <1>8, <1>9, <1>12, <1>13, Before

\* The next handler is called, or the loop is back at its queue.
LEMMA NextHandlerLoop ==
    ASSUME Types, NEW l \in Loops, LoopInv(l), At(l, "handler") \/ At(l, "fetch"), NextHandler(l),
           UNCHANGED <<posted, inbox, disk, handlers>>
    PROVE  /\ Types' /\ LoopInv(l)' /\ ToSave(l)' = ToSave(l) /\ ToKeep(l)' = ToSave(l)
           /\ \A u \in Threads : u # l => act'[u] = act[u]
           /\ ~At(l, "fetch")'
<1> DEFINE todo == act[l].todo
<1>1. /\ l \in Threads /\ todo \in Todos /\ act[l] \in Activity
      /\ todo \in {<<>>, <<"user">>, <<"internal">>}
      /\ At(l, "fetch") => todo \in {<<>>, <<"user">>}
      /\ At(l, "handler") => todo \in {<<>>, <<"internal">>}
  BY DEF Types, Activity, Threads, LoopInv
<1>2. Queued(l)' = Queued(l)
  BY DEF Queued
<1>3. CASE todo = <<>>
  <2>1. Done(l)
    BY <1>3 DEF NextHandler, Handle, Done
  <2>2. /\ act' \in [Threads -> Activity] /\ act'[l].pc = "idle" /\ act'[l].todo = <<>>
        /\ \A u \in Threads : u # l => act'[u] = act[u]
    BY <1>1, <2>1, MovesIdle
  <2>3. Types' /\ LoopInv(l)'
    BY <2>2 DEF Types, LoopInv, At, Queued
  <2>4. ToSave(l)' = Queued(l) /\ ToKeep(l)' = Queued(l)
    BY <1>2, <2>2, Lists DEF ToSave, ToKeep, At, Range
  <2>5. ToSave(l) = Queued(l)
    BY <1>3, Before
  <2>6. QED
    BY <2>2, <2>3, <2>4, <2>5 DEF At
<1>4. CASE todo # <<>>
  <2> DEFINE pc == IF Head(todo) = "internal" THEN "save" ELSE "handler"
  <2> DEFINE d == [act[l] EXCEPT !.pc = pc, !.todo = Tail(todo)]
  <2>1. Tail(todo) = <<>> /\ Tail(todo) \in Todos
    BY <1>1, <1>4, Lists
  <2>2. Go(l, d)
    BY <1>4 DEF NextHandler, Handle
  <2>3. d \in Activity /\ d.pc = pc /\ d.todo = Tail(todo) /\ d.msg = act[l].msg /\ d.ver = act[l].ver
    BY <1>1, <2>1 DEF Activity, Labels
  <2> HIDE DEF d
  <2>4. /\ act' \in [Threads -> Activity] /\ act'[l].pc = pc /\ act'[l].todo = <<>>
        /\ act'[l].msg = act[l].msg /\ act'[l].ver = act[l].ver
        /\ \A u \in Threads : u # l => act'[u] = act[u]
    BY <1>1, <2>1, <2>2, <2>3, Moves
  <2>5. ~At(l, "idle") /\ ~At(l, "idle")' /\ ~At(l, "fetch")'
    BY <2>4 DEF At
  <2>6. Types' /\ LoopInv(l)'
    BY <1>2, <2>4, <2>5 DEF Types, LoopInv, At
  <2>7. Event(l)' = Event(l)
    BY <2>4 DEF Event
  <2>8. CASE todo = <<"user">>
    <3>1. At(l, "handler")' /\ At(l, "fetch")
      BY <1>1, <2>4, <2>8, Lists DEF At
    <3>2. ToSave(l)' = Queued(l) /\ ToKeep(l)' = Queued(l)
      BY <1>2, <2>4, <3>1 DEF ToSave, ToKeep, At, Range
    <3>3. QED
      BY <2>4, <2>5, <2>6, <3>1, <3>2, Before
  <2>9. CASE todo = <<"internal">>
    <3>1. At(l, "save")' /\ At(l, "handler")
      BY <1>1, <2>4, <2>9, Lists DEF At
    <3>2. ToSave(l)' = Queued(l) \cup {Event(l)} /\ ToKeep(l)' = ToSave(l)'
      BY <1>2, <2>7, <3>1 DEF ToSave, ToKeep, At
    <3>3. QED
      BY <2>4, <2>5, <2>6, <2>9, <3>1, <3>2, Before
  <2>10. QED
    BY <1>1, <1>4, <2>8, <2>9
<1>5. QED
  BY <1>3, <1>4

\* SaveMessage is called: what it was called with is no longer to save.
LEMMA SaveLoop ==
    ASSUME Types, NEW l \in Loops, LoopInv(l), At(l, "save"), To(l, "fetch"), UNCHANGED <<posted, inbox>>
    PROVE  /\ act' \in [Threads -> Activity] /\ LoopInv(l)' /\ At(l, "fetch")'
           /\ Event(l)' = Event(l) /\ ToSave(l) = Queued(l) \cup {Event(l)}
           /\ ToSave(l)' = Queued(l) /\ ToKeep(l)' = ToKeep(l)
           /\ \A u \in Threads : u # l => act'[u] = act[u]
           /\ Event(l) \in Events /\ Event(l) \in ToSave(l)
           /\ Event(l).msg = act[l].msg /\ Event(l).ver = act[l].ver
           /\ act[l].msg \in Msgs /\ act[l].ver \in Nat /\ act[l].ver <= posted[act[l].msg]
           /\ \A e \in Queued(l) : e.msg = act[l].msg => act[l].ver < e.ver
<1>1. /\ l \in Threads /\ "fetch" \in Labels /\ ~At(l, "idle") /\ act[l].todo \in {<<>>, <<"user">>}
      /\ act[l] \in Activity
  BY DEF Threads, Labels, At, LoopInv, Types
<1>2. /\ act' \in [Threads -> Activity] /\ act'[l].pc = "fetch" /\ act'[l].todo = act[l].todo
      /\ act'[l].msg = act[l].msg /\ act'[l].ver = act[l].ver
      /\ \A u \in Threads : u # l => act'[u] = act[u]
  BY <1>1, MovesTo
<1>3. Event(l)' = Event(l) /\ Queued(l)' = Queued(l) /\ At(l, "fetch")' /\ ~At(l, "save")' /\ ~At(l, "idle")'
  BY <1>2 DEF Event, Queued, At
<1>4. LoopInv(l)'
  BY <1>1, <1>2, <1>3 DEF LoopInv, At
<1>5. "internal" \notin Range(act[l].todo)
  BY <1>1 DEF Range
<1>6. ToSave(l)' = Queued(l) /\ ToKeep(l)' = Queued(l) \cup {Event(l)}
  BY <1>2, <1>3, <1>5 DEF ToSave, ToKeep
<1>7. ToSave(l) = Queued(l) \cup {Event(l)} /\ ToKeep(l) = ToSave(l)
  BY Before
<1>8. /\ act[l].msg \in Msgs /\ act[l].ver \in Nat /\ act[l].ver <= posted[act[l].msg]
      /\ \A e \in Queued(l) : e.msg = act[l].msg => act[l].ver < e.ver
  BY <1>1 DEF LoopInv, Activity
<1>9. Event(l) \in Events /\ Event(l).msg = act[l].msg /\ Event(l).ver = act[l].ver
  BY <1>8 DEF Event, Events
<1>10. QED
  BY <1>2, <1>3, <1>4, <1>6, <1>7, <1>8, <1>9

(***************************************************************************)
(* The store.                                                              *)
(***************************************************************************)

\* What is to be saved somewhere.
LEMMA InSome == \A S : \A e : e \in ToSaveIn(S) <=> \E l \in S : e \in ToSave(l)
BY DEF ToSaveIn

\* What loops have to save stays the same.
LEMMA SameStore ==
    ASSUME Inv, UNCHANGED <<posted, disk, missed, outrun>>, \A l \in Loops : ToSave(l)' = ToSave(l)
    PROVE  OrderInv' /\ WayInv'
BY DEF Inv, OrderInv, WayInv, Latest

\* Events are lost: those that matter are remembered.
LEMMA LostStore ==
    ASSUME Inv, NEW lost, NEW rest, Lose(lost, rest), UNCHANGED <<posted, disk, outrun>>,
           \A l \in Loops : ToSave(l)' \subseteq ToSave(l),
           \A l \in Loops : \A e \in ToSave(l) : e \in lost \/ \E k \in Loops : e \in ToSave(k)',
           \A g \in rest : \E k \in Loops : g \in ToSave(k)'
    PROVE  OrderInv' /\ WayInv' /\ missed \subseteq missed'
<1>1. OrderInv'
  BY DEF Inv, OrderInv
<1>2. missed \subseteq missed'
  BY DEF Lose
<1>3. ASSUME NEW f \in lost, disk[f.msg] < f.ver, f.msg \notin missed'
      PROVE  \E g \in rest : g.msg = f.msg /\ g.ver >= f.ver
  BY <1>3 DEF Lose
<1>4. ASSUME NEW m \in Msgs, m \notin missed', m \notin outrun
      PROVE  disk[m] = posted[m] \/ \E l \in Loops : Latest(m) \in ToSave(l)'
  <2>1. disk[m] = posted[m] \/ \E l \in Loops : Latest(m) \in ToSave(l)
    BY <1>2, <1>4 DEF Inv, WayInv
  <2>2. ASSUME NEW l \in Loops, Latest(m) \in ToSave(l), disk[m] # posted[m], Latest(m) \in lost
        PROVE  \E k \in Loops : Latest(m) \in ToSave(k)'
    <3>1. /\ Latest(m).msg = m /\ Latest(m).ver = posted[m] /\ posted[m] \in Nat /\ disk[m] \in Nat
          /\ disk[m] <= posted[m]
      BY DEF Latest, Inv, Types, OrderInv
    <3>2. disk[m] < posted[m]
      BY <2>2, <3>1
    <3>3. PICK g \in rest : g.msg = m /\ g.ver >= posted[m]
      BY <1>3, <1>4, <2>2, <3>1, <3>2
    <3>4. PICK k \in Loops : g \in ToSave(k)'
      OBVIOUS
    <3>5. g \in ToSave(k)
      BY <3>4
    <3>6. g \in Events /\ g.ver \in Nat /\ g.ver <= posted[g.msg]
      BY <3>5, Real DEF Inv, ToKeep
    <3>7. g.ver = posted[m]
      BY <3>1, <3>3, <3>6
    <3>8. g = Latest(m)
      BY <3>3, <3>6, <3>7 DEF Latest, Events
    <3>9. QED
      BY <3>4, <3>8
  <2>3. QED
    BY <2>1, <2>2
<1>5. QED
  BY <1>1, <1>2, <1>4 DEF WayInv, Latest

\* What the application has in hand, when no goroutine of it does anything.
LEMMA CallersKept ==
    ASSUME Inv, \A w \in Callers : act'[w] = act[w] \/ act'[w].pc = "idle",
           \A m \in Msgs : posted[m] <= posted'[m] /\ posted'[m] \in Nat
    PROVE  CallersInv'
<1>1. \A w \in Callers : act[w].ver \in Nat
  BY DEF Inv, Types, Activity, Threads
<1>2. \A m \in Msgs : posted[m] \in Nat
  BY DEF Inv, Types
<1>3. ASSUME NEW w \in Callers
      PROVE  /\ act'[w].pc \in Named => act'[w].msg \in Msgs
             /\ act'[w].pc \in Holding /\ act'[w].msg \in Msgs => act'[w].ver <= posted'[act'[w].msg]
             /\ act'[w].pc = "acked" => act'[w].ver = 1
  <2>1. CASE act'[w] = act[w]
    <3>1. ASSUME act[w].pc \in Holding, act[w].msg \in Msgs PROVE act[w].ver <= posted'[act[w].msg]
      BY <1>1, <1>2, <3>1 DEF Inv, CallersInv
    <3>2. QED
      BY <2>1, <3>1 DEF Inv, CallersInv
  <2>2. CASE act'[w].pc = "idle"
    BY <2>2 DEF Holding, Named
  <2>3. QED
    BY <2>1, <2>2
<1>4. QED
  BY <1>3 DEF CallersInv

\* What a post does to the server, the queues and the events missed.
LEMMA PostIs ==
    ASSUME Inv, NEW m \in Msgs, Post(m), \A l \in Loops : act'[l] = act[l]
    PROVE  /\ posted' \in [Msgs -> Nat] /\ posted'[m] = posted[m] + 1
           /\ \A x \in Msgs : posted[x] \in Nat
           /\ \A x \in Msgs : posted'[x] \in Nat
           /\ \A x \in Msgs : posted[x] <= posted'[x]
           /\ \A x \in Msgs : x # m => posted'[x] = posted[x] /\ (x \in missed' <=> x \in missed)
           /\ inbox' \in [Loops -> Seq(Events)]
           /\ \A l \in Loops :
                /\ LoopInv(l)' /\ Event(l)' = Event(l) /\ (At(l, "fetch")' <=> At(l, "fetch"))
                /\ ToSave(l) \subseteq ToSave(l)' /\ ToSave(l)' \subseteq ToSave(l) \cup {Latest(m)'}
                /\ ToKeep(l) \subseteq ToKeep(l)' /\ ToKeep(l)' \subseteq ToKeep(l) \cup {Latest(m)'}
           /\ m \in missed' \/ \E l \in Loops : Latest(m)' \in ToSave(l)'
<1> DEFINE e == [msg |-> m, ver |-> posted[m] + 1]
<1>1. /\ posted' \in [Msgs -> Nat] /\ posted'[m] = posted[m] + 1
      /\ \A x \in Msgs : posted[x] \in Nat
      /\ \A x \in Msgs : posted'[x] \in Nat
      /\ \A x \in Msgs : posted[x] <= posted'[x]
      /\ \A x \in Msgs : x # m => posted'[x] = posted[x]
  BY DEF Inv, Types, Post
<1>2. e = Latest(m)' /\ e \in Events /\ e.msg = m /\ e.ver = posted'[m]
  BY <1>1 DEF Latest, Events
<1>3. PICK told \in SUBSET {l \in Loops : conn[l] = "open"} :
        /\ inbox' = [l \in Loops |-> IF l \in told THEN Append(inbox[l], e) ELSE inbox[l]]
        /\ missed' = IF told = {} THEN missed \cup {m} ELSE missed \ {m}
  BY DEF Post
<1> HIDE DEF e
<1>4. \A l \in Loops : inbox[l] \in Seq(Events) /\ Increasing(inbox[l]) /\ LoopInv(l)
  BY DEF Inv, Types, LoopInv
<1>5. ASSUME NEW l \in Loops, NEW f \in Queued(l), f.msg = m PROVE f.ver <= posted[m] /\ f.ver \in Nat
  BY <1>4, <1>5, Real DEF Inv, ToKeep, ToSave
<1>6. ASSUME NEW l \in Loops, NEW f \in Queued(l), f.msg = m PROVE f.ver < e.ver
  BY <1>1, <1>2, <1>5, <1>6
<1>7. ASSUME NEW l \in Loops, l \in told
      PROVE  /\ inbox'[l] \in Seq(Events) /\ Increasing(inbox'[l]) /\ Queued(l)' = Queued(l) \cup {e}
  <2>1. inbox'[l] = Append(inbox[l], e)
    BY <1>3, <1>7
  <2>2. \A f \in Range(inbox[l]) : f.msg = e.msg => f.ver < e.ver
    BY <1>2, <1>6 DEF Queued
  <2>3. QED
    BY <1>2, <1>4, <2>1, <2>2, AppendQueue DEF Queued
<1>8. inbox' \in [Loops -> Seq(Events)]
  BY <1>3, <1>4, <1>7
<1>9. ASSUME NEW l \in Loops, l \in told
      PROVE  /\ LoopInv(l)' /\ Event(l)' = Event(l) /\ (At(l, "fetch")' <=> At(l, "fetch"))
             /\ ToSave(l)' = ToSave(l) \cup {e} /\ ToKeep(l)' = ToKeep(l) \cup {e}
  <2>1. act'[l] = act[l] /\ l \in Threads
    BY DEF Threads
  <2>2. Event(l)' = Event(l) /\ \A pc : At(l, pc)' = At(l, pc)
    BY <2>1 DEF Event, At
  <2>3. ToSave(l)' = ToSave(l) \cup {e} /\ ToKeep(l)' = ToKeep(l) \cup {e}
    BY <1>7, <1>9, <2>1, <2>2 DEF ToSave, ToKeep
  <2>4. ASSUME NEW f \in Queued(l)' PROVE f.ver <= posted'[f.msg]
    <3>1. CASE f = e
      BY <1>1, <1>2, <3>1
    <3>2. CASE f \in Queued(l)
      <4>1. f \in ToKeep(l)
        BY <3>2 DEF ToKeep, ToSave
      <4>2. f.msg \in Msgs /\ f.ver \in Nat /\ f.ver <= posted[f.msg]
        BY <1>4, <4>1, Real DEF Inv
      <4>3. posted[f.msg] \in Nat /\ posted'[f.msg] \in Nat /\ posted[f.msg] <= posted'[f.msg]
        BY <1>1, <4>2
      <4>4. QED
        BY <4>2, <4>3
    <3>3. QED
      BY <1>7, <1>9, <2>4, <3>1, <3>2
  <2>5. ASSUME ~At(l, "idle")
        PROVE  /\ act[l].msg \in Msgs /\ act[l].ver <= posted'[act[l].msg]
               /\ \A f \in Queued(l)' : f.msg = act[l].msg => act[l].ver < f.ver
    <3>1. act[l].msg \in Msgs /\ act[l].ver \in Nat /\ act[l].ver <= posted[act[l].msg]
      BY <1>4, <2>1, <2>5 DEF LoopInv, Inv, Types, Activity
    <3>2. posted[act[l].msg] \in Nat /\ posted'[act[l].msg] \in Nat /\ posted[act[l].msg] <= posted'[act[l].msg]
      BY <1>1, <3>1
    <3>3. e.msg = act[l].msg => act[l].ver < e.ver
      BY <1>1, <1>2, <3>1
    <3>4. \A f \in Queued(l) : f.msg = act[l].msg => act[l].ver < f.ver
      BY <1>4, <2>5 DEF LoopInv
    <3>5. QED
      BY <1>7, <1>9, <3>1, <3>2, <3>3, <3>4
  <2>6. LoopInv(l)'
    BY <1>4, <1>7, <1>9, <2>1, <2>2, <2>4, <2>5 DEF LoopInv
  <2>7. QED
    BY <2>2, <2>3, <2>6
<1>10. ASSUME NEW l \in Loops, l \notin told
       PROVE  /\ LoopInv(l)' /\ Event(l)' = Event(l) /\ (At(l, "fetch")' <=> At(l, "fetch"))
              /\ ToSave(l)' = ToSave(l) /\ ToKeep(l)' = ToKeep(l)
  BY <1>1, <1>3, <1>4, <1>10, LoopKept DEF Inv
<1>11. m \in missed' \/ \E l \in Loops : Latest(m)' \in ToSave(l)'
  <2>1. CASE told = {}
    BY <1>3, <2>1
  <2>2. CASE told # {}
    BY <1>2, <1>9, <2>2
  <2>3. QED
    BY <2>1, <2>2
<1>12. \A l \in Loops :
          /\ LoopInv(l)' /\ Event(l)' = Event(l) /\ (At(l, "fetch")' <=> At(l, "fetch"))
          /\ ToSave(l) \subseteq ToSave(l)' /\ ToSave(l)' \subseteq ToSave(l) \cup {Latest(m)'}
          /\ ToKeep(l) \subseteq ToKeep(l)' /\ ToKeep(l)' \subseteq ToKeep(l) \cup {Latest(m)'}
  BY <1>2, <1>9, <1>10
<1>13. \A x \in Msgs : x # m => (x \in missed' <=> x \in missed)
  BY <1>3
<1>14. QED
  BY <1>1, <1>8, <1>11, <1>12, <1>13

\* The server has a new version of a message.
LEMMA PostStore ==
    ASSUME Inv, NEW m \in Msgs, Post(m), UNCHANGED <<disk, handlers, outrun>>,
           act' \in [Threads -> Activity], \A l \in Loops : act'[l] = act[l]
    PROVE  Types' /\ (\A l \in Loops : LoopInv(l)') /\ OrderInv' /\ WayInv'
<1>1. Types' /\ \A l \in Loops : LoopInv(l)'
  BY PostIs DEF Inv, Types
<1>2. OrderInv'
  <2>1. \A x \in Msgs : disk[x] \in Nat /\ disk[x] <= posted[x]
    BY DEF Inv, OrderInv, Types
  <2>2. \A x \in Msgs : disk[x] <= posted'[x]
    BY <2>1, PostIs
  <2>3. ASSUME NEW l \in Loops, NEW e \in ToSave(l)', e.msg \notin outrun PROVE disk[e.msg] <= e.ver
    <3>1. CASE e \in ToSave(l)
      BY <2>3, <3>1 DEF Inv, OrderInv
    <3>2. CASE e = Latest(m)'
      BY <2>2, <3>2 DEF Latest
    <3>3. QED
      BY <2>3, <3>1, <3>2, PostIs
  <2>4. QED
    BY <2>2, <2>3 DEF OrderInv
<1>3. WayInv'
  <2>1. SUFFICES ASSUME NEW x \in Msgs, x \notin missed', x \notin outrun
                 PROVE  disk[x] = posted'[x] \/ \E l \in Loops : Latest(x)' \in ToSave(l)'
    BY DEF WayInv
  <2>2. CASE x = m
    BY <2>1, <2>2, PostIs
  <2>3. CASE x # m
    <3>1. x \notin missed /\ posted'[x] = posted[x] /\ Latest(x)' = Latest(x)
      BY <2>1, <2>3, PostIs DEF Latest
    <3>2. disk[x] = posted[x] \/ \E l \in Loops : Latest(x) \in ToSave(l)
      BY <2>1, <3>1 DEF Inv, WayInv
    <3>3. QED
      BY <3>1, <3>2, PostIs
  <2>4. QED
    BY <2>2, <2>3
<1>4. QED
  BY <1>1, <1>2, <1>3

(***************************************************************************)
(* Steps of the application.                                               *)
(***************************************************************************)

\* What a step of a goroutine w of the application can do.
Shape(w) ==
    /\ act' \in [Threads -> Activity] /\ \A u \in Threads : u # w => act'[u] = act[u]
    /\ UNCHANGED <<disk, handlers, outrun, raced>>
    /\ UNCHANGED <<posted, inbox, missed>> \/ \E m \in Msgs : Post(m)
    /\ act'[w].pc \in Named => act'[w].msg \in Msgs
    /\ act'[w].pc = "acked" => act'[w].ver = 1
    /\ act'[w].pc \in Holding /\ act'[w].msg \in Msgs =>
          \/ act'[w].ver = disk[act'[w].msg] /\ UNCHANGED <<posted, inbox, missed>>
          \/ act'[w].ver <= posted'[act'[w].msg] /\ Post(act'[w].msg)
    /\ \/ held' = held
       \/ /\ act[w].pc \in Holding /\ act[w].msg \in Msgs /\ Cached(act[w].msg, act[w].ver)
          /\ UNCHANGED <<posted, inbox, missed>> /\ act'[w].pc \notin Holding

\* Every step of an application's goroutine has that shape.
LEMMA CallerShape ==
    ASSUME Distinct, Inv, NEW w \in Callers, Caller(w)
    PROVE  Shape(w)
<1> USE DEF Holding, Named
<1>1. /\ w \in Threads /\ act[w] \in Activity /\ Types /\ Msgs \subseteq Msgs \cup {NoId}
      /\ <<>> \in Todos
  BY DEF Inv, Types, Threads, Todos
<1>2. ASSUME Done(w) PROVE act' \in [Threads -> Activity] /\ act'[w].pc = "idle"
                           /\ \A u \in Threads : u # w => act'[u] = act[u]
  BY <1>1, <1>2, MovesIdle
<1>3. \A x \in Msgs : posted[x] \in Nat /\ disk[x] \in Nat
  BY <1>1 DEF Types
<1>4. ASSUME Go(w, AfterFetch(w))
      PROVE  /\ act' \in [Threads -> Activity] /\ act'[w].pc \in {"idle", "request"}
             /\ act'[w].pc = "request" => act'[w].msg = act[w].msg
             /\ \A u \in Threads : u # w => act'[u] = act[u]
  <2>1. CASE act[w].op = "lookup"
    BY <1>2, <1>4, <2>1 DEF AfterFetch, Done
  <2>2. CASE act[w].op # "lookup"
    <3> DEFINE d == [act[w] EXCEPT !.pc = "request", !.ver = 0]
    <3>1. d \in Activity /\ d.pc = "request" /\ d.msg = act[w].msg
      BY <1>1 DEF Activity, Labels
    <3>2. Go(w, d)
      BY <1>4, <2>2 DEF AfterFetch
    <3> HIDE DEF d
    <3>3. QED
      BY <1>1, <3>1, <3>2, Moves
  <2>3. QED
    BY <2>1, <2>2
<1>5. ASSUME NEW m \in Msgs, NEW op \in {"lookup", "edit", "delete", "send"}, Begin(w, op, m) PROVE Shape(w)
  <2> DEFINE d == [Idle EXCEPT !.op = op, !.msg = m, !.pc = IF op = "send" THEN "write" ELSE "get"]
  <2>1. d \in Activity /\ d.msg = m /\ d.pc \in {"write", "get"}
    BY <1>1 DEF Idle, Activity, Labels, Ops
  <2>2. Go(w, d)
    BY <1>5 DEF Begin
  <2> HIDE DEF d
  <2>3. QED
    BY <1>1, <1>5, <2>1, <2>2, Moves DEF Begin, Shape, server, history
<1>6. CASE Get(w)
  <2>1. CASE Has(held, act[w].msg)
    BY <1>4, <1>6, <2>1 DEF Get, Shape, server, history, Inv, CallersInv, At
  <2>2. CASE ~Has(held, act[w].msg)
    <3>1. To(w, "load") /\ "load" \in Labels /\ act[w].msg \in Msgs
      BY <1>6, <2>2 DEF Get, Labels, Inv, CallersInv, At
    <3>2. QED
      BY <1>1, <1>6, <3>1, MovesTo DEF Get, Shape, server, history
  <2>3. QED
    BY <2>1, <2>2
<1>7. CASE Load(w)
  <2>1. act[w].msg \in Msgs
    BY <1>7 DEF Load, Inv, CallersInv, At
  <2>2. CASE Done(w)
    BY <1>2, <1>7, <2>2 DEF Load, Shape, server, history
  <2>3. CASE Go(w, [act[w] EXCEPT !.pc = "put", !.ver = disk[act[w].msg]])
    <3> DEFINE d == [act[w] EXCEPT !.pc = "put", !.ver = disk[act[w].msg]]
    <3>0. disk[act[w].msg] \in Nat
      BY <1>3, <2>1
    <3>1. d \in Activity /\ d.pc = "put" /\ d.msg = act[w].msg /\ d.ver = disk[act[w].msg]
      BY <1>1, <3>0 DEF Activity, Labels
    <3> HIDE DEF d
    <3>2. /\ act' \in [Threads -> Activity] /\ \A u \in Threads : u # w => act'[u] = act[u]
          /\ act'[w].pc = "put" /\ act'[w].msg = act[w].msg /\ act'[w].ver = disk[act[w].msg]
      <4>1. Go(w, d)
        BY <2>3 DEF d
      <4>2. QED
        BY <1>1, <3>1, <4>1, Moves
    <3>3. QED
      BY <1>7, <2>1, <3>2 DEF Load, Shape, server, history
  <2>4. QED
    BY <1>7, <2>2, <2>3 DEF Load
<1>8. CASE Put(w)
  BY <1>4, <1>8 DEF Put, Shape, server, history, Inv, CallersInv, At
<1>9. CASE Update(w)
  <2>1. act[w].msg \in Msgs
    BY <1>9 DEF Update, Inv, CallersInv, At
  <2>2. CASE Done(w)
    BY <1>2, <1>9, <2>1, <2>2 DEF Update, Shape, server
  <2>3. CASE Post(act[w].msg) /\ Go(w, [act[w] EXCEPT !.pc = "edited", !.ver = posted[act[w].msg] + 1])
    <3> DEFINE d == [act[w] EXCEPT !.pc = "edited", !.ver = posted[act[w].msg] + 1]
    <3>0. posted[act[w].msg] + 1 \in Nat
      BY <1>3, <2>1
    <3>1. d \in Activity /\ d.pc = "edited" /\ d.msg = act[w].msg /\ d.ver = posted[act[w].msg] + 1
      BY <1>1, <3>0 DEF Activity, Labels
    <3> HIDE DEF d
    <3>2. /\ act' \in [Threads -> Activity] /\ \A u \in Threads : u # w => act'[u] = act[u]
          /\ act'[w].pc = "edited" /\ act'[w].msg = act[w].msg /\ act'[w].ver = posted[act[w].msg] + 1
      <4>1. Go(w, d)
        BY <2>3 DEF d
      <4>2. QED
        BY <1>1, <3>1, <4>1, Moves
    <3>3. posted'[act[w].msg] = posted[act[w].msg] + 1
      BY <1>1, <2>1, <2>3 DEF Post, Types
    <3>4. QED
      BY <1>3, <1>9, <2>1, <2>3, <3>2, <3>3 DEF Update, Shape
  <2>4. QED
    BY <1>9, <2>2, <2>3 DEF Update
<1>10. CASE Remove(w)
  <2>1. act[w].msg \in Msgs
    BY <1>10 DEF Remove, Inv, CallersInv, At
  <2>2. QED
    BY <1>2, <1>10, <2>1 DEF Remove, Shape, server
<1>11. CASE Edited(w)
  BY <1>2, <1>11 DEF Edited, Shape, server, history, Inv, CallersInv, At
<1>12. CASE Write(w)
  <2>1. act[w].msg \in Msgs
    BY <1>12 DEF Write, Inv, CallersInv, At
  <2>2. CASE Done(w)
    BY <1>2, <1>12, <2>1, <2>2 DEF Write, Shape, server
  <2>3. ASSUME Post(act[w].msg), NEW id \in {act[w].msg, NoId},
               Go(w, [act[w] EXCEPT !.pc = "acked", !.msg = id, !.ver = 1])
        PROVE  Shape(w)
    <3> DEFINE d == [act[w] EXCEPT !.pc = "acked", !.msg = id, !.ver = 1]
    <3>1. d \in Activity /\ d.pc = "acked" /\ d.msg = id /\ d.ver = 1
      BY <1>1, <2>1 DEF Activity, Labels
    <3> HIDE DEF d
    <3>2. /\ act' \in [Threads -> Activity] /\ \A u \in Threads : u # w => act'[u] = act[u]
          /\ act'[w].pc = "acked" /\ act'[w].msg = id /\ act'[w].ver = 1
      <4>1. Go(w, d)
        BY <2>3 DEF d
      <4>2. QED
        BY <1>1, <3>1, <4>1, Moves
    <3>3. posted'[act[w].msg] >= 1
      BY <1>1, <2>1, <2>3 DEF Post, Types
    <3>4. QED
      BY <1>12, <2>1, <2>3, <3>2, <3>3 DEF Write, Shape, Distinct
  <2>4. QED
    BY <1>12, <2>2, <2>3 DEF Write
<1>13. CASE Acked(w)
  <2>1. act[w].msg \in Msgs \cup {NoId} /\ act[w].ver = 1
    BY <1>1, <1>13 DEF Acked, Inv, CallersInv, At, Activity
  <2>2. QED
    BY <1>2, <1>13, <2>1 DEF Acked, Shape, server, history, At
<1>14. QED
  BY <1>5, <1>6, <1>7, <1>8, <1>9, <1>10, <1>11, <1>12, <1>13 DEF Caller

\* A step of the application keeps what its goroutines have in hand real, as
\* versions only grow.
LEMMA CallerInv ==
    ASSUME Distinct, Inv, NEW w \in Callers, Caller(w)
    PROVE  Inv'
<1>1. /\ Shape(w) /\ Types /\ w \in Threads /\ Callers \subseteq Threads /\ Loops \subseteq Threads
      /\ \A l \in Loops : act'[l] = act[l]
  BY CallerShape DEF Distinct, Inv, Threads, Shape
<1>2. ASSUME UNCHANGED <<posted, inbox, missed>>
      PROVE  Types' /\ (\A l \in Loops : LoopInv(l)') /\ OrderInv' /\ WayInv'
  <2>1. Types'
    BY <1>1, <1>2 DEF Types, Shape
  <2>2. \A m \in Msgs : posted[m] <= posted'[m] /\ posted'[m] \in Nat
    BY <1>1, <1>2 DEF Types
  <2>3. \A l \in Loops : LoopInv(l)' /\ ToSave(l)' = ToSave(l)
    BY <1>1, <1>2, <2>2, LoopKept DEF Inv
  <2>4. QED
    BY <1>1, <1>2, <2>1, <2>3, SameStore DEF Shape
<1>3. ASSUME NEW m \in Msgs, Post(m)
      PROVE  Types' /\ (\A l \in Loops : LoopInv(l)') /\ OrderInv' /\ WayInv'
  BY <1>1, <1>3, PostStore DEF Shape
<1>4. \A m \in Msgs : posted[m] \in Nat /\ posted'[m] \in Nat /\ posted[m] <= posted'[m]
  <2>1. CASE posted' = posted
    BY <1>1, <2>1 DEF Types
  <2>2. ASSUME NEW m \in Msgs, Post(m)
        PROVE  \A x \in Msgs : posted[x] \in Nat /\ posted'[x] \in Nat /\ posted[x] <= posted'[x]
    BY <1>1, <2>2, PostIs
  <2>3. QED
    BY <1>1, <2>1, <2>2 DEF Shape
<1>5. ASSUME NEW u \in Callers
      PROVE  /\ act'[u].pc \in Named => act'[u].msg \in Msgs
             /\ act'[u].pc \in Holding /\ act'[u].msg \in Msgs => act'[u].ver <= posted'[act'[u].msg]
             /\ act'[u].pc = "acked" => act'[u].ver = 1
  <2>1. CASE u = w
    <3>1. \A m \in Msgs : disk[m] <= posted[m]
      BY DEF Inv, OrderInv
    <3>2. QED
      BY <1>1, <2>1, <3>1 DEF Shape
  <2>2. CASE u # w
    <3>1. act'[u] = act[u] /\ act[u].ver \in Nat
      BY <1>1, <2>2 DEF Shape, Types, Activity
    <3>2. QED
      BY <1>4, <3>1 DEF Inv, CallersInv
  <2>3. QED
    BY <2>1, <2>2
<1>6. QED
  BY <1>1, <1>2, <1>3, <1>5 DEF Inv, CallersInv, Shape

(***************************************************************************)
(* Steps of the loops.                                                     *)
(***************************************************************************)

\* A step of one loop leaves the other ones and the application alone.
LEMMA OthersKept ==
    ASSUME Distinct, Inv, NEW l \in Loops, UNCHANGED posted, \A u \in Threads : u # l => act'[u] = act[u],
           \A k \in Loops : k # l => inbox'[k] = inbox[k]
    PROVE  /\ \A k \in Loops : k # l =>
                 /\ LoopInv(k)' /\ ToSave(k)' = ToSave(k) /\ ToKeep(k)' = ToKeep(k) /\ Event(k)' = Event(k)
                 /\ At(k, "fetch")' = At(k, "fetch")
           /\ \A w \in Callers : act'[w] = act[w]
           /\ CallersInv'
<1>1. \A m \in Msgs : posted[m] <= posted'[m] /\ posted'[m] \in Nat
  BY DEF Inv, Types
<1>2. \A w \in Callers : act'[w] = act[w]
  BY DEF Distinct, Threads
<1>3. \A k \in Loops : k # l => act'[k] = act[k]
  BY DEF Threads
<1>4. QED
  BY <1>1, <1>2, <1>3, LoopKept, CallersKept DEF Inv

\* The next event is taken from the inbox.
LEMMA EmitInv ==
    ASSUME Distinct, Inv, NEW l \in Loops, Emit(l)
    PROVE  /\ Inv' /\ UNCHANGED <<posted, disk, held, missed, outrun, raced>>
           /\ \A k \in Loops : /\ ToSave(k)' = ToSave(k) /\ ToKeep(k)' = ToKeep(k)
                               /\ At(k, "fetch") => At(k, "fetch")' /\ Event(k)' = Event(k)
           /\ \A w \in Callers : act'[w] = act[w]
<1>1. /\ Types' /\ LoopInv(l)' /\ ToSave(l)' = ToSave(l) /\ ToKeep(l)' = ToKeep(l)
      /\ \A u \in Threads : u # l => act'[u] = act[u]
      /\ \A k \in Loops : k # l => inbox'[k] = inbox[k]
      /\ ~At(l, "fetch")
  BY EmitLoop DEF Inv
<1>2. UNCHANGED <<posted, disk, held, missed, outrun, raced>>
  BY DEF Emit, history
<1>3. /\ \A k \in Loops : k # l =>
            /\ LoopInv(k)' /\ ToSave(k)' = ToSave(k) /\ ToKeep(k)' = ToKeep(k) /\ Event(k)' = Event(k)
            /\ At(k, "fetch")' = At(k, "fetch")
      /\ \A w \in Callers : act'[w] = act[w]
      /\ CallersInv'
  BY <1>1, <1>2, OthersKept
<1>4. OrderInv' /\ WayInv'
  BY <1>1, <1>2, <1>3, SameStore
<1>5. QED
  BY <1>1, <1>2, <1>3, <1>4 DEF Inv

\* A handler has returned, or the message has been cached or not.
LEMMA BackInv ==
    ASSUME Distinct, Inv, NEW l \in Loops, HandlerReturns(l) \/ FetchFails(l) \/ Keep(l)
    PROVE  /\ Inv' /\ UNCHANGED <<posted, disk, missed, outrun>>
           /\ \A k \in Loops : ToSave(k)' = ToSave(k)
           /\ ToKeep(l)' = ToSave(l)
           /\ \A k \in Loops : k # l => /\ ToKeep(k)' = ToKeep(k) /\ Event(k)' = Event(k)
                                        /\ At(k, "fetch")' = At(k, "fetch")
           /\ \A w \in Callers : act'[w] = act[w]
<1>1. /\ At(l, "handler") \/ At(l, "fetch")
      /\ NextHandler(l) /\ UNCHANGED <<posted, inbox, disk, handlers, missed, outrun>>
  BY DEF HandlerReturns, FetchFails, Keep, server, history
<1>2. /\ Types' /\ LoopInv(l)' /\ ToSave(l)' = ToSave(l) /\ ToKeep(l)' = ToSave(l)
      /\ \A u \in Threads : u # l => act'[u] = act[u]
  BY <1>1, NextHandlerLoop DEF Inv
<1>3. /\ \A k \in Loops : k # l =>
            /\ LoopInv(k)' /\ ToSave(k)' = ToSave(k) /\ ToKeep(k)' = ToKeep(k) /\ Event(k)' = Event(k)
            /\ At(k, "fetch")' = At(k, "fetch")
      /\ \A w \in Callers : act'[w] = act[w]
      /\ CallersInv'
  BY <1>1, <1>2, OthersKept
<1>4. OrderInv' /\ WayInv'
  BY <1>1, <1>2, <1>3, SameStore
<1>5. QED
  BY <1>1, <1>2, <1>3, <1>4 DEF Inv

\* SaveMessage has been called.
LEMMA SaveInv ==
    ASSUME Distinct, Inv, NEW l \in Loops, Save(l)
    PROVE  /\ Inv' /\ UNCHANGED <<posted, held, raced>> /\ missed \subseteq missed'
           /\ \A k \in Loops : ToKeep(k)' = ToKeep(k) /\ Event(k)' = Event(k)
           /\ \A k \in Loops : At(k, "fetch") => At(k, "fetch")'
           /\ \A w \in Callers : act'[w] = act[w]
           /\ At(l, "fetch")' /\ act[l].msg \in Msgs
           /\ Event(l).msg = act[l].msg /\ Event(l).ver = act[l].ver
           /\ \/ disk' = disk /\ outrun' = outrun
              \/ /\ disk' = [disk EXCEPT ![act[l].msg] = act[l].ver]
                 /\ \A m \in Msgs : m # act[l].msg => (m \in outrun' <=> m \in outrun)
           /\ \A m \in Msgs : disk'[m] < disk[m] => m \in outrun /\ m \in outrun'
<1> DEFINE m == act[l].msg
<1> DEFINE v == act[l].ver
<1>1. /\ At(l, "save") /\ To(l, "fetch") /\ UNCHANGED <<posted, inbox, held, handlers, raced>>
      /\ LoopInv(l) /\ Types
  BY DEF Save, server, Inv
<1>2. /\ act' \in [Threads -> Activity] /\ LoopInv(l)' /\ At(l, "fetch")'
      /\ Event(l)' = Event(l) /\ ToSave(l) = Queued(l) \cup {Event(l)}
      /\ ToSave(l)' = Queued(l) /\ ToKeep(l)' = ToKeep(l)
      /\ \A u \in Threads : u # l => act'[u] = act[u]
      /\ Event(l) \in Events /\ Event(l) \in ToSave(l)
      /\ Event(l).msg = m /\ Event(l).ver = v
      /\ m \in Msgs /\ v \in Nat /\ v <= posted[m]
      /\ \A e \in Queued(l) : e.msg = m => v < e.ver
  BY <1>1, SaveLoop
<1>3. /\ \A k \in Loops : k # l =>
            /\ LoopInv(k)' /\ ToSave(k)' = ToSave(k) /\ ToKeep(k)' = ToKeep(k) /\ Event(k)' = Event(k)
            /\ At(k, "fetch")' = At(k, "fetch")
      /\ \A w \in Callers : act'[w] = act[w]
      /\ CallersInv'
  BY <1>1, <1>2, OthersKept
<1>4. ~At(l, "fetch")
  BY <1>1 DEF At
<1>5. \A x \in Msgs : disk[x] \in Nat /\ posted[x] \in Nat /\ disk[x] <= posted[x]
  BY DEF Inv, Types, OrderInv
<1>6. ASSUME NEW k \in Loops, NEW e \in ToSave(k) PROVE e.msg \in Msgs /\ e.ver \in Nat /\ e.ver <= posted[e.msg]
  BY <1>6, Real DEF Inv, ToKeep
<1> HIDE DEF m, v
<1>7. CASE /\ disk' = [disk EXCEPT ![m] = v] /\ missed' = missed
           /\ outrun' = Judged(outrun, l, m, LateToSave(l, m))
  <2>1. disk' \in [Msgs -> Nat] /\ disk'[m] = v /\ \A x \in Msgs : x # m => disk'[x] = disk[x]
    BY <1>1, <1>2, <1>7 DEF Types
  <2>2. Types'
    BY <1>1, <1>2, <2>1 DEF Types
  <2>3. \A x \in Msgs : x # m => (x \in outrun' <=> x \in outrun)
    BY <1>7 DEF Judged
  <2>4. ASSUME m \notin outrun' PROVE LateToSave(l, m) = {} /\ (v = posted[m] \/ m \notin outrun)
    BY <1>7, <2>4 DEF Judged, v
  <2>5. ASSUME m \notin outrun', NEW k \in Loops, k # l, NEW e \in ToSave(k), e.msg = m PROVE v <= e.ver
    <3>1. ~(e.ver < v)
      BY <2>4, <2>5 DEF LateToSave, v
    <3>2. QED
      BY <1>2, <1>6, <2>5, <3>1
  <2>6. OrderInv'
    <3>1. \A x \in Msgs : disk'[x] <= posted[x]
      BY <1>2, <1>5, <2>1
    <3>2. ASSUME NEW k \in Loops, NEW e \in ToSave(k)', e.msg \notin outrun' PROVE disk'[e.msg] <= e.ver
      <4>1. e \in ToSave(k)
        BY <1>2, <1>3, <3>2
      <4>2. e.msg \in Msgs /\ e.ver \in Nat
        BY <1>6, <4>1
      <4>3. CASE e.msg # m
        BY <2>1, <2>3, <3>2, <4>1, <4>2, <4>3 DEF Inv, OrderInv
      <4>4. CASE e.msg = m /\ k = l
        <5>1. e \in Queued(l)
          BY <1>2, <3>2, <4>4
        <5>2. v < e.ver
          BY <1>2, <4>4, <5>1
        <5>3. QED
          BY <1>2, <2>1, <4>2, <4>4, <5>2
      <4>5. CASE e.msg = m /\ k # l
        BY <2>1, <2>5, <3>2, <4>1, <4>5
      <4>6. QED
        BY <4>3, <4>4, <4>5
    <3>3. QED
      BY <1>1, <3>1, <3>2 DEF OrderInv
  <2>7. WayInv'
    <3>1. SUFFICES ASSUME NEW x \in Msgs, x \notin missed, x \notin outrun'
                   PROVE  disk'[x] = posted[x] \/ \E k \in Loops : Latest(x) \in ToSave(k)'
      BY <1>1, <1>7 DEF WayInv, Latest
    <3>2. CASE x # m
      <4>1. disk[x] = posted[x] \/ \E k \in Loops : Latest(x) \in ToSave(k)
        BY <2>3, <3>1, <3>2 DEF Inv, WayInv
      <4>2. Latest(x) # Event(l)
        BY <1>2, <3>2 DEF Latest
      <4>3. QED
        BY <1>2, <1>3, <2>1, <3>2, <4>1, <4>2
    <3>3. CASE x = m /\ v = posted[m]
      BY <2>1, <3>3
    <3>4. CASE x = m /\ v # posted[m]
      <4>1. m \notin outrun
        BY <2>4, <3>1, <3>4
      <4>2. disk[m] <= v
        BY <1>2, <4>1 DEF Inv, OrderInv
      <4>3. disk[m] # posted[m]
        BY <1>2, <1>5, <3>4, <4>2
      <4>4. PICK k \in Loops : Latest(m) \in ToSave(k)
        BY <1>2, <3>1, <3>4, <4>1, <4>3 DEF Inv, WayInv
      <4>5. Latest(m) # Event(l)
        BY <1>2, <3>4 DEF Latest
      <4>6. QED
        BY <1>2, <1>3, <3>4, <4>4, <4>5
    <3>5. QED
      BY <3>2, <3>3, <3>4
  <2>8. ASSUME NEW x \in Msgs, disk'[x] < disk[x] PROVE x \in outrun /\ x \in outrun'
    <3>1. x = m
      BY <1>5, <2>1, <2>8
    <3>2. v < disk[m]
      BY <2>1, <2>8, <3>1
    <3>3. m \in outrun
      <4>1. m \notin outrun => disk[m] <= v
        BY <1>2 DEF Inv, OrderInv
      <4>2. QED
        BY <1>2, <1>5, <3>2, <4>1
    <3>4. v # posted[m]
      BY <1>2, <1>5, <3>2
    <3>5. QED
      BY <1>7, <3>1, <3>3, <3>4 DEF Judged, v
  <2>9. QED
    BY <1>1, <1>2, <1>3, <1>4, <1>7, <2>2, <2>3, <2>6, <2>7, <2>8 DEF Inv, m, v
<1>8. CASE SaveFails(l)
  <2>1. /\ disk' = disk /\ outrun' = outrun
        /\ Lose({Event(l)}, Queued(l) \cup ToSaveIn(Loops \ {l}))
    BY <1>8 DEF SaveFails
  <2>2. Types'
    BY <1>1, <1>2, <2>1 DEF Types
  <2>3. OrderInv' /\ WayInv' /\ missed \subseteq missed'
    <3> DEFINE lost == {Event(l)}
    <3> DEFINE rest == Queued(l) \cup ToSaveIn(Loops \ {l})
    <3>1. \A k \in Loops : ToSave(k)' \subseteq ToSave(k)
      BY <1>2, <1>3
    <3>2. \A k \in Loops : \A e \in ToSave(k) : e \in lost \/ \E j \in Loops : e \in ToSave(j)'
      BY <1>2, <1>3
    <3>3. \A g \in rest : \E j \in Loops : g \in ToSave(j)'
      BY <1>2, <1>3, InSome
    <3>4. Lose(lost, rest) /\ UNCHANGED <<posted, disk, outrun>>
      BY <1>1, <2>1
    <3> HIDE DEF lost, rest
    <3>5. QED
      BY <3>1, <3>2, <3>3, <3>4, LostStore
  <2>4. \A x \in Msgs : ~(disk'[x] < disk[x])
    BY <1>5, <2>1
  <2>5. QED
    BY <1>1, <1>2, <1>3, <1>4, <2>1, <2>2, <2>3, <2>4 DEF Inv, m, v
<1>9. QED
  BY <1>7, <1>8 DEF Save, m, v

\* A loop leaves; what it had not taken from its queue is gone.
LEMMA LoopEndsInv ==
    ASSUME Distinct, Inv, NEW l \in Loops, LoopEnds(l)
    PROVE  /\ Inv' /\ UNCHANGED <<posted, disk, held, outrun, raced>> /\ missed \subseteq missed'
           /\ \A k \in Loops : /\ ToKeep(k)' \subseteq ToKeep(k)
                               /\ At(k, "fetch") => At(k, "fetch")' /\ Event(k)' = Event(k)
           /\ \A w \in Callers : act'[w] = act[w]
<1>1. /\ At(l, "idle") /\ UNCHANGED <<posted, disk, held, outrun, raced, act, handlers>>
      /\ inbox' = [inbox EXCEPT ![l] = <<>>] /\ Lose(Queued(l), ToSaveIn(Loops \ {l}))
      /\ l \in Threads
  BY DEF LoopEnds, Threads
<1>2. inbox' \in [Loops -> Seq(Events)] /\ inbox'[l] = <<>> /\ \A k \in Loops : k # l => inbox'[k] = inbox[k]
  BY <1>1, EmptyQueue DEF Inv, Types
<1>3. /\ \A k \in Loops : k # l =>
            /\ LoopInv(k)' /\ ToSave(k)' = ToSave(k) /\ ToKeep(k)' = ToKeep(k) /\ Event(k)' = Event(k)
            /\ At(k, "fetch")' = At(k, "fetch")
      /\ \A w \in Callers : act'[w] = act[w]
      /\ CallersInv'
  BY <1>1, <1>2, OthersKept
<1>4. Queued(l)' = {} /\ (\A pc : At(l, pc)' = At(l, pc)) /\ Event(l)' = Event(l) /\ act'[l] = act[l]
  BY <1>1, <1>2, EmptyQueue DEF Queued, At, Event
<1>5. LoopInv(l)'
  BY <1>1, <1>2, <1>4, EmptyQueue DEF LoopInv, Inv
<1>6. Types'
  BY <1>1, <1>2 DEF Inv, Types
<1>7. ToSave(l) = Queued(l) /\ ToKeep(l) = Queued(l)
  BY <1>1, Before DEF Inv
<1>8. ToSave(l)' = {} /\ ToKeep(l)' = {}
  <2>1. At(l, "idle")'
    BY <1>1, <1>4
  <2>2. ToSave(l)' = Queued(l)' /\ ToKeep(l)' = Queued(l)'
    <3>1. act'[l].todo = <<>> /\ ~At(l, "save")' /\ ~At(l, "fetch")'
      BY <1>5, <2>1 DEF LoopInv, At
    <3>2. "internal" \notin Range(act'[l].todo)
      BY <3>1 DEF Range
    <3>3. QED
      BY <3>1, <3>2 DEF ToSave, ToKeep
  <2>3. QED
    BY <1>4, <2>2
<1>9. OrderInv' /\ WayInv' /\ missed \subseteq missed'
  <2> DEFINE lost == Queued(l)
  <2> DEFINE rest == ToSaveIn(Loops \ {l})
  <2>1. \A k \in Loops : ToSave(k)' \subseteq ToSave(k)
    BY <1>3, <1>8
  <2>2. \A k \in Loops : \A e \in ToSave(k) : e \in lost \/ \E j \in Loops : e \in ToSave(j)'
    BY <1>3, <1>7
  <2>3. \A g \in rest : \E j \in Loops : g \in ToSave(j)'
    BY <1>3, InSome
  <2>4. Lose(lost, rest) /\ UNCHANGED <<posted, disk, outrun>>
    BY <1>1
  <2> HIDE DEF lost, rest
  <2>5. QED
    BY <2>1, <2>2, <2>3, <2>4, LostStore
<1>10. QED
  BY <1>1, <1>3, <1>4, <1>5, <1>6, <1>8, <1>9 DEF Inv

\* A new process takes the store over.
LEMMA RestartInv ==
    ASSUME Distinct, Bound, Inv, Restart
    PROVE  /\ Inv' /\ UNCHANGED <<posted, disk, outrun>> /\ missed \subseteq missed'
           /\ held' = EmptyCache
           /\ \A l \in Loops : ToKeep(l)' = {}
           /\ \A w \in Callers : act'[w].pc = "idle"
<1>1. /\ Types /\ inbox' = [l \in Loops |-> <<>>] /\ UNCHANGED <<posted, disk, outrun>> /\ held' = EmptyCache
      /\ act' = [t \in Threads |-> Idle] /\ Lose(ToSaveIn(Loops), {}) /\ handlers' \in Registered
  BY DEF Inv, Restart, Started
<1>2. act' \in [Threads -> Activity] /\ \A t \in Threads : act'[t] = Idle
  BY <1>1, IdleIs
<1>3. inbox' \in [Loops -> Seq(Events)] /\ handlers' \in Orders /\ \A l \in Loops : inbox'[l] = <<>>
  BY <1>1, EmptyQueue DEF Bound
<1>4. Types'
  BY <1>1, <1>2, <1>3 DEF Types
<1>5. ASSUME NEW l \in Loops PROVE LoopInv(l)' /\ ToSave(l)' = {} /\ ToKeep(l)' = {}
  <2>1. act'[l].pc = "idle" /\ act'[l].todo = <<>>
    BY <1>2, IdleIs DEF Threads
  <2>2. Queued(l)' = {} /\ Increasing(inbox'[l])
    BY <1>3, EmptyQueue DEF Queued
  <2>3. LoopInv(l)'
    BY <2>1, <2>2 DEF LoopInv, At
  <2>4. "internal" \notin Range(act'[l].todo)
    BY <2>1 DEF Range
  <2>5. QED
    BY <2>1, <2>2, <2>3, <2>4 DEF ToSave, ToKeep, At
<1>6. \A w \in Callers : act'[w].pc = "idle"
  BY <1>2, IdleIs DEF Threads
<1>7. CallersInv'
  BY <1>6 DEF CallersInv, Named, Holding
<1>8. OrderInv' /\ WayInv' /\ missed \subseteq missed'
  <2> DEFINE lost == ToSaveIn(Loops)
  <2> DEFINE rest == {}
  <2>1. \A k \in Loops : ToSave(k)' \subseteq ToSave(k)
    BY <1>5
  <2>2. \A k \in Loops : \A e \in ToSave(k) : e \in lost
    BY InSome
  <2>3. Lose(lost, rest) /\ UNCHANGED <<posted, disk, outrun>>
    BY <1>1
  <2>4. \A g \in rest : \E j \in Loops : g \in ToSave(j)'
    OBVIOUS
  <2> HIDE DEF lost, rest
  <2>5. QED
    BY <2>1, <2>2, <2>3, <2>4, LostStore
<1>9. QED
  BY <1>1, <1>4, <1>5, <1>6, <1>7, <1>8 DEF Inv

\* A step that does nothing to what the invariants are about.
LEMMA QuietInv ==
    ASSUME Distinct, Inv, UNCHANGED <<posted, inbox, disk, act, missed, outrun>>, handlers' \in Orders
    PROVE  /\ Inv'
           /\ \A l \in Loops : /\ ToSave(l)' = ToSave(l) /\ ToKeep(l)' = ToKeep(l) /\ Event(l)' = Event(l)
                               /\ At(l, "fetch")' = At(l, "fetch")
<1>1. Types' /\ CallersInv'
  BY DEF Inv, Types, CallersInv
<1>2. \A m \in Msgs : posted[m] <= posted'[m] /\ posted'[m] \in Nat
  BY DEF Inv, Types
<1>3. \A l \in Loops : /\ LoopInv(l)' /\ ToSave(l)' = ToSave(l) /\ ToKeep(l)' = ToKeep(l)
                       /\ Event(l)' = Event(l) /\ At(l, "fetch")' = At(l, "fetch")
  BY <1>2, LoopKept DEF Inv
<1>4. OrderInv' /\ WayInv'
  BY <1>3, SameStore
<1>5. QED
  BY <1>1, <1>3, <1>4 DEF Inv

(***************************************************************************)
(* The invariant holds.                                                    *)
(***************************************************************************)

\* The initial state.
LEMMA InvInit == ASSUME Bound PROVE Init => Inv
<1>1. SUFFICES ASSUME Init PROVE Inv
  OBVIOUS
<1>2. act \in [Threads -> Activity] /\ (\A t \in Threads : act[t] = Idle)
      /\ Callers \subseteq Threads /\ Loops \subseteq Threads
  BY <1>1, IdleIs DEF Init, Threads
<1>3. /\ posted \in [Msgs -> Nat] /\ disk = posted /\ handlers \in Orders
      /\ inbox \in [Loops -> Seq(Events)] /\ \A l \in Loops : inbox[l] = <<>>
  BY <1>1, EmptyQueue DEF Init, Bound
<1>4. Types
  BY <1>2, <1>3 DEF Types
<1>5. ASSUME NEW l \in Loops PROVE LoopInv(l) /\ ToSave(l) = {}
  <2>1. At(l, "idle") /\ act[l].todo = <<>> /\ ~At(l, "save") /\ ~At(l, "fetch") /\ ~At(l, "handler")
    BY <1>2, IdleIs DEF At
  <2>2. Queued(l) = {} /\ Increasing(inbox[l])
    BY <1>3, EmptyQueue DEF Queued
  <2>3. LoopInv(l)
    BY <2>1, <2>2 DEF LoopInv
  <2>4. QED
    BY <1>4, <2>1, <2>2, <2>3, Before
<1>6. OrderInv /\ WayInv
  BY <1>3, <1>5 DEF OrderInv, WayInv
<1>7. CallersInv
  BY <1>2, IdleIs DEF CallersInv, Named, Holding
<1>8. QED
  BY <1>4, <1>5, <1>6, <1>7 DEF Inv

\* The handlers after a registration.
LEMMA RegisterIs ==
    ASSUME Register
    PROVE  handlers' \in Orders /\ UNCHANGED <<posted, inbox, disk, held, act, missed, outrun, raced>>
BY Appended DEF Register, server, history, Orders

\* A message of others is posted.
LEMMA OthersInv ==
    ASSUME Distinct, Inv, NEW m \in Theirs, OthersPost(m)
    PROVE  Inv' /\ m \in Msgs /\ Post(m) /\ UNCHANGED <<disk, held, act, outrun, raced>>
<1>1. m \in Msgs /\ Post(m) /\ UNCHANGED <<disk, held, handlers, act, outrun, raced>>
  BY DEF OthersPost, Msgs
<1>2. act' \in [Threads -> Activity] /\ \A t \in Threads : act'[t] = act[t]
  BY <1>1 DEF Inv, Types
<1>3. Types' /\ (\A l \in Loops : LoopInv(l)') /\ OrderInv' /\ WayInv'
  BY <1>1, <1>2, PostStore DEF Threads
<1>4. \A x \in Msgs : posted[x] <= posted'[x] /\ posted'[x] \in Nat
  BY <1>1, <1>2, PostIs DEF Threads
<1>5. CallersInv'
  BY <1>1, <1>4, CallersKept
<1>6. QED
  BY <1>1, <1>3, <1>5 DEF Inv

\* Every step.
LEMMA InvNext == ASSUME Distinct, Bound PROVE Inv /\ [Next]_vars => Inv'
<1>1. SUFFICES ASSUME Inv, [Next]_vars PROVE Inv'
  OBVIOUS
<1>2. ASSUME NEW w \in Callers, Caller(w) PROVE Inv'
  BY <1>1, <1>2, CallerInv
<1>3. ASSUME NEW l \in Loops, DispatchLoop(l) PROVE Inv'
  BY <1>1, <1>3, EmitInv, BackInv, SaveInv DEF DispatchLoop
<1>4. ASSUME NEW l \in Loops, Open(l) \/ Drop(l) PROVE Inv'
  <2>1. handlers' \in Orders /\ UNCHANGED <<posted, inbox, disk, act, missed, outrun>>
    BY <1>1, <1>4 DEF Open, Drop, server, history, Inv, Types
  <2>2. QED
    BY <1>1, <2>1, QuietInv
<1>5. ASSUME NEW l \in Loops, LoopEnds(l) PROVE Inv'
  BY <1>1, <1>5, LoopEndsInv
<1>6. CASE Restart
  BY <1>1, <1>6, RestartInv
<1>7. CASE Register
  BY <1>1, <1>7, RegisterIs, QuietInv
<1>8. ASSUME NEW m \in Theirs, OthersPost(m) PROVE Inv'
  BY <1>1, <1>8, OthersInv
<1>9. CASE UNCHANGED vars
  <2>1. handlers' \in Orders /\ UNCHANGED <<posted, inbox, disk, act, missed, outrun>>
    BY <1>1, <1>9 DEF vars, Inv, Types
  <2>2. QED
    BY <1>1, <2>1, QuietInv
<1>10. QED
  BY <1>1, <1>2, <1>3, <1>4, <1>5, <1>6, <1>7, <1>8, <1>9 DEF Next

\* "message lookups survive process restarts and eviction": when no event of a
\* message is on its way, none that counts was lost and no loop of another
\* connection was late with an older version, the store has the server's version,
\* for any number of connections at once, goroutines, versions and restarts.
THEOREM StoreSettledCorrect == ASSUME Distinct, Bound PROVE Spec => []StoreSettled
<1>1. Inv => StoreSettled
  <2>1. SUFFICES ASSUME Inv, NEW m \in Msgs, m \notin missed, m \notin outrun, m \notin Unsaved
                 PROVE  disk[m] = posted[m]
    BY DEF StoreSettled
  <2>2. ASSUME NEW l \in Loops, Latest(m) \in ToSave(l) PROVE FALSE
    <3>1. Latest(m) \in ToSaveIn(Loops) /\ Latest(m).msg = m
      BY <2>2, InSome DEF Latest
    <3>2. QED
      BY <2>1, <3>1 DEF Unsaved
  <2>3. QED
    BY <2>1, <2>2 DEF Inv, WayInv
<1>2. Init => Inv
  BY InvInit
<1>3. Inv /\ [Next]_vars => Inv'
  BY InvNext
<1>4. QED
  BY <1>1, <1>2, <1>3, PTL DEF Spec

\* A step that does not save leaves the rows alone.
LEMMA DiskKept == [Next]_vars => (\E l \in Loops : Save(l)) \/ disk' = disk
<1>1. SUFFICES ASSUME [Next]_vars, ~\E l \in Loops : Save(l) PROVE disk' = disk
  OBVIOUS
<1>2. ASSUME NEW w \in Callers, Caller(w) PROVE disk' = disk
  BY <1>2 DEF Caller, Begin, Get, Load, Put, Update, Remove, Edited, Write, Acked
<1>3. ASSUME NEW l \in Loops, DispatchLoop(l) \/ Open(l) \/ Drop(l) \/ LoopEnds(l) PROVE disk' = disk
  BY <1>1, <1>3 DEF DispatchLoop, Emit, HandlerReturns, FetchFails, Keep, Open, Drop, LoopEnds
<1>4. CASE Restart \/ Register \/ \E m \in Theirs : OthersPost(m)
  BY <1>4 DEF Restart, Started, Register, OthersPost
<1>5. CASE UNCHANGED vars
  BY <1>5 DEF vars
<1>6. QED
  BY <1>1, <1>2, <1>3, <1>4, <1>5 DEF Next

\* "preserving event order": a row of the store goes back to an older version only
\* if, when the newer one was saved, the loop of another connection still had an
\* older one to save; never by the events of one connection, nor by a restart.
THEOREM StoreMonotoneCorrect == ASSUME Distinct, Bound PROVE Spec => StoreMonotone
<1>1. Inv /\ [Next]_vars => [\A m \in Msgs : disk'[m] < disk[m] => m \in outrun]_vars
  <2>1. SUFFICES ASSUME Inv, [Next]_vars, NEW m \in Msgs, disk'[m] < disk[m] PROVE m \in outrun
    OBVIOUS
  <2>2. disk[m] \in Nat
    BY <2>1 DEF Inv, Types
  <2>3. QED
    <3>1. CASE disk' = disk
      BY <2>1, <2>2, <3>1
    <3>2. ASSUME NEW l \in Loops, Save(l) PROVE m \in outrun
      BY <2>1, <3>2, SaveInv
    <3>3. QED
      BY <2>1, <3>1, <3>2, DiskKept
<1>2. Init => Inv
  BY InvInit
<1>3. Inv /\ [Next]_vars => Inv'
  BY InvNext
<1>4. QED
  BY <1>1, <1>2, <1>3, PTL DEF Spec, StoreMonotone

(***************************************************************************)
(* The cache.                                                              *)
(***************************************************************************)

\* Set stores one entry and may drop others.
LEMMA SetItems ==
    ASSUME NEW c, NEW k, NEW v, NEW max
    PROVE  LET r == Set(c, k, v, max)
           IN  /\ k \in DOMAIN r.items /\ r.items[k] = v
               /\ \A x \in DOMAIN r.items : x # k => x \in DOMAIN c.items /\ r.items[x] = c.items[x]
BY DEF Set, With, Without, Restrict

\* What is cached when a message is.
LEMMA CachedItems ==
    ASSUME NEW m, NEW v, Cached(m, v)
    PROVE  /\ m \in DOMAIN held'.items /\ held'.items[m].id = m /\ held'.items[m].ver = v
           /\ \A x \in DOMAIN held'.items : x # m => x \in DOMAIN held.items /\ held'.items[x] = held.items[x]
BY SetItems DEF Cached

\* A cached message is cached under its id and has been on the server.
HeldInv ==
    \A k \in DOMAIN held.items :
        k \in Msgs /\ held.items[k].id = k /\ held.items[k].ver \in Nat /\ held.items[k].ver <= posted[k]

\* No event of m was lost and nobody was late, and the store has the server's version.
Sound(m) == m \notin missed /\ m \notin outrun /\ m \notin raced /\ disk[m] = posted[m]

\* A loop is about to cache the server's version.
Keeping(m) == \E l \in Loops : At(l, "fetch") /\ Event(l) = Latest(m)

\* The cache has no other version of m, nor has anybody who is about to cache one.
Settled(m) ==
    /\ m \in DOMAIN held.items => held.items[m].ver = posted[m]
    /\ \A w \in Callers : act[w].pc \in Holding /\ act[w].msg = m => act[w].ver = posted[m]
    /\ \A l \in Loops : \A e \in ToKeep(l) : e.msg = m => e.ver = posted[m]

SettledInv == \A m \in Msgs : Sound(m) => Keeping(m) \/ Settled(m)

CacheInv == HeldInv /\ SettledInv

\* A step that caches nothing and posts nothing; what it leaves sound was sound, and
\* a loop that does not get to cache its event is remembered.
LEMMA QuietCache ==
    ASSUME CacheInv, UNCHANGED <<posted, held>>, \A w \in Callers : act'[w] = act[w],
           \A l \in Loops :
              /\ ToKeep(l)' \subseteq ToKeep(l)
              /\ At(l, "fetch") /\ Event(l).msg \notin raced' => At(l, "fetch")' /\ Event(l)' = Event(l),
           \A m \in Msgs : Sound(m)' => Sound(m)
    PROVE  CacheInv'
<1>1. HeldInv'
  BY DEF CacheInv, HeldInv
<1>2. ASSUME NEW m \in Msgs, Sound(m)' PROVE Keeping(m)' \/ Settled(m)'
  <2>1. CASE Keeping(m)
    <3>1. PICK l \in Loops : At(l, "fetch") /\ Event(l) = Latest(m)
      BY <2>1 DEF Keeping
    <3>2. m \notin raced' /\ Latest(m)' = Latest(m) /\ Latest(m).msg = m
      BY <1>2 DEF Sound, Latest
    <3>3. QED
      BY <3>1, <3>2 DEF Keeping
  <2>2. CASE Settled(m)
    BY <2>2 DEF Settled
  <2>3. QED
    BY <1>2, <2>1, <2>2 DEF CacheInv, SettledInv
<1>3. QED
  BY <1>1, <1>2 DEF CacheInv, SettledInv

\* A message is posted, and whoever posts it has no older version of it in hand.
LEMMA PostCache ==
    ASSUME Inv, CacheInv, NEW x \in Msgs, Post(x), UNCHANGED <<disk, held, outrun, raced>>,
           \A l \in Loops : act'[l] = act[l],
           \A w \in Callers : act'[w] = act[w] \/ (act'[w].pc \in Holding /\ act'[w].msg \in Msgs => act'[w].msg = x)
    PROVE  CacheInv'
<1>1. \A m \in Msgs : disk[m] \in Nat /\ posted[m] \in Nat /\ disk[m] <= posted[m]
  BY DEF Inv, Types, OrderInv
<1>2. ~Sound(x)'
  <2>1. posted'[x] = posted[x] + 1
    BY PostIs
  <2>2. QED
    BY <1>1, <2>1 DEF Sound
<1>3. HeldInv'
  <2>1. \A k \in DOMAIN held.items : k \in Msgs /\ held.items[k].ver \in Nat /\ held.items[k].ver <= posted[k]
    BY DEF CacheInv, HeldInv
  <2>2. \A m \in Msgs : posted'[m] \in Nat /\ posted[m] <= posted'[m]
    BY PostIs
  <2>3. \A k \in DOMAIN held.items : held.items[k].ver <= posted'[k]
    BY <1>1, <2>1, <2>2
  <2>4. QED
    BY <2>3 DEF CacheInv, HeldInv
<1>4. ASSUME NEW m \in Msgs, m # x, Sound(m)' PROVE Keeping(m)' \/ Settled(m)'
  <2>1. posted'[m] = posted[m] /\ Latest(m)' = Latest(m) /\ (m \in missed' <=> m \in missed)
    BY <1>4, PostIs DEF Latest
  <2>2. Sound(m)
    BY <1>4, <2>1 DEF Sound
  <2>3. CASE Keeping(m)
    <3>1. PICK l \in Loops : At(l, "fetch") /\ Event(l) = Latest(m)
      BY <2>3 DEF Keeping
    <3>2. At(l, "fetch")' /\ Event(l)' = Latest(m)'
      BY <2>1, <3>1, PostIs
    <3>3. QED
      BY <3>2 DEF Keeping
  <2>4. CASE Settled(m)
    <3>1. m \in DOMAIN held'.items => held'.items[m].ver = posted'[m]
      BY <2>1, <2>4 DEF Settled
    <3>2. \A w \in Callers : act'[w].pc \in Holding /\ act'[w].msg = m => act'[w].ver = posted'[m]
      BY <1>4, <2>1, <2>4 DEF Settled
    <3>3. ASSUME NEW l \in Loops, NEW e \in ToKeep(l)', e.msg = m PROVE e.ver = posted'[m]
      <4>1. e # Latest(x)'
        BY <1>4, <3>3 DEF Latest
      <4>2. e \in ToKeep(l)
        BY <3>3, <4>1, PostIs
      <4>3. QED
        BY <2>1, <2>4, <3>3, <4>2 DEF Settled
    <3>4. QED
      BY <3>1, <3>2, <3>3 DEF Settled
  <2>5. QED
    BY <2>2, <2>3, <2>4 DEF CacheInv, SettledInv
<1>5. QED
  BY <1>2, <1>3, <1>4 DEF CacheInv, SettledInv

\* A step of the application.
LEMMA CallerCache ==
    ASSUME Distinct, Inv, CacheInv, NEW w \in Callers, Caller(w)
    PROVE  CacheInv'
<1>1. /\ Shape(w) /\ w \in Threads /\ Callers \subseteq Threads /\ Loops \subseteq Threads
      /\ \A l \in Loops : act'[l] = act[l]
      /\ UNCHANGED <<disk, outrun, raced>> /\ act \in [Threads -> Activity]
  BY CallerShape DEF Distinct, Threads, Shape, Inv, Types
<1>2. \A m \in Msgs : posted[m] \in Nat
  BY DEF Inv, Types
<1>3. \A m \in Msgs : Post(m) => posted'[m] = posted[m] + 1
  BY DEF Post, Inv, Types
<1>4. CASE UNCHANGED <<posted, inbox, missed>>
  <2>1. \A l \in Loops : /\ ToKeep(l)' = ToKeep(l) /\ Event(l)' = Event(l)
                         /\ At(l, "fetch")' = At(l, "fetch")
    BY <1>1, <1>2, <1>4, LoopKept DEF Inv
  <2>2. \A m \in Msgs : (Sound(m)' <=> Sound(m)) /\ Latest(m)' = Latest(m)
    BY <1>1, <1>4 DEF Sound, Latest
  <2>3. \A m \in Msgs : Keeping(m) => Keeping(m)'
    BY <2>1, <2>2 DEF Keeping
  <2>4. ASSUME NEW m \in Msgs, Sound(m), Settled(m), NEW u \in Callers, act'[u].pc \in Holding, act'[u].msg = m
        PROVE  act'[u].ver = posted[m]
    <3>1. CASE u = w
      <4>1. ~Post(m)
        <5>1. posted[m] # posted[m] + 1
          BY <1>2
        <5>2. QED
          BY <1>3, <1>4, <5>1
      <4>2. act'[w].ver = disk[m]
        BY <1>1, <2>4, <3>1, <4>1 DEF Shape
      <4>3. QED
        BY <2>4, <3>1, <4>2 DEF Sound
    <3>2. CASE u # w
      BY <1>1, <2>4, <3>2 DEF Shape, Settled
    <3>3. QED
      BY <3>1, <3>2
  <2>5. ASSUME HeldInv', \A m \in Msgs : Settled(m) /\ m \in DOMAIN held'.items => held'.items[m].ver = posted[m]
        PROVE  CacheInv'
    <3>1. ASSUME NEW m \in Msgs, Sound(m)' PROVE Keeping(m)' \/ Settled(m)'
      <4>1. CASE Keeping(m)
        BY <2>3, <4>1
      <4>2. CASE Settled(m)
        <5>1. \A u \in Callers : act'[u].pc \in Holding /\ act'[u].msg = m => act'[u].ver = posted'[m]
          BY <1>4, <2>2, <2>4, <3>1, <4>2
        <5>2. \A l \in Loops : \A e \in ToKeep(l)' : e.msg = m => e.ver = posted'[m]
          BY <1>4, <2>1, <4>2 DEF Settled
        <5>3. m \in DOMAIN held'.items => held'.items[m].ver = posted'[m]
          BY <1>4, <2>5, <4>2
        <5>4. QED
          BY <5>1, <5>2, <5>3 DEF Settled
      <4>3. QED
        BY <2>2, <3>1, <4>1, <4>2 DEF CacheInv, SettledInv
    <3>2. QED
      BY <2>5, <3>1 DEF CacheInv, SettledInv
  <2>6. CASE held' = held
    <3>1. HeldInv'
      BY <1>4, <2>6 DEF CacheInv, HeldInv
    <3>2. \A m \in Msgs : Settled(m) /\ m \in DOMAIN held'.items => held'.items[m].ver = posted[m]
      BY <2>6 DEF Settled
    <3>3. QED
      BY <2>5, <3>1, <3>2
  <2>7. CASE act[w].pc \in Holding /\ act[w].msg \in Msgs /\ Cached(act[w].msg, act[w].ver)
    <3>1. act[w].ver \in Nat /\ act[w].ver <= posted[act[w].msg]
      BY <1>1, <2>7 DEF Inv, CallersInv, Activity
    <3>2. HeldInv'
      BY <1>4, <2>7, <3>1, CachedItems DEF CacheInv, HeldInv
    <3>3. \A m \in Msgs : Settled(m) /\ m \in DOMAIN held'.items => held'.items[m].ver = posted[m]
      BY <2>7, CachedItems DEF Settled
    <3>4. QED
      BY <2>5, <3>2, <3>3
  <2>8. QED
    BY <1>1, <2>6, <2>7 DEF Shape
<1>5. ASSUME NEW x \in Msgs, Post(x), ~(UNCHANGED <<posted, inbox, missed>>) PROVE CacheInv'
  <2>1. held' = held
    BY <1>1, <1>5 DEF Shape
  <2>2. \A m \in Msgs : Post(m) => m = x
    <3>1. ASSUME NEW m \in Msgs, Post(m), m # x PROVE FALSE
      <4>1. posted'[m] = posted[m] + 1
        BY <1>3, <3>1
      <4>2. posted'[m] = posted[m]
        BY <1>5, <3>1 DEF Post, Inv, Types
      <4>3. QED
        BY <1>2, <4>1, <4>2
    <3>2. QED
      BY <3>1
  <2>3. \A u \in Callers : act'[u] = act[u] \/ (act'[u].pc \in Holding /\ act'[u].msg \in Msgs => act'[u].msg = x)
    BY <1>1, <1>5, <2>2 DEF Shape
  <2>4. QED
    BY <1>1, <1>5, <2>1, <2>3, PostCache
<1>6. QED
  BY <1>1, <1>4, <1>5 DEF Shape

\* The internal handler stores the object of the message it has just saved: of the
\* server's version, or another loop is about to store that.
LEMMA KeepCache ==
    ASSUME Distinct, Inv, CacheInv, NEW l \in Loops, Keep(l)
    PROVE  CacheInv'
<1> DEFINE m == act[l].msg
<1> DEFINE v == act[l].ver
<1>1. /\ At(l, "fetch") /\ Cached(m, v) /\ raced' = Judged(raced, l, m, LateToKeep(l, m))
      /\ l \in Threads /\ Callers \subseteq Threads
  BY DEF Keep, Threads
<1>2. /\ UNCHANGED <<posted, disk, missed, outrun>>
      /\ \A k \in Loops : ToSave(k)' = ToSave(k)
      /\ ToKeep(l)' = ToSave(l)
      /\ \A k \in Loops : k # l => /\ ToKeep(k)' = ToKeep(k) /\ Event(k)' = Event(k)
                                   /\ At(k, "fetch")' = At(k, "fetch")
      /\ \A w \in Callers : act'[w] = act[w]
  BY BackInv
<1>3. /\ ToSave(l) = Queued(l) /\ ToKeep(l) = Queued(l) \cup {Event(l)} /\ Event(l).msg = m /\ Event(l).ver = v
  BY <1>1, Before DEF Inv, Event
<1>4. /\ m \in Msgs /\ v \in Nat /\ v <= posted[m]
      /\ \A e \in Queued(l) : e.msg = m => v < e.ver
  BY <1>1 DEF Inv, LoopInv, Types, Activity, At
<1>5. \A x \in Msgs : posted[x] \in Nat
  BY DEF Inv, Types
<1>6. \A k \in Loops : \A e \in ToKeep(k) : e.msg \in Msgs /\ e.ver \in Nat /\ e.ver <= posted[e.msg]
  BY Real DEF Inv
<1>7. \A w \in Callers : act[w].ver \in Nat
  BY <1>1 DEF Inv, Types, Activity
<1>8. \A x \in Msgs : Latest(x)' = Latest(x)
  BY <1>2 DEF Latest
<1> HIDE DEF m, v
<1>9. HeldInv'
  BY <1>1, <1>2, <1>4, CachedItems DEF CacheInv, HeldInv
<1>10. ASSUME NEW x \in Msgs, x # m, Sound(x)' PROVE Keeping(x)' \/ Settled(x)'
  <2>1. Sound(x)
    BY <1>1, <1>2, <1>10 DEF Sound, Judged
  <2>2. CASE Keeping(x)
    <3>1. PICK k \in Loops : At(k, "fetch") /\ Event(k) = Latest(x)
      BY <2>2 DEF Keeping
    <3>2. k # l
      BY <1>3, <1>10, <3>1 DEF Latest
    <3>3. QED
      BY <1>2, <1>8, <3>1, <3>2 DEF Keeping
  <2>3. CASE Settled(x)
    <3>1. x \in DOMAIN held'.items => held'.items[x].ver = posted[x]
      BY <1>1, <1>10, <2>3, CachedItems DEF Settled
    <3>2. \A k \in Loops : ToKeep(k)' \subseteq ToKeep(k)
      BY <1>2, <1>3
    <3>3. QED
      BY <1>2, <2>3, <3>1, <3>2 DEF Settled
  <2>4. QED
    BY <2>1, <2>2, <2>3 DEF CacheInv, SettledInv
<1>11. ASSUME NEW x \in Msgs, x = m, Sound(x)' PROVE Keeping(x)' \/ Settled(x)'
  <2>1. LateToKeep(l, m) = {} /\ (v = posted[m] \/ m \notin raced)
    BY <1>1, <1>11 DEF Sound, Judged, v
  <2>2. CASE v = posted[m]
    <3>1. m \in DOMAIN held'.items => held'.items[m].ver = posted[m]
      BY <1>1, <2>2, CachedItems
    <3>2. ASSUME NEW w \in Callers, act[w].pc \in Holding, act[w].msg = m PROVE act[w].ver = posted[m]
      <4>1. ~(act[w].ver < v)
        BY <2>1, <3>2 DEF LateToKeep, Holding, v
      <4>2. act[w].ver <= posted[m]
        BY <1>4, <3>2 DEF Inv, CallersInv
      <4>3. QED
        BY <1>4, <1>5, <1>7, <2>2, <4>1, <4>2
    <3>3. ASSUME NEW k \in Loops, NEW e \in ToKeep(k)', e.msg = m PROVE e.ver = posted[m]
      <4>1. CASE k = l
        <5>1. e \in Queued(l) /\ e \in ToKeep(l)
          BY <1>2, <1>3, <3>3, <4>1
        <5>2. v < e.ver /\ e.ver <= posted[m] /\ e.ver \in Nat
          BY <1>4, <1>6, <3>3, <5>1
        <5>3. QED
          BY <1>4, <2>2, <5>2
      <4>2. CASE k # l
        <5>1. e \in ToKeep(k)
          BY <1>2, <3>3, <4>2
        <5>2. ~(e.ver < v)
          BY <2>1, <3>3, <4>2, <5>1 DEF LateToKeep, v
        <5>3. e.ver <= posted[m] /\ e.ver \in Nat
          BY <1>6, <3>3, <5>1
        <5>4. QED
          BY <1>4, <2>2, <5>2, <5>3
      <4>3. QED
        BY <4>1, <4>2
    <3>4. QED
      BY <1>2, <1>11, <3>1, <3>2, <3>3 DEF Settled
  <2>3. CASE v # posted[m]
    <3>1. Sound(m)
      BY <1>2, <1>11, <2>1, <2>3 DEF Sound
    <3>2. ~Settled(m)
      BY <1>3, <2>3 DEF Settled
    <3>3. PICK k \in Loops : At(k, "fetch") /\ Event(k) = Latest(m)
      BY <1>4, <3>1, <3>2 DEF CacheInv, SettledInv, Keeping
    <3>4. k # l
      BY <1>3, <2>3, <3>3 DEF Latest
    <3>5. QED
      BY <1>2, <1>8, <1>11, <3>3, <3>4 DEF Keeping
  <2>4. QED
    BY <2>2, <2>3
<1>12. QED
  BY <1>9, <1>10, <1>11 DEF CacheInv, SettledInv

\* SaveMessage has been called: its loop is about to cache what it has saved.
LEMMA SaveCache ==
    ASSUME Distinct, Inv, CacheInv, NEW l \in Loops, Save(l)
    PROVE  CacheInv'
<1>1. /\ UNCHANGED <<posted, held, raced>> /\ missed \subseteq missed'
      /\ \A k \in Loops : ToKeep(k)' = ToKeep(k) /\ Event(k)' = Event(k)
      /\ \A k \in Loops : At(k, "fetch") => At(k, "fetch")'
      /\ \A w \in Callers : act'[w] = act[w]
      /\ At(l, "fetch")' /\ Event(l).msg = act[l].msg /\ Event(l).ver = act[l].ver
  BY SaveInv
<1>2. CASE disk' = disk /\ outrun' = outrun
  <2>1. \A m \in Msgs : Sound(m)' => Sound(m)
    BY <1>1, <1>2 DEF Sound
  <2>2. QED
    BY <1>1, <2>1, QuietCache
<1>3. CASE /\ disk' = [disk EXCEPT ![act[l].msg] = act[l].ver]
           /\ \A m \in Msgs : m # act[l].msg => (m \in outrun' <=> m \in outrun)
  <2>1. HeldInv'
    BY <1>1 DEF CacheInv, HeldInv
  <2>2. ASSUME NEW m \in Msgs, Sound(m)' PROVE Keeping(m)' \/ Settled(m)'
    <3>0. disk \in [Msgs -> Nat] /\ Latest(m)' = Latest(m)
      BY <1>1 DEF Inv, Types, Latest
    <3>1. CASE m = act[l].msg
      <4>1. act[l].ver = posted[m]
        BY <1>1, <1>3, <2>2, <3>0, <3>1 DEF Sound
      <4>2. Event(l) = Latest(m)
        BY <3>1, <4>1 DEF Event, Latest
      <4>3. QED
        BY <1>1, <3>0, <4>2 DEF Keeping
    <3>2. CASE m # act[l].msg
      <4>1. Sound(m)
        BY <1>1, <1>3, <2>2, <3>0, <3>2 DEF Sound
      <4>2. CASE Keeping(m)
        BY <1>1, <3>0, <4>2 DEF Keeping
      <4>3. CASE Settled(m)
        BY <1>1, <4>3 DEF Settled
      <4>4. QED
        BY <4>1, <4>2, <4>3 DEF CacheInv, SettledInv
    <3>3. QED
      BY <3>1, <3>2
  <2>3. QED
    BY <2>1, <2>2 DEF CacheInv, SettledInv
<1>4. QED
  BY <1>2, <1>3, SaveInv

\* A handler has returned, or the internal one could not cache its message.
LEMMA BackCache ==
    ASSUME Distinct, Inv, CacheInv, NEW l \in Loops, HandlerReturns(l) \/ FetchFails(l)
    PROVE  CacheInv'
<1>1. /\ UNCHANGED <<posted, disk, held, missed, outrun>>
      /\ ToKeep(l)' = ToSave(l)
      /\ \A k \in Loops : k # l => ToKeep(k)' = ToKeep(k) /\ Event(k)' = Event(k) /\ At(k, "fetch")' = At(k, "fetch")
      /\ \A w \in Callers : act'[w] = act[w]
  BY BackInv DEF HandlerReturns, FetchFails
<1>2. raced \subseteq raced' /\ (At(l, "fetch") => act[l].msg \in raced')
  BY DEF HandlerReturns, FetchFails, history, At
<1>3. \A m \in Msgs : Sound(m)' => Sound(m)
  BY <1>1, <1>2 DEF Sound
<1>4. \A k \in Loops :
         /\ ToKeep(k)' \subseteq ToKeep(k)
         /\ At(k, "fetch") /\ Event(k).msg \notin raced' => At(k, "fetch")' /\ Event(k)' = Event(k)
  BY <1>1, <1>2 DEF ToKeep, Event
<1>5. QED
  BY <1>1, <1>3, <1>4, QuietCache

\* Every step.
LEMMA CacheNext ==
    ASSUME Distinct, Bound
    PROVE  Inv /\ CacheInv /\ [Next]_vars => CacheInv'
<1>1. SUFFICES ASSUME Inv, CacheInv, [Next]_vars PROVE CacheInv'
  OBVIOUS
<1>2. ASSUME NEW w \in Callers, Caller(w) PROVE CacheInv'
  BY <1>1, <1>2, CallerCache
<1>3. ASSUME NEW l \in Loops, Emit(l) PROVE CacheInv'
  <2>1. /\ UNCHANGED <<posted, disk, held, missed, outrun, raced>>
        /\ \A k \in Loops : /\ ToKeep(k)' \subseteq ToKeep(k)
                            /\ At(k, "fetch") => At(k, "fetch")' /\ Event(k)' = Event(k)
        /\ \A w \in Callers : act'[w] = act[w]
    BY <1>1, <1>3, EmitInv
  <2>2. \A m \in Msgs : Sound(m)' => Sound(m)
    BY <2>1 DEF Sound
  <2>3. QED
    BY <1>1, <2>1, <2>2, QuietCache
<1>4. ASSUME NEW l \in Loops, HandlerReturns(l) \/ FetchFails(l) PROVE CacheInv'
  BY <1>1, <1>4, BackCache
<1>5. ASSUME NEW l \in Loops, Keep(l) PROVE CacheInv'
  BY <1>1, <1>5, KeepCache
<1>6. ASSUME NEW l \in Loops, Save(l) PROVE CacheInv'
  BY <1>1, <1>6, SaveCache
<1>7. ASSUME handlers' \in Orders, UNCHANGED <<posted, inbox, disk, held, act, missed, outrun, raced>> PROVE CacheInv'
  <2>1. \A k \in Loops : ToKeep(k)' = ToKeep(k) /\ Event(k)' = Event(k) /\ At(k, "fetch")' = At(k, "fetch")
    BY <1>1, <1>7, QuietInv
  <2>2. \A m \in Msgs : Sound(m)' => Sound(m)
    BY <1>7 DEF Sound
  <2>3. QED
    BY <1>1, <1>7, <2>1, <2>2, QuietCache
<1>8. ASSUME NEW l \in Loops, Open(l) \/ Drop(l) PROVE CacheInv'
  BY <1>1, <1>7, <1>8 DEF Open, Drop, server, history, Inv, Types
<1>9. ASSUME NEW l \in Loops, LoopEnds(l) PROVE CacheInv'
  <2>1. /\ UNCHANGED <<posted, disk, held, outrun, raced>> /\ missed \subseteq missed'
        /\ \A k \in Loops : /\ ToKeep(k)' \subseteq ToKeep(k)
                            /\ At(k, "fetch") => At(k, "fetch")' /\ Event(k)' = Event(k)
        /\ \A w \in Callers : act'[w] = act[w]
    BY <1>1, <1>9, LoopEndsInv
  <2>2. \A m \in Msgs : Sound(m)' => Sound(m)
    BY <2>1 DEF Sound
  <2>3. QED
    BY <1>1, <2>1, <2>2, QuietCache
<1>10. CASE Restart
  <2>1. /\ held' = EmptyCache /\ DOMAIN EmptyCache.items = {}
        /\ \A w \in Callers : act'[w].pc = "idle"
        /\ \A l \in Loops : ToKeep(l)' = {}
    BY <1>1, <1>10, RestartInv DEF EmptyCache
  <2>2. \A m \in Msgs : Settled(m)'
    BY <2>1 DEF Settled, Holding
  <2>3. QED
    BY <2>1, <2>2 DEF CacheInv, HeldInv, SettledInv
<1>11. CASE Register
  BY <1>7, <1>11, RegisterIs
<1>12. ASSUME NEW m \in Theirs, OthersPost(m) PROVE CacheInv'
  <2>1. m \in Msgs /\ Post(m) /\ UNCHANGED <<disk, held, act, outrun, raced>>
    BY <1>1, <1>12, OthersInv
  <2>2. QED
    BY <1>1, <2>1, PostCache
<1>13. CASE UNCHANGED vars
  BY <1>1, <1>7, <1>13 DEF vars, Inv, Types
<1>14. QED
  BY <1>1, <1>2, <1>3, <1>4, <1>5, <1>6, <1>8, <1>9, <1>10, <1>11, <1>12, <1>13 DEF Next, DispatchLoop

\* The empty cache, and nobody about to cache anything.
LEMMA CacheInit == ASSUME Bound PROVE Init => CacheInv
<1>1. SUFFICES ASSUME Init PROVE CacheInv
  OBVIOUS
<1>2. held = EmptyCache /\ DOMAIN EmptyCache.items = {} /\ Inv
  BY <1>1, InvInit DEF Init, EmptyCache
<1>3. \A t \in Threads : act[t].pc = "idle"
  BY <1>1 DEF Init, Idle
<1>4. \A l \in Loops : ToKeep(l) = {}
  <2>1. \A l \in Loops : inbox[l] = <<>> /\ At(l, "idle")
    BY <1>1, <1>3 DEF Init, At, Threads
  <2>2. \A l \in Loops : Queued(l) = {} /\ ToKeep(l) = Queued(l)
    BY <1>2, <2>1, EmptyQueue, Before DEF Queued, Inv
  <2>3. QED
    BY <2>2
<1>5. \A m \in Msgs : Settled(m)
  BY <1>2, <1>3, <1>4 DEF Settled, Holding, Threads
<1>6. QED
  BY <1>2, <1>5 DEF CacheInv, HeldInv, SettledInv

\* A message is cached under its own id, never under the empty one, and as the
\* server has had it.
THEOREM IdentityCorrect == ASSUME Distinct, Bound PROVE Spec => []Identity
<1>1. CacheInv => Identity
  BY DEF CacheInv, HeldInv, Identity, Distinct
<1>2. Inv /\ [Next]_vars => Inv'
  BY InvNext
<1>3. Inv /\ CacheInv /\ [Next]_vars => CacheInv'
  BY CacheNext
<1>4. Init => Inv /\ CacheInv
  BY InvInit, CacheInit
<1>5. QED
  BY <1>1, <1>2, <1>3, <1>4, PTL DEF Spec

\* A cached message is the server's version once its events are handled and no
\* call on it runs, unless a slower goroutine or the loop of another connection
\* cached or saved what it had before: for any number of both.
THEOREM CacheSettledCorrect == ASSUME Distinct, Bound PROVE Spec => []CacheSettled
<1>1. Inv /\ CacheInv => CacheSettled
  <2>1. SUFFICES ASSUME Inv, CacheInv, NEW m \in DOMAIN held.items, m \notin missed \cup outrun \cup raced,
                        m \notin Unsaved, \A t \in Threads : ~OnIt(t, m)
                 PROVE  held.items[m].ver = posted[m]
    BY DEF CacheSettled
  <2>2. m \in Msgs
    BY <2>1 DEF CacheInv, HeldInv
  <2>3. \A l \in Loops : Latest(m) \notin ToSave(l)
    <3>1. \A l \in Loops : Latest(m) \in ToSave(l) => Latest(m) \in ToSaveIn(Loops)
      BY InSome
    <3>2. Latest(m).msg = m
      BY DEF Latest
    <3>3. QED
      BY <2>1, <3>1, <3>2 DEF Unsaved
  <2>4. Sound(m)
    BY <2>1, <2>2, <2>3 DEF Inv, WayInv, Sound
  <2>5. ~Keeping(m)
    <3>1. \A l \in Loops : At(l, "fetch") => act[l].msg # m
      BY <2>1 DEF OnIt, At, Threads
    <3>2. QED
      BY <3>1 DEF Keeping, Event, Latest
  <2>6. QED
    BY <2>1, <2>2, <2>4, <2>5 DEF CacheInv, SettledInv, Settled
<1>2. Inv /\ [Next]_vars => Inv'
  BY InvNext
<1>3. Inv /\ CacheInv /\ [Next]_vars => CacheInv'
  BY CacheNext
<1>4. Init => Inv /\ CacheInv
  BY InvInit, CacheInit
<1>5. QED
  BY <1>1, <1>2, <1>3, <1>4, PTL DEF Spec
=============================================================================
