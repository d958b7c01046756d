------------------------------ MODULE Messages ------------------------------
(***************************************************************************)
(* The messages of one channel: the Messages cache of its TextChannel, the *)
(* MessageStore behind it, and the handlers through which inbound messages *)
(* fill both (emitter.go, client_internal.go, channel.go, message.go,      *)
(* messagedb).  Goroutines of the application look messages up, edit,      *)
(* delete and send them.  Every connection has a dispatchLoop of its own   *)
(* (socket.go) that runs the handlers: the loop of a lost connection may   *)
(* still run beside that of the next one, and after a second Login both    *)
(* sockets dispatch.  A call of the cache, of the store or of the server is*)
(* one step.  The process may stop at any step and start again: the server *)
(* and the store keep theirs.                                              *)
(* A message is its version on the server: 1 as sent, more as edited or    *)
(* deleted.  A Message object is the id and the version it was built from. *)
(***************************************************************************)
EXTENDS Cache

CONSTANTS
    Own,            \* ids of messages the bot sends
    Theirs,         \* ids of messages others send
    NoId,           \* the empty message id
    Callers,        \* goroutines of the application
    Loops,          \* bound: dispatchLoops that run at once
    MaxMessages,    \* maxSize of the Messages cache
    Registered,     \* the handlers there may be when Login has bound the internal ones
    MaxPosts,       \* bound: versions posted, of all messages
    MaxCalls,       \* bound: calls of the application
    MaxStarts       \* bound: restarts of the process

Msgs == Own \cup Theirs
Threads == Callers \cup Loops

VARIABLES
    posted,     \* the version of each message on the server; 0 before it exists
    conn,       \* the connection of each loop: "none", "open" or "closed"
    inbox,      \* the events of each connection that are not dispatched yet
    disk,       \* the message store: a version for each id; 0 where there is no row
    held,       \* TextChannel.Messages
    handlers,   \* the emitter's handlers of channel messages, in order
    act,        \* what each goroutine is doing
    calls, starts,  \* calls begun, restarts
    missed,     \* messages whose latest event was lost or could not be saved
    outrun,     \* messages that a loop may save in an older version than the row has
    raced       \* messages that a slower goroutine may cache in an older version

vars == <<posted, conn, inbox, disk, held, handlers, act, calls, starts, missed, outrun, raced>>

server  == <<posted, inbox>>
bounds  == <<calls, starts>>
history == <<missed, outrun, raced>>

----------------------------------------------------------------------------
Idle == [pc |-> "idle", op |-> "none", msg |-> NoId, ver |-> 0, todo |-> <<>>]

Go(t, data) == act' = [act EXCEPT ![t] = data]
At(t, pc) == act[t].pc = pc
To(t, pc) == Go(t, [act[t] EXCEPT !.pc = pc])
Done(t) == Go(t, Idle)

Versions == [m \in Msgs |-> 0]

\* An earlier process may have saved some messages.
Init ==
    /\ posted \in [Msgs -> 0 .. 1] /\ disk = posted
    /\ conn = [l \in Loops |-> "none"] /\ inbox = [l \in Loops |-> <<>>]
    /\ held = EmptyCache
    /\ handlers \in Registered
    /\ act = [t \in Threads |-> Idle]
    /\ calls = 0 /\ starts = 0
    /\ missed = {} /\ outrun = {} /\ raced = {}

----------------------------------------------------------------------------
(* The server (external) posts the next version of a message and tells the *)
(* bot on the connections that are up and do not fail just then.           *)

Posts == FoldFunction(+, 0, posted)

Post(m) ==
    /\ Posts < MaxPosts
    /\ posted' = [posted EXCEPT ![m] = @ + 1]
    /\ \E told \in SUBSET {l \in Loops : conn[l] = "open"} :
          /\ inbox' = [l \in Loops |-> IF l \in told THEN Append(inbox[l], [msg |-> m, ver |-> posted[m] + 1])
                                        ELSE inbox[l]]
          /\ missed' = IF told = {} THEN missed \cup {m} ELSE missed \ {m}

OthersPost(m) ==
    /\ Post(m)
    /\ UNCHANGED <<conn, disk, held, handlers, act, bounds, outrun, raced>>

----------------------------------------------------------------------------
(* The application.                                                        *)

\* OnChannelMessage after Login.
Register ==
    /\ handlers = <<"internal">>
    /\ handlers' = Append(handlers, "user")
    /\ UNCHANGED <<server, conn, disk, held, act, bounds, history>>

Begin(w, op, m) ==
    /\ At(w, "idle")
    /\ calls < MaxCalls
    /\ calls' = calls + 1
    /\ op \in {"edit", "delete"} => m \in Own
    /\ op = "send" => m \in Own /\ posted[m] = 0 /\ \A v \in Callers : act[v].msg # m
    /\ Go(w, [Idle EXCEPT !.op = op, !.msg = m, !.pc = IF op = "send" THEN "write" ELSE "get"])
    /\ UNCHANGED <<server, conn, disk, held, handlers, starts, history>>

(* Messages.Fetch with loadMessageFromStore, then Update or Delete of what *)
(* it returned.                                                            *)

AfterFetch(w) == IF act[w].op = "lookup" THEN Idle ELSE [act[w] EXCEPT !.pc = "request", !.ver = 0]

Get(w) ==
    /\ At(w, "get")
    /\ IF Has(held, act[w].msg) THEN Go(w, AfterFetch(w)) ELSE To(w, "load")
    /\ UNCHANGED <<server, conn, disk, held, handlers, bounds, history>>

\* GetMessageByID: a row that cannot be read counts as absent.
Load(w) ==
    /\ At(w, "load")
    /\ \/ Done(w)
       \/ /\ disk[act[w].msg] # 0
          /\ Go(w, [act[w] EXCEPT !.pc = "put", !.ver = disk[act[w].msg]])
    /\ UNCHANGED <<server, conn, disk, held, handlers, bounds, history>>

\* newMessageFromChannelMessage and Set.
Cached(m, ver) == held' = Set(held, m, [id |-> m, ver |-> ver], MaxMessages)

Put(w) ==
    /\ At(w, "put")
    /\ Cached(act[w].msg, act[w].ver)
    /\ Go(w, AfterFetch(w))
    /\ UNCHANGED <<server, conn, disk, handlers, bounds, history>>

\* UpdateChannelMessage may fail before or after the server has acted.
Update(w) ==
    /\ At(w, "request") /\ act[w].op = "edit"
    /\ \/ Done(w) /\ UNCHANGED <<server, missed>>
       \/ /\ Post(act[w].msg)
          /\ \/ Done(w)
             \/ Go(w, [act[w] EXCEPT !.pc = "edited", !.ver = posted[act[w].msg] + 1])
    /\ UNCHANGED <<conn, disk, held, handlers, bounds, outrun, raced>>

\* DeleteChannelMessage; the message stays in the cache.
Remove(w) ==
    /\ At(w, "request") /\ act[w].op = "delete"
    /\ UNCHANGED <<server, missed>> \/ Post(act[w].msg)
    /\ Done(w)
    /\ UNCHANGED <<conn, disk, held, handlers, bounds, outrun, raced>>

\* The object is changed in place and stored again.
Edited(w) ==
    /\ At(w, "edited")
    /\ Cached(act[w].msg, act[w].ver)
    /\ Done(w)
    /\ UNCHANGED <<server, conn, disk, handlers, bounds, history>>

(* Send, Reply and SendDM: WriteChatMessage, then createMessageFromAck.    *)

\* The server may refuse, post without an acknowledgement that arrives in time,
\* or acknowledge without an id.
Write(w) ==
    /\ At(w, "write")
    /\ \/ Done(w) /\ UNCHANGED <<server, missed>>
       \/ /\ Post(act[w].msg)
          /\ \/ Done(w)
             \/ \E id \in {act[w].msg, NoId} : Go(w, [act[w] EXCEPT !.pc = "acked", !.msg = id, !.ver = 1])
    /\ UNCHANGED <<conn, disk, held, handlers, bounds, outrun, raced>>

\* A message without an id cached like any other.
AckedAny(w) ==
    /\ At(w, "acked")
    /\ Cached(act[w].msg, 1)
    /\ Done(w)
    /\ UNCHANGED <<server, conn, disk, handlers, bounds, history>>

Acked(w) ==
    /\ At(w, "acked")
    /\ IF act[w].msg = NoId THEN held' = held ELSE Cached(act[w].msg, 1)
    /\ Done(w)
    /\ UNCHANGED <<server, conn, disk, handlers, bounds, history>>

----------------------------------------------------------------------------
(* The connections and their dispatchLoops.                                *)

\* Connect makes a channel of events and starts a loop, whatever other loops do.
Open(l) ==
    /\ conn[l] = "none"
    /\ conn' = [conn EXCEPT ![l] = "open"]
    /\ UNCHANGED <<server, disk, held, handlers, act, bounds, history>>

\* Close, or the end of the connection, closes done.
Drop(l) ==
    /\ conn[l] = "open"
    /\ conn' = [conn EXCEPT ![l] = "closed"]
    /\ UNCHANGED <<server, disk, held, handlers, act, bounds, history>>

Event(l) == [msg |-> act[l].msg, ver |-> act[l].ver]
Queued(l) == Range(inbox[l])

\* The events that a loop has still to save, and still to cache.
ToSave(l) == Queued(l) \cup (IF At(l, "save") \/ "internal" \in Range(act[l].todo) THEN {Event(l)} ELSE {})
ToKeep(l) == ToSave(l) \cup (IF At(l, "fetch") THEN {Event(l)} ELSE {})

ToSaveIn(S) == UNION {ToSave(l) : l \in S}
Unsaved == {e.msg : e \in ToSaveIn(Loops)}

\* Of the events lost those count that no row and no event still there makes up for.
Lose(lost, rest) ==
    missed' = missed \cup {e.msg : e \in {f \in lost :
        disk[f.msg] < f.ver /\ ~\E g \in rest : g.msg = f.msg /\ g.ver >= f.ver}}

\* done is closed: select may take it, or another event first.
LoopEnds(l) ==
    /\ conn[l] = "closed" /\ At(l, "idle")
    /\ conn' = [conn EXCEPT ![l] = "none"]
    /\ inbox' = [inbox EXCEPT ![l] = <<>>]
    /\ Lose(Queued(l), ToSaveIn(Loops \ {l}))
    /\ UNCHANGED <<posted, disk, held, handlers, act, bounds, outrun, raced>>

\* emit: the next handler of those there were when it began, or none is left.
Handle(data) ==
    IF data.todo = <<>> THEN Idle
    ELSE [data EXCEPT !.pc = IF Head(data.todo) = "internal" THEN "save" ELSE "handler",
                      !.todo = Tail(data.todo)]
NextHandler(l) == Go(l, Handle(act[l]))

Dispatched(l, e) == Go(l, Handle([Idle EXCEPT !.msg = e.msg, !.ver = e.ver, !.todo = handlers]))

\* A goroutine of its own for every event: they overtake each other.
EmitAny(l) ==
    /\ At(l, "idle") /\ conn[l] # "none"
    /\ \E i \in DOMAIN inbox[l] :
          /\ Dispatched(l, inbox[l][i])
          /\ inbox' = [inbox EXCEPT ![l] = SubSeq(@, 1, i - 1) \o SubSeq(@, i + 1, Len(@))]
    /\ UNCHANGED <<posted, conn, disk, held, handlers, bounds, history>>

Emit(l) ==
    /\ At(l, "idle") /\ conn[l] # "none"
    /\ inbox[l] # <<>>
    /\ Dispatched(l, Head(inbox[l]))
    /\ inbox' = [inbox EXCEPT ![l] = Tail(@)]
    /\ UNCHANGED <<posted, conn, disk, held, handlers, bounds, history>>

HandlerReturns(l) ==
    /\ At(l, "handler")
    /\ NextHandler(l)
    /\ UNCHANGED <<server, conn, disk, held, handlers, bounds, history>>

(* cacheChannelMessage.                                                    *)

\* Loops of other connections that have an older version of m to save, or to cache,
\* than l has; and callers about to cache an older one.
LateToSave(l, m) == {k \in Loops \ {l} : \E e \in ToSave(k) : e.msg = m /\ e.ver < act[l].ver}
LateToKeep(l, m) ==
    {k \in Loops \ {l} : \E e \in ToKeep(k) : e.msg = m /\ e.ver < act[l].ver} \cup
    {w \in Callers : act[w].msg = m /\ act[w].pc \in {"put", "edited", "acked"} /\ act[w].ver < act[l].ver}

\* m is settled again by its latest version when nobody is late.
Judged(set, l, m, late) ==
    IF late # {} THEN set \cup {m} ELSE IF act[l].ver = posted[m] THEN set \ {m} ELSE set

\* SaveMessage replaces the row; a failure is only logged.
SaveFails(l) ==
    /\ disk' = disk /\ outrun' = outrun
    /\ Lose({Event(l)}, Queued(l) \cup ToSaveIn(Loops \ {l}))

Save(l) ==
    /\ At(l, "save")
    /\ LET m == act[l].msg
       IN  \/ /\ disk' = [disk EXCEPT ![m] = act[l].ver]
              /\ outrun' = Judged(outrun, l, m, LateToSave(l, m))
              /\ missed' = missed
           \/ SaveFails(l)
    /\ To(l, "fetch")
    /\ UNCHANGED <<server, conn, held, handlers, bounds, raced>>

\* Channels.Fetch fails (Channels): the message is not cached.
FetchFails(l) ==
    /\ At(l, "fetch")
    /\ raced' = raced \cup {act[l].msg}
    /\ NextHandler(l)
    /\ UNCHANGED <<server, conn, disk, held, handlers, bounds, missed, outrun>>

\* A message that is cached is taken for up to date.
KeepFirst(l) ==
    /\ At(l, "fetch")
    /\ LET m == act[l].msg
       IN  /\ IF Has(held, m) THEN held' = held ELSE Cached(m, act[l].ver)
           /\ raced' = Judged(raced, l, m, LateToKeep(l, m))
    /\ NextHandler(l)
    /\ UNCHANGED <<server, conn, disk, handlers, bounds, missed, outrun>>

Keep(l) ==
    /\ At(l, "fetch")
    /\ LET m == act[l].msg
       IN  Cached(m, act[l].ver) /\ raced' = Judged(raced, l, m, LateToKeep(l, m))
    /\ NextHandler(l)
    /\ UNCHANGED <<server, conn, disk, handlers, bounds, missed, outrun>>

----------------------------------------------------------------------------
(* The process stops and starts again; what it had not saved is gone.      *)

\* A new process with what the stopped one leaves on the disk.
Started(rows) ==
    /\ starts < MaxStarts
    /\ starts' = starts + 1
    /\ conn' = [l \in Loops |-> "none"] /\ inbox' = [l \in Loops |-> <<>>]
    /\ held' = EmptyCache
    /\ disk' = rows
    /\ handlers' \in Registered
    /\ act' = [t \in Threads |-> Idle]
    /\ Lose(ToSaveIn(Loops), {})
    /\ raced' = {}
    /\ UNCHANGED <<posted, calls, outrun>>

\* The table is made anew.
RestartEmpty == Started(Versions)

\* CREATE TABLE IF NOT EXISTS.
Restart == Started(disk)

----------------------------------------------------------------------------
Caller(w) ==
    \/ \E m \in Msgs, op \in {"lookup", "edit", "delete", "send"} : Begin(w, op, m)
    \/ Get(w) \/ Load(w) \/ Put(w) \/ Update(w) \/ Remove(w) \/ Edited(w)
    \/ Write(w) \/ Acked(w)

DispatchLoop(l) ==
    \/ Emit(l) \/ HandlerReturns(l) \/ Save(l) \/ FetchFails(l) \/ Keep(l)

Next ==
    \/ \E w \in Callers : Caller(w)
    \/ \E l \in Loops : DispatchLoop(l) \/ Open(l) \/ Drop(l) \/ LoopEnds(l)
    \/ Restart \/ Register
    \/ \E m \in Theirs : OthersPost(m)

Spec == Init /\ [][Next]_vars

----------------------------------------------------------------------------
(* Properties.                                                             *)

\* "message lookups survive process restarts and eviction": when no event of a
\* message is on its way and its last one was neither lost nor failed to be saved,
\* the store has the server's version of it, however often the process restarted
\* or reconnected; unless a loop of another connection was late with an older one.
StoreSettled == \A m \in Msgs \ (missed \cup outrun) : m \notin Unsaved => disk[m] = posted[m]

\* "preserving event order": within a connection, from one connection to the next
\* and across restarts no row goes back to an older version.  It does only if, when
\* the newer one was saved, the loop of another connection had the older one to save.
StoreMonotone == [][\A m \in Msgs : disk'[m] < disk[m] => m \in outrun]_vars

OnIt(t, m) == act[t].pc # "idle" /\ act[t].msg = m

\* A cached message is the server's version once its events are handled and no
\* call on it runs, unless a slower goroutine or an older connection's loop cached
\* or saved what it had before.
CacheSettled ==
    \A m \in DOMAIN held.items :
        m \notin missed \cup outrun \cup raced /\ m \notin Unsaved /\ (\A t \in Threads : ~OnIt(t, m)) =>
            held.items[m].ver = posted[m]

\* "must not be cached: it would pool every such message under one key": every
\* cached message has an id, is cached under it and has been on the server.
Identity == \A k \in DOMAIN held.items : k # NoId /\ held.items[k].id = k /\ held.items[k].ver <= posted[k]

\* "These run before user handlers": no handler of the application runs while the
\* internal one has still to.
InternalsFirst == \A l \in Loops : At(l, "handler") => "internal" \notin Range(act[l].todo)
=============================================================================
