-------------------------------- MODULE Users -------------------------------
(***************************************************************************)
(* One user and the DM channel with them: the User objects and the entry   *)
(* of MezonClient.Users, ChannelManager's dmByUser, the shared store's     *)
(* user entry and the server (user.go, channelmanager.go, sharedcache.go,  *)
(* client_internal.go).  Goroutines of the application fetch the user and  *)
(* send direct messages, dispatchLoops handle the user's messages, Login   *)
(* and retryConnect list the DM channels; none of them locks what they     *)
(* share.  A call of a cache, of the store or of the server is one step.   *)
(* A DM channel id is "none" (empty), "zero" ("0") or "dm" (the server's). *)
(***************************************************************************)
EXTENDS Integers, Sequences

CONSTANTS
    Askers,         \* goroutines of the application
    Listeners,      \* goroutines of dispatchLoops: of a connection, and of one before it
    Starter,        \* the goroutine in Login or retryConnect
    MaxAsks,        \* bound: calls of the application
    MaxArrivals,    \* bound: messages of the user
    MaxInits        \* bound: reconnects and restarts

Threads == Askers \cup Listeners \cup {Starter}

VARIABLES
    dm,         \* whether the server has the DM channel
    shared,     \* the DM channel id in the shared store
    listed,     \* the DM channel id in dmByUser
    room,       \* whether MezonClient.Channels has the DM channel
    who,        \* the User object MezonClient.Users has; 0: none
    user,       \* DmChannelID of each User object of this process
    doing,      \* what each goroutine is doing
    asks, arrivals, inits,  \* calls, messages, reconnects and restarts so far
    blank       \* whether the server ever answered with a channel without an id

vars == <<dm, shared, listed, room, who, user, doing, asks, arrivals, inits, blank>>

bounds == <<asks, arrivals, inits>>

----------------------------------------------------------------------------
Idle == [pc |-> "idle", obj |-> 0, id |-> "none"]

Go(t, data) == doing' = [doing EXCEPT ![t] = data]
At(t, pc) == doing[t].pc = pc
To(t, pc) == Go(t, [doing[t] EXCEPT !.pc = pc])
Done(t) == Go(t, Idle)

Starting == [t \in Threads |-> IF t = Starter THEN [Idle EXCEPT !.pc = "list"] ELSE Idle]

Init ==
    /\ dm \in BOOLEAN
    /\ shared = "none" /\ listed = "none"
    /\ room = FALSE /\ who = 0 /\ user = <<>>
    /\ doing = Starting
    /\ asks = 0 /\ arrivals = 0 /\ inits = 0
    /\ blank = FALSE

----------------------------------------------------------------------------
(* Users.Fetch, and SendDM of what it returned.  (A call that only fetches *)
(* the user, like Reply, is the first steps of one that goes on.)          *)

Ask(w) ==
    /\ At(w, "idle")
    /\ asks < MaxAsks
    /\ asks' = asks + 1
    /\ Go(w, [Idle EXCEPT !.pc = "get"])
    /\ UNCHANGED <<dm, shared, listed, room, who, user, arrivals, inits, blank>>

Found(w, o) == [doing[w] EXCEPT !.pc = "check", !.obj = o]

Get(w) ==
    /\ At(w, "get")
    /\ IF who # 0 THEN Go(w, Found(w, who)) ELSE To(w, "l2get")
    /\ UNCHANGED <<dm, shared, listed, room, who, user, bounds, blank>>

BuildUser(w, id) ==
    /\ user' = Append(user, id)
    /\ Go(w, [doing[w] EXCEPT !.pc = "set", !.obj = Len(user) + 1, !.id = "none"])

\* fetchUser: an entry that is missing, unreadable or without an id is a miss.
L2Get(w) ==
    /\ At(w, "l2get")
    /\ \/ To(w, "create") /\ UNCHANGED user
       \/ shared # "none" /\ BuildUser(w, shared)
    /\ UNCHANGED <<dm, shared, listed, room, who, bounds, blank>>

\* The error of the request is not looked at.
CreateUnchecked(w, found, failed) ==
    \/ Go(w, [found EXCEPT !.id = "zero"]) /\ UNCHANGED <<dm, blank>>
    \/ Go(w, [found EXCEPT !.id = "dm"]) /\ dm' = TRUE /\ UNCHANGED blank

\* The server (external): the DM channel, made if need be, or a channel without
\* an id, or an error.  Whether the join that follows succeeds is not looked at.
CreateDMChannel(w, found, failed) ==
    \/ Go(w, failed) /\ UNCHANGED <<dm, blank>>
    \/ Go(w, [found EXCEPT !.id = "dm"]) /\ dm' = TRUE /\ UNCHANGED blank
    \/ Go(w, [found EXCEPT !.id = "zero"]) /\ blank' = TRUE /\ UNCHANGED dm

Create(w) ==
    /\ At(w, "create")
    /\ CreateDMChannel(w, [doing[w] EXCEPT !.pc = "l2set"], Idle)
    /\ UNCHANGED <<shared, listed, room, who, user, bounds>>

\* l2Set, whose failure is only logged, and buildUser.
L2Set(w) ==
    /\ At(w, "l2set")
    /\ shared' \in {shared, doing[w].id}
    /\ BuildUser(w, doing[w].id)
    /\ UNCHANGED <<dm, listed, room, who, bounds, blank>>

\* fetchUser stores the object, and Fetch stores it once more.
UserSet(w) ==
    /\ At(w, "set") \/ At(w, "again")
    /\ who' = doing[w].obj
    /\ IF At(w, "set") THEN To(w, "again") ELSE Go(w, Found(w, doing[w].obj))
    /\ UNCHANGED <<dm, shared, listed, room, user, bounds, blank>>

----------------------------------------------------------------------------
(* User.SendDM.                                                            *)

Check(w) ==
    /\ At(w, "check")
    /\ To(w, IF user[doing[w].obj] = "none" THEN "make" ELSE "write")
    /\ UNCHANGED <<dm, shared, listed, room, who, user, bounds, blank>>

Make(w) ==
    /\ At(w, "make")
    /\ CreateDMChannel(w, [doing[w] EXCEPT !.pc = "assign"], [doing[w] EXCEPT !.pc = "write"])
    /\ UNCHANGED <<shared, listed, room, who, user, bounds>>

\* cacheDmChannel leaves a channel without an id alone.
Assign(w) ==
    /\ At(w, "assign")
    /\ user' = [user EXCEPT ![doing[w].obj] = doing[w].id]
    /\ room' = (room \/ doing[w].id = "dm")
    /\ Go(w, [doing[w] EXCEPT !.pc = "write", !.id = "none"])
    /\ UNCHANGED <<dm, shared, listed, who, bounds, blank>>

\* Without an id the call ends.  Otherwise WriteChatMessage to the object's channel
\* as it is now, and only when the message is out Channels.Fetch, whose error is
\* then all the caller gets.
WriteDM(w) ==
    /\ At(w, "write")
    /\ room' \in {room, room \/ user[doing[w].obj] = "dm"}
    /\ Done(w)
    /\ UNCHANGED <<dm, shared, listed, who, user, bounds, blank>>

----------------------------------------------------------------------------
(* cacheUserFromMessage, for a message of the user in any channel.         *)

\* GetAllDMChannels.
Arrive(l) ==
    /\ At(l, "idle")
    /\ arrivals < MaxArrivals
    /\ arrivals' = arrivals + 1
    /\ Go(l, [Idle EXCEPT !.pc = "find", !.id = listed])
    /\ UNCHANGED <<dm, shared, listed, room, who, user, asks, inits, blank>>

Find(l) ==
    /\ At(l, "find")
    /\ Go(l, [doing[l] EXCEPT !.pc = "enrich", !.obj = who])
    /\ UNCHANGED <<dm, shared, listed, room, who, user, bounds, blank>>

\* The id assigned whether or not there is one.
EnrichAlways(l) ==
    /\ At(l, "enrich")
    /\ LET o == doing[l].obj
           id == doing[l].id
       IN  IF o # 0
           THEN user' = [user EXCEPT ![o] = id] /\ who' = who
           ELSE user' = Append(user, id) /\ who' = Len(user) + 1
    /\ Done(l)
    /\ UNCHANGED <<dm, shared, listed, room, bounds, blank>>

\* A known user is updated in place, a new one is stored.
Enrich(l) ==
    /\ At(l, "enrich")
    /\ LET o == doing[l].obj
           id == doing[l].id
       IN  IF o # 0
           THEN user' = [user EXCEPT ![o] = IF id = "none" THEN @ ELSE id] /\ who' = who
           ELSE user' = Append(user, id) /\ who' = Len(user) + 1
    /\ Done(l)
    /\ UNCHANGED <<dm, shared, listed, room, bounds, blank>>

----------------------------------------------------------------------------
(* postConnectInit's InitAllDMChannels and initDmChannelCache.             *)

\* The list the server gives; after an error the earlier one is used.
ListDMs ==
    /\ At(Starter, "list")
    /\ \/ To(Starter, "precache")
       \/ Go(Starter, [doing[Starter] EXCEPT !.pc = "clear", !.id = IF dm THEN "dm" ELSE "none"])
    /\ UNCHANGED <<dm, shared, listed, room, who, user, bounds, blank>>

\* The new map is published empty ...
ClearDMs ==
    /\ At(Starter, "clear")
    /\ listed' = "none"
    /\ To(Starter, "fill")
    /\ UNCHANGED <<dm, shared, room, who, user, bounds, blank>>

\* ... and filled while dispatchLoop may read it.
FillDMs ==
    /\ At(Starter, "fill")
    /\ listed' = doing[Starter].id
    /\ To(Starter, "precache")
    /\ UNCHANGED <<dm, shared, room, who, user, bounds, blank>>

InitDmChannelCache ==
    /\ At(Starter, "precache")
    /\ room' = (room \/ listed = "dm")
    /\ Done(Starter)
    /\ UNCHANGED <<dm, shared, listed, who, user, bounds, blank>>

Reconnect ==
    /\ At(Starter, "idle")
    /\ inits < MaxInits
    /\ inits' = inits + 1
    /\ To(Starter, "list")
    /\ UNCHANGED <<dm, shared, listed, room, who, user, asks, arrivals, blank>>

----------------------------------------------------------------------------
(* Faults.                                                                 *)

\* The process stops, killed or by the runtime, which stops a program caught
\* reading a map another goroutine writes, and starts again.
Restart ==
    /\ inits < MaxInits
    /\ inits' = inits + 1
    /\ listed' = "none" /\ room' = FALSE /\ who' = 0 /\ user' = <<>>
    /\ doing' = Starting
    /\ UNCHANGED <<dm, shared, asks, arrivals, blank>>

\* Other users and channels push the entry out of its cache; an entry of the
\* shared store outlives its time.
Forgotten ==
    /\ \/ who # 0 /\ who' = 0 /\ UNCHANGED shared
       \/ shared # "none" /\ shared' = "none" /\ UNCHANGED who
    /\ UNCHANGED <<dm, listed, room, user, doing, bounds, blank>>

----------------------------------------------------------------------------
Asker(w) ==
    \/ Ask(w) \/ Get(w) \/ L2Get(w) \/ Create(w) \/ L2Set(w) \/ UserSet(w)
    \/ Check(w) \/ Make(w) \/ Assign(w) \/ WriteDM(w)

Next ==
    \/ \E w \in Askers : Asker(w)
    \/ \E l \in Listeners : Arrive(l) \/ Find(l) \/ Enrich(l)
    \/ ListDMs \/ ClearDMs \/ FillDMs \/ InitDmChannelCache \/ Reconnect
    \/ Restart \/ Forgotten

Spec == Init /\ [][Next]_vars

----------------------------------------------------------------------------
(* Properties.                                                             *)

Real(id) == (id = "dm" => dm) /\ (id = "zero" => blank)

\* Every DM channel that is cached, and every id an object, the map or the shared
\* store holds, is one the server has; "0" gets in only if the server once answered without an id, which
\* fetchChannel refuses and fetchUser and SendDM do not.
DmReal == Real(shared) /\ Real(listed) /\ (room => dm) /\ \A o \in DOMAIN user : Real(user[o])

Cached == IF who = 0 THEN "none" ELSE user[who]

\* What w stores or assigns, a channel without an id, takes the place of what is there.
Overwrites(w) ==
    \/ At(w, "set") /\ user[doing[w].obj] = "zero"
    \/ At(w, "again") /\ user[doing[w].obj] = "zero"
    \/ At(w, "assign") /\ doing[w].id = "zero"

\* The cached user, once it has its DM channel, loses it only by eviction (SendDM then
\* fetches it again), because a dispatchLoop had looked before another goroutine stored
\* the user (SendDM asks again), or because a call of the application got no id from
\* the server and overwrites what another one found: the id is then "0", for which
\* SendDM does not ask again.  The empty dmByUser that a reconnect publishes while
\* messages are handled does not take it away.
LostOnlyByRace ==
    [][Cached = "dm" /\ who' # 0 /\ inits' = inits =>
          \/ Cached' = "dm"
          \/ Cached' = "none" /\ \E l \in Listeners : At(l, "enrich") /\ doing[l].obj = 0
          \/ Cached' = "zero" /\ blank /\ \E w \in Askers : Overwrites(w)]_vars
=============================================================================
