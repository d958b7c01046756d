------------------------------ MODULE Channels ------------------------------
(***************************************************************************)
(* The channels a client holds: the client's bounded cache and the clan's  *)
(* cache (module Cache), both of TextChannel objects, and the shared store *)
(* (L2) of channel details.  Fetch, ReloadChannels, CreateChannel,         *)
(* DeleteChannel and the internal event listeners work on them step by     *)
(* step; only a single call of a cache or of the store is atomic.  One     *)
(* clan; a channel's detail is the number of its version on the server.    *)
(***************************************************************************)
EXTENDS Cache

CONSTANTS
    Keys,           \* channel ids
    Apps,           \* goroutines of the application or of the client
    Dispatcher,     \* the goroutine of dispatchLoop
    MaxChannels,    \* maxSize of the client's cache
    MaxVersion,     \* bound: versions of a channel
    MaxOps,         \* bound: operations of the application
    MaxEvents       \* bound: events pushed by the server

ASSUME MaxChannelsAssumption == MaxChannels \in Nat \ {0}
ASSUME BoundsAssumption == MaxVersion \in Nat \ {0} /\ MaxOps \in Nat /\ MaxEvents \in Nat
ASSUME DispatcherAssumption == Dispatcher \notin Apps
ASSUME NoneAssumption == "none" \notin Keys

Threads == Apps \cup {Dispatcher}
Gone == MaxVersion + 1      \* the version of a deleted channel; 0 before it exists
Exists(v) == v \in 1 .. MaxVersion

VARIABLES
    server,     \* the version of each channel on the server
    events,     \* events not dispatched yet
    l1,         \* MezonClient.Channels
    clan,       \* Clan.Channels
    l2,         \* the shared store: versions; 0 where there is no entry
    desc,       \* the version each TextChannel object holds; objects are numbered
    loaded,     \* channelsLoaded
    lock,       \* who holds loadMu, as a set
    st,         \* what each goroutine is doing
    ops, pushed,    \* operations begun and events pushed
    handled,    \* the latest version whose event the listener has handled
    overlap,    \* whether another operation overlapped that handling, or the store failed in it
    crowded     \* channels on which two operations ever overlapped

vars == <<server, events, l1, clan, l2, desc, loaded, lock, st, ops, pushed, handled, overlap, crowded>>
caches == <<l1, clan, l2, desc>>
outside == <<server, events, ops, pushed>>
history == <<handled, overlap, crowded>>

----------------------------------------------------------------------------
Idle == [pc |-> "idle", key |-> "none", want |-> "none", ver |-> 0, obj |-> 0, todo |-> {}, then |-> "idle"]

Init ==
    /\ server \in [Keys -> {0, 1}]
    /\ events = <<>>
    /\ l1 = EmptyCache /\ clan = EmptyCache
    /\ l2 = [k \in Keys |-> 0]
    /\ desc = <<>>
    /\ loaded = FALSE /\ lock = {}
    /\ st = [t \in Threads |-> Idle]
    /\ ops = 0 /\ pushed = 0
    /\ handled = [k \in Keys |-> 0]
    /\ overlap = [k \in Keys |-> FALSE]
    /\ crowded = {}

\* t is between the steps of an operation on channel k.
On(t, k) == st[t].pc # "idle" /\ (k \in {st[t].key, st[t].want} \/ \E d \in st[t].todo : d.key = k)

\* Thread t goes on to step pc, with the operation's new data.
Go(t, data) == st' = [st EXCEPT ![t] = data]
At(t, pc) == st[t].pc = pc
To(t, pc) == Go(t, [st[t] EXCEPT !.pc = pc])

\* What an operation that begins on channel k overlaps.
Meets(t, k) ==
    LET others == {u \in Threads \ {t} : On(u, k)}
    IN  /\ crowded' = IF others = {} THEN crowded ELSE crowded \cup {k}
        /\ overlap' = [overlap EXCEPT ![k] = @ \/ (\E u \in others : st[u].pc \in {"evict1", "evict2", "evict3"})]
        /\ handled' = handled

----------------------------------------------------------------------------
(* CacheManager.Fetch and fetchChannel.                                    *)

Begin(t, op, k) ==
    /\ At(t, "idle") /\ t \in Apps
    /\ ops < MaxOps
    /\ ops' = ops + 1
    /\ op = "create" => server[k] = 0
    /\ op = "remove" => Exists(server[k])
    /\ Go(t, [Idle EXCEPT !.pc = op, !.key = k])
    /\ Meets(t, k)
    /\ UNCHANGED <<server, events, pushed, caches, loaded, lock>>

Get(t) ==
    /\ At(t, "get")
    /\ IF Has(l1, st[t].key) THEN Go(t, Idle) ELSE To(t, "l2get")
    /\ UNCHANGED <<caches, outside, history, loaded, lock>>

\* An error of the store counts as a miss.
L2Get(t) ==
    /\ At(t, "l2get")
    /\ \/ To(t, "rest")
       \/ /\ l2[st[t].key] # 0
          /\ Go(t, [st[t] EXCEPT !.pc = "clanget", !.ver = l2[st[t].key], !.then = "again"])
    /\ UNCHANGED <<caches, outside, history, loaded, lock>>

\* ListChannelDetail; it may fail, and does for a channel that does not exist.
Rest(t) ==
    /\ At(t, "rest")
    /\ \/ Go(t, Idle)
       \/ /\ Exists(server[st[t].key])
          /\ Go(t, [st[t] EXCEPT !.pc = "l2set", !.ver = server[st[t].key], !.then = "again"])
    /\ UNCHANGED <<caches, outside, history, loaded, lock>>

\* Best effort, as every call of the store.
L2Set(t) ==
    /\ At(t, "l2set")
    /\ l2' \in {l2, [l2 EXCEPT ![st[t].key] = st[t].ver]}
    /\ To(t, "clanget")
    /\ UNCHANGED <<l1, clan, desc, outside, history, loaded, lock>>

----------------------------------------------------------------------------
(* upsertChannel: two look-ups, an update or a new object, two stores.     *)

ClanGet(t) ==
    /\ At(t, "clanget")
    /\ IF Has(clan, st[t].key)
       THEN Go(t, [st[t] EXCEPT !.pc = "apply", !.obj = clan.items[st[t].key]])
       ELSE To(t, "clientget")
    /\ UNCHANGED <<caches, outside, history, loaded, lock>>

ClientGet(t) ==
    /\ At(t, "clientget")
    /\ Go(t, [st[t] EXCEPT !.pc = "apply",
                           !.obj = IF Has(l1, st[t].key) THEN l1.items[st[t].key] ELSE 0])
    /\ UNCHANGED <<caches, outside, history, loaded, lock>>

NewTextChannel(ver) == Append(desc, ver)
UpdateFromDesc(obj, ver) == [desc EXCEPT ![obj] = ver]

\* The object is always a new one.
ApplyNew(t) ==
    /\ At(t, "apply")
    /\ desc' = NewTextChannel(st[t].ver)
    /\ Go(t, [st[t] EXCEPT !.pc = "setclan", !.obj = Len(desc) + 1])
    /\ UNCHANGED <<l1, clan, l2, outside, history, loaded, lock>>

Apply(t) ==
    /\ At(t, "apply")
    /\ IF st[t].obj # 0
       THEN /\ desc' = UpdateFromDesc(st[t].obj, st[t].ver)
            /\ To(t, "setclan")
       ELSE /\ desc' = NewTextChannel(st[t].ver)
            /\ Go(t, [st[t] EXCEPT !.pc = "setclan", !.obj = Len(desc) + 1])
    /\ UNCHANGED <<l1, clan, l2, outside, history, loaded, lock>>

SetClan(t) ==
    /\ At(t, "setclan")
    /\ clan' = Set(clan, st[t].key, st[t].obj, 0)
    /\ To(t, "setclient")
    /\ UNCHANGED <<l1, l2, desc, outside, history, loaded, lock>>

\* Then Fetch stores the channel once more, a reload goes on, CreateChannel returns.
SetClient(t) ==
    /\ At(t, "setclient")
    /\ l1' = Set(l1, st[t].key, st[t].obj, MaxChannels)
    /\ IF st[t].then = "idle" THEN Go(t, Idle) ELSE To(t, st[t].then)
    /\ UNCHANGED <<clan, l2, desc, outside, history, loaded, lock>>

SetAgain(t) ==
    /\ At(t, "again")
    /\ l1' = Set(l1, st[t].key, st[t].obj, MaxChannels)
    /\ Go(t, Idle)
    /\ UNCHANGED <<clan, l2, desc, outside, history, loaded, lock>>

----------------------------------------------------------------------------
(* LoadChannels, ReloadChannels, CreateChannel and DeleteChannel.          *)

BeginReload(t) ==
    /\ At(t, "idle") /\ t \in Apps
    /\ ops < MaxOps
    /\ ops' = ops + 1
    /\ Go(t, [Idle EXCEPT !.pc = "reload"])
    /\ UNCHANGED <<server, events, pushed, caches, history, loaded, lock>>

\* A message's channel is fetched after the load, whether it worked or not.
AfterLoad(t) == IF t = Dispatcher THEN [Idle EXCEPT !.pc = "get", !.key = st[t].want, !.want = st[t].want] ELSE Idle

\* Under loadMu; LoadChannels, which a message event runs first, loads once.
Reload(t) ==
    /\ At(t, "reload") \/ At(t, "load")
    /\ lock = {}
    /\ IF At(t, "load") /\ loaded
       THEN Go(t, AfterLoad(t)) /\ lock' = lock
       ELSE To(t, "list") /\ lock' = {t}
    /\ UNCHANGED <<caches, outside, history, loaded>>

List(t) ==
    /\ At(t, "list")
    /\ \/ /\ Go(t, AfterLoad(t))
          /\ lock' = {}
          /\ UNCHANGED history
       \/ LET todo == {[key |-> k, ver |-> server[k]] : k \in {k \in Keys : Exists(server[k])}}
              met(k) == \E u \in Threads \ {t} : On(u, k)
          IN  /\ Go(t, [st[t] EXCEPT !.pc = "next", !.todo = todo])
              /\ crowded' = crowded \cup {d.key : d \in {d \in todo : met(d.key)}}
              /\ overlap' = [k \in Keys |->
                     overlap[k] \/ \E u \in Threads \ {t} :
                                       On(u, k) /\ st[u].pc \in {"evict1", "evict2", "evict3"}]
              /\ UNCHANGED <<handled, lock>>
    /\ UNCHANGED <<caches, outside, loaded>>

\* The next channel of the list; at its end the lock is released.
NextDesc(t) ==
    /\ At(t, "next")
    /\ IF st[t].todo = {}
       THEN Go(t, AfterLoad(t)) /\ loaded' = TRUE /\ lock' = {}
       ELSE /\ \E d \in st[t].todo :
                Go(t, [st[t] EXCEPT !.pc = "clanget", !.key = d.key, !.ver = d.ver,
                                    !.obj = 0, !.todo = @ \ {d}, !.then = "next"])
            /\ UNCHANGED <<loaded, lock>>
    /\ UNCHANGED <<caches, outside, history>>

\* CreateChannel builds an object without looking for one.
Create(t) ==
    /\ At(t, "create")
    /\ \/ /\ server[st[t].key] = 0
          /\ server' = [server EXCEPT ![st[t].key] = 1]
          /\ desc' = NewTextChannel(1)
          /\ Go(t, [st[t] EXCEPT !.pc = "setclan", !.obj = Len(desc) + 1])
       \/ Go(t, Idle) /\ UNCHANGED <<server, desc>>
    /\ UNCHANGED <<l1, clan, l2, events, ops, pushed, history, loaded, lock>>

Push(type, k, v) == events' = Append(events, [type |-> type, key |-> k, ver |-> v])

\* DeleteChannel: the request, then both caches; the shared store is left alone.
DeleteDesc(t) ==
    /\ At(t, "remove")
    /\ \/ /\ Exists(server[st[t].key])
          /\ server' = [server EXCEPT ![st[t].key] = Gone]
          /\ Push("changed", st[t].key, Gone)
          /\ To(t, "delclan")
       \/ Go(t, Idle) /\ UNCHANGED <<server, events>>
    /\ UNCHANGED <<caches, ops, pushed, history, loaded, lock>>

DelClan(t) ==
    /\ At(t, "delclan")
    /\ clan' = Delete(clan, st[t].key)
    /\ To(t, "delclient")
    /\ UNCHANGED <<l1, l2, desc, outside, history, loaded, lock>>

DelClient(t) ==
    /\ At(t, "delclient")
    /\ l1' = Delete(l1, st[t].key)
    /\ Go(t, Idle)
    /\ UNCHANGED <<clan, l2, desc, outside, history, loaded, lock>>

----------------------------------------------------------------------------
(* The internal listeners: ChannelUpdated and ChannelDeleted do the same,  *)
(* a message loads the clan's channels and fetches its own.                *)

Dispatch ==
    /\ At(Dispatcher, "idle")
    /\ events # <<>>
    /\ LET e == Head(events)
           others == {u \in Apps : On(u, e.key)}
       IN  /\ Go(Dispatcher, [Idle EXCEPT !.pc = IF e.type = "changed" THEN "evict1" ELSE "load",
                                          !.key = e.key, !.want = e.key, !.ver = e.ver])
           /\ overlap' = IF e.type = "changed" THEN [overlap EXCEPT ![e.key] = others # {}] ELSE overlap
           /\ crowded' = IF others = {} THEN crowded ELSE crowded \cup {e.key}
           /\ handled' = handled
    /\ events' = Tail(events)
    /\ UNCHANGED <<server, ops, pushed, caches, loaded, lock>>

Evict1 ==
    /\ At(Dispatcher, "evict1")
    /\ l1' = Delete(l1, st[Dispatcher].key)
    /\ To(Dispatcher, "evict2")
    /\ UNCHANGED <<clan, l2, desc, outside, history, loaded, lock>>

\* The entry of the shared store stays.
Evict2Not ==
    /\ At(Dispatcher, "evict2")
    /\ To(Dispatcher, "evict3")
    /\ UNCHANGED <<caches, outside, history, loaded, lock>>

\* l2Delete only logs a failure, and the old detail stays.
Evict2 ==
    /\ At(Dispatcher, "evict2")
    /\ \/ /\ l2' = [l2 EXCEPT ![st[Dispatcher].key] = 0]
          /\ overlap' = overlap
       \/ /\ l2' = l2
          /\ overlap' = [overlap EXCEPT ![st[Dispatcher].key] = TRUE]
    /\ To(Dispatcher, "evict3")
    /\ UNCHANGED <<l1, clan, desc, outside, handled, crowded, loaded, lock>>

Evict3 ==
    /\ At(Dispatcher, "evict3")
    /\ clan' = Delete(clan, st[Dispatcher].key)
    /\ handled' = [handled EXCEPT ![st[Dispatcher].key] = st[Dispatcher].ver]
    /\ Go(Dispatcher, Idle)
    /\ UNCHANGED <<l1, l2, desc, outside, overlap, crowded, loaded, lock>>

----------------------------------------------------------------------------
(* The server and the store (external).                                    *)

Change(k) ==
    /\ Exists(server[k])
    /\ pushed < MaxEvents
    /\ pushed' = pushed + 1
    /\ \E v \in {server[k] + 1, Gone} :
        /\ server' = [server EXCEPT ![k] = v]
        /\ Push("changed", k, v)
    /\ UNCHANGED <<caches, ops, history, loaded, lock, st>>

Message(k) ==
    /\ Exists(server[k])
    /\ pushed < MaxEvents
    /\ pushed' = pushed + 1
    /\ Push("message", k, server[k])
    /\ UNCHANGED <<server, caches, ops, history, loaded, lock, st>>

\* The time to live ends.
Expire(k) ==
    /\ l2[k] # 0
    /\ l2' = [l2 EXCEPT ![k] = 0]
    /\ UNCHANGED <<l1, clan, desc, outside, history, loaded, lock, st>>

----------------------------------------------------------------------------
Thread(t) ==
    \/ \E k \in Keys : \E op \in {"get", "create", "remove"} : Begin(t, op, k)
    \/ Get(t) \/ L2Get(t) \/ Rest(t) \/ L2Set(t)
    \/ ClanGet(t) \/ ClientGet(t) \/ Apply(t) \/ SetClan(t) \/ SetClient(t) \/ SetAgain(t)
    \/ BeginReload(t) \/ Reload(t) \/ List(t) \/ NextDesc(t)
    \/ Create(t) \/ DeleteDesc(t) \/ DelClan(t) \/ DelClient(t)

Next ==
    \/ \E t \in Threads : Thread(t)
    \/ Dispatch \/ Evict1 \/ Evict2 \/ Evict3
    \/ \E k \in Keys : Change(k) \/ Message(k) \/ Expire(k)

Spec == Init /\ [][Next]_vars

----------------------------------------------------------------------------
(* Properties.                                                             *)

CacheType(c) ==
    /\ DOMAIN c = {"items", "order"}
    /\ c.order \in Seq(Keys)
    /\ DOMAIN c.items \subseteq Keys /\ c.items \in [DOMAIN c.items -> DOMAIN desc]

Event == [type : {"changed", "message"}, key : Keys, ver : 0 .. Gone]
Labels == {"idle", "get", "l2get", "rest", "l2set", "clanget", "clientget", "apply", "setclan",
           "setclient", "again", "reload", "load", "list", "next", "create", "remove",
           "delclan", "delclient", "evict1", "evict2", "evict3"}
ThreadState ==
    [pc : Labels, key : Keys \cup {"none"}, want : Keys \cup {"none"}, ver : 0 .. Gone, obj : Nat,
     todo : SUBSET [key : Keys, ver : 1 .. MaxVersion], then : {"idle", "again", "next"}]

\* Every variable has its type; what a cache holds are objects.
TypeOK ==
    /\ server \in [Keys -> 0 .. Gone] /\ l2 \in [Keys -> 0 .. MaxVersion]
    /\ events \in Seq(Event)
    /\ desc \in Seq(1 .. MaxVersion)
    /\ CacheType(l1) /\ CacheType(clan)
    /\ loaded \in BOOLEAN /\ lock \subseteq Threads
    /\ st \in [Threads -> ThreadState]
    /\ ops \in Nat /\ pushed \in Nat
    /\ handled \in [Keys -> 0 .. Gone] /\ overlap \in [Keys -> BOOLEAN] /\ crowded \subseteq Keys

\* The order of a cache lists its keys once each, although entries are set again,
\* deleted and evicted, and the client's cache never exceeds maxSize.
CachesCoherent == Coherent(l1) /\ Coherent(clan) /\ Len(l1.order) <= MaxChannels

\* "Drop the stale entry from both tiers so the next fetch reloads fresh detail":
\* once the listener has handled a change, the store did its part and no other
\* operation on the channel overlapped it, no tier holds an older version, nor ever will again, although
\* the tiers are refilled from one another; a deleted channel is in none.
Fresh ==
    \A k \in Keys : ~overlap[k] /\ ~(On(Dispatcher, k) /\ st[Dispatcher].pc \in {"evict1", "evict2", "evict3"}) =>
        /\ l2[k] = 0 \/ l2[k] >= handled[k]
        /\ \A c \in {l1, clan} : Has(c, k) => desc[c.items[k]] >= handled[k]

\* "an already cached TextChannel is updated in place — so its Messages cache and
\* any held references survive": through reloads, evictions from the client's
\* cache and refills from the store the clan keeps its object of a channel, and
\* the client's cache gets that one back, unless operations overlapped.
Survives ==
    [][\A k \in Keys \ crowded :
        /\ Has(clan, k) /\ Has(clan', k) => clan'.items[k] = clan.items[k]
        /\ ~Has(l1, k) /\ Has(l1', k) => Has(clan, k) /\ l1'.items[k] = clan.items[k]]_vars
=============================================================================
