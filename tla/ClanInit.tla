------------------------------ MODULE ClanInit ------------------------------
(***************************************************************************)
(* connectSocket (client.go): after the socket has connected, the clans    *)
(* are listed, a Clan object is made for each that has none, and each has  *)
(* its channels loaded and its chat joined, the failed ones again in up to *)
(* Rounds rounds.  Login and retryConnect call it, and may overlap: a      *)
(* connection that drops while Login is here starts a retry loop.          *)
(* buildChannel makes Clan objects too.  A call of the Clans cache, of the *)
(* server, or of a clan under its loadMu is one step.                      *)
(***************************************************************************)
EXTENDS Integers, Sequences, FiniteSets

CONSTANTS
    Clans,      \* the clans the bot may be a member of
    Global,     \* the pseudo-clan "0"
    Calls,      \* calls of connectSocket
    Builders,   \* calls of buildChannel for a clan
    Rounds      \* retry rounds (5)

All == Clans \cup {Global}
Threads == Calls \cup Builders

VARIABLES
    up,         \* whether the socket is connected
    clanOf,     \* the Clan object c.Clans has for each id; 0: none
    made,       \* Clan objects made so far
    loaded,     \* objects whose channels were loaded
    joined,     \* chats joined over the present connection
    job,        \* what each call is doing
    tries,      \* how often each call tried each clan it has not joined
    won,        \* clans each call has joined
    crossed,    \* calls during which another call ran
    remade      \* clans whose object was replaced

vars == <<up, clanOf, made, loaded, joined, job, tries, won, crossed, remade>>
history == <<tries, won, crossed, remade>>

----------------------------------------------------------------------------
NoJob == [pc |-> "idle", list |-> <<>>, todo |-> <<>>, failed |-> <<>>, attempt |-> 0, obj |-> 0]

Init ==
    /\ up = FALSE
    /\ clanOf = [c \in All |-> 0] /\ made = 0
    /\ loaded = {} /\ joined = {}
    /\ job = [t \in Threads |-> NoJob]
    /\ tries = [t \in Calls |-> [c \in All |-> 0]]
    /\ won = [t \in Calls |-> {}]
    /\ crossed = {} /\ remade = {}

At(t, pc) == job[t].pc = pc
Go(t, data) == job' = [job EXCEPT ![t] = data]
Active == {t \in Threads : job[t].pc \notin {"idle", "ended"}}

\* t begins: the calls that run now cross it.
Begins(t) == crossed' = IF Active = {} THEN crossed ELSE crossed \cup Active \cup {t}

----------------------------------------------------------------------------
\* Connect has succeeded; an open socket was left as it is.
Connected(t) ==
    /\ At(t, "idle")
    /\ up' = TRUE
    /\ Go(t, [NoJob EXCEPT !.pc = "list"])
    /\ Begins(t)
    /\ UNCHANGED <<clanOf, made, loaded, joined, tries, won, remade>>

Drop ==
    /\ up
    /\ up' = FALSE
    /\ joined' = {}
    /\ UNCHANGED <<clanOf, made, loaded, job, history>>

\* buildChannel: the clan of a channel, which may be one no call has listed.
Build(t, c) ==
    /\ At(t, "idle")
    /\ Go(t, [NoJob EXCEPT !.pc = "look", !.todo = <<c>>])
    /\ Begins(t)
    /\ UNCHANGED <<up, clanOf, made, loaded, joined, tries, won, remade>>

\* ListClanDescs, over the socket or HTTP: an error ends the call, the pseudo-clan
\* goes first otherwise.
ListClans(t, list) ==
    /\ At(t, "list")
    /\ \/ Go(t, [job[t] EXCEPT !.pc = "ended"])
       \/ Go(t, [job[t] EXCEPT !.pc = "look", !.list = <<Global>> \o list, !.todo = <<Global>> \o list])
    /\ UNCHANGED <<up, clanOf, made, loaded, joined, history>>

(* ensureClanObjects: Get, then Set.                                       *)

\* What follows when the objects are there.
Ensured(t) ==
    IF Len(job[t].todo) > 1 THEN [job[t] EXCEPT !.pc = "look", !.todo = Tail(@)]
    ELSE IF t \in Builders THEN [NoJob EXCEPT !.pc = "ended"]
    ELSE [job[t] EXCEPT !.pc = "init", !.todo = job[t].list]

\* A clan that exists is made again.
LookAway(t) ==
    /\ At(t, "look")
    /\ Go(t, [job[t] EXCEPT !.pc = "make"])
    /\ UNCHANGED <<up, clanOf, made, loaded, joined, history>>

Look(t) ==
    /\ At(t, "look")
    /\ Go(t, IF clanOf[Head(job[t].todo)] # 0 THEN Ensured(t) ELSE [job[t] EXCEPT !.pc = "make"])
    /\ UNCHANGED <<up, clanOf, made, loaded, joined, history>>

Make(t) ==
    /\ At(t, "make")
    /\ LET c == Head(job[t].todo)
       IN  /\ clanOf' = [clanOf EXCEPT ![c] = made + 1]
           /\ remade' = IF clanOf[c] = 0 THEN remade ELSE remade \cup {c}
    /\ made' = made + 1
    /\ Go(t, Ensured(t))
    /\ UNCHANGED <<up, loaded, joined, tries, won, crossed>>

(* initClan and the rounds.                                                *)

Another(t, failed, attempt) ==
    [job[t] EXCEPT !.pc = "init", !.todo = failed, !.failed = <<>>, !.attempt = attempt, !.obj = 0]
Ended(t) == [NoJob EXCEPT !.pc = "ended", !.list = job[t].list]

\* One round too few.
RoundEndsEarly(t, failed) ==
    IF failed # <<>> /\ job[t].attempt + 1 < Rounds THEN Another(t, failed, job[t].attempt + 1) ELSE Ended(t)

\* Rounds until nothing fails.
RoundRepeats(t, failed) ==
    IF failed # <<>> THEN Another(t, failed, job[t].attempt) ELSE Ended(t)

\* After the last clan of a round.
RoundEnds(t, failed) ==
    IF failed # <<>> /\ job[t].attempt < Rounds THEN Another(t, failed, job[t].attempt + 1) ELSE Ended(t)

Tried(t, failed) ==
    IF Len(job[t].todo) > 1 THEN [job[t] EXCEPT !.pc = "init", !.todo = Tail(@), !.failed = failed, !.obj = 0]
    ELSE RoundEnds(t, failed)

Failed(t) == Go(t, Tried(t, Append(job[t].failed, Head(job[t].todo))))

\* Tries are counted up to one more than there can be.
Trying(t) == tries' = [tries EXCEPT ![t][Head(job[t].todo)] = IF @ < Rounds + 2 THEN @ + 1 ELSE @]

\* Clans.Get; the pseudo-clan has no channels.
Pick(t) ==
    LET c == Head(job[t].todo)
    IN  /\ At(t, "init")
        /\ Trying(t)
        /\ Go(t, IF c = Global THEN [job[t] EXCEPT !.pc = "join"]
                 ELSE [job[t] EXCEPT !.pc = "reload", !.obj = clanOf[c]])
        /\ UNCHANGED <<up, clanOf, made, loaded, joined, won, crossed, remade>>

Reloaded(t) == loaded' = loaded \cup {job[t].obj} /\ Go(t, [job[t] EXCEPT !.pc = "join", !.obj = 0])

\* An error of the list is not looked at.
ReloadAnyway(t) ==
    /\ At(t, "reload")
    /\ Reloaded(t) \/ (loaded' = loaded /\ Go(t, [job[t] EXCEPT !.pc = "join", !.obj = 0]))
    /\ UNCHANGED <<up, clanOf, made, joined, history>>

\* ReloadChannels of that object, whether or not it is still the clan's.
Reload(t) ==
    /\ At(t, "reload")
    /\ Reloaded(t) \/ (loaded' = loaded /\ Failed(t))
    /\ UNCHANGED <<up, clanOf, made, joined, history>>

\* JoinClanChat over the socket.
Join(t) ==
    LET c == Head(job[t].todo)
    IN  /\ At(t, "join")
        /\ \/ /\ up
              /\ joined' = joined \cup {c}
              /\ won' = [won EXCEPT ![t] = @ \cup {c}]
              /\ tries' = [tries EXCEPT ![t][c] = 0]
              /\ Go(t, Tried(t, job[t].failed))
           \/ Failed(t) /\ UNCHANGED <<joined, won, tries>>
        /\ UNCHANGED <<up, clanOf, made, loaded, crossed, remade>>

----------------------------------------------------------------------------
\* The lists the server may give.
Lists == {list \in UNION {[1 .. n -> Clans] : n \in 0 .. Cardinality(Clans)} : \A i, j \in DOMAIN list : i # j => list[i] # list[j]}

ConnectSocket(t) ==
    \/ \E list \in Lists : ListClans(t, list)
    \/ Look(t) \/ Make(t) \/ Pick(t) \/ Reload(t) \/ Join(t)

Next ==
    \/ \E t \in Calls : Connected(t) \/ ConnectSocket(t)
    \/ \E t \in Builders : Look(t) \/ Make(t) \/ \E c \in Clans : Build(t, c)
    \/ Drop

Spec == Init /\ [][Next]_vars

\* A goroutine that can run does; that a request ends is left to RequestsEnd.
Fairness == \A t \in Calls : WF_vars(Look(t) \/ Make(t) \/ Pick(t))
FairSpec == Spec /\ Fairness

----------------------------------------------------------------------------
(* Properties.                                                             *)

Elements(s) == {s[i] : i \in DOMAIN s}

\* "Up to 5 retry rounds": a call leaves no clan of its list aside before it has
\* tried it in the first pass and in every round, and tries none it has joined.
TriedOften ==
    \A t \in Calls :
        /\ \A c \in won[t] : tries[t][c] = 0
        /\ At(t, "ended") => \A c \in Elements(job[t].list) \ won[t] : tries[t][c] = Rounds + 1

\* "refreshed in place instead of recreated so its channel/message caches survive":
\* the object of a clan is never replaced, unless another call ran in between.
ClansSurvive ==
    [][\A c \in All : clanOf[c] # 0 /\ clanOf'[c] # clanOf[c] => \E t \in crossed : At(t, "make")]_vars

\* "channels are pre-loaded per clan before joining its chat": whatever drops and
\* overlaps, the channels of a joined clan are loaded, unless the object that had
\* them was replaced.
LoadedBeforeJoin == \A c \in joined \ ({Global} \cup remade) : clanOf[c] \in loaded

\* Every request comes back, with an answer, an error or a timeout.  On the socket it
\* does if its write returns, for which the code sets no deadline.
RequestsEnd == \A t \in Calls : WF_vars((\E list \in Lists : ListClans(t, list)) \/ Reload(t) \/ Join(t))

\* connectSocket ends if its requests do, whatever fails.
Ends == RequestsEnd => \A t \in Calls : ~At(t, "idle") ~> At(t, "ended")
=============================================================================
