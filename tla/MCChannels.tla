----------------------------- MODULE MCChannels -----------------------------
(***************************************************************************)
(* What the client keeps of channels and users, on small instances: the    *)
(* channels of a clan (Channels) and a user with their DM channel (Users). *)
(* The two share no state of their models, so a behaviour is one of one of *)
(* them: part says which.                                                  *)
(***************************************************************************)
EXTENDS Channels, TLC

CONSTANTS Askers, Listeners, Starter, MaxAsks, MaxArrivals, MaxInits

VARIABLES part, dm, shared, listed, room, who, user, doing, asks, arrivals, inits, blank

userVars == <<dm, shared, listed, room, who, user, doing, asks, arrivals, inits, blank>>

U == INSTANCE Users

MCInit ==
    /\ Init /\ U!Init
    /\ part \in {"channels", "users"}
    /\ part # "channels" => \A k \in Keys : server[k] = 0
    /\ part # "users" => ~dm

MCNext ==
    \/ part = "channels" /\ Next /\ UNCHANGED <<part, userVars>>
    \/ part = "users" /\ U!Next /\ UNCHANGED <<part, vars>>

\* Goroutines of the application are alike, and so are dispatchLoops and channels.
Alike == Permutations(Askers) \cup Permutations(Listeners) \cup Permutations(Keys)

MCSpec == MCInit /\ [][MCNext]_<<part, vars, userVars>>

----------------------------------------------------------------------------
\* Users.DmReal: a DM channel id held anywhere is one the server has.
DmReal == part = "users" => U!DmReal
\* Users.LostOnlyByRace: the cached user loses its DM channel only by eviction, by a
\* dispatchLoop that had found no user, or to a call that got no id from the server.
LostOnlyByRace == U!LostOnlyByRace
=============================================================================
