----------------------------- MODULE MCRequests -----------------------------
(***************************************************************************)
(* Requests and ClanInit on small instances: the calls the application     *)
(* makes over a connection that comes and goes, and the calls the client   *)
(* makes itself when it has one.  A behaviour is one of one of the two:    *)
(* part says which.                                                        *)
(***************************************************************************)
EXTENDS Requests, TLC

CONSTANTS Clans, Global, Connectors, Builders, Rounds

\* "0" is not a clan of the server's list; the calls are different goroutines.
ASSUME ClansAssumption == IsFiniteSet(Clans) /\ Global \notin Clans
ASSUME RoundsAssumption == Rounds \in Nat
ASSUME CallsAssumption == Connectors \cap Builders = {}

VARIABLES part, up, clanOf, made, loaded, chats, job, tries, won, crossed, remade

clanVars == <<up, clanOf, made, loaded, chats, job, tries, won, crossed, remade>>

C == INSTANCE ClanInit WITH Calls <- Connectors, joined <- chats

MCInit == Init /\ C!Init /\ part \in {"requests", "clans"}

MCNext ==
    \/ part = "requests" /\ Next /\ UNCHANGED <<part, clanVars>>
    \/ part = "clans" /\ C!Next /\ UNCHANGED <<part, vars>>

\* The part that does not move has nothing enabled that fairness asks for.
MCSpec == MCInit /\ [][MCNext]_<<part, vars, clanVars>> /\ Fairness /\ C!Fairness

----------------------------------------------------------------------------
\* ClanInit.TriedOften: no clan is given up before the last round.
TriedOften == C!TriedOften
\* ClanInit.LoadedBeforeJoin: a joined clan has its channels.
LoadedBeforeJoin == C!LoadedBeforeJoin
\* ClanInit.ClansSurvive: a Clan object is replaced only by an overlapping call.
ClansSurvive == C!ClansSurvive
\* ClanInit.Ends: connectSocket ends if its requests do, whatever fails.
Ends == C!Ends
=============================================================================
