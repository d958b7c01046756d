----------------------------- MODULE SocketSpec -----------------------------
(***************************************************************************)
(* What a DefaultSocket promises the client built on it: it is open or     *)
(* not, and every OnDisconnect call is owed to one loss of an opened       *)
(* connection.  SocketLifecycle is shown to implement it.                  *)
(***************************************************************************)
EXTENDS Integers, FiniteSets

CONSTANT Reporters      \* the goroutines that may call OnDisconnect

VARIABLES
    connected,  \* what IsOpen returns
    owed,       \* reporters that have taken the socket down, not yet reported
    opens,      \* times the socket was opened
    notices     \* OnDisconnect calls

vars == <<connected, owed, opens, notices>>

Init ==
    /\ connected = FALSE
    /\ owed = {}
    /\ opens = 0
    /\ notices = 0

Open ==
    /\ connected' = TRUE
    /\ opens' = opens + 1
    /\ UNCHANGED <<owed, notices>>

\* A loop finds the connection dead and takes the socket down.
Drop(r) ==
    /\ connected
    /\ r \notin owed
    /\ connected' = FALSE
    /\ owed' = owed \cup {r}
    /\ UNCHANGED <<opens, notices>>

\* The application closes the socket: no notice is owed.
Close ==
    /\ connected' = FALSE
    /\ UNCHANGED <<owed, opens, notices>>

Notify(r) ==
    /\ r \in owed
    /\ owed' = owed \ {r}
    /\ notices' = notices + 1
    /\ UNCHANGED <<connected, opens>>

Next ==
    \/ Open
    \/ Close
    \/ \E r \in Reporters : Drop(r) \/ Notify(r)

Spec == Init /\ [][Next]_vars

----------------------------------------------------------------------------
TypeOK ==
    /\ connected \in BOOLEAN
    /\ owed \subseteq Reporters
    /\ opens \in Nat
    /\ notices \in Nat

OpenCount == IF connected THEN 1 ELSE 0

\* "fires OnDisconnect once": there is never more than one OnDisconnect, made or
\* owed, for each time the socket was opened, and none for the present opening.
NoticeBound == notices + Cardinality(owed) + OpenCount <= opens
=============================================================================
