---------------------------- MODULE ConnectionBell ----------------------------
(* The bell: the notification list with those who fill and read it.  The     *)
(* connection poller raises an alert when a connection breaks and resolves   *)
(* it when it recovers, acting on the change from what it saw last; the      *)
(* addon checker adds its alert again on every tick; operators mark alerts   *)
(* as read.  internal/notifications/connection_poller.go, checker.go,        *)
(* internal/api/notifications.go.                                            *)
EXTENDS SavedList

CONSTANTS
    Code,          \* what may be wrong with the connection, an alert for each
    Upgrade,       \* the alert of the addon checker
    Healthy, Unknown,
    MaxTurns       \* bound: changes of the connection

ASSUME BellConstants ==
    /\ Kind = "notifications"
    /\ Id = Code \cup {Upgrade} /\ Upgrade \notin Code
    /\ Healthy \notin Code
    /\ MaxItems >= 2

VARIABLES
    connection,    \* Healthy, or the code of what is wrong
    last, open,    \* the poller: health it saw last, code of its open alert
    turns

bellVars == <<listVars, connection, last, open, turns>>

BellTypeOK ==
    /\ ListTypeOK
    /\ connection \in Code \cup {Healthy}
    /\ last \in {"unknown", "healthy", "broken"}
    /\ open \in Code \cup {Unknown}

BellInit ==
    /\ ListInit
    /\ connection = Healthy
    /\ last = "unknown" /\ open = Unknown
    /\ turns = 0

\* evaluate.  Nothing is done where nothing changed; a probe that cannot tell
\* does nothing either.
NothingStale   == {}
Stale          == IF last = "broken" /\ open # connection THEN {open} ELSE {}
Recovers == connection = Healthy /\ last # "healthy"
Breaks   == connection # Healthy /\ ~(last = "broken" /\ open = connection)

Clears ==
    /\ Recovers
    /\ IF last = "broken" THEN Does(Resolved(items, {open})) ELSE UNCHANGED listVars
    /\ last' = "healthy" /\ open' = Unknown
    /\ UNCHANGED <<connection, turns>>

\* Resolve and Add save one after the other.
Raises ==
    /\ Breaks
    /\ LET cleared == Resolved(items, Stale)
           raised  == Added(cleared, connection)
       IN  \/ Does(raised)
           \/ /\ wired
             /\ items' = raised /\ saved' = cleared
             /\ knew' = knew \cup Ids(raised)
             /\ UNCHANGED <<wired, booted>> /\ ListFault
    /\ last' = "broken" /\ open' = connection
    /\ UNCHANGED <<connection, turns>>

Aside == UNCHANGED <<connection, last, open, turns>>

Checks == Does(Added(items, Upgrade)) /\ Aside

MarkRead(id) == id \in Ids(items) /\ Does(MarkedRead(items, {id})) /\ Aside
MarkAllRead  == Does(MarkedRead(items, Ids(items))) /\ Aside

\* The connection breaks, breaks otherwise, or recovers.
Turns ==
    /\ turns < MaxTurns
    /\ turns' = turns + 1
    /\ connection' \in (Code \cup {Healthy}) \ {connection}
    /\ UNCHANGED <<listVars, last, open>>

BellRestarts ==
    /\ ListRestart
    /\ last' = "unknown" /\ open' = Unknown
    /\ UNCHANGED <<connection, turns>>

BellNext ==
    \/ Clears \/ Raises \/ Checks
    \/ (\E id \in Id : MarkRead(id)) \/ MarkAllRead
    \/ (Attach /\ Aside) \/ (AttachFails /\ Aside)
    \/ Turns \/ BellRestarts

BellSpec == BellInit /\ [][BellNext]_bellVars

-----------------------------------------------------------------------------
(* Properties *)

Alerts(list) == Ids(list) \cap Code

\* Within the life of a process the bell tells the state of the connection as
\* the poller saw it last: one alert, of the right kind, while it is broken,
\* and none once it recovered, whatever was read, saved or attached meanwhile.
BellTellsConnection ==
    restarts = 0 =>
        Alerts(items) = IF last = "broken" THEN {open} ELSE {}

\* A process that could not read the saved notifications does not write over
\* them: see SavedList.
SavedAlertsSurvive == [][Ids(saved) \ Ids(saved') \subseteq knew']_bellVars

\* Marking an alert as read is no invitation to nag again: an addon's alert
\* that is saved as read is never again saved as unread, over any number of
\* ticks of the checker, failed writes and restarts.
ReadStaysRead ==
    [][(Upgrade \in Ids(saved) \ UnreadIds(saved)) => Upgrade \notin UnreadIds(saved')]_bellVars

\* What the list of notifications promises of an alert: it is not lost once
\* saved (AttachCMStore), and stays read once read (Add, MarkRead).
AlertsAreKept == SavedAlertsSurvive /\ ReadStaysRead
=============================================================================
