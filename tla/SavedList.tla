------------------------------ MODULE SavedList ------------------------------
(* A list kept in memory and saved whole in a ConfigMap: the notifications   *)
(* of the bell, and the change log of one cluster.  The server starts with   *)
(* the list in memory only and attaches the ConfigMap once it has a client,  *)
(* merging what is saved there with what it has.  Every operation holds the  *)
(* mutex of the list until its write came back; a write is one step of       *)
(* AtomicStore.  internal/notifications/store.go, internal/changelog.        *)
EXTENDS Naturals, Sequences, FiniteSets

CONSTANTS
    Kind,          \* "notifications" or "changes"
    Id,            \* of alerts; of pull requests
    MaxItems,      \* the cap of the list
    MaxAdds,       \* bound: entries that come in
    MaxListFaults, \* bound: calls to the API server that fail
    MaxRestarts    \* bound: restarts of the process

ASSUME ListConstants ==
    /\ Kind \in {"notifications", "changes"}
    /\ MaxItems \in Nat \ {0}
    /\ MaxAdds \in Nat /\ MaxListFaults \in Nat /\ MaxRestarts \in Nat

VARIABLES
    items,     \* the list in memory, newest first
    saved,     \* the list in the ConfigMap
    wired,     \* changes of the list are saved
    booted,    \* this process tried to attach the ConfigMap
    knew,      \* history: entries this process has had in memory
    adds, listFaults, restarts

lists  == <<items, saved>>
listCounts == <<adds, listFaults, restarts>>
listVars == <<lists, wired, booted, knew, listCounts>>

Ids(list) == {list[i].id : i \in 1..Len(list)}
Entry     == [id : Id, read : BOOLEAN]

ListTypeOK ==
    /\ items \in Seq(Entry) /\ Len(items) <= MaxItems
    /\ saved \in Seq(Entry) /\ Len(saved) <= MaxItems
    /\ wired \in BOOLEAN /\ booted \in BOOLEAN
    /\ knew \subseteq Id /\ restarts \in 0..MaxRestarts

ListInit ==
    /\ items = <<>> /\ saved = <<>>
    /\ wired = FALSE /\ booted = FALSE
    /\ knew = {}
    /\ adds = 0 /\ listFaults = 0 /\ restarts = 0

ListFault == listFaults < MaxListFaults /\ listFaults' = listFaults + 1 /\ UNCHANGED <<adds, restarts>>
ListCalm  == UNCHANGED listCounts

-----------------------------------------------------------------------------
(* What the operations make of a list *)

Capped(list) == SubSeq(list, 1, IF Len(list) < MaxItems THEN Len(list) ELSE MaxItems)

UnreadIds(list) == {list[i].id : i \in {j \in 1..Len(list) : ~list[j].read}}
Listed(list)    == Ids(list)

\* Add drops one whose id is on the list, read or not; Record takes any.
Added(list, id) ==
    IF Kind = "notifications" /\ id \in Listed(list) THEN list
    ELSE Capped(<<[id |-> id, read |-> FALSE]>> \o list)

\* The first i entries, without those of ids; a function, so that the proofs can
\* reason about it.
Resolved(list, ids) ==
    LET left[i \in 0..Len(list)] ==
            IF i = 0 THEN <<>>
            ELSE IF list[i].id \in ids THEN left[i - 1]
            ELSE Append(left[i - 1], list[i])
    IN  left[Len(list)]

MarkedRead(list, ids) ==
    [i \in 1..Len(list) |-> IF list[i].id \in ids THEN [list[i] EXCEPT !.read = TRUE] ELSE list[i]]

\* The saved copy wins where both have an entry.
Merged == Capped(saved \o Resolved(items, Ids(saved)))

-----------------------------------------------------------------------------
(* persistLocked: memory has the change already when the write fails, and    *)
(* the next one saves it with the rest.                                      *)

Keep(list) ==
    /\ items' = list
    /\ saved' = IF wired THEN list ELSE saved
    /\ knew' = knew \cup Ids(list)
    /\ UNCHANGED <<wired, booted>>

KeepUnsaved(list) ==
    /\ wired
    /\ items' = list
    /\ knew' = knew \cup Ids(list)
    /\ UNCHANGED <<saved, wired, booted>>

Does(list) == (Keep(list) /\ ListCalm) \/ (KeepUnsaved(list) /\ ListFault)

RecordChange(id) ==
    /\ adds < MaxAdds
    /\ adds' = adds + 1
    /\ UNCHANGED restarts
    /\ \/ Keep(Added(items, id)) /\ UNCHANGED listFaults
       \/ KeepUnsaved(Added(items, id)) /\ listFaults < MaxListFaults /\ listFaults' = listFaults + 1

-----------------------------------------------------------------------------
(* AttachCMStore, once in the life of the process *)

Attach ==
    /\ ~booted
    /\ booted' = TRUE
    /\ wired' = TRUE
    /\ items' = Merged
    /\ knew' = knew \cup Ids(saved)
    /\ \/ saved' = Merged /\ ListCalm
       \/ UNCHANGED saved /\ ListFault

\* The saved list could not be read.  The notifications stay in memory only.
\* The change log was wired before the read.
WiredFirst      == TRUE
WiredBeforeRead == Kind = "changes"
AttachFails ==
    /\ ~booted
    /\ booted' = TRUE
    /\ wired' = WiredBeforeRead
    /\ UNCHANGED <<lists, knew>> /\ ListFault

ListRestart ==
    /\ restarts < MaxRestarts
    /\ restarts' = restarts + 1
    /\ items' = <<>> /\ wired' = FALSE /\ booted' = FALSE /\ knew' = {}
    /\ UNCHANGED <<saved, adds, listFaults>>

\* The change log, as the tracker's hook fills it.
ChangesNext == (\E id \in Id : RecordChange(id)) \/ Attach \/ AttachFails \/ ListRestart
ChangesSpec == ListInit /\ [][ChangesNext]_listVars

-----------------------------------------------------------------------------
(* Properties *)

\* A process takes out of the saved list only what it has had in memory: one
\* that could not read the list does not write over it.
NothingLostUnread == [][Ids(saved) \ Ids(saved') \subseteq knew']_listVars
=============================================================================
