-------------------------- MODULE ClusterConnection --------------------------
(***************************************************************************)
(* The life of one cluster's ArgoCD connection (its cluster Secret): the   *)
(* requests that register and remove the cluster, the pull requests they   *)
(* open, the finish step the tracker runs once a removal's pull request    *)
(* settled, and the cluster reconciler, whose pass settles waiting marks,  *)
(* reads Git, lists the Secrets and sweeps the orphans. None of them holds *)
(* a lock while it works: each access to Git, to the tracker's ConfigMap   *)
(* and to the Secret is a step of its own, and what was read may be stale  *)
(* by the time it is used.                                                 *)
(*                                                                         *)
(* A Secret write is one step because it carries the version it read: a    *)
(* conflict fails it. The orphan sweep's delete carries none.              *)
(* The tracker is abstracted to the status it stores (PRTracker models how *)
(* it gets there). Other clusters are registered too, so the desired list  *)
(* is never empty.                                                         *)
(***************************************************************************)
EXTENDS Naturals, FiniteSets

CONSTANTS
    RegPR,          \* pull requests of registrations
    KeepPR,         \* of removals that keep the connection (cleanup git, none)
    AllPR,          \* of removals that delete it (cleanup all)
    NoMark,         \* a Secret without a keep mark
    Pending,        \* a keep mark that has no number yet,
    OldPending,     \* and one that has none after ten minutes
    NoSecret, NoEntry, NoPR,
    Settings        \* installations, and what happens in them, one is chosen

Removal == KeepPR \cup AllPR
PR == RegPR \cup Removal
Finisher == Removal \X {"tracker", "request"}

Unnumbered == {Pending, OldPending}

Secret == [managed : BOOLEAN, adopted : BOOLEAN,
           keep : {NoMark} \cup Unnumbered \cup PR,
           pending : {"none", "fresh", "late"}]

Setting ==
    [used : SUBSET PR,          \* pull requests that may be requested,
     autoMerge : SUBSET PR,     \* and merged by the request that opens them
     backend : BOOLEAN,         \* credentials live in a backend (else: inline kubeconfig)
     registered : BOOLEAN,      \* the cluster is registered at the start
     concurrent : BOOLEAN,      \* bound: its removals may be requested at once
     hurried : BOOLEAN,         \* people may merge while someone acts on what was read
     maxRequests : Nat,         \* bound: requests people make
     maxFaults : Nat,           \* bound: failed calls and restarts
     maxHands : Nat]            \* bound: things people do to Git or the Secret by hand

ASSUME ConnectionConstants ==
    /\ RegPR \cap KeepPR = {} /\ RegPR \cap AllPR = {} /\ KeepPR \cap AllPR = {}
    /\ PR \subseteq Nat \ {0}
    /\ NoMark # Pending /\ NoMark # OldPending /\ Pending # OldPending
    /\ {NoMark, Pending, OldPending} \cap PR = {}
    /\ NoPR \notin PR
    /\ Settings \subseteq Setting
    /\ NoSecret \notin Secret

VARIABLES
    inGit,      \* managed-clusters.yaml on the base branch lists the cluster
    git,        \* pull requests as the Git provider knows them
    diff,       \* open ones whose branch changes the cluster list
    secret,     \* the ArgoCD cluster Secret
    addons,     \* addon secrets Sharko put are on the remote cluster
    tracked,    \* the tracker's ConfigMap
    req,        \* how far each request is
    put,        \* running requests that put their mark on the Secret
    fin,        \* how far each run of a removal's finish step is
    tick,       \* how far the reconciler is
    seenGit, seen, back,    \* what its pass read
    kept,       \* history: a merged removal promised to keep this connection
    firm,       \* history: no deletion was underway when the keep mark went on
    faults, hands,
    setting

AutoMerge == setting.autoMerge
Backend == setting.backend

repo == <<inGit, git, diff>>
live == <<secret, addons>>
pass == <<tick, seenGit, seen, back>>
bounds == <<faults, hands, setting>>
requests == <<req, put>>
promise == <<kept, firm>>
vars == <<repo, live, tracked, requests, fin, pass, promise, bounds>>

Entry == [status : {"open", "merged", "closed", "gone"}, gaveUp : BOOLEAN]

ReqSteps == {"idle", "find", "open", "merge", "mark", "setMark", "unmark", "track",
             "number", "merged", "done"}
FinSteps == {"idle", "check", "waiting", "addons", "marks", "delete",
             "release", "drop", "done", "failed"}
TickSteps == {"idle", "setNumber", "takeOff", "giveBack", "git", "list", "orphan", "owns", "handback",
              "openPRs", "recheck", "sweep", "create", "clear"}

TypeOK ==
    /\ inGit \in BOOLEAN
    /\ git \in [PR -> {"none", "open", "merged", "closed", "gone"}]
    /\ diff \subseteq PR
    /\ secret \in Secret \cup {NoSecret}
    /\ addons \in BOOLEAN
    /\ tracked \in [PR -> Entry \cup {NoEntry}]
    /\ req \in [PR -> ReqSteps]
    /\ put \subseteq RegPR \cup KeepPR
    /\ fin \in [Finisher -> FinSteps]
    /\ tick \in TickSteps
    /\ seenGit \in BOOLEAN
    /\ seen \in Secret \cup {NoSecret}
    /\ back \in KeepPR \cup {NoPR}
    /\ kept \in {"no", "marked", "known"} /\ firm \in BOOLEAN
    /\ setting \in Settings
    /\ faults \in 0..setting.maxFaults
    /\ hands \in 0..setting.maxHands

NewSecret(managed, pending) ==
    [managed |-> managed, adopted |-> FALSE, keep |-> NoMark, pending |-> pending]

\* A registered cluster, or none: then a connection a person made by hand
\* may be there.
Init ==
    /\ setting \in Settings
    /\ inGit = setting.registered
    /\ git = [p \in PR |-> "none"]
    /\ diff = {}
    /\ secret \in IF inGit THEN {NewSecret(TRUE, "none")}
                  ELSE {NoSecret, NewSecret(FALSE, "none")}
    /\ addons = inGit
    /\ tracked = [p \in PR |-> NoEntry]
    /\ req = [p \in PR |-> "idle"]
    /\ put = {}
    /\ fin = [f \in Finisher |-> "idle"]
    /\ tick = "idle"
    /\ seenGit = FALSE /\ seen = NoSecret /\ back = NoPR
    /\ kept = "no" /\ firm = FALSE
    /\ faults = 0 /\ hands = 0

----------------------------------------------------------------------------
(* Helpers.                                                                *)

Fault == faults < setting.maxFaults /\ faults' = faults + 1 /\ UNCHANGED <<hands, setting>>
NoFault == UNCHANGED bounds
ByHand == hands < setting.maxHands /\ hands' = hands + 1 /\ UNCHANGED <<faults, setting>>

Exists == secret # NoSecret
Managed == Exists /\ secret.managed
AnyRegister == \E p \in RegPR : git[p] \in {"open", "closed"}
OpenRegister == \E p \in RegPR : git[p] = "open"
HasStatus(p, s) == tracked[p] # NoEntry /\ tracked[p].status = s

\* The Git provider numbers pull requests as they come: a request that is
\* overtaken by one with a higher number opens none here. (Configurations
\* number them the other way round, too.)
CanOpen(p) == \A q \in PR : q > p => git[q] = "none"
Overtaken(p) == ~CanOpen(p) /\ NoFault

Requested(p) ==
    /\ req[p] = "idle" /\ p \in setting.used
    /\ Cardinality({q \in PR : req[q] # "idle"}) < setting.maxRequests

\* What a request remembers ends with it.
ReqGoto(p, step) ==
    /\ req' = [req EXCEPT ![p] = step]
    /\ put' = IF step = "done" THEN put \ {p} ELSE put
ReqPut(p, step) == req' = [req EXCEPT ![p] = step] /\ put' = put \cup {p}
FinGoto(f, step) == fin' = [fin EXCEPT ![f] = step]

UnknownEntry == [status |-> "none", gaveUp |-> FALSE]
NewEntry == [status |-> "open", gaveUp |-> FALSE]

\* A branch starts at the base branch and gets the whole file: it changes the
\* list when the cluster is not listed there already, or still is.
Opens(p) ==
    /\ CanOpen(p)
    /\ git' = [git EXCEPT ![p] = "open"]
    /\ diff' = IF inGit = (p \in RegPR) THEN diff ELSE diff \cup {p}

Merge(p) ==
    /\ git[p] = "open"
    /\ git' = [git EXCEPT ![p] = "merged"]
    /\ inGit' = IF p \in diff THEN p \in RegPR ELSE inGit
    /\ kept' = CASE p \notin KeepPR \/ ~Managed \/ kept = "known" -> kept
                 [] p \in KeepPR /\ Managed /\ firm /\ (tracked[p] # NoEntry \/ secret.keep = p) -> "known"
                 [] OTHER -> "marked"
    /\ diff' = diff \ {p}
    /\ UNCHANGED firm

----------------------------------------------------------------------------
(* RegisterCluster.                                                        *)

\* The connection a registration leaves behind when one is there already.
\* An unlabelled one is adopted. One whose content is the same (of an
\* adopted one, its labels) is not written at all: no mark goes on it.
Adopted == [secret EXCEPT !.managed = TRUE, !.adopted = TRUE, !.pending = "fresh"]

Ensured(same) ==
    CASE ~Exists -> NewSecret(TRUE, "fresh")
      [] Exists /\ ~secret.managed -> Adopted
      [] Managed /\ same -> secret
      [] Managed /\ ~same -> [secret EXCEPT !.pending = "fresh"]

\* With an inline kubeconfig the request writes the connection itself.
RegWrite(p) ==
    /\ p \in RegPR /\ Requested(p)
    /\ \/ Backend /\ NoFault /\ ReqGoto(p, "find") /\ UNCHANGED <<secret, promise>>
       \/ /\ ~Backend /\ NoFault
          /\ \E same \in BOOLEAN :
                /\ secret' = Ensured(same)
                /\ IF Managed /\ same THEN ReqGoto(p, "find") ELSE ReqPut(p, "find")
          /\ kept' = "no" /\ UNCHANGED firm
       \/ Fault /\ ReqGoto(p, "done") /\ UNCHANGED <<secret, promise>>
    /\ UNCHANGED <<repo, addons, tracked, fin, pass>>

\* Addon secrets go on the cluster, or the request ends; then an open
\* registration of the same cluster ends it. A failed lookup does not.
RegFind(p) ==
    /\ p \in RegPR /\ req[p] = "find"
    /\ \/ /\ addons' = TRUE
          /\ \/ ReqGoto(p, IF OpenRegister THEN "done" ELSE "open") /\ NoFault
             \/ Fault /\ ReqGoto(p, "open")
       \/ Fault /\ ReqGoto(p, "done") /\ UNCHANGED addons
    /\ UNCHANGED <<repo, secret, tracked, fin, pass, promise>>

\* The commit, also of a cluster that is listed already. A registration
\* carries no after-merge work, so a failed tracker write is only logged.
RegOpen(p) ==
    /\ p \in RegPR /\ req[p] = "open"
    /\ \/ /\ Opens(p)
          /\ ReqGoto(p, IF p \in AutoMerge THEN "merge" ELSE "done")
          /\ \/ tracked' = [tracked EXCEPT ![p] = NewEntry] /\ NoFault
             \/ Fault /\ UNCHANGED tracked
       \/ /\ Fault \/ Overtaken(p)
          /\ ReqGoto(p, "done")
          /\ UNCHANGED <<git, diff, tracked>>
    /\ UNCHANGED <<inGit, live, fin, pass, promise>>

RegMerge(p) ==
    /\ p \in RegPR /\ req[p] = "merge"
    /\ ReqGoto(p, "done")
    /\ \/ Merge(p) /\ NoFault
       \/ ((git[p] # "open" /\ NoFault) \/ Fault) /\ UNCHANGED <<repo, promise>>
    /\ UNCHANGED <<live, tracked, fin, pass>>

----------------------------------------------------------------------------
(* RemoveCluster.                                                          *)

\* Where a finish step starts when its removal merged.
FirstStep(p) == IF p \in AllPR THEN "addons" ELSE "release"

\* The plan is made from Git as it is now. With nothing to remove there is
\* no pull request, and the request finishes at once.
RemPlan(p) ==
    /\ p \in Removal /\ Requested(p)
    /\ setting.concurrent \/ \A q \in Removal : req[q] \in {"idle", "done"}
    /\ \/ /\ inGit
          /\ ReqGoto(p, IF p \in KeepPR THEN "mark" ELSE "open")
          /\ UNCHANGED fin
       \/ /\ ~inGit
          /\ ReqGoto(p, "done")
          /\ FinGoto(<<p, "request">>, FirstStep(p))
    /\ kept' = IF p \in KeepPR THEN kept ELSE "no"
    /\ UNCHANGED firm
    /\ NoFault
    /\ UNCHANGED <<repo, live, tracked, pass>>

\* Someone read the connection's marks and is about to delete it.
Deleting ==
    \/ \E f \in Finisher : fin[f] = "delete"
    \/ tick \in {"orphan", "openPRs", "recheck", "sweep"}

\* markKeptConnectionFor reads the connection and its mark, then writes.
RemMark(p) ==
    /\ req[p] = "mark"
    /\ \/ Managed /\ secret.keep = NoMark /\ ReqGoto(p, "setMark") /\ NoFault
       \/ Managed /\ secret.keep # NoMark /\ ReqGoto(p, "done") /\ NoFault
       \/ ~Managed /\ ReqGoto(p, "open") /\ NoFault
       \/ Fault /\ ReqGoto(p, "done")
    /\ UNCHANGED <<repo, live, tracked, fin, pass, promise>>

RemSetMark(p) ==
    /\ req[p] = "setMark"
    /\ \/ /\ Exists /\ NoFault
          /\ secret' = [secret EXCEPT !.keep = Pending]
          /\ firm' = ~Deleting
          /\ ReqPut(p, "open")
       \/ /\ (~Exists /\ NoFault) \/ Fault
          /\ ReqGoto(p, "done")
          /\ UNCHANGED <<secret, firm>>
    /\ UNCHANGED <<repo, addons, tracked, fin, pass, kept>>

\* The commit under the Git mutex, then the record in the tracker, then the
\* merge when the removal merges at once. An unrecorded pull request that
\* does not merge at once is an error, which the mark outlives.
RemOpen(p) ==
    /\ p \in Removal /\ req[p] = "open"
    /\ \/ Opens(p) /\ ReqGoto(p, "track") /\ NoFault
       \/ (Fault \/ Overtaken(p)) /\ ReqGoto(p, "unmark") /\ UNCHANGED <<git, diff>>
    /\ UNCHANGED <<inGit, live, tracked, fin, pass, promise>>

RemTrack(p) ==
    /\ req[p] = "track"
    /\ ReqGoto(p, IF p \in AutoMerge THEN "merge" ELSE "number")
    /\ \/ tracked' = [tracked EXCEPT ![p] = NewEntry] /\ NoFault
       \/ Fault /\ UNCHANGED tracked
    /\ UNCHANGED <<repo, live, fin, pass, promise>>

RemMerge(p) ==
    /\ p \in Removal /\ req[p] = "merge"
    /\ \/ Merge(p) /\ ReqGoto(p, "merged") /\ NoFault
       \/ /\ (git[p] # "open" /\ NoFault) \/ Fault
          /\ ReqGoto(p, "number")
          /\ UNCHANGED <<repo, promise>>
    /\ UNCHANGED <<live, tracked, fin, pass>>

\* The commit is over: the number goes into the mark, whatever it says now.
\* A request whose pull request merged then finishes by itself, without the
\* checks the tracker's finish makes; any other one leaves it to the tracker.
RemNumber(p) ==
    /\ req[p] \in {"number", "merged"}
    /\ ReqGoto(p, "done")
    /\ IF req[p] = "merged"
       THEN FinGoto(<<p, "request">>, FirstStep(p))
       ELSE UNCHANGED fin
    /\ \/ /\ p \in put /\ Exists /\ NoFault
          /\ secret' = [secret EXCEPT !.keep = p]
       \/ (p \notin put \/ ~Exists) /\ NoFault /\ UNCHANGED secret
       \/ p \in put /\ Fault /\ UNCHANGED secret
    /\ UNCHANGED <<repo, addons, tracked, pass, promise>>

\* No pull request: the mark comes off again.
RemUnmark(p) ==
    /\ req[p] = "unmark"
    /\ ReqGoto(p, "done")
    /\ \/ /\ p \in put /\ Exists /\ secret.keep \in Unnumbered /\ NoFault
          /\ secret' = [secret EXCEPT !.keep = NoMark]
       \/ /\ ~(p \in put /\ Exists /\ secret.keep \in Unnumbered) /\ NoFault
          /\ UNCHANGED secret
       \/ p \in put /\ Fault /\ UNCHANGED secret
    /\ UNCHANGED <<repo, addons, tracked, fin, pass, promise>>

----------------------------------------------------------------------------
(* The tracker, and the finish step of a removal.                          *)

\* A settled registration has nothing to finish and is dropped.
TrackerSees(p) ==
    /\ HasStatus(p, "open")
    /\ git[p] # "open"
    /\ tracked' = [tracked EXCEPT ![p] =
                      IF p \in RegPR THEN NoEntry
                      ELSE [status |-> git[p], gaveUp |-> FALSE]]
    /\ UNCHANGED <<repo, live, requests, fin, pass, promise, bounds>>

\* FinishTrackedPR: one that vanished may have merged before it went.
FinishStart(p) ==
    /\ p \in Removal
    /\ tracked[p] # NoEntry /\ tracked[p].status # "open" /\ ~tracked[p].gaveUp
    /\ fin[<<p, "tracker">>] = "idle"
    /\ FinGoto(<<p, "tracker">>,
               IF tracked[p].status = "closed" THEN "drop" ELSE "check")
    /\ UNCHANGED <<repo, live, tracked, requests, pass, promise, bounds>>

\* The cluster is back in Git: its connection is left alone.
NeverBackInGit == FALSE
BackInGit == inGit
FinishCheck(f) ==
    /\ fin[f] = "check"
    /\ \/ FinGoto(f, IF BackInGit THEN "drop" ELSE "waiting") /\ NoFault
       \/ Fault /\ FinGoto(f, "failed")
    /\ UNCHANGED <<repo, live, tracked, requests, pass, promise>>

\* A new registration is on its way: its mark, or its tracked pull request.
NewRegistrationWaiting ==
    \/ Exists /\ secret.pending # "none"
    \/ \E r \in RegPR : HasStatus(r, "open")
FinishWaiting(f) ==
    /\ fin[f] = "waiting"
    /\ \/ FinGoto(f, IF NewRegistrationWaiting THEN "drop" ELSE FirstStep(f[1]))
          /\ NoFault
       \/ Fault /\ FinGoto(f, "failed")
    /\ UNCHANGED <<repo, live, tracked, requests, pass, promise>>

\* cleanup=all: the addon secrets first, reached through the connection
\* itself when the credentials are in no backend.
FinishAddons(f) ==
    /\ fin[f] = "addons"
    /\ \/ /\ (Backend \/ Exists)
          /\ NoFault
          /\ addons' = FALSE
          /\ FinGoto(f, "marks")
       \/ /\ (~Backend /\ ~Exists /\ NoFault) \/ Fault
          /\ FinGoto(f, "failed")
          /\ UNCHANGED addons
    /\ UNCHANGED <<repo, secret, tracked, requests, pass, promise>>

\* deleteOwnedClusterSecret: gone, not Sharko's, and waited for by another
\* pull request are all successes that leave the connection alone.
MayDeleteMarked == Managed
MayDelete == Managed /\ secret.keep = NoMark
FinishMarks(f) ==
    /\ fin[f] = "marks"
    /\ \/ FinGoto(f, IF MayDelete THEN "delete" ELSE "done") /\ NoFault
       \/ Fault /\ FinGoto(f, "failed")
    /\ UNCHANGED <<repo, live, tracked, requests, pass, promise>>

\* Manager.Delete reads again, checks the label, and deletes what it read.
FinishDelete(f) ==
    /\ fin[f] = "delete"
    /\ \/ /\ Managed /\ NoFault
          /\ secret' = NoSecret
          /\ FinGoto(f, "done")
       \/ /\ ~Managed /\ NoFault
          /\ FinGoto(f, IF Exists THEN "failed" ELSE "done")
          /\ UNCHANGED secret
       \/ Fault /\ FinGoto(f, "failed") /\ UNCHANGED secret
    /\ UNCHANGED <<repo, addons, tracked, requests, pass, promise>>

\* ReleaseKeptConnection: Sharko's label comes off, and the keep mark when
\* it is the one of the pull request at hand.
Released(own) ==
    IF Exists
    THEN [secret EXCEPT !.managed = FALSE,
                        !.keep = IF @ \in own THEN NoMark ELSE @]
    ELSE secret
MarkOf(p) == IF git[p] = "none" THEN Unnumbered ELSE {p}

FinishRelease(f) ==
    /\ fin[f] = "release"
    /\ \/ FinGoto(f, "done") /\ secret' = Released(MarkOf(f[1])) /\ NoFault
       \/ Fault /\ FinGoto(f, "failed") /\ UNCHANGED secret
    /\ UNCHANGED <<repo, addons, tracked, requests, pass, promise>>

\* dropKeepMark.
FinishDrop(f) ==
    /\ fin[f] = "drop"
    /\ \/ /\ FinGoto(f, "done")
          /\ secret' = IF Exists /\ secret.keep = f[1]
                       THEN [secret EXCEPT !.keep = NoMark] ELSE secret
          /\ NoFault
       \/ Fault /\ FinGoto(f, "failed") /\ UNCHANGED secret
    /\ UNCHANGED <<repo, addons, tracked, requests, pass, promise>>

\* What runFinish stores: done is dropped, failed is tried again or given
\* up. A request stores nothing.
FinishSettle(f) ==
    /\ fin[f] \in {"done", "failed"}
    /\ FinGoto(f, "idle")
    /\ LET p == f[1] IN
       \/ /\ f[2] = "tracker" /\ tracked[p] # NoEntry /\ NoFault
          /\ \/ fin[f] = "done" /\ tracked' = [tracked EXCEPT ![p] = NoEntry]
             \/ /\ fin[f] = "failed"
                /\ \E g \in BOOLEAN : tracked' = [tracked EXCEPT ![p].gaveUp = g]
       \/ (f[2] = "request" \/ tracked[p] = NoEntry) /\ NoFault /\ UNCHANGED tracked
       \/ f[2] = "tracker" /\ Fault /\ UNCHANGED tracked
    /\ UNCHANGED <<repo, live, requests, pass, promise>>

\* A given-up entry is dropped after thirty days: by then every finish step
\* has run or given up, and a pass has settled a mark without a number.
GaveUpEnds(p) ==
    /\ tracked[p] # NoEntry /\ tracked[p].gaveUp
    /\ \A f \in Finisher : fin[f] = "idle"
    /\ \A q \in PR : tracked[q] # NoEntry => tracked[q].gaveUp \/ tracked[q].status = "open"
    /\ Exists => secret.keep \notin Unnumbered
    /\ tracked' = [tracked EXCEPT ![p] = NoEntry]
    /\ UNCHANGED <<repo, live, requests, fin, pass, promise, bounds>>

----------------------------------------------------------------------------
(* The reconciler (pollOnce): first the waiting marks.                     *)

TickGoto(step) == tick' = step
Sees == <<seenGit, seen, back>>

\* A mark with a number and no tracked pull request is tracked again; an old
\* mark without one is settled in the steps below.
MarkedUntracked == Exists /\ secret.keep \in PR /\ tracked[secret.keep] = NoEntry
NeverOld == FALSE
MarkedOld == Exists /\ secret.keep = OldPending

MarksTrack ==
    /\ tick = "idle" /\ MarkedUntracked
    /\ TickGoto("git")
    /\ \/ /\ tracked' = [tracked EXCEPT ![secret.keep] =
                              [status |-> git[secret.keep], gaveUp |-> FALSE]]
          /\ NoFault
       \/ Fault /\ UNCHANGED tracked
    /\ UNCHANGED <<repo, live, requests, fin, Sees, promise>>

\* settlePendingKeepMark: which of the three ways, from the tracker and Git.
MarksSettle ==
    /\ tick = "idle" /\ MarkedOld
    /\ LET waiting == {p \in KeepPR : tracked[p] # NoEntry} IN
       \/ \E p \in waiting : /\ \A q \in waiting : q <= p
                            /\ back' = p /\ TickGoto("setNumber") /\ NoFault
       \/ /\ waiting = {} /\ NoFault
          /\ TickGoto(IF inGit THEN "takeOff" ELSE "giveBack")
          /\ UNCHANGED back
       \/ Fault /\ TickGoto("git") /\ UNCHANGED back
    /\ UNCHANGED <<repo, live, tracked, requests, fin, seenGit, seen, promise>>

\* Each of the three writes only a mark that still has no number.
MarksWrite ==
    /\ tick \in {"setNumber", "takeOff", "giveBack"}
    /\ TickGoto("git")
    /\ back' = NoPR
    /\ \/ /\ NoFault
          /\ secret' =
               IF tick = "giveBack" THEN Released(Unnumbered)
               ELSE IF Exists /\ secret.keep \in Unnumbered
               THEN [secret EXCEPT !.keep = IF tick = "takeOff" THEN NoMark ELSE back]
               ELSE secret
       \/ Fault /\ UNCHANGED secret
    /\ UNCHANGED <<repo, addons, tracked, requests, fin, seenGit, seen, promise>>

MarksNone ==
    /\ tick = "idle" /\ ~MarkedUntracked /\ ~MarkedOld
    /\ TickGoto("git")
    /\ UNCHANGED <<repo, live, tracked, requests, fin, Sees, promise, bounds>>

----------------------------------------------------------------------------
(* Then the diff between Git and the Secrets.                              *)

\* A pass is over: what it read is forgotten.
Over == TickGoto("idle") /\ seenGit' = FALSE /\ seen' = NoSecret /\ back' = NoPR

ReadGit ==
    /\ tick = "git"
    /\ \/ TickGoto("list") /\ seenGit' = inGit /\ NoFault /\ UNCHANGED <<seen, back>>
       \/ Fault /\ Over
    /\ UNCHANGED <<repo, live, tracked, requests, fin, promise>>

\* Only Secrets with Sharko's label are listed.
ListSecrets ==
    /\ tick = "list"
    /\ \/ /\ seenGit /\ ~Managed /\ TickGoto("create") /\ UNCHANGED <<seenGit, seen, back>>
          /\ NoFault
       \/ /\ Managed /\ seen' = secret
          /\ TickGoto(IF seenGit THEN "clear" ELSE "orphan")
          /\ NoFault /\ UNCHANGED <<seenGit, back>>
       \/ ~seenGit /\ ~Managed /\ Over /\ NoFault
       \/ Fault /\ Over
    /\ UNCHANGED <<repo, live, tracked, requests, fin, promise>>

\* What the tracker says of removals (KeptConnections): an open one, or one
\* that merged and is not finished, holds the connection.
HoldsOnlyMerged(p) == HasStatus(p, "merged")
Holds(p) == HasStatus(p, "open") \/ HasStatus(p, "merged")
Held == \E p \in Removal : Holds(p)
ReleasedBy == {p \in KeepPR : HasStatus(p, "merged")}

\* The waiting mark, on the copy the list returned.
NotWaitedFor == FALSE
WaitedFor == seen.keep # NoMark

\* An orphan: adopted ones, held ones, waited-for ones and ones inside the
\* grace window of a registration are left alone. Past that window the open
\* pull requests are read next.
Orphan ==
    /\ tick = "orphan"
    /\ \/ seen.adopted /\ NoFault /\ Over
       \/ ~seen.adopted /\ Fault /\ Over
       \/ /\ ~seen.adopted /\ Held /\ NoFault
          /\ \/ (ReleasedBy = {} \/ seen.pending # "none") /\ Over
             \/ /\ seen.pending = "none"
                /\ back' \in ReleasedBy
                /\ TickGoto("owns") /\ UNCHANGED <<seenGit, seen>>
       \/ /\ ~seen.adopted /\ ~Held /\ NoFault
          /\ \/ (WaitedFor \/ seen.pending = "fresh") /\ Over
             \/ /\ ~WaitedFor /\ seen.pending # "fresh"
                /\ TickGoto(IF seen.pending = "late" THEN "openPRs" ELSE "sweep")
                /\ UNCHANGED Sees
    /\ UNCHANGED <<repo, live, tracked, requests, fin, promise>>

\* A merged removal keeps it: hand it back now, unless an open registration
\* of the cluster owns it.
Owns ==
    /\ tick = "owns"
    /\ \/ OpenRegister /\ NoFault /\ Over
       \/ ~OpenRegister /\ NoFault /\ TickGoto("handback") /\ UNCHANGED Sees
       \/ Fault /\ Over
    /\ UNCHANGED <<repo, live, tracked, requests, fin, promise>>

Handback ==
    /\ tick = "handback"
    /\ Over
    /\ \/ secret' = Released({back}) /\ NoFault
       \/ Fault /\ UNCHANGED secret
    /\ UNCHANGED <<repo, addons, tracked, requests, fin, promise>>

\* Past the grace window: kept while an open pull request registers it, or
\* the list cannot be read.
OpenPRs ==
    /\ tick = "openPRs"
    /\ \/ OpenRegister /\ NoFault /\ Over
       \/ ~OpenRegister /\ NoFault /\ TickGoto("recheck") /\ UNCHANGED Sees
       \/ Fault /\ Over
    /\ UNCHANGED <<repo, live, tracked, requests, fin, promise>>

\* One may have merged between the two reads: the cluster list once more.
InGitBefore == seenGit
InGitNow == inGit
Recheck ==
    /\ tick = "recheck"
    /\ \/ InGitNow /\ NoFault /\ Over
       \/ ~InGitNow /\ NoFault /\ TickGoto("sweep") /\ UNCHANGED Sees
       \/ Fault /\ Over
    /\ UNCHANGED <<repo, live, tracked, requests, fin, promise>>

\* deleteOne checks the label of its copy and deletes whatever has the name.
Sweep ==
    /\ tick = "sweep"
    /\ Over
    /\ \/ secret' = NoSecret /\ NoFault
       \/ Fault /\ UNCHANGED secret
    /\ UNCHANGED <<repo, addons, tracked, requests, fin, promise>>

\* createOne: only a backend's credentials can be read again. A Secret that
\* is there by now is left alone.
Create ==
    /\ tick = "create"
    /\ Over
    /\ \/ /\ Backend /\ ~Exists /\ NoFault
          /\ secret' = NewSecret(TRUE, "none")
       \/ (~Backend \/ Exists) /\ NoFault /\ UNCHANGED secret
       \/ Fault /\ UNCHANGED secret
    /\ UNCHANGED <<repo, addons, tracked, requests, fin, promise>>

\* clearRegistrationPending reads the Secret again.
Clear ==
    /\ tick = "clear"
    /\ Over
    /\ \/ /\ seen.pending # "none" /\ Managed /\ NoFault
          /\ secret' = [secret EXCEPT !.pending = "none"]
       \/ (seen.pending = "none" \/ ~Managed) /\ NoFault /\ UNCHANGED secret
       \/ seen.pending # "none" /\ Fault /\ UNCHANGED secret
    /\ UNCHANGED <<repo, addons, tracked, requests, fin, promise>>

----------------------------------------------------------------------------
(* People, time, and restarts.                                             *)

\* Someone read Git or the tracker and is about to act on it.
Deciding ==
    \/ \E f \in Finisher : fin[f] \in {"waiting", "addons", "marks", "delete", "release"}
    \/ tick \in {"takeOff", "giveBack", "list", "orphan", "owns", "handback",
                 "openPRs", "recheck", "sweep"}

\* People are slower than two calls of a request that follow each other, and,
\* unless hurried, than a finish step or a pass that has read.
PersonMerges(p) ==
    /\ Merge(p)
    /\ setting.hurried \/ ~Deciding
    /\ \A q \in Removal : req[q] \notin {"setMark", "track"}
    /\ UNCHANGED <<live, tracked, requests, fin, pass, bounds>>

PersonCloses(p) ==
    /\ \/ git[p] = "open" /\ \E s \in {"closed", "gone"} : git' = [git EXCEPT ![p] = s]
       \/ git[p] \in {"merged", "closed"} /\ git' = [git EXCEPT ![p] = "gone"]
    /\ diff' = diff \ {p}
    /\ UNCHANGED <<inGit, live, tracked, requests, fin, pass, promise, bounds>>

\* The list in Git, the label or the Secret changed by hand, or a tracked
\* pull request dropped by hand. What people do by hand is no promise of
\* Sharko's.
Hand ==
    /\ ByHand
    /\ \/ inGit' = ~inGit /\ kept' = "no" /\ UNCHANGED <<live, tracked, firm>>
       \/ /\ Managed /\ secret' = [secret EXCEPT !.managed = FALSE]
          /\ UNCHANGED <<inGit, addons, tracked, promise>>
       \/ /\ Exists /\ secret' = NoSecret /\ kept' = "no"
          /\ UNCHANGED <<inGit, addons, tracked, firm>>
       \/ /\ \E p \in PR : /\ tracked[p] # NoEntry
                          /\ tracked' = [tracked EXCEPT ![p] = NoEntry]
          /\ UNCHANGED <<inGit, live, promise>>
    /\ UNCHANGED <<git, diff, requests, fin, pass>>

\* The grace window of a registration ends; a mark without a number is old.
\* Both take ten minutes, which no request lasts.
Running(p) == p \in put

GraceEnds ==
    /\ Exists /\ secret.pending = "fresh"
    /\ \A p \in RegPR : ~Running(p)
    /\ secret' = [secret EXCEPT !.pending = "late"]
    /\ UNCHANGED <<repo, addons, tracked, requests, fin, pass, promise, bounds>>

MarkAges ==
    /\ Exists /\ secret.keep = Pending
    /\ \A p \in KeepPR : ~Running(p)
    /\ secret' = [secret EXCEPT !.keep = OldPending]
    /\ UNCHANGED <<repo, addons, tracked, requests, fin, pass, promise, bounds>>

Restart ==
    /\ Fault
    /\ req' = [p \in PR |-> IF req[p] = "idle" THEN "idle" ELSE "done"]
    /\ fin' = [f \in Finisher |-> "idle"]
    /\ Over
    /\ put' = {}
    /\ UNCHANGED <<repo, live, tracked, promise>>

----------------------------------------------------------------------------
RegisterCluster(p) == RegWrite(p) \/ RegFind(p) \/ RegOpen(p) \/ RegMerge(p)

RemoveCluster(p) ==
    \/ RemPlan(p) \/ RemMark(p) \/ RemSetMark(p) \/ RemOpen(p) \/ RemTrack(p) \/ RemMerge(p)
    \/ RemNumber(p) \/ RemUnmark(p)

FinishRemove(f) ==
    \/ FinishCheck(f) \/ FinishWaiting(f) \/ FinishAddons(f) \/ FinishMarks(f)
    \/ FinishDelete(f) \/ FinishRelease(f) \/ FinishDrop(f) \/ FinishSettle(f)

Tracker(p) == TrackerSees(p) \/ FinishStart(p) \/ GaveUpEnds(p)

Reconciler ==
    \/ MarksTrack \/ MarksSettle \/ MarksWrite \/ MarksNone
    \/ ReadGit \/ ListSecrets \/ Orphan \/ Owns \/ Handback \/ OpenPRs \/ Recheck
    \/ Sweep \/ Create \/ Clear

Next ==
    \/ \E p \in PR : \/ RegisterCluster(p) \/ RemoveCluster(p) \/ Tracker(p)
                     \/ PersonMerges(p) \/ PersonCloses(p)
    \/ \E f \in Finisher : FinishRemove(f)
    \/ Reconciler
    \/ Hand \/ GraceEnds \/ MarkAges \/ Restart

Spec == Init /\ [][Next]_vars

(***************************************************************************)
(* Fairness: the reconciler ticks for ever, the tracker polls for ever,    *)
(* a request or a finish step that began goes on, and time passes. Nothing *)
(* is assumed of the people who merge, close or start a request.           *)
(***************************************************************************)
Continues(p) ==
    \/ RegFind(p) \/ RegOpen(p) \/ RegMerge(p)
    \/ RemMark(p) \/ RemSetMark(p) \/ RemOpen(p) \/ RemTrack(p) \/ RemMerge(p) \/ RemNumber(p)
    \/ RemUnmark(p)

Fairness ==
    /\ WF_vars(Reconciler)
    /\ \A p \in PR : WF_vars(Continues(p)) /\ WF_vars(Tracker(p))
    /\ \A f \in Finisher : WF_vars(FinishRemove(f))
    /\ WF_vars(GraceEnds) /\ WF_vars(MarkAges)

FairSpec == Spec /\ Fairness

----------------------------------------------------------------------------
(* Safety.                                                                 *)

\* No removal is merged while someone who read Git or the tracker acts on it:
\* neither by hurried people nor by the request that opened it.
Unhurried == ~setting.hurried /\ AutoMerge \cap Removal = {}

SharkoDeletes == Exists /\ secret' = NoSecret /\ hands' = hands

\* Once the pull request of a removal that keeps the connection merged while
\* the tracker had it or the keep mark its number, no part of Sharko deletes
\* that connection: not the sweep while the finish step has not run, failed
\* or gave up, not when the tracker then lost the pull request or the mark
\* never got its number, and not another removal that keeps it. (A removal
\* with cleanup=all that is requested later, and people, may; and a
\* registration whose pull request was opened takes the promise back.)
KeptConnectionSurvives ==
    kept = "known" /\ (\A r \in RegPR : git[r] = "none") => Exists

\* The connection goes last: as long as a merged cleanup=all removal is still
\* tracked, nothing deletes the connection while Sharko's addon secrets are
\* on the cluster, since the finish step may need it to reach the cluster.
\* (A new registration of the same name puts addon secrets of its own on. A
\* sweep that read before the removal was tracked deletes all the same: hence
\* Unhurried.)
AddonSecretsGoFirst ==
    Unhurried /\ SharkoDeletes /\ addons /\ (\A r \in RegPR : req[r] = "idle") =>
        ~\E p \in AllPR : git[p] = "merged" /\ tracked[p] # NoEntry
AddonSecretsFirst == [][AddonSecretsGoFirst]_vars

\* A registration with an inline kubeconfig whose pull request merged has a
\* connection: the sweep did not take it while the pull request waited past
\* the grace window, nor when it merged between two reads of the sweep.
\* (Nothing could write the connection again. People may delete it by hand.)
RegisteredHasConnection ==
    (\E p \in RegPR : git[p] = "merged") /\ inGit /\ ~Backend /\ hands = 0 => Exists

\* A numbered keep mark stays on the connection, and the connection stays,
\* until the pull request it names settled, whatever other removals of the
\* same cluster finish meanwhile: unless one of them, or the sweep, had
\* already read the marks when this one was put on.
MarkStays ==
    \A p \in KeepPR :
        /\ firm /\ Exists /\ secret.keep = p /\ hands' = hands
        /\ secret' = NoSecret \/ secret'.keep # p
        => git[p] # "open"
MarkOutlivesOthers == [][MarkStays]_vars

\* Sharko cuts a cluster off, by deleting the connection or taking its label
\* off, only while the cluster is not in Git: never for a pull request that
\* is still open, that was closed, or that vanished before it merged.
CutOffOutsideGit ==
    /\ Managed /\ hands' = hands
    /\ secret' = NoSecret \/ ~secret'.managed
    => ~inGit
CutOffOnlyOutsideGit == [][CutOffOutsideGit]_vars

----------------------------------------------------------------------------
(* Liveness, under FairSpec.                                               *)

\* A merged removal is finished in the end: the connection is deleted, or is
\* no longer Sharko's, also when the finish step failed and gave up, the
\* tracker never had the pull request, or it vanished from Git afterwards;
\* unless the cluster is in Git again, or another pull request is about to
\* change that.
RemovalSettled ==
    \/ ~Managed \/ inGit
    \/ \E q \in PR : git[q] = "open"
RemovalSettles == \A p \in Removal : (git[p] = "merged") ~> RemovalSettled

\* What a closed registration left behind does not stay: its connection is
\* swept in the end, unless the cluster is in Git after all, an open pull
\* request registers it, or it was a person's connection before.
RegistrationSwept ==
    \/ inGit \/ ~Managed \/ secret.adopted
    \/ \E q \in RegPR : git[q] = "open"
ClosedRegistrationSwept == \A p \in RegPR : (git[p] = "closed") ~> RegistrationSwept

----------------------------------------------------------------------------
(* What comments of the code say and the code does not do.                 *)

\* remove.go, when the number could not be written: 'The "pending" mark still
\* protects the connection.' waiting_marks.go takes such a mark off after ten
\* minutes when no removal is tracked and the cluster is in Git, for then "the
\* removal never happened": but its pull request may only be waiting.
PendingMarkProtects == kept # "no" => Exists

\* cluster.go on the registration-pending mark: it is stamped "so the cluster
\* reconciler's orphan sweep does NOT delete this Secret before the
\* registration PR merges".
OpenRegistrationKeepsConnection ==
    [][SharkoDeletes => ~\E p \in RegPR : git[p] = "open"]_vars
=============================================================================
