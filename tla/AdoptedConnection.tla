-------------------------- MODULE AdoptedConnection --------------------------
(***************************************************************************)
(* A connection that ArgoCD has already comes under Sharko, by an adopt or *)
(* a take over (both: a join), and is handed back by an un-adopt. Each     *)
(* opens a pull request; the connection changes once it is merged, in the  *)
(* request that merged it or in the tracker's finish step. A mark on the   *)
(* Secret names the pull request meanwhile, and a pass of the reconciler   *)
(* tracks one again that the tracker lost. No two of these share a lock.   *)
(*                                                                         *)
(* A repository of the v4 layout; the checks of the preflight other than   *)
(* the name's, the labels of a previous owner and the addon secrets are    *)
(* left out. No registration or removal of the cluster (ClusterConnection) *)
(* is under way. The orphan sweep leaves a connection alone that is marked *)
(* adopted, as every one here that carries Sharko's label is.              *)
(***************************************************************************)
EXTENDS Naturals

CONSTANTS
    AdoptPR, TakePR, UnadoptPR,     \* pull requests, by who opens them
    NoMark, NoSecret, NoEntry, NoPR,
    Pending, OldPending,            \* a keep mark without a number, ten minutes later
    MayMerge,                       \* requests that may merge their pull request themselves
    Together, MaxFailures             \* bounds: requests of one behaviour; failed calls and restarts

Join == AdoptPR \cup TakePR
PR == Join \cup UnadoptPR
Finisher == PR \X {"tracker", "request"}

Unnumbered == {Pending, OldPending}
Key(p) == CASE p \in AdoptPR -> "adopt" [] p \in TakePR -> "take" [] OTHER -> "keep"

Secret == [managed : BOOLEAN, adopted : BOOLEAN,
           mark : [{"adopt", "take", "keep"} -> {NoMark} \cup Unnumbered \cup PR]]
Entry == [status : {"open", "merged", "closed", "gone"}, gaveUp : BOOLEAN]

ASSUME AdoptionConstants ==
    /\ AdoptPR \subseteq Nat /\ TakePR \subseteq Nat /\ UnadoptPR \subseteq Nat
    /\ AdoptPR \cap TakePR = {} /\ Join \cap UnadoptPR = {}
    /\ NoMark \notin Unnumbered \cup PR
    /\ Pending # OldPending /\ Unnumbered \cap PR = {}
    /\ NoSecret \notin Secret /\ NoEntry \notin Entry /\ NoPR \notin PR
    /\ MaxFailures \in Nat

Nothing == [k \in {"adopt", "take", "keep"} |-> NoMark]

VARIABLES
    inGit,      \* managed-clusters.yaml on the base branch lists the cluster
    git,        \* pull requests as the Git provider knows them
    diff,       \* open ones whose branch changes the cluster list
    connection,     \* the ArgoCD cluster Secret
    tracked,    \* the tracker's ConfigMap
    req, found, marked,    \* how far each request is, and what it remembers
    fin,        \* how far each run of a finish step is
    tick, listed, number, \* how far the marks pass is, and what it read
    crossed,    \* history: a merge, or a second un-adopt, too early for what is under way
    failures

repo == <<inGit, git, diff, crossed>>
requests == <<req, found, marked>>
marksPass == <<tick, listed, number>>
adoptionVars == <<repo, connection, tracked, requests, fin, marksPass, failures>>

ReqSteps == {"idle", "find", "remark", "open", "mark", "track", "trackOnly", "merge", "swap", "annotate",
             "plan", "look", "setMark", "merged", "number", "unmark", "done"}
FinSteps == {"idle", "look", "swap", "annotate", "check", "strip", "unmark", "drop", "done", "failed"}
TickSteps == {"idle", "pass", "setNumber", "takeOff", "giveBack"}

AdoptionTypeOK ==
    /\ inGit \in BOOLEAN /\ crossed \in BOOLEAN
    /\ git \in [PR -> {"none", "open", "merged", "closed", "gone"}] /\ diff \subseteq PR
    /\ connection \in Secret \cup {NoSecret}
    /\ tracked \in [PR -> Entry \cup {NoEntry}]
    /\ req \in [PR -> ReqSteps] /\ found \in [Join -> Join \cup {NoPR}] /\ marked \subseteq UnadoptPR
    /\ fin \in [Finisher -> FinSteps]
    /\ tick \in TickSteps /\ listed \in [{"adopt", "take", "keep"} -> {NoMark, OldPending} \cup PR]
    /\ number \in UnadoptPR \cup {NoPR}
    /\ failures \in 0..MaxFailures

\* A connection somebody made, or one that was adopted.
AdoptionInit ==
    /\ inGit \in BOOLEAN
    /\ connection = [managed |-> inGit, adopted |-> inGit, mark |-> Nothing]
    /\ git = [p \in PR |-> "none"] /\ diff = {}
    /\ tracked = [p \in PR |-> NoEntry]
    /\ req = [p \in PR |-> "idle"] /\ found = [p \in Join |-> NoPR] /\ marked = {}
    /\ fin = [f \in Finisher |-> "idle"]
    /\ tick = "idle" /\ listed = Nothing /\ number = NoPR
    /\ crossed = FALSE /\ failures = 0

----------------------------------------------------------------------------
(* Helpers.                                                                *)

Failure == failures < MaxFailures /\ failures' = failures + 1
NoFailure == UNCHANGED failures

Exists == connection # NoSecret
ManagedBySharko == Exists /\ connection.managed
HasMark(key, values) == Exists /\ connection.mark[key] \in values

\* RemoveAnnotationIfValue.
Unmark(key, values) ==
    connection' = IF HasMark(key, values) THEN [connection EXCEPT !.mark[key] = NoMark] ELSE connection

\* TakeOverClusterSecret: one write, and none to a connection that Sharko owns.
TakenOver == IF connection.managed THEN connection ELSE [connection EXCEPT !.managed = TRUE, !.adopted = TRUE]
Unadopted == [connection EXCEPT !.managed = FALSE, !.adopted = FALSE]

Goto(p, step) == req' = [req EXCEPT ![p] = step]
FinGoto(f, step) == fin' = [fin EXCEPT ![f] = step]
Running(p) == req[p] \notin {"idle", "done"}

NewEntry == [status |-> "open", gaveUp |-> FALSE]

\* Numbers go up; a branch carries the whole list, with the cluster or without.
CanOpen(p) == \A q \in PR : q > p => git[q] = "none"
Opens(p) ==
    /\ CanOpen(p)
    /\ git' = [git EXCEPT ![p] = "open"]
    /\ diff' = IF inGit = (p \in Join) THEN diff ELSE diff \cup {p}
    /\ UNCHANGED <<inGit, crossed>>

\* What a merge can come too early for: its own mark and record, a reader of
\* Git who has yet to write, and when an un-adopt merges, a join not over.
Known(p) ==
    \/ tracked[p] # NoEntry \/ HasMark(Key(p), {p}) \/ listed[Key(p)] = p
    \/ p \in UnadoptPR /\ HasMark("keep", Unnumbered)
Over(p) == git[p] # "open" /\ ~Running(p) /\ ~Known(p)
Deciding ==
    \/ \E f \in Finisher : fin[f] = "strip"
    \/ \E p \in UnadoptPR : req[p] = "merged"
    \/ tick \in {"takeOff", "giveBack"}

\* Nothing of it is left: no finish step and no marks pass is at it either.
Settled(p) == Over(p) /\ number # p /\ \A f \in Finisher : f[1] = p => fin[f] = "idle"

Merge(p) ==
    /\ git[p] = "open"
    /\ git' = [git EXCEPT ![p] = "merged"]
    /\ inGit' = IF p \in diff THEN p \in Join ELSE inGit
    /\ diff' = diff \ {p}
    /\ crossed' = (crossed \/ ~Known(p) \/ Deciding
                \/ (p \in UnadoptPR /\ \E q \in Join : ~Over(q)))

Requested(p) ==
    /\ req[p] = "idle"
    /\ \E few \in Together : {q \in PR : req[q] # "idle"} \cup {p} \subseteq few

----------------------------------------------------------------------------
(* Adopt and take over.                                                    *)

\* The preflight: the connection is there, and the name is not taken, which
\* it is when the cluster is listed and the connection is not Sharko's.
JoinPreflight(p) ==
    /\ p \in Join /\ Requested(p)
    /\ Exists /\ (inGit => connection.managed)
    /\ Goto(p, "find") /\ NoFailure
    /\ UNCHANGED <<repo, connection, tracked, found, marked, fin, marksPass>>

\* findOpenJoinPR: an open pull request of the same kind is the answer, one
\* of the other kind a refusal.
SameKind(p) == IF p \in AdoptPR THEN AdoptPR ELSE TakePR
JoinFind(p) ==
    /\ p \in Join /\ req[p] = "find" /\ NoFailure
    /\ LET open == {q \in Join : git[q] = "open"} IN
       \/ open = {} /\ Goto(p, "open") /\ UNCHANGED found
       \/ \E q \in open \cap SameKind(p) : Goto(p, "remark") /\ found' = [found EXCEPT ![p] = q]
       \/ open # {} /\ open \cap SameKind(p) = {} /\ Goto(p, "done") /\ UNCHANGED found
    /\ UNCHANGED <<repo, connection, tracked, marked, fin, marksPass>>

\* putJoinMark, over whatever mark is there.
PutMark(p) ==
    /\ connection' = [connection EXCEPT !.mark[Key(p)] = p]
    /\ crossed' = (crossed \/ HasMark(Key(p), PR \ {p}))
JoinRemark(p) ==
    /\ req[p] = "remark"
    /\ Goto(p, "done") /\ found' = [found EXCEPT ![p] = NoPR]
    /\ \/ Exists /\ PutMark(found[p]) /\ NoFailure
       \/ ((~Exists /\ NoFailure) \/ Failure) /\ UNCHANGED <<connection, crossed>>
    /\ UNCHANGED <<inGit, git, diff, tracked, marked, fin, marksPass>>

\* A take over with nothing to write swaps at once.
JoinOpen(p) ==
    /\ p \in Join /\ req[p] = "open"
    /\ \/ p \in TakePR /\ inGit /\ Goto(p, "swap") /\ NoFailure /\ UNCHANGED repo
       \/ (p \in AdoptPR \/ ~inGit) /\ Opens(p) /\ Goto(p, "mark") /\ NoFailure
       \/ Failure /\ Goto(p, "done") /\ UNCHANGED repo
       \/ ~CanOpen(p) /\ Goto(p, "done") /\ NoFailure /\ UNCHANGED repo
    /\ UNCHANGED <<connection, tracked, found, marked, fin, marksPass>>

\* The mark goes on before the record; a pull request without is not merged.
JoinMark(p) ==
    /\ req[p] = "mark"
    /\ \/ Exists /\ PutMark(p) /\ Goto(p, "track") /\ NoFailure
       \/ ((~Exists /\ NoFailure) \/ Failure) /\ Goto(p, "trackOnly") /\ UNCHANGED <<connection, crossed>>
    /\ UNCHANGED <<inGit, git, diff, tracked, found, marked, fin, marksPass>>

\* Unrecorded, it is merged all the same when it merges at once.
JoinTrack(p) ==
    /\ p \in Join /\ req[p] \in {"track", "trackOnly"}
    /\ \/ Goto(p, "done")
       \/ req[p] = "track" /\ p \in MayMerge /\ Goto(p, "merge")
    /\ \/ tracked' = [tracked EXCEPT ![p] = NewEntry] /\ NoFailure
       \/ Failure /\ UNCHANGED tracked
    /\ UNCHANGED <<repo, connection, found, marked, fin, marksPass>>

JoinMerge(p) ==
    /\ p \in Join /\ req[p] = "merge"
    /\ \/ Merge(p) /\ Goto(p, "swap") /\ NoFailure
       \/ ((git[p] # "open" /\ NoFailure) \/ Failure) /\ Goto(p, "done") /\ UNCHANGED repo
    /\ UNCHANGED <<connection, tracked, found, marked, fin, marksPass>>

JoinSwap(p) ==
    /\ req[p] = "swap"
    /\ \/ Exists /\ connection' = TakenOver /\ NoFailure
          /\ Goto(p, IF p \in AdoptPR THEN "annotate" ELSE "done")
       \/ ((~Exists /\ NoFailure) \/ Failure) /\ Goto(p, "done") /\ UNCHANGED connection
    /\ UNCHANGED <<repo, tracked, found, marked, fin, marksPass>>

JoinAnnotate(p) ==
    /\ req[p] = "annotate" /\ Goto(p, "done")
    /\ \/ Exists /\ connection' = [connection EXCEPT !.adopted = TRUE] /\ NoFailure
       \/ ((~Exists /\ NoFailure) \/ Failure) /\ UNCHANGED connection
    /\ UNCHANGED <<repo, tracked, found, marked, fin, marksPass>>

----------------------------------------------------------------------------
(* Un-adopt.                                                               *)

UnadoptCheck(p) ==
    /\ p \in UnadoptPR /\ Requested(p)
    /\ Exists /\ connection.adopted
    /\ Goto(p, "plan") /\ NoFailure
    /\ crossed' = (crossed \/ \E q \in UnadoptPR \ {p} : ~Settled(q))
    /\ UNCHANGED <<inGit, git, diff, connection, tracked, found, marked, fin, marksPass>>

\* Nothing left in Git: the connection's side is done at once.
UnadoptPlan(p) ==
    /\ req[p] = "plan"
    /\ \/ inGit /\ Goto(p, "look") /\ NoFailure /\ UNCHANGED fin
       \/ ~inGit /\ Goto(p, "done") /\ FinGoto(<<p, "request">>, "strip") /\ NoFailure
       \/ Failure /\ Goto(p, "done") /\ UNCHANGED fin
    /\ UNCHANGED <<repo, connection, tracked, found, marked, marksPass>>

\* markKeptConnectionFor: looks, then writes.
UnadoptLook(p) ==
    /\ req[p] = "look"
    /\ \/ ManagedBySharko /\ Goto(p, IF HasMark("keep", {NoMark}) THEN "setMark" ELSE "done") /\ NoFailure
       \/ ~ManagedBySharko /\ Goto(p, "open") /\ NoFailure
       \/ Failure /\ Goto(p, "done")
    /\ UNCHANGED <<repo, connection, tracked, found, marked, fin, marksPass>>

UnadoptSetMark(p) ==
    /\ req[p] = "setMark"
    /\ \/ Exists /\ connection' = [connection EXCEPT !.mark["keep"] = Pending] /\ NoFailure
          /\ Goto(p, "open") /\ marked' = marked \cup {p}
       \/ ((~Exists /\ NoFailure) \/ Failure) /\ Goto(p, "done") /\ UNCHANGED <<connection, marked>>
    /\ UNCHANGED <<repo, tracked, found, fin, marksPass>>

UnadoptOpen(p) ==
    /\ p \in UnadoptPR /\ req[p] = "open"
    /\ \/ Opens(p) /\ Goto(p, "track") /\ NoFailure
       \/ ((~CanOpen(p) /\ NoFailure) \/ Failure) /\ Goto(p, "unmark") /\ UNCHANGED repo
    /\ UNCHANGED <<connection, tracked, found, marked, fin, marksPass>>

UnadoptTrack(p) ==
    /\ p \in UnadoptPR /\ req[p] = "track"
    /\ Goto(p, "number") \/ (p \in MayMerge /\ Goto(p, "merge"))
    /\ \/ tracked' = [tracked EXCEPT ![p] = NewEntry] /\ NoFailure
       \/ Failure /\ UNCHANGED tracked
    /\ UNCHANGED <<repo, connection, found, marked, fin, marksPass>>

UnadoptMerge(p) ==
    /\ p \in UnadoptPR /\ req[p] = "merge"
    /\ \/ Merge(p) /\ Goto(p, "merged") /\ NoFailure
       \/ ((git[p] # "open" /\ NoFailure) \/ Failure) /\ Goto(p, "number") /\ UNCHANGED repo
    /\ UNCHANGED <<connection, tracked, found, marked, fin, marksPass>>

\* The number goes into the mark, or without a pull request the mark comes
\* off. A merged one goes on with the connection, and looks at nothing first.
UnadoptNumber(p) ==
    /\ req[p] \in {"number", "merged", "unmark"}
    /\ Goto(p, "done") /\ marked' = marked \ {p}
    /\ IF req[p] = "merged" THEN FinGoto(<<p, "request">>, "strip") ELSE UNCHANGED fin
    /\ \/ p \notin marked /\ NoFailure /\ UNCHANGED connection
       \/ /\ p \in marked /\ NoFailure
          /\ IF req[p] = "unmark" THEN Unmark("keep", Unnumbered)
             ELSE connection' = IF Exists THEN [connection EXCEPT !.mark["keep"] = p] ELSE connection
       \/ p \in marked /\ Failure /\ UNCHANGED connection
    /\ UNCHANGED <<repo, tracked, found, marksPass>>

----------------------------------------------------------------------------
(* The tracker, and the finish steps.                                      *)

TrackerSees(p) ==
    /\ tracked[p] # NoEntry /\ tracked[p].status = "open" /\ git[p] # "open"
    /\ tracked' = [tracked EXCEPT ![p] = [status |-> git[p], gaveUp |-> FALSE]]
    /\ UNCHANGED <<repo, connection, requests, fin, marksPass, failures>>

\* FinishTrackedPR. A join that vanished is finished as a closed one; an
\* un-adopt that did may have merged.
FinishStart(p) ==
    /\ tracked[p] # NoEntry /\ tracked[p].status # "open" /\ ~tracked[p].gaveUp
    /\ fin[<<p, "tracker">>] = "idle"
    /\ FinGoto(<<p, "tracker">>,
               CASE tracked[p].status = "closed" -> "drop"
                 [] tracked[p].status = "gone" -> IF p \in Join THEN "drop" ELSE "check"
                 [] OTHER -> IF p \in Join THEN "look" ELSE "check")
    /\ UNCHANGED <<repo, connection, tracked, requests, marksPass, failures>>

\* FinishAdoptOnPRComplete: a connection that is gone counts as done. Whether
\* the cluster is still in Git is not asked.
FinishLook(f) ==
    /\ fin[f] = "look"
    /\ \/ FinGoto(f, IF Exists THEN "swap" ELSE "done") /\ NoFailure
       \/ Failure /\ FinGoto(f, "failed")
    /\ UNCHANGED <<repo, connection, tracked, requests, marksPass>>

FinishSwap(f) ==
    /\ fin[f] = "swap"
    /\ \/ Exists /\ connection' = TakenOver /\ NoFailure
          /\ FinGoto(f, IF f[1] \in AdoptPR THEN "annotate" ELSE "unmark")
       \/ ((~Exists /\ NoFailure) \/ Failure) /\ FinGoto(f, "failed") /\ UNCHANGED connection
    /\ UNCHANGED <<repo, tracked, requests, marksPass>>

FinishAnnotate(f) ==
    /\ fin[f] = "annotate"
    /\ \/ Exists /\ connection' = [connection EXCEPT !.adopted = TRUE] /\ FinGoto(f, "unmark") /\ NoFailure
       \/ ((~Exists /\ NoFailure) \/ Failure) /\ FinGoto(f, "failed") /\ UNCHANGED connection
    /\ UNCHANGED <<repo, tracked, requests, marksPass>>

\* FinishClusterFollowUpOnMerge: nothing is taken off while the cluster is
\* back in Git.
NeverBackInGit == FALSE
BackInGit == inGit
FinishCheck(f) ==
    /\ fin[f] = "check"
    /\ \/ FinGoto(f, IF BackInGit THEN "drop" ELSE "strip") /\ NoFailure
       \/ Failure /\ FinGoto(f, "failed")
    /\ UNCHANGED <<repo, connection, tracked, requests, marksPass>>

\* Manager.Unadopt: a connection that is gone is an error.
FinishStrip(f) ==
    /\ fin[f] = "strip"
    /\ \/ Exists /\ connection' = Unadopted /\ NoFailure
          /\ FinGoto(f, IF git[f[1]] = "none" THEN "done" ELSE "unmark")
       \/ ((~Exists /\ NoFailure) \/ Failure) /\ FinGoto(f, "failed") /\ UNCHANGED connection
    /\ UNCHANGED <<repo, tracked, requests, marksPass>>

\* The pull request's mark comes off: a join is done even if it does not.
FinishUnmark(f) ==
    /\ fin[f] \in {"unmark", "drop"}
    /\ \/ Unmark(Key(f[1]), {f[1]}) /\ FinGoto(f, "done") /\ NoFailure
       \/ /\ Failure /\ UNCHANGED connection
          /\ FinGoto(f, IF fin[f] = "unmark" /\ f[1] \in Join THEN "done" ELSE "failed")
    /\ UNCHANGED <<repo, tracked, requests, marksPass>>

\* What runFinish stores; a request stores nothing.
FinishSettle(f) ==
    /\ fin[f] \in {"done", "failed"} /\ FinGoto(f, "idle")
    /\ LET p == f[1] IN
       \/ /\ f[2] = "tracker" /\ tracked[p] # NoEntry /\ NoFailure
          /\ \/ fin[f] = "done" /\ tracked' = [tracked EXCEPT ![p] = NoEntry]
             \/ /\ fin[f] = "failed"
                /\ \E g \in BOOLEAN : tracked' = [tracked EXCEPT ![p].gaveUp = g]
       \/ (f[2] = "request" \/ tracked[p] = NoEntry) /\ NoFailure /\ UNCHANGED tracked
       \/ f[2] = "tracker" /\ Failure /\ UNCHANGED tracked
    /\ UNCHANGED <<repo, connection, requests, marksPass>>

\* After thirty days: every other finish step has run or given up.
GaveUpEnds(p) ==
    /\ tracked[p] # NoEntry /\ tracked[p].gaveUp
    /\ \A f \in Finisher : fin[f] = "idle"
    /\ \A q \in PR : tracked[q] # NoEntry => tracked[q].gaveUp \/ tracked[q].status = "open"
    /\ ~HasMark("keep", Unnumbered)
    /\ tracked' = [tracked EXCEPT ![p] = NoEntry]
    /\ UNCHANGED <<repo, connection, requests, fin, marksPass, failures>>

----------------------------------------------------------------------------
(* The marks pass (FinishWaitingClusterMarks): it lists the Secrets once,  *)
(* and takes the marks in the order of PendingPRMarks.                     *)

Order == <<"adopt", "take", "keep">>
PassGoto(step, left) == tick' = step /\ listed' = left /\ number' = NoPR

\* A keep mark without a number is passed by until it is ten minutes old.
MarksList ==
    /\ tick = "idle" /\ Exists
    /\ LET taken == [k \in DOMAIN connection.mark |->
                       IF connection.mark[k] = Pending THEN NoMark ELSE connection.mark[k]]
       IN taken # Nothing /\ PassGoto("pass", taken)
    /\ UNCHANGED <<repo, connection, tracked, requests, fin, failures>>

Turn(key) ==
    /\ tick = "pass" /\ listed[key] # NoMark
    /\ \A i, j \in 1..3 : j < i /\ Order[i] = key => listed[Order[j]] = NoMark
Left(key) == [listed EXCEPT ![key] = NoMark]
Step(left) == IF left = Nothing THEN "idle" ELSE "pass"

\* A numbered mark is tracked again unless the tracker has its pull request.
MarksTrack ==
    /\ \E key \in DOMAIN listed :
        /\ Turn(key) /\ listed[key] \in PR
        /\ PassGoto(Step(Left(key)), Left(key))
        /\ LET p == listed[key] IN
           \/ tracked[p] = NoEntry /\ NoFailure
              /\ tracked' = [tracked EXCEPT ![p] = [status |-> git[p], gaveUp |-> FALSE]]
           \/ ((tracked[p] # NoEntry /\ NoFailure) \/ Failure) /\ UNCHANGED tracked
    /\ UNCHANGED <<repo, connection, requests, fin>>

\* settlePendingKeepMark.
MarksSettle ==
    /\ Turn("keep") /\ listed["keep"] = OldPending
    /\ LET waiting == {p \in UnadoptPR : tracked[p] # NoEntry} IN
       \/ \E p \in waiting : /\ \A q \in waiting : q <= p
                            /\ tick' = "setNumber" /\ listed' = Nothing /\ number' = p /\ NoFailure
       \/ waiting = {} /\ PassGoto(IF inGit THEN "takeOff" ELSE "giveBack", Nothing) /\ NoFailure
       \/ Failure /\ PassGoto("idle", Nothing)
    /\ UNCHANGED <<repo, connection, tracked, requests, fin>>

\* ReleaseKeptConnection takes the label off and leaves the adopted mark on.
Released ==
    IF Exists THEN [connection EXCEPT !.managed = FALSE,
                                  !.mark["keep"] = IF @ \in Unnumbered THEN NoMark ELSE @]
    ELSE connection
MarksWrite ==
    /\ tick \in {"setNumber", "takeOff", "giveBack"} /\ PassGoto("idle", Nothing)
    /\ \/ tick = "giveBack" /\ connection' = Released /\ NoFailure
       \/ tick = "takeOff" /\ Unmark("keep", Unnumbered) /\ NoFailure
       \/ /\ tick = "setNumber" /\ NoFailure
          /\ connection' = IF HasMark("keep", Unnumbered)
                       THEN [connection EXCEPT !.mark["keep"] = number] ELSE connection
       \/ Failure /\ UNCHANGED connection
    /\ UNCHANGED <<repo, tracked, requests, fin>>

----------------------------------------------------------------------------
(* People, time, and restarts.                                             *)

PersonMerges(p) == Merge(p) /\ UNCHANGED <<connection, tracked, requests, fin, marksPass, failures>>

PersonCloses(p) ==
    /\ \/ git[p] = "open" /\ git' = [git EXCEPT ![p] = "closed"]
       \/ git[p] = "merged" /\ p \in UnadoptPR /\ git' = [git EXCEPT ![p] = "gone"]
    /\ diff' = diff \ {p}
    /\ UNCHANGED <<inGit, crossed, connection, tracked, requests, fin, marksPass, failures>>

PersonDeletes ==
    /\ Exists /\ connection' = NoSecret
    /\ UNCHANGED <<repo, tracked, requests, fin, marksPass, failures>>

\* Ten minutes, which no request lasts.
MarkAges ==
    /\ HasMark("keep", {Pending}) /\ \A p \in UnadoptPR : ~Running(p)
    /\ connection' = [connection EXCEPT !.mark["keep"] = OldPending]
    /\ UNCHANGED <<repo, tracked, requests, fin, marksPass, failures>>

ServerRestarts ==
    /\ Failure
    /\ req' = [p \in PR |-> IF req[p] = "idle" THEN "idle" ELSE "done"]
    /\ found' = [p \in Join |-> NoPR] /\ marked' = {}
    /\ fin' = [f \in Finisher |-> "idle"]
    /\ PassGoto("idle", Nothing)
    /\ UNCHANGED <<repo, connection, tracked>>

----------------------------------------------------------------------------
Moves(p) ==
    \/ JoinFind(p) \/ JoinRemark(p) \/ JoinOpen(p) \/ JoinMark(p) \/ JoinTrack(p) \/ JoinMerge(p)
    \/ JoinSwap(p) \/ JoinAnnotate(p)
    \/ UnadoptPlan(p) \/ UnadoptLook(p) \/ UnadoptSetMark(p) \/ UnadoptOpen(p) \/ UnadoptTrack(p)
    \/ UnadoptMerge(p) \/ UnadoptNumber(p)

Asks(p) == JoinPreflight(p) \/ UnadoptCheck(p)
Tracker(p) == TrackerSees(p) \/ FinishStart(p) \/ GaveUpEnds(p)
Finishes(f) ==
    \/ FinishLook(f) \/ FinishSwap(f) \/ FinishAnnotate(f) \/ FinishCheck(f) \/ FinishStrip(f)
    \/ FinishUnmark(f) \/ FinishSettle(f)
Marks == MarksList \/ MarksTrack \/ MarksSettle \/ MarksWrite

AdoptionNext ==
    \/ \E p \in PR : Asks(p) \/ Moves(p) \/ Tracker(p) \/ PersonMerges(p) \/ PersonCloses(p)
    \/ \E f \in Finisher : Finishes(f)
    \/ Marks \/ MarkAges \/ PersonDeletes \/ ServerRestarts

AdoptionSpec == AdoptionInit /\ [][AdoptionNext]_adoptionVars

----------------------------------------------------------------------------
(* Properties.                                                             *)

\* Something that will look at the connection again: a request, a finish
\* step, a pull request that may merge or whose end somebody knows.
InHand ==
    \/ \E p \in PR : ~Over(p)
    \/ \E f \in Finisher : fin[f] # "idle"
    \/ tick \in {"setNumber", "takeOff", "giveBack"}

\* The orphan sweep deletes what carries Sharko's label and is not in Git, but
\* passes by what is marked adopted: the label is never there without the mark.
OutOfSweepsReach == ManagedBySharko => connection.adopted

\* A connection that is Sharko's is out of the sweep's reach, and belongs to a
\* cluster in Git and the other way round, or somebody still knows that it does
\* not: whichever call of adopt, take over, un-adopt, of their finish steps
\* (FinishTrackedPR) or of the marks pass failed or was cut off, and in whatever
\* order they ran.
OwnershipFollowsGit ==
    /\ OutOfSweepsReach
    /\ (Exists => (connection.managed <=> inGit)) \/ InHand \/ crossed
=============================================================================
