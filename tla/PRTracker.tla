----------------------------- MODULE PRTracker -----------------------------
(***************************************************************************)
(* The pull request tracker (internal/prtracker/tracker.go) together with  *)
(* everything that calls it at the same time: the poll loop, the refresh   *)
(* handlers, the waiting-marks pass of the cluster reconciler, the request *)
(* that opens a pull request, and a user who stops tracking one.           *)
(*                                                                         *)
(* Every ConfigMap access goes through cmstore.ReadModifyWrite, which is   *)
(* serialised by a mutex, so one call is one atomic step; what happens     *)
(* between two calls is not atomic and is where the model interleaves.     *)
(* The `finishing' map lives in memory and is lost in a restart.           *)
(*                                                                         *)
(* Times are abstracted to what the code compares: a retry gap that is not *)
(* over yet (wait) and a keep time that is (old).                          *)
(***************************************************************************)
EXTENDS Naturals, FiniteSets

CONSTANTS
    PR,             \* pull requests Sharko may open
    MarkPR,         \* those whose operation puts a waiting mark on the Secret
    Refresher,      \* concurrent refresh handlers
    Poll,           \* the poll loop (one goroutine)
    MarksPass,      \* the waiting-marks pass (the reconciler goroutine)
    NoEntry, NoPR,
    MaxAttempts,    \* DefaultMaxFinishAttempts
    MaxFaults,      \* bound: restarts, failed store calls, Git errors
    MaxDrops        \* bound: times a user stops tracking a pull request

Worker == Refresher \cup {Poll, MarksPass}

ASSUME TrackerConstants ==
    /\ MarkPR \subseteq PR
    /\ Poll \notin Refresher /\ MarksPass \notin Refresher /\ Poll # MarksPass
    /\ NoPR \notin PR
    /\ MaxAttempts \in Nat /\ MaxAttempts >= 2
    /\ MaxFaults \in Nat
    /\ MaxDrops \in Nat

VARIABLES
    git,        \* what the Git provider answers for a pull request
    marked,     \* pull requests a waiting mark on a Secret names
    opener,     \* how far the request that opens the pull request is
    tracked,    \* the tracker's ConfigMap
    finishing,  \* the in-memory guard of runFinish
    pc, job,    \* where each worker is, and its local variables
    snap,       \* the poll loop's copy of the state, for the entries left
    expired,    \* given-up entries this poll pass drops at its end
    faults, drops,
    hooks, reports, tries   \* history, see below

\* History: hooks[p] and tries[p] count the runs of the hooks and of the
\* finish step since p was last claimed or tracked; reports[p] says the
\* hooks never ran for p, ran once, or ran more than once (2).
history == <<hooks, reports, tries>>
workers == <<pc, job, snap, expired, finishing>>
vars == <<git, marked, opener, tracked, workers, faults, drops, history>>

Terminal == {"merged", "closed"}

Entry == [status : {"open"} \cup Terminal, attempts : 0..MaxAttempts,
          wait : BOOLEAN, hooksPending : BOOLEAN, gone : BOOLEAN,
          gaveUp : BOOLEAN, old : BOOLEAN]

\* What the poll pass reads from its copy of an entry.
Copy == [status : {"open"} \cup Terminal, gaveUp : BOOLEAN, old : BOOLEAN]

ASSUME NoEntryIsNone == NoEntry \notin Entry /\ NoEntry \notin Copy

Job == [pr : PR \cup {NoPR}, status : {"open"} \cup Terminal, gone : BOOLEAN,
        wait : BOOLEAN, failed : BOOLEAN]

NoJob == [pr |-> NoPR, status |-> "open", gone |-> FALSE, wait |-> FALSE,
          failed |-> FALSE]

\* The steps during which a worker is inside runFinish, past its guard.
Section == {"read", "hooks", "clear", "gap", "call", "settle", "leave"}

Steps == Section \cup {"idle", "pass", "claim", "refresh", "ask", "retrack",
                       "finishNow", "enter"}

NewEntry(status, gone, hooksPending) ==
    [status |-> status, attempts |-> 0, wait |-> FALSE,
     hooksPending |-> hooksPending, gone |-> gone, gaveUp |-> FALSE,
     old |-> FALSE]

IsTracked(p) == tracked[p] # NoEntry
IsTerminal(p) == IsTracked(p) /\ tracked[p].status \in Terminal
IsFinishing(p) == IsTerminal(p) /\ ~tracked[p].gaveUp

\* What a status question answers: a pull request Git no longer knows is
\* handled as closed.
AnswerGoneStaysOpen(p) == IF git[p] = "gone" THEN "open" ELSE git[p]
Answer(p) == IF git[p] = "gone" THEN "closed" ELSE git[p]

TypeOK ==
    /\ git \in [PR -> {"none", "open", "merged", "closed", "gone"}]
    /\ marked \subseteq MarkPR
    /\ opener \in [PR -> {"idle", "mark", "track", "done"}]
    /\ tracked \in [PR -> Entry \cup {NoEntry}]
    /\ finishing \subseteq PR
    /\ pc \in [Worker -> Steps]
    /\ job \in [Worker -> Job]
    /\ \A w \in Worker : pc[w] \notin {"idle", "pass"} => job[w].pr \in PR
    /\ snap \in [PR -> Copy \cup {NoEntry}]
    /\ expired \subseteq PR
    /\ faults \in 0..MaxFaults
    /\ drops \in 0..MaxDrops
    /\ hooks \in [PR -> Nat]
    /\ reports \in [PR -> 0..2]
    /\ tries \in [PR -> Nat]

Init ==
    /\ git = [p \in PR |-> "none"]
    /\ marked = {}
    /\ opener = [p \in PR |-> "idle"]
    /\ tracked = [p \in PR |-> NoEntry]
    /\ finishing = {}
    /\ pc = [w \in Worker |-> "idle"]
    /\ job = [w \in Worker |-> NoJob]
    /\ snap = [p \in PR |-> NoEntry]
    /\ expired = {}
    /\ faults = 0
    /\ drops = 0
    /\ hooks = [p \in PR |-> 0]
    /\ reports = [p \in PR |-> 0]
    /\ tries = [p \in PR |-> 0]

----------------------------------------------------------------------------
(* Helpers for the steps.                                                  *)

Fault == faults < MaxFaults /\ faults' = faults + 1
NoFault == UNCHANGED faults

Goto(w, step) == pc' = [pc EXCEPT ![w] = step]

\* A worker is done with its pull request: the poll loop goes on with its
\* pass, every other worker is done.
Rest(w) == IF w = Poll THEN "pass" ELSE "idle"

Done(w) ==
    /\ Goto(w, Rest(w))
    /\ job' = [job EXCEPT ![w] = NoJob]

\* TrackPR writes the whole entry, whatever was there.
TrackPR(p, entry) ==
    /\ tracked' = [tracked EXCEPT ![p] = entry]
    /\ hooks' = [hooks EXCEPT ![p] = 0]
    /\ tries' = [tries EXCEPT ![p] = 0]
    /\ UNCHANGED reports

----------------------------------------------------------------------------
(* The request that opens a pull request (commitChangesWithMeta).          *)

OpenPR(p) ==
    /\ git[p] = "none" /\ opener[p] = "idle"
    /\ git' = [git EXCEPT ![p] = "open"]
    /\ opener' = [opener EXCEPT ![p] = IF p \in MarkPR THEN "mark" ELSE "track"]
    /\ UNCHANGED <<marked, tracked, workers, faults, drops, history>>

\* The waiting mark goes on before the pull request is tracked. A failed
\* mark is reported to the caller; the pull request is tracked all the same.
WriteMark(p) ==
    /\ opener[p] = "mark"
    /\ opener' = [opener EXCEPT ![p] = "track"]
    /\ \/ marked' = marked \cup {p} /\ NoFault
       \/ Fault /\ UNCHANGED marked
    /\ UNCHANGED <<git, tracked, workers, drops, history>>

TrackOpened(p) ==
    /\ opener[p] = "track"
    /\ opener' = [opener EXCEPT ![p] = "done"]
    /\ \/ TrackPR(p, NewEntry("open", FALSE, FALSE)) /\ NoFault
       \/ Fault /\ UNCHANGED <<tracked, history>>
    /\ UNCHANGED <<git, marked, workers, drops>>

\* People, or auto-merge, settle the pull request in Git; it may also
\* vanish there (deleted, or the repository was created again).
GitSettles(p) ==
    /\ \/ git[p] = "open" /\ \E s \in Terminal : git' = [git EXCEPT ![p] = s]
       \/ git[p] \notin {"none", "gone"} /\ git' = [git EXCEPT ![p] = "gone"]
    /\ UNCHANGED <<marked, opener, tracked, workers, faults, drops, history>>

\* DELETE on a pull request: StopTracking.
StopTracking(p) ==
    /\ IsTracked(p)
    /\ drops < MaxDrops
    /\ drops' = drops + 1
    /\ tracked' = [tracked EXCEPT ![p] = NoEntry]
    /\ UNCHANGED <<git, marked, opener, workers, faults, history>>

----------------------------------------------------------------------------
(* The poll loop (PollOnce).                                               *)

PollStart ==
    /\ pc[Poll] = "idle"
    /\ \E p \in PR : IsTracked(p)
    /\ Goto(Poll, "pass")
    /\ snap' = [p \in PR |->
                  IF IsTracked(p)
                  THEN [status |-> tracked[p].status, gaveUp |-> tracked[p].gaveUp,
                        old |-> tracked[p].old]
                  ELSE NoEntry]
    /\ expired' = {}
    /\ UNCHANGED <<git, marked, opener, tracked, job, finishing, faults, drops,
                   history>>

\* A given-up entry of the snapshot is only dropped once it is old enough.
PollGivenUp(p) ==
    /\ pc[Poll] = "pass"
    /\ snap[p] # NoEntry /\ snap[p].status \in Terminal /\ snap[p].gaveUp
    /\ expired' = IF snap[p].old THEN expired \cup {p} ELSE expired
    /\ snap' = [snap EXCEPT ![p] = NoEntry]
    /\ UNCHANGED <<git, marked, opener, tracked, pc, job, finishing, faults,
                   drops, history>>

\* Git already said merged or closed: only runFinish is still owed.
PollFinishing(p) ==
    /\ pc[Poll] = "pass"
    /\ snap[p] # NoEntry /\ snap[p].status \in Terminal /\ ~snap[p].gaveUp
    /\ Goto(Poll, "enter")
    /\ job' = [job EXCEPT ![Poll] = [NoJob EXCEPT !.pr = p, !.status = snap[p].status]]
    /\ snap' = [snap EXCEPT ![p] = NoEntry]
    /\ UNCHANGED <<git, marked, opener, tracked, expired, finishing, faults,
                   drops, history>>

\* An open entry: ask Git. A transient error leaves the entry for the next
\* pass; an open answer only refreshes the time it was polled.
PollOpen(p) ==
    /\ pc[Poll] = "pass"
    /\ snap[p] # NoEntry /\ snap[p].status = "open"
    /\ snap' = [snap EXCEPT ![p] = NoEntry]
    /\ \/ /\ Answer(p) \in Terminal
          /\ Goto(Poll, "claim")
          /\ job' = [job EXCEPT ![Poll] =
                        [NoJob EXCEPT !.pr = p, !.status = Answer(p),
                                      !.gone = (git[p] = "gone")]]
          /\ NoFault
       \/ /\ Answer(p) \notin Terminal
          /\ NoFault
          /\ UNCHANGED <<pc, job>>
       \/ Fault /\ UNCHANGED <<pc, job>>
    /\ UNCHANGED <<git, marked, opener, tracked, expired, finishing, drops,
                   history>>

\* The last write of the pass drops the expired entries that still are
\* given up in the state as it is now.
DropsExpiredUnseen(p) == p \in expired
DropsExpired(p) == p \in expired /\ IsTracked(p) /\ tracked[p].gaveUp

PollEnd ==
    /\ pc[Poll] = "pass"
    /\ \A p \in PR : snap[p] = NoEntry
    /\ Goto(Poll, "idle")
    /\ expired' = {}
    /\ \/ /\ tracked' = [p \in PR |->
                           IF DropsExpired(p) THEN NoEntry ELSE tracked[p]]
          /\ NoFault
       \/ Fault /\ UNCHANGED tracked
    /\ UNCHANGED <<git, marked, opener, job, snap, finishing, drops, history>>

----------------------------------------------------------------------------
(* A refresh handler (PollSinglePR).                                       *)

\* Git is asked first; the answer is used in a later step.
Refresh(w, p) ==
    /\ w \in Refresher /\ pc[w] = "idle"
    /\ git[p] # "none"
    /\ Goto(w, IF Answer(p) \in Terminal THEN "claim" ELSE "refresh")
    /\ job' = [job EXCEPT ![w] = [NoJob EXCEPT !.pr = p, !.status = Answer(p),
                                               !.gone = (git[p] = "gone")]]
    /\ UNCHANGED <<git, marked, opener, tracked, snap, expired, finishing,
                   faults, drops, history>>

\* The open answer is stored unless the entry became terminal meanwhile.
TakesOpenAlways(p) == IsTracked(p)
TakesOpen(p) == IsTracked(p) /\ ~IsTerminal(p)

RefreshOpen(w) ==
    /\ pc[w] = "refresh"
    /\ Done(w)
    /\ LET p == job[w].pr IN
       \/ /\ TakesOpen(p)
          /\ tracked' = [tracked EXCEPT ![p].status = job[w].status]
          /\ NoFault
       \/ ~TakesOpen(p) /\ NoFault /\ UNCHANGED tracked
       \/ Fault /\ UNCHANGED tracked
    /\ UNCHANGED <<git, marked, opener, snap, expired, finishing, drops,
                   history>>

----------------------------------------------------------------------------
(* The waiting-marks pass (trackWaitingMark, then FinishNow).              *)

\* A numbered mark whose pull request is not tracked; Git is asked next.
MarksSee(p) ==
    /\ pc[MarksPass] = "idle"
    /\ p \in marked /\ ~IsTracked(p)
    /\ Goto(MarksPass, "ask")
    /\ job' = [job EXCEPT ![MarksPass] = [NoJob EXCEPT !.pr = p]]
    /\ UNCHANGED <<git, marked, opener, tracked, snap, expired, finishing,
                   faults, drops, history>>

MarksAsk ==
    /\ pc[MarksPass] = "ask"
    /\ LET p == job[MarksPass].pr IN
       \/ /\ Goto(MarksPass, "retrack")
          /\ job' = [job EXCEPT ![MarksPass].status = Answer(p),
                                ![MarksPass].gone = (git[p] = "gone")]
          /\ NoFault
       \/ Fault /\ Done(MarksPass)
    /\ UNCHANGED <<git, marked, opener, tracked, snap, expired, finishing,
                   drops, history>>

\* The entry is written whole. The hooks are owed only for one Git no longer
\* knows; a merged or closed one starts with its finish step.
MarksTrack ==
    /\ pc[MarksPass] = "retrack"
    /\ LET j == job[MarksPass] IN
       \/ /\ TrackPR(j.pr, NewEntry(j.status, j.gone, j.gone))
          /\ Goto(MarksPass, "finishNow")
          /\ NoFault /\ UNCHANGED job
       \/ /\ Fault /\ Done(MarksPass)
          /\ UNCHANGED <<tracked, history>>
    /\ UNCHANGED <<git, marked, opener, snap, expired, finishing, drops>>

FinishNow ==
    /\ pc[MarksPass] = "finishNow"
    /\ LET p == job[MarksPass].pr IN
       \/ /\ IsFinishing(p)
          /\ Goto(MarksPass, "enter")
          /\ job' = [job EXCEPT ![MarksPass].status = tracked[p].status]
          /\ NoFault
       \/ /\ ~IsFinishing(p)
          /\ Done(MarksPass)
          /\ NoFault
       \/ Fault /\ Done(MarksPass)
    /\ UNCHANGED <<git, marked, opener, tracked, snap, expired, finishing,
                   drops, history>>

----------------------------------------------------------------------------
(* claimTerminal and handleTerminal.                                       *)

\* Only the first caller to see the outcome claims it and goes on.
ClaimableTwice(p) == IsTracked(p)
Claimable(p) == IsTracked(p) /\ ~IsTerminal(p)

ClaimedWithoutHooks(e, status, gone) ==
    [e EXCEPT !.status = status, !.attempts = 0, !.wait = FALSE, !.gone = gone]
Claimed(e, status, gone) ==
    [e EXCEPT !.status = status, !.attempts = 0, !.wait = FALSE, !.gone = gone,
              !.hooksPending = TRUE]

\* The history starts again for an outcome that was not known before.
NewOutcome(p) ==
    /\ hooks' = [hooks EXCEPT ![p] = IF IsTerminal(p) THEN @ ELSE 0]
    /\ tries' = [tries EXCEPT ![p] = IF IsTerminal(p) THEN @ ELSE 0]
    /\ UNCHANGED reports

Claim(w) ==
    /\ pc[w] = "claim"
    /\ LET p == job[w].pr IN
       \/ /\ Claimable(p)
          /\ tracked' = [tracked EXCEPT ![p] =
                            Claimed(@, job[w].status, job[w].gone)]
          /\ NewOutcome(p)
          /\ Goto(w, "enter")
          /\ NoFault /\ UNCHANGED job
       \/ /\ ~Claimable(p)
          /\ Done(w)
          /\ NoFault /\ UNCHANGED <<tracked, history>>
       \/ /\ Fault /\ Done(w)
          /\ UNCHANGED <<tracked, history>>
    /\ UNCHANGED <<git, marked, opener, snap, expired, finishing, drops>>

----------------------------------------------------------------------------
(* runFinish, one step per access to shared state.                         *)

\* The in-memory guard: a second run for the same pull request returns.
NeverBusy(p) == FALSE
Busy(p) == p \in finishing

FinishEnter(w) ==
    /\ pc[w] = "enter"
    /\ IF Busy(job[w].pr)
       THEN Done(w) /\ UNCHANGED finishing
       ELSE /\ finishing' = finishing \cup {job[w].pr}
            /\ Goto(w, "read")
            /\ UNCHANGED job
    /\ UNCHANGED <<git, marked, opener, tracked, snap, expired, faults, drops,
                   history>>

\* The entry as stored now decides what is owed.
OwedEvenGivenUp(p, status) == IsTracked(p) /\ tracked[p].status = status
Owed(p, status) ==
    IsTracked(p) /\ tracked[p].status = status /\ ~tracked[p].gaveUp

FinishRead(w) ==
    /\ pc[w] = "read"
    /\ LET p == job[w].pr
           owed == Owed(p, job[w].status)
       IN \/ /\ owed
             /\ Goto(w, IF tracked[p].hooksPending THEN "hooks" ELSE "gap")
             /\ job' = [job EXCEPT ![w].wait = tracked[p].wait]
             /\ NoFault
          \/ /\ ~owed
             /\ Goto(w, "leave")
             /\ NoFault /\ UNCHANGED job
          \/ Fault /\ Goto(w, "leave") /\ UNCHANGED job
    /\ UNCHANGED <<git, marked, opener, tracked, snap, expired, finishing,
                   drops, history>>

\* The audit entry, the branch, the merge and the complete hook.
RunHooks(w) ==
    /\ pc[w] = "hooks"
    /\ Goto(w, "clear")
    /\ hooks' = [hooks EXCEPT ![job[w].pr] = @ + 1]
    /\ reports' = [reports EXCEPT ![job[w].pr] = IF @ = 0 THEN 1 ELSE 2]
    /\ UNCHANGED <<git, marked, opener, tracked, job, snap, expired, finishing,
                   faults, drops, tries>>

HooksStayPending(e) == e
HooksCleared(e) == [e EXCEPT !.hooksPending = FALSE]

\* A failed write here is only logged: the finish step goes on.
ClearHooks(w) ==
    /\ pc[w] = "clear"
    /\ Goto(w, "gap")
    /\ LET p == job[w].pr IN
       \/ /\ IsTracked(p)
          /\ tracked' = [tracked EXCEPT ![p] = HooksCleared(@)]
          /\ NoFault
       \/ ~IsTracked(p) /\ NoFault /\ UNCHANGED tracked
       \/ Fault /\ UNCHANGED tracked
    /\ UNCHANGED <<git, marked, opener, job, snap, expired, finishing, drops,
                   history>>

\* now.Before(NextFinishAt): a failed try was too recent.
FinishGap(w) ==
    /\ pc[w] = "gap"
    /\ Goto(w, IF job[w].wait THEN "leave" ELSE "call")
    /\ UNCHANGED <<git, marked, opener, tracked, job, snap, expired, finishing,
                   faults, drops, history>>

\* finishFn: a finish that works takes its own waiting mark off.
FinishCall(w) ==
    /\ pc[w] = "call"
    /\ Goto(w, "settle")
    /\ tries' = [tries EXCEPT ![job[w].pr] = @ + 1]
    /\ \E failed \in BOOLEAN :
          /\ job' = [job EXCEPT ![w].failed = failed]
          /\ marked' = IF failed THEN marked ELSE marked \ {job[w].pr}
    /\ UNCHANGED <<git, opener, tracked, snap, expired, finishing, faults,
                   drops, hooks, reports>>

\* One more failed try: the last one gives up and keeps the entry so.
GivesUpOneLate(e) ==
    LET n == e.attempts + 1 IN
    IF n > MaxAttempts
    THEN [e EXCEPT !.attempts = n, !.gaveUp = TRUE, !.wait = FALSE]
    ELSE [e EXCEPT !.attempts = n, !.wait = TRUE]
AfterFailedTry(e) ==
    LET n == e.attempts + 1 IN
    IF n >= MaxAttempts
    THEN [e EXCEPT !.attempts = n, !.gaveUp = TRUE, !.wait = FALSE]
    ELSE [e EXCEPT !.attempts = n, !.wait = TRUE]

FinishSettle(w) ==
    /\ pc[w] = "settle"
    /\ Goto(w, "leave")
    /\ LET p == job[w].pr IN
       \/ /\ IsTracked(p)
          /\ tracked' = [tracked EXCEPT ![p] =
                            IF job[w].failed THEN AfterFailedTry(@) ELSE NoEntry]
          /\ NoFault
       \/ ~IsTracked(p) /\ NoFault /\ UNCHANGED tracked
       \/ Fault /\ UNCHANGED tracked
    /\ UNCHANGED <<git, marked, opener, job, snap, expired, finishing, drops,
                   history>>

GuardKept(p) == finishing
GuardDropped(p) == finishing \ {p}

\* The deferred end of runFinish.
FinishLeave(w) ==
    /\ pc[w] = "leave"
    /\ finishing' = GuardDropped(job[w].pr)
    /\ Done(w)
    /\ UNCHANGED <<git, marked, opener, tracked, snap, expired, faults, drops,
                   history>>

----------------------------------------------------------------------------
(* Time, and restarts.                                                     *)

\* FinishRetryGap after a failed try is over, for the stored entry and for
\* every copy a worker or the poll pass holds.
GapElapses(p) ==
    /\ IsTracked(p) /\ tracked[p].wait
    /\ tracked' = [tracked EXCEPT ![p].wait = FALSE]
    /\ job' = [w \in Worker |-> IF job[w].pr = p
                                THEN [job[w] EXCEPT !.wait = FALSE] ELSE job[w]]
    /\ UNCHANGED <<git, marked, opener, pc, snap, expired, finishing, faults,
                   drops, history>>

\* GaveUpKeepFor is over.
KeepElapses(p) ==
    /\ IsTracked(p) /\ tracked[p].gaveUp /\ ~tracked[p].old
    /\ tracked' = [tracked EXCEPT ![p].old = TRUE]
    /\ UNCHANGED <<git, marked, opener, workers, faults, drops, history>>

\* The process stops and starts again: only Git, the Secrets and the
\* ConfigMap survive.
Restart ==
    /\ Fault
    /\ pc' = [w \in Worker |-> "idle"]
    /\ job' = [w \in Worker |-> NoJob]
    /\ snap' = [p \in PR |-> NoEntry]
    /\ expired' = {}
    /\ finishing' = {}
    /\ opener' = [p \in PR |-> IF opener[p] = "idle" THEN "idle" ELSE "done"]
    /\ UNCHANGED <<git, marked, tracked, drops, history>>

----------------------------------------------------------------------------
RunFinish(w) ==
    \/ FinishEnter(w) \/ FinishRead(w) \/ RunHooks(w) \/ ClearHooks(w)
    \/ FinishGap(w) \/ FinishCall(w) \/ FinishSettle(w) \/ FinishLeave(w)

WorkerStep(w) == Claim(w) \/ RefreshOpen(w) \/ RunFinish(w)

PollPass ==
    \/ PollStart \/ PollEnd
    \/ \E p \in PR : PollGivenUp(p) \/ PollFinishing(p) \/ PollOpen(p)

MarksStep == MarksAsk \/ MarksTrack \/ FinishNow

RequestStep(p) == OpenPR(p) \/ WriteMark(p) \/ TrackOpened(p)

Next ==
    \/ \E p \in PR : \/ RequestStep(p) \/ GitSettles(p) \/ StopTracking(p)
                     \/ MarksSee(p) \/ GapElapses(p) \/ KeepElapses(p)
    \/ \E w \in Refresher, p \in PR : Refresh(w, p)
    \/ \E w \in Worker : WorkerStep(w)
    \/ PollPass
    \/ MarksStep
    \/ Restart

Spec == Init /\ [][Next]_vars

----------------------------------------------------------------------------
(* Safety.                                                                 *)

InSection(w) == pc[w] \in Section

\* Two runs of runFinish for one pull request never overlap, whichever of
\* the poll loop, a refresh and the marks pass started them, so the finish
\* step never runs twice at the same time on one cluster connection.
OneFinishPerPR ==
    \A v, w \in Worker :
        InSection(v) /\ InSection(w) /\ job[v].pr = job[w].pr => v = w

\* The merge and complete hooks of one outcome run once, and once more for
\* each restart or failed write that came between them and their record.
HooksOncePerOutcome == \A p \in PR : hooks[p] <= 1 + faults

\* The finish step is only called when it is due: not for an entry Sharko
\* gave up on, and not inside the retry gap, even when another worker
\* failed a try after this one was started from an older copy.
FinishOnlyWhenDue ==
    \A w \in Worker : pc[w] = "call" /\ IsTracked(job[w].pr) =>
        ~tracked[job[w].pr].gaveUp /\ ~tracked[job[w].pr].wait

\* The finish step of one outcome is tried at most maxFinishAttempts times,
\* and once more for each restart or failed write that lost the count.
TriesWithinBudget == \A p \in PR : tries[p] <= MaxAttempts + faults

\* A pull request that only the request itself puts in the tracker has its
\* merge or close reported by the hooks before its finish step runs, also
\* when a restart came between the claim and the hooks.
HooksBeforeFinish ==
    \A w \in Worker : pc[w] = "call" /\ job[w].pr \notin MarkPR =>
        reports[job[w].pr] > 0

\* A stored merged or closed status is final: a status answer that was read
\* before the pull request settled never takes it back. (A pull request with
\* a waiting mark is excepted: the marks pass writes the whole entry from an
\* answer it read earlier over whatever is there by then.)
TerminalStays ==
    [][\A p \in PR \ MarkPR : IsTerminal(p) /\ tracked'[p] # NoEntry =>
              tracked'[p].status = tracked[p].status]_vars

\* An entry only leaves the tracker when its finish step worked, when it is
\* given up, or when a user stops tracking it: one that was tracked again
\* while a poll pass runs is never lost to what the pass read before.
OnlyFinishedIsForgotten ==
    [][\A p \in PR : IsTracked(p) /\ tracked'[p] = NoEntry =>
          \/ \E w \in Worker : /\ pc[w] = "settle" /\ job[w].pr = p
                              /\ ~job[w].failed
          \/ tracked[p].gaveUp
          \/ drops' # drops]_vars

----------------------------------------------------------------------------
(* The inductive invariant of the proofs (PRTracker_proofs).               *)

\* A pull request someone asks about was opened, and only one whose operation
\* has a waiting mark waits for it.
GitKnown ==
    /\ \A p \in PR : opener[p] = "mark" => p \in MarkPR
    /\ \A p \in PR : opener[p] # "idle" \/ p \in marked => git[p] # "none"
    /\ pc[MarksPass] = "ask" => git[job[MarksPass].pr] # "none"

\* A worker inside runFinish holds the guard.
Guarded == \A w \in Worker : InSection(w) => job[w].pr \in finishing

\* Only a given-up entry has used all its tries.
TriesLeft ==
    \A p \in PR : IsTracked(p) /\ ~tracked[p].gaveUp =>
        tracked[p].attempts < MaxAttempts

\* What FinishRead saw stays true while the guard is held.
StillDue ==
    \A w \in Worker :
        LET e == tracked[job[w].pr] IN
        pc[w] \in {"hooks", "clear", "gap", "call", "settle"} /\ e # NoEntry =>
            /\ ~e.gaveUp
            /\ pc[w] # "settle" /\ e.wait => pc[w] # "call" /\ job[w].wait

IInv ==
    /\ TypeOK
    /\ GitKnown
    /\ Guarded
    /\ OneFinishPerPR
    /\ TriesLeft
    /\ StillDue

(* The inductive invariant of PRTracker_outcome_proofs, on top of IInv.    *)

\* Only the request itself tracks a pull request without a waiting mark, as
\* its last step.
TrackedOnce == \A p \in PR \ MarkPR : opener[p] # "done" => ~IsTracked(p)

\* The marks pass only writes entries of pull requests with a waiting mark.
MarksOnly == pc[MarksPass] \in {"ask", "retrack"} => job[MarksPass].pr \in MarkPR

\* A worker claims and finishes merged and closed outcomes only.
OutcomeKnown ==
    \A w \in Worker :
        /\ pc[w] \in Section \cup {"claim", "enter"} => job[w].status \in Terminal
        /\ pc[w] = "refresh" => job[w].status = "open"

\* An outcome that no longer owes its hooks was reported.
HooksRecorded ==
    \A p \in PR \ MarkPR :
        IsTerminal(p) /\ ~tracked[p].hooksPending => reports[p] > 0

\* So was one whose runFinish is past them.
HooksBehind ==
    \A w \in Worker :
        /\ pc[w] = "clear" => reports[job[w].pr] > 0
        /\ pc[w] \in {"gap", "call"} /\ job[w].pr \notin MarkPR =>
              reports[job[w].pr] > 0

OInv ==
    /\ TrackedOnce
    /\ MarksOnly
    /\ OutcomeKnown
    /\ HooksRecorded
    /\ HooksBehind

(* And the one about the budget of tries, also on top of IInv.             *)

\* Every call of the finish step is a counted failed try, is being settled,
\* or was lost in a fault.
Settling(p) == \E w \in Worker : pc[w] = "settle" /\ job[w].pr = p

CallsCounted ==
    \A p \in PR : IsTracked(p) =>
        \/ tries[p] <= tracked[p].attempts + faults
        \/ Settling(p) /\ tries[p] <= tracked[p].attempts + faults + 1

\* A run that has not called yet finds one try unused.
CallLeft ==
    \A w \in Worker : pc[w] \in {"hooks", "clear", "gap", "call"} =>
        tries[job[w].pr] < MaxAttempts + faults

BInv == CallsCounted /\ CallLeft /\ TriesWithinBudget

(* And the one about the runs of the hooks, on top of IInv as well.        *)

\* An outcome that owes its hooks has not had them, but for a run whose
\* record is being written or was lost in a fault.
Reporting(p) == \E w \in Worker : pc[w] = "clear" /\ job[w].pr = p

RunsRecorded ==
    \A p \in PR : IsTracked(p) /\ tracked[p].hooksPending =>
        \/ hooks[p] <= faults
        \/ Reporting(p) /\ hooks[p] <= faults + 1

\* Nor has one whose hooks are about to run.
RunLeft == \A w \in Worker : pc[w] = "hooks" => hooks[job[w].pr] <= faults

HInv == RunsRecorded /\ RunLeft /\ HooksOncePerOutcome
=============================================================================
