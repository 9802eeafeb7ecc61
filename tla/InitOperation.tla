--------------------------- MODULE InitOperation ---------------------------
(* Initialising the repository: POST /init creates an operation session and  *)
(* starts a worker for it that seeds the repository by a pull request, waits *)
(* for its merge, bootstraps ArgoCD and waits for the first sync.  Sessions  *)
(* are kept in memory; clients poll them, keep them alive and cancel them.   *)
(* internal/operations/store.go, internal/api/init.go.                       *)
EXTENDS Naturals

CONSTANTS
    Client,
    MaxSessions,  \* bound: sessions ever created
    MaxFaults,    \* bound: failed calls to Git or ArgoCD
    MaxRestarts   \* bound: restarts of the process

ASSUME InitConstants == MaxSessions \in Nat /\ MaxFaults \in Nat /\ MaxRestarts \in Nat

Session == 1..MaxSessions
Step == 1..6
Files == 1       \* Creating bootstrap files
Push  == 2       \* Pushing to branch
Pull  == 3       \* Creating pull request
Merge == 4       \* Waiting for PR merge
Boot  == 5       \* Bootstrapping ArgoCD
Sync  == 6       \* Waiting for sync

VARIABLES
    session,   \* the store of sessions: opsStore
    worker,    \* the goroutine of each session
    handler,   \* where the POST /init of each client is
    pull,      \* the pull request that a session opened
    main,      \* the base branch: empty, or set up in the layout of v3 or v4
    app,       \* the bootstrap application in ArgoCD
    faults, restarts

vars  == <<session, worker, handler, pull, main, app, faults, restarts>>
world == <<pull, main, app>>

Live     == {"pending", "running", "waiting"}
Ended    == {"completed", "failed", "cancelled"}
Statuses == {"none", "lost"} \cup Live \cup Ended

New(status) == [status |-> status, steps |-> [n \in Step |-> "pending"], current |-> Files]

\* expired: the thirty minutes of the worker's context are over.
Worker == [at : {"none", "start", "probe", "seed", "merge", "wait",
                 "poll", "gaveUp", "fail", "resume", "boot", "sync", "done"},
           auto : BOOLEAN, boot : BOOLEAN, expired : BOOLEAN]
NoWorker == [at |-> "none", auto |-> FALSE, boot |-> FALSE, expired |-> FALSE]

-----------------------------------------------------------------------------
(* The store: every operation is one step under its mutex, and none of them  *)
(* looks at the status that the session has.                                 *)

Started(x)   == [x EXCEPT !.status = "running", !.steps[Files] = "running"]

\* UpdateStep: a completed step starts the next one.
PastLast == 7
Last == 6
Update(x, status) ==
    LET y == [x EXCEPT !.steps[x.current] = status]
    IN  IF status = "completed" /\ x.current < Last
        THEN [y EXCEPT !.current = @ + 1, !.steps[x.current + 1] = "running"]
        ELSE y
Updated(x, n) ==
    LET after[k \in 0..n] == IF k = 0 THEN x ELSE Update(after[k - 1], "completed") IN after[n]

Failed(x)    == [x EXCEPT !.status = "failed",
                          !.steps[x.current] = IF @ = "running" THEN "failed" ELSE @]
Become(x, status) == [x EXCEPT !.status = status]

-----------------------------------------------------------------------------
Init ==
    /\ session = [s \in Session |-> New("none")]
    /\ worker = [s \in Session |-> NoWorker]
    /\ handler = [c \in Client |-> "idle"]
    /\ pull = [s \in Session |-> "none"]
    /\ main \in {"empty", "v3", "v4"}
    /\ app \in IF main = "empty" THEN {"absent"} ELSE {"absent", "degraded", "healthy"}
    /\ faults = 0
    /\ restarts = 0

Write(s, x)  == session' = [session EXCEPT ![s] = x]
Goto(s, at)  == worker' = [worker EXCEPT ![s] =
                    IF at = "done" THEN [@ EXCEPT !.at = at, !.auto = FALSE, !.expired = FALSE] ELSE [@ EXCEPT !.at = at]]
Fault        == faults < MaxFaults /\ faults' = faults + 1
Idle         == UNCHANGED <<faults, restarts>>

-----------------------------------------------------------------------------
(* Clients: handleInit looks for a waiting session, then for a running one,  *)
(* and then creates one; the three calls are not one.                        *)

FindWaiting(c) ==
    /\ handler[c] = "idle"
    /\ \A s \in Session : session[s].status # "waiting"
    /\ handler' = [handler EXCEPT ![c] = "running"]
    /\ UNCHANGED <<session, worker, world>> /\ Idle

FindRunning(c) ==
    /\ handler[c] = "running"
    /\ handler' = [handler EXCEPT ![c] = IF \E s \in Session : session[s].status = "running" THEN "idle" ELSE "create"]
    /\ UNCHANGED <<session, worker, world>> /\ Idle

Create(c) ==
    /\ handler[c] = "create"
    /\ handler' = [handler EXCEPT ![c] = "idle"]
    /\ \E s \in Session, auto, boot \in BOOLEAN :
          /\ session[s].status = "none"
          /\ \A t \in 1..(s - 1) : session[t].status # "none"
          /\ Write(s, New("pending"))
          /\ worker' = [worker EXCEPT ![s] = [at |-> "start", auto |-> auto, boot |-> boot, expired |-> FALSE]]
    /\ UNCHANGED world /\ Idle

Cancel(s) ==
    /\ session[s].status \notin {"none", "lost"}
    /\ Write(s, Become(session[s], "cancelled"))
    /\ UNCHANGED <<worker, handler, world>> /\ Idle

-----------------------------------------------------------------------------
(* The worker: runInitOperation.  A call and the store operations that       *)
(* record its outcome are one step where nobody could tell them apart.       *)

Works(s, at) == worker[s].at = at

Start(s) ==
    /\ Works(s, "start")
    /\ Write(s, Started(session[s]))
    /\ Goto(s, "probe")
    /\ UNCHANGED <<handler, world>> /\ Idle

\* A failed step ends the session and the worker.
Fails(s, x) ==
    /\ Write(s, Failed(Update(x, "failed")))
    /\ Goto(s, "done")
    /\ UNCHANGED <<handler, world, restarts>>

\* A call of the worker that fails: by itself, or because its context is over.
CallFails(s) ==
    /\ worker[s].at \in {"seed", "merge", "boot"}
    /\ IF worker[s].expired THEN UNCHANGED faults ELSE Fault
    /\ \E n \in IF Works(s, "seed") THEN {0, Files, Push} ELSE {0} : Fails(s, Updated(session[s], n))

Does(s, x, next) ==
    /\ ~worker[s].expired
    /\ Write(s, x)
    /\ Goto(s, next)
    /\ UNCHANGED handler /\ Idle

\* probeRepoStateWithBootstrapStatus: a read that fails counts as a file that
\* is not there.  A "degraded" application stands for every answer of ArgoCD
\* that ends the operation: unhealthy, unreachable, forbidden, unknown.
OneShort == 3
GitSteps == 4
Probe(s) ==
    /\ Works(s, "probe")
    /\ UNCHANGED world
    /\ \/ /\ main = "empty" \/ worker[s].expired
          /\ Goto(s, "seed")
          /\ UNCHANGED <<session, handler>> /\ Idle
       \/ /\ main # "empty" /\ app = "healthy"
          /\ Does(s, Become(Updated(session[s], Last), "completed"), "done")
       \/ /\ main # "empty" /\ app = "absent"
          /\ Does(s, Updated(session[s], GitSteps), "boot")
       \/ /\ main # "empty" /\ app = "degraded"
          /\ Does(s, Failed(session[s]), "done")

ProbeFails(s) ==
    /\ Works(s, "probe")
    /\ Fault
    /\ \/ Goto(s, "seed") /\ UNCHANGED session
       \/ main # "empty" /\ Goto(s, "done") /\ Write(s, Failed(session[s]))
    /\ UNCHANGED <<handler, world, restarts>>

\* CollectBootstrapFiles, CommitBootstrapFiles and CreateInitPR; without
\* auto-merge the session waits from here on.
Seed(s) ==
    /\ Works(s, "seed")
    /\ LET x == Updated(session[s], Pull)
       IN  IF worker[s].auto THEN Does(s, x, "merge") ELSE Does(s, Become(x, "waiting"), "wait")
    /\ pull' = [pull EXCEPT ![s] = "open"]
    /\ UNCHANGED <<main, app>>

Merges(s) ==
    /\ pull[s] = "open"
    /\ pull' = [pull EXCEPT ![s] = "settled"]
    /\ main' = "v4"
    /\ UNCHANGED app

\* The store operations between the merge and the next call.
AfterMerge(s, x) ==
    /\ UNCHANGED handler
    /\ IF worker[s].boot
       THEN Write(s, Update(x, "completed")) /\ Goto(s, "boot")
       ELSE Write(s, Become(Updated(x, Last - Merge + 1), "completed")) /\ Goto(s, "done")

AutoMerge(s) ==
    /\ Works(s, "merge")
    /\ ~worker[s].expired
    /\ Merges(s)
    /\ AfterMerge(s, session[s]) /\ Idle

\* Somebody closed or merged the pull request first.
MergeRefused(s) ==
    /\ Works(s, "merge")
    /\ pull[s] # "open"
    /\ Fails(s, session[s])
    /\ UNCHANGED faults

\* isPRMerged: the pin is on the base branch, by whatever pull request.
NotOpenAnyMore(s) == pull[s] # "open"
IsMerged(s) == main = "v4"

\* The first look of pollPRMerge is at the base branch only.
FirstLook(s) ==
    /\ Works(s, "wait")
    /\ Goto(s, IF IsMerged(s) /\ ~worker[s].expired THEN "resume" ELSE "poll")
    /\ UNCHANGED <<session, handler, world>> /\ Idle

\* pollPRMerge: cancelled, on the base branch, or out of time.  The deadline
\* of 24 hours is never reached: the context ends after thirty minutes.
Tick(s) ==
    /\ Works(s, "poll")
    /\ IF session[s].status = "cancelled" THEN Goto(s, "gaveUp")
       ELSE IsMerged(s) /\ ~worker[s].expired /\ Goto(s, "resume")
    /\ UNCHANGED <<session, handler, world>> /\ Idle

GoesOn(s) == Works(s, "poll") /\ worker[s].expired /\ UNCHANGED vars
ContextDone(s) ==
    /\ Works(s, "poll")
    /\ worker[s].expired
    /\ Goto(s, "gaveUp")
    /\ UNCHANGED <<session, handler, world>> /\ Idle

\* The client sent no heartbeat for two minutes: IsAlive.
Abandoned(s) ==
    /\ Works(s, "poll")
    /\ Goto(s, "gaveUp")
    /\ UNCHANGED <<session, handler, world>> /\ Idle

Returns(s) == TRUE
WasCancelled(s) == session[s].status = "cancelled"
GaveUp(s) ==
    /\ Works(s, "gaveUp")
    /\ Goto(s, IF WasCancelled(s) THEN "done" ELSE "fail")
    /\ UNCHANGED <<session, handler, world>> /\ Idle

Fail(s) ==
    /\ Works(s, "fail")
    /\ Write(s, Failed(session[s]))
    /\ Goto(s, "done")
    /\ UNCHANGED <<handler, world>> /\ Idle

Resume(s) ==
    /\ Works(s, "resume")
    /\ AfterMerge(s, Become(session[s], "running"))
    /\ UNCHANGED world /\ Idle

\* runBootstrapSteps.  An application that exists already stays as it is.
Bootstrap(s) ==
    /\ Works(s, "boot")
    /\ main = "v4"
    /\ Does(s, Update(session[s], "completed"), "sync")
    /\ app' = IF app = "absent" THEN "degraded" ELSE app
    /\ UNCHANGED <<pull, main>>

NoPin(s) ==
    /\ Works(s, "boot")
    /\ main # "v4"
    /\ Fails(s, session[s])
    /\ UNCHANGED faults

SeesSync(s) ==
    /\ Works(s, "sync")
    /\ app = "healthy"
    /\ Does(s, Become(Update(session[s], "completed"), "completed"), "done")
    /\ UNCHANGED world

\* Two minutes are over, the context is, or the sync failed.
NoSync(s) ==
    /\ Works(s, "sync")
    /\ app # "healthy" \/ worker[s].expired
    /\ Fails(s, session[s])
    /\ UNCHANGED faults

-----------------------------------------------------------------------------
(* People, ArgoCD, the clock and the process *)

PersonMerges(s) ==
    /\ Merges(s)
    /\ UNCHANGED <<session, worker, handler>> /\ Idle

PersonCloses(s) ==
    /\ pull[s] = "open"
    /\ pull' = [pull EXCEPT ![s] = "settled"]
    /\ UNCHANGED <<session, worker, handler, main, app>> /\ Idle

\* Only while a worker may look.
AppMoves ==
    /\ app # "absent"
    /\ \E s \in Session : worker[s].at \in {"probe", "sync"}
    /\ app' = IF app = "healthy" THEN "degraded" ELSE "healthy"
    /\ UNCHANGED <<session, worker, handler, pull, main>> /\ Idle

Expire(s) ==
    /\ worker[s].at \notin {"none", "done"}
    /\ ~worker[s].expired
    /\ worker' = [worker EXCEPT ![s].expired = TRUE]
    /\ UNCHANGED <<session, handler, world>> /\ Idle

Restart ==
    /\ restarts < MaxRestarts
    /\ restarts' = restarts + 1
    /\ session' = [s \in Session |-> IF session[s].status = "none" THEN session[s] ELSE New("lost")]
    /\ worker' = [s \in Session |-> NoWorker]
    /\ handler' = [c \in Client |-> "idle"]
    /\ UNCHANGED <<world, faults>>

Clients   == (\E c \in Client : FindWaiting(c) \/ FindRunning(c) \/ Create(c)) \/ (\E s \in Session : Cancel(s))
Seeds(s)  == Start(s) \/ Probe(s) \/ ProbeFails(s) \/ Seed(s) \/ AutoMerge(s)
                \/ MergeRefused(s) \/ CallFails(s)
Waits(s)  == FirstLook(s) \/ Tick(s) \/ ContextDone(s) \/ GaveUp(s) \/ Fail(s) \/ Resume(s)
Boots(s)  == Bootstrap(s) \/ NoPin(s) \/ SeesSync(s) \/ NoSync(s)
Proceeds(s) == Seeds(s) \/ Waits(s) \/ Boots(s)
Others    == (\E s \in Session : PersonMerges(s) \/ PersonCloses(s) \/ Abandoned(s) \/ Expire(s))
                \/ AppMoves \/ Restart

Next == Clients \/ (\E s \in Session : Proceeds(s)) \/ Others

Spec == Init /\ [][Next]_vars

-----------------------------------------------------------------------------
(* Properties *)

TypeOK ==
    /\ session \in [Session -> [status : Statuses, steps : [Step -> {"pending", "running", "completed", "failed"}], current : Step]]
    /\ worker \in [Session -> Worker]
    /\ handler \in [Client -> {"idle", "running", "create"}]
    /\ pull \in [Session -> {"none", "open", "settled"}]
    /\ main \in {"empty", "v3", "v4"}
    /\ app \in {"absent", "degraded", "healthy"}
    /\ faults \in 0..MaxFaults
    /\ restarts \in 0..MaxRestarts

\* What the wizard shows is what happened: on every way through the worker, a
\* session that says it is completed has all six steps done, and one that says
\* it failed has one failed step, with everything before it done and nothing
\* after it begun.
StepsTellTheOutcome ==
    \A s \in Session : LET x == session[s] IN
        /\ x.status = "completed" => \A n \in Step : x.steps[n] = "completed"
        /\ x.status = "failed" =>
              \A n \in Step : x.steps[n] = IF n < x.current THEN "completed"
                                           ELSE IF n = x.current THEN "failed" ELSE "pending"

\* No session is left for dead: while its status says that it goes on, a
\* worker is there to end it.  handleInit hands every later request a waiting
\* or running session, so a dead one would block initialisation until a restart.
NoDeadSession ==
    \A s \in Session : session[s].status \in Live => worker[s].at \notin {"none", "done"}

\* A completed session means a repository that is set up and, when a bootstrap
\* was part of it, a bootstrap application in ArgoCD: whoever's pull request
\* the worker saw merged, and whatever was cancelled in between.
CompletedMeansSetUp ==
    \A s \in Session : session[s].status = "completed" =>
        main # "empty" /\ (worker[s].boot => app # "absent")
=============================================================================
