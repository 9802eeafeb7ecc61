# A TLA+ verification of Sharko

Sharko manages the addons of a fleet of Kubernetes clusters through ArgoCD. It
owns a Git repository of YAML files (`configuration/managed-clusters.yaml` and
the addon catalog), changes it only through pull requests, and keeps one ArgoCD
cluster Secret per registered cluster. Git is the desired state, the Secrets are
the live state, and almost everything that is hard in Sharko is the time in
between: a pull request is open, a person or auto-merge settles it later, and
only then the live half of the operation may be done.

This directory models that time in between: who may finish an operation, what
may be deleted meanwhile, and what is lost when two parties work from what they
read a moment ago.

## 1. The system

### Components, their state and their operations

| component | code | state it keeps | operations | what makes it correct |
| --- | --- | --- | --- | --- |
| pull request tracker | `internal/prtracker` | ConfigMap of tracked pull requests (status, failed tries, retry gap, hooks owed, given up); an in-memory `finishing` guard | `TrackPR`, `StopTracking`, poll pass, `PollSinglePR`, `FinishNow`, `runFinish` | each outcome is claimed once, reported, finished, retried a bounded number of times, and never forgotten unfinished |
| waiting marks | `internal/api/waiting_marks.go`, annotations on the ArgoCD Secret | "keep this connection for pull request N" | put on before the pull request is tracked, taken off when it settled, settled by a pass of the reconciler | a kept connection is never deleted; no mark stays for ever |
| orchestrator | `internal/orchestrator` | the Git mutex; otherwise stateless between requests | register, remove, adopt, unadopt, update a cluster; enable, disable, upgrade addons; initialise the repository | plan, Git change, and live change agree; a failed step leaves something a retry completes |
| cluster reconciler | `internal/clusterreconciler` | none between ticks but caches | tick: marks pass, read Git, list Secrets, create the missing, delete the orphans, clear marks | only deletes what is Sharko's, not in Git, and promised to nobody |
| ArgoCD Secrets | `internal/argosecrets` | cluster Secrets and their annotations | `Ensure` (create, adopt, update), `Delete`, `ReleaseKeptConnection`, annotation edits | never touches another owner's Secret |
| ConfigMap store | `internal/cmstore` | one JSON document per ConfigMap | `ReadModifyWrite`, `Read` | writes of one process are serialised, a conflict with another writer fails the call |
| operation store | `internal/operations` | in-memory sessions of long operations (initialise the repository) | create, start, step, wait, resume, complete, fail, cancel, heartbeat | what a session says is what happened, and none is left without its worker |
| addon secrets reconciler | `internal/secrets` | remote Secrets on each cluster | periodic reconcile, delete on removal | a cluster keeps exactly the Secrets of its addons |
| settings, notifications, audit, observations, change log, read cache | `internal/settings`, `notifications`, `audit`, `observations`, `changelog`, `readcache` | bounded lists and caches | append, read, prune, refresh | bounds hold, nothing is reordered or served stale past its time |
| authentication and authorisation | `internal/auth`, `internal/authz` | users, sessions and tokens | login, token create and revoke, role checks | what was answered of a token is what is saved and checked |
| catalog, schema, providers, helm, ai, demo, verify, diagnose, ... | the rest of `internal/` | none, or caches of outside data | parsing, calls to outside systems | functional, not stateful |
| REST server and wiring | `internal/api`, `cmd/sharko/serve.go` | none of its own | handlers that call the above; which function follows a merged pull request | the follow-up matches the operation |
| web interface, charts, docs | `ui/`, `charts/`, `docs/` | none | | |

### How they interact

* A request handler calls the orchestrator. The orchestrator reads Git, decides,
  takes the Git mutex, creates a branch, writes whole files, opens a pull
  request, puts a waiting mark on a Secret where the operation needs one, tracks
  the pull request, merges it when auto-merge is on, and releases the mutex.
* The tracker's poll loop asks Git for every open tracked pull request. On the
  first answer "merged" or "closed" it claims the outcome, runs the hooks (audit
  entry, branch deletion, change log, fan-out) and then the finish step. A
  refresh handler does the same for one pull request at any time, and so does
  the marks pass.
* The finish step (`FinishClusterFollowUpOnMerge`) does the live half: it
  deletes addon Secrets and the connection, or hands a kept connection back.
* The cluster reconciler ticks in its own goroutine: it settles waiting marks,
  reads Git, lists the Secrets, creates what is missing and deletes orphans.
* All of these touch the same Secrets without a common lock.

### What is hard

1. One pull request is seen as merged by the poll loop, refresh handlers and the
   marks pass at the same moment.
2. An answer from Git is used after the state it described has changed.
3. A restart, or a failed ConfigMap write, between any two of claim, hooks,
   record, finish and settle.
4. The tracker write of a pull request fails after the pull request was opened.
5. The sweep works from a list it read earlier, while people put marks on
   Secrets, strip labels, open pull requests and merge them.
6. Registry files are read outside the Git mutex and written whole inside it.
7. A removal waits for its pull request while the same cluster is registered
   again.

`PROJECT.json` lists each of these hazards at its line.

## 2. The modules

| module | models | state it keeps | run by |
| --- | --- | --- | --- |
| `PRTracker` | the pull request tracker and its callers | entries, in-memory guard, workers | `MCPRTracker` |
| `ClusterConnection` | one cluster's ArgoCD connection between requests, tracker, finish steps and reconciler | Secret, pull requests, tick, finish steps | `MCClusterConnection` |
| `GitWrites` | how the operations on clusters, addons and the catalog change Git | files of the base branch, mutex, requests, pull requests | `MCGitWrites` |
| `InitOperation` | operation sessions and the worker that initialises the repository | sessions, workers, pull request, application | `MCInitOperation` |
| `AdoptedConnection` | one cluster's connection that adopt, take over and un-adopt work on | Secret, pull requests, finish steps, marks pass | `MCClusterSide` |
| `AddonSecrets` | addon Secrets of one cluster: push, scan, record, delete | Secrets, namespace record, leftovers | `MCClusterSide`, `MCAddonSecrets` |
| `ConfigMapStore`, `AtomicStore` | the ConfigMap store, and what it promises | ConfigMap with its version, callers | `MCSavedState` |
| `SavedList`, `ConnectionBell` | a list kept in memory and in a ConfigMap (notifications, change log); the bell over it | both copies, poller | `MCSavedState`, `MCSavedList` |
| `ApiTokens` | API tokens in memory and in their Secret | the map of each process, the Secret, changes under way | `MCSavedState` |

The modules meet at their edges. The finish step that `PRTracker` takes for one
step that works or fails is `FinishCheck` ... `FinishDrop` of
`ClusterConnection`, which in turn has the tracker reduced to one status for each
pull request. The pull requests whose merge `ClusterConnection` takes for a
change of one flag are those of `GitWrites`, with all their files. A ConfigMap
access that `PRTracker` and `SavedList` take for one step that may fail is a call
of `ConfigMapStore`; that this is right is `ImplementsAtomicStore`, checked and
proved. `AdoptedConnection` is the other half of `ClusterConnection`: the flows by
which a connection joins and leaves without being made or deleted by Sharko. The
two share the Secret, the tracker and the marks pass in the code, and are modelled
apart because together they are out of reach of a check; neither has a request of
the other's under way.

### PRTracker

`PRTracker.tla` models `internal/prtracker/tracker.go` with the three parties
that call it: the request that opens a pull request (`commitChangesWithMeta`),
the refresh handlers, and the marks pass (`trackWaitingMark`, `FinishNow`).
Every ConfigMap access goes through `cmstore.ReadModifyWrite` or `Read`, which
hold a mutex (a version conflict fails the call, which is a fault here), so a
call is one atomic action;
everything between two calls is interleaved. `tracked` is the ConfigMap,
`finishing` the in-memory map, `snap` the poll pass's copy, and `job` the local
variables of each worker (poll loop, marks pass, each refresh handler), whose
place in the code is `pc`. Times are reduced to the two comparisons the code
makes (`wait`: inside the retry gap; `old`: kept long enough after giving up).

| action | code |
| --- | --- |
| `OpenPR`, `WriteMark`, `TrackOpened` | `commitChangesWithMeta` after the branch is written |
| `PollStart`, `PollGivenUp`, `PollFinishing`, `PollOpen`, `PollEnd` | `PollOnce` |
| `Refresh`, `RefreshOpen` | `PollSinglePR` |
| `Claim` | `claimTerminal` as `handleTerminal` uses it |
| `FinishEnter` ... `FinishLeave` | `runFinish`, one action per access |
| `MarksSee`, `MarksAsk`, `MarksTrack`, `FinishNow` | `trackWaitingMark` and `FinishNow` |
| `StopTracking`, `GitSettles`, `GapElapses`, `KeepElapses`, `Restart` | the user, Git, time, and the process |

A fault is a failed ConfigMap write, a failed status question or a restart; it
costs one of `MaxFaults`. `hooks`, `reports` and `tries` are history variables:
no action reads them.

What is abstracted: the finish step itself is a step that works or fails (the
connection it works on is the subject of `ClusterConnection`), the four hooks are
one step because none of them reads the tracker, and two different Sharko
processes never run at once (the chart deploys one replica).

### ClusterConnection

`ClusterConnection.tla` models the life of one cluster's ArgoCD connection, the
Secret that is lost for good when the wrong party deletes it. It composes the
parties that work on it without a common lock: requests (`RegisterCluster`,
`RemoveCluster`), the tracker, the finish step of a removal, the reconciler's
tick, the Git provider and the people who merge.

State. `inGit` is whether the base branch's cluster list names the cluster;
`git` the pull requests at the provider and `diff` those whose branch changes
the list; `secret` the Secret, reduced to what decisions read (Sharko's label,
the adopted annotation, the keep mark, the registration-pending mark); `addons`
whether addon secrets are on the remote cluster; `tracked` the tracker's status
of each pull request; `req`, `fin`, `tick` the place in the code of each
request, run of a finish step and the reconciler; `seenGit`, `seen`, `back` what
the tick has read. `kept`, `firm` are history.

| action | code |
| --- | --- |
| `RegWrite`, `RegFind`, `RegOpen`, `RegMerge` | `RegisterCluster`: `Ensure`, addon secrets and `findOpenPRForCluster`, the commit with its tracker write, auto-merge |
| `RemPlan`, `RemMark`, `RemSetMark`, `RemOpen`, `RemTrack`, `RemMerge`, `RemNumber`, `RemUnmark` | `RemoveCluster`: the plan from Git, `markKeptConnectionFor` (read, then write), the commit, the number in the mark or the mark off again; a removal that merged at once starts `finishRemove` itself |
| `TrackerSees`, `FinishStart`, `GaveUpEnds` | `PollOnce` and `FinishTrackedPR`, as `PRTracker` models them in full |
| `FinishCheck`, `FinishWaiting` | the two checks of `FinishClusterFollowUpOnMerge` |
| `FinishAddons`, `FinishMarks`, `FinishDelete`, `FinishRelease` | `finishRemove`, `deleteOwnedClusterSecret`, `Manager.Delete`, `ReleaseKeptConnection` |
| `FinishDrop`, `FinishSettle` | `dropKeepMark`; what `runFinish` stores afterwards |
| `MarksTrack`, `MarksSettle`, `MarksWrite`, `MarksNone` | `trackWaitingMark`, `settlePendingKeepMark` |
| `ReadGit`, `ListSecrets`, `Orphan`, `Owns`, `Handback`, `OpenPRs`, `Recheck`, `Sweep`, `Create`, `Clear` | `pollOnce` and `reconcileDiff`, in the code's order |
| `PersonMerges`, `PersonCloses`, `Hand`, `GraceEnds`, `MarkAges`, `Restart` | people, time, the process |

A fault is a failed call (it has no effect: lost replies are left out) or a
restart. A Secret write by `Manager` reads the newest version and writes it back
with its version, so it is one action; the sweep's delete names no version.

Assumptions about time, each a guard with a name:

* `Running`: a request takes less than the ten minutes of the grace window and
  of `waitingMarkPendingMaxAge`.
* `GaveUpEnds`: thirty days after giving up, nothing else is under way and the
  marks pass has settled an unnumbered mark.
* `hurried`: when `FALSE`, people do not merge between a finish step's (or a
  tick's) check and the call that follows from it; when `TRUE` they may. People
  never merge a removal between the two adjacent calls of the request that
  opened it.
* `concurrent`: whether two removals of the cluster may be requested at once.

These and the bounds are fields of a `setting` that is chosen at the start and
never changes, so one run covers several installations.

What is abstracted: v4 repositories; one cluster (others are registered too, so
the sweep's guard against an empty list is never reached); the reads of one
check (label and marks; tracker and Git in the settle) are one step; pull
request numbers grow in the order of opening, which is what the settle's choice
of the newest needs; merges never conflict, and a branch that changed nothing
changes nothing.

### AdoptedConnection

`AdoptedConnection.tla` models how a connection that ArgoCD has already comes under
Sharko, by an adopt or a take over (a *join*), and is handed back by an un-adopt.
Each opens a pull request, and the connection changes once it merged: in the
request that merged it, or in the tracker's finish step. Meanwhile a mark on the
Secret names the pull request, and the marks pass gives it to the tracker again
when the tracker lost it.

State. `inGit`, `git`, `diff`, `tracked` and `req` as in `ClusterConnection`;
`connection` the Secret with Sharko's label, the adopted annotation and one mark of
each kind; `found` the open pull request a repeated request works for, `marked`
whether an un-adopt put its mark on; `fin` the runs of finish steps, by the
tracker and by the request that merged itself; `tick`, `listed`, `number` the marks
pass and what it read. `crossed` is history: it is set when a pull request merges
before its mark or record is written, while somebody who has read Git has yet to
write, or, of an un-adopt, before a join is over; when a mark is put over another's;
and when an un-adopt begins before an earlier one is over (`Settled`).

| action | code |
| --- | --- |
| `JoinPreflight`, `JoinFind`, `JoinRemark` | `checkNameCollision`; `findOpenJoinPR`; a pull request of the same kind that is open already |
| `JoinOpen`, `JoinMark`, `JoinTrack`, `JoinMerge` | `TakeoverClusterGit` and `adoptSingleClusterV4` through `commitChangesWithMeta`, with `BeforeTrack` |
| `JoinSwap`, `JoinAnnotate` | `TakeOverClusterSecret` and the adopted annotation, after a merge or when there is nothing to write |
| `UnadoptCheck`, `UnadoptPlan`, `UnadoptLook`, `UnadoptSetMark`, `UnadoptOpen`, `UnadoptTrack`, `UnadoptMerge`, `UnadoptNumber` | `UnadoptCluster` with `markKeptConnectionFor` |
| `TrackerSees`, `FinishStart`, `FinishSettle`, `GaveUpEnds` | `PollOnce`, `FinishTrackedPR`, what `runFinish` stores |
| `FinishLook`, `FinishSwap`, `FinishAnnotate`, `FinishUnmark` | `FinishAdoptOnPRComplete` |
| `FinishCheck`, `FinishStrip`, `FinishUnmark` | `FinishClusterFollowUpOnMerge`, `finishUnadopt`, `dropKeepMark` |
| `MarksList`, `MarksTrack`, `MarksSettle`, `MarksWrite` | `finishWaitingMarks` over one list of Secrets, `trackWaitingMark`, `settlePendingKeepMark` |
| `PersonMerges`, `PersonCloses`, `PersonDeletes`, `MarkAges`, `ServerRestarts` | people, time, the process |

What is abstracted: v4 repositories; of the preflight, the two checks that a
decision here depends on; the labels of a previous owner; the addon secrets that
a finished un-adopt deletes; marks of another repository. What a request reads of
Git is as old as its branch (`GitWrites` has it older). A connection that is gone
does not come back.

### GitWrites

`GitWrites.tla` models `commitChangesWithMeta` with its twelve callers on a v4
repository: register and remove a cluster, forget a registry entry, enable,
switch off, disable and drop an addon on a cluster, upgrade it on several, add
to the catalog (with and without enabling), edit and delete a catalog entry. A
file is a function from its keys to entries, so that whole files are written, as
in the code, while merges and properties speak of entries.

| action | code |
| --- | --- |
| `Ask`, `Look`, `Gate`, `Read`, `Survey`, `ReadFails` | what each operation reads before the mutex, in its order, what it refuses, and what a failed read does (`readFileForRewrite`, `readFileIfExists`, `catalogAddonForV4`, `v4ClusterExists`, `findOpenPRForCluster`, `v4ClusterFootprintForAddon`) |
| `Lock`, `Open`, `OpenFails`, `AutoMerge`, `MergeRefused`, `MergeFails`, `Leave` | `commitChangesWithMeta` under `gitMu`: branch from the base branch of that moment, files, pull request, auto-merge |
| `PersonMerges`, `PersonCloses` | people |

The provider's squash merge is a three-way merge by entry; whether two changes of
one file are too close to merge is a choice where they touch different entries,
and a conflict where they touch the same one. `behind` and `disturbed` are
history. Values files, dry runs, validation of names, and the labels and texts of
pull requests are left out. The files on one branch appear at once: nobody looks
at a branch before its pull request is open.

### InitOperation

`InitOperation.tla` models the store of operation sessions and the worker of
`POST /init` (`runInitOperation`, `pollPRMerge`, `runBootstrapSteps`). Every
operation of the store is one step under its mutex and none of them looks at the
session's status; a client may cancel a session in any state
(`handleCancelOperation`), and its worker finds out where the code looks, or
not at all.

| action | code |
| --- | --- |
| `FindWaiting`, `FindRunning`, `Create` | `handleInit`: three separate calls of the store |
| `Start`, `Probe`, `ProbeFails`, `Seed`, `AutoMerge`, `MergeRefused`, `CallFails` | `runInitOperation` up to the merge |
| `FirstLook`, `Tick`, `ContextDone`, `Abandoned`, `GaveUp`, `Fail`, `Resume` | `pollPRMerge`, and what follows it |
| `Bootstrap`, `NoPin`, `SeesSync`, `NoSync` | `runBootstrapSteps` |
| `Cancel`, `PersonMerges`, `PersonCloses`, `AppMoves`, `Expire`, `Restart` | clients, people, ArgoCD, the thirty minutes of the context, the process |

`Abandoned` may happen at any tick: the clock of `IsAlive` is not modelled.

### AddonSecrets

`AddonSecrets.tla` models one addon with Secrets in several namespaces of one
cluster: the plan and the push of `reconcile`, the scan of leftovers with the
namespace record in memory and in its ConfigMap, and an operator's delete of a
leftover in its separate calls.

| action | code |
| --- | --- |
| `Plan`, `PlanUnread`, `Look`, `LookFails`, `Write`, `WriteFails`, `Pushed` | `planV4`, `reconcileSecret`, `EnsureSecret` |
| `Scan`, `LoadFails`, `Unreachable`, `List`, `ListFails`, `Publish`, `Save`, `SaveFails` | `scanOrphans`, `loadNamespaceRecord`, `updateNamespaceRecord`, `saveNamespaceRecord` |
| `DeleteAsk`, `DeletePlan`, `DeletePlanUnread`, `DeleteGet`, `DeleteGate`, `Delete`, `DeleteFails` | `DeleteOrphanedSecret`, `DeleteSecretIfManaged` |
| `EditGit`, `Switch`, `Rotate`, `EditCluster`, `Restart` | people, the settings, the secrets store, the process |

A pass is a process of the constant `Process`; the runs have the periodic loop.
With a check or a sync beside it three of the properties do not hold (section 5).

### ConfigMapStore and AtomicStore

`ConfigMapStore.tla` models `internal/cmstore` in its separate API calls: lock,
get, modify, create or update, for callers in several processes (a new one
starts while the old one still runs). The mutex is one per process; between
processes only the resource version protects. Answers may be lost after the
write was done, a process may stop at any step, people may edit or delete the
ConfigMap or leave text that is no JSON. `AtomicStore.tla` is what callers
rely on, and what `PRTracker` and `SavedList` take for granted: a state that
changes by one whole change at a time. The refinement maps `state` to what
`ReadModifyWrite` would take from the ConfigMap (`View`); `call` and `result`
are the same on both sides.

### SavedList and ConnectionBell

`SavedList.tla` is the list that the notifications and the change log of a
cluster share in shape: in memory from the start, attached to a ConfigMap later
(`AttachCMStore`: read, merge, cap, save), every change saved whole while the
mutex is held. `Kind` picks which of the two it is where they differ: the order
of wiring and reading, and whether an entry with a known id is dropped.
`ConnectionBell.tla` composes the notifications with those who use them: the
connection poller (`Clears`, `Raises`: `evaluate`), the addon checker
(`Checks`), the operators (`MarkRead`, `MarkAllRead`), and restarts.

### ApiTokens

`ApiTokens.tla` models `internal/auth/tokens.go` with `token_persistence.go` in a
cluster, where tokens are saved in one Secret. `tokens` is the map each process
checks requests against, `secret` what the next process loads (`Start`; a process
that cannot load does not serve). `CreateToken`, `RenewToken` and `RevokeToken`
change the map, take the mutex and read the Secret (`Begins`); then the write is
taken (`Saved`), refused because another process wrote since (`Overtaken`), goes
on after somebody else created the Secret (`Reread`), fails or is done without an
answer (`SaveFails`), or its process stops (`Stop`). Each error branch takes the
change in memory back (`RolledBack`). A process reads the Secret only at its
start, so one that runs while another writes is `behind`, and `crossed` records
that such a process wrote its map over the other's. A window stands for the
expiry it leads to; the clock, roles and owners of tokens, the time of last use
and the file of a local run are left out, and so is a write that is still under
way when the next process has loaded. Both copies a request may meet are held
against `told`, the last answer people got.

## 3. The runs

Few runs, each over an instance as large as five minutes allow, and each with
the properties that share its instance. Where one question needs other bounds
than another, the MC module picks the setting in its initial state, and a run
covers all of them.

### tracker

| setting | questions |
| --- | --- |
| a pull request only its request tracks; poll loop and two refresh handlers, two faults | do two runs of `runFinish` ever overlap (`OneFinishPerPR`), is the finish step called early or after giving up (`FinishOnlyWhenDue`), more often than allowed (`TriesWithinBudget`) or before the hooks (`HooksBeforeFinish`), is an outcome taken back by an older answer (`TerminalStays`)? |
| a pull request with a waiting mark; poll loop and marks pass, a fault, a user who drops it | how often do the hooks run (`HooksOncePerOutcome`), can an entry tracked again be lost to the poll pass's older copy (`OnlyFinishedIsForgotten`), does every settled pull request get finished or given up (`MarkedOutcomeSettles`), does every waiting mark come off (`MarkComesOff`)? |

All safety properties are checked in both. One pull request is opened in each:
the entries of two never touch (every guard, count and gap is per entry), except
that the one poll loop and the one marks pass serve them in turn; the proofs
cover any number. `MaxAttempts` is 2 where the code has 10: the count is only
compared with its limit. One or two faults reach a crash between any two steps
and a crash during the recovery from another. `MaxDrops` is 1, enough for "stop
and track again" inside one poll pass. The second setting has no refresh
handler, which keeps its liveness check small: their part of the races is in the
first.

### connection_safety, connection_settles

| setting | questions |
| --- | --- |
| `BothRemovals` with auto-merge of the second, hurried people, two faults | does anything of Sharko delete a connection that a merged removal promised to keep (`KeptConnectionSurvives`), and does a numbered keep mark outlive what the other one finishes (`MarkOutlivesOthers`)? |
| `Overlapping`: any two of a keeping removal, a deleting one and a re-registration, at once, two faults and late retries | is the connection cut off only while the cluster is not in Git (`CutOffOnlyOutsideGit`), does it stay until the addon secrets are off the cluster (`AddonSecretsFirst`)? |
| `BothRemovals`, one fault, fairness | is every merged removal finished (`RemovalSettles`)? |
| a registration from an inline kubeconfig that may merge itself, two faults, one edit by hand, fairness | does it have its connection once merged, however long its pull request waited (`RegisteredHasConnection`), and is what it left swept once closed (`ClosedRegistrationSwept`)? |

Two pull requests of one cluster are enough for each pair of flows that can meet
(keep and delete, remove and register again), and a request is made once per
pull request. One or two faults reach the chains the marks were built for: the
tracker write lost, the number not written, and a finish step that fails.
`CutOffOnlyOutsideGit` is checked where people are not hurried: with people who
merge between check and delete no design without a lock could hold it.
`AddonSecretsFirst` says so itself (`Unhurried`): a sweep that had decided before
the removal was even tracked would be an exception otherwise; and it says
nothing once the same name is being registered again, whose addon secrets are
new ones. `KeptConnectionSurvives` speaks of one keeping removal and one deleting
removal: two keeping ones requested at once can lose the mark of the first
(section 5), and a registration whose pull request was opened takes the promise
back.

### git_writes

Any two requests of the twelve operations, on every sound repository of two
clusters and one addon, one failed read or call, people at any moment.
`OnlyWhatWasAsked`: a pull request whose request read the base branch its branch
was made from changes only the entries it was asked about, whenever and by
whomever it is merged, and also after a failed read. `UndisturbedMergeKeepsSound`:
one at a time, the checks of the twelve operations keep every switched-on addon
in the catalog. `ConflictNeedsPeople`: an auto-merge is refused only when a person
merged something since its branch. Two requests are enough for each of these,
which relate one pull request to one other change of the base branch; a third
would only repeat the pair.

### init_operation

Two sessions on every kind of repository with one failed call and one restart:
`StepsTellTheOutcome` (what the wizard shows is what happened),
`NoDeadSession` (a session that says it goes on has a worker; a dead one would
block every later request), `CompletedMeansSetUp` (completed means set up,
whoever's merge the worker saw), and for one session under fairness
`SessionsEnd`. One client is enough to make two sessions, because it may cancel
the first; two sessions are what it takes to see another one's merge.

### cluster_side

Two settings. *Secrets*: two namespaces, two values, one edit, one failed call, one
restart: `LeftoverInSight`, `SavedKeepsLeftovers`, `DeleteOnlyUnclaimed`, and under
the fairness of the periodic loop `Converges` and `LeftoversReported`. One namespace
that is on the record and one that is not are what the scan tells apart. The same
properties also hold with two edits.

*Adoption*: two requests of one cluster in one behaviour (an adopt and an un-adopt
in either order, an adopt and a take over, two adopts, an un-adopt and a take over,
two un-adopts), each with its pull request, of which the first adopt and the
un-adopt may merge themselves; a failed call or a restart between any two steps;
people who merge, close and delete pull requests and the connection at any moment.
`OwnershipFollowsGit`: a connection is Sharko's exactly when the cluster is in Git,
unless somebody still knows that it is not: a request, a finish step, a pull request
that is open, tracked or marked. In other words, no fault leaves a half-done adopt,
take over or un-adopt that nothing will finish. The property speaks of a behaviour
until `crossed`: until a pull request merges before its mark and record are written,
or while somebody who has read Git has yet to write, or an un-adopt before the join
is over, or a mark is put over another's, or an un-adopt begins before an earlier
one is over. Section 5 says what happens then. One fault loses any one of mark,
record, merge, swap and number, and the property says that the remaining ones are
enough; two may lose the mark and the record of one pull request, whose merge nobody
can then know of, or the mark and the finish step of a join, which is forgotten
thirty days after it gave up (section 5).

### saved_state

Three settings. Three callers of one ConfigMap store, two of them in one process,
with calls that do and do not commute and one that may be refused, a fault and an
edit by hand: `ImplementsAtomicStore` and `OnlyOthersConflict`. The bell over
a store that changes in one step, with two codes a connection can break with, an
addon alert, two failed calls, two restarts and three turns of the connection:
`BellTellsConnection` and `AlertsAreKept` (`SavedAlertsSurvive` and
`ReadStaysRead` of `ConnectionBell`). Three turns are a break, a reclassification
and a recovery. And two processes with two tokens under two names and two faults
or stops: `TokensAsAnswered`. Two tokens are a change beside one that is not
touched, and a name given a second time; two stops replace both processes. The
tokens are interchangeable and the run uses that symmetry; it follows no
behaviour past `crossed`, after which nothing is claimed.

### The violated runs

`connection_open_swept`, `connection_pending_mark`, `git_registers`,
`secrets_claimed` and `changelog_attach`: see section 5.

Deadlock is not checked in any run: bounded requests end, and a system with
nothing to do rests.

### Fairness

* `tracker` (`MCSpec`): weak fairness of the poll pass, of each worker in the
  middle of a call and of the passage of the retry gap. The poll loop is a ticker
  loop that never blocks on anything but store and Git calls with contexts
  (`Start`). Strong fairness is assumed of `MarksSee`: one marks pass looks at
  every mark there is, so a mark that is repeatedly "not tracked" when a pass
  begins is seen; the model takes marks one at a time and weak fairness would let
  it starve. The request's `TrackOpened` is weakly fair because it follows
  `OpenPR` in one handler.
* `connection_settles` (`FairSpec`): the reconciler ticks and the tracker polls
  for ever (ticker loops in `Start`), a handler or finish step in the middle of
  its calls goes on (Go code with contexts and timeouts; a restart ends it), and
  time passes.
* `init_operation`: the worker of a session goes on where it can, and its context
  ends after thirty minutes. Nothing is assumed of clients: a session may be kept
  alive for ever by heartbeats.
* `cluster_side` (`MCSpec`): the periodic loop of the addon secrets runs. Nobody
  has to press a button. Nothing is assumed in the adoption setting.

Nothing is assumed of people anywhere: a pull request may stay open for ever, and
the liveness properties are about those that settled.

## 4. The proofs

Eight modules hold the proofs. What they prove holds for every value of the
constants that the module's assumption allows (`TrackerConstants`, `NoEntryIsNone`,
`StoreConstants`, `TokenConstants`, `InitConstants`, `GitConstants`,
`SecretsConstants`, `ConnectionConstants`, `AdoptionConstants`, `ListConstants`,
`BellConstants`): any sets of pull requests, processes, clients, clusters, addons
and namespaces, any bounds. The assumptions say that sets that stand for different
things are disjoint, that markers ("no entry") are not values, and that bounds are
numbers. Every inductive invariant was checked by TLC on the instances of the runs,
and on wider ones, before it was proved. A theorem that does not hold of every
installation states its hypothesis; each hypothesis below is met by the settings of
a run.

### PRTracker: `PRTracker_proofs`

Every safety property that the run `tracker` checks. Each invariant is defined at
the end of `PRTracker.tla`.

* From `Invariance` (`Spec => []IInv`): `TypeCorrect` (`TypeOK`),
  `FinishExclusive` (`OneFinishPerPR`) and `FinishDue` (`FinishOnlyWhenDue`).
* From `OutcomeInvariance` (`Spec => []OInv`): `ReportedBeforeFinish`
  (`HooksBeforeFinish`), `OutcomeFinal` (`TerminalStays`) and
  `ForgottenOnlyFinished` (`OnlyFinishedIsForgotten`).
* From the counts `BInv` and `HInv`: `BudgetKept` (`TriesWithinBudget`) and
  `HooksOnce` (`HooksOncePerOutcome`).

`IInv` is `TypeOK`, `OneFinishPerPR` and four facts without which neither is
inductive. `Guarded`: a worker past the guard has its pull request in
`finishing` (this is what makes a second entry impossible, and `Restart` empties
both sides at once). `StillDue`: what `FinishRead` saw is still true while the
guard is held, because only the holder of the guard counts a failed try, and
`Claim` and `TrackPR` only write entries that are not given up and not in the
gap. `TriesLeft`: an entry that has not given up has tries left, so the count
stays in its type. `GitKnown`: nobody asks about a pull request that was not
opened. Each action has a lemma that it keeps `IInv`.

`OInv` follows one outcome through the tracker. `TrackedOnce` and `MarksOnly`
say that a pull request without a waiting mark is written whole only once, by
its request; without them an old answer could be written over a claimed entry,
which does happen to the others (section 5). `OutcomeKnown`: only merged and
closed outcomes are claimed and finished. `HooksRecorded` and `HooksBehind`
carry the report from the hooks to the finish step through `hooksPending`, the
field that survives a restart.

`BInv` and `HInv` count, relative to the faults so far. A call of the finish
step is in the entry's count, is about to be (`Settling`), or was lost in a
fault; a run of the hooks is recorded, is about to be (`Reporting`), or was lost
in a fault. That nobody else is settling or reporting while one worker is about
to call is `OneFinishPerPR`, and that a due entry has a try left is `TriesLeft`.
Most steps are quiet or plain, that is, they keep what is counted: one lemma
each covers them, and the others have their own.

### ClusterConnection: `ClusterConnection_proofs`

The six safety properties of the connection, each from an invariant that is
inductive together with `IInv`. `IInv` is `TypeOK` with what a request's place
says of its pull request (`RequestsStand`), that the tracker never knows more
than Git and never takes a merged one for closed (`EntriesStand`), that a numbered
mark is that of an opened removal that keeps the connection (`MarkStands`,
`BackStands`), and the order of a deletion (`SecretsLast`, `SweepLast`).

* `TypeCorrect` (`TypeOK`) and `AddonSecretsBeforeConnection`
  (`AddonSecretsFirst`), with no hypothesis: whoever deletes the connection
  (`DeletedBy`: a finish step past the addon secrets, or the sweep) finds them
  gone. `SweepLast` carries it for the sweep: past its look at the tracker no
  merged removal is tracked, and without hurried people none merges.
* `CutOffOutside` (`CutOffOnlyOutsideGit`), where `Careful`: nothing is done by
  hand, and either no registration is requested, or people wait for who has read
  and no request merges what it opens. `OutsideGit`: whoever is past its look at
  Git on the way to the connection acts on a cluster that is still outside. A
  registration that merges in between, which nothing in the code prevents, is
  what the hypothesis excludes. `NoWayBack`: without registrations a removal
  that changes nothing was opened when the cluster was gone.
* `MarkOutlives` (`MarkOutlivesOthers`), where `OneKeeper`: one removal that keeps
  the connection, beside any number of others and registrations, and nothing by
  hand. Two of them overwrite each other's mark (`remove.go:475`, a hazard). The
  invariant says who may have put the mark there and that it is still under way or
  over (`MarkBegun`, `PutUnderWay`, `PutStays`, `AgedWhenOver`), that finish steps
  and hand-backs work on removals that are no longer open (`FinSettled`,
  `BackSettled`, `Endings`), and that nobody who read the marks earlier is about to
  delete (`Spared`): this is where `firm` is needed.
* `KeptSurvives` (`KeptConnectionSurvives`), where `NoneWrites`: `OneKeeper`, and
  no registration writes the connection itself (no registrations, or credentials
  in a backend). The second part is needed, see "Marks" in section 5. `Promised` is
  the promise in full: the connection exists, it is Sharko's only with a mark
  on, nobody is about to drop, take off or delete, and the tracker does not think
  the removal closed. `OpenMarked` and `SettlesUntracked` say why a mark may only
  be missing, or be taken off by the marks pass, when nobody tracks the removal.
* `RegisteredConnected` (`RegisteredHasConnection`), where `OneRegistration`: no
  removal is requested, and the cluster is registered at the start or one
  registration is; people may merge at any moment, also while the sweep decides, and
  what they do by hand only ends the claim. `ComesIn` follows a pass that takes the
  new connection for an orphan: it has seen the waiting mark; if it has seen it
  late, the request was over (`Late`), so an open pull request is there to be seen
  before it deletes, and after that none can merge. With two registrations the run
  `connection_open_swept` shows the opposite.

### GitWrites: `GitWrites_proofs`

`TypeCorrect` (`TypeOK`), `OnlyAsked` (`OnlyWhatWasAsked`), `SoundKept`
(`UndisturbedMergeKeepsSound`) and `ConflictsNeedPeople` (`ConflictNeedsPeople`).
The first part of the module are lemmas about plans: what each operation's
`plan` changes (`Narrow`: only entries it was asked about; `Half`: before the
survey), and that a plan made from a sound repository gives a sound one (`Safe`).
The invariant carries them from the read to the merge: `Holds` is the mutex,
`Planned` says that what a request saw and plans is true of the base branch as
long as nothing overtook it (`behind`), `Opened` the same of its pull request and
what that was based on, and `Branched` that the base branch is what the
branch was created from until a person merges: the provider has then no
reason to refuse.

### InitOperation: `InitOperation_proofs`

`TypeCorrect` (`TypeOK`), `OutcomeTold` (`StepsTellTheOutcome`), `NoneLeftForDead`
(`NoDeadSession`) and `CompletedIsTrue` (`CompletedMeansSetUp`), for any number of
clients and sessions. A session and its worker are written by different parties, so
the invariant ties them together: `Fits` says, for each place of a worker, which
statuses and which progress of the six steps its session may have (a client's cancel
may come anywhere), and `Found` what has been found or done in the world by then.
Completing the last steps in one go (`Updated`) is unfolded for each number of steps
that occurs.

### AddonSecrets: `AddonSecrets_proofs`

`TypeCorrect` (`TypeOK`) and `NoClaimedDeleted` (`DeleteOnlyUnclaimed`) for any
passes. `InSight` (`LeftoverInSight`) and `SavedInSight` (`SavedKeepsLeftovers`)
where the loop is the only one to act (`Process \subseteq {"loop"}`): with a check
beside it TLC finds a namespace dropped that the loop has just added. `OnRecord`
says of each Secret of Sharko's that its namespace is on record, or in the plan of a
pass that will scan, or was lost by a restart and is then not in the saved record
either; `Watched` that a pass only writes where its plan names and that what its
scan found empty is empty.

### AdoptedConnection: `AdoptedConnection_proofs`, `AdoptedConnection_ownership_proofs`

`TypeCorrect` (`AdoptionTypeOK`) and `NeverSwept` (`OutOfSweepsReach`: what Sharko
labels as its own after a join is marked adopted, so that no sweep takes it) need no
hypothesis. They follow from `Fits`, which says for each place what can be true
there: which step a request or a finish step of this kind may be at and what its
pull request then is, that the tracker's record lags behind Git and never runs ahead
of it, that a mark names a pull request of its own kind, and that nobody knows the
number of one that was never opened.

`OwnershipIsGits` (`OwnershipFollowsGit`) holds where `MaxFailures <= 1`, for any
number of adopts, take overs and un-adopts in any order. `Owned` is the inductive
invariant, and it is claimed until `crossed`, as the property is. Its heart is a
pair: `JoinOwed` (the cluster is in Git, the connection is not Sharko's: a merged
join wears its mark, or has a run or a record that will take the connection over)
and `UnadoptOwed`, the same of an un-adopt. Each step either puts the connection
right or leaves one of those who owe it. What a mark is worth depends on the failure
still to come: as long as it may come the mark must be on, and once it is spent the
record or the run suffices, because nothing can take them away any more (`Spent`).
The rest supports that: a merged join that is not over has the cluster in Git, an
un-adopt about to strip has it out (`JoinInGit`, `UnadoptInGit`, `PassInGit`), a
mark is on while its pull request is open (`JoinMarked`, `UnadoptMarked`), comes off
only when its work is done (`JoinSwapped`, `UnadoptStripped`), the one keep mark
serves one un-adopt at a time (`OneBusy`), and a mark without a number is that of an
un-adopt under way or cut off by the failure (`PendingFit`, `UnadoptKnown`). The
proof found what the runs had not shown: with two un-adopts at a time it could not
be done, and TLC then found the two behaviours of section 5, which `crossed` now
excludes.

### ConfigMapStore, ApiTokens and ConnectionBell: `SavedState_proofs`

The first part proves all of `ConfigMapStore`, for any number of
processes and callers, any set of changes and any bounds that `StoreConstants`
and `NoConfigMap` allow: `TypeCorrect` (`TypeOK`), `ConflictsComeFromOutside`
(`OnlyOthersConflict`), `AcceptedWritesAreFresh` (`WritesWhatItRead`) and
`ImplementsAtomic` (`ImplementsAtomicStore`, the refinement). The inductive
invariant says, of the ConfigMap, that its version was given out (`Given`); and of
each caller that it holds the mutex of its process from the read to the write
and nobody else does (`HasMutex`, `Busy`), that what it read has a version that was
given out (`Known`), that if the ConfigMap still has that version then what it
will put back is what its change makes of the present state (`Fresh`), that a
ConfigMap it found absent has been absent or is somebody else's (`Absent`), and
that one with a later version was written by somebody else (`Others`). `Fresh` is
the heart of the refinement: a write that the API server accepts is `Applies`
of the abstract store, every other write is `Fails`. Versions that never repeat
are what makes `Fresh` inductive over deletion and re-creation.

The second part proves `TokensTypeCorrect` and `AnswersLast` (`TokensAsAnswered`) of
`ApiTokens`, for any number of processes, names, tokens and faults, from
`TokenConstants`: the two markers are not tokens or maps, and an expiry is not one
of the words for having none. No run repeats its `TokensTypeOK`.
The property is not inductive: while a change is under way memory holds what
nobody was told yet. The invariant speaks of the map with that change taken back
(`Undone`), of every process that is not behind (`Agrees`); a failed write leaves
just that map, and a write that is taken differs from it in one token, the one
the answer is about. That needs `AllGood`: a token has one name, a new one has
none, and the change under way is in the map (`Sound`).

The third part is about lists of any length. `Resolved` is a recursive function, so
what it leaves is an induction: the lemma `Least` (a set of numbers that is not
empty has a least one, from the library's `WFMin`) makes one possible with the
installed provers, `LeftExists` shows that the function the definition chooses
exists, and `ResolvedFits`, `AddedFits`, `MarkedFits` and `MergedFits` say what each
operation keeps. `BellTells` (`BellTellsConnection`) follows from `BellInv`: no
alert is on a list twice (`Lists`), the poller's open alert is one of the codes
(`Polled`), and the list that the first process of all attaches to is empty
(`Attached`). The one way to lose an alert from memory is the cap; the checker adds
to at most one other alert, so that a cap of two suffices (`BellConstants`; the code
has 100). `SavedAlertsKnown` (`SavedAlertsSurvive`) follows from `Recalled`: a
process that saves has had in memory what is saved. `AlertsKept` (`AlertsAreKept`)
has a hypothesis, that the cap has room for all the alerts there are, as in the run:
with more, an alert that was read can fall off the end in memory and be raised
again.

### Only model-checked

* Liveness: `MarkedOutcomeSettles`, `MarkComesOff`, `RemovalSettles`,
  `ClosedRegistrationSwept`, `SessionsEnd`, `Converges`, `LeftoversReported`. The
  prover handles neither fairness nor ENABLED.
* The five properties whose runs end with a counterexample (section 5).

## 5. Where the code and its words part

Each of these is a run that TLC ends with a counterexample; `PROJECT.json` quotes
both sides.

| run | what the trace shows |
| --- | --- |
| `connection_open_swept` | Register, close, register again with the same content: the second writes no mark, so the sweep's older answer deletes the connection of an open pull request. |
| `connection_pending_mark` | A restart leaves a removal untracked and its mark without a number; after ten minutes the mark comes off, then the pull request merges, and the sweep deletes the connection it was to keep. |
| `git_registers` | Two registrations read the cluster list; the first merges; the second branches from the new list, writes its older one over it, merges without a conflict and takes the first cluster off the list. |
| `secrets_claimed` | The cluster's assignment file cannot be read once; the pass claims nothing there and reports every Secret that the catalog asks for as a leftover. |
| `changelog_attach` | The read at start fails after the ConfigMap was wired; the next change recorded overwrites the saved log. |

Divergences that the models also reach, without a run of their own:

* Tracker. The hooks can run twice: the marks pass writes an older open answer over
  a claimed entry (`MarksTrack`; the comment at `tracker.go:120` says they never
  do). A pull request tracked again as merged is finished and dropped with its
  hooks never run, though `serve.go:1680` says every completed change is recorded
  before it is dropped.
* Sweep. `deleteOne` checks the label of the listed copy, so the race its comment
  names (`reconciler.go:2654`), an operator taking the label off between list and
  delete, is not seen; its delete names no version.
* Marks. A keep mark goes on between the sweep's list and its delete, or between
  `noWaitingMarkOn` and `Manager.Delete` of a cleanup=all finish, and the connection
  is deleted all the same. Two keeping removals check for a mark before either
  writes; the second's replaces the first's. A registration with an inline
  kubeconfig that puts its waiting mark on the connection of a merged keeping
  removal, and then fails before it opens a pull request, is taken for a new
  registration by the removal's finish step (`NewRegistrationWaiting`), which drops
  the keep mark; the sweep then deletes the connection that was to be kept. A
  registration of the same name opens after the finish step looked for one; the
  removal still deletes or hands back its connection. A removal of a cluster that is
  not in Git finishes at once, also while a registration of the same name is under
  way.
* Adopt, take over, un-adopt. The finish step of a join does not ask whether the
  cluster is still in Git. When its mark could not be taken off
  (`adopt_finish.go:150` calls that harmless: the marks pass takes it off later) and
  an un-adopt merges before that pass, the pass tracks the join again and its finish
  step takes a connection over whose cluster has left Git; the same happens when the
  finish step is only late. A join whose request says "fix the problem and adopt
  again, it is safe to repeat" (`adopt_v4.go:295`, `clusters_takeover.go:566`) is
  refused when repeated, because the cluster is listed by then and the connection is
  not Sharko's (`preflight.go:521`). A pull request that a person merges before its
  mark and its record exist is finished by nobody if the request then stops. Two
  adopts that look for an open pull request at once both open one, and the second's
  mark replaces the first's. A join's pull request that vanished after it merged is
  treated as closed. A join whose mark could not be put on is known to the tracker
  alone: when its finish step then fails until it gives up, its entry is forgotten
  thirty days later, and the connection stays as it was although the cluster is in
  Git.
* Two un-adopts at once. Both look for a keep mark before either writes one
  (`remove.go:475`), so both go on. One opens its pull request after the other's
  merged, so that its own changes nothing; a join brings the cluster back; then that
  pull request is merged by its own request, which gives the connection back
  although the cluster is in Git. No call fails in this. With one failing call: both
  share one mark without a number, the first fails to open a pull request and takes
  the shared mark off again, and the merged pull request of the second may then be
  known to nobody.
* Git. What a request read before the mutex may be old by the time of its branch
  (`behind`): an upgrade may then switch an addon on that was switched off, a
  catalog entry may be deleted while an enable of it merges
  (`catalog_delete.go:4`), and two registrations of one cluster may both open a
  pull request.
* Initialising. A running session can be cancelled (`operations.go:62`) and is then
  completed by its worker all the same; two clients may start two sessions
  (`init.go:209`); the 24 hours for the merge are never reached, because the
  worker's context ends after thirty minutes (`init.go:234`, `606`); a waiting
  session completes on another session's merge; a read of the repository that
  fails counts as an empty repository.
* Addon Secrets. A sync of one Secret or cluster pushes without putting its
  namespace on the record, and a check beside the loop may drop a namespace the
  loop has just added: `LeftoverInSight` holds for the loop alone. The delete of a
  leftover names no version.
* Lists. After a restart the connection poller knows no earlier state, so a saved
  alert of a connection that recovered meanwhile stays (`BellTellsConnection`
  speaks of the life of one process). `Record` does not look for an entry of the
  same pull request. While two processes run at once each overwrites the other's
  list. `ReadModifyWrite` takes text that is no JSON for an empty state and
  overwrites it, where `Read` returns an error.

* API tokens. "A token can never look created (or revoked, or renewed) while the
  durable copy silently disagrees" (`token_persistence.go:21`) holds for one
  process. While two overlap in a rollout, each keeps the map it loaded at its
  start, and a write of the older one saves that map over the other's changes. A
  write that is done but whose answer is lost is reported as not done and taken
  back in memory only; the next start loads what was written.

The passing runs state what remains true next to these: `MarkOutlivesOthers`
speaks only of marks put on while nobody is about to delete (`firm`),
`KeptConnectionSurvives` of pull requests the tracker or a numbered mark knows,
`OnlyWhatWasAsked` of requests that were not overtaken, `OwnershipFollowsGit` of
merges that do not come too early (`crossed`), `TokensAsAnswered` of processes
that were not overtaken and changes whose answer arrived, and
`HooksOncePerOutcome` counts from the last claim of an entry that was open.

## 6. Plan

Done: `PRTracker`, `ClusterConnection`, `GitWrites`, `InitOperation`,
`AddonSecrets`, `AdoptedConnection`, `SavedList` with `ConnectionBell`, and
`ApiTokens` with the proofs of their safety properties; `ConfigMapStore` with its
refinement and proofs.

To model next:

1. Self-managed connections in `ClusterConnection`.
2. An abstract specification `TrackedOutcome` of what the tracker promises (a pull
   request is open, then settled, then finished or given up), with `PRTracker`
   shown to implement it.
3. The read cache's refresh against its invalidation; renewal of connection
   tokens.

To prove next: every safety property of a passing run is proved. What would widen
the theorems is `AddonSecrets` with a check beside the loop, once the code puts the
namespaces of a sync on record, and the refinement of `TrackedOutcome`.

## 7. What is not modelled, and why

* Outside systems (Git providers, ArgoCD, Kubernetes, credential backends,
  language models): only what their callers see, as actions of the environment.
* Text: YAML editing, message wording, schema validation, diffs. They have no
  state; `models`, `labels.go` and `v4_assignments.go` hold pure functions that
  bounded checks may cover later.
* The web interface, charts, documentation, metrics and the demo mode.
* v3 repositories and the v3 to v4 migration: the migration is a one-off
  sequence and comes last.
