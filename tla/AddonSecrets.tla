---------------------------- MODULE AddonSecrets ----------------------------
(* The values engine: for every managed cluster it pushes the Secrets that   *)
(* the catalog defines for the addons switched on there, scans for leftover  *)
(* Secrets of its own, and deletes one when an operator asks.  One cluster   *)
(* and one addon, whose push definitions name namespaces; the name of the    *)
(* Secret is the same in each.  internal/secrets, internal/remoteclient.     *)
EXTENDS Naturals, FiniteSets

CONSTANTS
    Namespace,
    Value,         \* what the secrets store may hold
    Process,       \* who acts: some of "loop", "check", "sync"
    MaxEdits,      \* bound: edits of Git, of the store and of the cluster by people
    MaxFaults,     \* bound: calls that fail
    MaxRestarts,   \* bound: restarts of the process
    None, Foreign, \* no Secret; one without the label of Sharko
    Bare           \* one with the label and without an addon's name on it

ASSUME SecretsConstants ==
    /\ MaxEdits \in Nat /\ MaxFaults \in Nat /\ MaxRestarts \in Nat
    /\ {None, Foreign, Bare} \cap Value = {}

VARIABLES
    catalog,   \* the namespaces that the addon's push definitions name
    on,        \* the addon is switched on for the cluster
    engine,    \* the engine's switch, a setting
    vault,     \* the secrets store
    secret,    \* the Secret of each namespace of the cluster
    stored,    \* the namespace record in its ConfigMap
    known, loaded, dirty,   \* the namespace record in memory
    orphans,   \* leftovers on record
    pass,      \* what each process is doing
    delete,    \* the delete of a leftover that is under way
    edits, faults, restarts

people  == <<catalog, on, engine, vault>>
record  == <<known, loaded, dirty>>
counts  == <<edits, faults, restarts>>
vars    == <<people, secret, stored, record, orphans, pass, delete, counts>>

Ours(n)    == secret[n] \in Value           \* labelled, and carries the addon's name
Managed(n) == Ours(n) \/ secret[n] = Bare   \* IsManagedBySharko
Claimed    == IF on THEN catalog ELSE {}

\* work and names are the plan; todo is what is left of the step.
Quiet == [at |-> "idle", work |-> {}, names |-> {}, todo |-> {}, to |-> None, put |-> None,
          found |-> {}, empty |-> {}, before |-> {}]
Pass  == [at : {"idle", "push", "write", "scan", "list", "save"},
          work : SUBSET Namespace, names : SUBSET Namespace, todo : SUBSET Namespace,
          to : Namespace \cup {None}, put : Value \cup {None},
          found : SUBSET Namespace, empty : SUBSET Namespace, before : SUBSET Namespace]
\* calm is history: Git was not edited and could be read since it was asked.
NoDelete == [at |-> "idle", of |-> None, calm |-> TRUE]

Init ==
    /\ catalog \in SUBSET Namespace
    /\ on \in BOOLEAN
    /\ engine = TRUE
    /\ vault \in Value
    /\ secret = [n \in Namespace |-> None]
    /\ stored = {}
    /\ known = {} /\ loaded = FALSE /\ dirty = FALSE
    /\ orphans = {}
    /\ pass = [p \in Process |-> Quiet]
    /\ delete = NoDelete
    /\ edits = 0 /\ faults = 0 /\ restarts = 0

At(p, here) == pass[p].at = here
To(p, x)    == pass' = [pass EXCEPT ![p] = x]
Fault       == faults < MaxFaults /\ faults' = faults + 1 /\ UNCHANGED <<edits, restarts>>
Calm        == UNCHANGED counts

-----------------------------------------------------------------------------
(* The plan and the push.  CheckAll pushes nothing; a sync pushes all or     *)
(* one, and the engine's switch does not stop it.                            *)

Planned(p, work, todo) ==
    /\ At(p, "idle")
    /\ engine \/ p = "sync"
    /\ To(p, [Quiet EXCEPT !.at = "push", !.work = work, !.names = catalog, !.todo = todo])
    /\ UNCHANGED <<people, secret, stored, record, orphans, delete>>

Plan(p) ==
    /\ \E todo \in SUBSET Claimed :
          /\ p = "loop" => todo = Claimed
          /\ p = "check" => todo = {}
          /\ p = "sync" => todo # {}
          /\ Planned(p, Claimed, todo)
    /\ Calm

\* The cluster's assignment file cannot be read: a problem on record, and the
\* pass goes on with no work for the cluster.  A sync refuses.  (A pass that
\* cannot read the catalog or the cluster list does nothing at all.)
PlanUnread(p) ==
    /\ p # "sync"
    /\ catalog # {}
    /\ Planned(p, {}, {})
    /\ Fault

\* reconcileSecret: the value is fetched and the live Secret looked at.
AnyOfOurs(n) == Ours(n)
UpToDate(n)  == secret[n] = vault
Look(p, n) ==
    /\ At(p, "push")
    /\ n \in pass[p].todo
    /\ To(p, IF UpToDate(n) \/ secret[n] = Foreign
             THEN [pass[p] EXCEPT !.todo = @ \ {n}]
             ELSE [pass[p] EXCEPT !.todo = @ \ {n}, !.at = "write", !.to = n, !.put = vault])
    /\ UNCHANGED <<people, secret, stored, record, orphans, delete>> /\ Calm

LookFails(p, n) ==
    /\ At(p, "push")
    /\ n \in pass[p].todo
    /\ To(p, [pass[p] EXCEPT !.todo = @ \ {n}])
    /\ UNCHANGED <<people, secret, stored, record, orphans, delete>> /\ Fault

\* EnsureSecret: a Secret that is not Sharko's by now is refused.
Write(p) ==
    /\ At(p, "write")
    /\ secret' = [secret EXCEPT ![pass[p].to] = IF @ = Foreign THEN @ ELSE pass[p].put]
    /\ To(p, [pass[p] EXCEPT !.at = "push", !.to = None, !.put = None])
    /\ UNCHANGED <<people, stored, record, orphans, delete>> /\ Calm

WriteFails(p) ==
    /\ At(p, "write")
    /\ To(p, [pass[p] EXCEPT !.at = "push", !.to = None, !.put = None])
    /\ UNCHANGED <<people, secret, stored, record, orphans, delete>> /\ Fault

\* A sync has no scan after it.
Pushed(p) ==
    /\ At(p, "push")
    /\ pass[p].todo = {}
    /\ To(p, IF p = "sync" THEN Quiet ELSE [pass[p] EXCEPT !.at = "scan"])
    /\ UNCHANGED <<people, secret, stored, record, orphans, delete>> /\ Calm

-----------------------------------------------------------------------------
(* The scan: scanOrphans and the namespace record *)

Remember(ns) ==
    /\ known' = ns
    /\ dirty' = (dirty \/ ns # known)

\* loadNamespaceRecord once, then the namespaces of this plan are recorded,
\* and the scan looks in all that are on record.
Scan(p) ==
    /\ At(p, "scan")
    /\ LET ns == known \cup pass[p].names \cup (IF loaded THEN {} ELSE stored)
       IN  /\ known' = ns
           /\ dirty' = (dirty \/ pass[p].names \ (known \cup (IF loaded THEN {} ELSE stored)) # {})
           /\ To(p, [pass[p] EXCEPT !.at = "list", !.todo = ns, !.before = orphans])
    /\ loaded' = TRUE
    /\ UNCHANGED <<people, secret, stored, orphans, delete>> /\ Calm

LoadFails(p) ==
    /\ At(p, "scan")
    /\ ~loaded
    /\ Remember(known \cup pass[p].names)
    /\ To(p, [pass[p] EXCEPT !.at = "list", !.todo = known', !.before = orphans])
    /\ UNCHANGED <<people, secret, stored, loaded, orphans, delete>> /\ Fault

\* The cluster cannot be reached: its leftovers stay on record as they are.
Unreachable(p) ==
    /\ At(p, "list")
    /\ pass[p].found = {} /\ pass[p].empty = {}
    /\ To(p, [pass[p] EXCEPT !.at = "save"])
    /\ UNCHANGED <<people, secret, stored, record, orphans, delete>> /\ Fault

List(p, n) ==
    /\ At(p, "list")
    /\ n \in pass[p].todo
    /\ To(p, [pass[p] EXCEPT !.todo = @ \ {n},
                             !.found = IF Ours(n) /\ n \notin pass[p].work THEN @ \cup {n} ELSE @,
                             !.empty = IF Ours(n) THEN @ ELSE @ \cup {n}])
    /\ UNCHANGED <<people, secret, stored, record, orphans, delete>> /\ Calm

CountsAsEmpty(p, n) == pass[p].empty \cup {n}
Unlisted(p, n)      == pass[p].empty
ListFails(p, n) ==
    /\ At(p, "list")
    /\ n \in pass[p].todo
    /\ To(p, [pass[p] EXCEPT !.todo = @ \ {n}, !.found = @ \cup (pass[p].before \cap {n}), !.empty = Unlisted(p, n)])
    /\ UNCHANGED <<people, secret, stored, record, orphans, delete>> /\ Fault

\* The leftovers found replace those on record, and a namespace leaves the
\* record when the catalog does not name it and nothing of Sharko's was in it.
FoundAndBefore(p) == pass[p].found \cup pass[p].before
FoundAndPushed(p) == pass[p].found \cup {pass[p].to}
Found(p)          == pass[p].found
Publish(p) ==
    /\ At(p, "list")
    /\ pass[p].todo = {}
    /\ orphans' = Found(p)
    /\ Remember((known \cup pass[p].names) \ (pass[p].empty \ pass[p].names))
    /\ To(p, [pass[p] EXCEPT !.at = "save"])
    /\ UNCHANGED <<people, secret, stored, loaded, delete>> /\ Calm

WhenDirty == dirty
Saves     == loaded /\ dirty
Save(p) ==
    /\ At(p, "save")
    /\ To(p, Quiet)
    /\ IF Saves THEN stored' = known /\ dirty' = FALSE ELSE UNCHANGED <<stored, dirty>>
    /\ UNCHANGED <<people, secret, known, loaded, orphans, delete>> /\ Calm

SaveFails(p) ==
    /\ At(p, "save")
    /\ Saves
    /\ To(p, Quiet)
    /\ UNCHANGED <<people, secret, stored, record, orphans, delete>> /\ Fault

-----------------------------------------------------------------------------
(* DeleteOrphanedSecret: on record, not claimed by a fresh plan, with the    *)
(* name of an addon, with the label; then deleted by its name.               *)

Forget == orphans' = orphans \ {delete.of}
Deleting(here) == delete.at = here
Refuse  == delete' = NoDelete /\ UNCHANGED <<secret, orphans>>
Proceed(next) == delete' = [delete EXCEPT !.at = next] /\ UNCHANGED <<secret, orphans>>
Aside   == UNCHANGED <<people, stored, record, pass>>

DeleteAsk(n) ==
    /\ Deleting("idle")
    /\ n \in orphans
    /\ delete' = [at |-> "plan", of |-> n, calm |-> TRUE]
    /\ UNCHANGED <<secret, orphans>> /\ Aside /\ Calm

NotLookedUp == {}
ClaimedNow  == Claimed
DeletePlan ==
    /\ Deleting("plan")
    /\ IF delete.of \in ClaimedNow THEN Refuse ELSE Proceed("get")
    /\ Aside /\ Calm

\* The fresh plan cannot read the cluster's assignment file, and claims
\* nothing for the cluster.
DeletePlanUnread ==
    /\ Deleting("plan")
    /\ catalog # {}
    /\ delete' = [delete EXCEPT !.at = "get", !.calm = FALSE]
    /\ UNCHANGED <<secret, orphans>> /\ Aside /\ Fault

DeleteGet ==
    /\ Deleting("get")
    /\ IF secret[delete.of] = None THEN Forget /\ delete' = NoDelete /\ UNCHANGED secret
       ELSE IF Ours(delete.of) THEN Proceed("gate") ELSE Refuse
    /\ Aside /\ Calm

DeleteGate ==
    /\ Deleting("gate")
    /\ IF secret[delete.of] = None THEN Forget /\ delete' = NoDelete /\ UNCHANGED secret
       ELSE IF Managed(delete.of) THEN Proceed("delete") ELSE Refuse
    /\ Aside /\ Calm

Delete ==
    /\ Deleting("delete")
    /\ secret' = [secret EXCEPT ![delete.of] = None]
    /\ Forget
    /\ delete' = NoDelete
    /\ Aside /\ Calm

DeleteFails ==
    /\ delete.at # "idle"
    /\ Refuse
    /\ Aside /\ Fault

-----------------------------------------------------------------------------
(* People and the process *)

Edit == edits < MaxEdits /\ edits' = edits + 1 /\ UNCHANGED <<faults, restarts>>

EditGit ==
    /\ catalog' \in SUBSET Namespace
    /\ on' \in BOOLEAN
    /\ delete' = [delete EXCEPT !.calm = delete.at = "idle"]
    /\ UNCHANGED <<engine, vault, secret, stored, record, orphans, pass>> /\ Edit

Switch ==
    /\ engine' = ~engine
    /\ UNCHANGED <<catalog, on, vault, secret, stored, record, orphans, pass, delete>> /\ Edit

Rotate ==
    /\ vault' \in Value
    /\ UNCHANGED <<catalog, on, engine, secret, stored, record, orphans, pass, delete>> /\ Edit

EditCluster(n) ==
    /\ \E x \in {None, Foreign, Bare} : secret' = [secret EXCEPT ![n] = x]
    /\ UNCHANGED <<people, stored, record, orphans, pass, delete>> /\ Edit

Restart ==
    /\ restarts < MaxRestarts
    /\ restarts' = restarts + 1
    /\ known' = {} /\ loaded' = FALSE /\ dirty' = FALSE
    /\ orphans' = {}
    /\ pass' = [p \in Process |-> Quiet]
    /\ delete' = NoDelete
    /\ UNCHANGED <<people, secret, stored, edits, faults>>

Goes(p) ==
    \/ Plan(p) \/ Write(p) \/ Pushed(p) \/ Scan(p) \/ Publish(p) \/ Save(p)
    \/ \E n \in Namespace : Look(p, n) \/ List(p, n)
Falters(p) ==
    \/ PlanUnread(p) \/ WriteFails(p) \/ LoadFails(p) \/ Unreachable(p) \/ SaveFails(p)
    \/ \E n \in Namespace : LookFails(p, n) \/ ListFails(p, n)
Deletes == (\E n \in Namespace : DeleteAsk(n)) \/ DeletePlan \/ DeletePlanUnread \/ DeleteGet \/ DeleteGate \/ Delete \/ DeleteFails
Others  == EditGit \/ Switch \/ Rotate \/ Restart \/ \E n \in Namespace : EditCluster(n)

Next == (\E p \in Process : Goes(p) \/ Falters(p)) \/ Deletes \/ Others

Spec == Init /\ [][Next]_vars

\* The periodic loop runs; nobody has to press a button.
FairSpec == Spec /\ WF_vars("loop" \in Process /\ Goes("loop"))

-----------------------------------------------------------------------------
(* Properties *)

TypeOK ==
    /\ catalog \subseteq Namespace /\ on \in BOOLEAN /\ engine \in BOOLEAN /\ vault \in Value
    /\ secret \in [Namespace -> Value \cup {None, Foreign, Bare}]
    /\ stored \subseteq Namespace /\ known \subseteq Namespace /\ orphans \subseteq Namespace
    /\ loaded \in BOOLEAN /\ dirty \in BOOLEAN
    /\ pass \in [Process -> Pass]
    /\ delete \in [at : {"idle", "plan", "get", "gate", "delete"}, of : Namespace \cup {None},
                  calm : BOOLEAN]
    /\ edits \in 0..MaxEdits /\ faults \in 0..MaxFaults /\ restarts \in 0..MaxRestarts

\* Pushed by a process that has not recorded its namespaces yet.
Underway(n) == \E p \in Process : pass[p].at \in {"push", "write", "scan"} /\ n \in pass[p].names

\* A Secret that Sharko wrote stays within sight: the scan will look in its
\* namespace, for the catalog names it, or it is on record, or the pass that
\* wrote it has its scan still to come.  A restart may lose what was not saved.
LeftoverInSight ==
    restarts = 0 => \A n \in Namespace : Ours(n) => n \in catalog \cup known \/ Underway(n)

\* The saved record never loses a namespace that a Secret of Sharko is in,
\* whatever could not be read, listed or saved, and over restarts: a record
\* that was not read is not written over.
SavedKeepsLeftovers ==
    [][\A n \in stored \ stored' : ~Ours(n) \/ n \in catalog]_vars

\* A delete of a leftover never takes a Secret that the catalog asks for, unless
\* Git was edited, or could not be read, while it was under way: the record of
\* the scan is not proof.
DeleteOnlyUnclaimed ==
    [][\A n \in Namespace :
         delete.at = "delete" /\ delete.of = n /\ secret[n] # None /\ secret'[n] = None /\ faults' = faults
            => n \notin Claimed \/ ~delete.calm \/ edits' # edits]_vars

\* Comment at the scan: a Secret that a live push definition still claims is
\* never reported as a leftover.  (Stated while nobody has edited Git.)
ClaimedNeverReported == edits = 0 => orphans \cap Claimed = {}

\* Once people are done, and unless the engine is off, every Secret that the
\* catalog asks for has the value of the secrets store, whatever was deleted,
\* half written or rotated before, but for those that are somebody else's.
Converges == <>[](engine => \A n \in Claimed : secret[n] \in {vault, Foreign})

\* Once people are done, and unless the engine is off, the leftovers on record
\* are those that an operator may delete: every one in sight is there, and none
\* that the catalog asks for.
LeftoversReported ==
    <>[](engine => \A n \in Namespace :
            n \in orphans <=> Ours(n) /\ n \in (known \cup catalog) \ Claimed)
=============================================================================
