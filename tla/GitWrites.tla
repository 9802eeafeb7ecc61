----------------------------- MODULE GitWrites -----------------------------
(* How requests change the Git repository of a v4 installation: what a      *)
(* request reads from the base branch, the checks it makes on what it read,  *)
(* the Git mutex, the branch and pull request that carry whole files, and    *)
(* the merge, by auto-merge or by a person.  Files are read before the mutex *)
(* is taken and the branch is created from whatever main is by then.         *)
(* internal/orchestrator: git_helpers.go and its callers.                    *)
EXTENDS Naturals, FiniteSets

CONSTANTS
    Cluster, Addon, Request,
    Asked,       \* the operations that requests may ask for
    MaxFaults,   \* bound: failed calls to the Git provider
    NoFile,      \* a path without a file
    NoEntry,     \* a key without an entry
    Nobody,      \* the Git mutex is free
    NoOp,        \* a request that was not made yet
    Keep         \* a path that a request does not write

Registry == "managed-clusters.yaml"
Catalog  == "catalog.yaml"
Path     == {Registry, Catalog} \cup Cluster   \* a cluster stands for its assignment file

Key(p) == IF p = Registry THEN Cluster ELSE Addon

\* An entry is what it says: an addon on a cluster is switched on or not, and
\* has a version pin or not; a catalog entry has the text of one edit or another.
Entry(p)   == CASE p = Registry -> {{"listed"}}
                [] p = Catalog  -> {{"added"}, {"edited"}}
                [] OTHER        -> {{}, {"on"}, {"pin"}, {"on", "pin"}}
File(p)    == {NoFile} \cup [Key(p) -> Entry(p) \cup {NoEntry}]
Files      == UNION {File(p) : p \in Path}
Repo       == {m \in [Path -> Files] : \A p \in Path : m[p] \in File(p)}

Kinds == {"register", "remove", "forget", "enable", "switchOff", "disable", "drop",
          "upgrade", "add", "addEnable", "edit", "delete"}
Op    == [kind : Kinds, clusters : SUBSET Cluster, addon : Addon, auto : BOOLEAN]

ASSUME GitConstants ==
    /\ MaxFaults \in Nat
    /\ Asked \subseteq Op
    /\ \A o \in Asked : o.kind \in {"upgrade", "add", "edit", "delete"} \/ o.clusters # {}
    /\ Registry \notin Cluster /\ Catalog \notin Cluster
    /\ NoOp \notin Op /\ Nobody \notin Request
    /\ \A p \in Path : NoEntry \notin Entry(p)
    /\ \A p \in Path : NoFile \notin [Key(p) -> Entry(p) \cup {NoEntry}] /\ Keep \notin File(p)

VARIABLES
    main,     \* the base branch
    lock,     \* who holds the Git mutex (gitMu)
    op,       \* what each request asks for
    pc,       \* where each request is
    plan,     \* the contents each request is going to write
    pr,       \* the pull request of each request
    faults,   \* calls that failed
    behind,   \* history: main changed between the request's first read and its branch
    disturbed \* history: a person changed main between the request's branch and its answer

vars == <<main, lock, op, pc, plan, pr, faults, behind, disturbed>>

\* base is main when the branch was created, head what the branch holds.
NoPR == [status |-> "none"]
PR   == {NoPR} \cup [status : {"open", "merged", "closed"}, base : Repo, head : Repo]

Plan == {w \in [Path -> {Keep} \cup Files] :
            \A p \in Path : w[p] \in {Keep} \cup File(p)}
NoPlan == [p \in Path |-> Keep]

-----------------------------------------------------------------------------
(* Reading and editing files *)

\* What an edit of a file starts from: a missing file is edited as an empty one.
StartOver(p) == [k \in Key(p) |-> NoEntry]
Current(p) == IF main[p] = NoFile THEN [k \in Key(p) |-> NoEntry] ELSE main[p]

Has(p, k) == main[p] # NoFile /\ main[p][k] # NoEntry
On(c, a)  == Has(c, a) /\ "on" \in main[c][a]

\* SetClusterAddonsAddon: the switch is set; without a version the pin stays.
Switch(c, a, with) ==
    [Current(c) EXCEPT ![a] = with \cup (IF @ = NoEntry THEN {} ELSE @ \cap {"pin"})]

\* v4ClusterExists: in the registry, or with an assignment file.
Exists(c) == Has(Registry, c) \/ main[c] # NoFile

The(o) == CHOOSE c \in o.clusters : TRUE   \* the cluster of an operation on one

\* findOpenPRForCluster: an open pull request that registers the same cluster.
OpenRegistration(c) ==
    \E q \in Request : pr[q].status = "open" /\ op[q].kind = "register" /\ op[q].clusters = {c}

\* v4ClusterFootprintForAddon
EnabledOnListed(a) == \E c \in Cluster : Has(Registry, c) /\ On(c, a)
EnabledSomewhere(a) == \E c \in Cluster : On(c, a)

-----------------------------------------------------------------------------
(* The order of the reads of each operation *)

Looks   == {"register", "enable", "switchOff", "disable", "drop", "addEnable"}
Gated   == {"enable", "switchOff"}
Surveys == {"remove", "addEnable", "delete"}

First(kind) == IF kind \in Looks THEN "look" ELSE "read"
After(kind, here) ==
    CASE here = "look" -> IF kind \in Gated THEN "gate" ELSE "read"
      [] here = "gate" -> "read"
      [] here = "read" -> IF kind \in Surveys THEN "survey" ELSE "lock"
      [] OTHER         -> "lock"

\* Whether the operation goes on with the file it rewrites as it is now.
Accepts(o) ==
    CASE o.kind = "disable" -> main[The(o)] # NoFile
      [] o.kind = "drop"    -> Has(The(o), o.addon)
      [] o.kind = "upgrade" -> \A c \in o.clusters : On(c, o.addon)
      [] o.kind \in {"edit", "delete"} -> Has(Catalog, o.addon)
      [] OTHER -> TRUE

(* The files that each operation rewrites, edited as they are now. *)

RegisterCluster(c) == [NoPlan EXCEPT ![Registry] = [Current(Registry) EXCEPT ![c] = {"listed"}]]

RemoveClusterEntry(c) ==
    IF Has(Registry, c) THEN [NoPlan EXCEPT ![Registry] = [main[Registry] EXCEPT ![c] = NoEntry]] ELSE NoPlan

EnableAddonV4(c, a) == [NoPlan EXCEPT ![c] = Switch(c, a, {"on"})]

DisableAddonV4(c, a, removes) ==
    [NoPlan EXCEPT ![c] = IF removes THEN [main[c] EXCEPT ![a] = NoEntry] ELSE Switch(c, a, {})]

updateClusterAddonsV4(c, a, enabled) == [NoPlan EXCEPT ![c] = Switch(c, a, IF enabled THEN {"on"} ELSE {})]

UpgradeAddonClustersV4(clusters, a) ==
    [d \in Path |-> IF d \in clusters THEN Switch(d, a, {"on", "pin"}) ELSE Keep]

AddToCatalog(a) == [NoPlan EXCEPT ![Catalog] = [Current(Catalog) EXCEPT ![a] = {"added"}]]

EditCatalogEntry(a) == [NoPlan EXCEPT ![Catalog] = [main[Catalog] EXCEPT ![a] = {"edited"}]]

DeleteFromCatalog(a) == [NoPlan EXCEPT ![Catalog] = [main[Catalog] EXCEPT ![a] = NoEntry]]

Rewrite(o) ==
    LET c == The(o)
        a == o.addon
    IN  CASE o.kind = "register"  -> RegisterCluster(c)
          [] o.kind \in {"remove", "forget"} -> RemoveClusterEntry(c)
          [] o.kind = "enable"    -> EnableAddonV4(c, a)
          [] o.kind = "switchOff" -> updateClusterAddonsV4(c, a, FALSE)
          [] o.kind \in {"disable", "drop"} -> DisableAddonV4(c, a, o.kind = "drop")
          [] o.kind = "upgrade"   -> UpgradeAddonClustersV4(o.clusters, a)
          [] o.kind \in {"add", "addEnable"} -> AddToCatalog(a)
          [] o.kind = "edit"      -> EditCatalogEntry(a)
          [] o.kind = "delete"    -> DeleteFromCatalog(a)

\* What the second round of reads adds.
Extend(w, o) ==
    LET c == The(o)
    IN  CASE o.kind = "remove" /\ main[c] # NoFile -> [w EXCEPT ![c] = NoFile]
          [] o.kind = "addEnable" -> [w EXCEPT ![c] = Switch(c, o.addon, {"on"})]
          [] OTHER -> w

-----------------------------------------------------------------------------
(* Merging at the Git provider: a squash of base..head onto main.  An entry  *)
(* that only one side changed merges; whether two changes of one file are    *)
(* too close to merge is the provider's choice.                              *)

MergedFile(b, h, n) == IF h = b THEN n
                       ELSE IF n = b \/ n = h \/ NoFile \in {b, h, n} THEN h
                       ELSE [k \in DOMAIN n |-> IF h[k] # b[k] THEN h[k] ELSE n[k]]
Merged(d)   == [p \in Path |-> MergedFile(d.base[p], d.head[p], main[p])]

BothChanged(d, p) == d.base[p] # d.head[p] /\ d.base[p] # main[p] /\ d.head[p] # main[p]
Clash(d, p) == /\ BothChanged(d, p)
               /\ \/ NoFile \in {d.base[p], d.head[p], main[p]}
                  \/ \E k \in Key(p) : Cardinality({d.base[p][k], d.head[p][k], main[p][k]}) = 3
Mergeable(d) == \A p \in Path : ~Clash(d, p)
Refusable(d) == \E p \in Path : BothChanged(d, p)

-----------------------------------------------------------------------------
(* Requests *)

\* Repositories to start from: some clusters are listed, some addons approved,
\* and a cluster that is listed may have approved addons switched on.
Start == {m \in Repo :
             /\ m[Registry] # NoFile /\ m[Catalog] # NoFile
             /\ \A a \in Addon : m[Catalog][a] \in {{"added"}, NoEntry}
             /\ \A c \in Cluster : m[c] # NoFile =>
                   /\ m[Registry][c] # NoEntry
                   /\ \A a \in Addon : m[c][a] # NoEntry => m[c][a] = {"on"} /\ m[Catalog][a] # NoEntry}

Init ==
    /\ main \in Start
    /\ lock = Nobody
    /\ op = [r \in Request |-> NoOp]
    /\ pc = [r \in Request |-> "idle"]
    /\ plan = [r \in Request |-> NoPlan]
    /\ pr = [r \in Request |-> NoPR]
    /\ faults = 0
    /\ behind = [r \in Request |-> FALSE]
    /\ disturbed = [r \in Request |-> FALSE]

history == <<behind, disturbed>>
Fault   == faults < MaxFaults /\ faults' = faults + 1
Goto(r, next) == pc' = [pc EXCEPT ![r] = next]
Onward(r)     == Goto(r, After(op[r].kind, pc[r]))
Answer(r)     == Goto(r, "answered")

Ask(r) ==
    /\ pc[r] = "idle"
    /\ \E o \in Asked : op' = [op EXCEPT ![r] = o] /\ Goto(r, First(o.kind))
    /\ UNCHANGED <<main, lock, plan, pr, faults, history>>

\* The pull request or the cluster that the operation is about.
Look(r) ==
    /\ pc[r] = "look"
    /\ LET known == IF op[r].kind = "register" THEN ~OpenRegistration(The(op[r])) ELSE Exists(The(op[r]))
       IN  IF known THEN Onward(r) ELSE Answer(r)
    /\ UNCHANGED <<main, lock, op, plan, pr, faults, history>>

\* catalogAddonForV4
Gate(r) ==
    /\ pc[r] = "gate"
    /\ IF Has(Catalog, op[r].addon) THEN Onward(r) ELSE Answer(r)
    /\ UNCHANGED <<main, lock, op, plan, pr, faults, history>>

\* readFileForRewrite, and the edit of what it returns.
Read(r) ==
    /\ pc[r] = "read"
    /\ IF Accepts(op[r]) THEN Onward(r) /\ plan' = [plan EXCEPT ![r] = Rewrite(op[r])]
                         ELSE Answer(r) /\ UNCHANGED plan
    /\ UNCHANGED <<main, lock, op, pr, faults, history>>

\* The reads after it: the assignment file of the cluster, or those of all.
Survey(r) ==
    /\ pc[r] = "survey"
    /\ IF op[r].kind = "delete" /\ EnabledSomewhere(op[r].addon)
       THEN Answer(r) /\ UNCHANGED plan
       ELSE Onward(r) /\ plan' = [plan EXCEPT ![r] = Extend(@, op[r])]
    /\ UNCHANGED <<main, lock, op, pr, faults, history>>

\* A read that fails ends the request, but for two lenient ones: the look for
\* an open registration, and a removal's look for the assignment file.
ReadFails(r) ==
    /\ pc[r] \in {"look", "gate", "read", "survey"}
    /\ Fault
    /\ IF <<pc[r], op[r].kind>> \in {<<"look", "register">>, <<"survey", "remove">>}
       THEN Onward(r) ELSE Answer(r)
    /\ UNCHANGED <<main, lock, op, plan, pr, history>>

-----------------------------------------------------------------------------
(* commitChangesWithMeta *)

\* A removal that finds nothing in Git makes no commit.
NothingToWrite(r) ==
    /\ pc[r] = "lock"
    /\ plan[r] = NoPlan
    /\ Answer(r)
    /\ UNCHANGED <<main, lock, op, plan, pr, faults, history>>

NoMutex == TRUE
Free    == lock = Nobody
Lock(r) ==
    /\ pc[r] = "lock"
    /\ plan[r] # NoPlan
    /\ Free
    /\ lock' = r
    /\ Goto(r, "open")
    /\ UNCHANGED <<main, op, plan, pr, faults, history>>

\* The branch is created from main, the files are written and deleted on it,
\* and the pull request is opened.  Nothing of it is visible before.
Deletable(w) == \A p \in Path : w[p] = NoFile => main[p] # NoFile
WrittenOnly(w) == w
Branch(w)    == [p \in Path |-> IF w[p] = Keep THEN main[p] ELSE w[p]]

Open(r) ==
    /\ pc[r] = "open"
    /\ Deletable(plan[r])
    /\ pr' = [pr EXCEPT ![r] = [status |-> "open", base |-> main, head |-> Branch(plan[r])]]
    /\ Goto(r, IF op[r].auto THEN "merge" ELSE "leave")
    /\ UNCHANGED <<main, lock, op, plan, faults, history>>

\* A file to delete that is not on the branch fails the commit, too.
FailedCommit == "leave"
OpenFails(r) ==
    /\ pc[r] = "open"
    /\ IF Deletable(plan[r]) THEN Fault ELSE UNCHANGED faults
    /\ Goto(r, FailedCommit)
    /\ UNCHANGED <<main, lock, op, plan, pr, history>>

\* Main moves to a merged pull request; the others may have read the old one.
Reading(q) == pc[q] \in {"look", "gate", "read", "survey", "lock", "open"} /\ pc[q] # First(op[q].kind)
Land(r) ==
    /\ main' = Merged(pr[r])
    /\ pr' = [pr EXCEPT ![r].status = "merged"]
    /\ behind' = [q \in Request |-> behind[q] \/ (Reading(q) /\ main' # main)]

AutoMerge(r) ==
    /\ pc[r] = "merge"
    /\ pr[r].status = "open"
    /\ Mergeable(pr[r])
    /\ Land(r)
    /\ Goto(r, "leave")
    /\ UNCHANGED <<lock, op, plan, faults, disturbed>>

\* The provider refuses, or the pull request is not open any more.
MergeRefused(r) ==
    /\ pc[r] = "merge"
    /\ pr[r].status # "open" \/ Refusable(pr[r])
    /\ Goto(r, "leave")
    /\ UNCHANGED <<main, lock, op, plan, pr, faults, history>>

MergeFails(r) ==
    /\ pc[r] = "merge"
    /\ Fault
    /\ Goto(r, "leave")
    /\ UNCHANGED <<main, lock, op, plan, pr, history>>

Leave(r) ==
    /\ pc[r] = "leave"
    /\ lock' = Nobody
    /\ Answer(r)
    /\ UNCHANGED <<main, op, plan, pr, faults, history>>

-----------------------------------------------------------------------------
(* People *)

PersonMerges(r) ==
    /\ pr[r].status = "open"
    /\ Mergeable(pr[r])
    /\ Land(r)
    /\ disturbed' = [q \in Request |-> disturbed[q] \/ (pc[q] = "merge" /\ main' # main)]
    /\ UNCHANGED <<lock, op, pc, plan, faults>>

PersonCloses(r) ==
    /\ pr[r].status = "open"
    /\ pr' = [pr EXCEPT ![r].status = "closed"]
    /\ UNCHANGED <<main, lock, op, pc, plan, faults, history>>

Prepares(r) == Ask(r) \/ Look(r) \/ Gate(r) \/ Read(r) \/ Survey(r) \/ ReadFails(r) \/ NothingToWrite(r)
Commits(r)  == Lock(r) \/ Open(r) \/ OpenFails(r) \/ AutoMerge(r) \/ MergeRefused(r) \/ MergeFails(r) \/ Leave(r)

Next == \E r \in Request : Prepares(r) \/ Commits(r) \/ PersonMerges(r) \/ PersonCloses(r)

Spec == Init /\ [][Next]_vars

-----------------------------------------------------------------------------
(* Properties *)

TypeOK ==
    /\ main \in Repo
    /\ lock \in Request \cup {Nobody}
    /\ op \in [Request -> Op \cup {NoOp}]
    /\ pc \in [Request -> {"idle", "look", "gate", "read", "survey", "lock", "open", "merge", "leave", "answered"}]
    /\ plan \in [Request -> Plan]
    /\ pr \in [Request -> PR]
    /\ faults \in 0..MaxFaults
    /\ behind \in [Request -> BOOLEAN]
    /\ disturbed \in [Request -> BOOLEAN]

EntryAt(m, p, k) == IF m[p] = NoFile THEN NoEntry ELSE m[p][k]

\* The entries that an operation is about.
Concerns(o, p, k) ==
    \/ o.kind \in {"register", "remove", "forget"} /\ p = Registry /\ k \in o.clusters
    \/ o.kind = "remove" /\ p \in o.clusters
    \/ o.kind \in {"add", "addEnable", "edit", "delete"} /\ p = Catalog /\ k = o.addon
    \/ o.kind \in {"enable", "switchOff", "disable", "drop", "upgrade", "addEnable"}
          /\ p \in o.clusters /\ k = o.addon

Lands(r) == pr[r].status = "open" /\ pr'[r].status = "merged"

\* A pull request whose request read main as its branch found it changes,
\* whenever and by whomever it is merged and whatever else was merged in the
\* meantime, no other entry of any file than the ones it was asked about.
\* In particular no read that fails makes it a rewrite from an empty file.
OnlyWhatWasAsked ==
    [][\A r \in Request : Lands(r) /\ ~behind[r] =>
          \A p \in Path : \A k \in Key(p) :
              EntryAt(main', p, k) # EntryAt(main, p, k) => Concerns(op[r], p, k)]_vars

\* No cluster has an addon switched on that is not in the catalog.
Sound(m) == \A c \in Cluster, a \in Addon :
    m[c] # NoFile /\ m[c][a] # NoEntry /\ "on" \in m[c][a] => EntryAt(m, Catalog, a) # NoEntry

\* A pull request that nothing overtook, neither between its request's reads
\* and its branch nor between its branch and its merge, keeps the repository
\* sound: the checks of the twelve operations are enough one at a time.
UndisturbedMergeKeepsSound ==
    [][\A r \in Request : Lands(r) /\ ~behind[r] /\ pr[r].base = main /\ Sound(main) => Sound(main')]_vars

\* The mutex is held from the branch to the merge, so the provider never
\* refuses an auto-merge because of another request's auto-merge: a conflict
\* means that a person merged something in between.
ConflictNeedsPeople ==
    [][\A r \in Request :
          pc[r] = "merge" /\ pc'[r] = "leave" /\ pr[r].status = "open" /\ pr'[r].status = "open" /\ faults' = faults
              => disturbed[r]]_vars

\* What commitChangesWithMeta relies on when it only logs a conflict: a merge
\* never takes a cluster off the registry that its request did not name.
NoClusterDropped ==
    [][\A r \in Request : Lands(r) => \A c \in Cluster :
          EntryAt(main, Registry, c) # NoEntry /\ EntryAt(main', Registry, c) = NoEntry
              => op[r].kind \in {"remove", "forget"} /\ c \in op[r].clusters]_vars
=============================================================================
