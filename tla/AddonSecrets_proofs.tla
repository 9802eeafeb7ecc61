------------------------- MODULE AddonSecrets_proofs -------------------------
(* Theorems of AddonSecrets, for any number of namespaces, values, edits,    *)
(* failed calls and restarts.  Types, and what a delete takes, hold whoever  *)
(* acts; what the record keeps in sight holds of the periodic loop alone.    *)
EXTENDS AddonSecrets, TLAPS

-----------------------------------------------------------------------------
(* Types, and the delete of a leftover *)

\* A delete that nothing overtook goes on only with a namespace that the plan
\* it made did not claim.
Unclaimed ==
    delete.at \in {"get", "gate", "delete"} /\ delete.calm => delete.of \notin Claimed

Inv == TypeOK /\ Unclaimed

Deletion == [at : {"idle", "plan", "get", "gate", "delete"}, of : Namespace \cup {None}, calm : BOOLEAN]

LEMMA InvInit == Init => Inv
<1> SUFFICES ASSUME Init PROVE Inv
  OBVIOUS
<1>1. Quiet \in Pass
  BY DEF Quiet, Pass
<1>2. NoDelete \in Deletion /\ NoDelete.at = "idle"
  BY DEF NoDelete, Deletion
<1>3. pass \in [Process -> Pass] /\ secret \in [Namespace -> Value \cup {None, Foreign, Bare}]
  BY <1>1 DEF Init
<1>4. edits \in 0..MaxEdits /\ faults \in 0..MaxFaults /\ restarts \in 0..MaxRestarts
  BY SecretsConstants DEF Init
<1>5. TypeOK
  BY <1>2, <1>3, <1>4 DEF Init, TypeOK, Deletion
<1> QED BY <1>2, <1>5 DEF Inv, Unclaimed, Init

\* A step of a pass that leaves the delete and Git alone.
LEMMA PassKeeps ==
    ASSUME Inv, NEW p \in Process, NEW x \in Pass, To(p, x),
           UNCHANGED <<people, delete>>,
           secret' \in [Namespace -> Value \cup {None, Foreign, Bare}],
           stored' \subseteq Namespace, known' \subseteq Namespace, orphans' \subseteq Namespace,
           loaded' \in BOOLEAN, dirty' \in BOOLEAN,
           Calm \/ Fault
    PROVE  Inv'
<1>1. pass' \in [Process -> Pass]
  BY DEF To, Inv, TypeOK
<1>2. edits' \in 0..MaxEdits /\ faults' \in 0..MaxFaults /\ restarts' \in 0..MaxRestarts
  BY SecretsConstants DEF Inv, TypeOK, Calm, Fault, counts
<1>3. TypeOK'
  BY <1>1, <1>2 DEF Inv, TypeOK, people
<1> QED BY <1>3 DEF Inv, Unclaimed, people, Claimed

\* What a step of a pass writes in it.
LEMMA Fields ==
    ASSUME TypeOK, NEW p \in Process
    PROVE  /\ pass[p] \in Pass /\ Quiet \in Pass
           /\ pass[p].work \subseteq Namespace /\ pass[p].names \subseteq Namespace
           /\ pass[p].todo \subseteq Namespace /\ pass[p].to \in Namespace \cup {None}
           /\ pass[p].put \in Value \cup {None} /\ pass[p].found \subseteq Namespace
           /\ pass[p].empty \subseteq Namespace /\ pass[p].before \subseteq Namespace
BY DEF TypeOK, Pass, Quiet

LEMMA GoesKeeps ==
    ASSUME Inv, NEW p \in Process, Goes(p) PROVE Inv'
<1>0. TypeOK /\ pass[p] \in Pass /\ Quiet \in Pass
  BY Fields DEF Inv
<1>1. CASE Plan(p)
  <2>1. PICK todo \in SUBSET Claimed : Planned(p, Claimed, todo)
    BY <1>1 DEF Plan
  <2>2. [Quiet EXCEPT !.at = "push", !.work = Claimed, !.names = catalog, !.todo = todo] \in Pass
    BY <1>0, <2>1 DEF Pass, Quiet, Claimed, TypeOK
  <2> QED BY <1>0, <1>1, <2>1, <2>2, PassKeeps DEF Plan, Planned, record, people, TypeOK
<1>2. CASE Write(p)
  <2>1. [pass[p] EXCEPT !.at = "push", !.to = None, !.put = None] \in Pass
    BY <1>0 DEF Pass
  <2>2. secret' \in [Namespace -> Value \cup {None, Foreign, Bare}]
    BY <1>0, <1>2, Fields DEF Write, TypeOK
  <2> QED BY <1>0, <1>2, <2>1, <2>2, PassKeeps DEF Write, record, TypeOK
<1>3. CASE Pushed(p)
  <2>1. (IF p = "sync" THEN Quiet ELSE [pass[p] EXCEPT !.at = "scan"]) \in Pass
    BY <1>0 DEF Pass
  <2> QED BY <1>0, <1>3, <2>1, PassKeeps DEF Pushed, record, TypeOK
<1>4. CASE Scan(p)
  <2> DEFINE ns == known \cup pass[p].names \cup (IF loaded THEN {} ELSE stored)
  <2>1. ns \subseteq Namespace
    BY <1>0, Fields DEF TypeOK
  <2>2. [pass[p] EXCEPT !.at = "list", !.todo = ns, !.before = orphans] \in Pass
    BY <1>0, <2>1 DEF Pass, TypeOK
  <2>3. known' = ns /\ dirty' \in BOOLEAN /\ loaded' \in BOOLEAN
    BY <1>0, <1>4 DEF Scan, TypeOK
  <2> QED BY <1>0, <1>4, <2>1, <2>2, <2>3, PassKeeps DEF Scan, TypeOK
<1>5. CASE Publish(p)
  <2>1. [pass[p] EXCEPT !.at = "save"] \in Pass
    BY <1>0 DEF Pass
  <2>2. known' \subseteq Namespace /\ orphans' \subseteq Namespace /\ dirty' \in BOOLEAN
    BY <1>0, <1>5, Fields DEF Publish, Remember, Found, TypeOK
  <2> QED BY <1>0, <1>5, <2>1, <2>2, PassKeeps DEF Publish, TypeOK
<1>6. CASE Save(p)
  BY <1>0, <1>6, PassKeeps DEF Save, TypeOK
<1>7. ASSUME NEW n \in Namespace, Look(p, n) PROVE Inv'
  <2> DEFINE x == IF UpToDate(n) \/ secret[n] = Foreign
                  THEN [pass[p] EXCEPT !.todo = @ \ {n}]
                  ELSE [pass[p] EXCEPT !.todo = @ \ {n}, !.at = "write", !.to = n, !.put = vault]
  <2>1. [pass[p] EXCEPT !.todo = @ \ {n}] \in Pass
    BY <1>0 DEF Pass
  <2>2. [pass[p] EXCEPT !.todo = @ \ {n}, !.at = "write", !.to = n, !.put = vault] \in Pass
    BY <1>0 DEF Pass, TypeOK
  <2>3. x \in Pass /\ To(p, x)
    BY <1>7, <2>1, <2>2 DEF Look
  <2> QED BY <1>0, <1>7, <2>3, PassKeeps DEF Look, record, TypeOK
<1>8. ASSUME NEW n \in Namespace, List(p, n) PROVE Inv'
  <2> DEFINE x == [pass[p] EXCEPT !.todo = @ \ {n},
                             !.found = IF Ours(n) /\ n \notin pass[p].work THEN @ \cup {n} ELSE @,
                             !.empty = IF Ours(n) THEN @ ELSE @ \cup {n}]
  <2>1. x \in Pass
    BY <1>0 DEF Pass
  <2> QED BY <1>0, <1>8, <2>1, PassKeeps DEF List, record, TypeOK
<1> QED BY <1>1, <1>2, <1>3, <1>4, <1>5, <1>6, <1>7, <1>8 DEF Goes

LEMMA FaltersKeeps ==
    ASSUME Inv, NEW p \in Process, Falters(p) PROVE Inv'
<1>0. TypeOK /\ pass[p] \in Pass /\ Quiet \in Pass
  BY Fields DEF Inv
<1>1. CASE PlanUnread(p)
  <2>1. [Quiet EXCEPT !.at = "push", !.work = {}, !.names = catalog, !.todo = {}] \in Pass
    BY <1>0 DEF Pass, Quiet, TypeOK
  <2> QED BY <1>0, <1>1, <2>1, PassKeeps DEF PlanUnread, Planned, record, people, TypeOK
<1>2. CASE WriteFails(p)
  <2>1. [pass[p] EXCEPT !.at = "push", !.to = None, !.put = None] \in Pass
    BY <1>0 DEF Pass
  <2> QED BY <1>0, <1>2, <2>1, PassKeeps DEF WriteFails, record, TypeOK
<1>3. CASE LoadFails(p)
  <2>1. known' \subseteq Namespace /\ dirty' \in BOOLEAN
    BY <1>0, <1>3, Fields DEF LoadFails, Remember, TypeOK
  <2>2. [pass[p] EXCEPT !.at = "list", !.todo = known', !.before = orphans] \in Pass
    BY <1>0, <2>1 DEF Pass, TypeOK
  <2> QED BY <1>0, <1>3, <2>1, <2>2, PassKeeps DEF LoadFails, TypeOK
<1>4. CASE Unreachable(p)
  <2>1. [pass[p] EXCEPT !.at = "save"] \in Pass
    BY <1>0 DEF Pass
  <2> QED BY <1>0, <1>4, <2>1, PassKeeps DEF Unreachable, record, TypeOK
<1>5. CASE SaveFails(p)
  BY <1>0, <1>5, PassKeeps DEF SaveFails, record, TypeOK
<1>6. ASSUME NEW n \in Namespace, LookFails(p, n) PROVE Inv'
  <2>1. [pass[p] EXCEPT !.todo = @ \ {n}] \in Pass
    BY <1>0 DEF Pass
  <2> QED BY <1>0, <1>6, <2>1, PassKeeps DEF LookFails, record, TypeOK
<1>7. ASSUME NEW n \in Namespace, ListFails(p, n) PROVE Inv'
  <2>1. [pass[p] EXCEPT !.todo = @ \ {n}, !.found = @ \cup (pass[p].before \cap {n}), !.empty = Unlisted(p, n)] \in Pass
    BY <1>0 DEF Pass, Unlisted
  <2> QED BY <1>0, <1>7, <2>1, PassKeeps DEF ListFails, record, TypeOK
<1> QED BY <1>1, <1>2, <1>3, <1>4, <1>5, <1>6, <1>7 DEF Falters

\* The steps of a delete: the plan is the one that looks at what is claimed.
LEMMA DeletesKeeps ==
    ASSUME Inv, Deletes PROVE Inv'
<1>0. TypeOK /\ Unclaimed /\ delete \in Deletion
  BY DEF Inv, TypeOK, Deletion
<1>1. NoDelete \in Deletion /\ NoDelete.at = "idle"
  BY DEF NoDelete, Deletion
<1>2. UNCHANGED <<people, stored, record, pass>> /\ (Calm \/ Fault)
  BY DEF Deletes, DeleteAsk, DeletePlan, DeletePlanUnread, DeleteGet, DeleteGate, Delete, DeleteFails, Aside
<1>3. orphans' \subseteq Namespace /\ secret' \in [Namespace -> Value \cup {None, Foreign, Bare}]
  BY <1>0 DEF Deletes, DeleteAsk, DeletePlan, DeletePlanUnread, DeleteGet, DeleteGate, Delete, DeleteFails,
              Refuse, Proceed, Forget, TypeOK
<1>4. delete' \in Deletion /\ (delete'.at \in {"get", "gate", "delete"} /\ delete'.calm => delete'.of \notin Claimed)
  <2>1. ASSUME NEW next \in {"gate", "delete"}, Proceed(next), delete.at \in {"get", "gate"} PROVE <1>4
    BY <1>0, <2>1 DEF Proceed, Deletion, Unclaimed
  <2>2. ASSUME NEW n \in Namespace, DeleteAsk(n) PROVE <1>4
    BY <2>2 DEF DeleteAsk, Deletion
  <2>3. CASE DeletePlan
    BY <1>0, <1>1, <2>3 DEF DeletePlan, ClaimedNow, Refuse, Proceed, Deletion
  <2>4. CASE DeletePlanUnread
    BY <1>0, <2>4 DEF DeletePlanUnread, Deletion
  <2>5. CASE DeleteGet \/ DeleteGate
    BY <1>1, <2>1, <2>5 DEF DeleteGet, DeleteGate, Refuse, Deleting
  <2>6. CASE Delete \/ DeleteFails
    BY <1>1, <2>6 DEF Delete, DeleteFails, Refuse
  <2> QED BY <2>2, <2>3, <2>4, <2>5, <2>6 DEF Deletes
<1>5. edits' \in 0..MaxEdits /\ faults' \in 0..MaxFaults /\ restarts' \in 0..MaxRestarts
  BY <1>0, <1>2, SecretsConstants DEF TypeOK, Calm, Fault, counts
<1>6. TypeOK'
  BY <1>0, <1>2, <1>3, <1>4, <1>5 DEF TypeOK, people, record, Deletion
<1> QED BY <1>2, <1>4, <1>6 DEF Inv, Unclaimed, people, Claimed

LEMMA OthersKeeps ==
    ASSUME Inv, Others PROVE Inv'
<1>0. TypeOK /\ Unclaimed /\ delete \in Deletion
  BY DEF Inv, TypeOK, Deletion
<1>1. ASSUME Edit PROVE edits' \in 0..MaxEdits /\ faults' \in 0..MaxFaults /\ restarts' \in 0..MaxRestarts
  BY <1>0, <1>1, SecretsConstants DEF Edit, TypeOK
<1>2. CASE EditGit
  <2>1. delete' \in Deletion /\ ~(delete'.at \in {"get", "gate", "delete"} /\ delete'.calm)
    BY <1>0, <1>2 DEF EditGit, Deletion
  <2>2. TypeOK'
    BY <1>0, <1>1, <1>2, <2>1 DEF EditGit, TypeOK, record, Deletion
  <2> QED BY <2>1, <2>2 DEF Inv, Unclaimed
<1>3. CASE Switch \/ Rotate
  <2>1. TypeOK'
    BY <1>0, <1>1, <1>3 DEF Switch, Rotate, TypeOK, record
  <2> QED BY <1>0, <1>3, <2>1 DEF Switch, Rotate, Inv, Unclaimed, Claimed
<1>4. ASSUME NEW n \in Namespace, EditCluster(n) PROVE Inv'
  <2>1. TypeOK'
    BY <1>0, <1>1, <1>4 DEF EditCluster, TypeOK, record, people
  <2> QED BY <1>0, <1>4, <2>1 DEF EditCluster, Inv, Unclaimed, Claimed, people
<1>5. CASE Restart
  <2>1. NoDelete \in Deletion /\ NoDelete.at = "idle" /\ Quiet \in Pass
    BY DEF NoDelete, Deletion, Quiet, Pass
  <2>2. restarts' \in 0..MaxRestarts
    BY <1>0, <1>5, SecretsConstants DEF Restart, TypeOK
  <2>3. TypeOK'
    BY <1>0, <1>5, <2>1, <2>2 DEF Restart, TypeOK, people, Deletion
  <2> QED BY <1>5, <2>1, <2>3 DEF Restart, Inv, Unclaimed
<1> QED BY <1>2, <1>3, <1>4, <1>5 DEF Others

LEMMA InvStep == Inv /\ [Next]_vars => Inv'
<1> SUFFICES ASSUME Inv, [Next]_vars PROVE Inv'
  OBVIOUS
<1>1. CASE UNCHANGED vars
  BY <1>1 DEF vars, people, record, counts, Inv, TypeOK, Unclaimed, Claimed
<1> QED BY <1>1, GoesKeeps, FaltersKeeps, DeletesKeeps, OthersKeeps DEF Next

LEMMA Invariance == Spec => []Inv
BY InvInit, InvStep, PTL DEF Spec

\* The record, the passes and the delete under way stay well formed.
THEOREM TypeCorrect == Spec => []TypeOK
<1>1. Inv => TypeOK
  BY DEF Inv
<1> QED BY <1>1, Invariance, PTL

\* A delete of a leftover takes no Secret that the catalog asks for, unless Git
\* was edited or could not be read while it was under way.
THEOREM NoClaimedDeleted == Spec => DeleteOnlyUnclaimed
<1>1. ASSUME Inv, NEW n \in Namespace, delete.at = "delete", delete.of = n
      PROVE  n \notin Claimed \/ ~delete.calm
  BY <1>1 DEF Inv, Unclaimed
<1>2. Inv /\ [Next]_vars =>
          [\A n \in Namespace :
              delete.at = "delete" /\ delete.of = n /\ secret[n] # None /\ secret'[n] = None /\ faults' = faults
                  => n \notin Claimed \/ ~delete.calm \/ edits' # edits]_vars
  BY <1>1
<1> QED BY <1>2, Invariance, PTL DEF Spec, DeleteOnlyUnclaimed

-----------------------------------------------------------------------------
(* What the record keeps in sight, when the loop is the only one to act      *)

\* A pass writes where its plan names it, and has listed nothing before its
\* scan; what it found empty is.
Writing == {"push", "write"}
Before  == {"push", "write", "scan"}
Careful(x) ==
    /\ x.at \in Writing => x.todo \subseteq x.names
    /\ x.at = "write" => x.to \in x.names
    /\ x.at \in Before => x.empty = {}
Watched(p) == Careful(pass[p]) /\ \A n \in pass[p].empty : ~Ours(n)

\* A Secret of Sharko's that is not on record is that of a pass that will scan,
\* unless a restart has lost it; but then it is not in the saved record either,
\* from the moment that this was read.
Lost(n)  == restarts > 0 /\ (loaded => n \notin stored)
OnRecord == \A n \in Namespace : Ours(n) => n \in known \/ Underway(n) \/ Lost(n)

LInv == Inv /\ (\A p \in Process : Watched(p)) /\ OnRecord

Kept(x, n) == n \in known' \/ (x.at \in Before /\ n \in x.names) \/ Lost(n)'

LEMMA LInvInit == Init => LInv
<1> SUFFICES ASSUME Init PROVE LInv
  OBVIOUS
<1>1. \A n \in Namespace : ~Ours(n)
  BY SecretsConstants DEF Init, Ours
<1>2. \A p \in Process : Watched(p)
  BY DEF Init, Watched, Careful, Quiet, Writing, Before
<1> QED BY <1>1, <1>2, InvInit DEF LInv, OnRecord

\* Only a push makes a Secret Sharko's.
LEMMA NotOurs ==
    ASSUME NEW n, NEW m, NEW x \in {None, Foreign, Bare}, TypeOK, n \in Namespace,
           secret' = [secret EXCEPT ![m] = x] \/ UNCHANGED secret
    PROVE  Ours(n)' => Ours(n)
BY SecretsConstants DEF Ours, TypeOK

LEMMA LoopStands ==
    ASSUME LInv, Process \subseteq {"loop"}, NEW p \in Process
    PROVE  /\ TypeOK /\ pass[p] \in Pass /\ Careful(pass[p]) /\ \A n \in pass[p].empty : ~Ours(n)
           /\ \A n \in Namespace : Ours(n) => n \in known \/ (pass[p].at \in Before /\ n \in pass[p].names) \/ Lost(n)
           /\ restarts \in Nat
BY Fields DEF LInv, Inv, Watched, OnRecord, Underway, Before, TypeOK

\* A step of the loop's pass.
LEMMA LoopMoves ==
    ASSUME LInv, Inv', Process \subseteq {"loop"}, NEW p \in Process, NEW x, To(p, x),
           Careful(x), \A n \in x.empty : ~Ours(n)',
           \A n \in Namespace : Ours(n)' => Kept(x, n)
    PROVE  LInv'
<1>1. pass'[p] = x /\ \A q \in Process : q = p
  BY LoopStands DEF To, TypeOK
<1>2. \A q \in Process : Watched(q)'
  BY <1>1 DEF Watched
<1>3. OnRecord'
  BY <1>1 DEF OnRecord, Kept, Underway, Before
<1> QED BY <1>2, <1>3 DEF LInv

\* A step that leaves the passes and the record alone.
LEMMA AsideKeeps ==
    ASSUME LInv, Inv', UNCHANGED <<stored, record, pass, restarts>>,
           \A n \in Namespace : Ours(n)' => Ours(n)
    PROVE  LInv'
<1>1. \A p \in Process : pass[p].empty \subseteq Namespace
  BY Fields DEF LInv, Inv
<1>2. \A p \in Process : Watched(p)'
  BY <1>1 DEF LInv, Watched
<1>3. OnRecord'
  BY DEF LInv, OnRecord, Underway, Lost, record
<1> QED BY <1>2, <1>3 DEF LInv

LEMMA LoopGoes ==
    ASSUME LInv, Inv', Process \subseteq {"loop"}, NEW p \in Process, Goes(p)
    PROVE  LInv'
<1>0. /\ TypeOK /\ pass[p] \in Pass /\ Careful(pass[p]) /\ \A n \in pass[p].empty : ~Ours(n)
      /\ \A n \in Namespace : Ours(n) => n \in known \/ (pass[p].at \in Before /\ n \in pass[p].names) \/ Lost(n)
      /\ p = "loop"
  BY LoopStands
<1>1. CASE Plan(p)
  <2>1. PICK todo \in SUBSET Claimed : Planned(p, Claimed, todo)
    BY <1>1 DEF Plan
  <2> DEFINE x == [Quiet EXCEPT !.at = "push", !.work = Claimed, !.names = catalog, !.todo = todo]
  <2>2. x.at = "push" /\ x.todo \subseteq x.names /\ x.empty = {}
    BY <2>1 DEF Quiet, Claimed
  <2>3. To(p, x) /\ UNCHANGED <<secret, stored, known, loaded, restarts>> /\ pass[p].at = "idle"
    BY <1>1, <2>1 DEF Plan, Planned, record, Calm, counts, At
  <2> HIDE DEF x
  <2>4. Careful(x) /\ \A n \in Namespace : Ours(n)' => Kept(x, n)
    BY <1>0, <2>2, <2>3 DEF Careful, Writing, Before, Kept, Ours, Lost
  <2> QED BY <2>2, <2>3, <2>4, LoopMoves
<1>2. CASE Write(p)
  <2> DEFINE x == [pass[p] EXCEPT !.at = "push", !.to = None, !.put = None]
  <2>1. x.at = "push" /\ x.names = pass[p].names /\ x.todo = pass[p].todo /\ x.empty = {}
    BY <1>0, <1>2 DEF Pass, Careful, Before, Write, At
  <2>2. To(p, x) /\ UNCHANGED <<stored, known, loaded, restarts>> /\ pass[p].at = "write"
    BY <1>2 DEF Write, record, Calm, counts, At
  <2>3. \A n \in Namespace : n # pass[p].to => (Ours(n)' <=> Ours(n))
    BY <1>0, <1>2 DEF Write, Ours, TypeOK
  <2> HIDE DEF x
  <2>4. Careful(x) /\ \A n \in Namespace : Ours(n)' => Kept(x, n)
    BY <1>0, <2>1, <2>2, <2>3 DEF Careful, Writing, Before, Kept, Lost
  <2> QED BY <2>1, <2>2, <2>4, LoopMoves
<1>3. CASE Pushed(p)
  <2> DEFINE x == [pass[p] EXCEPT !.at = "scan"]
  <2>1. x.at = "scan" /\ x.names = pass[p].names /\ x.empty = {}
    BY <1>0, <1>3 DEF Pass, Careful, Before, Pushed, At
  <2>2. To(p, x) /\ UNCHANGED <<secret, stored, known, loaded, restarts>> /\ pass[p].at = "push"
    BY <1>0, <1>3 DEF Pushed, record, Calm, counts, At
  <2> HIDE DEF x
  <2>3. Careful(x) /\ \A n \in Namespace : Ours(n)' => Kept(x, n)
    BY <1>0, <2>1, <2>2 DEF Careful, Writing, Before, Kept, Ours, Lost
  <2> QED BY <2>1, <2>2, <2>3, LoopMoves
<1>4. CASE Scan(p)
  <2> DEFINE ns == known \cup pass[p].names \cup (IF loaded THEN {} ELSE stored)
             x  == [pass[p] EXCEPT !.at = "list", !.todo = ns, !.before = orphans]
  <2>1. x.at = "list" /\ x.empty = pass[p].empty
    BY <1>0 DEF Pass
  <2>2. To(p, x) /\ known' = ns /\ loaded' = TRUE /\ UNCHANGED <<secret, stored, restarts>>
    BY <1>4 DEF Scan, Calm, counts
  <2>3. known \subseteq ns /\ pass[p].names \subseteq ns /\ (loaded \/ stored \subseteq ns)
    OBVIOUS
  <2> HIDE DEF x, ns
  <2>4. Careful(x) /\ (\A n \in x.empty : ~Ours(n)') /\ \A n \in Namespace : Ours(n)' => Kept(x, n)
    BY <1>0, <2>1, <2>2, <2>3 DEF Careful, Writing, Before, Kept, Ours, Lost
  <2> QED BY <2>2, <2>4, LoopMoves
<1>5. CASE Publish(p)
  <2> DEFINE x == [pass[p] EXCEPT !.at = "save"]
  <2>1. x.at = "save" /\ x.empty = pass[p].empty
    BY <1>0 DEF Pass
  <2>2. /\ To(p, x) /\ UNCHANGED <<secret, stored, loaded, restarts>> /\ pass[p].at = "list"
        /\ \A n \in known : n \notin pass[p].empty => n \in known'
    BY <1>5 DEF Publish, Remember, Calm, counts, At
  <2> HIDE DEF x
  <2>3. Careful(x) /\ (\A n \in x.empty : ~Ours(n)') /\ \A n \in Namespace : Ours(n)' => Kept(x, n)
    BY <1>0, <2>1, <2>2 DEF Careful, Writing, Before, Kept, Ours, Lost
  <2> QED BY <2>2, <2>3, LoopMoves
<1>6. CASE Save(p)
  <2>1. To(p, Quiet) /\ UNCHANGED <<secret, known, loaded, restarts>> /\ pass[p].at = "save"
    BY <1>6 DEF Save, Calm, counts, At
  <2>2. stored' = known \/ stored' = stored
    BY <1>6 DEF Save
  <2>3. Quiet.at = "idle" /\ Quiet.empty = {}
    BY DEF Quiet
  <2>4. Careful(Quiet) /\ \A n \in Namespace : Ours(n)' => Kept(Quiet, n)
    BY <1>0, <2>1, <2>2, <2>3 DEF Careful, Writing, Before, Kept, Ours, Lost
  <2> QED BY <2>1, <2>3, <2>4, LoopMoves
<1>7. ASSUME NEW n \in Namespace, Look(p, n) PROVE LInv'
  <2> DEFINE y == [pass[p] EXCEPT !.todo = @ \ {n}]
             z == [pass[p] EXCEPT !.todo = @ \ {n}, !.at = "write", !.to = n, !.put = vault]
             x == IF UpToDate(n) \/ secret[n] = Foreign THEN y ELSE z
  <2>1. /\ y.at = "push" /\ y.todo \subseteq pass[p].todo /\ y.names = pass[p].names /\ y.empty = {}
        /\ z.at = "write" /\ z.todo \subseteq pass[p].todo /\ z.names = pass[p].names /\ z.empty = {}
        /\ z.to = n /\ n \in pass[p].todo
    BY <1>0, <1>7 DEF Pass, Careful, Before, Look, At
  <2>2. To(p, x) /\ UNCHANGED <<secret, stored, known, loaded, restarts>> /\ pass[p].at = "push"
    BY <1>7 DEF Look, record, Calm, counts, At
  <2> HIDE DEF y, z
  <2>3. Careful(y) /\ Careful(z)
    BY <1>0, <2>1, <2>2 DEF Careful, Writing, Before
  <2>4. x.at \in Before /\ x.names = pass[p].names /\ x.empty = {} /\ Careful(x)
    BY <2>1, <2>3 DEF Before
  <2> HIDE DEF x
  <2>5. \A m \in Namespace : Ours(m)' => Kept(x, m)
    BY <1>0, <2>2, <2>4 DEF Kept, Ours, Lost
  <2> QED BY <2>2, <2>4, <2>5, LoopMoves
<1>8. ASSUME NEW n \in Namespace, List(p, n) PROVE LInv'
  <2> DEFINE x == [pass[p] EXCEPT !.todo = @ \ {n},
                             !.found = IF Ours(n) /\ n \notin pass[p].work THEN @ \cup {n} ELSE @,
                             !.empty = IF Ours(n) THEN @ ELSE @ \cup {n}]
  <2>1. x.at = "list" /\ \A m \in x.empty : ~Ours(m)
    BY <1>0, <1>8 DEF Pass, List, At
  <2>2. To(p, x) /\ UNCHANGED <<secret, stored, known, loaded, restarts>> /\ pass[p].at = "list"
    BY <1>8 DEF List, record, Calm, counts, At
  <2> HIDE DEF x
  <2>3. Careful(x) /\ (\A m \in x.empty : ~Ours(m)') /\ \A m \in Namespace : Ours(m)' => Kept(x, m)
    BY <1>0, <2>1, <2>2 DEF Careful, Writing, Before, Kept, Ours, Lost
  <2> QED BY <2>2, <2>3, LoopMoves
<1> QED BY <1>1, <1>2, <1>3, <1>4, <1>5, <1>6, <1>7, <1>8 DEF Goes

LEMMA LoopFalters ==
    ASSUME LInv, Inv', Process \subseteq {"loop"}, NEW p \in Process, Falters(p)
    PROVE  LInv'
<1>0. /\ TypeOK /\ pass[p] \in Pass /\ Careful(pass[p]) /\ \A n \in pass[p].empty : ~Ours(n)
      /\ \A n \in Namespace : Ours(n) => n \in known \/ (pass[p].at \in Before /\ n \in pass[p].names) \/ Lost(n)
  BY LoopStands
<1>1. CASE PlanUnread(p)
  <2> DEFINE x == [Quiet EXCEPT !.at = "push", !.work = {}, !.names = catalog, !.todo = {}]
  <2>1. x.at = "push" /\ x.todo = {} /\ x.empty = {}
    BY DEF Quiet
  <2>2. To(p, x) /\ UNCHANGED <<secret, stored, known, loaded, restarts>> /\ pass[p].at = "idle"
    BY <1>1 DEF PlanUnread, Planned, record, Fault, At
  <2> HIDE DEF x
  <2>3. Careful(x) /\ \A n \in Namespace : Ours(n)' => Kept(x, n)
    BY <1>0, <2>1, <2>2 DEF Careful, Writing, Before, Kept, Ours, Lost
  <2> QED BY <2>1, <2>2, <2>3, LoopMoves
<1>2. CASE WriteFails(p)
  <2> DEFINE x == [pass[p] EXCEPT !.at = "push", !.to = None, !.put = None]
  <2>1. x.at = "push" /\ x.names = pass[p].names /\ x.todo = pass[p].todo /\ x.empty = {}
    BY <1>0, <1>2 DEF Pass, Careful, Before, WriteFails, At
  <2>2. To(p, x) /\ UNCHANGED <<secret, stored, known, loaded, restarts>> /\ pass[p].at = "write"
    BY <1>2 DEF WriteFails, record, Fault, At
  <2> HIDE DEF x
  <2>3. Careful(x) /\ \A n \in Namespace : Ours(n)' => Kept(x, n)
    BY <1>0, <2>1, <2>2 DEF Careful, Writing, Before, Kept, Ours, Lost
  <2> QED BY <2>1, <2>2, <2>3, LoopMoves
<1>3. CASE LoadFails(p)
  <2> DEFINE x == [pass[p] EXCEPT !.at = "list", !.todo = known', !.before = orphans]
  <2>1. x.at = "list" /\ x.empty = pass[p].empty
    BY <1>0 DEF Pass
  <2>2. To(p, x) /\ known' = known \cup pass[p].names /\ UNCHANGED <<secret, stored, loaded, restarts>>
    BY <1>3 DEF LoadFails, Remember, Fault
  <2> HIDE DEF x
  <2>3. Careful(x) /\ (\A n \in x.empty : ~Ours(n)') /\ \A n \in Namespace : Ours(n)' => Kept(x, n)
    BY <1>0, <2>1, <2>2 DEF Careful, Writing, Before, Kept, Ours, Lost
  <2> QED BY <2>2, <2>3, LoopMoves
<1>4. CASE Unreachable(p)
  <2> DEFINE x == [pass[p] EXCEPT !.at = "save"]
  <2>1. x.at = "save" /\ x.empty = pass[p].empty
    BY <1>0 DEF Pass
  <2>2. To(p, x) /\ UNCHANGED <<secret, stored, known, loaded, restarts>> /\ pass[p].at = "list"
    BY <1>4 DEF Unreachable, record, Fault, At
  <2> HIDE DEF x
  <2>3. Careful(x) /\ (\A n \in x.empty : ~Ours(n)') /\ \A n \in Namespace : Ours(n)' => Kept(x, n)
    BY <1>0, <2>1, <2>2 DEF Careful, Writing, Before, Kept, Ours, Lost
  <2> QED BY <2>2, <2>3, LoopMoves
<1>5. CASE SaveFails(p)
  <2>1. To(p, Quiet) /\ UNCHANGED <<secret, stored, known, loaded, restarts>> /\ pass[p].at = "save"
    BY <1>5 DEF SaveFails, record, Fault, At
  <2>2. Quiet.at = "idle" /\ Quiet.empty = {}
    BY DEF Quiet
  <2>3. Careful(Quiet) /\ \A n \in Namespace : Ours(n)' => Kept(Quiet, n)
    BY <1>0, <2>1, <2>2 DEF Careful, Writing, Before, Kept, Ours, Lost
  <2> QED BY <2>1, <2>2, <2>3, LoopMoves
<1>6. ASSUME NEW n \in Namespace, LookFails(p, n) PROVE LInv'
  <2> DEFINE x == [pass[p] EXCEPT !.todo = @ \ {n}]
  <2>1. x.at = "push" /\ x.todo \subseteq pass[p].todo /\ x.names = pass[p].names /\ x.empty = {}
    BY <1>0, <1>6 DEF Pass, Careful, Before, LookFails, At
  <2>2. To(p, x) /\ UNCHANGED <<secret, stored, known, loaded, restarts>> /\ pass[p].at = "push"
    BY <1>6 DEF LookFails, record, Fault, At
  <2> HIDE DEF x
  <2>3. Careful(x) /\ \A m \in Namespace : Ours(m)' => Kept(x, m)
    BY <1>0, <2>1, <2>2 DEF Careful, Writing, Before, Kept, Ours, Lost
  <2> QED BY <2>1, <2>2, <2>3, LoopMoves
<1>7. ASSUME NEW n \in Namespace, ListFails(p, n) PROVE LInv'
  <2> DEFINE x == [pass[p] EXCEPT !.todo = @ \ {n}, !.found = @ \cup (pass[p].before \cap {n}), !.empty = Unlisted(p, n)]
  <2>1. x.at = "list" /\ x.empty = pass[p].empty
    BY <1>0, <1>7 DEF Pass, ListFails, At, Unlisted
  <2>2. To(p, x) /\ UNCHANGED <<secret, stored, known, loaded, restarts>> /\ pass[p].at = "list"
    BY <1>7 DEF ListFails, record, Fault, At
  <2> HIDE DEF x
  <2>3. Careful(x) /\ (\A m \in x.empty : ~Ours(m)') /\ \A m \in Namespace : Ours(m)' => Kept(x, m)
    BY <1>0, <2>1, <2>2 DEF Careful, Writing, Before, Kept, Ours, Lost
  <2> QED BY <2>2, <2>3, LoopMoves
<1> QED BY <1>1, <1>2, <1>3, <1>4, <1>5, <1>6, <1>7 DEF Falters

LEMMA LInvStep ==
    ASSUME Process \subseteq {"loop"} PROVE LInv /\ [Next]_vars => LInv'
<1> SUFFICES ASSUME LInv, [Next]_vars PROVE LInv'
  OBVIOUS
<1>0. TypeOK /\ Inv'
  BY InvStep DEF LInv, Inv
<1>1. CASE UNCHANGED vars
  BY <1>0, <1>1, AsideKeeps DEF vars, record, counts, Ours
<1>2. CASE Deletes
  <2>1. UNCHANGED <<stored, record, pass, restarts>>
    BY <1>2 DEF Deletes, DeleteAsk, DeletePlan, DeletePlanUnread, DeleteGet, DeleteGate, Delete, DeleteFails,
                Aside, Calm, Fault, counts
  <2>2. secret' = [secret EXCEPT ![delete.of] = None] \/ UNCHANGED secret
    BY <1>2 DEF Deletes, DeleteAsk, DeletePlan, DeletePlanUnread, DeleteGet, DeleteGate, Delete, DeleteFails,
                Refuse, Proceed
  <2>3. \A n \in Namespace : Ours(n)' => Ours(n)
    BY <1>0, <2>2, NotOurs
  <2> QED BY <1>0, <2>1, <2>3, AsideKeeps
<1>3. CASE EditGit \/ Switch \/ Rotate
  BY <1>0, <1>3, AsideKeeps DEF EditGit, Switch, Rotate, Edit, Ours
<1>4. ASSUME NEW m \in Namespace, EditCluster(m) PROVE LInv'
  <2>1. \A n \in Namespace : Ours(n)' => Ours(n)
    BY <1>0, <1>4, NotOurs DEF EditCluster
  <2> QED BY <1>0, <1>4, <2>1, AsideKeeps DEF EditCluster, Edit
<1>5. CASE Restart
  <2>1. \A p \in Process : Watched(p)'
    BY <1>5 DEF Restart, Watched, Careful, Quiet, Writing, Before
  <2>2. restarts' > 0 /\ loaded' = FALSE
    BY <1>0, <1>5, SecretsConstants DEF Restart, TypeOK
  <2> QED BY <1>0, <2>1, <2>2 DEF LInv, OnRecord, Lost
<1> QED BY <1>0, <1>1, <1>2, <1>3, <1>4, <1>5, LoopGoes, LoopFalters DEF Next, Others

LEMMA LoopInvariance ==
    ASSUME Process \subseteq {"loop"} PROVE Spec => []LInv
<1>1. LInv /\ [Next]_vars => LInv'
  BY LInvStep
<1> QED BY <1>1, LInvInit, PTL DEF Spec

\* A Secret that the loop wrote stays within sight of its scan, whatever fails
\* and whatever people edit, until a restart loses what was not saved.
THEOREM InSight ==
    ASSUME Process \subseteq {"loop"} PROVE Spec => []LeftoverInSight
<1>1. LInv => LeftoverInSight
  BY DEF LInv, OnRecord, Lost, LeftoverInSight
<1> QED BY <1>1, LoopInvariance, PTL

\* The saved record never loses a namespace that a Secret of Sharko's is in,
\* whatever could not be read, listed or saved, and over any number of restarts.
THEOREM SavedInSight ==
    ASSUME Process \subseteq {"loop"} PROVE Spec => SavedKeepsLeftovers
<1>1. ASSUME LInv, Next, NEW n \in stored \ stored', Ours(n) PROVE FALSE
  <2>1. PICK p \in Process : Save(p) /\ Saves
    BY <1>1 DEF Next, Goes, Falters, Deletes, Others, Plan, Planned, PlanUnread, Look, LookFails, Write, WriteFails,
                Pushed, Scan, LoadFails, Unreachable, List, ListFails, Publish, Save, SaveFails, Aside, DeleteAsk,
                DeletePlan, DeletePlanUnread, DeleteGet, DeleteGate, Delete, DeleteFails, EditGit, Switch, Rotate,
                EditCluster, Restart
  <2>2. stored' = known /\ loaded /\ pass[p].at = "save"
    BY <2>1 DEF Save, Saves, At
  <2>3. n \in Namespace
    BY <1>1 DEF LInv, Inv, TypeOK
  <2> QED BY <1>1, <2>2, <2>3, LoopStands DEF Lost, Before
<1>2. LInv /\ [Next]_vars => [\A n \in stored \ stored' : ~Ours(n) \/ n \in catalog]_vars
  BY <1>1
<1> QED BY <1>2, LoopInvariance, PTL DEF Spec, SavedKeepsLeftovers
=============================================================================
