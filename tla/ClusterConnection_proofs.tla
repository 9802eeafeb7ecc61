----------------------- MODULE ClusterConnection_proofs -----------------------
(***************************************************************************)
(* Theorems of ClusterConnection, for any pull requests, installations and *)
(* bounds that ConnectionConstants allows; a theorem that holds only where *)
(* some requests are not made, or people leave things alone, says so of    *)
(* the settings (Careful, OneKeeper, NoneWrites, OneRegistration).         *)
(***************************************************************************)
EXTENDS ClusterConnection, TLAPS

\* What a request is at says what its pull request can be.
RequestsStand ==
    \A p \in PR :
        /\ req[p] \in {"idle", "find", "open", "mark", "setMark"} => git[p] = "none"
        /\ req[p] \in {"mark", "setMark"} => p \in KeepPR
        /\ req[p] \in {"track", "number", "merged"} => p \in Removal
        /\ req[p] \in {"track", "merge", "number", "merged"} => git[p] # "none"
        /\ req[p] = "merge" => p \in AutoMerge
        /\ Unhurried /\ req[p] = "track" => git[p] # "merged"

\* The tracker never knows more of a pull request than Git does, and never
\* takes a merged one for closed or gone.
EntriesStand ==
    \A p \in PR : tracked[p] # NoEntry =>
        /\ git[p] # "none"
        /\ git[p] = "open" => tracked[p].status = "open"
        /\ git[p] = "merged" => tracked[p].status \in {"open", "merged"}

\* A numbered mark, and what the reconciler took from one, is that of a pull
\* request that was opened, of a removal that keeps the connection.
MarkIsGood(s) == s # NoSecret /\ s.keep \in PR => s.keep \in KeepPR /\ git[s.keep] # "none"
MarkStands == MarkIsGood(secret)
BackStands ==
    /\ back # NoPR => git[back] # "none"
    /\ tick \in {"setNumber", "handback", "owns"} => back # NoPR

\* A finish step that is past the addon secrets has taken them off, and only a
\* registration puts them on again.
SecretsLast ==
    (\A r \in RegPR : req[r] = "idle") => \A f \in Finisher : fin[f] \in {"marks", "delete"} => ~addons

\* A sweep that is past the tracker found no merged removal there, and none is
\* merged before it is over.
Past == {"openPRs", "recheck", "sweep"}
SweepLast ==
    Unhurried /\ tick \in Past => \A p \in AllPR : git[p] = "merged" => tracked[p] = NoEntry

IInv == TypeOK /\ RequestsStand /\ EntriesStand /\ MarkStands /\ BackStands /\ SecretsLast /\ SweepLast

-----------------------------------------------------------------------------
(* Pull requests, Secrets and bounds *)

LEMMA Numbers ==
    /\ RegPR \subseteq PR /\ KeepPR \subseteq PR /\ AllPR \subseteq PR /\ Removal \subseteq PR
    /\ RegPR \cap Removal = {} /\ KeepPR \cap AllPR = {} /\ Removal = KeepPR \cup AllPR
    /\ NoPR \notin PR /\ {NoMark, Pending, OldPending} \cap PR = {} /\ NoMark \notin Unnumbered
BY ConnectionConstants DEF PR, Removal, Unnumbered

LEMMA Bounds ==
    ASSUME TypeOK, NoFault \/ Fault \/ ByHand
    PROVE  /\ setting' = setting /\ setting' \in Settings
           /\ faults' \in 0..setting'.maxFaults /\ hands' \in 0..setting'.maxHands
<1>1. setting \in Setting /\ setting.maxFaults \in Nat /\ setting.maxHands \in Nat
  BY ConnectionConstants DEF TypeOK, Setting
<1> QED BY <1>1 DEF TypeOK, NoFault, Fault, ByHand, bounds

\* What can be written in a Secret.
LEMMA SecretParts ==
    ASSUME NEW s \in Secret
    PROVE  s # NoSecret /\ s.keep \in {NoMark} \cup Unnumbered \cup PR /\ s.managed \in BOOLEAN
BY ConnectionConstants DEF Secret

LEMMA NewSecretParts ==
    ASSUME NEW m \in BOOLEAN, NEW w \in {"none", "fresh", "late"}
    PROVE  LET s == NewSecret(m, w) IN s \in Secret /\ s.keep = NoMark /\ s.managed = m /\ s.pending = w
BY DEF NewSecret, Secret

LEMMA ReleasedParts ==
    ASSUME TypeOK, NEW own
    PROVE  /\ Released(own) \in Secret \cup {NoSecret}
           /\ Exists <=> Released(own) # NoSecret
           /\ Exists => ~Released(own).managed /\ Released(own).keep = IF secret.keep \in own THEN NoMark ELSE secret.keep
<1>1. CASE ~Exists
  BY <1>1 DEF Released, Exists
<1>2. CASE Exists
  <2>1. secret \in Secret /\ secret.keep \in {NoMark} \cup Unnumbered \cup PR
    BY <1>2, SecretParts DEF TypeOK, Exists
  <2>2. Released(own) = [secret EXCEPT !.managed = FALSE, !.keep = IF @ \in own THEN NoMark ELSE @]
    BY <1>2 DEF Released
  <2>3. Released(own) \in Secret /\ ~Released(own).managed
        /\ Released(own).keep = IF secret.keep \in own THEN NoMark ELSE secret.keep
    BY <2>1, <2>2 DEF Secret
  <2> QED BY <1>2, <2>3, SecretParts
<1> QED BY <1>1, <1>2

LEMMA EnsuredParts ==
    ASSUME TypeOK, NEW same \in BOOLEAN
    PROVE  /\ Ensured(same) \in Secret /\ Ensured(same) # NoSecret /\ Ensured(same).managed
           /\ Exists => Ensured(same).keep = secret.keep
           /\ ~Exists => Ensured(same).keep = NoMark
<1>1. CASE ~Exists
  <2>1. Ensured(same) = NewSecret(TRUE, "fresh")
    BY <1>1 DEF Ensured, Managed
  <2>2. Ensured(same) \in Secret /\ Ensured(same).managed /\ Ensured(same).keep = NoMark
    BY <2>1 DEF NewSecret, Secret
  <2> QED BY <1>1, <2>2, SecretParts
<1>2. CASE Exists
  <2>1. secret \in Secret
    BY <1>2 DEF TypeOK, Exists
  <2>2. secret.managed \in BOOLEAN
    BY <2>1, SecretParts
  <2>3. CASE ~secret.managed
    <3>1. Ensured(same) = [secret EXCEPT !.managed = TRUE, !.adopted = TRUE, !.pending = "fresh"]
      BY <1>2, <2>3 DEF Ensured, Managed, Adopted
    <3>2. Ensured(same) \in Secret /\ Ensured(same).keep = secret.keep /\ Ensured(same).managed
      BY <2>1, <3>1 DEF Secret
    <3> QED BY <1>2, <3>2, SecretParts
  <2>4. CASE secret.managed /\ same
    <3>1. Ensured(same) = secret
      BY <1>2, <2>4 DEF Ensured, Managed
    <3> QED BY <1>2, <2>1, <2>4, <3>1, SecretParts
  <2>5. CASE secret.managed /\ ~same
    <3>1. Ensured(same) = [secret EXCEPT !.pending = "fresh"]
      BY <1>2, <2>5 DEF Ensured, Managed
    <3>2. Ensured(same) \in Secret /\ Ensured(same).keep = secret.keep /\ Ensured(same).managed
      BY <2>1, <2>5, <3>1 DEF Secret
    <3> QED BY <1>2, <3>2, SecretParts
  <2> QED BY <2>2, <2>3, <2>4, <2>5
<1> QED BY <1>1, <1>2

LEMMA InitIInv == Init => IInv
<1> SUFFICES ASSUME Init PROVE IInv
  OBVIOUS
<1>1. NewSecret(TRUE, "none") \in Secret /\ NewSecret(FALSE, "none") \in Secret
      /\ NewSecret(TRUE, "none").keep = NoMark /\ NewSecret(FALSE, "none").keep = NoMark
  BY NewSecretParts
<1>2. setting \in Setting /\ 0 \in 0..setting.maxFaults /\ 0 \in 0..setting.maxHands /\ setting.registered \in BOOLEAN
  BY ConnectionConstants DEF Init, Setting
<1>3. secret \in Secret \cup {NoSecret} /\ (Exists => secret.keep = NoMark)
  BY <1>1 DEF Init, Exists
<1>4. TypeOK
  BY <1>2, <1>3 DEF Init, TypeOK, ReqSteps, FinSteps, TickSteps
<1>5. RequestsStand /\ EntriesStand /\ BackStands /\ SecretsLast /\ SweepLast
  BY DEF Init, RequestsStand, EntriesStand, BackStands, SecretsLast, SweepLast, Past
<1>6. MarkStands
  BY <1>3, Numbers DEF MarkStands, MarkIsGood, Exists
<1> QED BY <1>4, <1>5, <1>6 DEF IInv

\* What the code writes in the place of the Secret.
Written(s) ==
    \/ s = NoSecret
    \/ s = secret
    \/ Exists /\ \E k \in {NoMark} \cup Unnumbered \cup {q \in KeepPR : git[q] # "none"} :
                    s = [secret EXCEPT !.keep = k]
    \/ Exists /\ \E w \in {"none", "fresh", "late"} : s = [secret EXCEPT !.pending = w]
    \/ Exists /\ s = [secret EXCEPT !.managed = FALSE]
    \/ \E own : s = Released(own)
    \/ \E same \in BOOLEAN : s = Ensured(same)
    \/ s = NewSecret(TRUE, "none")

LEMMA Writes ==
    ASSUME TypeOK, MarkStands, NEW s, Written(s)
    PROVE  s \in Secret \cup {NoSecret} /\ MarkIsGood(s)
<1>0. NoMark \notin PR /\ Unnumbered \cap PR = {} /\ KeepPR \subseteq PR
  BY Numbers DEF Unnumbered
<1>1. CASE s = NoSecret \/ s = secret
  BY <1>1 DEF TypeOK, MarkStands, MarkIsGood
<1>2. ASSUME Exists, NEW k \in {NoMark} \cup Unnumbered \cup {q \in KeepPR : git[q] # "none"},
             s = [secret EXCEPT !.keep = k]
      PROVE  s \in Secret \cup {NoSecret} /\ MarkIsGood(s)
  <2>1. secret \in Secret /\ k \in {NoMark} \cup Unnumbered \cup PR
    BY <1>0, <1>2 DEF TypeOK, Exists
  <2>2. s \in Secret /\ s.keep = k
    BY <1>2, <2>1 DEF Secret
  <2> QED BY <1>0, <1>2, <2>2 DEF MarkIsGood
<1>3. ASSUME Exists, NEW w \in {"none", "fresh", "late"}, s = [secret EXCEPT !.pending = w]
      PROVE  s \in Secret \cup {NoSecret} /\ MarkIsGood(s)
  <2>1. secret \in Secret
    BY <1>3 DEF TypeOK, Exists
  <2>2. s \in Secret /\ s.keep = secret.keep
    BY <1>3, <2>1 DEF Secret
  <2> QED BY <1>3, <2>2 DEF MarkStands, MarkIsGood, Exists
<1>4. ASSUME Exists, s = [secret EXCEPT !.managed = FALSE]
      PROVE  s \in Secret \cup {NoSecret} /\ MarkIsGood(s)
  <2>1. secret \in Secret
    BY <1>4 DEF TypeOK, Exists
  <2>2. s \in Secret /\ s.keep = secret.keep
    BY <1>4, <2>1 DEF Secret
  <2> QED BY <1>4, <2>2 DEF MarkStands, MarkIsGood, Exists
<1>5. ASSUME NEW own, s = Released(own)
      PROVE  s \in Secret \cup {NoSecret} /\ MarkIsGood(s)
  BY <1>0, <1>5, ReleasedParts DEF MarkStands, MarkIsGood, Exists
<1>6. ASSUME NEW same \in BOOLEAN, s = Ensured(same)
      PROVE  s \in Secret \cup {NoSecret} /\ MarkIsGood(s)
  BY <1>0, <1>6, EnsuredParts DEF MarkStands, MarkIsGood, Exists
<1>7. ASSUME s = NewSecret(TRUE, "none")
      PROVE  s \in Secret \cup {NoSecret} /\ MarkIsGood(s)
  <2>1. s \in Secret /\ s.keep = NoMark
    BY <1>7 DEF NewSecret, Secret
  <2> QED BY <1>0, <2>1 DEF MarkIsGood
<1> QED BY <1>1, <1>2, <1>3, <1>4, <1>5, <1>6, <1>7 DEF Written

\* A request, a finish step or the repository moves on.
LEMMA Goes ==
    ASSUME TypeOK, NEW p \in PR, NEW step \in ReqSteps, ReqGoto(p, step)
    PROVE  req' \in [PR -> ReqSteps] /\ put' \subseteq RegPR \cup KeepPR
BY DEF TypeOK, ReqGoto

LEMMA Merges ==
    ASSUME TypeOK, NEW p \in PR, Merge(p)
    PROVE  /\ git[p] = "open" /\ git' = [git EXCEPT ![p] = "merged"]
           /\ inGit' \in BOOLEAN /\ git' \in [PR -> {"none", "open", "merged", "closed", "gone"}]
           /\ diff' \subseteq PR /\ kept' \in {"no", "marked", "known"} /\ firm' \in BOOLEAN
<1>1. inGit' \in BOOLEAN
  <2>1. inGit' = (IF p \in diff THEN p \in RegPR ELSE inGit)
    BY DEF Merge
  <2>2. inGit \in BOOLEAN /\ (p \in RegPR) \in BOOLEAN
    BY DEF TypeOK
  <2> QED BY <2>1, <2>2
<1>2. kept' \in {"no", "marked", "known"}
  <2>1. kept' = kept \/ kept' = "known" \/ kept' = "marked"
    BY DEF Merge
  <2> QED BY <2>1 DEF TypeOK
<1> QED BY <1>1, <1>2 DEF Merge, TypeOK

LEMMA Opened ==
    ASSUME NEW g \in {"open", "merged", "closed", "gone"}, NEW b \in BOOLEAN
    PROVE  [status |-> g, gaveUp |-> b] \in Entry /\ [status |-> g, gaveUp |-> b].status = g
BY DEF Entry

LEMMA Tracks == NewEntry \in Entry /\ NewEntry.status = "open"
BY DEF Entry, NewEntry

-----------------------------------------------------------------------------
(* Each operation keeps the invariant *)

LEMMA RegWriteKeeps ==
    ASSUME IInv, NEW p \in PR, RegWrite(p) PROVE IInv'
<1> USE DEF IInv, RegWrite, Requested, ReqGoto, ReqPut, Fault, NoFault, ByHand, repo, live, pass, requests, promise, bounds
<1>w. Written(secret')
  BY DEF Written
<1>s. secret' \in Secret \cup {NoSecret} /\ MarkIsGood(secret')
  BY <1>w, Writes
<1>1. TypeOK'
  BY <1>s, Bounds, Numbers DEF TypeOK, ReqSteps, FinSteps, TickSteps
<1>2. RequestsStand'
  BY Numbers DEF TypeOK, RequestsStand, Unhurried, AutoMerge
<1>3. MarkStands'
  BY <1>s, Numbers DEF TypeOK, MarkStands, MarkIsGood
<1>4. SecretsLast'
  BY Numbers DEF TypeOK, SecretsLast
<1>5. EntriesStand' /\ BackStands' /\ SweepLast'
  BY DEF EntriesStand, BackStands, SweepLast, Past, Unhurried, AutoMerge
<1> QED BY <1>1, <1>2, <1>3, <1>4, <1>5

LEMMA RegFindKeeps ==
    ASSUME IInv, NEW p \in PR, RegFind(p) PROVE IInv'
<1> USE DEF IInv, RegFind, ReqGoto, Fault, NoFault, ByHand, repo, live, pass, requests, promise, bounds
<1>1. TypeOK'
  <2>1. addons' \in BOOLEAN
    BY DEF TypeOK
  <2> QED BY <2>1, Bounds DEF TypeOK, ReqSteps
<1>2. RequestsStand'
  BY Numbers DEF TypeOK, RequestsStand, Unhurried, AutoMerge
<1>3. SecretsLast'
  BY Numbers DEF TypeOK, SecretsLast
<1>4. EntriesStand' /\ MarkStands' /\ BackStands' /\ SweepLast'
  BY DEF EntriesStand, MarkStands, MarkIsGood, BackStands, SweepLast, Past, Unhurried, AutoMerge
<1> QED BY <1>1, <1>2, <1>3, <1>4

LEMMA RegOpenKeeps ==
    ASSUME IInv, NEW p \in PR, RegOpen(p) PROVE IInv'
<1> USE DEF IInv, RegOpen, ReqGoto, Opens, Overtaken, Fault, NoFault, ByHand, repo, live, pass, requests, promise, bounds
<1>1. TypeOK'
  <2>1. req' \in [PR -> ReqSteps] /\ put' \subseteq RegPR \cup KeepPR
    BY DEF TypeOK, ReqSteps
  <2>2. tracked' \in [PR -> Entry \cup {NoEntry}]
    BY Tracks DEF TypeOK
  <2>3. git' \in [PR -> {"none", "open", "merged", "closed", "gone"}] /\ diff' \subseteq PR
    BY DEF TypeOK
  <2> QED BY <2>1, <2>2, <2>3, Bounds DEF TypeOK
<1>2. RequestsStand'
  BY Numbers DEF TypeOK, RequestsStand, Unhurried, AutoMerge
<1>3. EntriesStand'
  BY Tracks DEF TypeOK, EntriesStand, RequestsStand
<1>4. MarkStands'
  BY Numbers DEF TypeOK, MarkStands, MarkIsGood
<1>5. BackStands'
  BY Numbers DEF TypeOK, BackStands
<1>6. SecretsLast'
  BY Numbers DEF TypeOK, SecretsLast
<1>7. SweepLast'
  BY Numbers DEF TypeOK, SweepLast, Past, Unhurried, AutoMerge
<1> QED BY <1>1, <1>2, <1>3, <1>4, <1>5, <1>6, <1>7

LEMMA RegMergeKeeps ==
    ASSUME IInv, NEW p \in PR, RegMerge(p) PROVE IInv'
<1> USE DEF IInv, RegMerge, ReqGoto, Merge, Fault, NoFault, ByHand, repo, live, pass, requests, promise, bounds
<1>1. TypeOK'
  BY Merges, Bounds DEF TypeOK, ReqSteps
<1>2. RequestsStand'
  BY Numbers DEF TypeOK, RequestsStand, Unhurried, AutoMerge
<1>3. EntriesStand'
  BY Numbers DEF TypeOK, EntriesStand
<1>4. MarkStands'
  BY Numbers DEF TypeOK, MarkStands, MarkIsGood
<1>5. BackStands'
  BY Numbers DEF TypeOK, BackStands
<1>6. SecretsLast'
  BY Numbers DEF TypeOK, SecretsLast
<1>7. SweepLast'
  BY Numbers DEF TypeOK, SweepLast, Past, Unhurried, AutoMerge
<1> QED BY <1>1, <1>2, <1>3, <1>4, <1>5, <1>6, <1>7

LEMMA RemPlanKeeps ==
    ASSUME IInv, NEW p \in PR, RemPlan(p) PROVE IInv'
<1> USE DEF IInv, RemPlan, Requested, ReqGoto, FinGoto, FirstStep, Finisher, Fault, NoFault, ByHand, repo, live, pass, requests, promise, bounds
<1>1. TypeOK'
  BY Bounds, Numbers DEF TypeOK, ReqSteps, FinSteps, TickSteps
<1>2. RequestsStand'
  BY Numbers DEF TypeOK, RequestsStand, Unhurried, AutoMerge
<1>3. SecretsLast'
  BY Numbers DEF TypeOK, SecretsLast
<1>4. EntriesStand' /\ MarkStands' /\ BackStands' /\ SweepLast'
  BY DEF EntriesStand, MarkStands, MarkIsGood, BackStands, SweepLast, Past, Unhurried, AutoMerge
<1> QED BY <1>1, <1>2, <1>3, <1>4

LEMMA RemMarkKeeps ==
    ASSUME IInv, NEW p \in PR, RemMark(p) PROVE IInv'
<1> USE DEF IInv, RemMark, ReqGoto, Fault, NoFault, ByHand, repo, live, pass, requests, promise, bounds
<1>1. TypeOK'
  BY Bounds, Numbers DEF TypeOK, ReqSteps, FinSteps, TickSteps
<1>2. RequestsStand'
  BY Numbers DEF TypeOK, RequestsStand, Unhurried, AutoMerge
<1>3. SecretsLast'
  BY Numbers DEF TypeOK, SecretsLast
<1>4. EntriesStand' /\ MarkStands' /\ BackStands' /\ SweepLast'
  BY DEF EntriesStand, MarkStands, MarkIsGood, BackStands, SweepLast, Past, Unhurried, AutoMerge
<1> QED BY <1>1, <1>2, <1>3, <1>4

LEMMA RemSetMarkKeeps ==
    ASSUME IInv, NEW p \in PR, RemSetMark(p) PROVE IInv'
<1> USE DEF IInv, RemSetMark, ReqGoto, ReqPut, Fault, NoFault, ByHand, repo, live, pass, requests, promise, bounds
<1>w. Written(secret')
  BY Numbers DEF Written, TypeOK, RequestsStand, Unnumbered
<1>s. secret' \in Secret \cup {NoSecret} /\ MarkIsGood(secret')
  BY <1>w, Writes
<1>1. TypeOK'
  <2>1. req' \in [PR -> ReqSteps] /\ put' \subseteq RegPR \cup KeepPR
    BY Numbers DEF TypeOK, ReqSteps, RequestsStand
  <2>2. firm' \in BOOLEAN
    BY DEF TypeOK
  <2> QED BY <1>s, <2>1, <2>2, Bounds DEF TypeOK
<1>2. RequestsStand'
  BY Numbers DEF TypeOK, RequestsStand, Unhurried, AutoMerge
<1>3. MarkStands'
  BY <1>s, Numbers DEF TypeOK, MarkStands, MarkIsGood
<1>4. SecretsLast'
  BY Numbers DEF TypeOK, SecretsLast
<1>5. EntriesStand' /\ BackStands' /\ SweepLast'
  BY DEF EntriesStand, BackStands, SweepLast, Past, Unhurried, AutoMerge
<1> QED BY <1>1, <1>2, <1>3, <1>4, <1>5

LEMMA RemOpenKeeps ==
    ASSUME IInv, NEW p \in PR, RemOpen(p) PROVE IInv'
<1> USE DEF IInv, RemOpen, ReqGoto, Opens, Overtaken, Fault, NoFault, ByHand, repo, live, pass, requests, promise, bounds
<1>1. TypeOK'
  BY Bounds, Numbers DEF TypeOK, ReqSteps, FinSteps, TickSteps
<1>2. RequestsStand'
  BY Numbers DEF TypeOK, RequestsStand, Unhurried, AutoMerge
<1>3. EntriesStand'
  BY DEF TypeOK, EntriesStand, RequestsStand
<1>4. MarkStands'
  BY Numbers DEF TypeOK, MarkStands, MarkIsGood
<1>5. BackStands'
  BY Numbers DEF TypeOK, BackStands
<1>6. SecretsLast'
  BY Numbers DEF TypeOK, SecretsLast
<1>7. SweepLast'
  BY Numbers DEF TypeOK, SweepLast, Past, Unhurried, AutoMerge
<1> QED BY <1>1, <1>2, <1>3, <1>4, <1>5, <1>6, <1>7

LEMMA RemTrackKeeps ==
    ASSUME IInv, NEW p \in PR, RemTrack(p) PROVE IInv'
<1> USE DEF IInv, RemTrack, ReqGoto, Fault, NoFault, ByHand, repo, live, pass, requests, promise, bounds
<1>1. TypeOK'
  <2>1. req' \in [PR -> ReqSteps] /\ put' \subseteq RegPR \cup KeepPR
    BY DEF TypeOK, ReqSteps
  <2>2. tracked' \in [PR -> Entry \cup {NoEntry}]
    BY Tracks DEF TypeOK
  <2> QED BY <2>1, <2>2, Bounds DEF TypeOK
<1>2. RequestsStand'
  BY Numbers DEF TypeOK, RequestsStand, Unhurried, AutoMerge
<1>3. EntriesStand'
  BY Tracks, Numbers DEF TypeOK, EntriesStand, RequestsStand
<1>4. SecretsLast'
  BY Numbers DEF TypeOK, SecretsLast
<1>5. SweepLast'
  BY Numbers DEF TypeOK, SweepLast, Unhurried, AutoMerge, RequestsStand
<1>6. MarkStands' /\ BackStands'
  BY DEF MarkStands, MarkIsGood, BackStands
<1> QED BY <1>1, <1>2, <1>3, <1>4, <1>5, <1>6

LEMMA RemMergeKeeps ==
    ASSUME IInv, NEW p \in PR, RemMerge(p) PROVE IInv'
<1> USE DEF IInv, RemMerge, ReqGoto, Merge, Fault, NoFault, ByHand, repo, live, pass, requests, promise, bounds
<1>1. TypeOK'
  BY Merges, Bounds DEF TypeOK, ReqSteps
<1>2. RequestsStand'
  BY Numbers DEF TypeOK, RequestsStand, Unhurried, AutoMerge
<1>3. EntriesStand'
  BY Numbers DEF TypeOK, EntriesStand
<1>4. MarkStands'
  BY Numbers DEF TypeOK, MarkStands, MarkIsGood
<1>5. BackStands'
  BY Numbers DEF TypeOK, BackStands
<1>6. SecretsLast'
  BY Numbers DEF TypeOK, SecretsLast
<1>7. SweepLast'
  BY Numbers DEF TypeOK, SweepLast, Unhurried, AutoMerge, RequestsStand
<1> QED BY <1>1, <1>2, <1>3, <1>4, <1>5, <1>6, <1>7

LEMMA RemNumberKeeps ==
    ASSUME IInv, NEW p \in PR, RemNumber(p) PROVE IInv'
<1> USE DEF IInv, RemNumber, ReqGoto, FinGoto, FirstStep, Finisher, Fault, NoFault, ByHand, repo, live, pass, requests, promise, bounds
<1>w. Written(secret')
  BY Numbers DEF Written, TypeOK, RequestsStand, Unnumbered
<1>s. secret' \in Secret \cup {NoSecret} /\ MarkIsGood(secret')
  BY <1>w, Writes
<1>1. TypeOK'
  <2>1. req' \in [PR -> ReqSteps] /\ put' \subseteq RegPR \cup KeepPR
    BY DEF TypeOK, ReqSteps
  <2>2. fin' \in [Finisher -> FinSteps]
    BY DEF TypeOK, FinSteps
  <2> QED BY <1>s, <2>1, <2>2, Bounds DEF TypeOK
<1>2. RequestsStand'
  BY Numbers DEF TypeOK, RequestsStand, Unhurried, AutoMerge
<1>3. MarkStands'
  BY <1>s, Numbers DEF TypeOK, MarkStands, MarkIsGood
<1>4. SecretsLast'
  BY Numbers DEF TypeOK, SecretsLast
<1>5. EntriesStand' /\ BackStands' /\ SweepLast'
  BY DEF EntriesStand, BackStands, SweepLast, Past, Unhurried, AutoMerge
<1> QED BY <1>1, <1>2, <1>3, <1>4, <1>5

LEMMA RemUnmarkKeeps ==
    ASSUME IInv, NEW p \in PR, RemUnmark(p) PROVE IInv'
<1> USE DEF IInv, RemUnmark, ReqGoto, Fault, NoFault, ByHand, repo, live, pass, requests, promise, bounds
<1>w. Written(secret')
  BY Numbers DEF Written, TypeOK, RequestsStand, Unnumbered
<1>s. secret' \in Secret \cup {NoSecret} /\ MarkIsGood(secret')
  BY <1>w, Writes
<1>1. TypeOK'
  BY <1>s, Bounds, Numbers DEF TypeOK, ReqSteps, FinSteps, TickSteps
<1>2. RequestsStand'
  BY Numbers DEF TypeOK, RequestsStand, Unhurried, AutoMerge
<1>3. MarkStands'
  BY <1>s, Numbers DEF TypeOK, MarkStands, MarkIsGood
<1>4. SecretsLast'
  BY Numbers DEF TypeOK, SecretsLast
<1>5. EntriesStand' /\ BackStands' /\ SweepLast'
  BY DEF EntriesStand, BackStands, SweepLast, Past, Unhurried, AutoMerge
<1> QED BY <1>1, <1>2, <1>3, <1>4, <1>5

LEMMA TrackerSeesKeeps ==
    ASSUME IInv, NEW p \in PR, TrackerSees(p) PROVE IInv'
<1> USE DEF IInv, TrackerSees, HasStatus, Entry, Fault, NoFault, ByHand, repo, live, pass, requests, promise, bounds
<1>1. TypeOK'
  BY Opened, Bounds DEF TypeOK, EntriesStand
<1>2. EntriesStand'
  BY Numbers DEF TypeOK, EntriesStand
<1>3. SweepLast'
  BY Numbers DEF TypeOK, SweepLast, Past, Unhurried, AutoMerge
<1>4. RequestsStand' /\ MarkStands' /\ BackStands' /\ SecretsLast'
  BY DEF RequestsStand, Unhurried, AutoMerge, MarkStands, MarkIsGood, BackStands, SecretsLast
<1> QED BY <1>1, <1>2, <1>3, <1>4

LEMMA FinishStartKeeps ==
    ASSUME IInv, NEW p \in PR, FinishStart(p) PROVE IInv'
<1> USE DEF IInv, FinishStart, FinGoto, Finisher, Fault, NoFault, ByHand, repo, live, pass, requests, promise, bounds
<1>1. TypeOK'
  BY Bounds, Numbers DEF TypeOK, ReqSteps, FinSteps, TickSteps
<1>2. SecretsLast'
  BY Numbers DEF TypeOK, SecretsLast
<1>3. RequestsStand' /\ EntriesStand' /\ MarkStands' /\ BackStands' /\ SweepLast'
  BY DEF RequestsStand, Unhurried, AutoMerge, EntriesStand, MarkStands, MarkIsGood, BackStands, SweepLast, Past, Unhurried, AutoMerge
<1> QED BY <1>1, <1>2, <1>3

LEMMA GaveUpEndsKeeps ==
    ASSUME IInv, NEW p \in PR, GaveUpEnds(p) PROVE IInv'
<1> USE DEF IInv, GaveUpEnds, Fault, NoFault, ByHand, repo, live, pass, requests, promise, bounds
<1>1. TypeOK'
  BY Bounds, Numbers DEF TypeOK, ReqSteps, FinSteps, TickSteps
<1>2. EntriesStand'
  BY Numbers DEF TypeOK, EntriesStand
<1>3. SweepLast'
  BY Numbers DEF TypeOK, SweepLast, Past, Unhurried, AutoMerge
<1>4. RequestsStand' /\ MarkStands' /\ BackStands' /\ SecretsLast'
  BY DEF RequestsStand, Unhurried, AutoMerge, MarkStands, MarkIsGood, BackStands, SecretsLast
<1> QED BY <1>1, <1>2, <1>3, <1>4

LEMMA FinishCheckKeeps ==
    ASSUME IInv, NEW f \in Finisher, FinishCheck(f) PROVE IInv'
<1> USE DEF IInv, FinishCheck, FinGoto, Fault, NoFault, ByHand, repo, live, pass, requests, promise, bounds
<1>1. TypeOK'
  BY Bounds, Numbers DEF TypeOK, ReqSteps, FinSteps, TickSteps
<1>2. SecretsLast'
  BY Numbers DEF TypeOK, SecretsLast
<1>3. RequestsStand' /\ EntriesStand' /\ MarkStands' /\ BackStands' /\ SweepLast'
  BY DEF RequestsStand, Unhurried, AutoMerge, EntriesStand, MarkStands, MarkIsGood, BackStands, SweepLast, Past, Unhurried, AutoMerge
<1> QED BY <1>1, <1>2, <1>3

LEMMA FinishWaitingKeeps ==
    ASSUME IInv, NEW f \in Finisher, FinishWaiting(f) PROVE IInv'
<1> USE DEF IInv, FinishWaiting, FinGoto, FirstStep, Fault, NoFault, ByHand, repo, live, pass, requests, promise, bounds
<1>1. TypeOK'
  BY Bounds, Numbers DEF TypeOK, ReqSteps, FinSteps, TickSteps
<1>2. SecretsLast'
  BY Numbers DEF TypeOK, SecretsLast
<1>3. RequestsStand' /\ EntriesStand' /\ MarkStands' /\ BackStands' /\ SweepLast'
  BY DEF RequestsStand, Unhurried, AutoMerge, EntriesStand, MarkStands, MarkIsGood, BackStands, SweepLast, Past, Unhurried, AutoMerge
<1> QED BY <1>1, <1>2, <1>3

LEMMA FinishAddonsKeeps ==
    ASSUME IInv, NEW f \in Finisher, FinishAddons(f) PROVE IInv'
<1> USE DEF IInv, FinishAddons, FinGoto, Fault, NoFault, ByHand, repo, live, pass, requests, promise, bounds
<1>1. TypeOK'
  <2>1. addons' \in BOOLEAN
    BY DEF TypeOK
  <2> QED BY <2>1, Bounds DEF TypeOK, FinSteps
<1>2. SecretsLast'
  BY Numbers DEF TypeOK, SecretsLast
<1>3. RequestsStand' /\ EntriesStand' /\ MarkStands' /\ BackStands' /\ SweepLast'
  BY DEF RequestsStand, Unhurried, AutoMerge, EntriesStand, MarkStands, MarkIsGood, BackStands, SweepLast, Past, Unhurried, AutoMerge
<1> QED BY <1>1, <1>2, <1>3

LEMMA FinishMarksKeeps ==
    ASSUME IInv, NEW f \in Finisher, FinishMarks(f) PROVE IInv'
<1> USE DEF IInv, FinishMarks, FinGoto, Fault, NoFault, ByHand, repo, live, pass, requests, promise, bounds
<1>1. TypeOK'
  BY Bounds, Numbers DEF TypeOK, ReqSteps, FinSteps, TickSteps
<1>2. SecretsLast'
  BY Numbers DEF TypeOK, SecretsLast
<1>3. RequestsStand' /\ EntriesStand' /\ MarkStands' /\ BackStands' /\ SweepLast'
  BY DEF RequestsStand, Unhurried, AutoMerge, EntriesStand, MarkStands, MarkIsGood, BackStands, SweepLast, Past, Unhurried, AutoMerge
<1> QED BY <1>1, <1>2, <1>3

LEMMA FinishDeleteKeeps ==
    ASSUME IInv, NEW f \in Finisher, FinishDelete(f) PROVE IInv'
<1> USE DEF IInv, FinishDelete, FinGoto, Fault, NoFault, ByHand, repo, live, pass, requests, promise, bounds
<1>w. Written(secret')
  BY Numbers DEF Written, TypeOK, RequestsStand, Unnumbered
<1>s. secret' \in Secret \cup {NoSecret} /\ MarkIsGood(secret')
  BY <1>w, Writes
<1>1. TypeOK'
  BY <1>s, Bounds, Numbers DEF TypeOK, ReqSteps, FinSteps, TickSteps
<1>2. MarkStands'
  BY <1>s, Numbers DEF TypeOK, MarkStands, MarkIsGood
<1>3. SecretsLast'
  BY Numbers DEF TypeOK, SecretsLast
<1>4. RequestsStand' /\ EntriesStand' /\ BackStands' /\ SweepLast'
  BY DEF RequestsStand, Unhurried, AutoMerge, EntriesStand, BackStands, SweepLast, Past, Unhurried, AutoMerge
<1> QED BY <1>1, <1>2, <1>3, <1>4

LEMMA FinishReleaseKeeps ==
    ASSUME IInv, NEW f \in Finisher, FinishRelease(f) PROVE IInv'
<1> USE DEF IInv, FinishRelease, FinGoto, Fault, NoFault, ByHand, repo, live, pass, requests, promise, bounds
<1>w. Written(secret')
  BY Numbers DEF Written, TypeOK, RequestsStand, Unnumbered
<1>s. secret' \in Secret \cup {NoSecret} /\ MarkIsGood(secret')
  BY <1>w, Writes
<1>1. TypeOK'
  BY <1>s, Bounds, Numbers DEF TypeOK, ReqSteps, FinSteps, TickSteps
<1>2. MarkStands'
  BY <1>s, Numbers DEF TypeOK, MarkStands, MarkIsGood
<1>3. SecretsLast'
  BY Numbers DEF TypeOK, SecretsLast
<1>4. RequestsStand' /\ EntriesStand' /\ BackStands' /\ SweepLast'
  BY DEF RequestsStand, Unhurried, AutoMerge, EntriesStand, BackStands, SweepLast, Past, Unhurried, AutoMerge
<1> QED BY <1>1, <1>2, <1>3, <1>4

LEMMA FinishDropKeeps ==
    ASSUME IInv, NEW f \in Finisher, FinishDrop(f) PROVE IInv'
<1> USE DEF IInv, FinishDrop, FinGoto, Fault, NoFault, ByHand, repo, live, pass, requests, promise, bounds
<1>w. Written(secret')
  BY Numbers DEF Written, TypeOK, RequestsStand, Unnumbered
<1>s. secret' \in Secret \cup {NoSecret} /\ MarkIsGood(secret')
  BY <1>w, Writes
<1>1. TypeOK'
  BY <1>s, Bounds, Numbers DEF TypeOK, ReqSteps, FinSteps, TickSteps
<1>2. MarkStands'
  BY <1>s, Numbers DEF TypeOK, MarkStands, MarkIsGood
<1>3. SecretsLast'
  BY Numbers DEF TypeOK, SecretsLast
<1>4. RequestsStand' /\ EntriesStand' /\ BackStands' /\ SweepLast'
  BY DEF RequestsStand, Unhurried, AutoMerge, EntriesStand, BackStands, SweepLast, Past, Unhurried, AutoMerge
<1> QED BY <1>1, <1>2, <1>3, <1>4

LEMMA FinishSettleKeeps ==
    ASSUME IInv, NEW f \in Finisher, FinishSettle(f) PROVE IInv'
<1> USE DEF IInv, FinishSettle, FinGoto, Finisher, Entry, Fault, NoFault, ByHand, repo, live, pass, requests, promise, bounds
<1>1. TypeOK'
  BY Bounds, Numbers DEF TypeOK, ReqSteps, FinSteps, TickSteps
<1>2. EntriesStand'
  BY Numbers DEF TypeOK, EntriesStand
<1>3. SecretsLast'
  BY Numbers DEF TypeOK, SecretsLast
<1>4. SweepLast'
  BY Numbers DEF TypeOK, SweepLast, Past, Unhurried, AutoMerge
<1>5. RequestsStand' /\ MarkStands' /\ BackStands'
  BY DEF RequestsStand, Unhurried, AutoMerge, MarkStands, MarkIsGood, BackStands
<1> QED BY <1>1, <1>2, <1>3, <1>4, <1>5

LEMMA MarksTrackKeeps ==
    ASSUME IInv, MarksTrack PROVE IInv'
<1> USE DEF IInv, MarksTrack, TickGoto, MarkedUntracked, Entry, Sees, Fault, NoFault, ByHand, repo, live, pass, requests, promise, bounds
<1>1. TypeOK'
  <2>1. tracked' \in [PR -> Entry \cup {NoEntry}]
    <3>1. secret.keep \in PR /\ git[secret.keep] # "none"
      BY DEF MarkStands, MarkIsGood, Exists
    <3>2. git[secret.keep] \in {"open", "merged", "closed", "gone"}
      BY <3>1 DEF TypeOK
    <3>3. [status |-> git[secret.keep], gaveUp |-> FALSE] \in Entry
      BY <3>2 DEF Entry
    <3> QED BY <3>1, <3>3 DEF TypeOK
  <2> QED BY <2>1, Bounds DEF TypeOK, TickSteps
<1>2. EntriesStand'
  BY Opened, Numbers DEF TypeOK, EntriesStand, MarkStands, MarkIsGood, Exists
<1>3. BackStands'
  BY Numbers DEF TypeOK, BackStands
<1>4. SweepLast'
  BY Numbers DEF TypeOK, SweepLast, Past, Unhurried, AutoMerge
<1>5. RequestsStand' /\ MarkStands' /\ SecretsLast'
  BY DEF RequestsStand, Unhurried, AutoMerge, MarkStands, MarkIsGood, SecretsLast
<1> QED BY <1>1, <1>2, <1>3, <1>4, <1>5

LEMMA MarksSettleKeeps ==
    ASSUME IInv, MarksSettle PROVE IInv'
<1> USE DEF IInv, MarksSettle, TickGoto, Fault, NoFault, ByHand, repo, live, pass, requests, promise, bounds
<1>1. TypeOK'
  BY Bounds, Numbers DEF TypeOK, ReqSteps, FinSteps, TickSteps
<1>2. BackStands'
  BY Numbers DEF TypeOK, BackStands, EntriesStand
<1>3. SweepLast'
  BY Numbers DEF TypeOK, SweepLast, Past, Unhurried, AutoMerge
<1>4. RequestsStand' /\ EntriesStand' /\ MarkStands' /\ SecretsLast'
  BY DEF RequestsStand, Unhurried, AutoMerge, EntriesStand, MarkStands, MarkIsGood, SecretsLast
<1> QED BY <1>1, <1>2, <1>3, <1>4

LEMMA MarksWriteKeeps ==
    ASSUME IInv, MarksWrite PROVE IInv'
<1> USE DEF IInv, MarksWrite, TickGoto, Fault, NoFault, ByHand, repo, live, pass, requests, promise, bounds
<1>w. Written(secret')
  BY Numbers DEF Written, TypeOK, BackStands
<1>s. secret' \in Secret \cup {NoSecret} /\ MarkIsGood(secret')
  BY <1>w, Writes
<1>1. TypeOK'
  BY <1>s, Bounds, Numbers DEF TypeOK, ReqSteps, FinSteps, TickSteps
<1>2. MarkStands'
  BY <1>s, Numbers DEF TypeOK, MarkStands, MarkIsGood
<1>3. BackStands'
  BY Numbers DEF TypeOK, BackStands
<1>4. SweepLast'
  BY Numbers DEF TypeOK, SweepLast, Past, Unhurried, AutoMerge
<1>5. RequestsStand' /\ EntriesStand' /\ SecretsLast'
  BY DEF RequestsStand, Unhurried, AutoMerge, EntriesStand, SecretsLast
<1> QED BY <1>1, <1>2, <1>3, <1>4, <1>5

LEMMA MarksNoneKeeps ==
    ASSUME IInv, MarksNone PROVE IInv'
<1> USE DEF IInv, MarksNone, TickGoto, Sees, Fault, NoFault, ByHand, repo, live, pass, requests, promise, bounds
<1>1. TypeOK'
  BY Bounds, Numbers DEF TypeOK, ReqSteps, FinSteps, TickSteps
<1>2. BackStands'
  BY Numbers DEF TypeOK, BackStands
<1>3. SweepLast'
  BY Numbers DEF TypeOK, SweepLast, Past, Unhurried, AutoMerge
<1>4. RequestsStand' /\ EntriesStand' /\ MarkStands' /\ SecretsLast'
  BY DEF RequestsStand, Unhurried, AutoMerge, EntriesStand, MarkStands, MarkIsGood, SecretsLast
<1> QED BY <1>1, <1>2, <1>3, <1>4

LEMMA ReadGitKeeps ==
    ASSUME IInv, ReadGit PROVE IInv'
<1> USE DEF IInv, ReadGit, TickGoto, Over, Fault, NoFault, ByHand, repo, live, pass, requests, promise, bounds
<1>1. TypeOK'
  BY Bounds, Numbers DEF TypeOK, ReqSteps, FinSteps, TickSteps
<1>2. BackStands'
  BY Numbers DEF TypeOK, BackStands
<1>3. SweepLast'
  BY Numbers DEF TypeOK, SweepLast, Past, Unhurried, AutoMerge
<1>4. RequestsStand' /\ EntriesStand' /\ MarkStands' /\ SecretsLast'
  BY DEF RequestsStand, Unhurried, AutoMerge, EntriesStand, MarkStands, MarkIsGood, SecretsLast
<1> QED BY <1>1, <1>2, <1>3, <1>4

LEMMA ListSecretsKeeps ==
    ASSUME IInv, ListSecrets PROVE IInv'
<1> USE DEF IInv, ListSecrets, TickGoto, Over, Fault, NoFault, ByHand, repo, live, pass, requests, promise, bounds
<1>1. TypeOK'
  BY Bounds, Numbers DEF TypeOK, ReqSteps, FinSteps, TickSteps
<1>2. BackStands'
  BY Numbers DEF TypeOK, BackStands
<1>3. SweepLast'
  BY Numbers DEF TypeOK, SweepLast, Past, Unhurried, AutoMerge
<1>4. RequestsStand' /\ EntriesStand' /\ MarkStands' /\ SecretsLast'
  BY DEF RequestsStand, Unhurried, AutoMerge, EntriesStand, MarkStands, MarkIsGood, SecretsLast
<1> QED BY <1>1, <1>2, <1>3, <1>4

LEMMA OrphanKeeps ==
    ASSUME IInv, Orphan PROVE IInv'
<1> USE DEF IInv, Orphan, TickGoto, Over, Sees, Held, Holds, HasStatus, ReleasedBy, Fault, NoFault, ByHand, repo, live, pass, requests, promise, bounds
<1>1. TypeOK'
  BY Bounds, Numbers DEF TypeOK, ReqSteps, FinSteps, TickSteps
<1>2. BackStands'
  BY Numbers DEF TypeOK, BackStands, EntriesStand
<1>3. SweepLast'
  BY Numbers DEF TypeOK, SweepLast, Past, EntriesStand
<1>4. RequestsStand' /\ EntriesStand' /\ MarkStands' /\ SecretsLast'
  BY DEF RequestsStand, Unhurried, AutoMerge, EntriesStand, MarkStands, MarkIsGood, SecretsLast
<1> QED BY <1>1, <1>2, <1>3, <1>4

LEMMA OwnsKeeps ==
    ASSUME IInv, Owns PROVE IInv'
<1> USE DEF IInv, Owns, TickGoto, Over, Sees, Fault, NoFault, ByHand, repo, live, pass, requests, promise, bounds
<1>1. TypeOK'
  BY Bounds, Numbers DEF TypeOK, ReqSteps, FinSteps, TickSteps
<1>2. BackStands'
  BY Numbers DEF TypeOK, BackStands
<1>3. SweepLast'
  BY Numbers DEF TypeOK, SweepLast, Past, Unhurried, AutoMerge
<1>4. RequestsStand' /\ EntriesStand' /\ MarkStands' /\ SecretsLast'
  BY DEF RequestsStand, Unhurried, AutoMerge, EntriesStand, MarkStands, MarkIsGood, SecretsLast
<1> QED BY <1>1, <1>2, <1>3, <1>4

LEMMA HandbackKeeps ==
    ASSUME IInv, Handback PROVE IInv'
<1> USE DEF IInv, Handback, TickGoto, Over, Fault, NoFault, ByHand, repo, live, pass, requests, promise, bounds
<1>w. Written(secret')
  BY Numbers DEF Written, TypeOK, RequestsStand, Unnumbered
<1>s. secret' \in Secret \cup {NoSecret} /\ MarkIsGood(secret')
  BY <1>w, Writes
<1>1. TypeOK'
  BY <1>s, Bounds, Numbers DEF TypeOK, ReqSteps, FinSteps, TickSteps
<1>2. MarkStands'
  BY <1>s, Numbers DEF TypeOK, MarkStands, MarkIsGood
<1>3. BackStands'
  BY Numbers DEF TypeOK, BackStands
<1>4. SweepLast'
  BY Numbers DEF TypeOK, SweepLast, Past, Unhurried, AutoMerge
<1>5. RequestsStand' /\ EntriesStand' /\ SecretsLast'
  BY DEF RequestsStand, Unhurried, AutoMerge, EntriesStand, SecretsLast
<1> QED BY <1>1, <1>2, <1>3, <1>4, <1>5

LEMMA OpenPRsKeeps ==
    ASSUME IInv, OpenPRs PROVE IInv'
<1> USE DEF IInv, OpenPRs, TickGoto, Over, Sees, Fault, NoFault, ByHand, repo, live, pass, requests, promise, bounds
<1>1. TypeOK'
  BY Bounds, Numbers DEF TypeOK, ReqSteps, FinSteps, TickSteps
<1>2. BackStands'
  BY Numbers DEF TypeOK, BackStands
<1>3. SweepLast'
  BY Numbers DEF TypeOK, SweepLast, Past, Unhurried, AutoMerge
<1>4. RequestsStand' /\ EntriesStand' /\ MarkStands' /\ SecretsLast'
  BY DEF RequestsStand, Unhurried, AutoMerge, EntriesStand, MarkStands, MarkIsGood, SecretsLast
<1> QED BY <1>1, <1>2, <1>3, <1>4

LEMMA RecheckKeeps ==
    ASSUME IInv, Recheck PROVE IInv'
<1> USE DEF IInv, Recheck, TickGoto, Over, Sees, Fault, NoFault, ByHand, repo, live, pass, requests, promise, bounds
<1>1. TypeOK'
  BY Bounds, Numbers DEF TypeOK, ReqSteps, FinSteps, TickSteps
<1>2. BackStands'
  BY Numbers DEF TypeOK, BackStands
<1>3. SweepLast'
  BY Numbers DEF TypeOK, SweepLast, Past, Unhurried, AutoMerge
<1>4. RequestsStand' /\ EntriesStand' /\ MarkStands' /\ SecretsLast'
  BY DEF RequestsStand, Unhurried, AutoMerge, EntriesStand, MarkStands, MarkIsGood, SecretsLast
<1> QED BY <1>1, <1>2, <1>3, <1>4

LEMMA SweepKeeps ==
    ASSUME IInv, Sweep PROVE IInv'
<1> USE DEF IInv, Sweep, TickGoto, Over, Fault, NoFault, ByHand, repo, live, pass, requests, promise, bounds
<1>w. Written(secret')
  BY Numbers DEF Written, TypeOK, RequestsStand, Unnumbered
<1>s. secret' \in Secret \cup {NoSecret} /\ MarkIsGood(secret')
  BY <1>w, Writes
<1>1. TypeOK'
  BY <1>s, Bounds, Numbers DEF TypeOK, ReqSteps, FinSteps, TickSteps
<1>2. MarkStands'
  BY <1>s, Numbers DEF TypeOK, MarkStands, MarkIsGood
<1>3. BackStands'
  BY Numbers DEF TypeOK, BackStands
<1>4. SweepLast'
  BY Numbers DEF TypeOK, SweepLast, Past, Unhurried, AutoMerge
<1>5. RequestsStand' /\ EntriesStand' /\ SecretsLast'
  BY DEF RequestsStand, Unhurried, AutoMerge, EntriesStand, SecretsLast
<1> QED BY <1>1, <1>2, <1>3, <1>4, <1>5

LEMMA CreateKeeps ==
    ASSUME IInv, Create PROVE IInv'
<1> USE DEF IInv, Create, TickGoto, Over, Fault, NoFault, ByHand, repo, live, pass, requests, promise, bounds
<1>w. Written(secret')
  BY Numbers DEF Written, TypeOK, RequestsStand, Unnumbered
<1>s. secret' \in Secret \cup {NoSecret} /\ MarkIsGood(secret')
  BY <1>w, Writes
<1>1. TypeOK'
  BY <1>s, Bounds, Numbers DEF TypeOK, ReqSteps, FinSteps, TickSteps
<1>2. MarkStands'
  BY <1>s, Numbers DEF TypeOK, MarkStands, MarkIsGood
<1>3. BackStands'
  BY Numbers DEF TypeOK, BackStands
<1>4. SweepLast'
  BY Numbers DEF TypeOK, SweepLast, Past, Unhurried, AutoMerge
<1>5. RequestsStand' /\ EntriesStand' /\ SecretsLast'
  BY DEF RequestsStand, Unhurried, AutoMerge, EntriesStand, SecretsLast
<1> QED BY <1>1, <1>2, <1>3, <1>4, <1>5

LEMMA ClearKeeps ==
    ASSUME IInv, Clear PROVE IInv'
<1> USE DEF IInv, Clear, TickGoto, Over, Fault, NoFault, ByHand, repo, live, pass, requests, promise, bounds
<1>w. Written(secret')
  BY DEF Written, Managed
<1>s. secret' \in Secret \cup {NoSecret} /\ MarkIsGood(secret')
  BY <1>w, Writes
<1>1. TypeOK'
  BY <1>s, Bounds, Numbers DEF TypeOK, ReqSteps, FinSteps, TickSteps
<1>2. MarkStands'
  BY <1>s, Numbers DEF TypeOK, MarkStands, MarkIsGood
<1>3. BackStands'
  BY Numbers DEF TypeOK, BackStands
<1>4. SweepLast'
  BY Numbers DEF TypeOK, SweepLast, Past, Unhurried, AutoMerge
<1>5. RequestsStand' /\ EntriesStand' /\ SecretsLast'
  BY DEF RequestsStand, Unhurried, AutoMerge, EntriesStand, SecretsLast
<1> QED BY <1>1, <1>2, <1>3, <1>4, <1>5

LEMMA PersonMergesKeeps ==
    ASSUME IInv, NEW p \in PR, PersonMerges(p) PROVE IInv'
<1> USE DEF IInv, PersonMerges, Merge, Deciding, Fault, NoFault, ByHand, repo, live, pass, requests, promise, bounds
<1>1. TypeOK'
  BY Merges, Bounds DEF TypeOK, ReqSteps
<1>2. RequestsStand'
  BY Numbers DEF TypeOK, RequestsStand, Unhurried, AutoMerge
<1>3. EntriesStand'
  BY Numbers DEF TypeOK, EntriesStand
<1>4. MarkStands'
  BY Numbers DEF TypeOK, MarkStands, MarkIsGood
<1>5. BackStands'
  BY Numbers DEF TypeOK, BackStands
<1>6. SweepLast'
  BY Numbers DEF TypeOK, SweepLast, Past, Unhurried, AutoMerge
<1>7. SecretsLast'
  BY DEF SecretsLast
<1> QED BY <1>1, <1>2, <1>3, <1>4, <1>5, <1>6, <1>7

LEMMA PersonClosesKeeps ==
    ASSUME IInv, NEW p \in PR, PersonCloses(p) PROVE IInv'
<1> USE DEF IInv, PersonCloses, Fault, NoFault, ByHand, repo, live, pass, requests, promise, bounds
<1>1. TypeOK'
  BY Bounds, Numbers DEF TypeOK, ReqSteps, FinSteps, TickSteps
<1>2. RequestsStand'
  BY Numbers DEF TypeOK, RequestsStand, Unhurried, AutoMerge
<1>3. EntriesStand'
  BY Numbers DEF TypeOK, EntriesStand
<1>4. MarkStands'
  BY Numbers DEF TypeOK, MarkStands, MarkIsGood
<1>5. BackStands'
  BY Numbers DEF TypeOK, BackStands
<1>6. SweepLast'
  BY Numbers DEF TypeOK, SweepLast, Past, Unhurried, AutoMerge
<1>7. SecretsLast'
  BY DEF SecretsLast
<1> QED BY <1>1, <1>2, <1>3, <1>4, <1>5, <1>6, <1>7

LEMMA HandKeeps ==
    ASSUME IInv, Hand PROVE IInv'
<1> USE DEF IInv, Hand, Fault, NoFault, ByHand, repo, live, pass, requests, promise, bounds
<1>w. Written(secret')
  BY DEF Written, Managed
<1>s. secret' \in Secret \cup {NoSecret} /\ MarkIsGood(secret')
  BY <1>w, Writes
<1>1. TypeOK'
  <2>1. inGit' \in BOOLEAN
    BY DEF TypeOK
  <2>2. tracked' \in [PR -> Entry \cup {NoEntry}]
    BY DEF TypeOK
  <2>3. kept' \in {"no", "marked", "known"}
    BY DEF TypeOK
  <2> QED BY <1>s, <2>1, <2>2, <2>3, Bounds DEF TypeOK
<1>2. EntriesStand'
  BY Numbers DEF TypeOK, EntriesStand
<1>3. MarkStands'
  BY <1>s, Numbers DEF TypeOK, MarkStands, MarkIsGood
<1>4. SweepLast'
  BY Numbers DEF TypeOK, SweepLast, Past, Unhurried, AutoMerge
<1>5. RequestsStand' /\ BackStands' /\ SecretsLast'
  BY DEF RequestsStand, Unhurried, AutoMerge, BackStands, SecretsLast
<1> QED BY <1>1, <1>2, <1>3, <1>4, <1>5

LEMMA GraceEndsKeeps ==
    ASSUME IInv, GraceEnds PROVE IInv'
<1> USE DEF IInv, GraceEnds, Fault, NoFault, ByHand, repo, live, pass, requests, promise, bounds
<1>w. Written(secret')
  BY Numbers DEF Written, TypeOK, RequestsStand, Unnumbered
<1>s. secret' \in Secret \cup {NoSecret} /\ MarkIsGood(secret')
  BY <1>w, Writes
<1>1. TypeOK'
  BY <1>s, Bounds, Numbers DEF TypeOK, ReqSteps, FinSteps, TickSteps
<1>2. MarkStands'
  BY <1>s, Numbers DEF TypeOK, MarkStands, MarkIsGood
<1>3. RequestsStand' /\ EntriesStand' /\ BackStands' /\ SecretsLast' /\ SweepLast'
  BY DEF RequestsStand, Unhurried, AutoMerge, EntriesStand, BackStands, SecretsLast, SweepLast, Past, Unhurried, AutoMerge
<1> QED BY <1>1, <1>2, <1>3

LEMMA MarkAgesKeeps ==
    ASSUME IInv, MarkAges PROVE IInv'
<1> USE DEF IInv, MarkAges, Fault, NoFault, ByHand, repo, live, pass, requests, promise, bounds
<1>w. Written(secret')
  BY Numbers DEF Written, TypeOK, RequestsStand, Unnumbered
<1>s. secret' \in Secret \cup {NoSecret} /\ MarkIsGood(secret')
  BY <1>w, Writes
<1>1. TypeOK'
  BY <1>s, Bounds, Numbers DEF TypeOK, ReqSteps, FinSteps, TickSteps
<1>2. MarkStands'
  BY <1>s, Numbers DEF TypeOK, MarkStands, MarkIsGood
<1>3. RequestsStand' /\ EntriesStand' /\ BackStands' /\ SecretsLast' /\ SweepLast'
  BY DEF RequestsStand, Unhurried, AutoMerge, EntriesStand, BackStands, SecretsLast, SweepLast, Past, Unhurried, AutoMerge
<1> QED BY <1>1, <1>2, <1>3

LEMMA RestartKeeps ==
    ASSUME IInv, Restart PROVE IInv'
<1> USE DEF IInv, Restart, Over, TickGoto, Fault, NoFault, ByHand, repo, live, pass, requests, promise, bounds
<1>1. TypeOK'
  BY Bounds, Numbers DEF TypeOK, ReqSteps, FinSteps, TickSteps
<1>2. RequestsStand'
  BY Numbers DEF TypeOK, RequestsStand, Unhurried, AutoMerge
<1>3. BackStands'
  BY Numbers DEF TypeOK, BackStands
<1>4. SecretsLast'
  BY Numbers DEF TypeOK, SecretsLast
<1>5. SweepLast'
  BY Numbers DEF TypeOK, SweepLast, Past, Unhurried, AutoMerge
<1>6. EntriesStand' /\ MarkStands'
  BY DEF EntriesStand, MarkStands, MarkIsGood
<1> QED BY <1>1, <1>2, <1>3, <1>4, <1>5, <1>6

LEMMA NextIInv == IInv /\ [Next]_vars => IInv'
<1> SUFFICES ASSUME IInv, [Next]_vars PROVE IInv'
  OBVIOUS
<1>1. CASE UNCHANGED vars
  <2>1. UNCHANGED <<repo, live, tracked, requests, fin, pass, promise, bounds>>
    BY <1>1 DEF vars
  <2>2. TypeOK'
    BY <2>1 DEF IInv, TypeOK, repo, live, requests, pass, promise, bounds
  <2>3. RequestsStand' /\ EntriesStand' /\ MarkStands' /\ BackStands' /\ SecretsLast' /\ SweepLast'
    BY <2>1 DEF IInv, repo, live, requests, pass, bounds, RequestsStand, EntriesStand, MarkStands, MarkIsGood,
                BackStands, SecretsLast, SweepLast, Unhurried, AutoMerge
  <2> QED BY <2>2, <2>3 DEF IInv
<1>2. ASSUME NEW p \in PR, RegisterCluster(p) PROVE IInv'
  BY <1>2, RegWriteKeeps, RegFindKeeps, RegOpenKeeps, RegMergeKeeps DEF RegisterCluster
<1>3. ASSUME NEW p \in PR, RemoveCluster(p) PROVE IInv'
  BY <1>3, RemPlanKeeps, RemMarkKeeps, RemSetMarkKeeps, RemOpenKeeps, RemTrackKeeps, RemMergeKeeps, RemNumberKeeps,
     RemUnmarkKeeps DEF RemoveCluster
<1>4. ASSUME NEW p \in PR, Tracker(p) PROVE IInv'
  BY <1>4, TrackerSeesKeeps, FinishStartKeeps, GaveUpEndsKeeps DEF Tracker
<1>5. ASSUME NEW f \in Finisher, FinishRemove(f) PROVE IInv'
  BY <1>5, FinishCheckKeeps, FinishWaitingKeeps, FinishAddonsKeeps, FinishMarksKeeps, FinishDeleteKeeps,
     FinishReleaseKeeps, FinishDropKeeps, FinishSettleKeeps DEF FinishRemove
<1>6. ASSUME Reconciler PROVE IInv'
  BY <1>6, MarksTrackKeeps, MarksSettleKeeps, MarksWriteKeeps, MarksNoneKeeps, ReadGitKeeps, ListSecretsKeeps,
     OrphanKeeps, OwnsKeeps, HandbackKeeps, OpenPRsKeeps, RecheckKeeps, SweepKeeps, CreateKeeps, ClearKeeps
     DEF Reconciler
<1> QED BY <1>1, <1>2, <1>3, <1>4, <1>5, <1>6, PersonMergesKeeps, PersonClosesKeeps, HandKeeps, GraceEndsKeeps,
           MarkAgesKeeps, RestartKeeps DEF Next

LEMMA Invariance == Spec => []IInv
BY InitIInv, NextIInv, PTL DEF Spec

-----------------------------------------------------------------------------
(* The properties *)

\* The cluster's Secret, the requests, the finish steps, the reconciler's pass
\* and what the tracker has of each pull request stay well formed.
THEOREM TypeCorrect == Spec => []TypeOK
<1>1. IInv => TypeOK
  BY DEF IInv
<1> QED BY <1>1, Invariance, PTL

\* What is written over a Secret is a Secret, but by two deletes.
LEMMA Overwrites ==
    ASSUME TypeOK, Exists
    PROVE  /\ \A k \in {NoMark} \cup Unnumbered \cup PR : [secret EXCEPT !.keep = k] # NoSecret
           /\ \A w \in {"none", "fresh", "late"} : [secret EXCEPT !.pending = w] # NoSecret
           /\ \A own : Released(own) # NoSecret
           /\ \A same \in BOOLEAN : Ensured(same) # NoSecret
<1>1. secret \in Secret
  BY DEF TypeOK, Exists
<1>2. \A k \in {NoMark} \cup Unnumbered \cup PR : [secret EXCEPT !.keep = k] \in Secret
  BY <1>1 DEF Secret
<1>3. \A w \in {"none", "fresh", "late"} : [secret EXCEPT !.pending = w] \in Secret
  BY <1>1 DEF Secret
<1> QED BY <1>2, <1>3, SecretParts, ReleasedParts, EnsuredParts

LEMMA DeletedBy ==
    ASSUME IInv, Next, SharkoDeletes
    PROVE  (\E f \in Finisher : FinishDelete(f) /\ fin[f] = "delete") \/ (Sweep /\ tick = "sweep")
<1>1. /\ TypeOK /\ Exists /\ secret' = NoSecret /\ secret # NoSecret /\ hands' = hands /\ hands \in Nat
      /\ RequestsStand /\ BackStands
  <2>1. setting.maxHands \in Nat
    BY ConnectionConstants DEF IInv, TypeOK, Setting
  <2> QED BY <2>1 DEF IInv, SharkoDeletes, Exists, TypeOK
<1>2. ASSUME NEW p \in PR, RegisterCluster(p) \/ RemoveCluster(p) PROVE FALSE
  <2>1. CASE RegWrite(p)
    BY <1>1, <2>1, Overwrites DEF RegWrite
  <2>2. CASE RemSetMark(p) \/ RemUnmark(p)
    BY <1>1, <2>2, Overwrites DEF RemSetMark, RemUnmark, Unnumbered
  <2>3. CASE RemNumber(p)
    BY <1>1, <2>3, Overwrites DEF RemNumber
  <2> QED BY <1>1, <1>2, <2>1, <2>2, <2>3 DEF RegisterCluster, RemoveCluster, RegFind, RegOpen, RegMerge, RemPlan,
             RemMark, RemOpen, RemTrack, RemMerge, live
<1>3. ASSUME NEW p \in PR, Tracker(p) \/ PersonMerges(p) \/ PersonCloses(p) PROVE FALSE
  BY <1>1, <1>3 DEF Tracker, TrackerSees, FinishStart, GaveUpEnds, PersonMerges, PersonCloses, live
<1>4. ASSUME NEW f \in Finisher, FinishRemove(f) PROVE FinishDelete(f) /\ fin[f] = "delete"
  <2>1. ~FinishRelease(f) /\ ~FinishDrop(f)
    BY <1>1, Overwrites DEF FinishRelease, FinishDrop
  <2> QED BY <1>1, <1>4, <2>1 DEF FinishRemove, FinishCheck, FinishWaiting, FinishAddons, FinishMarks, FinishSettle,
             FinishDelete, live
<1>5. ASSUME Reconciler PROVE Sweep /\ tick = "sweep"
  <2>1. ~MarksWrite
    BY <1>1, Overwrites, Numbers DEF MarksWrite, TypeOK, BackStands
  <2>2. ~Handback /\ ~Create /\ ~Clear
    BY <1>1, Overwrites DEF Handback, Create, Clear
  <2> QED BY <1>1, <1>5, <2>1, <2>2 DEF Reconciler, MarksTrack, MarksSettle, MarksNone, ReadGit, ListSecrets, Orphan,
             Owns, OpenPRs, Recheck, Sweep, live
<1>6. ~Hand
  BY <1>1 DEF Hand, ByHand
<1>7. ~GraceEnds /\ ~MarkAges /\ ~Restart
  BY <1>1, Overwrites DEF GraceEnds, MarkAges, Restart, live, Unnumbered
<1> QED BY <1>2, <1>3, <1>4, <1>5, <1>6, <1>7 DEF Next

\* The connection goes last: no part of Sharko deletes it while a merged removal
\* with cleanup=all is tracked and addon secrets are on the cluster, when nobody
\* merges a removal while someone acts on what was read, and no registration
\* puts addon secrets on again.
THEOREM AddonSecretsBeforeConnection == Spec => AddonSecretsFirst
<1>1. ASSUME IInv, Next PROVE AddonSecretsGoFirst
  <2> SUFFICES ASSUME Unhurried, SharkoDeletes, addons, \A r \in RegPR : req[r] = "idle",
                      NEW p \in AllPR, git[p] = "merged", tracked[p] # NoEntry
               PROVE  FALSE
    BY DEF AddonSecretsGoFirst
  <2>1. ASSUME NEW f \in Finisher, fin[f] = "delete" PROVE FALSE
    BY <1>1, <2>1 DEF IInv, SecretsLast
  <2>2. ASSUME tick = "sweep" PROVE FALSE
    BY <1>1, <2>2 DEF IInv, SweepLast, Past
  <2> QED BY <1>1, <2>1, <2>2, DeletedBy
<1>2. UNCHANGED vars => AddonSecretsGoFirst
  BY DEF vars, live, AddonSecretsGoFirst, SharkoDeletes, Exists
<1>3. IInv /\ [Next]_vars => [AddonSecretsGoFirst]_vars
  BY <1>1
<1> QED BY <1>3, Invariance, PTL DEF Spec, AddonSecretsFirst

-----------------------------------------------------------------------------
(* Cutting a cluster off                                                   *)

\* Nobody changes Git behind the back of someone who acts on what he read:
\* nothing is done by hand, and either no registration is requested, so that a
\* cluster that left Git stays out, or people wait and no request merges what
\* it opens.
Careful(s) ==
    /\ s.maxHands = 0
    /\ s.used \cap RegPR = {} \/ (~s.hurried /\ s.autoMerge = {})

\* Whoever is past the look at Git on his way to the connection found the
\* cluster gone, and it is gone still.
ActsOn == {"waiting", "addons", "marks", "delete", "release"}
Cuts == {"giveBack", "orphan", "owns", "handback", "openPRs", "recheck", "sweep"}
OutsideGit ==
    /\ \A f \in Finisher : fin[f] \in ActsOn => ~inGit
    /\ tick \in Cuts => ~inGit
    /\ tick = "list" /\ ~seenGit => ~inGit
    /\ \A p \in PR : req[p] = "merged" => p \in AutoMerge /\ ~inGit

\* Without registrations a cluster that left Git does not come back: a removal
\* that changes nothing was opened when it was gone already.
NoWayBack ==
    setting.used \cap RegPR = {} =>
        /\ \A r \in RegPR : req[r] = "idle" /\ git[r] = "none"
        /\ \A p \in Removal : git[p] = "open" /\ p \notin diff => ~inGit

CutInv == IInv /\ Careful(setting) /\ OutsideGit /\ NoWayBack

LEMMA InitCut ==
    ASSUME Init, \A s \in Settings : Careful(s) PROVE CutInv
<1>1. IInv /\ Careful(setting)
  BY InitIInv DEF Init
<1>2. OutsideGit /\ NoWayBack
  BY Numbers DEF Init, OutsideGit, NoWayBack, ActsOn, Cuts
<1> QED BY <1>1, <1>2 DEF CutInv

\* The setting stays, and without hands nothing is done by hand.
LEMMA SettingStays ==
    ASSUME Next PROVE setting' = setting /\ (hands' = hands \/ Hand)
<1> USE DEF bounds, NoFault, Fault, Overtaken
<1>1. ASSUME NEW p \in PR, RegisterCluster(p) PROVE setting' = setting /\ hands' = hands
  BY <1>1 DEF RegisterCluster, RegWrite, Requested, RegFind, RegOpen, RegMerge
<1>2. ASSUME NEW p \in PR, RemoveCluster(p) PROVE setting' = setting /\ hands' = hands
  BY <1>2 DEF RemoveCluster, RemPlan, RemMark, RemSetMark, RemOpen, RemTrack, RemMerge, RemNumber, RemUnmark
<1>3. ASSUME NEW p \in PR, Tracker(p) \/ PersonMerges(p) \/ PersonCloses(p) PROVE setting' = setting /\ hands' = hands
  BY <1>3 DEF Tracker, TrackerSees, FinishStart, GaveUpEnds, PersonMerges, PersonCloses
<1>4. ASSUME NEW f \in Finisher, FinishRemove(f) PROVE setting' = setting /\ hands' = hands
  BY <1>4 DEF FinishRemove, FinishCheck, FinishWaiting, FinishAddons, FinishMarks, FinishDelete, FinishRelease,
     FinishDrop, FinishSettle
<1>5. ASSUME Reconciler PROVE setting' = setting /\ hands' = hands
  BY <1>5 DEF Reconciler, MarksTrack, MarksSettle, MarksWrite, MarksNone, ReadGit, ListSecrets, Orphan, Owns,
     Handback, OpenPRs, Recheck, Sweep, Create, Clear
<1>6. ASSUME GraceEnds \/ MarkAges \/ Restart PROVE setting' = setting /\ hands' = hands
  BY <1>6 DEF GraceEnds, MarkAges, Restart
<1>7. ASSUME Hand PROVE setting' = setting
  BY <1>7 DEF Hand, ByHand
<1> QED BY <1>1, <1>2, <1>3, <1>4, <1>5, <1>6, <1>7 DEF Next

LEMMA SameSetting ==
    ASSUME IInv, setting.maxHands = 0, Next PROVE setting' = setting /\ ~Hand
<1>1. hands \in 0..setting.maxHands
  BY DEF IInv, TypeOK
<1>2. ~ByHand
  BY <1>1 DEF ByHand
<1> QED BY <1>2, SettingStays DEF Hand

LEMMA StaysCareful ==
    ASSUME CutInv, Next PROVE setting' = setting /\ Careful(setting)' /\ ~Hand
BY SameSetting DEF CutInv, Careful

LEMMA RegisterCuts ==
    ASSUME CutInv, setting' = setting, NEW p \in PR, RegisterCluster(p) PROVE OutsideGit' /\ NoWayBack'
<1> USE DEF CutInv, IInv, AutoMerge, repo, pass, requests
<1>1. p \in RegPR /\ ~(setting.used \cap RegPR = {}) /\ AutoMerge = {} /\ ~RegMerge(p)
  <2>1. p \in RegPR /\ (req[p] = "idle" => p \in setting.used)
    BY DEF RegisterCluster, RegWrite, RegFind, RegOpen, RegMerge, Requested
  <2>2. ~(setting.used \cap RegPR = {})
    BY <2>1 DEF NoWayBack, RegisterCluster, RegWrite, RegFind, RegOpen, RegMerge, Requested
  <2>3. AutoMerge = {}
    BY <2>2 DEF Careful, AutoMerge
  <2> QED BY <2>1, <2>2, <2>3 DEF RequestsStand, RegMerge
<1>2. inGit' = inGit /\ fin' = fin /\ tick' = tick /\ seenGit' = seenGit
  BY <1>1 DEF RegisterCluster, RegWrite, RegFind, RegOpen
<1>3. \A q \in PR : req'[q] = "merged" => req[q] = "merged"
  BY <1>1 DEF TypeOK, RegisterCluster, RegWrite, RegFind, RegOpen, ReqGoto, ReqPut
<1>4. OutsideGit'
  BY <1>2, <1>3 DEF OutsideGit
<1>5. NoWayBack'
  BY <1>1 DEF NoWayBack
<1> QED BY <1>4, <1>5

LEMMA RemoveCuts ==
    ASSUME CutInv, setting' = setting, NEW p \in PR, RemoveCluster(p) PROVE OutsideGit' /\ NoWayBack'
<1> USE DEF CutInv, IInv, AutoMerge, repo, pass, requests
<1>0. RemUnmark(p) \/ (p \in Removal /\ p \notin RegPR)
  <2>1. RemUnmark(p) \/ p \in Removal
    BY Numbers DEF RequestsStand, RemoveCluster, RemPlan, RemMark, RemSetMark, RemOpen, RemTrack, RemMerge, RemNumber
  <2> QED BY <2>1, Numbers
<1>1. tick' = tick /\ seenGit' = seenGit
  BY DEF RemoveCluster, RemPlan, RemMark, RemSetMark, RemOpen, RemTrack, RemMerge, RemNumber, RemUnmark
<1>2. CASE RemPlan(p)
  BY <1>0, <1>1, <1>2, Numbers DEF RemPlan, ReqGoto, FinGoto, TypeOK, OutsideGit, NoWayBack
<1>3. CASE RemMark(p) \/ RemSetMark(p) \/ RemTrack(p) \/ RemUnmark(p)
  BY <1>0, <1>1, <1>3, Numbers DEF RemMark, RemSetMark, RemTrack, RemUnmark, ReqGoto, ReqPut, TypeOK, OutsideGit, NoWayBack
<1>4. CASE RemOpen(p)
  BY <1>0, <1>1, <1>4, Numbers DEF RemOpen, Opens, ReqGoto, TypeOK, OutsideGit, NoWayBack
<1>5. CASE RemMerge(p)
  <2>1. p \in AutoMerge /\ setting.used \cap RegPR = {} /\ p \in Removal /\ p \notin RegPR
    BY <1>5, Numbers DEF RemMerge, RequestsStand, Careful, AutoMerge
  <2>2. inGit' => inGit
    BY <1>5, <2>1 DEF RemMerge, Merge
  <2>3. req'[p] = "merged" => ~inGit'
    BY <1>0, <1>5, <2>1 DEF RemMerge, Merge, ReqGoto, TypeOK, NoWayBack
  <2>4. fin' = fin /\ \A q \in PR \ {p} : req'[q] = req[q]
    BY <1>5 DEF RemMerge, ReqGoto, TypeOK
  <2>5. OutsideGit'
    BY <1>1, <2>1, <2>2, <2>3, <2>4 DEF OutsideGit
  <2>6. NoWayBack'
    BY <1>5, <2>1, <2>2, <2>4, Numbers DEF RemMerge, Merge, TypeOK, NoWayBack
  <2> QED BY <2>5, <2>6
<1>6. CASE RemNumber(p)
  BY <1>0, <1>1, <1>6, Numbers DEF RemNumber, ReqGoto, FinGoto, TypeOK, OutsideGit, NoWayBack
<1> QED BY <1>2, <1>3, <1>4, <1>5, <1>6 DEF RemoveCluster

LEMMA FinishCuts ==
    ASSUME CutInv, setting' = setting, NEW f \in Finisher, FinishRemove(f) PROVE OutsideGit' /\ NoWayBack'
<1> USE DEF CutInv, IInv, AutoMerge, repo, pass, requests
<1>1. inGit' = inGit /\ git' = git /\ diff' = diff /\ req' = req /\ tick' = tick /\ seenGit' = seenGit
  BY DEF FinishRemove, FinishCheck, FinishWaiting, FinishAddons, FinishMarks, FinishDelete, FinishRelease,
     FinishDrop, FinishSettle
<1>2. NoWayBack'
  BY <1>1 DEF NoWayBack
<1>3. \A g \in Finisher \ {f} : fin'[g] = fin[g]
  BY DEF TypeOK, FinishRemove, FinishCheck, FinishWaiting, FinishAddons, FinishMarks, FinishDelete, FinishRelease,
     FinishDrop, FinishSettle, FinGoto
<1>4. fin'[f] \in ActsOn => ~inGit
  <2>1. CASE FinishCheck(f)
    BY <2>1 DEF TypeOK, FinishCheck, FinGoto, ActsOn, BackInGit
  <2>2. CASE FinishWaiting(f) \/ FinishAddons(f) \/ FinishMarks(f) \/ FinishDelete(f) \/ FinishRelease(f)
    <3>1. fin[f] \in ActsOn
      BY <2>2 DEF FinishWaiting, FinishAddons, FinishMarks, FinishDelete, FinishRelease, ActsOn
    <3> QED BY <3>1 DEF OutsideGit
  <2>3. CASE FinishDrop(f) \/ FinishSettle(f)
    BY <2>3 DEF TypeOK, FinishDrop, FinishSettle, FinGoto, ActsOn
  <2> QED BY <2>1, <2>2, <2>3 DEF FinishRemove
<1>5. OutsideGit'
  BY <1>1, <1>3, <1>4 DEF OutsideGit
<1> QED BY <1>2, <1>5

LEMMA PassCuts ==
    ASSUME CutInv, setting' = setting, Reconciler PROVE OutsideGit' /\ NoWayBack'
<1> USE DEF CutInv, IInv, AutoMerge, repo, pass, requests
<1>1. inGit' = inGit /\ git' = git /\ diff' = diff /\ req' = req /\ fin' = fin
  BY DEF Reconciler, MarksTrack, MarksSettle, MarksWrite, MarksNone, ReadGit, ListSecrets, Orphan, Owns, Handback,
     OpenPRs, Recheck, Sweep, Create, Clear
<1>2. NoWayBack'
  BY <1>1 DEF NoWayBack
<1>3. tick' \in Cuts => ~inGit
  <2>1. CASE MarksSettle
    BY <2>1 DEF MarksSettle, TickGoto, Cuts
  <2>2. CASE ListSecrets
    BY <2>2 DEF ListSecrets, TickGoto, Over, Cuts, OutsideGit
  <2>3. CASE Orphan \/ Owns \/ OpenPRs \/ Recheck
    <3>1. tick \in Cuts
      BY <2>3 DEF Orphan, Owns, OpenPRs, Recheck, Cuts
    <3> QED BY <3>1 DEF OutsideGit
  <2>4. CASE MarksTrack \/ MarksWrite \/ MarksNone \/ ReadGit \/ Handback \/ Sweep \/ Create \/ Clear
    BY <2>4 DEF MarksTrack, MarksWrite, MarksNone, ReadGit, Handback, Sweep, Create, Clear, TickGoto, Over, Cuts
  <2> QED BY <2>1, <2>2, <2>3, <2>4 DEF Reconciler
<1>4. tick' = "list" /\ ~seenGit' => ~inGit
  BY DEF Reconciler, MarksTrack, MarksSettle, MarksWrite, MarksNone, ReadGit, ListSecrets, Orphan, Owns, Handback,
     OpenPRs, Recheck, Sweep, Create, Clear, TickGoto, Over
<1>5. OutsideGit'
  BY <1>1, <1>3, <1>4 DEF OutsideGit
<1> QED BY <1>2, <1>5

\* People do not merge while someone acts on what he read, or only removals.
LEMMA MergeCuts ==
    ASSUME CutInv, setting' = setting, NEW p \in PR, PersonMerges(p) PROVE OutsideGit' /\ NoWayBack'
<1> USE DEF CutInv, IInv, AutoMerge, repo, pass, requests
<1>0. /\ git[p] = "open" /\ git' = [git EXCEPT ![p] = "merged"] /\ diff' = diff \ {p}
      /\ fin' = fin /\ tick' = tick /\ seenGit' = seenGit /\ req' = req
      /\ inGit' = IF p \in diff THEN p \in RegPR ELSE inGit
  BY DEF PersonMerges, Merge
<1>1. CASE setting.used \cap RegPR = {}
  <2>1. p \in Removal /\ p \notin RegPR
    BY <1>0, <1>1, Numbers DEF NoWayBack, PR
  <2>2. inGit' => inGit
    BY <1>0, <2>1
  <2>3. OutsideGit'
    BY <1>0, <2>2 DEF OutsideGit
  <2>4. NoWayBack'
    BY <1>0, <1>1, <2>1, <2>2 DEF NoWayBack, TypeOK
  <2> QED BY <2>3, <2>4
<1>2. CASE ~(setting.used \cap RegPR = {})
  <2>1. ~Deciding /\ AutoMerge = {}
    BY <1>2 DEF PersonMerges, Careful, AutoMerge
  <2>2. \A q \in PR : req[q] # "merged"
    BY <2>1 DEF OutsideGit
  <2>3. OutsideGit'
    BY <1>0, <2>1, <2>2 DEF OutsideGit, Deciding, ActsOn, Cuts
  <2>4. NoWayBack'
    BY <1>2 DEF NoWayBack
  <2> QED BY <2>3, <2>4
<1> QED BY <1>1, <1>2

LEMMA OthersCut ==
    ASSUME CutInv, setting' = setting,
           GraceEnds \/ MarkAges \/ Restart \/ \E p \in PR : Tracker(p) \/ PersonCloses(p)
    PROVE  OutsideGit' /\ NoWayBack'
<1> USE DEF CutInv, IInv, AutoMerge, repo, pass, requests
<1>1. CASE GraceEnds \/ MarkAges
  BY <1>1 DEF GraceEnds, MarkAges, OutsideGit, NoWayBack
<1>2. CASE Restart
  BY <1>2, Numbers DEF Restart, Over, TickGoto, TypeOK, OutsideGit, NoWayBack, ActsOn, Cuts
<1>3. ASSUME NEW p \in PR, TrackerSees(p) \/ GaveUpEnds(p) PROVE OutsideGit' /\ NoWayBack'
  BY <1>3 DEF TrackerSees, GaveUpEnds, OutsideGit, NoWayBack
<1>4. ASSUME NEW p \in PR, FinishStart(p) PROVE OutsideGit' /\ NoWayBack'
  BY <1>4 DEF FinishStart, FinGoto, TypeOK, OutsideGit, NoWayBack, ActsOn
<1>5. ASSUME NEW p \in PR, PersonCloses(p) PROVE OutsideGit' /\ NoWayBack'
  BY <1>5, Numbers DEF PersonCloses, TypeOK, OutsideGit, NoWayBack
<1> QED BY <1>1, <1>2, <1>3, <1>4, <1>5 DEF Tracker

LEMMA NextCut ==
    ASSUME CutInv, [Next]_vars PROVE CutInv'
<1>1. CASE UNCHANGED vars
  <2>1. UNCHANGED <<repo, requests, fin, pass, bounds>>
    BY <1>1 DEF vars
  <2>2. IInv'
    BY <1>1, NextIInv DEF CutInv
  <2> QED BY <2>1, <2>2 DEF CutInv, Careful, OutsideGit, NoWayBack, AutoMerge, repo, requests, pass, bounds
<1>2. CASE Next
  <2>1. IInv' /\ setting' = setting /\ Careful(setting)' /\ ~Hand
    BY <1>2, NextIInv, StaysCareful DEF CutInv
  <2>2. OutsideGit' /\ NoWayBack'
    BY <1>2, <2>1, RegisterCuts, RemoveCuts, FinishCuts, PassCuts, MergeCuts, OthersCut DEF Next
  <2> QED BY <2>1, <2>2 DEF CutInv
<1> QED BY <1>1, <1>2

\* What else is written over a connection of Sharko's leaves it one.
LEMMA KeepsLabel ==
    ASSUME TypeOK, Managed
    PROVE  /\ \A k \in {NoMark} \cup Unnumbered \cup PR :
                 [secret EXCEPT !.keep = k] # NoSecret /\ [secret EXCEPT !.keep = k].managed
           /\ \A w \in {"none", "fresh", "late"} :
                 [secret EXCEPT !.pending = w] # NoSecret /\ [secret EXCEPT !.pending = w].managed
           /\ \A same \in BOOLEAN : Ensured(same) # NoSecret /\ Ensured(same).managed
<1>1. secret \in Secret /\ secret.managed
  BY DEF TypeOK, Managed, Exists
<1>2. ASSUME NEW k \in {NoMark} \cup Unnumbered \cup PR
      PROVE  [secret EXCEPT !.keep = k] \in Secret /\ [secret EXCEPT !.keep = k].managed
  BY <1>1 DEF Secret
<1>3. ASSUME NEW w \in {"none", "fresh", "late"}
      PROVE  [secret EXCEPT !.pending = w] \in Secret /\ [secret EXCEPT !.pending = w].managed
  BY <1>1 DEF Secret
<1> QED BY <1>2, <1>3, SecretParts, EnsuredParts

\* Where the connection is deleted, or Sharko's label taken off it.
LEMMA CutBy ==
    ASSUME IInv, Next, ~Hand, Managed, secret' = NoSecret \/ ~secret'.managed
    PROVE  (\E f \in Finisher : fin[f] \in {"delete", "release"}) \/ tick \in Cuts
<1>1. /\ TypeOK /\ Exists /\ secret # NoSecret /\ secret.managed /\ BackStands /\ MarkStands
      /\ secret' # secret
  BY DEF IInv, Managed, Exists
<1>2. ASSUME NEW p \in PR, RegisterCluster(p) \/ RemoveCluster(p) PROVE FALSE
  <2>1. CASE RegWrite(p)
    BY <1>1, <2>1, KeepsLabel DEF RegWrite
  <2>2. CASE RemSetMark(p) \/ RemUnmark(p)
    BY <1>1, <2>2, KeepsLabel DEF RemSetMark, RemUnmark, Unnumbered
  <2>3. CASE RemNumber(p)
    BY <1>1, <2>3, KeepsLabel DEF RemNumber
  <2> QED BY <1>1, <1>2, <2>1, <2>2, <2>3 DEF RegisterCluster, RemoveCluster, RegFind, RegOpen, RegMerge, RemPlan,
             RemMark, RemOpen, RemTrack, RemMerge, live
<1>3. ASSUME NEW p \in PR, Tracker(p) \/ PersonMerges(p) \/ PersonCloses(p) PROVE FALSE
  BY <1>1, <1>3 DEF Tracker, TrackerSees, FinishStart, GaveUpEnds, PersonMerges, PersonCloses, live
<1>4. ASSUME NEW f \in Finisher, FinishRemove(f) PROVE fin[f] \in {"delete", "release"}
  <2>1. ~FinishDrop(f)
    <3>1. f[1] \in PR
      BY Numbers DEF Finisher
    <3> QED BY <1>1, <3>1, KeepsLabel DEF FinishDrop
  <2> QED BY <1>1, <1>4, <2>1 DEF FinishRemove, FinishCheck, FinishWaiting, FinishAddons, FinishMarks, FinishSettle,
             FinishDelete, FinishRelease, live
<1>5. ASSUME Reconciler PROVE tick \in Cuts
  <2>1. MarksWrite => tick = "giveBack"
    BY <1>1, KeepsLabel, Numbers DEF MarksWrite, TypeOK, BackStands
  <2>2. ~Create /\ ~Clear
    BY <1>1, KeepsLabel DEF Create, Clear
  <2> QED BY <1>1, <1>5, <2>1, <2>2 DEF Reconciler, MarksTrack, MarksSettle, MarksNone, ReadGit, ListSecrets, Orphan,
             Owns, OpenPRs, Recheck, Sweep, Handback, live, Cuts
<1>6. ~GraceEnds /\ ~MarkAges /\ ~Restart
  BY <1>1, KeepsLabel DEF GraceEnds, MarkAges, Restart, live, Unnumbered
<1> QED BY <1>2, <1>3, <1>4, <1>5, <1>6 DEF Next

\* A cluster is cut off, its connection deleted or Sharko's label taken off it,
\* only while it is not in Git, by every finish step and every pass, whatever
\* fails and restarts: as long as nobody changes Git between the look at Git and
\* the act (Careful).
THEOREM CutOffOutside ==
    ASSUME \A s \in Settings : Careful(s)
    PROVE  Spec => CutOffOnlyOutsideGit
<1>1. ASSUME CutInv, Next PROVE CutOffOutsideGit
  <2>1. ~Hand /\ IInv /\ OutsideGit
    BY <1>1, StaysCareful DEF CutInv
  <2> QED BY <1>1, <2>1, CutBy DEF CutOffOutsideGit, OutsideGit, ActsOn
<1>2. CutInv /\ [Next]_vars => [CutOffOutsideGit]_vars
  BY <1>1
<1>3. Init => CutInv
  BY InitCut
<1>4. CutInv /\ [Next]_vars => CutInv'
  BY NextCut
<1> QED BY <1>2, <1>3, <1>4, PTL DEF Spec, CutOffOnlyOutsideGit

-----------------------------------------------------------------------------
(* The keep mark                                                           *)

\* At most one removal that keeps the connection is requested, beside any
\* number of others and of registrations, and nothing is done by hand.
OneKeeper(s) == s.maxHands = 0 /\ \A p, q \in s.used \cap KeepPR : p = q

Keeper == KeepPR \cap setting.used
Mark == Exists /\ secret.keep # NoMark
Settling == {"setNumber", "takeOff", "giveBack"}

UsedOnly == \A p \in PR : req[p] # "idle" \/ git[p] # "none" => p \in setting.used

\* A mark is that of a removal that is under way and has put it there, or that
\* is over; only in the second case it ages and the reconciler settles it.
MarkBegun == firm \/ Mark \/ tick \in Settling => \A p \in Keeper : req[p] = "done" \/ p \in put
PutUnderWay == \A p \in put \cap KeepPR : req[p] \notin {"idle", "find", "mark", "setMark", "done"}
AgedWhenOver == (Exists /\ secret.keep = OldPending) \/ tick \in Settling => put \cap KeepPR = {}
PutStays == \A p \in put \cap KeepPR : firm => Exists /\ secret.keep = Pending

\* A request takes its mark off only when its pull request was not opened, and
\* finishes by itself only one that is open no more.
Endings ==
    \A p \in PR :
        /\ req[p] = "unmark" => p \in Removal /\ git[p] = "none"
        /\ req[p] = "merged" => git[p] # "open"

\* A finish step works on a removal that is no longer open, or was none.
FinSettled ==
    \A f \in Finisher : fin[f] # "idle" =>
        /\ git[f[1]] # "open"
        /\ git[f[1]] = "none" => req[f[1]] = "done"
        /\ fin[f] = "release" => f[1] \in KeepPR
BackSettled == tick \in {"owns", "handback"} => back \in KeepPR /\ git[back] # "open"

\* Nobody who read the marks before this one is about to delete, and nobody who
\* reads them now will.
NoneDeletes ==
    /\ \A f \in Finisher : fin[f] # "delete"
    /\ tick \notin Past
    /\ tick = "orphan" => seen.keep # NoMark
Spared == firm /\ Mark => NoneDeletes

KeepInv ==
    /\ IInv /\ OneKeeper(setting)
    /\ UsedOnly /\ MarkBegun /\ PutUnderWay /\ AgedWhenOver /\ PutStays /\ Endings
    /\ FinSettled /\ BackSettled /\ Spared

LEMMA InitKeep ==
    ASSUME Init, \A s \in Settings : OneKeeper(s) PROVE KeepInv
<1>1. IInv /\ OneKeeper(setting)
  BY InitIInv DEF Init
<1>2. ~Mark
  BY NewSecretParts DEF Init, Mark, Exists
<1>3. UsedOnly /\ MarkBegun /\ PutUnderWay /\ PutStays /\ Endings /\ FinSettled /\ BackSettled /\ Spared
  BY <1>2 DEF Init, UsedOnly, MarkBegun, PutUnderWay, PutStays, Endings, FinSettled, BackSettled, Spared, Settling
<1>4. AgedWhenOver
  BY DEF Init, AgedWhenOver
<1> QED BY <1>1, <1>3, <1>4 DEF KeepInv

LEMMA RegisterMarks ==
    ASSUME KeepInv, setting' = setting, NEW p \in PR, RegisterCluster(p)
    PROVE  /\ UsedOnly' /\ MarkBegun' /\ PutUnderWay' /\ AgedWhenOver' /\ PutStays' /\ Endings'
           /\ FinSettled' /\ BackSettled' /\ Spared'
<1> USE DEF KeepInv, IInv, repo, pass, requests, promise
<1>0. p \in RegPR /\ p \notin KeepPR /\ p \notin Removal
  BY Numbers DEF RegisterCluster, RegWrite, RegFind, RegOpen, RegMerge
<1>1. /\ firm' = firm /\ tick' = tick /\ seen' = seen /\ fin' = fin /\ back' = back
      /\ \A q \in PR \ {p} : req'[q] = req[q] /\ git'[q] = git[q]
      /\ put' \cap KeepPR = put \cap KeepPR
  BY <1>0 DEF TypeOK, RegisterCluster, RegWrite, RegFind, RegOpen, RegMerge, Opens, Merge, ReqGoto, ReqPut
<1>2. (Mark' => Mark) /\ (Mark => Mark' /\ secret'.keep = secret.keep)
  <2>1. secret' = secret \/ \E same \in BOOLEAN : secret' = Ensured(same)
    BY DEF RegisterCluster, RegWrite, RegFind, RegOpen, RegMerge, live
  <2> QED BY <2>1, EnsuredParts DEF Mark, Exists
<1>3. UsedOnly'
  <2>1. req[p] = "idle" => p \in setting.used
    BY DEF RegisterCluster, RegWrite, RegFind, RegOpen, RegMerge, Requested
  <2> QED BY <1>1, <2>1 DEF UsedOnly
<1>4. MarkBegun'
  <2>1. Keeper' = Keeper /\ \A q \in Keeper : req'[q] = req[q] /\ (q \in put => q \in put')
    BY <1>0, <1>1, Numbers DEF Keeper
  <2> QED BY <1>1, <1>2, <2>1 DEF MarkBegun
<1>5. PutUnderWay' /\ PutStays' /\ Endings'
  <2>1. \A q \in put' \cap KeepPR : q \in put \cap KeepPR /\ req'[q] = req[q]
    BY <1>0, <1>1, Numbers
  <2>2. PutUnderWay'
    BY <2>1 DEF PutUnderWay
  <2>3. PutStays'
    BY <1>1, <1>2, <2>1, ConnectionConstants DEF PutStays, Mark
  <2>4. req'[p] \notin {"unmark", "merged"}
    BY <1>0 DEF TypeOK, RegisterCluster, RegWrite, RegFind, RegOpen, RegMerge, ReqGoto, ReqPut
  <2>5. Endings'
    BY <1>0, <1>1, <2>4 DEF Endings
  <2> QED BY <2>2, <2>3, <2>5
<1>6. AgedWhenOver'
  <2>1. Exists' /\ secret'.keep = OldPending => Exists /\ secret.keep = OldPending
    BY <1>2, ConnectionConstants DEF Mark
  <2> QED BY <1>1, <2>1 DEF AgedWhenOver
<1>7. FinSettled' /\ BackSettled'
  BY <1>0, <1>1, Numbers DEF FinSettled, BackSettled, Finisher
<1>8. Spared'
  BY <1>1, <1>2 DEF Spared, NoneDeletes
<1> QED BY <1>3, <1>4, <1>5, <1>6, <1>7, <1>8

\* The steps of a removal that touch neither the Secret nor the firmness.
LEMMA RemoveQuietMarks ==
    ASSUME KeepInv, setting' = setting, NEW p \in PR,
           RemPlan(p) \/ RemMark(p) \/ RemOpen(p) \/ RemTrack(p) \/ RemMerge(p)
    PROVE  /\ UsedOnly' /\ MarkBegun' /\ PutUnderWay' /\ AgedWhenOver' /\ PutStays' /\ Endings'
           /\ FinSettled' /\ BackSettled' /\ Spared'
<1> USE DEF KeepInv, IInv, repo, live, pass, requests, promise
<1>0. p \in Removal
  BY Numbers DEF RequestsStand, RemPlan, RemMark, RemOpen, RemTrack, RemMerge
<1>1. /\ firm' = firm /\ tick' = tick /\ seen' = seen /\ back' = back /\ secret' = secret
      /\ \A q \in PR \ {p} : req'[q] = req[q] /\ git'[q] = git[q]
      /\ req'[p] # "done" => put' = put
      /\ req'[p] = "done" => put' = put \ {p}
  BY DEF TypeOK, RemPlan, RemMark, RemOpen, RemTrack, RemMerge, Opens, Merge, ReqGoto
<1>r. /\ req[p] \in {"idle", "mark", "open", "track", "merge"}
      /\ req[p] = "idle" => req'[p] \in {"mark", "open", "done"}
      /\ req[p] = "mark" => req'[p] \in {"setMark", "open", "done"}
      /\ req[p] = "open" => req'[p] \in {"track", "unmark"}
      /\ req[p] \in {"track", "merge"} => req'[p] \in {"merge", "number", "merged"}
  BY DEF TypeOK, RemPlan, Requested, RemMark, RemOpen, RemTrack, RemMerge, ReqGoto
<1>2. UsedOnly'
  <2>1. req[p] = "idle" => p \in setting.used
    BY DEF RemPlan, RemMark, RemOpen, RemTrack, RemMerge, Requested
  <2> QED BY <1>1, <2>1 DEF UsedOnly
<1>3. MarkBegun'
  <2>1. Keeper' = Keeper /\ Keeper \subseteq PR
    BY Numbers DEF Keeper
  <2>2. \A q \in Keeper : req[q] = "done" \/ q \in put => req'[q] = "done" \/ q \in put'
    BY <1>1, <1>r, <2>1
  <2> QED BY <1>1, <2>1, <2>2 DEF MarkBegun, Mark, Exists
<1>4. PutUnderWay' /\ Endings'
  <2>1. p \in put' \cap KeepPR => req[p] \in {"open", "track", "merge"} /\ req'[p] # "done"
    BY <1>1, <1>r DEF PutUnderWay
  <2>2. put' \subseteq put /\ KeepPR \subseteq PR
    BY <1>1, Numbers
  <2>3. PutUnderWay'
    BY <1>1, <1>r, <2>1, <2>2 DEF PutUnderWay
  <2>4. req'[p] = "unmark" => git'[p] = "none"
    <3>1. req'[p] = "unmark" => RemOpen(p) /\ git' = git
      BY <1>r DEF TypeOK, RemPlan, Requested, RemMark, RemOpen, RemTrack, RemMerge, ReqGoto
    <3> QED BY <3>1 DEF RemOpen, RequestsStand
  <2>5. req'[p] = "merged" => git'[p] = "merged"
    BY DEF TypeOK, RemPlan, Requested, RemMark, RemOpen, RemTrack, RemMerge, ReqGoto, Merge
  <2>6. Endings'
    BY <1>0, <1>1, <2>4, <2>5 DEF Endings
  <2> QED BY <2>3, <2>6
<1>5. AgedWhenOver' /\ PutStays'
  BY <1>1 DEF AgedWhenOver, PutStays, Exists
<1>6. FinSettled'
  <2>1. CASE RemPlan(p)
    <3>1. git[p] = "none" /\ git' = git
      BY <2>1 DEF RemPlan, Requested, RequestsStand
    <3>2. \A f \in Finisher : f[1] \in PR
      BY Numbers DEF Finisher
    <3>3. \A f \in Finisher :
             \/ fin'[f] = fin[f]
             \/ f[1] = p /\ req'[p] = "done" /\ (fin'[f] = "release" => p \in KeepPR)
      BY <2>1, <1>0, Numbers DEF RemPlan, FinGoto, FirstStep, ReqGoto, TypeOK, Finisher
    <3> QED BY <1>1, <2>1, <3>1, <3>2, <3>3 DEF FinSettled, RemPlan, Requested
  <2>2. CASE RemMark(p) \/ RemTrack(p)
    BY <1>1, <2>2, Numbers DEF FinSettled, RemMark, RemTrack, RequestsStand, Finisher
  <2>3. CASE RemOpen(p)
    BY <1>1, <2>3, Numbers DEF FinSettled, RemOpen, RequestsStand, Finisher
  <2>4. CASE RemMerge(p)
    BY <1>1, <2>4, Numbers DEF FinSettled, RemMerge, Merge, RequestsStand, Finisher, TypeOK
  <2> QED BY <2>1, <2>2, <2>3, <2>4
<1>7. BackSettled'
  <2>1. git'[back] = "open" /\ back \in KeepPR => git[back] = "open" \/ git[back] = "none"
    BY Numbers DEF TypeOK, RemPlan, RemMark, RemOpen, RemTrack, RemMerge, Opens, Merge, RequestsStand
  <2>2. back \in KeepPR => back # NoPR
    BY Numbers
  <2> QED BY <1>1, <2>1, <2>2 DEF BackSettled, BackStands
<1>8. Spared'
  <2>1. \A f \in Finisher : fin'[f] = "delete" => fin[f] = "delete"
    BY DEF TypeOK, RemPlan, RemMark, RemOpen, RemTrack, RemMerge, FinGoto, FirstStep
  <2> QED BY <1>1, <2>1 DEF Spared, NoneDeletes, Mark, Exists
<1> QED BY <1>2, <1>3, <1>4, <1>5, <1>6, <1>7, <1>8

LEMMA SetMarkMarks ==
    ASSUME KeepInv, setting' = setting, NEW p \in PR, RemSetMark(p)
    PROVE  /\ UsedOnly' /\ MarkBegun' /\ PutUnderWay' /\ AgedWhenOver' /\ PutStays' /\ Endings'
           /\ FinSettled' /\ BackSettled' /\ Spared'
<1> USE DEF KeepInv, IInv, repo, live, pass, requests, promise
<1>0. p \in Keeper /\ p \in KeepPR /\ Keeper = {p} /\ git[p] = "none" /\ req[p] = "setMark"
  <2>1. p \in KeepPR /\ p \in setting.used /\ git[p] = "none"  /\ req[p] = "setMark"
    BY DEF RemSetMark, RequestsStand, UsedOnly
  <2> QED BY <2>1 DEF Keeper, OneKeeper
<1>1. /\ tick' = tick /\ seen' = seen /\ back' = back /\ git' = git /\ fin' = fin
      /\ \A q \in PR \ {p} : req'[q] = req[q]
  BY DEF TypeOK, RemSetMark, ReqGoto, ReqPut
<1>2. p \notin put /\ tick \notin Settling /\ ~Mark /\ ~firm
  BY <1>0 DEF PutUnderWay, MarkBegun
<1>3. put \cap KeepPR = {}
  <2>1. ASSUME NEW q \in put \cap KeepPR PROVE FALSE
    <3>1. req[q] # "idle" /\ q \in PR
      BY Numbers DEF PutUnderWay
    <3>2. q \in Keeper
      BY <3>1 DEF UsedOnly, Keeper
    <3> QED BY <1>0, <1>2, <2>1, <3>2
  <2> QED BY <2>1
<1>4. CASE req'[p] = "done"
  <2>1. secret' = secret /\ firm' = firm /\ put' = put \ {p}
    BY <1>0, <1>4 DEF RemSetMark, ReqGoto, ReqPut, TypeOK
  <2>2. UsedOnly' /\ MarkBegun' /\ Endings'
    BY <1>0, <1>1, <1>2, <1>4, <2>1 DEF UsedOnly, MarkBegun, Mark, Exists, Endings
  <2>3. PutUnderWay' /\ AgedWhenOver' /\ PutStays'
    BY <1>3, <2>1 DEF PutUnderWay, AgedWhenOver, PutStays
  <2>4. FinSettled' /\ BackSettled' /\ Spared'
    BY <1>0, <1>1, <1>2, <1>4, <2>1, Numbers DEF FinSettled, BackSettled, Spared, Mark, Exists, Finisher
  <2> QED BY <2>2, <2>3, <2>4
<1>5. CASE req'[p] # "done"
  <2>1. /\ Exists /\ secret' = [secret EXCEPT !.keep = Pending] /\ firm' = ~Deleting
        /\ req'[p] = "open" /\ put' = put \cup {p}
    BY <1>0, <1>5 DEF RemSetMark, ReqGoto, ReqPut, TypeOK
  <2>2. secret' \in Secret /\ secret'.keep = Pending /\ secret' # NoSecret
    <3>1. secret \in Secret
      BY <2>1 DEF TypeOK, Exists
    <3>2. secret' \in Secret /\ secret'.keep = Pending
      BY <2>1, <3>1 DEF Secret, Unnumbered
    <3> QED BY <3>2, SecretParts
  <2>3. Exists' /\ secret'.keep # OldPending
    BY <2>2, ConnectionConstants DEF Exists
  <2>4. UsedOnly' /\ MarkBegun' /\ Endings'
    BY <1>0, <1>1, <2>1 DEF UsedOnly, MarkBegun, Keeper, Endings
  <2>5. put' \cap KeepPR = {p}
    BY <1>0, <1>3, <2>1
  <2>6. PutUnderWay' /\ PutStays'
    BY <2>1, <2>2, <2>3, <2>5 DEF PutUnderWay, PutStays
  <2>7. AgedWhenOver'
    BY <1>1, <1>2, <2>3 DEF AgedWhenOver
  <2>8. FinSettled' /\ BackSettled'
    BY <1>0, <1>1, Numbers DEF FinSettled, BackSettled, Finisher
  <2>9. Spared'
    BY <1>1, <2>1 DEF Spared, NoneDeletes, Deleting, Past
  <2> QED BY <2>4, <2>6, <2>7, <2>8, <2>9
<1> QED BY <1>4, <1>5

LEMMA RemoveEndsMarks ==
    ASSUME KeepInv, setting' = setting, NEW p \in PR, RemNumber(p) \/ RemUnmark(p)
    PROVE  /\ UsedOnly' /\ MarkBegun' /\ PutUnderWay' /\ AgedWhenOver' /\ PutStays' /\ Endings'
           /\ FinSettled' /\ BackSettled' /\ Spared'
<1> USE DEF KeepInv, IInv, repo, live, pass, requests, promise
<1>1. /\ tick' = tick /\ seen' = seen /\ back' = back /\ git' = git /\ firm' = firm
      /\ req[p] \in {"number", "merged", "unmark"}
      /\ req'[p] = "done" /\ \A q \in PR \ {p} : req'[q] = req[q]
      /\ put' = put \ {p}
  BY DEF TypeOK, RemNumber, RemUnmark, ReqGoto
<1>2. secret' = secret \/ (Exists /\ p \in put /\ \E k \in {NoMark, p} : secret' = [secret EXCEPT !.keep = k])
  BY DEF RemNumber, RemUnmark
<1>3. (Exists' <=> Exists) /\ (secret' = secret \/ (p \in put /\ secret'.keep \in {NoMark, p}))
  <2>1. ASSUME Exists, NEW k \in {NoMark, p} 
        PROVE  [secret EXCEPT !.keep = k] # NoSecret /\ [secret EXCEPT !.keep = k].keep = k
    <3>1. secret \in Secret
      BY <2>1 DEF TypeOK, Exists
    <3>2. [secret EXCEPT !.keep = k] \in Secret /\ [secret EXCEPT !.keep = k].keep = k
      BY <3>1 DEF Secret
    <3> QED BY <3>2, SecretParts
  <2> QED BY <1>2, <2>1 DEF Exists
<1>4. p \in put => p \in KeepPR /\ Keeper = {p}
  <2>1. req[p] \in {"number", "merged", "unmark"} => p \in Removal
    BY DEF RequestsStand, Endings
  <2>2. p \in put => p \in KeepPR
    BY <1>1, <2>1, Numbers DEF TypeOK
  <2> QED BY <1>1, <2>2 DEF Keeper, OneKeeper, UsedOnly
<1>5. Keeper' = Keeper /\ Keeper \subseteq PR /\ KeepPR \subseteq PR
  BY Numbers DEF Keeper
<1>6. UsedOnly' /\ Endings'
  BY <1>1 DEF UsedOnly, Endings
<1>7. MarkBegun'
  BY <1>1, <1>3, <1>4, <1>5 DEF MarkBegun, Mark
<1>8. PutUnderWay'
  BY <1>1, <1>5 DEF PutUnderWay
<1>9. AgedWhenOver'
  BY <1>1, <1>3, ConnectionConstants DEF AgedWhenOver
<1>10. PutStays'
  <2>1. \A q \in put' \cap KeepPR : q \in Keeper
    BY <1>1, <1>5 DEF PutUnderWay, UsedOnly, Keeper
  <2>2. \A q \in put' \cap KeepPR : secret' = secret
    BY <1>1, <1>3, <1>4, <2>1
  <2> QED BY <1>1, <1>3, <2>2 DEF PutStays
<1>11. FinSettled'
  <2>1. \A f \in Finisher :
           \/ fin'[f] = fin[f]
           \/ f[1] = p /\ req[p] = "merged" /\ (fin'[f] = "release" => p \in KeepPR)
    BY Numbers DEF RemNumber, RemUnmark, RequestsStand, FinGoto, FirstStep, TypeOK, Finisher
  <2> QED BY <1>1, <2>1, Numbers DEF FinSettled, RequestsStand, Endings, Finisher
<1>12. BackSettled'
  BY <1>1 DEF BackSettled
<1>13. Spared'
  <2>1. \A f \in Finisher : fin'[f] = "delete" => fin[f] = "delete"
    BY DEF TypeOK, RemNumber, RemUnmark, FinGoto, FirstStep
  <2>2. firm' /\ Mark' => Mark
    <3>1. p \in put /\ firm => Mark
      BY <1>4, ConnectionConstants DEF PutStays, Mark
    <3> QED BY <1>1, <1>3, <3>1 DEF Mark, Exists
  <2> QED BY <1>1, <2>1, <2>2 DEF Spared, NoneDeletes
<1> QED BY <1>6, <1>7, <1>8, <1>9, <1>10, <1>11, <1>12, <1>13

LEMMA FinishMarksKept ==
    ASSUME KeepInv, setting' = setting, NEW f \in Finisher, FinishRemove(f)
    PROVE  /\ UsedOnly' /\ MarkBegun' /\ PutUnderWay' /\ AgedWhenOver' /\ PutStays' /\ Endings'
           /\ FinSettled' /\ BackSettled' /\ Spared'
<1> USE DEF KeepInv, IInv, repo, live, pass, requests, promise
<1>1. /\ req' = req /\ put' = put /\ git' = git /\ firm' = firm
      /\ tick' = tick /\ seen' = seen /\ back' = back
      /\ \A g \in Finisher \ {f} : fin'[g] = fin[g]
      /\ fin[f] # "idle"
  BY DEF TypeOK, FinishRemove, FinishCheck, FinishWaiting, FinishAddons, FinishMarks, FinishDelete, FinishRelease,
     FinishDrop, FinishSettle, FinGoto
<1>2. UsedOnly' /\ PutUnderWay' /\ Endings' /\ BackSettled'
  BY <1>1 DEF UsedOnly, PutUnderWay, Endings, BackSettled
<1>3. FinSettled'
  <2>1. fin'[f] = "release" => f[1] \in KeepPR
    BY Numbers DEF TypeOK, FinishRemove, FinishCheck, FinishWaiting, FinishAddons, FinishMarks, FinishDelete,
       FinishRelease, FinishDrop, FinishSettle, FinGoto, FirstStep, Finisher
  <2> QED BY <1>1, <2>1 DEF FinSettled
<1>4. \/ secret' = secret
      \/ FinishDelete(f) /\ fin[f] = "delete" /\ secret' = NoSecret
      \/ FinishRelease(f) /\ fin[f] = "release" /\ secret' = Released(MarkOf(f[1]))
      \/ FinishDrop(f) /\ Exists /\ secret.keep = f[1] /\ secret' = [secret EXCEPT !.keep = NoMark]
  BY DEF FinishRemove, FinishCheck, FinishWaiting, FinishAddons, FinishMarks, FinishDelete, FinishRelease,
     FinishDrop, FinishSettle
<1>5. (Exists' => Exists) /\ (Exists' => secret'.keep \in {secret.keep, NoMark})
  <2>1. CASE FinishDrop(f) /\ Exists /\ secret' = [secret EXCEPT !.keep = NoMark]
    <3>1. secret \in Secret
      BY <2>1 DEF TypeOK, Exists
    <3> QED BY <2>1, <3>1 DEF Secret, Exists
  <2> QED BY <1>4, <2>1, ReleasedParts DEF Exists
<1>6. Mark' => Mark
  BY <1>5 DEF Mark
<1>7. Keeper' = Keeper
  BY DEF Keeper
<1>8. MarkBegun'
  BY <1>1, <1>6, <1>7 DEF MarkBegun
<1>9. AgedWhenOver'
  BY <1>1, <1>5, ConnectionConstants DEF AgedWhenOver
<1>10. PutStays'
  <2> SUFFICES ASSUME NEW q \in put \cap KeepPR, firm PROVE Exists' /\ secret'.keep = Pending
    BY <1>1 DEF PutStays
  <2>1. Exists /\ secret.keep = Pending /\ Mark /\ Pending \notin PR
    BY ConnectionConstants DEF PutStays, Mark
  <2>2. CASE secret' = secret
    BY <2>1, <2>2 DEF Exists
  <2>3. CASE FinishDelete(f) /\ fin[f] = "delete" /\ secret' = NoSecret
    BY <2>1, <2>3 DEF Spared, NoneDeletes
  <2>4. CASE FinishRelease(f) /\ fin[f] = "release" /\ secret' = Released(MarkOf(f[1]))
    <3>1. f[1] \in KeepPR /\ f[1] \in PR /\ q \in PR
      BY <2>4, Numbers DEF FinSettled
    <3>2. git[f[1]] # "none"
      <4>1. ASSUME git[f[1]] = "none" PROVE FALSE
        <5>1. req[f[1]] = "done"
          BY <1>1, <4>1 DEF FinSettled
        <5>2. f[1] \in setting.used /\ q \in setting.used
          BY <3>1, <5>1 DEF UsedOnly, PutUnderWay
        <5>3. f[1] = q
          BY <3>1, <5>2 DEF OneKeeper
        <5> QED BY <5>1, <5>3 DEF PutUnderWay
      <4> QED BY <4>1
    <3>3. Pending \notin MarkOf(f[1])
      BY <2>1, <3>1, <3>2 DEF MarkOf
    <3> QED BY <2>1, <2>4, <3>3, ReleasedParts DEF Exists
  <2>5. CASE FinishDrop(f) /\ Exists /\ secret.keep = f[1] /\ secret' = [secret EXCEPT !.keep = NoMark]
    <3>1. f[1] \in PR
      BY Numbers DEF Finisher
    <3> QED BY <2>1, <2>5, <3>1
  <2> QED BY <1>4, <2>2, <2>3, <2>4, <2>5
<1>11. Spared'
  <2>1. fin'[f] = "delete" => ~Mark
    BY DEF TypeOK, FinishRemove, FinishCheck, FinishWaiting, FinishAddons, FinishMarks, FinishDelete,
       FinishRelease, FinishDrop, FinishSettle, FinGoto, FirstStep, MayDelete, Mark
  <2> QED BY <1>1, <1>6, <2>1 DEF Spared, NoneDeletes
<1> QED BY <1>2, <1>3, <1>8, <1>9, <1>10, <1>11

\* What the reconciler's pass makes of the Secret.
PassWrites ==
    \/ secret' = secret
    \/ tick = "sweep" /\ secret' = NoSecret
    \/ Create /\ ~Exists /\ secret' = NewSecret(TRUE, "none")
    \/ Exists /\ secret' = [secret EXCEPT !.pending = "none"]
    \/ tick = "handback" /\ secret' = Released({back})
    \/ tick = "giveBack" /\ secret' = Released(Unnumbered)
    \/ /\ tick \in Settling /\ Exists /\ secret.keep \in Unnumbered
       /\ \/ tick = "takeOff" /\ secret' = [secret EXCEPT !.keep = NoMark]
          \/ tick = "setNumber" /\ back \in KeepPR /\ secret' = [secret EXCEPT !.keep = back]

LEMMA PassWritesOnly ==
    ASSUME IInv, Reconciler PROVE PassWrites
<1>1. CASE MarksWrite
  <2>1. CASE secret' = secret
    BY <2>1 DEF PassWrites
  <2>2. CASE secret' # secret /\ tick = "giveBack"
    BY <1>1, <2>2 DEF MarksWrite, PassWrites
  <2>3. CASE secret' # secret /\ tick # "giveBack"
    <3>1. /\ Exists /\ secret.keep \in Unnumbered /\ tick \in {"setNumber", "takeOff"}
          /\ secret' = [secret EXCEPT !.keep = IF tick = "takeOff" THEN NoMark ELSE back]
      BY <1>1, <2>3 DEF MarksWrite
    <3>2. tick = "setNumber" => back \in KeepPR
      BY DEF IInv, BackStands, TypeOK
    <3> QED BY <3>1, <3>2 DEF PassWrites, Settling
  <2> QED BY <2>1, <2>2, <2>3
<1>2. CASE Clear \/ Create \/ Sweep \/ Handback
  BY <1>2 DEF Clear, Create, Sweep, Handback, PassWrites, Managed
<1>3. CASE ~(MarksWrite \/ Clear \/ Create \/ Sweep \/ Handback)
  BY <1>3 DEF Reconciler, MarksTrack, MarksSettle, MarksNone, ReadGit, ListSecrets, Orphan, Owns, OpenPRs, Recheck,
     live, PassWrites
<1> QED BY <1>1, <1>2, <1>3

\* No mark goes on in a pass, but a number in the place of an aged one.
LEMMA PassKeeps ==
    ASSUME IInv, PassWrites
    PROVE  /\ Mark' => Mark
           /\ Exists' /\ secret'.keep = OldPending => Exists /\ secret.keep = OldPending
<1>1. CASE secret' = secret \/ secret' = NoSecret \/ \E own : secret' = Released(own)
  BY <1>1, ReleasedParts, ConnectionConstants DEF IInv, Mark, Exists
<1>2. CASE secret' = NewSecret(TRUE, "none")
  BY <1>2, NewSecretParts, ConnectionConstants DEF Mark, Exists
<1>3. CASE Exists /\ secret' = [secret EXCEPT !.pending = "none"]
  <2>1. secret \in Secret
    BY <1>3 DEF IInv, TypeOK, Exists
  <2>2. secret'.keep = secret.keep
    BY <1>3, <2>1 DEF Secret
  <2> QED BY <1>3, <2>2 DEF Mark
<1>4. ASSUME Exists, secret.keep \in Unnumbered, NEW j \in {NoMark} \cup KeepPR, secret' = [secret EXCEPT !.keep = j]
      PROVE  Mark /\ secret'.keep # OldPending
  <2>1. secret \in Secret
    BY <1>4 DEF IInv, TypeOK, Exists
  <2>2. secret'.keep = j
    BY <1>4, <2>1 DEF Secret
  <2> QED BY <1>4, <2>2, Numbers, ConnectionConstants DEF Mark
<1> QED BY <1>1, <1>2, <1>3, <1>4 DEF PassWrites

LEMMA PassMarks ==
    ASSUME KeepInv, setting' = setting, Reconciler
    PROVE  /\ UsedOnly' /\ MarkBegun' /\ PutUnderWay' /\ AgedWhenOver' /\ PutStays' /\ Endings'
           /\ FinSettled' /\ BackSettled' /\ Spared'
<1> USE DEF KeepInv, IInv, repo, live, pass, requests, promise
<1>1. req' = req /\ put' = put /\ git' = git /\ firm' = firm /\ fin' = fin
  BY DEF Reconciler, MarksTrack, MarksSettle, MarksWrite, MarksNone, ReadGit, ListSecrets, Orphan, Owns, Handback,
     OpenPRs, Recheck, Sweep, Create, Clear
<1>2. UsedOnly' /\ PutUnderWay' /\ Endings' /\ FinSettled' /\ Keeper' = Keeper
  BY <1>1 DEF UsedOnly, PutUnderWay, Endings, FinSettled, Keeper
<1>3. PassWrites
  BY PassWritesOnly
<1>4. /\ Mark' => Mark
      /\ Exists' /\ secret'.keep = OldPending => Exists /\ secret.keep = OldPending
  BY <1>3, PassKeeps
<1>5. tick' \in Settling => MarksSettle /\ MarkedOld
  BY DEF Reconciler, MarksTrack, MarksSettle, MarksWrite, MarksNone, ReadGit, ListSecrets, Orphan, Owns, Handback,
     OpenPRs, Recheck, Sweep, Create, Clear, TickGoto, Over, Settling
<1>6. MarkedOld => Mark
  BY ConnectionConstants DEF MarkedOld, Mark
<1>7. MarkBegun'
  BY <1>1, <1>2, <1>4, <1>5, <1>6 DEF MarkBegun
<1>8. AgedWhenOver'
  BY <1>1, <1>4, <1>5 DEF AgedWhenOver, MarkedOld
<1>9. PutStays'
  <2> SUFFICES ASSUME NEW q \in put \cap KeepPR, firm PROVE Exists' /\ secret'.keep = Pending
    BY <1>1 DEF PutStays
  <2>1. Exists /\ secret.keep = Pending /\ Mark /\ Pending \notin PR /\ tick \notin Settling /\ tick # "sweep"
    BY ConnectionConstants DEF PutStays, Mark, AgedWhenOver, Spared, NoneDeletes, Past
  <2>2. CASE secret' = secret
    BY <2>1, <2>2 DEF Exists
  <2>3. CASE secret' = [secret EXCEPT !.pending = "none"]
    <3>1. secret \in Secret
      BY <2>1 DEF TypeOK, Exists
    <3>2. secret' \in Secret /\ secret'.keep = secret.keep
      BY <2>3, <3>1 DEF Secret
    <3> QED BY <2>1, <3>2, SecretParts DEF Exists
  <2>4. CASE tick = "handback" /\ secret' = Released({back})
    <3>1. back \in PR
      BY <2>4, Numbers DEF BackSettled
    <3> QED BY <2>1, <2>4, <3>1, ReleasedParts DEF Exists
  <2> QED BY <1>3, <2>1, <2>2, <2>3, <2>4 DEF PassWrites, Settling
<1>10. BackSettled'
  <2>1. CASE tick' = "owns"
    <3>1. Orphan /\ back' \in ReleasedBy
      BY <2>1 DEF Reconciler, MarksTrack, MarksSettle, MarksWrite, MarksNone, ReadGit, ListSecrets, Orphan, Owns,
         Handback, OpenPRs, Recheck, Sweep, Create, Clear, TickGoto, Over
    <3>2. back' \in KeepPR /\ tracked[back'] # NoEntry /\ tracked[back'].status = "merged"
      BY <3>1 DEF ReleasedBy, HasStatus
    <3>3. git[back'] # "open"
      BY <3>2, Numbers DEF EntriesStand
    <3> QED BY <1>1, <3>2, <3>3 DEF BackSettled
  <2>2. CASE tick' = "handback"
    <3>1. tick = "owns" /\ back' = back
      BY <2>2 DEF Reconciler, MarksTrack, MarksSettle, MarksWrite, MarksNone, ReadGit, ListSecrets, Orphan, Owns,
         Handback, OpenPRs, Recheck, Sweep, Create, Clear, TickGoto, Over, Sees
    <3> QED BY <1>1, <3>1 DEF BackSettled
  <2> QED BY <2>1, <2>2 DEF BackSettled
<1>11. Spared'
  <2> SUFFICES ASSUME firm, Mark PROVE NoneDeletes'
    BY <1>1, <1>4 DEF Spared
  <2>1. NoneDeletes
    BY DEF Spared
  <2>2. tick' = "orphan" => seen' = secret
    BY DEF Reconciler, MarksTrack, MarksSettle, MarksWrite, MarksNone, ReadGit, ListSecrets, Orphan, Owns,
       Handback, OpenPRs, Recheck, Sweep, Create, Clear, TickGoto, Over
  <2>3. tick' \notin Past
    BY <2>1 DEF Reconciler, MarksTrack, MarksSettle, MarksWrite, MarksNone, ReadGit, ListSecrets, Orphan, Owns,
       Handback, OpenPRs, Recheck, Sweep, Create, Clear, TickGoto, Over, NoneDeletes, Past, WaitedFor
  <2> QED BY <1>1, <2>1, <2>2, <2>3 DEF NoneDeletes, Mark
<1> QED BY <1>2, <1>7, <1>8, <1>9, <1>10, <1>11

LEMMA OthersMarks ==
    ASSUME KeepInv, setting' = setting,
           GraceEnds \/ MarkAges \/ Restart \/ \E p \in PR : Tracker(p) \/ PersonCloses(p) \/ PersonMerges(p)
    PROVE  /\ UsedOnly' /\ MarkBegun' /\ PutUnderWay' /\ AgedWhenOver' /\ PutStays' /\ Endings'
           /\ FinSettled' /\ BackSettled' /\ Spared'
<1> USE DEF KeepInv, IInv, repo, live, pass, requests, promise
<1>0. Keeper' = Keeper
  BY DEF Keeper
<1>1. CASE GraceEnds \/ MarkAges
  <2>1. /\ req' = req /\ put' = put /\ git' = git /\ firm' = firm /\ fin' = fin
        /\ tick' = tick /\ seen' = seen /\ back' = back
    BY <1>1 DEF GraceEnds, MarkAges
  <2>2. /\ Exists /\ Exists'
        /\ \/ secret'.keep = secret.keep
           \/ secret.keep = Pending /\ secret'.keep = OldPending /\ put \cap KeepPR = {}
    <3>1. secret \in Secret
      BY <1>1 DEF GraceEnds, MarkAges, TypeOK, Exists
    <3>2. CASE GraceEnds
      <4>1. secret' \in Secret /\ secret'.keep = secret.keep
        BY <3>1, <3>2 DEF GraceEnds, Secret
      <4> QED BY <3>1, <4>1, SecretParts DEF Exists
    <3>3. CASE MarkAges
      <4>1. secret' \in Secret /\ secret'.keep = OldPending /\ secret.keep = Pending
        BY <3>1, <3>3 DEF MarkAges, Secret, Unnumbered
      <4>2. put \cap KeepPR = {}
        BY <3>3 DEF MarkAges, Running
      <4> QED BY <3>1, <4>1, <4>2, SecretParts DEF Exists
    <3> QED BY <1>1, <3>2, <3>3
  <2>3. Mark' => Mark
    BY <2>2, ConnectionConstants DEF Mark
  <2>4. UsedOnly' /\ MarkBegun' /\ PutUnderWay' /\ Endings' /\ FinSettled' /\ BackSettled' /\ Spared'
    BY <1>0, <2>1, <2>3 DEF UsedOnly, MarkBegun, PutUnderWay, Endings, FinSettled, BackSettled, Spared, NoneDeletes
  <2>5. AgedWhenOver' /\ PutStays'
    BY <2>1, <2>2 DEF AgedWhenOver, PutStays
  <2> QED BY <2>4, <2>5
<1>2. CASE Restart
  <2>1. /\ put' = {} /\ git' = git /\ firm' = firm /\ secret' = secret
        /\ tick' = "idle" /\ \A f \in Finisher : fin'[f] = "idle"
        /\ \A p \in PR : req'[p] = IF req[p] = "idle" THEN "idle" ELSE "done"
    BY <1>2 DEF Restart, Over, TickGoto
  <2>2. MarkBegun'
    <3>1. Keeper \subseteq PR /\ Keeper \subseteq KeepPR
      BY Numbers DEF Keeper
    <3>2. \A p \in Keeper : req[p] = "done" \/ p \in put => req'[p] = "done"
      BY <2>1, <3>1 DEF PutUnderWay
    <3> QED BY <1>0, <2>1, <3>2 DEF MarkBegun, Mark, Exists, Settling
  <2>3. UsedOnly' /\ PutUnderWay' /\ AgedWhenOver' /\ PutStays' /\ Endings'
    BY <2>1 DEF UsedOnly, PutUnderWay, AgedWhenOver, PutStays, Endings
  <2>4. FinSettled' /\ BackSettled' /\ Spared'
    BY <2>1 DEF FinSettled, BackSettled, Spared, NoneDeletes, Past
  <2> QED BY <2>2, <2>3, <2>4
<1>3. ASSUME NEW p \in PR, Tracker(p) \/ PersonCloses(p) \/ PersonMerges(p)
      PROVE  /\ UsedOnly' /\ MarkBegun' /\ PutUnderWay' /\ AgedWhenOver' /\ PutStays' /\ Endings'
             /\ FinSettled' /\ BackSettled' /\ Spared'
  <2>1. /\ req' = req /\ put' = put /\ firm' = firm /\ secret' = secret
        /\ tick' = tick /\ seen' = seen /\ back' = back
    BY <1>3 DEF Tracker, TrackerSees, FinishStart, GaveUpEnds, PersonCloses, PersonMerges, Merge
  <2>2. \A q \in PR : (git'[q] = "open" => git[q] = "open") /\ (git'[q] = "none" <=> git[q] = "none")
    BY <1>3 DEF Tracker, TrackerSees, FinishStart, GaveUpEnds, PersonCloses, PersonMerges, Merge, TypeOK
  <2>3. UsedOnly' /\ MarkBegun' /\ PutUnderWay' /\ AgedWhenOver' /\ PutStays' /\ Endings'
    BY <1>0, <2>1, <2>2 DEF UsedOnly, MarkBegun, PutUnderWay, AgedWhenOver, PutStays, Endings, Mark, Exists
  <2>4. BackSettled'
    BY <2>1, <2>2, Numbers DEF BackSettled
  <2>5. \A f \in Finisher :
           \/ fin'[f] = fin[f]
           \/ fin'[f] \in {"drop", "check"} /\ tracked[f[1]] # NoEntry /\ tracked[f[1]].status # "open"
    BY <1>3 DEF Tracker, TrackerSees, FinishStart, GaveUpEnds, PersonCloses, PersonMerges, FinGoto, TypeOK, Finisher
  <2>6. FinSettled'
    BY <2>1, <2>2, <2>5, Numbers DEF FinSettled, EntriesStand, Finisher
  <2>7. Spared'
    BY <2>1, <2>5 DEF Spared, NoneDeletes, Mark, Exists
  <2> QED BY <2>3, <2>4, <2>6, <2>7
<1> QED BY <1>1, <1>2, <1>3

LEMMA NextKeep ==
    ASSUME KeepInv, [Next]_vars PROVE KeepInv'
<1>1. CASE UNCHANGED vars
  <2>1. UNCHANGED <<repo, live, tracked, requests, fin, pass, promise, bounds>>
    BY <1>1 DEF vars
  <2>2. IInv'
    BY <1>1, NextIInv DEF KeepInv
  <2> QED BY <2>1, <2>2 DEF KeepInv, OneKeeper, UsedOnly, MarkBegun, PutUnderWay, AgedWhenOver, PutStays, Endings,
             FinSettled, BackSettled, Spared, NoneDeletes, Keeper, Mark, Exists, repo, live, requests, pass,
             promise, bounds
<1>2. CASE Next
  <2>1. IInv' /\ setting' = setting /\ OneKeeper(setting)' /\ ~Hand
    BY <1>2, NextIInv, SameSetting DEF KeepInv, OneKeeper
  <2>2. /\ UsedOnly' /\ MarkBegun' /\ PutUnderWay' /\ AgedWhenOver' /\ PutStays' /\ Endings'
        /\ FinSettled' /\ BackSettled' /\ Spared'
    BY <1>2, <2>1, RegisterMarks, RemoveQuietMarks, SetMarkMarks, RemoveEndsMarks, FinishMarksKept, PassMarks,
       OthersMarks DEF Next, RemoveCluster
  <2> QED BY <2>1, <2>2 DEF KeepInv
<1> QED BY <1>1, <1>2

LEMMA StaysMarked ==
    ASSUME KeepInv, Next, ~Hand, NEW p \in KeepPR, firm, Exists, secret.keep = p, git[p] = "open"
    PROVE  secret' # NoSecret /\ secret'.keep = p
<1> USE DEF KeepInv, IInv
<1>1. /\ p \in PR /\ Keeper = {p} /\ Mark /\ p \notin Unnumbered /\ p # NoMark /\ secret # NoSecret
      /\ TypeOK /\ secret \in Secret
  <2>1. p \in PR /\ p \notin Unnumbered /\ p # NoMark
    BY Numbers DEF Unnumbered
  <2>2. p \in setting.used
    BY <2>1 DEF UsedOnly
  <2> QED BY <2>1, <2>2 DEF Keeper, OneKeeper, Mark, Exists, TypeOK
<1>2. NoneDeletes
  BY <1>1 DEF Spared
<1>3. \A j \in {NoMark} \cup Unnumbered \cup PR :
         [secret EXCEPT !.keep = j] # NoSecret /\ [secret EXCEPT !.keep = j].keep = j
  <2> TAKE j \in {NoMark} \cup Unnumbered \cup PR
  <2>1. [secret EXCEPT !.keep = j] \in Secret /\ [secret EXCEPT !.keep = j].keep = j
    BY <1>1 DEF Secret
  <2> QED BY <2>1, SecretParts
<1>4. \A w \in {"none", "fresh", "late"} :
         [secret EXCEPT !.pending = w] # NoSecret /\ [secret EXCEPT !.pending = w].keep = p
  <2> TAKE w \in {"none", "fresh", "late"}
  <2>1. [secret EXCEPT !.pending = w] \in Secret /\ [secret EXCEPT !.pending = w].keep = secret.keep
    BY <1>1 DEF Secret
  <2> QED BY <2>1, SecretParts
<1>5. ASSUME secret' = secret PROVE secret' # NoSecret /\ secret'.keep = p
  BY <1>1, <1>5
<1>6. ASSUME NEW q \in PR, RegisterCluster(q) PROVE secret' # NoSecret /\ secret'.keep = p
  <2>1. secret' = secret \/ \E same \in BOOLEAN : secret' = Ensured(same)
    BY <1>6 DEF RegisterCluster, RegWrite, RegFind, RegOpen, RegMerge, live
  <2> QED BY <1>1, <2>1, EnsuredParts
<1>7. ASSUME NEW q \in PR, RemoveCluster(q) PROVE secret' # NoSecret /\ secret'.keep = p
  <2>1. CASE RemSetMark(q)
    <3>1. q \in Keeper /\ git[q] = "none"
      BY <2>1 DEF RemSetMark, RequestsStand, UsedOnly, Keeper
    <3> QED BY <1>1, <3>1
  <2>2. CASE RemNumber(q)
    <3>1. q \in put => q = p
      <4>1. q \in Removal /\ q \in setting.used
        BY <2>2 DEF RemNumber, RequestsStand, UsedOnly
      <4>2. q \in put => q \in KeepPR
        BY <4>1, Numbers DEF TypeOK
      <4> QED BY <1>1, <4>1, <4>2 DEF Keeper
    <3> QED BY <1>1, <1>3, <2>2, <3>1 DEF RemNumber
  <2>3. CASE RemUnmark(q)
    BY <1>1, <2>3 DEF RemUnmark
  <2> QED BY <1>5, <1>7, <2>1, <2>2, <2>3 DEF RemoveCluster, RemPlan, RemMark, RemOpen, RemTrack, RemMerge, live
<1>8. ASSUME NEW f \in Finisher, FinishRemove(f) PROVE secret' # NoSecret /\ secret'.keep = p
  <2>1. f[1] \in PR
    BY Numbers DEF Finisher
  <2>2. CASE FinishRelease(f)
    <3>1. git[f[1]] # "open"
      BY <2>2 DEF FinishRelease, FinSettled
    <3>2. p \notin MarkOf(f[1])
      BY <1>1, <3>1 DEF MarkOf
    <3> QED BY <1>1, <1>5, <2>2, <3>2, ReleasedParts DEF FinishRelease
  <2>3. CASE FinishDrop(f)
    <3>1. git[f[1]] # "open"
      BY <2>3 DEF FinishDrop, FinSettled
    <3> QED BY <1>5, <2>3, <3>1 DEF FinishDrop
  <2>4. ~FinishDelete(f)
    BY <1>2 DEF FinishDelete, NoneDeletes
  <2> QED BY <1>5, <1>8, <2>2, <2>3, <2>4 DEF FinishRemove, FinishCheck, FinishWaiting, FinishAddons, FinishMarks,
             FinishSettle, live
<1>9. ASSUME Reconciler PROVE secret' # NoSecret /\ secret'.keep = p
  <2>1. PassWrites
    BY <1>9, PassWritesOnly
  <2>2. tick # "sweep" /\ secret.keep \notin Unnumbered
    BY <1>1, <1>2 DEF NoneDeletes, Past
  <2>3. CASE tick = "handback" /\ secret' = Released({back})
    BY <1>1, <2>3, ReleasedParts DEF BackSettled
  <2>4. CASE secret' = Released(Unnumbered)
    BY <1>1, <2>4, ReleasedParts
  <2> QED BY <1>4, <1>5, <2>1, <2>2, <2>3, <2>4 DEF PassWrites
<1>10. ASSUME GraceEnds \/ MarkAges \/ Restart \/ \E q \in PR : Tracker(q) \/ PersonMerges(q) \/ PersonCloses(q)
       PROVE  secret' # NoSecret /\ secret'.keep = p
  BY <1>1, <1>4, <1>5, <1>10 DEF GraceEnds, MarkAges, Restart, Tracker, TrackerSees, FinishStart, GaveUpEnds,
     PersonMerges, PersonCloses, live, Unnumbered
<1> QED BY <1>6, <1>7, <1>8, <1>9, <1>10 DEF Next

\* A numbered keep mark stays, and its connection with it, until the pull request
\* it names is open no more, whatever other removals with cleanup=all,
\* registrations, failed calls and restarts there are: unless someone was about
\* to delete when the mark went on, or a second removal that keeps the
\* connection is requested (OneKeeper).
THEOREM MarkOutlives ==
    ASSUME \A s \in Settings : OneKeeper(s)
    PROVE  Spec => MarkOutlivesOthers
<1>1. ASSUME KeepInv, Next PROVE MarkStays
  <2>1. ~Hand
    BY <1>1, SameSetting DEF KeepInv, OneKeeper
  <2> QED BY <1>1, <2>1, StaysMarked DEF MarkStays
<1>2. UNCHANGED vars => MarkStays
  BY DEF vars, live, MarkStays, Exists
<1>3. KeepInv /\ [Next]_vars => [MarkStays]_vars
  BY <1>1
<1>4. Init => KeepInv
  BY InitKeep
<1>5. KeepInv /\ [Next]_vars => KeepInv'
  BY NextKeep
<1> QED BY <1>3, <1>4, <1>5, PTL DEF Spec, MarkOutlivesOthers

-----------------------------------------------------------------------------
(* The promise                                                             *)

\* Besides, a registration that may run writes no connection itself. (With an
\* inline kubeconfig one that fails after it wrote its waiting mark makes the
\* finish step drop the keep mark.)
NoneWrites(s) == OneKeeper(s) /\ (s.backend \/ s.used \cap RegPR = {})

\* No registration had its pull request opened.
Unasked == \A r \in RegPR : git[r] = "none"

\* Then a cluster that left Git does not come back, and no connection waits for
\* a registration.
StaysOut == Unasked => \A p \in Removal : git[p] = "open" /\ p \notin diff => ~inGit
NonePending == Exists => secret.pending = "none"

\* An open removal that is tracked has a mark on the connection; one the
\* reconciler settles was not tracked, and never is.
OpenMarked == \A p \in KeepPR : firm /\ git[p] = "open" /\ tracked[p] # NoEntry => Mark
SettlesUntracked ==
    tick \in {"takeOff", "giveBack"} => (\A p \in KeepPR : tracked[p] = NoEntry) /\ (Exists => secret.keep \notin PR)

\* What keeps a promised connection: it is released, or a mark is on it that
\* nobody may take off without releasing it.
Promised ==
    kept = "known" /\ Unasked =>
        /\ Exists /\ ~inGit
        /\ \A p \in Keeper : /\ git[p] \in {"merged", "gone"}
                             /\ tracked[p] # NoEntry => tracked[p].status # "closed"
        /\ Managed => Mark
        /\ \A f \in Finisher : f[1] \in KeepPR => fin[f] # "drop"
        /\ NoneDeletes
        /\ tick # "takeOff"

PromiseInv ==
    /\ KeepInv /\ NoneWrites(setting)
    /\ StaysOut /\ NonePending /\ OpenMarked /\ SettlesUntracked /\ Promised

LEMMA InitPromise ==
    ASSUME Init, \A s \in Settings : NoneWrites(s) PROVE PromiseInv
<1>1. KeepInv /\ NoneWrites(setting)
  BY InitKeep DEF Init, NoneWrites
<1>2. NonePending
  BY DEF Init, NewSecret, NonePending, Exists
<1>3. StaysOut /\ OpenMarked /\ SettlesUntracked /\ Promised
  BY Numbers DEF Init, StaysOut, OpenMarked, SettlesUntracked, Promised
<1> QED BY <1>1, <1>2, <1>3 DEF PromiseInv

\* The one removal that keeps the connection.
LEMMA TheKeeper ==
    ASSUME KeepInv
    PROVE  /\ Keeper \subseteq PR /\ Keeper \subseteq KeepPR /\ \A p, q \in Keeper : p = q
           /\ \A p \in KeepPR : git[p] # "none" \/ req[p] # "idle" => p \in Keeper
           /\ \A f \in Finisher : f[1] \in PR /\ (f[1] \in KeepPR /\ fin[f] # "idle" => f[1] \in Keeper)
<1>1. Keeper \subseteq PR /\ Keeper \subseteq KeepPR /\ \A p, q \in Keeper : p = q
  BY Numbers DEF KeepInv, OneKeeper, Keeper
<1>2. \A p \in KeepPR : git[p] # "none" \/ req[p] # "idle" => p \in Keeper
  BY Numbers DEF KeepInv, UsedOnly, Keeper
<1>3. \A f \in Finisher : f[1] \in PR
  BY Numbers DEF Finisher
<1>4. \A f \in Finisher : f[1] \in KeepPR /\ fin[f] # "idle" => f[1] \in Keeper
  BY <1>2, <1>3 DEF KeepInv, FinSettled
<1> QED BY <1>1, <1>2, <1>3, <1>4

LEMMA RegisterPromises ==
    ASSUME PromiseInv, setting' = setting, NEW p \in PR, RegisterCluster(p)
    PROVE  StaysOut' /\ NonePending' /\ OpenMarked' /\ SettlesUntracked' /\ Promised'
<1> USE DEF PromiseInv, KeepInv, IInv, repo, live, pass, requests, promise
<1>0. p \in RegPR /\ p \notin KeepPR /\ p \notin Removal /\ RegPR \subseteq PR /\ Removal \subseteq PR /\ KeepPR \subseteq PR
  BY Numbers DEF RegisterCluster, RegWrite, RegFind, RegOpen, RegMerge
<1>1. Backend
  <2>1. p \in setting.used
    BY DEF UsedOnly, RegisterCluster, RegWrite, RegFind, RegOpen, RegMerge, Requested
  <2> QED BY <1>0, <2>1 DEF NoneWrites, Backend
<1>2. /\ secret' = secret /\ tick' = tick /\ seen' = seen /\ fin' = fin /\ firm' = firm
      /\ \A q \in PR \ {p} : git'[q] = git[q] /\ tracked'[q] = tracked[q]
      /\ git[p] # "none" => git'[p] # "none"
  BY <1>1 DEF TypeOK, RegisterCluster, RegWrite, RegFind, RegOpen, RegMerge, Opens, Merge
<1>3. Unasked' => Unasked
  BY <1>0, <1>2 DEF Unasked
<1>4. Unasked' => git' = git /\ inGit' = inGit /\ diff' = diff /\ kept' = kept
  <2>1. CASE RegWrite(p) \/ RegFind(p)
    BY <1>1, <2>1 DEF RegWrite, RegFind
  <2>2. CASE RegOpen(p)
    BY <1>0, <2>2 DEF RegOpen, Opens, Unasked, TypeOK
  <2>3. CASE RegMerge(p)
    BY <1>0, <2>3 DEF RegMerge, Merge, Unasked, TypeOK
  <2> QED BY <2>1, <2>2, <2>3 DEF RegisterCluster
<1>5. StaysOut' /\ NonePending'
  BY <1>2, <1>3, <1>4 DEF StaysOut, NonePending, Exists
<1>6. OpenMarked' /\ SettlesUntracked'
  BY <1>0, <1>2 DEF OpenMarked, SettlesUntracked, Mark, Exists
<1>7. Promised'
  <2> SUFFICES ASSUME kept' = "known", Unasked' PROVE Promised'
    BY DEF Promised
  <2>1. Promised /\ kept = "known" /\ Unasked /\ inGit' = inGit
    BY <1>3, <1>4
  <2>2. Keeper' = Keeper /\ \A q \in Keeper : git'[q] = git[q] /\ tracked'[q] = tracked[q]
    BY <1>0, <1>2, TheKeeper DEF Keeper
  <2> QED BY <1>2, <2>1, <2>2 DEF Promised, NoneDeletes, Mark, Managed, Exists
<1> QED BY <1>5, <1>6, <1>7

LEMMA MergePromises ==
    ASSUME PromiseInv, setting' = setting, NEW p \in PR, Merge(p), UNCHANGED <<live, tracked, fin, pass>>
    PROVE  StaysOut' /\ NonePending' /\ OpenMarked' /\ SettlesUntracked' /\ Promised'
<1> USE DEF PromiseInv, KeepInv, IInv, live, pass
<1>1. /\ git[p] = "open" /\ git'[p] = "merged" /\ \A q \in PR \ {p} : git'[q] = git[q]
      /\ diff' = diff \ {p} /\ firm' = firm /\ inGit' = IF p \in diff THEN p \in RegPR ELSE inGit
  BY DEF Merge, TypeOK
<1>2. RegPR \subseteq PR /\ Removal \subseteq PR /\ KeepPR \subseteq PR /\ KeepPR \subseteq Removal /\ RegPR \cap Removal = {}
  BY Numbers
<1>3. Unasked' => Unasked /\ p \in Removal /\ p \notin RegPR /\ (inGit' => inGit)
  <2>1. Unasked' => Unasked /\ p \notin RegPR
    BY <1>1, <1>2 DEF Unasked
  <2> QED BY <1>1, <2>1 DEF PR
<1>4. NonePending' /\ OpenMarked' /\ SettlesUntracked'
  BY <1>1, <1>2 DEF NonePending, OpenMarked, SettlesUntracked, Mark, Exists
<1>5. StaysOut'
  BY <1>1, <1>2, <1>3 DEF StaysOut
<1>6. Promised'
  <2> SUFFICES ASSUME kept' = "known", Unasked' PROVE Promised'
    BY DEF Promised
  <2>0. Keeper' = Keeper
    BY DEF Keeper
  <2>1. CASE kept = "known"
    <3>1. p \notin Keeper
      BY <1>1, <1>3, <2>1 DEF Promised
    <3>2. \A q \in Keeper : git'[q] = git[q]
      BY <1>1, <3>1, TheKeeper
    <3> QED BY <1>1, <1>3, <2>0, <2>1, <3>2 DEF Promised, NoneDeletes, Mark, Managed, Exists
  <2>2. CASE kept # "known"
    <3>1. p \in KeepPR /\ Managed /\ firm /\ (tracked[p] # NoEntry \/ secret.keep = p)
      BY <2>2 DEF Merge
    <3>2. Keeper = {p}
      BY <1>1, <3>1, TheKeeper
    <3>3. Mark
      BY <1>1, <1>2, <3>1, Numbers DEF OpenMarked, Mark, Managed
    <3>4. ~inGit'
      BY <1>1, <1>3, <3>1 DEF StaysOut
    <3>5. tracked[p] # NoEntry => tracked[p].status # "closed"
      BY <1>1 DEF EntriesStand
    <3>6. NoneDeletes
      BY <3>1, <3>3 DEF Spared
    <3>7. tick # "takeOff"
      BY <1>2, <3>1 DEF SettlesUntracked, Managed
    <3>8. \A f \in Finisher : f[1] \in KeepPR => fin[f] # "drop"
      BY <1>1, <3>2, TheKeeper DEF FinSettled
    <3> QED BY <1>1, <2>0, <3>1, <3>2, <3>3, <3>4, <3>5, <3>6, <3>7, <3>8
            DEF Promised, NoneDeletes, Mark, Managed, Exists
  <2> QED BY <2>1, <2>2
<1> QED BY <1>4, <1>5, <1>6

LEMMA RemovePromises ==
    ASSUME PromiseInv, setting' = setting, NEW p \in PR, RemoveCluster(p)
    PROVE  StaysOut' /\ NonePending' /\ OpenMarked' /\ SettlesUntracked' /\ Promised'
<1> USE DEF PromiseInv, KeepInv, IInv, repo, live, pass, requests, promise
<1>0. /\ RegPR \subseteq PR /\ Removal \subseteq PR /\ KeepPR \subseteq PR /\ KeepPR \subseteq Removal
      /\ RegPR \cap Removal = {} /\ Keeper' = Keeper
  BY Numbers DEF Keeper
<1>1. CASE RemMerge(p) /\ Merge(p)
  BY <1>1, MergePromises DEF RemMerge
<1>2. CASE RemPlan(p)
  <2>1. UNCHANGED <<repo, live, tracked, pass>> /\ firm' = firm
    BY <1>2 DEF RemPlan
  <2>2. \A f \in Finisher : fin'[f] = fin[f] \/ fin'[f] \in {"addons", "release"}
    BY <1>2 DEF RemPlan, FinGoto, FirstStep, TypeOK
  <2>3. kept' = "known" => kept = "known"
    BY <1>2 DEF RemPlan
  <2> QED BY <1>0, <2>1, <2>2, <2>3 DEF StaysOut, NonePending, OpenMarked, SettlesUntracked, Promised, NoneDeletes,
             Unasked, Mark, Managed, Exists
<1>3. CASE RemMark(p) \/ (RemMerge(p) /\ ~Merge(p))
  <2>1. UNCHANGED <<repo, live, tracked, fin, pass, promise>>
    BY <1>3 DEF RemMark, RemMerge
  <2> QED BY <1>0, <2>1 DEF StaysOut, NonePending, OpenMarked, SettlesUntracked, Promised, NoneDeletes, Unasked, Mark,
             Managed, Exists
<1>4. CASE RemOpen(p)
  <2>1. UNCHANGED <<inGit, live, tracked, fin, pass, promise>> /\ p \in Removal /\ git[p] = "none"
    BY <1>4 DEF RemOpen, RequestsStand
  <2>2. CASE git' = git /\ diff' = diff
    BY <1>0, <2>1, <2>2 DEF StaysOut, NonePending, OpenMarked, SettlesUntracked, Promised, NoneDeletes, Unasked, Mark,
       Managed, Exists
  <2>3. CASE Opens(p)
    <3>1. git'[p] = "open" /\ \A q \in PR \ {p} : git'[q] = git[q]
      BY <2>3 DEF Opens, TypeOK
    <3>2. diff \subseteq diff' /\ (p \notin diff' => ~inGit)
      BY <1>0, <2>1, <2>3 DEF Opens, TypeOK
    <3>3. tracked[p] = NoEntry
      BY <2>1 DEF EntriesStand
    <3>4. Unasked' => Unasked /\ (kept = "known" => p \notin Keeper)
      BY <1>0, <2>1, <3>1 DEF Unasked, Promised
    <3>5. StaysOut' /\ NonePending' /\ OpenMarked' /\ SettlesUntracked'
      BY <1>0, <2>1, <3>1, <3>2, <3>3, <3>4 DEF StaysOut, NonePending, OpenMarked, SettlesUntracked, Mark, Exists
    <3>6. Promised'
      BY <1>0, <2>1, <3>1, <3>4, TheKeeper DEF Promised, NoneDeletes, Mark, Managed, Exists
    <3> QED BY <3>5, <3>6
  <2> QED BY <1>4, <2>2, <2>3 DEF RemOpen
<1>5. CASE RemTrack(p)
  <2>1. UNCHANGED <<repo, live, fin, pass, promise>> /\ req[p] = "track"
    BY <1>5 DEF RemTrack
  <2>2. tracked' = tracked \/ tracked' = [tracked EXCEPT ![p] = NewEntry]
    BY <1>5 DEF RemTrack
  <2>3. \A q \in PR : tracked'[q] # tracked[q] => q = p /\ tracked'[q].status = "open"
    BY <2>2, Tracks DEF TypeOK
  <2>4. p \in KeepPR /\ (firm \/ tick \in Settling) => p \in put /\ p \in Keeper
    BY <2>1, TheKeeper DEF MarkBegun
  <2>5. OpenMarked'
    <3>1. p \in KeepPR /\ firm => Mark
      BY <2>4, ConnectionConstants DEF PutStays, Mark
    <3> QED BY <1>0, <2>1, <2>3, <3>1 DEF OpenMarked, Mark, Exists
  <2>6. SettlesUntracked'
    <3>1. tick \in {"takeOff", "giveBack"} => p \notin KeepPR
      BY <2>4 DEF AgedWhenOver, Settling
    <3> QED BY <1>0, <2>1, <2>3, <3>1 DEF SettlesUntracked, Exists
  <2>7. Promised'
    <3>1. \A q \in Keeper : tracked'[q] # NoEntry => tracked'[q].status = "open" \/ tracked'[q] = tracked[q]
      BY <2>3, TheKeeper
    <3> QED BY <1>0, <2>1, <3>1 DEF Promised, NoneDeletes, Unasked, Mark, Managed, Exists
  <2> QED BY <2>1, <2>5, <2>6, <2>7 DEF StaysOut, NonePending, Unasked, Exists
<1>6. CASE RemSetMark(p)
  <2>1. /\ UNCHANGED <<repo, tracked, fin, pass, kept>> /\ p \in Keeper /\ git[p] = "none" /\ req[p] = "setMark"
    BY <1>6, TheKeeper DEF RemSetMark, RequestsStand
  <2>2. ~(kept = "known" /\ Unasked) /\ (\A q \in KeepPR : git[q] = "none") /\ tick \notin Settling
    BY <2>1, TheKeeper DEF Promised, MarkBegun, PutUnderWay
  <2>3. secret' = secret \/ (Exists /\ secret' = [secret EXCEPT !.keep = Pending])
    BY <1>6 DEF RemSetMark
  <2>4. NonePending'
    <3>1. CASE Exists /\ secret' = [secret EXCEPT !.keep = Pending]
      <4>1. secret \in Secret
        BY <3>1 DEF TypeOK, Exists
      <4> QED BY <3>1, <4>1 DEF NonePending, Secret
    <3> QED BY <2>3, <3>1 DEF NonePending, Exists
  <2> QED BY <1>0, <2>1, <2>2, <2>4 DEF StaysOut, OpenMarked, SettlesUntracked, Promised, Settling, Unasked
<1>7. CASE RemNumber(p) \/ RemUnmark(p)
  <2>1. /\ UNCHANGED <<repo, tracked, pass, promise>>
        /\ \A f \in Finisher : fin'[f] = fin[f] \/ fin'[f] \in {"addons", "release"}
        /\ RemUnmark(p) => fin' = fin
    BY <1>7 DEF RemNumber, RemUnmark, FinGoto, FirstStep, TypeOK
  <2>2. \/ secret' = secret
        \/ Exists /\ p \in put /\ RemNumber(p) /\ secret' = [secret EXCEPT !.keep = p]
        \/ Exists /\ p \in put /\ RemUnmark(p) /\ secret' = [secret EXCEPT !.keep = NoMark]
    BY <1>7 DEF RemNumber, RemUnmark
  <2>3. CASE secret' = secret
    BY <1>0, <2>1, <2>3 DEF StaysOut, NonePending, OpenMarked, SettlesUntracked, Promised, NoneDeletes, Unasked, Mark,
       Managed, Exists
  <2>4. ASSUME Exists, p \in put, NEW j \in {NoMark, p}, secret' = [secret EXCEPT !.keep = j],
               RemUnmark(p) \/ j = p
        PROVE  StaysOut' /\ NonePending' /\ OpenMarked' /\ SettlesUntracked' /\ Promised'
    <3>1. secret \in Secret
      BY <2>4 DEF TypeOK, Exists
    <3>2. /\ Exists' /\ secret'.keep = j /\ secret'.pending = secret.pending /\ secret'.managed = secret.managed
      <4>1. /\ secret' \in Secret /\ secret'.keep = j
            /\ secret'.pending = secret.pending /\ secret'.managed = secret.managed
        BY <2>4, <3>1 DEF Secret
      <4> QED BY <4>1, SecretParts DEF Exists
    <3>3. p \in Keeper /\ p \in put \cap KeepPR
      <4>1. p \in Removal
        BY <1>7 DEF RemNumber, RemUnmark, RequestsStand, Endings
      <4>2. p \in KeepPR
        BY <2>4, <4>1, Numbers DEF TypeOK
      <4> QED BY <1>7, <2>4, <4>2, TheKeeper DEF RemNumber, RemUnmark
    <3>4. tick \notin Settling
      BY <3>3 DEF AgedWhenOver
    <3>5. j = NoMark => git[p] = "none" /\ (\A q \in KeepPR : git[q] = "none")
      <4>1. j = NoMark => RemUnmark(p)
        BY <2>4, Numbers
      <4> QED BY <3>3, <4>1, TheKeeper DEF RemUnmark, Endings
    <3>6. j # NoMark => Mark'
      BY <3>2 DEF Mark
    <3>7. StaysOut' /\ NonePending' /\ SettlesUntracked'
      BY <2>1, <2>4, <3>2, <3>4 DEF StaysOut, NonePending, SettlesUntracked, Unasked, Settling
    <3>8. OpenMarked'
      BY <2>1, <3>5, <3>6 DEF OpenMarked
    <3>9. Promised'
      BY <1>0, <2>1, <3>2, <3>3, <3>5, <3>6 DEF Promised, NoneDeletes, Unasked, Managed
    <3> QED BY <3>7, <3>8, <3>9
  <2> QED BY <2>2, <2>3, <2>4
<1> QED BY <1>1, <1>2, <1>3, <1>4, <1>5, <1>6, <1>7 DEF RemoveCluster

LEMMA FinishPromises ==
    ASSUME PromiseInv, setting' = setting, NEW f \in Finisher, FinishRemove(f)
    PROVE  StaysOut' /\ NonePending' /\ OpenMarked' /\ SettlesUntracked' /\ Promised'
<1> USE DEF PromiseInv, KeepInv, IInv, repo, live, pass, requests, promise
<1>0. /\ RegPR \subseteq PR /\ Removal \subseteq PR /\ KeepPR \subseteq PR /\ KeepPR \subseteq Removal
      /\ RegPR \cap Removal = {} /\ Keeper' = Keeper /\ f[1] \in PR /\ f[1] \in Removal
  BY Numbers, TheKeeper DEF Keeper, Finisher
<1>1. /\ UNCHANGED <<repo, pass, promise>> /\ fin[f] # "idle"
      /\ \A g \in Finisher \ {f} : fin'[g] = fin[g]
  BY DEF TypeOK, FinishRemove, FinishCheck, FinishWaiting, FinishAddons, FinishMarks, FinishDelete, FinishRelease,
     FinishDrop, FinishSettle, FinGoto
<1>2. \A q \in PR : tracked'[q] # NoEntry => tracked[q] # NoEntry /\ tracked'[q].status = tracked[q].status
  <2>1. CASE FinishSettle(f)
    <3>1. CASE tracked' = tracked \/ tracked' = [tracked EXCEPT ![f[1]] = NoEntry]
      BY <1>0, <3>1 DEF TypeOK
    <3>2. ASSUME NEW g \in BOOLEAN, tracked[f[1]] # NoEntry, tracked' = [tracked EXCEPT ![f[1]].gaveUp = g]
          PROVE  \A q \in PR : tracked'[q] # NoEntry => tracked[q] # NoEntry /\ tracked'[q].status = tracked[q].status
      <4>1. tracked[f[1]] \in Entry
        BY <1>0, <3>2 DEF TypeOK
      <4>2. tracked'[f[1]].status = tracked[f[1]].status
        BY <1>0, <3>2, <4>1 DEF TypeOK, Entry
      <4>3. \A q \in PR \ {f[1]} : tracked'[q] = tracked[q]
        BY <3>2 DEF TypeOK
      <4> QED BY <3>2, <4>2, <4>3
    <3> QED BY <2>1, <3>1, <3>2 DEF FinishSettle
  <2>2. CASE ~FinishSettle(f)
    BY <2>2 DEF FinishRemove, FinishCheck, FinishWaiting, FinishAddons, FinishMarks, FinishDelete, FinishRelease,
       FinishDrop
  <2> QED BY <2>1, <2>2
<1>3. \/ secret' = secret
      \/ fin[f] = "delete" /\ secret' = NoSecret
      \/ fin[f] = "release" /\ secret' = Released(MarkOf(f[1]))
      \/ fin[f] = "drop" /\ Exists /\ secret.keep = f[1] /\ secret' = [secret EXCEPT !.keep = NoMark]
  BY DEF FinishRemove, FinishCheck, FinishWaiting, FinishAddons, FinishMarks, FinishDelete, FinishRelease,
     FinishDrop, FinishSettle
<1>4. secret' # secret /\ fin[f] \in {"release", "drop"} => f[1] \in KeepPR /\ \A q \in KeepPR : git[q] # "open"
  <2> SUFFICES ASSUME secret' # secret, fin[f] \in {"release", "drop"}
               PROVE  f[1] \in KeepPR /\ \A q \in KeepPR : git[q] # "open"
    OBVIOUS
  <2>1. f[1] \in KeepPR
    BY <1>0, <1>3 DEF FinSettled, MarkStands, MarkIsGood, Exists
  <2>2. f[1] \in Keeper
    BY <1>1, <2>1, TheKeeper
  <2>3. git[f[1]] # "open"
    BY <1>1 DEF FinSettled
  <2> QED BY <2>1, <2>2, <2>3, TheKeeper
<1>5. Exists' => Exists /\ secret'.pending = secret.pending /\ secret'.keep \in {secret.keep, NoMark}
  <2> SUFFICES ASSUME Exists', secret' # secret
               PROVE  Exists /\ secret'.pending = secret.pending /\ secret'.keep \in {secret.keep, NoMark}
    BY DEF Exists
  <2>1. CASE secret' = Released(MarkOf(f[1]))
    <3>1. Exists /\ secret \in Secret
      BY <2>1, ReleasedParts DEF TypeOK, Exists
    <3> QED BY <2>1, <3>1 DEF Released, Secret
  <2>2. CASE Exists /\ secret' = [secret EXCEPT !.keep = NoMark]
    <3>1. secret \in Secret
      BY <2>2 DEF TypeOK, Exists
    <3> QED BY <2>2, <3>1 DEF Secret
  <2> QED BY <1>3, <2>1, <2>2 DEF Exists
<1>6. StaysOut' /\ NonePending'
  BY <1>1, <1>5 DEF StaysOut, NonePending, Unasked
<1>7. OpenMarked'
  <2>1. CASE secret' = secret
    BY <1>0, <1>1, <1>2, <2>1 DEF OpenMarked, Mark, Exists
  <2>2. CASE fin[f] = "delete"
    BY <1>0, <1>1, <1>2, <2>2 DEF OpenMarked, Spared, NoneDeletes
  <2>3. CASE secret' # secret /\ fin[f] \in {"release", "drop"}
    BY <1>1, <1>4, <2>3 DEF OpenMarked
  <2> QED BY <1>3, <2>1, <2>2, <2>3
<1>8. SettlesUntracked'
  <2>1. NoMark \notin PR
    BY Numbers
  <2> QED BY <1>0, <1>1, <1>2, <1>5, <2>1 DEF SettlesUntracked
<1>9. Promised'
  <2> SUFFICES ASSUME kept = "known", Unasked PROVE Promised'
    BY <1>1 DEF Promised, Unasked
  <2>1. Promised /\ fin[f] # "delete" /\ (f[1] \in KeepPR => fin[f] # "drop")
    BY DEF Promised, NoneDeletes
  <2>2. Exists' /\ (Managed' => Mark')
    <3>1. CASE secret' = secret
      BY <2>1, <3>1 DEF Promised, Exists, Managed, Mark
    <3>2. CASE fin[f] = "release" /\ secret' = Released(MarkOf(f[1]))
      BY <2>1, <3>2, ReleasedParts DEF Promised, Exists, Managed
    <3>3. CASE secret' # secret /\ fin[f] = "drop"
      BY <1>4, <2>1, <3>3
    <3> QED BY <1>3, <2>1, <3>1, <3>2, <3>3
  <2>3. fin'[f] # "delete"
    BY <2>1 DEF TypeOK, FinishRemove, FinishCheck, FinishWaiting, FinishAddons, FinishMarks, FinishDelete,
       FinishRelease, FinishDrop, FinishSettle, FinGoto, FirstStep, MayDelete, Mark, Promised
  <2>4. f[1] \in KeepPR => fin'[f] # "drop"
    <3>1. ~NewRegistrationWaiting
      BY <1>0 DEF NewRegistrationWaiting, NonePending, HasStatus, EntriesStand, Unasked
    <3>2. ~inGit
      BY <2>1 DEF Promised
    <3> QED BY <2>1, <3>1, <3>2 DEF TypeOK, FinishRemove, FinishCheck, FinishWaiting, FinishAddons, FinishMarks,
               FinishDelete, FinishRelease, FinishDrop, FinishSettle, FinGoto, FirstStep, BackInGit
  <2>5. \A q \in Keeper : q \in PR
    BY TheKeeper
  <2> QED BY <1>0, <1>1, <1>2, <2>1, <2>2, <2>3, <2>4, <2>5 DEF Promised, NoneDeletes
<1> QED BY <1>6, <1>7, <1>8, <1>9

LEMMA PassPromises ==
    ASSUME PromiseInv, setting' = setting, Reconciler
    PROVE  StaysOut' /\ NonePending' /\ OpenMarked' /\ SettlesUntracked' /\ Promised'
<1> USE DEF PromiseInv, KeepInv, IInv, repo, live, pass, requests, promise
<1>0. KeepPR \subseteq PR /\ Keeper' = Keeper /\ Keeper \subseteq PR /\ NoMark \notin PR
  BY Numbers, TheKeeper DEF Keeper
<1>1. UNCHANGED <<repo, requests, fin, promise>>
  BY DEF Reconciler, MarksTrack, MarksSettle, MarksWrite, MarksNone, ReadGit, ListSecrets, Orphan, Owns, Handback,
     OpenPRs, Recheck, Sweep, Create, Clear
<1>2. PassWrites
  BY PassWritesOnly
<1>3. \/ tracked' = tracked
      \/ /\ MarkedUntracked /\ secret' = secret /\ tick = "idle" /\ tick' = "git"
         /\ tracked' = [tracked EXCEPT ![secret.keep] = [status |-> git[secret.keep], gaveUp |-> FALSE]]
  BY DEF Reconciler, MarksTrack, MarksSettle, MarksWrite, MarksNone, ReadGit, ListSecrets, Orphan, Owns, Handback,
     OpenPRs, Recheck, Sweep, Create, Clear, TickGoto
<1>4. \A q \in PR : tracked'[q] # tracked[q] =>
          Mark /\ secret' = secret /\ tick' = "git" /\ tracked'[q].status = git[q]
  BY <1>0, <1>3 DEF TypeOK, MarkedUntracked, Mark
<1>5. tick' \in {"takeOff", "giveBack"} =>
          /\ MarksSettle /\ MarkedOld /\ secret' = secret
          /\ \A q \in KeepPR : tracked'[q] = NoEntry
          /\ tick' = "takeOff" => inGit
  BY DEF Reconciler, MarksTrack, MarksSettle, MarksWrite, MarksNone, ReadGit, ListSecrets, Orphan, Owns, Handback,
     OpenPRs, Recheck, Sweep, Create, Clear, TickGoto, Over
\* What the pass writes, where the connection stays.
<1>6. ASSUME Exists, NEW j \in {NoMark} \cup Unnumbered \cup PR
      PROVE  /\ LET s == [secret EXCEPT !.keep = j] IN
                 s # NoSecret /\ s.keep = j /\ s.pending = secret.pending /\ s.managed = secret.managed
             /\ LET s == [secret EXCEPT !.pending = "none"] IN
                 s # NoSecret /\ s.keep = secret.keep /\ s.pending = "none" /\ s.managed = secret.managed
  <2>1. secret \in Secret
    BY <1>6 DEF TypeOK, Exists
  <2>2. [secret EXCEPT !.keep = j] \in Secret /\ [secret EXCEPT !.pending = "none"] \in Secret
    BY <2>1 DEF Secret
  <2> QED BY <2>1, <2>2, SecretParts DEF Secret
<1>7. NonePending'
  <2> SUFFICES ASSUME Exists' PROVE secret'.pending = "none"
    BY DEF NonePending
  <2>1. CASE secret' = secret
    BY <2>1 DEF NonePending, Exists
  <2>2. CASE secret' = NewSecret(TRUE, "none")
    BY <2>2 DEF NewSecret
  <2>3. CASE \E own : secret' = Released(own)
    <3>1. PICK own : secret' = Released(own)
      BY <2>3
    <3>2. Exists
      BY <3>1, ReleasedParts DEF Exists
    <3>3. secret \in Secret /\ secret.pending = "none"
      BY <3>2 DEF NonePending, TypeOK, Exists
    <3> QED BY <3>1, <3>2, <3>3 DEF Released, Secret
  <2>4. CASE Exists /\ secret' = [secret EXCEPT !.pending = "none"]
    <3>1. secret \in Secret
      BY <2>4 DEF TypeOK, Exists
    <3> QED BY <2>4, <3>1 DEF Secret
  <2>5. CASE Exists /\ \E j \in {NoMark} \cup PR : secret' = [secret EXCEPT !.keep = j]
    <3>1. PICK j \in {NoMark} \cup PR : secret' = [secret EXCEPT !.keep = j]
      BY <2>5
    <3>2. secret \in Secret /\ secret.pending = "none"
      BY <2>5 DEF NonePending, TypeOK, Exists
    <3> QED BY <3>1, <3>2 DEF Secret
  <2>6. secret' # NoSecret
    BY DEF Exists
  <2>7. Settling = {"setNumber", "takeOff", "giveBack"} /\ KeepPR \subseteq PR
    BY <1>0 DEF Settling
  <2> QED BY <1>2, <2>1, <2>2, <2>3, <2>4, <2>5, <2>6, <2>7 DEF PassWrites
<1>8. StaysOut'
  BY <1>1 DEF StaysOut, Unasked
<1>9. OpenMarked'
  <2> SUFFICES ASSUME NEW p \in KeepPR, firm, git[p] = "open", tracked'[p] # NoEntry PROVE Mark'
    BY <1>1 DEF OpenMarked
  <2>1. Mark
    BY <1>0, <1>4 DEF OpenMarked
  <2>2. NoneDeletes /\ secret \in Secret /\ Exists
    BY <2>1 DEF Spared, TypeOK, Mark, Exists
  <2>3. tick \notin {"takeOff", "giveBack"}
    <3>1. tick \in {"takeOff", "giveBack"} => tracked[p] = NoEntry
      BY DEF SettlesUntracked
    <3>2. tracked' # tracked => tick = "idle"
      BY <1>3
    <3> QED BY <3>1, <3>2
  <2>4. ~(tick = "handback")
    <3>1. tick = "handback" => back \in KeepPR /\ git[back] # "open" /\ git[back] # "none"
      BY <1>0 DEF BackSettled, BackStands
    <3>2. tick = "handback" => back \in Keeper /\ p \in Keeper
      BY <3>1, TheKeeper
    <3> QED BY <3>1, <3>2, TheKeeper
  <2>5. tick # "sweep"
    BY <2>2 DEF NoneDeletes, Past
  <2>6. CASE secret' = secret
    BY <2>1, <2>6 DEF Mark, Exists
  <2>7. CASE secret' = [secret EXCEPT !.pending = "none"]
    BY <1>6, <2>1, <2>2, <2>7 DEF Mark, Exists
  <2>8. CASE back \in KeepPR /\ secret' = [secret EXCEPT !.keep = back]
    BY <1>0, <1>6, <2>2, <2>8 DEF Mark, Exists
  <2> QED BY <1>2, <2>2, <2>3, <2>4, <2>5, <2>6, <2>7, <2>8 DEF PassWrites
<1>10. SettlesUntracked'
  <2>1. OldPending \notin PR
    BY ConnectionConstants
  <2> QED BY <1>5, <2>1 DEF SettlesUntracked, MarkedOld
<1>11. Promised'
  <2> SUFFICES ASSUME kept = "known", Unasked PROVE Promised'
    BY <1>1 DEF Promised, Unasked
  <2>1. Promised /\ Exists /\ secret \in Secret /\ ~inGit /\ NoneDeletes /\ tick # "takeOff" /\ (Managed => Mark)
    BY DEF Promised, TypeOK, Exists
  <2>2. Exists' /\ (Managed' => Mark')
    <3>1. CASE \E own : secret' = Released(own)
      BY <2>1, <3>1, ReleasedParts DEF Exists, Managed
    <3>2. CASE secret' = secret
      BY <2>1, <3>2 DEF Exists, Managed, Mark
    <3>3. CASE secret' = [secret EXCEPT !.pending = "none"]
      BY <1>0, <1>6, <2>1, <3>3 DEF Exists, Managed, Mark
    <3>4. CASE back \in KeepPR /\ secret' = [secret EXCEPT !.keep = back]
      BY <1>0, <1>6, <2>1, <3>4 DEF Exists, Mark
    <3> QED BY <1>2, <2>1, <3>1, <3>2, <3>3, <3>4 DEF PassWrites, NoneDeletes, Past
  <2>3. tick' # "takeOff"
    BY <1>5, <2>1
  <2>4. NoneDeletes'
    <3>1. tick' = "orphan" => seen' = secret /\ Managed /\ secret' = secret
      BY DEF Reconciler, MarksTrack, MarksSettle, MarksWrite, MarksNone, ReadGit, ListSecrets, Orphan, Owns,
         Handback, OpenPRs, Recheck, Sweep, Create, Clear, TickGoto, Over
    <3>2. tick' \notin Past
      BY <2>1 DEF Reconciler, MarksTrack, MarksSettle, MarksWrite, MarksNone, ReadGit, ListSecrets, Orphan, Owns,
         Handback, OpenPRs, Recheck, Sweep, Create, Clear, TickGoto, Over, NoneDeletes, Past, WaitedFor
    <3> QED BY <1>1, <2>1, <3>1, <3>2 DEF NoneDeletes, Mark
  <2>5. \A q \in Keeper : tracked'[q] # NoEntry => tracked'[q].status # "closed"
    BY <1>0, <1>4, <2>1 DEF Promised
  <2> QED BY <1>0, <1>1, <2>1, <2>2, <2>3, <2>4, <2>5 DEF Promised
<1> QED BY <1>7, <1>8, <1>9, <1>10, <1>11

LEMMA OthersPromises ==
    ASSUME PromiseInv, setting' = setting,
           GraceEnds \/ MarkAges \/ Restart \/ \E p \in PR : Tracker(p) \/ PersonCloses(p) \/ PersonMerges(p)
    PROVE  StaysOut' /\ NonePending' /\ OpenMarked' /\ SettlesUntracked' /\ Promised'
<1> USE DEF PromiseInv, KeepInv, IInv, repo, live, pass, requests, promise
<1>0. /\ RegPR \subseteq PR /\ KeepPR \subseteq PR /\ Keeper' = Keeper /\ Keeper \subseteq PR /\ Keeper \subseteq KeepPR
      /\ Removal \subseteq PR /\ RegPR \cap KeepPR = {}
  BY Numbers, TheKeeper DEF Keeper
<1>1. ~GraceEnds
  BY DEF GraceEnds, NonePending
<1>2. CASE MarkAges
  <2>1. UNCHANGED <<repo, tracked, requests, fin, pass, promise>> /\ Exists
        /\ secret' = [secret EXCEPT !.keep = OldPending]
    BY <1>2 DEF MarkAges
  <2>2. secret \in Secret
    BY <2>1 DEF TypeOK, Exists
  <2>3. secret' \in Secret /\ secret'.keep = OldPending /\ secret'.pending = secret.pending
    BY <2>1, <2>2 DEF Secret, Unnumbered
  <2>4. Mark' /\ OldPending \notin PR
    BY <2>3, SecretParts, ConnectionConstants DEF Mark, Exists
  <2>5. StaysOut' /\ NonePending' /\ OpenMarked' /\ SettlesUntracked'
    BY <2>1, <2>3, <2>4 DEF StaysOut, NonePending, OpenMarked, SettlesUntracked, Unasked
  <2>6. Promised'
    BY <1>0, <2>1, <2>4 DEF Promised, NoneDeletes, Unasked, Mark
  <2> QED BY <2>5, <2>6
<1>3. CASE Restart
  <2>1. UNCHANGED <<repo, live, tracked, promise>> /\ tick' = "idle" /\ \A f \in Finisher : fin'[f] = "idle"
    BY <1>3 DEF Restart, Over, TickGoto
  <2> QED BY <1>0, <2>1 DEF StaysOut, NonePending, OpenMarked, SettlesUntracked, Promised, NoneDeletes, Unasked, Mark,
             Managed, Exists, Past
<1>4. ASSUME NEW p \in PR, TrackerSees(p) \/ GaveUpEnds(p)
      PROVE  StaysOut' /\ NonePending' /\ OpenMarked' /\ SettlesUntracked' /\ Promised'
  <2>1. UNCHANGED <<repo, live, requests, fin, pass, promise>>
    BY <1>4 DEF TrackerSees, GaveUpEnds
  <2>2. \A q \in PR : tracked'[q] # NoEntry =>
            /\ tracked[q] # NoEntry
            /\ tracked'[q] = tracked[q] \/ tracked'[q].status = git[q]
    BY <1>4 DEF TrackerSees, GaveUpEnds, HasStatus, TypeOK
  <2>3. StaysOut' /\ NonePending' /\ OpenMarked' /\ SettlesUntracked'
    BY <1>0, <2>1, <2>2 DEF StaysOut, NonePending, OpenMarked, SettlesUntracked, Unasked, Mark, Exists
  <2>4. Promised'
    BY <1>0, <2>1, <2>2 DEF Promised, NoneDeletes, Unasked, Mark, Managed, Exists
  <2> QED BY <2>3, <2>4
<1>5. ASSUME NEW p \in PR, FinishStart(p)
      PROVE  StaysOut' /\ NonePending' /\ OpenMarked' /\ SettlesUntracked' /\ Promised'
  <2>1. UNCHANGED <<repo, live, tracked, requests, pass, promise>>
    BY <1>5 DEF FinishStart
  <2>2. \A f \in Finisher :
            \/ fin'[f] = fin[f]
            \/ f[1] = p /\ fin'[f] \in {"drop", "check"} /\ (fin'[f] = "drop" => tracked[p].status = "closed")
    BY <1>5 DEF FinishStart, FinGoto, TypeOK, Finisher
  <2>3. p \in KeepPR => p \in Keeper
    BY <1>5, TheKeeper DEF FinishStart, EntriesStand
  <2>4. StaysOut' /\ NonePending' /\ OpenMarked' /\ SettlesUntracked'
    BY <2>1 DEF StaysOut, NonePending, OpenMarked, SettlesUntracked, Unasked, Mark, Exists
  <2>5. Promised'
    <3> SUFFICES ASSUME kept = "known", Unasked PROVE Promised'
      BY <2>1 DEF Promised, Unasked
    <3>1. p \in KeepPR => tracked[p].status # "closed"
      BY <1>5, <2>3 DEF FinishStart, Promised
    <3>2. \A f \in Finisher : (f[1] \in KeepPR => fin'[f] # "drop") /\ fin'[f] # "delete"
      BY <2>2, <3>1 DEF Promised, NoneDeletes
    <3> QED BY <1>0, <2>1, <3>2 DEF Promised, NoneDeletes, Mark, Managed, Exists
  <2> QED BY <2>4, <2>5
<1>6. ASSUME NEW p \in PR, PersonCloses(p)
      PROVE  StaysOut' /\ NonePending' /\ OpenMarked' /\ SettlesUntracked' /\ Promised'
  <2>1. UNCHANGED <<inGit, live, tracked, requests, fin, pass, promise>> /\ diff' = diff \ {p}
    BY <1>6 DEF PersonCloses
  <2>2. \A q \in PR : /\ git'[q] = "open" => git[q] = "open" /\ q # p
                      /\ git'[q] = "none" <=> git[q] = "none"
                      /\ git[q] \in {"merged", "gone"} => git'[q] \in {"merged", "gone"}
    BY <1>6 DEF PersonCloses, TypeOK
  <2>3. StaysOut' /\ NonePending' /\ OpenMarked' /\ SettlesUntracked'
    BY <1>0, <2>1, <2>2 DEF StaysOut, NonePending, OpenMarked, SettlesUntracked, Unasked, Mark, Exists
  <2>4. Promised'
    BY <1>0, <2>1, <2>2 DEF Promised, NoneDeletes, Unasked, Mark, Managed, Exists
  <2> QED BY <2>3, <2>4
<1>7. ASSUME NEW p \in PR, PersonMerges(p)
      PROVE  StaysOut' /\ NonePending' /\ OpenMarked' /\ SettlesUntracked' /\ Promised'
  BY <1>7, MergePromises DEF PersonMerges
<1> QED BY <1>1, <1>2, <1>3, <1>4, <1>5, <1>6, <1>7 DEF Tracker

LEMMA NextPromise ==
    ASSUME PromiseInv, [Next]_vars PROVE PromiseInv'
<1>1. CASE UNCHANGED vars
  <2>1. UNCHANGED <<repo, live, tracked, requests, fin, pass, promise, bounds>>
    BY <1>1 DEF vars
  <2>2. KeepInv'
    BY <1>1, NextKeep DEF PromiseInv
  <2> QED BY <2>1, <2>2 DEF PromiseInv, NoneWrites, OneKeeper, StaysOut, NonePending, OpenMarked, SettlesUntracked,
             Promised, NoneDeletes, Unasked, Keeper, Mark, Managed, Exists, repo, live, requests, pass, promise, bounds
<1>2. CASE Next
  <2>1. KeepInv' /\ setting' = setting /\ ~Hand
    BY <1>2, NextKeep, SameSetting DEF PromiseInv, KeepInv, OneKeeper
  <2>2. NoneWrites(setting)'
    BY <2>1 DEF PromiseInv, NoneWrites, OneKeeper
  <2>3. StaysOut' /\ NonePending' /\ OpenMarked' /\ SettlesUntracked' /\ Promised'
    BY <1>2, <2>1, RegisterPromises, RemovePromises, FinishPromises, PassPromises, OthersPromises DEF Next
  <2> QED BY <2>1, <2>2, <2>3 DEF PromiseInv
<1> QED BY <1>1, <1>2

\* A connection that a removal promised to keep is never deleted by Sharko, once
\* its pull request merged while the tracker had it or the mark its number: by
\* no number of removals with cleanup=all under way, sweeps, failed finish steps,
\* lost entries and restarts; unless a second removal that keeps it is requested,
\* a registration writes the connection itself, or people work by hand
\* (NoneWrites).
THEOREM KeptSurvives ==
    ASSUME \A s \in Settings : NoneWrites(s)
    PROVE  Spec => []KeptConnectionSurvives
<1>1. PromiseInv => KeptConnectionSurvives
  BY DEF PromiseInv, Promised, Unasked, KeptConnectionSurvives
<1>2. Init => PromiseInv
  BY InitPromise
<1>3. PromiseInv /\ [Next]_vars => PromiseInv'
  BY NextPromise
<1> QED BY <1>1, <1>2, <1>3, PTL DEF Spec

-----------------------------------------------------------------------------
(* The connection of a registration                                        *)

\* If anything is registered, then by itself: no removal is requested, and the
\* cluster is registered at the start or only one registration is requested.
\* (A second one with the same content writes no mark, and a sweep that has
\* looked for open pull requests deletes what it registers.) People may merge
\* at any time, and do what they like by hand.
OneRegistration(s) ==
    \/ s.used \cap RegPR = {}
    \/ s.used \cap Removal = {} /\ (s.registered \/ \A p, q \in s.used : p = q)

Inline == ~Backend /\ hands = 0
Asking == {"find", "open", "merge"}
Late(s) == s # NoSecret /\ s.pending = "late"

\* What is registered at the start stays in Git, and no pass finds it missing.
StaysIn == inGit /\ Managed /\ tick \notin Cuts /\ (tick = "list" => seenGit)

\* The one registration wrote the connection before it opened anything. A pass
\* that takes it for an orphan has seen its waiting mark, and one that has seen
\* the mark too late sees the request over: an open pull request stops it, and
\* none is merged any more when it sees none.
ComesIn ==
    /\ Managed \/ inGit \/ seen # NoSecret \/ (Exists /\ secret.pending # "none") =>
          \E r \in setting.used : req[r] # "idle"
    /\ \A r \in RegPR : req[r] \in Asking => r \in put
    /\ Late(secret) \/ Late(seen) => \A r \in setting.used : req[r] = "done"
    /\ Managed /\ secret.pending = "none" => inGit /\ (tick = "list" => seenGit)
    /\ seenGit => inGit
    /\ tick = "clear" => seenGit
    /\ tick \in Past \cup {"orphan"} => seen # NoSecret /\ seen.pending # "none"
    /\ tick \in Past => Late(seen)
    /\ tick \in {"recheck", "sweep"} => \A r \in RegPR : git[r] # "open"
    /\ tick = "sweep" => ~inGit
    /\ \A r \in RegPR : git[r] = "open" \/ req[r] \in Asking => Exists
    /\ inGit => Exists

Registers ==
    /\ \A f \in Finisher : fin[f] = "idle"
    /\ \A r \in RegPR : req[r] # "unmark"
    /\ Inline => IF setting.registered THEN StaysIn ELSE ComesIn

ComeInv ==
    /\ IInv /\ OneRegistration(setting) /\ UsedOnly
    /\ setting.used \cap Removal = {} => Registers

LEMMA InitCome ==
    ASSUME Init, \A s \in Settings : OneRegistration(s) PROVE ComeInv
<1>1. IInv /\ OneRegistration(setting) /\ UsedOnly
  BY InitIInv DEF Init, UsedOnly
<1>2. (\A f \in Finisher : fin[f] = "idle") /\ \A r \in RegPR : req[r] # "unmark"
  BY Numbers DEF Init
<1>3. CASE setting.registered
  <2>0. inGit
    BY <1>3 DEF Init
  <2>1. secret = NewSecret(TRUE, "none") /\ tick = "idle"
    BY <2>0 DEF Init
  <2>2. Managed
    BY <2>1, NewSecretParts, SecretParts DEF Managed, Exists
  <2>3. StaysIn
    BY <2>0, <2>1, <2>2 DEF StaysIn, Cuts
  <2> QED BY <1>1, <1>2, <1>3, <2>3 DEF ComeInv, Registers
<1>4. CASE ~setting.registered
  <2>1. ~inGit /\ (secret = NoSecret \/ secret = NewSecret(FALSE, "none")) /\ seen = NoSecret /\ tick = "idle" /\ ~seenGit
    BY <1>4 DEF Init
  <2>2. ~Managed /\ (Exists => secret.pending = "none")
    BY <2>1, NewSecretParts DEF Managed, Exists
  <2>3. \A r \in RegPR : req[r] = "idle" /\ git[r] = "none"
    BY Numbers DEF Init
  <2>4. ComesIn
    BY <2>1, <2>2, <2>3 DEF ComesIn, Asking, Late, Past, Exists
  <2> QED BY <1>1, <1>2, <1>4, <2>4 DEF ComeInv, Registers
<1> QED BY <1>3, <1>4

LEMMA UsedStays ==
    ASSUME IInv, UsedOnly, Next PROVE UsedOnly'
<1> USE DEF IInv, repo, requests, TypeOK
<1>0. setting' = setting
  BY SettingStays
<1>1. ASSUME NEW p \in PR, RegisterCluster(p) \/ RemoveCluster(p) PROVE UsedOnly'
  <2>1. \A q \in PR : q # p => req'[q] = req[q] /\ git'[q] = git[q]
    BY <1>1 DEF RegisterCluster, RegWrite, RegFind, RegOpen, RegMerge, RemoveCluster, RemPlan, RemMark, RemSetMark,
       RemOpen, RemTrack, RemMerge, RemNumber, RemUnmark, ReqGoto, ReqPut, Opens, Merge
  <2>2. p \in setting.used
    BY <1>1 DEF RegisterCluster, RegWrite, RegFind, RegOpen, RegMerge, RemoveCluster, RemPlan, RemMark, RemSetMark,
       RemOpen, RemTrack, RemMerge, RemNumber, RemUnmark, Requested, UsedOnly
  <2> QED BY <1>0, <2>1, <2>2 DEF UsedOnly
<1>2. ASSUME NEW p \in PR, PersonMerges(p) \/ PersonCloses(p) PROVE UsedOnly'
  <2>1. req' = req /\ \A q \in PR : git'[q] # "none" => git[q] # "none"
    BY <1>2 DEF PersonMerges, PersonCloses, Merge
  <2> QED BY <1>0, <2>1 DEF UsedOnly
<1>3. ASSUME \/ \E p \in PR : Tracker(p)
             \/ \E f \in Finisher : FinishRemove(f)
             \/ Reconciler \/ Hand \/ GraceEnds \/ MarkAges
      PROVE  UsedOnly'
  <2>1. req' = req /\ git' = git
    BY <1>3 DEF Tracker, TrackerSees, FinishStart, GaveUpEnds, FinishRemove, FinishCheck, FinishWaiting, FinishAddons,
       FinishMarks, FinishDelete, FinishRelease, FinishDrop, FinishSettle, Reconciler, MarksTrack, MarksSettle,
       MarksWrite, MarksNone, ReadGit, ListSecrets, Orphan, Owns, Handback, OpenPRs, Recheck, Sweep, Create, Clear,
       Hand, GraceEnds, MarkAges
  <2> QED BY <1>0, <2>1 DEF UsedOnly
<1>4. CASE Restart
  <2>1. git' = git /\ \A q \in PR : req'[q] # "idle" => req[q] # "idle"
    BY <1>4 DEF Restart
  <2> QED BY <1>0, <2>1 DEF UsedOnly
<1> QED BY <1>1, <1>2, <1>3, <1>4 DEF Next

\* Where no removal is requested, none is under way.
LEMMA Unremoved ==
    ASSUME ComeInv, setting.used \cap Removal = {}
    PROVE  /\ \A p \in PR : ~RemoveCluster(p) /\ ~FinishStart(p) /\ (git[p] # "none" => p \in RegPR)
           /\ \A f \in Finisher : fin[f] = "idle" /\ ~FinishRemove(f)
           /\ Registers
<1> USE DEF ComeInv, IInv
<1>1. \A p \in Removal : req[p] = "idle" /\ git[p] = "none" /\ tracked[p] = NoEntry
  BY Numbers DEF UsedOnly, EntriesStand
<1>2. \A p \in PR : git[p] # "none" => p \in RegPR
  BY <1>1, Numbers DEF PR
<1>3. \A p \in PR : ~FinishStart(p)
  BY <1>1 DEF FinishStart
<1>4. \A f \in Finisher : fin[f] = "idle" /\ ~FinishRemove(f)
  BY DEF Registers, FinishRemove, FinishCheck, FinishWaiting, FinishAddons, FinishMarks, FinishDelete, FinishRelease,
     FinishDrop, FinishSettle
<1>5. ASSUME NEW p \in PR, RemoveCluster(p) PROVE FALSE
  <2>1. p \in Removal
    BY <1>5, Numbers DEF RemoveCluster, RemPlan, RemMark, RemSetMark, RemOpen, RemTrack, RemMerge, RemNumber, RemUnmark,
       RequestsStand, PR, Registers
  <2>2. req[p] = "idle" /\ p \notin setting.used
    BY <1>1, <2>1
  <2> QED BY <1>5, <2>2 DEF RemoveCluster, RemPlan, RemMark, RemSetMark, RemOpen, RemTrack, RemMerge, RemNumber,
             RemUnmark, Requested
<1> QED BY <1>2, <1>3, <1>4, <1>5 DEF Registers

LEMMA QuietStays ==
    ASSUME ComeInv, setting.used \cap Removal = {}, Next
    PROVE  (\A f \in Finisher : fin'[f] = "idle") /\ \A r \in RegPR : req'[r] # "unmark"
<1>1. fin' = fin \/ Restart
  BY Unremoved DEF Next, RegisterCluster, RegWrite, RegFind, RegOpen, RegMerge, Tracker, TrackerSees, GaveUpEnds,
     PersonMerges, PersonCloses, Reconciler, MarksTrack, MarksSettle, MarksWrite, MarksNone, ReadGit, ListSecrets,
     Orphan, Owns, Handback, OpenPRs, Recheck, Sweep, Create, Clear, Hand, GraceEnds, MarkAges
<1>2. ASSUME NEW r \in RegPR PROVE req'[r] # "unmark"
  <2>1. req[r] # "unmark" /\ req[r] \in ReqSteps /\ r \in PR
    BY Unremoved, Numbers DEF Registers, ComeInv, IInv, TypeOK
  <2>2. \/ req' = req \/ Restart
        \/ \E p \in PR, step \in {"find", "open", "merge", "done"} : req' = [req EXCEPT ![p] = step]
    BY Unremoved DEF Next, RegisterCluster, RegWrite, RegFind, RegOpen, RegMerge, ReqGoto, ReqPut, Tracker, TrackerSees,
       GaveUpEnds, PersonMerges, PersonCloses, Reconciler, MarksTrack, MarksSettle, MarksWrite, MarksNone, ReadGit,
       ListSecrets, Orphan, Owns, Handback, OpenPRs, Recheck, Sweep, Create, Clear, Hand, GraceEnds, MarkAges, requests
  <2> QED BY <2>1, <2>2 DEF Restart, ComeInv, IInv, TypeOK
<1> QED BY <1>1, <1>2, Unremoved DEF Restart

LEMMA InStays ==
    ASSUME ComeInv, setting.used \cap Removal = {}, setting.registered, Inline, Next, hands' = hands, ~Hand
    PROVE  StaysIn'
<1> USE DEF ComeInv, IInv, repo, live, pass, requests
<1>0. StaysIn /\ Exists /\ secret \in Secret /\ secret.managed
  BY Unremoved DEF Registers, StaysIn, Managed, TypeOK, Exists
<1>1. ASSUME NEW p \in PR, RegisterCluster(p) PROVE StaysIn'
  <2>1. tick' = tick /\ seenGit' = seenGit
    BY <1>1 DEF RegisterCluster, RegWrite, RegFind, RegOpen, RegMerge
  <2>2. inGit'
    BY <1>0, <1>1 DEF StaysIn, RegisterCluster, RegWrite, RegFind, RegOpen, RegMerge, Merge
  <2>3. secret' = secret \/ \E same \in BOOLEAN : secret' = Ensured(same)
    BY <1>1 DEF RegisterCluster, RegWrite, RegFind, RegOpen, RegMerge
  <2>4. Managed'
    BY <1>0, <2>3, EnsuredParts DEF Managed, Exists
  <2> QED BY <1>0, <2>1, <2>2, <2>4 DEF StaysIn
<1>2. ASSUME NEW p \in PR, PersonMerges(p) \/ PersonCloses(p) PROVE StaysIn'
  <2>1. UNCHANGED <<live, pass>>
    BY <1>2 DEF PersonMerges, PersonCloses
  <2>2. inGit'
    BY <1>0, <1>2, Unremoved DEF StaysIn, PersonMerges, PersonCloses, Merge
  <2> QED BY <1>0, <2>1, <2>2 DEF StaysIn, Managed, Exists
<1>3. ASSUME NEW p \in PR, TrackerSees(p) \/ GaveUpEnds(p) PROVE StaysIn'
  BY <1>0, <1>3 DEF TrackerSees, GaveUpEnds, StaysIn, Managed, Exists
<1>4. CASE Reconciler
  <2>1. inGit' = inGit
    BY <1>4 DEF Reconciler, MarksTrack, MarksSettle, MarksWrite, MarksNone, ReadGit, ListSecrets, Orphan, Owns,
       Handback, OpenPRs, Recheck, Sweep, Create, Clear
  <2>2. tick' \notin Cuts /\ (tick' = "list" => seenGit')
    BY <1>0, <1>4 DEF StaysIn, Cuts, Reconciler, MarksTrack, MarksSettle, MarksWrite, MarksNone, ReadGit, ListSecrets,
       Orphan, Owns, Handback, OpenPRs, Recheck, Sweep, Create, Clear, TickGoto, Over, Sees
  <2>3. Managed'
    <3>1. PassWrites /\ tick \notin Cuts
      BY <1>0, <1>4, PassWritesOnly DEF StaysIn
    <3>2. \/ secret' = secret
          \/ secret' = [secret EXCEPT !.pending = "none"]
          \/ \E j \in {NoMark} \cup PR : secret' = [secret EXCEPT !.keep = j]
      BY <1>0, <3>1, Numbers DEF PassWrites, Cuts
    <3>3. secret' \in Secret /\ secret'.managed
      BY <1>0, <3>2 DEF Secret
    <3> QED BY <3>3, SecretParts DEF Managed, Exists
  <2> QED BY <1>0, <2>1, <2>2, <2>3 DEF StaysIn
<1>5. CASE GraceEnds \/ MarkAges
  <2>1. /\ UNCHANGED <<repo, pass>>
        /\ secret' = [secret EXCEPT !.pending = "late"] \/ secret' = [secret EXCEPT !.keep = OldPending]
    BY <1>5 DEF GraceEnds, MarkAges
  <2>2. secret' \in Secret /\ secret'.managed
    BY <1>0, <2>1 DEF Secret, Unnumbered
  <2> QED BY <1>0, <2>1, <2>2, SecretParts DEF StaysIn, Managed, Exists
<1>6. CASE Restart
  BY <1>0, <1>6 DEF Restart, Over, TickGoto, StaysIn, Managed, Exists, Cuts
<1> QED BY <1>1, <1>2, <1>3, <1>4, <1>5, <1>6, Unremoved DEF Next, Tracker

\* The one registration.
LEMMA TheRegistration ==
    ASSUME ComeInv, setting.used \cap Removal = {}, ~setting.registered
    PROVE  /\ setting.used \subseteq RegPR /\ setting.used \subseteq PR /\ RegPR \subseteq PR
           /\ \A p, q \in setting.used : p = q
           /\ \A r \in RegPR : req[r] # "idle" \/ git[r] # "none" => r \in setting.used
           /\ \A r \in RegPR : req[r] \in Asking \cup {"idle", "done"}
<1> USE DEF ComeInv, IInv
<1>1. setting.used \subseteq PR
  BY ConnectionConstants DEF TypeOK, Setting
<1>2. setting.used \subseteq RegPR /\ RegPR \subseteq PR
  BY <1>1, Numbers DEF PR
<1>3. \A p, q \in setting.used : p = q
  BY <1>2 DEF OneRegistration
<1>4. \A r \in RegPR : req[r] # "idle" \/ git[r] # "none" => r \in setting.used
  BY <1>2 DEF UsedOnly
<1>5. ASSUME NEW r \in RegPR PROVE req[r] \in Asking \cup {"idle", "done"}
  <2>1. r \in PR /\ r \notin Removal /\ r \notin KeepPR /\ req[r] \in ReqSteps
    BY Numbers DEF TypeOK
  <2>2. req[r] # "unmark"
    BY Unremoved DEF Registers
  <2> QED BY <2>1, <2>2 DEF RequestsStand, ReqSteps, Asking
<1> QED BY <1>1, <1>2, <1>3, <1>4, <1>5

LEMMA RegisterComes ==
    ASSUME ComeInv, setting.used \cap Removal = {}, ~setting.registered, Inline, ComesIn, setting' = setting,
           NEW p \in PR, RegisterCluster(p)
    PROVE  ComesIn'
<1> USE DEF ComeInv, IInv, repo, live, pass, requests, TypeOK
<1>0. /\ p \in RegPR /\ p \in setting.used /\ \A r \in RegPR : r # p => req[r] = "idle" /\ git[r] = "none"
      /\ \A r \in setting.used : r = p
  <2>1. p \in RegPR
    BY DEF RegisterCluster, RegWrite, RegFind, RegOpen, RegMerge
  <2>2. p \in setting.used
    BY <2>1, TheRegistration DEF RegisterCluster, RegWrite, RegFind, RegOpen, RegMerge, Requested
  <2> QED BY <2>1, <2>2, TheRegistration
<1>1. tick' = tick /\ seenGit' = seenGit /\ seen' = seen
  BY DEF RegisterCluster, RegWrite, RegFind, RegOpen, RegMerge
<1>2. CASE RegWrite(p)
  <2>1. req[p] = "idle" /\ git[p] = "none" /\ \A r \in setting.used : req[r] = "idle"
    BY <1>0, <1>2 DEF RegWrite, Requested, RequestsStand
  <2>2. ~Managed /\ ~inGit /\ seen = NoSecret /\ (Exists => secret.pending = "none")
    BY <2>1 DEF ComesIn
  <2>3. inGit' = inGit /\ git' = git
    BY <1>2 DEF RegWrite
  <2>4. CASE secret' = secret /\ ReqGoto(p, "done")
    <3>1. /\ req'[p] = "done" /\ \A r \in RegPR : r # p => req'[r] = "idle"
          /\ \A r \in setting.used : req'[r] = "done"
      BY <1>0, <2>4, Numbers DEF ReqGoto
    <3>2. ~Managed' /\ (Exists' => secret'.pending = "none")
      BY <2>2, <2>4 DEF Managed, Exists
    <3>3. \A r \in RegPR : req'[r] \notin Asking /\ git'[r] = "none"
      BY <1>0, <2>1, <2>3, <3>1 DEF Asking
    <3> QED BY <1>0, <1>1, <2>2, <2>3, <3>1, <3>2, <3>3 DEF ComesIn, Late, Asking, Exists, Managed
  <2>5. CASE ReqPut(p, "find") /\ \E same \in BOOLEAN : secret' = Ensured(same)
    <3>1. /\ req'[p] = "find" /\ p \in put' /\ \A r \in RegPR : r # p => req'[r] = "idle"
      BY <1>0, <2>5, Numbers DEF ReqPut
    <3>2. Exists' /\ secret' \in Secret
      BY <2>5, EnsuredParts DEF Exists
    <3>3. secret'.pending = "fresh"
      <4>1. CASE ~Exists
        BY <2>5, <4>1 DEF Ensured, NewSecret, Managed
      <4>2. CASE Exists
        <5>1. ~secret.managed /\ secret \in Secret
          BY <2>2, <4>2 DEF Managed, Exists
        <5>2. secret' = Adopted
          BY <2>5, <4>2, <5>1 DEF Ensured, Managed
        <5> QED BY <5>1, <5>2 DEF Adopted, Secret
      <4> QED BY <4>1, <4>2
    <3> QED BY <1>0, <1>1, <2>1, <2>2, <2>3, <3>1, <3>2, <3>3 DEF ComesIn, Late, Asking, Exists, Managed, Past
  <2>6. \A same : ~(Managed /\ same)
    BY <2>2
  <2> QED BY <1>2, <2>4, <2>5, <2>6 DEF RegWrite, Inline
<1>3. CASE RegFind(p) \/ RegOpen(p) \/ RegMerge(p)
  <2>1. req[p] \in Asking /\ p \in put /\ Exists /\ ~Late(secret) /\ ~Late(seen) /\ tick \notin Past
    <3>1. req[p] \in Asking
      BY <1>3 DEF RegFind, RegOpen, RegMerge, Asking
    <3> QED BY <1>0, <3>1 DEF ComesIn, Asking
  <2>2. secret' = secret /\ (inGit => inGit')
    BY <1>0, <1>3 DEF RegFind, RegOpen, RegMerge, Merge
  <2>3. req'[p] \in Asking \cup {"done"} /\ (req'[p] \in Asking => p \in put')
        /\ \A r \in RegPR : r # p => req'[r] = "idle"
    BY <1>0, <1>3, <2>1, Numbers DEF RegFind, RegOpen, RegMerge, ReqGoto, Asking
  <2>4. \A r \in RegPR : req'[r] \in Asking => r \in put'
    BY <2>3 DEF Asking
  <2>5. req'[p] # "idle"
    BY <2>3 DEF Asking
  <2> QED BY <1>0, <1>1, <2>1, <2>2, <2>4, <2>5 DEF ComesIn, Late, Exists, Managed, Past
<1> QED BY <1>2, <1>3 DEF RegisterCluster

LEMMA PassComes ==
    ASSUME ComeInv, setting.used \cap Removal = {}, ~setting.registered, Inline, ComesIn, setting' = setting,
           Reconciler
    PROVE  ComesIn'
<1> USE DEF ComeInv, IInv, repo, live, pass, requests, TypeOK
<1>1. inGit' = inGit /\ git' = git /\ req' = req /\ put' = put
  BY DEF Reconciler, MarksTrack, MarksSettle, MarksWrite, MarksNone, ReadGit, ListSecrets, Orphan, Owns,
     Handback, OpenPRs, Recheck, Sweep, Create, Clear
\* What it makes of the Secret.
<1>2. \/ secret' = secret
      \/ tick = "sweep" /\ secret' = NoSecret
      \/ tick = "clear" /\ tick' = "idle" /\ Exists /\ secret' = [secret EXCEPT !.pending = "none"]
      \/ \E own : secret' = Released(own)
      \/ Exists /\ \E j \in {NoMark} \cup PR : secret' = [secret EXCEPT !.keep = j]
  <2>1. PassWrites /\ ~Backend /\ KeepPR \subseteq PR
    BY PassWritesOnly, Numbers DEF Inline
  <2>2. CASE Clear
    BY <2>2 DEF Clear, Managed, Over, TickGoto
  <2>3. CASE ~Clear
    <3>1. secret' = secret \/ tick \in Settling \cup {"sweep", "handback", "create"}
      BY <2>3 DEF Reconciler, MarksTrack, MarksSettle, MarksWrite, MarksNone, ReadGit, ListSecrets, Orphan, Owns,
         Handback, OpenPRs, Recheck, Sweep, Create, Settling
    <3>2. CASE tick = "create"
      BY <2>1, <3>2 DEF Reconciler, MarksTrack, MarksSettle, MarksWrite, MarksNone, ReadGit, ListSecrets, Orphan, Owns,
         Handback, OpenPRs, Recheck, Sweep, Create, Clear
    <3>3. CASE tick = "sweep"
      BY <3>3 DEF Reconciler, MarksTrack, MarksSettle, MarksWrite, MarksNone, ReadGit, ListSecrets, Orphan, Owns,
         Handback, OpenPRs, Recheck, Sweep, Create, Clear
    <3>4. CASE tick = "handback"
      BY <3>4 DEF Reconciler, MarksTrack, MarksSettle, MarksWrite, MarksNone, ReadGit, ListSecrets, Orphan, Owns,
         Handback, OpenPRs, Recheck, Sweep, Create, Clear
    <3>5. CASE tick \in Settling
      <4>1. MarksWrite
        BY <3>5 DEF Reconciler, MarksTrack, MarksSettle, MarksNone, ReadGit, ListSecrets, Orphan, Owns,
           Handback, OpenPRs, Recheck, Sweep, Create, Clear, Settling
      <4>2. tick = "setNumber" => back \in KeepPR
        BY DEF BackStands
      <4> QED BY <2>1, <3>5, <4>1, <4>2 DEF MarksWrite, Settling
    <3> QED BY <3>1, <3>2, <3>3, <3>4, <3>5
  <2> QED BY <2>2, <2>3
<1>3. /\ Exists' => Exists
      /\ Exists /\ ~Exists' => tick = "sweep"
      /\ Managed' => Managed
      /\ Exists' => secret'.pending = secret.pending \/ (tick = "clear" /\ tick' = "idle" /\ secret'.pending = "none")
  <2>1. CASE secret' = secret
    BY <2>1 DEF Exists, Managed
  <2>2. CASE tick = "sweep" /\ secret' = NoSecret
    BY <2>2 DEF Exists, Managed
  <2>3. CASE tick = "clear" /\ tick' = "idle" /\ Exists /\ secret' = [secret EXCEPT !.pending = "none"]
    <3>1. secret \in Secret
      BY <2>3 DEF Exists
    <3>2. secret' \in Secret /\ secret'.managed = secret.managed /\ secret'.pending = "none"
      BY <2>3, <3>1 DEF Secret
    <3> QED BY <2>3, <3>2, SecretParts DEF Exists, Managed
  <2>4. CASE \E own : secret' = Released(own)
    <3>1. PICK own : secret' = Released(own)
      BY <2>4
    <3>2. Exists' <=> Exists
      BY <3>1, ReleasedParts DEF Exists
    <3>3. CASE ~Exists
      BY <3>2, <3>3 DEF Managed
    <3>4. CASE Exists
      <4>1. secret \in Secret
        BY <3>4 DEF Exists
      <4>2. ~secret'.managed /\ secret'.pending = secret.pending
        BY <3>1, <3>4, <4>1 DEF Released, Secret
      <4> QED BY <3>2, <3>4, <4>2 DEF Managed
    <3> QED BY <3>3, <3>4
  <2>5. CASE Exists /\ \E j \in {NoMark} \cup PR : secret' = [secret EXCEPT !.keep = j]
    <3>1. secret \in Secret
      BY <2>5 DEF Exists
    <3>2. secret' \in Secret /\ secret'.managed = secret.managed /\ secret'.pending = secret.pending
      BY <2>5, <3>1 DEF Secret
    <3> QED BY <2>5, <3>2, SecretParts DEF Exists, Managed
  <2> QED BY <1>2, <2>1, <2>2, <2>3, <2>4, <2>5
\* What it read, and how far it is.
<1>4. /\ seenGit' => seenGit \/ inGit
      /\ tick' = "clear" => seenGit'
      /\ tick' = "list" => (seenGit' <=> inGit)
      /\ seen' = NoSecret \/ seen' = seen \/ (seen' = secret /\ Managed)
  <2>1. seenGit' = FALSE \/ seenGit' = seenGit \/ (tick = "git" /\ tick' = "list" /\ seenGit' = inGit)
    BY DEF Reconciler, MarksTrack, MarksSettle, MarksWrite, MarksNone, ReadGit, ListSecrets, Orphan, Owns,
       Handback, OpenPRs, Recheck, Sweep, Create, Clear, TickGoto, Over, Sees
  <2>2. tick' = "clear" => seenGit /\ seenGit' = seenGit
    BY DEF Reconciler, MarksTrack, MarksSettle, MarksWrite, MarksNone, ReadGit, ListSecrets, Orphan, Owns,
       Handback, OpenPRs, Recheck, Sweep, Create, Clear, TickGoto, Over, Sees
  <2>3. tick' = "list" => tick = "git" /\ seenGit' = inGit
    BY DEF Reconciler, MarksTrack, MarksSettle, MarksWrite, MarksNone, ReadGit, ListSecrets, Orphan, Owns,
       Handback, OpenPRs, Recheck, Sweep, Create, Clear, TickGoto, Over, Sees
  <2>4. seen' = NoSecret \/ seen' = seen \/ (seen' = secret /\ Managed)
    BY DEF Reconciler, MarksTrack, MarksSettle, MarksWrite, MarksNone, ReadGit, ListSecrets, Orphan, Owns,
       Handback, OpenPRs, Recheck, Sweep, Create, Clear, TickGoto, Over, Sees
  <2> QED BY <2>1, <2>2, <2>3, <2>4
<1>5. tick' = "orphan" => tick = "list" /\ ~seenGit /\ Managed /\ seen' = secret /\ secret' = secret
  BY DEF Reconciler, MarksTrack, MarksSettle, MarksWrite, MarksNone, ReadGit, ListSecrets, Orphan, Owns,
     Handback, OpenPRs, Recheck, Sweep, Create, Clear, TickGoto, Over, Sees
<1>6. tick' \in Past =>
          /\ seen' = seen
          /\ \/ tick = "orphan" /\ seen.pending # "fresh" /\ tick' = (IF seen.pending = "late" THEN "openPRs" ELSE "sweep")
             \/ tick = "openPRs" /\ tick' = "recheck" /\ ~OpenRegister
             \/ tick = "recheck" /\ tick' = "sweep" /\ ~inGit
  BY DEF Reconciler, MarksTrack, MarksSettle, MarksWrite, MarksNone, ReadGit, ListSecrets, Orphan, Owns,
     Handback, OpenPRs, Recheck, Sweep, Create, Clear, TickGoto, Over, Sees, Past, InGitNow
<1>7. tick = "sweep" => \A r \in RegPR : git[r] # "open" /\ req[r] \notin Asking
  <2>1. ASSUME tick = "sweep", NEW r \in RegPR PROVE git[r] # "open" /\ req[r] \notin Asking
    <3>1. Late(seen) /\ git[r] # "open"
      BY <2>1 DEF ComesIn, Past
    <3>2. r \in setting.used => req[r] = "done"
      BY <3>1 DEF ComesIn
    <3> QED BY <3>1, <3>2, TheRegistration DEF Asking
  <2> QED BY <2>1
<1>8. seen # NoSecret => seen.pending \in {"none", "fresh", "late"}
  BY DEF Secret
<1>9. tick' \in Past =>
          /\ Late(seen') /\ seen' # NoSecret /\ seen'.pending # "none"
          /\ tick' # "openPRs" => \A r \in RegPR : git[r] # "open"
          /\ tick' = "sweep" => ~inGit
  BY <1>6, <1>8 DEF ComesIn, Past, Late, OpenRegister
<1>10. tick' = "orphan" => seen' # NoSecret /\ seen'.pending # "none"
  BY <1>5 DEF ComesIn, Managed, Exists
<1>11. Late(secret') => Late(secret)
  BY <1>3 DEF Late, Exists
<1>12. Late(seen') => Late(seen) \/ Late(secret)
  BY <1>4 DEF Late
<1>13. Managed' /\ secret'.pending = "none" => inGit /\ (tick' = "list" => seenGit')
  BY <1>3, <1>4 DEF ComesIn, Managed
<1>14. Managed' \/ seen' # NoSecret \/ (Exists' /\ secret'.pending # "none") =>
           Managed \/ seen # NoSecret \/ (Exists /\ secret.pending # "none")
  BY <1>3, <1>4
<1>15. /\ \A r \in RegPR : git[r] = "open" \/ req[r] \in Asking => Exists'
       /\ inGit => Exists'
  BY <1>3, <1>7 DEF ComesIn
<1>16. /\ Managed' \/ inGit' \/ seen' # NoSecret \/ (Exists' /\ secret'.pending # "none") =>
              \E r \in setting.used : req[r] # "idle"
       /\ Late(secret') \/ Late(seen') => \A r \in setting.used : req[r] = "done"
       /\ seenGit' => inGit
  BY <1>1, <1>4, <1>11, <1>12, <1>14 DEF ComesIn
<1> QED BY <1>1, <1>4, <1>9, <1>10, <1>13, <1>15, <1>16 DEF ComesIn, Past, Exists, Managed

LEMMA OthersCome ==
    ASSUME ComeInv, setting.used \cap Removal = {}, ~setting.registered, Inline, ComesIn, setting' = setting,
           GraceEnds \/ MarkAges \/ Restart \/ \E p \in PR : Tracker(p) \/ PersonCloses(p) \/ PersonMerges(p)
    PROVE  ComesIn'
<1> USE DEF ComeInv, IInv, repo, live, pass, requests, TypeOK
<1>1. CASE GraceEnds
  <2>1. UNCHANGED <<repo, requests, pass>> /\ Exists /\ secret' = [secret EXCEPT !.pending = "late"]
        /\ secret.pending = "fresh"
    BY <1>1 DEF GraceEnds
  <2>2. secret' \in Secret /\ secret'.managed = secret.managed /\ secret'.pending = "late" /\ secret' # NoSecret
    <3>1. secret \in Secret
      BY <2>1 DEF Exists
    <3>2. secret' \in Secret /\ secret'.managed = secret.managed /\ secret'.pending = "late"
      BY <2>1, <3>1 DEF Secret
    <3> QED BY <3>2, SecretParts
  <2>3. \E r \in setting.used : req[r] # "idle"
    BY <2>1 DEF ComesIn
  <2>4. \A r \in RegPR : req[r] \notin Asking
    BY <1>1 DEF ComesIn, GraceEnds, Running
  <2>5. \A r \in setting.used : req[r] = "done"
    BY <2>3, <2>4, TheRegistration
  <2> QED BY <2>1, <2>2, <2>3, <2>5 DEF ComesIn, Late, Exists, Managed
<1>2. CASE MarkAges
  <2>1. UNCHANGED <<repo, requests, pass>> /\ Exists /\ secret' = [secret EXCEPT !.keep = OldPending]
    BY <1>2 DEF MarkAges
  <2>2. /\ secret' \in Secret /\ secret'.managed = secret.managed /\ secret'.pending = secret.pending
        /\ secret' # NoSecret
    <3>1. secret \in Secret
      BY <2>1 DEF Exists
    <3>2. secret' \in Secret /\ secret'.managed = secret.managed /\ secret'.pending = secret.pending
      BY <2>1, <3>1 DEF Secret, Unnumbered
    <3> QED BY <3>2, SecretParts
  <2> QED BY <2>1, <2>2 DEF ComesIn, Late, Exists, Managed
<1>3. CASE Restart
  <2>1. UNCHANGED <<repo, live>> /\ tick' = "idle" /\ seen' = NoSecret /\ ~seenGit'
    BY <1>3 DEF Restart, Over, TickGoto
  <2>2. \A r \in PR : /\ req'[r] \notin Asking
                      /\ req[r] # "idle" => req'[r] # "idle"
                      /\ req[r] = "done" => req'[r] = "done"
    BY <1>3 DEF Restart, Asking
  <2> QED BY <2>1, <2>2, TheRegistration DEF ComesIn, Late, Exists, Managed, Past
<1>4. ASSUME NEW p \in PR, Tracker(p) PROVE ComesIn'
  <2>1. UNCHANGED <<repo, live, requests, pass>>
    BY <1>4, Unremoved DEF Tracker, TrackerSees, GaveUpEnds
  <2> QED BY <2>1 DEF ComesIn, Late, Exists, Managed
<1>5. ASSUME NEW p \in PR, PersonCloses(p) PROVE ComesIn'
  <2>1. UNCHANGED <<inGit, live, requests, pass>> /\ \A r \in PR : git'[r] = "open" => git[r] = "open"
    BY <1>5 DEF PersonCloses
  <2> QED BY <2>1, Numbers DEF ComesIn, Late, Exists, Managed
<1>6. ASSUME NEW p \in PR, PersonMerges(p) PROVE ComesIn'
  <2>1. UNCHANGED <<live, requests, pass>> /\ git[p] = "open" /\ \A r \in PR : git'[r] = "open" => git[r] = "open"
    BY <1>6 DEF PersonMerges, Merge
  <2>2. p \in RegPR /\ p \in setting.used /\ req[p] # "idle"
    BY <2>1, Unremoved, TheRegistration DEF RequestsStand
  <2>3. inGit => inGit'
    BY <1>6, <2>2 DEF PersonMerges, Merge
  <2>4. Exists /\ tick \notin {"recheck", "sweep"}
    BY <2>1, <2>2 DEF ComesIn
  <2> QED BY <2>1, <2>2, <2>3, <2>4, Numbers DEF ComesIn, Late, Exists, Managed
<1> QED BY <1>1, <1>2, <1>3, <1>4, <1>5, <1>6

LEMMA NextCome ==
    ASSUME ComeInv, [Next]_vars PROVE ComeInv'
<1>1. CASE UNCHANGED vars
  <2>1. IInv'
    BY <1>1, NextIInv DEF ComeInv
  <2>2. UNCHANGED <<repo, live, tracked, requests, fin, pass, bounds>>
    BY <1>1 DEF vars
  <2>3. OneRegistration(setting)' /\ UsedOnly'
    BY <2>2 DEF ComeInv, OneRegistration, UsedOnly, repo, requests, bounds
  <2>4. setting.used \cap Removal = {} => Registers'
    BY <2>2 DEF ComeInv, Registers, StaysIn, ComesIn, Inline, Late, Exists, Managed, Backend, repo, live, requests, pass,
       bounds
  <2> QED BY <2>1, <2>2, <2>3, <2>4 DEF ComeInv, bounds
<1>2. CASE Next
  <2>1. IInv' /\ UsedOnly' /\ setting' = setting /\ (hands' = hands \/ Hand)
    BY <1>2, NextIInv, UsedStays, SettingStays DEF ComeInv
  <2>2. OneRegistration(setting)'
    BY <2>1 DEF ComeInv, OneRegistration
  <2>3. ASSUME setting.used \cap Removal = {} PROVE Registers'
    <3>1. (\A f \in Finisher : fin'[f] = "idle") /\ \A r \in RegPR : req'[r] # "unmark"
      BY <1>2, <2>3, QuietStays
    <3>2. ASSUME Inline' PROVE hands' = hands /\ ~Hand /\ Inline
      <4>1. ~Hand
        <5>1. setting \in Setting /\ hands \in 0..setting.maxHands
          BY ConnectionConstants DEF ComeInv, IInv, TypeOK
        <5>2. hands \in Nat
          BY <5>1 DEF Setting
        <5> QED BY <3>2, <5>2 DEF Inline, Hand, ByHand
      <4> QED BY <2>1, <3>2, <4>1 DEF Inline, Backend
    <3>3. ASSUME Inline', setting.registered PROVE StaysIn'
      BY <1>2, <2>3, <3>2, <3>3, InStays
    <3>4. ASSUME Inline', ~setting.registered PROVE ComesIn'
      <4>1. ComesIn /\ Inline /\ ~Hand
        BY <2>3, <3>2, <3>4, Unremoved DEF Registers
      <4>2. CASE \E p \in PR : RegisterCluster(p)
        BY <2>1, <2>3, <3>4, <4>1, <4>2, RegisterComes
      <4>3. CASE Reconciler
        BY <2>1, <2>3, <3>4, <4>1, <4>3, PassComes
      <4>4. CASE GraceEnds \/ MarkAges \/ Restart \/ \E p \in PR : Tracker(p) \/ PersonCloses(p) \/ PersonMerges(p)
        BY <2>1, <2>3, <3>4, <4>1, <4>4, OthersCome
      <4> QED BY <1>2, <2>3, <4>1, <4>2, <4>3, <4>4, Unremoved DEF Next
    <3> QED BY <2>1, <3>1, <3>3, <3>4 DEF Registers
  <2> QED BY <2>1, <2>2, <2>3 DEF ComeInv
<1> QED BY <1>1, <1>2

\* A registration with an inline kubeconfig that merged has its connection, as
\* long as people leave Git and the Secret alone and it is the only one that
\* changes the cluster (OneRegistration): however late or early its pull request
\* merges, through any failures and restarts, and though the sweep may take the
\* connection for a leftover in between.
THEOREM RegisteredConnected ==
    ASSUME \A s \in Settings : OneRegistration(s)
    PROVE  Spec => []RegisteredHasConnection
<1>1. ASSUME ComeInv PROVE RegisteredHasConnection
  <2> SUFFICES ASSUME NEW p \in RegPR, git[p] = "merged", inGit, Inline PROVE Exists
    BY DEF RegisteredHasConnection, Inline
  <2>1. p \in setting.used \cap RegPR
    BY <1>1, Numbers DEF ComeInv, UsedOnly
  <2>2. setting.used \cap Removal = {}
    BY <1>1, <2>1 DEF ComeInv, OneRegistration
  <2> QED BY <1>1, <2>2 DEF ComeInv, Registers, StaysIn, ComesIn, Managed
<1>2. Init => ComeInv
  BY InitCome
<1>3. ComeInv /\ [Next]_vars => ComeInv'
  BY NextCome
<1> QED BY <1>1, <1>2, <1>3, PTL DEF Spec
===============================================================================
