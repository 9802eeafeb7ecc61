----------------------- MODULE AdoptedConnection_proofs -----------------------
(***************************************************************************)
(* Theorems of AdoptedConnection, first part: every reachable state fits,  *)
(* which means that the steps of the requests, the runs of finish steps,   *)
(* the tracker's records, the marks and what the marks pass has read agree *)
(* on what their pull request can be. Nothing is assumed of the bounds.    *)
(*                                                                         *)
(* For each action A: AWrites where the Secret is written, AEffect (what A *)
(* does, in the words of the invariant) and AFits (Fits survives it).      *)
(***************************************************************************)
EXTENDS AdoptedConnection, TLAPS

JoinSteps == {"idle", "find", "remark", "open", "mark", "track", "trackOnly", "merge", "swap", "annotate", "done"}
UnadoptSteps == {"idle", "plan", "look", "setMark", "open", "track", "merge", "merged", "number", "unmark", "done"}
BeforeOpen == {"idle", "find", "remark", "open", "plan", "look", "setMark", "unmark"}
Finished(p) == git[p] \in {"merged", "gone"}
TrackerStep(p) == fin[<<p, "tracker">>]
RequestStep(p) == fin[<<p, "request">>]

\* A request is at a step of its own kind, and has a pull request from the step
\* that opened it on.
RequestAt(p) ==
    /\ p \in Join => req[p] \in JoinSteps /\ (req[p] = "remark" => found[p] \in Join)
    /\ p \in UnadoptPR => req[p] \in UnadoptSteps /\ (req[p] = "merged" => Finished(p))
    /\ req[p] \in BeforeOpen => git[p] = "none"
    /\ req[p] \in {"mark", "track", "trackOnly", "merge", "merged", "number"} => git[p] # "none"
    /\ p \in marked => req[p] \in {"open", "track", "merge", "merged", "number", "unmark"}
RequestsFit == \A p \in PR : RequestAt(p)
FoundFit == \A q \in Join : found[q] \in Join => git[found[q]] # "none"

\* A mark names a pull request of its own kind, and so does what the marks pass
\* has read, which it forgets when it starts to write.
MarksFit ==
    /\ Exists => /\ connection.mark["adopt"] \in AdoptPR \cup {NoMark}
                 /\ connection.mark["take"] \in TakePR \cup {NoMark}
                 /\ connection.mark["keep"] \in UnadoptPR \cup Unnumbered \cup {NoMark}
    /\ listed["adopt"] \in AdoptPR \cup {NoMark}
    /\ listed["take"] \in TakePR \cup {NoMark}
    /\ listed["keep"] \in UnadoptPR \cup {OldPending, NoMark}
    /\ tick # "pass" => listed = Nothing
    /\ tick = "setNumber" <=> number \in UnadoptPR

\* What was never opened, nobody has the number of.
UnopenedAt(p) ==
    git[p] = "none" =>
        /\ tracked[p] = NoEntry /\ TrackerStep(p) = "idle"
        /\ Exists => connection.mark[Key(p)] # p
        /\ listed[Key(p)] # p /\ number # p
UnopenedUnknown == \A p \in PR : UnopenedAt(p)

\* The tracker's record may lag behind Git, never run ahead of it.
EntryAt(p) ==
    tracked[p] # NoEntry =>
        /\ tracked[p].status = "merged" => Finished(p)
        /\ tracked[p].status = "closed" => git[p] = "closed"
        /\ tracked[p].status = "gone" => git[p] = "gone"
        /\ git[p] = "open" => ~tracked[p].gaveUp
EntriesFit == \A p \in PR : EntryAt(p)

\* A run of a finish step is for a pull request that ended, at a step of its kind.
FinAt(p) ==
    /\ TrackerStep(p) # "idle" => tracked[p] # NoEntry /\ git[p] # "open"
    /\ p \in Join =>
          /\ TrackerStep(p) \in {"idle", "look", "swap", "annotate", "unmark", "drop", "done", "failed"}
          /\ TrackerStep(p) = "drop" => git[p] = "closed"
          /\ TrackerStep(p) \in {"look", "swap", "annotate", "unmark"} => git[p] = "merged"
          /\ RequestStep(p) = "idle"
    /\ p \in UnadoptPR =>
          /\ TrackerStep(p) \in {"idle", "check", "strip", "unmark", "drop", "done", "failed"}
          /\ TrackerStep(p) \in {"check", "strip", "unmark"} => Finished(p)
          /\ RequestStep(p) \in {"idle", "strip", "unmark", "done", "failed"}
          /\ RequestStep(p) # "idle" => req[p] = "done" /\ git[p] \in {"none", "merged", "gone"}
          /\ RequestStep(p) = "unmark" => Finished(p)
FinFit == \A p \in PR : FinAt(p)
GitFit ==
    /\ \A p \in Join : git[p] # "gone"
    /\ \A p \in PR : p \in diff => git[p] = "open"

Fits ==
    /\ AdoptionTypeOK /\ OutOfSweepsReach /\ RequestsFit /\ FoundFit /\ MarksFit
    /\ UnopenedUnknown /\ EntriesFit /\ FinFit /\ GitFit

----------------------------------------------------------------------------
(* Constants, types, and frames.                                           *)

Keys == {"adopt", "take", "keep"}

\* Pull requests by kind, and what names none.
LEMMA Sorts ==
    /\ PR = Join \cup UnadoptPR /\ Join = AdoptPR \cup TakePR
    /\ \A p \in Join : p \in PR /\ p \notin UnadoptPR
    /\ \A u \in UnadoptPR : u \in PR /\ u \notin Join
    /\ \A p \in PR : p # NoMark /\ p # Pending /\ p # OldPending /\ p # NoPR /\ p \in Nat
    /\ NoMark # Pending /\ NoMark # OldPending /\ Pending # OldPending
    /\ NoSecret \notin Secret /\ NoEntry \notin Entry /\ MaxFailures \in Nat
    /\ Unnumbered = {Pending, OldPending}
  BY AdoptionConstants DEF PR, Join, Unnumbered

LEMMA KeySorts ==
    /\ \A p \in AdoptPR : Key(p) = "adopt"
    /\ \A p \in TakePR : Key(p) = "take"
    /\ \A u \in UnadoptPR : Key(u) = "keep"
    /\ \A p \in Join : Key(p) \in {"adopt", "take"}
    /\ \A p \in PR : Key(p) \in Keys
  BY AdoptionConstants DEF PR, Join, Key, Keys

\* The types, variable by variable.
RepoOK ==
    /\ inGit \in BOOLEAN /\ crossed \in BOOLEAN
    /\ git \in [PR -> {"none", "open", "merged", "closed", "gone"}] /\ diff \subseteq PR
ConnectionOK == connection \in Secret \cup {NoSecret}
TrackedOK == tracked \in [PR -> Entry \cup {NoEntry}]
RequestsOK == req \in [PR -> ReqSteps] /\ found \in [Join -> Join \cup {NoPR}] /\ marked \subseteq UnadoptPR
FinOK == fin \in [Finisher -> FinSteps]
PassOK ==
    /\ tick \in TickSteps /\ listed \in [{"adopt", "take", "keep"} -> {NoMark, OldPending} \cup PR]
    /\ number \in UnadoptPR \cup {NoPR}
FailuresOK == failures \in 0..MaxFailures

LEMMA TypeParts ==
    AdoptionTypeOK <=> /\ RepoOK /\ ConnectionOK /\ TrackedOK /\ RequestsOK
                       /\ FinOK /\ PassOK /\ FailuresOK
  BY DEF AdoptionTypeOK, RepoOK, ConnectionOK, TrackedOK, RequestsOK, FinOK, PassOK, FailuresOK

LEMMA TypesNext ==
    RepoOK' /\ ConnectionOK' /\ TrackedOK' /\ RequestsOK' /\ FinOK' /\ PassOK' /\ FailuresOK'
        => AdoptionTypeOK'
  BY DEF AdoptionTypeOK, RepoOK, ConnectionOK, TrackedOK, RequestsOK, FinOK, PassOK, FailuresOK

\* What a step does to the Secret: one mark, or whose it is.
MarkSet(k, v) ==
    /\ connection \in Secret /\ connection' \in Secret
    /\ connection'.managed = connection.managed /\ connection'.adopted = connection.adopted
    /\ connection'.mark[k] = v
    /\ \A l \in Keys \ {k} : connection'.mark[l] = connection.mark[l]
OwnerSet(m, a) ==
    /\ connection \in Secret /\ connection' \in Secret
    /\ connection'.managed = m /\ connection'.adopted = a
    /\ \A l \in Keys : connection'.mark[l] = connection.mark[l]

LEMMA MarkPut ==
    ASSUME ConnectionOK, Exists, NEW k \in Keys, NEW v \in {NoMark} \cup Unnumbered \cup PR,
           connection' = [connection EXCEPT !.mark[k] = v]
    PROVE  MarkSet(k, v)
  BY DEF ConnectionOK, Exists, Secret, Keys, MarkSet

LEMMA OwnerPut ==
    ASSUME ConnectionOK, Exists, NEW m \in BOOLEAN, NEW a \in BOOLEAN,
           connection' = [connection EXCEPT !.managed = m, !.adopted = a]
    PROVE  OwnerSet(m, a)
  BY DEF ConnectionOK, Exists, Secret, Keys, OwnerSet

\* What a step does to the runs of finish steps.
TrackerSet(p, s) ==
    /\ \A q \in PR : TrackerStep(q)' = IF q = p THEN s ELSE TrackerStep(q)
    /\ \A q \in PR : RequestStep(q)' = RequestStep(q)
RequestSet(p, s) ==
    /\ \A q \in PR : RequestStep(q)' = IF q = p THEN s ELSE RequestStep(q)
    /\ \A q \in PR : TrackerStep(q)' = TrackerStep(q)

LEMMA TrackerGoes ==
    ASSUME FinOK, NEW p \in PR, NEW s \in FinSteps, FinGoto(<<p, "tracker">>, s)
    PROVE  FinOK' /\ TrackerSet(p, s)
  BY DEF FinOK, FinGoto, Finisher, TrackerStep, RequestStep, TrackerSet

LEMMA RequestGoes ==
    ASSUME FinOK, NEW p \in PR, NEW s \in FinSteps, FinGoto(<<p, "request">>, s)
    PROVE  FinOK' /\ RequestSet(p, s)
  BY DEF FinOK, FinGoto, Finisher, TrackerStep, RequestStep, RequestSet

LEMMA FinStays ==
    ASSUME UNCHANGED fin
    PROVE  \A q \in PR : TrackerStep(q)' = TrackerStep(q) /\ RequestStep(q)' = RequestStep(q)
  BY DEF TrackerStep, RequestStep

LEMMA FinisherSorts ==
    ASSUME NEW f \in Finisher
    PROVE  /\ f[1] \in PR /\ f[2] \in {"tracker", "request"} /\ f = <<f[1], f[2]>>
           /\ f[2] = "tracker" => fin[f] = TrackerStep(f[1])
           /\ f[2] = "request" => fin[f] = RequestStep(f[1])
  BY DEF Finisher, TrackerStep, RequestStep

LEMMA OutOfSweepsReachFrame == OutOfSweepsReach /\ UNCHANGED connection => OutOfSweepsReach'
  BY DEF OutOfSweepsReach, ManagedBySharko, Exists

LEMMA RequestsFrame == RequestsFit /\ UNCHANGED <<req, git, found, marked>> => RequestsFit'
  BY DEF RequestsFit, RequestAt, Finished

LEMMA FoundFrame == FoundFit /\ UNCHANGED <<git, found>> => FoundFit'
  BY DEF FoundFit

LEMMA MarksFrame == MarksFit /\ UNCHANGED <<connection, listed, tick, number>> => MarksFit'
  BY DEF MarksFit, Exists

LEMMA UnopenedFrame ==
    UnopenedUnknown /\ UNCHANGED <<git, tracked, fin, connection, listed, number>> => UnopenedUnknown'
  BY DEF UnopenedUnknown, UnopenedAt, TrackerStep, Exists

LEMMA EntriesFrame == EntriesFit /\ UNCHANGED <<tracked, git>> => EntriesFit'
  BY DEF EntriesFit, EntryAt, Finished

LEMMA FinFrame == FinFit /\ UNCHANGED <<fin, tracked, git, req>> => FinFit'
<1> SUFFICES ASSUME FinFit, UNCHANGED <<fin, tracked, git, req>>, NEW p \in PR PROVE FinAt(p)'
  BY DEF FinFit
<1>1. FinAt(p)
  BY DEF FinFit
<1> QED BY <1>1, FinStays DEF FinAt, Finished

LEMMA GitFrame == GitFit /\ UNCHANGED <<git, diff>> => GitFit'
  BY DEF GitFit
----------------------------------------------------------------------------
(* What each action does to the Secret and to the finish steps.            *)

LEMMA JoinRemarkWrites ==
    ASSUME Fits, NEW p \in PR, JoinRemark(p)
    PROVE  /\ p \in Join /\ found[p] \in Join
           /\ \/ UNCHANGED <<connection, crossed>> /\ (Failure \/ (~Exists /\ NoFailure))
              \/ /\ MarkSet(Key(found[p]), found[p]) /\ NoFailure
                 /\ crossed' = (crossed \/ HasMark(Key(found[p]), PR \ {found[p]}))
<1>1. p \in Join /\ found[p] \in Join
  BY Sorts DEF Fits, RequestsFit, RequestAt, UnadoptSteps, JoinRemark
<1>2. CASE Exists /\ PutMark(found[p]) /\ NoFailure
  <2>1. Key(found[p]) \in Keys /\ found[p] \in PR
    BY <1>1, Sorts, KeySorts DEF Keys
  <2>2. connection' = [connection EXCEPT !.mark[Key(found[p])] = found[p]]
    BY <1>2 DEF PutMark
  <2> QED BY <1>1, <1>2, <2>1, <2>2, MarkPut, TypeParts DEF Fits, PutMark
<1>3. CASE UNCHANGED <<connection, crossed>> /\ (Failure \/ (~Exists /\ NoFailure))
  BY <1>1, <1>3
<1> QED BY <1>2, <1>3 DEF JoinRemark

LEMMA JoinMarkWrites ==
    ASSUME Fits, NEW p \in PR, JoinMark(p)
    PROVE  /\ p \in Join
           /\ \/ /\ MarkSet(Key(p), p) /\ NoFailure /\ req' = [req EXCEPT ![p] = "track"]
                 /\ crossed' = (crossed \/ HasMark(Key(p), PR \ {p}))
              \/ /\ UNCHANGED <<connection, crossed>> /\ req' = [req EXCEPT ![p] = "trackOnly"]
                 /\ Failure \/ (~Exists /\ NoFailure)
<1>1. p \in Join
  BY Sorts DEF Fits, RequestsFit, RequestAt, UnadoptSteps, JoinMark
<1>2. CASE Exists /\ PutMark(p) /\ Goto(p, "track") /\ NoFailure
  <2>1. Key(p) \in Keys
    BY <1>1, KeySorts DEF Keys
  <2>2. connection' = [connection EXCEPT !.mark[Key(p)] = p]
    BY <1>2 DEF PutMark
  <2> QED BY <1>1, <1>2, <2>1, <2>2, MarkPut, TypeParts DEF Fits, PutMark, Goto
<1>3. CASE /\ UNCHANGED <<connection, crossed>> /\ Goto(p, "trackOnly")
           /\ Failure \/ (~Exists /\ NoFailure)
  BY <1>1, <1>3 DEF Goto
<1> QED BY <1>2, <1>3 DEF JoinMark

\* TakeOverClusterSecret.
LEMMA TakenOverWrites ==
    ASSUME Fits, Exists, connection' = TakenOver
    PROVE  OwnerSet(TRUE, TRUE)
<1>1. connection \in Secret /\ connection.managed \in BOOLEAN
  BY TypeParts DEF Fits, ConnectionOK, Exists, Secret
<1>2. CASE connection.managed
  BY <1>1, <1>2 DEF Fits, OutOfSweepsReach, ManagedBySharko, Exists, TakenOver, OwnerSet, Secret
<1>3. CASE ~connection.managed
  BY <1>3, OwnerPut, TypeParts DEF Fits, TakenOver
<1> QED BY <1>1, <1>2, <1>3

LEMMA AnnotatedWrites ==
    ASSUME Fits, Exists, connection' = [connection EXCEPT !.adopted = TRUE]
    PROVE  OwnerSet(connection.managed, TRUE)
  BY TypeParts DEF Fits, ConnectionOK, Exists, Secret, Keys, OwnerSet

LEMMA JoinSwapWrites ==
    ASSUME Fits, NEW p \in PR, JoinSwap(p)
    PROVE  /\ p \in Join
           /\ \/ /\ OwnerSet(TRUE, TRUE) /\ NoFailure
                 /\ req' = [req EXCEPT ![p] = IF p \in AdoptPR THEN "annotate" ELSE "done"]
              \/ /\ UNCHANGED connection /\ req' = [req EXCEPT ![p] = "done"]
                 /\ Failure \/ (~Exists /\ NoFailure)
<1>1. p \in Join
  BY Sorts DEF Fits, RequestsFit, RequestAt, UnadoptSteps, JoinSwap
<1> QED BY <1>1, TakenOverWrites DEF JoinSwap, Goto

LEMMA JoinAnnotateWrites ==
    ASSUME Fits, NEW p \in PR, JoinAnnotate(p)
    PROVE  /\ p \in Join
           /\ \/ OwnerSet(connection.managed, TRUE) /\ NoFailure
              \/ UNCHANGED connection /\ (Failure \/ (~Exists /\ NoFailure))
  BY Sorts, AnnotatedWrites DEF Fits, RequestsFit, RequestAt, UnadoptSteps, JoinAnnotate

LEMMA UnadoptSetMarkWrites ==
    ASSUME Fits, NEW p \in PR, UnadoptSetMark(p)
    PROVE  /\ p \in UnadoptPR
           /\ \/ /\ MarkSet("keep", Pending) /\ NoFailure
                 /\ req' = [req EXCEPT ![p] = "open"] /\ marked' = marked \cup {p}
              \/ /\ UNCHANGED <<connection, marked>> /\ req' = [req EXCEPT ![p] = "done"]
                 /\ Failure \/ (~Exists /\ NoFailure)
<1>1. p \in UnadoptPR
  BY Sorts DEF Fits, RequestsFit, RequestAt, JoinSteps, UnadoptSetMark
<1>2. "keep" \in Keys /\ Pending \in Unnumbered
  BY DEF Keys, Unnumbered
<1> QED BY <1>1, <1>2, MarkPut, TypeParts DEF Fits, UnadoptSetMark, Goto

LEMMA UnadoptNumberWrites ==
    ASSUME Fits, NEW p \in PR, UnadoptNumber(p)
    PROVE  /\ p \in UnadoptPR
           /\ \/ UNCHANGED connection /\ NoFailure /\ (p \notin marked \/ ~Exists)
              \/ UNCHANGED connection /\ Failure /\ p \in marked
              \/ /\ UNCHANGED connection /\ NoFailure
                 /\ req[p] = "unmark" /\ ~HasMark("keep", Unnumbered)
              \/ /\ MarkSet("keep", NoMark) /\ NoFailure
                 /\ req[p] = "unmark" /\ HasMark("keep", Unnumbered)
              \/ MarkSet("keep", p) /\ NoFailure /\ req[p] # "unmark" /\ p \in marked
           /\ \/ req[p] = "merged" /\ FinOK' /\ RequestSet(p, "strip")
              \/ req[p] # "merged" /\ UNCHANGED fin
<1>1. p \in UnadoptPR
  BY Sorts DEF Fits, RequestsFit, RequestAt, JoinSteps, UnadoptNumber
<1>2. "keep" \in Keys /\ NoMark \in {NoMark} \cup Unnumbered \cup PR
  BY DEF Keys
<1>3. \/ UNCHANGED connection /\ NoFailure /\ (p \notin marked \/ ~Exists)
      \/ UNCHANGED connection /\ Failure /\ p \in marked
      \/ UNCHANGED connection /\ NoFailure /\ req[p] = "unmark" /\ ~HasMark("keep", Unnumbered)
      \/ /\ MarkSet("keep", NoMark) /\ NoFailure
         /\ req[p] = "unmark" /\ HasMark("keep", Unnumbered)
      \/ MarkSet("keep", p) /\ NoFailure /\ req[p] # "unmark" /\ p \in marked
  <2>1. CASE UNCHANGED connection /\ ((p \notin marked /\ NoFailure) \/ (p \in marked /\ Failure))
    BY <2>1
  <2>2. CASE p \in marked /\ NoFailure /\ req[p] = "unmark" /\ Unmark("keep", Unnumbered)
    BY <1>2, <2>2, MarkPut, TypeParts DEF Fits, Unmark, HasMark
  <2>3. CASE /\ p \in marked /\ NoFailure /\ req[p] # "unmark"
             /\ connection' = IF Exists THEN [connection EXCEPT !.mark["keep"] = p] ELSE connection
    BY <1>2, <2>3, MarkPut, TypeParts DEF Fits, UnadoptNumber
  <2> QED BY <2>1, <2>2, <2>3 DEF UnadoptNumber
<1>4. \/ req[p] = "merged" /\ FinOK' /\ RequestSet(p, "strip")
      \/ req[p] # "merged" /\ UNCHANGED fin
  BY RequestGoes, TypeParts DEF Fits, UnadoptNumber, FinSteps
<1> QED BY <1>1, <1>3, <1>4

LEMMA UnadoptPlanWrites ==
    ASSUME Fits, NEW p \in PR, UnadoptPlan(p)
    PROVE  /\ p \in UnadoptPR
           /\ \/ inGit /\ req' = [req EXCEPT ![p] = "look"] /\ UNCHANGED fin /\ NoFailure
              \/ /\ ~inGit /\ req' = [req EXCEPT ![p] = "done"] /\ NoFailure
                 /\ FinOK' /\ RequestSet(p, "strip")
              \/ Failure /\ req' = [req EXCEPT ![p] = "done"] /\ UNCHANGED fin
<1>1. p \in UnadoptPR
  BY Sorts DEF Fits, RequestsFit, RequestAt, JoinSteps, UnadoptPlan
<1> QED BY <1>1, RequestGoes, TypeParts DEF Fits, UnadoptPlan, Goto, FinSteps

----------------------------------------------------------------------------
(* The finish steps.                                                       *)

LEMMA FinishStartWrites ==
    ASSUME Fits, NEW p \in PR, FinishStart(p)
    PROVE  /\ tracked[p] # NoEntry /\ tracked[p].status # "open" /\ ~tracked[p].gaveUp
           /\ TrackerStep(p) = "idle" /\ FinOK'
           /\ \/ tracked[p].status = "closed" /\ TrackerSet(p, "drop")
              \/ tracked[p].status = "gone" /\ p \in Join /\ TrackerSet(p, "drop")
              \/ tracked[p].status = "gone" /\ p \in UnadoptPR /\ TrackerSet(p, "check")
              \/ tracked[p].status = "merged" /\ p \in Join /\ TrackerSet(p, "look")
              \/ tracked[p].status = "merged" /\ p \in UnadoptPR /\ TrackerSet(p, "check")
<1>1. FinOK /\ tracked[p].status \in {"open", "merged", "closed", "gone"}
  BY TypeParts DEF Fits, TrackedOK, Entry, FinishStart
<1>2. CASE tracked[p].status = "closed"
  BY <1>1, <1>2, TrackerGoes DEF FinishStart, FinSteps, TrackerStep
<1>3. CASE tracked[p].status = "gone"
  BY <1>1, <1>3, TrackerGoes, Sorts DEF FinishStart, FinSteps, TrackerStep
<1>4. CASE tracked[p].status = "merged"
  <2>1. FinGoto(<<p, "tracker">>, IF p \in Join THEN "look" ELSE "check")
    BY <1>4 DEF FinishStart
  <2> QED BY <1>1, <1>4, <2>1, TrackerGoes, Sorts DEF FinishStart, FinSteps, TrackerStep
<1> QED BY <1>1, <1>2, <1>3, <1>4 DEF FinishStart

LEMMA FinishLookWrites ==
    ASSUME Fits, NEW f \in Finisher, FinishLook(f)
    PROVE  /\ f[1] \in Join /\ TrackerStep(f[1]) = "look" /\ FinOK'
           /\ \/ Exists /\ TrackerSet(f[1], "swap") /\ NoFailure
              \/ ~Exists /\ TrackerSet(f[1], "done") /\ NoFailure
              \/ Failure /\ TrackerSet(f[1], "failed")
<1>1. f[1] \in Join /\ f[2] = "tracker" /\ TrackerStep(f[1]) = "look"
  BY FinisherSorts, Sorts DEF Fits, FinFit, FinAt, FinishLook
<1> QED BY <1>1, FinisherSorts, TrackerGoes, TypeParts DEF Fits, FinishLook, FinSteps

LEMMA FinishSwapWrites ==
    ASSUME Fits, NEW f \in Finisher, FinishSwap(f)
    PROVE  /\ f[1] \in Join /\ TrackerStep(f[1]) = "swap" /\ FinOK'
           /\ \/ /\ OwnerSet(TRUE, TRUE) /\ NoFailure
                 /\ TrackerSet(f[1], IF f[1] \in AdoptPR THEN "annotate" ELSE "unmark")
              \/ /\ UNCHANGED connection /\ TrackerSet(f[1], "failed")
                 /\ Failure \/ (~Exists /\ NoFailure)
<1>1. f[1] \in Join /\ f[2] = "tracker" /\ TrackerStep(f[1]) = "swap"
  BY FinisherSorts, Sorts DEF Fits, FinFit, FinAt, FinishSwap
<1> QED BY <1>1, FinisherSorts, TrackerGoes, TakenOverWrites, TypeParts DEF Fits, FinishSwap, FinSteps

LEMMA FinishAnnotateWrites ==
    ASSUME Fits, NEW f \in Finisher, FinishAnnotate(f)
    PROVE  /\ f[1] \in Join /\ TrackerStep(f[1]) = "annotate" /\ FinOK'
           /\ \/ OwnerSet(connection.managed, TRUE) /\ TrackerSet(f[1], "unmark") /\ NoFailure
              \/ /\ UNCHANGED connection /\ TrackerSet(f[1], "failed")
                 /\ Failure \/ (~Exists /\ NoFailure)
<1>1. f[1] \in Join /\ f[2] = "tracker" /\ TrackerStep(f[1]) = "annotate"
  BY FinisherSorts, Sorts DEF Fits, FinFit, FinAt, FinishAnnotate
<1> QED BY <1>1, FinisherSorts, TrackerGoes, AnnotatedWrites, TypeParts DEF Fits, FinishAnnotate, FinSteps

LEMMA FinishCheckWrites ==
    ASSUME Fits, NEW f \in Finisher, FinishCheck(f)
    PROVE  /\ f[1] \in UnadoptPR /\ TrackerStep(f[1]) = "check" /\ FinOK'
           /\ \/ inGit /\ TrackerSet(f[1], "drop") /\ NoFailure
              \/ ~inGit /\ TrackerSet(f[1], "strip") /\ NoFailure
              \/ Failure /\ TrackerSet(f[1], "failed")
<1>1. f[1] \in UnadoptPR /\ f[2] = "tracker" /\ TrackerStep(f[1]) = "check"
  BY FinisherSorts, Sorts DEF Fits, FinFit, FinAt, FinishCheck
<1> QED BY <1>1, FinisherSorts, TrackerGoes, TypeParts DEF Fits, FinishCheck, BackInGit, FinSteps

\* A step of the tracker's run of a finish step, or of the request's.
RunSet(f, s) ==
    \/ f[2] = "tracker" /\ TrackerSet(f[1], s)
    \/ f[2] = "request" /\ RequestSet(f[1], s)

RunAt(f, s) ==
    \/ f[2] = "tracker" /\ TrackerStep(f[1]) = s
    \/ f[2] = "request" /\ RequestStep(f[1]) = s

LEMMA RunGoes ==
    ASSUME FinOK, NEW f \in Finisher, NEW s \in FinSteps, FinGoto(f, s)
    PROVE  FinOK' /\ RunSet(f, s)
  BY FinisherSorts, TrackerGoes, RequestGoes DEF RunSet

LEMMA FinishStripWrites ==
    ASSUME Fits, NEW f \in Finisher, FinishStrip(f)
    PROVE  /\ f[1] \in UnadoptPR /\ fin[f] = "strip" /\ FinOK'
           /\ \/ /\ OwnerSet(FALSE, FALSE) /\ NoFailure
                 /\ RunSet(f, IF git[f[1]] = "none" THEN "done" ELSE "unmark")
              \/ /\ UNCHANGED connection /\ RunSet(f, "failed")
                 /\ Failure \/ (~Exists /\ NoFailure)
<1>1. f[1] \in UnadoptPR
  BY FinisherSorts, Sorts DEF Fits, FinFit, FinAt, FinishStrip
<1>2. connection' = Unadopted /\ Exists => OwnerSet(FALSE, FALSE)
  BY OwnerPut, TypeParts DEF Fits, Unadopted
<1> QED BY <1>1, <1>2, RunGoes, TypeParts DEF Fits, FinishStrip, FinSteps

LEMMA FinishUnmarkWrites ==
    ASSUME Fits, NEW f \in Finisher, FinishUnmark(f)
    PROVE  /\ f[1] \in PR /\ fin[f] \in {"unmark", "drop"} /\ FinOK'
           /\ \/ /\ HasMark(Key(f[1]), {f[1]}) /\ MarkSet(Key(f[1]), NoMark)
                 /\ RunSet(f, "done") /\ NoFailure
              \/ /\ UNCHANGED connection /\ ~HasMark(Key(f[1]), {f[1]})
                 /\ RunSet(f, "done") /\ NoFailure
              \/ /\ UNCHANGED connection /\ Failure
                 /\ RunSet(f, "done") \/ RunSet(f, "failed")
<1>1. f[1] \in PR
  BY FinisherSorts
<1>2. Key(f[1]) \in Keys /\ NoMark \in {NoMark} \cup Unnumbered \cup PR
  BY <1>1, Sorts, KeySorts DEF Keys
<1>3. CASE Unmark(Key(f[1]), {f[1]}) /\ FinGoto(f, "done") /\ NoFailure
  <2>1. FinOK' /\ RunSet(f, "done")
    BY <1>3, RunGoes, TypeParts DEF Fits, FinSteps
  <2>2. CASE HasMark(Key(f[1]), {f[1]})
    <3>1. MarkSet(Key(f[1]), NoMark)
      BY <1>2, <1>3, <2>2, MarkPut, TypeParts DEF Fits, Unmark, HasMark
    <3> QED BY <1>1, <2>1, <2>2, <3>1 DEF FinishUnmark
  <2>3. CASE ~HasMark(Key(f[1]), {f[1]})
    BY <1>1, <1>3, <2>1, <2>3 DEF FinishUnmark, Unmark
  <2> QED BY <2>2, <2>3
<1>4. CASE /\ Failure /\ UNCHANGED connection
           /\ FinGoto(f, IF fin[f] = "unmark" /\ f[1] \in Join THEN "done" ELSE "failed")
  BY <1>1, <1>4, RunGoes, TypeParts DEF Fits, FinishUnmark, FinSteps
<1> QED BY <1>3, <1>4 DEF FinishUnmark

LEMMA FinishSettleWrites ==
    ASSUME Fits, NEW f \in Finisher, FinishSettle(f)
    PROVE  /\ f[1] \in PR /\ fin[f] \in {"done", "failed"} /\ FinOK' /\ RunSet(f, "idle")
           /\ \/ UNCHANGED tracked /\ NoFailure /\ (f[2] = "request" \/ tracked[f[1]] = NoEntry)
              \/ UNCHANGED tracked /\ Failure /\ f[2] = "tracker"
              \/ /\ f[2] = "tracker" /\ tracked[f[1]] # NoEntry /\ NoFailure
                 /\ \/ fin[f] = "done" /\ tracked' = [tracked EXCEPT ![f[1]] = NoEntry]
                    \/ /\ fin[f] = "failed"
                       /\ \E g \in BOOLEAN : tracked' = [tracked EXCEPT ![f[1]].gaveUp = g]
  BY FinisherSorts, RunGoes, TypeParts DEF Fits, FinishSettle, FinSteps

\* ReleaseKeptConnection.
GivenBack ==
    /\ connection \in Secret /\ connection' \in Secret
    /\ ~connection'.managed /\ connection'.adopted = connection.adopted
    /\ connection'.mark["keep"] =
          IF connection.mark["keep"] \in Unnumbered THEN NoMark ELSE connection.mark["keep"]
    /\ \A l \in Keys \ {"keep"} : connection'.mark[l] = connection.mark[l]

LEMMA MarksWriteWrites ==
    ASSUME Fits, MarksWrite
    PROVE  \/ UNCHANGED connection /\ tick \in {"setNumber", "takeOff", "giveBack"}
              /\ (Failure \/ (NoFailure /\ ~HasMark("keep", Unnumbered)))
           \/ /\ tick = "takeOff" /\ HasMark("keep", Unnumbered)
              /\ MarkSet("keep", NoMark) /\ NoFailure
           \/ /\ tick = "setNumber" /\ number \in UnadoptPR
              /\ HasMark("keep", Unnumbered) /\ MarkSet("keep", number) /\ NoFailure
           \/ tick = "giveBack" /\ GivenBack /\ NoFailure
<1>1. "keep" \in Keys /\ NoMark \in {NoMark} \cup Unnumbered \cup PR
  BY DEF Keys
<1>2. CASE tick = "takeOff" /\ Unmark("keep", Unnumbered) /\ NoFailure
  BY <1>1, <1>2, MarkPut, TypeParts DEF Fits, Unmark, HasMark
<1>3. CASE /\ tick = "setNumber" /\ NoFailure
           /\ connection' = IF HasMark("keep", Unnumbered)
                            THEN [connection EXCEPT !.mark["keep"] = number] ELSE connection
  <2>1. number \in UnadoptPR /\ number \in PR
    BY <1>3, Sorts DEF Fits, MarksFit
  <2>2. CASE /\ connection' = [connection EXCEPT !.mark["keep"] = number] /\ NoFailure
             /\ HasMark("keep", Unnumbered)
    BY <1>1, <1>3, <2>1, <2>2, MarkPut, TypeParts DEF Fits, HasMark
  <2> QED BY <1>3, <2>2, <2>1 DEF MarksWrite
<1>4. CASE tick = "giveBack" /\ connection' = Released /\ Exists /\ NoFailure
  <2>1. connection \in Secret
    BY <1>4, TypeParts DEF Fits, ConnectionOK, Exists
  <2> QED BY <1>4, <2>1, Sorts DEF Released, GivenBack, Secret, Keys, MarksWrite
<1> QED BY <1>2, <1>3, <1>4 DEF MarksWrite, Released, Unmark, HasMark

LEMMA MarkAgesWrites ==
    ASSUME Fits, MarkAges
    PROVE  HasMark("keep", {Pending}) /\ MarkSet("keep", OldPending)
<1>1. "keep" \in Keys /\ OldPending \in Unnumbered
  BY DEF Keys, Unnumbered
<1> QED BY <1>1, MarkPut, TypeParts DEF Fits, MarkAges, HasMark


\* What a step leaves as it is: a pull request, and all but one.
FinSame(q) == TrackerStep(q)' = TrackerStep(q) /\ RequestStep(q)' = RequestStep(q)
Same(q) ==
    /\ req'[q] = req[q] /\ git'[q] = git[q] /\ tracked'[q] = tracked[q] /\ FinSame(q)
    /\ (q \in diff' <=> q \in diff) /\ (q \in marked' <=> q \in marked)
    /\ q \in Join => found'[q] = found[q]
Others(p) == \A q \in PR : q # p => Same(q)

\* A record just made, and a merge.
Recorded(p, status) ==
    tracked'[p] # NoEntry /\ tracked'[p].status = status /\ ~tracked'[p].gaveUp
Merged(p) ==
    /\ git[p] = "open" /\ git'[p] = "merged" /\ p \notin diff'
    /\ inGit' <=> IF p \in diff THEN p \in Join ELSE inGit
    /\ ~crossed' => /\ ~crossed /\ Known(p) /\ ~Deciding
                    /\ p \in UnadoptPR => \A q \in Join : Over(q)

LEMMA Record ==
    ASSUME TrackedOK, NEW p \in PR, NEW s \in {"open", "merged", "closed", "gone"},
           tracked' = [tracked EXCEPT ![p] = [status |-> s, gaveUp |-> FALSE]]
    PROVE  TrackedOK' /\ Recorded(p, s) /\ \A q \in PR : q # p => tracked'[q] = tracked[q]
<1>1. [status |-> s, gaveUp |-> FALSE] \in Entry
  BY DEF Entry
<1>2. [status |-> s, gaveUp |-> FALSE] # NoEntry
  BY <1>1, Sorts
<1> QED BY <1>1, <1>2 DEF TrackedOK, Recorded

LEMMA MergeEffect ==
    ASSUME RepoOK, NEW p \in PR, Merge(p)
    PROVE  /\ RepoOK' /\ Merged(p)
           /\ \A q \in PR : q # p => git'[q] = git[q] /\ (q \in diff' <=> q \in diff)
<1>1. git[p] = "open" /\ git'[p] = "merged" /\ p \notin diff' /\ diff' \subseteq PR
  BY DEF RepoOK, Merge
<1>2. git' \in [PR -> {"none", "open", "merged", "closed", "gone"}]
  BY DEF RepoOK, Merge
<1>3. \A q \in PR : q # p => git'[q] = git[q] /\ (q \in diff' <=> q \in diff)
  BY DEF RepoOK, Merge
<1>4. inGit' \in BOOLEAN /\ (inGit' <=> IF p \in diff THEN p \in Join ELSE inGit)
  <2>1. CASE p \in diff
    <3>1. inGit' = (p \in Join)
      BY <2>1 DEF Merge
    <3>2. CASE p \in Join
      <4>1. inGit' = TRUE
        <5>1. (p \in Join) = TRUE
          BY <3>2
        <5> QED BY <3>1, <5>1
      <4> QED BY <2>1, <3>2, <4>1
    <3>3. CASE p \notin Join
      <4>1. (p \in Join) = FALSE
        BY <3>3
      <4>2. inGit' = FALSE
        BY <3>1, <4>1
      <4> QED BY <2>1, <3>3, <4>2
    <3> QED BY <3>2, <3>3
  <2>2. CASE p \notin diff
    <3>1. inGit' = inGit
      BY <2>2 DEF Merge
    <3> QED BY <2>2, <3>1 DEF RepoOK
  <2> QED BY <2>1, <2>2
<1>5. crossed' \in BOOLEAN
  BY Zenon DEF Merge
<1>6. ~crossed' => /\ ~crossed /\ Known(p) /\ ~Deciding
                   /\ p \in UnadoptPR => \A q \in Join : Over(q)
  BY DEF Merge
<1> QED BY <1>1, <1>2, <1>3, <1>4, <1>5, <1>6 DEF RepoOK, Merged

LEMMA OpenEffect ==
    ASSUME RepoOK, NEW p \in PR, Opens(p)
    PROVE  /\ RepoOK' /\ git'[p] = "open" /\ UNCHANGED <<inGit, crossed>>
           /\ p \in Join => inGit \/ p \in diff'
           /\ p \notin Join => (inGit => p \in diff')
           /\ \A q \in PR : q # p => git'[q] = git[q] /\ (q \in diff' <=> q \in diff)
<1>1. git' = [git EXCEPT ![p] = "open"] /\ UNCHANGED <<inGit, crossed>>
  BY DEF Opens
<1>2. git' \in [PR -> {"none", "open", "merged", "closed", "gone"}] /\ git'[p] = "open"
      /\ \A q \in PR : q # p => git'[q] = git[q]
  BY <1>1 DEF RepoOK
<1>3. \/ diff' = diff /\ inGit = (p \in Join)
      \/ diff' = diff \cup {p}
  BY DEF Opens
<1>4. diff' \subseteq PR /\ \A q \in PR : q # p => (q \in diff' <=> q \in diff)
  BY <1>3 DEF RepoOK
<1>5. p \in Join => inGit \/ p \in diff'
  BY <1>3
<1>6. p \notin Join => (inGit => p \in diff')
  BY <1>3
<1> QED BY <1>1, <1>2, <1>4, <1>5, <1>6 DEF RepoOK

LEMMA RunOthers ==
    ASSUME NEW f \in Finisher, NEW s, RunSet(f, s)
    PROVE  \A q \in PR : q # f[1] => FinSame(q)
  BY DEF RunSet, TrackerSet, RequestSet, FinSame

LEMMA Forgotten ==
    ASSUME TrackedOK, NEW p \in PR, tracked' = [tracked EXCEPT ![p] = NoEntry]
    PROVE  TrackedOK' /\ tracked'[p] = NoEntry /\ \A q \in PR : q # p => tracked'[q] = tracked[q]
  BY DEF TrackedOK

LEMMA Retried ==
    ASSUME TrackedOK, NEW p \in PR, NEW g \in BOOLEAN, tracked[p] # NoEntry,
           tracked' = [tracked EXCEPT ![p].gaveUp = g]
    PROVE  /\ TrackedOK' /\ tracked'[p] # NoEntry /\ tracked'[p].status = tracked[p].status
           /\ \A q \in PR : q # p => tracked'[q] = tracked[q]
<1>1. tracked[p] \in Entry
  BY DEF TrackedOK
<1> DEFINE e == [tracked[p] EXCEPT !.gaveUp = g]
<1>2. e \in Entry /\ e.status = tracked[p].status
  BY <1>1 DEF Entry
<1>3. tracked' = [tracked EXCEPT ![p] = e]
  OBVIOUS
<1> HIDE DEF e
<1>4. e # NoEntry
  BY <1>2, Sorts
<1> QED BY <1>2, <1>3, <1>4 DEF TrackedOK

LEMMA JoinPreflightEffect ==
    ASSUME Fits, NEW p \in PR, JoinPreflight(p)
    PROVE  /\ p \in Join /\ req[p] = "idle" /\ req'[p] = "find"
           /\ Exists /\ (inGit => connection.managed) /\ NoFailure
           /\ Others(p) /\ FinSame(p)
           /\ UNCHANGED <<inGit, crossed, git, diff, connection, tracked, found, marked, fin, tick, listed, number, failures>>
<1>1. UNCHANGED <<inGit, crossed, git, diff, connection, tracked, found, marked, fin, tick, listed, number, failures>>
  BY DEF JoinPreflight, repo, requests, marksPass, NoFailure
<1>2. Others(p) /\ FinSame(p)
  BY <1>1, TypeParts, FinStays, Sorts DEF Fits, RequestsOK, RepoOK, TrackedOK, Others, Same, FinSame, Goto, JoinPreflight, repo, requests, marksPass, NoFailure
<1>3. p \in Join /\ req[p] = "idle" /\ req'[p] = "find"
  BY <1>1, <1>2, TypeParts, Sorts, FinStays DEF Fits, RequestsFit, RequestAt, JoinSteps, UnadoptSteps, BeforeOpen, FinSame, RequestsOK, RepoOK, TrackedOK, JoinPreflight, Goto, Requested
<1>4. Exists /\ (inGit => connection.managed) /\ NoFailure
  BY <1>1, <1>2, TypeParts, Sorts, FinStays DEF Fits, RequestsFit, RequestAt, JoinSteps, UnadoptSteps, BeforeOpen, FinSame, RequestsOK, RepoOK, TrackedOK, JoinPreflight, Goto, Requested
<1> QED BY <1>1, <1>2, <1>3, <1>4

LEMMA JoinFindEffect ==
    ASSUME Fits, NEW p \in PR, JoinFind(p)
    PROVE  /\ p \in Join /\ req[p] = "find" /\ NoFailure
           /\ \/ req'[p] = "open" /\ found'[p] = found[p] /\ \A q \in Join : git[q] # "open"
              \/ req'[p] = "remark" /\ found'[p] \in Join /\ git[found'[p]] = "open"
              \/ req'[p] = "done" /\ found'[p] = found[p]
           /\ Others(p) /\ FinSame(p)
           /\ UNCHANGED <<inGit, crossed, git, diff, connection, tracked, marked, fin, tick, listed, number, failures>>
<1>1. UNCHANGED <<inGit, crossed, git, diff, connection, tracked, marked, fin, tick, listed, number, failures>>
  BY DEF JoinFind, repo, requests, marksPass, NoFailure
<1>2. Others(p) /\ FinSame(p)
  BY <1>1, TypeParts, FinStays, Sorts DEF Fits, RequestsOK, RepoOK, TrackedOK, Others, Same, FinSame, Goto, JoinFind, repo, requests, marksPass, NoFailure
<1>3. p \in Join /\ req[p] = "find" /\ NoFailure
  BY <1>1, <1>2, TypeParts, Sorts, FinStays DEF Fits, RequestsFit, RequestAt, JoinSteps, UnadoptSteps, BeforeOpen, FinSame, RequestsOK, RepoOK, TrackedOK, JoinFind, Goto, SameKind
<1>4. \/ req'[p] = "open" /\ found'[p] = found[p] /\ \A q \in Join : git[q] # "open"
      \/ req'[p] = "remark" /\ found'[p] \in Join /\ git[found'[p]] = "open"
      \/ req'[p] = "done" /\ found'[p] = found[p]
  BY <1>1, <1>2, TypeParts, Sorts, FinStays DEF Fits, RequestsFit, RequestAt, JoinSteps, UnadoptSteps, BeforeOpen, FinSame, RequestsOK, RepoOK, TrackedOK, JoinFind, Goto, SameKind
<1> QED BY <1>1, <1>2, <1>3, <1>4

LEMMA JoinRemarkEffect ==
    ASSUME Fits, NEW p \in PR, JoinRemark(p)
    PROVE  /\ p \in Join /\ req[p] = "remark" /\ found[p] \in Join
           /\ req'[p] = "done" /\ found'[p] = NoPR
           /\ \/ MarkSet(Key(found[p]), found[p]) /\ NoFailure
                 /\ (~crossed' => ~crossed /\ connection.mark[Key(found[p])] \notin PR \ {found[p]})
              \/ UNCHANGED <<connection, crossed>> /\ (Failure \/ (~Exists /\ NoFailure))
           /\ Others(p) /\ FinSame(p)
           /\ UNCHANGED <<inGit, git, diff, tracked, marked, fin, tick, listed, number>>
<1>1. UNCHANGED <<inGit, git, diff, tracked, marked, fin, tick, listed, number>>
  BY DEF JoinRemark, repo, requests, marksPass
<1>2. Others(p) /\ FinSame(p)
  BY <1>1, TypeParts, FinStays, Sorts, JoinRemarkWrites DEF Fits, RequestsOK, RepoOK, TrackedOK, Others, Same, FinSame, Goto, JoinRemark, repo, requests, marksPass
<1>3. p \in Join /\ req[p] = "remark" /\ found[p] \in Join
  BY <1>1, <1>2, TypeParts, Sorts, FinStays, JoinRemarkWrites DEF Fits, RequestsFit, RequestAt, JoinSteps, UnadoptSteps, BeforeOpen, FinSame, RequestsOK, RepoOK, TrackedOK, JoinRemark, Goto, HasMark
<1>4. req'[p] = "done" /\ found'[p] = NoPR
  BY <1>1, <1>2, TypeParts, Sorts, FinStays, JoinRemarkWrites DEF Fits, RequestsFit, RequestAt, JoinSteps, UnadoptSteps, BeforeOpen, FinSame, RequestsOK, RepoOK, TrackedOK, JoinRemark, Goto, HasMark
<1>5. \/ MarkSet(Key(found[p]), found[p]) /\ NoFailure
         /\ (~crossed' => ~crossed /\ connection.mark[Key(found[p])] \notin PR \ {found[p]})
      \/ UNCHANGED <<connection, crossed>> /\ (Failure \/ (~Exists /\ NoFailure))
  BY <1>1, <1>2, TypeParts, Sorts, FinStays, JoinRemarkWrites DEF Fits, RequestsFit, RequestAt, JoinSteps, UnadoptSteps, BeforeOpen, FinSame, RequestsOK, RepoOK, TrackedOK, JoinRemark, Goto, HasMark
<1> QED BY <1>1, <1>2, <1>3, <1>4, <1>5

LEMMA JoinOpenEffect ==
    ASSUME Fits, NEW p \in PR, JoinOpen(p)
    PROVE  /\ p \in Join /\ req[p] = "open" /\ git[p] = "none"
           /\ \/ inGit /\ req'[p] = "swap" /\ NoFailure /\ UNCHANGED <<git, diff>>
              \/ req'[p] = "mark" /\ git'[p] = "open" /\ (inGit \/ p \in diff') /\ NoFailure
              \/ req'[p] = "done" /\ (Failure \/ NoFailure) /\ UNCHANGED <<git, diff>>
           /\ Others(p) /\ FinSame(p)
           /\ UNCHANGED <<inGit, crossed, connection, tracked, found, marked, fin, tick, listed, number>>
<1>1. UNCHANGED <<inGit, crossed, connection, tracked, found, marked, fin, tick, listed, number>>
  BY DEF JoinOpen, repo, requests, marksPass, Opens
<1>2. Others(p) /\ FinSame(p)
  BY <1>1, TypeParts, FinStays, Sorts, OpenEffect DEF Fits, RequestsOK, RepoOK, TrackedOK, Others, Same, FinSame, Goto, JoinOpen, repo, requests, marksPass, Opens
<1>3. p \in Join /\ req[p] = "open" /\ git[p] = "none"
  BY <1>1, <1>2, TypeParts, Sorts, FinStays, OpenEffect DEF Fits, RequestsFit, RequestAt, JoinSteps, UnadoptSteps, BeforeOpen, FinSame, RequestsOK, RepoOK, TrackedOK, JoinOpen, Goto, Opens, repo
<1>4. \/ inGit /\ req'[p] = "swap" /\ NoFailure /\ UNCHANGED <<git, diff>>
      \/ req'[p] = "mark" /\ git'[p] = "open" /\ (inGit \/ p \in diff') /\ NoFailure
      \/ req'[p] = "done" /\ (Failure \/ NoFailure) /\ UNCHANGED <<git, diff>>
  BY <1>1, <1>2, TypeParts, Sorts, FinStays, OpenEffect DEF Fits, RequestsFit, RequestAt, JoinSteps, UnadoptSteps, BeforeOpen, FinSame, RequestsOK, RepoOK, TrackedOK, JoinOpen, Goto, Opens, repo
<1> QED BY <1>1, <1>2, <1>3, <1>4

LEMMA JoinMarkEffect ==
    ASSUME Fits, NEW p \in PR, JoinMark(p)
    PROVE  /\ p \in Join /\ req[p] = "mark"
           /\ \/ MarkSet(Key(p), p) /\ NoFailure /\ req'[p] = "track"
                 /\ (~crossed' => ~crossed /\ connection.mark[Key(p)] \notin PR \ {p})
              \/ UNCHANGED <<connection, crossed>> /\ req'[p] = "trackOnly" /\ (Failure \/ (~Exists /\ NoFailure))
           /\ Others(p) /\ FinSame(p)
           /\ UNCHANGED <<inGit, git, diff, tracked, found, marked, fin, tick, listed, number>>
<1>1. UNCHANGED <<inGit, git, diff, tracked, found, marked, fin, tick, listed, number>>
  BY DEF JoinMark, repo, requests, marksPass
<1>2. Others(p) /\ FinSame(p)
  BY <1>1, TypeParts, FinStays, Sorts, JoinMarkWrites DEF Fits, RequestsOK, RepoOK, TrackedOK, Others, Same, FinSame, Goto, JoinMark, repo, requests, marksPass
<1>3. p \in Join /\ req[p] = "mark"
  BY <1>1, <1>2, TypeParts, Sorts, FinStays, JoinMarkWrites DEF Fits, RequestsFit, RequestAt, JoinSteps, UnadoptSteps, BeforeOpen, FinSame, RequestsOK, RepoOK, TrackedOK, JoinMark, Goto, HasMark
<1>4. \/ MarkSet(Key(p), p) /\ NoFailure /\ req'[p] = "track"
         /\ (~crossed' => ~crossed /\ connection.mark[Key(p)] \notin PR \ {p})
      \/ UNCHANGED <<connection, crossed>> /\ req'[p] = "trackOnly" /\ (Failure \/ (~Exists /\ NoFailure))
  BY <1>1, <1>2, TypeParts, Sorts, FinStays, JoinMarkWrites DEF Fits, RequestsFit, RequestAt, JoinSteps, UnadoptSteps, BeforeOpen, FinSame, RequestsOK, RepoOK, TrackedOK, JoinMark, Goto, HasMark
<1> QED BY <1>1, <1>2, <1>3, <1>4

LEMMA JoinTrackEffect ==
    ASSUME Fits, NEW p \in PR, JoinTrack(p)
    PROVE  /\ p \in Join /\ req[p] \in {"track", "trackOnly"}
           /\ req'[p] = "done" \/ (req[p] = "track" /\ req'[p] = "merge")
           /\ \/ Recorded(p, "open") /\ NoFailure
              \/ UNCHANGED tracked /\ Failure
           /\ Others(p) /\ FinSame(p)
           /\ UNCHANGED <<inGit, crossed, git, diff, connection, found, marked, fin, tick, listed, number>>
<1>1. UNCHANGED <<inGit, crossed, git, diff, connection, found, marked, fin, tick, listed, number>>
  BY DEF JoinTrack, repo, requests, marksPass
<1>2. Others(p) /\ FinSame(p)
  BY <1>1, TypeParts, FinStays, Sorts, Record DEF Fits, RequestsOK, RepoOK, TrackedOK, Others, Same, FinSame, Goto, JoinTrack, repo, requests, marksPass
<1>3. p \in Join /\ req[p] \in {"track", "trackOnly"}
  BY <1>1, <1>2, TypeParts, Sorts, FinStays, Record DEF Fits, RequestsFit, RequestAt, JoinSteps, UnadoptSteps, BeforeOpen, FinSame, RequestsOK, RepoOK, TrackedOK, JoinTrack, Goto, NewEntry
<1>4. req'[p] = "done" \/ (req[p] = "track" /\ req'[p] = "merge")
  BY <1>1, <1>2, TypeParts, Sorts, FinStays, Record DEF Fits, RequestsFit, RequestAt, JoinSteps, UnadoptSteps, BeforeOpen, FinSame, RequestsOK, RepoOK, TrackedOK, JoinTrack, Goto, NewEntry
<1>5. \/ Recorded(p, "open") /\ NoFailure
      \/ UNCHANGED tracked /\ Failure
  BY <1>1, <1>2, TypeParts, Sorts, FinStays, Record DEF Fits, RequestsFit, RequestAt, JoinSteps, UnadoptSteps, BeforeOpen, FinSame, RequestsOK, RepoOK, TrackedOK, JoinTrack, Goto, NewEntry
<1> QED BY <1>1, <1>2, <1>3, <1>4, <1>5

LEMMA JoinMergeEffect ==
    ASSUME Fits, NEW p \in PR, JoinMerge(p)
    PROVE  /\ p \in Join /\ req[p] = "merge"
           /\ \/ Merged(p) /\ req'[p] = "swap" /\ NoFailure
              \/ req'[p] = "done" /\ UNCHANGED <<git, diff, inGit, crossed>> /\ (Failure \/ (git[p] # "open" /\ NoFailure))
           /\ Others(p) /\ FinSame(p)
           /\ UNCHANGED <<connection, tracked, found, marked, fin, tick, listed, number>>
<1>1. UNCHANGED <<connection, tracked, found, marked, fin, tick, listed, number>>
  BY DEF JoinMerge, repo, requests, marksPass
<1>2. Others(p) /\ FinSame(p)
  BY <1>1, TypeParts, FinStays, Sorts, MergeEffect DEF Fits, RequestsOK, RepoOK, TrackedOK, Others, Same, FinSame, Goto, JoinMerge, repo, requests, marksPass
<1>3. p \in Join /\ req[p] = "merge"
  BY <1>1, <1>2, TypeParts, Sorts, FinStays, MergeEffect DEF Fits, RequestsFit, RequestAt, JoinSteps, UnadoptSteps, BeforeOpen, FinSame, RequestsOK, RepoOK, TrackedOK, JoinMerge, Goto, repo
<1>4. \/ Merged(p) /\ req'[p] = "swap" /\ NoFailure
      \/ req'[p] = "done" /\ UNCHANGED <<git, diff, inGit, crossed>> /\ (Failure \/ (git[p] # "open" /\ NoFailure))
  BY <1>1, <1>2, TypeParts, Sorts, FinStays, MergeEffect DEF Fits, RequestsFit, RequestAt, JoinSteps, UnadoptSteps, BeforeOpen, FinSame, RequestsOK, RepoOK, TrackedOK, JoinMerge, Goto, repo
<1> QED BY <1>1, <1>2, <1>3, <1>4

LEMMA JoinSwapEffect ==
    ASSUME Fits, NEW p \in PR, JoinSwap(p)
    PROVE  /\ p \in Join /\ req[p] = "swap"
           /\ \/ OwnerSet(TRUE, TRUE) /\ NoFailure /\ req'[p] \in {"annotate", "done"}
              \/ UNCHANGED connection /\ req'[p] = "done" /\ (Failure \/ (~Exists /\ NoFailure))
           /\ Others(p) /\ FinSame(p)
           /\ UNCHANGED <<inGit, crossed, git, diff, tracked, found, marked, fin, tick, listed, number>>
<1>1. UNCHANGED <<inGit, crossed, git, diff, tracked, found, marked, fin, tick, listed, number>>
  BY DEF JoinSwap, repo, requests, marksPass
<1>2. Others(p) /\ FinSame(p)
  BY <1>1, TypeParts, FinStays, Sorts, JoinSwapWrites DEF Fits, RequestsOK, RepoOK, TrackedOK, Others, Same, FinSame, Goto, JoinSwap, repo, requests, marksPass
<1>3. p \in Join /\ req[p] = "swap"
  BY <1>1, <1>2, TypeParts, Sorts, FinStays, JoinSwapWrites DEF Fits, RequestsFit, RequestAt, JoinSteps, UnadoptSteps, BeforeOpen, FinSame, RequestsOK, RepoOK, TrackedOK, JoinSwap, Goto
<1>4. \/ OwnerSet(TRUE, TRUE) /\ NoFailure /\ req'[p] \in {"annotate", "done"}
      \/ UNCHANGED connection /\ req'[p] = "done" /\ (Failure \/ (~Exists /\ NoFailure))
  BY <1>1, <1>2, TypeParts, Sorts, FinStays, JoinSwapWrites DEF Fits, RequestsFit, RequestAt, JoinSteps, UnadoptSteps, BeforeOpen, FinSame, RequestsOK, RepoOK, TrackedOK, JoinSwap, Goto
<1> QED BY <1>1, <1>2, <1>3, <1>4

LEMMA JoinAnnotateEffect ==
    ASSUME Fits, NEW p \in PR, JoinAnnotate(p)
    PROVE  /\ p \in Join /\ req[p] = "annotate" /\ req'[p] = "done"
           /\ \/ OwnerSet(connection.managed, TRUE) /\ NoFailure
              \/ UNCHANGED connection /\ (Failure \/ (~Exists /\ NoFailure))
           /\ Others(p) /\ FinSame(p)
           /\ UNCHANGED <<inGit, crossed, git, diff, tracked, found, marked, fin, tick, listed, number>>
<1>1. UNCHANGED <<inGit, crossed, git, diff, tracked, found, marked, fin, tick, listed, number>>
  BY DEF JoinAnnotate, repo, requests, marksPass
<1>2. Others(p) /\ FinSame(p)
  BY <1>1, TypeParts, FinStays, Sorts, JoinAnnotateWrites DEF Fits, RequestsOK, RepoOK, TrackedOK, Others, Same, FinSame, Goto, JoinAnnotate, repo, requests, marksPass
<1>3. p \in Join /\ req[p] = "annotate" /\ req'[p] = "done"
  BY <1>1, <1>2, TypeParts, Sorts, FinStays, JoinAnnotateWrites DEF Fits, RequestsFit, RequestAt, JoinSteps, UnadoptSteps, BeforeOpen, FinSame, RequestsOK, RepoOK, TrackedOK, JoinAnnotate, Goto
<1>4. \/ OwnerSet(connection.managed, TRUE) /\ NoFailure
      \/ UNCHANGED connection /\ (Failure \/ (~Exists /\ NoFailure))
  BY <1>1, <1>2, TypeParts, Sorts, FinStays, JoinAnnotateWrites DEF Fits, RequestsFit, RequestAt, JoinSteps, UnadoptSteps, BeforeOpen, FinSame, RequestsOK, RepoOK, TrackedOK, JoinAnnotate, Goto
<1> QED BY <1>1, <1>2, <1>3, <1>4

LEMMA UnadoptCheckEffect ==
    ASSUME Fits, NEW p \in PR, UnadoptCheck(p)
    PROVE  /\ p \in UnadoptPR /\ req[p] = "idle" /\ req'[p] = "plan"
           /\ Exists /\ connection.adopted /\ NoFailure
           /\ ~crossed' => ~crossed /\ \A q \in UnadoptPR \ {p} : Settled(q)
           /\ Others(p) /\ FinSame(p)
           /\ UNCHANGED <<inGit, git, diff, connection, tracked, found, marked, fin, tick, listed, number, failures>>
<1>1. UNCHANGED <<inGit, git, diff, connection, tracked, found, marked, fin, tick, listed, number, failures>>
  BY DEF UnadoptCheck, repo, requests, marksPass, NoFailure
<1>2. Others(p) /\ FinSame(p)
  BY <1>1, TypeParts, FinStays, Sorts DEF Fits, RequestsOK, RepoOK, TrackedOK, Others, Same, FinSame, Goto, UnadoptCheck, repo, requests, marksPass, NoFailure
<1>3. p \in UnadoptPR /\ req[p] = "idle" /\ req'[p] = "plan"
  BY <1>1, <1>2, TypeParts, Sorts, FinStays DEF Fits, RequestsFit, RequestAt, JoinSteps, UnadoptSteps, BeforeOpen, FinSame, RequestsOK, RepoOK, TrackedOK, UnadoptCheck, Goto, Requested
<1>4. Exists /\ connection.adopted /\ NoFailure
  BY <1>1, <1>2, TypeParts, Sorts, FinStays DEF Fits, RequestsFit, RequestAt, JoinSteps, UnadoptSteps, BeforeOpen, FinSame, RequestsOK, RepoOK, TrackedOK, UnadoptCheck, Goto, Requested
<1>5. ~crossed' => ~crossed /\ \A q \in UnadoptPR \ {p} : Settled(q)
  BY <1>1, <1>2, TypeParts, Sorts, FinStays DEF Fits, RequestsFit, RequestAt, JoinSteps, UnadoptSteps, BeforeOpen, FinSame, RequestsOK, RepoOK, TrackedOK, UnadoptCheck, Goto, Requested
<1> QED BY <1>1, <1>2, <1>3, <1>4, <1>5

LEMMA UnadoptPlanEffect ==
    ASSUME Fits, NEW p \in PR, UnadoptPlan(p)
    PROVE  /\ p \in UnadoptPR /\ req[p] = "plan"
           /\ \/ inGit /\ req'[p] = "look" /\ UNCHANGED fin /\ FinSame(p) /\ NoFailure
              \/ ~inGit /\ req'[p] = "done" /\ RequestSet(p, "strip") /\ NoFailure
              \/ req'[p] = "done" /\ UNCHANGED fin /\ FinSame(p) /\ Failure
           /\ Others(p)
           /\ UNCHANGED <<inGit, crossed, git, diff, connection, tracked, found, marked, tick, listed, number>>
<1>1. UNCHANGED <<inGit, crossed, git, diff, connection, tracked, found, marked, tick, listed, number>>
  BY DEF UnadoptPlan, repo, requests, marksPass
<1>2. Others(p)
  BY <1>1, TypeParts, FinStays, Sorts, UnadoptPlanWrites DEF Fits, RequestsOK, RepoOK, TrackedOK, Others, Same, FinSame, RunSet, TrackerSet, RequestSet, Goto, UnadoptPlan, repo, requests, marksPass
<1>3. p \in UnadoptPR /\ req[p] = "plan"
  BY <1>1, <1>2, TypeParts, Sorts, FinStays, UnadoptPlanWrites DEF Fits, RequestsFit, RequestAt, JoinSteps, UnadoptSteps, BeforeOpen, FinSame, RequestsOK, RepoOK, TrackedOK, UnadoptPlan, Goto
<1>4. \/ inGit /\ req'[p] = "look" /\ UNCHANGED fin /\ FinSame(p) /\ NoFailure
      \/ ~inGit /\ req'[p] = "done" /\ RequestSet(p, "strip") /\ NoFailure
      \/ req'[p] = "done" /\ UNCHANGED fin /\ FinSame(p) /\ Failure
  BY <1>1, <1>2, TypeParts, Sorts, FinStays, UnadoptPlanWrites DEF Fits, RequestsFit, RequestAt, JoinSteps, UnadoptSteps, BeforeOpen, FinSame, RequestsOK, RepoOK, TrackedOK, UnadoptPlan, Goto
<1> QED BY <1>1, <1>2, <1>3, <1>4

LEMMA UnadoptLookEffect ==
    ASSUME Fits, NEW p \in PR, UnadoptLook(p)
    PROVE  /\ p \in UnadoptPR /\ req[p] = "look"
           /\ \/ ManagedBySharko /\ connection.mark["keep"] = NoMark /\ req'[p] = "setMark" /\ NoFailure
              \/ ManagedBySharko /\ connection.mark["keep"] # NoMark /\ req'[p] = "done" /\ NoFailure
              \/ ~ManagedBySharko /\ req'[p] = "open" /\ NoFailure
              \/ req'[p] = "done" /\ Failure
           /\ Others(p) /\ FinSame(p)
           /\ UNCHANGED <<inGit, crossed, git, diff, connection, tracked, found, marked, fin, tick, listed, number>>
<1>1. UNCHANGED <<inGit, crossed, git, diff, connection, tracked, found, marked, fin, tick, listed, number>>
  BY DEF UnadoptLook, repo, requests, marksPass
<1>2. Others(p) /\ FinSame(p)
  BY <1>1, TypeParts, FinStays, Sorts DEF Fits, RequestsOK, RepoOK, TrackedOK, Others, Same, FinSame, Goto, UnadoptLook, repo, requests, marksPass
<1>3. p \in UnadoptPR /\ req[p] = "look"
  BY <1>1, <1>2, TypeParts, Sorts, FinStays DEF Fits, RequestsFit, RequestAt, JoinSteps, UnadoptSteps, BeforeOpen, FinSame, RequestsOK, RepoOK, TrackedOK, UnadoptLook, Goto, ManagedBySharko, HasMark
<1>4. \/ ManagedBySharko /\ connection.mark["keep"] = NoMark /\ req'[p] = "setMark" /\ NoFailure
      \/ ManagedBySharko /\ connection.mark["keep"] # NoMark /\ req'[p] = "done" /\ NoFailure
      \/ ~ManagedBySharko /\ req'[p] = "open" /\ NoFailure
      \/ req'[p] = "done" /\ Failure
  BY <1>1, <1>2, TypeParts, Sorts, FinStays DEF Fits, RequestsFit, RequestAt, JoinSteps, UnadoptSteps, BeforeOpen, FinSame, RequestsOK, RepoOK, TrackedOK, UnadoptLook, Goto, ManagedBySharko, HasMark
<1> QED BY <1>1, <1>2, <1>3, <1>4

LEMMA UnadoptSetMarkEffect ==
    ASSUME Fits, NEW p \in PR, UnadoptSetMark(p)
    PROVE  /\ p \in UnadoptPR /\ req[p] = "setMark"
           /\ \/ MarkSet("keep", Pending) /\ NoFailure /\ req'[p] = "open" /\ p \in marked'
              \/ UNCHANGED <<connection, marked>> /\ req'[p] = "done" /\ (Failure \/ (~Exists /\ NoFailure))
           /\ Others(p) /\ FinSame(p)
           /\ UNCHANGED <<inGit, crossed, git, diff, tracked, found, fin, tick, listed, number>>
<1>1. UNCHANGED <<inGit, crossed, git, diff, tracked, found, fin, tick, listed, number>>
  BY DEF UnadoptSetMark, repo, requests, marksPass
<1>2. Others(p) /\ FinSame(p)
  BY <1>1, TypeParts, FinStays, Sorts, UnadoptSetMarkWrites DEF Fits, RequestsOK, RepoOK, TrackedOK, Others, Same, FinSame, Goto, UnadoptSetMark, repo, requests, marksPass
<1>3. p \in UnadoptPR /\ req[p] = "setMark"
  BY <1>1, <1>2, TypeParts, Sorts, FinStays, UnadoptSetMarkWrites DEF Fits, RequestsFit, RequestAt, JoinSteps, UnadoptSteps, BeforeOpen, FinSame, RequestsOK, RepoOK, TrackedOK, UnadoptSetMark, Goto
<1>4. \/ MarkSet("keep", Pending) /\ NoFailure /\ req'[p] = "open" /\ p \in marked'
      \/ UNCHANGED <<connection, marked>> /\ req'[p] = "done" /\ (Failure \/ (~Exists /\ NoFailure))
  BY <1>1, <1>2, TypeParts, Sorts, FinStays, UnadoptSetMarkWrites DEF Fits, RequestsFit, RequestAt, JoinSteps, UnadoptSteps, BeforeOpen, FinSame, RequestsOK, RepoOK, TrackedOK, UnadoptSetMark, Goto
<1> QED BY <1>1, <1>2, <1>3, <1>4

LEMMA UnadoptOpenEffect ==
    ASSUME Fits, NEW p \in PR, UnadoptOpen(p)
    PROVE  /\ p \in UnadoptPR /\ req[p] = "open" /\ git[p] = "none"
           /\ \/ req'[p] = "track" /\ git'[p] = "open" /\ (inGit => p \in diff') /\ NoFailure
              \/ req'[p] = "unmark" /\ (Failure \/ NoFailure) /\ UNCHANGED <<git, diff>>
           /\ Others(p) /\ FinSame(p)
           /\ UNCHANGED <<inGit, crossed, connection, tracked, found, marked, fin, tick, listed, number>>
<1>1. UNCHANGED <<inGit, crossed, connection, tracked, found, marked, fin, tick, listed, number>>
  BY DEF UnadoptOpen, repo, requests, marksPass, Opens
<1>2. Others(p) /\ FinSame(p)
  BY <1>1, TypeParts, FinStays, Sorts, OpenEffect DEF Fits, RequestsOK, RepoOK, TrackedOK, Others, Same, FinSame, Goto, UnadoptOpen, repo, requests, marksPass, Opens
<1>3. p \in UnadoptPR /\ req[p] = "open" /\ git[p] = "none"
  BY <1>1, <1>2, TypeParts, Sorts, FinStays, OpenEffect DEF Fits, RequestsFit, RequestAt, JoinSteps, UnadoptSteps, BeforeOpen, FinSame, RequestsOK, RepoOK, TrackedOK, UnadoptOpen, Goto, Opens, repo
<1>4. \/ req'[p] = "track" /\ git'[p] = "open" /\ (inGit => p \in diff') /\ NoFailure
      \/ req'[p] = "unmark" /\ (Failure \/ NoFailure) /\ UNCHANGED <<git, diff>>
  BY <1>1, <1>2, TypeParts, Sorts, FinStays, OpenEffect DEF Fits, RequestsFit, RequestAt, JoinSteps, UnadoptSteps, BeforeOpen, FinSame, RequestsOK, RepoOK, TrackedOK, UnadoptOpen, Goto, Opens, repo
<1> QED BY <1>1, <1>2, <1>3, <1>4

LEMMA UnadoptTrackEffect ==
    ASSUME Fits, NEW p \in PR, UnadoptTrack(p)
    PROVE  /\ p \in UnadoptPR /\ req[p] = "track" /\ req'[p] \in {"number", "merge"}
           /\ \/ Recorded(p, "open") /\ NoFailure
              \/ UNCHANGED tracked /\ Failure
           /\ Others(p) /\ FinSame(p)
           /\ UNCHANGED <<inGit, crossed, git, diff, connection, found, marked, fin, tick, listed, number>>
<1>1. UNCHANGED <<inGit, crossed, git, diff, connection, found, marked, fin, tick, listed, number>>
  BY DEF UnadoptTrack, repo, requests, marksPass
<1>2. Others(p) /\ FinSame(p)
  BY <1>1, TypeParts, FinStays, Sorts, Record DEF Fits, RequestsOK, RepoOK, TrackedOK, Others, Same, FinSame, Goto, UnadoptTrack, repo, requests, marksPass
<1>3. p \in UnadoptPR /\ req[p] = "track" /\ req'[p] \in {"number", "merge"}
  BY <1>1, <1>2, TypeParts, Sorts, FinStays, Record DEF Fits, RequestsFit, RequestAt, JoinSteps, UnadoptSteps, BeforeOpen, FinSame, RequestsOK, RepoOK, TrackedOK, UnadoptTrack, Goto, NewEntry
<1>4. \/ Recorded(p, "open") /\ NoFailure
      \/ UNCHANGED tracked /\ Failure
  BY <1>1, <1>2, TypeParts, Sorts, FinStays, Record DEF Fits, RequestsFit, RequestAt, JoinSteps, UnadoptSteps, BeforeOpen, FinSame, RequestsOK, RepoOK, TrackedOK, UnadoptTrack, Goto, NewEntry
<1> QED BY <1>1, <1>2, <1>3, <1>4

LEMMA UnadoptMergeEffect ==
    ASSUME Fits, NEW p \in PR, UnadoptMerge(p)
    PROVE  /\ p \in UnadoptPR /\ req[p] = "merge"
           /\ \/ Merged(p) /\ req'[p] = "merged" /\ NoFailure
              \/ req'[p] = "number" /\ UNCHANGED <<git, diff, inGit, crossed>> /\ (Failure \/ (git[p] # "open" /\ NoFailure))
           /\ Others(p) /\ FinSame(p)
           /\ UNCHANGED <<connection, tracked, found, marked, fin, tick, listed, number>>
<1>1. UNCHANGED <<connection, tracked, found, marked, fin, tick, listed, number>>
  BY DEF UnadoptMerge, repo, requests, marksPass
<1>2. Others(p) /\ FinSame(p)
  BY <1>1, TypeParts, FinStays, Sorts, MergeEffect DEF Fits, RequestsOK, RepoOK, TrackedOK, Others, Same, FinSame, Goto, UnadoptMerge, repo, requests, marksPass
<1>3. p \in UnadoptPR /\ req[p] = "merge"
  BY <1>1, <1>2, TypeParts, Sorts, FinStays, MergeEffect DEF Fits, RequestsFit, RequestAt, JoinSteps, UnadoptSteps, BeforeOpen, FinSame, RequestsOK, RepoOK, TrackedOK, UnadoptMerge, Goto, repo
<1>4. \/ Merged(p) /\ req'[p] = "merged" /\ NoFailure
      \/ req'[p] = "number" /\ UNCHANGED <<git, diff, inGit, crossed>> /\ (Failure \/ (git[p] # "open" /\ NoFailure))
  BY <1>1, <1>2, TypeParts, Sorts, FinStays, MergeEffect DEF Fits, RequestsFit, RequestAt, JoinSteps, UnadoptSteps, BeforeOpen, FinSame, RequestsOK, RepoOK, TrackedOK, UnadoptMerge, Goto, repo
<1> QED BY <1>1, <1>2, <1>3, <1>4

LEMMA UnadoptNumberEffect ==
    ASSUME Fits, NEW p \in PR, UnadoptNumber(p)
    PROVE  /\ p \in UnadoptPR /\ req[p] \in {"number", "merged", "unmark"}
           /\ req'[p] = "done" /\ p \notin marked'
           /\ (req[p] = "merged" /\ RequestSet(p, "strip")) \/ (req[p] # "merged" /\ UNCHANGED fin /\ FinSame(p))
           /\ \/ UNCHANGED connection /\ NoFailure /\ (p \notin marked \/ ~Exists)
              \/ UNCHANGED connection /\ Failure /\ p \in marked
              \/ UNCHANGED connection /\ NoFailure /\ req[p] = "unmark" /\ connection.mark["keep"] \notin Unnumbered
              \/ MarkSet("keep", NoMark) /\ NoFailure /\ req[p] = "unmark" /\ connection.mark["keep"] \in Unnumbered
              \/ MarkSet("keep", p) /\ NoFailure /\ req[p] # "unmark" /\ p \in marked
           /\ Others(p)
           /\ UNCHANGED <<inGit, crossed, git, diff, tracked, found, tick, listed, number>>
<1>1. UNCHANGED <<inGit, crossed, git, diff, tracked, found, tick, listed, number>>
  BY DEF UnadoptNumber, repo, requests, marksPass
<1>2. Others(p)
  BY <1>1, TypeParts, FinStays, Sorts, UnadoptNumberWrites DEF Fits, RequestsOK, RepoOK, TrackedOK, Others, Same, FinSame, RunSet, TrackerSet, RequestSet, Goto, UnadoptNumber, repo, requests, marksPass
<1>3. p \in UnadoptPR /\ req[p] \in {"number", "merged", "unmark"}
  BY <1>1, <1>2, TypeParts, Sorts, FinStays, UnadoptNumberWrites DEF Fits, RequestsFit, RequestAt, JoinSteps, UnadoptSteps, BeforeOpen, FinSame, RequestsOK, RepoOK, TrackedOK, UnadoptNumber, Goto, HasMark
<1>4. req'[p] = "done" /\ p \notin marked'
  BY <1>1, <1>2, TypeParts, Sorts, FinStays, UnadoptNumberWrites DEF Fits, RequestsFit, RequestAt, JoinSteps, UnadoptSteps, BeforeOpen, FinSame, RequestsOK, RepoOK, TrackedOK, UnadoptNumber, Goto, HasMark
<1>5. (req[p] = "merged" /\ RequestSet(p, "strip")) \/ (req[p] # "merged" /\ UNCHANGED fin /\ FinSame(p))
  BY <1>1, <1>2, TypeParts, Sorts, FinStays, UnadoptNumberWrites DEF Fits, RequestsFit, RequestAt, JoinSteps, UnadoptSteps, BeforeOpen, FinSame, RequestsOK, RepoOK, TrackedOK, UnadoptNumber, Goto, HasMark
<1>6. \/ UNCHANGED connection /\ NoFailure /\ (p \notin marked \/ ~Exists)
      \/ UNCHANGED connection /\ Failure /\ p \in marked
      \/ UNCHANGED connection /\ NoFailure /\ req[p] = "unmark" /\ connection.mark["keep"] \notin Unnumbered
      \/ MarkSet("keep", NoMark) /\ NoFailure /\ req[p] = "unmark" /\ connection.mark["keep"] \in Unnumbered
      \/ MarkSet("keep", p) /\ NoFailure /\ req[p] # "unmark" /\ p \in marked
  BY <1>1, <1>2, TypeParts, Sorts, FinStays, UnadoptNumberWrites DEF Fits, RequestsFit, RequestAt, JoinSteps, UnadoptSteps, BeforeOpen, FinSame, RequestsOK, RepoOK, TrackedOK, UnadoptNumber, Goto, HasMark
<1> QED BY <1>1, <1>2, <1>3, <1>4, <1>5, <1>6

LEMMA TrackerSeesEffect ==
    ASSUME Fits, NEW p \in PR, TrackerSees(p)
    PROVE  /\ tracked[p] # NoEntry /\ tracked[p].status = "open" /\ git[p] # "open"
           /\ Recorded(p, git[p])
           /\ Others(p) /\ FinSame(p)
           /\ UNCHANGED <<inGit, crossed, git, diff, connection, req, found, marked, fin, tick, listed, number, failures>>
<1>1. UNCHANGED <<inGit, crossed, git, diff, connection, req, found, marked, fin, tick, listed, number, failures>>
  BY DEF TrackerSees, repo, requests, marksPass, NoFailure
<1>2. Others(p) /\ FinSame(p)
  BY <1>1, TypeParts, FinStays, Sorts, Record DEF Fits, RequestsOK, RepoOK, TrackedOK, Others, Same, FinSame, Goto, TrackerSees, repo, requests, marksPass, NoFailure
<1>3. tracked[p] # NoEntry /\ tracked[p].status = "open" /\ git[p] # "open"
  BY <1>1, <1>2, TypeParts, Sorts, FinStays, Record DEF Fits, RequestsFit, RequestAt, JoinSteps, UnadoptSteps, BeforeOpen, FinSame, RequestsOK, RepoOK, TrackedOK, TrackerSees, Goto
<1>4. Recorded(p, git[p])
  <2>1. git[p] \in {"open", "merged", "closed", "gone"}
    BY <1>3, TypeParts DEF Fits, RepoOK, UnopenedUnknown, UnopenedAt
  <2> QED BY <2>1, Record, TypeParts DEF Fits, TrackerSees
<1> QED BY <1>1, <1>2, <1>3, <1>4

LEMMA FinishStartEffect ==
    ASSUME Fits, NEW p \in PR, FinishStart(p)
    PROVE  /\ tracked[p] # NoEntry /\ ~tracked[p].gaveUp /\ TrackerStep(p) = "idle"
           /\ \/ tracked[p].status = "closed" /\ TrackerSet(p, "drop")
              \/ tracked[p].status = "gone" /\ p \in Join /\ TrackerSet(p, "drop")
              \/ tracked[p].status = "gone" /\ p \in UnadoptPR /\ TrackerSet(p, "check")
              \/ tracked[p].status = "merged" /\ p \in Join /\ TrackerSet(p, "look")
              \/ tracked[p].status = "merged" /\ p \in UnadoptPR /\ TrackerSet(p, "check")
           /\ Others(p)
           /\ UNCHANGED <<inGit, crossed, git, diff, connection, tracked, req, found, marked, tick, listed, number, failures>>
<1>1. UNCHANGED <<inGit, crossed, git, diff, connection, tracked, req, found, marked, tick, listed, number, failures>>
  BY DEF FinishStart, repo, requests, marksPass, NoFailure
<1>2. Others(p)
  BY <1>1, TypeParts, FinStays, Sorts, FinishStartWrites DEF Fits, RequestsOK, RepoOK, TrackedOK, Others, Same, FinSame, RunSet, TrackerSet, RequestSet, Goto, FinishStart, repo, requests, marksPass, NoFailure
<1>3. tracked[p] # NoEntry /\ ~tracked[p].gaveUp /\ TrackerStep(p) = "idle"
  BY <1>1, <1>2, TypeParts, Sorts, FinStays, FinishStartWrites DEF Fits, RequestsFit, RequestAt, JoinSteps, UnadoptSteps, BeforeOpen, FinSame, RequestsOK, RepoOK, TrackedOK, FinishStart, Goto
<1>4. \/ tracked[p].status = "closed" /\ TrackerSet(p, "drop")
      \/ tracked[p].status = "gone" /\ p \in Join /\ TrackerSet(p, "drop")
      \/ tracked[p].status = "gone" /\ p \in UnadoptPR /\ TrackerSet(p, "check")
      \/ tracked[p].status = "merged" /\ p \in Join /\ TrackerSet(p, "look")
      \/ tracked[p].status = "merged" /\ p \in UnadoptPR /\ TrackerSet(p, "check")
  BY <1>1, <1>2, TypeParts, Sorts, FinStays, FinishStartWrites DEF Fits, RequestsFit, RequestAt, JoinSteps, UnadoptSteps, BeforeOpen, FinSame, RequestsOK, RepoOK, TrackedOK, FinishStart, Goto
<1> QED BY <1>1, <1>2, <1>3, <1>4

LEMMA FinishLookEffect ==
    ASSUME Fits, NEW f \in Finisher, FinishLook(f)
    PROVE  /\ f[1] \in Join /\ TrackerStep(f[1]) = "look"
           /\ \/ Exists /\ TrackerSet(f[1], "swap") /\ NoFailure
              \/ ~Exists /\ TrackerSet(f[1], "done") /\ NoFailure
              \/ TrackerSet(f[1], "failed") /\ Failure
           /\ Others(f[1])
           /\ UNCHANGED <<inGit, crossed, git, diff, connection, tracked, req, found, marked, tick, listed, number>>
<1>1. UNCHANGED <<inGit, crossed, git, diff, connection, tracked, req, found, marked, tick, listed, number>>
  BY DEF FinishLook, repo, requests, marksPass
<1>2. Others(f[1])
  BY <1>1, TypeParts, FinStays, Sorts, FinishLookWrites, FinisherSorts DEF Fits, RequestsOK, RepoOK, TrackedOK, Others, Same, FinSame, RunSet, TrackerSet, RequestSet, Goto, FinishLook, repo, requests, marksPass
<1>3. f[1] \in Join /\ TrackerStep(f[1]) = "look"
  BY <1>1, <1>2, TypeParts, Sorts, FinStays, FinishLookWrites, FinisherSorts DEF Fits, RequestsFit, RequestAt, JoinSteps, UnadoptSteps, BeforeOpen, FinSame, RequestsOK, RepoOK, TrackedOK, FinishLook, Goto, RunAt
<1>4. \/ Exists /\ TrackerSet(f[1], "swap") /\ NoFailure
      \/ ~Exists /\ TrackerSet(f[1], "done") /\ NoFailure
      \/ TrackerSet(f[1], "failed") /\ Failure
  BY <1>1, <1>2, TypeParts, Sorts, FinStays, FinishLookWrites, FinisherSorts DEF Fits, RequestsFit, RequestAt, JoinSteps, UnadoptSteps, BeforeOpen, FinSame, RequestsOK, RepoOK, TrackedOK, FinishLook, Goto, RunAt
<1> QED BY <1>1, <1>2, <1>3, <1>4

LEMMA FinishSwapEffect ==
    ASSUME Fits, NEW f \in Finisher, FinishSwap(f)
    PROVE  /\ f[1] \in Join /\ TrackerStep(f[1]) = "swap"
           /\ \/ OwnerSet(TRUE, TRUE) /\ NoFailure /\ (TrackerSet(f[1], "annotate") \/ TrackerSet(f[1], "unmark"))
              \/ UNCHANGED connection /\ TrackerSet(f[1], "failed") /\ (Failure \/ (~Exists /\ NoFailure))
           /\ Others(f[1])
           /\ UNCHANGED <<inGit, crossed, git, diff, tracked, req, found, marked, tick, listed, number>>
<1>1. UNCHANGED <<inGit, crossed, git, diff, tracked, req, found, marked, tick, listed, number>>
  BY DEF FinishSwap, repo, requests, marksPass
<1>2. Others(f[1])
  BY <1>1, TypeParts, FinStays, Sorts, FinishSwapWrites, FinisherSorts DEF Fits, RequestsOK, RepoOK, TrackedOK, Others, Same, FinSame, RunSet, TrackerSet, RequestSet, Goto, FinishSwap, repo, requests, marksPass
<1>3. f[1] \in Join /\ TrackerStep(f[1]) = "swap"
  BY <1>1, <1>2, TypeParts, Sorts, FinStays, FinishSwapWrites, FinisherSorts DEF Fits, RequestsFit, RequestAt, JoinSteps, UnadoptSteps, BeforeOpen, FinSame, RequestsOK, RepoOK, TrackedOK, FinishSwap, Goto, RunAt
<1>4. \/ OwnerSet(TRUE, TRUE) /\ NoFailure /\ (TrackerSet(f[1], "annotate") \/ TrackerSet(f[1], "unmark"))
      \/ UNCHANGED connection /\ TrackerSet(f[1], "failed") /\ (Failure \/ (~Exists /\ NoFailure))
  BY <1>1, <1>2, TypeParts, Sorts, FinStays, FinishSwapWrites, FinisherSorts DEF Fits, RequestsFit, RequestAt, JoinSteps, UnadoptSteps, BeforeOpen, FinSame, RequestsOK, RepoOK, TrackedOK, FinishSwap, Goto, RunAt
<1> QED BY <1>1, <1>2, <1>3, <1>4

LEMMA FinishAnnotateEffect ==
    ASSUME Fits, NEW f \in Finisher, FinishAnnotate(f)
    PROVE  /\ f[1] \in Join /\ TrackerStep(f[1]) = "annotate"
           /\ \/ OwnerSet(connection.managed, TRUE) /\ TrackerSet(f[1], "unmark") /\ NoFailure
              \/ UNCHANGED connection /\ TrackerSet(f[1], "failed") /\ (Failure \/ (~Exists /\ NoFailure))
           /\ Others(f[1])
           /\ UNCHANGED <<inGit, crossed, git, diff, tracked, req, found, marked, tick, listed, number>>
<1>1. UNCHANGED <<inGit, crossed, git, diff, tracked, req, found, marked, tick, listed, number>>
  BY DEF FinishAnnotate, repo, requests, marksPass
<1>2. Others(f[1])
  BY <1>1, TypeParts, FinStays, Sorts, FinishAnnotateWrites, FinisherSorts DEF Fits, RequestsOK, RepoOK, TrackedOK, Others, Same, FinSame, RunSet, TrackerSet, RequestSet, Goto, FinishAnnotate, repo, requests, marksPass
<1>3. f[1] \in Join /\ TrackerStep(f[1]) = "annotate"
  BY <1>1, <1>2, TypeParts, Sorts, FinStays, FinishAnnotateWrites, FinisherSorts DEF Fits, RequestsFit, RequestAt, JoinSteps, UnadoptSteps, BeforeOpen, FinSame, RequestsOK, RepoOK, TrackedOK, FinishAnnotate, Goto, RunAt
<1>4. \/ OwnerSet(connection.managed, TRUE) /\ TrackerSet(f[1], "unmark") /\ NoFailure
      \/ UNCHANGED connection /\ TrackerSet(f[1], "failed") /\ (Failure \/ (~Exists /\ NoFailure))
  BY <1>1, <1>2, TypeParts, Sorts, FinStays, FinishAnnotateWrites, FinisherSorts DEF Fits, RequestsFit, RequestAt, JoinSteps, UnadoptSteps, BeforeOpen, FinSame, RequestsOK, RepoOK, TrackedOK, FinishAnnotate, Goto, RunAt
<1> QED BY <1>1, <1>2, <1>3, <1>4

LEMMA FinishCheckEffect ==
    ASSUME Fits, NEW f \in Finisher, FinishCheck(f)
    PROVE  /\ f[1] \in UnadoptPR /\ TrackerStep(f[1]) = "check"
           /\ \/ inGit /\ TrackerSet(f[1], "drop") /\ NoFailure
              \/ ~inGit /\ TrackerSet(f[1], "strip") /\ NoFailure
              \/ TrackerSet(f[1], "failed") /\ Failure
           /\ Others(f[1])
           /\ UNCHANGED <<inGit, crossed, git, diff, connection, tracked, req, found, marked, tick, listed, number>>
<1>1. UNCHANGED <<inGit, crossed, git, diff, connection, tracked, req, found, marked, tick, listed, number>>
  BY DEF FinishCheck, repo, requests, marksPass
<1>2. Others(f[1])
  BY <1>1, TypeParts, FinStays, Sorts, FinishCheckWrites, FinisherSorts DEF Fits, RequestsOK, RepoOK, TrackedOK, Others, Same, FinSame, RunSet, TrackerSet, RequestSet, Goto, FinishCheck, repo, requests, marksPass
<1>3. f[1] \in UnadoptPR /\ TrackerStep(f[1]) = "check"
  BY <1>1, <1>2, TypeParts, Sorts, FinStays, FinishCheckWrites, FinisherSorts DEF Fits, RequestsFit, RequestAt, JoinSteps, UnadoptSteps, BeforeOpen, FinSame, RequestsOK, RepoOK, TrackedOK, FinishCheck, Goto, RunAt
<1>4. \/ inGit /\ TrackerSet(f[1], "drop") /\ NoFailure
      \/ ~inGit /\ TrackerSet(f[1], "strip") /\ NoFailure
      \/ TrackerSet(f[1], "failed") /\ Failure
  BY <1>1, <1>2, TypeParts, Sorts, FinStays, FinishCheckWrites, FinisherSorts DEF Fits, RequestsFit, RequestAt, JoinSteps, UnadoptSteps, BeforeOpen, FinSame, RequestsOK, RepoOK, TrackedOK, FinishCheck, Goto, RunAt
<1> QED BY <1>1, <1>2, <1>3, <1>4

LEMMA FinishStripEffect ==
    ASSUME Fits, NEW f \in Finisher, FinishStrip(f)
    PROVE  /\ f[1] \in UnadoptPR /\ RunAt(f, "strip")
           /\ \/ OwnerSet(FALSE, FALSE) /\ RunSet(f, IF git[f[1]] = "none" THEN "done" ELSE "unmark") /\ NoFailure
              \/ UNCHANGED connection /\ RunSet(f, "failed") /\ (Failure \/ (~Exists /\ NoFailure))
           /\ Others(f[1])
           /\ UNCHANGED <<inGit, crossed, git, diff, tracked, req, found, marked, tick, listed, number>>
<1>1. UNCHANGED <<inGit, crossed, git, diff, tracked, req, found, marked, tick, listed, number>>
  BY DEF FinishStrip, repo, requests, marksPass
<1>2. Others(f[1])
  <2>1. \A q \in PR : q # f[1] => FinSame(q)
    BY FinishStripWrites, RunOthers, FinisherSorts
  <2> QED BY <1>1, <2>1 DEF Others, Same
<1>3. f[1] \in UnadoptPR /\ RunAt(f, "strip")
  BY <1>1, <1>2, TypeParts, Sorts, FinStays, FinishStripWrites, RunOthers, FinisherSorts DEF Fits, RequestsFit, RequestAt, JoinSteps, UnadoptSteps, BeforeOpen, FinSame, RequestsOK, RepoOK, TrackedOK, FinishStrip, Goto, RunSet, RunAt
<1>4. \/ OwnerSet(FALSE, FALSE) /\ RunSet(f, IF git[f[1]] = "none" THEN "done" ELSE "unmark") /\ NoFailure
      \/ UNCHANGED connection /\ RunSet(f, "failed") /\ (Failure \/ (~Exists /\ NoFailure))
  BY <1>1, <1>2, TypeParts, Sorts, FinStays, FinishStripWrites, RunOthers, FinisherSorts DEF Fits, RequestsFit, RequestAt, JoinSteps, UnadoptSteps, BeforeOpen, FinSame, RequestsOK, RepoOK, TrackedOK, FinishStrip, Goto, RunSet, RunAt
<1> QED BY <1>1, <1>2, <1>3, <1>4

LEMMA FinishUnmarkEffect ==
    ASSUME Fits, NEW f \in Finisher, FinishUnmark(f)
    PROVE  /\ f[1] \in PR /\ (RunAt(f, "unmark") \/ RunAt(f, "drop"))
           /\ \/ MarkSet(Key(f[1]), NoMark) /\ connection.mark[Key(f[1])] = f[1] /\ RunSet(f, "done") /\ NoFailure
              \/ UNCHANGED connection /\ (~Exists \/ connection.mark[Key(f[1])] # f[1]) /\ RunSet(f, "done") /\ NoFailure
              \/ UNCHANGED connection /\ (RunSet(f, "done") \/ RunSet(f, "failed")) /\ Failure
           /\ Others(f[1])
           /\ UNCHANGED <<inGit, crossed, git, diff, tracked, req, found, marked, tick, listed, number>>
<1>1. UNCHANGED <<inGit, crossed, git, diff, tracked, req, found, marked, tick, listed, number>>
  BY DEF FinishUnmark, repo, requests, marksPass
<1>2. Others(f[1])
  <2>1. \A q \in PR : q # f[1] => FinSame(q)
    BY FinishUnmarkWrites, RunOthers, FinisherSorts
  <2> QED BY <1>1, <2>1 DEF Others, Same
<1>3. f[1] \in PR /\ (RunAt(f, "unmark") \/ RunAt(f, "drop"))
  BY <1>1, <1>2, TypeParts, Sorts, FinStays, FinishUnmarkWrites, RunOthers, FinisherSorts DEF Fits, RequestsFit, RequestAt, JoinSteps, UnadoptSteps, BeforeOpen, FinSame, RequestsOK, RepoOK, TrackedOK, FinishUnmark, Goto, HasMark, RunSet, RunAt
<1>4. \/ MarkSet(Key(f[1]), NoMark) /\ connection.mark[Key(f[1])] = f[1] /\ RunSet(f, "done") /\ NoFailure
      \/ UNCHANGED connection /\ (~Exists \/ connection.mark[Key(f[1])] # f[1]) /\ RunSet(f, "done") /\ NoFailure
      \/ UNCHANGED connection /\ (RunSet(f, "done") \/ RunSet(f, "failed")) /\ Failure
  BY <1>1, <1>2, TypeParts, Sorts, FinStays, FinishUnmarkWrites, RunOthers, FinisherSorts DEF Fits, RequestsFit, RequestAt, JoinSteps, UnadoptSteps, BeforeOpen, FinSame, RequestsOK, RepoOK, TrackedOK, FinishUnmark, Goto, HasMark, RunSet, RunAt
<1> QED BY <1>1, <1>2, <1>3, <1>4

LEMMA FinishSettleEffect ==
    ASSUME Fits, NEW f \in Finisher, FinishSettle(f)
    PROVE  /\ f[1] \in PR /\ (RunAt(f, "done") \/ RunAt(f, "failed")) /\ RunSet(f, "idle")
           /\ \/ UNCHANGED tracked /\ (NoFailure /\ (f[2] = "request" \/ tracked[f[1]] = NoEntry))
              \/ UNCHANGED tracked /\ Failure /\ f[2] = "tracker"
              \/ f[2] = "tracker" /\ NoFailure /\ tracked[f[1]] # NoEntry /\ tracked'[f[1]] = NoEntry /\ RunAt(f, "done")
              \/ f[2] = "tracker" /\ NoFailure /\ tracked[f[1]] # NoEntry /\ tracked'[f[1]] # NoEntry
                 /\ tracked'[f[1]].status = tracked[f[1]].status /\ RunAt(f, "failed")
           /\ Others(f[1])
           /\ UNCHANGED <<inGit, crossed, git, diff, connection, req, found, marked, tick, listed, number>>
<1>1. UNCHANGED <<inGit, crossed, git, diff, connection, req, found, marked, tick, listed, number>>
  BY DEF FinishSettle, repo, requests, marksPass
<1>2. Others(f[1])
  <2>1. \A q \in PR : q # f[1] => FinSame(q)
    BY FinishSettleWrites, RunOthers, FinisherSorts
  <2>2. \A q \in PR : q # f[1] => tracked'[q] = tracked[q]
    <3>1. CASE tracked' = [tracked EXCEPT ![f[1]] = NoEntry]
      BY <3>1, TypeParts DEF Fits, TrackedOK
    <3>2. CASE \E g \in BOOLEAN : tracked' = [tracked EXCEPT ![f[1]].gaveUp = g]
      BY <3>2, TypeParts DEF Fits, TrackedOK
    <3> QED BY <3>1, <3>2, FinishSettleWrites
  <2> QED BY <1>1, <2>1, <2>2 DEF Others, Same
<1>3. f[1] \in PR /\ (RunAt(f, "done") \/ RunAt(f, "failed")) /\ RunSet(f, "idle")
  BY <1>1, <1>2, TypeParts, Sorts, FinStays, FinishSettleWrites, RunOthers, Forgotten, Retried, FinisherSorts DEF Fits, RequestsFit, RequestAt, JoinSteps, UnadoptSteps, BeforeOpen, FinSame, RequestsOK, RepoOK, TrackedOK, FinishSettle, Goto, RunSet, RunAt
<1>4. \/ UNCHANGED tracked /\ (NoFailure /\ (f[2] = "request" \/ tracked[f[1]] = NoEntry))
      \/ UNCHANGED tracked /\ Failure /\ f[2] = "tracker"
      \/ f[2] = "tracker" /\ NoFailure /\ tracked[f[1]] # NoEntry /\ tracked'[f[1]] = NoEntry /\ RunAt(f, "done")
      \/ f[2] = "tracker" /\ NoFailure /\ tracked[f[1]] # NoEntry /\ tracked'[f[1]] # NoEntry
         /\ tracked'[f[1]].status = tracked[f[1]].status /\ RunAt(f, "failed")
  <2>1. f[1] \in PR /\ (f[2] = "tracker" => fin[f] = TrackerStep(f[1]))
    BY FinisherSorts
  <2>2. CASE UNCHANGED tracked /\ NoFailure /\ (f[2] = "request" \/ tracked[f[1]] = NoEntry)
    BY <2>2
  <2>3. CASE UNCHANGED tracked /\ Failure /\ f[2] = "tracker"
    BY <2>3
  <2>4. CASE /\ fin[f] = "done" /\ tracked' = [tracked EXCEPT ![f[1]] = NoEntry]
             /\ f[2] = "tracker" /\ tracked[f[1]] # NoEntry /\ NoFailure
    BY <2>1, <2>4, Forgotten, TypeParts DEF Fits, RunAt
  <2>5. CASE /\ fin[f] = "failed" /\ f[2] = "tracker" /\ tracked[f[1]] # NoEntry /\ NoFailure
             /\ \E g \in BOOLEAN : tracked' = [tracked EXCEPT ![f[1]].gaveUp = g]
    BY <2>1, <2>5, Retried, TypeParts DEF Fits, RunAt
  <2> QED BY <2>2, <2>3, <2>4, <2>5, FinishSettleWrites
<1> QED BY <1>1, <1>2, <1>3, <1>4

LEMMA GaveUpEndsEffect ==
    ASSUME Fits, NEW p \in PR, GaveUpEnds(p)
    PROVE  /\ tracked[p] # NoEntry /\ tracked[p].gaveUp /\ tracked'[p] = NoEntry
           /\ \A q \in PR : TrackerStep(q) = "idle" /\ RequestStep(q) = "idle"
           /\ \A q \in PR : tracked[q] # NoEntry => tracked[q].gaveUp \/ tracked[q].status = "open"
           /\ ~HasMark("keep", Unnumbered)
           /\ Others(p) /\ FinSame(p)
           /\ UNCHANGED <<inGit, crossed, git, diff, connection, req, found, marked, fin, tick, listed, number, failures>>
<1>1. UNCHANGED <<inGit, crossed, git, diff, connection, req, found, marked, fin, tick, listed, number, failures>>
  BY DEF GaveUpEnds, repo, requests, marksPass, NoFailure
<1>2. Others(p) /\ FinSame(p)
  BY <1>1, TypeParts, FinStays, Sorts, Forgotten DEF Fits, RequestsOK, RepoOK, TrackedOK, Others, Same, FinSame, Goto, GaveUpEnds, repo, requests, marksPass, NoFailure
<1>3. tracked[p] # NoEntry /\ tracked[p].gaveUp /\ tracked'[p] = NoEntry
  BY <1>1, <1>2, TypeParts, Sorts, FinStays, Forgotten DEF Fits, RequestsFit, RequestAt, JoinSteps, UnadoptSteps, BeforeOpen, FinSame, RequestsOK, RepoOK, TrackedOK, GaveUpEnds, Goto, Finisher, TrackerStep, RequestStep
<1>4. \A q \in PR : TrackerStep(q) = "idle" /\ RequestStep(q) = "idle"
  BY <1>1, <1>2, TypeParts, Sorts, FinStays, Forgotten DEF Fits, RequestsFit, RequestAt, JoinSteps, UnadoptSteps, BeforeOpen, FinSame, RequestsOK, RepoOK, TrackedOK, GaveUpEnds, Goto, Finisher, TrackerStep, RequestStep
<1>5. \A q \in PR : tracked[q] # NoEntry => tracked[q].gaveUp \/ tracked[q].status = "open"
  BY <1>1, <1>2, TypeParts, Sorts, FinStays, Forgotten DEF Fits, RequestsFit, RequestAt, JoinSteps, UnadoptSteps, BeforeOpen, FinSame, RequestsOK, RepoOK, TrackedOK, GaveUpEnds, Goto, Finisher, TrackerStep, RequestStep
<1>6. ~HasMark("keep", Unnumbered)
  BY <1>1, <1>2, TypeParts, Sorts, FinStays, Forgotten DEF Fits, RequestsFit, RequestAt, JoinSteps, UnadoptSteps, BeforeOpen, FinSame, RequestsOK, RepoOK, TrackedOK, GaveUpEnds, Goto, Finisher, TrackerStep, RequestStep
<1> QED BY <1>1, <1>2, <1>3, <1>4, <1>5, <1>6

LEMMA MarksListEffect ==
    ASSUME Fits, MarksList
    PROVE  /\ tick = "idle" /\ tick' = "pass" /\ number' = NoPR /\ Exists
           /\ \A k \in Keys : listed'[k] = IF connection.mark[k] = Pending THEN NoMark ELSE connection.mark[k]
           /\ \A q \in PR : Same(q)
           /\ UNCHANGED <<inGit, crossed, git, diff, connection, tracked, req, found, marked, fin, failures>>
<1>1. UNCHANGED <<inGit, crossed, git, diff, connection, tracked, req, found, marked, fin, failures>>
  BY DEF MarksList, repo, requests, marksPass, PassGoto, NoFailure
<1>2. \A q \in PR : Same(q)
  BY <1>1, FinStays DEF Same, FinSame
<1>3. tick = "idle" /\ tick' = "pass" /\ number' = NoPR /\ Exists
  BY <1>1, <1>2, TypeParts, Sorts, FinStays DEF Fits, RequestsFit, RequestAt, JoinSteps, UnadoptSteps, BeforeOpen, FinSame, RequestsOK, RepoOK, TrackedOK, MarksList, Goto, PassGoto, ConnectionOK, Exists, Secret, Keys
<1>4. \A k \in Keys : listed'[k] = IF connection.mark[k] = Pending THEN NoMark ELSE connection.mark[k]
  BY <1>1, <1>2, TypeParts, Sorts, FinStays DEF Fits, RequestsFit, RequestAt, JoinSteps, UnadoptSteps, BeforeOpen, FinSame, RequestsOK, RepoOK, TrackedOK, MarksList, Goto, PassGoto, ConnectionOK, Exists, Secret, Keys
<1> QED BY <1>1, <1>2, <1>3, <1>4

LEMMA MarksTrackEffect ==
    ASSUME Fits, MarksTrack
    PROVE  /\ UNCHANGED <<inGit, crossed, git, diff, connection, req, found, marked, fin>>
           /\ tick = "pass" /\ tick' \in {"idle", "pass"} /\ number' = NoPR
           /\ tick' = "idle" => listed' = Nothing
           /\ \E p \in PR :
                /\ listed[Key(p)] = p /\ git[p] # "none"
                /\ listed'[Key(p)] = NoMark /\ \A l \in Keys \ {Key(p)} : listed'[l] = listed[l]
                /\ Others(p) /\ FinSame(p)
                /\ \/ tracked[p] = NoEntry /\ NoFailure /\ Recorded(p, git[p])
                   \/ UNCHANGED tracked /\ tracked[p] # NoEntry /\ NoFailure
                   \/ UNCHANGED tracked /\ Failure
<1>1. UNCHANGED <<inGit, crossed, git, diff, connection, req, found, marked, fin>>
  BY DEF MarksTrack, repo, requests
<1> PICK k \in DOMAIN listed :
           /\ Turn(k) /\ listed[k] \in PR
           /\ PassGoto(Step(Left(k)), Left(k))
           /\ \/ /\ tracked[listed[k]] = NoEntry /\ NoFailure
                 /\ tracked' = [tracked EXCEPT ![listed[k]] = [status |-> git[listed[k]], gaveUp |-> FALSE]]
              \/ ((tracked[listed[k]] # NoEntry /\ NoFailure) \/ Failure) /\ UNCHANGED tracked
  BY DEF MarksTrack
<1>2. k \in Keys /\ PassOK
  BY TypeParts DEF Fits, PassOK, Keys
<1>3. tick = "pass" /\ number' = NoPR /\ listed' = Left(k) /\ tick' = Step(Left(k))
  BY DEF Turn, PassGoto
<1>4. tick' \in {"idle", "pass"} /\ (tick' = "idle" => listed' = Nothing)
  BY <1>3 DEF Step
<1>5. listed'[k] = NoMark /\ \A l \in Keys \ {k} : listed'[l] = listed[l]
  BY <1>2, <1>3 DEF PassOK, Left, Keys
<1> PICK p \in PR : p = listed[k]
  OBVIOUS
<1>6. Key(p) = k /\ listed[Key(p)] = p
  BY <1>2, Sorts, KeySorts, AdoptionConstants DEF Fits, MarksFit, Keys, Unnumbered
<1>7. git[p] \in {"open", "merged", "closed", "gone"}
  BY <1>6, TypeParts DEF Fits, RepoOK, UnopenedUnknown, UnopenedAt
<1>8. CASE /\ tracked[p] = NoEntry /\ NoFailure
           /\ tracked' = [tracked EXCEPT ![p] = [status |-> git[p], gaveUp |-> FALSE]]
  <2>1. Recorded(p, git[p]) /\ \A q \in PR : q # p => tracked'[q] = tracked[q]
    BY <1>6, <1>7, <1>8, Record, TypeParts DEF Fits
  <2>2. Others(p) /\ FinSame(p)
    BY <1>1, <1>6, <2>1, FinStays DEF Others, Same, FinSame
  <2> QED BY <1>1, <1>2, <1>3, <1>4, <1>5, <1>6, <1>7, <1>8, <2>1, <2>2
<1>9. CASE UNCHANGED tracked /\ ((tracked[p] # NoEntry /\ NoFailure) \/ Failure)
  <2>1. Others(p) /\ FinSame(p)
    BY <1>1, <1>6, <1>9, FinStays DEF Others, Same, FinSame
  <2> QED BY <1>1, <1>2, <1>3, <1>4, <1>5, <1>6, <1>7, <1>9, <2>1
<1> QED BY <1>8, <1>9

LEMMA MarksSettleEffect ==
    ASSUME Fits, MarksSettle
    PROVE  /\ tick = "pass" /\ listed["keep"] = OldPending
           /\ listed' = Nothing
           /\ \/ number' \in UnadoptPR /\ tracked[number'] # NoEntry /\ tick' = "setNumber" /\ NoFailure
              \/ number' = NoPR /\ inGit /\ tick' = "takeOff" /\ NoFailure
                 /\ \A u \in UnadoptPR : tracked[u] = NoEntry
              \/ number' = NoPR /\ ~inGit /\ tick' = "giveBack" /\ NoFailure
                 /\ \A u \in UnadoptPR : tracked[u] = NoEntry
              \/ number' = NoPR /\ tick' = "idle" /\ Failure
           /\ \A q \in PR : Same(q)
           /\ UNCHANGED <<inGit, crossed, git, diff, connection, tracked, req, found, marked, fin>>
<1>1. UNCHANGED <<inGit, crossed, git, diff, connection, tracked, req, found, marked, fin>>
  BY DEF MarksSettle, repo, requests, marksPass, PassGoto
<1>2. \A q \in PR : Same(q)
  BY <1>1, FinStays DEF Same, FinSame
<1>3. tick = "pass" /\ listed["keep"] = OldPending
  BY <1>1, <1>2, TypeParts, Sorts, FinStays DEF Fits, RequestsFit, RequestAt, JoinSteps, UnadoptSteps, BeforeOpen, FinSame, RequestsOK, RepoOK, TrackedOK, MarksSettle, Goto, PassGoto, Turn
<1>4. listed' = Nothing
  BY <1>1, <1>2, TypeParts, Sorts, FinStays DEF Fits, RequestsFit, RequestAt, JoinSteps, UnadoptSteps, BeforeOpen, FinSame, RequestsOK, RepoOK, TrackedOK, MarksSettle, Goto, PassGoto, Turn
<1>5. \/ number' \in UnadoptPR /\ tracked[number'] # NoEntry /\ tick' = "setNumber" /\ NoFailure
      \/ number' = NoPR /\ inGit /\ tick' = "takeOff" /\ NoFailure
         /\ \A u \in UnadoptPR : tracked[u] = NoEntry
      \/ number' = NoPR /\ ~inGit /\ tick' = "giveBack" /\ NoFailure
         /\ \A u \in UnadoptPR : tracked[u] = NoEntry
      \/ number' = NoPR /\ tick' = "idle" /\ Failure
  BY <1>1, <1>2, TypeParts, Sorts, FinStays DEF Fits, RequestsFit, RequestAt, JoinSteps, UnadoptSteps, BeforeOpen, FinSame, RequestsOK, RepoOK, TrackedOK, MarksSettle, Goto, PassGoto, Turn
<1> QED BY <1>1, <1>2, <1>3, <1>4, <1>5

LEMMA MarksWriteEffect ==
    ASSUME Fits, MarksWrite
    PROVE  /\ tick' = "idle" /\ listed' = Nothing /\ number' = NoPR
           /\ \/ UNCHANGED connection /\ tick \in {"setNumber", "takeOff", "giveBack"} /\ (Failure \/ (NoFailure /\ (~Exists \/ connection.mark["keep"] \notin Unnumbered)))
              \/ tick = "takeOff" /\ connection.mark["keep"] \in Unnumbered /\ MarkSet("keep", NoMark) /\ NoFailure
              \/ tick = "setNumber" /\ number \in UnadoptPR /\ connection.mark["keep"] \in Unnumbered
                 /\ MarkSet("keep", number) /\ NoFailure
              \/ tick = "giveBack" /\ GivenBack /\ NoFailure
           /\ \A q \in PR : Same(q)
           /\ UNCHANGED <<inGit, crossed, git, diff, tracked, req, found, marked, fin>>
<1>1. UNCHANGED <<inGit, crossed, git, diff, tracked, req, found, marked, fin>>
  BY DEF MarksWrite, repo, requests, marksPass, PassGoto
<1>2. \A q \in PR : Same(q)
  BY <1>1, FinStays DEF Same, FinSame
<1>3. tick' = "idle" /\ listed' = Nothing /\ number' = NoPR
  BY <1>1, <1>2, TypeParts, Sorts, FinStays, MarksWriteWrites DEF Fits, RequestsFit, RequestAt, JoinSteps, UnadoptSteps, BeforeOpen, FinSame, RequestsOK, RepoOK, TrackedOK, MarksWrite, Goto, HasMark, PassGoto, Exists, ConnectionOK
<1>4. \/ UNCHANGED connection /\ tick \in {"setNumber", "takeOff", "giveBack"} /\ (Failure \/ (NoFailure /\ (~Exists \/ connection.mark["keep"] \notin Unnumbered)))
      \/ tick = "takeOff" /\ connection.mark["keep"] \in Unnumbered /\ MarkSet("keep", NoMark) /\ NoFailure
      \/ tick = "setNumber" /\ number \in UnadoptPR /\ connection.mark["keep"] \in Unnumbered
         /\ MarkSet("keep", number) /\ NoFailure
      \/ tick = "giveBack" /\ GivenBack /\ NoFailure
  BY <1>1, <1>2, TypeParts, Sorts, FinStays, MarksWriteWrites DEF Fits, RequestsFit, RequestAt, JoinSteps, UnadoptSteps, BeforeOpen, FinSame, RequestsOK, RepoOK, TrackedOK, MarksWrite, Goto, HasMark, PassGoto, Exists, ConnectionOK
<1> QED BY <1>1, <1>2, <1>3, <1>4

LEMMA PersonMergesEffect ==
    ASSUME Fits, NEW p \in PR, PersonMerges(p)
    PROVE  /\ Merged(p)
           /\ Others(p) /\ FinSame(p)
           /\ UNCHANGED <<connection, tracked, req, found, marked, fin, tick, listed, number, failures>>
<1>1. UNCHANGED <<connection, tracked, req, found, marked, fin, tick, listed, number, failures>>
  BY DEF PersonMerges, repo, requests, marksPass, NoFailure
<1>2. Others(p) /\ FinSame(p)
  BY <1>1, TypeParts, FinStays, Sorts, MergeEffect DEF Fits, RequestsOK, RepoOK, TrackedOK, Others, Same, FinSame, Goto, PersonMerges, repo, requests, marksPass, NoFailure
<1>3. Merged(p)
  BY <1>1, <1>2, TypeParts, Sorts, FinStays, MergeEffect DEF Fits, RequestsFit, RequestAt, JoinSteps, UnadoptSteps, BeforeOpen, FinSame, RequestsOK, RepoOK, TrackedOK, PersonMerges, Goto
<1> QED BY <1>1, <1>2, <1>3

LEMMA PersonClosesEffect ==
    ASSUME Fits, NEW p \in PR, PersonCloses(p)
    PROVE  /\ p \notin diff'
           /\ \/ git[p] = "open" /\ git'[p] = "closed"
              \/ git[p] = "merged" /\ git'[p] = "gone" /\ p \in UnadoptPR
           /\ Others(p) /\ FinSame(p)
           /\ UNCHANGED <<inGit, crossed, connection, tracked, req, found, marked, fin, tick, listed, number, failures>>
<1>1. UNCHANGED <<inGit, crossed, connection, tracked, req, found, marked, fin, tick, listed, number, failures>>
  BY DEF PersonCloses, repo, requests, marksPass, NoFailure
<1>2. Others(p) /\ FinSame(p)
  BY <1>1, TypeParts, FinStays, Sorts DEF Fits, RequestsOK, RepoOK, TrackedOK, Others, Same, FinSame, Goto, PersonCloses, repo, requests, marksPass, NoFailure
<1>3. p \notin diff'
  BY <1>1, <1>2, TypeParts, Sorts, FinStays DEF Fits, RequestsFit, RequestAt, JoinSteps, UnadoptSteps, BeforeOpen, FinSame, RequestsOK, RepoOK, TrackedOK, PersonCloses, Goto
<1>4. \/ git[p] = "open" /\ git'[p] = "closed"
      \/ git[p] = "merged" /\ git'[p] = "gone" /\ p \in UnadoptPR
  BY <1>1, <1>2, TypeParts, Sorts, FinStays DEF Fits, RequestsFit, RequestAt, JoinSteps, UnadoptSteps, BeforeOpen, FinSame, RequestsOK, RepoOK, TrackedOK, PersonCloses, Goto
<1> QED BY <1>1, <1>2, <1>3, <1>4

LEMMA PersonDeletesEffect ==
    ASSUME Fits, PersonDeletes
    PROVE  /\ Exists /\ ~Exists'
           /\ \A q \in PR : Same(q)
           /\ UNCHANGED <<inGit, crossed, git, diff, tracked, req, found, marked, fin, tick, listed, number, failures>>
<1>1. UNCHANGED <<inGit, crossed, git, diff, tracked, req, found, marked, fin, tick, listed, number, failures>>
  BY DEF PersonDeletes, repo, requests, marksPass, NoFailure
<1>2. \A q \in PR : Same(q)
  BY <1>1, FinStays DEF Same, FinSame
<1>3. Exists /\ ~Exists'
  BY <1>1, <1>2, TypeParts, Sorts, FinStays DEF Fits, RequestsFit, RequestAt, JoinSteps, UnadoptSteps, BeforeOpen, FinSame, RequestsOK, RepoOK, TrackedOK, PersonDeletes, Goto, Exists
<1> QED BY <1>1, <1>2, <1>3

LEMMA MarkAgesEffect ==
    ASSUME Fits, MarkAges
    PROVE  /\ connection.mark["keep"] = Pending /\ MarkSet("keep", OldPending)
           /\ \A u \in UnadoptPR : ~Running(u)
           /\ \A q \in PR : Same(q)
           /\ UNCHANGED <<inGit, crossed, git, diff, tracked, req, found, marked, fin, tick, listed, number, failures>>
<1>1. UNCHANGED <<inGit, crossed, git, diff, tracked, req, found, marked, fin, tick, listed, number, failures>>
  BY DEF MarkAges, repo, requests, marksPass, NoFailure
<1>2. \A q \in PR : Same(q)
  BY <1>1, FinStays DEF Same, FinSame
<1>3. connection.mark["keep"] = Pending /\ MarkSet("keep", OldPending)
  BY <1>1, <1>2, TypeParts, Sorts, FinStays, MarkAgesWrites DEF Fits, RequestsFit, RequestAt, JoinSteps, UnadoptSteps, BeforeOpen, FinSame, RequestsOK, RepoOK, TrackedOK, MarkAges, Goto, HasMark
<1>4. \A u \in UnadoptPR : ~Running(u)
  BY <1>1, <1>2, TypeParts, Sorts, FinStays, MarkAgesWrites DEF Fits, RequestsFit, RequestAt, JoinSteps, UnadoptSteps, BeforeOpen, FinSame, RequestsOK, RepoOK, TrackedOK, MarkAges, Goto, HasMark
<1> QED BY <1>1, <1>2, <1>3, <1>4

LEMMA ServerRestartsEffect ==
    ASSUME Fits, ServerRestarts
    PROVE  /\ UNCHANGED <<inGit, crossed, git, diff, connection, tracked>> /\ Failure
           /\ \A q \in PR : /\ req'[q] = IF req[q] = "idle" THEN "idle" ELSE "done"
                            /\ TrackerStep(q)' = "idle" /\ RequestStep(q)' = "idle"
           /\ \A q \in Join : found'[q] = NoPR
           /\ marked' = {} /\ tick' = "idle" /\ listed' = Nothing /\ number' = NoPR
  BY Sorts DEF ServerRestarts, repo, PassGoto, Finisher, TrackerStep, RequestStep

LEMMA SameRequest == ASSUME NEW q \in PR, RequestAt(q), Same(q) PROVE RequestAt(q)'
  BY Sorts DEF RequestAt, Same, Finished

LEMMA SameEntry == ASSUME NEW q \in PR, EntryAt(q), Same(q) PROVE EntryAt(q)'
  BY DEF EntryAt, Same, Finished

LEMMA SameFin == ASSUME NEW q \in PR, FinAt(q), Same(q) PROVE FinAt(q)'
  BY DEF FinAt, Same, FinSame, Finished

LEMMA SameUnopened ==
    ASSUME NEW q \in PR, UnopenedAt(q), Same(q), listed'[Key(q)] # q \/ listed'[Key(q)] = listed[Key(q)],
           number' # q \/ number' = number,
           Exists' => Exists /\ (\/ connection'.mark[Key(q)] # q
                                 \/ connection'.mark[Key(q)] = connection.mark[Key(q)])
    PROVE  UnopenedAt(q)'
  BY DEF UnopenedAt, Same, FinSame

LEMMA OwnerKeepsMarks ==
    ASSUME MarksFit, NEW m, NEW a, OwnerSet(m, a), UNCHANGED <<listed, tick, number>>
    PROVE  MarksFit'
  BY Sorts DEF MarksFit, OwnerSet, Exists, Keys, Nothing

LEMMA OwnerKeepsUnopened ==
    ASSUME NEW p \in PR, UnopenedAt(p), UNCHANGED <<git, tracked, listed, number>>,
           TrackerStep(p)' = TrackerStep(p) \/ git[p] # "none",
           UNCHANGED connection \/ \E m, a : OwnerSet(m, a)
    PROVE  UnopenedAt(p)'
<1> SUFFICES ASSUME git[p] = "none" PROVE UnopenedAt(p)'
  BY DEF UnopenedAt
<1>1. Exists' => Exists /\ connection'.mark[Key(p)] = connection.mark[Key(p)]
  <2>1. CASE UNCHANGED connection
    BY <2>1 DEF Exists
  <2>2. ASSUME NEW m, NEW a, OwnerSet(m, a)
        PROVE  Exists /\ connection'.mark[Key(p)] = connection.mark[Key(p)]
    BY <2>2, Sorts, KeySorts DEF OwnerSet, Exists
  <2> QED BY <2>1, <2>2
<1> QED BY <1>1 DEF UnopenedAt

LEMMA PutMarkCrosses == ASSUME NEW p, PutMark(p) PROVE crossed' \in BOOLEAN
  BY Zenon DEF PutMark

LEMMA JoinPreflightFits ==
    ASSUME Fits, NEW p \in PR, JoinPreflight(p) PROVE Fits'
<1>1. AdoptionTypeOK'
  <2>1. RepoOK' /\ ConnectionOK' /\ TrackedOK' /\ FinOK' /\ PassOK' /\ FailuresOK'
    BY JoinPreflightEffect, TypeParts DEF Fits, RepoOK, ConnectionOK, TrackedOK, FinOK, PassOK, FailuresOK, NoFailure
  <2>2. RequestsOK'
    BY TypeParts, Sorts, JoinPreflightEffect DEF Fits, RequestsOK, JoinPreflight, Goto, repo, requests, marksPass, ReqSteps
  <2> QED BY <2>1, <2>2, TypesNext
<1>2. RequestsFit'
  <2>1. ASSUME NEW q \in PR, q # p PROVE RequestAt(q)'
    <3>1. RequestAt(q) /\ Same(q)
      BY <2>1, JoinPreflightEffect DEF Fits, RequestsFit, Others
    <3> QED BY <3>1, JoinPreflightEffect, SameRequest
  <2>2. RequestAt(p)'
    <3>1. p \in PR /\ RequestAt(p)
      BY JoinPreflightEffect, Sorts DEF Fits, RequestsFit
    <3> QED BY <3>1, JoinPreflightEffect, Sorts, KeySorts, TypeParts, FinStays DEF Fits, RequestAt, JoinSteps, UnadoptSteps, BeforeOpen, Finished, RepoOK, RequestsOK, FinSame
  <2> QED BY <2>1, <2>2 DEF RequestsFit
<1>3. FinFit'
  <2>1. ASSUME NEW q \in PR, q # p PROVE FinAt(q)'
    <3>1. FinAt(q) /\ Same(q)
      BY <2>1, JoinPreflightEffect DEF Fits, FinFit, Others
    <3> QED BY <3>1, JoinPreflightEffect, SameFin
  <2>2. FinAt(p)'
    <3>1. p \in PR /\ FinAt(p)
      BY JoinPreflightEffect, Sorts DEF Fits, FinFit
    <3> QED BY <3>1, JoinPreflightEffect, Sorts, KeySorts, TypeParts, FinStays DEF Fits, FinAt, Finished, RequestsFit, RequestAt, JoinSteps, UnadoptSteps, BeforeOpen, UnopenedUnknown, UnopenedAt, EntriesFit, EntryAt, GitFit, TrackedOK, Entry, FinSame
  <2> QED BY <2>1, <2>2 DEF FinFit
<1>4. OutOfSweepsReach' /\ FoundFit' /\ MarksFit' /\ UnopenedUnknown' /\ EntriesFit' /\ GitFit'
  BY JoinPreflightEffect, OutOfSweepsReachFrame, FoundFrame, MarksFrame, UnopenedFrame, EntriesFrame, GitFrame DEF Fits
<1> QED BY <1>1, <1>2, <1>3, <1>4 DEF Fits

LEMMA JoinFindFits ==
    ASSUME Fits, NEW p \in PR, JoinFind(p) PROVE Fits'
<1>1. AdoptionTypeOK'
  <2>1. RepoOK' /\ ConnectionOK' /\ TrackedOK' /\ FinOK' /\ PassOK' /\ FailuresOK'
    BY JoinFindEffect, TypeParts DEF Fits, RepoOK, ConnectionOK, TrackedOK, FinOK, PassOK, FailuresOK, NoFailure
  <2>2. RequestsOK'
    BY TypeParts, Sorts, JoinFindEffect DEF Fits, RequestsOK, JoinFind, Goto, SameKind, repo, requests, marksPass, ReqSteps
  <2> QED BY <2>1, <2>2, TypesNext
<1>2. RequestsFit'
  <2>1. ASSUME NEW q \in PR, q # p PROVE RequestAt(q)'
    <3>1. RequestAt(q) /\ Same(q)
      BY <2>1, JoinFindEffect DEF Fits, RequestsFit, Others
    <3> QED BY <3>1, JoinFindEffect, SameRequest
  <2>2. RequestAt(p)'
    <3>1. p \in PR /\ RequestAt(p)
      BY JoinFindEffect, Sorts DEF Fits, RequestsFit
    <3> QED BY <3>1, JoinFindEffect, Sorts, KeySorts, TypeParts, FinStays DEF Fits, RequestAt, JoinSteps, UnadoptSteps, BeforeOpen, Finished, RepoOK, RequestsOK, FinSame
  <2> QED BY <2>1, <2>2 DEF RequestsFit
<1>3. FoundFit'
  BY JoinFindEffect, Sorts, KeySorts, TypeParts, FinStays DEF Fits, FoundFit, RequestsFit, RequestAt, FinSame, Others, Same
<1>4. FinFit'
  <2>1. ASSUME NEW q \in PR, q # p PROVE FinAt(q)'
    <3>1. FinAt(q) /\ Same(q)
      BY <2>1, JoinFindEffect DEF Fits, FinFit, Others
    <3> QED BY <3>1, JoinFindEffect, SameFin
  <2>2. FinAt(p)'
    <3>1. p \in PR /\ FinAt(p)
      BY JoinFindEffect, Sorts DEF Fits, FinFit
    <3> QED BY <3>1, JoinFindEffect, Sorts, KeySorts, TypeParts, FinStays DEF Fits, FinAt, Finished, RequestsFit, RequestAt, JoinSteps, UnadoptSteps, BeforeOpen, UnopenedUnknown, UnopenedAt, EntriesFit, EntryAt, GitFit, TrackedOK, Entry, FinSame
  <2> QED BY <2>1, <2>2 DEF FinFit
<1>5. OutOfSweepsReach' /\ MarksFit' /\ UnopenedUnknown' /\ EntriesFit' /\ GitFit'
  BY JoinFindEffect, OutOfSweepsReachFrame, MarksFrame, UnopenedFrame, EntriesFrame, GitFrame DEF Fits
<1> QED BY <1>1, <1>2, <1>3, <1>4, <1>5 DEF Fits

LEMMA JoinRemarkFits ==
    ASSUME Fits, NEW p \in PR, JoinRemark(p) PROVE Fits'
<1>1. AdoptionTypeOK'
  <2>1. TrackedOK' /\ FinOK' /\ PassOK'
    BY JoinRemarkEffect, TypeParts DEF Fits, TrackedOK, FinOK, PassOK
  <2>2. RepoOK'
    <3>1. crossed' \in BOOLEAN
      BY PutMarkCrosses, TypeParts DEF Fits, RepoOK, JoinRemark
    <3> QED BY <3>1, JoinRemarkEffect, TypeParts DEF Fits, RepoOK
  <2>3. ConnectionOK'
    BY JoinRemarkWrites, TypeParts DEF Fits, ConnectionOK, MarkSet, OwnerSet, GivenBack
  <2>4. RequestsOK'
    BY TypeParts, Sorts, JoinRemarkEffect DEF Fits, RequestsOK, JoinRemark, Goto, repo, requests, marksPass, ReqSteps
  <2>5. FailuresOK'
    BY TypeParts, Sorts DEF Fits, FailuresOK, Failure, NoFailure, JoinRemark
  <2> QED BY <2>1, <2>2, <2>3, <2>4, <2>5, TypesNext
<1>2. OutOfSweepsReach'
  BY JoinRemarkEffect, Sorts, KeySorts, TypeParts, FinStays DEF Fits, OutOfSweepsReach, ManagedBySharko, Exists, MarkSet, FinSame, Others, Same
<1>3. RequestsFit'
  <2>1. ASSUME NEW q \in PR, q # p PROVE RequestAt(q)'
    <3>1. RequestAt(q) /\ Same(q)
      BY <2>1, JoinRemarkEffect DEF Fits, RequestsFit, Others
    <3> QED BY <3>1, JoinRemarkEffect, SameRequest
  <2>2. RequestAt(p)'
    <3>1. p \in PR /\ RequestAt(p)
      BY JoinRemarkEffect, Sorts DEF Fits, RequestsFit
    <3> QED BY <3>1, JoinRemarkEffect, Sorts, KeySorts, TypeParts, FinStays DEF Fits, RequestAt, JoinSteps, UnadoptSteps, BeforeOpen, Finished, RepoOK, RequestsOK, FinSame
  <2> QED BY <2>1, <2>2 DEF RequestsFit
<1>4. FoundFit'
  BY JoinRemarkEffect, Sorts, KeySorts, TypeParts, FinStays DEF Fits, FoundFit, RequestsFit, RequestAt, FinSame, Others, Same
<1>5. MarksFit'
  BY JoinRemarkEffect, Sorts, KeySorts, TypeParts, FinStays DEF Fits, MarksFit, Exists, Keys, PassOK, Nothing, MarkSet, FinSame, Others, Same
<1>6. UnopenedUnknown'
  <2>1. ASSUME NEW q \in PR PROVE UnopenedAt(q)'
    <3>1. UnopenedAt(q) /\ found[p] \in PR /\ git[found[p]] # "none"
      BY JoinRemarkEffect, Sorts DEF Fits, UnopenedUnknown, FoundFit
    <3>2. TrackerStep(q)' = TrackerStep(q) /\ UNCHANGED <<git, tracked, listed, number>>
      BY JoinRemarkEffect, FinStays
    <3>3. CASE MarkSet(Key(found[p]), found[p])
      BY <3>1, <3>2, <3>3, Sorts, KeySorts DEF UnopenedAt, MarkSet, Exists
    <3>4. CASE UNCHANGED connection
      BY <3>1, <3>2, <3>4 DEF UnopenedAt, Exists
    <3> QED BY <3>3, <3>4, JoinRemarkEffect
  <2> QED BY <2>1 DEF UnopenedUnknown
<1>7. FinFit'
  <2>1. ASSUME NEW q \in PR, q # p PROVE FinAt(q)'
    <3>1. FinAt(q) /\ Same(q)
      BY <2>1, JoinRemarkEffect DEF Fits, FinFit, Others
    <3> QED BY <3>1, JoinRemarkEffect, SameFin
  <2>2. FinAt(p)'
    <3>1. p \in PR /\ FinAt(p)
      BY JoinRemarkEffect, Sorts DEF Fits, FinFit
    <3> QED BY <3>1, JoinRemarkEffect, Sorts, KeySorts, TypeParts, FinStays DEF Fits, FinAt, Finished, RequestsFit, RequestAt, JoinSteps, UnadoptSteps, BeforeOpen, UnopenedUnknown, UnopenedAt, EntriesFit, EntryAt, GitFit, TrackedOK, Entry, FinSame
  <2> QED BY <2>1, <2>2 DEF FinFit
<1>8. EntriesFit' /\ GitFit'
  BY JoinRemarkEffect, EntriesFrame, GitFrame DEF Fits
<1> QED BY <1>1, <1>2, <1>3, <1>4, <1>5, <1>6, <1>7, <1>8 DEF Fits

LEMMA JoinOpenFits ==
    ASSUME Fits, NEW p \in PR, JoinOpen(p) PROVE Fits'
<1>1. AdoptionTypeOK'
  <2>1. ConnectionOK' /\ TrackedOK' /\ FinOK' /\ PassOK'
    BY JoinOpenEffect, TypeParts DEF Fits, ConnectionOK, TrackedOK, FinOK, PassOK
  <2>2. RepoOK'
    BY TypeParts, Sorts, JoinOpenEffect, OpenEffect DEF Fits, RepoOK, JoinOpen, Goto, repo, requests, marksPass
  <2>3. RequestsOK'
    BY TypeParts, Sorts, JoinOpenEffect DEF Fits, RequestsOK, JoinOpen, Goto, repo, requests, marksPass, ReqSteps
  <2>4. FailuresOK'
    BY TypeParts, Sorts DEF Fits, FailuresOK, Failure, NoFailure, JoinOpen
  <2> QED BY <2>1, <2>2, <2>3, <2>4, TypesNext
<1>2. RequestsFit'
  <2>1. ASSUME NEW q \in PR, q # p PROVE RequestAt(q)'
    <3>1. RequestAt(q) /\ Same(q)
      BY <2>1, JoinOpenEffect DEF Fits, RequestsFit, Others
    <3> QED BY <3>1, JoinOpenEffect, SameRequest
  <2>2. RequestAt(p)'
    <3>1. p \in PR /\ RequestAt(p)
      BY JoinOpenEffect, Sorts DEF Fits, RequestsFit
    <3> QED BY <3>1, JoinOpenEffect, Sorts, KeySorts, TypeParts, FinStays DEF Fits, RequestAt, JoinSteps, UnadoptSteps, BeforeOpen, Finished, RepoOK, RequestsOK, FinSame
  <2> QED BY <2>1, <2>2 DEF RequestsFit
<1>3. FoundFit'
  BY JoinOpenEffect, Sorts, KeySorts, TypeParts, FinStays DEF Fits, FoundFit, RequestsFit, RequestAt, FinSame, Others, Same
<1>4. UnopenedUnknown'
  <2>1. ASSUME NEW q \in PR, q # p PROVE UnopenedAt(q)'
    <3>1. UnopenedAt(q) /\ Same(q)
      BY <2>1, JoinOpenEffect DEF Fits, UnopenedUnknown, Others
    <3> QED BY <3>1, JoinOpenEffect, SameUnopened DEF Exists
  <2>2. UnopenedAt(p)'
    <3>1. p \in PR /\ UnopenedAt(p)
      BY JoinOpenEffect, Sorts DEF Fits, UnopenedUnknown
    <3> QED BY <3>1, JoinOpenEffect, Sorts, KeySorts, TypeParts, FinStays DEF Fits, UnopenedAt, Exists, Keys, RequestsFit, RequestAt, BeforeOpen, Nothing, FinSame
  <2> QED BY <2>1, <2>2 DEF UnopenedUnknown
<1>5. EntriesFit'
  <2>1. ASSUME NEW q \in PR, q # p PROVE EntryAt(q)'
    <3>1. EntryAt(q) /\ Same(q)
      BY <2>1, JoinOpenEffect DEF Fits, EntriesFit, Others
    <3> QED BY <3>1, JoinOpenEffect, SameEntry
  <2>2. EntryAt(p)'
    <3>1. p \in PR /\ EntryAt(p)
      BY JoinOpenEffect, Sorts DEF Fits, EntriesFit
    <3> QED BY <3>1, JoinOpenEffect, Sorts, KeySorts, TypeParts, FinStays DEF Fits, EntryAt, Finished, RepoOK, TrackedOK, Entry, RequestsFit, RequestAt, UnopenedUnknown, UnopenedAt, BeforeOpen, FinSame
  <2> QED BY <2>1, <2>2 DEF EntriesFit
<1>6. FinFit'
  <2>1. ASSUME NEW q \in PR, q # p PROVE FinAt(q)'
    <3>1. FinAt(q) /\ Same(q)
      BY <2>1, JoinOpenEffect DEF Fits, FinFit, Others
    <3> QED BY <3>1, JoinOpenEffect, SameFin
  <2>2. FinAt(p)'
    <3>1. p \in PR /\ FinAt(p)
      BY JoinOpenEffect, Sorts DEF Fits, FinFit
    <3> QED BY <3>1, JoinOpenEffect, Sorts, KeySorts, TypeParts, FinStays DEF Fits, FinAt, Finished, RequestsFit, RequestAt, JoinSteps, UnadoptSteps, BeforeOpen, UnopenedUnknown, UnopenedAt, EntriesFit, EntryAt, GitFit, TrackedOK, Entry, FinSame
  <2> QED BY <2>1, <2>2 DEF FinFit
<1>7. GitFit'
  BY JoinOpenEffect, Sorts, KeySorts, TypeParts, FinStays DEF Fits, GitFit, RepoOK, FinSame, Others, Same
<1>8. OutOfSweepsReach' /\ MarksFit'
  BY JoinOpenEffect, OutOfSweepsReachFrame, MarksFrame DEF Fits
<1> QED BY <1>1, <1>2, <1>3, <1>4, <1>5, <1>6, <1>7, <1>8 DEF Fits

LEMMA JoinMarkFits ==
    ASSUME Fits, NEW p \in PR, JoinMark(p) PROVE Fits'
<1>1. AdoptionTypeOK'
  <2>1. TrackedOK' /\ FinOK' /\ PassOK'
    BY JoinMarkEffect, TypeParts DEF Fits, TrackedOK, FinOK, PassOK
  <2>2. RepoOK'
    <3>1. crossed' \in BOOLEAN
      BY PutMarkCrosses, TypeParts DEF Fits, RepoOK, JoinMark
    <3> QED BY <3>1, JoinMarkEffect, TypeParts DEF Fits, RepoOK
  <2>3. ConnectionOK'
    BY JoinMarkWrites, TypeParts DEF Fits, ConnectionOK, MarkSet, OwnerSet, GivenBack
  <2>4. RequestsOK'
    BY TypeParts, Sorts, JoinMarkEffect DEF Fits, RequestsOK, JoinMark, Goto, repo, requests, marksPass, ReqSteps
  <2>5. FailuresOK'
    BY TypeParts, Sorts DEF Fits, FailuresOK, Failure, NoFailure, JoinMark
  <2> QED BY <2>1, <2>2, <2>3, <2>4, <2>5, TypesNext
<1>2. OutOfSweepsReach'
  BY JoinMarkEffect, Sorts, KeySorts, TypeParts, FinStays DEF Fits, OutOfSweepsReach, ManagedBySharko, Exists, MarkSet, FinSame, Others, Same
<1>3. RequestsFit'
  <2>1. ASSUME NEW q \in PR, q # p PROVE RequestAt(q)'
    <3>1. RequestAt(q) /\ Same(q)
      BY <2>1, JoinMarkEffect DEF Fits, RequestsFit, Others
    <3> QED BY <3>1, JoinMarkEffect, SameRequest
  <2>2. RequestAt(p)'
    <3>1. p \in PR /\ RequestAt(p)
      BY JoinMarkEffect, Sorts DEF Fits, RequestsFit
    <3> QED BY <3>1, JoinMarkEffect, Sorts, KeySorts, TypeParts, FinStays DEF Fits, RequestAt, JoinSteps, UnadoptSteps, BeforeOpen, Finished, RepoOK, RequestsOK, FinSame
  <2> QED BY <2>1, <2>2 DEF RequestsFit
<1>4. MarksFit'
  BY JoinMarkEffect, Sorts, KeySorts, TypeParts, FinStays DEF Fits, MarksFit, Exists, Keys, PassOK, Nothing, MarkSet, FinSame, Others, Same
<1>5. UnopenedUnknown'
  <2>1. ASSUME NEW q \in PR, q # p PROVE UnopenedAt(q)'
    <3>1. UnopenedAt(q) /\ Same(q)
      BY <2>1, JoinMarkEffect DEF Fits, UnopenedUnknown, Others
    <3>2. Exists' => Exists /\ (connection'.mark[Key(q)] # q \/ connection'.mark[Key(q)] = connection.mark[Key(q)])
      BY JoinMarkEffect, <2>1, Sorts, KeySorts DEF Exists, Keys, MarkSet
    <3> QED BY <3>1, <3>2, JoinMarkEffect, SameUnopened
  <2>2. UnopenedAt(p)'
    <3>1. p \in PR /\ UnopenedAt(p)
      BY JoinMarkEffect, Sorts DEF Fits, UnopenedUnknown
    <3> QED BY <3>1, JoinMarkEffect, Sorts, KeySorts, TypeParts, FinStays DEF Fits, UnopenedAt, Exists, Keys, RequestsFit, RequestAt, BeforeOpen, Nothing, MarkSet, FinSame
  <2> QED BY <2>1, <2>2 DEF UnopenedUnknown
<1>6. FinFit'
  <2>1. ASSUME NEW q \in PR, q # p PROVE FinAt(q)'
    <3>1. FinAt(q) /\ Same(q)
      BY <2>1, JoinMarkEffect DEF Fits, FinFit, Others
    <3> QED BY <3>1, JoinMarkEffect, SameFin
  <2>2. FinAt(p)'
    <3>1. p \in PR /\ FinAt(p)
      BY JoinMarkEffect, Sorts DEF Fits, FinFit
    <3> QED BY <3>1, JoinMarkEffect, Sorts, KeySorts, TypeParts, FinStays DEF Fits, FinAt, Finished, RequestsFit, RequestAt, JoinSteps, UnadoptSteps, BeforeOpen, UnopenedUnknown, UnopenedAt, EntriesFit, EntryAt, GitFit, TrackedOK, Entry, FinSame
  <2> QED BY <2>1, <2>2 DEF FinFit
<1>7. FoundFit' /\ EntriesFit' /\ GitFit'
  BY JoinMarkEffect, FoundFrame, EntriesFrame, GitFrame DEF Fits
<1> QED BY <1>1, <1>2, <1>3, <1>4, <1>5, <1>6, <1>7 DEF Fits

LEMMA JoinTrackFits ==
    ASSUME Fits, NEW p \in PR, JoinTrack(p) PROVE Fits'
<1>1. AdoptionTypeOK'
  <2>1. RepoOK' /\ ConnectionOK' /\ FinOK' /\ PassOK'
    BY JoinTrackEffect, TypeParts DEF Fits, RepoOK, ConnectionOK, FinOK, PassOK
  <2>2. TrackedOK'
    BY TypeParts, Sorts, JoinTrackEffect, Record DEF Fits, TrackedOK, JoinTrack, Goto, NewEntry, repo, requests, marksPass
  <2>3. RequestsOK'
    BY TypeParts, Sorts, JoinTrackEffect DEF Fits, RequestsOK, JoinTrack, Goto, NewEntry, repo, requests, marksPass, ReqSteps
  <2>4. FailuresOK'
    BY TypeParts, Sorts DEF Fits, FailuresOK, Failure, NoFailure, JoinTrack
  <2> QED BY <2>1, <2>2, <2>3, <2>4, TypesNext
<1>2. RequestsFit'
  <2>1. ASSUME NEW q \in PR, q # p PROVE RequestAt(q)'
    <3>1. RequestAt(q) /\ Same(q)
      BY <2>1, JoinTrackEffect DEF Fits, RequestsFit, Others
    <3> QED BY <3>1, JoinTrackEffect, SameRequest
  <2>2. RequestAt(p)'
    <3>1. p \in PR /\ RequestAt(p)
      BY JoinTrackEffect, Sorts DEF Fits, RequestsFit
    <3> QED BY <3>1, JoinTrackEffect, Sorts, KeySorts, TypeParts, FinStays DEF Fits, RequestAt, JoinSteps, UnadoptSteps, BeforeOpen, Finished, RepoOK, RequestsOK, FinSame
  <2> QED BY <2>1, <2>2 DEF RequestsFit
<1>3. UnopenedUnknown'
  <2>1. ASSUME NEW q \in PR, q # p PROVE UnopenedAt(q)'
    <3>1. UnopenedAt(q) /\ Same(q)
      BY <2>1, JoinTrackEffect DEF Fits, UnopenedUnknown, Others
    <3> QED BY <3>1, JoinTrackEffect, SameUnopened DEF Exists
  <2>2. UnopenedAt(p)'
    <3>1. p \in PR /\ UnopenedAt(p)
      BY JoinTrackEffect, Sorts DEF Fits, UnopenedUnknown
    <3> QED BY <3>1, JoinTrackEffect, Sorts, KeySorts, TypeParts, FinStays DEF Fits, UnopenedAt, Exists, Keys, RequestsFit, RequestAt, BeforeOpen, Nothing, Recorded, FinSame
  <2> QED BY <2>1, <2>2 DEF UnopenedUnknown
<1>4. EntriesFit'
  <2>1. ASSUME NEW q \in PR, q # p PROVE EntryAt(q)'
    <3>1. EntryAt(q) /\ Same(q)
      BY <2>1, JoinTrackEffect DEF Fits, EntriesFit, Others
    <3> QED BY <3>1, JoinTrackEffect, SameEntry
  <2>2. EntryAt(p)'
    <3>1. p \in PR /\ EntryAt(p)
      BY JoinTrackEffect, Sorts DEF Fits, EntriesFit
    <3> QED BY <3>1, JoinTrackEffect, Sorts, KeySorts, TypeParts, FinStays DEF Fits, EntryAt, Finished, RepoOK, TrackedOK, Entry, RequestsFit, RequestAt, UnopenedUnknown, UnopenedAt, BeforeOpen, Recorded, FinSame
  <2> QED BY <2>1, <2>2 DEF EntriesFit
<1>5. FinFit'
  <2>1. ASSUME NEW q \in PR, q # p PROVE FinAt(q)'
    <3>1. FinAt(q) /\ Same(q)
      BY <2>1, JoinTrackEffect DEF Fits, FinFit, Others
    <3> QED BY <3>1, JoinTrackEffect, SameFin
  <2>2. FinAt(p)'
    <3>1. p \in PR /\ FinAt(p)
      BY JoinTrackEffect, Sorts DEF Fits, FinFit
    <3> QED BY <3>1, JoinTrackEffect, Sorts, KeySorts, TypeParts, FinStays DEF Fits, FinAt, Finished, RequestsFit, RequestAt, JoinSteps, UnadoptSteps, BeforeOpen, UnopenedUnknown, UnopenedAt, EntriesFit, EntryAt, GitFit, TrackedOK, Entry, Recorded, FinSame
  <2> QED BY <2>1, <2>2 DEF FinFit
<1>6. OutOfSweepsReach' /\ FoundFit' /\ MarksFit' /\ GitFit'
  BY JoinTrackEffect, OutOfSweepsReachFrame, FoundFrame, MarksFrame, GitFrame DEF Fits
<1> QED BY <1>1, <1>2, <1>3, <1>4, <1>5, <1>6 DEF Fits

LEMMA JoinMergeFits ==
    ASSUME Fits, NEW p \in PR, JoinMerge(p) PROVE Fits'
<1>1. AdoptionTypeOK'
  <2>1. ConnectionOK' /\ TrackedOK' /\ FinOK' /\ PassOK'
    BY JoinMergeEffect, TypeParts DEF Fits, ConnectionOK, TrackedOK, FinOK, PassOK
  <2>2. RepoOK'
    BY TypeParts, Sorts, JoinMergeEffect, MergeEffect DEF Fits, RepoOK, JoinMerge, Goto, repo, requests, marksPass
  <2>3. RequestsOK'
    BY TypeParts, Sorts, JoinMergeEffect DEF Fits, RequestsOK, JoinMerge, Goto, repo, requests, marksPass, ReqSteps
  <2>4. FailuresOK'
    BY TypeParts, Sorts DEF Fits, FailuresOK, Failure, NoFailure, JoinMerge
  <2> QED BY <2>1, <2>2, <2>3, <2>4, TypesNext
<1>2. RequestsFit'
  <2>1. ASSUME NEW q \in PR, q # p PROVE RequestAt(q)'
    <3>1. RequestAt(q) /\ Same(q)
      BY <2>1, JoinMergeEffect DEF Fits, RequestsFit, Others
    <3> QED BY <3>1, JoinMergeEffect, SameRequest
  <2>2. RequestAt(p)'
    <3>1. p \in PR /\ RequestAt(p)
      BY JoinMergeEffect, Sorts DEF Fits, RequestsFit
    <3> QED BY <3>1, JoinMergeEffect, Sorts, KeySorts, TypeParts, FinStays DEF Fits, RequestAt, JoinSteps, UnadoptSteps, BeforeOpen, Finished, RepoOK, RequestsOK, Merged, FinSame
  <2> QED BY <2>1, <2>2 DEF RequestsFit
<1>3. FoundFit'
  BY JoinMergeEffect, Sorts, KeySorts, TypeParts, FinStays DEF Fits, FoundFit, RequestsFit, RequestAt, Merged, FinSame, Others, Same
<1>4. UnopenedUnknown'
  <2>1. ASSUME NEW q \in PR, q # p PROVE UnopenedAt(q)'
    <3>1. UnopenedAt(q) /\ Same(q)
      BY <2>1, JoinMergeEffect DEF Fits, UnopenedUnknown, Others
    <3> QED BY <3>1, JoinMergeEffect, SameUnopened DEF Exists
  <2>2. UnopenedAt(p)'
    <3>1. p \in PR /\ UnopenedAt(p)
      BY JoinMergeEffect, Sorts DEF Fits, UnopenedUnknown
    <3> QED BY <3>1, JoinMergeEffect, Sorts, KeySorts, TypeParts, FinStays DEF Fits, UnopenedAt, Exists, Keys, RequestsFit, RequestAt, BeforeOpen, Nothing, Merged, FinSame
  <2> QED BY <2>1, <2>2 DEF UnopenedUnknown
<1>5. EntriesFit'
  <2>1. ASSUME NEW q \in PR, q # p PROVE EntryAt(q)'
    <3>1. EntryAt(q) /\ Same(q)
      BY <2>1, JoinMergeEffect DEF Fits, EntriesFit, Others
    <3> QED BY <3>1, JoinMergeEffect, SameEntry
  <2>2. EntryAt(p)'
    <3>1. p \in PR /\ EntryAt(p)
      BY JoinMergeEffect, Sorts DEF Fits, EntriesFit
    <3> QED BY <3>1, JoinMergeEffect, Sorts, KeySorts, TypeParts, FinStays DEF Fits, EntryAt, Finished, RepoOK, TrackedOK, Entry, RequestsFit, RequestAt, UnopenedUnknown, UnopenedAt, BeforeOpen, Merged, FinSame
  <2> QED BY <2>1, <2>2 DEF EntriesFit
<1>6. FinFit'
  <2>1. ASSUME NEW q \in PR, q # p PROVE FinAt(q)'
    <3>1. FinAt(q) /\ Same(q)
      BY <2>1, JoinMergeEffect DEF Fits, FinFit, Others
    <3> QED BY <3>1, JoinMergeEffect, SameFin
  <2>2. FinAt(p)'
    <3>1. p \in PR /\ FinAt(p)
      BY JoinMergeEffect, Sorts DEF Fits, FinFit
    <3> QED BY <3>1, JoinMergeEffect, Sorts, KeySorts, TypeParts, FinStays DEF Fits, FinAt, Finished, RequestsFit, RequestAt, JoinSteps, UnadoptSteps, BeforeOpen, UnopenedUnknown, UnopenedAt, EntriesFit, EntryAt, GitFit, TrackedOK, Entry, Merged, FinSame
  <2> QED BY <2>1, <2>2 DEF FinFit
<1>7. GitFit'
  BY JoinMergeEffect, Sorts, KeySorts, TypeParts, FinStays DEF Fits, GitFit, RepoOK, Merged, FinSame, Others, Same
<1>8. OutOfSweepsReach' /\ MarksFit'
  BY JoinMergeEffect, OutOfSweepsReachFrame, MarksFrame DEF Fits
<1> QED BY <1>1, <1>2, <1>3, <1>4, <1>5, <1>6, <1>7, <1>8 DEF Fits

LEMMA JoinSwapFits ==
    ASSUME Fits, NEW p \in PR, JoinSwap(p) PROVE Fits'
<1>1. AdoptionTypeOK'
  <2>1. RepoOK' /\ TrackedOK' /\ FinOK' /\ PassOK'
    BY JoinSwapEffect, TypeParts DEF Fits, RepoOK, TrackedOK, FinOK, PassOK
  <2>2. ConnectionOK'
    BY JoinSwapWrites, TypeParts DEF Fits, ConnectionOK, MarkSet, OwnerSet, GivenBack
  <2>3. RequestsOK'
    BY TypeParts, Sorts, JoinSwapEffect DEF Fits, RequestsOK, JoinSwap, Goto, repo, requests, marksPass, ReqSteps
  <2>4. FailuresOK'
    BY TypeParts, Sorts DEF Fits, FailuresOK, Failure, NoFailure, JoinSwap
  <2> QED BY <2>1, <2>2, <2>3, <2>4, TypesNext
<1>2. OutOfSweepsReach'
  BY JoinSwapEffect, Sorts, KeySorts, TypeParts, FinStays DEF Fits, OutOfSweepsReach, ManagedBySharko, Exists, OwnerSet, FinSame, Others, Same
<1>3. RequestsFit'
  <2>1. ASSUME NEW q \in PR, q # p PROVE RequestAt(q)'
    <3>1. RequestAt(q) /\ Same(q)
      BY <2>1, JoinSwapEffect DEF Fits, RequestsFit, Others
    <3> QED BY <3>1, JoinSwapEffect, SameRequest
  <2>2. RequestAt(p)'
    <3>1. p \in PR /\ RequestAt(p)
      BY JoinSwapEffect, Sorts DEF Fits, RequestsFit
    <3> QED BY <3>1, JoinSwapEffect, Sorts, KeySorts, TypeParts, FinStays DEF Fits, RequestAt, JoinSteps, UnadoptSteps, BeforeOpen, Finished, RepoOK, RequestsOK, FinSame
  <2> QED BY <2>1, <2>2 DEF RequestsFit
<1>4. MarksFit'
  BY JoinSwapEffect, OwnerKeepsMarks, MarksFrame DEF Fits
<1>5. UnopenedUnknown'
  <2>1. ASSUME NEW q \in PR, q # p PROVE UnopenedAt(q)'
    <3>1. UnopenedAt(q) /\ Same(q)
      BY <2>1, JoinSwapEffect DEF Fits, UnopenedUnknown, Others
    <3>2. Exists' => Exists /\ (connection'.mark[Key(q)] # q \/ connection'.mark[Key(q)] = connection.mark[Key(q)])
      BY JoinSwapEffect, <2>1, Sorts, KeySorts DEF Exists, Keys, OwnerSet
    <3> QED BY <3>1, <3>2, JoinSwapEffect, SameUnopened
  <2>2. UnopenedAt(p)'
    <3>1. p \in PR /\ UnopenedAt(p)
      BY JoinSwapEffect, Sorts DEF Fits, UnopenedUnknown
    <3> QED BY <3>1, JoinSwapEffect, OwnerKeepsUnopened DEF FinSame
  <2> QED BY <2>1, <2>2 DEF UnopenedUnknown
<1>6. FinFit'
  <2>1. ASSUME NEW q \in PR, q # p PROVE FinAt(q)'
    <3>1. FinAt(q) /\ Same(q)
      BY <2>1, JoinSwapEffect DEF Fits, FinFit, Others
    <3> QED BY <3>1, JoinSwapEffect, SameFin
  <2>2. FinAt(p)'
    <3>1. p \in PR /\ FinAt(p)
      BY JoinSwapEffect, Sorts DEF Fits, FinFit
    <3> QED BY <3>1, JoinSwapEffect, Sorts, KeySorts, TypeParts, FinStays DEF Fits, FinAt, Finished, RequestsFit, RequestAt, JoinSteps, UnadoptSteps, BeforeOpen, UnopenedUnknown, UnopenedAt, EntriesFit, EntryAt, GitFit, TrackedOK, Entry, FinSame
  <2> QED BY <2>1, <2>2 DEF FinFit
<1>7. FoundFit' /\ EntriesFit' /\ GitFit'
  BY JoinSwapEffect, FoundFrame, EntriesFrame, GitFrame DEF Fits
<1> QED BY <1>1, <1>2, <1>3, <1>4, <1>5, <1>6, <1>7 DEF Fits

LEMMA JoinAnnotateFits ==
    ASSUME Fits, NEW p \in PR, JoinAnnotate(p) PROVE Fits'
<1>1. AdoptionTypeOK'
  <2>1. RepoOK' /\ TrackedOK' /\ FinOK' /\ PassOK'
    BY JoinAnnotateEffect, TypeParts DEF Fits, RepoOK, TrackedOK, FinOK, PassOK
  <2>2. ConnectionOK'
    BY JoinAnnotateWrites, TypeParts DEF Fits, ConnectionOK, MarkSet, OwnerSet, GivenBack
  <2>3. RequestsOK'
    BY TypeParts, Sorts, JoinAnnotateEffect DEF Fits, RequestsOK, JoinAnnotate, Goto, repo, requests, marksPass, ReqSteps
  <2>4. FailuresOK'
    BY TypeParts, Sorts DEF Fits, FailuresOK, Failure, NoFailure, JoinAnnotate
  <2> QED BY <2>1, <2>2, <2>3, <2>4, TypesNext
<1>2. OutOfSweepsReach'
  BY JoinAnnotateEffect, Sorts, KeySorts, TypeParts, FinStays DEF Fits, OutOfSweepsReach, ManagedBySharko, Exists, OwnerSet, FinSame, Others, Same
<1>3. RequestsFit'
  <2>1. ASSUME NEW q \in PR, q # p PROVE RequestAt(q)'
    <3>1. RequestAt(q) /\ Same(q)
      BY <2>1, JoinAnnotateEffect DEF Fits, RequestsFit, Others
    <3> QED BY <3>1, JoinAnnotateEffect, SameRequest
  <2>2. RequestAt(p)'
    <3>1. p \in PR /\ RequestAt(p)
      BY JoinAnnotateEffect, Sorts DEF Fits, RequestsFit
    <3> QED BY <3>1, JoinAnnotateEffect, Sorts, KeySorts, TypeParts, FinStays DEF Fits, RequestAt, JoinSteps, UnadoptSteps, BeforeOpen, Finished, RepoOK, RequestsOK, FinSame
  <2> QED BY <2>1, <2>2 DEF RequestsFit
<1>4. MarksFit'
  BY JoinAnnotateEffect, OwnerKeepsMarks, MarksFrame DEF Fits
<1>5. UnopenedUnknown'
  <2>1. ASSUME NEW q \in PR, q # p PROVE UnopenedAt(q)'
    <3>1. UnopenedAt(q) /\ Same(q)
      BY <2>1, JoinAnnotateEffect DEF Fits, UnopenedUnknown, Others
    <3>2. Exists' => Exists /\ (connection'.mark[Key(q)] # q \/ connection'.mark[Key(q)] = connection.mark[Key(q)])
      BY JoinAnnotateEffect, <2>1, Sorts, KeySorts DEF Exists, Keys, OwnerSet
    <3> QED BY <3>1, <3>2, JoinAnnotateEffect, SameUnopened
  <2>2. UnopenedAt(p)'
    <3>1. p \in PR /\ UnopenedAt(p)
      BY JoinAnnotateEffect, Sorts DEF Fits, UnopenedUnknown
    <3> QED BY <3>1, JoinAnnotateEffect, OwnerKeepsUnopened DEF FinSame
  <2> QED BY <2>1, <2>2 DEF UnopenedUnknown
<1>6. FinFit'
  <2>1. ASSUME NEW q \in PR, q # p PROVE FinAt(q)'
    <3>1. FinAt(q) /\ Same(q)
      BY <2>1, JoinAnnotateEffect DEF Fits, FinFit, Others
    <3> QED BY <3>1, JoinAnnotateEffect, SameFin
  <2>2. FinAt(p)'
    <3>1. p \in PR /\ FinAt(p)
      BY JoinAnnotateEffect, Sorts DEF Fits, FinFit
    <3> QED BY <3>1, JoinAnnotateEffect, Sorts, KeySorts, TypeParts, FinStays DEF Fits, FinAt, Finished, RequestsFit, RequestAt, JoinSteps, UnadoptSteps, BeforeOpen, UnopenedUnknown, UnopenedAt, EntriesFit, EntryAt, GitFit, TrackedOK, Entry, FinSame
  <2> QED BY <2>1, <2>2 DEF FinFit
<1>7. FoundFit' /\ EntriesFit' /\ GitFit'
  BY JoinAnnotateEffect, FoundFrame, EntriesFrame, GitFrame DEF Fits
<1> QED BY <1>1, <1>2, <1>3, <1>4, <1>5, <1>6, <1>7 DEF Fits

LEMMA UnadoptCheckFits ==
    ASSUME Fits, NEW p \in PR, UnadoptCheck(p) PROVE Fits'
<1>1. AdoptionTypeOK'
  <2>1. ConnectionOK' /\ TrackedOK' /\ FinOK' /\ PassOK' /\ FailuresOK'
    BY UnadoptCheckEffect, TypeParts DEF Fits, ConnectionOK, TrackedOK, FinOK, PassOK, FailuresOK, NoFailure
  <2>2. RepoOK'
    BY TypeParts, Sorts, UnadoptCheckEffect DEF Fits, RepoOK, UnadoptCheck, Goto, repo, requests, marksPass
  <2>3. RequestsOK'
    BY TypeParts, Sorts, UnadoptCheckEffect DEF Fits, RequestsOK, UnadoptCheck, Goto, repo, requests, marksPass, ReqSteps
  <2> QED BY <2>1, <2>2, <2>3, TypesNext
<1>2. RequestsFit'
  <2>1. ASSUME NEW q \in PR, q # p PROVE RequestAt(q)'
    <3>1. RequestAt(q) /\ Same(q)
      BY <2>1, UnadoptCheckEffect DEF Fits, RequestsFit, Others
    <3> QED BY <3>1, UnadoptCheckEffect, SameRequest
  <2>2. RequestAt(p)'
    <3>1. p \in PR /\ RequestAt(p)
      BY UnadoptCheckEffect, Sorts DEF Fits, RequestsFit
    <3> QED BY <3>1, UnadoptCheckEffect, Sorts, KeySorts, TypeParts, FinStays DEF Fits, RequestAt, JoinSteps, UnadoptSteps, BeforeOpen, Finished, RepoOK, RequestsOK, FinSame
  <2> QED BY <2>1, <2>2 DEF RequestsFit
<1>3. FinFit'
  <2>1. ASSUME NEW q \in PR, q # p PROVE FinAt(q)'
    <3>1. FinAt(q) /\ Same(q)
      BY <2>1, UnadoptCheckEffect DEF Fits, FinFit, Others
    <3> QED BY <3>1, UnadoptCheckEffect, SameFin
  <2>2. FinAt(p)'
    <3>1. p \in PR /\ FinAt(p)
      BY UnadoptCheckEffect, Sorts DEF Fits, FinFit
    <3> QED BY <3>1, UnadoptCheckEffect, Sorts, KeySorts, TypeParts, FinStays DEF Fits, FinAt, Finished, RequestsFit, RequestAt, JoinSteps, UnadoptSteps, BeforeOpen, UnopenedUnknown, UnopenedAt, EntriesFit, EntryAt, GitFit, TrackedOK, Entry, FinSame
  <2> QED BY <2>1, <2>2 DEF FinFit
<1>4. OutOfSweepsReach' /\ FoundFit' /\ MarksFit' /\ UnopenedUnknown' /\ EntriesFit' /\ GitFit'
  BY UnadoptCheckEffect, OutOfSweepsReachFrame, FoundFrame, MarksFrame, UnopenedFrame, EntriesFrame, GitFrame DEF Fits
<1> QED BY <1>1, <1>2, <1>3, <1>4 DEF Fits

LEMMA UnadoptPlanFits ==
    ASSUME Fits, NEW p \in PR, UnadoptPlan(p) PROVE Fits'
<1>1. AdoptionTypeOK'
  <2>1. RepoOK' /\ ConnectionOK' /\ TrackedOK' /\ PassOK'
    BY UnadoptPlanEffect, TypeParts DEF Fits, RepoOK, ConnectionOK, TrackedOK, PassOK
  <2>2. RequestsOK'
    BY TypeParts, Sorts, UnadoptPlanEffect DEF Fits, RequestsOK, UnadoptPlan, Goto, repo, requests, marksPass, ReqSteps
  <2>3. FinOK'
    BY UnadoptPlanWrites, TypeParts DEF Fits, FinOK
  <2>4. FailuresOK'
    BY TypeParts, Sorts DEF Fits, FailuresOK, Failure, NoFailure, UnadoptPlan
  <2> QED BY <2>1, <2>2, <2>3, <2>4, TypesNext
<1>2. RequestsFit'
  <2>1. ASSUME NEW q \in PR, q # p PROVE RequestAt(q)'
    <3>1. RequestAt(q) /\ Same(q)
      BY <2>1, UnadoptPlanEffect DEF Fits, RequestsFit, Others
    <3> QED BY <3>1, UnadoptPlanEffect, SameRequest
  <2>2. RequestAt(p)'
    <3>1. p \in PR /\ RequestAt(p)
      BY UnadoptPlanEffect, Sorts DEF Fits, RequestsFit
    <3> QED BY <3>1, UnadoptPlanEffect, Sorts, KeySorts, TypeParts DEF Fits, RequestAt, JoinSteps, UnadoptSteps, BeforeOpen, Finished, RepoOK, RequestsOK, FinSame
  <2> QED BY <2>1, <2>2 DEF RequestsFit
<1>3. UnopenedUnknown'
  <2>1. ASSUME NEW q \in PR, q # p PROVE UnopenedAt(q)'
    <3>1. UnopenedAt(q) /\ Same(q)
      BY <2>1, UnadoptPlanEffect DEF Fits, UnopenedUnknown, Others
    <3> QED BY <3>1, UnadoptPlanEffect, SameUnopened DEF Exists
  <2>2. UnopenedAt(p)'
    <3>1. p \in PR /\ UnopenedAt(p)
      BY UnadoptPlanEffect, Sorts DEF Fits, UnopenedUnknown
    <3> QED BY <3>1, UnadoptPlanEffect, Sorts, KeySorts, TypeParts DEF Fits, UnopenedAt, Exists, Keys, RequestsFit, RequestAt, BeforeOpen, Nothing, RequestSet, FinSame
  <2> QED BY <2>1, <2>2 DEF UnopenedUnknown
<1>4. FinFit'
  <2>1. ASSUME NEW q \in PR, q # p PROVE FinAt(q)'
    <3>1. FinAt(q) /\ Same(q)
      BY <2>1, UnadoptPlanEffect DEF Fits, FinFit, Others
    <3> QED BY <3>1, UnadoptPlanEffect, SameFin
  <2>2. FinAt(p)'
    <3>1. p \in PR /\ FinAt(p)
      BY UnadoptPlanEffect, Sorts DEF Fits, FinFit
    <3> QED BY <3>1, UnadoptPlanEffect, Sorts, KeySorts, TypeParts DEF Fits, FinAt, Finished, RequestsFit, RequestAt, JoinSteps, UnadoptSteps, BeforeOpen, UnopenedUnknown, UnopenedAt, EntriesFit, EntryAt, GitFit, TrackedOK, Entry, RequestSet, FinSame
  <2> QED BY <2>1, <2>2 DEF FinFit
<1>5. OutOfSweepsReach' /\ FoundFit' /\ MarksFit' /\ EntriesFit' /\ GitFit'
  BY UnadoptPlanEffect, OutOfSweepsReachFrame, FoundFrame, MarksFrame, EntriesFrame, GitFrame DEF Fits
<1> QED BY <1>1, <1>2, <1>3, <1>4, <1>5 DEF Fits

LEMMA UnadoptLookFits ==
    ASSUME Fits, NEW p \in PR, UnadoptLook(p) PROVE Fits'
<1>1. AdoptionTypeOK'
  <2>1. RepoOK' /\ ConnectionOK' /\ TrackedOK' /\ FinOK' /\ PassOK'
    BY UnadoptLookEffect, TypeParts DEF Fits, RepoOK, ConnectionOK, TrackedOK, FinOK, PassOK
  <2>2. RequestsOK'
    BY TypeParts, Sorts, UnadoptLookEffect DEF Fits, RequestsOK, UnadoptLook, Goto, repo, requests, marksPass, ReqSteps
  <2>3. FailuresOK'
    BY TypeParts, Sorts DEF Fits, FailuresOK, Failure, NoFailure, UnadoptLook
  <2> QED BY <2>1, <2>2, <2>3, TypesNext
<1>2. RequestsFit'
  <2>1. ASSUME NEW q \in PR, q # p PROVE RequestAt(q)'
    <3>1. RequestAt(q) /\ Same(q)
      BY <2>1, UnadoptLookEffect DEF Fits, RequestsFit, Others
    <3> QED BY <3>1, UnadoptLookEffect, SameRequest
  <2>2. RequestAt(p)'
    <3>1. p \in PR /\ RequestAt(p)
      BY UnadoptLookEffect, Sorts DEF Fits, RequestsFit
    <3> QED BY <3>1, UnadoptLookEffect, Sorts, KeySorts, TypeParts, FinStays DEF Fits, RequestAt, JoinSteps, UnadoptSteps, BeforeOpen, Finished, RepoOK, RequestsOK, FinSame
  <2> QED BY <2>1, <2>2 DEF RequestsFit
<1>3. FinFit'
  <2>1. ASSUME NEW q \in PR, q # p PROVE FinAt(q)'
    <3>1. FinAt(q) /\ Same(q)
      BY <2>1, UnadoptLookEffect DEF Fits, FinFit, Others
    <3> QED BY <3>1, UnadoptLookEffect, SameFin
  <2>2. FinAt(p)'
    <3>1. p \in PR /\ FinAt(p)
      BY UnadoptLookEffect, Sorts DEF Fits, FinFit
    <3> QED BY <3>1, UnadoptLookEffect, Sorts, KeySorts, TypeParts, FinStays DEF Fits, FinAt, Finished, RequestsFit, RequestAt, JoinSteps, UnadoptSteps, BeforeOpen, UnopenedUnknown, UnopenedAt, EntriesFit, EntryAt, GitFit, TrackedOK, Entry, FinSame
  <2> QED BY <2>1, <2>2 DEF FinFit
<1>4. OutOfSweepsReach' /\ FoundFit' /\ MarksFit' /\ UnopenedUnknown' /\ EntriesFit' /\ GitFit'
  BY UnadoptLookEffect, OutOfSweepsReachFrame, FoundFrame, MarksFrame, UnopenedFrame, EntriesFrame, GitFrame DEF Fits
<1> QED BY <1>1, <1>2, <1>3, <1>4 DEF Fits

LEMMA UnadoptSetMarkFits ==
    ASSUME Fits, NEW p \in PR, UnadoptSetMark(p) PROVE Fits'
<1>1. AdoptionTypeOK'
  <2>1. RepoOK' /\ TrackedOK' /\ FinOK' /\ PassOK'
    BY UnadoptSetMarkEffect, TypeParts DEF Fits, RepoOK, TrackedOK, FinOK, PassOK
  <2>2. ConnectionOK'
    BY UnadoptSetMarkWrites, TypeParts DEF Fits, ConnectionOK, MarkSet, OwnerSet, GivenBack
  <2>3. RequestsOK'
    BY UnadoptSetMarkWrites, UnadoptSetMarkEffect, TypeParts DEF Fits, RequestsOK, ReqSteps
  <2>4. FailuresOK'
    BY TypeParts, Sorts DEF Fits, FailuresOK, Failure, NoFailure, UnadoptSetMark
  <2> QED BY <2>1, <2>2, <2>3, <2>4, TypesNext
<1>2. OutOfSweepsReach'
  BY UnadoptSetMarkEffect, Sorts, KeySorts, TypeParts, FinStays DEF Fits, OutOfSweepsReach, ManagedBySharko, Exists, MarkSet, FinSame, Others, Same
<1>3. RequestsFit'
  <2>1. ASSUME NEW q \in PR, q # p PROVE RequestAt(q)'
    <3>1. RequestAt(q) /\ Same(q)
      BY <2>1, UnadoptSetMarkEffect DEF Fits, RequestsFit, Others
    <3> QED BY <3>1, UnadoptSetMarkEffect, SameRequest
  <2>2. RequestAt(p)'
    <3>1. p \in PR /\ RequestAt(p)
      BY UnadoptSetMarkEffect, Sorts DEF Fits, RequestsFit
    <3> QED BY <3>1, UnadoptSetMarkEffect, Sorts, KeySorts, TypeParts, FinStays DEF Fits, RequestAt, JoinSteps, UnadoptSteps, BeforeOpen, Finished, RepoOK, RequestsOK, FinSame
  <2> QED BY <2>1, <2>2 DEF RequestsFit
<1>4. MarksFit'
  BY UnadoptSetMarkEffect, Sorts, KeySorts, TypeParts, FinStays DEF Fits, MarksFit, Exists, Keys, PassOK, Nothing, MarkSet, FinSame, Others, Same
<1>5. UnopenedUnknown'
  <2>1. ASSUME NEW q \in PR, q # p PROVE UnopenedAt(q)'
    <3>1. UnopenedAt(q) /\ Same(q)
      BY <2>1, UnadoptSetMarkEffect DEF Fits, UnopenedUnknown, Others
    <3>2. Exists' => Exists /\ (connection'.mark[Key(q)] # q \/ connection'.mark[Key(q)] = connection.mark[Key(q)])
      BY UnadoptSetMarkEffect, <2>1, Sorts, KeySorts DEF Exists, Keys, MarkSet
    <3> QED BY <3>1, <3>2, UnadoptSetMarkEffect, SameUnopened
  <2>2. UnopenedAt(p)'
    <3>1. p \in PR /\ UnopenedAt(p)
      BY UnadoptSetMarkEffect, Sorts DEF Fits, UnopenedUnknown
    <3> QED BY <3>1, UnadoptSetMarkEffect, Sorts, KeySorts, TypeParts, FinStays DEF Fits, UnopenedAt, Exists, Keys, RequestsFit, RequestAt, BeforeOpen, Nothing, MarkSet, FinSame
  <2> QED BY <2>1, <2>2 DEF UnopenedUnknown
<1>6. FinFit'
  <2>1. ASSUME NEW q \in PR, q # p PROVE FinAt(q)'
    <3>1. FinAt(q) /\ Same(q)
      BY <2>1, UnadoptSetMarkEffect DEF Fits, FinFit, Others
    <3> QED BY <3>1, UnadoptSetMarkEffect, SameFin
  <2>2. FinAt(p)'
    <3>1. p \in PR /\ FinAt(p)
      BY UnadoptSetMarkEffect, Sorts DEF Fits, FinFit
    <3> QED BY <3>1, UnadoptSetMarkEffect, Sorts, KeySorts, TypeParts, FinStays DEF Fits, FinAt, Finished, RequestsFit, RequestAt, JoinSteps, UnadoptSteps, BeforeOpen, UnopenedUnknown, UnopenedAt, EntriesFit, EntryAt, GitFit, TrackedOK, Entry, FinSame
  <2> QED BY <2>1, <2>2 DEF FinFit
<1>7. FoundFit' /\ EntriesFit' /\ GitFit'
  BY UnadoptSetMarkEffect, FoundFrame, EntriesFrame, GitFrame DEF Fits
<1> QED BY <1>1, <1>2, <1>3, <1>4, <1>5, <1>6, <1>7 DEF Fits

LEMMA UnadoptOpenFits ==
    ASSUME Fits, NEW p \in PR, UnadoptOpen(p) PROVE Fits'
<1>1. AdoptionTypeOK'
  <2>1. ConnectionOK' /\ TrackedOK' /\ FinOK' /\ PassOK'
    BY UnadoptOpenEffect, TypeParts DEF Fits, ConnectionOK, TrackedOK, FinOK, PassOK
  <2>2. RepoOK'
    BY TypeParts, Sorts, UnadoptOpenEffect, OpenEffect DEF Fits, RepoOK, UnadoptOpen, Goto, repo, requests, marksPass
  <2>3. RequestsOK'
    BY TypeParts, Sorts, UnadoptOpenEffect DEF Fits, RequestsOK, UnadoptOpen, Goto, repo, requests, marksPass, ReqSteps
  <2>4. FailuresOK'
    BY TypeParts, Sorts DEF Fits, FailuresOK, Failure, NoFailure, UnadoptOpen
  <2> QED BY <2>1, <2>2, <2>3, <2>4, TypesNext
<1>2. RequestsFit'
  <2>1. ASSUME NEW q \in PR, q # p PROVE RequestAt(q)'
    <3>1. RequestAt(q) /\ Same(q)
      BY <2>1, UnadoptOpenEffect DEF Fits, RequestsFit, Others
    <3> QED BY <3>1, UnadoptOpenEffect, SameRequest
  <2>2. RequestAt(p)'
    <3>1. p \in PR /\ RequestAt(p)
      BY UnadoptOpenEffect, Sorts DEF Fits, RequestsFit
    <3> QED BY <3>1, UnadoptOpenEffect, Sorts, KeySorts, TypeParts, FinStays DEF Fits, RequestAt, JoinSteps, UnadoptSteps, BeforeOpen, Finished, RepoOK, RequestsOK, FinSame
  <2> QED BY <2>1, <2>2 DEF RequestsFit
<1>3. FoundFit'
  BY UnadoptOpenEffect, Sorts, KeySorts, TypeParts, FinStays DEF Fits, FoundFit, RequestsFit, RequestAt, FinSame, Others, Same
<1>4. UnopenedUnknown'
  <2>1. ASSUME NEW q \in PR, q # p PROVE UnopenedAt(q)'
    <3>1. UnopenedAt(q) /\ Same(q)
      BY <2>1, UnadoptOpenEffect DEF Fits, UnopenedUnknown, Others
    <3> QED BY <3>1, UnadoptOpenEffect, SameUnopened DEF Exists
  <2>2. UnopenedAt(p)'
    <3>1. p \in PR /\ UnopenedAt(p)
      BY UnadoptOpenEffect, Sorts DEF Fits, UnopenedUnknown
    <3> QED BY <3>1, UnadoptOpenEffect, Sorts, KeySorts, TypeParts, FinStays DEF Fits, UnopenedAt, Exists, Keys, RequestsFit, RequestAt, BeforeOpen, Nothing, FinSame
  <2> QED BY <2>1, <2>2 DEF UnopenedUnknown
<1>5. EntriesFit'
  <2>1. ASSUME NEW q \in PR, q # p PROVE EntryAt(q)'
    <3>1. EntryAt(q) /\ Same(q)
      BY <2>1, UnadoptOpenEffect DEF Fits, EntriesFit, Others
    <3> QED BY <3>1, UnadoptOpenEffect, SameEntry
  <2>2. EntryAt(p)'
    <3>1. p \in PR /\ EntryAt(p)
      BY UnadoptOpenEffect, Sorts DEF Fits, EntriesFit
    <3> QED BY <3>1, UnadoptOpenEffect, Sorts, KeySorts, TypeParts, FinStays DEF Fits, EntryAt, Finished, RepoOK, TrackedOK, Entry, RequestsFit, RequestAt, UnopenedUnknown, UnopenedAt, BeforeOpen, FinSame
  <2> QED BY <2>1, <2>2 DEF EntriesFit
<1>6. FinFit'
  <2>1. ASSUME NEW q \in PR, q # p PROVE FinAt(q)'
    <3>1. FinAt(q) /\ Same(q)
      BY <2>1, UnadoptOpenEffect DEF Fits, FinFit, Others
    <3> QED BY <3>1, UnadoptOpenEffect, SameFin
  <2>2. FinAt(p)'
    <3>1. p \in PR /\ FinAt(p)
      BY UnadoptOpenEffect, Sorts DEF Fits, FinFit
    <3> QED BY <3>1, UnadoptOpenEffect, Sorts, KeySorts, TypeParts, FinStays DEF Fits, FinAt, Finished, RequestsFit, RequestAt, JoinSteps, UnadoptSteps, BeforeOpen, UnopenedUnknown, UnopenedAt, EntriesFit, EntryAt, GitFit, TrackedOK, Entry, FinSame
  <2> QED BY <2>1, <2>2 DEF FinFit
<1>7. GitFit'
  BY UnadoptOpenEffect, Sorts, KeySorts, TypeParts, FinStays DEF Fits, GitFit, RepoOK, FinSame, Others, Same
<1>8. OutOfSweepsReach' /\ MarksFit'
  BY UnadoptOpenEffect, OutOfSweepsReachFrame, MarksFrame DEF Fits
<1> QED BY <1>1, <1>2, <1>3, <1>4, <1>5, <1>6, <1>7, <1>8 DEF Fits

LEMMA UnadoptTrackFits ==
    ASSUME Fits, NEW p \in PR, UnadoptTrack(p) PROVE Fits'
<1>1. AdoptionTypeOK'
  <2>1. RepoOK' /\ ConnectionOK' /\ FinOK' /\ PassOK'
    BY UnadoptTrackEffect, TypeParts DEF Fits, RepoOK, ConnectionOK, FinOK, PassOK
  <2>2. TrackedOK'
    BY TypeParts, Sorts, UnadoptTrackEffect, Record DEF Fits, TrackedOK, UnadoptTrack, Goto, NewEntry, repo, requests, marksPass
  <2>3. RequestsOK'
    BY TypeParts, Sorts, UnadoptTrackEffect DEF Fits, RequestsOK, UnadoptTrack, Goto, NewEntry, repo, requests, marksPass, ReqSteps
  <2>4. FailuresOK'
    BY TypeParts, Sorts DEF Fits, FailuresOK, Failure, NoFailure, UnadoptTrack
  <2> QED BY <2>1, <2>2, <2>3, <2>4, TypesNext
<1>2. RequestsFit'
  <2>1. ASSUME NEW q \in PR, q # p PROVE RequestAt(q)'
    <3>1. RequestAt(q) /\ Same(q)
      BY <2>1, UnadoptTrackEffect DEF Fits, RequestsFit, Others
    <3> QED BY <3>1, UnadoptTrackEffect, SameRequest
  <2>2. RequestAt(p)'
    <3>1. p \in PR /\ RequestAt(p)
      BY UnadoptTrackEffect, Sorts DEF Fits, RequestsFit
    <3> QED BY <3>1, UnadoptTrackEffect, Sorts, KeySorts, TypeParts, FinStays DEF Fits, RequestAt, JoinSteps, UnadoptSteps, BeforeOpen, Finished, RepoOK, RequestsOK, FinSame
  <2> QED BY <2>1, <2>2 DEF RequestsFit
<1>3. UnopenedUnknown'
  <2>1. ASSUME NEW q \in PR, q # p PROVE UnopenedAt(q)'
    <3>1. UnopenedAt(q) /\ Same(q)
      BY <2>1, UnadoptTrackEffect DEF Fits, UnopenedUnknown, Others
    <3> QED BY <3>1, UnadoptTrackEffect, SameUnopened DEF Exists
  <2>2. UnopenedAt(p)'
    <3>1. p \in PR /\ UnopenedAt(p)
      BY UnadoptTrackEffect, Sorts DEF Fits, UnopenedUnknown
    <3> QED BY <3>1, UnadoptTrackEffect, Sorts, KeySorts, TypeParts, FinStays DEF Fits, UnopenedAt, Exists, Keys, RequestsFit, RequestAt, BeforeOpen, Nothing, Recorded, FinSame
  <2> QED BY <2>1, <2>2 DEF UnopenedUnknown
<1>4. EntriesFit'
  <2>1. ASSUME NEW q \in PR, q # p PROVE EntryAt(q)'
    <3>1. EntryAt(q) /\ Same(q)
      BY <2>1, UnadoptTrackEffect DEF Fits, EntriesFit, Others
    <3> QED BY <3>1, UnadoptTrackEffect, SameEntry
  <2>2. EntryAt(p)'
    <3>1. p \in PR /\ EntryAt(p)
      BY UnadoptTrackEffect, Sorts DEF Fits, EntriesFit
    <3> QED BY <3>1, UnadoptTrackEffect, Sorts, KeySorts, TypeParts, FinStays DEF Fits, EntryAt, Finished, RepoOK, TrackedOK, Entry, RequestsFit, RequestAt, UnopenedUnknown, UnopenedAt, BeforeOpen, Recorded, FinSame
  <2> QED BY <2>1, <2>2 DEF EntriesFit
<1>5. FinFit'
  <2>1. ASSUME NEW q \in PR, q # p PROVE FinAt(q)'
    <3>1. FinAt(q) /\ Same(q)
      BY <2>1, UnadoptTrackEffect DEF Fits, FinFit, Others
    <3> QED BY <3>1, UnadoptTrackEffect, SameFin
  <2>2. FinAt(p)'
    <3>1. p \in PR /\ FinAt(p)
      BY UnadoptTrackEffect, Sorts DEF Fits, FinFit
    <3> QED BY <3>1, UnadoptTrackEffect, Sorts, KeySorts, TypeParts, FinStays DEF Fits, FinAt, Finished, RequestsFit, RequestAt, JoinSteps, UnadoptSteps, BeforeOpen, UnopenedUnknown, UnopenedAt, EntriesFit, EntryAt, GitFit, TrackedOK, Entry, Recorded, FinSame
  <2> QED BY <2>1, <2>2 DEF FinFit
<1>6. OutOfSweepsReach' /\ FoundFit' /\ MarksFit' /\ GitFit'
  BY UnadoptTrackEffect, OutOfSweepsReachFrame, FoundFrame, MarksFrame, GitFrame DEF Fits
<1> QED BY <1>1, <1>2, <1>3, <1>4, <1>5, <1>6 DEF Fits

LEMMA UnadoptMergeFits ==
    ASSUME Fits, NEW p \in PR, UnadoptMerge(p) PROVE Fits'
<1>1. AdoptionTypeOK'
  <2>1. ConnectionOK' /\ TrackedOK' /\ FinOK' /\ PassOK'
    BY UnadoptMergeEffect, TypeParts DEF Fits, ConnectionOK, TrackedOK, FinOK, PassOK
  <2>2. RepoOK'
    BY TypeParts, Sorts, UnadoptMergeEffect, MergeEffect DEF Fits, RepoOK, UnadoptMerge, Goto, repo, requests, marksPass
  <2>3. RequestsOK'
    BY TypeParts, Sorts, UnadoptMergeEffect DEF Fits, RequestsOK, UnadoptMerge, Goto, repo, requests, marksPass, ReqSteps
  <2>4. FailuresOK'
    BY TypeParts, Sorts DEF Fits, FailuresOK, Failure, NoFailure, UnadoptMerge
  <2> QED BY <2>1, <2>2, <2>3, <2>4, TypesNext
<1>2. RequestsFit'
  <2>1. ASSUME NEW q \in PR, q # p PROVE RequestAt(q)'
    <3>1. RequestAt(q) /\ Same(q)
      BY <2>1, UnadoptMergeEffect DEF Fits, RequestsFit, Others
    <3> QED BY <3>1, UnadoptMergeEffect, SameRequest
  <2>2. RequestAt(p)'
    <3>1. p \in PR /\ RequestAt(p)
      BY UnadoptMergeEffect, Sorts DEF Fits, RequestsFit
    <3> QED BY <3>1, UnadoptMergeEffect, Sorts, KeySorts, TypeParts, FinStays DEF Fits, RequestAt, JoinSteps, UnadoptSteps, BeforeOpen, Finished, RepoOK, RequestsOK, Merged, FinSame
  <2> QED BY <2>1, <2>2 DEF RequestsFit
<1>3. FoundFit'
  BY UnadoptMergeEffect, Sorts, KeySorts, TypeParts, FinStays DEF Fits, FoundFit, RequestsFit, RequestAt, Merged, FinSame, Others, Same
<1>4. UnopenedUnknown'
  <2>1. ASSUME NEW q \in PR, q # p PROVE UnopenedAt(q)'
    <3>1. UnopenedAt(q) /\ Same(q)
      BY <2>1, UnadoptMergeEffect DEF Fits, UnopenedUnknown, Others
    <3> QED BY <3>1, UnadoptMergeEffect, SameUnopened DEF Exists
  <2>2. UnopenedAt(p)'
    <3>1. p \in PR /\ UnopenedAt(p)
      BY UnadoptMergeEffect, Sorts DEF Fits, UnopenedUnknown
    <3> QED BY <3>1, UnadoptMergeEffect, Sorts, KeySorts, TypeParts, FinStays DEF Fits, UnopenedAt, Exists, Keys, RequestsFit, RequestAt, BeforeOpen, Nothing, Merged, FinSame
  <2> QED BY <2>1, <2>2 DEF UnopenedUnknown
<1>5. EntriesFit'
  <2>1. ASSUME NEW q \in PR, q # p PROVE EntryAt(q)'
    <3>1. EntryAt(q) /\ Same(q)
      BY <2>1, UnadoptMergeEffect DEF Fits, EntriesFit, Others
    <3> QED BY <3>1, UnadoptMergeEffect, SameEntry
  <2>2. EntryAt(p)'
    <3>1. p \in PR /\ EntryAt(p)
      BY UnadoptMergeEffect, Sorts DEF Fits, EntriesFit
    <3> QED BY <3>1, UnadoptMergeEffect, Sorts, KeySorts, TypeParts, FinStays DEF Fits, EntryAt, Finished, RepoOK, TrackedOK, Entry, RequestsFit, RequestAt, UnopenedUnknown, UnopenedAt, BeforeOpen, Merged, FinSame
  <2> QED BY <2>1, <2>2 DEF EntriesFit
<1>6. FinFit'
  <2>1. ASSUME NEW q \in PR, q # p PROVE FinAt(q)'
    <3>1. FinAt(q) /\ Same(q)
      BY <2>1, UnadoptMergeEffect DEF Fits, FinFit, Others
    <3> QED BY <3>1, UnadoptMergeEffect, SameFin
  <2>2. FinAt(p)'
    <3>1. p \in PR /\ FinAt(p)
      BY UnadoptMergeEffect, Sorts DEF Fits, FinFit
    <3> QED BY <3>1, UnadoptMergeEffect, Sorts, KeySorts, TypeParts, FinStays DEF Fits, FinAt, Finished, RequestsFit, RequestAt, JoinSteps, UnadoptSteps, BeforeOpen, UnopenedUnknown, UnopenedAt, EntriesFit, EntryAt, GitFit, TrackedOK, Entry, Merged, FinSame
  <2> QED BY <2>1, <2>2 DEF FinFit
<1>7. GitFit'
  BY UnadoptMergeEffect, Sorts, KeySorts, TypeParts, FinStays DEF Fits, GitFit, RepoOK, Merged, FinSame, Others, Same
<1>8. OutOfSweepsReach' /\ MarksFit'
  BY UnadoptMergeEffect, OutOfSweepsReachFrame, MarksFrame DEF Fits
<1> QED BY <1>1, <1>2, <1>3, <1>4, <1>5, <1>6, <1>7, <1>8 DEF Fits

LEMMA UnadoptNumberFits ==
    ASSUME Fits, NEW p \in PR, UnadoptNumber(p) PROVE Fits'
<1>1. AdoptionTypeOK'
  <2>1. RepoOK' /\ TrackedOK' /\ PassOK'
    BY UnadoptNumberEffect, TypeParts DEF Fits, RepoOK, TrackedOK, PassOK
  <2>2. ConnectionOK'
    BY UnadoptNumberWrites, TypeParts DEF Fits, ConnectionOK, MarkSet, OwnerSet, GivenBack
  <2>3. RequestsOK'
    BY TypeParts, Sorts, UnadoptNumberEffect DEF Fits, RequestsOK, UnadoptNumber, Goto, repo, requests, marksPass, ReqSteps
  <2>4. FinOK'
    BY UnadoptNumberWrites, TypeParts DEF Fits, FinOK
  <2>5. FailuresOK'
    BY TypeParts, Sorts DEF Fits, FailuresOK, Failure, NoFailure, UnadoptNumber
  <2> QED BY <2>1, <2>2, <2>3, <2>4, <2>5, TypesNext
<1>2. OutOfSweepsReach'
  BY UnadoptNumberEffect, Sorts, KeySorts, TypeParts DEF Fits, OutOfSweepsReach, ManagedBySharko, Exists, MarkSet, FinSame, Others, Same
<1>3. RequestsFit'
  <2>1. ASSUME NEW q \in PR, q # p PROVE RequestAt(q)'
    <3>1. RequestAt(q) /\ Same(q)
      BY <2>1, UnadoptNumberEffect DEF Fits, RequestsFit, Others
    <3> QED BY <3>1, UnadoptNumberEffect, SameRequest
  <2>2. RequestAt(p)'
    <3>1. p \in PR /\ RequestAt(p)
      BY UnadoptNumberEffect, Sorts DEF Fits, RequestsFit
    <3> QED BY <3>1, UnadoptNumberEffect, Sorts, KeySorts, TypeParts DEF Fits, RequestAt, JoinSteps, UnadoptSteps, BeforeOpen, Finished, RepoOK, RequestsOK, FinSame
  <2> QED BY <2>1, <2>2 DEF RequestsFit
<1>4. MarksFit'
  BY UnadoptNumberEffect, Sorts, KeySorts, TypeParts DEF Fits, MarksFit, Exists, Keys, PassOK, Nothing, MarkSet, FinSame, Others, Same
<1>5. UnopenedUnknown'
  <2>1. ASSUME NEW q \in PR, q # p PROVE UnopenedAt(q)'
    <3>1. UnopenedAt(q) /\ Same(q)
      BY <2>1, UnadoptNumberEffect DEF Fits, UnopenedUnknown, Others
    <3>2. Exists' => Exists /\ (connection'.mark[Key(q)] # q \/ connection'.mark[Key(q)] = connection.mark[Key(q)])
      BY UnadoptNumberEffect, <2>1, Sorts, KeySorts DEF Exists, Keys, MarkSet
    <3> QED BY <3>1, <3>2, UnadoptNumberEffect, SameUnopened
  <2>2. UnopenedAt(p)'
    <3>1. p \in PR /\ UnopenedAt(p)
      BY UnadoptNumberEffect, Sorts DEF Fits, UnopenedUnknown
    <3> QED BY <3>1, UnadoptNumberEffect, Sorts, KeySorts, TypeParts DEF Fits, UnopenedAt, Exists, Keys, RequestsFit, RequestAt, BeforeOpen, Nothing, MarkSet, RequestSet, FinSame
  <2> QED BY <2>1, <2>2 DEF UnopenedUnknown
<1>6. FinFit'
  <2>1. ASSUME NEW q \in PR, q # p PROVE FinAt(q)'
    <3>1. FinAt(q) /\ Same(q)
      BY <2>1, UnadoptNumberEffect DEF Fits, FinFit, Others
    <3> QED BY <3>1, UnadoptNumberEffect, SameFin
  <2>2. FinAt(p)'
    <3>1. p \in PR /\ FinAt(p)
      BY UnadoptNumberEffect, Sorts DEF Fits, FinFit
    <3> QED BY <3>1, UnadoptNumberEffect, Sorts, KeySorts, TypeParts DEF Fits, FinAt, Finished, RequestsFit, RequestAt, JoinSteps, UnadoptSteps, BeforeOpen, UnopenedUnknown, UnopenedAt, EntriesFit, EntryAt, GitFit, TrackedOK, Entry, RequestSet, FinSame
  <2> QED BY <2>1, <2>2 DEF FinFit
<1>7. FoundFit' /\ EntriesFit' /\ GitFit'
  BY UnadoptNumberEffect, FoundFrame, EntriesFrame, GitFrame DEF Fits
<1> QED BY <1>1, <1>2, <1>3, <1>4, <1>5, <1>6, <1>7 DEF Fits

LEMMA TrackerSeesFits ==
    ASSUME Fits, NEW p \in PR, TrackerSees(p) PROVE Fits'
<1>1. AdoptionTypeOK'
  <2>1. RepoOK' /\ ConnectionOK' /\ RequestsOK' /\ FinOK' /\ PassOK' /\ FailuresOK'
    BY TrackerSeesEffect, TypeParts DEF Fits, RepoOK, ConnectionOK, RequestsOK, FinOK, PassOK, FailuresOK, NoFailure
  <2>2. TrackedOK'
    <3>1. git[p] \in {"open", "merged", "closed", "gone"}
      BY TrackerSeesEffect, TypeParts DEF Fits, RepoOK, UnopenedUnknown, UnopenedAt
    <3> QED BY <3>1, Record, TypeParts DEF Fits, TrackerSees
  <2> QED BY <2>1, <2>2, TypesNext
<1>2. UnopenedUnknown'
  <2>1. ASSUME NEW q \in PR, q # p PROVE UnopenedAt(q)'
    <3>1. UnopenedAt(q) /\ Same(q)
      BY <2>1, TrackerSeesEffect DEF Fits, UnopenedUnknown, Others
    <3> QED BY <3>1, TrackerSeesEffect, SameUnopened DEF Exists
  <2>2. UnopenedAt(p)'
    <3>1. p \in PR /\ UnopenedAt(p)
      BY TrackerSeesEffect, Sorts DEF Fits, UnopenedUnknown
    <3> QED BY <3>1, TrackerSeesEffect, Sorts, KeySorts, TypeParts, FinStays DEF Fits, UnopenedAt, Exists, Keys, RequestsFit, RequestAt, BeforeOpen, Nothing, Recorded, FinSame
  <2> QED BY <2>1, <2>2 DEF UnopenedUnknown
<1>3. EntriesFit'
  <2>1. ASSUME NEW q \in PR, q # p PROVE EntryAt(q)'
    <3>1. EntryAt(q) /\ Same(q)
      BY <2>1, TrackerSeesEffect DEF Fits, EntriesFit, Others
    <3> QED BY <3>1, TrackerSeesEffect, SameEntry
  <2>2. EntryAt(p)'
    <3>1. p \in PR /\ EntryAt(p)
      BY TrackerSeesEffect, Sorts DEF Fits, EntriesFit
    <3> QED BY <3>1, TrackerSeesEffect, Sorts, KeySorts, TypeParts, FinStays DEF Fits, EntryAt, Finished, RepoOK, TrackedOK, Entry, RequestsFit, RequestAt, UnopenedUnknown, UnopenedAt, BeforeOpen, Recorded, FinSame
  <2> QED BY <2>1, <2>2 DEF EntriesFit
<1>4. FinFit'
  <2>1. ASSUME NEW q \in PR, q # p PROVE FinAt(q)'
    <3>1. FinAt(q) /\ Same(q)
      BY <2>1, TrackerSeesEffect DEF Fits, FinFit, Others
    <3> QED BY <3>1, TrackerSeesEffect, SameFin
  <2>2. FinAt(p)'
    <3>1. p \in PR /\ FinAt(p)
      BY TrackerSeesEffect, Sorts DEF Fits, FinFit
    <3> QED BY <3>1, TrackerSeesEffect, Sorts, KeySorts, TypeParts, FinStays DEF Fits, FinAt, Finished, RequestsFit, RequestAt, JoinSteps, UnadoptSteps, BeforeOpen, UnopenedUnknown, UnopenedAt, EntriesFit, EntryAt, GitFit, TrackedOK, Entry, Recorded, FinSame
  <2> QED BY <2>1, <2>2 DEF FinFit
<1>5. OutOfSweepsReach' /\ RequestsFit' /\ FoundFit' /\ MarksFit' /\ GitFit'
  BY TrackerSeesEffect, OutOfSweepsReachFrame, RequestsFrame, FoundFrame, MarksFrame, GitFrame DEF Fits
<1> QED BY <1>1, <1>2, <1>3, <1>4, <1>5 DEF Fits

LEMMA FinishStartFits ==
    ASSUME Fits, NEW p \in PR, FinishStart(p) PROVE Fits'
<1>1. AdoptionTypeOK'
  <2>1. RepoOK' /\ ConnectionOK' /\ TrackedOK' /\ RequestsOK' /\ PassOK' /\ FailuresOK'
    BY FinishStartEffect, TypeParts DEF Fits, RepoOK, ConnectionOK, TrackedOK, RequestsOK, PassOK, FailuresOK, NoFailure
  <2>2. FinOK'
    BY FinishStartWrites, TypeParts DEF Fits, FinOK
  <2> QED BY <2>1, <2>2, TypesNext
<1>2. UnopenedUnknown'
  <2>1. ASSUME NEW q \in PR, q # p PROVE UnopenedAt(q)'
    <3>1. UnopenedAt(q) /\ Same(q)
      BY <2>1, FinishStartEffect DEF Fits, UnopenedUnknown, Others
    <3> QED BY <3>1, FinishStartEffect, SameUnopened DEF Exists
  <2>2. UnopenedAt(p)'
    <3>1. p \in PR /\ UnopenedAt(p)
      BY FinishStartEffect, Sorts DEF Fits, UnopenedUnknown
    <3> QED BY <3>1, FinishStartEffect, Sorts, KeySorts, TypeParts DEF Fits, UnopenedAt, Exists, Keys, RequestsFit, RequestAt, BeforeOpen, Nothing, TrackerSet, FinSame
  <2> QED BY <2>1, <2>2 DEF UnopenedUnknown
<1>3. FinFit'
  <2>1. ASSUME NEW q \in PR, q # p PROVE FinAt(q)'
    <3>1. FinAt(q) /\ Same(q)
      BY <2>1, FinishStartEffect DEF Fits, FinFit, Others
    <3> QED BY <3>1, FinishStartEffect, SameFin
  <2>2. FinAt(p)'
    <3>1. p \in PR /\ FinAt(p)
      BY FinishStartEffect, Sorts DEF Fits, FinFit
    <3> QED BY <3>1, FinishStartEffect, Sorts, KeySorts, TypeParts DEF Fits, FinAt, Finished, RequestsFit, RequestAt, JoinSteps, UnadoptSteps, BeforeOpen, UnopenedUnknown, UnopenedAt, EntriesFit, EntryAt, GitFit, TrackedOK, Entry, TrackerSet, FinSame
  <2> QED BY <2>1, <2>2 DEF FinFit
<1>4. OutOfSweepsReach' /\ RequestsFit' /\ FoundFit' /\ MarksFit' /\ EntriesFit' /\ GitFit'
  BY FinishStartEffect, OutOfSweepsReachFrame, RequestsFrame, FoundFrame, MarksFrame, EntriesFrame, GitFrame DEF Fits
<1> QED BY <1>1, <1>2, <1>3, <1>4 DEF Fits

LEMMA FinishLookFits ==
    ASSUME Fits, NEW f \in Finisher, FinishLook(f) PROVE Fits'
<1>1. AdoptionTypeOK'
  <2>1. RepoOK' /\ ConnectionOK' /\ TrackedOK' /\ RequestsOK' /\ PassOK'
    BY FinishLookEffect, TypeParts DEF Fits, RepoOK, ConnectionOK, TrackedOK, RequestsOK, PassOK
  <2>2. FinOK'
    BY FinishLookWrites, TypeParts DEF Fits, FinOK
  <2>3. FailuresOK'
    BY TypeParts, Sorts DEF Fits, FailuresOK, Failure, NoFailure, FinishLook
  <2> QED BY <2>1, <2>2, <2>3, TypesNext
<1>2. UnopenedUnknown'
  <2>1. ASSUME NEW q \in PR, q # f[1] PROVE UnopenedAt(q)'
    <3>1. UnopenedAt(q) /\ Same(q)
      BY <2>1, FinishLookEffect DEF Fits, UnopenedUnknown, Others
    <3> QED BY <3>1, FinishLookEffect, SameUnopened DEF Exists
  <2>2. UnopenedAt(f[1])'
    <3>1. f[1] \in PR /\ UnopenedAt(f[1])
      BY FinishLookEffect, Sorts DEF Fits, UnopenedUnknown
    <3> QED BY <3>1, FinishLookEffect, Sorts, KeySorts, TypeParts DEF Fits, UnopenedAt, Exists, Keys, RequestsFit, RequestAt, BeforeOpen, Nothing, TrackerSet, FinSame
  <2> QED BY <2>1, <2>2 DEF UnopenedUnknown
<1>3. FinFit'
  <2>1. ASSUME NEW q \in PR, q # f[1] PROVE FinAt(q)'
    <3>1. FinAt(q) /\ Same(q)
      BY <2>1, FinishLookEffect DEF Fits, FinFit, Others
    <3> QED BY <3>1, FinishLookEffect, SameFin
  <2>2. FinAt(f[1])'
    <3>1. f[1] \in PR /\ FinAt(f[1])
      BY FinishLookEffect, Sorts DEF Fits, FinFit
    <3> QED BY <3>1, FinishLookEffect, Sorts, KeySorts, TypeParts DEF Fits, FinAt, Finished, RequestsFit, RequestAt, JoinSteps, UnadoptSteps, BeforeOpen, UnopenedUnknown, UnopenedAt, EntriesFit, EntryAt, GitFit, TrackedOK, Entry, TrackerSet, FinSame
  <2> QED BY <2>1, <2>2 DEF FinFit
<1>4. OutOfSweepsReach' /\ RequestsFit' /\ FoundFit' /\ MarksFit' /\ EntriesFit' /\ GitFit'
  BY FinishLookEffect, OutOfSweepsReachFrame, RequestsFrame, FoundFrame, MarksFrame, EntriesFrame, GitFrame DEF Fits
<1> QED BY <1>1, <1>2, <1>3, <1>4 DEF Fits

LEMMA FinishSwapFits ==
    ASSUME Fits, NEW f \in Finisher, FinishSwap(f) PROVE Fits'
<1>1. AdoptionTypeOK'
  <2>1. RepoOK' /\ TrackedOK' /\ RequestsOK' /\ PassOK'
    BY FinishSwapEffect, TypeParts DEF Fits, RepoOK, TrackedOK, RequestsOK, PassOK
  <2>2. ConnectionOK'
    BY FinishSwapWrites, TypeParts DEF Fits, ConnectionOK, MarkSet, OwnerSet, GivenBack
  <2>3. FinOK'
    BY FinishSwapWrites, TypeParts DEF Fits, FinOK
  <2>4. FailuresOK'
    BY TypeParts, Sorts DEF Fits, FailuresOK, Failure, NoFailure, FinishSwap
  <2> QED BY <2>1, <2>2, <2>3, <2>4, TypesNext
<1>2. OutOfSweepsReach'
  BY FinishSwapEffect, Sorts, KeySorts, TypeParts DEF Fits, OutOfSweepsReach, ManagedBySharko, Exists, OwnerSet, Others, Same, FinSame
<1>3. MarksFit'
  BY FinishSwapEffect, OwnerKeepsMarks, MarksFrame DEF Fits
<1>4. UnopenedUnknown'
  <2>1. ASSUME NEW q \in PR, q # f[1] PROVE UnopenedAt(q)'
    <3>1. UnopenedAt(q) /\ Same(q)
      BY <2>1, FinishSwapEffect DEF Fits, UnopenedUnknown, Others
    <3>2. Exists' => Exists /\ (connection'.mark[Key(q)] # q \/ connection'.mark[Key(q)] = connection.mark[Key(q)])
      BY FinishSwapEffect, <2>1, Sorts, KeySorts DEF Exists, Keys, OwnerSet
    <3> QED BY <3>1, <3>2, FinishSwapEffect, SameUnopened
  <2>2. UnopenedAt(f[1])'
    <3>1. f[1] \in PR /\ UnopenedAt(f[1])
      BY FinishSwapEffect, Sorts DEF Fits, UnopenedUnknown
    <3>2. git[f[1]] # "none"
      BY <3>1, FinishSwapEffect DEF UnopenedAt
    <3> QED BY <3>1, <3>2, FinishSwapEffect, OwnerKeepsUnopened
  <2> QED BY <2>1, <2>2 DEF UnopenedUnknown
<1>5. FinFit'
  <2>1. ASSUME NEW q \in PR, q # f[1] PROVE FinAt(q)'
    <3>1. FinAt(q) /\ Same(q)
      BY <2>1, FinishSwapEffect DEF Fits, FinFit, Others
    <3> QED BY <3>1, FinishSwapEffect, SameFin
  <2>2. FinAt(f[1])'
    <3>1. f[1] \in PR /\ FinAt(f[1])
      BY FinishSwapEffect, Sorts DEF Fits, FinFit
    <3> QED BY <3>1, FinishSwapEffect, Sorts, KeySorts, TypeParts DEF Fits, FinAt, Finished, RequestsFit, RequestAt, JoinSteps, UnadoptSteps, BeforeOpen, UnopenedUnknown, UnopenedAt, EntriesFit, EntryAt, GitFit, TrackedOK, Entry, TrackerSet, FinSame
  <2> QED BY <2>1, <2>2 DEF FinFit
<1>6. RequestsFit' /\ FoundFit' /\ EntriesFit' /\ GitFit'
  BY FinishSwapEffect, RequestsFrame, FoundFrame, EntriesFrame, GitFrame DEF Fits
<1> QED BY <1>1, <1>2, <1>3, <1>4, <1>5, <1>6 DEF Fits

LEMMA FinishAnnotateFits ==
    ASSUME Fits, NEW f \in Finisher, FinishAnnotate(f) PROVE Fits'
<1>1. AdoptionTypeOK'
  <2>1. RepoOK' /\ TrackedOK' /\ RequestsOK' /\ PassOK'
    BY FinishAnnotateEffect, TypeParts DEF Fits, RepoOK, TrackedOK, RequestsOK, PassOK
  <2>2. ConnectionOK'
    BY FinishAnnotateWrites, TypeParts DEF Fits, ConnectionOK, MarkSet, OwnerSet, GivenBack
  <2>3. FinOK'
    BY FinishAnnotateWrites, TypeParts DEF Fits, FinOK
  <2>4. FailuresOK'
    BY TypeParts, Sorts DEF Fits, FailuresOK, Failure, NoFailure, FinishAnnotate
  <2> QED BY <2>1, <2>2, <2>3, <2>4, TypesNext
<1>2. OutOfSweepsReach'
  BY FinishAnnotateEffect, Sorts, KeySorts, TypeParts DEF Fits, OutOfSweepsReach, ManagedBySharko, Exists, OwnerSet, Others, Same, FinSame
<1>3. MarksFit'
  BY FinishAnnotateEffect, OwnerKeepsMarks, MarksFrame DEF Fits
<1>4. UnopenedUnknown'
  <2>1. ASSUME NEW q \in PR, q # f[1] PROVE UnopenedAt(q)'
    <3>1. UnopenedAt(q) /\ Same(q)
      BY <2>1, FinishAnnotateEffect DEF Fits, UnopenedUnknown, Others
    <3>2. Exists' => Exists /\ (connection'.mark[Key(q)] # q \/ connection'.mark[Key(q)] = connection.mark[Key(q)])
      BY FinishAnnotateEffect, <2>1, Sorts, KeySorts DEF Exists, Keys, OwnerSet
    <3> QED BY <3>1, <3>2, FinishAnnotateEffect, SameUnopened
  <2>2. UnopenedAt(f[1])'
    <3>1. f[1] \in PR /\ UnopenedAt(f[1])
      BY FinishAnnotateEffect, Sorts DEF Fits, UnopenedUnknown
    <3> QED BY <3>1, FinishAnnotateEffect, Sorts, KeySorts, TypeParts DEF Fits, UnopenedAt, Exists, Keys, RequestsFit, RequestAt, BeforeOpen, Nothing, OwnerSet, TrackerSet, FinSame
  <2> QED BY <2>1, <2>2 DEF UnopenedUnknown
<1>5. FinFit'
  <2>1. ASSUME NEW q \in PR, q # f[1] PROVE FinAt(q)'
    <3>1. FinAt(q) /\ Same(q)
      BY <2>1, FinishAnnotateEffect DEF Fits, FinFit, Others
    <3> QED BY <3>1, FinishAnnotateEffect, SameFin
  <2>2. FinAt(f[1])'
    <3>1. f[1] \in PR /\ FinAt(f[1])
      BY FinishAnnotateEffect, Sorts DEF Fits, FinFit
    <3> QED BY <3>1, FinishAnnotateEffect, Sorts, KeySorts, TypeParts DEF Fits, FinAt, Finished, RequestsFit, RequestAt, JoinSteps, UnadoptSteps, BeforeOpen, UnopenedUnknown, UnopenedAt, EntriesFit, EntryAt, GitFit, TrackedOK, Entry, TrackerSet, FinSame
  <2> QED BY <2>1, <2>2 DEF FinFit
<1>6. RequestsFit' /\ FoundFit' /\ EntriesFit' /\ GitFit'
  BY FinishAnnotateEffect, RequestsFrame, FoundFrame, EntriesFrame, GitFrame DEF Fits
<1> QED BY <1>1, <1>2, <1>3, <1>4, <1>5, <1>6 DEF Fits

LEMMA FinishCheckFits ==
    ASSUME Fits, NEW f \in Finisher, FinishCheck(f) PROVE Fits'
<1>1. AdoptionTypeOK'
  <2>1. RepoOK' /\ ConnectionOK' /\ TrackedOK' /\ RequestsOK' /\ PassOK'
    BY FinishCheckEffect, TypeParts DEF Fits, RepoOK, ConnectionOK, TrackedOK, RequestsOK, PassOK
  <2>2. FinOK'
    BY FinishCheckWrites, TypeParts DEF Fits, FinOK
  <2>3. FailuresOK'
    BY TypeParts, Sorts DEF Fits, FailuresOK, Failure, NoFailure, FinishCheck
  <2> QED BY <2>1, <2>2, <2>3, TypesNext
<1>2. UnopenedUnknown'
  <2>1. ASSUME NEW q \in PR, q # f[1] PROVE UnopenedAt(q)'
    <3>1. UnopenedAt(q) /\ Same(q)
      BY <2>1, FinishCheckEffect DEF Fits, UnopenedUnknown, Others
    <3> QED BY <3>1, FinishCheckEffect, SameUnopened DEF Exists
  <2>2. UnopenedAt(f[1])'
    <3>1. f[1] \in PR /\ UnopenedAt(f[1])
      BY FinishCheckEffect, Sorts DEF Fits, UnopenedUnknown
    <3> QED BY <3>1, FinishCheckEffect, Sorts, KeySorts, TypeParts DEF Fits, UnopenedAt, Exists, Keys, RequestsFit, RequestAt, BeforeOpen, Nothing, TrackerSet, FinSame
  <2> QED BY <2>1, <2>2 DEF UnopenedUnknown
<1>3. FinFit'
  <2>1. ASSUME NEW q \in PR, q # f[1] PROVE FinAt(q)'
    <3>1. FinAt(q) /\ Same(q)
      BY <2>1, FinishCheckEffect DEF Fits, FinFit, Others
    <3> QED BY <3>1, FinishCheckEffect, SameFin
  <2>2. FinAt(f[1])'
    <3>1. f[1] \in PR /\ FinAt(f[1])
      BY FinishCheckEffect, Sorts DEF Fits, FinFit
    <3> QED BY <3>1, FinishCheckEffect, Sorts, KeySorts, TypeParts DEF Fits, FinAt, Finished, RequestsFit, RequestAt, JoinSteps, UnadoptSteps, BeforeOpen, UnopenedUnknown, UnopenedAt, EntriesFit, EntryAt, GitFit, TrackedOK, Entry, TrackerSet, FinSame
  <2> QED BY <2>1, <2>2 DEF FinFit
<1>4. OutOfSweepsReach' /\ RequestsFit' /\ FoundFit' /\ MarksFit' /\ EntriesFit' /\ GitFit'
  BY FinishCheckEffect, OutOfSweepsReachFrame, RequestsFrame, FoundFrame, MarksFrame, EntriesFrame, GitFrame DEF Fits
<1> QED BY <1>1, <1>2, <1>3, <1>4 DEF Fits

LEMMA FinishStripFits ==
    ASSUME Fits, NEW f \in Finisher, FinishStrip(f) PROVE Fits'
<1>1. AdoptionTypeOK'
  <2>1. RepoOK' /\ TrackedOK' /\ RequestsOK' /\ PassOK'
    BY FinishStripEffect, TypeParts DEF Fits, RepoOK, TrackedOK, RequestsOK, PassOK
  <2>2. ConnectionOK'
    BY FinishStripWrites, TypeParts DEF Fits, ConnectionOK, MarkSet, OwnerSet, GivenBack
  <2>3. FinOK'
    BY FinishStripWrites, TypeParts DEF Fits, FinOK
  <2>4. FailuresOK'
    BY TypeParts, Sorts DEF Fits, FailuresOK, Failure, NoFailure, FinishStrip
  <2> QED BY <2>1, <2>2, <2>3, <2>4, TypesNext
<1>2. OutOfSweepsReach'
  BY FinishStripEffect, Sorts, KeySorts, TypeParts DEF Fits, OutOfSweepsReach, ManagedBySharko, Exists, OwnerSet, RunAt, Others, Same, FinSame
<1>3. MarksFit'
  BY FinishStripEffect, OwnerKeepsMarks, MarksFrame DEF Fits
<1>4. UnopenedUnknown'
  <2>1. ASSUME NEW q \in PR, q # f[1] PROVE UnopenedAt(q)'
    <3>1. UnopenedAt(q) /\ Same(q)
      BY <2>1, FinishStripEffect DEF Fits, UnopenedUnknown, Others
    <3>2. Exists' => Exists /\ (connection'.mark[Key(q)] # q \/ connection'.mark[Key(q)] = connection.mark[Key(q)])
      BY FinishStripEffect, <2>1, Sorts, KeySorts DEF Exists, Keys, OwnerSet
    <3> QED BY <3>1, <3>2, FinishStripEffect, SameUnopened
  <2>2. UnopenedAt(f[1])'
    <3>1. f[1] \in PR /\ UnopenedAt(f[1])
      BY FinishStripEffect, Sorts DEF Fits, UnopenedUnknown
    <3>2. TrackerStep(f[1])' = TrackerStep(f[1]) \/ git[f[1]] # "none"
      BY <3>1, FinishStripEffect DEF UnopenedAt, RunSet, RunAt, TrackerSet, RequestSet
    <3> QED BY <3>1, <3>2, FinishStripEffect, OwnerKeepsUnopened
  <2> QED BY <2>1, <2>2 DEF UnopenedUnknown
<1>5. FinFit'
  <2>1. ASSUME NEW q \in PR, q # f[1] PROVE FinAt(q)'
    <3>1. FinAt(q) /\ Same(q)
      BY <2>1, FinishStripEffect DEF Fits, FinFit, Others
    <3> QED BY <3>1, FinishStripEffect, SameFin
  <2>2. FinAt(f[1])'
    <3>1. /\ f[1] \in PR /\ FinAt(f[1]) /\ f[1] \in UnadoptPR /\ f[1] \notin Join /\ RunAt(f, "strip")
          /\ UNCHANGED <<git, req, tracked>>
      BY FinishStripEffect, Sorts DEF Fits, FinFit
    <3>2. RunSet(f, "done") \/ RunSet(f, "failed") \/ (RunSet(f, "unmark") /\ git[f[1]] # "none")
      BY FinishStripEffect
    <3>3. git[f[1]] # "none" /\ RunAt(f, "strip") => Finished(f[1])
      BY <3>1 DEF FinAt, RunAt, Finished
    <3> QED BY <3>1, <3>2, <3>3 DEF FinAt, Finished, RunSet, RunAt, TrackerSet, RequestSet
  <2> QED BY <2>1, <2>2 DEF FinFit
<1>6. RequestsFit' /\ FoundFit' /\ EntriesFit' /\ GitFit'
  BY FinishStripEffect, RequestsFrame, FoundFrame, EntriesFrame, GitFrame DEF Fits
<1> QED BY <1>1, <1>2, <1>3, <1>4, <1>5, <1>6 DEF Fits

LEMMA FinishUnmarkFits ==
    ASSUME Fits, NEW f \in Finisher, FinishUnmark(f) PROVE Fits'
<1>1. AdoptionTypeOK'
  <2>1. RepoOK' /\ TrackedOK' /\ RequestsOK' /\ PassOK'
    BY FinishUnmarkEffect, TypeParts DEF Fits, RepoOK, TrackedOK, RequestsOK, PassOK
  <2>2. ConnectionOK'
    BY FinishUnmarkWrites, TypeParts DEF Fits, ConnectionOK, MarkSet, OwnerSet, GivenBack
  <2>3. FinOK'
    BY FinishUnmarkWrites, TypeParts DEF Fits, FinOK
  <2>4. FailuresOK'
    BY TypeParts, Sorts DEF Fits, FailuresOK, Failure, NoFailure, FinishUnmark
  <2> QED BY <2>1, <2>2, <2>3, <2>4, TypesNext
<1>2. OutOfSweepsReach'
  BY FinishUnmarkEffect, Sorts, KeySorts, TypeParts DEF Fits, OutOfSweepsReach, ManagedBySharko, Exists, MarkSet, RunAt, Others, Same, FinSame
<1>3. MarksFit'
  BY FinishUnmarkEffect, Sorts, KeySorts, TypeParts DEF Fits, MarksFit, Exists, Keys, PassOK, Nothing, MarkSet, RunAt, Others, Same, FinSame
<1>4. UnopenedUnknown'
  <2>1. ASSUME NEW q \in PR, q # f[1] PROVE UnopenedAt(q)'
    <3>1. UnopenedAt(q) /\ Same(q)
      BY <2>1, FinishUnmarkEffect DEF Fits, UnopenedUnknown, Others
    <3>2. Exists' => Exists /\ (connection'.mark[Key(q)] # q \/ connection'.mark[Key(q)] = connection.mark[Key(q)])
      BY FinishUnmarkEffect, <2>1, Sorts, KeySorts DEF Exists, Keys, MarkSet
    <3> QED BY <3>1, <3>2, FinishUnmarkEffect, SameUnopened
  <2>2. UnopenedAt(f[1])'
    <3>1. f[1] \in PR /\ UnopenedAt(f[1])
      BY FinishUnmarkEffect, Sorts DEF Fits, UnopenedUnknown
    <3> QED BY <3>1, FinishUnmarkEffect, Sorts, KeySorts, TypeParts DEF Fits, UnopenedAt, Exists, Keys, RequestsFit, RequestAt, BeforeOpen, Nothing, MarkSet, RunSet, RunAt, FinSame, TrackerSet, RequestSet
  <2> QED BY <2>1, <2>2 DEF UnopenedUnknown
<1>5. FinFit'
  <2>1. ASSUME NEW q \in PR, q # f[1] PROVE FinAt(q)'
    <3>1. FinAt(q) /\ Same(q)
      BY <2>1, FinishUnmarkEffect DEF Fits, FinFit, Others
    <3> QED BY <3>1, FinishUnmarkEffect, SameFin
  <2>2. FinAt(f[1])'
    <3>1. f[1] \in PR /\ FinAt(f[1])
      BY FinishUnmarkEffect, Sorts DEF Fits, FinFit
    <3> QED BY <3>1, FinishUnmarkEffect, Sorts, KeySorts, TypeParts DEF Fits, FinAt, Finished, RequestsFit, RequestAt, JoinSteps, UnadoptSteps, BeforeOpen, UnopenedUnknown, UnopenedAt, EntriesFit, EntryAt, GitFit, TrackedOK, Entry, RunSet, RunAt, FinSame, TrackerSet, RequestSet
  <2> QED BY <2>1, <2>2 DEF FinFit
<1>6. RequestsFit' /\ FoundFit' /\ EntriesFit' /\ GitFit'
  BY FinishUnmarkEffect, RequestsFrame, FoundFrame, EntriesFrame, GitFrame DEF Fits
<1> QED BY <1>1, <1>2, <1>3, <1>4, <1>5, <1>6 DEF Fits

LEMMA FinishSettleFits ==
    ASSUME Fits, NEW f \in Finisher, FinishSettle(f) PROVE Fits'
<1>1. AdoptionTypeOK'
  <2>1. RepoOK' /\ ConnectionOK' /\ RequestsOK' /\ PassOK'
    BY FinishSettleEffect, TypeParts DEF Fits, RepoOK, ConnectionOK, RequestsOK, PassOK
  <2>2. TrackedOK'
    <3>1. CASE UNCHANGED tracked
      BY <3>1, TypeParts DEF Fits, TrackedOK
    <3>2. CASE tracked' = [tracked EXCEPT ![f[1]] = NoEntry]
      BY <3>2, FinisherSorts, Forgotten, TypeParts DEF Fits
    <3>3. CASE tracked[f[1]] # NoEntry /\ \E g \in BOOLEAN : tracked' = [tracked EXCEPT ![f[1]].gaveUp = g]
      BY <3>3, FinisherSorts, Retried, TypeParts DEF Fits
    <3> QED BY <3>1, <3>2, <3>3, FinishSettleWrites
  <2>3. FinOK'
    BY FinishSettleWrites, TypeParts DEF Fits, FinOK
  <2>4. FailuresOK'
    BY TypeParts, Sorts DEF Fits, FailuresOK, Failure, NoFailure, FinishSettle
  <2> QED BY <2>1, <2>2, <2>3, <2>4, TypesNext
<1>2. UnopenedUnknown'
  <2>1. ASSUME NEW q \in PR, q # f[1] PROVE UnopenedAt(q)'
    <3>1. UnopenedAt(q) /\ Same(q)
      BY <2>1, FinishSettleEffect DEF Fits, UnopenedUnknown, Others
    <3> QED BY <3>1, FinishSettleEffect, SameUnopened DEF Exists
  <2>2. UnopenedAt(f[1])'
    <3>1. f[1] \in PR /\ UnopenedAt(f[1])
      BY FinishSettleEffect, Sorts DEF Fits, UnopenedUnknown
    <3> QED BY <3>1, FinishSettleEffect, Sorts, KeySorts, TypeParts DEF Fits, UnopenedAt, Exists, Keys, RequestsFit, RequestAt, BeforeOpen, Nothing, RunSet, RunAt, FinSame, TrackerSet, RequestSet
  <2> QED BY <2>1, <2>2 DEF UnopenedUnknown
<1>3. EntriesFit'
  <2>1. ASSUME NEW q \in PR, q # f[1] PROVE EntryAt(q)'
    <3>1. EntryAt(q) /\ Same(q)
      BY <2>1, FinishSettleEffect DEF Fits, EntriesFit, Others
    <3> QED BY <3>1, FinishSettleEffect, SameEntry
  <2>2. EntryAt(f[1])'
    <3>1. f[1] \in PR /\ EntryAt(f[1]) /\ FinAt(f[1]) /\ UNCHANGED git
      BY FinishSettleEffect, Sorts DEF Fits, EntriesFit, FinFit
    <3>2. CASE UNCHANGED tracked
      BY <3>1, <3>2 DEF EntryAt, Finished
    <3>3. CASE tracked'[f[1]] = NoEntry
      BY <3>3 DEF EntryAt
    <3>4. CASE /\ f[2] = "tracker" /\ tracked[f[1]] # NoEntry /\ RunAt(f, "failed")
               /\ tracked'[f[1]].status = tracked[f[1]].status
      BY <3>1, <3>4 DEF EntryAt, FinAt, RunAt, Finished
    <3> QED BY <3>2, <3>3, <3>4, FinishSettleEffect
  <2> QED BY <2>1, <2>2 DEF EntriesFit
<1>4. FinFit'
  <2>1. ASSUME NEW q \in PR, q # f[1] PROVE FinAt(q)'
    <3>1. FinAt(q) /\ Same(q)
      BY <2>1, FinishSettleEffect DEF Fits, FinFit, Others
    <3> QED BY <3>1, FinishSettleEffect, SameFin
  <2>2. FinAt(f[1])'
    <3>1. f[1] \in PR /\ FinAt(f[1])
      BY FinishSettleEffect, Sorts DEF Fits, FinFit
    <3> QED BY <3>1, FinishSettleEffect, Sorts, KeySorts, TypeParts DEF Fits, FinAt, Finished, RequestsFit, RequestAt, JoinSteps, UnadoptSteps, BeforeOpen, UnopenedUnknown, UnopenedAt, EntriesFit, EntryAt, GitFit, TrackedOK, Entry, RunSet, RunAt, FinSame, TrackerSet, RequestSet
  <2> QED BY <2>1, <2>2 DEF FinFit
<1>5. OutOfSweepsReach' /\ RequestsFit' /\ FoundFit' /\ MarksFit' /\ GitFit'
  BY FinishSettleEffect, OutOfSweepsReachFrame, RequestsFrame, FoundFrame, MarksFrame, GitFrame DEF Fits
<1> QED BY <1>1, <1>2, <1>3, <1>4, <1>5 DEF Fits

LEMMA GaveUpEndsFits ==
    ASSUME Fits, NEW p \in PR, GaveUpEnds(p) PROVE Fits'
<1>1. AdoptionTypeOK'
  <2>1. RepoOK' /\ ConnectionOK' /\ RequestsOK' /\ FinOK' /\ PassOK' /\ FailuresOK'
    BY GaveUpEndsEffect, TypeParts DEF Fits, RepoOK, ConnectionOK, RequestsOK, FinOK, PassOK, FailuresOK, NoFailure
  <2>2. TrackedOK'
    BY TypeParts, Sorts, GaveUpEndsEffect DEF Fits, TrackedOK, GaveUpEnds, Goto, repo, requests, marksPass
  <2> QED BY <2>1, <2>2, TypesNext
<1>2. UnopenedUnknown'
  <2>1. ASSUME NEW q \in PR, q # p PROVE UnopenedAt(q)'
    <3>1. UnopenedAt(q) /\ Same(q)
      BY <2>1, GaveUpEndsEffect DEF Fits, UnopenedUnknown, Others
    <3> QED BY <3>1, GaveUpEndsEffect, SameUnopened DEF Exists
  <2>2. UnopenedAt(p)'
    <3>1. p \in PR /\ UnopenedAt(p)
      BY GaveUpEndsEffect, Sorts DEF Fits, UnopenedUnknown
    <3> QED BY <3>1, GaveUpEndsEffect, Sorts, KeySorts, TypeParts, FinStays DEF Fits, UnopenedAt, Exists, Keys, RequestsFit, RequestAt, BeforeOpen, Nothing, FinSame
  <2> QED BY <2>1, <2>2 DEF UnopenedUnknown
<1>3. EntriesFit'
  <2>1. ASSUME NEW q \in PR, q # p PROVE EntryAt(q)'
    <3>1. EntryAt(q) /\ Same(q)
      BY <2>1, GaveUpEndsEffect DEF Fits, EntriesFit, Others
    <3> QED BY <3>1, GaveUpEndsEffect, SameEntry
  <2>2. EntryAt(p)'
    <3>1. p \in PR /\ EntryAt(p)
      BY GaveUpEndsEffect, Sorts DEF Fits, EntriesFit
    <3> QED BY <3>1, GaveUpEndsEffect, Sorts, KeySorts, TypeParts, FinStays DEF Fits, EntryAt, Finished, RepoOK, TrackedOK, Entry, RequestsFit, RequestAt, UnopenedUnknown, UnopenedAt, BeforeOpen, FinSame
  <2> QED BY <2>1, <2>2 DEF EntriesFit
<1>4. FinFit'
  <2>1. ASSUME NEW q \in PR, q # p PROVE FinAt(q)'
    <3>1. FinAt(q) /\ Same(q)
      BY <2>1, GaveUpEndsEffect DEF Fits, FinFit, Others
    <3> QED BY <3>1, GaveUpEndsEffect, SameFin
  <2>2. FinAt(p)'
    <3>1. p \in PR /\ FinAt(p)
      BY GaveUpEndsEffect, Sorts DEF Fits, FinFit
    <3> QED BY <3>1, GaveUpEndsEffect, Sorts, KeySorts, TypeParts, FinStays DEF Fits, FinAt, Finished, RequestsFit, RequestAt, JoinSteps, UnadoptSteps, BeforeOpen, UnopenedUnknown, UnopenedAt, EntriesFit, EntryAt, GitFit, TrackedOK, Entry, FinSame
  <2> QED BY <2>1, <2>2 DEF FinFit
<1>5. OutOfSweepsReach' /\ RequestsFit' /\ FoundFit' /\ MarksFit' /\ GitFit'
  BY GaveUpEndsEffect, OutOfSweepsReachFrame, RequestsFrame, FoundFrame, MarksFrame, GitFrame DEF Fits
<1> QED BY <1>1, <1>2, <1>3, <1>4, <1>5 DEF Fits

LEMMA MarksListFits ==
    ASSUME Fits, MarksList PROVE Fits'
<1>1. AdoptionTypeOK'
  <2>1. RepoOK' /\ ConnectionOK' /\ TrackedOK' /\ RequestsOK' /\ FinOK' /\ FailuresOK'
    BY MarksListEffect, TypeParts DEF Fits, RepoOK, ConnectionOK, TrackedOK, RequestsOK, FinOK, FailuresOK, NoFailure
  <2>2. PassOK'
    <3>1. connection.mark \in [{"adopt", "take", "keep"} -> {NoMark} \cup Unnumbered \cup PR]
      BY MarksListEffect, TypeParts DEF Fits, ConnectionOK, Exists, Secret
    <3>2. listed' = [k \in DOMAIN connection.mark |->
                       IF connection.mark[k] = Pending THEN NoMark ELSE connection.mark[k]]
      BY DEF MarksList, PassGoto
    <3>3. listed' \in [{"adopt", "take", "keep"} -> {NoMark, OldPending} \cup PR]
      BY <3>1, <3>2, Sorts
    <3> QED BY <3>3, MarksListEffect DEF PassOK, TickSteps
  <2> QED BY <2>1, <2>2, TypesNext
<1>2. MarksFit'
  BY MarksListEffect, Sorts, KeySorts, TypeParts, FinStays DEF Fits, MarksFit, Exists, Keys, PassOK, Nothing, Same, FinSame
<1>3. UnopenedUnknown'
  BY MarksListEffect, Sorts, KeySorts, TypeParts, FinStays DEF Fits, UnopenedUnknown, UnopenedAt, Exists, Keys, RequestsFit, RequestAt, BeforeOpen, Nothing, Same, FinSame
<1>4. OutOfSweepsReach' /\ RequestsFit' /\ FoundFit' /\ EntriesFit' /\ FinFit' /\ GitFit'
  BY MarksListEffect, OutOfSweepsReachFrame, RequestsFrame, FoundFrame, EntriesFrame, FinFrame, GitFrame DEF Fits
<1> QED BY <1>1, <1>2, <1>3, <1>4 DEF Fits

LEMMA MarksTrackFits ==
    ASSUME Fits, MarksTrack PROVE Fits'
<1>1. AdoptionTypeOK'
  <2>1. RepoOK' /\ ConnectionOK' /\ RequestsOK' /\ FinOK'
    BY MarksTrackEffect, TypeParts DEF Fits, RepoOK, ConnectionOK, RequestsOK, FinOK
  <2>2. TrackedOK'
    <3>1. CASE UNCHANGED tracked
      BY <3>1, TypeParts DEF Fits, TrackedOK
    <3>2. CASE \E k \in DOMAIN listed :
                 /\ listed[k] \in PR /\ tracked[listed[k]] = NoEntry
                 /\ tracked' = [tracked EXCEPT ![listed[k]] = [status |-> git[listed[k]], gaveUp |-> FALSE]]
      <4> PICK k \in Keys :
                 /\ listed[k] \in PR
                 /\ tracked' = [tracked EXCEPT ![listed[k]] = [status |-> git[listed[k]], gaveUp |-> FALSE]]
        BY <3>2, TypeParts DEF Fits, PassOK, Keys
      <4>1. Key(listed[k]) = k
        BY Sorts, KeySorts, AdoptionConstants DEF Fits, MarksFit, Keys, Unnumbered
      <4>2. git[listed[k]] \in {"open", "merged", "closed", "gone"}
        BY <4>1, TypeParts DEF Fits, RepoOK, UnopenedUnknown, UnopenedAt
      <4> QED BY <4>2, Record, TypeParts DEF Fits
    <3> QED BY <3>1, <3>2 DEF MarksTrack
  <2>3. PassOK'
    <3> PICK k \in DOMAIN listed : PassGoto(Step(Left(k)), Left(k))
      BY DEF MarksTrack
    <3>1. PassOK /\ listed' = Left(k) /\ tick' = Step(Left(k)) /\ number' = NoPR
      BY TypeParts DEF Fits, PassGoto
    <3>2. tick' \in TickSteps
      BY <3>1 DEF Step, TickSteps
    <3>3. listed' \in [{"adopt", "take", "keep"} -> {NoMark, OldPending} \cup PR]
      BY <3>1 DEF PassOK, Left
    <3> QED BY <3>1, <3>2, <3>3 DEF PassOK
  <2>4. FailuresOK'
    BY TypeParts, Sorts DEF Fits, FailuresOK, Failure, NoFailure, MarksTrack
  <2> QED BY <2>1, <2>2, <2>3, <2>4, TypesNext
<1>2. MarksFit'
  BY MarksTrackEffect, Sorts, KeySorts, TypeParts, FinStays DEF Fits, MarksFit, Exists, Keys, PassOK, Nothing, FinSame, Others, Same
<1>3. UnopenedUnknown'
  BY MarksTrackEffect, Sorts, KeySorts, TypeParts, FinStays DEF Fits, UnopenedUnknown, UnopenedAt, Exists, Keys, RequestsFit, RequestAt, BeforeOpen, Nothing, Recorded, FinSame, Others, Same
<1>4. EntriesFit'
  BY MarksTrackEffect, Sorts, KeySorts, TypeParts, FinStays DEF Fits, EntriesFit, EntryAt, Finished, RepoOK, TrackedOK, Entry, RequestsFit, RequestAt, UnopenedUnknown, UnopenedAt, BeforeOpen, Recorded, FinSame, Others, Same
<1>5. FinFit'
  BY MarksTrackEffect, Sorts, KeySorts, TypeParts, FinStays DEF Fits, FinFit, FinAt, Finished, RequestsFit, RequestAt, JoinSteps, UnadoptSteps, BeforeOpen, UnopenedUnknown, UnopenedAt, EntriesFit, EntryAt, GitFit, TrackedOK, Entry, Recorded, FinSame, Others, Same
<1>6. OutOfSweepsReach' /\ RequestsFit' /\ FoundFit' /\ GitFit'
  BY MarksTrackEffect, OutOfSweepsReachFrame, RequestsFrame, FoundFrame, GitFrame DEF Fits
<1> QED BY <1>1, <1>2, <1>3, <1>4, <1>5, <1>6 DEF Fits

LEMMA MarksSettleFits ==
    ASSUME Fits, MarksSettle PROVE Fits'
<1>1. AdoptionTypeOK'
  <2>1. RepoOK' /\ ConnectionOK' /\ TrackedOK' /\ RequestsOK' /\ FinOK'
    BY MarksSettleEffect, TypeParts DEF Fits, RepoOK, ConnectionOK, TrackedOK, RequestsOK, FinOK
  <2>2. PassOK'
    BY TypeParts, Sorts, MarksSettleEffect DEF Fits, PassOK, MarksSettle, Goto, repo, requests, marksPass, TickSteps, Nothing, PassGoto
  <2>3. FailuresOK'
    BY TypeParts, Sorts DEF Fits, FailuresOK, Failure, NoFailure, MarksSettle
  <2> QED BY <2>1, <2>2, <2>3, TypesNext
<1>2. MarksFit'
  BY MarksSettleEffect, Sorts, KeySorts, TypeParts, FinStays DEF Fits, MarksFit, Exists, Keys, PassOK, Nothing, Same, FinSame
<1>3. UnopenedUnknown'
  BY MarksSettleEffect, Sorts, KeySorts, TypeParts, FinStays DEF Fits, UnopenedUnknown, UnopenedAt, Exists, Keys, RequestsFit, RequestAt, BeforeOpen, Nothing, Same, FinSame
<1>4. OutOfSweepsReach' /\ RequestsFit' /\ FoundFit' /\ EntriesFit' /\ FinFit' /\ GitFit'
  BY MarksSettleEffect, OutOfSweepsReachFrame, RequestsFrame, FoundFrame, EntriesFrame, FinFrame, GitFrame DEF Fits
<1> QED BY <1>1, <1>2, <1>3, <1>4 DEF Fits

LEMMA MarksWriteFits ==
    ASSUME Fits, MarksWrite PROVE Fits'
<1>1. AdoptionTypeOK'
  <2>1. RepoOK' /\ TrackedOK' /\ RequestsOK' /\ FinOK'
    BY MarksWriteEffect, TypeParts DEF Fits, RepoOK, TrackedOK, RequestsOK, FinOK
  <2>2. ConnectionOK'
    BY MarksWriteWrites, TypeParts DEF Fits, ConnectionOK, MarkSet, OwnerSet, GivenBack
  <2>3. PassOK'
    BY TypeParts, Sorts, MarksWriteEffect DEF Fits, PassOK, MarksWrite, Goto, repo, requests, marksPass, TickSteps, Nothing, PassGoto
  <2>4. FailuresOK'
    BY TypeParts, Sorts DEF Fits, FailuresOK, Failure, NoFailure, MarksWrite
  <2> QED BY <2>1, <2>2, <2>3, <2>4, TypesNext
<1>2. OutOfSweepsReach'
  BY MarksWriteEffect, Sorts, KeySorts, TypeParts, FinStays DEF Fits, OutOfSweepsReach, ManagedBySharko, Exists, MarkSet, GivenBack, Same, FinSame
<1>3. MarksFit'
  BY MarksWriteEffect, Sorts, KeySorts, TypeParts, FinStays DEF Fits, MarksFit, Exists, Keys, PassOK, Nothing, MarkSet, GivenBack, Same, FinSame
<1>4. UnopenedUnknown'
  BY MarksWriteEffect, Sorts, KeySorts, TypeParts, FinStays DEF Fits, UnopenedUnknown, UnopenedAt, Exists, Keys, RequestsFit, RequestAt, BeforeOpen, Nothing, MarkSet, GivenBack, Same, FinSame
<1>5. RequestsFit' /\ FoundFit' /\ EntriesFit' /\ FinFit' /\ GitFit'
  BY MarksWriteEffect, RequestsFrame, FoundFrame, EntriesFrame, FinFrame, GitFrame DEF Fits
<1> QED BY <1>1, <1>2, <1>3, <1>4, <1>5 DEF Fits

LEMMA PersonMergesFits ==
    ASSUME Fits, NEW p \in PR, PersonMerges(p) PROVE Fits'
<1>1. AdoptionTypeOK'
  <2>1. ConnectionOK' /\ TrackedOK' /\ RequestsOK' /\ FinOK' /\ PassOK' /\ FailuresOK'
    BY PersonMergesEffect, TypeParts DEF Fits, ConnectionOK, TrackedOK, RequestsOK, FinOK, PassOK, FailuresOK, NoFailure
  <2>2. RepoOK'
    BY TypeParts, Sorts, PersonMergesEffect, MergeEffect DEF Fits, RepoOK, PersonMerges, Goto, repo, requests, marksPass
  <2> QED BY <2>1, <2>2, TypesNext
<1>2. RequestsFit'
  <2>1. ASSUME NEW q \in PR, q # p PROVE RequestAt(q)'
    <3>1. RequestAt(q) /\ Same(q)
      BY <2>1, PersonMergesEffect DEF Fits, RequestsFit, Others
    <3> QED BY <3>1, PersonMergesEffect, SameRequest
  <2>2. RequestAt(p)'
    <3>1. p \in PR /\ RequestAt(p)
      BY PersonMergesEffect, Sorts DEF Fits, RequestsFit
    <3> QED BY <3>1, PersonMergesEffect, Sorts, KeySorts, TypeParts, FinStays DEF Fits, RequestAt, JoinSteps, UnadoptSteps, BeforeOpen, Finished, RepoOK, RequestsOK, Merged, FinSame
  <2> QED BY <2>1, <2>2 DEF RequestsFit
<1>3. FoundFit'
  BY PersonMergesEffect, Sorts, KeySorts, TypeParts, FinStays DEF Fits, FoundFit, RequestsFit, RequestAt, Merged, FinSame, Others, Same
<1>4. UnopenedUnknown'
  <2>1. ASSUME NEW q \in PR, q # p PROVE UnopenedAt(q)'
    <3>1. UnopenedAt(q) /\ Same(q)
      BY <2>1, PersonMergesEffect DEF Fits, UnopenedUnknown, Others
    <3> QED BY <3>1, PersonMergesEffect, SameUnopened DEF Exists
  <2>2. UnopenedAt(p)'
    <3>1. p \in PR /\ UnopenedAt(p)
      BY PersonMergesEffect, Sorts DEF Fits, UnopenedUnknown
    <3> QED BY <3>1, PersonMergesEffect, Sorts, KeySorts, TypeParts, FinStays DEF Fits, UnopenedAt, Exists, Keys, RequestsFit, RequestAt, BeforeOpen, Nothing, Merged, FinSame
  <2> QED BY <2>1, <2>2 DEF UnopenedUnknown
<1>5. EntriesFit'
  <2>1. ASSUME NEW q \in PR, q # p PROVE EntryAt(q)'
    <3>1. EntryAt(q) /\ Same(q)
      BY <2>1, PersonMergesEffect DEF Fits, EntriesFit, Others
    <3> QED BY <3>1, PersonMergesEffect, SameEntry
  <2>2. EntryAt(p)'
    <3>1. p \in PR /\ EntryAt(p)
      BY PersonMergesEffect, Sorts DEF Fits, EntriesFit
    <3> QED BY <3>1, PersonMergesEffect, Sorts, KeySorts, TypeParts, FinStays DEF Fits, EntryAt, Finished, RepoOK, TrackedOK, Entry, RequestsFit, RequestAt, UnopenedUnknown, UnopenedAt, BeforeOpen, Merged, FinSame
  <2> QED BY <2>1, <2>2 DEF EntriesFit
<1>6. FinFit'
  <2>1. ASSUME NEW q \in PR, q # p PROVE FinAt(q)'
    <3>1. FinAt(q) /\ Same(q)
      BY <2>1, PersonMergesEffect DEF Fits, FinFit, Others
    <3> QED BY <3>1, PersonMergesEffect, SameFin
  <2>2. FinAt(p)'
    <3>1. p \in PR /\ FinAt(p)
      BY PersonMergesEffect, Sorts DEF Fits, FinFit
    <3> QED BY <3>1, PersonMergesEffect, Sorts, KeySorts, TypeParts, FinStays DEF Fits, FinAt, Finished, RequestsFit, RequestAt, JoinSteps, UnadoptSteps, BeforeOpen, UnopenedUnknown, UnopenedAt, EntriesFit, EntryAt, GitFit, TrackedOK, Entry, Merged, FinSame
  <2> QED BY <2>1, <2>2 DEF FinFit
<1>7. GitFit'
  BY PersonMergesEffect, Sorts, KeySorts, TypeParts, FinStays DEF Fits, GitFit, RepoOK, Merged, FinSame, Others, Same
<1>8. OutOfSweepsReach' /\ MarksFit'
  BY PersonMergesEffect, OutOfSweepsReachFrame, MarksFrame DEF Fits
<1> QED BY <1>1, <1>2, <1>3, <1>4, <1>5, <1>6, <1>7, <1>8 DEF Fits

LEMMA PersonClosesFits ==
    ASSUME Fits, NEW p \in PR, PersonCloses(p) PROVE Fits'
<1>1. AdoptionTypeOK'
  <2>1. ConnectionOK' /\ TrackedOK' /\ RequestsOK' /\ FinOK' /\ PassOK' /\ FailuresOK'
    BY PersonClosesEffect, TypeParts DEF Fits, ConnectionOK, TrackedOK, RequestsOK, FinOK, PassOK, FailuresOK, NoFailure
  <2>2. RepoOK'
    BY TypeParts, Sorts, PersonClosesEffect DEF Fits, RepoOK, PersonCloses, Goto, repo, requests, marksPass
  <2> QED BY <2>1, <2>2, TypesNext
<1>2. RequestsFit'
  <2>1. ASSUME NEW q \in PR, q # p PROVE RequestAt(q)'
    <3>1. RequestAt(q) /\ Same(q)
      BY <2>1, PersonClosesEffect DEF Fits, RequestsFit, Others
    <3> QED BY <3>1, PersonClosesEffect, SameRequest
  <2>2. RequestAt(p)'
    <3>1. p \in PR /\ RequestAt(p)
      BY PersonClosesEffect, Sorts DEF Fits, RequestsFit
    <3> QED BY <3>1, PersonClosesEffect, Sorts, KeySorts, TypeParts, FinStays DEF Fits, RequestAt, JoinSteps, UnadoptSteps, BeforeOpen, Finished, RepoOK, RequestsOK, FinSame
  <2> QED BY <2>1, <2>2 DEF RequestsFit
<1>3. FoundFit'
  BY PersonClosesEffect, Sorts, KeySorts, TypeParts, FinStays DEF Fits, FoundFit, RequestsFit, RequestAt, FinSame, Others, Same
<1>4. UnopenedUnknown'
  <2>1. ASSUME NEW q \in PR, q # p PROVE UnopenedAt(q)'
    <3>1. UnopenedAt(q) /\ Same(q)
      BY <2>1, PersonClosesEffect DEF Fits, UnopenedUnknown, Others
    <3> QED BY <3>1, PersonClosesEffect, SameUnopened DEF Exists
  <2>2. UnopenedAt(p)'
    <3>1. p \in PR /\ UnopenedAt(p)
      BY PersonClosesEffect, Sorts DEF Fits, UnopenedUnknown
    <3> QED BY <3>1, PersonClosesEffect, Sorts, KeySorts, TypeParts, FinStays DEF Fits, UnopenedAt, Exists, Keys, RequestsFit, RequestAt, BeforeOpen, Nothing, FinSame
  <2> QED BY <2>1, <2>2 DEF UnopenedUnknown
<1>5. EntriesFit'
  <2>1. ASSUME NEW q \in PR, q # p PROVE EntryAt(q)'
    <3>1. EntryAt(q) /\ Same(q)
      BY <2>1, PersonClosesEffect DEF Fits, EntriesFit, Others
    <3> QED BY <3>1, PersonClosesEffect, SameEntry
  <2>2. EntryAt(p)'
    <3>1. p \in PR /\ EntryAt(p)
      BY PersonClosesEffect, Sorts DEF Fits, EntriesFit
    <3> QED BY <3>1, PersonClosesEffect, Sorts, KeySorts, TypeParts, FinStays DEF Fits, EntryAt, Finished, RepoOK, TrackedOK, Entry, RequestsFit, RequestAt, UnopenedUnknown, UnopenedAt, BeforeOpen, FinSame
  <2> QED BY <2>1, <2>2 DEF EntriesFit
<1>6. FinFit'
  <2>1. ASSUME NEW q \in PR, q # p PROVE FinAt(q)'
    <3>1. FinAt(q) /\ Same(q)
      BY <2>1, PersonClosesEffect DEF Fits, FinFit, Others
    <3> QED BY <3>1, PersonClosesEffect, SameFin
  <2>2. FinAt(p)'
    <3>1. p \in PR /\ FinAt(p)
      BY PersonClosesEffect, Sorts DEF Fits, FinFit
    <3> QED BY <3>1, PersonClosesEffect, Sorts, KeySorts, TypeParts, FinStays DEF Fits, FinAt, Finished, RequestsFit, RequestAt, JoinSteps, UnadoptSteps, BeforeOpen, UnopenedUnknown, UnopenedAt, EntriesFit, EntryAt, GitFit, TrackedOK, Entry, FinSame
  <2> QED BY <2>1, <2>2 DEF FinFit
<1>7. GitFit'
  BY PersonClosesEffect, Sorts, KeySorts, TypeParts, FinStays DEF Fits, GitFit, RepoOK, FinSame, Others, Same
<1>8. OutOfSweepsReach' /\ MarksFit'
  BY PersonClosesEffect, OutOfSweepsReachFrame, MarksFrame DEF Fits
<1> QED BY <1>1, <1>2, <1>3, <1>4, <1>5, <1>6, <1>7, <1>8 DEF Fits

LEMMA PersonDeletesFits ==
    ASSUME Fits, PersonDeletes PROVE Fits'
<1>1. AdoptionTypeOK'
  <2>1. RepoOK' /\ TrackedOK' /\ RequestsOK' /\ FinOK' /\ PassOK' /\ FailuresOK'
    BY PersonDeletesEffect, TypeParts DEF Fits, RepoOK, TrackedOK, RequestsOK, FinOK, PassOK, FailuresOK, NoFailure
  <2>2. ConnectionOK'
    BY TypeParts, Sorts, PersonDeletesEffect DEF Fits, ConnectionOK, PersonDeletes, Goto, repo, requests, marksPass
  <2> QED BY <2>1, <2>2, TypesNext
<1>2. OutOfSweepsReach'
  BY PersonDeletesEffect, Sorts, KeySorts, TypeParts, FinStays DEF Fits, OutOfSweepsReach, ManagedBySharko, Exists, Same, FinSame
<1>3. MarksFit'
  BY PersonDeletesEffect, Sorts, KeySorts, TypeParts, FinStays DEF Fits, MarksFit, Exists, Keys, PassOK, Nothing, Same, FinSame
<1>4. UnopenedUnknown'
  BY PersonDeletesEffect, Sorts, KeySorts, TypeParts, FinStays DEF Fits, UnopenedUnknown, UnopenedAt, Exists, Keys, RequestsFit, RequestAt, BeforeOpen, Nothing, Same, FinSame
<1>5. RequestsFit' /\ FoundFit' /\ EntriesFit' /\ FinFit' /\ GitFit'
  BY PersonDeletesEffect, RequestsFrame, FoundFrame, EntriesFrame, FinFrame, GitFrame DEF Fits
<1> QED BY <1>1, <1>2, <1>3, <1>4, <1>5 DEF Fits

LEMMA MarkAgesFits ==
    ASSUME Fits, MarkAges PROVE Fits'
<1>1. AdoptionTypeOK'
  <2>1. RepoOK' /\ TrackedOK' /\ RequestsOK' /\ FinOK' /\ PassOK' /\ FailuresOK'
    BY MarkAgesEffect, TypeParts DEF Fits, RepoOK, TrackedOK, RequestsOK, FinOK, PassOK, FailuresOK, NoFailure
  <2>2. ConnectionOK'
    BY MarkAgesWrites, TypeParts DEF Fits, ConnectionOK, MarkSet, OwnerSet, GivenBack
  <2> QED BY <2>1, <2>2, TypesNext
<1>2. OutOfSweepsReach'
  BY MarkAgesEffect, Sorts, KeySorts, TypeParts, FinStays DEF Fits, OutOfSweepsReach, ManagedBySharko, Exists, MarkSet, Same, FinSame
<1>3. MarksFit'
  BY MarkAgesEffect, Sorts, KeySorts, TypeParts, FinStays DEF Fits, MarksFit, Exists, Keys, PassOK, Nothing, MarkSet, Same, FinSame
<1>4. UnopenedUnknown'
  BY MarkAgesEffect, Sorts, KeySorts, TypeParts, FinStays DEF Fits, UnopenedUnknown, UnopenedAt, Exists, Keys, RequestsFit, RequestAt, BeforeOpen, Nothing, MarkSet, Same, FinSame
<1>5. RequestsFit' /\ FoundFit' /\ EntriesFit' /\ FinFit' /\ GitFit'
  BY MarkAgesEffect, RequestsFrame, FoundFrame, EntriesFrame, FinFrame, GitFrame DEF Fits
<1> QED BY <1>1, <1>2, <1>3, <1>4, <1>5 DEF Fits

LEMMA ServerRestartsFits ==
    ASSUME Fits, ServerRestarts PROVE Fits'
<1>1. AdoptionTypeOK'
  <2>1. RepoOK' /\ ConnectionOK' /\ TrackedOK'
    BY ServerRestartsEffect, TypeParts DEF Fits, RepoOK, ConnectionOK, TrackedOK
  <2>2. RequestsOK'
    BY TypeParts, Sorts, ServerRestartsEffect DEF Fits, RequestsOK, ServerRestarts, Goto, repo, requests, marksPass, ReqSteps
  <2>3. FinOK'
    BY DEF ServerRestarts, FinOK, FinSteps
  <2>4. PassOK'
    BY TypeParts, Sorts, ServerRestartsEffect DEF Fits, PassOK, ServerRestarts, Goto, repo, requests, marksPass, TickSteps, Nothing, PassGoto
  <2>5. FailuresOK'
    BY TypeParts, Sorts DEF Fits, FailuresOK, Failure, NoFailure, ServerRestarts
  <2> QED BY <2>1, <2>2, <2>3, <2>4, <2>5, TypesNext
<1>2. RequestsFit'
  BY ServerRestartsEffect, Sorts, KeySorts, TypeParts DEF Fits, RequestsFit, RequestAt, JoinSteps, UnadoptSteps, BeforeOpen, Finished, RepoOK, RequestsOK
<1>3. FoundFit'
  BY ServerRestartsEffect, Sorts, KeySorts, TypeParts DEF Fits, FoundFit, RequestsFit, RequestAt
<1>4. MarksFit'
  BY ServerRestartsEffect, Sorts, KeySorts, TypeParts DEF Fits, MarksFit, Exists, Keys, PassOK, Nothing
<1>5. UnopenedUnknown'
  BY ServerRestartsEffect, Sorts, KeySorts, TypeParts DEF Fits, UnopenedUnknown, UnopenedAt, Exists, Keys, RequestsFit, RequestAt, BeforeOpen, Nothing
<1>6. FinFit'
  BY ServerRestartsEffect, Sorts, KeySorts, TypeParts DEF Fits, FinFit, FinAt, Finished, RequestsFit, RequestAt, JoinSteps, UnadoptSteps, BeforeOpen, UnopenedUnknown, UnopenedAt, EntriesFit, EntryAt, GitFit, TrackedOK, Entry
<1>7. OutOfSweepsReach' /\ EntriesFit' /\ GitFit'
  BY ServerRestartsEffect, OutOfSweepsReachFrame, EntriesFrame, GitFrame DEF Fits
<1> QED BY <1>1, <1>2, <1>3, <1>4, <1>5, <1>6, <1>7 DEF Fits

----------------------------------------------------------------------------
(* Every state fits.                                                       *)

LEMMA FitsInit == AdoptionInit => Fits
<1> SUFFICES ASSUME AdoptionInit PROVE Fits
  OBVIOUS
<1>1. AdoptionTypeOK /\ OutOfSweepsReach
  <2>1. Nothing \in [{"adopt", "take", "keep"} -> {NoMark}]
    BY DEF Nothing
  <2>2. connection \in Secret
    BY <2>1 DEF AdoptionInit, Secret
  <2>3. RepoOK /\ ConnectionOK /\ TrackedOK
    BY <2>2 DEF AdoptionInit, RepoOK, ConnectionOK, TrackedOK
  <2>4. RequestsOK /\ FinOK /\ PassOK /\ FailuresOK
    BY <2>1, Sorts DEF AdoptionInit, RequestsOK, FinOK, PassOK, FailuresOK, ReqSteps, FinSteps, TickSteps
  <2>5. OutOfSweepsReach
    BY DEF AdoptionInit, OutOfSweepsReach, ManagedBySharko
  <2> QED BY <2>3, <2>4, <2>5, TypeParts
<1>2. \A p \in PR : git[p] = "none" /\ req[p] = "idle" /\ tracked[p] = NoEntry
                    /\ TrackerStep(p) = "idle" /\ RequestStep(p) = "idle"
  BY DEF AdoptionInit, TrackerStep, RequestStep, Finisher
<1>3. RequestsFit
  BY <1>2, Sorts DEF RequestsFit, RequestAt, AdoptionInit, JoinSteps, UnadoptSteps
<1>4. FoundFit /\ GitFit
  BY <1>2, Sorts DEF FoundFit, GitFit, AdoptionInit
<1>5. \A k \in Keys : listed[k] = NoMark /\ connection.mark[k] = NoMark
  BY DEF AdoptionInit, Nothing, Keys
<1>6. MarksFit
  BY <1>5, Sorts DEF MarksFit, AdoptionInit, Keys
<1>7. UnopenedUnknown
  BY <1>2, <1>5, KeySorts, Sorts DEF UnopenedUnknown, UnopenedAt, AdoptionInit
<1>8. EntriesFit /\ FinFit
  BY <1>2 DEF EntriesFit, EntryAt, FinFit, FinAt
<1> QED BY <1>1, <1>3, <1>4, <1>6, <1>7, <1>8 DEF Fits

LEMMA FitsNext == ASSUME Fits, AdoptionNext PROVE Fits'
<1>1. ASSUME NEW p \in PR, JoinPreflight(p) PROVE Fits'
  BY <1>1, JoinPreflightFits
<1>2. ASSUME NEW p \in PR, UnadoptCheck(p) PROVE Fits'
  BY <1>2, UnadoptCheckFits
<1>3. ASSUME NEW p \in PR, JoinFind(p) PROVE Fits'
  BY <1>3, JoinFindFits
<1>4. ASSUME NEW p \in PR, JoinRemark(p) PROVE Fits'
  BY <1>4, JoinRemarkFits
<1>5. ASSUME NEW p \in PR, JoinOpen(p) PROVE Fits'
  BY <1>5, JoinOpenFits
<1>6. ASSUME NEW p \in PR, JoinMark(p) PROVE Fits'
  BY <1>6, JoinMarkFits
<1>7. ASSUME NEW p \in PR, JoinTrack(p) PROVE Fits'
  BY <1>7, JoinTrackFits
<1>8. ASSUME NEW p \in PR, JoinMerge(p) PROVE Fits'
  BY <1>8, JoinMergeFits
<1>9. ASSUME NEW p \in PR, JoinSwap(p) PROVE Fits'
  BY <1>9, JoinSwapFits
<1>10. ASSUME NEW p \in PR, JoinAnnotate(p) PROVE Fits'
  BY <1>10, JoinAnnotateFits
<1>11. ASSUME NEW p \in PR, UnadoptPlan(p) PROVE Fits'
  BY <1>11, UnadoptPlanFits
<1>12. ASSUME NEW p \in PR, UnadoptLook(p) PROVE Fits'
  BY <1>12, UnadoptLookFits
<1>13. ASSUME NEW p \in PR, UnadoptSetMark(p) PROVE Fits'
  BY <1>13, UnadoptSetMarkFits
<1>14. ASSUME NEW p \in PR, UnadoptOpen(p) PROVE Fits'
  BY <1>14, UnadoptOpenFits
<1>15. ASSUME NEW p \in PR, UnadoptTrack(p) PROVE Fits'
  BY <1>15, UnadoptTrackFits
<1>16. ASSUME NEW p \in PR, UnadoptMerge(p) PROVE Fits'
  BY <1>16, UnadoptMergeFits
<1>17. ASSUME NEW p \in PR, UnadoptNumber(p) PROVE Fits'
  BY <1>17, UnadoptNumberFits
<1>18. ASSUME NEW p \in PR, TrackerSees(p) PROVE Fits'
  BY <1>18, TrackerSeesFits
<1>19. ASSUME NEW p \in PR, FinishStart(p) PROVE Fits'
  BY <1>19, FinishStartFits
<1>20. ASSUME NEW p \in PR, GaveUpEnds(p) PROVE Fits'
  BY <1>20, GaveUpEndsFits
<1>21. ASSUME NEW p \in PR, PersonMerges(p) PROVE Fits'
  BY <1>21, PersonMergesFits
<1>22. ASSUME NEW p \in PR, PersonCloses(p) PROVE Fits'
  BY <1>22, PersonClosesFits
<1>23. ASSUME NEW f \in Finisher, FinishLook(f) PROVE Fits'
  BY <1>23, FinishLookFits
<1>24. ASSUME NEW f \in Finisher, FinishSwap(f) PROVE Fits'
  BY <1>24, FinishSwapFits
<1>25. ASSUME NEW f \in Finisher, FinishAnnotate(f) PROVE Fits'
  BY <1>25, FinishAnnotateFits
<1>26. ASSUME NEW f \in Finisher, FinishCheck(f) PROVE Fits'
  BY <1>26, FinishCheckFits
<1>27. ASSUME NEW f \in Finisher, FinishStrip(f) PROVE Fits'
  BY <1>27, FinishStripFits
<1>28. ASSUME NEW f \in Finisher, FinishUnmark(f) PROVE Fits'
  BY <1>28, FinishUnmarkFits
<1>29. ASSUME NEW f \in Finisher, FinishSettle(f) PROVE Fits'
  BY <1>29, FinishSettleFits
<1>30. ASSUME MarksList PROVE Fits'
  BY <1>30, MarksListFits
<1>31. ASSUME MarksTrack PROVE Fits'
  BY <1>31, MarksTrackFits
<1>32. ASSUME MarksSettle PROVE Fits'
  BY <1>32, MarksSettleFits
<1>33. ASSUME MarksWrite PROVE Fits'
  BY <1>33, MarksWriteFits
<1>34. ASSUME MarkAges PROVE Fits'
  BY <1>34, MarkAgesFits
<1>35. ASSUME PersonDeletes PROVE Fits'
  BY <1>35, PersonDeletesFits
<1>36. ASSUME ServerRestarts PROVE Fits'
  BY <1>36, ServerRestartsFits
<1> QED BY <1>1, <1>2, <1>3, <1>4, <1>5, <1>6, <1>7, <1>8, <1>9, <1>10, <1>11, <1>12, <1>13, <1>14, <1>15, <1>16, <1>17, <1>18, <1>19, <1>20, <1>21, <1>22, <1>23, <1>24, <1>25, <1>26, <1>27, <1>28, <1>29, <1>30, <1>31, <1>32, <1>33, <1>34, <1>35, <1>36 DEF AdoptionNext, Asks, Moves, Tracker, Finishes, Marks

LEMMA FitsStays == Fits /\ UNCHANGED adoptionVars => Fits'
<1> SUFFICES ASSUME Fits, UNCHANGED adoptionVars PROVE Fits'
  OBVIOUS
<1>1. UNCHANGED <<inGit, git, diff, crossed, connection, tracked, req, found, marked, fin, tick, listed, number, failures>>
  BY DEF adoptionVars, repo, requests, marksPass
<1>2. AdoptionTypeOK'
  BY <1>1 DEF Fits, AdoptionTypeOK
<1> QED BY <1>1, <1>2, OutOfSweepsReachFrame, RequestsFrame, FoundFrame, MarksFrame, UnopenedFrame,
           EntriesFrame, FinFrame, GitFrame DEF Fits

LEMMA FitsAlways == AdoptionSpec => []Fits
<1>1. Fits /\ [AdoptionNext]_adoptionVars => Fits'
  BY FitsNext, FitsStays
<1> QED BY <1>1, FitsInit, PTL DEF AdoptionSpec

\* The connection and its marks, the pull requests, the tracker's records, the
\* requests, the finish steps and the marks pass stay well formed, whatever
\* fails and in whatever order they run.
THEOREM TypeCorrect == AdoptionSpec => []AdoptionTypeOK
<1>1. Fits => AdoptionTypeOK
  BY DEF Fits
<1> QED BY <1>1, FitsAlways, PTL

\* Whatever fails, and however requests, finish steps and passes interleave: a
\* connection that carries Sharko's label carries the adopted mark, so the orphan
\* sweep never deletes one that somebody lent to Sharko.
THEOREM NeverSwept == AdoptionSpec => []OutOfSweepsReach
<1>1. Fits => OutOfSweepsReach
  BY DEF Fits
<1> QED BY <1>1, FitsAlways, PTL

==============================================================================
