------------------ MODULE AdoptedConnection_ownership_proofs ------------------
(***************************************************************************)
(* Theorems of AdoptedConnection, second part: a connection belongs to a   *)
(* cluster in Git, or somebody knows that it does not, while at most one   *)
(* call fails. With two failures the marks do not suffice: a join whose    *)
(* mark could not be set, and whose finish step then gave up, is forgotten *)
(* after thirty days.                                                      *)
(*                                                                         *)
(* Owned is the inductive invariant: for as long as the connection is on   *)
(* the wrong side of Git, one pull request is bound to put it right, and   *)
(* its mark, its record or its request is there. For each action A: AView  *)
(* (what is left of the Secret, seen as Owned sees it) and AOwned.         *)
(***************************************************************************)
EXTENDS AdoptedConnection_proofs

Spent == failures = MaxFailures

\* The Secret as the invariant sees it.
Ours == connection.managed
Adopted == connection.adopted
KeepMark == connection.mark["keep"]
MarkedBy(p) == connection.mark[Key(p)] = p

----------------------------------------------------------------------------
(* Joins.                                                                  *)

JoinBusy(p) == Running(p) \/ tracked[p] # NoEntry \/ MarkedBy(p) \/ listed[Key(p)] = p

\* A join that merged and is not over has the cluster in Git: an un-adopt that
\* merges while one is not over is a merge too early. So has an open one that
\* does not change the list.
JoinInGitAt(p) ==
    /\ git[p] = "merged" /\ JoinBusy(p) => inGit
    /\ git[p] = "open" /\ p \notin diff => inGit
    /\ req[p] \in {"swap", "annotate"} => inGit
    /\ req[p] = "remark" /\ git[found[p]] = "merged" => inGit
JoinInGit == \A p \in Join : JoinInGitAt(p)

\* An open join past its mark step wears its mark, or the failure is spent on it.
JoinMarkedAt(p) ==
    git[p] = "open" =>
        /\ req[p] # "mark" \/ tracked[p] # NoEntry => MarkedBy(p) \/ Spent
        /\ listed[Key(p)] = p => MarkedBy(p)
JoinMarked == \A p \in Join : JoinMarkedAt(p)

\* The second write of an adopt follows the first.
JoinSwappedAt(p) == TrackerStep(p) \in {"annotate", "unmark"} \/ req[p] = "annotate" => Ours
JoinSwapped == \A p \in Join : JoinSwappedAt(p)

\* In Git and not Sharko's: a merged join has yet to take it over, which its mark
\* brings back, or a run or a record does once no further failure can come.
JoinDue(p) ==
    \/ tracked[p] # NoEntry /\ ~tracked[p].gaveUp /\ TrackerStep(p) \in {"idle", "look", "swap"}
    \/ req[p] = "swap"
JoinOwes(p) == git[p] = "merged" /\ (MarkedBy(p) \/ (Spent /\ JoinDue(p)))
JoinOwed == inGit /\ ~Ours => \E p \in Join : JoinOwes(p)

----------------------------------------------------------------------------
(* Un-adopts.                                                              *)

\* One at a time: a second one begun before is what crossed stands for.
Busy(u) ==
    \/ git[u] = "open" \/ Running(u) \/ tracked[u] # NoEntry
    \/ KeepMark = u \/ listed["keep"] = u \/ number = u
    \/ TrackerStep(u) # "idle" \/ RequestStep(u) # "idle"
OneBusy == \A u, v \in UnadoptPR : Busy(u) /\ u # v => ~Busy(v)

\* A keep mark without a number is an un-adopt's that is under way, or one that a
\* failure cut off; only such a one grows old and is settled by the marks pass.
PendingFit ==
    /\ KeepMark \in Unnumbered => \E u \in UnadoptPR : req[u] # "idle"
    /\ KeepMark = Pending => Spent \/ marked # {}
    /\ KeepMark = OldPending => Spent /\ \A u \in UnadoptPR : ~Running(u)
    /\ listed["keep"] = OldPending => KeepMark = OldPending
    /\ tick \in {"setNumber", "takeOff", "giveBack"} => KeepMark = OldPending

\* An un-adopt takes the cluster out of Git, and whoever is about to give the
\* connection back has seen that it is out.
UnadoptInGitAt(u) ==
    /\ req[u] \in {"look", "setMark", "open"} => inGit
    /\ git[u] = "open" => u \in diff
    /\ req[u] = "merged" \/ TrackerStep(u) = "strip" \/ RequestStep(u) = "strip" => ~inGit
UnadoptInGit == \A u \in UnadoptPR : UnadoptInGitAt(u)
PassInGit == (tick = "giveBack" => ~inGit) /\ (tick = "takeOff" => inGit)

\* A connection marked adopted is Sharko's, or a failure came between the two
\* writes that give it back.
UnadoptKnown ==
    /\ Adopted /\ ~Ours => Spent
    /\ \A u \in UnadoptPR : req[u] \in {"plan", "look", "setMark"} => Ours \/ Spent

\* The keep mark is there for an un-adopt's pull request while it is open.
KeptFor(u) == KeepMark \in Unnumbered \/ KeepMark = u
UnadoptMarkedAt(u) ==
    /\ git[u] = "open" \/ req[u] = "open" => KeptFor(u) \/ Spent
    /\ git[u] = "open" /\ listed["keep"] = u => KeepMark = u
UnadoptMarked == \A u \in UnadoptPR : UnadoptMarkedAt(u)

\* Its mark comes off only once the connection is given back, or is to be kept.
UnadoptStrippedAt(u) ==
    /\ TrackerStep(u) = "unmark" \/ RequestStep(u) = "unmark" => inGit \/ ~Ours
    /\ TrackerStep(u) = "drop" /\ git[u] # "closed" => inGit
UnadoptStripped == \A u \in UnadoptPR : UnadoptStrippedAt(u)

\* Sharko's and not in Git: a merged un-adopt has yet to give it back.
UnadoptDue(u) ==
    \/ tracked[u] # NoEntry /\ ~tracked[u].gaveUp /\ TrackerStep(u) \in {"idle", "check", "strip"}
    \/ req[u] = "merged" \/ RequestStep(u) = "strip"
UnadoptOwes(u) ==
    /\ Finished(u) /\ \A v \in UnadoptPR : v # u => ~Busy(v)
    /\ KeptFor(u) \/ (Spent /\ UnadoptDue(u))
UnadoptOwed == ~inGit /\ Ours => \E u \in UnadoptPR : UnadoptOwes(u)

Owned ==
    /\ JoinInGit /\ JoinMarked /\ JoinSwapped /\ JoinOwed
    /\ OneBusy /\ PendingFit /\ UnadoptInGit /\ PassInGit /\ UnadoptKnown
    /\ UnadoptMarked /\ UnadoptStripped /\ UnadoptOwed

IInv == Fits /\ (Exists /\ ~crossed => Owned)

----------------------------------------------------------------------------
(* Whose the connection is.                                                *)

LEMMA SpentStep ==
    ASSUME Fits, MaxFailures <= 1
    PROVE  (Failure => ~Spent /\ Spent') /\ (NoFailure => (Spent' <=> Spent))
  BY TypeParts, Sorts DEF Fits, FailuresOK, Failure, NoFailure, Spent

LEMMA KeptMeans == \A u \in UnadoptPR : MarkedBy(u) <=> KeepMark = u
  BY KeySorts DEF MarkedBy, KeepMark

LEMMA KnownMeans ==
    ASSUME Exists, NEW p \in PR
    PROVE  Known(p) <=> \/ tracked[p] # NoEntry \/ MarkedBy(p) \/ listed[Key(p)] = p
                        \/ p \in UnadoptPR /\ KeepMark \in Unnumbered
  BY DEF Known, HasMark, MarkedBy, KeepMark

LEMMA OverMeans ==
    ASSUME Exists, NEW p \in Join
    PROVE  Over(p) => git[p] # "open" /\ ~JoinBusy(p)
  BY KnownMeans, Sorts DEF Over, JoinBusy

LEMMA SettledMeans ==
    ASSUME Exists, NEW u \in UnadoptPR, Settled(u)
    PROVE  ~Busy(u) /\ KeepMark \notin Unnumbered /\ ~KeptFor(u) /\ tracked[u] = NoEntry
           /\ ~Running(u) /\ RequestStep(u) = "idle"
<1>1. u \in PR /\ Key(u) = "keep"
  BY Sorts, KeySorts
<1>2. TrackerStep(u) = "idle" /\ RequestStep(u) = "idle"
  <2>1. <<u, "tracker">> \in Finisher /\ <<u, "request">> \in Finisher
    BY <1>1 DEF Finisher
  <2>2. \A f \in Finisher : f[1] = u => fin[f] = "idle"
    BY DEF Settled
  <2> QED BY <2>1, <2>2 DEF TrackerStep, RequestStep
<1>3. KeepMark # u /\ tracked[u] = NoEntry /\ listed["keep"] # u /\ KeepMark \notin Unnumbered
  BY <1>1, KnownMeans, KeptMeans DEF Settled, Over
<1> QED BY <1>1, <1>2, <1>3 DEF Settled, Over, Busy, KeptFor

\* The Secret as the properties see it, after a step.
MarksSame == KeepMark' = KeepMark /\ \A q \in Join : MarkedBy(q)' <=> MarkedBy(q)
OwnerSame == (Ours' <=> Ours) /\ (Adopted' <=> Adopted)
ViewSame == MarksSame /\ OwnerSame
KeepMarkPut(v) == OwnerSame /\ KeepMark' = v /\ \A q \in Join : MarkedBy(q)' <=> MarkedBy(q)
JoinMarkPut(x) ==
    /\ OwnerSame /\ KeepMark' = KeepMark /\ MarkedBy(x)'
    /\ \A q \in Join : (MarkedBy(q) => MarkedBy(q)') /\ (MarkedBy(q)' => MarkedBy(q) \/ q = x)
JoinMarkOff(x) ==
    /\ OwnerSame /\ KeepMark' = KeepMark /\ MarkedBy(x) /\ ~MarkedBy(x)'
    /\ \A q \in Join \ {x} : MarkedBy(q)' <=> MarkedBy(q)

LEMMA ViewFrame == UNCHANGED connection => ViewSame
  BY DEF ViewSame, MarksSame, OwnerSame, Ours, Adopted, KeepMark, MarkedBy

LEMMA OwnerView ==
    ASSUME NEW m \in BOOLEAN, NEW a \in BOOLEAN, OwnerSet(m, a)
    PROVE  MarksSame /\ (Ours' <=> m) /\ (Adopted' <=> a)
<1>1. MarksSame
  BY KeySorts DEF MarksSame, OwnerSet, KeepMark, MarkedBy, Keys
<1>2. Ours' = m /\ Adopted' = a
  BY DEF OwnerSet, Ours, Adopted
<1> QED BY <1>1, <1>2

LEMMA KeepView ==
    ASSUME NEW v, MarkSet("keep", v)
    PROVE  KeepMarkPut(v)
<1>1. OwnerSame
  BY DEF MarkSet, OwnerSame, Ours, Adopted
<1>2. KeepMark' = v
  BY DEF MarkSet, KeepMark
<1>3. \A q \in Join : Key(q) \in Keys \ {"keep"}
  BY KeySorts DEF Keys
<1>4. \A q \in Join : MarkedBy(q)' <=> MarkedBy(q)
  BY <1>3 DEF MarkSet, MarkedBy
<1> QED BY <1>1, <1>2, <1>4 DEF KeepMarkPut

LEMMA JoinView ==
    ASSUME NEW x \in Join, MarkSet(Key(x), x), connection.mark[Key(x)] \notin PR \ {x}
    PROVE  JoinMarkPut(x)
<1>1. OwnerSame
  BY DEF MarkSet, OwnerSame, Ours, Adopted
<1>2. KeepMark' = KeepMark
  BY KeySorts DEF MarkSet, KeepMark, Keys
<1>3. MarkedBy(x)'
  BY DEF MarkSet, MarkedBy
<1>4. ASSUME NEW q \in Join PROVE (MarkedBy(q) => MarkedBy(q)') /\ (MarkedBy(q)' => MarkedBy(q) \/ q = x)
  <2>1. CASE Key(q) = Key(x)
    BY <2>1, Sorts DEF MarkSet, MarkedBy
  <2>2. CASE Key(q) # Key(x)
    BY <2>2, KeySorts, Sorts DEF MarkSet, MarkedBy
  <2> QED BY <2>1, <2>2
<1> QED BY <1>1, <1>2, <1>3, <1>4 DEF JoinMarkPut

LEMMA JoinOffView ==
    ASSUME NEW x \in Join, MarkSet(Key(x), NoMark), connection.mark[Key(x)] = x
    PROVE  JoinMarkOff(x)
<1>1. OwnerSame
  BY DEF MarkSet, OwnerSame, Ours, Adopted
<1>2. KeepMark' = KeepMark
  BY KeySorts DEF MarkSet, KeepMark, Keys
<1>3. MarkedBy(x) /\ ~MarkedBy(x)'
  BY Sorts DEF MarkSet, MarkedBy
<1>4. ASSUME NEW q \in Join \ {x} PROVE MarkedBy(q)' <=> MarkedBy(q)
  <2>1. CASE Key(q) = Key(x)
    BY <2>1, Sorts DEF MarkSet, MarkedBy
  <2>2. CASE Key(q) # Key(x)
    BY <2>2, KeySorts, Sorts DEF MarkSet, MarkedBy
  <2> QED BY <2>1, <2>2
<1> QED BY <1>1, <1>2, <1>3, <1>4 DEF JoinMarkOff

LEMMA JoinRemarkView ==
    ASSUME Fits, Exists, ~crossed', NEW p \in PR, JoinRemark(p)
    PROVE  (JoinMarkPut(found[p]) /\ NoFailure) \/ (ViewSame /\ Failure)
  BY JoinRemarkEffect, JoinView, ViewFrame

LEMMA JoinMarkView ==
    ASSUME Fits, Exists, ~crossed', NEW p \in PR, JoinMark(p)
    PROVE  \/ JoinMarkPut(p) /\ NoFailure /\ req'[p] = "track"
           \/ ViewSame /\ Failure /\ req'[p] = "trackOnly"
  BY JoinMarkEffect, JoinView, ViewFrame

LEMMA JoinSwapView ==
    ASSUME Fits, Exists, NEW p \in PR, JoinSwap(p)
    PROVE  \/ MarksSame /\ Ours' /\ Adopted' /\ NoFailure
           \/ ViewSame /\ Failure /\ req'[p] = "done"
  BY JoinSwapEffect, OwnerView, ViewFrame

LEMMA JoinAnnotateView ==
    ASSUME Fits, Exists, NEW p \in PR, JoinAnnotate(p)
    PROVE  \/ MarksSame /\ (Ours' <=> Ours) /\ Adopted' /\ NoFailure
           \/ ViewSame /\ Failure
<1>1. connection.managed \in BOOLEAN
  BY TypeParts DEF Fits, ConnectionOK, Exists, Secret
<1>2. Ours = connection.managed
  BY DEF Ours
<1> QED BY <1>1, <1>2, JoinAnnotateEffect, OwnerView, ViewFrame

LEMMA UnadoptLookView ==
    ASSUME Fits, Exists, NEW p \in PR, UnadoptLook(p)
    PROVE  \/ Ours /\ KeepMark = NoMark /\ req'[p] = "setMark" /\ NoFailure
           \/ Ours /\ KeepMark # NoMark /\ req'[p] = "done" /\ NoFailure
           \/ ~Ours /\ req'[p] = "open" /\ NoFailure
           \/ req'[p] = "done" /\ Failure
  BY UnadoptLookEffect DEF ManagedBySharko, Ours, KeepMark

LEMMA UnadoptSetMarkView ==
    ASSUME Fits, Exists, NEW p \in PR, UnadoptSetMark(p)
    PROVE  \/ KeepMarkPut(Pending) /\ NoFailure /\ req'[p] = "open" /\ p \in marked'
           \/ ViewSame /\ Failure /\ req'[p] = "done" /\ UNCHANGED marked
  BY UnadoptSetMarkEffect, KeepView, ViewFrame

LEMMA UnadoptNumberView ==
    ASSUME Fits, Exists, NEW p \in PR, UnadoptNumber(p)
    PROVE  \/ ViewSame /\ NoFailure /\ p \notin marked
           \/ ViewSame /\ Failure
           \/ ViewSame /\ NoFailure /\ req[p] = "unmark" /\ KeepMark \notin Unnumbered
           \/ KeepMarkPut(NoMark) /\ NoFailure /\ req[p] = "unmark" /\ KeepMark \in Unnumbered
           \/ KeepMarkPut(p) /\ NoFailure /\ req[p] # "unmark" /\ p \in marked
  BY UnadoptNumberEffect, KeepView, ViewFrame DEF KeepMark

LEMMA FinishSwapView ==
    ASSUME Fits, Exists, NEW f \in Finisher, FinishSwap(f)
    PROVE  \/ /\ MarksSame /\ Ours' /\ Adopted' /\ NoFailure
              /\ TrackerSet(f[1], "annotate") \/ TrackerSet(f[1], "unmark")
           \/ ViewSame /\ Failure /\ TrackerSet(f[1], "failed")
  BY FinishSwapEffect, OwnerView, ViewFrame

LEMMA FinishAnnotateView ==
    ASSUME Fits, Exists, NEW f \in Finisher, FinishAnnotate(f)
    PROVE  \/ /\ MarksSame /\ (Ours' <=> Ours) /\ Adopted' /\ NoFailure
              /\ TrackerSet(f[1], "unmark")
           \/ ViewSame /\ Failure /\ TrackerSet(f[1], "failed")
<1>1. connection.managed \in BOOLEAN
  BY TypeParts DEF Fits, ConnectionOK, Exists, Secret
<1>2. Ours = connection.managed
  BY DEF Ours
<1> QED BY <1>1, <1>2, FinishAnnotateEffect, OwnerView, ViewFrame

LEMMA FinishStripView ==
    ASSUME Fits, Exists, NEW f \in Finisher, FinishStrip(f)
    PROVE  \/ /\ MarksSame /\ ~Ours' /\ ~Adopted' /\ NoFailure
              /\ RunSet(f, "done") \/ RunSet(f, "unmark")
           \/ ViewSame /\ Failure /\ RunSet(f, "failed")
<1>1. CASE OwnerSet(FALSE, FALSE) /\ RunSet(f, IF git[f[1]] = "none" THEN "done" ELSE "unmark") /\ NoFailure
  <2>1. RunSet(f, "done") \/ RunSet(f, "unmark")
    BY <1>1
  <2> QED BY <1>1, <2>1, OwnerView
<1>2. CASE UNCHANGED connection /\ RunSet(f, "failed") /\ (Failure \/ (~Exists /\ NoFailure))
  BY <1>2, ViewFrame
<1> QED BY <1>1, <1>2, FinishStripEffect

LEMMA FinishUnmarkView ==
    ASSUME Fits, Exists, NEW f \in Finisher, FinishUnmark(f)
    PROVE  \/ f[1] \in Join /\ JoinMarkOff(f[1]) /\ RunSet(f, "done") /\ NoFailure
           \/ f[1] \in UnadoptPR /\ KeepMark = f[1] /\ KeepMarkPut(NoMark) /\ RunSet(f, "done") /\ NoFailure
           \/ ViewSame /\ RunSet(f, "done") /\ NoFailure
           \/ ViewSame /\ (RunSet(f, "done") \/ RunSet(f, "failed")) /\ Failure
<1>1. f[1] \in PR /\ (f[1] \in Join \/ f[1] \in UnadoptPR)
  BY FinishUnmarkEffect, Sorts
<1>2. CASE MarkSet(Key(f[1]), NoMark) /\ connection.mark[Key(f[1])] = f[1] /\ RunSet(f, "done") /\ NoFailure
  <2>1. CASE f[1] \in Join
    BY <1>2, <2>1, JoinOffView
  <2>2. CASE f[1] \in UnadoptPR
    BY <1>2, <2>2, KeepView, KeySorts DEF KeepMark
  <2> QED BY <1>1, <2>1, <2>2
<1>3. CASE UNCHANGED connection
  BY <1>3, ViewFrame, FinishUnmarkEffect, Sorts, KeySorts, <1>1 DEF MarkSet
<1> QED BY <1>2, <1>3, FinishUnmarkEffect

LEMMA MarksListView ==
    ASSUME Fits, Exists, MarksList
    PROVE  /\ ViewSame /\ listed'["keep"] = IF KeepMark = Pending THEN NoMark ELSE KeepMark
           /\ \A q \in Join : listed'[Key(q)] = q => MarkedBy(q)
<1>1. "keep" \in Keys /\ \A q \in Join : Key(q) \in Keys
  BY KeySorts, Sorts DEF Keys
<1> QED BY <1>1, MarksListEffect, ViewFrame, Sorts DEF KeepMark, MarkedBy

LEMMA MarksWriteView ==
    ASSUME Fits, Exists, MarksWrite
    PROVE  \/ ViewSame /\ tick \in {"setNumber", "takeOff", "giveBack"} /\ Failure
           \/ ViewSame /\ tick \in {"setNumber", "takeOff", "giveBack"} /\ KeepMark \notin Unnumbered /\ NoFailure
           \/ tick = "takeOff" /\ KeepMarkPut(NoMark) /\ NoFailure
           \/ tick = "setNumber" /\ number \in UnadoptPR /\ KeepMarkPut(number) /\ NoFailure
           \/ /\ tick = "giveBack" /\ ~Ours' /\ (Adopted' <=> Adopted) /\ NoFailure
              /\ KeepMark' = IF KeepMark \in Unnumbered THEN NoMark ELSE KeepMark
              /\ \A q \in Join : MarkedBy(q)' <=> MarkedBy(q)
<1>1. CASE /\ UNCHANGED connection /\ tick \in {"setNumber", "takeOff", "giveBack"}
           /\ Failure \/ (NoFailure /\ (~Exists \/ connection.mark["keep"] \notin Unnumbered))
  BY <1>1, ViewFrame DEF KeepMark
<1>2. CASE tick = "giveBack" /\ GivenBack /\ NoFailure
  <2>1. \A q \in Join : Key(q) \in Keys \ {"keep"}
    BY KeySorts DEF Keys
  <2>2. ~Ours' /\ (Adopted' <=> Adopted)
    BY <1>2 DEF GivenBack, Ours, Adopted
  <2>3. KeepMark' = IF KeepMark \in Unnumbered THEN NoMark ELSE KeepMark
    BY <1>2 DEF GivenBack, KeepMark
  <2>4. \A q \in Join : MarkedBy(q)' <=> MarkedBy(q)
    BY <1>2, <2>1 DEF GivenBack, MarkedBy
  <2> QED BY <1>2, <2>2, <2>3, <2>4
<1>3. CASE tick = "takeOff" /\ MarkSet("keep", NoMark) /\ NoFailure
  BY <1>3, KeepView
<1>4. CASE tick = "setNumber" /\ number \in UnadoptPR /\ MarkSet("keep", number) /\ NoFailure
  BY <1>4, KeepView
<1> QED BY <1>1, <1>2, <1>3, <1>4, MarksWriteEffect

LEMMA MarkAgesView ==
    ASSUME Fits, Exists, MarkAges
    PROVE  KeepMark = Pending /\ KeepMarkPut(OldPending)
  BY MarkAgesEffect, KeepView DEF KeepMark

LEMMA FitsAt ==
    ASSUME Fits, NEW q \in PR
    PROVE  RequestAt(q) /\ FinAt(q) /\ EntryAt(q) /\ UnopenedAt(q)
  BY DEF Fits, RequestsFit, FinFit, EntriesFit, UnopenedUnknown

LEMMA JoinAt ==
    ASSUME Owned, NEW q \in Join
    PROVE  JoinInGitAt(q) /\ JoinMarkedAt(q) /\ JoinSwappedAt(q)
  BY DEF Owned, JoinInGit, JoinMarked, JoinSwapped

LEMMA UnadoptAt ==
    ASSUME Owned, NEW q \in UnadoptPR
    PROVE  /\ UnadoptInGitAt(q) /\ UnadoptMarkedAt(q) /\ UnadoptStrippedAt(q)
           /\ Busy(q) => \A v \in UnadoptPR : v # q => ~Busy(v)
  BY DEF Owned, UnadoptInGit, UnadoptMarked, UnadoptStripped, OneBusy

LEMMA OneBusyKept ==
    ASSUME OneBusy, \A v \in UnadoptPR : Busy(v)' => Busy(v)
    PROVE  OneBusy'
  BY DEF OneBusy

LEMMA JoinOwedKept ==
    ASSUME JoinOwed, inGit' /\ ~Ours' => inGit /\ ~Ours,
           \A q \in Join : inGit' /\ ~Ours' /\ JoinOwes(q) => JoinOwes(q)'
    PROVE  JoinOwed'
  BY DEF JoinOwed

LEMMA UnadoptOwedKept ==
    ASSUME UnadoptOwed, ~inGit' /\ Ours' => ~inGit /\ Ours,
           \A u \in UnadoptPR : ~inGit' /\ Ours' /\ UnadoptOwes(u) => UnadoptOwes(u)'
    PROVE  UnadoptOwed'
  BY DEF UnadoptOwed

LEMMA JoinInGitFrame ==
    JoinInGit /\ ViewSame /\ UNCHANGED <<git, req, tracked, listed, inGit, found, diff>> => JoinInGit'
  BY DEF JoinInGit, JoinInGitAt, JoinBusy, Running, ViewSame, MarksSame

LEMMA JoinMarkedFrame ==
    JoinMarked /\ ViewSame /\ UNCHANGED <<git, req, tracked, failures, listed>> => JoinMarked'
  BY DEF JoinMarked, JoinMarkedAt, Spent, ViewSame, MarksSame

LEMMA JoinSwappedFrame == JoinSwapped /\ ViewSame /\ UNCHANGED <<fin, req>> => JoinSwapped'
  BY FinStays, Sorts DEF JoinSwapped, JoinSwappedAt, ViewSame, OwnerSame

LEMMA JoinOwedFrame ==
    JoinOwed /\ ViewSame /\ UNCHANGED <<inGit, git, failures, tracked, fin, req>> => JoinOwed'
  BY FinStays, Sorts DEF JoinOwed, JoinOwes, Spent, JoinDue, ViewSame, MarksSame, OwnerSame

LEMMA BusyFrame ==
    ASSUME ViewSame, UNCHANGED <<git, req, tracked, listed, number, fin>>
    PROVE  \A v \in UnadoptPR : Busy(v)' <=> Busy(v)
  BY FinStays, Sorts DEF Busy, Running, ViewSame, MarksSame

LEMMA PendingFrame ==
    PendingFit /\ ViewSame /\ UNCHANGED <<req, failures, marked, tick, listed>> => PendingFit'
  BY DEF PendingFit, Spent, Running, ViewSame, MarksSame

LEMMA UnadoptInGitFrame == UnadoptInGit /\ UNCHANGED <<req, inGit, git, diff, fin>> => UnadoptInGit'
  BY FinStays, Sorts DEF UnadoptInGit, UnadoptInGitAt

LEMMA PassInGitFrame == PassInGit /\ UNCHANGED <<inGit, tick>> => PassInGit'
  BY DEF PassInGit

LEMMA UnadoptKnownFrame == UnadoptKnown /\ ViewSame /\ UNCHANGED <<failures, req>> => UnadoptKnown'
  BY DEF UnadoptKnown, Spent, ViewSame, OwnerSame

LEMMA UnadoptMarkedFrame ==
    UnadoptMarked /\ ViewSame /\ UNCHANGED <<git, req, failures, listed>> => UnadoptMarked'
  BY DEF UnadoptMarked, UnadoptMarkedAt, KeptFor, Spent, ViewSame, MarksSame

LEMMA UnadoptStrippedFrame ==
    UnadoptStripped /\ ViewSame /\ UNCHANGED <<fin, inGit, git>> => UnadoptStripped'
  BY FinStays, Sorts DEF UnadoptStripped, UnadoptStrippedAt, ViewSame, OwnerSame

LEMMA UnadoptOwedFrame ==
    ASSUME UnadoptOwed, ViewSame,
           UNCHANGED <<inGit, git, failures, tracked, fin, req, listed, number>>
    PROVE  UnadoptOwed'
<1>1. \A v \in UnadoptPR : Busy(v)' <=> Busy(v)
  BY BusyFrame
<1>2. \A u \in UnadoptPR : UnadoptDue(u) => UnadoptDue(u)'
  BY FinStays, Sorts DEF UnadoptDue
<1>3. ASSUME NEW u \in UnadoptPR, UnadoptOwes(u) PROVE UnadoptOwes(u)'
  BY <1>1, <1>2, <1>3 DEF UnadoptOwes, Finished, KeptFor, Spent, ViewSame, MarksSame
<1> QED BY <1>3, UnadoptOwedKept DEF ViewSame, OwnerSame

\* Once Merged, a merge is the same for whoever merged.
JoinMergeRefused(p) == JoinMerge(p) /\ ~Merged(p)
UnadoptMergeRefused(p) == UnadoptMerge(p) /\ ~Merged(p)
MarksTrackAt(p) ==
    /\ tick = "pass" /\ tick' \in {"idle", "pass"} /\ number' = NoPR
    /\ listed[Key(p)] = p /\ git[p] # "none"
    /\ listed'[Key(p)] = NoMark /\ \A l \in Keys \ {Key(p)} : listed'[l] = listed[l]
    /\ \/ tracked[p] = NoEntry /\ NoFailure /\ Recorded(p, git[p])
       \/ UNCHANGED tracked /\ tracked[p] # NoEntry /\ NoFailure
       \/ UNCHANGED tracked /\ Failure
    /\ Others(p) /\ FinSame(p)
    /\ UNCHANGED <<inGit, crossed, git, diff, connection, req, found, marked, fin>>

LEMMA JoinMergeRefusedEffect ==
    ASSUME Fits, NEW p \in PR, JoinMergeRefused(p)
    PROVE  /\ p \in Join /\ req[p] = "merge" /\ req'[p] = "done"
           /\ Failure \/ (git[p] # "open" /\ NoFailure)
           /\ Others(p) /\ FinSame(p)
           /\ UNCHANGED <<inGit, crossed, git, diff, connection, tracked, found, marked, fin, tick, listed, number>>
  BY JoinMergeEffect DEF JoinMergeRefused

LEMMA UnadoptMergeRefusedEffect ==
    ASSUME Fits, NEW p \in PR, UnadoptMergeRefused(p)
    PROVE  /\ p \in UnadoptPR /\ req[p] = "merge" /\ req'[p] = "number"
           /\ Failure \/ (git[p] # "open" /\ NoFailure)
           /\ Others(p) /\ FinSame(p)
           /\ UNCHANGED <<inGit, crossed, git, diff, connection, tracked, found, marked, fin, tick, listed, number>>
  BY UnadoptMergeEffect DEF UnadoptMergeRefused

LEMMA MarksTrackAtEffect ==
    ASSUME NEW p \in PR, MarksTrackAt(p)
    PROVE  /\ tick = "pass" /\ tick' \in {"idle", "pass"} /\ number' = NoPR /\ listed[Key(p)] = p
           /\ \A q \in PR : listed'[Key(q)] = q => listed[Key(q)] = q /\ q # p
           /\ \/ listed'["keep"] = NoMark
              \/ listed'["keep"] = listed["keep"]
           /\ \/ tracked[p] = NoEntry /\ NoFailure /\ Recorded(p, git[p]) /\ git[p] # "none"
              \/ UNCHANGED tracked /\ tracked[p] # NoEntry /\ NoFailure
              \/ UNCHANGED tracked /\ Failure
           /\ Others(p) /\ FinSame(p)
           /\ UNCHANGED <<inGit, crossed, git, diff, connection, req, found, marked, fin>>
<1>1. \A q \in PR : listed'[Key(q)] = q => listed[Key(q)] = q /\ q # p
  BY KeySorts, Sorts DEF MarksTrackAt
<1>2. listed'["keep"] = NoMark \/ listed'["keep"] = listed["keep"]
  BY KeySorts DEF MarksTrackAt, Keys
<1> QED BY <1>1, <1>2 DEF MarksTrackAt

LEMMA NothingMeans ==
    ASSUME listed' = Nothing
    PROVE  listed'["keep"] = NoMark /\ \A q \in PR : listed'[Key(q)] = NoMark /\ listed'[Key(q)] # q
  BY KeySorts, Sorts DEF Nothing, Keys

\* A merge, by a request or by a person.
LEMMA MergeOwned ==
    ASSUME Fits, Owned, Exists, ~crossed', NEW p \in PR, Merged(p), Others(p), FinSame(p),
           UNCHANGED <<connection, tracked, found, marked, fin, tick, listed, number, failures>>,
           req'[p] = req[p] \/ (req[p] = "merge" /\ req'[p] = IF p \in Join THEN "swap" ELSE "merged")
    PROVE  Owned'
<1>1. RequestAt(p) /\ FinAt(p) /\ EntryAt(p) /\ UnopenedAt(p) /\ (p \in Join \/ p \in UnadoptPR)
  BY FitsAt, Sorts
<1>2. git[p] = "open" /\ git'[p] = "merged" /\ Known(p) /\ ~Deciding
  BY DEF Merged
<1>3. ViewSame /\ (Spent' <=> Spent)
  BY ViewFrame DEF Spent
<1>4. ASSUME NEW q \in PR, q # p PROVE Same(q)
  BY <1>4 DEF Others
<1>5. /\ p \in Join => inGit'
      /\ p \in UnadoptPR => ~inGit'
  <2>1. p \in Join => inGit'
    BY <1>2, JoinAt DEF JoinInGitAt, Merged
  <2>2. p \in UnadoptPR => ~inGit'
    BY <1>2, UnadoptAt, Sorts DEF UnadoptInGitAt, Merged
  <2> QED BY <2>1, <2>2
<1>6. p \in UnadoptPR => \A q \in Join : git[q] # "open" /\ ~JoinBusy(q)
  BY OverMeans DEF Merged
<1>7. p \in UnadoptPR => Busy(p) /\ \A u \in UnadoptPR : u # p => ~Busy(u)
  BY <1>2, UnadoptAt DEF Busy
<1>8. /\ tick \notin {"takeOff", "giveBack"}
      /\ \A u \in UnadoptPR : TrackerStep(u) # "strip" /\ RequestStep(u) # "strip" /\ req[u] # "merged"
  <2>1. \A u \in UnadoptPR : <<u, "tracker">> \in Finisher /\ <<u, "request">> \in Finisher
    BY Sorts DEF Finisher
  <2> QED BY <1>2, <2>1 DEF Deciding, TrackerStep, RequestStep
<1>9. TrackerStep(p) = "idle" /\ RequestStep(p) = "idle"
  BY <1>1, <1>2 DEF FinAt
<1>10. \A v \in UnadoptPR : Busy(v)' => Busy(v)
  <2>1. ASSUME NEW v \in UnadoptPR, v # p PROVE Busy(v)' => Busy(v)
    BY <1>3, <1>4, <2>1, Sorts DEF Busy, Running, Same, FinSame, ViewSame, MarksSame
  <2> QED BY <2>1, <1>7
<1>11. JoinInGit'
  <2>1. CASE p \in Join
    BY <2>1, <1>5 DEF JoinInGit, JoinInGitAt
  <2>2. CASE p \in UnadoptPR
    <3>1. ASSUME NEW q \in Join PROVE JoinInGitAt(q)'
      <4>1. Same(q) /\ git[q] # "open" /\ ~JoinBusy(q)
        BY <2>2, <1>4, <1>6, Sorts
      <4>2. ~JoinBusy(q)' /\ ~Running(q)' /\ git'[q] # "open"
        BY <4>1, <1>3 DEF JoinBusy, Running, Same, ViewSame, MarksSame
      <4> QED BY <4>2 DEF JoinInGitAt, Running
    <3> QED BY <3>1 DEF JoinInGit
  <2> QED BY <1>1, <2>1, <2>2
<1>12. JoinMarked'
  <2>1. ASSUME NEW q \in Join, q # p PROVE JoinMarkedAt(q)'
    <3>1. Same(q) /\ JoinMarkedAt(q)
      BY <2>1, <1>4, JoinAt, Sorts
    <3> QED BY <3>1, <1>3 DEF JoinMarkedAt, Same, ViewSame, MarksSame
  <2>2. JoinMarkedAt(p)'
    BY <1>2 DEF JoinMarkedAt
  <2> QED BY <2>1, <2>2 DEF JoinMarked
<1>13. JoinSwapped'
  <2>1. ASSUME NEW q \in Join PROVE JoinSwappedAt(q)'
    <3>1. JoinSwappedAt(q) /\ FinSame(q) /\ (req'[q] = "annotate" => req[q] = "annotate")
      BY <2>1, <1>4, JoinAt, Sorts DEF Same
    <3> QED BY <3>1, <1>3 DEF JoinSwappedAt, FinSame, ViewSame, OwnerSame
  <2> QED BY <2>1 DEF JoinSwapped
<1>14. JoinOwed'
  <2>1. CASE p \in UnadoptPR
    BY <2>1, <1>5 DEF JoinOwed
  <2>2. CASE p \in Join
    <3>1. JoinMarkedAt(p)
      BY <2>2, JoinAt
    <3>2. MarkedBy(p) \/ (Spent /\ tracked[p] # NoEntry)
      BY <1>2, <2>2, <3>1, KnownMeans, Sorts DEF JoinMarkedAt
    <3>3. MarkedBy(p)' \/ (Spent' /\ JoinDue(p)')
      BY <1>1, <1>2, <1>3, <1>9, <2>2, <3>2 DEF EntryAt, JoinDue, FinSame, ViewSame, MarksSame
    <3> QED BY <1>2, <2>2, <3>3 DEF JoinOwed, JoinOwes
  <2> QED BY <1>1, <2>1, <2>2
<1>15. OneBusy'
  BY <1>10, OneBusyKept DEF Owned
<1>16. PendingFit'
  <2>1. \A u \in UnadoptPR : (req[u] # "idle" => req'[u] # "idle") /\ (~Running(u) => ~Running(u)')
    BY <1>4, Sorts DEF Same, Running
  <2>2. KeepMark' = KeepMark
    BY <1>3 DEF ViewSame, MarksSame
  <2> QED BY <2>1, <2>2, <1>3 DEF Owned, PendingFit
<1>17. UnadoptInGit'
  <2>1. ASSUME NEW q \in UnadoptPR, q # p PROVE UnadoptInGitAt(q)'
    <3>1. Same(q) /\ UnadoptInGitAt(q)
      BY <2>1, <1>4, UnadoptAt, Sorts
    <3>2. CASE p \in Join
      BY <3>1, <3>2, <1>5, <1>8, <2>1 DEF UnadoptInGitAt, Same, FinSame
    <3>3. CASE p \in UnadoptPR
      BY <3>1, <3>3, <1>7, <1>8, <2>1 DEF UnadoptInGitAt, Same, FinSame, Busy, Running
    <3> QED BY <1>1, <3>2, <3>3
  <2>2. p \in UnadoptPR => UnadoptInGitAt(p)'
    BY <1>1, <1>2, <1>5, Sorts DEF UnadoptInGitAt, RequestAt, BeforeOpen
  <2> QED BY <2>1, <2>2 DEF UnadoptInGit
<1>18. PassInGit'
  BY <1>8 DEF PassInGit
<1>19. UnadoptKnown'
  <2>1. \A u \in UnadoptPR : req'[u] \in {"plan", "look", "setMark"} => req[u] = req'[u]
    BY <1>4, Sorts DEF Same
  <2> QED BY <2>1, <1>3 DEF Owned, UnadoptKnown, ViewSame, OwnerSame
<1>20. UnadoptMarked'
  <2>1. ASSUME NEW q \in UnadoptPR, q # p PROVE UnadoptMarkedAt(q)'
    <3>1. Same(q) /\ UnadoptMarkedAt(q)
      BY <2>1, <1>4, UnadoptAt, Sorts
    <3> QED BY <3>1, <1>3 DEF UnadoptMarkedAt, KeptFor, Same, ViewSame, MarksSame
  <2>2. p \in UnadoptPR => UnadoptMarkedAt(p)'
    BY <1>1, <1>2 DEF UnadoptMarkedAt, RequestAt, BeforeOpen
  <2> QED BY <2>1, <2>2 DEF UnadoptMarked
<1>21. UnadoptStripped'
  <2>1. ASSUME NEW q \in UnadoptPR, q # p PROVE UnadoptStrippedAt(q)'
    <3>1. Same(q)
      BY <2>1, <1>4, Sorts
    <3>2. CASE p \in Join
      BY <3>2, <1>5 DEF UnadoptStrippedAt
    <3>3. CASE p \in UnadoptPR
      BY <3>1, <3>3, <1>7, <2>1 DEF UnadoptStrippedAt, Same, FinSame, Busy
    <3> QED BY <1>1, <3>2, <3>3
  <2>2. UnadoptStrippedAt(p)'
    BY <1>9 DEF UnadoptStrippedAt, FinSame
  <2> QED BY <2>1, <2>2 DEF UnadoptStripped
<1>22. UnadoptOwed'
  <2>1. CASE p \in Join
    BY <2>1, <1>5 DEF UnadoptOwed
  <2>2. CASE p \in UnadoptPR
    <3>1. UnadoptMarkedAt(p) /\ Key(p) = "keep"
      BY <2>2, UnadoptAt, KeySorts
    <3>2. KeptFor(p) \/ (Spent /\ tracked[p] # NoEntry)
      BY <1>2, <2>2, <3>1, KnownMeans, KeptMeans, Sorts DEF UnadoptMarkedAt, KeptFor
    <3>3. KeptFor(p)' \/ (Spent' /\ UnadoptDue(p)')
      BY <1>1, <1>2, <1>3, <1>9, <2>2, <3>2 DEF EntryAt, UnadoptDue, KeptFor, FinSame, ViewSame, MarksSame
    <3>4. Finished(p)' /\ \A v \in UnadoptPR : v # p => ~Busy(v)'
      BY <1>2, <1>7, <1>10, <2>2 DEF Finished
    <3> QED BY <2>2, <3>3, <3>4 DEF UnadoptOwed, UnadoptOwes
  <2> QED BY <1>1, <2>1, <2>2
<1> QED BY <1>11, <1>12, <1>13, <1>14, <1>15, <1>16, <1>17, <1>18, <1>19, <1>20, <1>21, <1>22 DEF Owned

LEMMA PersonMergesOwned ==
    ASSUME Fits, Fits', Owned, Exists, Exists', ~crossed', MaxFailures <= 1, NEW p \in PR, PersonMerges(p)
    PROVE  Owned'
  BY PersonMergesEffect, MergeOwned

----------------------------------------------------------------------------
(* Owned survives each action, while the Secret is there and nothing crossed. *)

LEMMA JoinPreflightOwned ==
    ASSUME Fits, Fits', Owned, Exists, Exists', ~crossed', MaxFailures <= 1, NEW p \in PR, JoinPreflight(p)
    PROVE  Owned'
<1>1. (Failure => ~Spent /\ Spent') /\ (NoFailure => (Spent' <=> Spent))
  BY SpentStep
<1>2. ViewSame
  BY JoinPreflightEffect, ViewFrame
<1>3. p \in PR /\ RequestAt(p) /\ FinAt(p) /\ EntryAt(p) /\ UnopenedAt(p)
  BY JoinPreflightEffect, Sorts, FitsAt
<1>4. JoinInGitAt(p) /\ JoinMarkedAt(p) /\ JoinSwappedAt(p)
  BY JoinPreflightEffect, JoinAt
<1>5. \A v \in UnadoptPR : Busy(v)' => Busy(v)
  <2>1. ASSUME NEW v \in UnadoptPR, v # p PROVE Busy(v)' => Busy(v)
    <3>1. v \in PR /\ Same(v)
      BY <2>1, JoinPreflightEffect, Sorts DEF Others
    <3> QED BY <2>1, <3>1, <1>1, JoinPreflightEffect, <1>2, <1>3, <1>4, Sorts, KeySorts DEF Busy, Running, FinSame, Same, ViewSame, MarksSame, OwnerSame, Same, FinSame
  <2>2. p \in UnadoptPR => (Busy(p)' => Busy(p))
    BY <1>1, JoinPreflightEffect, <1>2, <1>3, <1>4, Sorts, KeySorts, FinStays DEF Busy, Running, FinSame, Same, ViewSame, MarksSame, OwnerSame
  <2> QED BY <2>1, <2>2, Sorts, JoinPreflightEffect
<1>6. JoinInGit'
  <2>1. ASSUME NEW q \in Join, q # p PROVE JoinInGitAt(q)'
    <3>1. Same(q) /\ q \in PR /\ JoinInGitAt(q) /\ RequestAt(q) /\ FinAt(q) /\ EntryAt(q) /\ UnopenedAt(q)
      BY <2>1, JoinPreflightEffect, JoinAt, FitsAt, Sorts DEF Others
    <3> QED BY <2>1, <3>1, <1>1, JoinPreflightEffect, <1>2, <1>3, <1>4, Sorts, KeySorts, FinStays DEF JoinInGitAt, JoinBusy, Running, FinAt, Finished, FinSame, Same, ViewSame, MarksSame, OwnerSame
  <2>2. p \in Join => JoinInGitAt(p)'
    <3>1. git[p] = "none" /\ git' = git
      BY <1>1, JoinPreflightEffect, <1>2, <1>3, <1>4 DEF RequestAt, BeforeOpen
    <3> QED BY <3>1, <1>1, JoinPreflightEffect, <1>2, <1>3, <1>4 DEF JoinInGitAt
  <2> QED BY <2>1, <2>2 DEF JoinInGit
<1>7. JoinMarked'
  <2>1. ASSUME NEW q \in Join, q # p PROVE JoinMarkedAt(q)'
    <3>1. Same(q) /\ q \in PR /\ JoinMarkedAt(q) /\ RequestAt(q) /\ FinAt(q) /\ EntryAt(q) /\ UnopenedAt(q)
      BY <2>1, JoinPreflightEffect, JoinAt, FitsAt, Sorts DEF Others
    <3> QED BY <2>1, <3>1, <1>1, JoinPreflightEffect, <1>2, <1>3, <1>4, Sorts, KeySorts, FinStays DEF JoinMarkedAt, RequestAt, BeforeOpen, UnopenedAt, FinSame, Same, ViewSame, MarksSame, OwnerSame
  <2>2. p \in Join => JoinMarkedAt(p)'
    BY <1>1, JoinPreflightEffect, <1>2, <1>3, <1>4, Sorts, KeySorts, FinStays, UnadoptAt, JoinAt DEF JoinMarkedAt, RequestAt, BeforeOpen, UnopenedAt, FinSame, Same, ViewSame, MarksSame, OwnerSame
  <2> QED BY <2>1, <2>2 DEF JoinMarked
<1>8. JoinSwapped'
  <2>1. ASSUME NEW q \in Join, q # p PROVE JoinSwappedAt(q)'
    <3>1. Same(q) /\ q \in PR /\ JoinSwappedAt(q) /\ RequestAt(q) /\ FinAt(q) /\ EntryAt(q) /\ UnopenedAt(q)
      BY <2>1, JoinPreflightEffect, JoinAt, FitsAt, Sorts DEF Others
    <3> QED BY <2>1, <3>1, <1>1, JoinPreflightEffect, <1>2, <1>3, <1>4, Sorts, KeySorts, FinStays DEF JoinSwappedAt, JoinInGitAt, JoinBusy, FinAt, Finished, FinSame, Same, ViewSame, MarksSame, OwnerSame
  <2>2. p \in Join => JoinSwappedAt(p)'
    BY <1>1, JoinPreflightEffect, <1>2, <1>3, <1>4, Sorts, KeySorts, FinStays, UnadoptAt, JoinAt DEF JoinSwappedAt, JoinInGitAt, JoinBusy, FinAt, Finished, FinSame, Same, ViewSame, MarksSame, OwnerSame
  <2> QED BY <2>1, <2>2 DEF JoinSwapped
<1>9. JoinOwed'
  <2>1. inGit' /\ ~Ours' => inGit /\ ~Ours
    BY <1>1, JoinPreflightEffect, <1>2, <1>3, <1>4 DEF JoinOwes, JoinDue, JoinSwappedAt, JoinMarkedAt, FinAt, Finished, EntryAt, UnopenedAt, FinSame, Same, ViewSame, MarksSame, OwnerSame
  <2>2. ASSUME NEW q \in Join, inGit' /\ ~Ours', JoinOwes(q) PROVE JoinOwes(q)'
    <3>1. q \in PR /\ RequestAt(q) /\ FinAt(q) /\ EntryAt(q) /\ JoinInGitAt(q) /\ JoinMarkedAt(q) /\ JoinSwappedAt(q)
      BY JoinAt, FitsAt, Sorts
    <3>2. CASE q # p
      <4>1. Same(q)
        BY <3>1, <3>2, JoinPreflightEffect DEF Others
      <4> QED BY <2>2, <3>1, <4>1, <3>2, <1>1, JoinPreflightEffect, <1>2, <1>3, <1>4, Sorts, KeySorts, FinStays DEF JoinOwes, JoinDue, JoinSwappedAt, JoinMarkedAt, FinAt, Finished, EntryAt, UnopenedAt, FinSame, Same, ViewSame, MarksSame, OwnerSame
    <3>3. CASE q = p
      BY <2>2, <3>1, <3>3, <1>1, JoinPreflightEffect, <1>2, <1>3, <1>4, Sorts, KeySorts, FinStays DEF JoinOwes, JoinDue, JoinSwappedAt, JoinMarkedAt, FinAt, Finished, EntryAt, UnopenedAt, FinSame, Same, ViewSame, MarksSame, OwnerSame
    <3> QED BY <3>2, <3>3
  <2> QED BY <2>1, <2>2, JoinOwedKept DEF Owned
<1>10. OneBusy'
  BY <1>5, OneBusyKept DEF Owned
<1>11. PendingFit'
  BY <1>1, JoinPreflightEffect, <1>2, <1>3, <1>4, Sorts, KeySorts, FinStays DEF Owned, Fits, PendingFit, Running, RequestsFit, RequestAt, MarksFit, Nothing, FinSame, Same, ViewSame, MarksSame, OwnerSame, Others
<1>12. UnadoptInGit'
  <2>1. ASSUME NEW q \in UnadoptPR, q # p PROVE UnadoptInGitAt(q)'
    <3>1. Same(q) /\ q \in PR /\ UnadoptInGitAt(q) /\ RequestAt(q) /\ FinAt(q) /\ EntryAt(q) /\ UnopenedAt(q)
      BY <2>1, JoinPreflightEffect, UnadoptAt, FitsAt, Sorts DEF Others
    <3> QED BY <2>1, <3>1, <1>1, JoinPreflightEffect, <1>2, <1>3, <1>4, Sorts, KeySorts, FinStays DEF UnadoptInGitAt, Busy, Running, RequestAt, BeforeOpen, FinAt, Finished, FinSame, Same
  <2> QED BY <2>1, JoinPreflightEffect, Sorts DEF UnadoptInGit
<1>13. UnadoptKnown'
  BY <1>1, JoinPreflightEffect, <1>2, <1>3, <1>4, Sorts, KeySorts, FinStays DEF Owned, Fits, UnadoptKnown, Busy, Running, PendingFit, RequestAt, BeforeOpen, FinAt, Finished, FinSame, Same, ViewSame, MarksSame, OwnerSame, Others
<1>14. UnadoptMarked'
  <2>1. ASSUME NEW q \in UnadoptPR, q # p PROVE UnadoptMarkedAt(q)'
    <3>1. Same(q) /\ q \in PR /\ UnadoptMarkedAt(q) /\ RequestAt(q) /\ FinAt(q) /\ EntryAt(q) /\ UnopenedAt(q)
      BY <2>1, JoinPreflightEffect, UnadoptAt, FitsAt, Sorts DEF Others
    <3> QED BY <2>1, <3>1, <1>1, JoinPreflightEffect, <1>2, <1>3, <1>4, Sorts, KeySorts, FinStays DEF UnadoptMarkedAt, UnadoptKnown, KeptFor, Busy, Running, RequestAt, BeforeOpen, FinAt, Finished, FinSame, Same, ViewSame, MarksSame, OwnerSame
  <2> QED BY <2>1, JoinPreflightEffect, Sorts DEF UnadoptMarked
<1>15. UnadoptOwed'
  <2>1. ~inGit' /\ Ours' => ~inGit /\ Ours
    BY <1>1, JoinPreflightEffect, <1>2, <1>3, <1>4 DEF UnadoptOwes, UnadoptDue, KeptFor, UnadoptStrippedAt, UnadoptMarkedAt, Busy, Running, RequestAt, BeforeOpen, FinAt, Finished, EntryAt, FinSame, Same, ViewSame, MarksSame, OwnerSame
  <2>2. ASSUME NEW q \in UnadoptPR, ~inGit' /\ Ours', UnadoptOwes(q) PROVE UnadoptOwes(q)'
    <3>1. q \in PR /\ RequestAt(q) /\ FinAt(q) /\ EntryAt(q) /\ UnadoptInGitAt(q) /\ UnadoptMarkedAt(q) /\ UnadoptStrippedAt(q)
      BY UnadoptAt, FitsAt, Sorts
    <3>2. CASE q # p
      <4>1. Same(q)
        BY <3>1, <3>2, JoinPreflightEffect DEF Others
      <4> QED BY <2>2, <3>1, <4>1, <3>2, <1>1, JoinPreflightEffect, <1>2, <1>3, <1>4, Sorts, KeySorts, FinStays, <1>5 DEF UnadoptOwes, UnadoptDue, KeptFor, UnadoptStrippedAt, UnadoptMarkedAt, Busy, Running, RequestAt, BeforeOpen, FinAt, Finished, EntryAt, FinSame, Same, ViewSame, MarksSame, OwnerSame
    <3> QED BY <3>2, JoinPreflightEffect, Sorts
  <2> QED BY <2>1, <2>2, UnadoptOwedKept DEF Owned
<1>16. PassInGit' /\ UnadoptStripped'
  BY <1>1, JoinPreflightEffect, <1>2, <1>3, <1>4, PassInGitFrame, UnadoptStrippedFrame DEF Owned
<1> QED BY <1>6, <1>7, <1>8, <1>9, <1>10, <1>11, <1>12, <1>13, <1>14, <1>15, <1>16 DEF Owned

LEMMA JoinFindOwned ==
    ASSUME Fits, Fits', Owned, Exists, Exists', ~crossed', MaxFailures <= 1, NEW p \in PR, JoinFind(p)
    PROVE  Owned'
<1>1. (Failure => ~Spent /\ Spent') /\ (NoFailure => (Spent' <=> Spent))
  BY SpentStep
<1>2. ViewSame
  BY JoinFindEffect, ViewFrame
<1>3. p \in PR /\ RequestAt(p) /\ FinAt(p) /\ EntryAt(p) /\ UnopenedAt(p)
  BY JoinFindEffect, Sorts, FitsAt
<1>4. JoinInGitAt(p) /\ JoinMarkedAt(p) /\ JoinSwappedAt(p)
  BY JoinFindEffect, JoinAt
<1>5. \A v \in UnadoptPR : Busy(v)' => Busy(v)
  <2>1. ASSUME NEW v \in UnadoptPR, v # p PROVE Busy(v)' => Busy(v)
    <3>1. v \in PR /\ Same(v)
      BY <2>1, JoinFindEffect, Sorts DEF Others
    <3> QED BY <2>1, <3>1, <1>1, JoinFindEffect, <1>2, <1>3, <1>4, Sorts, KeySorts DEF Busy, Running, FinSame, Same, ViewSame, MarksSame, OwnerSame, Same, FinSame
  <2>2. p \in UnadoptPR => (Busy(p)' => Busy(p))
    BY <1>1, JoinFindEffect, <1>2, <1>3, <1>4, Sorts, KeySorts, FinStays DEF Busy, Running, FinSame, Same, ViewSame, MarksSame, OwnerSame
  <2> QED BY <2>1, <2>2, Sorts, JoinFindEffect
<1>6. JoinInGit'
  <2>1. ASSUME NEW q \in Join, q # p PROVE JoinInGitAt(q)'
    <3>1. Same(q) /\ q \in PR /\ JoinInGitAt(q) /\ RequestAt(q) /\ FinAt(q) /\ EntryAt(q) /\ UnopenedAt(q)
      BY <2>1, JoinFindEffect, JoinAt, FitsAt, Sorts DEF Others
    <3> QED BY <2>1, <3>1, <1>1, JoinFindEffect, <1>2, <1>3, <1>4, Sorts, KeySorts, FinStays DEF JoinInGitAt, JoinBusy, Running, FinAt, Finished, FinSame, Same, ViewSame, MarksSame, OwnerSame
  <2>2. p \in Join => JoinInGitAt(p)'
    BY <1>1, JoinFindEffect, <1>2, <1>3, <1>4, Sorts, KeySorts, FinStays, UnadoptAt, JoinAt DEF JoinInGitAt, JoinBusy, Running, FinAt, Finished, FinSame, Same, ViewSame, MarksSame, OwnerSame
  <2> QED BY <2>1, <2>2 DEF JoinInGit
<1>7. JoinMarked'
  <2>1. ASSUME NEW q \in Join, q # p PROVE JoinMarkedAt(q)'
    <3>1. Same(q) /\ q \in PR /\ JoinMarkedAt(q) /\ RequestAt(q) /\ FinAt(q) /\ EntryAt(q) /\ UnopenedAt(q)
      BY <2>1, JoinFindEffect, JoinAt, FitsAt, Sorts DEF Others
    <3> QED BY <2>1, <3>1, <1>1, JoinFindEffect, <1>2, <1>3, <1>4, Sorts, KeySorts, FinStays DEF JoinMarkedAt, RequestAt, BeforeOpen, UnopenedAt, FinSame, Same, ViewSame, MarksSame, OwnerSame
  <2>2. p \in Join => JoinMarkedAt(p)'
    BY <1>1, JoinFindEffect, <1>2, <1>3, <1>4, Sorts, KeySorts, FinStays, UnadoptAt, JoinAt DEF JoinMarkedAt, RequestAt, BeforeOpen, UnopenedAt, FinSame, Same, ViewSame, MarksSame, OwnerSame
  <2> QED BY <2>1, <2>2 DEF JoinMarked
<1>8. JoinSwapped'
  <2>1. ASSUME NEW q \in Join, q # p PROVE JoinSwappedAt(q)'
    <3>1. Same(q) /\ q \in PR /\ JoinSwappedAt(q) /\ RequestAt(q) /\ FinAt(q) /\ EntryAt(q) /\ UnopenedAt(q)
      BY <2>1, JoinFindEffect, JoinAt, FitsAt, Sorts DEF Others
    <3> QED BY <2>1, <3>1, <1>1, JoinFindEffect, <1>2, <1>3, <1>4, Sorts, KeySorts, FinStays DEF JoinSwappedAt, JoinInGitAt, JoinBusy, FinAt, Finished, FinSame, Same, ViewSame, MarksSame, OwnerSame
  <2>2. p \in Join => JoinSwappedAt(p)'
    BY <1>1, JoinFindEffect, <1>2, <1>3, <1>4, Sorts, KeySorts, FinStays, UnadoptAt, JoinAt DEF JoinSwappedAt, JoinInGitAt, JoinBusy, FinAt, Finished, FinSame, Same, ViewSame, MarksSame, OwnerSame
  <2> QED BY <2>1, <2>2 DEF JoinSwapped
<1>9. JoinOwed'
  <2>1. inGit' /\ ~Ours' => inGit /\ ~Ours
    BY <1>1, JoinFindEffect, <1>2, <1>3, <1>4 DEF JoinOwes, JoinDue, JoinSwappedAt, JoinMarkedAt, FinAt, Finished, EntryAt, UnopenedAt, FinSame, Same, ViewSame, MarksSame, OwnerSame
  <2>2. ASSUME NEW q \in Join, inGit' /\ ~Ours', JoinOwes(q) PROVE JoinOwes(q)'
    <3>1. q \in PR /\ RequestAt(q) /\ FinAt(q) /\ EntryAt(q) /\ JoinInGitAt(q) /\ JoinMarkedAt(q) /\ JoinSwappedAt(q)
      BY JoinAt, FitsAt, Sorts
    <3>2. CASE q # p
      <4>1. Same(q)
        BY <3>1, <3>2, JoinFindEffect DEF Others
      <4> QED BY <2>2, <3>1, <4>1, <3>2, <1>1, JoinFindEffect, <1>2, <1>3, <1>4, Sorts, KeySorts, FinStays DEF JoinOwes, JoinDue, JoinSwappedAt, JoinMarkedAt, FinAt, Finished, EntryAt, UnopenedAt, FinSame, Same, ViewSame, MarksSame, OwnerSame
    <3>3. CASE q = p
      BY <2>2, <3>1, <3>3, <1>1, JoinFindEffect, <1>2, <1>3, <1>4, Sorts, KeySorts, FinStays DEF JoinOwes, JoinDue, JoinSwappedAt, JoinMarkedAt, FinAt, Finished, EntryAt, UnopenedAt, FinSame, Same, ViewSame, MarksSame, OwnerSame
    <3> QED BY <3>2, <3>3
  <2> QED BY <2>1, <2>2, JoinOwedKept DEF Owned
<1>10. OneBusy'
  BY <1>5, OneBusyKept DEF Owned
<1>11. PendingFit'
  BY <1>1, JoinFindEffect, <1>2, <1>3, <1>4, Sorts, KeySorts, FinStays DEF Owned, Fits, PendingFit, Running, RequestsFit, RequestAt, MarksFit, Nothing, FinSame, Same, ViewSame, MarksSame, OwnerSame, Others
<1>12. UnadoptInGit'
  <2>1. ASSUME NEW q \in UnadoptPR, q # p PROVE UnadoptInGitAt(q)'
    <3>1. Same(q) /\ q \in PR /\ UnadoptInGitAt(q) /\ RequestAt(q) /\ FinAt(q) /\ EntryAt(q) /\ UnopenedAt(q)
      BY <2>1, JoinFindEffect, UnadoptAt, FitsAt, Sorts DEF Others
    <3> QED BY <2>1, <3>1, <1>1, JoinFindEffect, <1>2, <1>3, <1>4, Sorts, KeySorts, FinStays DEF UnadoptInGitAt, Busy, Running, RequestAt, BeforeOpen, FinAt, Finished, FinSame, Same
  <2> QED BY <2>1, JoinFindEffect, Sorts DEF UnadoptInGit
<1>13. UnadoptKnown'
  BY <1>1, JoinFindEffect, <1>2, <1>3, <1>4, Sorts, KeySorts, FinStays DEF Owned, Fits, UnadoptKnown, Busy, Running, PendingFit, RequestAt, BeforeOpen, FinAt, Finished, FinSame, Same, ViewSame, MarksSame, OwnerSame, Others
<1>14. UnadoptMarked'
  <2>1. ASSUME NEW q \in UnadoptPR, q # p PROVE UnadoptMarkedAt(q)'
    <3>1. Same(q) /\ q \in PR /\ UnadoptMarkedAt(q) /\ RequestAt(q) /\ FinAt(q) /\ EntryAt(q) /\ UnopenedAt(q)
      BY <2>1, JoinFindEffect, UnadoptAt, FitsAt, Sorts DEF Others
    <3> QED BY <2>1, <3>1, <1>1, JoinFindEffect, <1>2, <1>3, <1>4, Sorts, KeySorts, FinStays DEF UnadoptMarkedAt, UnadoptKnown, KeptFor, Busy, Running, RequestAt, BeforeOpen, FinAt, Finished, FinSame, Same, ViewSame, MarksSame, OwnerSame
  <2> QED BY <2>1, JoinFindEffect, Sorts DEF UnadoptMarked
<1>15. UnadoptOwed'
  <2>1. ~inGit' /\ Ours' => ~inGit /\ Ours
    BY <1>1, JoinFindEffect, <1>2, <1>3, <1>4 DEF UnadoptOwes, UnadoptDue, KeptFor, UnadoptStrippedAt, UnadoptMarkedAt, Busy, Running, RequestAt, BeforeOpen, FinAt, Finished, EntryAt, FinSame, Same, ViewSame, MarksSame, OwnerSame
  <2>2. ASSUME NEW q \in UnadoptPR, ~inGit' /\ Ours', UnadoptOwes(q) PROVE UnadoptOwes(q)'
    <3>1. q \in PR /\ RequestAt(q) /\ FinAt(q) /\ EntryAt(q) /\ UnadoptInGitAt(q) /\ UnadoptMarkedAt(q) /\ UnadoptStrippedAt(q)
      BY UnadoptAt, FitsAt, Sorts
    <3>2. CASE q # p
      <4>1. Same(q)
        BY <3>1, <3>2, JoinFindEffect DEF Others
      <4> QED BY <2>2, <3>1, <4>1, <3>2, <1>1, JoinFindEffect, <1>2, <1>3, <1>4, Sorts, KeySorts, FinStays, <1>5 DEF UnadoptOwes, UnadoptDue, KeptFor, UnadoptStrippedAt, UnadoptMarkedAt, Busy, Running, RequestAt, BeforeOpen, FinAt, Finished, EntryAt, FinSame, Same, ViewSame, MarksSame, OwnerSame
    <3> QED BY <3>2, JoinFindEffect, Sorts
  <2> QED BY <2>1, <2>2, UnadoptOwedKept DEF Owned
<1>16. PassInGit' /\ UnadoptStripped'
  BY <1>1, JoinFindEffect, <1>2, <1>3, <1>4, PassInGitFrame, UnadoptStrippedFrame DEF Owned
<1> QED BY <1>6, <1>7, <1>8, <1>9, <1>10, <1>11, <1>12, <1>13, <1>14, <1>15, <1>16 DEF Owned

LEMMA JoinRemarkOwned ==
    ASSUME Fits, Fits', Owned, Exists, Exists', ~crossed', MaxFailures <= 1, NEW p \in PR, JoinRemark(p)
    PROVE  Owned'
<1>1. (Failure => ~Spent /\ Spent') /\ (NoFailure => (Spent' <=> Spent))
  BY SpentStep
<1>2. p \in PR /\ RequestAt(p) /\ FinAt(p) /\ EntryAt(p) /\ UnopenedAt(p)
  BY JoinRemarkEffect, Sorts, FitsAt
<1>3. JoinInGitAt(p) /\ JoinMarkedAt(p) /\ JoinSwappedAt(p)
  BY JoinRemarkEffect, JoinAt
<1>4. \A v \in UnadoptPR : Busy(v)' => Busy(v)
  <2>1. ASSUME NEW v \in UnadoptPR, v # p PROVE Busy(v)' => Busy(v)
    <3>1. v \in PR /\ Same(v)
      BY <2>1, JoinRemarkEffect, Sorts DEF Others
    <3> QED BY <2>1, <3>1, <1>1, JoinRemarkEffect, JoinRemarkView, <1>2, <1>3, Sorts, KeySorts DEF Busy, Running, FinSame, Same, ViewSame, JoinMarkPut, MarksSame, OwnerSame, Same, FinSame
  <2>2. p \in UnadoptPR => (Busy(p)' => Busy(p))
    BY <1>1, JoinRemarkEffect, JoinRemarkView, <1>2, <1>3, Sorts, KeySorts, FinStays DEF Busy, Running, FinSame, Same, ViewSame, JoinMarkPut, MarksSame, OwnerSame
  <2> QED BY <2>1, <2>2, Sorts, JoinRemarkEffect
<1>5. JoinInGit'
  <2>1. ASSUME NEW q \in Join, q # p PROVE JoinInGitAt(q)'
    <3>1. Same(q) /\ q \in PR /\ JoinInGitAt(q) /\ RequestAt(q) /\ FinAt(q) /\ EntryAt(q) /\ UnopenedAt(q)
      BY <2>1, JoinRemarkEffect, JoinAt, FitsAt, Sorts DEF Others
    <3> QED BY <2>1, <3>1, <1>1, JoinRemarkEffect, JoinRemarkView, <1>2, <1>3, Sorts, KeySorts, FinStays DEF JoinInGitAt, JoinBusy, Running, FinAt, Finished, FinSame, Same, ViewSame, JoinMarkPut, MarksSame, OwnerSame
  <2>2. p \in Join => JoinInGitAt(p)'
    BY <1>1, JoinRemarkEffect, JoinRemarkView, <1>2, <1>3, Sorts, KeySorts, FinStays, UnadoptAt, JoinAt DEF JoinInGitAt, JoinBusy, Running, FinAt, Finished, FinSame, Same, ViewSame, JoinMarkPut, MarksSame, OwnerSame
  <2> QED BY <2>1, <2>2 DEF JoinInGit
<1>6. JoinMarked'
  <2>1. ASSUME NEW q \in Join, q # p PROVE JoinMarkedAt(q)'
    <3>1. Same(q) /\ q \in PR /\ JoinMarkedAt(q) /\ RequestAt(q) /\ FinAt(q) /\ EntryAt(q) /\ UnopenedAt(q)
      BY <2>1, JoinRemarkEffect, JoinAt, FitsAt, Sorts DEF Others
    <3> QED BY <2>1, <3>1, <1>1, JoinRemarkEffect, JoinRemarkView, <1>2, <1>3, Sorts, KeySorts, FinStays DEF JoinMarkedAt, RequestAt, BeforeOpen, UnopenedAt, FinSame, Same, ViewSame, JoinMarkPut, MarksSame, OwnerSame
  <2>2. p \in Join => JoinMarkedAt(p)'
    BY <1>1, JoinRemarkEffect, JoinRemarkView, <1>2, <1>3, Sorts, KeySorts, FinStays, UnadoptAt, JoinAt DEF JoinMarkedAt, RequestAt, BeforeOpen, UnopenedAt, FinSame, Same, ViewSame, JoinMarkPut, MarksSame, OwnerSame
  <2> QED BY <2>1, <2>2 DEF JoinMarked
<1>7. JoinSwapped'
  <2>1. ASSUME NEW q \in Join, q # p PROVE JoinSwappedAt(q)'
    <3>1. Same(q) /\ q \in PR /\ JoinSwappedAt(q) /\ RequestAt(q) /\ FinAt(q) /\ EntryAt(q) /\ UnopenedAt(q)
      BY <2>1, JoinRemarkEffect, JoinAt, FitsAt, Sorts DEF Others
    <3> QED BY <2>1, <3>1, <1>1, JoinRemarkEffect, JoinRemarkView, <1>2, <1>3, Sorts, KeySorts, FinStays DEF JoinSwappedAt, JoinInGitAt, JoinBusy, FinAt, Finished, FinSame, Same, ViewSame, JoinMarkPut, MarksSame, OwnerSame
  <2>2. p \in Join => JoinSwappedAt(p)'
    BY <1>1, JoinRemarkEffect, JoinRemarkView, <1>2, <1>3, Sorts, KeySorts, FinStays, UnadoptAt, JoinAt DEF JoinSwappedAt, JoinInGitAt, JoinBusy, FinAt, Finished, FinSame, Same, ViewSame, JoinMarkPut, MarksSame, OwnerSame
  <2> QED BY <2>1, <2>2 DEF JoinSwapped
<1>8. JoinOwed'
  <2>1. inGit' /\ ~Ours' => inGit /\ ~Ours
    BY <1>1, JoinRemarkEffect, JoinRemarkView, <1>2, <1>3 DEF JoinOwes, JoinDue, JoinSwappedAt, JoinMarkedAt, FinAt, Finished, EntryAt, UnopenedAt, FinSame, Same, ViewSame, JoinMarkPut, MarksSame, OwnerSame
  <2>2. ASSUME NEW q \in Join, inGit' /\ ~Ours', JoinOwes(q) PROVE JoinOwes(q)'
    <3>1. q \in PR /\ RequestAt(q) /\ FinAt(q) /\ EntryAt(q) /\ JoinInGitAt(q) /\ JoinMarkedAt(q) /\ JoinSwappedAt(q)
      BY JoinAt, FitsAt, Sorts
    <3>2. CASE q # p
      <4>1. Same(q)
        BY <3>1, <3>2, JoinRemarkEffect DEF Others
      <4> QED BY <2>2, <3>1, <4>1, <3>2, <1>1, JoinRemarkEffect, JoinRemarkView, <1>2, <1>3, Sorts, KeySorts, FinStays DEF JoinOwes, JoinDue, JoinSwappedAt, JoinMarkedAt, FinAt, Finished, EntryAt, UnopenedAt, FinSame, Same, ViewSame, JoinMarkPut, MarksSame, OwnerSame
    <3>3. CASE q = p
      BY <2>2, <3>1, <3>3, <1>1, JoinRemarkEffect, JoinRemarkView, <1>2, <1>3, Sorts, KeySorts, FinStays DEF JoinOwes, JoinDue, JoinSwappedAt, JoinMarkedAt, FinAt, Finished, EntryAt, UnopenedAt, FinSame, Same, ViewSame, JoinMarkPut, MarksSame, OwnerSame
    <3> QED BY <3>2, <3>3
  <2> QED BY <2>1, <2>2, JoinOwedKept DEF Owned
<1>9. OneBusy'
  BY <1>4, OneBusyKept DEF Owned
<1>10. PendingFit'
  BY <1>1, JoinRemarkEffect, JoinRemarkView, <1>2, <1>3, Sorts, KeySorts, FinStays DEF Owned, Fits, PendingFit, Running, RequestsFit, RequestAt, MarksFit, Nothing, FinSame, Same, ViewSame, JoinMarkPut, MarksSame, OwnerSame, Others
<1>11. UnadoptInGit'
  <2>1. ASSUME NEW q \in UnadoptPR, q # p PROVE UnadoptInGitAt(q)'
    <3>1. Same(q) /\ q \in PR /\ UnadoptInGitAt(q) /\ RequestAt(q) /\ FinAt(q) /\ EntryAt(q) /\ UnopenedAt(q)
      BY <2>1, JoinRemarkEffect, UnadoptAt, FitsAt, Sorts DEF Others
    <3> QED BY <2>1, <3>1, <1>1, JoinRemarkEffect, JoinRemarkView, <1>2, <1>3, Sorts, KeySorts, FinStays DEF UnadoptInGitAt, Busy, Running, RequestAt, BeforeOpen, FinAt, Finished, FinSame, Same
  <2> QED BY <2>1, JoinRemarkEffect, Sorts DEF UnadoptInGit
<1>12. UnadoptKnown'
  BY <1>1, JoinRemarkEffect, JoinRemarkView, <1>2, <1>3, Sorts, KeySorts, FinStays DEF Owned, Fits, UnadoptKnown, Busy, Running, PendingFit, RequestAt, BeforeOpen, FinAt, Finished, FinSame, Same, ViewSame, JoinMarkPut, MarksSame, OwnerSame, Others
<1>13. UnadoptMarked'
  <2>1. ASSUME NEW q \in UnadoptPR, q # p PROVE UnadoptMarkedAt(q)'
    <3>1. Same(q) /\ q \in PR /\ UnadoptMarkedAt(q) /\ RequestAt(q) /\ FinAt(q) /\ EntryAt(q) /\ UnopenedAt(q)
      BY <2>1, JoinRemarkEffect, UnadoptAt, FitsAt, Sorts DEF Others
    <3> QED BY <2>1, <3>1, <1>1, JoinRemarkEffect, JoinRemarkView, <1>2, <1>3, Sorts, KeySorts, FinStays DEF UnadoptMarkedAt, UnadoptKnown, KeptFor, Busy, Running, RequestAt, BeforeOpen, FinAt, Finished, FinSame, Same, ViewSame, JoinMarkPut, MarksSame, OwnerSame
  <2> QED BY <2>1, JoinRemarkEffect, Sorts DEF UnadoptMarked
<1>14. UnadoptStripped'
  <2>1. ASSUME NEW q \in UnadoptPR, q # p PROVE UnadoptStrippedAt(q)'
    <3>1. Same(q) /\ q \in PR /\ UnadoptStrippedAt(q) /\ RequestAt(q) /\ FinAt(q) /\ EntryAt(q) /\ UnopenedAt(q)
      BY <2>1, JoinRemarkEffect, UnadoptAt, FitsAt, Sorts DEF Others
    <3> QED BY <2>1, <3>1, <1>1, JoinRemarkEffect, JoinRemarkView, <1>2, <1>3, Sorts, KeySorts, FinStays DEF UnadoptStrippedAt, JoinInGitAt, JoinBusy, Busy, RequestAt, BeforeOpen, FinAt, Finished, EntryAt, FinSame, Same, ViewSame, JoinMarkPut, MarksSame, OwnerSame
  <2> QED BY <2>1, JoinRemarkEffect, Sorts DEF UnadoptStripped
<1>15. UnadoptOwed'
  <2>1. ~inGit' /\ Ours' => ~inGit /\ Ours
    BY <1>1, JoinRemarkEffect, JoinRemarkView, <1>2, <1>3 DEF UnadoptOwes, UnadoptDue, KeptFor, UnadoptStrippedAt, UnadoptMarkedAt, Busy, Running, RequestAt, BeforeOpen, FinAt, Finished, EntryAt, FinSame, Same, ViewSame, JoinMarkPut, MarksSame, OwnerSame
  <2>2. ASSUME NEW q \in UnadoptPR, ~inGit' /\ Ours', UnadoptOwes(q) PROVE UnadoptOwes(q)'
    <3>1. q \in PR /\ RequestAt(q) /\ FinAt(q) /\ EntryAt(q) /\ UnadoptInGitAt(q) /\ UnadoptMarkedAt(q) /\ UnadoptStrippedAt(q)
      BY UnadoptAt, FitsAt, Sorts
    <3>2. CASE q # p
      <4>1. Same(q)
        BY <3>1, <3>2, JoinRemarkEffect DEF Others
      <4> QED BY <2>2, <3>1, <4>1, <3>2, <1>1, JoinRemarkEffect, JoinRemarkView, <1>2, <1>3, Sorts, KeySorts, FinStays, <1>4 DEF UnadoptOwes, UnadoptDue, KeptFor, UnadoptStrippedAt, UnadoptMarkedAt, Busy, Running, RequestAt, BeforeOpen, FinAt, Finished, EntryAt, FinSame, Same, ViewSame, JoinMarkPut, MarksSame, OwnerSame
    <3> QED BY <3>2, JoinRemarkEffect, Sorts
  <2> QED BY <2>1, <2>2, UnadoptOwedKept DEF Owned
<1>16. PassInGit'
  BY <1>1, JoinRemarkEffect, JoinRemarkView, <1>2, <1>3, PassInGitFrame DEF Owned
<1> QED BY <1>5, <1>6, <1>7, <1>8, <1>9, <1>10, <1>11, <1>12, <1>13, <1>14, <1>15, <1>16 DEF Owned

LEMMA JoinOpenOwned ==
    ASSUME Fits, Fits', Owned, Exists, Exists', ~crossed', MaxFailures <= 1, NEW p \in PR, JoinOpen(p)
    PROVE  Owned'
<1>1. (Failure => ~Spent /\ Spent') /\ (NoFailure => (Spent' <=> Spent))
  BY SpentStep
<1>2. ViewSame
  BY JoinOpenEffect, ViewFrame
<1>3. p \in PR /\ RequestAt(p) /\ FinAt(p) /\ EntryAt(p) /\ UnopenedAt(p)
  BY JoinOpenEffect, Sorts, FitsAt
<1>4. JoinInGitAt(p) /\ JoinMarkedAt(p) /\ JoinSwappedAt(p)
  BY JoinOpenEffect, JoinAt
<1>5. \A v \in UnadoptPR : Busy(v)' => Busy(v)
  <2>1. ASSUME NEW v \in UnadoptPR, v # p PROVE Busy(v)' => Busy(v)
    <3>1. v \in PR /\ Same(v)
      BY <2>1, JoinOpenEffect, Sorts DEF Others
    <3> QED BY <2>1, <3>1, <1>1, JoinOpenEffect, <1>2, <1>3, <1>4, Sorts, KeySorts DEF Busy, Running, FinSame, Same, ViewSame, MarksSame, OwnerSame, Same, FinSame
  <2>2. p \in UnadoptPR => (Busy(p)' => Busy(p))
    BY <1>1, JoinOpenEffect, <1>2, <1>3, <1>4, Sorts, KeySorts, FinStays DEF Busy, Running, FinSame, Same, ViewSame, MarksSame, OwnerSame
  <2> QED BY <2>1, <2>2, Sorts, JoinOpenEffect
<1>6. JoinInGit'
  <2>1. ASSUME NEW q \in Join, q # p PROVE JoinInGitAt(q)'
    <3>1. Same(q) /\ q \in PR /\ JoinInGitAt(q) /\ RequestAt(q) /\ FinAt(q) /\ EntryAt(q) /\ UnopenedAt(q)
      BY <2>1, JoinOpenEffect, JoinAt, FitsAt, Sorts DEF Others
    <3>2. req[q] = "remark" /\ git'[found[q]] = "merged" => git[found[q]] = "merged"
      <4>1. req[q] = "remark" => found[q] \in Join /\ found[q] \in PR
        BY <3>1, <2>1, Sorts DEF RequestAt
      <4>2. req[q] = "remark" /\ found[q] # p => git'[found[q]] = git[found[q]]
        BY <4>1, <1>1, JoinOpenEffect, <1>2, <1>3, <1>4 DEF Others, Same
      <4> QED BY <4>1, <4>2, <1>1, JoinOpenEffect, <1>2, <1>3, <1>4, Sorts
    <3>3. JoinBusy(q)' => JoinBusy(q)
      BY <2>1, <3>1, <1>1, JoinOpenEffect, <1>2, <1>3, <1>4, Sorts DEF JoinBusy, Running, Same, ViewSame, MarksSame
    <3> QED BY <2>1, <3>1, <3>2, <3>3, <1>1, JoinOpenEffect, <1>2, <1>3, <1>4 DEF JoinInGitAt, Same
  <2>2. p \in Join => JoinInGitAt(p)'
    BY <1>1, JoinOpenEffect, <1>2, <1>3, <1>4, Sorts, KeySorts, FinStays, UnadoptAt, JoinAt DEF JoinInGitAt, JoinBusy, Running, FinAt, Finished, FinSame, Same, ViewSame, MarksSame, OwnerSame
  <2> QED BY <2>1, <2>2 DEF JoinInGit
<1>7. JoinMarked'
  <2>1. ASSUME NEW q \in Join, q # p PROVE JoinMarkedAt(q)'
    <3>1. Same(q) /\ q \in PR /\ JoinMarkedAt(q) /\ RequestAt(q) /\ FinAt(q) /\ EntryAt(q) /\ UnopenedAt(q)
      BY <2>1, JoinOpenEffect, JoinAt, FitsAt, Sorts DEF Others
    <3> QED BY <2>1, <3>1, <1>1, JoinOpenEffect, <1>2, <1>3, <1>4, Sorts, KeySorts, FinStays DEF JoinMarkedAt, RequestAt, BeforeOpen, UnopenedAt, FinSame, Same, ViewSame, MarksSame, OwnerSame
  <2>2. p \in Join => JoinMarkedAt(p)'
    BY <1>1, JoinOpenEffect, <1>2, <1>3, <1>4, Sorts, KeySorts, FinStays, UnadoptAt, JoinAt DEF JoinMarkedAt, RequestAt, BeforeOpen, UnopenedAt, FinSame, Same, ViewSame, MarksSame, OwnerSame
  <2> QED BY <2>1, <2>2 DEF JoinMarked
<1>8. JoinSwapped'
  <2>1. ASSUME NEW q \in Join, q # p PROVE JoinSwappedAt(q)'
    <3>1. Same(q) /\ q \in PR /\ JoinSwappedAt(q) /\ RequestAt(q) /\ FinAt(q) /\ EntryAt(q) /\ UnopenedAt(q)
      BY <2>1, JoinOpenEffect, JoinAt, FitsAt, Sorts DEF Others
    <3> QED BY <2>1, <3>1, <1>1, JoinOpenEffect, <1>2, <1>3, <1>4, Sorts, KeySorts, FinStays DEF JoinSwappedAt, JoinInGitAt, JoinBusy, FinAt, Finished, FinSame, Same, ViewSame, MarksSame, OwnerSame
  <2>2. p \in Join => JoinSwappedAt(p)'
    BY <1>1, JoinOpenEffect, <1>2, <1>3, <1>4, Sorts, KeySorts, FinStays, UnadoptAt, JoinAt DEF JoinSwappedAt, JoinInGitAt, JoinBusy, FinAt, Finished, FinSame, Same, ViewSame, MarksSame, OwnerSame
  <2> QED BY <2>1, <2>2 DEF JoinSwapped
<1>9. JoinOwed'
  <2>1. inGit' /\ ~Ours' => inGit /\ ~Ours
    BY <1>1, JoinOpenEffect, <1>2, <1>3, <1>4 DEF JoinOwes, JoinDue, JoinSwappedAt, JoinMarkedAt, FinAt, Finished, EntryAt, UnopenedAt, FinSame, Same, ViewSame, MarksSame, OwnerSame
  <2>2. ASSUME NEW q \in Join, inGit' /\ ~Ours', JoinOwes(q) PROVE JoinOwes(q)'
    <3>1. q \in PR /\ RequestAt(q) /\ FinAt(q) /\ EntryAt(q) /\ JoinInGitAt(q) /\ JoinMarkedAt(q) /\ JoinSwappedAt(q)
      BY JoinAt, FitsAt, Sorts
    <3>2. CASE q # p
      <4>1. Same(q)
        BY <3>1, <3>2, JoinOpenEffect DEF Others
      <4> QED BY <2>2, <3>1, <4>1, <3>2, <1>1, JoinOpenEffect, <1>2, <1>3, <1>4, Sorts, KeySorts, FinStays DEF JoinOwes, JoinDue, JoinSwappedAt, JoinMarkedAt, FinAt, Finished, EntryAt, UnopenedAt, FinSame, Same, ViewSame, MarksSame, OwnerSame
    <3>3. CASE q = p
      BY <2>2, <3>1, <3>3, <1>1, JoinOpenEffect, <1>2, <1>3, <1>4, Sorts, KeySorts, FinStays DEF JoinOwes, JoinDue, JoinSwappedAt, JoinMarkedAt, FinAt, Finished, EntryAt, UnopenedAt, FinSame, Same, ViewSame, MarksSame, OwnerSame
    <3> QED BY <3>2, <3>3
  <2> QED BY <2>1, <2>2, JoinOwedKept DEF Owned
<1>10. OneBusy'
  BY <1>5, OneBusyKept DEF Owned
<1>11. PendingFit'
  BY <1>1, JoinOpenEffect, <1>2, <1>3, <1>4, Sorts, KeySorts, FinStays DEF Owned, Fits, PendingFit, Running, RequestsFit, RequestAt, MarksFit, Nothing, FinSame, Same, ViewSame, MarksSame, OwnerSame, Others
<1>12. UnadoptInGit'
  <2>1. ASSUME NEW q \in UnadoptPR, q # p PROVE UnadoptInGitAt(q)'
    <3>1. Same(q) /\ q \in PR /\ UnadoptInGitAt(q) /\ RequestAt(q) /\ FinAt(q) /\ EntryAt(q) /\ UnopenedAt(q)
      BY <2>1, JoinOpenEffect, UnadoptAt, FitsAt, Sorts DEF Others
    <3> QED BY <2>1, <3>1, <1>1, JoinOpenEffect, <1>2, <1>3, <1>4, Sorts, KeySorts, FinStays DEF UnadoptInGitAt, Busy, Running, RequestAt, BeforeOpen, FinAt, Finished, FinSame, Same
  <2> QED BY <2>1, JoinOpenEffect, Sorts DEF UnadoptInGit
<1>13. UnadoptKnown'
  BY <1>1, JoinOpenEffect, <1>2, <1>3, <1>4, Sorts, KeySorts, FinStays DEF Owned, Fits, UnadoptKnown, Busy, Running, PendingFit, RequestAt, BeforeOpen, FinAt, Finished, FinSame, Same, ViewSame, MarksSame, OwnerSame, Others
<1>14. UnadoptMarked'
  <2>1. ASSUME NEW q \in UnadoptPR, q # p PROVE UnadoptMarkedAt(q)'
    <3>1. Same(q) /\ q \in PR /\ UnadoptMarkedAt(q) /\ RequestAt(q) /\ FinAt(q) /\ EntryAt(q) /\ UnopenedAt(q)
      BY <2>1, JoinOpenEffect, UnadoptAt, FitsAt, Sorts DEF Others
    <3> QED BY <2>1, <3>1, <1>1, JoinOpenEffect, <1>2, <1>3, <1>4, Sorts, KeySorts, FinStays DEF UnadoptMarkedAt, UnadoptKnown, KeptFor, Busy, Running, RequestAt, BeforeOpen, FinAt, Finished, FinSame, Same, ViewSame, MarksSame, OwnerSame
  <2> QED BY <2>1, JoinOpenEffect, Sorts DEF UnadoptMarked
<1>15. UnadoptStripped'
  <2>1. ASSUME NEW q \in UnadoptPR, q # p PROVE UnadoptStrippedAt(q)'
    <3>1. Same(q) /\ q \in PR /\ UnadoptStrippedAt(q) /\ RequestAt(q) /\ FinAt(q) /\ EntryAt(q) /\ UnopenedAt(q)
      BY <2>1, JoinOpenEffect, UnadoptAt, FitsAt, Sorts DEF Others
    <3> QED BY <2>1, <3>1, <1>1, JoinOpenEffect, <1>2, <1>3, <1>4, Sorts, KeySorts, FinStays DEF UnadoptStrippedAt, JoinInGitAt, JoinBusy, Busy, RequestAt, BeforeOpen, FinAt, Finished, EntryAt, FinSame, Same, ViewSame, MarksSame, OwnerSame
  <2> QED BY <2>1, JoinOpenEffect, Sorts DEF UnadoptStripped
<1>16. UnadoptOwed'
  <2>1. ~inGit' /\ Ours' => ~inGit /\ Ours
    BY <1>1, JoinOpenEffect, <1>2, <1>3, <1>4 DEF UnadoptOwes, UnadoptDue, KeptFor, UnadoptStrippedAt, UnadoptMarkedAt, Busy, Running, RequestAt, BeforeOpen, FinAt, Finished, EntryAt, FinSame, Same, ViewSame, MarksSame, OwnerSame
  <2>2. ASSUME NEW q \in UnadoptPR, ~inGit' /\ Ours', UnadoptOwes(q) PROVE UnadoptOwes(q)'
    <3>1. q \in PR /\ RequestAt(q) /\ FinAt(q) /\ EntryAt(q) /\ UnadoptInGitAt(q) /\ UnadoptMarkedAt(q) /\ UnadoptStrippedAt(q)
      BY UnadoptAt, FitsAt, Sorts
    <3>2. CASE q # p
      <4>1. Same(q)
        BY <3>1, <3>2, JoinOpenEffect DEF Others
      <4> QED BY <2>2, <3>1, <4>1, <3>2, <1>1, JoinOpenEffect, <1>2, <1>3, <1>4, Sorts, KeySorts, FinStays, <1>5 DEF UnadoptOwes, UnadoptDue, KeptFor, UnadoptStrippedAt, UnadoptMarkedAt, Busy, Running, RequestAt, BeforeOpen, FinAt, Finished, EntryAt, FinSame, Same, ViewSame, MarksSame, OwnerSame
    <3> QED BY <3>2, JoinOpenEffect, Sorts
  <2> QED BY <2>1, <2>2, UnadoptOwedKept DEF Owned
<1>17. PassInGit'
  BY <1>1, JoinOpenEffect, <1>2, <1>3, <1>4, PassInGitFrame DEF Owned
<1> QED BY <1>6, <1>7, <1>8, <1>9, <1>10, <1>11, <1>12, <1>13, <1>14, <1>15, <1>16, <1>17 DEF Owned

LEMMA JoinMarkOwned ==
    ASSUME Fits, Fits', Owned, Exists, Exists', ~crossed', MaxFailures <= 1, NEW p \in PR, JoinMark(p)
    PROVE  Owned'
<1>1. (Failure => ~Spent /\ Spent') /\ (NoFailure => (Spent' <=> Spent))
  BY SpentStep
<1>2. p \in PR /\ RequestAt(p) /\ FinAt(p) /\ EntryAt(p) /\ UnopenedAt(p)
  BY JoinMarkEffect, Sorts, FitsAt
<1>3. JoinInGitAt(p) /\ JoinMarkedAt(p) /\ JoinSwappedAt(p)
  BY JoinMarkEffect, JoinAt
<1>4. \A v \in UnadoptPR : Busy(v)' => Busy(v)
  <2>1. ASSUME NEW v \in UnadoptPR, v # p PROVE Busy(v)' => Busy(v)
    <3>1. v \in PR /\ Same(v)
      BY <2>1, JoinMarkEffect, Sorts DEF Others
    <3> QED BY <2>1, <3>1, <1>1, JoinMarkEffect, JoinMarkView, <1>2, <1>3, Sorts, KeySorts DEF Busy, Running, FinSame, Same, ViewSame, JoinMarkPut, MarksSame, OwnerSame, Same, FinSame
  <2>2. p \in UnadoptPR => (Busy(p)' => Busy(p))
    BY <1>1, JoinMarkEffect, JoinMarkView, <1>2, <1>3, Sorts, KeySorts, FinStays DEF Busy, Running, FinSame, Same, ViewSame, JoinMarkPut, MarksSame, OwnerSame
  <2> QED BY <2>1, <2>2, Sorts, JoinMarkEffect
<1>5. JoinInGit'
  <2>1. ASSUME NEW q \in Join, q # p PROVE JoinInGitAt(q)'
    <3>1. Same(q) /\ q \in PR /\ JoinInGitAt(q) /\ RequestAt(q) /\ FinAt(q) /\ EntryAt(q) /\ UnopenedAt(q)
      BY <2>1, JoinMarkEffect, JoinAt, FitsAt, Sorts DEF Others
    <3> QED BY <2>1, <3>1, <1>1, JoinMarkEffect, JoinMarkView, <1>2, <1>3, Sorts, KeySorts, FinStays DEF JoinInGitAt, JoinBusy, Running, FinAt, Finished, FinSame, Same, ViewSame, JoinMarkPut, MarksSame, OwnerSame
  <2>2. p \in Join => JoinInGitAt(p)'
    BY <1>1, JoinMarkEffect, JoinMarkView, <1>2, <1>3, Sorts, KeySorts, FinStays, UnadoptAt, JoinAt DEF JoinInGitAt, JoinBusy, Running, FinAt, Finished, FinSame, Same, ViewSame, JoinMarkPut, MarksSame, OwnerSame
  <2> QED BY <2>1, <2>2 DEF JoinInGit
<1>6. JoinMarked'
  <2>1. ASSUME NEW q \in Join, q # p PROVE JoinMarkedAt(q)'
    <3>1. Same(q) /\ q \in PR /\ JoinMarkedAt(q) /\ RequestAt(q) /\ FinAt(q) /\ EntryAt(q) /\ UnopenedAt(q)
      BY <2>1, JoinMarkEffect, JoinAt, FitsAt, Sorts DEF Others
    <3> QED BY <2>1, <3>1, <1>1, JoinMarkEffect, JoinMarkView, <1>2, <1>3, Sorts, KeySorts, FinStays DEF JoinMarkedAt, RequestAt, BeforeOpen, UnopenedAt, FinSame, Same, ViewSame, JoinMarkPut, MarksSame, OwnerSame
  <2>2. p \in Join => JoinMarkedAt(p)'
    BY <1>1, JoinMarkEffect, JoinMarkView, <1>2, <1>3, Sorts, KeySorts, FinStays, UnadoptAt, JoinAt DEF JoinMarkedAt, RequestAt, BeforeOpen, UnopenedAt, FinSame, Same, ViewSame, JoinMarkPut, MarksSame, OwnerSame
  <2> QED BY <2>1, <2>2 DEF JoinMarked
<1>7. JoinSwapped'
  <2>1. ASSUME NEW q \in Join, q # p PROVE JoinSwappedAt(q)'
    <3>1. Same(q) /\ q \in PR /\ JoinSwappedAt(q) /\ RequestAt(q) /\ FinAt(q) /\ EntryAt(q) /\ UnopenedAt(q)
      BY <2>1, JoinMarkEffect, JoinAt, FitsAt, Sorts DEF Others
    <3> QED BY <2>1, <3>1, <1>1, JoinMarkEffect, JoinMarkView, <1>2, <1>3, Sorts, KeySorts, FinStays DEF JoinSwappedAt, JoinInGitAt, JoinBusy, FinAt, Finished, FinSame, Same, ViewSame, JoinMarkPut, MarksSame, OwnerSame
  <2>2. p \in Join => JoinSwappedAt(p)'
    BY <1>1, JoinMarkEffect, JoinMarkView, <1>2, <1>3, Sorts, KeySorts, FinStays, UnadoptAt, JoinAt DEF JoinSwappedAt, JoinInGitAt, JoinBusy, FinAt, Finished, FinSame, Same, ViewSame, JoinMarkPut, MarksSame, OwnerSame
  <2> QED BY <2>1, <2>2 DEF JoinSwapped
<1>8. JoinOwed'
  <2>1. inGit' /\ ~Ours' => inGit /\ ~Ours
    BY <1>1, JoinMarkEffect, JoinMarkView, <1>2, <1>3 DEF JoinOwes, JoinDue, JoinSwappedAt, JoinMarkedAt, FinAt, Finished, EntryAt, UnopenedAt, FinSame, Same, ViewSame, JoinMarkPut, MarksSame, OwnerSame
  <2>2. ASSUME NEW q \in Join, inGit' /\ ~Ours', JoinOwes(q) PROVE JoinOwes(q)'
    <3>1. q \in PR /\ RequestAt(q) /\ FinAt(q) /\ EntryAt(q) /\ JoinInGitAt(q) /\ JoinMarkedAt(q) /\ JoinSwappedAt(q)
      BY JoinAt, FitsAt, Sorts
    <3>2. CASE q # p
      <4>1. Same(q)
        BY <3>1, <3>2, JoinMarkEffect DEF Others
      <4> QED BY <2>2, <3>1, <4>1, <3>2, <1>1, JoinMarkEffect, JoinMarkView, <1>2, <1>3, Sorts, KeySorts, FinStays DEF JoinOwes, JoinDue, JoinSwappedAt, JoinMarkedAt, FinAt, Finished, EntryAt, UnopenedAt, FinSame, Same, ViewSame, JoinMarkPut, MarksSame, OwnerSame
    <3>3. CASE q = p
      BY <2>2, <3>1, <3>3, <1>1, JoinMarkEffect, JoinMarkView, <1>2, <1>3, Sorts, KeySorts, FinStays DEF JoinOwes, JoinDue, JoinSwappedAt, JoinMarkedAt, FinAt, Finished, EntryAt, UnopenedAt, FinSame, Same, ViewSame, JoinMarkPut, MarksSame, OwnerSame
    <3> QED BY <3>2, <3>3
  <2> QED BY <2>1, <2>2, JoinOwedKept DEF Owned
<1>9. OneBusy'
  BY <1>4, OneBusyKept DEF Owned
<1>10. PendingFit'
  BY <1>1, JoinMarkEffect, JoinMarkView, <1>2, <1>3, Sorts, KeySorts, FinStays DEF Owned, Fits, PendingFit, Running, RequestsFit, RequestAt, MarksFit, Nothing, FinSame, Same, ViewSame, JoinMarkPut, MarksSame, OwnerSame, Others
<1>11. UnadoptInGit'
  <2>1. ASSUME NEW q \in UnadoptPR, q # p PROVE UnadoptInGitAt(q)'
    <3>1. Same(q) /\ q \in PR /\ UnadoptInGitAt(q) /\ RequestAt(q) /\ FinAt(q) /\ EntryAt(q) /\ UnopenedAt(q)
      BY <2>1, JoinMarkEffect, UnadoptAt, FitsAt, Sorts DEF Others
    <3> QED BY <2>1, <3>1, <1>1, JoinMarkEffect, JoinMarkView, <1>2, <1>3, Sorts, KeySorts, FinStays DEF UnadoptInGitAt, Busy, Running, RequestAt, BeforeOpen, FinAt, Finished, FinSame, Same
  <2> QED BY <2>1, JoinMarkEffect, Sorts DEF UnadoptInGit
<1>12. UnadoptKnown'
  BY <1>1, JoinMarkEffect, JoinMarkView, <1>2, <1>3, Sorts, KeySorts, FinStays DEF Owned, Fits, UnadoptKnown, Busy, Running, PendingFit, RequestAt, BeforeOpen, FinAt, Finished, FinSame, Same, ViewSame, JoinMarkPut, MarksSame, OwnerSame, Others
<1>13. UnadoptMarked'
  <2>1. ASSUME NEW q \in UnadoptPR, q # p PROVE UnadoptMarkedAt(q)'
    <3>1. Same(q) /\ q \in PR /\ UnadoptMarkedAt(q) /\ RequestAt(q) /\ FinAt(q) /\ EntryAt(q) /\ UnopenedAt(q)
      BY <2>1, JoinMarkEffect, UnadoptAt, FitsAt, Sorts DEF Others
    <3> QED BY <2>1, <3>1, <1>1, JoinMarkEffect, JoinMarkView, <1>2, <1>3, Sorts, KeySorts, FinStays DEF UnadoptMarkedAt, UnadoptKnown, KeptFor, Busy, Running, RequestAt, BeforeOpen, FinAt, Finished, FinSame, Same, ViewSame, JoinMarkPut, MarksSame, OwnerSame
  <2> QED BY <2>1, JoinMarkEffect, Sorts DEF UnadoptMarked
<1>14. UnadoptStripped'
  <2>1. ASSUME NEW q \in UnadoptPR, q # p PROVE UnadoptStrippedAt(q)'
    <3>1. Same(q) /\ q \in PR /\ UnadoptStrippedAt(q) /\ RequestAt(q) /\ FinAt(q) /\ EntryAt(q) /\ UnopenedAt(q)
      BY <2>1, JoinMarkEffect, UnadoptAt, FitsAt, Sorts DEF Others
    <3> QED BY <2>1, <3>1, <1>1, JoinMarkEffect, JoinMarkView, <1>2, <1>3, Sorts, KeySorts, FinStays DEF UnadoptStrippedAt, JoinInGitAt, JoinBusy, Busy, RequestAt, BeforeOpen, FinAt, Finished, EntryAt, FinSame, Same, ViewSame, JoinMarkPut, MarksSame, OwnerSame
  <2> QED BY <2>1, JoinMarkEffect, Sorts DEF UnadoptStripped
<1>15. UnadoptOwed'
  <2>1. ~inGit' /\ Ours' => ~inGit /\ Ours
    BY <1>1, JoinMarkEffect, JoinMarkView, <1>2, <1>3 DEF UnadoptOwes, UnadoptDue, KeptFor, UnadoptStrippedAt, UnadoptMarkedAt, Busy, Running, RequestAt, BeforeOpen, FinAt, Finished, EntryAt, FinSame, Same, ViewSame, JoinMarkPut, MarksSame, OwnerSame
  <2>2. ASSUME NEW q \in UnadoptPR, ~inGit' /\ Ours', UnadoptOwes(q) PROVE UnadoptOwes(q)'
    <3>1. q \in PR /\ RequestAt(q) /\ FinAt(q) /\ EntryAt(q) /\ UnadoptInGitAt(q) /\ UnadoptMarkedAt(q) /\ UnadoptStrippedAt(q)
      BY UnadoptAt, FitsAt, Sorts
    <3>2. CASE q # p
      <4>1. Same(q)
        BY <3>1, <3>2, JoinMarkEffect DEF Others
      <4> QED BY <2>2, <3>1, <4>1, <3>2, <1>1, JoinMarkEffect, JoinMarkView, <1>2, <1>3, Sorts, KeySorts, FinStays, <1>4 DEF UnadoptOwes, UnadoptDue, KeptFor, UnadoptStrippedAt, UnadoptMarkedAt, Busy, Running, RequestAt, BeforeOpen, FinAt, Finished, EntryAt, FinSame, Same, ViewSame, JoinMarkPut, MarksSame, OwnerSame
    <3> QED BY <3>2, JoinMarkEffect, Sorts
  <2> QED BY <2>1, <2>2, UnadoptOwedKept DEF Owned
<1>16. PassInGit'
  BY <1>1, JoinMarkEffect, JoinMarkView, <1>2, <1>3, PassInGitFrame DEF Owned
<1> QED BY <1>5, <1>6, <1>7, <1>8, <1>9, <1>10, <1>11, <1>12, <1>13, <1>14, <1>15, <1>16 DEF Owned

LEMMA JoinTrackOwned ==
    ASSUME Fits, Fits', Owned, Exists, Exists', ~crossed', MaxFailures <= 1, NEW p \in PR, JoinTrack(p)
    PROVE  Owned'
<1>1. (Failure => ~Spent /\ Spent') /\ (NoFailure => (Spent' <=> Spent))
  BY SpentStep
<1>2. ViewSame
  BY JoinTrackEffect, ViewFrame
<1>3. p \in PR /\ RequestAt(p) /\ FinAt(p) /\ EntryAt(p) /\ UnopenedAt(p)
  BY JoinTrackEffect, Sorts, FitsAt
<1>4. JoinInGitAt(p) /\ JoinMarkedAt(p) /\ JoinSwappedAt(p)
  BY JoinTrackEffect, JoinAt
<1>5. \A v \in UnadoptPR : Busy(v)' => Busy(v)
  <2>1. ASSUME NEW v \in UnadoptPR, v # p PROVE Busy(v)' => Busy(v)
    <3>1. v \in PR /\ Same(v)
      BY <2>1, JoinTrackEffect, Sorts DEF Others
    <3> QED BY <2>1, <3>1, <1>1, JoinTrackEffect, <1>2, <1>3, <1>4, Sorts, KeySorts DEF Busy, Running, Recorded, FinSame, Same, ViewSame, MarksSame, OwnerSame, Same, FinSame
  <2>2. p \in UnadoptPR => (Busy(p)' => Busy(p))
    BY <1>1, JoinTrackEffect, <1>2, <1>3, <1>4, Sorts, KeySorts, FinStays DEF Busy, Running, Recorded, FinSame, Same, ViewSame, MarksSame, OwnerSame
  <2> QED BY <2>1, <2>2, Sorts, JoinTrackEffect
<1>6. JoinInGit'
  <2>1. ASSUME NEW q \in Join, q # p PROVE JoinInGitAt(q)'
    <3>1. Same(q) /\ q \in PR /\ JoinInGitAt(q) /\ RequestAt(q) /\ FinAt(q) /\ EntryAt(q) /\ UnopenedAt(q)
      BY <2>1, JoinTrackEffect, JoinAt, FitsAt, Sorts DEF Others
    <3> QED BY <2>1, <3>1, <1>1, JoinTrackEffect, <1>2, <1>3, <1>4, Sorts, KeySorts, FinStays DEF JoinInGitAt, JoinBusy, Running, FinAt, Finished, Recorded, FinSame, Same, ViewSame, MarksSame, OwnerSame
  <2>2. p \in Join => JoinInGitAt(p)'
    BY <1>1, JoinTrackEffect, <1>2, <1>3, <1>4, Sorts, KeySorts, FinStays, UnadoptAt, JoinAt DEF JoinInGitAt, JoinBusy, Running, FinAt, Finished, Recorded, FinSame, Same, ViewSame, MarksSame, OwnerSame
  <2> QED BY <2>1, <2>2 DEF JoinInGit
<1>7. JoinMarked'
  <2>1. ASSUME NEW q \in Join, q # p PROVE JoinMarkedAt(q)'
    <3>1. Same(q) /\ q \in PR /\ JoinMarkedAt(q) /\ RequestAt(q) /\ FinAt(q) /\ EntryAt(q) /\ UnopenedAt(q)
      BY <2>1, JoinTrackEffect, JoinAt, FitsAt, Sorts DEF Others
    <3> QED BY <2>1, <3>1, <1>1, JoinTrackEffect, <1>2, <1>3, <1>4, Sorts, KeySorts, FinStays DEF JoinMarkedAt, RequestAt, BeforeOpen, UnopenedAt, Recorded, FinSame, Same, ViewSame, MarksSame, OwnerSame
  <2>2. p \in Join => JoinMarkedAt(p)'
    BY <1>1, JoinTrackEffect, <1>2, <1>3, <1>4, Sorts, KeySorts, FinStays, UnadoptAt, JoinAt DEF JoinMarkedAt, RequestAt, BeforeOpen, UnopenedAt, Recorded, FinSame, Same, ViewSame, MarksSame, OwnerSame
  <2> QED BY <2>1, <2>2 DEF JoinMarked
<1>8. JoinSwapped'
  <2>1. ASSUME NEW q \in Join, q # p PROVE JoinSwappedAt(q)'
    <3>1. Same(q) /\ q \in PR /\ JoinSwappedAt(q) /\ RequestAt(q) /\ FinAt(q) /\ EntryAt(q) /\ UnopenedAt(q)
      BY <2>1, JoinTrackEffect, JoinAt, FitsAt, Sorts DEF Others
    <3> QED BY <2>1, <3>1, <1>1, JoinTrackEffect, <1>2, <1>3, <1>4, Sorts, KeySorts, FinStays DEF JoinSwappedAt, JoinInGitAt, JoinBusy, FinAt, Finished, FinSame, Same, ViewSame, MarksSame, OwnerSame
  <2>2. p \in Join => JoinSwappedAt(p)'
    BY <1>1, JoinTrackEffect, <1>2, <1>3, <1>4, Sorts, KeySorts, FinStays, UnadoptAt, JoinAt DEF JoinSwappedAt, JoinInGitAt, JoinBusy, FinAt, Finished, FinSame, Same, ViewSame, MarksSame, OwnerSame
  <2> QED BY <2>1, <2>2 DEF JoinSwapped
<1>9. JoinOwed'
  <2>1. inGit' /\ ~Ours' => inGit /\ ~Ours
    BY <1>1, JoinTrackEffect, <1>2, <1>3, <1>4 DEF JoinOwes, JoinDue, JoinSwappedAt, JoinMarkedAt, FinAt, Finished, EntryAt, UnopenedAt, Recorded, FinSame, Same, ViewSame, MarksSame, OwnerSame
  <2>2. ASSUME NEW q \in Join, inGit' /\ ~Ours', JoinOwes(q) PROVE JoinOwes(q)'
    <3>1. q \in PR /\ RequestAt(q) /\ FinAt(q) /\ EntryAt(q) /\ JoinInGitAt(q) /\ JoinMarkedAt(q) /\ JoinSwappedAt(q)
      BY JoinAt, FitsAt, Sorts
    <3>2. CASE q # p
      <4>1. Same(q)
        BY <3>1, <3>2, JoinTrackEffect DEF Others
      <4> QED BY <2>2, <3>1, <4>1, <3>2, <1>1, JoinTrackEffect, <1>2, <1>3, <1>4, Sorts, KeySorts, FinStays DEF JoinOwes, JoinDue, JoinSwappedAt, JoinMarkedAt, FinAt, Finished, EntryAt, UnopenedAt, Recorded, FinSame, Same, ViewSame, MarksSame, OwnerSame
    <3>3. CASE q = p
      BY <2>2, <3>1, <3>3, <1>1, JoinTrackEffect, <1>2, <1>3, <1>4, Sorts, KeySorts, FinStays DEF JoinOwes, JoinDue, JoinSwappedAt, JoinMarkedAt, FinAt, Finished, EntryAt, UnopenedAt, Recorded, FinSame, Same, ViewSame, MarksSame, OwnerSame
    <3> QED BY <3>2, <3>3
  <2> QED BY <2>1, <2>2, JoinOwedKept DEF Owned
<1>10. OneBusy'
  BY <1>5, OneBusyKept DEF Owned
<1>11. PendingFit'
  BY <1>1, JoinTrackEffect, <1>2, <1>3, <1>4, Sorts, KeySorts, FinStays DEF Owned, Fits, PendingFit, Running, RequestsFit, RequestAt, MarksFit, Nothing, FinSame, Same, ViewSame, MarksSame, OwnerSame, Others
<1>12. UnadoptInGit'
  <2>1. ASSUME NEW q \in UnadoptPR, q # p PROVE UnadoptInGitAt(q)'
    <3>1. Same(q) /\ q \in PR /\ UnadoptInGitAt(q) /\ RequestAt(q) /\ FinAt(q) /\ EntryAt(q) /\ UnopenedAt(q)
      BY <2>1, JoinTrackEffect, UnadoptAt, FitsAt, Sorts DEF Others
    <3> QED BY <2>1, <3>1, <1>1, JoinTrackEffect, <1>2, <1>3, <1>4, Sorts, KeySorts, FinStays DEF UnadoptInGitAt, Busy, Running, RequestAt, BeforeOpen, FinAt, Finished, FinSame, Same
  <2> QED BY <2>1, JoinTrackEffect, Sorts DEF UnadoptInGit
<1>13. UnadoptKnown'
  BY <1>1, JoinTrackEffect, <1>2, <1>3, <1>4, Sorts, KeySorts, FinStays DEF Owned, Fits, UnadoptKnown, Busy, Running, PendingFit, RequestAt, BeforeOpen, FinAt, Finished, FinSame, Same, ViewSame, MarksSame, OwnerSame, Others
<1>14. UnadoptMarked'
  <2>1. ASSUME NEW q \in UnadoptPR, q # p PROVE UnadoptMarkedAt(q)'
    <3>1. Same(q) /\ q \in PR /\ UnadoptMarkedAt(q) /\ RequestAt(q) /\ FinAt(q) /\ EntryAt(q) /\ UnopenedAt(q)
      BY <2>1, JoinTrackEffect, UnadoptAt, FitsAt, Sorts DEF Others
    <3> QED BY <2>1, <3>1, <1>1, JoinTrackEffect, <1>2, <1>3, <1>4, Sorts, KeySorts, FinStays DEF UnadoptMarkedAt, UnadoptKnown, KeptFor, Busy, Running, RequestAt, BeforeOpen, FinAt, Finished, FinSame, Same, ViewSame, MarksSame, OwnerSame
  <2> QED BY <2>1, JoinTrackEffect, Sorts DEF UnadoptMarked
<1>15. UnadoptOwed'
  <2>1. ~inGit' /\ Ours' => ~inGit /\ Ours
    BY <1>1, JoinTrackEffect, <1>2, <1>3, <1>4 DEF UnadoptOwes, UnadoptDue, KeptFor, UnadoptStrippedAt, UnadoptMarkedAt, Busy, Running, RequestAt, BeforeOpen, FinAt, Finished, EntryAt, Recorded, FinSame, Same, ViewSame, MarksSame, OwnerSame
  <2>2. ASSUME NEW q \in UnadoptPR, ~inGit' /\ Ours', UnadoptOwes(q) PROVE UnadoptOwes(q)'
    <3>1. q \in PR /\ RequestAt(q) /\ FinAt(q) /\ EntryAt(q) /\ UnadoptInGitAt(q) /\ UnadoptMarkedAt(q) /\ UnadoptStrippedAt(q)
      BY UnadoptAt, FitsAt, Sorts
    <3>2. CASE q # p
      <4>1. Same(q)
        BY <3>1, <3>2, JoinTrackEffect DEF Others
      <4> QED BY <2>2, <3>1, <4>1, <3>2, <1>1, JoinTrackEffect, <1>2, <1>3, <1>4, Sorts, KeySorts, FinStays, <1>5 DEF UnadoptOwes, UnadoptDue, KeptFor, UnadoptStrippedAt, UnadoptMarkedAt, Busy, Running, RequestAt, BeforeOpen, FinAt, Finished, EntryAt, Recorded, FinSame, Same, ViewSame, MarksSame, OwnerSame
    <3> QED BY <3>2, JoinTrackEffect, Sorts
  <2> QED BY <2>1, <2>2, UnadoptOwedKept DEF Owned
<1>16. PassInGit' /\ UnadoptStripped'
  BY <1>1, JoinTrackEffect, <1>2, <1>3, <1>4, PassInGitFrame, UnadoptStrippedFrame DEF Owned
<1> QED BY <1>6, <1>7, <1>8, <1>9, <1>10, <1>11, <1>12, <1>13, <1>14, <1>15, <1>16 DEF Owned

LEMMA JoinSwapOwned ==
    ASSUME Fits, Fits', Owned, Exists, Exists', ~crossed', MaxFailures <= 1, NEW p \in PR, JoinSwap(p)
    PROVE  Owned'
<1>1. (Failure => ~Spent /\ Spent') /\ (NoFailure => (Spent' <=> Spent))
  BY SpentStep
<1>2. p \in PR /\ RequestAt(p) /\ FinAt(p) /\ EntryAt(p) /\ UnopenedAt(p)
  BY JoinSwapEffect, Sorts, FitsAt
<1>3. JoinInGitAt(p) /\ JoinMarkedAt(p) /\ JoinSwappedAt(p)
  BY JoinSwapEffect, JoinAt
<1>4. \A v \in UnadoptPR : Busy(v)' => Busy(v)
  <2>1. ASSUME NEW v \in UnadoptPR, v # p PROVE Busy(v)' => Busy(v)
    <3>1. v \in PR /\ Same(v)
      BY <2>1, JoinSwapEffect, Sorts DEF Others
    <3> QED BY <2>1, <3>1, <1>1, JoinSwapEffect, JoinSwapView, <1>2, <1>3, Sorts, KeySorts DEF Busy, Running, FinSame, Same, ViewSame, MarksSame, OwnerSame, Same, FinSame
  <2>2. p \in UnadoptPR => (Busy(p)' => Busy(p))
    BY <1>1, JoinSwapEffect, JoinSwapView, <1>2, <1>3, Sorts, KeySorts, FinStays DEF Busy, Running, FinSame, Same, ViewSame, MarksSame, OwnerSame
  <2> QED BY <2>1, <2>2, Sorts, JoinSwapEffect
<1>5. JoinInGit'
  <2>1. ASSUME NEW q \in Join, q # p PROVE JoinInGitAt(q)'
    <3>1. Same(q) /\ q \in PR /\ JoinInGitAt(q) /\ RequestAt(q) /\ FinAt(q) /\ EntryAt(q) /\ UnopenedAt(q)
      BY <2>1, JoinSwapEffect, JoinAt, FitsAt, Sorts DEF Others
    <3> QED BY <2>1, <3>1, <1>1, JoinSwapEffect, JoinSwapView, <1>2, <1>3, Sorts, KeySorts, FinStays DEF JoinInGitAt, JoinBusy, Running, FinAt, Finished, FinSame, Same, ViewSame, MarksSame, OwnerSame
  <2>2. p \in Join => JoinInGitAt(p)'
    BY <1>1, JoinSwapEffect, JoinSwapView, <1>2, <1>3, Sorts, KeySorts, FinStays, UnadoptAt, JoinAt DEF JoinInGitAt, JoinBusy, Running, FinAt, Finished, FinSame, Same, ViewSame, MarksSame, OwnerSame
  <2> QED BY <2>1, <2>2 DEF JoinInGit
<1>6. JoinMarked'
  <2>1. ASSUME NEW q \in Join, q # p PROVE JoinMarkedAt(q)'
    <3>1. Same(q) /\ q \in PR /\ JoinMarkedAt(q) /\ RequestAt(q) /\ FinAt(q) /\ EntryAt(q) /\ UnopenedAt(q)
      BY <2>1, JoinSwapEffect, JoinAt, FitsAt, Sorts DEF Others
    <3> QED BY <2>1, <3>1, <1>1, JoinSwapEffect, JoinSwapView, <1>2, <1>3, Sorts, KeySorts, FinStays DEF JoinMarkedAt, RequestAt, BeforeOpen, UnopenedAt, FinSame, Same, ViewSame, MarksSame, OwnerSame
  <2>2. p \in Join => JoinMarkedAt(p)'
    BY <1>1, JoinSwapEffect, JoinSwapView, <1>2, <1>3, Sorts, KeySorts, FinStays, UnadoptAt, JoinAt DEF JoinMarkedAt, RequestAt, BeforeOpen, UnopenedAt, FinSame, Same, ViewSame, MarksSame, OwnerSame
  <2> QED BY <2>1, <2>2 DEF JoinMarked
<1>7. JoinSwapped'
  <2>1. ASSUME NEW q \in Join, q # p PROVE JoinSwappedAt(q)'
    <3>1. Same(q) /\ q \in PR /\ JoinSwappedAt(q) /\ RequestAt(q) /\ FinAt(q) /\ EntryAt(q) /\ UnopenedAt(q)
      BY <2>1, JoinSwapEffect, JoinAt, FitsAt, Sorts DEF Others
    <3> QED BY <2>1, <3>1, <1>1, JoinSwapEffect, JoinSwapView, <1>2, <1>3, Sorts, KeySorts, FinStays DEF JoinSwappedAt, JoinInGitAt, JoinBusy, FinAt, Finished, FinSame, Same, ViewSame, MarksSame, OwnerSame
  <2>2. p \in Join => JoinSwappedAt(p)'
    BY <1>1, JoinSwapEffect, JoinSwapView, <1>2, <1>3, Sorts, KeySorts, FinStays, UnadoptAt, JoinAt DEF JoinSwappedAt, JoinInGitAt, JoinBusy, FinAt, Finished, FinSame, Same, ViewSame, MarksSame, OwnerSame
  <2> QED BY <2>1, <2>2 DEF JoinSwapped
<1>8. JoinOwed'
  <2>1. inGit' /\ ~Ours' => inGit /\ ~Ours
    BY <1>1, JoinSwapEffect, JoinSwapView, <1>2, <1>3 DEF JoinOwes, JoinDue, JoinSwappedAt, JoinMarkedAt, FinAt, Finished, EntryAt, UnopenedAt, FinSame, Same, ViewSame, MarksSame, OwnerSame
  <2>2. ASSUME NEW q \in Join, inGit' /\ ~Ours', JoinOwes(q) PROVE JoinOwes(q)'
    <3>1. q \in PR /\ RequestAt(q) /\ FinAt(q) /\ EntryAt(q) /\ JoinInGitAt(q) /\ JoinMarkedAt(q) /\ JoinSwappedAt(q)
      BY JoinAt, FitsAt, Sorts
    <3>2. CASE q # p
      <4>1. Same(q)
        BY <3>1, <3>2, JoinSwapEffect DEF Others
      <4> QED BY <2>2, <3>1, <4>1, <3>2, <1>1, JoinSwapEffect, JoinSwapView, <1>2, <1>3, Sorts, KeySorts, FinStays DEF JoinOwes, JoinDue, JoinSwappedAt, JoinMarkedAt, FinAt, Finished, EntryAt, UnopenedAt, FinSame, Same, ViewSame, MarksSame, OwnerSame
    <3>3. CASE q = p
      BY <2>2, <3>1, <3>3, <1>1, JoinSwapEffect, JoinSwapView, <1>2, <1>3, Sorts, KeySorts, FinStays DEF JoinOwes, JoinDue, JoinSwappedAt, JoinMarkedAt, FinAt, Finished, EntryAt, UnopenedAt, FinSame, Same, ViewSame, MarksSame, OwnerSame
    <3> QED BY <3>2, <3>3
  <2> QED BY <2>1, <2>2, JoinOwedKept DEF Owned
<1>9. OneBusy'
  BY <1>4, OneBusyKept DEF Owned
<1>10. PendingFit'
  <2>1. KeepMark' = KeepMark
    BY <1>1, JoinSwapEffect, JoinSwapView, <1>2, <1>3 DEF ViewSame, MarksSame
  <2>2. \A u \in UnadoptPR : req'[u] = req[u]
    BY <1>1, JoinSwapEffect, JoinSwapView, <1>2, <1>3, Sorts DEF Others, Same
  <2>3. UNCHANGED <<marked, tick, listed>> /\ (Spent => Spent')
    BY <1>1, JoinSwapEffect, JoinSwapView, <1>2, <1>3
  <2> QED BY <2>1, <2>2, <2>3 DEF Owned, PendingFit, Running
<1>11. UnadoptInGit'
  <2>1. ASSUME NEW q \in UnadoptPR, q # p PROVE UnadoptInGitAt(q)'
    <3>1. Same(q) /\ q \in PR /\ UnadoptInGitAt(q) /\ RequestAt(q) /\ FinAt(q) /\ EntryAt(q) /\ UnopenedAt(q)
      BY <2>1, JoinSwapEffect, UnadoptAt, FitsAt, Sorts DEF Others
    <3> QED BY <2>1, <3>1, <1>1, JoinSwapEffect, JoinSwapView, <1>2, <1>3, Sorts, KeySorts, FinStays DEF UnadoptInGitAt, Busy, Running, RequestAt, BeforeOpen, FinAt, Finished, FinSame, Same
  <2> QED BY <2>1, JoinSwapEffect, Sorts DEF UnadoptInGit
<1>12. UnadoptKnown'
  BY <1>1, JoinSwapEffect, JoinSwapView, <1>2, <1>3, Sorts, KeySorts, FinStays DEF Owned, Fits, UnadoptKnown, Busy, Running, PendingFit, RequestAt, BeforeOpen, FinAt, Finished, FinSame, Same, ViewSame, MarksSame, OwnerSame, Others
<1>13. UnadoptMarked'
  <2>1. ASSUME NEW q \in UnadoptPR, q # p PROVE UnadoptMarkedAt(q)'
    <3>1. Same(q) /\ q \in PR /\ UnadoptMarkedAt(q) /\ RequestAt(q) /\ FinAt(q) /\ EntryAt(q) /\ UnopenedAt(q)
      BY <2>1, JoinSwapEffect, UnadoptAt, FitsAt, Sorts DEF Others
    <3> QED BY <2>1, <3>1, <1>1, JoinSwapEffect, JoinSwapView, <1>2, <1>3, Sorts, KeySorts, FinStays DEF UnadoptMarkedAt, UnadoptKnown, KeptFor, Busy, Running, RequestAt, BeforeOpen, FinAt, Finished, FinSame, Same, ViewSame, MarksSame, OwnerSame
  <2> QED BY <2>1, JoinSwapEffect, Sorts DEF UnadoptMarked
<1>14. UnadoptStripped'
  <2>1. ASSUME NEW q \in UnadoptPR, q # p PROVE UnadoptStrippedAt(q)'
    <3>1. Same(q) /\ q \in PR /\ UnadoptStrippedAt(q) /\ RequestAt(q) /\ FinAt(q) /\ EntryAt(q) /\ UnopenedAt(q)
      BY <2>1, JoinSwapEffect, UnadoptAt, FitsAt, Sorts DEF Others
    <3> QED BY <2>1, <3>1, <1>1, JoinSwapEffect, JoinSwapView, <1>2, <1>3, Sorts, KeySorts, FinStays DEF UnadoptStrippedAt, JoinInGitAt, JoinBusy, Busy, RequestAt, BeforeOpen, FinAt, Finished, EntryAt, FinSame, Same, ViewSame, MarksSame, OwnerSame
  <2> QED BY <2>1, JoinSwapEffect, Sorts DEF UnadoptStripped
<1>15. UnadoptOwed'
  <2>1. ~inGit' /\ Ours' => ~inGit /\ Ours
    BY <1>1, JoinSwapEffect, JoinSwapView, <1>2, <1>3 DEF JoinInGitAt
  <2>2. ASSUME NEW q \in UnadoptPR, ~inGit' /\ Ours', UnadoptOwes(q) PROVE UnadoptOwes(q)'
    <3>1. q \in PR /\ RequestAt(q) /\ FinAt(q) /\ EntryAt(q) /\ UnadoptInGitAt(q) /\ UnadoptMarkedAt(q) /\ UnadoptStrippedAt(q)
      BY UnadoptAt, FitsAt, Sorts
    <3>2. CASE q # p
      <4>1. Same(q)
        BY <3>1, <3>2, JoinSwapEffect DEF Others
      <4> QED BY <2>2, <3>1, <4>1, <3>2, <1>1, JoinSwapEffect, JoinSwapView, <1>2, <1>3, Sorts, KeySorts, FinStays, <1>4 DEF UnadoptOwes, UnadoptDue, KeptFor, UnadoptStrippedAt, UnadoptMarkedAt, Busy, Running, RequestAt, BeforeOpen, FinAt, Finished, EntryAt, FinSame, Same, ViewSame, MarksSame, OwnerSame
    <3> QED BY <3>2, JoinSwapEffect, Sorts
  <2> QED BY <2>1, <2>2, UnadoptOwedKept DEF Owned
<1>16. PassInGit'
  BY <1>1, JoinSwapEffect, JoinSwapView, <1>2, <1>3, PassInGitFrame DEF Owned
<1> QED BY <1>5, <1>6, <1>7, <1>8, <1>9, <1>10, <1>11, <1>12, <1>13, <1>14, <1>15, <1>16 DEF Owned

LEMMA JoinAnnotateOwned ==
    ASSUME Fits, Fits', Owned, Exists, Exists', ~crossed', MaxFailures <= 1, NEW p \in PR, JoinAnnotate(p)
    PROVE  Owned'
<1>1. (Failure => ~Spent /\ Spent') /\ (NoFailure => (Spent' <=> Spent))
  BY SpentStep
<1>2. p \in PR /\ RequestAt(p) /\ FinAt(p) /\ EntryAt(p) /\ UnopenedAt(p)
  BY JoinAnnotateEffect, Sorts, FitsAt
<1>3. JoinInGitAt(p) /\ JoinMarkedAt(p) /\ JoinSwappedAt(p)
  BY JoinAnnotateEffect, JoinAt
<1>4. \A v \in UnadoptPR : Busy(v)' => Busy(v)
  <2>1. ASSUME NEW v \in UnadoptPR, v # p PROVE Busy(v)' => Busy(v)
    <3>1. v \in PR /\ Same(v)
      BY <2>1, JoinAnnotateEffect, Sorts DEF Others
    <3> QED BY <2>1, <3>1, <1>1, JoinAnnotateEffect, JoinAnnotateView, <1>2, <1>3, Sorts, KeySorts DEF Busy, Running, FinSame, Same, ViewSame, MarksSame, OwnerSame, Same, FinSame
  <2>2. p \in UnadoptPR => (Busy(p)' => Busy(p))
    BY <1>1, JoinAnnotateEffect, JoinAnnotateView, <1>2, <1>3, Sorts, KeySorts, FinStays DEF Busy, Running, FinSame, Same, ViewSame, MarksSame, OwnerSame
  <2> QED BY <2>1, <2>2, Sorts, JoinAnnotateEffect
<1>5. JoinInGit'
  <2>1. ASSUME NEW q \in Join, q # p PROVE JoinInGitAt(q)'
    <3>1. Same(q) /\ q \in PR /\ JoinInGitAt(q) /\ RequestAt(q) /\ FinAt(q) /\ EntryAt(q) /\ UnopenedAt(q)
      BY <2>1, JoinAnnotateEffect, JoinAt, FitsAt, Sorts DEF Others
    <3> QED BY <2>1, <3>1, <1>1, JoinAnnotateEffect, JoinAnnotateView, <1>2, <1>3, Sorts, KeySorts, FinStays DEF JoinInGitAt, JoinBusy, Running, FinAt, Finished, FinSame, Same, ViewSame, MarksSame, OwnerSame
  <2>2. p \in Join => JoinInGitAt(p)'
    BY <1>1, JoinAnnotateEffect, JoinAnnotateView, <1>2, <1>3, Sorts, KeySorts, FinStays, UnadoptAt, JoinAt DEF JoinInGitAt, JoinBusy, Running, FinAt, Finished, FinSame, Same, ViewSame, MarksSame, OwnerSame
  <2> QED BY <2>1, <2>2 DEF JoinInGit
<1>6. JoinMarked'
  <2>1. ASSUME NEW q \in Join, q # p PROVE JoinMarkedAt(q)'
    <3>1. Same(q) /\ q \in PR /\ JoinMarkedAt(q) /\ RequestAt(q) /\ FinAt(q) /\ EntryAt(q) /\ UnopenedAt(q)
      BY <2>1, JoinAnnotateEffect, JoinAt, FitsAt, Sorts DEF Others
    <3> QED BY <2>1, <3>1, <1>1, JoinAnnotateEffect, JoinAnnotateView, <1>2, <1>3, Sorts, KeySorts, FinStays DEF JoinMarkedAt, RequestAt, BeforeOpen, UnopenedAt, FinSame, Same, ViewSame, MarksSame, OwnerSame
  <2>2. p \in Join => JoinMarkedAt(p)'
    BY <1>1, JoinAnnotateEffect, JoinAnnotateView, <1>2, <1>3, Sorts, KeySorts, FinStays, UnadoptAt, JoinAt DEF JoinMarkedAt, RequestAt, BeforeOpen, UnopenedAt, FinSame, Same, ViewSame, MarksSame, OwnerSame
  <2> QED BY <2>1, <2>2 DEF JoinMarked
<1>7. JoinSwapped'
  <2>1. ASSUME NEW q \in Join, q # p PROVE JoinSwappedAt(q)'
    <3>1. Same(q) /\ q \in PR /\ JoinSwappedAt(q) /\ RequestAt(q) /\ FinAt(q) /\ EntryAt(q) /\ UnopenedAt(q)
      BY <2>1, JoinAnnotateEffect, JoinAt, FitsAt, Sorts DEF Others
    <3> QED BY <2>1, <3>1, <1>1, JoinAnnotateEffect, JoinAnnotateView, <1>2, <1>3, Sorts, KeySorts, FinStays DEF JoinSwappedAt, JoinInGitAt, JoinBusy, FinAt, Finished, FinSame, Same, ViewSame, MarksSame, OwnerSame
  <2>2. p \in Join => JoinSwappedAt(p)'
    BY <1>1, JoinAnnotateEffect, JoinAnnotateView, <1>2, <1>3, Sorts, KeySorts, FinStays, UnadoptAt, JoinAt DEF JoinSwappedAt, JoinInGitAt, JoinBusy, FinAt, Finished, FinSame, Same, ViewSame, MarksSame, OwnerSame
  <2> QED BY <2>1, <2>2 DEF JoinSwapped
<1>8. JoinOwed'
  <2>1. inGit' /\ ~Ours' => inGit /\ ~Ours
    BY <1>1, JoinAnnotateEffect, JoinAnnotateView, <1>2, <1>3 DEF JoinOwes, JoinDue, JoinSwappedAt, JoinMarkedAt, FinAt, Finished, EntryAt, UnopenedAt, FinSame, Same, ViewSame, MarksSame, OwnerSame
  <2>2. ASSUME NEW q \in Join, inGit' /\ ~Ours', JoinOwes(q) PROVE JoinOwes(q)'
    <3>1. q \in PR /\ RequestAt(q) /\ FinAt(q) /\ EntryAt(q) /\ JoinInGitAt(q) /\ JoinMarkedAt(q) /\ JoinSwappedAt(q)
      BY JoinAt, FitsAt, Sorts
    <3>2. CASE q # p
      <4>1. Same(q)
        BY <3>1, <3>2, JoinAnnotateEffect DEF Others
      <4> QED BY <2>2, <3>1, <4>1, <3>2, <1>1, JoinAnnotateEffect, JoinAnnotateView, <1>2, <1>3, Sorts, KeySorts, FinStays DEF JoinOwes, JoinDue, JoinSwappedAt, JoinMarkedAt, FinAt, Finished, EntryAt, UnopenedAt, FinSame, Same, ViewSame, MarksSame, OwnerSame
    <3>3. CASE q = p
      BY <2>2, <3>1, <3>3, <1>1, JoinAnnotateEffect, JoinAnnotateView, <1>2, <1>3, Sorts, KeySorts, FinStays DEF JoinOwes, JoinDue, JoinSwappedAt, JoinMarkedAt, FinAt, Finished, EntryAt, UnopenedAt, FinSame, Same, ViewSame, MarksSame, OwnerSame
    <3> QED BY <3>2, <3>3
  <2> QED BY <2>1, <2>2, JoinOwedKept DEF Owned
<1>9. OneBusy'
  BY <1>4, OneBusyKept DEF Owned
<1>10. PendingFit'
  <2>1. KeepMark' = KeepMark
    BY <1>1, JoinAnnotateEffect, JoinAnnotateView, <1>2, <1>3 DEF ViewSame, MarksSame
  <2>2. \A u \in UnadoptPR : req'[u] = req[u]
    BY <1>1, JoinAnnotateEffect, JoinAnnotateView, <1>2, <1>3, Sorts DEF Others, Same
  <2>3. UNCHANGED <<marked, tick, listed>> /\ (Spent => Spent')
    BY <1>1, JoinAnnotateEffect, JoinAnnotateView, <1>2, <1>3
  <2> QED BY <2>1, <2>2, <2>3 DEF Owned, PendingFit, Running
<1>11. UnadoptInGit'
  <2>1. ASSUME NEW q \in UnadoptPR, q # p PROVE UnadoptInGitAt(q)'
    <3>1. Same(q) /\ q \in PR /\ UnadoptInGitAt(q) /\ RequestAt(q) /\ FinAt(q) /\ EntryAt(q) /\ UnopenedAt(q)
      BY <2>1, JoinAnnotateEffect, UnadoptAt, FitsAt, Sorts DEF Others
    <3> QED BY <2>1, <3>1, <1>1, JoinAnnotateEffect, JoinAnnotateView, <1>2, <1>3, Sorts, KeySorts, FinStays DEF UnadoptInGitAt, Busy, Running, RequestAt, BeforeOpen, FinAt, Finished, FinSame, Same
  <2> QED BY <2>1, JoinAnnotateEffect, Sorts DEF UnadoptInGit
<1>12. UnadoptKnown'
  <2>1. \A u \in UnadoptPR : req'[u] = req[u]
    BY <1>1, JoinAnnotateEffect, JoinAnnotateView, <1>2, <1>3, Sorts DEF Others, Same
  <2>2. Ours /\ (Ours' <=> Ours)
    BY <1>1, JoinAnnotateEffect, JoinAnnotateView, <1>2, <1>3 DEF JoinSwappedAt, ViewSame, OwnerSame
  <2> QED BY <2>2 DEF UnadoptKnown
<1>13. UnadoptMarked'
  <2>1. ASSUME NEW q \in UnadoptPR, q # p PROVE UnadoptMarkedAt(q)'
    <3>1. Same(q) /\ q \in PR /\ UnadoptMarkedAt(q) /\ RequestAt(q) /\ FinAt(q) /\ EntryAt(q) /\ UnopenedAt(q)
      BY <2>1, JoinAnnotateEffect, UnadoptAt, FitsAt, Sorts DEF Others
    <3> QED BY <2>1, <3>1, <1>1, JoinAnnotateEffect, JoinAnnotateView, <1>2, <1>3, Sorts, KeySorts, FinStays DEF UnadoptMarkedAt, UnadoptKnown, KeptFor, Busy, Running, RequestAt, BeforeOpen, FinAt, Finished, FinSame, Same, ViewSame, MarksSame, OwnerSame
  <2> QED BY <2>1, JoinAnnotateEffect, Sorts DEF UnadoptMarked
<1>14. UnadoptStripped'
  <2>1. ASSUME NEW q \in UnadoptPR, q # p PROVE UnadoptStrippedAt(q)'
    <3>1. Same(q) /\ q \in PR /\ UnadoptStrippedAt(q) /\ RequestAt(q) /\ FinAt(q) /\ EntryAt(q) /\ UnopenedAt(q)
      BY <2>1, JoinAnnotateEffect, UnadoptAt, FitsAt, Sorts DEF Others
    <3> QED BY <2>1, <3>1, <1>1, JoinAnnotateEffect, JoinAnnotateView, <1>2, <1>3, Sorts, KeySorts, FinStays DEF UnadoptStrippedAt, JoinInGitAt, JoinBusy, Busy, RequestAt, BeforeOpen, FinAt, Finished, EntryAt, FinSame, Same, ViewSame, MarksSame, OwnerSame
  <2> QED BY <2>1, JoinAnnotateEffect, Sorts DEF UnadoptStripped
<1>15. UnadoptOwed'
  <2>1. ~inGit' /\ Ours' => ~inGit /\ Ours
    BY <1>1, JoinAnnotateEffect, JoinAnnotateView, <1>2, <1>3 DEF UnadoptOwes, UnadoptDue, KeptFor, UnadoptStrippedAt, UnadoptMarkedAt, Busy, Running, RequestAt, BeforeOpen, FinAt, Finished, EntryAt, FinSame, Same, ViewSame, MarksSame, OwnerSame
  <2>2. ASSUME NEW q \in UnadoptPR, ~inGit' /\ Ours', UnadoptOwes(q) PROVE UnadoptOwes(q)'
    <3>1. q \in PR /\ RequestAt(q) /\ FinAt(q) /\ EntryAt(q) /\ UnadoptInGitAt(q) /\ UnadoptMarkedAt(q) /\ UnadoptStrippedAt(q)
      BY UnadoptAt, FitsAt, Sorts
    <3>2. CASE q # p
      <4>1. Same(q)
        BY <3>1, <3>2, JoinAnnotateEffect DEF Others
      <4> QED BY <2>2, <3>1, <4>1, <3>2, <1>1, JoinAnnotateEffect, JoinAnnotateView, <1>2, <1>3, Sorts, KeySorts, FinStays, <1>4 DEF UnadoptOwes, UnadoptDue, KeptFor, UnadoptStrippedAt, UnadoptMarkedAt, Busy, Running, RequestAt, BeforeOpen, FinAt, Finished, EntryAt, FinSame, Same, ViewSame, MarksSame, OwnerSame
    <3> QED BY <3>2, JoinAnnotateEffect, Sorts
  <2> QED BY <2>1, <2>2, UnadoptOwedKept DEF Owned
<1>16. PassInGit'
  BY <1>1, JoinAnnotateEffect, JoinAnnotateView, <1>2, <1>3, PassInGitFrame DEF Owned
<1> QED BY <1>5, <1>6, <1>7, <1>8, <1>9, <1>10, <1>11, <1>12, <1>13, <1>14, <1>15, <1>16 DEF Owned

LEMMA UnadoptCheckOwned ==
    ASSUME Fits, Fits', Owned, Exists, Exists', ~crossed', MaxFailures <= 1, NEW p \in PR, UnadoptCheck(p)
    PROVE  Owned'
<1>1. (Failure => ~Spent /\ Spent') /\ (NoFailure => (Spent' <=> Spent))
  BY SpentStep
<1>2. ViewSame
  BY UnadoptCheckEffect, ViewFrame
<1>3. p \in PR /\ RequestAt(p) /\ FinAt(p) /\ EntryAt(p) /\ UnopenedAt(p)
  BY UnadoptCheckEffect, Sorts, FitsAt
<1>4. UnadoptInGitAt(p) /\ UnadoptMarkedAt(p) /\ UnadoptStrippedAt(p)
  BY UnadoptCheckEffect, UnadoptAt
<1>5. JoinInGit'
  <2>1. ASSUME NEW q \in Join, q # p PROVE JoinInGitAt(q)'
    <3>1. Same(q) /\ q \in PR /\ JoinInGitAt(q) /\ RequestAt(q) /\ FinAt(q) /\ EntryAt(q) /\ UnopenedAt(q)
      BY <2>1, UnadoptCheckEffect, JoinAt, FitsAt, Sorts DEF Others
    <3> QED BY <2>1, <3>1, <1>1, UnadoptCheckEffect, <1>2, <1>3, <1>4, Sorts, KeySorts, FinStays DEF JoinInGitAt, JoinBusy, Running, FinAt, Finished, FinSame, Same, ViewSame, MarksSame, OwnerSame
  <2> QED BY <2>1, UnadoptCheckEffect, Sorts DEF JoinInGit
<1>6. JoinMarked'
  <2>1. ASSUME NEW q \in Join, q # p PROVE JoinMarkedAt(q)'
    <3>1. Same(q) /\ q \in PR /\ JoinMarkedAt(q) /\ RequestAt(q) /\ FinAt(q) /\ EntryAt(q) /\ UnopenedAt(q)
      BY <2>1, UnadoptCheckEffect, JoinAt, FitsAt, Sorts DEF Others
    <3> QED BY <2>1, <3>1, <1>1, UnadoptCheckEffect, <1>2, <1>3, <1>4, Sorts, KeySorts, FinStays DEF JoinMarkedAt, RequestAt, BeforeOpen, UnopenedAt, FinSame, Same, ViewSame, MarksSame, OwnerSame
  <2> QED BY <2>1, UnadoptCheckEffect, Sorts DEF JoinMarked
<1>7. JoinSwapped'
  <2>1. ASSUME NEW q \in Join, q # p PROVE JoinSwappedAt(q)'
    <3>1. Same(q) /\ q \in PR /\ JoinSwappedAt(q) /\ RequestAt(q) /\ FinAt(q) /\ EntryAt(q) /\ UnopenedAt(q)
      BY <2>1, UnadoptCheckEffect, JoinAt, FitsAt, Sorts DEF Others
    <3> QED BY <2>1, <3>1, <1>1, UnadoptCheckEffect, <1>2, <1>3, <1>4, Sorts, KeySorts, FinStays DEF JoinSwappedAt, JoinInGitAt, JoinBusy, FinAt, Finished, FinSame, Same, ViewSame, MarksSame, OwnerSame
  <2> QED BY <2>1, UnadoptCheckEffect, Sorts DEF JoinSwapped
<1>8. JoinOwed'
  <2>1. inGit' /\ ~Ours' => inGit /\ ~Ours
    BY <1>1, UnadoptCheckEffect, <1>2, <1>3, <1>4 DEF JoinOwes, JoinDue, JoinSwappedAt, JoinMarkedAt, FinAt, Finished, EntryAt, UnopenedAt, FinSame, Same, ViewSame, MarksSame, OwnerSame
  <2>2. ASSUME NEW q \in Join, inGit' /\ ~Ours', JoinOwes(q) PROVE JoinOwes(q)'
    <3>1. q \in PR /\ RequestAt(q) /\ FinAt(q) /\ EntryAt(q) /\ JoinInGitAt(q) /\ JoinMarkedAt(q) /\ JoinSwappedAt(q)
      BY JoinAt, FitsAt, Sorts
    <3>2. CASE q # p
      <4>1. Same(q)
        BY <3>1, <3>2, UnadoptCheckEffect DEF Others
      <4> QED BY <2>2, <3>1, <4>1, <3>2, <1>1, UnadoptCheckEffect, <1>2, <1>3, <1>4, Sorts, KeySorts, FinStays DEF JoinOwes, JoinDue, JoinSwappedAt, JoinMarkedAt, FinAt, Finished, EntryAt, UnopenedAt, FinSame, Same, ViewSame, MarksSame, OwnerSame
    <3> QED BY <3>2, UnadoptCheckEffect, Sorts
  <2> QED BY <2>1, <2>2, JoinOwedKept DEF Owned
<1>9. OneBusy'
  <2>1. ASSUME NEW v \in UnadoptPR, v # p PROVE ~Busy(v)'
    <3>1. ~Busy(v)
      BY <2>1, UnadoptCheckEffect, SettledMeans
    <3>2. v \in PR /\ Same(v) /\ ViewSame /\ UNCHANGED <<listed, number>>
      BY <2>1, UnadoptCheckEffect, ViewFrame, Sorts DEF Others
    <3> QED BY <3>1, <3>2 DEF Busy, Running, Same, FinSame, ViewSame, MarksSame
  <2> QED BY <2>1 DEF OneBusy
<1>10. PendingFit'
  <2>1. KeepMark \notin Unnumbered
    <3>1. ASSUME KeepMark \in Unnumbered PROVE FALSE
      <4> PICK u \in UnadoptPR : req[u] # "idle"
        BY <3>1 DEF Owned, PendingFit
      <4> QED BY <3>1, UnadoptCheckEffect, SettledMeans
    <3> QED BY <3>1
  <2>2. KeepMark' = KeepMark /\ UNCHANGED <<tick, listed>>
    BY UnadoptCheckEffect, ViewFrame DEF ViewSame, MarksSame
  <2> QED BY <2>1, <2>2, Sorts DEF Owned, PendingFit
<1>11. UnadoptInGit'
  <2>1. ASSUME NEW q \in UnadoptPR, q # p PROVE UnadoptInGitAt(q)'
    <3>1. Same(q) /\ q \in PR /\ UnadoptInGitAt(q) /\ RequestAt(q) /\ FinAt(q) /\ EntryAt(q) /\ UnopenedAt(q)
      BY <2>1, UnadoptCheckEffect, UnadoptAt, FitsAt, Sorts DEF Others
    <3> QED BY <2>1, <3>1, <1>1, UnadoptCheckEffect, <1>2, <1>3, <1>4, Sorts, KeySorts, FinStays DEF UnadoptInGitAt, Busy, Running, RequestAt, BeforeOpen, FinAt, Finished, FinSame, Same
  <2>2. p \in UnadoptPR => UnadoptInGitAt(p)'
    BY <1>1, UnadoptCheckEffect, <1>2, <1>3, <1>4, Sorts, KeySorts, FinStays, UnadoptAt, JoinAt DEF UnadoptInGitAt, Busy, Running, RequestAt, BeforeOpen, FinAt, Finished, FinSame, Same
  <2> QED BY <2>1, <2>2 DEF UnadoptInGit
<1>12. UnadoptKnown'
  <2>1. \A u \in UnadoptPR : u = p \/ req'[u] = req[u]
    BY <1>1, UnadoptCheckEffect, <1>2, <1>3, <1>4, Sorts DEF Others, Same
  <2>2. OwnerSame /\ Adopted /\ (Spent' <=> Spent)
    BY <1>1, UnadoptCheckEffect, <1>2, <1>3, <1>4 DEF ViewSame, Adopted
  <2>3. Ours \/ Spent
    BY <2>2 DEF Owned, UnadoptKnown
  <2> QED BY <2>1, <2>2, <2>3 DEF UnadoptKnown, OwnerSame
<1>13. UnadoptMarked'
  <2>1. ASSUME NEW q \in UnadoptPR, q # p PROVE UnadoptMarkedAt(q)'
    <3>1. Same(q) /\ q \in PR /\ UnadoptMarkedAt(q) /\ RequestAt(q) /\ FinAt(q) /\ EntryAt(q) /\ UnopenedAt(q)
      BY <2>1, UnadoptCheckEffect, UnadoptAt, FitsAt, Sorts DEF Others
    <3> QED BY <2>1, <3>1, <1>1, UnadoptCheckEffect, <1>2, <1>3, <1>4, Sorts, KeySorts, FinStays DEF UnadoptMarkedAt, UnadoptKnown, KeptFor, Busy, Running, RequestAt, BeforeOpen, FinAt, Finished, FinSame, Same, ViewSame, MarksSame, OwnerSame
  <2>2. p \in UnadoptPR => UnadoptMarkedAt(p)'
    BY <1>1, UnadoptCheckEffect, <1>2, <1>3, <1>4, Sorts, KeySorts, FinStays, UnadoptAt, JoinAt DEF UnadoptMarkedAt, UnadoptKnown, KeptFor, Busy, Running, RequestAt, BeforeOpen, FinAt, Finished, FinSame, Same, ViewSame, MarksSame, OwnerSame
  <2> QED BY <2>1, <2>2 DEF UnadoptMarked
<1>14. UnadoptOwed'
  <2>1. ~inGit' /\ Ours' => ~inGit /\ Ours
    BY <1>1, UnadoptCheckEffect, <1>2, <1>3, <1>4 DEF UnadoptOwes, UnadoptDue, KeptFor, UnadoptStrippedAt, UnadoptMarkedAt, Busy, Running, RequestAt, BeforeOpen, FinAt, Finished, EntryAt, FinSame, Same, ViewSame, MarksSame, OwnerSame
  <2>2. ASSUME NEW q \in UnadoptPR, ~inGit' /\ Ours', UnadoptOwes(q) PROVE UnadoptOwes(q)'
    <3>1. CASE q # p
      <4>1. ~KeptFor(q) /\ tracked[q] = NoEntry /\ ~Running(q) /\ RequestStep(q) = "idle"
        BY <3>1, UnadoptCheckEffect, SettledMeans
      <4> QED BY <2>2, <4>1 DEF UnadoptOwes, UnadoptDue, Running
    <3>2. CASE q = p
      <4>1. git[p] = "none"
        BY <1>3, UnadoptCheckEffect DEF RequestAt, BeforeOpen
      <4> QED BY <2>2, <3>2, <4>1 DEF UnadoptOwes, Finished
    <3> QED BY <3>1, <3>2
  <2> QED BY <2>1, <2>2, UnadoptOwedKept DEF Owned
<1>15. PassInGit' /\ UnadoptStripped'
  BY <1>1, UnadoptCheckEffect, <1>2, <1>3, <1>4, PassInGitFrame, UnadoptStrippedFrame DEF Owned
<1> QED BY <1>5, <1>6, <1>7, <1>8, <1>9, <1>10, <1>11, <1>12, <1>13, <1>14, <1>15 DEF Owned

LEMMA UnadoptPlanOwned ==
    ASSUME Fits, Fits', Owned, Exists, Exists', ~crossed', MaxFailures <= 1, NEW p \in PR, UnadoptPlan(p)
    PROVE  Owned'
<1>1. (Failure => ~Spent /\ Spent') /\ (NoFailure => (Spent' <=> Spent))
  BY SpentStep
<1>2. ViewSame
  BY UnadoptPlanEffect, ViewFrame
<1>3. p \in PR /\ RequestAt(p) /\ FinAt(p) /\ EntryAt(p) /\ UnopenedAt(p)
  BY UnadoptPlanEffect, Sorts, FitsAt
<1>4. UnadoptInGitAt(p) /\ UnadoptMarkedAt(p) /\ UnadoptStrippedAt(p)
  BY UnadoptPlanEffect, UnadoptAt
<1>5. Busy(p) /\ \A v \in UnadoptPR : v # p => ~Busy(v)
  BY UnadoptPlanEffect, UnadoptAt DEF Busy, Running
<1>6. \A v \in UnadoptPR : Busy(v)' => Busy(v)
  <2>1. ASSUME NEW v \in UnadoptPR, v # p PROVE Busy(v)' => Busy(v)
    <3>1. v \in PR /\ Same(v)
      BY <2>1, UnadoptPlanEffect, Sorts DEF Others
    <3> QED BY <2>1, <3>1, <1>1, UnadoptPlanEffect, <1>2, <1>3, <1>4, <1>5, Sorts, KeySorts DEF Busy, Running, RequestSet, FinSame, Same, ViewSame, MarksSame, OwnerSame, Same, FinSame
  <2>2. p \in UnadoptPR => (Busy(p)' => Busy(p))
    BY <1>1, UnadoptPlanEffect, <1>2, <1>3, <1>4, <1>5, Sorts, KeySorts DEF Busy, Running, RequestSet, FinSame, Same, ViewSame, MarksSame, OwnerSame
  <2> QED BY <2>1, <2>2, Sorts, UnadoptPlanEffect
<1>7. JoinInGit'
  <2>1. ASSUME NEW q \in Join, q # p PROVE JoinInGitAt(q)'
    <3>1. Same(q) /\ q \in PR /\ JoinInGitAt(q) /\ RequestAt(q) /\ FinAt(q) /\ EntryAt(q) /\ UnopenedAt(q)
      BY <2>1, UnadoptPlanEffect, JoinAt, FitsAt, Sorts DEF Others
    <3> QED BY <2>1, <3>1, <1>1, UnadoptPlanEffect, <1>2, <1>3, <1>4, <1>5, Sorts, KeySorts DEF JoinInGitAt, JoinBusy, Running, FinAt, Finished, FinSame, Same, ViewSame, MarksSame, OwnerSame
  <2> QED BY <2>1, UnadoptPlanEffect, Sorts DEF JoinInGit
<1>8. JoinMarked'
  <2>1. ASSUME NEW q \in Join, q # p PROVE JoinMarkedAt(q)'
    <3>1. Same(q) /\ q \in PR /\ JoinMarkedAt(q) /\ RequestAt(q) /\ FinAt(q) /\ EntryAt(q) /\ UnopenedAt(q)
      BY <2>1, UnadoptPlanEffect, JoinAt, FitsAt, Sorts DEF Others
    <3> QED BY <2>1, <3>1, <1>1, UnadoptPlanEffect, <1>2, <1>3, <1>4, <1>5, Sorts, KeySorts DEF JoinMarkedAt, RequestAt, BeforeOpen, UnopenedAt, FinSame, Same, ViewSame, MarksSame, OwnerSame
  <2> QED BY <2>1, UnadoptPlanEffect, Sorts DEF JoinMarked
<1>9. JoinSwapped'
  <2>1. ASSUME NEW q \in Join, q # p PROVE JoinSwappedAt(q)'
    <3>1. Same(q) /\ q \in PR /\ JoinSwappedAt(q) /\ RequestAt(q) /\ FinAt(q) /\ EntryAt(q) /\ UnopenedAt(q)
      BY <2>1, UnadoptPlanEffect, JoinAt, FitsAt, Sorts DEF Others
    <3> QED BY <2>1, <3>1, <1>1, UnadoptPlanEffect, <1>2, <1>3, <1>4, <1>5, Sorts, KeySorts DEF JoinSwappedAt, JoinInGitAt, JoinBusy, FinAt, Finished, RequestSet, FinSame, Same, ViewSame, MarksSame, OwnerSame
  <2> QED BY <2>1, UnadoptPlanEffect, Sorts DEF JoinSwapped
<1>10. JoinOwed'
  <2>1. inGit' /\ ~Ours' => inGit /\ ~Ours
    BY <1>1, UnadoptPlanEffect, <1>2, <1>3, <1>4, <1>5 DEF JoinOwes, JoinDue, JoinSwappedAt, JoinMarkedAt, FinAt, Finished, EntryAt, UnopenedAt, RequestSet, FinSame, Same, ViewSame, MarksSame, OwnerSame
  <2>2. ASSUME NEW q \in Join, inGit' /\ ~Ours', JoinOwes(q) PROVE JoinOwes(q)'
    <3>1. q \in PR /\ RequestAt(q) /\ FinAt(q) /\ EntryAt(q) /\ JoinInGitAt(q) /\ JoinMarkedAt(q) /\ JoinSwappedAt(q)
      BY JoinAt, FitsAt, Sorts
    <3>2. CASE q # p
      <4>1. Same(q)
        BY <3>1, <3>2, UnadoptPlanEffect DEF Others
      <4> QED BY <2>2, <3>1, <4>1, <3>2, <1>1, UnadoptPlanEffect, <1>2, <1>3, <1>4, <1>5, Sorts, KeySorts DEF JoinOwes, JoinDue, JoinSwappedAt, JoinMarkedAt, FinAt, Finished, EntryAt, UnopenedAt, RequestSet, FinSame, Same, ViewSame, MarksSame, OwnerSame
    <3> QED BY <3>2, UnadoptPlanEffect, Sorts
  <2> QED BY <2>1, <2>2, JoinOwedKept DEF Owned
<1>11. OneBusy'
  BY <1>6, OneBusyKept DEF Owned
<1>12. PendingFit'
  BY <1>1, UnadoptPlanEffect, <1>2, <1>3, <1>4, <1>5, Sorts, KeySorts DEF Owned, Fits, PendingFit, Running, RequestsFit, RequestAt, MarksFit, Nothing, FinSame, Same, ViewSame, MarksSame, OwnerSame, Others
<1>13. UnadoptInGit'
  <2>1. ASSUME NEW q \in UnadoptPR, q # p PROVE UnadoptInGitAt(q)'
    <3>1. Same(q) /\ q \in PR /\ UnadoptInGitAt(q) /\ RequestAt(q) /\ FinAt(q) /\ EntryAt(q) /\ UnopenedAt(q)
      BY <2>1, UnadoptPlanEffect, UnadoptAt, FitsAt, Sorts DEF Others
    <3> QED BY <2>1, <3>1, <1>1, UnadoptPlanEffect, <1>2, <1>3, <1>4, <1>5, Sorts, KeySorts DEF UnadoptInGitAt, Busy, Running, RequestAt, BeforeOpen, FinAt, Finished, RequestSet, FinSame, Same
  <2>2. p \in UnadoptPR => UnadoptInGitAt(p)'
    BY <1>1, UnadoptPlanEffect, <1>2, <1>3, <1>4, <1>5, Sorts, KeySorts, UnadoptAt, JoinAt DEF UnadoptInGitAt, Busy, Running, RequestAt, BeforeOpen, FinAt, Finished, RequestSet, FinSame, Same
  <2> QED BY <2>1, <2>2 DEF UnadoptInGit
<1>14. UnadoptKnown'
  BY <1>1, UnadoptPlanEffect, <1>2, <1>3, <1>4, <1>5, Sorts, KeySorts DEF Owned, Fits, UnadoptKnown, Busy, Running, PendingFit, RequestAt, BeforeOpen, FinAt, Finished, FinSame, Same, ViewSame, MarksSame, OwnerSame, Others
<1>15. UnadoptMarked'
  <2>1. ASSUME NEW q \in UnadoptPR, q # p PROVE UnadoptMarkedAt(q)'
    <3>1. Same(q) /\ q \in PR /\ UnadoptMarkedAt(q) /\ RequestAt(q) /\ FinAt(q) /\ EntryAt(q) /\ UnopenedAt(q)
      BY <2>1, UnadoptPlanEffect, UnadoptAt, FitsAt, Sorts DEF Others
    <3> QED BY <2>1, <3>1, <1>1, UnadoptPlanEffect, <1>2, <1>3, <1>4, <1>5, Sorts, KeySorts DEF UnadoptMarkedAt, UnadoptKnown, KeptFor, Busy, Running, RequestAt, BeforeOpen, FinAt, Finished, FinSame, Same, ViewSame, MarksSame, OwnerSame
  <2>2. p \in UnadoptPR => UnadoptMarkedAt(p)'
    BY <1>1, UnadoptPlanEffect, <1>2, <1>3, <1>4, <1>5, Sorts, KeySorts, UnadoptAt, JoinAt DEF UnadoptMarkedAt, UnadoptKnown, KeptFor, Busy, Running, RequestAt, BeforeOpen, FinAt, Finished, FinSame, Same, ViewSame, MarksSame, OwnerSame
  <2> QED BY <2>1, <2>2 DEF UnadoptMarked
<1>16. UnadoptStripped'
  <2>1. ASSUME NEW q \in UnadoptPR, q # p PROVE UnadoptStrippedAt(q)'
    <3>1. Same(q) /\ q \in PR /\ UnadoptStrippedAt(q) /\ RequestAt(q) /\ FinAt(q) /\ EntryAt(q) /\ UnopenedAt(q)
      BY <2>1, UnadoptPlanEffect, UnadoptAt, FitsAt, Sorts DEF Others
    <3> QED BY <2>1, <3>1, <1>1, UnadoptPlanEffect, <1>2, <1>3, <1>4, <1>5, Sorts, KeySorts DEF UnadoptStrippedAt, JoinInGitAt, JoinBusy, Busy, RequestAt, BeforeOpen, FinAt, Finished, EntryAt, RequestSet, FinSame, Same, ViewSame, MarksSame, OwnerSame
  <2>2. p \in UnadoptPR => UnadoptStrippedAt(p)'
    BY <1>1, UnadoptPlanEffect, <1>2, <1>3, <1>4, <1>5, Sorts, KeySorts, UnadoptAt, JoinAt DEF UnadoptStrippedAt, JoinInGitAt, JoinBusy, Busy, RequestAt, BeforeOpen, FinAt, Finished, EntryAt, RequestSet, FinSame, Same, ViewSame, MarksSame, OwnerSame
  <2> QED BY <2>1, <2>2 DEF UnadoptStripped
<1>17. UnadoptOwed'
  <2>1. ~inGit' /\ Ours' => ~inGit /\ Ours
    BY <1>1, UnadoptPlanEffect, <1>2, <1>3, <1>4, <1>5 DEF UnadoptOwes, UnadoptDue, KeptFor, UnadoptStrippedAt, UnadoptMarkedAt, Busy, Running, RequestAt, BeforeOpen, FinAt, Finished, EntryAt, RequestSet, FinSame, Same, ViewSame, MarksSame, OwnerSame
  <2>2. ASSUME NEW q \in UnadoptPR, ~inGit' /\ Ours', UnadoptOwes(q) PROVE UnadoptOwes(q)'
    <3>1. q \in PR /\ RequestAt(q) /\ FinAt(q) /\ EntryAt(q) /\ UnadoptInGitAt(q) /\ UnadoptMarkedAt(q) /\ UnadoptStrippedAt(q)
      BY UnadoptAt, FitsAt, Sorts
    <3>2. CASE q # p
      <4>1. Same(q)
        BY <3>1, <3>2, UnadoptPlanEffect DEF Others
      <4> QED BY <2>2, <3>1, <4>1, <3>2, <1>1, UnadoptPlanEffect, <1>2, <1>3, <1>4, <1>5, Sorts, KeySorts, <1>6 DEF UnadoptOwes, UnadoptDue, KeptFor, UnadoptStrippedAt, UnadoptMarkedAt, Busy, Running, RequestAt, BeforeOpen, FinAt, Finished, EntryAt, RequestSet, FinSame, Same, ViewSame, MarksSame, OwnerSame
    <3>3. CASE q = p
      BY <2>2, <3>1, <3>3, <1>1, UnadoptPlanEffect, <1>2, <1>3, <1>4, <1>5, Sorts, KeySorts, <1>6 DEF UnadoptOwes, UnadoptDue, KeptFor, UnadoptStrippedAt, UnadoptMarkedAt, Busy, Running, RequestAt, BeforeOpen, FinAt, Finished, EntryAt, RequestSet, FinSame, Same, ViewSame, MarksSame, OwnerSame
    <3> QED BY <3>2, <3>3
  <2> QED BY <2>1, <2>2, UnadoptOwedKept DEF Owned
<1>18. PassInGit'
  BY <1>1, UnadoptPlanEffect, <1>2, <1>3, <1>4, <1>5, PassInGitFrame DEF Owned
<1> QED BY <1>7, <1>8, <1>9, <1>10, <1>11, <1>12, <1>13, <1>14, <1>15, <1>16, <1>17, <1>18 DEF Owned

LEMMA UnadoptLookOwned ==
    ASSUME Fits, Fits', Owned, Exists, Exists', ~crossed', MaxFailures <= 1, NEW p \in PR, UnadoptLook(p)
    PROVE  Owned'
<1>1. (Failure => ~Spent /\ Spent') /\ (NoFailure => (Spent' <=> Spent))
  BY SpentStep
<1>2. ViewSame
  BY UnadoptLookEffect, ViewFrame
<1>3. p \in PR /\ RequestAt(p) /\ FinAt(p) /\ EntryAt(p) /\ UnopenedAt(p)
  BY UnadoptLookEffect, Sorts, FitsAt
<1>4. UnadoptInGitAt(p) /\ UnadoptMarkedAt(p) /\ UnadoptStrippedAt(p)
  BY UnadoptLookEffect, UnadoptAt
<1>5. Busy(p) /\ \A v \in UnadoptPR : v # p => ~Busy(v)
  BY UnadoptLookEffect, UnadoptAt DEF Busy, Running
<1>6. \A v \in UnadoptPR : Busy(v)' => Busy(v)
  <2>1. ASSUME NEW v \in UnadoptPR, v # p PROVE Busy(v)' => Busy(v)
    <3>1. v \in PR /\ Same(v)
      BY <2>1, UnadoptLookEffect, Sorts DEF Others
    <3> QED BY <2>1, <3>1, <1>1, UnadoptLookEffect, <1>2, UnadoptLookView, <1>3, <1>4, <1>5, Sorts, KeySorts DEF Busy, Running, FinSame, Same, ViewSame, MarksSame, OwnerSame, Same, FinSame
  <2>2. p \in UnadoptPR => (Busy(p)' => Busy(p))
    BY <1>1, UnadoptLookEffect, <1>2, UnadoptLookView, <1>3, <1>4, <1>5, Sorts, KeySorts, FinStays DEF Busy, Running, FinSame, Same, ViewSame, MarksSame, OwnerSame
  <2> QED BY <2>1, <2>2, Sorts, UnadoptLookEffect
<1>7. JoinInGit'
  <2>1. ASSUME NEW q \in Join, q # p PROVE JoinInGitAt(q)'
    <3>1. Same(q) /\ q \in PR /\ JoinInGitAt(q) /\ RequestAt(q) /\ FinAt(q) /\ EntryAt(q) /\ UnopenedAt(q)
      BY <2>1, UnadoptLookEffect, JoinAt, FitsAt, Sorts DEF Others
    <3> QED BY <2>1, <3>1, <1>1, UnadoptLookEffect, <1>2, UnadoptLookView, <1>3, <1>4, <1>5, Sorts, KeySorts, FinStays DEF JoinInGitAt, JoinBusy, Running, FinAt, Finished, FinSame, Same, ViewSame, MarksSame, OwnerSame
  <2> QED BY <2>1, UnadoptLookEffect, Sorts DEF JoinInGit
<1>8. JoinMarked'
  <2>1. ASSUME NEW q \in Join, q # p PROVE JoinMarkedAt(q)'
    <3>1. Same(q) /\ q \in PR /\ JoinMarkedAt(q) /\ RequestAt(q) /\ FinAt(q) /\ EntryAt(q) /\ UnopenedAt(q)
      BY <2>1, UnadoptLookEffect, JoinAt, FitsAt, Sorts DEF Others
    <3> QED BY <2>1, <3>1, <1>1, UnadoptLookEffect, <1>2, UnadoptLookView, <1>3, <1>4, <1>5, Sorts, KeySorts, FinStays DEF JoinMarkedAt, RequestAt, BeforeOpen, UnopenedAt, FinSame, Same, ViewSame, MarksSame, OwnerSame
  <2> QED BY <2>1, UnadoptLookEffect, Sorts DEF JoinMarked
<1>9. JoinSwapped'
  <2>1. ASSUME NEW q \in Join, q # p PROVE JoinSwappedAt(q)'
    <3>1. Same(q) /\ q \in PR /\ JoinSwappedAt(q) /\ RequestAt(q) /\ FinAt(q) /\ EntryAt(q) /\ UnopenedAt(q)
      BY <2>1, UnadoptLookEffect, JoinAt, FitsAt, Sorts DEF Others
    <3> QED BY <2>1, <3>1, <1>1, UnadoptLookEffect, <1>2, UnadoptLookView, <1>3, <1>4, <1>5, Sorts, KeySorts, FinStays DEF JoinSwappedAt, JoinInGitAt, JoinBusy, FinAt, Finished, FinSame, Same, ViewSame, MarksSame, OwnerSame
  <2> QED BY <2>1, UnadoptLookEffect, Sorts DEF JoinSwapped
<1>10. JoinOwed'
  <2>1. inGit' /\ ~Ours' => inGit /\ ~Ours
    BY <1>1, UnadoptLookEffect, <1>2, UnadoptLookView, <1>3, <1>4, <1>5 DEF JoinOwes, JoinDue, JoinSwappedAt, JoinMarkedAt, FinAt, Finished, EntryAt, UnopenedAt, FinSame, Same, ViewSame, MarksSame, OwnerSame
  <2>2. ASSUME NEW q \in Join, inGit' /\ ~Ours', JoinOwes(q) PROVE JoinOwes(q)'
    <3>1. q \in PR /\ RequestAt(q) /\ FinAt(q) /\ EntryAt(q) /\ JoinInGitAt(q) /\ JoinMarkedAt(q) /\ JoinSwappedAt(q)
      BY JoinAt, FitsAt, Sorts
    <3>2. CASE q # p
      <4>1. Same(q)
        BY <3>1, <3>2, UnadoptLookEffect DEF Others
      <4> QED BY <2>2, <3>1, <4>1, <3>2, <1>1, UnadoptLookEffect, <1>2, UnadoptLookView, <1>3, <1>4, <1>5, Sorts, KeySorts, FinStays DEF JoinOwes, JoinDue, JoinSwappedAt, JoinMarkedAt, FinAt, Finished, EntryAt, UnopenedAt, FinSame, Same, ViewSame, MarksSame, OwnerSame
    <3> QED BY <3>2, UnadoptLookEffect, Sorts
  <2> QED BY <2>1, <2>2, JoinOwedKept DEF Owned
<1>11. OneBusy'
  BY <1>6, OneBusyKept DEF Owned
<1>12. PendingFit'
  BY <1>1, UnadoptLookEffect, <1>2, UnadoptLookView, <1>3, <1>4, <1>5, Sorts, KeySorts, FinStays DEF Owned, Fits, PendingFit, Running, RequestsFit, RequestAt, MarksFit, Nothing, FinSame, Same, ViewSame, MarksSame, OwnerSame, Others
<1>13. UnadoptInGit'
  <2>1. ASSUME NEW q \in UnadoptPR, q # p PROVE UnadoptInGitAt(q)'
    <3>1. Same(q) /\ q \in PR /\ UnadoptInGitAt(q) /\ RequestAt(q) /\ FinAt(q) /\ EntryAt(q) /\ UnopenedAt(q)
      BY <2>1, UnadoptLookEffect, UnadoptAt, FitsAt, Sorts DEF Others
    <3> QED BY <2>1, <3>1, <1>1, UnadoptLookEffect, <1>2, UnadoptLookView, <1>3, <1>4, <1>5, Sorts, KeySorts, FinStays DEF UnadoptInGitAt, Busy, Running, RequestAt, BeforeOpen, FinAt, Finished, FinSame, Same
  <2>2. p \in UnadoptPR => UnadoptInGitAt(p)'
    BY <1>1, UnadoptLookEffect, <1>2, UnadoptLookView, <1>3, <1>4, <1>5, Sorts, KeySorts, FinStays, UnadoptAt, JoinAt DEF UnadoptInGitAt, Busy, Running, RequestAt, BeforeOpen, FinAt, Finished, FinSame, Same
  <2> QED BY <2>1, <2>2 DEF UnadoptInGit
<1>14. UnadoptKnown'
  BY <1>1, UnadoptLookEffect, <1>2, UnadoptLookView, <1>3, <1>4, <1>5, Sorts, KeySorts, FinStays DEF Owned, Fits, UnadoptKnown, Busy, Running, PendingFit, RequestAt, BeforeOpen, FinAt, Finished, FinSame, Same, ViewSame, MarksSame, OwnerSame, Others
<1>15. UnadoptMarked'
  <2>1. ASSUME NEW q \in UnadoptPR, q # p PROVE UnadoptMarkedAt(q)'
    <3>1. Same(q) /\ q \in PR /\ UnadoptMarkedAt(q) /\ RequestAt(q) /\ FinAt(q) /\ EntryAt(q) /\ UnopenedAt(q)
      BY <2>1, UnadoptLookEffect, UnadoptAt, FitsAt, Sorts DEF Others
    <3> QED BY <2>1, <3>1, <1>1, UnadoptLookEffect, <1>2, UnadoptLookView, <1>3, <1>4, <1>5, Sorts, KeySorts, FinStays DEF UnadoptMarkedAt, UnadoptKnown, KeptFor, Busy, Running, RequestAt, BeforeOpen, FinAt, Finished, FinSame, Same, ViewSame, MarksSame, OwnerSame
  <2>2. p \in UnadoptPR => UnadoptMarkedAt(p)'
    <3>1. git'[p] = "none" /\ (Spent => Spent')
      BY <1>1, UnadoptLookEffect, <1>2, UnadoptLookView, <1>3, <1>4, <1>5 DEF RequestAt, BeforeOpen
    <3>2. Ours \/ Spent
      BY <1>1, UnadoptLookEffect, <1>2, UnadoptLookView, <1>3, <1>4, <1>5 DEF Owned, UnadoptKnown
    <3>3. req'[p] = "open" => ~Ours
      BY <1>1, UnadoptLookEffect, <1>2, UnadoptLookView, <1>3, <1>4, <1>5, UnadoptLookView
    <3> QED BY <3>1, <3>2, <3>3 DEF UnadoptMarkedAt
  <2> QED BY <2>1, <2>2 DEF UnadoptMarked
<1>16. UnadoptOwed'
  <2>1. ~inGit' /\ Ours' => ~inGit /\ Ours
    BY <1>1, UnadoptLookEffect, <1>2, UnadoptLookView, <1>3, <1>4, <1>5 DEF UnadoptOwes, UnadoptDue, KeptFor, UnadoptStrippedAt, UnadoptMarkedAt, Busy, Running, RequestAt, BeforeOpen, FinAt, Finished, EntryAt, FinSame, Same, ViewSame, MarksSame, OwnerSame
  <2>2. ASSUME NEW q \in UnadoptPR, ~inGit' /\ Ours', UnadoptOwes(q) PROVE UnadoptOwes(q)'
    <3>1. q \in PR /\ RequestAt(q) /\ FinAt(q) /\ EntryAt(q) /\ UnadoptInGitAt(q) /\ UnadoptMarkedAt(q) /\ UnadoptStrippedAt(q)
      BY UnadoptAt, FitsAt, Sorts
    <3>2. CASE q # p
      <4>1. Same(q)
        BY <3>1, <3>2, UnadoptLookEffect DEF Others
      <4> QED BY <2>2, <3>1, <4>1, <3>2, <1>1, UnadoptLookEffect, <1>2, UnadoptLookView, <1>3, <1>4, <1>5, Sorts, KeySorts, FinStays, <1>6 DEF UnadoptOwes, UnadoptDue, KeptFor, UnadoptStrippedAt, UnadoptMarkedAt, Busy, Running, RequestAt, BeforeOpen, FinAt, Finished, EntryAt, FinSame, Same, ViewSame, MarksSame, OwnerSame
    <3>3. CASE q = p
      BY <2>2, <3>1, <3>3, <1>1, UnadoptLookEffect, <1>2, UnadoptLookView, <1>3, <1>4, <1>5, Sorts, KeySorts, FinStays, <1>6 DEF UnadoptOwes, UnadoptDue, KeptFor, UnadoptStrippedAt, UnadoptMarkedAt, Busy, Running, RequestAt, BeforeOpen, FinAt, Finished, EntryAt, FinSame, Same, ViewSame, MarksSame, OwnerSame
    <3> QED BY <3>2, <3>3
  <2> QED BY <2>1, <2>2, UnadoptOwedKept DEF Owned
<1>17. PassInGit' /\ UnadoptStripped'
  BY <1>1, UnadoptLookEffect, <1>2, UnadoptLookView, <1>3, <1>4, <1>5, PassInGitFrame, UnadoptStrippedFrame DEF Owned
<1> QED BY <1>7, <1>8, <1>9, <1>10, <1>11, <1>12, <1>13, <1>14, <1>15, <1>16, <1>17 DEF Owned

LEMMA UnadoptSetMarkOwned ==
    ASSUME Fits, Fits', Owned, Exists, Exists', ~crossed', MaxFailures <= 1, NEW p \in PR, UnadoptSetMark(p)
    PROVE  Owned'
<1>1. (Failure => ~Spent /\ Spent') /\ (NoFailure => (Spent' <=> Spent))
  BY SpentStep
<1>2. p \in PR /\ RequestAt(p) /\ FinAt(p) /\ EntryAt(p) /\ UnopenedAt(p)
  BY UnadoptSetMarkEffect, Sorts, FitsAt
<1>3. UnadoptInGitAt(p) /\ UnadoptMarkedAt(p) /\ UnadoptStrippedAt(p)
  BY UnadoptSetMarkEffect, UnadoptAt
<1>4. Busy(p) /\ \A v \in UnadoptPR : v # p => ~Busy(v)
  BY UnadoptSetMarkEffect, UnadoptAt DEF Busy, Running
<1>5. \A v \in UnadoptPR : Busy(v)' => Busy(v)
  <2>1. ASSUME NEW v \in UnadoptPR, v # p PROVE Busy(v)' => Busy(v)
    <3>1. v \in PR /\ Same(v)
      BY <2>1, UnadoptSetMarkEffect, Sorts DEF Others
    <3> QED BY <2>1, <3>1, <1>1, UnadoptSetMarkEffect, UnadoptSetMarkView, <1>2, <1>3, <1>4, Sorts, KeySorts DEF Busy, Running, FinSame, Same, ViewSame, KeepMarkPut, MarksSame, OwnerSame, Same, FinSame
  <2>2. p \in UnadoptPR => (Busy(p)' => Busy(p))
    BY <1>1, UnadoptSetMarkEffect, UnadoptSetMarkView, <1>2, <1>3, <1>4, Sorts, KeySorts, FinStays DEF Busy, Running, FinSame, Same, ViewSame, KeepMarkPut, MarksSame, OwnerSame
  <2> QED BY <2>1, <2>2, Sorts, UnadoptSetMarkEffect
<1>6. JoinInGit'
  <2>1. ASSUME NEW q \in Join, q # p PROVE JoinInGitAt(q)'
    <3>1. Same(q) /\ q \in PR /\ JoinInGitAt(q) /\ RequestAt(q) /\ FinAt(q) /\ EntryAt(q) /\ UnopenedAt(q)
      BY <2>1, UnadoptSetMarkEffect, JoinAt, FitsAt, Sorts DEF Others
    <3> QED BY <2>1, <3>1, <1>1, UnadoptSetMarkEffect, UnadoptSetMarkView, <1>2, <1>3, <1>4, Sorts, KeySorts, FinStays DEF JoinInGitAt, JoinBusy, Running, FinAt, Finished, FinSame, Same, ViewSame, KeepMarkPut, MarksSame, OwnerSame
  <2> QED BY <2>1, UnadoptSetMarkEffect, Sorts DEF JoinInGit
<1>7. JoinMarked'
  <2>1. ASSUME NEW q \in Join, q # p PROVE JoinMarkedAt(q)'
    <3>1. Same(q) /\ q \in PR /\ JoinMarkedAt(q) /\ RequestAt(q) /\ FinAt(q) /\ EntryAt(q) /\ UnopenedAt(q)
      BY <2>1, UnadoptSetMarkEffect, JoinAt, FitsAt, Sorts DEF Others
    <3> QED BY <2>1, <3>1, <1>1, UnadoptSetMarkEffect, UnadoptSetMarkView, <1>2, <1>3, <1>4, Sorts, KeySorts, FinStays DEF JoinMarkedAt, RequestAt, BeforeOpen, UnopenedAt, FinSame, Same, ViewSame, KeepMarkPut, MarksSame, OwnerSame
  <2> QED BY <2>1, UnadoptSetMarkEffect, Sorts DEF JoinMarked
<1>8. JoinSwapped'
  <2>1. ASSUME NEW q \in Join, q # p PROVE JoinSwappedAt(q)'
    <3>1. Same(q) /\ q \in PR /\ JoinSwappedAt(q) /\ RequestAt(q) /\ FinAt(q) /\ EntryAt(q) /\ UnopenedAt(q)
      BY <2>1, UnadoptSetMarkEffect, JoinAt, FitsAt, Sorts DEF Others
    <3> QED BY <2>1, <3>1, <1>1, UnadoptSetMarkEffect, UnadoptSetMarkView, <1>2, <1>3, <1>4, Sorts, KeySorts, FinStays DEF JoinSwappedAt, JoinInGitAt, JoinBusy, FinAt, Finished, FinSame, Same, ViewSame, KeepMarkPut, MarksSame, OwnerSame
  <2> QED BY <2>1, UnadoptSetMarkEffect, Sorts DEF JoinSwapped
<1>9. JoinOwed'
  <2>1. inGit' /\ ~Ours' => inGit /\ ~Ours
    BY <1>1, UnadoptSetMarkEffect, UnadoptSetMarkView, <1>2, <1>3, <1>4 DEF JoinOwes, JoinDue, JoinSwappedAt, JoinMarkedAt, FinAt, Finished, EntryAt, UnopenedAt, FinSame, Same, ViewSame, KeepMarkPut, MarksSame, OwnerSame
  <2>2. ASSUME NEW q \in Join, inGit' /\ ~Ours', JoinOwes(q) PROVE JoinOwes(q)'
    <3>1. q \in PR /\ RequestAt(q) /\ FinAt(q) /\ EntryAt(q) /\ JoinInGitAt(q) /\ JoinMarkedAt(q) /\ JoinSwappedAt(q)
      BY JoinAt, FitsAt, Sorts
    <3>2. CASE q # p
      <4>1. Same(q)
        BY <3>1, <3>2, UnadoptSetMarkEffect DEF Others
      <4> QED BY <2>2, <3>1, <4>1, <3>2, <1>1, UnadoptSetMarkEffect, UnadoptSetMarkView, <1>2, <1>3, <1>4, Sorts, KeySorts, FinStays DEF JoinOwes, JoinDue, JoinSwappedAt, JoinMarkedAt, FinAt, Finished, EntryAt, UnopenedAt, FinSame, Same, ViewSame, KeepMarkPut, MarksSame, OwnerSame
    <3> QED BY <3>2, UnadoptSetMarkEffect, Sorts
  <2> QED BY <2>1, <2>2, JoinOwedKept DEF Owned
<1>10. OneBusy'
  BY <1>5, OneBusyKept DEF Owned
<1>11. PendingFit'
  BY <1>1, UnadoptSetMarkEffect, UnadoptSetMarkView, <1>2, <1>3, <1>4, Sorts, KeySorts, FinStays DEF Owned, Fits, PendingFit, Running, RequestsFit, RequestAt, MarksFit, Nothing, FinSame, Same, ViewSame, KeepMarkPut, MarksSame, OwnerSame, Others
<1>12. UnadoptInGit'
  <2>1. ASSUME NEW q \in UnadoptPR, q # p PROVE UnadoptInGitAt(q)'
    <3>1. Same(q) /\ q \in PR /\ UnadoptInGitAt(q) /\ RequestAt(q) /\ FinAt(q) /\ EntryAt(q) /\ UnopenedAt(q)
      BY <2>1, UnadoptSetMarkEffect, UnadoptAt, FitsAt, Sorts DEF Others
    <3> QED BY <2>1, <3>1, <1>1, UnadoptSetMarkEffect, UnadoptSetMarkView, <1>2, <1>3, <1>4, Sorts, KeySorts, FinStays DEF UnadoptInGitAt, Busy, Running, RequestAt, BeforeOpen, FinAt, Finished, FinSame, Same
  <2>2. p \in UnadoptPR => UnadoptInGitAt(p)'
    BY <1>1, UnadoptSetMarkEffect, UnadoptSetMarkView, <1>2, <1>3, <1>4, Sorts, KeySorts, FinStays, UnadoptAt, JoinAt DEF UnadoptInGitAt, Busy, Running, RequestAt, BeforeOpen, FinAt, Finished, FinSame, Same
  <2> QED BY <2>1, <2>2 DEF UnadoptInGit
<1>13. UnadoptKnown'
  BY <1>1, UnadoptSetMarkEffect, UnadoptSetMarkView, <1>2, <1>3, <1>4, Sorts, KeySorts, FinStays DEF Owned, Fits, UnadoptKnown, Busy, Running, PendingFit, RequestAt, BeforeOpen, FinAt, Finished, FinSame, Same, ViewSame, KeepMarkPut, MarksSame, OwnerSame, Others
<1>14. UnadoptMarked'
  <2>1. ASSUME NEW q \in UnadoptPR, q # p PROVE UnadoptMarkedAt(q)'
    <3>1. Same(q) /\ q \in PR /\ UnadoptMarkedAt(q) /\ RequestAt(q) /\ FinAt(q) /\ EntryAt(q) /\ UnopenedAt(q)
      BY <2>1, UnadoptSetMarkEffect, UnadoptAt, FitsAt, Sorts DEF Others
    <3> QED BY <2>1, <3>1, <1>1, UnadoptSetMarkEffect, UnadoptSetMarkView, <1>2, <1>3, <1>4, Sorts, KeySorts, FinStays DEF UnadoptMarkedAt, UnadoptKnown, KeptFor, Busy, Running, RequestAt, BeforeOpen, FinAt, Finished, FinSame, Same, ViewSame, KeepMarkPut, MarksSame, OwnerSame
  <2>2. p \in UnadoptPR => UnadoptMarkedAt(p)'
    BY <1>1, UnadoptSetMarkEffect, UnadoptSetMarkView, <1>2, <1>3, <1>4, Sorts, KeySorts, FinStays, UnadoptAt, JoinAt DEF UnadoptMarkedAt, UnadoptKnown, KeptFor, Busy, Running, RequestAt, BeforeOpen, FinAt, Finished, FinSame, Same, ViewSame, KeepMarkPut, MarksSame, OwnerSame
  <2> QED BY <2>1, <2>2 DEF UnadoptMarked
<1>15. UnadoptStripped'
  <2>1. ASSUME NEW q \in UnadoptPR, q # p PROVE UnadoptStrippedAt(q)'
    <3>1. Same(q) /\ q \in PR /\ UnadoptStrippedAt(q) /\ RequestAt(q) /\ FinAt(q) /\ EntryAt(q) /\ UnopenedAt(q)
      BY <2>1, UnadoptSetMarkEffect, UnadoptAt, FitsAt, Sorts DEF Others
    <3> QED BY <2>1, <3>1, <1>1, UnadoptSetMarkEffect, UnadoptSetMarkView, <1>2, <1>3, <1>4, Sorts, KeySorts, FinStays DEF UnadoptStrippedAt, JoinInGitAt, JoinBusy, Busy, RequestAt, BeforeOpen, FinAt, Finished, EntryAt, FinSame, Same, ViewSame, KeepMarkPut, MarksSame, OwnerSame
  <2>2. p \in UnadoptPR => UnadoptStrippedAt(p)'
    BY <1>1, UnadoptSetMarkEffect, UnadoptSetMarkView, <1>2, <1>3, <1>4, Sorts, KeySorts, FinStays, UnadoptAt, JoinAt DEF UnadoptStrippedAt, JoinInGitAt, JoinBusy, Busy, RequestAt, BeforeOpen, FinAt, Finished, EntryAt, FinSame, Same, ViewSame, KeepMarkPut, MarksSame, OwnerSame
  <2> QED BY <2>1, <2>2 DEF UnadoptStripped
<1>16. UnadoptOwed'
  <2>1. ~inGit' /\ Ours' => ~inGit /\ Ours
    BY <1>1, UnadoptSetMarkEffect, UnadoptSetMarkView, <1>2, <1>3, <1>4 DEF UnadoptOwes, UnadoptDue, KeptFor, UnadoptStrippedAt, UnadoptMarkedAt, Busy, Running, RequestAt, BeforeOpen, FinAt, Finished, EntryAt, FinSame, Same, ViewSame, KeepMarkPut, MarksSame, OwnerSame
  <2>2. ASSUME NEW q \in UnadoptPR, ~inGit' /\ Ours', UnadoptOwes(q) PROVE UnadoptOwes(q)'
    <3>1. q \in PR /\ RequestAt(q) /\ FinAt(q) /\ EntryAt(q) /\ UnadoptInGitAt(q) /\ UnadoptMarkedAt(q) /\ UnadoptStrippedAt(q)
      BY UnadoptAt, FitsAt, Sorts
    <3>2. CASE q # p
      <4>1. Same(q)
        BY <3>1, <3>2, UnadoptSetMarkEffect DEF Others
      <4> QED BY <2>2, <3>1, <4>1, <3>2, <1>1, UnadoptSetMarkEffect, UnadoptSetMarkView, <1>2, <1>3, <1>4, Sorts, KeySorts, FinStays, <1>5 DEF UnadoptOwes, UnadoptDue, KeptFor, UnadoptStrippedAt, UnadoptMarkedAt, Busy, Running, RequestAt, BeforeOpen, FinAt, Finished, EntryAt, FinSame, Same, ViewSame, KeepMarkPut, MarksSame, OwnerSame
    <3>3. CASE q = p
      BY <2>2, <3>1, <3>3, <1>1, UnadoptSetMarkEffect, UnadoptSetMarkView, <1>2, <1>3, <1>4, Sorts, KeySorts, FinStays, <1>5 DEF UnadoptOwes, UnadoptDue, KeptFor, UnadoptStrippedAt, UnadoptMarkedAt, Busy, Running, RequestAt, BeforeOpen, FinAt, Finished, EntryAt, FinSame, Same, ViewSame, KeepMarkPut, MarksSame, OwnerSame
    <3> QED BY <3>2, <3>3
  <2> QED BY <2>1, <2>2, UnadoptOwedKept DEF Owned
<1>17. PassInGit'
  BY <1>1, UnadoptSetMarkEffect, UnadoptSetMarkView, <1>2, <1>3, <1>4, PassInGitFrame DEF Owned
<1> QED BY <1>6, <1>7, <1>8, <1>9, <1>10, <1>11, <1>12, <1>13, <1>14, <1>15, <1>16, <1>17 DEF Owned

LEMMA UnadoptOpenOwned ==
    ASSUME Fits, Fits', Owned, Exists, Exists', ~crossed', MaxFailures <= 1, NEW p \in PR, UnadoptOpen(p)
    PROVE  Owned'
<1>1. (Failure => ~Spent /\ Spent') /\ (NoFailure => (Spent' <=> Spent))
  BY SpentStep
<1>2. ViewSame
  BY UnadoptOpenEffect, ViewFrame
<1>3. p \in PR /\ RequestAt(p) /\ FinAt(p) /\ EntryAt(p) /\ UnopenedAt(p)
  BY UnadoptOpenEffect, Sorts, FitsAt
<1>4. UnadoptInGitAt(p) /\ UnadoptMarkedAt(p) /\ UnadoptStrippedAt(p)
  BY UnadoptOpenEffect, UnadoptAt
<1>5. Busy(p) /\ \A v \in UnadoptPR : v # p => ~Busy(v)
  BY UnadoptOpenEffect, UnadoptAt DEF Busy, Running
<1>6. \A v \in UnadoptPR : Busy(v)' => Busy(v)
  <2>1. ASSUME NEW v \in UnadoptPR, v # p PROVE Busy(v)' => Busy(v)
    <3>1. v \in PR /\ Same(v)
      BY <2>1, UnadoptOpenEffect, Sorts DEF Others
    <3> QED BY <2>1, <3>1, <1>1, UnadoptOpenEffect, <1>2, <1>3, <1>4, <1>5, Sorts, KeySorts DEF Busy, Running, FinSame, Same, ViewSame, MarksSame, OwnerSame, Same, FinSame
  <2>2. p \in UnadoptPR => (Busy(p)' => Busy(p))
    BY <1>1, UnadoptOpenEffect, <1>2, <1>3, <1>4, <1>5, Sorts, KeySorts, FinStays DEF Busy, Running, FinSame, Same, ViewSame, MarksSame, OwnerSame
  <2> QED BY <2>1, <2>2, Sorts, UnadoptOpenEffect
<1>7. JoinInGit'
  <2>1. ASSUME NEW q \in Join, q # p PROVE JoinInGitAt(q)'
    <3>1. Same(q) /\ q \in PR /\ JoinInGitAt(q) /\ RequestAt(q) /\ FinAt(q) /\ EntryAt(q) /\ UnopenedAt(q)
      BY <2>1, UnadoptOpenEffect, JoinAt, FitsAt, Sorts DEF Others
    <3>2. req[q] = "remark" /\ git'[found[q]] = "merged" => git[found[q]] = "merged"
      <4>1. req[q] = "remark" => found[q] \in Join /\ found[q] \in PR
        BY <3>1, <2>1, Sorts DEF RequestAt
      <4>2. req[q] = "remark" /\ found[q] # p => git'[found[q]] = git[found[q]]
        BY <4>1, <1>1, UnadoptOpenEffect, <1>2, <1>3, <1>4, <1>5 DEF Others, Same
      <4> QED BY <4>1, <4>2, <1>1, UnadoptOpenEffect, <1>2, <1>3, <1>4, <1>5, Sorts
    <3>3. JoinBusy(q)' => JoinBusy(q)
      BY <2>1, <3>1, <1>1, UnadoptOpenEffect, <1>2, <1>3, <1>4, <1>5, Sorts DEF JoinBusy, Running, Same, ViewSame, MarksSame
    <3> QED BY <2>1, <3>1, <3>2, <3>3, <1>1, UnadoptOpenEffect, <1>2, <1>3, <1>4, <1>5 DEF JoinInGitAt, Same
  <2> QED BY <2>1, UnadoptOpenEffect, Sorts DEF JoinInGit
<1>8. JoinMarked'
  <2>1. ASSUME NEW q \in Join, q # p PROVE JoinMarkedAt(q)'
    <3>1. Same(q) /\ q \in PR /\ JoinMarkedAt(q) /\ RequestAt(q) /\ FinAt(q) /\ EntryAt(q) /\ UnopenedAt(q)
      BY <2>1, UnadoptOpenEffect, JoinAt, FitsAt, Sorts DEF Others
    <3> QED BY <2>1, <3>1, <1>1, UnadoptOpenEffect, <1>2, <1>3, <1>4, <1>5, Sorts, KeySorts, FinStays DEF JoinMarkedAt, RequestAt, BeforeOpen, UnopenedAt, FinSame, Same, ViewSame, MarksSame, OwnerSame
  <2> QED BY <2>1, UnadoptOpenEffect, Sorts DEF JoinMarked
<1>9. JoinSwapped'
  <2>1. ASSUME NEW q \in Join, q # p PROVE JoinSwappedAt(q)'
    <3>1. Same(q) /\ q \in PR /\ JoinSwappedAt(q) /\ RequestAt(q) /\ FinAt(q) /\ EntryAt(q) /\ UnopenedAt(q)
      BY <2>1, UnadoptOpenEffect, JoinAt, FitsAt, Sorts DEF Others
    <3> QED BY <2>1, <3>1, <1>1, UnadoptOpenEffect, <1>2, <1>3, <1>4, <1>5, Sorts, KeySorts, FinStays DEF JoinSwappedAt, JoinInGitAt, JoinBusy, FinAt, Finished, FinSame, Same, ViewSame, MarksSame, OwnerSame
  <2> QED BY <2>1, UnadoptOpenEffect, Sorts DEF JoinSwapped
<1>10. JoinOwed'
  <2>1. inGit' /\ ~Ours' => inGit /\ ~Ours
    BY <1>1, UnadoptOpenEffect, <1>2, <1>3, <1>4, <1>5 DEF JoinOwes, JoinDue, JoinSwappedAt, JoinMarkedAt, FinAt, Finished, EntryAt, UnopenedAt, FinSame, Same, ViewSame, MarksSame, OwnerSame
  <2>2. ASSUME NEW q \in Join, inGit' /\ ~Ours', JoinOwes(q) PROVE JoinOwes(q)'
    <3>1. q \in PR /\ RequestAt(q) /\ FinAt(q) /\ EntryAt(q) /\ JoinInGitAt(q) /\ JoinMarkedAt(q) /\ JoinSwappedAt(q)
      BY JoinAt, FitsAt, Sorts
    <3>2. CASE q # p
      <4>1. Same(q)
        BY <3>1, <3>2, UnadoptOpenEffect DEF Others
      <4> QED BY <2>2, <3>1, <4>1, <3>2, <1>1, UnadoptOpenEffect, <1>2, <1>3, <1>4, <1>5, Sorts, KeySorts, FinStays DEF JoinOwes, JoinDue, JoinSwappedAt, JoinMarkedAt, FinAt, Finished, EntryAt, UnopenedAt, FinSame, Same, ViewSame, MarksSame, OwnerSame
    <3> QED BY <3>2, UnadoptOpenEffect, Sorts
  <2> QED BY <2>1, <2>2, JoinOwedKept DEF Owned
<1>11. OneBusy'
  BY <1>6, OneBusyKept DEF Owned
<1>12. PendingFit'
  BY <1>1, UnadoptOpenEffect, <1>2, <1>3, <1>4, <1>5, Sorts, KeySorts, FinStays DEF Owned, Fits, PendingFit, Running, RequestsFit, RequestAt, MarksFit, Nothing, FinSame, Same, ViewSame, MarksSame, OwnerSame, Others
<1>13. UnadoptInGit'
  <2>1. ASSUME NEW q \in UnadoptPR, q # p PROVE UnadoptInGitAt(q)'
    <3>1. Same(q) /\ q \in PR /\ UnadoptInGitAt(q) /\ RequestAt(q) /\ FinAt(q) /\ EntryAt(q) /\ UnopenedAt(q)
      BY <2>1, UnadoptOpenEffect, UnadoptAt, FitsAt, Sorts DEF Others
    <3> QED BY <2>1, <3>1, <1>1, UnadoptOpenEffect, <1>2, <1>3, <1>4, <1>5, Sorts, KeySorts, FinStays DEF UnadoptInGitAt, Busy, Running, RequestAt, BeforeOpen, FinAt, Finished, FinSame, Same
  <2>2. p \in UnadoptPR => UnadoptInGitAt(p)'
    BY <1>1, UnadoptOpenEffect, <1>2, <1>3, <1>4, <1>5, Sorts, KeySorts, FinStays, UnadoptAt, JoinAt DEF UnadoptInGitAt, Busy, Running, RequestAt, BeforeOpen, FinAt, Finished, FinSame, Same
  <2> QED BY <2>1, <2>2 DEF UnadoptInGit
<1>14. UnadoptKnown'
  BY <1>1, UnadoptOpenEffect, <1>2, <1>3, <1>4, <1>5, Sorts, KeySorts, FinStays DEF Owned, Fits, UnadoptKnown, Busy, Running, PendingFit, RequestAt, BeforeOpen, FinAt, Finished, FinSame, Same, ViewSame, MarksSame, OwnerSame, Others
<1>15. UnadoptMarked'
  <2>1. ASSUME NEW q \in UnadoptPR, q # p PROVE UnadoptMarkedAt(q)'
    <3>1. Same(q) /\ q \in PR /\ UnadoptMarkedAt(q) /\ RequestAt(q) /\ FinAt(q) /\ EntryAt(q) /\ UnopenedAt(q)
      BY <2>1, UnadoptOpenEffect, UnadoptAt, FitsAt, Sorts DEF Others
    <3> QED BY <2>1, <3>1, <1>1, UnadoptOpenEffect, <1>2, <1>3, <1>4, <1>5, Sorts, KeySorts, FinStays DEF UnadoptMarkedAt, UnadoptKnown, KeptFor, Busy, Running, RequestAt, BeforeOpen, FinAt, Finished, FinSame, Same, ViewSame, MarksSame, OwnerSame
  <2>2. p \in UnadoptPR => UnadoptMarkedAt(p)'
    <3>1. Key(p) = "keep" /\ listed'[Key(p)] # p
      BY <1>1, UnadoptOpenEffect, <1>2, <1>3, <1>4, <1>5, KeySorts DEF UnopenedAt
    <3>2. KeptFor(p) \/ Spent
      BY <1>1, UnadoptOpenEffect, <1>2, <1>3, <1>4, <1>5 DEF UnadoptMarkedAt
    <3>3. (KeptFor(p) => KeptFor(p)') /\ (Spent => Spent')
      BY <1>1, UnadoptOpenEffect, <1>2, <1>3, <1>4, <1>5 DEF KeptFor, ViewSame, MarksSame
    <3> QED BY <3>1, <3>2, <3>3 DEF UnadoptMarkedAt
  <2> QED BY <2>1, <2>2 DEF UnadoptMarked
<1>16. UnadoptStripped'
  <2>1. ASSUME NEW q \in UnadoptPR, q # p PROVE UnadoptStrippedAt(q)'
    <3>1. Same(q) /\ q \in PR /\ UnadoptStrippedAt(q) /\ RequestAt(q) /\ FinAt(q) /\ EntryAt(q) /\ UnopenedAt(q)
      BY <2>1, UnadoptOpenEffect, UnadoptAt, FitsAt, Sorts DEF Others
    <3> QED BY <2>1, <3>1, <1>1, UnadoptOpenEffect, <1>2, <1>3, <1>4, <1>5, Sorts, KeySorts, FinStays DEF UnadoptStrippedAt, JoinInGitAt, JoinBusy, Busy, RequestAt, BeforeOpen, FinAt, Finished, EntryAt, FinSame, Same, ViewSame, MarksSame, OwnerSame
  <2>2. p \in UnadoptPR => UnadoptStrippedAt(p)'
    BY <1>1, UnadoptOpenEffect, <1>2, <1>3, <1>4, <1>5, Sorts, KeySorts, FinStays, UnadoptAt, JoinAt DEF UnadoptStrippedAt, JoinInGitAt, JoinBusy, Busy, RequestAt, BeforeOpen, FinAt, Finished, EntryAt, FinSame, Same, ViewSame, MarksSame, OwnerSame
  <2> QED BY <2>1, <2>2 DEF UnadoptStripped
<1>17. UnadoptOwed'
  <2>1. ~inGit' /\ Ours' => ~inGit /\ Ours
    BY <1>1, UnadoptOpenEffect, <1>2, <1>3, <1>4, <1>5 DEF UnadoptOwes, UnadoptDue, KeptFor, UnadoptStrippedAt, UnadoptMarkedAt, Busy, Running, RequestAt, BeforeOpen, FinAt, Finished, EntryAt, FinSame, Same, ViewSame, MarksSame, OwnerSame
  <2>2. ASSUME NEW q \in UnadoptPR, ~inGit' /\ Ours', UnadoptOwes(q) PROVE UnadoptOwes(q)'
    <3>1. q \in PR /\ RequestAt(q) /\ FinAt(q) /\ EntryAt(q) /\ UnadoptInGitAt(q) /\ UnadoptMarkedAt(q) /\ UnadoptStrippedAt(q)
      BY UnadoptAt, FitsAt, Sorts
    <3>2. CASE q # p
      <4>1. Same(q)
        BY <3>1, <3>2, UnadoptOpenEffect DEF Others
      <4> QED BY <2>2, <3>1, <4>1, <3>2, <1>1, UnadoptOpenEffect, <1>2, <1>3, <1>4, <1>5, Sorts, KeySorts, FinStays, <1>6 DEF UnadoptOwes, UnadoptDue, KeptFor, UnadoptStrippedAt, UnadoptMarkedAt, Busy, Running, RequestAt, BeforeOpen, FinAt, Finished, EntryAt, FinSame, Same, ViewSame, MarksSame, OwnerSame
    <3>3. CASE q = p
      BY <2>2, <3>1, <3>3, <1>1, UnadoptOpenEffect, <1>2, <1>3, <1>4, <1>5, Sorts, KeySorts, FinStays, <1>6 DEF UnadoptOwes, UnadoptDue, KeptFor, UnadoptStrippedAt, UnadoptMarkedAt, Busy, Running, RequestAt, BeforeOpen, FinAt, Finished, EntryAt, FinSame, Same, ViewSame, MarksSame, OwnerSame
    <3> QED BY <3>2, <3>3
  <2> QED BY <2>1, <2>2, UnadoptOwedKept DEF Owned
<1>18. PassInGit'
  BY <1>1, UnadoptOpenEffect, <1>2, <1>3, <1>4, <1>5, PassInGitFrame DEF Owned
<1> QED BY <1>7, <1>8, <1>9, <1>10, <1>11, <1>12, <1>13, <1>14, <1>15, <1>16, <1>17, <1>18 DEF Owned

LEMMA UnadoptTrackOwned ==
    ASSUME Fits, Fits', Owned, Exists, Exists', ~crossed', MaxFailures <= 1, NEW p \in PR, UnadoptTrack(p)
    PROVE  Owned'
<1>1. (Failure => ~Spent /\ Spent') /\ (NoFailure => (Spent' <=> Spent))
  BY SpentStep
<1>2. ViewSame
  BY UnadoptTrackEffect, ViewFrame
<1>3. p \in PR /\ RequestAt(p) /\ FinAt(p) /\ EntryAt(p) /\ UnopenedAt(p)
  BY UnadoptTrackEffect, Sorts, FitsAt
<1>4. UnadoptInGitAt(p) /\ UnadoptMarkedAt(p) /\ UnadoptStrippedAt(p)
  BY UnadoptTrackEffect, UnadoptAt
<1>5. Busy(p) /\ \A v \in UnadoptPR : v # p => ~Busy(v)
  BY UnadoptTrackEffect, UnadoptAt DEF Busy, Running
<1>6. \A v \in UnadoptPR : Busy(v)' => Busy(v)
  <2>1. ASSUME NEW v \in UnadoptPR, v # p PROVE Busy(v)' => Busy(v)
    <3>1. v \in PR /\ Same(v)
      BY <2>1, UnadoptTrackEffect, Sorts DEF Others
    <3> QED BY <2>1, <3>1, <1>1, UnadoptTrackEffect, <1>2, <1>3, <1>4, <1>5, Sorts, KeySorts DEF Busy, Running, Recorded, FinSame, Same, ViewSame, MarksSame, OwnerSame, Same, FinSame
  <2>2. p \in UnadoptPR => (Busy(p)' => Busy(p))
    BY <1>1, UnadoptTrackEffect, <1>2, <1>3, <1>4, <1>5, Sorts, KeySorts, FinStays DEF Busy, Running, Recorded, FinSame, Same, ViewSame, MarksSame, OwnerSame
  <2> QED BY <2>1, <2>2, Sorts, UnadoptTrackEffect
<1>7. JoinInGit'
  <2>1. ASSUME NEW q \in Join, q # p PROVE JoinInGitAt(q)'
    <3>1. Same(q) /\ q \in PR /\ JoinInGitAt(q) /\ RequestAt(q) /\ FinAt(q) /\ EntryAt(q) /\ UnopenedAt(q)
      BY <2>1, UnadoptTrackEffect, JoinAt, FitsAt, Sorts DEF Others
    <3> QED BY <2>1, <3>1, <1>1, UnadoptTrackEffect, <1>2, <1>3, <1>4, <1>5, Sorts, KeySorts, FinStays DEF JoinInGitAt, JoinBusy, Running, FinAt, Finished, Recorded, FinSame, Same, ViewSame, MarksSame, OwnerSame
  <2> QED BY <2>1, UnadoptTrackEffect, Sorts DEF JoinInGit
<1>8. JoinMarked'
  <2>1. ASSUME NEW q \in Join, q # p PROVE JoinMarkedAt(q)'
    <3>1. Same(q) /\ q \in PR /\ JoinMarkedAt(q) /\ RequestAt(q) /\ FinAt(q) /\ EntryAt(q) /\ UnopenedAt(q)
      BY <2>1, UnadoptTrackEffect, JoinAt, FitsAt, Sorts DEF Others
    <3> QED BY <2>1, <3>1, <1>1, UnadoptTrackEffect, <1>2, <1>3, <1>4, <1>5, Sorts, KeySorts, FinStays DEF JoinMarkedAt, RequestAt, BeforeOpen, UnopenedAt, Recorded, FinSame, Same, ViewSame, MarksSame, OwnerSame
  <2> QED BY <2>1, UnadoptTrackEffect, Sorts DEF JoinMarked
<1>9. JoinSwapped'
  <2>1. ASSUME NEW q \in Join, q # p PROVE JoinSwappedAt(q)'
    <3>1. Same(q) /\ q \in PR /\ JoinSwappedAt(q) /\ RequestAt(q) /\ FinAt(q) /\ EntryAt(q) /\ UnopenedAt(q)
      BY <2>1, UnadoptTrackEffect, JoinAt, FitsAt, Sorts DEF Others
    <3> QED BY <2>1, <3>1, <1>1, UnadoptTrackEffect, <1>2, <1>3, <1>4, <1>5, Sorts, KeySorts, FinStays DEF JoinSwappedAt, JoinInGitAt, JoinBusy, FinAt, Finished, FinSame, Same, ViewSame, MarksSame, OwnerSame
  <2> QED BY <2>1, UnadoptTrackEffect, Sorts DEF JoinSwapped
<1>10. JoinOwed'
  <2>1. inGit' /\ ~Ours' => inGit /\ ~Ours
    BY <1>1, UnadoptTrackEffect, <1>2, <1>3, <1>4, <1>5 DEF JoinOwes, JoinDue, JoinSwappedAt, JoinMarkedAt, FinAt, Finished, EntryAt, UnopenedAt, Recorded, FinSame, Same, ViewSame, MarksSame, OwnerSame
  <2>2. ASSUME NEW q \in Join, inGit' /\ ~Ours', JoinOwes(q) PROVE JoinOwes(q)'
    <3>1. q \in PR /\ RequestAt(q) /\ FinAt(q) /\ EntryAt(q) /\ JoinInGitAt(q) /\ JoinMarkedAt(q) /\ JoinSwappedAt(q)
      BY JoinAt, FitsAt, Sorts
    <3>2. CASE q # p
      <4>1. Same(q)
        BY <3>1, <3>2, UnadoptTrackEffect DEF Others
      <4> QED BY <2>2, <3>1, <4>1, <3>2, <1>1, UnadoptTrackEffect, <1>2, <1>3, <1>4, <1>5, Sorts, KeySorts, FinStays DEF JoinOwes, JoinDue, JoinSwappedAt, JoinMarkedAt, FinAt, Finished, EntryAt, UnopenedAt, Recorded, FinSame, Same, ViewSame, MarksSame, OwnerSame
    <3> QED BY <3>2, UnadoptTrackEffect, Sorts
  <2> QED BY <2>1, <2>2, JoinOwedKept DEF Owned
<1>11. OneBusy'
  BY <1>6, OneBusyKept DEF Owned
<1>12. PendingFit'
  BY <1>1, UnadoptTrackEffect, <1>2, <1>3, <1>4, <1>5, Sorts, KeySorts, FinStays DEF Owned, Fits, PendingFit, Running, RequestsFit, RequestAt, MarksFit, Nothing, FinSame, Same, ViewSame, MarksSame, OwnerSame, Others
<1>13. UnadoptInGit'
  <2>1. ASSUME NEW q \in UnadoptPR, q # p PROVE UnadoptInGitAt(q)'
    <3>1. Same(q) /\ q \in PR /\ UnadoptInGitAt(q) /\ RequestAt(q) /\ FinAt(q) /\ EntryAt(q) /\ UnopenedAt(q)
      BY <2>1, UnadoptTrackEffect, UnadoptAt, FitsAt, Sorts DEF Others
    <3> QED BY <2>1, <3>1, <1>1, UnadoptTrackEffect, <1>2, <1>3, <1>4, <1>5, Sorts, KeySorts, FinStays DEF UnadoptInGitAt, Busy, Running, RequestAt, BeforeOpen, FinAt, Finished, FinSame, Same
  <2>2. p \in UnadoptPR => UnadoptInGitAt(p)'
    BY <1>1, UnadoptTrackEffect, <1>2, <1>3, <1>4, <1>5, Sorts, KeySorts, FinStays, UnadoptAt, JoinAt DEF UnadoptInGitAt, Busy, Running, RequestAt, BeforeOpen, FinAt, Finished, FinSame, Same
  <2> QED BY <2>1, <2>2 DEF UnadoptInGit
<1>14. UnadoptKnown'
  BY <1>1, UnadoptTrackEffect, <1>2, <1>3, <1>4, <1>5, Sorts, KeySorts, FinStays DEF Owned, Fits, UnadoptKnown, Busy, Running, PendingFit, RequestAt, BeforeOpen, FinAt, Finished, FinSame, Same, ViewSame, MarksSame, OwnerSame, Others
<1>15. UnadoptMarked'
  <2>1. ASSUME NEW q \in UnadoptPR, q # p PROVE UnadoptMarkedAt(q)'
    <3>1. Same(q) /\ q \in PR /\ UnadoptMarkedAt(q) /\ RequestAt(q) /\ FinAt(q) /\ EntryAt(q) /\ UnopenedAt(q)
      BY <2>1, UnadoptTrackEffect, UnadoptAt, FitsAt, Sorts DEF Others
    <3> QED BY <2>1, <3>1, <1>1, UnadoptTrackEffect, <1>2, <1>3, <1>4, <1>5, Sorts, KeySorts, FinStays DEF UnadoptMarkedAt, UnadoptKnown, KeptFor, Busy, Running, RequestAt, BeforeOpen, FinAt, Finished, FinSame, Same, ViewSame, MarksSame, OwnerSame
  <2>2. p \in UnadoptPR => UnadoptMarkedAt(p)'
    BY <1>1, UnadoptTrackEffect, <1>2, <1>3, <1>4, <1>5, Sorts, KeySorts, FinStays, UnadoptAt, JoinAt DEF UnadoptMarkedAt, UnadoptKnown, KeptFor, Busy, Running, RequestAt, BeforeOpen, FinAt, Finished, FinSame, Same, ViewSame, MarksSame, OwnerSame
  <2> QED BY <2>1, <2>2 DEF UnadoptMarked
<1>16. UnadoptOwed'
  <2>1. ~inGit' /\ Ours' => ~inGit /\ Ours
    BY <1>1, UnadoptTrackEffect, <1>2, <1>3, <1>4, <1>5 DEF UnadoptOwes, UnadoptDue, KeptFor, UnadoptStrippedAt, UnadoptMarkedAt, Busy, Running, RequestAt, BeforeOpen, FinAt, Finished, EntryAt, Recorded, FinSame, Same, ViewSame, MarksSame, OwnerSame
  <2>2. ASSUME NEW q \in UnadoptPR, ~inGit' /\ Ours', UnadoptOwes(q) PROVE UnadoptOwes(q)'
    <3>1. q \in PR /\ RequestAt(q) /\ FinAt(q) /\ EntryAt(q) /\ UnadoptInGitAt(q) /\ UnadoptMarkedAt(q) /\ UnadoptStrippedAt(q)
      BY UnadoptAt, FitsAt, Sorts
    <3>2. CASE q # p
      <4>1. Same(q)
        BY <3>1, <3>2, UnadoptTrackEffect DEF Others
      <4> QED BY <2>2, <3>1, <4>1, <3>2, <1>1, UnadoptTrackEffect, <1>2, <1>3, <1>4, <1>5, Sorts, KeySorts, FinStays, <1>6 DEF UnadoptOwes, UnadoptDue, KeptFor, UnadoptStrippedAt, UnadoptMarkedAt, Busy, Running, RequestAt, BeforeOpen, FinAt, Finished, EntryAt, Recorded, FinSame, Same, ViewSame, MarksSame, OwnerSame
    <3>3. CASE q = p
      BY <2>2, <3>1, <3>3, <1>1, UnadoptTrackEffect, <1>2, <1>3, <1>4, <1>5, Sorts, KeySorts, FinStays, <1>6 DEF UnadoptOwes, UnadoptDue, KeptFor, UnadoptStrippedAt, UnadoptMarkedAt, Busy, Running, RequestAt, BeforeOpen, FinAt, Finished, EntryAt, Recorded, FinSame, Same, ViewSame, MarksSame, OwnerSame
    <3> QED BY <3>2, <3>3
  <2> QED BY <2>1, <2>2, UnadoptOwedKept DEF Owned
<1>17. PassInGit' /\ UnadoptStripped'
  BY <1>1, UnadoptTrackEffect, <1>2, <1>3, <1>4, <1>5, PassInGitFrame, UnadoptStrippedFrame DEF Owned
<1> QED BY <1>7, <1>8, <1>9, <1>10, <1>11, <1>12, <1>13, <1>14, <1>15, <1>16, <1>17 DEF Owned

LEMMA UnadoptNumberOwned ==
    ASSUME Fits, Fits', Owned, Exists, Exists', ~crossed', MaxFailures <= 1, NEW p \in PR, UnadoptNumber(p)
    PROVE  Owned'
<1>1. (Failure => ~Spent /\ Spent') /\ (NoFailure => (Spent' <=> Spent))
  BY SpentStep
<1>2. p \in PR /\ RequestAt(p) /\ FinAt(p) /\ EntryAt(p) /\ UnopenedAt(p)
  BY UnadoptNumberEffect, Sorts, FitsAt
<1>3. UnadoptInGitAt(p) /\ UnadoptMarkedAt(p) /\ UnadoptStrippedAt(p)
  BY UnadoptNumberEffect, UnadoptAt
<1>4. Busy(p) /\ \A v \in UnadoptPR : v # p => ~Busy(v)
  BY UnadoptNumberEffect, UnadoptAt DEF Busy, Running
<1>5. \A v \in UnadoptPR : Busy(v)' => Busy(v)
  <2>1. ASSUME NEW v \in UnadoptPR, v # p PROVE Busy(v)' => Busy(v)
    <3>1. v \in PR /\ Same(v)
      BY <2>1, UnadoptNumberEffect, Sorts DEF Others
    <3> QED BY <2>1, <3>1, <1>1, UnadoptNumberEffect, UnadoptNumberView, <1>2, <1>3, <1>4, Sorts, KeySorts DEF Busy, Running, RequestSet, FinSame, Same, ViewSame, KeepMarkPut, MarksSame, OwnerSame, Same, FinSame
  <2>2. p \in UnadoptPR => (Busy(p)' => Busy(p))
    BY <1>1, UnadoptNumberEffect, UnadoptNumberView, <1>2, <1>3, <1>4, Sorts, KeySorts DEF Busy, Running, RequestSet, FinSame, Same, ViewSame, KeepMarkPut, MarksSame, OwnerSame
  <2> QED BY <2>1, <2>2, Sorts, UnadoptNumberEffect
<1>6. JoinInGit'
  <2>1. ASSUME NEW q \in Join, q # p PROVE JoinInGitAt(q)'
    <3>1. Same(q) /\ q \in PR /\ JoinInGitAt(q) /\ RequestAt(q) /\ FinAt(q) /\ EntryAt(q) /\ UnopenedAt(q)
      BY <2>1, UnadoptNumberEffect, JoinAt, FitsAt, Sorts DEF Others
    <3> QED BY <2>1, <3>1, <1>1, UnadoptNumberEffect, UnadoptNumberView, <1>2, <1>3, <1>4, Sorts, KeySorts DEF JoinInGitAt, JoinBusy, Running, FinAt, Finished, FinSame, Same, ViewSame, KeepMarkPut, MarksSame, OwnerSame
  <2> QED BY <2>1, UnadoptNumberEffect, Sorts DEF JoinInGit
<1>7. JoinMarked'
  <2>1. ASSUME NEW q \in Join, q # p PROVE JoinMarkedAt(q)'
    <3>1. Same(q) /\ q \in PR /\ JoinMarkedAt(q) /\ RequestAt(q) /\ FinAt(q) /\ EntryAt(q) /\ UnopenedAt(q)
      BY <2>1, UnadoptNumberEffect, JoinAt, FitsAt, Sorts DEF Others
    <3> QED BY <2>1, <3>1, <1>1, UnadoptNumberEffect, UnadoptNumberView, <1>2, <1>3, <1>4, Sorts, KeySorts DEF JoinMarkedAt, RequestAt, BeforeOpen, UnopenedAt, FinSame, Same, ViewSame, KeepMarkPut, MarksSame, OwnerSame
  <2> QED BY <2>1, UnadoptNumberEffect, Sorts DEF JoinMarked
<1>8. JoinSwapped'
  <2>1. ASSUME NEW q \in Join, q # p PROVE JoinSwappedAt(q)'
    <3>1. Same(q) /\ q \in PR /\ JoinSwappedAt(q) /\ RequestAt(q) /\ FinAt(q) /\ EntryAt(q) /\ UnopenedAt(q)
      BY <2>1, UnadoptNumberEffect, JoinAt, FitsAt, Sorts DEF Others
    <3> QED BY <2>1, <3>1, <1>1, UnadoptNumberEffect, UnadoptNumberView, <1>2, <1>3, <1>4, Sorts, KeySorts DEF JoinSwappedAt, JoinInGitAt, JoinBusy, FinAt, Finished, RequestSet, FinSame, Same, ViewSame, KeepMarkPut, MarksSame, OwnerSame
  <2> QED BY <2>1, UnadoptNumberEffect, Sorts DEF JoinSwapped
<1>9. JoinOwed'
  <2>1. inGit' /\ ~Ours' => inGit /\ ~Ours
    BY <1>1, UnadoptNumberEffect, UnadoptNumberView, <1>2, <1>3, <1>4 DEF JoinOwes, JoinDue, JoinSwappedAt, JoinMarkedAt, FinAt, Finished, EntryAt, UnopenedAt, RequestSet, FinSame, Same, ViewSame, KeepMarkPut, MarksSame, OwnerSame
  <2>2. ASSUME NEW q \in Join, inGit' /\ ~Ours', JoinOwes(q) PROVE JoinOwes(q)'
    <3>1. q \in PR /\ RequestAt(q) /\ FinAt(q) /\ EntryAt(q) /\ JoinInGitAt(q) /\ JoinMarkedAt(q) /\ JoinSwappedAt(q)
      BY JoinAt, FitsAt, Sorts
    <3>2. CASE q # p
      <4>1. Same(q)
        BY <3>1, <3>2, UnadoptNumberEffect DEF Others
      <4> QED BY <2>2, <3>1, <4>1, <3>2, <1>1, UnadoptNumberEffect, UnadoptNumberView, <1>2, <1>3, <1>4, Sorts, KeySorts DEF JoinOwes, JoinDue, JoinSwappedAt, JoinMarkedAt, FinAt, Finished, EntryAt, UnopenedAt, RequestSet, FinSame, Same, ViewSame, KeepMarkPut, MarksSame, OwnerSame
    <3> QED BY <3>2, UnadoptNumberEffect, Sorts
  <2> QED BY <2>1, <2>2, JoinOwedKept DEF Owned
<1>10. OneBusy'
  BY <1>5, OneBusyKept DEF Owned
<1>11. PendingFit'
  <2>1. KeepMark # OldPending /\ listed["keep"] # OldPending /\ tick \notin {"setNumber", "takeOff", "giveBack"}
    <3>1. Running(p)
      BY <1>1, UnadoptNumberEffect, UnadoptNumberView, <1>2, <1>3, <1>4 DEF Running
    <3> QED BY <3>1, <1>1, UnadoptNumberEffect, UnadoptNumberView, <1>2, <1>3, <1>4 DEF Owned, PendingFit
  <2>2. req'[p] # "idle" /\ KeepMark' # OldPending /\ UNCHANGED <<listed, tick>>
    BY <2>1, <1>1, UnadoptNumberEffect, UnadoptNumberView, <1>2, <1>3, <1>4, Sorts DEF ViewSame, MarksSame, KeepMarkPut
  <2>3. KeepMark' = Pending => Spent' \/ marked' # {}
    <3>1. KeepMark' = Pending => ViewSame /\ KeepMark = Pending /\ (p \notin marked \/ Spent')
      BY <1>1, UnadoptNumberEffect, UnadoptNumberView, <1>2, <1>3, <1>4, UnadoptNumberView, Sorts DEF ViewSame, MarksSame, KeepMarkPut
    <3>2. KeepMark = Pending => Spent \/ marked # {}
      BY DEF Owned, PendingFit
    <3>3. \A q \in marked : q # p => q \in marked'
      BY <1>1, UnadoptNumberEffect, UnadoptNumberView, <1>2, <1>3, <1>4, TypeParts, Sorts DEF Fits, RequestsOK, Others, Same
    <3>4. Spent => Spent'
      BY <1>1, UnadoptNumberEffect, UnadoptNumberView, <1>2, <1>3, <1>4
    <3> QED BY <3>1, <3>2, <3>3, <3>4
  <2> QED BY <2>1, <2>2, <2>3, <1>1, UnadoptNumberEffect, UnadoptNumberView, <1>2, <1>3, <1>4 DEF PendingFit
<1>12. UnadoptInGit'
  <2>1. ASSUME NEW q \in UnadoptPR, q # p PROVE UnadoptInGitAt(q)'
    <3>1. Same(q) /\ q \in PR /\ UnadoptInGitAt(q) /\ RequestAt(q) /\ FinAt(q) /\ EntryAt(q) /\ UnopenedAt(q)
      BY <2>1, UnadoptNumberEffect, UnadoptAt, FitsAt, Sorts DEF Others
    <3> QED BY <2>1, <3>1, <1>1, UnadoptNumberEffect, UnadoptNumberView, <1>2, <1>3, <1>4, Sorts, KeySorts DEF UnadoptInGitAt, Busy, Running, RequestAt, BeforeOpen, FinAt, Finished, RequestSet, FinSame, Same
  <2>2. p \in UnadoptPR => UnadoptInGitAt(p)'
    BY <1>1, UnadoptNumberEffect, UnadoptNumberView, <1>2, <1>3, <1>4, Sorts, KeySorts, UnadoptAt, JoinAt DEF UnadoptInGitAt, Busy, Running, RequestAt, BeforeOpen, FinAt, Finished, RequestSet, FinSame, Same
  <2> QED BY <2>1, <2>2 DEF UnadoptInGit
<1>13. UnadoptKnown'
  BY <1>1, UnadoptNumberEffect, UnadoptNumberView, <1>2, <1>3, <1>4, Sorts, KeySorts DEF Owned, Fits, UnadoptKnown, Busy, Running, PendingFit, RequestAt, BeforeOpen, FinAt, Finished, FinSame, Same, ViewSame, KeepMarkPut, MarksSame, OwnerSame, Others
<1>14. UnadoptMarked'
  <2>1. ASSUME NEW q \in UnadoptPR, q # p PROVE UnadoptMarkedAt(q)'
    <3>1. Same(q) /\ q \in PR /\ UnadoptMarkedAt(q) /\ RequestAt(q) /\ FinAt(q) /\ EntryAt(q) /\ UnopenedAt(q)
      BY <2>1, UnadoptNumberEffect, UnadoptAt, FitsAt, Sorts DEF Others
    <3> QED BY <2>1, <3>1, <1>1, UnadoptNumberEffect, UnadoptNumberView, <1>2, <1>3, <1>4, Sorts, KeySorts DEF UnadoptMarkedAt, UnadoptKnown, KeptFor, Busy, Running, RequestAt, BeforeOpen, FinAt, Finished, FinSame, Same, ViewSame, KeepMarkPut, MarksSame, OwnerSame
  <2>2. p \in UnadoptPR => UnadoptMarkedAt(p)'
    BY <1>1, UnadoptNumberEffect, UnadoptNumberView, <1>2, <1>3, <1>4, Sorts, KeySorts, UnadoptAt, JoinAt DEF UnadoptMarkedAt, UnadoptKnown, KeptFor, Busy, Running, RequestAt, BeforeOpen, FinAt, Finished, FinSame, Same, ViewSame, KeepMarkPut, MarksSame, OwnerSame
  <2> QED BY <2>1, <2>2 DEF UnadoptMarked
<1>15. UnadoptStripped'
  <2>1. ASSUME NEW q \in UnadoptPR, q # p PROVE UnadoptStrippedAt(q)'
    <3>1. Same(q) /\ q \in PR /\ UnadoptStrippedAt(q) /\ RequestAt(q) /\ FinAt(q) /\ EntryAt(q) /\ UnopenedAt(q)
      BY <2>1, UnadoptNumberEffect, UnadoptAt, FitsAt, Sorts DEF Others
    <3> QED BY <2>1, <3>1, <1>1, UnadoptNumberEffect, UnadoptNumberView, <1>2, <1>3, <1>4, Sorts, KeySorts DEF UnadoptStrippedAt, JoinInGitAt, JoinBusy, Busy, RequestAt, BeforeOpen, FinAt, Finished, EntryAt, RequestSet, FinSame, Same, ViewSame, KeepMarkPut, MarksSame, OwnerSame
  <2>2. p \in UnadoptPR => UnadoptStrippedAt(p)'
    BY <1>1, UnadoptNumberEffect, UnadoptNumberView, <1>2, <1>3, <1>4, Sorts, KeySorts, UnadoptAt, JoinAt DEF UnadoptStrippedAt, JoinInGitAt, JoinBusy, Busy, RequestAt, BeforeOpen, FinAt, Finished, EntryAt, RequestSet, FinSame, Same, ViewSame, KeepMarkPut, MarksSame, OwnerSame
  <2> QED BY <2>1, <2>2 DEF UnadoptStripped
<1>16. UnadoptOwed'
  <2>1. ~inGit' /\ Ours' => ~inGit /\ Ours
    BY <1>1, UnadoptNumberEffect, UnadoptNumberView, <1>2, <1>3, <1>4 DEF UnadoptOwes, UnadoptDue, KeptFor, UnadoptStrippedAt, UnadoptMarkedAt, Busy, Running, RequestAt, BeforeOpen, FinAt, Finished, EntryAt, RequestSet, FinSame, Same, ViewSame, KeepMarkPut, MarksSame, OwnerSame
  <2>2. ASSUME NEW q \in UnadoptPR, ~inGit' /\ Ours', UnadoptOwes(q) PROVE UnadoptOwes(q)'
    <3>1. q \in PR /\ RequestAt(q) /\ FinAt(q) /\ EntryAt(q) /\ UnadoptInGitAt(q) /\ UnadoptMarkedAt(q) /\ UnadoptStrippedAt(q)
      BY UnadoptAt, FitsAt, Sorts
    <3>2. CASE q # p
      <4>1. Same(q)
        BY <3>1, <3>2, UnadoptNumberEffect DEF Others
      <4> QED BY <2>2, <3>1, <4>1, <3>2, <1>1, UnadoptNumberEffect, UnadoptNumberView, <1>2, <1>3, <1>4, Sorts, KeySorts, <1>5 DEF UnadoptOwes, UnadoptDue, KeptFor, UnadoptStrippedAt, UnadoptMarkedAt, Busy, Running, RequestAt, BeforeOpen, FinAt, Finished, EntryAt, RequestSet, FinSame, Same, ViewSame, KeepMarkPut, MarksSame, OwnerSame
    <3>3. CASE q = p
      BY <2>2, <3>1, <3>3, <1>1, UnadoptNumberEffect, UnadoptNumberView, <1>2, <1>3, <1>4, Sorts, KeySorts, <1>5 DEF UnadoptOwes, UnadoptDue, KeptFor, UnadoptStrippedAt, UnadoptMarkedAt, Busy, Running, RequestAt, BeforeOpen, FinAt, Finished, EntryAt, RequestSet, FinSame, Same, ViewSame, KeepMarkPut, MarksSame, OwnerSame
    <3> QED BY <3>2, <3>3
  <2> QED BY <2>1, <2>2, UnadoptOwedKept DEF Owned
<1>17. PassInGit'
  BY <1>1, UnadoptNumberEffect, UnadoptNumberView, <1>2, <1>3, <1>4, PassInGitFrame DEF Owned
<1> QED BY <1>6, <1>7, <1>8, <1>9, <1>10, <1>11, <1>12, <1>13, <1>14, <1>15, <1>16, <1>17 DEF Owned

LEMMA TrackerSeesOwned ==
    ASSUME Fits, Fits', Owned, Exists, Exists', ~crossed', MaxFailures <= 1, NEW p \in PR, TrackerSees(p)
    PROVE  Owned'
<1>1. (Failure => ~Spent /\ Spent') /\ (NoFailure => (Spent' <=> Spent))
  BY SpentStep
<1>2. Spent' <=> Spent
  BY TrackerSeesEffect DEF Spent
<1>3. ViewSame
  BY TrackerSeesEffect, ViewFrame
<1>4. p \in PR /\ RequestAt(p) /\ FinAt(p) /\ EntryAt(p) /\ UnopenedAt(p)
  BY TrackerSeesEffect, Sorts, FitsAt
<1>5. /\ p \in Join => JoinInGitAt(p) /\ JoinMarkedAt(p) /\ JoinSwappedAt(p)
      /\ p \in UnadoptPR => UnadoptInGitAt(p) /\ UnadoptMarkedAt(p) /\ UnadoptStrippedAt(p)
      /\ p \in UnadoptPR /\ Busy(p) => \A v \in UnadoptPR : v # p => ~Busy(v)
  BY JoinAt, UnadoptAt
<1>6. \A v \in UnadoptPR : Busy(v)' => Busy(v)
  <2>1. ASSUME NEW v \in UnadoptPR, v # p PROVE Busy(v)' => Busy(v)
    <3>1. v \in PR /\ Same(v)
      BY <2>1, TrackerSeesEffect, Sorts DEF Others
    <3> QED BY <2>1, <3>1, <1>1, TrackerSeesEffect, <1>2, <1>3, <1>4, <1>5, Sorts, KeySorts DEF Busy, Running, Recorded, FinSame, Same, ViewSame, MarksSame, OwnerSame, Same, FinSame
  <2>2. p \in UnadoptPR => (Busy(p)' => Busy(p))
    BY <1>1, TrackerSeesEffect, <1>2, <1>3, <1>4, <1>5, Sorts, KeySorts, FinStays DEF Busy, Running, Recorded, FinSame, Same, ViewSame, MarksSame, OwnerSame
  <2> QED BY <2>1, <2>2, Sorts, TrackerSeesEffect
<1>7. JoinInGit'
  <2>1. ASSUME NEW q \in Join, q # p PROVE JoinInGitAt(q)'
    <3>1. Same(q) /\ q \in PR /\ JoinInGitAt(q) /\ RequestAt(q) /\ FinAt(q) /\ EntryAt(q) /\ UnopenedAt(q)
      BY <2>1, TrackerSeesEffect, JoinAt, FitsAt, Sorts DEF Others
    <3> QED BY <2>1, <3>1, <1>1, TrackerSeesEffect, <1>2, <1>3, <1>4, <1>5, Sorts, KeySorts, FinStays DEF JoinInGitAt, JoinBusy, Running, FinAt, Finished, Recorded, FinSame, Same, ViewSame, MarksSame, OwnerSame
  <2>2. p \in Join => JoinInGitAt(p)'
    BY <1>1, TrackerSeesEffect, <1>2, <1>3, <1>4, <1>5, Sorts, KeySorts, FinStays, UnadoptAt, JoinAt DEF JoinInGitAt, JoinBusy, Running, FinAt, Finished, Recorded, FinSame, Same, ViewSame, MarksSame, OwnerSame
  <2> QED BY <2>1, <2>2 DEF JoinInGit
<1>8. JoinMarked'
  <2>1. ASSUME NEW q \in Join, q # p PROVE JoinMarkedAt(q)'
    <3>1. Same(q) /\ q \in PR /\ JoinMarkedAt(q) /\ RequestAt(q) /\ FinAt(q) /\ EntryAt(q) /\ UnopenedAt(q)
      BY <2>1, TrackerSeesEffect, JoinAt, FitsAt, Sorts DEF Others
    <3> QED BY <2>1, <3>1, <1>1, TrackerSeesEffect, <1>2, <1>3, <1>4, <1>5, Sorts, KeySorts, FinStays DEF JoinMarkedAt, RequestAt, BeforeOpen, UnopenedAt, Recorded, FinSame, Same, ViewSame, MarksSame, OwnerSame
  <2>2. p \in Join => JoinMarkedAt(p)'
    BY <1>1, TrackerSeesEffect, <1>2, <1>3, <1>4, <1>5, Sorts, KeySorts, FinStays, UnadoptAt, JoinAt DEF JoinMarkedAt, RequestAt, BeforeOpen, UnopenedAt, Recorded, FinSame, Same, ViewSame, MarksSame, OwnerSame
  <2> QED BY <2>1, <2>2 DEF JoinMarked
<1>9. JoinOwed'
  <2>1. inGit' /\ ~Ours' => inGit /\ ~Ours
    BY <1>1, TrackerSeesEffect, <1>2, <1>3, <1>4, <1>5 DEF JoinOwes, JoinDue, JoinSwappedAt, JoinMarkedAt, FinAt, Finished, EntryAt, UnopenedAt, Recorded, FinSame, Same, ViewSame, MarksSame, OwnerSame
  <2>2. ASSUME NEW q \in Join, inGit' /\ ~Ours', JoinOwes(q) PROVE JoinOwes(q)'
    <3>1. q \in PR /\ RequestAt(q) /\ FinAt(q) /\ EntryAt(q) /\ JoinInGitAt(q) /\ JoinMarkedAt(q) /\ JoinSwappedAt(q)
      BY JoinAt, FitsAt, Sorts
    <3>2. CASE q # p
      <4>1. Same(q)
        BY <3>1, <3>2, TrackerSeesEffect DEF Others
      <4> QED BY <2>2, <3>1, <4>1, <3>2, <1>1, TrackerSeesEffect, <1>2, <1>3, <1>4, <1>5, Sorts, KeySorts, FinStays DEF JoinOwes, JoinDue, JoinSwappedAt, JoinMarkedAt, FinAt, Finished, EntryAt, UnopenedAt, Recorded, FinSame, Same, ViewSame, MarksSame, OwnerSame
    <3>3. CASE q = p
      BY <2>2, <3>1, <3>3, <1>1, TrackerSeesEffect, <1>2, <1>3, <1>4, <1>5, Sorts, KeySorts, FinStays DEF JoinOwes, JoinDue, JoinSwappedAt, JoinMarkedAt, FinAt, Finished, EntryAt, UnopenedAt, Recorded, FinSame, Same, ViewSame, MarksSame, OwnerSame
    <3> QED BY <3>2, <3>3
  <2> QED BY <2>1, <2>2, JoinOwedKept DEF Owned
<1>10. OneBusy'
  BY <1>6, OneBusyKept DEF Owned
<1>11. UnadoptOwed'
  <2>1. ~inGit' /\ Ours' => ~inGit /\ Ours
    BY <1>1, TrackerSeesEffect, <1>2, <1>3, <1>4, <1>5 DEF UnadoptOwes, UnadoptDue, KeptFor, UnadoptStrippedAt, UnadoptMarkedAt, Busy, Running, RequestAt, BeforeOpen, FinAt, Finished, EntryAt, Recorded, FinSame, Same, ViewSame, MarksSame, OwnerSame
  <2>2. ASSUME NEW q \in UnadoptPR, ~inGit' /\ Ours', UnadoptOwes(q) PROVE UnadoptOwes(q)'
    <3>1. q \in PR /\ RequestAt(q) /\ FinAt(q) /\ EntryAt(q) /\ UnadoptInGitAt(q) /\ UnadoptMarkedAt(q) /\ UnadoptStrippedAt(q)
      BY UnadoptAt, FitsAt, Sorts
    <3>2. CASE q # p
      <4>1. Same(q)
        BY <3>1, <3>2, TrackerSeesEffect DEF Others
      <4> QED BY <2>2, <3>1, <4>1, <3>2, <1>1, TrackerSeesEffect, <1>2, <1>3, <1>4, <1>5, Sorts, KeySorts, FinStays, <1>6 DEF UnadoptOwes, UnadoptDue, KeptFor, UnadoptStrippedAt, UnadoptMarkedAt, Busy, Running, RequestAt, BeforeOpen, FinAt, Finished, EntryAt, Recorded, FinSame, Same, ViewSame, MarksSame, OwnerSame
    <3>3. CASE q = p
      BY <2>2, <3>1, <3>3, <1>1, TrackerSeesEffect, <1>2, <1>3, <1>4, <1>5, Sorts, KeySorts, FinStays, <1>6 DEF UnadoptOwes, UnadoptDue, KeptFor, UnadoptStrippedAt, UnadoptMarkedAt, Busy, Running, RequestAt, BeforeOpen, FinAt, Finished, EntryAt, Recorded, FinSame, Same, ViewSame, MarksSame, OwnerSame
    <3> QED BY <3>2, <3>3
  <2> QED BY <2>1, <2>2, UnadoptOwedKept DEF Owned
<1>12. JoinSwapped' /\ PendingFit' /\ UnadoptInGit' /\ PassInGit' /\ UnadoptKnown' /\ UnadoptMarked' /\ UnadoptStripped'
  BY <1>1, TrackerSeesEffect, <1>2, <1>3, <1>4, <1>5, JoinSwappedFrame, PendingFrame, UnadoptInGitFrame, PassInGitFrame, UnadoptKnownFrame, UnadoptMarkedFrame, UnadoptStrippedFrame DEF Owned
<1> QED BY <1>7, <1>8, <1>9, <1>10, <1>11, <1>12 DEF Owned

LEMMA FinishStartOwned ==
    ASSUME Fits, Fits', Owned, Exists, Exists', ~crossed', MaxFailures <= 1, NEW p \in PR, FinishStart(p)
    PROVE  Owned'
<1>1. (Failure => ~Spent /\ Spent') /\ (NoFailure => (Spent' <=> Spent))
  BY SpentStep
<1>2. Spent' <=> Spent
  BY FinishStartEffect DEF Spent
<1>3. ViewSame
  BY FinishStartEffect, ViewFrame
<1>4. p \in PR /\ RequestAt(p) /\ FinAt(p) /\ EntryAt(p) /\ UnopenedAt(p)
  BY FinishStartEffect, Sorts, FitsAt
<1>5. /\ p \in Join => JoinInGitAt(p) /\ JoinMarkedAt(p) /\ JoinSwappedAt(p)
      /\ p \in UnadoptPR => UnadoptInGitAt(p) /\ UnadoptMarkedAt(p) /\ UnadoptStrippedAt(p)
      /\ p \in UnadoptPR /\ Busy(p) => \A v \in UnadoptPR : v # p => ~Busy(v)
  BY JoinAt, UnadoptAt
<1>6. \A v \in UnadoptPR : Busy(v)' => Busy(v)
  <2>1. ASSUME NEW v \in UnadoptPR, v # p PROVE Busy(v)' => Busy(v)
    <3>1. v \in PR /\ Same(v)
      BY <2>1, FinishStartEffect, Sorts DEF Others
    <3> QED BY <2>1, <3>1, <1>1, FinishStartEffect, <1>2, <1>3, <1>4, <1>5, Sorts, KeySorts DEF Busy, Running, TrackerSet, Same, FinSame, ViewSame, MarksSame, OwnerSame, Same, FinSame
  <2>2. p \in UnadoptPR => (Busy(p)' => Busy(p))
    BY <1>1, FinishStartEffect, <1>2, <1>3, <1>4, <1>5, Sorts, KeySorts DEF Busy, Running, TrackerSet, Same, FinSame, ViewSame, MarksSame, OwnerSame
  <2> QED BY <2>1, <2>2, Sorts, FinishStartEffect
<1>7. JoinSwapped'
  <2>1. ASSUME NEW q \in Join, q # p PROVE JoinSwappedAt(q)'
    <3>1. Same(q) /\ q \in PR /\ JoinSwappedAt(q) /\ RequestAt(q) /\ FinAt(q) /\ EntryAt(q) /\ UnopenedAt(q)
      BY <2>1, FinishStartEffect, JoinAt, FitsAt, Sorts DEF Others
    <3> QED BY <2>1, <3>1, <1>1, FinishStartEffect, <1>2, <1>3, <1>4, <1>5, Sorts, KeySorts DEF JoinSwappedAt, JoinInGitAt, JoinBusy, FinAt, Finished, TrackerSet, Same, FinSame, ViewSame, MarksSame, OwnerSame
  <2>2. p \in Join => JoinSwappedAt(p)'
    BY <1>1, FinishStartEffect, <1>2, <1>3, <1>4, <1>5, Sorts, KeySorts, UnadoptAt, JoinAt DEF JoinSwappedAt, JoinInGitAt, JoinBusy, FinAt, Finished, TrackerSet, Same, FinSame, ViewSame, MarksSame, OwnerSame
  <2> QED BY <2>1, <2>2 DEF JoinSwapped
<1>8. JoinOwed'
  <2>1. inGit' /\ ~Ours' => inGit /\ ~Ours
    BY <1>1, FinishStartEffect, <1>2, <1>3, <1>4, <1>5 DEF JoinOwes, JoinDue, JoinSwappedAt, JoinMarkedAt, FinAt, Finished, EntryAt, UnopenedAt, TrackerSet, Same, FinSame, ViewSame, MarksSame, OwnerSame
  <2>2. ASSUME NEW q \in Join, inGit' /\ ~Ours', JoinOwes(q) PROVE JoinOwes(q)'
    <3>1. q \in PR /\ RequestAt(q) /\ FinAt(q) /\ EntryAt(q) /\ JoinInGitAt(q) /\ JoinMarkedAt(q) /\ JoinSwappedAt(q)
      BY JoinAt, FitsAt, Sorts
    <3>2. CASE q # p
      <4>1. Same(q)
        BY <3>1, <3>2, FinishStartEffect DEF Others
      <4> QED BY <2>2, <3>1, <4>1, <3>2, <1>1, FinishStartEffect, <1>2, <1>3, <1>4, <1>5, Sorts, KeySorts DEF JoinOwes, JoinDue, JoinSwappedAt, JoinMarkedAt, FinAt, Finished, EntryAt, UnopenedAt, TrackerSet, Same, FinSame, ViewSame, MarksSame, OwnerSame
    <3>3. CASE q = p
      BY <2>2, <3>1, <3>3, <1>1, FinishStartEffect, <1>2, <1>3, <1>4, <1>5, Sorts, KeySorts DEF JoinOwes, JoinDue, JoinSwappedAt, JoinMarkedAt, FinAt, Finished, EntryAt, UnopenedAt, TrackerSet, Same, FinSame, ViewSame, MarksSame, OwnerSame
    <3> QED BY <3>2, <3>3
  <2> QED BY <2>1, <2>2, JoinOwedKept DEF Owned
<1>9. OneBusy'
  BY <1>6, OneBusyKept DEF Owned
<1>10. UnadoptInGit'
  <2>1. ASSUME NEW q \in UnadoptPR, q # p PROVE UnadoptInGitAt(q)'
    <3>1. Same(q) /\ q \in PR /\ UnadoptInGitAt(q) /\ RequestAt(q) /\ FinAt(q) /\ EntryAt(q) /\ UnopenedAt(q)
      BY <2>1, FinishStartEffect, UnadoptAt, FitsAt, Sorts DEF Others
    <3> QED BY <2>1, <3>1, <1>1, FinishStartEffect, <1>2, <1>3, <1>4, <1>5, Sorts, KeySorts DEF UnadoptInGitAt, Busy, Running, RequestAt, BeforeOpen, FinAt, Finished, TrackerSet, Same, FinSame
  <2>2. p \in UnadoptPR => UnadoptInGitAt(p)'
    BY <1>1, FinishStartEffect, <1>2, <1>3, <1>4, <1>5, Sorts, KeySorts, UnadoptAt, JoinAt DEF UnadoptInGitAt, Busy, Running, RequestAt, BeforeOpen, FinAt, Finished, TrackerSet, Same, FinSame
  <2> QED BY <2>1, <2>2 DEF UnadoptInGit
<1>11. UnadoptStripped'
  <2>1. ASSUME NEW q \in UnadoptPR, q # p PROVE UnadoptStrippedAt(q)'
    <3>1. Same(q) /\ q \in PR /\ UnadoptStrippedAt(q) /\ RequestAt(q) /\ FinAt(q) /\ EntryAt(q) /\ UnopenedAt(q)
      BY <2>1, FinishStartEffect, UnadoptAt, FitsAt, Sorts DEF Others
    <3> QED BY <2>1, <3>1, <1>1, FinishStartEffect, <1>2, <1>3, <1>4, <1>5, Sorts, KeySorts DEF UnadoptStrippedAt, JoinInGitAt, JoinBusy, Busy, RequestAt, BeforeOpen, FinAt, Finished, EntryAt, TrackerSet, Same, FinSame, ViewSame, MarksSame, OwnerSame
  <2>2. p \in UnadoptPR => UnadoptStrippedAt(p)'
    BY <1>1, FinishStartEffect, <1>2, <1>3, <1>4, <1>5, Sorts, KeySorts, UnadoptAt, JoinAt DEF UnadoptStrippedAt, JoinInGitAt, JoinBusy, Busy, RequestAt, BeforeOpen, FinAt, Finished, EntryAt, TrackerSet, Same, FinSame, ViewSame, MarksSame, OwnerSame
  <2> QED BY <2>1, <2>2 DEF UnadoptStripped
<1>12. UnadoptOwed'
  <2>1. ~inGit' /\ Ours' => ~inGit /\ Ours
    BY <1>1, FinishStartEffect, <1>2, <1>3, <1>4, <1>5 DEF UnadoptOwes, UnadoptDue, KeptFor, UnadoptStrippedAt, UnadoptMarkedAt, Busy, Running, RequestAt, BeforeOpen, FinAt, Finished, EntryAt, TrackerSet, Same, FinSame, ViewSame, MarksSame, OwnerSame
  <2>2. ASSUME NEW q \in UnadoptPR, ~inGit' /\ Ours', UnadoptOwes(q) PROVE UnadoptOwes(q)'
    <3>1. q \in PR /\ RequestAt(q) /\ FinAt(q) /\ EntryAt(q) /\ UnadoptInGitAt(q) /\ UnadoptMarkedAt(q) /\ UnadoptStrippedAt(q)
      BY UnadoptAt, FitsAt, Sorts
    <3>2. CASE q # p
      <4>1. Same(q)
        BY <3>1, <3>2, FinishStartEffect DEF Others
      <4> QED BY <2>2, <3>1, <4>1, <3>2, <1>1, FinishStartEffect, <1>2, <1>3, <1>4, <1>5, Sorts, KeySorts, <1>6 DEF UnadoptOwes, UnadoptDue, KeptFor, UnadoptStrippedAt, UnadoptMarkedAt, Busy, Running, RequestAt, BeforeOpen, FinAt, Finished, EntryAt, TrackerSet, Same, FinSame, ViewSame, MarksSame, OwnerSame
    <3>3. CASE q = p
      BY <2>2, <3>1, <3>3, <1>1, FinishStartEffect, <1>2, <1>3, <1>4, <1>5, Sorts, KeySorts, <1>6 DEF UnadoptOwes, UnadoptDue, KeptFor, UnadoptStrippedAt, UnadoptMarkedAt, Busy, Running, RequestAt, BeforeOpen, FinAt, Finished, EntryAt, TrackerSet, Same, FinSame, ViewSame, MarksSame, OwnerSame
    <3> QED BY <3>2, <3>3
  <2> QED BY <2>1, <2>2, UnadoptOwedKept DEF Owned
<1>13. JoinInGit' /\ JoinMarked' /\ PendingFit' /\ PassInGit' /\ UnadoptKnown' /\ UnadoptMarked'
  BY <1>1, FinishStartEffect, <1>2, <1>3, <1>4, <1>5, JoinInGitFrame, JoinMarkedFrame, PendingFrame, PassInGitFrame, UnadoptKnownFrame, UnadoptMarkedFrame DEF Owned
<1> QED BY <1>7, <1>8, <1>9, <1>10, <1>11, <1>12, <1>13 DEF Owned

LEMMA FinishLookOwned ==
    ASSUME Fits, Fits', Owned, Exists, Exists', ~crossed', MaxFailures <= 1, NEW f \in Finisher, FinishLook(f)
    PROVE  Owned'
<1>1. (Failure => ~Spent /\ Spent') /\ (NoFailure => (Spent' <=> Spent))
  BY SpentStep
<1>2. ViewSame
  BY FinishLookEffect, ViewFrame
<1>3. f[1] \in PR /\ RequestAt(f[1]) /\ FinAt(f[1]) /\ EntryAt(f[1]) /\ UnopenedAt(f[1])
  BY FinishLookEffect, Sorts, FitsAt
<1>4. JoinInGitAt(f[1]) /\ JoinMarkedAt(f[1]) /\ JoinSwappedAt(f[1])
  BY FinishLookEffect, JoinAt
<1>5. \A v \in UnadoptPR : Busy(v)' => Busy(v)
  <2>1. ASSUME NEW v \in UnadoptPR, v # f[1] PROVE Busy(v)' => Busy(v)
    <3>1. v \in PR /\ Same(v)
      BY <2>1, FinishLookEffect, Sorts DEF Others
    <3> QED BY <2>1, <3>1, <1>1, FinishLookEffect, <1>2, <1>3, <1>4, Sorts, KeySorts DEF Busy, Running, TrackerSet, Same, FinSame, ViewSame, MarksSame, OwnerSame, Same, FinSame
  <2>2. f[1] \in UnadoptPR => (Busy(f[1])' => Busy(f[1]))
    BY <1>1, FinishLookEffect, <1>2, <1>3, <1>4, Sorts, KeySorts DEF Busy, Running, TrackerSet, Same, FinSame, ViewSame, MarksSame, OwnerSame
  <2> QED BY <2>1, <2>2, Sorts, FinishLookEffect
<1>6. JoinMarked'
  <2>1. ASSUME NEW q \in Join, q # f[1] PROVE JoinMarkedAt(q)'
    <3>1. Same(q) /\ q \in PR /\ JoinMarkedAt(q) /\ RequestAt(q) /\ FinAt(q) /\ EntryAt(q) /\ UnopenedAt(q)
      BY <2>1, FinishLookEffect, JoinAt, FitsAt, Sorts DEF Others
    <3> QED BY <2>1, <3>1, <1>1, FinishLookEffect, <1>2, <1>3, <1>4, Sorts, KeySorts DEF JoinMarkedAt, RequestAt, BeforeOpen, UnopenedAt, Same, FinSame, ViewSame, MarksSame, OwnerSame
  <2>2. f[1] \in Join => JoinMarkedAt(f[1])'
    BY <1>1, FinishLookEffect, <1>2, <1>3, <1>4, Sorts, KeySorts, UnadoptAt, JoinAt DEF JoinMarkedAt, RequestAt, BeforeOpen, UnopenedAt, Same, FinSame, ViewSame, MarksSame, OwnerSame
  <2> QED BY <2>1, <2>2 DEF JoinMarked
<1>7. JoinSwapped'
  <2>1. ASSUME NEW q \in Join, q # f[1] PROVE JoinSwappedAt(q)'
    <3>1. Same(q) /\ q \in PR /\ JoinSwappedAt(q) /\ RequestAt(q) /\ FinAt(q) /\ EntryAt(q) /\ UnopenedAt(q)
      BY <2>1, FinishLookEffect, JoinAt, FitsAt, Sorts DEF Others
    <3> QED BY <2>1, <3>1, <1>1, FinishLookEffect, <1>2, <1>3, <1>4, Sorts, KeySorts DEF JoinSwappedAt, JoinInGitAt, JoinBusy, FinAt, Finished, TrackerSet, Same, FinSame, ViewSame, MarksSame, OwnerSame
  <2>2. f[1] \in Join => JoinSwappedAt(f[1])'
    BY <1>1, FinishLookEffect, <1>2, <1>3, <1>4, Sorts, KeySorts, UnadoptAt, JoinAt DEF JoinSwappedAt, JoinInGitAt, JoinBusy, FinAt, Finished, TrackerSet, Same, FinSame, ViewSame, MarksSame, OwnerSame
  <2> QED BY <2>1, <2>2 DEF JoinSwapped
<1>8. JoinOwed'
  <2>1. inGit' /\ ~Ours' => inGit /\ ~Ours
    BY <1>1, FinishLookEffect, <1>2, <1>3, <1>4 DEF JoinOwes, JoinDue, JoinSwappedAt, JoinMarkedAt, FinAt, Finished, EntryAt, UnopenedAt, TrackerSet, Same, FinSame, ViewSame, MarksSame, OwnerSame
  <2>2. ASSUME NEW q \in Join, inGit' /\ ~Ours', JoinOwes(q) PROVE JoinOwes(q)'
    <3>1. q \in PR /\ RequestAt(q) /\ FinAt(q) /\ EntryAt(q) /\ JoinInGitAt(q) /\ JoinMarkedAt(q) /\ JoinSwappedAt(q)
      BY JoinAt, FitsAt, Sorts
    <3>2. CASE q # f[1]
      <4>1. Same(q)
        BY <3>1, <3>2, FinishLookEffect DEF Others
      <4> QED BY <2>2, <3>1, <4>1, <3>2, <1>1, FinishLookEffect, <1>2, <1>3, <1>4, Sorts, KeySorts DEF JoinOwes, JoinDue, JoinSwappedAt, JoinMarkedAt, FinAt, Finished, EntryAt, UnopenedAt, TrackerSet, Same, FinSame, ViewSame, MarksSame, OwnerSame
    <3>3. CASE q = f[1]
      BY <2>2, <3>1, <3>3, <1>1, FinishLookEffect, <1>2, <1>3, <1>4, Sorts, KeySorts DEF JoinOwes, JoinDue, JoinSwappedAt, JoinMarkedAt, FinAt, Finished, EntryAt, UnopenedAt, TrackerSet, Same, FinSame, ViewSame, MarksSame, OwnerSame
    <3> QED BY <3>2, <3>3
  <2> QED BY <2>1, <2>2, JoinOwedKept DEF Owned
<1>9. OneBusy'
  BY <1>5, OneBusyKept DEF Owned
<1>10. PendingFit'
  BY <1>1, FinishLookEffect, <1>2, <1>3, <1>4, Sorts, KeySorts DEF Owned, Fits, PendingFit, Running, RequestsFit, RequestAt, MarksFit, Nothing, Same, FinSame, ViewSame, MarksSame, OwnerSame, Others
<1>11. UnadoptInGit'
  <2>1. ASSUME NEW q \in UnadoptPR, q # f[1] PROVE UnadoptInGitAt(q)'
    <3>1. Same(q) /\ q \in PR /\ UnadoptInGitAt(q) /\ RequestAt(q) /\ FinAt(q) /\ EntryAt(q) /\ UnopenedAt(q)
      BY <2>1, FinishLookEffect, UnadoptAt, FitsAt, Sorts DEF Others
    <3> QED BY <2>1, <3>1, <1>1, FinishLookEffect, <1>2, <1>3, <1>4, Sorts, KeySorts DEF UnadoptInGitAt, Busy, Running, RequestAt, BeforeOpen, FinAt, Finished, TrackerSet, Same, FinSame
  <2> QED BY <2>1, FinishLookEffect, Sorts DEF UnadoptInGit
<1>12. UnadoptKnown'
  BY <1>1, FinishLookEffect, <1>2, <1>3, <1>4, Sorts, KeySorts DEF Owned, Fits, UnadoptKnown, Busy, Running, PendingFit, RequestAt, BeforeOpen, FinAt, Finished, Same, FinSame, ViewSame, MarksSame, OwnerSame, Others
<1>13. UnadoptMarked'
  <2>1. ASSUME NEW q \in UnadoptPR, q # f[1] PROVE UnadoptMarkedAt(q)'
    <3>1. Same(q) /\ q \in PR /\ UnadoptMarkedAt(q) /\ RequestAt(q) /\ FinAt(q) /\ EntryAt(q) /\ UnopenedAt(q)
      BY <2>1, FinishLookEffect, UnadoptAt, FitsAt, Sorts DEF Others
    <3> QED BY <2>1, <3>1, <1>1, FinishLookEffect, <1>2, <1>3, <1>4, Sorts, KeySorts DEF UnadoptMarkedAt, UnadoptKnown, KeptFor, Busy, Running, RequestAt, BeforeOpen, FinAt, Finished, Same, FinSame, ViewSame, MarksSame, OwnerSame
  <2> QED BY <2>1, FinishLookEffect, Sorts DEF UnadoptMarked
<1>14. UnadoptStripped'
  <2>1. ASSUME NEW q \in UnadoptPR, q # f[1] PROVE UnadoptStrippedAt(q)'
    <3>1. Same(q) /\ q \in PR /\ UnadoptStrippedAt(q) /\ RequestAt(q) /\ FinAt(q) /\ EntryAt(q) /\ UnopenedAt(q)
      BY <2>1, FinishLookEffect, UnadoptAt, FitsAt, Sorts DEF Others
    <3> QED BY <2>1, <3>1, <1>1, FinishLookEffect, <1>2, <1>3, <1>4, Sorts, KeySorts DEF UnadoptStrippedAt, JoinInGitAt, JoinBusy, Busy, RequestAt, BeforeOpen, FinAt, Finished, EntryAt, TrackerSet, Same, FinSame, ViewSame, MarksSame, OwnerSame
  <2> QED BY <2>1, FinishLookEffect, Sorts DEF UnadoptStripped
<1>15. UnadoptOwed'
  <2>1. ~inGit' /\ Ours' => ~inGit /\ Ours
    BY <1>1, FinishLookEffect, <1>2, <1>3, <1>4 DEF UnadoptOwes, UnadoptDue, KeptFor, UnadoptStrippedAt, UnadoptMarkedAt, Busy, Running, RequestAt, BeforeOpen, FinAt, Finished, EntryAt, TrackerSet, Same, FinSame, ViewSame, MarksSame, OwnerSame
  <2>2. ASSUME NEW q \in UnadoptPR, ~inGit' /\ Ours', UnadoptOwes(q) PROVE UnadoptOwes(q)'
    <3>1. q \in PR /\ RequestAt(q) /\ FinAt(q) /\ EntryAt(q) /\ UnadoptInGitAt(q) /\ UnadoptMarkedAt(q) /\ UnadoptStrippedAt(q)
      BY UnadoptAt, FitsAt, Sorts
    <3>2. CASE q # f[1]
      <4>1. Same(q)
        BY <3>1, <3>2, FinishLookEffect DEF Others
      <4> QED BY <2>2, <3>1, <4>1, <3>2, <1>1, FinishLookEffect, <1>2, <1>3, <1>4, Sorts, KeySorts, <1>5 DEF UnadoptOwes, UnadoptDue, KeptFor, UnadoptStrippedAt, UnadoptMarkedAt, Busy, Running, RequestAt, BeforeOpen, FinAt, Finished, EntryAt, TrackerSet, Same, FinSame, ViewSame, MarksSame, OwnerSame
    <3> QED BY <3>2, FinishLookEffect, Sorts
  <2> QED BY <2>1, <2>2, UnadoptOwedKept DEF Owned
<1>16. JoinInGit' /\ PassInGit'
  BY <1>1, FinishLookEffect, <1>2, <1>3, <1>4, JoinInGitFrame, PassInGitFrame DEF Owned
<1> QED BY <1>6, <1>7, <1>8, <1>9, <1>10, <1>11, <1>12, <1>13, <1>14, <1>15, <1>16 DEF Owned

LEMMA FinishSwapOwned ==
    ASSUME Fits, Fits', Owned, Exists, Exists', ~crossed', MaxFailures <= 1, NEW f \in Finisher, FinishSwap(f)
    PROVE  Owned'
<1>1. (Failure => ~Spent /\ Spent') /\ (NoFailure => (Spent' <=> Spent))
  BY SpentStep
<1>2. f[1] \in PR /\ RequestAt(f[1]) /\ FinAt(f[1]) /\ EntryAt(f[1]) /\ UnopenedAt(f[1])
  BY FinishSwapEffect, Sorts, FitsAt
<1>3. JoinInGitAt(f[1]) /\ JoinMarkedAt(f[1]) /\ JoinSwappedAt(f[1])
  BY FinishSwapEffect, JoinAt
<1>4. \A v \in UnadoptPR : Busy(v)' => Busy(v)
  <2>1. ASSUME NEW v \in UnadoptPR, v # f[1] PROVE Busy(v)' => Busy(v)
    <3>1. v \in PR /\ Same(v)
      BY <2>1, FinishSwapEffect, Sorts DEF Others
    <3> QED BY <2>1, <3>1, <1>1, FinishSwapEffect, FinishSwapView, <1>2, <1>3, Sorts, KeySorts DEF Busy, Running, TrackerSet, Same, FinSame, ViewSame, MarksSame, OwnerSame, Same, FinSame
  <2>2. f[1] \in UnadoptPR => (Busy(f[1])' => Busy(f[1]))
    BY <1>1, FinishSwapEffect, FinishSwapView, <1>2, <1>3, Sorts, KeySorts DEF Busy, Running, TrackerSet, Same, FinSame, ViewSame, MarksSame, OwnerSame
  <2> QED BY <2>1, <2>2, Sorts, FinishSwapEffect
<1>5. JoinInGit'
  <2>1. ASSUME NEW q \in Join, q # f[1] PROVE JoinInGitAt(q)'
    <3>1. Same(q) /\ q \in PR /\ JoinInGitAt(q) /\ RequestAt(q) /\ FinAt(q) /\ EntryAt(q) /\ UnopenedAt(q)
      BY <2>1, FinishSwapEffect, JoinAt, FitsAt, Sorts DEF Others
    <3> QED BY <2>1, <3>1, <1>1, FinishSwapEffect, FinishSwapView, <1>2, <1>3, Sorts, KeySorts DEF JoinInGitAt, JoinBusy, Running, FinAt, Finished, Same, FinSame, ViewSame, MarksSame, OwnerSame
  <2>2. f[1] \in Join => JoinInGitAt(f[1])'
    BY <1>1, FinishSwapEffect, FinishSwapView, <1>2, <1>3, Sorts, KeySorts, UnadoptAt, JoinAt DEF JoinInGitAt, JoinBusy, Running, FinAt, Finished, Same, FinSame, ViewSame, MarksSame, OwnerSame
  <2> QED BY <2>1, <2>2 DEF JoinInGit
<1>6. JoinMarked'
  <2>1. ASSUME NEW q \in Join, q # f[1] PROVE JoinMarkedAt(q)'
    <3>1. Same(q) /\ q \in PR /\ JoinMarkedAt(q) /\ RequestAt(q) /\ FinAt(q) /\ EntryAt(q) /\ UnopenedAt(q)
      BY <2>1, FinishSwapEffect, JoinAt, FitsAt, Sorts DEF Others
    <3> QED BY <2>1, <3>1, <1>1, FinishSwapEffect, FinishSwapView, <1>2, <1>3, Sorts, KeySorts DEF JoinMarkedAt, RequestAt, BeforeOpen, UnopenedAt, Same, FinSame, ViewSame, MarksSame, OwnerSame
  <2>2. f[1] \in Join => JoinMarkedAt(f[1])'
    BY <1>1, FinishSwapEffect, FinishSwapView, <1>2, <1>3, Sorts, KeySorts, UnadoptAt, JoinAt DEF JoinMarkedAt, RequestAt, BeforeOpen, UnopenedAt, Same, FinSame, ViewSame, MarksSame, OwnerSame
  <2> QED BY <2>1, <2>2 DEF JoinMarked
<1>7. JoinSwapped'
  <2>1. ASSUME NEW q \in Join, q # f[1] PROVE JoinSwappedAt(q)'
    <3>1. Same(q) /\ q \in PR /\ JoinSwappedAt(q) /\ RequestAt(q) /\ FinAt(q) /\ EntryAt(q) /\ UnopenedAt(q)
      BY <2>1, FinishSwapEffect, JoinAt, FitsAt, Sorts DEF Others
    <3> QED BY <2>1, <3>1, <1>1, FinishSwapEffect, FinishSwapView, <1>2, <1>3, Sorts, KeySorts DEF JoinSwappedAt, JoinInGitAt, JoinBusy, FinAt, Finished, TrackerSet, Same, FinSame, ViewSame, MarksSame, OwnerSame
  <2>2. f[1] \in Join => JoinSwappedAt(f[1])'
    BY <1>1, FinishSwapEffect, FinishSwapView, <1>2, <1>3, Sorts, KeySorts, UnadoptAt, JoinAt DEF JoinSwappedAt, JoinInGitAt, JoinBusy, FinAt, Finished, TrackerSet, Same, FinSame, ViewSame, MarksSame, OwnerSame
  <2> QED BY <2>1, <2>2 DEF JoinSwapped
<1>8. JoinOwed'
  <2>1. inGit' /\ ~Ours' => inGit /\ ~Ours
    BY <1>1, FinishSwapEffect, FinishSwapView, <1>2, <1>3 DEF JoinOwes, JoinDue, JoinSwappedAt, JoinMarkedAt, FinAt, Finished, EntryAt, UnopenedAt, TrackerSet, Same, FinSame, ViewSame, MarksSame, OwnerSame
  <2>2. ASSUME NEW q \in Join, inGit' /\ ~Ours', JoinOwes(q) PROVE JoinOwes(q)'
    <3>1. q \in PR /\ RequestAt(q) /\ FinAt(q) /\ EntryAt(q) /\ JoinInGitAt(q) /\ JoinMarkedAt(q) /\ JoinSwappedAt(q)
      BY JoinAt, FitsAt, Sorts
    <3>2. CASE q # f[1]
      <4>1. Same(q)
        BY <3>1, <3>2, FinishSwapEffect DEF Others
      <4> QED BY <2>2, <3>1, <4>1, <3>2, <1>1, FinishSwapEffect, FinishSwapView, <1>2, <1>3, Sorts, KeySorts DEF JoinOwes, JoinDue, JoinSwappedAt, JoinMarkedAt, FinAt, Finished, EntryAt, UnopenedAt, TrackerSet, Same, FinSame, ViewSame, MarksSame, OwnerSame
    <3>3. CASE q = f[1]
      BY <2>2, <3>1, <3>3, <1>1, FinishSwapEffect, FinishSwapView, <1>2, <1>3, Sorts, KeySorts DEF JoinOwes, JoinDue, JoinSwappedAt, JoinMarkedAt, FinAt, Finished, EntryAt, UnopenedAt, TrackerSet, Same, FinSame, ViewSame, MarksSame, OwnerSame
    <3> QED BY <3>2, <3>3
  <2> QED BY <2>1, <2>2, JoinOwedKept DEF Owned
<1>9. OneBusy'
  BY <1>4, OneBusyKept DEF Owned
<1>10. PendingFit'
  <2>1. KeepMark' = KeepMark
    BY <1>1, FinishSwapEffect, FinishSwapView, <1>2, <1>3 DEF ViewSame, MarksSame
  <2>2. \A u \in UnadoptPR : req'[u] = req[u]
    BY <1>1, FinishSwapEffect, FinishSwapView, <1>2, <1>3, Sorts DEF Others, Same
  <2>3. UNCHANGED <<marked, tick, listed>> /\ (Spent => Spent')
    BY <1>1, FinishSwapEffect, FinishSwapView, <1>2, <1>3
  <2> QED BY <2>1, <2>2, <2>3 DEF Owned, PendingFit, Running
<1>11. UnadoptInGit'
  <2>1. ASSUME NEW q \in UnadoptPR, q # f[1] PROVE UnadoptInGitAt(q)'
    <3>1. Same(q) /\ q \in PR /\ UnadoptInGitAt(q) /\ RequestAt(q) /\ FinAt(q) /\ EntryAt(q) /\ UnopenedAt(q)
      BY <2>1, FinishSwapEffect, UnadoptAt, FitsAt, Sorts DEF Others
    <3> QED BY <2>1, <3>1, <1>1, FinishSwapEffect, FinishSwapView, <1>2, <1>3, Sorts, KeySorts DEF UnadoptInGitAt, Busy, Running, RequestAt, BeforeOpen, FinAt, Finished, TrackerSet, Same, FinSame
  <2> QED BY <2>1, FinishSwapEffect, Sorts DEF UnadoptInGit
<1>12. UnadoptKnown'
  BY <1>1, FinishSwapEffect, FinishSwapView, <1>2, <1>3, Sorts, KeySorts DEF Owned, Fits, UnadoptKnown, Busy, Running, PendingFit, RequestAt, BeforeOpen, FinAt, Finished, Same, FinSame, ViewSame, MarksSame, OwnerSame, Others
<1>13. UnadoptMarked'
  <2>1. ASSUME NEW q \in UnadoptPR, q # f[1] PROVE UnadoptMarkedAt(q)'
    <3>1. Same(q) /\ q \in PR /\ UnadoptMarkedAt(q) /\ RequestAt(q) /\ FinAt(q) /\ EntryAt(q) /\ UnopenedAt(q)
      BY <2>1, FinishSwapEffect, UnadoptAt, FitsAt, Sorts DEF Others
    <3> QED BY <2>1, <3>1, <1>1, FinishSwapEffect, FinishSwapView, <1>2, <1>3, Sorts, KeySorts DEF UnadoptMarkedAt, UnadoptKnown, KeptFor, Busy, Running, RequestAt, BeforeOpen, FinAt, Finished, Same, FinSame, ViewSame, MarksSame, OwnerSame
  <2> QED BY <2>1, FinishSwapEffect, Sorts DEF UnadoptMarked
<1>14. UnadoptStripped'
  <2>1. ASSUME NEW q \in UnadoptPR, q # f[1] PROVE UnadoptStrippedAt(q)'
    <3>1. Same(q) /\ q \in PR /\ UnadoptStrippedAt(q) /\ RequestAt(q) /\ FinAt(q) /\ EntryAt(q) /\ UnopenedAt(q)
      BY <2>1, FinishSwapEffect, UnadoptAt, FitsAt, Sorts DEF Others
    <3> QED BY <2>1, <3>1, <1>1, FinishSwapEffect, FinishSwapView, <1>2, <1>3, Sorts, KeySorts DEF UnadoptStrippedAt, JoinInGitAt, JoinBusy, Busy, RequestAt, BeforeOpen, FinAt, Finished, EntryAt, TrackerSet, Same, FinSame, ViewSame, MarksSame, OwnerSame
  <2> QED BY <2>1, FinishSwapEffect, Sorts DEF UnadoptStripped
<1>15. UnadoptOwed'
  <2>1. ~inGit' /\ Ours' => ~inGit /\ Ours
    BY <1>1, FinishSwapEffect, FinishSwapView, <1>2, <1>3 DEF JoinInGitAt, FinAt, JoinBusy
  <2>2. ASSUME NEW q \in UnadoptPR, ~inGit' /\ Ours', UnadoptOwes(q) PROVE UnadoptOwes(q)'
    <3>1. q \in PR /\ RequestAt(q) /\ FinAt(q) /\ EntryAt(q) /\ UnadoptInGitAt(q) /\ UnadoptMarkedAt(q) /\ UnadoptStrippedAt(q)
      BY UnadoptAt, FitsAt, Sorts
    <3>2. CASE q # f[1]
      <4>1. Same(q)
        BY <3>1, <3>2, FinishSwapEffect DEF Others
      <4> QED BY <2>2, <3>1, <4>1, <3>2, <1>1, FinishSwapEffect, FinishSwapView, <1>2, <1>3, Sorts, KeySorts, <1>4 DEF UnadoptOwes, UnadoptDue, KeptFor, UnadoptStrippedAt, UnadoptMarkedAt, Busy, Running, RequestAt, BeforeOpen, FinAt, Finished, EntryAt, TrackerSet, Same, FinSame, ViewSame, MarksSame, OwnerSame
    <3> QED BY <3>2, FinishSwapEffect, Sorts
  <2> QED BY <2>1, <2>2, UnadoptOwedKept DEF Owned
<1>16. PassInGit'
  BY <1>1, FinishSwapEffect, FinishSwapView, <1>2, <1>3, PassInGitFrame DEF Owned
<1> QED BY <1>5, <1>6, <1>7, <1>8, <1>9, <1>10, <1>11, <1>12, <1>13, <1>14, <1>15, <1>16 DEF Owned

LEMMA FinishAnnotateOwned ==
    ASSUME Fits, Fits', Owned, Exists, Exists', ~crossed', MaxFailures <= 1, NEW f \in Finisher, FinishAnnotate(f)
    PROVE  Owned'
<1>1. (Failure => ~Spent /\ Spent') /\ (NoFailure => (Spent' <=> Spent))
  BY SpentStep
<1>2. f[1] \in PR /\ RequestAt(f[1]) /\ FinAt(f[1]) /\ EntryAt(f[1]) /\ UnopenedAt(f[1])
  BY FinishAnnotateEffect, Sorts, FitsAt
<1>3. JoinInGitAt(f[1]) /\ JoinMarkedAt(f[1]) /\ JoinSwappedAt(f[1])
  BY FinishAnnotateEffect, JoinAt
<1>4. \A v \in UnadoptPR : Busy(v)' => Busy(v)
  <2>1. ASSUME NEW v \in UnadoptPR, v # f[1] PROVE Busy(v)' => Busy(v)
    <3>1. v \in PR /\ Same(v)
      BY <2>1, FinishAnnotateEffect, Sorts DEF Others
    <3> QED BY <2>1, <3>1, <1>1, FinishAnnotateEffect, FinishAnnotateView, <1>2, <1>3, Sorts, KeySorts DEF Busy, Running, TrackerSet, Same, FinSame, ViewSame, MarksSame, OwnerSame, Same, FinSame
  <2>2. f[1] \in UnadoptPR => (Busy(f[1])' => Busy(f[1]))
    BY <1>1, FinishAnnotateEffect, FinishAnnotateView, <1>2, <1>3, Sorts, KeySorts DEF Busy, Running, TrackerSet, Same, FinSame, ViewSame, MarksSame, OwnerSame
  <2> QED BY <2>1, <2>2, Sorts, FinishAnnotateEffect
<1>5. JoinInGit'
  <2>1. ASSUME NEW q \in Join, q # f[1] PROVE JoinInGitAt(q)'
    <3>1. Same(q) /\ q \in PR /\ JoinInGitAt(q) /\ RequestAt(q) /\ FinAt(q) /\ EntryAt(q) /\ UnopenedAt(q)
      BY <2>1, FinishAnnotateEffect, JoinAt, FitsAt, Sorts DEF Others
    <3> QED BY <2>1, <3>1, <1>1, FinishAnnotateEffect, FinishAnnotateView, <1>2, <1>3, Sorts, KeySorts DEF JoinInGitAt, JoinBusy, Running, FinAt, Finished, Same, FinSame, ViewSame, MarksSame, OwnerSame
  <2>2. f[1] \in Join => JoinInGitAt(f[1])'
    BY <1>1, FinishAnnotateEffect, FinishAnnotateView, <1>2, <1>3, Sorts, KeySorts, UnadoptAt, JoinAt DEF JoinInGitAt, JoinBusy, Running, FinAt, Finished, Same, FinSame, ViewSame, MarksSame, OwnerSame
  <2> QED BY <2>1, <2>2 DEF JoinInGit
<1>6. JoinMarked'
  <2>1. ASSUME NEW q \in Join, q # f[1] PROVE JoinMarkedAt(q)'
    <3>1. Same(q) /\ q \in PR /\ JoinMarkedAt(q) /\ RequestAt(q) /\ FinAt(q) /\ EntryAt(q) /\ UnopenedAt(q)
      BY <2>1, FinishAnnotateEffect, JoinAt, FitsAt, Sorts DEF Others
    <3> QED BY <2>1, <3>1, <1>1, FinishAnnotateEffect, FinishAnnotateView, <1>2, <1>3, Sorts, KeySorts DEF JoinMarkedAt, RequestAt, BeforeOpen, UnopenedAt, Same, FinSame, ViewSame, MarksSame, OwnerSame
  <2>2. f[1] \in Join => JoinMarkedAt(f[1])'
    BY <1>1, FinishAnnotateEffect, FinishAnnotateView, <1>2, <1>3, Sorts, KeySorts, UnadoptAt, JoinAt DEF JoinMarkedAt, RequestAt, BeforeOpen, UnopenedAt, Same, FinSame, ViewSame, MarksSame, OwnerSame
  <2> QED BY <2>1, <2>2 DEF JoinMarked
<1>7. JoinSwapped'
  <2>1. ASSUME NEW q \in Join, q # f[1] PROVE JoinSwappedAt(q)'
    <3>1. Same(q) /\ q \in PR /\ JoinSwappedAt(q) /\ RequestAt(q) /\ FinAt(q) /\ EntryAt(q) /\ UnopenedAt(q)
      BY <2>1, FinishAnnotateEffect, JoinAt, FitsAt, Sorts DEF Others
    <3> QED BY <2>1, <3>1, <1>1, FinishAnnotateEffect, FinishAnnotateView, <1>2, <1>3, Sorts, KeySorts DEF JoinSwappedAt, JoinInGitAt, JoinBusy, FinAt, Finished, TrackerSet, Same, FinSame, ViewSame, MarksSame, OwnerSame
  <2>2. f[1] \in Join => JoinSwappedAt(f[1])'
    BY <1>1, FinishAnnotateEffect, FinishAnnotateView, <1>2, <1>3, Sorts, KeySorts, UnadoptAt, JoinAt DEF JoinSwappedAt, JoinInGitAt, JoinBusy, FinAt, Finished, TrackerSet, Same, FinSame, ViewSame, MarksSame, OwnerSame
  <2> QED BY <2>1, <2>2 DEF JoinSwapped
<1>8. JoinOwed'
  <2>1. inGit' /\ ~Ours' => inGit /\ ~Ours
    BY <1>1, FinishAnnotateEffect, FinishAnnotateView, <1>2, <1>3 DEF JoinOwes, JoinDue, JoinSwappedAt, JoinMarkedAt, FinAt, Finished, EntryAt, UnopenedAt, TrackerSet, Same, FinSame, ViewSame, MarksSame, OwnerSame
  <2>2. ASSUME NEW q \in Join, inGit' /\ ~Ours', JoinOwes(q) PROVE JoinOwes(q)'
    <3>1. q \in PR /\ RequestAt(q) /\ FinAt(q) /\ EntryAt(q) /\ JoinInGitAt(q) /\ JoinMarkedAt(q) /\ JoinSwappedAt(q)
      BY JoinAt, FitsAt, Sorts
    <3>2. CASE q # f[1]
      <4>1. Same(q)
        BY <3>1, <3>2, FinishAnnotateEffect DEF Others
      <4> QED BY <2>2, <3>1, <4>1, <3>2, <1>1, FinishAnnotateEffect, FinishAnnotateView, <1>2, <1>3, Sorts, KeySorts DEF JoinOwes, JoinDue, JoinSwappedAt, JoinMarkedAt, FinAt, Finished, EntryAt, UnopenedAt, TrackerSet, Same, FinSame, ViewSame, MarksSame, OwnerSame
    <3>3. CASE q = f[1]
      BY <2>2, <3>1, <3>3, <1>1, FinishAnnotateEffect, FinishAnnotateView, <1>2, <1>3, Sorts, KeySorts DEF JoinOwes, JoinDue, JoinSwappedAt, JoinMarkedAt, FinAt, Finished, EntryAt, UnopenedAt, TrackerSet, Same, FinSame, ViewSame, MarksSame, OwnerSame
    <3> QED BY <3>2, <3>3
  <2> QED BY <2>1, <2>2, JoinOwedKept DEF Owned
<1>9. OneBusy'
  BY <1>4, OneBusyKept DEF Owned
<1>10. PendingFit'
  <2>1. KeepMark' = KeepMark
    BY <1>1, FinishAnnotateEffect, FinishAnnotateView, <1>2, <1>3 DEF ViewSame, MarksSame
  <2>2. \A u \in UnadoptPR : req'[u] = req[u]
    BY <1>1, FinishAnnotateEffect, FinishAnnotateView, <1>2, <1>3, Sorts DEF Others, Same
  <2>3. UNCHANGED <<marked, tick, listed>> /\ (Spent => Spent')
    BY <1>1, FinishAnnotateEffect, FinishAnnotateView, <1>2, <1>3
  <2> QED BY <2>1, <2>2, <2>3 DEF Owned, PendingFit, Running
<1>11. UnadoptInGit'
  <2>1. ASSUME NEW q \in UnadoptPR, q # f[1] PROVE UnadoptInGitAt(q)'
    <3>1. Same(q) /\ q \in PR /\ UnadoptInGitAt(q) /\ RequestAt(q) /\ FinAt(q) /\ EntryAt(q) /\ UnopenedAt(q)
      BY <2>1, FinishAnnotateEffect, UnadoptAt, FitsAt, Sorts DEF Others
    <3> QED BY <2>1, <3>1, <1>1, FinishAnnotateEffect, FinishAnnotateView, <1>2, <1>3, Sorts, KeySorts DEF UnadoptInGitAt, Busy, Running, RequestAt, BeforeOpen, FinAt, Finished, TrackerSet, Same, FinSame
  <2> QED BY <2>1, FinishAnnotateEffect, Sorts DEF UnadoptInGit
<1>12. UnadoptKnown'
  <2>1. \A u \in UnadoptPR : req'[u] = req[u]
    BY <1>1, FinishAnnotateEffect, FinishAnnotateView, <1>2, <1>3, Sorts DEF Others, Same
  <2>2. Ours /\ (Ours' <=> Ours)
    BY <1>1, FinishAnnotateEffect, FinishAnnotateView, <1>2, <1>3 DEF JoinSwappedAt, ViewSame, OwnerSame
  <2> QED BY <2>2 DEF UnadoptKnown
<1>13. UnadoptMarked'
  <2>1. ASSUME NEW q \in UnadoptPR, q # f[1] PROVE UnadoptMarkedAt(q)'
    <3>1. Same(q) /\ q \in PR /\ UnadoptMarkedAt(q) /\ RequestAt(q) /\ FinAt(q) /\ EntryAt(q) /\ UnopenedAt(q)
      BY <2>1, FinishAnnotateEffect, UnadoptAt, FitsAt, Sorts DEF Others
    <3> QED BY <2>1, <3>1, <1>1, FinishAnnotateEffect, FinishAnnotateView, <1>2, <1>3, Sorts, KeySorts DEF UnadoptMarkedAt, UnadoptKnown, KeptFor, Busy, Running, RequestAt, BeforeOpen, FinAt, Finished, Same, FinSame, ViewSame, MarksSame, OwnerSame
  <2> QED BY <2>1, FinishAnnotateEffect, Sorts DEF UnadoptMarked
<1>14. UnadoptStripped'
  <2>1. ASSUME NEW q \in UnadoptPR, q # f[1] PROVE UnadoptStrippedAt(q)'
    <3>1. Same(q) /\ q \in PR /\ UnadoptStrippedAt(q) /\ RequestAt(q) /\ FinAt(q) /\ EntryAt(q) /\ UnopenedAt(q)
      BY <2>1, FinishAnnotateEffect, UnadoptAt, FitsAt, Sorts DEF Others
    <3> QED BY <2>1, <3>1, <1>1, FinishAnnotateEffect, FinishAnnotateView, <1>2, <1>3, Sorts, KeySorts DEF UnadoptStrippedAt, JoinInGitAt, JoinBusy, Busy, RequestAt, BeforeOpen, FinAt, Finished, EntryAt, TrackerSet, Same, FinSame, ViewSame, MarksSame, OwnerSame
  <2> QED BY <2>1, FinishAnnotateEffect, Sorts DEF UnadoptStripped
<1>15. UnadoptOwed'
  <2>1. ~inGit' /\ Ours' => ~inGit /\ Ours
    BY <1>1, FinishAnnotateEffect, FinishAnnotateView, <1>2, <1>3 DEF UnadoptOwes, UnadoptDue, KeptFor, UnadoptStrippedAt, UnadoptMarkedAt, Busy, Running, RequestAt, BeforeOpen, FinAt, Finished, EntryAt, TrackerSet, Same, FinSame, ViewSame, MarksSame, OwnerSame
  <2>2. ASSUME NEW q \in UnadoptPR, ~inGit' /\ Ours', UnadoptOwes(q) PROVE UnadoptOwes(q)'
    <3>1. q \in PR /\ RequestAt(q) /\ FinAt(q) /\ EntryAt(q) /\ UnadoptInGitAt(q) /\ UnadoptMarkedAt(q) /\ UnadoptStrippedAt(q)
      BY UnadoptAt, FitsAt, Sorts
    <3>2. CASE q # f[1]
      <4>1. Same(q)
        BY <3>1, <3>2, FinishAnnotateEffect DEF Others
      <4> QED BY <2>2, <3>1, <4>1, <3>2, <1>1, FinishAnnotateEffect, FinishAnnotateView, <1>2, <1>3, Sorts, KeySorts, <1>4 DEF UnadoptOwes, UnadoptDue, KeptFor, UnadoptStrippedAt, UnadoptMarkedAt, Busy, Running, RequestAt, BeforeOpen, FinAt, Finished, EntryAt, TrackerSet, Same, FinSame, ViewSame, MarksSame, OwnerSame
    <3> QED BY <3>2, FinishAnnotateEffect, Sorts
  <2> QED BY <2>1, <2>2, UnadoptOwedKept DEF Owned
<1>16. PassInGit'
  BY <1>1, FinishAnnotateEffect, FinishAnnotateView, <1>2, <1>3, PassInGitFrame DEF Owned
<1> QED BY <1>5, <1>6, <1>7, <1>8, <1>9, <1>10, <1>11, <1>12, <1>13, <1>14, <1>15, <1>16 DEF Owned

LEMMA FinishCheckOwned ==
    ASSUME Fits, Fits', Owned, Exists, Exists', ~crossed', MaxFailures <= 1, NEW f \in Finisher, FinishCheck(f)
    PROVE  Owned'
<1>1. (Failure => ~Spent /\ Spent') /\ (NoFailure => (Spent' <=> Spent))
  BY SpentStep
<1>2. ViewSame
  BY FinishCheckEffect, ViewFrame
<1>3. f[1] \in PR /\ RequestAt(f[1]) /\ FinAt(f[1]) /\ EntryAt(f[1]) /\ UnopenedAt(f[1])
  BY FinishCheckEffect, Sorts, FitsAt
<1>4. UnadoptInGitAt(f[1]) /\ UnadoptMarkedAt(f[1]) /\ UnadoptStrippedAt(f[1])
  BY FinishCheckEffect, UnadoptAt
<1>5. Busy(f[1]) /\ \A v \in UnadoptPR : v # f[1] => ~Busy(v)
  BY FinishCheckEffect, UnadoptAt DEF Busy, Running
<1>6. \A v \in UnadoptPR : Busy(v)' => Busy(v)
  <2>1. ASSUME NEW v \in UnadoptPR, v # f[1] PROVE Busy(v)' => Busy(v)
    <3>1. v \in PR /\ Same(v)
      BY <2>1, FinishCheckEffect, Sorts DEF Others
    <3> QED BY <2>1, <3>1, <1>1, FinishCheckEffect, <1>2, <1>3, <1>4, <1>5, Sorts, KeySorts DEF Busy, Running, TrackerSet, Same, FinSame, ViewSame, MarksSame, OwnerSame, Same, FinSame
  <2>2. f[1] \in UnadoptPR => (Busy(f[1])' => Busy(f[1]))
    BY <1>1, FinishCheckEffect, <1>2, <1>3, <1>4, <1>5, Sorts, KeySorts DEF Busy, Running, TrackerSet, Same, FinSame, ViewSame, MarksSame, OwnerSame
  <2> QED BY <2>1, <2>2, Sorts, FinishCheckEffect
<1>7. JoinMarked'
  <2>1. ASSUME NEW q \in Join, q # f[1] PROVE JoinMarkedAt(q)'
    <3>1. Same(q) /\ q \in PR /\ JoinMarkedAt(q) /\ RequestAt(q) /\ FinAt(q) /\ EntryAt(q) /\ UnopenedAt(q)
      BY <2>1, FinishCheckEffect, JoinAt, FitsAt, Sorts DEF Others
    <3> QED BY <2>1, <3>1, <1>1, FinishCheckEffect, <1>2, <1>3, <1>4, <1>5, Sorts, KeySorts DEF JoinMarkedAt, RequestAt, BeforeOpen, UnopenedAt, Same, FinSame, ViewSame, MarksSame, OwnerSame
  <2> QED BY <2>1, FinishCheckEffect, Sorts DEF JoinMarked
<1>8. JoinSwapped'
  <2>1. ASSUME NEW q \in Join, q # f[1] PROVE JoinSwappedAt(q)'
    <3>1. Same(q) /\ q \in PR /\ JoinSwappedAt(q) /\ RequestAt(q) /\ FinAt(q) /\ EntryAt(q) /\ UnopenedAt(q)
      BY <2>1, FinishCheckEffect, JoinAt, FitsAt, Sorts DEF Others
    <3> QED BY <2>1, <3>1, <1>1, FinishCheckEffect, <1>2, <1>3, <1>4, <1>5, Sorts, KeySorts DEF JoinSwappedAt, JoinInGitAt, JoinBusy, FinAt, Finished, TrackerSet, Same, FinSame, ViewSame, MarksSame, OwnerSame
  <2> QED BY <2>1, FinishCheckEffect, Sorts DEF JoinSwapped
<1>9. JoinOwed'
  <2>1. inGit' /\ ~Ours' => inGit /\ ~Ours
    BY <1>1, FinishCheckEffect, <1>2, <1>3, <1>4, <1>5 DEF JoinOwes, JoinDue, JoinSwappedAt, JoinMarkedAt, FinAt, Finished, EntryAt, UnopenedAt, TrackerSet, Same, FinSame, ViewSame, MarksSame, OwnerSame
  <2>2. ASSUME NEW q \in Join, inGit' /\ ~Ours', JoinOwes(q) PROVE JoinOwes(q)'
    <3>1. q \in PR /\ RequestAt(q) /\ FinAt(q) /\ EntryAt(q) /\ JoinInGitAt(q) /\ JoinMarkedAt(q) /\ JoinSwappedAt(q)
      BY JoinAt, FitsAt, Sorts
    <3>2. CASE q # f[1]
      <4>1. Same(q)
        BY <3>1, <3>2, FinishCheckEffect DEF Others
      <4> QED BY <2>2, <3>1, <4>1, <3>2, <1>1, FinishCheckEffect, <1>2, <1>3, <1>4, <1>5, Sorts, KeySorts DEF JoinOwes, JoinDue, JoinSwappedAt, JoinMarkedAt, FinAt, Finished, EntryAt, UnopenedAt, TrackerSet, Same, FinSame, ViewSame, MarksSame, OwnerSame
    <3> QED BY <3>2, FinishCheckEffect, Sorts
  <2> QED BY <2>1, <2>2, JoinOwedKept DEF Owned
<1>10. OneBusy'
  BY <1>6, OneBusyKept DEF Owned
<1>11. PendingFit'
  BY <1>1, FinishCheckEffect, <1>2, <1>3, <1>4, <1>5, Sorts, KeySorts DEF Owned, Fits, PendingFit, Running, RequestsFit, RequestAt, MarksFit, Nothing, Same, FinSame, ViewSame, MarksSame, OwnerSame, Others
<1>12. UnadoptInGit'
  <2>1. ASSUME NEW q \in UnadoptPR, q # f[1] PROVE UnadoptInGitAt(q)'
    <3>1. Same(q) /\ q \in PR /\ UnadoptInGitAt(q) /\ RequestAt(q) /\ FinAt(q) /\ EntryAt(q) /\ UnopenedAt(q)
      BY <2>1, FinishCheckEffect, UnadoptAt, FitsAt, Sorts DEF Others
    <3> QED BY <2>1, <3>1, <1>1, FinishCheckEffect, <1>2, <1>3, <1>4, <1>5, Sorts, KeySorts DEF UnadoptInGitAt, Busy, Running, RequestAt, BeforeOpen, FinAt, Finished, TrackerSet, Same, FinSame
  <2>2. f[1] \in UnadoptPR => UnadoptInGitAt(f[1])'
    BY <1>1, FinishCheckEffect, <1>2, <1>3, <1>4, <1>5, Sorts, KeySorts, UnadoptAt, JoinAt DEF UnadoptInGitAt, Busy, Running, RequestAt, BeforeOpen, FinAt, Finished, TrackerSet, Same, FinSame
  <2> QED BY <2>1, <2>2 DEF UnadoptInGit
<1>13. UnadoptKnown'
  BY <1>1, FinishCheckEffect, <1>2, <1>3, <1>4, <1>5, Sorts, KeySorts DEF Owned, Fits, UnadoptKnown, Busy, Running, PendingFit, RequestAt, BeforeOpen, FinAt, Finished, Same, FinSame, ViewSame, MarksSame, OwnerSame, Others
<1>14. UnadoptMarked'
  <2>1. ASSUME NEW q \in UnadoptPR, q # f[1] PROVE UnadoptMarkedAt(q)'
    <3>1. Same(q) /\ q \in PR /\ UnadoptMarkedAt(q) /\ RequestAt(q) /\ FinAt(q) /\ EntryAt(q) /\ UnopenedAt(q)
      BY <2>1, FinishCheckEffect, UnadoptAt, FitsAt, Sorts DEF Others
    <3> QED BY <2>1, <3>1, <1>1, FinishCheckEffect, <1>2, <1>3, <1>4, <1>5, Sorts, KeySorts DEF UnadoptMarkedAt, UnadoptKnown, KeptFor, Busy, Running, RequestAt, BeforeOpen, FinAt, Finished, Same, FinSame, ViewSame, MarksSame, OwnerSame
  <2>2. f[1] \in UnadoptPR => UnadoptMarkedAt(f[1])'
    BY <1>1, FinishCheckEffect, <1>2, <1>3, <1>4, <1>5, Sorts, KeySorts, UnadoptAt, JoinAt DEF UnadoptMarkedAt, UnadoptKnown, KeptFor, Busy, Running, RequestAt, BeforeOpen, FinAt, Finished, Same, FinSame, ViewSame, MarksSame, OwnerSame
  <2> QED BY <2>1, <2>2 DEF UnadoptMarked
<1>15. UnadoptStripped'
  <2>1. ASSUME NEW q \in UnadoptPR, q # f[1] PROVE UnadoptStrippedAt(q)'
    <3>1. Same(q) /\ q \in PR /\ UnadoptStrippedAt(q) /\ RequestAt(q) /\ FinAt(q) /\ EntryAt(q) /\ UnopenedAt(q)
      BY <2>1, FinishCheckEffect, UnadoptAt, FitsAt, Sorts DEF Others
    <3> QED BY <2>1, <3>1, <1>1, FinishCheckEffect, <1>2, <1>3, <1>4, <1>5, Sorts, KeySorts DEF UnadoptStrippedAt, JoinInGitAt, JoinBusy, Busy, RequestAt, BeforeOpen, FinAt, Finished, EntryAt, TrackerSet, Same, FinSame, ViewSame, MarksSame, OwnerSame
  <2>2. f[1] \in UnadoptPR => UnadoptStrippedAt(f[1])'
    BY <1>1, FinishCheckEffect, <1>2, <1>3, <1>4, <1>5, Sorts, KeySorts, UnadoptAt, JoinAt DEF UnadoptStrippedAt, JoinInGitAt, JoinBusy, Busy, RequestAt, BeforeOpen, FinAt, Finished, EntryAt, TrackerSet, Same, FinSame, ViewSame, MarksSame, OwnerSame
  <2> QED BY <2>1, <2>2 DEF UnadoptStripped
<1>16. UnadoptOwed'
  <2>1. ~inGit' /\ Ours' => ~inGit /\ Ours
    BY <1>1, FinishCheckEffect, <1>2, <1>3, <1>4, <1>5 DEF UnadoptOwes, UnadoptDue, KeptFor, UnadoptStrippedAt, UnadoptMarkedAt, Busy, Running, RequestAt, BeforeOpen, FinAt, Finished, EntryAt, TrackerSet, Same, FinSame, ViewSame, MarksSame, OwnerSame
  <2>2. ASSUME NEW q \in UnadoptPR, ~inGit' /\ Ours', UnadoptOwes(q) PROVE UnadoptOwes(q)'
    <3>1. q \in PR /\ RequestAt(q) /\ FinAt(q) /\ EntryAt(q) /\ UnadoptInGitAt(q) /\ UnadoptMarkedAt(q) /\ UnadoptStrippedAt(q)
      BY UnadoptAt, FitsAt, Sorts
    <3>2. CASE q # f[1]
      <4>1. Same(q)
        BY <3>1, <3>2, FinishCheckEffect DEF Others
      <4> QED BY <2>2, <3>1, <4>1, <3>2, <1>1, FinishCheckEffect, <1>2, <1>3, <1>4, <1>5, Sorts, KeySorts, <1>6 DEF UnadoptOwes, UnadoptDue, KeptFor, UnadoptStrippedAt, UnadoptMarkedAt, Busy, Running, RequestAt, BeforeOpen, FinAt, Finished, EntryAt, TrackerSet, Same, FinSame, ViewSame, MarksSame, OwnerSame
    <3>3. CASE q = f[1]
      BY <2>2, <3>1, <3>3, <1>1, FinishCheckEffect, <1>2, <1>3, <1>4, <1>5, Sorts, KeySorts, <1>6 DEF UnadoptOwes, UnadoptDue, KeptFor, UnadoptStrippedAt, UnadoptMarkedAt, Busy, Running, RequestAt, BeforeOpen, FinAt, Finished, EntryAt, TrackerSet, Same, FinSame, ViewSame, MarksSame, OwnerSame
    <3> QED BY <3>2, <3>3
  <2> QED BY <2>1, <2>2, UnadoptOwedKept DEF Owned
<1>17. JoinInGit' /\ PassInGit'
  BY <1>1, FinishCheckEffect, <1>2, <1>3, <1>4, <1>5, JoinInGitFrame, PassInGitFrame DEF Owned
<1> QED BY <1>7, <1>8, <1>9, <1>10, <1>11, <1>12, <1>13, <1>14, <1>15, <1>16, <1>17 DEF Owned

LEMMA FinishStripOwned ==
    ASSUME Fits, Fits', Owned, Exists, Exists', ~crossed', MaxFailures <= 1, NEW f \in Finisher, FinishStrip(f)
    PROVE  Owned'
<1>1. (Failure => ~Spent /\ Spent') /\ (NoFailure => (Spent' <=> Spent))
  BY SpentStep
<1>2. f[1] \in PR /\ RequestAt(f[1]) /\ FinAt(f[1]) /\ EntryAt(f[1]) /\ UnopenedAt(f[1])
  BY FinishStripEffect, Sorts, FitsAt
<1>3. UnadoptInGitAt(f[1]) /\ UnadoptMarkedAt(f[1]) /\ UnadoptStrippedAt(f[1])
  BY FinishStripEffect, UnadoptAt
<1>4. Busy(f[1]) /\ \A v \in UnadoptPR : v # f[1] => ~Busy(v)
  BY FinishStripEffect, UnadoptAt DEF Busy, Running, RunAt
<1>5. \A v \in UnadoptPR : Busy(v)' => Busy(v)
  <2>1. ASSUME NEW v \in UnadoptPR, v # f[1] PROVE Busy(v)' => Busy(v)
    <3>1. v \in PR /\ Same(v)
      BY <2>1, FinishStripEffect, Sorts DEF Others
    <3> QED BY <2>1, <3>1, <1>1, FinishStripEffect, FinishStripView, <1>2, <1>3, <1>4, Sorts, KeySorts DEF Busy, Running, RunSet, RunAt, Same, FinSame, TrackerSet, RequestSet, ViewSame, MarksSame, OwnerSame, Same, FinSame
  <2>2. f[1] \in UnadoptPR => (Busy(f[1])' => Busy(f[1]))
    BY <1>1, FinishStripEffect, FinishStripView, <1>2, <1>3, <1>4, Sorts, KeySorts DEF Busy, Running, RunSet, RunAt, Same, FinSame, TrackerSet, RequestSet, ViewSame, MarksSame, OwnerSame, RunAt
  <2> QED BY <2>1, <2>2, Sorts, FinishStripEffect
<1>6. JoinInGit'
  <2>1. ASSUME NEW q \in Join, q # f[1] PROVE JoinInGitAt(q)'
    <3>1. Same(q) /\ q \in PR /\ JoinInGitAt(q) /\ RequestAt(q) /\ FinAt(q) /\ EntryAt(q) /\ UnopenedAt(q)
      BY <2>1, FinishStripEffect, JoinAt, FitsAt, Sorts DEF Others
    <3> QED BY <2>1, <3>1, <1>1, FinishStripEffect, FinishStripView, <1>2, <1>3, <1>4, Sorts, KeySorts DEF JoinInGitAt, JoinBusy, Running, FinAt, Finished, RunAt, Same, FinSame, ViewSame, MarksSame, OwnerSame
  <2> QED BY <2>1, FinishStripEffect, Sorts DEF JoinInGit
<1>7. JoinMarked'
  <2>1. ASSUME NEW q \in Join, q # f[1] PROVE JoinMarkedAt(q)'
    <3>1. Same(q) /\ q \in PR /\ JoinMarkedAt(q) /\ RequestAt(q) /\ FinAt(q) /\ EntryAt(q) /\ UnopenedAt(q)
      BY <2>1, FinishStripEffect, JoinAt, FitsAt, Sorts DEF Others
    <3> QED BY <2>1, <3>1, <1>1, FinishStripEffect, FinishStripView, <1>2, <1>3, <1>4, Sorts, KeySorts DEF JoinMarkedAt, RequestAt, BeforeOpen, UnopenedAt, RunAt, Same, FinSame, ViewSame, MarksSame, OwnerSame
  <2> QED BY <2>1, FinishStripEffect, Sorts DEF JoinMarked
<1>8. JoinSwapped'
  <2>1. ASSUME NEW q \in Join, q # f[1] PROVE JoinSwappedAt(q)'
    <3>1. Same(q) /\ q \in PR /\ JoinSwappedAt(q) /\ RequestAt(q) /\ FinAt(q) /\ EntryAt(q) /\ UnopenedAt(q)
      BY <2>1, FinishStripEffect, JoinAt, FitsAt, Sorts DEF Others
    <3>2. ~inGit
      BY <1>1, FinishStripEffect, FinishStripView, <1>2, <1>3, <1>4 DEF RunAt, UnadoptInGitAt
    <3>3. TrackerStep(q) \notin {"annotate", "unmark"} /\ req[q] # "annotate"
      BY <2>1, <3>1, <3>2, JoinAt DEF JoinInGitAt, JoinBusy, FinAt
    <3> QED BY <3>1, <3>3 DEF JoinSwappedAt, Same, FinSame
  <2> QED BY <2>1, FinishStripEffect, Sorts DEF JoinSwapped
<1>9. JoinOwed'
  <2>1. inGit' /\ ~Ours' => inGit /\ ~Ours
    BY <1>1, FinishStripEffect, FinishStripView, <1>2, <1>3, <1>4 DEF RunAt, UnadoptInGitAt
  <2>2. ASSUME NEW q \in Join, inGit' /\ ~Ours', JoinOwes(q) PROVE JoinOwes(q)'
    <3>1. q \in PR /\ RequestAt(q) /\ FinAt(q) /\ EntryAt(q) /\ JoinInGitAt(q) /\ JoinMarkedAt(q) /\ JoinSwappedAt(q)
      BY JoinAt, FitsAt, Sorts
    <3>2. CASE q # f[1]
      <4>1. Same(q)
        BY <3>1, <3>2, FinishStripEffect DEF Others
      <4> QED BY <2>2, <3>1, <4>1, <3>2, <1>1, FinishStripEffect, FinishStripView, <1>2, <1>3, <1>4, Sorts, KeySorts DEF JoinOwes, JoinDue, JoinSwappedAt, JoinMarkedAt, FinAt, Finished, EntryAt, UnopenedAt, RunSet, RunAt, Same, FinSame, TrackerSet, RequestSet, ViewSame, MarksSame, OwnerSame
    <3> QED BY <3>2, FinishStripEffect, Sorts
  <2> QED BY <2>1, <2>2, JoinOwedKept DEF Owned
<1>10. OneBusy'
  BY <1>5, OneBusyKept DEF Owned
<1>11. PendingFit'
  <2>1. KeepMark' = KeepMark
    BY <1>1, FinishStripEffect, FinishStripView, <1>2, <1>3, <1>4 DEF ViewSame, MarksSame
  <2>2. \A u \in UnadoptPR : req'[u] = req[u]
    BY <1>1, FinishStripEffect, FinishStripView, <1>2, <1>3, <1>4, Sorts DEF Others, Same
  <2>3. UNCHANGED <<marked, tick, listed>> /\ (Spent => Spent')
    BY <1>1, FinishStripEffect, FinishStripView, <1>2, <1>3, <1>4
  <2> QED BY <2>1, <2>2, <2>3 DEF Owned, PendingFit, Running
<1>12. UnadoptInGit'
  <2>1. ASSUME NEW q \in UnadoptPR, q # f[1] PROVE UnadoptInGitAt(q)'
    <3>1. Same(q) /\ q \in PR /\ UnadoptInGitAt(q) /\ RequestAt(q) /\ FinAt(q) /\ EntryAt(q) /\ UnopenedAt(q)
      BY <2>1, FinishStripEffect, UnadoptAt, FitsAt, Sorts DEF Others
    <3> QED BY <2>1, <3>1, <1>1, FinishStripEffect, FinishStripView, <1>2, <1>3, <1>4, Sorts, KeySorts DEF UnadoptInGitAt, Busy, Running, RequestAt, BeforeOpen, FinAt, Finished, RunSet, RunAt, Same, FinSame, TrackerSet, RequestSet
  <2>2. f[1] \in UnadoptPR => UnadoptInGitAt(f[1])'
    BY <1>1, FinishStripEffect, FinishStripView, <1>2, <1>3, <1>4, Sorts, KeySorts, UnadoptAt, JoinAt DEF UnadoptInGitAt, Busy, Running, RequestAt, BeforeOpen, FinAt, Finished, RunSet, RunAt, Same, FinSame, TrackerSet, RequestSet
  <2> QED BY <2>1, <2>2 DEF UnadoptInGit
<1>13. UnadoptKnown'
  BY <1>1, FinishStripEffect, FinishStripView, <1>2, <1>3, <1>4, Sorts, KeySorts DEF Owned, Fits, UnadoptKnown, Busy, Running, PendingFit, RequestAt, BeforeOpen, FinAt, Finished, RunAt, Same, FinSame, ViewSame, MarksSame, OwnerSame, Others
<1>14. UnadoptMarked'
  <2>1. ASSUME NEW q \in UnadoptPR, q # f[1] PROVE UnadoptMarkedAt(q)'
    <3>1. Same(q) /\ q \in PR /\ UnadoptMarkedAt(q) /\ RequestAt(q) /\ FinAt(q) /\ EntryAt(q) /\ UnopenedAt(q)
      BY <2>1, FinishStripEffect, UnadoptAt, FitsAt, Sorts DEF Others
    <3> QED BY <2>1, <3>1, <1>1, FinishStripEffect, FinishStripView, <1>2, <1>3, <1>4, Sorts, KeySorts DEF UnadoptMarkedAt, UnadoptKnown, KeptFor, Busy, Running, RequestAt, BeforeOpen, FinAt, Finished, RunAt, Same, FinSame, ViewSame, MarksSame, OwnerSame
  <2>2. f[1] \in UnadoptPR => UnadoptMarkedAt(f[1])'
    BY <1>1, FinishStripEffect, FinishStripView, <1>2, <1>3, <1>4, Sorts, KeySorts, UnadoptAt, JoinAt DEF UnadoptMarkedAt, UnadoptKnown, KeptFor, Busy, Running, RequestAt, BeforeOpen, FinAt, Finished, RunAt, Same, FinSame, ViewSame, MarksSame, OwnerSame
  <2> QED BY <2>1, <2>2 DEF UnadoptMarked
<1>15. UnadoptStripped'
  <2>1. ASSUME NEW q \in UnadoptPR, q # f[1] PROVE UnadoptStrippedAt(q)'
    <3>1. Same(q) /\ q \in PR /\ UnadoptStrippedAt(q) /\ RequestAt(q) /\ FinAt(q) /\ EntryAt(q) /\ UnopenedAt(q)
      BY <2>1, FinishStripEffect, UnadoptAt, FitsAt, Sorts DEF Others
    <3> QED BY <2>1, <3>1, <1>1, FinishStripEffect, FinishStripView, <1>2, <1>3, <1>4, Sorts, KeySorts DEF UnadoptStrippedAt, JoinInGitAt, JoinBusy, Busy, RequestAt, BeforeOpen, FinAt, Finished, EntryAt, RunSet, RunAt, Same, FinSame, TrackerSet, RequestSet, ViewSame, MarksSame, OwnerSame
  <2>2. f[1] \in UnadoptPR => UnadoptStrippedAt(f[1])'
    <3>1. CASE ~Ours' /\ ~inGit /\ (RunSet(f, "done") \/ RunSet(f, "unmark"))
      BY <3>1, <1>1, FinishStripEffect, FinishStripView, <1>2, <1>3, <1>4 DEF UnadoptStrippedAt, RunSet, TrackerSet, RequestSet
    <3>2. CASE ViewSame /\ RunSet(f, "failed")
      BY <3>2, <1>1, FinishStripEffect, FinishStripView, <1>2, <1>3, <1>4 DEF UnadoptStrippedAt, RunSet, TrackerSet, RequestSet, ViewSame, OwnerSame
    <3> QED BY <3>1, <3>2, <1>1, FinishStripEffect, FinishStripView, <1>2, <1>3, <1>4 DEF RunAt, UnadoptInGitAt
  <2> QED BY <2>1, <2>2 DEF UnadoptStripped
<1>16. UnadoptOwed'
  <2>1. ~inGit' /\ Ours' => ~inGit /\ Ours
    BY <1>1, FinishStripEffect, FinishStripView, <1>2, <1>3, <1>4 DEF UnadoptOwes, UnadoptDue, KeptFor, UnadoptStrippedAt, UnadoptMarkedAt, Busy, Running, RequestAt, BeforeOpen, FinAt, Finished, EntryAt, RunSet, RunAt, Same, FinSame, TrackerSet, RequestSet, ViewSame, MarksSame, OwnerSame
  <2>2. ASSUME NEW q \in UnadoptPR, ~inGit' /\ Ours', UnadoptOwes(q) PROVE UnadoptOwes(q)'
    <3>1. q \in PR /\ RequestAt(q) /\ FinAt(q) /\ EntryAt(q) /\ UnadoptInGitAt(q) /\ UnadoptMarkedAt(q) /\ UnadoptStrippedAt(q)
      BY UnadoptAt, FitsAt, Sorts
    <3>2. CASE q # f[1]
      <4>1. Same(q)
        BY <3>1, <3>2, FinishStripEffect DEF Others
      <4> QED BY <2>2, <3>1, <4>1, <3>2, <1>1, FinishStripEffect, FinishStripView, <1>2, <1>3, <1>4, Sorts, KeySorts, <1>5 DEF UnadoptOwes, UnadoptDue, KeptFor, UnadoptStrippedAt, UnadoptMarkedAt, Busy, Running, RequestAt, BeforeOpen, FinAt, Finished, EntryAt, RunSet, RunAt, Same, FinSame, TrackerSet, RequestSet, ViewSame, MarksSame, OwnerSame
    <3>3. CASE q = f[1]
      <4>1. ViewSame /\ Failure
        BY <2>2, <1>1, FinishStripView
      <4>2. KeptFor(q)
        <5>1. ~Spent
          BY <4>1, Sorts DEF Failure, Spent
        <5> QED BY <2>2, <5>1 DEF UnadoptOwes
      <4>3. KeptFor(q)' /\ Finished(q)'
        BY <2>2, <4>1, <4>2, FinishStripEffect DEF KeptFor, ViewSame, MarksSame, UnadoptOwes, Finished
      <4>4. \A v \in UnadoptPR : v # q => ~Busy(v)'
        BY <2>2, <1>5 DEF UnadoptOwes
      <4> QED BY <4>3, <4>4 DEF UnadoptOwes
    <3> QED BY <3>2, <3>3
  <2> QED BY <2>1, <2>2, UnadoptOwedKept DEF Owned
<1>17. PassInGit'
  BY <1>1, FinishStripEffect, FinishStripView, <1>2, <1>3, <1>4, PassInGitFrame DEF Owned
<1> QED BY <1>6, <1>7, <1>8, <1>9, <1>10, <1>11, <1>12, <1>13, <1>14, <1>15, <1>16, <1>17 DEF Owned

LEMMA FinishUnmarkOwned ==
    ASSUME Fits, Fits', Owned, Exists, Exists', ~crossed', MaxFailures <= 1, NEW f \in Finisher, FinishUnmark(f)
    PROVE  Owned'
<1>1. (Failure => ~Spent /\ Spent') /\ (NoFailure => (Spent' <=> Spent))
  BY SpentStep
<1>2. f[1] \in PR /\ RequestAt(f[1]) /\ FinAt(f[1]) /\ EntryAt(f[1]) /\ UnopenedAt(f[1])
  BY FinishUnmarkEffect, Sorts, FitsAt
<1>3. /\ f[1] \in Join => JoinInGitAt(f[1]) /\ JoinMarkedAt(f[1]) /\ JoinSwappedAt(f[1])
      /\ f[1] \in UnadoptPR => UnadoptInGitAt(f[1]) /\ UnadoptMarkedAt(f[1]) /\ UnadoptStrippedAt(f[1])
      /\ f[1] \in UnadoptPR /\ Busy(f[1]) => \A v \in UnadoptPR : v # f[1] => ~Busy(v)
  BY JoinAt, UnadoptAt
<1>4. \A v \in UnadoptPR : Busy(v)' => Busy(v)
  <2>1. ASSUME NEW v \in UnadoptPR, v # f[1] PROVE Busy(v)' => Busy(v)
    <3>1. v \in PR /\ Same(v)
      BY <2>1, FinishUnmarkEffect, Sorts DEF Others
    <3> QED BY <2>1, <3>1, <1>1, FinishUnmarkEffect, FinishUnmarkView, <1>2, <1>3, Sorts, KeySorts DEF Busy, Running, RunSet, RunAt, Same, FinSame, TrackerSet, RequestSet, ViewSame, KeepMarkPut, JoinMarkOff, MarksSame, OwnerSame, Same, FinSame
  <2>2. f[1] \in UnadoptPR => (Busy(f[1])' => Busy(f[1]))
    BY <1>1, FinishUnmarkEffect, FinishUnmarkView, <1>2, <1>3, Sorts, KeySorts DEF Busy, Running, RunSet, RunAt, Same, FinSame, TrackerSet, RequestSet, ViewSame, KeepMarkPut, JoinMarkOff, MarksSame, OwnerSame, RunAt
  <2> QED BY <2>1, <2>2, Sorts, FinishUnmarkEffect
<1>5. JoinInGit'
  <2>1. ASSUME NEW q \in Join, q # f[1] PROVE JoinInGitAt(q)'
    <3>1. Same(q) /\ q \in PR /\ JoinInGitAt(q) /\ RequestAt(q) /\ FinAt(q) /\ EntryAt(q) /\ UnopenedAt(q)
      BY <2>1, FinishUnmarkEffect, JoinAt, FitsAt, Sorts DEF Others
    <3> QED BY <2>1, <3>1, <1>1, FinishUnmarkEffect, FinishUnmarkView, <1>2, <1>3, Sorts, KeySorts DEF JoinInGitAt, JoinBusy, Running, FinAt, Finished, RunAt, Same, FinSame, ViewSame, KeepMarkPut, JoinMarkOff, MarksSame, OwnerSame
  <2>2. f[1] \in Join => JoinInGitAt(f[1])'
    BY <1>1, FinishUnmarkEffect, FinishUnmarkView, <1>2, <1>3, Sorts, KeySorts, UnadoptAt, JoinAt DEF JoinInGitAt, JoinBusy, Running, FinAt, Finished, RunAt, Same, FinSame, ViewSame, KeepMarkPut, JoinMarkOff, MarksSame, OwnerSame
  <2> QED BY <2>1, <2>2 DEF JoinInGit
<1>6. JoinMarked'
  <2>1. ASSUME NEW q \in Join, q # f[1] PROVE JoinMarkedAt(q)'
    <3>1. Same(q) /\ q \in PR /\ JoinMarkedAt(q) /\ RequestAt(q) /\ FinAt(q) /\ EntryAt(q) /\ UnopenedAt(q)
      BY <2>1, FinishUnmarkEffect, JoinAt, FitsAt, Sorts DEF Others
    <3> QED BY <2>1, <3>1, <1>1, FinishUnmarkEffect, FinishUnmarkView, <1>2, <1>3, Sorts, KeySorts DEF JoinMarkedAt, RequestAt, BeforeOpen, UnopenedAt, RunAt, Same, FinSame, ViewSame, KeepMarkPut, JoinMarkOff, MarksSame, OwnerSame
  <2>2. f[1] \in Join => JoinMarkedAt(f[1])'
    <3>1. git'[f[1]] # "open"
      <4>1. TrackerStep(f[1]) # "idle" \/ RequestStep(f[1]) # "idle"
        BY <1>1, FinishUnmarkEffect, FinishUnmarkView, <1>2, <1>3 DEF RunAt
      <4> QED BY <4>1, <1>1, FinishUnmarkEffect, FinishUnmarkView, <1>2, <1>3, Sorts DEF FinAt
    <3> QED BY <3>1 DEF JoinMarkedAt
  <2> QED BY <2>1, <2>2 DEF JoinMarked
<1>7. JoinSwapped'
  <2>1. ASSUME NEW q \in Join, q # f[1] PROVE JoinSwappedAt(q)'
    <3>1. Same(q) /\ q \in PR /\ JoinSwappedAt(q) /\ RequestAt(q) /\ FinAt(q) /\ EntryAt(q) /\ UnopenedAt(q)
      BY <2>1, FinishUnmarkEffect, JoinAt, FitsAt, Sorts DEF Others
    <3> QED BY <2>1, <3>1, <1>1, FinishUnmarkEffect, FinishUnmarkView, <1>2, <1>3, Sorts, KeySorts DEF JoinSwappedAt, JoinInGitAt, JoinBusy, FinAt, Finished, RunSet, RunAt, Same, FinSame, TrackerSet, RequestSet, ViewSame, KeepMarkPut, JoinMarkOff, MarksSame, OwnerSame
  <2>2. f[1] \in Join => JoinSwappedAt(f[1])'
    BY <1>1, FinishUnmarkEffect, FinishUnmarkView, <1>2, <1>3, Sorts, KeySorts, UnadoptAt, JoinAt DEF JoinSwappedAt, JoinInGitAt, JoinBusy, FinAt, Finished, RunSet, RunAt, Same, FinSame, TrackerSet, RequestSet, ViewSame, KeepMarkPut, JoinMarkOff, MarksSame, OwnerSame
  <2> QED BY <2>1, <2>2 DEF JoinSwapped
<1>8. JoinOwed'
  <2>1. inGit' /\ ~Ours' => inGit /\ ~Ours
    BY <1>1, FinishUnmarkEffect, FinishUnmarkView, <1>2, <1>3 DEF JoinOwes, JoinDue, JoinSwappedAt, JoinMarkedAt, FinAt, Finished, EntryAt, UnopenedAt, RunSet, RunAt, Same, FinSame, TrackerSet, RequestSet, ViewSame, KeepMarkPut, JoinMarkOff, MarksSame, OwnerSame
  <2>2. ASSUME NEW q \in Join, inGit' /\ ~Ours', JoinOwes(q) PROVE JoinOwes(q)'
    <3>1. q \in PR /\ RequestAt(q) /\ FinAt(q) /\ EntryAt(q) /\ JoinInGitAt(q) /\ JoinMarkedAt(q) /\ JoinSwappedAt(q)
      BY JoinAt, FitsAt, Sorts
    <3>2. CASE q # f[1]
      <4>1. Same(q)
        BY <3>1, <3>2, FinishUnmarkEffect DEF Others
      <4> QED BY <2>2, <3>1, <4>1, <3>2, <1>1, FinishUnmarkEffect, FinishUnmarkView, <1>2, <1>3, Sorts, KeySorts DEF JoinOwes, JoinDue, JoinSwappedAt, JoinMarkedAt, FinAt, Finished, EntryAt, UnopenedAt, RunSet, RunAt, Same, FinSame, TrackerSet, RequestSet, ViewSame, KeepMarkPut, JoinMarkOff, MarksSame, OwnerSame
    <3>3. CASE q = f[1]
      BY <2>2, <3>1, <3>3, <1>1, FinishUnmarkEffect, FinishUnmarkView, <1>2, <1>3, Sorts, KeySorts DEF JoinOwes, JoinDue, JoinSwappedAt, JoinMarkedAt, FinAt, Finished, EntryAt, UnopenedAt, RunSet, RunAt, Same, FinSame, TrackerSet, RequestSet, ViewSame, KeepMarkPut, JoinMarkOff, MarksSame, OwnerSame
    <3> QED BY <3>2, <3>3
  <2> QED BY <2>1, <2>2, JoinOwedKept DEF Owned
<1>9. OneBusy'
  BY <1>4, OneBusyKept DEF Owned
<1>10. PendingFit'
  BY <1>1, FinishUnmarkEffect, FinishUnmarkView, <1>2, <1>3, Sorts, KeySorts DEF Owned, Fits, PendingFit, Running, RequestsFit, RequestAt, MarksFit, Nothing, RunAt, Same, FinSame, ViewSame, KeepMarkPut, JoinMarkOff, MarksSame, OwnerSame, Others
<1>11. UnadoptInGit'
  <2>1. ASSUME NEW q \in UnadoptPR, q # f[1] PROVE UnadoptInGitAt(q)'
    <3>1. Same(q) /\ q \in PR /\ UnadoptInGitAt(q) /\ RequestAt(q) /\ FinAt(q) /\ EntryAt(q) /\ UnopenedAt(q)
      BY <2>1, FinishUnmarkEffect, UnadoptAt, FitsAt, Sorts DEF Others
    <3> QED BY <2>1, <3>1, <1>1, FinishUnmarkEffect, FinishUnmarkView, <1>2, <1>3, Sorts, KeySorts DEF UnadoptInGitAt, Busy, Running, RequestAt, BeforeOpen, FinAt, Finished, RunSet, RunAt, Same, FinSame, TrackerSet, RequestSet
  <2>2. f[1] \in UnadoptPR => UnadoptInGitAt(f[1])'
    BY <1>1, FinishUnmarkEffect, FinishUnmarkView, <1>2, <1>3, Sorts, KeySorts, UnadoptAt, JoinAt DEF UnadoptInGitAt, Busy, Running, RequestAt, BeforeOpen, FinAt, Finished, RunSet, RunAt, Same, FinSame, TrackerSet, RequestSet
  <2> QED BY <2>1, <2>2 DEF UnadoptInGit
<1>12. UnadoptKnown'
  BY <1>1, FinishUnmarkEffect, FinishUnmarkView, <1>2, <1>3, Sorts, KeySorts DEF Owned, Fits, UnadoptKnown, Busy, Running, PendingFit, RequestAt, BeforeOpen, FinAt, Finished, RunAt, Same, FinSame, ViewSame, KeepMarkPut, JoinMarkOff, MarksSame, OwnerSame, Others
<1>13. UnadoptMarked'
  <2>1. ASSUME NEW q \in UnadoptPR, q # f[1] PROVE UnadoptMarkedAt(q)'
    <3>1. Same(q) /\ q \in PR /\ UnadoptMarkedAt(q) /\ RequestAt(q) /\ FinAt(q) /\ EntryAt(q) /\ UnopenedAt(q)
      BY <2>1, FinishUnmarkEffect, UnadoptAt, FitsAt, Sorts DEF Others
    <3> QED BY <2>1, <3>1, <1>1, FinishUnmarkEffect, FinishUnmarkView, <1>2, <1>3, Sorts, KeySorts DEF UnadoptMarkedAt, UnadoptKnown, KeptFor, Busy, Running, RequestAt, BeforeOpen, FinAt, Finished, RunAt, Same, FinSame, ViewSame, KeepMarkPut, JoinMarkOff, MarksSame, OwnerSame
  <2>2. f[1] \in UnadoptPR => UnadoptMarkedAt(f[1])'
    <3>1. git'[f[1]] # "open"
      <4>1. TrackerStep(f[1]) # "idle" \/ RequestStep(f[1]) # "idle"
        BY <1>1, FinishUnmarkEffect, FinishUnmarkView, <1>2, <1>3 DEF RunAt
      <4> QED BY <4>1, <1>1, FinishUnmarkEffect, FinishUnmarkView, <1>2, <1>3, Sorts DEF FinAt
    <3>2. f[1] \in UnadoptPR => req'[f[1]] # "open"
      BY <1>1, FinishUnmarkEffect, FinishUnmarkView, <1>2, <1>3 DEF RunAt, FinAt, RequestAt, BeforeOpen, UnopenedAt
    <3> QED BY <3>1, <3>2 DEF UnadoptMarkedAt
  <2> QED BY <2>1, <2>2 DEF UnadoptMarked
<1>14. UnadoptStripped'
  <2>1. ASSUME NEW q \in UnadoptPR, q # f[1] PROVE UnadoptStrippedAt(q)'
    <3>1. Same(q) /\ q \in PR /\ UnadoptStrippedAt(q) /\ RequestAt(q) /\ FinAt(q) /\ EntryAt(q) /\ UnopenedAt(q)
      BY <2>1, FinishUnmarkEffect, UnadoptAt, FitsAt, Sorts DEF Others
    <3> QED BY <2>1, <3>1, <1>1, FinishUnmarkEffect, FinishUnmarkView, <1>2, <1>3, Sorts, KeySorts DEF UnadoptStrippedAt, JoinInGitAt, JoinBusy, Busy, RequestAt, BeforeOpen, FinAt, Finished, EntryAt, RunSet, RunAt, Same, FinSame, TrackerSet, RequestSet, ViewSame, KeepMarkPut, JoinMarkOff, MarksSame, OwnerSame
  <2>2. f[1] \in UnadoptPR => UnadoptStrippedAt(f[1])'
    BY <1>1, FinishUnmarkEffect, FinishUnmarkView, <1>2, <1>3, Sorts, KeySorts, UnadoptAt, JoinAt DEF UnadoptStrippedAt, JoinInGitAt, JoinBusy, Busy, RequestAt, BeforeOpen, FinAt, Finished, EntryAt, RunSet, RunAt, Same, FinSame, TrackerSet, RequestSet, ViewSame, KeepMarkPut, JoinMarkOff, MarksSame, OwnerSame
  <2> QED BY <2>1, <2>2 DEF UnadoptStripped
<1>15. UnadoptOwed'
  <2>1. ~inGit' /\ Ours' => ~inGit /\ Ours
    BY <1>1, FinishUnmarkEffect, FinishUnmarkView, <1>2, <1>3 DEF UnadoptOwes, UnadoptDue, KeptFor, UnadoptStrippedAt, UnadoptMarkedAt, Busy, Running, RequestAt, BeforeOpen, FinAt, Finished, EntryAt, RunSet, RunAt, Same, FinSame, TrackerSet, RequestSet, ViewSame, KeepMarkPut, JoinMarkOff, MarksSame, OwnerSame
  <2>2. ASSUME NEW q \in UnadoptPR, ~inGit' /\ Ours', UnadoptOwes(q) PROVE UnadoptOwes(q)'
    <3>1. q \in PR /\ RequestAt(q) /\ FinAt(q) /\ EntryAt(q) /\ UnadoptInGitAt(q) /\ UnadoptMarkedAt(q) /\ UnadoptStrippedAt(q)
      BY UnadoptAt, FitsAt, Sorts
    <3>2. CASE q # f[1]
      <4>1. Same(q)
        BY <3>1, <3>2, FinishUnmarkEffect DEF Others
      <4> QED BY <2>2, <3>1, <4>1, <3>2, <1>1, FinishUnmarkEffect, FinishUnmarkView, <1>2, <1>3, Sorts, KeySorts, <1>4 DEF UnadoptOwes, UnadoptDue, KeptFor, UnadoptStrippedAt, UnadoptMarkedAt, Busy, Running, RequestAt, BeforeOpen, FinAt, Finished, EntryAt, RunSet, RunAt, Same, FinSame, TrackerSet, RequestSet, ViewSame, KeepMarkPut, JoinMarkOff, MarksSame, OwnerSame
    <3>3. CASE q = f[1]
      BY <2>2, <3>1, <3>3, <1>1, FinishUnmarkEffect, FinishUnmarkView, <1>2, <1>3, Sorts, KeySorts, <1>4 DEF UnadoptOwes, UnadoptDue, KeptFor, UnadoptStrippedAt, UnadoptMarkedAt, Busy, Running, RequestAt, BeforeOpen, FinAt, Finished, EntryAt, RunSet, RunAt, Same, FinSame, TrackerSet, RequestSet, ViewSame, KeepMarkPut, JoinMarkOff, MarksSame, OwnerSame
    <3> QED BY <3>2, <3>3
  <2> QED BY <2>1, <2>2, UnadoptOwedKept DEF Owned
<1>16. PassInGit'
  BY <1>1, FinishUnmarkEffect, FinishUnmarkView, <1>2, <1>3, PassInGitFrame DEF Owned
<1> QED BY <1>5, <1>6, <1>7, <1>8, <1>9, <1>10, <1>11, <1>12, <1>13, <1>14, <1>15, <1>16 DEF Owned

LEMMA FinishSettleOwned ==
    ASSUME Fits, Fits', Owned, Exists, Exists', ~crossed', MaxFailures <= 1, NEW f \in Finisher, FinishSettle(f)
    PROVE  Owned'
<1>1. (Failure => ~Spent /\ Spent') /\ (NoFailure => (Spent' <=> Spent))
  BY SpentStep
<1>2. ViewSame
  BY FinishSettleEffect, ViewFrame
<1>3. f[1] \in PR /\ RequestAt(f[1]) /\ FinAt(f[1]) /\ EntryAt(f[1]) /\ UnopenedAt(f[1])
  BY FinishSettleEffect, Sorts, FitsAt
<1>4. /\ f[1] \in Join => JoinInGitAt(f[1]) /\ JoinMarkedAt(f[1]) /\ JoinSwappedAt(f[1])
      /\ f[1] \in UnadoptPR => UnadoptInGitAt(f[1]) /\ UnadoptMarkedAt(f[1]) /\ UnadoptStrippedAt(f[1])
      /\ f[1] \in UnadoptPR /\ Busy(f[1]) => \A v \in UnadoptPR : v # f[1] => ~Busy(v)
  BY JoinAt, UnadoptAt
<1>5. \A v \in UnadoptPR : Busy(v)' => Busy(v)
  <2>1. ASSUME NEW v \in UnadoptPR, v # f[1] PROVE Busy(v)' => Busy(v)
    <3>1. v \in PR /\ Same(v)
      BY <2>1, FinishSettleEffect, Sorts DEF Others
    <3> QED BY <2>1, <3>1, <1>1, FinishSettleEffect, <1>2, <1>3, <1>4, Sorts, KeySorts DEF Busy, Running, RunSet, RunAt, Same, FinSame, TrackerSet, RequestSet, ViewSame, MarksSame, OwnerSame, Same, FinSame
  <2>2. f[1] \in UnadoptPR => (Busy(f[1])' => Busy(f[1]))
    BY <1>1, FinishSettleEffect, <1>2, <1>3, <1>4, Sorts, KeySorts DEF Busy, Running, RunSet, RunAt, Same, FinSame, TrackerSet, RequestSet, ViewSame, MarksSame, OwnerSame, RunAt
  <2> QED BY <2>1, <2>2, Sorts, FinishSettleEffect
<1>6. JoinInGit'
  <2>1. ASSUME NEW q \in Join, q # f[1] PROVE JoinInGitAt(q)'
    <3>1. Same(q) /\ q \in PR /\ JoinInGitAt(q) /\ RequestAt(q) /\ FinAt(q) /\ EntryAt(q) /\ UnopenedAt(q)
      BY <2>1, FinishSettleEffect, JoinAt, FitsAt, Sorts DEF Others
    <3> QED BY <2>1, <3>1, <1>1, FinishSettleEffect, <1>2, <1>3, <1>4, Sorts, KeySorts DEF JoinInGitAt, JoinBusy, Running, FinAt, Finished, RunAt, Same, FinSame, ViewSame, MarksSame, OwnerSame
  <2>2. f[1] \in Join => JoinInGitAt(f[1])'
    BY <1>1, FinishSettleEffect, <1>2, <1>3, <1>4, Sorts, KeySorts, UnadoptAt, JoinAt DEF JoinInGitAt, JoinBusy, Running, FinAt, Finished, RunAt, Same, FinSame, ViewSame, MarksSame, OwnerSame
  <2> QED BY <2>1, <2>2 DEF JoinInGit
<1>7. JoinMarked'
  <2>1. ASSUME NEW q \in Join, q # f[1] PROVE JoinMarkedAt(q)'
    <3>1. Same(q) /\ q \in PR /\ JoinMarkedAt(q) /\ RequestAt(q) /\ FinAt(q) /\ EntryAt(q) /\ UnopenedAt(q)
      BY <2>1, FinishSettleEffect, JoinAt, FitsAt, Sorts DEF Others
    <3> QED BY <2>1, <3>1, <1>1, FinishSettleEffect, <1>2, <1>3, <1>4, Sorts, KeySorts DEF JoinMarkedAt, RequestAt, BeforeOpen, UnopenedAt, RunAt, Same, FinSame, ViewSame, MarksSame, OwnerSame
  <2>2. f[1] \in Join => JoinMarkedAt(f[1])'
    BY <1>1, FinishSettleEffect, <1>2, <1>3, <1>4, Sorts, KeySorts, UnadoptAt, JoinAt DEF JoinMarkedAt, RequestAt, BeforeOpen, UnopenedAt, RunAt, Same, FinSame, ViewSame, MarksSame, OwnerSame
  <2> QED BY <2>1, <2>2 DEF JoinMarked
<1>8. JoinSwapped'
  <2>1. ASSUME NEW q \in Join, q # f[1] PROVE JoinSwappedAt(q)'
    <3>1. Same(q) /\ q \in PR /\ JoinSwappedAt(q) /\ RequestAt(q) /\ FinAt(q) /\ EntryAt(q) /\ UnopenedAt(q)
      BY <2>1, FinishSettleEffect, JoinAt, FitsAt, Sorts DEF Others
    <3> QED BY <2>1, <3>1, <1>1, FinishSettleEffect, <1>2, <1>3, <1>4, Sorts, KeySorts DEF JoinSwappedAt, JoinInGitAt, JoinBusy, FinAt, Finished, RunSet, RunAt, Same, FinSame, TrackerSet, RequestSet, ViewSame, MarksSame, OwnerSame
  <2>2. f[1] \in Join => JoinSwappedAt(f[1])'
    BY <1>1, FinishSettleEffect, <1>2, <1>3, <1>4, Sorts, KeySorts, UnadoptAt, JoinAt DEF JoinSwappedAt, JoinInGitAt, JoinBusy, FinAt, Finished, RunSet, RunAt, Same, FinSame, TrackerSet, RequestSet, ViewSame, MarksSame, OwnerSame
  <2> QED BY <2>1, <2>2 DEF JoinSwapped
<1>9. JoinOwed'
  <2>1. inGit' /\ ~Ours' => inGit /\ ~Ours
    BY <1>1, FinishSettleEffect, <1>2, <1>3, <1>4 DEF JoinOwes, JoinDue, JoinSwappedAt, JoinMarkedAt, FinAt, Finished, EntryAt, UnopenedAt, RunSet, RunAt, Same, FinSame, TrackerSet, RequestSet, ViewSame, MarksSame, OwnerSame
  <2>2. ASSUME NEW q \in Join, inGit' /\ ~Ours', JoinOwes(q) PROVE JoinOwes(q)'
    <3>1. q \in PR /\ RequestAt(q) /\ FinAt(q) /\ EntryAt(q) /\ JoinInGitAt(q) /\ JoinMarkedAt(q) /\ JoinSwappedAt(q)
      BY JoinAt, FitsAt, Sorts
    <3>2. CASE q # f[1]
      <4>1. Same(q)
        BY <3>1, <3>2, FinishSettleEffect DEF Others
      <4> QED BY <2>2, <3>1, <4>1, <3>2, <1>1, FinishSettleEffect, <1>2, <1>3, <1>4, Sorts, KeySorts DEF JoinOwes, JoinDue, JoinSwappedAt, JoinMarkedAt, FinAt, Finished, EntryAt, UnopenedAt, RunSet, RunAt, Same, FinSame, TrackerSet, RequestSet, ViewSame, MarksSame, OwnerSame
    <3>3. CASE q = f[1]
      BY <2>2, <3>1, <3>3, <1>1, FinishSettleEffect, <1>2, <1>3, <1>4, Sorts, KeySorts DEF JoinOwes, JoinDue, JoinSwappedAt, JoinMarkedAt, FinAt, Finished, EntryAt, UnopenedAt, RunSet, RunAt, Same, FinSame, TrackerSet, RequestSet, ViewSame, MarksSame, OwnerSame
    <3> QED BY <3>2, <3>3
  <2> QED BY <2>1, <2>2, JoinOwedKept DEF Owned
<1>10. OneBusy'
  BY <1>5, OneBusyKept DEF Owned
<1>11. PendingFit'
  BY <1>1, FinishSettleEffect, <1>2, <1>3, <1>4, Sorts, KeySorts DEF Owned, Fits, PendingFit, Running, RequestsFit, RequestAt, MarksFit, Nothing, RunAt, Same, FinSame, ViewSame, MarksSame, OwnerSame, Others
<1>12. UnadoptInGit'
  <2>1. ASSUME NEW q \in UnadoptPR, q # f[1] PROVE UnadoptInGitAt(q)'
    <3>1. Same(q) /\ q \in PR /\ UnadoptInGitAt(q) /\ RequestAt(q) /\ FinAt(q) /\ EntryAt(q) /\ UnopenedAt(q)
      BY <2>1, FinishSettleEffect, UnadoptAt, FitsAt, Sorts DEF Others
    <3> QED BY <2>1, <3>1, <1>1, FinishSettleEffect, <1>2, <1>3, <1>4, Sorts, KeySorts DEF UnadoptInGitAt, Busy, Running, RequestAt, BeforeOpen, FinAt, Finished, RunSet, RunAt, Same, FinSame, TrackerSet, RequestSet
  <2>2. f[1] \in UnadoptPR => UnadoptInGitAt(f[1])'
    BY <1>1, FinishSettleEffect, <1>2, <1>3, <1>4, Sorts, KeySorts, UnadoptAt, JoinAt DEF UnadoptInGitAt, Busy, Running, RequestAt, BeforeOpen, FinAt, Finished, RunSet, RunAt, Same, FinSame, TrackerSet, RequestSet
  <2> QED BY <2>1, <2>2 DEF UnadoptInGit
<1>13. UnadoptKnown'
  BY <1>1, FinishSettleEffect, <1>2, <1>3, <1>4, Sorts, KeySorts DEF Owned, Fits, UnadoptKnown, Busy, Running, PendingFit, RequestAt, BeforeOpen, FinAt, Finished, RunAt, Same, FinSame, ViewSame, MarksSame, OwnerSame, Others
<1>14. UnadoptMarked'
  <2>1. ASSUME NEW q \in UnadoptPR, q # f[1] PROVE UnadoptMarkedAt(q)'
    <3>1. Same(q) /\ q \in PR /\ UnadoptMarkedAt(q) /\ RequestAt(q) /\ FinAt(q) /\ EntryAt(q) /\ UnopenedAt(q)
      BY <2>1, FinishSettleEffect, UnadoptAt, FitsAt, Sorts DEF Others
    <3> QED BY <2>1, <3>1, <1>1, FinishSettleEffect, <1>2, <1>3, <1>4, Sorts, KeySorts DEF UnadoptMarkedAt, UnadoptKnown, KeptFor, Busy, Running, RequestAt, BeforeOpen, FinAt, Finished, RunAt, Same, FinSame, ViewSame, MarksSame, OwnerSame
  <2>2. f[1] \in UnadoptPR => UnadoptMarkedAt(f[1])'
    BY <1>1, FinishSettleEffect, <1>2, <1>3, <1>4, Sorts, KeySorts, UnadoptAt, JoinAt DEF UnadoptMarkedAt, UnadoptKnown, KeptFor, Busy, Running, RequestAt, BeforeOpen, FinAt, Finished, RunAt, Same, FinSame, ViewSame, MarksSame, OwnerSame
  <2> QED BY <2>1, <2>2 DEF UnadoptMarked
<1>15. UnadoptStripped'
  <2>1. ASSUME NEW q \in UnadoptPR, q # f[1] PROVE UnadoptStrippedAt(q)'
    <3>1. Same(q) /\ q \in PR /\ UnadoptStrippedAt(q) /\ RequestAt(q) /\ FinAt(q) /\ EntryAt(q) /\ UnopenedAt(q)
      BY <2>1, FinishSettleEffect, UnadoptAt, FitsAt, Sorts DEF Others
    <3> QED BY <2>1, <3>1, <1>1, FinishSettleEffect, <1>2, <1>3, <1>4, Sorts, KeySorts DEF UnadoptStrippedAt, JoinInGitAt, JoinBusy, Busy, RequestAt, BeforeOpen, FinAt, Finished, EntryAt, RunSet, RunAt, Same, FinSame, TrackerSet, RequestSet, ViewSame, MarksSame, OwnerSame
  <2>2. f[1] \in UnadoptPR => UnadoptStrippedAt(f[1])'
    BY <1>1, FinishSettleEffect, <1>2, <1>3, <1>4, Sorts, KeySorts, UnadoptAt, JoinAt DEF UnadoptStrippedAt, JoinInGitAt, JoinBusy, Busy, RequestAt, BeforeOpen, FinAt, Finished, EntryAt, RunSet, RunAt, Same, FinSame, TrackerSet, RequestSet, ViewSame, MarksSame, OwnerSame
  <2> QED BY <2>1, <2>2 DEF UnadoptStripped
<1>16. UnadoptOwed'
  <2>1. ~inGit' /\ Ours' => ~inGit /\ Ours
    BY <1>1, FinishSettleEffect, <1>2, <1>3, <1>4 DEF UnadoptOwes, UnadoptDue, KeptFor, UnadoptStrippedAt, UnadoptMarkedAt, Busy, Running, RequestAt, BeforeOpen, FinAt, Finished, EntryAt, RunSet, RunAt, Same, FinSame, TrackerSet, RequestSet, ViewSame, MarksSame, OwnerSame
  <2>2. ASSUME NEW q \in UnadoptPR, ~inGit' /\ Ours', UnadoptOwes(q) PROVE UnadoptOwes(q)'
    <3>1. q \in PR /\ RequestAt(q) /\ FinAt(q) /\ EntryAt(q) /\ UnadoptInGitAt(q) /\ UnadoptMarkedAt(q) /\ UnadoptStrippedAt(q)
      BY UnadoptAt, FitsAt, Sorts
    <3>2. CASE q # f[1]
      <4>1. Same(q)
        BY <3>1, <3>2, FinishSettleEffect DEF Others
      <4> QED BY <2>2, <3>1, <4>1, <3>2, <1>1, FinishSettleEffect, <1>2, <1>3, <1>4, Sorts, KeySorts, <1>5 DEF UnadoptOwes, UnadoptDue, KeptFor, UnadoptStrippedAt, UnadoptMarkedAt, Busy, Running, RequestAt, BeforeOpen, FinAt, Finished, EntryAt, RunSet, RunAt, Same, FinSame, TrackerSet, RequestSet, ViewSame, MarksSame, OwnerSame
    <3>3. CASE q = f[1]
      BY <2>2, <3>1, <3>3, <1>1, FinishSettleEffect, <1>2, <1>3, <1>4, Sorts, KeySorts, <1>5 DEF UnadoptOwes, UnadoptDue, KeptFor, UnadoptStrippedAt, UnadoptMarkedAt, Busy, Running, RequestAt, BeforeOpen, FinAt, Finished, EntryAt, RunSet, RunAt, Same, FinSame, TrackerSet, RequestSet, ViewSame, MarksSame, OwnerSame
    <3> QED BY <3>2, <3>3
  <2> QED BY <2>1, <2>2, UnadoptOwedKept DEF Owned
<1>17. PassInGit'
  BY <1>1, FinishSettleEffect, <1>2, <1>3, <1>4, PassInGitFrame DEF Owned
<1> QED BY <1>6, <1>7, <1>8, <1>9, <1>10, <1>11, <1>12, <1>13, <1>14, <1>15, <1>16, <1>17 DEF Owned

LEMMA GaveUpEndsOwned ==
    ASSUME Fits, Fits', Owned, Exists, Exists', ~crossed', MaxFailures <= 1, NEW p \in PR, GaveUpEnds(p)
    PROVE  Owned'
<1>1. (Failure => ~Spent /\ Spent') /\ (NoFailure => (Spent' <=> Spent))
  BY SpentStep
<1>2. Spent' <=> Spent
  BY GaveUpEndsEffect DEF Spent
<1>3. ViewSame
  BY GaveUpEndsEffect, ViewFrame
<1>4. p \in PR /\ RequestAt(p) /\ FinAt(p) /\ EntryAt(p) /\ UnopenedAt(p)
  BY GaveUpEndsEffect, Sorts, FitsAt
<1>5. /\ p \in Join => JoinInGitAt(p) /\ JoinMarkedAt(p) /\ JoinSwappedAt(p)
      /\ p \in UnadoptPR => UnadoptInGitAt(p) /\ UnadoptMarkedAt(p) /\ UnadoptStrippedAt(p)
      /\ p \in UnadoptPR /\ Busy(p) => \A v \in UnadoptPR : v # p => ~Busy(v)
  BY JoinAt, UnadoptAt
<1>6. \A v \in UnadoptPR : Busy(v)' => Busy(v)
  <2>1. ASSUME NEW v \in UnadoptPR, v # p PROVE Busy(v)' => Busy(v)
    <3>1. v \in PR /\ Same(v)
      BY <2>1, GaveUpEndsEffect, Sorts DEF Others
    <3> QED BY <2>1, <3>1, <1>1, GaveUpEndsEffect, <1>2, <1>3, <1>4, <1>5, Sorts, KeySorts DEF Busy, Running, FinSame, Same, ViewSame, MarksSame, OwnerSame, Same, FinSame
  <2>2. p \in UnadoptPR => (Busy(p)' => Busy(p))
    BY <1>1, GaveUpEndsEffect, <1>2, <1>3, <1>4, <1>5, Sorts, KeySorts, FinStays DEF Busy, Running, FinSame, Same, ViewSame, MarksSame, OwnerSame
  <2> QED BY <2>1, <2>2, Sorts, GaveUpEndsEffect
<1>7. JoinInGit'
  <2>1. ASSUME NEW q \in Join, q # p PROVE JoinInGitAt(q)'
    <3>1. Same(q) /\ q \in PR /\ JoinInGitAt(q) /\ RequestAt(q) /\ FinAt(q) /\ EntryAt(q) /\ UnopenedAt(q)
      BY <2>1, GaveUpEndsEffect, JoinAt, FitsAt, Sorts DEF Others
    <3> QED BY <2>1, <3>1, <1>1, GaveUpEndsEffect, <1>2, <1>3, <1>4, <1>5, Sorts, KeySorts, FinStays DEF JoinInGitAt, JoinBusy, Running, FinAt, Finished, FinSame, Same, ViewSame, MarksSame, OwnerSame
  <2>2. p \in Join => JoinInGitAt(p)'
    BY <1>1, GaveUpEndsEffect, <1>2, <1>3, <1>4, <1>5, Sorts, KeySorts, FinStays, UnadoptAt, JoinAt DEF JoinInGitAt, JoinBusy, Running, FinAt, Finished, FinSame, Same, ViewSame, MarksSame, OwnerSame
  <2> QED BY <2>1, <2>2 DEF JoinInGit
<1>8. JoinMarked'
  <2>1. ASSUME NEW q \in Join, q # p PROVE JoinMarkedAt(q)'
    <3>1. Same(q) /\ q \in PR /\ JoinMarkedAt(q) /\ RequestAt(q) /\ FinAt(q) /\ EntryAt(q) /\ UnopenedAt(q)
      BY <2>1, GaveUpEndsEffect, JoinAt, FitsAt, Sorts DEF Others
    <3> QED BY <2>1, <3>1, <1>1, GaveUpEndsEffect, <1>2, <1>3, <1>4, <1>5, Sorts, KeySorts, FinStays DEF JoinMarkedAt, RequestAt, BeforeOpen, UnopenedAt, FinSame, Same, ViewSame, MarksSame, OwnerSame
  <2>2. p \in Join => JoinMarkedAt(p)'
    BY <1>1, GaveUpEndsEffect, <1>2, <1>3, <1>4, <1>5, Sorts, KeySorts, FinStays, UnadoptAt, JoinAt DEF JoinMarkedAt, RequestAt, BeforeOpen, UnopenedAt, FinSame, Same, ViewSame, MarksSame, OwnerSame
  <2> QED BY <2>1, <2>2 DEF JoinMarked
<1>9. JoinOwed'
  <2>1. inGit' /\ ~Ours' => inGit /\ ~Ours
    BY <1>1, GaveUpEndsEffect, <1>2, <1>3, <1>4, <1>5 DEF JoinOwes, JoinDue, JoinSwappedAt, JoinMarkedAt, FinAt, Finished, EntryAt, UnopenedAt, FinSame, Same, ViewSame, MarksSame, OwnerSame
  <2>2. ASSUME NEW q \in Join, inGit' /\ ~Ours', JoinOwes(q) PROVE JoinOwes(q)'
    <3>1. q \in PR /\ RequestAt(q) /\ FinAt(q) /\ EntryAt(q) /\ JoinInGitAt(q) /\ JoinMarkedAt(q) /\ JoinSwappedAt(q)
      BY JoinAt, FitsAt, Sorts
    <3>2. CASE q # p
      <4>1. Same(q)
        BY <3>1, <3>2, GaveUpEndsEffect DEF Others
      <4> QED BY <2>2, <3>1, <4>1, <3>2, <1>1, GaveUpEndsEffect, <1>2, <1>3, <1>4, <1>5, Sorts, KeySorts, FinStays DEF JoinOwes, JoinDue, JoinSwappedAt, JoinMarkedAt, FinAt, Finished, EntryAt, UnopenedAt, FinSame, Same, ViewSame, MarksSame, OwnerSame
    <3>3. CASE q = p
      BY <2>2, <3>1, <3>3, <1>1, GaveUpEndsEffect, <1>2, <1>3, <1>4, <1>5, Sorts, KeySorts, FinStays DEF JoinOwes, JoinDue, JoinSwappedAt, JoinMarkedAt, FinAt, Finished, EntryAt, UnopenedAt, FinSame, Same, ViewSame, MarksSame, OwnerSame
    <3> QED BY <3>2, <3>3
  <2> QED BY <2>1, <2>2, JoinOwedKept DEF Owned
<1>10. OneBusy'
  BY <1>6, OneBusyKept DEF Owned
<1>11. UnadoptOwed'
  <2>1. ~inGit' /\ Ours' => ~inGit /\ Ours
    BY <1>1, GaveUpEndsEffect, <1>2, <1>3, <1>4, <1>5 DEF UnadoptOwes, UnadoptDue, KeptFor, UnadoptStrippedAt, UnadoptMarkedAt, Busy, Running, RequestAt, BeforeOpen, FinAt, Finished, EntryAt, FinSame, Same, ViewSame, MarksSame, OwnerSame
  <2>2. ASSUME NEW q \in UnadoptPR, ~inGit' /\ Ours', UnadoptOwes(q) PROVE UnadoptOwes(q)'
    <3>1. q \in PR /\ RequestAt(q) /\ FinAt(q) /\ EntryAt(q) /\ UnadoptInGitAt(q) /\ UnadoptMarkedAt(q) /\ UnadoptStrippedAt(q)
      BY UnadoptAt, FitsAt, Sorts
    <3>2. CASE q # p
      <4>1. Same(q)
        BY <3>1, <3>2, GaveUpEndsEffect DEF Others
      <4> QED BY <2>2, <3>1, <4>1, <3>2, <1>1, GaveUpEndsEffect, <1>2, <1>3, <1>4, <1>5, Sorts, KeySorts, FinStays, <1>6 DEF UnadoptOwes, UnadoptDue, KeptFor, UnadoptStrippedAt, UnadoptMarkedAt, Busy, Running, RequestAt, BeforeOpen, FinAt, Finished, EntryAt, FinSame, Same, ViewSame, MarksSame, OwnerSame
    <3>3. CASE q = p
      BY <2>2, <3>1, <3>3, <1>1, GaveUpEndsEffect, <1>2, <1>3, <1>4, <1>5, Sorts, KeySorts, FinStays, <1>6 DEF UnadoptOwes, UnadoptDue, KeptFor, UnadoptStrippedAt, UnadoptMarkedAt, Busy, Running, RequestAt, BeforeOpen, FinAt, Finished, EntryAt, FinSame, Same, ViewSame, MarksSame, OwnerSame
    <3> QED BY <3>2, <3>3
  <2> QED BY <2>1, <2>2, UnadoptOwedKept DEF Owned
<1>12. JoinSwapped' /\ PendingFit' /\ UnadoptInGit' /\ PassInGit' /\ UnadoptKnown' /\ UnadoptMarked' /\ UnadoptStripped'
  BY <1>1, GaveUpEndsEffect, <1>2, <1>3, <1>4, <1>5, JoinSwappedFrame, PendingFrame, UnadoptInGitFrame, PassInGitFrame, UnadoptKnownFrame, UnadoptMarkedFrame, UnadoptStrippedFrame DEF Owned
<1> QED BY <1>7, <1>8, <1>9, <1>10, <1>11, <1>12 DEF Owned

LEMMA MarksListOwned ==
    ASSUME Fits, Fits', Owned, Exists, Exists', ~crossed', MaxFailures <= 1, MarksList
    PROVE  Owned'
<1>1. (Failure => ~Spent /\ Spent') /\ (NoFailure => (Spent' <=> Spent))
  BY SpentStep
<1>2. Spent' <=> Spent
  BY MarksListEffect DEF Spent
<1>3. ViewSame
  BY MarksListEffect, ViewFrame
<1>4. \A v \in UnadoptPR : Busy(v)' => Busy(v)
  BY <1>1, MarksListEffect, <1>2, <1>3, MarksListView, Sorts, KeySorts, FinStays DEF Busy, Running, Same, FinSame, ViewSame, MarksSame, OwnerSame
<1>5. JoinInGit'
  <2>1. ASSUME NEW q \in Join PROVE JoinInGitAt(q)'
    <3>1. q \in PR /\ JoinInGitAt(q) /\ RequestAt(q) /\ FinAt(q) /\ EntryAt(q) /\ UnopenedAt(q) /\ Same(q)
      BY <2>1, JoinAt, FitsAt, Sorts, MarksListEffect
    <3> QED BY <3>1, <1>1, MarksListEffect, <1>2, <1>3, MarksListView, Sorts, KeySorts, FinStays DEF JoinInGitAt, JoinBusy, Running, FinAt, Finished, Same, FinSame, ViewSame, MarksSame, OwnerSame
  <2> QED BY <2>1 DEF JoinInGit
<1>6. JoinMarked'
  <2>1. ASSUME NEW q \in Join PROVE JoinMarkedAt(q)'
    <3>1. q \in PR /\ JoinMarkedAt(q) /\ RequestAt(q) /\ FinAt(q) /\ EntryAt(q) /\ UnopenedAt(q) /\ Same(q)
      BY <2>1, JoinAt, FitsAt, Sorts, MarksListEffect
    <3> QED BY <3>1, <1>1, MarksListEffect, <1>2, <1>3, MarksListView, Sorts, KeySorts, FinStays DEF JoinMarkedAt, RequestAt, BeforeOpen, UnopenedAt, Same, FinSame, ViewSame, MarksSame, OwnerSame
  <2> QED BY <2>1 DEF JoinMarked
<1>7. OneBusy'
  BY <1>4, OneBusyKept DEF Owned
<1>8. PendingFit'
  BY <1>1, MarksListEffect, <1>2, <1>3, MarksListView, Sorts, KeySorts, FinStays DEF Owned, Fits, PendingFit, Running, RequestsFit, RequestAt, MarksFit, Nothing, Same, FinSame, ViewSame, MarksSame, OwnerSame
<1>9. PassInGit'
  BY <1>1, MarksListEffect, <1>2, <1>3, MarksListView, Sorts, KeySorts, FinStays DEF Owned, Fits, PassInGit, Same, FinSame
<1>10. UnadoptMarked'
  <2>1. ASSUME NEW q \in UnadoptPR PROVE UnadoptMarkedAt(q)'
    <3>1. q \in PR /\ UnadoptMarkedAt(q) /\ RequestAt(q) /\ FinAt(q) /\ EntryAt(q) /\ UnopenedAt(q) /\ Same(q)
      BY <2>1, UnadoptAt, FitsAt, Sorts, MarksListEffect
    <3> QED BY <3>1, <1>1, MarksListEffect, <1>2, <1>3, MarksListView, Sorts, KeySorts, FinStays DEF UnadoptMarkedAt, UnadoptKnown, KeptFor, Busy, Running, RequestAt, BeforeOpen, FinAt, Finished, Same, FinSame, ViewSame, MarksSame, OwnerSame
  <2> QED BY <2>1 DEF UnadoptMarked
<1>11. UnadoptOwed'
  <2>1. ~inGit' /\ Ours' => ~inGit /\ Ours
    BY <1>1, MarksListEffect, <1>2, <1>3, MarksListView DEF UnadoptOwes, UnadoptDue, KeptFor, UnadoptStrippedAt, UnadoptMarkedAt, Busy, Running, RequestAt, BeforeOpen, FinAt, Finished, EntryAt, Same, FinSame, ViewSame, MarksSame, OwnerSame
  <2>2. ASSUME NEW q \in UnadoptPR, ~inGit' /\ Ours', UnadoptOwes(q) PROVE UnadoptOwes(q)'
    <3>1. q \in PR /\ RequestAt(q) /\ FinAt(q) /\ EntryAt(q) /\ UnadoptInGitAt(q) /\ UnadoptMarkedAt(q) /\ UnadoptStrippedAt(q)
      BY UnadoptAt, FitsAt, Sorts
    <3> QED BY <2>2, <3>1, <1>1, MarksListEffect, <1>2, <1>3, MarksListView, Sorts, KeySorts, FinStays, <1>4 DEF UnadoptOwes, UnadoptDue, KeptFor, UnadoptStrippedAt, UnadoptMarkedAt, Busy, Running, RequestAt, BeforeOpen, FinAt, Finished, EntryAt, Same, FinSame, ViewSame, MarksSame, OwnerSame
  <2> QED BY <2>1, <2>2, UnadoptOwedKept DEF Owned
<1>12. JoinSwapped' /\ JoinOwed' /\ UnadoptInGit' /\ UnadoptKnown' /\ UnadoptStripped'
  BY <1>1, MarksListEffect, <1>2, <1>3, MarksListView, JoinSwappedFrame, JoinOwedFrame, UnadoptInGitFrame, UnadoptKnownFrame, UnadoptStrippedFrame DEF Owned
<1> QED BY <1>5, <1>6, <1>7, <1>8, <1>9, <1>10, <1>11, <1>12 DEF Owned

LEMMA MarksSettleOwned ==
    ASSUME Fits, Fits', Owned, Exists, Exists', ~crossed', MaxFailures <= 1, MarksSettle
    PROVE  Owned'
<1>1. (Failure => ~Spent /\ Spent') /\ (NoFailure => (Spent' <=> Spent))
  BY SpentStep
<1>2. listed'["keep"] = NoMark /\ \A q \in PR : listed'[Key(q)] # q
  BY MarksSettleEffect, NothingMeans
<1>3. ViewSame
  BY MarksSettleEffect, ViewFrame
<1>4. \A v \in UnadoptPR : Busy(v)' => Busy(v)
  BY <1>1, MarksSettleEffect, <1>2, <1>3, Sorts, KeySorts, FinStays DEF Busy, Running, Same, FinSame, ViewSame, MarksSame, OwnerSame
<1>5. JoinInGit'
  <2>1. ASSUME NEW q \in Join PROVE JoinInGitAt(q)'
    <3>1. q \in PR /\ JoinInGitAt(q) /\ RequestAt(q) /\ FinAt(q) /\ EntryAt(q) /\ UnopenedAt(q) /\ Same(q)
      BY <2>1, JoinAt, FitsAt, Sorts, MarksSettleEffect
    <3> QED BY <3>1, <1>1, MarksSettleEffect, <1>2, <1>3, Sorts, KeySorts, FinStays DEF JoinInGitAt, JoinBusy, Running, FinAt, Finished, Same, FinSame, ViewSame, MarksSame, OwnerSame
  <2> QED BY <2>1 DEF JoinInGit
<1>6. JoinMarked'
  <2>1. ASSUME NEW q \in Join PROVE JoinMarkedAt(q)'
    <3>1. q \in PR /\ JoinMarkedAt(q) /\ RequestAt(q) /\ FinAt(q) /\ EntryAt(q) /\ UnopenedAt(q) /\ Same(q)
      BY <2>1, JoinAt, FitsAt, Sorts, MarksSettleEffect
    <3> QED BY <3>1, <1>1, MarksSettleEffect, <1>2, <1>3, Sorts, KeySorts, FinStays DEF JoinMarkedAt, RequestAt, BeforeOpen, UnopenedAt, Same, FinSame, ViewSame, MarksSame, OwnerSame
  <2> QED BY <2>1 DEF JoinMarked
<1>7. JoinOwed'
  <2>1. inGit' /\ ~Ours' => inGit /\ ~Ours
    BY <1>1, MarksSettleEffect, <1>2, <1>3 DEF JoinOwes, JoinDue, JoinSwappedAt, JoinMarkedAt, FinAt, Finished, EntryAt, UnopenedAt, Same, FinSame, ViewSame, MarksSame, OwnerSame
  <2>2. ASSUME NEW q \in Join, inGit' /\ ~Ours', JoinOwes(q) PROVE JoinOwes(q)'
    <3>1. q \in PR /\ RequestAt(q) /\ FinAt(q) /\ EntryAt(q) /\ JoinInGitAt(q) /\ JoinMarkedAt(q) /\ JoinSwappedAt(q)
      BY JoinAt, FitsAt, Sorts
    <3> QED BY <2>2, <3>1, <1>1, MarksSettleEffect, <1>2, <1>3, Sorts, KeySorts, FinStays DEF JoinOwes, JoinDue, JoinSwappedAt, JoinMarkedAt, FinAt, Finished, EntryAt, UnopenedAt, Same, FinSame, ViewSame, MarksSame, OwnerSame
  <2> QED BY <2>1, <2>2, JoinOwedKept DEF Owned
<1>8. OneBusy'
  BY <1>4, OneBusyKept DEF Owned
<1>9. PendingFit'
  BY <1>1, MarksSettleEffect, <1>2, <1>3, Sorts, KeySorts, FinStays DEF Owned, Fits, PendingFit, Running, RequestsFit, RequestAt, MarksFit, Nothing, Same, FinSame, ViewSame, MarksSame, OwnerSame
<1>10. PassInGit'
  BY <1>1, MarksSettleEffect, <1>2, <1>3, Sorts, KeySorts, FinStays DEF Owned, Fits, PassInGit, Same, FinSame
<1>11. UnadoptKnown'
  BY <1>1, MarksSettleEffect, <1>2, <1>3, Sorts, KeySorts, FinStays DEF Owned, Fits, UnadoptKnown, Busy, Running, PendingFit, RequestAt, BeforeOpen, FinAt, Finished, Same, FinSame, ViewSame, MarksSame, OwnerSame
<1>12. UnadoptMarked'
  <2>1. ASSUME NEW q \in UnadoptPR PROVE UnadoptMarkedAt(q)'
    <3>1. q \in PR /\ UnadoptMarkedAt(q) /\ RequestAt(q) /\ FinAt(q) /\ EntryAt(q) /\ UnopenedAt(q) /\ Same(q)
      BY <2>1, UnadoptAt, FitsAt, Sorts, MarksSettleEffect
    <3> QED BY <3>1, <1>1, MarksSettleEffect, <1>2, <1>3, Sorts, KeySorts, FinStays DEF UnadoptMarkedAt, UnadoptKnown, KeptFor, Busy, Running, RequestAt, BeforeOpen, FinAt, Finished, Same, FinSame, ViewSame, MarksSame, OwnerSame
  <2> QED BY <2>1 DEF UnadoptMarked
<1>13. UnadoptOwed'
  <2>1. ~inGit' /\ Ours' => ~inGit /\ Ours
    BY <1>1, MarksSettleEffect, <1>2, <1>3 DEF UnadoptOwes, UnadoptDue, KeptFor, UnadoptStrippedAt, UnadoptMarkedAt, Busy, Running, RequestAt, BeforeOpen, FinAt, Finished, EntryAt, Same, FinSame, ViewSame, MarksSame, OwnerSame
  <2>2. ASSUME NEW q \in UnadoptPR, ~inGit' /\ Ours', UnadoptOwes(q) PROVE UnadoptOwes(q)'
    <3>1. q \in PR /\ RequestAt(q) /\ FinAt(q) /\ EntryAt(q) /\ UnadoptInGitAt(q) /\ UnadoptMarkedAt(q) /\ UnadoptStrippedAt(q)
      BY UnadoptAt, FitsAt, Sorts
    <3> QED BY <2>2, <3>1, <1>1, MarksSettleEffect, <1>2, <1>3, Sorts, KeySorts, FinStays, <1>4 DEF UnadoptOwes, UnadoptDue, KeptFor, UnadoptStrippedAt, UnadoptMarkedAt, Busy, Running, RequestAt, BeforeOpen, FinAt, Finished, EntryAt, Same, FinSame, ViewSame, MarksSame, OwnerSame
  <2> QED BY <2>1, <2>2, UnadoptOwedKept DEF Owned
<1>14. JoinSwapped' /\ UnadoptInGit' /\ UnadoptStripped'
  BY <1>1, MarksSettleEffect, <1>2, <1>3, JoinSwappedFrame, UnadoptInGitFrame, UnadoptStrippedFrame DEF Owned
<1> QED BY <1>5, <1>6, <1>7, <1>8, <1>9, <1>10, <1>11, <1>12, <1>13, <1>14 DEF Owned

LEMMA MarksWriteOwned ==
    ASSUME Fits, Fits', Owned, Exists, Exists', ~crossed', MaxFailures <= 1, MarksWrite
    PROVE  Owned'
<1>1. (Failure => ~Spent /\ Spent') /\ (NoFailure => (Spent' <=> Spent))
  BY SpentStep
<1>2. listed'["keep"] = NoMark /\ \A q \in PR : listed'[Key(q)] # q
  BY MarksWriteEffect, NothingMeans
<1>3. \A v \in UnadoptPR : Busy(v)' => Busy(v)
  BY <1>1, MarksWriteEffect, <1>2, MarksWriteView, Sorts, KeySorts, FinStays DEF Busy, Running, Same, FinSame, ViewSame, KeepMarkPut, MarksSame, OwnerSame
<1>4. JoinInGit'
  <2>1. ASSUME NEW q \in Join PROVE JoinInGitAt(q)'
    <3>1. q \in PR /\ JoinInGitAt(q) /\ RequestAt(q) /\ FinAt(q) /\ EntryAt(q) /\ UnopenedAt(q) /\ Same(q)
      BY <2>1, JoinAt, FitsAt, Sorts, MarksWriteEffect
    <3> QED BY <3>1, <1>1, MarksWriteEffect, <1>2, MarksWriteView, Sorts, KeySorts, FinStays DEF JoinInGitAt, JoinBusy, Running, FinAt, Finished, Same, FinSame, ViewSame, KeepMarkPut, MarksSame, OwnerSame
  <2> QED BY <2>1 DEF JoinInGit
<1>5. JoinMarked'
  <2>1. ASSUME NEW q \in Join PROVE JoinMarkedAt(q)'
    <3>1. q \in PR /\ JoinMarkedAt(q) /\ RequestAt(q) /\ FinAt(q) /\ EntryAt(q) /\ UnopenedAt(q) /\ Same(q)
      BY <2>1, JoinAt, FitsAt, Sorts, MarksWriteEffect
    <3> QED BY <3>1, <1>1, MarksWriteEffect, <1>2, MarksWriteView, Sorts, KeySorts, FinStays DEF JoinMarkedAt, RequestAt, BeforeOpen, UnopenedAt, Same, FinSame, ViewSame, KeepMarkPut, MarksSame, OwnerSame
  <2> QED BY <2>1 DEF JoinMarked
<1>6. JoinSwapped'
  <2>1. ASSUME NEW q \in Join PROVE JoinSwappedAt(q)'
    <3>1. q \in PR /\ JoinSwappedAt(q) /\ RequestAt(q) /\ FinAt(q) /\ EntryAt(q) /\ UnopenedAt(q) /\ Same(q)
      BY <2>1, JoinAt, FitsAt, Sorts, MarksWriteEffect
    <3>2. JoinInGitAt(q) /\ (JoinSwappedAt(q) => ~inGit \/ JoinSwappedAt(q)')
      <4>1. CASE Ours' <=> Ours
        BY <3>1, <4>1, JoinAt DEF JoinSwappedAt, Same, FinSame
      <4>2. CASE tick = "giveBack"
        BY <4>2, JoinAt DEF Owned, PassInGit
      <4> QED BY <4>1, <4>2, MarksWriteView DEF ViewSame, OwnerSame, KeepMarkPut
    <3>3. ~inGit => JoinSwappedAt(q)'
      BY <3>1, <3>2 DEF JoinSwappedAt, JoinInGitAt, JoinBusy, FinAt, Same, FinSame
    <3> QED BY <3>1, <3>2, <3>3
  <2> QED BY <2>1 DEF JoinSwapped
<1>7. JoinOwed'
  <2>1. inGit' /\ ~Ours' => inGit /\ ~Ours
    BY <1>1, MarksWriteEffect, <1>2, MarksWriteView DEF Owned, PassInGit, ViewSame, OwnerSame, KeepMarkPut
  <2>2. ASSUME NEW q \in Join, inGit' /\ ~Ours', JoinOwes(q) PROVE JoinOwes(q)'
    <3>1. q \in PR /\ RequestAt(q) /\ FinAt(q) /\ EntryAt(q) /\ JoinInGitAt(q) /\ JoinMarkedAt(q) /\ JoinSwappedAt(q)
      BY JoinAt, FitsAt, Sorts
    <3> QED BY <2>2, <3>1, <1>1, MarksWriteEffect, <1>2, MarksWriteView, Sorts, KeySorts, FinStays DEF JoinOwes, JoinDue, JoinSwappedAt, JoinMarkedAt, FinAt, Finished, EntryAt, UnopenedAt, Same, FinSame, ViewSame, KeepMarkPut, MarksSame, OwnerSame
  <2> QED BY <2>1, <2>2, JoinOwedKept DEF Owned
<1>8. OneBusy'
  BY <1>3, OneBusyKept DEF Owned
<1>9. PendingFit'
  BY <1>1, MarksWriteEffect, <1>2, MarksWriteView, Sorts, KeySorts, FinStays DEF Owned, Fits, PendingFit, Running, RequestsFit, RequestAt, MarksFit, Nothing, Same, FinSame, ViewSame, KeepMarkPut, MarksSame, OwnerSame
<1>10. PassInGit'
  BY <1>1, MarksWriteEffect, <1>2, MarksWriteView, Sorts, KeySorts, FinStays DEF Owned, Fits, PassInGit, Same, FinSame
<1>11. UnadoptKnown'
  BY <1>1, MarksWriteEffect, <1>2, MarksWriteView, Sorts, KeySorts, FinStays DEF Owned, Fits, UnadoptKnown, Busy, Running, PendingFit, RequestAt, BeforeOpen, FinAt, Finished, Same, FinSame, ViewSame, KeepMarkPut, MarksSame, OwnerSame
<1>12. UnadoptMarked'
  <2>1. ASSUME NEW q \in UnadoptPR PROVE UnadoptMarkedAt(q)'
    <3>1. q \in PR /\ UnadoptMarkedAt(q) /\ RequestAt(q) /\ FinAt(q) /\ EntryAt(q) /\ UnopenedAt(q) /\ Same(q)
      BY <2>1, UnadoptAt, FitsAt, Sorts, MarksWriteEffect
    <3>2. CASE KeepMark' = KeepMark
      BY <3>1, <3>2, <1>1, MarksWriteEffect, <1>2, MarksWriteView, KeySorts DEF UnadoptMarkedAt, KeptFor, Same
    <3>3. CASE tick = "setNumber" /\ number \in UnadoptPR /\ KeepMark' = number
      <4>1. (git[q] = "open" \/ req[q] = "open") => Busy(q)
        BY DEF Busy, Running
      <4>2. Busy(number)
        BY DEF Busy
      <4>3. git[q] = "open" \/ req[q] = "open" => number = q
        BY <3>3, <4>1, <4>2, UnadoptAt
      <4> QED BY <3>1, <3>3, <4>3, <1>1, MarksWriteEffect, <1>2, MarksWriteView, KeySorts, Sorts DEF UnadoptMarkedAt, KeptFor, Same
    <3>4. CASE tick \in {"takeOff", "giveBack"} /\ NoFailure
      <4>1. KeepMark = OldPending
        BY <3>4 DEF Owned, PendingFit
      <4>2. Spent /\ ~Running(q)
        BY <4>1 DEF Owned, PendingFit
      <4> QED BY <3>1, <4>2, <1>1, MarksWriteEffect, <1>2, MarksWriteView, KeySorts, Sorts DEF UnadoptMarkedAt, Same
    <3> QED BY <3>2, <3>3, <3>4, MarksWriteView DEF ViewSame, MarksSame, KeepMarkPut
  <2> QED BY <2>1 DEF UnadoptMarked
<1>13. UnadoptStripped'
  <2>1. ASSUME NEW q \in UnadoptPR PROVE UnadoptStrippedAt(q)'
    <3>1. q \in PR /\ UnadoptStrippedAt(q) /\ RequestAt(q) /\ FinAt(q) /\ EntryAt(q) /\ UnopenedAt(q) /\ Same(q)
      BY <2>1, UnadoptAt, FitsAt, Sorts, MarksWriteEffect
    <3> QED BY <3>1, <1>1, MarksWriteEffect, <1>2, MarksWriteView, Sorts, KeySorts, FinStays DEF UnadoptStrippedAt, JoinInGitAt, JoinBusy, Busy, RequestAt, BeforeOpen, FinAt, Finished, EntryAt, Same, FinSame, ViewSame, KeepMarkPut, MarksSame, OwnerSame
  <2> QED BY <2>1 DEF UnadoptStripped
<1>14. UnadoptOwed'
  <2>1. ~inGit' /\ Ours' => ~inGit /\ Ours
    BY <1>1, MarksWriteEffect, <1>2, MarksWriteView DEF UnadoptOwes, UnadoptDue, KeptFor, UnadoptStrippedAt, UnadoptMarkedAt, Busy, Running, RequestAt, BeforeOpen, FinAt, Finished, EntryAt, Same, FinSame, ViewSame, KeepMarkPut, MarksSame, OwnerSame
  <2>2. ASSUME NEW q \in UnadoptPR, ~inGit' /\ Ours', UnadoptOwes(q) PROVE UnadoptOwes(q)'
    <3>1. q \in PR /\ Same(q) /\ UNCHANGED tracked
      BY <1>1, MarksWriteEffect, <1>2, MarksWriteView, Sorts
    <3>2. Finished(q)' /\ \A v \in UnadoptPR : v # q => ~Busy(v)'
      BY <2>2, <3>1, <1>3 DEF UnadoptOwes, Finished, Same
    <3>3. UnadoptDue(q) => UnadoptDue(q)'
      BY <3>1 DEF UnadoptDue, Same, FinSame
    <3>4. Spent => Spent'
      BY <1>1, MarksWriteEffect, <1>2, MarksWriteView
    <3>5. KeptFor(q) => KeptFor(q)'
      <4>1. CASE KeepMark' = KeepMark
        BY <4>1 DEF KeptFor
      <4>2. CASE tick = "setNumber" /\ number \in UnadoptPR /\ KeepMark' = number
        BY <2>2, <4>2 DEF UnadoptOwes, Busy, KeptFor
      <4>3. CASE tick = "takeOff" \/ ~Ours'
        BY <2>2, <4>3, MarksWriteEffect DEF Owned, PassInGit
      <4> QED BY <4>1, <4>2, <4>3, MarksWriteView DEF ViewSame, MarksSame, KeepMarkPut
    <3> QED BY <2>2, <3>2, <3>3, <3>4, <3>5 DEF UnadoptOwes
  <2> QED BY <2>1, <2>2, UnadoptOwedKept DEF Owned
<1>15. UnadoptInGit'
  BY <1>1, MarksWriteEffect, <1>2, MarksWriteView, UnadoptInGitFrame DEF Owned
<1> QED BY <1>4, <1>5, <1>6, <1>7, <1>8, <1>9, <1>10, <1>11, <1>12, <1>13, <1>14, <1>15 DEF Owned

LEMMA PersonClosesOwned ==
    ASSUME Fits, Fits', Owned, Exists, Exists', ~crossed', MaxFailures <= 1, NEW p \in PR, PersonCloses(p)
    PROVE  Owned'
<1>1. (Failure => ~Spent /\ Spent') /\ (NoFailure => (Spent' <=> Spent))
  BY SpentStep
<1>2. Spent' <=> Spent
  BY PersonClosesEffect DEF Spent
<1>3. ViewSame
  BY PersonClosesEffect, ViewFrame
<1>4. p \in PR /\ RequestAt(p) /\ FinAt(p) /\ EntryAt(p) /\ UnopenedAt(p)
  BY PersonClosesEffect, Sorts, FitsAt
<1>5. /\ p \in Join => JoinInGitAt(p) /\ JoinMarkedAt(p) /\ JoinSwappedAt(p)
      /\ p \in UnadoptPR => UnadoptInGitAt(p) /\ UnadoptMarkedAt(p) /\ UnadoptStrippedAt(p)
      /\ p \in UnadoptPR /\ Busy(p) => \A v \in UnadoptPR : v # p => ~Busy(v)
  BY JoinAt, UnadoptAt
<1>6. \A v \in UnadoptPR : Busy(v)' => Busy(v)
  <2>1. ASSUME NEW v \in UnadoptPR, v # p PROVE Busy(v)' => Busy(v)
    <3>1. v \in PR /\ Same(v)
      BY <2>1, PersonClosesEffect, Sorts DEF Others
    <3> QED BY <2>1, <3>1, <1>1, PersonClosesEffect, <1>2, <1>3, <1>4, <1>5, Sorts, KeySorts DEF Busy, Running, FinSame, Same, ViewSame, MarksSame, OwnerSame, Same, FinSame
  <2>2. p \in UnadoptPR => (Busy(p)' => Busy(p))
    BY <1>1, PersonClosesEffect, <1>2, <1>3, <1>4, <1>5, Sorts, KeySorts, FinStays DEF Busy, Running, FinSame, Same, ViewSame, MarksSame, OwnerSame
  <2> QED BY <2>1, <2>2, Sorts, PersonClosesEffect
<1>7. JoinInGit'
  <2>1. ASSUME NEW q \in Join, q # p PROVE JoinInGitAt(q)'
    <3>1. Same(q) /\ q \in PR /\ JoinInGitAt(q) /\ RequestAt(q) /\ FinAt(q) /\ EntryAt(q) /\ UnopenedAt(q)
      BY <2>1, PersonClosesEffect, JoinAt, FitsAt, Sorts DEF Others
    <3>2. req[q] = "remark" /\ git'[found[q]] = "merged" => git[found[q]] = "merged"
      <4>1. req[q] = "remark" => found[q] \in Join /\ found[q] \in PR
        BY <3>1, <2>1, Sorts DEF RequestAt
      <4>2. req[q] = "remark" /\ found[q] # p => git'[found[q]] = git[found[q]]
        BY <4>1, <1>1, PersonClosesEffect, <1>2, <1>3, <1>4, <1>5 DEF Others, Same
      <4> QED BY <4>1, <4>2, <1>1, PersonClosesEffect, <1>2, <1>3, <1>4, <1>5, Sorts
    <3>3. JoinBusy(q)' => JoinBusy(q)
      BY <2>1, <3>1, <1>1, PersonClosesEffect, <1>2, <1>3, <1>4, <1>5, Sorts DEF JoinBusy, Running, Same, ViewSame, MarksSame
    <3> QED BY <2>1, <3>1, <3>2, <3>3, <1>1, PersonClosesEffect, <1>2, <1>3, <1>4, <1>5 DEF JoinInGitAt, Same
  <2>2. p \in Join => JoinInGitAt(p)'
    <3>1. p \in Join => git[p] = "open" /\ git'[p] = "closed" /\ req[p] # "remark"
      BY <1>1, PersonClosesEffect, <1>2, <1>3, <1>4, <1>5, Sorts DEF RequestAt, BeforeOpen
    <3> QED BY <3>1, <1>1, PersonClosesEffect, <1>2, <1>3, <1>4, <1>5 DEF JoinInGitAt
  <2> QED BY <2>1, <2>2 DEF JoinInGit
<1>8. JoinMarked'
  <2>1. ASSUME NEW q \in Join, q # p PROVE JoinMarkedAt(q)'
    <3>1. Same(q) /\ q \in PR /\ JoinMarkedAt(q) /\ RequestAt(q) /\ FinAt(q) /\ EntryAt(q) /\ UnopenedAt(q)
      BY <2>1, PersonClosesEffect, JoinAt, FitsAt, Sorts DEF Others
    <3> QED BY <2>1, <3>1, <1>1, PersonClosesEffect, <1>2, <1>3, <1>4, <1>5, Sorts, KeySorts, FinStays DEF JoinMarkedAt, RequestAt, BeforeOpen, UnopenedAt, FinSame, Same, ViewSame, MarksSame, OwnerSame
  <2>2. p \in Join => JoinMarkedAt(p)'
    BY <1>1, PersonClosesEffect, <1>2, <1>3, <1>4, <1>5, Sorts, KeySorts, FinStays, UnadoptAt, JoinAt DEF JoinMarkedAt, RequestAt, BeforeOpen, UnopenedAt, FinSame, Same, ViewSame, MarksSame, OwnerSame
  <2> QED BY <2>1, <2>2 DEF JoinMarked
<1>9. JoinOwed'
  <2>1. inGit' /\ ~Ours' => inGit /\ ~Ours
    BY <1>1, PersonClosesEffect, <1>2, <1>3, <1>4, <1>5 DEF JoinOwes, JoinDue, JoinSwappedAt, JoinMarkedAt, FinAt, Finished, EntryAt, UnopenedAt, FinSame, Same, ViewSame, MarksSame, OwnerSame
  <2>2. ASSUME NEW q \in Join, inGit' /\ ~Ours', JoinOwes(q) PROVE JoinOwes(q)'
    <3>1. q \in PR /\ RequestAt(q) /\ FinAt(q) /\ EntryAt(q) /\ JoinInGitAt(q) /\ JoinMarkedAt(q) /\ JoinSwappedAt(q)
      BY JoinAt, FitsAt, Sorts
    <3>2. CASE q # p
      <4>1. Same(q)
        BY <3>1, <3>2, PersonClosesEffect DEF Others
      <4> QED BY <2>2, <3>1, <4>1, <3>2, <1>1, PersonClosesEffect, <1>2, <1>3, <1>4, <1>5, Sorts, KeySorts, FinStays DEF JoinOwes, JoinDue, JoinSwappedAt, JoinMarkedAt, FinAt, Finished, EntryAt, UnopenedAt, FinSame, Same, ViewSame, MarksSame, OwnerSame
    <3>3. CASE q = p
      BY <2>2, <3>1, <3>3, <1>1, PersonClosesEffect, <1>2, <1>3, <1>4, <1>5, Sorts, KeySorts, FinStays DEF JoinOwes, JoinDue, JoinSwappedAt, JoinMarkedAt, FinAt, Finished, EntryAt, UnopenedAt, FinSame, Same, ViewSame, MarksSame, OwnerSame
    <3> QED BY <3>2, <3>3
  <2> QED BY <2>1, <2>2, JoinOwedKept DEF Owned
<1>10. OneBusy'
  BY <1>6, OneBusyKept DEF Owned
<1>11. UnadoptInGit'
  <2>1. ASSUME NEW q \in UnadoptPR, q # p PROVE UnadoptInGitAt(q)'
    <3>1. Same(q) /\ q \in PR /\ UnadoptInGitAt(q) /\ RequestAt(q) /\ FinAt(q) /\ EntryAt(q) /\ UnopenedAt(q)
      BY <2>1, PersonClosesEffect, UnadoptAt, FitsAt, Sorts DEF Others
    <3> QED BY <2>1, <3>1, <1>1, PersonClosesEffect, <1>2, <1>3, <1>4, <1>5, Sorts, KeySorts, FinStays DEF UnadoptInGitAt, Busy, Running, RequestAt, BeforeOpen, FinAt, Finished, FinSame, Same
  <2>2. p \in UnadoptPR => UnadoptInGitAt(p)'
    BY <1>1, PersonClosesEffect, <1>2, <1>3, <1>4, <1>5, Sorts, KeySorts, FinStays, UnadoptAt, JoinAt DEF UnadoptInGitAt, Busy, Running, RequestAt, BeforeOpen, FinAt, Finished, FinSame, Same
  <2> QED BY <2>1, <2>2 DEF UnadoptInGit
<1>12. UnadoptMarked'
  <2>1. ASSUME NEW q \in UnadoptPR, q # p PROVE UnadoptMarkedAt(q)'
    <3>1. Same(q) /\ q \in PR /\ UnadoptMarkedAt(q) /\ RequestAt(q) /\ FinAt(q) /\ EntryAt(q) /\ UnopenedAt(q)
      BY <2>1, PersonClosesEffect, UnadoptAt, FitsAt, Sorts DEF Others
    <3> QED BY <2>1, <3>1, <1>1, PersonClosesEffect, <1>2, <1>3, <1>4, <1>5, Sorts, KeySorts, FinStays DEF UnadoptMarkedAt, UnadoptKnown, KeptFor, Busy, Running, RequestAt, BeforeOpen, FinAt, Finished, FinSame, Same, ViewSame, MarksSame, OwnerSame
  <2>2. p \in UnadoptPR => UnadoptMarkedAt(p)'
    BY <1>1, PersonClosesEffect, <1>2, <1>3, <1>4, <1>5, Sorts, KeySorts, FinStays, UnadoptAt, JoinAt DEF UnadoptMarkedAt, UnadoptKnown, KeptFor, Busy, Running, RequestAt, BeforeOpen, FinAt, Finished, FinSame, Same, ViewSame, MarksSame, OwnerSame
  <2> QED BY <2>1, <2>2 DEF UnadoptMarked
<1>13. UnadoptStripped'
  <2>1. ASSUME NEW q \in UnadoptPR, q # p PROVE UnadoptStrippedAt(q)'
    <3>1. Same(q) /\ q \in PR /\ UnadoptStrippedAt(q) /\ RequestAt(q) /\ FinAt(q) /\ EntryAt(q) /\ UnopenedAt(q)
      BY <2>1, PersonClosesEffect, UnadoptAt, FitsAt, Sorts DEF Others
    <3> QED BY <2>1, <3>1, <1>1, PersonClosesEffect, <1>2, <1>3, <1>4, <1>5, Sorts, KeySorts, FinStays DEF UnadoptStrippedAt, JoinInGitAt, JoinBusy, Busy, RequestAt, BeforeOpen, FinAt, Finished, EntryAt, FinSame, Same, ViewSame, MarksSame, OwnerSame
  <2>2. p \in UnadoptPR => UnadoptStrippedAt(p)'
    BY <1>1, PersonClosesEffect, <1>2, <1>3, <1>4, <1>5, Sorts, KeySorts, FinStays, UnadoptAt, JoinAt DEF UnadoptStrippedAt, JoinInGitAt, JoinBusy, Busy, RequestAt, BeforeOpen, FinAt, Finished, EntryAt, FinSame, Same, ViewSame, MarksSame, OwnerSame
  <2> QED BY <2>1, <2>2 DEF UnadoptStripped
<1>14. UnadoptOwed'
  <2>1. ~inGit' /\ Ours' => ~inGit /\ Ours
    BY <1>1, PersonClosesEffect, <1>2, <1>3, <1>4, <1>5 DEF UnadoptOwes, UnadoptDue, KeptFor, UnadoptStrippedAt, UnadoptMarkedAt, Busy, Running, RequestAt, BeforeOpen, FinAt, Finished, EntryAt, FinSame, Same, ViewSame, MarksSame, OwnerSame
  <2>2. ASSUME NEW q \in UnadoptPR, ~inGit' /\ Ours', UnadoptOwes(q) PROVE UnadoptOwes(q)'
    <3>1. q \in PR /\ RequestAt(q) /\ FinAt(q) /\ EntryAt(q) /\ UnadoptInGitAt(q) /\ UnadoptMarkedAt(q) /\ UnadoptStrippedAt(q)
      BY UnadoptAt, FitsAt, Sorts
    <3>2. CASE q # p
      <4>1. Same(q)
        BY <3>1, <3>2, PersonClosesEffect DEF Others
      <4> QED BY <2>2, <3>1, <4>1, <3>2, <1>1, PersonClosesEffect, <1>2, <1>3, <1>4, <1>5, Sorts, KeySorts, FinStays, <1>6 DEF UnadoptOwes, UnadoptDue, KeptFor, UnadoptStrippedAt, UnadoptMarkedAt, Busy, Running, RequestAt, BeforeOpen, FinAt, Finished, EntryAt, FinSame, Same, ViewSame, MarksSame, OwnerSame
    <3>3. CASE q = p
      BY <2>2, <3>1, <3>3, <1>1, PersonClosesEffect, <1>2, <1>3, <1>4, <1>5, Sorts, KeySorts, FinStays, <1>6 DEF UnadoptOwes, UnadoptDue, KeptFor, UnadoptStrippedAt, UnadoptMarkedAt, Busy, Running, RequestAt, BeforeOpen, FinAt, Finished, EntryAt, FinSame, Same, ViewSame, MarksSame, OwnerSame
    <3> QED BY <3>2, <3>3
  <2> QED BY <2>1, <2>2, UnadoptOwedKept DEF Owned
<1>15. JoinSwapped' /\ PendingFit' /\ PassInGit' /\ UnadoptKnown'
  BY <1>1, PersonClosesEffect, <1>2, <1>3, <1>4, <1>5, JoinSwappedFrame, PendingFrame, PassInGitFrame, UnadoptKnownFrame DEF Owned
<1> QED BY <1>7, <1>8, <1>9, <1>10, <1>11, <1>12, <1>13, <1>14, <1>15 DEF Owned

LEMMA MarkAgesOwned ==
    ASSUME Fits, Fits', Owned, Exists, Exists', ~crossed', MaxFailures <= 1, MarkAges
    PROVE  Owned'
<1>1. (Failure => ~Spent /\ Spent') /\ (NoFailure => (Spent' <=> Spent))
  BY SpentStep
<1>2. Spent' <=> Spent
  BY MarkAgesEffect DEF Spent
<1>3. \A v \in UnadoptPR : Busy(v)' => Busy(v)
  BY <1>1, MarkAgesEffect, <1>2, MarkAgesView, Sorts, KeySorts, FinStays DEF Busy, Running, Same, FinSame, KeepMarkPut, OwnerSame
<1>4. JoinInGit'
  <2>1. ASSUME NEW q \in Join PROVE JoinInGitAt(q)'
    <3>1. q \in PR /\ JoinInGitAt(q) /\ RequestAt(q) /\ FinAt(q) /\ EntryAt(q) /\ UnopenedAt(q) /\ Same(q)
      BY <2>1, JoinAt, FitsAt, Sorts, MarkAgesEffect
    <3> QED BY <3>1, <1>1, MarkAgesEffect, <1>2, MarkAgesView, Sorts, KeySorts, FinStays DEF JoinInGitAt, JoinBusy, Running, FinAt, Finished, Same, FinSame, KeepMarkPut, OwnerSame
  <2> QED BY <2>1 DEF JoinInGit
<1>5. JoinMarked'
  <2>1. ASSUME NEW q \in Join PROVE JoinMarkedAt(q)'
    <3>1. q \in PR /\ JoinMarkedAt(q) /\ RequestAt(q) /\ FinAt(q) /\ EntryAt(q) /\ UnopenedAt(q) /\ Same(q)
      BY <2>1, JoinAt, FitsAt, Sorts, MarkAgesEffect
    <3> QED BY <3>1, <1>1, MarkAgesEffect, <1>2, MarkAgesView, Sorts, KeySorts, FinStays DEF JoinMarkedAt, RequestAt, BeforeOpen, UnopenedAt, Same, FinSame, KeepMarkPut, OwnerSame
  <2> QED BY <2>1 DEF JoinMarked
<1>6. JoinSwapped'
  <2>1. ASSUME NEW q \in Join PROVE JoinSwappedAt(q)'
    <3>1. q \in PR /\ JoinSwappedAt(q) /\ RequestAt(q) /\ FinAt(q) /\ EntryAt(q) /\ UnopenedAt(q) /\ Same(q)
      BY <2>1, JoinAt, FitsAt, Sorts, MarkAgesEffect
    <3> QED BY <3>1, <1>1, MarkAgesEffect, <1>2, MarkAgesView, Sorts, KeySorts, FinStays DEF JoinSwappedAt, JoinInGitAt, JoinBusy, FinAt, Finished, Same, FinSame, KeepMarkPut, OwnerSame
  <2> QED BY <2>1 DEF JoinSwapped
<1>7. JoinOwed'
  <2>1. inGit' /\ ~Ours' => inGit /\ ~Ours
    BY <1>1, MarkAgesEffect, <1>2, MarkAgesView DEF JoinOwes, JoinDue, JoinSwappedAt, JoinMarkedAt, FinAt, Finished, EntryAt, UnopenedAt, Same, FinSame, KeepMarkPut, OwnerSame
  <2>2. ASSUME NEW q \in Join, inGit' /\ ~Ours', JoinOwes(q) PROVE JoinOwes(q)'
    <3>1. q \in PR /\ RequestAt(q) /\ FinAt(q) /\ EntryAt(q) /\ JoinInGitAt(q) /\ JoinMarkedAt(q) /\ JoinSwappedAt(q)
      BY JoinAt, FitsAt, Sorts
    <3> QED BY <2>2, <3>1, <1>1, MarkAgesEffect, <1>2, MarkAgesView, Sorts, KeySorts, FinStays DEF JoinOwes, JoinDue, JoinSwappedAt, JoinMarkedAt, FinAt, Finished, EntryAt, UnopenedAt, Same, FinSame, KeepMarkPut, OwnerSame
  <2> QED BY <2>1, <2>2, JoinOwedKept DEF Owned
<1>8. OneBusy'
  BY <1>3, OneBusyKept DEF Owned
<1>9. PendingFit'
  <2>1. Spent /\ marked = {}
    <3>1. \A u \in marked : u \in UnadoptPR /\ u \in PR
      BY TypeParts, Sorts DEF Fits, RequestsOK
    <3>2. \A u \in marked : Running(u)
      BY <3>1, FitsAt DEF RequestAt, Running
    <3>3. marked = {}
      BY <3>1, <3>2, MarkAgesEffect
    <3> QED BY <3>3, MarkAgesView DEF Owned, PendingFit
  <2>2. KeepMark' = OldPending /\ (Spent' <=> Spent) /\ UNCHANGED <<req, tick, listed>> /\ KeepMark = Pending
    BY <1>1, MarkAgesEffect, <1>2, MarkAgesView DEF KeepMarkPut
  <2>3. \E u \in UnadoptPR : req[u] # "idle"
    BY <2>2 DEF Owned, PendingFit, Unnumbered
  <2> QED BY <2>1, <2>2, <2>3, <1>1, MarkAgesEffect, <1>2, MarkAgesView, Sorts DEF PendingFit, Running
<1>10. UnadoptKnown'
  BY <1>1, MarkAgesEffect, <1>2, MarkAgesView, Sorts, KeySorts, FinStays DEF Owned, Fits, UnadoptKnown, Busy, Running, PendingFit, RequestAt, BeforeOpen, FinAt, Finished, Same, FinSame, KeepMarkPut, OwnerSame
<1>11. UnadoptMarked'
  <2>1. ASSUME NEW q \in UnadoptPR PROVE UnadoptMarkedAt(q)'
    <3>1. q \in PR /\ UnadoptMarkedAt(q) /\ RequestAt(q) /\ FinAt(q) /\ EntryAt(q) /\ UnopenedAt(q) /\ Same(q)
      BY <2>1, UnadoptAt, FitsAt, Sorts, MarkAgesEffect
    <3> QED BY <3>1, <1>1, MarkAgesEffect, <1>2, MarkAgesView, Sorts, KeySorts, FinStays DEF UnadoptMarkedAt, UnadoptKnown, KeptFor, Busy, Running, RequestAt, BeforeOpen, FinAt, Finished, Same, FinSame, KeepMarkPut, OwnerSame
  <2> QED BY <2>1 DEF UnadoptMarked
<1>12. UnadoptStripped'
  <2>1. ASSUME NEW q \in UnadoptPR PROVE UnadoptStrippedAt(q)'
    <3>1. q \in PR /\ UnadoptStrippedAt(q) /\ RequestAt(q) /\ FinAt(q) /\ EntryAt(q) /\ UnopenedAt(q) /\ Same(q)
      BY <2>1, UnadoptAt, FitsAt, Sorts, MarkAgesEffect
    <3> QED BY <3>1, <1>1, MarkAgesEffect, <1>2, MarkAgesView, Sorts, KeySorts, FinStays DEF UnadoptStrippedAt, JoinInGitAt, JoinBusy, Busy, RequestAt, BeforeOpen, FinAt, Finished, EntryAt, Same, FinSame, KeepMarkPut, OwnerSame
  <2> QED BY <2>1 DEF UnadoptStripped
<1>13. UnadoptOwed'
  <2>1. ~inGit' /\ Ours' => ~inGit /\ Ours
    BY <1>1, MarkAgesEffect, <1>2, MarkAgesView DEF UnadoptOwes, UnadoptDue, KeptFor, UnadoptStrippedAt, UnadoptMarkedAt, Busy, Running, RequestAt, BeforeOpen, FinAt, Finished, EntryAt, Same, FinSame, KeepMarkPut, OwnerSame
  <2>2. ASSUME NEW q \in UnadoptPR, ~inGit' /\ Ours', UnadoptOwes(q) PROVE UnadoptOwes(q)'
    <3>1. q \in PR /\ RequestAt(q) /\ FinAt(q) /\ EntryAt(q) /\ UnadoptInGitAt(q) /\ UnadoptMarkedAt(q) /\ UnadoptStrippedAt(q)
      BY UnadoptAt, FitsAt, Sorts
    <3> QED BY <2>2, <3>1, <1>1, MarkAgesEffect, <1>2, MarkAgesView, Sorts, KeySorts, FinStays, <1>3 DEF UnadoptOwes, UnadoptDue, KeptFor, UnadoptStrippedAt, UnadoptMarkedAt, Busy, Running, RequestAt, BeforeOpen, FinAt, Finished, EntryAt, Same, FinSame, KeepMarkPut, OwnerSame
  <2> QED BY <2>1, <2>2, UnadoptOwedKept DEF Owned
<1>14. UnadoptInGit' /\ PassInGit'
  BY <1>1, MarkAgesEffect, <1>2, MarkAgesView, UnadoptInGitFrame, PassInGitFrame DEF Owned
<1> QED BY <1>4, <1>5, <1>6, <1>7, <1>8, <1>9, <1>10, <1>11, <1>12, <1>13, <1>14 DEF Owned

LEMMA ServerRestartsOwned ==
    ASSUME Fits, Fits', Owned, Exists, Exists', ~crossed', MaxFailures <= 1, ServerRestarts
    PROVE  Owned'
<1>1. (Failure => ~Spent /\ Spent') /\ (NoFailure => (Spent' <=> Spent))
  BY SpentStep
<1>2. listed'["keep"] = NoMark /\ \A q \in PR : listed'[Key(q)] # q
  BY ServerRestartsEffect, NothingMeans
<1>3. ViewSame
  BY ServerRestartsEffect, ViewFrame
<1>4. \A v \in UnadoptPR : Busy(v)' => Busy(v)
  BY <1>1, ServerRestartsEffect, <1>2, <1>3, Sorts, KeySorts DEF Busy, Running, ViewSame, MarksSame, OwnerSame
<1>5. JoinInGit'
  <2>1. ASSUME NEW q \in Join PROVE JoinInGitAt(q)'
    <3>1. q \in PR /\ JoinInGitAt(q) /\ RequestAt(q) /\ FinAt(q) /\ EntryAt(q) /\ UnopenedAt(q)
      BY <2>1, JoinAt, FitsAt, Sorts
    <3> QED BY <3>1, <1>1, ServerRestartsEffect, <1>2, <1>3, Sorts, KeySorts DEF JoinInGitAt, JoinBusy, Running, FinAt, Finished, ViewSame, MarksSame, OwnerSame, Same, FinSame
  <2> QED BY <2>1 DEF JoinInGit
<1>6. JoinMarked'
  <2>1. ASSUME NEW q \in Join PROVE JoinMarkedAt(q)'
    <3>1. q \in PR /\ JoinMarkedAt(q) /\ RequestAt(q) /\ FinAt(q) /\ EntryAt(q) /\ UnopenedAt(q)
      BY <2>1, JoinAt, FitsAt, Sorts
    <3> QED BY <3>1, <1>1, ServerRestartsEffect, <1>2, <1>3, Sorts, KeySorts DEF JoinMarkedAt, RequestAt, BeforeOpen, UnopenedAt, ViewSame, MarksSame, OwnerSame, Same, FinSame
  <2> QED BY <2>1 DEF JoinMarked
<1>7. JoinSwapped'
  <2>1. ASSUME NEW q \in Join PROVE JoinSwappedAt(q)'
    <3>1. q \in PR /\ JoinSwappedAt(q) /\ RequestAt(q) /\ FinAt(q) /\ EntryAt(q) /\ UnopenedAt(q)
      BY <2>1, JoinAt, FitsAt, Sorts
    <3> QED BY <3>1, <1>1, ServerRestartsEffect, <1>2, <1>3, Sorts, KeySorts DEF JoinSwappedAt, JoinInGitAt, JoinBusy, FinAt, Finished, ViewSame, MarksSame, OwnerSame, Same, FinSame
  <2> QED BY <2>1 DEF JoinSwapped
<1>8. JoinOwed'
  <2>1. inGit' /\ ~Ours' => inGit /\ ~Ours
    BY <1>1, ServerRestartsEffect, <1>2, <1>3 DEF JoinOwes, JoinDue, JoinSwappedAt, JoinMarkedAt, FinAt, Finished, EntryAt, UnopenedAt, ViewSame, MarksSame, OwnerSame
  <2>2. ASSUME NEW q \in Join, inGit' /\ ~Ours', JoinOwes(q) PROVE JoinOwes(q)'
    <3>1. q \in PR /\ RequestAt(q) /\ FinAt(q) /\ EntryAt(q) /\ JoinInGitAt(q) /\ JoinMarkedAt(q) /\ JoinSwappedAt(q)
      BY JoinAt, FitsAt, Sorts
    <3> QED BY <2>2, <3>1, <1>1, ServerRestartsEffect, <1>2, <1>3, Sorts, KeySorts DEF JoinOwes, JoinDue, JoinSwappedAt, JoinMarkedAt, FinAt, Finished, EntryAt, UnopenedAt, ViewSame, MarksSame, OwnerSame, Same, FinSame
  <2> QED BY <2>1, <2>2, JoinOwedKept DEF Owned
<1>9. OneBusy'
  BY <1>4, OneBusyKept DEF Owned
<1>10. PendingFit'
  BY <1>1, ServerRestartsEffect, <1>2, <1>3, Sorts, KeySorts DEF Owned, Fits, PendingFit, Running, RequestsFit, RequestAt, MarksFit, Nothing, ViewSame, MarksSame, OwnerSame, Same, FinSame, Others
<1>11. UnadoptInGit'
  <2>1. ASSUME NEW q \in UnadoptPR PROVE UnadoptInGitAt(q)'
    <3>1. q \in PR /\ UnadoptInGitAt(q) /\ RequestAt(q) /\ FinAt(q) /\ EntryAt(q) /\ UnopenedAt(q)
      BY <2>1, UnadoptAt, FitsAt, Sorts
    <3> QED BY <3>1, <1>1, ServerRestartsEffect, <1>2, <1>3, Sorts, KeySorts DEF UnadoptInGitAt, Busy, Running, RequestAt, BeforeOpen, FinAt, Finished, Same, FinSame
  <2> QED BY <2>1 DEF UnadoptInGit
<1>12. PassInGit'
  BY <1>1, ServerRestartsEffect, <1>2, <1>3, Sorts, KeySorts DEF Owned, Fits, PassInGit, Same, FinSame, Others
<1>13. UnadoptKnown'
  BY <1>1, ServerRestartsEffect, <1>2, <1>3, Sorts, KeySorts DEF Owned, Fits, UnadoptKnown, Busy, Running, PendingFit, RequestAt, BeforeOpen, FinAt, Finished, ViewSame, MarksSame, OwnerSame, Same, FinSame, Others
<1>14. UnadoptMarked'
  <2>1. ASSUME NEW q \in UnadoptPR PROVE UnadoptMarkedAt(q)'
    <3>1. q \in PR /\ UnadoptMarkedAt(q) /\ RequestAt(q) /\ FinAt(q) /\ EntryAt(q) /\ UnopenedAt(q)
      BY <2>1, UnadoptAt, FitsAt, Sorts
    <3> QED BY <3>1, <1>1, ServerRestartsEffect, <1>2, <1>3, Sorts, KeySorts DEF UnadoptMarkedAt, UnadoptKnown, KeptFor, Busy, Running, RequestAt, BeforeOpen, FinAt, Finished, ViewSame, MarksSame, OwnerSame, Same, FinSame
  <2> QED BY <2>1 DEF UnadoptMarked
<1>15. UnadoptStripped'
  <2>1. ASSUME NEW q \in UnadoptPR PROVE UnadoptStrippedAt(q)'
    <3>1. q \in PR /\ UnadoptStrippedAt(q) /\ RequestAt(q) /\ FinAt(q) /\ EntryAt(q) /\ UnopenedAt(q)
      BY <2>1, UnadoptAt, FitsAt, Sorts
    <3> QED BY <3>1, <1>1, ServerRestartsEffect, <1>2, <1>3, Sorts, KeySorts DEF UnadoptStrippedAt, JoinInGitAt, JoinBusy, Busy, RequestAt, BeforeOpen, FinAt, Finished, EntryAt, ViewSame, MarksSame, OwnerSame, Same, FinSame
  <2> QED BY <2>1 DEF UnadoptStripped
<1>16. UnadoptOwed'
  <2>1. ~inGit' /\ Ours' => ~inGit /\ Ours
    BY <1>1, ServerRestartsEffect, <1>2, <1>3 DEF UnadoptOwes, UnadoptDue, KeptFor, UnadoptStrippedAt, UnadoptMarkedAt, Busy, Running, RequestAt, BeforeOpen, FinAt, Finished, EntryAt, ViewSame, MarksSame, OwnerSame
  <2>2. ASSUME NEW q \in UnadoptPR, ~inGit' /\ Ours', UnadoptOwes(q) PROVE UnadoptOwes(q)'
    <3>1. q \in PR /\ RequestAt(q) /\ FinAt(q) /\ EntryAt(q) /\ UnadoptInGitAt(q) /\ UnadoptMarkedAt(q) /\ UnadoptStrippedAt(q)
      BY UnadoptAt, FitsAt, Sorts
    <3> QED BY <2>2, <3>1, <1>1, ServerRestartsEffect, <1>2, <1>3, Sorts, KeySorts, <1>4 DEF UnadoptOwes, UnadoptDue, KeptFor, UnadoptStrippedAt, UnadoptMarkedAt, Busy, Running, RequestAt, BeforeOpen, FinAt, Finished, EntryAt, ViewSame, MarksSame, OwnerSame, Same, FinSame
  <2> QED BY <2>1, <2>2, UnadoptOwedKept DEF Owned
<1> QED BY <1>5, <1>6, <1>7, <1>8, <1>9, <1>10, <1>11, <1>12, <1>13, <1>14, <1>15, <1>16 DEF Owned

LEMMA JoinMergeRefusedOwned ==
    ASSUME Fits, Fits', Owned, Exists, Exists', ~crossed', MaxFailures <= 1, NEW p \in PR, JoinMergeRefused(p)
    PROVE  Owned'
<1>1. (Failure => ~Spent /\ Spent') /\ (NoFailure => (Spent' <=> Spent))
  BY SpentStep
<1>2. ViewSame
  BY JoinMergeRefusedEffect, ViewFrame
<1>3. p \in PR /\ RequestAt(p) /\ FinAt(p) /\ EntryAt(p) /\ UnopenedAt(p)
  BY JoinMergeRefusedEffect, Sorts, FitsAt
<1>4. JoinInGitAt(p) /\ JoinMarkedAt(p) /\ JoinSwappedAt(p)
  BY JoinMergeRefusedEffect, JoinAt
<1>5. \A v \in UnadoptPR : Busy(v)' => Busy(v)
  <2>1. ASSUME NEW v \in UnadoptPR, v # p PROVE Busy(v)' => Busy(v)
    <3>1. v \in PR /\ Same(v)
      BY <2>1, JoinMergeRefusedEffect, Sorts DEF Others
    <3> QED BY <2>1, <3>1, <1>1, JoinMergeRefusedEffect, <1>2, <1>3, <1>4, Sorts, KeySorts DEF Busy, Running, FinSame, Same, ViewSame, MarksSame, OwnerSame, Same, FinSame
  <2>2. p \in UnadoptPR => (Busy(p)' => Busy(p))
    BY <1>1, JoinMergeRefusedEffect, <1>2, <1>3, <1>4, Sorts, KeySorts, FinStays DEF Busy, Running, FinSame, Same, ViewSame, MarksSame, OwnerSame
  <2> QED BY <2>1, <2>2, Sorts, JoinMergeRefusedEffect
<1>6. JoinInGit'
  <2>1. ASSUME NEW q \in Join, q # p PROVE JoinInGitAt(q)'
    <3>1. Same(q) /\ q \in PR /\ JoinInGitAt(q) /\ RequestAt(q) /\ FinAt(q) /\ EntryAt(q) /\ UnopenedAt(q)
      BY <2>1, JoinMergeRefusedEffect, JoinAt, FitsAt, Sorts DEF Others
    <3> QED BY <2>1, <3>1, <1>1, JoinMergeRefusedEffect, <1>2, <1>3, <1>4, Sorts, KeySorts, FinStays DEF JoinInGitAt, JoinBusy, Running, FinAt, Finished, FinSame, Same, ViewSame, MarksSame, OwnerSame
  <2>2. p \in Join => JoinInGitAt(p)'
    BY <1>1, JoinMergeRefusedEffect, <1>2, <1>3, <1>4, Sorts, KeySorts, FinStays, UnadoptAt, JoinAt DEF JoinInGitAt, JoinBusy, Running, FinAt, Finished, FinSame, Same, ViewSame, MarksSame, OwnerSame
  <2> QED BY <2>1, <2>2 DEF JoinInGit
<1>7. JoinMarked'
  <2>1. ASSUME NEW q \in Join, q # p PROVE JoinMarkedAt(q)'
    <3>1. Same(q) /\ q \in PR /\ JoinMarkedAt(q) /\ RequestAt(q) /\ FinAt(q) /\ EntryAt(q) /\ UnopenedAt(q)
      BY <2>1, JoinMergeRefusedEffect, JoinAt, FitsAt, Sorts DEF Others
    <3> QED BY <2>1, <3>1, <1>1, JoinMergeRefusedEffect, <1>2, <1>3, <1>4, Sorts, KeySorts, FinStays DEF JoinMarkedAt, RequestAt, BeforeOpen, UnopenedAt, FinSame, Same, ViewSame, MarksSame, OwnerSame
  <2>2. p \in Join => JoinMarkedAt(p)'
    BY <1>1, JoinMergeRefusedEffect, <1>2, <1>3, <1>4, Sorts, KeySorts, FinStays, UnadoptAt, JoinAt DEF JoinMarkedAt, RequestAt, BeforeOpen, UnopenedAt, FinSame, Same, ViewSame, MarksSame, OwnerSame
  <2> QED BY <2>1, <2>2 DEF JoinMarked
<1>8. JoinSwapped'
  <2>1. ASSUME NEW q \in Join, q # p PROVE JoinSwappedAt(q)'
    <3>1. Same(q) /\ q \in PR /\ JoinSwappedAt(q) /\ RequestAt(q) /\ FinAt(q) /\ EntryAt(q) /\ UnopenedAt(q)
      BY <2>1, JoinMergeRefusedEffect, JoinAt, FitsAt, Sorts DEF Others
    <3> QED BY <2>1, <3>1, <1>1, JoinMergeRefusedEffect, <1>2, <1>3, <1>4, Sorts, KeySorts, FinStays DEF JoinSwappedAt, JoinInGitAt, JoinBusy, FinAt, Finished, FinSame, Same, ViewSame, MarksSame, OwnerSame
  <2>2. p \in Join => JoinSwappedAt(p)'
    BY <1>1, JoinMergeRefusedEffect, <1>2, <1>3, <1>4, Sorts, KeySorts, FinStays, UnadoptAt, JoinAt DEF JoinSwappedAt, JoinInGitAt, JoinBusy, FinAt, Finished, FinSame, Same, ViewSame, MarksSame, OwnerSame
  <2> QED BY <2>1, <2>2 DEF JoinSwapped
<1>9. JoinOwed'
  <2>1. inGit' /\ ~Ours' => inGit /\ ~Ours
    BY <1>1, JoinMergeRefusedEffect, <1>2, <1>3, <1>4 DEF JoinOwes, JoinDue, JoinSwappedAt, JoinMarkedAt, FinAt, Finished, EntryAt, UnopenedAt, FinSame, Same, ViewSame, MarksSame, OwnerSame
  <2>2. ASSUME NEW q \in Join, inGit' /\ ~Ours', JoinOwes(q) PROVE JoinOwes(q)'
    <3>1. q \in PR /\ RequestAt(q) /\ FinAt(q) /\ EntryAt(q) /\ JoinInGitAt(q) /\ JoinMarkedAt(q) /\ JoinSwappedAt(q)
      BY JoinAt, FitsAt, Sorts
    <3>2. CASE q # p
      <4>1. Same(q)
        BY <3>1, <3>2, JoinMergeRefusedEffect DEF Others
      <4> QED BY <2>2, <3>1, <4>1, <3>2, <1>1, JoinMergeRefusedEffect, <1>2, <1>3, <1>4, Sorts, KeySorts, FinStays DEF JoinOwes, JoinDue, JoinSwappedAt, JoinMarkedAt, FinAt, Finished, EntryAt, UnopenedAt, FinSame, Same, ViewSame, MarksSame, OwnerSame
    <3>3. CASE q = p
      BY <2>2, <3>1, <3>3, <1>1, JoinMergeRefusedEffect, <1>2, <1>3, <1>4, Sorts, KeySorts, FinStays DEF JoinOwes, JoinDue, JoinSwappedAt, JoinMarkedAt, FinAt, Finished, EntryAt, UnopenedAt, FinSame, Same, ViewSame, MarksSame, OwnerSame
    <3> QED BY <3>2, <3>3
  <2> QED BY <2>1, <2>2, JoinOwedKept DEF Owned
<1>10. OneBusy'
  BY <1>5, OneBusyKept DEF Owned
<1>11. PendingFit'
  BY <1>1, JoinMergeRefusedEffect, <1>2, <1>3, <1>4, Sorts, KeySorts, FinStays DEF Owned, Fits, PendingFit, Running, RequestsFit, RequestAt, MarksFit, Nothing, FinSame, Same, ViewSame, MarksSame, OwnerSame, Others
<1>12. UnadoptInGit'
  <2>1. ASSUME NEW q \in UnadoptPR, q # p PROVE UnadoptInGitAt(q)'
    <3>1. Same(q) /\ q \in PR /\ UnadoptInGitAt(q) /\ RequestAt(q) /\ FinAt(q) /\ EntryAt(q) /\ UnopenedAt(q)
      BY <2>1, JoinMergeRefusedEffect, UnadoptAt, FitsAt, Sorts DEF Others
    <3> QED BY <2>1, <3>1, <1>1, JoinMergeRefusedEffect, <1>2, <1>3, <1>4, Sorts, KeySorts, FinStays DEF UnadoptInGitAt, Busy, Running, RequestAt, BeforeOpen, FinAt, Finished, FinSame, Same
  <2> QED BY <2>1, JoinMergeRefusedEffect, Sorts DEF UnadoptInGit
<1>13. UnadoptKnown'
  BY <1>1, JoinMergeRefusedEffect, <1>2, <1>3, <1>4, Sorts, KeySorts, FinStays DEF Owned, Fits, UnadoptKnown, Busy, Running, PendingFit, RequestAt, BeforeOpen, FinAt, Finished, FinSame, Same, ViewSame, MarksSame, OwnerSame, Others
<1>14. UnadoptMarked'
  <2>1. ASSUME NEW q \in UnadoptPR, q # p PROVE UnadoptMarkedAt(q)'
    <3>1. Same(q) /\ q \in PR /\ UnadoptMarkedAt(q) /\ RequestAt(q) /\ FinAt(q) /\ EntryAt(q) /\ UnopenedAt(q)
      BY <2>1, JoinMergeRefusedEffect, UnadoptAt, FitsAt, Sorts DEF Others
    <3> QED BY <2>1, <3>1, <1>1, JoinMergeRefusedEffect, <1>2, <1>3, <1>4, Sorts, KeySorts, FinStays DEF UnadoptMarkedAt, UnadoptKnown, KeptFor, Busy, Running, RequestAt, BeforeOpen, FinAt, Finished, FinSame, Same, ViewSame, MarksSame, OwnerSame
  <2> QED BY <2>1, JoinMergeRefusedEffect, Sorts DEF UnadoptMarked
<1>15. UnadoptOwed'
  <2>1. ~inGit' /\ Ours' => ~inGit /\ Ours
    BY <1>1, JoinMergeRefusedEffect, <1>2, <1>3, <1>4 DEF UnadoptOwes, UnadoptDue, KeptFor, UnadoptStrippedAt, UnadoptMarkedAt, Busy, Running, RequestAt, BeforeOpen, FinAt, Finished, EntryAt, FinSame, Same, ViewSame, MarksSame, OwnerSame
  <2>2. ASSUME NEW q \in UnadoptPR, ~inGit' /\ Ours', UnadoptOwes(q) PROVE UnadoptOwes(q)'
    <3>1. q \in PR /\ RequestAt(q) /\ FinAt(q) /\ EntryAt(q) /\ UnadoptInGitAt(q) /\ UnadoptMarkedAt(q) /\ UnadoptStrippedAt(q)
      BY UnadoptAt, FitsAt, Sorts
    <3>2. CASE q # p
      <4>1. Same(q)
        BY <3>1, <3>2, JoinMergeRefusedEffect DEF Others
      <4> QED BY <2>2, <3>1, <4>1, <3>2, <1>1, JoinMergeRefusedEffect, <1>2, <1>3, <1>4, Sorts, KeySorts, FinStays, <1>5 DEF UnadoptOwes, UnadoptDue, KeptFor, UnadoptStrippedAt, UnadoptMarkedAt, Busy, Running, RequestAt, BeforeOpen, FinAt, Finished, EntryAt, FinSame, Same, ViewSame, MarksSame, OwnerSame
    <3> QED BY <3>2, JoinMergeRefusedEffect, Sorts
  <2> QED BY <2>1, <2>2, UnadoptOwedKept DEF Owned
<1>16. PassInGit' /\ UnadoptStripped'
  BY <1>1, JoinMergeRefusedEffect, <1>2, <1>3, <1>4, PassInGitFrame, UnadoptStrippedFrame DEF Owned
<1> QED BY <1>6, <1>7, <1>8, <1>9, <1>10, <1>11, <1>12, <1>13, <1>14, <1>15, <1>16 DEF Owned

LEMMA UnadoptMergeRefusedOwned ==
    ASSUME Fits, Fits', Owned, Exists, Exists', ~crossed', MaxFailures <= 1, NEW p \in PR, UnadoptMergeRefused(p)
    PROVE  Owned'
<1>1. (Failure => ~Spent /\ Spent') /\ (NoFailure => (Spent' <=> Spent))
  BY SpentStep
<1>2. ViewSame
  BY UnadoptMergeRefusedEffect, ViewFrame
<1>3. p \in PR /\ RequestAt(p) /\ FinAt(p) /\ EntryAt(p) /\ UnopenedAt(p)
  BY UnadoptMergeRefusedEffect, Sorts, FitsAt
<1>4. UnadoptInGitAt(p) /\ UnadoptMarkedAt(p) /\ UnadoptStrippedAt(p)
  BY UnadoptMergeRefusedEffect, UnadoptAt
<1>5. Busy(p) /\ \A v \in UnadoptPR : v # p => ~Busy(v)
  BY UnadoptMergeRefusedEffect, UnadoptAt DEF Busy, Running
<1>6. \A v \in UnadoptPR : Busy(v)' => Busy(v)
  <2>1. ASSUME NEW v \in UnadoptPR, v # p PROVE Busy(v)' => Busy(v)
    <3>1. v \in PR /\ Same(v)
      BY <2>1, UnadoptMergeRefusedEffect, Sorts DEF Others
    <3> QED BY <2>1, <3>1, <1>1, UnadoptMergeRefusedEffect, <1>2, <1>3, <1>4, <1>5, Sorts, KeySorts DEF Busy, Running, FinSame, Same, ViewSame, MarksSame, OwnerSame, Same, FinSame
  <2>2. p \in UnadoptPR => (Busy(p)' => Busy(p))
    BY <1>1, UnadoptMergeRefusedEffect, <1>2, <1>3, <1>4, <1>5, Sorts, KeySorts, FinStays DEF Busy, Running, FinSame, Same, ViewSame, MarksSame, OwnerSame
  <2> QED BY <2>1, <2>2, Sorts, UnadoptMergeRefusedEffect
<1>7. JoinInGit'
  <2>1. ASSUME NEW q \in Join, q # p PROVE JoinInGitAt(q)'
    <3>1. Same(q) /\ q \in PR /\ JoinInGitAt(q) /\ RequestAt(q) /\ FinAt(q) /\ EntryAt(q) /\ UnopenedAt(q)
      BY <2>1, UnadoptMergeRefusedEffect, JoinAt, FitsAt, Sorts DEF Others
    <3> QED BY <2>1, <3>1, <1>1, UnadoptMergeRefusedEffect, <1>2, <1>3, <1>4, <1>5, Sorts, KeySorts, FinStays DEF JoinInGitAt, JoinBusy, Running, FinAt, Finished, FinSame, Same, ViewSame, MarksSame, OwnerSame
  <2> QED BY <2>1, UnadoptMergeRefusedEffect, Sorts DEF JoinInGit
<1>8. JoinMarked'
  <2>1. ASSUME NEW q \in Join, q # p PROVE JoinMarkedAt(q)'
    <3>1. Same(q) /\ q \in PR /\ JoinMarkedAt(q) /\ RequestAt(q) /\ FinAt(q) /\ EntryAt(q) /\ UnopenedAt(q)
      BY <2>1, UnadoptMergeRefusedEffect, JoinAt, FitsAt, Sorts DEF Others
    <3> QED BY <2>1, <3>1, <1>1, UnadoptMergeRefusedEffect, <1>2, <1>3, <1>4, <1>5, Sorts, KeySorts, FinStays DEF JoinMarkedAt, RequestAt, BeforeOpen, UnopenedAt, FinSame, Same, ViewSame, MarksSame, OwnerSame
  <2> QED BY <2>1, UnadoptMergeRefusedEffect, Sorts DEF JoinMarked
<1>9. JoinSwapped'
  <2>1. ASSUME NEW q \in Join, q # p PROVE JoinSwappedAt(q)'
    <3>1. Same(q) /\ q \in PR /\ JoinSwappedAt(q) /\ RequestAt(q) /\ FinAt(q) /\ EntryAt(q) /\ UnopenedAt(q)
      BY <2>1, UnadoptMergeRefusedEffect, JoinAt, FitsAt, Sorts DEF Others
    <3> QED BY <2>1, <3>1, <1>1, UnadoptMergeRefusedEffect, <1>2, <1>3, <1>4, <1>5, Sorts, KeySorts, FinStays DEF JoinSwappedAt, JoinInGitAt, JoinBusy, FinAt, Finished, FinSame, Same, ViewSame, MarksSame, OwnerSame
  <2> QED BY <2>1, UnadoptMergeRefusedEffect, Sorts DEF JoinSwapped
<1>10. JoinOwed'
  <2>1. inGit' /\ ~Ours' => inGit /\ ~Ours
    BY <1>1, UnadoptMergeRefusedEffect, <1>2, <1>3, <1>4, <1>5 DEF JoinOwes, JoinDue, JoinSwappedAt, JoinMarkedAt, FinAt, Finished, EntryAt, UnopenedAt, FinSame, Same, ViewSame, MarksSame, OwnerSame
  <2>2. ASSUME NEW q \in Join, inGit' /\ ~Ours', JoinOwes(q) PROVE JoinOwes(q)'
    <3>1. q \in PR /\ RequestAt(q) /\ FinAt(q) /\ EntryAt(q) /\ JoinInGitAt(q) /\ JoinMarkedAt(q) /\ JoinSwappedAt(q)
      BY JoinAt, FitsAt, Sorts
    <3>2. CASE q # p
      <4>1. Same(q)
        BY <3>1, <3>2, UnadoptMergeRefusedEffect DEF Others
      <4> QED BY <2>2, <3>1, <4>1, <3>2, <1>1, UnadoptMergeRefusedEffect, <1>2, <1>3, <1>4, <1>5, Sorts, KeySorts, FinStays DEF JoinOwes, JoinDue, JoinSwappedAt, JoinMarkedAt, FinAt, Finished, EntryAt, UnopenedAt, FinSame, Same, ViewSame, MarksSame, OwnerSame
    <3> QED BY <3>2, UnadoptMergeRefusedEffect, Sorts
  <2> QED BY <2>1, <2>2, JoinOwedKept DEF Owned
<1>11. OneBusy'
  BY <1>6, OneBusyKept DEF Owned
<1>12. PendingFit'
  BY <1>1, UnadoptMergeRefusedEffect, <1>2, <1>3, <1>4, <1>5, Sorts, KeySorts, FinStays DEF Owned, Fits, PendingFit, Running, RequestsFit, RequestAt, MarksFit, Nothing, FinSame, Same, ViewSame, MarksSame, OwnerSame, Others
<1>13. UnadoptInGit'
  <2>1. ASSUME NEW q \in UnadoptPR, q # p PROVE UnadoptInGitAt(q)'
    <3>1. Same(q) /\ q \in PR /\ UnadoptInGitAt(q) /\ RequestAt(q) /\ FinAt(q) /\ EntryAt(q) /\ UnopenedAt(q)
      BY <2>1, UnadoptMergeRefusedEffect, UnadoptAt, FitsAt, Sorts DEF Others
    <3> QED BY <2>1, <3>1, <1>1, UnadoptMergeRefusedEffect, <1>2, <1>3, <1>4, <1>5, Sorts, KeySorts, FinStays DEF UnadoptInGitAt, Busy, Running, RequestAt, BeforeOpen, FinAt, Finished, FinSame, Same
  <2>2. p \in UnadoptPR => UnadoptInGitAt(p)'
    BY <1>1, UnadoptMergeRefusedEffect, <1>2, <1>3, <1>4, <1>5, Sorts, KeySorts, FinStays, UnadoptAt, JoinAt DEF UnadoptInGitAt, Busy, Running, RequestAt, BeforeOpen, FinAt, Finished, FinSame, Same
  <2> QED BY <2>1, <2>2 DEF UnadoptInGit
<1>14. UnadoptKnown'
  BY <1>1, UnadoptMergeRefusedEffect, <1>2, <1>3, <1>4, <1>5, Sorts, KeySorts, FinStays DEF Owned, Fits, UnadoptKnown, Busy, Running, PendingFit, RequestAt, BeforeOpen, FinAt, Finished, FinSame, Same, ViewSame, MarksSame, OwnerSame, Others
<1>15. UnadoptMarked'
  <2>1. ASSUME NEW q \in UnadoptPR, q # p PROVE UnadoptMarkedAt(q)'
    <3>1. Same(q) /\ q \in PR /\ UnadoptMarkedAt(q) /\ RequestAt(q) /\ FinAt(q) /\ EntryAt(q) /\ UnopenedAt(q)
      BY <2>1, UnadoptMergeRefusedEffect, UnadoptAt, FitsAt, Sorts DEF Others
    <3> QED BY <2>1, <3>1, <1>1, UnadoptMergeRefusedEffect, <1>2, <1>3, <1>4, <1>5, Sorts, KeySorts, FinStays DEF UnadoptMarkedAt, UnadoptKnown, KeptFor, Busy, Running, RequestAt, BeforeOpen, FinAt, Finished, FinSame, Same, ViewSame, MarksSame, OwnerSame
  <2>2. p \in UnadoptPR => UnadoptMarkedAt(p)'
    BY <1>1, UnadoptMergeRefusedEffect, <1>2, <1>3, <1>4, <1>5, Sorts, KeySorts, FinStays, UnadoptAt, JoinAt DEF UnadoptMarkedAt, UnadoptKnown, KeptFor, Busy, Running, RequestAt, BeforeOpen, FinAt, Finished, FinSame, Same, ViewSame, MarksSame, OwnerSame
  <2> QED BY <2>1, <2>2 DEF UnadoptMarked
<1>16. UnadoptOwed'
  <2>1. ~inGit' /\ Ours' => ~inGit /\ Ours
    BY <1>1, UnadoptMergeRefusedEffect, <1>2, <1>3, <1>4, <1>5 DEF UnadoptOwes, UnadoptDue, KeptFor, UnadoptStrippedAt, UnadoptMarkedAt, Busy, Running, RequestAt, BeforeOpen, FinAt, Finished, EntryAt, FinSame, Same, ViewSame, MarksSame, OwnerSame
  <2>2. ASSUME NEW q \in UnadoptPR, ~inGit' /\ Ours', UnadoptOwes(q) PROVE UnadoptOwes(q)'
    <3>1. q \in PR /\ RequestAt(q) /\ FinAt(q) /\ EntryAt(q) /\ UnadoptInGitAt(q) /\ UnadoptMarkedAt(q) /\ UnadoptStrippedAt(q)
      BY UnadoptAt, FitsAt, Sorts
    <3>2. CASE q # p
      <4>1. Same(q)
        BY <3>1, <3>2, UnadoptMergeRefusedEffect DEF Others
      <4> QED BY <2>2, <3>1, <4>1, <3>2, <1>1, UnadoptMergeRefusedEffect, <1>2, <1>3, <1>4, <1>5, Sorts, KeySorts, FinStays, <1>6 DEF UnadoptOwes, UnadoptDue, KeptFor, UnadoptStrippedAt, UnadoptMarkedAt, Busy, Running, RequestAt, BeforeOpen, FinAt, Finished, EntryAt, FinSame, Same, ViewSame, MarksSame, OwnerSame
    <3>3. CASE q = p
      BY <2>2, <3>1, <3>3, <1>1, UnadoptMergeRefusedEffect, <1>2, <1>3, <1>4, <1>5, Sorts, KeySorts, FinStays, <1>6 DEF UnadoptOwes, UnadoptDue, KeptFor, UnadoptStrippedAt, UnadoptMarkedAt, Busy, Running, RequestAt, BeforeOpen, FinAt, Finished, EntryAt, FinSame, Same, ViewSame, MarksSame, OwnerSame
    <3> QED BY <3>2, <3>3
  <2> QED BY <2>1, <2>2, UnadoptOwedKept DEF Owned
<1>17. PassInGit' /\ UnadoptStripped'
  BY <1>1, UnadoptMergeRefusedEffect, <1>2, <1>3, <1>4, <1>5, PassInGitFrame, UnadoptStrippedFrame DEF Owned
<1> QED BY <1>7, <1>8, <1>9, <1>10, <1>11, <1>12, <1>13, <1>14, <1>15, <1>16, <1>17 DEF Owned

LEMMA MarksTrackAtOwned ==
    ASSUME Fits, Fits', Owned, Exists, Exists', ~crossed', MaxFailures <= 1, NEW p \in PR, MarksTrackAt(p)
    PROVE  Owned'
<1>1. (Failure => ~Spent /\ Spent') /\ (NoFailure => (Spent' <=> Spent))
  BY SpentStep
<1>2. ViewSame
  BY MarksTrackAtEffect, ViewFrame
<1>3. p \in PR /\ RequestAt(p) /\ FinAt(p) /\ EntryAt(p) /\ UnopenedAt(p)
  BY MarksTrackAtEffect, Sorts, FitsAt
<1>4. /\ p \in Join => JoinInGitAt(p) /\ JoinMarkedAt(p) /\ JoinSwappedAt(p)
      /\ p \in UnadoptPR => UnadoptInGitAt(p) /\ UnadoptMarkedAt(p) /\ UnadoptStrippedAt(p)
      /\ p \in UnadoptPR /\ Busy(p) => \A v \in UnadoptPR : v # p => ~Busy(v)
  BY JoinAt, UnadoptAt
<1>5. \A v \in UnadoptPR : Busy(v)' => Busy(v)
  <2>1. ASSUME NEW v \in UnadoptPR, v # p PROVE Busy(v)' => Busy(v)
    <3>1. v \in PR /\ Same(v)
      BY <2>1, MarksTrackAtEffect, Sorts DEF Others
    <3> QED BY <2>1, <3>1, <1>1, MarksTrackAtEffect, <1>2, <1>3, <1>4, Sorts, KeySorts DEF Busy, Running, Recorded, FinSame, Same, ViewSame, MarksSame, OwnerSame, Same, FinSame
  <2>2. p \in UnadoptPR => (Busy(p)' => Busy(p))
    BY <1>1, MarksTrackAtEffect, <1>2, <1>3, <1>4, Sorts, KeySorts, FinStays DEF Busy, Running, Recorded, FinSame, Same, ViewSame, MarksSame, OwnerSame
  <2> QED BY <2>1, <2>2, Sorts, MarksTrackAtEffect
<1>6. JoinInGit'
  <2>1. ASSUME NEW q \in Join, q # p PROVE JoinInGitAt(q)'
    <3>1. Same(q) /\ q \in PR /\ JoinInGitAt(q) /\ RequestAt(q) /\ FinAt(q) /\ EntryAt(q) /\ UnopenedAt(q)
      BY <2>1, MarksTrackAtEffect, JoinAt, FitsAt, Sorts DEF Others
    <3> QED BY <2>1, <3>1, <1>1, MarksTrackAtEffect, <1>2, <1>3, <1>4, Sorts, KeySorts, FinStays DEF JoinInGitAt, JoinBusy, Running, FinAt, Finished, Recorded, FinSame, Same, ViewSame, MarksSame, OwnerSame
  <2>2. p \in Join => JoinInGitAt(p)'
    BY <1>1, MarksTrackAtEffect, <1>2, <1>3, <1>4, Sorts, KeySorts, FinStays, UnadoptAt, JoinAt DEF JoinInGitAt, JoinBusy, Running, FinAt, Finished, Recorded, FinSame, Same, ViewSame, MarksSame, OwnerSame
  <2> QED BY <2>1, <2>2 DEF JoinInGit
<1>7. JoinMarked'
  <2>1. ASSUME NEW q \in Join, q # p PROVE JoinMarkedAt(q)'
    <3>1. Same(q) /\ q \in PR /\ JoinMarkedAt(q) /\ RequestAt(q) /\ FinAt(q) /\ EntryAt(q) /\ UnopenedAt(q)
      BY <2>1, MarksTrackAtEffect, JoinAt, FitsAt, Sorts DEF Others
    <3> QED BY <2>1, <3>1, <1>1, MarksTrackAtEffect, <1>2, <1>3, <1>4, Sorts, KeySorts, FinStays DEF JoinMarkedAt, RequestAt, BeforeOpen, UnopenedAt, Recorded, FinSame, Same, ViewSame, MarksSame, OwnerSame
  <2>2. p \in Join => JoinMarkedAt(p)'
    BY <1>1, MarksTrackAtEffect, <1>2, <1>3, <1>4, Sorts, KeySorts, FinStays, UnadoptAt, JoinAt DEF JoinMarkedAt, RequestAt, BeforeOpen, UnopenedAt, Recorded, FinSame, Same, ViewSame, MarksSame, OwnerSame
  <2> QED BY <2>1, <2>2 DEF JoinMarked
<1>8. JoinOwed'
  <2>1. inGit' /\ ~Ours' => inGit /\ ~Ours
    BY <1>1, MarksTrackAtEffect, <1>2, <1>3, <1>4 DEF JoinOwes, JoinDue, JoinSwappedAt, JoinMarkedAt, FinAt, Finished, EntryAt, UnopenedAt, Recorded, FinSame, Same, ViewSame, MarksSame, OwnerSame
  <2>2. ASSUME NEW q \in Join, inGit' /\ ~Ours', JoinOwes(q) PROVE JoinOwes(q)'
    <3>1. q \in PR /\ RequestAt(q) /\ FinAt(q) /\ EntryAt(q) /\ JoinInGitAt(q) /\ JoinMarkedAt(q) /\ JoinSwappedAt(q)
      BY JoinAt, FitsAt, Sorts
    <3>2. CASE q # p
      <4>1. Same(q)
        BY <3>1, <3>2, MarksTrackAtEffect DEF Others
      <4> QED BY <2>2, <3>1, <4>1, <3>2, <1>1, MarksTrackAtEffect, <1>2, <1>3, <1>4, Sorts, KeySorts, FinStays DEF JoinOwes, JoinDue, JoinSwappedAt, JoinMarkedAt, FinAt, Finished, EntryAt, UnopenedAt, Recorded, FinSame, Same, ViewSame, MarksSame, OwnerSame
    <3>3. CASE q = p
      BY <2>2, <3>1, <3>3, <1>1, MarksTrackAtEffect, <1>2, <1>3, <1>4, Sorts, KeySorts, FinStays DEF JoinOwes, JoinDue, JoinSwappedAt, JoinMarkedAt, FinAt, Finished, EntryAt, UnopenedAt, Recorded, FinSame, Same, ViewSame, MarksSame, OwnerSame
    <3> QED BY <3>2, <3>3
  <2> QED BY <2>1, <2>2, JoinOwedKept DEF Owned
<1>9. OneBusy'
  BY <1>5, OneBusyKept DEF Owned
<1>10. PendingFit'
  <2>1. KeepMark' = KeepMark /\ (Spent => Spent') /\ UNCHANGED <<req, marked>>
    BY <1>1, MarksTrackAtEffect, <1>2, <1>3, <1>4 DEF ViewSame, MarksSame
  <2>2. tick' \notin {"setNumber", "takeOff", "giveBack"} /\ (listed'["keep"] = OldPending => listed["keep"] = OldPending)
    BY <1>1, MarksTrackAtEffect, <1>2, <1>3, <1>4, Sorts
  <2> QED BY <2>1, <2>2 DEF Owned, PendingFit, Running
<1>11. PassInGit'
  BY <1>1, MarksTrackAtEffect, <1>2, <1>3, <1>4, Sorts, KeySorts, FinStays DEF Owned, Fits, PassInGit, FinSame, Same, Others
<1>12. UnadoptKnown'
  BY <1>1, MarksTrackAtEffect, <1>2, <1>3, <1>4, Sorts, KeySorts, FinStays DEF Owned, Fits, UnadoptKnown, Busy, Running, PendingFit, RequestAt, BeforeOpen, FinAt, Finished, FinSame, Same, ViewSame, MarksSame, OwnerSame, Others
<1>13. UnadoptMarked'
  <2>1. ASSUME NEW q \in UnadoptPR, q # p PROVE UnadoptMarkedAt(q)'
    <3>1. Same(q) /\ q \in PR /\ UnadoptMarkedAt(q) /\ RequestAt(q) /\ FinAt(q) /\ EntryAt(q) /\ UnopenedAt(q)
      BY <2>1, MarksTrackAtEffect, UnadoptAt, FitsAt, Sorts DEF Others
    <3> QED BY <2>1, <3>1, <1>1, MarksTrackAtEffect, <1>2, <1>3, <1>4, Sorts, KeySorts, FinStays DEF UnadoptMarkedAt, UnadoptKnown, KeptFor, Busy, Running, RequestAt, BeforeOpen, FinAt, Finished, FinSame, Same, ViewSame, MarksSame, OwnerSame
  <2>2. p \in UnadoptPR => UnadoptMarkedAt(p)'
    BY <1>1, MarksTrackAtEffect, <1>2, <1>3, <1>4, Sorts, KeySorts, FinStays, UnadoptAt, JoinAt DEF UnadoptMarkedAt, UnadoptKnown, KeptFor, Busy, Running, RequestAt, BeforeOpen, FinAt, Finished, FinSame, Same, ViewSame, MarksSame, OwnerSame
  <2> QED BY <2>1, <2>2 DEF UnadoptMarked
<1>14. UnadoptOwed'
  <2>1. ~inGit' /\ Ours' => ~inGit /\ Ours
    BY <1>1, MarksTrackAtEffect, <1>2, <1>3, <1>4 DEF UnadoptOwes, UnadoptDue, KeptFor, UnadoptStrippedAt, UnadoptMarkedAt, Busy, Running, RequestAt, BeforeOpen, FinAt, Finished, EntryAt, Recorded, FinSame, Same, ViewSame, MarksSame, OwnerSame
  <2>2. ASSUME NEW q \in UnadoptPR, ~inGit' /\ Ours', UnadoptOwes(q) PROVE UnadoptOwes(q)'
    <3>1. q \in PR /\ RequestAt(q) /\ FinAt(q) /\ EntryAt(q) /\ UnadoptInGitAt(q) /\ UnadoptMarkedAt(q) /\ UnadoptStrippedAt(q)
      BY UnadoptAt, FitsAt, Sorts
    <3>2. CASE q # p
      <4>1. Same(q)
        BY <3>1, <3>2, MarksTrackAtEffect DEF Others
      <4> QED BY <2>2, <3>1, <4>1, <3>2, <1>1, MarksTrackAtEffect, <1>2, <1>3, <1>4, Sorts, KeySorts, FinStays, <1>5 DEF UnadoptOwes, UnadoptDue, KeptFor, UnadoptStrippedAt, UnadoptMarkedAt, Busy, Running, RequestAt, BeforeOpen, FinAt, Finished, EntryAt, Recorded, FinSame, Same, ViewSame, MarksSame, OwnerSame
    <3>3. CASE q = p
      BY <2>2, <3>1, <3>3, <1>1, MarksTrackAtEffect, <1>2, <1>3, <1>4, Sorts, KeySorts, FinStays, <1>5 DEF UnadoptOwes, UnadoptDue, KeptFor, UnadoptStrippedAt, UnadoptMarkedAt, Busy, Running, RequestAt, BeforeOpen, FinAt, Finished, EntryAt, Recorded, FinSame, Same, ViewSame, MarksSame, OwnerSame
    <3> QED BY <3>2, <3>3
  <2> QED BY <2>1, <2>2, UnadoptOwedKept DEF Owned
<1>15. JoinSwapped' /\ UnadoptInGit' /\ UnadoptStripped'
  BY <1>1, MarksTrackAtEffect, <1>2, <1>3, <1>4, JoinSwappedFrame, UnadoptInGitFrame, UnadoptStrippedFrame DEF Owned
<1> QED BY <1>6, <1>7, <1>8, <1>9, <1>10, <1>11, <1>12, <1>13, <1>14, <1>15 DEF Owned

LEMMA JoinMergeOwned ==
    ASSUME Fits, Fits', Owned, Exists, Exists', ~crossed', MaxFailures <= 1, NEW p \in PR, JoinMerge(p)
    PROVE  Owned'
<1>1. CASE Merged(p)
  BY <1>1, JoinMergeEffect, MergeOwned DEF Merged, NoFailure
<1>2. CASE ~Merged(p)
  BY <1>2, JoinMergeRefusedOwned DEF JoinMergeRefused
<1> QED BY <1>1, <1>2

LEMMA UnadoptMergeOwned ==
    ASSUME Fits, Fits', Owned, Exists, Exists', ~crossed', MaxFailures <= 1, NEW p \in PR, UnadoptMerge(p)
    PROVE  Owned'
<1>1. CASE Merged(p)
  BY <1>1, UnadoptMergeEffect, MergeOwned, Sorts DEF Merged, NoFailure
<1>2. CASE ~Merged(p)
  BY <1>2, UnadoptMergeRefusedOwned DEF UnadoptMergeRefused
<1> QED BY <1>1, <1>2

LEMMA MarksTrackOwned ==
    ASSUME Fits, Fits', Owned, Exists, Exists', ~crossed', MaxFailures <= 1, MarksTrack
    PROVE  Owned'
<1>1. PICK p \in PR : MarksTrackAt(p)
  BY MarksTrackEffect DEF MarksTrackAt
<1> QED BY <1>1, MarksTrackAtOwned

----------------------------------------------------------------------------
(* Every state is owned.                                                   *)

LEMMA OwnedInit == AdoptionInit => Owned
<1> SUFFICES ASSUME AdoptionInit PROVE Owned
  OBVIOUS
<1>1. \A p \in PR : /\ git[p] = "none" /\ req[p] = "idle" /\ tracked[p] = NoEntry
                    /\ TrackerStep(p) = "idle" /\ RequestStep(p) = "idle"
                    /\ ~MarkedBy(p) /\ listed[Key(p)] # p
  BY KeySorts, Sorts DEF AdoptionInit, TrackerStep, RequestStep, Finisher, MarkedBy, Nothing, Keys
<1>2. KeepMark = NoMark /\ listed["keep"] = NoMark /\ tick = "idle" /\ number = NoPR /\ inGit \in BOOLEAN
      /\ connection.managed = inGit /\ connection.adopted = inGit
  BY DEF AdoptionInit, KeepMark, Nothing
<1>3. (Ours <=> inGit) /\ (Adopted <=> inGit)
  BY <1>2 DEF Ours, Adopted
<1>4. JoinInGit /\ JoinMarked /\ JoinSwapped
  BY <1>1, Sorts DEF JoinInGit, JoinInGitAt, JoinBusy, Running, JoinMarked, JoinMarkedAt, JoinSwapped, JoinSwappedAt
<1>5. OneBusy
  BY <1>1, <1>2, Sorts DEF OneBusy, Busy, Running
<1>6. PendingFit /\ PassInGit
  BY <1>2, Sorts DEF PendingFit, PassInGit
<1>7. UnadoptInGit /\ UnadoptMarked /\ UnadoptStripped
  BY <1>1, Sorts DEF UnadoptInGit, UnadoptInGitAt, UnadoptMarked, UnadoptMarkedAt, UnadoptStripped, UnadoptStrippedAt
<1>8. UnadoptKnown
  BY <1>1, <1>3, Sorts DEF UnadoptKnown
<1> QED BY <1>3, <1>4, <1>5, <1>6, <1>7, <1>8 DEF Owned, JoinOwed, UnadoptOwed

LEMMA StaysOver ==
    ASSUME Fits, AdoptionNext, Exists', ~crossed'
    PROVE  Exists /\ ~crossed
<1>1. ASSUME NEW p \in PR, JoinPreflight(p) PROVE Exists /\ ~crossed
  BY <1>1, JoinPreflightEffect, Sorts DEF Exists
<1>2. ASSUME NEW p \in PR, UnadoptCheck(p) PROVE Exists /\ ~crossed
  BY <1>2, UnadoptCheckEffect, Sorts DEF Exists
<1>3. ASSUME NEW p \in PR, JoinFind(p) PROVE Exists /\ ~crossed
  BY <1>3, JoinFindEffect, Sorts DEF Exists
<1>4. ASSUME NEW p \in PR, JoinRemark(p) PROVE Exists /\ ~crossed
  BY <1>4, JoinRemarkEffect, Sorts DEF Exists, MarkSet
<1>5. ASSUME NEW p \in PR, JoinOpen(p) PROVE Exists /\ ~crossed
  BY <1>5, JoinOpenEffect, Sorts DEF Exists
<1>6. ASSUME NEW p \in PR, JoinMark(p) PROVE Exists /\ ~crossed
  BY <1>6, JoinMarkEffect, Sorts DEF Exists, MarkSet
<1>7. ASSUME NEW p \in PR, JoinTrack(p) PROVE Exists /\ ~crossed
  BY <1>7, JoinTrackEffect, Sorts DEF Exists
<1>8. ASSUME NEW p \in PR, JoinMerge(p) PROVE Exists /\ ~crossed
  BY <1>8, JoinMergeEffect, Sorts DEF Merged, Exists
<1>9. ASSUME NEW p \in PR, JoinSwap(p) PROVE Exists /\ ~crossed
  BY <1>9, JoinSwapEffect, Sorts DEF Exists, OwnerSet
<1>10. ASSUME NEW p \in PR, JoinAnnotate(p) PROVE Exists /\ ~crossed
  BY <1>10, JoinAnnotateEffect, Sorts DEF Exists, OwnerSet
<1>11. ASSUME NEW p \in PR, UnadoptPlan(p) PROVE Exists /\ ~crossed
  BY <1>11, UnadoptPlanEffect, Sorts DEF Exists
<1>12. ASSUME NEW p \in PR, UnadoptLook(p) PROVE Exists /\ ~crossed
  BY <1>12, UnadoptLookEffect, Sorts DEF Exists
<1>13. ASSUME NEW p \in PR, UnadoptSetMark(p) PROVE Exists /\ ~crossed
  BY <1>13, UnadoptSetMarkEffect, Sorts DEF Exists, MarkSet
<1>14. ASSUME NEW p \in PR, UnadoptOpen(p) PROVE Exists /\ ~crossed
  BY <1>14, UnadoptOpenEffect, Sorts DEF Exists
<1>15. ASSUME NEW p \in PR, UnadoptTrack(p) PROVE Exists /\ ~crossed
  BY <1>15, UnadoptTrackEffect, Sorts DEF Exists
<1>16. ASSUME NEW p \in PR, UnadoptMerge(p) PROVE Exists /\ ~crossed
  BY <1>16, UnadoptMergeEffect, Sorts DEF Merged, Exists
<1>17. ASSUME NEW p \in PR, UnadoptNumber(p) PROVE Exists /\ ~crossed
  BY <1>17, UnadoptNumberEffect, Sorts DEF Exists, MarkSet
<1>18. ASSUME NEW p \in PR, TrackerSees(p) PROVE Exists /\ ~crossed
  BY <1>18, TrackerSeesEffect, Sorts DEF Exists
<1>19. ASSUME NEW p \in PR, FinishStart(p) PROVE Exists /\ ~crossed
  BY <1>19, FinishStartEffect, Sorts DEF Exists
<1>20. ASSUME NEW p \in PR, GaveUpEnds(p) PROVE Exists /\ ~crossed
  BY <1>20, GaveUpEndsEffect, Sorts DEF Exists
<1>21. ASSUME NEW p \in PR, PersonMerges(p) PROVE Exists /\ ~crossed
  BY <1>21, PersonMergesEffect, Sorts DEF Merged, Exists
<1>22. ASSUME NEW p \in PR, PersonCloses(p) PROVE Exists /\ ~crossed
  BY <1>22, PersonClosesEffect, Sorts DEF Exists
<1>23. ASSUME NEW f \in Finisher, FinishLook(f) PROVE Exists /\ ~crossed
  BY <1>23, FinishLookEffect, Sorts DEF Exists
<1>24. ASSUME NEW f \in Finisher, FinishSwap(f) PROVE Exists /\ ~crossed
  BY <1>24, FinishSwapEffect, Sorts DEF Exists, OwnerSet
<1>25. ASSUME NEW f \in Finisher, FinishAnnotate(f) PROVE Exists /\ ~crossed
  BY <1>25, FinishAnnotateEffect, Sorts DEF Exists, OwnerSet
<1>26. ASSUME NEW f \in Finisher, FinishCheck(f) PROVE Exists /\ ~crossed
  BY <1>26, FinishCheckEffect, Sorts DEF Exists
<1>27. ASSUME NEW f \in Finisher, FinishStrip(f) PROVE Exists /\ ~crossed
  BY <1>27, FinishStripEffect, Sorts DEF Exists, OwnerSet
<1>28. ASSUME NEW f \in Finisher, FinishUnmark(f) PROVE Exists /\ ~crossed
  BY <1>28, FinishUnmarkEffect, Sorts DEF Exists, MarkSet
<1>29. ASSUME NEW f \in Finisher, FinishSettle(f) PROVE Exists /\ ~crossed
  BY <1>29, FinishSettleEffect, Sorts DEF Exists
<1>30. ASSUME MarksList PROVE Exists /\ ~crossed
  BY <1>30, MarksListEffect, Sorts DEF Exists
<1>31. ASSUME MarksTrack PROVE Exists /\ ~crossed
  BY <1>31, MarksTrackEffect, Sorts DEF Exists
<1>32. ASSUME MarksSettle PROVE Exists /\ ~crossed
  BY <1>32, MarksSettleEffect, Sorts DEF Exists
<1>33. ASSUME MarksWrite PROVE Exists /\ ~crossed
  BY <1>33, MarksWriteEffect, Sorts DEF Exists, MarkSet, GivenBack
<1>34. ASSUME MarkAges PROVE Exists /\ ~crossed
  BY <1>34, MarkAgesEffect, Sorts DEF Exists, MarkSet
<1>35. ASSUME PersonDeletes PROVE Exists /\ ~crossed
  BY <1>35, PersonDeletesEffect
<1>36. ASSUME ServerRestarts PROVE Exists /\ ~crossed
  BY <1>36, ServerRestartsEffect, Sorts DEF Exists
<1> QED BY <1>1, <1>2, <1>3, <1>4, <1>5, <1>6, <1>7, <1>8, <1>9, <1>10, <1>11, <1>12, <1>13, <1>14, <1>15, <1>16, <1>17, <1>18, <1>19, <1>20, <1>21, <1>22, <1>23, <1>24, <1>25, <1>26, <1>27, <1>28, <1>29, <1>30, <1>31, <1>32, <1>33, <1>34, <1>35, <1>36 DEF AdoptionNext, Asks, Moves, Tracker, Finishes, Marks

LEMMA OwnedNext ==
    ASSUME Fits, Fits', Owned, Exists, Exists', ~crossed', MaxFailures <= 1, AdoptionNext
    PROVE  Owned'
<1>1. ASSUME NEW p \in PR, JoinPreflight(p) PROVE Owned'
  BY <1>1, JoinPreflightOwned
<1>2. ASSUME NEW p \in PR, UnadoptCheck(p) PROVE Owned'
  BY <1>2, UnadoptCheckOwned
<1>3. ASSUME NEW p \in PR, JoinFind(p) PROVE Owned'
  BY <1>3, JoinFindOwned
<1>4. ASSUME NEW p \in PR, JoinRemark(p) PROVE Owned'
  BY <1>4, JoinRemarkOwned
<1>5. ASSUME NEW p \in PR, JoinOpen(p) PROVE Owned'
  BY <1>5, JoinOpenOwned
<1>6. ASSUME NEW p \in PR, JoinMark(p) PROVE Owned'
  BY <1>6, JoinMarkOwned
<1>7. ASSUME NEW p \in PR, JoinTrack(p) PROVE Owned'
  BY <1>7, JoinTrackOwned
<1>8. ASSUME NEW p \in PR, JoinMerge(p) PROVE Owned'
  BY <1>8, JoinMergeOwned
<1>9. ASSUME NEW p \in PR, JoinSwap(p) PROVE Owned'
  BY <1>9, JoinSwapOwned
<1>10. ASSUME NEW p \in PR, JoinAnnotate(p) PROVE Owned'
  BY <1>10, JoinAnnotateOwned
<1>11. ASSUME NEW p \in PR, UnadoptPlan(p) PROVE Owned'
  BY <1>11, UnadoptPlanOwned
<1>12. ASSUME NEW p \in PR, UnadoptLook(p) PROVE Owned'
  BY <1>12, UnadoptLookOwned
<1>13. ASSUME NEW p \in PR, UnadoptSetMark(p) PROVE Owned'
  BY <1>13, UnadoptSetMarkOwned
<1>14. ASSUME NEW p \in PR, UnadoptOpen(p) PROVE Owned'
  BY <1>14, UnadoptOpenOwned
<1>15. ASSUME NEW p \in PR, UnadoptTrack(p) PROVE Owned'
  BY <1>15, UnadoptTrackOwned
<1>16. ASSUME NEW p \in PR, UnadoptMerge(p) PROVE Owned'
  BY <1>16, UnadoptMergeOwned
<1>17. ASSUME NEW p \in PR, UnadoptNumber(p) PROVE Owned'
  BY <1>17, UnadoptNumberOwned
<1>18. ASSUME NEW p \in PR, TrackerSees(p) PROVE Owned'
  BY <1>18, TrackerSeesOwned
<1>19. ASSUME NEW p \in PR, FinishStart(p) PROVE Owned'
  BY <1>19, FinishStartOwned
<1>20. ASSUME NEW p \in PR, GaveUpEnds(p) PROVE Owned'
  BY <1>20, GaveUpEndsOwned
<1>21. ASSUME NEW p \in PR, PersonMerges(p) PROVE Owned'
  BY <1>21, PersonMergesOwned
<1>22. ASSUME NEW p \in PR, PersonCloses(p) PROVE Owned'
  BY <1>22, PersonClosesOwned
<1>23. ASSUME NEW f \in Finisher, FinishLook(f) PROVE Owned'
  BY <1>23, FinishLookOwned
<1>24. ASSUME NEW f \in Finisher, FinishSwap(f) PROVE Owned'
  BY <1>24, FinishSwapOwned
<1>25. ASSUME NEW f \in Finisher, FinishAnnotate(f) PROVE Owned'
  BY <1>25, FinishAnnotateOwned
<1>26. ASSUME NEW f \in Finisher, FinishCheck(f) PROVE Owned'
  BY <1>26, FinishCheckOwned
<1>27. ASSUME NEW f \in Finisher, FinishStrip(f) PROVE Owned'
  BY <1>27, FinishStripOwned
<1>28. ASSUME NEW f \in Finisher, FinishUnmark(f) PROVE Owned'
  BY <1>28, FinishUnmarkOwned
<1>29. ASSUME NEW f \in Finisher, FinishSettle(f) PROVE Owned'
  BY <1>29, FinishSettleOwned
<1>30. ASSUME MarksList PROVE Owned'
  BY <1>30, MarksListOwned
<1>31. ASSUME MarksTrack PROVE Owned'
  BY <1>31, MarksTrackOwned
<1>32. ASSUME MarksSettle PROVE Owned'
  BY <1>32, MarksSettleOwned
<1>33. ASSUME MarksWrite PROVE Owned'
  BY <1>33, MarksWriteOwned
<1>34. ASSUME MarkAges PROVE Owned'
  BY <1>34, MarkAgesOwned
<1>35. ASSUME PersonDeletes PROVE Owned'
  BY <1>35, PersonDeletesEffect
<1>36. ASSUME ServerRestarts PROVE Owned'
  BY <1>36, ServerRestartsOwned
<1> QED BY <1>1, <1>2, <1>3, <1>4, <1>5, <1>6, <1>7, <1>8, <1>9, <1>10, <1>11, <1>12, <1>13, <1>14, <1>15, <1>16, <1>17, <1>18, <1>19, <1>20, <1>21, <1>22, <1>23, <1>24, <1>25, <1>26, <1>27, <1>28, <1>29, <1>30, <1>31, <1>32, <1>33, <1>34, <1>35, <1>36 DEF AdoptionNext, Asks, Moves, Tracker, Finishes, Marks

LEMMA OwnedStays == Owned /\ UNCHANGED adoptionVars => Owned'
<1> SUFFICES ASSUME Owned, UNCHANGED adoptionVars PROVE Owned'
  OBVIOUS
<1>1. UNCHANGED <<inGit, git, diff, connection, tracked, req, found, marked, fin, tick, listed, number, failures>>
  BY DEF adoptionVars, repo, requests, marksPass
<1>2. ViewSame
  BY <1>1, ViewFrame
<1>3. JoinInGit' /\ JoinMarked' /\ JoinSwapped' /\ JoinOwed'
  BY <1>1, <1>2, JoinInGitFrame, JoinMarkedFrame, JoinSwappedFrame, JoinOwedFrame DEF Owned
<1>4. OneBusy'
  BY <1>1, <1>2, BusyFrame, OneBusyKept DEF Owned
<1>5. PendingFit' /\ UnadoptInGit' /\ PassInGit' /\ UnadoptKnown'
  BY <1>1, <1>2, PendingFrame, UnadoptInGitFrame, PassInGitFrame, UnadoptKnownFrame DEF Owned
<1>6. UnadoptMarked' /\ UnadoptStripped' /\ UnadoptOwed'
  BY <1>1, <1>2, UnadoptMarkedFrame, UnadoptStrippedFrame, UnadoptOwedFrame DEF Owned
<1> QED BY <1>3, <1>4, <1>5, <1>6 DEF Owned

LEMMA IInvStep ==
    ASSUME MaxFailures <= 1, IInv, [AdoptionNext]_adoptionVars
    PROVE  IInv'
<1>1. Fits /\ Fits'
  BY FitsNext, FitsStays DEF IInv
<1>2. ASSUME Exists', ~crossed' PROVE Owned'
  <2>1. CASE AdoptionNext
    <3>1. Exists /\ ~crossed
      BY <1>1, <1>2, <2>1, StaysOver
    <3>2. Owned
      BY <3>1 DEF IInv
    <3> QED BY <1>1, <1>2, <2>1, <3>1, <3>2, OwnedNext
  <2>2. CASE UNCHANGED adoptionVars
    <3>1. Owned
      BY <1>2, <2>2 DEF IInv, adoptionVars, repo, Exists
    <3> QED BY <2>2, <3>1, OwnedStays
  <2> QED BY <2>1, <2>2
<1> QED BY <1>1, <1>2 DEF IInv

\* What Owned leaves to be done is in hand: the witness of JoinOwed or of
\* UnadoptOwed is known by its mark, its record or its own request.
LEMMA OwedInHand ==
    ASSUME Fits, Owned, Exists, ~(connection.managed <=> inGit)
    PROVE  InHand
<1>1. CASE inGit /\ ~Ours
  <2>1. PICK p \in Join : JoinOwes(p)
    BY <1>1 DEF Owned, JoinOwed
  <2>2. Running(p) \/ Known(p)
    BY <2>1, KnownMeans, Sorts DEF JoinOwes, JoinDue, Running
  <2> QED BY <2>2, Sorts DEF InHand, Over
<1>2. CASE ~inGit /\ Ours
  <2>1. PICK u \in UnadoptPR : UnadoptOwes(u)
    BY <1>2 DEF Owned, UnadoptOwed
  <2>2. Running(u) \/ Known(u) \/ RequestStep(u) = "strip"
    BY <2>1, KnownMeans, KeptMeans, Sorts DEF UnadoptOwes, UnadoptDue, KeptFor, Running
  <2>3. RequestStep(u) = "strip" => \E f \in Finisher : fin[f] # "idle"
    BY Sorts DEF RequestStep, Finisher
  <2> QED BY <2>2, <2>3, Sorts DEF InHand, Over
<1> QED BY <1>1, <1>2 DEF Ours

LEMMA Owing == IInv => OwnershipFollowsGit
  BY OwedInHand DEF IInv, Fits, OwnershipFollowsGit

\* For any number of adopts, take overs and un-adopts, however they interleave
\* with each other, with the tracker's finish steps, with the marks pass, with
\* merges and with a restart, and whichever one call fails: a connection is
\* Sharko's when the cluster is in Git and only then, or somebody still knows that
\* it is not so, unless a merge or a second un-adopt came too early (crossed). Two
\* failures are more than the marks make up for, and the assumption names that.
THEOREM OwnershipIsGits ==
    ASSUME MaxFailures <= 1
    PROVE  AdoptionSpec => []OwnershipFollowsGit
<1>1. AdoptionInit => IInv
  BY FitsInit, OwnedInit DEF IInv
<1>2. IInv /\ [AdoptionNext]_adoptionVars => IInv'
  BY IInvStep
<1>3. IInv => OwnershipFollowsGit
  BY Owing
<1> QED BY <1>1, <1>2, <1>3, PTL DEF AdoptionSpec

==============================================================================
