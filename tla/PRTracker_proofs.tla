-------------------------- MODULE PRTracker_proofs --------------------------
(***************************************************************************)
(* Proofs about PRTracker, for any number of pull requests and workers and *)
(* any bounds. The inductive invariant IInv says, beside the types, that a *)
(* worker inside runFinish holds the in-memory guard (Guarded), that no    *)
(* two do for one pull request (OneFinishPerPR), that an entry not given   *)
(* up has tries left (TriesLeft), and that what FinishRead saw in the      *)
(* ConfigMap stays true until the worker settles (StillDue): only the      *)
(* holder of the guard can change it, and time can only end a retry gap.   *)
(***************************************************************************)
EXTENDS PRTracker, TLAPS

USE TrackerConstants, NoEntryIsNone

\* A failed try keeps the entry well typed, and one that is not given up
\* after it still has a try left.
LEMMA FailedTry ==
    ASSUME NEW e \in Entry, e.attempts < MaxAttempts
    PROVE  /\ AfterFailedTry(e) \in Entry
           /\ ~AfterFailedTry(e).gaveUp => AfterFailedTry(e).attempts < MaxAttempts
<1>1. e.attempts + 1 \in 0..MaxAttempts
  BY DEF Entry
<1>2. CASE e.attempts + 1 >= MaxAttempts
  BY <1>1, <1>2 DEF AfterFailedTry, Entry
<1>3. CASE ~(e.attempts + 1 >= MaxAttempts)
  <2>1. e.attempts + 1 < MaxAttempts
    BY <1>1, <1>3
  <2>2. AfterFailedTry(e) = [e EXCEPT !.attempts = e.attempts + 1, !.wait = TRUE]
    BY <1>3 DEF AfterFailedTry
  <2> QED BY <1>1, <2>1, <2>2 DEF Entry
<1> QED BY <1>2, <1>3

\* A new entry, and a claimed one, are well typed and have all their tries.
LEMMA NewEntryType ==
    ASSUME NEW s \in {"open"} \cup Terminal, NEW g \in BOOLEAN, NEW h \in BOOLEAN
    PROVE  /\ NewEntry(s, g, h) \in Entry
           /\ NewEntry(s, g, h).attempts < MaxAttempts
           /\ ~NewEntry(s, g, h).gaveUp
           /\ ~NewEntry(s, g, h).wait
  BY DEF NewEntry, Entry

LEMMA ClaimedType ==
    ASSUME NEW e \in Entry, NEW s \in {"open"} \cup Terminal, NEW g \in BOOLEAN
    PROVE  /\ Claimed(e, s, g) \in Entry
           /\ Claimed(e, s, g).attempts < MaxAttempts
           /\ Claimed(e, s, g).gaveUp = e.gaveUp
           /\ ~Claimed(e, s, g).wait
<1>1. 0 \in 0..MaxAttempts /\ 0 < MaxAttempts
  OBVIOUS
<1> QED BY <1>1 DEF Claimed, Entry

LEMMA ClearedType ==
    ASSUME NEW e \in Entry
    PROVE  /\ HooksCleared(e) \in Entry
           /\ HooksCleared(e).attempts = e.attempts
           /\ HooksCleared(e).gaveUp = e.gaveUp
           /\ HooksCleared(e).wait = e.wait
  BY DEF HooksCleared, Entry

\* A counted fault, or none, keeps the fault counter in its bound.
LEMMA FaultType == TypeOK /\ (Fault \/ NoFault) => faults' \in 0..MaxFaults
  BY DEF TypeOK, Fault, NoFault

\* A worker that goes to another step, with a well typed job.
LEMMA WorkerType ==
    ASSUME TypeOK, NEW w \in Worker, NEW step \in Steps, NEW j \in Job,
           step \notin {"idle", "pass"} => j.pr \in PR,
           Goto(w, step), job' = [job EXCEPT ![w] = j]
    PROVE  /\ pc' \in [Worker -> Steps]
           /\ job' \in [Worker -> Job]
           /\ \A v \in Worker : pc'[v] \notin {"idle", "pass"} => job'[v].pr \in PR
  BY DEF TypeOK, Goto

LEMMA DoneType ==
    ASSUME TypeOK, NEW w \in Worker, Done(w)
    PROVE  /\ pc' \in [Worker -> Steps]
           /\ job' \in [Worker -> Job]
           /\ \A v \in Worker : pc'[v] \notin {"idle", "pass"} => job'[v].pr \in PR
<1>1. NoJob \in Job
  BY DEF NoJob, Job
<1>2. Rest(w) \in {"idle", "pass"} /\ Rest(w) \in Steps
  BY DEF Rest, Steps
<1> QED BY <1>1, <1>2, WorkerType DEF Done

LEMMA GotoType ==
    ASSUME TypeOK, NEW w \in Worker, NEW step \in Steps, Goto(w, step),
           job[w].pr \in PR, UNCHANGED job
    PROVE  /\ pc' \in [Worker -> Steps]
           /\ job' \in [Worker -> Job]
           /\ \A v \in Worker : pc'[v] \notin {"idle", "pass"} => job'[v].pr \in PR
  BY DEF TypeOK, Goto

LEMMA InitIInv == Init => IInv
<1> SUFFICES ASSUME Init PROVE IInv
  OBVIOUS
<1>1. NoJob \in Job
  BY DEF NoJob, Job
<1>2. \A w \in Worker : pc[w] = "idle" /\ job[w] = NoJob
  BY DEF Init
<1>3. TypeOK
  BY <1>1, <1>2 DEF Init, TypeOK, Steps
<1>4. GitKnown
  BY <1>2 DEF Init, GitKnown, Worker
<1>5. Guarded /\ OneFinishPerPR /\ StillDue
  BY <1>2 DEF Guarded, OneFinishPerPR, StillDue, InSection, Section
<1>6. TriesLeft
  BY DEF Init, TriesLeft, IsTracked
<1> QED BY <1>3, <1>4, <1>5, <1>6 DEF IInv

LEMMA OpenPRKeeps ==
    ASSUME IInv, NEW p \in PR, OpenPR(p) PROVE IInv'
<1> USE DEF IInv, OpenPR, workers, history, IsTracked, IsTerminal, IsFinishing, InSection, Section
<1>1. TypeOK'
  BY DEF TypeOK, GitKnown, TriesLeft, StillDue, Steps, Job, NoJob, Entry, Copy, Terminal, Worker
<1>2. GitKnown'
  BY DEF TypeOK, GitKnown, Worker
<1>3. Guarded' /\ OneFinishPerPR'
  BY DEF TypeOK, Guarded, OneFinishPerPR, NoJob
<1>4. TriesLeft'
  BY DEF TypeOK, TriesLeft, StillDue, Entry, Job, Terminal
<1>5. StillDue'
  BY DEF TypeOK, StillDue, Guarded, OneFinishPerPR, Entry, NoJob, Job, Terminal
<1> QED BY <1>1, <1>2, <1>3, <1>4, <1>5

LEMMA WriteMarkKeeps ==
    ASSUME IInv, NEW p \in PR, WriteMark(p) PROVE IInv'
<1> USE DEF IInv, WriteMark, Fault, NoFault, workers, history, IsTracked, IsTerminal, IsFinishing, InSection, Section
<1>1. TypeOK'
  <2>1. faults' \in 0..MaxFaults
    BY FaultType
  <2>2. marked' \subseteq MarkPR
    BY DEF TypeOK, GitKnown
  <2> QED BY <2>1, <2>2 DEF TypeOK
<1>2. GitKnown'
  BY DEF TypeOK, GitKnown, Worker
<1>3. Guarded' /\ OneFinishPerPR'
  BY DEF TypeOK, Guarded, OneFinishPerPR, NoJob
<1>4. TriesLeft'
  BY DEF TypeOK, TriesLeft, StillDue, Entry, Job, Terminal
<1>5. StillDue'
  BY DEF TypeOK, StillDue, Guarded, OneFinishPerPR, Entry, NoJob, Job, Terminal
<1> QED BY <1>1, <1>2, <1>3, <1>4, <1>5

LEMMA TrackOpenedKeeps ==
    ASSUME IInv, NEW p \in PR, TrackOpened(p) PROVE IInv'
<1> USE DEF IInv, TrackOpened, Fault, NoFault, TrackPR, Terminal, workers, history, IsTracked, IsTerminal, IsFinishing, InSection, Section
<1>1. TypeOK'
  <2>1. faults' \in 0..MaxFaults
    BY FaultType
  <2>2. NewEntry("open", FALSE, FALSE) \in Entry
    BY NewEntryType
  <2>3. CASE TrackPR(p, NewEntry("open", FALSE, FALSE))
    <3>1. tracked' \in [PR -> Entry \cup {NoEntry}]
      BY <2>2, <2>3 DEF TypeOK
    <3>2. hooks' \in [PR -> Nat] /\ tries' \in [PR -> Nat]
      BY <2>3 DEF TypeOK
    <3> QED BY <2>1, <2>3, <3>1, <3>2 DEF TypeOK
  <2>4. CASE UNCHANGED <<tracked, hooks, reports, tries>>
    BY <2>1, <2>4 DEF TypeOK
  <2> QED BY <2>3, <2>4
<1>2. GitKnown'
  BY NewEntryType DEF TypeOK, GitKnown, Worker
<1>3. Guarded' /\ OneFinishPerPR'
  BY NewEntryType DEF TypeOK, Guarded, OneFinishPerPR, NoJob
<1>4. TriesLeft'
  <2>1. CASE tracked' = [tracked EXCEPT ![p] = NewEntry("open", FALSE, FALSE)]
    BY <2>1, NewEntryType DEF TypeOK, TriesLeft
  <2>2. CASE UNCHANGED tracked
    BY <2>2 DEF TriesLeft
  <2> QED BY <2>1, <2>2
<1>5. StillDue'
  <2>1. CASE tracked' = [tracked EXCEPT ![p] = NewEntry("open", FALSE, FALSE)]
    BY <2>1, NewEntryType DEF TypeOK, StillDue
  <2>2. CASE UNCHANGED tracked
    BY <2>2 DEF StillDue
  <2> QED BY <2>1, <2>2
<1> QED BY <1>1, <1>2, <1>3, <1>4, <1>5

LEMMA GitSettlesKeeps ==
    ASSUME IInv, NEW p \in PR, GitSettles(p) PROVE IInv'
<1> USE DEF IInv, GitSettles, Terminal, workers, history, IsTracked, IsTerminal, IsFinishing, InSection, Section
<1>1. TypeOK'
  BY DEF TypeOK, GitKnown, TriesLeft, StillDue, Steps, Job, NoJob, Entry, Copy, Terminal, Worker
<1>2. GitKnown'
  BY DEF TypeOK, GitKnown, Worker
<1>3. Guarded' /\ OneFinishPerPR'
  BY DEF TypeOK, Guarded, OneFinishPerPR, NoJob
<1>4. TriesLeft'
  BY DEF TypeOK, TriesLeft, StillDue, Entry, Job, Terminal
<1>5. StillDue'
  BY DEF TypeOK, StillDue, Guarded, OneFinishPerPR, Entry, NoJob, Job, Terminal
<1> QED BY <1>1, <1>2, <1>3, <1>4, <1>5

LEMMA StopTrackingKeeps ==
    ASSUME IInv, NEW p \in PR, StopTracking(p) PROVE IInv'
<1> USE DEF IInv, StopTracking, workers, history, IsTracked, IsTerminal, IsFinishing, InSection, Section
<1>1. TypeOK'
  BY DEF TypeOK, GitKnown, TriesLeft, StillDue, Steps, Job, NoJob, Entry, Copy, Terminal, Worker
<1>2. GitKnown'
  BY DEF TypeOK, GitKnown, Worker
<1>3. Guarded' /\ OneFinishPerPR'
  BY DEF TypeOK, Guarded, OneFinishPerPR, NoJob
<1>4. TriesLeft'
  BY DEF TypeOK, TriesLeft, StillDue, Entry, Job, Terminal
<1>5. StillDue'
  BY DEF TypeOK, StillDue, Guarded, OneFinishPerPR, Entry, NoJob, Job, Terminal
<1> QED BY <1>1, <1>2, <1>3, <1>4, <1>5

LEMMA MarksSeeKeeps ==
    ASSUME IInv, NEW p \in PR, MarksSee(p) PROVE IInv'
<1> USE DEF IInv, MarksSee, Goto, workers, history, IsTracked, IsTerminal, IsFinishing, InSection, Section
<1>1. TypeOK'
  BY DEF TypeOK, GitKnown, TriesLeft, StillDue, Steps, Job, NoJob, Entry, Copy, Terminal, Worker
<1>2. GitKnown'
  BY DEF TypeOK, GitKnown, Worker
<1>3. Guarded' /\ OneFinishPerPR'
  BY DEF TypeOK, Guarded, OneFinishPerPR, NoJob
<1>4. TriesLeft'
  BY DEF TypeOK, TriesLeft, StillDue, Entry, Job, Terminal
<1>5. StillDue'
  BY DEF TypeOK, StillDue, Guarded, OneFinishPerPR, Entry, NoJob, Job, Terminal
<1> QED BY <1>1, <1>2, <1>3, <1>4, <1>5

LEMMA GapElapsesKeeps ==
    ASSUME IInv, NEW p \in PR, GapElapses(p) PROVE IInv'
<1> USE DEF IInv, GapElapses, workers, history, IsTracked, IsTerminal, IsFinishing, InSection, Section
<1>1. TypeOK'
  <2>1. tracked[p] \in Entry
    BY DEF TypeOK
  <2>2. [tracked[p] EXCEPT !.wait = FALSE] \in Entry
    BY <2>1 DEF Entry
  <2>3. tracked' \in [PR -> Entry \cup {NoEntry}]
    BY <2>1, <2>2 DEF TypeOK
  <2>4. \A w \in Worker : /\ [job[w] EXCEPT !.wait = FALSE] \in Job
                          /\ [job[w] EXCEPT !.wait = FALSE].pr = job[w].pr
    <3>1. \A w \in Worker : job[w] \in Job
      BY DEF TypeOK
    <3>2. \A x \in Job : /\ [x EXCEPT !.wait = FALSE] \in Job
                         /\ [x EXCEPT !.wait = FALSE].pr = x.pr
      BY DEF Job
    <3> QED BY <3>1, <3>2
  <2>5. job' \in [Worker -> Job] /\ \A w \in Worker : job'[w].pr = job[w].pr
    BY <2>4 DEF TypeOK
  <2> QED BY <2>3, <2>5 DEF TypeOK
<1>2. GitKnown'
  BY DEF TypeOK, GitKnown, Worker
<1>3. Guarded' /\ OneFinishPerPR'
  BY DEF TypeOK, Guarded, OneFinishPerPR, NoJob
<1>4. TriesLeft'
  BY DEF TypeOK, TriesLeft, StillDue, Entry, Job, Terminal
<1>5. StillDue'
  BY DEF TypeOK, StillDue, Guarded, OneFinishPerPR, Entry, NoJob, Job, Terminal
<1> QED BY <1>1, <1>2, <1>3, <1>4, <1>5

LEMMA KeepElapsesKeeps ==
    ASSUME IInv, NEW p \in PR, KeepElapses(p) PROVE IInv'
<1> USE DEF IInv, KeepElapses, workers, history, IsTracked, IsTerminal, IsFinishing, InSection, Section
<1>1. TypeOK'
  <2>1. tracked[p] \in Entry
    BY DEF TypeOK
  <2>2. [tracked[p] EXCEPT !.old = TRUE] \in Entry
    BY <2>1 DEF Entry
  <2>3. tracked' \in [PR -> Entry \cup {NoEntry}]
    BY <2>1, <2>2 DEF TypeOK
  <2> QED BY <2>3 DEF TypeOK
<1>2. GitKnown'
  BY DEF TypeOK, GitKnown, Worker
<1>3. Guarded' /\ OneFinishPerPR'
  BY DEF TypeOK, Guarded, OneFinishPerPR, NoJob
<1>4. TriesLeft'
  BY DEF TypeOK, TriesLeft, StillDue, Entry, Job, Terminal
<1>5. StillDue'
  BY DEF TypeOK, StillDue, Guarded, OneFinishPerPR, Entry, NoJob, Job, Terminal
<1> QED BY <1>1, <1>2, <1>3, <1>4, <1>5

LEMMA RefreshKeeps ==
    ASSUME IInv, NEW w \in Refresher, NEW p \in PR, Refresh(w, p) PROVE IInv'
<1> USE DEF IInv, Refresh, Goto, Answer, workers, history, IsTracked, IsTerminal, IsFinishing, InSection, Section
<1>1. TypeOK'
  <2> DEFINE step == IF Answer(p) \in Terminal THEN "claim" ELSE "refresh"
             j == [NoJob EXCEPT !.pr = p, !.status = Answer(p),
                                !.gone = (git[p] = "gone")]
  <2>1. step \in Steps /\ step \notin {"idle", "pass"}
    BY DEF Steps
  <2>2. j \in Job /\ j.pr = p
    BY DEF TypeOK, NoJob, Job, Terminal
  <2>3. w \in Worker /\ Goto(w, step) /\ job' = [job EXCEPT ![w] = j]
    BY DEF Worker
  <2>a. TypeOK /\ j.pr \in PR
    BY <2>2
  <2> HIDE DEF step, j
  <2>4. /\ pc' \in [Worker -> Steps]
       /\ job' \in [Worker -> Job]
       /\ \A v \in Worker : pc'[v] \notin {"idle", "pass"} => job'[v].pr \in PR
    BY ONLY <2>1, <2>2, <2>3, <2>a, WorkerType
  <2> QED BY <2>4 DEF TypeOK
<1>2. GitKnown'
  BY DEF TypeOK, GitKnown, Worker
<1>3. Guarded' /\ OneFinishPerPR'
  BY DEF TypeOK, Guarded, OneFinishPerPR, NoJob
<1>4. TriesLeft'
  BY DEF TypeOK, TriesLeft, StillDue, Entry, Job, Terminal
<1>5. StillDue'
  BY DEF TypeOK, StillDue, Guarded, OneFinishPerPR, Entry, NoJob, Job, Terminal
<1> QED BY <1>1, <1>2, <1>3, <1>4, <1>5

LEMMA ClaimKeeps ==
    ASSUME IInv, NEW w \in Worker, Claim(w) PROVE IInv'
<1> USE DEF IInv, Claim, Fault, NoFault, Goto, Done, Rest, Claimable, NewOutcome, workers, history, IsTracked, IsTerminal, IsFinishing, InSection, Section
<1>1. TypeOK'
  <2> DEFINE p == job[w].pr
  <2>1. p \in PR /\ job[w].status \in {"open"} \cup Terminal /\ job[w].gone \in BOOLEAN
    BY DEF TypeOK, Job
  <2>2. faults' \in 0..MaxFaults
    BY FaultType
  <2>3. tracked' \in [PR -> Entry \cup {NoEntry}]
    <3>1. CASE UNCHANGED tracked
      BY <3>1 DEF TypeOK
    <3>2. CASE /\ IsTracked(p)
               /\ tracked' = [tracked EXCEPT ![p] = Claimed(@, job[w].status, job[w].gone)]
      <4>1. tracked[p] \in Entry
        BY <2>1, <3>2 DEF TypeOK
      <4>2. Claimed(tracked[p], job[w].status, job[w].gone) \in Entry
        BY <2>1, <4>1, ClaimedType
      <4> QED BY <2>1, <3>2, <4>2 DEF TypeOK
    <3> QED BY <3>1, <3>2
  <2>4. hooks' \in [PR -> Nat] /\ tries' \in [PR -> Nat]
    BY <2>1 DEF TypeOK
  <2>5. /\ pc' \in [Worker -> Steps]
       /\ job' \in [Worker -> Job]
       /\ \A v \in Worker : pc'[v] \notin {"idle", "pass"} => job'[v].pr \in PR
    <3>1. CASE Done(w)
      BY <3>1, DoneType
    <3>2. CASE Goto(w, "enter") /\ UNCHANGED job
      BY <3>2, <2>1, GotoType DEF Steps
    <3> QED BY <3>1, <3>2
  <2> QED BY <2>2, <2>3, <2>4, <2>5 DEF TypeOK
<1>2. GitKnown'
  BY ClaimedType DEF TypeOK, GitKnown, Worker
<1>3. Guarded' /\ OneFinishPerPR'
  BY ClaimedType DEF TypeOK, Guarded, OneFinishPerPR, NoJob
<1>4. TriesLeft'
  BY ClaimedType DEF TypeOK, TriesLeft, StillDue, Entry, Job, Terminal
<1>5. StillDue'
  BY ClaimedType DEF TypeOK, StillDue, Guarded, OneFinishPerPR, Entry, NoJob, Job, Terminal
<1> QED BY <1>1, <1>2, <1>3, <1>4, <1>5

LEMMA RefreshOpenKeeps ==
    ASSUME IInv, NEW w \in Worker, RefreshOpen(w) PROVE IInv'
<1> USE DEF IInv, RefreshOpen, Fault, NoFault, Goto, Done, Rest, TakesOpen, workers, history, IsTracked, IsTerminal, IsFinishing, InSection, Section
<1>1. TypeOK'
  BY DEF TypeOK, GitKnown, TriesLeft, StillDue, Steps, Job, NoJob, Entry, Copy, Terminal, Worker
<1>2. GitKnown'
  BY DEF TypeOK, GitKnown, Worker
<1>3. Guarded' /\ OneFinishPerPR'
  BY DEF TypeOK, Guarded, OneFinishPerPR, NoJob
<1>4. TriesLeft'
  <2>1. job[w].pr \in PR /\ job[w].status \in {"open"} \cup Terminal
    BY DEF TypeOK, Job
  <2>2. CASE tracked' = [tracked EXCEPT ![job[w].pr].status = job[w].status] /\ IsTracked(job[w].pr)
    BY <2>1, <2>2 DEF TypeOK, TriesLeft, Entry
  <2>3. CASE UNCHANGED tracked
    BY <2>3 DEF TriesLeft
  <2> QED BY <2>2, <2>3
<1>5. StillDue'
  <2>1. job[w].pr \in PR /\ job[w].status \in {"open"} \cup Terminal
    BY DEF TypeOK, Job
  <2>2. CASE tracked' = [tracked EXCEPT ![job[w].pr].status = job[w].status] /\ IsTracked(job[w].pr)
    BY <2>1, <2>2 DEF TypeOK, StillDue, Entry, NoJob
  <2>3. CASE UNCHANGED tracked
    BY <2>3 DEF TypeOK, StillDue, NoJob
  <2> QED BY <2>2, <2>3
<1> QED BY <1>1, <1>2, <1>3, <1>4, <1>5

LEMMA FinishEnterKeeps ==
    ASSUME IInv, NEW w \in Worker, FinishEnter(w) PROVE IInv'
<1> USE DEF IInv, FinishEnter, Goto, Done, Rest, Busy, workers, history, IsTracked, IsTerminal, IsFinishing, InSection, Section
<1>1. TypeOK'
  <2>1. job[w].pr \in PR
    BY DEF TypeOK
  <2>2. /\ pc' \in [Worker -> Steps]
       /\ job' \in [Worker -> Job]
       /\ \A v \in Worker : pc'[v] \notin {"idle", "pass"} => job'[v].pr \in PR
    <3>1. CASE Done(w)
      BY <3>1, DoneType
    <3>2. CASE Goto(w, "read") /\ UNCHANGED job
      BY <3>2, <2>1, GotoType DEF Steps
    <3> QED BY <3>1, <3>2
  <2> QED BY <2>1, <2>2 DEF TypeOK
<1>2. GitKnown'
  BY DEF TypeOK, GitKnown, Worker
<1>3. Guarded' /\ OneFinishPerPR'
  BY DEF TypeOK, Guarded, OneFinishPerPR, NoJob
<1>4. TriesLeft'
  BY DEF TypeOK, TriesLeft, StillDue, Entry, Job, Terminal
<1>5. StillDue'
  BY DEF TypeOK, StillDue, Guarded, OneFinishPerPR, Entry, NoJob, Job, Terminal
<1> QED BY <1>1, <1>2, <1>3, <1>4, <1>5

LEMMA FinishReadKeeps ==
    ASSUME IInv, NEW w \in Worker, FinishRead(w) PROVE IInv'
<1> USE DEF IInv, FinishRead, Fault, NoFault, Goto, Owed, workers, history, IsTracked, IsTerminal, IsFinishing, InSection, Section
<1>1. TypeOK'
  <2> DEFINE p == job[w].pr
             j == [job[w] EXCEPT !.wait = tracked[p].wait]
  <2>1. p \in PR /\ job[w] \in Job
    BY DEF TypeOK
  <2>2. faults' \in 0..MaxFaults
    BY FaultType
  <2>3. /\ pc' \in [Worker -> Steps]
       /\ job' \in [Worker -> Job]
       /\ \A v \in Worker : pc'[v] \notin {"idle", "pass"} => job'[v].pr \in PR
    <3>1. CASE Goto(w, "leave") /\ UNCHANGED job
      BY <2>1, <3>1, GotoType DEF Steps
    <3>2. CASE Owed(p, job[w].status) /\ job' = [job EXCEPT ![w] = j]
      <4>1. tracked[p].wait \in BOOLEAN
        BY <2>1, <3>2 DEF TypeOK, Entry
      <4>2. j \in Job /\ j.pr = p
        BY <2>1, <4>1 DEF Job
      <4>3. PICK step \in {"hooks", "gap", "leave"} : Goto(w, step)
        BY <3>2, <2>1
      <4> HIDE DEF j
      <4> QED BY <2>1, <3>2, <4>2, <4>3, WorkerType DEF Steps
    <3> QED BY <3>1, <3>2
  <2> QED BY <2>2, <2>3 DEF TypeOK
<1>2. GitKnown'
  BY DEF TypeOK, GitKnown, Worker
<1>3. Guarded' /\ OneFinishPerPR'
  <2>1. /\ pc'[w] \in Section /\ job'[w].pr = job[w].pr
       /\ \A v \in Worker \ {w} : pc'[v] = pc[v] /\ job'[v] = job[v]
    BY DEF TypeOK, Job
  <2> QED BY <2>1 DEF Guarded, OneFinishPerPR
<1>4. TriesLeft'
  BY DEF TypeOK, TriesLeft, StillDue, Entry, Job, Terminal
<1>5. StillDue'
  BY DEF TypeOK, StillDue, Guarded, OneFinishPerPR, Entry, NoJob, Job, Terminal
<1> QED BY <1>1, <1>2, <1>3, <1>4, <1>5

LEMMA RunHooksKeeps ==
    ASSUME IInv, NEW w \in Worker, RunHooks(w) PROVE IInv'
<1> USE DEF IInv, RunHooks, Goto, workers, history, IsTracked, IsTerminal, IsFinishing, InSection, Section
<1>1. TypeOK'
  BY DEF TypeOK, GitKnown, TriesLeft, StillDue, Steps, Job, NoJob, Entry, Copy, Terminal, Worker
<1>2. GitKnown'
  BY DEF TypeOK, GitKnown, Worker
<1>3. Guarded' /\ OneFinishPerPR'
  BY DEF TypeOK, Guarded, OneFinishPerPR, NoJob
<1>4. TriesLeft'
  BY DEF TypeOK, TriesLeft, StillDue, Entry, Job, Terminal
<1>5. StillDue'
  BY DEF TypeOK, StillDue, Guarded, OneFinishPerPR, Entry, NoJob, Job, Terminal
<1> QED BY <1>1, <1>2, <1>3, <1>4, <1>5

LEMMA ClearHooksKeeps ==
    ASSUME IInv, NEW w \in Worker, ClearHooks(w) PROVE IInv'
<1> USE DEF IInv, ClearHooks, Fault, NoFault, Goto, HooksCleared, workers, history, IsTracked, IsTerminal, IsFinishing, InSection, Section
<1>1. TypeOK'
  <2>1. faults' \in 0..MaxFaults
    BY FaultType
  <2>2. job[w].pr \in PR
    BY DEF TypeOK
  <2>3. tracked' \in [PR -> Entry \cup {NoEntry}]
    BY <2>2, ClearedType DEF TypeOK
  <2>4. /\ pc' \in [Worker -> Steps]
       /\ job' \in [Worker -> Job]
       /\ \A v \in Worker : pc'[v] \notin {"idle", "pass"} => job'[v].pr \in PR
    BY <2>2, GotoType DEF Steps
  <2> QED BY <2>1, <2>2, <2>3, <2>4 DEF TypeOK
<1>2. GitKnown'
  BY DEF TypeOK, GitKnown, Worker
<1>3. Guarded' /\ OneFinishPerPR'
  BY DEF TypeOK, Guarded, OneFinishPerPR, NoJob
<1>4. TriesLeft'
  <2>1. job[w].pr \in PR
    BY DEF TypeOK
  <2>2. CASE tracked' = [tracked EXCEPT ![job[w].pr] = HooksCleared(@)] /\ IsTracked(job[w].pr)
    BY <2>1, <2>2, ClearedType DEF TypeOK, TriesLeft
  <2>3. CASE UNCHANGED tracked
    BY <2>3 DEF TriesLeft
  <2> QED BY <2>2, <2>3
<1>5. StillDue'
  <2>1. job[w].pr \in PR
    BY DEF TypeOK
  <2>2. CASE tracked' = [tracked EXCEPT ![job[w].pr] = HooksCleared(@)] /\ IsTracked(job[w].pr)
    BY <2>1, <2>2, ClearedType DEF TypeOK, StillDue
  <2>3. CASE UNCHANGED tracked
    BY <2>3 DEF TypeOK, StillDue
  <2> QED BY <2>2, <2>3
<1> QED BY <1>1, <1>2, <1>3, <1>4, <1>5

LEMMA FinishGapKeeps ==
    ASSUME IInv, NEW w \in Worker, FinishGap(w) PROVE IInv'
<1> USE DEF IInv, FinishGap, Goto, workers, history, IsTracked, IsTerminal, IsFinishing, InSection, Section
<1>1. TypeOK'
  BY DEF TypeOK, GitKnown, TriesLeft, StillDue, Steps, Job, NoJob, Entry, Copy, Terminal, Worker
<1>2. GitKnown'
  BY DEF TypeOK, GitKnown, Worker
<1>3. Guarded' /\ OneFinishPerPR'
  BY DEF TypeOK, Guarded, OneFinishPerPR, NoJob
<1>4. TriesLeft'
  BY DEF TypeOK, TriesLeft, StillDue, Entry, Job, Terminal
<1>5. StillDue'
  BY DEF TypeOK, StillDue, Guarded, OneFinishPerPR, Entry, NoJob, Job, Terminal
<1> QED BY <1>1, <1>2, <1>3, <1>4, <1>5

LEMMA FinishCallKeeps ==
    ASSUME IInv, NEW w \in Worker, FinishCall(w) PROVE IInv'
<1> USE DEF IInv, FinishCall, Goto, workers, history, IsTracked, IsTerminal, IsFinishing, InSection, Section
<1>1. TypeOK'
  BY DEF TypeOK, GitKnown, TriesLeft, StillDue, Steps, Job, NoJob, Entry, Copy, Terminal, Worker
<1>2. GitKnown'
  BY DEF TypeOK, GitKnown, Worker
<1>3. Guarded' /\ OneFinishPerPR'
  BY DEF TypeOK, Guarded, OneFinishPerPR, NoJob
<1>4. TriesLeft'
  BY DEF TypeOK, TriesLeft, StillDue, Entry, Job, Terminal
<1>5. StillDue'
  BY DEF TypeOK, StillDue, Guarded, OneFinishPerPR, Entry, NoJob, Job, Terminal
<1> QED BY <1>1, <1>2, <1>3, <1>4, <1>5

LEMMA FinishSettleKeeps ==
    ASSUME IInv, NEW w \in Worker, FinishSettle(w) PROVE IInv'
<1> USE DEF IInv, FinishSettle, Fault, NoFault, Goto, workers, history, IsTracked, IsTerminal, IsFinishing, InSection, Section
<1>1. TypeOK'
  BY FailedTry DEF TypeOK, GitKnown, TriesLeft, StillDue, Steps, Job, NoJob, Entry, Copy, Terminal, Worker
<1>2. GitKnown'
  BY FailedTry DEF TypeOK, GitKnown, Worker
<1>3. Guarded' /\ OneFinishPerPR'
  BY FailedTry DEF TypeOK, Guarded, OneFinishPerPR, NoJob
<1>4. TriesLeft'
  BY FailedTry DEF TypeOK, TriesLeft, StillDue, Entry, Job, Terminal
<1>5. StillDue'
  BY FailedTry DEF TypeOK, StillDue, Guarded, OneFinishPerPR, Entry, NoJob, Job, Terminal
<1> QED BY <1>1, <1>2, <1>3, <1>4, <1>5

LEMMA FinishLeaveKeeps ==
    ASSUME IInv, NEW w \in Worker, FinishLeave(w) PROVE IInv'
<1> USE DEF IInv, FinishLeave, Goto, Done, Rest, GuardDropped, workers, history, IsTracked, IsTerminal, IsFinishing, InSection, Section
<1>1. TypeOK'
  BY DEF TypeOK, GitKnown, TriesLeft, StillDue, Steps, Job, NoJob, Entry, Copy, Terminal, Worker
<1>2. GitKnown'
  BY DEF TypeOK, GitKnown, Worker
<1>3. Guarded' /\ OneFinishPerPR'
  BY DEF TypeOK, Guarded, OneFinishPerPR, NoJob
<1>4. TriesLeft'
  BY DEF TypeOK, TriesLeft, StillDue, Entry, Job, Terminal
<1>5. StillDue'
  BY DEF TypeOK, StillDue, Guarded, OneFinishPerPR, Entry, NoJob, Job, Terminal
<1> QED BY <1>1, <1>2, <1>3, <1>4, <1>5

LEMMA PollStartKeeps ==
    ASSUME IInv, PollStart PROVE IInv'
<1> USE DEF IInv, PollStart, Goto, workers, history, IsTracked, IsTerminal, IsFinishing, InSection, Section
<1>1. TypeOK'
  BY DEF TypeOK, GitKnown, TriesLeft, StillDue, Steps, Job, NoJob, Entry, Copy, Terminal, Worker
<1>2. GitKnown'
  BY DEF TypeOK, GitKnown, Worker
<1>3. Guarded' /\ OneFinishPerPR'
  BY DEF TypeOK, Guarded, OneFinishPerPR, NoJob
<1>4. TriesLeft'
  BY DEF TypeOK, TriesLeft, StillDue, Entry, Job, Terminal
<1>5. StillDue'
  BY DEF TypeOK, StillDue, Guarded, OneFinishPerPR, Entry, NoJob, Job, Terminal
<1> QED BY <1>1, <1>2, <1>3, <1>4, <1>5

LEMMA PollGivenUpKeeps ==
    ASSUME IInv, NEW p \in PR, PollGivenUp(p) PROVE IInv'
<1> USE DEF IInv, PollGivenUp, Goto, workers, history, IsTracked, IsTerminal, IsFinishing, InSection, Section
<1>1. TypeOK'
  BY DEF TypeOK, GitKnown, TriesLeft, StillDue, Steps, Job, NoJob, Entry, Copy, Terminal, Worker
<1>2. GitKnown'
  BY DEF TypeOK, GitKnown, Worker
<1>3. Guarded' /\ OneFinishPerPR'
  BY DEF TypeOK, Guarded, OneFinishPerPR, NoJob
<1>4. TriesLeft'
  BY DEF TypeOK, TriesLeft, StillDue, Entry, Job, Terminal
<1>5. StillDue'
  BY DEF TypeOK, StillDue, Guarded, OneFinishPerPR, Entry, NoJob, Job, Terminal
<1> QED BY <1>1, <1>2, <1>3, <1>4, <1>5

LEMMA PollFinishingKeeps ==
    ASSUME IInv, NEW p \in PR, PollFinishing(p) PROVE IInv'
<1> USE DEF IInv, PollFinishing, Goto, workers, history, IsTracked, IsTerminal, IsFinishing, InSection, Section
<1>1. TypeOK'
  BY DEF TypeOK, GitKnown, TriesLeft, StillDue, Steps, Job, NoJob, Entry, Copy, Terminal, Worker
<1>2. GitKnown'
  BY DEF TypeOK, GitKnown, Worker
<1>3. Guarded' /\ OneFinishPerPR'
  BY DEF TypeOK, Guarded, OneFinishPerPR, NoJob
<1>4. TriesLeft'
  BY DEF TypeOK, TriesLeft, StillDue, Entry, Job, Terminal
<1>5. StillDue'
  BY DEF TypeOK, StillDue, Guarded, OneFinishPerPR, Entry, NoJob, Job, Terminal
<1> QED BY <1>1, <1>2, <1>3, <1>4, <1>5

LEMMA PollOpenKeeps ==
    ASSUME IInv, NEW p \in PR, PollOpen(p) PROVE IInv'
<1> USE DEF IInv, PollOpen, Fault, NoFault, Goto, Answer, workers, history, IsTracked, IsTerminal, IsFinishing, InSection, Section
<1>1. TypeOK'
  <2> DEFINE j == [NoJob EXCEPT !.pr = p, !.status = Answer(p),
                                !.gone = (git[p] = "gone")]
  <2>1. Poll \in Worker
    BY DEF Worker
  <2>2. faults' \in 0..MaxFaults
    BY FaultType
  <2>3. snap' \in [PR -> Copy \cup {NoEntry}]
    BY DEF TypeOK
  <2>4. /\ pc' \in [Worker -> Steps]
       /\ job' \in [Worker -> Job]
       /\ \A v \in Worker : pc'[v] \notin {"idle", "pass"} => job'[v].pr \in PR
    <3>1. CASE Answer(p) \in Terminal /\ Goto(Poll, "claim") /\ job' = [job EXCEPT ![Poll] = j]
      <4>1. j \in Job /\ j.pr = p
        BY <3>1 DEF NoJob, Job
      <4> HIDE DEF j
      <4> QED BY <2>1, <3>1, <4>1, WorkerType DEF Steps
    <3>2. CASE UNCHANGED <<pc, job>>
      BY <3>2 DEF TypeOK
    <3> QED BY <3>1, <3>2
  <2> QED BY <2>2, <2>3, <2>4 DEF TypeOK
<1>2. GitKnown'
  BY DEF TypeOK, GitKnown, Worker
<1>3. Guarded' /\ OneFinishPerPR'
  BY DEF TypeOK, Guarded, OneFinishPerPR, NoJob
<1>4. TriesLeft'
  BY DEF TypeOK, TriesLeft, StillDue, Entry, Job, Terminal
<1>5. StillDue'
  BY DEF TypeOK, StillDue, Guarded, OneFinishPerPR, Entry, NoJob, Job, Terminal
<1> QED BY <1>1, <1>2, <1>3, <1>4, <1>5

LEMMA PollEndKeeps ==
    ASSUME IInv, PollEnd PROVE IInv'
<1> USE DEF IInv, PollEnd, Fault, NoFault, Goto, DropsExpired, workers, history, IsTracked, IsTerminal, IsFinishing, InSection, Section
<1>1. TypeOK'
  BY DEF TypeOK, GitKnown, TriesLeft, StillDue, Steps, Job, NoJob, Entry, Copy, Terminal, Worker
<1>2. GitKnown'
  BY DEF TypeOK, GitKnown, Worker
<1>3. Guarded' /\ OneFinishPerPR'
  BY DEF TypeOK, Guarded, OneFinishPerPR, NoJob
<1>4. TriesLeft'
  BY DEF TypeOK, TriesLeft, StillDue, Entry, Job, Terminal
<1>5. StillDue'
  BY DEF TypeOK, StillDue, Guarded, OneFinishPerPR, Entry, NoJob, Job, Terminal
<1> QED BY <1>1, <1>2, <1>3, <1>4, <1>5

LEMMA MarksAskKeeps ==
    ASSUME IInv, MarksAsk PROVE IInv'
<1> USE DEF IInv, MarksAsk, Fault, NoFault, Goto, Done, Rest, Answer, workers, history, IsTracked, IsTerminal, IsFinishing, InSection, Section
<1>1. TypeOK'
  <2> DEFINE p == job[MarksPass].pr
             j == [job[MarksPass] EXCEPT !.status = Answer(p), !.gone = (git[p] = "gone")]
  <2>1. MarksPass \in Worker /\ p \in PR /\ git[p] # "none"
    BY DEF Worker, TypeOK, GitKnown
  <2>2. faults' \in 0..MaxFaults
    BY FaultType
  <2>3. /\ pc' \in [Worker -> Steps]
       /\ job' \in [Worker -> Job]
       /\ \A v \in Worker : pc'[v] \notin {"idle", "pass"} => job'[v].pr \in PR
    <3>1. CASE Goto(MarksPass, "retrack") /\ job' = [job EXCEPT ![MarksPass] = j]
      <4>1. Answer(p) \in {"open"} \cup Terminal
        BY <2>1 DEF TypeOK, Terminal
      <4>2. job[MarksPass] \in Job
        BY <2>1 DEF TypeOK
      <4>3. \A x \in Job, s \in {"open"} \cup Terminal, g \in BOOLEAN :
                /\ [x EXCEPT !.status = s, !.gone = g] \in Job
                /\ [x EXCEPT !.status = s, !.gone = g].pr = x.pr
        BY DEF Job
      <4>a. (git[p] = "gone") \in BOOLEAN
        OBVIOUS
      <4>4. j \in Job /\ j.pr = p
        BY ONLY <4>1, <4>2, <4>3, <4>a
      <4> HIDE DEF j
      <4> QED BY <2>1, <3>1, <4>4, WorkerType DEF Steps
    <3>2. CASE Done(MarksPass)
      BY <2>1, <3>2, DoneType
    <3> QED BY <2>1, <3>1, <3>2 DEF TypeOK
  <2> QED BY <2>2, <2>3 DEF TypeOK
<1>2. GitKnown'
  BY DEF TypeOK, GitKnown, Worker
<1>3. Guarded' /\ OneFinishPerPR'
  BY DEF TypeOK, Guarded, OneFinishPerPR, NoJob
<1>4. TriesLeft'
  BY DEF TypeOK, TriesLeft, StillDue, Entry, Job, Terminal
<1>5. StillDue'
  BY DEF TypeOK, StillDue, Guarded, OneFinishPerPR, Entry, NoJob, Job, Terminal
<1> QED BY <1>1, <1>2, <1>3, <1>4, <1>5

LEMMA MarksTrackKeeps ==
    ASSUME IInv, MarksTrack PROVE IInv'
<1> USE DEF IInv, MarksTrack, Fault, NoFault, Goto, Done, Rest, TrackPR, workers, history, IsTracked, IsTerminal, IsFinishing, InSection, Section
<1>1. TypeOK'
  <2> DEFINE j == job[MarksPass]
  <2>1. MarksPass \in Worker /\ j \in Job /\ j.pr \in PR
    BY DEF Worker, TypeOK
  <2>2. faults' \in 0..MaxFaults
    BY FaultType
  <2>3. NewEntry(j.status, j.gone, j.gone) \in Entry
    BY <2>1, NewEntryType DEF Job
  <2>4. tracked' \in [PR -> Entry \cup {NoEntry}]
    BY <2>1, <2>3 DEF TypeOK
  <2>5. hooks' \in [PR -> Nat] /\ tries' \in [PR -> Nat]
    BY <2>1 DEF TypeOK
  <2>6. /\ pc' \in [Worker -> Steps]
       /\ job' \in [Worker -> Job]
       /\ \A v \in Worker : pc'[v] \notin {"idle", "pass"} => job'[v].pr \in PR
    <3>1. CASE Goto(MarksPass, "finishNow") /\ UNCHANGED job
      BY <2>1, <3>1, GotoType DEF Steps
    <3>2. CASE Done(MarksPass)
      BY <2>1, <3>2, DoneType
    <3> QED BY <3>1, <3>2
  <2> QED BY <2>2, <2>4, <2>5, <2>6 DEF TypeOK
<1>2. GitKnown'
  BY NewEntryType DEF TypeOK, GitKnown, Worker
<1>3. Guarded' /\ OneFinishPerPR'
  BY NewEntryType DEF TypeOK, Guarded, OneFinishPerPR, NoJob
<1>4. TriesLeft'
  <2> DEFINE j == job[MarksPass]
  <2>1. MarksPass \in Worker /\ j \in Job /\ j.pr \in PR
    BY DEF Worker, TypeOK
  <2>2. CASE tracked' = [tracked EXCEPT ![j.pr] = NewEntry(j.status, j.gone, j.gone)]
    <3>1. /\ NewEntry(j.status, j.gone, j.gone).attempts < MaxAttempts
          /\ ~NewEntry(j.status, j.gone, j.gone).gaveUp
          /\ ~NewEntry(j.status, j.gone, j.gone).wait
      BY <2>1, NewEntryType DEF Job
    <3> QED BY <2>1, <2>2, <3>1 DEF TypeOK, TriesLeft
  <2>3. CASE UNCHANGED tracked
    BY <2>3 DEF TypeOK, TriesLeft
  <2> QED BY <2>2, <2>3
<1>5. StillDue'
  <2> DEFINE j == job[MarksPass]
  <2>1. MarksPass \in Worker /\ j \in Job /\ j.pr \in PR
    BY DEF Worker, TypeOK
  <2>2. CASE tracked' = [tracked EXCEPT ![j.pr] = NewEntry(j.status, j.gone, j.gone)]
    <3>1. /\ NewEntry(j.status, j.gone, j.gone).attempts < MaxAttempts
          /\ ~NewEntry(j.status, j.gone, j.gone).gaveUp
          /\ ~NewEntry(j.status, j.gone, j.gone).wait
      BY <2>1, NewEntryType DEF Job
    <3> QED BY <2>1, <2>2, <3>1 DEF TypeOK, StillDue, NoJob
  <2>3. CASE UNCHANGED tracked
    BY <2>3 DEF TypeOK, StillDue, NoJob
  <2> QED BY <2>2, <2>3
<1> QED BY <1>1, <1>2, <1>3, <1>4, <1>5

LEMMA FinishNowKeeps ==
    ASSUME IInv, FinishNow PROVE IInv'
<1> USE DEF IInv, FinishNow, Fault, NoFault, Goto, Done, Rest, workers, history, IsTracked, IsTerminal, IsFinishing, InSection, Section
<1>1. TypeOK'
  <2> DEFINE p == job[MarksPass].pr
             j == [job[MarksPass] EXCEPT !.status = tracked[p].status]
  <2>1. MarksPass \in Worker /\ p \in PR
    BY DEF Worker, TypeOK
  <2>2. faults' \in 0..MaxFaults
    BY FaultType
  <2>3. /\ pc' \in [Worker -> Steps]
       /\ job' \in [Worker -> Job]
       /\ \A v \in Worker : pc'[v] \notin {"idle", "pass"} => job'[v].pr \in PR
    <3>1. CASE IsFinishing(p) /\ Goto(MarksPass, "enter") /\ job' = [job EXCEPT ![MarksPass] = j]
      <4>1. j \in Job /\ j.pr = p
        BY <2>1, <3>1 DEF TypeOK, Job
      <4> QED BY <2>1, <3>1, <4>1, WorkerType DEF Steps
    <3>2. CASE Done(MarksPass)
      BY <2>1, <3>2, DoneType
    <3> QED BY <3>1, <3>2
  <2> QED BY <2>2, <2>3 DEF TypeOK
<1>2. GitKnown'
  BY DEF TypeOK, GitKnown, Worker
<1>3. Guarded' /\ OneFinishPerPR'
  BY DEF TypeOK, Guarded, OneFinishPerPR, NoJob
<1>4. TriesLeft'
  BY DEF TypeOK, TriesLeft, StillDue, Entry, Job, Terminal
<1>5. StillDue'
  BY DEF TypeOK, StillDue, Guarded, OneFinishPerPR, Entry, NoJob, Job, Terminal
<1> QED BY <1>1, <1>2, <1>3, <1>4, <1>5

LEMMA RestartKeeps ==
    ASSUME IInv, Restart PROVE IInv'
<1> USE DEF IInv, Restart, Fault, NoFault, workers, history, IsTracked, IsTerminal, IsFinishing, InSection, Section
<1>1. TypeOK'
  BY DEF TypeOK, GitKnown, TriesLeft, StillDue, Steps, Job, NoJob, Entry, Copy, Terminal, Worker
<1>2. GitKnown'
  BY DEF TypeOK, GitKnown, Worker
<1>3. Guarded' /\ OneFinishPerPR'
  BY DEF TypeOK, Guarded, OneFinishPerPR, NoJob
<1>4. TriesLeft'
  BY DEF TypeOK, TriesLeft, StillDue, Entry, Job, Terminal
<1>5. StillDue'
  BY DEF TypeOK, StillDue, Guarded, OneFinishPerPR, Entry, NoJob, Job, Terminal
<1> QED BY <1>1, <1>2, <1>3, <1>4, <1>5

\* Every step keeps the inductive invariant.
LEMMA NextIInv == IInv /\ [Next]_vars => IInv'
<1> SUFFICES ASSUME IInv, [Next]_vars PROVE IInv'
  OBVIOUS
<1>1. CASE UNCHANGED vars
  BY <1>1 DEF vars, workers, history, IInv, TypeOK, GitKnown, Guarded,
              OneFinishPerPR, TriesLeft, StillDue, InSection, IsTracked
<1>2. ASSUME NEW p \in PR,
             \/ RequestStep(p) \/ GitSettles(p) \/ StopTracking(p)
             \/ MarksSee(p) \/ GapElapses(p) \/ KeepElapses(p)
      PROVE  IInv'
  BY <1>2, OpenPRKeeps, WriteMarkKeeps, TrackOpenedKeeps, GitSettlesKeeps,
     StopTrackingKeeps, MarksSeeKeeps, GapElapsesKeeps, KeepElapsesKeeps
     DEF RequestStep
<1>3. ASSUME NEW w \in Refresher, NEW p \in PR, Refresh(w, p)
      PROVE  IInv'
  BY <1>3, RefreshKeeps
<1>4. ASSUME NEW w \in Worker, WorkerStep(w)
      PROVE  IInv'
  BY <1>4, ClaimKeeps, RefreshOpenKeeps, FinishEnterKeeps, FinishReadKeeps,
     RunHooksKeeps, ClearHooksKeeps, FinishGapKeeps, FinishCallKeeps,
     FinishSettleKeeps, FinishLeaveKeeps
     DEF WorkerStep, RunFinish
<1>5. CASE PollPass
  BY <1>5, PollStartKeeps, PollEndKeeps, PollGivenUpKeeps, PollFinishingKeeps,
     PollOpenKeeps DEF PollPass
<1>6. CASE MarksStep
  BY <1>6, MarksAskKeeps, MarksTrackKeeps, FinishNowKeeps DEF MarksStep
<1>7. CASE Restart
  BY <1>7, RestartKeeps
<1> QED BY <1>1, <1>2, <1>3, <1>4, <1>5, <1>6, <1>7 DEF Next

\* The inductive invariant of the tracker and its callers: types, who holds the
\* guard of runFinish, and what a run in the middle of runFinish may rely on.
THEOREM Invariance == Spec => []IInv
  BY InitIInv, NextIInv, PTL DEF Spec

\* The variables keep their types; in particular no entry counts more failed
\* tries than maxFinishAttempts (runFinish).
THEOREM TypeCorrect == Spec => []TypeOK
<1>1. IInv => TypeOK
  BY DEF IInv
<1> QED BY <1>1, Invariance, PTL

\* Two runs of runFinish for one pull request never overlap, for any number
\* of refresh handlers beside the poll loop and the marks pass.
THEOREM FinishExclusive == Spec => []OneFinishPerPR
<1>1. IInv => OneFinishPerPR
  BY DEF IInv
<1> QED BY <1>1, Invariance, PTL

\* The finish step is never called for an entry Sharko gave up on or inside
\* its retry gap, although runFinish decides from a copy it read earlier.
THEOREM FinishDue == Spec => []FinishOnlyWhenDue
<1>1. IInv => FinishOnlyWhenDue
  BY DEF IInv, FinishOnlyWhenDue, StillDue, IsTracked
<1> QED BY <1>1, Invariance, PTL

----------------------------------------------------------------------------
(***************************************************************************)
(* What becomes of an outcome, in three parts, each with an invariant that *)
(* is inductive together with what is shown above: that it is reported     *)
(* before its finish step runs and never taken back (OInv), how often its  *)
(* finish step is tried (BInv), and how often its hooks run (HInv).        *)
(***************************************************************************)

----------------------------------------------------------------------------
(* Outcomes of pull requests without a waiting mark. TrackedOnce and       *)
(* MarksOnly say who may write a whole entry, OutcomeKnown that only       *)
(* merged and closed outcomes are claimed and finished, and HooksRecorded  *)
(* and HooksBehind carry the report from the hooks to the finish step,     *)
(* across a restart, through the hooksPending field of the entry.          *)

\* A claim owes the hooks.
LEMMA ClaimedHooks ==
    ASSUME NEW e \in Entry, NEW s, NEW g
    PROVE  Claimed(e, s, g).hooksPending
  BY DEF Claimed, Entry

\* A failed try changes neither the outcome nor what is owed of it.
LEMMA FailedTryHooks ==
    ASSUME NEW e \in Entry
    PROVE  /\ AfterFailedTry(e).status = e.status
           /\ AfterFailedTry(e).hooksPending = e.hooksPending
  BY DEF AfterFailedTry, Entry

LEMMA OpenPROutcome ==
    ASSUME TypeOK, OInv, NEW p \in PR, OpenPR(p) PROVE OInv'
<1> USE DEF OInv, TypeOK, OpenPR, workers, history
<1>1. TrackedOnce'
  BY DEF TrackedOnce, IsTracked
<1>2. MarksOnly'
  BY DEF MarksOnly
<1>3. OutcomeKnown'
  BY DEF OutcomeKnown
<1>4. HooksRecorded'
  BY DEF HooksRecorded, IsTracked, IsTerminal
<1>5. HooksBehind'
  BY DEF HooksBehind
<1> QED BY <1>1, <1>2, <1>3, <1>4, <1>5

LEMMA WriteMarkOutcome ==
    ASSUME TypeOK, OInv, NEW p \in PR, WriteMark(p) PROVE OInv'
<1> USE DEF OInv, TypeOK, WriteMark, Fault, NoFault, workers, history
<1>1. TrackedOnce'
  BY DEF TrackedOnce, IsTracked
<1>2. MarksOnly'
  BY DEF MarksOnly
<1>3. OutcomeKnown'
  BY DEF OutcomeKnown
<1>4. HooksRecorded'
  BY DEF HooksRecorded, IsTracked, IsTerminal
<1>5. HooksBehind'
  BY DEF HooksBehind
<1> QED BY <1>1, <1>2, <1>3, <1>4, <1>5

LEMMA TrackOpenedOutcome ==
    ASSUME TypeOK, OInv, NEW p \in PR, TrackOpened(p) PROVE OInv'
<1> USE DEF OInv, TypeOK, TrackOpened, TrackPR, Fault, NoFault, workers, history
<1>1. TrackedOnce'
  BY DEF TrackedOnce, IsTracked
<1>2. MarksOnly'
  BY DEF MarksOnly
<1>3. OutcomeKnown'
  BY DEF OutcomeKnown
<1>4. HooksRecorded'
  BY DEF HooksRecorded, IsTracked, IsTerminal, Terminal, NewEntry
<1>5. HooksBehind'
  BY DEF HooksBehind
<1> QED BY <1>1, <1>2, <1>3, <1>4, <1>5

LEMMA GitSettlesOutcome ==
    ASSUME TypeOK, OInv, NEW p \in PR, GitSettles(p) PROVE OInv'
<1> USE DEF OInv, TypeOK, GitSettles, workers, history
<1>1. TrackedOnce'
  BY DEF TrackedOnce, IsTracked
<1>2. MarksOnly'
  BY DEF MarksOnly
<1>3. OutcomeKnown'
  BY DEF OutcomeKnown
<1>4. HooksRecorded'
  BY DEF HooksRecorded, IsTracked, IsTerminal
<1>5. HooksBehind'
  BY DEF HooksBehind
<1> QED BY <1>1, <1>2, <1>3, <1>4, <1>5

LEMMA StopTrackingOutcome ==
    ASSUME TypeOK, OInv, NEW p \in PR, StopTracking(p) PROVE OInv'
<1> USE DEF OInv, TypeOK, StopTracking, IsTracked, workers, history
<1>1. TrackedOnce'
  BY DEF TrackedOnce
<1>2. MarksOnly'
  BY DEF MarksOnly
<1>3. OutcomeKnown'
  BY DEF OutcomeKnown
<1>4. HooksRecorded'
  BY DEF HooksRecorded, IsTerminal
<1>5. HooksBehind'
  BY DEF HooksBehind
<1> QED BY <1>1, <1>2, <1>3, <1>4, <1>5

LEMMA PollStartOutcome ==
    ASSUME TypeOK, OInv, PollStart PROVE OInv'
<1> USE DEF OInv, TypeOK, PollStart, Goto, IsTracked, history
<1>1. TrackedOnce'
  BY DEF TrackedOnce
<1>2. MarksOnly'
  BY DEF MarksOnly
<1>3. OutcomeKnown'
  BY DEF OutcomeKnown, Section
<1>4. HooksRecorded'
  BY DEF HooksRecorded, IsTerminal
<1>5. HooksBehind'
  BY DEF HooksBehind
<1> QED BY <1>1, <1>2, <1>3, <1>4, <1>5

LEMMA PollGivenUpOutcome ==
    ASSUME TypeOK, OInv, NEW p \in PR, PollGivenUp(p) PROVE OInv'
<1> USE DEF OInv, TypeOK, PollGivenUp, history
<1>1. TrackedOnce'
  BY DEF TrackedOnce, IsTracked
<1>2. MarksOnly'
  BY DEF MarksOnly
<1>3. OutcomeKnown'
  BY DEF OutcomeKnown
<1>4. HooksRecorded'
  BY DEF HooksRecorded, IsTracked, IsTerminal
<1>5. HooksBehind'
  BY DEF HooksBehind
<1> QED BY <1>1, <1>2, <1>3, <1>4, <1>5

LEMMA PollFinishingOutcome ==
    ASSUME TypeOK, OInv, NEW p \in PR, PollFinishing(p) PROVE OInv'
<1> USE DEF OInv, TypeOK, PollFinishing, Goto, NoJob, history
<1>1. TrackedOnce'
  BY DEF TrackedOnce, IsTracked
<1>2. MarksOnly'
  BY DEF MarksOnly
<1>3. OutcomeKnown'
  BY DEF OutcomeKnown
<1>4. HooksRecorded'
  BY DEF HooksRecorded, IsTracked, IsTerminal
<1>5. HooksBehind'
  BY DEF HooksBehind
<1> QED BY <1>1, <1>2, <1>3, <1>4, <1>5

LEMMA PollOpenOutcome ==
    ASSUME TypeOK, OInv, NEW p \in PR, PollOpen(p) PROVE OInv'
<1> USE DEF OInv, TypeOK, PollOpen, Fault, NoFault, Goto, NoJob, history
<1>1. TrackedOnce'
  BY DEF TrackedOnce, IsTracked
<1>2. MarksOnly'
  BY DEF MarksOnly, Worker
<1>3. OutcomeKnown'
  <2> DEFINE j == [NoJob EXCEPT !.pr = p, !.status = Answer(p), !.gone = (git[p] = "gone")]
  <2>1. CASE /\ Answer(p) \in Terminal
             /\ pc' = [pc EXCEPT ![Poll] = "claim"]
             /\ job' = [job EXCEPT ![Poll] = j]
    <3>1. j.status \in Terminal
      BY <2>1
    <3> QED BY <2>1, <3>1 DEF OutcomeKnown, Worker
  <2>2. CASE UNCHANGED <<pc, job>>
    BY <2>2 DEF OutcomeKnown
  <2> QED BY <2>1, <2>2
<1>4. HooksRecorded'
  BY DEF HooksRecorded, IsTracked, IsTerminal
<1>5. HooksBehind'
  BY DEF HooksBehind
<1> QED BY <1>1, <1>2, <1>3, <1>4, <1>5

LEMMA PollEndOutcome ==
    ASSUME TypeOK, OInv, PollEnd PROVE OInv'
<1> USE DEF OInv, TypeOK, PollEnd, Fault, NoFault, Goto, history
<1>1. TrackedOnce'
  BY DEF TrackedOnce, IsTracked
<1>2. MarksOnly'
  BY DEF MarksOnly
<1>3. OutcomeKnown'
  BY DEF OutcomeKnown, Section
<1>4. HooksRecorded'
  BY DEF HooksRecorded, IsTracked, IsTerminal
<1>5. HooksBehind'
  BY DEF HooksBehind
<1> QED BY <1>1, <1>2, <1>3, <1>4, <1>5

LEMMA RefreshOutcome ==
    ASSUME TypeOK, OInv, NEW w \in Refresher, NEW p \in PR, Refresh(w, p) PROVE OInv'
<1> USE DEF OInv, TypeOK, Refresh, Goto, NoJob, history
<1>1. TrackedOnce'
  BY DEF TrackedOnce, IsTracked
<1>2. MarksOnly'
  BY DEF MarksOnly
<1>3. OutcomeKnown'
  BY DEF OutcomeKnown, Section, Answer, Terminal
<1>4. HooksRecorded'
  BY DEF HooksRecorded, IsTracked, IsTerminal
<1>5. HooksBehind'
  BY DEF HooksBehind
<1> QED BY <1>1, <1>2, <1>3, <1>4, <1>5

LEMMA RefreshOpenOutcome ==
    ASSUME TypeOK, OInv, NEW w \in Worker, RefreshOpen(w) PROVE OInv'
<1> USE DEF OInv, TypeOK, RefreshOpen, Fault, NoFault, Goto, Done, Rest, NoJob, history
<1>1. TrackedOnce'
  BY DEF TrackedOnce, IsTracked, TakesOpen
<1>2. MarksOnly'
  BY DEF MarksOnly
<1>3. OutcomeKnown'
  BY DEF OutcomeKnown, Section
<1>4. HooksRecorded'
  BY DEF HooksRecorded, IsTracked, IsTerminal, Entry, OutcomeKnown, TakesOpen
<1>5. HooksBehind'
  BY DEF HooksBehind
<1> QED BY <1>1, <1>2, <1>3, <1>4, <1>5

LEMMA MarksSeeOutcome ==
    ASSUME TypeOK, OInv, NEW p \in PR, MarksSee(p) PROVE OInv'
<1> USE DEF OInv, TypeOK, MarksSee, Goto, NoJob, IsTracked, history
<1>1. TrackedOnce'
  BY DEF TrackedOnce
<1>2. MarksOnly'
  BY DEF MarksOnly
<1>3. OutcomeKnown'
  BY DEF OutcomeKnown, Section
<1>4. HooksRecorded'
  BY DEF HooksRecorded, IsTerminal
<1>5. HooksBehind'
  BY DEF HooksBehind
<1> QED BY <1>1, <1>2, <1>3, <1>4, <1>5

LEMMA MarksAskOutcome ==
    ASSUME TypeOK, OInv, MarksAsk PROVE OInv'
<1> USE DEF OInv, TypeOK, MarksAsk, Fault, NoFault, Goto, Done, Rest, NoJob, history
<1>1. TrackedOnce'
  BY DEF TrackedOnce, IsTracked
<1>2. MarksOnly'
  BY DEF MarksOnly, Job
<1>3. OutcomeKnown'
  BY DEF OutcomeKnown, Section
<1>4. HooksRecorded'
  BY DEF HooksRecorded, IsTracked, IsTerminal
<1>5. HooksBehind'
  BY DEF HooksBehind
<1> QED BY <1>1, <1>2, <1>3, <1>4, <1>5

LEMMA MarksTrackOutcome ==
    ASSUME TypeOK, OInv, MarksTrack PROVE OInv'
<1> USE DEF OInv, TypeOK, MarksTrack, TrackPR, Fault, NoFault, Goto, Done, Rest, NoJob,
            history
<1>1. TrackedOnce'
  BY DEF TrackedOnce, IsTracked, MarksOnly
<1>2. MarksOnly'
  BY DEF MarksOnly
<1>3. OutcomeKnown'
  BY DEF OutcomeKnown, Section
<1>4. HooksRecorded'
  BY DEF HooksRecorded, IsTracked, IsTerminal, MarksOnly
<1>5. HooksBehind'
  BY DEF HooksBehind
<1> QED BY <1>1, <1>2, <1>3, <1>4, <1>5

LEMMA FinishNowOutcome ==
    ASSUME TypeOK, OInv, FinishNow PROVE OInv'
<1> USE DEF OInv, TypeOK, FinishNow, Fault, NoFault, Goto, Done, Rest, NoJob,
            IsTracked, IsTerminal, IsFinishing, history
<1>1. TrackedOnce'
  BY DEF TrackedOnce
<1>2. MarksOnly'
  BY DEF MarksOnly
<1>3. OutcomeKnown'
  BY DEF OutcomeKnown, Section, Job
<1>4. HooksRecorded'
  BY DEF HooksRecorded
<1>5. HooksBehind'
  BY DEF HooksBehind
<1> QED BY <1>1, <1>2, <1>3, <1>4, <1>5

LEMMA ClaimOutcome ==
    ASSUME TypeOK, OInv, NEW w \in Worker, Claim(w) PROVE OInv'
<1> USE DEF OInv, TypeOK, Claim, Fault, NoFault, Goto, Done, Rest, NoJob, history
<1>1. TrackedOnce'
  BY DEF TrackedOnce, IsTracked, Claimable
<1>2. MarksOnly'
  BY DEF MarksOnly, Worker
<1>3. OutcomeKnown'
  BY DEF OutcomeKnown, Section
<1>4. HooksRecorded'
  <2> DEFINE p == job[w].pr
             e == Claimed(tracked[p], job[w].status, job[w].gone)
  <2>1. p \in PR /\ job[w].status \in {"open"} \cup Terminal /\ job[w].gone \in BOOLEAN
    BY DEF Job
  <2>2. CASE Claimable(p) /\ tracked' = [tracked EXCEPT ![p] = e] /\ NewOutcome(p)
    <3>1. e.hooksPending
      BY <2>1, <2>2, ClaimedHooks DEF Claimable, IsTracked
    <3>2. \A q \in PR : q # p => tracked'[q] = tracked[q]
      BY <2>2
    <3> QED BY <2>1, <2>2, <3>1, <3>2 DEF HooksRecorded, IsTracked, IsTerminal, NewOutcome
  <2>3. CASE UNCHANGED <<tracked, reports>>
    BY <2>3 DEF HooksRecorded, IsTracked, IsTerminal
  <2> QED BY <2>2, <2>3
<1>5. HooksBehind'
  BY DEF HooksBehind, NewOutcome
<1> QED BY <1>1, <1>2, <1>3, <1>4, <1>5

LEMMA FinishEnterOutcome ==
    ASSUME TypeOK, OInv, NEW w \in Worker, FinishEnter(w) PROVE OInv'
<1> USE DEF OInv, TypeOK, FinishEnter, Goto, Done, Rest, NoJob, history
<1>1. TrackedOnce'
  BY DEF TrackedOnce, IsTracked
<1>2. MarksOnly'
  BY DEF MarksOnly, Worker
<1>3. OutcomeKnown'
  BY DEF OutcomeKnown, Section
<1>4. HooksRecorded'
  BY DEF HooksRecorded, IsTracked, IsTerminal
<1>5. HooksBehind'
  BY DEF HooksBehind
<1> QED BY <1>1, <1>2, <1>3, <1>4, <1>5

LEMMA FinishReadOutcome ==
    ASSUME TypeOK, OInv, NEW w \in Worker, FinishRead(w) PROVE OInv'
<1> USE DEF OInv, TypeOK, FinishRead, Fault, NoFault, Goto, history
<1>1. TrackedOnce'
  BY DEF TrackedOnce, IsTracked
<1>2. MarksOnly'
  BY DEF MarksOnly, Worker
<1>3. OutcomeKnown'
  BY DEF OutcomeKnown, Section, Job, Owed
<1>4. HooksRecorded'
  BY DEF HooksRecorded, IsTracked, IsTerminal
<1>5. HooksBehind'
  BY DEF HooksBehind, IsTerminal, HooksRecorded, Section, OutcomeKnown, Owed, Job
<1> QED BY <1>1, <1>2, <1>3, <1>4, <1>5

LEMMA RunHooksOutcome ==
    ASSUME TypeOK, OInv, NEW w \in Worker, RunHooks(w) PROVE OInv'
<1> USE DEF OInv, TypeOK, RunHooks, Goto
<1>1. TrackedOnce'
  BY DEF TrackedOnce, IsTracked
<1>2. MarksOnly'
  BY DEF MarksOnly
<1>3. OutcomeKnown'
  BY DEF OutcomeKnown, Section
<1>4. HooksRecorded'
  BY DEF HooksRecorded, IsTracked, IsTerminal
<1>5. HooksBehind'
  BY DEF HooksBehind
<1> QED BY <1>1, <1>2, <1>3, <1>4, <1>5

LEMMA ClearHooksOutcome ==
    ASSUME TypeOK, OInv, NEW w \in Worker, ClearHooks(w) PROVE OInv'
<1> USE DEF OInv, TypeOK, ClearHooks, Fault, NoFault, Goto, IsTracked, history
<1>1. TrackedOnce'
  BY DEF TrackedOnce
<1>2. MarksOnly'
  BY DEF MarksOnly
<1>3. OutcomeKnown'
  BY DEF OutcomeKnown, Section
<1>4. HooksRecorded'
  BY DEF HooksRecorded, IsTerminal, HooksBehind
<1>5. HooksBehind'
  BY DEF HooksBehind
<1> QED BY <1>1, <1>2, <1>3, <1>4, <1>5

LEMMA FinishGapOutcome ==
    ASSUME TypeOK, OInv, NEW w \in Worker, FinishGap(w) PROVE OInv'
<1> USE DEF OInv, TypeOK, FinishGap, Goto, history
<1>1. TrackedOnce'
  BY DEF TrackedOnce, IsTracked
<1>2. MarksOnly'
  BY DEF MarksOnly
<1>3. OutcomeKnown'
  BY DEF OutcomeKnown, Section
<1>4. HooksRecorded'
  BY DEF HooksRecorded, IsTracked, IsTerminal
<1>5. HooksBehind'
  BY DEF HooksBehind
<1> QED BY <1>1, <1>2, <1>3, <1>4, <1>5

LEMMA FinishCallOutcome ==
    ASSUME TypeOK, OInv, NEW w \in Worker, FinishCall(w) PROVE OInv'
<1> USE DEF OInv, TypeOK, FinishCall, Goto
<1>1. TrackedOnce'
  BY DEF TrackedOnce, IsTracked
<1>2. MarksOnly'
  BY DEF MarksOnly
<1>3. OutcomeKnown'
  BY DEF OutcomeKnown, Section
<1>4. HooksRecorded'
  BY DEF HooksRecorded, IsTracked, IsTerminal
<1>5. HooksBehind'
  BY DEF HooksBehind
<1> QED BY <1>1, <1>2, <1>3, <1>4, <1>5

LEMMA FinishSettleOutcome ==
    ASSUME TypeOK, OInv, NEW w \in Worker, FinishSettle(w) PROVE OInv'
<1> USE DEF OInv, TypeOK, FinishSettle, Fault, NoFault, Goto, IsTracked, history
<1>1. TrackedOnce'
  BY DEF TrackedOnce
<1>2. MarksOnly'
  BY DEF MarksOnly
<1>3. OutcomeKnown'
  BY DEF OutcomeKnown, Section
<1>4. HooksRecorded'
  <2> DEFINE p == job[w].pr
  <2>1. p \in PR /\ UNCHANGED reports
    OBVIOUS
  <2>2. CASE IsTracked(p) /\ tracked' = [tracked EXCEPT ![p] = AfterFailedTry(@)]
    <3>1. /\ AfterFailedTry(tracked[p]).status = tracked[p].status
          /\ AfterFailedTry(tracked[p]).hooksPending = tracked[p].hooksPending
      BY <2>1, <2>2, FailedTryHooks DEF IsTracked
    <3> QED BY <2>1, <2>2, <3>1 DEF HooksRecorded, IsTracked, IsTerminal
  <2>3. CASE tracked' = [tracked EXCEPT ![p] = NoEntry]
    BY <2>1, <2>3 DEF HooksRecorded, IsTracked, IsTerminal
  <2>4. CASE UNCHANGED tracked
    BY <2>1, <2>4 DEF HooksRecorded, IsTracked, IsTerminal
  <2> QED BY <2>2, <2>3, <2>4
<1>5. HooksBehind'
  BY DEF HooksBehind
<1> QED BY <1>1, <1>2, <1>3, <1>4, <1>5

LEMMA FinishLeaveOutcome ==
    ASSUME TypeOK, OInv, NEW w \in Worker, FinishLeave(w) PROVE OInv'
<1> USE DEF OInv, TypeOK, FinishLeave, Goto, Done, Rest, NoJob, history
<1>1. TrackedOnce'
  BY DEF TrackedOnce, IsTracked
<1>2. MarksOnly'
  BY DEF MarksOnly
<1>3. OutcomeKnown'
  BY DEF OutcomeKnown, Section
<1>4. HooksRecorded'
  BY DEF HooksRecorded, IsTracked, IsTerminal
<1>5. HooksBehind'
  BY DEF HooksBehind
<1> QED BY <1>1, <1>2, <1>3, <1>4, <1>5

LEMMA GapElapsesOutcome ==
    ASSUME TypeOK, OInv, NEW p \in PR, GapElapses(p) PROVE OInv'
<1> USE DEF OInv, TypeOK, GapElapses, IsTracked, history
<1>1. TrackedOnce'
  BY DEF TrackedOnce
<1>2. MarksOnly'
  BY DEF MarksOnly, Worker
<1>3. OutcomeKnown'
  BY DEF OutcomeKnown
<1>4. HooksRecorded'
  BY DEF HooksRecorded, IsTerminal
<1>5. HooksBehind'
  BY DEF HooksBehind
<1> QED BY <1>1, <1>2, <1>3, <1>4, <1>5

LEMMA KeepElapsesOutcome ==
    ASSUME TypeOK, OInv, NEW p \in PR, KeepElapses(p) PROVE OInv'
<1> USE DEF OInv, TypeOK, KeepElapses, IsTracked, workers, history
<1>1. TrackedOnce'
  BY DEF TrackedOnce
<1>2. MarksOnly'
  BY DEF MarksOnly
<1>3. OutcomeKnown'
  BY DEF OutcomeKnown
<1>4. HooksRecorded'
  BY DEF HooksRecorded, IsTerminal
<1>5. HooksBehind'
  BY DEF HooksBehind
<1> QED BY <1>1, <1>2, <1>3, <1>4, <1>5

LEMMA RestartOutcome ==
    ASSUME TypeOK, OInv, Restart PROVE OInv'
<1> USE DEF OInv, TypeOK, Restart, Fault, NoJob, history
<1>1. TrackedOnce'
  BY DEF TrackedOnce, IsTracked
<1>2. MarksOnly'
  BY DEF MarksOnly, Worker
<1>3. OutcomeKnown'
  BY DEF OutcomeKnown, Section
<1>4. HooksRecorded'
  BY DEF HooksRecorded, IsTracked, IsTerminal
<1>5. HooksBehind'
  BY DEF HooksBehind
<1> QED BY <1>1, <1>2, <1>3, <1>4, <1>5

LEMMA InitOInv == Init => OInv
<1> SUFFICES ASSUME Init PROVE OInv
  OBVIOUS
<1>1. \A w \in Worker : pc[w] = "idle"
  BY DEF Init
<1>2. TrackedOnce /\ HooksRecorded
  BY DEF Init, TrackedOnce, HooksRecorded, IsTracked, IsTerminal
<1>3. MarksOnly
  BY <1>1 DEF MarksOnly, Worker
<1>4. OutcomeKnown /\ HooksBehind
  BY <1>1 DEF OutcomeKnown, HooksBehind, Section
<1> QED BY <1>2, <1>3, <1>4 DEF OInv

\* Every step keeps OInv.
LEMMA NextOInv == TypeOK /\ OInv /\ [Next]_vars => OInv'
<1> SUFFICES ASSUME TypeOK, OInv, [Next]_vars PROVE OInv'
  OBVIOUS
<1>1. CASE UNCHANGED vars
  BY <1>1 DEF vars, workers, history, OInv, TrackedOnce, MarksOnly, OutcomeKnown,
              HooksRecorded, HooksBehind, IsTracked, IsTerminal
<1>2. ASSUME NEW p \in PR,
             \/ RequestStep(p) \/ GitSettles(p) \/ StopTracking(p)
             \/ MarksSee(p) \/ GapElapses(p) \/ KeepElapses(p)
      PROVE  OInv'
  BY <1>2, OpenPROutcome, WriteMarkOutcome, TrackOpenedOutcome, GitSettlesOutcome,
     StopTrackingOutcome, MarksSeeOutcome, GapElapsesOutcome, KeepElapsesOutcome
     DEF RequestStep
<1>3. ASSUME NEW w \in Refresher, NEW p \in PR, Refresh(w, p)
      PROVE  OInv'
  BY <1>3, RefreshOutcome
<1>4. ASSUME NEW w \in Worker, WorkerStep(w)
      PROVE  OInv'
  BY <1>4, ClaimOutcome, RefreshOpenOutcome, FinishEnterOutcome,
     FinishReadOutcome, RunHooksOutcome, ClearHooksOutcome, FinishGapOutcome,
     FinishCallOutcome, FinishSettleOutcome, FinishLeaveOutcome
     DEF WorkerStep, RunFinish
<1>5. CASE PollPass
  BY <1>5, PollStartOutcome, PollEndOutcome, PollGivenUpOutcome,
     PollFinishingOutcome, PollOpenOutcome DEF PollPass
<1>6. CASE MarksStep
  BY <1>6, MarksAskOutcome, MarksTrackOutcome, FinishNowOutcome DEF MarksStep
<1>7. CASE Restart
  BY <1>7, RestartOutcome
<1> QED BY <1>1, <1>2, <1>3, <1>4, <1>5, <1>6, <1>7 DEF Next

\* The inductive invariant about outcomes: who writes whole entries, and that
\* the hooks are behind an outcome that no longer owes them.
THEOREM OutcomeInvariance == Spec => []OInv
  BY InitOInv, NextOInv, TypeCorrect, PTL DEF Spec

\* A pull request that only the request itself tracks (commitChangesWithMeta)
\* is reported by the merge and complete hooks before runFinish calls its
\* finish step, whatever restarts come in between.
THEOREM ReportedBeforeFinish == Spec => []HooksBeforeFinish
<1>1. OInv => HooksBeforeFinish
  BY DEF OInv, HooksBeforeFinish, HooksBehind
<1> QED BY <1>1, OutcomeInvariance, PTL

\* One step leaves the status of a merged or closed entry as it is, unless
\* the entry goes.
LEMMA StatusKept ==
    ASSUME TypeOK, OInv, NEW q \in PR \ MarkPR, Next,
           IsTerminal(q), tracked'[q] # NoEntry
    PROVE  tracked'[q].status = tracked[q].status
<1> USE DEF TypeOK, IsTerminal, IsTracked
<1>1. CASE UNCHANGED tracked
  BY <1>1
<1>2. ASSUME NEW p \in PR, TrackOpened(p)
      PROVE  tracked'[q].status = tracked[q].status
  BY <1>2 DEF TrackOpened, TrackPR, OInv, TrackedOnce
<1>3. ASSUME NEW p \in PR, StopTracking(p) \/ GapElapses(p) \/ KeepElapses(p)
      PROVE  tracked'[q].status = tracked[q].status
  BY <1>3 DEF StopTracking, GapElapses, KeepElapses, Entry
<1>4. CASE PollEnd
  BY <1>4 DEF PollEnd
<1>5. CASE MarksTrack
  BY <1>5 DEF MarksTrack, TrackPR, OInv, MarksOnly
<1>6. ASSUME NEW w \in Worker, Claim(w)
      PROVE  tracked'[q].status = tracked[q].status
  BY <1>6 DEF Claim, Claimable
<1>7. ASSUME NEW w \in Worker, RefreshOpen(w)
      PROVE  tracked'[q].status = tracked[q].status
  BY <1>7 DEF RefreshOpen, TakesOpen
<1>8. ASSUME NEW w \in Worker, ClearHooks(w)
      PROVE  tracked'[q].status = tracked[q].status
  BY <1>8 DEF ClearHooks, HooksCleared, Entry
<1>9. ASSUME NEW w \in Worker, FinishSettle(w)
      PROVE  tracked'[q].status = tracked[q].status
  <2> DEFINE p == job[w].pr
  <2>1. CASE IsTracked(p) /\ tracked' = [tracked EXCEPT ![p] = AfterFailedTry(@)]
    BY <2>1, FailedTryHooks
  <2>2. CASE tracked' = [tracked EXCEPT ![p] = NoEntry] \/ UNCHANGED tracked
    BY <2>2
  <2> QED BY <1>9, <2>1, <2>2 DEF FinishSettle
<1>10. ASSUME NEW p \in PR,
              \/ OpenPR(p) \/ WriteMark(p) \/ GitSettles(p) \/ MarksSee(p)
              \/ PollGivenUp(p) \/ PollFinishing(p) \/ PollOpen(p)
       PROVE  UNCHANGED tracked
  BY <1>10 DEF OpenPR, WriteMark, GitSettles, MarksSee, PollGivenUp, PollFinishing, PollOpen
<1>11. ASSUME PollStart \/ MarksAsk \/ FinishNow \/ Restart
       PROVE  UNCHANGED tracked
  BY <1>11 DEF PollStart, MarksAsk, FinishNow, Restart
<1>12. ASSUME NEW w \in Worker,
              \/ FinishEnter(w) \/ FinishRead(w) \/ RunHooks(w) \/ FinishGap(w)
              \/ FinishCall(w) \/ FinishLeave(w)
       PROVE  UNCHANGED tracked
  BY <1>12 DEF FinishEnter, FinishRead, RunHooks, FinishGap, FinishCall, FinishLeave, history
<1>13. ASSUME NEW w \in Refresher, NEW p \in PR, Refresh(w, p)
       PROVE  UNCHANGED tracked
  BY <1>13 DEF Refresh
<1> HIDE DEF TypeOK, IsTerminal, IsTracked
<1>14. ASSUME NEW p \in PR,
              \/ RequestStep(p) \/ GitSettles(p) \/ StopTracking(p)
              \/ MarksSee(p) \/ GapElapses(p) \/ KeepElapses(p)
       PROVE  tracked'[q].status = tracked[q].status
  BY <1>1, <1>2, <1>3, <1>10, <1>14 DEF RequestStep
<1>15. ASSUME NEW w \in Worker, WorkerStep(w)
       PROVE  tracked'[q].status = tracked[q].status
  BY <1>1, <1>6, <1>7, <1>8, <1>9, <1>12, <1>15 DEF WorkerStep, RunFinish
<1>16. CASE PollPass
  BY <1>1, <1>4, <1>10, <1>11, <1>16 DEF PollPass
<1>17. CASE MarksStep
  BY <1>1, <1>5, <1>11, <1>17 DEF MarksStep
<1>18. CASE Restart
  BY <1>1, <1>11, <1>18
<1> QED BY <1>1, <1>13, <1>14, <1>15, <1>16, <1>17, <1>18 DEF Next

\* A stored merged or closed status is final (PollSinglePR, claimTerminal): an
\* answer read before the pull request settled never takes it back.
THEOREM OutcomeFinal == Spec => TerminalStays
<1> DEFINE Stays == \A p \in PR \ MarkPR : IsTerminal(p) /\ tracked'[p] # NoEntry =>
                        tracked'[p].status = tracked[p].status
<1>1. TypeOK /\ OInv /\ [Next]_vars => [Stays]_vars
  BY StatusKept
<1>2. TerminalStays <=> [][Stays]_vars
  BY DEF TerminalStays
<1> HIDE DEF Stays
<1> QED BY <1>1, <1>2, OutcomeInvariance, TypeCorrect, PTL DEF Spec

\* A step that drops an entry settles a finish that worked, drops one that was
\* given up, or is the user's.
LEMMA DroppedHow ==
    ASSUME IInv, NEW q \in PR, Next, IsTracked(q), tracked'[q] = NoEntry
    PROVE  \/ \E w \in Worker : pc[w] = "settle" /\ job[w].pr = q /\ ~job[w].failed
           \/ tracked[q].gaveUp
           \/ drops' # drops
<1> DEFINE Kept == tracked'[q] # NoEntry
<1> USE DEF IsTracked
<1>0. TypeOK
  BY DEF IInv
<1>1. tracked[q] \in Entry /\ ~UNCHANGED tracked
  BY <1>0 DEF TypeOK
<1>2. \A e \in Entry : e # NoEntry
  BY NoEntryIsNone
<1>3. ASSUME NEW p \in PR, TrackOpened(p) PROVE Kept
  <2>1. NewEntry("open", FALSE, FALSE) # NoEntry
    BY <1>2, NewEntryType
  <2> QED BY <1>0, <1>1, <1>3, <2>1 DEF TrackOpened, TrackPR, TypeOK
<1>4. ASSUME NEW p \in PR, StopTracking(p) PROVE drops' # drops
  BY <1>0, <1>4 DEF StopTracking, TypeOK
<1>5. ASSUME NEW p \in PR, GapElapses(p) \/ KeepElapses(p) PROVE Kept
  <2>1. [tracked[q] EXCEPT !.wait = FALSE] \in Entry
    BY <1>1 DEF Entry
  <2>2. [tracked[q] EXCEPT !.old = TRUE] \in Entry
    BY <1>1 DEF Entry
  <2> QED BY <1>0, <1>2, <1>5, <2>1, <2>2 DEF GapElapses, KeepElapses, TypeOK
<1>6. CASE PollEnd
  BY <1>1, <1>6 DEF PollEnd, DropsExpired
<1>7. ASSUME MarksTrack PROVE Kept
  <2> DEFINE j == job[MarksPass]
  <2>1. NewEntry(j.status, j.gone, j.gone) \in Entry
    BY <1>0, NewEntryType DEF TypeOK, Job, Worker
  <2> QED BY <1>0, <1>1, <1>2, <1>7, <2>1 DEF MarksTrack, TrackPR, TypeOK
<1>8. ASSUME NEW w \in Worker, Claim(w) PROVE Kept
  <2>1. Claimed(tracked[q], job[w].status, job[w].gone) \in Entry
    BY <1>0, <1>1, ClaimedType DEF TypeOK, Job
  <2> QED BY <1>0, <1>1, <1>2, <1>8, <2>1 DEF Claim, TypeOK
<1>9. ASSUME NEW w \in Worker, RefreshOpen(w) PROVE Kept
  <2>1. [tracked[q] EXCEPT !.status = job[w].status] \in Entry
    BY <1>0, <1>1 DEF TypeOK, Job, Entry
  <2> QED BY <1>0, <1>1, <1>2, <1>9, <2>1 DEF RefreshOpen, TypeOK
<1>10. ASSUME NEW w \in Worker, ClearHooks(w) PROVE Kept
  <2>1. HooksCleared(tracked[q]) \in Entry
    BY <1>1, ClearedType
  <2> QED BY <1>0, <1>1, <1>2, <1>10, <2>1 DEF ClearHooks, TypeOK
<1>11. ASSUME NEW w \in Worker, FinishSettle(w)
       PROVE  pc[w] = "settle" /\ job[w].pr = q /\ ~job[w].failed
  <2>1. job[w].pr = q => AfterFailedTry(tracked[q]) # NoEntry
    <3>1. CASE ~tracked[q].gaveUp
      <4>1. tracked[q].attempts < MaxAttempts
        BY <3>1 DEF IInv, TriesLeft
      <4> QED BY <1>1, <1>2, <4>1, FailedTry
    <3>2. CASE tracked[q].gaveUp
      BY <1>1, <1>2, <1>11, <3>2 DEF IInv, StillDue, FinishSettle
    <3> QED BY <3>1, <3>2
  <2> QED BY <1>0, <1>1, <1>11, <2>1 DEF FinishSettle, TypeOK
<1>12. ASSUME NEW p \in PR,
              \/ OpenPR(p) \/ WriteMark(p) \/ GitSettles(p) \/ MarksSee(p)
              \/ PollGivenUp(p) \/ PollFinishing(p) \/ PollOpen(p)
       PROVE  UNCHANGED tracked
  BY <1>12 DEF OpenPR, WriteMark, GitSettles, MarksSee, PollGivenUp, PollFinishing, PollOpen
<1>13. ASSUME PollStart \/ MarksAsk \/ FinishNow \/ Restart
       PROVE  UNCHANGED tracked
  BY <1>13 DEF PollStart, MarksAsk, FinishNow, Restart
<1>14. ASSUME NEW w \in Worker,
              \/ FinishEnter(w) \/ FinishRead(w) \/ RunHooks(w) \/ FinishGap(w)
              \/ FinishCall(w) \/ FinishLeave(w)
       PROVE  UNCHANGED tracked
  BY <1>14 DEF FinishEnter, FinishRead, RunHooks, FinishGap, FinishCall, FinishLeave, history
<1>15. ASSUME NEW w \in Refresher, NEW p \in PR, Refresh(w, p)
       PROVE  UNCHANGED tracked
  BY <1>15 DEF Refresh
<1>16. ~UNCHANGED tracked /\ ~Kept
  BY <1>1
<1> HIDE DEF Kept, IsTracked
<1>17. ASSUME NEW p \in PR,
              \/ RequestStep(p) \/ GitSettles(p) \/ StopTracking(p)
              \/ MarksSee(p) \/ GapElapses(p) \/ KeepElapses(p)
       PROVE  drops' # drops
  BY <1>3, <1>4, <1>5, <1>12, <1>16, <1>17 DEF RequestStep
<1>18. ASSUME NEW w \in Worker, WorkerStep(w)
       PROVE  pc[w] = "settle" /\ job[w].pr = q /\ ~job[w].failed
  BY <1>8, <1>9, <1>10, <1>11, <1>14, <1>16, <1>18 DEF WorkerStep, RunFinish
<1>19. CASE PollPass
  BY <1>6, <1>12, <1>13, <1>16, <1>19 DEF PollPass
<1>20. ~MarksStep /\ ~Restart
  BY <1>7, <1>13, <1>16 DEF MarksStep
<1> QED BY <1>15, <1>16, <1>17, <1>18, <1>19, <1>20 DEF Next

\* An entry only leaves the tracker when its finish step worked (runFinish),
\* when it was given up (PollOnce), or when a user stops tracking it: what a
\* poll pass read before never costs a pull request that was tracked again.
THEOREM ForgottenOnlyFinished == Spec => OnlyFinishedIsForgotten
<1> DEFINE Drop == \A p \in PR : IsTracked(p) /\ tracked'[p] = NoEntry =>
              \/ \E w \in Worker : /\ pc[w] = "settle" /\ job[w].pr = p
                                  /\ ~job[w].failed
              \/ tracked[p].gaveUp
              \/ drops' # drops
<1>1. IInv /\ [Next]_vars => [Drop]_vars
  BY DroppedHow
<1>2. OnlyFinishedIsForgotten <=> [][Drop]_vars
  BY DEF OnlyFinishedIsForgotten
<1> HIDE DEF Drop
<1> QED BY <1>1, <1>2, Invariance, PTL DEF Spec

----------------------------------------------------------------------------
(* The finish step of one outcome is tried at most maxFinishAttempts       *)
(* times, and once more for each fault. The guard of runFinish             *)
(* (OneFinishPerPR) says that nobody else is about to count a try while    *)
(* one is called, and TriesLeft that an entry that is still due has a try  *)
(* left. Almost every step is quiet: it calls nothing and loses no count   *)
(* (QuietKeeps). The others are FinishRead, FinishCall, FinishSettle and   *)
(* Restart.                                                                *)

BeforeCall == {"hooks", "clear", "gap", "call"}

\* A step after which every call is as well counted as before it.
Quiet ==
    /\ faults <= faults'
    /\ \A p \in PR :
          \/ tries'[p] = 0
          \/ /\ tries'[p] = tries[p]
             /\ tracked'[p] # NoEntry =>
                   tracked[p] # NoEntry /\ tracked[p].attempts <= tracked'[p].attempts
    /\ \A w \in Worker :
          /\ pc[w] = "settle" => pc'[w] = "settle" /\ job'[w].pr = job[w].pr
          /\ pc'[w] \in BeforeCall => pc[w] \in BeforeCall /\ job'[w].pr = job[w].pr

\* The numbers compared are numbers.
LEMMA Numbers ==
    ASSUME TypeOK
    PROVE  /\ faults \in Nat /\ MaxAttempts \in Nat /\ MaxAttempts >= 2
           /\ \A p \in PR : tries[p] \in Nat
           /\ \A p \in PR : IsTracked(p) => tracked[p].attempts \in Nat
           /\ \A w \in Worker : pc[w] \in Section => job[w].pr \in PR
<1>1. faults \in Nat /\ MaxAttempts \in Nat /\ MaxAttempts >= 2
  BY TrackerConstants DEF TypeOK
<1>2. \A p \in PR : tries[p] \in Nat
  BY DEF TypeOK
<1>3. \A p \in PR : IsTracked(p) => tracked[p].attempts \in Nat
  BY <1>1 DEF TypeOK, IsTracked, Entry
<1>4. \A w \in Worker : pc[w] \in Section => job[w].pr \in PR
  BY DEF TypeOK, Section
<1> QED BY <1>1, <1>2, <1>3, <1>4

\* While one run of runFinish has not called yet, nobody is settling a call.
LEMMA NobodySettles ==
    ASSUME OneFinishPerPR, NEW w \in Worker, pc[w] \in BeforeCall \cup {"read"}
    PROVE  ~Settling(job[w].pr)
  BY DEF OneFinishPerPR, InSection, Section, BeforeCall, Settling

LEMMA QuietKeeps ==
    ASSUME TypeOK, TypeOK', BInv, Quiet
    PROVE  BInv'
<1>1. /\ faults \in Nat /\ faults' \in Nat /\ faults <= faults'
      /\ MaxAttempts \in Nat /\ MaxAttempts >= 2
  BY Numbers DEF TypeOK, Quiet
<1>2. \A p \in PR : tries[p] \in Nat /\ tries'[p] \in Nat
  BY DEF TypeOK
<1>3. CallsCounted'
  <2> SUFFICES ASSUME NEW p \in PR, IsTracked(p)'
               PROVE  \/ tries'[p] <= tracked'[p].attempts + faults'
                      \/ Settling(p)' /\ tries'[p] <= tracked'[p].attempts + faults' + 1
    BY DEF CallsCounted
  <2>1. tracked'[p].attempts \in Nat
    BY <1>1 DEF TypeOK, IsTracked, Entry
  <2>2. CASE tries'[p] = 0
    BY <1>1, <2>1, <2>2
  <2>3. CASE /\ tries'[p] = tries[p]
             /\ IsTracked(p) /\ tracked[p].attempts <= tracked'[p].attempts
    <3>1. tracked[p].attempts \in Nat
      BY <2>3, Numbers
    <3>2. Settling(p) => Settling(p)'
      BY DEF Quiet, Settling
    <3>3. \/ tries[p] <= tracked[p].attempts + faults
          \/ Settling(p) /\ tries[p] <= tracked[p].attempts + faults + 1
      BY <2>3 DEF BInv, CallsCounted
    <3> QED BY <1>1, <1>2, <2>1, <2>3, <3>1, <3>2, <3>3
  <2> QED BY <2>2, <2>3 DEF Quiet, IsTracked
<1>4. CallLeft'
  <2> SUFFICES ASSUME NEW w \in Worker, pc'[w] \in BeforeCall
               PROVE  tries'[job'[w].pr] < MaxAttempts + faults'
    BY DEF CallLeft, BeforeCall
  <2>1. pc[w] \in BeforeCall /\ job'[w].pr = job[w].pr
    BY DEF Quiet
  <2>2. job[w].pr \in PR /\ tries[job[w].pr] < MaxAttempts + faults
    BY <2>1, Numbers DEF BInv, CallLeft, BeforeCall, Section
  <2> QED BY <1>1, <1>2, <2>1, <2>2 DEF Quiet
<1>5. TriesWithinBudget'
  BY <1>1, <1>2 DEF Quiet, BInv, TriesWithinBudget
<1> QED BY <1>3, <1>4, <1>5 DEF BInv

-----------------------------------------------------------------------------
(* The steps that are not quiet.                                           *)

\* The run that reads an entry still due finds a try unused.
LEMMA FinishReadBudget ==
    ASSUME IInv, IInv', BInv, NEW w \in Worker, FinishRead(w)
    PROVE  BInv'
<1> DEFINE p == job[w].pr
<1>1. /\ p \in PR /\ faults \in Nat /\ faults' \in Nat /\ faults <= faults'
      /\ MaxAttempts \in Nat
  BY Numbers DEF IInv, TypeOK, FinishRead, Section, Fault, NoFault
<1>2. UNCHANGED <<tracked, tries>>
  BY DEF FinishRead, history
<1>3. \A v \in Worker : v # w => pc'[v] = pc[v] /\ job'[v] = job[v]
  BY DEF IInv, TypeOK, FinishRead, Goto
<1>4. /\ pc[w] = "read"
      /\ job'[w].pr = p
      /\ pc'[w] \in BeforeCall \cup {"leave"}
      /\ pc'[w] # "leave" => Owed(p, job[w].status)
  BY DEF IInv, TypeOK, FinishRead, Goto, Job, BeforeCall
<1>5. CallsCounted'
  <2> SUFFICES ASSUME NEW q \in PR, IsTracked(q)
               PROVE  \/ tries[q] <= tracked[q].attempts + faults'
                      \/ Settling(q)' /\ tries[q] <= tracked[q].attempts + faults' + 1
    BY <1>2 DEF CallsCounted, IsTracked
  <2>1. tracked[q].attempts \in Nat /\ tries[q] \in Nat
    BY Numbers DEF IInv
  <2>2. Settling(q) => Settling(q)'
    BY <1>3, <1>4 DEF Settling
  <2>3. \/ tries[q] <= tracked[q].attempts + faults
        \/ Settling(q) /\ tries[q] <= tracked[q].attempts + faults + 1
    BY DEF BInv, CallsCounted
  <2> QED BY <1>1, <2>1, <2>2, <2>3
<1>6. CallLeft'
  <2> SUFFICES ASSUME NEW v \in Worker, pc'[v] \in BeforeCall
               PROVE  tries[job'[v].pr] < MaxAttempts + faults'
    BY <1>2 DEF CallLeft, BeforeCall
  <2>1. CASE v = w
    <3>1. IsTracked(p) /\ ~tracked[p].gaveUp
      BY <1>4, <2>1 DEF Owed, BeforeCall
    <3>2. tracked[p].attempts \in Nat /\ tracked[p].attempts < MaxAttempts
      BY <1>1, <3>1, Numbers DEF IInv, TriesLeft
    <3>3. ~Settling(p)
      BY <1>4, NobodySettles DEF IInv
    <3>4. tries[p] \in Nat /\ tries[p] <= tracked[p].attempts + faults
      BY <1>1, <3>1, <3>3, Numbers DEF IInv, BInv, CallsCounted
    <3> QED BY <1>1, <1>4, <2>1, <3>2, <3>4
  <2>2. CASE v # w
    <3>1. pc[v] \in BeforeCall /\ job'[v] = job[v]
      BY <1>3, <2>2
    <3>2. job[v].pr \in PR /\ tries[job[v].pr] < MaxAttempts + faults
      BY <3>1, Numbers DEF IInv, BInv, CallLeft, BeforeCall, Section
    <3>3. tries[job[v].pr] \in Nat
      BY <3>2, Numbers DEF IInv
    <3> QED BY <1>1, <3>1, <3>2, <3>3
  <2> QED BY <2>1, <2>2
<1>7. TriesWithinBudget'
  BY <1>1, <1>2, Numbers DEF IInv, BInv, TriesWithinBudget
<1> QED BY <1>5, <1>6, <1>7 DEF BInv

\* The call uses the try that was left, and is being settled from now on.
LEMMA FinishCallBudget ==
    ASSUME IInv, BInv, NEW w \in Worker, FinishCall(w)
    PROVE  BInv'
<1> DEFINE p == job[w].pr
<1>1. p \in PR /\ faults \in Nat /\ faults' = faults /\ MaxAttempts \in Nat
  BY Numbers DEF IInv, FinishCall, Section
<1>2. /\ UNCHANGED tracked
      /\ tries' = [tries EXCEPT ![p] = @ + 1]
  BY DEF FinishCall
<1>3. \A v \in Worker : v # w => pc'[v] = pc[v] /\ job'[v] = job[v]
  BY DEF IInv, TypeOK, FinishCall, Goto
<1>4. pc[w] = "call" /\ pc'[w] = "settle" /\ job'[w].pr = p
  BY DEF IInv, TypeOK, FinishCall, Goto, Job
<1>5. tries[p] \in Nat /\ tries'[p] = tries[p] + 1
  BY <1>1, <1>2, Numbers DEF IInv, TypeOK
<1>6. \A q \in PR : q # p => tries'[q] = tries[q]
  BY <1>2 DEF IInv, TypeOK
<1>7. tries[p] < MaxAttempts + faults
  BY <1>4 DEF BInv, CallLeft
<1>8. CallsCounted'
  <2> SUFFICES ASSUME NEW q \in PR, IsTracked(q)
               PROVE  \/ tries'[q] <= tracked[q].attempts + faults
                      \/ Settling(q)' /\ tries'[q] <= tracked[q].attempts + faults + 1
    BY <1>1, <1>2 DEF CallsCounted, IsTracked
  <2>1. tracked[q].attempts \in Nat /\ tries[q] \in Nat
    BY Numbers DEF IInv
  <2>2. Settling(q) => Settling(q)'
    BY <1>3, <1>4 DEF Settling
  <2>3. \/ tries[q] <= tracked[q].attempts + faults
        \/ Settling(q) /\ tries[q] <= tracked[q].attempts + faults + 1
    BY DEF BInv, CallsCounted
  <2>4. CASE q = p
    <3>1. ~Settling(q)
      BY <1>4, <2>4, NobodySettles DEF IInv, BeforeCall
    <3>2. Settling(q)'
      BY <1>4, <2>4 DEF Settling
    <3> QED BY <1>1, <1>5, <2>1, <2>3, <2>4, <3>1, <3>2
  <2>5. CASE q # p
    BY <1>6, <2>2, <2>3, <2>5
  <2> QED BY <2>4, <2>5
<1>9. CallLeft'
  <2> SUFFICES ASSUME NEW v \in Worker, pc'[v] \in BeforeCall
               PROVE  tries'[job'[v].pr] < MaxAttempts + faults
    BY <1>1 DEF CallLeft, BeforeCall
  <2>1. v # w /\ pc[v] \in BeforeCall /\ job'[v] = job[v]
    BY <1>3, <1>4 DEF BeforeCall
  <2>2. job[v].pr # p
    BY <1>4, <2>1 DEF IInv, OneFinishPerPR, InSection, Section, BeforeCall
  <2>3. job[v].pr \in PR /\ tries[job[v].pr] < MaxAttempts + faults
    BY <2>1, Numbers DEF IInv, BInv, CallLeft, BeforeCall, Section
  <2> QED BY <1>6, <2>1, <2>2, <2>3
<1>10. TriesWithinBudget'
  <2> SUFFICES ASSUME NEW q \in PR PROVE tries'[q] <= MaxAttempts + faults
    BY <1>1 DEF TriesWithinBudget
  <2>1. CASE q = p
    BY <1>1, <1>5, <1>7, <2>1
  <2>2. CASE q # p
    BY <1>6, <2>2 DEF BInv, TriesWithinBudget
  <2> QED BY <2>1, <2>2
<1> QED BY <1>8, <1>9, <1>10 DEF BInv

\* The try is counted, its entry is dropped, or a fault stands for it.
LEMMA FinishSettleBudget ==
    ASSUME IInv, BInv, NEW w \in Worker, FinishSettle(w)
    PROVE  BInv'
<1> DEFINE p == job[w].pr
<1>1. /\ p \in PR /\ faults \in Nat /\ faults' \in Nat /\ faults <= faults'
      /\ MaxAttempts \in Nat
  BY Numbers DEF IInv, FinishSettle, Section, Fault, NoFault
<1>2. UNCHANGED <<tries, job>>
  BY DEF FinishSettle, history
<1>3. \A v \in Worker : v # w => pc'[v] = pc[v]
  BY DEF IInv, TypeOK, FinishSettle, Goto
<1>4. pc[w] = "settle" /\ pc'[w] = "leave"
  BY DEF IInv, TypeOK, FinishSettle, Goto
<1>5. \A q \in PR : tracked'[q] # tracked[q] => q = p
  BY <1>1 DEF IInv, TypeOK, FinishSettle
<1>6. tracked'[p] # NoEntry =>
        /\ IsTracked(p)
        /\ \/ faults' = faults + 1 /\ tracked'[p] = tracked[p]
           \/ tracked'[p].attempts = tracked[p].attempts + 1
  <2>1. CASE Fault /\ UNCHANGED tracked
    BY <2>1 DEF Fault, IsTracked
  <2>2. CASE ~IsTracked(p) /\ UNCHANGED tracked
    BY <2>2 DEF IsTracked
  <2>3. CASE IsTracked(p) /\ tracked' = [tracked EXCEPT ![p] = AfterFailedTry(@)]
    <3>1. tracked[p] \in Entry
      BY <1>1, <2>3 DEF IInv, TypeOK, IsTracked
    <3>2. AfterFailedTry(tracked[p]).attempts = tracked[p].attempts + 1
      BY <3>1 DEF AfterFailedTry, Entry
    <3> QED BY <1>1, <2>3, <3>2 DEF IInv, TypeOK
  <2>4. CASE tracked' = [tracked EXCEPT ![p] = NoEntry]
    BY <1>1, <2>4 DEF IInv, TypeOK, IsTracked
  <2> QED BY <2>1, <2>2, <2>3, <2>4 DEF FinishSettle
<1>7. CallsCounted'
  <2> SUFFICES ASSUME NEW q \in PR, IsTracked(q)'
               PROVE  \/ tries[q] <= tracked'[q].attempts + faults'
                      \/ Settling(q)' /\ tries[q] <= tracked'[q].attempts + faults' + 1
    BY <1>2 DEF CallsCounted
  <2>1. IsTracked(q)
    BY <1>5, <1>6 DEF IsTracked
  <2>2. tracked[q].attempts \in Nat /\ tries[q] \in Nat
    BY <2>1, Numbers DEF IInv
  <2>3. \/ tries[q] <= tracked[q].attempts + faults
        \/ Settling(q) /\ tries[q] <= tracked[q].attempts + faults + 1
    BY <2>1 DEF BInv, CallsCounted
  <2>4. CASE q = p
    <3>1. tries[q] <= tracked[q].attempts + faults + 1
      BY <1>1, <2>2, <2>3
    <3>2. tracked'[p] # NoEntry
      BY <2>4 DEF IsTracked
    <3> QED BY <1>1, <1>6, <2>2, <2>4, <3>1, <3>2
  <2>5. CASE q # p
    <3>1. Settling(q) => Settling(q)'
      BY <1>2, <1>3, <2>5 DEF Settling
    <3>2. tracked'[q] = tracked[q]
      BY <1>5, <2>5
    <3> QED BY <1>1, <2>2, <2>3, <3>1, <3>2
  <2> QED BY <2>4, <2>5
<1>8. CallLeft'
  <2> SUFFICES ASSUME NEW v \in Worker, pc'[v] \in BeforeCall
               PROVE  tries[job[v].pr] < MaxAttempts + faults'
    BY <1>2 DEF CallLeft, BeforeCall
  <2>1. pc[v] \in BeforeCall
    BY <1>3, <1>4 DEF BeforeCall
  <2>2. job[v].pr \in PR /\ tries[job[v].pr] < MaxAttempts + faults
    BY <2>1, Numbers DEF IInv, BInv, CallLeft, BeforeCall, Section
  <2>3. tries[job[v].pr] \in Nat
    BY <2>2, Numbers DEF IInv
  <2> QED BY <1>1, <2>2, <2>3
<1>9. TriesWithinBudget'
  BY <1>1, <1>2, Numbers DEF IInv, BInv, TriesWithinBudget
<1> QED BY <1>7, <1>8, <1>9 DEF BInv

\* A restart forgets the calls being settled, at most one for an entry, and
\* is one more fault.
LEMMA RestartBudget ==
    ASSUME IInv, BInv, Restart
    PROVE  BInv'
<1>1. faults \in Nat /\ faults' = faults + 1 /\ MaxAttempts \in Nat
  BY Numbers DEF IInv, Restart, Fault
<1>2. UNCHANGED <<tracked, tries>>
  BY DEF Restart, history
<1>3. CallsCounted'
  <2> SUFFICES ASSUME NEW q \in PR, IsTracked(q)
               PROVE  tries[q] <= tracked[q].attempts + faults'
    BY <1>2 DEF CallsCounted, IsTracked
  <2>1. tracked[q].attempts \in Nat /\ tries[q] \in Nat
    BY Numbers DEF IInv
  <2> QED BY <1>1, <2>1 DEF BInv, CallsCounted
<1>4. CallLeft'
  BY DEF Restart, CallLeft
<1>5. TriesWithinBudget'
  BY <1>1, <1>2, Numbers DEF IInv, BInv, TriesWithinBudget
<1> QED BY <1>3, <1>4, <1>5 DEF BInv

-----------------------------------------------------------------------------
(* The quiet steps.                                                        *)

\* The steps of the request, of Git, of the user and of time.
LEMMA EnvironmentQuiet ==
    ASSUME TypeOK, NEW p \in PR,
           \/ RequestStep(p) \/ GitSettles(p) \/ StopTracking(p)
           \/ MarksSee(p) \/ GapElapses(p) \/ KeepElapses(p)
    PROVE  Quiet
<1> USE DEF Quiet, TypeOK, BeforeCall, workers, history
<1>0. \A n \in Nat : n <= n /\ n <= n + 1
  OBVIOUS
<1>1. CASE OpenPR(p)
  BY <1>0, <1>1, Numbers DEF OpenPR, IsTracked
<1>2. CASE WriteMark(p)
  BY <1>0, <1>2, Numbers DEF WriteMark, Fault, NoFault, IsTracked
<1>3. CASE TrackOpened(p)
  <2>1. faults \in Nat /\ \A q \in PR : tracked[q] # NoEntry => tracked[q].attempts \in Nat
    BY Numbers DEF IsTracked
  <2>2. UNCHANGED <<pc, job>>
    BY <1>3 DEF TrackOpened
  <2>3. CASE TrackPR(p, NewEntry("open", FALSE, FALSE)) /\ NoFault
    BY <1>0, <2>1, <2>2, <2>3 DEF TrackPR, NoFault, IsTracked
  <2>4. CASE Fault /\ UNCHANGED <<tracked, history>>
    BY <1>0, <2>1, <2>2, <2>4 DEF Fault, IsTracked
  <2> QED BY <1>3, <2>3, <2>4 DEF TrackOpened
<1>4. CASE GitSettles(p)
  BY <1>0, <1>4, Numbers DEF GitSettles, IsTracked
<1>5. CASE StopTracking(p)
  BY <1>0, <1>5, Numbers DEF StopTracking, IsTracked
<1>6. CASE MarksSee(p)
  BY <1>0, <1>6, Numbers DEF MarksSee, Goto, IsTracked
<1>7. CASE GapElapses(p)
  BY <1>0, <1>7, Numbers DEF GapElapses, IsTracked, Entry, Job
<1>8. CASE KeepElapses(p)
  BY <1>0, <1>8, Numbers DEF KeepElapses, IsTracked, Entry
<1> QED BY <1>1, <1>2, <1>3, <1>4, <1>5, <1>6, <1>7, <1>8 DEF RequestStep

\* The steps of the poll pass.
LEMMA PollQuiet ==
    ASSUME TypeOK, PollPass
    PROVE  Quiet
<1> USE DEF Quiet, TypeOK, BeforeCall, Worker, history
<1>0. \A n \in Nat : n <= n /\ n <= n + 1
  OBVIOUS
<1>1. CASE PollStart
  BY <1>0, <1>1, Numbers DEF PollStart, Goto, IsTracked
<1>2. CASE PollEnd
  BY <1>0, <1>2, Numbers DEF PollEnd, Goto, Fault, NoFault, DropsExpired, IsTracked
<1>3. ASSUME NEW p \in PR, PollGivenUp(p) PROVE Quiet
  BY <1>0, <1>3, Numbers DEF PollGivenUp, IsTracked
<1>4. ASSUME NEW p \in PR, PollFinishing(p) PROVE Quiet
  BY <1>0, <1>4, Numbers DEF PollFinishing, Goto, IsTracked
<1>5. ASSUME NEW p \in PR, PollOpen(p) PROVE Quiet
  BY <1>0, <1>5, Numbers DEF PollOpen, Goto, Fault, NoFault, IsTracked
<1> QED BY <1>1, <1>2, <1>3, <1>4, <1>5 DEF PollPass

\* The steps of the marks pass.
LEMMA MarksQuiet ==
    ASSUME TypeOK, MarksStep
    PROVE  Quiet
<1> USE DEF Quiet, TypeOK, BeforeCall, Worker, Goto, Done, Rest, Fault, NoFault, history
<1>0. \A n \in Nat : n <= n /\ n <= n + 1
  OBVIOUS
<1>1. CASE MarksAsk
  BY <1>0, <1>1, Numbers DEF MarksAsk, IsTracked
<1>2. CASE MarksTrack
  BY <1>0, <1>2, Numbers DEF MarksTrack, TrackPR, IsTracked
<1>3. CASE FinishNow
  BY <1>0, <1>3, Numbers DEF FinishNow, IsTracked
<1> QED BY <1>1, <1>2, <1>3 DEF MarksStep

\* The first question of a refresh, the claim, and the steps of runFinish
\* that neither read the entry, call nor settle.
LEMMA WorkerQuiet ==
    ASSUME TypeOK, NEW w \in Worker,
           \/ \E p \in PR : Refresh(w, p)
           \/ Claim(w) \/ RefreshOpen(w) \/ FinishEnter(w) \/ RunHooks(w)
           \/ ClearHooks(w) \/ FinishGap(w) \/ FinishLeave(w)
    PROVE  Quiet
<1> USE DEF Quiet, TypeOK, BeforeCall, Goto, Done, Rest, Fault, NoFault, history
<1>0. \A n \in Nat : n <= n /\ n <= n + 1
  OBVIOUS
<1>1. ASSUME NEW p \in PR, Refresh(w, p) PROVE Quiet
  BY <1>0, <1>1, Numbers DEF Refresh, IsTracked
<1>2. CASE Claim(w)
  BY <1>0, <1>2, Numbers DEF Claim, Claimable, NewOutcome, IsTracked
<1>3. CASE RefreshOpen(w)
  BY <1>0, <1>3, Numbers DEF RefreshOpen, TakesOpen, IsTracked, Entry
<1>4. CASE FinishEnter(w)
  BY <1>0, <1>4, Numbers DEF FinishEnter, IsTracked
<1>5. CASE RunHooks(w)
  BY <1>0, <1>5, Numbers DEF RunHooks, IsTracked
<1>6. CASE ClearHooks(w)
  BY <1>0, <1>6, Numbers, ClearedType DEF ClearHooks, IsTracked
<1>7. CASE FinishGap(w)
  BY <1>0, <1>7, Numbers DEF FinishGap, IsTracked
<1>8. CASE FinishLeave(w)
  BY <1>0, <1>8, Numbers DEF FinishLeave, IsTracked
<1> QED BY <1>1, <1>2, <1>3, <1>4, <1>5, <1>6, <1>7, <1>8

-----------------------------------------------------------------------------
LEMMA InitBInv == Init => BInv
  BY TrackerConstants DEF Init, BInv, CallsCounted, CallLeft, TriesWithinBudget, IsTracked

LEMMA NextBInv == IInv /\ BInv /\ [Next]_vars => BInv'
<1> SUFFICES ASSUME IInv, BInv, [Next]_vars PROVE BInv'
  OBVIOUS
<1>1. IInv' /\ TypeOK /\ TypeOK'
  <2>1. IInv'
    BY NextIInv
  <2> QED BY <2>1 DEF IInv
<1>2. Quiet => BInv'
  BY <1>1, QuietKeeps
<1>3. CASE UNCHANGED vars
  BY <1>3 DEF vars, workers, history, BInv, CallsCounted, CallLeft,
              TriesWithinBudget, Settling, IsTracked
<1>4. ASSUME NEW p \in PR,
             \/ RequestStep(p) \/ GitSettles(p) \/ StopTracking(p)
             \/ MarksSee(p) \/ GapElapses(p) \/ KeepElapses(p)
      PROVE  BInv'
  BY <1>1, <1>2, <1>4, EnvironmentQuiet
<1>5. ASSUME NEW w \in Refresher, NEW p \in PR, Refresh(w, p)
      PROVE  BInv'
  BY <1>1, <1>2, <1>5, WorkerQuiet DEF Worker
<1>6. ASSUME NEW w \in Worker, WorkerStep(w)
      PROVE  BInv'
  BY <1>1, <1>2, <1>6, WorkerQuiet, FinishReadBudget, FinishCallBudget,
     FinishSettleBudget DEF WorkerStep, RunFinish
<1>7. CASE PollPass
  BY <1>1, <1>2, <1>7, PollQuiet
<1>8. CASE MarksStep
  BY <1>1, <1>2, <1>8, MarksQuiet
<1>9. CASE Restart
  BY <1>9, RestartBudget
<1> QED BY <1>3, <1>4, <1>5, <1>6, <1>7, <1>8, <1>9 DEF Next

\* The finish step of one outcome is tried at most maxFinishAttempts times
\* (runFinish counts before it gives up), and once more for each restart or
\* failed write that lost a count, whatever polls, refreshes and marks passes
\* run at the same time.
THEOREM BudgetKept == Spec => []TriesWithinBudget
<1>1. BInv => TriesWithinBudget
  BY DEF BInv
<1>2. Spec => []BInv
  BY InitBInv, NextBInv, Invariance, PTL DEF Spec
<1> QED BY <1>1, <1>2, PTL

----------------------------------------------------------------------------
(* The merge and complete hooks of one outcome run once, and once more for *)
(* each fault: only the holder of the guard of runFinish runs them, an     *)
(* entry owes them only from the claim until that run recorded them, and a *)
(* record that was not written is a fault. The only steps that are not     *)
(* plain, in the sense of Plain below, are FinishRead, RunHooks,           *)
(* ClearHooks and Restart.                                                 *)

\* A step after which every run of the hooks is as well recorded as before.
Plain ==
    /\ faults <= faults'
    /\ \A p \in PR :
          \/ hooks'[p] = 0
          \/ /\ hooks'[p] = hooks[p]
             /\ tracked'[p] # NoEntry /\ tracked'[p].hooksPending =>
                   tracked[p] # NoEntry /\ tracked[p].hooksPending
    /\ \A w \in Worker :
          /\ pc[w] = "clear" => pc'[w] = "clear" /\ job'[w].pr = job[w].pr
          /\ pc'[w] = "hooks" => pc[w] = "hooks" /\ job'[w].pr = job[w].pr

LEMMA HooksNumbers ==
    ASSUME TypeOK
    PROVE  \A p \in PR : hooks[p] \in Nat
  BY DEF TypeOK

\* While one run of runFinish is before its hooks, nobody records another.
LEMMA NobodyReports ==
    ASSUME OneFinishPerPR, NEW w \in Worker, pc[w] \in {"read", "hooks"}
    PROVE  ~Reporting(job[w].pr)
  BY DEF OneFinishPerPR, InSection, Section, Reporting

LEMMA PlainKeeps ==
    ASSUME TypeOK, TypeOK', HInv, Plain
    PROVE  HInv'
<1>1. faults \in Nat /\ faults' \in Nat /\ faults <= faults'
  BY Numbers DEF TypeOK, Plain
<1>2. \A p \in PR : hooks[p] \in Nat /\ hooks'[p] \in Nat
  BY DEF TypeOK
<1>3. RunsRecorded'
  <2> SUFFICES ASSUME NEW p \in PR, tracked'[p] # NoEntry, tracked'[p].hooksPending
               PROVE  \/ hooks'[p] <= faults'
                      \/ Reporting(p)' /\ hooks'[p] <= faults' + 1
    BY DEF RunsRecorded, IsTracked
  <2>1. CASE hooks'[p] = 0
    <3>1. 0 <= faults'
      BY <1>1
    <3> QED BY <2>1, <3>1
  <2>2. CASE hooks'[p] = hooks[p] /\ tracked[p] # NoEntry /\ tracked[p].hooksPending
    <3>1. Reporting(p) => Reporting(p)'
      BY DEF Plain, Reporting
    <3>2. \/ hooks[p] <= faults
          \/ Reporting(p) /\ hooks[p] <= faults + 1
      BY <2>2 DEF HInv, RunsRecorded, IsTracked
    <3> QED BY <1>1, <1>2, <2>2, <3>1, <3>2
  <2> QED BY <2>1, <2>2 DEF Plain
<1>4. RunLeft'
  <2> SUFFICES ASSUME NEW w \in Worker, pc'[w] = "hooks"
               PROVE  hooks'[job'[w].pr] <= faults'
    BY DEF RunLeft
  <2>1. pc[w] = "hooks" /\ job'[w].pr = job[w].pr
    BY DEF Plain
  <2>2. job[w].pr \in PR /\ hooks[job[w].pr] <= faults
    BY <2>1, Numbers DEF HInv, RunLeft, Section
  <2> QED BY <1>1, <1>2, <2>1, <2>2 DEF Plain
<1>5. HooksOncePerOutcome'
  BY <1>1, <1>2 DEF Plain, HInv, HooksOncePerOutcome
<1> QED BY <1>3, <1>4, <1>5 DEF HInv

-----------------------------------------------------------------------------
(* The steps that are not plain.                                           *)

\* The run that reads an entry still owing its hooks is the first to run
\* them, but for faults.
LEMMA FinishReadHooks ==
    ASSUME IInv, HInv, NEW w \in Worker, FinishRead(w)
    PROVE  HInv'
<1> DEFINE p == job[w].pr
<1>1. p \in PR /\ faults \in Nat /\ faults' \in Nat /\ faults <= faults'
  BY Numbers DEF IInv, TypeOK, FinishRead, Section, Fault, NoFault
<1>2. UNCHANGED <<tracked, hooks>> /\ \A q \in PR : hooks[q] \in Nat
  BY HooksNumbers DEF IInv, FinishRead, history
<1>3. \A v \in Worker : v # w => pc'[v] = pc[v] /\ job'[v] = job[v]
  BY DEF IInv, TypeOK, FinishRead, Goto
<1>4. /\ pc[w] = "read"
      /\ job'[w].pr = p
      /\ pc'[w] # "clear"
      /\ pc'[w] = "hooks" => IsTracked(p) /\ tracked[p].hooksPending
  BY DEF IInv, TypeOK, FinishRead, Goto, Job, Owed
<1>5. RunsRecorded'
  <2> SUFFICES ASSUME NEW q \in PR, tracked[q] # NoEntry, tracked[q].hooksPending
               PROVE  \/ hooks[q] <= faults'
                      \/ Reporting(q)' /\ hooks[q] <= faults' + 1
    BY <1>2 DEF RunsRecorded, IsTracked
  <2>1. Reporting(q) => Reporting(q)'
    BY <1>3, <1>4 DEF Reporting
  <2>2. \/ hooks[q] <= faults
        \/ Reporting(q) /\ hooks[q] <= faults + 1
    BY DEF HInv, RunsRecorded, IsTracked
  <2> QED BY <1>1, <1>2, <2>1, <2>2
<1>6. RunLeft'
  <2> SUFFICES ASSUME NEW v \in Worker, pc'[v] = "hooks"
               PROVE  hooks[job'[v].pr] <= faults'
    BY <1>2 DEF RunLeft
  <2>1. CASE v = w
    <3>1. ~Reporting(p)
      BY <1>4, NobodyReports DEF IInv
    <3>2. hooks[p] <= faults
      BY <1>1, <1>4, <2>1, <3>1 DEF HInv, RunsRecorded
    <3> QED BY <1>1, <1>2, <1>4, <2>1, <3>2
  <2>2. CASE v # w
    <3>1. pc[v] = "hooks" /\ job'[v] = job[v]
      BY <1>3, <2>2
    <3>2. job[v].pr \in PR /\ hooks[job[v].pr] <= faults
      BY <3>1, Numbers DEF IInv, HInv, RunLeft, Section
    <3> QED BY <1>1, <1>2, <3>1, <3>2
  <2> QED BY <2>1, <2>2
<1>7. HooksOncePerOutcome'
  BY <1>1, <1>2 DEF HInv, HooksOncePerOutcome
<1> QED BY <1>5, <1>6, <1>7 DEF HInv

\* The run that was left is used, and waits for its record.
LEMMA RunHooksHooks ==
    ASSUME IInv, HInv, NEW w \in Worker, RunHooks(w)
    PROVE  HInv'
<1> DEFINE p == job[w].pr
<1>1. p \in PR /\ faults \in Nat /\ faults' = faults
  BY Numbers DEF IInv, RunHooks, Section
<1>2. UNCHANGED <<tracked, job>>
  BY DEF RunHooks
<1>3. \A v \in Worker : v # w => pc'[v] = pc[v]
  BY DEF IInv, TypeOK, RunHooks, Goto
<1>4. pc[w] = "hooks" /\ pc'[w] = "clear"
  BY DEF IInv, TypeOK, RunHooks, Goto
<1>5. /\ \A q \in PR : hooks[q] \in Nat
      /\ hooks'[p] = hooks[p] + 1
      /\ \A q \in PR : q # p => hooks'[q] = hooks[q]
  BY <1>1, HooksNumbers DEF IInv, TypeOK, RunHooks
<1>6. hooks[p] <= faults
  BY <1>4 DEF HInv, RunLeft
<1>7. RunsRecorded'
  <2> SUFFICES ASSUME NEW q \in PR, tracked[q] # NoEntry, tracked[q].hooksPending
               PROVE  \/ hooks'[q] <= faults
                      \/ Reporting(q)' /\ hooks'[q] <= faults + 1
    BY <1>1, <1>2 DEF RunsRecorded, IsTracked
  <2>1. CASE q = p
    <3>1. Reporting(q)'
      BY <1>2, <1>4, <2>1 DEF Reporting
    <3> QED BY <1>1, <1>5, <1>6, <2>1, <3>1
  <2>2. CASE q # p
    <3>1. Reporting(q) => Reporting(q)'
      BY <1>2, <1>3, <1>4 DEF Reporting
    <3> QED BY <1>5, <2>2, <3>1 DEF HInv, RunsRecorded, IsTracked
  <2> QED BY <2>1, <2>2
<1>8. RunLeft'
  <2> SUFFICES ASSUME NEW v \in Worker, pc'[v] = "hooks"
               PROVE  hooks'[job[v].pr] <= faults
    BY <1>1, <1>2 DEF RunLeft
  <2>1. v # w /\ pc[v] = "hooks"
    BY <1>3, <1>4
  <2>2. job[v].pr # p
    BY <1>4, <2>1 DEF IInv, OneFinishPerPR, InSection, Section
  <2>3. job[v].pr \in PR /\ hooks[job[v].pr] <= faults
    BY <2>1, Numbers DEF IInv, HInv, RunLeft, Section
  <2> QED BY <1>5, <2>2, <2>3
<1>9. HooksOncePerOutcome'
  <2> SUFFICES ASSUME NEW q \in PR PROVE hooks'[q] <= 1 + faults
    BY <1>1 DEF HooksOncePerOutcome
  <2>1. CASE q = p
    BY <1>1, <1>5, <1>6, <2>1
  <2>2. CASE q # p
    BY <1>5, <2>2 DEF HInv, HooksOncePerOutcome
  <2> QED BY <2>1, <2>2
<1> QED BY <1>7, <1>8, <1>9 DEF HInv

\* The record is written, its entry is gone, or a fault stands for it.
LEMMA ClearHooksHooks ==
    ASSUME IInv, HInv, NEW w \in Worker, ClearHooks(w)
    PROVE  HInv'
<1> DEFINE p == job[w].pr
<1>1. p \in PR /\ faults \in Nat /\ faults' \in Nat /\ faults <= faults'
  BY Numbers DEF IInv, ClearHooks, Section, Fault, NoFault
<1>2. UNCHANGED <<hooks, job>> /\ \A q \in PR : hooks[q] \in Nat
  BY HooksNumbers DEF IInv, ClearHooks, history
<1>3. /\ pc[w] = "clear" /\ pc'[w] = "gap"
      /\ \A v \in Worker : v # w => pc'[v] = pc[v]
  BY DEF IInv, TypeOK, ClearHooks, Goto
<1>4. \A q \in PR : q # p => tracked'[q] = tracked[q]
  BY <1>1 DEF IInv, TypeOK, ClearHooks
<1>5. tracked'[p] # NoEntry /\ tracked'[p].hooksPending =>
        tracked'[p] = tracked[p] /\ faults' = faults + 1
  <2>1. CASE IsTracked(p) /\ tracked' = [tracked EXCEPT ![p] = HooksCleared(@)]
    <3>1. tracked[p] \in Entry
      BY <1>1, <2>1 DEF IInv, TypeOK, IsTracked
    <3>2. ~HooksCleared(tracked[p]).hooksPending
      BY <3>1 DEF HooksCleared, Entry
    <3> QED BY <1>1, <2>1, <3>2 DEF IInv, TypeOK
  <2>2. CASE ~IsTracked(p) /\ UNCHANGED tracked
    BY <2>2 DEF IsTracked
  <2>3. CASE Fault /\ UNCHANGED tracked
    BY <2>3 DEF Fault
  <2> QED BY <2>1, <2>2, <2>3 DEF ClearHooks
<1>6. RunsRecorded'
  <2> SUFFICES ASSUME NEW q \in PR, tracked'[q] # NoEntry, tracked'[q].hooksPending
               PROVE  \/ hooks[q] <= faults'
                      \/ Reporting(q)' /\ hooks[q] <= faults' + 1
    BY <1>2 DEF RunsRecorded, IsTracked
  <2>1. tracked'[q] = tracked[q]
    BY <1>4, <1>5
  <2>2. \/ hooks[q] <= faults
        \/ Reporting(q) /\ hooks[q] <= faults + 1
    BY <2>1 DEF HInv, RunsRecorded, IsTracked
  <2>3. CASE q = p
    BY <1>1, <1>2, <1>5, <2>2, <2>3
  <2>4. CASE q # p
    <3>1. Reporting(q) => Reporting(q)'
      BY <1>2, <1>3, <2>4 DEF Reporting
    <3> QED BY <1>1, <1>2, <2>2, <3>1
  <2> QED BY <2>3, <2>4
<1>7. RunLeft'
  <2> SUFFICES ASSUME NEW v \in Worker, pc'[v] = "hooks"
               PROVE  hooks[job[v].pr] <= faults'
    BY <1>2 DEF RunLeft
  <2>1. pc[v] = "hooks"
    BY <1>3
  <2>2. job[v].pr \in PR /\ hooks[job[v].pr] <= faults
    BY <2>1, Numbers DEF IInv, HInv, RunLeft, Section
  <2> QED BY <1>1, <1>2, <2>2
<1>8. HooksOncePerOutcome'
  BY <1>1, <1>2 DEF HInv, HooksOncePerOutcome
<1> QED BY <1>6, <1>7, <1>8 DEF HInv

\* A restart forgets the records not yet written, at most one for an entry,
\* and is one more fault.
LEMMA RestartHooks ==
    ASSUME IInv, HInv, Restart
    PROVE  HInv'
<1>1. faults \in Nat /\ faults' = faults + 1
  BY Numbers DEF IInv, Restart, Fault
<1>2. UNCHANGED <<tracked, hooks>> /\ \A q \in PR : hooks[q] \in Nat
  BY HooksNumbers DEF IInv, Restart, history
<1>3. RunsRecorded'
  BY <1>1, <1>2 DEF HInv, RunsRecorded, IsTracked
<1>4. RunLeft'
  BY DEF Restart, RunLeft
<1>5. HooksOncePerOutcome'
  BY <1>1, <1>2 DEF HInv, HooksOncePerOutcome
<1> QED BY <1>3, <1>4, <1>5 DEF HInv

-----------------------------------------------------------------------------
(* The plain steps.                                                        *)

\* The steps of the request, of Git, of the user and of time.
LEMMA EnvironmentPlain ==
    ASSUME TypeOK, NEW p \in PR,
           \/ RequestStep(p) \/ GitSettles(p) \/ StopTracking(p)
           \/ MarksSee(p) \/ GapElapses(p) \/ KeepElapses(p)
    PROVE  Plain
<1> USE DEF Plain, TypeOK, workers, history
<1>0. \A n \in Nat : n <= n /\ n <= n + 1
  OBVIOUS
<1>1. CASE OpenPR(p)
  BY <1>0, <1>1, Numbers DEF OpenPR
<1>2. CASE WriteMark(p)
  BY <1>0, <1>2, Numbers DEF WriteMark, Fault, NoFault
<1>3. CASE TrackOpened(p)
  <2>1. faults \in Nat
    BY DEF TypeOK
  <2>2. UNCHANGED <<pc, job>>
    BY <1>3 DEF TrackOpened
  <2>3. CASE TrackPR(p, NewEntry("open", FALSE, FALSE)) /\ NoFault
    BY <1>0, <2>1, <2>2, <2>3 DEF TrackPR, NoFault
  <2>4. CASE Fault /\ UNCHANGED <<tracked, history>>
    BY <1>0, <2>1, <2>2, <2>4 DEF Fault
  <2> QED BY <1>3, <2>3, <2>4 DEF TrackOpened
<1>4. CASE GitSettles(p)
  BY <1>0, <1>4, Numbers DEF GitSettles
<1>5. CASE StopTracking(p)
  BY <1>0, <1>5, Numbers DEF StopTracking, IsTracked
<1>6. CASE MarksSee(p)
  BY <1>0, <1>6, Numbers DEF MarksSee, Goto, IsTracked
<1>7. CASE GapElapses(p)
  BY <1>0, <1>7, Numbers DEF GapElapses, IsTracked, Entry, Job
<1>8. CASE KeepElapses(p)
  BY <1>0, <1>8, Numbers DEF KeepElapses, IsTracked, Entry
<1> QED BY <1>1, <1>2, <1>3, <1>4, <1>5, <1>6, <1>7, <1>8 DEF RequestStep

\* The steps of the poll pass.
LEMMA PollPlain ==
    ASSUME TypeOK, PollPass
    PROVE  Plain
<1> USE DEF Plain, TypeOK, Worker, history
<1>0. \A n \in Nat : n <= n /\ n <= n + 1
  OBVIOUS
<1>1. CASE PollStart
  BY <1>0, <1>1, Numbers DEF PollStart, Goto
<1>2. CASE PollEnd
  BY <1>0, <1>2, Numbers DEF PollEnd, Goto, Fault, NoFault
<1>3. ASSUME NEW p \in PR, PollGivenUp(p) PROVE Plain
  BY <1>0, <1>3, Numbers DEF PollGivenUp
<1>4. ASSUME NEW p \in PR, PollFinishing(p) PROVE Plain
  BY <1>0, <1>4, Numbers DEF PollFinishing, Goto
<1>5. ASSUME NEW p \in PR, PollOpen(p) PROVE Plain
  BY <1>0, <1>5, Numbers DEF PollOpen, Goto, Fault, NoFault
<1> QED BY <1>1, <1>2, <1>3, <1>4, <1>5 DEF PollPass

\* The steps of the marks pass.
LEMMA MarksPlain ==
    ASSUME TypeOK, MarksStep
    PROVE  Plain
<1> USE DEF Plain, TypeOK, Worker, Goto, Done, Rest, Fault, NoFault, history
<1>0. \A n \in Nat : n <= n /\ n <= n + 1
  OBVIOUS
<1>1. CASE MarksAsk
  BY <1>0, <1>1, Numbers DEF MarksAsk
<1>2. CASE MarksTrack
  BY <1>0, <1>2, Numbers DEF MarksTrack, TrackPR
<1>3. CASE FinishNow
  BY <1>0, <1>3, Numbers DEF FinishNow
<1> QED BY <1>1, <1>2, <1>3 DEF MarksStep

\* A failed try leaves what is owed of the hooks.
LEMMA SettlePlain ==
    ASSUME TypeOK, NEW w \in Worker, FinishSettle(w)
    PROVE  Plain
<1>0. \A n \in Nat : n <= n /\ n <= n + 1
  OBVIOUS
<1>1. UNCHANGED <<hooks, job>> /\ faults <= faults'
  BY <1>0, Numbers DEF FinishSettle, history, Fault, NoFault
<1>2. pc[w] = "settle" /\ pc' = [pc EXCEPT ![w] = "leave"]
  BY DEF FinishSettle, Goto
<1>3. ASSUME NEW p \in PR, tracked'[p] # NoEntry, tracked'[p].hooksPending
      PROVE  tracked[p] # NoEntry /\ tracked[p].hooksPending
  <2>1. ASSUME tracked[p] # NoEntry
        PROVE  AfterFailedTry(tracked[p]).hooksPending = tracked[p].hooksPending
    BY <2>1 DEF TypeOK, AfterFailedTry, Entry
  <2> QED BY <1>3, <2>1 DEF FinishSettle, IsTracked, TypeOK
<1> QED BY <1>1, <1>2, <1>3 DEF Plain, TypeOK

\* The first question of a refresh, the claim, and the steps of runFinish
\* that do not touch the hooks.
LEMMA WorkerPlain ==
    ASSUME TypeOK, NEW w \in Worker,
           \/ \E p \in PR : Refresh(w, p)
           \/ Claim(w) \/ RefreshOpen(w) \/ FinishEnter(w) \/ FinishGap(w)
           \/ FinishCall(w) \/ FinishLeave(w)
    PROVE  Plain
<1> USE DEF Plain, TypeOK, Goto, Done, Rest, Fault, NoFault, history
<1>0. \A n \in Nat : n <= n /\ n <= n + 1
  OBVIOUS
<1>1. ASSUME NEW p \in PR, Refresh(w, p) PROVE Plain
  BY <1>0, <1>1, Numbers DEF Refresh
<1>2. CASE Claim(w)
  BY <1>0, <1>2, Numbers DEF Claim, Claimable, NewOutcome
<1>3. CASE RefreshOpen(w)
  BY <1>0, <1>3, Numbers DEF RefreshOpen, TakesOpen, IsTracked, Entry
<1>4. CASE FinishEnter(w)
  BY <1>0, <1>4, Numbers DEF FinishEnter
<1>5. CASE FinishGap(w)
  BY <1>0, <1>5, Numbers DEF FinishGap
<1>6. CASE FinishCall(w)
  BY <1>0, <1>6, Numbers DEF FinishCall, Job
<1>7. CASE FinishLeave(w)
  BY <1>0, <1>7, Numbers DEF FinishLeave
<1> QED BY <1>1, <1>2, <1>3, <1>4, <1>5, <1>6, <1>7

-----------------------------------------------------------------------------
LEMMA InitHInv == Init => HInv
  BY DEF Init, HInv, RunsRecorded, RunLeft, HooksOncePerOutcome, IsTracked

LEMMA NextHInv == IInv /\ HInv /\ [Next]_vars => HInv'
<1> SUFFICES ASSUME IInv, HInv, [Next]_vars PROVE HInv'
  OBVIOUS
<1>1. TypeOK /\ TypeOK'
  BY NextIInv DEF IInv
<1>2. Plain => HInv'
  BY <1>1, PlainKeeps
<1>3. CASE UNCHANGED vars
  BY <1>3 DEF vars, workers, history, HInv, RunsRecorded, RunLeft,
              HooksOncePerOutcome, Reporting, IsTracked
<1>4. ASSUME NEW p \in PR,
             \/ RequestStep(p) \/ GitSettles(p) \/ StopTracking(p)
             \/ MarksSee(p) \/ GapElapses(p) \/ KeepElapses(p)
      PROVE  HInv'
  BY <1>1, <1>2, <1>4, EnvironmentPlain
<1>5. ASSUME NEW w \in Refresher, NEW p \in PR, Refresh(w, p)
      PROVE  HInv'
  BY <1>1, <1>2, <1>5, WorkerPlain DEF Worker
<1>6. ASSUME NEW w \in Worker, WorkerStep(w)
      PROVE  HInv'
  BY <1>1, <1>2, <1>6, WorkerPlain, SettlePlain, FinishReadHooks,
     RunHooksHooks, ClearHooksHooks DEF WorkerStep, RunFinish
<1>7. CASE PollPass
  BY <1>1, <1>2, <1>7, PollPlain
<1>8. CASE MarksStep
  BY <1>1, <1>2, <1>8, MarksPlain
<1>9. CASE Restart
  BY <1>9, RestartHooks
<1> QED BY <1>3, <1>4, <1>5, <1>6, <1>7, <1>8, <1>9 DEF Next

\* The merge and complete hooks of one outcome (runHooks) run once, and
\* once more for each restart or failed write that came between them and their
\* record, whichever of the poll loop, refreshes and the marks pass get there.
THEOREM HooksOnce == Spec => []HooksOncePerOutcome
<1>1. HInv => HooksOncePerOutcome
  BY DEF HInv
<1>2. Spec => []HInv
  BY InitHInv, NextHInv, Invariance, PTL DEF Spec
<1> QED BY <1>1, <1>2, PTL

=============================================================================
