------------------------ MODULE InitOperation_proofs ------------------------
(* Theorems of InitOperation, for any number of sessions, clients, failed    *)
(* calls and restarts: the safety properties that its run checks.            *)
EXTENDS InitOperation, TLAPS

-----------------------------------------------------------------------------
(* What a session shows while its worker is at a step, and at the end *)

OneSession == [status : Statuses, steps : [Step -> {"pending", "running", "completed", "failed"}], current : Step]

Untouched(x) == x.current = Files /\ x.steps = [n \in Step |-> "pending"]
Begun(x, c) ==
    /\ x.current = c
    /\ x.steps = [n \in Step |-> IF n < c THEN "completed" ELSE IF n = c THEN "running" ELSE "pending"]
Broken(x) ==
    x.steps = [n \in Step |-> IF n < x.current THEN "completed" ELSE IF n = x.current THEN "failed" ELSE "pending"]
AllDone(x) == x.current = Last /\ x.steps = [n \in Step |-> "completed"]

LEMMA StepNumbers ==
    /\ Files \in Step /\ Push \in Step /\ Pull \in Step
    /\ Merge \in Step /\ Boot \in Step /\ Sync \in Step /\ Last \in Step
BY DEF Step, Files, Push, Pull, Merge, Boot, Sync, Last

\* The operations of the store, field by field.
LEMMA NewShows ==
    ASSUME NEW status \in Statuses
    PROVE  New(status) \in OneSession /\ New(status).status = status /\ Untouched(New(status))
BY StepNumbers DEF New, OneSession, Untouched

LEMMA BecomeShows ==
    ASSUME NEW x \in OneSession, NEW status \in Statuses
    PROVE  /\ Become(x, status) \in OneSession
           /\ Become(x, status).status = status
           /\ Become(x, status).steps = x.steps /\ Become(x, status).current = x.current
BY DEF Become, OneSession

LEMMA StartedShows ==
    ASSUME NEW x \in OneSession, Untouched(x)
    PROVE  Started(x) \in OneSession /\ Started(x).status = "running" /\ Begun(Started(x), Files)
<1>1. /\ Started(x) \in OneSession /\ Started(x).status = "running"
      /\ Started(x).current = x.current /\ Started(x).steps = [x.steps EXCEPT ![Files] = "running"]
  BY StepNumbers DEF Started, OneSession, Statuses, Live
<1> QED BY <1>1 DEF Untouched, Begun, Files, Step

LEMMA UpdateShows ==
    ASSUME NEW x \in OneSession
    PROVE  LET y == Update(x, "completed") IN
           /\ y \in OneSession /\ y.status = x.status
           /\ \A c \in 1..5 : Begun(x, c) => Begun(y, c + 1)
           /\ Begun(x, Last) \/ AllDone(x) => AllDone(y)
<1> DEFINE y == Update(x, "completed")
<1>1. CASE x.current < Last
  <2>1. /\ y.status = x.status /\ y.current = x.current + 1
        /\ y.steps = [[x.steps EXCEPT ![x.current] = "completed"] EXCEPT ![x.current + 1] = "running"]
    BY <1>1 DEF Update, OneSession
  <2>2. y \in OneSession
    <3>1. x.current \in Step /\ x.current + 1 \in Step
      BY <1>1 DEF OneSession, Step, Last
    <3>2. y = [[x EXCEPT !.steps = [x.steps EXCEPT ![x.current] = "completed"]]
                  EXCEPT !.current = x.current + 1,
                         !.steps = [[x.steps EXCEPT ![x.current] = "completed"] EXCEPT ![x.current + 1] = "running"]]
      BY <1>1 DEF Update, OneSession
    <3>3. [[x.steps EXCEPT ![x.current] = "completed"] EXCEPT ![x.current + 1] = "running"]
              \in [Step -> {"pending", "running", "completed", "failed"}]
      BY <3>1 DEF OneSession
    <3> QED BY <3>1, <3>2, <3>3 DEF OneSession
  <2>3. ASSUME NEW c \in 1..5, Begun(x, c) PROVE Begun(y, c + 1)
    BY <2>1, <2>3 DEF Begun, Step
  <2>4. ~Begun(x, Last) /\ ~AllDone(x)
    BY <1>1 DEF Begun, AllDone, OneSession, Step, Last
  <2> QED BY <2>1, <2>2, <2>3, <2>4
<1>2. CASE ~(x.current < Last)
  <2>1. /\ y.status = x.status /\ y.current = x.current
        /\ y.steps = [x.steps EXCEPT ![x.current] = "completed"]
        /\ y \in OneSession
    BY <1>2 DEF Update, OneSession
  <2>2. \A c \in 1..5 : ~Begun(x, c)
    BY <1>2 DEF Begun, Last
  <2>3. Begun(x, Last) \/ AllDone(x) => AllDone(y)
    BY <2>1 DEF Begun, AllDone, Step, Last
  <2> QED BY <2>1, <2>2, <2>3
<1> QED BY <1>1, <1>2

LEMMA FailedShows ==
    ASSUME NEW x \in OneSession, NEW c \in Step, Begun(x, c)
    PROVE  /\ Failed(x) \in OneSession /\ Failed(x).status = "failed" /\ Broken(Failed(x))
           /\ Failed(Update(x, "failed")) \in OneSession
           /\ Failed(Update(x, "failed")).status = "failed" /\ Broken(Failed(Update(x, "failed")))
<1> DEFINE y == Update(x, "failed")
           broken == [n \in Step |-> IF n < c THEN "completed" ELSE IF n = c THEN "failed" ELSE "pending"]
<1>1. y \in OneSession /\ y.current = x.current /\ y.steps = [x.steps EXCEPT ![x.current] = "failed"]
  BY DEF Update, OneSession
<1>2. ASSUME NEW z \in OneSession
      PROVE  /\ Failed(z) \in OneSession /\ Failed(z).status = "failed" /\ Failed(z).current = z.current
             /\ Failed(z).steps = [z.steps EXCEPT ![z.current] = IF @ = "running" THEN "failed" ELSE @]
  BY DEF Failed, OneSession, Statuses, Ended
<1>3. y.steps = broken /\ y.current = c
  BY <1>1 DEF Begun, Step
<1>4. Failed(y).steps = broken /\ Failed(y).current = c
  BY <1>1, <1>2, <1>3
<1>5. Failed(x).steps = broken /\ Failed(x).current = c
  BY <1>2 DEF Begun
<1> HIDE DEF y
<1>6. Failed(y) \in OneSession /\ Failed(y).status = "failed" /\ Failed(x) \in OneSession /\ Failed(x).status = "failed"
  BY <1>1, <1>2
<1>7. Broken(Failed(x)) /\ Broken(Failed(y))
  BY <1>4, <1>5 DEF Broken
<1> QED BY <1>6, <1>7 DEF y

\* Updated is a recursive function on 0..n; for the numbers of steps that the
\* worker skips, what it computes is written out.
Times(x, n) ==
    LET one   == Update(x, "completed")
        two   == Update(one, "completed")
        three == Update(two, "completed")
        four  == Update(three, "completed")
        five  == Update(four, "completed")
        six   == Update(five, "completed")
    IN  IF n = 0 THEN x ELSE IF n = 1 THEN one ELSE IF n = 2 THEN two ELSE IF n = 3 THEN three
        ELSE IF n = 4 THEN four ELSE IF n = 5 THEN five ELSE six

LEMMA TimesIsRecursive ==
    ASSUME NEW x, NEW n \in 0..6
    PROVE  n # 0 => Times(x, n) = Update(Times(x, n - 1), "completed")
BY DEF Times

LEMMA UpdatedIsTimes ==
    ASSUME NEW x, NEW n \in 0..6
    PROVE  Updated(x, n) = Times(x, n)
<1> DEFINE F(a) == [k \in 0..n |-> IF k = 0 THEN x ELSE Update(a[k - 1], "completed")]
           After == CHOOSE a : a = F(a)
           T == [k \in 0..n |-> Times(x, k)]
<1>1. T = F(T)
  <2>1. ASSUME NEW k \in 0..n PROVE T[k] = IF k = 0 THEN x ELSE Update(T[k - 1], "completed")
    <3>1. k \in 0..6 /\ (k # 0 => k - 1 \in 0..n)
      OBVIOUS
    <3>2. CASE k = 0
      BY <3>2 DEF Times
    <3>3. CASE k # 0
      BY <3>1, <3>3, TimesIsRecursive
    <3> QED BY <3>2, <3>3
  <2> QED BY <2>1, Zenon
<1>2. After = F(After)
  BY <1>1, Zenon
<1>3. Updated(x, n) = After[n]
  BY Zenon DEF Updated
<1> HIDE DEF After, T
<1>4. After = [k \in 0..n |-> IF k = 0 THEN x ELSE Update(After[k - 1], "completed")]
  BY <1>2
<1>5. \A k \in 0..n : After[k] = IF k = 0 THEN x ELSE Update(After[k - 1], "completed")
  BY <1>4, Zenon
<1>6. After[0] = x
  BY <1>5
<1>7. /\ 1 <= n => After[1] = Update(After[0], "completed")
      /\ 2 <= n => After[2] = Update(After[1], "completed")
      /\ 3 <= n => After[3] = Update(After[2], "completed")
      /\ 4 <= n => After[4] = Update(After[3], "completed")
      /\ 5 <= n => After[5] = Update(After[4], "completed")
      /\ 6 <= n => After[6] = Update(After[5], "completed")
  BY <1>5
<1> QED BY <1>3, <1>6, <1>7 DEF Times

\* The numbers of steps that the worker skips at once.
LEMMA UpdatedShows ==
    ASSUME NEW x \in OneSession
    PROVE  /\ Begun(x, Files) =>
                  /\ Begun(Updated(x, Files), Push) /\ Begun(Updated(x, Push), Pull)
                  /\ Begun(Updated(x, Pull), Merge) /\ Begun(Updated(x, GitSteps), Boot)
                  /\ AllDone(Updated(x, Last))
           /\ Begun(x, Merge) => AllDone(Updated(x, Last - Merge + 1))
           /\ \A n \in 0..6 : Updated(x, n) \in OneSession /\ Updated(x, n).status = x.status
           /\ Updated(x, 0) = x
<1> DEFINE T(n) == Times(x, n)
<1>1. T(0) = x /\ \A n \in 1..6 : T(n) = Update(T(n - 1), "completed")
  BY TimesIsRecursive DEF Times
<1> HIDE DEF T
<1>2. /\ T(1) = Update(T(0), "completed") /\ T(2) = Update(T(1), "completed") /\ T(3) = Update(T(2), "completed")
      /\ T(4) = Update(T(3), "completed") /\ T(5) = Update(T(4), "completed") /\ T(6) = Update(T(5), "completed")
  BY <1>1
<1>3. T(0) \in OneSession /\ T(1) \in OneSession /\ T(2) \in OneSession /\ T(3) \in OneSession
      /\ T(4) \in OneSession /\ T(5) \in OneSession /\ T(6) \in OneSession
  BY <1>1, <1>2, UpdateShows
<1>4. \A n \in 0..6 : T(n) \in OneSession /\ T(n).status = x.status
  <2>1. T(0).status = x.status /\ T(1).status = x.status /\ T(2).status = x.status /\ T(3).status = x.status
        /\ T(4).status = x.status /\ T(5).status = x.status /\ T(6).status = x.status
    BY <1>1, <1>2, <1>3, UpdateShows
  <2> QED BY <1>3, <2>1
<1>5. ASSUME NEW z \in OneSession
      PROVE  /\ Begun(z, 1) => Begun(Update(z, "completed"), 2)
             /\ Begun(z, 2) => Begun(Update(z, "completed"), 3)
             /\ Begun(z, 3) => Begun(Update(z, "completed"), 4)
             /\ Begun(z, 4) => Begun(Update(z, "completed"), 5)
             /\ Begun(z, 5) => Begun(Update(z, "completed"), 6)
             /\ Begun(z, 6) \/ AllDone(z) => AllDone(Update(z, "completed"))
  <2>1. \A c \in 1..5 : Begun(z, c) => Begun(Update(z, "completed"), c + 1)
    BY UpdateShows
  <2>2. Begun(z, 6) \/ AllDone(z) => AllDone(Update(z, "completed"))
    BY UpdateShows DEF Last
  <2>3. /\ Begun(z, 1) => Begun(Update(z, "completed"), 1 + 1)
        /\ Begun(z, 2) => Begun(Update(z, "completed"), 2 + 1)
        /\ Begun(z, 3) => Begun(Update(z, "completed"), 3 + 1)
        /\ Begun(z, 4) => Begun(Update(z, "completed"), 4 + 1)
        /\ Begun(z, 5) => Begun(Update(z, "completed"), 5 + 1)
    BY <2>1
  <2> QED BY <2>2, <2>3
<1>6. Begun(x, 1) => /\ Begun(T(1), 2) /\ Begun(T(2), 3) /\ Begun(T(3), 4)
                     /\ Begun(T(4), 5) /\ Begun(T(5), 6) /\ AllDone(T(6))
  BY <1>1, <1>2, <1>3, <1>5
<1>7. Begun(x, 4) => AllDone(T(3))
  BY <1>1, <1>2, <1>3, <1>5
<1>8. \A n \in 0..6 : Updated(x, n) = T(n)
  BY UpdatedIsTimes DEF T
<1> QED BY <1>1, <1>4, <1>6, <1>7, <1>8 DEF Files, Push, Pull, Merge, Boot, GitSteps, Last

-----------------------------------------------------------------------------
(* The inductive invariant.  Where its worker is fixes what a session shows: *)
(* the step it is at, that everything before is done and nothing after it    *)
(* begun, and the status that it may have; a worker that is gone has left a  *)
(* session behind that has ended.  And the worker's place says what has been *)
(* found or done in the world.                                               *)

Places == {"none", "start", "probe", "seed", "merge", "wait",
           "poll", "gaveUp", "fail", "resume", "boot", "sync", "done"}

Fits(x, at) ==
    /\ at = "none" => x.status \in {"none", "lost"}
    /\ at = "start" => x.status \in {"pending", "cancelled"} /\ Untouched(x)
    /\ at \in {"probe", "seed"} => x.status \in {"running", "cancelled"} /\ Begun(x, Files)
    /\ at = "merge" => x.status \in {"running", "cancelled"} /\ Begun(x, Merge)
    /\ at \in {"wait", "poll", "gaveUp", "fail", "resume"} =>
          x.status \in {"waiting", "cancelled"} /\ Begun(x, Merge)
    /\ at = "boot" => x.status \in {"running", "cancelled"} /\ Begun(x, Boot)
    /\ at = "sync" => x.status \in {"running", "cancelled"} /\ Begun(x, Sync)
    /\ at = "done" => /\ x.status \in Ended
                      /\ x.status = "completed" => AllDone(x)
                      /\ x.status = "failed" => Broken(x)

Found(x, at, boot, m, a) ==
    /\ at \in {"resume", "boot", "sync"} => m # "empty"
    /\ at = "sync" => a # "absent"
    /\ x.status = "completed" => m # "empty" /\ (boot => a # "absent")

IInv ==
    /\ TypeOK
    /\ \A s \in Session : /\ Fits(session[s], worker[s].at)
                          /\ Found(session[s], worker[s].at, worker[s].boot, main, app)

LEMMA InvInit == Init => IInv
<1> SUFFICES ASSUME Init PROVE IInv
  OBVIOUS
<1>1. TypeOK
  <2>1. New("none") \in OneSession
    BY NewShows DEF Statuses
  <2> QED BY <2>1, InitConstants DEF Init, TypeOK, OneSession, Worker, NoWorker
<1>2. ASSUME NEW s \in Session
      PROVE  /\ Fits(session[s], worker[s].at)
             /\ Found(session[s], worker[s].at, worker[s].boot, main, app)
  BY <1>2 DEF Init, Fits, Found, New, NoWorker
<1> QED BY <1>1, <1>2 DEF IInv

\* What a step may do to everything but the sessions and their workers: the
\* repository is not emptied and the application not removed.
Around ==
    /\ handler' \in [Client -> {"idle", "running", "create"}]
    /\ pull' \in [Session -> {"none", "open", "settled"}]
    /\ main' \in {"empty", "v3", "v4"} /\ app' \in {"absent", "degraded", "healthy"}
    /\ faults' \in 0..MaxFaults /\ restarts' \in 0..MaxRestarts
    /\ main # "empty" => main' # "empty"
    /\ app # "absent" => app' # "absent"

\* Sessions and workers in the words of their types.
LEMMA Parts ==
    ASSUME TypeOK, NEW s \in Session
    PROVE  /\ session[s] \in OneSession /\ worker[s] \in Worker
           /\ worker[s].at \in Places /\ worker[s].boot \in BOOLEAN
BY DEF TypeOK, OneSession, Worker, Places

\* A step of one worker keeps the invariant when what it leaves fits.
LEMMA Arrives ==
    ASSUME IInv, Around, NEW s \in Session, NEW at \in Places, NEW y \in OneSession,
           Goto(s, at), Write(s, y),
           Fits(y, at), Found(y, at, worker[s].boot, main', app')
    PROVE  IInv'
<1> DEFINE w == IF at = "done" THEN [worker[s] EXCEPT !.at = at, !.auto = FALSE, !.expired = FALSE]
                               ELSE [worker[s] EXCEPT !.at = at]
<1>1. w \in Worker /\ w.at = at /\ w.boot = worker[s].boot
  BY Parts DEF IInv, Worker, Places
<1>2. worker' = [worker EXCEPT ![s] = w]
  BY DEF Goto
<1> HIDE DEF w
<1>3. TypeOK'
  BY <1>1, <1>2 DEF IInv, TypeOK, Around, Write, OneSession
<1>4. ASSUME NEW t \in Session
      PROVE  /\ Fits(session'[t], worker'[t].at)
             /\ Found(session'[t], worker'[t].at, worker'[t].boot, main', app')
  <2>1. CASE t = s
    <3>1. session'[t] = y /\ worker'[t] = w
      BY <1>2, <2>1 DEF Write, IInv, TypeOK
    <3> QED BY <1>1, <3>1
  <2>2. CASE t # s
    <3>1. session'[t] = session[t] /\ worker'[t] = worker[t]
      BY <1>2, <2>2 DEF Write, IInv, TypeOK
    <3> QED BY <3>1 DEF IInv, Around, Found
  <2> QED BY <2>1, <2>2
<1> QED BY <1>3, <1>4 DEF IInv

\* The same for a step that leaves the session as it is.
LEMMA Goes ==
    ASSUME IInv, Around, NEW s \in Session, NEW at \in Places,
           Goto(s, at), UNCHANGED session,
           Fits(session[s], at), Found(session[s], at, worker[s].boot, main', app')
    PROVE  IInv'
<1>1. session[s] \in OneSession
  BY Parts DEF IInv
<1>2. Write(s, session[s])
  BY DEF Write, IInv, TypeOK
<1> QED BY <1>1, <1>2, Arrives

LEMMA StaysAround ==
    ASSUME IInv, UNCHANGED <<session, worker>>, Around
    PROVE  IInv'
<1>1. TypeOK'
  BY DEF IInv, TypeOK, Around
<1>2. ASSUME NEW s \in Session
      PROVE  /\ Fits(session'[s], worker'[s].at)
             /\ Found(session'[s], worker'[s].at, worker'[s].boot, main', app')
  BY DEF IInv, Around, Found
<1> QED BY <1>1, <1>2 DEF IInv

-----------------------------------------------------------------------------
(* Every step keeps it *)

\* The end of a session and its worker fits every time.
LEMMA FailedEnds ==
    ASSUME NEW y \in OneSession, y.status = "failed", Broken(y), NEW boot, NEW m, NEW a
    PROVE  Fits(y, "done") /\ Found(y, "done", boot, m, a)
BY DEF Fits, Found, Ended

LEMMA CompletedEnds ==
    ASSUME NEW x \in OneSession, AllDone(x), NEW boot, NEW m, NEW a,
           m # "empty", boot => a # "absent"
    PROVE  LET y == Become(x, "completed") IN
           y \in OneSession /\ Fits(y, "done") /\ Found(y, "done", boot, m, a)
<1>1. "completed" \in Statuses
  BY DEF Statuses, Ended
<1> DEFINE y == Become(x, "completed")
<1>2. /\ y \in OneSession /\ y.status = "completed"
      /\ y.steps = x.steps /\ y.current = x.current
  BY <1>1, BecomeShows
<1> HIDE DEF y
<1>3. AllDone(y)
  BY <1>2 DEF AllDone
<1>4. Fits(y, "done") /\ Found(y, "done", boot, m, a)
  BY <1>2, <1>3 DEF Fits, Found, Ended
<1> QED BY <1>2, <1>4 DEF y

LEMMA FailsKeeps ==
    ASSUME IInv, NEW s \in Session, NEW x \in OneSession, NEW c \in Step, Begun(x, c),
           Fails(s, x), faults' \in 0..MaxFaults
    PROVE  IInv'
<1> DEFINE y == Failed(Update(x, "failed"))
<1>1. y \in OneSession /\ y.status = "failed" /\ Broken(y)
  BY FailedShows
<1>2. Around
  BY DEF Fails, Around, IInv, TypeOK, world
<1>3. Write(s, y) /\ Goto(s, "done") /\ "done" \in Places
  BY DEF Fails, Places
<1> HIDE DEF y
<1>4. Fits(y, "done") /\ Found(y, "done", worker[s].boot, main', app')
  BY <1>1, FailedEnds
<1> QED BY <1>1, <1>2, <1>3, <1>4, Arrives

\* What the invariant says of a session and its worker before the step.
LEMMA Here ==
    ASSUME IInv, NEW s \in Session
    PROVE  /\ TypeOK /\ session[s] \in OneSession /\ worker[s].boot \in BOOLEAN
           /\ Fits(session[s], worker[s].at)
           /\ Found(session[s], worker[s].at, worker[s].boot, main, app)
BY Parts DEF IInv

LEMMA StartKeeps ==
    ASSUME IInv, NEW s \in Session, Start(s) PROVE IInv'
<1> DEFINE y == Started(session[s])
<1>1. session[s] \in OneSession /\ Untouched(session[s])
  BY Here DEF Start, Works, Fits
<1>2. y \in OneSession /\ y.status = "running" /\ Begun(y, Files)
  BY <1>1, StartedShows
<1>3. Around /\ Write(s, y) /\ Goto(s, "probe") /\ "probe" \in Places
  BY Here DEF Start, Around, TypeOK, world, Idle, Places
<1> HIDE DEF y
<1>4. Fits(y, "probe") /\ Found(y, "probe", worker[s].boot, main', app')
  BY <1>2 DEF Fits, Found
<1> QED BY <1>2, <1>3, <1>4, Arrives

LEMMA CallFailsKeeps ==
    ASSUME IInv, NEW s \in Session, CallFails(s) PROVE IInv'
<1>1. faults' \in 0..MaxFaults
  BY Here, InitConstants DEF CallFails, Fault, TypeOK
<1>2. PICK n \in {0, Files, Push} :
          (n # 0 => worker[s].at = "seed") /\ Fails(s, Updated(session[s], n))
  BY DEF CallFails, Works
<1>3. session[s] \in OneSession /\ n \in 0..6
  BY Here DEF Files, Push
<1>4. Updated(session[s], n) \in OneSession
  BY <1>3, UpdatedShows
<1>5. \E c \in Step : Begun(Updated(session[s], n), c)
  <2>1. CASE n = 0
    <3>1. Begun(session[s], Files) \/ Begun(session[s], Merge) \/ Begun(session[s], Boot)
      BY Here DEF CallFails, Fits
    <3> QED BY <1>3, <2>1, <3>1, UpdatedShows, StepNumbers
  <2>2. CASE n # 0
    <3>1. Begun(session[s], Files)
      BY <1>2, <2>2, Here DEF Fits
    <3> QED BY <1>2, <1>3, <2>2, <3>1, UpdatedShows, StepNumbers
  <2> QED BY <2>1, <2>2
<1> QED BY <1>1, <1>2, <1>4, <1>5, FailsKeeps

LEMMA ProbeKeeps ==
    ASSUME IInv, NEW s \in Session, Probe(s) PROVE IInv'
<1>1. /\ session[s] \in OneSession /\ worker[s].boot \in BOOLEAN
      /\ session[s].status \in {"running", "cancelled"} /\ Begun(session[s], Files)
  BY Here DEF Probe, Works, Fits
<1>2. Around /\ UNCHANGED <<main, app>>
  BY Here DEF Probe, Around, TypeOK, world, Idle, Does
<1>3. CASE Goto(s, "seed") /\ UNCHANGED session
  <2>1. Fits(session[s], "seed") /\ Found(session[s], "seed", worker[s].boot, main', app')
    BY <1>1 DEF Fits, Found
  <2> QED BY <1>2, <1>3, <2>1, Goes DEF Places
<1>4. CASE main # "empty" /\ app = "healthy" /\ Does(s, Become(Updated(session[s], Last), "completed"), "done")
  <2> DEFINE y == Become(Updated(session[s], Last), "completed")
  <2>1. Updated(session[s], Last) \in OneSession /\ AllDone(Updated(session[s], Last))
    BY <1>1, UpdatedShows DEF Last
  <2>2. y \in OneSession /\ Fits(y, "done") /\ Found(y, "done", worker[s].boot, main', app')
    BY <1>2, <1>4, <2>1, CompletedEnds
  <2>3. Write(s, y) /\ Goto(s, "done") /\ "done" \in Places
    BY <1>4 DEF Does, Places
  <2> HIDE DEF y
  <2> QED BY <1>2, <2>2, <2>3, Arrives
<1>5. CASE main # "empty" /\ Does(s, Updated(session[s], GitSteps), "boot")
  <2> DEFINE y == Updated(session[s], GitSteps)
  <2>1. y \in OneSession /\ y.status = session[s].status /\ Begun(y, Boot)
    BY <1>1, UpdatedShows DEF GitSteps
  <2>2. Write(s, y) /\ Goto(s, "boot") /\ "boot" \in Places
    BY <1>5 DEF Does, Places
  <2> HIDE DEF y
  <2>3. Fits(y, "boot") /\ Found(y, "boot", worker[s].boot, main', app')
    BY <1>1, <1>2, <1>5, <2>1 DEF Fits, Found
  <2> QED BY <1>2, <2>1, <2>2, <2>3, Arrives
<1>6. CASE Does(s, Failed(session[s]), "done")
  <2> DEFINE y == Failed(session[s])
  <2>1. y \in OneSession /\ y.status = "failed" /\ Broken(y)
    BY <1>1, FailedShows, StepNumbers
  <2>2. Write(s, y) /\ Goto(s, "done") /\ "done" \in Places
    BY <1>6 DEF Does, Places
  <2> HIDE DEF y
  <2> QED BY <1>2, <2>1, <2>2, FailedEnds, Arrives
<1> QED BY <1>3, <1>4, <1>5, <1>6 DEF Probe

LEMMA ProbeFailsKeeps ==
    ASSUME IInv, NEW s \in Session, ProbeFails(s) PROVE IInv'
<1>1. session[s] \in OneSession /\ session[s].status \in {"running", "cancelled"} /\ Begun(session[s], Files)
  BY Here DEF ProbeFails, Works, Fits
<1>2. Around
  BY Here, InitConstants DEF ProbeFails, Around, TypeOK, world, Fault
<1>3. CASE Goto(s, "seed") /\ UNCHANGED session
  <2>1. Fits(session[s], "seed") /\ Found(session[s], "seed", worker[s].boot, main', app')
    BY <1>1 DEF Fits, Found
  <2> QED BY <1>2, <1>3, <2>1, Goes DEF Places
<1>4. CASE Goto(s, "done") /\ Write(s, Failed(session[s]))
  <2> DEFINE y == Failed(session[s])
  <2>1. y \in OneSession /\ y.status = "failed" /\ Broken(y)
    BY <1>1, FailedShows, StepNumbers
  <2>2. Write(s, y) /\ Goto(s, "done") /\ "done" \in Places
    BY <1>4 DEF Places
  <2> HIDE DEF y
  <2> QED BY <1>2, <2>1, <2>2, FailedEnds, Arrives
<1> QED BY <1>3, <1>4 DEF ProbeFails

LEMMA SeedKeeps ==
    ASSUME IInv, NEW s \in Session, Seed(s) PROVE IInv'
<1> DEFINE x == Updated(session[s], Pull)
<1>1. session[s] \in OneSession /\ session[s].status \in {"running", "cancelled"} /\ Begun(session[s], Files)
  BY Here DEF Seed, Works, Fits
<1>2. x \in OneSession /\ x.status = session[s].status /\ Begun(x, Merge)
  BY <1>1, UpdatedShows DEF Pull
<1>3. Around
  BY Here DEF Seed, Around, TypeOK, Idle, Does
<1>4. (Does(s, x, "merge") \/ Does(s, Become(x, "waiting"), "wait"))
  BY DEF Seed
<1> HIDE DEF x
<1>5. CASE Does(s, x, "merge")
  <2>1. Fits(x, "merge") /\ Found(x, "merge", worker[s].boot, main', app')
    BY <1>1, <1>2 DEF Fits, Found
  <2> QED BY <1>2, <1>3, <1>5, <2>1, Arrives DEF Does, Places
<1>6. CASE Does(s, Become(x, "waiting"), "wait")
  <2> DEFINE y == Become(x, "waiting")
  <2>1. y \in OneSession /\ y.status = "waiting" /\ y.steps = x.steps /\ y.current = x.current
    BY <1>2, BecomeShows DEF Statuses, Live
  <2> HIDE DEF y
  <2>2. Begun(y, Merge)
    BY <1>2, <2>1 DEF Begun
  <2>3. Fits(y, "wait") /\ Found(y, "wait", worker[s].boot, main', app')
    BY <2>1, <2>2 DEF Fits, Found
  <2>4. Write(s, y) /\ Goto(s, "wait") /\ "wait" \in Places
    BY <1>6 DEF Does, Places, y
  <2> QED BY <1>3, <2>1, <2>3, <2>4, Arrives
<1> QED BY <1>4, <1>5, <1>6

\* With the pin on the base branch the worker goes on to the bootstrap, or ends.
LEMMA AfterMergeKeeps ==
    ASSUME IInv, Around, NEW s \in Session, NEW x \in OneSession,
           x.status \in {"running", "cancelled"}, Begun(x, Merge),
           AfterMerge(s, x), main' # "empty"
    PROVE  IInv'
<1>1. CASE worker[s].boot
  <2> DEFINE y == Update(x, "completed")
  <2>1. y \in OneSession /\ y.status = x.status
    BY UpdateShows
  <2>2. Begun(x, Merge) => Begun(y, Merge + 1)
    BY UpdateShows DEF Merge
  <2>3. Write(s, y) /\ Goto(s, "boot") /\ "boot" \in Places
    BY <1>1 DEF AfterMerge, Places
  <2> HIDE DEF y
  <2>4. Fits(y, "boot") /\ Found(y, "boot", worker[s].boot, main', app')
    BY <2>1, <2>2 DEF Fits, Found, Merge, Boot
  <2> QED BY <2>1, <2>3, <2>4, Arrives
<1>2. CASE ~worker[s].boot
  <2> DEFINE z == Updated(x, Last - Merge + 1)
             y == Become(z, "completed")
  <2>1. z \in OneSession /\ AllDone(z)
    BY UpdatedShows DEF Last, Merge
  <2>2. y \in OneSession /\ Fits(y, "done") /\ Found(y, "done", worker[s].boot, main', app')
    BY <1>2, <2>1, CompletedEnds
  <2>3. Write(s, y) /\ Goto(s, "done") /\ "done" \in Places
    BY <1>2 DEF AfterMerge, Places
  <2> HIDE DEF y
  <2> QED BY <2>2, <2>3, Arrives
<1> QED BY <1>1, <1>2

LEMMA AutoMergeKeeps ==
    ASSUME IInv, NEW s \in Session, AutoMerge(s) PROVE IInv'
<1>1. /\ session[s] \in OneSession /\ session[s].status \in {"running", "cancelled"}
      /\ Begun(session[s], Merge)
  BY Here DEF AutoMerge, Works, Fits
<1>2. Around /\ main' # "empty" /\ AfterMerge(s, session[s])
  BY Here DEF AutoMerge, Merges, AfterMerge, Around, TypeOK, Idle
<1> QED BY <1>1, <1>2, AfterMergeKeeps

LEMMA ResumeKeeps ==
    ASSUME IInv, NEW s \in Session, Resume(s) PROVE IInv'
<1> DEFINE y == Become(session[s], "running")
<1>1. session[s] \in OneSession /\ Begun(session[s], Merge) /\ main # "empty"
  BY Here DEF Resume, Works, Fits, Found
<1>2. y \in OneSession /\ y.status = "running" /\ y.steps = session[s].steps /\ y.current = session[s].current
  BY <1>1, BecomeShows DEF Statuses, Live
<1>3. Around /\ main' # "empty" /\ AfterMerge(s, y)
  BY <1>1, Here DEF Resume, AfterMerge, Around, TypeOK, Idle, world
<1> HIDE DEF y
<1>4. Begun(y, Merge)
  BY <1>1, <1>2 DEF Begun
<1> QED BY <1>2, <1>3, <1>4, AfterMergeKeeps

LEMMA MergeRefusedKeeps ==
    ASSUME IInv, NEW s \in Session, MergeRefused(s) PROVE IInv'
<1>1. session[s] \in OneSession /\ Begun(session[s], Merge)
  BY Here DEF MergeRefused, Works, Fits
<1>2. Fails(s, session[s]) /\ faults' \in 0..MaxFaults
  BY Here DEF MergeRefused, TypeOK
<1> QED BY <1>1, <1>2, StepNumbers, FailsKeeps

\* The steps of the wait that only move the worker.
LEMMA WaitKeeps ==
    ASSUME IInv, NEW s \in Session,
           FirstLook(s) \/ Tick(s) \/ ContextDone(s) \/ GaveUp(s) \/ Abandoned(s)
    PROVE  IInv'
<1>1. /\ session[s].status \in {"waiting", "cancelled"} /\ Begun(session[s], Merge)
  BY Here DEF FirstLook, Tick, ContextDone, GaveUp, Abandoned, Works, Fits
<1>2. Around /\ UNCHANGED <<session, main, app>>
  BY Here DEF FirstLook, Tick, ContextDone, GaveUp, Abandoned, Around, TypeOK, world, Idle
<1>3. \/ Goto(s, "poll") \/ Goto(s, "gaveUp") \/ Goto(s, "fail")
      \/ Goto(s, "resume") /\ main = "v4"
      \/ Goto(s, "done") /\ session[s].status = "cancelled"
  BY DEF FirstLook, Tick, ContextDone, GaveUp, Abandoned, IsMerged, WasCancelled
<1>4. ASSUME NEW at \in {"poll", "gaveUp", "fail", "resume"}, at = "resume" => main = "v4"
      PROVE  Fits(session[s], at) /\ Found(session[s], at, worker[s].boot, main', app')
  BY <1>1, <1>2, <1>4 DEF Fits, Found
<1>5. session[s].status = "cancelled" =>
          Fits(session[s], "done") /\ Found(session[s], "done", worker[s].boot, main', app')
  BY DEF Fits, Found, Ended
<1> QED BY <1>2, <1>3, <1>4, <1>5, Goes DEF Places

LEMMA FailKeeps ==
    ASSUME IInv, NEW s \in Session, Fail(s) PROVE IInv'
<1> DEFINE y == Failed(session[s])
<1>1. session[s] \in OneSession /\ Begun(session[s], Merge)
  BY Here DEF Fail, Works, Fits
<1>2. Around /\ Write(s, y) /\ Goto(s, "done") /\ "done" \in Places
  BY Here DEF Fail, Around, TypeOK, world, Idle, Places
<1>3. y \in OneSession /\ y.status = "failed" /\ Broken(y)
  BY <1>1, FailedShows, StepNumbers
<1> HIDE DEF y
<1> QED BY <1>2, <1>3, FailedEnds, Arrives

LEMMA BootstrapKeeps ==
    ASSUME IInv, NEW s \in Session, Bootstrap(s) PROVE IInv'
<1> DEFINE y == Update(session[s], "completed")
<1>1. /\ session[s] \in OneSession /\ session[s].status \in {"running", "cancelled"}
      /\ Begun(session[s], Boot)
  BY Here DEF Bootstrap, Works, Fits
<1>2. y \in OneSession /\ y.status = session[s].status
  BY <1>1, UpdateShows
<1>3. Begun(session[s], Boot) => Begun(y, Boot + 1)
  BY <1>1, UpdateShows DEF Boot
<1>4. Around /\ Write(s, y) /\ Goto(s, "sync") /\ "sync" \in Places
  BY Here DEF Bootstrap, Does, Around, TypeOK, Idle, Places
<1>5. main' # "empty" /\ app' # "absent"
  BY DEF Bootstrap
<1> HIDE DEF y
<1>6. Fits(y, "sync") /\ Found(y, "sync", worker[s].boot, main', app')
  BY <1>1, <1>2, <1>3, <1>5 DEF Fits, Found, Boot, Sync
<1> QED BY <1>2, <1>4, <1>6, Arrives

LEMMA NoPinKeeps ==
    ASSUME IInv, NEW s \in Session, NoPin(s) PROVE IInv'
<1>1. session[s] \in OneSession /\ Begun(session[s], Boot)
  BY Here DEF NoPin, Works, Fits
<1>2. Fails(s, session[s]) /\ faults' \in 0..MaxFaults
  BY Here DEF NoPin, TypeOK
<1> QED BY <1>1, <1>2, StepNumbers, FailsKeeps

LEMMA SeesSyncKeeps ==
    ASSUME IInv, NEW s \in Session, SeesSync(s) PROVE IInv'
<1> DEFINE x == Update(session[s], "completed")
           y == Become(x, "completed")
<1>1. session[s] \in OneSession /\ Begun(session[s], Sync) /\ main # "empty"
  BY Here DEF SeesSync, Works, Fits, Found
<1>2. x \in OneSession /\ AllDone(x)
  BY <1>1, UpdateShows DEF Sync, Last
<1>3. Around /\ Write(s, y) /\ Goto(s, "done") /\ "done" \in Places
  BY Here DEF SeesSync, Does, Around, TypeOK, Idle, Places, world
<1>4. main' # "empty" /\ app' # "absent"
  BY <1>1 DEF SeesSync, world
<1>5. y \in OneSession /\ Fits(y, "done") /\ Found(y, "done", worker[s].boot, main', app')
  BY <1>2, <1>4, CompletedEnds
<1> HIDE DEF y
<1> QED BY <1>3, <1>5, Arrives

LEMMA NoSyncKeeps ==
    ASSUME IInv, NEW s \in Session, NoSync(s) PROVE IInv'
<1>1. session[s] \in OneSession /\ Begun(session[s], Sync)
  BY Here DEF NoSync, Works, Fits
<1>2. Fails(s, session[s]) /\ faults' \in 0..MaxFaults
  BY Here DEF NoSync, TypeOK
<1> QED BY <1>1, <1>2, StepNumbers, FailsKeeps

-----------------------------------------------------------------------------
(* Clients, people, ArgoCD, the clock and the process *)

LEMMA CreateKeeps ==
    ASSUME IInv, NEW c \in Client, Create(c) PROVE IInv'
<1> DEFINE y == New("pending")
<1>1. PICK s \in Session, auto \in BOOLEAN, boot \in BOOLEAN :
          /\ Write(s, y)
          /\ worker' = [worker EXCEPT ![s] = [at |-> "start", auto |-> auto, boot |-> boot, expired |-> FALSE]]
  BY DEF Create
<1>2. Around
  BY Here DEF IInv, Create, Around, TypeOK, world, Idle
<1>3. y \in OneSession /\ y.status = "pending" /\ Untouched(y)
  BY NewShows DEF Statuses, Live
<1> HIDE DEF y
<1>4. TypeOK'
  BY <1>1, <1>2, <1>3 DEF IInv, TypeOK, Around, Write, OneSession, Worker
<1>5. ASSUME NEW t \in Session
      PROVE  /\ Fits(session'[t], worker'[t].at)
             /\ Found(session'[t], worker'[t].at, worker'[t].boot, main', app')
  <2>1. CASE t = s
    <3>1. session'[t] = y /\ worker'[t].at = "start"
      BY <1>1, <2>1 DEF Write, IInv, TypeOK
    <3> QED BY <1>3, <3>1 DEF Fits, Found
  <2>2. CASE t # s
    <3>1. session'[t] = session[t] /\ worker'[t] = worker[t]
      BY <1>1, <2>2 DEF Write, IInv, TypeOK
    <3> QED BY <1>2, <3>1 DEF IInv, Around, Found
  <2> QED BY <2>1, <2>2
<1> QED BY <1>4, <1>5 DEF IInv

LEMMA CancelKeeps ==
    ASSUME IInv, NEW s \in Session, Cancel(s) PROVE IInv'
<1> DEFINE y == Become(session[s], "cancelled")
<1>1. session[s] \in OneSession /\ session[s].status \notin {"none", "lost"}
      /\ Fits(session[s], worker[s].at) /\ Found(session[s], worker[s].at, worker[s].boot, main, app)
  BY Here DEF Cancel
<1>2. y \in OneSession /\ y.status = "cancelled" /\ y.steps = session[s].steps /\ y.current = session[s].current
  BY <1>1, BecomeShows DEF Statuses, Ended
<1>3. Write(s, y) /\ UNCHANGED <<worker, handler, pull, main, app, faults, restarts>>
  BY DEF Cancel, world, Idle
<1> HIDE DEF y
<1>4. TypeOK'
  BY <1>2, <1>3 DEF IInv, TypeOK, Write, OneSession
<1>5. Fits(y, worker[s].at) /\ Found(y, worker[s].at, worker[s].boot, main, app)
  BY <1>1, <1>2 DEF Fits, Found, Untouched, Begun, Ended
<1>6. ASSUME NEW t \in Session
      PROVE  /\ Fits(session'[t], worker'[t].at)
             /\ Found(session'[t], worker'[t].at, worker'[t].boot, main', app')
  <2>1. session'[t] = IF t = s THEN y ELSE session[t]
    BY <1>3 DEF Write, IInv, TypeOK
  <2> QED BY <1>3, <1>5, <2>1 DEF IInv
<1> QED BY <1>4, <1>6 DEF IInv

LEMMA OutsideKeeps ==
    ASSUME IInv,
           \/ \E c \in Client : FindWaiting(c) \/ FindRunning(c)
           \/ \E s \in Session : PersonMerges(s) \/ PersonCloses(s)
           \/ AppMoves
    PROVE  IInv'
<1>1. TypeOK
  BY DEF IInv
<1>2. CASE \E c \in Client : FindWaiting(c) \/ FindRunning(c)
  <2>1. Around /\ UNCHANGED <<session, worker>>
    BY <1>1, <1>2 DEF FindWaiting, FindRunning, Around, TypeOK, world, Idle
  <2> QED BY <2>1, StaysAround
<1>3. CASE \E s \in Session : PersonMerges(s) \/ PersonCloses(s)
  <2>1. Around /\ UNCHANGED <<session, worker>>
    BY <1>1, <1>3 DEF PersonMerges, PersonCloses, Merges, Around, TypeOK, Idle
  <2> QED BY <2>1, StaysAround
<1>4. CASE AppMoves
  <2>1. Around /\ UNCHANGED <<session, worker>>
    BY <1>1, <1>4 DEF AppMoves, Around, TypeOK, Idle
  <2> QED BY <2>1, StaysAround
<1> QED BY <1>2, <1>3, <1>4

LEMMA ExpireKeeps ==
    ASSUME IInv, NEW s \in Session, Expire(s) PROVE IInv'
<1>1. TypeOK'
  BY DEF IInv, TypeOK, Expire, world, Idle, Worker
<1>2. ASSUME NEW t \in Session PROVE worker'[t].at = worker[t].at /\ worker'[t].boot = worker[t].boot
  BY DEF IInv, TypeOK, Expire, Worker
<1> QED BY <1>1, <1>2 DEF IInv, Expire, world

LEMMA RestartKeeps ==
    ASSUME IInv, Restart PROVE IInv'
<1>1. New("lost") \in OneSession /\ New("lost").status = "lost"
  BY NewShows DEF Statuses
<1>2. ASSUME NEW s \in Session
      PROVE  /\ session'[s] \in OneSession /\ session'[s].status \in {"none", "lost"}
             /\ worker'[s] = NoWorker
  BY <1>1, Here DEF Restart
<1>3. NoWorker \in Worker /\ NoWorker.at = "none"
  BY DEF NoWorker, Worker
<1>4. session' \in [Session -> OneSession] /\ worker' \in [Session -> Worker]
  BY <1>2, <1>3 DEF Restart
<1>5. TypeOK'
  BY <1>4, InitConstants DEF IInv, TypeOK, Restart, world, OneSession
<1>6. ASSUME NEW s \in Session
      PROVE  /\ Fits(session'[s], worker'[s].at)
             /\ Found(session'[s], worker'[s].at, worker'[s].boot, main', app')
  BY <1>2, <1>3 DEF Fits, Found
<1> QED BY <1>5, <1>6 DEF IInv

LEMMA InvStep == IInv /\ [Next]_vars => IInv'
<1> SUFFICES ASSUME IInv, [Next]_vars PROVE IInv'
  OBVIOUS
<1>1. CASE UNCHANGED vars
  BY <1>1 DEF IInv, TypeOK, vars
<1>2. CASE Clients
  BY <1>2, OutsideKeeps, CreateKeeps, CancelKeeps DEF Clients
<1>3. ASSUME NEW s \in Session, Seeds(s) PROVE IInv'
  BY <1>3, StartKeeps, ProbeKeeps, ProbeFailsKeeps, SeedKeeps, AutoMergeKeeps,
     MergeRefusedKeeps, CallFailsKeeps DEF Seeds
<1>4. ASSUME NEW s \in Session, Waits(s) PROVE IInv'
  BY <1>4, WaitKeeps, FailKeeps, ResumeKeeps DEF Waits
<1>5. ASSUME NEW s \in Session, Boots(s) PROVE IInv'
  BY <1>5, BootstrapKeeps, NoPinKeeps, SeesSyncKeeps, NoSyncKeeps DEF Boots
<1>6. CASE Others
  BY <1>6, OutsideKeeps, WaitKeeps, ExpireKeeps, RestartKeeps DEF Others
<1> QED BY <1>1, <1>2, <1>3, <1>4, <1>5, <1>6 DEF Next, Proceeds

LEMMA Invariance == Spec => []IInv
BY InvInit, InvStep, PTL DEF Spec

-----------------------------------------------------------------------------
(* The properties *)

\* Sessions, workers and the world stay in their types.
THEOREM TypeCorrect == Spec => []TypeOK
<1>1. IInv => TypeOK
  BY DEF IInv
<1> QED BY <1>1, Invariance, PTL

\* However many sessions run at once and whatever is cancelled, fails or is
\* merged by whom: the six steps of a session tell how it ended.
THEOREM OutcomeTold == Spec => []StepsTellTheOutcome
<1>1. IInv => StepsTellTheOutcome
  <2> SUFFICES ASSUME IInv, NEW s \in Session
               PROVE  /\ session[s].status = "completed" => AllDone(session[s])
                      /\ session[s].status = "failed" => Broken(session[s])
    BY DEF StepsTellTheOutcome, AllDone, Broken
  <2>1. Fits(session[s], worker[s].at) /\ worker[s].at \in Places
    BY Parts DEF IInv
  <2> QED BY <2>1 DEF Fits, Places
<1> QED BY <1>1, Invariance, PTL

\* A session that says it goes on has a worker that will end it, so no dead
\* session is handed to later requests for ever.
THEOREM NoneLeftForDead == Spec => []NoDeadSession
<1>1. IInv => NoDeadSession
  BY DEF IInv, NoDeadSession, Fits, Live, Ended
<1> QED BY <1>1, Invariance, PTL

\* Completed is true of the world: the repository is set up, and the bootstrap
\* application is there when the request asked for it.
THEOREM CompletedIsTrue == Spec => []CompletedMeansSetUp
<1>1. IInv => CompletedMeansSetUp
  BY DEF IInv, CompletedMeansSetUp, Found
<1> QED BY <1>1, Invariance, PTL
=============================================================================
