--------------------------- MODULE ConfigMapStore ---------------------------
(* The store that keeps the state of a component as JSON in one ConfigMap    *)
(* (internal/cmstore): a change reads the ConfigMap, modifies what it read   *)
(* and writes it back, in two calls to the API server.  A mutex serialises   *)
(* the callers of one process; two processes overlap while a new one takes   *)
(* over (the deployment rolls over with the old one still running).  Between *)
(* them stands only the resource version that the write carries.             *)
EXTENDS Naturals

CONSTANTS
    Process, Thread,
    Home,                   \* the process each thread runs in
    Data, Empty,
    Change, Modify,         \* the changes callers ask for: Modify[c][d]
    Refused,                \* a change returned an error instead of data
    Idle, Reading,
    NoMap, Unreadable,      \* no ConfigMap; one whose state is not JSON
    Nobody, People,
    MaxCalls, MaxFaults,    \* bound: calls; failing calls and restarts
    MaxHands                \* bound: edits by people

ASSUME StoreConstants ==
    /\ Home \in [Thread -> Process]
    /\ Empty \in Data
    /\ Unreadable \notin Data /\ Refused \notin Data
    /\ Modify \in [Change -> [Data -> Data \cup {Refused}]]
    /\ Idle \notin Change /\ Reading \notin Change /\ Idle # Reading
    /\ Nobody \notin Thread /\ People \notin Process
    /\ MaxCalls \in Nat /\ MaxFaults \in Nat /\ MaxHands \in Nat

VARIABLES
    cm,        \* the ConfigMap: its resource version, its state, its last writer
    version,   \* the resource versions given out so far
    mutex,     \* who holds the mutex of each process
    call, result,
    at,        \* where each caller is
    seen, put, \* the version it read, 0 for none; what it will write
    calls, faults, hands

counts == <<calls, faults, hands>>
vars   == <<cm, version, mutex, call, result, at, seen, put, counts>>

ConfigMap == [version : Nat \ {0}, state : Data \cup {Unreadable}, by : Process \cup {People}]
ASSUME NoConfigMap == NoMap \notin ConfigMap

\* The state as ReadModifyWrite takes it.
View == IF cm = NoMap THEN Empty ELSE IF cm.state = Unreadable THEN Empty ELSE cm.state
Now  == IF cm = NoMap THEN 0 ELSE cm.version

TypeOK ==
    /\ cm \in ConfigMap \cup {NoMap}
    /\ version \in Nat
    /\ mutex \in [Process -> Thread \cup {Nobody}]
    /\ call \in [Thread -> Change \cup {Idle, Reading}]
    /\ result \in [Thread -> [said : {"nothing", "ok", "error"}, got : Data]]
    /\ at \in [Thread -> {"idle", "lock", "get", "write"}]
    /\ seen \in [Thread -> Nat]
    /\ put \in [Thread -> Data]
    /\ calls \in Nat /\ faults \in Nat /\ hands \in Nat

Init ==
    /\ cm \in {NoMap} \cup [version : {1}, state : {Empty, Unreadable}, by : {People}]
    /\ version = 1
    /\ mutex = [p \in Process |-> Nobody]
    /\ call = [t \in Thread |-> Idle]
    /\ result = [t \in Thread |-> [said |-> "nothing", got |-> Empty]]
    /\ at = [t \in Thread |-> "idle"]
    /\ seen = [t \in Thread |-> 0]
    /\ put = [t \in Thread |-> Empty]
    /\ calls = 0 /\ faults = 0 /\ hands = 0

To(t, where) == at' = [at EXCEPT ![t] = where]
Fault == faults < MaxFaults /\ faults' = faults + 1 /\ UNCHANGED <<calls, hands>>
Calm  == UNCHANGED counts

\* The call returns, the mutex is released.
Returns(t, said, d) ==
    /\ result' = [result EXCEPT ![t] = [said |-> said, got |-> d]]
    /\ call' = [call EXCEPT ![t] = Idle]
    /\ mutex' = [mutex EXCEPT ![Home[t]] = Nobody]
    /\ To(t, "idle")
    /\ UNCHANGED <<seen, put>>

-----------------------------------------------------------------------------
(* ReadModifyWrite and Read *)

Calls(t, c) ==
    /\ at[t] = "idle"
    /\ calls < MaxCalls
    /\ calls' = calls + 1
    /\ call' = [call EXCEPT ![t] = c]
    /\ To(t, "lock")
    /\ UNCHANGED <<cm, version, mutex, result, seen, put, faults, hands>>

NoMutex(t) == TRUE
Free(t)    == mutex[Home[t]] = Nobody
Lock(t) ==
    /\ at[t] = "lock"
    /\ Free(t)
    /\ mutex' = [mutex EXCEPT ![Home[t]] = t]
    /\ To(t, "get")
    /\ UNCHANGED <<cm, version, call, result, seen, put>> /\ Calm

\* Read returns the state, and an error when it is no JSON.
GetToRead(t) ==
    /\ at[t] = "get"
    /\ call[t] = Reading
    /\ IF cm # NoMap /\ cm.state = Unreadable
       THEN Returns(t, "error", Empty) ELSE Returns(t, "ok", View)
    /\ UNCHANGED <<cm, version>> /\ Calm

\* ReadModifyWrite takes one that is no JSON for an empty one, and modifies it.
IgnoresError(new) == FALSE
Rejected(new)     == new = Refused
GetToModify(t) ==
    /\ at[t] = "get"
    /\ call[t] \in Change
    /\ LET new == Modify[call[t]][View]
       IN  IF Rejected(new)
           THEN Returns(t, "error", Empty)
           ELSE /\ To(t, "write")
                /\ seen' = [seen EXCEPT ![t] = Now]
                /\ put' = [put EXCEPT ![t] = new]
                /\ UNCHANGED <<mutex, call, result>>
    /\ UNCHANGED <<cm, version>> /\ Calm

GetFails(t) ==
    /\ at[t] = "get"
    /\ Returns(t, "error", Empty)
    /\ UNCHANGED <<cm, version>> /\ Fault

\* Create fails where there is one by now, Update where it is not the one read.
AnyVersion(t) == TRUE
SameMap(t)    == seen[t] = Now

Stored(t) ==
    /\ at[t] = "write"
    /\ SameMap(t)
    /\ version' = version + 1
    /\ cm' = [version |-> version', state |-> put[t], by |-> Home[t]]

Write(t) == Stored(t) /\ Returns(t, "ok", Empty) /\ Calm

\* The write was done, its answer did not come back.
WriteUnheard(t) == Stored(t) /\ Returns(t, "error", Empty) /\ Fault

Conflict(t) ==
    /\ at[t] = "write"
    /\ ~SameMap(t)
    /\ Returns(t, "error", Empty)
    /\ UNCHANGED <<cm, version>> /\ Calm

WriteFails(t) ==
    /\ at[t] = "write"
    /\ Returns(t, "error", Empty)
    /\ UNCHANGED <<cm, version>> /\ Fault

-----------------------------------------------------------------------------
(* Restarts, and people with kubectl *)

Gone(p, f, x) == [t \in Thread |-> IF Home[t] = p THEN x ELSE f[t]]

Crash(p) ==
    /\ at' = Gone(p, at, "idle")
    /\ call' = Gone(p, call, Idle)
    /\ mutex' = [mutex EXCEPT ![p] = Nobody]
    /\ UNCHANGED <<cm, version, result, seen, put>> /\ Fault

Hand == hands < MaxHands /\ hands' = hands + 1 /\ UNCHANGED <<calls, faults>>

Edited ==
    /\ \E d \in Data \cup {Unreadable} :
          cm' = [version |-> version + 1, state |-> d, by |-> People]
    /\ version' = version + 1
    /\ UNCHANGED <<mutex, call, result, at, seen, put>> /\ Hand

Deleted ==
    /\ cm' = NoMap
    /\ UNCHANGED <<version, mutex, call, result, at, seen, put>> /\ Hand

Next ==
    \/ \E t \in Thread :
          \/ \E c \in Change \cup {Reading} : Calls(t, c)
          \/ Lock(t) \/ GetToRead(t) \/ GetToModify(t) \/ GetFails(t)
          \/ Write(t) \/ WriteUnheard(t) \/ Conflict(t) \/ WriteFails(t)
    \/ \E p \in Process : Crash(p)
    \/ Edited \/ Deleted

Spec == Init /\ [][Next]_vars

-----------------------------------------------------------------------------
(* Properties *)

\* Two callers of one process never meet: a write is refused only because
\* another process or people wrote since the ConfigMap was read.
OnlyOthersConflict ==
    \A t \in Thread : at[t] = "write" /\ cm # NoMap /\ ~SameMap(t) => cm.by # Home[t]

\* What the refinement rests on: whoever will be let write puts back what its
\* change makes of the very state that it replaces.
WritesWhatItRead ==
    \A t \in Thread : at[t] = "write" /\ SameMap(t) => put[t] = Modify[call[t]][View]

Atomic == INSTANCE AtomicStore WITH state <- View

\* The store implements AtomicStore: no change of one caller is lost to another
\* one's, in whatever process it runs and whoever fails, restarts or edits.
ImplementsAtomicStore == Atomic!Spec
=============================================================================
