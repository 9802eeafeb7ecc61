-------------------------- MODULE SavedState_proofs --------------------------
(* Theorems of the three modules about what is saved in ConfigMaps, which    *)
(* Saved_state checks together: ConfigMapStore, which implements AtomicStore,*)
(* ApiTokens, which keeps what it answers, and ConnectionBell, whose alerts  *)
(* are right and kept. They share no variable and no step, so each part      *)
(* below stands alone.                                                       *)
EXTENDS ConfigMapStore, ApiTokens, ConnectionBell, FiniteSetTheorems, TLAPS

-----------------------------------------------------------------------------
(* Part one: ConfigMapStore, for any number of processes and callers and any *)
(* changes: the properties its run checks, and that it implements            *)
(* AtomicStore.                                                              *)

-----------------------------------------------------------------------------
(* The ConfigMap in the words of the proofs *)

LEMMA ConfigMapParts ==
    ASSUME NEW m \in ConfigMap
    PROVE  m # NoMap /\ m.version \in Nat \ {0} /\ m.state \in Data \cup {Unreadable}
BY NoConfigMap DEF ConfigMap

LEMMA ViewIsData == TypeOK => View \in Data
BY StoreConstants, ConfigMapParts DEF TypeOK, View

LEMMA NowIsNat == TypeOK => Now \in Nat
BY ConfigMapParts DEF TypeOK, Now

\* What a successful write leaves behind.
LEMMA StoredMap ==
    ASSUME TypeOK, NEW t \in Thread, Stored(t)
    PROVE  /\ cm' \in ConfigMap /\ cm' # NoMap
           /\ cm'.version = version + 1 /\ cm'.state = put[t] /\ cm'.by = Home[t]
           /\ put[t] \in Data /\ put[t] # Unreadable /\ version + 1 \in Nat
<1>1. version + 1 \in Nat \ {0} /\ put[t] \in Data /\ Home[t] \in Process
  BY StoreConstants DEF TypeOK
<1>2. cm' = [version |-> version + 1, state |-> put[t], by |-> Home[t]]
  BY DEF Stored
<1>3. cm' \in ConfigMap
  BY <1>1, <1>2 DEF ConfigMap
<1> QED BY <1>1, <1>2, <1>3, NoConfigMap, StoreConstants

-----------------------------------------------------------------------------
(* Type correctness *)

LEMMA TypeReturns ==
    ASSUME TypeOK, NEW t \in Thread, NEW said \in {"nothing", "ok", "error"}, NEW d \in Data,
           Returns(t, said, d)
    PROVE  /\ mutex' \in [Process -> Thread \cup {Nobody}]
           /\ call' \in [Thread -> Change \cup {Idle, Reading}]
           /\ result' \in [Thread -> [said : {"nothing", "ok", "error"}, got : Data]]
           /\ at' \in [Thread -> {"idle", "lock", "get", "write"}]
           /\ seen' \in [Thread -> Nat] /\ put' \in [Thread -> Data]
BY StoreConstants DEF TypeOK, Returns, To

LEMMA TypeCounts ==
    /\ TypeOK /\ Fault => calls' \in Nat /\ faults' \in Nat /\ hands' \in Nat
    /\ TypeOK /\ Calm => calls' \in Nat /\ faults' \in Nat /\ hands' \in Nat
    /\ TypeOK /\ Hand => calls' \in Nat /\ faults' \in Nat /\ hands' \in Nat
BY DEF TypeOK, Fault, Calm, Hand, counts

LEMMA TypeStep == TypeOK /\ [Next]_vars => TypeOK'
<1> SUFFICES ASSUME TypeOK, [Next]_vars PROVE TypeOK'
  OBVIOUS
<1> USE StoreConstants
<1>0. CASE UNCHANGED vars
  BY <1>0 DEF TypeOK, vars, counts
<1>1. ASSUME NEW t \in Thread, NEW c \in Change \cup {Reading}, Calls(t, c) PROVE TypeOK'
  BY <1>1 DEF TypeOK, Calls, To
<1>2. ASSUME NEW t \in Thread, Lock(t) PROVE TypeOK'
  BY <1>2, TypeCounts DEF TypeOK, Lock, To
<1>3. ASSUME NEW t \in Thread, GetToRead(t) PROVE TypeOK'
  <2>1. View \in Data
    BY ViewIsData
  <2>2. Returns(t, "error", Empty) \/ Returns(t, "ok", View)
    BY <1>3 DEF GetToRead
  <2> QED BY <1>3, <2>1, <2>2, TypeReturns, TypeCounts DEF TypeOK, GetToRead
<1>4. ASSUME NEW t \in Thread, GetToModify(t) PROVE TypeOK'
  <2>1. View \in Data /\ Now \in Nat
    BY ViewIsData, NowIsNat
  <2>2. Modify[call[t]][View] \in Data \cup {Refused}
    BY <1>4, <2>1 DEF GetToModify
  <2>3. CASE Rejected(Modify[call[t]][View])
    <3>1. Returns(t, "error", Empty)
      BY <1>4, <2>3 DEF GetToModify
    <3> QED BY <1>4, <3>1, TypeReturns, TypeCounts DEF TypeOK, GetToModify
  <2>4. CASE ~Rejected(Modify[call[t]][View])
    <3>1. /\ To(t, "write")
          /\ seen' = [seen EXCEPT ![t] = Now]
          /\ put' = [put EXCEPT ![t] = Modify[call[t]][View]]
          /\ UNCHANGED <<mutex, call, result, cm, version>>
      BY <1>4, <2>4 DEF GetToModify
    <3>2. Modify[call[t]][View] \in Data
      BY <2>2, <2>4 DEF Rejected
    <3> QED BY <1>4, <2>1, <3>1, <3>2, TypeCounts DEF TypeOK, GetToModify, To
  <2> QED BY <2>3, <2>4
<1>5. ASSUME NEW t \in Thread, GetFails(t) PROVE TypeOK'
  BY <1>5, TypeReturns, TypeCounts DEF TypeOK, GetFails
<1>6. ASSUME NEW t \in Thread, Write(t) PROVE TypeOK'
  <2>1. Stored(t) /\ Returns(t, "ok", Empty) /\ Calm
    BY <1>6 DEF Write
  <2> QED BY <2>1, StoredMap, TypeReturns, TypeCounts DEF TypeOK, Stored
<1>7. ASSUME NEW t \in Thread, WriteUnheard(t) PROVE TypeOK'
  <2>1. Stored(t) /\ Returns(t, "error", Empty) /\ Fault
    BY <1>7 DEF WriteUnheard
  <2> QED BY <2>1, StoredMap, TypeReturns, TypeCounts DEF TypeOK, Stored
<1>8. ASSUME NEW t \in Thread, Conflict(t) PROVE TypeOK'
  BY <1>8, TypeReturns, TypeCounts DEF TypeOK, Conflict
<1>9. ASSUME NEW t \in Thread, WriteFails(t) PROVE TypeOK'
  BY <1>9, TypeReturns, TypeCounts DEF TypeOK, WriteFails
<1>10. ASSUME NEW p \in Process, Crash(p) PROVE TypeOK'
  BY <1>10, TypeCounts DEF TypeOK, Crash, Gone
<1>11. ASSUME Edited PROVE TypeOK'
  <2>1. PICK d \in Data \cup {Unreadable} :
            cm' = [version |-> version + 1, state |-> d, by |-> People]
    BY <1>11 DEF Edited
  <2>2. cm' \in ConfigMap
    BY <2>1 DEF TypeOK, ConfigMap
  <2> QED BY <1>11, <2>2, TypeCounts DEF TypeOK, Edited
<1>12. ASSUME Deleted PROVE TypeOK'
  BY <1>12, TypeCounts DEF TypeOK, Deleted
<1> QED BY <1>0, <1>1, <1>2, <1>3, <1>4, <1>5, <1>6, <1>7, <1>8, <1>9, <1>10, <1>11, <1>12 DEF Next

LEMMA TypeInit == Init => TypeOK
BY StoreConstants DEF Init, TypeOK, ConfigMap

\* Every value stays in its type, however many callers, processes and changes.
THEOREM TypeCorrect == Spec => []TypeOK
BY TypeInit, TypeStep, PTL DEF Spec

-----------------------------------------------------------------------------
(* The inductive invariant.  Who reads or writes holds the mutex of its      *)
(* process; what a caller saw is a version given out already; and if the     *)
(* ConfigMap still is the one it saw, what it will write is what its change  *)
(* makes of that state.  The last part is not inductive by itself: a         *)
(* ConfigMap that goes away looks to a caller that saw none as if nothing    *)
(* had happened, which is true only of the state, so that is a part too.     *)

HasMutex(t)  == at[t] \in {"get", "write"} => mutex[Home[t]] = t
Busy(t)   == /\ at[t] = "idle" <=> call[t] = Idle
             /\ at[t] = "write" => call[t] \in Change
Known(t)  == at[t] = "write" => seen[t] <= version
Fresh(t)  == at[t] = "write" /\ SameMap(t) => put[t] = Modify[call[t]][View]
Absent(t) == at[t] = "write" /\ seen[t] = 0 => put[t] = Modify[call[t]][Empty]
Others(t) == at[t] = "write" /\ cm # NoMap /\ ~SameMap(t) => cm.by # Home[t]
Given     == cm # NoMap => cm.version <= version

Parts(t) == HasMutex(t) /\ Busy(t) /\ Known(t) /\ Fresh(t) /\ Absent(t) /\ Others(t)
Inv == Given /\ \A t \in Thread : Parts(t)

LEMMA InvInit == Init => Inv
<1> SUFFICES ASSUME Init PROVE Inv
  OBVIOUS
<1>1. Given
  BY ConfigMapParts DEF Init, Given, ConfigMap
<1>2. ASSUME NEW t \in Thread PROVE Parts(t)
  BY <1>2 DEF Init, Parts, HasMutex, Busy, Known, Fresh, Absent, Others
<1> QED BY <1>1, <1>2 DEF Inv

\* A caller that stays where it was keeps its part while the ConfigMap and the
\* mutex of its process stay.
LEMMA StaysPut ==
    ASSUME TypeOK, NEW t \in Thread, Parts(t),
           at'[t] = at[t], call'[t] = call[t], seen'[t] = seen[t], put'[t] = put[t],
           UNCHANGED <<cm, version>>, at[t] \in {"get", "write"} => mutex'[Home[t]] = t
    PROVE  Parts(t)'
BY DEF Parts, HasMutex, Busy, Known, Fresh, Absent, Others, SameMap, Now, View

\* So does one whose process still holds its mutex when another one wrote.
LEMMA StaysBehind ==
    ASSUME TypeOK, Given, NEW t \in Thread, Parts(t),
           at'[t] = at[t], call'[t] = call[t], seen'[t] = seen[t], put'[t] = put[t],
           cm' \in ConfigMap, cm'.version = version + 1, version' = version + 1,
           at[t] = "write" => cm'.by # Home[t], mutex'[Home[t]] = mutex[Home[t]]
    PROVE  Parts(t)'
<1>1. seen[t] \in Nat /\ version \in Nat /\ cm' # NoMap
  BY NoConfigMap DEF TypeOK
<1>2. at[t] = "write" => ~SameMap(t)'
  BY <1>1 DEF Parts, Known, SameMap, Now
<1>3. HasMutex(t)' /\ Busy(t)'
  BY DEF Parts, HasMutex, Busy
<1>4. Known(t)' /\ Absent(t)'
  BY <1>1 DEF Parts, Known, Absent
<1>5. Fresh(t)' /\ Others(t)'
  BY <1>2 DEF Fresh, Others
<1> QED BY <1>3, <1>4, <1>5 DEF Parts

\* A caller whose call is over has nothing to keep.
LEMMA Rests ==
    ASSUME NEW t \in Thread, at'[t] = "idle", call'[t] = Idle
    PROVE  Parts(t)'
BY DEF Parts, HasMutex, Busy, Known, Fresh, Absent, Others

\* Another caller's answer changes nothing for this one.
LEMMA OthersReturn ==
    ASSUME TypeOK, NEW t \in Thread, NEW u \in Thread, u # t, NEW said, NEW d,
           Returns(t, said, d), at[t] \in {"get", "write"}, Inv
    PROVE  /\ at'[u] = at[u] /\ call'[u] = call[u] /\ seen'[u] = seen[u] /\ put'[u] = put[u]
           /\ at[u] \in {"get", "write"} =>
                 Home[u] # Home[t] /\ mutex'[Home[u]] = mutex[Home[u]] /\ mutex[Home[u]] = u
BY StoreConstants DEF TypeOK, Returns, To, Inv, Parts, HasMutex

LEMMA AnswerKeepsInv ==
    ASSUME TypeOK, Inv, NEW t \in Thread, NEW said, NEW d,
           Returns(t, said, d), at[t] \in {"get", "write"}, UNCHANGED <<cm, version>>
    PROVE  Inv'
<1>1. Given'
  BY DEF Inv, Given
<1>2. Parts(t)'
  BY Rests DEF Returns, To, TypeOK
<1>3. ASSUME NEW u \in Thread, u # t PROVE Parts(u)'
  <2>1. Parts(u)
    BY DEF Inv
  <2> QED BY <1>3, <2>1, OthersReturn, StaysPut
<1> QED BY <1>1, <1>2, <1>3 DEF Inv

LEMMA StoredKeepsInv ==
    ASSUME TypeOK, Inv, NEW t \in Thread, NEW said, NEW d, Stored(t), Returns(t, said, d)
    PROVE  Inv'
<1>1. /\ cm' \in ConfigMap /\ cm'.version = version + 1 /\ cm'.by = Home[t]
      /\ version' = version + 1 /\ at[t] = "write" /\ version + 1 \in Nat
  BY StoredMap DEF Stored
<1>2. Given'
  BY <1>1 DEF Given
<1>3. Parts(t)'
  BY Rests DEF Returns, To, TypeOK
<1>4. ASSUME NEW u \in Thread, u # t PROVE Parts(u)'
  <2>1. Parts(u) /\ Given
    BY DEF Inv
  <2>2. CASE at[u] \in {"get", "write"}
    BY <1>1, <1>4, <2>1, <2>2, OthersReturn, StaysBehind
  <2>3. CASE at[u] \notin {"get", "write"}
    <3>1. at'[u] = at[u] /\ call'[u] = call[u]
      BY <1>1, <1>4, OthersReturn
    <3> QED BY <2>1, <2>3, <3>1 DEF Parts, HasMutex, Busy, Known, Fresh, Absent, Others
  <2> QED BY <2>2, <2>3
<1> QED BY <1>2, <1>3, <1>4 DEF Inv

LEMMA InvStep == TypeOK /\ Inv /\ [Next]_vars => Inv'
<1> SUFFICES ASSUME TypeOK, Inv, [Next]_vars PROVE Inv'
  OBVIOUS
<1>0. CASE UNCHANGED vars
  BY <1>0 DEF vars, Inv, Given, Parts, HasMutex, Busy, Known, Fresh, Absent, Others, SameMap, Now, View
<1>1. ASSUME NEW t \in Thread, NEW c \in Change \cup {Reading}, Calls(t, c) PROVE Inv'
  <2>1. Given'
    BY <1>1 DEF Calls, Inv, Given
  <2>2. at'[t] = "lock" /\ call'[t] = c
    BY <1>1 DEF Calls, To, TypeOK
  <2>3. Parts(t)'
    BY <2>2, StoreConstants DEF Parts, HasMutex, Busy, Known, Fresh, Absent, Others
  <2>4. ASSUME NEW u \in Thread, u # t PROVE Parts(u)'
    <3>1. Parts(u)
      BY DEF Inv
    <3>2. /\ at'[u] = at[u] /\ call'[u] = call[u] /\ seen'[u] = seen[u] /\ put'[u] = put[u]
          /\ UNCHANGED <<cm, version>> /\ mutex'[Home[u]] = mutex[Home[u]]
      BY <1>1, <2>4 DEF Calls, To, TypeOK
    <3> QED BY <3>1, <3>2, StaysPut DEF Parts, HasMutex
  <2> QED BY <2>1, <2>3, <2>4 DEF Inv
<1>2. ASSUME NEW t \in Thread, Lock(t) PROVE Inv'
  <2>1. Given'
    BY <1>2 DEF Lock, Inv, Given
  <2>2. /\ at[t] = "lock" /\ at'[t] = "get" /\ call'[t] = call[t]
        /\ mutex'[Home[t]] = t /\ mutex[Home[t]] = Nobody
    BY <1>2, StoreConstants DEF Lock, Free, To, TypeOK
  <2>3. Parts(t)'
    BY <2>2 DEF Inv, Parts, HasMutex, Busy, Known, Fresh, Absent, Others
  <2>4. ASSUME NEW u \in Thread, u # t PROVE Parts(u)'
    <3>1. Parts(u)
      BY DEF Inv
    <3>2. /\ at'[u] = at[u] /\ call'[u] = call[u] /\ seen'[u] = seen[u] /\ put'[u] = put[u]
          /\ UNCHANGED <<cm, version>>
      BY <1>2, <2>4 DEF Lock, To, TypeOK
    <3>3. ASSUME at[u] \in {"get", "write"} PROVE mutex'[Home[u]] = u
      <4>1. mutex[Home[u]] = u /\ u # Nobody
        BY <3>1, <3>3, StoreConstants DEF Parts, HasMutex
      <4>2. Home[u] # Home[t]
        BY <2>2, <4>1
      <4> QED BY <1>2, <4>1, <4>2, StoreConstants DEF Lock, TypeOK
    <3> QED BY <3>1, <3>2, <3>3, StaysPut
  <2> QED BY <2>1, <2>3, <2>4 DEF Inv
<1>3. ASSUME NEW t \in Thread, GetToRead(t) PROVE Inv'
  BY <1>3, AnswerKeepsInv DEF GetToRead
<1>4. ASSUME NEW t \in Thread, GetToModify(t) PROVE Inv'
  <2>1. CASE Rejected(Modify[call[t]][View])
    BY <1>4, <2>1, AnswerKeepsInv DEF GetToModify
  <2>2. CASE ~Rejected(Modify[call[t]][View])
    <3>1. /\ at' = [at EXCEPT ![t] = "write"]
          /\ seen' = [seen EXCEPT ![t] = Now]
          /\ put' = [put EXCEPT ![t] = Modify[call[t]][View]]
          /\ UNCHANGED <<mutex, call, cm, version>>
          /\ at[t] = "get" /\ call[t] \in Change
      BY <1>4, <2>2 DEF GetToModify, To
    <3>2. Given'
      BY <3>1 DEF Inv, Given
    <3>3. /\ at'[t] = "write" /\ seen'[t] = Now /\ put'[t] = Modify[call[t]][View]
          /\ call'[t] = call[t] /\ Now' = Now /\ View' = View
      BY <3>1 DEF TypeOK, Now, View
    <3>4. HasMutex(t)' /\ Busy(t)'
      BY <3>1, <3>3 DEF Inv, Parts, HasMutex, Busy
    <3>5. Known(t)'
      <4>1. Now <= version
        BY DEF Inv, Given, Now, TypeOK
      <4> QED BY <3>1, <3>3, <4>1 DEF Known
    <3>6. Fresh(t)' /\ Others(t)'
      BY <3>3 DEF Fresh, Others, SameMap
    <3>7. Absent(t)'
      <4>1. Now = 0 => View = Empty
        BY ConfigMapParts DEF Now, View, TypeOK
      <4> QED BY <3>3, <4>1 DEF Absent
    <3>8. ASSUME NEW u \in Thread, u # t PROVE Parts(u)'
      <4>1. Parts(u)
        BY DEF Inv
      <4>2. /\ at'[u] = at[u] /\ call'[u] = call[u] /\ seen'[u] = seen[u] /\ put'[u] = put[u]
            /\ UNCHANGED <<cm, version>> /\ mutex'[Home[u]] = mutex[Home[u]]
        BY <3>1, <3>8 DEF TypeOK
      <4> QED BY <4>1, <4>2, StaysPut DEF Parts, HasMutex
    <3> QED BY <3>2, <3>4, <3>5, <3>6, <3>7, <3>8 DEF Inv, Parts
  <2> QED BY <2>1, <2>2
<1>5. ASSUME NEW t \in Thread, GetFails(t) PROVE Inv'
  BY <1>5, AnswerKeepsInv DEF GetFails
<1>6. ASSUME NEW t \in Thread, Write(t) PROVE Inv'
  BY <1>6, StoredKeepsInv DEF Write
<1>7. ASSUME NEW t \in Thread, WriteUnheard(t) PROVE Inv'
  BY <1>7, StoredKeepsInv DEF WriteUnheard
<1>8. ASSUME NEW t \in Thread, Conflict(t) PROVE Inv'
  BY <1>8, AnswerKeepsInv DEF Conflict
<1>9. ASSUME NEW t \in Thread, WriteFails(t) PROVE Inv'
  BY <1>9, AnswerKeepsInv DEF WriteFails
<1>10. ASSUME NEW p \in Process, Crash(p) PROVE Inv'
  <2>1. Given'
    BY <1>10 DEF Crash, Inv, Given
  <2>2. ASSUME NEW u \in Thread PROVE Parts(u)'
    <3>1. Parts(u)
      BY DEF Inv
    <3>2. CASE Home[u] = p
      BY <1>10, <3>2, Rests DEF Crash, Gone
    <3>3. CASE Home[u] # p
      <4>1. /\ at'[u] = at[u] /\ call'[u] = call[u] /\ seen'[u] = seen[u] /\ put'[u] = put[u]
            /\ UNCHANGED <<cm, version>> /\ mutex'[Home[u]] = mutex[Home[u]]
        BY <1>10, <3>3 DEF Crash, Gone, TypeOK
      <4> QED BY <3>1, <4>1, StaysPut DEF Parts, HasMutex
    <3> QED BY <3>2, <3>3
  <2> QED BY <2>1, <2>2 DEF Inv
<1>11. ASSUME Edited PROVE Inv'
  <2>1. PICK d \in Data \cup {Unreadable} :
            cm' = [version |-> version + 1, state |-> d, by |-> People]
    BY <1>11 DEF Edited
  <2>2. /\ cm' \in ConfigMap /\ cm'.version = version + 1 /\ cm'.by = People
        /\ version' = version + 1 /\ version' \in Nat
    BY <1>11, <2>1 DEF Edited, TypeOK, ConfigMap
  <2>3. Given'
    BY <2>2 DEF Given
  <2>4. ASSUME NEW u \in Thread PROVE Parts(u)'
    <3>1. Parts(u) /\ Given /\ Home[u] # People
      BY StoreConstants DEF Inv
    <3>2. /\ at'[u] = at[u] /\ call'[u] = call[u] /\ seen'[u] = seen[u] /\ put'[u] = put[u]
          /\ mutex'[Home[u]] = mutex[Home[u]]
      BY <1>11 DEF Edited
    <3> QED BY <2>2, <3>1, <3>2, StaysBehind
  <2> QED BY <2>3, <2>4 DEF Inv
<1>12. ASSUME Deleted PROVE Inv'
  <2>1. /\ cm' = NoMap /\ UNCHANGED <<version, mutex, call, at, seen, put>>
    BY <1>12 DEF Deleted
  <2>2. Given'
    BY <2>1 DEF Given
  <2>3. ASSUME NEW u \in Thread PROVE Parts(u)'
    <3>1. Parts(u)
      BY DEF Inv
    <3>2. Now' = 0 /\ View' = Empty
      BY <2>1 DEF Now, View
    <3>3. HasMutex(u)' /\ Busy(u)' /\ Known(u)' /\ Absent(u)' /\ Others(u)'
      BY <2>1, <3>1 DEF Parts, HasMutex, Busy, Known, Absent, Others
    <3>4. Fresh(u)'
      BY <2>1, <3>1, <3>2 DEF Parts, Absent, Fresh, SameMap
    <3> QED BY <3>3, <3>4 DEF Parts
  <2> QED BY <2>2, <2>3 DEF Inv
<1> QED BY <1>0, <1>1, <1>2, <1>3, <1>4, <1>5, <1>6, <1>7, <1>8, <1>9, <1>10, <1>11, <1>12 DEF Next

LEMMA Invariant == Spec => [](TypeOK /\ Inv)
<1>1. Init => TypeOK /\ Inv
  BY TypeInit, InvInit
<1>2. TypeOK /\ Inv /\ [Next]_vars => (TypeOK /\ Inv)'
  BY TypeStep, InvStep
<1> QED BY <1>1, <1>2, PTL DEF Spec

\* Two callers of one process are never each other's conflict: whoever finds
\* the ConfigMap changed under it finds another process's, or a person's, hand.
THEOREM ConflictsComeFromOutside == Spec => []OnlyOthersConflict
<1>1. Inv => OnlyOthersConflict
  BY DEF Inv, Parts, Others, OnlyOthersConflict
<1> QED BY <1>1, Invariant, PTL

\* A write that the API server will accept replaces the very state it was made
\* from, also when the ConfigMap was deleted and created anew in between.
THEOREM AcceptedWritesAreFresh == Spec => []WritesWhatItRead
<1>1. Inv => WritesWhatItRead
  BY DEF Inv, Parts, Fresh, WritesWhatItRead
<1> QED BY <1>1, Invariant, PTL

-----------------------------------------------------------------------------
(* The refinement: every step is a step of AtomicStore, or changes nothing    *)
(* that AtomicStore speaks of.                                               *)

LEMMA AtomicInit == Init => Atomic!Init
<1> SUFFICES ASSUME Init PROVE Atomic!Init
  OBVIOUS
<1>1. View \in Data
  BY TypeInit, ViewIsData
<1>2. result \in [Thread -> {a \in Atomic!Answer : a.said = "nothing"}]
  BY StoreConstants DEF Init, Atomic!Answer
<1> QED BY <1>1, <1>2 DEF Init, Atomic!Init

\* What AtomicStore sees of an answer.
LEMMA AtomicAnswer ==
    ASSUME TypeOK, NEW t \in Thread, NEW said, NEW d \in Data, Returns(t, said, d)
    PROVE  Atomic!Ends(t) /\ Atomic!Says(t, said, d)
BY DEF Returns, Atomic!Ends, Atomic!Says

LEMMA SameView == UNCHANGED cm => UNCHANGED View
BY DEF View

\* A caller that was answered with an error while the ConfigMap stayed.
LEMMA AtomicFails ==
    ASSUME TypeOK, Inv, NEW t \in Thread, NEW d \in Data,
           at[t] \in {"get", "write"}, Returns(t, "error", d), UNCHANGED cm
    PROVE  Atomic!Next
<1>1. call[t] # Idle
  BY DEF Inv, Parts, Busy
<1>2. Atomic!Fails(t)
  BY <1>1, AtomicAnswer, SameView DEF Atomic!Fails
<1> QED BY <1>2 DEF Atomic!Next

\* What was stored is what the change makes of the state of that moment.
LEMMA AtomicTakes ==
    ASSUME TypeOK, Inv, NEW t \in Thread, Stored(t)
    PROVE  Atomic!Takes(t)
<1>1. at[t] = "write" /\ SameMap(t)
  BY DEF Stored
<1>2. call[t] \in Change /\ put[t] = Modify[call[t]][View]
  BY <1>1 DEF Inv, Parts, Busy, Fresh
<1>3. View' = put[t]
  BY StoredMap DEF View
<1>4. put[t] # Refused
  BY StoreConstants DEF TypeOK
<1> QED BY <1>2, <1>3, <1>4 DEF Atomic!Takes

LEMMA AtomicStep == TypeOK /\ TypeOK' /\ Inv /\ [Next]_vars => [Atomic!Next]_(Atomic!vars)
<1> SUFFICES ASSUME TypeOK, TypeOK', Inv, [Next]_vars
             PROVE  Atomic!Next \/ UNCHANGED Atomic!vars
  OBVIOUS
<1>e. Empty \in Data
  BY StoreConstants
<1>v. View \in Data
  BY ViewIsData
<1>0. CASE UNCHANGED vars
  BY <1>0, SameView DEF vars, Atomic!vars
<1>1. ASSUME NEW t \in Thread, NEW c \in Change \cup {Reading}, Calls(t, c) PROVE Atomic!Next
  <2>1. call[t] = Idle
    BY <1>1 DEF Calls, Inv, Parts, Busy
  <2>2. Atomic!Calls(t, c)
    BY <1>1, <2>1, SameView DEF Calls, Atomic!Calls
  <2> QED BY <2>2 DEF Atomic!Next
<1>2. ASSUME NEW t \in Thread, Lock(t) PROVE UNCHANGED Atomic!vars
  BY <1>2, SameView DEF Lock, Atomic!vars
<1>3. ASSUME NEW t \in Thread, GetToRead(t) PROVE Atomic!Next
  <2>1. CASE Returns(t, "error", Empty)
    BY <1>3, <1>e, <2>1, AtomicFails DEF GetToRead
  <2>2. CASE Returns(t, "ok", View)
    <3>1. Atomic!Reads(t)
      BY <1>3, <1>v, <2>2, AtomicAnswer, SameView DEF GetToRead, Atomic!Reads
    <3> QED BY <3>1 DEF Atomic!Next
  <2> QED BY <1>3, <2>1, <2>2 DEF GetToRead
<1>4. ASSUME NEW t \in Thread, GetToModify(t) PROVE Atomic!Next \/ UNCHANGED Atomic!vars
  <2>1. CASE Rejected(Modify[call[t]][View])
    BY <1>4, <1>e, <2>1, AtomicFails DEF GetToModify
  <2>2. CASE ~Rejected(Modify[call[t]][View])
    BY <1>4, <2>2, SameView DEF GetToModify, Atomic!vars
  <2> QED BY <2>1, <2>2
<1>5. ASSUME NEW t \in Thread, GetFails(t) PROVE Atomic!Next
  BY <1>5, <1>e, AtomicFails DEF GetFails
<1>6. ASSUME NEW t \in Thread, Write(t) PROVE Atomic!Next
  <2>1. Atomic!Takes(t) /\ Atomic!Ends(t) /\ Atomic!Says(t, "ok", Empty)
    BY <1>6, <1>e, AtomicTakes, AtomicAnswer DEF Write
  <2>2. Atomic!Applies(t)
    BY <1>e, <2>1 DEF Atomic!Applies
  <2> QED BY <2>2 DEF Atomic!Next
<1>7. ASSUME NEW t \in Thread, WriteUnheard(t) PROVE Atomic!Next
  <2>1. Atomic!Takes(t) /\ Atomic!Ends(t) /\ Atomic!Says(t, "error", Empty)
    BY <1>7, <1>e, AtomicTakes, AtomicAnswer DEF WriteUnheard
  <2>2. Atomic!AppliesUnheard(t)
    BY <1>e, <2>1 DEF Atomic!AppliesUnheard
  <2> QED BY <2>2 DEF Atomic!Next
<1>8. ASSUME NEW t \in Thread, Conflict(t) PROVE Atomic!Next
  BY <1>8, <1>e, AtomicFails DEF Conflict
<1>9. ASSUME NEW t \in Thread, WriteFails(t) PROVE Atomic!Next
  BY <1>9, <1>e, AtomicFails DEF WriteFails
<1>10. ASSUME NEW p \in Process, Crash(p) PROVE Atomic!Next
  <2> DEFINE gone == {t \in Thread : Home[t] = p}
  <2>1. Atomic!Dies(gone)
    BY <1>10, SameView DEF Crash, Gone, Atomic!Dies
  <2>2. gone \in SUBSET Thread
    OBVIOUS
  <2> QED BY <2>1, <2>2 DEF Atomic!Next
<1>11. ASSUME Edited \/ Deleted PROVE Atomic!Next
  <2>1. View' \in Data
    BY StoreConstants, ConfigMapParts DEF TypeOK, View
  <2>2. Atomic!Hand
    BY <1>11, <2>1 DEF Edited, Deleted, Atomic!Hand
  <2> QED BY <2>2 DEF Atomic!Next
<1> QED BY <1>0, <1>1, <1>2, <1>3, <1>4, <1>5, <1>6, <1>7, <1>8, <1>9, <1>10, <1>11 DEF Next

\* The store implements AtomicStore: whatever callers in whatever processes do,
\* and whoever fails, crashes or edits the ConfigMap by hand, no change is lost
\* to another one and none is applied twice.
THEOREM ImplementsAtomic == Spec => ImplementsAtomicStore
<1>1. Init => Atomic!Init
  BY AtomicInit
<1>2. TypeOK /\ TypeOK' /\ Inv /\ [Next]_vars => [Atomic!Next]_(Atomic!vars)
  BY AtomicStep
<1> QED BY <1>1, <1>2, Invariant, PTL DEF Spec, ImplementsAtomicStore, Atomic!Spec

-----------------------------------------------------------------------------
(* Part two: ApiTokens keeps what it answers, for any number of processes,   *)
(* names and tokens. What makes it inductive is what a failed write would    *)
(* leave: the map with the change under way undone is the one people were    *)
(* told of.                                                                  *)

\* The map of p once its change is taken back.
Undone(p) ==
    IF doing[p] = NoToken THEN tokens[p] ELSE [tokens[p] EXCEPT ![doing[p].name] = doing[p].was]

\* A token has one name, and one that was never created has none.
Good(map, said) ==
    /\ \A n, m \in Name :
          map[n] # NoToken /\ map[m] # NoToken /\ map[n].token = map[m].token => n = m
    /\ \A n \in Name : map[n] # NoToken => said[map[n].token] # "unused"

Operation == {"create", "renew", "revoke"}

\* A change is about one token, and is in the map already.
Sound(change, map) ==
    /\ map[change.name] = change.now
    /\ change.was # NoToken \/ change.now # NoToken
    /\ change.was # NoToken /\ change.now # NoToken => change.was.token = change.now.token

Agrees == ~crossed => \A t \in Token \ unsure :
    /\ Holds(Loaded, t)
    /\ \A p \in running \ behind : Holds(Undone(p), t)

AllGood ==
    /\ Good(Loaded, told)
    /\ \A p \in Server : Good(tokens[p], told) /\ Good(Undone(p), told)
    /\ \A p \in Server : doing[p] # NoToken =>
          /\ p \in running /\ Sound(doing[p], tokens[p])
          /\ told[About(p)] # "unused"

TokensInv == TokensTypeOK /\ AllGood /\ Agrees

-----------------------------------------------------------------------------
(* Changes and maps *)

LEMMA ChangeParts ==
    ASSUME NEW c \in Changing
    PROVE  /\ c # NoToken /\ c.name \in Name
           /\ c.was \in Record \cup {NoToken} /\ c.now \in Record \cup {NoToken}
BY TokenConstants DEF Changing

LEMMA TooLateKeeps ==
    ASSUME NEW c \in Changing \cup {NoToken}
    PROVE  /\ TooLate(c) \in Changing \cup {NoToken}
           /\ TooLate(c) = NoToken <=> c = NoToken
           /\ c # NoToken => /\ TooLate(c).name = c.name
                             /\ TooLate(c).was = c.was /\ TooLate(c).now = c.now
BY TokenConstants DEF Changing, TooLate

LEMMA Ended ==
    ASSUME TokensTypeOK, NEW p \in Server, Ends(p)
    PROVE  /\ doing' \in [Server -> Changing \cup {NoToken}] /\ doing'[p] = NoToken
           /\ \A q \in Server \ {p} :
                 /\ doing'[q] = NoToken <=> doing[q] = NoToken
                 /\ doing[q] # NoToken => /\ doing'[q].name = doing[q].name
                                          /\ doing'[q].was = doing[q].was
                                          /\ doing'[q].now = doing[q].now
BY TooLateKeeps DEF TokensTypeOK, Ends

LEMMA LoadedIsMap == TokensTypeOK => Loaded \in Tokens
BY DEF TokensTypeOK, Loaded, NoTokens, Tokens

LEMMA UndoneIsMap ==
    ASSUME TokensTypeOK, NEW p \in Server
    PROVE  Undone(p) \in Tokens
BY ChangeParts DEF TokensTypeOK, Undone, Tokens

LEMMA AboutIsToken ==
    ASSUME TokensTypeOK, NEW p \in Server, doing[p] # NoToken,
           Sound(doing[p], tokens[p])
    PROVE  About(p) \in Token
BY ChangeParts DEF TokensTypeOK, Sound, About, Record

LEMMA Without ==
    ASSUME NEW map \in Tokens, NEW said, NEW n \in Name, Good(map, said)
    PROVE  Good([map EXCEPT ![n] = NoToken], said)
BY DEF Good, Tokens

LEMMA WithSame ==
    ASSUME NEW map \in Tokens, NEW said, NEW n \in Name, NEW r, Good(map, said),
           map[n] # NoToken, r.token = map[n].token
    PROVE  Good([map EXCEPT ![n] = r], said)
BY DEF Good, Tokens

LEMMA GoodLater ==
    ASSUME NEW map \in Tokens, NEW said, NEW later, Good(map, said), NoToken \notin Record,
           \A t \in Token : later[t] = "unused" => said[t] = "unused"
    PROVE  Good(map, later)
BY DEF Good, Tokens, Record

\* Only the token of the change is told apart by taking it back.
LEMMA OthersHeld ==
    ASSUME TokensTypeOK, AllGood, NEW p \in Server, doing[p] # NoToken,
           NEW t \in Token, t # About(p), Holds(Undone(p), t)
    PROVE  Holds(tokens[p], t)
<1> DEFINE c == doing[p]
<1>1. c \in Changing /\ tokens[p] \in [Name -> Record \cup {NoToken}]
  BY DEF TokensTypeOK, Tokens
<1>2. c.name \in Name
  BY <1>1, ChangeParts
<1>3. \A m \in Name \ {c.name} : Undone(p)[m] = tokens[p][m]
  BY <1>1 DEF Undone
<1>4. Undone(p)[c.name] = c.was
  BY <1>1, <1>2 DEF Undone
<1>5. tokens[p][c.name] = c.now /\ (c.was # NoToken => c.was.token # t)
      /\ (c.now # NoToken => c.now.token # t)
  BY DEF AllGood, Sound, About
<1>6. told[t] = "revoked" => \A m \in Name : tokens[p][m] = NoToken \/ tokens[p][m].token # t
  BY <1>2, <1>3, <1>5 DEF Holds
<1>7. ASSUME told[t] \in Window
      PROVE  \E m \in Name : tokens[p][m] = [token |-> t, until |-> told[t]]
  <2> DEFINE r == [token |-> t, until |-> told[t]]
  <2>1. PICK m \in Name : Undone(p)[m] = r
    BY <1>7 DEF Holds
  <2>2. r \in Record /\ r.token = t
    BY <1>7 DEF Record
  <2>3. r # NoToken
    BY <2>2, TokenConstants
  <2>4. m # c.name
    BY <2>1, <2>2, <2>3, <1>4, <1>5
  <2> QED BY <2>1, <2>4, <1>3
<1> QED BY <1>6, <1>7 DEF Holds

-----------------------------------------------------------------------------
(* Type correctness *)

LEMMA TokensTypeStep ==
    ASSUME TokensTypeOK, AllGood, [TokensNext]_tokenVars
    PROVE  TokensTypeOK'
<1>0. CASE UNCHANGED tokenVars
  BY <1>0 DEF TokensTypeOK, tokenVars
<1>1. ASSUME NEW p \in Server, Start(p) PROVE TokensTypeOK'
  BY <1>1, LoadedIsMap DEF TokensTypeOK, Start
<1>2. ASSUME NEW p \in Server, Reread(p) PROVE TokensTypeOK'
  <2>1. [doing[p] EXCEPT !.saw = "current"] \in Changing
    BY <1>2 DEF TokensTypeOK, Reread, Changing
  <2> QED BY <1>2, <2>1 DEF TokensTypeOK, Reread
<1>3. ASSUME NEW p \in Server, NEW n \in Name, NEW w \in Window, RenewToken(p, n, w)
      PROVE  TokensTypeOK'
  <2>1. tokens[p] \in Tokens /\ tokens[p][n] \in Record
    BY <1>3 DEF TokensTypeOK, RenewToken, Tokens
  <2>2. [tokens[p][n] EXCEPT !.until = w] \in Record
    BY <2>1 DEF Record
  <2> QED BY <1>3, <2>1, <2>2 DEF TokensTypeOK, RenewToken, Begins, Tokens, Changing
<1>4. ASSUME NEW p \in Server, NEW n \in Name, NEW t \in Token, NEW w \in Window,
             CreateToken(p, n, t, w)
      PROVE  TokensTypeOK'
  <2>1. [token |-> t, until |-> w] \in Record
    BY DEF Record
  <2> QED BY <1>4, <2>1 DEF TokensTypeOK, CreateToken, Begins, Tokens, Changing
<1>5. ASSUME NEW p \in Server, NEW n \in Name, RevokeToken(p, n) PROVE TokensTypeOK'
  BY <1>5 DEF TokensTypeOK, RevokeToken, Begins, Tokens, Changing
<1>6. ASSUME NEW p \in Server, Saved(p) PROVE TokensTypeOK'
  <2>1. About(p) \in Token /\ doing[p] # NoToken
    BY <1>6, AboutIsToken DEF Saved, AllGood
  <2>2. doing[p].now = NoToken \/ doing[p].now.until \in Window
    BY <2>1, ChangeParts DEF TokensTypeOK, Record
  <2>3. doing' \in [Server -> Changing \cup {NoToken}]
    BY <1>6, Ended DEF Saved
  <2> QED BY <1>6, <2>1, <2>2, <2>3 DEF TokensTypeOK, Saved, Lands
<1>7. ASSUME NEW p \in Server, Overtaken(p) PROVE TokensTypeOK'
  <2>1. doing' \in [Server -> Changing \cup {NoToken}]
    BY <1>7, Ended DEF Overtaken
  <2>2. doing[p].name \in Name /\ doing[p].was \in Record \cup {NoToken}
    BY <1>7, ChangeParts DEF TokensTypeOK, Overtaken
  <2>3. tokens' \in [Server -> Tokens]
    BY <1>7, <2>2 DEF TokensTypeOK, Overtaken, RolledBack, Tokens
  <2>4. UNCHANGED <<running, secret, behind, told, unsure, crossed, tokenFaults>>
    BY <1>7 DEF Overtaken
  <2> QED BY <2>1, <2>3, <2>4 DEF TokensTypeOK
<1>8. ASSUME NEW p \in Server, SaveFails(p) PROVE TokensTypeOK'
  <2>1. doing' \in [Server -> Changing \cup {NoToken}]
    BY <1>8, Ended DEF SaveFails
  <2>2. About(p) \in Token /\ doing[p].name \in Name /\ doing[p].was \in Record \cup {NoToken}
    BY <1>8, ChangeParts, AboutIsToken DEF TokensTypeOK, SaveFails, AllGood
  <2>3. tokens' \in [Server -> Tokens]
    BY <1>8, <2>2 DEF TokensTypeOK, SaveFails, RolledBack, Tokens
  <2>4. tokenFaults' \in 0..MaxTokenFaults
    BY <1>8, TokenConstants DEF TokensTypeOK, SaveFails
  <2>5. /\ secret' \in Tokens \cup {NoSecret} /\ behind' \subseteq running
        /\ unsure' \subseteq Token /\ crossed' \in BOOLEAN
    <3>1. CASE Unheard(p)
      BY <2>2, <3>1 DEF TokensTypeOK, Unheard, Lands
    <3>2. CASE UNCHANGED <<secret, behind, unsure, crossed>>
      BY <3>2 DEF TokensTypeOK
    <3> QED BY <1>8, <3>1, <3>2 DEF SaveFails
  <2>6. UNCHANGED <<running, told>>
    BY <1>8 DEF SaveFails
  <2> QED BY <2>1, <2>3, <2>4, <2>5, <2>6 DEF TokensTypeOK
<1>9. ASSUME NEW p \in Server, Stop(p) PROVE TokensTypeOK'
  <2>1. doing' \in [Server -> Changing \cup {NoToken}]
    BY <1>9, Ended DEF Stop
  <2>2. doing[p] # NoToken => About(p) \in Token
    BY AboutIsToken DEF AllGood
  <2>3. tokens' \in [Server -> Tokens]
    BY <1>9 DEF TokensTypeOK, Stop, NoTokens, Tokens
  <2>4. tokenFaults' \in 0..MaxTokenFaults
    BY <1>9, TokenConstants DEF TokensTypeOK, Stop
  <2>5. secret' \in Tokens \cup {NoSecret} /\ unsure' \subseteq Token /\ crossed' \in BOOLEAN
    BY <1>9, <2>2 DEF TokensTypeOK, Stop, Unheard, Lands
  <2>6. behind' \subseteq running' /\ running' \subseteq Server
    BY <1>9 DEF TokensTypeOK, Stop, Unheard, Lands
  <2>7. told' = told
    BY <1>9 DEF Stop
  <2> QED BY <2>1, <2>3, <2>4, <2>5, <2>6, <2>7 DEF TokensTypeOK
<1> QED BY <1>0, <1>1, <1>2, <1>3, <1>4, <1>5, <1>6, <1>7, <1>8, <1>9 DEF TokensNext

-----------------------------------------------------------------------------
(* The maps stay good *)

\* A change that ends leaves those of the other processes as they are.
LEMMA OthersGoOn ==
    ASSUME TokensTypeOK, NEW p \in Server, Ends(p),
           NEW q \in Server \ {p}, tokens'[q] = tokens[q]
    PROVE  /\ doing'[q] = NoToken <=> doing[q] = NoToken
           /\ Undone(q)' = Undone(q)
           /\ doing[q] # NoToken => About(q)' = About(q)
           /\ doing[q] # NoToken /\ Sound(doing[q], tokens[q]) => Sound(doing'[q], tokens'[q])
BY Ended DEF Undone, About, Sound

LEMMA GoodOnceEnded ==
    ASSUME TokensTypeOK, AllGood, NEW p \in Server, Ends(p),
           \A q \in Server \ {p} : tokens'[q] = tokens[q],
           Good(tokens'[p], told'), Good(Loaded', told'),
           running \ {p} \subseteq running',
           \A t \in Token : told'[t] = "unused" => told[t] = "unused"
    PROVE  AllGood'
<1>1. doing'[p] = NoToken /\ Undone(p)' = tokens'[p]
  BY Ended DEF Undone
<1>2. ASSUME NEW q \in Server \ {p}
      PROVE  /\ Good(tokens'[q], told') /\ Good(Undone(q)', told')
             /\ doing'[q] # NoToken => /\ q \in running' /\ Sound(doing'[q], tokens'[q])
                                       /\ told'[About(q)'] # "unused"
  <2>1. Good(tokens[q], told) /\ Good(Undone(q), told)
    BY DEF AllGood
  <2>2. Good(tokens[q], told') /\ Good(Undone(q), told')
    BY <2>1, GoodLater, UndoneIsMap, TokenConstants DEF TokensTypeOK
  <2>3. doing[q] # NoToken => /\ q \in running /\ Sound(doing[q], tokens[q])
                              /\ told[About(q)] # "unused"
    BY DEF AllGood
  <2>4. doing[q] # NoToken => About(q) \in Token
    BY <2>3, AboutIsToken
  <2>5. /\ Undone(q)' = Undone(q) /\ tokens'[q] = tokens[q]
        /\ doing'[q] = NoToken <=> doing[q] = NoToken
        /\ doing[q] # NoToken => About(q)' = About(q)
        /\ doing[q] # NoToken /\ Sound(doing[q], tokens[q]) => Sound(doing'[q], tokens'[q])
    BY OthersGoOn
  <2> QED BY <2>2, <2>3, <2>4, <2>5
<1> QED BY <1>1, <1>2 DEF AllGood

\* A change that begins can be taken back.
LEMMA UndoneOnceBegun ==
    ASSUME TokensTypeOK, TokensTypeOK', NEW p \in Server, NEW op \in Operation, NEW n \in Name,
           NEW now \in Record \cup {NoToken}, Begins(p, op, n, now)
    PROVE  /\ \A q \in Server : Undone(q)' = Undone(q)
           /\ \A q \in Server \ {p} : tokens'[q] = tokens[q] /\ doing'[q] = doing[q]
           /\ tokens'[p] = [tokens[p] EXCEPT ![n] = now]
           /\ doing'[p] # NoToken /\ doing'[p].name = n
           /\ doing'[p].was = tokens[p][n] /\ doing'[p].now = now
<1>1. \A q \in Server \ {p} : tokens'[q] = tokens[q] /\ doing'[q] = doing[q]
  BY DEF TokensTypeOK, Begins
<1>2. tokens'[p] = [tokens[p] EXCEPT ![n] = now]
  BY DEF TokensTypeOK, Begins
<1>3. doing'[p] = [op |-> op, name |-> n, was |-> tokens[p][n], now |-> now,
                   saw |-> IF secret = NoSecret THEN "nothing" ELSE "current"]
  BY DEF TokensTypeOK, Begins
<1>4. doing'[p] \in Changing
  BY <1>3 DEF TokensTypeOK, Tokens, Changing, Operation
<1>5. Undone(p)' = tokens[p] /\ Undone(p) = tokens[p]
  <2>1. tokens[p] \in [Name -> Record \cup {NoToken}]
    BY DEF TokensTypeOK, Tokens
  <2> QED BY <1>2, <1>3, <1>4, <2>1, ChangeParts DEF Undone, Begins
<1> QED BY <1>1, <1>2, <1>3, <1>4, <1>5, ChangeParts DEF Undone

LEMMA GoodOnceBegun ==
    ASSUME TokensTypeOK, TokensTypeOK', AllGood,
           NEW p \in Server, NEW op \in Operation, NEW n \in Name,
           NEW now \in Record \cup {NoToken}, Begins(p, op, n, now),
           Good(tokens'[p], told'), told'[About(p)'] # "unused",
           tokens[p][n] # NoToken \/ now # NoToken,
           tokens[p][n] # NoToken /\ now # NoToken => tokens[p][n].token = now.token,
           \A t \in Token : told'[t] = "unused" => told[t] = "unused"
    PROVE  AllGood'
<1>1. Loaded' = Loaded /\ running' = running /\ p \in running
  BY DEF Begins, Loaded
<1>2. Good(Loaded, told')
  BY GoodLater, LoadedIsMap, TokenConstants DEF AllGood
<1>5. ASSUME NEW q \in Server PROVE Good(tokens[q], told') /\ Good(Undone(q), told')
  BY GoodLater, UndoneIsMap, TokenConstants DEF AllGood, TokensTypeOK
<1>3. Sound(doing'[p], tokens'[p])
  <2>1. /\ tokens'[p] = [tokens[p] EXCEPT ![n] = now] /\ doing'[p].name = n
        /\ doing'[p].was = tokens[p][n] /\ doing'[p].now = now
    BY UndoneOnceBegun
  <2>2. tokens'[p][n] = now
    BY <2>1 DEF TokensTypeOK, Tokens
  <2> QED BY <2>1, <2>2 DEF Sound
<1>4. \A q \in Server \ {p} : doing'[q] # NoToken =>
        q \in running /\ Sound(doing'[q], tokens'[q]) /\ told[About(q)] # "unused"
        /\ About(q)' = About(q)
  <2> TAKE q \in Server \ {p}
  <2>1. tokens'[q] = tokens[q] /\ doing'[q] = doing[q]
    BY UndoneOnceBegun
  <2>2. doing[q] # NoToken => q \in running /\ Sound(doing[q], tokens[q]) /\ told[About(q)] # "unused"
    BY DEF AllGood
  <2> QED BY <2>1, <2>2 DEF About
<1>6. \A q \in Server \ {p} : tokens'[q] = tokens[q]
  BY UndoneOnceBegun
<1>7. \A q \in Server : Good(tokens'[q], told') /\ Good(Undone(q)', told')
  <2>1. \A q \in Server : Undone(q)' = Undone(q)
    BY UndoneOnceBegun
  <2>2. ASSUME NEW q \in Server PROVE Good(tokens'[q], told') /\ Good(Undone(q)', told')
    <3>1. Good(tokens[q], told') /\ Good(Undone(q), told')
      BY <1>5
    <3>2. Undone(q)' = Undone(q) /\ (q # p => tokens'[q] = tokens[q])
      BY <1>6, <2>1
    <3> QED BY <3>1, <3>2
  <2> QED BY <2>2
<1>8. \A q \in Server : doing'[q] # NoToken =>
        q \in running' /\ Sound(doing'[q], tokens'[q]) /\ told'[About(q)'] # "unused"
  <2> SUFFICES ASSUME NEW q \in Server \ {p}, doing'[q] # NoToken
               PROVE  /\ q \in running' /\ Sound(doing'[q], tokens'[q])
                      /\ told'[About(q)'] # "unused"
    BY <1>1, <1>3
  <2>1. About(q) \in Token
    BY AboutIsToken, UndoneOnceBegun DEF AllGood
  <2> QED BY <1>1, <1>4, <2>1
<1> QED BY <1>1, <1>2, <1>7, <1>8 DEF AllGood

LEMMA LandedMap ==
    ASSUME TokensTypeOK, NEW p \in Server, Lands(p)
    PROVE  Loaded' = tokens[p]
BY TokenConstants DEF TokensTypeOK, Lands, Loaded

\* What is taken back is what Undone says.
LEMMA TakenBack ==
    ASSUME TokensTypeOK, NEW p \in Server, doing[p] # NoToken, tokens' = RolledBack(p)
    PROVE  tokens'[p] = Undone(p) /\ \A q \in Server \ {p} : tokens'[q] = tokens[q]
BY DEF TokensTypeOK, RolledBack, Undone

LEMMA GoodStep ==
    ASSUME TokensTypeOK, TokensTypeOK', AllGood, [TokensNext]_tokenVars
    PROVE  AllGood'
<1>0. CASE UNCHANGED tokenVars
  BY <1>0 DEF AllGood, tokenVars, Good, Sound, Undone, About, Loaded
<1>1. ASSUME NEW p \in Server, Start(p) PROVE AllGood'
  <2>1. doing[p] = NoToken /\ doing' = doing /\ told' = told /\ secret' = secret
    BY <1>1 DEF AllGood, Start
  <2>2. Loaded' = Loaded /\ tokens'[p] = Loaded /\ Undone(p)' = Loaded
    BY <1>1, <2>1 DEF TokensTypeOK, Start, Loaded, Undone
  <2>3. \A q \in Server \ {p} : tokens'[q] = tokens[q] /\ Undone(q)' = Undone(q)
    BY <1>1, <2>1 DEF TokensTypeOK, Start, Undone
  <2>4. \A q \in Server : doing[q] # NoToken => q # p /\ About(q)' = About(q) /\ q \in running'
    BY <1>1, <2>1 DEF AllGood, Start, About
  <2> QED BY <2>1, <2>2, <2>3, <2>4 DEF AllGood
<1>2. ASSUME NEW p \in Server, Reread(p) PROVE AllGood'
  <2>1. doing[p] \in Changing /\ doing'[p] = [doing[p] EXCEPT !.saw = "current"]
        /\ \A q \in Server \ {p} : doing'[q] = doing[q]
    BY <1>2 DEF TokensTypeOK, Reread
  <2>2. \A q \in Server : /\ doing'[q] = NoToken <=> doing[q] = NoToken
                          /\ doing[q] # NoToken => /\ doing'[q].name = doing[q].name
                                                   /\ doing'[q].was = doing[q].was
                                                   /\ doing'[q].now = doing[q].now
    <3>1. doing'[p] \in Changing /\ doing'[p].name = doing[p].name
          /\ doing'[p].was = doing[p].was /\ doing'[p].now = doing[p].now
      BY <2>1 DEF Changing
    <3> QED BY <2>1, <3>1, ChangeParts
  <2>3. tokens' = tokens /\ told' = told /\ Loaded' = Loaded /\ running' = running
    BY <1>2 DEF Reread, Loaded
  <2>4. \A q \in Server : Undone(q)' = Undone(q)
    BY <2>2, <2>3 DEF Undone
  <2>5. \A q \in Server : doing[q] # NoToken =>
          About(q)' = About(q) /\ (Sound(doing[q], tokens[q]) => Sound(doing'[q], tokens[q]))
    BY <2>2 DEF About, Sound
  <2> QED BY <2>2, <2>3, <2>4, <2>5 DEF AllGood
<1>3. ASSUME NEW p \in Server, NEW n \in Name, NEW w \in Window, RenewToken(p, n, w)
      PROVE  AllGood'
  <2> DEFINE r == [tokens[p][n] EXCEPT !.until = w]
  <2>1. tokens[p] \in Tokens /\ tokens[p][n] \in Record /\ tokens[p][n] # NoToken
    BY <1>3 DEF TokensTypeOK, RenewToken, Tokens
  <2>2. r \in Record /\ r.token = tokens[p][n].token /\ r # NoToken
    BY <2>1, TokenConstants DEF Record
  <2>3. Begins(p, "renew", n, r) /\ told' = told
    BY <1>3 DEF RenewToken
  <2> HIDE DEF r
  <2>4. tokens'[p] = [tokens[p] EXCEPT ![n] = r] /\ About(p)' = r.token
    BY <2>2, <2>3, UndoneOnceBegun DEF Operation, About
  <2>5. Good(tokens'[p], told')
    BY <2>1, <2>2, <2>3, <2>4, WithSame DEF AllGood
  <2>6. told'[About(p)'] # "unused"
    BY <2>1, <2>2, <2>3, <2>4 DEF AllGood, Good
  <2> QED BY <2>1, <2>2, <2>3, <2>5, <2>6, GoodOnceBegun DEF Operation
<1>4. ASSUME NEW p \in Server, NEW n \in Name, NEW t \in Token, NEW w \in Window,
             CreateToken(p, n, t, w)
      PROVE  AllGood'
  <2> DEFINE r == [token |-> t, until |-> w]
  <2>1. tokens[p] \in Tokens /\ tokens[p][n] = NoToken /\ told[t] = "unused"
    BY <1>4 DEF TokensTypeOK, CreateToken
  <2>2. r \in Record /\ r.token = t /\ r # NoToken
    BY TokenConstants DEF Record
  <2>3. Begins(p, "create", n, r) /\ told' = [told EXCEPT ![t] = "unanswered"]
    BY <1>4 DEF CreateToken
  <2> HIDE DEF r
  <2>4. tokens'[p] = [tokens[p] EXCEPT ![n] = r] /\ About(p)' = t
    BY <2>2, <2>3, UndoneOnceBegun DEF Operation, About
  <2>5. \A u \in Token : told'[u] = IF u = t THEN "unanswered" ELSE told[u]
    BY <2>3 DEF TokensTypeOK
  <2>6. Good(tokens'[p], told')
    BY <2>1, <2>2, <2>4, <2>5, TokenConstants DEF AllGood, Good, Tokens, Record
  <2>7. told'[About(p)'] # "unused" /\ \A u \in Token : told'[u] = "unused" => told[u] = "unused"
    BY <2>4, <2>5
  <2> QED BY <2>1, <2>2, <2>3, <2>6, <2>7, GoodOnceBegun DEF Operation
<1>5. ASSUME NEW p \in Server, NEW n \in Name, RevokeToken(p, n) PROVE AllGood'
  <2>1. tokens[p] \in Tokens /\ tokens[p][n] # NoToken
    BY <1>5 DEF TokensTypeOK, RevokeToken
  <2>2. Begins(p, "revoke", n, NoToken) /\ told' = told
    BY <1>5 DEF RevokeToken
  <2>3. tokens'[p] = [tokens[p] EXCEPT ![n] = NoToken] /\ About(p)' = tokens[p][n].token
    BY <2>2, UndoneOnceBegun DEF Operation, About
  <2>4. Good(tokens'[p], told')
    BY <2>1, <2>2, <2>3, Without DEF AllGood
  <2>5. told'[About(p)'] # "unused"
    BY <2>1, <2>2, <2>3 DEF AllGood, Good
  <2> QED BY <2>1, <2>2, <2>4, <2>5, GoodOnceBegun DEF Operation
<1>6. ASSUME NEW p \in Server, Saved(p) PROVE AllGood'
  <2>1. doing[p] # NoToken /\ Lands(p) /\ Ends(p) /\ tokens' = tokens /\ running' = running
    BY <1>6 DEF Saved
  <2>2. Loaded' = tokens[p]
    BY <2>1, LandedMap
  <2>3. \A t \in Token : told'[t] = "unused" => told[t] = "unused"
    BY <1>6, <2>1, ChangeParts, TokenConstants DEF TokensTypeOK, Saved, Record
  <2>4. Good(tokens[p], told')
    BY <2>3, GoodLater, TokenConstants DEF AllGood, TokensTypeOK
  <2> QED BY <2>1, <2>2, <2>3, <2>4, GoodOnceEnded
<1>7. ASSUME NEW p \in Server, Overtaken(p) PROVE AllGood'
  <2>1. doing[p] # NoToken /\ tokens' = RolledBack(p) /\ Ends(p) /\ told' = told
        /\ running' = running /\ Loaded' = Loaded
    BY <1>7 DEF Overtaken, Loaded
  <2>2. Good(Loaded, told) /\ Good(Undone(p), told)
    BY DEF AllGood
  <2> QED BY <2>1, <2>2, TakenBack, GoodOnceEnded
<1>8. ASSUME NEW p \in Server, SaveFails(p) PROVE AllGood'
  <2>1. doing[p] # NoToken /\ tokens' = RolledBack(p) /\ Ends(p) /\ told' = told
        /\ running' = running
    BY <1>8 DEF SaveFails
  <2>2. Good(Loaded, told) /\ Good(tokens[p], told) /\ Good(Undone(p), told)
    BY DEF AllGood
  <2>3. Loaded' = Loaded \/ Loaded' = tokens[p]
    BY <1>8, LandedMap DEF SaveFails, Unheard, Loaded
  <2> QED BY <2>1, <2>2, <2>3, TakenBack, GoodOnceEnded
<1>9. ASSUME NEW p \in Server, Stop(p) PROVE AllGood'
  <2>1. Ends(p) /\ told' = told /\ running' = running \ {p}
    BY <1>9 DEF Stop
  <2>2. Good(Loaded, told) /\ Good(tokens[p], told) /\ Good(NoTokens, told)
    BY DEF AllGood, Good, NoTokens
  <2>3. Loaded' = Loaded \/ Loaded' = tokens[p]
    BY <1>9, LandedMap DEF Stop, Unheard, Loaded
  <2>4. tokens'[p] = NoTokens /\ \A q \in Server \ {p} : tokens'[q] = tokens[q]
    BY <1>9 DEF Stop, TokensTypeOK
  <2> QED BY <2>1, <2>2, <2>3, <2>4, GoodOnceEnded
<1> QED BY <1>0, <1>1, <1>2, <1>3, <1>4, <1>5, <1>6, <1>7, <1>8, <1>9 DEF TokensNext

-----------------------------------------------------------------------------
(* What was answered holds *)

\* A write that is not of an overtaken process leaves every other token as told.
LEMMA LandedHolds ==
    ASSUME TokensTypeOK, AllGood, Agrees, NEW p \in Server, doing[p] # NoToken,
           Lands(p), ~crossed', NEW t \in Token \ unsure, t # About(p), told'[t] = told[t]
    PROVE  Holds(Loaded, t)' /\ Holds(Undone(p), t) /\ Holds(tokens[p], t)
<1>1. ~crossed /\ p \in running \ behind
  BY DEF Lands, AllGood
<1>2. Holds(Undone(p), t) /\ Holds(tokens[p], t)
  BY <1>1, OthersHeld DEF Agrees
<1> QED BY <1>2, LandedMap DEF Holds

\* Nothing is claimed of other processes once p has written.
LEMMA OnlyTheWriter ==
    ASSUME NEW p \in Server, Lands(p), running' \subseteq running
    PROVE  running' \ behind' \subseteq {p}
BY DEF Lands

\* A change that ends without a write.
LEMMA AgreesUnwritten ==
    ASSUME TokensTypeOK, AllGood, Agrees, NEW p \in Server, Ends(p),
           UNCHANGED <<secret, unsure, crossed, told>>,
           running' \subseteq running, behind' \cap running' = behind \cap running',
           \A q \in Server \ {p} : tokens'[q] = tokens[q],
           p \in running' => tokens'[p] = Undone(p)
    PROVE  Agrees'
<1> SUFFICES ASSUME ~crossed, NEW t \in Token \ unsure
             PROVE  /\ Holds(Loaded, t)'
                    /\ \A q \in running' \ behind' : Holds(Undone(q), t)'
  BY DEF Agrees
<1>1. Holds(Loaded, t) /\ Loaded' = Loaded /\ told' = told
  BY DEF Agrees, Loaded
<1>2. ASSUME NEW q \in running' \ behind' PROVE Holds(Undone(q), t)'
  <2>1. q \in Server /\ q \in running \ behind
    BY DEF TokensTypeOK
  <2>2. Holds(Undone(q), t)
    BY <2>1 DEF Agrees
  <2>3. Undone(q)' = Undone(q)
    <3>1. CASE q = p
      BY <3>1, Ended DEF Undone
    <3>2. CASE q # p
      BY <2>1, <3>2, OthersGoOn
    <3> QED BY <3>1, <3>2
  <2> QED BY <1>1, <2>2, <2>3 DEF Holds
<1> QED BY <1>1, <1>2 DEF Holds

\* A change that ends with a write nobody hears of.
LEMMA AgreesUnheard ==
    ASSUME TokensTypeOK, AllGood, Agrees, NEW p \in Server, Ends(p), Unheard(p),
           told' = told, running' \subseteq running, p \in running' => tokens'[p] = Undone(p)
    PROVE  Agrees'
<1> SUFFICES ASSUME ~crossed', NEW t \in Token \ unsure'
             PROVE  /\ Holds(Loaded, t)'
                    /\ \A q \in running' \ behind' : Holds(Undone(q), t)'
  BY DEF Agrees
<1>1. t \in Token \ unsure /\ t # About(p) /\ doing[p] # NoToken /\ Lands(p)
  BY DEF Unheard
<1>2. Holds(Loaded, t)' /\ Holds(Undone(p), t)
  BY <1>1, LandedHolds
<1>3. ASSUME NEW q \in running' \ behind' PROVE Holds(Undone(q), t)'
  <2>1. q = p
    BY <1>1, OnlyTheWriter
  <2>2. Undone(p)' = Undone(p)
    BY <2>1, Ended DEF Undone
  <2> QED BY <1>2, <2>1, <2>2 DEF Holds
<1> QED BY <1>2, <1>3

\* The answer to a change that was saved.
LEMMA AnswerHolds ==
    ASSUME TokensTypeOK, AllGood, NEW p \in Server, Saved(p)
    PROVE  LET t == About(p) IN
             /\ told'[t] = "revoked" =>
                  \A m \in Name : tokens[p][m] = NoToken \/ tokens[p][m].token # t
             /\ told'[t] \in Window =>
                  \E m \in Name : tokens[p][m] = [token |-> t, until |-> told'[t]]
<1> DEFINE c == doing[p]
           t == About(p)
<1>1. c \in Changing /\ c.name \in Name /\ tokens[p] \in Tokens /\ t \in Token
      /\ c.was \in Record \cup {NoToken} /\ c.now \in Record \cup {NoToken}
  BY ChangeParts, AboutIsToken DEF Saved, TokensTypeOK, AllGood
<1>2. Sound(c, tokens[p]) /\ Good(Undone(p), told)
  BY <1>1, ChangeParts DEF AllGood
<1>3. told'[t] = IF c.now = NoToken THEN "revoked" ELSE c.now.until
  BY <1>1 DEF Saved, TokensTypeOK
<1>4. CASE c.now = NoToken
  <2>1. c.was # NoToken /\ c.was.token = t /\ tokens[p][c.name] = NoToken
    BY <1>2, <1>4 DEF Sound, About
  <2>2. Undone(p)[c.name] = c.was
        /\ \A m \in Name \ {c.name} : Undone(p)[m] = tokens[p][m]
    BY <1>1, ChangeParts DEF Undone, Tokens
  <2>3. ASSUME NEW m \in Name, tokens[p][m] # NoToken, tokens[p][m].token = t PROVE FALSE
    BY <1>1, <1>2, <2>1, <2>2, <2>3 DEF Good
  <2> QED BY <1>3, <1>4, <2>3, TokenConstants
<1>5. CASE c.now # NoToken
  <2>1. c.now \in Record /\ c.now.token = t /\ c.now.until \in Window
    BY <1>1, <1>5 DEF About, Record
  <2>2. c.now = [token |-> t, until |-> told'[t]]
    BY <1>3, <1>5, <2>1 DEF Record
  <2> QED BY <1>1, <1>2, <1>3, <1>5, <2>1, <2>2, TokenConstants DEF Sound
<1> QED BY <1>4, <1>5

LEMMA AgreesSaved ==
    ASSUME TokensTypeOK, AllGood, Agrees, NEW p \in Server, Saved(p)
    PROVE  Agrees'
<1> SUFFICES ASSUME ~crossed', NEW t \in Token \ unsure'
             PROVE  /\ Holds(Loaded, t)'
                    /\ \A q \in running' \ behind' : Holds(Undone(q), t)'
  BY DEF Agrees
<1>1. doing[p] # NoToken /\ Lands(p) /\ Ends(p) /\ tokens' = tokens /\ running' = running
  BY DEF Saved
<1>2. Loaded' = tokens[p] /\ Undone(p)' = tokens[p]
  BY <1>1, LandedMap, Ended DEF Undone
<1>3. Holds(Loaded, t)'
  <2>1. CASE t = About(p)
    BY <2>1, <1>2, AnswerHolds DEF Holds
  <2>2. CASE t # About(p)
    <3>1. t \in Token \ unsure /\ told'[t] = told[t]
      BY <2>2 DEF Saved, TokensTypeOK
    <3> QED BY <1>1, <2>2, <3>1, LandedHolds
  <2> QED BY <2>1, <2>2
<1>4. running' \ behind' \subseteq {p}
  BY <1>1, OnlyTheWriter
<1> QED BY <1>2, <1>3, <1>4 DEF Holds

\* A change that begins: nothing is claimed yet of a token created, and what was
\* claimed of the others is what taking the change back would leave.
LEMMA AgreesOnceBegun ==
    ASSUME TokensTypeOK, TokensTypeOK', Agrees,
           NEW p \in Server, NEW op \in Operation, NEW n \in Name,
           NEW now \in Record \cup {NoToken}, Begins(p, op, n, now),
           \A t \in Token : told'[t] = told[t] \/ told'[t] = "unanswered"
    PROVE  Agrees'
<1> SUFFICES ASSUME ~crossed, NEW t \in Token \ unsure
             PROVE  /\ Holds(Loaded, t)'
                    /\ \A q \in running \ behind : Holds(Undone(q), t)'
  BY DEF Agrees, Begins
<1>1. Holds(Loaded, t) /\ Loaded' = Loaded
  BY DEF Agrees, Begins, Loaded
<1>2. \A q \in running \ behind : Holds(Undone(q), t) /\ Undone(q)' = Undone(q)
  BY UndoneOnceBegun DEF Agrees, TokensTypeOK
<1>3. CASE told'[t] = told[t]
  BY <1>1, <1>2, <1>3 DEF Holds
<1>4. CASE told'[t] = "unanswered"
  BY <1>4, TokenConstants DEF Holds
<1> QED BY <1>3, <1>4

LEMMA AgreesStep ==
    ASSUME TokensTypeOK, TokensTypeOK', AllGood, Agrees, [TokensNext]_tokenVars
    PROVE  Agrees'
<1>0. CASE UNCHANGED tokenVars
  BY <1>0 DEF Agrees, tokenVars, Holds, Undone, Loaded
<1>1. ASSUME NEW p \in Server, Start(p) PROVE Agrees'
  <2>1. doing[p] = NoToken /\ doing' = doing /\ told' = told /\ crossed' = crossed
        /\ unsure' = unsure /\ behind' = behind /\ running' = running \cup {p}
    BY <1>1 DEF AllGood, Start
  <2>2. Loaded' = Loaded /\ Undone(p)' = Loaded
    BY <1>1, <2>1 DEF TokensTypeOK, Start, Loaded, Undone
  <2>3. \A q \in Server \ {p} : Undone(q)' = Undone(q)
    BY <1>1, <2>1 DEF TokensTypeOK, Start, Undone
  <2>4. \A q \in running' \ behind' : q = p \/ q \in (running \ behind) \ {p}
    BY <2>1
  <2> QED BY <2>1, <2>2, <2>3, <2>4 DEF Agrees, Holds, TokensTypeOK
<1>2. ASSUME NEW p \in Server, Reread(p) PROVE Agrees'
  <2>1. doing[p] \in Changing /\ doing'[p] = [doing[p] EXCEPT !.saw = "current"]
        /\ \A q \in Server \ {p} : doing'[q] = doing[q]
    BY <1>2 DEF TokensTypeOK, Reread
  <2>2. doing'[p] \in Changing /\ doing'[p].name = doing[p].name /\ doing'[p].was = doing[p].was
    BY <2>1 DEF Changing
  <2>3. tokens' = tokens /\ told' = told /\ Loaded' = Loaded /\ running' = running
        /\ behind' = behind /\ unsure' = unsure /\ crossed' = crossed
    BY <1>2 DEF Reread, Loaded
  <2>4. \A q \in Server : Undone(q)' = Undone(q)
    BY <2>1, <2>2, <2>3, ChangeParts DEF Undone
  <2> QED BY <2>3, <2>4 DEF Agrees, Holds, TokensTypeOK
<1>3. ASSUME NEW p \in Server, NEW n \in Name, NEW w \in Window, RenewToken(p, n, w)
      PROVE  Agrees'
  <2>1. [tokens[p][n] EXCEPT !.until = w] \in Record
    BY <1>3 DEF TokensTypeOK, RenewToken, Tokens, Record
  <2> QED BY <1>3, <2>1, AgreesOnceBegun DEF RenewToken, Operation
<1>4. ASSUME NEW p \in Server, NEW n \in Name, NEW t \in Token, NEW w \in Window,
             CreateToken(p, n, t, w)
      PROVE  Agrees'
  <2>1. [token |-> t, until |-> w] \in Record
    BY DEF Record
  <2>2. \A u \in Token : told'[u] = told[u] \/ told'[u] = "unanswered"
    BY <1>4 DEF CreateToken, TokensTypeOK
  <2> QED BY <1>4, <2>1, <2>2, AgreesOnceBegun DEF CreateToken, Operation
<1>5. ASSUME NEW p \in Server, NEW n \in Name, RevokeToken(p, n) PROVE Agrees'
  BY <1>5, AgreesOnceBegun DEF RevokeToken, Operation
<1>6. ASSUME NEW p \in Server, Saved(p) PROVE Agrees'
  BY <1>6, AgreesSaved
<1>7. ASSUME NEW p \in Server, Overtaken(p) PROVE Agrees'
  BY <1>7, TakenBack, AgreesUnwritten DEF Overtaken
<1>8. ASSUME NEW p \in Server, SaveFails(p) PROVE Agrees'
  BY <1>8, TakenBack, AgreesUnwritten, AgreesUnheard DEF SaveFails
<1>9. ASSUME NEW p \in Server, Stop(p) PROVE Agrees'
  <2>1. Ends(p) /\ told' = told /\ running' = running \ {p}
        /\ \A q \in Server \ {p} : tokens'[q] = tokens[q]
    BY <1>9 DEF Stop, TokensTypeOK
  <2>2. CASE Unheard(p)
    BY <2>1, <2>2, AgreesUnheard
  <2>3. CASE UNCHANGED <<secret, unsure, crossed>> /\ behind' = behind \ {p}
    BY <2>1, <2>3, AgreesUnwritten
  <2> QED BY <1>9, <2>2, <2>3 DEF Stop
<1> QED BY <1>0, <1>1, <1>2, <1>3, <1>4, <1>5, <1>6, <1>7, <1>8, <1>9 DEF TokensNext

-----------------------------------------------------------------------------
(* The theorems *)

LEMMA Initially ==
    ASSUME TokensInit
    PROVE  TokensInv
<1>1. TokensTypeOK
  <2>1. NoTokens \in Tokens
    BY DEF NoTokens, Tokens
  <2>2. tokens \in [Server -> Tokens] /\ doing \in [Server -> Changing \cup {NoToken}]
    BY <2>1 DEF TokensInit
  <2>3. told \in [Token -> Window \cup {"unused", "unanswered", "revoked"}]
    BY DEF TokensInit
  <2>4. tokenFaults \in 0..MaxTokenFaults
    BY TokenConstants DEF TokensInit
  <2> QED BY <2>2, <2>3, <2>4 DEF TokensInit, TokensTypeOK
<1>2. Loaded = NoTokens /\ \A p \in Server : tokens[p] = NoTokens /\ Undone(p) = NoTokens
  BY DEF TokensInit, Loaded, Undone
<1>3. Good(NoTokens, told)
  BY DEF Good, NoTokens
<1>4. \A p \in Server : doing[p] = NoToken
  BY DEF TokensInit
<1>5. AllGood
  BY <1>2, <1>3, <1>4 DEF AllGood
<1>6. Agrees
  <2>1. \A t \in Token : told[t] = "unused" /\ told[t] \notin Window
    BY TokenConstants DEF TokensInit
  <2> QED BY <2>1 DEF Agrees, Holds, TokensInit
<1> QED BY <1>1, <1>5, <1>6 DEF TokensInv

LEMMA Inductive ==
    ASSUME TokensInv, [TokensNext]_tokenVars
    PROVE  TokensInv'
<1>1. TokensTypeOK'
  BY TokensTypeStep DEF TokensInv
<1>2. AllGood'
  BY <1>1, GoodStep DEF TokensInv
<1>3. Agrees'
  BY <1>1, AgreesStep DEF TokensInv
<1> QED BY <1>1, <1>2, <1>3 DEF TokensInv

LEMMA TokensInvAlways ==
    TokensSpec => []TokensInv
<1>1. TokensInit => TokensInv
  BY Initially
<1>2. TokensInv /\ [TokensNext]_tokenVars => TokensInv'
  BY Inductive
<1> QED BY <1>1, <1>2, PTL DEF TokensSpec

\* The token store, its Secret and the changes under way stay well formed.
THEOREM TokensTypeCorrect ==
    TokensSpec => []TokensTypeOK
<1>1. TokensInv => TokensTypeOK
  BY DEF TokensInv
<1> QED BY <1>1, TokensInvAlways, PTL

\* What people were told of a token is what is saved and what requests are
\* checked against (tokens.go, token_persistence.go), through failed writes,
\* conflicts and restarts of any number of processes.
THEOREM AnswersLast ==
    TokensSpec => []TokensAsAnswered
<1>1. TokensInv => TokensAsAnswered
  BY DEF TokensInv, Agrees, TokensAsAnswered, Undone, TokensTypeOK
<1> QED BY <1>1, TokensInvAlways, PTL

-----------------------------------------------------------------------------
(* Part three: ConnectionBell, for any codes and any cap of the list that    *)
(* has room for two alerts.                                                  *)


\* A set of numbers that is not empty has a least one: induction, for the provers.
LEMMA Least ==
    ASSUME NEW T, T \subseteq Nat, T # {}
    PROVE  \E x \in T : \A y \in T : x <= y
<1>1. IsWellFoundedOn(OpToRel(<,Nat), Nat)
  BY NatLessThanWellFounded
<1>2. PICK x \in T : \A y \in T : ~ (<<y, x>> \in OpToRel(<,Nat))
  BY <1>1, WFMin
<1>3. \A y \in T : ~(y < x)
  BY <1>2 DEF OpToRel
<1> QED BY <1>3

\* What is left of a list after its first k entries.
LeftAt(list, ids, g, i) ==
    IF i = 0 THEN <<>>
    ELSE IF list[i].id \in ids THEN g[i - 1]
    ELSE Append(g[i - 1], list[i])

LEMMA LeftExists ==
    ASSUME NEW list \in Seq(Entry), NEW ids
    PROVE  \E g : g = [i \in 0..Len(list) |-> LeftAt(list, ids, g, i)]
<1> DEFINE Has(m) == \E g : g = [i \in 0..m |-> LeftAt(list, ids, g, i)]
           T == {m \in 0..Len(list) : ~Has(m)}
<1> SUFFICES ASSUME T # {} PROVE FALSE
  OBVIOUS
<1>1. PICK m \in T : \A y \in T : m <= y
  <2>1. T \subseteq Nat
    OBVIOUS
  <2> QED BY <2>1, Least
<1>2. m \in 0..Len(list) /\ ~Has(m)
  BY <1>1
<1>3. CASE m = 0
  <2> DEFINE g == [i \in 0..0 |-> <<>>]
  <2>1. g = [i \in 0..0 |-> LeftAt(list, ids, g, i)]
    BY DEF LeftAt
  <2> QED BY <2>1, <1>2, <1>3
<1>4. CASE m # 0
  <2>1. m - 1 \in 0..Len(list) /\ m - 1 \notin T
    BY <1>1, <1>2, <1>4
  <2>2. PICK g : g = [i \in 0..(m - 1) |-> LeftAt(list, ids, g, i)]
    BY <2>1
  <2> DEFINE h == [i \in 0..m |-> IF i = m THEN LeftAt(list, ids, g, m) ELSE g[i]]
  <2>5. m \in Nat /\ m > 0
    BY <1>2, <1>4
  <2>6. \A i \in 0..(m - 1) : h[i] = g[i] /\ i \in 0..m
    BY <2>5
  <2> HIDE DEF h
  <2>7. \A i \in 0..m : LeftAt(list, ids, h, i) = LeftAt(list, ids, g, i)
    <3> SUFFICES ASSUME NEW i \in 0..m, i # 0 PROVE h[i - 1] = g[i - 1]
      BY DEF LeftAt
    <3> QED BY <2>5, <2>6
  <2>8. \A i \in 0..(m - 1) : g[i] = LeftAt(list, ids, g, i)
    BY <2>2
  <2>9. \A i \in 0..m : i # m => i \in 0..(m - 1)
    BY <2>5
  <2>3. \A i \in 0..m : h[i] = LeftAt(list, ids, h, i)
    BY <2>6, <2>7, <2>8, <2>9 DEF h
  <2> USE DEF h
  <2>4. h = [i \in 0..m |-> LeftAt(list, ids, h, i)]
    BY <2>3
  <2> QED BY <2>4, <1>2
<1> QED BY <1>3, <1>4

LEMMA ResolvedIs ==
    ASSUME NEW list \in Seq(Entry), NEW ids
    PROVE  \E g : /\ Resolved(list, ids) = g[Len(list)]
                  /\ g = [i \in 0..Len(list) |-> LeftAt(list, ids, g, i)]
<1> DEFINE left == CHOOSE g : g = [i \in 0..Len(list) |-> LeftAt(list, ids, g, i)]
<1>1. left = [i \in 0..Len(list) |-> LeftAt(list, ids, left, i)]
  BY LeftExists
<1>2. Resolved(list, ids) = left[Len(list)]
  BY DEF Resolved, LeftAt
<1> QED BY <1>1, <1>2

Distinct(list) == \A i, j \in 1..Len(list) : list[i].id = list[j].id => i = j

\* s is what ids leave of the first k entries of list.
Leaves(list, ids, k, s) ==
    /\ s \in Seq(Entry) /\ Len(s) <= k
    /\ \A i \in 1..Len(s) : \E j \in 1..k : s[i] = list[j] /\ list[j].id \notin ids
    /\ \A j \in 1..k : list[j].id \notin ids => \E i \in 1..Len(s) : s[i] = list[j]
    /\ Distinct(list) => Distinct(s)

LEMMA LeavesNone == ASSUME NEW list \in Seq(Entry), NEW ids PROVE Leaves(list, ids, 0, <<>>)
BY DEF Leaves, Distinct

LEMMA LeavesNext ==
    ASSUME NEW list \in Seq(Entry), NEW ids, NEW k \in 1..Len(list), NEW s, Leaves(list, ids, k - 1, s)
    PROVE  /\ list[k].id \in ids => Leaves(list, ids, k, s)
           /\ list[k].id \notin ids => Leaves(list, ids, k, Append(s, list[k]))
<1> k \in Nat /\ k > 0 /\ list[k] \in Entry /\ s \in Seq(Entry) /\ Len(s) \in Nat /\ Len(s) <= k - 1
  BY DEF Leaves
<1>0. \A j \in 1..k : j = k \/ j \in 1..(k - 1)
  OBVIOUS
<1>1. CASE list[k].id \in ids
  BY <1>0, <1>1 DEF Leaves
<1>2. CASE list[k].id \notin ids
  <2> DEFINE t == Append(s, list[k])
  <2>1. /\ t \in Seq(Entry) /\ Len(t) = Len(s) + 1 /\ t[Len(t)] = list[k]
        /\ \A i \in 1..Len(s) : t[i] = s[i]
    OBVIOUS
  <2>2. \A i \in 1..Len(t) : i = Len(t) \/ i \in 1..Len(s)
    BY <2>1
  <2> HIDE DEF t
  <2>3. \A i \in 1..Len(t) : \E j \in 1..k : t[i] = list[j] /\ list[j].id \notin ids
    <3> TAKE i \in 1..Len(t)
    <3>1. CASE i = Len(t)
      BY <2>1, <3>1, <1>2
    <3>2. CASE i \in 1..Len(s)
      <4>1. PICK j \in 1..(k - 1) : s[i] = list[j] /\ list[j].id \notin ids
        BY <3>2 DEF Leaves
      <4> QED BY <4>1, <3>2, <2>1
    <3> QED BY <3>1, <3>2, <2>2
  <2>4. \A j \in 1..k : list[j].id \notin ids => \E i \in 1..Len(t) : t[i] = list[j]
    <3> SUFFICES ASSUME NEW j \in 1..k, list[j].id \notin ids PROVE \E i \in 1..Len(t) : t[i] = list[j]
      OBVIOUS
    <3>1. CASE j = k
      BY <3>1, <2>1
    <3>2. CASE j \in 1..(k - 1)
      <4>1. PICK i \in 1..Len(s) : s[i] = list[j]
        BY <3>2 DEF Leaves
      <4> QED BY <4>1, <2>1
    <3> QED BY <3>1, <3>2, <1>0
  <2>5. Distinct(list) => Distinct(t)
    <3> SUFFICES ASSUME Distinct(list), NEW i \in 1..Len(t), NEW j \in 1..Len(t), t[i].id = t[j].id
                 PROVE  i = j
      BY DEF Distinct
    <3>1. \A m \in 1..Len(s) : t[m].id # list[k].id
      <4> TAKE m \in 1..Len(s)
      <4>1. PICK a \in 1..(k - 1) : s[m] = list[a]
        BY DEF Leaves
      <4>2. a \in 1..Len(list) /\ k \in 1..Len(list) /\ a # k
        BY <4>1
      <4>3. list[a].id # list[k].id
        BY <4>2 DEF Distinct
      <4> QED BY <4>1, <4>3, <2>1
    <3>2. \A m, l \in 1..Len(s) : t[m].id = t[l].id => m = l
      BY <2>1 DEF Leaves, Distinct
    <3>3. CASE i = Len(t)
      BY <3>3, <2>1, <2>2, <3>1
    <3>4. CASE i \in 1..Len(s) /\ j = Len(t)
      BY <3>4, <2>1, <3>1
    <3>5. CASE i \in 1..Len(s) /\ j \in 1..Len(s)
      BY <3>5, <3>2
    <3> QED BY <2>2, <3>3, <3>4, <3>5
  <2>6. Len(t) <= k
    BY <2>1
  <2>7. Leaves(list, ids, k, t)
    BY <2>1, <2>3, <2>4, <2>5, <2>6 DEF Leaves
  <2> QED BY <1>2, <2>7 DEF t
<1> QED BY <1>1, <1>2

LEMMA ResolvedLeaves ==
    ASSUME NEW list \in Seq(Entry), NEW ids
    PROVE  Leaves(list, ids, Len(list), Resolved(list, ids))
<1>1. PICK g : /\ Resolved(list, ids) = g[Len(list)]
              /\ g = [i \in 0..Len(list) |-> LeftAt(list, ids, g, i)]
  BY ResolvedIs
<1>a. \A i \in 0..Len(list) : g[i] = LeftAt(list, ids, g, i)
  BY <1>1
<1> DEFINE T == {m \in 0..Len(list) : ~Leaves(list, ids, m, g[m])}
<1>2. T = {}
  <2> SUFFICES ASSUME T # {} PROVE FALSE
    OBVIOUS
  <2>1. PICK m \in T : \A y \in T : m <= y
    <3>1. T \subseteq Nat
      OBVIOUS
    <3> QED BY <3>1, Least
  <2>2. m \in 0..Len(list) /\ ~Leaves(list, ids, m, g[m])
    BY <2>1
  <2>3. CASE m = 0
    BY <2>2, <2>3, <1>a, LeavesNone DEF LeftAt
  <2>4. CASE m # 0
    <3>1. m \in 1..Len(list) /\ m - 1 \in 0..Len(list) /\ m - 1 \notin T
      BY <2>1, <2>2, <2>4
    <3>2. Leaves(list, ids, m - 1, g[m - 1])
      BY <3>1
    <3>3. g[m] = IF list[m].id \in ids THEN g[m - 1] ELSE Append(g[m - 1], list[m])
      BY <2>2, <2>4, <1>a DEF LeftAt
    <3> QED BY <2>2, <3>1, <3>2, <3>3, LeavesNext
  <2> QED BY <2>3, <2>4
<1> QED BY <1>1, <1>2

-----------------------------------------------------------------------------
(* What the operations make of a list *)

Fit(list) == list \in Seq(Entry) /\ Len(list) <= MaxItems /\ Distinct(list)
On(entry, list) == \E i \in 1..Len(list) : list[i] = entry

LEMMA IdsAre ==
    ASSUME NEW list, NEW id
    PROVE  id \in Ids(list) <=> \E i \in 1..Len(list) : list[i].id = id
BY DEF Ids

LEMMA CappedParts ==
    ASSUME NEW list \in Seq(Entry)
    PROVE  /\ Capped(list) \in Seq(Entry)
           /\ Len(Capped(list)) = IF Len(list) < MaxItems THEN Len(list) ELSE MaxItems
           /\ \A i \in 1..Len(Capped(list)) : i \in 1..Len(list) /\ Capped(list)[i] = list[i]
<1> DEFINE n == IF Len(list) < MaxItems THEN Len(list) ELSE MaxItems
<1>1. n \in Nat /\ n <= Len(list) /\ Len(list) \in Nat
  BY ListConstants
<1> HIDE DEF n
<1>2. SubSeq(list, 1, n) \in Seq(Entry) /\ Len(SubSeq(list, 1, n)) = n
  BY <1>1
<1>3. \A i \in 1..n : SubSeq(list, 1, n)[i] = list[i] /\ i \in 1..Len(list)
  BY <1>1
<1>4. Capped(list) = SubSeq(list, 1, n)
  BY DEF Capped, n
<1> QED BY <1>2, <1>3, <1>4 DEF n

LEMMA CappedFits ==
    ASSUME NEW list \in Seq(Entry), Distinct(list)
    PROVE  /\ Fit(Capped(list)) /\ Ids(Capped(list)) \subseteq Ids(list)
           /\ Len(list) <= MaxItems => \A i \in 1..Len(list) : On(list[i], Capped(list))
<1> DEFINE c == Capped(list)
<1>1. c \in Seq(Entry) /\ Len(c) \in Nat /\ Len(c) <= MaxItems /\ Len(list) \in Nat
      /\ (Len(list) <= MaxItems => Len(c) = Len(list))
      /\ \A i \in 1..Len(c) : i \in 1..Len(list) /\ c[i] = list[i]
  <2>1. c \in Seq(Entry) /\ Len(c) = IF Len(list) < MaxItems THEN Len(list) ELSE MaxItems
    BY CappedParts
  <2>2. \A i \in 1..Len(c) : i \in 1..Len(list) /\ c[i] = list[i]
    BY CappedParts
  <2> HIDE DEF c
  <2>3. MaxItems \in Nat /\ Len(list) \in Nat
    BY ListConstants
  <2> QED BY <2>1, <2>2, <2>3
<1> HIDE DEF c
<1>2. Distinct(c)
  BY <1>1 DEF Distinct
<1>3. Ids(c) \subseteq Ids(list)
  BY <1>1 DEF Ids
<1>4. Len(list) <= MaxItems => \A i \in 1..Len(list) : On(list[i], c)
  BY <1>1 DEF On
<1> QED BY <1>1, <1>2, <1>3, <1>4 DEF c, Fit

New(id) == [id |-> id, read |-> FALSE]

LEMMA Prepended ==
    ASSUME NEW list \in Seq(Entry), NEW id \in Id
    PROVE  LET more == <<New(id)>> \o list
           IN  /\ more \in Seq(Entry) /\ Len(more) = Len(list) + 1 /\ more[1] = New(id)
               /\ \A i \in 1..Len(list) : more[i + 1] = list[i]
               /\ \A i \in 2..Len(more) : i - 1 \in 1..Len(list) /\ more[i] = list[i - 1]
<1> New(id) \in Entry
  BY DEF New, Entry
<1> QED OBVIOUS

LEMMA AddedFits ==
    ASSUME NEW list, Fit(list), NEW id \in Id
    PROVE  LET more == Added(list, id)
           IN  /\ Fit(more) /\ Ids(more) \subseteq Ids(list) \cup {id} /\ id \in Ids(more)
               /\ id \in Ids(list) => more = list
               /\ Len(list) < MaxItems => \A i \in 1..Len(list) : On(list[i], more)
<1>1. CASE id \in Ids(list)
  <2>1. Added(list, id) = list
    BY <1>1, BellConstants DEF Added, Listed
  <2> QED BY <2>1, <1>1 DEF On
<1>2. CASE id \notin Ids(list)
  <2> DEFINE more == <<New(id)>> \o list
  <2>1. /\ list \in Seq(Entry) /\ Len(list) \in Nat
        /\ more \in Seq(Entry) /\ Len(more) = Len(list) + 1 /\ more[1] = New(id)
        /\ \A i \in 1..Len(list) : more[i + 1] = list[i]
        /\ \A i \in 2..Len(more) : i - 1 \in 1..Len(list) /\ more[i] = list[i - 1]
    BY Prepended DEF Fit
  <2>2. Added(list, id) = Capped(more)
    BY <1>2 DEF Added, Listed, New
  <2> HIDE DEF more
  <2>3. New(id).id = id
    BY DEF New
  <2>4. \A i \in 1..Len(more) : i = 1 \/ i \in 2..Len(more)
    BY <2>1
  <2>5. \A i \in 2..Len(more) : more[i].id # id
    BY <2>1, <1>2 DEF Ids
  <2>6. Distinct(more)
    <3> SUFFICES ASSUME NEW i \in 1..Len(more), NEW j \in 1..Len(more), more[i].id = more[j].id
                 PROVE  i = j
      BY DEF Distinct
    <3>1. CASE i = 1
      BY <3>1, <2>1, <2>3, <2>4, <2>5
    <3>2. CASE j = 1
      BY <3>2, <2>1, <2>3, <2>4, <2>5
    <3>3. CASE i \in 2..Len(more) /\ j \in 2..Len(more)
      <4>1. i - 1 \in 1..Len(list) /\ j - 1 \in 1..Len(list) /\ list[i - 1].id = list[j - 1].id
        BY <3>3, <2>1
      <4>2. i - 1 = j - 1
        BY <4>1 DEF Fit, Distinct
      <4> QED BY <4>2
    <3> QED BY <3>1, <3>2, <3>3, <2>4
  <2>7. Ids(more) \subseteq Ids(list) \cup {id}
    <3> SUFFICES ASSUME NEW i \in 1..Len(more) PROVE more[i].id \in Ids(list) \cup {id}
      BY DEF Ids
    <3>1. CASE i = 1
      BY <3>1, <2>1, <2>3
    <3>2. CASE i \in 2..Len(more)
      BY <3>2, <2>1 DEF Ids
    <3> QED BY <3>1, <3>2, <2>4
  <2>8. Fit(Capped(more)) /\ Ids(Capped(more)) \subseteq Ids(more)
    BY <2>1, <2>6, CappedFits
  <2>9. id \in Ids(Capped(more))
    <3>1. 1 \in 1..Len(Capped(more))
      BY <2>1, CappedParts, ListConstants
    <3>2. Capped(more)[1].id = id
      BY <2>1, <2>3, <3>1, CappedParts
    <3> QED BY <3>1, <3>2 DEF Ids
  <2>10. Len(list) < MaxItems => \A i \in 1..Len(list) : On(list[i], Capped(more))
    <3> SUFFICES ASSUME Len(list) < MaxItems, NEW i \in 1..Len(list) PROVE On(list[i], Capped(more))
      OBVIOUS
    <3>1. Len(more) <= MaxItems /\ i + 1 \in 1..Len(more)
      BY <2>1, ListConstants
    <3>2. On(more[i + 1], Capped(more))
      BY <2>1, <2>6, <3>1, CappedFits
    <3> QED BY <2>1, <3>2
  <2> QED BY <1>2, <2>2, <2>7, <2>8, <2>9, <2>10
<1> QED BY <1>1, <1>2

LEMMA ResolvedFits ==
    ASSUME NEW list, Fit(list), NEW ids
    PROVE  LET rest == Resolved(list, ids)
           IN  /\ Fit(rest) /\ Ids(rest) = Ids(list) \ ids /\ Len(rest) <= Len(list)
               /\ \A i \in 1..Len(list) : list[i].id \notin ids => On(list[i], rest)
<1> DEFINE rest == Resolved(list, ids)
<1>1. list \in Seq(Entry) /\ Len(list) <= MaxItems /\ Distinct(list) /\ Leaves(list, ids, Len(list), rest)
  BY ResolvedLeaves DEF Fit
<1> HIDE DEF rest
<1>2. rest \in Seq(Entry) /\ Len(rest) <= Len(list) /\ Distinct(rest)
  BY <1>1 DEF Leaves
<1>3. \A i \in 1..Len(list) : list[i].id \notin ids => On(list[i], rest)
  BY <1>1 DEF Leaves, On
<1>4. Ids(rest) \subseteq Ids(list) \ ids
  <2> SUFFICES ASSUME NEW i \in 1..Len(rest) PROVE rest[i].id \in Ids(list) \ ids
    BY DEF Ids
  <2>1. PICK j \in 1..Len(list) : rest[i] = list[j] /\ list[j].id \notin ids
    BY <1>1 DEF Leaves
  <2> QED BY <2>1 DEF Ids
<1>5. Ids(list) \ ids \subseteq Ids(rest)
  <2> SUFFICES ASSUME NEW j \in 1..Len(list), list[j].id \notin ids PROVE list[j].id \in Ids(rest)
    BY DEF Ids
  <2>1. PICK i \in 1..Len(rest) : rest[i] = list[j]
    BY <1>3 DEF On
  <2> QED BY <2>1 DEF Ids
<1>6. Len(rest) <= MaxItems
  BY <1>1, <1>2, ListConstants
<1> QED BY <1>2, <1>3, <1>4, <1>5, <1>6 DEF rest, Fit

LEMMA MarkedFits ==
    ASSUME NEW list, Fit(list), NEW ids
    PROVE  LET marked == MarkedRead(list, ids)
           IN  /\ Fit(marked) /\ Ids(marked) = Ids(list)
               /\ \A i \in 1..Len(list) : list[i].read => On(list[i], marked)
<1> DEFINE marked == MarkedRead(list, ids)
<1>1. list \in Seq(Entry) /\ Len(list) \in Nat /\ Len(list) <= MaxItems /\ Distinct(list)
  BY DEF Fit
<1>2. \A i \in 1..Len(list) : list[i] \in Entry
  BY <1>1
<1>3. \A i \in 1..Len(list) : /\ marked[i] \in Entry /\ marked[i].id = list[i].id
                              /\ list[i].read => marked[i] = list[i]
  BY <1>2 DEF MarkedRead, Entry
<1>4. marked = [i \in 1..Len(list) |-> marked[i]]
  BY DEF MarkedRead
<1> HIDE DEF marked
<1>5. marked \in Seq(Entry) /\ Len(marked) = Len(list)
  BY <1>1, <1>3, <1>4
<1>6. Distinct(marked)
  BY <1>1, <1>3, <1>5 DEF Distinct
<1>7. Ids(marked) = Ids(list)
  BY <1>3, <1>5 DEF Ids
<1>8. \A i \in 1..Len(list) : list[i].read => On(list[i], marked)
  BY <1>3, <1>5 DEF On
<1> QED BY <1>1, <1>5, <1>6, <1>7, <1>8 DEF marked, Fit

LEMMA Joined ==
    ASSUME NEW a \in Seq(Entry), NEW b \in Seq(Entry), Distinct(a), Distinct(b),
           Ids(a) \cap Ids(b) = {}
    PROVE  /\ a \o b \in Seq(Entry) /\ Distinct(a \o b) /\ Len(a \o b) = Len(a) + Len(b)
           /\ \A i \in 1..Len(a) : (a \o b)[i] = a[i]
           /\ Ids(a \o b) = Ids(a) \cup Ids(b)
<1> DEFINE s == a \o b
<1>1. s \in Seq(Entry) /\ Len(s) = Len(a) + Len(b) /\ Len(a) \in Nat /\ Len(b) \in Nat
  OBVIOUS
<1>2. \A i \in 1..Len(a) : s[i] = a[i] /\ i \in 1..Len(s)
  BY <1>1
<1>3. \A i \in 1..Len(s) : i \in 1..Len(a) \/ (i - Len(a) \in 1..Len(b) /\ s[i] = b[i - Len(a)])
  <2> TAKE i \in 1..Len(s)
  <2>1. i \in 1..Len(a) \/ i - Len(a) \in 1..Len(b)
    BY <1>1
  <2>2. i \notin 1..Len(a) => s[i] = b[i - Len(a)]
    BY <1>1
  <2> QED BY <2>1, <2>2
<1>4. \A j \in 1..Len(b) : s[j + Len(a)] = b[j] /\ j + Len(a) \in 1..Len(s)
  BY <1>1
<1> HIDE DEF s
<1>5. Distinct(s)
  <2> SUFFICES ASSUME NEW i \in 1..Len(s), NEW j \in 1..Len(s), s[i].id = s[j].id PROVE i = j
    BY DEF Distinct
  <2>1. \A k \in 1..Len(a), l \in 1..Len(b) : a[k].id # b[l].id
    BY DEF Ids
  <2>2. CASE i \in 1..Len(a) /\ j \in 1..Len(a)
    BY <2>2, <1>2 DEF Distinct
  <2>3. CASE i \in 1..Len(a) /\ j \notin 1..Len(a)
    BY <2>3, <2>1, <1>2, <1>3
  <2>4. CASE i \notin 1..Len(a) /\ j \in 1..Len(a)
    BY <2>4, <2>1, <1>2, <1>3
  <2>5. CASE i \notin 1..Len(a) /\ j \notin 1..Len(a)
    <3>1. /\ i - Len(a) \in 1..Len(b) /\ j - Len(a) \in 1..Len(b)
          /\ b[i - Len(a)].id = b[j - Len(a)].id
      BY <2>5, <1>3
    <3>2. i - Len(a) = j - Len(a)
      BY <3>1 DEF Distinct
    <3> QED BY <3>2, <1>1
  <2> QED BY <2>2, <2>3, <2>4, <2>5
<1>6. Ids(s) \subseteq Ids(a) \cup Ids(b)
  <2> SUFFICES ASSUME NEW i \in 1..Len(s) PROVE s[i].id \in Ids(a) \cup Ids(b)
    BY DEF Ids
  <2> QED BY <1>2, <1>3 DEF Ids
<1>7. Ids(a) \subseteq Ids(s)
  BY <1>2 DEF Ids
<1>8. Ids(b) \subseteq Ids(s)
  BY <1>4 DEF Ids
<1> QED BY <1>1, <1>2, <1>5, <1>6, <1>7, <1>8 DEF s

LEMMA MergedFits ==
    ASSUME Fit(items), Fit(saved)
    PROVE  /\ Fit(Merged) /\ Ids(Merged) \subseteq Ids(saved) \cup Ids(items)
           /\ \A i \in 1..Len(saved) : On(saved[i], Merged)
           /\ saved = <<>> => Ids(Merged) = Ids(items)
<1> DEFINE rest == Resolved(items, Ids(saved))
           both == saved \o rest
<1>1. /\ Fit(rest) /\ Ids(rest) = Ids(items) \ Ids(saved) /\ Len(rest) <= Len(items)
      /\ \A i \in 1..Len(items) : items[i].id \notin Ids(saved) => On(items[i], rest)
  BY ResolvedFits
<1>2. Merged = Capped(both)
  BY DEF Merged
<1> HIDE DEF rest
<1>3. /\ saved \in Seq(Entry) /\ rest \in Seq(Entry) /\ Distinct(saved) /\ Distinct(rest)
      /\ Len(saved) <= MaxItems /\ Len(items) <= MaxItems /\ Len(items) \in Nat
  BY <1>1 DEF Fit
<1>4. /\ both \in Seq(Entry) /\ Distinct(both) /\ Len(both) = Len(saved) + Len(rest)
      /\ \A i \in 1..Len(saved) : both[i] = saved[i]
      /\ Ids(both) = Ids(saved) \cup Ids(rest)
  BY <1>1, <1>3, Joined
<1> HIDE DEF both
<1>5. Fit(Merged) /\ Ids(Merged) \subseteq Ids(both)
      /\ (Len(both) <= MaxItems => \A i \in 1..Len(both) : On(both[i], Merged))
  BY <1>2, <1>4, CappedFits
<1>6. \A i \in 1..Len(saved) : On(saved[i], Merged)
  <2> TAKE i \in 1..Len(saved)
  <2>0. Len(saved) \in Nat /\ Len(rest) \in Nat
    BY <1>3
  <2>1. i \in 1..Len(Merged)
    <3>1. Len(Merged) = IF Len(both) < MaxItems THEN Len(both) ELSE MaxItems
      BY <1>2, <1>4, CappedParts
    <3>2. i \in Nat /\ 1 <= i /\ i <= Len(saved) /\ MaxItems \in Nat
      BY <2>0, ListConstants
    <3>3. Len(both) \in Nat /\ i <= Len(both) /\ i <= MaxItems
      BY <1>3, <1>4, <2>0, <3>2
    <3> QED BY <3>1, <3>2, <3>3
  <2>2. Merged[i] = saved[i]
    BY <1>2, <1>4, <2>1, CappedParts
  <2> QED BY <2>1, <2>2 DEF On
<1>7. saved = <<>> => Ids(Merged) = Ids(items)
  <2> SUFFICES ASSUME saved = <<>> PROVE Ids(Merged) = Ids(items)
    OBVIOUS
  <2>1. Len(saved) = 0 /\ Ids(saved) = {}
    BY DEF Ids
  <2>2. Ids(both) = Ids(items) /\ Len(both) <= MaxItems
    BY <1>1, <1>3, <1>4, <2>1, ListConstants
  <2>3. Ids(both) \subseteq Ids(Merged)
    <3> SUFFICES ASSUME NEW i \in 1..Len(both) PROVE both[i].id \in Ids(Merged)
      BY DEF Ids
    <3> QED BY <1>5, <2>2 DEF On, Ids
  <2> QED BY <1>5, <2>2, <2>3
<1> QED BY <1>1, <1>4, <1>5, <1>6, <1>7

\* A list in which no alert is twice has room for one that is not on it.
LEMMA Room ==
    ASSUME IsFiniteSet(Id), Cardinality(Id) <= MaxItems,
           NEW list, Fit(list), NEW id \in Id \ Ids(list)
    PROVE  Len(list) < MaxItems
<1>1. list \in Seq(Entry) /\ Len(list) \in Nat /\ Distinct(list)
  BY DEF Fit
<1>2. \A i \in 1..Len(list) : list[i].id \in Id \ {id}
  <2>1. \A i \in 1..Len(list) : list[i] \in Entry
    BY <1>1
  <2> QED BY <2>1 DEF Ids, Entry
<1> DEFINE f == [i \in 1..Len(list) |-> list[i].id]
<1>3. f \in Injection(1..Len(list), Id \ {id})
  <2>1. f \in [1..Len(list) -> Id \ {id}]
    BY <1>2
  <2>2. \A i, j \in 1..Len(list) : f[i] = f[j] => i = j
    BY <1>1 DEF Distinct
  <2> HIDE DEF f
  <2>3. DOMAIN f = 1..Len(list)
    BY <2>1
  <2> QED BY <2>1, <2>2, <2>3 DEF Injection, IsInjective
<1>4. IsFiniteSet(Id \ {id}) /\ Cardinality(Id \ {id}) = Cardinality(Id) - 1 /\ Cardinality(Id) \in Nat
  BY FS_RemoveElement, FS_CardinalityType
<1>5. Cardinality(1..Len(list)) = Len(list)
  <2>1. \A n \in Nat : Cardinality(1..n) = IF 1 <= n THEN n - 1 + 1 ELSE 0
    BY FS_Interval
  <2> QED BY <1>1, <2>1
<1> HIDE DEF f
<1>6. Cardinality(1..Len(list)) <= Cardinality(Id \ {id})
  <2>1. IsFiniteSet(Id \ {id})
    BY <1>4
  <2> QED BY ONLY <1>3, <2>1, FS_Injection
<1>7. Cardinality(Id \ {id}) <= MaxItems - 1
  BY <1>4, ListConstants
<1> QED BY <1>1, <1>4, <1>5, <1>6, <1>7, ListConstants

\* A list whose alerts have one id between them.
LEMMA OneId ==
    ASSUME NEW list, Fit(list), NEW id, Ids(list) \subseteq {id}
    PROVE  Len(list) < MaxItems
<1>1. list \in Seq(Entry) /\ Len(list) \in Nat /\ Distinct(list)
  BY DEF Fit
<1>2. \A i \in 1..Len(list) : list[i].id = id
  BY DEF Ids
<1>3. ~(1 \in 1..Len(list) /\ 2 \in 1..Len(list))
  BY <1>2, <1>1 DEF Distinct
<1> QED BY <1>1, <1>3, BellConstants, ListConstants

-----------------------------------------------------------------------------
(* The bell *)

Lists    == Distinct(items) /\ Distinct(saved)
Attached == (wired => booted) /\ (restarts = 0 /\ ~booted => saved = <<>>)
Polled   == last = "broken" => open \in Code
Recalled == Ids(items) \subseteq knew /\ (wired => Ids(saved) \subseteq knew)

BellInv == BellTypeOK /\ Lists /\ Attached /\ Polled /\ Recalled /\ BellTellsConnection

\* An operation leaves list in memory, and in the ConfigMap that, what an
\* earlier one saved on the way (mid), or what was there.
Writes(list, mid) ==
    /\ items' = list /\ knew' = knew \cup Ids(list)
    /\ UNCHANGED <<wired, booted, restarts>>
    /\ saved' = saved \/ (wired /\ saved' \in {list, mid})

LEMMA DoesWrites == ASSUME NEW list, Does(list) PROVE Writes(list, list)
BY DEF Does, Keep, KeepUnsaved, ListCalm, ListFault, listCounts, Writes

LEMMA FitLists == BellInv => Fit(items) /\ Fit(saved)
BY DEF BellInv, BellTypeOK, ListTypeOK, Lists, Fit

LEMMA FitIds == ASSUME NEW list, Fit(list) PROVE Ids(list) \subseteq Id
<1>1. \A i \in 1..Len(list) : list[i] \in Entry
  BY DEF Fit
<1> QED BY <1>1 DEF Ids, Entry

LEMMA WritesKeep ==
    ASSUME BellInv, NEW list, NEW mid, Fit(list), Fit(mid),
           Ids(mid) \subseteq Ids(items), Writes(list, mid)
    PROVE  ListTypeOK' /\ Lists' /\ Attached' /\ Recalled'
<1>1. Ids(list) \subseteq Id
  BY FitIds
<1>2. ListTypeOK'
  BY <1>1 DEF BellInv, BellTypeOK, ListTypeOK, Writes, Fit
<1>3. Lists'
  BY DEF BellInv, Lists, Writes, Fit
<1>4. Attached'
  BY DEF BellInv, Attached, Writes
<1>5. Recalled'
  BY DEF BellInv, Recalled, Writes
<1> QED BY <1>2, <1>3, <1>4, <1>5

LEMMA ClearsKeep == ASSUME BellInv, Clears PROVE BellInv'
<1>1. connection' = connection /\ last' = "healthy" /\ open' = Unknown /\ Polled'
  BY DEF Clears, Polled
<1>2. CASE last = "broken"
  <2> DEFINE list == Resolved(items, {open})
  <2>1. Writes(list, list)
    BY <1>2, DoesWrites DEF Clears
  <2>2. Fit(list) /\ Ids(list) = Ids(items) \ {open}
    BY FitLists, ResolvedFits
  <2> HIDE DEF list
  <2>3. ListTypeOK' /\ Lists' /\ Attached' /\ Recalled'
    BY <2>1, <2>2, WritesKeep
  <2>4. restarts' = restarts /\ items' = list
    BY <2>1 DEF Writes
  <2>5. BellTellsConnection'
    BY <1>1, <1>2, <2>2, <2>4 DEF BellInv, BellTellsConnection, Alerts
  <2> QED BY <1>1, <2>3, <2>5 DEF BellInv, BellTypeOK
<1>3. CASE last # "broken"
  <2>1. UNCHANGED listVars
    BY <1>3 DEF Clears
  <2>2. UNCHANGED <<items, saved, wired, booted, knew, restarts>>
    BY <2>1 DEF listVars, lists, listCounts
  <2> QED BY <1>1, <1>3, <2>2
        DEF BellInv, BellTypeOK, ListTypeOK, Lists, Attached, Recalled, BellTellsConnection, Alerts
<1> QED BY <1>2, <1>3

\* The alert of what is wrong now goes on a bell that has no alert of another kind.
LEMMA RaisesKeep == ASSUME BellInv, Raises PROVE BellInv'
<1> DEFINE cleared == Resolved(items, Stale)
           raised  == Added(cleared, connection)
<1>1. connection \in Code /\ connection' = connection /\ last' = "broken" /\ open' = connection /\ Polled'
  BY DEF Raises, Breaks, Polled, BellInv, BellTypeOK
<1>2. Fit(cleared) /\ Ids(cleared) = Ids(items) \ Stale
  BY FitLists, ResolvedFits
<1>3. Writes(raised, cleared)
  <2>1. CASE Does(raised)
    BY <2>1, DoesWrites DEF Writes
  <2>2. CASE ~Does(raised)
    BY <2>2 DEF Raises, ListFault, Writes
  <2> QED BY <2>1, <2>2
<1> HIDE DEF cleared
<1>4. /\ Fit(raised) /\ Ids(raised) \subseteq Ids(cleared) \cup {connection} /\ connection \in Ids(raised)
  BY <1>1, <1>2, AddedFits, BellConstants
<1> HIDE DEF raised
<1>5. ListTypeOK' /\ Lists' /\ Attached' /\ Recalled'
  BY <1>2, <1>3, <1>4, WritesKeep
<1>6. BellTellsConnection'
  <2> SUFFICES ASSUME restarts' = 0 PROVE Alerts(items)' = {connection}
    BY <1>1 DEF BellTellsConnection
  <2>1. restarts = 0 /\ items' = raised
    BY <1>3 DEF Writes
  <2>2. Ids(cleared) \cap Code = {}
    BY <1>2, <2>1 DEF BellInv, BellTellsConnection, Alerts, Stale, Raises, Breaks
  <2> QED BY <1>1, <1>4, <2>1, <2>2 DEF Alerts
<1> QED BY <1>1, <1>5, <1>6 DEF BellInv, BellTypeOK

LEMMA AsideKeeps ==
    ASSUME BellInv, NEW list, Fit(list), Does(list), Aside,
           restarts = 0 => Ids(list) \cap Code = Ids(items) \cap Code
    PROVE  BellInv'
<1>1. Writes(list, list)
  BY DoesWrites
<1>2. ListTypeOK' /\ Lists' /\ Attached' /\ Recalled'
  <2>1. CASE Ids(list) \subseteq Ids(items)
    BY <1>1, <2>1, WritesKeep
  <2>2. Writes(list, items)
    BY <1>1 DEF Writes
  <2> QED BY <2>2, FitLists, WritesKeep
<1>3. UNCHANGED <<connection, last, open>> /\ restarts' = restarts /\ items' = list
  BY <1>1 DEF Aside, Writes
<1>4. BellTellsConnection' /\ Polled'
  BY <1>3 DEF BellInv, BellTellsConnection, Polled, Alerts
<1> QED BY <1>2, <1>3, <1>4 DEF BellInv, BellTypeOK

LEMMA ChecksKeep == ASSUME BellInv, Checks PROVE BellInv'
<1> DEFINE list == Added(items, Upgrade)
<1>1. Fit(items) /\ Upgrade \in Id
  BY FitLists, BellConstants
<1>2. /\ Fit(list) /\ Ids(list) \subseteq Ids(items) \cup {Upgrade}
      /\ Upgrade \in Ids(items) => list = items
      /\ Len(items) < MaxItems => \A i \in 1..Len(items) : On(items[i], list)
  BY <1>1, AddedFits
<1>3. Does(list) /\ Aside
  BY DEF Checks
<1> HIDE DEF list
<1>4. ASSUME restarts = 0 PROVE Ids(list) \cap Code = Ids(items) \cap Code
  <2>1. CASE Upgrade \in Ids(items)
    BY <1>2, <2>1
  <2>2. CASE Upgrade \notin Ids(items)
    <3>1. Ids(items) \subseteq Code
      BY <1>1, <2>2, FitIds, BellConstants
    <3>2. Ids(items) \subseteq {open}
      BY <1>4, <3>1 DEF BellInv, BellTellsConnection, Alerts
    <3>3. Len(items) < MaxItems
      BY <1>1, <3>2, OneId
    <3>4. Ids(items) \subseteq Ids(list)
      BY <1>2, <3>3 DEF Ids, On
    <3> QED BY <1>2, <3>4, BellConstants
  <2> QED BY <2>1, <2>2
<1> QED BY <1>2, <1>3, <1>4, AsideKeeps

LEMMA ReadsKeep == ASSUME BellInv, (\E id \in Id : MarkRead(id)) \/ MarkAllRead PROVE BellInv'
<1>1. PICK ids : Does(MarkedRead(items, ids)) /\ Aside
  BY DEF MarkRead, MarkAllRead
<1>2. Fit(MarkedRead(items, ids)) /\ Ids(MarkedRead(items, ids)) = Ids(items)
  BY FitLists, MarkedFits
<1> QED BY <1>1, <1>2, AsideKeeps

LEMMA AttachKeeps == ASSUME BellInv, (Attach \/ AttachFails) /\ Aside PROVE BellInv'
<1>1. UNCHANGED <<connection, last, open>>
  BY DEF Aside
<1>2. CASE Attach
  <2>1. Fit(items) /\ Fit(saved)
    BY FitLists
  <2>2. /\ Fit(Merged) /\ Ids(Merged) \subseteq Ids(saved) \cup Ids(items)
        /\ saved = <<>> => Ids(Merged) = Ids(items)
    BY <2>1, MergedFits
  <2>3. /\ ~booted /\ booted' = TRUE /\ wired' = TRUE /\ items' = Merged
        /\ knew' = knew \cup Ids(saved) /\ restarts' = restarts
        /\ saved' = Merged \/ saved' = saved
    BY <1>2 DEF Attach, ListCalm, ListFault, listCounts
  <2>4. ListTypeOK'
    BY <2>1, <2>2, <2>3, FitIds DEF BellInv, BellTypeOK, ListTypeOK, Fit
  <2>5. Lists' /\ Attached' /\ Polled'
    BY <1>1, <2>1, <2>2, <2>3 DEF BellInv, Lists, Attached, Polled, Fit
  <2>6. Recalled'
    BY <2>2, <2>3 DEF BellInv, Recalled
  <2>7. BellTellsConnection'
    BY <1>1, <2>2, <2>3 DEF BellInv, BellTellsConnection, Alerts, Attached
  <2> QED BY <1>1, <2>4, <2>5, <2>6, <2>7 DEF BellInv, BellTypeOK
<1>3. CASE AttachFails
  <2>1. booted' = TRUE /\ wired' = FALSE /\ UNCHANGED <<items, saved, knew, restarts>>
    BY <1>3, BellConstants DEF AttachFails, WiredBeforeRead, lists, ListFault
  <2> QED BY <1>1, <2>1
        DEF BellInv, BellTypeOK, ListTypeOK, Lists, Attached, Polled, Recalled, BellTellsConnection, Alerts
<1> QED BY <1>2, <1>3

LEMMA BellStep == BellInv /\ [BellNext]_bellVars => BellInv'
<1> SUFFICES ASSUME BellInv, [BellNext]_bellVars PROVE BellInv'
  OBVIOUS
<1>1. CASE Clears
  BY <1>1, ClearsKeep
<1>2. CASE Raises
  BY <1>2, RaisesKeep
<1>3. CASE Checks
  BY <1>3, ChecksKeep
<1>4. CASE (\E id \in Id : MarkRead(id)) \/ MarkAllRead
  BY <1>4, ReadsKeep
<1>5. CASE (Attach \/ AttachFails) /\ Aside
  BY <1>5, AttachKeeps
<1>6. CASE Turns \/ UNCHANGED bellVars
  <2>1. UNCHANGED <<items, saved, wired, booted, knew, restarts, last, open>>
        /\ connection' \in Code \cup {Healthy}
    BY <1>6 DEF Turns, bellVars, listVars, lists, listCounts, BellInv, BellTypeOK
  <2> QED BY <2>1
        DEF BellInv, BellTypeOK, ListTypeOK, Lists, Attached, Polled, Recalled, BellTellsConnection, Alerts
<1>7. CASE BellRestarts
  <2>1. /\ items' = <<>> /\ wired' = FALSE /\ booted' = FALSE /\ knew' = {} /\ saved' = saved
        /\ restarts' = restarts + 1 /\ restarts < MaxRestarts
        /\ last' = "unknown" /\ open' = Unknown /\ connection' = connection
    BY <1>7 DEF BellRestarts, ListRestart
  <2>2. restarts' \in 0..MaxRestarts /\ restarts' # 0
    BY <2>1, ListConstants DEF BellInv, BellTypeOK, ListTypeOK
  <2>3. Ids(<<>>) = {} /\ Distinct(<<>>) /\ <<>> \in Seq(Entry) /\ Len(<<>>) <= MaxItems
    BY ListConstants DEF Ids, Distinct
  <2> QED BY <2>1, <2>2, <2>3
        DEF BellInv, BellTypeOK, ListTypeOK, Lists, Attached, Polled, Recalled, BellTellsConnection
<1> QED BY <1>1, <1>2, <1>3, <1>4, <1>5, <1>6, <1>7 DEF BellNext

LEMMA BellInitially == BellInit => BellInv
<1> SUFFICES ASSUME BellInit PROVE BellInv
  OBVIOUS
<1>1. /\ items = <<>> /\ saved = <<>> /\ wired = FALSE /\ booted = FALSE /\ knew = {} /\ restarts = 0
      /\ connection = Healthy /\ last = "unknown" /\ open = Unknown
  BY DEF BellInit, ListInit
<1>2. Ids(<<>>) = {} /\ Distinct(<<>>) /\ <<>> \in Seq(Entry) /\ Len(<<>>) <= MaxItems /\ 0 \in 0..MaxRestarts
  BY ListConstants DEF Ids, Distinct
<1> QED BY <1>1, <1>2
      DEF BellInv, BellTypeOK, ListTypeOK, Lists, Attached, Polled, Recalled, BellTellsConnection, Alerts

LEMMA BellAlways == BellSpec => []BellInv
BY BellInitially, BellStep, PTL DEF BellSpec

-----------------------------------------------------------------------------
(* Alerts are kept *)

\* The checker's alert is on the list, marked as read.
UpRead(list) == On([id |-> Upgrade, read |-> TRUE], list)
RKInv == BellInv /\ (wired /\ UpRead(saved) => UpRead(items))
UpStays == UpRead(saved) => UpRead(saved')

LEMMA ReadUpgrade ==
    ASSUME NEW list, Fit(list)
    PROVE  Upgrade \in Ids(list) \ UnreadIds(list) <=> UpRead(list)
<1>1. \A i \in 1..Len(list) : list[i] = [id |-> list[i].id, read |-> list[i].read] /\ list[i].read \in BOOLEAN
  <2>1. \A e \in Entry : e = [id |-> e.id, read |-> e.read] /\ e.read \in BOOLEAN
    BY DEF Entry
  <2>2. \A i \in 1..Len(list) : list[i] \in Entry
    BY DEF Fit
  <2> QED BY <2>1, <2>2
<1>2. ASSUME Upgrade \in Ids(list) \ UnreadIds(list) PROVE UpRead(list)
  <2>1. PICK i \in 1..Len(list) : list[i].id = Upgrade
    BY <1>2 DEF Ids
  <2>2. list[i].read
    BY <1>2, <2>1 DEF UnreadIds
  <2> QED BY <1>1, <2>1, <2>2 DEF UpRead, On
<1>3. ASSUME UpRead(list) PROVE Upgrade \in Ids(list) \ UnreadIds(list)
  <2>1. PICK i \in 1..Len(list) : list[i] = [id |-> Upgrade, read |-> TRUE]
    BY <1>3 DEF UpRead, On
  <2>2. \A j \in 1..Len(list) : list[j].id = Upgrade => j = i
    BY <2>1 DEF Fit, Distinct
  <2> QED BY <2>1, <2>2 DEF Ids, UnreadIds
<1> QED BY <1>2, <1>3

LEMMA AddedKeepsRead ==
    ASSUME IsFiniteSet(Id), Cardinality(Id) <= MaxItems,
           NEW list, Fit(list), UpRead(list), NEW id \in Id
    PROVE  UpRead(Added(list, id))
<1>1. CASE id \in Ids(list)
  BY <1>1, AddedFits
<1>2. CASE id \notin Ids(list)
  <2>1. Len(list) < MaxItems
    BY <1>2, Room
  <2>2. \A i \in 1..Len(list) : On(list[i], Added(list, id))
    BY <2>1, AddedFits
  <2> QED BY <2>2 DEF UpRead, On
<1> QED BY <1>1, <1>2

LEMMA ResolvedKeepsRead ==
    ASSUME NEW list, Fit(list), UpRead(list), NEW ids, Upgrade \notin ids
    PROVE  UpRead(Resolved(list, ids))
<1>1. PICK i \in 1..Len(list) : list[i] = [id |-> Upgrade, read |-> TRUE]
  BY DEF UpRead, On
<1>2. \A j \in 1..Len(list) : list[j].id \notin ids => On(list[j], Resolved(list, ids))
  BY ResolvedFits
<1> QED BY <1>1, <1>2 DEF UpRead

LEMMA MarkedKeepsRead ==
    ASSUME NEW list, Fit(list), UpRead(list), NEW ids
    PROVE  UpRead(MarkedRead(list, ids))
<1>1. PICK i \in 1..Len(list) : list[i] = [id |-> Upgrade, read |-> TRUE]
  BY DEF UpRead, On
<1>2. \A j \in 1..Len(list) : list[j].read => On(list[j], MarkedRead(list, ids))
  BY MarkedFits
<1> QED BY <1>1, <1>2 DEF UpRead

LEMMA WritesKeepRead ==
    ASSUME RKInv, NEW list, NEW mid, Writes(list, mid),
           UpRead(items) => UpRead(mid), UpRead(mid) => UpRead(list)
    PROVE  (wired' /\ UpRead(saved') => UpRead(items')) /\ UpStays
<1>1. CASE saved' = saved
  BY <1>1 DEF RKInv, Writes, UpStays
<1>2. CASE wired /\ saved' \in {list, mid}
  BY <1>2 DEF RKInv, Writes, UpStays
<1> QED BY <1>1, <1>2 DEF Writes

LEMMA BellStepKeepsRead ==
    ASSUME IsFiniteSet(Id), Cardinality(Id) <= MaxItems, RKInv, [BellNext]_bellVars
    PROVE  (wired' /\ UpRead(saved') => UpRead(items')) /\ UpStays
<1>0. BellInv /\ Fit(items) /\ Fit(saved) /\ Upgrade \in Id /\ Upgrade \notin Code
  BY FitLists, BellConstants DEF RKInv
<1>u. CASE UNCHANGED <<items, saved, wired>>
  BY <1>u DEF RKInv, UpStays
<1>1. CASE Clears
  <2>1. CASE last = "broken"
    <3>1. Writes(Resolved(items, {open}), Resolved(items, {open}))
      BY <1>1, <2>1, DoesWrites DEF Clears
    <3>2. UpRead(items) => UpRead(Resolved(items, {open}))
      BY <1>0, <2>1, ResolvedKeepsRead DEF BellInv, Polled
    <3> QED BY <3>1, <3>2, WritesKeepRead
  <2>2. CASE last # "broken"
    BY <1>1, <2>2, <1>u DEF Clears, listVars, lists
  <2> QED BY <2>1, <2>2
<1>2. CASE Raises
  <2> DEFINE cleared == Resolved(items, Stale)
             raised  == Added(cleared, connection)
  <2>1. connection \in Id /\ Upgrade \notin Stale
    BY <1>0, <1>2, BellConstants DEF Raises, Breaks, Stale, BellInv, BellTypeOK, Polled
  <2>2. Writes(raised, cleared)
    <3>1. CASE Does(raised)
      BY <3>1, DoesWrites DEF Writes
    <3>2. CASE ~Does(raised)
      BY <1>2, <3>2 DEF Raises, ListFault, Writes
    <3> QED BY <3>1, <3>2
  <2>3. Fit(cleared) /\ (UpRead(items) => UpRead(cleared))
    BY <1>0, <2>1, ResolvedFits, ResolvedKeepsRead
  <2> HIDE DEF cleared
  <2>4. UpRead(cleared) => UpRead(raised)
    BY <2>1, <2>3, AddedKeepsRead
  <2> QED BY <2>2, <2>3, <2>4, WritesKeepRead
<1>3. CASE Checks
  <2>1. Writes(Added(items, Upgrade), Added(items, Upgrade))
    BY <1>3, DoesWrites DEF Checks
  <2> QED BY <1>0, <2>1, AddedKeepsRead, WritesKeepRead
<1>4. CASE (\E id \in Id : MarkRead(id)) \/ MarkAllRead
  <2>1. PICK ids : Does(MarkedRead(items, ids))
    BY <1>4 DEF MarkRead, MarkAllRead
  <2>2. Writes(MarkedRead(items, ids), MarkedRead(items, ids))
    BY <2>1, DoesWrites
  <2> QED BY <1>0, <2>2, MarkedKeepsRead, WritesKeepRead
<1>5. CASE Attach
  <2>1. \A i \in 1..Len(saved) : On(saved[i], Merged)
    BY <1>0, MergedFits
  <2>2. UpRead(saved) => UpRead(Merged)
    BY <2>1 DEF UpRead, On
  <2>3. items' = Merged /\ (saved' = Merged \/ saved' = saved)
    BY <1>5 DEF Attach
  <2> QED BY <2>2, <2>3 DEF UpStays
<1>6. CASE AttachFails
  BY <1>6, BellConstants DEF AttachFails, WiredBeforeRead, lists, UpStays
<1>7. CASE Turns \/ UNCHANGED bellVars
  BY <1>7, <1>u DEF Turns, bellVars, listVars, lists
<1>8. CASE BellRestarts
  BY <1>8 DEF BellRestarts, ListRestart, UpStays
<1> QED BY <1>1, <1>2, <1>3, <1>4, <1>5, <1>6, <1>7, <1>8 DEF BellNext

LEMMA SavedForgottenOnlyKnown ==
    ASSUME BellInv, [BellNext]_bellVars PROVE Ids(saved) \ Ids(saved') \subseteq knew'
<1>1. CASE saved' = saved
  BY <1>1
<1>2. ASSUME NEW list, NEW mid, Writes(list, mid) PROVE Ids(saved) \ Ids(saved') \subseteq knew'
  BY <1>2, <1>1 DEF Writes, BellInv, Recalled
<1>3. CASE Clears
  BY <1>3, <1>1, <1>2, DoesWrites DEF Clears, listVars, lists
<1>4. CASE Raises
  BY <1>4, <1>2, DoesWrites DEF Raises, Writes, ListFault
<1>5. CASE Checks \/ (\E id \in Id : MarkRead(id)) \/ MarkAllRead
  BY <1>5, <1>2, DoesWrites DEF Checks, MarkRead, MarkAllRead
<1>6. CASE Attach
  BY <1>6 DEF Attach
<1>7. CASE AttachFails \/ Turns \/ BellRestarts \/ UNCHANGED bellVars
  BY <1>7, <1>1 DEF AttachFails, Turns, BellRestarts, ListRestart, bellVars, listVars, lists
<1> QED BY <1>3, <1>4, <1>5, <1>6, <1>7 DEF BellNext

\* The two lists hold alerts of the right type, within the cap, and the poller
\* remembers a code or none (BellTypeOK).
THEOREM BellTypeCorrect == BellSpec => []BellTypeOK
<1>1. BellInv => BellTypeOK
  BY DEF BellInv
<1> QED BY <1>1, BellAlways, PTL

\* evaluate acts only on a change, so an alert lost or left behind once is
\* wrong until the next change: none is, through the reads, failed writes and
\* the merge with the ConfigMap that come between two of its calls.
THEOREM BellTells == BellSpec => []BellTellsConnection
<1>1. BellInv => BellTellsConnection
  BY DEF BellInv
<1> QED BY <1>1, BellAlways, PTL

\* persistLocked writes the whole list, and AttachCMStore attaches only after a
\* read that worked: a saved alert is dropped only by a process that had it.
THEOREM SavedAlertsKnown == BellSpec => SavedAlertsSurvive
<1>1. BellInv /\ [BellNext]_bellVars => [Ids(saved) \ Ids(saved') \subseteq knew']_bellVars
  BY SavedForgottenOnlyKnown
<1> QED BY <1>1, BellAlways, PTL DEF BellSpec, SavedAlertsSurvive

\* Add drops an alert whose id is on the list, read or not, and the saved copy
\* wins the merge: what an operator read stays read, as long as the cap has
\* room for all the alerts there are.
THEOREM AlertsKept ==
    ASSUME IsFiniteSet(Id), Cardinality(Id) <= MaxItems
    PROVE  BellSpec => AlertsAreKept
<1>1. BellInit => RKInv
  BY BellInitially DEF RKInv, BellInit, ListInit
<1>2. RKInv /\ [BellNext]_bellVars => RKInv'
  BY BellStep, BellStepKeepsRead DEF RKInv
<1>3. RKInv /\ [BellNext]_bellVars =>
          [(Upgrade \in Ids(saved) \ UnreadIds(saved)) => Upgrade \notin UnreadIds(saved')]_bellVars
  <2> SUFFICES ASSUME RKInv, [BellNext]_bellVars, Upgrade \in Ids(saved) \ UnreadIds(saved)
               PROVE  Upgrade \notin UnreadIds(saved')
    OBVIOUS
  <2>1. Fit(saved) /\ Fit(saved')
    BY BellStep, FitLists DEF RKInv, BellInv, Lists, BellTypeOK, ListTypeOK, Fit
  <2>2. UpRead(saved) /\ UpRead(saved')
    BY <2>1, ReadUpgrade, BellStepKeepsRead DEF UpStays
  <2> QED BY <2>1, <2>2, ReadUpgrade
<1>4. BellSpec => ReadStaysRead
  BY <1>1, <1>2, <1>3, PTL DEF BellSpec, ReadStaysRead
<1> QED BY <1>4, SavedAlertsKnown DEF AlertsAreKept
=============================================================================
