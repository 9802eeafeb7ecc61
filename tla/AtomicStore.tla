----------------------------- MODULE AtomicStore -----------------------------
(* What a ConfigMap store promises its callers: a state that changes by one  *)
(* whole change at a time, whoever asks for it.  A call that succeeds was    *)
(* applied once, to the state of that moment; one that fails may have been   *)
(* applied or not; a read returns the state of that moment.                  *)

CONSTANTS
    Thread,
    Data, Change, Modify,   \* Modify[c][d]: what change c makes of d
    Refused,                \* what it makes of data it does not accept
    Idle, Reading

VARIABLES
    state,
    call,     \* the call each thread has made
    result    \* what its last call returned

vars == <<state, call, result>>

Answer == [said : {"nothing", "ok", "error"}, got : Data]
Says(t, what, d) == result' = [result EXCEPT ![t] = [said |-> what, got |-> d]]
Ends(t) == call' = [call EXCEPT ![t] = Idle]

Init ==
    /\ state \in Data
    /\ call = [t \in Thread |-> Idle]
    /\ result \in [Thread -> {a \in Answer : a.said = "nothing"}]

Calls(t, c) ==
    /\ call[t] = Idle
    /\ call' = [call EXCEPT ![t] = c]
    /\ UNCHANGED <<state, result>>

Takes(t) ==
    /\ call[t] \in Change
    /\ Modify[call[t]][state] # Refused
    /\ state' = Modify[call[t]][state]

Applies(t) == Takes(t) /\ Ends(t) /\ \E d \in Data : Says(t, "ok", d)

AppliesUnheard(t) == Takes(t) /\ Ends(t) /\ \E d \in Data : Says(t, "error", d)

Reads(t) ==
    /\ call[t] = Reading
    /\ Ends(t) /\ Says(t, "ok", state)
    /\ UNCHANGED state

Fails(t) ==
    /\ call[t] # Idle
    /\ Ends(t) /\ \E d \in Data : Says(t, "error", d)
    /\ UNCHANGED state

\* The process of these threads stops.
Dies(threads) ==
    /\ call' = [t \in Thread |-> IF t \in threads THEN Idle ELSE call[t]]
    /\ UNCHANGED <<state, result>>

\* People edit or delete the ConfigMap.
Hand == state' \in Data /\ UNCHANGED <<call, result>>

Next ==
    \/ \E t \in Thread :
          \/ \E c \in Change \cup {Reading} : Calls(t, c)
          \/ Applies(t) \/ AppliesUnheard(t) \/ Reads(t) \/ Fails(t)
    \/ \E threads \in SUBSET Thread : Dies(threads)
    \/ Hand

Spec == Init /\ [][Next]_vars
=============================================================================
