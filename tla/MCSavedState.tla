---------------------------- MODULE MCSavedState ----------------------------
(* What the server keeps in Kubernetes, in three small settings, one chosen  *)
(* at the start: three callers of the ConfigMap store in two processes, the  *)
(* list of notifications over a store that changes in one step, and the API  *)
(* tokens of two processes that overlap.                                     *)
EXTENDS ConfigMapStore, ConnectionBell, ApiTokens, TLC

CONSTANTS a1, a2, b1

\* One caller of the new process, two of the old one.
MHome == [t \in {a1, a2, b1} |-> IF t = b1 THEN "new" ELSE "old"]

\* Changes that may be told apart whatever the order they come in.
MData   == {{}, {"x"}, {"y"}, {"x", "y"}}
MChange == {"putX", "putY", "dropX"}
MModify ==
    [putX  |-> [d \in MData |-> d \cup {"x"}],
     putY  |-> [d \in MData |-> d \cup {"y"}],
     dropX |-> [d \in MData |-> IF "x" \in d THEN d \ {"x"} ELSE Refused]]

VARIABLE setting

all == <<vars, bellVars, tokenVars, setting>>

MCInit ==
    /\ Init /\ BellInit /\ TokensInit
    /\ setting \in {"store", "bell", "tokens"}
    /\ setting # "store" => cm = NoMap

\* Only the actions and the properties of ApiTokens speak of tokens, of all alike.
MCSymmetry == Permutations(Token)

\* TokensAsAnswered claims nothing of what follows once `crossed`.
MCNext ==
    /\ UNCHANGED setting
    /\ \/ setting = "store" /\ Next /\ UNCHANGED <<bellVars, tokenVars>>
       \/ setting = "bell" /\ BellNext /\ UNCHANGED <<vars, tokenVars>>
       \/ setting = "tokens" /\ ~crossed /\ TokensNext /\ UNCHANGED <<vars, bellVars>>

MCSpec == MCInit /\ [][MCNext]_all
=============================================================================
