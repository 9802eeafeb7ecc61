---------------------------- MODULE MCClusterSide ----------------------------
(* What the server keeps in step with Git on a cluster and on its            *)
(* connection, in two small settings, one chosen at the start: the addon's   *)
(* Secrets, and the ownership of the connection while two requests that      *)
(* join or un-adopt the cluster are under way.                               *)
EXTENDS AddonSecrets, AdoptedConnection

VARIABLE setting

all == <<vars, adoptionVars, setting>>

\* The setting that the run is not about starts with nothing in it, and stays.
MCInit ==
    /\ Init /\ AdoptionInit
    /\ setting \in {"secrets", "adoption"}
    /\ setting = "secrets" => ~inGit
    /\ setting = "adoption" => catalog = {} /\ ~on /\ vault = CHOOSE v \in Value : TRUE

\* The marks are followed until something comes too early.
MCNext ==
    /\ UNCHANGED setting
    /\ \/ setting = "secrets" /\ Next /\ UNCHANGED adoptionVars
       \/ setting = "adoption" /\ ~crossed /\ AdoptionNext /\ UNCHANGED vars

\* AddonSecrets' fairness.
Loop == setting = "secrets" /\ "loop" \in Process /\ Goes("loop") /\ UNCHANGED <<adoptionVars, setting>>

MCSpec == MCInit /\ [][MCNext]_all /\ WF_all(Loop)
=============================================================================
