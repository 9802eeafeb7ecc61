------------------------- MODULE MCClusterConnection -------------------------
(* Small instances of ClusterConnection for TLC: pull request 1 removes the  *)
(* cluster and keeps its connection, 2 removes it with cleanup=all, 3 and 4  *)
(* register it.                                                              *)
EXTENDS ClusterConnection

\* The smallest installation with one request: what the others change.
Alone(p) ==
    [used |-> {p}, autoMerge |-> {}, backend |-> FALSE, registered |-> p \in Removal,
     concurrent |-> FALSE, hurried |-> TRUE, maxRequests |-> 1, maxFaults |-> 0, maxHands |-> 0]

\* A removal of either kind, one after the other, and people who are hurried.
BothRemovals == [Alone(1) EXCEPT !.used = {1, 2}, !.maxRequests = 2]

\* Both at once, or one and a registration of the same name.
Overlapping ==
    [BothRemovals EXCEPT !.used = {1, 2, 3}, !.backend = TRUE, !.concurrent = TRUE,
                         !.hurried = FALSE, !.maxFaults = 2]

SafetySettings == {[BothRemovals EXCEPT !.autoMerge = {2}, !.maxFaults = 2], Overlapping}

\* For what must happen in the end: either removal with one failure, and a
\* registration that is merged as it is opened, or later, or closed.
LivenessSettings ==
    {[BothRemovals EXCEPT !.maxFaults = 1],
     [Alone(3) EXCEPT !.autoMerge = {3}, !.maxFaults = 2, !.maxHands = 1]}

\* For what comments say and the code does not do.
PendingSettings == {[Alone(1) EXCEPT !.hurried = FALSE, !.maxFaults = 1]}
TwiceSettings == {[Alone(3) EXCEPT !.used = {3, 4}, !.hurried = FALSE, !.maxRequests = 2]}
=============================================================================
