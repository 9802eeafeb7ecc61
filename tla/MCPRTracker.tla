---------------------------- MODULE MCPRTracker ----------------------------
(* Small instances of PRTracker for TLC.  One pull request is opened, chosen *)
(* at the start: one that only its request tracks, for the races with the    *)
(* refresh handlers, or one with a waiting mark, for the races with the      *)
(* marks pass and for what must happen in the end.                           *)
EXTENDS PRTracker

CONSTANT MaxMarkFaults   \* bound: faults where there is a waiting mark

VARIABLE only

all == <<vars, only>>

MCInit == Init /\ only \in PR

\* Who stays out of it.
Alone ==
    /\ \A p \in PR \ {only} : opener'[p] = "idle"
    /\ IF only \in MarkPR
       THEN faults' <= MaxMarkFaults /\ \A r \in Refresher : pc'[r] = "idle"
       ELSE drops' = 0 /\ pc'[MarksPass] = "idle"

MCNext == Next /\ UNCHANGED only /\ Alone

Marked(A) == only \in MarkPR /\ A /\ UNCHANGED only

(***************************************************************************)
(* Fairness: the poll loop ticks for ever and its pass has no blocking     *)
(* wait, the reconciler's tick runs the marks pass for ever and looks at   *)
(* every mark, a worker in the middle of a call goes on, and time passes.  *)
(* Nothing is assumed of the people who merge, close or stop tracking.     *)
(***************************************************************************)
MCSpec ==
    /\ MCInit /\ [][MCNext]_all
    /\ WF_all(Marked(PollPass))
    /\ WF_all(Marked(TrackOpened(only))) /\ WF_all(Marked(GapElapses(only)))
    /\ SF_all(Marked(MarksSee(only)))
    /\ WF_all(Marked(MarksStep))
    /\ WF_all(Marked(WorkerStep(Poll))) /\ WF_all(Marked(WorkerStep(MarksPass)))

Settled(p) == git[p] \in Terminal \cup {"gone"}

\* A tracked pull request that merged, closed or vanished is finished and
\* dropped, or marked as given up: its entry does not stay "finishing",
\* whatever the early returns of runFinish leave behind in memory.
MarkedOutcomeSettles ==
    (only \in MarkPR /\ IsTracked(only) /\ Settled(only))
        ~> (only \notin MarkPR \/ ~IsTracked(only) \/ tracked[only].gaveUp)

\* A waiting mark does not stay for ever: once its pull request settled the
\* mark comes off, or the tracker says it gave up, also when the pull
\* request was never tracked or vanished from Git.
MarkComesOff ==
    (only \in marked /\ Settled(only))
        ~> (only \notin marked \/ (IsTracked(only) /\ tracked[only].gaveUp))
=============================================================================
