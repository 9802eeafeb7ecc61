-------------------------- MODULE MCInitOperation --------------------------
(* Small instances of InitOperation for TLC: two sessions for safety, and    *)
(* one alone, chosen at the start, for what must happen in the end.          *)
EXTENDS InitOperation

VARIABLE alone

all == <<vars, alone>>

MCInit == Init /\ alone \in BOOLEAN

OnlyOne == alone => \A s \in Session \ {1} : session'[s].status = "none"

MCNext == Next /\ UNCHANGED alone /\ OnlyOne

Alone(A) == alone /\ A /\ UNCHANGED alone

\* A worker that can go on does, and thirty minutes pass.
MCSpec ==
    /\ MCInit /\ [][MCNext]_all
    /\ WF_all(Alone(Proceeds(1)))
    /\ WF_all(Alone(Expire(1)))

\* Every session ends, or is lost with the process: the poll for the merge has
\* no way to go on for ever, even when the client keeps the session alive.
SessionsEnd == (alone /\ session[1].status \in Live) ~> (session[1].status \notin Live)
=============================================================================
