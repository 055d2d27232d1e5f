--------------------------- MODULE RevisionHistory ---------------------------
(***************************************************************************)
(* What the project repository promises about history, whatever is         *)
(* interrupted: each project has one list of revisions that grows at its   *)
(* end.  A revision whose save returned stays, and all before it.  Only    *)
(* the last save, when it was interrupted, may be withdrawn: its receipt   *)
(* turns out to be unusable.                                               *)
(***************************************************************************)
EXTENDS Naturals, Sequences

CONSTANTS Project, Revision

VARIABLES
    history,    \* the revisions of each project
    durable     \* the revisions whose save returned

Listed == UNION {{history[p][i] : i \in 1..Len(history[p])} : p \in Project}

Init ==
    /\ history = [p \in Project |-> <<>>]
    /\ durable = {}

\* A save has written enough to be completed by any later read.
Publish(p) ==
    /\ durable' = durable
    /\ Len(history'[p]) > Len(history[p])
    /\ \E r \in Revision \ Listed : history' = [history EXCEPT ![p] = Append(@, r)]

\* The save of the last revision returned.
Acknowledge(p) ==
    /\ durable' # durable
    /\ history[p] # <<>>
    /\ durable' = durable \cup {history[p][Len(history[p])]}
    /\ history' = history

\* The last save was interrupted, and its receipt was damaged.
Withdraw(p) ==
    /\ durable' = durable
    /\ history[p] # <<>> /\ history[p][Len(history[p])] \notin durable
    /\ history' = [history EXCEPT ![p] = SubSeq(@, 1, Len(@) - 1)]

Next == \E p \in Project : Publish(p) \/ Acknowledge(p) \/ Withdraw(p)

Spec == Init /\ [][Next]_<<history, durable>>
=============================================================================
