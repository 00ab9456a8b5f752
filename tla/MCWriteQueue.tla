---------------------------- MODULE MCWriteQueue ----------------------------
(* What reaches Crew through the write queue, for TLC.                     *)
EXTENDS WriteQueue, TLC

CONSTANT MaxRequests    \* bound on the calls of EnqueueWrite

VARIABLE requests

Symmetry == Permutations(Drainers) \cup Permutations(Cards)

Counted ==
    /\ requests' = IF \E t \in Targets, v \in Values : Enqueue(t, v)
                   THEN requests + 1 ELSE requests
    /\ requests' <= MaxRequests

\* Nobody reads Crew's notes: the runs about what reaches Crew leave the local
\* copy alone.
QueueOnly == \A r \in Drainers : page'[r] = page[r]

QueueInit == Init /\ requests = 0

QueueSpec == QueueInit /\ [][Next /\ QueueOnly /\ Counted]_<<vars, requests>>

\* Only what crewmate does: nobody edits a note in the Crew app.
AppSpec == QueueInit /\ [][App /\ QueueOnly /\ Counted]_<<vars, requests>>
=============================================================================
