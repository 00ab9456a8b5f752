----------------------------- MODULE MCPipeline -----------------------------
(* Instances of Pipeline for TLC.                                          *)
EXTENDS Pipeline

CONSTANTS t1, t2, u1, u2, r1, w1, w2, w3

VARIABLE trouble     \* which kind of trouble this instance is about

FirstIsCardSwipe == [t \in Txns |-> IF t = t1 THEN u1 ELSE Nobody]
OneProcess       == [w \in Workers |-> r1]

NoSweep   == \A r \in Replicas : sweep[r] = {}
NoWrites  == edits = 0 /\ \A t \in Txns : crew[t] = "blank" /\ job[t] = "none"
NoMatches == \A w \in Workers : worker[w].match = NoMatch
Young     == \A t \in Txns : row[t].age = "fresh" /\ row[t].at # "gone"
Unknown   == \A w \in Workers : ~worker[w].silent /\ ~worker[w].filed
Only(S)   == \A t \in Txns \ S : row[t].at = "none"
Idling(S) == \A w \in S : worker[w] = Idle

Within ==
    \* One transaction, two workers: drops, sweeps, crashes, ageing, vanishing.
    \/ /\ trouble = "losses"
       /\ Only({t1}) /\ Idling({w3}) /\ NoWrites /\ NoMatches
    \* Two transactions, two workers: the queue of one drops the other's item,
    \* the sweep of one leaves the other row behind.
    \/ /\ trouble = "crowd"
       /\ Idling({w3}) /\ NoWrites /\ NoMatches /\ Unknown /\ Young
       /\ crashes = 0
    \* Two transactions, two workers: one suggestion's cooldown.
    \/ /\ trouble = "rivals"
       /\ Idling({w3}) /\ NoWrites /\ NoSweep /\ Young /\ crashes = 0
    \* One transaction, one worker: the process ends between nudge and push.
    \/ /\ trouble = "cut"
       /\ Only({t1}) /\ Idling({w2, w3}) /\ NoWrites /\ NoSweep /\ Young
    \* One transaction, a worker and a re-assessment: notes change meanwhile.
    \/ /\ trouble = "edits"
       /\ Only({t1}) /\ Idling({w2}) /\ NoSweep /\ Young /\ crashes = 0

PushInit == Init /\ trouble \in {"losses", "crowd", "rivals", "cut", "edits"}
PushNext == Next /\ UNCHANGED trouble /\ Within'
PushSpec == PushInit /\ [][PushNext]_<<vars, trouble>> /\ Fairness

\* Within no bounds but the constants.
HandSpec == Init /\ trouble = "edits" /\ [][Next /\ UNCHANGED trouble]_<<vars, trouble>>
=============================================================================
