----------------------------- MODULE MCLeases -----------------------------
(* Leases for TLC.                                                         *)
EXTENDS Leases, TLC

Symmetry == Permutations(Replicas)

VARIABLE mode  \* which of three kinds of behaviour this is

\* Replica r has not been started.
Unused(r) ==
    /\ at[r] = "down"
    /\ \A c \in Conns : row[c].holder # r /\ \A e \in Epochs : runner[c][e].by # r

OneReplica    == \E r \in Replicas : Unused(r)
OneConnection == \A c \in Conns : login[c] # 0 => c = CHOOSE d \in Conns : TRUE

\* One replica: Crew ends sessions, and there are shutdowns or a third token.
Alone ==
    /\ OneReplica /\ OneConnection
    /\ (\E r \in Replicas : at[r] = "stopping") => \A c \in Conns : crew[c].issued <= 2

\* Two replicas: two tokens, and processes end by crashing.
Failover ==
    /\ OneConnection
    /\ \A r \in Replicas : at[r] # "stopping"
    /\ \A c \in Conns : crew[c].issued <= 2

\* One replica and more connections than it may hold, claimed once each: runners
\* start and end, what they do in between is left out.
Crowded ==
    /\ OneReplica
    /\ \A r \in Replicas : at[r] # "stopping"
    /\ \A c \in Conns : row[c].epoch <= 1
    /\ \A c \in Conns : /\ crew[c].issued <= 1
                        /\ \A e \in Epochs : runner[c][e].at \notin InSession

CrewEndsSession ==
    \E c \in Conns : crew'[c] # crew[c] /\ crew'[c].issued = crew[c].issued

SafetyInit == Init /\ mode \in {"alone", "failover", "crowded"}
SafetyNext ==
    /\ Next
    /\ mode' = mode
    /\ mode = "alone" => Alone'
    /\ mode = "failover" => Failover' /\ ~CrewEndsSession
    /\ mode = "crowded" => Crowded'

SafetySpec == SafetyInit /\ [][SafetyNext]_<<vars, mode>>

\* Failover with two replicas: Crew ends no session.
Quiet == \A c \in Conns : crew[c].accepted \subseteq crew'[c].accepted

FailoverInit == Init /\ mode = "failover"
FailoverNext == Next /\ Quiet /\ mode' = mode

FailoverSpec == FailoverInit /\ [][FailoverNext]_<<vars, mode>> /\ Fairness
=============================================================================
