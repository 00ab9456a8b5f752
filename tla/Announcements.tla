--------------------------- MODULE Announcements ---------------------------
(***************************************************************************)
(* What the categorization pipeline promises about pushes, whatever        *)
(* replicas, workers, queues and sweeps it is built from: a transaction is *)
(* settled once, it is announced to its cardholder alone or to the whole   *)
(* household, and nobody hears of it twice.  An announcement may be cut    *)
(* short, when a process ends in the middle of it.                         *)
(***************************************************************************)
CONSTANTS
    Txns,     \* rows of transactions
    Users,    \* the members of the family
    Owner,    \* [Txns -> the user whose card it is, or Nobody]
    Nobody

VARIABLES
    phase,    \* [Txns -> open, addressing, settled]
    due,      \* [Txns -> users still to be told]
    heard     \* [Txns -> [Users -> pushes about the transaction]]

vars == <<phase, due, heard>>

Init ==
    /\ phase = [t \in Txns |-> "open"]
    /\ due = [t \in Txns |-> {}]
    /\ heard = [t \in Txns |-> [u \in Users |-> 0]]

Audiences(t) == {Users} \cup (IF Owner[t] = Nobody THEN {} ELSE {{Owner[t]}})

\* Nothing to tell, or the announcement begins.
Settle(t) ==
    /\ phase[t] = "open"
    /\ \E p \in {"addressing", "settled"} : phase' = [phase EXCEPT ![t] = p]
    /\ UNCHANGED <<due, heard>>

Address(t) ==
    /\ phase[t] = "addressing"
    /\ phase' = [phase EXCEPT ![t] = "settled"]
    /\ \E A \in Audiences(t) : due' = [due EXCEPT ![t] = A]
    /\ UNCHANGED heard

\* The user is told, or what there is to tell is nothing for this user.
Tell(t, u) ==
    /\ u \in due[t]
    /\ due' = [due EXCEPT ![t] = @ \ {u}]
    /\ heard' \in {heard, [heard EXCEPT ![t][u] = 1]}
    /\ heard[t][u] = 0
    /\ UNCHANGED phase

\* A process ends: the transactions S it was announcing stay as they are.
CutShort(S) ==
    /\ phase' = [t \in Txns |-> IF t \in S /\ phase[t] # "open"
                                THEN "settled" ELSE phase[t]]
    /\ due' = [t \in Txns |-> IF t \in S THEN {} ELSE due[t]]
    /\ UNCHANGED heard

Next ==
    \/ \E t \in Txns : Settle(t) \/ Address(t) \/ \E u \in Users : Tell(t, u)
    \/ \E S \in SUBSET Txns : CutShort(S)

Spec == Init /\ [][Next]_vars
=============================================================================
