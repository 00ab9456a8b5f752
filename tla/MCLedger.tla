------------------------------ MODULE MCLedger ------------------------------
(***************************************************************************)
(* Instances of Ledger for TLC.                                            *)
(*                                                                         *)
(* Ledger_copy starts in one of two ways.  "alone": nothing is stored, and *)
(* r1 alone runs, over Crew's two oldest transactions, and its watcher has *)
(* nothing to tell.  "rivals": r1 and r2 both watch one connection, as r2  *)
(* has not noticed that it lost the lease, and both tell what they poll.   *)
(* Crew lists other transactions, one or three, that cleared before the    *)
(* first catch-up's horizon; Late comes between the three, so that a full  *)
(* page of two leaves a rest, or after the one, and the page is the last.  *)
(* VanishedRowsGo is asked of the rivals: the fairness leaves no behaviour *)
(* of "alone".                                                             *)
(***************************************************************************)
EXTENDS Ledger

CONSTANTS a, b, r1, r2

OwnConnection  == [r \in Runners |-> IF r = r1 THEN a ELSE b]
SameConnection == [r \in Runners |-> a]

OneByOne  == [t \in Txns |-> t - 1]
AllAtOnce == [t \in Txns |-> 0]

VARIABLE mode

Late == 3

RivalsInit(listed) ==
    /\ clock = MaxTime
    /\ crew = [t \in Txns |-> IF t \in listed THEN "cleared" ELSE "unborn"]
    /\ row = [t \in Txns |-> NoRow]
    /\ polled = [c \in Conns |-> MaxTime]
    /\ runner = [r \in Runners |-> Idle("watch", Never)]
    /\ sdk = [r \in Runners |-> [Unaware EXCEPT !.known = PageOf(listed)]]
    /\ due = [r \in Runners |-> {}]

CopyInit ==
    \/ mode = "alone"  /\ Init
    \/ mode = "rivals" /\ \E listed \in {{1}, {1, 2, 4}} : RivalsInit(listed)

Alone ==
    /\ clock' <= 1
    /\ runner'[r2] = runner[r2]
    /\ \A r \in Runners : sdk'[r].news = EmptyPage
    /\ \A t \in Txns : crew'[t] # crew[t] => t < Late

Rivals ==
    /\ \A r \in Runners : runner'[r].at \in {"watch", "recent", "sweep"}
    /\ \A t \in Txns : crew'[t] # crew[t] => t = Late

CopyNext ==
    /\ Next
    /\ IF mode = "alone" THEN Alone ELSE Rivals
    /\ UNCHANGED mode

CopySpec ==
    /\ CopyInit /\ [][CopyNext]_<<vars, mode>>
    /\ []<>(mode = "rivals") /\ FairFor({Late})

TiesSpec == Init /\ mode = "ties" /\ [][Next /\ UNCHANGED mode]_<<vars, mode>>
=============================================================================
