------------------------------ MODULE MCFamily ------------------------------
(***************************************************************************)
(* What crewmate keeps of one family, for TLC: its labels (module Labels)  *)
(* and the recurring series of one merchant (module Recurring).  They      *)
(* share no column: the upsert of a series leaves its dismissal alone.     *)
(***************************************************************************)
EXTENDS Labels, Recurring, TLC

CONSTANTS MaxNaming, MaxDeciding, MaxLabeling, MaxOneByOne, MaxDisturbing  \* bounds on asked

OneMerchant   == [t \in Txns |-> CHOOSE m \in Merchants : TRUE]
OneSystemName == [c \in System |-> CHOOSE n \in Names : TRUE]
Symmetry == Permutations(Txns) \cup Permutations(Requests) \cup Permutations(Cats \ System)
            \cup Permutations(Names \ {SystemName[c] : c \in System})

\* A year that is no leap year: day 1 is the first of January.
OfMonth(n) == SubSeq([i \in 1..31 |-> i], 1, n)
Calendar == OfMonth(31) \o OfMonth(28) \o OfMonth(31) \o OfMonth(30) \o OfMonth(31) \o OfMonth(30)
            \o OfMonth(31) \o OfMonth(31) \o OfMonth(30) \o OfMonth(31) \o OfMonth(30) \o OfMonth(31)
Year     == 1..365

VARIABLES
    mode,  \* which of six kinds of behaviour this is
    asked  \* what people asked for so far

At(places) == \A q \in Requests : req[q].at \in {"idle"} \cup places
NoRules    == \A r \in Rules : ~rule[r].here
NoLabels   == \A m \in Merchants : series[m] = None /\ ~dismissed[m]
Started    == {c \in Cats : cat[c].at # "new"}
Own        == Cardinality(Started \ System)
Touched    == {t \in Txns : note[t] # Blank \/ job[t] # NoJob \/ filed[t] # None}
Simple     == \A r \in Rules : rule[r].here => rule[r].on /\ rule[r].for = Merchants

\* One transaction, while categories come, change their names and go.
Naming ==
    /\ NoRules /\ NoLabels
    /\ At({"write", "queue", "rename", "carry", "delete"})
    /\ Cardinality(Touched) <= 1
    /\ \A c \in Cats : ~cat[c].excluded

\* Rules, runs and choices over two categories that stay.
Deciding ==
    /\ faults = 0 /\ NoLabels /\ Simple /\ Own <= 1
    /\ At({"write", "gather", "queue", "history", "load", "decide", "answer"})

\* Labels and dismissals.
Labeling ==
    /\ NoRules /\ Own = 0
    /\ \A t \in Txns : note[t] # Remark
    /\ At({"label", "undismiss", "fill", "queue", "unlabel", "dismiss"})

\* Everything, one request at a time.
OneByOne ==
    /\ Cardinality({q \in Requests : req[q].at # "idle"}) <= 1
    /\ Own <= 1

\* A step of a request that is under way, or of the queue.
Internal ==
    \/ \E q \in Requests : req[q].at # "idle" /\ req'[q] # req[q]
    \/ \E t \in Txns : job[t] # NoJob /\ job'[t] = NoJob

\* Three charges come under two workers, the second is dated before the first
\* and the third is of another amount; whatever else happens is counted, but
\* not that the pipeline's sweep takes up what was lost, nor rebuilds.
Crowd ==
    /\ \/ /\ \/ Arrive(1, 32, 5000) \/ Arrive(2, 1, 5000) \/ Arrive(3, 59, 9000)
             \/ Pipeline
             \/ \E w \in Workers : Rebuild(w)
             \/ \E c \in Charges : /\ c \notin queued \cup {worker[w].of : w \in Workers}
                                  /\ Sweep(c)
          /\ asked' = asked
       \/ Disturbing /\ asked' = asked + 1
    /\ asked' <= MaxDisturbing
    /\ \A x \in charges' : x.cents # 5050

\* A bill comes every month; the first charge may be of anything.
Price(n) == CASE n = 1 -> 9000 [] n \in {3, 5} -> 5050 [] OTHER -> 5000
Billing ==
    LET n == Cardinality(charges) + 1 IN
    /\ n <= 6
    /\ \E d \in CASE n = 1 -> {1, 16, 31}
                   [] n = 2 -> {e \in 2..62 : Calendar[e] \in {1, 15, 31}}
                   [] OTHER -> UNION {x.day + 26 .. x.day + 33 : x \in charges} :
        /\ \A x \in charges : x.day < d
        /\ Calendar[d] \in {1, 2, 15, 16, 17} \cup 28..31
        /\ n = 1 \/ Monthly({x \in charges : x.id # 1}
                              \cup {[id |-> n, day |-> d, cents |-> Price(n)]}, 2)
        /\ Arrive(n, d, Price(n))
    /\ asked' = asked

SafetyInit ==
    /\ Init
    /\ RecurringInit
    /\ mode \in {"naming", "deciding", "labeling", "one by one", "overlapping", "billing"}
    /\ asked = 0
LabelsNext ==
    /\ Next
    /\ asked' = IF Internal THEN asked ELSE asked + 1
    /\ mode = "naming" => Naming' /\ asked' <= MaxNaming
    /\ mode = "deciding" => Deciding' /\ asked' <= MaxDeciding
    /\ mode = "labeling" => Labeling' /\ asked' <= MaxLabeling
    /\ mode = "one by one" => OneByOne' /\ asked' <= MaxOneByOne
    /\ UNCHANGED recurringVars
SeriesNext ==
    /\ \/ mode = "overlapping" /\ Crowd
       \/ mode = "billing" /\ Billing
    /\ UNCHANGED vars
SafetyNext ==
    /\ mode' = mode
    /\ \/ mode \in {"naming", "deciding", "labeling", "one by one"} /\ LabelsNext
       \/ mode \in {"overlapping", "billing"} /\ SeriesNext

SafetySpec == SafetyInit /\ [][SafetyNext]_<<vars, recurringVars, mode, asked>>
=============================================================================
