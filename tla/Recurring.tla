----------------------------- MODULE Recurring ------------------------------
(***************************************************************************)
(* Recurring detection for one merchant of a family                        *)
(* (internal/categorize/recurring.go, internal/store/recurring.go): what   *)
(* Classify makes of a history of charges, and how the merchant's row of   *)
(* recurring_series follows the history while the pipeline's workers, its  *)
(* sweep, the runners' rebuilds and the vanish sweep go on at once, items are*)
(* dropped and processes end.  Module Pipeline has what else a worker does *)
(* with a transaction.                                                     *)
(*                                                                         *)
(* A charge has a day, not an instant, and charges of one day are in the   *)
(* order of their ids; amounts are the cents spent.  The row keeps of its  *)
(* evidence what the verdict rests on.                                     *)
(***************************************************************************)
EXTENDS Integers, SequencesExt

CONSTANTS
    Charges,     \* ids of transactions
    Days,        \* days on which a charge may occur
    DayOfMonth,  \* [Days -> 1..31]
    Amounts,     \* cents
    Workers,     \* pipeline workers, sessions and requests that rebuild
    NoCharge,
    NoRow

ASSUME RecurringAssumption ==
    /\ Charges \subseteq Nat /\ Days \subseteq Nat /\ Amounts \subseteq Nat
    /\ DayOfMonth \in [Days -> 1..31]
    /\ NoCharge \notin Charges

VARIABLES
    charges,    \* the merchant's spends on file
    settled,    \* the ones with notified_at
    offered,    \* charges in the hands of ingest or of a sweep, to be enqueued
    queued,     \* charges in the pipeline's queues; two items count once
    worker,     \* [Workers -> where it is, its charge, the history it read]
    row,        \* the row of recurring_series
    basis,      \* history: what the row was written from last
    late,       \* history: workers that read before what the row is written from
                \* was read, or before a disturbance
    overtaken   \* history: the row is a late worker's, or there was a disturbance

recurringVars ==
    <<charges, settled, offered, queued, worker, row, basis, late, overtaken>>

Charge == [id : Charges, day : Days, cents : Amounts]

-----------------------------------------------------------------------------
(* Classify.                                                               *)

minOccurrences == 3
recentWindow   == 4

\* MerchantHistory, oldest first.
Before(a, b) == a.day < b.day \/ (a.day = b.day /\ a.id < b.id)
Ordered(H)   == [i \in 1..Cardinality(H) |->
                   CHOOSE x \in H : Cardinality({y \in H : Before(y, x)}) = i - 1]

LastOf(s, n) == IF Len(s) <= n THEN s ELSE SubSeq(s, Len(s) - n + 1, Len(s))

\* Days between charges; a second charge of a day does not count.
OnePerDay(H) == {x \in H : \A y \in H : Before(y, x) => y.day # x.day}
Gaps(H)      == LET s == Ordered(OnePerDay(H)) IN
                [i \in 1..Len(s) - 1 |-> s[i + 1].day - s[i].day]

Total(q)    == LET sum[i \in 0..Len(q)] == IF i = 0 THEN 0 ELSE sum[i - 1] + q[i]
               IN sum[Len(q)]
Squares(q)  == Total([i \in DOMAIN q |-> q[i] * q[i]])

\* round(100 * deviation / mean) <= pct, without roots or fractions.
Regular(q, pct) ==
    40000 * (Len(q) * Squares(q) - Total(q) * Total(q))
        < (2 * pct + 1) * (2 * pct + 1) * Total(q) * Total(q)

\* Twice the median.
NthLeast(q, n) == Min({a \in ToSet(q) : Cardinality({i \in DOMAIN q : q[i] <= a}) >= n})
Middle(q) == NthLeast(q, (Len(q) + 1) \div 2) + NthLeast(q, Len(q) \div 2 + 1)

\* classifyCadence, of twice the median gap.
Cadence(m) == CASE m \in 12..16     -> "weekly"
                [] m \in 23..33     -> "biweekly"
                [] m \in 52..70     -> "monthly"
                [] m \in 146..218   -> "quarterly"
                [] m \in 584..876   -> "yearly"
                [] OTHER            -> "unknown"

\* The 30th and the 1st are two days apart.
Apart(a, b) == LET d == IF a < b THEN b - a ELSE a - b IN IF d > 15 THEN 31 - d ELSE d

\* dayOfMonthSpread(times) <= n.
SameDate(H, n) == LET D == {DayOfMonth[c.day] : c \in H} IN
                  \E a \in D : \A d \in D : Apart(a, d) <= n

\* Broken: timing is judged on the whole history.
AllTimes(s) == s

RecentTimes(s) == LastOf(s, recentWindow + 1)

\* amounts[len(amounts)/2] of the sorted amounts.  They are negative there, so
\* half of them, rounded down, may be greater here.
Typical(q) ==
    Min({a \in ToSet(q) : Cardinality({i \in DOMAIN q : q[i] > a}) <= Len(q) \div 2})

Classify(H) ==
    LET s       == Ordered(H)
        recent  == [i \in DOMAIN LastOf(s, recentWindow) |-> LastOf(s, recentWindow)[i].cents]
        typical == Typical(recent)
        spread  == Max(ToSet(recent)) - Min(ToSet(recent))
        gaps    == Gaps(H)
        newest  == Gaps(ToSet(RecentTimes(s)))
        lately  == IF newest = <<>> THEN gaps ELSE newest
        cadence == IF gaps = <<>> THEN "unknown" ELSE Cadence(Middle(gaps))
        exact   == spread <= 50
        near    == typical > 0 /\ 200 * spread < 5 * typical
        dated   == cadence \in {"monthly", "quarterly", "yearly"}
        steady  == \/ exact /\ Regular(lately, 35) /\ (dated => SameDate(H, 10))
                   \/ near  /\ Regular(lately, 20) /\ (dated => SameDate(H, 4))
        kind    == IF gaps = <<>> \/ Len(s) < minOccurrences THEN "none"
                   ELSE IF cadence # "unknown" /\ steady THEN "subscription"
                   ELSE IF exact \/ Regular(gaps, 55) THEN "recurring" ELSE "none"
    IN [kind |-> kind, typical |-> typical, cadence |-> cadence, count |-> Len(s),
        first |-> s[1].day, last |-> s[Len(s)].day]

-----------------------------------------------------------------------------
Row == [kind : {"none", "recurring", "subscription"}, typical : Amounts, count : Nat,
        cadence : {"weekly", "biweekly", "monthly", "quarterly", "yearly", "unknown"},
        first : Days, last : Days]

ASSUME NoRowAssumption == NoRow \notin Row

RecurringTypeOK ==
    /\ charges \subseteq Charge
    /\ settled \subseteq Charges
    /\ offered \subseteq Charges
    /\ queued \subseteq Charges
    /\ DOMAIN worker = Workers
    /\ \A w \in Workers : /\ worker[w].at \in {"idle", "read", "write", "claim"}
                          /\ worker[w].of \in Charges \cup {NoCharge}
                          /\ worker[w].seen \subseteq Charge
                          /\ worker[w].at = "write" <=> worker[w].seen # {}
                          /\ worker[w].at = "claim" => worker[w].of # NoCharge
    /\ row \in Row \cup {NoRow}
    /\ basis \subseteq Charge
    /\ late \subseteq Workers
    /\ overtaken \in BOOLEAN

Idler == [at |-> "idle", of |-> NoCharge, seen |-> {}]

RecurringInit ==
    /\ charges = {}
    /\ settled = {}
    /\ offered = {}
    /\ queued = {}
    /\ worker = [w \in Workers |-> Idler]
    /\ row = NoRow
    /\ basis = {}
    /\ late = {}
    /\ overtaken = FALSE

Turn(w, at, c, seen) == worker' = [worker EXCEPT ![w] = [at |-> at, of |-> c, seen |-> seen]]
GoOn(w, at, seen)    == Turn(w, at, worker[w].of, seen)

OnRecord(c) == \E x \in charges : x.id = c
Writing(w)  == worker[w].at = "write"

\* The row may be wrong until a reading is written that starts after this.
Disturbed ==
    /\ overtaken' = TRUE
    /\ late' = {w \in Workers : worker'[w].at = "write"}

Quietly == UNCHANGED <<late, overtaken>>

-----------------------------------------------------------------------------
(* The transactions, and the pipeline's queue.                             *)

\* Row ids are new.
Fresh(c) ==
    /\ \A x \in charges : x.id < c
    /\ c \notin settled \cup offered \cup queued \cup {worker[w].of : w \in Workers}

\* InsertTransaction.
Arrive(c, d, a) ==
    /\ Fresh(c)
    /\ charges' = charges \cup {[id |-> c, day |-> d, cents |-> a]}
    /\ offered' = offered \cup {c}
    /\ UNCHANGED <<settled, queued, worker, row, basis>> /\ Quietly

\* Enqueue ...
Enqueue(c) ==
    /\ c \in offered
    /\ offered' = offered \ {c}
    /\ queued' = queued \cup {c}
    /\ UNCHANGED <<charges, settled, worker, row, basis>> /\ Quietly

\* ... unless the queue is full, of whatever transactions.
Drop(c) ==
    /\ c \in offered
    /\ offered' = offered \ {c}
    /\ UNCHANGED <<charges, settled, queued, worker, row, basis>> /\ Quietly

\* SweepUnnotified has c on its list.
Sweep(c) ==
    /\ OnRecord(c) /\ c \notin settled
    /\ offered' = offered \cup {c}
    /\ UNCHANGED <<charges, settled, queued, worker, row, basis>> /\ Quietly

\* A process ends, with workers W and what it had of the items C; or one of C
\* cannot be loaded.
Crash(W, C) ==
    /\ offered' = offered \ C
    /\ queued' = queued \ C
    /\ worker' = [w \in Workers |-> IF w \in W THEN Idler ELSE worker[w]]
    /\ late' = late \ W
    /\ UNCHANGED <<charges, settled, row, basis, overtaken>>

\* A charge vanishes, or clears at another amount.  Nothing is classified anew.
Vanish(x) ==
    /\ x \in charges
    /\ charges' = charges \ {x}
    /\ settled' = settled \ {x.id}
    /\ UNCHANGED <<offered, queued, worker, row, basis>> /\ Disturbed

Amend(x, a) ==
    /\ x \in charges /\ x.cents # a
    /\ charges' = (charges \ {x}) \cup {[x EXCEPT !.cents = a]}
    /\ UNCHANGED <<settled, offered, queued, worker, row, basis>> /\ Disturbed

-----------------------------------------------------------------------------
(* A worker's process, and ReclassifyFamily.                               *)

\* Broken: the notification is claimed before the charge is classified.
TakeUpClaiming(w, c) ==
    /\ worker[w].at = "idle"
    /\ c \in queued
    /\ queued' = queued \ {c}
    /\ IF OnRecord(c) THEN settled' = settled \cup {c} /\ Turn(w, "read", c, {})
                      ELSE UNCHANGED <<settled, worker>>
    /\ UNCHANGED <<charges, offered, row, basis>> /\ Quietly

\* A transaction that vanished cannot be loaded.
TakeUp(w, c) ==
    /\ worker[w].at = "idle"
    /\ c \in queued
    /\ queued' = queued \ {c}
    /\ IF OnRecord(c) THEN Turn(w, "read", c, {}) ELSE UNCHANGED worker
    /\ UNCHANGED <<charges, settled, offered, row, basis>> /\ Quietly

\* ReclassifyFamily reaches the merchant.
Rebuild(w) ==
    /\ worker[w].at = "idle"
    /\ Cardinality(charges) >= minOccurrences
    /\ Turn(w, "read", NoCharge, {})
    /\ UNCHANGED <<charges, settled, offered, queued, row, basis>> /\ Quietly

\* UpdateRecurring is done with.
Done(w) == IF worker[w].of = NoCharge THEN Turn(w, "idle", NoCharge, {})
                                      ELSE GoOn(w, "claim", {})

\* Broken: an empty history is classified.
ReadAnyHistory(w) ==
    /\ worker[w].at = "read"
    /\ GoOn(w, "write", charges)
    /\ UNCHANGED <<charges, settled, offered, queued, row, basis>> /\ Quietly

\* MerchantHistory; nothing to classify may be left.
ReadHistory(w) ==
    /\ worker[w].at = "read"
    /\ IF charges = {} THEN Done(w) ELSE GoOn(w, "write", charges)
    /\ late' = late \ {w}
    /\ UNCHANGED <<charges, settled, offered, queued, row, basis, overtaken>>

\* UpsertRecurringSeries.
Least(a, b)    == IF a < b THEN a ELSE b
Greatest(a, b) == IF a < b THEN b ELSE a

Upserted(a) ==
    IF row = NoRow THEN a
    ELSE [a EXCEPT !.first = Least(@, row.first), !.last = Greatest(@, row.last)]

\* Workers that hold less than w, and so read before it.
Behind(w) == {v \in Workers \ {w} : /\ Writing(v)
                                    /\ worker[v].seen # worker[w].seen
                                    /\ worker[v].seen \subseteq worker[w].seen}

Upsert(w) ==
    /\ Writing(w)
    /\ row' = Upserted(Classify(worker[w].seen))
    /\ basis' = worker[w].seen
    /\ Done(w)
    /\ late' = (late \ {w}) \cup Behind(w)
    /\ overtaken' = (w \in late /\ worker[w].seen # charges)
    /\ UNCHANGED <<charges, settled, offered, queued>>

\* A statement of UpdateRecurring fails, and process goes on; one of a rebuild
\* does, and it ends.
FailUpdate(w) ==
    /\ worker[w].at \in {"read", "write"}
    /\ Done(w)
    /\ IF worker[w].of = NoCharge
       THEN late' = late \ {w} /\ UNCHANGED overtaken
       ELSE Disturbed
    /\ UNCHANGED <<charges, settled, offered, queued, row, basis>>

\* ClaimNotification, by whoever gets there first.
Claim(w) ==
    /\ worker[w].at = "claim"
    /\ settled' = IF OnRecord(worker[w].of) THEN settled \cup {worker[w].of} ELSE settled
    /\ Turn(w, "idle", NoCharge, {})
    /\ UNCHANGED <<charges, offered, queued, row, basis>> /\ Quietly

FailClaim(w) ==
    /\ worker[w].at = "claim"
    /\ Turn(w, "idle", NoCharge, {})
    /\ UNCHANGED <<charges, settled, offered, queued, row, basis>> /\ Quietly

Arrivals(C, D) == \E c \in C, d \in D, a \in Amounts : Arrive(c, d, a)

Pipeline ==
    \/ \E c \in offered : Enqueue(c)
    \/ \E w \in Workers : \/ ReadHistory(w) \/ Upsert(w) \/ Claim(w)
                         \/ \E c \in queued : TakeUp(w, c)

Disturbing ==
    \/ \E x \in charges : Vanish(x) \/ \E a \in Amounts : Amend(x, a)
    \/ \E c \in offered : Drop(c)
    \/ \E c \in Charges : Sweep(c)
    \/ \E W \in SUBSET Workers, C \in SUBSET (offered \cup queued) : Crash(W, C)
    \/ \E w \in Workers : Rebuild(w) \/ FailUpdate(w) \/ FailClaim(w)

RecurringNext == Arrivals(Charges, Days) \/ Pipeline \/ Disturbing

RecurringSpec == RecurringInit /\ [][RecurringNext]_recurringVars

-----------------------------------------------------------------------------
(* Properties.                                                             *)

\* The row is what Classify makes of H.
Follows(H) ==
    /\ row # NoRow
    /\ LET a == Classify(H) IN
       <<row.kind, row.typical, row.cadence, row.count>> =
         <<a.kind, a.typical, a.cadence, a.count>>
    /\ \A x \in H : x.day \in row.first..row.last

\* When the notification of every charge on file is claimed, the row is what
\* Classify makes of all of them: in whatever order they came and were taken up,
\* whatever items were dropped or lost with a process, and whoever else is about
\* to read or to write.  Excepted are a row that was written last from an older
\* reading than the one before; a classification that failed, which the code
\* only logs; and a charge that vanished or changed: until a later reading is
\* written.
SeriesFollowsHistory ==
    /\ charges # {}
    /\ \A x \in charges : x.id \in settled
    /\ ~overtaken
    => Follows(charges)

\* H: one charge a month, each at most slip days after the date, or after the
\* end of a month that is too short for it, within 50 cents of one another.
Monthly(H, slip) ==
    LET s == Ordered(H) IN
    /\ \A i \in 1..Len(s) - 1 : s[i + 1].day - s[i].day \in 28 - slip .. 31 + slip
    /\ \E date \in 1..31 : \A x \in H :
         \E k \in 0..slip : x.day - k \in Days /\
            \/ DayOfMonth[x.day - k] = date
            \/ DayOfMonth[x.day - k] < date /\ x.day - k + 1 \in Days
                                            /\ DayOfMonth[x.day - k + 1] = 1
    /\ \A x, y \in H : x.cents - y.cents <= 50

\* "Old history poisons it otherwise" (TestClassifyStaleOutlierDoesNotDemote-
\* Subscription): five monthly charges of one price, two days late at most, are
\* a subscription whatever was charged once before them and whenever, as long
\* as it was about the same date of its month; three are, if nothing was.
SteadyBillIsSubscription ==
    LET s == Ordered(charges)
        R == {s[i] : i \in Greatest(1, Len(s) - recentWindow)..Len(s)} IN
    /\ Len(s) >= minOccurrences
    /\ Cardinality(charges \ R) <= 1
    /\ Monthly(R, 2)
    /\ SameDate(charges, 8)
    => Classify(charges).kind = "subscription"

-----------------------------------------------------------------------------
(* The inductive invariant behind SeriesFollowsHistory.                    *)

\* Finitely many charges, and ids that tell them apart.
OnFile(H) ==
    /\ H \subseteq Charge /\ IsFiniteSet(H)
    /\ \A x, y \in H : x.id = y.id => x = y

HistoriesAreOrdered ==
    /\ OnFile(charges) /\ OnFile(basis)
    /\ \A w \in Workers : OnFile(worker[w].seen)

\* Whoever classified x, or was to, is beyond it: its notification is claimed or
\* about to be, or a later reading than its worker's was written.
Counted(x) ==
    \/ x.id \in settled
    \/ \E w \in Workers : worker[w].of = x.id
                          /\ (worker[w].at = "claim" \/ (Writing(w) /\ w \in late))

\* Readings that are not late are of what is on file, one within the other, and
\* have what was counted, and their own charge.
ReadingsHold ==
    \A w \in Workers \ late :
        Writing(w) =>
            /\ worker[w].seen \subseteq charges
            /\ \A x \in charges : Counted(x) \/ worker[w].of = x.id => x \in worker[w].seen
            /\ \A v \in Workers \ late :
                  Writing(v) => \/ worker[w].seen \subseteq worker[v].seen
                                \/ worker[v].seen \subseteq worker[w].seen

\* The row is of what it was written from, and that has what was counted.
RowHolds ==
    /\ basis # {} => Follows(basis)
    /\ ~overtaken =>
          /\ basis \subseteq charges
          /\ \A x \in charges : Counted(x) => x \in basis

LateOnesWrite == \A w \in late : Writing(w)

SeriesInv == HistoriesAreOrdered /\ LateOnesWrite /\ ReadingsHold /\ RowHolds

=============================================================================
