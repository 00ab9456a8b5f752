------------------------------ MODULE Pipeline ------------------------------
(***************************************************************************)
(* The categorization pipeline of one family (internal/categorize): the    *)
(* bounded queue and the workers of every replica, the sweep over rows     *)
(* that were never notified, the claim that makes one worker announce a    *)
(* transaction, the savings nudges, and re-assessments, which run the same *)
(* code on goroutines of their own.                                        *)
(*                                                                         *)
(* What a category is decided from (rules, the merchant's history, the     *)
(* language model) is left open here; module Labels has the rules.  What   *)
(* becomes of a queued note write is one step here and module WriteQueue   *)
(* in full.                                                                *)
(***************************************************************************)
EXTENDS Integers, Sequences, FiniteSets

CONSTANTS
    Txns,         \* rows of transactions; a row that comes back is a new one
    Users,        \* the members of the family
    Owner,        \* [Txns -> the user whose card it is, or Nobody]
    Nobody,
    Suggestions,  \* savings suggestions a purchase may fall under
    NoMatch,
    Replicas,
    Workers,      \* goroutines that run process
    Home,         \* [Workers -> Replicas]
    Background,   \* the workers that are runReassess, and take no items
    NoTxn,
    QueueSize,    \* 1024
    SweepLimit,   \* 100
    MaxEdits,     \* bound on what users change in Crew and ask for
    MaxCrashes    \* bound on the crashes

ASSUME PipelineAssumption ==
    /\ Users # {}
    /\ Nobody \notin Users
    /\ Owner \in [Txns -> Users \cup {Nobody}]
    /\ NoMatch \notin Suggestions
    /\ Home \in [Workers -> Replicas]
    /\ Background \subseteq Workers
    /\ NoTxn \notin Txns
    /\ QueueSize \in Nat /\ SweepLimit \in Nat \ {0}
    /\ MaxEdits \in Nat /\ MaxCrashes \in Nat

VARIABLES
    row,       \* [Txns -> the row of transactions]
    crew,      \* [Txns -> the note in Crew] (external)
    job,       \* [Txns -> the pending note write, by who asked for it]
    queue,     \* [Replicas -> p.queue]
    sweep,     \* [Replicas -> the ids sweepLoop has yet to enqueue]
    worker,    \* [Workers -> where process is]
    cooling,   \* [Users -> suggestions nudged about within the cooldown]
    heard,     \* history: [Txns -> [Users -> pushes sent]]
    excused,   \* history: transactions there was a reason not to tell of
    owed,      \* history: nudges used up and not sent, <<transaction, user>>
    edits, crashes

store   == <<row, crew, job>>
memory  == <<queue, sweep, worker>>
history == <<heard, excused, owed>>
bounds  == <<edits, crashes>>
vars    == <<store, memory, cooling, history, bounds>>

\* A note is blank, one of the family's categories, or anything else.
Notes == {"blank", "filed", "hand"}

Row    == [at : {"none", "stored", "gone"}, age : {"fresh", "old", "week"},
           notified : BOOLEAN, note : Notes]
Item   == [txn : Txns, notify : BOOLEAN]
Worker == [at : {"idle", "resolve", "settle", "address", "tell"},
           txn : Txns \cup {NoTxn}, notify : BOOLEAN, note : Notes,
           silent : BOOLEAN, filed : BOOLEAN,
           match : Suggestions \cup {NoMatch},
           left : SUBSET Users, wants : SUBSET Users,
           turn : SUBSET Users, nudge : BOOLEAN]

Idle == [at |-> "idle", txn |-> NoTxn, notify |-> FALSE, note |-> "blank",
         silent |-> FALSE, filed |-> FALSE, match |-> NoMatch,
         left |-> {}, wants |-> {}, turn |-> {}, nudge |-> FALSE]

TypeOK ==
    /\ row \in [Txns -> Row]
    /\ crew \in [Txns -> Notes]
    /\ job \in [Txns -> {"none", "user", "auto"}]
    /\ queue \in [Replicas -> Seq(Item)]
    /\ \A r \in Replicas : Len(queue[r]) <= QueueSize
    /\ sweep \in [Replicas -> SUBSET Txns]
    /\ worker \in [Workers -> Worker]
    /\ \A w \in Workers : worker[w].at # "idle" => worker[w].txn \in Txns
    /\ cooling \in [Users -> SUBSET Suggestions]
    /\ heard \in [Txns -> [Users -> Nat]]
    /\ excused \in SUBSET Txns
    /\ owed \in SUBSET (Txns \X Users)
    /\ edits \in 0..MaxEdits
    /\ crashes \in 0..MaxCrashes

Init ==
    /\ row = [t \in Txns |-> [at |-> "none", age |-> "fresh",
                              notified |-> FALSE, note |-> "blank"]]
    /\ crew = [t \in Txns |-> "blank"]
    /\ job = [t \in Txns |-> "none"]
    /\ queue = [r \in Replicas |-> <<>>]
    /\ sweep = [r \in Replicas |-> {}]
    /\ worker = [w \in Workers |-> Idle]
    /\ cooling = [u \in Users |-> {}]
    /\ heard = [t \in Txns |-> [u \in Users |-> 0]]
    /\ excused = {}
    /\ owed = {}
    /\ edits = 0
    /\ crashes = 0

Noted(x, n) == [x EXCEPT !.note = n]
Older(x)    == [x EXCEPT !.age = IF @ = "fresh" THEN "old" ELSE "week"]
Gone(x)     == [x EXCEPT !.at = "gone"]

\* There is a reason not to tell of t, and nobody has been chosen to.
Hushed(t) == IF row[t].notified THEN excused ELSE excused \cup {t}

-----------------------------------------------------------------------------
(* The queue and what fills it.                                            *)

\* Broken: the queue is not bounded.
OfferAlways(q, t, notify) == Append(q, [txn |-> t, notify |-> notify])

\* Enqueue never blocks: a full queue drops the item.
Offer(q, t, notify) ==
    IF Len(q) < QueueSize THEN Append(q, [txn |-> t, notify |-> notify]) ELSE q

Enqueued(r, t, notify) == [queue EXCEPT ![r] = Offer(@, t, notify)]

\* ingest: InsertTransaction creates the row, and the runner enqueues it; the
\* process may end in between.  A catch-up may bring transactions older than a
\* day, and the very first one of a connection asks for no pushes.
Ingest(r, t) ==
    /\ row[t].at = "none"
    /\ \E age \in {"fresh", "old"}, notify \in BOOLEAN :
        /\ row' = [row EXCEPT ![t] = [at |-> "stored", age |-> age,
                                      notified |-> FALSE, note |-> crew[t]]]
        /\ queue' \in {queue, Enqueued(r, t, notify)}
        /\ excused' = IF notify /\ age = "fresh" /\ crew[t] # "filed"
                      THEN excused ELSE Hushed(t)
    /\ UNCHANGED <<crew, job, sweep, worker, cooling, heard, owed, bounds>>

\* Broken: the sweep looks at the day a push is sent for.
UnnotifiedToday ==
    {t \in Txns : row[t].at = "stored" /\ ~row[t].notified /\ row[t].age = "fresh"}

\* SweepUnnotified's WHERE clause.
Unnotified ==
    {t \in Txns : row[t].at = "stored" /\ ~row[t].notified /\ row[t].age # "week"}

\* sweepLoop, at its timer: which rows the LIMIT leaves out is left open.
Sweep(r) ==
    /\ sweep[r] = {}
    /\ Unnotified # {}
    /\ \E S \in SUBSET Unnotified :
        /\ Cardinality(S) <= SweepLimit
        /\ Cardinality(S) = SweepLimit \/ S = Unnotified
        /\ sweep' = [sweep EXCEPT ![r] = S]
    /\ UNCHANGED <<store, queue, worker, cooling, history, bounds>>

SweepNext(r, t) ==
    /\ t \in sweep[r]
    /\ sweep' = [sweep EXCEPT ![r] = @ \ {t}]
    /\ queue' = Enqueued(r, t, TRUE)
    /\ UNCHANGED <<store, worker, cooling, history, bounds>>

\* SyncNoteFromCrew finds another note: it is copied, and the transaction is
\* evaluated again without a push, unless the row cannot be read back.
SyncNote(r, t) ==
    /\ row[t].at = "stored"
    /\ row[t].note # crew[t]
    /\ row' = [row EXCEPT ![t] = Noted(@, crew[t])]
    /\ queue' \in {queue, Enqueued(r, t, FALSE)}
    /\ excused' = IF queue' = queue /\ crew[t] # "filed" THEN excused ELSE Hushed(t)
    /\ UNCHANGED <<crew, job, sweep, worker, cooling, heard, owed, bounds>>

-----------------------------------------------------------------------------
(* process, on worker w.                                                   *)

Become(w, x) == worker' = [worker EXCEPT ![w] = x]

\* GetTransactionByID: what the worker knows of the row from here on.
Loaded(t, notify) ==
    [Idle EXCEPT !.at = "resolve", !.txn = t, !.notify = notify,
                 !.note = row[t].note]

\* A worker receives an item.  The row may be gone, or the query fail.
Take(w) ==
    LET r == Home[w] IN
    /\ w \notin Background
    /\ worker[w].at = "idle"
    /\ queue[r] # <<>>
    /\ queue' = [queue EXCEPT ![r] = Tail(@)]
    /\ LET item == Head(queue[r]) IN
       \/ row[item.txn].at = "stored" /\ Become(w, Loaded(item.txn, item.notify))
       \/ Become(w, Idle)
    /\ UNCHANGED <<store, sweep, cooling, history, bounds>>

\* runReassess reaches t in a list of blank transactions read earlier.
Reassess(w, t) ==
    /\ w \in Background
    /\ worker[w].at = "idle"
    /\ row[t].at = "stored"
    /\ Become(w, Loaded(t, FALSE))
    /\ excused' = Hushed(t)
    /\ UNCHANGED <<store, queue, sweep, cooling, heard, owed, bounds>>

Resolved(x, silent, filed) == [x EXCEPT !.at = "settle", !.note = "blank",
                                        !.silent = silent, !.filed = filed]

\* Broken: a note by hand is taken for a category.
ResolveAnyWritten(w) ==
    LET x == worker[w] IN
    /\ x.at = "resolve"
    /\ x.note # "blank"
    /\ Become(w, Resolved(x, TRUE, TRUE))
    /\ UNCHANGED <<store, queue, sweep, cooling, history, bounds>>

\* resolveCategory: a note that is there already is never the pipeline's to
\* change; a category needs no push, anything else asks for one.
ResolveWritten(w) ==
    LET x == worker[w] IN
    /\ x.at = "resolve"
    /\ x.note # "blank"
    /\ Become(w, Resolved(x, x.note = "filed", x.note = "filed"))
    /\ UNCHANGED <<store, queue, sweep, cooling, history, bounds>>

\* A rule, which is silent, a consistent history or the model answers:
\* queueNote supersedes whatever write is pending.  The statement may fail; the
\* answer stands.
ResolveBlank(w) ==
    LET x == worker[w] IN
    /\ x.at = "resolve"
    /\ x.note = "blank"
    /\ \E byRule \in BOOLEAN :
        /\ Become(w, Resolved(x, byRule, TRUE))
        /\ excused' = IF byRule THEN Hushed(x.txn) ELSE excused
    /\ job' \in {job, [job EXCEPT ![x.txn] = "auto"]}
    /\ UNCHANGED <<row, crew, queue, sweep, cooling, heard, owed, bounds>>

\* Nobody knows.
ResolveNone(w) ==
    LET x == worker[w] IN
    /\ x.at = "resolve"
    /\ x.note = "blank"
    /\ Become(w, Resolved(x, FALSE, FALSE))
    /\ UNCHANGED <<store, queue, sweep, cooling, history, bounds>>

Notified(t) == [row EXCEPT ![t] = [@ EXCEPT !.notified = TRUE]]

\* UPDATE ... WHERE id = $1 AND notified_at IS NULL hits the row.
Claimable(t) == row[t].at = "stored" /\ ~row[t].notified

\* Not to be announced, whatever else is found out.
Muted(x) == ~x.notify \/ row[x.txn].age # "fresh"

\* process: nothing to tell.  The claim may fail; nobody looks.
Absorb(w) ==
    LET x == worker[w] IN
    /\ x.at = "settle"
    /\ Muted(x) \/ x.silent
    /\ row' \in {row} \cup (IF Claimable(x.txn) THEN {Notified(x.txn)} ELSE {})
    /\ Become(w, Idle)
    /\ UNCHANGED <<crew, job, queue, sweep, cooling, history, bounds>>

\* Broken: the claim does not ask whether the row was claimed before.
WinsAlways(t) == row[t].at = "stored"

\* ClaimNotification reports one row.
Wins(t) == Claimable(t)

\* savingsMatch: never for a transaction that still waits to be categorized.
Matches(x) == IF x.silent \/ x.filed THEN Suggestions \cup {NoMatch} ELSE {NoMatch}

\* The worker has the claim, and forgets what it needs no more.
Claimed(x, m) == [x EXCEPT !.at = "address", !.match = m, !.notify = FALSE,
                           !.filed = FALSE]

\* Broken: the nudges are claimed ahead of the transaction.
ClaimNudgesFirst(w) ==
    LET x == worker[w] IN
    /\ x.at = "settle"
    /\ ~Muted(x)
    /\ \E m \in Matches(x) :
        /\ x.silent => m # NoMatch
        /\ cooling' = [u \in Users |-> cooling[u] \cup ({m} \ {NoMatch})]
        /\ owed' = owed \cup {<<x.txn, u>> : u \in {v \in Users : cooling'[v] # cooling[v]}}
        /\ IF Wins(x.txn)
           THEN row' = Notified(x.txn) /\ Become(w, Claimed(x, m))
           ELSE row' = row /\ Become(w, Idle)
    /\ UNCHANGED <<crew, job, queue, sweep, heard, excused, bounds>>

\* process: the claim decides who announces the transaction.  A silent one is
\* announced only as a match.
Claim(w) ==
    LET x == worker[w] IN
    /\ x.at = "settle"
    /\ ~Muted(x)
    /\ \E m \in Matches(x) :
        /\ x.silent => m # NoMatch
        /\ IF Wins(x.txn)
           THEN row' = Notified(x.txn) /\ Become(w, Claimed(x, m))
           ELSE row' = row /\ Become(w, Idle)
    /\ UNCHANGED <<crew, job, queue, sweep, cooling, history, bounds>>

\* The claim fails; it may have been stored all the same, and is lost then.
ClaimError(w) ==
    LET x == worker[w] IN
    /\ x.at = "settle"
    /\ ~Muted(x)
    /\ row' \in {row} \cup (IF Claimable(x.txn) THEN {Notified(x.txn)} ELSE {})
    /\ excused' = IF row' = row THEN excused ELSE excused \cup {x.txn}
    /\ Become(w, Idle)
    /\ UNCHANGED <<crew, job, queue, sweep, cooling, heard, owed, bounds>>

Telling(x, A, W) == [x EXCEPT !.at = "tell", !.left = A, !.wants = W]

Audiences(t) == {Users} \cup (IF Owner[t] = Nobody THEN {} ELSE {{Owner[t]}})

\* notify: the cardholder if CardOwner knows one, everybody otherwise, also
\* when the snapshot is missing or the query fails; and who wants nudges.
Address(w) ==
    LET x == worker[w] IN
    /\ x.at = "address"
    /\ \E A \in Audiences(x.txn) :
        \E W \in SUBSET A :
            /\ x.match = NoMatch => W = {}
            /\ Become(w, Telling(x, A, W))
    /\ UNCHANGED <<store, queue, sweep, cooling, history, bounds>>

\* FamilyNudgeRecipients fails: the push is lost.
AddressError(w) ==
    LET x == worker[w] IN
    /\ x.at = "address"
    /\ Become(w, Idle)
    /\ excused' = excused \cup {x.txn}
    /\ UNCHANGED <<store, queue, sweep, cooling, heard, owed, bounds>>

\* notify's loop has come to u, who wants nudges, with a nudge to give.
Asks(x, u) == /\ x.at = "tell" /\ x.turn = {} /\ u \in x.left \cap x.wants
              /\ x.match # NoMatch

Turn(x, u, granted) == [x EXCEPT !.turn = {u}, !.nudge = granted]
Spent(u, s)         == [cooling EXCEPT ![u] = @ \cup {s}]

\* ClaimInsightNudge, an upsert of its own ahead of the push, uses up u's nudge.
ClaimNudge(w, u) ==
    LET x == worker[w] IN
    /\ Asks(x, u)
    /\ x.match \notin cooling[u]
    /\ cooling' = Spent(u, x.match)
    /\ owed' = owed \cup {<<x.txn, u>>}
    /\ Become(w, Turn(x, u, TRUE))
    /\ UNCHANGED <<store, queue, sweep, heard, excused, bounds>>

\* u was nudged within the cooldown; or the statement fails, which is no claim
\* either, though it may have been stored and its answer lost.
RefuseNudge(w, u) ==
    LET x == worker[w] IN
    /\ Asks(x, u)
    /\ cooling' \in {cooling, Spent(u, x.match)}
    /\ Become(w, Turn(x, u, FALSE))
    /\ UNCHANGED <<store, queue, sweep, history, bounds>>

Send(t, u) == heard' = [heard EXCEPT ![t][u] = @ + 1]

\* The loop goes on with the recipients left, and process ends with the last.
Told(x, u) ==
    IF x.left = {u} THEN Idle
    ELSE [x EXCEPT !.left = @ \ {u}, !.wants = @ \ {u}, !.turn = {}, !.nudge = FALSE]

\* SendToUser with the nudge.
TellNudge(w, u) ==
    LET x == worker[w] IN
    /\ x.at = "tell" /\ u \in x.left
    /\ x.turn = {u} /\ x.nudge
    /\ owed' = owed \ {<<x.txn, u>>}
    /\ Send(x.txn, u)
    /\ Become(w, Told(x, u))
    /\ UNCHANGED <<store, queue, sweep, cooling, excused, bounds>>

\* Otherwise the ordinary push, which a silent category has none of.
TellPlain(w, u) ==
    LET x == worker[w] IN
    /\ x.at = "tell" /\ u \in x.left /\ ~x.nudge
    /\ x.turn = {u} \/ (x.turn = {} /\ u \notin x.wants)
    /\ IF x.silent THEN UNCHANGED heard ELSE Send(x.txn, u)
    /\ Become(w, Told(x, u))
    /\ UNCHANGED <<store, queue, sweep, cooling, excused, owed, bounds>>

-----------------------------------------------------------------------------
(* Time, users, Crew and crashes.                                          *)

\* A day after the purchase it is too late for a push, a week after it was
\* stored the sweep gives it up.
GrowOlder(t) ==
    /\ row[t].at = "stored"
    /\ row[t].age # "week"
    /\ row' = [row EXCEPT ![t] = Older(@)]
    /\ excused' = Hushed(t)
    /\ UNCHANGED <<crew, job, memory, cooling, heard, owed, bounds>>

CooldownEnds(u, s) ==
    /\ s \in cooling[u]
    /\ cooling' = [cooling EXCEPT ![u] = @ \ {s}]
    /\ UNCHANGED <<store, memory, history, bounds>>

\* DeleteVanishedTransaction: the row, and the write pending for it.
Vanish(t) ==
    /\ row[t].at = "stored"
    /\ row' = [row EXCEPT ![t] = Gone(@)]
    /\ job' = [job EXCEPT ![t] = "none"]
    /\ UNCHANGED <<crew, memory, cooling, history, bounds>>

Edit == edits < MaxEdits /\ edits' = edits + 1

\* Somebody types a note, or a category's name, into the Crew app.
WriteInCrew(t, n) ==
    /\ Edit
    /\ crew' = [crew EXCEPT ![t] = n]
    /\ UNCHANGED <<row, job, memory, cooling, history, crashes>>

\* SetCategory of the transactions API: a note write somebody asked for.
SetCategory(t) ==
    /\ Edit
    /\ row[t].at = "stored"
    /\ job' = [job EXCEPT ![t] = "user"]
    /\ UNCHANGED <<row, crew, memory, cooling, history, crashes>>

\* The write queue performs a pending write, and the local note follows.
WriteNote(t) ==
    /\ job[t] # "none"
    /\ job' = [job EXCEPT ![t] = "none"]
    /\ crew' = [crew EXCEPT ![t] = "filed"]
    /\ row' = [row EXCEPT ![t] = Noted(@, "filed")]
    /\ excused' = Hushed(t)
    /\ UNCHANGED <<memory, cooling, heard, owed, bounds>>

\* The nudge x has used up and not sent.
Granted(x) == {<<x.txn, u>> : u \in x.turn}

\* What dies with process r was on its way to nobody else.
Announcing(x) == x.at \in {"address", "tell"}

\* A process ends and is started again.
Crash(r) ==
    /\ crashes < MaxCrashes
    /\ crashes' = crashes + 1
    /\ queue' = [queue EXCEPT ![r] = <<>>]
    /\ sweep' = [sweep EXCEPT ![r] = {}]
    /\ worker' = [w \in Workers |-> IF Home[w] = r THEN Idle ELSE worker[w]]
    /\ excused' = excused \cup {worker[w].txn : w \in
                     {v \in Workers : Home[v] = r /\ Announcing(worker[v])}}
    /\ owed' = owed \ UNION {Granted(worker[w]) : w \in {v \in Workers : Home[v] = r}}
    /\ UNCHANGED <<store, cooling, heard, edits>>

-----------------------------------------------------------------------------
Resolve(w) == ResolveWritten(w) \/ ResolveBlank(w) \/ ResolveNone(w)
Tell(w, u) == TellNudge(w, u) \/ TellPlain(w, u)
Nudge(w, u) == ClaimNudge(w, u) \/ RefuseNudge(w, u)

Process(w) ==
    \/ Take(w) \/ Resolve(w) \/ Absorb(w) \/ Claim(w) \/ ClaimError(w)
    \/ Address(w) \/ AddressError(w) \/ \E u \in Users : Nudge(w, u) \/ Tell(w, u)

Outside(t) ==
    \/ GrowOlder(t) \/ Vanish(t) \/ SetCategory(t) \/ WriteNote(t)
    \/ \E n \in Notes : WriteInCrew(t, n)

Next ==
    \/ \E r \in Replicas, t \in Txns : Ingest(r, t) \/ SweepNext(r, t) \/ SyncNote(r, t)
    \/ \E r \in Replicas : Sweep(r) \/ Crash(r)
    \/ \E w \in Workers : Process(w) \/ \E t \in Txns : Reassess(w, t)
    \/ \E t \in Txns : Outside(t)
    \/ \E u \in Users, s \in Suggestions : CooldownEnds(u, s)

Spec == Init /\ [][Next]_vars

\* The sweep's timer fires again and again and its loop ends; a worker that
\* waits for an item gets one and goes on with it.  Not every load and not
\* every claim fails.
Sweeping(r)  == Sweep(r) \/ \E t \in Txns : SweepNext(r, t)
Loads(w)     == Take(w) /\ worker'[w].at = "resolve"
Answers(w)   == Resolve(w) \/ Address(w) \/ \E u \in Users : Nudge(w, u) \/ Tell(w, u)
Absorbs(w)   == Absorb(w) /\ (Claimable(worker[w].txn) => row' # row)

Fairness ==
    /\ \A r \in Replicas : WF_vars(Sweeping(r))
    /\ \A w \in Workers \ Background :
        SF_vars(Loads(w) \/ Answers(w)) /\ SF_vars(Claim(w) \/ Absorbs(w))

FairSpec == Spec /\ Fairness

-----------------------------------------------------------------------------
(* Properties.                                                             *)

Phase(t) ==
    IF ~row[t].notified THEN "open"
    ELSE IF \E w \in Workers : worker[w].at = "address" /\ worker[w].txn = t
         THEN "addressing" ELSE "settled"

Due(t) == {u \in Users :
             \E w \in Workers : worker[w].txn = t /\ u \in worker[w].left}

\* "Push, exactly once across all replicas": the pipeline keeps what module
\* Announcements promises.
Announced == INSTANCE Announcements WITH
    phase <- [t \in Txns |-> Phase(t)], due <- [t \in Txns |-> Due(t)]

ImplementsAnnouncements == Announced!Spec

\* Nothing is swallowed, by whatever workers, sweeps and re-assessments cross: a
\* transaction that counts as notified was told to everyone it was addressed
\* to, the savings nudge standing in for the ordinary push.  Excused are, each
\* recorded where it happens and never by the worker that marks the row: a
\* purchase a day old before it was claimed; an evaluation nobody is to hear of
\* (a first import, a note edited in Crew, a re-assessment); a category that was
\* in the note before the claim, the pipeline's own answer included when it got
\* there first, or that a rule gave; a failing statement and the end of a
\* process in the middle of the announcement.
FreshIsHeard ==
    \A t \in Txns :
        /\ row[t].notified
        /\ t \notin excused
        /\ \A w \in Workers : Announcing(worker[w]) => worker[w].txn # t
        => \E A \in Audiences(t) : \A u \in Users :
               heard[t][u] = IF u \in A THEN 1 ELSE 0

\* "A full queue drops the item; the periodic sweep re-picks anything
\* unnotified": every row is settled, or is gone, or is a week old, whatever
\* queues overflow and processes end.
EveryTransactionSettles ==
    \A t \in Txns :
        row[t].at = "stored" ~> row[t].notified \/ row[t].at = "gone"
                                                \/ row[t].age = "week"

\* "a replica that loses the race for the transaction must not use up anyone's
\* nudge for the day": a nudge used up and not sent yet is that of a member who
\* is still to hear, from the one worker that won the transaction, and who has
\* heard nothing of it.  Two exceptions: the answer of the claim is lost, and the
\* process ends between the claim and the push; both leave the nudge unsent.
NudgesAreSpent ==
    \A t \in Txns, u \in Users : <<t, u>> \in owed =>
        /\ heard[t][u] = 0
        /\ \E w \in Workers :
            /\ Announcing(worker[w]) /\ worker[w].txn = t
            /\ worker[w].at = "tell" => u \in worker[w].left

-----------------------------------------------------------------------------
(* The inductive invariant behind FreshIsHeard, NudgesAreSpent and the     *)
(* refinement.                                                             *)

WorkerInv ==
    \A w \in Workers :
        /\ worker[w].at # "tell" => worker[w].left = {}
        /\ Announcing(worker[w]) => row[worker[w].txn].notified

\* The claim picks one worker per transaction.
OneAnnouncer ==
    \A v, w \in Workers :
        /\ Announcing(worker[v]) /\ Announcing(worker[w])
        /\ worker[v].txn = worker[w].txn
        => v = w

\* Whoever is still to be told has heard nothing.
UntoldHeardNothing ==
    /\ \A t \in Txns : ~row[t].notified => \A u \in Users : heard[t][u] = 0
    /\ \A w \in Workers :
        /\ worker[w].at = "address" => \A u \in Users : heard[worker[w].txn][u] = 0
        /\ worker[w].at = "tell" => \A u \in worker[w].left : heard[worker[w].txn][u] = 0

\* S is what is left of an audience all others of which have been told.
PartlyTold(t, S) ==
    \E A \in Audiences(t) :
        /\ S \subseteq A
        /\ \A u \in Users : heard[t][u] = IF u \in A \ S THEN 1 ELSE 0

Progressing ==
    \A w \in Workers :
        Announcing(worker[w]) /\ worker[w].txn \notin excused =>
            /\ ~worker[w].silent
            /\ worker[w].at = "tell" => PartlyTold(worker[w].txn, worker[w].left)

Settled(t) == t \in excused \/ row[t].notified

\* Whatever may make a worker keep quiet about t had a reason.
QuietItems ==
    \A r \in Replicas : \A i \in 1..Len(queue[r]) :
        ~queue[r][i].notify => Settled(queue[r][i].txn)
QuietRows ==
    \A t \in Txns : row[t].age # "fresh" \/ row[t].note = "filed" => Settled(t)
Hushing(x) == \/ x.at \in {"resolve", "settle"} /\ ~x.notify
              \/ x.at = "resolve" /\ x.note = "filed"
              \/ x.at = "settle" /\ x.silent
QuietWorkers == \A w \in Workers : Hushing(worker[w]) => Settled(worker[w].txn)
Quiet == QuietItems /\ QuietRows /\ QuietWorkers

\* The nudges owed are those granted to the recipients whose turn it is.
OwedIsGranted ==
    \A t \in Txns, u \in Users : <<t, u>> \in owed =>
        \E w \in Workers :
            /\ worker[w].at = "tell" /\ worker[w].txn = t
            /\ worker[w].nudge /\ worker[w].turn = {u} /\ u \in worker[w].left

PipelineInv ==
    /\ WorkerInv
    /\ OneAnnouncer
    /\ UntoldHeardNothing
    /\ Progressing
    /\ FreshIsHeard

-----------------------------------------------------------------------------
(* A statement of the repository that the code does not keep.              *)

\* "A note you wrote by hand is never overwritten automatically" (README.md:18).
HandWrittenStays ==
    [][\A t \in Txns : crew[t] = "hand" /\ job[t] = "auto" => crew'[t] # "filed"]_vars

=============================================================================
