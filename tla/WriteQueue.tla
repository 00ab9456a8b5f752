----------------------------- MODULE WriteQueue -----------------------------
(***************************************************************************)
(* The write queue of one Crew connection: crew_write_jobs                 *)
(* (internal/store/writejobs.go), the runners that drain it                *)
(* (internal/watcher/writes.go), and the local copy of Crew's notes that   *)
(* draining, the note sync (internal/watcher/notesync.go) and the watcher  *)
(* keep up to date.                                                        *)
(*                                                                         *)
(* More than one runner may drain at a time: a runner that lost its lease  *)
(* is cancelled, but nobody waits for it (module Leases), and no statement *)
(* of the drain is fenced.                                                 *)
(*                                                                         *)
(* Of run_after the model keeps whether it has passed, and the order in    *)
(* which the jobs that are due became due.                                 *)
(***************************************************************************)
EXTENDS Integers, FiniteSets

CONSTANTS
    Notes,        \* transactions whose note is written: jobs of kind "note"
    Cards,        \* debit cards that are moved: jobs of kind "card_subaccount"
    Spend,        \* the user's one spending pocket in Crew
    Values,       \* notes and pockets
    Blank,        \* what Crew and the local copy hold at first
    Drainers,     \* runners of the connection, the present one and stale ones
    BatchSize,    \* writeBatchSize
    MaxAttempts,  \* maxWriteAttempts
    MaxIds        \* bound on the ids of jobs, in rows and in hand, at one time

ASSUME WriteQueueAssumption ==
    /\ Notes \cap Cards = {}
    /\ Spend \notin Notes
    /\ Blank \in Values
    /\ BatchSize \in Nat \ {0}
    /\ MaxAttempts \in Nat \ {0}
    /\ MaxIds \in Nat

VARIABLES
    job,       \* [Targets -> the row of crew_write_jobs; id 0 if there is none]
    crew,      \* [Cells -> what Crew holds] (external)
    mirror,    \* [Notes -> transactions.note]
    drain,     \* [Drainers -> where drainWriteJobs is]
    page,      \* [Drainers -> [Readers -> notes read from Crew, not yet written]]
    ahead,     \* the pairs of targets of which the first has the earlier run_after
    want,      \* history: [Cells -> the value asked for last]
    raced,     \* history: [Cells -> that request met a drain under way]
    abandoned, \* history: [Cells -> the last request was given up]
    failures   \* history: [Targets -> failed calls since the last request, capped]

vars == <<job, crew, mirror, drain, page, ahead, want, raced, abandoned, failures>>

Targets == Notes \cup Cards
Cells   == Notes \cup {Spend}
Readers == {"sync", "poll"}

\* What a job changes in Crew.  MovePocket does not look at the card: the
\* pocket is a setting of the user.
Cell(t) == IF t \in Notes THEN t ELSE Spend

Job  == [id : 0..MaxIds, value : Values, attempts : Nat, due : BOOLEAN]
\* A job as TakeWriteJobs returned it.
Taken == [target : Targets, id : 0..MaxIds, value : Values, attempts : Nat]

\* Where the loop is, the jobs it has not reached, and the one it is at.
DrainState == [at : {"idle", "next", "mirror", "delete", "fail"},
               batch : SUBSET Taken, cur : SUBSET Taken]
\* Notes read from Crew.
Page == UNION {[S -> Values] : S \in SUBSET Notes}

NoJob == [id |-> 0, value |-> Blank, attempts |-> 0, due |-> FALSE]
Idle  == [at |-> "idle", batch |-> {}, cur |-> {}]

TypeOK ==
    /\ job \in [Targets -> Job]
    /\ crew \in [Cells -> Values]
    /\ mirror \in [Notes -> Values]
    /\ drain \in [Drainers -> DrainState]
    /\ page \in [Drainers -> [Readers -> Page]]
    /\ ahead \in SUBSET (Targets \X Targets)
    /\ want \in [Cells -> Values]
    /\ raced \in [Cells -> BOOLEAN]
    /\ abandoned \in [Cells -> BOOLEAN]
    /\ failures \in [Targets -> 0..MaxAttempts]

NoPage == [t \in {} |-> Blank]

Init ==
    /\ job = [t \in Targets |-> NoJob]
    /\ crew = [c \in Cells |-> Blank]
    /\ mirror = [t \in Notes |-> Blank]
    /\ drain = [r \in Drainers |-> Idle]
    /\ page = [r \in Drainers |-> [k \in Readers |-> NoPage]]
    /\ ahead = {}
    /\ want = [c \in Cells |-> Blank]
    /\ raced = [c \in Cells |-> FALSE]
    /\ abandoned = [c \in Cells |-> FALSE]
    /\ failures = [t \in Targets |-> 0]

Pending(t) == job[t].id # 0

\* The jobs a runner has taken and not finished with.
Hands(r) == drain[r].batch \cup drain[r].cur

Queued(c) == \E t \in Targets : Pending(t) /\ Cell(t) = c
InHand(c) == \E r \in Drainers : \E j \in Hands(r) : Cell(j.target) = c

-----------------------------------------------------------------------------
(* Requests.                                                               *)

Due == {t \in Targets : Pending(t) /\ job[t].due}

\* run_after of t passes now: t comes after every job that is due.
DueNow(t) == {p \in ahead : t \notin {p[1], p[2]}} \cup ((Due \ {t}) \X {t})

\* gen_random_uuid: an id that no row and no runner has.
NewIds == {i \in 1..MaxIds : /\ \A t \in Targets : job[t].id # i
                             /\ \A r \in Drainers : \A j \in Hands(r) : j.id # i}
NewId  == CHOOSE i \in NewIds : TRUE

\* Broken: the conflict keeps the attempts of the request it replaces.
EnqueueKeepingAttempts(t, v) ==
    /\ Pending(t) \/ NewIds # {}
    /\ job' = [job EXCEPT ![t] =
                 [id |-> IF Pending(t) THEN job[t].id ELSE NewId,
                  value |-> v, attempts |-> job[t].attempts, due |-> TRUE]]
    /\ ahead' = DueNow(t)
    /\ want' = [want EXCEPT ![Cell(t)] = v]
    /\ raced' = [raced EXCEPT ![Cell(t)] =
                   InHand(Cell(t)) \/ \E u \in Targets \ {t} :
                                         Pending(u) /\ Cell(u) = Cell(t)]
    /\ abandoned' = [abandoned EXCEPT ![Cell(t)] = FALSE]
    /\ failures' = [failures EXCEPT ![t] = 0]
    /\ UNCHANGED <<crew, mirror, drain, page>>

\* EnqueueWrite: one row per target.  On conflict the row keeps its id and
\* takes the new value.
Enqueue(t, v) ==
    /\ Pending(t) \/ NewIds # {}
    /\ job' = [job EXCEPT ![t] =
                 [id |-> IF Pending(t) THEN job[t].id ELSE NewId,
                  value |-> v, attempts |-> 0, due |-> TRUE]]
    /\ ahead' = DueNow(t)
    /\ want' = [want EXCEPT ![Cell(t)] = v]
    /\ raced' = [raced EXCEPT ![Cell(t)] =
                   InHand(Cell(t)) \/ \E u \in Targets \ {t} :
                                         Pending(u) /\ Cell(u) = Cell(t)]
    /\ abandoned' = [abandoned EXCEPT ![Cell(t)] = FALSE]
    /\ failures' = [failures EXCEPT ![t] = 0]
    /\ UNCHANGED <<crew, mirror, drain, page>>

\* A user edits a note, or picks a pocket, in the Crew app.
EditInCrew(c, v) ==
    /\ crew' = [crew EXCEPT ![c] = v]
    /\ IF InHand(c) \/ Queued(c)
       THEN raced' = [raced EXCEPT ![c] = TRUE] /\ UNCHANGED <<want, abandoned>>
       ELSE /\ want' = [want EXCEPT ![c] = v]
            /\ raced' = [raced EXCEPT ![c] = FALSE]
            /\ abandoned' = [abandoned EXCEPT ![c] = FALSE]
    /\ UNCHANGED <<job, mirror, drain, page, ahead, failures>>

\* run_after passes.
BackoffEnds(t) ==
    /\ Pending(t)
    /\ ~job[t].due
    /\ job' = [job EXCEPT ![t].due = TRUE]
    /\ ahead' = DueNow(t)
    /\ UNCHANGED <<crew, mirror, drain, page, want, raced, abandoned, failures>>

-----------------------------------------------------------------------------
(* drainWriteJobs on the goroutine of runner r.                            *)

Take1(t) == [target |-> t, id |-> job[t].id, value |-> job[t].value,
             attempts |-> job[t].attempts]

\* Broken: the query orders the rows by nothing.
InAnyOrder(S) == S \subseteq Due

\* ORDER BY run_after
Earliest(S) == S \subseteq Due /\ \A t \in S, u \in Due \ S : <<u, t>> \notin ahead

\* TakeWriteJobs reads, and marks nothing.
Take(r) ==
    /\ drain[r].at = "idle"
    /\ page[r]["sync"] = NoPage        \* the sync runs on the same goroutine
    /\ Due # {}
    /\ \E S \in SUBSET Due :
        /\ Earliest(S)
        /\ Cardinality(S) <= BatchSize
        /\ Cardinality(S) = BatchSize \/ S = Due
        /\ drain' = [drain EXCEPT ![r] =
                       [at |-> "next", batch |-> {Take1(t) : t \in S}, cur |-> {}]]
    /\ UNCHANGED <<job, crew, mirror, page, ahead, want, raced, abandoned, failures>>

\* The loop goes on with j in hand, or with the next job.
With(r, place, j) ==
    drain' = [drain EXCEPT ![r] = [at |-> place, batch |-> @.batch \ {j}, cur |-> {j}]]

NextJob(r) ==
    drain' = [drain EXCEPT ![r] = IF @.batch = {} THEN Idle
                                  ELSE [at |-> "next", batch |-> @.batch, cur |-> {}]]

InCrew(j) == crew' = [crew EXCEPT ![Cell(j.target)] = j.value]

Charge(j) == failures' = [failures EXCEPT ![j.target] =
                            IF @ < MaxAttempts THEN @ + 1 ELSE @]

\* UpdateCashTransaction, or MovePocket: Crew does it and says so.
CallSucceeds(r) ==
    /\ drain[r].at = "next"
    /\ \E j \in drain[r].batch : InCrew(j) /\ With(r, "mirror", j)
    /\ UNCHANGED <<job, mirror, page, ahead, want, raced, abandoned, failures>>

\* Broken: without its continue, a failed call goes on to the bookkeeping of
\* a successful one.
CallFailsFallingThrough(r) ==
    /\ drain[r].at = "next"
    /\ \E j \in drain[r].batch : With(r, "mirror", j) /\ Charge(j)
    /\ UNCHANGED <<job, crew, mirror, page, ahead, want, raced, abandoned>>

\* Crew rejects the call, or the call fails on the way.
CallFails(r) ==
    /\ drain[r].at = "next"
    /\ \E j \in drain[r].batch : With(r, "fail", j) /\ Charge(j)
    /\ UNCHANGED <<job, crew, mirror, page, ahead, want, raced, abandoned>>

\* Crew does it and the answer is lost: the job will be done again.
ReplyLost(r) ==
    /\ drain[r].at = "next"
    /\ \E j \in drain[r].batch : InCrew(j) /\ With(r, "fail", j) /\ Charge(j)
    /\ UNCHANGED <<job, mirror, page, ahead, want, raced, abandoned>>

\* 401: the drain ends, the job is left as it is.
Unauthorized(r) ==
    /\ drain[r].at = "next"
    /\ drain' = [drain EXCEPT ![r] = Idle]
    /\ UNCHANGED <<job, crew, mirror, page, ahead, want, raced, abandoned, failures>>

\* SetLocalNote, for a note.  It may fail; the loop goes on.
Mirror(r) ==
    /\ drain[r].at = "mirror"
    /\ \E j \in drain[r].cur :
        /\ mirror' \in {mirror} \cup
             (IF j.target \in Notes THEN {[mirror EXCEPT ![j.target] = j.value]} ELSE {})
        /\ With(r, "delete", j)
    /\ UNCHANGED <<job, crew, page, ahead, want, raced, abandoned, failures>>

\* DELETE ... WHERE id = $1
Dropped(j) == [job EXCEPT ![j.target] = IF @.id = j.id THEN NoJob ELSE @]

\* DeleteWriteJob.  It may fail: the job is done again.
Delete(r) ==
    /\ drain[r].at = "delete"
    /\ \E j \in drain[r].cur : job' \in {job, Dropped(j)}
    /\ NextJob(r)
    /\ UNCHANGED <<crew, mirror, page, ahead, want, raced, abandoned, failures>>

\* Broken: the attempts are counted down.
LaterCountingDown(x) == [x EXCEPT !.attempts = @ - 1, !.due = FALSE]

\* Broken: the attempt is not counted.
LaterUncounted(x) == [x EXCEPT !.due = FALSE]

\* SET attempts = attempts + 1, run_after = now() + backoff WHERE id = $1
Later(x) == [x EXCEPT !.attempts = @ + 1, !.due = FALSE]
BackedOff(j) == [job EXCEPT ![j.target] = IF @.id = j.id THEN Later(@) ELSE @]

\* attempts is the count TakeWriteJobs read.
GivesUp(j) == j.attempts + 1 >= MaxAttempts

\* FailWriteJob.
Fail(r) ==
    /\ drain[r].at = "fail"
    /\ \E j \in drain[r].cur :
        IF GivesUp(j)
        THEN /\ job' = Dropped(j)
             /\ abandoned' = [abandoned EXCEPT ![Cell(j.target)] =
                                @ \/ job[j.target].id = j.id]
        ELSE job' = BackedOff(j) /\ UNCHANGED abandoned
    /\ NextJob(r)
    /\ UNCHANGED <<crew, mirror, page, ahead, want, raced, failures>>

\* FailWriteJob fails: the job stays as it was.
FailError(r) ==
    /\ drain[r].at = "fail"
    /\ NextJob(r)
    /\ UNCHANGED <<job, crew, mirror, page, ahead, want, raced, abandoned, failures>>

\* The runner is cancelled between two jobs.
Cancelled(r) ==
    /\ drain[r].at = "next"
    /\ drain' = [drain EXCEPT ![r] = Idle]
    /\ UNCHANGED <<job, crew, mirror, page, ahead, want, raced, abandoned, failures>>

\* The process of runner r ends.
Crash(r) ==
    /\ drain[r] # Idle \/ \E k \in Readers : page[r][k] # NoPage
    /\ drain' = [drain EXCEPT ![r] = Idle]
    /\ page' = [page EXCEPT ![r] = [k \in Readers |-> NoPage]]
    /\ UNCHANGED <<job, crew, mirror, ahead, want, raced, abandoned, failures>>

-----------------------------------------------------------------------------
(* Crew's notes on their way into the local copy.                          *)

\* syncRecent fetches the newest page, on the goroutine that drains; the
\* watcher polls on its own and reports the transactions S that changed.
FetchPage(r, k) ==
    /\ page[r][k] = NoPage
    /\ k = "sync" => drain[r].at = "idle"
    /\ \E S \in SUBSET Notes \ {{}} :
        /\ k = "sync" => S = Notes
        /\ page' = [page EXCEPT ![r][k] = [t \in S |-> crew[t]]]
    /\ UNCHANGED <<job, crew, mirror, drain, ahead, want, raced, abandoned, failures>>

Without(p, t) == [u \in DOMAIN p \ {t} |-> p[u]]

\* Broken: a note is copied only where there was none.
CopiedIfBlank(r, k, t) ==
    IF mirror[t] = Blank THEN [mirror EXCEPT ![t] = page[r][k][t]] ELSE mirror

\* SyncNoteFromCrew, UpdateTransactionFromCrew.
Copied(r, k, t) == [mirror EXCEPT ![t] = page[r][k][t]]

CopyNote(r, k, t) ==
    /\ t \in DOMAIN page[r][k]
    /\ mirror' = Copied(r, k, t)
    /\ page' = [page EXCEPT ![r][k] = Without(@, t)]
    /\ UNCHANGED <<job, crew, drain, ahead, want, raced, abandoned, failures>>

\* The statement fails; the note waits for the next page.
CopyError(r, k, t) ==
    /\ t \in DOMAIN page[r][k]
    /\ page' = [page EXCEPT ![r][k] = Without(@, t)]
    /\ UNCHANGED <<job, crew, mirror, drain, ahead, want, raced, abandoned, failures>>

-----------------------------------------------------------------------------
Drain(r) ==
    \/ Take(r) \/ CallSucceeds(r) \/ CallFails(r) \/ ReplyLost(r) \/ Unauthorized(r)
    \/ Mirror(r) \/ Delete(r) \/ Fail(r) \/ FailError(r) \/ Cancelled(r) \/ Crash(r)

Copy(r, k) ==
    FetchPage(r, k) \/ \E t \in Notes : CopyNote(r, k, t) \/ CopyError(r, k, t)

\* Everything crewmate itself does.
App ==
    \/ \E t \in Targets : BackoffEnds(t) \/ \E v \in Values : Enqueue(t, v)
    \/ \E r \in Drainers : Drain(r)
    \/ \E r \in Drainers, k \in Readers : Copy(r, k)

Next == App \/ \E c \in Cells, v \in Values : EditInCrew(c, v)

Spec == Init /\ [][Next]_vars

\* A runner that owns the connection drains and syncs at every tick.  Crew
\* does not refuse every call as unauthorized, the database does not fail every
\* statement, and a runner is not cancelled at every turn.  Nothing says that a
\* call ever succeeds.
Answered(r) == CallSucceeds(r) \/ CallFails(r) \/ ReplyLost(r)
Deleted(r)  == Delete(r) /\ \E j \in drain[r].cur : job' = Dropped(j)
Mirrored(r) == Mirror(r) /\ \A j \in drain[r].cur :
                              j.target \in Notes => mirror'[j.target] = j.value

DrainFairness ==
    /\ \A t \in Targets : WF_vars(BackoffEnds(t))
    /\ \A r \in Drainers :
        /\ SF_vars(Take(r)) /\ SF_vars(Answered(r))
        /\ SF_vars(Mirrored(r)) /\ SF_vars(Deleted(r)) /\ SF_vars(Fail(r))

SyncFairness ==
    \A r \in Drainers :
        /\ SF_vars(FetchPage(r, "sync"))
        /\ \A t \in Notes : SF_vars(CopyNote(r, "sync", t))

Fairness == DrainFairness /\ SyncFairness

FairSpec == Spec /\ Fairness

-----------------------------------------------------------------------------
(* Safety.                                                                 *)

\* A request that met no drain under way is not lost, unless it is given up:
\* once no job is left for what it changes, Crew holds the value asked for.
\* Several runners may have drained it at once, calls may have been answered
\* to nobody, deletes may have failed.
UnracedRequestWins ==
    \A c \in Cells :
        ~Queued(c) /\ ~raced[c] /\ ~abandoned[c] => crew[c] = want[c]

\* A change the user saw applied is given up only after maxWriteAttempts calls
\* failed for it, however many runners count its attempts at once.
AbandonedOnlyAfterMaxFailures ==
    \A c \in Cells :
        abandoned[c] /\ ~raced[c] =>
            \E t \in Targets : Cell(t) = c /\ failures[t] = MaxAttempts

(* Liveness, under FairSpec.                                               *)

\* A target's request is replaced before it is done with.
Renew(t) == Pending(t) /\ \E v \in Values : Enqueue(t, v)

\* "A permanently rejected write can't spin" (FailWriteJob): whatever Crew
\* answers, every request is performed or given up, unless it is replaced for
\* ever.  The requests for other targets may never end: a job that fails, and
\* one that is replaced, goes behind those that are due already.
RequestsLeaveTheQueue ==
    \A t \in Targets :
        []<><<Renew(t)>>_vars \/ (Pending(t) ~> ~Pending(t))

\* A note that comes to rest in Crew comes to rest at the same value in the
\* local copy: late pages, edits that overtake a write and statements
\* that fail never leave the two apart for good.
MirrorFollowsCrew ==
    \A t \in Notes, v \in Values :
        <>[](crew[t] = v) => <>[](mirror[t] = v)

-----------------------------------------------------------------------------
(* A statement of the repository that the code does not keep.              *)

\* "superseding any pending write for the same target (last request wins)"
\* (writejobs.go:28): once the queue is done with a cell, Crew holds what was
\* asked for last.
LastRequestWins ==
    \A c \in Cells :
        ~Queued(c) /\ ~InHand(c) /\ ~abandoned[c] => crew[c] = want[c]

-----------------------------------------------------------------------------
(* The inductive invariant behind UnracedRequestWins.                      *)

\* Until a request is raced, its value is the only one on its way to Crew.
OneValueOnTheWay ==
    \A c \in Cells : ~raced[c] =>
        /\ \A t \in Targets : Pending(t) /\ Cell(t) = c => job[t].value = want[c]
        /\ \A r \in Drainers : \A j \in Hands(r) :
               Cell(j.target) = c => j.value = want[c]

\* A runner removes the job of an unraced request only when Crew has the value.
DeletesWhatCrewHas ==
    \A c \in Cells, r \in Drainers :
        ~raced[c] /\ drain[r].at \in {"mirror", "delete"} =>
            \A j \in drain[r].cur : Cell(j.target) = c => crew[c] = want[c]

QueueInv ==
    /\ OneValueOnTheWay
    /\ DeletesWhatCrewHas
    /\ UnracedRequestWins

-----------------------------------------------------------------------------
(* The inductive invariant behind AbandonedOnlyAfterMaxFailures.           *)

\* The runners whose call for t failed, and who have not recorded it yet.
Failing(t) == {r \in Drainers : drain[r].at = "fail" /\ \E j \in drain[r].cur : j.target = t}

\* Until a request is raced, every attempt that is counted, or about to be, was a
\* call of its own, and no runner read more than that.
AttemptsAreCalls ==
    \A t \in Targets : ~raced[Cell(t)] /\ failures[t] < MaxAttempts =>
        /\ Pending(t) => job[t].attempts + Cardinality(Failing(t)) <= failures[t]
        /\ \A r \in Drainers : \A j \in drain[r].batch :
               j.target = t => j.attempts <= failures[t]
        /\ \A r \in Failing(t) : \A j \in drain[r].cur :
               j.target = t => j.attempts < failures[t]

AttemptsInv ==
    /\ \A t \in Targets : IsFiniteSet(Failing(t))
    /\ AttemptsAreCalls
    /\ AbandonedOnlyAfterMaxFailures
=============================================================================
