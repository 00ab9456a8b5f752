# A TLA+ model of crewmate

crewmate keeps a family's view of its accounts at Crew, a bank: it holds one
Crew session per user, polls it, stores the transactions in Postgres, writes
categories back to Crew as notes, and pushes notifications.  Several replicas of
the process run at once and coordinate only through Postgres.  This directory
holds TLA+ modules for the parts where that is difficult, the configurations TLC
checks them with, and proofs that TLAPS checks.

Paths below are relative to the repository's `src/internal/` unless they start
with `src/`.

## How to run

    tlc -workers 2 -config Leases_safety.cfg MCLeases.tla        # one run
    tlapm LeasesProofs.tla                                       # one proof module

`PROJECT.json` lists the runs with their properties, a deliberate bug (a
definition marked "Broken" in the modules) for each property, the lines of the
repository every definition models, hazards, findings and theorems.

## 1. Inventory

| Component | State | Operations | Where |
|---|---|---|---|
| Connection rows | `crew_connections`: status, encrypted token, lease holder, epoch, expiry, `last_polled_at` | login, disconnect, claim, renew, release, store a rotated token, flag for re-login, touch | `store/connections.go` |
| Lease scheduler | one goroutine per replica; `held`: connection → lease, cancel function, done channel | pass (reap, renew, claim), start a runner, shutdown with a 10 s deadline | `leases/scheduler.go` |
| Runner | one goroutine per claim, a Crew client whose token rotates, a session | Run and its retries, session, token callback, drain, ingest, snapshots | `watcher/runner.go` |
| Write queue | `crew_write_jobs`: one row per (connection, kind, target), value, attempts, run_after | enqueue (replaces the pending one), take a batch, call Crew, mirror, delete, back off or give up | `store/writejobs.go`, `watcher/writes.go`, `crewcards/` |
| Note sync | the newest page of Crew's list, the local note of each row | copy notes from a page; updates from the watcher | `watcher/notesync.go`, `store/notes.go` |
| Ledger | `transactions`: one row per (family, Crew id) | catch-up, ingest, update, vanish sweep | `watcher/reconcile.go`, `watcher/vanished.go`, `store/transactions.go` |
| Pipeline | a bounded queue per replica, workers, `notified_at`, nudge cool-downs | enqueue, categorize, claim a notification, sweep the un-notified, reassess | `categorize/pipeline.go`, `categorize/reassess.go` |
| Categories, rules, labels | `categories`, `category_rules` (a user's own and those of labels), the label and the dismissal of a series | create, rename, recolor, exclude, delete; set a category; back-fill; re-assess; label, unlabel, dismiss, restore | `categoriesapi/`, `transactionsapi/handlers.go`, `categorize/rulematch.go`, `categorize/reassess.go`, `store/categories.go`, `store/rules.go` |
| Recurring detection | `recurring_series`: one row per merchant | classify a history after each spend, and all of them at the start of a session | `categorize/recurring.go`, `store/recurring.go` |
| Insights | verdicts, dismissals | detect, judge, nudge | `insights/` |
| Login | pending logins (rows, 10 min), sessions, rate-limit counters | start, verify SMS and e-mail codes, finalize, use, logout, clean up | `auth/`, `store/pending.go`, `store/sessions.go` |
| Families | families, members, system categories | adopt, join or found at sign-in | `store/users.go`, `family/`, `crewfamily/` |
| HTTP API, push, config, crypto, migrations, web app | — | reads, I/O, parsing | `*api/`, `push/`, `config/`, `crypto/`, `server/`, `src/web/` |

**How they interact.**  The scheduler claims rows and starts a runner per claim.
A runner owns a Crew client; the client calls back into the runner with rotated
tokens (synchronously), with new and changed transactions and with errors (from
its own polling goroutine).  HTTP handlers never talk to Crew: they write rows
and `NOTIFY`; listeners of every replica turn that into a nudge of the scheduler,
a refresh or a drain.  Runners feed the pipeline, which writes categories back
through the write queue.  Two members of one family have two connections, and
two runners, perhaps on two replicas, for the same accounts and the same rows.

**What is difficult about it, and what correctness means.**

* *Leases.*  A runner that lost its lease is cancelled, not awaited; what it
  still does must not hurt.  Its token rotates inside the client before the row
  knows.  A 401 may be about a token that has long been replaced.  The row must
  keep a token Crew accepts, from the user's latest login, a working connection
  must not be flagged, no goroutine may be forgotten, the limit must hold, and
  a good connection must be watched again after any failure.
* *Write queue.*  At-least-once calls, several drains at once, requests that
  replace a job whose call is under way.  What the user asked for last should
  come to rest in Crew, be retried as often as promised, and leave the queue.
* *Ledger.*  A copy of a list that changes while it is being read, by readers
  that do not know of each other, over answers that may be short.  Nothing that
  arrived while nobody watched may be missed; a cancelled charge must go, and
  nothing else may.
* *Pipeline.*  Bounded queues that drop, crashes between claiming a notification
  and sending it, several ways for an item to be handled without notifying: each
  transaction should be announced once, to each person, unless there is a reason
  for silence, and none may be forgotten.
* *Sign-in.*  Requests of one household at once, on any replica: they must end up in
  one family, a session must mean a finished setup, and a code may be guessed only
  so often although attempts are counted after the fact.
* *Labels.*  A category is the text of a note, and nothing writes notes at once: a
  rename, a bulk run and a person's choice meet in a queue of pending writes, each
  working from a list read earlier.  A person's own words must survive.
* *Series.*  A read, a pure function of a history and an upsert, by several workers at
  once; and a function full of tolerances: dates that wrap at the ends of months,
  medians, a first charge at another price.

The hazards, each at its line, are in `PROJECT.json`.

## 2. What is modelled

### Leases (`Leases.tla`, `MCLeases.tla`, `LeasesProofs.tla`, `LeaseTokensProofs.tla`)

The connection rows, Crew's view of the tokens, the schedulers and the runners.

* `row[c]` is the database row.  A token is a number, in the order Crew issued
  them; `Wiped` is the empty ciphertext.  `crew[c]` is the external side: the
  tokens issued, those still accepted, and the login each descends from.
  `login` and `lost` are history.
* `at[r]`, `todo[r]`, `deadline[r]`, `held[r]` are a scheduler goroutine: where
  it is in `pass` or `shutdown`, what is left of its loop, the one value of the
  shutdown timer, `s.held`.
* `runner[c][e]` is the goroutine started for the claim with epoch `e`, so all
  runners a connection ever had exist at once, the ones that lost their lease
  among them.  Every statement and every Crew call is a step of its own: `Begin`,
  `Rotate` (the client has a new token), `Persist`, `Boot`, `CallFails`,
  `TickStatus`, `Touch`, `Reauth`, `Retry`, `MarkNeedsRelogin`, and an error
  variant wherever the code goes on after a failed statement.
* `StartPass`, `Reap`, `StartRenewing`, `Renew`, `Claim`, `Shutdown`,
  `DeadlinePasses`, `ShutdownRelease`, `Halt` follow `scheduler.go`.  A statement
  may commit and still report an error.  `Halt` is the end of a process: after
  shutdown, or a crash at any moment.
* `Login`, `Disable`, `Expire`, `Revoke` are the user, the clock and Crew.

Left out: the batches two replicas could split by `SKIP LOCKED` within one
instant, back-off durations, the reason a pass runs (ticker or nudge).

### Write queue (`WriteQueue.tla`, `MCWriteQueue.tla`, `MCMirror.tla`, `WriteQueueProofs.tla`)

The jobs of one connection, the runners that drain them (the owner and ones
that lost the lease and do not know yet), Crew's notes and settings, and the
local copy of the notes.

* `job[t]` is the row of target `t`, with its id kept when a request replaces
  it; `drain[r]` the batch a runner holds and its progress; `page[r][k]` a page
  on its way into the local copy, by note sync or by the watcher.  Of `run_after`
  the model keeps whether it has passed and, in `ahead`, which of two jobs that are
  due has the earlier one; `Take` reads the earliest (`Earliest`).  `want`, `raced`,
  `abandoned`, `failures` are history.
* `Enqueue`, `Take`, `CallSucceeds`, `CallFails`, `ReplyLost`, `Unauthorized`,
  `Mirror`, `Delete`, `Fail`, `Cancelled`, `Crash` follow `writejobs.go` and
  `writes.go`.  `FetchPage`, `CopyNote` follow `notesync.go` and the update
  callback.  The jobs of two cards change one pocket at Crew (`Cell`), because
  `crewcards.MovePocket` does not use the card's id.
* Left out: the order of jobs within a batch is open; a sync page is taken to
  cover every note that is modelled.  An id that no row and no runner has any more
  may be used again (`NewIds`), which nobody can tell.

### Ledger (`Ledger.tla`, `MCLedger.tla`, `LedgerProofs.tla`)

The transaction rows of one family, Crew's list, and any number of runners of
the members' connections.  No statement here is fenced, so a runner may be the
owner, another member's, or one that lost its lease.

* `crew[t]` is where a transaction is at Crew; it appears, clears, or is
  cancelled and dropped from the list.  `Answers` is every page Crew may give:
  a run of the list, newest first, as long as asked for *or shorter*.
* `row[t]` has the status (`pending` stands for `cleared_at IS NULL`), the
  connection that stored it, and whether it is older than `vanishGrace`.
* `runner[r]` walks through `Claim`, `Reconcile`, `FetchPage`, `Ingest` or
  `IngestError` for one entry at a time, `PageDone`, `StartWatching`, then
  `Touch`, `FetchRecent`, `Judge`, `Delete`, `Swept`; `Retry` and `Stop` end a
  session anywhere.  `sdk[r]` is the SDK's memory and the callbacks it still has
  to make: `Poll`, `Callback`.  `due[r]` is history: what a catch-up owes.
* Left out: the cap of 400 pages; amounts (a poll may report any pending
  transaction as changed, so late updates do overwrite newer rows); the columns
  the pipeline fills.  `Age` assumes that nobody holds a page for an hour,
  which is what `vanishGrace` is for (`vanished.go:14`).
  `Judge` is one step for two queries: an early answer of
  `OldestPendingForConnection` is an empty answer of `PendingForConnection`.

### Pipeline (`Announcements.tla`, `Pipeline.tla`, `MCPipeline.tla`, `PipelineProofs.tla`)

`Announcements` is the abstract specification: a transaction is settled once,
addressed to its cardholder or to the whole family, and nobody hears of it twice;
a process that ends may cut an announcement short.  `Pipeline` is the code.

* `row[t]` is a transaction's row with its age (`fresh`, less than a day since it
  occurred; `week`, too old for the sweep), `notified_at` and the copy of its note;
  `crew[t]` the note in Crew, `job[t]` a pending write of it.
* `queue[r]`, `sweep[r]` are a process's memory, `worker[w]` where one goroutine is in
  `process`: `Take` (load the row), `ResolveWritten`/`ResolveBlank`/`ResolveNone`
  (resolveCategory), `Absorb`, `Claim`, `ClaimError` (ClaimNotification), `Address`,
  `AddressError` (notify's recipients), and a turn of notify's loop: `ClaimNudge` or
  `RefuseNudge` (the committed upsert of ClaimInsightNudge, which may also fail, or
  commit and report an error), then `TellNudge` or `TellPlain` (SendToUser).
  `Reassess` runs the same code on a goroutine of its own.
* `Ingest`, `SyncNote`, `Sweep`, `SweepNext` fill the queues, and a full one drops.
  `GrowOlder`, `CooldownEnds`, `Vanish`, `WriteInCrew`, `SetCategory`, `WriteNote`,
  `Crash` are time, people, the write queue and the end of a process.
* Under the refinement a transaction is open until it is notified, addressing while
  a worker holds its claim and has no recipients yet; `due` is who is left on any
  worker's list.
* `excused[t]` is history: there was a reason not to tell of `t` before anybody was
  chosen to.  It is recorded where the reason arises and never where a worker
  decides to keep quiet: in `GrowOlder` and `Ingest` (a day old), in `Ingest`, `SyncNote`
  and `WriteNote` (a category in the note; the pipeline's own answer may get there
  before a second item for the row, which is then absorbed), in `Ingest`,
  `SyncNote` and `Reassess` (an evaluation without a push), in `ResolveBlank` (a rule
  answers), in `ClaimError`, `AddressError` and `Crash` (a failing statement, a process
  that ends while it announces).  So a wrong `Absorb`, or a wrong decision
  to be silent, is seen by `FreshIsHeard`.
* `owed` is history: the nudges used up and not sent yet.
* Left out: what a category is decided from (`Labels`), which suggestions there are,
  the delivery of a push.

### Sign-in (`Placement.tla`, `SignIn.tla`, `MCSignIn.tla`, `SignInProofs.tla`)

`Placement` is the abstract specification: a member is placed once and in one step, in
the family of the household if there is one, else in a new one.  `SignIn` is the code.

* `req[q]` is where a handler is: `Start`, `Send`, `Load`, `WrongCode`, `NeedsEmail`,
  `RightCode`, `Forget`, `Discard` (the token of a pending login cannot be decrypted,
  and the login goes), then finalize statement by statement: `Profile`, `Place`,
  `Adopt`, `Join`, `Found`, `LoseRace` (the unique index, and the second
  round of EnsureFamily), `Seed`, `Connect`, `Close`, `Issue`; `GiveUp` at any of them.
* `pending`, `session`, `rate`, `users`, `memberOf`, `family`, `connected` are the
  tables; `Use`, `Idles`, `EndSession`, `Disconnect`, `Expire`, `Sweep` (the janitor),
  `NextWindow` everything else that changes them.
* Crew may not say which household a member is of; such a member is a stranger and
  gets a family that has none, which the first to learn the household adopts.
* Under the refinement a family is there once its row is, and nothing is known of
  requests: `Found`, `Join` and `Adopt` are steps of `Placement`, all others stutter.
* Left out: cookies, the hashes of tokens, CSRF.  A household is told apart only by its id.

### Labels (`Labels.tla`, `LabelsProofs.tla`, run by `MCFamily.tla`)

* `note[t]`, `job[t]` are a transaction's note and its pending write, `cat`, `rule`,
  `series`, `dismissed` the tables.  A category is of a transaction because its *name*
  is the note (`Named`).  `req[q]` is a handler or a background run between two
  statements, with what it read before.
* `Create`, `Rename`, `Renamed`, `Carry` (read, update, list), deletion, `ChangeRule`, `RemoveRule`,
  a person's choice for one transaction, back-filling from a rule, both kinds of
  re-assessment, labels and dismissals, and the write queue's `Perform`, `Abandon`.
  `Fail` is a statement that fails; `Ends` is a request or a run that ends where it is:
  the process, a client that is gone, a read that fails, such as the list of
  the notes to rewrite (`categoriesapi/handlers.go:153`).
* `excepted` is history: the transactions and merchants of which the properties say
  nothing, each added by the action that is the cause (`File`, `Edit`, `Abandon`,
  `Renamed`, `Carry`, `Fail`, `Crossed`, `Undismiss`, `TakeLabel`, `Ends`) under the
  condition that the property's comment names, and taken out again when a person
  chooses or edits anew.  That two requests overlap is no exception by itself.
* A rule of a user is the set of merchants it matches, in the order of the rules' ids;
  what conditions on payee, amount, code and direction match is left open, as is the
  model's answer.  Names are compared without case, so one member of `Names` is every
  spelling of a name.

### Series (`Recurring.tla`, `RecurringProofs.tla`, run by `MCFamily.tla`)

* `Classify` is translated for days and cents: the median gap and its cadence, the
  regularity of the last four charges, the spread of the dates, the price.  The
  comparisons of coefficients of variation are written without roots and fractions.
* A charge is inserted (`Arrive`), then enqueued (`Enqueue`) or dropped by a full queue
  (`Drop`); the sweep offers it again while its notification is unclaimed (`Sweep`);
  a process that ends loses queues and workers (`Crash`).  A worker takes it up, reads
  the history, writes the row and claims the notification, each a step of its own
  (`TakeUp`, `ReadHistory`, `Upsert`, `Claim`), and each may fail (`FailUpdate`,
  `FailClaim`; `Crash` has the row that cannot be loaded).  `Rebuild` is
  ReclassifyFamily reaching the merchant; `Vanish` and `Amend` change what is on file.
* `basis`, `late`, `overtaken` are history: what the row was written from, the workers
  whose reading is older than that or than a disturbance, and whether such a
  reading was written, or a disturbance has not been followed by a later reading.
* Left out: columns no verdict rests on; the merchant's key; refunds (a charge is a
  spend).  `Labels` and `Recurring` have no column in common: the upsert leaves the
  dismissal alone (`store/recurring.go`).

## 3. What is checked

Every run finishes within minutes on two workers.  A connection, a note or a
transaction interacts only with its own rows (and, for cards, with one setting),
which is why one or two of each are enough.  Where one module has several
independent sources of trouble, one run takes them in turn: a variable `mode` of
the MC module picks one at the start, and the constraint that goes with it says
what may happen there.  All modes have the same safety
properties; the fairness of `queue_mirror` and `ledger_copy` leaves a liveness property to
the mode it is about.

| Run | Instance | Question |
|---|---|---|
| `lease_safety` | modes *alone* (1 replica, 1 connection, 3 tokens or 2 and a shutdown, Crew ends sessions), *failover* (2 replicas, 2 tokens, crashes), *crowded* (3 connections, limit 2) | every lease invariant: rotations in flight, re-logins, 401s, disconnects, shutdown in time or past the deadline, takeover of an expired lease while the old runner runs, failed renewals and lost answers under the limit; the inductive invariant |
| `lease_live` | 1 connection, 2 replicas, 2 claims, Crew ends no session | liveness: a disconnect stops the client; a good connection is watched again |
| `lease_wiped` | *violation* | a disconnect wipes the token (it may come back) |
| `queue_cards` | 2 cards with one pocket, 2 drainers, batches of 2, 2 attempts, 2 requests | requests that met no drain are not lost, and not given up early |
| `queue_mirror` | 1 drainer, batches of 1, 2 attempts, fairness; about *the note* (note sync, watcher, edits at Crew) or *the cards* (2 of them, and no end of requests for one pocket) | the local note follows Crew; every request leaves the queue, though another's job fails or is renewed for ever |
| `queue_last_request` | *violation* | the last request wins (not when it meets a drain) |
| `ledger_copy` | *alone* (1 runner, 2 transactions at different times, pages of 1, 2 instants), *rivals* (2 runners of one connection, newest pages of 2, a transaction that is cancelled among 1 or 3 others), fairness | a catch-up stores what it owes; sweeps take cancelled charges only, and take them as often as a callback brings them back |
| `ledger_ties` | *violation* | the same sweep when two transactions occurred at one instant |
| `pipeline_push` | 2 users, one of them a cardholder, a queue of 1, a sweep of 1; *losses* (1 transaction, 2 workers: sweep, crash, ageing, vanishing), *crowd* (2 transactions, 2 workers: one's item is dropped for the other's, the sweep leaves a row behind), *rivals* (2 transactions, 2 workers, one suggestion), *cut* (1 worker, a crash between a nudge and its push), *edits* (a worker, a re-assessment, changing notes); fairness | the pipeline implements `Announcements`; nothing is swallowed without a cause; only the winner of a claim uses up nudges; everything settles |
| `pipeline_hand` | *violation*; 1 transaction, 1 worker, 1 edit | a note written by hand is never overwritten automatically (it may be) |
| `sign_in` | 2 members of one household, 2 requests, 2 pending logins, 2 attempts; modes *codes*, *together*, *one by one* | one family per household, for good, as `Placement` has it; sessions are complete; attempts are bounded |
| `family` | modes *naming*, *deciding*, *labeling*, *one by one* of Labels: 2 transactions, 1 merchant, 3 categories, 3 names, 2 requests, 1 fault (none in *deciding*); *overlapping* and *billing* of Recurring: 3 charges under 2 workers with 1 drop, crash, failing step or changed charge, and up to 6 charges over a year | a rename carries its notes; bulk runs spare remarks; labels and dismissals exclude each other; a series is its history's; a steady bill is a subscription |

**The bounds.**  Two claims are a runner and its successor, the shortest history
in which one is stale; a third token separates "rotated", "rotated again" and
"logged in again".  `MaxRequests` of 2 is a request and the one that replaces it;
`MaxAttempts` of 2 is the least at which backing off and giving up differ.
In `queue_mirror` two cards and a batch of one are the least at which one job can
keep another from being taken; no bound ends the requests, as rows, ids and attempts
are few.  In `ledger_copy`, *alone*: two instants and two transactions give a page a
first and a second entry, a horizon between them, and a page that ends before the second;
its pages are of one entry, so each walk has a page boundary, and short pages need no
larger one.  *rivals*: one more runner is the least that can bring a row back, and
with a newest page of two the cancelled charge is vouched for by an older entry of a
full page, or falls behind the only entry of the last one.
Three connections and a limit of two are a replica that is nearly full and claims
a batch too large for the room left, the least that tells a wrong count of the room
from a right one.
A queue of 1 is full after one item, another transaction's too, and a sweep of 1 leaves
the other row for the next; one edit at a time is enough for a note to change under a worker's feet, one crash to
lose a queue.  In `sign_in` two attempts are the least at which the first
wrong answer is still answered; two requests race, and `MaxLost` of 1 lets one of them
end in the middle.  In `family`, `MaxNaming` to `MaxOneByOne` bound what people ask
for (not how far requests get, nor how they interleave), and `MaxDisturbing` the
drops, crashes, failures, vanishing and changed charges (rebuilds, and sweeps of
what was lost, are not bounded); five requests about names are
two categories, a choice and two renames.  Six charges
are one old one and the five that the tolerances speak of, on every date of the
calendar at which a month's end can bend them.
In `lease_live` the bound on claims is an escape in `GoodConnectionIsWatched`: once
`MaxEpoch` claims were made nothing more can be claimed, so the run says what it
says about the takeover before that.  The safety properties, all of which are
proved (below), do not depend on any of these numbers.

**Deadlock** is checked except in `lease_live`, where a process that has shut
down, with claims exhausted, has nothing left to do, and in the runs about
pipeline, sign-in and family, which end when transactions are gone or a week old, or the bounds on edits,
logins, sessions and requests are used up.

**Fairness**, each with its reason in the code:

* Leases: the goroutines run (`RunnerProgress`, `Stop`, `PassProgress`, weak).
  `Claim` and `Renew` are strongly fair: a pass repeats them every few seconds, and a
  database that fails at times does not fail each time.  A lease that is not
  renewed expires.  No fairness of users, of Crew, of crashes, or of the success
  of any call in a session: `DisconnectStopsRunner` holds even if every
  status check fails, because the rows' fence or the scheduler's next renewal
  stops the runner.
* WriteQueue: the owner drains and syncs at every tick (`Take`, `FetchPage`
  strong), Crew answers now and then with something else than 401, the statements
  that follow do not fail every time.  That a call ever *succeeds* is not assumed, nor
  that requests end: `RequestsLeaveTheQueue` excepts only a target whose own request
  is replaced again and again, and in the cards' half note sync is not assumed to run.
* Ledger (`FairFor`): the session's loop turns, some page is a full one, some delete
  succeeds, rows get older; and there are times when no runner has a page in hand
  (`NoPageInHand`), as a page is judged at once and the next comes a tick later, while `Age`
  waits for such a time.  Crew may list nothing at all, and then the sweep
  stands still (an empty page vouches for nothing), so `VanishedRowsGo` excludes
  that, and the transactions a full page cannot reach (`InWindow`).
* Pipeline: the sweep's timer fires (`Sweeping`, weak).  A worker is a loop over a channel, so it takes items and
  goes on with them; strong, because a row may be gone, and because the database does not
  fail every load and every claim.  Which row the sweep picks is left to it: one it
  leaves behind has its turn once the others are settled.  No fairness of ingest: the process may crash between the
  insert and the item, and only the sweep knows.  None of background runs.
* SignIn, Labels and Recurring have safety properties only: people need not go on.

## 4. What the code does not keep

Four statements of the repository are refuted by what the code does; each has a
run, and TLC's trace is the scenario.

1. `lease_wiped`: *"DisableConnection stops tracking for a user: wipes the stored
   token"* (`store/connections.go:101`).  `PersistRotatedToken` is fenced by
   holder and epoch and does not look at the status, and a disconnect leaves the
   lease in place, so a rotation that was under way puts a live token into the
   disabled row.
2. `queue_last_request`: *"superseding any pending write for the same target
   (last request wins)"* (`store/writejobs.go:28`).  The row keeps its id on
   conflict and `DeleteWriteJob` goes by the id alone: a request that arrives while the previous
   value is being written to Crew is deleted with it, unsent.
3. `ledger_ties`: *"The sweep must catch a cancelled pending charge and nothing
   else — above all not a transaction that merely fell off the end of the walk."*
   (`watcher/vanished_test.go:81`).  The page's floor is inclusive: a pending
   charge that occurred at the very instant of the page's last entry, and is
   next in Crew's list, is deleted although Crew still lists it.
4. `pipeline_hand`: *"A note you wrote by hand is never overwritten automatically."*
   (`src/README.md:18`).  `resolveCategory` looks at the note it loaded, `queueNote`
   enqueues without looking again (`categorize/pipeline.go:333`) and the drain writes
   what the job says: a note written in Crew in between is replaced.

**Observations** without a run, met while modelling:

* *"exactly one replica owns the \*crew.Client for this connection"*
  (`store/migrations/0001_init.sql:72`): after a lost lease the old runner is
  cancelled but not awaited, so two clients overlap for a while.  The fence keeps
  the connection row right (`LeaseInv`), which is the property checked instead.
* `MarkNeedsRelogin` ignores the status: a 401 that crosses a disconnect turns
  `disabled` into `needs_relogin`.
* `FailWriteJob` compares attempts its caller read earlier: a request that replaced the job
  during its last attempt is given up after one failure.
* Account snapshots, `SetLocalNote`, the deletes of write jobs, `SyncNoteFromCrew`
  and the vanish sweep are not fenced, while `src/README.md:44` speaks of
  epoch-fenced writes so that *"a stale replica can never clobber state"*.
* `src/README.md:47` says the ledger is keyed on `(connection_id, crew_txn_id)`;
  since migration 0009 the key is `(family_id, crew_txn_id)`.
* `TouchPolled` *"records a successful poll"* (`store/connections.go:234`) but is
  called at every tick, also when each call of the tick failed.  After an outage
  of more than a day and a restart the horizon lies after what was missed.
* A change of status or amount that happens while nobody watches is never stored:
  catch-ups insert with `ON CONFLICT DO NOTHING`, and the baseline poll takes the new
  status for known.  A transaction that arrives between the last page of a
  catch-up and the baseline poll waits for the next session.
* `Conn.LastPolledAt` is read once per claim, so a session that is retried during a
  first run is a first run again.
* Sweeps look at the rows of their own connection only: a cancelled charge stored through a member
  who has disconnected stays.
* *"must not use up anyone's nudge for the day"* (`categorize/pipeline.go:218`) holds of
  a replica that loses the transaction.  A process that ends between
  ClaimInsightNudge and the push, or a claim whose answer is lost, still leaves a
  nudge used up that nobody got.
* The pipeline's own category can silence its own push: a second item for an
  un-notified row (the sweep's, or another replica's) that is loaded after the write of the first
  one's category was done finds the row answered and absorbs it.
* *"Push, exactly once across all replicas"* (`categorize/pipeline.go`) is at most once:
  a crash between the claim and the push loses it, and nothing looks at the row again.
* The first catch-up of a connection stores its history silently, as un-notified
  rows; the sweep then finds those younger than a week and asks for pushes, and the ones younger
  than a day are announced.
* A bulk run shares the divergence of `pipeline_hand`: *"Neither mode touches a
  hand-written Crew note"* (`categorize/reassess.go:61`), but it works from a list read
  at its start.
* *"A new transaction reuses whatever category that merchant last got"*: `ConsistentCategory`
  asks for three or more that agree.  A comment in `categorize/llm.go` speaks of results cached
  into `merchant_rules`, which no code writes.
* *"Series rules run ahead of hand-written ones."* (`store/rules.go:171`); the statement
  orders by `source = 'series'`, where false sorts first.
* A rename (`categoriesapi/handlers.go:102`) rewrites at most 500 notes, from a list; a job pending with
  the old name still writes it afterwards, and a job with a person's own choice for
  another category is replaced by the rename's.  A change of colour writes back the
  name it read, and undoes a rename that came in between without rewriting a note.
  If the list cannot be read (`categoriesapi/handlers.go:153`), or the process ends after
  the UPDATE, nothing makes up for it: a later rename looks for the name that is new by then.
* *"Labelling is the opposite statement to dismissing"*: two requests that cross, or a second statement
  that fails or is never reached, leave a merchant dismissed and labelled.
* The system categories *"must exist before the first charge lands"* (`store/users.go:152`)
  but are seeded after the family is committed, only by the request that founded it:
  if that fails, labelling answers with an error for good.
* Two sign-ins of *one* user whose household is unknown may found two families; one of them
  stays without a member.  `AutoJoinByCrewFamily` has no caller; comments that speak of
  invite codes describe no code.
* *"Timing agreement … is judged on the recent charges. Old history poisons it otherwise"*
  (`categorize/recurring.go:250`), but `DaySpreadDays` (line 265) is taken over all charges: one
  old charge on another date of its month keeps a merchant from being a subscription
  for good.  `SteadyBillIsSubscription` asks for the older charge to be near the date.
* *"idempotent, so concurrent replicas running it are harmless"* (`categorize/recurring.go:305`):
  a run is a read and a write, and of two that overlap the older reading may be written last.  A charge that vanishes or
  changes its amount is not classified anew.

## 5. What is proved

TLAPS checks the proofs for every value of the constants that satisfies the
modules' assumptions: any number of replicas, connections, claims, tokens,
runners, targets, requests, transactions, members, merchants and charges.  Every safety
property that a passing run checks is a theorem.

**`LeasesProofs`.**
* `TypeCorrect`: `Spec => []TypeOK`.
* `LeaseInvariant`, `LoginTokenStands`: `LeaseInv` is inductive, and with it the row's
  token descends from the latest login.  That alone is not inductive: a stale
  runner is harmless only because nothing it could still write under a fence that
  matches is of an earlier login (`FencedLineage`), which needs that epochs are
  only handed out by claims (`SlotsFollowEpoch`) and that Crew never reissues a
  token (`TokensAreIssued`).  The proof reads the invariant row by row and slot by slot.
* `RunnersTracked`: `TrackInv` adds that a replica with an uncancelled runner is not
  shutting down, because `Shutdown` cancels exactly what is held.
* `LimitKept`: `Held` only grows in `Claim`, by a batch that fits the room left.
  The one cardinality argument is a lemma (`BatchFits`), and needs finitely many
  connections.

**`LeaseTokensProofs`** (about the same specification; it builds on `LeaseInv`).
* `TokenInvariant`: `TokenInv` is inductive.  That the row holds a good token or
  that one is on its way is not: a rotation invalidates the token it replaces, so
  one has to know that no third token of that login is good (`OneTokenPerLogin`), that
  a rotation in flight is in nobody else's hands, who could replace it unseen
  (`InFlightIsPrivate`), that the client that made it works with it until it is
  stored (`InFlightIsInUse`), that a watcher stops only for a refused token
  (`StoppedIsRefused`), and what the owner of the fence holds (`OwnerKnowsBest`).
* `StoredTokenGood`, `OwnerHasStoredToken` and the action property `NoFalseAlarms` follow.
  `OwnerKnowsBest` also says that an owner on its way to a new login always has a dead
  token in its row: the case of `watcher/runner.go:102`, *"e.g. user re-login"*, cannot
  be the owner's, because `UpsertConnection` takes the lease away with a new login.

**`WriteQueueProofs`.**
* `TypeCorrect`; `QueueInvariant`, `RequestNotLost`: until a request is raced, its value is the only one
  on its way to Crew, in any row or any runner's hands (`OneValueOnTheWay`), and a
  runner that is about to delete its row has seen Crew take it
  (`DeletesWhatCrewHas`).
* `GivenUpOnlyAfterMaxFailures`: `AttemptsInv` compares the count in the row with the
  calls that failed.  Runners that failed but have not recorded it are counted with
  the row (`AttemptsAreCalls`), as each of them will add one; what a runner read earlier
  is no more than that either, so the stale count `FailWriteJob` decides by errs on
  the safe side.

**`LedgerProofs`.**
* `TypeCorrect`: `Spec => []TypeOK`.
* `InvCorrect`: under `NoTies` (no two transactions occurred at the same instant)
  `LedgerInv` is inductive.  Its parts: whatever is stored, held or owed has been in
  Crew's list (`KnownWereListed`); what a page in hand vouches for, does not show and is old is
  gone (`PageVouches`); so is what has been condemned (`CondemnedAreGone`); and what a
  catch-up owes is stored, gone, on the page in hand or behind its cursor
  (`OwedIsAhead`), which begins at the top of the list (`FromTheTop`).
* `CatchUpComplete`: `CaughtUp` follows.  `SweepIsSafe`: so does `SweptAreGone`, an action
  property, from the only step that deletes.
* The assumption `NoTies` is needed: `ledger_ties` is the counterexample without it.
  It enters at one leaf, where a page's oldest entry and a transaction behind it
  would have to be told apart.  A stronger code (a floor that excludes its own
  instant) would need no such assumption.

**`PipelineProofs`.**
* `TypeCorrect`: `Spec => []TypeOK`.
* `FreshHeard`: `FreshIsHeard` is not inductive, as it speaks of finished announcements only.
  `PipelineInv` adds what an unfinished one has achieved (`Progressing`: whom it
  was addressed to, less who is left, has heard), that whoever is left has heard
  nothing (`UntoldHeardNothing`), and that one worker per transaction is at it
  (`OneAnnouncer`), which comes from the one statement that sets `notified_at` where it was null.
  `Quiet` adds that whatever may lead a worker to keep quiet (an item without a push, a
  row that is old or has a category, a worker that is mute or silent) is about a
  transaction that is notified already or has a recorded cause.
* `Refines`: with that invariant every step of `Pipeline` is a step of `Announcements`
  or leaves `phase`, `due` and `heard` alone.  A crash maps to `CutShort` of what the
  process was announcing.
* `NudgesReachTheirMember`: a nudge used up and not sent is the one granted to the recipient
  whose turn it is (`OwedIsGranted`), so a worker that announces the transaction is to send
  it, and by `UntoldHeardNothing` that member has heard nothing.  The claim and the push are
  two steps, and a crash between them gives the nudge up.

**`SignInProofs`.**
* `TypeCorrect`, `CompleteSessions`, `OneFamily`, `ForGood`, all from `SignInInv`.  A request reads
  and writes in separate statements, so the invariant says that what it has read still
  stands (`ReadsStand`), which holds because no step takes away a row, a membership or
  a family's household (`Keeps`, proved of every step).  One family per household
  (`FamiliesAreHouseholds`) comes from the unique index: `Found` and `Adopt` ask for it in the
  statement that writes.  Strangers are needed: a family founded while Crew did not
  say the household may be one too many.
* `CodesInvariant`, `BoundedAttempts`: the row of a login counts every wrong answer, and
  gets past the last attempt but one only by requests that are about to delete it
  (`Spenders`) or ended before they could.  A request is among the spenders of one login
  at a time, which bounds them by the number of requests.
* `PlacesAtOnce`: every step of `SignIn` is a step of `Placement` or leaves families and
  memberships alone.  What a request read earlier is still true when it writes
  (`ReadsStand`), or the statement that writes looks again: `Found` by the unique index,
  `Adopt` by its `NOT EXISTS`, `Join` by `ON CONFLICT DO NOTHING`, which makes it a
  stutter for a member who has been placed meanwhile.

**`LabelsProofs`.**
* `LabelsTypes`: types alone are not inductive here, because a request goes on with what
  it read; `RowsHold` says what it has in hand at each place (`InHand`), that what
  exists has a name and that the system's categories are never deleted.
* `RemarksAreKept`: `RemarksInv` adds that nothing under way aims at a remark: no list, no
  page and no model's answer (`Aims`), unless the remark was written after they were made,
  which is the exception `Edit` records.
* `LabelExcludesDismissal`: `LabelsInv` says that requests about one label that did not
  cross come one at a time and find the series as they read it.
* `RenamesCarryNotes`: `NamesInv` follows a decision to its note.  It is the note, or
  the pending job has it (`Destined`), or a rename under way has the transaction on its
  list or will find it there (`Catches`); every step that leaves it with none of these
  is one of the causes the property names, and records it.

**`RecurringProofs`.**
* `RecurringTypes` and what it rests on: in a history with ids that tell its charges
  apart, the number of charges before one is a bijection onto `0..n - 1` (by the
  pigeonhole principle), so `Ordered` is the history in order; `Typical` picks one
  of the recent amounts; hence `Classify` gives a row.
* `SeriesInvariant`, `RowFollowsHistory`: that the row follows the history says nothing of work
  in progress, and no queue can be relied on to keep a charge.  What can is the order of
  `process`: whoever claims a charge's notification classified it before, or failed to.
  So whatever charge is counted (`Counted`: claimed, or its worker is at the claim) is in
  the reading the row was written from (`RowHolds`) and in every reading still to be written
  that is not late (`ReadingsHold`), and such readings are of what is on file and lie
  one within the other, so that a later one has them all.  An item that is dropped or
  lost leaves its charge uncounted, and the sweep is what counts it in the end.
  Whatever `Classify` makes of amounts and gaps is opaque to this argument.
* `SteadyBills`: the tolerances fit together.  With at most one charge before the
  latest five there are at most six, and the older one is the first (`LatestFive`).  The
  gaps of a monthly bill are 26 to 33 days (`MonthlyGaps`), and of the gaps of the whole
  history one in five, the first, may be another (`GapsWithOutlier`), so that
  the median is a month whatever that one is (`MonthlyCadence`).  The recent gaps
  are regular because `n` times their squares less the square of their sum is the sum of the
  squared differences, at most 294 where 340 would still pass (`MonthsAreRegular`).
  Recursion enters only as sums of up to four (`SumsOfFew`), unfolded by hand.

Assumptions on constants are `LeasesAssumption`, `WriteQueueAssumption`,
`LedgerAssumption`, `PipelineAssumption`, `SignInAssumption`, `LabelsAssumption`,
`RecurringAssumption` and `NoRowAssumption`: naturals where the code has sizes, a null value
that is no replica, connection, category or row, system categories with names of
their own, remarks that are nobody's category, finite sets where something is counted.

**Only model-checked**: liveness, which is out of this prover's reach with fairness
and `ENABLED`: `DisconnectStopsRunner`, `GoodConnectionIsWatched`,
`MirrorFollowsCrew`, `RequestsLeaveTheQueue`, `VanishedRowsGo` and `EveryTransactionSettles`.
The proofs speak of `Spec`, the runs that check liveness of the specification with
fairness.  What `Total`, `Typical` and the median compute is proved for the few
numbers `Classify` gives them, not for sequences of every length, which takes induction over data.

## 6. Plan

Done, in this order: `Leases`, `WriteQueue`, `Ledger`, `Pipeline` with `Announcements`,
`SignIn` with `Placement`, `Labels`, `Recurring`.

Left, by weight:

1. An abstract lease specification that `Leases` implements.
2. The conditions of a rule and `NormalizeMerchant`, as pure operators against a reference definition.
3. The detection of savings insights, their judgements and dismissals.
4. `last_polled_at` moving without a successful poll, as a run of its own.

To keep the set of runs small, runs that ask the same question of one module are
merged as modules are added.

## 7. Not modelled

* Config, crypto, routing, the database pool and migrations: no
  protocol state of their own.  What handlers write is an action of the module that
  owns the row.
* Reports (cash flow, monthly, vendors): aggregation over rows, read-only.
* Savings insights beyond the nudge's cool-down: which suggestions there are is an
  arbitrary choice of `Pipeline`.
* `ignored_notes`, which only hides entries of a list; card checks against a snapshot; the
  account snapshots themselves, one upsert per refresh.
* Push delivery, the language model, the SDK's HTTP: external.  Their effects are
  choices of the models.
* The web application.
