------------------------------- MODULE Ledger -------------------------------
(***************************************************************************)
(* The transactions table as a copy of Crew's list: the catch-up at the    *)
(* start of a session (watcher/reconcile.go), the SDK's watcher with the   *)
(* callbacks of watcher/runner.go, and the sweep of pending transactions   *)
(* Crew has dropped (watcher/vanished.go), over the statements of          *)
(* store/transactions.go.                                                  *)
(*                                                                         *)
(* The rows belong to one family.  Its members' connections see the same   *)
(* Crew accounts, and none of the statements is fenced: a runner here is   *)
(* any runner, of another member or an earlier one of the same connection. *)
(* Every Crew call and every SQL statement is one step.                    *)
(***************************************************************************)
EXTENDS Integers, FiniteSets

CONSTANTS
    Conns,       \* the connections of one family's members
    NoConn,
    Runners,
    Of,          \* [Runners -> Conns]
    Txns,        \* Crew's transactions, numbered in the order Crew breaks ties
    When,        \* [Txns -> Nat]: OccurredAt
    PageSize,    \* First: 50
    RecentSize,  \* recentPageSize
    Overlap,     \* reconcileOverlap
    Backfill,    \* BackfillMonths
    MaxTime      \* bound on the clock

ASSUME LedgerAssumption ==
    /\ IsFiniteSet(Txns) /\ Txns \subseteq Nat \ {0}
    /\ When \in [Txns -> Nat]
    /\ Of \in [Runners -> Conns]
    /\ NoConn \notin Conns
    /\ PageSize \in Nat \ {0} /\ RecentSize \in Nat \ {0}
    /\ Overlap \in Nat /\ Backfill \in Nat /\ MaxTime \in Nat

VARIABLES
    clock,
    crew,     \* [Txns -> where the transaction is in Crew] (external)
    row,      \* [Txns -> the family's row of the transaction]
    polled,   \* [Conns -> last_polled_at]
    runner,   \* [Runners -> the runner's goroutine]
    sdk,      \* [Runners -> the SDK's watcher] (external)
    due       \* history: [Runners -> what the latest catch-up has to store]

vars == <<clock, crew, row, polled, runner, sdk, due>>

Never  == -1                          \* last_polled_at IS NULL
Times  == 0..MaxTime
Start  == 0                           \* the empty cursor
Listed == {"none", "pending", "cleared"}
Page   == [Txns -> Listed]            \* what a page says; "none": not on it

EmptyPage == [t \in Txns |-> "none"]

Row    == [status : Listed, by : Conns \cup {NoConn},
           old : BOOLEAN]             \* processed_at is vanishGrace ago
Runner == [at : {"down", "start", "page", "ingest", "gap", "watch", "recent", "sweep"},
           loaded : Times \cup {Never},   \* Conn.LastPolledAt as claimed
           horizon : Int,
           cursor : Txns \cup {Start},    \* the page's last entry: EndCursor
           page : Page,                   \* the page, or what is left of it
           more : BOOLEAN,                \* HasNextPage
           fresh : BOOLEAN,               \* freshInPage > 0
           condemned : SUBSET Txns]
Sdk    == [known : Page, news : Page]

NoRow   == [status |-> "none", by |-> NoConn, old |-> FALSE]
Idle(place, loaded) ==
    [at |-> place, loaded |-> loaded, horizon |-> 0, cursor |-> Start,
     page |-> EmptyPage, more |-> FALSE, fresh |-> FALSE, condemned |-> {}]
Unaware == [known |-> EmptyPage, news |-> EmptyPage]

TypeOK ==
    /\ clock \in Times
    /\ crew \in [Txns -> {"unborn", "pending", "cleared", "dropped"}]
    /\ row \in [Txns -> Row]
    /\ polled \in [Conns -> Times \cup {Never}]
    /\ runner \in [Runners -> Runner]
    /\ sdk \in [Runners -> Sdk]
    /\ due \in [Runners -> SUBSET Txns]

Init ==
    /\ clock = 0
    /\ crew = [t \in Txns |-> "unborn"]
    /\ row = [t \in Txns |-> NoRow]
    /\ polled = [c \in Conns |-> Never]
    /\ runner = [r \in Runners |-> Idle("down", Never)]
    /\ sdk = [r \in Runners |-> Unaware]
    /\ due = [r \in Runners |-> {}]

-----------------------------------------------------------------------------
(* Crew: external.                                                         *)

Visible == {t \in Txns : crew[t] \in {"pending", "cleared"}}

\* A transaction shows up, not before it occurred.
Appear(t) ==
    /\ crew[t] = "unborn"
    /\ When[t] <= clock
    /\ \E st \in {"pending", "cleared"} : crew' = [crew EXCEPT ![t] = st]
    /\ UNCHANGED <<clock, row, polled, runner, sdk, due>>

\* A pending one settles, or is cancelled and dropped from the list.
Settle(t) ==
    /\ crew[t] = "pending"
    /\ \E st \in {"cleared", "dropped"} : crew' = [crew EXCEPT ![t] = st]
    /\ UNCHANGED <<clock, row, polled, runner, sdk, due>>

Tick ==
    /\ clock < MaxTime
    /\ clock' = clock + 1
    /\ UNCHANGED <<crew, row, polled, runner, sdk, due>>

\* The order of Crew's list, newest first.
Newer(t, u) == When[t] > When[u] \/ (When[t] = When[u] /\ t > u)

\* The transactions of one answer to CashTransactions: the newest there are
\* behind the cursor, as many as asked for or fewer.
Behind(cursor) == {t \in Visible : cursor = Start \/ Newer(cursor, t)}

Answers(cursor, size) ==
    {S \in SUBSET Behind(cursor) :
        /\ Cardinality(S) <= size
        /\ S = {} => Behind(cursor) = {}
        /\ \A t \in S, u \in Behind(cursor) \ S : Newer(t, u)}

HasNextPage(cursor, S) == S # Behind(cursor)

PageOf(S) == [t \in Txns |-> IF t \in S THEN crew[t] ELSE "none"]
On(page)  == {t \in Txns : page[t] # "none"}

Without(page, t) == [page EXCEPT ![t] = "none"]

IsNewest(t, S) == t \in S /\ \A u \in S \ {t} : Newer(t, u)
IsOldest(t, S) == t \in S /\ \A u \in S \ {t} : Newer(u, t)

-----------------------------------------------------------------------------
(* The rows.                                                               *)

Stored(t) == row[t].status # "none"

\* Broken: the row is of the runner, not of its connection.
InsertForRunner(r, t, st) ==
    row' = IF Stored(t) THEN row
           ELSE [row EXCEPT ![t] = [status |-> st, by |-> r, old |-> FALSE]]

\* InsertTransaction: ON CONFLICT (family_id, crew_txn_id) DO NOTHING.
Insert(r, t, st) ==
    row' = IF Stored(t) THEN row
           ELSE [row EXCEPT ![t] = [status |-> st, by |-> Of[r], old |-> FALSE]]

\* UpdateTransactionFromCrew, keyed on the family.
Update(t, st) ==
    row' = IF Stored(t) THEN [row EXCEPT ![t].status = st] ELSE row

NoPageInHand == \A r \in Runners : runner[r].at # "recent"

\* A row gets as old as vanishGrace.  No page is held that long.
Age(t) ==
    /\ Stored(t)
    /\ ~row[t].old
    /\ NoPageInHand
    /\ row' = [row EXCEPT ![t].old = TRUE]
    /\ UNCHANGED <<clock, crew, polled, runner, sdk, due>>

-----------------------------------------------------------------------------
(* A session of runner r: the catch-up.                                    *)

Become(r, x) == runner' = [runner EXCEPT ![r] = x]

\* The lease is claimed; last_polled_at comes with it and is not read again.
Claim(r) ==
    /\ runner[r].at = "down"
    /\ Become(r, Idle("start", polled[Of[r]]))
    /\ UNCHANGED <<clock, crew, row, polled, sdk, due>>

\* The session ends with an error, and Run starts another.
Retry(r) ==
    /\ runner[r].at \notin {"down", "start"}
    /\ Become(r, Idle("start", runner[r].loaded))
    /\ sdk' = [sdk EXCEPT ![r] = Unaware]
    /\ due' = [due EXCEPT ![r] = {}]
    /\ UNCHANGED <<clock, crew, row, polled>>

\* Run returns, or the process ends.
Stop(r) ==
    /\ runner[r].at # "down"
    /\ Become(r, Idle("down", Never))
    /\ sdk' = [sdk EXCEPT ![r] = Unaware]
    /\ due' = [due EXCEPT ![r] = {}]
    /\ UNCHANGED <<clock, crew, row, polled>>

FirstRun(r) == runner[r].loaded = Never

\* reconcile computes its horizon.
Reconcile(r) ==
    LET horizon == IF FirstRun(r) THEN clock - Backfill
                                  ELSE runner[r].loaded - Overlap
    IN  /\ runner[r].at = "start"
        /\ Become(r, [runner[r] EXCEPT !.at = "page", !.horizon = horizon])
        /\ due' = [due EXCEPT ![r] = {t \in Visible : When[t] >= horizon}]
        /\ UNCHANGED <<clock, crew, row, polled, sdk>>

FetchPage(r) ==
    LET x == runner[r] IN
    /\ x.at = "page"
    /\ \E S \in Answers(x.cursor, PageSize), t \in Txns \cup {Start} :
        /\ IF S = {} THEN t = x.cursor ELSE IsOldest(t, S)
        /\ Become(r, [x EXCEPT !.at = "ingest", !.page = PageOf(S), !.cursor = t,
                               !.more = HasNextPage(x.cursor, S), !.fresh = FALSE])
    /\ UNCHANGED <<clock, crew, row, polled, sdk, due>>

\* One turn of reconcile's loop over the page, newest first.
Ingest(r, t) ==
    LET x    == runner[r]
        skip == FirstRun(r) /\ When[t] < x.horizon
    IN  /\ x.at = "ingest"
        /\ IsNewest(t, On(x.page))
        /\ IF skip THEN UNCHANGED row ELSE Insert(r, t, x.page[t])
        /\ Become(r, [x EXCEPT !.page = Without(x.page, t),
                               !.fresh = x.fresh \/ (~skip /\ ~Stored(t))])
        /\ UNCHANGED <<clock, crew, polled, sdk, due>>

\* The statement fails; reconcile goes on with the next transaction.
IngestError(r, t) ==
    /\ runner[r].at = "ingest"
    /\ IsNewest(t, On(runner[r].page))
    /\ Become(r, [runner[r] EXCEPT !.page = Without(runner[r].page, t)])
    /\ due' = [due EXCEPT ![r] = @ \ {t}]
    /\ UNCHANGED <<clock, crew, row, polled, sdk>>

\* Broken: a page without news ends the catch-up, whatever its age.
CaughtUpOnceKnown(r) == ~runner[r].more \/ ~runner[r].fresh

\* done, at the end of a page.  The cap of 400 pages is left out.
LastPage(r) ==
    LET x == runner[r] IN
    \/ ~x.more
    \/ /\ x.cursor # Start
       /\ When[x.cursor] < x.horizon
       /\ ~x.fresh \/ ~FirstRun(r)

PageDone(r) ==
    /\ runner[r].at = "ingest"
    /\ On(runner[r].page) = {}
    /\ Become(r, IF LastPage(r) THEN Idle("gap", runner[r].loaded)
                               ELSE [runner[r] EXCEPT !.at = "page"])
    /\ UNCHANGED <<clock, crew, row, polled, sdk, due>>

\* StartWatching: the baseline poll takes everything it sees for known.
StartWatching(r) ==
    /\ runner[r].at = "gap"
    /\ Become(r, [runner[r] EXCEPT !.at = "watch"])
    /\ sdk' = [sdk EXCEPT ![r] = [Unaware EXCEPT !.known = PageOf(Visible)]]
    /\ UNCHANGED <<clock, crew, row, polled, due>>

-----------------------------------------------------------------------------
(* The SDK's poll goroutine, while the session watches.                    *)

Watching(r) == runner[r].at \in {"watch", "recent", "sweep"}

\* A poll finds what is new or has another status, or another amount (which
\* may be any pending one: amounts are not modelled).
Poll(r) ==
    /\ Watching(r)
    /\ sdk[r].news = EmptyPage
    /\ \E repriced \in SUBSET {t \in Visible : crew[t] = "pending"} :
        LET told == {t \in Visible : crew[t] # sdk[r].known[t]} \cup repriced
        IN  sdk' = [sdk EXCEPT ![r] = [@ EXCEPT !.news = PageOf(told)]]
    /\ UNCHANGED <<clock, crew, row, polled, runner, due>>

Heard(r, t) ==
    sdk' = [sdk EXCEPT ![r] =
              [known |-> [sdk[r].known EXCEPT ![t] = sdk[r].news[t]],
               news  |-> Without(sdk[r].news, t)]]

\* OnTransaction or OnTransactionUpdate.
Callback(r, t) ==
    /\ sdk[r].news[t] # "none"
    /\ IF sdk[r].known[t] = "none"
       THEN Insert(r, t, sdk[r].news[t])
       ELSE Update(t, sdk[r].news[t])
    /\ Heard(r, t)
    /\ UNCHANGED <<clock, crew, polled, runner, due>>

\* The statement fails; the SDK does not know.
CallbackError(r, t) ==
    /\ sdk[r].news[t] # "none"
    /\ Heard(r, t)
    /\ UNCHANGED <<clock, crew, row, polled, runner, due>>

-----------------------------------------------------------------------------
(* The session's loop.                                                     *)

\* The end of a tick: TouchPolled, whether or not any call succeeded.
Touch(r) ==
    /\ runner[r].at = "watch"
    /\ polled' = [polled EXCEPT ![Of[r]] = clock]
    /\ UNCHANGED <<clock, crew, row, runner, sdk, due>>

\* syncRecent's one Crew call.
FetchRecent(r) ==
    /\ runner[r].at = "watch"
    /\ \E S \in Answers(Start, RecentSize) :
        /\ S # {}
        /\ Become(r, [runner[r] EXCEPT !.at = "recent", !.page = PageOf(S),
                                       !.more = HasNextPage(Start, S)])
    /\ UNCHANGED <<clock, crew, row, polled, sdk, due>>

\* Broken: the last page vouches for nothing.
FullPagesOnly(x) ==
    {t \in Txns : x.more /\ \E u \in On(x.page) : When[t] >= When[u]}

\* Broken: every page speaks for the whole of history.
WholeHistory(x) == Txns

\* What a page vouches for: occurrence at or after pageFloor.
Vouched(x) ==
    IF x.more THEN {t \in Txns : \E u \in On(x.page) : When[t] >= When[u]}
              ELSE Txns

\* OldestPendingForConnection, PendingForConnection and vanished: an early
\* answer of the first is an empty answer of the second.
Vanished(r) ==
    {t \in Vouched(runner[r]) \ On(runner[r].page) :
        row[t].status = "pending" /\ row[t].by = Of[r] /\ row[t].old}

Judge(r) ==
    /\ runner[r].at = "recent"
    /\ Become(r, [Idle("sweep", runner[r].loaded) EXCEPT !.condemned = Vanished(r)])
    /\ UNCHANGED <<clock, crew, row, polled, sdk, due>>

\* A query fails.
JudgeError(r) ==
    /\ runner[r].at = "recent"
    /\ Become(r, Idle("watch", runner[r].loaded))
    /\ UNCHANGED <<clock, crew, row, polled, sdk, due>>

\* One turn of the deleting loop: DeleteVanishedTransaction, which takes the
\* note's job along, or its error.
Delete(r, t) ==
    /\ runner[r].at = "sweep"
    /\ t \in runner[r].condemned
    /\ row' \in {row, [row EXCEPT ![t] = NoRow]}
    /\ Become(r, [runner[r] EXCEPT !.condemned = runner[r].condemned \ {t}])
    /\ UNCHANGED <<clock, crew, polled, sdk, due>>

Swept(r) ==
    /\ runner[r].at = "sweep"
    /\ runner[r].condemned = {}
    /\ Become(r, [runner[r] EXCEPT !.at = "watch"])
    /\ UNCHANGED <<clock, crew, row, polled, sdk, due>>

-----------------------------------------------------------------------------
Environment(t) == Appear(t) \/ Settle(t) \/ Age(t)

CatchUp(r) ==
    \/ Claim(r) \/ Reconcile(r) \/ FetchPage(r) \/ PageDone(r)
    \/ StartWatching(r) \/ Retry(r) \/ Stop(r)

Watch(r) ==
    \/ Poll(r) \/ Touch(r) \/ FetchRecent(r) \/ Judge(r) \/ JudgeError(r)
    \/ Swept(r)

ForTxn(r, t) ==
    \/ Ingest(r, t) \/ IngestError(r, t)
    \/ Callback(r, t) \/ CallbackError(r, t) \/ Delete(r, t)

Next ==
    \/ Tick
    \/ \E t \in Txns : Environment(t)
    \/ \E r \in Runners : CatchUp(r) \/ Watch(r)
    \/ \E r \in Runners, t \in Txns : ForTxn(r, t)

Spec == Init /\ [][Next]_vars

\* What VanishedRowsGo needs: the loop of a session that goes on turns, a page is
\* now and then a full one, the database does not fail every time, and, as a page
\* is judged at once and the next is fetched a tick later, there are times when no
\* runner has one in hand.
Full(x) == x.more => Cardinality(On(x.page)) = RecentSize

FetchFull(r) == FetchRecent(r) /\ Full(runner'[r])
JudgeFull(r) == Judge(r) /\ Full(runner[r])

DeleteSucceeds(r, t) == Delete(r, t) /\ row' # row

FairFor(S) ==
    /\ []<>NoPageInHand
    /\ \A t \in S : SF_vars(Age(t))
    /\ \A r \in Runners :
        /\ SF_vars(FetchFull(r)) /\ SF_vars(JudgeFull(r)) /\ WF_vars(Swept(r))
        /\ \A t \in S : SF_vars(DeleteSucceeds(r, t))

FairSpec == Spec /\ FairFor(Txns)

-----------------------------------------------------------------------------
(* Properties.                                                             *)

\* The sweep takes a cancelled charge and nothing else: no row is deleted while
\* Crew still lists the transaction, however old the page is the sweep judges
\* by, however short, and whatever was ingested meanwhile.
SweptAreGone ==
    [][\A t \in Txns : row[t].status # "none" /\ row'[t].status = "none"
                        => crew[t] = "dropped"]_vars

\* "Anything that arrived while no replica held this connection must be ingested
\* by us first": once a catch-up is over, every transaction it could see when it
\* began and that its horizon reaches is stored, whatever moved between pages and
\* however short they were.  Left out are those whose insert failed.
CaughtUp ==
    \A r \in Runners : runner[r].at \in {"gap", "watch", "recent", "sweep"} =>
        \A t \in due[r] : Stored(t) \/ crew[t] = "dropped"

\* Few enough transactions are newer for a full page to vouch for t.
InWindow(t) == Cardinality({u \in Txns : Newer(u, t)}) < RecentSize

\* A cancelled charge does not sit in the family's activity for as long as the
\* connection it came from is watched, not even when a callback of another runner,
\* for what it polled before the charge was cancelled, brings the row back after
\* the sweep.  An empty page vouches for nothing, so Crew has to list something.
VanishedRowsGo ==
    \A r \in Runners, t \in Txns : InWindow(t) =>
        []<>~(/\ Watching(r)
              /\ row[t].status = "pending"
              /\ row[t].by = Of[r]
              /\ crew[t] = "dropped"
              /\ Visible # {})

-----------------------------------------------------------------------------
(* The inductive invariant behind SweptAreGone and CaughtUp.               *)

\* A page of Crew's list settles where each of its transactions belongs only if
\* no two occurred at the same instant.
NoTies == \A t, u \in Txns : When[t] = When[u] => t = u

Gone(t)    == crew[t] = "dropped"
Settled(t) == Stored(t) \/ Gone(t)

\* Whatever is stored, on its way or waited for has been in Crew's list.
KnownWereListed ==
    \A t \in Txns :
        crew[t] = "unborn" =>
            /\ ~Stored(t) /\ ~row[t].old
            /\ \A r \in Runners : /\ runner[r].page[t] = "none"
                                   /\ sdk[r].news[t] = "none"
                                   /\ t \notin due[r]

\* A page in hand vouches for what the sweep could judge by it.
PageVouches ==
    \A r \in Runners : runner[r].at = "recent" =>
        \A t \in Vouched(runner[r]) \ On(runner[r].page) : row[t].old => Gone(t)

CondemnedAreGone ==
    \A r \in Runners : \A t \in runner[r].condemned : Gone(t)

\* What a catch-up still owes is on the page in hand or behind its cursor.
OwedIsAhead ==
    \A r \in Runners : runner[r].at \in {"page", "ingest"} =>
        \A t \in due[r] :
            LET x == runner[r] IN
            /\ When[t] >= x.horizon
            /\ \/ Settled(t)
               \/ x.at = "ingest" /\ x.page[t] # "none"
               \/ /\ x.at = "ingest" => x.more
                  /\ x.cursor = Start \/ Newer(x.cursor, t)

\* A catch-up begins at the top of the list.
FromTheTop ==
    \A r \in Runners : runner[r].at = "start" => runner[r].cursor = Start

LedgerInv ==
    /\ KnownWereListed
    /\ FromTheTop
    /\ PageVouches
    /\ CondemnedAreGone
    /\ OwedIsAhead
    /\ CaughtUp
=============================================================================
