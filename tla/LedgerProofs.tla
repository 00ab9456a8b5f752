---------------------------- MODULE LedgerProofs ----------------------------
(***************************************************************************)
(* Proofs about Ledger, for any number of members, runners and             *)
(* transactions, any page sizes and any clock.                             *)
(***************************************************************************)
EXTENDS Ledger, TLAPS

Places == {"down", "start", "page", "ingest", "gap", "watch", "recent", "sweep"}

\* Pages with one entry less, and the page that has none.
LEMMA Pages ==
    /\ EmptyPage \in Page
    /\ \A p \in Page, t \in Txns : Without(p, t) \in Page
    /\ \A p \in Page : On(p) \subseteq Txns
  BY DEF EmptyPage, Page, Listed, Without, On

\* A page of transactions Crew lists.
LEMMA PageOfType ==
    ASSUME TypeOK, NEW S \in SUBSET Visible
    PROVE  /\ PageOf(S) \in Page
           /\ On(PageOf(S)) = S
           /\ S \subseteq Txns
  BY DEF TypeOK, Visible, PageOf, Page, Listed, On

\* Answers hold what is listed.
LEMMA AnswersListed ==
    ASSUME NEW k, NEW n, NEW S \in Answers(k, n)
    PROVE  S \in SUBSET Visible
  BY DEF Answers, Behind

\* The literals of Init and of the resets.
LEMMA Literals ==
    /\ \A place \in Places, n \in Times \cup {Never} : Idle(place, n) \in Runner
    /\ Unaware \in Sdk
    /\ NoRow \in Row
    /\ 0 \in Times
  BY Pages, LedgerAssumption
     DEF Places, Idle, Runner, Unaware, Sdk, NoRow, Row, Listed, Times

\* The runners the actions make of a runner x.
Moved(x, place)     == [x EXCEPT !.at = place]
Reconciling(x, h)   == [x EXCEPT !.at = "page", !.horizon = h]
Fetched(x, p, t, b) == [x EXCEPT !.at = "ingest", !.page = p, !.cursor = t,
                                 !.more = b, !.fresh = FALSE]
Ingested(x, p, b)   == [x EXCEPT !.page = p, !.fresh = b]
Skipped(x, p)       == [x EXCEPT !.page = p]
Recent(x, p, b)     == [x EXCEPT !.at = "recent", !.page = p, !.more = b]
Condemning(x, C)    == [x EXCEPT !.condemned = C]

\* What each of them keeps of x.
LEMMA MovedFields ==
    ASSUME NEW x \in Runner, NEW place \in Places
    PROVE  /\ Moved(x, place) \in Runner
           /\ Moved(x, place).at = place
           /\ Moved(x, place).loaded = x.loaded
           /\ Moved(x, place).horizon = x.horizon
           /\ Moved(x, place).cursor = x.cursor
           /\ Moved(x, place).page = x.page
           /\ Moved(x, place).more = x.more
           /\ Moved(x, place).condemned = x.condemned
  BY DEF Moved, Runner, Places

LEMMA ReconcilingFields ==
    ASSUME NEW x \in Runner, NEW h \in Int
    PROVE  /\ Reconciling(x, h) \in Runner
           /\ Reconciling(x, h).at = "page"
           /\ Reconciling(x, h).horizon = h
           /\ Reconciling(x, h).cursor = x.cursor
           /\ Reconciling(x, h).page = x.page
           /\ Reconciling(x, h).condemned = x.condemned
  BY DEF Reconciling, Runner

LEMMA FetchedFields ==
    ASSUME NEW x \in Runner, NEW p \in Page, NEW t \in Txns \cup {Start},
           NEW b \in BOOLEAN
    PROVE  /\ Fetched(x, p, t, b) \in Runner
           /\ Fetched(x, p, t, b).at = "ingest"
           /\ Fetched(x, p, t, b).horizon = x.horizon
           /\ Fetched(x, p, t, b).cursor = t
           /\ Fetched(x, p, t, b).page = p
           /\ Fetched(x, p, t, b).more = b
           /\ Fetched(x, p, t, b).condemned = x.condemned
  BY DEF Fetched, Runner

LEMMA IngestedFields ==
    ASSUME NEW x \in Runner, NEW p \in Page, NEW b \in BOOLEAN
    PROVE  /\ Ingested(x, p, b) \in Runner
           /\ Ingested(x, p, b).at = x.at
           /\ Ingested(x, p, b).horizon = x.horizon
           /\ Ingested(x, p, b).cursor = x.cursor
           /\ Ingested(x, p, b).page = p
           /\ Ingested(x, p, b).more = x.more
           /\ Ingested(x, p, b).condemned = x.condemned
  BY DEF Ingested, Runner

LEMMA SkippedFields ==
    ASSUME NEW x \in Runner, NEW p \in Page
    PROVE  /\ Skipped(x, p) \in Runner
           /\ Skipped(x, p).at = x.at
           /\ Skipped(x, p).horizon = x.horizon
           /\ Skipped(x, p).cursor = x.cursor
           /\ Skipped(x, p).page = p
           /\ Skipped(x, p).more = x.more
           /\ Skipped(x, p).condemned = x.condemned
  BY DEF Skipped, Runner

LEMMA RecentFields ==
    ASSUME NEW x \in Runner, NEW p \in Page, NEW b \in BOOLEAN
    PROVE  /\ Recent(x, p, b) \in Runner
           /\ Recent(x, p, b).at = "recent"
           /\ Recent(x, p, b).page = p
           /\ Recent(x, p, b).more = b
           /\ Recent(x, p, b).condemned = x.condemned
  BY DEF Recent, Runner

LEMMA CondemningFields ==
    ASSUME NEW x \in Runner, NEW C \in SUBSET Txns
    PROVE  /\ Condemning(x, C) \in Runner
           /\ Condemning(x, C).at = x.at
           /\ Condemning(x, C).page = x.page
           /\ Condemning(x, C).more = x.more
           /\ Condemning(x, C).condemned = C
  BY DEF Condemning, Runner

\* Become touches one runner.
LEMMA BecomeType ==
    ASSUME TypeOK, NEW r \in Runners, NEW x \in Runner, Become(r, x)
    PROVE  /\ runner' \in [Runners -> Runner]
           /\ runner'[r] = x
           /\ \A q \in Runners \ {r} : runner'[q] = runner[q]
  BY DEF TypeOK, Become

\* The statements keep the rows' types and touch one row.
LEMMA InsertRow ==
    ASSUME TypeOK, NEW r \in Runners, NEW t \in Txns, NEW st \in Listed, Insert(r, t, st)
    PROVE  /\ row' \in [Txns -> Row]
           /\ \A u \in Txns \ {t} : row'[u] = row[u]
           /\ Stored(t) => row'[t] = row[t]
           /\ row'[t].old => row[t].old
           /\ st # "none" => row'[t].status # "none"
  <1> DEFINE new == [status |-> st, by |-> Of[r], old |-> FALSE]
  <1>1. new \in Row /\ new.status = st /\ new.old = FALSE
    BY LedgerAssumption DEF Row
  <1>2. CASE Stored(t)
    BY <1>2 DEF Insert, TypeOK, Stored
  <1>3. CASE ~Stored(t)
    <2>1. row' = [row EXCEPT ![t] = new]
      BY <1>3 DEF Insert
    <2> HIDE DEF new
    <2>2. row' \in [Txns -> Row] /\ row'[t] = new
      BY <1>1, <2>1 DEF TypeOK
    <2>3. \A u \in Txns \ {t} : row'[u] = row[u]
      BY <2>1 DEF TypeOK
    <2> QED
      BY <1>1, <1>3, <2>2, <2>3
  <1> QED
    BY <1>2, <1>3

LEMMA UpdateRow ==
    ASSUME TypeOK, NEW t \in Txns, NEW st \in Listed, Update(t, st)
    PROVE  /\ row' \in [Txns -> Row]
           /\ \A u \in Txns \ {t} : row'[u] = row[u]
           /\ row'[t].old = row[t].old
           /\ ~Stored(t) => row'[t] = row[t]
           /\ st # "none" => (Stored(t) => row'[t].status # "none")
  <1> DEFINE new == [row[t] EXCEPT !.status = st]
  <1>1. new \in Row /\ new.status = st /\ new.old = row[t].old
    BY DEF TypeOK, Row
  <1>2. CASE ~Stored(t)
    BY <1>2 DEF Update, TypeOK
  <1>3. CASE Stored(t)
    <2>1. row' = [row EXCEPT ![t] = new]
      BY <1>3 DEF Update, TypeOK
    <2> HIDE DEF new
    <2>2. row' \in [Txns -> Row] /\ row'[t] = new
      BY <1>1, <2>1 DEF TypeOK
    <2>3. \A u \in Txns \ {t} : row'[u] = row[u]
      BY <2>1 DEF TypeOK
    <2> QED
      BY <1>1, <1>3, <2>2, <2>3
  <1> QED
    BY <1>2, <1>3

LEMMA DeleteRow ==
    ASSUME TypeOK, NEW t \in Txns, row' \in {row, [row EXCEPT ![t] = NoRow]}
    PROVE  /\ row' \in [Txns -> Row]
           /\ \A u \in Txns \ {t} : row'[u] = row[u]
           /\ row'[t] = row[t] \/ row'[t] = NoRow
  BY Literals DEF TypeOK

\* The initial state has the types.
LEMMA InitType == Init => TypeOK
  <1> SUFFICES ASSUME Init PROVE TypeOK
    OBVIOUS
  <1>1. Idle("down", Never) \in Runner
    BY Literals DEF Places
  <1> QED
    BY <1>1, Literals DEF Init, TypeOK

\* The steps of a catch-up, in terms of the runner they make.
LEMMA ReconcileShape ==
    ASSUME TypeOK, NEW r \in Runners, Reconcile(r)
    PROVE  \E h \in Int :
             /\ Become(r, Reconciling(runner[r], h))
             /\ due' = [due EXCEPT ![r] = {t \in Visible : When[t] >= h}]
  <1>1. clock - Backfill \in Int
    BY LedgerAssumption DEF TypeOK, Times
  <1>2. runner[r].loaded - Overlap \in Int
    BY LedgerAssumption DEF TypeOK, Runner, Times, Never
  <1>3. ASSUME NEW h \in Int,
               h = IF FirstRun(r) THEN clock - Backfill ELSE runner[r].loaded - Overlap
        PROVE  /\ Become(r, Reconciling(runner[r], h))
               /\ due' = [due EXCEPT ![r] = {t \in Visible : When[t] >= h}]
    BY <1>3 DEF Reconcile, Reconciling
  <1> QED
    BY <1>1, <1>2, <1>3

LEMMA FetchPageShape ==
    ASSUME TypeOK, NEW r \in Runners, FetchPage(r)
    PROVE  \E S \in Answers(runner[r].cursor, PageSize), t \in Txns \cup {Start},
              b \in BOOLEAN :
             /\ IF S = {} THEN t = runner[r].cursor ELSE IsOldest(t, S)
             /\ b <=> HasNextPage(runner[r].cursor, S)
             /\ Become(r, Fetched(runner[r], PageOf(S), t, b))
  <1>1. PICK S \in Answers(runner[r].cursor, PageSize), t \in Txns \cup {Start} :
          /\ IF S = {} THEN t = runner[r].cursor ELSE IsOldest(t, S)
          /\ Become(r, [runner[r] EXCEPT !.at = "ingest", !.page = PageOf(S), !.cursor = t,
                          !.more = HasNextPage(runner[r].cursor, S), !.fresh = FALSE])
    BY Zenon DEF FetchPage
  <1>2. Become(r, Fetched(runner[r], PageOf(S), t, HasNextPage(runner[r].cursor, S)))
    BY <1>1 DEF Fetched
  <1>3. HasNextPage(runner[r].cursor, S) \in BOOLEAN
    BY DEF HasNextPage
  <1>4. \E b \in BOOLEAN : /\ b <=> HasNextPage(runner[r].cursor, S)
                           /\ Become(r, Fetched(runner[r], PageOf(S), t, b))
    BY <1>2, <1>3, Zenon
  <1> QED
    BY <1>1, <1>4, Zenon

LEMMA IngestShape ==
    ASSUME TypeOK, NEW r \in Runners, NEW t \in Txns, Ingest(r, t)
    PROVE  /\ \E b \in BOOLEAN :
                 Become(r, Ingested(runner[r], Without(runner[r].page, t), b))
           /\ \/ FirstRun(r) /\ When[t] < runner[r].horizon /\ UNCHANGED row
              \/ Insert(r, t, runner[r].page[t])
  <1> DEFINE skip == FirstRun(r) /\ When[t] < runner[r].horizon
             b    == runner[r].fresh \/ (~skip /\ ~Stored(t))
  <1>1. b \in BOOLEAN
    BY DEF TypeOK, Runner
  <1>2. Become(r, Ingested(runner[r], Without(runner[r].page, t), b))
    BY DEF Ingest, Ingested
  <1>3. IF skip THEN UNCHANGED row ELSE Insert(r, t, runner[r].page[t])
    BY DEF Ingest
  <1> QED
    BY <1>1, <1>2, <1>3

\* A page SDK or sweep gets is of listed transactions.
LEMMA FetchRecentShape ==
    ASSUME TypeOK, NEW r \in Runners, FetchRecent(r)
    PROVE  \E S \in Answers(Start, RecentSize), b \in BOOLEAN :
             /\ S # {}
             /\ b <=> HasNextPage(Start, S)
             /\ Become(r, Recent(runner[r], PageOf(S), b))
  <1>1. PICK S \in Answers(Start, RecentSize) :
          /\ S # {}
          /\ Become(r, [runner[r] EXCEPT !.at = "recent", !.page = PageOf(S),
                                         !.more = HasNextPage(Start, S)])
    BY Zenon DEF FetchRecent
  <1>2. Become(r, Recent(runner[r], PageOf(S), HasNextPage(Start, S)))
    BY <1>1 DEF Recent
  <1>3. HasNextPage(Start, S) \in BOOLEAN
    BY DEF HasNextPage
  <1>4. \E b \in BOOLEAN : /\ b <=> HasNextPage(Start, S)
                           /\ Become(r, Recent(runner[r], PageOf(S), b))
    BY <1>2, <1>3, Zenon
  <1> QED
    BY <1>1, <1>4, Zenon

LEMMA PollShape ==
    ASSUME TypeOK, NEW r \in Runners, Poll(r)
    PROVE  \E told \in SUBSET Visible :
             sdk' = [sdk EXCEPT ![r] = [sdk[r] EXCEPT !.news = PageOf(told)]]
  <1>1. PICK repriced \in SUBSET {t \in Visible : crew[t] = "pending"} :
          sdk' = [sdk EXCEPT ![r] = [@ EXCEPT !.news =
                    PageOf({t \in Visible : crew[t] # sdk[r].known[t]} \cup repriced)]]
    BY DEF Poll
  <1>2. {t \in Visible : crew[t] # sdk[r].known[t]} \cup repriced \in SUBSET Visible
    OBVIOUS
  <1> QED
    BY <1>1, <1>2 DEF TypeOK

\* Crew, the clock and the rows' age.
LEMMA EnvironmentType ==
    ASSUME TypeOK, Tick \/ \E t \in Txns : Environment(t)
    PROVE  TypeOK'
  <1>1. CASE Tick
    BY <1>1, LedgerAssumption DEF Tick, TypeOK, Times
  <1>2. ASSUME NEW t \in Txns, Appear(t) \/ Settle(t) PROVE TypeOK'
    <2>1. PICK st \in {"pending", "cleared", "dropped"} :
             crew' = [crew EXCEPT ![t] = st]
      BY <1>2 DEF Appear, Settle
    <2> QED
      BY <1>2, <2>1 DEF Appear, Settle, TypeOK
  <1>3. ASSUME NEW t \in Txns, Age(t) PROVE TypeOK'
    <2>1. [row[t] EXCEPT !.old = TRUE] \in Row
      BY DEF TypeOK, Row
    <2>2. row' = [row EXCEPT ![t] = [row[t] EXCEPT !.old = TRUE]]
      BY <1>3 DEF Age, TypeOK
    <2> QED
      BY <1>3, <2>1, <2>2 DEF Age, TypeOK
  <1> QED
    BY <1>1, <1>2, <1>3 DEF Environment

\* The steps of a catch-up.
LEMMA CatchUpType ==
    ASSUME TypeOK, NEW r \in Runners, CatchUp(r)
    PROVE  TypeOK'
  <1> DEFINE x == runner[r]
  <1>1. x \in Runner /\ x.loaded \in Times \cup {Never}
    BY DEF TypeOK, Runner
  <1>2. \A place \in Places : Idle(place, x.loaded) \in Runner
    BY <1>1, Literals
  <1>3. {"start", "down", "gap", "page", "watch"} \subseteq Places
    BY DEF Places
  <1>4. CASE Claim(r)
    <2>1. polled[Of[r]] \in Times \cup {Never}
      BY LedgerAssumption DEF TypeOK
    <2>2. runner' \in [Runners -> Runner]
      BY <1>3, <1>4, <2>1, Literals, BecomeType DEF Claim
    <2> QED
      BY <1>4, <2>2 DEF Claim, TypeOK
  <1>5. CASE Retry(r) \/ Stop(r)
    <2>1. Idle("down", Never) \in Runner /\ Idle("start", x.loaded) \in Runner
      BY <1>2, <1>3, Literals
    <2>2. runner' \in [Runners -> Runner]
      BY <1>5, <2>1, BecomeType DEF Retry, Stop
    <2>3. sdk' \in [Runners -> Sdk] /\ due' \in [Runners -> SUBSET Txns]
      BY <1>5, Literals DEF Retry, Stop, TypeOK
    <2> QED
      BY <1>5, <2>2, <2>3 DEF Retry, Stop, TypeOK
  <1>6. CASE Reconcile(r)
    <2>1. PICK h \in Int :
             /\ Become(r, Reconciling(x, h))
             /\ due' = [due EXCEPT ![r] = {t \in Visible : When[t] >= h}]
      BY <1>6, ReconcileShape
    <2>2. runner' \in [Runners -> Runner]
      BY <1>1, <2>1, ReconcilingFields, BecomeType
    <2>3. due' \in [Runners -> SUBSET Txns]
      BY <2>1 DEF TypeOK, Visible
    <2> QED
      BY <1>6, <2>2, <2>3 DEF Reconcile, TypeOK
  <1>7. CASE FetchPage(r)
    <2>1. PICK S \in Answers(x.cursor, PageSize), t \in Txns \cup {Start}, b \in BOOLEAN :
             Become(r, Fetched(x, PageOf(S), t, b))
      BY <1>7, FetchPageShape
    <2>2. PageOf(S) \in Page
      BY AnswersListed, PageOfType
    <2>3. Fetched(x, PageOf(S), t, b) \in Runner
      BY <1>1, <2>2, FetchedFields
    <2>4. runner' \in [Runners -> Runner]
      BY <2>1, <2>3, BecomeType
    <2> QED
      BY <1>7, <2>4 DEF FetchPage, TypeOK
  <1>8. CASE PageDone(r)
    <2>1. Idle("gap", x.loaded) \in Runner /\ [x EXCEPT !.at = "page"] \in Runner
      BY <1>1, <1>2, <1>3, MovedFields DEF Moved
    <2>2. runner' \in [Runners -> Runner]
      BY <1>8, <2>1, BecomeType DEF PageDone
    <2> QED
      BY <1>8, <2>2 DEF PageDone, TypeOK
  <1>9. CASE StartWatching(r)
    <2>1. PageOf(Visible) \in Page
      BY PageOfType
    <2>2. [Unaware EXCEPT !.known = PageOf(Visible)] \in Sdk
      BY <2>1, Pages DEF Unaware, Sdk
    <2>3. runner' \in [Runners -> Runner]
      BY <1>1, <1>3, <1>9, MovedFields, BecomeType DEF StartWatching, Moved
    <2>4. sdk' \in [Runners -> Sdk]
      BY <1>9, <2>2 DEF StartWatching, TypeOK
    <2> QED
      BY <1>9, <2>3, <2>4 DEF StartWatching, TypeOK
  <1> QED
    BY <1>4, <1>5, <1>6, <1>7, <1>8, <1>9 DEF CatchUp

\* The steps of a session that watches.
LEMMA WatchType ==
    ASSUME TypeOK, NEW r \in Runners, Watch(r)
    PROVE  TypeOK'
  <1> DEFINE x == runner[r]
  <1>1. x \in Runner /\ x.loaded \in Times \cup {Never} /\ sdk[r] \in Sdk
    BY DEF TypeOK, Runner
  <1>2. {"watch", "sweep"} \subseteq Places
    BY DEF Places
  <1>3. CASE Poll(r)
    <2>1. PICK told \in SUBSET Visible :
             sdk' = [sdk EXCEPT ![r] = [sdk[r] EXCEPT !.news = PageOf(told)]]
      BY <1>3, PollShape
    <2>2. \A p \in Page : [sdk[r] EXCEPT !.news = p] \in Sdk
      BY <1>1 DEF Sdk
    <2>3. PageOf(told) \in Page
      BY <2>1, PageOfType
    <2> QED
      BY <1>3, <2>1, <2>2, <2>3 DEF Poll, TypeOK
  <1>4. CASE Touch(r)
    BY <1>4, LedgerAssumption DEF Touch, TypeOK
  <1>5. CASE FetchRecent(r)
    <2>1. PICK S \in Answers(Start, RecentSize), b \in BOOLEAN :
             Become(r, Recent(x, PageOf(S), b))
      BY <1>5, FetchRecentShape
    <2>2. PageOf(S) \in Page
      BY AnswersListed, PageOfType
    <2>3. Recent(x, PageOf(S), b) \in Runner
      BY <1>1, <2>2, RecentFields
    <2>4. runner' \in [Runners -> Runner]
      BY <2>1, <2>3, BecomeType
    <2> QED
      BY <1>5, <2>4 DEF FetchRecent, TypeOK
  <1>6. CASE Judge(r)
    <2>1. Vanished(r) \in SUBSET Txns
      BY DEF Vanished, Vouched
    <2>2. Idle("sweep", x.loaded) \in Runner
      BY <1>1, <1>2, Literals
    <2>3. [Idle("sweep", x.loaded) EXCEPT !.condemned = Vanished(r)] \in Runner
      BY <2>1, <2>2, CondemningFields DEF Condemning
    <2>4. runner' \in [Runners -> Runner]
      BY <1>6, <2>3, BecomeType DEF Judge
    <2> QED
      BY <1>6, <2>4 DEF Judge, TypeOK
  <1>7. CASE JudgeError(r) \/ Swept(r)
    <2>1. Idle("watch", x.loaded) \in Runner /\ [x EXCEPT !.at = "watch"] \in Runner
      BY <1>1, <1>2, Literals, MovedFields DEF Moved
    <2>2. runner' \in [Runners -> Runner]
      BY <1>7, <2>1, BecomeType DEF JudgeError, Swept
    <2> QED
      BY <1>7, <2>2 DEF JudgeError, Swept, TypeOK
  <1> QED
    BY <1>3, <1>4, <1>5, <1>6, <1>7 DEF Watch

\* The steps for one transaction.
LEMMA ForTxnType ==
    ASSUME TypeOK, NEW r \in Runners, NEW t \in Txns, ForTxn(r, t)
    PROVE  TypeOK'
  <1> DEFINE x == runner[r]
  <1>1. x \in Runner /\ x.page \in Page /\ x.condemned \in SUBSET Txns
    BY DEF TypeOK, Runner
  <1>2. sdk[r] \in Sdk /\ sdk[r].known \in Page /\ sdk[r].news \in Page
    BY DEF TypeOK, Sdk
  <1>3. x.page[t] \in Listed /\ sdk[r].news[t] \in Listed
    BY <1>1, <1>2 DEF Page
  <1>4. Without(x.page, t) \in Page /\ Without(sdk[r].news, t) \in Page
    BY <1>1, <1>2, Pages
  <1>5. CASE Ingest(r, t)
    <2>1. row' \in [Txns -> Row]
      BY <1>3, <1>5, IngestShape, InsertRow DEF TypeOK
    <2>2. PICK b \in BOOLEAN : Become(r, Ingested(x, Without(x.page, t), b))
      BY <1>5, IngestShape
    <2>3. Ingested(x, Without(x.page, t), b) \in Runner
      BY <1>1, <1>4, <2>2, IngestedFields
    <2>4. runner' \in [Runners -> Runner]
      BY <2>2, <2>3, BecomeType
    <2> QED
      BY <1>5, <2>1, <2>4 DEF Ingest, TypeOK
  <1>6. CASE IngestError(r, t)
    <2>1. Become(r, Skipped(x, Without(x.page, t)))
      BY <1>6 DEF IngestError, Skipped
    <2>2. runner' \in [Runners -> Runner]
      BY <1>1, <1>4, <2>1, SkippedFields, BecomeType
    <2>3. due' \in [Runners -> SUBSET Txns]
      BY <1>6 DEF IngestError, TypeOK
    <2> QED
      BY <1>6, <2>2, <2>3 DEF IngestError, TypeOK
  <1>7. ASSUME Heard(r, t) PROVE sdk' \in [Runners -> Sdk]
    <2>1. [sdk[r].known EXCEPT ![t] = sdk[r].news[t]] \in Page
      BY <1>2, <1>3 DEF Page
    <2>2. [known |-> [sdk[r].known EXCEPT ![t] = sdk[r].news[t]],
           news  |-> Without(sdk[r].news, t)] \in Sdk
      BY <1>4, <2>1 DEF Sdk
    <2> QED
      BY <1>7, <2>2 DEF Heard, TypeOK
  <1>8. CASE Callback(r, t)
    <2>1. row' \in [Txns -> Row]
      BY <1>3, <1>8, InsertRow, UpdateRow DEF Callback
    <2> QED
      BY <1>7, <1>8, <2>1 DEF Callback, TypeOK
  <1>9. CASE CallbackError(r, t)
    BY <1>7, <1>9 DEF CallbackError, TypeOK
  <1>10. CASE Delete(r, t)
    <2>1. row' \in [Txns -> Row]
      BY <1>10, DeleteRow DEF Delete
    <2>2. [x EXCEPT !.condemned = x.condemned \ {t}] \in Runner
      BY <1>1, CondemningFields DEF Condemning
    <2>3. runner' \in [Runners -> Runner]
      BY <1>10, <2>2, BecomeType DEF Delete
    <2> QED
      BY <1>10, <2>1, <2>3 DEF Delete, TypeOK
  <1> QED
    BY <1>5, <1>6, <1>8, <1>9, <1>10 DEF ForTxn

\* Every step keeps the types.
LEMMA TypeStep == TypeOK /\ [Next]_vars => TypeOK'
  <1> SUFFICES ASSUME TypeOK, [Next]_vars PROVE TypeOK'
    OBVIOUS
  <1>1. CASE UNCHANGED vars
    BY <1>1 DEF vars, TypeOK
  <1>2. CASE Next
    BY <1>2, EnvironmentType, CatchUpType, WatchType, ForTxnType DEF Next
  <1> QED
    BY <1>1, <1>2

\* Rows, runners, pages and the SDK's memory keep their shape.
THEOREM TypeCorrect == Spec => []TypeOK
  BY InitType, TypeStep, PTL DEF Spec

-----------------------------------------------------------------------------
(* LedgerInv is inductive when no two transactions occurred at the same      *)
(* instant.  It is read here row by row and runner by runner.                *)

RowsListed ==
    \A t \in Txns : crew[t] = "unborn" => ~Stored(t) /\ ~row[t].old

Listing(r) ==
    \A t \in Txns : crew[t] = "unborn" => /\ runner[r].page[t] = "none"
                                          /\ sdk[r].news[t] = "none"
                                          /\ t \notin due[r]

Top(r) == runner[r].at = "start" => runner[r].cursor = Start

Vouches(r) ==
    runner[r].at = "recent" =>
        \A t \in Vouched(runner[r]) \ On(runner[r].page) : row[t].old => Gone(t)

Condemns(r) == \A t \in runner[r].condemned : Gone(t)

Ahead(x, t) ==
    \/ x.at = "ingest" /\ x.page[t] # "none"
    \/ /\ x.at = "ingest" => x.more
       /\ x.cursor = Start \/ Newer(x.cursor, t)

Owes(r) ==
    runner[r].at \in {"page", "ingest"} =>
        \A t \in due[r] : /\ When[t] >= runner[r].horizon
                          /\ Settled(t) \/ Ahead(runner[r], t)

Caught(r) ==
    runner[r].at \in {"gap", "watch", "recent", "sweep"} => \A t \in due[r] : Settled(t)

Part(r) == Listing(r) /\ Top(r) /\ Vouches(r) /\ Condemns(r) /\ Owes(r) /\ Caught(r)

LEMMA PartByPart == LedgerInv <=> RowsListed /\ \A r \in Runners : Part(r)
  <1>1. KnownWereListed <=> RowsListed /\ \A r \in Runners : Listing(r)
    BY DEF KnownWereListed, RowsListed, Listing
  <1>2. OwedIsAhead <=> \A r \in Runners : Owes(r)
    BY Zenon DEF OwedIsAhead, Owes, Ahead
  <1>3. CaughtUp <=> \A r \in Runners : Caught(r)
    BY DEF CaughtUp, Caught, Settled, Gone
  <1>4. /\ FromTheTop <=> \A r \in Runners : Top(r)
        /\ PageVouches <=> \A r \in Runners : Vouches(r)
        /\ CondemnedAreGone <=> \A r \in Runners : Condemns(r)
    BY DEF FromTheTop, Top, PageVouches, Vouches, CondemnedAreGone, Condemns
  <1> QED
    BY <1>1, <1>2, <1>3, <1>4 DEF LedgerInv, Part

LEMMA PartByPartNext == (RowsListed' /\ \A r \in Runners : Part(r)') => LedgerInv'
  <1> SUFFICES ASSUME RowsListed', \A r \in Runners : Part(r)' PROVE LedgerInv'
    OBVIOUS
  <1>1. KnownWereListed'
    BY DEF KnownWereListed, RowsListed, Part, Listing
  <1>2. OwedIsAhead'
    BY Zenon DEF OwedIsAhead, Part, Owes, Ahead
  <1>3. CaughtUp'
    BY DEF CaughtUp, Part, Caught, Settled, Gone
  <1>4. FromTheTop' /\ PageVouches' /\ CondemnedAreGone'
    BY DEF FromTheTop, Top, PageVouches, Vouches, CondemnedAreGone, Condemns, Part
  <1> QED
    BY <1>1, <1>2, <1>3, <1>4 DEF LedgerInv

\* What a step may do to the rows and to Crew without harm to a runner.
Progress ==
    /\ \A t \in Txns : crew'[t] = "unborn" => crew[t] = "unborn"
    /\ \A t \in Txns : Gone(t) => Gone(t)'
    /\ \A t \in Txns : Settled(t) => Settled(t)'
    /\ \A t \in Txns : row'[t].old => row[t].old

\* A runner a step leaves alone keeps its part.
LEMMA PartKept ==
    ASSUME TypeOK, Progress, NEW r \in Runners, Part(r), runner'[r] = runner[r],
           due'[r] = due[r], sdk'[r] = sdk[r]
    PROVE  Part(r)'
  <1>1. /\ runner[r].condemned \subseteq Txns /\ due[r] \subseteq Txns
        /\ Vouched(runner[r]) \subseteq Txns
    BY DEF TypeOK, Runner, Vouched
  <1>2. Listing(r)' /\ Top(r)'
    BY DEF Progress, Part, Listing, Top
  <1>3. Vouches(r)'
    BY <1>1 DEF Progress, Part, Vouches, Vouched, On
  <1>4. Condemns(r)'
    BY <1>1 DEF Progress, Part, Condemns
  <1>5. Owes(r)' /\ Caught(r)'
    BY <1>1 DEF Progress, Part, Owes, Caught, Ahead
  <1> QED
    BY <1>2, <1>3, <1>4, <1>5 DEF Part

\* The fields of an idle runner.
LEMMA IdleFields ==
    ASSUME NEW place \in Places, NEW n \in Times \cup {Never}
    PROVE  /\ Idle(place, n).at = place
           /\ Idle(place, n).cursor = Start
           /\ Idle(place, n).page = EmptyPage
           /\ Idle(place, n).condemned = {}
           /\ \A t \in Txns : EmptyPage[t] = "none"
           /\ Unaware.news = EmptyPage
  BY DEF Idle, EmptyPage, Unaware

\* Crew, the clock and the rows' age.
LEMMA EnvironmentInv ==
    ASSUME TypeOK, LedgerInv, Tick \/ \E t \in Txns : Environment(t)
    PROVE  LedgerInv'
  <1>1. CASE Tick
    BY <1>1, PartByPart, PartByPartNext, PartKept
       DEF Tick, RowsListed, Progress, Gone, Settled, Stored
  <1>2. ASSUME NEW t \in Txns, Appear(t) \/ Settle(t) PROVE LedgerInv'
    <2>1. PICK st \in {"pending", "cleared", "dropped"} :
             crew' = [crew EXCEPT ![t] = st]
      BY <1>2 DEF Appear, Settle
    <2>2. crew[t] # "dropped" /\ UNCHANGED <<row, runner, sdk, due>>
      BY <1>2 DEF Appear, Settle
    <2>3. Progress
      BY <2>1, <2>2 DEF TypeOK, Progress, Gone, Settled, Stored
    <2>4. RowsListed'
      BY <2>2, <2>3, PartByPart DEF RowsListed, Progress, Stored
    <2> QED
      BY <2>2, <2>3, <2>4, PartByPart, PartByPartNext, PartKept
  <1>3. ASSUME NEW t \in Txns, Age(t) PROVE LedgerInv'
    <2>1. /\ \A u \in Txns \ {t} : row'[u] = row[u]
          /\ \A u \in Txns : row'[u].status = row[u].status
      BY <1>3 DEF Age, TypeOK, Row
    <2>2. Stored(t) /\ UNCHANGED <<crew, runner, sdk, due>>
      BY <1>3 DEF Age
    <2>3. RowsListed'
      BY <2>1, <2>2, PartByPart DEF RowsListed, Stored
    <2>4. ASSUME NEW r \in Runners PROVE Part(r)'
      <3>1. Part(r) /\ due[r] \subseteq Txns
        BY PartByPart DEF TypeOK
      <3>2. Vouches(r)'
        BY <1>3 DEF Age, NoPageInHand, Vouches
      <3>3. Owes(r)' /\ Caught(r)'
        BY <2>1, <2>2, <3>1 DEF Part, Owes, Caught, Ahead, Settled, Stored, Gone
      <3>4. Listing(r)' /\ Top(r)' /\ Condemns(r)'
        BY <2>2, <3>1 DEF Part, Listing, Top, Condemns, Gone
      <3> QED
        BY <3>2, <3>3, <3>4 DEF Part
    <2> QED
      BY <2>3, <2>4, PartByPartNext
  <1> QED
    BY <1>1, <1>2, <1>3 DEF Environment

\* A step that changes one runner and no row.
LEMMA OneRunner ==
    ASSUME TypeOK, LedgerInv, UNCHANGED <<crew, row>>, NEW r \in Runners,
           \A q \in Runners \ {r} : /\ runner'[q] = runner[q]
                                    /\ due'[q] = due[q] /\ sdk'[q] = sdk[q],
           Part(r)'
    PROVE  LedgerInv'
  <1>1. Progress
    BY DEF Progress, Gone, Settled, Stored
  <1>2. RowsListed'
    BY PartByPart DEF RowsListed, Stored
  <1>3. ASSUME NEW q \in Runners PROVE Part(q)'
    BY <1>1, PartByPart, PartKept
  <1> QED
    BY <1>2, <1>3, PartByPartNext

\* Crew's answers: what is not on a page that has been fetched is behind it.
LEMMA Answered ==
    ASSUME TypeOK, NEW k \in Txns \cup {Start}, NEW n, NEW S \in Answers(k, n),
           NEW t \in Txns, crew[t] \in {"pending", "cleared"},
           k = Start \/ Newer(k, t), t \notin S
    PROVE  HasNextPage(k, S) /\ S # {} /\ \A u \in S : Newer(u, t)
  <1>1. t \in Behind(k)
    BY DEF Behind, Visible
  <1> QED
    BY <1>1 DEF Answers, HasNextPage

\* The steps of a catch-up.
LEMMA CatchUpInv ==
    ASSUME TypeOK, TypeOK', LedgerInv, NEW r \in Runners, CatchUp(r)
    PROVE  LedgerInv'
  <1> DEFINE x == runner[r]
  <1>1. x \in Runner /\ x.loaded \in Times \cup {Never} /\ due[r] \subseteq Txns
    BY DEF TypeOK, Runner
  <1>2. Part(r)
    BY PartByPart
  <1>3. {"start", "down", "gap", "page", "watch"} \subseteq Places
    BY DEF Places
  <1>4. CASE Claim(r)
    <2>1. polled[Of[r]] \in Times \cup {Never}
      BY LedgerAssumption DEF TypeOK
    <2>2. /\ runner'[r] = Idle("start", polled[Of[r]])
          /\ \A q \in Runners \ {r} : runner'[q] = runner[q]
      BY <1>3, <1>4, <2>1, Literals, BecomeType DEF Claim
    <2>3. UNCHANGED <<crew, row, sdk, due>>
      BY <1>4 DEF Claim
    <2>4. Part(r)'
      BY <1>2, <1>3, <2>1, <2>2, <2>3, IdleFields
         DEF Part, Listing, Top, Vouches, Condemns, Owes, Caught
    <2> QED
      BY <2>2, <2>3, <2>4, OneRunner
  <1>5. CASE Retry(r) \/ Stop(r)
    <2>1. PICK place \in {"start", "down"}, n \in Times \cup {Never} :
             Become(r, Idle(place, n))
      BY <1>1, <1>5 DEF Retry, Stop
    <2>2. /\ runner'[r] = Idle(place, n)
          /\ \A q \in Runners \ {r} : runner'[q] = runner[q]
      BY <1>3, <2>1, Literals, BecomeType
    <2>3. /\ sdk' = [sdk EXCEPT ![r] = Unaware]
          /\ due' = [due EXCEPT ![r] = {}]
          /\ UNCHANGED <<crew, row>>
      BY <1>5 DEF Retry, Stop
    <2>4. sdk'[r] = Unaware /\ due'[r] = {}
      BY <2>3 DEF TypeOK
    <2>5. \A q \in Runners \ {r} : due'[q] = due[q] /\ sdk'[q] = sdk[q]
      BY <2>3 DEF TypeOK
    <2>6. Part(r)'
      BY <1>3, <2>2, <2>4, IdleFields
         DEF Part, Listing, Top, Vouches, Condemns, Owes, Caught
    <2> QED
      BY <2>2, <2>3, <2>5, <2>6, OneRunner
  <1>6. CASE Reconcile(r)
    <2>1. PICK h \in Int :
             /\ Become(r, Reconciling(x, h))
             /\ due' = [due EXCEPT ![r] = {t \in Visible : When[t] >= h}]
      BY <1>6, ReconcileShape
    <2> DEFINE y == Reconciling(x, h)
    <2>2. /\ y \in Runner /\ y.at = "page" /\ y.horizon = h /\ y.cursor = x.cursor
          /\ y.page = x.page /\ y.condemned = x.condemned
      BY <1>1, ReconcilingFields
    <2>3. runner'[r] = y /\ \A q \in Runners \ {r} : runner'[q] = runner[q]
      BY <2>1, <2>2, BecomeType
    <2>4. due'[r] = {t \in Visible : When[t] >= h}
      BY <2>1 DEF TypeOK
    <2>5. /\ UNCHANGED <<crew, row, sdk>>
          /\ \A q \in Runners \ {r} : due'[q] = due[q] /\ sdk'[q] = sdk[q]
      BY <1>6, <2>1 DEF Reconcile, TypeOK
    <2>6. x.cursor = Start
      BY <1>2, <1>6 DEF Part, Top, Reconcile
    <2> HIDE DEF y
    <2>7. Listing(r)'
      BY <1>2, <2>2, <2>3, <2>4, <2>5 DEF Part, Listing, Visible
    <2>8. Condemns(r)' /\ Top(r)' /\ Vouches(r)' /\ Caught(r)'
      BY <1>2, <2>2, <2>3, <2>5 DEF Part, Condemns, Top, Vouches, Caught, Gone
    <2>9. Owes(r)'
      BY <2>2, <2>3, <2>4, <2>6 DEF Owes, Ahead
    <2> QED
      BY <2>3, <2>5, <2>7, <2>8, <2>9, OneRunner DEF Part
  <1>7. CASE FetchPage(r)
    <2>1. PICK S \in Answers(x.cursor, PageSize), t \in Txns \cup {Start}, b \in BOOLEAN :
             /\ IF S = {} THEN t = x.cursor ELSE IsOldest(t, S)
             /\ b <=> HasNextPage(x.cursor, S)
             /\ Become(r, Fetched(x, PageOf(S), t, b))
      BY <1>7, FetchPageShape
    <2> DEFINE y == Fetched(x, PageOf(S), t, b)
    <2>2. /\ S \in SUBSET Visible /\ S \subseteq Txns /\ On(PageOf(S)) = S
          /\ PageOf(S) \in Page
      BY AnswersListed, PageOfType
    <2>3. /\ y \in Runner /\ y.at = "ingest" /\ y.horizon = x.horizon /\ y.cursor = t
          /\ y.page = PageOf(S) /\ y.more = b /\ y.condemned = x.condemned
      <3>1. PICK p \in Page : p = PageOf(S)
        BY <2>2
      <3>2. y = Fetched(x, p, t, b)
        BY <3>1
      <3> HIDE DEF y
      <3>3. /\ y \in Runner /\ y.at = "ingest" /\ y.horizon = x.horizon /\ y.cursor = t
            /\ y.page = p /\ y.more = b /\ y.condemned = x.condemned
        BY <1>1, <3>2, FetchedFields
      <3> QED
        BY <3>1, <3>3
    <2>4. runner'[r] = y /\ \A q \in Runners \ {r} : runner'[q] = runner[q]
      BY <2>1, <2>3, BecomeType
    <2>5. UNCHANGED <<crew, row, sdk, due>> /\ x.at = "page"
      BY <1>7 DEF FetchPage
    <2>6. \A u \in Txns : u \notin S <=> PageOf(S)[u] = "none"
      BY <2>2 DEF On
    <2> HIDE DEF y
    <2>7. Listing(r)'
      BY <1>2, <2>2, <2>3, <2>4, <2>5, <2>6 DEF Part, Listing, Visible
    <2>8. Condemns(r)' /\ Top(r)' /\ Vouches(r)' /\ Caught(r)'
      BY <1>2, <2>3, <2>4, <2>5 DEF Part, Condemns, Top, Vouches, Caught, Gone
    <2>9. ASSUME NEW u \in due[r], ~Settled(u) PROVE Ahead(y, u)
      <3>1. When[u] >= x.horizon /\ Ahead(x, u) /\ u \in Txns
        BY <1>1, <1>2, <2>5, <2>9 DEF Part, Owes
      <3>2. crew[u] \in {"pending", "cleared"}
        BY <1>2, <2>9, <3>1 DEF Part, Listing, Settled, Gone, TypeOK
      <3>3. x.cursor = Start \/ Newer(x.cursor, u)
        BY <2>5, <3>1 DEF Ahead
      <3>4. CASE u \in S
        BY <2>3, <2>6, <3>1, <3>4 DEF Ahead
      <3>5. CASE u \notin S
        <4>1. HasNextPage(x.cursor, S) /\ S # {} /\ \A v \in S : Newer(v, u)
          BY <1>1, <3>1, <3>2, <3>3, <3>5, Answered DEF Runner
        <4>2. Newer(t, u)
          BY <2>1, <4>1 DEF IsOldest
        <4> QED
          BY <2>1, <2>3, <4>1, <4>2 DEF Ahead
      <3> QED
        BY <3>4, <3>5
    <2>10. \A u \in due[r] : When[u] >= x.horizon
      BY <1>2, <2>5 DEF Part, Owes
    <2>11. Owes(r)'
      BY <2>3, <2>4, <2>5, <2>9, <2>10 DEF Owes, Settled, Stored, Gone, Ahead
    <2> QED
      BY <2>4, <2>5, <2>7, <2>8, <2>11, OneRunner DEF Part
  <1>8. CASE PageDone(r)
    <2>1. x.at = "ingest" /\ On(x.page) = {} /\ UNCHANGED <<crew, row, sdk, due>>
      BY <1>8 DEF PageDone
    <2>2. \A u \in due[r] : x.page[u] = "none"
      BY <1>1, <2>1 DEF On
    <2>3. \A u \in due[r] : /\ When[u] >= x.horizon
                            /\ \/ Settled(u)
                               \/ x.more /\ (x.cursor = Start \/ Newer(x.cursor, u))
      <3> SUFFICES ASSUME NEW u \in due[r]
                   PROVE  /\ When[u] >= x.horizon
                          /\ \/ Settled(u)
                             \/ x.more /\ (x.cursor = Start \/ Newer(x.cursor, u))
        OBVIOUS
      <3>1. When[u] >= x.horizon /\ (Settled(u) \/ Ahead(x, u))
        BY <1>2, <2>1 DEF Part, Owes
      <3> QED
        BY <2>1, <2>2, <3>1 DEF Ahead
    <2>4. CASE LastPage(r)
      <3>1. /\ runner'[r] = Idle("gap", x.loaded)
            /\ \A q \in Runners \ {r} : runner'[q] = runner[q]
        BY <1>1, <1>3, <1>8, <2>4, Literals, BecomeType DEF PageDone
      <3>2. ASSUME NEW u \in due[r], ~Settled(u) PROVE FALSE
        <4>1. /\ x.more /\ x.cursor # Start /\ When[x.cursor] < x.horizon
              /\ When[u] >= x.horizon /\ Newer(x.cursor, u)
          BY <2>3, <2>4, <3>2 DEF LastPage
        <4>2. /\ When[x.cursor] \in Nat /\ When[u] \in Nat /\ x.horizon \in Int
          BY <1>1, <4>1, LedgerAssumption DEF Runner
        <4> QED
          BY <4>1, <4>2 DEF Newer
      <3>3. Part(r)'
        BY <1>1, <1>2, <1>3, <2>1, <3>1, <3>2, IdleFields
           DEF Part, Listing, Top, Vouches, Condemns, Owes, Caught, Settled, Stored, Gone
      <3> QED
        BY <2>1, <3>1, <3>3, OneRunner
    <2>5. CASE ~LastPage(r)
      <3> DEFINE y == Moved(x, "page")
      <3>1. /\ y \in Runner /\ y.at = "page" /\ y.horizon = x.horizon
            /\ y.cursor = x.cursor /\ y.page = x.page /\ y.condemned = x.condemned
        BY <1>1, <1>3, MovedFields
      <3>2. Become(r, y)
        BY <1>8, <2>5 DEF PageDone, Moved
      <3>3. runner'[r] = y /\ \A q \in Runners \ {r} : runner'[q] = runner[q]
        BY <3>1, <3>2, BecomeType
      <3> HIDE DEF y
      <3>4. Listing(r)' /\ Condemns(r)' /\ Top(r)' /\ Vouches(r)' /\ Caught(r)'
        BY <1>2, <2>1, <3>1, <3>3
           DEF Part, Listing, Condemns, Top, Vouches, Caught, Gone
      <3>5. Owes(r)'
        BY <2>1, <2>3, <3>1, <3>3 DEF Owes, Ahead, Settled, Stored, Gone
      <3> QED
        BY <2>1, <3>3, <3>4, <3>5, OneRunner DEF Part
    <2> QED
      BY <2>4, <2>5
  <1>9. CASE StartWatching(r)
    <2> DEFINE y == Moved(x, "watch")
    <2>1. /\ y \in Runner /\ y.at = "watch" /\ y.page = x.page
          /\ y.condemned = x.condemned
      BY <1>1, <1>3, MovedFields
    <2>2. Become(r, y) /\ x.at = "gap" /\ UNCHANGED <<crew, row, due>>
      BY <1>9 DEF StartWatching, Moved
    <2>3. runner'[r] = y /\ \A q \in Runners \ {r} : runner'[q] = runner[q]
      BY <2>1, <2>2, BecomeType
    <2>4. sdk'[r].news = EmptyPage /\ \A q \in Runners \ {r} : sdk'[q] = sdk[q]
      BY <1>9 DEF StartWatching, TypeOK, Unaware
    <2> HIDE DEF y
    <2>5. Listing(r)'
      BY <1>2, <1>3, <2>1, <2>2, <2>3, <2>4, IdleFields, Literals DEF Part, Listing, EmptyPage
    <2>6. Condemns(r)' /\ Top(r)' /\ Vouches(r)' /\ Owes(r)'
      BY <1>2, <2>1, <2>2, <2>3 DEF Part, Condemns, Top, Vouches, Owes, Gone
    <2>7. Caught(r)'
      BY <1>2, <2>1, <2>2, <2>3 DEF Part, Caught, Settled, Stored, Gone
    <2> QED
      BY <2>2, <2>3, <2>4, <2>5, <2>6, <2>7, OneRunner DEF Part
  <1> QED
    BY <1>4, <1>5, <1>6, <1>7, <1>8, <1>9 DEF CatchUp

\* The steps of a session that watches.
LEMMA WatchInv ==
    ASSUME TypeOK, TypeOK', LedgerInv, NoTies, NEW r \in Runners, Watch(r)
    PROVE  LedgerInv'
  <1> DEFINE x == runner[r]
  <1>1. x \in Runner /\ x.loaded \in Times \cup {Never} /\ due[r] \subseteq Txns
    BY DEF TypeOK, Runner
  <1>2. Part(r) /\ RowsListed
    BY PartByPart
  <1>3. {"watch", "sweep"} \subseteq Places
    BY DEF Places
  <1>4. CASE Poll(r)
    <2>1. PICK told \in SUBSET Visible :
             sdk' = [sdk EXCEPT ![r] = [sdk[r] EXCEPT !.news = PageOf(told)]]
      BY <1>4, PollShape
    <2>2. UNCHANGED <<crew, row, runner, due>>
      BY <1>4 DEF Poll
    <2>3. sdk'[r].news = PageOf(told) /\ \A q \in Runners \ {r} : sdk'[q] = sdk[q]
      BY <2>1 DEF TypeOK, Sdk
    <2>4. Listing(r)'
      BY <1>2, <2>2, <2>3 DEF Part, Listing, PageOf, Visible
    <2>5. Top(r)' /\ Vouches(r)' /\ Condemns(r)' /\ Owes(r)' /\ Caught(r)'
      BY <1>2, <2>2
         DEF Part, Top, Vouches, Condemns, Owes, Caught, Ahead, Settled, Stored, Gone
    <2> QED
      BY <2>2, <2>3, <2>4, <2>5, OneRunner DEF Part
  <1>5. CASE Touch(r)
    <2>1. UNCHANGED <<crew, row, runner, sdk, due>>
      BY <1>5 DEF Touch
    <2>2. Progress /\ RowsListed'
      BY <1>2, <2>1 DEF Progress, RowsListed, Gone, Settled, Stored
    <2> QED
      BY <2>1, <2>2, PartByPart, PartByPartNext, PartKept
  <1>6. CASE FetchRecent(r)
    <2>1. PICK S \in Answers(Start, RecentSize), b \in BOOLEAN :
             (b <=> HasNextPage(Start, S)) /\ Become(r, Recent(x, PageOf(S), b))
      BY <1>6, FetchRecentShape
    <2> DEFINE y == Recent(x, PageOf(S), b)
    <2>2. /\ S \in SUBSET Visible /\ S \subseteq Txns /\ On(PageOf(S)) = S
          /\ PageOf(S) \in Page
      BY AnswersListed, PageOfType
    <2>3. /\ y \in Runner /\ y.at = "recent" /\ y.page = PageOf(S)
          /\ y.more = b /\ y.condemned = x.condemned
      BY <1>1, <2>2, RecentFields
    <2>4. runner'[r] = y /\ \A q \in Runners \ {r} : runner'[q] = runner[q]
      BY <2>1, <2>3, BecomeType
    <2>5. UNCHANGED <<crew, row, sdk, due>> /\ x.at = "watch"
      BY <1>6 DEF FetchRecent
    <2> HIDE DEF y
    <2>6. Listing(r)'
      BY <1>2, <2>2, <2>3, <2>4, <2>5 DEF Part, Listing, PageOf, Visible
    <2>7. Condemns(r)' /\ Top(r)' /\ Owes(r)' /\ Caught(r)'
      BY <1>2, <2>3, <2>4, <2>5
         DEF Part, Condemns, Top, Owes, Caught, Settled, Stored, Gone
    <2>8. ASSUME NEW t \in Vouched(y) \ On(y.page), row[t].old PROVE Gone(t)
      <3>1. t \in Txns /\ t \notin S
        BY <2>2, <2>3, <2>8 DEF Vouched
      <3>2. SUFFICES ASSUME ~Gone(t) PROVE FALSE
        OBVIOUS
      <3>3. crew[t] \in {"pending", "cleared"}
        BY <1>2, <2>8, <3>1, <3>2 DEF RowsListed, Gone, TypeOK
      <3>4. HasNextPage(Start, S) /\ \A u \in S : Newer(u, t)
        BY <3>1, <3>3, Answered
      <3>5. PICK u \in S : When[t] >= When[u]
        BY <2>1, <2>2, <2>3, <2>8, <3>4 DEF Vouched
      <3>6. When[t] \in Nat /\ When[u] \in Nat /\ Newer(u, t) /\ u \in Txns
        BY <2>2, <3>1, <3>4, <3>5, LedgerAssumption
      <3>7. When[t] = When[u]
        BY <3>5, <3>6 DEF Newer
      <3>8. t = u
        BY <3>1, <3>6, <3>7 DEF NoTies
      <3> QED
        BY <3>1, <3>5, <3>8
    <2>9. Vouches(r)'
      BY <2>3, <2>4, <2>5, <2>8 DEF Vouches, Gone
    <2> QED
      BY <2>4, <2>5, <2>6, <2>7, <2>9, OneRunner DEF Part
  <1>7. CASE Judge(r)
    <2>1. Vanished(r) \in SUBSET Txns
      BY DEF Vanished, Vouched
    <2> DEFINE i == Idle("sweep", x.loaded)
               y == Condemning(i, Vanished(r))
    <2>2. /\ i \in Runner /\ i.at = "sweep" /\ i.page = EmptyPage
          /\ \A t \in Txns : EmptyPage[t] = "none"
      BY <1>1, <1>3, Literals, IdleFields
    <2>3. /\ y \in Runner /\ y.at = "sweep" /\ y.page = EmptyPage
          /\ y.condemned = Vanished(r)
      BY <2>1, <2>2, CondemningFields
    <2>4. Become(r, y) /\ x.at = "recent" /\ UNCHANGED <<crew, row, sdk, due>>
      BY <1>7 DEF Judge, Condemning
    <2>5. runner'[r] = y /\ \A q \in Runners \ {r} : runner'[q] = runner[q]
      BY <2>3, <2>4, BecomeType
    <2>6. \A t \in Vanished(r) : Gone(t)
      BY <1>2, <2>4 DEF Part, Vouches, Vanished
    <2> HIDE DEF y, i
    <2>7. Listing(r)'
      BY <1>2, <2>2, <2>3, <2>4, <2>5 DEF Part, Listing
    <2>8. Condemns(r)' /\ Top(r)' /\ Vouches(r)' /\ Owes(r)'
      BY <2>3, <2>4, <2>5, <2>6 DEF Condemns, Top, Vouches, Owes, Gone
    <2>9. Caught(r)'
      BY <1>2, <2>3, <2>4, <2>5 DEF Part, Caught, Settled, Stored, Gone
    <2> QED
      BY <2>4, <2>5, <2>7, <2>8, <2>9, OneRunner DEF Part
  <1>8. CASE JudgeError(r) \/ Swept(r)
    <2>1. UNCHANGED <<crew, row, sdk, due>> /\ x.at \in {"recent", "sweep"}
      BY <1>8 DEF JudgeError, Swept
    <2>2. PICK y \in Runner :
             /\ Become(r, y) /\ y.at = "watch"
             /\ y.page = EmptyPage \/ y.page = x.page
             /\ y.condemned = {} \/ y.condemned = x.condemned
      <3>1. CASE JudgeError(r)
        BY <1>1, <1>3, <3>1, Literals, IdleFields DEF JudgeError
      <3>2. CASE Swept(r)
        <4>1. Become(r, Moved(x, "watch"))
          BY <3>2 DEF Swept, Moved
        <4> QED
          BY <1>1, <1>3, <4>1, MovedFields
      <3> QED
        BY <1>8, <3>1, <3>2
    <2>3. runner'[r] = y /\ \A q \in Runners \ {r} : runner'[q] = runner[q]
      BY <2>2, BecomeType
    <2>4. Listing(r)'
      BY <1>2, <2>1, <2>2, <2>3 DEF Part, Listing, EmptyPage
    <2>5. Condemns(r)' /\ Top(r)' /\ Vouches(r)' /\ Owes(r)'
      BY <1>2, <2>1, <2>2, <2>3 DEF Part, Condemns, Top, Vouches, Owes, Gone
    <2>6. Caught(r)'
      BY <1>2, <2>1, <2>2, <2>3 DEF Part, Caught, Settled, Stored, Gone
    <2> QED
      BY <2>1, <2>3, <2>4, <2>5, <2>6, OneRunner DEF Part
  <1> QED
    BY <1>4, <1>5, <1>6, <1>7, <1>8 DEF Watch

\* A step that changes rows for the better and one runner.
LEMMA OneRow ==
    ASSUME TypeOK, LedgerInv, Progress, RowsListed', NEW r \in Runners,
           \A q \in Runners \ {r} : /\ runner'[q] = runner[q]
                                    /\ due'[q] = due[q] /\ sdk'[q] = sdk[q],
           Part(r)'
    PROVE  LedgerInv'
  <1>1. ASSUME NEW q \in Runners PROVE Part(q)'
    BY PartByPart, PartKept
  <1> QED
    BY <1>1, PartByPartNext

\* The steps for one transaction.
LEMMA ForTxnInv ==
    ASSUME TypeOK, TypeOK', LedgerInv, NEW r \in Runners, NEW t \in Txns, ForTxn(r, t)
    PROVE  LedgerInv'
  <1> DEFINE x == runner[r]
  <1>1. x \in Runner /\ x.page \in Page /\ x.condemned \in SUBSET Txns
    BY DEF TypeOK, Runner
  <1>2. sdk[r] \in Sdk /\ sdk[r].known \in Page /\ sdk[r].news \in Page
    BY DEF TypeOK, Sdk
  <1>3. x.page[t] \in Listed /\ sdk[r].news[t] \in Listed /\ due[r] \subseteq Txns
    BY <1>1, <1>2 DEF Page, TypeOK
  <1>4. /\ Without(x.page, t) \in Page /\ Without(sdk[r].news, t) \in Page
        /\ \A u \in Txns : /\ Without(x.page, t)[u] = IF u = t THEN "none" ELSE x.page[u]
                           /\ Without(sdk[r].news, t)[u] =
                                 IF u = t THEN "none" ELSE sdk[r].news[u]
    BY <1>1, <1>2, Pages DEF Page, Without
  <1>5. Part(r) /\ RowsListed
    BY PartByPart
  <1>6. CASE Ingest(r, t)
    <2>1. PICK b \in BOOLEAN : Become(r, Ingested(x, Without(x.page, t), b))
      BY <1>6, IngestShape
    <2> DEFINE y == Ingested(x, Without(x.page, t), b)
    <2>2. /\ y \in Runner /\ y.at = x.at /\ y.horizon = x.horizon
          /\ y.cursor = x.cursor /\ y.page = Without(x.page, t) /\ y.more = x.more
          /\ y.condemned = x.condemned
      BY <1>1, <1>4, IngestedFields
    <2>3. runner'[r] = y /\ \A q \in Runners \ {r} : runner'[q] = runner[q]
      BY <2>1, <2>2, BecomeType
    <2>4. /\ x.at = "ingest" /\ x.page[t] # "none"
          /\ UNCHANGED <<crew, sdk, due>>
      BY <1>6 DEF Ingest, IsNewest, On
    <2>5. CASE When[t] < x.horizon /\ UNCHANGED row
      <3>1. Progress /\ RowsListed'
        BY <1>5, <2>4, <2>5 DEF Progress, RowsListed, Gone, Settled, Stored
      <3>2. t \notin due[r]
        BY <1>1, <1>5, <2>4, <2>5, LedgerAssumption DEF Part, Owes, Runner
      <3>3. Owes(r)'
        BY <1>3, <1>4, <1>5, <2>2, <2>3, <2>4, <2>5, <3>2
           DEF Part, Owes, Ahead, Settled, Stored, Gone
      <3>4. Listing(r)' /\ Top(r)' /\ Vouches(r)' /\ Condemns(r)' /\ Caught(r)'
        BY <1>4, <1>5, <2>2, <2>3, <2>4
           DEF Part, Listing, Top, Vouches, Condemns, Caught, Gone
      <3> QED
        BY <2>3, <2>4, <3>1, <3>3, <3>4, OneRow DEF Part
    <2>6. CASE Insert(r, t, x.page[t])
      <3>1. /\ \A u \in Txns \ {t} : row'[u] = row[u]
            /\ Stored(t) => row'[t] = row[t]
            /\ row'[t].old => row[t].old
            /\ row'[t].status # "none"
        BY <1>3, <2>4, <2>6, InsertRow
      <3>2. Progress
        BY <2>4, <3>1 DEF Progress, Gone, Settled, Stored
      <3>3. RowsListed'
        BY <1>5, <2>4, <3>1 DEF RowsListed, Part, Listing, Stored
      <3>4. Owes(r)'
        <4>1. ASSUME NEW u \in due[r]
              PROVE  When[u] >= y.horizon /\ (Settled(u)' \/ Ahead(y, u))
          <5>1. u \in Txns /\ When[u] >= x.horizon /\ (Settled(u) \/ Ahead(x, u))
            BY <1>3, <1>5, <2>4 DEF Part, Owes
          <5>2. CASE u = t
            BY <2>2, <3>1, <5>1, <5>2 DEF Settled, Stored
          <5>3. CASE u # t
            BY <1>4, <2>2, <2>4, <3>2, <5>1, <5>3 DEF Ahead, Progress
          <5> QED
            BY <5>2, <5>3
        <4> QED
          BY <2>3, <2>4, <4>1 DEF Owes, Ahead
      <3>5. Listing(r)' /\ Top(r)' /\ Vouches(r)' /\ Condemns(r)' /\ Caught(r)'
        BY <1>4, <1>5, <2>2, <2>3, <2>4
           DEF Part, Listing, Top, Vouches, Condemns, Caught, Gone
      <3> QED
        BY <2>3, <2>4, <3>2, <3>3, <3>4, <3>5, OneRow DEF Part
    <2> QED
      BY <1>6, <2>5, <2>6, IngestShape
  <1>7. CASE IngestError(r, t)
    <2> DEFINE y == Skipped(x, Without(x.page, t))
    <2>1. /\ y \in Runner /\ y.at = x.at /\ y.horizon = x.horizon
          /\ y.cursor = x.cursor /\ y.page = Without(x.page, t) /\ y.more = x.more
          /\ y.condemned = x.condemned
      BY <1>1, <1>4, SkippedFields
    <2>2. Become(r, y)
      BY <1>7 DEF IngestError, Skipped
    <2>3. runner'[r] = y /\ \A q \in Runners \ {r} : runner'[q] = runner[q]
      BY <2>1, <2>2, BecomeType
    <2>4. x.at = "ingest" /\ UNCHANGED <<crew, row, sdk>>
      BY <1>7 DEF IngestError
    <2>5. due'[r] = due[r] \ {t} /\ \A q \in Runners \ {r} : due'[q] = due[q]
      BY <1>7 DEF IngestError, TypeOK
    <2> HIDE DEF y
    <2>6. Owes(r)'
      BY <1>3, <1>4, <1>5, <2>1, <2>3, <2>4, <2>5
         DEF Part, Owes, Ahead, Settled, Stored, Gone
    <2>7. Listing(r)' /\ Top(r)' /\ Vouches(r)' /\ Condemns(r)' /\ Caught(r)'
      BY <1>4, <1>5, <2>1, <2>3, <2>4, <2>5
         DEF Part, Listing, Top, Vouches, Condemns, Caught, Gone
    <2> QED
      BY <2>3, <2>4, <2>5, <2>6, <2>7, OneRunner DEF Part
  <1>8. ASSUME Heard(r, t), UNCHANGED <<crew, runner, due>>, Progress, RowsListed'
        PROVE  LedgerInv'
    <2>1. sdk'[r].news = Without(sdk[r].news, t) /\ \A q \in Runners \ {r} : sdk'[q] = sdk[q]
      BY <1>8 DEF Heard, TypeOK
    <2>2. Listing(r)'
      BY <1>4, <1>5, <1>8, <2>1 DEF Part, Listing
    <2>3. Top(r)' /\ Condemns(r)' /\ Vouches(r)'
      BY <1>1, <1>5, <1>8 DEF Part, Top, Condemns, Vouches, Vouched, Gone, Progress
    <2>4. Owes(r)' /\ Caught(r)'
      BY <1>3, <1>5, <1>8 DEF Part, Owes, Caught, Ahead, Progress
    <2> QED
      BY <1>8, <2>1, <2>2, <2>3, <2>4, OneRow DEF Part
  <1>9. CASE Callback(r, t)
    <2>1. sdk[r].news[t] # "none" /\ Heard(r, t) /\ UNCHANGED <<crew, runner, due>>
      BY <1>9 DEF Callback
    <2>2. /\ \A u \in Txns \ {t} : row'[u] = row[u]
          /\ row'[t].old => row[t].old
          /\ Stored(t) => row'[t].status # "none"
      BY <1>3, <1>9, <2>1, InsertRow, UpdateRow DEF Callback, Stored
    <2>3. crew[t] # "unborn"
      BY <1>5, <2>1 DEF Part, Listing
    <2>4. Progress /\ RowsListed'
      BY <1>5, <2>1, <2>2, <2>3 DEF Progress, RowsListed, Gone, Settled, Stored
    <2> QED
      BY <1>8, <2>1, <2>4
  <1>10. CASE CallbackError(r, t)
    <2>1. Heard(r, t) /\ UNCHANGED <<crew, row, runner, due>>
      BY <1>10 DEF CallbackError
    <2>2. Progress /\ RowsListed'
      BY <1>5, <2>1 DEF Progress, RowsListed, Gone, Settled, Stored
    <2> QED
      BY <1>8, <2>1, <2>2
  <1>11. CASE Delete(r, t)
    <2> DEFINE y == Condemning(x, x.condemned \ {t})
    <2>1. /\ y \in Runner /\ y.at = x.at /\ y.page = x.page /\ y.more = x.more
          /\ y.condemned = x.condemned \ {t}
      BY <1>1, CondemningFields
    <2>2. Become(r, y)
      BY <1>11 DEF Delete, Condemning
    <2>3. runner'[r] = y /\ \A q \in Runners \ {r} : runner'[q] = runner[q]
      BY <2>1, <2>2, BecomeType
    <2>4. /\ x.at = "sweep" /\ t \in x.condemned
          /\ UNCHANGED <<crew, sdk, due>>
      BY <1>11 DEF Delete
    <2>5. Gone(t) /\ NoRow.status = "none" /\ NoRow.old = FALSE
      BY <1>5, <2>4 DEF Part, Condemns, NoRow
    <2>6. /\ \A u \in Txns \ {t} : row'[u] = row[u]
          /\ row'[t] = row[t] \/ row'[t] = NoRow
      BY <1>11, DeleteRow DEF Delete
    <2>7. Progress /\ RowsListed'
      BY <1>5, <2>4, <2>5, <2>6 DEF Progress, RowsListed, Gone, Settled, Stored
    <2> HIDE DEF y
    <2>8. Listing(r)' /\ Top(r)' /\ Condemns(r)' /\ Vouches(r)' /\ Owes(r)'
      BY <1>5, <2>1, <2>3, <2>4 DEF Part, Listing, Top, Condemns, Vouches, Owes, Gone
    <2>9. Caught(r)'
      BY <1>3, <1>5, <2>1, <2>3, <2>4, <2>7 DEF Part, Caught, Progress
    <2> QED
      BY <2>3, <2>4, <2>7, <2>8, <2>9, OneRow DEF Part
  <1> QED
    BY <1>6, <1>7, <1>9, <1>10, <1>11 DEF ForTxn

\* Nothing is listed and nobody runs at first.
LEMMA InitInv == Init => LedgerInv
  <1> SUFFICES ASSUME Init PROVE LedgerInv
    OBVIOUS
  <1>1. RowsListed
    BY DEF Init, RowsListed, Stored, NoRow
  <1>2. ASSUME NEW r \in Runners PROVE Part(r)
    <2>1. Never \in Times \cup {Never} /\ "down" \in Places
      BY DEF Places
    <2>2. runner[r] = Idle("down", Never) /\ sdk[r] = Unaware /\ due[r] = {}
      BY <1>2 DEF Init
    <2> QED
      BY <2>1, <2>2, IdleFields
         DEF Part, Listing, Top, Vouches, Condemns, Owes, Caught
  <1> QED
    BY <1>1, <1>2, PartByPart

\* LedgerInv is inductive.
LEMMA InvStep == NoTies /\ TypeOK /\ TypeOK' /\ LedgerInv /\ [Next]_vars => LedgerInv'
  <1> SUFFICES ASSUME NoTies, TypeOK, TypeOK', LedgerInv, [Next]_vars PROVE LedgerInv'
    OBVIOUS
  <1>1. CASE UNCHANGED vars
    <2>1. UNCHANGED <<crew, row, runner, sdk, due>>
      BY <1>1 DEF vars
    <2>2. Progress /\ RowsListed'
      BY <2>1, PartByPart DEF Progress, RowsListed, Gone, Settled, Stored
    <2> QED
      BY <2>1, <2>2, PartByPart, PartByPartNext, PartKept
  <1>2. CASE Next
    BY <1>2, EnvironmentInv, CatchUpInv, WatchInv, ForTxnInv DEF Next
  <1> QED
    BY <1>1, <1>2

\* Without ties, what a page vouches for is gone and what a catch-up owes is ahead.
THEOREM InvCorrect == NoTies => (Spec => []LedgerInv)
  <1> SUFFICES ASSUME NoTies PROVE Spec => []LedgerInv
    OBVIOUS
  <1>1. Init => TypeOK /\ LedgerInv
    BY InitType, InitInv
  <1>2. (TypeOK /\ LedgerInv) /\ [Next]_vars => (TypeOK /\ LedgerInv)'
    BY TypeStep, InvStep
  <1> QED
    BY <1>1, <1>2, PTL DEF Spec

\* Reconcile stores what it could see and its horizon reaches, for any number of
\* runners and members, page sizes, short pages and interleavings.
THEOREM CatchUpComplete == NoTies => (Spec => []CaughtUp)
  <1>1. LedgerInv => CaughtUp
    BY DEF LedgerInv
  <1> QED
    BY <1>1, InvCorrect, PTL

\* A row that is deleted is of a charge Crew has dropped.
LEMMA SweepStep ==
    TypeOK /\ LedgerInv /\ [Next]_vars =>
        [\A t \in Txns : row[t].status # "none" /\ row'[t].status = "none"
                           => crew[t] = "dropped"]_vars
  <1> SUFFICES ASSUME TypeOK, LedgerInv, Next, NEW t \in Txns,
                      row[t].status # "none", row'[t].status = "none"
               PROVE  crew[t] = "dropped"
    OBVIOUS
  <1>1. CASE UNCHANGED row
    BY <1>1
  <1>2. ASSUME NEW u \in Txns, Age(u) PROVE row'[t].status = row[t].status
    BY <1>2 DEF Age, TypeOK, Row
  <1>3. ASSUME NEW r \in Runners, NEW u \in Txns, ForTxn(r, u)
        PROVE  crew[t] = "dropped"
    <2>1. /\ runner[r].page[u] \in Listed /\ sdk[r].news[u] \in Listed
          /\ runner[r].condemned \subseteq Txns
      BY DEF TypeOK, Runner, Sdk, Page
    <2>2. CASE Ingest(r, u)
      <3>1. runner[r].page[u] # "none"
        BY <2>2 DEF Ingest, IsNewest, On
      <3> QED
        BY <1>1, <2>1, <2>2, <3>1, IngestShape, InsertRow
    <2>3. CASE Callback(r, u)
      <3>1. sdk[r].news[u] # "none"
        BY <2>3 DEF Callback
      <3> QED
        BY <2>1, <2>3, <3>1, InsertRow, UpdateRow DEF Callback, Stored
    <2>4. CASE Delete(r, u)
      <3>1. u \in runner[r].condemned
        BY <2>4 DEF Delete
      <3>2. crew[u] = "dropped"
        BY <3>1 DEF LedgerInv, CondemnedAreGone, Gone
      <3>3. t = u
        BY <2>4, DeleteRow DEF Delete
      <3> QED
        BY <3>2, <3>3
    <2>5. CASE IngestError(r, u) \/ CallbackError(r, u)
      BY <1>1, <2>5 DEF IngestError, CallbackError
    <2> QED
      BY <1>3, <2>2, <2>3, <2>4, <2>5 DEF ForTxn
  <1>4. CASE Tick \/ \E u \in Txns : Appear(u) \/ Settle(u)
    BY <1>1, <1>4 DEF Tick, Appear, Settle
  <1>5. CASE \E r \in Runners : CatchUp(r) \/ Watch(r)
    <2>1. ASSUME NEW r \in Runners, CatchUp(r) PROVE UNCHANGED row
      <3>1. CASE Claim(r) \/ Retry(r) \/ Stop(r)
        BY <3>1 DEF Claim, Retry, Stop
      <3>2. CASE Reconcile(r)
        BY <3>2 DEF Reconcile
      <3>3. CASE FetchPage(r)
        BY <3>3 DEF FetchPage
      <3>4. CASE PageDone(r) \/ StartWatching(r)
        BY <3>4 DEF PageDone, StartWatching
      <3> QED
        BY <2>1, <3>1, <3>2, <3>3, <3>4 DEF CatchUp
    <2>2. ASSUME NEW r \in Runners, Watch(r) PROVE UNCHANGED row
      <3>1. CASE Poll(r)
        BY <3>1 DEF Poll
      <3>2. CASE Touch(r) \/ Judge(r) \/ JudgeError(r) \/ Swept(r)
        BY <3>2 DEF Touch, Judge, JudgeError, Swept
      <3>3. CASE FetchRecent(r)
        BY <3>3 DEF FetchRecent
      <3> QED
        BY <2>2, <3>1, <3>2, <3>3 DEF Watch
    <2> QED
      BY <1>1, <1>5, <2>1, <2>2
  <1> QED
    BY <1>2, <1>3, <1>4, <1>5 DEF Next, Environment

\* The sweep takes cancelled charges and nothing else, whatever page it judges by
\* and whatever other runners ingest meanwhile.
THEOREM SweepIsSafe == NoTies => (Spec => SweptAreGone)
  <1> SUFFICES ASSUME NoTies PROVE Spec => SweptAreGone
    OBVIOUS
  <1>1. Spec => [](TypeOK /\ LedgerInv)
    BY TypeCorrect, InvCorrect, PTL
  <1> QED
    BY <1>1, SweepStep, PTL DEF Spec, SweptAreGone

=============================================================================
