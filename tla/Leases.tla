------------------------------- MODULE Leases -------------------------------
(***************************************************************************)
(* Ownership of Crew connections: the crew_connections row, the scheduler  *)
(* of every replica (internal/leases/scheduler.go), the runners it starts  *)
(* (internal/watcher/runner.go) and the fenced statements they run         *)
(* (internal/store/connections.go).                                        *)
(*                                                                         *)
(* Crew issues rotating bearer tokens: using a token may replace it, and   *)
(* the replaced one is refused from then on.  A token lost between Crew    *)
(* and the row is a connection the user has to log in to again.            *)
(*                                                                         *)
(* Every SQL statement is one step.  Time is one bit per row: lease_expires*)
(* is in the future (live) or not; any delay of any process is allowed.    *)
(***************************************************************************)
EXTENDS Integers, FiniteSets

CONSTANTS
    Conns,          \* rows of crew_connections, one per user
    Replicas,       \* process incarnations: NewHolderID never repeats one
    NoHolder,       \* SQL NULL in lease_holder
    MaxPerReplica,  \* config MaxPerReplica; 0 is "no limit"
    MaxEpoch,       \* bound on the claims of one connection
    MaxToken        \* bound on the tokens Crew issues for one connection

ASSUME LeasesAssumption ==
    /\ IsFiniteSet(Conns)
    /\ NoHolder \notin Replicas
    /\ MaxPerReplica \in Nat
    /\ MaxEpoch \in Nat
    /\ MaxToken \in Nat

VARIABLES
    row,      \* [Conns -> the crew_connections row]
    crew,     \* [Conns -> what Crew knows of the user's tokens] (external)
    at,       \* [Replicas -> where the scheduler goroutine is]
    todo,     \* [Replicas -> connections left in the current loop of pass]
    deadline, \* [Replicas -> shutdown's 10s timer: one value to receive]
    held,     \* [Replicas -> [Conns -> epoch of s.held[c].lease, 0 if absent]]
    runner,   \* [Conns -> [epoch -> the runner started for that claim]]
    login,    \* history: [Conns -> token of the latest login]
    lost      \* history: [Conns -> the row's token was lost on the way]

vars == <<row, crew, at, todo, deadline, held, runner, login, lost>>

Wiped  == 0                       \* token_ciphertext = ''
Tokens == 1..MaxToken
Epochs == 1..MaxEpoch

Statuses == {"none", "active", "needs_relogin", "disabled"}
Errors   == {"none", "unauthorized", "other", "lease_lost"}
Places   == {"none", "start", "boot", "watch", "tick", "reauth", "backoff",
             "mark", "done"}

Row    == [status : Statuses, holder : Replicas \cup {NoHolder},
           epoch : 0..MaxEpoch, live : BOOLEAN, token : 0..MaxToken]
Crew   == [issued : 0..MaxToken, accepted : SUBSET Tokens,
           origin : [0..MaxToken -> 0..MaxToken]]
Runner == [at : Places, by : Replicas \cup {NoHolder},
           token : 0..MaxToken,      \* Run's variable: what the session started from
           client : 0..MaxToken,     \* the client's own, rotated by Crew
           rotated : 0..MaxToken,    \* a rotation persistToken has not stored yet, or 0
           cancelled : BOOLEAN, retriedAuth : BOOLEAN,
           watchErr : Errors]        \* none while the watcher runs, then lastErr

\* A runner outside any session: all it has is a token or a pending rotation.
Bare(place, r, t, rotated) ==
    [at |-> place, by |-> r, token |-> t, client |-> 0, rotated |-> rotated,
     cancelled |-> FALSE, retriedAuth |-> FALSE, watchErr |-> "none"]

NoRunner == Bare("none", NoHolder, 0, 0)

\* The places where a runner uses its Crew client.
InSession == {"boot", "watch", "tick"}

TypeOK ==
    /\ row \in [Conns -> Row]
    /\ crew \in [Conns -> Crew]
    /\ at \in [Replicas -> 
             {"idle", "reap", "renew", "stopping", "down"}]
    /\ todo \in [Replicas -> SUBSET Conns]
    /\ deadline \in [Replicas -> {"armed", "fired", "spent"}]
    /\ held \in [Replicas -> [Conns -> 0..MaxEpoch]]
    /\ runner \in [Conns -> [Epochs -> Runner]]
    /\ login \in [Conns -> 0..MaxToken]
    /\ lost \in [Conns -> BOOLEAN]

Init ==
    /\ row = [c \in Conns |-> [status |-> "none", holder |-> NoHolder,
                               epoch |-> 0, live |-> FALSE, token |-> Wiped]]
    /\ crew = [c \in Conns |-> [issued |-> 0, accepted |-> {},
                                origin |-> [t \in 0..MaxToken |-> 0]]]
    /\ at = [r \in Replicas |-> "idle"]
    /\ todo = [r \in Replicas |-> {}]
    /\ deadline = [r \in Replicas |-> "armed"]
    /\ held = [r \in Replicas |-> [c \in Conns |-> 0]]
    /\ runner = [c \in Conns |-> [e \in Epochs |-> NoRunner]]
    /\ login = [c \in Conns |-> 0]
    /\ lost = [c \in Conns |-> FALSE]

schedVars == <<at, todo, deadline, held>>
history   == <<login, lost>>

-----------------------------------------------------------------------------
(* The row and the statements that change it.                              *)

\* Broken: the fence compares holders only.
MatchesHolderOnly(c, r, e) == row[c].holder = r /\ r # NoHolder

\* WHERE lease_holder = $2 AND lease_epoch = $3
Matches(c, r, e) == row[c].holder = r /\ row[c].epoch = e /\ r # NoHolder

\* The fence of a runner's statements and of the scheduler's.
Fenced(c, e) == Matches(c, runner[c][e].by, e)
Owns(r, c)   == Matches(c, r, held[r][c])

Held(r) == {c \in Conns : held[r][c] # 0}

\* Broken: a release writes '' instead of NULL.
ReleasedToEmpty(x) == [x EXCEPT !.holder = "", !.live = FALSE]

Released(x) == [x EXCEPT !.holder = NoHolder, !.live = FALSE]

\* The tokens Crew accepts once t has been replaced by, or joined by, u.
Issue(c, u, from, keep) ==
    [crew EXCEPT ![c] = [issued |-> u, accepted |-> keep \cup {u},
                         origin |-> [@.origin EXCEPT ![u] = from]]]

\* UpsertConnection, called by finalize: a login opens a Crew session of its
\* own, stores its token, makes the row active and releases any lease.  The
\* epoch stays.
Login(c) ==
    LET t == crew[c].issued + 1 IN
    /\ t \in Tokens
    /\ crew' = Issue(c, t, t, crew[c].accepted)
    /\ row' = [row EXCEPT ![c] = [Released(@) EXCEPT !.status = "active",
                                                     !.token = t]]
    /\ login' = [login EXCEPT ![c] = t]
    /\ lost' = [lost EXCEPT ![c] = FALSE]
    /\ UNCHANGED <<schedVars, runner>>

\* DisableConnection, from DELETE /api/crew/connection.  The lease stays.
Disable(c) ==
    /\ row[c].status # "none"
    /\ row' = [row EXCEPT ![c].status = "disabled", ![c].token = Wiped]
    /\ UNCHANGED <<crew, schedVars, runner, history>>

\* lease_expires_at passes.
Expire(c) ==
    /\ row[c].live
    /\ row' = [row EXCEPT ![c].live = FALSE]
    /\ UNCHANGED <<crew, schedVars, runner, history>>

\* Crew ends a session for reasons of its own.
Revoke(c) ==
    \E t \in crew[c].accepted :
        /\ crew' = [crew EXCEPT ![c].accepted = @ \ {t}]
        /\ lost' = [lost EXCEPT ![c] = @ \/ crew[c].origin[t] = login[c]]
        /\ UNCHANGED <<row, schedVars, runner, login>>

-----------------------------------------------------------------------------
(* A runner: the goroutine Run of the claim with epoch e of connection c.  *)

\* Broken: the callback's context is the runner's, so a cancelled runner's
\* rotation is dropped.
FinishedForgetting(x) == Bare("done", x.by, 0, 0)

\* Run returns.  The rotation callback, if one is in flight on the SDK's poll
\* goroutine, still runs (its context is not the runner's).
Finished(x) == Bare("done", x.by, 0, x.rotated)

\* A new session: client built from token t, nothing recorded in lastErr.
Session(x, t) == [x EXCEPT !.at = "boot", !.token = t, !.client = t,
                           !.watchErr = "none"]

\* What Run does with the error a session ended with.
SessionEnded(x, err) ==
    CASE x.cancelled \/ err = "lease_lost" -> Finished(x)
      [] ~x.cancelled /\ err = "unauthorized" /\ ~x.retriedAuth ->
            [x EXCEPT !.at = "reauth", !.retriedAuth = TRUE]
      [] ~x.cancelled /\ err = "unauthorized" /\ x.retriedAuth ->
            [x EXCEPT !.at = "mark"]
      [] OTHER -> [x EXCEPT !.at = "backoff"]

Become(c, e, x) == runner' = [runner EXCEPT ![c][e] = x]

\* The client's next call is refused.
Refused(c, e) == runner[c][e].client \notin crew[c].accepted

\* Run decrypts the token the claim returned.
Begin(c, e) ==
    /\ runner[c][e].at = "start"
    /\ Become(c, e, IF runner[c][e].token = Wiped
                    THEN [runner[c][e] EXCEPT !.at = "mark"]
                    ELSE Session(runner[c][e], runner[c][e].token))
    /\ UNCHANGED <<row, crew, schedVars, history>>

\* Crew answers a call and replaces the client's token.  The callback
\* persistToken runs inside the call that rotated.
Rotate(c, e) ==
    LET x == runner[c][e]
        t == crew[c].issued + 1
    IN  /\ x.at \in InSession
        /\ x.rotated = 0
        /\ ~Refused(c, e)
        /\ t \in Tokens
        /\ crew' = Issue(c, t, crew[c].origin[x.client],
                         crew[c].accepted \ {x.client})
        /\ Become(c, e, [x EXCEPT !.client = t, !.rotated = t])
        /\ UNCHANGED <<row, schedVars, history>>

\* The token x.rotated is known to nobody but this client from here on.
RotationLost(c, x) ==
    lost' = [lost EXCEPT ![c] = @ \/ crew[c].origin[x.rotated] = login[c]]

\* Broken: the rotation is stored without the fence.
PersistUnfenced(c, e) ==
    LET x == runner[c][e] IN
    /\ x.rotated # 0
    /\ row' = [row EXCEPT ![c].token = x.rotated]
    /\ Become(c, e, [x EXCEPT !.rotated = 0])
    /\ UNCHANGED <<crew, schedVars, history>>

\* persistToken: PersistRotatedToken under the fence.
Persist(c, e) ==
    LET x == runner[c][e] IN
    /\ x.rotated # 0
    /\ IF Fenced(c, e)
       THEN /\ row' = [row EXCEPT ![c].token = x.rotated]
            /\ Become(c, e, [x EXCEPT !.rotated = 0])
            /\ UNCHANGED lost
       ELSE /\ Become(c, e, [x EXCEPT !.rotated = 0, !.watchErr =
                               IF @ = "none" THEN @ ELSE "lease_lost"])
            /\ RotationLost(c, x)
            /\ UNCHANGED row
    /\ UNCHANGED <<crew, schedVars, login>>

\* persistToken after its third database error.
PersistGivesUp(c, e) ==
    LET x == runner[c][e] IN
    /\ x.rotated # 0
    /\ Become(c, e, [x EXCEPT !.rotated = 0])
    /\ RotationLost(c, x)
    /\ UNCHANGED <<row, crew, schedVars, login>>

\* session: reconcile and StartWatching succeed.  They run on the runner's own
\* goroutine, which waits for a rotation of its own.
Boot(c, e) ==
    /\ runner[c][e].at = "boot"
    /\ runner[c][e].rotated = 0
    /\ ~Refused(c, e)
    /\ Become(c, e, [runner[c][e] EXCEPT !.at = "watch"])
    /\ UNCHANGED <<row, crew, schedVars, history>>

\* session: reconcile or StartWatching fails.
BootFails(c, e) ==
    /\ runner[c][e].at = "boot"
    /\ runner[c][e].rotated = 0
    /\ \E err \in {"unauthorized", "other"} :
        /\ err = "unauthorized" => Refused(c, e)
        /\ Become(c, e, SessionEnded(runner[c][e], err))
    /\ UNCHANGED <<row, crew, schedVars, history>>

\* The SDK's poll is refused: OnWatchError records it and the watcher stops,
\* so what lastErr held before does not matter.
WatcherStops(c, e) ==
    /\ runner[c][e].at \in {"watch", "tick"}
    /\ runner[c][e].watchErr = "none"
    /\ Refused(c, e)
    /\ Become(c, e, [runner[c][e] EXCEPT !.watchErr = "unauthorized"])
    /\ UNCHANGED <<row, crew, schedVars, history>>

\* refreshSnapshot fails after the watcher stopped: lastErr is overwritten
\* before session reads it.
CallFails(c, e) ==
    /\ runner[c][e].at \in {"watch", "tick"}
    /\ runner[c][e].watchErr # "none"
    /\ \E err \in {"unauthorized", "other"} :
        /\ err = "unauthorized" => Refused(c, e)
        /\ Become(c, e, [runner[c][e] EXCEPT !.watchErr = err])
    /\ UNCHANGED <<row, crew, schedVars, history>>

\* session: case <-client.WatchDone(), which returns the last error recorded.
WatchDone(c, e) ==
    /\ runner[c][e].at = "watch"
    /\ runner[c][e].watchErr # "none"
    /\ Become(c, e, SessionEnded(runner[c][e], runner[c][e].watchErr))
    /\ UNCHANGED <<row, crew, schedVars, history>>

\* session: case <-ticker.C up to the status check; a database error skips it.
TickStatus(c, e) ==
    LET x == runner[c][e] IN
    /\ x.at = "watch"
    /\ \/ /\ Fenced(c, e) /\ row[c].status # "disabled"
          /\ Become(c, e, [x EXCEPT !.at = "tick"])
       \/ /\ ~Fenced(c, e) \/ row[c].status = "disabled"
          /\ Become(c, e, Finished(x))
    /\ UNCHANGED <<row, crew, schedVars, history>>

TickStatusError(c, e) ==
    /\ runner[c][e].at = "watch"
    /\ Become(c, e, [runner[c][e] EXCEPT !.at = "tick"])
    /\ UNCHANGED <<row, crew, schedVars, history>>

\* session: the end of the tick, TouchPolled.
Touch(c, e) ==
    /\ runner[c][e].at = "tick"
    /\ Become(c, e, IF Fenced(c, e) THEN [runner[c][e] EXCEPT !.at = "watch"]
                                    ELSE Finished(runner[c][e]))
    /\ UNCHANGED <<row, crew, schedVars, history>>

TouchError(c, e) ==
    /\ runner[c][e].at = "tick"
    /\ Become(c, e, [runner[c][e] EXCEPT !.at = "watch"])
    /\ UNCHANGED <<row, crew, schedVars, history>>

\* rereadToken returns a token: the fence holds and the row decrypts.
Reread(c, e) == Fenced(c, e) /\ row[c].token # Wiped

\* Run, first 401: re-read the stored token once and retry if it is another.
Reauth(c, e) ==
    LET x == runner[c][e] IN
    /\ x.at = "reauth"
    /\ Become(c, e, IF Reread(c, e) /\ row[c].token # x.token
                    THEN Session(x, row[c].token)
                    ELSE [x EXCEPT !.at = "mark"])
    /\ UNCHANGED <<row, crew, schedVars, history>>

ReauthError(c, e) ==
    /\ runner[c][e].at = "reauth"
    /\ Become(c, e, [runner[c][e] EXCEPT !.at = "mark"])
    /\ UNCHANGED <<row, crew, schedVars, history>>

\* Broken: the next session starts from the token the last one started from.
RetryOldToken(c, e) ==
    LET x == runner[c][e] IN
    /\ x.at = "backoff"
    /\ Become(c, e, IF Reread(c, e) THEN Session(x, x.token) ELSE Finished(x))
    /\ UNCHANGED <<row, crew, schedVars, history>>

\* Run, any other error, after the backoff: go on from the stored token.
Retry(c, e) ==
    LET x == runner[c][e] IN
    /\ x.at = "backoff"
    /\ Become(c, e, IF Reread(c, e) THEN Session(x, row[c].token)
                                    ELSE Finished(x))
    /\ UNCHANGED <<row, crew, schedVars, history>>

RetryError(c, e) ==
    /\ runner[c][e].at = "backoff"
    /\ Become(c, e, Finished(runner[c][e]))
    /\ UNCHANGED <<row, crew, schedVars, history>>

\* Broken: the row is flagged without the fence.
MarkUnfenced(c, e) ==
    /\ runner[c][e].at = "mark"
    /\ row' = [row EXCEPT ![c] = [Released(@) EXCEPT
                                     !.status = "needs_relogin"]]
    /\ Become(c, e, Finished(runner[c][e]))
    /\ UNCHANGED <<crew, schedVars, history>>

\* markNeedsRelogin; the push that follows it changes no state here.
MarkNeedsRelogin(c, e) ==
    /\ runner[c][e].at = "mark"
    /\ row' = IF Fenced(c, e)
              THEN [row EXCEPT ![c] = [Released(@) EXCEPT
                                          !.status = "needs_relogin"]]
              ELSE row
    /\ Become(c, e, Finished(runner[c][e]))
    /\ UNCHANGED <<crew, schedVars, history>>

MarkError(c, e) ==
    /\ runner[c][e].at = "mark"
    /\ Become(c, e, Finished(runner[c][e]))
    /\ UNCHANGED <<row, crew, schedVars, history>>

\* A cancelled context ends the session or the backoff.
Stop(c, e) ==
    /\ runner[c][e].cancelled
    /\ runner[c][e].at \in InSession \cup {"backoff"}
    /\ runner[c][e].at = "boot" => runner[c][e].rotated = 0
    /\ Become(c, e, Finished(runner[c][e]))
    /\ UNCHANGED <<row, crew, schedVars, history>>

-----------------------------------------------------------------------------
(* The scheduler of replica r.                                             *)

\* Run enters pass, on its ticker or on Nudge.
StartPass(r) ==
    /\ at[r] = "idle"
    /\ at' = [at EXCEPT ![r] = "reap"]
    /\ todo' = [todo EXCEPT ![r] = Held(r)]
    /\ UNCHANGED <<row, crew, deadline, held, runner, history>>

Forget(r, c) == held' = [held EXCEPT ![r][c] = 0]

\* pass: one turn of the reaping loop.  ReleaseLease may fail; nobody looks.
Reap(r, c) ==
    /\ at[r] = "reap"
    /\ c \in todo[r]
    /\ todo' = [todo EXCEPT ![r] = @ \ {c}]
    /\ IF runner[c][held[r][c]].at = "done"
       THEN /\ row' \in {row} \cup
                 (IF Owns(r, c) THEN {[row EXCEPT ![c] = Released(@)]} ELSE {})
            /\ Forget(r, c)
       ELSE UNCHANGED <<row, held>>
    /\ UNCHANGED <<crew, at, deadline, runner, history>>

StartRenewing(r) ==
    /\ at[r] = "reap"
    /\ todo[r] = {}
    /\ at' = [at EXCEPT ![r] = "renew"]
    /\ todo' = [todo EXCEPT ![r] = Held(r)]
    /\ UNCHANGED <<row, crew, deadline, held, runner, history>>

\* Broken: a disabled connection's lease is renewed.
RenewableAnyStatus(r, c) == Owns(r, c)

\* RenewLease: fenced, and only while the row is active; the expiry is not
\* looked at, so a lease nobody took meanwhile is revived.
Renewable(r, c) == Owns(r, c) /\ row[c].status = "active"

Cancel(r, c) ==
    runner' = [runner EXCEPT ![c][held[r][c]].cancelled =
                 @ \/ runner[c][held[r][c]].at # "done"]

\* pass: one turn of the renewing loop.  A lost lease cancels the runner and
\* forgets it; nobody waits for it to return.
Renew(r, c) ==
    /\ at[r] = "renew"
    /\ c \in todo[r]
    /\ todo' = [todo EXCEPT ![r] = @ \ {c}]
    /\ IF Renewable(r, c)
       THEN /\ row' = [row EXCEPT ![c].live = TRUE]
            /\ UNCHANGED <<held, runner>>
       ELSE /\ Cancel(r, c)
            /\ Forget(r, c)
            /\ UNCHANGED row
    /\ UNCHANGED <<crew, at, deadline, history>>

\* RenewLease fails: the runner is kept until the next pass.
RenewError(r, c) ==
    /\ at[r] = "renew"
    /\ c \in todo[r]
    /\ todo' = [todo EXCEPT ![r] = @ \ {c}]
    /\ UNCHANGED <<row, crew, at, deadline, held, runner, history>>

\* Broken: an expired lease is not up for claiming.
ClaimableReleased(c) ==
    /\ row[c].status = "active"
    /\ row[c].holder = NoHolder
    /\ row[c].epoch < MaxEpoch

\* ClaimLeases' WHERE clause.  Every connection has a family: finalize calls
\* EnsureFamily before UpsertConnection.
Claimable(c) ==
    /\ row[c].status = "active"
    /\ row[c].holder = NoHolder \/ ~row[c].live
    /\ row[c].epoch < MaxEpoch

\* Broken: the limit does not count what is held already.
BatchesUpToMax(r) ==
    LET able == {c \in Conns : Claimable(c)} IN
    {S \in SUBSET able : Cardinality(S) <= MaxPerReplica}

\* ORDER BY lease_expires_at NULLS FIRST LIMIT: released rows before expired.
\* With no room left the pass returns before claiming: the one batch is {}.
Batches(r) ==
    LET able == {c \in Conns : Claimable(c)}
        free == {c \in able : row[c].holder = NoHolder}
        room == MaxPerReplica - Cardinality(Held(r))
    IN  IF MaxPerReplica = 0
        THEN {able}
        ELSE {S \in SUBSET able :
                /\ Cardinality(S) <= room
                /\ Cardinality(S) = room \/ S = able
                /\ S \subseteq free \/ free \subseteq S}

Claimed(r, S) ==
    [c \in Conns |-> IF c \in S
        THEN [row[c] EXCEPT !.holder = r, !.epoch = @ + 1, !.live = TRUE]
        ELSE row[c]]

NewRunner(r, c) == Bare("start", r, row[c].token, 0)

\* Broken: a claimed connection gets a new runner even if it has one.
ClaimRestarting(r) ==
    /\ at[r] = "renew"
    /\ todo[r] = {}
    /\ \E S \in Batches(r) :
        /\ row' = Claimed(r, S)
        /\ held' = [held EXCEPT ![r] = [c \in Conns |->
                      IF c \in S THEN row[c].epoch + 1 ELSE @[c]]]
        /\ runner' = [c \in Conns |-> IF c \in S
                      THEN [runner[c] EXCEPT ![row[c].epoch + 1] = NewRunner(r, c)]
                      ELSE runner[c]]
    /\ at' = [at EXCEPT ![r] = "idle"]
    /\ UNCHANGED <<crew, todo, deadline, history>>

\* pass, once every lease had its turn: ClaimLeases, and startRunner for every
\* row it returned but for the connections still in s.held, whose runner keeps
\* its old lease.
Claim(r) ==
    /\ at[r] = "renew"
    /\ todo[r] = {}
    /\ \E S \in Batches(r) :
        LET new == S \ Held(r) IN
        /\ row' = Claimed(r, S)
        /\ held' = [held EXCEPT ![r] = [c \in Conns |->
                      IF c \in new THEN row[c].epoch + 1 ELSE @[c]]]
        /\ runner' = [c \in Conns |-> IF c \in new
                      THEN [runner[c] EXCEPT ![row[c].epoch + 1] = NewRunner(r, c)]
                      ELSE runner[c]]
    /\ at' = [at EXCEPT ![r] = "idle"]
    /\ UNCHANGED <<crew, todo, deadline, history>>

\* pass: ClaimLeases returns an error.  The statement may have committed: then
\* rows are leased to a replica that never hears of it.
ClaimError(r) ==
    /\ at[r] = "renew"
    /\ todo[r] = {}
    /\ row' \in {row} \cup {Claimed(r, S) : S \in Batches(r)}
    /\ at' = [at EXCEPT ![r] = "idle"]
    /\ UNCHANGED <<crew, todo, deadline, held, runner, history>>

\* shutdown cancels every runner and starts its deadline.
Shutdown(r) ==
    /\ at[r] = "idle"
    /\ at' = [at EXCEPT ![r] = "stopping"]
    /\ todo' = [todo EXCEPT ![r] = Held(r)]
    /\ runner' = [c \in Conns |-> [e \in Epochs |->
                    IF held[r][c] = e /\ runner[c][e].at # "done"
                    THEN [runner[c][e] EXCEPT !.cancelled = TRUE]
                    ELSE runner[c][e]]]
    /\ UNCHANGED <<row, crew, deadline, held, history>>

DeadlinePasses(r) ==
    /\ at[r] = "stopping"
    /\ todo[r] # {}
    /\ deadline[r] = "armed"
    /\ deadline' = [deadline EXCEPT ![r] = "fired"]
    /\ UNCHANGED <<row, crew, at, todo, held, runner, history>>

\* shutdown: one turn of its loop.  The lease is released when the runner is
\* done, or on the one value the timer delivers; the statement may fail.
ShutdownRelease(r, c) ==
    /\ at[r] = "stopping"
    /\ c \in todo[r]
    /\ \/ runner[c][held[r][c]].at = "done" /\ UNCHANGED deadline
       \/ deadline[r] = "fired" /\ deadline' = [deadline EXCEPT ![r] = "spent"]
    /\ todo' = [todo EXCEPT ![r] = @ \ {c}]
    /\ row' \in {row} \cup
         (IF Owns(r, c) THEN {[row EXCEPT ![c] = Released(@)]} ELSE {})
    /\ Forget(r, c)
    /\ UNCHANGED <<crew, at, runner, history>>

\* The process ends, after shutdown or at any moment; its goroutines with it.
Halt(r) ==
    /\ at[r] # "down"
    /\ at' = [at EXCEPT ![r] = "down"]
    /\ todo' = [todo EXCEPT ![r] = {}]
    /\ deadline' = [deadline EXCEPT ![r] = "armed"]
    /\ held' = [held EXCEPT ![r] = [c \in Conns |-> 0]]
    /\ runner' = [c \in Conns |-> [e \in Epochs |->
                    IF runner[c][e].by = r
                    THEN Bare("done", r, 0, 0)
                    ELSE runner[c][e]]]
    /\ lost' = [c \in Conns |-> lost[c] \/
                  \E e \in Epochs : /\ runner[c][e].by = r
                                    /\ runner[c][e].rotated # 0
                                    /\ crew[c].origin[runner[c][e].rotated] = login[c]]
    /\ UNCHANGED <<row, crew, login>>

-----------------------------------------------------------------------------
Environment(c) == Login(c) \/ Disable(c) \/ Expire(c) \/ Revoke(c)

RunnerStep(c, e) ==
    \/ Begin(c, e) \/ Rotate(c, e) \/ Persist(c, e) \/ PersistGivesUp(c, e)
    \/ Boot(c, e) \/ BootFails(c, e) \/ CallFails(c, e) \/ WatcherStops(c, e)
    \/ WatchDone(c, e) \/ TickStatus(c, e) \/ TickStatusError(c, e)
    \/ Touch(c, e) \/ TouchError(c, e) \/ Reauth(c, e) \/ ReauthError(c, e)
    \/ Retry(c, e) \/ RetryError(c, e) \/ MarkNeedsRelogin(c, e)
    \/ MarkError(c, e) \/ Stop(c, e)

SchedulerConn(r, c) ==
    Reap(r, c) \/ Renew(r, c) \/ RenewError(r, c) \/ ShutdownRelease(r, c)

Scheduler(r) ==
    \/ StartPass(r) \/ StartRenewing(r)
    \/ Claim(r) \/ ClaimError(r)
    \/ Shutdown(r) \/ DeadlinePasses(r) \/ Halt(r)

Next ==
    \/ \E c \in Conns : Environment(c)
    \/ \E c \in Conns, e \in Epochs : RunnerStep(c, e)
    \/ \E r \in Replicas, c \in Conns : SchedulerConn(r, c)
    \/ \E r \in Replicas : Scheduler(r)

Spec == Init /\ [][Next]_vars

\* The scheduler's loop and the runners' goroutines run; a database that fails
\* now and then does not fail every renewal or every claim; a lease that is not
\* renewed expires.  Nothing is assumed of users, of Crew or of crashes, nor
\* that a call of the session ever succeeds.
RunnerProgress(c, e) ==
    \/ Begin(c, e) \/ Persist(c, e) \/ PersistGivesUp(c, e)
    \/ Boot(c, e) \/ BootFails(c, e) \/ WatchDone(c, e)
    \/ Reauth(c, e) \/ Retry(c, e) \/ MarkNeedsRelogin(c, e)

PassProgress(r) ==
    StartPass(r) \/ StartRenewing(r) \/ \E c \in Conns : Reap(r, c)

Fairness ==
    /\ \A c \in Conns : WF_vars(Expire(c))
    /\ \A c \in Conns, e \in Epochs :
        WF_vars(RunnerProgress(c, e)) /\ WF_vars(Stop(c, e))
    /\ \A r \in Replicas :
        /\ WF_vars(PassProgress(r))
        /\ SF_vars(Claim(r))
        /\ \A c \in Conns : SF_vars(Renew(r, c))

FairSpec == Spec /\ Fairness

-----------------------------------------------------------------------------
(* Safety.                                                                 *)

\* A user logs in again because the old Crew session is of no use: nothing the
\* runners of earlier claims still do (a rotation in flight, a late write of a
\* replica that lost its lease) replaces the new token by one of that session.
ActiveTokenIsFromLatestLogin ==
    \A c \in Conns : row[c].status = "active" =>
        /\ row[c].token # Wiped
        /\ crew[c].origin[row[c].token] = login[c]

\* The row always holds the token Crew accepts, or the rotation that replaces
\* it is still on its way to the row, unless the login has been lost: ended by
\* Crew, or rotated by a client that could not store the result.
StoredTokenUsable ==
    \A c \in Conns : row[c].status = "active" /\ ~lost[c] =>
        \/ row[c].token \in crew[c].accepted
        \/ \E e \in Epochs : /\ runner[c][e].rotated \in crew[c].accepted
                             /\ crew[c].origin[runner[c][e].rotated] = login[c]

\* A runner whose fence holds works with the token in the row, or is about to
\* store the one it works with: no two tokens of one login are both in use by
\* the owner and in the row.
OwnerUsesStoredToken ==
    \A c \in Conns, e \in Epochs :
        /\ runner[c][e].at \in InSession
        /\ Fenced(c, e)
        /\ row[c].status = "active"
        /\ ~lost[c]
        => runner[c][e].client \in {row[c].token, runner[c][e].rotated}

\* The user is told to log in again only if the stored token is dead: a 401
\* that a stale client caused for itself, or a re-login racing with it, never
\* takes a working connection out of service.
NoFalseAlarm ==
    [][\A c \in Conns :
        row[c].status = "active" /\ row'[c].status = "needs_relogin"
        => row[c].token \notin crew[c].accepted]_vars

\* No runner is leaked: one that still runs and was not told to stop is the
\* one its scheduler renews, so losing the lease, disconnecting and shutting
\* down can all reach it.
RunnersAreTracked ==
    \A c \in Conns, e \in Epochs :
        runner[c][e].at \notin {"none", "done"} /\ ~runner[c][e].cancelled
        => held[runner[c][e].by][c] = e

\* A replica never takes care of more connections than it was configured for,
\* whatever it claims in the passes where renewals fail.
WithinLimit ==
    MaxPerReplica # 0 =>
        \A r \in Replicas : Cardinality(Held(r)) <= MaxPerReplica
-----------------------------------------------------------------------------
(* A statement of the repository that the code does not keep.              *)

\* "DisableConnection [...] wipes the stored token" (connections.go:101): a
\* disconnected user's row holds no token.
DisabledHasNoToken ==
    \A c \in Conns : row[c].status = "disabled" => row[c].token = Wiped

-----------------------------------------------------------------------------
(* The inductive invariant behind ActiveTokenIsFromLatestLogin.            *)

\* A runner's slot is its epoch, and epochs are only handed out by claims.
SlotsFollowEpoch ==
    \A c \in Conns, e \in Epochs :
        /\ runner[c][e].at = "none" =>
               runner[c][e].rotated = 0 /\ runner[c][e].by = NoHolder
        /\ runner[c][e].at # "none" => e <= row[c].epoch

\* No token is used before Crew issued it.
TokensAreIssued ==
    \A c \in Conns :
        /\ row[c].token <= crew[c].issued
        /\ \A e \in Epochs : /\ runner[c][e].token <= crew[c].issued
                              /\ runner[c][e].client <= crew[c].issued
                              /\ runner[c][e].rotated <= crew[c].issued

\* Whatever a runner could still write under its fence is of the latest login.
FencedLineage ==
    \A c \in Conns, e \in Epochs :
        Fenced(c, e) /\ row[c].status = "active" =>
            /\ runner[c][e].at = "start" =>
                    crew[c].origin[runner[c][e].token] = login[c]
            /\ runner[c][e].at \in InSession =>
                    crew[c].origin[runner[c][e].client] = login[c]
            /\ runner[c][e].rotated # 0 =>
                    crew[c].origin[runner[c][e].rotated] = login[c]

LeaseInv ==
    /\ SlotsFollowEpoch
    /\ TokensAreIssued
    /\ FencedLineage
    /\ ActiveTokenIsFromLatestLogin

-----------------------------------------------------------------------------
(* The inductive invariant behind StoredTokenUsable, OwnerUsesStoredToken  *)
(* and NoFalseAlarm.                                                       *)

\* Crew accepts at most one of the tokens that stem from one login, and none it
\* has not issued.
OneTokenPerLogin ==
    \A c \in Conns :
        /\ \A t \in crew[c].accepted : t <= crew[c].issued
        /\ \A t \in 0..MaxToken : crew[c].origin[t] <= crew[c].issued
        /\ \A t, u \in crew[c].accepted :
             crew[c].origin[t] = crew[c].origin[u] => t = u

\* A rotation that is not stored yet is known to the client that made it, and to
\* nobody else.
InFlightIsPrivate ==
    \A c \in Conns, e \in Epochs :
        LET t == runner[c][e].rotated IN
        t # 0 => /\ row[c].token # t
                 /\ \A f \in Epochs \ {e} :
                      t \notin {runner[c][f].token, runner[c][f].client, runner[c][f].rotated}

\* While it is good, its client works with it, or its runner has returned.  As
\* long as the login is not lost it is good.
InFlightIsInUse ==
    \A c \in Conns, e \in Epochs :
        LET x == runner[c][e] IN
        x.rotated # 0 =>
            /\ x.at # "start"
            /\ x.rotated \in crew[c].accepted =>
                 x.at = "done" \/ (x.at \in InSession /\ x.client = x.rotated)
            /\ crew[c].origin[x.rotated] = login[c] /\ ~lost[c] =>
                 x.rotated \in crew[c].accepted

\* A watcher stops when its token is refused.
StoppedIsRefused ==
    \A c \in Conns, e \in Epochs :
        runner[c][e].at \in InSession /\ runner[c][e].watchErr # "none" => Refused(c, e)

\* Whoever holds the fence starts from the row's token; if that one is good, it is
\* the one the client uses, and the runner is on no way to a new login.
OwnerKnowsBest ==
    \A c \in Conns, e \in Epochs :
        LET x == runner[c][e] IN
        Fenced(c, e) /\ row[c].status = "active" =>
            /\ x.at = "start" => x.token = row[c].token
            /\ x.at \in InSession /\ row[c].token \in crew[c].accepted =>
                 x.client = row[c].token
            /\ x.at \in {"reauth", "mark"} => row[c].token \notin crew[c].accepted

TokenInv ==
    /\ OneTokenPerLogin
    /\ InFlightIsPrivate
    /\ InFlightIsInUse
    /\ StoppedIsRefused
    /\ OwnerKnowsBest
    /\ StoredTokenUsable
    /\ OwnerUsesStoredToken

-----------------------------------------------------------------------------
(* The inductive invariant behind RunnersAreTracked.                       *)

Running(x) == x.at \notin {"none", "done"}

\* A runner nobody has cancelled is held by the replica that started it, and
\* that replica is not shutting down.
TrackInv ==
    \A c \in Conns, e \in Epochs :
        Running(runner[c][e]) =>
            /\ runner[c][e].by \in Replicas
            /\ ~runner[c][e].cancelled => /\ held[runner[c][e].by][c] = e
                                          /\ at[runner[c][e].by] # "stopping"

-----------------------------------------------------------------------------
(* Liveness, under FairSpec.                                               *)

Alive(r) == at[r] \notin {"stopping", "down"}

\* "The holding runner notices [a disconnect] within one poll tick and exits":
\* whatever the database does at the ticks, no client keeps using Crew for a
\* user who has disconnected.
DisconnectStopsRunner ==
    \A c \in Conns :
        row[c].status = "disabled"
        ~> \/ row[c].status # "disabled"
           \/ \A e \in Epochs : runner[c][e].at \notin InSession

\* A connection that stays good is watched again and again by a runner that
\* owns it, as long as one replica is up: no sequence of crashes, lost replies
\* to a claim, re-logins and failed renewals leaves it leased to nobody.
GoodConnectionIsWatched ==
    \A c \in Conns :
        /\ <>[](row[c].status = "active")
        /\ <>[](\E r \in Replicas : Alive(r))
        => []<>(\/ row[c].epoch = MaxEpoch
                \/ \E e \in Epochs : runner[c][e].at \in InSession /\ Fenced(c, e))
=============================================================================
