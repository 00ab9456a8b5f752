---------------------------- MODULE LeasesProofs ----------------------------
(***************************************************************************)
(* Proofs about Leases, for any number of connections, replicas, claims    *)
(* and tokens.                                                             *)
(***************************************************************************)
EXTENDS Leases, FiniteSetTheorems, TLAPS

\* Runners outside a session are runners.
LEMMA BareType ==
    ASSUME NEW place \in Places, NEW r \in Replicas \cup {NoHolder},
           NEW t \in 0..MaxToken, NEW rotated \in 0..MaxToken
    PROVE  Bare(place, r, t, rotated) \in Runner
  <1>1. 0 \in 0..MaxToken
    BY LeasesAssumption
  <1> QED
    BY <1>1 DEF Bare, Runner, Errors

\* The updates the actions are built from keep the types of the records.
LEMMA RunnerUpdates ==
    ASSUME NEW x \in Runner
    PROVE  /\ Finished(x) \in Runner
           /\ \A t \in 0..MaxToken : Session(x, t) \in Runner
           /\ \A err \in Errors : SessionEnded(x, err) \in Runner
           /\ [x EXCEPT !.at = "mark"] \in Runner
           /\ [x EXCEPT !.at = "watch"] \in Runner
           /\ [x EXCEPT !.at = "tick"] \in Runner
           /\ [x EXCEPT !.rotated = 0] \in Runner
           /\ \A err \in Errors : [x EXCEPT !.watchErr = err] \in Runner
  <1>1. Finished(x) \in Runner
    <2>1. x.by \in Replicas \cup {NoHolder} /\ x.rotated \in 0..MaxToken
      BY DEF Runner
    <2>2. 0 \in 0..MaxToken
      BY LeasesAssumption
    <2>3. "done" \in Places
      BY DEF Places
    <2> QED
      BY <2>1, <2>2, <2>3, BareType DEF Finished
  <1>2. ASSUME NEW t \in 0..MaxToken PROVE Session(x, t) \in Runner
    BY DEF Session, Runner, Places, Errors
  <1>3. ASSUME NEW err \in Errors PROVE SessionEnded(x, err) \in Runner
    <2>1. [x EXCEPT !.at = "reauth", !.retriedAuth = TRUE] \in Runner
      BY DEF Runner, Places
    <2>2. [x EXCEPT !.at = "mark"] \in Runner
      BY DEF Runner, Places
    <2>3. [x EXCEPT !.at = "backoff"] \in Runner
      BY DEF Runner, Places
    <2>4. x.cancelled \in BOOLEAN /\ x.retriedAuth \in BOOLEAN
      BY DEF Runner
    <2> QED
      BY <1>1, <2>1, <2>2, <2>3, <2>4 DEF SessionEnded
  <1>4. /\ [x EXCEPT !.at = "mark"] \in Runner
        /\ [x EXCEPT !.at = "watch"] \in Runner
        /\ [x EXCEPT !.at = "tick"] \in Runner
    BY DEF Runner, Places
  <1>5. [x EXCEPT !.rotated = 0] \in Runner
    BY LeasesAssumption DEF Runner
  <1>6. ASSUME NEW err \in Errors PROVE [x EXCEPT !.watchErr = err] \in Runner
    BY DEF Runner
  <1> QED
    BY <1>1, <1>2, <1>3, <1>4, <1>5, <1>6

\* A runner's step changes its own slot only.
LEMMA BecomeType ==
    ASSUME NEW c \in Conns, NEW e \in Epochs, NEW x \in Runner,
           runner \in [Conns -> [Epochs -> Runner]], Become(c, e, x)
    PROVE  runner' \in [Conns -> [Epochs -> Runner]]
  BY DEF Become

\* The constants that updates write.
LEMMA Literals ==
    /\ 0 \in 0..MaxToken /\ 0 \in 0..MaxEpoch /\ Wiped \in 0..MaxToken
    /\ "active" \in Statuses /\ "needs_relogin" \in Statuses
    /\ "disabled" \in Statuses /\ "none" \in Statuses
    /\ \A place \in {"none", "start", "boot", "watch", "tick", "reauth",
                     "backoff", "mark", "done"} : place \in Places
    /\ \A err \in {"none", "unauthorized", "other", "lease_lost"} : err \in Errors
  BY LeasesAssumption DEF Wiped, Statuses, Places, Errors

\* The updates of a row.
LEMMA RowUpdates ==
    ASSUME NEW x \in Row
    PROVE  /\ \A s \in Statuses : [x EXCEPT !.status = s] \in Row
           /\ \A t \in 0..MaxToken : [x EXCEPT !.token = t] \in Row
           /\ \A s \in Statuses, t \in 0..MaxToken :
                [x EXCEPT !.status = s, !.token = t] \in Row
           /\ \A b \in BOOLEAN : [x EXCEPT !.live = b] \in Row
           /\ \A r \in Replicas, n \in 0..MaxEpoch :
                [x EXCEPT !.holder = r, !.epoch = n, !.live = TRUE] \in Row
  BY DEF Row

\* A released row is a row.
LEMMA ReleasedType ==
    ASSUME NEW x \in Row
    PROVE  Released(x) \in Row
  BY DEF Released, Row

\* Crew's bookkeeping stays well formed when it issues the next token.
LEMMA IssueType ==
    ASSUME NEW c \in Conns, NEW u \in Tokens, NEW from \in 0..MaxToken,
           NEW keep \in SUBSET Tokens, crew \in [Conns -> Crew]
    PROVE  Issue(c, u, from, keep) \in [Conns -> Crew]
  BY DEF Issue, Crew, Tokens

\* What a batch of claims does to the rows keeps them rows: the bound on
\* epochs is in Claimable.
LEMMA ClaimedType ==
    ASSUME TypeOK, NEW r \in Replicas, NEW S \in Batches(r)
    PROVE  /\ S \subseteq Conns
           /\ \A c \in S : row[c].epoch + 1 \in Epochs
           /\ Claimed(r, S) \in [Conns -> Row]
  <1>1. S \subseteq {c \in Conns : Claimable(c)}
    BY DEF Batches
  <1>2. \A c \in S : row[c].epoch + 1 \in Epochs
    BY <1>1, LeasesAssumption DEF Claimable, TypeOK, Row, Epochs
  <1>3. ASSUME NEW c \in S
        PROVE  [row[c] EXCEPT !.holder = r, !.epoch = @ + 1, !.live = TRUE] \in Row
    <2>1. row[c].epoch + 1 \in 0..MaxEpoch
      BY <1>2, LeasesAssumption DEF Epochs
    <2>2. row[c] \in Row
      BY <1>1 DEF TypeOK
    <2> QED
      BY <2>1, <2>2, RowUpdates
  <1> QED
    BY <1>1, <1>2, <1>3 DEF Claimed, TypeOK

\* The initial state is well typed.
LEMMA InitType == Init => TypeOK
  <1> SUFFICES ASSUME Init PROVE TypeOK
    OBVIOUS
  <1>1. 0 \in 0..MaxToken /\ 0 \in 0..MaxEpoch
    BY LeasesAssumption
  <1>2. NoRunner \in Runner
    BY <1>1, BareType DEF NoRunner, Places
  <1>3. runner \in [Conns -> [Epochs -> Runner]]
    BY <1>2 DEF Init
  <1>4. row \in [Conns -> Row]
    BY <1>1 DEF Init, Row, Statuses, Wiped
  <1>5. crew \in [Conns -> Crew]
    BY <1>1 DEF Init, Crew
  <1>6. held \in [Replicas -> [Conns -> 0..MaxEpoch]]
    BY <1>1 DEF Init
  <1> QED
    BY <1>1, <1>3, <1>4, <1>5, <1>6 DEF Init, TypeOK

\* Users, Crew and the clock keep the types.
LEMMA EnvironmentType ==
    ASSUME TypeOK, NEW c \in Conns, Environment(c)
    PROVE  TypeOK'
  <1>1. CASE Login(c)
    <2> DEFINE t == crew[c].issued + 1
    <2>1. t \in Tokens /\ t \in 0..MaxToken
      BY <1>1, LeasesAssumption DEF Login, Tokens
    <2>2. crew[c].accepted \in SUBSET Tokens
      BY DEF TypeOK, Crew
    <2>3. crew' \in [Conns -> Crew]
      BY <1>1, <2>1, <2>2, IssueType DEF Login, TypeOK
    <2>4. [Released(row[c]) EXCEPT !.status = "active", !.token = t] \in Row
      BY <2>1, ReleasedType, RowUpdates, Literals DEF TypeOK
    <2>5. row' \in [Conns -> Row]
      BY <1>1, <2>4 DEF Login, TypeOK
    <2> QED
      BY <1>1, <2>1, <2>3, <2>5 DEF Login, TypeOK, schedVars
  <1>2. CASE Disable(c)
    <2>1. row' = [row EXCEPT ![c] =
                    [row[c] EXCEPT !.status = "disabled", !.token = Wiped]]
      BY <1>2 DEF Disable, TypeOK
    <2>2. row' \in [Conns -> Row]
      BY <2>1, RowUpdates, Literals DEF TypeOK
    <2> QED
      BY <1>2, <2>2 DEF Disable, TypeOK, schedVars, history
  <1>3. CASE Expire(c)
    <2>1. row' \in [Conns -> Row]
      <3>1. row' = [row EXCEPT ![c] = [row[c] EXCEPT !.live = FALSE]]
        BY <1>3 DEF Expire, TypeOK
      <3> QED
        BY <3>1, RowUpdates DEF TypeOK
    <2> QED
      BY <1>3, <2>1 DEF Expire, TypeOK, schedVars, history
  <1>4. CASE Revoke(c)
    <2>1. PICK t \in crew[c].accepted :
            /\ crew' = [crew EXCEPT ![c] =
                          [crew[c] EXCEPT !.accepted = crew[c].accepted \ {t}]]
            /\ lost' = [lost EXCEPT ![c] = @ \/ crew[c].origin[t] = login[c]]
      BY <1>4 DEF Revoke, TypeOK
    <2>2. [crew[c] EXCEPT !.accepted = crew[c].accepted \ {t}] \in Crew
      <3>1. crew[c] \in Crew
        BY DEF TypeOK
      <3>2. crew[c].accepted \ {t} \in SUBSET Tokens
        BY <3>1 DEF Crew
      <3> QED
        BY <3>1, <3>2 DEF Crew
    <2>3. crew' \in [Conns -> Crew]
      BY <2>1, <2>2 DEF TypeOK
    <2>4. lost' \in [Conns -> BOOLEAN]
      <3>1. (lost[c] \/ crew[c].origin[t] = login[c]) \in BOOLEAN
        OBVIOUS
      <3> QED
        BY <2>1, <3>1, Zenon DEF TypeOK
    <2> QED
      BY <1>4, <2>3, <2>4 DEF Revoke, TypeOK, schedVars
  <1> QED
    BY <1>1, <1>2, <1>3, <1>4 DEF Environment

\* Every step of a runner replaces its record by another record.
LEMMA RunnerStepType ==
    ASSUME TypeOK, NEW c \in Conns, NEW e \in Epochs, RunnerStep(c, e)
    PROVE  TypeOK'
  <1> DEFINE x == runner[c][e]
  <1>1. /\ x \in Runner
        /\ x.token \in 0..MaxToken /\ x.client \in 0..MaxToken
        /\ x.rotated \in 0..MaxToken /\ x.watchErr \in Errors
        /\ row[c] \in Row /\ row[c].token \in 0..MaxToken
    BY DEF TypeOK, Runner, Row
  <1> DEFINE Stays == UNCHANGED <<row, crew, schedVars, history>>
  <1>2. ASSUME NEW y \in Runner, Become(c, e, y), Stays
        PROVE  TypeOK'
    BY <1>2, BecomeType DEF TypeOK, schedVars, history
  <1>3. CASE Begin(c, e)
    BY <1>1, <1>2, <1>3, RunnerUpdates DEF Begin
  <1>4. CASE Rotate(c, e)
    <2> DEFINE t == crew[c].issued + 1
    <2>1. t \in Tokens /\ t \in 0..MaxToken
      BY <1>4, LeasesAssumption DEF Rotate, Tokens
    <2>2. /\ crew[c].origin[x.client] \in 0..MaxToken
          /\ crew[c].accepted \ {x.client} \in SUBSET Tokens
      BY <1>1 DEF TypeOK, Crew
    <2>3. crew' \in [Conns -> Crew]
      BY <1>4, <2>1, <2>2, IssueType DEF Rotate, TypeOK
    <2>4. [x EXCEPT !.client = t, !.rotated = t] \in Runner
      BY <1>1, <2>1 DEF Runner
    <2>5. runner' \in [Conns -> [Epochs -> Runner]]
      BY <1>4, <2>4, BecomeType DEF Rotate, TypeOK
    <2> QED
      BY <1>4, <2>3, <2>5 DEF Rotate, TypeOK, schedVars, history
  <1>5. ASSUME RotationLost(c, x)
        PROVE  lost' \in [Conns -> BOOLEAN]
    <2>1. (lost[c] \/ crew[c].origin[x.rotated] = login[c]) \in BOOLEAN
      OBVIOUS
    <2> QED
      BY <1>5, <2>1, Zenon DEF RotationLost, TypeOK
  <1>6. CASE Persist(c, e)
    <2>1. /\ [x EXCEPT !.rotated = 0] \in Runner
          /\ [x EXCEPT !.rotated = 0, !.watchErr =
                IF @ = "none" THEN @ ELSE "lease_lost"] \in Runner
      <3>1. \A err \in Errors : [x EXCEPT !.rotated = 0, !.watchErr = err] \in Runner
        BY <1>1, Literals DEF Runner
      <3> QED
        BY <1>1, <3>1, RunnerUpdates, Literals
    <2>2. runner' \in [Conns -> [Epochs -> Runner]]
      BY <1>6, <2>1, BecomeType DEF Persist, TypeOK
    <2>3. row' \in [Conns -> Row]
      <3>1. CASE row' = [row EXCEPT ![c].token = x.rotated]
        <4>1. row' = [row EXCEPT ![c] = [row[c] EXCEPT !.token = x.rotated]]
          BY <3>1 DEF TypeOK
        <4> QED
          BY <1>1, <4>1, RowUpdates DEF TypeOK
      <3>2. CASE UNCHANGED row
        BY <3>2 DEF TypeOK
      <3> QED
        BY <1>6, <3>1, <3>2 DEF Persist
    <2>4. lost' \in [Conns -> BOOLEAN]
      BY <1>5, <1>6 DEF Persist, TypeOK
    <2> QED
      BY <1>6, <2>2, <2>3, <2>4 DEF Persist, TypeOK, schedVars
  <1>7. CASE PersistGivesUp(c, e)
    <2>1. runner' \in [Conns -> [Epochs -> Runner]]
      BY <1>1, <1>7, RunnerUpdates, Literals, BecomeType DEF PersistGivesUp, TypeOK
    <2>2. lost' \in [Conns -> BOOLEAN]
      BY <1>5, <1>7 DEF PersistGivesUp
    <2> QED
      BY <1>7, <2>1, <2>2 DEF PersistGivesUp, TypeOK, schedVars
  <1>8. CASE Boot(c, e)
    BY <1>1, <1>2, <1>8, RunnerUpdates DEF Boot
  <1>9. CASE BootFails(c, e)
    BY <1>1, <1>2, <1>9, RunnerUpdates, Literals DEF BootFails
  <1>10. CASE WatcherStops(c, e)
    BY <1>1, <1>2, <1>10, RunnerUpdates, Literals DEF WatcherStops
  <1>11. CASE CallFails(c, e)
    BY <1>1, <1>2, <1>11, RunnerUpdates, Literals DEF CallFails
  <1>12. CASE WatchDone(c, e)
    BY <1>1, <1>2, <1>12, RunnerUpdates DEF WatchDone
  <1>13. CASE TickStatus(c, e)
    BY <1>1, <1>2, <1>13, RunnerUpdates DEF TickStatus
  <1>14. CASE TickStatusError(c, e)
    BY <1>1, <1>2, <1>14, RunnerUpdates DEF TickStatusError
  <1>15. CASE Touch(c, e)
    BY <1>1, <1>2, <1>15, RunnerUpdates DEF Touch
  <1>16. CASE TouchError(c, e)
    BY <1>1, <1>2, <1>16, RunnerUpdates DEF TouchError
  <1>17. CASE Reauth(c, e)
    BY <1>1, <1>2, <1>17, RunnerUpdates DEF Reauth
  <1>18. CASE ReauthError(c, e)
    BY <1>1, <1>2, <1>18, RunnerUpdates DEF ReauthError
  <1>19. CASE Retry(c, e)
    BY <1>1, <1>2, <1>19, RunnerUpdates DEF Retry
  <1>20. CASE RetryError(c, e)
    BY <1>1, <1>2, <1>20, RunnerUpdates DEF RetryError
  <1>21. CASE MarkNeedsRelogin(c, e)
    <2>1. [Released(row[c]) EXCEPT !.status = "needs_relogin"] \in Row
      BY <1>1, ReleasedType, RowUpdates, Literals
    <2>2. row' \in [Conns -> Row]
      BY <1>21, <2>1 DEF MarkNeedsRelogin, TypeOK
    <2>3. runner' \in [Conns -> [Epochs -> Runner]]
      BY <1>1, <1>21, RunnerUpdates, BecomeType DEF MarkNeedsRelogin, TypeOK
    <2> QED
      BY <1>21, <2>2, <2>3 DEF MarkNeedsRelogin, TypeOK, schedVars, history
  <1>22. CASE MarkError(c, e)
    BY <1>1, <1>2, <1>22, RunnerUpdates DEF MarkError
  <1>23. CASE Stop(c, e)
    BY <1>1, <1>2, <1>23, RunnerUpdates DEF Stop
  <1> QED
    BY <1>3, <1>4, <1>6, <1>7, <1>8, <1>9, <1>10, <1>11, <1>12, <1>13, <1>14,
       <1>15, <1>16, <1>17, <1>18, <1>19, <1>20, <1>21, <1>22, <1>23
       DEF RunnerStep

\* What Reap and ShutdownRelease may do to the rows.
LEMMA MayReleaseType ==
    ASSUME TypeOK, NEW r \in Replicas, NEW c \in Conns,
           row' \in {row} \cup
             (IF Owns(r, c) THEN {[row EXCEPT ![c] = Released(@)]} ELSE {})
    PROVE  row' \in [Conns -> Row]
  <1>1. CASE row' = row
    BY <1>1 DEF TypeOK
  <1>2. CASE row' = [row EXCEPT ![c] = Released(row[c])]
    BY <1>2, ReleasedType DEF TypeOK
  <1> QED
    BY <1>1, <1>2

\* Forgetting a lease keeps held a table of epochs.
LEMMA ForgetType ==
    ASSUME TypeOK, NEW r \in Replicas, NEW c \in Conns, Forget(r, c)
    PROVE  held' \in [Replicas -> [Conns -> 0..MaxEpoch]]
  BY Literals DEF Forget, TypeOK

\* The scheduler's steps for one lease keep the types.
LEMMA SchedulerConnType ==
    ASSUME TypeOK, NEW r \in Replicas, NEW c \in Conns, SchedulerConn(r, c)
    PROVE  TypeOK'
  <1>1. todo' = [todo EXCEPT ![r] = @ \ {c}] => todo' \in [Replicas -> SUBSET Conns]
    BY DEF TypeOK
  <1>2. CASE Reap(r, c)
    <2>1. /\ row' \in [Conns -> Row]
          /\ held' \in [Replicas -> [Conns -> 0..MaxEpoch]]
      BY <1>2, MayReleaseType, ForgetType DEF Reap, TypeOK
    <2> QED
      BY <1>1, <1>2, <2>1 DEF Reap, TypeOK, history
  <1>3. CASE Renew(r, c)
    <2>1. CASE Renewable(r, c)
      <3>1. row' = [row EXCEPT ![c] = [row[c] EXCEPT !.live = TRUE]]
        BY <1>3, <2>1 DEF Renew, TypeOK
      <3>2. row' \in [Conns -> Row]
        BY <3>1, RowUpdates DEF TypeOK
      <3> QED
        BY <1>1, <1>3, <2>1, <3>2 DEF Renew, TypeOK, history
    <2>2. CASE ~Renewable(r, c)
      <3>1. held' \in [Replicas -> [Conns -> 0..MaxEpoch]]
        BY <1>3, <2>2, ForgetType DEF Renew
      <3>2. runner' \in [Conns -> [Epochs -> Runner]]
        <4> DEFINE h == held[r][c]
        <4>1. runner' = [runner EXCEPT ![c] = [runner[c] EXCEPT ![h] =
                [runner[c][h] EXCEPT !.cancelled =
                   runner[c][h].cancelled \/ runner[c][h].at # "done"]]]
          BY <1>3, <2>2 DEF Renew, Cancel, TypeOK
        <4>2. ASSUME h \in Epochs
              PROVE  [runner[c][h] EXCEPT !.cancelled = runner[c][h].cancelled
                        \/ runner[c][h].at # "done"] \in Runner
          <5>1. runner[c][h] \in Runner
            BY <4>2 DEF TypeOK
          <5>2. \A b \in BOOLEAN : [runner[c][h] EXCEPT !.cancelled = b] \in Runner
            BY <5>1 DEF Runner
          <5>3. (runner[c][h].cancelled \/ runner[c][h].at # "done") \in BOOLEAN
            OBVIOUS
          <5> QED
            BY <5>2, <5>3, Zenon
        <4> QED
          BY <4>1, <4>2 DEF TypeOK
      <3> QED
        BY <1>1, <1>3, <2>2, <3>1, <3>2 DEF Renew, TypeOK, history
    <2> QED
      BY <2>1, <2>2
  <1>4. CASE RenewError(r, c)
    BY <1>1, <1>4 DEF RenewError, TypeOK, history
  <1>5. CASE ShutdownRelease(r, c)
    <2>1. row' \in [Conns -> Row]
      BY <1>5, MayReleaseType DEF ShutdownRelease
    <2>2. held' \in [Replicas -> [Conns -> 0..MaxEpoch]]
      BY <1>5, ForgetType DEF ShutdownRelease
    <2>3. deadline' \in [Replicas -> {"armed", "fired", "spent"}]
      BY <1>5 DEF ShutdownRelease, TypeOK
    <2> QED
      BY <1>1, <1>5, <2>1, <2>2, <2>3 DEF ShutdownRelease, TypeOK, history
  <1> QED
    BY <1>2, <1>3, <1>4, <1>5 DEF SchedulerConn

\* The scheduler's other steps, and the end of its process, keep the types.
LEMMA SchedulerType ==
    ASSUME TypeOK, NEW r \in Replicas, Scheduler(r)
    PROVE  TypeOK'
  <1>1. Held(r) \in SUBSET Conns
    BY DEF Held
  <1>2. CASE StartPass(r)
    BY <1>1, <1>2 DEF StartPass, TypeOK, history
  <1>3. CASE StartRenewing(r)
    BY <1>1, <1>3 DEF StartRenewing, TypeOK, history
  <1>4. CASE Claim(r)
    <2>1. PICK S \in Batches(r) :
            /\ row' = Claimed(r, S)
            /\ held' = [held EXCEPT ![r] = [c \in Conns |->
                 IF c \in S \ Held(r) THEN row[c].epoch + 1 ELSE @[c]]]
            /\ runner' = [c \in Conns |-> IF c \in S \ Held(r)
                 THEN [runner[c] EXCEPT ![row[c].epoch + 1] = NewRunner(r, c)]
                 ELSE runner[c]]
      BY <1>4 DEF Claim
    <2>2. row' \in [Conns -> Row]
      BY <2>1, ClaimedType
    <2>3. \A c \in S : row[c].epoch + 1 \in Epochs /\ row[c].epoch + 1 \in 0..MaxEpoch
      BY <2>1, ClaimedType, LeasesAssumption DEF Epochs
    <2>4. held' \in [Replicas -> [Conns -> 0..MaxEpoch]]
      BY <2>1, <2>3 DEF TypeOK
    <2>5. \A c \in Conns : NewRunner(r, c) \in Runner
      BY BareType, Literals DEF NewRunner, TypeOK, Row
    <2>6. runner' \in [Conns -> [Epochs -> Runner]]
      BY <2>1, <2>3, <2>5 DEF TypeOK
    <2> QED
      BY <1>4, <2>2, <2>4, <2>6 DEF Claim, TypeOK, history
  <1>5. CASE ClaimError(r)
    <2>1. row' \in [Conns -> Row]
      BY <1>5, ClaimedType DEF ClaimError, TypeOK
    <2> QED
      BY <1>5, <2>1 DEF ClaimError, TypeOK, history
  <1>6. CASE Shutdown(r)
    <2>1. \A x \in Runner : [x EXCEPT !.cancelled = TRUE] \in Runner
      BY DEF Runner
    <2>2. runner' \in [Conns -> [Epochs -> Runner]]
      BY <1>6, <2>1 DEF Shutdown, TypeOK
    <2> QED
      BY <1>1, <1>6, <2>2 DEF Shutdown, TypeOK, history
  <1>7. CASE DeadlinePasses(r)
    BY <1>7 DEF DeadlinePasses, TypeOK, history
  <1>8. CASE Halt(r)
    <2>1. Bare("done", r, 0, 0) \in Runner
      BY BareType, Literals
    <2>2. runner' \in [Conns -> [Epochs -> Runner]]
      BY <1>8, <2>1 DEF Halt, TypeOK
    <2>3. lost' \in [Conns -> BOOLEAN]
      <3>1. \A c \in Conns : (lost[c] \/
              \E e \in Epochs : /\ runner[c][e].by = r
                                /\ runner[c][e].rotated # 0
                                /\ crew[c].origin[runner[c][e].rotated] = login[c])
              \in BOOLEAN
        OBVIOUS
      <3> QED
        BY <1>8, <3>1, Zenon DEF Halt
    <2>4. held' \in [Replicas -> [Conns -> 0..MaxEpoch]]
      BY <1>8, Literals DEF Halt, TypeOK
    <2> QED
      BY <1>8, <2>2, <2>3, <2>4 DEF Halt, TypeOK
  <1> QED
    BY <1>2, <1>3, <1>4, <1>5, <1>6, <1>7, <1>8 DEF Scheduler

\* Every step keeps the types.
LEMMA TypeStep == TypeOK /\ [Next]_vars => TypeOK'
  <1> SUFFICES ASSUME TypeOK, [Next]_vars PROVE TypeOK'
    OBVIOUS
  <1>1. CASE UNCHANGED vars
    BY <1>1 DEF vars, TypeOK
  <1>2. CASE Next
    BY <1>2, EnvironmentType, RunnerStepType, SchedulerConnType, SchedulerType
       DEF Next
  <1> QED
    BY <1>1, <1>2

\* The records of the rows, the runners and the schedulers keep their shape.
THEOREM TypeCorrect == Spec => []TypeOK
  BY InitType, TypeStep, PTL DEF Spec

-----------------------------------------------------------------------------
(* ActiveTokenIsFromLatestLogin.  A stale runner can still rotate a token  *)
(* and still calls PersistRotatedToken; what keeps its token out of the    *)
(* row is that a fence that holds belongs to a claim made after the last   *)
(* login, so everything the fenced runner has descends from it.  LeaseInv  *)
(* says so slot by slot.                                                   *)

\* LeaseInv of one row and of one slot.
RowOK(c) ==
    /\ row[c].token <= crew[c].issued
    /\ row[c].status = "active" => /\ row[c].token # Wiped
                                   /\ crew[c].origin[row[c].token] = login[c]

Lineage(c, x) ==
    /\ x.at = "start" => crew[c].origin[x.token] = login[c]
    /\ x.at \in InSession => crew[c].origin[x.client] = login[c]
    /\ x.rotated # 0 => crew[c].origin[x.rotated] = login[c]

SlotOK(c, e) ==
    /\ runner[c][e].at = "none" => /\ runner[c][e].rotated = 0
                                   /\ runner[c][e].by = NoHolder
    /\ runner[c][e].at # "none" => e <= row[c].epoch
    /\ runner[c][e].token <= crew[c].issued
    /\ runner[c][e].client <= crew[c].issued
    /\ runner[c][e].rotated <= crew[c].issued
    /\ Fenced(c, e) /\ row[c].status = "active" => Lineage(c, runner[c][e])

\* LeaseInv, read row by row and slot by slot.
LEMMA SlotBySlot ==
    LeaseInv <=> \A c \in Conns : RowOK(c) /\ \A e \in Epochs : SlotOK(c, e)
  BY DEF LeaseInv, SlotsFollowEpoch, TokensAreIssued, FencedLineage, Lineage,
         ActiveTokenIsFromLatestLogin, RowOK, SlotOK

\* The same of the next state: the form the preservation proofs end in.
LEMMA SlotBySlotNext ==
    (\A c \in Conns : RowOK(c)' /\ \A e \in Epochs : SlotOK(c, e)') => LeaseInv'
  BY DEF LeaseInv, SlotsFollowEpoch, TokensAreIssued, FencedLineage, Lineage,
         ActiveTokenIsFromLatestLogin, RowOK, SlotOK

\* A step that leaves a connection alone leaves its part of LeaseInv alone.
LEMMA RowKept ==
    ASSUME NEW c \in Conns, row'[c] = row[c], crew'[c] = crew[c],
           login'[c] = login[c], RowOK(c)
    PROVE  RowOK(c)'
  BY DEF RowOK

\* The same for the slot of one runner.
LEMMA SlotKept ==
    ASSUME NEW c \in Conns, NEW e \in Epochs, row'[c] = row[c],
           crew'[c] = crew[c], login'[c] = login[c],
           runner'[c][e] = runner[c][e], SlotOK(c, e)
    PROVE  SlotOK(c, e)'
  BY DEF SlotOK, Fenced, Matches, Lineage

\* Steps that change the runners' slots and nothing else the invariant sees.
LEMMA RunnersOnly ==
    ASSUME LeaseInv, UNCHANGED <<row, crew, login>>,
           \A c \in Conns, e \in Epochs :
             runner'[c][e] = runner[c][e] \/ SlotOK(c, e)'
    PROVE  LeaseInv'
  BY SlotBySlot, SlotBySlotNext, RowKept, SlotKept

\* LeaseInv holds before anyone has logged in.
LEMMA InitInv == Init => LeaseInv
  <1> SUFFICES ASSUME Init PROVE LeaseInv
    OBVIOUS
  <1>1. ASSUME NEW c \in Conns PROVE RowOK(c)
    BY DEF Init, RowOK, Wiped
  <1>2. ASSUME NEW c \in Conns, NEW e \in Epochs PROVE SlotOK(c, e)
    BY DEF Init, SlotOK, NoRunner, Bare, Fenced, Matches
  <1> QED
    BY <1>1, <1>2, SlotBySlot

\* Of the environment only a login replaces the stored token, and it releases
\* the lease: no runner of the old session passes the fence again.
LEMMA EnvironmentInv ==
    ASSUME TypeOK, LeaseInv, NEW c \in Conns, Environment(c)
    PROVE  LeaseInv'
  <1>1. \A d \in Conns : RowOK(d) /\ \A e \in Epochs : SlotOK(d, e)
    BY SlotBySlot
  <1>2. ASSUME NEW d \in Conns, d # c
        PROVE  /\ row'[d] = row[d] /\ crew'[d] = crew[d] /\ login'[d] = login[d]
               /\ runner' = runner
    BY <1>2 DEF Environment, Login, Disable, Expire, Revoke, Issue, history, TypeOK
  <1>3. runner' = runner
    BY DEF Environment, Login, Disable, Expire, Revoke
  <1>4. RowOK(c)' /\ \A e \in Epochs : SlotOK(c, e)'
    <2>1. CASE Login(c)
      <3> DEFINE t == crew[c].issued + 1
      <3>1. /\ t \in Tokens /\ t \in 0..MaxToken /\ t # 0
            /\ crew[c].issued \in 0..MaxToken
        BY <2>1, LeasesAssumption DEF Login, Tokens, TypeOK, Crew
      <3>2. /\ row'[c].token = t /\ row'[c].holder = NoHolder
            /\ row'[c].epoch = row[c].epoch
        BY <2>1 DEF Login, Released, TypeOK, Row
      <3>3. crew'[c].issued = t /\ crew'[c].origin[t] = t /\ login'[c] = t
        BY <2>1, <3>1 DEF Login, Issue, TypeOK, Crew
      <3>4. RowOK(c)'
        BY <3>1, <3>2, <3>3 DEF RowOK, Wiped
      <3>5. ASSUME NEW e \in Epochs PROVE SlotOK(c, e)'
        <4>1. /\ runner[c][e].token \in 0..MaxToken
              /\ runner[c][e].client \in 0..MaxToken
              /\ runner[c][e].rotated \in 0..MaxToken
          BY DEF TypeOK, Runner
        <4>2. ~Fenced(c, e)'
          BY <3>2 DEF Fenced, Matches
        <4> QED
          BY <1>1, <1>3, <3>1, <3>2, <3>3, <4>1, <4>2 DEF SlotOK
      <3> QED
        BY <3>4, <3>5
    <2>2. CASE Disable(c)
      <3>1. /\ row'[c].token = 0 /\ row'[c].status = "disabled"
            /\ row'[c].epoch = row[c].epoch
            /\ crew' = crew /\ login' = login
        BY <2>2 DEF Disable, TypeOK, Row, Wiped, history
      <3>2. crew[c].issued \in 0..MaxToken
        BY DEF TypeOK, Crew
      <3> QED
        BY <1>1, <1>3, <3>1, <3>2 DEF RowOK, SlotOK, Wiped
    <2>3. CASE Expire(c)
      <3>1. /\ row'[c].token = row[c].token /\ row'[c].status = row[c].status
            /\ row'[c].epoch = row[c].epoch /\ row'[c].holder = row[c].holder
            /\ crew' = crew /\ login' = login
        BY <2>3 DEF Expire, TypeOK, Row, history
      <3> QED
        BY <1>1, <1>3, <3>1 DEF RowOK, SlotOK, Fenced, Matches, Lineage
    <2>4. CASE Revoke(c)
      <3>1. /\ crew'[c].issued = crew[c].issued /\ crew'[c].origin = crew[c].origin
            /\ row' = row /\ login' = login
        BY <2>4 DEF Revoke, TypeOK, Crew
      <3> QED
        BY <1>1, <1>3, <3>1 DEF RowOK, SlotOK, Fenced, Matches, Lineage
    <2> QED
      BY <2>1, <2>2, <2>3, <2>4 DEF Environment
  <1> QED
    BY <1>1, <1>2, <1>3, <1>4, SlotBySlotNext, RowKept, SlotKept

\* The steps of a runner that store nothing: what they leave in the slot came
\* from the slot or, under the fence, from the row.
LEMMA QuietStepInv ==
    ASSUME TypeOK, LeaseInv, NEW c \in Conns, NEW e \in Epochs, NEW y,
           Become(c, e, y), UNCHANGED <<row, crew, login>>,
           runner[c][e].at # "none",
           y.at \notin {"none", "start"},
           y.by = runner[c][e].by,
           y.rotated \in {runner[c][e].rotated, 0},
           y.token \in {runner[c][e].token, row[c].token, 0},
           y.client \in {runner[c][e].client, runner[c][e].token, row[c].token, 0},
           y.at \in InSession /\ Fenced(c, e) /\ row[c].status = "active" =>
               crew[c].origin[y.client] = login[c]
    PROVE  LeaseInv'
  <1>1. RowOK(c) /\ SlotOK(c, e)
    BY SlotBySlot
  <1>2. crew[c].issued \in 0..MaxToken
    BY DEF TypeOK, Crew
  <1>3. \A d \in Conns, f \in Epochs :
          runner'[d][f] = IF d = c /\ f = e THEN y ELSE runner[d][f]
    BY DEF Become, TypeOK
  <1>4. runner'[c][e] = y /\ (Fenced(c, e)' <=> Fenced(c, e))
    BY <1>3 DEF Fenced, Matches
  <1>5. y.token <= crew[c].issued /\ y.client <= crew[c].issued /\ y.rotated <= crew[c].issued
    BY <1>1, <1>2 DEF RowOK, SlotOK
  <1>6. Fenced(c, e) /\ row[c].status = "active" => Lineage(c, y)
    BY <1>1 DEF SlotOK, Lineage
  <1>7. SlotOK(c, e)'
    BY <1>1, <1>4, <1>5, <1>6 DEF SlotOK, Lineage
  <1> QED
    BY <1>3, <1>7, RunnersOnly

\* No step of a runner breaks LeaseInv: Rotate gives the new token the origin
\* of the old one, and Persist writes only under the fence.
LEMMA RunnerStepInv ==
    ASSUME TypeOK, LeaseInv, NEW c \in Conns, NEW e \in Epochs, RunnerStep(c, e)
    PROVE  LeaseInv'
  <1> DEFINE x == runner[c][e]
  <1>1. RowOK(c) /\ SlotOK(c, e)
    BY SlotBySlot
  <1>2. x \in Runner /\ row[c] \in Row
    BY DEF TypeOK
  <1> DEFINE Stays == UNCHANGED <<row, crew, schedVars, history>>
  <1>3. ASSUME Become(c, e, Finished(x)), UNCHANGED <<row, crew, login>>, x.at # "none"
        PROVE  LeaseInv'
    BY <1>3, QuietStepInv DEF Finished, Bare, InSession
  <1>4. ASSUME Become(c, e, Session(x, row[c].token)), Stays, x.at # "none"
        PROVE  LeaseInv'
    <2>1. /\ Session(x, row[c].token).at = "boot"
          /\ Session(x, row[c].token).by = x.by
          /\ Session(x, row[c].token).rotated = x.rotated
          /\ Session(x, row[c].token).token = row[c].token
          /\ Session(x, row[c].token).client = row[c].token
      BY <1>2 DEF Session, Runner
    <2> QED
      BY <1>1, <1>4, <2>1, QuietStepInv DEF RowOK, history
  <1>5. ASSUME NEW place \in Places, place \notin {"none", "start"},
               Become(c, e, [x EXCEPT !.at = place]), Stays, x.at # "none",
               place \in InSession => x.at \in InSession
        PROVE  LeaseInv'
    <2> DEFINE y == [x EXCEPT !.at = place]
    <2>1. /\ y.at = place /\ y.by = x.by /\ y.rotated = x.rotated
          /\ y.token = x.token /\ y.client = x.client
      BY <1>2 DEF Runner
    <2> QED
      BY <1>1, <1>5, <2>1, QuietStepInv DEF SlotOK, Lineage, history
  <1>6. ASSUME NEW err, Become(c, e, [x EXCEPT !.watchErr = err]), Stays,
               x.at \in InSession
        PROVE  LeaseInv'
    <2> DEFINE y == [x EXCEPT !.watchErr = err]
    <2>1. /\ y.at = x.at /\ y.by = x.by /\ y.rotated = x.rotated
          /\ y.token = x.token /\ y.client = x.client
      BY <1>2 DEF Runner
    <2> QED
      BY <1>1, <1>6, <2>1, QuietStepInv DEF SlotOK, Lineage, InSession, history
  <1>7. ASSUME NEW err, Become(c, e, SessionEnded(x, err)), Stays, x.at # "none"
        PROVE  LeaseInv'
    <2>1. CASE SessionEnded(x, err) = Finished(x)
      BY <1>3, <1>7, <2>1 DEF history
    <2>2. ASSUME NEW place \in {"reauth", "mark", "backoff"}, NEW b,
                 SessionEnded(x, err) = [x EXCEPT !.at = place, !.retriedAuth = b]
          PROVE  LeaseInv'
      <3> DEFINE y == [x EXCEPT !.at = place, !.retriedAuth = b]
      <3>1. /\ y.at = place /\ y.by = x.by /\ y.rotated = x.rotated
            /\ y.token = x.token /\ y.client = x.client
        BY <1>2 DEF Runner
      <3> QED
        BY <1>7, <2>2, <3>1, QuietStepInv DEF InSession, history
    <2>3. /\ [x EXCEPT !.at = "mark"]
               = [x EXCEPT !.at = "mark", !.retriedAuth = x.retriedAuth]
          /\ [x EXCEPT !.at = "backoff"]
               = [x EXCEPT !.at = "backoff", !.retriedAuth = x.retriedAuth]
      BY <1>2 DEF Runner
    <2>4. \/ SessionEnded(x, err) = Finished(x)
          \/ SessionEnded(x, err) = [x EXCEPT !.at = "reauth", !.retriedAuth = TRUE]
          \/ SessionEnded(x, err) = [x EXCEPT !.at = "mark"]
          \/ SessionEnded(x, err) = [x EXCEPT !.at = "backoff"]
      BY <1>2 DEF SessionEnded, Runner
    <2> QED
      BY <2>1, <2>2, <2>3, <2>4
  <1>8. CASE Begin(c, e)
    <2>1. CASE x.token = Wiped
      BY <1>5, <1>8, <2>1 DEF Begin, Places, InSession
    <2>2. CASE x.token # Wiped
      <3> DEFINE y == Session(x, x.token)
      <3>1. /\ y.at = "boot" /\ y.by = x.by /\ y.rotated = x.rotated
            /\ y.token = x.token /\ y.client = x.token
        BY <1>2 DEF Session, Runner
      <3> QED
        BY <1>1, <1>8, <2>2, <3>1, QuietStepInv DEF Begin, SlotOK, Lineage, history
    <2> QED
      BY <2>1, <2>2
  <1>9. CASE Rotate(c, e)
    <2> DEFINE t == crew[c].issued + 1
               y == [x EXCEPT !.client = t, !.rotated = t]
    <2>1. /\ t \in Tokens /\ t \in 0..MaxToken /\ t # 0
          /\ crew[c].issued \in 0..MaxToken
      BY <1>9, LeasesAssumption DEF Rotate, Tokens, TypeOK, Crew
    <2>2. /\ \A d \in Conns : d # c => crew'[d] = crew[d]
          /\ crew'[c].issued = t
          /\ crew'[c].origin[t] = crew[c].origin[x.client]
          /\ \A u \in 0..MaxToken : u # t => crew'[c].origin[u] = crew[c].origin[u]
      BY <1>9, <2>1 DEF Rotate, Issue, TypeOK, Crew
    <2>3. \A d \in Conns, f \in Epochs :
            runner'[d][f] = IF d = c /\ f = e THEN y ELSE runner[d][f]
      BY <1>9 DEF Rotate, Become, TypeOK
    <2>4. /\ y.at = x.at /\ y.by = x.by /\ y.token = x.token
          /\ y.client = t /\ y.rotated = t
      BY <1>2 DEF Runner
    <2>5. row' = row /\ login' = login
      BY <1>9 DEF Rotate, history
    <2>6. RowOK(c)'
      <3>1. row[c].token \in 0..MaxToken
        BY <1>2 DEF Row
      <3> QED
        BY <1>1, <2>1, <2>2, <2>5, <3>1 DEF RowOK
    <2>7. SlotOK(c, e)'
      <3>1. runner'[c][e] = y /\ (Fenced(c, e)' <=> Fenced(c, e))
        BY <2>3, <2>4, <2>5 DEF Fenced, Matches
      <3>2. x.token \in 0..MaxToken /\ x.at \in InSession
        BY <1>2, <1>9 DEF Runner, Rotate
      <3>3. Fenced(c, e) /\ row[c].status = "active" =>
              crew'[c].origin[t] = login[c]
        BY <1>1, <2>2, <3>2 DEF SlotOK, Lineage
      <3>4. y.at # "none" /\ y.at # "start"
        BY <2>4, <3>2 DEF InSession
      <3> QED
        BY <1>1, <2>1, <2>2, <2>4, <2>5, <3>1, <3>2, <3>3, <3>4 DEF SlotOK, Lineage
    <2>8. ASSUME NEW f \in Epochs, f # e PROVE SlotOK(c, f)'
      <3>1. runner'[c][f] = runner[c][f] /\ SlotOK(c, f)
        BY <2>3, <2>8, SlotBySlot
      <3>2. /\ runner[c][f].token \in 0..MaxToken /\ runner[c][f].client \in 0..MaxToken
            /\ runner[c][f].rotated \in 0..MaxToken
        BY DEF TypeOK, Runner
      <3>3. Fenced(c, f)' <=> Fenced(c, f)
        BY <2>5, <3>1 DEF Fenced, Matches
      <3>4. /\ runner[c][f].token # t /\ runner[c][f].client # t
            /\ runner[c][f].rotated # t
        BY <2>1, <3>1, <3>2 DEF SlotOK
      <3>5. Lineage(c, runner[c][f]) => Lineage(c, runner[c][f])'
        BY <2>2, <2>5, <3>1, <3>2, <3>4 DEF Lineage
      <3> QED
        BY <2>1, <2>2, <2>5, <3>1, <3>2, <3>3, <3>5 DEF SlotOK
    <2>9. ASSUME NEW d \in Conns, d # c
          PROVE  RowOK(d)' /\ \A f \in Epochs : SlotOK(d, f)'
      BY <2>2, <2>3, <2>5, <2>9, SlotBySlot, RowKept, SlotKept
    <2> QED
      BY <2>6, <2>7, <2>8, <2>9, SlotBySlotNext
  <1>10. CASE Persist(c, e)
    <2>1. PICK y : /\ Become(c, e, y) /\ y.rotated = 0 /\ y.at = x.at
                   /\ y.by = x.by /\ y.token = x.token /\ y.client = x.client
      <3> DEFINE y1 == [x EXCEPT !.rotated = 0]
                 y2 == [x EXCEPT !.rotated = 0, !.watchErr =
                          IF @ = "none" THEN @ ELSE "lease_lost"]
      <3>1. /\ y1.rotated = 0 /\ y1.at = x.at /\ y1.by = x.by
            /\ y1.token = x.token /\ y1.client = x.client
        BY <1>2 DEF Runner
      <3>2. /\ y2.rotated = 0 /\ y2.at = x.at /\ y2.by = x.by
            /\ y2.token = x.token /\ y2.client = x.client
        BY <1>2 DEF Runner
      <3>3. Become(c, e, y1) \/ Become(c, e, y2)
        BY <1>10 DEF Persist
      <3> QED
        BY <3>1, <3>2, <3>3
    <2>2. \A d \in Conns, f \in Epochs :
            runner'[d][f] = IF d = c /\ f = e THEN y ELSE runner[d][f]
      BY <2>1 DEF Become, TypeOK
    <2>3. x.rotated # 0 /\ x.at # "none" /\ crew' = crew /\ login' = login
      BY <1>1, <1>10 DEF Persist, SlotOK
    <2>4. /\ \A d \in Conns : d # c => row'[d] = row[d]
          /\ row'[c].status = row[c].status /\ row'[c].holder = row[c].holder
          /\ row'[c].epoch = row[c].epoch
          /\ \/ row'[c].token = row[c].token
             \/ row'[c].token = x.rotated /\ Fenced(c, e)
      BY <1>10 DEF Persist, TypeOK, Row
    <2>5. RowOK(c)'
      BY <1>1, <2>3, <2>4 DEF RowOK, SlotOK, Lineage, Wiped
    <2>6. ASSUME NEW f \in Epochs PROVE SlotOK(c, f)'
      <3>1. SlotOK(c, f) /\ crew[c].issued \in 0..MaxToken
        BY SlotBySlot DEF TypeOK, Crew
      <3>2. Fenced(c, f)' <=> Fenced(c, f)
        BY <2>1, <2>2, <2>4 DEF Fenced, Matches
      <3> QED
        BY <2>1, <2>2, <2>3, <2>4, <3>1, <3>2 DEF SlotOK, Lineage
    <2>7. ASSUME NEW d \in Conns, d # c
          PROVE  RowOK(d)' /\ \A f \in Epochs : SlotOK(d, f)'
      BY <2>2, <2>3, <2>4, <2>7, SlotBySlot, RowKept, SlotKept
    <2> QED
      BY <2>5, <2>6, <2>7, SlotBySlotNext
  <1>11. CASE PersistGivesUp(c, e)
    <2> DEFINE y == [x EXCEPT !.rotated = 0]
    <2>1. /\ y.rotated = 0 /\ y.at = x.at /\ y.by = x.by
          /\ y.token = x.token /\ y.client = x.client
      BY <1>2 DEF Runner
    <2>2. \A d \in Conns, f \in Epochs :
            runner'[d][f] = IF d = c /\ f = e THEN y ELSE runner[d][f]
      BY <1>11 DEF PersistGivesUp, Become, TypeOK
    <2>3. UNCHANGED <<row, crew, login>> /\ crew[c].issued \in 0..MaxToken
      BY <1>11 DEF PersistGivesUp, TypeOK, Crew
    <2>4. SlotOK(c, e)'
      <3>1. runner'[c][e] = y /\ (Fenced(c, e)' <=> Fenced(c, e))
        BY <2>1, <2>2, <2>3 DEF Fenced, Matches
      <3> QED
        BY <1>1, <2>1, <2>3, <3>1 DEF SlotOK, Lineage
    <2> QED
      BY <2>2, <2>3, <2>4, RunnersOnly
  <1>12. CASE Boot(c, e)
    BY <1>5, <1>12 DEF Boot, Places, InSession
  <1>13. CASE BootFails(c, e)
    BY <1>7, <1>13 DEF BootFails
  <1>14. CASE WatcherStops(c, e) \/ CallFails(c, e)
    BY <1>6, <1>14 DEF WatcherStops, CallFails, InSession
  <1>15. CASE WatchDone(c, e)
    BY <1>7, <1>15 DEF WatchDone
  <1>16. CASE TickStatus(c, e) \/ TickStatusError(c, e)
    BY <1>3, <1>5, <1>16 DEF TickStatus, TickStatusError, Places, InSession, history
  <1>17. CASE Touch(c, e) \/ TouchError(c, e)
    BY <1>3, <1>5, <1>17 DEF Touch, TouchError, Places, InSession, history
  <1>18. CASE Reauth(c, e) \/ ReauthError(c, e)
    BY <1>4, <1>5, <1>18 DEF Reauth, ReauthError, Places, InSession
  <1>19. CASE Retry(c, e) \/ RetryError(c, e)
    BY <1>3, <1>4, <1>19 DEF Retry, RetryError, history
  <1>20. CASE MarkNeedsRelogin(c, e)
    <2>1. CASE row' = row
      BY <1>3, <1>20, <2>1 DEF MarkNeedsRelogin, history
    <2>2. CASE row' # row
      <3>1. row' = [row EXCEPT ![c] = [Released(row[c]) EXCEPT !.status = "needs_relogin"]]
        BY <1>20, <2>2 DEF MarkNeedsRelogin
      <3>2. /\ \A d \in Conns : d # c => row'[d] = row[d]
            /\ row'[c].status = "needs_relogin" /\ row'[c].token = row[c].token
            /\ row'[c].epoch = row[c].epoch
        BY <1>2, <3>1 DEF Released, TypeOK, Row
      <3>3. UNCHANGED <<crew, login>> /\ crew[c].issued \in 0..MaxToken
        BY <1>20 DEF MarkNeedsRelogin, history, TypeOK, Crew
      <3>4. \A d \in Conns, f \in Epochs :
              runner'[d][f] = IF d = c /\ f = e THEN Finished(x) ELSE runner[d][f]
        BY <1>20 DEF MarkNeedsRelogin, Become, TypeOK
      <3>5. RowOK(c)'
        BY <1>1, <3>2, <3>3 DEF RowOK
      <3>6. ASSUME NEW f \in Epochs PROVE SlotOK(c, f)'
        <4>1. SlotOK(c, f) /\ x.at = "mark"
          BY <1>20, SlotBySlot DEF MarkNeedsRelogin
        <4>2. /\ Finished(x).at = "done" /\ Finished(x).token = 0
              /\ Finished(x).client = 0 /\ Finished(x).rotated = x.rotated
          BY DEF Finished, Bare
        <4>3. row'[c].status # "active"
          BY <3>2
        <4> QED
          BY <1>1, <3>2, <3>3, <3>4, <4>1, <4>2, <4>3 DEF SlotOK
      <3>7. ASSUME NEW d \in Conns, d # c
            PROVE  RowOK(d)' /\ \A f \in Epochs : SlotOK(d, f)'
        BY <3>2, <3>3, <3>4, <3>7, SlotBySlot, RowKept, SlotKept
      <3> QED
        BY <3>5, <3>6, <3>7, SlotBySlotNext
    <2> QED
      BY <2>1, <2>2
  <1>21. CASE MarkError(c, e) \/ Stop(c, e)
    BY <1>3, <1>21 DEF MarkError, Stop, InSession, history
  <1> QED
    BY <1>8, <1>9, <1>10, <1>11, <1>12, <1>13, <1>14, <1>15, <1>16, <1>17,
       <1>18, <1>19, <1>20, <1>21 DEF RunnerStep

\* Steps that change the rows and leave the runners alone.
LEMMA RowsOnly ==
    ASSUME LeaseInv, UNCHANGED <<crew, login, runner>>,
           \A c \in Conns :
             \/ row'[c] = row[c]
             \/ RowOK(c)' /\ \A e \in Epochs : SlotOK(c, e)'
    PROVE  LeaseInv'
  BY SlotBySlot, SlotBySlotNext, RowKept, SlotKept

\* Releasing a lease takes the fence from its runner and gives it to no other.
LEMMA MayReleaseInv ==
    ASSUME TypeOK, LeaseInv, NEW r \in Replicas, NEW c \in Conns,
           row' \in {row} \cup
             (IF Owns(r, c) THEN {[row EXCEPT ![c] = Released(@)]} ELSE {}),
           UNCHANGED <<crew, login, runner>>
    PROVE  LeaseInv'
  <1>1. CASE row' = row
    BY <1>1, RowsOnly
  <1>2. CASE row' = [row EXCEPT ![c] = Released(row[c])]
    <2>1. /\ \A d \in Conns : d # c => row'[d] = row[d]
          /\ row'[c].holder = NoHolder /\ row'[c].epoch = row[c].epoch
          /\ row'[c].token = row[c].token /\ row'[c].status = row[c].status
      BY <1>2 DEF TypeOK, Row, Released
    <2>2. RowOK(c)'
      BY <2>1, SlotBySlot DEF RowOK
    <2>3. ASSUME NEW e \in Epochs PROVE SlotOK(c, e)'
      <3>1. ~Fenced(c, e)'
        BY <2>1 DEF Fenced, Matches
      <3> QED
        BY <2>1, <3>1, SlotBySlot DEF SlotOK
    <2> QED
      BY <2>1, <2>2, <2>3, RowsOnly
  <1> QED
    BY <1>1, <1>2

\* A claim gives the row the next epoch, whose slot was empty: no runner but
\* the one started for this claim can pass the fence.
LEMMA ClaimedInv ==
    ASSUME TypeOK, LeaseInv, NEW r \in Replicas, NEW S \in Batches(r),
           row' = Claimed(r, S), UNCHANGED <<crew, login>>,
           NEW N \in SUBSET S,
           runner' = [c \in Conns |-> IF c \in N
              THEN [runner[c] EXCEPT ![row[c].epoch + 1] = NewRunner(r, c)]
              ELSE runner[c]]
    PROVE  LeaseInv'
  <1>1. /\ S \subseteq Conns /\ \A c \in S : row[c].epoch + 1 \in Epochs
        /\ \A c \in S : row[c].status = "active"
    <2>1. S \subseteq {c \in Conns : Claimable(c)}
      BY DEF Batches
    <2> QED
      BY <2>1, ClaimedType DEF Claimable
  <1>2. ASSUME NEW c \in Conns, c \notin S
        PROVE  RowOK(c)' /\ \A e \in Epochs : SlotOK(c, e)'
    <2>1. row'[c] = row[c] /\ runner'[c] = runner[c]
      BY <1>2 DEF Claimed
    <2> QED
      BY <2>1, SlotBySlot, RowKept, SlotKept
  <1>3. ASSUME NEW c \in S
        PROVE  RowOK(c)' /\ \A e \in Epochs : SlotOK(c, e)'
    <2>0. PICK n \in Epochs : n = row[c].epoch + 1
      BY <1>1, <1>3
    <2>1. /\ c \in Conns /\ n \in Epochs /\ row[c].status = "active"
          /\ row[c].epoch \in 0..MaxEpoch /\ crew[c].issued \in 0..MaxToken
      BY <1>1, <1>3 DEF TypeOK, Row, Crew
    <2>2. /\ row'[c].epoch = n /\ row'[c].token = row[c].token
          /\ row'[c].status = "active"
      <3>1. row'[c] = [row[c] EXCEPT !.holder = r, !.epoch = n, !.live = TRUE]
        BY <1>3, <2>0, <2>1 DEF Claimed
      <3>2. row[c] \in Row
        BY <2>1 DEF TypeOK
      <3> HIDE <2>0, <1>3
      <3> QED
        BY <2>1, <3>1, <3>2 DEF Row
    <2>3. RowOK(c) /\ \A e \in Epochs : SlotOK(c, e)
      BY <2>1, SlotBySlot
    <2>4. RowOK(c)'
      BY <2>1, <2>2, <2>3 DEF RowOK
    <2>5. ASSUME NEW e \in Epochs, e # n PROVE SlotOK(c, e)'
      <3>1. runner'[c][e] = runner[c][e]
        BY <2>0, <2>1, <2>5 DEF TypeOK
      <3>2. ~Fenced(c, e)'
        BY <2>2, <2>5 DEF Fenced, Matches
      <3>3. e <= row[c].epoch => e <= n
        BY <2>0, <2>1, LeasesAssumption DEF Epochs
      <3> QED
        BY <2>2, <2>3, <3>1, <3>2, <3>3 DEF SlotOK
    <2>6. SlotOK(c, n)'
      <3>1. runner[c][n].at = "none" /\ runner[c][n].rotated = 0
        <4>1. ~(n <= row[c].epoch)
          BY <2>0, <2>1, LeasesAssumption
        <4> QED
          BY <2>1, <2>3, <4>1 DEF SlotOK
      <3>2. CASE c \in N
        <4>1. runner'[c][n] = NewRunner(r, c)
          BY <2>0, <2>1, <3>2 DEF TypeOK
        <4>2. /\ NewRunner(r, c).at = "start" /\ NewRunner(r, c).rotated = 0
              /\ NewRunner(r, c).token = row[c].token /\ NewRunner(r, c).client = 0
          BY DEF NewRunner, Bare
        <4>3. n <= n /\ 0 <= crew[c].issued
          BY <2>1, LeasesAssumption DEF Epochs
        <4>4. Lineage(c, runner[c][n])'
          BY <2>1, <2>3, <4>1, <4>2 DEF RowOK, Lineage, InSession
        <4> QED
          BY <2>1, <2>2, <2>3, <4>1, <4>2, <4>3, <4>4 DEF SlotOK, RowOK
      <3>3. CASE c \notin N
        <4>1. runner'[c][n] = runner[c][n]
          BY <2>1, <3>3
        <4>2. n <= n
          BY LeasesAssumption DEF Epochs
        <4>3. Lineage(c, runner[c][n])'
          BY <3>1, <4>1 DEF Lineage, InSession
        <4> QED
          BY <2>1, <2>2, <2>3, <3>1, <4>1, <4>2, <4>3 DEF SlotOK
      <3> QED
        BY <3>2, <3>3
    <2> QED
      BY <2>4, <2>5, <2>6
  <1> QED
    BY <1>2, <1>3, SlotBySlotNext

\* The scheduler's steps for one lease release, renew or cancel: the fence is
\* given to nobody.
LEMMA SchedulerConnInv ==
    ASSUME TypeOK, LeaseInv, NEW r \in Replicas, NEW c \in Conns,
           SchedulerConn(r, c)
    PROVE  LeaseInv'
  <1>1. CASE Reap(r, c)
    BY <1>1, MayReleaseInv DEF Reap, history
  <1>2. CASE Renew(r, c)
    <2>1. CASE Renewable(r, c)
      <3>1. UNCHANGED <<crew, login, runner>>
        BY <1>2, <2>1 DEF Renew, history
      <3>2. /\ \A d \in Conns : d # c => row'[d] = row[d]
            /\ row'[c].holder = row[c].holder /\ row'[c].epoch = row[c].epoch
            /\ row'[c].token = row[c].token /\ row'[c].status = row[c].status
        BY <1>2, <2>1 DEF Renew, TypeOK, Row
      <3>3. RowOK(c)' /\ \A e \in Epochs : SlotOK(c, e)'
        BY <3>1, <3>2, SlotBySlot DEF RowOK, SlotOK, Fenced, Matches, Lineage
      <3> QED
        BY <3>1, <3>2, <3>3, RowsOnly
    <2>2. CASE ~Renewable(r, c)
      <3> DEFINE h == held[r][c]
      <3>1. UNCHANGED <<row, crew, login>>
        BY <1>2, <2>2 DEF Renew, history
      <3>2. PICK b : runner' = [runner EXCEPT ![c][h].cancelled = b]
        BY <1>2, <2>2 DEF Renew, Cancel
      <3>3. ASSUME NEW d \in Conns, NEW e \in Epochs
            PROVE  SlotOK(d, e)'
        <4>1. runner[d][e] \in Runner
          BY DEF TypeOK
        <4>2. /\ runner'[d][e].at = runner[d][e].at
              /\ runner'[d][e].by = runner[d][e].by
              /\ runner'[d][e].token = runner[d][e].token
              /\ runner'[d][e].client = runner[d][e].client
              /\ runner'[d][e].rotated = runner[d][e].rotated
          BY <3>2, <4>1 DEF TypeOK, Runner
        <4> QED
          BY <3>1, <4>2, SlotBySlot DEF SlotOK, Fenced, Matches, Lineage
      <3> QED
        BY <3>1, <3>3, RunnersOnly
    <2> QED
      BY <2>1, <2>2
  <1>3. CASE RenewError(r, c)
    BY <1>3, RowsOnly DEF RenewError, history
  <1>4. CASE ShutdownRelease(r, c)
    BY <1>4, MayReleaseInv DEF ShutdownRelease, history
  <1> QED
    BY <1>1, <1>2, <1>3, <1>4 DEF SchedulerConn

\* Of the scheduler's other steps only a claim gives the fence away, and the
\* runner it starts has the row's token.
LEMMA SchedulerInv ==
    ASSUME TypeOK, LeaseInv, NEW r \in Replicas, Scheduler(r)
    PROVE  LeaseInv'
  <1>1. CASE StartPass(r) \/ StartRenewing(r) \/ DeadlinePasses(r)
    BY <1>1, RowsOnly DEF StartPass, StartRenewing, DeadlinePasses, history
  <1>2. CASE Claim(r)
    <2>1. PICK S \in Batches(r) :
            /\ row' = Claimed(r, S)
            /\ runner' = [c \in Conns |-> IF c \in S \ Held(r)
                 THEN [runner[c] EXCEPT ![row[c].epoch + 1] = NewRunner(r, c)]
                 ELSE runner[c]]
      BY <1>2 DEF Claim
    <2> QED
      BY <1>2, <2>1, ClaimedInv DEF Claim, history
  <1>3. CASE ClaimError(r)
    <2>1. CASE row' = row
      BY <1>3, <2>1, RowsOnly DEF ClaimError, history
    <2>2. ASSUME NEW S \in Batches(r), row' = Claimed(r, S) PROVE LeaseInv'
      <3>1. runner' = [c \in Conns |-> IF c \in {}
                 THEN [runner[c] EXCEPT ![row[c].epoch + 1] = NewRunner(r, c)]
                 ELSE runner[c]]
        BY <1>3 DEF ClaimError, TypeOK
      <3> QED
        BY <1>3, <2>2, <3>1, ClaimedInv DEF ClaimError, history
    <2> QED
      BY <1>3, <2>1, <2>2 DEF ClaimError
  <1>4. CASE Shutdown(r)
    <2>1. UNCHANGED <<row, crew, login>>
      BY <1>4 DEF Shutdown, history
    <2>2. ASSUME NEW c \in Conns, NEW e \in Epochs
          PROVE  runner'[c][e] = runner[c][e] \/ SlotOK(c, e)'
      <3>1. CASE runner'[c][e] = [runner[c][e] EXCEPT !.cancelled = TRUE]
        <4>1. runner[c][e] \in Runner
          BY DEF TypeOK
        <4>2. /\ runner'[c][e].at = runner[c][e].at
              /\ runner'[c][e].by = runner[c][e].by
              /\ runner'[c][e].token = runner[c][e].token
              /\ runner'[c][e].client = runner[c][e].client
              /\ runner'[c][e].rotated = runner[c][e].rotated
          BY <3>1, <4>1 DEF Runner
        <4> QED
          BY <2>1, <4>2, SlotBySlot DEF SlotOK, Fenced, Matches, Lineage
      <3> QED
        BY <1>4, <3>1 DEF Shutdown
    <2> QED
      BY <2>1, <2>2, RunnersOnly
  <1>5. CASE Halt(r)
    <2>1. UNCHANGED <<row, crew, login>>
      BY <1>5 DEF Halt
    <2>2. ASSUME NEW c \in Conns, NEW e \in Epochs
          PROVE  runner'[c][e] = runner[c][e] \/ SlotOK(c, e)'
      <3>1. CASE runner[c][e].by = r
        <4>1. runner'[c][e] = Bare("done", r, 0, 0)
          BY <1>5, <3>1 DEF Halt
        <4>2. /\ runner'[c][e].at = "done" /\ runner'[c][e].token = 0
              /\ runner'[c][e].client = 0 /\ runner'[c][e].rotated = 0
          BY <4>1 DEF Bare
        <4>3. e <= row[c].epoch
          BY <3>1, SlotBySlot, LeasesAssumption DEF SlotOK
        <4>4. crew[c].issued \in 0..MaxToken
          BY DEF TypeOK, Crew
        <4> QED
          BY <2>1, <4>2, <4>3, <4>4, LeasesAssumption DEF SlotOK, Lineage, InSession
      <3> QED
        BY <1>5, <3>1 DEF Halt
    <2> QED
      BY <2>1, <2>2, RunnersOnly
  <1> QED
    BY <1>1, <1>2, <1>3, <1>4, <1>5 DEF Scheduler

\* LeaseInv is inductive, given the types.
LEMMA InvStep == TypeOK /\ LeaseInv /\ [Next]_vars => LeaseInv'
  <1> SUFFICES ASSUME TypeOK, LeaseInv, [Next]_vars PROVE LeaseInv'
    OBVIOUS
  <1>1. CASE UNCHANGED vars
    BY <1>1, RowsOnly DEF vars
  <1>2. CASE Next
    BY <1>2, EnvironmentInv, RunnerStepInv, SchedulerConnInv, SchedulerInv
       DEF Next
  <1> QED
    BY <1>1, <1>2

\* Slot by slot, whatever can still be written under the fence descends from
\* the latest login.
THEOREM LeaseInvariant == Spec => []LeaseInv
  BY InitInv, InvStep, TypeCorrect, PTL DEF Spec

\* No rotation of an earlier Crew session ever replaces the token of a login:
\* not by a runner that lost its lease, not by one whose cancellation nobody
\* waited for, not after any crash.
THEOREM LoginTokenStands == Spec => []ActiveTokenIsFromLatestLogin
  <1>1. LeaseInv => ActiveTokenIsFromLatestLogin
    BY DEF LeaseInv
  <1> QED
    BY <1>1, LeaseInvariant, PTL

-----------------------------------------------------------------------------
(* Every running goroutine can be reached by the replica that started it.  *)

\* TrackInv for one slot.
Tracked(c, e) ==
    Running(runner[c][e]) =>
        /\ runner[c][e].by \in Replicas
        /\ ~runner[c][e].cancelled => /\ held[runner[c][e].by][c] = e
                                      /\ at[runner[c][e].by] # "stopping"

LEMMA TrackedSlots ==
    /\ TrackInv <=> \A c \in Conns, e \in Epochs : Tracked(c, e)
    /\ TrackInv' <=> \A c \in Conns, e \in Epochs : Tracked(c, e)'
  BY DEF TrackInv, Tracked

\* What a runner's own step does to its record.
Moves(x, y) ==
    \/ y.at = "done"
    \/ /\ y.by = x.by
       /\ y.cancelled = x.cancelled
       /\ y.at = x.at \/ Running(x)

\* The client's token replaced, and a rotation that could not be stored.
WithRotation(x, t)  == [x EXCEPT !.client = t, !.rotated = t]
NotStored(x, err)   == [x EXCEPT !.rotated = 0, !.watchErr = err]

\* Nothing but Begin, a session and what follows it moves a runner on, and
\* nothing clears its cancellation.
LEMMA RunnerMoves ==
    ASSUME TypeOK, NEW c \in Conns, NEW e \in Epochs, RunnerStep(c, e)
    PROVE  /\ UNCHANGED <<at, held>>
           /\ \E y : Become(c, e, y) /\ Moves(runner[c][e], y)
  <1> DEFINE x == runner[c][e]
  <1>1. x \in Runner
    BY DEF TypeOK
  <1>2. Moves(x, Finished(x))
    BY DEF Moves, Finished, Bare
  <1>3. \A t \in 0..MaxToken : Running(x) => Moves(x, Session(x, t))
    BY <1>1 DEF Moves, Session, Runner
  <1>4. /\ Running(x) => /\ Moves(x, [x EXCEPT !.at = "mark"])
                         /\ Moves(x, [x EXCEPT !.at = "watch"])
                         /\ Moves(x, [x EXCEPT !.at = "tick"])
                         /\ Moves(x, [x EXCEPT !.at = "backoff"])
                         /\ Moves(x, [x EXCEPT !.at = "reauth", !.retriedAuth = TRUE])
    BY <1>1 DEF Moves, Runner
  <1>5. \A err \in Errors : Running(x) => Moves(x, SessionEnded(x, err))
    BY <1>1, <1>2, <1>4 DEF SessionEnded, Runner
  <1>7. row[c].token \in 0..MaxToken /\ 0 \in 0..MaxToken
    BY LeasesAssumption DEF TypeOK, Row
  <1>8. x.token \in 0..MaxToken /\ x.watchErr \in Errors
    BY <1>1 DEF Runner
  <1>9. CASE Begin(c, e)
    BY <1>3, <1>4, <1>8, <1>9 DEF Begin, Running, schedVars
  <1>10. CASE Rotate(c, e)
    <2>1. PICK t \in 0..MaxToken : Become(c, e, WithRotation(x, t))
      <3>1. crew[c].issued + 1 \in 0..MaxToken
        BY <1>10, LeasesAssumption DEF Rotate, TypeOK, Crew, Tokens
      <3>2. Become(c, e, WithRotation(x, crew[c].issued + 1))
        BY <1>10 DEF Rotate, WithRotation
      <3> QED
        BY <3>1, <3>2
    <2>2. Moves(x, WithRotation(x, t))
      BY <1>1, <2>1 DEF Moves, Runner, WithRotation
    <2>3. UNCHANGED <<at, held>>
      BY <1>10 DEF Rotate, schedVars
    <2> QED
      BY <2>1, <2>2, <2>3
  <1>11. CASE Persist(c, e) \/ PersistGivesUp(c, e)
    <2>1. UNCHANGED <<at, held>>
      BY <1>11 DEF Persist, PersistGivesUp, schedVars
    <2>2. CASE Become(c, e, [x EXCEPT !.rotated = 0])
      <3>1. Moves(x, [x EXCEPT !.rotated = 0])
        BY <1>1 DEF Moves, Runner
      <3> QED
        BY <2>1, <2>2, <3>1
    <2>3. CASE \E err \in Errors : Become(c, e, NotStored(x, err))
      <3>1. PICK err \in Errors : Become(c, e, NotStored(x, err))
        BY <2>3
      <3>2. Moves(x, NotStored(x, err))
        BY <1>1, <3>1 DEF Moves, Runner, NotStored
      <3> QED
        BY <2>1, <3>1, <3>2
    <2>4. CASE Persist(c, e) /\ ~Fenced(c, e)
      <3>1. Become(c, e, NotStored(x, IF x.watchErr = "none" THEN x.watchErr
                                      ELSE "lease_lost"))
        BY <2>4 DEF Persist, NotStored
      <3>2. (IF x.watchErr = "none" THEN x.watchErr ELSE "lease_lost") \in Errors
        BY <1>8 DEF Errors
      <3> QED
        BY <2>3, <3>1, <3>2
    <2> QED
      BY <1>11, <2>2, <2>4 DEF Persist, PersistGivesUp
  <1>13. CASE Boot(c, e) \/ TickStatusError(c, e) \/ TouchError(c, e)
    BY <1>4, <1>13 DEF Boot, TickStatusError, TouchError, Running, schedVars
  <1>14. CASE BootFails(c, e)
    <2>1. PICK err \in {"unauthorized", "other"} : Become(c, e, SessionEnded(x, err))
      BY <1>14 DEF BootFails
    <2>2. err \in Errors /\ Running(x)
      BY <1>14 DEF BootFails, Errors, Running
    <2> QED
      BY <1>5, <1>14, <2>1, <2>2 DEF BootFails, schedVars
  <1>15. CASE WatcherStops(c, e) \/ CallFails(c, e)
    <2>1. PICK err \in {"unauthorized", "other"} :
             Become(c, e, [x EXCEPT !.watchErr = err])
      BY <1>15 DEF WatcherStops, CallFails
    <2>2. Moves(x, [x EXCEPT !.watchErr = err])
      BY <1>1, <2>1 DEF Moves, Runner
    <2>3. UNCHANGED <<at, held>>
      BY <1>15 DEF WatcherStops, CallFails, schedVars
    <2> QED
      BY <2>1, <2>2, <2>3
  <1>16. CASE WatchDone(c, e)
    BY <1>5, <1>8, <1>16 DEF WatchDone, Running, schedVars
  <1>17. CASE TickStatus(c, e) \/ Touch(c, e)
    BY <1>2, <1>4, <1>17 DEF TickStatus, Touch, Running, schedVars
  <1>18. CASE Reauth(c, e) \/ ReauthError(c, e)
    BY <1>3, <1>4, <1>7, <1>18 DEF Reauth, ReauthError, Running, schedVars
  <1>19. CASE Retry(c, e) \/ RetryError(c, e)
    BY <1>2, <1>3, <1>7, <1>19 DEF Retry, RetryError, Running, schedVars
  <1>20. CASE MarkNeedsRelogin(c, e) \/ MarkError(c, e) \/ Stop(c, e)
    BY <1>2, <1>20 DEF MarkNeedsRelogin, MarkError, Stop, schedVars
  <1> QED
    BY <1>9, <1>10, <1>11, <1>13, <1>14, <1>15, <1>16, <1>17, <1>18, <1>19,
       <1>20 DEF RunnerStep

\* A runner's step leaves every runner within reach.
LEMMA RunnerStepTrack ==
    ASSUME TypeOK, TrackInv, NEW c \in Conns, NEW e \in Epochs, RunnerStep(c, e)
    PROVE  TrackInv'
  <1>1. PICK y : Become(c, e, y) /\ Moves(runner[c][e], y)
    BY RunnerMoves
  <1>2. UNCHANGED <<at, held>>
    BY RunnerMoves
  <1>3. ASSUME NEW d \in Conns, NEW f \in Epochs PROVE Tracked(d, f)'
    <2>1. Tracked(d, f)
      BY TrackedSlots
    <2>2. CASE d = c /\ f = e
      <3>1. runner'[c][e] = y
        BY <1>1 DEF Become, TypeOK
      <3> QED
        BY <1>1, <1>2, <2>1, <2>2, <3>1 DEF Moves, Tracked, Running
    <2>3. CASE d # c \/ f # e
      <3>1. runner'[d][f] = runner[d][f]
        BY <1>1, <2>3 DEF Become, TypeOK
      <3> QED
        BY <1>2, <2>1, <3>1 DEF Tracked
    <2> QED
      BY <2>2, <2>3
  <1> QED
    BY <1>3, TrackedSlots

\* The scheduler forgets a lease only when its runner is done, or once it has
\* been told to stop.
LEMMA SchedulerConnTrack ==
    ASSUME TypeOK, TrackInv, NEW r \in Replicas, NEW c \in Conns,
           SchedulerConn(r, c)
    PROVE  TrackInv'
  <1> DEFINE h == held[r][c]
  <1>1. at' = at
    BY DEF SchedulerConn, Reap, Renew, RenewError, ShutdownRelease
  <1>2. \A q \in Replicas, d \in Conns :
            q # r \/ d # c \/ held' = held => held'[q][d] = held[q][d]
    BY DEF SchedulerConn, Reap, Renew, RenewError, ShutdownRelease, Forget, TypeOK
  <1>3. ASSUME NEW d \in Conns, NEW f \in Epochs PROVE Tracked(d, f)'
    <2>1. Tracked(d, f) /\ runner[d][f] \in Runner
      BY TrackedSlots DEF TypeOK
    <2>2. CASE Renew(r, c) /\ ~Renewable(r, c) /\ d = c /\ f = h
      <3>1. PICK b \in BOOLEAN : /\ runner' = [runner EXCEPT ![c][h].cancelled = b]
                                 /\ b = (runner[c][h].cancelled \/ runner[c][h].at # "done")
        <4>1. runner' = [runner EXCEPT ![c][h].cancelled =
                           runner[c][h].cancelled \/ runner[c][h].at # "done"]
          BY <2>2 DEF Renew, Cancel, TypeOK
        <4> QED
          BY <4>1
      <3>2. /\ runner'[c][h].at = runner[c][h].at
            /\ runner'[c][h].by = runner[c][h].by
            /\ runner'[c][h].cancelled = b
        BY <2>1, <2>2, <3>1 DEF TypeOK, Runner
      <3>3. runner[c][h].at # "done" => runner'[c][h].cancelled
        BY <3>1, <3>2, Zenon
      <3> QED
        BY <2>1, <2>2, <3>2, <3>3 DEF Tracked, Running
    <2>3. CASE Renew(r, c) /\ ~Renewable(r, c) /\ (d # c \/ f # h)
      <3>1. runner'[d][f] = runner[d][f]
        BY <2>3 DEF Renew, Cancel, TypeOK
      <3> QED
        BY <1>1, <1>2, <2>1, <2>3, <3>1 DEF Tracked
    <2>4. CASE Renew(r, c) /\ Renewable(r, c)
      BY <1>1, <2>1, <2>4 DEF Renew, Tracked
    <2>5. CASE Reap(r, c)
      <3>1. runner' = runner
        BY <2>5 DEF Reap
      <3>2. held' = held \/ runner[c][h].at = "done"
        BY <2>5 DEF Reap
      <3> QED
        BY <1>1, <1>2, <2>1, <3>1, <3>2 DEF Tracked, Running
    <2>6. CASE RenewError(r, c)
      BY <1>1, <2>1, <2>6 DEF RenewError, Tracked
    <2>7. CASE ShutdownRelease(r, c)
      <3>1. runner' = runner /\ at[r] = "stopping"
        BY <2>7 DEF ShutdownRelease
      <3> QED
        BY <1>1, <1>2, <2>1, <3>1 DEF Tracked
    <2> QED
      BY <2>2, <2>3, <2>4, <2>5, <2>6, <2>7 DEF SchedulerConn
  <1> QED
    BY <1>3, TrackedSlots

\* A claim starts runners for connections the replica has none for, and the
\* shutdown reaches all it has.
LEMMA SchedulerTrack ==
    ASSUME TypeOK, TrackInv, NEW r \in Replicas, Scheduler(r)
    PROVE  TrackInv'
  <1>1. CASE StartPass(r) \/ StartRenewing(r) \/ ClaimError(r) \/ DeadlinePasses(r)
    <2>1. UNCHANGED <<held, runner>>
      BY <1>1 DEF StartPass, StartRenewing, ClaimError, DeadlinePasses
    <2>2. \A q \in Replicas : at[q] # "stopping" => at'[q] # "stopping"
      BY <1>1 DEF StartPass, StartRenewing, ClaimError, DeadlinePasses, TypeOK
    <2> QED
      BY <2>1, <2>2 DEF TrackInv
  <1>2. CASE Claim(r)
    <2>1. PICK S \in Batches(r) :
            /\ held' = [held EXCEPT ![r] = [c \in Conns |->
                 IF c \in S \ Held(r) THEN row[c].epoch + 1 ELSE @[c]]]
            /\ runner' = [c \in Conns |-> IF c \in S \ Held(r)
                 THEN [runner[c] EXCEPT ![row[c].epoch + 1] = NewRunner(r, c)]
                 ELSE runner[c]]
      BY <1>2 DEF Claim
    <2>2. \A q \in Replicas : at[q] # "stopping" => at'[q] # "stopping"
      BY <1>2 DEF Claim, TypeOK
    <2>3. at'[r] # "stopping"
      BY <1>2 DEF Claim, TypeOK
    <2>4. ASSUME NEW c \in Conns, NEW e \in Epochs PROVE Tracked(c, e)'
      <3>1. Tracked(c, e)
        BY TrackedSlots
      <3>2. \A q \in Replicas : q # r => held'[q][c] = held[q][c]
        BY <2>1 DEF TypeOK
      <3>3. CASE c \notin S \ Held(r)
        <4>1. runner'[c] = runner[c]
          BY <2>1, <3>3
        <4>2. held'[r][c] = held[r][c]
          BY <2>1, <3>3 DEF TypeOK
        <4> QED
          BY <2>2, <3>1, <3>2, <4>1, <4>2 DEF Tracked
      <3>4. CASE c \in S \ Held(r) /\ e = row[c].epoch + 1
        <4>1. runner'[c][e] = NewRunner(r, c)
          BY <2>1, <3>4 DEF TypeOK
        <4>2. held'[r][c] = e
          BY <2>1, <3>4 DEF TypeOK
        <4> QED
          BY <2>3, <4>1, <4>2 DEF Tracked, NewRunner, Bare
      <3>5. CASE c \in S \ Held(r) /\ e # row[c].epoch + 1
        <4>1. runner'[c][e] = runner[c][e]
          BY <2>1, <3>5 DEF TypeOK
        <4>2. held[r][c] # e
          BY <3>5, LeasesAssumption DEF Held, Epochs
        <4> QED
          BY <2>2, <3>1, <3>2, <4>1, <4>2 DEF Tracked
      <3> QED
        BY <3>3, <3>4, <3>5
    <2> QED
      BY <2>4, TrackedSlots
  <1>3. CASE Shutdown(r)
    <2>1. held' = held /\ at' = [at EXCEPT ![r] = "stopping"]
      BY <1>3 DEF Shutdown
    <2>2. ASSUME NEW c \in Conns, NEW e \in Epochs PROVE Tracked(c, e)'
      <3>1. Tracked(c, e) /\ runner[c][e] \in Runner
        BY TrackedSlots DEF TypeOK
      <3>2. CASE held[r][c] = e /\ runner[c][e].at # "done"
        <4>1. runner'[c][e] = [runner[c][e] EXCEPT !.cancelled = TRUE]
          BY <1>3, <3>2 DEF Shutdown
        <4>2. /\ runner'[c][e].at = runner[c][e].at
              /\ runner'[c][e].by = runner[c][e].by
              /\ runner'[c][e].cancelled
          BY <3>1, <4>1 DEF Runner
        <4> QED
          BY <3>1, <4>2 DEF Tracked, Running
      <3>3. CASE ~(held[r][c] = e /\ runner[c][e].at # "done")
        <4>1. runner'[c][e] = runner[c][e]
          BY <1>3, <3>3 DEF Shutdown
        <4>2. \A q \in Replicas : q # r => at'[q] = at[q]
          BY <2>1 DEF TypeOK
        <4> QED
          BY <2>1, <3>1, <3>3, <4>1, <4>2 DEF Tracked, Running
      <3> QED
        BY <3>2, <3>3
    <2> QED
      BY <2>2, TrackedSlots
  <1>4. CASE Halt(r)
    <2>1. ASSUME NEW c \in Conns, NEW e \in Epochs PROVE Tracked(c, e)'
      <3>1. Tracked(c, e)
        BY TrackedSlots
      <3>2. CASE runner[c][e].by = r
        <4>1. runner'[c][e] = Bare("done", r, 0, 0)
          BY <1>4, <3>2 DEF Halt
        <4> QED
          BY <4>1 DEF Tracked, Running, Bare
      <3>3. CASE runner[c][e].by # r
        <4>1. runner'[c][e] = runner[c][e]
          BY <1>4, <3>3 DEF Halt
        <4>2. \A q \in Replicas : q # r => at'[q] = at[q] /\ held'[q] = held[q]
          BY <1>4 DEF Halt, TypeOK
        <4> QED
          BY <3>1, <3>3, <4>1, <4>2 DEF Tracked
      <3> QED
        BY <3>2, <3>3
    <2> QED
      BY <2>1, TrackedSlots
  <1> QED
    BY <1>1, <1>2, <1>3, <1>4 DEF Scheduler

\* TrackInv is inductive, given the types.
LEMMA TrackStep == TypeOK /\ TrackInv /\ [Next]_vars => TrackInv'
  <1> SUFFICES ASSUME TypeOK, TrackInv, [Next]_vars PROVE TrackInv'
    OBVIOUS
  <1>1. CASE UNCHANGED vars
    BY <1>1 DEF vars, TrackInv
  <1>2. ASSUME NEW c \in Conns, Environment(c) PROVE TrackInv'
    <2>1. UNCHANGED <<at, held, runner>>
      BY <1>2 DEF Environment, Login, Disable, Expire, Revoke, schedVars
    <2> QED
      BY <2>1 DEF TrackInv
  <1>3. CASE Next
    BY <1>2, <1>3, RunnerStepTrack, SchedulerConnTrack, SchedulerTrack DEF Next
  <1> QED
    BY <1>1, <1>3

\* No runner is leaked, whatever is lost, cancelled, claimed again or shut down
\* on the way: one that runs and was not told to stop is the one its scheduler
\* looks after.
THEOREM RunnersTracked == Spec => []RunnersAreTracked
  <1>1. Init => TrackInv
    BY DEF Init, TrackInv, Running, NoRunner, Bare
  <1>2. TrackInv => RunnersAreTracked
    BY DEF TrackInv, RunnersAreTracked, Running
  <1> QED
    BY <1>1, <1>2, TrackStep, TypeCorrect, PTL DEF Spec

-----------------------------------------------------------------------------
(* The configured limit.                                                   *)

\* A batch fits into the room a replica has left.
LEMMA BatchFits ==
    ASSUME TypeOK, NEW r \in Replicas, MaxPerReplica # 0,
           Cardinality(Held(r)) <= MaxPerReplica,
           NEW S \in Batches(r), NEW H \in SUBSET (Held(r) \cup S)
    PROVE  Cardinality(H) <= MaxPerReplica
  <1>1. /\ S \subseteq Conns
        /\ Cardinality(S) <= MaxPerReplica - Cardinality(Held(r))
    BY DEF Batches
  <1>2. IsFiniteSet(S) /\ IsFiniteSet(Held(r))
    BY <1>1, LeasesAssumption, FS_Subset DEF Held
  <1>3. /\ IsFiniteSet(Held(r) \cup S)
        /\ Cardinality(Held(r) \cup S) =
             Cardinality(Held(r)) + Cardinality(S) - Cardinality(Held(r) \cap S)
    BY <1>2, FS_Union
  <1>4. Cardinality(H) <= Cardinality(Held(r) \cup S)
    BY <1>3, FS_Subset
  <1>5. IsFiniteSet(Held(r) \cap S) /\ IsFiniteSet(H)
    BY <1>2, <1>3, FS_Subset
  <1>6. /\ Cardinality(H) \in Nat /\ Cardinality(S) \in Nat
        /\ Cardinality(Held(r)) \in Nat /\ Cardinality(Held(r) \cap S) \in Nat
        /\ MaxPerReplica \in Nat
    BY <1>2, <1>5, FS_CardinalityType, LeasesAssumption
  <1> QED
    BY <1>1, <1>3, <1>4, <1>6

\* Only a claim adds to what a replica holds.
LEMMA HeldShrinks ==
    ASSUME TypeOK, [Next]_vars, NEW q \in Replicas, ~Claim(q)
    PROVE  Held(q)' \subseteq Held(q)
  <1>1. CASE UNCHANGED held
    BY <1>1 DEF Held
  <1>2. ASSUME NEW r \in Replicas, NEW c \in Conns, Forget(r, c)
        PROVE  Held(q)' \subseteq Held(q)
    BY <1>2 DEF Forget, Held, TypeOK
  <1>3. ASSUME NEW c \in Conns, Environment(c) PROVE UNCHANGED held
    BY <1>3 DEF Environment, Login, Disable, Expire, Revoke, schedVars
  <1>4. ASSUME NEW c \in Conns, NEW e \in Epochs, RunnerStep(c, e)
        PROVE  UNCHANGED held
    BY <1>4, RunnerMoves
  <1>5. ASSUME NEW r \in Replicas, NEW c \in Conns, SchedulerConn(r, c)
        PROVE  UNCHANGED held \/ Forget(r, c)
    BY <1>5 DEF SchedulerConn, Reap, Renew, RenewError, ShutdownRelease
  <1>6. ASSUME NEW r \in Replicas, Scheduler(r)
        PROVE  Held(q)' \subseteq Held(q)
    <2>1. CASE Claim(r)
      <3>1. r # q
        BY <2>1
      <3> QED
        BY <2>1, <3>1 DEF Claim, Held, TypeOK
    <2>2. CASE Halt(r)
      BY <2>2 DEF Halt, Held, TypeOK
    <2> QED
      BY <1>1, <1>6, <2>1, <2>2 DEF Scheduler, StartPass, StartRenewing,
         ClaimError, Shutdown, DeadlinePasses
  <1> QED
    BY <1>1, <1>2, <1>3, <1>4, <1>5, <1>6 DEF Next, vars

\* However passes, failed renewals and lost leases interleave, a replica never
\* looks after more connections than it is configured for.
THEOREM LimitKept == Spec => []WithinLimit
  <1>1. Init => WithinLimit
    <2> SUFFICES ASSUME Init, NEW r \in Replicas
                 PROVE  Cardinality(Held(r)) <= MaxPerReplica
      BY DEF WithinLimit
    <2>1. Held(r) = {}
      BY DEF Init, Held
    <2> QED
      BY <2>1, FS_EmptySet, LeasesAssumption
  <1>2. TypeOK /\ WithinLimit /\ [Next]_vars => WithinLimit'
    <2> SUFFICES ASSUME TypeOK, WithinLimit, [Next]_vars, MaxPerReplica # 0,
                        NEW q \in Replicas
                 PROVE  Cardinality(Held(q)') <= MaxPerReplica
      BY DEF WithinLimit
    <2>1. Cardinality(Held(q)) <= MaxPerReplica
      BY DEF WithinLimit
    <2>2. CASE Claim(q)
      <3>1. PICK S \in Batches(q) :
              held' = [held EXCEPT ![q] = [c \in Conns |->
                 IF c \in S \ Held(q) THEN row[c].epoch + 1 ELSE @[c]]]
        BY <2>2 DEF Claim
      <3>2. Held(q)' \subseteq Held(q) \cup S
        BY <3>1 DEF Held, TypeOK
      <3> QED
        BY <2>1, <3>2, BatchFits
    <2>3. CASE ~Claim(q)
      <3>1. Held(q)' \subseteq Held(q)
        BY <2>3, HeldShrinks
      <3>2. IsFiniteSet(Held(q))
        BY LeasesAssumption, FS_Subset DEF Held
      <3>3. Cardinality(Held(q)') <= Cardinality(Held(q))
        BY <3>1, <3>2, FS_Subset
      <3>4. /\ Cardinality(Held(q)) \in Nat /\ Cardinality(Held(q)') \in Nat
            /\ MaxPerReplica \in Nat
        BY <3>1, <3>2, FS_Subset, FS_CardinalityType, LeasesAssumption
      <3> QED
        BY <2>1, <3>3, <3>4
    <2> QED
      BY <2>2, <2>3
  <1> QED
    BY <1>1, <1>2, TypeCorrect, PTL DEF Spec

=============================================================================
