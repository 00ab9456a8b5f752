-------------------------- MODULE LeaseTokensProofs --------------------------
(***************************************************************************)
(* Which of the tokens of a connection Crew still accepts, and who has it: *)
(* the row, the runner that owns the lease, or a rotation in flight.       *)
(***************************************************************************)
EXTENDS LeasesProofs

\* OneTokenPerLogin and StoredTokenUsable, of one connection.
TokensOK(c) ==
    /\ \A t \in crew[c].accepted : t <= crew[c].issued
    /\ \A t \in 0..MaxToken : crew[c].origin[t] <= crew[c].issued
    /\ \A t, u \in crew[c].accepted : crew[c].origin[t] = crew[c].origin[u] => t = u
    /\ row[c].status = "active" /\ ~lost[c] =>
         \/ row[c].token \in crew[c].accepted
         \/ \E e \in Epochs : /\ runner[c][e].rotated \in crew[c].accepted
                              /\ crew[c].origin[runner[c][e].rotated] = login[c]

\* InFlightIsPrivate, of one runner.
Private(c, e) ==
    runner[c][e].rotated # 0 =>
        /\ row[c].token # runner[c][e].rotated
        /\ \A f \in Epochs \ {e} : /\ runner[c][f].token # runner[c][e].rotated
                                   /\ runner[c][f].client # runner[c][e].rotated
                                   /\ runner[c][f].rotated # runner[c][e].rotated

\* The rest of TokenInv, of one runner.
InUse(c, e) ==
    runner[c][e].rotated # 0 =>
        /\ runner[c][e].at # "start"
        /\ runner[c][e].rotated \in crew[c].accepted =>
             \/ runner[c][e].at = "done"
             \/ /\ runner[c][e].at \in InSession
                /\ runner[c][e].client = runner[c][e].rotated
        /\ crew[c].origin[runner[c][e].rotated] = login[c] /\ ~lost[c] =>
             runner[c][e].rotated \in crew[c].accepted

Stopped(c, e) ==
    runner[c][e].at \in InSession /\ runner[c][e].watchErr # "none" => Refused(c, e)

Owner(c, e) ==
    Fenced(c, e) /\ row[c].status = "active" =>
        /\ runner[c][e].at = "start" => runner[c][e].token = row[c].token
        /\ runner[c][e].at \in InSession =>
             /\ row[c].token \in crew[c].accepted => runner[c][e].client = row[c].token
             /\ ~lost[c] => runner[c][e].client \in {row[c].token, runner[c][e].rotated}
        /\ runner[c][e].at \in {"reauth", "mark"} => row[c].token \notin crew[c].accepted

RunnerOK(c, e) == InUse(c, e) /\ Stopped(c, e) /\ Owner(c, e)

ConnOK(c) == TokensOK(c) /\ \A e \in Epochs : Private(c, e) /\ RunnerOK(c, e)

\* TokenInv, read connection by connection.
LEMMA ConnByConn == TokenInv <=> \A c \in Conns : ConnOK(c)
  BY DEF TokenInv, OneTokenPerLogin, InFlightIsPrivate, InFlightIsInUse,
         StoppedIsRefused, OwnerKnowsBest, StoredTokenUsable, OwnerUsesStoredToken,
         ConnOK, TokensOK, Private, RunnerOK, InUse, Stopped, Owner

\* The same of the next state.
LEMMA ConnByConnNext == (\A c \in Conns : ConnOK(c)') => TokenInv'
  BY DEF TokenInv, OneTokenPerLogin, InFlightIsPrivate, InFlightIsInUse,
         StoppedIsRefused, OwnerKnowsBest, StoredTokenUsable, OwnerUsesStoredToken,
         ConnOK, TokensOK, Private, RunnerOK, InUse, Stopped, Owner

\* What steps that neither rotate nor store a token nor log in do to one slot:
\* nothing, or a move whose tokens were the slot's own or the row's.
Untouched(c, e) ==
    /\ runner'[c][e].at = runner[c][e].at
    /\ runner'[c][e].token = runner[c][e].token
    /\ runner'[c][e].client = runner[c][e].client
    /\ runner'[c][e].watchErr = runner[c][e].watchErr
    /\ runner'[c][e].rotated = runner[c][e].rotated
    /\ Fenced(c, e)' /\ row'[c].status = "active" => Fenced(c, e)

Moved(c, e) ==
    /\ runner'[c][e].token \in {runner[c][e].token, row[c].token, 0}
    /\ runner'[c][e].client \in {runner[c][e].client, runner[c][e].token, row[c].token, 0}
    /\ \/ runner'[c][e].rotated = runner[c][e].rotated
       \/ /\ runner'[c][e].rotated = 0
          /\ crew[c].origin[runner[c][e].rotated] = login[c] => lost'[c]
    /\ RunnerOK(c, e)'

\* Such steps keep TokenInv, though they may lose a token for good.
LEMMA MovesKeep ==
    ASSUME NEW c \in Conns, ConnOK(c), crew'[c] = crew[c], login'[c] = login[c],
           lost[c] => lost'[c],
           row'[c].token \in {row[c].token, 0},
           row'[c].status = "active" =>
             row[c].status = "active" /\ row'[c].token = row[c].token,
           \A e \in Epochs : Untouched(c, e) \/ Moved(c, e)
    PROVE  ConnOK(c)'
  <1>1. TokensOK(c) /\ \A e \in Epochs : Private(c, e) /\ RunnerOK(c, e)
    BY DEF ConnOK
  <1>2. \A e \in Epochs :
          \/ runner'[c][e].rotated = runner[c][e].rotated
          \/ /\ runner'[c][e].rotated = 0
             /\ crew[c].origin[runner[c][e].rotated] = login[c] => lost'[c]
    BY DEF Untouched, Moved
  <1>3. \A e \in Epochs :
          /\ runner'[c][e].token \in {runner[c][e].token, row[c].token, 0}
          /\ runner'[c][e].client \in
               {runner[c][e].client, runner[c][e].token, row[c].token, 0}
    BY DEF Untouched, Moved
  <1>4. TokensOK(c)'
    BY <1>1, <1>2 DEF TokensOK
  <1>5. ASSUME NEW e \in Epochs PROVE Private(c, e)'
    BY <1>1, <1>2, <1>3 DEF Private
  <1>6. ASSUME NEW e \in Epochs PROVE RunnerOK(c, e)'
    <2>1. CASE Untouched(c, e)
      <3>1. InUse(c, e)'
        BY <1>1, <2>1 DEF Untouched, RunnerOK, InUse
      <3>2. Stopped(c, e)'
        BY <1>1, <2>1 DEF Untouched, RunnerOK, Stopped, Refused
      <3>3. Owner(c, e)'
        BY <1>1, <2>1 DEF Untouched, RunnerOK, Owner
      <3> QED
        BY <3>1, <3>2, <3>3 DEF RunnerOK
    <2>2. CASE Moved(c, e)
      BY <2>2 DEF Moved
    <2> QED
      BY <2>1, <2>2
  <1> QED
    BY <1>4, <1>5, <1>6 DEF ConnOK

\* A step that leaves a connection alone keeps its part of TokenInv.
LEMMA ConnKept ==
    ASSUME NEW c \in Conns, ConnOK(c), row'[c] = row[c], crew'[c] = crew[c],
           login'[c] = login[c], lost'[c] = lost[c], runner'[c] = runner[c]
    PROVE  ConnOK(c)'
  BY DEF ConnOK, TokensOK, Private, RunnerOK, InUse, Stopped, Refused, Owner, Fenced, Matches

\* TokenInv holds before anyone has logged in.
LEMMA InitTokens == Init => TokenInv
  <1> SUFFICES ASSUME Init, NEW c \in Conns PROVE ConnOK(c)
    BY ConnByConn
  <1>1. TokensOK(c)
    BY LeasesAssumption DEF Init, TokensOK
  <1>2. ASSUME NEW e \in Epochs PROVE Private(c, e) /\ RunnerOK(c, e)
    BY <1>1 DEF Init, NoRunner, Bare, Private, RunnerOK, InUse, Stopped, Owner, InSession
  <1> QED
    BY <1>1, <1>2 DEF ConnOK

-----------------------------------------------------------------------------
(* Users and Crew.                                                         *)

\* A login is a token of its own that no client has.
LEMMA LoginTokens ==
    ASSUME TypeOK, LeaseInv, NEW c \in Conns, ConnOK(c), Login(c)
    PROVE  ConnOK(c)'
  <1> DEFINE t == crew[c].issued + 1
  <1>1. /\ t \in 0..MaxToken /\ t # 0 /\ t > crew[c].issued
        /\ crew[c].issued \in 0..MaxToken
    BY LeasesAssumption DEF Login, Tokens, TypeOK, Crew
  <1>2. /\ row'[c].token = t /\ row'[c].holder = NoHolder
    BY DEF Login, Released, TypeOK, Row
  <1>3. /\ crew'[c].issued = t
        /\ crew'[c].accepted = crew[c].accepted \cup {t}
        /\ crew'[c].origin[t] = t
        /\ \A u \in 0..MaxToken : u # t => crew'[c].origin[u] = crew[c].origin[u]
        /\ login'[c] = t /\ runner' = runner
    BY <1>1 DEF Login, Issue, TypeOK, Crew
  <1>4. /\ crew[c].accepted \subseteq 0..MaxToken
        /\ \A u \in 0..MaxToken : crew[c].origin[u] \in 0..MaxToken
    <2>1. crew[c] \in Crew
      BY DEF TypeOK
    <2>2. Tokens \subseteq 0..MaxToken
      BY LeasesAssumption DEF Tokens
    <2> QED
      BY <2>1, <2>2 DEF Crew
  <1>5. \A e \in Epochs :
          /\ runner[c][e].token \in 0..MaxToken /\ runner[c][e].token <= crew[c].issued
          /\ runner[c][e].client \in 0..MaxToken /\ runner[c][e].client <= crew[c].issued
          /\ runner[c][e].rotated \in 0..MaxToken /\ runner[c][e].rotated <= crew[c].issued
    BY DEF TypeOK, Runner, LeaseInv, TokensAreIssued
  <1>6. TokensOK(c)'
    <2>1. \A u \in crew[c].accepted : u <= crew[c].issued /\ crew[c].origin[u] <= crew[c].issued
      BY <1>4 DEF ConnOK, TokensOK
    <2> HIDE DEF t
    <2> QED
      BY <1>1, <1>2, <1>3, <1>4, <2>1 DEF ConnOK, TokensOK
  <1>7. ASSUME NEW e \in Epochs PROVE Private(c, e)' /\ RunnerOK(c, e)'
    <2>1. Private(c, e)'
      BY <1>1, <1>2, <1>3, <1>5 DEF ConnOK, Private
    <2>2. InUse(c, e)'
      <3>1. crew[c].origin[runner[c][e].rotated] <= crew[c].issued
        BY <1>5 DEF ConnOK, TokensOK
      <3>2. runner[c][e].rotated # t /\ crew'[c].origin[runner[c][e].rotated] # t
        BY <1>1, <1>3, <1>4, <1>5, <3>1
      <3> HIDE DEF t
      <3> QED
        BY <1>3, <3>2 DEF ConnOK, RunnerOK, InUse
    <2>3. Stopped(c, e)'
      <3>1. runner[c][e].client # t
        BY <1>1, <1>5
      <3> HIDE DEF t
      <3> QED
        BY <1>3, <3>1 DEF ConnOK, RunnerOK, Stopped, Refused
    <2>4. Owner(c, e)'
      BY <1>2 DEF Owner, Fenced, Matches
    <2> QED
      BY <2>1, <2>2, <2>3, <2>4 DEF RunnerOK
  <1> QED
    BY <1>6, <1>7 DEF ConnOK

\* Crew ends a session: if it is the latest login's, the login is lost.
LEMMA RevokeTokens ==
    ASSUME TypeOK, LeaseInv, NEW c \in Conns, ConnOK(c), Revoke(c)
    PROVE  ConnOK(c)'
  <1>1. PICK t \in crew[c].accepted :
          /\ crew' = [crew EXCEPT ![c].accepted = @ \ {t}]
          /\ lost' = [lost EXCEPT ![c] = @ \/ crew[c].origin[t] = login[c]]
          /\ UNCHANGED <<row, schedVars, runner, login>>
    BY DEF Revoke
  <1>2. /\ crew'[c].issued = crew[c].issued /\ crew'[c].origin = crew[c].origin
        /\ crew'[c].accepted = crew[c].accepted \ {t}
        /\ lost'[c] <=> lost[c] \/ crew[c].origin[t] = login[c]
        /\ row' = row /\ runner' = runner /\ login' = login
    BY <1>1 DEF TypeOK, Crew
  <1>3. RowOK(c)
    BY SlotBySlot
  <1>4. TokensOK(c)'
    BY <1>2, <1>3 DEF ConnOK, TokensOK, RowOK
  <1>5. ASSUME NEW e \in Epochs PROVE Private(c, e)' /\ RunnerOK(c, e)'
    <2>1. Private(c, e)'
      BY <1>2 DEF ConnOK, Private
    <2>2. InUse(c, e)'
      BY <1>2 DEF ConnOK, RunnerOK, InUse
    <2>3. Stopped(c, e)'
      BY <1>2 DEF ConnOK, RunnerOK, Stopped, Refused
    <2>4. Owner(c, e)'
      BY <1>2 DEF ConnOK, RunnerOK, Owner, Fenced, Matches
    <2> QED
      BY <2>1, <2>2, <2>3, <2>4 DEF RunnerOK
  <1> QED
    BY <1>4, <1>5 DEF ConnOK

\* Nothing a user or Crew does breaks TokenInv.
LEMMA EnvironmentTokens ==
    ASSUME TypeOK, LeaseInv, TokenInv, NEW c \in Conns, Environment(c)
    PROVE  TokenInv'
  <1>1. \A d \in Conns : ConnOK(d)
    BY ConnByConn
  <1>2. ASSUME NEW d \in Conns, d # c
        PROVE  ConnOK(d)'
    <2>1. /\ row'[d] = row[d] /\ crew'[d] = crew[d] /\ login'[d] = login[d]
          /\ lost'[d] = lost[d] /\ runner' = runner
      BY <1>2 DEF Environment, Login, Disable, Expire, Revoke, Issue, history, TypeOK
    <2> QED
      BY <1>1, <2>1, ConnKept
  <1>3. ConnOK(c)'
    <2>1. CASE Login(c)
      BY <1>1, <2>1, LoginTokens
    <2>2. CASE Disable(c) \/ Expire(c)
      <3>1. /\ row'[c].token \in {row[c].token, 0}
            /\ row'[c].status = "active" =>
                 row[c].status = "active" /\ row'[c].token = row[c].token
            /\ row'[c].holder = row[c].holder /\ row'[c].epoch = row[c].epoch
            /\ crew' = crew /\ runner' = runner /\ login' = login /\ lost' = lost
        BY <2>2 DEF Disable, Expire, TypeOK, Row, Wiped, history
      <3>2. \A e \in Epochs : Untouched(c, e)
        BY <3>1 DEF Untouched, Fenced, Matches
      <3> QED
        BY <1>1, <3>1, <3>2, MovesKeep
    <2>3. CASE Revoke(c)
      BY <1>1, <2>3, RevokeTokens
    <2> QED
      BY <2>1, <2>2, <2>3 DEF Environment
  <1> QED
    BY <1>2, <1>3, ConnByConnNext

-----------------------------------------------------------------------------
(* The runners.                                                            *)

\* A step of one runner that stores nothing keeps TokenInv if it leaves the
\* runner's own slot in order; it may give up a rotation if that is on record.
LEMMA OneRunnerMoves ==
    ASSUME TypeOK, TokenInv, NEW c \in Conns, NEW e \in Epochs, NEW y,
           Become(c, e, y), UNCHANGED <<row, crew, login>>,
           \A d \in Conns \ {c} : lost'[d] = lost[d],
           lost[c] => lost'[c],
           y.by = runner[c][e].by,
           y.token \in {runner[c][e].token, row[c].token, 0},
           y.client \in {runner[c][e].client, runner[c][e].token, row[c].token, 0},
           \/ y.rotated = runner[c][e].rotated
           \/ /\ y.rotated = 0
              /\ crew[c].origin[runner[c][e].rotated] = login[c] => lost'[c],
           RunnerOK(c, e)'
    PROVE  TokenInv'
  <1>1. \A d \in Conns, f \in Epochs :
          runner'[d][f] = IF d = c /\ f = e THEN y ELSE runner[d][f]
    BY DEF Become, TypeOK
  <1>2. \A d \in Conns : ConnOK(d)
    BY ConnByConn
  <1>3. ASSUME NEW d \in Conns, d # c PROVE ConnOK(d)'
    <2>1. runner'[d] = runner[d]
      BY <1>3 DEF Become, TypeOK
    <2> QED
      BY <1>2, <1>3, <2>1, ConnKept
  <1>4. ConnOK(c)'
    <2>1. ASSUME NEW f \in Epochs, f # e PROVE Untouched(c, f)
      BY <1>1, <2>1 DEF Untouched, Fenced, Matches
    <2>2. Moved(c, e)
      BY <1>1 DEF Moved
    <2>3. \A f \in Epochs : Untouched(c, f) \/ Moved(c, f)
      BY <2>1, <2>2
    <2> QED
      BY <1>2, <2>3, MovesKeep
  <1> QED
    BY <1>3, <1>4, ConnByConnNext

\* The slot a runner moves to, when row and Crew stay: out of any session.
LEMMA LeavesSession ==
    ASSUME TypeOK, TokenInv, NEW c \in Conns, NEW e \in Epochs, NEW y,
           Become(c, e, y), UNCHANGED <<row, crew, login, lost>>,
           y.rotated = runner[c][e].rotated, y.by = runner[c][e].by,
           y.at \in {"done", "reauth", "mark", "backoff"},
           y.at # "done" /\ y.rotated # 0 => y.rotated \notin crew[c].accepted,
           y.at \in {"reauth", "mark"} /\ Fenced(c, e) /\ row[c].status = "active" =>
             row[c].token \notin crew[c].accepted
    PROVE  RunnerOK(c, e)'
  <1>1. runner'[c][e] = y /\ (Fenced(c, e)' <=> Fenced(c, e))
    BY DEF Become, TypeOK, Fenced, Matches
  <1>2. RunnerOK(c, e)
    BY ConnByConn DEF ConnOK
  <1>3. y.at \notin InSession \cup {"start"}
    BY DEF InSession
  <1>4. InUse(c, e)'
    BY <1>1, <1>2 DEF InUse, RunnerOK
  <1>5. Stopped(c, e)'
    BY <1>1, <1>3 DEF Stopped
  <1>6. Owner(c, e)'
    BY <1>1, <1>3 DEF Owner
  <1> QED
    BY <1>4, <1>5, <1>6 DEF RunnerOK

\* Run returns.
LEMMA FinishTokens ==
    ASSUME TypeOK, TokenInv, NEW c \in Conns, NEW e \in Epochs,
           Become(c, e, Finished(runner[c][e])), UNCHANGED <<row, crew, login, lost>>
    PROVE  TokenInv'
  <1> DEFINE y == Finished(runner[c][e])
  <1>1. /\ y.at = "done" /\ y.rotated = runner[c][e].rotated /\ y.by = runner[c][e].by
        /\ y.token = 0 /\ y.client = 0
    BY DEF Finished, Bare
  <1>2. Become(c, e, y)
    OBVIOUS
  <1> HIDE DEF y
  <1>3. RunnerOK(c, e)'
    BY <1>1, <1>2, LeavesSession
  <1> QED
    BY <1>1, <1>2, <1>3, OneRunnerMoves

\* A session starts from the row's token: at the first claim, or when no
\* rotation that is still good is in flight.
LEMMA SessionTokens ==
    ASSUME TypeOK, TokenInv, NEW c \in Conns, NEW e \in Epochs, NEW t,
           Become(c, e, Session(runner[c][e], t)), UNCHANGED <<row, crew, login, lost>>,
           runner[c][e].at \in {"start", "reauth", "backoff"},
           t \in {runner[c][e].token, row[c].token},
           Fenced(c, e) /\ row[c].status = "active" => t = row[c].token
    PROVE  TokenInv'
  <1> DEFINE y == Session(runner[c][e], t)
  <1>1. /\ y.at = "boot" /\ y.rotated = runner[c][e].rotated /\ y.by = runner[c][e].by
        /\ y.token = t /\ y.client = t /\ y.watchErr = "none"
    <2>1. runner[c][e] \in Runner
      BY DEF TypeOK
    <2> QED
      BY <2>1 DEF Session, Runner
  <1>2. runner'[c][e] = y /\ (Fenced(c, e)' <=> Fenced(c, e))
    BY <1>1 DEF Become, TypeOK, Fenced, Matches
  <1>3. RunnerOK(c, e)
    BY ConnByConn DEF ConnOK
  <1> HIDE DEF y
  <1>4. RunnerOK(c, e)'
    <2>1. InUse(c, e)'
      BY <1>1, <1>2, <1>3 DEF InUse, RunnerOK, InSession
    <2>2. Stopped(c, e)'
      BY <1>1, <1>2 DEF Stopped
    <2>3. Owner(c, e)'
      BY <1>1, <1>2 DEF Owner, InSession
    <2> QED
      BY <2>1, <2>2, <2>3 DEF RunnerOK
  <1>5. Become(c, e, y)
    BY DEF y
  <1> QED
    BY <1>1, <1>4, <1>5, OneRunnerMoves

\* A runner gives up without having been in a session.
LEMMA MarkTokens ==
    ASSUME TypeOK, LeaseInv, TokenInv, NEW c \in Conns, NEW e \in Epochs,
           Become(c, e, [runner[c][e] EXCEPT !.at = "mark"]),
           UNCHANGED <<row, crew, login, lost>>,
           \/ runner[c][e].at = "start" /\ runner[c][e].token = Wiped
           \/ runner[c][e].at = "reauth"
    PROVE  TokenInv'
  <1> DEFINE x == runner[c][e]
             y == [x EXCEPT !.at = "mark"]
  <1>1. /\ y.at = "mark" /\ y.rotated = x.rotated /\ y.by = x.by
        /\ y.token = x.token /\ y.client = x.client
    BY DEF TypeOK, Runner
  <1>2. RunnerOK(c, e) /\ RowOK(c)
    BY ConnByConn, SlotBySlot DEF ConnOK
  <1>3. x.rotated # 0 => x.rotated \notin crew[c].accepted
    BY <1>2 DEF RunnerOK, InUse, InSession
  <1>4. Fenced(c, e) /\ row[c].status = "active" => row[c].token \notin crew[c].accepted
    BY <1>2 DEF RunnerOK, Owner, RowOK
  <1>5. Become(c, e, y)
    OBVIOUS
  <1> HIDE DEF y
  <1>6. RunnerOK(c, e)'
    BY <1>1, <1>3, <1>4, <1>5, LeavesSession
  <1> QED
    BY <1>1, <1>5, <1>6, OneRunnerMoves

\* A session goes on: at its next place, or with an error on record once the
\* client's token is refused.
LEMMA StayTokens ==
    ASSUME TypeOK, TokenInv, NEW c \in Conns, NEW e \in Epochs, NEW y,
           Become(c, e, y), UNCHANGED <<row, crew, login, lost>>,
           runner[c][e].at \in InSession, y.at \in InSession,
           y.rotated = runner[c][e].rotated, y.by = runner[c][e].by,
           y.token = runner[c][e].token, y.client = runner[c][e].client,
           y.watchErr = runner[c][e].watchErr \/ Refused(c, e)
    PROVE  TokenInv'
  <1>1. runner'[c][e] = y /\ (Fenced(c, e)' <=> Fenced(c, e))
    BY DEF Become, TypeOK, Fenced, Matches
  <1>2. RunnerOK(c, e)
    BY ConnByConn DEF ConnOK
  <1>3. InUse(c, e)'
    BY <1>1, <1>2 DEF InUse, RunnerOK, InSession
  <1>4. Stopped(c, e)'
    BY <1>1, <1>2 DEF Stopped, RunnerOK, Refused
  <1>5. Owner(c, e)'
    BY <1>1, <1>2 DEF Owner, RunnerOK, InSession
  <1>6. RunnerOK(c, e)'
    BY <1>3, <1>4, <1>5 DEF RunnerOK
  <1> QED
    BY <1>6, OneRunnerMoves

\* A session ends with an error.  After a refusal no token of the runner's is good.
LEMMA EndTokens ==
    ASSUME TypeOK, TokenInv, NEW c \in Conns, NEW e \in Epochs, NEW err,
           Become(c, e, SessionEnded(runner[c][e], err)),
           UNCHANGED <<row, crew, login, lost>>,
           runner[c][e].at \in InSession,
           err = "unauthorized" => Refused(c, e),
           runner[c][e].rotated = 0 \/ Refused(c, e)
    PROVE  TokenInv'
  <1> DEFINE x == runner[c][e]
             y == SessionEnded(x, err)
  <1>1. x \in Runner
    BY DEF TypeOK
  <1>2. CASE y = Finished(x)
    BY <1>2, FinishTokens
  <1>3. CASE /\ y.at \in {"reauth", "mark", "backoff"}
             /\ y.at # "backoff" => err = "unauthorized"
             /\ y.rotated = x.rotated /\ y.by = x.by
             /\ y.token = x.token /\ y.client = x.client
    <2>1. RunnerOK(c, e)
      BY ConnByConn DEF ConnOK
    <2>2. x.rotated # 0 => x.rotated \notin crew[c].accepted
      BY <2>1 DEF RunnerOK, InUse, Refused, InSession
    <2>3. y.at # "backoff" /\ Fenced(c, e) /\ row[c].status = "active" =>
            row[c].token \notin crew[c].accepted
      BY <1>3, <2>1 DEF RunnerOK, Owner, Refused
    <2>4. Become(c, e, y)
      OBVIOUS
    <2> HIDE DEF y
    <2>5. RunnerOK(c, e)'
      BY <1>3, <2>2, <2>3, <2>4, LeavesSession
    <2> QED
      BY <1>3, <2>4, <2>5, OneRunnerMoves
  <1>4. \/ y = Finished(x)
        \/ y = [x EXCEPT !.at = "reauth", !.retriedAuth = TRUE] /\ err = "unauthorized"
        \/ y = [x EXCEPT !.at = "mark"] /\ err = "unauthorized"
        \/ y = [x EXCEPT !.at = "backoff"]
    BY <1>1 DEF SessionEnded, Runner
  <1> QED
    BY <1>1, <1>2, <1>3, <1>4 DEF Runner

\* Crew replaces a good token by one that nobody else has.
LEMMA RotateTokens ==
    ASSUME TypeOK, LeaseInv, TokenInv, NEW c \in Conns, NEW e \in Epochs, Rotate(c, e)
    PROVE  TokenInv'
  <1> DEFINE x == runner[c][e]
             t == crew[c].issued + 1
             y == [x EXCEPT !.client = t, !.rotated = t]
             from == crew[c].origin[x.client]
  <1>1. /\ t \in 0..MaxToken /\ t # 0 /\ t > crew[c].issued
        /\ crew[c].issued \in 0..MaxToken
    BY LeasesAssumption DEF Rotate, Tokens, TypeOK, Crew
  <1>2. /\ crew'[c].issued = t
        /\ crew'[c].accepted = (crew[c].accepted \ {x.client}) \cup {t}
        /\ crew'[c].origin[t] = from
        /\ \A u \in 0..MaxToken : u # t => crew'[c].origin[u] = crew[c].origin[u]
        /\ \A d \in Conns : d # c => crew'[d] = crew[d]
        /\ row' = row /\ login' = login /\ lost' = lost
    BY <1>1 DEF Rotate, Issue, TypeOK, Crew, history
  <1>3. \A d \in Conns, f \in Epochs :
          runner'[d][f] = IF d = c /\ f = e THEN y ELSE runner[d][f]
    BY DEF Rotate, Become, TypeOK
  <1>4. /\ x.at \in InSession /\ x.rotated = 0 /\ x.client \in crew[c].accepted
        /\ y.at = x.at /\ y.by = x.by /\ y.token = x.token
        /\ y.client = t /\ y.rotated = t /\ y.watchErr = x.watchErr
    <2>1. x \in Runner
      BY DEF TypeOK
    <2> QED
      BY <2>1 DEF Rotate, Runner, Refused
  <1>5. /\ crew[c].accepted \subseteq 0..MaxToken
        /\ \A u \in 0..MaxToken : crew[c].origin[u] \in 0..MaxToken
        /\ row[c].token \in 0..MaxToken /\ row[c].token <= crew[c].issued
    <2>1. crew[c] \in Crew /\ row[c] \in Row
      BY DEF TypeOK
    <2>2. Tokens \subseteq 0..MaxToken
      BY LeasesAssumption DEF Tokens
    <2> QED
      BY <2>1, <2>2 DEF Crew, Row, LeaseInv, TokensAreIssued
  <1>6. \A f \in Epochs :
          /\ runner[c][f].token \in 0..MaxToken /\ runner[c][f].token <= crew[c].issued
          /\ runner[c][f].client \in 0..MaxToken /\ runner[c][f].client <= crew[c].issued
          /\ runner[c][f].rotated \in 0..MaxToken /\ runner[c][f].rotated <= crew[c].issued
    BY DEF TypeOK, Runner, LeaseInv, TokensAreIssued
  <1>7. \A d \in Conns : ConnOK(d)
    BY ConnByConn
  <1>8. TokensOK(c) /\ RowOK(c) /\ \A f \in Epochs : Private(c, f) /\ RunnerOK(c, f)
    BY <1>7, SlotBySlot DEF ConnOK
  <1>9. ASSUME NEW d \in Conns, d # c PROVE ConnOK(d)'
    <2>1. runner'[d] = runner[d]
      BY <1>9 DEF Rotate, Become, TypeOK
    <2> QED
      BY <1>2, <1>7, <1>9, <2>1, ConnKept
  <1>10. \A u \in 0..MaxToken : u <= crew[c].issued => u # t
    BY <1>1
  <1> HIDE DEF t, y
  <1>11. TokensOK(c)'
    <2>1. \A u \in crew'[c].accepted : u <= t
      BY <1>1, <1>2, <1>5, <1>8 DEF TokensOK
    <2>2. \A u \in 0..MaxToken : crew'[c].origin[u] <= t
      BY <1>1, <1>2, <1>5, <1>6, <1>8 DEF TokensOK
    <2>3. \A u, v \in crew'[c].accepted : crew'[c].origin[u] = crew'[c].origin[v] => u = v
      <3>1. \A u \in crew[c].accepted : u \in 0..MaxToken /\ u # t
        BY <1>5, <1>8, <1>10 DEF TokensOK
      <3>2. \A u \in crew[c].accepted \ {x.client} : crew[c].origin[u] # from
        BY <1>4, <1>8 DEF TokensOK
      <3> QED
        BY <1>2, <1>8, <3>1, <3>2 DEF TokensOK
    <2>4. row[c].status = "active" /\ ~lost[c] =>
            \/ row[c].token \in crew'[c].accepted
            \/ \E f \in Epochs : /\ runner'[c][f].rotated \in crew'[c].accepted
                                 /\ crew'[c].origin[runner'[c][f].rotated] = login[c]
      <3>1. CASE from = login[c]
        BY <1>2, <1>3, <1>4, <3>1
      <3>2. CASE from # login[c] /\ row[c].status = "active" /\ ~lost[c]
        <4>1. CASE row[c].token \in crew[c].accepted
          BY <1>2, <1>8, <3>2, <4>1 DEF RowOK
        <4>2. CASE row[c].token \notin crew[c].accepted
          <5>1. PICK f \in Epochs : /\ runner[c][f].rotated \in crew[c].accepted
                                    /\ crew[c].origin[runner[c][f].rotated] = login[c]
            BY <1>8, <3>2, <4>2 DEF TokensOK
          <5>2. f # e
            <6>1. runner[c][f].rotated # x.client
              BY <3>2, <5>1
            <6>2. CASE f = e
              <7>1. 0 \notin crew[c].accepted
                BY LeasesAssumption DEF TypeOK, Crew, Tokens
              <7> QED
                BY <1>4, <5>1, <6>2, <7>1
            <6> QED
              BY <6>2
          <5>3. /\ runner'[c][f].rotated = runner[c][f].rotated
                /\ runner[c][f].rotated # x.client
                /\ runner[c][f].rotated \in 0..MaxToken
                /\ runner[c][f].rotated # t
            BY <1>3, <1>6, <1>10, <3>2, <5>1, <5>2
          <5>4. /\ runner[c][f].rotated \in crew'[c].accepted
                /\ crew'[c].origin[runner[c][f].rotated] = login[c]
            BY <1>2, <5>1, <5>3
          <5> QED
            BY <5>3, <5>4
        <4> QED
          BY <4>1, <4>2
      <3> QED
        BY <3>1, <3>2
    <2> QED
      BY <1>2, <2>1, <2>2, <2>3, <2>4 DEF TokensOK
  <1>12. ASSUME NEW f \in Epochs PROVE Private(c, f)'
    <2>1. CASE f = e
      BY <1>2, <1>3, <1>4, <1>5, <1>6, <1>10, <2>1 DEF Private
    <2>2. CASE f # e
      BY <1>2, <1>3, <1>4, <1>6, <1>8, <1>10, <2>2 DEF Private
    <2> QED
      BY <2>1, <2>2
  <1>13. ASSUME NEW f \in Epochs PROVE RunnerOK(c, f)'
    <2>1. CASE f = e
      <3>1. runner'[c][e] = y /\ (Fenced(c, e)' <=> Fenced(c, e))
        BY <1>2, <1>3, <1>4 DEF Fenced, Matches
      <3>2. row[c].token # t
        BY <1>5, <1>10
      <3>3. InUse(c, e)'
        BY <1>2, <1>4, <3>1 DEF InUse, InSession
      <3>4. Stopped(c, e)'
        BY <1>4, <1>8, <3>1 DEF Stopped, RunnerOK, Refused
      <3>5. Owner(c, e)'
        <4>1. Fenced(c, e) /\ row[c].status = "active" => row[c].token \notin crew'[c].accepted
          BY <1>2, <1>4, <1>8, <3>2 DEF RunnerOK, Owner
        <4> QED
          BY <1>2, <1>4, <3>1, <4>1 DEF Owner, InSession
      <3> QED
        BY <2>1, <3>3, <3>4, <3>5 DEF RunnerOK
    <2>2. CASE f # e
      <3>1. runner'[c][f] = runner[c][f] /\ (Fenced(c, f)' <=> Fenced(c, f))
        BY <1>2, <1>3, <2>2 DEF Fenced, Matches
      <3>2. /\ runner[c][f].rotated \in 0..MaxToken /\ runner[c][f].rotated # t
            /\ runner[c][f].client # t /\ row[c].token # t
        BY <1>5, <1>6, <1>10
      <3>3. runner[c][f].rotated # 0 => runner[c][f].rotated # x.client
        BY <1>8, <2>2 DEF Private
      <3>4. InUse(c, f)'
        BY <1>2, <1>8, <3>1, <3>2, <3>3 DEF InUse, RunnerOK
      <3>5. Stopped(c, f)'
        BY <1>2, <1>8, <3>1, <3>2 DEF Stopped, RunnerOK, Refused
      <3>6. Owner(c, f)'
        BY <1>2, <1>8, <3>1, <3>2 DEF Owner, RunnerOK
      <3> QED
        BY <3>4, <3>5, <3>6 DEF RunnerOK
    <2> QED
      BY <2>1, <2>2
  <1>14. ConnOK(c)'
    BY <1>11, <1>12, <1>13 DEF ConnOK
  <1> QED
    BY <1>9, <1>14, ConnByConnNext

\* A rotation that is given up, or refused by the fence, is on record as lost if
\* the login depended on it.
LEMMA DropTokens ==
    ASSUME TypeOK, LeaseInv, TokenInv, NEW c \in Conns, NEW e \in Epochs, NEW y,
           Become(c, e, y), UNCHANGED <<row, crew, login>>,
           RotationLost(c, runner[c][e]),
           y.rotated = 0, y.by = runner[c][e].by, y.at = runner[c][e].at,
           y.token = runner[c][e].token, y.client = runner[c][e].client,
           runner[c][e].rotated # 0,
           y.watchErr = "none" => runner[c][e].watchErr = "none",
           runner[c][e].watchErr = "none" => y.watchErr = "none"
    PROVE  TokenInv'
  <1>1. runner'[c][e] = y /\ (Fenced(c, e)' <=> Fenced(c, e))
    BY DEF Become, TypeOK, Fenced, Matches
  <1>2. /\ lost'[c] <=> lost[c] \/ crew[c].origin[runner[c][e].rotated] = login[c]
        /\ \A d \in Conns \ {c} : lost'[d] = lost[d]
    BY DEF RotationLost, TypeOK
  <1>3. RunnerOK(c, e) /\ SlotOK(c, e)
    BY ConnByConn, SlotBySlot DEF ConnOK
  <1>4. InUse(c, e)'
    BY <1>1 DEF InUse
  <1>5. Stopped(c, e)'
    BY <1>1, <1>3 DEF Stopped, RunnerOK, Refused
  <1>6. Owner(c, e)'
    BY <1>1, <1>2, <1>3 DEF Owner, RunnerOK, SlotOK, Lineage, InSession
  <1>7. RunnerOK(c, e)'
    BY <1>4, <1>5, <1>6 DEF RunnerOK
  <1> QED
    BY <1>2, <1>7, OneRunnerMoves

\* Under the fence the row gets the rotation: what was in flight is stored.
LEMMA StoreTokens ==
    ASSUME TypeOK, LeaseInv, TokenInv, NEW c \in Conns, NEW e \in Epochs,
           Persist(c, e), Fenced(c, e)
    PROVE  TokenInv'
  <1> DEFINE x == runner[c][e]
             t == x.rotated
             y == [x EXCEPT !.rotated = 0]
  <1>1. /\ t # 0 /\ crew' = crew /\ login' = login /\ lost' = lost
        /\ \A d \in Conns : d # c => row'[d] = row[d]
        /\ row'[c].token = t /\ row'[c].status = row[c].status
        /\ row'[c].holder = row[c].holder /\ row'[c].epoch = row[c].epoch
    BY DEF Persist, TypeOK, Row
  <1>2. \A d \in Conns, f \in Epochs :
          runner'[d][f] = IF d = c /\ f = e THEN y ELSE runner[d][f]
    <2>1. Become(c, e, y)
      BY DEF Persist
    <2> QED
      BY <2>1 DEF Become, TypeOK
  <1>3. /\ y.rotated = 0 /\ y.at = x.at /\ y.by = x.by
        /\ y.token = x.token /\ y.client = x.client /\ y.watchErr = x.watchErr
    <2>1. x \in Runner
      BY DEF TypeOK
    <2> QED
      BY <2>1 DEF Runner
  <1>4. \A d \in Conns : ConnOK(d)
    BY ConnByConn
  <1>5. /\ TokensOK(c) /\ RowOK(c) /\ SlotOK(c, e)
        /\ \A f \in Epochs : Private(c, f) /\ RunnerOK(c, f)
    BY <1>4, SlotBySlot DEF ConnOK
  <1>6. ASSUME NEW d \in Conns, d # c PROVE ConnOK(d)'
    <2>1. runner'[d] = runner[d]
      BY <1>2, <1>6 DEF Persist, Become, TypeOK
    <2> QED
      BY <1>1, <1>4, <1>6, <2>1, ConnKept
  <1> HIDE DEF y
  <1>7. row[c].status = "active" /\ ~lost[c] => t \in crew[c].accepted
    BY <1>1, <1>5 DEF SlotOK, Lineage, RunnerOK, InUse
  <1>8. TokensOK(c)'
    BY <1>1, <1>5, <1>7 DEF TokensOK
  <1>9. ASSUME NEW f \in Epochs PROVE Private(c, f)'
    <2>1. CASE f = e
      BY <1>2, <1>3, <2>1 DEF Private
    <2>2. CASE f # e
      BY <1>1, <1>2, <1>3, <1>5, <2>2 DEF Private
    <2> QED
      BY <2>1, <2>2
  <1>10. ASSUME NEW f \in Epochs PROVE RunnerOK(c, f)'
    <2>1. CASE f = e
      <3>1. runner'[c][e] = y
        BY <1>2
      <3>2. InUse(c, e)'
        BY <1>3, <3>1 DEF InUse
      <3>3. Stopped(c, e)'
        BY <1>1, <1>3, <1>5, <3>1 DEF Stopped, RunnerOK, Refused
      <3>4. Owner(c, e)'
        <4>1. t \in crew[c].accepted =>
                x.at = "done" \/ (x.at \in InSession /\ x.client = t)
          BY <1>1, <1>5 DEF RunnerOK, InUse
        <4>2. x.at # "start"
          BY <1>1, <1>5 DEF RunnerOK, InUse
        <4> QED
          BY <1>1, <1>3, <1>7, <3>1, <4>1, <4>2 DEF Owner, InSession
      <3> QED
        BY <2>1, <3>2, <3>3, <3>4 DEF RunnerOK
    <2>2. CASE f # e
      <3>1. runner'[c][f] = runner[c][f]
        BY <1>2, <2>2
      <3>2. ~Fenced(c, f)'
        BY <1>1, <2>2 DEF Fenced, Matches
      <3>3. InUse(c, f)'
        BY <1>1, <1>5, <3>1 DEF InUse, RunnerOK
      <3>4. Stopped(c, f)'
        BY <1>1, <1>5, <3>1 DEF Stopped, RunnerOK, Refused
      <3>5. Owner(c, f)'
        BY <3>2 DEF Owner
      <3> QED
        BY <3>3, <3>4, <3>5 DEF RunnerOK
    <2> QED
      BY <2>1, <2>2
  <1>11. ConnOK(c)'
    BY <1>8, <1>9, <1>10 DEF ConnOK
  <1> QED
    BY <1>6, <1>11, ConnByConnNext

\* A runner that takes its row out of service has the fence and no good token.
LEMMA MarkedTokens ==
    ASSUME TypeOK, TokenInv, NEW c \in Conns, NEW e \in Epochs, MarkNeedsRelogin(c, e)
    PROVE  TokenInv'
  <1>1. CASE ~Fenced(c, e)
    BY <1>1, FinishTokens DEF MarkNeedsRelogin, history
  <1>2. CASE Fenced(c, e)
    <2> DEFINE y == Finished(runner[c][e])
    <2>1. /\ row'[c].token = row[c].token /\ row'[c].status = "needs_relogin"
          /\ \A d \in Conns : d # c => row'[d] = row[d]
          /\ crew' = crew /\ login' = login /\ lost' = lost
      BY <1>2 DEF MarkNeedsRelogin, Released, TypeOK, Row, history
    <2>2. \A d \in Conns, f \in Epochs :
            runner'[d][f] = IF d = c /\ f = e THEN y ELSE runner[d][f]
      BY DEF MarkNeedsRelogin, Become, TypeOK
    <2>3. /\ y.at = "done" /\ y.rotated = runner[c][e].rotated
          /\ y.token = 0 /\ y.client = 0
      BY DEF Finished, Bare
    <2>4. \A d \in Conns : ConnOK(d)
      BY ConnByConn
    <2>5. ASSUME NEW d \in Conns, d # c PROVE ConnOK(d)'
      <3>1. runner'[d] = runner[d]
        BY <2>5 DEF MarkNeedsRelogin, Become, TypeOK
      <3> QED
        BY <2>1, <2>4, <2>5, <3>1, ConnKept
    <2> HIDE DEF y
    <2>6. Moved(c, e)
      <3>1. RunnerOK(c, e)
        BY <2>4 DEF ConnOK
      <3>2. InUse(c, e)'
        BY <2>1, <2>2, <2>3, <3>1 DEF InUse, RunnerOK
      <3>3. Stopped(c, e)'
        BY <2>2, <2>3 DEF Stopped, InSession
      <3>4. Owner(c, e)'
        BY <2>1 DEF Owner
      <3> QED
        BY <2>2, <2>3, <3>2, <3>3, <3>4 DEF Moved, RunnerOK
    <2>7. ASSUME NEW f \in Epochs, f # e PROVE Untouched(c, f)
      BY <2>1, <2>2, <2>7 DEF Untouched
    <2>8. \A f \in Epochs : Untouched(c, f) \/ Moved(c, f)
      BY <2>6, <2>7
    <2>9. ConnOK(c)'
      BY <2>1, <2>4, <2>8, MovesKeep
    <2> QED
      BY <2>5, <2>9, ConnByConnNext
  <1> QED
    BY <1>1, <1>2

\* No step of a runner breaks TokenInv.
LEMMA RunnerStepTokens ==
    ASSUME TypeOK, LeaseInv, TokenInv, NEW c \in Conns, NEW e \in Epochs, RunnerStep(c, e)
    PROVE  TokenInv'
  <1> DEFINE x == runner[c][e]
  <1>1. x \in Runner
    BY DEF TypeOK
  <1>2. RunnerOK(c, e)
    BY ConnByConn DEF ConnOK
  <1>3. ASSUME NEW place \in {"watch", "tick"}, x.at \in InSession,
               Become(c, e, [x EXCEPT !.at = place]), UNCHANGED <<row, crew, login, lost>>
        PROVE  TokenInv'
    <2> DEFINE y == [x EXCEPT !.at = place]
    <2>1. /\ y.at \in InSession /\ y.rotated = x.rotated /\ y.by = x.by
          /\ y.token = x.token /\ y.client = x.client /\ y.watchErr = x.watchErr
      BY <1>1 DEF Runner, InSession
    <2>2. Become(c, e, y)
      BY <1>3
    <2> HIDE DEF y
    <2> QED
      BY <1>3, <2>1, <2>2, StayTokens
  <1>4. ASSUME NEW err, x.at \in InSession, Refused(c, e),
               Become(c, e, [x EXCEPT !.watchErr = err]), UNCHANGED <<row, crew, login, lost>>
        PROVE  TokenInv'
    <2> DEFINE y == [x EXCEPT !.watchErr = err]
    <2>1. /\ y.at \in InSession /\ y.rotated = x.rotated /\ y.by = x.by
          /\ y.token = x.token /\ y.client = x.client
      BY <1>1, <1>4 DEF Runner
    <2>2. Become(c, e, y)
      BY <1>4
    <2> HIDE DEF y
    <2> QED
      BY <1>4, <2>1, <2>2, StayTokens
  <1>5. CASE Begin(c, e)
    BY <1>2, <1>5, MarkTokens, SessionTokens DEF Begin, RunnerOK, Owner, history
  <1>6. CASE Rotate(c, e)
    BY <1>6, RotateTokens
  <1>7. CASE Persist(c, e)
    <2>1. CASE Fenced(c, e)
      BY <1>7, <2>1, StoreTokens
    <2>2. CASE ~Fenced(c, e)
      <3> DEFINE y == [x EXCEPT !.rotated = 0, !.watchErr =
                         IF @ = "none" THEN @ ELSE "lease_lost"]
      <3>1. /\ y.at = x.at /\ y.rotated = 0 /\ y.by = x.by /\ y.token = x.token
            /\ y.client = x.client /\ (y.watchErr = "none" <=> x.watchErr = "none")
        BY <1>1 DEF Runner
      <3>2. /\ Become(c, e, y) /\ RotationLost(c, x) /\ x.rotated # 0
            /\ UNCHANGED <<row, crew, login>>
        BY <1>7, <2>2 DEF Persist
      <3> HIDE DEF y
      <3> QED
        BY <3>1, <3>2, DropTokens
    <2> QED
      BY <2>1, <2>2
  <1>8. CASE PersistGivesUp(c, e)
    <2> DEFINE y == [x EXCEPT !.rotated = 0]
    <2>1. /\ y.at = x.at /\ y.rotated = 0 /\ y.by = x.by /\ y.token = x.token
          /\ y.client = x.client /\ y.watchErr = x.watchErr
      BY <1>1 DEF Runner
    <2>2. /\ Become(c, e, y) /\ RotationLost(c, x) /\ x.rotated # 0
          /\ UNCHANGED <<row, crew, login>>
      BY <1>8 DEF PersistGivesUp
    <2> HIDE DEF y
    <2> QED
      BY <2>1, <2>2, DropTokens
  <1>9. CASE Boot(c, e) \/ TickStatusError(c, e) \/ TouchError(c, e)
    BY <1>3, <1>9 DEF Boot, TickStatusError, TouchError, InSession, history
  <1>10. CASE BootFails(c, e)
    BY <1>10, EndTokens DEF BootFails, InSession, history
  <1>11. CASE CallFails(c, e)
    BY <1>2, <1>4, <1>11 DEF CallFails, RunnerOK, Stopped, InSession, history
  <1>12. CASE WatcherStops(c, e)
    BY <1>4, <1>12 DEF WatcherStops, InSession, history
  <1>13. CASE WatchDone(c, e)
    BY <1>2, <1>13, EndTokens DEF WatchDone, RunnerOK, Stopped, InSession, history
  <1>14. CASE TickStatus(c, e)
    BY <1>3, <1>14, FinishTokens DEF TickStatus, InSession, history
  <1>15. CASE Touch(c, e)
    BY <1>3, <1>15, FinishTokens DEF Touch, InSession, history
  <1>16. CASE Reauth(c, e)
    BY <1>16, MarkTokens, SessionTokens DEF Reauth, history
  <1>17. CASE ReauthError(c, e)
    BY <1>17, MarkTokens DEF ReauthError, history
  <1>18. CASE Retry(c, e)
    BY <1>18, FinishTokens, SessionTokens DEF Retry, history
  <1>19. CASE RetryError(c, e) \/ MarkError(c, e) \/ Stop(c, e)
    BY <1>19, FinishTokens DEF RetryError, MarkError, Stop, history
  <1>20. CASE MarkNeedsRelogin(c, e)
    BY <1>20, MarkedTokens
  <1> QED
    BY <1>5, <1>6, <1>7, <1>8, <1>9, <1>10, <1>11, <1>12, <1>13, <1>14, <1>15,
       <1>16, <1>17, <1>18, <1>19, <1>20 DEF RunnerStep

-----------------------------------------------------------------------------
(* The scheduler.                                                          *)

\* What a runner has, but for whether it was told to stop.
Same(c, e) ==
    /\ runner'[c][e].at = runner[c][e].at
    /\ runner'[c][e].by = runner[c][e].by
    /\ runner'[c][e].token = runner[c][e].token
    /\ runner'[c][e].client = runner[c][e].client
    /\ runner'[c][e].rotated = runner[c][e].rotated
    /\ runner'[c][e].watchErr = runner[c][e].watchErr

\* Releasing, renewing and cancelling leave the tokens where they are.
LEMMA LeaseOnlyTokens ==
    ASSUME TokenInv, UNCHANGED <<crew, login, lost>>,
           \A c \in Conns :
             /\ row'[c].token = row[c].token /\ row'[c].status = row[c].status
             /\ row'[c].epoch = row[c].epoch
             /\ row'[c].holder \in {row[c].holder, NoHolder},
           \A c \in Conns, e \in Epochs : Same(c, e)
    PROVE  TokenInv'
  <1>1. ASSUME NEW c \in Conns PROVE ConnOK(c)'
    <2>1. ASSUME NEW e \in Epochs PROVE Untouched(c, e)
      BY DEF Same, Untouched, Fenced, Matches
    <2>2. ConnOK(c)
      BY ConnByConn
    <2> QED
      BY <2>1, <2>2, MovesKeep
  <1> QED
    BY <1>1, ConnByConnNext

\* Some rows are released, or none; runners may be cancelled.
LEMMA MayReleaseTokens ==
    ASSUME TypeOK, TokenInv, NEW r \in Replicas, NEW c \in Conns,
           row' \in {row} \cup
             (IF Owns(r, c) THEN {[row EXCEPT ![c] = Released(@)]} ELSE {}),
           UNCHANGED <<crew, login, lost, runner>>
    PROVE  TokenInv'
  <1>1. ASSUME NEW d \in Conns
        PROVE  /\ row'[d].token = row[d].token /\ row'[d].status = row[d].status
               /\ row'[d].epoch = row[d].epoch
               /\ row'[d].holder \in {row[d].holder, NoHolder}
    <2>1. CASE row' = row
      BY <2>1
    <2>2. CASE row' = [row EXCEPT ![c] = Released(row[c])]
      <3>1. row[d] \in Row /\ (row'[d] = row[d] \/ row'[d] = Released(row[d]))
        BY <2>2 DEF TypeOK
      <3> QED
        BY <3>1 DEF Row, Released
    <2> QED
      BY <2>1, <2>2
  <1>2. \A d \in Conns, e \in Epochs : Same(d, e)
    BY DEF Same
  <1> QED
    BY <1>1, <1>2, LeaseOnlyTokens

\* The runner of a claim starts from the row's token, in a slot that was empty.
LEMMA ClaimedTokens ==
    ASSUME TypeOK, LeaseInv, TokenInv, NEW r \in Replicas, NEW S \in Batches(r),
           row' = Claimed(r, S), UNCHANGED <<crew, login, lost>>,
           NEW N \in SUBSET S,
           runner' = [c \in Conns |-> IF c \in N
              THEN [runner[c] EXCEPT ![row[c].epoch + 1] = NewRunner(r, c)]
              ELSE runner[c]]
    PROVE  TokenInv'
  <1>1. \A c \in Conns : ConnOK(c)
    BY ConnByConn
  <1>2. S \subseteq Conns /\ \A c \in S : row[c].epoch + 1 \in Epochs
    BY ClaimedType
  <1>3. ASSUME NEW c \in Conns, c \notin S PROVE ConnOK(c)'
    <2>1. row'[c] = row[c] /\ runner'[c] = runner[c]
      BY <1>3 DEF Claimed
    <2> QED
      BY <1>1, <2>1, ConnKept
  <1>4. ASSUME NEW c \in S PROVE ConnOK(c)'
    <2>1. PICK n \in Epochs : n = row[c].epoch + 1
      BY <1>2, <1>4
    <2>2. c \in Conns /\ row[c].epoch \in 0..MaxEpoch
      BY <1>2, <1>4 DEF TypeOK, Row
    <2>3. /\ row'[c].epoch = n /\ row'[c].token = row[c].token
          /\ row'[c].status = row[c].status
      <3>1. row'[c] = [row[c] EXCEPT !.holder = r, !.epoch = n, !.live = TRUE]
        BY <1>4, <2>1, <2>2 DEF Claimed
      <3>2. row[c] \in Row
        BY <2>2 DEF TypeOK
      <3> HIDE <2>1, <1>4
      <3> QED
        BY <3>1, <3>2 DEF Row
    <2>4. ASSUME NEW e \in Epochs, e # n PROVE Untouched(c, e)
      <3>1. runner'[c][e] = runner[c][e]
        BY <2>1, <2>2, <2>4 DEF TypeOK
      <3>2. ~Fenced(c, e)'
        BY <2>3, <2>4 DEF Fenced, Matches
      <3> QED
        BY <3>1, <3>2 DEF Untouched
    <2>5. Untouched(c, n) \/ Moved(c, n)
      <3>1. /\ runner[c][n].at = "none" /\ runner[c][n].rotated = 0
            /\ runner[c][n].by = NoHolder
        <4>1. ~(n <= row[c].epoch)
          BY <2>1, <2>2, LeasesAssumption
        <4>2. SlotOK(c, n)
          BY <2>2, SlotBySlot
        <4> QED
          BY <4>1, <4>2 DEF SlotOK
      <3>2. CASE c \in N
        <4>1. runner'[c][n] = NewRunner(r, c)
          BY <2>1, <2>2, <3>2 DEF TypeOK
        <4>2. /\ NewRunner(r, c).at = "start" /\ NewRunner(r, c).rotated = 0
              /\ NewRunner(r, c).token = row[c].token /\ NewRunner(r, c).client = 0
          BY DEF NewRunner, Bare
        <4>3. RunnerOK(c, n)'
          BY <2>3, <4>1, <4>2 DEF RunnerOK, InUse, Stopped, Owner, InSession
        <4> QED
          BY <3>1, <4>1, <4>2, <4>3 DEF Moved
      <3>3. CASE c \notin N
        <4>1. runner'[c][n] = runner[c][n]
          BY <2>2, <3>3
        <4>2. ~Fenced(c, n)'
          BY <3>1, <4>1 DEF Fenced, Matches
        <4> QED
          BY <4>1, <4>2 DEF Untouched
      <3> QED
        BY <3>2, <3>3
    <2>6. \A e \in Epochs : Untouched(c, e) \/ Moved(c, e)
      BY <2>4, <2>5
    <2> QED
      BY <1>1, <2>2, <2>3, <2>6, MovesKeep
  <1> QED
    BY <1>3, <1>4, ConnByConnNext

\* With a process go the rotations its clients had not stored.
LEMMA HaltTokens ==
    ASSUME TypeOK, TokenInv, NEW r \in Replicas, Halt(r)
    PROVE  TokenInv'
  <1>1. ASSUME NEW c \in Conns PROVE ConnOK(c)'
    <2>1. /\ row' = row /\ crew' = crew /\ login' = login
          /\ lost'[c] <=> \/ lost[c]
                          \/ \E e \in Epochs :
                               /\ runner[c][e].by = r
                               /\ runner[c][e].rotated # 0
                               /\ crew[c].origin[runner[c][e].rotated] = login[c]
      BY DEF Halt
    <2>2. ASSUME NEW e \in Epochs PROVE Untouched(c, e) \/ Moved(c, e)
      <3>1. CASE runner[c][e].by = r
        <4>1. /\ runner'[c][e].at = "done" /\ runner'[c][e].token = 0
              /\ runner'[c][e].client = 0 /\ runner'[c][e].rotated = 0
          BY <3>1 DEF Halt, Bare
        <4>2. RunnerOK(c, e)'
          BY <4>1 DEF RunnerOK, InUse, Stopped, Owner, InSession
        <4> QED
          BY <2>1, <3>1, <4>1, <4>2 DEF Moved
      <3>2. CASE runner[c][e].by # r
        BY <2>1, <3>2 DEF Halt, Untouched, Fenced, Matches
      <3> QED
        BY <3>1, <3>2
    <2>3. ConnOK(c)
      BY ConnByConn
    <2> QED
      BY <2>1, <2>2, <2>3, MovesKeep
  <1> QED
    BY <1>1, ConnByConnNext

\* No step of a scheduler breaks TokenInv.
LEMMA SchedulerTokens ==
    ASSUME TypeOK, LeaseInv, TokenInv, NEW r \in Replicas,
           Scheduler(r) \/ \E c \in Conns : SchedulerConn(r, c)
    PROVE  TokenInv'
  <1>1. CASE StartPass(r) \/ StartRenewing(r) \/ DeadlinePasses(r)
    <2>1. UNCHANGED <<row, crew, login, lost, runner>>
      BY <1>1 DEF StartPass, StartRenewing, DeadlinePasses, history
    <2> QED
      BY <2>1, LeaseOnlyTokens DEF Same
  <1>2. CASE Claim(r)
    <2>1. PICK S \in Batches(r) :
            /\ row' = Claimed(r, S)
            /\ runner' = [c \in Conns |-> IF c \in S \ Held(r)
                 THEN [runner[c] EXCEPT ![row[c].epoch + 1] = NewRunner(r, c)]
                 ELSE runner[c]]
      BY <1>2 DEF Claim
    <2> QED
      BY <1>2, <2>1, ClaimedTokens DEF Claim, history
  <1>3. CASE ClaimError(r)
    <2>1. CASE row' = row
      BY <1>3, <2>1, LeaseOnlyTokens DEF ClaimError, history, Same
    <2>2. ASSUME NEW S \in Batches(r), row' = Claimed(r, S) PROVE TokenInv'
      <3>1. runner' = [c \in Conns |-> IF c \in {}
                 THEN [runner[c] EXCEPT ![row[c].epoch + 1] = NewRunner(r, c)]
                 ELSE runner[c]]
        BY <1>3 DEF ClaimError, TypeOK
      <3> QED
        BY <1>3, <2>2, <3>1, ClaimedTokens DEF ClaimError, history
    <2> QED
      BY <1>3, <2>1, <2>2 DEF ClaimError
  <1>4. CASE Shutdown(r)
    <2>1. UNCHANGED <<row, crew, login, lost>>
      BY <1>4 DEF Shutdown, history
    <2>2. ASSUME NEW c \in Conns, NEW e \in Epochs PROVE Same(c, e)
      <3>1. runner[c][e] \in Runner
        BY DEF TypeOK
      <3>2. \/ runner'[c][e] = [runner[c][e] EXCEPT !.cancelled = TRUE]
            \/ runner'[c][e] = runner[c][e]
        BY <1>4 DEF Shutdown
      <3> QED
        BY <3>1, <3>2 DEF Same, Runner
    <2> QED
      BY <2>1, <2>2, LeaseOnlyTokens
  <1>5. CASE Halt(r)
    BY <1>5, HaltTokens
  <1>6. ASSUME NEW c \in Conns, SchedulerConn(r, c) PROVE TokenInv'
    <2>1. CASE Reap(r, c)
      <3>1. row' \in {row} \cup
              (IF Owns(r, c) THEN {[row EXCEPT ![c] = Released(@)]} ELSE {})
        BY <2>1 DEF Reap
      <3> QED
        BY <2>1, <3>1, MayReleaseTokens DEF Reap, history
    <2>2. CASE Renew(r, c)
      <3>1. UNCHANGED <<crew, login, lost>>
        BY <2>2 DEF Renew, history
      <3>2. CASE Renewable(r, c)
        <4>1. ASSUME NEW d \in Conns
              PROVE  /\ row'[d].token = row[d].token /\ row'[d].status = row[d].status
                     /\ row'[d].epoch = row[d].epoch /\ row'[d].holder = row[d].holder
          <5>1. row[d] \in Row /\ row' = [row EXCEPT ![c].live = TRUE]
            BY <2>2, <3>2 DEF Renew, TypeOK
          <5>2. row'[d] = row[d] \/ row'[d] = [row[d] EXCEPT !.live = TRUE]
            BY <5>1 DEF TypeOK
          <5> QED
            BY <5>1, <5>2 DEF Row
        <4>2. runner' = runner
          BY <2>2, <3>2 DEF Renew
        <4> QED
          BY <3>1, <4>1, <4>2, LeaseOnlyTokens DEF Same
      <3>3. CASE ~Renewable(r, c)
        <4>1. row' = row /\ Cancel(r, c)
          BY <2>2, <3>3 DEF Renew
        <4>2. ASSUME NEW d \in Conns, NEW e \in Epochs PROVE Same(d, e)
          <5>1. PICK b : runner' = [runner EXCEPT ![c][held[r][c]].cancelled = b]
            BY <4>1 DEF Cancel
          <5>2. runner[d][e] \in Runner
            BY DEF TypeOK
          <5>3. \/ runner'[d][e] = [runner[d][e] EXCEPT !.cancelled = b]
                \/ runner'[d][e] = runner[d][e]
            BY <5>1 DEF TypeOK
          <5> QED
            BY <5>2, <5>3 DEF Same, Runner
        <4> QED
          BY <3>1, <4>1, <4>2, LeaseOnlyTokens
      <3> QED
        BY <3>2, <3>3
    <2>3. CASE RenewError(r, c)
      BY <2>3, LeaseOnlyTokens DEF RenewError, history, Same
    <2>4. CASE ShutdownRelease(r, c)
      BY <2>4, MayReleaseTokens DEF ShutdownRelease, history
    <2> QED
      BY <1>6, <2>1, <2>2, <2>3, <2>4 DEF SchedulerConn
  <1> QED
    BY <1>1, <1>2, <1>3, <1>4, <1>5, <1>6 DEF Scheduler

-----------------------------------------------------------------------------
(* The theorems.                                                           *)

\* TokenInv is inductive, given the types and LeaseInv.
LEMMA TokenStep == TypeOK /\ LeaseInv /\ TokenInv /\ [Next]_vars => TokenInv'
  <1> SUFFICES ASSUME TypeOK, LeaseInv, TokenInv, [Next]_vars PROVE TokenInv'
    OBVIOUS
  <1>1. CASE UNCHANGED vars
    BY <1>1, LeaseOnlyTokens DEF vars, Same
  <1>2. CASE Next
    BY <1>2, EnvironmentTokens, RunnerStepTokens, SchedulerTokens DEF Next
  <1> QED
    BY <1>1, <1>2

\* Crew accepts one token per login, a rotation in flight is nobody else's, and
\* the fenced owner knows the stored token if any good one is stored.
THEOREM TokenInvariant == Spec => []TokenInv
  BY InitTokens, TokenStep, TypeCorrect, LeaseInvariant, PTL DEF Spec

\* Over any number of takeovers, crashes, late rotations and logins: unless the
\* login is on record as lost, the row's token is good or its successor is on
\* the way to the row.
THEOREM StoredTokenGood == Spec => []StoredTokenUsable
  <1>1. TokenInv => StoredTokenUsable
    BY DEF TokenInv
  <1> QED
    BY <1>1, TokenInvariant, PTL

\* The owner of the lease and the row never end up with two different tokens of
\* one login.
THEOREM OwnerHasStoredToken == Spec => []OwnerUsesStoredToken
  <1>1. TokenInv => OwnerUsesStoredToken
    BY DEF TokenInv
  <1> QED
    BY <1>1, TokenInvariant, PTL

\* Only a runner under the fence takes a row out of service, and then the
\* row's token is one Crew refuses.
LEMMA OnlyDeadRowsMarked ==
    ASSUME TypeOK, TokenInv, Next, NEW c \in Conns,
           row[c].status = "active", row'[c].status = "needs_relogin"
    PROVE  row[c].token \notin crew[c].accepted
  <1>1. ASSUME NEW d \in Conns, NEW e \in Epochs, MarkNeedsRelogin(d, e)
        PROVE  row[c].token \notin crew[c].accepted
    <2>1. Fenced(d, e) /\ c = d
      BY <1>1 DEF MarkNeedsRelogin, TypeOK
    <2>2. runner[d][e].at = "mark"
      BY <1>1 DEF MarkNeedsRelogin
    <2>3. Owner(d, e)
      BY ConnByConn DEF ConnOK, RunnerOK
    <2> QED
      BY <2>1, <2>2, <2>3 DEF Owner
  <1>2. ASSUME NEW d \in Conns, NEW e \in Epochs, RunnerStep(d, e), ~MarkNeedsRelogin(d, e)
        PROVE  row'[c].status = row[c].status
    <2>1. CASE Persist(d, e)
      <3>1. row' = row \/ row' = [row EXCEPT ![d].token = runner[d][e].rotated]
        BY <2>1 DEF Persist
      <3>2. row[c] \in Row
        BY DEF TypeOK
      <3>3. row'[c] = row[c] \/ row'[c] = [row[c] EXCEPT !.token = runner[d][e].rotated]
        BY <3>1 DEF TypeOK
      <3> QED
        BY <3>2, <3>3 DEF Row
    <2>2. CASE ~Persist(d, e)
      BY <1>2, <2>2 DEF RunnerStep, Begin, Rotate, PersistGivesUp, Boot, BootFails,
         CallFails, WatcherStops, WatchDone, TickStatus, TickStatusError, Touch,
         TouchError, Reauth, ReauthError, Retry, RetryError, MarkError, Stop
    <2> QED
      BY <2>1, <2>2
  <1>3. ASSUME NEW d \in Conns, Environment(d)
        PROVE  row'[c].status # "needs_relogin" \/ row'[c].status = row[c].status
    <2>1. row[c] \in Row
      BY DEF TypeOK
    <2>2. CASE Login(d)
      <3>1. PICK t : row' = [row EXCEPT ![d] = [Released(@) EXCEPT !.status = "active",
                                                                    !.token = t]]
        BY <2>2 DEF Login
      <3>2. \/ row'[c] = row[c]
            \/ row'[c] = [Released(row[c]) EXCEPT !.status = "active", !.token = t]
        BY <3>1 DEF TypeOK
      <3> QED
        BY <2>1, <3>2 DEF Released, Row
    <2>3. CASE Disable(d)
      <3>1. \/ row'[c] = row[c]
            \/ row'[c] = [row[c] EXCEPT !.status = "disabled", !.token = Wiped]
        BY <2>3 DEF Disable, TypeOK
      <3> QED
        BY <2>1, <3>1 DEF Row
    <2>4. CASE Expire(d)
      <3>1. row'[c] = row[c] \/ row'[c] = [row[c] EXCEPT !.live = FALSE]
        BY <2>4 DEF Expire, TypeOK
      <3> QED
        BY <2>1, <3>1 DEF Row
    <2>5. CASE Revoke(d)
      BY <2>5 DEF Revoke
    <2> QED
      BY <1>3, <2>2, <2>3, <2>4, <2>5 DEF Environment
  <1>4. ASSUME NEW r \in Replicas, NEW d \in Conns, SchedulerConn(r, d)
        PROVE  row'[c].status = row[c].status
    <2>1. row[c] \in Row
      BY DEF TypeOK
    <2>2. \/ row' = row \/ row' = [row EXCEPT ![d] = Released(@)]
          \/ row' = [row EXCEPT ![d].live = TRUE]
      BY <1>4 DEF SchedulerConn, Reap, Renew, RenewError, ShutdownRelease
    <2>3. \/ row'[c] = row[c] \/ row'[c] = Released(row[c])
          \/ row'[c] = [row[c] EXCEPT !.live = TRUE]
      BY <2>2 DEF TypeOK
    <2> QED
      BY <2>1, <2>3 DEF Released, Row
  <1>5. ASSUME NEW r \in Replicas, Scheduler(r)
        PROVE  row'[c].status = row[c].status
    <2>1. ASSUME NEW S PROVE Claimed(r, S)[c].status = row[c].status
      BY DEF Claimed, TypeOK, Row
    <2> QED
      BY <1>5, <2>1 DEF Scheduler, StartPass, StartRenewing, Claim, ClaimError,
         Shutdown, DeadlinePasses, Halt
  <1> QED
    BY <1>1, <1>2, <1>3, <1>4, <1>5 DEF Next

\* No working connection is taken out of service: not by a stale client's 401,
\* not by a re-login racing with it, not by a database error while the token is
\* re-read.
THEOREM NoFalseAlarms == Spec => NoFalseAlarm
  <1> DEFINE Justified ==
        \A c \in Conns :
          row[c].status = "active" /\ row'[c].status = "needs_relogin"
          => row[c].token \notin crew[c].accepted
  <1>1. TypeOK /\ TokenInv /\ [Next]_vars => [Justified]_vars
    BY OnlyDeadRowsMarked
  <1>2. Spec => [][Justified]_vars
    <2> HIDE DEF Justified
    <2> QED
      BY <1>1, TypeCorrect, TokenInvariant, PTL DEF Spec
  <1> QED
    BY <1>2 DEF NoFalseAlarm, Justified

==============================================================================
