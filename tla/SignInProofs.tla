---------------------------- MODULE SignInProofs ----------------------------
(* Proofs about SignIn: its types, that a household has one family, that   *)
(* a session means a finished setup, that nobody changes families, and how *)
(* often a code can be tried.                                              *)
EXTENDS SignIn, FiniteSetTheorems, TLAPS

-----------------------------------------------------------------------------
(* Types.                                                                  *)

\* A request at the start.
LEMMA IdleType == Idle \in Request
  BY DEF Idle, Request

\* A request that goes on.
LEMMA RequestUpdates ==
    ASSUME NEW x \in Request
    PROVE  /\ \A p \in {"idle", "send", "sms", "email", "spent", "profile", "place",
                        "write", "seed", "connect", "close", "issue"} :
                  [x EXCEPT !.at = p] \in Request
           /\ \A h \in Households \cup {Unknown} :
                  [x EXCEPT !.at = "place", !.household = h] \in Request
           /\ [x EXCEPT !.at = "place", !.again = TRUE] \in Request
           /\ \A f \in Families \cup {NoFamily} :
                  /\ [x EXCEPT !.at = "seed", !.found = f] \in Request
                  /\ \A b \in BOOLEAN :
                       [x EXCEPT !.at = "write", !.found = f, !.placed = b] \in Request
  BY DEF Request

\* A request that begins.
LEMMA Beginnings ==
    ASSUME NEW m \in Members \cup {Nobody}, NEW l \in Logins
    PROVE  /\ [Idle EXCEPT !.at = "send", !.who = m] \in Request
           /\ \A p \in {"sms", "email"} :
                 [Idle EXCEPT !.at = p, !.login = l, !.who = m] \in Request
  BY DEF Idle, Request

\* The requests' type.
LEMMA BecomeType ==
    ASSUME TypeOK, NEW q \in Requests, NEW x \in Request, Become(q, x)
    PROVE  req' \in [Requests -> Request]
  BY DEF TypeOK, Become

\* So it is when one goes to another place.
LEMMA GoType ==
    ASSUME TypeOK, NEW q \in Requests,
           NEW p \in {"idle", "send", "sms", "email", "spent", "profile", "place",
                      "write", "seed", "connect", "close", "issue"}, Go(q, p)
    PROVE  req' \in [Requests -> Request]
<1>1. req[q] \in Request
  BY DEF TypeOK
<1>2. [req[q] EXCEPT !.at = p] \in Request
  BY <1>1, RequestUpdates
<1> QED
  BY <1>2, BecomeType DEF Go

\* The updates of a pending login.
LEMMA PendingUpdates ==
    ASSUME TypeOK, NEW l \in Logins
    PROVE  /\ Bumped(l) \in [Logins -> Pending]
           /\ Deleted(l) \in [Logins -> Pending]
           /\ \A m \in Members \cup {Nobody} :
                [pending EXCEPT ![l] = [@ EXCEPT !.at = "sms", !.who = m]] \in [Logins -> Pending]
           /\ [pending EXCEPT ![l] = [@ EXCEPT !.at = "email", !.attempts = 0]] \in [Logins -> Pending]
           /\ [pending EXCEPT ![l] = [@ EXCEPT !.expired = TRUE]] \in [Logins -> Pending]
<1>1. pending \in [Logins -> Pending] /\ pending[l] \in Pending
  BY DEF TypeOK
<1>2. pending[l].attempts \in Nat /\ pending[l].attempts + 1 \in Nat
  BY <1>1 DEF Pending
<1>3. /\ [pending[l] EXCEPT !.attempts = pending[l].attempts + 1] \in Pending
      /\ [pending[l] EXCEPT !.at = "gone", !.attempts = 0] \in Pending
      /\ \A m \in Members \cup {Nobody} :
           [pending[l] EXCEPT !.at = "sms", !.who = m] \in Pending
      /\ [pending[l] EXCEPT !.at = "email", !.attempts = 0] \in Pending
      /\ [pending[l] EXCEPT !.expired = TRUE] \in Pending
  BY <1>1, <1>2 DEF Pending
<1>4. ASSUME NEW x \in Pending PROVE [pending EXCEPT ![l] = x] \in [Logins -> Pending]
  BY <1>1
<1>5. /\ Bumped(l) = [pending EXCEPT ![l] = [pending[l] EXCEPT !.attempts = pending[l].attempts + 1]]
      /\ Deleted(l) = [pending EXCEPT ![l] = [pending[l] EXCEPT !.at = "gone", !.attempts = 0]]
  BY DEF Bumped, Deleted
<1> QED
  BY <1>3, <1>4, <1>5

\* A count of the rate limits.
LEMMA CountedType ==
    ASSUME NEW n \in Nat, NEW limit \in Nat
    PROVE  Counted(n, limit) \in Nat
  BY DEF Counted

\* Start changes counts and the request.
LEMMA StartType ==
    ASSUME TypeOK, NEW q \in Requests, NEW m \in Members, Start(q, m)
    PROVE  TypeOK'
<1>1. /\ rate \in [ip : Nat, phone : [Members -> Nat]]
      /\ rate.ip \in Nat /\ rate.phone \in [Members -> Nat] /\ rate.phone[m] \in Nat
  BY DEF TypeOK
<1>2. Counted(rate.phone[m], PerPhone) \in Nat /\ Counted(rate.ip, PerIP) \in Nat
  BY <1>1, CountedType, SignInAssumption
<1>3. /\ [ip |-> rate.ip + 1,
          phone |-> [rate.phone EXCEPT ![m] = Counted(rate.phone[m], PerPhone)]]
           \in [ip : Nat, phone : [Members -> Nat]]
      /\ [rate EXCEPT !.ip = Counted(@, PerIP)] \in [ip : Nat, phone : [Members -> Nat]]
  BY <1>1, <1>2
<1>4. rate' \in [ip : Nat, phone : [Members -> Nat]]
  BY <1>3 DEF Start
<1>5. [Idle EXCEPT !.at = "send", !.who = m] \in Request
  BY DEF Idle, Request
<1>6. req' \in [Requests -> Request]
  <2>1. \/ Become(q, [Idle EXCEPT !.at = "send", !.who = m])
        \/ req' = req
    BY DEF Start
  <2> QED
    BY <2>1, <1>5, BecomeType DEF TypeOK
<1> QED
  BY <1>4, <1>6 DEF TypeOK, Start

\* The codes.
LEMMA CodesType ==
    ASSUME TypeOK, RequestsAreSomebodys, NEW q \in Requests, NEW l \in Logins,
           Send(q, l) \/ Load(q, l)
    PROVE  TypeOK'
<1>1. req[q] \in Request /\ req[q].who \in Members \cup {Nobody}
  BY DEF TypeOK, Request
<1>2. pending[l].who \in Members \cup {Nobody}
  BY DEF TypeOK, Pending
<1>3. pending' \in [Logins -> Pending]
  <2>1. CASE Send(q, l)
    BY <2>1, <1>1, PendingUpdates DEF Send
  <2>2. CASE Load(q, l)
    BY <2>2 DEF Load, TypeOK
  <2> QED
    BY <2>1, <2>2
<1>4. req' \in [Requests -> Request]
  <2>1. CASE Send(q, l)
    BY <2>1, IdleType, BecomeType DEF Send
  <2>2. CASE Load(q, l)
    <3>1. [Idle EXCEPT !.at = pending[l].at, !.login = l, !.who = pending[l].who] \in Request
      BY <2>2, <1>2, Beginnings DEF Load
    <3> QED
      BY <2>2, <3>1, BecomeType DEF Load
  <2> QED
    BY <2>1, <2>2
<1> QED
  BY <1>3, <1>4 DEF TypeOK, Send, Load

\* What a right or wrong code, or a failure, makes of a request.
LEMMA VerifyType ==
    ASSUME TypeOK, RequestsAreSomebodys, NEW q \in Requests, Verify(q) \/ GiveUp(q)
    PROVE  TypeOK'
<1>1. req[q].at \in {"sms", "email", "spent"} => req[q].login \in Logins
  BY DEF RequestsAreSomebodys
<1>2. CASE WrongCode(q)
  <2>1. req' \in [Requests -> Request]
    BY <1>2, IdleType, BecomeType, GoType DEF WrongCode
  <2>2. pending' \in [Logins -> Pending]
    BY <1>2, <1>1, PendingUpdates DEF WrongCode, TypeOK
  <2>3. wrong' \in [Logins -> Nat]
    BY <1>2, <1>1 DEF WrongCode, TypeOK
  <2> QED
    BY <1>2, <2>1, <2>2, <2>3 DEF WrongCode, TypeOK
<1>3. CASE Forget(q)
  <2>1. req' \in [Requests -> Request]
    BY <1>3, IdleType, BecomeType DEF Forget
  <2>2. pending' \in [Logins -> Pending]
    BY <1>3, <1>1, PendingUpdates DEF Forget
  <2> QED
    BY <1>3, <2>1, <2>2 DEF Forget, TypeOK
<1>4. CASE NeedsEmail(q)
  <2>1. req' \in [Requests -> Request]
    BY <1>4, IdleType, BecomeType DEF NeedsEmail
  <2>2. pending' \in [Logins -> Pending]
    BY <1>4, <1>1, PendingUpdates DEF NeedsEmail, TypeOK
  <2>3. wrong' \in [Logins -> Nat]
    BY <1>4, <1>1 DEF NeedsEmail, TypeOK
  <2> QED
    BY <1>4, <2>1, <2>2, <2>3 DEF NeedsEmail, TypeOK
<1>5. CASE RightCode(q)
  <2>1. req' \in [Requests -> Request]
    BY <1>5, GoType DEF RightCode
  <2> QED
    BY <1>5, <2>1 DEF RightCode, TypeOK
<1>6. CASE GiveUp(q)
  <2>1. req' \in [Requests -> Request]
    BY <1>6, IdleType, BecomeType DEF GiveUp
  <2>2. lost' \in 0..MaxLost
    BY <1>6, SignInAssumption DEF GiveUp, TypeOK
  <2> QED
    BY <1>6, <2>1, <2>2 DEF GiveUp, TypeOK
<1> QED
  BY <1>2, <1>3, <1>4, <1>5, <1>6 DEF Verify

\* The statements of finalize, up to the family.
LEMMA PlacingType ==
    ASSUME TypeOK, RequestsAreSomebodys, NEW q \in Requests, Profile(q) \/ Place(q)
    PROVE  TypeOK'
<1>1. /\ req[q] \in Request
      /\ req[q].at # "idle" => req[q].who \in Members
  BY DEF TypeOK, RequestsAreSomebodys
<1>2. CASE Profile(q)
  <2>1. req[q].who \in Members /\ HouseholdOf[req[q].who] \in Households
    BY <1>1, <1>2, SignInAssumption DEF Profile
  <2>2. req' \in [Requests -> Request]
    <3>1. PICK h \in {HouseholdOf[req[q].who], Unknown} :
              Become(q, [req[q] EXCEPT !.at = "place", !.household = h])
      BY <1>2 DEF Profile
    <3>2. [req[q] EXCEPT !.at = "place", !.household = h] \in Request
      BY <2>1, <1>1, <3>1, RequestUpdates
    <3> QED
      BY <3>1, <3>2, BecomeType
  <2>3. users' \in SUBSET Members /\ connected \in SUBSET users'
    BY <1>2, <2>1 DEF Profile, TypeOK
  <2> QED
    BY <1>2, <2>2, <2>3 DEF Profile, TypeOK
<1>3. CASE Place(q)
  <2>1. PICK f \in Families \cup {NoFamily} :
            Become(q, [req[q] EXCEPT !.at = "write", !.found = f,
                                     !.placed = memberOf[req[q].who] # NoFamily])
    BY <1>3 DEF Place
  <2>2. (memberOf[req[q].who] # NoFamily) \in BOOLEAN
    OBVIOUS
  <2>3. [req[q] EXCEPT !.at = "write", !.found = f,
                       !.placed = memberOf[req[q].who] # NoFamily] \in Request
    BY <1>1, <2>2, RequestUpdates
  <2>4. req' \in [Requests -> Request]
    BY <2>1, <2>3, BecomeType
  <2> QED
    BY <1>3, <2>4 DEF Place, TypeOK
<1> QED
  BY <1>2, <1>3

\* Joining leaves a table of members.
LEMMA JoinedType ==
    ASSUME TypeOK, NEW m \in Members, NEW f \in Families
    PROVE  /\ Joined(m, f) \in [Members -> Families \cup {NoFamily}]
           /\ \A n \in Members : memberOf[n] # NoFamily => Joined(m, f)[n] = memberOf[n]
           /\ Joined(m, f)[m] # NoFamily
           /\ \A n \in Members : Joined(m, f)[n] = memberOf[n] \/ (n = m /\ Joined(m, f)[n] = f)
  BY SignInAssumption DEF Joined, TypeOK

\* The updates of a family.
LEMMA FamilyUpdates ==
    ASSUME TypeOK, NEW f \in Families
    PROVE  /\ \A h \in Households \cup {Unknown} :
                /\ [family EXCEPT ![f] = [@ EXCEPT !.household = h]] \in [Families -> Family]
                /\ [family EXCEPT ![f] = [here |-> TRUE, household |-> h, seeded |-> 0]]
                      \in [Families -> Family]
           /\ \A n \in 0..2 :
                [family EXCEPT ![f] = [@ EXCEPT !.seeded = n]] \in [Families -> Family]
<1>1. family \in [Families -> Family] /\ family[f] \in Family
  BY DEF TypeOK
<1>2. /\ \A h \in Households \cup {Unknown} :
            /\ [family[f] EXCEPT !.household = h] \in Family
            /\ [here |-> TRUE, household |-> h, seeded |-> 0] \in Family
      /\ \A n \in 0..2 : [family[f] EXCEPT !.seeded = n] \in Family
  BY <1>1 DEF Family
<1> QED
  BY <1>1, <1>2

\* The statements that write the family.
LEMMA FamilyType ==
    ASSUME TypeOK, RequestsAreSomebodys, ReadsStand, NEW q \in Requests,
           \/ Adopt(q) \/ Join(q) \/ LoseRace(q) \/ Seed(q)
           \/ \E f \in Families : Found(q, f)
    PROVE  TypeOK'
<1>1. /\ req[q] \in Request
      /\ req[q].at # "idle" => req[q].who \in Members
      /\ req[q].household \in Households \cup {Unknown}
      /\ req[q].found \in Families \cup {NoFamily}
  BY DEF TypeOK, RequestsAreSomebodys, Request
<1>2. CASE Adopt(q)
  <2>1. req' \in [Requests -> Request]
    BY <1>2, GoType DEF Adopt
  <2>2. req[q].found \in Families
    BY <1>1, <1>2 DEF Adopt, ReadsStand, Stands
  <2>3. family' \in [Families -> Family]
    BY <1>1, <1>2, <2>2, FamilyUpdates DEF Adopt, TypeOK
  <2> QED
    BY <1>2, <2>1, <2>3 DEF Adopt, TypeOK
<1>3. CASE Join(q)
  <2>1. req' \in [Requests -> Request]
    BY <1>3, GoType DEF Join
  <2>2. memberOf' \in [Members -> Families \cup {NoFamily}]
    BY <1>1, <1>3, JoinedType DEF Join
  <2> QED
    BY <1>3, <2>1, <2>2 DEF Join, TypeOK
<1>4. CASE LoseRace(q)
  <2>1. req' \in [Requests -> Request]
    BY <1>1, <1>4, IdleType, RequestUpdates, BecomeType DEF LoseRace
  <2> QED
    BY <1>4, <2>1 DEF LoseRace, TypeOK
<1>5. CASE Seed(q)
  <2>1. req' \in [Requests -> Request]
    BY <1>5, IdleType, BecomeType, GoType DEF Seed
  <2>2. req[q].found \in Families
    BY <1>5 DEF Seed, ReadsStand, Stands
  <2>3. family' \in [Families -> Family]
    BY <1>5, <2>2, FamilyUpdates DEF Seed
  <2> QED
    BY <1>5, <2>1, <2>3 DEF Seed, TypeOK
<1>6. ASSUME NEW f \in Families, Found(q, f) PROVE TypeOK'
  <2>1. [req[q] EXCEPT !.at = "seed", !.found = f] \in Request
    BY <1>1, RequestUpdates
  <2>2. req' \in [Requests -> Request]
    BY <1>6, <2>1, BecomeType DEF Found
  <2>3. family' \in [Families -> Family]
    BY <1>1, <1>6, FamilyUpdates DEF Found
  <2>4. memberOf' \in [Members -> Families \cup {NoFamily}]
    BY <1>1, <1>6, JoinedType DEF Found
  <2>5. strangers' \in SUBSET Members
    BY <1>1, <1>6 DEF Found, Stranger, TypeOK
  <2> QED
    BY <1>6, <2>2, <2>3, <2>4, <2>5 DEF Found, TypeOK
<1> QED
  BY <1>2, <1>3, <1>4, <1>5, <1>6

\* The last statements of finalize.
LEMMA SigningType ==
    ASSUME TypeOK, RequestsAreSomebodys, ReadsStand, NEW q \in Requests,
           \/ Connect(q) \/ Close(q) \/ \E s \in Sessions : Issue(q, s)
    PROVE  TypeOK'
<1>1. /\ req[q] \in Request
      /\ req[q].at # "idle" => req[q].who \in Members
      /\ req[q].at = "close" => req[q].login \in Logins
      /\ req[q].at = "connect" => req[q].who \in users
  BY DEF TypeOK, RequestsAreSomebodys, ReadsStand, Stands
<1>2. CASE Connect(q)
  <2>1. req' \in [Requests -> Request]
    BY <1>2, GoType DEF Connect
  <2> QED
    BY <1>1, <1>2, <2>1 DEF Connect, TypeOK
<1>3. CASE Close(q)
  <2>1. req' \in [Requests -> Request]
    BY <1>3, GoType DEF Close
  <2>2. pending' \in [Logins -> Pending]
    BY <1>1, <1>3, PendingUpdates DEF Close, TypeOK
  <2> QED
    BY <1>3, <2>1, <2>2 DEF Close, TypeOK
<1>4. ASSUME NEW s \in Sessions, Issue(q, s) PROVE TypeOK'
  <2>1. req' \in [Requests -> Request]
    BY <1>4, IdleType, BecomeType DEF Issue
  <2>2. [at |-> "live", who |-> req[q].who, seen |-> "now"] \in Session
    BY <1>1, <1>4 DEF Issue, Session
  <2>3. session' \in [Sessions -> Session]
    BY <1>4, <2>2 DEF Issue, TypeOK
  <2> QED
    BY <1>4, <2>1, <2>3 DEF Issue, TypeOK
<1> QED
  BY <1>2, <1>3, <1>4

\* Sessions, time and the janitor.
LEMMA OutsideType ==
    ASSUME TypeOK,
           \/ \E s \in Sessions : Use(s) \/ Idles(s) \/ EndSession(s) \/ Disconnect(s)
           \/ \E l \in Logins : Expire(l) \/ Sweep(l) \/ Discard(l)
           \/ NextWindow
    PROVE  TypeOK'
<1>1. ASSUME NEW s \in Sessions, Use(s) \/ Idles(s) \/ EndSession(s) \/ Disconnect(s)
      PROVE  TypeOK'
  <2>1. session[s] \in Session
    BY DEF TypeOK
  <2>2. /\ \A seen \in {"now", "hour", "month"} : [session[s] EXCEPT !.seen = seen] \in Session
        /\ [session[s] EXCEPT !.at = "gone"] \in Session
    BY <2>1 DEF Session
  <2>3. session' \in [Sessions -> Session]
    BY <1>1, <2>2 DEF TypeOK, Use, Idles, EndSession, Ended, Disconnect
  <2>4. connected' \in SUBSET users
    BY <1>1 DEF TypeOK, Use, Idles, EndSession, Disconnect
  <2> QED
    BY <1>1, <2>3, <2>4 DEF TypeOK, Use, Idles, EndSession, Disconnect
<1>2. ASSUME NEW l \in Logins, Expire(l) \/ Sweep(l) \/ Discard(l) PROVE TypeOK'
  <2>1. pending' \in [Logins -> Pending]
    BY <1>2, PendingUpdates DEF Expire, Sweep, Discard
  <2> QED
    BY <1>2, <2>1 DEF TypeOK, Expire, Sweep, Discard
<1>3. CASE NextWindow
  BY <1>3 DEF TypeOK, NextWindow
<1> QED
  BY <1>1, <1>2, <1>3

-----------------------------------------------------------------------------
(* Who requests are for.                                                   *)

\* One request goes on.
LEMMA OneGoesOn ==
    ASSUME TypeOK, NEW q \in Requests, NEW x, Become(q, x)
    PROVE  /\ req'[q] = x
           /\ \A p \in Requests : p # q => req'[p] = req[p]
  BY DEF TypeOK, Become

\* A login that was asked for stays somebody's.
LoginsStay ==
    \A l \in Logins : pending[l].at # "new" =>
        pending'[l].at # "new" /\ pending'[l].who = pending[l].who

\* The logins and the requests that a step leaves alone are still somebody's.
LEMMA SomebodysNext ==
    ASSUME TypeOK, RequestsAreSomebodys, LoginsStay, NEW q \in Requests,
           \A l \in Logins : pending[l].at = "new" =>
               pending'[l].at = "new" \/ pending'[l].who \in Members,
           \A p \in Requests : p # q => req'[p] = req[p],
           req'[q].at # "idle" => req'[q].who \in Members,
           req'[q].at \notin {"idle", "send"} =>
               req'[q].login \in Logins /\ pending'[req'[q].login].at # "new"
    PROVE  RequestsAreSomebodys'
<1>1. \A l \in Logins : pending'[l].at # "new" => pending'[l].who \in Members
  BY DEF RequestsAreSomebodys, LoginsStay
<1>2. ASSUME NEW p \in Requests
      PROVE  /\ req'[p].at # "idle" => req'[p].who \in Members
             /\ req'[p].at \notin {"idle", "send"} =>
                    req'[p].login \in Logins /\ pending'[req'[p].login].at # "new"
  <2>1. CASE p = q
    BY <2>1
  <2>2. CASE p # q
    BY <2>2 DEF RequestsAreSomebodys, LoginsStay
  <2> QED
    BY <2>1, <2>2
<1> QED
  BY <1>1, <1>2 DEF RequestsAreSomebodys

\* One request goes on for the same person and login, or ends.
GoesOn(q) ==
    /\ \A p \in Requests : p # q => req'[p] = req[p]
    /\ \/ req'[q].at = "idle"
       \/ req'[q].who = req[q].who /\ req'[q].login = req[q].login

\* Whoever it is for, and with whichever login, that stays.
LEMMA BecomeGoesOn ==
    ASSUME TypeOK, NEW q \in Requests, NEW x, Become(q, x),
           x.who = req[q].who, x.login = req[q].login
    PROVE  GoesOn(q)
<1>1. req'[q] = x /\ \A p \in Requests : p # q => req'[p] = req[p]
  BY OneGoesOn
<1> QED
  BY <1>1 DEF GoesOn

\* A request that ends.
LEMMA IdleGoesOn ==
    ASSUME TypeOK, NEW q \in Requests, Become(q, Idle)
    PROVE  GoesOn(q)
<1>1. req'[q] = Idle /\ \A p \in Requests : p # q => req'[p] = req[p]
  BY OneGoesOn
<1> QED
  BY <1>1 DEF GoesOn, Idle

\* A step from one place to the next.
LEMMA GoGoesOn ==
    ASSUME TypeOK, NEW q \in Requests, NEW p, Go(q, p)
    PROVE  GoesOn(q)
<1>1. req[q] \in Request
  BY DEF TypeOK
<1>2. /\ req'[q] = [req[q] EXCEPT !.at = p]
      /\ \A r \in Requests : r # q => req'[r] = req[r]
  BY OneGoesOn DEF Go
<1> QED
  BY <1>1, <1>2 DEF GoesOn, Request

\* The request keeps its login, and for whom it is, or ends.
LEMMA GoesOnForSomebody ==
    ASSUME TypeOK, RequestsAreSomebodys, LoginsStay, NEW q \in Requests,
           \A l \in Logins : pending[l].at = "new" => pending'[l].at = "new",
           req[q].at \notin {"idle", "send"},
           GoesOn(q)
    PROVE  RequestsAreSomebodys'
<1>1. /\ req'[q].at # "idle" => req'[q].who \in Members
      /\ req'[q].at \notin {"idle", "send"} =>
             req'[q].login \in Logins /\ pending'[req'[q].login].at # "new"
  BY DEF RequestsAreSomebodys, LoginsStay, GoesOn
<1> QED
  BY <1>1, SomebodysNext DEF GoesOn

\* Counting an attempt and deleting a login that was asked for.
LEMMA LoginUpdatesStay ==
    ASSUME TypeOK, NEW l \in Logins, pending[l].at # "new",
           \/ pending' = pending \/ pending' = Bumped(l) \/ pending' = Deleted(l)
           \/ pending' = [pending EXCEPT ![l] = [@ EXCEPT !.at = "email", !.attempts = 0]]
           \/ pending' = [pending EXCEPT ![l] = [@ EXCEPT !.expired = TRUE]]
    PROVE  /\ LoginsStay
           /\ \A k \in Logins : pending[k].at = "new" => pending'[k].at = "new"
<1>1. pending \in [Logins -> Pending] /\ pending[l] \in Pending
  BY DEF TypeOK
<1>2. /\ Bumped(l) = [pending EXCEPT ![l] = [pending[l] EXCEPT !.attempts = pending[l].attempts + 1]]
      /\ Deleted(l) = [pending EXCEPT ![l] = [pending[l] EXCEPT !.at = "gone", !.attempts = 0]]
  BY DEF Bumped, Deleted
<1>3. \A k \in Logins : k # l => pending'[k] = pending[k]
  BY <1>1, <1>2
<1>4. \/ pending'[l] = pending[l]
      \/ pending'[l] = [pending[l] EXCEPT !.attempts = pending[l].attempts + 1]
      \/ pending'[l] = [pending[l] EXCEPT !.at = "gone", !.attempts = 0]
      \/ pending'[l] = [pending[l] EXCEPT !.at = "email", !.attempts = 0]
      \/ pending'[l] = [pending[l] EXCEPT !.expired = TRUE]
  BY <1>1, <1>2
<1>5. pending'[l].at # "new" /\ pending'[l].who = pending[l].who
  BY <1>1, <1>4 DEF Pending
<1> QED
  BY <1>3, <1>5 DEF LoginsStay

\* Steps of the two codes.
LEMMA CodesSomebodys ==
    ASSUME TypeOK, RequestsAreSomebodys, NEW q \in Requests,
           \/ \E m \in Members : Start(q, m)
           \/ \E l \in Logins : Send(q, l) \/ Load(q, l)
           \/ Verify(q) \/ GiveUp(q)
    PROVE  RequestsAreSomebodys' /\ LoginsStay
<1>1. ASSUME NEW m \in Members, Start(q, m) PROVE RequestsAreSomebodys' /\ LoginsStay
  <2>1. LoginsStay
    BY <1>1 DEF Start, LoginsStay
  <2>2. CASE req' = req
    <3>1. pending' = pending
      BY <1>1 DEF Start
    <3> QED
      BY <2>1, <2>2, <3>1 DEF RequestsAreSomebodys
  <2>3. CASE Become(q, [Idle EXCEPT !.at = "send", !.who = m])
    <3>1. /\ req'[q] = [Idle EXCEPT !.at = "send", !.who = m]
          /\ \A p \in Requests : p # q => req'[p] = req[p]
      BY <2>3, OneGoesOn
    <3>2. req'[q].at = "send" /\ req'[q].who = m
      BY <3>1 DEF Idle
    <3>3. \A l \in Logins : pending'[l].at = pending[l].at
      BY <1>1 DEF Start
    <3> QED
      BY <2>1, <3>1, <3>2, <3>3, SomebodysNext
  <2> QED
    BY <1>1, <2>1, <2>2, <2>3 DEF Start
<1>2. ASSUME NEW l \in Logins, Send(q, l) PROVE RequestsAreSomebodys' /\ LoginsStay
  <2>1. /\ req'[q] = Idle
        /\ \A p \in Requests : p # q => req'[p] = req[p]
    BY <1>2, OneGoesOn DEF Send
  <2>2. pending \in [Logins -> Pending] /\ pending[l] \in Pending
    BY DEF TypeOK
  <2>3. pending'[l].who = req[q].who /\ \A k \in Logins : k # l => pending'[k] = pending[k]
    BY <1>2, <2>2 DEF Send, Pending
  <2>4. req[q].who \in Members /\ pending[l].at = "new"
    BY <1>2 DEF Send, RequestsAreSomebodys
  <2>5. LoginsStay
    BY <2>3, <2>4 DEF LoginsStay
  <2>6. req'[q].at = "idle"
    BY <2>1 DEF Idle
  <2> QED
    BY <2>1, <2>3, <2>4, <2>5, <2>6, SomebodysNext
<1>3. ASSUME NEW l \in Logins, Load(q, l) PROVE RequestsAreSomebodys' /\ LoginsStay
  <2>1. pending' = pending
    BY <1>3 DEF Load
  <2>2. /\ req'[q] = [Idle EXCEPT !.at = pending[l].at, !.login = l, !.who = pending[l].who]
        /\ \A p \in Requests : p # q => req'[p] = req[p]
    BY <1>3, OneGoesOn DEF Load
  <2>3. req'[q].login = l /\ req'[q].who = pending[l].who
    BY <2>2 DEF Idle
  <2>4. pending[l].at # "new" /\ pending[l].who \in Members
    BY <1>3 DEF Load, RequestsAreSomebodys
  <2>5. LoginsStay
    BY <2>1 DEF LoginsStay
  <2> QED
    BY <2>1, <2>2, <2>3, <2>4, <2>5, SomebodysNext
<1>4. CASE Verify(q)
  <2>1. /\ req[q].at \in {"sms", "email", "spent"}
        /\ req[q].login \in Logins /\ pending[req[q].login].at # "new"
        /\ req[q] \in Request /\ pending \in [Logins -> Pending]
    BY <1>4 DEF Verify, WrongCode, Forget, NeedsEmail, RightCode, RequestsAreSomebodys, TypeOK
  <2>2. GoesOn(q)
    <3>1. Become(q, Idle) \/ Go(q, "spent") \/ Go(q, "profile")
      BY <1>4 DEF Verify, WrongCode, Forget, NeedsEmail, RightCode
    <3> QED
      BY <2>1, <3>1, IdleGoesOn, GoGoesOn
  <2>3. /\ LoginsStay
        /\ \A l \in Logins : pending[l].at = "new" => pending'[l].at = "new"
    BY <1>4, <2>1, LoginUpdatesStay DEF Verify, WrongCode, Forget, NeedsEmail, RightCode
  <2> QED
    BY <2>1, <2>2, <2>3, GoesOnForSomebody
<1>5. CASE GiveUp(q)
  <2>1. LoginsStay
    BY <1>5 DEF GiveUp, LoginsStay
  <2>2. req'[q] = Idle /\ \A p \in Requests : p # q => req'[p] = req[p]
    BY <1>5, OneGoesOn DEF GiveUp
  <2>3. req'[q].at = "idle" /\ pending' = pending
    BY <1>5, <2>2 DEF Idle, GiveUp
  <2> QED
    BY <2>1, <2>2, <2>3, SomebodysNext
<1> QED
  BY <1>1, <1>2, <1>3, <1>4, <1>5

\* Steps of finalize.
LEMMA FinalizeSomebodys ==
    ASSUME TypeOK, RequestsAreSomebodys, NEW q \in Requests, Finalize(q)
    PROVE  RequestsAreSomebodys'
<1>1. /\ req[q].at \in {"profile", "place", "write", "seed", "connect", "close", "issue"}
      /\ req[q] \in Request
    BY DEF Finalize, EnsureFamily, Profile, Place, Adopt, Join, LoseRace, Found, Seed,
           Connect, Close, Issue, TypeOK
<1>2. req[q].login \in Logins /\ pending[req[q].login].at # "new"
  BY <1>1 DEF RequestsAreSomebodys
<1>3. GoesOn(q)
  <2>1. CASE Profile(q)
    <3>1. PICK h \in {HouseholdOf[req[q].who], Unknown} :
              Become(q, [req[q] EXCEPT !.at = "place", !.household = h])
      BY <2>1 DEF Profile
    <3>2. /\ [req[q] EXCEPT !.at = "place", !.household = h].who = req[q].who
          /\ [req[q] EXCEPT !.at = "place", !.household = h].login = req[q].login
      BY <1>1 DEF Request
    <3> QED
      BY <3>1, <3>2, BecomeGoesOn
  <2>6. CASE Place(q)
    <3>1. PICK f \in Families \cup {NoFamily} :
              Become(q, [req[q] EXCEPT !.at = "write", !.found = f,
                                       !.placed = memberOf[req[q].who] # NoFamily])
      BY <2>6 DEF Place
    <3>2. \A b : /\ [req[q] EXCEPT !.at = "write", !.found = f, !.placed = b].who = req[q].who
                 /\ [req[q] EXCEPT !.at = "write", !.found = f, !.placed = b].login = req[q].login
      BY <1>1 DEF Request
    <3> QED
      BY <3>1, <3>2, BecomeGoesOn
  <2>2. CASE LoseRace(q)
    <3>1. Become(q, Idle) \/ Become(q, [req[q] EXCEPT !.at = "place", !.again = TRUE])
      BY <2>2 DEF LoseRace
    <3>2. CASE Become(q, [req[q] EXCEPT !.at = "place", !.again = TRUE])
      BY <1>1, <3>2 DEF Become, Request, GoesOn, TypeOK
    <3> QED
      BY <3>1, <3>2, IdleGoesOn
  <2>3. CASE Adopt(q) \/ Join(q) \/ Connect(q) \/ Close(q) \/ Seed(q)
    <3>1. Become(q, Idle) \/ \E p \in {"connect", "close", "issue"} : Go(q, p)
      BY <2>3 DEF Adopt, Join, Connect, Close, Seed
    <3> QED
      BY <3>1, IdleGoesOn, GoGoesOn
  <2>4. ASSUME NEW f \in Families, Found(q, f) PROVE GoesOn(q)
    BY <1>1, <2>4 DEF Found, Request, Become, GoesOn, TypeOK
  <2>5. ASSUME NEW s \in Sessions, Issue(q, s) PROVE GoesOn(q)
    BY <2>5, IdleGoesOn DEF Issue
  <2> QED
    BY <2>1, <2>2, <2>3, <2>4, <2>5, <2>6 DEF Finalize, EnsureFamily
<1>4. /\ LoginsStay
      /\ \A l \in Logins : pending[l].at = "new" => pending'[l].at = "new"
  <2>1. pending' = pending \/ pending' = Deleted(req[q].login)
    BY DEF Finalize, EnsureFamily, Profile, Place, Adopt, Join, LoseRace, Found, Seed,
           Connect, Close, Issue
  <2> QED
    BY <1>2, <2>1, LoginUpdatesStay
<1> QED
  BY <1>1, <1>3, <1>4, GoesOnForSomebody

\* Sessions, time and the janitor.
LEMMA OutsideSomebodys ==
    ASSUME TypeOK, RequestsAreSomebodys,
           \/ \E s \in Sessions : Use(s) \/ Idles(s) \/ EndSession(s) \/ Disconnect(s)
           \/ \E l \in Logins : Expire(l) \/ Sweep(l) \/ Discard(l)
           \/ NextWindow
    PROVE  RequestsAreSomebodys'
<1>1. req' = req
  BY DEF Use, Idles, EndSession, Disconnect, Expire, Sweep, Discard, NextWindow
<1>2. CASE pending' = pending
  BY <1>1, <1>2 DEF RequestsAreSomebodys
<1>3. ASSUME NEW l \in Logins, Expire(l) \/ Sweep(l) \/ Discard(l) PROVE RequestsAreSomebodys'
  <2>1. pending[l].at # "new"
    BY <1>3 DEF Expire, Sweep, Discard
  <2>2. /\ LoginsStay
        /\ \A k \in Logins : pending[k].at = "new" => pending'[k].at = "new"
    BY <1>3, <2>1, LoginUpdatesStay DEF Expire, Sweep, Discard
  <2> QED
    BY <1>1, <2>2 DEF RequestsAreSomebodys, LoginsStay
<1> QED
  BY <1>2, <1>3 DEF Use, Idles, EndSession, Disconnect, NextWindow

-----------------------------------------------------------------------------
(* What a step keeps.                                                      *)

\* No step takes away a row, a membership, a family or its household.
Keeps ==
    /\ users \subseteq users'
    /\ \A m \in Members : memberOf[m] # NoFamily => memberOf'[m] = memberOf[m]
    /\ \A f \in Families : family[f].here =>
          /\ family'[f].here
          /\ family[f].household # Unknown => family'[f].household = family[f].household

\* A request that is not the one that goes on still relies on what holds.
LEMMA Elsewhere ==
    ASSUME TypeOK, RequestsAreSomebodys, Keeps, NEW p \in Requests,
           Stands(req[p]), req'[p] = req[p]
    PROVE  Stands(req[p])'
<1>1. /\ req[p] \in Request
      /\ req[p].at # "idle" => req[p].who \in Members
      /\ req[p].found \in Families \cup {NoFamily}
  BY DEF TypeOK, RequestsAreSomebodys, Request
<1>2. \A f \in Families : \A h : HasHousehold(f, h) =>
          family'[f].here /\ h # Unknown /\ family'[f].household = h
  BY DEF Keeps, HasHousehold
<1> QED
  BY <1>1, <1>2 DEF Stands, Keeps, HasHousehold

\* So it is enough to look at the one that does.
LEMMA StandsNext ==
    ASSUME TypeOK, RequestsAreSomebodys, ReadsStand, Keeps, NEW q \in Requests,
           \A p \in Requests : p # q => req'[p] = req[p],
           Stands(req[q])'
    PROVE  ReadsStand'
<1>1. ASSUME NEW p \in Requests PROVE Stands(req[p])'
  <2>1. CASE p = q
    BY <2>1
  <2>2. CASE p # q
    BY <2>2, Elsewhere DEF ReadsStand
  <2> QED
    BY <2>1, <2>2
<1> QED
  BY <1>1 DEF ReadsStand

\* Sessions outlive every step that starts none.
LEMMA SessionsNext ==
    ASSUME TypeOK, SessionsAreComplete, Keeps,
           \A s \in Sessions : session'[s].at = "live" =>
               session[s].at = "live" /\ session'[s].who = session[s].who
    PROVE  SessionsAreComplete'
<1>1. \A s \in Sessions : session[s].at = "live" =>
          session[s].who \in Members /\ memberOf[session[s].who] \in Families
  BY DEF TypeOK, SessionsAreComplete
<1> QED
  BY <1>1 DEF SessionsAreComplete, Keeps

\* Steps that leave the families and the users alone.
LEMMA Aside ==
    ASSUME FamiliesAreHouseholds, UNCHANGED <<users, memberOf, family, strangers>>
    PROVE  Keeps /\ FamiliesAreHouseholds'
  BY DEF Keeps, FamiliesAreHouseholds, HasHousehold

\* A request without reads, or with none yet, relies on nothing.
LEMMA NoReads ==
    ASSUME NEW q \in Requests, req'[q].at \in {"idle", "send", "sms", "email", "spent", "profile"}
    PROVE  Stands(req[q])'
  BY DEF Stands

\* The invariant on a step: what is left of it beside who requests are for.
Rest == ReadsStand /\ FamiliesAreHouseholds /\ SessionsAreComplete

\* The codes.
LEMMA CodesRest ==
    ASSUME TypeOK, RequestsAreSomebodys, Rest, NEW q \in Requests,
           \/ \E m \in Members : Start(q, m)
           \/ \E l \in Logins : Send(q, l) \/ Load(q, l)
           \/ Verify(q) \/ GiveUp(q)
    PROVE  Rest' /\ Keeps
<1>1. UNCHANGED <<users, memberOf, family, strangers, session>>
  BY DEF Start, Send, Load, Verify, WrongCode, Forget, NeedsEmail, RightCode, GiveUp
<1>2. Keeps /\ FamiliesAreHouseholds'
  BY <1>1, Aside DEF Rest
<1>3. SessionsAreComplete'
  BY <1>1, <1>2, SessionsNext DEF Rest
<1>4. ReadsStand'
  <2>1. CASE req' = req
    <3>1. \A p \in Requests : p # q => req'[p] = req[p]
      BY <2>1
    <3> QED
      BY <1>2, <2>1, <3>1, Elsewhere, StandsNext DEF Rest, ReadsStand
  <2>2. CASE \E p \in {"spent", "profile"} : Go(q, p)
    <3>1. PICK p \in {"spent", "profile"} : Go(q, p)
      BY <2>2
    <3>2. /\ req'[q] = [req[q] EXCEPT !.at = p]
          /\ \A r \in Requests : r # q => req'[r] = req[r]
      BY <3>1, OneGoesOn DEF Go
    <3>3. req[q] \in Request
      BY DEF TypeOK
    <3>4. req'[q].at = p
      BY <3>2, <3>3 DEF Request
    <3> QED
      BY <1>2, <3>2, <3>4, NoReads, StandsNext DEF Rest
  <2>3. CASE \E x : Become(q, x) /\ x.at \in {"idle", "send", "sms", "email"}
    <3>1. /\ req'[q].at \in {"idle", "send", "sms", "email"}
          /\ \A r \in Requests : r # q => req'[r] = req[r]
      BY <2>3, OneGoesOn
    <3> QED
      BY <1>2, <3>1, NoReads, StandsNext DEF Rest
  <2>4. Idle.at = "idle"
    BY DEF Idle
  <2>5. ASSUME NEW m \in Members, Start(q, m) PROVE ReadsStand'
    <3>1. [Idle EXCEPT !.at = "send", !.who = m].at = "send"
      BY DEF Idle
    <3>2. req' = req \/ Become(q, [Idle EXCEPT !.at = "send", !.who = m])
      BY <2>5 DEF Start
    <3> QED
      BY <2>1, <2>3, <3>1, <3>2
  <2>6. ASSUME NEW l \in Logins, Send(q, l) \/ Load(q, l) PROVE ReadsStand'
    <3>1. \A p, w : [Idle EXCEPT !.at = p, !.login = l, !.who = w].at = p
      BY DEF Idle
    <3>2. CASE Send(q, l)
      BY <2>3, <2>4, <3>2 DEF Send
    <3>3. CASE Load(q, l)
      <4>1. /\ req'[q] = [Idle EXCEPT !.at = pending[l].at, !.login = l, !.who = pending[l].who]
            /\ \A r \in Requests : r # q => req'[r] = req[r]
        BY <3>3, OneGoesOn DEF Load
      <4>2. req'[q].at \in {"sms", "email"}
        <5>1. pending[l].at \in {"sms", "email"}
          BY <3>3 DEF Load
        <5>2. req'[q].at = pending[l].at
          BY <3>1, <4>1
        <5> QED
          BY <5>1, <5>2
      <4> QED
        BY <1>2, <4>1, <4>2, NoReads, StandsNext DEF Rest
    <3> QED
      BY <2>6, <3>2, <3>3
  <2>7. CASE Verify(q) \/ GiveUp(q)
    <3>1. Become(q, Idle) \/ Go(q, "spent") \/ Go(q, "profile")
      BY <2>7 DEF Verify, WrongCode, Forget, NeedsEmail, RightCode, GiveUp
    <3> QED
      BY <2>2, <2>3, <2>4, <3>1
  <2> QED
    BY <2>5, <2>6, <2>7
<1> QED
  BY <1>2, <1>3, <1>4 DEF Rest

\* Sessions, time and the janitor.
LEMMA OutsideRest ==
    ASSUME TypeOK, RequestsAreSomebodys, Rest,
           \/ \E s \in Sessions : Use(s) \/ Idles(s) \/ EndSession(s) \/ Disconnect(s)
           \/ \E l \in Logins : Expire(l) \/ Sweep(l) \/ Discard(l)
           \/ NextWindow
    PROVE  Rest' /\ Keeps
<1>1. UNCHANGED <<users, memberOf, family, strangers, req>>
  BY DEF Use, Idles, EndSession, Disconnect, Expire, Sweep, Discard, NextWindow
<1>2. Keeps /\ FamiliesAreHouseholds'
  BY <1>1, Aside DEF Rest
<1>3. ReadsStand'
  BY <1>1, <1>2, Elsewhere DEF Rest, ReadsStand
<1>4. \A s \in Sessions : session'[s].at = "live" =>
          session[s].at = "live" /\ session'[s].who = session[s].who
  <2>1. CASE session' = session
    BY <2>1
  <2>2. ASSUME NEW s \in Sessions, Use(s) \/ Idles(s) \/ EndSession(s)
        PROVE  \A r \in Sessions : session'[r].at = "live" =>
                   session[r].at = "live" /\ session'[r].who = session[r].who
    <3>1. session \in [Sessions -> Session] /\ session[s] \in Session
      BY DEF TypeOK
    <3>2. \A r \in Sessions : r # s => session'[r] = session[r]
      BY <2>2, <3>1 DEF Use, Idles, EndSession, Ended
    <3>3. session[s].at = "live" /\ session'[s].who = session[s].who
      BY <2>2, <3>1 DEF Use, Idles, EndSession, Ended, Session
    <3> QED
      BY <3>2, <3>3
  <2> QED
    BY <2>1, <2>2 DEF Disconnect, Expire, Sweep, Discard, NextWindow
<1> QED
  BY <1>2, <1>3, <1>4, SessionsNext DEF Rest

\* What is known of a request in finalize.
LEMMA Known ==
    ASSUME TypeOK, RequestsAreSomebodys, ReadsStand, NEW q \in Requests, req[q].at # "idle"
    PROVE  /\ req[q] \in Request /\ req[q].who \in Members
           /\ req[q].found \in Families \cup {NoFamily}
           /\ req[q].household \in Households \cup {Unknown}
           /\ HouseholdOf[req[q].who] \in Households
           /\ Stands(req[q])
  BY SignInAssumption DEF TypeOK, RequestsAreSomebodys, ReadsStand, Request

\* What a step to the next place leaves of the request.
LEMMA Went ==
    ASSUME TypeOK, NEW q \in Requests, NEW p, Go(q, p)
    PROVE  /\ req'[q].at = p /\ req'[q].who = req[q].who
           /\ req'[q].found = req[q].found /\ req'[q].household = req[q].household
           /\ \A r \in Requests : r # q => req'[r] = req[r]
<1>1. req[q] \in Request
  BY DEF TypeOK
<1>2. /\ req'[q] = [req[q] EXCEPT !.at = p]
      /\ \A r \in Requests : r # q => req'[r] = req[r]
  BY OneGoesOn DEF Go
<1> QED
  BY <1>1, <1>2 DEF Request

\* The user's row.
LEMMA ProfileRest ==
    ASSUME TypeOK, RequestsAreSomebodys, Rest, NEW q \in Requests, Profile(q)
    PROVE  Rest' /\ Keeps
<1>1. Keeps /\ FamiliesAreHouseholds' /\ session' = session
  BY DEF Profile, Keeps, Rest, FamiliesAreHouseholds, HasHousehold
<1>2. SessionsAreComplete'
  BY <1>1, SessionsNext DEF Rest
<1>3. PICK h \in {HouseholdOf[req[q].who], Unknown} :
          Become(q, [req[q] EXCEPT !.at = "place", !.household = h])
  BY DEF Profile
<1>4. /\ req'[q] = [req[q] EXCEPT !.at = "place", !.household = h]
      /\ \A r \in Requests : r # q => req'[r] = req[r]
  BY <1>3, OneGoesOn
<1>5. req[q] \in Request
  BY DEF TypeOK
<1>6. /\ req'[q].at = "place" /\ req'[q].who = req[q].who /\ req'[q].household = h
      /\ req[q].who \in users'
  BY <1>4, <1>5 DEF Request, Profile
<1>7. Stands(req[q])'
  BY <1>6 DEF Stands
<1> QED
  BY <1>1, <1>2, <1>4, <1>7, StandsNext DEF Rest

\* The reads of EnsureFamily.
LEMMA PlaceRest ==
    ASSUME TypeOK, RequestsAreSomebodys, Rest, NEW q \in Requests, Place(q)
    PROVE  Rest' /\ Keeps
<1>1. UNCHANGED <<users, memberOf, family, strangers, session>> /\ req[q].at = "place"
  BY DEF Place
<1>2. Keeps /\ FamiliesAreHouseholds'
  BY <1>1, Aside DEF Rest
<1>3. SessionsAreComplete'
  BY <1>1, <1>2, SessionsNext DEF Rest
<1>4. PICK f \in Families \cup {NoFamily} :
          /\ IF memberOf[req[q].who] # NoFamily THEN f = memberOf[req[q].who]
             ELSE \/ f # NoFamily /\ HasHousehold(f, req[q].household)
                  \/ f = NoFamily
          /\ Become(q, [req[q] EXCEPT !.at = "write", !.found = f,
                                      !.placed = memberOf[req[q].who] # NoFamily])
  BY DEF Place
<1>5. /\ req[q] \in Request
      /\ req[q].household \in {HouseholdOf[req[q].who], Unknown} /\ req[q].who \in users
  BY <1>1 DEF TypeOK, Rest, ReadsStand, Stands
<1>6. /\ req'[q] = [req[q] EXCEPT !.at = "write", !.found = f,
                                   !.placed = memberOf[req[q].who] # NoFamily]
      /\ \A r \in Requests : r # q => req'[r] = req[r]
  BY <1>4, OneGoesOn
<1>7. /\ req'[q].at = "write" /\ req'[q].who = req[q].who /\ req'[q].found = f
      /\ req'[q].household = req[q].household
      /\ req'[q].placed = (memberOf[req[q].who] # NoFamily)
  BY <1>5, <1>6 DEF Request
<1>8. Stands(req[q])'
  <2>1. memberOf[req[q].who] # NoFamily => f = memberOf[req[q].who]
    BY <1>4
  <2>2. memberOf[req[q].who] = NoFamily /\ f # NoFamily => HasHousehold(f, req[q].household)'
    BY <1>1, <1>4, <1>7 DEF HasHousehold
  <2> QED
    BY <1>1, <1>5, <1>7, <2>1, <2>2 DEF Stands, HasHousehold
<1> QED
  BY <1>2, <1>3, <1>6, <1>8, StandsNext DEF Rest

\* A family takes on its household: it had none, and no other family has it.
LEMMA AdoptRest ==
    ASSUME TypeOK, RequestsAreSomebodys, Rest, NEW q \in Requests, Adopt(q)
    PROVE  Rest' /\ Keeps
<1> DEFINE f == req[q].found
           h == req[q].household
<1>1. /\ req[q].at = "write" /\ req[q].placed
      /\ UNCHANGED <<users, memberOf, strangers, session>>
      /\ Go(q, "connect")
  BY DEF Adopt
<1>2. /\ req[q].who \in Members /\ f \in Families /\ h \in Households \cup {Unknown}
      /\ Stands(req[q])
  BY <1>1, Known DEF Rest, Stands
<1>3. /\ family \in [Families -> Family]
      /\ \/ family' = family
         \/ /\ h # Unknown /\ family[f].household = Unknown
            /\ \A g \in Families : ~HasHousehold(g, h)
            /\ family' = [family EXCEPT ![f] = [@ EXCEPT !.household = h]]
  BY DEF Adopt, TypeOK
<1>4. \A g \in Families : /\ family'[g].here <=> family[g].here
                          /\ family[g].household # Unknown =>
                                 family'[g].household = family[g].household
  BY <1>2, <1>3 DEF Family
<1>5. Keeps
  BY <1>1, <1>4 DEF Keeps
<1>6. SessionsAreComplete'
  BY <1>1, <1>5, SessionsNext DEF Rest
<1>7. Stands(req[q])'
  BY <1>1, <1>2, Went DEF Stands
<1>8. ReadsStand'
  BY <1>1, <1>5, <1>7, Went, StandsNext DEF Rest
<1>9. FamiliesAreHouseholds'
  <2>1. CASE family' = family
    BY <1>1, <2>1 DEF Rest, FamiliesAreHouseholds, HasHousehold
  <2>2. CASE family' # family
    <3>1. /\ h \in Households /\ family[f].household = Unknown
          /\ \A g \in Families : ~HasHousehold(g, h)
          /\ family'[f].household = h /\ \A g \in Families : g # f => family'[g] = family[g]
      BY <1>2, <1>3, <2>2 DEF Family
    <3>2. ASSUME NEW a \in Families, NEW b \in Families, NEW k \in Households,
                 HasHousehold(a, k)', HasHousehold(b, k)'
          PROVE  a = b
      BY <3>1, <1>4, <3>2 DEF Rest, FamiliesAreHouseholds, HasHousehold
    <3>3. ASSUME NEW m \in Members, memberOf[m] # NoFamily
          PROVE  /\ family'[memberOf[m]].here
                 /\ m \in strangers \/ family'[memberOf[m]].household = HouseholdOf[m]
      <4>1. memberOf[m] \in Families /\ HouseholdOf[m] \in Households
        BY <3>3, SignInAssumption DEF TypeOK
      <4>2. /\ family[memberOf[m]].here
            /\ m \in strangers \/ family[memberOf[m]].household = HouseholdOf[m]
        BY <3>3 DEF Rest, FamiliesAreHouseholds
      <4> QED
        BY <4>1, <4>2, <1>4, SignInAssumption
    <3> QED
      BY <1>1, <3>2, <3>3 DEF FamiliesAreHouseholds
  <2> QED
    BY <2>1, <2>2
<1> QED
  BY <1>5, <1>6, <1>8, <1>9 DEF Rest

\* A newcomer joins the family of the household.
LEMMA JoinRest ==
    ASSUME TypeOK, RequestsAreSomebodys, Rest, NEW q \in Requests, Join(q)
    PROVE  Rest' /\ Keeps
<1> DEFINE m == req[q].who
           f == req[q].found
<1>1. /\ req[q].at = "write" /\ ~req[q].placed /\ f # NoFamily
      /\ memberOf' = Joined(m, f)
      /\ UNCHANGED <<users, family, strangers, session>>
      /\ Go(q, "connect")
  BY DEF Join
<1>2. /\ m \in Members /\ f \in Families /\ Stands(req[q])
      /\ req[q].household \in Households \cup {Unknown}
  BY <1>1, Known DEF Rest
<1>3. /\ \A n \in Members : memberOf[n] # NoFamily => memberOf'[n] = memberOf[n]
      /\ memberOf'[m] # NoFamily
      /\ \A n \in Members : memberOf'[n] = memberOf[n] \/ (n = m /\ memberOf'[n] = f)
  BY <1>1, <1>2, JoinedType
<1>4. Keeps
  BY <1>1, <1>3 DEF Keeps
<1>5. SessionsAreComplete'
  BY <1>1, <1>4, SessionsNext DEF Rest
<1>6. Stands(req[q])'
  BY <1>1, <1>2, <1>3, Went DEF Stands
<1>7. ReadsStand'
  BY <1>1, <1>4, <1>6, Went, StandsNext DEF Rest
<1>8. family[f].here /\ family[f].household = HouseholdOf[m]
  BY <1>1, <1>2 DEF Stands, HasHousehold
<1>9. FamiliesAreHouseholds'
  BY <1>1, <1>3, <1>8 DEF Rest, FamiliesAreHouseholds, HasHousehold
<1> QED
  BY <1>4, <1>5, <1>7, <1>9 DEF Rest

\* A newcomer founds the family of a household that has none.
LEMMA FoundRest ==
    ASSUME TypeOK, RequestsAreSomebodys, Rest, NEW q \in Requests,
           NEW f \in Families, Found(q, f)
    PROVE  Rest' /\ Keeps
<1> DEFINE m == req[q].who
           h == req[q].household
<1>1. /\ req[q].at = "write" /\ ~Taken(h) /\ ~family[f].here
      /\ family' = [family EXCEPT ![f] = [here |-> TRUE, household |-> h, seeded |-> 0]]
      /\ memberOf' = Joined(m, f)
      /\ Become(q, [req[q] EXCEPT !.at = "seed", !.found = f])
      /\ Stranger(q)
      /\ UNCHANGED <<users, session>>
  BY DEF Found
<1>2. /\ m \in Members /\ Stands(req[q]) /\ req[q] \in Request
      /\ h \in Households \cup {Unknown}
  BY <1>1, Known DEF Rest
<1>3. /\ \A n \in Members : memberOf[n] # NoFamily => memberOf'[n] = memberOf[n]
      /\ memberOf'[m] # NoFamily
      /\ \A n \in Members : memberOf'[n] = memberOf[n] \/ (n = m /\ memberOf'[n] = f)
  BY <1>1, <1>2, JoinedType
<1>4. /\ family'[f].here /\ family'[f].household = h
      /\ \A g \in Families : g # f => family'[g] = family[g]
  BY <1>1 DEF TypeOK
<1>5. Keeps
  BY <1>1, <1>3, <1>4 DEF Keeps
<1>6. SessionsAreComplete'
  BY <1>1, <1>5, SessionsNext DEF Rest
<1>7. /\ req'[q] = [req[q] EXCEPT !.at = "seed", !.found = f]
      /\ \A r \in Requests : r # q => req'[r] = req[r]
  BY <1>1, OneGoesOn
<1>8. req'[q].at = "seed" /\ req'[q].who = m /\ req'[q].found = f
  BY <1>2, <1>7 DEF Request
<1>9. m \in users
  BY <1>1, <1>2 DEF Stands
<1>10. Stands(req[q])'
  BY <1>1, <1>3, <1>8, <1>9 DEF Stands
<1>11. ReadsStand'
  BY <1>5, <1>7, <1>10, StandsNext DEF Rest
<1>12. FamiliesAreHouseholds'
  <2>1. ASSUME NEW a \in Families, NEW b \in Families, NEW k \in Households,
               HasHousehold(a, k)', HasHousehold(b, k)'
        PROVE  a = b
    BY <1>1, <1>4, <2>1 DEF Rest, FamiliesAreHouseholds, HasHousehold, Taken
  <2>2. strangers \subseteq strangers' /\ (h = Unknown => m \in strangers')
    BY <1>1 DEF Stranger
  <2>3. ASSUME NEW n \in Members, memberOf'[n] # NoFamily
        PROVE  /\ family'[memberOf'[n]].here
               /\ n \in strangers' \/ family'[memberOf'[n]].household = HouseholdOf[n]
    <3>1. CASE memberOf'[n] = memberOf[n]
      <4>1. /\ memberOf[n] \in Families /\ family[memberOf[n]].here
            /\ n \in strangers \/ family[memberOf[n]].household = HouseholdOf[n]
        BY <2>3, <3>1 DEF TypeOK, Rest, FamiliesAreHouseholds
      <4>2. family'[memberOf[n]] = family[memberOf[n]]
        BY <4>1, <1>1, <1>4
      <4> QED
        BY <3>1, <4>1, <4>2, <2>2
    <3>2. CASE n = m /\ memberOf'[n] = f
      <4>1. h \in {HouseholdOf[m], Unknown}
        BY <1>1, <1>2 DEF Stands
      <4> QED
        BY <3>2, <4>1, <1>4, <2>2
    <3> QED
      BY <3>1, <3>2, <1>3
  <2> QED
    BY <2>1, <2>3 DEF FamiliesAreHouseholds
<1> QED
  BY <1>5, <1>6, <1>11, <1>12 DEF Rest

\* The loser of a race looks again.
LEMMA LoseRaceRest ==
    ASSUME TypeOK, RequestsAreSomebodys, Rest, NEW q \in Requests, LoseRace(q)
    PROVE  Rest' /\ Keeps
<1>1. UNCHANGED <<users, memberOf, family, strangers, session>> /\ req[q].at = "write"
  BY DEF LoseRace
<1>2. Keeps /\ FamiliesAreHouseholds'
  BY <1>1, Aside DEF Rest
<1>3. SessionsAreComplete'
  BY <1>1, <1>2, SessionsNext DEF Rest
<1>4. PICK x \in {Idle, [req[q] EXCEPT !.at = "place", !.again = TRUE]} : Become(q, x)
  BY DEF LoseRace
<1>5. req'[q] = x /\ \A r \in Requests : r # q => req'[r] = req[r]
  BY <1>4, OneGoesOn
<1>6. /\ req[q] \in Request
      /\ req[q].household \in {HouseholdOf[req[q].who], Unknown} /\ req[q].who \in users
  BY <1>1 DEF TypeOK, Rest, ReadsStand, Stands
<1>7. Stands(req[q])'
  <2>1. CASE x = Idle
    BY <1>5, <2>1, NoReads DEF Idle
  <2>2. CASE x = [req[q] EXCEPT !.at = "place", !.again = TRUE]
    <3>1. /\ req'[q].at = "place" /\ req'[q].who = req[q].who
          /\ req'[q].household = req[q].household
      BY <1>5, <1>6, <2>2 DEF Request
    <3> QED
      BY <1>1, <1>6, <3>1 DEF Stands
  <2> QED
    BY <1>4, <2>1, <2>2
<1> QED
  BY <1>2, <1>3, <1>5, <1>7, StandsNext DEF Rest

\* The system categories change nothing that anything rests on.
LEMMA SeedRest ==
    ASSUME TypeOK, RequestsAreSomebodys, Rest, NEW q \in Requests, Seed(q)
    PROVE  Rest' /\ Keeps
<1>1. /\ req[q].at = "seed"
      /\ UNCHANGED <<users, memberOf, strangers, session>>
      /\ \E n \in 0..2 : family' = [family EXCEPT ![req[q].found] = [@ EXCEPT !.seeded = n]]
      /\ Go(q, "connect") \/ Become(q, Idle)
  BY DEF Seed
<1>2. /\ req[q].found \in Families /\ Stands(req[q])
      /\ family \in [Families -> Family]
  BY <1>1 DEF Rest, ReadsStand, Stands, TypeOK
<1>3. \A g \in Families : /\ family'[g].here = family[g].here
                          /\ family'[g].household = family[g].household
  BY <1>1, <1>2 DEF Family
<1>4. Keeps
  BY <1>1, <1>3 DEF Keeps
<1>5. SessionsAreComplete'
  BY <1>1, <1>4, SessionsNext DEF Rest
<1>6. FamiliesAreHouseholds'
  <2>1. \A m \in Members : memberOf[m] \in Families \cup {NoFamily}
    BY DEF TypeOK
  <2> QED
    BY <1>1, <1>3, <2>1 DEF Rest, FamiliesAreHouseholds, HasHousehold
<1>7. Stands(req[q])' /\ \A r \in Requests : r # q => req'[r] = req[r]
  <2>1. CASE Go(q, "connect")
    BY <1>1, <1>2, <2>1, Went DEF Stands
  <2>2. CASE Become(q, Idle)
    <3>1. req'[q] = Idle /\ \A r \in Requests : r # q => req'[r] = req[r]
      BY <2>2, OneGoesOn
    <3> QED
      BY <3>1, NoReads DEF Idle
  <2> QED
    BY <1>1, <2>1, <2>2
<1> QED
  BY <1>4, <1>5, <1>6, <1>7, StandsNext DEF Rest

\* The connection, the pending login and the session.
LEMMA SigningRest ==
    ASSUME TypeOK, RequestsAreSomebodys, Rest, NEW q \in Requests,
           \/ Connect(q) \/ Close(q) \/ \E s \in Sessions : Issue(q, s)
    PROVE  Rest' /\ Keeps
<1>1. UNCHANGED <<users, memberOf, family, strangers>>
  BY DEF Connect, Close, Issue
<1>2. Keeps /\ FamiliesAreHouseholds'
  BY <1>1, Aside DEF Rest
<1>3. /\ req[q].at \in {"connect", "close", "issue"} /\ Stands(req[q])
      /\ req[q].who \in users /\ memberOf[req[q].who] # NoFamily
      /\ req[q].who \in Members
  BY Known DEF Connect, Close, Issue, Rest, ReadsStand, Stands, RequestsAreSomebodys
<1>4. CASE Connect(q) \/ Close(q)
  <2>1. session' = session /\ \E p \in {"close", "issue"} : Go(q, p)
    BY <1>4 DEF Connect, Close
  <2>2. SessionsAreComplete'
    BY <1>2, <2>1, SessionsNext DEF Rest
  <2>3. Stands(req[q])' /\ \A r \in Requests : r # q => req'[r] = req[r]
    BY <1>1, <1>3, <2>1, Went DEF Stands
  <2> QED
    BY <1>2, <2>2, <2>3, StandsNext DEF Rest
<1>5. ASSUME NEW s \in Sessions, Issue(q, s) PROVE Rest' /\ Keeps
  <2>1. req'[q] = Idle /\ \A r \in Requests : r # q => req'[r] = req[r]
    BY <1>5, OneGoesOn DEF Issue
  <2>2. Stands(req[q])'
    BY <2>1, NoReads DEF Idle
  <2>3. /\ session'[s].who = req[q].who
        /\ \A r \in Sessions : r # s => session'[r] = session[r]
    BY <1>5 DEF Issue, TypeOK
  <2>4. memberOf[req[q].who] \in Families /\ family[memberOf[req[q].who]].here
    BY <1>3 DEF TypeOK, Rest, FamiliesAreHouseholds
  <2>5. SessionsAreComplete'
    BY <1>1, <1>3, <2>3, <2>4 DEF Rest, SessionsAreComplete
  <2> QED
    BY <1>2, <2>1, <2>2, <2>5, StandsNext DEF Rest
<1> QED
  BY <1>4, <1>5 DEF Connect, Close

-----------------------------------------------------------------------------
(* The theorems.                                                           *)

\* The invariant holds at first.
LEMMA AtFirst == Init => TypeOK /\ SignInInv
<1> SUFFICES ASSUME Init PROVE TypeOK /\ SignInInv
  OBVIOUS
<1>1. TypeOK
  BY IdleType, SignInAssumption DEF Init, TypeOK, Pending, Family, Session
<1>2. RequestsAreSomebodys /\ SessionsAreComplete
  BY DEF Init, RequestsAreSomebodys, SessionsAreComplete, Idle
<1>3. ReadsStand
  BY DEF Init, ReadsStand, Stands, Idle
<1>4. FamiliesAreHouseholds
  BY DEF Init, FamiliesAreHouseholds, HasHousehold
<1> QED
  BY <1>1, <1>2, <1>3, <1>4 DEF SignInInv

\* Every step keeps it, and what it found.
LEMMA EveryStep ==
    TypeOK /\ SignInInv /\ [Next]_vars => (TypeOK /\ SignInInv)' /\ Keeps
<1> SUFFICES ASSUME TypeOK, SignInInv, [Next]_vars
             PROVE  TypeOK' /\ RequestsAreSomebodys' /\ Rest' /\ Keeps
  BY DEF SignInInv, Rest
<1>1. RequestsAreSomebodys /\ ReadsStand /\ Rest
  BY DEF SignInInv, Rest
<1>2. CASE UNCHANGED vars
  <2>1. Keeps /\ FamiliesAreHouseholds'
    BY <1>1, <1>2, Aside DEF vars, Rest
  <2>2. ReadsStand'
    BY <1>1, <1>2, <2>1, Elsewhere DEF vars, Rest, ReadsStand
  <2>3. SessionsAreComplete'
    BY <1>1, <1>2, <2>1, SessionsNext DEF vars, Rest
  <2>4. RequestsAreSomebodys'
    BY <1>1, <1>2 DEF vars, RequestsAreSomebodys
  <2>5. TypeOK'
    BY <1>2 DEF vars, TypeOK
  <2> QED
    BY <2>1, <2>2, <2>3, <2>4, <2>5 DEF Rest
<1>3. ASSUME NEW q \in Requests,
             \/ \E m \in Members : Start(q, m)
             \/ \E l \in Logins : Send(q, l) \/ Load(q, l)
             \/ Verify(q) \/ GiveUp(q)
      PROVE  TypeOK' /\ RequestsAreSomebodys' /\ Rest' /\ Keeps
  <2>1. TypeOK'
    BY <1>1, <1>3, StartType, CodesType, VerifyType
  <2> QED
    BY <1>1, <1>3, <2>1, CodesSomebodys, CodesRest
<1>4. ASSUME NEW q \in Requests, Finalize(q)
      PROVE  TypeOK' /\ RequestsAreSomebodys' /\ Rest' /\ Keeps
  <2>1. TypeOK'
    BY <1>1, <1>4, PlacingType, FamilyType, SigningType DEF Finalize, EnsureFamily
  <2>2. Rest' /\ Keeps
    BY <1>1, <1>4, ProfileRest, PlaceRest, AdoptRest, JoinRest, FoundRest, LoseRaceRest,
       SeedRest, SigningRest DEF Finalize, EnsureFamily
  <2> QED
    BY <1>1, <1>4, <2>1, <2>2, FinalizeSomebodys
<1>5. CASE \/ \E s \in Sessions : Use(s) \/ Idles(s) \/ EndSession(s) \/ Disconnect(s)
           \/ \E l \in Logins : Expire(l) \/ Sweep(l) \/ Discard(l)
           \/ NextWindow
  BY <1>1, <1>5, OutsideType, OutsideSomebodys, OutsideRest
<1> QED
  BY <1>2, <1>3, <1>4, <1>5 DEF Next

\* The variables have their types, for any number of people, households,
\* requests, logins and sessions.
THEOREM TypeCorrect == Spec => []TypeOK
<1> QED
  BY AtFirst, EveryStep, PTL DEF Spec

\* The invariant of sign-in.
THEOREM SignInInvariant == Spec => []SignInInv
<1> QED
  BY AtFirst, EveryStep, PTL DEF Spec

\* Members of one household share a family, unless one of them founded one
\* while the household was unknown.
THEOREM OneFamily == Spec => []HouseholdShares
<1>1. TypeOK /\ SignInInv => HouseholdShares
  <2> SUFFICES ASSUME TypeOK, SignInInv, NEW m \in Members, NEW n \in Members,
                      memberOf[m] # NoFamily, memberOf[n] # NoFamily,
                      HouseholdOf[m] = HouseholdOf[n],
                      m \notin strangers, n \notin strangers
               PROVE  memberOf[m] = memberOf[n]
    BY DEF HouseholdShares
  <2>1. /\ memberOf[m] \in Families /\ memberOf[n] \in Families
        /\ HouseholdOf[m] \in Households /\ HouseholdOf[m] # Unknown
    BY SignInAssumption DEF TypeOK
  <2>2. HasHousehold(memberOf[m], HouseholdOf[m]) /\ HasHousehold(memberOf[n], HouseholdOf[m])
    BY <2>1 DEF SignInInv, FamiliesAreHouseholds, HasHousehold
  <2> QED
    BY <2>1, <2>2 DEF SignInInv, FamiliesAreHouseholds
<1> QED
  BY <1>1, TypeCorrect, SignInInvariant, PTL

\* Who has a session has a row and a family.
THEOREM CompleteSessions == Spec => []SessionsAreComplete
<1>1. SignInInv => SessionsAreComplete
  BY DEF SignInInv
<1> QED
  BY <1>1, SignInInvariant, PTL

\* Nobody changes families, and no family its household.
THEOREM ForGood == Spec => PlacedForGood
<1>1. TypeOK /\ SignInInv /\ [Next]_vars =>
          [/\ \A m \in Members : memberOf[m] # NoFamily => memberOf'[m] = memberOf[m]
           /\ \A f \in Families : family[f].here /\ family[f].household # Unknown
                  => family'[f].household = family[f].household]_vars
  BY EveryStep DEF Keeps
<1> QED
  BY <1>1, TypeCorrect, SignInInvariant, PTL DEF Spec, PlacedForGood

-----------------------------------------------------------------------------
(* Attempts.                                                               *)

\* There are finitely many requests, and so Spenders can be counted.
LEMMA SpendersCount ==
    ASSUME NEW l
    PROVE  /\ Spenders(l) \subseteq Requests /\ IsFiniteSet(Spenders(l))
           /\ Cardinality(Spenders(l)) \in Nat
           /\ Cardinality(Spenders(l)) <= Cardinality(Requests)
           /\ Cardinality(Requests) \in Nat
<1>1. Spenders(l) \subseteq Requests
  BY DEF Spenders
<1> QED
  BY <1>1, FS_Subset, FS_CardinalityType, SignInAssumption

\* The same after a step.
LEMMA SpendersCountNext ==
    ASSUME NEW l
    PROVE  IsFiniteSet(Spenders(l)') /\ Cardinality(Spenders(l)') \in Nat
<1>1. Spenders(l)' \subseteq Requests
  BY DEF Spenders
<1> QED
  BY <1>1, FS_Subset, FS_CardinalityType, SignInAssumption

\* Requests that do not spend the last attempt, before or after.
LEMMA NoneSpends ==
    ASSUME NEW q \in Requests, \A p \in Requests : p # q => req'[p] = req[p],
           req[q].at # "spent", req'[q].at # "spent", NEW l
    PROVE  Spenders(l)' = Spenders(l)
  BY DEF Spenders

\* A login that keeps its attempts, or starts anew, or is gone.
LEMMA StaysCounted ==
    ASSUME TypeOK, NEW l \in Logins, IsCounted(l), lost' = lost, Spenders(l)' = Spenders(l),
           pending'[l].at # "gone" =>
               /\ pending[l].at # "gone"
               /\ \/ pending'[l].attempts = pending[l].attempts /\ wrong'[l] = wrong[l]
                  \/ pending'[l].attempts = 0 /\ wrong'[l] = 0
    PROVE  IsCounted(l)'
<1> DEFINE k == Cardinality(Spenders(l))
<1>1. /\ k \in Nat /\ Cardinality(Spenders(l)') = k
      /\ MaxAttempts - 1 \in Nat /\ lost \in Nat
      /\ pending[l].attempts \in Nat /\ wrong[l] \in Nat
  BY SpendersCount, SignInAssumption DEF TypeOK, Pending
<1>2. ASSUME pending'[l].at # "gone"
      PROVE  /\ wrong'[l] <= pending'[l].attempts
             /\ pending'[l].attempts <= MaxAttempts - 1 + k + lost
  <2>1. /\ wrong[l] <= pending[l].attempts
        /\ pending[l].attempts <= MaxAttempts - 1 + k + lost
    BY <1>2 DEF IsCounted
  <2> HIDE DEF k
  <2> QED
    BY <1>1, <1>2, <2>1
<1> QED
  BY <1>1, <1>2 DEF IsCounted

\* A request neither counts an attempt nor spends one.
LEMMA AsideCounted ==
    ASSUME TypeOK, CodesInv, UNCHANGED <<wrong, lost>>,
           NEW q \in Requests, \A p \in Requests : p # q => req'[p] = req[p],
           req[q].at # "spent", req'[q].at # "spent",
           \A l \in Logins : pending'[l].at # "gone" =>
               pending[l].at # "gone" /\ pending'[l].attempts = pending[l].attempts
    PROVE  CodesInv'
<1>1. ASSUME NEW l \in Logins PROVE IsCounted(l)'
  <2>1. Spenders(l)' = Spenders(l)
    BY NoneSpends
  <2> QED
    BY <2>1, StaysCounted DEF CodesInv
<1> QED
  BY <1>1 DEF CodesInv

\* What counting an attempt, and deleting a login, do to the rows.
LEMMA RowsAfter ==
    ASSUME TypeOK, NEW l \in Logins
    PROVE  /\ pending' = Bumped(l) =>
                /\ \A k \in Logins \ {l} : pending'[k] = pending[k]
                /\ pending'[l].at = pending[l].at
                /\ pending'[l].attempts = pending[l].attempts + 1
           /\ pending' = Deleted(l) =>
                /\ \A k \in Logins \ {l} : pending'[k] = pending[k]
                /\ pending'[l].at = "gone"
<1>1. pending \in [Logins -> Pending] /\ pending[l] \in Pending
  BY DEF TypeOK
<1>2. /\ Bumped(l) = [pending EXCEPT ![l] = [pending[l] EXCEPT !.attempts = pending[l].attempts + 1]]
      /\ Deleted(l) = [pending EXCEPT ![l] = [pending[l] EXCEPT !.at = "gone", !.attempts = 0]]
  BY DEF Bumped, Deleted
<1>3. ASSUME pending' = Bumped(l)
      PROVE  /\ \A k \in Logins \ {l} : pending'[k] = pending[k]
             /\ pending'[l] = [pending[l] EXCEPT !.attempts = pending[l].attempts + 1]
  BY <1>1, <1>2, <1>3
<1>4. ASSUME pending' = Deleted(l)
      PROVE  /\ \A k \in Logins \ {l} : pending'[k] = pending[k]
             /\ pending'[l] = [pending[l] EXCEPT !.at = "gone", !.attempts = 0]
  BY <1>1, <1>2, <1>4
<1> QED
  BY <1>1, <1>3, <1>4 DEF Pending

\* A wrong code is counted, in the row and in the history, or was for nothing.
LEMMA WrongCounted ==
    ASSUME TypeOK, RequestsAreSomebodys, CodesInv, NEW q \in Requests, WrongCode(q)
    PROVE  CodesInv'
<1>0. PICK l \in Logins : l = req[q].login
  BY DEF WrongCode, RequestsAreSomebodys
<1>1. /\ l \in Logins /\ l = req[q].login
      /\ req[q].at \in {"sms", "email"} /\ lost' = lost
  BY <1>0 DEF WrongCode
<1>2. CASE pending[l].at = "gone"
  <2>1. Become(q, Idle) /\ UNCHANGED <<pending, wrong>>
    BY <1>1, <1>2 DEF WrongCode
  <2>2. req'[q].at = "idle" /\ \A p \in Requests : p # q => req'[p] = req[p]
    BY <2>1, OneGoesOn DEF Idle
  <2> QED
    BY <1>1, <2>1, <2>2, AsideCounted
<1>3. CASE pending[l].at # "gone"
  <2>1. /\ pending' = Bumped(l)
        /\ IF Spent(pending[l].attempts + 1) THEN Go(q, "spent") ELSE Become(q, Idle)
    BY <1>1, <1>3 DEF WrongCode
  <2>2. /\ \A k \in Logins \ {l} : pending'[k] = pending[k]
        /\ pending'[l].at = pending[l].at
        /\ pending'[l].attempts = pending[l].attempts + 1
    BY <1>1, <2>1, RowsAfter
  <2>3. /\ \A k \in Logins \ {l} : wrong'[k] = wrong[k]
        /\ wrong'[l] \in {wrong[l], wrong[l] + 1}
    <3>1. wrong' = wrong \/ wrong' = [wrong EXCEPT ![l] = @ + 1]
      BY <1>1 DEF WrongCode
    <3> QED
      BY <1>1, <3>1 DEF TypeOK
  <2>4. /\ \A p \in Requests : p # q => req'[p] = req[p]
        /\ IF Spent(pending[l].attempts + 1)
           THEN req'[q].at = "spent" /\ req'[q].login = l
           ELSE req'[q].at = "idle"
    <3>1. CASE Spent(pending[l].attempts + 1)
      <4>1. Go(q, "spent") /\ req[q] \in Request
        BY <2>1, <3>1 DEF TypeOK
      <4>2. /\ req'[q] = [req[q] EXCEPT !.at = "spent"]
            /\ \A p \in Requests : p # q => req'[p] = req[p]
        BY <4>1, OneGoesOn DEF Go
      <4> QED
        BY <1>1, <3>1, <4>1, <4>2 DEF Request
    <3>2. CASE ~Spent(pending[l].attempts + 1)
      <4>1. req'[q] = Idle /\ \A p \in Requests : p # q => req'[p] = req[p]
        BY <2>1, <3>2, OneGoesOn
      <4> QED
        BY <3>2, <4>1 DEF Idle
    <3> QED
      BY <3>1, <3>2
  <2>5. ASSUME NEW k \in Logins, k # l PROVE IsCounted(k)'
    <3>1. Spenders(k)' = Spenders(k)
      BY <1>1, <2>4, <2>5 DEF Spenders
    <3> QED
      BY <1>1, <2>2, <2>3, <2>5, <3>1, StaysCounted DEF CodesInv
  <2>6. IsCounted(l)'
    <3> DEFINE a == pending[l].attempts
               k == Cardinality(Spenders(l))
               n == Cardinality(Spenders(l)')
    <3>1. /\ a \in Nat /\ k \in Nat /\ wrong[l] \in Nat /\ lost \in Nat
          /\ MaxAttempts \in Nat \ {0}
      BY <1>1, SpendersCount, SignInAssumption DEF TypeOK, Pending
    <3>2. wrong[l] <= a /\ a <= MaxAttempts - 1 + k + lost
      BY <1>1, <1>3 DEF CodesInv, IsCounted
    <3>3. CASE Spent(a + 1)
      <4>1. Spenders(l)' = Spenders(l) \cup {q} /\ q \notin Spenders(l)
        BY <1>1, <2>4, <3>3 DEF Spenders
      <4>2. n = k + 1
        BY <4>1, SpendersCount, FS_AddElement
      <4>3. wrong'[l] <= a + 1 /\ a + 1 <= MaxAttempts - 1 + n + lost
        <5> HIDE DEF k, n, a
        <5> QED
          BY <2>3, <3>1, <3>2, <4>2
      <4> QED
        BY <1>1, <2>2, <4>3 DEF IsCounted
    <3>4. CASE ~Spent(a + 1)
      <4>1. Spenders(l)' = Spenders(l)
        BY <1>1, <2>4, <3>4, NoneSpends
      <4>2. wrong'[l] <= a + 1 /\ a + 1 <= MaxAttempts - 1 + n + lost
        <5>1. n = k
          BY <4>1
        <5>2. a + 1 < MaxAttempts
          BY <3>1, <3>4 DEF Spent
        <5> HIDE DEF k, n, a
        <5> QED
          BY <2>3, <3>1, <3>2, <5>1, <5>2
      <4> QED
        BY <1>1, <2>2, <4>2 DEF IsCounted
    <3> QED
      BY <3>3, <3>4
  <2> QED
    BY <2>5, <2>6 DEF CodesInv
<1> QED
  BY <1>2, <1>3

\* The other answers to a code, and a request that ends early.
LEMMA VerifyCounted ==
    ASSUME TypeOK, RequestsAreSomebodys, CodesInv, NEW q \in Requests, Verify(q) \/ GiveUp(q)
    PROVE  CodesInv'
<1>1. CASE Forget(q)
  <2>0. PICK l \in Logins : l = req[q].login
    BY <1>1 DEF Forget, RequestsAreSomebodys
  <2>1. /\ l = req[q].login /\ req[q].at = "spent"
        /\ pending' = Deleted(l) /\ UNCHANGED <<wrong, lost>>
    BY <1>1, <2>0 DEF Forget
  <2>2. req'[q].at = "idle" /\ \A p \in Requests : p # q => req'[p] = req[p]
    BY <1>1, OneGoesOn DEF Forget, Idle
  <2>3. (\A k \in Logins \ {l} : pending'[k] = pending[k]) /\ pending'[l].at = "gone"
    BY <2>1, RowsAfter
  <2>4. ASSUME NEW k \in Logins, k # l PROVE IsCounted(k)'
    <3>1. Spenders(k)' = Spenders(k)
      BY <2>1, <2>2, <2>4 DEF Spenders
    <3> QED
      BY <2>1, <2>3, <2>4, <3>1, StaysCounted DEF CodesInv
  <2>5. IsCounted(l)'
    BY <2>3 DEF IsCounted
  <2> QED
    BY <2>4, <2>5 DEF CodesInv
<1>2. CASE NeedsEmail(q)
  <2>0. PICK l \in Logins : l = req[q].login
    BY <1>2 DEF NeedsEmail, RequestsAreSomebodys
  <2>1. l = req[q].login /\ req[q].at = "sms" /\ lost' = lost
    BY <1>2, <2>0 DEF NeedsEmail
  <2>2. req'[q].at = "idle" /\ \A p \in Requests : p # q => req'[p] = req[p]
    BY <1>2, OneGoesOn DEF NeedsEmail, Idle
  <2>3. CASE UNCHANGED <<pending, wrong>>
    BY <2>1, <2>2, <2>3, AsideCounted
  <2>4. CASE /\ pending[l].at # "gone"
             /\ pending' = [pending EXCEPT ![l] = [@ EXCEPT !.at = "email", !.attempts = 0]]
             /\ wrong' = [wrong EXCEPT ![l] = 0]
    <3>1. pending \in [Logins -> Pending] /\ pending[l] \in Pending /\ wrong \in [Logins -> Nat]
      BY <2>1 DEF TypeOK
    <3>2. /\ \A k \in Logins \ {l} : pending'[k] = pending[k] /\ wrong'[k] = wrong[k]
          /\ pending'[l] = [pending[l] EXCEPT !.at = "email", !.attempts = 0]
          /\ wrong'[l] = 0
      BY <2>1, <2>4, <3>1
    <3>3. pending'[l].attempts = 0
      BY <3>1, <3>2 DEF Pending
    <3>4. ASSUME NEW k \in Logins PROVE IsCounted(k)'
      <4>1. Spenders(k)' = Spenders(k)
        BY <2>1, <2>2, NoneSpends
      <4> QED
        BY <2>1, <2>4, <3>2, <3>3, <4>1, StaysCounted DEF CodesInv
    <3> QED
      BY <3>4 DEF CodesInv
  <2> QED
    BY <1>2, <2>1, <2>3, <2>4 DEF NeedsEmail
<1>3. CASE RightCode(q)
  <2>1. req'[q].at = "profile" /\ \A p \in Requests : p # q => req'[p] = req[p]
    BY <1>3, Went DEF RightCode
  <2> QED
    BY <1>3, <2>1, AsideCounted DEF RightCode
<1>4. CASE GiveUp(q)
  <2>1. lost' = lost + 1 /\ UNCHANGED <<pending, wrong>>
    BY <1>4 DEF GiveUp
  <2>2. req'[q].at = "idle" /\ \A p \in Requests : p # q => req'[p] = req[p]
    BY <1>4, OneGoesOn DEF GiveUp, Idle
  <2>3. ASSUME NEW k \in Logins PROVE IsCounted(k)'
    <3> DEFINE a == pending[k].attempts
               c == Cardinality(Spenders(k))
               n == Cardinality(Spenders(k)')
    <3>1. Spenders(k)' = Spenders(k) \ {q}
      BY <2>2 DEF Spenders
    <3>2. n = IF q \in Spenders(k) THEN c - 1 ELSE c
      BY <3>1, SpendersCount, FS_RemoveElement
    <3>3. c \in Nat /\ n \in Nat /\ lost \in Nat /\ a \in Nat /\ MaxAttempts \in Nat \ {0}
      BY SpendersCount, SpendersCountNext, SignInAssumption DEF TypeOK, Pending
    <3>4. ASSUME pending[k].at # "gone" PROVE wrong[k] <= a /\ a <= MaxAttempts - 1 + n + lost'
      <4>1. wrong[k] <= a /\ a <= MaxAttempts - 1 + c + lost
        BY <3>4 DEF CodesInv, IsCounted
      <4> HIDE DEF c, n, a
      <4> QED
        BY <2>1, <3>2, <3>3, <4>1
    <3> QED
      BY <2>1, <3>4 DEF IsCounted
  <2> QED
    BY <2>3 DEF CodesInv
<1> QED
  BY <1>1, <1>2, <1>3, <1>4, WrongCounted DEF Verify


\* Requests that begin.
LEMMA BeginningsCounted ==
    ASSUME TypeOK, RequestsAreSomebodys, CodesInv, NEW q \in Requests,
           \/ \E m \in Members : Start(q, m)
           \/ \E l \in Logins : Send(q, l) \/ Load(q, l)
    PROVE  CodesInv'
<1>1. ASSUME NEW m \in Members, Start(q, m) PROVE CodesInv'
  <2>1. /\ UNCHANGED <<pending, wrong, lost>> /\ req[q].at = "idle"
        /\ req' = req \/ Become(q, [Idle EXCEPT !.at = "send", !.who = m])
    BY <1>1 DEF Start
  <2>2. req'[q].at # "spent" /\ \A p \in Requests : p # q => req'[p] = req[p]
    <3>1. CASE req' = req
      BY <2>1, <3>1
    <3>2. CASE Become(q, [Idle EXCEPT !.at = "send", !.who = m])
      <4>1. /\ req'[q] = [Idle EXCEPT !.at = "send", !.who = m]
            /\ \A p \in Requests : p # q => req'[p] = req[p]
        BY <3>2, OneGoesOn
      <4> QED
        BY <4>1 DEF Idle
    <3> QED
      BY <2>1, <3>1, <3>2
  <2> QED
    BY <2>1, <2>2, AsideCounted
<1>2. ASSUME NEW l \in Logins, Send(q, l) PROVE CodesInv'
  <2>1. /\ pending' = [pending EXCEPT ![l] = [@ EXCEPT !.at = "sms", !.who = req[q].who]]
        /\ UNCHANGED <<wrong, lost>> /\ req[q].at = "send" /\ pending[l].at = "new"
    BY <1>2 DEF Send
  <2>2. req'[q].at = "idle" /\ \A p \in Requests : p # q => req'[p] = req[p]
    <3>1. Become(q, Idle)
      BY <1>2 DEF Send
    <3>2. req'[q] = Idle /\ \A p \in Requests : p # q => req'[p] = req[p]
      BY <3>1, OneGoesOn
    <3> QED
      BY <3>2 DEF Idle
  <2>3. pending \in [Logins -> Pending] /\ pending[l] \in Pending
    BY DEF TypeOK
  <2>4. /\ \A k \in Logins \ {l} : pending'[k] = pending[k]
        /\ pending'[l] = [pending[l] EXCEPT !.at = "sms", !.who = req[q].who]
    BY <2>1, <2>3
  <2>5. pending'[l].attempts = pending[l].attempts
    BY <2>3, <2>4 DEF Pending
  <2> QED
    BY <2>1, <2>2, <2>4, <2>5, AsideCounted
<1>3. ASSUME NEW l \in Logins, Load(q, l) PROVE CodesInv'
  <2>1. UNCHANGED <<pending, wrong, lost>> /\ req[q].at = "idle" /\ pending[l].at # "spent"
    BY <1>3 DEF Load
  <2>2. /\ req'[q] = [Idle EXCEPT !.at = pending[l].at, !.login = l, !.who = pending[l].who]
        /\ \A p \in Requests : p # q => req'[p] = req[p]
    BY <1>3, OneGoesOn DEF Load
  <2>3. req'[q].at # "spent"
    BY <2>1, <2>2 DEF Idle
  <2> QED
    BY <2>1, <2>2, <2>3, AsideCounted
<1> QED
  BY <1>1, <1>2, <1>3

\* Finishing a sign-in.
LEMMA FinalizeCounted ==
    ASSUME TypeOK, RequestsAreSomebodys, CodesInv, NEW q \in Requests, Finalize(q)
    PROVE  CodesInv'
<1>1. /\ UNCHANGED <<wrong, lost>> /\ req[q].at \notin {"idle", "spent"}
  BY DEF Finalize, Profile, EnsureFamily, Place, Adopt, Join, LoseRace, Found, Seed,
         Connect, Close, Issue
<1>2. \/ \E p \in {"connect", "close", "issue"} : Go(q, p)
      \/ Become(q, Idle)
      \/ \E h \in {HouseholdOf[req[q].who], Unknown} :
           Become(q, [req[q] EXCEPT !.at = "place", !.household = h])
      \/ \E f \in Families \cup {NoFamily}, b \in BOOLEAN :
           Become(q, [req[q] EXCEPT !.at = "write", !.found = f, !.placed = b])
      \/ Become(q, [req[q] EXCEPT !.at = "place", !.again = TRUE])
      \/ \E f \in Families : Become(q, [req[q] EXCEPT !.at = "seed", !.found = f])
  <2>1. CASE Profile(q)
    BY <2>1 DEF Profile
  <2>2. CASE Place(q)
    <3>1. PICK f \in Families \cup {NoFamily} :
              Become(q, [req[q] EXCEPT !.at = "write", !.found = f,
                                       !.placed = memberOf[req[q].who] # NoFamily])
      BY <2>2 DEF Place
    <3>2. PICK b \in BOOLEAN : b = (memberOf[req[q].who] # NoFamily)
      OBVIOUS
    <3> QED
      BY <3>1, <3>2
  <2>3. CASE Adopt(q) \/ Join(q) \/ Connect(q) \/ Close(q)
    BY <2>3 DEF Adopt, Join, Connect, Close
  <2>4. CASE LoseRace(q)
    BY <2>4 DEF LoseRace
  <2>5. ASSUME NEW f \in Families, Found(q, f)
        PROVE  Become(q, [req[q] EXCEPT !.at = "seed", !.found = f])
    BY <2>5 DEF Found
  <2>6. CASE Seed(q)
    BY <2>6 DEF Seed
  <2>7. ASSUME NEW s \in Sessions, Issue(q, s) PROVE Become(q, Idle)
    BY <2>7 DEF Issue
  <2> QED
    BY <2>1, <2>2, <2>3, <2>4, <2>5, <2>6, <2>7 DEF Finalize, EnsureFamily
<1>3. req'[q].at # "spent" /\ \A p \in Requests : p # q => req'[p] = req[p]
  <2>1. req[q] \in Request
    BY DEF TypeOK
  <2>2. ASSUME NEW x, Become(q, x), x.at # "spent"
        PROVE  req'[q].at # "spent" /\ \A p \in Requests : p # q => req'[p] = req[p]
    BY <2>2, OneGoesOn
  <2>3. ASSUME NEW p \in {"connect", "close", "issue"}, Go(q, p)
        PROVE  req'[q].at # "spent" /\ \A r \in Requests : r # q => req'[r] = req[r]
    BY <2>3, Went
  <2>4. /\ Idle.at # "spent"
        /\ \A h : [req[q] EXCEPT !.at = "place", !.household = h].at # "spent"
        /\ \A f, b : [req[q] EXCEPT !.at = "write", !.found = f, !.placed = b].at # "spent"
        /\ [req[q] EXCEPT !.at = "place", !.again = TRUE].at # "spent"
        /\ \A f : [req[q] EXCEPT !.at = "seed", !.found = f].at # "spent"
    BY <2>1 DEF Request, Idle
  <2> QED
    BY <1>2, <2>2, <2>3, <2>4
<1>4. \A l \in Logins : pending'[l].at # "gone" =>
          pending[l].at # "gone" /\ pending'[l].attempts = pending[l].attempts
  <2>1. CASE pending' = pending
    BY <2>1
  <2>2. CASE pending' # pending
    <3>1. pending' = Deleted(req[q].login) /\ req[q].login \in Logins
      BY <1>1, <2>2 DEF Finalize, Profile, EnsureFamily, Place, Adopt, Join, LoseRace,
             Found, Seed, Connect, Close, Issue, RequestsAreSomebodys
    <3> QED
      BY <3>1, RowsAfter
  <2> QED
    BY <2>1, <2>2
<1> QED
  BY <1>1, <1>3, <1>4, AsideCounted

\* Sessions, time and the janitor.
LEMMA OutsideCounted ==
    ASSUME TypeOK, CodesInv,
           \/ \E s \in Sessions : Use(s) \/ Idles(s) \/ EndSession(s) \/ Disconnect(s)
           \/ \E l \in Logins : Expire(l) \/ Sweep(l) \/ Discard(l)
           \/ NextWindow
    PROVE  CodesInv'
<1>1. UNCHANGED <<req, wrong, lost>>
  BY DEF Use, Idles, EndSession, Disconnect, Expire, Sweep, Discard, NextWindow
<1>2. \A k \in Logins : pending'[k].at # "gone" =>
          pending[k].at # "gone" /\ pending'[k].attempts = pending[k].attempts
  <2>1. CASE pending' = pending
    BY <2>1
  <2>2. ASSUME NEW l \in Logins, Expire(l) \/ Sweep(l) \/ Discard(l)
        PROVE  \A k \in Logins : pending'[k].at # "gone" =>
                  pending[k].at # "gone" /\ pending'[k].attempts = pending[k].attempts
    <3>1. pending \in [Logins -> Pending] /\ pending[l] \in Pending
      BY DEF TypeOK
    <3>2. CASE Sweep(l) \/ Discard(l)
      BY <3>2, RowsAfter DEF Sweep, Discard
    <3>3. CASE Expire(l)
      <4>1. /\ \A k \in Logins \ {l} : pending'[k] = pending[k]
            /\ pending'[l] = [pending[l] EXCEPT !.expired = TRUE]
        BY <3>1, <3>3 DEF Expire
      <4> QED
        BY <3>1, <4>1 DEF Pending
    <3> QED
      BY <2>2, <3>2, <3>3
  <2>3. pending' = pending \/ \E l \in Logins : Expire(l) \/ Sweep(l) \/ Discard(l)
    BY DEF Use, Idles, EndSession, Disconnect, NextWindow
  <2> QED
    BY <2>1, <2>2, <2>3
<1>3. ASSUME NEW l \in Logins PROVE IsCounted(l)'
  <2>1. Spenders(l)' = Spenders(l)
    BY <1>1 DEF Spenders
  <2> QED
    BY <1>1, <1>2, <2>1, StaysCounted DEF CodesInv
<1> QED
  BY <1>3 DEF CodesInv

\* Every step keeps the counts.
LEMMA CountedNext ==
    ASSUME TypeOK, SignInInv, CodesInv, [Next]_vars
    PROVE  CodesInv'
<1>1. RequestsAreSomebodys
  BY DEF SignInInv
<1>2. CASE UNCHANGED vars
  <2>1. ASSUME NEW l \in Logins PROVE IsCounted(l)'
    <3>1. Spenders(l)' = Spenders(l)
      BY <1>2 DEF vars, Spenders
    <3> QED
      BY <1>2, <3>1, StaysCounted DEF vars, CodesInv
  <2> QED
    BY <2>1 DEF CodesInv
<1>3. CASE Next
  BY <1>1, <1>3, BeginningsCounted, VerifyCounted, FinalizeCounted, OutsideCounted DEF Next
<1> QED
  BY <1>2, <1>3

\* At first nothing is counted.
LEMMA InitCounted == Init => CodesInv
<1> SUFFICES ASSUME Init, NEW l \in Logins PROVE IsCounted(l)
  BY DEF CodesInv
<1> DEFINE k == Cardinality(Spenders(l))
<1>1. wrong[l] = 0 /\ pending[l].attempts = 0 /\ lost = 0
  BY DEF Init
<1>2. k \in Nat /\ MaxAttempts \in Nat \ {0}
  BY SpendersCount, SignInAssumption
<1>3. 0 <= MaxAttempts - 1 + k + 0
  <2> HIDE DEF k
  <2> QED
    BY <1>2
<1> QED
  BY <1>1, <1>3 DEF IsCounted

\* The attempts a row counts, for any number of requests and of those that die.
THEOREM CodesInvariant == Spec => []CodesInv
<1> QED
  BY InitCounted, CountedNext, TypeCorrect, SignInInvariant, PTL DEF Spec

\* One code is answered wrongly MaxAttempts times, and once more for every
\* other request under way and every one that ended early.
THEOREM BoundedAttempts == Spec => []AttemptsAreBounded
<1>1. TypeOK /\ CodesInv => AttemptsAreBounded
  <2> SUFFICES ASSUME TypeOK, CodesInv, NEW l \in Logins, pending[l].at \in {"sms", "email"}
               PROVE  wrong[l] <= MaxAttempts + Cardinality(Requests) - 1 + lost
    BY DEF AttemptsAreBounded
  <2> DEFINE k == Cardinality(Spenders(l))
             n == Cardinality(Requests)
  <2>1. /\ k \in Nat /\ n \in Nat /\ k <= n /\ lost \in Nat /\ MaxAttempts \in Nat
        /\ wrong[l] \in Nat /\ pending[l].attempts \in Nat
    BY SpendersCount, SignInAssumption DEF TypeOK, Pending
  <2>2. wrong[l] <= pending[l].attempts /\ pending[l].attempts <= MaxAttempts - 1 + k + lost
    BY DEF CodesInv, IsCounted
  <2> HIDE DEF k, n
  <2>3. wrong[l] <= MaxAttempts + n - 1 + lost
    BY <2>1, <2>2
  <2> QED
    BY <2>3 DEF n
<1> QED
  BY <1>1, TypeCorrect, CodesInvariant, PTL


-----------------------------------------------------------------------------
(* The refinement of Placement.                                            *)

\* What no statement of ensureFamilyOnce changes Placement does not see.
LEMMA PlacedAside ==
    ASSUME memberOf' = memberOf,
           \A f \in Families : /\ family'[f].here <=> family[f].here
                               /\ family'[f].household = family[f].household
    PROVE  UNCHANGED Placed!vars
<1>1. {f \in Families : family'[f].here} = {f \in Families : family[f].here}
  OBVIOUS
<1>2. [f \in Families |-> family'[f].household] = [f \in Families |-> family[f].household]
  OBVIOUS
<1> QED
  BY <1>1, <1>2 DEF Placed!vars

\* Only these four change a family or a membership.
LEMMA OnlyThesePlace ==
    ASSUME [Next]_vars,
           ~\E q \in Requests : Adopt(q) \/ Join(q) \/ Seed(q) \/ \E f \in Families : Found(q, f)
    PROVE  family' = family /\ memberOf' = memberOf
<1>1. CASE UNCHANGED vars
  BY <1>1 DEF vars
<1>2. ASSUME NEW q \in Requests,
             \/ \E m \in Members : Start(q, m)
             \/ \E l \in Logins : Send(q, l) \/ Load(q, l)
             \/ Verify(q) \/ GiveUp(q)
      PROVE  family' = family /\ memberOf' = memberOf
  BY <1>2 DEF Start, Send, Load, Verify, WrongCode, Forget, NeedsEmail, RightCode, GiveUp
<1>3. ASSUME NEW q \in Requests, Finalize(q)
      PROVE  family' = family /\ memberOf' = memberOf
  BY <1>3 DEF Finalize, EnsureFamily, Profile, Place, LoseRace, Connect, Close, Issue
<1>4. CASE \/ \E s \in Sessions : Use(s) \/ Idles(s) \/ EndSession(s) \/ Disconnect(s)
           \/ \E l \in Logins : Expire(l) \/ Sweep(l) \/ Discard(l)
           \/ NextWindow
  BY <1>4 DEF Use, Idles, EndSession, Disconnect, Expire, Sweep, Discard, NextWindow
<1> QED
  BY <1>1, <1>2, <1>3, <1>4 DEF Next

\* Seeding leaves alone whose a family is.
LEMMA SeedPlaces ==
    ASSUME TypeOK, SignInInv, NEW q \in Requests, Seed(q)
    PROVE  UNCHANGED Placed!vars
<1>1. family \in [Families -> Family] /\ memberOf' = memberOf
  BY DEF TypeOK, Seed
<1>2. PICK n \in 0..2 : family' = [family EXCEPT ![req[q].found] = [@ EXCEPT !.seeded = n]]
  BY DEF Seed
<1>3. \A f \in Families : /\ family'[f].here <=> family[f].here
                          /\ family'[f].household = family[f].household
  BY <1>1, <1>2 DEF Family
<1> QED
  BY <1>1, <1>3, PlacedAside

\* A household nobody has is free.
LEMMA FreeOnes ==
    ASSUME NEW h \in Households, \A g \in Families : ~HasHousehold(g, h)
    PROVE  Placed!Free(h)
  BY SignInAssumption DEF Placed!Free, HasHousehold

LEMMA AdoptPlaces ==
    ASSUME TypeOK, SignInInv, NEW q \in Requests, Adopt(q)
    PROVE  [Placed!Next]_(Placed!vars)
<1>0. PICK m, f, k : m = req[q].who /\ f = req[q].found /\ k = req[q].household
  OBVIOUS
<1>1. /\ req[q].at = "write" /\ req[q].placed /\ memberOf' = memberOf
      /\ family \in [Families -> Family]
      /\ RequestsAreSomebodys /\ ReadsStand
  BY <1>0 DEF Adopt, TypeOK, SignInInv
<1>2. m \in Members /\ f \in Families /\ k \in Households \cup {Unknown} /\ Stands(req[q])
  BY <1>0, <1>1, Known DEF Stands
<1>3. k \in {HouseholdOf[m], Unknown} /\ memberOf[m] = f /\ f # NoFamily
  BY <1>0, <1>1, <1>2 DEF Stands
<1>4. family[f].here
  BY <1>2, <1>3 DEF SignInInv, FamiliesAreHouseholds
<1>5. CASE family' = family
  BY <1>1, <1>5, PlacedAside
<1>6. CASE family' # family
  <2>1. /\ k # Unknown /\ family[f].household = Unknown
        /\ \A g \in Families : ~HasHousehold(g, k)
        /\ family' = [family EXCEPT ![f] = [@ EXCEPT !.household = k]]
    BY <1>0, <1>6 DEF Adopt
  <2>2. k = HouseholdOf[m] /\ k \in Households
    BY <1>2, <1>3, <2>1
  <2>3. Placed!Free(HouseholdOf[m])
    BY <2>1, <2>2, FreeOnes
  <2>4. \A g \in Families : /\ family'[g].here <=> family[g].here
                            /\ family'[g].household = IF g = f THEN k ELSE family[g].household
    BY <1>1, <2>1 DEF Family
  <2>5. {g \in Families : family'[g].here} = {g \in Families : family[g].here}
    BY <2>4
  <2>6. [g \in Families |-> family'[g].household] =
            [[g \in Families |-> family[g].household] EXCEPT ![f] = HouseholdOf[m]]
    BY <2>2, <2>4
  <2>7. Placed!Adopt(m, f)
    BY <1>1, <1>2, <1>3, <1>4, <2>1, <2>3, <2>5, <2>6 DEF Placed!Adopt
  <2> QED
    BY <1>2, <2>7 DEF Placed!Next
<1> QED
  BY <1>5, <1>6

LEMMA JoinPlaces ==
    ASSUME TypeOK, SignInInv, NEW q \in Requests, Join(q)
    PROVE  [Placed!Next]_(Placed!vars)
<1>0. PICK m, f : m = req[q].who /\ f = req[q].found
  OBVIOUS
<1>1. /\ req[q].at = "write" /\ ~req[q].placed /\ f # NoFamily
      /\ memberOf' = Joined(m, f) /\ family' = family
      /\ RequestsAreSomebodys /\ ReadsStand
  BY <1>0 DEF Join, SignInInv
<1>2. m \in Members /\ f \in Families /\ Stands(req[q])
  BY <1>0, <1>1, Known DEF Stands
<1>3. HasHousehold(f, req[q].household) /\ req[q].household \in {HouseholdOf[m], Unknown}
  BY <1>0, <1>1, <1>2 DEF Stands
<1>4. family[f].here /\ family[f].household = HouseholdOf[m]
  BY <1>3 DEF HasHousehold
<1>5. CASE memberOf[m] # NoFamily
  BY <1>1, <1>5, PlacedAside DEF Joined
<1>6. CASE memberOf[m] = NoFamily
  <2>1. memberOf' = [memberOf EXCEPT ![m] = f]
    BY <1>1, <1>6 DEF Joined
  <2>2. Placed!Join(m, f)
    BY <1>1, <1>2, <1>4, <1>6, <2>1 DEF Placed!Join
  <2> QED
    BY <1>2, <2>2 DEF Placed!Next
<1> QED
  BY <1>5, <1>6

LEMMA FoundPlaces ==
    ASSUME TypeOK, SignInInv, NEW q \in Requests, NEW f \in Families, Found(q, f)
    PROVE  Placed!Next
<1>0. PICK m, k : m = req[q].who /\ k = req[q].household
  OBVIOUS
<1>1. /\ req[q].at = "write" /\ ~Taken(k) /\ ~family[f].here
      /\ family' = [family EXCEPT ![f] = [here |-> TRUE, household |-> k, seeded |-> 0]]
      /\ memberOf' = Joined(m, f)
      /\ family \in [Families -> Family]
      /\ RequestsAreSomebodys /\ ReadsStand
  BY <1>0 DEF Found, TypeOK, SignInInv
<1>2. m \in Members /\ k \in Households \cup {Unknown} /\ Stands(req[q])
  BY <1>0, <1>1, Known DEF Stands
<1>3. k \in {HouseholdOf[m], Unknown}
  BY <1>0, <1>1, <1>2 DEF Stands
<1>4. k = Unknown \/ (k = HouseholdOf[m] /\ Placed!Free(k))
  BY <1>1, <1>2, <1>3, FreeOnes DEF Taken
<1>5. \A g \in Families : /\ family'[g].here <=> g = f \/ family[g].here
                          /\ family'[g].household = IF g = f THEN k ELSE family[g].household
  BY <1>1 DEF Family
<1>6. {g \in Families : family'[g].here} = {g \in Families : family[g].here} \cup {f}
  BY <1>5
<1>7. [g \in Families |-> family'[g].household] =
          [[g \in Families |-> family[g].household] EXCEPT ![f] = k]
  BY <1>5
<1>8. Placed!Found(m, f, k)
  BY <1>1, <1>4, <1>6, <1>7 DEF Placed!Found, Joined
<1> QED
  BY <1>2, <1>8 DEF Placed!Next

\* Nobody is placed at first, and there are no families.
LEMMA PlacedAtFirst == Init => Placed!Init
<1> SUFFICES ASSUME Init PROVE Placed!Init
  OBVIOUS
<1>1. \A f \in Families : ~family[f].here /\ family[f].household = Unknown
  BY DEF Init
<1>2. {f \in Families : family[f].here} = {} /\
      [f \in Families |-> family[f].household] = [f \in Families |-> Unknown]
  BY <1>1
<1> QED
  BY <1>2 DEF Init, Placed!Init

\* EnsureFamily implements Placement: reading in one statement and writing in
\* another, racing, losing and trying again places members as one step would.
THEOREM PlacesAtOnce == Spec => ImplementsPlacement
<1>1. TypeOK /\ SignInInv /\ [Next]_vars => [Placed!Next]_(Placed!vars)
  <2> SUFFICES ASSUME TypeOK, SignInInv, [Next]_vars
               PROVE  [Placed!Next]_(Placed!vars)
    OBVIOUS
  <2>1. ASSUME NEW q \in Requests, Adopt(q) PROVE [Placed!Next]_(Placed!vars)
    BY <2>1, AdoptPlaces
  <2>2. ASSUME NEW q \in Requests, Join(q) PROVE [Placed!Next]_(Placed!vars)
    BY <2>2, JoinPlaces
  <2>3. ASSUME NEW q \in Requests, Seed(q) PROVE [Placed!Next]_(Placed!vars)
    BY <2>3, SeedPlaces
  <2>4. ASSUME NEW q \in Requests, NEW f \in Families, Found(q, f)
        PROVE  [Placed!Next]_(Placed!vars)
    BY <2>4, FoundPlaces
  <2>5. CASE family' = family /\ memberOf' = memberOf
    BY <2>5, PlacedAside
  <2> QED
    BY <2>1, <2>2, <2>3, <2>4, <2>5, OnlyThesePlace
<1> QED
  BY <1>1, PlacedAtFirst, TypeCorrect, SignInInvariant, PTL
     DEF Spec, ImplementsPlacement, Placed!Spec


=============================================================================
