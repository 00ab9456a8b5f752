------------------------------- MODULE SignIn -------------------------------
(***************************************************************************)
(* Signing in (internal/auth, internal/store/users.go): a code by SMS, a   *)
(* second one by mail when Crew asks for it, then the user's row, the      *)
(* family, the connection and a session.  Requests of one household run at *)
(* the same time, on any replica; what they share is in the database.      *)
(*                                                                         *)
(* What a login does to the connection's row is Leases!Login; here it is   *)
(* only there or not.                                                      *)
(***************************************************************************)
EXTENDS Integers, FiniteSets

CONSTANTS
    Members,       \* people with a Crew account
    Households,    \* Crew's families
    HouseholdOf,   \* [Members -> Households]
    Unknown,       \* Crew did not say which household
    Requests,      \* requests being served
    Logins,        \* ids of pending logins
    Families,      \* ids of families
    NoFamily,
    Sessions,      \* ids of sessions
    Nobody,
    MaxAttempts,   \* 5
    PerIP,         \* 10, everybody here comes from one address
    PerPhone,      \* 5
    MaxLost        \* bound on requests that end early

ASSUME SignInAssumption ==
    /\ HouseholdOf \in [Members -> Households]
    /\ Unknown \notin Households
    /\ NoFamily \notin Families
    /\ Nobody \notin Members
    /\ IsFiniteSet(Requests)
    /\ MaxAttempts \in Nat \ {0}
    /\ PerIP \in Nat /\ PerPhone \in Nat /\ MaxLost \in Nat

VARIABLES
    rate,       \* rate_limits in this window
    pending,    \* [Logins -> the row of pending_logins]
    users,      \* members with a row
    memberOf,   \* [Members -> family_members]
    family,     \* [Families -> the row of families, its system categories]
    connected,  \* members with a token in crew_connections
    session,    \* [Sessions -> the row of sessions]
    req,        \* [Requests -> where the handler is]
    wrong,      \* history: [Logins -> wrong answers to its latest code]
    strangers,  \* history: members placed while their household was unknown
    lost        \* requests that ended early

vars == <<rate, pending, users, memberOf, family, connected, session, req,
          wrong, strangers, lost>>

Pending == [at : {"new", "sms", "email", "gone"}, who : Members \cup {Nobody},
            attempts : Nat, expired : BOOLEAN]
Family  == [here : BOOLEAN, household : Households \cup {Unknown}, seeded : 0..2]
Session == [at : {"new", "live", "gone"}, who : Members \cup {Nobody},
            seen : {"now", "hour", "month"}]
Request == [at : {"idle", "send", "sms", "email", "spent", "profile", "place",
                  "write", "seed", "connect", "close", "issue"},
            login : Logins \cup {Nobody}, who : Members \cup {Nobody},
            household : Households \cup {Unknown},
            found : Families \cup {NoFamily}, placed : BOOLEAN, again : BOOLEAN]

Idle == [at |-> "idle", login |-> Nobody, who |-> Nobody, household |-> Unknown,
         found |-> NoFamily, placed |-> FALSE, again |-> FALSE]

\* Types, and the foreign key of crew_connections.
TypeOK ==
    /\ rate \in [ip : Nat, phone : [Members -> Nat]]
    /\ pending \in [Logins -> Pending]
    /\ users \in SUBSET Members
    /\ memberOf \in [Members -> Families \cup {NoFamily}]
    /\ family \in [Families -> Family]
    /\ connected \in SUBSET users
    /\ session \in [Sessions -> Session]
    /\ req \in [Requests -> Request]
    /\ wrong \in [Logins -> Nat]
    /\ strangers \in SUBSET Members
    /\ lost \in 0..MaxLost

Init ==
    /\ rate = [ip |-> 0, phone |-> [m \in Members |-> 0]]
    /\ pending = [l \in Logins |-> [at |-> "new", who |-> Nobody, attempts |-> 0,
                                    expired |-> FALSE]]
    /\ users = {}
    /\ memberOf = [m \in Members |-> NoFamily]
    /\ family = [f \in Families |-> [here |-> FALSE, household |-> Unknown, seeded |-> 0]]
    /\ connected = {}
    /\ session = [s \in Sessions |-> [at |-> "new", who |-> Nobody, seen |-> "now"]]
    /\ req = [q \in Requests |-> Idle]
    /\ wrong = [l \in Logins |-> 0]
    /\ strangers = {}
    /\ lost = 0

Become(q, x) == req' = [req EXCEPT ![q] = x]
Go(q, at)    == Become(q, [req[q] EXCEPT !.at = at])

-----------------------------------------------------------------------------
(* The two codes.                                                          *)

\* RateAllow counts the request, and says whether it is within the limit.
Counted(n, limit) == IF n <= limit THEN n + 1 ELSE n
Allowed(n, limit) == n < limit

\* StartSMS: the address first, then the phone.
Start(q, m) ==
    /\ req[q].at = "idle"
    /\ \E l \in Logins : pending[l].at = "new"
    /\ LET phone == Counted(rate.phone[m], PerPhone) IN
       IF Allowed(rate.ip, PerIP)
       THEN /\ rate' = [ip |-> rate.ip + 1,
                        phone |-> [rate.phone EXCEPT ![m] = phone]]
            /\ IF Allowed(rate.phone[m], PerPhone)
               THEN Become(q, [Idle EXCEPT !.at = "send", !.who = m])
               ELSE UNCHANGED req
       ELSE /\ rate' = [rate EXCEPT !.ip = Counted(@, PerIP)]
            /\ UNCHANGED req
    /\ UNCHANGED <<pending, users, memberOf, family, connected, session, wrong,
                   strangers, lost>>

\* SendSMSOTP, CreatePendingLogin.
Send(q, l) ==
    /\ req[q].at = "send"
    /\ pending[l].at = "new"
    /\ pending' = [pending EXCEPT ![l] = [@ EXCEPT !.at = "sms", !.who = req[q].who]]
    /\ Become(q, Idle)
    /\ UNCHANGED <<rate, users, memberOf, family, connected, session, wrong,
                   strangers, lost>>

\* VerifySMS and VerifyEmail: loadPending asks for the stage, and the token of
\* the second can be decrypted.
Load(q, l) ==
    /\ req[q].at = "idle"
    /\ pending[l].at \in {"sms", "email"}
    /\ ~pending[l].expired
    /\ Become(q, [Idle EXCEPT !.at = pending[l].at, !.login = l, !.who = pending[l].who])
    /\ UNCHANGED <<rate, pending, users, memberOf, family, connected, session,
                   wrong, strangers, lost>>

Bumped(l) == [pending EXCEPT ![l].attempts = @ + 1]

\* Broken: one attempt too many.
SpentLate(n) == n > MaxAttempts

\* failAttempt: no attempt is left.
Spent(n) == n >= MaxAttempts

\* Crew does not take the code.  A login that is gone cannot be counted on.
WrongCode(q) ==
    LET l == req[q].login IN
    /\ req[q].at \in {"sms", "email"}
    /\ IF pending[l].at = "gone"
       THEN Become(q, Idle) /\ UNCHANGED pending
       ELSE /\ pending' = Bumped(l)
            /\ IF Spent(pending[l].attempts + 1) THEN Go(q, "spent") ELSE Become(q, Idle)
    /\ wrong' = IF pending[l].at = req[q].at THEN [wrong EXCEPT ![l] = @ + 1] ELSE wrong
    /\ UNCHANGED <<rate, users, memberOf, family, connected, session, strangers, lost>>

Deleted(l) == [pending EXCEPT ![l] = [@ EXCEPT !.at = "gone", !.attempts = 0]]

\* failAttempt deletes the login.
Forget(q) ==
    /\ req[q].at = "spent"
    /\ pending' = Deleted(req[q].login)
    /\ Become(q, Idle)
    /\ UNCHANGED <<rate, users, memberOf, family, connected, session, wrong,
                   strangers, lost>>

\* Crew takes the code by SMS and wants one by mail: AdvancePendingToEmail.
NeedsEmail(q) ==
    LET l == req[q].login IN
    /\ req[q].at = "sms"
    /\ IF pending[l].at = "gone" THEN UNCHANGED <<pending, wrong>>
       ELSE /\ pending' = [pending EXCEPT ![l] = [@ EXCEPT !.at = "email", !.attempts = 0]]
            /\ wrong' = [wrong EXCEPT ![l] = 0]
    /\ Become(q, Idle)
    /\ UNCHANGED <<rate, users, memberOf, family, connected, session, strangers, lost>>

\* The code by mail, or the only one, is right.
RightCode(q) ==
    /\ req[q].at \in {"sms", "email"}
    /\ Go(q, "profile")
    /\ UNCHANGED <<rate, pending, users, memberOf, family, connected, session,
                   wrong, strangers, lost>>

-----------------------------------------------------------------------------
(* finalize.                                                               *)

\* Broken: the user's row is left to the caller.
ProfileUnsaved(q) ==
    /\ req[q].at = "profile"
    /\ \E h \in {HouseholdOf[req[q].who], Unknown} :
         Become(q, [req[q] EXCEPT !.at = "place", !.household = h])
    /\ UNCHANGED <<rate, pending, users, memberOf, family, connected, session, wrong,
                   strangers, lost>>

\* CurrentUser, FetchCrewFamilyID (best effort), UpsertUser.
Profile(q) ==
    /\ req[q].at = "profile"
    /\ \E h \in {HouseholdOf[req[q].who], Unknown} :
         Become(q, [req[q] EXCEPT !.at = "place", !.household = h])
    /\ users' = users \cup {req[q].who}
    /\ UNCHANGED <<rate, pending, memberOf, family, connected, session, wrong,
                   strangers, lost>>

\* Broken: no household is a household like any other.
HasAnyHousehold(f, h) == family[f].here /\ family[f].household = h

HasHousehold(f, h) == family[f].here /\ h # Unknown /\ family[f].household = h

\* ensureFamilyOnce, its reads: a membership, or a family of the household.
Place(q) ==
    LET m == req[q].who  h == req[q].household IN
    /\ req[q].at = "place"
    /\ \E f \in Families \cup {NoFamily} :
        /\ IF memberOf[m] # NoFamily THEN f = memberOf[m]
           ELSE \/ f # NoFamily /\ HasHousehold(f, h)
                \/ f = NoFamily /\ \A g \in Families : ~HasHousehold(g, h)
        /\ Become(q, [req[q] EXCEPT !.at = "write", !.found = f,
                                    !.placed = memberOf[m] # NoFamily])
    /\ UNCHANGED <<rate, pending, users, memberOf, family, connected, session,
                   wrong, strangers, lost>>

\* Broken: the latest sign-in decides.
JoinedAgain(m, f) == [memberOf EXCEPT ![m] = f]

\* INSERT INTO family_members ... ON CONFLICT DO NOTHING.
Joined(m, f) == IF memberOf[m] = NoFamily THEN [memberOf EXCEPT ![m] = f] ELSE memberOf

Stranger(q) ==
    strangers' = IF req[q].household = Unknown THEN strangers \cup {req[q].who}
                 ELSE strangers

\* Its writes: a member whose family has no household yet adopts it ...
Adopt(q) ==
    LET f == req[q].found  h == req[q].household IN
    /\ req[q].at = "write"
    /\ req[q].placed
    /\ family' = IF /\ h # Unknown /\ family[f].household = Unknown
                    /\ \A g \in Families : ~HasHousehold(g, h)
                 THEN [family EXCEPT ![f] = [@ EXCEPT !.household = h]] ELSE family
    /\ Go(q, "connect")
    /\ UNCHANGED <<rate, pending, users, memberOf, connected, session, wrong,
                   strangers, lost>>

\* ... a newcomer joins the family that was found ...
Join(q) ==
    LET m == req[q].who  f == req[q].found IN
    /\ req[q].at = "write"
    /\ ~req[q].placed /\ f # NoFamily
    /\ memberOf' = Joined(m, f)
    /\ Go(q, "connect")
    /\ UNCHANGED <<rate, pending, users, family, connected, session, wrong,
                   strangers, lost>>

\* Broken: the household's index is not unique.
TakenNever(h) == FALSE

\* The unique index on crew_family_id.
Taken(h) == \E g \in Families : HasHousehold(g, h)

\* ... or founds one; the loser of a race for the household does not.
Found(q, f) ==
    LET m == req[q].who  h == req[q].household IN
    /\ req[q].at = "write"
    /\ ~req[q].placed /\ req[q].found = NoFamily
    /\ ~Taken(h)
    /\ ~family[f].here
    /\ family' = [family EXCEPT ![f] = [here |-> TRUE, household |-> h, seeded |-> 0]]
    /\ memberOf' = Joined(m, f)
    /\ Become(q, [req[q] EXCEPT !.at = "seed", !.found = f])
    /\ Stranger(q)
    /\ UNCHANGED <<rate, pending, users, connected, session, wrong, lost>>

\* Broken: the loser takes the household for settled and goes on.
LoseRaceGoingOn(q) ==
    /\ req[q].at = "write"
    /\ ~req[q].placed /\ req[q].found = NoFamily
    /\ Taken(req[q].household)
    /\ Go(q, "connect")
    /\ UNCHANGED <<rate, pending, users, memberOf, family, connected, session,
                   wrong, strangers, lost>>

\* EnsureFamily tries a second time, and no third.
LoseRace(q) ==
    /\ req[q].at = "write"
    /\ ~req[q].placed /\ req[q].found = NoFamily
    /\ Taken(req[q].household)
    /\ Become(q, IF req[q].again THEN Idle
                 ELSE [req[q] EXCEPT !.at = "place", !.again = TRUE])
    /\ UNCHANGED <<rate, pending, users, memberOf, family, connected, session,
                   wrong, strangers, lost>>

\* EnsureSystemCategories: one after the other, or up to the one that fails.
Seed(q) ==
    LET f == req[q].found IN
    /\ req[q].at = "seed"
    /\ \E n \in 0..2 :
        /\ family' = [family EXCEPT ![f] = [@ EXCEPT !.seeded = n]]
        /\ IF n = 2 THEN Go(q, "connect") ELSE Become(q, Idle)
    /\ UNCHANGED <<rate, pending, users, memberOf, connected, session, wrong,
                   strangers, lost>>

\* UpsertConnection.
Connect(q) ==
    /\ req[q].at = "connect"
    /\ connected' = connected \cup {req[q].who}
    /\ Go(q, "close")
    /\ UNCHANGED <<rate, pending, users, memberOf, family, session, wrong,
                   strangers, lost>>

\* DeletePendingLogin; if it fails nobody looks.
Close(q) ==
    /\ req[q].at = "close"
    /\ pending' \in {pending, Deleted(req[q].login)}
    /\ Go(q, "issue")
    /\ UNCHANGED <<rate, users, memberOf, family, connected, session, wrong,
                   strangers, lost>>

\* Sessions.Issue.
Issue(q, s) ==
    /\ req[q].at = "issue"
    /\ session[s].at = "new"
    /\ session' = [session EXCEPT ![s] = [at |-> "live", who |-> req[q].who, seen |-> "now"]]
    /\ Become(q, Idle)
    /\ UNCHANGED <<rate, pending, users, memberOf, family, connected, wrong,
                   strangers, lost>>

\* A statement or a Crew call fails, the client hangs up, the process ends.
GiveUp(q) ==
    /\ req[q].at # "idle"
    /\ lost < MaxLost
    /\ lost' = lost + 1
    /\ Become(q, Idle)
    /\ UNCHANGED <<rate, pending, users, memberOf, family, connected, session,
                   wrong, strangers>>

-----------------------------------------------------------------------------
(* Sessions, time and the janitor.                                         *)

\* GetSessionByTokenHash: at most once an hour it moves the end away.
Use(s) ==
    /\ session[s].at = "live"
    /\ session[s].seen = "hour"
    /\ session' = [session EXCEPT ![s] = [@ EXCEPT !.seen = "now"]]
    /\ UNCHANGED <<rate, pending, users, memberOf, family, connected, req, wrong,
                   strangers, lost>>

\* An hour, then the session's time to live, goes by unused.
Idles(s) ==
    /\ session[s].at = "live"
    /\ session[s].seen # "month"
    /\ session' = [session EXCEPT ![s] =
                     [@ EXCEPT !.seen = IF @ = "now" THEN "hour" ELSE "month"]]
    /\ UNCHANGED <<rate, pending, users, memberOf, family, connected, req, wrong,
                   strangers, lost>>

Ended(s) == [session EXCEPT ![s] = [@ EXCEPT !.at = "gone"]]

\* Logout, or the janitor once nobody used it for too long.
EndSession(s) ==
    /\ session[s].at = "live"
    /\ session' = Ended(s)
    /\ UNCHANGED <<rate, pending, users, memberOf, family, connected, req, wrong,
                   strangers, lost>>

\* Disconnect, by somebody signed in.
Disconnect(s) ==
    /\ session[s].at = "live" /\ session[s].seen # "month"
    /\ session[s].who \in connected
    /\ connected' = connected \ {session[s].who}
    /\ UNCHANGED <<rate, pending, users, memberOf, family, session, req, wrong,
                   strangers, lost>>

\* Ten minutes go by.
Expire(l) ==
    /\ pending[l].at \in {"sms", "email"} /\ ~pending[l].expired
    /\ pending' = [pending EXCEPT ![l] = [@ EXCEPT !.expired = TRUE]]
    /\ UNCHANGED <<rate, users, memberOf, family, connected, session, req, wrong,
                   strangers, lost>>

\* The janitor deletes expired logins.
Sweep(l) ==
    /\ pending[l].at \in {"sms", "email"} /\ pending[l].expired
    /\ pending' = Deleted(l)
    /\ UNCHANGED <<rate, users, memberOf, family, connected, session, req, wrong,
                   strangers, lost>>

\* VerifyEmail cannot decrypt the Crew token of the login, and deletes the login.
Discard(l) ==
    /\ pending[l].at = "email" /\ ~pending[l].expired
    /\ pending' = Deleted(l)
    /\ UNCHANGED <<rate, users, memberOf, family, connected, session, req, wrong,
                   strangers, lost>>

\* The next window of the rate limits begins.
NextWindow ==
    /\ rate.ip > 0
    /\ rate' = [ip |-> 0, phone |-> [m \in Members |-> 0]]
    /\ UNCHANGED <<pending, users, memberOf, family, connected, session, req,
                   wrong, strangers, lost>>

-----------------------------------------------------------------------------
Verify(q) == WrongCode(q) \/ Forget(q) \/ NeedsEmail(q) \/ RightCode(q)

EnsureFamily(q) ==
    Place(q) \/ Adopt(q) \/ Join(q) \/ LoseRace(q) \/ \E f \in Families : Found(q, f)

Finalize(q) ==
    \/ Profile(q) \/ EnsureFamily(q) \/ Seed(q) \/ Connect(q) \/ Close(q)
    \/ \E s \in Sessions : Issue(q, s)

Next ==
    \/ \E q \in Requests :
        \/ \E m \in Members : Start(q, m)
        \/ \E l \in Logins : Send(q, l) \/ Load(q, l)
        \/ Verify(q) \/ Finalize(q) \/ GiveUp(q)
    \/ \E s \in Sessions : Use(s) \/ Idles(s) \/ EndSession(s) \/ Disconnect(s)
    \/ \E l \in Logins : Expire(l) \/ Sweep(l) \/ Discard(l)
    \/ NextWindow

Spec == Init /\ [][Next]_vars

-----------------------------------------------------------------------------
(* Properties.                                                             *)

\* "everyone after joins the same one": members of one Crew household share a
\* family, whoever signs in first and however their requests interleave, unless
\* one of them founded a family while Crew did not say which household is theirs.
HouseholdShares ==
    \A m, n \in Members :
        /\ memberOf[m] # NoFamily /\ memberOf[n] # NoFamily
        /\ HouseholdOf[m] = HouseholdOf[n]
        /\ m \notin strangers /\ n \notin strangers
        => memberOf[m] = memberOf[n]

\* "Signing in is the whole of setup": who has a session has a row and a family
\* that exists; whether its categories were seeded is not asked.
SessionsAreComplete ==
    \A s \in Sessions :
        session[s].at = "live" =>
            /\ session[s].who \in users
            /\ memberOf[session[s].who] # NoFamily
            /\ family[memberOf[session[s].who]].here

\* "too many attempts, start over": however many requests try codes at once, one
\* code is answered wrongly MaxAttempts times, and once more for every other
\* request under way and for every one that ended early.
AttemptsAreBounded ==
    \A l \in Logins :
        pending[l].at \in {"sms", "email"} =>
            wrong[l] <= MaxAttempts + Cardinality(Requests) - 1 + lost

\* "the unique index on crew_family_id decides, and the loser re-reads": reads,
\* races and second tries come to the same as placing a member in one step, as
\* module Placement does.
Placed == INSTANCE Placement WITH
    existing <- {f \in Families : family[f].here},
    household <- [f \in Families |-> family[f].household]

ImplementsPlacement == Placed!Spec

\* A family keeps its household, and a member keeps the family.
PlacedForGood ==
    [][/\ \A m \in Members : memberOf[m] # NoFamily => memberOf'[m] = memberOf[m]
       /\ \A f \in Families : family[f].here /\ family[f].household # Unknown
              => family'[f].household = family[f].household]_vars

-----------------------------------------------------------------------------
(* The inductive invariant behind PlacedForGood, HouseholdShares and       *)
(* SessionsAreComplete.                                                    *)

\* Requests know who they are for, and which login, once they have loaded it.
RequestsAreSomebodys ==
    /\ \A l \in Logins : pending[l].at # "new" => pending[l].who \in Members
    /\ \A q \in Requests :
        /\ req[q].at # "idle" => req[q].who \in Members
        /\ req[q].at \notin {"idle", "send"} =>
               req[q].login \in Logins /\ pending[req[q].login].at # "new"

\* A request that is past its reads goes by what still holds: nobody loses the
\* family or the row it found, and a household keeps its family.
Stands(x) ==
    /\ x.at \in {"place", "write"} => x.household \in {HouseholdOf[x.who], Unknown}
    /\ x.at \in {"place", "write", "seed", "connect", "close", "issue"} => x.who \in users
    /\ x.at \in {"seed", "connect", "close", "issue"} => memberOf[x.who] # NoFamily
    /\ x.at = "seed" => x.found \in Families
    /\ x.at = "write" /\ x.placed => x.found = memberOf[x.who] /\ x.found # NoFamily
    /\ x.at = "write" /\ ~x.placed /\ x.found # NoFamily =>
           HasHousehold(x.found, x.household)

ReadsStand == \A q \in Requests : Stands(req[q])

\* A household has one family, a member's family is there, and is the one of
\* the member's household unless the member is a stranger.
FamiliesAreHouseholds ==
    /\ \A f, g \in Families : \A h \in Households :
          HasHousehold(f, h) /\ HasHousehold(g, h) => f = g
    /\ \A m \in Members : memberOf[m] # NoFamily =>
          /\ family[memberOf[m]].here
          /\ m \in strangers \/ family[memberOf[m]].household = HouseholdOf[m]

SignInInv ==
    /\ RequestsAreSomebodys
    /\ ReadsStand
    /\ FamiliesAreHouseholds
    /\ SessionsAreComplete

(* The inductive invariant behind AttemptsAreBounded.                      *)

\* The requests that counted the last attempt and have yet to delete the login.
Spenders(l) == {q \in Requests : req[q].at = "spent" /\ req[q].login = l}

\* The row counts every wrong answer, and goes beyond the last attempt but one
\* only by those who are to delete it, or would have been had they lived.
IsCounted(l) ==
    pending[l].at # "gone" =>
        /\ wrong[l] <= pending[l].attempts
        /\ pending[l].attempts <= MaxAttempts - 1 + Cardinality(Spenders(l)) + lost

CodesInv == \A l \in Logins : IsCounted(l)

=============================================================================
