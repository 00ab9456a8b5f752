------------------------------- MODULE Labels -------------------------------
(***************************************************************************)
(* Categories, rules and labels of one family, and what the requests about *)
(* them do to its transactions (internal/categoriesapi,                    *)
(* internal/transactionsapi, internal/categorize, internal/store).         *)
(*                                                                         *)
(* A transaction's category is its note in Crew, when that is the name of  *)
(* a category; the database keeps a copy of the note.  Nothing writes a    *)
(* note at once: every change is a job of the write queue, one per         *)
(* transaction, and a later job replaces it (module WriteQueue).  Requests *)
(* and background runs interleave at every statement.                      *)
(*                                                                         *)
(* Names are compared without case: a member of Names stands for all the   *)
(* spellings of one name.  A user's rule is the merchants it matches.      *)
(***************************************************************************)
EXTENDS Integers, FiniteSets

CONSTANTS
    Txns, Merchants,
    MerchantOf,   \* [Txns -> Merchants]
    Cats,         \* ids of categories
    System,       \* the ones crewmate owns, there from the start
    Names,
    SystemName,   \* [System -> Names]
    Remark,       \* a note that somebody wrote and that names nothing
    Blank,        \* the empty note
    None,
    Rules,        \* ids of users' rules, in the order they are tried
    Requests,     \* handlers and background runs at work
    Limit,        \* renameLimit, backfillLimit, ReassessLimit
    MinSamples,   \* consistentMinSamples
    MaxFaults     \* bound on statements that fail

ASSUME LabelsAssumption ==
    /\ IsFiniteSet(Txns)
    /\ MerchantOf \in [Txns -> Merchants]
    /\ System \subseteq Cats
    /\ SystemName \in [System -> Names]
    /\ \A a, b \in System : SystemName[a] = SystemName[b] => a = b
    /\ Remark \notin Names /\ Blank \notin Names \cup {Remark}
    /\ None \notin Names \cup {Remark, Blank} \cup Cats \cup Txns \cup Merchants
    /\ Txns \cap Merchants = {}
    /\ Rules \subseteq Nat
    /\ Limit \in Nat \ {0} /\ MinSamples \in Nat \ {0} /\ MaxFaults \in Nat

VARIABLES
    note,      \* [Txns -> transactions.note]
    job,       \* [Txns -> the pending write of the note]
    cat,       \* [Cats -> the row of categories]
    rule,      \* [Rules -> the row of category_rules, source 'user']
    series,    \* [Merchants -> the category of the rule with source 'series']
    dismissed, \* [Merchants -> recurring_series.dismissed]
    req,       \* [Requests -> where the request is]
    filed,     \* history: [Txns -> the category last decided on]
    excepted,  \* history: transactions and merchants of which the properties say
               \* nothing, by cause: each action that adds to it names its own
    faults

vars == <<note, job, cat, rule, series, dismissed, req, filed, excepted, faults>>

Notes == Names \cup {Remark, Blank}
Job   == [note : Notes \cup {None}, own : BOOLEAN]
Cat   == [at : {"new", "here", "gone"}, name : Names \cup {None}, excluded : BOOLEAN]
Rule  == [here : BOOLEAN, on : BOOLEAN, cat : Cats \cup {None}, for : SUBSET Merchants]
Work  == [at : {"idle", "write", "gather", "queue", "rename", "carry", "delete",
                "history", "load", "decide", "answer", "label", "undismiss",
                "fill", "unlabel", "dismiss"},
          txn : Txns \cup {None}, cat : Cats \cup {None}, note : Notes \cup {None},
          old : Names \cup {None}, for : SUBSET Merchants, all : BOOLEAN,
          then : {"idle", "gather", "load"}, left : SUBSET Txns]

NoJob == [note |-> None, own |-> FALSE]
Idle  == [at |-> "idle", txn |-> None, cat |-> None, note |-> None, old |-> None,
          for |-> {}, all |-> FALSE, then |-> "idle", left |-> {}]

\* Types, and the foreign key of category_rules.
TypeOK ==
    /\ note \in [Txns -> Notes]
    /\ job \in [Txns -> Job]
    /\ cat \in [Cats -> Cat]
    /\ rule \in [Rules -> Rule]
    /\ series \in [Merchants -> Cats \cup {None}]
    /\ dismissed \in [Merchants -> BOOLEAN]
    /\ req \in [Requests -> Work]
    /\ filed \in [Txns -> Cats \cup {None}]
    /\ excepted \in SUBSET (Txns \cup Merchants)
    /\ faults \in 0..MaxFaults
    /\ \A r \in Rules : rule[r].here => cat[rule[r].cat].at = "here"

Init ==
    /\ note = [t \in Txns |-> Blank]
    /\ job = [t \in Txns |-> NoJob]
    /\ cat = [c \in Cats |-> IF c \in System
                THEN [at |-> "here", name |-> SystemName[c], excluded |-> FALSE]
                ELSE [at |-> "new", name |-> None, excluded |-> FALSE]]
    /\ rule = [r \in Rules |-> [here |-> FALSE, on |-> FALSE, cat |-> None, for |-> {}]]
    /\ series = [m \in Merchants |-> None]
    /\ dismissed = [m \in Merchants |-> FALSE]
    /\ req = [q \in Requests |-> Idle]
    /\ filed = [t \in Txns |-> None]
    /\ excepted = {}
    /\ faults = 0

Become(q, x) == req' = [req EXCEPT ![q] = x]
Free(q)      == req[q].at = "idle"
Except(S)    == excepted' = excepted \cup S

Here(c)  == cat[c].at = "here"
Taken(n) == \E c \in Cats : Here(c) /\ cat[c].name = n

\* The join with categories: the category a note names.
Named(n) == IF Taken(n) THEN CHOOSE c \in Cats : Here(c) /\ cat[c].name = n ELSE None

\* Broken: anything with a note may be replaced.
AnyReplaceable(t) == TRUE

Replaceable(t) == note[t] = Blank \/ Named(note[t]) # None

\* What LIMIT leaves of a list; which are the newest does not matter here.
Page(S) == IF Cardinality(S) <= Limit THEN {S}
           ELSE {P \in SUBSET S : Cardinality(P) = Limit}

ListBlank == {t \in Txns : note[t] = Blank}
Of(m)     == {t \in Txns : MerchantOf[t] = m}

\* The request will write over t, which nobody chose for this transaction.
Aims(x, t) ==
    \/ x.at = "queue" /\ t \in x.left
    \/ x.at \in {"decide", "answer"} /\ x.txn = t
    \/ x.at = "write" /\ x.then = "load" /\ x.txn = t

\* Requests that have transaction t in hand or on a list, all or all but one.
Holding(t)      == {q \in Requests : t \in req[q].left \cup {req[q].txn}}
Unheld(t)       == Holding(t) = {}
Contested(q, t) == Holding(t) \ {q} # {}

\* What nobody chose for t itself will be written over its note.
Threatened(t) ==
    \/ job[t] # NoJob /\ ~job[t].own
    \/ \E q \in Requests : Aims(req[q], t)

-----------------------------------------------------------------------------
(* EnqueueNoteWrite, and the queue.                                        *)

\* The note that t has, or will have when its job is done.
Destined(t) == IF job[t] = NoJob THEN note[t] ELSE job[t].note

\* What was decided for t still stands for a category.
Decided(t) == filed[t] # None /\ Here(filed[t])

\* The rename x will give t its category's name.
Catches(x, t) ==
    /\ x.old # None /\ x.cat = filed[t]
    /\ \/ x.at = "carry" /\ Destined(t) = x.old
       \/ x.at = "queue" /\ t \in x.left

Enqueued(t, n, own) == job' = [job EXCEPT ![t] = [note |-> n, own |-> own]]

\* Excepted: a note written under a name its category has no longer, and one
\* that a rename takes back from what was decided after it made its list.
Stale(x, t) ==
    \/ x.cat # None /\ Here(x.cat) /\ cat[x.cat].name # x.note
    \/ x.old # None /\ filed[t] # x.cat

\* The job for t; own: a person chose the category for this very transaction.
File(q, t, own) ==
    /\ Enqueued(t, req[q].note, own)
    /\ filed' = [filed EXCEPT ![t] = req[q].cat]
    /\ excepted' = IF Stale(req[q], t) THEN excepted \cup {t}
                ELSE IF own /\ ~Contested(q, t) THEN excepted \ {t} ELSE excepted

\* The job of t is done: Crew and the local copy have the note.
Perform(t) ==
    /\ job[t] # NoJob
    /\ note' = [note EXCEPT ![t] = job[t].note]
    /\ job' = [job EXCEPT ![t] = NoJob]
    /\ UNCHANGED <<cat, rule, series, dismissed, req, filed, excepted, faults>>

\* Crew refuses it too often.  Excepted: the write that was given up.
Abandon(t) ==
    /\ job[t] # NoJob
    /\ faults < MaxFaults /\ faults' = faults + 1
    /\ job' = [job EXCEPT ![t] = NoJob]
    /\ Except({t})
    /\ UNCHANGED <<note, cat, rule, series, dismissed, req, filed>>

\* Somebody edits the note in the Crew app, and the note sync copies it; a job
\* that is pending has the last word.  Excepted: a remark that meets a bulk write.
Edit(t, n) ==
    /\ note[t] # n
    /\ note' = [note EXCEPT ![t] = n]
    /\ filed' = IF job[t] = NoJob THEN [filed EXCEPT ![t] = Named(n)] ELSE filed
    /\ excepted' = IF n = Remark /\ Threatened(t) THEN excepted \cup {t}
                   ELSE IF job[t] = NoJob /\ Unheld(t) THEN excepted \ {t} ELSE excepted
    /\ UNCHANGED <<job, cat, rule, series, dismissed, req, faults>>

\* The rest of a list, one job after the other.
Settled(x) == IF x.left = {} THEN Idle ELSE x

Queue(q) ==
    /\ req[q].at = "queue"
    /\ \E t \in req[q].left :
        /\ File(q, t, FALSE)
        /\ Become(q, Settled([req[q] EXCEPT !.left = @ \ {t}]))
    /\ UNCHANGED <<note, cat, rule, series, dismissed, faults>>

-----------------------------------------------------------------------------
(* Categories.                                                             *)

Create(c, n) ==
    /\ cat[c].at = "new"
    /\ ~Taken(n)
    /\ cat' = [cat EXCEPT ![c] = [at |-> "here", name |-> n, excluded |-> FALSE]]
    /\ UNCHANGED <<note, job, rule, series, dismissed, req, filed, excepted, faults>>

\* Update reads the category: a system category keeps its name.
Rename(q, c, n) ==
    /\ Free(q)
    /\ Here(c)
    /\ c \in System => n = cat[c].name
    /\ Become(q, [Idle EXCEPT !.at = "rename", !.cat = c, !.note = n, !.old = cat[c].name])
    /\ UNCHANGED <<note, job, cat, rule, series, dismissed, filed, excepted, faults>>

\* UpdateCategory: the row may be gone, the name may be another's.  A change, if
\* only of colour, writes over the name that another gave the category since this
\* one read it: then all that is filed under the category is excepted.
Renamed(q) ==
    LET x == req[q] IN
    /\ x.at = "rename"
    /\ IF Here(x.cat) /\ Named(x.note) \in {None, x.cat}
       THEN /\ \E e \in BOOLEAN :
                cat' = [cat EXCEPT ![x.cat] = [@ EXCEPT !.name = x.note, !.excluded = e]]
            /\ Become(q, IF x.old = x.note THEN Idle ELSE [x EXCEPT !.at = "carry"])
            /\ Except(IF cat[x.cat].name = x.old THEN {}
                      ELSE {t \in Txns : filed[t] = x.cat})
       ELSE Become(q, Idle) /\ UNCHANGED <<cat, excepted>>
    /\ UNCHANGED <<note, job, rule, series, dismissed, filed, faults>>

\* Broken: the notes are looked up by the name the category has now.
CarriedNow(x) == {t \in Txns : note[t] = x.note}

\* TransactionsWithNote.
Carried(x) == {t \in Txns : note[t] = x.old}

\* What a rename with the list P loses: the old name, where a write is pending
\* that takes it past the list or LIMIT cuts the list; and another's choice.
Missed(x, P) ==
    {t \in Txns \ P : /\ Catches(x, t)
                      /\ job[t] # NoJob \/ ~(Cardinality({u \in Txns : note[u] = x.old}) <= Limit)}
        \cup {t \in P : filed[t] # x.cat /\ (job[t] # NoJob \/ Decided(t))}

\* The loop gets its list.  Excepted: Missed.
Carry(q) ==
    LET x == req[q] IN
    /\ x.at = "carry"
    /\ \E P \in Page(Carried(x)) :
        /\ Become(q, Settled([x EXCEPT !.at = "queue", !.left = P]))
        /\ filed' = [t \in Txns |-> IF t \in P THEN x.cat ELSE filed[t]]
        /\ Except(Missed(x, P))
    /\ UNCHANGED <<note, job, cat, rule, series, dismissed, faults>>

\* Delete reads the category ...
Delete(q, c) ==
    /\ Free(q)
    /\ Here(c) /\ c \notin System
    /\ Become(q, [Idle EXCEPT !.at = "delete", !.cat = c])
    /\ UNCHANGED <<note, job, cat, rule, series, dismissed, filed, excepted, faults>>

\* Broken: the rules do not go with it.
DeletedAlone(q) ==
    LET c == req[q].cat IN
    /\ req[q].at = "delete"
    /\ cat' = [cat EXCEPT ![c] = [@ EXCEPT !.at = "gone", !.name = None]]
    /\ Become(q, Idle)
    /\ UNCHANGED <<note, job, rule, series, dismissed, filed, excepted, faults>>

\* ... and deletes it with its rules.  Notes stay as they are.
Deleted(q) ==
    LET c == req[q].cat IN
    /\ req[q].at = "delete"
    /\ cat' = [cat EXCEPT ![c] = [@ EXCEPT !.at = "gone", !.name = None]]
    /\ rule' = [r \in Rules |-> IF rule[r].cat = c
                  THEN [rule[r] EXCEPT !.here = FALSE, !.cat = None] ELSE rule[r]]
    /\ series' = [m \in Merchants |-> IF series[m] = c THEN None ELSE series[m]]
    /\ Become(q, Idle)
    /\ UNCHANGED <<note, job, dismissed, filed, excepted, faults>>

-----------------------------------------------------------------------------
(* A category chosen for a transaction, and for its merchant.              *)

\* SetCategory up to the write; without a category the note is cleared.
Choose(q, t, c, apply, all) ==
    /\ Free(q)
    /\ c # None => Here(c)
    /\ Become(q, [Idle EXCEPT !.at = "write", !.txn = t, !.cat = c,
                    !.note = IF c = None THEN Blank ELSE cat[c].name, !.all = all,
                    !.then = IF apply /\ c # None THEN "gather" ELSE "idle"])
    /\ UNCHANGED <<note, job, cat, rule, series, dismissed, filed, excepted, faults>>

\* A run goes on with the next of its list.
Onward(x) == Settled([x EXCEPT !.at = "load", !.txn = None, !.cat = None, !.note = None])

After(x) == CASE x.then = "gather" -> [x EXCEPT !.at = "gather"]
              [] x.then = "load"   -> Onward(x)
              [] OTHER             -> Idle

Write(q) ==
    /\ req[q].at = "write"
    /\ File(q, req[q].txn, req[q].then # "load")
    /\ Become(q, After(req[q]))
    /\ UNCHANGED <<note, cat, rule, series, dismissed, faults>>

\* UncategorizedForMerchant or AllForMerchant, and what the loop leaves out.
Gather(q) ==
    LET x == req[q]  m == MerchantOf[x.txn] IN
    /\ x.at = "gather"
    /\ \E P \in Page(IF x.all THEN Of(m) ELSE Of(m) \cap ListBlank) :
         Become(q, Settled([x EXCEPT !.at = "queue", !.txn = None,
            !.left = {t \in P \ {x.txn} : Replaceable(t) /\ note[t] # x.note}]))
    /\ UNCHANGED <<note, job, cat, rule, series, dismissed, filed, excepted, faults>>

\* A write fails: the answer to a request, a line in the log for a run.
\* Excepted: a note that a rename would have rewritten.
Fail(q) ==
    LET x == req[q] IN
    /\ x.at \in {"write", "queue"}
    /\ faults < MaxFaults /\ faults' = faults + 1
    /\ \E t \in IF x.at = "write" THEN {x.txn} ELSE x.left :
        /\ Except({t} \cap {u \in Txns : Catches(x, u)})
        /\ Become(q, IF x.at = "queue" THEN Settled([x EXCEPT !.left = @ \ {t}])
                     ELSE IF x.then = "load" THEN Onward(x) ELSE Idle)
    /\ UNCHANGED <<note, job, cat, rule, series, dismissed, filed>>

-----------------------------------------------------------------------------
(* Rules.                                                                  *)

\* CreateRule, with the rule applied to the past if asked for.
AddRule(q, r, c, ms, apply, all) ==
    /\ Free(q)
    /\ ~rule[r].here /\ Here(c)
    /\ rule' = [rule EXCEPT ![r] = [here |-> TRUE, on |-> TRUE, cat |-> c, for |-> ms]]
    /\ Become(q, IF apply THEN [Idle EXCEPT !.at = "history", !.cat = c,
                                  !.note = cat[c].name, !.for = ms, !.all = all]
                 ELSE Idle)
    /\ UNCHANGED <<note, job, cat, series, dismissed, filed, excepted, faults>>

\* UpdateRule, which may switch the rule off.
ChangeRule(r, c, ms, on) ==
    /\ rule[r].here /\ Here(c)
    /\ rule' = [rule EXCEPT ![r] = [here |-> TRUE, on |-> on, cat |-> c, for |-> ms]]
    /\ UNCHANGED <<note, job, cat, series, dismissed, req, filed, excepted, faults>>

RemoveRule(r) ==
    /\ rule[r].here
    /\ rule' = [rule EXCEPT ![r] = [@ EXCEPT !.here = FALSE, !.cat = None]]
    /\ UNCHANGED <<note, job, cat, series, dismissed, req, filed, excepted, faults>>

\* ApplyRuleToHistory: overwriting it writes the rule's category, otherwise the
\* blanks go through resolveCategory.
History(q) ==
    LET x == req[q] IN
    /\ x.at = "history"
    /\ \E P \in Page(IF x.all THEN Txns ELSE ListBlank) :
       LET S == {t \in P : /\ Replaceable(t) /\ note[t] # x.note
                           /\ MerchantOf[t] \in x.for} IN
       Become(q, Settled([x EXCEPT !.at = IF x.all THEN "queue" ELSE "load",
                                   !.left = S, !.then = "load"]))
    /\ UNCHANGED <<note, job, cat, rule, series, dismissed, filed, excepted, faults>>

-----------------------------------------------------------------------------
(* resolveCategory, for a new transaction or in a run.                     *)

\* Reassess, or an item of the pipeline's queue.
Begin(q, S) ==
    /\ Free(q)
    /\ S # {}
    /\ Become(q, [Idle EXCEPT !.at = "load", !.then = "load", !.left = S])
    /\ UNCHANGED <<note, job, cat, rule, series, dismissed, filed, excepted, faults>>

Process(q, t) == Begin(q, {t})
Reassess(q)   == \E P \in Page(ListBlank) : Begin(q, P)

\* The transaction is read again, and left alone if it has a note by now.
Load(q) ==
    /\ req[q].at = "load"
    /\ \E t \in req[q].left :
       LET x == [req[q] EXCEPT !.left = @ \ {t}] IN
       Become(q, IF note[t] = Blank THEN [x EXCEPT !.at = "decide", !.txn = t] ELSE Onward(x))
    /\ UNCHANGED <<note, job, cat, rule, series, dismissed, filed, excepted, faults>>

\* ListEnabledRules puts the users' rules before the labels'.
Matching(t)  == {r \in Rules : rule[r].here /\ rule[r].on /\ MerchantOf[t] \in rule[r].for}
RuleCat(t)   == IF Matching(t) = {} THEN series[MerchantOf[t]]
                ELSE rule[CHOOSE r \in Matching(t) : \A s \in Matching(t) : r <= s].cat

\* MerchantCategoryHistory, ConsistentCategory.
Examples(t)  == {u \in Of(MerchantOf[t]) : Named(note[u]) # None}
Habit(t)     == LET C == {Named(note[u]) : u \in Examples(t)} IN
                IF Cardinality(Examples(t)) >= MinSamples /\ Cardinality(C) = 1
                THEN CHOOSE c \in C : TRUE ELSE None

\* LLMSelectable.
Selectable(c) == Here(c) /\ c \notin System /\ ~cat[c].excluded

\* The rules, the merchant's past, then the model; its answer comes later.
Decide(q) ==
    LET x == req[q]
        c == IF RuleCat(x.txn) # None THEN RuleCat(x.txn) ELSE Habit(x.txn) IN
    /\ x.at = "decide"
    /\ \/ c # None /\ Become(q, [x EXCEPT !.at = "write", !.cat = c, !.note = cat[c].name])
       \/ c = None /\ \E d \in Cats : Selectable(d) /\
             Become(q, [x EXCEPT !.at = "answer", !.note = cat[d].name])
       \/ c = None /\ Become(q, Onward(x))
    /\ UNCHANGED <<note, job, cat, rule, series, dismissed, filed, excepted, faults>>

\* GetCategoryByName: the family may have changed its categories meanwhile.
Answer(q) ==
    LET x == req[q]  c == Named(x.note) IN
    /\ x.at = "answer"
    /\ Become(q, IF c # None /\ c \notin System THEN [x EXCEPT !.at = "write", !.cat = c]
                 ELSE Onward(x))
    /\ UNCHANGED <<note, job, cat, rule, series, dismissed, filed, excepted, faults>>

-----------------------------------------------------------------------------
(* Labels of recurring series.                                             *)

\* A request about the label of merchant m is under way.
Labelling(m) ==
    \E q \in Requests : /\ m \in req[q].for
                        /\ req[q].at \in {"label", "undismiss", "unlabel", "dismiss"}
\* Excepted: requests about one label that cross.
Crossed(m) == Except(IF Labelling(m) THEN {m} ELSE {})

\* LabelRecurring reads the series, dismissed or not, and the system category.
Label(q, m, c) ==
    /\ Free(q)
    /\ Become(q, [Idle EXCEPT !.at = "label", !.cat = c, !.note = cat[c].name,
                              !.for = {m}, !.all = dismissed[m]])
    /\ Crossed(m)
    /\ UNCHANGED <<note, job, cat, rule, series, dismissed, filed, faults>>

\* UpsertSeriesRule.
Labelled(q) ==
    LET x == req[q] IN
    /\ x.at = "label"
    /\ series' = [m \in Merchants |-> IF m \in x.for THEN x.cat ELSE series[m]]
    /\ Become(q, [x EXCEPT !.at = IF x.all THEN "undismiss" ELSE "fill"])
    /\ UNCHANGED <<note, job, cat, rule, dismissed, filed, excepted, faults>>

\* SetRecurringDismissed(false); a failure, excepted, is only logged.
Undismiss(q) ==
    LET x == req[q] IN
    /\ x.at = "undismiss"
    /\ \/ /\ dismissed' = [m \in Merchants |-> dismissed[m] /\ m \notin x.for]
          /\ UNCHANGED <<excepted, faults>>
       \/ /\ faults < MaxFaults /\ faults' = faults + 1
          /\ Except(x.for)
          /\ UNCHANGED dismissed
    /\ Become(q, [x EXCEPT !.at = "fill"])
    /\ UNCHANGED <<note, job, cat, rule, series, filed>>

\* The merchant's blanks.
Fill(q) ==
    LET x == req[q] IN
    /\ x.at = "fill"
    /\ \E P \in Page({t \in ListBlank : MerchantOf[t] \in x.for}) :
         Become(q, Settled([x EXCEPT !.at = "queue", !.left = P]))
    /\ UNCHANGED <<note, job, cat, rule, series, dismissed, filed, excepted, faults>>

\* LabelRecurring without a category.
Unlabel(m) ==
    /\ series[m] # None
    /\ series' = [series EXCEPT ![m] = None]
    /\ UNCHANGED <<note, job, cat, rule, dismissed, req, filed, excepted, faults>>

\* Broken: a dismissal leaves the label to its rule.
DismissOnly(q, m) ==
    /\ Free(q)
    /\ Become(q, [Idle EXCEPT !.at = "dismiss", !.for = {m}])
    /\ Crossed(m)
    /\ UNCHANGED <<note, job, cat, rule, series, dismissed, filed, faults>>

\* PatchRecurring: a dismissal takes the label away first ...
Dismiss(q, m) ==
    /\ Free(q)
    /\ Become(q, [Idle EXCEPT !.at = "unlabel", !.for = {m}])
    /\ Crossed(m)
    /\ UNCHANGED <<note, job, cat, rule, series, dismissed, filed, faults>>

\* ... and goes on if that fails, which is excepted.
TakeLabel(q) ==
    LET x == req[q] IN
    /\ x.at = "unlabel"
    /\ \/ /\ series' = [m \in Merchants |-> IF m \in x.for THEN None ELSE series[m]]
          /\ UNCHANGED <<excepted, faults>>
       \/ /\ faults < MaxFaults /\ faults' = faults + 1
          /\ Except(x.for)
          /\ UNCHANGED series
    /\ Become(q, [x EXCEPT !.at = "dismiss"])
    /\ UNCHANGED <<note, job, cat, rule, dismissed, filed>>

Dismissed(q) ==
    LET x == req[q] IN
    /\ x.at = "dismiss"
    /\ dismissed' = [m \in Merchants |-> dismissed[m] \/ m \in x.for]
    /\ Become(q, Idle)
    /\ UNCHANGED <<note, job, cat, rule, series, filed, excepted, faults>>

Restore(m) ==
    /\ dismissed[m]
    /\ dismissed' = [dismissed EXCEPT ![m] = FALSE]
    /\ UNCHANGED <<note, job, cat, rule, series, req, filed, excepted, faults>>

-----------------------------------------------------------------------------
\* The end of the process, a client that is gone, a read that fails: a request
\* or a run ends where it is.  Excepted: what it leaves half done, the notes
\* that a rename has not rewritten and a dismissal that a label has not undone.
HalfDone(x) == {t \in Txns : Catches(x, t)}
                 \cup (IF x.at = "undismiss" THEN x.for ELSE {})

Ends(q) ==
    /\ ~Free(q)
    /\ faults < MaxFaults /\ faults' = faults + 1
    /\ Become(q, Idle)
    /\ Except(HalfDone(req[q]))
    /\ UNCHANGED <<note, job, cat, rule, series, dismissed, filed>>

-----------------------------------------------------------------------------
Asked(q) ==
    \/ \E c \in Cats, n \in Names : Rename(q, c, n)
    \/ \E c \in Cats : Delete(q, c)
    \/ \E t \in Txns, c \in Cats \cup {None}, apply, all \in BOOLEAN : Choose(q, t, c, apply, all)
    \/ \E r \in Rules, c \in Cats, ms \in SUBSET Merchants, apply, all \in BOOLEAN :
         AddRule(q, r, c, ms, apply, all)
    \/ \E t \in Txns : Process(q, t)
    \/ Reassess(q)
    \/ \E m \in Merchants, c \in System : Label(q, m, c)
    \/ \E m \in Merchants : Dismiss(q, m)

Works(q) ==
    \/ Renamed(q) \/ Carry(q) \/ Deleted(q) \/ Queue(q) \/ Write(q) \/ Gather(q)
    \/ Fail(q) \/ History(q) \/ Load(q) \/ Decide(q) \/ Answer(q)
    \/ Labelled(q) \/ Undismiss(q) \/ Fill(q) \/ TakeLabel(q) \/ Dismissed(q)
    \/ Ends(q)

Next ==
    \/ \E q \in Requests : Asked(q) \/ Works(q)
    \/ \E c \in Cats, n \in Names : Create(c, n)
    \/ \E r \in Rules, c \in Cats, ms \in SUBSET Merchants, on \in BOOLEAN :
         ChangeRule(r, c, ms, on)
    \/ \E r \in Rules : RemoveRule(r)
    \/ \E m \in Merchants : Unlabel(m) \/ Restore(m)
    \/ \E t \in Txns : Perform(t) \/ Abandon(t) \/ \E n \in Notes : Edit(t, n)

Spec == Init /\ [][Next]_vars

-----------------------------------------------------------------------------
(* Properties.                                                             *)

\* A rename of category c has not written its jobs yet.
Renaming(c) ==
    \E q \in Requests : req[q].cat = c /\ req[q].old # None /\ req[q].at # "rename"

\* "a rename must rewrite every note that carries the old name, or those
\* transactions silently become uncategorized": once its job is done, a
\* transaction carries the name its category has now, through any number of
\* renames, and when it was written, renamed or edited again meanwhile.  Excepted
\* are, until it is chosen or edited anew: a pending write that takes the old
\* name past a rename's list; a choice that a rename's list replaces, or that is
\* queued under a name changed by then; two changes of one category that cross; a
\* list cut at Limit; and what fails: a job that Crew refuses too often, a write
\* of the loop, its list, the process before the loop is done.
RenameCarriesNotes ==
    \A t \in Txns :
        Decided(t) /\ job[t] = NoJob /\ ~Renaming(filed[t]) /\ t \notin excepted
        => note[t] = cat[filed[t]].name

\* "no bulk action destroys that": over a remark, nothing is queued but what
\* somebody chose for that very transaction.  Excepted is a remark that somebody
\* writes in Crew when a bulk write of the note is pending or about to be queued.
RemarksStay ==
    \A t \in Txns :
        note[t] = Remark /\ job[t] # NoJob /\ t \notin excepted => job[t].own

\* "Labelling is the opposite statement to dismissing": no merchant is dismissed
\* and labelled at once.  Excepted are requests about one label that cross, an
\* unlabelling or an undismissal that fails, which the code only logs, and a
\* process that ends between a label and the undismissal.
LabelledOrDismissed ==
    \A m \in Merchants :
        dismissed[m] /\ series[m] # None => Labelling(m) \/ m \in excepted

-----------------------------------------------------------------------------
(* The inductive invariant behind them.                                    *)

\* What a request has in hand, by where it is.
InHand(x) ==
    /\ x.at \in {"write", "gather", "decide", "answer"} => x.txn \in Txns
    /\ x.at \in {"write", "gather", "queue", "rename", "carry", "history", "answer",
                 "label", "undismiss", "fill"} => x.note \in Names \cup {Blank}
    /\ x.at = "write" /\ x.then # "load" => x.left = {}
    /\ x.at \in {"load", "decide", "answer"} => x.then = "load"
    /\ x.at \in {"rename", "carry"} => x.cat \in Cats /\ x.note \in Names /\ x.old \in Names
    /\ x.at = "delete" => x.cat \in Cats \ System
    /\ x.at \in {"label", "undismiss", "fill"} => x.cat \in System
    /\ x.cat # None => cat[x.cat].at # "new"

\* Categories that exist have names, the system's exist for ever, and whatever
\* names a category names one that is or was there.
RowsHold ==
    /\ \A c \in Cats : Here(c) => cat[c].name \in Names
    /\ \A c \in System : Here(c)
    /\ \A r \in Rules : rule[r].here => rule[r].cat \in Cats
    /\ \A m \in Merchants : series[m] \in System \cup {None}
    /\ \A t \in Txns : job[t] # NoJob => job[t].note \in Names \cup {Blank}
    /\ \A t \in Txns : filed[t] # None => cat[filed[t]].at # "new"
    /\ \A q \in Requests : InHand(req[q])

\* Nothing under way aims at a remark.
RemarksInv ==
    \A t \in Txns :
        note[t] = Remark /\ t \notin excepted =>
            /\ job[t] # NoJob => job[t].own
            /\ \A q \in Requests : ~Aims(req[q], t)

\* A request about the label of m is under way.
Busy(x, m) == m \in x.for /\ x.at \in {"label", "undismiss", "unlabel", "dismiss"}

\* Requests about one label that did not cross come one at a time, and still
\* find the series as they read it, or left it.
LabelsInv ==
    \A m \in Merchants \ excepted :
        /\ \A p, q \in Requests : Busy(req[p], m) /\ Busy(req[q], m) => p = q
        /\ \A q \in Requests :
            Busy(req[q], m) =>
                /\ req[q].at = "label" /\ ~req[q].all => ~dismissed[m]
                /\ req[q].at = "dismiss" => series[m] = None
        /\ dismissed[m] /\ series[m] # None =>
               \E q \in Requests : Busy(req[q], m) /\ req[q].at = "undismiss"

\* What was decided for a transaction is its note, or on its way there, or a
\* rename that is under way has it on its list.
NamesInv ==
    \A t \in Txns :
        Decided(t) /\ t \notin excepted =>
            \/ Destined(t) = cat[filed[t]].name
            \/ \E q \in Requests : Catches(req[q], t)

=============================================================================
