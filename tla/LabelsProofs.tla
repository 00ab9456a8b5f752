---------------------------- MODULE LabelsProofs ----------------------------
(***************************************************************************)
(* Proofs about Labels, for any number of transactions, merchants,         *)
(* categories, rules and requests: its types, that remarks stay, that no   *)
(* merchant is dismissed and labelled, and that renames carry their notes. *)
(***************************************************************************)
EXTENDS Labels, FiniteSetTheorems, WellFoundedInduction, TLAPS

-----------------------------------------------------------------------------
(* Types, and what requests have in hand: TypeOK and RowsHold, split into  *)
(* the requests and the rest.                                              *)

ReqOK ==
    /\ req \in [Requests -> Work]
    /\ \A q \in Requests : InHand(req[q])

CatOK ==
    /\ cat \in [Cats -> Cat]
    /\ \A c \in Cats : Here(c) => cat[c].name \in Names
    /\ \A c \in System : Here(c)

RuleOK ==
    /\ rule \in [Rules -> Rule]
    /\ \A r \in Rules : rule[r].here => rule[r].cat \in Cats /\ cat[rule[r].cat].at = "here"

SeriesOK ==
    /\ series \in [Merchants -> System \cup {None}]
    /\ dismissed \in [Merchants -> BOOLEAN]

NoteOK ==
    /\ note \in [Txns -> Notes]
    /\ job \in [Txns -> Job]
    /\ \A t \in Txns : job[t] # NoJob => job[t].note \in Names \cup {Blank}

FiledOK ==
    /\ filed \in [Txns -> Cats \cup {None}]
    /\ \A t \in Txns : filed[t] # None => cat[filed[t]].at # "new"

HistoryOK ==
    /\ excepted \in SUBSET (Txns \cup Merchants)
    /\ faults \in 0..MaxFaults

FamilyOK == ReqOK /\ CatOK /\ RuleOK /\ SeriesOK /\ NoteOK /\ FiledOK /\ HistoryOK

LEMMA FamilyByParts == FamilyOK <=> TypeOK /\ RowsHold
  <1>1. FamilyOK => TypeOK /\ RowsHold
    BY LabelsAssumption
    DEF FamilyOK, ReqOK, CatOK, RuleOK, SeriesOK, NoteOK, FiledOK, HistoryOK, TypeOK, RowsHold
  <1>2. TypeOK /\ RowsHold => FamilyOK
    BY LabelsAssumption
    DEF FamilyOK, ReqOK, CatOK, RuleOK, SeriesOK, NoteOK, FiledOK, HistoryOK, TypeOK, RowsHold,
        Here
  <1> QED
    BY <1>1, <1>2

LEMMA FamilyByPartsNext == FamilyOK' => TypeOK' /\ RowsHold'
  BY LabelsAssumption
  DEF FamilyOK, ReqOK, CatOK, RuleOK, SeriesOK, NoteOK, FiledOK, HistoryOK, TypeOK, RowsHold

\* Parts that a step leaves alone.
LEMMA CatKept == ASSUME CatOK, UNCHANGED cat PROVE CatOK'
  BY DEF CatOK, Here

LEMMA RuleKept == ASSUME RuleOK, UNCHANGED <<rule, cat>> PROVE RuleOK'
  BY DEF RuleOK

LEMMA SeriesKept == ASSUME SeriesOK, UNCHANGED <<series, dismissed>> PROVE SeriesOK'
  BY DEF SeriesOK

LEMMA NoteKept == ASSUME NoteOK, UNCHANGED <<note, job>> PROVE NoteOK'
  BY DEF NoteOK

LEMMA FiledKept == ASSUME FiledOK, UNCHANGED <<filed, cat>> PROVE FiledOK'
  BY DEF FiledOK

LEMMA HistoryKept == ASSUME HistoryOK, UNCHANGED <<excepted, faults>> PROVE HistoryOK'
  BY DEF HistoryOK

LEMMA ReqKept == ASSUME ReqOK, UNCHANGED <<req, cat>> PROVE ReqOK'
  BY DEF ReqOK, InHand

\* No step takes a category back to "new".
Aged == \A c \in Cats : cat[c].at # "new" => cat'[c].at # "new"

\* One request moves on.
LEMMA ReqMoves ==
    ASSUME ReqOK, Aged, NEW q \in Requests, NEW x \in Work, InHand(x), Become(q, x)
    PROVE  ReqOK'
  <1>1. req' \in [Requests -> Work]
    BY DEF ReqOK, Become
  <1>2. ASSUME NEW y \in Work, InHand(y) PROVE y.cat # None => cat'[y.cat].at # "new"
    BY <1>2 DEF InHand, Aged, Work
  <1>3. ASSUME NEW p \in Requests PROVE InHand(req[p])'
    <2>1. /\ req[p] \in Work /\ InHand(req[p])
          /\ req'[p] = IF p = q THEN x ELSE req[p]
      BY DEF ReqOK, Become
    <2>2. CASE p = q
      <3>1. req'[p] = x /\ (x.cat # None => cat'[x.cat].at # "new")
        BY <1>2, <2>1, <2>2
      <3> QED
        BY <3>1 DEF InHand
    <2>3. CASE p # q
      <3>1. req'[p] = req[p] /\ (req[p].cat # None => cat'[req[p].cat].at # "new")
        BY <1>2, <2>1, <2>3
      <3> QED
        BY <2>1, <3>1 DEF InHand
    <2> QED
      BY <2>2, <2>3
  <1> QED
    BY <1>1, <1>3 DEF ReqOK

\* A step that only moves one request on.
LEMMA OnlyMoves ==
    ASSUME FamilyOK, NEW q \in Requests, NEW x \in Work, InHand(x), Become(q, x), HistoryOK',
           UNCHANGED <<note, job, cat, rule, series, dismissed, filed>>
    PROVE  FamilyOK'
  <1>1. Aged
    BY DEF Aged
  <1>2. ReqOK'
    BY <1>1, ReqMoves DEF FamilyOK
  <1>3. CatOK' /\ RuleOK' /\ SeriesOK' /\ NoteOK' /\ FiledOK'
    BY CatKept, RuleKept, SeriesKept, NoteKept, FiledKept DEF FamilyOK
  <1> QED
    BY <1>2, <1>3 DEF FamilyOK

\* The place a request is at when it has nothing to do.
LEMMA IdleFits == Idle \in Work /\ InHand(Idle)
  BY DEF Idle, Work, InHand

\* The rest of a list.
LEMMA SettledFits ==
    ASSUME NEW x \in Work, InHand(x)
    PROVE  Settled(x) \in Work /\ InHand(Settled(x))
  BY IdleFits DEF Settled

LEMMA InitFamily == Init => FamilyOK
  <1> SUFFICES ASSUME Init PROVE FamilyOK
    OBVIOUS
  <1>1. ReqOK
    BY IdleFits DEF Init, ReqOK
  <1>2. CatOK
    BY LabelsAssumption DEF Init, CatOK, Cat, Here
  <1>3. RuleOK
    BY DEF Init, RuleOK, Rule
  <1>4. SeriesOK /\ NoteOK /\ FiledOK
    BY DEF Init, SeriesOK, NoteOK, FiledOK, NoJob, Job, Notes
  <1>5. HistoryOK
    BY LabelsAssumption DEF Init, HistoryOK
  <1> QED
    BY <1>1, <1>2, <1>3, <1>4, <1>5 DEF FamilyOK

-----------------------------------------------------------------------------
(* The operators.                                                          *)

\* A name that is taken names a category that exists and has it.
LEMMA NamedType ==
    ASSUME NEW n, Named(n) # None
    PROVE  Named(n) \in Cats /\ Here(Named(n)) /\ cat[Named(n)].name = n
  BY DEF Named, Taken

\* A remark names nothing, and a blank names nothing.
LEMMA RemarkNamesNothing ==
    ASSUME CatOK PROVE Named(Remark) = None /\ Named(Blank) = None
  BY NamedType, LabelsAssumption DEF CatOK

\* A page holds members of the list.
LEMMA PageOf == ASSUME NEW S, NEW P \in Page(S) PROVE P \subseteq S
  BY DEF Page

\* Rules have a first one.
LEMMA FirstRule ==
    ASSUME NEW R \in SUBSET Rules, R # {}
    PROVE  \E r \in R : \A s \in R : r <= s
  <1>1. R \subseteq Nat
    BY LabelsAssumption
  <1>2. PICK r \in R : \A s \in R : <<s, r>> \notin OpToRel(<, Nat)
    BY <1>1, WFMin, NatLessThanWellFounded, Zenon
  <1>3. \A s \in R : ~(s < r)
    BY <1>1, <1>2 DEF OpToRel
  <1> QED
    BY <1>1, <1>3

\* The category a rule gives exists.
LEMMA RuleCatExists ==
    ASSUME FamilyOK, NEW t \in Txns, RuleCat(t) # None
    PROVE  RuleCat(t) \in Cats /\ Here(RuleCat(t))
  <1>1. CASE Matching(t) = {}
    <2>1. RuleCat(t) = series[MerchantOf[t]] /\ MerchantOf[t] \in Merchants
      BY <1>1, LabelsAssumption DEF RuleCat
    <2>2. RuleCat(t) \in System
      BY <2>1 DEF FamilyOK, SeriesOK
    <2> QED
      BY <2>2, LabelsAssumption DEF FamilyOK, CatOK
  <1>2. CASE Matching(t) # {}
    <2> DEFINE r == CHOOSE r \in Matching(t) : \A s \in Matching(t) : r <= s
    <2>1. Matching(t) \in SUBSET Rules
      BY DEF Matching
    <2>2. r \in Matching(t)
      BY <1>2, <2>1, FirstRule
    <2>3. RuleCat(t) = rule[r].cat
      BY <1>2 DEF RuleCat
    <2>4. r \in Rules /\ rule[r].here
      BY <2>2 DEF Matching
    <2> QED
      BY <2>3, <2>4 DEF FamilyOK, RuleOK, Here
  <1> QED
    BY <1>1, <1>2

\* So does the category of a merchant's past.
LEMMA HabitExists ==
    ASSUME NEW t \in Txns, Habit(t) # None
    PROVE  Habit(t) \in Cats /\ Here(Habit(t))
  <1> DEFINE C == {Named(note[u]) : u \in Examples(t)}
  <1>1. Cardinality(C) = 1 /\ Habit(t) = CHOOSE c \in C : TRUE
    BY DEF Habit
  <1>2. C # {}
    BY <1>1, FS_EmptySet
  <1>3. Habit(t) \in C
    BY <1>1, <1>2
  <1>4. PICK u \in Examples(t) : Habit(t) = Named(note[u])
    BY <1>3
  <1> QED
    BY <1>4, NamedType DEF Examples

-----------------------------------------------------------------------------
(* Types: the requests.                                                    *)

LEMMA RenameTypes ==
    ASSUME FamilyOK, NEW q \in Requests, NEW c \in Cats, NEW n \in Names, Rename(q, c, n)
    PROVE  FamilyOK'
  <1> DEFINE x == [Idle EXCEPT !.at = "rename", !.cat = c, !.note = n, !.old = cat[c].name]
  <1>1. cat[c].name \in Names /\ cat[c].at # "new"
    BY DEF Rename, FamilyOK, CatOK, Here
  <1>2. x \in Work /\ InHand(x)
    BY <1>1 DEF Idle, Work, Notes, InHand
  <1>3. Become(q, x)
    BY DEF Rename
  <1>4. HistoryOK'
    BY HistoryKept DEF Rename, FamilyOK
  <1> HIDE DEF x
  <1> QED
    BY <1>2, <1>3, <1>4, OnlyMoves DEF Rename

LEMMA DeleteTypes ==
    ASSUME FamilyOK, NEW q \in Requests, NEW c \in Cats, Delete(q, c)
    PROVE  FamilyOK'
  <1> DEFINE x == [Idle EXCEPT !.at = "delete", !.cat = c]
  <1>1. x \in Work /\ InHand(x)
    BY DEF Delete, Here, Idle, Work, InHand
  <1>2. Become(q, x)
    BY DEF Delete
  <1>3. HistoryOK'
    BY HistoryKept DEF Delete, FamilyOK
  <1> HIDE DEF x
  <1> QED
    BY <1>1, <1>2, <1>3, OnlyMoves DEF Delete

LEMMA ChooseTypes ==
    ASSUME FamilyOK, NEW q \in Requests, NEW t \in Txns, NEW c \in Cats \cup {None},
           NEW apply \in BOOLEAN, NEW all \in BOOLEAN, Choose(q, t, c, apply, all)
    PROVE  FamilyOK'
  <1> DEFINE n == IF c = None THEN Blank ELSE cat[c].name
             x == [Idle EXCEPT !.at = "write", !.txn = t, !.cat = c, !.note = n, !.all = all,
                     !.then = IF apply /\ c # None THEN "gather" ELSE "idle"]
  <1>1. n \in Names \cup {Blank} /\ (c # None => cat[c].at # "new")
    BY DEF Choose, FamilyOK, CatOK, Here
  <1>2. Become(q, x)
    BY DEF Choose
  <1> HIDE DEF n
  <1>3. x \in Work /\ InHand(x)
    BY <1>1 DEF Idle, Work, Notes, InHand
  <1>4. HistoryOK'
    BY HistoryKept DEF Choose, FamilyOK
  <1> HIDE DEF x
  <1> QED
    BY <1>2, <1>3, <1>4, OnlyMoves DEF Choose

LEMMA BeginTypes ==
    ASSUME FamilyOK, NEW q \in Requests, NEW S \in SUBSET Txns, Begin(q, S)
    PROVE  FamilyOK'
  <1> DEFINE x == [Idle EXCEPT !.at = "load", !.then = "load", !.left = S]
  <1>1. x \in Work /\ InHand(x)
    BY DEF Idle, Work, InHand
  <1>2. Become(q, x)
    BY DEF Begin
  <1>3. HistoryOK'
    BY HistoryKept DEF Begin, FamilyOK
  <1> HIDE DEF x
  <1> QED
    BY <1>1, <1>2, <1>3, OnlyMoves DEF Begin

LEMMA AddRuleTypes ==
    ASSUME FamilyOK, NEW q \in Requests, NEW r \in Rules, NEW c \in Cats,
           NEW ms \in SUBSET Merchants, NEW apply \in BOOLEAN, NEW all \in BOOLEAN,
           AddRule(q, r, c, ms, apply, all)
    PROVE  FamilyOK'
  <1> DEFINE y == [Idle EXCEPT !.at = "history", !.cat = c, !.note = cat[c].name,
                     !.for = ms, !.all = all]
             x == IF apply THEN y ELSE Idle
  <1>1. cat[c].name \in Names /\ cat[c].at = "here"
    BY DEF AddRule, FamilyOK, CatOK, Here
  <1>2. y \in Work /\ InHand(y)
    BY <1>1 DEF Idle, Work, Notes, InHand
  <1>3. Become(q, x)
    BY DEF AddRule
  <1> HIDE DEF y
  <1>4. x \in Work /\ InHand(x)
    BY <1>2, IdleFits
  <1> HIDE DEF x
  <1>5. Aged
    BY DEF Aged, AddRule
  <1>6. ReqOK'
    BY <1>3, <1>4, <1>5, ReqMoves DEF FamilyOK
  <1>7. RuleOK'
    BY <1>1 DEF AddRule, FamilyOK, RuleOK, Rule
  <1>8. CatOK' /\ SeriesOK' /\ NoteOK' /\ FiledOK' /\ HistoryOK'
    BY CatKept, SeriesKept, NoteKept, FiledKept, HistoryKept DEF FamilyOK, AddRule
  <1> QED
    BY <1>6, <1>7, <1>8 DEF FamilyOK

\* A merchant that is crossed is a merchant.
LEMMA CrossedType ==
    ASSUME HistoryOK, NEW m \in Merchants, Crossed(m), UNCHANGED faults PROVE HistoryOK'
  BY DEF Except, HistoryOK, Crossed

LEMMA LabelTypes ==
    ASSUME FamilyOK, NEW q \in Requests, NEW m \in Merchants, NEW c \in System, Label(q, m, c)
    PROVE  FamilyOK'
  <1> DEFINE x == [Idle EXCEPT !.at = "label", !.cat = c, !.note = cat[c].name,
                     !.for = {m}, !.all = dismissed[m]]
  <1>1. c \in Cats /\ cat[c].name \in Names /\ cat[c].at = "here"
    BY LabelsAssumption DEF FamilyOK, CatOK, Here
  <1>2. dismissed[m] \in BOOLEAN
    BY DEF FamilyOK, SeriesOK
  <1>3. x \in Work /\ InHand(x)
    BY <1>1, <1>2 DEF Idle, Work, Notes, InHand
  <1>4. Become(q, x)
    BY DEF Label
  <1>5. HistoryOK'
    BY CrossedType DEF Label, FamilyOK
  <1> HIDE DEF x
  <1> QED
    BY <1>3, <1>4, <1>5, OnlyMoves DEF Label

LEMMA DismissTypes ==
    ASSUME FamilyOK, NEW q \in Requests, NEW m \in Merchants, Dismiss(q, m)
    PROVE  FamilyOK'
  <1> DEFINE x == [Idle EXCEPT !.at = "unlabel", !.for = {m}]
  <1>1. x \in Work /\ InHand(x)
    BY DEF Idle, Work, InHand
  <1>2. Become(q, x)
    BY DEF Dismiss
  <1>3. HistoryOK'
    BY CrossedType DEF Dismiss, FamilyOK
  <1> HIDE DEF x
  <1> QED
    BY <1>1, <1>2, <1>3, OnlyMoves DEF Dismiss

LEMMA AskedTypes ==
    ASSUME FamilyOK, NEW q \in Requests, Asked(q) PROVE FamilyOK'
  <1>1. ASSUME NEW t \in Txns, Process(q, t) PROVE FamilyOK'
    BY <1>1, BeginTypes DEF Process
  <1>2. CASE Reassess(q)
    <2>1. PICK P \in Page(ListBlank) : Begin(q, P)
      BY <1>2 DEF Reassess
    <2>2. P \in SUBSET Txns
      BY PageOf DEF ListBlank
    <2> QED
      BY <2>1, <2>2, BeginTypes
  <1> QED
    BY <1>1, <1>2, RenameTypes, DeleteTypes, ChooseTypes, AddRuleTypes, LabelTypes, DismissTypes
    DEF Asked

\* What EnqueueNoteWrite leaves.
LEMMA FileTypes ==
    ASSUME FamilyOK, NEW q \in Requests, NEW t \in Txns, NEW own \in BOOLEAN,
           req[q].at \in {"write", "queue"}, File(q, t, own), UNCHANGED <<note, cat, faults>>
    PROVE  NoteOK' /\ FiledOK' /\ HistoryOK'
  <1>1. /\ req[q] \in Work /\ InHand(req[q])
    BY DEF FamilyOK, ReqOK
  <1>2. /\ req[q].note \in Names \cup {Blank} /\ req[q].cat \in Cats \cup {None}
        /\ req[q].cat # None => cat[req[q].cat].at # "new"
    BY <1>1 DEF InHand, Work
  <1>3. NoteOK'
    <2> DEFINE j == [note |-> req[q].note, own |-> own]
    <2>1. j \in Job /\ j.note \in Names \cup {Blank}
      BY <1>2 DEF Job, Notes
    <2>2. job' = [job EXCEPT ![t] = j]
      BY DEF File, Enqueued
    <2> HIDE DEF j
    <2> QED
      BY <2>1, <2>2 DEF FamilyOK, NoteOK
  <1>4. FiledOK'
    BY <1>2 DEF FamilyOK, FiledOK, File
  <1>5. HistoryOK'
    BY DEF FamilyOK, HistoryOK, File
  <1> QED
    BY <1>3, <1>4, <1>5

LEMMA QueueTypes ==
    ASSUME FamilyOK, NEW q \in Requests, Queue(q) PROVE FamilyOK'
  <1>1. req[q] \in Work /\ InHand(req[q]) /\ req[q].at = "queue"
    BY DEF FamilyOK, ReqOK, Queue
  <1>2. PICK t \in req[q].left :
          File(q, t, FALSE) /\ Become(q, Settled([req[q] EXCEPT !.left = @ \ {t}]))
    BY DEF Queue
  <1> DEFINE x == [req[q] EXCEPT !.left = @ \ {t}]
  <1>3. t \in Txns /\ x \in Work /\ InHand(x)
    BY <1>1, <1>2 DEF Work, InHand
  <1>4. Become(q, Settled(x))
    BY <1>2
  <1> HIDE DEF x
  <1>5. ReqOK'
    BY <1>3, <1>4, SettledFits, ReqMoves DEF Aged, Queue, FamilyOK
  <1>6. NoteOK' /\ FiledOK' /\ HistoryOK'
    BY <1>1, <1>2, <1>3, FileTypes DEF Queue
  <1>7. CatOK' /\ RuleOK' /\ SeriesOK'
    BY CatKept, RuleKept, SeriesKept DEF FamilyOK, Queue
  <1> QED
    BY <1>5, <1>6, <1>7 DEF FamilyOK

\* The next of a run's list.
LEMMA OnwardFits ==
    ASSUME NEW x \in Work, InHand(x), x.then = "load"
    PROVE  Onward(x) \in Work /\ InHand(Onward(x))
  <1> DEFINE y == [x EXCEPT !.at = "load", !.txn = None, !.cat = None, !.note = None]
  <1>1. y \in Work /\ InHand(y)
    BY DEF Work, InHand
  <1>2. Onward(x) = Settled(y)
    BY DEF Onward
  <1> HIDE DEF y
  <1> QED
    BY <1>1, <1>2, SettledFits

LEMMA AfterFits ==
    ASSUME NEW x \in Work, InHand(x), x.at = "write"
    PROVE  After(x) \in Work /\ InHand(After(x))
  <1>1. CASE x.then = "gather"
    BY <1>1 DEF After, Work, InHand
  <1>2. CASE x.then = "load"
    <2>1. After(x) = Onward(x)
      BY <1>2 DEF After
    <2> QED
      BY <1>2, <2>1, OnwardFits
  <1>3. CASE x.then \notin {"gather", "load"}
    BY <1>3, IdleFits DEF After
  <1> QED
    BY <1>1, <1>2, <1>3

LEMMA WriteTypes ==
    ASSUME FamilyOK, NEW q \in Requests, Write(q) PROVE FamilyOK'
  <1>1. req[q] \in Work /\ InHand(req[q]) /\ req[q].at = "write"
    BY DEF FamilyOK, ReqOK, Write
  <1>2. req[q].txn \in Txns
    BY <1>1 DEF InHand
  <1>3. File(q, req[q].txn, req[q].then # "load") /\ Become(q, After(req[q]))
    BY DEF Write
  <1>4. ReqOK'
    BY <1>1, <1>3, AfterFits, ReqMoves DEF Aged, Write, FamilyOK
  <1>5. NoteOK' /\ FiledOK' /\ HistoryOK'
    BY <1>1, <1>2, <1>3, FileTypes DEF Write
  <1>6. CatOK' /\ RuleOK' /\ SeriesOK'
    BY CatKept, RuleKept, SeriesKept DEF FamilyOK, Write
  <1> QED
    BY <1>4, <1>5, <1>6 DEF FamilyOK

LEMMA CarryTypes ==
    ASSUME FamilyOK, NEW q \in Requests, Carry(q) PROVE FamilyOK'
  <1> DEFINE x == req[q]
  <1>1. x \in Work /\ InHand(x) /\ x.at = "carry"
    BY DEF FamilyOK, ReqOK, Carry
  <1>2. PICK P \in Page(Carried(x)) :
          /\ Become(q, Settled([x EXCEPT !.at = "queue", !.left = P]))
          /\ filed' = [t \in Txns |-> IF t \in P THEN x.cat ELSE filed[t]]
          /\ Except(Missed(x, P))
    BY DEF Carry
  <1>3. P \subseteq Txns /\ Missed(x, P) \subseteq Txns
    BY PageOf DEF Carried, Missed
  <1> DEFINE y == [x EXCEPT !.at = "queue", !.left = P]
  <1>4. y \in Work /\ InHand(y)
    BY <1>1, <1>3 DEF Work, InHand
  <1>5. Become(q, Settled(y))
    BY <1>2
  <1> HIDE DEF y
  <1>6. ReqOK'
    BY <1>4, <1>5, SettledFits, ReqMoves DEF Aged, Carry, FamilyOK
  <1>7. FiledOK'
    <2>1. x.cat \in Cats /\ cat[x.cat].at # "new" /\ UNCHANGED cat
      BY <1>1, LabelsAssumption DEF InHand, Carry
    <2> QED
      BY <1>2, <2>1 DEF FamilyOK, FiledOK
  <1>8. HistoryOK'
    BY <1>2, <1>3 DEF Except, FamilyOK, HistoryOK, Carry
  <1>9. CatOK' /\ RuleOK' /\ SeriesOK' /\ NoteOK'
    BY CatKept, RuleKept, SeriesKept, NoteKept DEF FamilyOK, Carry
  <1> QED
    BY <1>6, <1>7, <1>8, <1>9 DEF FamilyOK

LEMMA GatherTypes ==
    ASSUME FamilyOK, NEW q \in Requests, Gather(q) PROVE FamilyOK'
  <1> DEFINE x == req[q]
             m == MerchantOf[x.txn]
  <1>1. x \in Work /\ InHand(x) /\ x.at = "gather"
    BY DEF FamilyOK, ReqOK, Gather
  <1>2. PICK P \in Page(IF x.all THEN Of(m) ELSE Of(m) \cap ListBlank) :
          Become(q, Settled([x EXCEPT !.at = "queue", !.txn = None,
            !.left = {t \in P \ {x.txn} : Replaceable(t) /\ note[t] # x.note}]))
    BY DEF Gather
  <1>3. P \subseteq Txns
    BY PageOf DEF Of
  <1> DEFINE L == {t \in P \ {x.txn} : Replaceable(t) /\ note[t] # x.note}
             y == [x EXCEPT !.at = "queue", !.txn = None, !.left = L]
  <1>4. L \subseteq Txns /\ Become(q, Settled(y))
    BY <1>2, <1>3
  <1> HIDE DEF L
  <1>5. y \in Work /\ InHand(y)
    BY <1>1, <1>4 DEF Work, InHand
  <1> HIDE DEF y
  <1>6. HistoryOK'
    BY HistoryKept DEF FamilyOK, Gather
  <1> QED
    BY <1>4, <1>5, <1>6, SettledFits, OnlyMoves DEF Gather

LEMMA HistoryTypes ==
    ASSUME FamilyOK, NEW q \in Requests, History(q) PROVE FamilyOK'
  <1> DEFINE x == req[q]
  <1>1. x \in Work /\ InHand(x) /\ x.at = "history"
    BY DEF FamilyOK, ReqOK, History
  <1>2. PICK P \in Page(IF x.all THEN Txns ELSE ListBlank) :
          LET S == {t \in P : /\ Replaceable(t) /\ note[t] # x.note
                              /\ MerchantOf[t] \in x.for} IN
          Become(q, Settled([x EXCEPT !.at = IF x.all THEN "queue" ELSE "load",
                                      !.left = S, !.then = "load"]))
    BY DEF History
  <1>3. P \subseteq Txns
    BY PageOf DEF ListBlank
  <1> DEFINE S == {t \in P : /\ Replaceable(t) /\ note[t] # x.note
                             /\ MerchantOf[t] \in x.for}
             y == [x EXCEPT !.at = IF x.all THEN "queue" ELSE "load",
                            !.left = S, !.then = "load"]
  <1>4. S \subseteq Txns /\ Become(q, Settled(y))
    BY <1>2, <1>3
  <1> HIDE DEF S
  <1>5. y \in Work /\ InHand(y)
    <2>1. y \in Work
      BY <1>1, <1>4 DEF Work
    <2>2. /\ y.at \in {"queue", "load"} /\ y.then = "load"
          /\ y.note = x.note /\ y.cat = x.cat
      BY <1>1 DEF Work
    <2> HIDE DEF y
    <2> QED
      BY <1>1, <2>1, <2>2 DEF InHand
  <1> HIDE DEF y
  <1>6. HistoryOK'
    BY HistoryKept DEF FamilyOK, History
  <1> QED
    BY <1>4, <1>5, <1>6, SettledFits, OnlyMoves DEF History

LEMMA FillTypes ==
    ASSUME FamilyOK, NEW q \in Requests, Fill(q) PROVE FamilyOK'
  <1> DEFINE x == req[q]
  <1>1. x \in Work /\ InHand(x) /\ x.at = "fill"
    BY DEF FamilyOK, ReqOK, Fill
  <1>2. PICK P \in Page({t \in ListBlank : MerchantOf[t] \in x.for}) :
          Become(q, Settled([x EXCEPT !.at = "queue", !.left = P]))
    BY DEF Fill
  <1>3. P \subseteq Txns
    BY PageOf DEF ListBlank
  <1> DEFINE y == [x EXCEPT !.at = "queue", !.left = P]
  <1>4. y \in Work /\ InHand(y)
    BY <1>1, <1>3 DEF Work, InHand
  <1>5. Become(q, Settled(y))
    BY <1>2
  <1> HIDE DEF y
  <1>6. HistoryOK'
    BY HistoryKept DEF FamilyOK, Fill
  <1> QED
    BY <1>4, <1>5, <1>6, SettledFits, OnlyMoves DEF Fill


LEMMA FailTypes ==
    ASSUME FamilyOK, NEW q \in Requests, Fail(q) PROVE FamilyOK'
  <1> DEFINE x == req[q]
  <1>1. x \in Work /\ InHand(x) /\ x.at \in {"write", "queue"}
    BY DEF Except, FamilyOK, ReqOK, Fail
  <1>2. PICK t \in IF x.at = "write" THEN {x.txn} ELSE x.left :
          /\ Except({t} \cap {u \in Txns : Catches(x, u)})
          /\ Become(q, IF x.at = "queue" THEN Settled([x EXCEPT !.left = @ \ {t}])
                       ELSE IF x.then = "load" THEN Onward(x) ELSE Idle)
    BY DEF Fail
  <1>3. t \in Txns
    BY <1>1, <1>2 DEF Work, InHand
  <1>4. HistoryOK'
    <2>1. faults \in Nat /\ faults + 1 <= MaxFaults
      BY LabelsAssumption DEF Except, FamilyOK, HistoryOK, Fail
    <2> QED
      BY <1>2, <1>3, <2>1, LabelsAssumption DEF Except, FamilyOK, HistoryOK, Fail
  <1> DEFINE y == [x EXCEPT !.left = @ \ {t}]
  <1>5. y \in Work /\ (x.at = "queue" => InHand(y))
    BY <1>1 DEF Work, InHand
  <1>6. Become(q, IF x.at = "queue" THEN Settled(y)
                  ELSE IF x.then = "load" THEN Onward(x) ELSE Idle)
    BY <1>2
  <1> HIDE DEF y
  <1>7. CASE x.at = "queue"
    BY <1>4, <1>5, <1>6, <1>7, SettledFits, OnlyMoves DEF Except, Fail
  <1>8. CASE x.at # "queue" /\ x.then = "load"
    BY <1>1, <1>4, <1>6, <1>8, OnwardFits, OnlyMoves DEF Except, Fail
  <1>9. CASE x.at # "queue" /\ x.then # "load"
    BY <1>4, <1>6, <1>9, IdleFits, OnlyMoves DEF Except, Fail
  <1> QED
    BY <1>7, <1>8, <1>9

LEMMA LoadTypes ==
    ASSUME FamilyOK, NEW q \in Requests, Load(q) PROVE FamilyOK'
  <1>1. req[q] \in Work /\ InHand(req[q]) /\ req[q].at = "load"
    BY DEF FamilyOK, ReqOK, Load
  <1>2. PICK t \in req[q].left :
          LET x == [req[q] EXCEPT !.left = @ \ {t}] IN
          Become(q, IF note[t] = Blank THEN [x EXCEPT !.at = "decide", !.txn = t]
                    ELSE Onward(x))
    BY DEF Load
  <1> DEFINE x == [req[q] EXCEPT !.left = @ \ {t}]
             y == [x EXCEPT !.at = "decide", !.txn = t]
  <1>3. t \in Txns /\ x \in Work /\ InHand(x) /\ x.at = "load" /\ x.then = "load"
    BY <1>1, <1>2 DEF Work, InHand
  <1>4. Become(q, IF note[t] = Blank THEN y ELSE Onward(x))
    BY <1>2
  <1> HIDE DEF x
  <1>5. y \in Work /\ InHand(y)
    BY <1>3 DEF Work, InHand
  <1> HIDE DEF y
  <1>6. HistoryOK'
    BY HistoryKept DEF FamilyOK, Load
  <1>7. CASE note[t] = Blank
    BY <1>4, <1>5, <1>6, <1>7, OnlyMoves DEF Load
  <1>8. CASE note[t] # Blank
    BY <1>3, <1>4, <1>6, <1>8, OnwardFits, OnlyMoves DEF Load
  <1> QED
    BY <1>7, <1>8

LEMMA DecideTypes ==
    ASSUME FamilyOK, NEW q \in Requests, Decide(q) PROVE FamilyOK'
  <1> DEFINE x == req[q]
             c == IF RuleCat(x.txn) # None THEN RuleCat(x.txn) ELSE Habit(x.txn)
  <1>1. x \in Work /\ InHand(x) /\ x.at = "decide"
    BY DEF FamilyOK, ReqOK, Decide
  <1>2. x.txn \in Txns
    BY <1>1 DEF InHand
  <1>3. HistoryOK'
    BY HistoryKept DEF FamilyOK, Decide
  <1>4. \/ c # None /\ Become(q, [x EXCEPT !.at = "write", !.cat = c, !.note = cat[c].name])
        \/ \E d \in Cats : Selectable(d) /\
             Become(q, [x EXCEPT !.at = "answer", !.note = cat[d].name])
        \/ Become(q, Onward(x))
    BY DEF Decide
  <1>5. c # None => c \in Cats /\ Here(c)
    BY <1>2, RuleCatExists, HabitExists
  <1> HIDE DEF c
  <1>6. CASE c # None /\ Become(q, [x EXCEPT !.at = "write", !.cat = c, !.note = cat[c].name])
    <2> DEFINE y == [x EXCEPT !.at = "write", !.cat = c, !.note = cat[c].name]
    <2>1. c \in Cats /\ cat[c].name \in Names /\ cat[c].at # "new"
      BY <1>5, <1>6 DEF FamilyOK, CatOK, Here
    <2>2. y \in Work
      BY <1>1, <2>1 DEF Work, Notes
    <2>3. InHand(y)
      BY <1>1, <1>2, <2>1 DEF Work, InHand
    <2>4. Become(q, y)
      BY <1>6
    <2> HIDE DEF y
    <2> QED
      BY <1>3, <2>2, <2>3, <2>4, OnlyMoves DEF Decide
  <1>7. ASSUME NEW d \in Cats, Selectable(d),
               Become(q, [x EXCEPT !.at = "answer", !.note = cat[d].name])
        PROVE  FamilyOK'
    <2> DEFINE y == [x EXCEPT !.at = "answer", !.note = cat[d].name]
    <2>1. cat[d].name \in Names
      BY <1>7 DEF Selectable, FamilyOK, CatOK
    <2>2. y \in Work
      BY <1>1, <2>1 DEF Work, Notes
    <2>3. InHand(y)
      BY <1>1, <1>2, <2>1 DEF Work, InHand
    <2>4. Become(q, y)
      BY <1>7
    <2> HIDE DEF y
    <2> QED
      BY <1>3, <2>2, <2>3, <2>4, OnlyMoves DEF Decide
  <1>8. CASE Become(q, Onward(x))
    <2>1. x.then = "load"
      BY <1>1 DEF InHand
    <2> QED
      BY <1>1, <1>3, <1>8, <2>1, OnwardFits, OnlyMoves DEF Decide
  <1> QED
    BY <1>4, <1>6, <1>7, <1>8

LEMMA AnswerTypes ==
    ASSUME FamilyOK, NEW q \in Requests, Answer(q) PROVE FamilyOK'
  <1> DEFINE x == req[q]
             c == Named(x.note)
             y == [x EXCEPT !.at = "write", !.cat = c]
  <1>1. x \in Work /\ InHand(x) /\ x.at = "answer"
    BY DEF FamilyOK, ReqOK, Answer
  <1>2. HistoryOK'
    BY HistoryKept DEF FamilyOK, Answer
  <1>3. Become(q, IF c # None /\ c \notin System THEN y ELSE Onward(x))
    BY DEF Answer
  <1>4. c # None => c \in Cats /\ cat[c].at # "new"
    BY NamedType DEF Here
  <1> HIDE DEF c
  <1>5. CASE c # None /\ c \notin System
    <2>1. y \in Work
      BY <1>1, <1>4, <1>5 DEF Work
    <2>2. InHand(y)
      <3>1. /\ x.txn \in Txns /\ x.note \in Names \cup {Blank} /\ x.then \in {"idle", "gather", "load"}
        BY <1>1 DEF InHand, Work
      <3> QED
        BY <1>1, <1>4, <1>5, <3>1 DEF Work, InHand
    <2>3. Become(q, y)
      BY <1>3, <1>5
    <2> HIDE DEF y
    <2> QED
      BY <1>2, <2>1, <2>2, <2>3, OnlyMoves DEF Answer
  <1>6. CASE ~(c # None /\ c \notin System)
    <2>1. Become(q, Onward(x)) /\ x.then = "load"
      BY <1>1, <1>3, <1>6 DEF InHand
    <2> QED
      BY <1>1, <1>2, <2>1, OnwardFits, OnlyMoves DEF Answer
  <1> QED
    BY <1>5, <1>6


-----------------------------------------------------------------------------
(* Types: the tables.                                                      *)

LEMMA RenamedTypes ==
    ASSUME FamilyOK, NEW q \in Requests, Renamed(q) PROVE FamilyOK'
  <1> DEFINE x == req[q]
  <1>1. /\ x \in Work /\ InHand(x) /\ x.at = "rename"
        /\ x.cat \in Cats /\ x.note \in Names /\ x.old \in Names
    BY DEF Except, FamilyOK, ReqOK, Renamed, InHand
  <1>2. CASE ~(Here(x.cat) /\ Named(x.note) \in {None, x.cat})
    <2>1. Become(q, Idle) /\ UNCHANGED <<cat, excepted>>
      BY <1>2 DEF Except, Renamed
    <2>2. HistoryOK'
      BY <2>1, HistoryKept DEF Except, FamilyOK, Renamed
    <2> QED
      BY <2>1, <2>2, IdleFits, OnlyMoves DEF Except, Renamed
  <1>3. CASE Here(x.cat) /\ Named(x.note) \in {None, x.cat}
    <2>1. PICK e \in BOOLEAN :
            cat' = [cat EXCEPT ![x.cat] = [@ EXCEPT !.name = x.note, !.excluded = e]]
      BY <1>3 DEF Except, Renamed
    <2> DEFINE n == [cat[x.cat] EXCEPT !.name = x.note, !.excluded = e]
    <2>2. cat[x.cat] \in Cat /\ cat[x.cat].at = "here"
      BY <1>1, <1>3 DEF FamilyOK, CatOK, Here
    <2>3. n \in Cat /\ n.at = "here" /\ n.name \in Names
      BY <1>1, <2>2 DEF Cat
    <2>4. cat' = [cat EXCEPT ![x.cat] = n]
      BY <2>1
    <2> HIDE DEF n
    <2>5. \A c \in Cats : cat'[c].at = cat[c].at
      BY <1>1, <2>2, <2>3, <2>4 DEF FamilyOK, CatOK
    <2>6. CatOK'
      BY <1>1, <2>3, <2>4, <2>5, LabelsAssumption DEF FamilyOK, CatOK, Here
    <2>7. Aged
      BY <2>5 DEF Aged
    <2>8. ReqOK'
      <3> DEFINE y == [x EXCEPT !.at = "carry"]
      <3>1. y \in Work /\ InHand(y)
        BY <1>1 DEF Work, InHand
      <3>2. Become(q, IF x.old = x.note THEN Idle ELSE y)
        BY <1>3 DEF Except, Renamed
      <3> HIDE DEF y
      <3> QED
        BY <2>7, <3>1, <3>2, IdleFits, ReqMoves DEF FamilyOK
    <2>9. RuleOK' /\ FiledOK'
      <3>1. RuleOK'
        BY <2>5 DEF Except, FamilyOK, RuleOK, Renamed
      <3>2. FiledOK'
        BY <2>5 DEF Except, FamilyOK, FiledOK, Renamed
      <3> QED
        BY <3>1, <3>2
    <2>10. HistoryOK'
      BY <1>3 DEF Except, FamilyOK, HistoryOK, Renamed
    <2>11. SeriesOK' /\ NoteOK'
      BY SeriesKept, NoteKept DEF Except, FamilyOK, Renamed
    <2> QED
      BY <2>6, <2>8, <2>9, <2>10, <2>11 DEF FamilyOK
  <1> QED
    BY <1>2, <1>3

LEMMA DeletedTypes ==
    ASSUME FamilyOK, NEW q \in Requests, Deleted(q) PROVE FamilyOK'
  <1> DEFINE c == req[q].cat
             n == [cat[c] EXCEPT !.at = "gone", !.name = None]
  <1>1. c \in Cats /\ c \notin System
    BY DEF FamilyOK, ReqOK, Deleted, InHand
  <1>2. n \in Cat /\ n.at = "gone"
    BY <1>1 DEF FamilyOK, CatOK, Cat
  <1>3. /\ cat' = [cat EXCEPT ![c] = n]
        /\ rule' = [r \in Rules |-> IF rule[r].cat = c
                      THEN [rule[r] EXCEPT !.here = FALSE, !.cat = None] ELSE rule[r]]
        /\ series' = [m \in Merchants |-> IF series[m] = c THEN None ELSE series[m]]
        /\ Become(q, Idle)
    BY DEF Deleted
  <1> HIDE DEF n, c
  <1>4. \A d \in Cats : cat'[d] = IF d = c THEN n ELSE cat[d]
    BY <1>3 DEF FamilyOK, CatOK
  <1>5. CatOK'
    BY <1>1, <1>2, <1>3, <1>4, LabelsAssumption DEF FamilyOK, CatOK, Here
  <1>6. ReqOK'
    BY <1>2, <1>3, <1>4, IdleFits, ReqMoves DEF FamilyOK, Aged
  <1>7. RuleOK'
    <2>1. ASSUME NEW r \in Rules
          PROVE  /\ rule'[r] \in Rule
                 /\ rule'[r].here => rule[r].cat # c /\ rule'[r] = rule[r]
      <3>1. rule[r] \in Rule /\ [rule[r] EXCEPT !.here = FALSE, !.cat = None] \in Rule
        BY DEF FamilyOK, RuleOK, Rule
      <3> QED
        BY <1>3, <3>1 DEF Rule
    <2>2. rule' \in [Rules -> Rule]
      BY <1>3, <2>1
    <2> QED
      BY <1>4, <2>1, <2>2 DEF FamilyOK, RuleOK
  <1>8. SeriesOK'
    BY <1>3 DEF FamilyOK, SeriesOK, Deleted
  <1>9. FiledOK'
    BY <1>2, <1>4 DEF FamilyOK, FiledOK, Deleted
  <1>10. NoteOK' /\ HistoryOK'
    BY NoteKept, HistoryKept DEF FamilyOK, Deleted
  <1> QED
    BY <1>5, <1>6, <1>7, <1>8, <1>9, <1>10 DEF FamilyOK

LEMMA CreateTypes ==
    ASSUME FamilyOK, NEW c \in Cats, NEW n \in Names, Create(c, n) PROVE FamilyOK'
  <1> DEFINE x == [at |-> "here", name |-> n, excluded |-> FALSE]
  <1>1. x \in Cat /\ x.at = "here" /\ x.name = n
    BY DEF Cat
  <1>2. cat' = [cat EXCEPT ![c] = x] /\ cat[c].at = "new"
    BY DEF Create
  <1> HIDE DEF x
  <1>3. \A d \in Cats : cat'[d] = IF d = c THEN x ELSE cat[d]
    BY <1>2 DEF FamilyOK, CatOK
  <1>4. CatOK'
    BY <1>1, <1>2, <1>3, LabelsAssumption DEF FamilyOK, CatOK, Here
  <1>5. Aged
    BY <1>1, <1>3 DEF Aged
  <1>6. ReqOK'
    <2>1. \A q \in Requests : req[q] \in Work /\ InHand(req[q])
      BY DEF FamilyOK, ReqOK
    <2>2. \A q \in Requests : req[q].cat # None => cat'[req[q].cat].at # "new"
      BY <1>5, <2>1 DEF Aged, InHand, Work
    <2> QED
      BY <2>1, <2>2 DEF FamilyOK, ReqOK, InHand, Create
  <1>7. RuleOK'
    BY <1>1, <1>3 DEF FamilyOK, RuleOK, Create
  <1>8. FiledOK'
    BY <1>5 DEF FamilyOK, FiledOK, Create, Aged
  <1>9. SeriesOK' /\ NoteOK' /\ HistoryOK'
    BY SeriesKept, NoteKept, HistoryKept DEF FamilyOK, Create
  <1> QED
    BY <1>4, <1>6, <1>7, <1>8, <1>9 DEF FamilyOK

LEMMA ChangeRuleTypes ==
    ASSUME FamilyOK, NEW r \in Rules, NEW c \in Cats, NEW ms \in SUBSET Merchants,
           NEW on \in BOOLEAN, ChangeRule(r, c, ms, on)
    PROVE  FamilyOK'
  <1>1. RuleOK'
    BY DEF FamilyOK, RuleOK, Rule, ChangeRule, Here
  <1>2. ReqOK' /\ CatOK' /\ SeriesOK' /\ NoteOK' /\ FiledOK' /\ HistoryOK'
    BY ReqKept, CatKept, SeriesKept, NoteKept, FiledKept, HistoryKept DEF FamilyOK, ChangeRule
  <1> QED
    BY <1>1, <1>2 DEF FamilyOK

LEMMA RemoveRuleTypes ==
    ASSUME FamilyOK, NEW r \in Rules, RemoveRule(r) PROVE FamilyOK'
  <1>1. RuleOK'
    <2> DEFINE x == [rule[r] EXCEPT !.here = FALSE, !.cat = None]
    <2>1. x \in Rule /\ ~x.here
      BY DEF FamilyOK, RuleOK, Rule
    <2>2. rule' = [rule EXCEPT ![r] = x]
      BY DEF RemoveRule
    <2> HIDE DEF x
    <2> QED
      BY <2>1, <2>2 DEF FamilyOK, RuleOK, RemoveRule
  <1>2. ReqOK' /\ CatOK' /\ SeriesOK' /\ NoteOK' /\ FiledOK' /\ HistoryOK'
    BY ReqKept, CatKept, SeriesKept, NoteKept, FiledKept, HistoryKept DEF FamilyOK, RemoveRule
  <1> QED
    BY <1>1, <1>2 DEF FamilyOK

LEMMA SeriesTypes ==
    ASSUME FamilyOK, NEW m \in Merchants, Unlabel(m) \/ Restore(m) PROVE FamilyOK'
  <1>1. SeriesOK'
    BY DEF FamilyOK, SeriesOK, Unlabel, Restore
  <1>2. UNCHANGED <<note, job, cat, rule, req, filed, excepted, faults>>
    BY DEF Unlabel, Restore
  <1>3. ReqOK' /\ CatOK' /\ RuleOK' /\ NoteOK' /\ FiledOK' /\ HistoryOK'
    BY <1>2, ReqKept, CatKept, RuleKept, NoteKept, FiledKept, HistoryKept DEF FamilyOK
  <1> QED
    BY <1>1, <1>3 DEF FamilyOK

\* The steps of a label and of a dismissal.
LEMMA LabellingTypes ==
    ASSUME FamilyOK, NEW q \in Requests,
           Labelled(q) \/ Undismiss(q) \/ TakeLabel(q) \/ Dismissed(q)
    PROVE  FamilyOK'
  <1> DEFINE x == req[q]
  <1>1. x \in Work /\ InHand(x) /\ x.for \subseteq Merchants
    BY DEF FamilyOK, ReqOK, Work
  <1>2. UNCHANGED <<note, job, cat, rule, filed>>
    BY DEF Except, Labelled, Undismiss, TakeLabel, Dismissed
  <1>3. /\ x.at = "label" => x.cat \in System
        /\ Labelled(q) => x.at = "label"
        /\ Undismiss(q) => x.at = "undismiss"
        /\ TakeLabel(q) => x.at = "unlabel"
    BY <1>1 DEF Except, InHand, Labelled, Undismiss, TakeLabel
  <1>4. SeriesOK'
    <2>1. CASE Labelled(q)
      BY <1>3, <2>1 DEF FamilyOK, SeriesOK, Labelled
    <2>2. CASE Undismiss(q)
      BY <2>2 DEF Except, FamilyOK, SeriesOK, Undismiss
    <2>3. CASE TakeLabel(q)
      BY <2>3 DEF Except, FamilyOK, SeriesOK, TakeLabel
    <2>4. CASE Dismissed(q)
      BY <2>4 DEF FamilyOK, SeriesOK, Dismissed
    <2> QED
      BY <2>1, <2>2, <2>3, <2>4
  <1>5. HistoryOK'
    <2>1. faults \in Nat /\ faults \in 0..MaxFaults /\ excepted \in SUBSET (Txns \cup Merchants)
      BY LabelsAssumption DEF FamilyOK, HistoryOK
    <2>2. \/ faults' = faults
          \/ faults < MaxFaults /\ faults' = faults + 1
      BY DEF Except, Labelled, Undismiss, TakeLabel, Dismissed
    <2>3. excepted' = excepted \/ excepted' = excepted \cup x.for
      BY DEF Except, Labelled, Undismiss, TakeLabel, Dismissed
    <2>4. faults' \in 0..MaxFaults
      BY <2>1, <2>2, LabelsAssumption
    <2> QED
      BY <1>1, <2>1, <2>3, <2>4 DEF HistoryOK
  <1>6. ReqOK'
    <2>1. \A p \in {"undismiss", "fill"} :
            x.at \in {"label", "undismiss"} =>
              [x EXCEPT !.at = p] \in Work /\ InHand([x EXCEPT !.at = p])
      BY <1>1 DEF Work, InHand
    <2>2. x.at = "unlabel" =>
            [x EXCEPT !.at = "dismiss"] \in Work /\ InHand([x EXCEPT !.at = "dismiss"])
      BY <1>1 DEF Work, InHand
    <2>3. \/ \E p \in {"undismiss", "fill"} :
               x.at \in {"label", "undismiss"} /\ Become(q, [x EXCEPT !.at = p])
          \/ x.at = "unlabel" /\ Become(q, [x EXCEPT !.at = "dismiss"])
          \/ Become(q, Idle)
      BY DEF Except, Labelled, Undismiss, TakeLabel, Dismissed
    <2>4. Aged
      BY <1>2 DEF Aged
    <2> QED
      BY <2>1, <2>2, <2>3, <2>4, IdleFits, ReqMoves DEF FamilyOK
  <1>7. CatOK' /\ RuleOK' /\ NoteOK' /\ FiledOK'
    BY <1>2, CatKept, RuleKept, NoteKept, FiledKept DEF FamilyOK
  <1> QED
    BY <1>4, <1>5, <1>6, <1>7 DEF FamilyOK

\* A request that ends where it is.
LEMMA EndsTypes ==
    ASSUME FamilyOK, NEW q \in Requests, Ends(q) PROVE FamilyOK'
  <1>1. req[q].for \subseteq Merchants
    BY DEF FamilyOK, ReqOK, Work
  <1>2. HistoryOK'
    BY <1>1, LabelsAssumption DEF FamilyOK, HistoryOK, Ends, Except, HalfDone
  <1> QED
    BY <1>2, IdleFits, OnlyMoves DEF Ends

LEMMA QueueStepTypes ==
    ASSUME FamilyOK, NEW t \in Txns, Perform(t) \/ Abandon(t) PROVE FamilyOK'
  <1>1. NoteOK'
    <2>1. job[t].note \in Names \cup {Blank} /\ NoJob \in Job
      BY DEF Except, FamilyOK, NoteOK, Perform, Abandon, NoJob, Job
    <2>2. job' = [job EXCEPT ![t] = NoJob]
      BY DEF Except, Perform, Abandon
    <2>3. note' = [note EXCEPT ![t] = job[t].note] \/ note' = note
      BY DEF Except, Perform, Abandon
    <2>4. note' \in [Txns -> Notes]
      BY <2>1, <2>3 DEF FamilyOK, NoteOK, Notes
    <2> QED
      BY <2>1, <2>2, <2>4 DEF FamilyOK, NoteOK
  <1>2. HistoryOK'
    BY LabelsAssumption DEF Except, FamilyOK, HistoryOK, Perform, Abandon
  <1>3. UNCHANGED <<cat, rule, series, dismissed, req, filed>>
    BY DEF Except, Perform, Abandon
  <1>4. ReqOK' /\ CatOK' /\ RuleOK' /\ SeriesOK' /\ FiledOK'
    BY <1>3, ReqKept, CatKept, RuleKept, SeriesKept, FiledKept DEF FamilyOK
  <1> QED
    BY <1>1, <1>2, <1>4 DEF FamilyOK

LEMMA EditTypes ==
    ASSUME FamilyOK, NEW t \in Txns, NEW n \in Notes, Edit(t, n) PROVE FamilyOK'
  <1>1. NoteOK'
    BY DEF FamilyOK, NoteOK, Edit
  <1>2. FiledOK'
    <2>1. Named(n) # None => Named(n) \in Cats /\ cat[Named(n)].at # "new"
      BY NamedType DEF Here
    <2> QED
      BY <2>1 DEF FamilyOK, FiledOK, Edit
  <1>3. HistoryOK'
    BY DEF Except, FamilyOK, HistoryOK, Edit
  <1>4. ReqOK' /\ CatOK' /\ RuleOK' /\ SeriesOK'
    BY ReqKept, CatKept, RuleKept, SeriesKept DEF FamilyOK, Edit
  <1> QED
    BY <1>1, <1>2, <1>3, <1>4 DEF FamilyOK

LEMMA FamilyKept == FamilyOK /\ [Next]_vars => FamilyOK'
  <1> SUFFICES ASSUME FamilyOK, [Next]_vars PROVE FamilyOK'
    OBVIOUS
  <1>1. CASE UNCHANGED vars
    BY <1>1, ReqKept, CatKept, RuleKept, SeriesKept, NoteKept, FiledKept, HistoryKept
    DEF FamilyOK, vars
  <1>2. ASSUME NEW q \in Requests, Works(q) PROVE FamilyOK'
    BY <1>2, RenamedTypes, CarryTypes, DeletedTypes, QueueTypes, WriteTypes, GatherTypes,
       FailTypes, HistoryTypes, LoadTypes, DecideTypes, AnswerTypes, LabellingTypes, FillTypes,
       EndsTypes
    DEF Works
  <1> QED
    BY <1>1, <1>2, AskedTypes, CreateTypes, ChangeRuleTypes, RemoveRuleTypes, SeriesTypes,
       QueueStepTypes, EditTypes
    DEF Next

\* In every reachable state the variables have their types, every rule's category
\* exists (the foreign key), and requests are as RowsHold says.
THEOREM LabelsTypes == Spec => []TypeOK
  <1>1. Spec => []FamilyOK
    BY InitFamily, FamilyKept, PTL DEF Spec
  <1>2. FamilyOK => TypeOK
    BY FamilyByParts
  <1> QED
    BY <1>1, <1>2, PTL


-----------------------------------------------------------------------------
(* Remarks.                                                                *)

\* RemarksInv, of one transaction.
RemarkOK(t) ==
    note[t] = Remark /\ t \notin excepted =>
        /\ job[t] # NoJob => job[t].own
        /\ \A q \in Requests : ~Aims(req[q], t)

\* A remark is neither a category's name nor blank.
LEMMA RemarkIsApart == Remark \notin Names \cup {Blank} /\ ~(Remark = Blank)
  BY LabelsAssumption

\* A step that neither writes, edits nor queues a note and takes no new aim at a
\* remark.
LEMMA NoNewAims ==
    ASSUME FamilyOK, RemarksInv, UNCHANGED <<note, job>>,
           \A t \in Txns : t \in excepted => t \in excepted',
           \A t \in Txns, q \in Requests :
             Aims(req'[q], t) => Aims(req[q], t) \/ note[t] # Remark
    PROVE  RemarksInv'
  <1> SUFFICES ASSUME NEW t \in Txns PROVE RemarkOK(t)'
    BY DEF RemarksInv, RemarkOK
  <1>1. RemarkOK(t)
    BY DEF RemarksInv, RemarkOK
  <1> QED
    BY <1>1 DEF RemarkOK

\* One request moves on.
LEMMA AimsMove ==
    ASSUME FamilyOK, RemarksInv, UNCHANGED <<note, job>>,
           NEW q \in Requests, NEW x, Become(q, x),
           \A t \in Txns : t \in excepted => t \in excepted',
           \A t \in Txns : Aims(x, t) => Aims(req[q], t) \/ note[t] # Remark
    PROVE  RemarksInv'
  <1>1. \A p \in Requests : req'[p] = IF p = q THEN x ELSE req[p]
    BY DEF Become, FamilyOK, ReqOK
  <1>2. ASSUME NEW t \in Txns, NEW p \in Requests, Aims(req'[p], t)
        PROVE  Aims(req[p], t) \/ note[t] # Remark
    <2>1. CASE p = q
      <3>1. req'[p] = x
        BY <1>1, <2>1
      <3> QED
        BY <1>2, <2>1, <3>1
    <2>2. CASE p # q
      <3>1. req'[p] = req[p]
        BY <1>1, <2>2
      <3> QED
        BY <1>2, <3>1
    <2> QED
      BY <2>1, <2>2
  <1> QED
    BY <1>2, NoNewAims

\* Requests that write nothing next aim at nothing.
LEMMA Aimless ==
    ASSUME NEW x, NEW t, x.at \notin {"queue", "decide", "answer"},
           x.at = "write" => x.then # "load"
    PROVE  ~Aims(x, t)
  BY DEF Aims

LEMMA SettledAims ==
    ASSUME NEW x, NEW t, Aims(Settled(x), t) PROVE Aims(x, t)
  BY DEF Aims, Settled, Idle

LEMMA OnwardAims ==
    ASSUME NEW x \in Work, NEW t PROVE ~Aims(Onward(x), t)
  <1> DEFINE y == [x EXCEPT !.at = "load", !.txn = None, !.cat = None, !.note = None]
  <1>1. y.at = "load"
    BY DEF Work
  <1>2. Onward(x) = Settled(y)
    BY DEF Onward
  <1> HIDE DEF y
  <1> QED
    BY <1>1, <1>2, SettledAims, Aimless

LEMMA AfterAims ==
    ASSUME NEW x \in Work, NEW t PROVE ~Aims(After(x), t)
  <1>1. CASE x.then = "gather"
    <2>1. After(x) = [x EXCEPT !.at = "gather"] /\ After(x).at = "gather"
      BY <1>1 DEF After, Work
    <2> QED
      BY <2>1, Aimless
  <1>2. CASE x.then = "load"
    BY <1>2, OnwardAims DEF After
  <1>3. CASE x.then \notin {"gather", "load"}
    <2>1. After(x) = Idle /\ Idle.at = "idle"
      BY <1>3 DEF After, Idle
    <2> QED
      BY <2>1, Aimless
  <1> QED
    BY <1>1, <1>2, <1>3

\* Merchants that are crossed take no transaction off the list.
LEMMA CrossedKeeps ==
    ASSUME NEW m, Crossed(m) PROVE \A t \in Txns : t \in excepted => t \in excepted'
  BY DEF Except, Crossed

LEMMA AskedRemarks ==
    ASSUME FamilyOK, RemarksInv, NEW q \in Requests, Asked(q) PROVE RemarksInv'
  <1>1. ASSUME NEW x, Become(q, x), UNCHANGED <<note, job>>,
               \A t \in Txns : t \in excepted => t \in excepted',
               x.at \notin {"queue", "decide", "answer"}, x.at = "write" => x.then # "load"
        PROVE  RemarksInv'
    BY <1>1, Aimless, AimsMove
  <1>2. ASSUME NEW c \in Cats, NEW n \in Names, Rename(q, c, n) PROVE RemarksInv'
    <2> DEFINE x == [Idle EXCEPT !.at = "rename", !.cat = c, !.note = n, !.old = cat[c].name]
    <2>1. x.at = "rename"
      BY DEF Idle
    <2>2. Become(q, x) /\ UNCHANGED <<note, job, excepted>>
      BY <1>2 DEF Rename
    <2> HIDE DEF x
    <2> QED
      BY <1>1, <2>1, <2>2
  <1>3. ASSUME NEW c \in Cats, Delete(q, c) PROVE RemarksInv'
    <2> DEFINE x == [Idle EXCEPT !.at = "delete", !.cat = c]
    <2>1. x.at = "delete"
      BY DEF Idle
    <2>2. Become(q, x) /\ UNCHANGED <<note, job, excepted>>
      BY <1>3 DEF Delete
    <2> HIDE DEF x
    <2> QED
      BY <1>1, <2>1, <2>2
  <1>4. ASSUME NEW t \in Txns, NEW c \in Cats \cup {None}, NEW apply \in BOOLEAN,
               NEW all \in BOOLEAN, Choose(q, t, c, apply, all)
        PROVE  RemarksInv'
    <2> DEFINE x == [Idle EXCEPT !.at = "write", !.txn = t, !.cat = c,
                       !.note = IF c = None THEN Blank ELSE cat[c].name, !.all = all,
                       !.then = IF apply /\ c # None THEN "gather" ELSE "idle"]
    <2>1. x.at = "write" /\ x.then # "load"
      BY DEF Idle
    <2>2. Become(q, x) /\ UNCHANGED <<note, job, excepted>>
      BY <1>4 DEF Choose
    <2> HIDE DEF x
    <2> QED
      BY <1>1, <2>1, <2>2
  <1>5. ASSUME NEW r \in Rules, NEW c \in Cats, NEW ms \in SUBSET Merchants,
               NEW apply \in BOOLEAN, NEW all \in BOOLEAN, AddRule(q, r, c, ms, apply, all)
        PROVE  RemarksInv'
    <2> DEFINE x == IF apply THEN [Idle EXCEPT !.at = "history", !.cat = c,
                                      !.note = cat[c].name, !.for = ms, !.all = all]
                    ELSE Idle
    <2>1. x.at \in {"history", "idle"}
      BY DEF Idle
    <2>2. Become(q, x) /\ UNCHANGED <<note, job, excepted>>
      BY <1>5 DEF AddRule
    <2> HIDE DEF x
    <2> QED
      BY <1>1, <2>1, <2>2
  <1>6. ASSUME NEW S, Begin(q, S) PROVE RemarksInv'
    <2> DEFINE x == [Idle EXCEPT !.at = "load", !.then = "load", !.left = S]
    <2>1. x.at = "load"
      BY DEF Idle
    <2>2. Become(q, x) /\ UNCHANGED <<note, job, excepted>>
      BY <1>6 DEF Begin
    <2> HIDE DEF x
    <2> QED
      BY <1>1, <2>1, <2>2
  <1>7. ASSUME NEW m \in Merchants, NEW c \in System, Label(q, m, c) PROVE RemarksInv'
    <2> DEFINE x == [Idle EXCEPT !.at = "label", !.cat = c, !.note = cat[c].name,
                       !.for = {m}, !.all = dismissed[m]]
    <2>1. x.at = "label"
      BY DEF Idle
    <2>2. Become(q, x) /\ UNCHANGED <<note, job>> /\ Crossed(m)
      BY <1>7 DEF Label
    <2> HIDE DEF x
    <2> QED
      BY <1>1, <2>1, <2>2, CrossedKeeps
  <1>8. ASSUME NEW m \in Merchants, Dismiss(q, m) PROVE RemarksInv'
    <2> DEFINE x == [Idle EXCEPT !.at = "unlabel", !.for = {m}]
    <2>1. x.at = "unlabel"
      BY DEF Idle
    <2>2. Become(q, x) /\ UNCHANGED <<note, job>> /\ Crossed(m)
      BY <1>8 DEF Dismiss
    <2> HIDE DEF x
    <2> QED
      BY <1>1, <2>1, <2>2, CrossedKeeps
  <1> QED
    BY <1>2, <1>3, <1>4, <1>5, <1>6, <1>7, <1>8 DEF Asked, Process, Reassess

\* Lists leave out what the loop leaves out, a remark among it.
LEMMA RemarkIsKept == ASSUME FamilyOK, NEW t, note[t] = Remark PROVE ~Replaceable(t)
  BY RemarkNamesNothing, RemarkIsApart DEF Replaceable, FamilyOK

LEMMA ListsRemarks ==
    ASSUME FamilyOK, RemarksInv, NEW q \in Requests,
           Carry(q) \/ Gather(q) \/ History(q) \/ Fill(q)
    PROVE  RemarksInv'
  <1> DEFINE x == req[q]
  <1>1. x \in Work /\ InHand(x)
    BY DEF FamilyOK, ReqOK
  <1>2. ASSUME NEW y, Become(q, Settled(y)), UNCHANGED <<note, job>>,
               \A t \in Txns : t \in excepted => t \in excepted',
               y.at \in {"queue", "load"}, \A t \in y.left : note[t] # Remark
        PROVE  RemarksInv'
    <2>1. ASSUME NEW t \in Txns, Aims(Settled(y), t) PROVE note[t] # Remark
      <3>1. Aims(y, t)
        BY <2>1, SettledAims
      <3> QED
        BY <1>2, <3>1 DEF Aims
    <2> QED
      BY <1>2, <2>1, AimsMove
  <1>3. CASE Carry(q)
    <2>1. x.old \in Names
      BY <1>1, <1>3 DEF Carry, InHand
    <2>2. PICK P \in Page(Carried(x)) :
            /\ Become(q, Settled([x EXCEPT !.at = "queue", !.left = P]))
            /\ Except(Missed(x, P))
      BY <1>3 DEF Carry
    <2> DEFINE y == [x EXCEPT !.at = "queue", !.left = P]
    <2>3. y.at = "queue" /\ y.left = P
      BY <1>1 DEF Work
    <2>4. \A t \in P : note[t] # Remark
      BY <2>1, PageOf, RemarkIsApart DEF Carried
    <2>5. Become(q, Settled(y)) /\ UNCHANGED <<note, job>>
      BY <1>3, <2>2 DEF Carry
    <2> HIDE DEF y
    <2> QED
      BY <1>2, <2>2, <2>3, <2>4, <2>5 DEF Except
  <1>4. CASE Gather(q)
    <2> DEFINE m == MerchantOf[x.txn]
               L(P) == {t \in P \ {x.txn} : Replaceable(t) /\ note[t] # x.note}
    <2>1. PICK P \in Page(IF x.all THEN Of(m) ELSE Of(m) \cap ListBlank) :
            Become(q, Settled([x EXCEPT !.at = "queue", !.txn = None, !.left = L(P)]))
      BY <1>4 DEF Gather
    <2> DEFINE y == [x EXCEPT !.at = "queue", !.txn = None, !.left = L(P)]
    <2>2. y.at = "queue" /\ y.left = L(P)
      BY <1>1 DEF Work
    <2>3. \A t \in L(P) : note[t] # Remark
      BY RemarkIsKept
    <2>4. Become(q, Settled(y)) /\ UNCHANGED <<note, job, excepted>>
      BY <1>4, <2>1 DEF Gather
    <2> HIDE DEF y, L
    <2> QED
      BY <1>2, <2>2, <2>3, <2>4
  <1>5. CASE History(q)
    <2> DEFINE L(P) == {t \in P : /\ Replaceable(t) /\ note[t] # x.note
                                  /\ MerchantOf[t] \in x.for}
    <2>1. PICK P \in Page(IF x.all THEN Txns ELSE ListBlank) :
            Become(q, Settled([x EXCEPT !.at = IF x.all THEN "queue" ELSE "load",
                                        !.left = L(P), !.then = "load"]))
      BY <1>5 DEF History
    <2> DEFINE y == [x EXCEPT !.at = IF x.all THEN "queue" ELSE "load",
                              !.left = L(P), !.then = "load"]
    <2>2. y.at \in {"queue", "load"} /\ y.left = L(P)
      BY <1>1 DEF Work
    <2>3. \A t \in L(P) : note[t] # Remark
      BY RemarkIsKept
    <2>4. Become(q, Settled(y)) /\ UNCHANGED <<note, job, excepted>>
      BY <1>5, <2>1 DEF History
    <2> HIDE DEF y, L
    <2> QED
      BY <1>2, <2>2, <2>3, <2>4
  <1>6. CASE Fill(q)
    <2>1. PICK P \in Page({t \in ListBlank : MerchantOf[t] \in x.for}) :
            Become(q, Settled([x EXCEPT !.at = "queue", !.left = P]))
      BY <1>6 DEF Fill
    <2> DEFINE y == [x EXCEPT !.at = "queue", !.left = P]
    <2>2. y.at = "queue" /\ y.left = P
      BY <1>1 DEF Work
    <2>3. \A t \in P : note[t] # Remark
      BY PageOf, RemarkIsApart DEF ListBlank
    <2>4. Become(q, Settled(y)) /\ UNCHANGED <<note, job, excepted>>
      BY <1>6, <2>1 DEF Fill
    <2> HIDE DEF y
    <2> QED
      BY <1>2, <2>2, <2>3, <2>4
  <1> QED
    BY <1>3, <1>4, <1>5, <1>6


LEMMA RunsRemarks ==
    ASSUME FamilyOK, RemarksInv, NEW q \in Requests,
           Load(q) \/ Decide(q) \/ Answer(q) \/ Fail(q)
    PROVE  RemarksInv'
  <1> DEFINE x == req[q]
  <1>1. x \in Work /\ UNCHANGED <<note, job>> /\ \A t \in Txns : t \in excepted => t \in excepted'
    BY DEF Except, FamilyOK, ReqOK, Load, Decide, Answer, Fail
  <1>2. CASE Become(q, Onward(x))
    BY <1>1, <1>2, OnwardAims, AimsMove
  <1>3. CASE Load(q)
    <2>1. PICK u \in x.left :
            LET y == [x EXCEPT !.left = @ \ {u}] IN
            Become(q, IF note[u] = Blank THEN [y EXCEPT !.at = "decide", !.txn = u]
                      ELSE Onward(y))
      BY <1>3 DEF Load
    <2> DEFINE y == [x EXCEPT !.left = @ \ {u}]
               z == [y EXCEPT !.at = "decide", !.txn = u]
    <2>2. y \in Work
      BY <1>1 DEF Work
    <2>3. z.at = "decide" /\ z.txn = u
      BY <1>1 DEF Work
    <2>4. Become(q, IF note[u] = Blank THEN z ELSE Onward(y))
      BY <2>1
    <2> HIDE DEF y, z
    <2>5. CASE note[u] = Blank
      <3>1. \A t \in Txns : Aims(z, t) => note[t] # Remark
        BY <2>3, <2>5, RemarkIsApart DEF Aims
      <3> QED
        BY <1>1, <2>4, <2>5, <3>1, AimsMove
    <2>6. CASE note[u] # Blank
      BY <1>1, <2>2, <2>4, <2>6, OnwardAims, AimsMove
    <2> QED
      BY <2>5, <2>6
  <1>4. ASSUME NEW y, Become(q, y), y.at \in {"write", "answer"}, y.txn = x.txn,
               x.at \in {"decide", "answer"}
        PROVE  RemarksInv'
    <2>1. ASSUME NEW t \in Txns, Aims(y, t) PROVE Aims(x, t)
      BY <1>4, <2>1 DEF Aims
    <2> QED
      BY <1>1, <1>4, <2>1, AimsMove
  <1>5. CASE Decide(q)
    <2>1. \/ \E c : Become(q, [x EXCEPT !.at = "write", !.cat = c, !.note = cat[c].name])
          \/ \E d \in Cats : Become(q, [x EXCEPT !.at = "answer", !.note = cat[d].name])
          \/ Become(q, Onward(x))
      BY <1>5 DEF Decide
    <2>2. x.at = "decide"
      BY <1>5 DEF Decide
    <2>3. ASSUME NEW c, Become(q, [x EXCEPT !.at = "write", !.cat = c, !.note = cat[c].name])
          PROVE  RemarksInv'
      <3> DEFINE y == [x EXCEPT !.at = "write", !.cat = c, !.note = cat[c].name]
      <3>1. y.at = "write" /\ y.txn = x.txn /\ Become(q, y)
        BY <1>1, <2>3 DEF Work
      <3> HIDE DEF y
      <3> QED
        BY <1>4, <2>2, <3>1
    <2>4. ASSUME NEW d, Become(q, [x EXCEPT !.at = "answer", !.note = cat[d].name])
          PROVE  RemarksInv'
      <3> DEFINE y == [x EXCEPT !.at = "answer", !.note = cat[d].name]
      <3>1. y.at = "answer" /\ y.txn = x.txn /\ Become(q, y)
        BY <1>1, <2>4 DEF Work
      <3> HIDE DEF y
      <3> QED
        BY <1>4, <2>2, <3>1
    <2> QED
      BY <1>2, <2>1, <2>3, <2>4
  <1>6. CASE Answer(q)
    <2> DEFINE y == [x EXCEPT !.at = "write", !.cat = Named(x.note)]
    <2>1. Become(q, y) \/ Become(q, Onward(x))
      BY <1>6 DEF Answer
    <2>2. y.at = "write" /\ y.txn = x.txn /\ x.at = "answer"
      BY <1>1, <1>6 DEF Work, Answer
    <2> HIDE DEF y
    <2> QED
      BY <1>2, <1>4, <2>1, <2>2
  <1>7. CASE Fail(q)
    <2>1. PICK u : Become(q, IF x.at = "queue" THEN Settled([x EXCEPT !.left = @ \ {u}])
                             ELSE IF x.then = "load" THEN Onward(x) ELSE Idle)
      BY <1>7 DEF Except, Fail
    <2> DEFINE y == [x EXCEPT !.left = @ \ {u}]
    <2>2. x.at = "queue" => y.at = "queue" /\ y.left \subseteq x.left
      BY <1>1 DEF Work
    <2>3. Become(q, IF x.at = "queue" THEN Settled(y)
                    ELSE IF x.then = "load" THEN Onward(x) ELSE Idle)
      BY <2>1
    <2> HIDE DEF y
    <2>4. CASE x.at = "queue"
      <3>1. ASSUME NEW t \in Txns, Aims(Settled(y), t) PROVE Aims(x, t)
        BY <2>2, <2>4, <3>1, SettledAims DEF Aims
      <3> QED
        BY <1>1, <2>3, <2>4, <3>1, AimsMove
    <2>5. CASE x.at # "queue" /\ x.then = "load"
      BY <1>2, <2>3, <2>5
    <2>6. CASE x.at # "queue" /\ x.then # "load"
      <3>1. Become(q, Idle) /\ Idle.at = "idle"
        BY <2>3, <2>6 DEF Idle
      <3> QED
        BY <1>1, <3>1, Aimless, AimsMove
    <2> QED
      BY <2>4, <2>5, <2>6
  <1> QED
    BY <1>3, <1>5, <1>6, <1>7

LEMMA TablesRemarks ==
    ASSUME FamilyOK, RemarksInv, NEW q \in Requests,
           Renamed(q) \/ Deleted(q) \/ Labelled(q) \/ Undismiss(q) \/ TakeLabel(q)
             \/ Dismissed(q) \/ Ends(q)
    PROVE  RemarksInv'
  <1> DEFINE x == req[q]
  <1>1. x \in Work /\ UNCHANGED <<note, job>>
    BY DEF Except, FamilyOK, ReqOK, Renamed, Deleted, Labelled, Undismiss, TakeLabel, Dismissed, Ends
  <1>2. \A t \in Txns : t \in excepted => t \in excepted'
    BY DEF Except, Renamed, Deleted, Labelled, Undismiss, TakeLabel, Dismissed, Ends
  <1>3. \/ Become(q, Idle)
        \/ \E p \in {"carry", "undismiss", "fill", "dismiss"} :
             Become(q, [x EXCEPT !.at = p])
    BY DEF Except, Renamed, Deleted, Labelled, Undismiss, TakeLabel, Dismissed, Ends
  <1>4. CASE Become(q, Idle)
    <2>1. Idle.at = "idle"
      BY DEF Idle
    <2> QED
      BY <1>1, <1>2, <1>4, <2>1, Aimless, AimsMove
  <1>5. ASSUME NEW p \in {"carry", "undismiss", "fill", "dismiss"},
               Become(q, [x EXCEPT !.at = p])
        PROVE  RemarksInv'
    <2> DEFINE y == [x EXCEPT !.at = p]
    <2>1. y.at = p /\ Become(q, y)
      BY <1>1, <1>5 DEF Work
    <2> HIDE DEF y
    <2> QED
      BY <1>1, <1>2, <2>1, Aimless, AimsMove
  <1> QED
    BY <1>3, <1>4, <1>5

\* What EnqueueNoteWrite does to a remark: only a choice for the very transaction
\* goes over it, and takes it off the list if nothing else aims at it.
LEMMA FileRemarks ==
    ASSUME FamilyOK, RemarksInv, NEW q \in Requests, NEW u \in Txns, NEW own \in BOOLEAN,
           File(q, u, own), NEW x, Become(q, x), note' = note,
           \A t \in Txns : Aims(x, t) => Aims(req[q], t) /\ t # u,
           ~own => Aims(req[q], u)
    PROVE  RemarksInv'
  <1> SUFFICES ASSUME NEW t \in Txns, note[t] = Remark, t \notin excepted' PROVE RemarkOK(t)'
    BY DEF RemarksInv, RemarkOK
  <1>1. RemarkOK(t)
    BY DEF RemarksInv, RemarkOK
  <1>2. /\ \A p \in Requests : req'[p] = IF p = q THEN x ELSE req[p]
        /\ job'[t] = IF t = u THEN [note |-> req[q].note, own |-> own] ELSE job[t]
    BY DEF FamilyOK, ReqOK, NoteOK, Become, File, Enqueued
  <1>3. CASE t # u
    <2>1. t \notin excepted
      BY <1>3 DEF File
    <2>2. ASSUME NEW p \in Requests PROVE ~Aims(req'[p], t)
      <3>1. ~Aims(req[p], t) /\ ~Aims(x, t)
        BY <1>1, <2>1 DEF RemarkOK
      <3>2. req'[p] = x \/ req'[p] = req[p]
        BY <1>2
      <3> QED
        BY <3>1, <3>2
    <2>3. job'[t] # NoJob => job'[t].own
      BY <1>1, <1>2, <1>3, <2>1 DEF RemarkOK
    <2> QED
      BY <2>2, <2>3 DEF RemarkOK
  <1>4. CASE t = u /\ own
    <2>1. t \notin excepted \/ ~Contested(q, t)
      BY <1>4 DEF File
    <2>2. ASSUME NEW p \in Requests \ {q} PROVE ~Aims(req[p], t)
      BY <1>1, <2>1 DEF RemarkOK, Contested, Holding, Aims
    <2>3. ASSUME NEW p \in Requests PROVE ~Aims(req'[p], t)
      <3>1. CASE p = q
        BY <1>2, <1>4, <3>1
      <3>2. CASE p # q
        <4>1. req'[p] = req[p]
          BY <1>2, <3>2
        <4> QED
          BY <2>2, <3>2, <4>1
      <3> QED
        BY <3>1, <3>2
    <2>4. job'[t].own
      BY <1>2, <1>4
    <2> QED
      BY <2>3, <2>4 DEF RemarkOK
  <1>5. CASE t = u /\ ~own
    <2>1. t \notin excepted
      BY <1>5 DEF File
    <2> QED
      BY <1>1, <1>5, <2>1 DEF RemarkOK
  <1> QED
    BY <1>3, <1>4, <1>5

LEMMA WriteRemarks ==
    ASSUME FamilyOK, RemarksInv, NEW q \in Requests, Write(q) \/ Queue(q)
    PROVE  RemarksInv'
  <1> DEFINE x == req[q]
  <1>1. x \in Work /\ InHand(x) /\ note' = note
    BY DEF FamilyOK, ReqOK, Write, Queue
  <1>2. CASE Write(q)
    <2>1. /\ x.at = "write" /\ x.txn \in Txns
          /\ File(q, x.txn, x.then # "load") /\ Become(q, After(x))
      BY <1>1, <1>2 DEF Write, InHand
    <2>2. x.then = "load" => Aims(x, x.txn)
      BY <2>1 DEF Aims
    <2> QED
      BY <1>1, <2>1, <2>2, AfterAims, FileRemarks
  <1>3. CASE Queue(q)
    <2>1. PICK u \in x.left :
            File(q, u, FALSE) /\ Become(q, Settled([x EXCEPT !.left = @ \ {u}]))
      BY <1>3 DEF Queue
    <2> DEFINE y == [x EXCEPT !.left = @ \ {u}]
    <2>2. y.at = "queue" /\ y.left = x.left \ {u} /\ x.at = "queue" /\ u \in Txns
      BY <1>1, <1>3, <2>1 DEF Work, Queue
    <2>3. Become(q, Settled(y))
      BY <2>1
    <2> HIDE DEF y
    <2>4. \A t \in Txns : Aims(Settled(y), t) => Aims(x, t) /\ t # u
      BY <2>2, SettledAims DEF Aims
    <2>5. Aims(x, u)
      BY <2>1, <2>2 DEF Aims
    <2>6. PICK own \in BOOLEAN : File(q, u, own)
      BY <2>1
    <2> QED
      BY <1>1, <2>2, <2>3, <2>4, <2>5, <2>6, FileRemarks
  <1> QED
    BY <1>2, <1>3

LEMMA OthersRemarks ==
    ASSUME FamilyOK, RemarksInv, NEW t \in Txns,
           Perform(t) \/ Abandon(t) \/ \E n \in Notes : Edit(t, n)
    PROVE  RemarksInv'
  <1> SUFFICES ASSUME NEW u \in Txns PROVE RemarkOK(u)'
    BY DEF RemarksInv, RemarkOK
  <1>1. RemarkOK(u) /\ UNCHANGED req
    BY DEF Except, RemarksInv, RemarkOK, Perform, Abandon, Edit
  <1>2. CASE u # t
    <2>1. note'[u] = note[u] /\ job'[u] = job[u] /\ (u \in excepted => u \in excepted')
      BY <1>2 DEF Except, FamilyOK, NoteOK, Perform, Abandon, Edit
    <2> QED
      BY <1>1, <2>1 DEF RemarkOK
  <1>3. CASE u = t /\ Perform(t)
    <2>1. note'[u] \in Names \cup {Blank}
      BY <1>3 DEF FamilyOK, NoteOK, Perform
    <2> QED
      BY <2>1, RemarkIsApart DEF RemarkOK
  <1>4. CASE u = t /\ Abandon(t)
    BY <1>4 DEF Except, RemarkOK, Abandon
  <1>5. ASSUME u = t, NEW n \in Notes, Edit(t, n) PROVE RemarkOK(u)'
    <2>1. UNCHANGED job /\ note'[t] = n
      BY <1>5 DEF FamilyOK, NoteOK, Edit
    <2>2. CASE Threatened(t)
      BY <1>5, <2>1, <2>2 DEF RemarkOK, Edit
    <2>3. CASE ~Threatened(t)
      BY <1>1, <1>5, <2>1, <2>3 DEF RemarkOK, Threatened
    <2> QED
      BY <2>2, <2>3
  <1> QED
    BY <1>2, <1>3, <1>4, <1>5

LEMMA RemarksKept == FamilyOK /\ RemarksInv /\ [Next]_vars => RemarksInv'
  <1> SUFFICES ASSUME FamilyOK, RemarksInv, [Next]_vars PROVE RemarksInv'
    OBVIOUS
  <1>1. ASSUME UNCHANGED <<note, job, req, excepted>> PROVE RemarksInv'
    BY <1>1, NoNewAims
  <1>2. CASE UNCHANGED vars
    BY <1>1, <1>2 DEF vars
  <1>3. ASSUME NEW q \in Requests, Works(q) PROVE RemarksInv'
    BY <1>3, ListsRemarks, RunsRemarks, TablesRemarks, WriteRemarks DEF Works
  <1>4. ASSUME NEW c \in Cats, NEW n \in Names, Create(c, n) PROVE RemarksInv'
    BY <1>1, <1>4 DEF Create
  <1>5. ASSUME NEW r \in Rules, NEW c \in Cats, NEW ms, NEW on, ChangeRule(r, c, ms, on)
        PROVE  RemarksInv'
    BY <1>1, <1>5 DEF ChangeRule
  <1>6. ASSUME NEW r \in Rules, RemoveRule(r) PROVE RemarksInv'
    BY <1>1, <1>6 DEF RemoveRule
  <1>7. ASSUME NEW m \in Merchants, Unlabel(m) \/ Restore(m) PROVE RemarksInv'
    BY <1>1, <1>7 DEF Unlabel, Restore
  <1> QED
    BY <1>2, <1>3, <1>4, <1>5, <1>6, <1>7, AskedRemarks, OthersRemarks DEF Next

LEMMA InitRemarks == Init => RemarksInv
  BY RemarkIsApart DEF Init, RemarksInv

\* Over a remark nothing is queued but what somebody chose for that very transaction:
\* neither a bulk action, nor a rule, a label, a rename or the model writes over it.
\* Excepted is a remark that is written when such a write is on its way.
THEOREM RemarksAreKept == Spec => []RemarksStay
  <1>1. Init => FamilyOK /\ RemarksInv
    BY InitFamily, InitRemarks
  <1>2. FamilyOK /\ RemarksInv /\ [Next]_vars => (FamilyOK /\ RemarksInv)'
    BY FamilyKept, RemarksKept
  <1>3. RemarksInv => RemarksStay
    BY DEF RemarksInv, RemarksStay
  <1> QED
    BY <1>1, <1>2, <1>3, PTL DEF Spec


-----------------------------------------------------------------------------
(* Labels.                                                                 *)

\* LabelsInv, of one merchant.
LabelOK(m) ==
    m \notin excepted =>
        /\ \A p, q \in Requests : Busy(req[p], m) /\ Busy(req[q], m) => p = q
        /\ \A q \in Requests :
            Busy(req[q], m) =>
                /\ req[q].at = "label" /\ ~req[q].all => ~dismissed[m]
                /\ req[q].at = "dismiss" => series[m] = None
        /\ dismissed[m] /\ series[m] # None =>
               \E q \in Requests : Busy(req[q], m) /\ req[q].at = "undismiss"

LEMMA LabelByLabel == (LabelsInv <=> \A m \in Merchants : LabelOK(m))
  BY DEF LabelsInv, LabelOK

LEMMA LabelByLabelNext == (\A m \in Merchants : LabelOK(m)') => LabelsInv'
  BY DEF LabelsInv, LabelOK

Labelers == {"label", "undismiss", "unlabel", "dismiss"}

\* A step that leaves the requests about m's label, and its dismissal, alone.
LEMMA LabelUntouched ==
    ASSUME NEW m \in Merchants, LabelOK(m), m \in excepted => m \in excepted',
           dismissed'[m] = dismissed[m], series'[m] \in {series[m], None},
           \A q \in Requests : Busy(req[q], m) \/ Busy(req'[q], m) => req'[q] = req[q]
    PROVE  LabelOK(m)'
  <1>1. \A q \in Requests : Busy(req[q], m) <=> Busy(req'[q], m)
    OBVIOUS
  <1> QED
    BY <1>1 DEF LabelOK

\* Steps about something else.
LEMMA Elsewhere ==
    ASSUME FamilyOK, LabelsInv, NEW q \in Requests, NEW x, Become(q, x),
           req[q].at \notin Labelers, x.at \notin Labelers,
           \A m \in Merchants : m \in excepted => m \in excepted',
           dismissed' = dismissed, \A m \in Merchants : series'[m] \in {series[m], None}
    PROVE  LabelsInv'
  <1> SUFFICES ASSUME NEW m \in Merchants PROVE LabelOK(m)'
    BY LabelByLabelNext
  <1>1. LabelOK(m)
    BY LabelByLabel
  <1>2. \A p \in Requests : req'[p] = IF p = q THEN x ELSE req[p]
    BY DEF Become, FamilyOK, ReqOK
  <1>3. ASSUME NEW p \in Requests, Busy(req[p], m) \/ Busy(req'[p], m)
        PROVE  req'[p] = req[p]
    <2>1. CASE p = q
      BY <1>2, <1>3, <2>1 DEF Busy, Labelers
    <2>2. CASE p # q
      BY <1>2, <2>2
    <2> QED
      BY <2>1, <2>2
  <1> QED
    BY <1>1, <1>3, LabelUntouched

\* Filing a job forgets no race about a label.
LEMMA FileKeepsMerchants ==
    ASSUME NEW q, NEW t \in Txns, NEW own, File(q, t, own)
    PROVE  \A m \in Merchants : m \in excepted => m \in excepted'
  BY LabelsAssumption DEF File

\* Where requests go that are not about a label.
LEMMA SettledPlace ==
    ASSUME NEW x, x.at \notin Labelers PROVE Settled(x).at \notin Labelers
  BY DEF Settled, Idle, Labelers

LEMMA OnwardPlace ==
    ASSUME NEW x \in Work PROVE Onward(x).at \notin Labelers
  <1> DEFINE y == [x EXCEPT !.at = "load", !.txn = None, !.cat = None, !.note = None]
  <1>1. y.at \notin Labelers
    BY DEF Work, Labelers
  <1>2. Onward(x) = Settled(y)
    BY DEF Onward
  <1> HIDE DEF y
  <1> QED
    BY <1>1, <1>2, SettledPlace

LEMMA AfterPlace ==
    ASSUME NEW x \in Work PROVE After(x).at \notin Labelers
  <1>1. CASE x.then = "gather"
    BY <1>1 DEF After, Work, Labelers
  <1>2. CASE x.then = "load"
    BY <1>2, OnwardPlace DEF After
  <1>3. CASE x.then \notin {"gather", "load"}
    BY <1>3 DEF After, Idle, Labelers
  <1> QED
    BY <1>1, <1>2, <1>3

\* A request that is not about a label.
LEMMA AskedElsewhere ==
    ASSUME FamilyOK, LabelsInv, NEW q \in Requests, Asked(q),
           ~\E m \in Merchants : Dismiss(q, m) \/ \E c \in System : Label(q, m, c)
    PROVE  LabelsInv'
  <1>1. /\ req'[q].at \in {"rename", "delete", "write", "history", "load", "idle"}
        /\ Become(q, req'[q])
    <2>1. q \in DOMAIN req
      BY DEF FamilyOK, ReqOK
    <2>2. ASSUME NEW c \in Cats, NEW n \in Names, Rename(q, c, n)
          PROVE  req'[q].at = "rename" /\ Become(q, req'[q])
      BY <2>1, <2>2 DEF Rename, Idle, Become
    <2>3. ASSUME NEW c \in Cats, Delete(q, c)
          PROVE  req'[q].at = "delete" /\ Become(q, req'[q])
      BY <2>1, <2>3 DEF Delete, Idle, Become
    <2>4. ASSUME NEW t \in Txns, NEW c \in Cats \cup {None}, NEW apply \in BOOLEAN,
                 NEW all \in BOOLEAN, Choose(q, t, c, apply, all)
          PROVE  req'[q].at = "write" /\ Become(q, req'[q])
      BY <2>1, <2>4 DEF Choose, Idle, Become
    <2>5. ASSUME NEW r \in Rules, NEW c \in Cats, NEW ms \in SUBSET Merchants,
                 NEW apply \in BOOLEAN, NEW all \in BOOLEAN, AddRule(q, r, c, ms, apply, all)
          PROVE  req'[q].at \in {"history", "idle"} /\ Become(q, req'[q])
      BY <2>1, <2>5 DEF AddRule, Idle, Become
    <2>6. ASSUME NEW S, Begin(q, S) PROVE req'[q].at = "load" /\ Become(q, req'[q])
      BY <2>1, <2>6 DEF Begin, Idle, Become
    <2> QED
      BY <2>2, <2>3, <2>4, <2>5, <2>6 DEF Asked, Process, Reassess
  <1>2. Free(q) /\ UNCHANGED <<series, dismissed, excepted>>
    BY DEF Asked, Process, Reassess, Begin, Rename, Delete, Choose, AddRule
  <1> QED
    BY <1>1, <1>2, Elsewhere DEF Free, Labelers

\* A step of a request that is not about a label.
LEMMA WorksElsewhere ==
    ASSUME FamilyOK, LabelsInv, NEW q \in Requests, Works(q),
           ~(Labelled(q) \/ Undismiss(q) \/ TakeLabel(q) \/ Dismissed(q) \/ Ends(q))
    PROVE  LabelsInv'
  <1> DEFINE x == req[q]
  <1>1. x \in Work /\ InHand(x)
    BY DEF FamilyOK, ReqOK
  <1>2. \A p : p \notin Labelers =>
          \A y : y = [x EXCEPT !.at = p] => y.at \notin Labelers
    BY <1>1 DEF Work
  <1>3. /\ x.at \notin Labelers
        /\ dismissed' = dismissed
        /\ \A m \in Merchants : series'[m] \in {series[m], None}
    <2>1. x.at \notin Labelers /\ dismissed' = dismissed
      BY DEF Except, Works, Renamed, Carry, Deleted, Queue, Write, Gather, Fail, History, Load, Decide,
             Answer, Fill, Labelers
    <2>2. series' = series \/ Deleted(q)
      BY DEF Except, Works, Renamed, Carry, Deleted, Queue, Write, Gather, Fail, History, Load, Decide,
             Answer, Fill
    <2> QED
      BY <2>1, <2>2 DEF Deleted
  <1>4. \A m \in Merchants : m \in excepted => m \in excepted'
    <2>1. CASE Write(q) \/ Queue(q)
      <3>1. \E t \in Txns, own \in BOOLEAN : File(q, t, own)
        BY <1>1, <2>1 DEF Write, Queue, InHand, Work
      <3> QED
        BY <3>1, FileKeepsMerchants
    <2>2. CASE ~(Write(q) \/ Queue(q))
      BY <2>2 DEF Except, Works, Renamed, Carry, Deleted, Gather, Fail, History, Load, Decide, Answer, Fill
    <2> QED
      BY <2>1, <2>2
  <1>5. \E y : Become(q, y) /\ y.at \notin Labelers
    <2>1. CASE Renamed(q) \/ Deleted(q)
      <3>1. Become(q, Idle) \/ Become(q, [x EXCEPT !.at = "carry"])
        BY <2>1 DEF Except, Renamed, Deleted
      <3>2. Idle.at \notin Labelers /\ [x EXCEPT !.at = "carry"].at \notin Labelers
        BY <1>1 DEF Idle, Work, Labelers
      <3> QED
        BY <3>1, <3>2
    <2>2. CASE Carry(q) \/ Gather(q) \/ History(q) \/ Fill(q) \/ Queue(q)
      <3>1. \E y : y.at \in {"queue", "load"} /\ Become(q, Settled(y))
        <4>1. ASSUME Carry(q) \/ Fill(q) PROVE \E y : y.at = "queue" /\ Become(q, Settled(y))
          <5>1. PICK P : Become(q, Settled([x EXCEPT !.at = "queue", !.left = P]))
            BY <4>1 DEF Carry, Fill
          <5>2. [x EXCEPT !.at = "queue", !.left = P].at = "queue"
            BY <1>1 DEF Work
          <5> QED
            BY <5>1, <5>2
        <4>2. ASSUME Gather(q) PROVE \E y : y.at = "queue" /\ Become(q, Settled(y))
          <5>1. PICK L : Become(q, Settled([x EXCEPT !.at = "queue", !.txn = None, !.left = L]))
            BY <4>2 DEF Gather
          <5> DEFINE y == [x EXCEPT !.at = "queue", !.txn = None, !.left = L]
          <5>2. y.at = "queue" /\ Become(q, Settled(y))
            BY <1>1, <5>1 DEF Work
          <5> HIDE DEF y
          <5> QED
            BY <5>2
        <4>3. ASSUME History(q) PROVE \E y : y.at \in {"queue", "load"} /\ Become(q, Settled(y))
          <5>1. PICK L : Become(q, Settled([x EXCEPT !.at = IF x.all THEN "queue" ELSE "load",
                                                     !.left = L, !.then = "load"]))
            BY <4>3 DEF History
          <5> DEFINE y == [x EXCEPT !.at = IF x.all THEN "queue" ELSE "load",
                                    !.left = L, !.then = "load"]
          <5>2. y.at \in {"queue", "load"} /\ Become(q, Settled(y))
            BY <1>1, <5>1 DEF Work
          <5> HIDE DEF y
          <5> QED
            BY <5>2
        <4>4. ASSUME Queue(q) PROVE \E y : y.at = "queue" /\ Become(q, Settled(y))
          <5>1. PICK u : Become(q, Settled([x EXCEPT !.left = @ \ {u}]))
            BY <4>4 DEF Queue
          <5>2. [x EXCEPT !.left = @ \ {u}].at = "queue"
            BY <1>1, <4>4 DEF Work, Queue
          <5> QED
            BY <5>1, <5>2
        <4> QED
          BY <2>2, <4>1, <4>2, <4>3, <4>4
      <3> QED
        BY <3>1, SettledPlace DEF Labelers
    <2>3. CASE Write(q)
      BY <1>1, <2>3, AfterPlace DEF Write
    <2>4. CASE Load(q) \/ Decide(q) \/ Answer(q) \/ Fail(q)
      <3>1. CASE Become(q, Onward(x))
        BY <1>1, <3>1, OnwardPlace
      <3>2. CASE Load(q)
        <4>1. PICK u : LET y == [x EXCEPT !.left = @ \ {u}] IN
                       Become(q, IF note[u] = Blank THEN [y EXCEPT !.at = "decide", !.txn = u]
                                 ELSE Onward(y))
          BY <3>2 DEF Load
        <4> DEFINE y == [x EXCEPT !.left = @ \ {u}]
        <4>2. y \in Work /\ [y EXCEPT !.at = "decide", !.txn = u].at \notin Labelers
          BY <1>1 DEF Work, Labelers
        <4> HIDE DEF y
        <4>3. Become(q, IF note[u] = Blank THEN [y EXCEPT !.at = "decide", !.txn = u]
                        ELSE Onward(y))
          BY <4>1 DEF y
        <4> QED
          BY <4>2, <4>3, OnwardPlace
      <3>3. CASE Decide(q)
        <4>1. \/ \E c : Become(q, [x EXCEPT !.at = "write", !.cat = c, !.note = cat[c].name])
              \/ \E d \in Cats : Become(q, [x EXCEPT !.at = "answer", !.note = cat[d].name])
              \/ Become(q, Onward(x))
          BY <3>3 DEF Decide
        <4>2. \A c : /\ [x EXCEPT !.at = "write", !.cat = c, !.note = cat[c].name].at \notin Labelers
                     /\ [x EXCEPT !.at = "answer", !.note = cat[c].name].at \notin Labelers
          BY <1>1 DEF Work, Labelers
        <4> QED
          BY <3>1, <4>1, <4>2
      <3>4. CASE Answer(q)
        <4>1. \/ Become(q, [x EXCEPT !.at = "write", !.cat = Named(x.note)])
              \/ Become(q, Onward(x))
          BY <3>4 DEF Answer
        <4>2. [x EXCEPT !.at = "write", !.cat = Named(x.note)].at \notin Labelers
          BY <1>1 DEF Work, Labelers
        <4> QED
          BY <3>1, <4>1, <4>2
      <3>5. CASE Fail(q)
        <4>1. PICK u : Become(q, IF x.at = "queue" THEN Settled([x EXCEPT !.left = @ \ {u}])
                                 ELSE IF x.then = "load" THEN Onward(x) ELSE Idle)
          BY <3>5 DEF Except, Fail
        <4>2. x.at = "queue" => [x EXCEPT !.left = @ \ {u}].at \notin Labelers
          BY <1>1 DEF Work, Labelers
        <4>3. Idle.at \notin Labelers
          BY DEF Idle, Labelers
        <4> QED
          BY <1>1, <3>1, <4>1, <4>2, <4>3, SettledPlace
      <3> QED
        BY <2>4, <3>2, <3>3, <3>4, <3>5
    <2> QED
      BY <2>1, <2>2, <2>3, <2>4 DEF Works
  <1> QED
    BY <1>3, <1>4, <1>5, Elsewhere


\* A request about a label starts: it is the only one, or the label is excepted.
LEMMA LabelBegins ==
    ASSUME FamilyOK, LabelsInv, NEW q \in Requests, NEW u \in Merchants, NEW x,
           Free(q), Become(q, x), Crossed(u), x.for = {u}, UNCHANGED <<series, dismissed>>,
           \/ x.at = "unlabel"
           \/ x.at = "label" /\ x.all = dismissed[u]
    PROVE  LabelsInv'
  <1> SUFFICES ASSUME NEW m \in Merchants PROVE LabelOK(m)'
    BY LabelByLabelNext
  <1>1. LabelOK(m)
    BY LabelByLabel
  <1>2. \A p \in Requests : req'[p] = IF p = q THEN x ELSE req[p]
    BY DEF Become, FamilyOK, ReqOK
  <1>3. ~Busy(req[q], m) /\ (Busy(x, m) <=> m = u)
    BY DEF Free, Busy
  <1>4. m \in excepted => m \in excepted'
    BY DEF Except, Crossed
  <1>5. CASE m # u
    <2>1. ASSUME NEW p \in Requests, Busy(req[p], m) \/ Busy(req'[p], m)
          PROVE  req'[p] = req[p]
      BY <1>2, <1>3, <1>5, <2>1
    <2> QED
      BY <1>1, <1>4, <2>1, LabelUntouched
  <1>6. CASE m = u /\ m \notin excepted'
    <2>1. \A p \in Requests : ~Busy(req[p], m)
      BY <1>6 DEF Except, Crossed, Labelling, Busy
    <2>2. \A p \in Requests : Busy(req'[p], m) => p = q
      BY <1>2, <2>1
    <2>3. req'[q] = x /\ Busy(req'[q], m)
      BY <1>2, <1>3, <1>6
    <2>4. ~(dismissed[m] /\ series[m] # None) /\ m \notin excepted
      BY <1>1, <1>4, <1>6, <2>1 DEF LabelOK
    <2>5. req'[q].at \in {"unlabel", "label"} /\ (req'[q].at = "label" => req'[q].all = dismissed[m])
      BY <1>6, <2>3
    <2> QED
      BY <2>2, <2>3, <2>4, <2>5 DEF LabelOK
  <1>7. CASE m \in excepted'
    BY <1>7 DEF LabelOK
  <1> QED
    BY <1>5, <1>6, <1>7

LEMMA AskedLabels ==
    ASSUME FamilyOK, LabelsInv, NEW q \in Requests, Asked(q) PROVE LabelsInv'
  <1>1. ASSUME NEW m \in Merchants, NEW c \in System, Label(q, m, c) PROVE LabelsInv'
    <2> DEFINE x == [Idle EXCEPT !.at = "label", !.cat = c, !.note = cat[c].name,
                       !.for = {m}, !.all = dismissed[m]]
    <2>1. x.at = "label" /\ x.for = {m} /\ x.all = dismissed[m]
      BY DEF Idle
    <2>2. Free(q) /\ Become(q, x) /\ Crossed(m) /\ UNCHANGED <<series, dismissed>>
      BY <1>1 DEF Label
    <2> HIDE DEF x
    <2> QED
      BY <2>1, <2>2, LabelBegins
  <1>2. ASSUME NEW m \in Merchants, Dismiss(q, m) PROVE LabelsInv'
    <2> DEFINE x == [Idle EXCEPT !.at = "unlabel", !.for = {m}]
    <2>1. x.at = "unlabel" /\ x.for = {m}
      BY DEF Idle
    <2>2. Free(q) /\ Become(q, x) /\ Crossed(m) /\ UNCHANGED <<series, dismissed>>
      BY <1>2 DEF Dismiss
    <2> HIDE DEF x
    <2> QED
      BY <2>1, <2>2, LabelBegins
  <1> QED
    BY <1>1, <1>2, AskedElsewhere

\* A step of a request about a label.
LEMMA LabelSteps ==
    ASSUME FamilyOK, LabelsInv, NEW q \in Requests,
           Labelled(q) \/ Undismiss(q) \/ TakeLabel(q) \/ Dismissed(q)
    PROVE  LabelsInv'
  <1> SUFFICES ASSUME NEW m \in Merchants, m \notin excepted' PROVE LabelOK(m)'
    BY LabelByLabelNext DEF LabelOK
  <1> DEFINE x == req[q]
  <1>1. LabelOK(m) /\ m \notin excepted
    BY LabelByLabel DEF Except, Labelled, Undismiss, TakeLabel, Dismissed
  <1>2. x \in Work /\ x.at \in Labelers
    BY DEF Except, FamilyOK, ReqOK, Labelled, Undismiss, TakeLabel, Dismissed, Labelers
  <1>3. /\ \A p \in Requests \ {q} : req'[p] = req[p]
        /\ Labelled(q) => req'[q] = [x EXCEPT !.at = IF x.all THEN "undismiss" ELSE "fill"]
        /\ Undismiss(q) => req'[q] = [x EXCEPT !.at = "fill"]
        /\ TakeLabel(q) => req'[q] = [x EXCEPT !.at = "dismiss"]
        /\ Dismissed(q) => req'[q] = Idle
    BY DEF Except, Labelled, Undismiss, TakeLabel, Dismissed, Become, FamilyOK, ReqOK
  <1>4. /\ Labelled(q) => req'[q].at = IF x.all THEN "undismiss" ELSE "fill"
        /\ Undismiss(q) => req'[q].at = "fill"
        /\ TakeLabel(q) => req'[q].at = "dismiss"
        /\ ~Dismissed(q) => req'[q].for = x.for
        /\ Dismissed(q) => req'[q].for = {}
    <2>1. Labelled(q) => /\ req'[q].at = IF x.all THEN "undismiss" ELSE "fill"
                         /\ req'[q].for = x.for
      BY <1>2, <1>3 DEF Work
    <2>2. Undismiss(q) => req'[q].at = "fill" /\ req'[q].for = x.for
      BY <1>2, <1>3 DEF Work
    <2>3. TakeLabel(q) => req'[q].at = "dismiss" /\ req'[q].for = x.for
      BY <1>2, <1>3 DEF Work
    <2>4. Dismissed(q) => req'[q].for = {}
      BY <1>3 DEF Idle
    <2> QED
      BY <2>1, <2>2, <2>3, <2>4
  <1>5. CASE m \notin x.for
    <2>1. ~Busy(req[q], m) /\ ~Busy(req'[q], m)
      BY <1>4, <1>5 DEF Busy
    <2>2. \A p \in Requests : Busy(req[p], m) \/ Busy(req'[p], m) => req'[p] = req[p]
      BY <1>3, <2>1
    <2>3. dismissed'[m] = dismissed[m] /\ series'[m] = series[m]
      BY <1>5 DEF Except, Labelled, Undismiss, TakeLabel, Dismissed, FamilyOK, SeriesOK
    <2> QED
      BY <1>1, <2>2, <2>3, LabelUntouched
  <1>6. CASE m \in x.for
    <2>1. Busy(x, m)
      BY <1>2, <1>6 DEF Busy, Labelers
    <2>2. \A p \in Requests \ {q} : ~Busy(req[p], m) /\ ~Busy(req'[p], m)
      BY <1>1, <1>3, <2>1 DEF LabelOK
    <2>3. \A p \in Requests : Busy(req'[p], m) => p = q
      BY <2>2
    <2>4. /\ x.at = "label" /\ ~x.all => ~dismissed[m]
          /\ x.at = "dismiss" => series[m] = None
      BY <1>1, <2>1 DEF LabelOK
    <2>5. CASE Labelled(q)
      <3>1. x.at = "label" /\ dismissed'[m] = dismissed[m]
        BY <2>5 DEF Labelled
      <3>2. CASE x.all
        <4>1. req'[q].at = "undismiss" /\ Busy(req'[q], m)
          BY <1>4, <1>6, <2>5, <3>1, <3>2 DEF Busy, Labelled, Dismissed
        <4> QED
          BY <2>3, <4>1 DEF LabelOK
      <3>3. CASE ~x.all
        <4>1. req'[q].at = "fill" /\ ~dismissed'[m]
          BY <1>4, <2>4, <2>5, <3>1, <3>3
        <4> QED
          BY <2>3, <4>1 DEF LabelOK, Busy
      <3> QED
        BY <3>2, <3>3
    <2>6. CASE Undismiss(q)
      <3>1. req'[q].at = "fill" /\ ~dismissed'[m]
        BY <1>4, <1>6, <2>6 DEF Except, Undismiss
      <3> QED
        BY <2>3, <3>1 DEF LabelOK, Busy
    <2>7. CASE TakeLabel(q)
      <3>1. req'[q].at = "dismiss" /\ series'[m] = None
        BY <1>4, <1>6, <2>7 DEF Except, TakeLabel
      <3> QED
        BY <2>3, <3>1 DEF LabelOK
    <2>8. CASE Dismissed(q)
      <3>1. req'[q].for = {} /\ series'[m] = None
        BY <1>4, <2>4, <2>8 DEF Dismissed
      <3>2. ~Busy(req'[q], m)
        BY <3>1 DEF Busy
      <3> QED
        BY <2>3, <3>1, <3>2 DEF LabelOK
    <2> QED
      BY <2>5, <2>6, <2>7, <2>8
  <1> QED
    BY <1>5, <1>6

\* A request that ends leaves no label with a dismissal, or is excepted.
LEMMA EndsLabels ==
    ASSUME FamilyOK, LabelsInv, NEW q \in Requests, Ends(q) PROVE LabelsInv'
  <1> SUFFICES ASSUME NEW m \in Merchants, m \notin excepted' PROVE LabelOK(m)'
    BY LabelByLabelNext DEF LabelOK
  <1> DEFINE x == req[q]
  <1>1. LabelOK(m) /\ m \notin excepted /\ UNCHANGED <<series, dismissed>>
    BY LabelByLabel DEF Ends, Except
  <1>2. \A p \in Requests : req'[p] = IF p = q THEN Idle ELSE req[p]
    BY DEF Ends, Become, FamilyOK, ReqOK
  <1>3. ~Busy(Idle, m)
    BY DEF Busy, Idle
  <1>4. \A p \in Requests : Busy(req'[p], m) => p # q /\ req'[p] = req[p]
    BY <1>2, <1>3
  <1>5. ~(x.at = "undismiss" /\ m \in x.for)
    BY DEF Ends, Except, HalfDone
  <1>6. CASE ~Busy(x, m)
    <2>1. \A p \in Requests : Busy(req[p], m) \/ Busy(req'[p], m) => req'[p] = req[p]
      BY <1>2, <1>4, <1>6
    <2> QED
      BY <1>1, <2>1, LabelUntouched
  <1>7. CASE Busy(x, m)
    <2>1. \A p \in Requests : ~Busy(req'[p], m)
      BY <1>1, <1>4, <1>7 DEF LabelOK
    <2>2. ~(dismissed[m] /\ series[m] # None)
      BY <1>1, <1>5, <1>7 DEF LabelOK, Busy
    <2> QED
      BY <1>1, <2>1, <2>2 DEF LabelOK
  <1> QED
    BY <1>6, <1>7

LEMMA LabelsKept == FamilyOK /\ LabelsInv /\ [Next]_vars => LabelsInv'
  <1> SUFFICES ASSUME FamilyOK, LabelsInv, [Next]_vars PROVE LabelsInv'
    OBVIOUS
  <1>1. ASSUME UNCHANGED req, \A m \in Merchants : m \in excepted => m \in excepted',
               \A m \in Merchants : dismissed'[m] = dismissed[m],
               \A m \in Merchants : series'[m] \in {series[m], None}
        PROVE  LabelsInv'
    BY <1>1, LabelByLabel, LabelByLabelNext, LabelUntouched
  <1>2. CASE UNCHANGED vars
    BY <1>1, <1>2 DEF vars
  <1>3. ASSUME NEW q \in Requests, Works(q) PROVE LabelsInv'
    BY <1>3, WorksElsewhere, LabelSteps, EndsLabels
  <1>4. ASSUME NEW c \in Cats, NEW n \in Names, Create(c, n) PROVE LabelsInv'
    BY <1>1, <1>4 DEF Create
  <1>5. ASSUME NEW r \in Rules, NEW c \in Cats, NEW ms, NEW on, ChangeRule(r, c, ms, on)
        PROVE  LabelsInv'
    BY <1>1, <1>5 DEF ChangeRule
  <1>6. ASSUME NEW r \in Rules, RemoveRule(r) PROVE LabelsInv'
    BY <1>1, <1>6 DEF RemoveRule
  <1>7. ASSUME NEW m \in Merchants, Unlabel(m) PROVE LabelsInv'
    BY <1>1, <1>7 DEF Unlabel, FamilyOK, SeriesOK
  <1>8. ASSUME NEW u \in Merchants, Restore(u) PROVE LabelsInv'
    <2> SUFFICES ASSUME NEW m \in Merchants PROVE LabelOK(m)'
      BY LabelByLabelNext
    <2>1. LabelOK(m) /\ (dismissed'[m] => dismissed[m]) /\ UNCHANGED <<req, series, excepted>>
      BY <1>8, LabelByLabel DEF Restore, FamilyOK, SeriesOK
    <2> QED
      BY <2>1 DEF LabelOK
  <1>9. ASSUME NEW t \in Txns, Perform(t) \/ Abandon(t) \/ \E n \in Notes : Edit(t, n)
        PROVE  LabelsInv'
    <2>1. UNCHANGED <<req, series, dismissed>>
      BY <1>9 DEF Except, Perform, Abandon, Edit
    <2>2. \A m \in Merchants : m \in excepted => m \in excepted'
      BY <1>9, LabelsAssumption DEF Except, Perform, Abandon, Edit
    <2> QED
      BY <1>1, <2>1, <2>2
  <1> QED
    BY <1>2, <1>3, <1>4, <1>5, <1>6, <1>7, <1>8, <1>9, AskedLabels DEF Next

LEMMA InitLabels == Init => LabelsInv
  BY DEF Init, LabelsInv, Idle, Busy

\* No merchant is dismissed and labelled at once: a label takes the dismissal back,
\* and a dismissal the label, in two statements each, between which others work.
\* Excepted are requests that cross and the failures at LabelledOrDismissed.
THEOREM LabelExcludesDismissal == Spec => []LabelledOrDismissed
  <1>1. Init => FamilyOK /\ LabelsInv
    BY InitFamily, InitLabels
  <1>2. FamilyOK /\ LabelsInv /\ [Next]_vars => (FamilyOK /\ LabelsInv)'
    BY FamilyKept, LabelsKept
  <1>3. LabelsInv => LabelledOrDismissed
    BY DEF LabelsInv, LabelledOrDismissed, Labelling, Busy
  <1> QED
    BY <1>1, <1>2, <1>3, PTL DEF Spec


-----------------------------------------------------------------------------
(* Names.                                                                  *)

\* NamesInv, of one transaction.
NameOK(t) ==
    Decided(t) /\ t \notin excepted =>
        \/ Destined(t) = cat[filed[t]].name
        \/ \E q \in Requests : Catches(req[q], t)

\* A step that leaves the note, the decision and the category's name alone, and
\* lets no rename drop the transaction.
LEMMA NameUntouched ==
    ASSUME NEW t \in Txns, NameOK(t), t \in excepted => t \in excepted', filed'[t] = filed[t],
           Destined(t)' = Destined(t),
           filed[t] # None /\ cat'[filed[t]].at = "here" => cat'[filed[t]] = cat[filed[t]],
           \A q \in Requests : Catches(req[q], t) => Catches(req[q], t)'
    PROVE  NameOK(t)'
  BY DEF NameOK, Decided, Here

\* A rename that goes on, of a transaction that goes on.
LEMMA CatchesOn ==
    ASSUME NEW t \in Txns, NEW q \in Requests, Catches(req[q], t), req'[q] = req[q],
           filed'[t] = filed[t], Destined(t)' = Destined(t)
    PROVE  Catches(req[q], t)'
  BY DEF Catches

\* Between rename and rename, requests come and go.
LEMMA OthersStay ==
    ASSUME FamilyOK, NEW q \in Requests, Asked(q) \/ Works(q)
    PROVE  \A p \in Requests \ {q} : req'[p] = req[p]
  <1>1. CASE Asked(q)
    BY <1>1 DEF Asked, Rename, Delete, Choose, AddRule, Process, Reassess, Begin, Label, Dismiss,
                Become, FamilyOK, ReqOK
  <1>2. CASE Works(q)
    BY <1>2 DEF Except, Works, Renamed, Carry, Deleted, Queue, Write, Gather, Fail, History, Load, Decide,
                Answer, Labelled, Undismiss, Fill, TakeLabel, Dismissed, Ends, Become,
                FamilyOK, ReqOK
  <1> QED
    BY <1>1, <1>2

\* Steps of requests that rename nothing and queue nothing.
LEMMA NamesElsewhere ==
    ASSUME FamilyOK, NamesInv, NEW q \in Requests, Asked(q) \/ Works(q),
           req[q].at \notin {"carry", "queue"}, UNCHANGED <<note, job, filed>>,
           \A t \in Txns : t \in excepted => t \in excepted',
           \A c \in Cats : cat'[c].at = "here" => cat'[c] = cat[c]
    PROVE  NamesInv'
  <1> SUFFICES ASSUME NEW t \in Txns PROVE NameOK(t)'
    BY DEF NamesInv, NameOK
  <1>1. NameOK(t) /\ Destined(t)' = Destined(t)
    BY DEF NamesInv, NameOK, Destined
  <1>2. ASSUME NEW p \in Requests, Catches(req[p], t) PROVE Catches(req[p], t)'
    <2>1. p # q
      BY <1>2 DEF Catches
    <2>2. req'[p] = req[p]
      BY <2>1, OthersStay
    <2> QED
      BY <1>1, <1>2, <2>2, CatchesOn
  <1>3. filed[t] \in Cats \cup {None}
    BY DEF FamilyOK, FiledOK
  <1> QED
    BY <1>1, <1>2, <1>3, NameUntouched

LEMMA AskedNames ==
    ASSUME FamilyOK, NamesInv, NEW q \in Requests, Asked(q) PROVE NamesInv'
  <1>1. req[q].at = "idle" /\ UNCHANGED <<note, job, cat, filed>>
    BY DEF Asked, Rename, Delete, Choose, AddRule, Process, Reassess, Begin, Label, Dismiss, Free
  <1>2. \A t \in Txns : t \in excepted => t \in excepted'
    BY DEF Except, Asked, Rename, Delete, Choose, AddRule, Process, Reassess, Begin, Label, Dismiss, Crossed
  <1> QED
    BY <1>1, <1>2, NamesElsewhere

LEMMA WorksNames ==
    ASSUME FamilyOK, NamesInv, NEW q \in Requests,
           \/ Deleted(q) \/ Gather(q) \/ History(q) \/ Load(q) \/ Decide(q) \/ Answer(q)
           \/ Labelled(q) \/ Undismiss(q) \/ Fill(q) \/ TakeLabel(q) \/ Dismissed(q)
    PROVE  NamesInv'
  <1>1. Works(q) /\ UNCHANGED <<note, job, filed>> /\ req[q].at \notin {"carry", "queue"}
    BY DEF Except, Works, Deleted, Gather, History, Load, Decide, Answer, Labelled, Undismiss, Fill,
           TakeLabel, Dismissed
  <1>2. \A t \in Txns : t \in excepted => t \in excepted'
    BY DEF Except, Deleted, Gather, History, Load, Decide, Answer, Labelled, Undismiss, Fill,
           TakeLabel, Dismissed
  <1>3. \A c \in Cats : cat'[c].at = "here" => cat'[c] = cat[c]
    <2>1. CASE ~Deleted(q)
      BY <2>1 DEF Except, Gather, History, Load, Decide, Answer, Labelled, Undismiss, Fill,
                  TakeLabel, Dismissed
    <2>2. CASE Deleted(q)
      <3> DEFINE d == req[q].cat
                 n == [cat[d] EXCEPT !.at = "gone", !.name = None]
      <3>1. d \in Cats
        BY <2>2 DEF FamilyOK, ReqOK, InHand, Deleted
      <3>2. n.at = "gone"
        BY <3>1 DEF FamilyOK, CatOK, Cat
      <3>3. cat' = [cat EXCEPT ![d] = n]
        BY <2>2 DEF Deleted
      <3> HIDE DEF n, d
      <3> QED
        BY <3>1, <3>2, <3>3 DEF FamilyOK, CatOK
    <2> QED
      BY <2>1, <2>2
  <1> QED
    BY <1>1, <1>2, <1>3, NamesElsewhere

\* A rename commits: whoever has the old name is caught, or excepted.
LEMMA RenamedNames ==
    ASSUME FamilyOK, NamesInv, NEW q \in Requests, Renamed(q) PROVE NamesInv'
  <1> DEFINE x == req[q]
  <1>1. /\ x \in Work /\ x.at = "rename" /\ Works(q) /\ UNCHANGED <<note, job, filed>>
        /\ x.cat \in Cats /\ x.old \in Names
    BY DEF Except, FamilyOK, ReqOK, Renamed, InHand, Works
  <1>2. CASE ~(Here(x.cat) /\ Named(x.note) \in {None, x.cat})
    <2>1. UNCHANGED <<cat, excepted>>
      BY <1>2 DEF Except, Renamed
    <2> QED
      BY <1>1, <2>1, NamesElsewhere
  <1>3. CASE Here(x.cat) /\ Named(x.note) \in {None, x.cat}
    <2> SUFFICES ASSUME NEW t \in Txns PROVE NameOK(t)'
      BY DEF NamesInv, NameOK
    <2>1. NameOK(t) /\ Destined(t)' = Destined(t) /\ filed[t] \in Cats \cup {None}
      BY <1>1 DEF NamesInv, NameOK, Destined, FamilyOK, FiledOK
    <2>2. /\ \A c \in Cats : c # x.cat => cat'[c] = cat[c]
          /\ cat'[x.cat].name = x.note /\ cat'[x.cat].at = cat[x.cat].at
      <3>1. PICK e \in BOOLEAN :
              cat' = [cat EXCEPT ![x.cat] = [@ EXCEPT !.name = x.note, !.excluded = e]]
        BY <1>3 DEF Except, Renamed
      <3> DEFINE n == [cat[x.cat] EXCEPT !.name = x.note, !.excluded = e]
      <3>2. n.name = x.note /\ n.at = cat[x.cat].at
        BY <1>1 DEF FamilyOK, CatOK, Cat
      <3>3. cat' = [cat EXCEPT ![x.cat] = n]
        BY <3>1
      <3> HIDE DEF n
      <3> QED
        BY <1>1, <3>2, <3>3 DEF FamilyOK, CatOK
    <2>3. /\ cat[x.cat].name = x.old => excepted' = excepted
          /\ cat[x.cat].name # x.old =>
               excepted' = excepted \cup {u \in Txns : filed[u] = x.cat}
          /\ Become(q, IF x.old = x.note THEN Idle ELSE [x EXCEPT !.at = "carry"])
      BY <1>3 DEF Except, Renamed
    <2>4. ASSUME NEW p \in Requests, Catches(req[p], t) PROVE Catches(req[p], t)'
      <3>1. p # q
        BY <1>1, <2>4 DEF Catches
      <3>2. req'[p] = req[p]
        BY <1>1, <3>1, OthersStay
      <3> QED
        BY <1>1, <2>1, <2>4, <3>2, CatchesOn
    <2>5. CASE filed[t] # x.cat
      BY <1>1, <2>1, <2>2, <2>3, <2>4, <2>5, NameUntouched
    <2>6. CASE filed[t] = x.cat /\ cat[x.cat].name # x.old
      BY <2>3, <2>6 DEF NameOK
    <2>7. CASE filed[t] = x.cat /\ cat[x.cat].name = x.old
      <3>1. excepted' = excepted /\ filed' = filed
        BY <1>1, <2>3, <2>7
      <3>2. CASE \E p \in Requests : Catches(req[p], t)
        BY <2>4, <3>2 DEF NameOK
      <3>3. CASE t \notin excepted /\ ~\E p \in Requests : Catches(req[p], t)
        <4>1. Destined(t) = x.old
          BY <1>1, <1>3, <2>1, <2>7, <3>3, LabelsAssumption DEF NameOK, Decided
        <4>2. CASE x.old = x.note
          BY <2>1, <2>2, <2>7, <3>1, <4>1, <4>2 DEF NameOK
        <4>3. CASE x.old # x.note
          <5> DEFINE y == [x EXCEPT !.at = "carry"]
          <5>1. y.at = "carry" /\ y.old = x.old /\ y.cat = x.cat
            BY <1>1 DEF Work
          <5>2. Become(q, y)
            BY <2>3, <4>3
          <5> HIDE DEF y
          <5>3. req'[q] = y
            BY <5>2 DEF Become, FamilyOK, ReqOK
          <5>4. Catches(req[q], t)'
            BY <1>1, <2>1, <2>7, <3>1, <4>1, <5>1, <5>3, LabelsAssumption DEF Catches
          <5> QED
            BY <5>4 DEF NameOK
        <4> QED
          BY <4>2, <4>3
      <3>4. CASE t \in excepted
        BY <3>1, <3>4 DEF NameOK
      <3> QED
        BY <3>2, <3>3, <3>4
    <2> QED
      BY <2>5, <2>6, <2>7
  <1> QED
    BY <1>2, <1>3

\* A rename lists the notes that carry the old name.
LEMMA CarryNames ==
    ASSUME FamilyOK, NamesInv, NEW q \in Requests, Carry(q) PROVE NamesInv'
  <1> DEFINE x == req[q]
  <1>1. /\ x \in Work /\ x.at = "carry" /\ Works(q) /\ UNCHANGED <<note, job, cat>>
        /\ x.cat \in Cats /\ x.old \in Names /\ x.old # None
    BY LabelsAssumption DEF FamilyOK, ReqOK, Carry, InHand, Works
  <1>2. PICK P \in Page(Carried(x)) :
          /\ Become(q, Settled([x EXCEPT !.at = "queue", !.left = P]))
          /\ filed' = [t \in Txns |-> IF t \in P THEN x.cat ELSE filed[t]]
          /\ Except(Missed(x, P))
    BY DEF Carry
  <1> SUFFICES ASSUME NEW t \in Txns PROVE NameOK(t)'
    BY DEF NamesInv, NameOK
  <1>3. NameOK(t) /\ Destined(t)' = Destined(t) /\ filed[t] \in Cats \cup {None}
    BY <1>1 DEF NamesInv, NameOK, Destined, FamilyOK, FiledOK
  <1>4. CASE t \in P
    <2> DEFINE y == [x EXCEPT !.at = "queue", !.left = P]
    <2>1. y.at = "queue" /\ y.left = P /\ y.old = x.old /\ y.cat = x.cat
      BY <1>1 DEF Work
    <2>2. Become(q, Settled(y))
      BY <1>2
    <2> HIDE DEF y
    <2>3. req'[q] = y
      BY <1>4, <2>1, <2>2 DEF Settled, Become, FamilyOK, ReqOK
    <2>4. filed'[t] = x.cat
      BY <1>2, <1>4
    <2>5. Catches(req[q], t)'
      BY <1>1, <1>4, <2>1, <2>3, <2>4 DEF Catches
    <2> QED
      BY <2>5 DEF NameOK
  <1>5. CASE t \notin P /\ Catches(x, t)
    <2> DEFINE S == {u \in Txns : note[u] = x.old}
    <2>1. S = Carried(x)
      BY DEF Carried
    <2>2. job[t] # NoJob \/ ~(Cardinality(S) <= Limit)
      <3> SUFFICES ASSUME job[t] = NoJob, Cardinality(S) <= Limit PROVE FALSE
        OBVIOUS
      <3>1. Page(S) = {S}
        BY DEF Page
      <3>2. P = S
        BY <1>2, <2>1, <3>1
      <3>3. x.at # "queue"
        BY <1>1
      <3>4. note[t] = x.old
        BY <1>5, <3>3 DEF Catches, Destined
      <3> QED
        BY <1>5, <3>2, <3>4
    <2>3. t \in Missed(x, P)
      BY <1>5, <2>2 DEF Missed
    <2> QED
      BY <1>2, <2>3 DEF NameOK, Except
  <1>6. CASE t \notin P /\ ~Catches(x, t)
    <2>1. filed'[t] = filed[t] /\ (t \in excepted => t \in excepted')
      BY <1>2, <1>6 DEF Except
    <2>2. ASSUME NEW p \in Requests, Catches(req[p], t) PROVE Catches(req[p], t)'
      <3>1. p # q
        BY <1>6, <2>2
      <3>2. req'[p] = req[p]
        BY <1>1, <3>1, OthersStay
      <3> QED
        BY <1>3, <2>1, <2>2, <3>2, CatchesOn
    <2> QED
      BY <1>1, <1>3, <2>1, <2>2, NameUntouched
  <1> QED
    BY <1>4, <1>5, <1>6


\* A list goes on without u: a rename still catches the others.
LEMMA RestCaught ==
    ASSUME FamilyOK, NEW q \in Requests, NEW u, NEW t \in Txns, t # u,
           Become(q, Settled([req[q] EXCEPT !.left = @ \ {u}])), req[q].at = "queue",
           Catches(req[q], t), filed'[t] = filed[t], Destined(t)' = Destined(t)
    PROVE  Catches(req[q], t)'
  <1> DEFINE x == req[q]
             y == [x EXCEPT !.left = @ \ {u}]
  <1>1. x \in Work
    BY DEF FamilyOK, ReqOK
  <1>2. /\ y.at = "queue" /\ y.left = x.left \ {u} /\ y.old = x.old /\ y.cat = x.cat
        /\ t \in x.left
    BY <1>1 DEF Work, Catches
  <1>3. Become(q, Settled(y))
    OBVIOUS
  <1> HIDE DEF y
  <1>4. Settled(y) = y
    BY <1>2 DEF Settled
  <1>5. req'[q] = y
    BY <1>3, <1>4 DEF Become, FamilyOK, ReqOK
  <1> QED
    BY <1>2, <1>5 DEF Catches

\* What EnqueueNoteWrite leaves of the transaction it is about: the name of its
\* category, or a race.
LEMMA FiledName ==
    ASSUME FamilyOK, NEW q \in Requests, NEW u \in Txns, NEW own \in BOOLEAN,
           req[q].at \in {"write", "queue"}, File(q, u, own), UNCHANGED <<note, cat>>
    PROVE  NameOK(u)'
  <1> DEFINE x == req[q]
  <1>1. x.note # None
    BY LabelsAssumption DEF FamilyOK, ReqOK, InHand
  <1>2. filed'[u] = x.cat /\ job'[u] = [note |-> x.note, own |-> own]
    BY DEF File, Enqueued, FamilyOK, NoteOK, FiledOK
  <1>3. job'[u] # NoJob /\ job'[u].note = x.note
    BY <1>1, <1>2 DEF NoJob
  <1>4. Destined(u)' = x.note
    BY <1>3 DEF Destined
  <1>5. CASE Stale(x, u)
    BY <1>5 DEF NameOK, File
  <1>6. CASE ~Stale(x, u)
    BY <1>2, <1>4, <1>6 DEF NameOK, Decided, Stale, Here
  <1> QED
    BY <1>5, <1>6

\* Queue, Write and Fail, for the transactions they are not about.
LEMMA OthersNames ==
    ASSUME FamilyOK, NamesInv, NEW q \in Requests, NEW u \in Txns,
           Queue(q) \/ Write(q) \/ Fail(q), UNCHANGED <<note, cat>>,
           req[q].at = "queue" => Become(q, Settled([req[q] EXCEPT !.left = @ \ {u}])),
           \A t \in Txns \ {u} : /\ filed'[t] = filed[t] /\ job'[t] = job[t]
                                 /\ t \in excepted => t \in excepted',
           NEW t \in Txns \ {u}
    PROVE  NameOK(t)'
  <1>1. NameOK(t) /\ Destined(t)' = Destined(t) /\ filed[t] \in Cats \cup {None}
    BY DEF NamesInv, NameOK, Destined, FamilyOK, FiledOK
  <1>2. req[q].at \in {"queue", "write"} /\ Works(q)
    BY DEF Except, Queue, Write, Fail, Works
  <1>3. ASSUME NEW p \in Requests, Catches(req[p], t) PROVE Catches(req[p], t)'
    <2>1. CASE p = q
      <3>1. req[q].at = "queue"
        BY <1>2, <1>3, <2>1 DEF Catches
      <3> QED
        BY <1>1, <1>3, <2>1, <3>1, RestCaught
    <2>2. CASE p # q
      <3>1. req'[p] = req[p]
        BY <1>2, <2>2, OthersStay
      <3> QED
        BY <1>1, <1>3, <3>1, CatchesOn
    <2> QED
      BY <2>1, <2>2
  <1> QED
    BY <1>1, <1>3, NameUntouched

LEMMA QueuedNames ==
    ASSUME FamilyOK, NamesInv, NEW q \in Requests, Queue(q) \/ Write(q) \/ Fail(q)
    PROVE  NamesInv'
  <1> SUFFICES ASSUME NEW t \in Txns PROVE NameOK(t)'
    BY DEF NamesInv, NameOK
  <1> DEFINE x == req[q]
  <1>1. x \in Work /\ InHand(x) /\ UNCHANGED <<note, cat>>
    BY DEF Except, FamilyOK, ReqOK, Queue, Write, Fail
  <1>2. CASE Queue(q)
    <2>1. PICK u \in x.left :
            File(q, u, FALSE) /\ Become(q, Settled([x EXCEPT !.left = @ \ {u}]))
      BY <1>2 DEF Queue
    <2>2. u \in Txns /\ x.at = "queue"
      BY <1>1, <1>2, <2>1 DEF Work, Queue
    <2>3. PICK own \in BOOLEAN : File(q, u, own)
      BY <2>1
    <2>4. \A v \in Txns \ {u} : /\ filed'[v] = filed[v] /\ job'[v] = job[v]
                                /\ v \in excepted => v \in excepted'
      BY <2>3 DEF File, Enqueued, FamilyOK, NoteOK, FiledOK
    <2>5. NameOK(u)'
      BY <1>1, <2>2, <2>3, FiledName
    <2> QED
      BY <1>1, <1>2, <2>1, <2>2, <2>4, <2>5, OthersNames
  <1>3. CASE Write(q)
    <2>1. PICK u \in Txns : x.at = "write" /\ File(q, u, x.then # "load")
      BY <1>1, <1>3 DEF InHand, Write
    <2>2. PICK own \in BOOLEAN : File(q, u, own)
      BY <2>1
    <2>3. \A v \in Txns \ {u} : /\ filed'[v] = filed[v] /\ job'[v] = job[v]
                                /\ v \in excepted => v \in excepted'
      BY <2>2 DEF File, Enqueued, FamilyOK, NoteOK, FiledOK
    <2>4. NameOK(u)'
      BY <1>1, <2>1, <2>2, FiledName
    <2> QED
      BY <1>1, <1>3, <2>1, <2>3, <2>4, OthersNames
  <1>4. CASE Fail(q)
    <2>1. PICK u \in IF x.at = "write" THEN {x.txn} ELSE x.left :
            /\ Except({u} \cap {v \in Txns : Catches(x, v)})
            /\ Become(q, IF x.at = "queue" THEN Settled([x EXCEPT !.left = @ \ {u}])
                         ELSE IF x.then = "load" THEN Onward(x) ELSE Idle)
      BY <1>4 DEF Fail
    <2>2. u \in Txns
      BY <1>1, <1>4, <2>1 DEF Except, InHand, Work, Fail
    <2>3. NameOK(u)'
      <3>1. CASE Catches(x, u)
        BY <2>1, <2>2, <3>1 DEF NameOK, Except
      <3>2. CASE ~Catches(x, u)
        <4>1. /\ NameOK(u) /\ filed' = filed /\ Destined(u)' = Destined(u)
              /\ u \in excepted => u \in excepted'
          BY <1>4, <2>1, <2>2 DEF NamesInv, NameOK, Destined, Except, Fail
        <4>2. ASSUME NEW p \in Requests, Catches(req[p], u) PROVE Catches(req[p], u)'
          <5>1. p # q /\ Works(q)
            BY <1>4, <3>2, <4>2 DEF Works
          <5>2. req'[p] = req[p]
            BY <5>1, OthersStay
          <5> QED
            BY <2>2, <4>1, <4>2, <5>2, CatchesOn
        <4> QED
          BY <1>1, <2>2, <4>1, <4>2, NameUntouched
      <3> QED
        BY <3>1, <3>2
    <2>4. \A v \in Txns \ {u} : /\ filed'[v] = filed[v] /\ job'[v] = job[v]
                                /\ v \in excepted => v \in excepted'
      BY <1>4, <2>1 DEF Except, Fail
    <2>5. x.at = "queue" => Become(q, Settled([x EXCEPT !.left = @ \ {u}]))
      BY <2>1
    <2> QED
      BY <1>1, <1>4, <2>2, <2>3, <2>4, <2>5, OthersNames
  <1> QED
    BY <1>2, <1>3, <1>4

\* A request that ends drops what it was to rename, which is excepted.
LEMMA EndsNames ==
    ASSUME FamilyOK, NamesInv, NEW q \in Requests, Ends(q) PROVE NamesInv'
  <1> SUFFICES ASSUME NEW t \in Txns PROVE NameOK(t)'
    BY DEF NamesInv, NameOK
  <1>1. /\ NameOK(t) /\ Works(q) /\ UNCHANGED <<cat, filed>> /\ Destined(t)' = Destined(t)
        /\ t \in excepted => t \in excepted'
    BY DEF NamesInv, NameOK, Destined, Works, Ends, Except
  <1>2. CASE Catches(req[q], t)
    BY <1>2 DEF NameOK, Ends, Except, HalfDone
  <1>3. CASE ~Catches(req[q], t)
    <2>1. ASSUME NEW p \in Requests, Catches(req[p], t) PROVE Catches(req[p], t)'
      <3>1. req'[p] = req[p]
        BY <1>1, <1>3, <2>1, OthersStay
      <3> QED
        BY <1>1, <2>1, <3>1, CatchesOn
    <2> QED
      BY <1>1, <2>1, NameUntouched
  <1> QED
    BY <1>2, <1>3

\* Steps between requests.
LEMMA NoRequestNames ==
    ASSUME FamilyOK, NamesInv, UNCHANGED req, NEW u,
           \A t \in Txns : t \in excepted => t \in excepted' \/ t = u,
           \A t \in Txns : t # u => filed'[t] = filed[t] /\ Destined(t)' = Destined(t),
           \A c \in Cats : cat[c].at = "new" \/ cat'[c] = cat[c],
           u \in Txns => NameOK(u)'
    PROVE  NamesInv'
  <1> SUFFICES ASSUME NEW t \in Txns, t # u PROVE NameOK(t)'
    BY DEF NamesInv, NameOK
  <1>1. NameOK(t) /\ filed[t] \in Cats \cup {None}
        /\ (filed[t] # None => cat[filed[t]].at # "new")
    BY DEF NamesInv, NameOK, FamilyOK, FiledOK
  <1>2. ASSUME NEW p \in Requests, Catches(req[p], t) PROVE Catches(req[p], t)'
    BY <1>2, CatchesOn
  <1> QED
    BY <1>1, <1>2, NameUntouched

LEMMA QueueNames ==
    ASSUME FamilyOK, NamesInv, NEW u \in Txns,
           Perform(u) \/ Abandon(u) \/ \E n \in Notes : Edit(u, n)
    PROVE  NamesInv'
  <1>1. UNCHANGED <<req, cat>>
    BY DEF Except, Perform, Abandon, Edit
  <1>2. \A t \in Txns : t # u =>
          /\ filed'[t] = filed[t] /\ note'[t] = note[t] /\ job'[t] = job[t]
          /\ t \in excepted => t \in excepted'
    BY DEF Except, Perform, Abandon, Edit, FamilyOK, NoteOK, FiledOK
  <1>3. \A t \in Txns : t # u => Destined(t)' = Destined(t)
    BY <1>2 DEF Destined
  <1>4. CASE Perform(u)
    <2>1. note'[u] = job[u].note /\ job'[u] = NoJob /\ job[u] # NoJob
      BY <1>4 DEF Perform, FamilyOK, NoteOK
    <2>2. Destined(u)' = Destined(u)
      BY <2>1 DEF Destined
    <2>3. NameOK(u)
      BY DEF NamesInv, NameOK
    <2>4. \A p \in Requests : Catches(req[p], u) => Catches(req[p], u)'
      BY <1>1, <1>4, <2>2, CatchesOn DEF Perform
    <2>5. NameOK(u)'
      BY <1>1, <1>4, <2>2, <2>3, <2>4, NameUntouched DEF Perform
    <2> QED
      BY <1>1, <1>2, <1>3, <2>5, NoRequestNames
  <1>5. CASE Abandon(u)
    <2>1. NameOK(u)'
      BY <1>5 DEF Except, Abandon, NameOK
    <2> QED
      BY <1>1, <1>2, <1>3, <2>1, NoRequestNames
  <1>6. ASSUME NEW n \in Notes, Edit(u, n) PROVE NamesInv'
    <2>1. NameOK(u)'
      <3>1. CASE job[u] = NoJob
        <4>1. note'[u] = n /\ job'[u] = NoJob /\ filed'[u] = Named(n) /\ cat' = cat
          BY <1>6, <3>1 DEF Edit, FamilyOK, NoteOK, FiledOK
        <4>2. Destined(u)' = n
          BY <4>1 DEF Destined
        <4>3. Named(n) # None => cat[Named(n)].name = n
          BY NamedType
        <4> QED
          BY <4>1, <4>2, <4>3 DEF NameOK, Decided
      <3>2. CASE job[u] # NoJob
        <4>1. /\ NameOK(u) /\ filed' = filed /\ Destined(u)' = Destined(u)
              /\ u \in excepted => u \in excepted'
          BY <1>6, <3>2 DEF Edit, NamesInv, NameOK, Destined
        <4>2. \A p \in Requests : Catches(req[p], u) => Catches(req[p], u)'
          BY <1>1, <4>1, CatchesOn
        <4> QED
          BY <1>1, <4>1, <4>2, NameUntouched
      <3> QED
        BY <3>1, <3>2
    <2> QED
      BY <1>1, <1>2, <1>3, <2>1, NoRequestNames
  <1> QED
    BY <1>4, <1>5, <1>6

LEMMA NamesKept == FamilyOK /\ NamesInv /\ [Next]_vars => NamesInv'
  <1> SUFFICES ASSUME FamilyOK, NamesInv, [Next]_vars PROVE NamesInv'
    OBVIOUS
  <1>1. ASSUME UNCHANGED <<note, job, req, filed, excepted>>,
               \A c \in Cats : cat[c].at = "new" \/ cat'[c] = cat[c]
        PROVE  NamesInv'
    <2>1. \A t \in Txns : filed'[t] = filed[t] /\ Destined(t)' = Destined(t)
      BY <1>1 DEF Destined
    <2>2. None \notin Txns
      BY LabelsAssumption
    <2> QED
      BY <1>1, <2>1, <2>2, NoRequestNames
  <1>2. CASE UNCHANGED vars
    BY <1>1, <1>2 DEF vars
  <1>3. ASSUME NEW q \in Requests, Works(q) PROVE NamesInv'
    BY <1>3, RenamedNames, CarryNames, QueuedNames, WorksNames, EndsNames DEF Works
  <1>4. ASSUME NEW c \in Cats, NEW n \in Names, Create(c, n) PROVE NamesInv'
    BY <1>1, <1>4 DEF Create, FamilyOK, CatOK
  <1>5. ASSUME NEW r \in Rules, NEW c \in Cats, NEW ms, NEW on, ChangeRule(r, c, ms, on)
        PROVE  NamesInv'
    BY <1>1, <1>5 DEF ChangeRule
  <1>6. ASSUME NEW r \in Rules, RemoveRule(r) PROVE NamesInv'
    BY <1>1, <1>6 DEF RemoveRule
  <1>7. ASSUME NEW m \in Merchants, Unlabel(m) \/ Restore(m) PROVE NamesInv'
    BY <1>1, <1>7 DEF Unlabel, Restore
  <1> QED
    BY <1>2, <1>3, <1>4, <1>5, <1>6, <1>7, AskedNames, QueueNames DEF Next

LEMMA InitNames == Init => NamesInv
  BY DEF Init, NamesInv, Decided

\* Once its job is done, a transaction carries the name its category has now: what a
\* rename's list catches is rewritten, whatever requests, edits and writes cross it,
\* and what it misses is missed for one of the causes at RenameCarriesNotes.
THEOREM RenamesCarryNotes == Spec => []RenameCarriesNotes
  <1>1. Init => FamilyOK /\ NamesInv
    BY InitFamily, InitNames
  <1>2. FamilyOK /\ NamesInv /\ [Next]_vars => (FamilyOK /\ NamesInv)'
    BY FamilyKept, NamesKept
  <1>3. NamesInv => RenameCarriesNotes
    BY DEF NamesInv, RenameCarriesNotes, Decided, Destined, Catches, Renaming
  <1> QED
    BY <1>1, <1>2, <1>3, PTL DEF Spec


=============================================================================
