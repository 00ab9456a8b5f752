--------------------------- MODULE PipelineProofs ---------------------------
(* Proofs about Pipeline: its types, that nothing is swallowed, and that   *)
(* it implements Announcements.                                            *)
EXTENDS Pipeline, TLAPS

-----------------------------------------------------------------------------
(* Types.                                                                  *)

\* A queue takes an item or drops it; it never outgrows its capacity.
LEMMA OfferType ==
    ASSUME NEW q \in Seq(Item), Len(q) <= QueueSize, NEW t \in Txns,
           NEW notify \in BOOLEAN
    PROVE  Offer(q, t, notify) \in Seq(Item) /\ Len(Offer(q, t, notify)) <= QueueSize
<1>1. [txn |-> t, notify |-> notify] \in Item
  BY DEF Item
<1> QED
  BY <1>1, PipelineAssumption DEF Offer

\* So do the queues of the replicas.
LEMMA EnqueuedType ==
    ASSUME TypeOK, NEW r \in Replicas, NEW t \in Txns, NEW notify \in BOOLEAN
    PROVE  /\ Enqueued(r, t, notify) \in [Replicas -> Seq(Item)]
           /\ \A p \in Replicas : Len(Enqueued(r, t, notify)[p]) <= QueueSize
<1>1. queue[r] \in Seq(Item) /\ Len(queue[r]) <= QueueSize
  BY DEF TypeOK
<1>2. /\ Offer(queue[r], t, notify) \in Seq(Item)
      /\ Len(Offer(queue[r], t, notify)) <= QueueSize
  BY <1>1, OfferType
<1> QED
  BY <1>2 DEF Enqueued, TypeOK

\* A worker without a transaction.
LEMMA IdleType == Idle \in Worker
  BY DEF Idle, Worker, Notes

\* A worker at its new place is a worker.
LEMMA BecomeType ==
    ASSUME TypeOK, NEW w \in Workers, NEW x \in Worker, Become(w, x)
    PROVE  worker' \in [Workers -> Worker]
  BY DEF TypeOK, Become

\* A loaded row.
LEMMA LoadedType ==
    ASSUME TypeOK, NEW t \in Txns, NEW notify \in BOOLEAN
    PROVE  Loaded(t, notify) \in Worker
<1>1. row[t] \in Row
  BY DEF TypeOK
<1>2. row[t].note \in Notes
  BY <1>1 DEF Row
<1> QED
  BY <1>2 DEF Loaded, Idle, Worker, Notes

\* What process makes of a worker between two statements.
LEMMA ResolvedFields ==
    ASSUME NEW x \in Worker, NEW p \in BOOLEAN, NEW q \in BOOLEAN
    PROVE  /\ Resolved(x, p, q) \in Worker
           /\ Resolved(x, p, q).at = "settle"
           /\ Resolved(x, p, q).txn = x.txn
           /\ Resolved(x, p, q).left = x.left
  BY DEF Resolved, Worker, Notes

LEMMA ClaimedFields ==
    ASSUME NEW x \in Worker, NEW m \in Suggestions \cup {NoMatch}
    PROVE  /\ Claimed(x, m) \in Worker
           /\ Claimed(x, m).at = "address"
           /\ Claimed(x, m).txn = x.txn
           /\ Claimed(x, m).silent = x.silent
           /\ Claimed(x, m).left = x.left
  BY DEF Claimed, Worker

LEMMA TellingFields ==
    ASSUME NEW x \in Worker, NEW A \in SUBSET Users, NEW W \in SUBSET Users
    PROVE  /\ Telling(x, A, W) \in Worker
           /\ Telling(x, A, W).at = "tell"
           /\ Telling(x, A, W).txn = x.txn
           /\ Telling(x, A, W).silent = x.silent
           /\ Telling(x, A, W).left = A
  BY DEF Telling, Worker

LEMMA TurnFields ==
    ASSUME NEW x \in Worker, NEW u \in Users, NEW g \in BOOLEAN
    PROVE  /\ Turn(x, u, g) \in Worker
           /\ Turn(x, u, g).at = x.at
           /\ Turn(x, u, g).txn = x.txn
           /\ Turn(x, u, g).silent = x.silent
           /\ Turn(x, u, g).left = x.left
           /\ Turn(x, u, g).turn = {u}
           /\ Turn(x, u, g).nudge = g
  BY DEF Turn, Worker

\* The loop of notify, one recipient further.
LEMMA ToldFields ==
    ASSUME NEW x \in Worker, NEW u \in Users
    PROVE  /\ Told(x, u) \in Worker
           /\ x.left = {u} => Told(x, u) = Idle
           /\ x.left # {u} => /\ Told(x, u).at = x.at
                              /\ Told(x, u).txn = x.txn
                              /\ Told(x, u).silent = x.silent
                              /\ Told(x, u).left = x.left \ {u}
<1> DEFINE y == [x EXCEPT !.left = @ \ {u}, !.wants = @ \ {u}, !.turn = {}, !.nudge = FALSE]
<1>1. /\ y \in Worker
      /\ y.at = x.at /\ y.txn = x.txn /\ y.silent = x.silent
      /\ y.left = x.left \ {u}
  BY DEF Worker
<1> QED
  BY <1>1, IdleType DEF Told

\* Audiences are members of the family.
LEMMA AudienceType ==
    ASSUME NEW t \in Txns, NEW A \in Audiences(t)
    PROVE  A \in SUBSET Users /\ A # {}
  BY PipelineAssumption DEF Audiences

\* The initial state.
LEMMA InitType == Init => TypeOK
<1> SUFFICES ASSUME Init PROVE TypeOK
  OBVIOUS
<1>1. /\ row \in [Txns -> Row]
      /\ crew \in [Txns -> Notes]
      /\ job \in [Txns -> {"none", "user", "auto"}]
  BY DEF Init, Row, Notes
<1>2. /\ queue \in [Replicas -> Seq(Item)]
      /\ \A r \in Replicas : Len(queue[r]) <= QueueSize
      /\ sweep \in [Replicas -> SUBSET Txns]
  BY PipelineAssumption DEF Init
<1>3. /\ worker \in [Workers -> Worker]
      /\ \A w \in Workers : worker[w].at # "idle" => worker[w].txn \in Txns
  BY IdleType DEF Init, Idle
<1>4. /\ cooling \in [Users -> SUBSET Suggestions]
      /\ heard \in [Txns -> [Users -> Nat]]
      /\ excused \in SUBSET Txns
      /\ owed \in SUBSET (Txns \X Users)
      /\ edits \in 0..MaxEdits
      /\ crashes \in 0..MaxCrashes
  BY PipelineAssumption DEF Init
<1> QED
  BY <1>1, <1>2, <1>3, <1>4 DEF TypeOK

\* TypeOK, cut where the actions cut it.
StoreOK == /\ row \in [Txns -> Row]
           /\ crew \in [Txns -> Notes]
           /\ job \in [Txns -> {"none", "user", "auto"}]
QueueOK == /\ queue \in [Replicas -> Seq(Item)]
           /\ \A r \in Replicas : Len(queue[r]) <= QueueSize
SweepOK == sweep \in [Replicas -> SUBSET Txns]
WorkersOK == /\ worker \in [Workers -> Worker]
             /\ \A w \in Workers : worker[w].at # "idle" => worker[w].txn \in Txns
CoolingOK == cooling \in [Users -> SUBSET Suggestions]
HistoryOK == /\ heard \in [Txns -> [Users -> Nat]]
             /\ excused \in SUBSET Txns
             /\ owed \in SUBSET (Txns \X Users)
BoundsOK  == edits \in 0..MaxEdits /\ crashes \in 0..MaxCrashes

LEMMA TypeParts ==
    TypeOK <=> StoreOK /\ QueueOK /\ SweepOK /\ WorkersOK /\ CoolingOK
               /\ HistoryOK /\ BoundsOK
  BY DEF TypeOK, StoreOK, QueueOK, SweepOK, WorkersOK, CoolingOK, HistoryOK, BoundsOK

LEMMA TypePartsNext ==
    StoreOK' /\ QueueOK' /\ SweepOK' /\ WorkersOK' /\ CoolingOK' /\ HistoryOK'
    /\ BoundsOK' => TypeOK'
  BY DEF TypeOK, StoreOK, QueueOK, SweepOK, WorkersOK, CoolingOK, HistoryOK, BoundsOK

\* What a step leaves alone keeps its type.
LEMMA Unchanged ==
    ASSUME TypeOK
    PROVE  /\ UNCHANGED <<row, crew, job>> => StoreOK'
           /\ UNCHANGED queue => QueueOK'
           /\ UNCHANGED sweep => SweepOK'
           /\ UNCHANGED worker => WorkersOK'
           /\ UNCHANGED cooling => CoolingOK'
           /\ UNCHANGED <<heard, excused, owed>> => HistoryOK'
           /\ UNCHANGED <<edits, crashes>> => BoundsOK'
  BY TypeParts
     DEF StoreOK, QueueOK, SweepOK, WorkersOK, CoolingOK, HistoryOK, BoundsOK

\* What is excused so far stays excused.
LEMMA HushedType ==
    ASSUME TypeOK, NEW t \in Txns
    PROVE  /\ Hushed(t) \in SUBSET Txns
           /\ excused \subseteq Hushed(t)
           /\ t \in Hushed(t) \/ row[t].notified
  BY DEF TypeOK, Hushed

\* A worker that goes on, or is idle.
LEMMA BecomeOK ==
    ASSUME TypeOK, NEW w \in Workers, NEW x \in Worker,
           x.at # "idle" => x.txn \in Txns, Become(w, x)
    PROVE  WorkersOK'
<1>1. worker' = [worker EXCEPT ![w] = x] /\ worker \in [Workers -> Worker]
  BY DEF Become, TypeOK
<1>2. \A v \in Workers : worker'[v] = IF v = w THEN x ELSE worker[v]
  BY <1>1
<1> QED
  BY <1>1, <1>2 DEF WorkersOK, TypeOK

LEMMA BecomeIdleOK ==
    ASSUME TypeOK, NEW w \in Workers, Become(w, Idle)
    PROVE  WorkersOK'
  BY IdleType, BecomeOK DEF Idle

\* What the steps make of a row.
LEMMA RowFields ==
    ASSUME NEW x \in Row
    PROVE  /\ \A n \in Notes : /\ Noted(x, n) \in Row
                               /\ Noted(x, n).notified = x.notified
           /\ Older(x) \in Row /\ Older(x).notified = x.notified
           /\ Gone(x) \in Row /\ Gone(x).notified = x.notified
<1>1. \A n \in Notes : Noted(x, n) \in Row /\ Noted(x, n).notified = x.notified
  BY DEF Noted, Row, Notes
<1>2. Older(x) \in Row /\ Older(x).notified = x.notified
  BY DEF Older, Row
<1>3. Gone(x) \in Row /\ Gone(x).notified = x.notified
  BY DEF Gone, Row
<1> QED
  BY <1>1, <1>2, <1>3

\* A row set to x, whose notified_at is as before.
LEMMA SetRow ==
    ASSUME TypeOK, NEW t \in Txns, NEW x \in Row, row' = [row EXCEPT ![t] = x],
           x.notified = row[t].notified
    PROVE  /\ row' \in [Txns -> Row]
           /\ \A s \in Txns : row'[s].notified = row[s].notified
  BY DEF TypeOK

\* A claimed row.
LEMMA NotifiedRow ==
    ASSUME TypeOK, NEW t \in Txns, row' = Notified(t)
    PROVE  /\ row' \in [Txns -> Row]
           /\ row'[t].notified
           /\ \A s \in Txns : s # t => row'[s] = row[s]
<1>1. [row[t] EXCEPT !.notified = TRUE] \in Row /\ [row[t] EXCEPT !.notified = TRUE].notified
  BY DEF TypeOK, Row
<1> QED
  BY <1>1 DEF TypeOK, Notified

\* Steps around the pipeline keep types.
LEMMA OutsideType ==
    ASSUME TypeOK, NEW t \in Txns, Outside(t)
    PROVE  TypeOK'
<1>0. row[t] \in Row
  BY DEF TypeOK
<1>1. CASE GrowOlder(t)
  <2>1. row' \in [Txns -> Row]
    BY <1>0, <1>1, RowFields, SetRow DEF GrowOlder, TypeOK
  <2> QED
    BY <1>1, <2>1, HushedType, TypeParts, TypePartsNext, Unchanged
       DEF GrowOlder, StoreOK, HistoryOK, memory, bounds
<1>2. CASE Vanish(t)
  <2>1. row' \in [Txns -> Row]
    BY <1>0, <1>2, RowFields, SetRow DEF Vanish, TypeOK
  <2>2. job' \in [Txns -> {"none", "user", "auto"}]
    BY <1>2, TypeParts DEF Vanish, StoreOK
  <2> QED
    BY <1>2, <2>1, <2>2, TypeParts, TypePartsNext, Unchanged DEF Vanish, StoreOK, memory, history, bounds
<1>3. CASE SetCategory(t)
  <2>1. job' \in [Txns -> {"none", "user", "auto"}] /\ edits' \in 0..MaxEdits
    BY <1>3, PipelineAssumption DEF SetCategory, Edit, TypeOK
  <2> QED
    BY <1>3, <2>1, TypeParts, TypePartsNext, Unchanged
       DEF SetCategory, StoreOK, BoundsOK, memory, history
<1>4. CASE WriteNote(t)
  <2>1. row' \in [Txns -> Row]
    BY <1>0, <1>4, RowFields, SetRow DEF WriteNote, TypeOK, Notes
  <2>2. /\ job' \in [Txns -> {"none", "user", "auto"}]
        /\ crew' \in [Txns -> Notes]
    BY <1>4, TypeParts DEF WriteNote, StoreOK, Notes
  <2> QED
    BY <1>4, <2>1, <2>2, HushedType, TypeParts, TypePartsNext, Unchanged
       DEF WriteNote, StoreOK, HistoryOK, memory, bounds
<1>5. ASSUME NEW n \in Notes, WriteInCrew(t, n)
      PROVE  TypeOK'
  <2>1. crew' \in [Txns -> Notes] /\ edits' \in 0..MaxEdits
    BY <1>5, PipelineAssumption DEF WriteInCrew, Edit, TypeOK
  <2> QED
    BY <1>5, <2>1, TypeParts, TypePartsNext, Unchanged
       DEF WriteInCrew, StoreOK, BoundsOK, memory, history
<1> QED
  BY <1>1, <1>2, <1>3, <1>4, <1>5 DEF Outside

\* Steps that fill the queue keep types.
LEMMA FillingType ==
    ASSUME TypeOK, NEW r \in Replicas, NEW t \in Txns,
           Ingest(r, t) \/ SweepNext(r, t) \/ SyncNote(r, t)
    PROVE  TypeOK'
<1>0. row[t] \in Row /\ crew[t] \in Notes
  BY DEF TypeOK
<1>1. \A b \in BOOLEAN : queue' = Enqueued(r, t, b) => QueueOK'
  BY EnqueuedType DEF QueueOK
<1>2. CASE Ingest(r, t)
  <2>1. PICK age \in {"fresh", "old"}, notify \in BOOLEAN :
           /\ row' = [row EXCEPT ![t] = [at |-> "stored", age |-> age,
                                         notified |-> FALSE, note |-> crew[t]]]
           /\ queue' \in {queue, Enqueued(r, t, notify)}
           /\ excused' \in {excused, Hushed(t)}
    BY <1>2 DEF Ingest
  <2>2. row' \in [Txns -> Row]
    <3>1. [at |-> "stored", age |-> age, notified |-> FALSE, note |-> crew[t]] \in Row
      BY <1>0 DEF Row
    <3> QED
      BY <2>1, <3>1 DEF TypeOK
  <2>3. QueueOK'
    BY <1>1, <2>1, Unchanged
  <2>4. excused' \in SUBSET Txns
    BY <2>1, HushedType DEF TypeOK
  <2> QED
    BY <1>2, <2>2, <2>3, <2>4, TypeParts, TypePartsNext, Unchanged
       DEF Ingest, StoreOK, HistoryOK, bounds
<1>3. CASE SweepNext(r, t)
  <2>1. SweepOK'
    BY <1>3, TypeParts DEF SweepNext, SweepOK
  <2>2. QueueOK'
    BY <1>1, <1>3 DEF SweepNext
  <2> QED
    BY <1>3, <2>1, <2>2, TypeParts, TypePartsNext, Unchanged DEF SweepNext, store, history, bounds
<1>4. CASE SyncNote(r, t)
  <2>1. row' \in [Txns -> Row]
    BY <1>0, <1>4, RowFields, SetRow DEF SyncNote, TypeOK
  <2>2. QueueOK'
    BY <1>1, <1>4, TypeParts DEF SyncNote, QueueOK
  <2>3. excused' \in SUBSET Txns
    BY <1>4, HushedType DEF SyncNote, TypeOK
  <2> QED
    BY <1>4, <2>1, <2>2, <2>3, TypeParts, TypePartsNext, Unchanged
       DEF SyncNote, StoreOK, HistoryOK, bounds
<1> QED
  BY <1>2, <1>3, <1>4

\* Sweeps, crashes and the end of a cooldown keep types.
LEMMA ReplicaType ==
    ASSUME TypeOK, NEW r \in Replicas, Sweep(r) \/ Crash(r)
    PROVE  TypeOK'
<1>1. CASE Sweep(r)
  <2>1. SweepOK'
    BY <1>1, TypeParts DEF Sweep, SweepOK, Unnotified
  <2> QED
    BY <1>1, <2>1, TypeParts, TypePartsNext, Unchanged DEF Sweep, store, history, bounds
<1>2. CASE Crash(r)
  <2>1. QueueOK' /\ SweepOK'
    <3>1. <<>> \in Seq(Item) /\ Len(<<>>) <= QueueSize
      BY PipelineAssumption
    <3> QED
      BY <1>2, <3>1, TypeParts DEF Crash, QueueOK, SweepOK
  <2>2. WorkersOK'
    BY <1>2, IdleType, TypeParts DEF Crash, WorkersOK, Idle
  <2>3. HistoryOK'
    <3>1. \A w \in Workers : Announcing(worker[w]) => worker[w].txn \in Txns
      BY DEF TypeOK, Announcing
    <3> QED
      BY <1>2, <3>1, TypeParts DEF Crash, HistoryOK
  <2>4. BoundsOK'
    BY <1>2, TypeParts, PipelineAssumption DEF Crash, BoundsOK
  <2> QED
    BY <1>2, <2>1, <2>2, <2>3, <2>4, TypeParts, TypePartsNext, Unchanged DEF Crash, store
<1> QED
  BY <1>1, <1>2

LEMMA CooldownType ==
    ASSUME TypeOK, NEW u \in Users, NEW s \in Suggestions, CooldownEnds(u, s)
    PROVE  TypeOK'
<1>1. CoolingOK'
  BY TypeParts DEF CooldownEnds, CoolingOK
<1> QED
  BY <1>1, TypeParts, TypePartsNext, Unchanged DEF CooldownEnds, store, memory, history, bounds

\* Loading keeps types.
LEMMA LoadType ==
    ASSUME TypeOK, NEW w \in Workers,
           Take(w) \/ \E t \in Txns : Reassess(w, t)
    PROVE  TypeOK'
<1>1. CASE Take(w)
  <2>0. Home[w] \in Replicas
    BY PipelineAssumption
  <2>1. QueueOK'
    <3>1. queue[Home[w]] \in Seq(Item) /\ queue[Home[w]] # <<>> /\ Len(queue[Home[w]]) <= QueueSize
      BY <1>1, <2>0, TypeParts DEF Take, QueueOK
    <3>2. Tail(queue[Home[w]]) \in Seq(Item) /\ Len(Tail(queue[Home[w]])) <= QueueSize
      BY <3>1, PipelineAssumption
    <3> QED
      BY <1>1, <2>0, <3>2, TypeParts DEF Take, QueueOK
  <2>2. WorkersOK'
    <3>1. Head(queue[Home[w]]) \in Item
      BY <1>1, <2>0, TypeParts DEF Take, QueueOK
    <3>2. CASE Become(w, Idle)
      BY <3>2, BecomeIdleOK
    <3>3. CASE Become(w, Loaded(Head(queue[Home[w]]).txn, Head(queue[Home[w]]).notify))
      <4>1. Head(queue[Home[w]]).txn \in Txns /\ Head(queue[Home[w]]).notify \in BOOLEAN
        BY <3>1 DEF Item
      <4>2. Loaded(Head(queue[Home[w]]).txn, Head(queue[Home[w]]).notify) \in Worker
        BY <4>1, LoadedType
      <4>3. Loaded(Head(queue[Home[w]]).txn, Head(queue[Home[w]]).notify).txn
              = Head(queue[Home[w]]).txn
        BY DEF Loaded, Idle
      <4> QED
        BY <3>3, <4>1, <4>2, <4>3, BecomeOK
    <3> QED
      BY <1>1, <3>2, <3>3 DEF Take
  <2> QED
    BY <1>1, <2>1, <2>2, TypeParts, TypePartsNext, Unchanged DEF Take, store, history, bounds
<1>2. ASSUME NEW t \in Txns, Reassess(w, t) PROVE TypeOK'
  <2>1. WorkersOK'
    <3>1. Loaded(t, FALSE) \in Worker /\ Loaded(t, FALSE).txn = t
      BY LoadedType DEF Loaded, Idle
    <3> QED
      BY <1>2, <3>1, BecomeOK DEF Reassess
  <2>2. HistoryOK'
    BY <1>2, HushedType, TypeParts DEF Reassess, HistoryOK
  <2> QED
    BY <1>2, <2>1, <2>2, TypeParts, TypePartsNext, Unchanged DEF Reassess, store, bounds
<1> QED
  BY <1>1, <1>2

\* Resolving keeps types.
LEMMA ResolveType ==
    ASSUME TypeOK, NEW w \in Workers, Resolve(w)
    PROVE  TypeOK'
<1>0. worker[w] \in Worker /\ (worker[w].at = "resolve" => worker[w].txn \in Txns)
  BY DEF TypeOK
<1>1. \A a \in BOOLEAN, b \in BOOLEAN :
        worker[w].at = "resolve" /\ Become(w, Resolved(worker[w], a, b)) => WorkersOK'
  BY <1>0, ResolvedFields, BecomeOK
<1>2. CASE ResolveWritten(w)
  <2>1. WorkersOK'
    BY <1>1, <1>2 DEF ResolveWritten
  <2> QED
    BY <1>2, <2>1, TypeParts, TypePartsNext, Unchanged DEF ResolveWritten, store, history, bounds
<1>3. CASE ResolveBlank(w)
  <2>1. WorkersOK'
    BY <1>1, <1>3 DEF ResolveBlank
  <2>2. StoreOK'
    BY <1>3, TypeParts DEF ResolveBlank, StoreOK
  <2>3. HistoryOK'
    BY <1>0, <1>3, HushedType, TypeParts DEF ResolveBlank, HistoryOK
  <2> QED
    BY <1>3, <2>1, <2>2, <2>3, TypeParts, TypePartsNext, Unchanged DEF ResolveBlank, bounds
<1>4. CASE ResolveNone(w)
  <2>1. WorkersOK'
    BY <1>1, <1>4 DEF ResolveNone
  <2> QED
    BY <1>4, <2>1, TypeParts, TypePartsNext, Unchanged DEF ResolveNone, store, history, bounds
<1> QED
  BY <1>2, <1>3, <1>4 DEF Resolve

\* Settling keeps types.
LEMMA SettleType ==
    ASSUME TypeOK, NEW w \in Workers, Absorb(w) \/ Claim(w) \/ ClaimError(w)
    PROVE  TypeOK'
<1>0. worker[w] \in Worker /\ worker[w].txn \in Txns
  BY DEF TypeOK, Absorb, Claim, ClaimError
<1>1. row' = Notified(worker[w].txn) \/ row' = row => row' \in [Txns -> Row]
  BY <1>0, NotifiedRow DEF TypeOK
<1>2. CASE Absorb(w) \/ ClaimError(w)
  <2>1. row' \in [Txns -> Row]
    BY <1>1, <1>2 DEF Absorb, ClaimError
  <2>2. HistoryOK'
    BY <1>0, <1>2, TypeParts DEF Absorb, ClaimError, HistoryOK, history
  <2>3. WorkersOK'
    BY <1>2, BecomeIdleOK DEF Absorb, ClaimError
  <2> QED
    BY <1>2, <2>1, <2>2, <2>3, TypeParts, TypePartsNext, Unchanged
       DEF Absorb, ClaimError, StoreOK, bounds
<1>3. CASE Claim(w)
  <2>1. PICK m \in Matches(worker[w]) :
          IF Wins(worker[w].txn)
          THEN row' = Notified(worker[w].txn) /\ Become(w, Claimed(worker[w], m))
          ELSE row' = row /\ Become(w, Idle)
    BY <1>3 DEF Claim
  <2>2. m \in Suggestions \cup {NoMatch}
    BY DEF Matches
  <2>3. row' \in [Txns -> Row]
    BY <1>1, <2>1
  <2>4. WorkersOK'
    BY <1>0, <2>1, <2>2, ClaimedFields, BecomeOK, BecomeIdleOK
  <2> QED
    BY <1>3, <2>3, <2>4, TypeParts, TypePartsNext, Unchanged
       DEF Claim, StoreOK, history, bounds
<1> QED
  BY <1>2, <1>3

\* Announcing keeps types.
LEMMA AnnounceType ==
    ASSUME TypeOK, NEW w \in Workers,
           \/ Address(w) \/ AddressError(w)
           \/ \E u \in Users : Nudge(w, u) \/ Tell(w, u)
    PROVE  TypeOK'
<1>0. worker[w] \in Worker /\ worker[w].txn \in Txns
  BY DEF TypeOK, Address, AddressError, Tell, TellNudge, TellPlain,
         Nudge, ClaimNudge, RefuseNudge, Asks
<1>1. CASE Address(w)
  <2>1. PICK A \in Audiences(worker[w].txn) : \E W \in SUBSET A :
             Become(w, Telling(worker[w], A, W))
    BY <1>1 DEF Address
  <2>2. A \in SUBSET Users
    BY <1>0, AudienceType
  <2>3. PICK W \in SUBSET A : Become(w, Telling(worker[w], A, W))
    BY <2>1
  <2>4. W \in SUBSET Users
    BY <2>2
  <2>5. WorkersOK'
    BY <1>0, <2>2, <2>3, <2>4, TellingFields, BecomeOK
  <2> QED
    BY <1>1, <2>5, TypeParts, TypePartsNext, Unchanged DEF Address, store, history, bounds
<1>2. CASE AddressError(w)
  <2>1. WorkersOK'
    BY <1>2, BecomeIdleOK DEF AddressError
  <2>2. HistoryOK'
    BY <1>0, <1>2, TypeParts DEF AddressError, HistoryOK
  <2> QED
    BY <1>2, <2>1, <2>2, TypeParts, TypePartsNext, Unchanged DEF AddressError, store, bounds
<1>3. ASSUME NEW u \in Users, Tell(w, u) PROVE TypeOK'
  <2>1. WorkersOK'
    <3>1. Become(w, Told(worker[w], u))
      BY <1>3 DEF Tell, TellNudge, TellPlain
    <3>2. Told(worker[w], u) \in Worker
      BY <1>0, ToldFields
    <3>3. Told(worker[w], u).at # "idle" => Told(worker[w], u).txn \in Txns
      BY <1>0, ToldFields DEF Idle
    <3> QED
      BY <3>1, <3>2, <3>3, BecomeOK
  <2>2. HistoryOK'
    BY <1>3, TypeParts DEF Tell, TellNudge, TellPlain, Send, HistoryOK
  <2> QED
    BY <1>3, <2>1, <2>2, TypeParts, TypePartsNext, Unchanged
       DEF Tell, TellNudge, TellPlain, store, bounds
<1>4. ASSUME NEW u \in Users, Nudge(w, u) PROVE TypeOK'
  <2>1. PICK g \in BOOLEAN : Become(w, Turn(worker[w], u, g))
    BY <1>4 DEF Nudge, ClaimNudge, RefuseNudge
  <2>2. worker[w].match \in Suggestions
    BY <1>0, <1>4 DEF Nudge, ClaimNudge, RefuseNudge, Asks, Worker
  <2>3. WorkersOK'
    BY <1>0, <2>1, TurnFields, BecomeOK
  <2>4. CoolingOK'
    <3>1. Spent(u, worker[w].match) \in [Users -> SUBSET Suggestions]
      BY <2>2, TypeParts DEF Spent, CoolingOK
    <3> QED
      BY <1>4, <3>1, TypeParts DEF Nudge, ClaimNudge, RefuseNudge, CoolingOK
  <2>5. HistoryOK'
    <3>1. <<worker[w].txn, u>> \in Txns \X Users
      BY <1>0
    <3> QED
      BY <1>4, <3>1, TypeParts DEF Nudge, ClaimNudge, RefuseNudge, HistoryOK, history
  <2> QED
    BY <1>4, <2>3, <2>4, <2>5, TypeParts, TypePartsNext, Unchanged
       DEF Nudge, ClaimNudge, RefuseNudge, store, bounds
<1> QED
  BY <1>1, <1>2, <1>3, <1>4

\* Rows, queues, sweeps and workers of the pipeline keep their types, whatever
\* the numbers of transactions, replicas and workers and the bounds.
THEOREM TypeCorrect == Spec => []TypeOK
<1>1. TypeOK /\ [Next]_vars => TypeOK'
  <2> SUFFICES ASSUME TypeOK, [Next]_vars PROVE TypeOK'
    OBVIOUS
  <2>1. CASE UNCHANGED vars
    BY <2>1, TypeParts, TypePartsNext, Unchanged DEF vars, store, memory, history, bounds
  <2>2. ASSUME NEW r \in Replicas, NEW t \in Txns,
               Ingest(r, t) \/ SweepNext(r, t) \/ SyncNote(r, t)
        PROVE  TypeOK'
    BY <2>2, FillingType
  <2>3. ASSUME NEW r \in Replicas, Sweep(r) \/ Crash(r) PROVE TypeOK'
    BY <2>3, ReplicaType
  <2>4. ASSUME NEW w \in Workers, Process(w) \/ \E t \in Txns : Reassess(w, t)
        PROVE  TypeOK'
    BY <2>4, LoadType, ResolveType, SettleType, AnnounceType DEF Process
  <2>5. ASSUME NEW t \in Txns, Outside(t) PROVE TypeOK'
    BY <2>5, OutsideType
  <2>6. ASSUME NEW u \in Users, NEW s \in Suggestions, CooldownEnds(u, s)
        PROVE  TypeOK'
    BY <2>6, CooldownType
  <2> QED
    BY <2>1, <2>2, <2>3, <2>4, <2>5, <2>6 DEF Next
<1> QED
  BY <1>1, InitType, PTL DEF Spec

-----------------------------------------------------------------------------
(* The invariant, and what each kind of step does to module Announcements' *)
(* view of the state.                                                      *)

\* Only worker w moves.
Moves(w, x) == /\ worker'[w] = x
               /\ \A v \in Workers : v # w => worker'[v] = worker[v]

LEMMA BecomeMoves ==
    ASSUME TypeOK, NEW w \in Workers, NEW x, Become(w, x)
    PROVE  Moves(w, x)
  BY DEF Become, Moves, TypeOK

\* No row is claimed by the step.
NoClaim == \A t \in Txns : row'[t].notified = row[t].notified

\* What FreshIsHeard says of one transaction.
HeardRight(t) ==
    \E A \in Audiences(t) : \A u \in Users : heard[t][u] = IF u \in A THEN 1 ELSE 0

LEMMA FreshParts ==
    FreshIsHeard <=>
        \A t \in Txns : row[t].notified /\ t \notin excused
                         /\ (\A w \in Workers : Announcing(worker[w]) => worker[w].txn # t)
                      => HeardRight(t)
  BY DEF FreshIsHeard, HeardRight

LEMMA FreshPartsNext ==
    FreshIsHeard' <=>
        \A t \in Txns : row'[t].notified /\ t \notin excused'
                         /\ (\A w \in Workers : Announcing(worker'[w]) => worker'[w].txn # t)
                      => HeardRight(t)'
  BY DEF FreshIsHeard, HeardRight, Announcing, Audiences

\* Phase and dues of t depend on the rows' claims and the announcing workers.
LEMMA SameView ==
    ASSUME NEW w \in Workers, NEW x, NEW t \in Txns, Moves(w, x),
           row'[t].notified = row[t].notified,
           x.txn = t /\ x.at = "address"
             <=> worker[w].txn = t /\ worker[w].at = "address",
           \A u \in Users : (x.txn = t /\ u \in x.left)
                              <=> (worker[w].txn = t /\ u \in worker[w].left)
    PROVE  Phase(t)' = Phase(t) /\ Due(t)' = Due(t)
<1>1. (\E v \in Workers : worker'[v].at = "address" /\ worker'[v].txn = t)
        <=> (\E v \in Workers : worker[v].at = "address" /\ worker[v].txn = t)
  BY DEF Moves
<1>2. Phase(t)' = Phase(t)
  BY <1>1 DEF Phase
<1>3. \A u \in Users : (\E v \in Workers : worker'[v].txn = t /\ u \in worker'[v].left)
                     <=> (\E v \in Workers : worker[v].txn = t /\ u \in worker[v].left)
  BY DEF Moves
<1>4. Due(t)' = Due(t)
  BY <1>3 DEF Due
<1> QED
  BY <1>2, <1>4

\* A view that does not change at all.
LEMMA Stutters ==
    ASSUME heard' = heard, \A t \in Txns : Phase(t)' = Phase(t) /\ Due(t)' = Due(t)
    PROVE  [Announced!Next]_(Announced!vars)
<1>1. /\ [t \in Txns |-> Phase(t)]' = [t \in Txns |-> Phase(t)]
      /\ [t \in Txns |-> Due(t)]' = [t \in Txns |-> Due(t)]
  OBVIOUS
<1> QED
  BY <1>1 DEF Announced!vars

\* A worker that announces something has claimed it.
LEMMA AnnouncerKnows ==
    ASSUME TypeOK, PipelineInv, NEW w \in Workers
    PROVE  /\ Announcing(worker[w]) => worker[w].txn \in Txns /\ row[worker[w].txn].notified
           /\ worker[w].at # "tell" => worker[w].left = {}
  BY DEF TypeOK, PipelineInv, WorkerInv, Announcing

\* Steps in which no worker moves.
LEMMA StillStep ==
    ASSUME TypeOK, PipelineInv, NoClaim, worker' = worker, heard' = heard,
           excused \subseteq excused'
    PROVE  PipelineInv' /\ [Announced!Next]_(Announced!vars)
<1>1. WorkerInv'
  <2> SUFFICES ASSUME NEW w \in Workers
               PROVE  /\ worker[w].at # "tell" => worker[w].left = {}
                      /\ Announcing(worker[w]) => row'[worker[w].txn].notified
    BY DEF WorkerInv, Announcing
  <2> QED
    BY AnnouncerKnows DEF NoClaim
<1>2. OneAnnouncer'
  BY DEF PipelineInv, OneAnnouncer, Announcing
<1>3. UntoldHeardNothing'
  BY DEF PipelineInv, UntoldHeardNothing, NoClaim
<1>4. Progressing'
  BY DEF PipelineInv, Progressing, PartlyTold, Announcing, Audiences
<1>5. FreshIsHeard'
  BY DEF PipelineInv, FreshIsHeard, NoClaim, Announcing, Audiences
<1>6. \A t \in Txns : Phase(t)' = Phase(t) /\ Due(t)' = Due(t)
  BY DEF Phase, Due, NoClaim
<1> QED
  BY <1>1, <1>2, <1>3, <1>4, <1>5, <1>6, Stutters DEF PipelineInv

\* A worker that announces nothing goes on without announcing anything.
LEMMA BeforeStep ==
    ASSUME TypeOK, PipelineInv, NEW w \in Workers, NEW x, Moves(w, x), NoClaim,
           ~Announcing(worker[w]), ~Announcing(x), x.left = {},
           heard' = heard, excused \subseteq excused'
    PROVE  PipelineInv' /\ [Announced!Next]_(Announced!vars)
<1>0. /\ worker'[w] = x /\ \A v \in Workers : v # w => worker'[v] = worker[v]
      /\ worker[w].left = {}
  BY AnnouncerKnows DEF Moves, Announcing
<1>1. WorkerInv'
  <2> SUFFICES ASSUME NEW v \in Workers
               PROVE  /\ worker'[v].at # "tell" => worker'[v].left = {}
                      /\ Announcing(worker'[v]) => row'[worker'[v].txn].notified
    BY DEF WorkerInv, Announcing
  <2>1. CASE v = w
    BY <1>0, <2>1
  <2>2. CASE v # w
    BY <1>0, <2>2, AnnouncerKnows DEF NoClaim
  <2> QED
    BY <2>1, <2>2
<1>2. OneAnnouncer'
  BY <1>0 DEF PipelineInv, OneAnnouncer, Announcing
<1>3. UntoldHeardNothing'
  BY <1>0 DEF PipelineInv, UntoldHeardNothing, NoClaim, Announcing
<1>4. Progressing'
  BY <1>0 DEF PipelineInv, Progressing, PartlyTold, Announcing, Audiences
<1>5. FreshIsHeard'
  <2> SUFFICES ASSUME NEW t \in Txns, row'[t].notified, t \notin excused',
                      \A v \in Workers : Announcing(worker'[v]) => worker'[v].txn # t
               PROVE  HeardRight(t)'
    BY FreshPartsNext
  <2>1. HeardRight(t)
    BY <1>0, FreshParts DEF PipelineInv, NoClaim
  <2> QED
    BY <2>1 DEF HeardRight, Audiences
<1>6. ASSUME NEW t \in Txns PROVE Phase(t)' = Phase(t) /\ Due(t)' = Due(t)
  BY <1>0, SameView DEF NoClaim, Announcing
<1> QED
  BY <1>1, <1>2, <1>3, <1>4, <1>5, <1>6, Stutters DEF PipelineInv

\* A worker marks its row and is done: Announcements settles it.
LEMMA AbsorbStep ==
    ASSUME TypeOK, PipelineInv, NEW w \in Workers, Moves(w, Idle),
           NEW t \in Txns, worker[w].txn = t,
           worker[w].at = "settle", ~row[t].notified,
           row' = Notified(t), heard' = heard,
           t \in excused', excused \subseteq excused'
    PROVE  PipelineInv' /\ [Announced!Next]_(Announced!vars)
<1>0. /\ worker'[w] = Idle /\ \A v \in Workers : v # w => worker'[v] = worker[v]
      /\ ~Announcing(worker[w]) /\ ~Announcing(Idle)
      /\ worker[w].left = {} /\ Idle.left = {}
  BY AnnouncerKnows DEF Moves, Announcing, Idle
<1>1. /\ row'[t].notified
      /\ \A s \in Txns : s # t => row'[s].notified = row[s].notified
  BY DEF Notified, TypeOK, Row
<1>2. WorkerInv'
  <2> SUFFICES ASSUME NEW v \in Workers
               PROVE  /\ worker'[v].at # "tell" => worker'[v].left = {}
                      /\ Announcing(worker'[v]) => row'[worker'[v].txn].notified
    BY DEF WorkerInv, Announcing
  <2>1. CASE v = w
    BY <1>0, <2>1
  <2>2. CASE v # w
    BY <1>0, <1>1, <2>2, AnnouncerKnows
  <2> QED
    BY <2>1, <2>2
<1>3. OneAnnouncer'
  BY <1>0 DEF PipelineInv, OneAnnouncer, Announcing
<1>4. UntoldHeardNothing'
  BY <1>0, <1>1 DEF PipelineInv, UntoldHeardNothing, Announcing
<1>5. Progressing'
  BY <1>0 DEF PipelineInv, Progressing, PartlyTold, Announcing, Audiences
<1>6. FreshIsHeard'
  <2> SUFFICES ASSUME NEW s \in Txns, row'[s].notified, s \notin excused',
                      \A v \in Workers : Announcing(worker'[v]) => worker'[v].txn # s
               PROVE  HeardRight(s)'
    BY FreshPartsNext
  <2>1. s # t /\ row[s].notified /\ s \notin excused
    BY <1>1
  <2>2. HeardRight(s)
    BY <1>0, <2>1, FreshParts DEF PipelineInv
  <2> QED
    BY <2>2 DEF HeardRight, Audiences
<1>7. ASSUME NEW s \in Txns, s # t PROVE Phase(s)' = Phase(s) /\ Due(s)' = Due(s)
  BY <1>0, <1>1, <1>7, SameView DEF Announcing
<1>8. \A v \in Workers : Announcing(worker[v]) => worker[v].txn # t
  BY AnnouncerKnows
<1>9. Phase(t) = "open" /\ Phase(t)' = "settled"
  <2>1. ~\E v \in Workers : worker'[v].at = "address" /\ worker'[v].txn = t
    BY <1>0, <1>8 DEF Announcing
  <2> QED
    BY <1>1, <2>1 DEF Phase
<1>10. Due(t) = {} /\ Due(t)' = {}
  <2>1. \A v \in Workers : worker[v].txn = t => worker[v].left = {}
    BY <1>8, AnnouncerKnows DEF Announcing
  <2>2. \A v \in Workers : worker'[v].txn = t => worker'[v].left = {}
    BY <1>0, <2>1
  <2> QED
    BY <2>1, <2>2 DEF Due
<1>11. Announced!Settle(t)
  <2>1. [s \in Txns |-> Phase(s)]' = [[s \in Txns |-> Phase(s)] EXCEPT ![t] = "settled"]
    BY <1>7, <1>9
  <2>2. [s \in Txns |-> Due(s)]' = [s \in Txns |-> Due(s)]
    BY <1>7, <1>10
  <2> QED
    BY <1>9, <2>1, <2>2 DEF Announced!Settle
<1> QED
  BY <1>2, <1>3, <1>4, <1>5, <1>6, <1>11 DEF PipelineInv, Announced!Next

\* Nobody else announces what w announces, or is about to claim.
LEMMA Alone ==
    ASSUME TypeOK, PipelineInv, NEW w \in Workers, NEW t \in Txns, worker[w].txn = t,
           ~row[t].notified \/ Announcing(worker[w])
    PROVE  \A v \in Workers : v # w /\ worker[v].txn = t =>
               ~Announcing(worker[v]) /\ worker[v].left = {}
<1>1. \A v \in Workers : v # w /\ worker[v].txn = t => ~Announcing(worker[v])
  BY AnnouncerKnows DEF PipelineInv, OneAnnouncer
<1> QED
  BY <1>1, AnnouncerKnows DEF Announcing

\* A worker wins the claim: Announcements begins to announce the transaction.
LEMMA WinStep ==
    ASSUME TypeOK, PipelineInv, NEW w \in Workers, NEW x, Moves(w, x),
           NEW t \in Txns, worker[w].txn = t,
           worker[w].at = "settle", ~row[t].notified,
           x.at = "address", x.txn = t, x.left = {},
           x.silent => t \in excused', excused \subseteq excused',
           x.silent \in BOOLEAN,
           row' = Notified(t), heard' = heard
    PROVE  PipelineInv' /\ [Announced!Next]_(Announced!vars)
<1>0. /\ worker'[w] = x /\ \A v \in Workers : v # w => worker'[v] = worker[v]
      /\ ~Announcing(worker[w]) /\ Announcing(x) /\ worker[w].left = {}
  BY AnnouncerKnows DEF Moves, Announcing
<1>1. /\ row'[t].notified
      /\ \A s \in Txns : s # t => row'[s].notified = row[s].notified
  BY DEF Notified, TypeOK, Row
<1>2. \A v \in Workers : v # w /\ worker[v].txn = t =>
          ~Announcing(worker[v]) /\ worker[v].left = {}
  BY Alone
<1>3. WorkerInv'
  <2> SUFFICES ASSUME NEW v \in Workers
               PROVE  /\ worker'[v].at # "tell" => worker'[v].left = {}
                      /\ Announcing(worker'[v]) => row'[worker'[v].txn].notified
    BY DEF WorkerInv, Announcing
  <2>1. CASE v = w
    BY <1>0, <1>1, <2>1
  <2>2. CASE v # w
    BY <1>0, <1>1, <2>2, AnnouncerKnows
  <2> QED
    BY <2>1, <2>2
<1>4. OneAnnouncer'
  <2> SUFFICES ASSUME NEW v \in Workers, NEW u \in Workers,
                      Announcing(worker'[v]), Announcing(worker'[u]),
                      worker'[v].txn = worker'[u].txn
               PROVE  v = u
    BY DEF OneAnnouncer, Announcing
  <2> QED
    BY <1>0, <1>2 DEF PipelineInv, OneAnnouncer
<1>5. UntoldHeardNothing'
  <2>1. \A u \in Users : heard[t][u] = 0
    BY DEF PipelineInv, UntoldHeardNothing
  <2> QED
    BY <1>0, <1>1, <2>1 DEF PipelineInv, UntoldHeardNothing
<1>6. Progressing'
  BY <1>0 DEF PipelineInv, Progressing, PartlyTold, Announcing, Audiences
<1>7. FreshIsHeard'
  <2> SUFFICES ASSUME NEW s \in Txns, row'[s].notified, s \notin excused',
                      \A v \in Workers : Announcing(worker'[v]) => worker'[v].txn # s
               PROVE  HeardRight(s)'
    BY FreshPartsNext
  <2>1. s # t /\ row[s].notified /\ s \notin excused
    BY <1>0, <1>1
  <2>2. HeardRight(s)
    BY <1>0, <2>1, FreshParts DEF PipelineInv
  <2> QED
    BY <2>2 DEF HeardRight, Audiences
<1>8. ASSUME NEW s \in Txns, s # t PROVE Phase(s)' = Phase(s) /\ Due(s)' = Due(s)
  BY <1>0, <1>1, <1>8, SameView DEF Announcing
<1>9. Phase(t) = "open" /\ Phase(t)' = "addressing"
  BY <1>0, <1>1 DEF Phase
<1>10. Due(t) = {} /\ Due(t)' = {}
  BY <1>0, <1>2 DEF Due
<1>11. Announced!Settle(t)
  <2>1. [s \in Txns |-> Phase(s)]' = [[s \in Txns |-> Phase(s)] EXCEPT ![t] = "addressing"]
    BY <1>8, <1>9
  <2>2. [s \in Txns |-> Due(s)]' = [s \in Txns |-> Due(s)]
    BY <1>8, <1>10
  <2> QED
    BY <1>9, <2>1, <2>2 DEF Announced!Settle
<1> QED
  BY <1>3, <1>4, <1>5, <1>6, <1>7, <1>11 DEF PipelineInv, Announced!Next

\* The view while w announces t: w alone decides it.
LEMMA AnnouncedView ==
    ASSUME TypeOK, PipelineInv, NEW w \in Workers, NEW t \in Txns,
           worker[w].txn = t, Announcing(worker[w])
    PROVE  /\ Phase(t) = IF worker[w].at = "address" THEN "addressing" ELSE "settled"
           /\ Due(t) = worker[w].left
<1>1. \A v \in Workers : v # w /\ worker[v].txn = t =>
          ~Announcing(worker[v]) /\ worker[v].left = {}
  BY Alone
<1>2. Phase(t) = IF worker[w].at = "address" THEN "addressing" ELSE "settled"
  BY <1>1, AnnouncerKnows DEF Phase, Announcing
<1>3. worker[w].left \subseteq Users
  BY DEF TypeOK, Worker
<1>4. Due(t) = worker[w].left
  BY <1>1, <1>3 DEF Due
<1> QED
  BY <1>2, <1>4

\* A worker that announces t goes on with it, or is done.
LEMMA AnnouncingStep ==
    ASSUME TypeOK, PipelineInv, NEW w \in Workers, NEW x, Moves(w, x),
           NEW t \in Txns, worker[w].txn = t, Announcing(worker[w]),
           (x.at = "tell" /\ x.txn = t) \/ x = Idle,
           x.left \subseteq Users,
           NoClaim, excused \subseteq excused',
           \A s \in Txns : s # t => heard'[s] = heard[s],
           \A u \in x.left : heard'[t][u] = 0,
           t \notin excused' => /\ x = Idle => HeardRight(t)'
                                /\ x # Idle => ~x.silent /\ PartlyTold(t, x.left)'
    PROVE  /\ PipelineInv'
           /\ \A s \in Txns : s # t => Phase(s)' = Phase(s) /\ Due(s)' = Due(s)
           /\ Phase(t)' = "settled"
           /\ Due(t)' = x.left
<1>0. /\ worker'[w] = x /\ \A v \in Workers : v # w => worker'[v] = worker[v]
      /\ row[t].notified /\ Idle.left = {} /\ ~Announcing(Idle) /\ Idle.at = "idle"
      /\ x.at # "address" /\ (x.at # "tell" => x.left = {})
      /\ (Announcing(x) => x # Idle /\ x.txn = t)
  BY AnnouncerKnows DEF Moves, Announcing, Idle
<1>1. \A v \in Workers : v # w /\ worker[v].txn = t =>
          ~Announcing(worker[v]) /\ worker[v].left = {}
  BY Alone
<1>2. WorkerInv'
  <2> SUFFICES ASSUME NEW v \in Workers
               PROVE  /\ worker'[v].at # "tell" => worker'[v].left = {}
                      /\ Announcing(worker'[v]) => row'[worker'[v].txn].notified
    BY DEF WorkerInv, Announcing
  <2>1. CASE v = w
    BY <1>0, <2>1 DEF NoClaim
  <2>2. CASE v # w
    BY <1>0, <2>2, AnnouncerKnows DEF NoClaim
  <2> QED
    BY <2>1, <2>2
<1>3. OneAnnouncer'
  <2> SUFFICES ASSUME NEW v \in Workers, NEW u \in Workers,
                      Announcing(worker'[v]), Announcing(worker'[u]),
                      worker'[v].txn = worker'[u].txn
               PROVE  v = u
    BY DEF OneAnnouncer, Announcing
  <2> QED
    BY <1>0, <1>1 DEF PipelineInv, OneAnnouncer
<1>4. UntoldHeardNothing'
  <2>1. \A s \in Txns : ~row'[s].notified => \A u \in Users : heard'[s][u] = 0
    BY <1>0 DEF PipelineInv, UntoldHeardNothing, NoClaim
  <2>2. ASSUME NEW v \in Workers
        PROVE  /\ worker'[v].at = "address" => \A u \in Users : heard'[worker'[v].txn][u] = 0
               /\ worker'[v].at = "tell" => \A u \in worker'[v].left : heard'[worker'[v].txn][u] = 0
    <3>1. CASE v = w
      BY <1>0, <3>1 DEF Announcing
    <3>2. CASE v # w
      <4>1. Announcing(worker[v]) => worker[v].txn # t /\ worker[v].txn \in Txns
        BY <1>1, <3>2, AnnouncerKnows
      <4> QED
        BY <1>0, <3>2, <4>1 DEF PipelineInv, UntoldHeardNothing, Announcing
    <3> QED
      BY <3>1, <3>2
  <2> QED
    BY <2>1, <2>2 DEF UntoldHeardNothing
<1>5. Progressing'
  <2> SUFFICES ASSUME NEW v \in Workers, Announcing(worker'[v]), worker'[v].txn \notin excused'
               PROVE  /\ ~worker'[v].silent
                      /\ worker'[v].at = "tell" => PartlyTold(worker[v].txn, worker[v].left)'
    BY DEF Progressing, Announcing
  <2>1. CASE v = w
    BY <1>0, <2>1 DEF PartlyTold
  <2>2. CASE v # w
    <3>1. worker[v].txn # t /\ worker[v].txn \in Txns /\ worker'[v] = worker[v]
      BY <1>0, <1>1, <2>2, AnnouncerKnows
    <3> QED
      BY <3>1 DEF PipelineInv, Progressing, PartlyTold, Audiences
  <2> QED
    BY <2>1, <2>2
<1>6. FreshIsHeard'
  <2> SUFFICES ASSUME NEW s \in Txns, row'[s].notified, s \notin excused',
                      \A v \in Workers : Announcing(worker'[v]) => worker'[v].txn # s
               PROVE  HeardRight(s)'
    BY FreshPartsNext
  <2>1. CASE s = t
    BY <1>0, <2>1 DEF Announcing
  <2>2. CASE s # t
    <3>1. HeardRight(s)
      BY <1>0, <2>2, FreshParts DEF PipelineInv, NoClaim
    <3> QED
      BY <2>2, <3>1 DEF HeardRight, Audiences
  <2> QED
    BY <2>1, <2>2
<1>7. ASSUME NEW s \in Txns, s # t PROVE Phase(s)' = Phase(s) /\ Due(s)' = Due(s)
  BY <1>0, <1>7, SameView DEF NoClaim
<1>8. Phase(t)' = "settled"
  BY <1>0, <1>1 DEF Phase, NoClaim, Announcing
<1>9. Due(t)' = x.left
  BY <1>0, <1>1 DEF Due
<1> QED
  BY <1>2, <1>3, <1>4, <1>5, <1>6, <1>7, <1>8, <1>9 DEF PipelineInv

-----------------------------------------------------------------------------
(* The actions.                                                            *)

\* A row that is not there yet is not notified.
NewRows == \A t \in Txns : row[t].at = "none" => ~row[t].notified

\* The step leaves every claim alone, and takes no row away for good.
Kept == \A t \in Txns : /\ row'[t].notified = row[t].notified
                        /\ row'[t].at = "none" => row[t].at = "none"

LEMMA KeptRows ==
    ASSUME NewRows, Kept
    PROVE  NewRows' /\ NoClaim
  BY DEF NewRows, Kept, NoClaim

\* A step that sets one row and claims nothing.
LEMMA SetKept ==
    ASSUME TypeOK, NEW t \in Txns, NEW x, row' = [row EXCEPT ![t] = x],
           x.notified = row[t].notified, x.at = "none" => row[t].at = "none"
    PROVE  Kept
  BY DEF Kept, TypeOK

LEMMA RowAt ==
    ASSUME NEW x \in Row
    PROVE  /\ \A n \in Notes : Noted(x, n).at = x.at
           /\ Older(x).at = x.at
           /\ Gone(x).at = "gone"
  BY DEF Row, Noted, Older, Gone

\* Steps around the pipeline are none of Announcements' business.
LEMMA OutsideKept ==
    ASSUME TypeOK, NEW t \in Txns, Outside(t)
    PROVE  Kept /\ worker' = worker /\ heard' = heard /\ excused \subseteq excused'
<1>0. row[t] \in Row
  BY DEF TypeOK
<1>1. CASE GrowOlder(t)
  BY <1>0, <1>1, HushedType, RowFields, RowAt, SetKept DEF GrowOlder, memory
<1>2. CASE Vanish(t)
  BY <1>0, <1>2, RowFields, RowAt, SetKept DEF Vanish, memory, history
<1>3. CASE SetCategory(t)
  BY <1>3 DEF SetCategory, memory, history, Kept
<1>4. CASE WriteNote(t)
  BY <1>0, <1>4, HushedType, RowFields, RowAt, SetKept DEF WriteNote, memory, Notes
<1>5. ASSUME NEW n \in Notes, WriteInCrew(t, n)
      PROVE  Kept /\ worker' = worker /\ heard' = heard /\ excused \subseteq excused'
  BY <1>5 DEF WriteInCrew, memory, history, Kept
<1> QED
  BY <1>1, <1>2, <1>3, <1>4, <1>5 DEF Outside

\* So are the steps that fill the queue.
LEMMA FillingKept ==
    ASSUME TypeOK, NewRows, NEW r \in Replicas, NEW t \in Txns,
           Ingest(r, t) \/ SweepNext(r, t) \/ SyncNote(r, t)
    PROVE  Kept /\ worker' = worker /\ heard' = heard /\ excused \subseteq excused'
<1>0. row[t] \in Row /\ crew[t] \in Notes
  BY DEF TypeOK
<1>1. CASE Ingest(r, t)
  <2>1. PICK age \in {"fresh", "old"}, notify \in BOOLEAN :
          /\ row' = [row EXCEPT ![t] = [at |-> "stored", age |-> age,
                                        notified |-> FALSE, note |-> crew[t]]]
          /\ excused' \in {excused, Hushed(t)}
    BY <1>1 DEF Ingest
  <2>2. ~row[t].notified
    BY <1>1 DEF Ingest, NewRows
  <2>3. Kept
    BY <1>0, <2>1, <2>2, SetKept DEF Row
  <2> QED
    BY <1>1, <2>1, <2>3, HushedType DEF Ingest
<1>2. CASE SweepNext(r, t)
  BY <1>2 DEF SweepNext, Kept, store, history
<1>3. CASE SyncNote(r, t)
  BY <1>0, <1>3, HushedType, RowFields, RowAt, SetKept DEF SyncNote
<1> QED
  BY <1>1, <1>2, <1>3

\* Loading a row and resolving its category announce nothing.
LEMMA PrepareStep ==
    ASSUME TypeOK, NewRows, PipelineInv, NEW w \in Workers,
           Take(w) \/ Resolve(w) \/ \E t \in Txns : Reassess(w, t)
    PROVE  Kept /\ PipelineInv' /\ [Announced!Next]_(Announced!vars)
<1>0. worker[w] \in Worker
  BY DEF TypeOK
<1>1. Kept /\ heard' = heard /\ excused \subseteq excused'
  BY HushedType DEF TypeOK, Take, Resolve, ResolveWritten, ResolveBlank, ResolveNone, Reassess,
         Kept, store, history
<1>2. ~Announcing(worker[w])
  BY DEF Take, Resolve, ResolveWritten, ResolveBlank, ResolveNone, Reassess, Announcing
<1>3. worker[w].left = {}
  BY <1>2, AnnouncerKnows DEF Announcing
<1>4. ASSUME NEW x, Become(w, x), ~Announcing(x), x.left = {}
      PROVE  PipelineInv' /\ [Announced!Next]_(Announced!vars)
  BY <1>1, <1>2, <1>4, BecomeMoves, KeptRows, BeforeStep
<1>5. ~Announcing(Idle) /\ Idle.left = {}
  BY DEF Announcing, Idle
<1>6. \A t \in Txns, notify \in BOOLEAN :
        ~Announcing(Loaded(t, notify)) /\ Loaded(t, notify).left = {}
  BY DEF Announcing, Loaded, Idle
<1>7. \A p \in BOOLEAN, q \in BOOLEAN :
        ~Announcing(Resolved(worker[w], p, q)) /\ Resolved(worker[w], p, q).left = {}
  BY <1>0, <1>3, ResolvedFields DEF Announcing
<1>8. CASE Take(w)
  <2>1. Home[w] \in Replicas /\ queue[Home[w]] \in Seq(Item) /\ queue[Home[w]] # <<>>
    BY <1>8, PipelineAssumption DEF Take, TypeOK
  <2>2. Head(queue[Home[w]]) \in Item
    BY <2>1
  <2>3. Head(queue[Home[w]]).txn \in Txns /\ Head(queue[Home[w]]).notify \in BOOLEAN
    BY <2>2 DEF Item
  <2>4. \/ Become(w, Loaded(Head(queue[Home[w]]).txn, Head(queue[Home[w]]).notify))
        \/ Become(w, Idle)
    BY <1>8 DEF Take
  <2> QED
    BY <1>1, <1>4, <1>5, <1>6, <2>3, <2>4
<1>9. ASSUME NEW t \in Txns, Reassess(w, t)
      PROVE  PipelineInv' /\ [Announced!Next]_(Announced!vars)
  BY <1>4, <1>6, <1>9 DEF Reassess
<1>10. CASE Resolve(w)
  <2>1. PICK p \in BOOLEAN, q \in BOOLEAN : Become(w, Resolved(worker[w], p, q))
    <3> USE <1>10 DEF Resolve
    <3>1. CASE ResolveWritten(w)
      BY <3>1 DEF ResolveWritten
    <3>2. CASE ResolveBlank(w)
      BY <3>2 DEF ResolveBlank
    <3>3. CASE ResolveNone(w)
      BY <3>3 DEF ResolveNone
    <3> QED
      BY <3>1, <3>2, <3>3
  <2>2. PICK x : x = Resolved(worker[w], p, q)
    OBVIOUS
  <2>3. Become(w, x) /\ ~Announcing(x) /\ x.left = {}
    BY <1>7, <2>1, <2>2
  <2> QED
    BY <1>1, <1>2, <2>3, BecomeMoves, KeptRows, BeforeStep
<1> QED
  BY <1>1, <1>8, <1>9, <1>10

\* A worker that keeps quiet has a reason to.
LEMMA QuietSettler ==
    ASSUME Quiet, NEW w \in Workers, worker[w].at = "settle", worker[w].txn \in Txns
    PROVE  Muted(worker[w]) \/ worker[w].silent => Settled(worker[w].txn)
  BY DEF Quiet, QuietRows, QuietWorkers, Hushing, Muted

\* Settling: nothing to tell, a lost claim, or the beginning of an announcement.
LEMMA SettleStep ==
    ASSUME TypeOK, NewRows, Quiet, PipelineInv, NEW w \in Workers,
           Absorb(w) \/ Claim(w) \/ ClaimError(w)
    PROVE  NewRows' /\ PipelineInv' /\ [Announced!Next]_(Announced!vars)
<1>0. /\ worker[w] \in Worker /\ worker[w].txn \in Txns /\ worker[w].at = "settle"
      /\ ~Announcing(worker[w]) /\ heard' = heard
  BY DEF TypeOK, Absorb, Claim, ClaimError, Announcing, history
<1> DEFINE tt == worker[w].txn
<1>1. PICK t \in Txns : t = tt
  BY <1>0
<1> HIDE DEF tt
<1>2. ~Announcing(Idle) /\ Idle.left = {}
  BY DEF Announcing, Idle
<1>3. ASSUME Become(w, Idle), row' = row, excused' = excused
      PROVE  NewRows' /\ PipelineInv' /\ [Announced!Next]_(Announced!vars)
  <2>1. Kept
    BY <1>3 DEF Kept
  <2> QED
    BY <1>0, <1>2, <1>3, <2>1, BecomeMoves, KeptRows, BeforeStep
<1>4. row' = Notified(t) /\ Claimable(t) => NewRows'
  <2> SUFFICES ASSUME row' = Notified(t), Claimable(t), NEW s \in Txns,
                      row'[s].at = "none"
               PROVE  ~row'[s].notified
    BY DEF NewRows
  <2>1. s # t
    BY DEF Notified, Claimable, TypeOK, Row
  <2> QED
    BY <2>1, NotifiedRow DEF NewRows
<1>5. CASE Absorb(w) \/ ClaimError(w)
  <2>1. Become(w, Idle)
    BY <1>5 DEF Absorb, ClaimError
  <2>2. \/ row' = row /\ excused' = excused
        \/ Claimable(t) /\ row' = Notified(t) /\ t \in excused' /\ excused \subseteq excused'
    <3>1. CASE Absorb(w)
      <4>1. row' = row \/ (Claimable(t) /\ row' = Notified(t))
        BY <1>1, <3>1 DEF tt, Absorb
      <4>2. excused' = excused
        BY <3>1 DEF Absorb, history
      <4>3. Settled(t)
        BY <1>1, <3>1, QuietSettler DEF tt, Absorb
      <4> QED
        BY <4>1, <4>2, <4>3 DEF Settled, Claimable
    <3>2. CASE ClaimError(w)
      BY <1>1, <3>2 DEF tt, ClaimError, Claimable, TypeOK
    <3> QED
      BY <1>5, <3>1, <3>2
  <2>3. CASE row' = row /\ excused' = excused
    BY <1>3, <2>1, <2>3
  <2>4. CASE /\ Claimable(t) /\ row' = Notified(t)
             /\ t \in excused' /\ excused \subseteq excused'
    <3>1. PipelineInv' /\ [Announced!Next]_(Announced!vars)
      BY <1>0, <1>1, <2>1, <2>4, BecomeMoves, AbsorbStep DEF tt, Claimable
    <3> QED
      BY <1>4, <2>4, <3>1
  <2> QED
    BY <2>2, <2>3, <2>4
<1>6. CASE Claim(w)
  <2>1. PICK m \in Matches(worker[w]) :
          IF Wins(t)
          THEN row' = Notified(t) /\ Become(w, Claimed(worker[w], m))
          ELSE row' = row /\ Become(w, Idle)
    BY <1>1, <1>6 DEF tt, Claim
  <2>2. m \in Suggestions \cup {NoMatch}
    BY DEF Matches
  <2>21. excused' = excused
    BY <1>6 DEF Claim, history
  <2>3. CASE ~Wins(t)
    BY <1>3, <2>1, <2>21, <2>3
  <2>4. CASE Wins(t)
    <3>1. /\ Claimed(worker[w], m).at = "address"
          /\ Claimed(worker[w], m).txn = t
          /\ Claimed(worker[w], m).silent = worker[w].silent
          /\ Claimed(worker[w], m).left = {}
      BY <1>0, <1>1, <2>2, ClaimedFields, AnnouncerKnows DEF tt
    <3>2. Claimed(worker[w], m).silent \in BOOLEAN
      BY <1>0, <3>1 DEF Worker
    <3>3. PipelineInv' /\ [Announced!Next]_(Announced!vars)
      <4>2. ~row[t].notified /\ worker[w].txn = t
        BY <1>1, <2>4 DEF tt, Wins, Claimable
      <4>1. Moves(w, Claimed(worker[w], m)) /\ row' = Notified(t)
            /\ (worker[w].silent => t \in excused') /\ excused \subseteq excused'
        BY <1>0, <2>1, <2>21, <2>4, <4>2, BecomeMoves, QuietSettler DEF Settled
      <4> HIDE DEF Matches
      <4> QED
        BY <1>0, <3>1, <3>2, <4>1, <4>2, WinStep
    <3> QED
      BY <1>4, <2>1, <2>4, <3>3 DEF Wins
  <2> QED
    BY <2>3, <2>4
<1> QED
  BY <1>5, <1>6

\* The recipients are chosen.
LEMMA AddressStep ==
    ASSUME TypeOK, PipelineInv, NEW w \in Workers, Address(w)
    PROVE  PipelineInv' /\ [Announced!Next]_(Announced!vars)
<1>0. /\ worker[w] \in Worker /\ worker[w].txn \in Txns /\ worker[w].at = "address"
      /\ Announcing(worker[w]) /\ NoClaim /\ heard' = heard /\ excused' = excused
  BY DEF TypeOK, Address, Announcing, NoClaim, store, history
<1>1. PICK t \in Txns : worker[w].txn = t
  BY <1>0
<1>2. PICK A \in Audiences(t) : \E W \in SUBSET A : Become(w, Telling(worker[w], A, W))
  BY <1>1 DEF Address
<1>3. A \in SUBSET Users
  BY AudienceType
<1>4. PICK W \in SUBSET A : Become(w, Telling(worker[w], A, W))
  BY <1>2
<1>5. PICK x : x = Telling(worker[w], A, W)
  OBVIOUS
<1>6. /\ x.at = "tell" /\ x.txn = t /\ x.left = A /\ x.silent = worker[w].silent
      /\ Moves(w, x)
  BY <1>0, <1>1, <1>3, <1>4, <1>5, TellingFields, BecomeMoves
<1>7. \A u \in Users : heard[t][u] = 0
  BY <1>0, <1>1 DEF PipelineInv, UntoldHeardNothing
<1>8. x # Idle
  BY <1>6 DEF Idle
<1>9. t \notin excused' => ~x.silent /\ PartlyTold(t, x.left)'
  <2> SUFFICES ASSUME t \notin excused PROVE ~x.silent /\ PartlyTold(t, A)'
    BY <1>0, <1>6 DEF PartlyTold
  <2>1. ~x.silent
    BY <1>0, <1>1, <1>6 DEF PipelineInv, Progressing
  <2>2. \A u \in Users : heard'[t][u] = IF u \in A \ A THEN 1 ELSE 0
    BY <1>0, <1>7
  <2>3. PartlyTold(t, A)'
    BY <2>2 DEF PartlyTold, Audiences
  <2> QED
    BY <2>1, <2>3
<1>10. \A u \in x.left : heard'[t][u] = 0
  BY <1>0, <1>3, <1>6, <1>7
<1>11. /\ PipelineInv'
       /\ \A s \in Txns : s # t => Phase(s)' = Phase(s) /\ Due(s)' = Due(s)
       /\ Phase(t)' = "settled" /\ Due(t)' = A
  BY <1>0, <1>1, <1>3, <1>6, <1>8, <1>9, <1>10, AnnouncingStep
<1>12. Phase(t) = "addressing"
  BY <1>0, <1>1, AnnouncedView
<1>13. Announced!Address(t)
  <2>1. [s \in Txns |-> Phase(s)]' = [[s \in Txns |-> Phase(s)] EXCEPT ![t] = "settled"]
    BY <1>11
  <2>2. [s \in Txns |-> Due(s)]' = [[s \in Txns |-> Due(s)] EXCEPT ![t] = A]
    BY <1>11
  <2>3. A \in Announced!Audiences(t)
    BY DEF Announced!Audiences, Audiences
  <2> QED
    BY <1>0, <1>12, <2>1, <2>2, <2>3 DEF Announced!Address
<1> QED
  BY <1>11, <1>13 DEF Announced!Next

\* The recipients cannot be found: Announcements cuts the transaction short.
LEMMA AddressErrorStep ==
    ASSUME TypeOK, PipelineInv, NEW w \in Workers, AddressError(w)
    PROVE  PipelineInv' /\ [Announced!Next]_(Announced!vars)
<1>0. /\ worker[w] \in Worker /\ worker[w].txn \in Txns /\ worker[w].at = "address"
      /\ Announcing(worker[w]) /\ NoClaim /\ heard' = heard
      /\ excused' = excused \cup {worker[w].txn} /\ Moves(w, Idle)
  BY BecomeMoves DEF TypeOK, AddressError, Announcing, NoClaim, store
<1>1. PICK t \in Txns : worker[w].txn = t
  BY <1>0
<1>2. PICK x : x = Idle
  OBVIOUS
<1>3. x.left = {} /\ t \in excused'
  BY <1>0, <1>1, <1>2 DEF Idle
<1>4. /\ PipelineInv'
      /\ \A s \in Txns : s # t => Phase(s)' = Phase(s) /\ Due(s)' = Due(s)
      /\ Phase(t)' = "settled" /\ Due(t)' = {}
  BY <1>0, <1>1, <1>2, <1>3, AnnouncingStep
<1>5. Phase(t) = "addressing"
  BY <1>0, <1>1, AnnouncedView
<1>6. Announced!CutShort({t})
  BY <1>0, <1>4, <1>5 DEF Announced!CutShort
<1> QED
  BY <1>4, <1>6 DEF Announced!Next

\* One recipient is told.
LEMMA TellStep ==
    ASSUME TypeOK, PipelineInv, NEW w \in Workers, NEW u \in Users, Tell(w, u)
    PROVE  PipelineInv' /\ [Announced!Next]_(Announced!vars)
<1>0. /\ worker[w] \in Worker /\ worker[w].txn \in Txns /\ worker[w].at = "tell"
      /\ u \in worker[w].left /\ Announcing(worker[w]) /\ NoClaim
      /\ excused' = excused /\ Become(w, Told(worker[w], u))
      /\ worker[w].left \in SUBSET Users
  BY DEF TypeOK, Worker, Tell, TellNudge, TellPlain, Announcing, NoClaim, store
<1>1. PICK t \in Txns : worker[w].txn = t
  BY <1>0
<1>2. PICK x : x = Told(worker[w], u)
  OBVIOUS
<1>3. /\ worker[w].left = {u} => x = Idle
      /\ worker[w].left # {u} => /\ x.at = "tell" /\ x.txn = t
                                 /\ x.silent = worker[w].silent
                                 /\ x.left = worker[w].left \ {u}
      /\ Idle.left = {} /\ Idle.at = "idle"
  BY <1>0, <1>1, <1>2, ToldFields DEF Idle
<1>4. x.left = worker[w].left \ {u}
  BY <1>0, <1>3
<1>5. heard[t] \in [Users -> Nat] /\ \A v \in worker[w].left : heard[t][v] = 0
  BY <1>0, <1>1 DEF TypeOK, PipelineInv, UntoldHeardNothing
<1>6. heard' = heard \/ heard' = [heard EXCEPT ![t][u] = 1]
  <2>1. heard' = heard \/ heard' = [heard EXCEPT ![t][u] = @ + 1]
    BY <1>1 DEF Tell, TellNudge, TellPlain, Send
  <2>2. heard[t][u] = 0 /\ heard \in [Txns -> [Users -> Nat]]
    BY <1>0, <1>5 DEF TypeOK
  <2>3. [heard EXCEPT ![t][u] = @ + 1] = [heard EXCEPT ![t][u] = 1]
    BY <2>2
  <2> QED
    BY <2>1, <2>3
<1>7. /\ \A s \in Txns : s # t => heard'[s] = heard[s]
      /\ \A v \in Users : v # u => heard'[t][v] = heard[t][v]
  BY <1>5, <1>6 DEF TypeOK
<1>8. t \notin excused => /\ ~worker[w].silent /\ heard'[t][u] = 1
                          /\ PartlyTold(t, worker[w].left)
  <2> SUFFICES ASSUME t \notin excused
               PROVE  /\ ~worker[w].silent /\ heard'[t][u] = 1
                      /\ PartlyTold(t, worker[w].left)
    OBVIOUS
  <2>1. ~worker[w].silent /\ PartlyTold(t, worker[w].left)
    BY <1>0, <1>1 DEF PipelineInv, Progressing
  <2>2. heard' = [heard EXCEPT ![t][u] = @ + 1]
    BY <1>1, <2>1 DEF Tell, TellNudge, TellPlain, Send
  <2>3. heard'[t][u] = heard[t][u] + 1
    BY <1>5, <2>2 DEF TypeOK
  <2> QED
    BY <1>0, <1>5, <2>1, <2>3
<1>9. t \notin excused =>
        \E A \in Audiences(t) : worker[w].left \subseteq A
           /\ \A v \in Users : heard'[t][v] = IF v \in A \ (worker[w].left \ {u}) THEN 1 ELSE 0
  <2> SUFFICES ASSUME t \notin excused
               PROVE  \E A \in Audiences(t) : worker[w].left \subseteq A
           /\ \A v \in Users : heard'[t][v] = IF v \in A \ (worker[w].left \ {u}) THEN 1 ELSE 0
    OBVIOUS
  <2>1. PICK A \in Audiences(t) : /\ worker[w].left \subseteq A
                                  /\ \A v \in Users : heard[t][v] = IF v \in A \ worker[w].left THEN 1 ELSE 0
    BY <1>8 DEF PartlyTold
  <2>2. \A v \in Users : heard'[t][v] = IF v \in A \ (worker[w].left \ {u}) THEN 1 ELSE 0
    BY <1>0, <1>7, <1>8, <2>1
  <2> QED
    BY <2>1, <2>2
<1>10. t \notin excused' => /\ x = Idle => HeardRight(t)'
                            /\ x # Idle => ~x.silent /\ PartlyTold(t, x.left)'
  <2> SUFFICES ASSUME t \notin excused
               PROVE  /\ x = Idle => HeardRight(t)'
                      /\ x # Idle => ~x.silent /\ PartlyTold(t, x.left)'
    BY <1>0
  <2>1. PICK A \in Audiences(t) : /\ worker[w].left \subseteq A
          /\ \A v \in Users : heard'[t][v] = IF v \in A \ (worker[w].left \ {u}) THEN 1 ELSE 0
    BY <1>9
  <2>2. ASSUME x = Idle PROVE HeardRight(t)'
    <3>1. worker[w].left \ {u} = {}
      BY <1>3, <1>4, <2>2
    <3>2. \A v \in Users : heard'[t][v] = IF v \in A THEN 1 ELSE 0
      BY <2>1, <3>1
    <3> QED
      BY <3>2 DEF HeardRight, Audiences
  <2>3. ASSUME x # Idle PROVE ~x.silent /\ PartlyTold(t, x.left)'
    <3>1. ~x.silent
      BY <1>3, <1>8, <2>3
    <3>2. x.left \subseteq A /\ \A v \in Users : heard'[t][v] = IF v \in A \ x.left THEN 1 ELSE 0
      BY <1>4, <2>1
    <3>3. PartlyTold(t, x.left)'
      BY <3>2 DEF PartlyTold, Audiences
    <3> QED
      BY <3>1, <3>3
  <2> QED
    BY <2>2, <2>3
<1>11. \A v \in x.left : heard'[t][v] = 0
  BY <1>0, <1>4, <1>5, <1>7
<1>12. Moves(w, x) /\ ((x.at = "tell" /\ x.txn = t) \/ x = Idle) /\ x.left \subseteq Users
  BY <1>0, <1>2, <1>3, <1>4, BecomeMoves
<1>13. /\ PipelineInv'
       /\ \A s \in Txns : s # t => Phase(s)' = Phase(s) /\ Due(s)' = Due(s)
       /\ Phase(t)' = "settled" /\ Due(t)' = x.left
  BY <1>0, <1>1, <1>7, <1>10, <1>11, <1>12, AnnouncingStep
<1>14. Phase(t) = "settled" /\ Due(t) = worker[w].left
  BY <1>0, <1>1, AnnouncedView
<1>15. Announced!Tell(t, u)
  <2>1. [s \in Txns |-> Phase(s)]' = [s \in Txns |-> Phase(s)]
    BY <1>13, <1>14
  <2>2. [s \in Txns |-> Due(s)]' = [[s \in Txns |-> Due(s)] EXCEPT ![t] = @ \ {u}]
    BY <1>4, <1>13, <1>14
  <2>3. u \in [s \in Txns |-> Due(s)][t]
    BY <1>0, <1>14
  <2> QED
    BY <1>0, <1>5, <1>6, <2>1, <2>2, <2>3 DEF Announced!Tell
<1> QED
  BY <1>13, <1>15 DEF Announced!Next

\* A nudge is claimed or refused: Announcements does not see it.
LEMMA NudgeStep ==
    ASSUME TypeOK, PipelineInv, NEW w \in Workers, NEW u \in Users, Nudge(w, u)
    PROVE  PipelineInv' /\ [Announced!Next]_(Announced!vars)
<1>0. /\ worker[w] \in Worker /\ worker[w].txn \in Txns /\ worker[w].at = "tell"
      /\ Announcing(worker[w]) /\ NoClaim /\ heard' = heard /\ excused' = excused
      /\ worker[w].left \subseteq Users
  BY DEF TypeOK, Worker, Nudge, ClaimNudge, RefuseNudge, Asks, Announcing, NoClaim,
         store, history
<1>1. PICK t \in Txns : worker[w].txn = t
  BY <1>0
<1>2. PICK g \in BOOLEAN : Become(w, Turn(worker[w], u, g))
  BY DEF Nudge, ClaimNudge, RefuseNudge
<1>3. PICK x : x = Turn(worker[w], u, g)
  OBVIOUS
<1>4. /\ x.at = "tell" /\ x.txn = t /\ x.silent = worker[w].silent
      /\ x.left = worker[w].left /\ Moves(w, x) /\ x # Idle
  BY <1>0, <1>1, <1>2, <1>3, TurnFields, BecomeMoves DEF Idle
<1>5. t \notin excused' => ~x.silent /\ PartlyTold(t, x.left)'
  <2> SUFFICES ASSUME t \notin excused PROVE ~x.silent /\ PartlyTold(t, x.left)'
    BY <1>0
  <2>1. ~worker[w].silent /\ PartlyTold(t, worker[w].left)
    BY <1>0, <1>1 DEF PipelineInv, Progressing
  <2> QED
    BY <1>0, <1>4, <2>1 DEF PartlyTold, Audiences
<1>6. \A v \in x.left : heard'[t][v] = 0
  BY <1>0, <1>1, <1>4 DEF PipelineInv, UntoldHeardNothing
<1>7. /\ PipelineInv'
      /\ \A s \in Txns : s # t => Phase(s)' = Phase(s) /\ Due(s)' = Due(s)
      /\ Phase(t)' = "settled" /\ Due(t)' = worker[w].left
  BY <1>0, <1>1, <1>4, <1>5, <1>6, AnnouncingStep
<1>8. Phase(t) = "settled" /\ Due(t) = worker[w].left
  BY <1>0, <1>1, AnnouncedView
<1> QED
  BY <1>0, <1>7, <1>8, Stutters

\* A process ends.
LEMMA CrashStep ==
    ASSUME TypeOK, PipelineInv, NEW r \in Replicas, Crash(r)
    PROVE  PipelineInv' /\ [Announced!Next]_(Announced!vars)
<1> DEFINE D == {v \in Workers : Home[v] = r /\ Announcing(worker[v])}
<1>1. PICK S \in SUBSET Txns : S = {worker[v].txn : v \in D}
  BY AnnouncerKnows
<1>2. /\ \A v \in Workers : worker'[v] = IF Home[v] = r THEN Idle ELSE worker[v]
      /\ row' = row /\ heard' = heard /\ excused' = excused \cup S
      /\ ~Announcing(Idle) /\ Idle.left = {} /\ Idle.at = "idle"
  BY <1>1 DEF Crash, store, Announcing, Idle
<1>3. WorkerInv'
  <2> SUFFICES ASSUME NEW v \in Workers
               PROVE  /\ worker'[v].at # "tell" => worker'[v].left = {}
                      /\ Announcing(worker'[v]) => row[worker'[v].txn].notified
    BY <1>2 DEF WorkerInv, Announcing
  <2> QED
    BY <1>2, AnnouncerKnows
<1>4. OneAnnouncer'
  BY <1>2 DEF PipelineInv, OneAnnouncer, Announcing
<1>5. UntoldHeardNothing'
  BY <1>2 DEF PipelineInv, UntoldHeardNothing
<1>6. Progressing'
  BY <1>2 DEF PipelineInv, Progressing, PartlyTold, Announcing, Audiences
<1>7. FreshIsHeard'
  <2> SUFFICES ASSUME NEW t \in Txns, row'[t].notified, t \notin excused',
                      \A v \in Workers : Announcing(worker'[v]) => worker'[v].txn # t
               PROVE  HeardRight(t)'
    BY FreshPartsNext
  <2>1. \A v \in Workers : Announcing(worker[v]) => worker[v].txn # t
    BY <1>1, <1>2
  <2>2. HeardRight(t)
    BY <1>2, <2>1, FreshParts DEF PipelineInv
  <2> QED
    BY <1>2, <2>2 DEF HeardRight, Audiences
<1>8. ASSUME NEW t \in Txns
      PROVE  /\ Phase(t)' = IF t \in S /\ Phase(t) # "open" THEN "settled" ELSE Phase(t)
             /\ Due(t)' = IF t \in S THEN {} ELSE Due(t)
  <2>1. CASE t \in S
    <3>1. PICK w \in D : worker[w].txn = t
      BY <1>1, <2>1
    <3>2. \A v \in Workers : v # w /\ worker[v].txn = t =>
              ~Announcing(worker[v]) /\ worker[v].left = {}
      BY <3>1, Alone
    <3>3. \A v \in Workers : worker'[v].txn = t =>
              worker'[v].at # "address" /\ worker'[v].left = {}
      BY <1>2, <3>1, <3>2 DEF Announcing
    <3>4. Phase(t)' = "settled" /\ row[t].notified
      BY <1>2, <3>1, <3>3, AnnouncerKnows DEF Phase
    <3>5. Phase(t) # "open"
      BY <3>4 DEF Phase
    <3>6. Due(t)' = {}
      BY <3>3 DEF Due
    <3> QED
      BY <2>1, <3>4, <3>5, <3>6
  <2>2. CASE t \notin S
    <3>1. \A v \in Workers : Home[v] = r /\ worker[v].txn = t => ~Announcing(worker[v])
      BY <1>1, <2>2
    <3>2. \A v \in Workers : Home[v] = r /\ worker[v].txn = t =>
              worker[v].at # "address" /\ worker[v].left = {}
      BY <3>1, AnnouncerKnows DEF Announcing
    <3>3. (\E v \in Workers : worker'[v].at = "address" /\ worker'[v].txn = t)
            <=> (\E v \in Workers : worker[v].at = "address" /\ worker[v].txn = t)
      BY <1>2, <3>2
    <3>4. Phase(t)' = Phase(t)
      BY <1>2, <3>3 DEF Phase
    <3>5. \A u \in Users :
            (\E v \in Workers : worker'[v].txn = t /\ u \in worker'[v].left)
              <=> (\E v \in Workers : worker[v].txn = t /\ u \in worker[v].left)
      BY <1>2, <3>2
    <3>6. Due(t)' = Due(t)
      BY <3>5 DEF Due
    <3> QED
      BY <2>2, <3>4, <3>6
  <2> QED
    BY <2>1, <2>2
<1>9. Announced!CutShort(S)
  BY <1>2, <1>8 DEF Announced!CutShort
<1> QED
  BY <1>3, <1>4, <1>5, <1>6, <1>7, <1>9 DEF PipelineInv, Announced!Next

\* Every step keeps the invariant and is a step of Announcements or none.
LEMMA EveryStep ==
    ASSUME TypeOK, NewRows, Quiet, PipelineInv, [Next]_vars
    PROVE  NewRows' /\ PipelineInv' /\ [Announced!Next]_(Announced!vars)
<1>1. ASSUME Kept, worker' = worker, heard' = heard, excused \subseteq excused'
      PROVE  NewRows' /\ PipelineInv' /\ [Announced!Next]_(Announced!vars)
  BY <1>1, KeptRows, StillStep
<1>2. row' = row => Kept
  BY DEF Kept
<1>3. CASE UNCHANGED vars
  BY <1>1, <1>2, <1>3 DEF vars, store, memory, history
<1>4. ASSUME NEW r \in Replicas, NEW t \in Txns,
             Ingest(r, t) \/ SweepNext(r, t) \/ SyncNote(r, t)
      PROVE  NewRows' /\ PipelineInv' /\ [Announced!Next]_(Announced!vars)
  BY <1>1, <1>4, FillingKept
<1>5. ASSUME NEW r \in Replicas, Sweep(r)
      PROVE  NewRows' /\ PipelineInv' /\ [Announced!Next]_(Announced!vars)
  BY <1>1, <1>2, <1>5 DEF Sweep, store, history
<1>6. ASSUME NEW r \in Replicas, Crash(r)
      PROVE  NewRows' /\ PipelineInv' /\ [Announced!Next]_(Announced!vars)
  BY <1>2, <1>6, KeptRows, CrashStep DEF Crash, store
<1>7. ASSUME NEW w \in Workers, Process(w) \/ \E t \in Txns : Reassess(w, t)
      PROVE  NewRows' /\ PipelineInv' /\ [Announced!Next]_(Announced!vars)
  <2>1. CASE Take(w) \/ Resolve(w) \/ \E t \in Txns : Reassess(w, t)
    BY <2>1, KeptRows, PrepareStep
  <2>2. CASE Absorb(w) \/ Claim(w) \/ ClaimError(w)
    BY <2>2, SettleStep
  <2>3. CASE Address(w)
    BY <1>2, <2>3, KeptRows, AddressStep DEF Address, store
  <2>4. CASE AddressError(w)
    BY <1>2, <2>4, KeptRows, AddressErrorStep DEF AddressError, store
  <2>5. ASSUME NEW u \in Users, Tell(w, u)
        PROVE  NewRows' /\ PipelineInv' /\ [Announced!Next]_(Announced!vars)
    BY <1>2, <2>5, KeptRows, TellStep DEF Tell, TellNudge, TellPlain, store
  <2>6. ASSUME NEW u \in Users, Nudge(w, u)
        PROVE  NewRows' /\ PipelineInv' /\ [Announced!Next]_(Announced!vars)
    BY <1>2, <2>6, KeptRows, NudgeStep DEF Nudge, ClaimNudge, RefuseNudge, store
  <2> QED
    BY <1>7, <2>1, <2>2, <2>3, <2>4, <2>5, <2>6 DEF Process
<1>8. ASSUME NEW t \in Txns, Outside(t)
      PROVE  NewRows' /\ PipelineInv' /\ [Announced!Next]_(Announced!vars)
  BY <1>1, <1>8, OutsideKept
<1>9. ASSUME NEW u \in Users, NEW s \in Suggestions, CooldownEnds(u, s)
      PROVE  NewRows' /\ PipelineInv' /\ [Announced!Next]_(Announced!vars)
  BY <1>1, <1>2, <1>9 DEF CooldownEnds, store, memory, history
<1> QED
  BY <1>3, <1>4, <1>5, <1>6, <1>7, <1>8, <1>9 DEF Next

\* It holds at first, and so does Announcements' initial condition.
LEMMA AtFirst == Init => NewRows /\ Quiet /\ PipelineInv /\ Announced!Init
<1> SUFFICES ASSUME Init PROVE NewRows /\ Quiet /\ PipelineInv /\ Announced!Init
  OBVIOUS
<1>1. /\ \A t \in Txns : ~row[t].notified /\ \A u \in Users : heard[t][u] = 0
      /\ \A w \in Workers : worker[w] = Idle
      /\ ~Announcing(Idle) /\ Idle.left = {} /\ Idle.at = "idle"
  BY DEF Init, Announcing, Idle
<1>2. NewRows /\ WorkerInv /\ OneAnnouncer /\ UntoldHeardNothing /\ Progressing
  BY <1>1 DEF NewRows, WorkerInv, OneAnnouncer, UntoldHeardNothing, Progressing
<1>3. FreshIsHeard
  BY <1>1, FreshParts
<1>4. \A t \in Txns : Phase(t) = "open" /\ Due(t) = {}
  BY <1>1 DEF Phase, Due
<1>5. heard = [t \in Txns |-> [u \in Users |-> 0]]
  BY DEF Init
<1>6. Quiet
  <2>1. QuietItems
    BY DEF Init, QuietItems
  <2>2. QuietRows
    BY DEF Init, QuietRows
  <2>3. QuietWorkers
    BY <1>1 DEF QuietWorkers, Hushing, Idle
  <2> QED
    BY <2>1, <2>2, <2>3 DEF Quiet
<1> QED
  BY <1>2, <1>3, <1>4, <1>5, <1>6 DEF PipelineInv, Announced!Init

-----------------------------------------------------------------------------
(* Whoever keeps quiet has a reason.                                       *)

\* Reasons last, and so do claims.
Onward == /\ excused \subseteq excused'
          /\ \A t \in Txns : row[t].notified => row'[t].notified

LEMMA KeptOnward ==
    ASSUME Kept, excused \subseteq excused' PROVE Onward
  BY DEF Kept, Onward

LEMMA StaySettled ==
    ASSUME Onward, NEW t \in Txns, Settled(t)
    PROVE  Settled(t)'
  BY DEF Onward, Settled

\* What a step leaves alone stays quiet for its reason.
LEMMA QuietStays ==
    ASSUME TypeOK, Quiet, Onward
    PROVE  /\ queue' = queue => QuietItems'
           /\ (\A t \in Txns : /\ row'[t].age = row[t].age
                               /\ row'[t].note = row[t].note) => QuietRows'
           /\ worker' = worker => QuietWorkers'
<1>1. ASSUME queue' = queue PROVE QuietItems'
  <2> SUFFICES ASSUME NEW r \in Replicas, NEW i \in 1..Len(queue[r]), ~queue[r][i].notify
               PROVE  Settled(queue[r][i].txn)'
    BY <1>1 DEF QuietItems
  <2>1. queue[r][i] \in Item
    BY DEF TypeOK
  <2>2. PICK t \in Txns : t = queue[r][i].txn
    BY <2>1 DEF Item
  <2>3. Settled(t)
    BY <2>2 DEF Quiet, QuietItems
  <2>4. Settled(t)'
    BY <2>3, StaySettled
  <2> QED
    BY <1>1, <2>2, <2>4
<1>2. ASSUME \A t \in Txns : row'[t].age = row[t].age /\ row'[t].note = row[t].note
      PROVE  QuietRows'
  <2> SUFFICES ASSUME NEW t \in Txns, row'[t].age # "fresh" \/ row'[t].note = "filed"
               PROVE  Settled(t)'
    BY DEF QuietRows
  <2> QED
    BY <1>2, StaySettled DEF Quiet, QuietRows
<1>3. ASSUME worker' = worker PROVE QuietWorkers'
  <2> SUFFICES ASSUME NEW w \in Workers, Hushing(worker[w])
               PROVE  Settled(worker[w].txn)'
    BY <1>3 DEF QuietWorkers, Hushing
  <2>1. PICK t \in Txns : t = worker[w].txn
    BY DEF TypeOK, Hushing
  <2>2. Settled(t)'
    BY <2>1, StaySettled DEF Quiet, QuietWorkers
  <2> QED
    BY <1>3, <2>1, <2>2
<1> QED
  BY <1>1, <1>2, <1>3

\* An item that asks for no push is put into the queue with a reason.
LEMMA OfferQuiet ==
    ASSUME TypeOK, Quiet, Onward, NEW r \in Replicas, NEW t \in Txns, NEW b \in BOOLEAN,
           b \/ Settled(t)', queue' = Enqueued(r, t, b)
    PROVE  QuietItems'
<1> SUFFICES ASSUME NEW p \in Replicas, NEW i \in 1..Len(queue'[p]), ~queue'[p][i].notify
             PROVE  Settled(queue[p][i].txn)'
  BY DEF QuietItems
<1>1. queue \in [Replicas -> Seq(Item)]
  BY DEF TypeOK
<1>2. queue'[p] = IF p = r THEN Offer(queue[r], t, b) ELSE queue[p]
  BY <1>1 DEF Enqueued
<1>3. CASE i \in 1..Len(queue[p]) /\ queue'[p][i] = queue[p][i]
  <2>1. queue[p][i] \in Item
    BY <1>1, <1>3
  <2>2. PICK s \in Txns : s = queue[p][i].txn
    BY <2>1 DEF Item
  <2>3. Settled(s)'
    BY <1>3, <2>2, StaySettled DEF Quiet, QuietItems
  <2> QED
    BY <1>3, <2>2, <2>3
<1>4. CASE queue'[p][i] = [txn |-> t, notify |-> b]
  BY <1>4
<1>5. \/ i \in 1..Len(queue[p]) /\ queue'[p][i] = queue[p][i]
      \/ queue'[p][i] = [txn |-> t, notify |-> b]
  <2>1. queue[p] \in Seq(Item)
    BY <1>1
  <2> QED
    BY <1>2, <2>1 DEF Offer
<1> QED
  BY <1>3, <1>4, <1>5

\* A queue that only loses items, and workers that only become idle.
LEMMA FewerQuiet ==
    ASSUME TypeOK, Quiet, Onward,
           \A p \in Replicas : \A i \in 1..Len(queue'[p]) :
               \E k \in 1..Len(queue[p]) : queue'[p][i] = queue[p][k]
    PROVE  QuietItems'
<1> SUFFICES ASSUME NEW p \in Replicas, NEW i \in 1..Len(queue'[p]), ~queue'[p][i].notify
             PROVE  Settled(queue[p][i].txn)'
  BY DEF QuietItems
<1>1. PICK k \in 1..Len(queue[p]) : queue'[p][i] = queue[p][k]
  OBVIOUS
<1>2. queue[p][k] \in Item
  BY DEF TypeOK
<1>3. PICK s \in Txns : s = queue[p][k].txn
  BY <1>2 DEF Item
<1>4. Settled(s)'
  BY <1>1, <1>3, StaySettled DEF Quiet, QuietItems
<1> QED
  BY <1>1, <1>3, <1>4

LEMMA IdlersQuiet ==
    ASSUME TypeOK, Quiet, Onward,
           \A v \in Workers : worker'[v] = worker[v] \/ worker'[v] = Idle
    PROVE  QuietWorkers'
<1> SUFFICES ASSUME NEW v \in Workers, Hushing(worker'[v])
             PROVE  Settled(worker[v].txn)'
  BY DEF QuietWorkers, Hushing
<1>1. worker'[v] = worker[v]
  BY DEF Hushing, Idle
<1>2. PICK s \in Txns : s = worker[v].txn
  BY <1>1 DEF TypeOK, Hushing
<1>3. Settled(s)'
  BY <1>1, <1>2, StaySettled DEF Quiet, QuietWorkers
<1> QED
  BY <1>1, <1>2, <1>3

\* Only worker w moves, and has its reason if it is to keep quiet.
LEMMA MoveQuiet ==
    ASSUME TypeOK, Quiet, Onward, NEW w \in Workers, NEW x, Moves(w, x),
           ~Hushing(x)
    PROVE  QuietWorkers'
<1> SUFFICES ASSUME NEW v \in Workers, Hushing(worker'[v])
             PROVE  Settled(worker[v].txn)'
  BY DEF QuietWorkers, Hushing
<1>1. v # w /\ worker'[v] = worker[v]
  BY DEF Moves
<1>2. Hushing(worker[v])
  BY <1>1
<1>3. PICK t \in Txns : t = worker[v].txn
  BY <1>2 DEF TypeOK, Hushing
<1>4. Settled(t)'
  BY <1>2, <1>3, StaySettled DEF Quiet, QuietWorkers
<1> QED
  BY <1>1, <1>3, <1>4

LEMMA MoveHushed ==
    ASSUME TypeOK, Quiet, Onward, NEW w \in Workers, NEW x, Moves(w, x),
           NEW t \in Txns, x.txn = t, Settled(t)'
    PROVE  QuietWorkers'
<1> SUFFICES ASSUME NEW v \in Workers, Hushing(worker'[v])
             PROVE  Settled(worker[v].txn)'
  BY DEF QuietWorkers, Hushing
<1>1. CASE v = w
  BY <1>1 DEF Moves
<1>2. CASE v # w
  <2>1. Hushing(worker[v]) /\ worker'[v] = worker[v]
    BY <1>2 DEF Moves
  <2>2. PICK s \in Txns : s = worker[v].txn
    BY <2>1 DEF TypeOK, Hushing
  <2>3. Settled(s)'
    BY <2>1, <2>2, StaySettled DEF Quiet, QuietWorkers
  <2> QED
    BY <2>1, <2>2, <2>3
<1> QED
  BY <1>1, <1>2

\* Steps that fill the queue.
LEMMA QuietFilling ==
    ASSUME TypeOK, NewRows, Quiet, NEW r \in Replicas, NEW t \in Txns,
           Ingest(r, t) \/ SweepNext(r, t) \/ SyncNote(r, t)
    PROVE  Quiet'
<1>1. Onward /\ QuietWorkers'
  BY FillingKept, KeptOnward, QuietStays
<1>2. queue' = queue => QuietItems'
  BY <1>1, QuietStays
<1>3. \A b \in BOOLEAN : (b \/ Settled(t)') /\ queue' = Enqueued(r, t, b) => QuietItems'
  BY <1>1, OfferQuiet
<1>4. excused' = Hushed(t) => Settled(t)'
  <2> SUFFICES ASSUME excused' = Hushed(t) PROVE Settled(t)'
    OBVIOUS
  <2>1. t \in excused' \/ row[t].notified
    BY HushedType
  <2> QED
    BY <1>1, <2>1 DEF Onward, Settled
<1>5. CASE Ingest(r, t)
  <2>1. PICK age \in {"fresh", "old"}, notify \in BOOLEAN :
           /\ row' = [row EXCEPT ![t] = [at |-> "stored", age |-> age,
                                         notified |-> FALSE, note |-> crew[t]]]
           /\ queue' \in {queue, Enqueued(r, t, notify)}
           /\ excused' = IF notify /\ age = "fresh" /\ crew[t] # "filed"
                         THEN excused ELSE Hushed(t)
    BY <1>5 DEF Ingest
  <2>2. notify \/ Settled(t)'
    BY <1>4, <2>1
  <2>3. QuietItems'
    BY <1>2, <1>3, <2>1, <2>2
  <2>4. QuietRows'
    <3> SUFFICES ASSUME NEW s \in Txns, row'[s].age # "fresh" \/ row'[s].note = "filed"
                 PROVE  Settled(s)'
      BY DEF QuietRows
    <3>1. CASE s = t
      <4>1. row'[t].age = age /\ row'[t].note = crew[t]
        BY <2>1 DEF TypeOK
      <4>2. excused' = Hushed(t)
        BY <2>1, <3>1, <4>1
      <4> QED
        BY <1>4, <3>1, <4>2
    <3>2. CASE s # t
      <4>1. row'[s] = row[s]
        BY <2>1, <3>2 DEF TypeOK
      <4> QED
        BY <1>1, <4>1, StaySettled DEF Quiet, QuietRows
    <3> QED
      BY <3>1, <3>2
  <2> QED
    BY <1>1, <2>3, <2>4 DEF Quiet
<1>6. CASE SweepNext(r, t)
  <2>1. QuietItems'
    BY <1>3, <1>6 DEF SweepNext
  <2>2. QuietRows'
    BY <1>1, <1>6, QuietStays DEF SweepNext, store
  <2> QED
    BY <1>1, <2>1, <2>2 DEF Quiet
<1>7. CASE SyncNote(r, t)
  <2>1. QuietItems'
    <3>1. CASE queue' = queue
      BY <1>2, <3>1
    <3>2. CASE queue' # queue
      BY <1>3, <1>4, <1>7, <3>2 DEF SyncNote
    <3> QED
      BY <3>1, <3>2
  <2>2. QuietRows'
    <3> SUFFICES ASSUME NEW s \in Txns, row'[s].age # "fresh" \/ row'[s].note = "filed"
                 PROVE  Settled(s)'
      BY DEF QuietRows
    <3>1. row' = [row EXCEPT ![t] = Noted(row[t], crew[t])] /\ row[t] \in Row
      BY <1>7 DEF SyncNote, TypeOK
    <3>2. Noted(row[t], crew[t]).age = row[t].age /\ Noted(row[t], crew[t]).note = crew[t]
      BY <3>1 DEF Noted, Row
    <3>3. CASE s = t
      <4>1. row'[t].age = row[t].age /\ row'[t].note = crew[t]
        BY <3>1, <3>2 DEF TypeOK
      <4>2. CASE row[t].age # "fresh"
        BY <1>1, <3>3, <4>2, StaySettled DEF Quiet, QuietRows
      <4>3. CASE crew[t] = "filed"
        BY <1>4, <1>7, <3>3, <4>3 DEF SyncNote
      <4> QED
        BY <3>3, <4>1, <4>2, <4>3
    <3>4. CASE s # t
      <4>1. row'[s] = row[s]
        BY <3>1, <3>4 DEF TypeOK
      <4> QED
        BY <1>1, <4>1, StaySettled DEF Quiet, QuietRows
    <3> QED
      BY <3>3, <3>4
  <2> QED
    BY <1>1, <2>1, <2>2 DEF Quiet
<1> QED
  BY <1>5, <1>6, <1>7

\* Steps around the pipeline.
LEMMA QuietOutside ==
    ASSUME TypeOK, Quiet, NEW t \in Txns, Outside(t)
    PROVE  Quiet'
<1>0. row[t] \in Row
  BY DEF TypeOK
<1>1. Onward /\ QuietWorkers'
  BY OutsideKept, KeptOnward, QuietStays
<1>2. queue' = queue
  BY DEF Outside, GrowOlder, Vanish, SetCategory, WriteNote, WriteInCrew, memory
<1>3. excused' = Hushed(t) => Settled(t)'
  <2> SUFFICES ASSUME excused' = Hushed(t) PROVE Settled(t)'
    OBVIOUS
  <2>1. t \in excused' \/ row[t].notified
    BY HushedType
  <2> QED
    BY <1>1, <2>1 DEF Onward, Settled
<1>4. ASSUME NEW x, row' = [row EXCEPT ![t] = x],
             (x.age = row[t].age /\ x.note = row[t].note) \/ Settled(t)'
      PROVE  QuietRows'
  <2> SUFFICES ASSUME NEW s \in Txns, row'[s].age # "fresh" \/ row'[s].note = "filed"
               PROVE  Settled(s)'
    BY DEF QuietRows
  <2>1. row'[s] = IF s = t THEN x ELSE row[s]
    BY <1>4 DEF TypeOK
  <2> QED
    BY <1>1, <1>4, <2>1, StaySettled DEF Quiet, QuietRows
<1>5. QuietRows'
  <2>1. CASE GrowOlder(t)
    BY <1>3, <1>4, <2>1 DEF GrowOlder
  <2>2. CASE Vanish(t)
    <3>1. Gone(row[t]).age = row[t].age /\ Gone(row[t]).note = row[t].note
      BY <1>0 DEF Gone, Row
    <3> QED
      BY <1>4, <2>2, <3>1 DEF Vanish
  <2>3. CASE SetCategory(t) \/ \E n \in Notes : WriteInCrew(t, n)
    BY <1>1, <2>3, QuietStays DEF SetCategory, WriteInCrew
  <2>4. CASE WriteNote(t)
    BY <1>3, <1>4, <2>4 DEF WriteNote
  <2> QED
    BY <2>1, <2>2, <2>3, <2>4 DEF Outside
<1> QED
  BY <1>1, <1>2, <1>5, QuietStays DEF Quiet

\* A worker loads a row or resolves its category.
LEMMA QuietPreparing ==
    ASSUME TypeOK, Quiet, NEW w \in Workers,
           Take(w) \/ Resolve(w) \/ \E t \in Txns : Reassess(w, t)
    PROVE  Quiet'
<1>1. row' = row /\ excused \subseteq excused'
  BY HushedType DEF TypeOK, Take, Resolve, ResolveWritten, ResolveBlank, ResolveNone,
                    Reassess, store, history
<1>2. Onward /\ QuietRows'
  BY <1>1, QuietStays DEF Onward
<1>3. ~Hushing(Idle)
  BY DEF Hushing, Idle
<1>4. CASE Take(w)
  <2> DEFINE q == queue[Home[w]]
  <2>1. /\ Home[w] \in Replicas /\ q \in Seq(Item) /\ q # <<>>
        /\ queue' = [queue EXCEPT ![Home[w]] = Tail(q)] /\ excused' = excused
    BY <1>4, PipelineAssumption DEF Take, TypeOK, history
  <2>2. Head(q) \in Item /\ Head(q) = q[1] /\ 1 \in 1..Len(q)
    BY <2>1
  <2>3. PICK t \in Txns, b \in BOOLEAN : t = Head(q).txn /\ b = Head(q).notify
    BY <2>2 DEF Item
  <2>4. b \/ Settled(t)
    BY <2>1, <2>2, <2>3 DEF Quiet, QuietItems
  <2>5. QuietItems'
    <3>1. queue \in [Replicas -> Seq(Item)]
      BY DEF TypeOK
    <3>2. ASSUME NEW p \in Replicas, NEW i \in 1..Len(queue'[p])
          PROVE  \E k \in 1..Len(queue[p]) : queue'[p][i] = queue[p][k]
      <4>1. CASE p = Home[w]
        <5>1. queue'[p] = Tail(q) /\ i + 1 \in 1..Len(q) /\ Tail(q)[i] = q[i + 1]
          BY <2>1, <3>1, <4>1
        <5> QED
          BY <4>1, <5>1
      <4>2. CASE p # Home[w]
        BY <2>1, <3>1, <4>2
      <4> QED
        BY <4>1, <4>2
    <3> HIDE DEF q
    <3> QED
      BY <1>2, <3>2, FewerQuiet
  <2>6. CASE Become(w, Idle)
    BY <1>2, <1>3, <2>5, <2>6, BecomeMoves, MoveQuiet DEF Quiet
  <2>7. CASE row[t].at = "stored" /\ Become(w, Loaded(t, b))
    <3>1. PICK x : x = Loaded(t, b)
      OBVIOUS
    <3>2. /\ x.at = "resolve" /\ x.notify = b /\ x.note = row[t].note /\ x.txn = t
          /\ Moves(w, x)
      BY <2>7, <3>1, BecomeMoves DEF Loaded, Idle
    <3>3. Hushing(x) => Settled(t)'
      BY <1>2, <2>4, <3>2, StaySettled DEF Hushing, Quiet, QuietRows
    <3> QED
      BY <1>2, <2>5, <3>2, <3>3, MoveQuiet, MoveHushed DEF Quiet
  <2> QED
    BY <1>4, <2>3, <2>6, <2>7 DEF Take
<1>5. ASSUME NEW t \in Txns, Reassess(w, t) PROVE Quiet'
  <2>1. QuietItems'
    BY <1>2, <1>5, QuietStays DEF Reassess
  <2>2. PICK x : x = Loaded(t, FALSE)
    OBVIOUS
  <2>3. Moves(w, x) /\ x.txn = t
    BY <1>5, <2>2, BecomeMoves DEF Reassess, Loaded, Idle
  <2>4. Settled(t)'
    BY <1>1, <1>5, HushedType DEF Reassess, Settled
  <2> QED
    BY <1>2, <2>1, <2>3, <2>4, MoveHushed DEF Quiet
<1>6. CASE Resolve(w)
  <2>0. worker[w] \in Worker /\ worker[w].at = "resolve" /\ worker[w].txn \in Txns
    BY <1>6 DEF TypeOK, Resolve, ResolveWritten, ResolveBlank, ResolveNone
  <2>1. PICK t \in Txns : t = worker[w].txn
    BY <2>0
  <2>2. QuietItems'
    BY <1>2, <1>6, QuietStays DEF Resolve, ResolveWritten, ResolveBlank, ResolveNone
  <2>3. PICK p \in BOOLEAN, q \in BOOLEAN :
          /\ Become(w, Resolved(worker[w], p, q))
          /\ p => worker[w].note = "filed" \/ excused' = Hushed(t)
    <3>1. CASE ResolveWritten(w)
      BY <3>1 DEF ResolveWritten
    <3>2. CASE ResolveBlank(w)
      BY <2>1, <3>2 DEF ResolveBlank
    <3>3. CASE ResolveNone(w)
      BY <3>3 DEF ResolveNone
    <3> QED
      BY <1>6, <3>1, <3>2, <3>3 DEF Resolve
  <2>4. PICK x : x = Resolved(worker[w], p, q)
    OBVIOUS
  <2>5. /\ x.at = "settle" /\ x.notify = worker[w].notify /\ x.silent = p /\ x.txn = t
        /\ Moves(w, x)
    BY <2>0, <2>1, <2>3, <2>4, BecomeMoves DEF Resolved, Worker
  <2>6. Hushing(x) => Settled(t)'
    <3>1. CASE Hushing(worker[w])
      BY <1>2, <2>1, <3>1, StaySettled DEF Quiet, QuietWorkers
    <3>2. CASE excused' = Hushed(t)
      BY <1>1, <3>2, HushedType DEF Settled
    <3> QED
      BY <2>0, <2>3, <2>5, <3>1, <3>2 DEF Hushing
  <2> QED
    BY <1>2, <2>2, <2>5, <2>6, MoveQuiet, MoveHushed DEF Quiet
<1> QED
  BY <1>4, <1>5, <1>6

\* A worker settles, announces or dies.
LEMMA QuietWorking ==
    ASSUME TypeOK, Quiet, NEW w \in Workers,
           \/ Absorb(w) \/ Claim(w) \/ ClaimError(w) \/ Address(w) \/ AddressError(w)
           \/ \E u \in Users : Nudge(w, u) \/ Tell(w, u)
    PROVE  Quiet'
<1>0. worker[w] \in Worker /\ worker[w].txn \in Txns
  BY DEF TypeOK, Absorb, Claim, ClaimError, Address, AddressError, Nudge, ClaimNudge,
         RefuseNudge, Asks, Tell, TellNudge, TellPlain
<1>1. row' = row \/ row' = Notified(worker[w].txn)
  BY DEF Absorb, Claim, ClaimError, Address, AddressError, Nudge, ClaimNudge,
         RefuseNudge, Tell, TellNudge, TellPlain, store
<1>2. excused \subseteq excused' /\ queue' = queue
  BY <1>0 DEF TypeOK, Absorb, Claim, ClaimError, Address, AddressError, Nudge, ClaimNudge,
         RefuseNudge, Tell, TellNudge, TellPlain, history
<1>3. /\ Onward
      /\ \A t \in Txns : row'[t].age = row[t].age /\ row'[t].note = row[t].note
  <2>1. CASE row' = row
    BY <1>2, <2>1 DEF Onward
  <2>2. CASE row' = Notified(worker[w].txn)
    <3>1. row \in [Txns -> Row]
      BY DEF TypeOK
    <3>2. \A t \in Txns : /\ row'[t].age = row[t].age /\ row'[t].note = row[t].note
                          /\ row[t].notified => row'[t].notified
      BY <1>0, <2>2, <3>1 DEF Notified, Row
    <3>3. Onward
      BY <1>2, <3>2 DEF Onward
    <3> QED
      BY <3>2, <3>3
  <2> QED
    BY <1>1, <2>1, <2>2
<1>4. PICK x : Become(w, x) /\ ~Hushing(x)
  <2>1. ~Hushing(Idle)
    BY DEF Hushing, Idle
  <2>2. CASE Absorb(w) \/ ClaimError(w) \/ AddressError(w)
    BY <2>1, <2>2 DEF Absorb, ClaimError, AddressError
  <2>3. CASE Claim(w)
    <3>1. PICK m \in Suggestions \cup {NoMatch} :
             Become(w, Claimed(worker[w], m)) \/ Become(w, Idle)
      BY <2>3 DEF Claim, Matches
    <3>2. ~Hushing(Claimed(worker[w], m))
      BY <1>0, ClaimedFields DEF Hushing
    <3> QED
      BY <2>1, <3>1, <3>2
  <2>4. CASE Address(w)
    <3>1. PICK A \in Audiences(worker[w].txn) : \E W \in SUBSET A :
             Become(w, Telling(worker[w], A, W))
      BY <2>4 DEF Address
    <3>2. PICK W \in SUBSET A : Become(w, Telling(worker[w], A, W))
      BY <3>1
    <3>3. A \in SUBSET Users /\ W \in SUBSET Users
      BY <1>0, AudienceType
    <3>4. ~Hushing(Telling(worker[w], A, W))
      BY <1>0, <3>3, TellingFields DEF Hushing
    <3> QED
      BY <3>2, <3>4
  <2>5. ASSUME NEW u \in Users, Nudge(w, u) PROVE \E x : Become(w, x) /\ ~Hushing(x)
    <3>1. PICK g \in BOOLEAN : Become(w, Turn(worker[w], u, g)) /\ worker[w].at = "tell"
      BY <2>5 DEF Nudge, ClaimNudge, RefuseNudge, Asks
    <3>2. ~Hushing(Turn(worker[w], u, g))
      BY <1>0, <3>1, TurnFields DEF Hushing
    <3> QED
      BY <3>1, <3>2
  <2>6. ASSUME NEW u \in Users, Tell(w, u) PROVE \E x : Become(w, x) /\ ~Hushing(x)
    <3>1. Become(w, Told(worker[w], u)) /\ worker[w].at = "tell"
      BY <2>6 DEF Tell, TellNudge, TellPlain
    <3>2. ~Hushing(Told(worker[w], u))
      BY <1>0, <2>1, <3>1, ToldFields DEF Hushing
    <3> QED
      BY <3>1, <3>2
  <2> QED
    BY <2>2, <2>3, <2>4, <2>5, <2>6
<1>5. QuietWorkers'
  BY <1>3, <1>4, BecomeMoves, MoveQuiet
<1> QED
  BY <1>2, <1>3, <1>5, QuietStays DEF Quiet

\* Every step.
LEMMA QuietStep ==
    ASSUME TypeOK, NewRows, Quiet, [Next]_vars
    PROVE  Quiet'
<1>1. ASSUME UNCHANGED <<row, queue, worker, excused>> PROVE Quiet'
  BY <1>1, QuietStays DEF Quiet, Onward
<1>2. CASE UNCHANGED vars
  BY <1>1, <1>2 DEF vars, store, memory, history
<1>3. ASSUME NEW r \in Replicas, Sweep(r) PROVE Quiet'
  BY <1>1, <1>3 DEF Sweep, store, history
<1>4. ASSUME NEW r \in Replicas, Crash(r) PROVE Quiet'
  <2>1. /\ row' = row /\ excused \subseteq excused'
        /\ queue' = [queue EXCEPT ![r] = <<>>]
        /\ worker' = [v \in Workers |-> IF Home[v] = r THEN Idle ELSE worker[v]]
    BY <1>4 DEF Crash, store
  <2>2. Onward /\ QuietRows'
    BY <2>1, QuietStays DEF Onward
  <2>3. QuietItems'
    <3>1. queue \in [Replicas -> Seq(Item)]
      BY DEF TypeOK
    <3>2. \A p \in Replicas : queue'[p] = IF p = r THEN <<>> ELSE queue[p]
      BY <2>1, <3>1
    <3> QED
      BY <2>2, <3>2, FewerQuiet
  <2>4. QuietWorkers'
    BY <2>1, <2>2, IdlersQuiet
  <2> QED
    BY <2>2, <2>3, <2>4 DEF Quiet
<1>5. ASSUME NEW u \in Users, NEW s \in Suggestions, CooldownEnds(u, s) PROVE Quiet'
  BY <1>1, <1>5 DEF CooldownEnds, store, memory, history
<1> QED
  BY <1>2, <1>3, <1>4, <1>5, QuietFilling, QuietOutside, QuietPreparing, QuietWorking
     DEF Next, Process

\* The invariant that FreshIsHeard and the refinement rest on: one worker
\* announces a claimed row, whoever is still to be told has heard nothing, those
\* no longer to be told of it heard of it once, and whatever is passed over in
\* silence was excused before.
THEOREM PipelineInvariant == Spec => [](PipelineInv /\ Quiet)
<1>1. TypeOK /\ TypeOK' /\ NewRows /\ Quiet /\ PipelineInv /\ [Next]_vars =>
          (NewRows /\ Quiet /\ PipelineInv)'
  BY EveryStep, QuietStep
<1> QED
  BY <1>1, AtFirst, TypeCorrect, PTL DEF Spec

\* No push is swallowed, for any number of replicas, workers, transactions and
\* members, and any capacity of the queues.
THEOREM FreshHeard == Spec => []FreshIsHeard
<1>1. PipelineInv => FreshIsHeard
  BY DEF PipelineInv
<1> QED
  BY <1>1, PipelineInvariant, PTL

\* The pipeline implements Announcements: nobody hears of a transaction twice.
THEOREM Refines == Spec => ImplementsAnnouncements
<1>1. TypeOK /\ NewRows /\ Quiet /\ PipelineInv /\ [Next]_vars =>
          (NewRows /\ Quiet /\ PipelineInv)' /\ [Announced!Next]_(Announced!vars)
  BY EveryStep, QuietStep
<1> QED
  BY <1>1, AtFirst, TypeCorrect, PTL DEF Spec, ImplementsAnnouncements, Announced!Spec

-----------------------------------------------------------------------------
(* Nudges.                                                                 *)

\* Worker x has been granted u's nudge for t and is about to send it.
Holds(x, t, u) == /\ x.at = "tell" /\ x.txn = t
                  /\ x.nudge /\ x.turn = {u} /\ u \in x.left

\* What is owed later is owed now by a worker that stays where it is, or has
\* just been granted.
LEMMA OwedLater ==
    ASSUME OwedIsGranted,
           \A t \in Txns, u \in Users : <<t, u>> \in owed' =>
               \/ /\ <<t, u>> \in owed
                  /\ \A v \in Workers : Holds(worker[v], t, u) => worker'[v] = worker[v]
               \/ \E v \in Workers : Holds(worker'[v], t, u)
    PROVE  OwedIsGranted'
<1> SUFFICES ASSUME NEW t \in Txns, NEW u \in Users, <<t, u>> \in owed'
             PROVE  \E v \in Workers : Holds(worker'[v], t, u)
  BY DEF OwedIsGranted, Holds
<1>1. ASSUME <<t, u>> \in owed,
             \A v \in Workers : Holds(worker[v], t, u) => worker'[v] = worker[v]
      PROVE  \E v \in Workers : Holds(worker'[v], t, u)
  <2>1. PICK v \in Workers : Holds(worker[v], t, u)
    BY <1>1 DEF OwedIsGranted, Holds
  <2> QED
    BY <1>1, <2>1
<1> QED
  BY <1>1

\* Steps that neither grant nor send a nudge, nor end a process.
LEMMA OwedKept ==
    ASSUME OwedIsGranted, owed' = owed, worker' = worker
    PROVE  OwedIsGranted'
  BY OwedLater

LEMMA OwedElsewhere ==
    ASSUME OwedIsGranted, owed' = owed, NEW w \in Workers, NEW x, Moves(w, x),
           \A t \in Txns, u \in Users : ~Holds(worker[w], t, u)
    PROVE  OwedIsGranted'
  BY OwedLater DEF Moves

\* The worker of one step of process.
LEMMA OwedWorking ==
    ASSUME TypeOK, OwedIsGranted, NEW w \in Workers,
           Process(w) \/ \E t \in Txns : Reassess(w, t)
    PROVE  OwedIsGranted'
<1>0. worker[w] \in Worker
  BY DEF TypeOK
<1>1. \A t \in Txns, u \in Users :
        Holds(worker[w], t, u) => worker[w].at = "tell" /\ worker[w].nudge /\ worker[w].turn = {u}
  BY DEF Holds
<1>2. ASSUME worker[w].at # "tell" \/ ~worker[w].nudge \/ worker[w].turn = {},
             owed' = owed, NEW x, Become(w, x)
      PROVE  OwedIsGranted'
  BY <1>1, <1>2, BecomeMoves, OwedElsewhere
<1>3. CASE Take(w) \/ Resolve(w) \/ \E t \in Txns : Reassess(w, t)
  <2>1. owed' = owed /\ worker[w].at # "tell"
    BY <1>3 DEF Take, Resolve, ResolveWritten, ResolveBlank, ResolveNone, Reassess, history
  <2>2. \E x : Become(w, x)
    BY <1>3 DEF Take, Resolve, ResolveWritten, ResolveBlank, ResolveNone, Reassess
  <2> QED
    BY <1>2, <2>1, <2>2
<1>4. CASE Absorb(w) \/ Claim(w) \/ ClaimError(w) \/ Address(w) \/ AddressError(w)
  <2>1. owed' = owed /\ worker[w].at # "tell"
    BY <1>4 DEF Absorb, Claim, ClaimError, Address, AddressError, history
  <2>2. \E x : Become(w, x)
    <3>1. CASE Absorb(w) \/ ClaimError(w) \/ AddressError(w)
      BY <3>1 DEF Absorb, ClaimError, AddressError
    <3>2. CASE Claim(w)
      <4>1. PICK m : Become(w, Claimed(worker[w], m)) \/ Become(w, Idle)
        BY <3>2 DEF Claim
      <4> QED
        BY <4>1
    <3>3. CASE Address(w)
      BY <3>3 DEF Address
    <3> QED
      BY <1>4, <3>1, <3>2, <3>3
  <2> QED
    BY <1>2, <2>1, <2>2
<1>5. ASSUME NEW u \in Users, RefuseNudge(w, u) PROVE OwedIsGranted'
  <2>1. owed' = owed /\ worker[w].turn = {} /\ Become(w, Turn(worker[w], u, FALSE))
    BY <1>5 DEF RefuseNudge, Asks, history
  <2> QED
    BY <1>2, <2>1
<1>6. ASSUME NEW u \in Users, TellPlain(w, u) PROVE OwedIsGranted'
  <2>1. owed' = owed /\ ~worker[w].nudge /\ Become(w, Told(worker[w], u))
    BY <1>6 DEF TellPlain
  <2> QED
    BY <1>2, <2>1
<1>7. ASSUME NEW u \in Users, ClaimNudge(w, u) PROVE OwedIsGranted'
  <2>1. PICK x : x = Turn(worker[w], u, TRUE)
    OBVIOUS
  <2>2. PICK t : t = worker[w].txn
    OBVIOUS
  <2>3. /\ worker[w].at = "tell" /\ worker[w].turn = {} /\ u \in worker[w].left
        /\ owed' = owed \cup {<<t, u>>} /\ Moves(w, x)
    BY <1>7, <2>1, <2>2, BecomeMoves DEF ClaimNudge, Asks
  <2>4. Holds(x, t, u)
    BY <1>0, <2>1, <2>2, <2>3, TurnFields DEF Holds
  <2>5. \A s \in Txns, v \in Users : ~Holds(worker[w], s, v)
    BY <1>1, <2>3
  <2>6. ASSUME NEW s \in Txns, NEW v \in Users, <<s, v>> \in owed'
        PROVE  \/ /\ <<s, v>> \in owed
                  /\ \A y \in Workers : Holds(worker[y], s, v) => worker'[y] = worker[y]
               \/ \E y \in Workers : Holds(worker'[y], s, v)
    <3>1. CASE <<s, v>> \in owed
      BY <2>3, <2>5, <3>1 DEF Moves
    <3>2. CASE s = t /\ v = u
      BY <2>3, <2>4, <3>2 DEF Moves
    <3> QED
      BY <2>3, <2>6, <3>1, <3>2
  <2> QED
    BY <2>6, OwedLater
<1>8. ASSUME NEW u \in Users, TellNudge(w, u) PROVE OwedIsGranted'
  <2>1. PICK t : t = worker[w].txn
    OBVIOUS
  <2>2. /\ worker[w].turn = {u} /\ owed' = owed \ {<<t, u>>}
        /\ Moves(w, Told(worker[w], u))
    BY <1>8, <2>1, BecomeMoves DEF TellNudge
  <2>3. \A s \in Txns, v \in Users : Holds(worker[w], s, v) => s = t /\ v = u
    BY <1>1, <2>1, <2>2 DEF Holds
  <2>4. \A s \in Txns, v \in Users : <<s, v>> \in owed' =>
           /\ <<s, v>> \in owed
           /\ \A y \in Workers : Holds(worker[y], s, v) => worker'[y] = worker[y]
    BY <2>2, <2>3 DEF Moves
  <2> QED
    BY <2>4, OwedLater
<1> QED
  BY <1>3, <1>4, <1>5, <1>6, <1>7, <1>8 DEF Process, Nudge, Tell

\* Every step.
LEMMA OwedStep ==
    ASSUME TypeOK, OwedIsGranted, [Next]_vars
    PROVE  OwedIsGranted'
<1>1. CASE UNCHANGED vars
  BY <1>1, OwedKept DEF vars, memory, history
<1>2. ASSUME NEW r \in Replicas, NEW t \in Txns,
             Ingest(r, t) \/ SweepNext(r, t) \/ SyncNote(r, t)
      PROVE  OwedIsGranted'
  BY <1>2, OwedKept DEF Ingest, SweepNext, SyncNote, history
<1>3. ASSUME NEW r \in Replicas, Sweep(r) PROVE OwedIsGranted'
  BY <1>3, OwedKept DEF Sweep, history
<1>4. ASSUME NEW r \in Replicas, Crash(r) PROVE OwedIsGranted'
  <2>1. /\ worker' = [v \in Workers |-> IF Home[v] = r THEN Idle ELSE worker[v]]
        /\ owed' = owed \ UNION {Granted(worker[v]) : v \in {y \in Workers : Home[y] = r}}
    BY <1>4 DEF Crash
  <2>2. ASSUME NEW t \in Txns, NEW u \in Users, <<t, u>> \in owed',
               NEW v \in Workers, Holds(worker[v], t, u)
        PROVE  worker'[v] = worker[v]
    <3>1. <<t, u>> \in Granted(worker[v])
      BY <2>2 DEF Holds, Granted
    <3>2. Home[v] # r
      BY <2>1, <2>2, <3>1
    <3> QED
      BY <2>1, <3>2
  <2>3. \A t \in Txns, u \in Users : <<t, u>> \in owed' => <<t, u>> \in owed
    BY <2>1
  <2> QED
    BY <2>2, <2>3, OwedLater
<1>5. ASSUME NEW w \in Workers, Process(w) \/ \E t \in Txns : Reassess(w, t)
      PROVE  OwedIsGranted'
  BY <1>5, OwedWorking
<1>6. ASSUME NEW t \in Txns, Outside(t) PROVE OwedIsGranted'
  BY <1>6, OwedKept DEF Outside, GrowOlder, Vanish, SetCategory, WriteNote, WriteInCrew,
                        memory, history
<1>7. ASSUME NEW u \in Users, NEW s \in Suggestions, CooldownEnds(u, s) PROVE OwedIsGranted'
  BY <1>7, OwedKept DEF CooldownEnds, memory, history
<1> QED
  BY <1>1, <1>2, <1>3, <1>4, <1>5, <1>6, <1>7 DEF Next

\* However many workers race for a transaction, the nudges they use up are the
\* winner's: each is still to be sent, to a member who has heard nothing of the
\* transaction, or was sent, or the process ended or the answer was lost in
\* between.
THEOREM NudgesReachTheirMember == Spec => []NudgesAreSpent
<1>1. Init => OwedIsGranted
  BY DEF Init, OwedIsGranted
<1>2. TypeOK /\ OwedIsGranted /\ [Next]_vars => OwedIsGranted'
  BY OwedStep
<1>3. PipelineInv /\ OwedIsGranted => NudgesAreSpent
  <2> SUFFICES ASSUME PipelineInv, OwedIsGranted,
                      NEW t \in Txns, NEW u \in Users, <<t, u>> \in owed
               PROVE  /\ heard[t][u] = 0
                      /\ \E w \in Workers :
                           /\ Announcing(worker[w]) /\ worker[w].txn = t
                           /\ worker[w].at = "tell" => u \in worker[w].left
    BY DEF NudgesAreSpent
  <2>1. PICK w \in Workers : Holds(worker[w], t, u)
    BY DEF OwedIsGranted, Holds
  <2> QED
    BY <2>1 DEF Holds, Announcing, PipelineInv, UntoldHeardNothing
<1> QED
  BY <1>1, <1>2, <1>3, TypeCorrect, PipelineInvariant, PTL DEF Spec

=============================================================================
