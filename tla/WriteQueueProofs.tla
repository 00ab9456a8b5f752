-------------------------- MODULE WriteQueueProofs --------------------------
(***************************************************************************)
(* Proofs about WriteQueue, for any number of notes, cards, runners and    *)
(* requests, and any batch size and number of attempts.                    *)
(***************************************************************************)
EXTENDS WriteQueue, FiniteSetTheorems, TLAPS

-----------------------------------------------------------------------------
(* Types.                                                                  *)

\* Every target changes a cell.
LEMMA CellType == \A t \in Targets : Cell(t) \in Cells
  BY DEF Cell, Cells, Targets

\* What a runner has in hand was returned by TakeWriteJobs.
LEMMA HandsType ==
    ASSUME TypeOK, NEW r \in Drainers
    PROVE  /\ drain[r] \in DrainState
           /\ drain[r].batch \subseteq Taken
           /\ drain[r].cur \subseteq Taken
           /\ Hands(r) \subseteq Taken
  BY DEF TypeOK, DrainState, Hands

\* The initial values have their types.
LEMMA InitType == Init => TypeOK
  <1> SUFFICES ASSUME Init PROVE TypeOK
    OBVIOUS
  <1>1. job \in [Targets -> Job]
    <2>1. NoJob \in Job
      BY WriteQueueAssumption DEF NoJob, Job
    <2> QED
      BY <2>1 DEF Init
  <1>2. drain \in [Drainers -> DrainState]
    BY DEF Init, Idle, DrainState
  <1>3. page \in [Drainers -> [Readers -> Page]]
    <2>1. NoPage \in [{} -> Values]
      BY DEF NoPage
    <2>2. NoPage \in Page
      BY <2>1 DEF Page
    <2> QED
      BY <2>2 DEF Init
  <1>4. /\ crew \in [Cells -> Values]
        /\ mirror \in [Notes -> Values]
        /\ ahead \in SUBSET (Targets \X Targets)
        /\ want \in [Cells -> Values]
        /\ raced \in [Cells -> BOOLEAN]
        /\ abandoned \in [Cells -> BOOLEAN]
        /\ failures \in [Targets -> 0..MaxAttempts]
    BY WriteQueueAssumption DEF Init
  <1> QED
    BY <1>1, <1>2, <1>3, <1>4 DEF TypeOK

\* The updates of the loop keep the type of its state.
LEMMA LoopType ==
    ASSUME TypeOK, NEW r \in Drainers
    PROVE  /\ \A j \in Taken, place \in {"mirror", "delete", "fail"} :
                 With(r, place, j) => drain' \in [Drainers -> DrainState]
           /\ NextJob(r) => drain' \in [Drainers -> DrainState]
           /\ [drain EXCEPT ![r] = Idle] \in [Drainers -> DrainState]
  <1>1. Idle \in DrainState
    BY DEF Idle, DrainState
  <1>2. drain \in [Drainers -> DrainState]
    BY DEF TypeOK
  <1>3. ASSUME NEW j \in Taken, NEW place \in {"mirror", "delete", "fail"},
               With(r, place, j)
        PROVE  drain' \in [Drainers -> DrainState]
    <2>1. [at |-> place, batch |-> drain[r].batch \ {j}, cur |-> {j}] \in DrainState
      BY HandsType DEF DrainState
    <2> QED
      BY <1>2, <1>3, <2>1 DEF With
  <1>4. ASSUME NextJob(r) PROVE drain' \in [Drainers -> DrainState]
    <2>1. [at |-> "next", batch |-> drain[r].batch, cur |-> {}] \in DrainState
      BY HandsType DEF DrainState
    <2> QED
      BY <1>1, <1>2, <1>4, <2>1 DEF NextJob
  <1> QED
    BY <1>1, <1>2, <1>3, <1>4

\* A statement by job id leaves rows.
LEMMA RowType ==
    ASSUME TypeOK, NEW j \in Taken
    PROVE  /\ Dropped(j) \in [Targets -> Job]
           /\ BackedOff(j) \in [Targets -> Job]
  <1>1. job \in [Targets -> Job] /\ j.target \in Targets
    BY DEF TypeOK, Taken
  <1>2. NoJob \in Job
    BY WriteQueueAssumption DEF NoJob, Job
  <1>3. ASSUME NEW x \in Job PROVE Later(x) \in Job
    <2>1. \A n \in Nat : [x EXCEPT !.attempts = n, !.due = FALSE] \in Job
      BY DEF Job
    <2>2. x.attempts + 1 \in Nat
      BY DEF Job
    <2> QED
      BY <2>1, <2>2 DEF Later
  <1>4. Dropped(j) \in [Targets -> Job]
    BY <1>1, <1>2 DEF Dropped
  <1>5. BackedOff(j) \in [Targets -> Job]
    BY <1>1, <1>3 DEF BackedOff
  <1> QED
    BY <1>4, <1>5

\* The failures of a target stay counted up to the cap.
LEMMA ChargeType ==
    ASSUME TypeOK, NEW j \in Taken, Charge(j)
    PROVE  failures' \in [Targets -> 0..MaxAttempts]
  <1>1. failures \in [Targets -> 0..MaxAttempts] /\ j.target \in Targets
    BY DEF TypeOK, Taken
  <1>2. failures[j.target] < MaxAttempts => failures[j.target] + 1 \in 0..MaxAttempts
    BY <1>1, WriteQueueAssumption
  <1> QED
    BY <1>1, <1>2 DEF Charge

\* A call that reaches Crew leaves values there.
LEMMA InCrewType ==
    ASSUME TypeOK, NEW j \in Taken, InCrew(j)
    PROVE  crew' \in [Cells -> Values]
  BY CellType DEF TypeOK, Taken, InCrew

\* A target that becomes due is put behind others.
LEMMA DueNowType ==
    ASSUME TypeOK, NEW t \in Targets
    PROVE  DueNow(t) \in SUBSET (Targets \X Targets)
  BY DEF TypeOK, DueNow, Due

\* While there are ids left, a new row gets one of them.
LEMMA NewIdType == NewIds # {} => NewId \in 1..MaxIds
  <1>1. NewIds # {} => NewId \in NewIds
    BY DEF NewId
  <1> QED
    BY <1>1 DEF NewIds

\* Requests, edits and backoffs keep the types.
LEMMA RequestType ==
    ASSUME TypeOK,
           \/ \E t \in Targets : BackoffEnds(t) \/ \E v \in Values : Enqueue(t, v)
           \/ \E c \in Cells, v \in Values : EditInCrew(c, v)
    PROVE  TypeOK'
  <1>1. ASSUME NEW t \in Targets, BackoffEnds(t) PROVE TypeOK'
    <2>1. [job[t] EXCEPT !.due = TRUE] \in Job
      BY DEF TypeOK, Job
    <2>2. job' \in [Targets -> Job]
      BY <1>1, <2>1 DEF BackoffEnds, TypeOK
    <2>3. ahead' \in SUBSET (Targets \X Targets)
      BY <1>1, DueNowType DEF BackoffEnds
    <2> QED
      BY <1>1, <2>2, <2>3 DEF BackoffEnds, TypeOK
  <1>2. ASSUME NEW t \in Targets, NEW v \in Values, Enqueue(t, v) PROVE TypeOK'
    <2>1. ahead' \in SUBSET (Targets \X Targets)
      BY <1>2, DueNowType DEF Enqueue
    <2>2. (IF Pending(t) THEN job[t].id ELSE NewId) \in 0..MaxIds
      <3>1. job[t].id \in 0..MaxIds
        BY DEF TypeOK, Job
      <3>2. Pending(t) \/ NewId \in 1..MaxIds
        BY <1>2, NewIdType DEF Enqueue
      <3> QED
        BY <3>1, <3>2, WriteQueueAssumption
    <2>3. [id |-> IF Pending(t) THEN job[t].id ELSE NewId,
           value |-> v, attempts |-> 0, due |-> TRUE] \in Job
      BY <2>2 DEF Job
    <2>4. job' \in [Targets -> Job]
      BY <1>2, <2>3 DEF Enqueue, TypeOK
    <2>5. want' \in [Cells -> Values] /\ abandoned' \in [Cells -> BOOLEAN]
      BY <1>2, CellType DEF Enqueue, TypeOK
    <2>6. raced' \in [Cells -> BOOLEAN]
      <3>1. (InHand(Cell(t)) \/ \E u \in Targets \ {t} :
                                   Pending(u) /\ Cell(u) = Cell(t)) \in BOOLEAN
        OBVIOUS
      <3> QED
        BY <1>2, <3>1, CellType DEF Enqueue, TypeOK
    <2>7. failures' \in [Targets -> 0..MaxAttempts]
      BY <1>2, WriteQueueAssumption DEF Enqueue, TypeOK
    <2> QED
      BY <1>2, <2>1, <2>4, <2>5, <2>6, <2>7 DEF Enqueue, TypeOK
  <1>3. ASSUME NEW c \in Cells, NEW v \in Values, EditInCrew(c, v) PROVE TypeOK'
    <2>1. crew' \in [Cells -> Values]
      BY <1>3 DEF EditInCrew, TypeOK
    <2>2. /\ want' \in [Cells -> Values]
          /\ raced' \in [Cells -> BOOLEAN]
          /\ abandoned' \in [Cells -> BOOLEAN]
      <3>1. CASE InHand(c) \/ Queued(c)
        <4>1. /\ raced' = [raced EXCEPT ![c] = TRUE]
              /\ UNCHANGED <<want, abandoned>>
          BY <1>3, <3>1 DEF EditInCrew
        <4> QED
          BY <4>1 DEF TypeOK
      <3>2. CASE ~(InHand(c) \/ Queued(c))
        <4>1. /\ want' = [want EXCEPT ![c] = v]
              /\ raced' = [raced EXCEPT ![c] = FALSE]
              /\ abandoned' = [abandoned EXCEPT ![c] = FALSE]
          BY <1>3, <3>2 DEF EditInCrew
        <4> QED
          BY <4>1 DEF TypeOK
      <3> QED
        BY <3>1, <3>2
    <2> QED
      BY <1>3, <2>1, <2>2 DEF EditInCrew, TypeOK
  <1> QED
    BY <1>1, <1>2, <1>3

\* The drain keeps the types.
LEMMA DrainType ==
    ASSUME TypeOK, NEW r \in Drainers, Drain(r)
    PROVE  TypeOK'
  <1>1. CASE Take(r)
    <2>1. ASSUME NEW S \in SUBSET Due
          PROVE  [at |-> "next", batch |-> {Take1(t) : t \in S}, cur |-> {}]
                     \in DrainState
      <3>1. \A t \in Targets : Take1(t) \in Taken
        BY DEF TypeOK, Job, Take1, Taken
      <3> QED
        BY <3>1 DEF DrainState, Due
    <2>2. drain' \in [Drainers -> DrainState]
      BY <1>1, <2>1 DEF Take, TypeOK
    <2> QED
      BY <1>1, <2>2 DEF Take, TypeOK
  <1>2. CASE CallSucceeds(r)
    <2>1. PICK j \in drain[r].batch : InCrew(j) /\ With(r, "mirror", j)
      BY <1>2 DEF CallSucceeds
    <2>2. j \in Taken
      BY HandsType
    <2>3. drain' \in [Drainers -> DrainState] /\ crew' \in [Cells -> Values]
      BY <2>1, <2>2, LoopType, InCrewType
    <2> QED
      BY <1>2, <2>3 DEF CallSucceeds, TypeOK
  <1>3. CASE CallFails(r)
    <2>1. PICK j \in drain[r].batch : With(r, "fail", j) /\ Charge(j)
      BY <1>3 DEF CallFails
    <2>2. j \in Taken
      BY HandsType
    <2>3. /\ drain' \in [Drainers -> DrainState]
          /\ failures' \in [Targets -> 0..MaxAttempts]
      BY <2>1, <2>2, LoopType, ChargeType
    <2> QED
      BY <1>3, <2>3 DEF CallFails, TypeOK
  <1>4. CASE ReplyLost(r)
    <2>1. PICK j \in drain[r].batch : InCrew(j) /\ With(r, "fail", j) /\ Charge(j)
      BY <1>4 DEF ReplyLost
    <2>2. j \in Taken
      BY HandsType
    <2>3. /\ drain' \in [Drainers -> DrainState]
          /\ crew' \in [Cells -> Values]
          /\ failures' \in [Targets -> 0..MaxAttempts]
      BY <2>1, <2>2, LoopType, InCrewType, ChargeType
    <2> QED
      BY <1>4, <2>3 DEF ReplyLost, TypeOK
  <1>5. CASE Unauthorized(r) \/ Cancelled(r)
    <2>1. drain' \in [Drainers -> DrainState]
      BY <1>5, LoopType DEF Unauthorized, Cancelled
    <2> QED
      BY <1>5, <2>1 DEF Unauthorized, Cancelled, TypeOK
  <1>6. CASE Mirror(r)
    <2>1. PICK j \in drain[r].cur :
             /\ mirror' \in {mirror} \cup
                  (IF j.target \in Notes
                   THEN {[mirror EXCEPT ![j.target] = j.value]} ELSE {})
             /\ With(r, "delete", j)
      BY <1>6 DEF Mirror
    <2>2. j \in Taken
      BY HandsType
    <2>3. drain' \in [Drainers -> DrainState]
      BY <2>1, <2>2, LoopType
    <2>4. mirror' \in [Notes -> Values]
      BY <2>1, <2>2 DEF TypeOK, Taken
    <2> QED
      BY <1>6, <2>3, <2>4 DEF Mirror, TypeOK
  <1>7. CASE Delete(r)
    <2>1. PICK j \in drain[r].cur : job' \in {job, Dropped(j)}
      BY <1>7 DEF Delete
    <2>2. job' \in [Targets -> Job]
      BY <2>1, HandsType, RowType DEF TypeOK
    <2>3. drain' \in [Drainers -> DrainState]
      BY <1>7, LoopType DEF Delete
    <2> QED
      BY <1>7, <2>2, <2>3 DEF Delete, TypeOK
  <1>8. CASE Fail(r)
    <2>1. drain' \in [Drainers -> DrainState]
      BY <1>8, LoopType DEF Fail
    <2>2. PICK j \in drain[r].cur :
             IF GivesUp(j)
             THEN /\ job' = Dropped(j)
                  /\ abandoned' = [abandoned EXCEPT ![Cell(j.target)] =
                                     @ \/ job[j.target].id = j.id]
             ELSE job' = BackedOff(j) /\ UNCHANGED abandoned
      BY <1>8 DEF Fail
    <2>3. j \in Taken /\ Cell(j.target) \in Cells
      BY HandsType, CellType DEF Taken
    <2>4. job' \in [Targets -> Job]
      BY <2>2, <2>3, RowType
    <2>5. abandoned' \in [Cells -> BOOLEAN]
      <3>1. (abandoned[Cell(j.target)] \/ job[j.target].id = j.id) \in BOOLEAN
        OBVIOUS
      <3> QED
        BY <2>2, <2>3, <3>1 DEF TypeOK
    <2> QED
      BY <1>8, <2>1, <2>4, <2>5 DEF Fail, TypeOK
  <1>9. CASE FailError(r)
    <2>1. drain' \in [Drainers -> DrainState]
      BY <1>9, LoopType DEF FailError
    <2> QED
      BY <1>9, <2>1 DEF FailError, TypeOK
  <1>10. CASE Crash(r)
    <2>1. drain' \in [Drainers -> DrainState]
      BY <1>10, LoopType DEF Crash
    <2>2. page' \in [Drainers -> [Readers -> Page]]
      <3>1. NoPage \in [{} -> Values]
        BY DEF NoPage
      <3>2. [k \in Readers |-> NoPage] \in [Readers -> Page]
        BY <3>1 DEF Page
      <3> QED
        BY <1>10, <3>2 DEF Crash, TypeOK
    <2> QED
      BY <1>10, <2>1, <2>2 DEF Crash, TypeOK
  <1> QED
    BY <1>1, <1>2, <1>3, <1>4, <1>5, <1>6, <1>7, <1>8, <1>9, <1>10 DEF Drain

\* Reading Crew's notes and copying them keeps the types.
LEMMA CopyType ==
    ASSUME TypeOK, NEW r \in Drainers, NEW k \in Readers, Copy(r, k)
    PROVE  TypeOK'
  <1>1. page[r][k] \in Page
    BY DEF TypeOK
  <1>2. CASE FetchPage(r, k)
    <2>1. PICK S \in SUBSET Notes \ {{}} :
             page' = [page EXCEPT ![r][k] = [t \in S |-> crew[t]]]
      BY <1>2 DEF FetchPage
    <2>2. [t \in S |-> crew[t]] \in [S -> Values]
      BY DEF TypeOK, Cells
    <2>3. [t \in S |-> crew[t]] \in Page
      BY <2>2 DEF Page
    <2>4. page' \in [Drainers -> [Readers -> Page]]
      BY <2>1, <2>3 DEF TypeOK
    <2> QED
      BY <1>2, <2>4 DEF FetchPage, TypeOK
  <1>3. ASSUME NEW t \in Notes, CopyNote(r, k, t) \/ CopyError(r, k, t)
        PROVE  TypeOK'
    <2>1. PICK S \in SUBSET Notes : page[r][k] \in [S -> Values]
      BY <1>1 DEF Page
    <2>2. Without(page[r][k], t) \in [S \ {t} -> Values]
      BY <2>1 DEF Without
    <2>3. Without(page[r][k], t) \in Page
      BY <2>2 DEF Page
    <2>4. page' \in [Drainers -> [Readers -> Page]]
      <3>1. page' = [page EXCEPT ![r][k] = Without(page[r][k], t)]
        BY <1>3 DEF CopyNote, CopyError, TypeOK
      <3>2. [page[r] EXCEPT ![k] = Without(page[r][k], t)] \in [Readers -> Page]
        BY <2>3 DEF TypeOK
      <3> QED
        BY <3>1, <3>2 DEF TypeOK
    <2>5. t \in S /\ page[r][k][t] \in Values
      BY <1>3, <2>1 DEF CopyNote, CopyError
    <2>6. mirror' \in [Notes -> Values]
      BY <1>3, <2>5 DEF CopyNote, CopyError, Copied, TypeOK
    <2> QED
      BY <1>3, <2>4, <2>6 DEF CopyNote, CopyError, TypeOK
  <1> QED
    BY <1>2, <1>3 DEF Copy

\* Every step keeps the types.
LEMMA TypeStep == TypeOK /\ [Next]_vars => TypeOK'
  <1> SUFFICES ASSUME TypeOK, [Next]_vars PROVE TypeOK'
    OBVIOUS
  <1>1. CASE UNCHANGED vars
    BY <1>1 DEF vars, TypeOK
  <1>2. CASE Next
    BY <1>2, RequestType, DrainType, CopyType DEF Next, App
  <1> QED
    BY <1>1, <1>2

\* The rows, the drains and the pages keep their shape.
THEOREM TypeCorrect == Spec => []TypeOK
  BY InitType, TypeStep, PTL DEF Spec

-----------------------------------------------------------------------------
(* The queue, cell by cell.                                                *)

\* QueueInv for one cell.
CellOK(c) ==
    ~raced[c] =>
        /\ \A t \in Targets : Pending(t) /\ Cell(t) = c => job[t].value = want[c]
        /\ \A r \in Drainers : \A j \in Hands(r) :
               Cell(j.target) = c => j.value = want[c]
        /\ \A r \in Drainers : drain[r].at \in {"mirror", "delete"} =>
               \A j \in drain[r].cur : Cell(j.target) = c => crew[c] = want[c]
        /\ ~Queued(c) /\ ~abandoned[c] => crew[c] = want[c]

LEMMA CellByCell == QueueInv <=> \A c \in Cells : CellOK(c)
  BY DEF QueueInv, OneValueOnTheWay, DeletesWhatCrewHas, UnracedRequestWins, CellOK

\* What a step of the loops leaves of one cell: no new values come up, Crew is
\* only given the wanted one, and a row disappears only when Crew has it.
Careful(c) ==
    /\ crew'[c] \in {crew[c], want[c]}
    /\ \A t \in Targets : Cell(t) = c /\ Pending(t)' =>
           Pending(t) /\ job'[t].value = job[t].value
    /\ \A r \in Drainers : \A j \in Hands(r)' :
           Cell(j.target) = c => j \in Hands(r) \/ j.value = want[c]
    /\ \A r \in Drainers : drain'[r].at \in {"mirror", "delete"} =>
           \A j \in drain'[r].cur : Cell(j.target) = c =>
               \/ crew'[c] = want[c]
               \/ drain[r].at \in {"mirror", "delete"} /\ j \in drain[r].cur
    /\ ~Queued(c)' /\ ~abandoned'[c] =>
           crew'[c] = want[c] \/ (~Queued(c) /\ ~abandoned[c])

\* A careful step keeps the cell in order.
LEMMA CarefulSteps ==
    ASSUME NEW c \in Cells, CellOK(c),
           raced'[c] = raced[c], want'[c] = want[c],
           ~raced[c] => Careful(c)
    PROVE  CellOK(c)'
  <1> SUFFICES ASSUME ~raced[c] PROVE CellOK(c)'
    BY DEF CellOK
  <1>1. Careful(c)
    OBVIOUS
  <1>2. \A t \in Targets : Pending(t)' /\ Cell(t) = c => job'[t].value = want'[c]
    BY <1>1 DEF CellOK, Careful
  <1>3. \A r \in Drainers : \A j \in Hands(r)' :
            Cell(j.target) = c => j.value = want'[c]
    BY <1>1 DEF CellOK, Careful
  <1>4. \A r \in Drainers : drain'[r].at \in {"mirror", "delete"} =>
            \A j \in drain'[r].cur : Cell(j.target) = c => crew'[c] = want'[c]
    BY <1>1 DEF CellOK, Careful
  <1>5. ~Queued(c)' /\ ~abandoned'[c] => crew'[c] = want'[c]
    BY <1>1 DEF CellOK, Careful
  <1> QED
    BY <1>2, <1>3, <1>4, <1>5 DEF CellOK

\* What the loop's own moves do to the jobs in hand.
LEMMA LoopHands ==
    ASSUME TypeOK, NEW r \in Drainers
    PROVE  /\ \A j \in Hands(r), place \in {"mirror", "delete", "fail"} :
                 With(r, place, j) =>
                     /\ \A q \in Drainers : Hands(q)' \subseteq Hands(q)
                     /\ \A q \in Drainers \ {r} : drain'[q] = drain[q]
                     /\ drain'[r].at = place
                     /\ drain'[r].cur = {j}
           /\ NextJob(r) \/ drain' = [drain EXCEPT ![r] = Idle] =>
                 /\ \A q \in Drainers : Hands(q)' \subseteq Hands(q)
                 /\ \A q \in Drainers \ {r} : drain'[q] = drain[q]
                 /\ drain'[r].at \notin {"mirror", "delete"}
  <1>1. drain \in [Drainers -> DrainState]
    BY DEF TypeOK
  <1>2. ASSUME NEW j \in Hands(r), NEW place \in {"mirror", "delete", "fail"},
               With(r, place, j)
        PROVE  /\ \A q \in Drainers : Hands(q)' \subseteq Hands(q)
               /\ \A q \in Drainers \ {r} : drain'[q] = drain[q]
               /\ drain'[r].at = place
               /\ drain'[r].cur = {j}
    <2>1. /\ \A q \in Drainers \ {r} : drain'[q] = drain[q]
          /\ drain'[r] = [at |-> place, batch |-> drain[r].batch \ {j}, cur |-> {j}]
      BY <1>1, <1>2 DEF With
    <2> QED
      BY <2>1 DEF Hands
  <1>3. ASSUME NextJob(r) \/ drain' = [drain EXCEPT ![r] = Idle]
        PROVE  /\ \A q \in Drainers : Hands(q)' \subseteq Hands(q)
               /\ \A q \in Drainers \ {r} : drain'[q] = drain[q]
               /\ drain'[r].at \notin {"mirror", "delete"}
    <2>1. /\ \A q \in Drainers \ {r} : drain'[q] = drain[q]
          /\ \/ drain'[r] = Idle
             \/ drain'[r] = [at |-> "next", batch |-> drain[r].batch, cur |-> {}]
      BY <1>1, <1>3 DEF NextJob
    <2> QED
      BY <2>1 DEF Hands, Idle
  <1> QED
    BY <1>2, <1>3

\* What the statements by job id do to the queue.
LEMMA RowSteps ==
    ASSUME TypeOK, NEW j \in Taken
    PROVE  /\ job' = Dropped(j) =>
                 /\ \A t \in Targets : Pending(t)' =>
                        Pending(t) /\ job'[t].value = job[t].value
                 /\ \A t \in Targets : Pending(t) /\ ~Pending(t)' =>
                        t = j.target /\ job[t].id = j.id
           /\ job' = BackedOff(j) \/ job' = job =>
                 \A t \in Targets : /\ Pending(t)' = Pending(t)
                                    /\ job'[t].value = job[t].value
  <1>1. job \in [Targets -> Job] /\ j.target \in Targets
    BY DEF TypeOK, Taken
  <1>2. ASSUME job' = Dropped(j)
        PROVE  /\ \A t \in Targets : Pending(t)' =>
                      Pending(t) /\ job'[t].value = job[t].value
               /\ \A t \in Targets : Pending(t) /\ ~Pending(t)' =>
                      t = j.target /\ job[t].id = j.id
    <2>1. \A t \in Targets :
             job'[t] = IF t = j.target /\ job[t].id = j.id THEN NoJob ELSE job[t]
      BY <1>1, <1>2 DEF Dropped
    <2>2. NoJob.id = 0
      BY DEF NoJob
    <2> QED
      BY <2>1, <2>2 DEF Pending
  <1>3. ASSUME job' = BackedOff(j) \/ job' = job, NEW t \in Targets
        PROVE  Pending(t)' = Pending(t) /\ job'[t].value = job[t].value
    <2>1. CASE job' = BackedOff(j)
      <3>1. job'[t] = IF t = j.target /\ job[t].id = j.id
                      THEN Later(job[t]) ELSE job[t]
        BY <1>1, <2>1 DEF BackedOff
      <3>2. Later(job[t]).id = job[t].id /\ Later(job[t]).value = job[t].value
        BY <1>1 DEF Job, Later
      <3> QED
        BY <3>1, <3>2 DEF Pending
    <2>2. CASE job' = job
      BY <2>2 DEF Pending
    <2> QED
      BY <1>3, <2>1, <2>2
  <1> QED
    BY <1>2, <1>3

\* Requests, edits in Crew and backoffs keep every cell in order.
LEMMA RequestInv ==
    ASSUME TypeOK, QueueInv,
           \/ \E t \in Targets : BackoffEnds(t) \/ \E v \in Values : Enqueue(t, v)
           \/ \E d \in Cells, v \in Values : EditInCrew(d, v)
    PROVE  QueueInv'
  <1> SUFFICES ASSUME NEW c \in Cells, CellOK(c) PROVE CellOK(c)'
    BY CellByCell DEF QueueInv, OneValueOnTheWay, DeletesWhatCrewHas,
                      UnracedRequestWins, CellOK
  <1>1. ASSUME NEW t \in Targets, BackoffEnds(t) PROVE CellOK(c)'
    <2>1. \A u \in Targets : /\ Pending(u)' = Pending(u)
                             /\ job'[u].value = job[u].value
      BY <1>1 DEF BackoffEnds, Pending, TypeOK, Job
    <2>2. \A r \in Drainers : Hands(r)' = Hands(r)
      BY <1>1 DEF BackoffEnds, Hands
    <2> QED
      BY <1>1, <2>1, <2>2, CarefulSteps DEF BackoffEnds, Careful, Queued
  <1>2. ASSUME NEW t \in Targets, NEW v \in Values, Enqueue(t, v) PROVE CellOK(c)'
    <2>1. \A r \in Drainers : Hands(r)' = Hands(r)
      BY <1>2 DEF Enqueue, Hands
    <2>2. /\ crew' = crew /\ drain' = drain
          /\ \A u \in Targets \ {t} : job'[u] = job[u]
          /\ job'[t].value = v
      BY <1>2 DEF Enqueue, TypeOK
    <2>3. job'[t].id # 0
      BY <1>2, NewIdType DEF Enqueue, TypeOK, Pending
    <2>4. CASE Cell(t) = c
      <3>1. want'[c] = v /\ Queued(c)'
        BY <1>2, <2>3, <2>4 DEF Enqueue, TypeOK, Queued, Pending
      <3>2. ~raced'[c] => ~(InHand(c) \/ \E u \in Targets \ {t} :
                                            Pending(u) /\ Cell(u) = c)
        BY <1>2, <2>4 DEF Enqueue, TypeOK
      <3>3. ~raced'[c] => \A u \in Targets : Pending(u)' /\ Cell(u) = c => u = t
        BY <2>2, <3>2 DEF Pending
      <3>4. ~raced'[c] => \A r \in Drainers : \A j \in Hands(r)' : Cell(j.target) # c
        BY <2>1, <3>2 DEF InHand
      <3>5. \A r \in Drainers : drain'[r].cur \subseteq Hands(r)'
        BY DEF Hands
      <3> QED
        BY <2>2, <3>1, <3>3, <3>4, <3>5 DEF CellOK
    <2>5. CASE Cell(t) # c
      <3>1. want'[c] = want[c] /\ raced'[c] = raced[c] /\ abandoned'[c] = abandoned[c]
        BY <1>2, <2>5 DEF Enqueue, TypeOK
      <3>2. \A u \in Targets : Cell(u) = c => /\ Pending(u)' = Pending(u)
                                              /\ job'[u].value = job[u].value
        BY <2>2, <2>5 DEF Pending
      <3> QED
        BY <2>1, <2>2, <3>1, <3>2, CarefulSteps DEF Careful, Queued
    <2> QED
      BY <2>4, <2>5
  <1>3. ASSUME NEW d \in Cells, NEW v \in Values, EditInCrew(d, v) PROVE CellOK(c)'
    <2>1. UNCHANGED <<job, drain>> /\ crew' = [crew EXCEPT ![d] = v]
      BY <1>3 DEF EditInCrew
    <2>2. /\ \A r \in Drainers : Hands(r)' = Hands(r)
          /\ \A u \in Targets : Pending(u)' = Pending(u)
          /\ Queued(c)' = Queued(c)
      BY <2>1 DEF Hands, Pending, Queued
    <2>3. CASE d # c
      <3>1. /\ crew'[c] = crew[c] /\ want'[c] = want[c] /\ raced'[c] = raced[c]
            /\ abandoned'[c] = abandoned[c]
        <4>1. CASE InHand(d) \/ Queued(d)
          BY <1>3, <2>1, <2>3, <4>1 DEF EditInCrew, TypeOK
        <4>2. CASE ~(InHand(d) \/ Queued(d))
          BY <1>3, <2>1, <2>3, <4>2 DEF EditInCrew, TypeOK
        <4> QED
          BY <4>1, <4>2
      <3> QED
        BY <2>1, <2>2, <3>1, CarefulSteps DEF Careful
    <2>4. CASE d = c /\ (InHand(c) \/ Queued(c))
      <3>1. raced'[c]
        BY <1>3, <2>4 DEF EditInCrew, TypeOK
      <3> QED
        BY <3>1 DEF CellOK
    <2>5. CASE d = c /\ ~(InHand(c) \/ Queued(c))
      <3>1. crew'[c] = v /\ want'[c] = v
        BY <1>3, <2>1, <2>5 DEF EditInCrew, TypeOK
      <3>2. \A u \in Targets : ~(Pending(u)' /\ Cell(u) = c)
        BY <2>2, <2>5 DEF Queued
      <3>3. \A r \in Drainers : \A j \in Hands(r)' : Cell(j.target) # c
        BY <2>2, <2>5 DEF InHand
      <3> QED
        BY <3>1, <3>2, <3>3 DEF CellOK
    <2> QED
      BY <2>3, <2>4, <2>5
  <1> QED
    BY <1>1, <1>2, <1>3

\* The drain keeps every cell in order.
LEMMA DrainInv ==
    ASSUME TypeOK, QueueInv, NEW r \in Drainers, Drain(r)
    PROVE  QueueInv'
  <1> SUFFICES ASSUME NEW c \in Cells, CellOK(c) PROVE CellOK(c)'
    BY CellByCell DEF QueueInv, OneValueOnTheWay, DeletesWhatCrewHas,
                      UnracedRequestWins, CellOK
  <1>a. UNCHANGED <<want, raced>>
    BY DEF Drain, Take, CallSucceeds, CallFails, ReplyLost, Unauthorized, Mirror,
           Delete, Fail, FailError, Cancelled, Crash
  <1>b. \A q \in Drainers : drain[q].cur \subseteq Hands(q) /\ drain[q].batch \subseteq Hands(q)
    BY DEF Hands
  <1>c. job' = job => /\ \A t \in Targets : Pending(t)' = Pending(t)
                      /\ Queued(c)' = Queued(c)
    BY DEF Pending, Queued
  <1>1. CASE Take(r)
    <2>1. PICK S \in SUBSET Due :
             drain' = [drain EXCEPT ![r] =
                         [at |-> "next", batch |-> {Take1(t) : t \in S}, cur |-> {}]]
      BY <1>1 DEF Take
    <2>2. /\ drain'[r] = [at |-> "next", batch |-> {Take1(t) : t \in S}, cur |-> {}]
          /\ \A q \in Drainers \ {r} : drain'[q] = drain[q]
      BY <2>1 DEF TypeOK
    <2>3. UNCHANGED <<job, crew, abandoned>>
      BY <1>1 DEF Take
    <2>4. \A q \in Drainers \ {r} : Hands(q)' = Hands(q)
      BY <2>2 DEF Hands
    <2>5. Hands(r)' = {Take1(t) : t \in S}
      BY <2>2 DEF Hands
    <2>6. ASSUME ~raced[c], NEW j \in Hands(r)', Cell(j.target) = c
          PROVE  j.value = want[c]
      <3>1. PICK t \in S : j = Take1(t)
        BY <2>5, <2>6
      <3>2. Cell(t) = c /\ j.value = job[t].value
        BY <2>6, <3>1 DEF Take1
      <3> QED
        BY <2>6, <3>2 DEF CellOK, Due
    <2> QED
      BY <1>a, <1>c, <2>2, <2>3, <2>4, <2>6, CarefulSteps DEF Careful
  <1>2. CASE CallSucceeds(r) \/ CallFails(r) \/ ReplyLost(r)
    <2>1. PICK j \in drain[r].batch, place \in {"mirror", "fail"} :
             /\ With(r, place, j)
             /\ (crew' = crew /\ place = "fail") \/ InCrew(j)
      BY <1>2 DEF CallSucceeds, CallFails, ReplyLost
    <2>2. j \in Hands(r) /\ j \in Taken
      BY <1>b, HandsType
    <2>3. UNCHANGED <<job, abandoned>>
      BY <1>2 DEF CallSucceeds, CallFails, ReplyLost
    <2>4. /\ \A q \in Drainers : Hands(q)' \subseteq Hands(q)
          /\ \A q \in Drainers \ {r} : drain'[q] = drain[q]
          /\ drain'[r].at = place
          /\ drain'[r].cur = {j}
      BY <2>1, <2>2, LoopHands
    <2>5. ~raced[c] => /\ crew'[c] \in {crew[c], want[c]}
                       /\ Cell(j.target) = c /\ place = "mirror" => crew'[c] = want[c]
      BY <2>1, <2>2, CellType DEF CellOK, InCrew, TypeOK, Taken
    <2>6. ASSUME ~raced[c] PROVE ~Queued(c)' /\ ~abandoned'[c] =>
                                     crew'[c] = want[c] \/ (~Queued(c) /\ ~abandoned[c])
      BY <1>c, <2>3
    <2> QED
      BY <1>a, <1>c, <2>3, <2>4, <2>5, <2>6, CarefulSteps DEF Careful
  <1>3. CASE Unauthorized(r) \/ Cancelled(r) \/ Crash(r) \/ FailError(r)
    <2>1. /\ UNCHANGED <<job, crew, abandoned>>
          /\ NextJob(r) \/ drain' = [drain EXCEPT ![r] = Idle]
      BY <1>3 DEF Unauthorized, Cancelled, Crash, FailError
    <2>2. /\ \A q \in Drainers : Hands(q)' \subseteq Hands(q)
          /\ \A q \in Drainers \ {r} : drain'[q] = drain[q]
          /\ drain'[r].at \notin {"mirror", "delete"}
      BY <2>1, LoopHands
    <2> QED
      BY <1>a, <1>c, <2>1, <2>2, CarefulSteps DEF Careful
  <1>4. CASE Mirror(r)
    <2>1. PICK j \in drain[r].cur : With(r, "delete", j)
      BY <1>4 DEF Mirror
    <2>2. UNCHANGED <<job, crew, abandoned>> /\ drain[r].at = "mirror"
      BY <1>4 DEF Mirror
    <2>3. /\ \A q \in Drainers : Hands(q)' \subseteq Hands(q)
          /\ \A q \in Drainers \ {r} : drain'[q] = drain[q]
          /\ drain'[r].cur = {j}
      BY <1>b, <2>1, LoopHands
    <2> QED
      BY <1>a, <1>c, <2>2, <2>3, CarefulSteps DEF Careful
  <1>5. CASE Delete(r)
    <2>1. PICK j \in drain[r].cur : job' \in {job, Dropped(j)}
      BY <1>5 DEF Delete
    <2>2. j \in Taken
      BY HandsType
    <2>3. UNCHANGED <<crew, abandoned>> /\ drain[r].at = "delete" /\ NextJob(r)
      BY <1>5 DEF Delete
    <2>4. /\ \A q \in Drainers : Hands(q)' \subseteq Hands(q)
          /\ \A q \in Drainers \ {r} : drain'[q] = drain[q]
          /\ drain'[r].at \notin {"mirror", "delete"}
      BY <2>3, LoopHands
    <2>5. /\ \A t \in Targets : Pending(t)' => Pending(t) /\ job'[t].value = job[t].value
          /\ \A t \in Targets : Pending(t) /\ ~Pending(t)' => t = j.target
      BY <1>c, <2>1, <2>2, RowSteps
    <2>6. ~raced[c] /\ Cell(j.target) = c => crew[c] = want[c]
      BY <2>3 DEF CellOK
    <2>7. ~raced[c] /\ ~Queued(c)' => crew[c] = want[c] \/ ~Queued(c)
      BY <2>5, <2>6 DEF Queued
    <2> QED
      BY <1>a, <2>3, <2>4, <2>5, <2>7, CarefulSteps DEF Careful
  <1>6. CASE Fail(r)
    <2>1. PICK j \in drain[r].cur :
             IF GivesUp(j)
             THEN /\ job' = Dropped(j)
                  /\ abandoned' = [abandoned EXCEPT ![Cell(j.target)] =
                                     @ \/ job[j.target].id = j.id]
             ELSE job' = BackedOff(j) /\ UNCHANGED abandoned
      BY <1>6 DEF Fail
    <2>2. j \in Taken
      BY HandsType
    <2>3. UNCHANGED crew /\ NextJob(r)
      BY <1>6 DEF Fail
    <2>4. /\ \A q \in Drainers : Hands(q)' \subseteq Hands(q)
          /\ \A q \in Drainers \ {r} : drain'[q] = drain[q]
          /\ drain'[r].at \notin {"mirror", "delete"}
      BY <2>3, LoopHands
    <2>5. \A t \in Targets : Pending(t)' => Pending(t) /\ job'[t].value = job[t].value
      BY <2>1, <2>2, RowSteps
    <2>6. ~Queued(c)' /\ ~abandoned'[c] => ~Queued(c) /\ ~abandoned[c]
      <3>1. CASE ~GivesUp(j)
        BY <2>1, <2>2, <3>1, RowSteps DEF Queued
      <3>2. CASE GivesUp(j)
        <4>1. /\ job' = Dropped(j)
              /\ abandoned' = [abandoned EXCEPT ![Cell(j.target)] =
                                 @ \/ job[j.target].id = j.id]
          BY <2>1, <3>2
        <4>2. \A t \in Targets : Pending(t) /\ ~Pending(t)' =>
                  t = j.target /\ job[t].id = j.id
          BY <2>2, <4>1, RowSteps
        <4>3. abandoned[c] => abandoned'[c]
          BY <4>1 DEF TypeOK
        <4>4. Cell(j.target) = c /\ job[j.target].id = j.id => abandoned'[c]
          BY <4>1 DEF TypeOK
        <4> QED
          BY <4>2, <4>3, <4>4 DEF Queued
      <3> QED
        BY <3>1, <3>2
    <2> QED
      BY <1>a, <2>3, <2>4, <2>5, <2>6, CarefulSteps DEF Careful
  <1> QED
    BY <1>1, <1>2, <1>3, <1>4, <1>5, <1>6 DEF Drain

\* Reading and copying notes does not touch the queue.
LEMMA CopyInv ==
    ASSUME QueueInv, UNCHANGED <<job, crew, drain, want, raced, abandoned>>
    PROVE  QueueInv'
  BY DEF QueueInv, OneValueOnTheWay, DeletesWhatCrewHas, UnracedRequestWins,
         Pending, Hands, Queued

\* QueueInv is inductive, given the types.
LEMMA InvStep == TypeOK /\ QueueInv /\ [Next]_vars => QueueInv'
  <1> SUFFICES ASSUME TypeOK, QueueInv, [Next]_vars PROVE QueueInv'
    OBVIOUS
  <1>1. CASE UNCHANGED vars
    BY <1>1, CopyInv DEF vars
  <1>2. ASSUME NEW r \in Drainers, NEW k \in Readers, Copy(r, k) PROVE QueueInv'
    BY <1>2, CopyInv DEF Copy, FetchPage, CopyNote, CopyError
  <1>3. CASE Next
    BY <1>2, <1>3, RequestInv, DrainInv DEF Next, App
  <1> QED
    BY <1>1, <1>3

LEMMA InitInv == Init => QueueInv
  <1> SUFFICES ASSUME Init PROVE QueueInv
    OBVIOUS
  <1>1. \A t \in Targets : ~Pending(t)
    BY DEF Init, Pending, NoJob
  <1>2. \A r \in Drainers : Hands(r) = {} /\ drain[r].cur = {}
    BY DEF Init, Hands, Idle
  <1>3. \A c \in Cells : crew[c] = want[c]
    BY DEF Init
  <1> QED
    BY <1>1, <1>2, <1>3 DEF QueueInv, OneValueOnTheWay, DeletesWhatCrewHas,
                            UnracedRequestWins

\* As long as a request meets no drain under way, its value is the only one any
\* runner can still send, and its row goes only once Crew has it.
THEOREM QueueInvariant == Spec => []QueueInv
  BY InitInv, InvStep, TypeCorrect, PTL DEF Spec

\* Such a request is not lost: not by any number of stale runners draining it at
\* once, not by answers lost, not by crashes between the call and the delete.
THEOREM RequestNotLost == Spec => []UnracedRequestWins
  <1>1. QueueInv => UnracedRequestWins
    BY DEF QueueInv
  <1> QED
    BY <1>1, QueueInvariant, PTL

-----------------------------------------------------------------------------
(* Attempts.                                                               *)

\* AttemptsAreCalls, of one target.
TargetOK(t) ==
    ~raced[Cell(t)] /\ failures[t] < MaxAttempts =>
        /\ Pending(t) => job[t].attempts + Cardinality(Failing(t)) <= failures[t]
        /\ \A r \in Drainers : \A j \in drain[r].batch :
               j.target = t => j.attempts <= failures[t]
        /\ \A r \in Failing(t) : \A j \in drain[r].cur :
               j.target = t => j.attempts < failures[t]

\* Counts are numbers.
LEMMA Counts ==
    ASSUME TypeOK, NEW t \in Targets
    PROVE  /\ job[t].attempts \in Nat
           /\ failures[t] \in 0..MaxAttempts /\ failures[t] \in Nat /\ MaxAttempts \in Nat
           /\ \A r \in Drainers : \A j \in Hands(r) : j.attempts \in Nat /\ j.target \in Targets
           /\ IsFiniteSet(Failing(t)) => Cardinality(Failing(t)) \in Nat
  <1>1. job[t] \in Job /\ failures[t] \in 0..MaxAttempts
    BY DEF TypeOK
  <1>2. \A r \in Drainers : \A j \in Hands(r) : j \in Taken
    BY HandsType
  <1> QED
    BY <1>1, <1>2, WriteQueueAssumption, FS_CardinalityType DEF Job, Taken

\* A runner that leaves the place "fail", or was not there.
LEMMA LeavesFailing ==
    ASSUME NEW t, IsFiniteSet(Failing(t)), NEW r \in Drainers, drain'[r].at # "fail",
           \A q \in Drainers \ {r} : drain'[q] = drain[q]
    PROVE  /\ Failing(t)' = Failing(t) \ {r}
           /\ IsFiniteSet(Failing(t)')
           /\ Cardinality(Failing(t)') = IF r \in Failing(t) THEN Cardinality(Failing(t)) - 1
                                         ELSE Cardinality(Failing(t))
           /\ Cardinality(Failing(t)') \in Nat /\ Cardinality(Failing(t)) \in Nat
           /\ Cardinality(Failing(t)') <= Cardinality(Failing(t))
  <1>1. Failing(t)' = Failing(t) \ {r}
    BY DEF Failing
  <1>2. IsFiniteSet(Failing(t) \ {r}) /\ Cardinality(Failing(t)) \in Nat
    BY FS_RemoveElement, FS_CardinalityType
  <1>3. Cardinality(Failing(t) \ {r}) = IF r \in Failing(t) THEN Cardinality(Failing(t)) - 1
                                        ELSE Cardinality(Failing(t))
    BY FS_RemoveElement
  <1>4. Cardinality(Failing(t) \ {r}) \in Nat
    BY <1>2, FS_CardinalityType
  <1> QED
    BY <1>1, <1>2, <1>3, <1>4

\* A step that counts no attempt that was not a call of its own.
LEMMA TargetKept ==
    ASSUME TypeOK, TypeOK', NEW t \in Targets, TargetOK(t),
           raced'[Cell(t)] = raced[Cell(t)], failures'[t] = failures[t],
           IsFiniteSet(Failing(t)), IsFiniteSet(Failing(t)'),
           Pending(t)' => /\ Pending(t)
                          /\ job'[t].attempts + Cardinality(Failing(t)')
                               <= job[t].attempts + Cardinality(Failing(t)),
           \A r \in Drainers : \A j \in drain'[r].batch : j.target = t =>
             \/ j \in drain[r].batch
             \/ Pending(t) /\ j.attempts = job[t].attempts,
           \A r \in Failing(t)' : r \in Failing(t) /\ drain'[r].cur = drain[r].cur
    PROVE  TargetOK(t)'
  <1> SUFFICES ASSUME ~raced[Cell(t)], failures[t] < MaxAttempts
               PROVE  /\ Pending(t)' => job'[t].attempts + Cardinality(Failing(t)') <= failures[t]
                      /\ \A r \in Drainers : \A j \in drain'[r].batch :
                             j.target = t => j.attempts <= failures[t]
                      /\ \A r \in Failing(t)' : \A j \in drain'[r].cur :
                             j.target = t => j.attempts < failures[t]
    BY DEF TargetOK
  <1>1. /\ Pending(t) => job[t].attempts + Cardinality(Failing(t)) <= failures[t]
        /\ \A r \in Drainers : \A j \in drain[r].batch : j.target = t => j.attempts <= failures[t]
        /\ \A r \in Failing(t) : \A j \in drain[r].cur : j.target = t => j.attempts < failures[t]
    BY DEF TargetOK
  <1>2. /\ job[t].attempts \in Nat /\ failures[t] \in Nat
        /\ Cardinality(Failing(t)) \in Nat /\ Cardinality(Failing(t)') \in Nat
    BY Counts, FS_CardinalityType
  <1>3. job'[t].attempts \in Nat
    BY DEF TypeOK, Job
  <1>4. Pending(t)' => job'[t].attempts + Cardinality(Failing(t)') <= failures[t]
    <2> SUFFICES ASSUME Pending(t)'
                 PROVE  job'[t].attempts + Cardinality(Failing(t)') <= failures[t]
      OBVIOUS
    <2> DEFINE k == Cardinality(Failing(t))
               n == Cardinality(Failing(t)')
    <2>1. k \in Nat /\ n \in Nat /\ job[t].attempts + k <= failures[t]
          /\ job'[t].attempts + n <= job[t].attempts + k
      BY <1>1, <1>2
    <2> HIDE DEF k, n
    <2>2. job'[t].attempts + n <= failures[t]
      BY <1>2, <1>3, <2>1
    <2> QED
      BY <2>2 DEF n
  <1>5. Pending(t) => job[t].attempts <= failures[t]
    <2> DEFINE k == Cardinality(Failing(t))
    <2>1. k \in Nat /\ (Pending(t) => job[t].attempts + k <= failures[t])
      BY <1>1, <1>2
    <2> HIDE DEF k
    <2> QED
      BY <1>2, <2>1
  <1>6. \A r \in Drainers : \A j \in drain'[r].batch : j.target = t => j.attempts <= failures[t]
    BY <1>1, <1>5
  <1>7. \A r \in Failing(t)' : \A j \in drain'[r].cur : j.target = t => j.attempts < failures[t]
    BY <1>1
  <1> QED
    BY <1>4, <1>6, <1>7

\* A step that leaves the drains alone.
LEMMA DrainsKept ==
    ASSUME UNCHANGED drain, NEW t
    PROVE  Failing(t)' = Failing(t) /\ \A r \in Drainers : Hands(r)' = Hands(r)
  BY DEF Failing, Hands

\* Nothing is in hand for a cell: nobody fails.
LEMMA NothingInHand ==
    ASSUME NEW t, ~InHand(Cell(t))
    PROVE  /\ Failing(t) = {}
           /\ \A r \in Drainers : \A j \in drain[r].batch : j.target # t
  BY DEF InHand, Hands, Failing

LEMMA RequestAttempts ==
    ASSUME TypeOK, TypeOK', AttemptsInv,
           \/ \E t \in Targets : BackoffEnds(t) \/ \E v \in Values : Enqueue(t, v)
           \/ \E c \in Cells, v \in Values : EditInCrew(c, v)
    PROVE  AttemptsInv'
  <1>1. UNCHANGED drain
    BY DEF BackoffEnds, Enqueue, EditInCrew
  <1>2. \A t \in Targets : IsFiniteSet(Failing(t)) /\ Failing(t)' = Failing(t)
    BY <1>1, DrainsKept DEF AttemptsInv
  <1>3. ASSUME NEW t \in Targets PROVE TargetOK(t)'
    <2>1. TargetOK(t)
      BY DEF AttemptsInv, AttemptsAreCalls, TargetOK
    <2>2. Cell(t) \in Cells
      BY CellType
    <2>3. ASSUME NEW u \in Targets, BackoffEnds(u) PROVE TargetOK(t)'
      <3>1. job'[t].attempts = job[t].attempts /\ job'[t].id = job[t].id
            /\ UNCHANGED <<raced, failures>>
        BY <2>3 DEF BackoffEnds, TypeOK, Job
      <3> QED
        BY <1>1, <1>2, <2>1, <3>1 DEF TargetOK, Pending
    <2>4. ASSUME NEW u \in Targets, NEW v \in Values, Enqueue(u, v) PROVE TargetOK(t)'
      <3>1. /\ job'[t] = IF t = u THEN [id |-> IF Pending(u) THEN job[u].id ELSE NewId,
                                        value |-> v, attempts |-> 0, due |-> TRUE]
                         ELSE job[t]
            /\ failures'[t] = IF t = u THEN 0 ELSE failures[t]
            /\ Cell(t) # Cell(u) => raced'[Cell(t)] = raced[Cell(t)]
            /\ Cell(t) = Cell(u) => raced'[Cell(t)] =
                 (InHand(Cell(u)) \/ \E w \in Targets \ {u} : Pending(w) /\ Cell(w) = Cell(u))
        BY <2>2, <2>4 DEF Enqueue, TypeOK
      <3>2. CASE Cell(t) # Cell(u)
        <4>1. t # u /\ job'[t] = job[t]
          BY <3>1, <3>2
        <4> QED
          BY <1>1, <1>2, <2>1, <3>1, <3>2, <4>1 DEF TargetOK, Pending
      <3>3. CASE Cell(t) = Cell(u) /\ ~raced'[Cell(t)]
        <4>1. ~InHand(Cell(t)) /\ (t # u => ~Pending(t))
          BY <3>1, <3>3
        <4>2. Failing(t)' = {} /\ \A r \in Drainers : \A j \in drain'[r].batch : j.target # t
          BY <1>1, <1>2, <4>1, NothingInHand
        <4>3. Cardinality(Failing(t)') = 0
          BY <4>2, FS_EmptySet
        <4>4. t = u => job'[t].attempts = 0 /\ failures'[t] = 0
          BY <3>1
        <4>5. t # u => ~Pending(t)'
          BY <3>1, <4>1 DEF Pending
        <4> HIDE DEF Failing
        <4> QED
          BY <4>2, <4>3, <4>4, <4>5 DEF TargetOK
      <3>4. CASE raced'[Cell(t)]
        BY <3>4 DEF TargetOK
      <3> QED
        BY <3>2, <3>3, <3>4
    <2>5. ASSUME NEW c \in Cells, NEW v \in Values, EditInCrew(c, v) PROVE TargetOK(t)'
      <3>1. UNCHANGED <<job, failures>>
        BY <2>5 DEF EditInCrew
      <3>2. CASE Cell(t) # c
        <4>1. raced'[Cell(t)] = raced[Cell(t)]
          BY <2>2, <2>5, <3>2 DEF EditInCrew, TypeOK
        <4> QED
          BY <1>1, <1>2, <2>1, <3>1, <4>1 DEF TargetOK, Pending
      <3>3. CASE Cell(t) = c /\ (InHand(c) \/ Queued(c))
        <4>1. raced'[Cell(t)]
          BY <2>2, <2>5, <3>3 DEF EditInCrew, TypeOK
        <4> QED
          BY <4>1 DEF TargetOK
      <3>4. CASE Cell(t) = c /\ ~InHand(c) /\ ~Queued(c)
        <4>1. /\ ~Pending(t)' /\ Failing(t)' = {}
              /\ \A r \in Drainers : \A j \in drain'[r].batch : j.target # t
          BY <1>1, <1>2, <3>1, <3>4, NothingInHand DEF Queued, Pending
        <4> QED
          BY <4>1 DEF TargetOK
      <3> QED
        BY <3>2, <3>3, <3>4
    <2> QED
      BY <2>3, <2>4, <2>5
  <1>4. AbandonedOnlyAfterMaxFailures'
    <2> SUFFICES ASSUME NEW c \in Cells, abandoned'[c], ~raced'[c]
                 PROVE  \E t \in Targets : Cell(t) = c /\ failures'[t] = MaxAttempts
      BY DEF AbandonedOnlyAfterMaxFailures
    <2>1. /\ abandoned[c] /\ ~raced[c]
          /\ \A t \in Targets : Cell(t) = c => failures'[t] = failures[t]
      <3>1. ASSUME NEW u \in Targets, BackoffEnds(u)
            PROVE  UNCHANGED <<abandoned, raced, failures>>
        BY <3>1 DEF BackoffEnds
      <3>2. ASSUME NEW u \in Targets, NEW v \in Values, Enqueue(u, v)
            PROVE  /\ c # Cell(u) /\ abandoned'[c] = abandoned[c] /\ raced'[c] = raced[c]
                   /\ \A t \in Targets : Cell(t) = c => failures'[t] = failures[t]
        BY <3>2, CellType DEF Enqueue, TypeOK
      <3>3. ASSUME NEW d \in Cells, NEW v \in Values, EditInCrew(d, v)
            PROVE  /\ c # d /\ abandoned'[c] = abandoned[c] /\ raced'[c] = raced[c]
                   /\ failures' = failures
        <4>1. CASE InHand(d) \/ Queued(d)
          <5>1. raced' = [raced EXCEPT ![d] = TRUE] /\ UNCHANGED <<abandoned, failures>>
            BY <3>3, <4>1 DEF EditInCrew
          <5> QED
            BY <5>1 DEF TypeOK
        <4>2. CASE ~(InHand(d) \/ Queued(d))
          <5>1. /\ raced' = [raced EXCEPT ![d] = FALSE]
                /\ abandoned' = [abandoned EXCEPT ![d] = FALSE] /\ UNCHANGED failures
            BY <3>3, <4>2 DEF EditInCrew
          <5> QED
            BY <5>1 DEF TypeOK
        <4> QED
          BY <4>1, <4>2
      <3> QED
        BY <3>1, <3>2, <3>3
    <2> QED
      BY <2>1 DEF AttemptsInv, AbandonedOnlyAfterMaxFailures
  <1>5. \A t \in Targets : IsFiniteSet(Failing(t)')
    BY <1>2
  <1> QED
    BY <1>3, <1>4, <1>5 DEF AttemptsInv, AttemptsAreCalls, TargetOK


\* What the moves of a drain do to its batch.
LEMMA LoopWith ==
    ASSUME TypeOK, NEW r \in Drainers, NEW j, NEW place, With(r, place, j)
    PROVE  /\ drain'[r].at = place /\ drain'[r].cur = {j}
           /\ drain'[r].batch \subseteq drain[r].batch
           /\ \A q \in Drainers \ {r} : drain'[q] = drain[q]
  <1>1. drain \in [Drainers -> DrainState]
    BY DEF TypeOK
  <1>2. /\ \A q \in Drainers \ {r} : drain'[q] = drain[q]
        /\ drain'[r] = [at |-> place, batch |-> drain[r].batch \ {j}, cur |-> {j}]
    BY <1>1 DEF With
  <1> QED
    BY <1>2

LEMMA LoopBatch ==
    ASSUME TypeOK, NEW r \in Drainers, NextJob(r) \/ drain' = [drain EXCEPT ![r] = Idle]
    PROVE  /\ drain'[r].at # "fail" /\ drain'[r].batch \subseteq drain[r].batch
           /\ \A q \in Drainers \ {r} : drain'[q] = drain[q]
  <1>1. drain \in [Drainers -> DrainState]
    BY DEF TypeOK
  <1>2. /\ \A q \in Drainers \ {r} : drain'[q] = drain[q]
        /\ \/ drain'[r] = Idle
           \/ drain'[r] = [at |-> "next", batch |-> drain[r].batch, cur |-> {}]
    BY <1>1 DEF NextJob
  <1> QED
    BY <1>2 DEF Idle

\* The statements by job id count at most one attempt, of their own job.
LEMMA RowAttempts ==
    ASSUME TypeOK, NEW j \in Taken, job' = job \/ job' = Dropped(j) \/ job' = BackedOff(j),
           NEW t \in Targets, Pending(t)'
    PROVE  /\ Pending(t)
           /\ \/ job'[t].attempts = job[t].attempts
              \/ /\ t = j.target /\ job' = BackedOff(j)
                 /\ job'[t].attempts = job[t].attempts + 1
  <1>1. job \in [Targets -> Job] /\ j.target \in Targets
    BY DEF TypeOK, Taken
  <1>2. CASE job' = job
    BY <1>2 DEF Pending
  <1>3. CASE job' = Dropped(j)
    <2>1. job'[t] = IF t = j.target /\ job[t].id = j.id THEN NoJob ELSE job[t]
      BY <1>1, <1>3 DEF Dropped
    <2> QED
      BY <2>1 DEF Pending, NoJob
  <1>4. CASE job' = BackedOff(j)
    <2>1. job'[t] = IF t = j.target /\ job[t].id = j.id THEN Later(job[t]) ELSE job[t]
      BY <1>1, <1>4 DEF BackedOff
    <2>2. Later(job[t]).id = job[t].id /\ Later(job[t]).attempts = job[t].attempts + 1
      BY <1>1 DEF Job, Later
    <2> QED
      BY <1>4, <2>1, <2>2 DEF Pending
  <1> QED
    BY <1>2, <1>3, <1>4

LEMMA DrainAttempts ==
    ASSUME TypeOK, TypeOK', AttemptsInv, NEW r \in Drainers, Drain(r)
    PROVE  AttemptsInv'
  <1>1. UNCHANGED raced
    BY DEF Drain, Take, CallSucceeds, CallFails, ReplyLost, Unauthorized, Mirror,
           Delete, Fail, FailError, Cancelled, Crash
  <1>2. \A t \in Targets : IsFiniteSet(Failing(t)) /\ TargetOK(t)
    BY DEF AttemptsInv, AttemptsAreCalls, TargetOK
  <1>3. \A q \in Drainers : drain[q].cur \subseteq Hands(q) /\ drain[q].batch \subseteq Hands(q)
    BY DEF Hands
  <1>4. ASSUME \A c \in Cells : abandoned'[c] /\ ~abandoned[c] /\ ~raced[c] =>
                  \E t \in Targets : Cell(t) = c /\ failures'[t] = MaxAttempts,
               \A t \in Targets : failures[t] = MaxAttempts => failures'[t] = MaxAttempts
        PROVE  AbandonedOnlyAfterMaxFailures'
    BY <1>1, <1>4 DEF AttemptsInv, AbandonedOnlyAfterMaxFailures
  <1>5. ASSUME \A t \in Targets : IsFiniteSet(Failing(t)') /\ TargetOK(t)',
               AbandonedOnlyAfterMaxFailures'
        PROVE  AttemptsInv'
    BY <1>5 DEF AttemptsInv, AttemptsAreCalls, TargetOK
  <1>6. CASE Take(r)
    <2>1. PICK S \in SUBSET Due :
             drain' = [drain EXCEPT ![r] =
                         [at |-> "next", batch |-> {Take1(t) : t \in S}, cur |-> {}]]
      BY <1>6 DEF Take
    <2>2. /\ drain'[r] = [at |-> "next", batch |-> {Take1(t) : t \in S}, cur |-> {}]
          /\ \A q \in Drainers \ {r} : drain'[q] = drain[q]
      BY <2>1 DEF TypeOK
    <2>3. UNCHANGED <<job, abandoned, failures>> /\ drain[r].at = "idle"
      BY <1>6 DEF Take
    <2>4. ASSUME NEW t \in Targets PROVE IsFiniteSet(Failing(t)') /\ TargetOK(t)'
      <3>1. Failing(t)' = Failing(t)
        BY <2>2, <2>3 DEF Failing
      <3>2. \A j \in drain'[r].batch : j.target = t => Pending(t) /\ j.attempts = job[t].attempts
        BY <2>2 DEF Take1, Due
      <3>3. \A q \in Failing(t)' : q \in Failing(t) /\ drain'[q].cur = drain[q].cur
        BY <2>2, <2>3, <3>1 DEF Failing
      <3>4. \A q \in Drainers : \A j \in drain'[q].batch : j.target = t =>
              \/ j \in drain[q].batch
              \/ Pending(t) /\ j.attempts = job[t].attempts
        BY <2>2, <3>2
      <3>5. Pending(t)' = Pending(t) /\ job'[t].attempts \in Int /\ Cardinality(Failing(t)) \in Int
        BY <1>2, <2>3, Counts DEF Pending
      <3>6. /\ raced'[Cell(t)] = raced[Cell(t)] /\ failures'[t] = failures[t]
            /\ IsFiniteSet(Failing(t)) /\ IsFiniteSet(Failing(t)')
        BY <1>1, <1>2, <2>3, <3>1
      <3>7. Pending(t)' => /\ Pending(t)
                           /\ job'[t].attempts + Cardinality(Failing(t)')
                                <= job[t].attempts + Cardinality(Failing(t))
        BY <2>3, <3>1, <3>5
      <3> QED
        BY <1>2, <3>3, <3>4, <3>6, <3>7, TargetKept
    <2>5. AbandonedOnlyAfterMaxFailures'
      BY <1>4, <2>3
    <2> QED
      BY <1>5, <2>4, <2>5
  \* The loop goes on, and no call failed.
  <1>7. ASSUME drain'[r].at # "fail", drain'[r].batch \subseteq drain[r].batch,
               \A q \in Drainers \ {r} : drain'[q] = drain[q], UNCHANGED failures,
               NEW t \in Targets,
               Pending(t)' => /\ Pending(t)
                              /\ \/ job'[t].attempts = job[t].attempts
                                 \/ r \in Failing(t) /\ job'[t].attempts = job[t].attempts + 1
        PROVE  IsFiniteSet(Failing(t)') /\ TargetOK(t)'
    <2> DEFINE k == Cardinality(Failing(t))
               n == Cardinality(Failing(t)')
    <2>1. /\ Failing(t)' = Failing(t) \ {r} /\ IsFiniteSet(Failing(t)')
          /\ n = IF r \in Failing(t) THEN k - 1 ELSE k
          /\ k \in Nat /\ n \in Nat /\ n <= k
      BY <1>2, <1>7, LeavesFailing
    <2>2. job[t].attempts \in Nat
      BY Counts
    <2>3. Pending(t)' => Pending(t) /\ job'[t].attempts + n <= job[t].attempts + k
      <3> HIDE DEF k, n
      <3> QED
        BY <1>7, <2>1, <2>2
    <2>4. \A q \in Failing(t)' : q \in Failing(t) /\ drain'[q].cur = drain[q].cur
      BY <1>7, <2>1 DEF Failing
    <2>5. \A q \in Drainers : \A j \in drain'[q].batch : j.target = t => j \in drain[q].batch
      BY <1>7
    <2>6. /\ raced'[Cell(t)] = raced[Cell(t)] /\ failures'[t] = failures[t]
          /\ IsFiniteSet(Failing(t))
      BY <1>1, <1>2, <1>7
    <2> QED
      BY <1>2, <2>1, <2>3, <2>4, <2>5, <2>6, TargetKept
  <1>8. CASE CallSucceeds(r) \/ Mirror(r)
    <2>1. \E j : With(r, "mirror", j) \/ With(r, "delete", j)
      BY <1>8 DEF CallSucceeds, Mirror
    <2>2. UNCHANGED <<job, abandoned, failures>>
      BY <1>8 DEF CallSucceeds, Mirror
    <2>3. /\ drain'[r].at # "fail" /\ drain'[r].batch \subseteq drain[r].batch
          /\ \A q \in Drainers \ {r} : drain'[q] = drain[q]
      <3>1. PICK j : With(r, "mirror", j) \/ With(r, "delete", j)
        BY <2>1
      <3>2. CASE With(r, "mirror", j)
        BY <3>2, LoopWith
      <3>3. CASE With(r, "delete", j)
        BY <3>3, LoopWith
      <3> QED
        BY <3>1, <3>2, <3>3
    <2>4. \A t \in Targets : Pending(t)' = Pending(t) /\ job'[t].attempts = job[t].attempts
      BY <2>2 DEF Pending
    <2>5. AbandonedOnlyAfterMaxFailures'
      BY <1>4, <2>2
    <2> QED
      BY <1>5, <1>7, <2>2, <2>3, <2>4, <2>5
  <1>9. CASE Unauthorized(r) \/ Cancelled(r) \/ Crash(r) \/ FailError(r)
    <2>1. /\ UNCHANGED <<job, abandoned, failures>>
          /\ NextJob(r) \/ drain' = [drain EXCEPT ![r] = Idle]
      BY <1>9 DEF Unauthorized, Cancelled, Crash, FailError
    <2>2. /\ drain'[r].at # "fail" /\ drain'[r].batch \subseteq drain[r].batch
          /\ \A q \in Drainers \ {r} : drain'[q] = drain[q]
      BY <2>1, LoopBatch
    <2>3. \A t \in Targets : Pending(t)' = Pending(t) /\ job'[t].attempts = job[t].attempts
      BY <2>1 DEF Pending
    <2>4. AbandonedOnlyAfterMaxFailures'
      BY <1>4, <2>1
    <2> QED
      BY <1>5, <1>7, <2>1, <2>2, <2>3, <2>4
  <1>10. CASE Delete(r)
    <2>1. PICK j \in drain[r].cur : job' \in {job, Dropped(j)}
      BY <1>10 DEF Delete
    <2>2. j \in Taken
      BY HandsType
    <2>3. UNCHANGED <<abandoned, failures>> /\ NextJob(r)
      BY <1>10 DEF Delete
    <2>4. /\ drain'[r].at # "fail" /\ drain'[r].batch \subseteq drain[r].batch
          /\ \A q \in Drainers \ {r} : drain'[q] = drain[q]
      BY <2>3, LoopBatch
    <2>5. \A t \in Targets : Pending(t)' => Pending(t) /\ job'[t].attempts = job[t].attempts
      <3> SUFFICES ASSUME NEW t \in Targets, Pending(t)'
                   PROVE  Pending(t) /\ job'[t].attempts = job[t].attempts
        OBVIOUS
      <3>1. CASE job' = job
        BY <3>1 DEF Pending
      <3>2. CASE job' = Dropped(j)
        <4>1. j.target \in Targets /\ job \in [Targets -> Job]
          BY <2>2 DEF Taken, TypeOK
        <4>2. job'[t] = IF t = j.target /\ job[t].id = j.id THEN NoJob ELSE job[t]
          BY <3>2, <4>1 DEF Dropped
        <4> QED
          BY <4>2 DEF Pending, NoJob
      <3> QED
        BY <2>1, <3>1, <3>2
    <2>6. AbandonedOnlyAfterMaxFailures'
      BY <1>4, <2>3
    <2> QED
      BY <1>5, <1>7, <2>3, <2>4, <2>5, <2>6
  <1>11. CASE CallFails(r) \/ ReplyLost(r)
    <2>1. PICK j \in drain[r].batch : With(r, "fail", j) /\ Charge(j)
      BY <1>11 DEF CallFails, ReplyLost
    <2> DEFINE u == j.target
    <2>2. /\ j \in Taken /\ u \in Targets /\ j.attempts \in Nat
          /\ UNCHANGED <<job, abandoned>> /\ drain[r].at = "next"
      <3>1. j \in Taken
        BY HandsType
      <3> QED
        BY <1>11, <3>1 DEF CallFails, ReplyLost, Taken
    <2>3. /\ drain'[r].at = "fail" /\ drain'[r].cur = {j}
          /\ drain'[r].batch \subseteq drain[r].batch
          /\ \A q \in Drainers \ {r} : drain'[q] = drain[q]
      BY <2>1, LoopWith
    <2>4. \A t \in Targets : failures'[t] =
            IF t = u /\ failures[t] < MaxAttempts THEN failures[t] + 1 ELSE failures[t]
      BY <2>1, <2>2 DEF Charge, TypeOK
    <2>5. ASSUME NEW t \in Targets PROVE IsFiniteSet(Failing(t)') /\ TargetOK(t)'
      <3>1. CASE t # u
        <4>1. Failing(t)' = Failing(t)
          BY <2>2, <2>3, <3>1 DEF Failing
        <4>2. \A q \in Failing(t)' : q \in Failing(t) /\ drain'[q].cur = drain[q].cur
          BY <2>2, <2>3, <4>1 DEF Failing
        <4>3. \A q \in Drainers : \A i \in drain'[q].batch : i.target = t => i \in drain[q].batch
          BY <2>3
        <4>4. /\ raced'[Cell(t)] = raced[Cell(t)] /\ failures'[t] = failures[t]
              /\ IsFiniteSet(Failing(t)) /\ IsFiniteSet(Failing(t)')
          BY <1>1, <1>2, <2>4, <3>1, <4>1
        <4>5. Pending(t)' => /\ Pending(t)
                             /\ job'[t].attempts + Cardinality(Failing(t)')
                                  <= job[t].attempts + Cardinality(Failing(t))
          <5>1. job[t].attempts + Cardinality(Failing(t)) \in Nat
            BY <4>4, Counts
          <5> QED
            BY <2>2, <4>1, <5>1 DEF Pending
        <4> QED
          BY <1>2, <4>2, <4>3, <4>4, <4>5, TargetKept
      <3>2. CASE t = u
        <4>1. Failing(t)' = Failing(t) \cup {r} /\ r \notin Failing(t)
          BY <2>2, <2>3, <3>2 DEF Failing
        <4>2. /\ IsFiniteSet(Failing(t)')
              /\ Cardinality(Failing(t)') = Cardinality(Failing(t)) + 1
          BY <1>2, <4>1, FS_AddElement
        <4>3. ASSUME ~raced'[Cell(t)], failures'[t] < MaxAttempts
              PROVE  /\ Pending(t)' =>
                          job'[t].attempts + Cardinality(Failing(t)') <= failures'[t]
                     /\ \A q \in Drainers : \A i \in drain'[q].batch :
                            i.target = t => i.attempts <= failures'[t]
                     /\ \A q \in Failing(t)' : \A i \in drain'[q].cur :
                            i.target = t => i.attempts < failures'[t]
          <5>1. /\ failures[t] \in Nat /\ MaxAttempts \in Nat /\ job[t].attempts \in Nat
                /\ Cardinality(Failing(t)) \in Nat
            BY <1>2, Counts
          <5>2. failures'[t] = failures[t] + 1 /\ failures[t] < MaxAttempts
            BY <2>4, <3>2, <4>3, <5>1
          <5>3. /\ Pending(t) => job[t].attempts + Cardinality(Failing(t)) <= failures[t]
                /\ \A q \in Drainers : \A i \in drain[q].batch :
                       i.target = t => i.attempts <= failures[t]
                /\ \A q \in Failing(t) : \A i \in drain[q].cur :
                       i.target = t => i.attempts < failures[t]
            BY <1>1, <1>2, <4>3, <5>2 DEF TargetOK
          <5>4. \A q \in Drainers : \A i \in Hands(q) : i.attempts \in Nat
            BY Counts
          <5>5. Pending(t)' => job'[t].attempts + Cardinality(Failing(t)') <= failures'[t]
            <6> DEFINE k == Cardinality(Failing(t))
                       n == Cardinality(Failing(t)')
            <6>1. n = k + 1 /\ k \in Nat /\ (Pending(t) => job[t].attempts + k <= failures[t])
              BY <4>2, <5>1, <5>3
            <6>2. job'[t] = job[t] /\ Pending(t)' = Pending(t)
              BY <2>2 DEF Pending
            <6> HIDE DEF k, n
            <6>3. Pending(t)' => job'[t].attempts + n <= failures'[t]
              BY <5>1, <5>2, <6>1, <6>2
            <6> QED
              BY <6>3 DEF n
          <5>6. \A q \in Drainers : \A i \in drain'[q].batch :
                    i.target = t => i.attempts <= failures'[t]
            <6>1. \A q \in Drainers : drain'[q].batch \subseteq drain[q].batch
              BY <2>3
            <6>2. \A q \in Drainers : \A i \in drain[q].batch :
                      i.target = t => i.attempts <= failures[t] /\ i.attempts \in Nat
              BY <1>3, <5>3, <5>4
            <6>3. ASSUME NEW n \in Nat, n <= failures[t] PROVE n <= failures'[t]
              BY <5>1, <5>2, <6>3
            <6> QED
              BY <6>1, <6>2, <6>3
          <5>7. \A q \in Failing(t)' : \A i \in drain'[q].cur :
                    i.target = t => i.attempts < failures'[t]
            <6> SUFFICES ASSUME NEW q \in Failing(t)', NEW i \in drain'[q].cur, i.target = t
                         PROVE  i.attempts < failures'[t]
              OBVIOUS
            <6>1. CASE q = r
              <7>1. i = j /\ j.attempts <= failures[t]
                BY <2>3, <5>3, <6>1
              <7> QED
                BY <2>2, <5>1, <5>2, <7>1
            <6>2. CASE q # r
              <7>1. q \in Failing(t) /\ q \in Drainers /\ i \in drain[q].cur
                BY <2>3, <4>1, <6>2 DEF Failing
              <7>2. i.attempts < failures[t] /\ i.attempts \in Nat
                BY <1>3, <5>3, <5>4, <7>1
              <7> QED
                BY <5>1, <5>2, <7>2
            <6> QED
              BY <6>1, <6>2
          <5> QED
            BY <5>5, <5>6, <5>7
        <4> QED
          BY <4>2, <4>3 DEF TargetOK
      <3> QED
        BY <3>1, <3>2
    <2>6. AbandonedOnlyAfterMaxFailures'
      <3>1. \A t \in Targets : failures[t] = MaxAttempts => failures'[t] = MaxAttempts
        BY <2>4, WriteQueueAssumption
      <3> QED
        BY <1>4, <2>2, <3>1
    <2> QED
      BY <1>5, <2>5, <2>6
  <1>12. CASE Fail(r)
    <2>1. PICK j \in drain[r].cur :
             IF GivesUp(j)
             THEN /\ job' = Dropped(j)
                  /\ abandoned' = [abandoned EXCEPT ![Cell(j.target)] =
                                     @ \/ job[j.target].id = j.id]
             ELSE job' = BackedOff(j) /\ UNCHANGED abandoned
      BY <1>12 DEF Fail
    <2>2. j \in Taken /\ j.target \in Targets /\ j.attempts \in Nat
      <3>1. j \in Taken
        BY HandsType
      <3> QED
        BY <3>1 DEF Taken
    <2>3. UNCHANGED failures /\ NextJob(r) /\ drain[r].at = "fail"
      BY <1>12 DEF Fail
    <2>4. /\ drain'[r].at # "fail" /\ drain'[r].batch \subseteq drain[r].batch
          /\ \A q \in Drainers \ {r} : drain'[q] = drain[q]
      BY <2>3, LoopBatch
    <2>5. r \in Failing(j.target)
      BY <2>3 DEF Failing
    <2>6. \A t \in Targets : Pending(t)' =>
            /\ Pending(t)
            /\ \/ job'[t].attempts = job[t].attempts
               \/ r \in Failing(t) /\ job'[t].attempts = job[t].attempts + 1
      BY <2>1, <2>2, <2>5, RowAttempts
    <2>7. ASSUME NEW c \in Cells, abandoned'[c], ~abandoned[c], ~raced[c]
          PROVE  Cell(j.target) = c /\ failures'[j.target] = MaxAttempts
      <3>1. GivesUp(j) /\ Cell(j.target) = c
        BY <2>1, <2>7 DEF TypeOK
      <3>2. failures[j.target] < MaxAttempts => j.attempts < failures[j.target]
        BY <1>2, <2>2, <2>5, <2>7, <3>1 DEF TargetOK
      <3>3. failures[j.target] \in 0..MaxAttempts /\ MaxAttempts \in Nat
        BY <2>2, Counts
      <3>4. failures[j.target] = MaxAttempts
        BY <2>2, <3>1, <3>2, <3>3 DEF GivesUp
      <3> QED
        BY <2>3, <3>1, <3>4
    <2>8. AbandonedOnlyAfterMaxFailures'
      BY <1>4, <2>2, <2>3, <2>7
    <2> QED
      BY <1>5, <1>7, <2>3, <2>4, <2>6, <2>8
  <1> QED
    BY <1>6, <1>8, <1>9, <1>10, <1>11, <1>12 DEF Drain

LEMMA AttemptsStep == TypeOK /\ TypeOK' /\ AttemptsInv /\ [Next]_vars => AttemptsInv'
  <1> SUFFICES ASSUME TypeOK, TypeOK', AttemptsInv, [Next]_vars PROVE AttemptsInv'
    OBVIOUS
  <1>1. ASSUME UNCHANGED <<job, drain, raced, abandoned, failures>> PROVE AttemptsInv'
    <2>1. \A t : Failing(t)' = Failing(t)
      BY <1>1 DEF Failing
    <2> QED
      BY <1>1, <2>1 DEF AttemptsInv, AttemptsAreCalls, AbandonedOnlyAfterMaxFailures, Pending
  <1>2. CASE UNCHANGED vars
    BY <1>1, <1>2 DEF vars
  <1>3. ASSUME NEW r \in Drainers, NEW k \in Readers, Copy(r, k) PROVE AttemptsInv'
    BY <1>1, <1>3 DEF Copy, FetchPage, CopyNote, CopyError
  <1> QED
    BY <1>2, <1>3, RequestAttempts, DrainAttempts DEF Next, App

LEMMA InitAttempts == Init => AttemptsInv
  <1> SUFFICES ASSUME Init PROVE AttemptsInv
    OBVIOUS
  <1>1. \A t \in Targets : Failing(t) = {} /\ ~Pending(t)
    BY DEF Init, Failing, Idle, Pending, NoJob
  <1>2. \A r \in Drainers : drain[r].batch = {}
    BY DEF Init, Idle
  <1>3. \A c \in Cells : ~abandoned[c]
    BY DEF Init
  <1> QED
    BY <1>1, <1>2, <1>3, FS_EmptySet
    DEF AttemptsInv, AttemptsAreCalls, AbandonedOnlyAfterMaxFailures

\* A change the user saw applied is given up only after maxWriteAttempts calls failed
\* for it: runners that count the attempts of one job at once, each from the count
\* it read, never count a call twice.
THEOREM GivenUpOnlyAfterMaxFailures == Spec => []AbandonedOnlyAfterMaxFailures
  <1>1. TypeOK /\ AttemptsInv /\ [Next]_vars => AttemptsInv'
    BY TypeStep, AttemptsStep
  <1>2. AttemptsInv => AbandonedOnlyAfterMaxFailures
    BY DEF AttemptsInv
  <1> QED
    BY <1>1, <1>2, InitAttempts, TypeCorrect, PTL DEF Spec

=============================================================================
