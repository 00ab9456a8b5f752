--------------------------- MODULE RecurringProofs ---------------------------
(* Proofs about Recurring: the types; that the row of a merchant ends up   *)
(* following the merchant's history, for which it does not matter what     *)
(* Classify looks at; and that Classify knows a steady bill.               *)
EXTENDS Recurring, FiniteSetTheorems, SequenceTheorems, WellFoundedInduction, TLAPS

-----------------------------------------------------------------------------
(* MerchantHistory orders the charges.                                     *)

\* How many charges of H come before x.
Rank(H, x) == Cardinality({y \in H : Before(y, x)})

\* Before orders the charges of a history.
LEMMA BeforeOrders ==
    ASSUME NEW H, OnFile(H)
    PROVE  /\ \A x \in H : x.id \in Nat /\ x.day \in Nat /\ x.day \in Days /\ x.cents \in Amounts
           /\ \A x \in H : ~Before(x, x)
           /\ \A x, y, z \in H : Before(x, y) /\ Before(y, z) => Before(x, z)
           /\ \A x, y \in H : x # y => Before(x, y) \/ Before(y, x)
<1>1. \A x \in H : x.id \in Nat /\ x.day \in Nat /\ x.day \in Days /\ x.cents \in Amounts
  BY RecurringAssumption DEF OnFile, Charge
<1>2. \A x, y \in H : x.id = y.id => x = y
  BY DEF OnFile
<1> QED
  BY <1>1, <1>2 DEF Before

\* The rank of a charge counts those before it.
LEMMA RankType ==
    ASSUME NEW H, OnFile(H), NEW x \in H
    PROVE  Rank(H, x) \in 0..Cardinality(H) - 1
<1> DEFINE S == {y \in H : Before(y, x)}
<1>1. IsFiniteSet(H) /\ S \subseteq H /\ x \notin S
  BY BeforeOrders DEF OnFile
<1>2. IsFiniteSet(S) /\ Cardinality(S) <= Cardinality(H) /\ Cardinality(S) # Cardinality(H)
  BY <1>1, FS_Subset
<1>3. Cardinality(S) \in Nat /\ Cardinality(H) \in Nat
  BY <1>1, <1>2, FS_CardinalityType
<1> DEFINE k == Cardinality(S)
           n == Cardinality(H)
<1>4. k \in 0..n - 1
  <2>1. k \in Nat /\ n \in Nat /\ k <= n /\ k # n
    BY <1>2, <1>3
  <2> HIDE DEF k, n
  <2> QED
    BY <2>1
<1> QED
  BY <1>4 DEF Rank

\* An earlier charge has a lower rank.
LEMMA RankGrows ==
    ASSUME NEW H, OnFile(H), NEW x \in H, NEW y \in H, Before(x, y)
    PROVE  Rank(H, x) < Rank(H, y)
<1> DEFINE S == {z \in H : Before(z, x)}
           T == {z \in H : Before(z, y)}
<1>1. IsFiniteSet(T) /\ T \subseteq H
  BY FS_Subset DEF OnFile
<1>2. S \subseteq T /\ x \in T /\ x \notin S
  BY BeforeOrders
<1>3. IsFiniteSet(S) /\ Cardinality(S) <= Cardinality(T) /\ Cardinality(S) # Cardinality(T)
  BY <1>1, <1>2, FS_Subset
<1>4. Cardinality(S) \in Nat /\ Cardinality(T) \in Nat
  BY <1>1, <1>3, FS_CardinalityType
<1> DEFINE k == Cardinality(S)
           n == Cardinality(T)
<1>5. k < n
  <2>1. k \in Nat /\ n \in Nat /\ k <= n /\ k # n
    BY <1>3, <1>4
  <2> HIDE DEF k, n
  <2> QED
    BY <2>1
<1> QED
  BY <1>5 DEF Rank

\* Every place in the order is somebody's.
LEMMA RankIsOnto ==
    ASSUME NEW H, OnFile(H), NEW k \in 0..Cardinality(H) - 1
    PROVE  \E x \in H : Rank(H, x) = k
<1> DEFINE n == Cardinality(H)
           f == [x \in H |-> Rank(H, x)]
<1>1. IsFiniteSet(H) /\ n \in Nat
  BY FS_CardinalityType DEF OnFile
<1>2. f \in [H -> 0..n - 1]
  BY RankType
<1>3. f \in Injection(H, 0..n - 1)
  <2>1. ASSUME NEW x \in H, NEW y \in H, x # y PROVE f[x] # f[y]
    <3>1. Rank(H, x) \in 0..n - 1 /\ Rank(H, y) \in 0..n - 1
      BY RankType
    <3>2. Rank(H, x) < Rank(H, y) \/ Rank(H, y) < Rank(H, x)
      BY <2>1, BeforeOrders, RankGrows
    <3> HIDE DEF n
    <3> QED
      BY <1>1, <3>1, <3>2
  <2> QED
    BY <1>2, <2>1 DEF Injection, IsInjective
<1>4. IsFiniteSet(0..n - 1) /\ Cardinality(0..n - 1) = n
  <2> HIDE DEF n
  <2>1. 0 \in Int /\ n - 1 \in Int
    BY <1>1
  <2>2. /\ IsFiniteSet(0..(n - 1))
        /\ Cardinality(0..(n - 1)) = IF 0 > n - 1 THEN 0 ELSE (n - 1) - 0 + 1
    BY <2>1, FS_Interval, Zenon
  <2> QED
    BY <1>1, <2>2
<1>5. f \in Surjection(H, 0..n - 1)
  BY <1>1, <1>3, <1>4, FS_Injection
<1> QED
  BY <1>5 DEF Surjection

\* The history in order: each charge once, none before an earlier one.
LEMMA OrderedIsInOrder ==
    ASSUME NEW H, OnFile(H)
    PROVE  /\ Cardinality(H) \in Nat
           /\ Ordered(H) \in [1..Cardinality(H) -> H]
           /\ \A x \in H : \E i \in 1..Cardinality(H) : Ordered(H)[i] = x
           /\ \A i, j \in 1..Cardinality(H) : i <= j => Ordered(H)[i].day <= Ordered(H)[j].day
           /\ \A i, j \in 1..Cardinality(H) : i # j => Ordered(H)[i] # Ordered(H)[j]
<1> DEFINE n == Cardinality(H)
           s == Ordered(H)
<1>1. n \in Nat
  BY FS_CardinalityType DEF OnFile
<1>2. ASSUME NEW i \in 1..n PROVE s[i] \in H /\ Rank(H, s[i]) = i - 1
  <2>1. i - 1 \in 0..n - 1
    <3> HIDE DEF n
    <3> QED
      BY <1>1
  <2>2. \E x \in H : Rank(H, x) = i - 1
    BY <2>1, RankIsOnto
  <2>3. s[i] = CHOOSE x \in H : Rank(H, x) = i - 1
    BY DEF Ordered, Rank
  <2> QED
    BY <2>2, <2>3
<1>3. s \in [1..n -> H]
  BY <1>2 DEF Ordered
<1>4. ASSUME NEW x \in H PROVE \E i \in 1..n : s[i] = x
  <2>1. Rank(H, x) \in 0..n - 1
    BY RankType
  <2> DEFINE i == Rank(H, x) + 1
  <2>2. i \in 1..n /\ i - 1 = Rank(H, x)
    <3> DEFINE r == Rank(H, x)
    <3> HIDE DEF n, r
    <3> QED
      BY <1>1, <2>1 DEF r
  <2>3. s[i] \in H /\ Rank(H, s[i]) = Rank(H, x)
    BY <1>2, <2>2
  <2>4. ~Before(s[i], x) /\ ~Before(x, s[i])
    BY <2>1, <2>3, RankGrows
  <2>5. s[i] = x
    BY <2>3, <2>4, BeforeOrders
  <2> QED
    BY <2>2, <2>5
<1>5. ASSUME NEW i \in 1..n, NEW j \in 1..n, i <= j PROVE s[i].day <= s[j].day
  <2>1. /\ s[i] \in H /\ s[j] \in H
        /\ Rank(H, s[i]) = i - 1 /\ Rank(H, s[j]) = j - 1
    BY <1>2
  <2>2. ~Before(s[j], s[i])
    <3>1. ~(j - 1 < i - 1)
      <4> HIDE DEF n
      <4> QED
        BY <1>1, <1>5
    <3> QED
      BY <2>1, <3>1, RankGrows
  <2> QED
    BY <2>1, <2>2, BeforeOrders DEF Before
<1>6. ASSUME NEW i \in 1..n, NEW j \in 1..n, i # j PROVE s[i] # s[j]
  <2>1. Rank(H, s[i]) = i - 1 /\ Rank(H, s[j]) = j - 1
    BY <1>2
  <2>2. i - 1 # j - 1
    <3> HIDE DEF n
    <3> QED
      BY <1>1, <1>6
  <2> QED
    BY <2>1, <2>2
<1> QED
  BY <1>1, <1>3, <1>4, <1>5, <1>6

-----------------------------------------------------------------------------
(* What Classify gives.                                                    *)

\* Numbers have a least one.
LEMMA LeastOne ==
    ASSUME NEW S \in SUBSET Nat, S # {}
    PROVE  Min(S) \in S /\ \A b \in S : Min(S) <= b
<1>1. PICK a \in S : \A b \in S : <<b, a>> \notin OpToRel(<, Nat)
  BY WFMin, NatLessThanWellFounded, Zenon
<1>2. \A b \in S : a <= b
  <2>1. \A b \in S : ~(b < a)
    BY <1>1 DEF OpToRel
  <2> QED
    BY <2>1
<1> QED
  BY <1>2 DEF Min

\* Up to five numbers have a greatest one.
LEMMA GreatestOfFew ==
    ASSUME NEW m \in 1..5, NEW q \in [1..m -> Nat]
    PROVE  \E k \in 1..m : \A i \in 1..m : q[i] <= q[k]
<1>1. CASE m = 1
  BY <1>1
<1>2. CASE m = 2
  BY <1>2
<1>3. CASE m = 3
  BY <1>3
<1>4. CASE m = 4
  BY <1>4
<1>5. CASE m = 5
  BY <1>5
<1> QED
  BY <1>1, <1>2, <1>3, <1>4, <1>5

\* The typical amount is one of the recent ones.
LEMMA TypicalType ==
    ASSUME NEW m \in 1..4, NEW q \in [1..m -> Amounts], Len(q) = m
    PROVE  Typical(q) \in Amounts
<1> DEFINE More(a) == {i \in DOMAIN q : q[i] > a}
           T == {a \in ToSet(q) : Cardinality(More(a)) <= Len(q) \div 2}
<1>1. q \in [1..m -> Nat]
  BY RecurringAssumption
<1>2. ToSet(q) \subseteq Amounts /\ ToSet(q) \subseteq Nat
  BY <1>1 DEF ToSet
<1>3. PICK k \in 1..m : \A i \in 1..m : q[i] <= q[k]
  <2>1. m \in 1..5
    OBVIOUS
  <2> QED
    BY <1>1, <2>1, GreatestOfFew
<1>4. q[k] \in T
  <2>1. q[k] \in ToSet(q)
    BY DEF ToSet
  <2>2. More(q[k]) = {}
    <3>1. \A i \in 1..m : ~(q[i] > q[k])
      BY <1>1, <1>3
    <3> QED
      BY <3>1
  <2>3. Cardinality(More(q[k])) = 0
    BY <2>2, FS_EmptySet
  <2>4. 0 <= Len(q) \div 2
    OBVIOUS
  <2> QED
    BY <2>1, <2>3, <2>4
<1>5. Min(T) \in T
  <2>1. T \in SUBSET Nat /\ T # {}
    BY <1>2, <1>4
  <2> HIDE DEF T
  <2> QED
    BY <2>1, LeastOne
<1> QED
  BY <1>2, <1>5 DEF Typical

\* The fields of a verdict.
LEMMA Verdict ==
    ASSUME NEW H
    PROVE  LET s == Ordered(H)  a == Classify(H)
               r == [i \in DOMAIN LastOf(s, recentWindow) |->
                       LastOf(s, recentWindow)[i].cents] IN
           /\ a = [kind |-> a.kind, typical |-> a.typical, cadence |-> a.cadence,
                   count |-> a.count, first |-> a.first, last |-> a.last]
           /\ a.kind \in {"none", "recurring", "subscription"}
           /\ a.cadence \in {"weekly", "biweekly", "monthly", "quarterly", "yearly", "unknown"}
           /\ a.typical = Typical(r)
           /\ a.count = Len(s) /\ a.first = s[1].day /\ a.last = s[Len(s)].day
<1>1. \A x : Cadence(x) \in {"weekly", "biweekly", "monthly", "quarterly", "yearly", "unknown"}
  BY DEF Cadence
<1> QED
  BY <1>1 DEF Classify

\* The verdict on a history spans it.
LEMMA ClassifyType ==
    ASSUME NEW H, OnFile(H), H # {}
    PROVE  /\ Classify(H) \in Row
           /\ \A x \in H : x.day \in Classify(H).first..Classify(H).last
<1> DEFINE n == Cardinality(H)
           s == Ordered(H)
           t == LastOf(s, recentWindow)
           r == [i \in DOMAIN t |-> t[i].cents]
<1>1. n \in Nat /\ n # 0 /\ s \in [1..n -> H]
  BY OrderedIsInOrder, FS_EmptySet DEF OnFile
<1>2. Len(s) = n /\ s \in Seq(H)
  <2> HIDE DEF n, s
  <2> QED
    BY <1>1
<1>3. \E m \in 1..4 : t \in [1..m -> H] /\ Len(t) = m
  <2> HIDE DEF s, n
  <2>1. CASE n <= 4
    BY <1>1, <1>2, <2>1 DEF LastOf, recentWindow
  <2>2. CASE ~(n <= 4)
    <3> DEFINE l == n - 3
    <3>1. t = SubSeq(s, l, n)
      BY <1>1, <1>2, <2>2 DEF LastOf, recentWindow
    <3>2. l \in Int /\ n \in Int /\ l <= n /\ n - l + 1 = 4 /\ l >= 1
      BY <1>1, <2>2
    <3> HIDE DEF l
    <3>3. \A i \in l..n : s[i] \in H
      BY <1>1, <3>2
    <3>4. /\ SubSeq(s, l, n) \in Seq(H)
          /\ Len(SubSeq(s, l, n)) = IF l <= n THEN n - l + 1 ELSE 0
      BY <3>2, <3>3, SubSeqProperties
    <3> DEFINE u == SubSeq(s, l, n)
    <3> HIDE DEF u
    <3>5. u \in Seq(H) /\ Len(u) = 4
      BY <3>2, <3>4 DEF u
    <3>6. u \in [1..4 -> H]
      BY <3>5, LenProperties
    <3> QED
      BY <3>1, <3>5, <3>6 DEF u
  <2> QED
    BY <2>1, <2>2
<1>4. PICK m \in 1..4 : t \in [1..m -> H] /\ Len(t) = m
  BY <1>3
<1>5. Typical(r) \in Amounts
  <2>1. r \in [1..m -> Amounts]
    <3>1. \A x \in H : x.cents \in Amounts
      BY BeforeOrders
    <3> HIDE DEF t
    <3> QED
      BY <1>4, <3>1
  <2>2. Len(r) = m
    <3> HIDE DEF r
    <3> QED
      BY <2>1
  <2> HIDE DEF r
  <2> QED
    BY <2>1, <2>2, TypicalType
<1>6. s[1] \in H /\ s[n] \in H
  BY <1>1
<1>7. s[1].day \in Days /\ s[n].day \in Days
  BY <1>6, BeforeOrders
<1>8. ASSUME NEW x \in H PROVE x.day \in s[1].day..s[n].day
  <2>1. PICK i \in 1..n : s[i] = x
    BY OrderedIsInOrder
  <2>2. 1 \in 1..n /\ n \in 1..n /\ 1 <= i /\ i <= n
    <3> HIDE DEF n
    <3> QED
      BY <1>1
  <2>3. s[1].day <= s[i].day /\ s[i].day <= s[n].day
    BY <2>2, OrderedIsInOrder
  <2>4. x.day \in Nat /\ s[1].day \in Nat /\ s[n].day \in Nat
    BY <1>6, BeforeOrders
  <2> QED
    BY <2>1, <2>3, <2>4
<1> DEFINE a == Classify(H)
<1>9. /\ a = [kind |-> a.kind, typical |-> a.typical, cadence |-> a.cadence,
              count |-> a.count, first |-> a.first, last |-> a.last]
      /\ a.kind \in {"none", "recurring", "subscription"}
      /\ a.cadence \in {"weekly", "biweekly", "monthly", "quarterly", "yearly", "unknown"}
      /\ a.typical \in Amounts
      /\ a.count \in Nat /\ a.first = s[1].day /\ a.last = s[n].day
  BY <1>1, <1>2, <1>5, Verdict
<1>10. a \in Row
  <2> HIDE DEF a, s, n
  <2> QED
    BY <1>7, <1>9 DEF Row
<1> QED
  BY <1>8, <1>9, <1>10

-----------------------------------------------------------------------------
(* Types.                                                                  *)

\* What a worker may be in the middle of.
WorkerOK(x) ==
    /\ x.at \in {"idle", "read", "write", "claim"}
    /\ x.of \in Charges \cup {NoCharge}
    /\ x.seen \subseteq Charge /\ OnFile(x.seen)
    /\ x.at = "write" <=> x.seen # {}
    /\ x.at = "claim" => x.of # NoCharge
WorkersOK == DOMAIN worker = Workers /\ \A w \in Workers : WorkerOK(worker[w])

ItemsOK ==
    /\ settled \subseteq Charges /\ offered \subseteq Charges /\ queued \subseteq Charges
    /\ late \subseteq Workers /\ overtaken \in BOOLEAN

RowsOK == OnFile(charges) /\ OnFile(basis) /\ row \in Row \cup {NoRow}

\* Types and histories, part by part.
LEMMA TypesAre ==
    RecurringTypeOK /\ HistoriesAreOrdered <=> WorkersOK /\ ItemsOK /\ RowsOK
  BY DEF RecurringTypeOK, HistoriesAreOrdered, WorkersOK, WorkerOK, ItemsOK, RowsOK, OnFile

\* A worker's turn.
LEMMA TurnIs ==
    ASSUME WorkersOK, NEW w \in Workers, NEW at, NEW c, NEW seen, Turn(w, at, c, seen)
    PROVE  /\ DOMAIN worker' = Workers
           /\ worker'[w].at = at /\ worker'[w].of = c /\ worker'[w].seen = seen
           /\ \A v \in Workers \ {w} : worker'[v] = worker[v]
  BY DEF WorkersOK, Turn

\* UpdateRecurring is done with.
LEMMA DoneIs ==
    ASSUME WorkersOK, NEW w \in Workers, Done(w)
    PROVE  /\ DOMAIN worker' = Workers
           /\ worker'[w].of = worker[w].of /\ worker'[w].seen = {}
           /\ worker'[w].at = IF worker[w].of = NoCharge THEN "idle" ELSE "claim"
           /\ \A v \in Workers \ {w} : worker'[v] = worker[v]
<1>1. CASE worker[w].of = NoCharge
  <2>1. Turn(w, "idle", NoCharge, {})
    BY <1>1 DEF Done
  <2> QED
    BY <1>1, <2>1, TurnIs
<1>2. CASE worker[w].of # NoCharge
  <2>1. Turn(w, "claim", worker[w].of, {})
    BY <1>2 DEF Done, GoOn
  <2> QED
    BY <1>2, <2>1, TurnIs
<1> QED
  BY <1>1, <1>2

\* Workers keep their types when they hold nothing, or what is on file.
LEMMA WorkersType ==
    ASSUME WorkersOK, RowsOK, DOMAIN worker' = Workers,
           \A v \in Workers :
              \/ worker'[v] = worker[v]
              \/ /\ worker'[v].at \in {"idle", "read", "claim"} /\ worker'[v].seen = {}
                 /\ worker'[v].of \in Charges \cup {NoCharge}
                 /\ worker'[v].at = "claim" => worker'[v].of # NoCharge
              \/ /\ worker'[v].at = "write" /\ worker'[v].seen = charges /\ charges # {}
                 /\ worker'[v].of = worker[v].of
    PROVE  WorkersOK'
<1>1. OnFile({})
  BY FS_EmptySet DEF OnFile
<1>2. \A v \in Workers : WorkerOK(worker'[v])
  BY <1>1 DEF WorkersOK, WorkerOK, RowsOK, OnFile
<1> QED
  BY <1>2 DEF WorkersOK, WorkerOK, OnFile

\* Charges come, go and change without being mixed up.
LEMMA HistorySteps ==
    ASSUME NEW H, OnFile(H)
    PROVE  /\ \A z \in Charge : (\A x \in H : x.id < z.id) => OnFile(H \cup {z})
           /\ \A x \in H : OnFile(H \ {x})
           /\ \A x \in H, a \in Amounts : OnFile((H \ {x}) \cup {[x EXCEPT !.cents = a]})
<1>1. \A x \in H : x \in Charge /\ x.id \in Nat
  BY RecurringAssumption DEF OnFile, Charge
<1>2. ASSUME NEW z \in Charge, \A x \in H : x.id < z.id PROVE OnFile(H \cup {z})
  <2>1. IsFiniteSet(H \cup {z})
    BY FS_AddElement DEF OnFile
  <2>2. z.id \in Nat
    BY RecurringAssumption DEF Charge
  <2>3. \A x \in H : x.id # z.id
    BY <1>1, <1>2, <2>2
  <2> QED
    BY <2>1, <2>3 DEF OnFile
<1>3. ASSUME NEW x \in H PROVE OnFile(H \ {x})
  <2>1. IsFiniteSet(H \ {x})
    BY FS_RemoveElement DEF OnFile
  <2> QED
    BY <2>1 DEF OnFile
<1>4. ASSUME NEW x \in H, NEW a \in Amounts
      PROVE  OnFile((H \ {x}) \cup {[x EXCEPT !.cents = a]})
  <2> DEFINE z == [x EXCEPT !.cents = a]
  <2>1. z \in Charge /\ z.id = x.id
    BY <1>1 DEF Charge
  <2> HIDE DEF z
  <2>2. IsFiniteSet((H \ {x}) \cup {z})
    BY <1>3, FS_AddElement DEF OnFile
  <2>3. \A y \in H \ {x} : y.id # z.id
    BY <2>1 DEF OnFile
  <2>4. OnFile((H \ {x}) \cup {z})
    BY <2>1, <2>2, <2>3 DEF OnFile
  <2> QED
    BY <2>4 DEF z
<1> QED
  BY <1>2, <1>3, <1>4

\* A new charge, a charge gone, a charge at another amount.
LEMMA ChargesType ==
    ASSUME RowsOK, ItemsOK,
           \/ Arrivals(Charges, Days)
           \/ \E x \in charges : Vanish(x) \/ \E a \in Amounts : Amend(x, a)
    PROVE  RowsOK' /\ ItemsOK'
<1>1. UNCHANGED <<worker, row, basis>> /\ OnFile(charges) /\ OnFile(basis) /\ row \in Row \cup {NoRow}
  BY DEF Arrivals, Arrive, Vanish, Amend, RowsOK
<1>2. CASE Arrivals(Charges, Days)
  <2>1. PICK c \in Charges, d \in Days, a \in Amounts : Arrive(c, d, a)
    BY <1>2 DEF Arrivals
  <2> DEFINE z == [id |-> c, day |-> d, cents |-> a]
  <2>2. z \in Charge /\ z.id = c
    BY DEF Charge
  <2>3. charges' = charges \cup {z} /\ \A x \in charges : x.id < z.id
    BY <2>1, <2>2 DEF Arrive, Fresh
  <2>4. ItemsOK'
    BY <2>1 DEF Arrive, Quietly, ItemsOK
  <2> HIDE DEF z
  <2>5. OnFile(charges \cup {z})
    BY <1>1, <2>2, <2>3, HistorySteps
  <2> QED
    BY <1>1, <2>3, <2>4, <2>5 DEF RowsOK, OnFile
<1>3. ASSUME NEW x \in charges, Vanish(x) PROVE RowsOK' /\ ItemsOK'
  <2>1. ItemsOK'
    BY <1>3 DEF Vanish, Disturbed, ItemsOK
  <2>2. OnFile(charges \ {x}) /\ charges' = charges \ {x}
    BY <1>1, <1>3, HistorySteps DEF Vanish
  <2> QED
    BY <1>1, <2>1, <2>2 DEF RowsOK, OnFile
<1>4. ASSUME NEW x \in charges, NEW a \in Amounts, Amend(x, a) PROVE RowsOK' /\ ItemsOK'
  <2>1. ItemsOK'
    BY <1>4 DEF Amend, Disturbed, ItemsOK
  <2> DEFINE H == (charges \ {x}) \cup {[x EXCEPT !.cents = a]}
  <2>2. OnFile(H) /\ charges' = H
    BY <1>1, <1>4, HistorySteps DEF Amend
  <2> HIDE DEF H
  <2> QED
    BY <1>1, <2>1, <2>2 DEF RowsOK, OnFile
<1> QED
  BY <1>2, <1>3, <1>4

\* The row takes the new verdict, and covers what it covered.
LEMMA UpsertedType ==
    ASSUME row \in Row \cup {NoRow}, NEW a \in Row
    PROVE  /\ Upserted(a) \in Row
           /\ Upserted(a).kind = a.kind /\ Upserted(a).typical = a.typical
           /\ Upserted(a).cadence = a.cadence /\ Upserted(a).count = a.count
           /\ Upserted(a).first <= a.first /\ a.last <= Upserted(a).last
<1>1. a.first \in Days /\ a.last \in Days /\ \A d \in Days : d \in Nat
  BY RecurringAssumption DEF Row
<1>2. CASE row = NoRow
  BY <1>1, <1>2 DEF Upserted, Row
<1>3. CASE row # NoRow
  <2> DEFINE f == Least(a.first, row.first)
             l == Greatest(a.last, row.last)
  <2>1. row.first \in Days /\ row.last \in Days
    BY <1>3 DEF Row
  <2>2. f \in Days /\ l \in Days /\ f <= a.first /\ a.last <= l
    BY <1>1, <2>1 DEF Least, Greatest
  <2>3. Upserted(a) = [a EXCEPT !.first = f, !.last = l]
    BY <1>3 DEF Upserted
  <2> HIDE DEF f, l
  <2> QED
    BY <2>2, <2>3 DEF Row
<1> QED
  BY <1>2, <1>3

\* What becomes of the worker that takes a step, and of the others.
LEMMA WorkerMoves ==
    ASSUME WorkersOK, NEW w \in Workers,
           \/ ReadHistory(w) \/ Upsert(w) \/ Rebuild(w) \/ FailUpdate(w)
           \/ Claim(w) \/ FailClaim(w) \/ \E c \in queued : TakeUp(w, c)
    PROVE  /\ DOMAIN worker' = Workers
           /\ \A v \in Workers \ {w} : worker'[v] = worker[v]
  BY TurnIs, DoneIs
     DEF ReadHistory, Upsert, Rebuild, FailUpdate, Claim, FailClaim, TakeUp, GoOn, WorkersOK

\* Rows and items keep their types whatever a worker does.
LEMMA WorkerTypes ==
    ASSUME WorkersOK, ItemsOK, RowsOK, NEW w \in Workers,
           \/ ReadHistory(w) \/ Upsert(w) \/ Rebuild(w) \/ FailUpdate(w)
           \/ Claim(w) \/ FailClaim(w) \/ \E c \in queued : TakeUp(w, c)
    PROVE  WorkersOK' /\ ItemsOK' /\ RowsOK'
<1>1. /\ DOMAIN worker' = Workers /\ \A v \in Workers \ {w} : worker'[v] = worker[v]
      /\ WorkerOK(worker[w])
  BY WorkerMoves DEF WorkersOK
<1>2. CASE Upsert(w)
  <2>1. /\ worker[w].at = "write" /\ Done(w) /\ UNCHANGED <<charges, settled, offered, queued>>
        /\ row' = Upserted(Classify(worker[w].seen)) /\ basis' = worker[w].seen
        /\ overtaken' \in BOOLEAN /\ late' \subseteq Workers
    BY <1>2 DEF Upsert, Writing, Behind, ItemsOK
  <2>2. worker[w].seen # {} /\ OnFile(worker[w].seen)
    BY <1>1, <2>1 DEF WorkerOK
  <2>3. Classify(worker[w].seen) \in Row
    BY <2>2, ClassifyType
  <2>4. row' \in Row
    BY <2>1, <2>3, UpsertedType DEF RowsOK
  <2>5. RowsOK'
    BY <2>1, <2>2, <2>4 DEF RowsOK, OnFile
  <2>6. ItemsOK'
    BY <2>1 DEF ItemsOK
  <2>7. /\ worker'[w].at \in {"idle", "claim"} /\ worker'[w].seen = {}
        /\ worker'[w].of \in Charges \cup {NoCharge}
        /\ worker'[w].at = "claim" => worker'[w].of # NoCharge
    BY <1>1, <2>1, DoneIs DEF WorkerOK
  <2>8. WorkersOK'
    BY <1>1, <2>7, WorkersType
  <2> QED
    BY <2>5, <2>6, <2>8
<1>3. CASE ~Upsert(w)
  <2>1. UNCHANGED <<charges, row, basis>>
    BY <1>3 DEF ReadHistory, Rebuild, FailUpdate, Claim, FailClaim, TakeUp
  <2>2. RowsOK'
    BY <2>1 DEF RowsOK, OnFile
  <2>3. ItemsOK'
    <3>1. /\ settled' \subseteq Charges /\ offered' = offered /\ queued' \subseteq queued
      <4>1. worker[w].at = "claim" => worker[w].of \in Charges
        BY <1>1 DEF WorkerOK
      <4> QED
        BY <1>3, <4>1 DEF ReadHistory, Rebuild, FailUpdate, Claim, FailClaim, TakeUp, ItemsOK
    <3>2. late' \subseteq Workers /\ overtaken' \in BOOLEAN
      BY <1>3 DEF ReadHistory, Rebuild, FailUpdate, Claim, FailClaim, TakeUp, ItemsOK,
                  Quietly, Disturbed
    <3> QED
      BY <3>1, <3>2 DEF ItemsOK
  <2>4. CASE ReadHistory(w)
    <3>1. CASE charges = {}
      <4>1. Done(w)
        BY <2>4, <3>1 DEF ReadHistory
      <4>2. /\ worker'[w].at \in {"idle", "claim"} /\ worker'[w].seen = {}
            /\ worker'[w].of \in Charges \cup {NoCharge}
            /\ worker'[w].at = "claim" => worker'[w].of # NoCharge
        BY <1>1, <4>1, DoneIs DEF WorkerOK
      <4> QED
        BY <1>1, <2>2, <2>3, <4>2, WorkersType
    <3>2. CASE charges # {}
      <4>1. Turn(w, "write", worker[w].of, charges)
        BY <2>4, <3>2 DEF ReadHistory, GoOn
      <4>2. worker'[w].at = "write" /\ worker'[w].seen = charges /\ worker'[w].of = worker[w].of
        BY <4>1, TurnIs
      <4> QED
        BY <1>1, <2>2, <2>3, <3>2, <4>2, WorkersType
    <3> QED
      BY <3>1, <3>2
  <2>5. CASE FailUpdate(w)
    <3>1. Done(w)
      BY <2>5 DEF FailUpdate
    <3>2. /\ worker'[w].at \in {"idle", "claim"} /\ worker'[w].seen = {}
          /\ worker'[w].of \in Charges \cup {NoCharge}
          /\ worker'[w].at = "claim" => worker'[w].of # NoCharge
      BY <1>1, <3>1, DoneIs DEF WorkerOK
    <3> QED
      BY <1>1, <2>2, <2>3, <3>2, WorkersType
  <2>6. CASE Rebuild(w) \/ Claim(w) \/ FailClaim(w) \/ \E c \in queued : TakeUp(w, c)
    <3>1. /\ worker'[w].at \in {"idle", "read"} /\ worker'[w].seen = {}
          /\ worker'[w].of \in Charges \cup {NoCharge}
       \/ worker'[w] = worker[w]
      BY <1>1, <2>6, TurnIs DEF Rebuild, Claim, FailClaim, TakeUp, ItemsOK
    <3> QED
      BY <1>1, <2>2, <2>3, <3>1, WorkersType
  <2> QED
    BY <1>3, <2>4, <2>5, <2>6
<1> QED
  BY <1>2, <1>3

\* What the queue does, and a process that ends.
LEMMA QueueTypes ==
    ASSUME WorkersOK, ItemsOK, RowsOK,
           \/ \E c \in Charges : Enqueue(c) \/ Drop(c) \/ Sweep(c)
           \/ \E W \in SUBSET Workers, C \in SUBSET (offered \cup queued) : Crash(W, C)
    PROVE  WorkersOK' /\ ItemsOK' /\ RowsOK'
<1>1. UNCHANGED <<charges, row, basis>>
  BY DEF Enqueue, Drop, Sweep, Crash
<1>2. RowsOK'
  BY <1>1 DEF RowsOK, OnFile
<1>3. CASE \E c \in Charges : Enqueue(c) \/ Drop(c) \/ Sweep(c)
  <2>1. worker' = worker
    BY <1>3 DEF Enqueue, Drop, Sweep
  <2>2. ItemsOK'
    BY <1>3 DEF Enqueue, Drop, Sweep, Quietly, ItemsOK
  <2>3. WorkersOK'
    BY <2>1, WorkersType DEF WorkersOK
  <2> QED
    BY <1>2, <2>2, <2>3
<1>4. ASSUME NEW W \in SUBSET Workers, NEW C \in SUBSET (offered \cup queued), Crash(W, C)
      PROVE  WorkersOK' /\ ItemsOK' /\ RowsOK'
  <2>1. ItemsOK'
    BY <1>4 DEF Crash, ItemsOK
  <2>2. DOMAIN worker' = Workers /\ \A v \in Workers : worker'[v] = Idler \/ worker'[v] = worker[v]
    BY <1>4 DEF Crash
  <2>3. Idler.at = "idle" /\ Idler.of = NoCharge /\ Idler.seen = {}
    BY DEF Idler
  <2>4. WorkersOK'
    BY <2>2, <2>3, WorkersType
  <2> QED
    BY <1>2, <2>1, <2>4
<1> QED
  BY <1>3, <1>4

-----------------------------------------------------------------------------
(* The row follows the history.                                            *)

\* One worker's reading.
ReadingHolds(w) ==
    /\ worker[w].seen \subseteq charges
    /\ \A x \in charges : Counted(x) \/ worker[w].of = x.id => x \in worker[w].seen
    /\ \A v \in Workers \ late :
          worker[v].at = "write" => \/ worker[w].seen \subseteq worker[v].seen
                                    \/ worker[v].seen \subseteq worker[w].seen

LEMMA ReadingsAre ==
    ReadingsHold <=> \A w \in Workers \ late : worker[w].at = "write" => ReadingHolds(w)
  BY DEF ReadingsHold, ReadingHolds, Writing

\* What is counted, by the parts of a worker.
LEMMA CountedIs ==
    ASSUME NEW x
    PROVE  Counted(x) <=> \/ x.id \in settled
                          \/ \E w \in Workers :
                               /\ worker[w].of = x.id
                               /\ \/ worker[w].at = "claim"
                                  \/ worker[w].at = "write" /\ w \in late
  BY DEF Counted, Writing

\* A step that leaves charges and row alone, counts nothing more, and after
\* which nobody is about to write who was not.
LEMMA Quiet ==
    ASSUME LateOnesWrite, ReadingsHold, RowHolds,
           UNCHANGED <<charges, row, basis, overtaken>>,
           \A x \in charges : Counted(x)' => Counted(x),
           \A w \in late' : worker'[w].at = "write",
           \A w \in Workers \ late' :
               worker'[w].at = "write" => w \notin late /\ worker'[w] = worker[w]
    PROVE  LateOnesWrite' /\ ReadingsHold' /\ RowHolds'
<1>1. LateOnesWrite'
  BY DEF LateOnesWrite, Writing
<1>2. RowHolds'
  <2>1. Follows(basis) => Follows(basis)'
    BY DEF Follows
  <2> QED
    BY <2>1 DEF RowHolds
<1>3. ASSUME NEW w \in Workers \ late', worker'[w].at = "write" PROVE ReadingHolds(w)'
  <2>1. w \in Workers \ late /\ worker'[w] = worker[w] /\ ReadingHolds(w)
    BY <1>3, ReadingsAre
  <2> QED
    BY <2>1 DEF ReadingHolds
<1>4. ReadingsHold'
  BY <1>3 DEF ReadingsHold, ReadingHolds, Writing
<1> QED
  BY <1>1, <1>2, <1>4

\* After a disturbance nothing is held of the readings there are.
LEMMA Disturbance ==
    ASSUME RowHolds, UNCHANGED <<row, basis>>, Disturbed
    PROVE  LateOnesWrite' /\ ReadingsHold' /\ RowHolds'
<1>1. overtaken' /\ late' = {w \in Workers : worker'[w].at = "write"}
  BY DEF Disturbed
<1>2. LateOnesWrite'
  BY <1>1 DEF LateOnesWrite, Writing
<1>3. ReadingsHold'
  BY <1>1 DEF ReadingsHold, ReadingHolds, Writing
<1>4. Follows(basis) => Follows(basis)'
  BY DEF Follows
<1>5. RowHolds'
  BY <1>1, <1>4 DEF RowHolds
<1> QED
  BY <1>2, <1>3, <1>5

\* A charge that is new is not counted yet.
LEMMA Arriving ==
    ASSUME LateOnesWrite, ReadingsHold, RowHolds,
           NEW c \in Charges, NEW d \in Days, NEW a \in Amounts, Arrive(c, d, a)
    PROVE  LateOnesWrite' /\ ReadingsHold' /\ RowHolds'
<1> DEFINE z == [id |-> c, day |-> d, cents |-> a]
<1>1. /\ charges' = charges \cup {z} /\ z.id = c
      /\ UNCHANGED <<settled, worker, row, basis, late, overtaken>>
      /\ c \notin settled /\ \A w \in Workers : worker[w].of # c
  BY DEF Arrive, Fresh, Quietly
<1> HIDE DEF z
<1>2. \A x : Counted(x)' <=> Counted(x)
  BY <1>1 DEF Counted, Writing
<1>3. ~Counted(z)
  BY <1>1, CountedIs
<1>4. LateOnesWrite'
  BY <1>1 DEF LateOnesWrite, Writing
<1>5. RowHolds'
  <2>1. Follows(basis) => Follows(basis)'
    BY <1>1 DEF Follows
  <2>2. ~overtaken' => /\ basis' \subseteq charges'
                       /\ \A x \in charges' : Counted(x)' => x \in basis'
    BY <1>1, <1>2, <1>3 DEF RowHolds
  <2> QED
    BY <1>1, <2>1, <2>2 DEF RowHolds
<1>6. ASSUME NEW w \in Workers \ late', worker'[w].at = "write" PROVE ReadingHolds(w)'
  <2>1. w \in Workers \ late /\ worker'[w] = worker[w] /\ ReadingHolds(w)
    BY <1>1, <1>6, ReadingsAre
  <2>2. worker[w].seen \subseteq charges'
    BY <1>1, <2>1 DEF ReadingHolds
  <2>3. \A x \in charges' : Counted(x)' \/ worker[w].of = x.id => x \in worker[w].seen
    BY <1>1, <1>2, <1>3, <2>1 DEF ReadingHolds
  <2>4. \A v \in Workers \ late' :
          worker'[v].at = "write" => \/ worker[w].seen \subseteq worker'[v].seen
                                     \/ worker'[v].seen \subseteq worker[w].seen
    BY <1>1, <2>1 DEF ReadingHolds
  <2> QED
    BY <1>1, <2>2, <2>3, <2>4 DEF ReadingHolds
<1>7. ReadingsHold'
  BY <1>6 DEF ReadingsHold, ReadingHolds, Writing
<1> QED
  BY <1>4, <1>5, <1>7

\* Whoever reads has what is on file, and every reading before is part of it.
LEMMA Reading ==
    ASSUME WorkersOK, ItemsOK, LateOnesWrite, ReadingsHold, RowHolds,
           NEW w \in Workers, ReadHistory(w), charges # {}
    PROVE  LateOnesWrite' /\ ReadingsHold' /\ RowHolds'
<1>1. /\ worker[w].at = "read" /\ Turn(w, "write", worker[w].of, charges)
      /\ late' = late \ {w} /\ UNCHANGED <<charges, settled, row, basis, overtaken>>
  BY DEF ReadHistory, GoOn
<1>2. late' = late /\ w \notin late
  BY <1>1 DEF LateOnesWrite, Writing
<1>3. /\ worker'[w].at = "write" /\ worker'[w].of = worker[w].of /\ worker'[w].seen = charges
      /\ \A v \in Workers \ {w} : worker'[v] = worker[v]
  BY <1>1, TurnIs
<1>4. \A x : Counted(x)' => Counted(x)
  <2> SUFFICES ASSUME NEW x, Counted(x)' PROVE Counted(x)
    OBVIOUS
  <2>1. CASE x.id \in settled'
    BY <1>1, <2>1, CountedIs
  <2>2. CASE \E v \in Workers : /\ worker'[v].of = x.id
                                /\ \/ worker'[v].at = "claim"
                                   \/ worker'[v].at = "write" /\ v \in late'
    <3>1. PICK v \in Workers : /\ worker'[v].of = x.id
                               /\ \/ worker'[v].at = "claim"
                                  \/ worker'[v].at = "write" /\ v \in late'
      BY <2>2
    <3>2. v # w
      BY <1>2, <1>3, <3>1
    <3> QED
      BY <1>2, <1>3, <3>1, <3>2, CountedIs
  <2> QED
    BY <2>1, <2>2 DEF Counted, Writing
<1>5. LateOnesWrite'
  BY <1>2, <1>3 DEF LateOnesWrite, Writing, ItemsOK
<1>6. RowHolds'
  <2>1. Follows(basis) => Follows(basis)'
    BY <1>1 DEF Follows
  <2> QED
    BY <1>1, <1>4, <2>1 DEF RowHolds
<1>7. ASSUME NEW v \in Workers \ late', worker'[v].at = "write" PROVE ReadingHolds(v)'
  <2>1. \A u \in Workers \ late' : worker'[u].at = "write" => worker'[u].seen \subseteq charges
    BY <1>2, <1>3, ReadingsAre DEF ReadingHolds
  <2>2. CASE v = w
    BY <1>1, <1>3, <2>1, <2>2 DEF ReadingHolds
  <2>3. CASE v # w
    <3>1. worker'[v] = worker[v] /\ v \in Workers \ late /\ ReadingHolds(v)
      BY <1>2, <1>3, <1>7, <2>3, ReadingsAre
    <3>2. \A u \in Workers \ late' :
            worker'[u].at = "write" => \/ worker[v].seen \subseteq worker'[u].seen
                                       \/ worker'[u].seen \subseteq worker[v].seen
      BY <1>2, <1>3, <3>1 DEF ReadingHolds
    <3> QED
      BY <1>1, <1>4, <3>1, <3>2 DEF ReadingHolds
  <2> QED
    BY <2>2, <2>3
<1>8. ReadingsHold'
  BY <1>7 DEF ReadingsHold, ReadingHolds, Writing
<1> QED
  BY <1>5, <1>6, <1>8

\* The row that is written follows what its writer read.
LEMMA WrittenFollows ==
    ASSUME WorkersOK, RowsOK, NEW w \in Workers, Upsert(w)
    PROVE  Follows(basis)'
<1> DEFINE H == worker[w].seen
           a == Classify(H)
<1>1. basis' = H /\ row' = Upserted(a) /\ worker[w].at = "write" /\ WorkerOK(worker[w])
  BY DEF Upsert, Writing, WorkersOK
<1>2. H # {} /\ OnFile(H)
  BY <1>1 DEF WorkerOK
<1>3. a \in Row /\ \A x \in H : x.day \in a.first..a.last
  BY <1>2, ClassifyType
<1>4. /\ row' = Upserted(a) /\ Upserted(a) \in Row
      /\ Upserted(a).kind = a.kind /\ Upserted(a).typical = a.typical
      /\ Upserted(a).cadence = a.cadence /\ Upserted(a).count = a.count
      /\ Upserted(a).first <= a.first /\ a.last <= Upserted(a).last
  BY <1>1, <1>3, UpsertedType DEF RowsOK
<1>5. row' # NoRow
  BY <1>4, NoRowAssumption
<1>6. ASSUME NEW x \in H PROVE x.day \in row'.first..row'.last
  <2>1. /\ a.first \in Nat /\ a.last \in Nat /\ row'.first \in Nat /\ row'.last \in Nat
        /\ x.day \in a.first..a.last
        /\ row'.first <= a.first /\ a.last <= row'.last
    BY <1>3, <1>4, RecurringAssumption DEF Row
  <2> QED
    BY <2>1
<1>7. /\ row'.kind = a.kind /\ row'.typical = a.typical
      /\ row'.cadence = a.cadence /\ row'.count = a.count
  BY <1>4
<1> QED
  BY <1>1, <1>5, <1>6, <1>7 DEF Follows

\* A worker writes the row: who read before it is late from now on, and who is
\* not has what its charge adds to what is counted.
LEMMA Writes ==
    ASSUME WorkersOK, RowsOK, ItemsOK, LateOnesWrite, ReadingsHold, RowHolds, NEW w \in Workers, Upsert(w)
    PROVE  LateOnesWrite' /\ ReadingsHold' /\ RowHolds'
<1> DEFINE H == worker[w].seen
<1>1. /\ worker[w].at = "write" /\ Done(w) /\ basis' = H /\ H # {}
      /\ late' = (late \ {w}) \cup Behind(w)
      /\ overtaken' = (w \in late /\ H # charges)
      /\ UNCHANGED <<charges, settled>>
  BY DEF Upsert, Writing, WorkersOK, WorkerOK
<1>2. /\ worker'[w].at # "write" /\ worker'[w].of = worker[w].of
      /\ \A v \in Workers \ {w} : worker'[v] = worker[v]
  BY <1>1, DoneIs
<1>3. \A v \in Behind(w) : /\ v \in Workers \ {w} /\ worker[v].at = "write"
                           /\ worker[v].seen # H /\ worker[v].seen \subseteq H
  BY DEF Behind, Writing
<1>4. \A v \in Workers \ {w} : worker[v].at = "write" /\ v \notin Behind(w) =>
        worker[v].seen = H \/ ~(worker[v].seen \subseteq H)
  BY DEF Behind, Writing
<1> HIDE DEF H
<1>5. LateOnesWrite'
  BY <1>1, <1>2, <1>3 DEF LateOnesWrite, Writing, ItemsOK
\* What is counted now was, or is of the writer, or of one behind it.
<1>6. ASSUME NEW x \in charges, Counted(x)'
      PROVE  \/ Counted(x)
             \/ worker[w].of = x.id /\ w \notin late
             \/ \E v \in Behind(w) \ late : worker[v].of = x.id
  <2>1. CASE x.id \in settled'
    BY <1>1, <2>1, CountedIs
  <2>2. CASE \E v \in Workers : /\ worker'[v].of = x.id
                                /\ \/ worker'[v].at = "claim"
                                   \/ worker'[v].at = "write" /\ v \in late'
    <3>1. PICK v \in Workers : /\ worker'[v].of = x.id
                               /\ \/ worker'[v].at = "claim"
                                  \/ worker'[v].at = "write" /\ v \in late'
      BY <2>2
    <3>2. CASE v = w
      BY <1>1, <1>2, <3>1, <3>2, CountedIs
    <3>3. CASE v # w
      BY <1>1, <1>2, <3>1, <3>3, CountedIs
    <3> QED
      BY <3>2, <3>3
  <2> QED
    BY <1>6, <2>1, <2>2 DEF Counted, Writing
<1>7. ASSUME w \notin late PROVE /\ H \subseteq charges
                                 /\ \A x \in charges : Counted(x)' => x \in H
  <2>1. ReadingHolds(w)
    BY <1>1, <1>7, ReadingsAre
  <2>2. H \subseteq charges /\ \A x \in charges : Counted(x) \/ worker[w].of = x.id => x \in H
    BY <2>1 DEF ReadingHolds, H
  <2>3. ASSUME NEW x \in charges, NEW v \in Behind(w) \ late, worker[v].of = x.id PROVE x \in H
    <3>1. ReadingHolds(v) /\ worker[v].seen \subseteq H
      BY <1>3, <2>3, ReadingsAre
    <3> QED
      BY <2>3, <3>1 DEF ReadingHolds
  <2> QED
    BY <1>6, <2>2, <2>3
<1>8. RowHolds'
  <2>1. Follows(basis)'
    BY WrittenFollows
  <2>2. ~overtaken' => H = charges \/ w \notin late
    BY <1>1
  <2>3. ~overtaken' => /\ basis' \subseteq charges'
                       /\ \A x \in charges' : Counted(x)' => x \in basis'
    BY <1>1, <1>7, <2>2
  <2> QED
    BY <2>1, <2>3 DEF RowHolds
<1>9. ASSUME NEW u \in Workers \ late', worker'[u].at = "write" PROVE ReadingHolds(u)'
  <2>1. u # w /\ worker'[u] = worker[u] /\ u \in Workers \ late /\ u \notin Behind(w)
    BY <1>1, <1>2, <1>9
  <2>2. ReadingHolds(u) /\ worker[u].at = "write"
    BY <1>9, <2>1, ReadingsAre
  <2>3. worker[u].seen \subseteq charges
    BY <2>2 DEF ReadingHolds
  <2>4. ASSUME NEW x \in charges, Counted(x)' \/ worker[u].of = x.id PROVE x \in worker[u].seen
    <3>1. CASE Counted(x) \/ worker[u].of = x.id
      BY <2>2, <3>1 DEF ReadingHolds
    <3>2. CASE worker[w].of = x.id /\ w \notin late
      <4>1. ReadingHolds(w)
        BY <1>1, <3>2, ReadingsAre
      <4>2. x \in H /\ (H \subseteq worker[u].seen \/ worker[u].seen \subseteq H)
        BY <2>1, <2>2, <3>2, <4>1 DEF ReadingHolds, H
      <4> QED
        BY <1>4, <2>1, <2>2, <4>2
    <3>3. ASSUME NEW v \in Behind(w) \ late, worker[v].of = x.id PROVE x \in worker[u].seen
      <4>1. ReadingHolds(v) /\ worker[v].seen \subseteq H /\ worker[v].seen # H
        BY <1>3, <3>3, ReadingsAre
      <4>2. /\ x \in worker[v].seen
            /\ worker[v].seen \subseteq worker[u].seen \/ worker[u].seen \subseteq worker[v].seen
        BY <2>1, <2>2, <3>3, <4>1 DEF ReadingHolds
      <4>3. ~(worker[u].seen \subseteq worker[v].seen)
        BY <1>4, <2>1, <2>2, <4>1
      <4> QED
        BY <4>2, <4>3
    <3> QED
      BY <1>6, <2>4, <3>1, <3>2, <3>3
  <2>5. ASSUME NEW v \in Workers \ late', worker'[v].at = "write"
        PROVE  worker[u].seen \subseteq worker'[v].seen \/ worker'[v].seen \subseteq worker[u].seen
    <3>1. v # w /\ worker'[v] = worker[v] /\ v \in Workers \ late
      BY <1>1, <1>2, <2>5
    <3> QED
      BY <2>2, <2>5, <3>1 DEF ReadingHolds
  <2> QED
    BY <1>1, <2>1, <2>3, <2>4, <2>5 DEF ReadingHolds
<1>10. ReadingsHold'
  BY <1>9 DEF ReadingsHold, ReadingHolds, Writing
<1> QED
  BY <1>5, <1>8, <1>10

\* A worker that neither reads nor writes, and one that finds nothing to read.
LEMMA QuietWorker ==
    ASSUME WorkersOK, ItemsOK, LateOnesWrite, ReadingsHold, RowHolds, NEW w \in Workers,
           \/ ReadHistory(w) /\ charges = {}
           \/ FailUpdate(w) /\ worker[w].of = NoCharge
           \/ Rebuild(w) \/ Claim(w) \/ FailClaim(w) \/ \E c \in queued : TakeUp(w, c)
    PROVE  LateOnesWrite' /\ ReadingsHold' /\ RowHolds'
<1>1. UNCHANGED <<charges, row, basis, overtaken>>
  BY DEF ReadHistory, FailUpdate, Rebuild, Claim, FailClaim, TakeUp, Quietly
<1>2. \A v \in Workers \ {w} : worker'[v] = worker[v]
  BY WorkerMoves
<1>3. worker'[w].at # "write" /\ late' = late \ {w}
  <2>1. CASE \/ ReadHistory(w) /\ charges = {}
             \/ FailUpdate(w) /\ worker[w].of = NoCharge
    BY <2>1, DoneIs DEF ReadHistory, FailUpdate
  <2>2. CASE Rebuild(w) \/ Claim(w) \/ FailClaim(w) \/ \E c \in queued : TakeUp(w, c)
    <3>1. worker[w].at # "write" /\ late' = late
      BY <2>2 DEF Rebuild, Claim, FailClaim, TakeUp, Quietly
    <3>2. worker'[w].at \in {"idle", "read"} \/ worker' = worker
      BY <2>2, TurnIs DEF Rebuild, Claim, FailClaim, TakeUp
    <3> QED
      BY <3>1, <3>2 DEF LateOnesWrite, Writing
  <2> QED
    BY <2>1, <2>2
<1>4. ASSUME NEW x \in charges, Counted(x)' PROVE Counted(x)
  <2>1. charges # {}
    OBVIOUS
  <2>2. x.id \in settled' => Counted(x)
    <3>1. CASE Claim(w)
      <4>1. worker[w].at = "claim" /\ settled' \subseteq settled \cup {worker[w].of}
        BY <3>1 DEF Claim
      <4> QED
        BY <4>1, CountedIs
    <3>2. CASE ~Claim(w)
      <4>1. settled' = settled
        BY <3>2 DEF ReadHistory, FailUpdate, Rebuild, FailClaim, TakeUp
      <4> QED
        BY <4>1, CountedIs
    <3> QED
      BY <3>1, <3>2
  <2>3. ~(worker'[w].at = "claim" /\ worker'[w].of = x.id)
    <3>1. CASE FailUpdate(w) /\ worker[w].of = NoCharge
      BY <3>1, DoneIs DEF FailUpdate
    <3>2. CASE Rebuild(w) \/ Claim(w) \/ FailClaim(w)
      BY <3>2, TurnIs DEF Rebuild, Claim, FailClaim
    <3>3. ASSUME NEW c \in queued, TakeUp(w, c) PROVE worker'[w].at # "claim"
      BY <3>3, TurnIs DEF TakeUp
    <3> QED
      BY <2>1, <3>1, <3>2, <3>3
  <2>4. CASE \E v \in Workers : /\ worker'[v].of = x.id
                                /\ \/ worker'[v].at = "claim"
                                   \/ worker'[v].at = "write" /\ v \in late'
    <3>1. PICK v \in Workers : /\ worker'[v].of = x.id
                               /\ \/ worker'[v].at = "claim"
                                  \/ worker'[v].at = "write" /\ v \in late'
      BY <2>4
    <3>2. v # w
      BY <1>3, <2>3, <3>1
    <3> QED
      BY <1>2, <1>3, <3>1, <3>2, CountedIs
  <2> QED
    BY <1>4, <2>2, <2>4 DEF Counted, Writing
<1>5. \A v \in late' : worker'[v].at = "write"
  <2>1. \A v \in late : worker[v].at = "write"
    BY DEF LateOnesWrite, Writing
  <2>2. ASSUME NEW v \in late, v # w PROVE worker'[v] = worker[v]
    BY <1>2, <2>2 DEF ItemsOK
  <2> QED
    BY <1>3, <2>1, <2>2
<1>6. \A v \in Workers \ late' :
        worker'[v].at = "write" => v \notin late /\ worker'[v] = worker[v]
  BY <1>2, <1>3
<1> QED
  BY <1>1, <1>4, <1>5, <1>6, Quiet

\* The queue counts nothing, and a process that ends takes its workers with it.
LEMMA QuietQueue ==
    ASSUME WorkersOK, ItemsOK, LateOnesWrite, ReadingsHold, RowHolds,
           \/ \E c \in Charges : Enqueue(c) \/ Drop(c) \/ Sweep(c)
           \/ \E W \in SUBSET Workers, C \in SUBSET (offered \cup queued) : Crash(W, C)
    PROVE  LateOnesWrite' /\ ReadingsHold' /\ RowHolds'
<1>1. CASE \E c \in Charges : Enqueue(c) \/ Drop(c) \/ Sweep(c)
  <2>1. UNCHANGED <<charges, settled, row, basis, overtaken, worker, late>>
    BY <1>1 DEF Enqueue, Drop, Sweep, Quietly
  <2>2. \A x : Counted(x)' => Counted(x)
    BY <2>1 DEF Counted, Writing
  <2> QED
    BY <2>1, <2>2, Quiet DEF LateOnesWrite, Writing
<1>2. ASSUME NEW W \in SUBSET Workers, NEW C \in SUBSET (offered \cup queued), Crash(W, C)
      PROVE  LateOnesWrite' /\ ReadingsHold' /\ RowHolds'
  <2>1. /\ UNCHANGED <<charges, settled, row, basis, overtaken>> /\ late' = late \ W
        /\ \A v \in Workers : worker'[v] = IF v \in W THEN Idler ELSE worker[v]
    BY <1>2 DEF Crash
  <2>2. Idler.at = "idle"
    BY DEF Idler
  <2>3. \A v \in Workers : worker'[v].at # "idle" => worker'[v] = worker[v]
    BY <2>1, <2>2
  <2>4. \A x : Counted(x)' => Counted(x)
    BY <2>1, <2>3, CountedIs DEF Counted, Writing
  <2>5. \A v \in late' : worker'[v].at = "write"
    <3>1. \A v \in late : v \in Workers /\ worker[v].at = "write"
      BY DEF LateOnesWrite, Writing, ItemsOK
    <3> QED
      BY <2>1, <3>1
  <2>6. \A v \in Workers \ late' :
          worker'[v].at = "write" => v \notin late /\ worker'[v] = worker[v]
    BY <2>1, <2>2
  <2> QED
    BY <2>1, <2>4, <2>5, <2>6, Quiet
<1> QED
  BY <1>1, <1>2

\* At first there is nothing.
LEMMA Beginning == RecurringInit => RecurringTypeOK /\ SeriesInv
<1> SUFFICES ASSUME RecurringInit PROVE RecurringTypeOK /\ SeriesInv
  OBVIOUS
<1>1. OnFile({})
  BY FS_EmptySet DEF OnFile
<1>2. RecurringTypeOK
  BY DEF RecurringInit, RecurringTypeOK, Idler
<1>3. SeriesInv
  BY <1>1 DEF RecurringInit, SeriesInv, HistoriesAreOrdered, LateOnesWrite, ReadingsHold,
              RowHolds, Counted, Writing, Idler
<1> QED
  BY <1>2, <1>3

\* Every step keeps types, histories, readings and the row.
LEMMA RecurringStep ==
    ASSUME RecurringTypeOK, SeriesInv, [RecurringNext]_recurringVars
    PROVE  RecurringTypeOK' /\ SeriesInv'
<1>1. WorkersOK /\ ItemsOK /\ RowsOK /\ LateOnesWrite /\ ReadingsHold /\ RowHolds
  BY TypesAre DEF SeriesInv
<1> SUFFICES /\ WorkersOK' /\ ItemsOK' /\ RowsOK'
             /\ LateOnesWrite' /\ ReadingsHold' /\ RowHolds'
  BY DEF SeriesInv, RecurringTypeOK, HistoriesAreOrdered, WorkersOK, WorkerOK, ItemsOK,
         RowsOK, OnFile
<1>2. CASE UNCHANGED recurringVars
  <2>1. UNCHANGED <<charges, settled, offered, queued, worker, row, basis, late, overtaken>>
    BY <1>2 DEF recurringVars
  <2>2. WorkersOK' /\ ItemsOK' /\ RowsOK'
    BY <1>1, <2>1 DEF WorkersOK, WorkerOK, ItemsOK, RowsOK, OnFile
  <2>3. \A x : Counted(x)' => Counted(x)
    BY <2>1 DEF Counted, Writing
  <2>4. LateOnesWrite' /\ ReadingsHold' /\ RowHolds'
    BY <1>1, <2>1, <2>3, Quiet DEF LateOnesWrite, Writing
  <2> QED
    BY <2>2, <2>4
<1>3. CASE Arrivals(Charges, Days)
  <2>1. LateOnesWrite' /\ ReadingsHold' /\ RowHolds'
    BY <1>1, <1>3, Arriving DEF Arrivals
  <2>2. UNCHANGED worker
    BY <1>3 DEF Arrivals, Arrive
  <2>3. WorkersOK'
    BY <1>1, <2>2, WorkersType DEF WorkersOK
  <2> QED
    BY <1>1, <1>3, <2>1, <2>3, ChargesType
<1>4. CASE \E x \in charges : Vanish(x) \/ \E a \in Amounts : Amend(x, a)
  <2>1. UNCHANGED <<worker, row, basis>> /\ Disturbed
    BY <1>4 DEF Vanish, Amend
  <2>2. LateOnesWrite' /\ ReadingsHold' /\ RowHolds'
    BY <1>1, <2>1, Disturbance
  <2>3. WorkersOK'
    BY <1>1, <2>1, WorkersType DEF WorkersOK
  <2> QED
    BY <1>1, <1>4, <2>2, <2>3, ChargesType
<1>5. CASE \/ \E c \in Charges : Enqueue(c) \/ Drop(c) \/ Sweep(c)
           \/ \E W \in SUBSET Workers, C \in SUBSET (offered \cup queued) : Crash(W, C)
  BY <1>1, <1>5, QueueTypes, QuietQueue
<1>6. ASSUME NEW w \in Workers,
             \/ ReadHistory(w) \/ Upsert(w) \/ Rebuild(w) \/ FailUpdate(w)
             \/ Claim(w) \/ FailClaim(w) \/ \E c \in queued : TakeUp(w, c)
      PROVE  /\ WorkersOK' /\ ItemsOK' /\ RowsOK'
             /\ LateOnesWrite' /\ ReadingsHold' /\ RowHolds'
  <2>1. WorkersOK' /\ ItemsOK' /\ RowsOK'
    BY <1>1, <1>6, WorkerTypes
  <2>2. CASE ReadHistory(w) /\ charges # {}
    BY <1>1, <2>1, <2>2, Reading
  <2>3. CASE Upsert(w)
    BY <1>1, <2>1, <2>3, Writes
  <2>4. CASE FailUpdate(w) /\ worker[w].of # NoCharge
    <3>1. UNCHANGED <<row, basis>> /\ Disturbed
      BY <2>4 DEF FailUpdate
    <3> QED
      BY <1>1, <2>1, <3>1, Disturbance
  <2>5. CASE \/ ReadHistory(w) /\ charges = {}
             \/ FailUpdate(w) /\ worker[w].of = NoCharge
             \/ Rebuild(w) \/ Claim(w) \/ FailClaim(w) \/ \E c \in queued : TakeUp(w, c)
    BY <1>1, <2>1, <2>5, QuietWorker
  <2> QED
    BY <1>6, <2>2, <2>3, <2>4, <2>5
<1>7. offered \subseteq Charges
  BY <1>1 DEF ItemsOK
<1> QED
  BY <1>2, <1>3, <1>4, <1>5, <1>6, <1>7 DEF RecurringNext, Pipeline, Disturbing

-----------------------------------------------------------------------------
(* Theorems.                                                               *)

\* The variables have their types, whatever the charges, for any number of
\* workers: what Classify gives is a row, and the upsert keeps it one.
THEOREM RecurringTypes == RecurringSpec => []RecurringTypeOK
<1> QED
  BY Beginning, RecurringStep, PTL DEF RecurringSpec

\* Whoever has claimed a charge's notification, or is about to, leaves it in
\* what the row was written from, unless the row was overtaken; and in whatever
\* a worker is to write that is not late.
THEOREM SeriesInvariant == RecurringSpec => []SeriesInv
<1> QED
  BY Beginning, RecurringStep, PTL DEF RecurringSpec

\* When the notification of every charge is claimed the row follows the whole
\* history, whatever items were dropped or lost with a process, unless it was
\* written from an older reading than before, or a classification failed, or a
\* charge vanished or changed, and nothing newer was written since.
THEOREM RowFollowsHistory == RecurringSpec => []SeriesFollowsHistory
<1>1. ASSUME SeriesInv, charges # {}, \A x \in charges : x.id \in settled, ~overtaken
      PROVE  Follows(charges)
  <2>1. \A x \in charges : Counted(x)
    BY <1>1 DEF Counted
  <2>2. basis = charges
    BY <1>1, <2>1 DEF SeriesInv, RowHolds
  <2> QED
    BY <1>1, <2>2 DEF SeriesInv, RowHolds
<1>2. SeriesInv => SeriesFollowsHistory
  BY <1>1 DEF SeriesFollowsHistory
<1> QED
  BY <1>2, SeriesInvariant, PTL

-----------------------------------------------------------------------------
(* A steady bill.                                                          *)

\* Each day of a history has one charge that counts.
LEMMA OneIsKept ==
    ASSUME NEW H, OnFile(H)
    PROVE  /\ OnFile(OnePerDay(H)) /\ OnePerDay(H) \subseteq H
           /\ \A x, y \in OnePerDay(H) : x.day = y.day => x = y
           /\ \A x \in H : \E y \in OnePerDay(H) : y.day = x.day
<1>1. OnePerDay(H) \subseteq H
  BY DEF OnePerDay
<1>2. OnFile(OnePerDay(H))
  BY <1>1, FS_Subset DEF OnFile
<1>3. \A x, y \in OnePerDay(H) : x.day = y.day => x = y
  BY <1>1, BeforeOrders DEF OnePerDay
<1>4. ASSUME NEW x \in H PROVE \E y \in OnePerDay(H) : y.day = x.day
  <2> DEFINE S == {Rank(H, y) : y \in {z \in H : z.day = x.day}}
  <2>1. S \in SUBSET Nat /\ S # {}
    <3>1. \A y \in H : Rank(H, y) \in Nat
      <4>1. Cardinality(H) \in Nat
        BY FS_CardinalityType DEF OnFile
      <4> DEFINE n == Cardinality(H)
      <4>2. \A y \in H : Rank(H, y) \in 0..n - 1
        BY RankType
      <4> HIDE DEF n
      <4> QED
        BY <4>1, <4>2 DEF n
    <3> QED
      BY <3>1
  <2>2. Min(S) \in S /\ \A b \in S : Min(S) <= b
    <3> HIDE DEF S
    <3> QED
      BY <2>1, LeastOne
  <2>3. PICK y \in H : y.day = x.day /\ Rank(H, y) = Min(S)
    BY <2>2
  <2>4. ASSUME NEW z \in H, Before(z, y), z.day = y.day PROVE FALSE
    <3>1. Rank(H, z) < Rank(H, y)
      BY <2>4, RankGrows
    <3>2. Rank(H, z) \in S /\ Rank(H, z) \in Nat /\ Rank(H, y) \in Nat
      BY <2>1, <2>3, <2>4
    <3> QED
      BY <2>2, <2>3, <3>1, <3>2
  <2>5. y \in OnePerDay(H)
    BY <2>4 DEF OnePerDay
  <2> QED
    BY <2>3, <2>5
<1> QED
  BY <1>1, <1>2, <1>3, <1>4

\* Gaps lie between neighbouring days of the history.
LEMMA GapsAre ==
    ASSUME NEW H, OnFile(H), H # {}
    PROVE  LET d == Ordered(OnePerDay(H))  n == Cardinality(OnePerDay(H)) IN
           /\ n \in Nat \ {0} /\ d \in [1..n -> OnePerDay(H)]
           /\ Gaps(H) \in [1..n - 1 -> Nat] /\ Len(Gaps(H)) = n - 1
           /\ \A x \in OnePerDay(H) : \E i \in 1..n : d[i] = x
           /\ \A i \in 1..n - 1 :
                 /\ Gaps(H)[i] = d[i + 1].day - d[i].day
                 /\ d[i].day < d[i + 1].day
                 /\ \A x \in H : ~(d[i].day < x.day /\ x.day < d[i + 1].day)
           /\ \A i, j \in 1..n : i < j => d[i].day < d[j].day
<1> DEFINE D == OnePerDay(H)
           d == Ordered(D)
           n == Cardinality(D)
<1>1. /\ OnFile(D) /\ D \subseteq H
      /\ \A x, y \in D : x.day = y.day => x = y
      /\ \A x \in H : \E y \in D : y.day = x.day
  BY OneIsKept
<1> HIDE DEF D
<1>2. /\ n \in Nat /\ d \in [1..n -> D]
      /\ \A x \in D : \E i \in 1..n : d[i] = x
      /\ \A i, j \in 1..n : i <= j => d[i].day <= d[j].day
      /\ \A i, j \in 1..n : i # j => d[i] # d[j]
  BY <1>1, OrderedIsInOrder
<1>3. n # 0
  BY <1>1, <1>2, FS_EmptySet DEF OnFile
<1>4. \A x \in D : x.day \in Nat
  BY <1>1, BeforeOrders
<1>5. \A x \in H : x.day \in Nat
  BY BeforeOrders
<1>6. Len(d) = n
  <2> HIDE DEF n, d
  <2> QED
    BY <1>2
<1>7. Gaps(H) = [i \in 1..n - 1 |-> d[i + 1].day - d[i].day]
  BY <1>6 DEF Gaps, D
<1> HIDE DEF n, d
<1>8. ASSUME NEW i \in 1..n, NEW j \in 1..n, i < j PROVE d[i].day < d[j].day
  <2>1. d[i] \in D /\ d[j] \in D /\ d[i] # d[j] /\ d[i].day <= d[j].day
    BY <1>2, <1>8
  <2> QED
    BY <1>1, <1>4, <2>1
<1>9. ASSUME NEW i \in 1..n - 1
      PROVE  /\ d[i].day < d[i + 1].day
             /\ \A x \in H : ~(d[i].day < x.day /\ x.day < d[i + 1].day)
  <2>1. i \in 1..n /\ i + 1 \in 1..n /\ i < i + 1
    BY <1>2
  <2>2. ASSUME NEW x \in H, d[i].day < x.day, x.day < d[i + 1].day PROVE FALSE
    <3>1. PICK j \in 1..n : d[j].day = x.day
      BY <1>1, <1>2
    <3>2. j <= i \/ i + 1 <= j
      BY <1>2
    <3>3. d[j].day <= d[i].day \/ d[i + 1].day <= d[j].day
      BY <1>2, <2>1, <3>2
    <3>4. d[i].day \in Nat /\ d[i + 1].day \in Nat /\ d[j].day \in Nat
      BY <1>2, <1>4, <2>1
    <3> QED
      BY <2>2, <3>1, <3>3, <3>4
  <2> QED
    BY <1>8, <2>1, <2>2
<1>10. \A i \in 1..n - 1 : d[i + 1].day - d[i].day \in Nat
  <2> TAKE i \in 1..n - 1
  <2>1. i \in 1..n /\ i + 1 \in 1..n
    BY <1>2
  <2>2. d[i].day \in Nat /\ d[i + 1].day \in Nat
    BY <1>2, <1>4, <2>1
  <2> QED
    BY <1>9, <2>2
<1>11. Gaps(H) \in [1..n - 1 -> Nat] /\ Len(Gaps(H)) = n - 1
  BY <1>2, <1>3, <1>7, <1>10
<1> QED
  BY <1>2, <1>3, <1>7, <1>8, <1>9, <1>11 DEF D, n, d

\* The days of a monthly bill.
LEMMA MonthlyDays ==
    ASSUME NEW R, OnFile(R), Monthly(R, 2)
    PROVE  /\ \A x, y \in R : x.day = y.day => x = y
           /\ \A x, y \in R :
                 x.day < y.day /\ (\A z \in R : ~(x.day < z.day /\ z.day < y.day))
                     => y.day - x.day \in 26..33
           /\ \A x, y \in R : x.cents - y.cents <= 50
<1> DEFINE s == Ordered(R)
           n == Cardinality(R)
<1>1. /\ n \in Nat /\ s \in [1..n -> R]
      /\ \A x \in R : \E i \in 1..n : s[i] = x
      /\ \A i, j \in 1..n : i <= j => s[i].day <= s[j].day
  BY OrderedIsInOrder
<1>2. Len(s) = n
  <2> HIDE DEF s, n
  <2> QED
    BY <1>1
<1>3. \A i \in 1..n - 1 : s[i + 1].day - s[i].day \in 26..33
  BY <1>2 DEF Monthly
<1>4. \A x, y \in R : x.cents - y.cents <= 50
  BY DEF Monthly
<1>5. \A x \in R : x.day \in Nat
  BY BeforeOrders
<1> HIDE DEF s, n
<1>6. ASSUME NEW i \in 1..n, NEW j \in 1..n, i < j
      PROVE  /\ i + 1 \in 1..n /\ i \in 1..n - 1
             /\ s[i].day < s[i + 1].day /\ s[i + 1].day <= s[j].day
  <2>1. i + 1 \in 1..n /\ i \in 1..n - 1 /\ i + 1 <= j
    BY <1>1, <1>6
  <2>2. s[i + 1].day - s[i].day \in 26..33 /\ s[i + 1].day <= s[j].day
    BY <1>1, <1>3, <2>1
  <2>3. s[i].day \in Nat /\ s[i + 1].day \in Nat
    BY <1>1, <1>5, <2>1
  <2> QED
    BY <2>1, <2>2, <2>3
<1>7. ASSUME NEW i \in 1..n, NEW j \in 1..n, i < j PROVE s[i].day < s[j].day
  <2>1. s[i].day \in Nat /\ s[i + 1].day \in Nat /\ s[j].day \in Nat
    BY <1>1, <1>5, <1>6, <1>7
  <2> QED
    BY <1>6, <1>7, <2>1
<1>8. ASSUME NEW x \in R, NEW y \in R, x.day = y.day PROVE x = y
  <2>1. PICK i \in 1..n, j \in 1..n : s[i] = x /\ s[j] = y
    BY <1>1
  <2>2. x.day \in Nat
    BY <1>5
  <2>3. ~(i < j) /\ ~(j < i)
    BY <1>7, <1>8, <2>1, <2>2
  <2> QED
    BY <1>1, <2>1, <2>3
<1>9. ASSUME NEW x \in R, NEW y \in R, x.day < y.day,
             \A z \in R : ~(x.day < z.day /\ z.day < y.day)
      PROVE  y.day - x.day \in 26..33
  <2>1. PICK i \in 1..n, j \in 1..n : s[i] = x /\ s[j] = y
    BY <1>1
  <2>2. x.day \in Nat /\ y.day \in Nat
    BY <1>5
  <2>3. i < j
    <3>1. ~(j <= i)
      <4>1. j <= i => s[j].day <= s[i].day
        BY <1>1
      <4> QED
        BY <1>9, <2>1, <2>2, <4>1
    <3> QED
      BY <1>1, <3>1
  <2>4. i + 1 \in 1..n /\ i \in 1..n - 1 /\ s[i].day < s[i + 1].day
    BY <1>6, <2>3
  <2>5. i + 1 = j
    <3>1. CASE i + 1 < j
      <4>1. s[i + 1].day < s[j].day /\ s[i + 1] \in R
        BY <1>1, <1>7, <2>4, <3>1
      <4> QED
        BY <1>9, <2>1, <2>4, <4>1
    <3> QED
      BY <1>1, <2>3, <3>1
  <2> QED
    BY <1>3, <2>1, <2>4, <2>5
<1> QED
  BY <1>4, <1>8, <1>9

\* A gap between two days of a monthly bill.
LEMMA MonthlyGap ==
    ASSUME NEW H, OnFile(H), H # {}, NEW R, R \subseteq H, OnFile(R), Monthly(R, 2),
           NEW i \in 1..Cardinality(OnePerDay(H)) - 1,
           \E x \in R : x.day = Ordered(OnePerDay(H))[i].day,
           \E y \in R : y.day = Ordered(OnePerDay(H))[i + 1].day
    PROVE  Gaps(H)[i] \in 26..33
<1> DEFINE d == Ordered(OnePerDay(H))
<1>1. PICK x \in R, y \in R : x.day = d[i].day /\ y.day = d[i + 1].day
  OBVIOUS
<1>2. /\ Gaps(H)[i] = d[i + 1].day - d[i].day
      /\ d[i].day < d[i + 1].day
      /\ \A z \in H : ~(d[i].day < z.day /\ z.day < d[i + 1].day)
  BY GapsAre
<1> HIDE DEF d
<1> QED
  BY <1>1, <1>2, MonthlyDays

\* The last k of n.
LEMMA LatestOf ==
    ASSUME NEW S, NEW n \in Nat, NEW s \in [1..n -> S], NEW k \in Nat \ {0}, k < n
    PROVE  /\ LastOf(s, k) \in [1..k -> S]
           /\ \A i \in 1..k : LastOf(s, k)[i] = s[i + (n - k)]
<1>1. Len(s) = n /\ s \in Seq(S)
  OBVIOUS
<1> DEFINE l == n - k + 1
           u == SubSeq(s, l, n)
<1>2. LastOf(s, k) = u
  BY <1>1 DEF LastOf
<1>3. l \in Int /\ n \in Int /\ l <= n /\ n - l + 1 = k /\ l >= 1
  OBVIOUS
<1> HIDE DEF l
<1>4. \A i \in l..n : s[i] \in S
  BY <1>3
<1>5. u \in Seq(S) /\ Len(u) = k /\ \A i \in 1..k : u[i] = s[l + i - 1]
  BY <1>3, <1>4, SubSeqProperties
<1>6. \A i \in 1..k : l + i - 1 = i + (n - k)
  BY <1>3
<1> HIDE DEF u
<1>7. u \in [1..k -> S]
  BY <1>5, LenProperties
<1> QED
  BY <1>2, <1>5, <1>6, <1>7

\* If at most one charge is older than the latest five there are at most six,
\* and the older one is the first.
LEMMA LatestFive ==
    ASSUME NEW H, OnFile(H), Cardinality(H) >= 3,
           NEW R, R = {Ordered(H)[i] : i \in Greatest(1, Cardinality(H) - recentWindow)..Cardinality(H)},
           Cardinality(H \ R) <= 1
    PROVE  /\ R = ToSet(RecentTimes(Ordered(H)))
           /\ OnFile(R) /\ R \subseteq H
           /\ R = H => Cardinality(H) \in 3..5
           /\ R # H => Cardinality(H) = 6 /\ Cardinality(R) = 5
           /\ R # H => Ordered(H)[1] \in H /\ R = H \ {Ordered(H)[1]}
           /\ R # H => \A x \in H : Ordered(H)[1].day <= x.day
<1> DEFINE s == Ordered(H)
           n == Cardinality(H)
<1>1. /\ n \in Nat /\ s \in [1..n -> H]
      /\ \A x \in H : \E i \in 1..n : s[i] = x
      /\ \A i, j \in 1..n : i <= j => s[i].day <= s[j].day
      /\ \A i, j \in 1..n : i # j => s[i] # s[j]
  BY OrderedIsInOrder
<1>2. n >= 3
  OBVIOUS
<1>3. R = {s[i] : i \in (IF n <= 5 THEN 1 ELSE n - 4)..n}
  <2>1. Greatest(1, n - recentWindow) = IF n <= 5 THEN 1 ELSE n - 4
    <3> HIDE DEF n
    <3> QED
      BY <1>1 DEF Greatest, recentWindow
  <2> QED
    BY <2>1
<1>4. IsFiniteSet(H) /\ Cardinality(H \ R) <= 1
  BY DEF OnFile
<1> DEFINE t == RecentTimes(s)
           m == IF n <= 5 THEN n ELSE 5
<1>5. t \in [1..m -> H] /\ Len(t) = m /\ \A i \in 1..m : t[i] = s[i + (n - m)]
  <2>1. t = LastOf(s, 5)
    BY DEF RecentTimes, recentWindow
  <2>2. Len(s) = n
    <3> HIDE DEF s, n
    <3> QED
      BY <1>1
  <2> HIDE DEF s, n, t
  <2>3. CASE n <= 5
    <3>1. t = s /\ m = n
      BY <1>1, <2>1, <2>2, <2>3 DEF LastOf
    <3>2. \A i \in 1..n : i + (n - n) = i
      BY <1>1
    <3> HIDE DEF m
    <3> QED
      BY <1>1, <2>2, <3>1, <3>2
  <2>4. CASE ~(n <= 5)
    <3> DEFINE k == 5
    <3>1. m = k /\ t = LastOf(s, k)
      BY <2>1, <2>4
    <3>2. n \in Nat /\ s \in [1..n -> H] /\ k \in Nat \ {0} /\ k < n
      BY <1>1, <2>4
    <3> HIDE DEF k, m
    <3>3. LastOf(s, k) \in [1..k -> H]
      BY <3>2, LatestOf
    <3>4. \A i \in 1..k : LastOf(s, k)[i] = s[i + (n - k)]
      BY <3>2, LatestOf
    <3>5. Len(t) = k
      BY <3>1, <3>2, <3>3
    <3> QED
      BY <3>1, <3>3, <3>4, <3>5
  <2> QED
    BY <1>1, <2>3, <2>4
<1> HIDE DEF n, s, t
<1>6. R \subseteq H
  BY <1>1, <1>2, <1>3
<1>7. OnFile(R)
  BY <1>6, FS_Subset DEF OnFile
<1>8. R = ToSet(t)
  <2>1. ToSet(t) = {t[i] : i \in 1..m}
    BY <1>5 DEF ToSet
  <2>2. ASSUME NEW i \in 1..m PROVE t[i] \in R
    <3>1. i + (n - m) \in (IF n <= 5 THEN 1 ELSE n - 4)..n
      BY <1>1, <1>2
    <3> QED
      BY <1>3, <1>5, <3>1
  <2>3. ASSUME NEW i \in (IF n <= 5 THEN 1 ELSE n - 4)..n PROVE \E j \in 1..m : t[j] = s[i]
    <3> DEFINE j == i - n + m
    <3>1. j \in 1..m /\ j + (n - m) = i
      BY <1>1, <1>2
    <3> QED
      BY <1>5, <3>1
  <2>4. ToSet(t) \subseteq R
    BY <2>1, <2>2
  <2>5. R \subseteq ToSet(t)
    <3> HIDE DEF m
    <3> QED
      BY <1>3, <2>1, <2>3
  <2> QED
    BY <2>4, <2>5
<1>9. n <= 6
  <2> SUFFICES ASSUME n >= 7 PROVE FALSE
    BY <1>1
  <2>1. \A j \in {1, 2} : s[j] \in H \ R
    <3> TAKE j \in {1, 2}
    <3>1. j \in 1..n /\ \A i \in (n - 4)..n : i \in 1..n /\ j # i
      BY <1>1
    <3>2. R = {s[i] : i \in (n - 4)..n}
      <4>1. (IF n <= 5 THEN 1 ELSE n - 4) = n - 4
        BY <1>1
      <4> QED
        BY <1>3, <4>1
    <3>3. s[j] \in H /\ \A i \in (n - 4)..n : s[i] # s[j]
      BY <1>1, <3>1
    <3> QED
      BY <3>2, <3>3
  <2>2. s[1] # s[2]
    BY <1>1
  <2>3. IsFiniteSet(H \ R) /\ IsFiniteSet({s[1], s[2]}) /\ Cardinality({s[1], s[2]}) = 2
    <3>1. IsFiniteSet({s[1]}) /\ Cardinality({s[1]}) = 1
      BY FS_Singleton
    <3>2. {s[1], s[2]} = {s[1]} \cup {s[2]}
      OBVIOUS
    <3>3. s[2] \notin {s[1]}
      BY <2>2
    <3>4. IsFiniteSet({s[1]} \cup {s[2]}) /\ Cardinality({s[1]} \cup {s[2]}) = 1 + 1
      BY <3>1, <3>3, FS_AddElement
    <3>5. IsFiniteSet(H \ R)
      BY <1>4, FS_Difference
    <3> QED
      BY <3>2, <3>4, <3>5
  <2>4. Cardinality({s[1], s[2]}) <= Cardinality(H \ R)
    BY <2>1, <2>3, FS_Subset
  <2>5. Cardinality(H \ R) \in Nat
    BY <2>3, FS_CardinalityType
  <2> QED
    BY <1>4, <2>3, <2>4, <2>5
<1>10. CASE n <= 5
  <2>1. R = H
    BY <1>1, <1>3, <1>10
  <2> QED
    BY <1>1, <1>2, <1>7, <1>8, <1>10, <2>1 DEF n, s, t
<1>11. CASE n = 6
  <2>1. R = {s[i] : i \in 2..6} /\ s[1] \in H
    BY <1>1, <1>3, <1>11
  <2>2. R = H \ {s[1]}
    <3>1. \A i \in 2..6 : s[i] \in H \ {s[1]}
      BY <1>1, <1>11
    <3>2. \A x \in H \ {s[1]} : \E i \in 2..6 : s[i] = x
      <4> TAKE x \in H \ {s[1]}
      <4>1. PICK i \in 1..6 : s[i] = x
        BY <1>1, <1>11
      <4> QED
        BY <4>1
    <3> QED
      BY <2>1, <3>1, <3>2
  <2>3. \A x \in H : s[1].day <= x.day
    BY <1>1, <1>11
  <2>4. Cardinality(R) = 5
    <3>1. Cardinality(R) = n - 1
      BY <1>4, <2>1, <2>2, FS_RemoveElement DEF n
    <3> QED
      BY <1>11, <3>1
  <2> QED
    BY <1>6, <1>7, <1>8, <1>11, <2>1, <2>2, <2>3, <2>4 DEF n, s, t
<1>12. n <= 5 \/ n = 6
  BY <1>1, <1>9
<1> QED
  BY <1>10, <1>11, <1>12, Zenon

\* The gaps of a monthly bill, all of whose charges are considered.
LEMMA MonthlyGaps ==
    ASSUME NEW R, OnFile(R), Monthly(R, 2), Cardinality(R) \in 3..5
    PROVE  \E m \in 2..4 : /\ Gaps(R) \in [1..m -> Nat] /\ Len(Gaps(R)) = m
                           /\ \A i \in 1..m : Gaps(R)[i] \in 26..33
<1>1. \A x, y \in R : x.day = y.day => x = y
  BY MonthlyDays
<1>2. \A x, y \in R : Before(x, y) => x.day # y.day
  <2>1. \A x \in R : ~Before(x, x)
    BY BeforeOrders
  <2> QED
    BY <1>1, <2>1
<1>3. OnePerDay(R) = R
  BY <1>2 DEF OnePerDay
<1>4. R # {}
  BY FS_EmptySet
<1> DEFINE n == Cardinality(R)
           d == Ordered(R)
<1>5. /\ Gaps(R) \in [1..n - 1 -> Nat] /\ Len(Gaps(R)) = n - 1
      /\ d \in [1..n -> R]
  BY <1>3, <1>4, GapsAre
<1>6. \A i \in 1..n - 1 : Gaps(R)[i] \in 26..33
  <2> TAKE i \in 1..n - 1
  <2>1. d[i] \in R /\ d[i + 1] \in R
    <3>1. i \in 1..n /\ i + 1 \in 1..n
      OBVIOUS
    <3> HIDE DEF d, n
    <3> QED
      BY <1>5, <3>1
  <2>2. /\ \E x \in R : x.day = Ordered(OnePerDay(R))[i].day
        /\ \E y \in R : y.day = Ordered(OnePerDay(R))[i + 1].day
    BY <1>3, <2>1
  <2> QED
    BY <1>3, <1>4, <2>2, MonthlyGap
<1>7. n - 1 \in 2..4
  OBVIOUS
<1> HIDE DEF n
<1> QED
  BY <1>5, <1>6, <1>7

\* The gaps between charges of which all but the first are a monthly bill.
LEMMA GapsWithOutlier ==
    ASSUME NEW H, OnFile(H), Cardinality(H) = 6, NEW o \in H, \A x \in H : o.day <= x.day,
           NEW R, R = H \ {o}, OnFile(R), Monthly(R, 2), Cardinality(R) = 5
    PROVE  \E m \in 1..5 :
              /\ Gaps(H) \in [1..m -> Nat] /\ Len(Gaps(H)) = m
              /\ \/ \A i \in 1..m : Gaps(H)[i] \in 26..33
                 \/ m = 5 /\ \A i \in 2..m : Gaps(H)[i] \in 26..33
<1> DEFINE D == OnePerDay(H)
           n == Cardinality(D)
           d == Ordered(D)
<1>1. /\ OnFile(D) /\ D \subseteq H
      /\ \A x, y \in D : x.day = y.day => x = y
      /\ \A x \in H : \E y \in D : y.day = x.day
  BY OneIsKept
<1>2. H # {} /\ IsFiniteSet(H) /\ R \subseteq H
  BY DEF OnFile
<1>3. /\ n \in Nat \ {0} /\ d \in [1..n -> D]
      /\ Gaps(H) \in [1..n - 1 -> Nat] /\ Len(Gaps(H)) = n - 1
      /\ \A x \in D : \E i \in 1..n : d[i] = x
      /\ \A i, j \in 1..n : i < j => d[i].day < d[j].day
  BY <1>2, GapsAre
<1>4. \A x \in H : x.day \in Nat
  BY BeforeOrders
<1>5. \A x, y \in R : x.day = y.day => x = y
  BY MonthlyDays
<1>6. ASSUME NEW i \in 1..n - 1,
             \E x \in R : x.day = d[i].day, \E y \in R : y.day = d[i + 1].day
      PROVE  Gaps(H)[i] \in 26..33
  BY <1>2, <1>6, MonthlyGap
<1>7. n <= 6
  BY <1>1, <1>2, FS_Subset
<1> HIDE DEF D, n, d
<1>8. n # 1
  <2>1. PICK x \in R, y \in R : x # y
    <3>1. PICK x \in R : TRUE
      BY FS_EmptySet
    <3>2. R # {x}
      BY FS_Singleton
    <3> QED
      BY <3>1, <3>2
  <2>2. PICK u \in D, v \in D : u.day = x.day /\ v.day = y.day
    BY <1>1, <1>2
  <2>3. u # v
    BY <1>5, <2>1, <2>2
  <2> QED
    BY <1>3, <2>2, <2>3
<1>9. CASE \E x \in R : x.day = o.day
  <2>1. \A z \in D : \E x \in R : x.day = z.day
    BY <1>1, <1>9
  <2>2. ASSUME NEW i \in 1..n - 1 PROVE Gaps(H)[i] \in 26..33
    <3>1. i \in 1..n /\ i + 1 \in 1..n
      BY <1>3
    <3>2. d[i] \in D /\ d[i + 1] \in D
      BY <1>3, <3>1
    <3> QED
      BY <1>6, <2>1, <3>2
  <2>3. n - 1 \in 1..5
    BY <1>3, <1>7, <1>8
  <2> QED
    BY <1>3, <2>2, <2>3
<1>10. CASE ~\E x \in R : x.day = o.day
  <2>1. \A x, y \in H : x.day = y.day => x = y
    BY <1>5, <1>10
  <2>2. D = H
    <3>1. \A x \in H : ~Before(x, x)
      BY BeforeOrders
    <3>2. \A x, y \in H : Before(x, y) => x.day # y.day
      BY <2>1, <3>1
    <3> QED
      BY <3>2 DEF D, OnePerDay
  <2>3. n = 6
    BY <2>2 DEF n
  <2>4. ASSUME NEW i \in 1..n, d[i] = o PROVE i = 1
    <3>1. 1 \in 1..n /\ d[1] \in H /\ o.day <= d[1].day
      BY <1>3, <2>2, <2>3
    <3>2. ~(1 < i)
      BY <1>3, <1>4, <2>4, <3>1
    <3> QED
      BY <2>3, <3>2
  <2>5. ASSUME NEW i \in 2..5 PROVE Gaps(H)[i] \in 26..33
    <3>1. i \in 1..n /\ i + 1 \in 1..n /\ i \in 1..n - 1 /\ i # 1 /\ i + 1 # 1
      BY <2>3
    <3>2. d[i] \in R /\ d[i + 1] \in R
      BY <1>3, <2>2, <2>4, <3>1
    <3> QED
      BY <1>6, <3>1, <3>2
  <2>6. Gaps(H) \in [1..5 -> Nat] /\ Len(Gaps(H)) = 5
    BY <1>3, <2>3
  <2> QED
    BY <2>5, <2>6
<1> QED
  BY <1>9, <1>10

\* The n-th least of a few lies where most of them lie.
LEMMA NthLeastIs ==
    ASSUME NEW m \in 1..5, NEW q \in [1..m -> Nat], Len(q) = m, NEW n \in 1..m,
           \/ \A i \in 1..m : q[i] \in 26..33
           \/ m = 5 /\ n = 3 /\ \A i \in 2..m : q[i] \in 26..33
    PROVE  NthLeast(q, n) \in 26..33
<1> DEFINE Below(a) == {i \in DOMAIN q : q[i] <= a}
           T == {a \in ToSet(q) : Cardinality(Below(a)) >= n}
<1>1. ToSet(q) = {q[i] : i \in 1..m} /\ T \subseteq Nat
  BY DEF ToSet
<1>2. NthLeast(q, n) = Min(T)
  BY DEF NthLeast
<1>3. ASSUME T # {} PROVE Min(T) \in T /\ \A b \in T : Min(T) <= b
  <2> HIDE DEF T
  <2> QED
    BY <1>1, <1>3, LeastOne
<1>4. IsFiniteSet(1..m) /\ Cardinality(1..m) = m
  <2>1. \A a, b \in Int : Cardinality(a..b) = IF a > b THEN 0 ELSE b - a + 1
    BY FS_Interval
  <2>2. \A a, b \in Int : IsFiniteSet(a..b)
    BY FS_Interval
  <2> QED
    BY <2>1, <2>2
<1>5. CASE \A i \in 1..m : q[i] \in 26..33
  <2>1. PICK k \in 1..m : \A i \in 1..m : q[i] <= q[k]
    BY GreatestOfFew
  <2>2. Below(q[k]) = 1..m
    BY <2>1
  <2>3. q[k] \in T
    <3>1. Cardinality(Below(q[k])) = m
      BY <1>4, <2>2
    <3> HIDE DEF Below
    <3> QED
      BY <1>1, <3>1
  <2>4. T \subseteq 26..33
    BY <1>1, <1>5
  <2> HIDE DEF T
  <2> QED
    BY <1>2, <1>3, <2>3, <2>4
<1>6. CASE m = 5 /\ n = 3 /\ \A i \in 2..m : q[i] \in 26..33
  <2> DEFINE p == [i \in 1..4 |-> q[i + 1]]
  <2>1. p \in [1..4 -> Nat]
    BY <1>6
  <2>2. PICK k \in 1..4 : \A i \in 1..4 : p[i] <= p[k]
    <3> HIDE DEF p
    <3> QED
      BY <2>1, GreatestOfFew
  <2> DEFINE top == q[k + 1]
  <2>3. top \in 26..33 /\ top \in ToSet(q) /\ \A i \in 2..5 : q[i] <= top
    <3>1. k + 1 \in 2..5
      OBVIOUS
    <3>2. \A i \in 2..5 : i - 1 \in 1..4 /\ p[i - 1] = q[i]
      OBVIOUS
    <3> QED
      BY <1>1, <1>6, <2>2, <3>1, <3>2
  <2>4. top \in T
    <3>1. 2..5 \subseteq Below(top)
      BY <1>6, <2>3
    <3>2. IsFiniteSet(Below(top))
      <4>1. Below(top) \subseteq 1..m
        OBVIOUS
      <4> QED
        BY <1>4, <4>1, FS_Subset
    <3>3. IsFiniteSet(2..5) /\ Cardinality(2..5) = 4
      <4> DEFINE a == 2
                 b == 5
      <4>1. a \in Int /\ b \in Int /\ ~(a > b) /\ b - a + 1 = 4
        OBVIOUS
      <4> HIDE DEF a, b
      <4>2. IsFiniteSet(a..b) /\ Cardinality(a..b) = 4
        BY <4>1, FS_Interval
      <4> QED
        BY <4>2 DEF a, b
    <3>4. Cardinality(2..5) <= Cardinality(Below(top))
      BY <3>1, <3>2, FS_Subset
    <3>5. Cardinality(Below(top)) \in Nat
      BY <3>2, FS_CardinalityType
    <3>6. Cardinality(Below(top)) >= n
      BY <1>6, <3>3, <3>4, <3>5
    <3> QED
      BY <2>3, <3>6
  <2>5. ASSUME NEW a \in T PROVE a >= 26
    <3>1. \E i \in 2..5 : i \in Below(a)
      <4> SUFFICES ASSUME Below(a) \subseteq {1} PROVE FALSE
        BY <1>6
      <4>1. IsFiniteSet({1}) /\ Cardinality({1}) = 1
        BY FS_Singleton
      <4>2. Cardinality(Below(a)) <= 1
        BY <4>1, FS_Subset
      <4>3. Cardinality(Below(a)) >= 3 /\ Cardinality(Below(a)) \in Nat
        BY <1>6, <4>1, FS_Subset, FS_CardinalityType
      <4> QED
        BY <4>2, <4>3
    <3>2. PICK i \in 2..5 : q[i] <= a
      BY <3>1
    <3>3. q[i] \in 26..33 /\ a \in Nat
      BY <1>1, <1>6
    <3> QED
      BY <3>2, <3>3
  <2>6. T \subseteq Nat /\ top \in 26..33
    BY <1>1, <2>3
  <2> HIDE DEF T, top
  <2>7. Min(T) \in T /\ Min(T) <= top
    BY <1>3, <2>4
  <2>8. Min(T) \in Nat /\ Min(T) >= 26
    BY <2>5, <2>6, <2>7
  <2> QED
    BY <1>2, <2>6, <2>7, <2>8
<1> QED
  BY <1>5, <1>6

\* The median gap of such a history is a month.
LEMMA MonthlyCadence ==
    ASSUME NEW m \in 1..5, NEW q \in [1..m -> Nat], Len(q) = m,
           \/ \A i \in 1..m : q[i] \in 26..33
           \/ m = 5 /\ \A i \in 2..m : q[i] \in 26..33
    PROVE  Cadence(Middle(q)) = "monthly"
<1> DEFINE low == (m + 1) \div 2
           high == m \div 2 + 1
<1>1. low \in 1..m /\ high \in 1..m /\ (m = 5 => low = 3 /\ high = 3)
  <2>1. m = 1 \/ m = 2 \/ m = 3 \/ m = 4 \/ m = 5
    OBVIOUS
  <2> QED
    BY <2>1
<1>2. Middle(q) = NthLeast(q, low) + NthLeast(q, high)
  BY DEF Middle
<1> HIDE DEF low, high
<1>3. NthLeast(q, low) \in 26..33
  BY <1>1, NthLeastIs
<1>4. NthLeast(q, high) \in 26..33
  BY <1>1, NthLeastIs
<1> DEFINE a == NthLeast(q, low)
           b == NthLeast(q, high)
           c == Middle(q)
<1> HIDE DEF a, b, c
<1>5. c \in 52..66
  <2>1. a \in 26..33 /\ b \in 26..33 /\ c = a + b
    BY <1>2, <1>3, <1>4 DEF a, b, c
  <2> QED
    BY <2>1
<1>6. /\ ~(c \in 12..16) /\ ~(c \in 23..33) /\ c \in 52..70
      /\ ~(c \in 146..218) /\ ~(c \in 584..876)
  BY <1>5
<1>7. Cadence(c) = "monthly"
  BY <1>6 DEF Cadence
<1> QED
  BY <1>7 DEF c

\* A sum of up to four.
LEMMA SumsOfFew ==
    ASSUME NEW q, NEW n \in 1..4, Len(q) = n, \A i \in 1..n : q[i] \in Int
    PROVE  /\ n = 1 => Total(q) = q[1]
           /\ n = 2 => Total(q) = q[1] + q[2]
           /\ n = 3 => Total(q) = q[1] + q[2] + q[3]
           /\ n = 4 => Total(q) = q[1] + q[2] + q[3] + q[4]
<1> DEFINE Body(f) == [i \in 0..n |-> IF i = 0 THEN 0 ELSE f[i - 1] + q[i]]
           sum == CHOOSE f : f = Body(f)
           g == [i \in 0..n |->
                    IF i = 0 THEN 0 ELSE IF i = 1 THEN q[1] ELSE IF i = 2 THEN q[1] + q[2]
                    ELSE IF i = 3 THEN q[1] + q[2] + q[3] ELSE q[1] + q[2] + q[3] + q[4]]
<1>1. Total(q) = sum[n]
  BY DEF Total
<1>2. g = Body(g)
  <2>1. \A i \in 0..n : g[i] = Body(g)[i]
    OBVIOUS
  <2> QED
    BY <2>1
<1>3. sum = Body(sum)
  BY <1>2
<1> HIDE DEF sum
<1>4. \A i \in 0..n : sum[i] = IF i = 0 THEN 0 ELSE sum[i - 1] + q[i]
  BY <1>3
<1>5. /\ sum[0] = 0 /\ sum[1] = 0 + q[1] /\ (n > 1 => sum[2] = sum[1] + q[2])
      /\ (n > 2 => sum[3] = sum[2] + q[3]) /\ (n > 3 => sum[4] = sum[3] + q[4])
  BY <1>4
<1> QED
  BY <1>1, <1>5

\* Months are regular enough.
LEMMA MonthsAreRegular ==
    ASSUME NEW m \in 2..4, NEW q \in [1..m -> Nat], Len(q) = m,
           \A i \in 1..m : q[i] \in 26..33
    PROVE  Regular(q, 35)
<1> DEFINE p == [i \in DOMAIN q |-> q[i] * q[i]]
           u == Total(q)
           v == Total(p)
<1>1. Squares(q) = v
  BY DEF Squares
<1>2. Len(p) = m /\ \A i \in 1..m : p[i] = q[i] * q[i] /\ p[i] \in Int
  OBVIOUS
<1>3. /\ m = 2 => u = q[1] + q[2]
      /\ m = 3 => u = q[1] + q[2] + q[3]
      /\ m = 4 => u = q[1] + q[2] + q[3] + q[4]
  <2>1. m \in 1..4 /\ \A i \in 1..m : q[i] \in Int
    OBVIOUS
  <2> QED
    BY <2>1, SumsOfFew
<1>4. /\ m = 2 => v = q[1] * q[1] + q[2] * q[2]
      /\ m = 3 => v = q[1] * q[1] + q[2] * q[2] + q[3] * q[3]
      /\ m = 4 => v = q[1] * q[1] + q[2] * q[2] + q[3] * q[3] + q[4] * q[4]
  <2> HIDE DEF p
  <2>1. m \in 1..4 /\ \A i \in 1..m : p[i] \in Int
    BY <1>2
  <2>2. /\ m = 2 => v = p[1] + p[2]
        /\ m = 3 => v = p[1] + p[2] + p[3]
        /\ m = 4 => v = p[1] + p[2] + p[3] + p[4]
    BY <1>2, <2>1, SumsOfFew
  <2>3. /\ m >= 2 => p[1] = q[1] * q[1] /\ p[2] = q[2] * q[2]
        /\ m >= 3 => p[3] = q[3] * q[3]
        /\ m = 4 => p[4] = q[4] * q[4]
    BY <1>2
  <2> HIDE DEF v
  <2> QED
    BY <2>2, <2>3
<1> HIDE DEF u, v
<1>5. u \in Int /\ v \in Int /\ u >= 52 /\ m * v - u * u <= 294
  <2>1. \A a, b \in 26..33 : (a - b) * (a - b) <= 49
    <3>1. \A x \in -7..7 : x * x <= 49
      OBVIOUS
    <3>2. \A a, b \in 26..33 : a - b \in -7..7
      OBVIOUS
    <3> QED
      BY <3>1, <3>2
  <2>2. CASE m = 2
    <3> DEFINE a == q[1]
               b == q[2]
    <3>1. a \in 26..33 /\ b \in 26..33 /\ u = a + b /\ v = a * a + b * b
      BY <1>3, <1>4, <2>2
    <3> HIDE DEF a, b
    <3>2. 2 * v - u * u = (a - b) * (a - b)
      BY <3>1
    <3> QED
      BY <2>1, <2>2, <3>1, <3>2
  <2>3. CASE m = 3
    <3> DEFINE a == q[1]
               b == q[2]
               c == q[3]
    <3>1. /\ a \in 26..33 /\ b \in 26..33 /\ c \in 26..33
          /\ u = a + b + c /\ v = a * a + b * b + c * c
      BY <1>3, <1>4, <2>3
    <3> HIDE DEF a, b, c
    <3>2. 3 * v - u * u = (a - b) * (a - b) + (a - c) * (a - c) + (b - c) * (b - c)
      BY <3>1
    <3> QED
      BY <2>1, <2>3, <3>1, <3>2
  <2>4. CASE m = 4
    <3> DEFINE a == q[1]
               b == q[2]
               c == q[3]
               d == q[4]
    <3>1. /\ a \in 26..33 /\ b \in 26..33 /\ c \in 26..33 /\ d \in 26..33
          /\ u = a + b + c + d /\ v = a * a + b * b + c * c + d * d
      BY <1>3, <1>4, <2>4
    <3> HIDE DEF a, b, c, d
    <3>2. 4 * v - u * u =
            (a - b) * (a - b) + (a - c) * (a - c) + (a - d) * (a - d)
              + (b - c) * (b - c) + (b - d) * (b - d) + (c - d) * (c - d)
      BY <3>1
    <3> QED
      BY <2>1, <2>4, <3>1, <3>2
  <2> QED
    BY <2>2, <2>3, <2>4
<1>6. u * u >= 2704
  BY <1>5
<1>7. 40000 * (m * v - u * u) < 71 * 71 * u * u
  <2> DEFINE x == m * v - u * u
             w == u * u
  <2>1. 71 * 71 * u * u = 5041 * w
    BY <1>5
  <2>2. x \in Int /\ w \in Int /\ x <= 294 /\ w >= 2704
    BY <1>5, <1>6
  <2> HIDE DEF x, w
  <2>3. 40000 * x < 5041 * w
    BY <2>2
  <2> QED
    BY <2>1, <2>3 DEF x
<1>8. (2 * 35 + 1) * (2 * 35 + 1) = 71 * 71
  OBVIOUS
<1> QED
  BY <1>1, <1>7, <1>8 DEF Regular, u

\* Amounts that differ little have a small spread.
LEMMA SpreadOf ==
    ASSUME NEW m \in 1..4, NEW r \in [1..m -> Nat],
           \A i, j \in 1..m : r[i] - r[j] <= 50
    PROVE  Max(ToSet(r)) - Min(ToSet(r)) <= 50
<1> DEFINE S == ToSet(r)
<1>1. S = {r[i] : i \in 1..m}
  BY DEF ToSet
<1>2. PICK k \in 1..m : \A i \in 1..m : r[i] <= r[k]
  <2>1. m \in 1..5
    OBVIOUS
  <2> QED
    BY <2>1, GreatestOfFew
<1>3. r[k] \in S /\ S \subseteq Nat /\ \A a \in S : r[k] >= a
  BY <1>1, <1>2
<1>4. \A a, b \in S : a - b <= 50
  BY <1>1
<1> HIDE DEF S
<1>5. Max(S) \in S
  BY <1>3 DEF Max
<1>6. Min(S) \in S
  BY <1>3, LeastOne
<1> QED
  BY <1>4, <1>5, <1>6 DEF S

\* The latest four are some of the latest five.
LEMMA LatestFour ==
    ASSUME NEW S, NEW n \in Nat, n >= 3, NEW s \in [1..n -> S]
    PROVE  \E m \in 1..4 :
              /\ LastOf(s, recentWindow) \in [1..m -> S]
              /\ \A i \in 1..m : \E j \in (IF n <= 5 THEN 1 ELSE n - 4)..n :
                     LastOf(s, recentWindow)[i] = s[j]
<1> DEFINE k == 4
           t == LastOf(s, k)
<1>1. k \in Nat \ {0} /\ k \in 1..4 /\ recentWindow = k
  BY DEF recentWindow
<1>2. CASE n <= k
  <2>1. t = s
    BY <1>2 DEF LastOf
  <2>2. n \in 1..4 /\ \A i \in 1..n : i \in (IF n <= 5 THEN 1 ELSE n - 4)..n
    BY <1>2
  <2> HIDE DEF t, k
  <2>3. t \in [1..n -> S]
    BY <2>1
  <2>4. \A i \in 1..n : \E j \in (IF n <= 5 THEN 1 ELSE n - 4)..n : t[i] = s[j]
    BY <2>1, <2>2
  <2> QED
    BY <1>1, <2>2, <2>3, <2>4 DEF t
<1>3. CASE k < n
  <2> DEFINE l == n - k + 1
             u == SubSeq(s, l, n)
  <2>1. /\ l \in Int /\ n - l + 1 = k /\ \A i \in l..n : s[i] \in S
        /\ \A i \in 1..k : l + i - 1 \in (IF n <= 5 THEN 1 ELSE n - 4)..n
    BY <1>3
  <2>2. t = u
    BY <1>3 DEF LastOf
  <2> HIDE DEF k, l, t
  <2>3. u \in Seq(S) /\ Len(u) = k /\ \A i \in 1..k : u[i] = s[l + i - 1]
    BY <1>1, <1>3, <2>1, SubSeqProperties
  <2> HIDE DEF u
  <2>4. t \in [1..k -> S]
    BY <2>2, <2>3, LenProperties
  <2>5. \A i \in 1..k : \E j \in (IF n <= 5 THEN 1 ELSE n - 4)..n : t[i] = s[j]
    BY <2>1, <2>2, <2>3
  <2> QED
    BY <1>1, <2>4, <2>5 DEF t
<1> QED
  BY <1>2, <1>3

\* The amounts that are compared are some of the latest five.
LEMMA RecentAmounts ==
    ASSUME NEW H, OnFile(H), Cardinality(H) >= 3,
           NEW R, R = {Ordered(H)[i] : i \in Greatest(1, Cardinality(H) - recentWindow)..Cardinality(H)},
           \A x, y \in R : x.cents - y.cents <= 50
    PROVE  LET recent == [i \in DOMAIN LastOf(Ordered(H), recentWindow) |->
                            LastOf(Ordered(H), recentWindow)[i].cents] IN
           Max(ToSet(recent)) - Min(ToSet(recent)) <= 50
<1> DEFINE s == Ordered(H)
           n == Cardinality(H)
           t == LastOf(s, recentWindow)
           recent == [i \in DOMAIN t |-> t[i].cents]
<1>1. n \in Nat /\ n >= 3 /\ s \in [1..n -> H]
  BY OrderedIsInOrder
<1>2. R = {s[i] : i \in (IF n <= 5 THEN 1 ELSE n - 4)..n}
  <2>1. Greatest(1, n - recentWindow) = IF n <= 5 THEN 1 ELSE n - 4
    <3> HIDE DEF n
    <3> QED
      BY <1>1 DEF Greatest, recentWindow
  <2> QED
    BY <2>1
<1>3. \A x \in H : x.cents \in Nat
  BY BeforeOrders, RecurringAssumption
<1> HIDE DEF s, n
<1>4. PICK m \in 1..4 :
         /\ t \in [1..m -> H]
         /\ \A i \in 1..m : \E j \in (IF n <= 5 THEN 1 ELSE n - 4)..n : t[i] = s[j]
  BY <1>1, LatestFour
<1>5. t \in [1..m -> H] /\ \A i \in 1..m : t[i] \in R
  BY <1>2, <1>4
<1> HIDE DEF t
<1>6. recent \in [1..m -> Nat]
  BY <1>3, <1>5
<1>7. \A i, j \in 1..m : recent[i] - recent[j] <= 50
  BY <1>5
<1> HIDE DEF recent
<1>8. Max(ToSet(recent)) - Min(ToSet(recent)) <= 50
  BY <1>6, <1>7, SpreadOf
<1> QED
  BY <1>8 DEF recent, t, s

\* What makes a subscription of monthly charges.
LEMMA Subscribed ==
    ASSUME NEW H, NEW s, s = Ordered(H), Len(s) >= minOccurrences,
           Gaps(H) # <<>>, Cadence(Middle(Gaps(H))) = "monthly", SameDate(H, 10),
           Gaps(ToSet(RecentTimes(s))) # <<>>, Regular(Gaps(ToSet(RecentTimes(s))), 35),
           NEW r, r = [i \in DOMAIN LastOf(s, recentWindow) |-> LastOf(s, recentWindow)[i].cents],
           Max(ToSet(r)) - Min(ToSet(r)) <= 50, Len(s) \in Nat
    PROVE  Classify(H).kind = "subscription"
<1> DEFINE gaps == Gaps(H)
           newest == Gaps(ToSet(RecentTimes(s)))
           lately == IF newest = <<>> THEN gaps ELSE newest
           cadence == IF gaps = <<>> THEN "unknown" ELSE Cadence(Middle(gaps))
           typical == Typical(r)
           spread == Max(ToSet(r)) - Min(ToSet(r))
           exact == spread <= 50
           near == typical > 0 /\ 200 * spread < 5 * typical
           dated == cadence \in {"monthly", "quarterly", "yearly"}
           steady == \/ exact /\ Regular(lately, 35) /\ (dated => SameDate(H, 10))
                     \/ near  /\ Regular(lately, 20) /\ (dated => SameDate(H, 4))
           kind == IF gaps = <<>> \/ Len(s) < minOccurrences THEN "none"
                   ELSE IF cadence # "unknown" /\ steady THEN "subscription"
                   ELSE IF exact \/ Regular(gaps, 55) THEN "recurring" ELSE "none"
<1>1. Classify(H).kind = kind
  BY DEF Classify
<1>2. exact /\ lately = newest /\ cadence = "monthly"
  OBVIOUS
<1>3. steady
  <2> HIDE DEF exact, near, lately, newest, cadence
  <2> QED
    BY <1>2 DEF newest
<1>4. cadence # "unknown" /\ ~(Len(s) < minOccurrences)
  BY <1>2 DEF minOccurrences
<1>5. gaps # <<>>
  OBVIOUS
<1>6. ~(gaps = <<>> \/ Len(s) < minOccurrences) /\ (cadence # "unknown" /\ steady)
  BY <1>3, <1>4, <1>5
<1> HIDE DEF gaps, cadence, steady, exact
<1> QED
  BY <1>1, <1>6, Zenon

\* A monthly bill is a subscription.
LEMMA SteadyBill ==
    ASSUME NEW H, OnFile(H), Cardinality(H) >= minOccurrences,
           NEW R, R = {Ordered(H)[i] : i \in Greatest(1, Cardinality(H) - recentWindow)..Cardinality(H)},
           Cardinality(H \ R) <= 1, Monthly(R, 2), SameDate(H, 8)
    PROVE  Classify(H).kind = "subscription"
<1> DEFINE s == Ordered(H)
           n == Cardinality(H)
           r == [i \in DOMAIN LastOf(s, recentWindow) |-> LastOf(s, recentWindow)[i].cents]
<1>1. n \in Nat /\ n >= 3 /\ s \in [1..n -> H]
  BY OrderedIsInOrder DEF minOccurrences
<1>2. Len(s) = n
  <2> HIDE DEF s, n
  <2> QED
    BY <1>1
<1>3. /\ R = ToSet(RecentTimes(s)) /\ OnFile(R) /\ R \subseteq H
      /\ R = H => n \in 3..5
      /\ R # H => n = 6 /\ Cardinality(R) = 5
      /\ R # H => s[1] \in H /\ R = H \ {s[1]}
      /\ R # H => \A x \in H : s[1].day <= x.day
  <2>1. Cardinality(H) >= 3
    BY <1>1
  <2> QED
    BY <2>1, LatestFive
<1>4. \E m \in 2..4 : /\ Gaps(R) \in [1..m -> Nat] /\ Len(Gaps(R)) = m
                      /\ \A i \in 1..m : Gaps(R)[i] \in 26..33
  <2>1. Cardinality(R) \in 3..5
    BY <1>3
  <2> QED
    BY <1>3, <2>1, MonthlyGaps
<1>5. \E m \in 1..5 : /\ Gaps(H) \in [1..m -> Nat] /\ Len(Gaps(H)) = m
                      /\ \/ \A i \in 1..m : Gaps(H)[i] \in 26..33
                         \/ m = 5 /\ \A i \in 2..m : Gaps(H)[i] \in 26..33
  <2>1. CASE R = H
    <3>1. PICK m \in 2..4 : /\ Gaps(R) \in [1..m -> Nat] /\ Len(Gaps(R)) = m
                            /\ \A i \in 1..m : Gaps(R)[i] \in 26..33
      BY <1>4
    <3>2. m \in 1..5
      OBVIOUS
    <3> QED
      BY <2>1, <3>1, <3>2
  <2>2. CASE R # H
    BY <1>3, <2>2, GapsWithOutlier
  <2> QED
    BY <2>1, <2>2
<1>6. Cadence(Middle(Gaps(H))) = "monthly"
  BY <1>5, MonthlyCadence
<1>7. Regular(Gaps(R), 35)
  BY <1>4, MonthsAreRegular
<1>8. Gaps(H) # <<>> /\ Gaps(R) # <<>>
  BY <1>4, <1>5
<1>9. SameDate(H, 10)
  <2>1. \A x \in H : DayOfMonth[x.day] \in 1..31
    BY BeforeOrders, RecurringAssumption
  <2> DEFINE D == {DayOfMonth[x.day] : x \in H}
  <2>2. PICK a \in D : \A d \in D : Apart(a, d) <= 8
    BY DEF SameDate
  <2>3. \A d \in D : Apart(a, d) \in Int
    <3>1. D \subseteq 1..31
      BY <2>1
    <3> HIDE DEF D
    <3> QED
      BY <3>1 DEF Apart
  <2>4. \A d \in D : Apart(a, d) <= 10
    BY <2>2, <2>3
  <2> QED
    BY <2>4 DEF SameDate
<1>10. Max(ToSet(r)) - Min(ToSet(r)) <= 50
  <2>1. \A x, y \in R : x.cents - y.cents <= 50
    BY <1>3, MonthlyDays
  <2> QED
    BY <1>1, <2>1, RecentAmounts
<1> HIDE DEF r
<1>11. r = [i \in DOMAIN LastOf(s, recentWindow) |-> LastOf(s, recentWindow)[i].cents]
  BY DEF r
<1>12. Len(s) \in Nat /\ Len(s) >= minOccurrences
  BY <1>1, <1>2
<1> HIDE DEF n
<1> QED
  BY <1>3, <1>6, <1>7, <1>8, <1>9, <1>10, <1>11, <1>12, Subscribed

\* A steady monthly bill is a subscription, whatever one charge was made before.
THEOREM SteadyBills == RecurringSpec => []SteadyBillIsSubscription
<1>1. ASSUME OnFile(charges) PROVE SteadyBillIsSubscription
  <2> DEFINE s == Ordered(charges)
             n == Cardinality(charges)
  <2>1. n \in Nat /\ s \in [1..n -> charges]
    BY <1>1, OrderedIsInOrder
  <2>2. Len(s) = n
    <3> HIDE DEF s, n
    <3> QED
      BY <2>1
  <2> QED
    BY <1>1, <2>2, SteadyBill DEF SteadyBillIsSubscription
<1>2. SeriesInv => OnFile(charges)
  BY DEF SeriesInv, HistoriesAreOrdered
<1> QED
  BY <1>1, <1>2, SeriesInvariant, PTL

=============================================================================
