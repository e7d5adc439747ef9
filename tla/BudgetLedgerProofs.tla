------------------------- MODULE BudgetLedgerProofs -------------------------
(***************************************************************************)
(* Proofs about BudgetLedger for any keys, workers, operations and         *)
(* thresholds that assertConfig accepts.                                   *)
(***************************************************************************)
EXTENDS BudgetLedger, FiniteSetTheorems, TLAPS

WorkerRows == [pc: Pcs, key: Keys]
Settled == {"committed", "reconciled"}

\* What is true of a key while a worker is at pc with it.
PcOK(pc, k) ==
  /\ pc = "case" => k \in CaseKeys /\ status[k] = "reserved" /\ k \notin overdue
  /\ pc \in {"work", "settle", "reconcile"} => k \in CallKeys /\ status[k] \in {"reserved", "expired"} \cup Settled
  /\ pc \in {"settle", "reconcile"} => k \in called

\* A case's reservation, which its commit does not look at again, is in the hands of one worker.
WorkerInv ==
  /\ \A w \in Workers : PcOK(worker[w].pc, worker[w].key)
  /\ \A w, v \in Workers :
       worker[w].pc = "case" /\ worker[v].pc = "case" /\ worker[w].key = worker[v].key => w = v

\* A provider call's reservation is settled together with its usage event, and only a reservation
\* that was made can be overdue.
RowInv ==
  /\ \A k \in CallKeys : status[k] \in Settled => k \in usage
  /\ \A k \in overdue : status[k] # "none"

IndInv ==
  /\ TypeOK /\ WorkerInv /\ RowInv
  /\ ExposureBelowLimit /\ HeadroomKept /\ CallsAreCharged

-----------------------------------------------------------------------------
(* Sums of estimates.                                                      *)

Ops == [Keys -> Operations]
Unit(ops, k) == {k} \X (1..ops[k].cost)
Units(ops, S) == UNION {Unit(ops, k) : k \in S}
Sum(ops, S) == Cardinality(Units(ops, S))

LEMMA UnitIsFinite ==
  ASSUME NEW ops \in Ops, NEW k \in Keys
  PROVE  IsFiniteSet(Unit(ops, k)) /\ Cardinality(Unit(ops, k)) = ops[k].cost /\ ops[k].cost \in Nat
<1>1. PICK n \in Nat : n = ops[k].cost
  BY BudgetOperations DEF Ops
<1>2. IsFiniteSet({k}) /\ Cardinality({k}) = 1
  BY FS_Singleton
<1>3. IsFiniteSet(1..n) /\ Cardinality(1..n) = n
  BY FS_Interval
<1>4. IsFiniteSet({k} \X (1..n)) /\ Cardinality({k} \X (1..n)) = Cardinality({k}) * Cardinality(1..n)
  BY <1>2, <1>3, FS_Product
<1>5. Unit(ops, k) = {k} \X (1..n)
  BY <1>1 DEF Unit
<1> QED
  BY <1>1, <1>2, <1>3, <1>4, <1>5

LEMMA UnitsAreFinite ==
  ASSUME NEW ops \in Ops, NEW S \in SUBSET Keys
  PROVE  IsFiniteSet(Units(ops, S)) /\ Sum(ops, S) \in Nat
<1> DEFINE unit == [k \in S |-> Unit(ops, k)]
           parts == {Unit(ops, k) : k \in S}
<1>1. IsFiniteSet(S)
  BY BudgetKeys, FS_Subset
<1>2. unit \in Surjection(S, parts)
  BY DEF Surjection
<1>3. IsFiniteSet(parts)
  BY <1>1, <1>2, FS_Surjection
<1>4. \A T \in parts : IsFiniteSet(T)
  BY UnitIsFinite
<1>5. IsFiniteSet(UNION parts)
  BY <1>3, <1>4, FS_UNION
<1> QED
  BY <1>5, FS_CardinalityType DEF Units, Sum

\* The sum depends on the operations of the keys in it only.
LEMMA SameSum ==
  ASSUME NEW ops, NEW ops2, NEW S, \A k \in S : ops[k] = ops2[k]
  PROVE  Sum(ops, S) = Sum(ops2, S)
<1>1. \A k \in S : Unit(ops, k) = Unit(ops2, k)
  BY DEF Unit
<1>2. Units(ops, S) = Units(ops2, S)
  BY <1>1 DEF Units
<1> QED
  BY <1>2 DEF Sum

LEMMA SmallerSum ==
  ASSUME NEW ops \in Ops, NEW S \in SUBSET Keys, NEW T \in SUBSET S
  PROVE  Sum(ops, T) <= Sum(ops, S)
<1>1. Units(ops, T) \subseteq Units(ops, S)
  BY DEF Units
<1> QED
  BY <1>1, UnitsAreFinite, FS_Subset DEF Sum

LEMMA LargerSum ==
  ASSUME NEW ops \in Ops, NEW S \in SUBSET Keys, NEW k \in Keys
  PROVE  Sum(ops, S \cup {k}) <= Sum(ops, S) + ops[k].cost
<1> DEFINE A == Units(ops, S)  B == Unit(ops, k)
<1>1. Units(ops, S \cup {k}) = A \cup B
  BY DEF Units
<1>2. IsFiniteSet(A) /\ IsFiniteSet(B) /\ Cardinality(B) = ops[k].cost
  BY UnitsAreFinite, UnitIsFinite
<1> HIDE DEF A, B
<1>3. Cardinality(A \cup B) = Cardinality(A) + Cardinality(B) - Cardinality(A \cap B)
  BY <1>2, FS_Union
<1>4. Cardinality(A) \in Nat /\ Cardinality(B) \in Nat /\ Cardinality(A \cap B) \in Nat
  BY <1>2, FS_Intersection, FS_CardinalityType
<1>5. Sum(ops, S) = Cardinality(A) /\ Sum(ops, S \cup {k}) = Cardinality(A \cup B)
  BY <1>1 DEF Sum, A
<1> QED
  BY <1>2, <1>3, <1>4, <1>5

\* The ledger's sum in these terms.
LEMMA CostIsSum ==
  /\ \A S : Cost(S) = Sum(op, S)
  /\ \A S, n : Below(S, n) <=> (S # {} => Sum(op, S) < n)
  BY DEF Cost, Sum, Units, Unit, Below

\* The thresholds, for any operations of the keys and any exposure.
Part(ops, E, part) ==
  CASE part = "all" -> E
    [] part = "optional" -> {k \in E : ops[k].class # "essential"}
    [] part = "experiment" -> {k \in E : ops[k].class = "experiment"}
    [] part = "scan" -> {k \in E : ops[k].scan = "scan"}
    [] part = "case" -> E \cap CaseKeys
Threshold(part) ==
  CASE part = "all" -> Limit
    [] part = "optional" -> OptionalAnalysis
    [] part = "experiment" -> Warning
    [] part = "scan" -> DeepScanStop
    [] part = "case" -> CaseLimit
Parts == {"all", "optional", "experiment", "scan", "case"}
Within(ops, E) == \A part \in Parts : Part(ops, E, part) # {} => Sum(ops, Part(ops, E, part)) < Threshold(part)

LEMMA WithinThresholds ==
  /\ ExposureBelowLimit /\ HeadroomKept <=> Within(op, Exposure)
  /\ (ExposureBelowLimit /\ HeadroomKept)' <=> Within(op', Exposure')
<1> USE DEF Within, Parts, Part, Threshold, ExposureBelowLimit, HeadroomKept
<1>2. ExposureBelowLimit /\ HeadroomKept <=> Within(op, Exposure)
  BY CostIsSum
<1>3. (ExposureBelowLimit /\ HeadroomKept)' <=> Within(op', Exposure')
  BY DEF Below, Cost, Sum, Units, Unit
<1> QED
  BY <1>2, <1>3

\* Nothing new is exposed: every threshold is still kept.
LEMMA Shrinks ==
  ASSUME NEW ops \in Ops, NEW ops2 \in Ops, NEW E \in SUBSET Keys, NEW F \in SUBSET E,
         \A k \in F : ops2[k] = ops[k], Within(ops, E)
  PROVE  Within(ops2, F)
<1> SUFFICES ASSUME NEW part \in Parts, Part(ops2, F, part) # {}
             PROVE  Sum(ops2, Part(ops2, F, part)) < Threshold(part)
  BY DEF Within
<1>1. PICK G : G = Part(ops2, F, part)
  OBVIOUS
<1>2. PICK H : H = Part(ops, E, part)
  OBVIOUS
<1>3. G \subseteq H /\ G # {} /\ G \subseteq F /\ H \subseteq Keys
  BY <1>1, <1>2 DEF Part, Parts
<1>4. Sum(ops2, G) = Sum(ops, G)
  BY <1>3, SameSum
<1>5. Sum(ops, G) <= Sum(ops, H) /\ Sum(ops, H) \in Nat /\ Sum(ops, G) \in Nat
  BY <1>3, SmallerSum, UnitsAreFinite
<1>6. Sum(ops, H) < Threshold(part)
  BY <1>2, <1>3 DEF Within
<1>7. Threshold(part) \in Nat
  BY BudgetConfig DEF Threshold, Parts
<1> QED
  BY <1>1, <1>4, <1>5, <1>6, <1>7

\* A key is admitted with o: what it adds is at most o's estimate.
LEMMA SumGrows ==
  ASSUME NEW ops \in Ops, NEW o \in Operations, NEW k \in Keys, NEW E \in SUBSET Keys, k \notin E,
         NEW ops2 \in Ops, ops2 = [ops EXCEPT ![k] = o], NEW G \in SUBSET (E \cup {k})
  PROVE  Sum(ops2, G) <= Sum(ops, E) + o.cost /\ Sum(ops2, G) \in Nat /\ Sum(ops, E) \in Nat /\ o.cost \in Nat
<1>1. ops2[k] = o /\ \A j \in E : ops2[j] = ops[j]
  BY DEF Ops
<1>2. Sum(ops2, E) = Sum(ops, E)
  <2>1. ASSUME NEW f, \A j \in E : f[j] = ops[j] PROVE Sum(f, E) = Sum(ops, E)
    BY <2>1, SameSum
  <2> QED
    BY <1>1, <2>1
<1>3. Sum(ops2, E \cup {k}) <= Sum(ops2, E) + o.cost
  BY <1>1, LargerSum
<1>4. Sum(ops2, G) <= Sum(ops2, E \cup {k})
  BY SmallerSum
<1>5. Sum(ops2, G) \in Nat /\ Sum(ops2, E \cup {k}) \in Nat /\ Sum(ops, E) \in Nat
  BY UnitsAreFinite
<1>6. o.cost \in Nat
  BY <1>1, UnitIsFinite
<1> QED
  BY <1>2, <1>3, <1>4, <1>5, <1>6

LEMMA Grows ==
  ASSUME NEW ops \in Ops, NEW o \in Operations, NEW k \in Keys, NEW E \in SUBSET Keys, k \notin E,
         NEW ops2 \in Ops, ops2 = [ops EXCEPT ![k] = o], NEW F \in SUBSET (E \cup {k}),
         Within(ops, E), Admitted(o, Sum(ops, E) + o.cost),
         k \in CaseKeys => Sum(ops, E \cap CaseKeys) + o.cost < CaseLimit
  PROVE  Within(ops2, F)
<1> SUFFICES ASSUME NEW part \in Parts, Part(ops2, F, part) # {}
             PROVE  Sum(ops2, Part(ops2, F, part)) < Threshold(part)
  BY DEF Within
<1>1. PICK G : G = Part(ops2, F, part)
  OBVIOUS
<1>2. ops2[k] = o /\ \A j \in E : ops2[j] = ops[j]
  BY DEF Ops
<1>3. G \subseteq F
  BY <1>1 DEF Part, Parts
<1>4. CASE k \notin G
  <2>1. G \subseteq E /\ \A j \in G : ops2[j] = ops[j]
    BY <1>2, <1>3, <1>4
  <2>2. Within(ops2, G)
    BY <2>1, Shrinks
  <2>3. Part(ops2, G, part) = G
    BY <1>1 DEF Part, Parts
  <2> QED
    BY <1>1, <2>2, <2>3 DEF Within
<1>5. CASE k \in G
  <2>1. Sum(ops2, G) <= Sum(ops, E) + o.cost /\ Sum(ops2, G) \in Nat /\ Sum(ops, E) \in Nat /\ o.cost \in Nat
    BY <1>3, SumGrows
  <2>2. part # "case" => Sum(ops, E) + o.cost < Threshold(part)
    BY <1>1, <1>2, <1>5 DEF Admitted, Part, Parts, Threshold
  <2>3. CASE part # "case"
    <3>1. Threshold(part) \in Nat
      BY BudgetConfig DEF Threshold, Parts
    <3> QED
      BY <1>1, <2>1, <2>2, <2>3, <3>1
  <2>4. CASE part = "case"
    <3>1. G \subseteq (E \cap CaseKeys) \cup {k} /\ k \in CaseKeys /\ Threshold(part) = CaseLimit
      BY <1>1, <1>3, <1>5, <2>4 DEF Part, Threshold
    <3>2. E \cap CaseKeys \in SUBSET Keys /\ k \notin E \cap CaseKeys
      OBVIOUS
    <3>3. Sum(ops2, G) <= Sum(ops, E \cap CaseKeys) + o.cost /\ Sum(ops, E \cap CaseKeys) \in Nat
      BY <3>1, <3>2, SumGrows
    <3>4. CaseLimit \in Nat
      BY BudgetConfig
    <3> QED
      BY <1>1, <2>1, <3>1, <3>3, <3>4
  <2> QED
    BY <2>3, <2>4
<1> QED
  BY <1>4, <1>5

LEMMA ExposureType ==
  ASSUME TypeOK
  PROVE  /\ Exposure \in SUBSET Keys /\ usage \cup Held \in SUBSET Keys /\ op \in Ops
         /\ usage \cup Held = Exposure \ Lapsed
  BY DEF TypeOK, Exposure, Held, Lapsed, Ops, Keys

LEMMA KeepsBudget ==
  ASSUME TypeOK, ExposureBelowLimit, HeadroomKept, op' = op, Exposure' \subseteq Exposure
  PROVE  ExposureBelowLimit' /\ HeadroomKept'
<1>1. Within(op, Exposure) /\ Exposure \in SUBSET Keys /\ op \in Ops
  BY WithinThresholds, ExposureType
<1>2. \A f \in Ops, F \in SUBSET Exposure : f = op => Within(f, F)
  BY <1>1, Shrinks
<1>3. Within(op', Exposure')
  BY <1>1, <1>2
<1> QED
  BY <1>3, WithinThresholds

-----------------------------------------------------------------------------
(* Steps that only move a worker.                                          *)

LEMMA WorkerType ==
  /\ IdleWorker \in WorkerRows /\ IdleWorker.pc = "idle" /\ IdleWorker.key \in Keys
  /\ TypeOK => \A w \in Workers : worker[w] \in WorkerRows /\ worker[w].pc \in Pcs /\ worker[w].key \in Keys
<1>1. (CHOOSE k \in Keys : TRUE) \in Keys
  BY BudgetKeys
<1> QED
  BY <1>1 DEF IdleWorker, WorkerRows, Pcs, TypeOK

\* Worker w is at p with key k afterwards, and the others where they were.
Moved(w, p, k) ==
  /\ worker' \in [Workers -> WorkerRows]
  /\ worker'[w].pc = p /\ worker'[w].key = k
  /\ \A v \in Workers : v # w => worker'[v] = worker[v]

LEMMA WorkerMoves ==
  ASSUME TypeOK, NEW w \in Workers
  PROVE  /\ \A p \in Pcs : Go(w, p) => Moved(w, p, worker[w].key)
         /\ Finish(w) => \E k \in Keys : Moved(w, "idle", k)
         /\ \A p \in Pcs, k \in Keys :
              worker' = [worker EXCEPT ![w] = [pc |-> p, key |-> k]] => Moved(w, p, k)
<1>1. worker \in [Workers -> WorkerRows] /\ worker[w] \in WorkerRows
  BY DEF TypeOK, WorkerRows
<1>2. ASSUME NEW p \in Pcs, NEW k \in Keys, worker' = [worker EXCEPT ![w] = [pc |-> p, key |-> k]]
      PROVE  Moved(w, p, k)
  <2>1. [pc |-> p, key |-> k] \in WorkerRows
    BY DEF WorkerRows
  <2> QED
    BY <1>1, <1>2, <2>1 DEF Moved
<1>3. ASSUME NEW p \in Pcs, Go(w, p)
      PROVE  Moved(w, p, worker[w].key)
  <2>1. [worker[w] EXCEPT !.pc = p] = [pc |-> p, key |-> worker[w].key] /\ worker[w].key \in Keys
    BY <1>1 DEF WorkerRows
  <2>2. worker' = [worker EXCEPT ![w] = [worker[w] EXCEPT !.pc = p]]
    BY <1>3 DEF Go
  <2>3. worker' = [worker EXCEPT ![w] = [pc |-> p, key |-> worker[w].key]]
    BY <2>1, <2>2
  <2> QED
    BY <1>2, <2>1, <2>3
<1>4. ASSUME Finish(w) PROVE \E k \in Keys : Moved(w, "idle", k)
  <2>1. "idle" \in Pcs /\ IdleWorker = [pc |-> "idle", key |-> IdleWorker.key] /\ IdleWorker.key \in Keys
    BY WorkerType DEF Pcs, IdleWorker
  <2> QED
    BY <1>2, <1>4, <2>1 DEF Finish
<1> QED
  BY <1>2, <1>3, <1>4

\* The ledger stays, a worker moves and at most its own key is called or lost.
LEMMA PlainStep ==
  ASSUME IndInv, NEW w \in Workers, NEW p \in Pcs, NEW k \in Keys, Moved(w, p, k), p # "case",
         UNCHANGED <<status, op, overdue, usage>>, called \subseteq called', called' \subseteq CallKeys,
         lost \subseteq lost', lost' \subseteq called', PcOK(p, k)', CallsAreCharged'
  PROVE  IndInv'
<1> USE DEF IndInv
<1>1. TypeOK'
  BY DEF TypeOK, Moved, WorkerRows
<1>2. WorkerInv'
  <2>1. ASSUME NEW v \in Workers PROVE PcOK(worker[v].pc, worker[v].key)'
    <3>1. CASE v = w
      <4>1. PcOK(p, k)' <=> PcOK(worker[w].pc, worker[w].key)'
        BY DEF Moved, PcOK
      <4> QED
        BY <3>1, <4>1
    <3>2. CASE v # w
      BY <3>2 DEF Moved, WorkerInv, PcOK
    <3> QED
      BY <3>1, <3>2
  <2> QED
    BY <2>1 DEF WorkerInv, Moved
<1>3. RowInv' /\ Exposure' = Exposure
  BY DEF RowInv, Exposure
<1> QED
  BY <1>1, <1>2, <1>3, KeepsBudget

LEMMA ReserveAgainStep ==
  ASSUME IndInv, NEW w \in Workers, NEW k \in Keys, ReserveAgain(w, k)
  PROVE  IndInv'
<1> USE DEF IndInv
<1>0. UNCHANGED <<status, op, overdue, usage, called, lost>> /\ status[k] = "reserved" /\ k \in CallKeys /\ At(w, "idle")
  BY DEF ReserveAgain
<1>1. Moved(w, "work", k) /\ "work" \in Pcs
  BY WorkerMoves DEF ReserveAgain, Pcs
<1>2. PcOK("work", k)'
  BY <1>0 DEF PcOK, Settled
<1>3. CallsAreCharged'
  BY <1>0, <1>1 DEF CallsAreCharged, Moved, At
<1> QED
  BY <1>0, <1>1, <1>2, <1>3, PlainStep DEF TypeOK

LEMMA CallProviderStep ==
  ASSUME IndInv, NEW w \in Workers, CallProvider(w)
  PROVE  IndInv'
<1> USE DEF IndInv
<1>0. PICK k \in Keys : k = worker[w].key
  BY WorkerType
<1>1. UNCHANGED <<status, op, overdue, usage, lost>> /\ called' = called \cup {k} /\ At(w, "work")
  BY <1>0 DEF CallProvider
<1>2. PICK p \in {"settle", "reconcile"} : Go(w, p)
  BY DEF CallProvider
<1>3. Moved(w, p, k) /\ p \in Pcs
  BY <1>0, <1>2, WorkerMoves DEF Pcs
<1>4. k \in CallKeys /\ status[k] \in {"reserved", "expired"} \cup Settled
  BY <1>0, <1>1 DEF WorkerInv, PcOK, At
<1>5. PcOK(p, k)'
  BY <1>1, <1>4 DEF PcOK
<1>6. CallsAreCharged'
  BY <1>1, <1>3 DEF CallsAreCharged, Moved, At
<1>7. called' \subseteq CallKeys /\ lost' \subseteq called'
  BY <1>1, <1>4 DEF TypeOK
<1> QED
  BY <1>1, <1>3, <1>5, <1>6, <1>7, PlainStep

LEMMA SettleFailsStep ==
  ASSUME IndInv, NEW w \in Workers, SettleFails(w)
  PROVE  IndInv'
<1> USE DEF IndInv
<1>0. PICK k \in Keys : k = worker[w].key
  BY WorkerType
<1>1. UNCHANGED <<status, op, overdue, usage, called, lost>> /\ At(w, "settle")
  BY DEF SettleFails
<1>2. Moved(w, "reconcile", k) /\ "reconcile" \in Pcs
  BY <1>0, WorkerMoves DEF SettleFails, Pcs
<1>3. PcOK("reconcile", k)'
  BY <1>0, <1>1 DEF WorkerInv, PcOK, At
<1>4. CallsAreCharged'
  BY <1>0, <1>1, <1>2 DEF CallsAreCharged, Moved, At
<1> QED
  BY <1>1, <1>2, <1>3, <1>4, PlainStep DEF TypeOK

LEMMA ReconcileRefusedStep ==
  ASSUME IndInv, NEW w \in Workers, ReconcileRefused(w)
  PROVE  IndInv'
<1> USE DEF IndInv
<1>0. PICK k \in Keys : k = worker[w].key
  BY WorkerType
<1>1. UNCHANGED <<status, op, overdue, usage, called, lost>> /\ At(w, "reconcile")
  BY DEF ReconcileRefused
<1>2. PICK j \in Keys : Moved(w, "idle", j)
  BY WorkerMoves DEF ReconcileRefused
<1>3. status[k] = "expired"
  BY <1>0 DEF ReconcileRefused, WorkerInv, PcOK, At, Settled
<1>4. CallsAreCharged'
  BY <1>0, <1>1, <1>2, <1>3 DEF CallsAreCharged, Moved
<1>5. PcOK("idle", j)' /\ "idle" \in Pcs
  BY DEF PcOK, Pcs
<1> QED
  BY <1>1, <1>2, <1>4, <1>5, PlainStep DEF TypeOK

LEMMA WorkerDiesStep ==
  ASSUME IndInv, NEW w \in Workers, WorkerDies(w)
  PROVE  IndInv'
<1> USE DEF IndInv
<1>0. PICK k \in Keys : k = worker[w].key
  BY WorkerType
<1>1. /\ UNCHANGED <<status, op, overdue, usage, called>>
      /\ lost' = IF k \in called THEN lost \cup {k} ELSE lost
  BY <1>0 DEF WorkerDies
<1>2. PICK j \in Keys : Moved(w, "idle", j)
  BY WorkerMoves DEF WorkerDies
<1>3. CallsAreCharged'
  BY <1>0, <1>1, <1>2 DEF CallsAreCharged, Moved
<1>4. PcOK("idle", j)' /\ "idle" \in Pcs
  BY DEF PcOK, Pcs
<1> QED
  BY <1>1, <1>2, <1>3, <1>4, PlainStep DEF TypeOK

-----------------------------------------------------------------------------
(* Steps on reservations.                                                  *)

\* Settle and Reconcile: a reserved row is settled with its usage event, a settled one has it.
LEMMA PriceStep ==
  ASSUME IndInv, NEW w \in Workers, Settle(w) \/ Reconcile(w)
  PROVE  IndInv'
<1> USE DEF IndInv
<1>0. PICK k \in Keys : k = worker[w].key
  BY WorkerType
<1>1. PICK final \in Settled : Price(k, final)
  BY <1>0 DEF Settle, Reconcile, Settled
<1>2. UNCHANGED <<op, overdue, called, lost>> /\ worker[w].pc \in {"settle", "reconcile"}
  BY DEF Settle, Reconcile, At
<1>3. PICK j \in Keys : Moved(w, "idle", j)
  BY WorkerMoves DEF Settle, Reconcile
<1>4. k \in CallKeys /\ k \in called /\ k \notin CaseKeys
  BY <1>0, <1>2, BudgetKeys DEF WorkerInv, PcOK
<1>5. /\ status' \in [Keys -> Statuses]
      /\ \A i \in Keys : i # k => status'[i] = status[i]
      /\ status'[k] \in Settled /\ status[k] \in {"reserved"} \cup Settled
  BY <1>1 DEF Price, TypeOK, Settled, Statuses
<1>6. usage' = usage \cup {k}
  BY <1>1, <1>4 DEF Price, RowInv, Settled
<1>7. TypeOK'
  <2>1. usage' \subseteq {i \in CallKeys : status'[i] \in Settled}
    BY <1>4, <1>5, <1>6 DEF TypeOK, Settled, Keys
  <2> QED
    BY <1>2, <1>3, <1>5, <2>1 DEF TypeOK, Moved, WorkerRows, Settled
<1>8. WorkerInv'
  <2>1. ASSUME NEW v \in Workers PROVE PcOK(worker[v].pc, worker[v].key)'
    <3>1. CASE v = w
      BY <1>3, <3>1 DEF Moved, PcOK
    <3>2. CASE v # w
      <4>1. worker'[v] = worker[v] /\ PcOK(worker[v].pc, worker[v].key) /\ worker[v].key \in Keys
        BY <1>3, <3>2, WorkerType DEF Moved, WorkerInv
      <4>2. CASE worker[v].key = k
        BY <1>2, <1>4, <1>5, <4>1, <4>2 DEF PcOK
      <4>3. CASE worker[v].key # k
        BY <1>2, <1>5, <4>1, <4>3 DEF PcOK
      <4> QED
        BY <4>2, <4>3
    <3> QED
      BY <3>1, <3>2
  <2> QED
    BY <1>3, <2>1 DEF WorkerInv, Moved
<1>9. RowInv'
  BY <1>2, <1>5, <1>6 DEF RowInv, Keys, Settled, TypeOK
<1>10. Exposure' \subseteq Exposure
  BY <1>5, <1>6 DEF Exposure, Settled
<1>11. CallsAreCharged'
  <2>1. ASSUME NEW i \in called, i # k
        PROVE  \/ i \in usage' \/ i \in lost' \/ status'[i] = "expired"
               \/ \E v \in Workers : worker'[v].pc \in {"settle", "reconcile"} /\ worker'[v].key = i
    <3>1. \/ i \in usage \/ i \in lost \/ status[i] = "expired"
          \/ \E v \in Workers : worker[v].pc \in {"settle", "reconcile"} /\ worker[v].key = i
      BY DEF CallsAreCharged
    <3> QED
      BY <1>0, <1>2, <1>3, <1>5, <1>6, <2>1, <3>1 DEF Moved, TypeOK, Keys
  <2> QED
    BY <1>2, <1>6, <2>1 DEF CallsAreCharged
<1> QED
  BY <1>2, <1>7, <1>8, <1>9, <1>10, <1>11, KeepsBudget

\* CommitCase and ReleaseCase: the reservation is live and nobody else's.
LEMMA CaseStep ==
  ASSUME IndInv, NEW w \in Workers, CommitCase(w) \/ ReleaseCase(w)
  PROVE  IndInv'
<1> USE DEF IndInv
<1>0. PICK k \in Keys : k = worker[w].key
  BY WorkerType
<1>1. UNCHANGED <<op, overdue, usage, called, lost>> /\ worker[w].pc = "case"
  BY DEF CommitCase, ReleaseCase, At
<1>2. k \in CaseKeys /\ k \notin CallKeys /\ status[k] = "reserved"
  BY <1>0, <1>1, BudgetKeys DEF WorkerInv, PcOK
<1>3. /\ status' \in [Keys -> Statuses]
      /\ \A i \in Keys : i # k => status'[i] = status[i]
      /\ status'[k] \in {"committed", "released"}
  BY <1>0, <1>2 DEF CommitCase, ReleaseCase, TypeOK, Statuses
<1>4. PICK j \in Keys : Moved(w, "idle", j)
  BY WorkerMoves DEF CommitCase, ReleaseCase
<1>5. TypeOK'
  BY <1>1, <1>2, <1>3, <1>4 DEF TypeOK, Moved, WorkerRows, Keys
<1>6. WorkerInv'
  <2>1. ASSUME NEW v \in Workers PROVE PcOK(worker[v].pc, worker[v].key)'
    <3>1. CASE v = w
      BY <1>4, <3>1 DEF Moved, PcOK
    <3>2. CASE v # w
      <4>1. worker'[v] = worker[v] /\ PcOK(worker[v].pc, worker[v].key) /\ worker[v].key \in Keys
        BY <1>4, <3>2, WorkerType DEF Moved, WorkerInv
      <4>2. CASE worker[v].key = k
        BY <1>0, <1>1, <1>2, <3>2, <4>1, <4>2 DEF PcOK, WorkerInv
      <4>3. CASE worker[v].key # k
        BY <1>1, <1>3, <4>1, <4>3 DEF PcOK
      <4> QED
        BY <4>2, <4>3
    <3> QED
      BY <3>1, <3>2
  <2> QED
    BY <1>4, <2>1 DEF WorkerInv, Moved
<1>7. RowInv'
  BY <1>1, <1>2, <1>3 DEF RowInv, Keys, TypeOK
<1>8. Exposure' \subseteq Exposure
  BY <1>1, <1>2, <1>3 DEF Exposure
<1>9. CallsAreCharged'
  BY <1>1, <1>2, <1>3, <1>4 DEF CallsAreCharged, Moved, TypeOK, Keys
<1> QED
  BY <1>1, <1>5, <1>6, <1>7, <1>8, <1>9, KeepsBudget

LEMMA PassExpiryStep ==
  ASSUME IndInv, NEW k \in Keys, PassExpiry(k)
  PROVE  IndInv'
<1> USE DEF IndInv
<1>0. /\ UNCHANGED <<status, op, usage, worker, called, lost>> /\ overdue' = overdue \cup {k}
      /\ \A w \in Workers : ~(worker[w].pc = "case" /\ worker[w].key = k)
  BY DEF PassExpiry, At
<1>1. TypeOK'
  BY <1>0 DEF TypeOK
<1>2. WorkerInv'
  BY <1>0 DEF WorkerInv, PcOK
<1>3. RowInv' /\ CallsAreCharged' /\ Exposure' = Exposure
  BY <1>0 DEF PassExpiry, RowInv, CallsAreCharged, Exposure
<1> QED
  BY <1>0, <1>1, <1>2, <1>3, KeepsBudget

\* What the expiry of lapsed reservations, in a sweep or before an admission, keeps.
LEMMA ExpiryKeeps ==
  ASSUME TypeOK, WorkerInv, NEW k \in Keys, k \in Lapsed
  PROVE  /\ status[k] = "reserved" /\ k \notin usage
         /\ \A w \in Workers : worker[w].pc = "case" => worker[w].key # k
  BY DEF Lapsed, TypeOK, WorkerInv, PcOK

LEMMA ExpireReservationsStep ==
  ASSUME IndInv, ExpireReservations
  PROVE  IndInv'
<1> USE DEF IndInv
<1>0. UNCHANGED <<op, overdue, usage, worker, called, lost>>
  BY DEF ExpireReservations
<1>1. /\ status' \in [Keys -> Statuses]
      /\ \A k \in Keys : status'[k] = IF k \in Lapsed THEN "expired" ELSE status[k]
  BY DEF ExpireReservations, TypeOK, Statuses
<1>2. TypeOK'
  BY <1>0, <1>1, ExpiryKeeps DEF TypeOK, Keys
<1>3. WorkerInv'
  <2>1. ASSUME NEW v \in Workers PROVE PcOK(worker[v].pc, worker[v].key)'
    <3>1. worker'[v] = worker[v] /\ PcOK(worker[v].pc, worker[v].key) /\ worker[v].key \in Keys
      BY <1>0, WorkerType DEF WorkerInv
    <3>2. CASE worker[v].key \in Lapsed
      BY <1>0, <1>1, <3>1, <3>2, ExpiryKeeps DEF PcOK
    <3>3. CASE worker[v].key \notin Lapsed
      BY <1>0, <1>1, <3>1, <3>3 DEF PcOK
    <3> QED
      BY <3>2, <3>3
  <2> QED
    BY <1>0, <2>1 DEF WorkerInv
<1>4. RowInv'
  BY <1>0, <1>1 DEF RowInv, Settled, Keys, TypeOK
<1>5. Exposure' \subseteq Exposure
  BY <1>0, <1>1 DEF Exposure
<1>6. CallsAreCharged'
  BY <1>0, <1>1 DEF CallsAreCharged, TypeOK, Keys
<1> QED
  BY <1>0, <1>2, <1>3, <1>4, <1>5, <1>6, KeepsBudget

-----------------------------------------------------------------------------
(* Admission.                                                              *)

\* An admitted key is added to what was counted against the thresholds, and what was not counted
\* has just expired.
LEMMA ReserveStep ==
  ASSUME IndInv, NEW w \in Workers, NEW k \in Keys, NEW o \in Operations, NEW killed \in BOOLEAN,
         Reserve(w, k, o, killed)
  PROVE  IndInv'
<1> USE DEF IndInv
<1> DEFINE ok == ~killed /\ Admitted(o, Cost(usage \cup Held) + o.cost) /\ InScope(k, o)
<1>0. UNCHANGED <<overdue, usage, called, lost>> /\ worker[w].pc = "idle" /\ status[k] = "none"
  BY DEF Reserve, At
<1>1. /\ status' \in [Keys -> Statuses]
      /\ status'[k] = IF ok THEN "reserved" ELSE "rejected"
      /\ \A j \in Keys : j # k => status'[j] = IF j \in Lapsed THEN "expired" ELSE status[j]
  BY DEF Reserve, TypeOK, Statuses
<1>2. /\ op' = IF ok THEN [op EXCEPT ![k] = o] ELSE op
      /\ op \in Ops /\ op' \in Ops
  BY DEF Reserve, TypeOK, Ops
<1>3. /\ ok => Moved(w, NextPc(k), k)
      /\ ~ok => worker' = worker
  BY WorkerMoves DEF Reserve, NextPc, Pcs
<1>4. NextPc(k) \in {"case", "work"} /\ (NextPc(k) = "case" <=> k \in CaseKeys)
  BY DEF NextPc
<1> HIDE DEF ok
<1>5. \A v \in Workers : worker[v].pc # "idle" => worker[v].key # k
  BY <1>0, WorkerType DEF WorkerInv, PcOK, Settled, Pcs
<1>6. k \notin usage /\ k \notin Lapsed /\ k \notin overdue
  BY <1>0 DEF TypeOK, RowInv, Lapsed
<1>7. TypeOK'
  <2>1. worker' \in [Workers -> WorkerRows]
    BY <1>3 DEF Moved, TypeOK, WorkerRows
  <2>2. usage' \subseteq {i \in CallKeys : status'[i] \in {"committed", "reconciled"}}
    BY <1>0, <1>1, <1>6 DEF TypeOK, Lapsed, Keys
  <2> QED
    BY <1>0, <1>1, <1>2, <2>1, <2>2 DEF TypeOK, Ops, WorkerRows
<1>8. \A v \in Workers : worker[v].pc # "idle" => PcOK(worker[v].pc, worker[v].key)' \/ worker'[v] # worker[v]
  <2>1. ASSUME NEW v \in Workers, worker[v].pc # "idle", worker'[v] = worker[v]
        PROVE  PcOK(worker[v].pc, worker[v].key)'
    <3>1. PcOK(worker[v].pc, worker[v].key) /\ worker[v].key \in Keys /\ worker[v].key # k
      BY <1>5, <2>1, WorkerType DEF WorkerInv
    <3>2. CASE worker[v].key \in Lapsed
      BY <1>0, <1>1, <2>1, <3>1, <3>2, ExpiryKeeps DEF PcOK
    <3>3. CASE worker[v].key \notin Lapsed
      BY <1>0, <1>1, <2>1, <3>1, <3>3 DEF PcOK
    <3> QED
      BY <3>2, <3>3
  <2> QED
    BY <2>1
<1>9. WorkerInv'
  <2>1. ASSUME NEW v \in Workers, worker[v].pc = "idle", worker'[v] = worker[v]
        PROVE  PcOK(worker[v].pc, worker[v].key)'
    BY <2>1 DEF PcOK
  <2>2. CASE ~ok
    BY <1>3, <1>8, <2>1, <2>2 DEF WorkerInv
  <2>3. CASE ok
    <3>1. PcOK(worker[w].pc, worker[w].key)'
      BY <1>0, <1>1, <1>3, <1>4, <1>6, <2>3 DEF PcOK, Moved, Keys
    <3>2. \A v \in Workers : v # w => worker'[v] = worker[v]
      BY <1>3, <2>3 DEF Moved
    <3>3. \A v, u \in Workers :
            worker'[v].pc = "case" /\ worker'[u].pc = "case" /\ worker'[v].key = worker'[u].key => v = u
      BY <1>3, <1>5, <2>3 DEF WorkerInv, Moved
    <3> QED
      BY <1>8, <2>1, <3>1, <3>2, <3>3 DEF WorkerInv
  <2> QED
    BY <2>2, <2>3
<1>10. RowInv'
  BY <1>0, <1>1, <1>6 DEF RowInv, Settled, Keys, TypeOK
<1>11. CallsAreCharged'
  <2>1. ASSUME NEW j \in called
        PROVE  \/ j \in usage' \/ j \in lost' \/ status'[j] = "expired"
               \/ \E v \in Workers : worker'[v].pc \in {"settle", "reconcile"} /\ worker'[v].key = j
    <3>1. CASE status[j] = "expired"
      BY <1>0, <1>1, <3>1 DEF TypeOK, Keys
    <3>2. CASE \E v \in Workers : worker[v].pc \in {"settle", "reconcile"} /\ worker[v].key = j
      BY <1>0, <1>3, <3>2 DEF Moved
    <3> QED
      BY <1>0, <3>1, <3>2 DEF CallsAreCharged
  <2> QED
    BY <1>0, <2>1 DEF CallsAreCharged
<1>12. ExposureBelowLimit' /\ HeadroomKept'
  <2>1. CASE ~ok
    <3>1. Exposure' \subseteq Exposure
      BY <1>0, <1>1, <2>1 DEF Exposure
    <3> QED
      BY <1>2, <2>1, <3>1, KeepsBudget
  <2>2. CASE ok
    <3>1. PICK E \in SUBSET Keys : E = usage \cup Held /\ E \subseteq Exposure
      BY ExposureType
    <3>2. Exposure' \subseteq E \cup {k} /\ k \notin E
      BY <1>0, <1>1, <1>6, <3>1, ExposureType DEF Exposure, Held
    <3>3. Within(op, E)
      <4>1. Within(op, Exposure) /\ Exposure \in SUBSET Keys
        BY WithinThresholds, ExposureType
      <4> QED
        BY <1>2, <3>1, <4>1, Shrinks
    <3>4. /\ Admitted(o, Sum(op, E) + o.cost)
          /\ k \in CaseKeys => Sum(op, E \cap CaseKeys) + o.cost < CaseLimit
      BY <2>2, <3>1, CostIsSum DEF ok, InScope
    <3>5. op' = [op EXCEPT ![k] = o]
      BY <1>2, <2>2
    <3>6. ASSUME NEW f \in Ops, f = [op EXCEPT ![k] = o], NEW F \in SUBSET (E \cup {k})
          PROVE  Within(f, F)
      BY <1>2, <3>2, <3>3, <3>4, <3>6, Grows
    <3>7. Within(op', Exposure')
      BY <1>2, <3>2, <3>5, <3>6
    <3> QED
      BY <3>7, WithinThresholds
  <2> QED
    BY <2>1, <2>2
<1> QED
  BY <1>7, <1>9, <1>10, <1>11, <1>12

-----------------------------------------------------------------------------
(* The inductive invariant.                                                *)

LEMMA InitInv == Init => IndInv
<1> SUFFICES ASSUME Init PROVE IndInv
  OBVIOUS
<1> USE DEF Init
<1>1. (CHOOSE o \in Operations : TRUE) \in Operations
  BY BudgetOperations
<1>2. TypeOK
  BY <1>1, WorkerType DEF TypeOK, Statuses, WorkerRows
<1>3. \A w \in Workers : worker[w].pc = "idle"
  BY WorkerType
<1>4. WorkerInv
  BY <1>3 DEF WorkerInv, PcOK
<1>5. RowInv /\ CallsAreCharged
  BY DEF RowInv, CallsAreCharged, Settled, Keys
<1>6. Exposure = {}
  BY DEF Exposure
<1>7. ExposureBelowLimit /\ HeadroomKept
  BY <1>6 DEF ExposureBelowLimit, HeadroomKept, Below
<1> QED
  BY <1>2, <1>4, <1>5, <1>7 DEF IndInv

LEMMA StutterStep ==
  ASSUME IndInv, UNCHANGED vars
  PROVE  IndInv'
<1> USE DEF IndInv, vars
<1>1. TypeOK' /\ WorkerInv' /\ RowInv' /\ CallsAreCharged'
  BY DEF TypeOK, WorkerInv, PcOK, RowInv, CallsAreCharged
<1>2. Exposure' = Exposure
  BY DEF Exposure
<1> QED
  BY <1>1, <1>2, KeepsBudget

\* However admissions, settlements, expiries, retries and crashes interleave, over however many
\* keys and workers, the invariant holds.
THEOREM Invariance == Spec => []IndInv
<1>1. ASSUME IndInv, [Next]_vars
      PROVE  IndInv'
  <2>1. CASE UNCHANGED vars
    BY <1>1, <2>1, StutterStep
  <2>2. ASSUME NEW w \in Workers, NEW k \in Keys,
               (\E o \in Operations, killed \in BOOLEAN : Reserve(w, k, o, killed)) \/ ReserveAgain(w, k)
        PROVE  IndInv'
    BY <1>1, <2>2, ReserveStep, ReserveAgainStep
  <2>3. ASSUME NEW w \in Workers,
               \/ CallProvider(w) \/ Settle(w) \/ SettleFails(w) \/ Reconcile(w) \/ ReconcileRefused(w)
               \/ CommitCase(w) \/ ReleaseCase(w) \/ WorkerDies(w)
        PROVE  IndInv'
    BY <1>1, <2>3, CallProviderStep, PriceStep, SettleFailsStep, ReconcileRefusedStep, CaseStep, WorkerDiesStep
  <2>4. ASSUME NEW k \in Keys, PassExpiry(k)
        PROVE  IndInv'
    BY <1>1, <2>4, PassExpiryStep
  <2>5. CASE ExpireReservations
    BY <1>1, <2>5, ExpireReservationsStep
  <2> QED
    BY <1>1, <2>1, <2>2, <2>3, <2>4, <2>5 DEF Next
<1> QED
  BY <1>1, InitInv, PTL DEF Spec

\* Every variable keeps its type; a usage event always belongs to a settled provider call.
THEOREM TypeCorrect == Spec => []TypeOK
<1>1. IndInv => TypeOK
  BY DEF IndInv
<1> QED
  BY <1>1, Invariance, PTL

\* What is spent and what can still be settled or billed stays below the budget's limit, whatever
\* reserveBudget's sum leaves out because it has expired.
THEOREM SpendIsBounded == Spec => []ExposureBelowLimit
<1>1. IndInv => ExposureBelowLimit
  BY DEF IndInv
<1> QED
  BY <1>1, Invariance, PTL

\* Optional work, experiments, scans and authenticity cases each stay below their own threshold.
THEOREM HeadroomHolds == Spec => []HeadroomKept
<1>1. IndInv => HeadroomKept
  BY DEF IndInv
<1> QED
  BY <1>1, Invariance, PTL

\* withBudgetAdmission charges every provider call it makes, but for an expiry or a lost worker.
THEOREM ChargedCalls == Spec => []CallsAreCharged
<1>1. IndInv => CallsAreCharged
  BY DEF IndInv
<1> QED
  BY <1>1, Invariance, PTL

=============================================================================
