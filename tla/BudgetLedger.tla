---------------------------- MODULE BudgetLedger ----------------------------
(***************************************************************************)
(* The monthly cost budget: reserveBudget admits an operation against the  *)
(* spend and the reservations of the period, withBudgetAdmission wraps a   *)
(* provider call between a reservation and its settlement, and an          *)
(* authenticity case keeps its reservation as a commitment not yet priced. *)
(*                                                                         *)
(* Each ledger operation is one SERIALIZABLE transaction and so one action.*)
(* Between them a worker may die, a statement may fail and the reservation *)
(* may pass its 15 minutes.  One period; money in whole units; a           *)
(* reservation is named by its idempotency key.                            *)
(***************************************************************************)
EXTENDS Naturals, FiniteSets

CONSTANTS
  CallKeys,   \* idempotency keys of provider calls (withBudgetAdmission)
  CaseKeys,   \* idempotency keys of authenticity cases
  Workers,
  Operations, \* the operations: estimated cost, operation class, deep or image scan
  Warning, OptionalAnalysis, EssentialOnly, DeepScanStop, Limit,  \* BudgetConfig
  CaseLimit   \* limitUsd of the BudgetScope that all authenticity cases share

Keys == CallKeys \cup CaseKeys
Classes == {"essential", "optional", "experiment"}

\* assertConfig.
ASSUME BudgetConfig ==
  /\ {Warning, OptionalAnalysis, EssentialOnly, DeepScanStop, Limit, CaseLimit} \subseteq Nat
  /\ Warning < OptionalAnalysis /\ OptionalAnalysis < EssentialOnly
  /\ EssentialOnly < DeepScanStop /\ DeepScanStop <= Limit

ASSUME BudgetOperations ==
  Operations \subseteq [cost: Nat, class: Classes, scan: {"scan", "plain"}] /\ Operations # {}

ASSUME BudgetKeys == CallKeys \cap CaseKeys = {} /\ IsFiniteSet(Keys) /\ Keys # {}

VARIABLES
  status,   \* cost_budget_reservations.status, "none" before insertion
  op,       \* the operation of each key that was admitted
  overdue,  \* keys whose expires_at has passed
  usage,    \* keys with a cost_usage_events row (its amount is the estimate)
  worker,   \* each worker's position in withBudgetAdmission or case admission
  called,   \* keys whose provider call was made
  lost      \* keys whose worker died, or could not write, after the call

vars == <<status, op, overdue, usage, worker, called, lost>>

Statuses == {"none", "reserved", "committed", "released", "expired", "rejected", "reconciled"}
Pcs == {"idle", "case", "work", "settle", "reconcile"}
IdleWorker == [pc |-> "idle", key |-> CHOOSE k \in Keys : TRUE]

Init ==
  /\ status = [k \in Keys |-> "none"]
  /\ op = [k \in Keys |-> CHOOSE o \in Operations : TRUE]
  /\ overdue = {} /\ usage = {} /\ called = {} /\ lost = {}
  /\ worker = [w \in Workers |-> IdleWorker]

At(w, pc) == worker[w].pc = pc
Go(w, pc) == worker' = [worker EXCEPT ![w].pc = pc]
Finish(w) == worker' = [worker EXCEPT ![w] = IdleWorker]

\* The sum of the estimates of the keys in S, counted unit by unit.
Cost(S) == Cardinality(UNION {{k} \X (1..op[k].cost) : k \in S})

-----------------------------------------------------------------------------
(* Admission.                                                              *)

\* Reserved rows past their expiry, which reserveBudget expires before it adds up.
Lapsed == {k \in overdue : status[k] = "reserved"}

\* Rows that count at their estimate: live reservations and commitments not yet priced.
Held == {k \in Keys : \/ status[k] = "reserved" /\ k \notin overdue
                      \/ status[k] \in {"committed", "reconciled"} /\ k \notin usage}

\* Mutant: the class thresholds are not applied.
AdmittedBelowLimit(o, projected) ==
  /\ projected < Limit
  /\ o.scan = "scan" => projected < DeepScanStop

\* isBudgetOperationAdmitted.
Admitted(o, projected) ==
  /\ projected < Limit
  /\ o.scan = "scan" => projected < DeepScanStop
  /\ o.class # "essential" => projected < EssentialOnly /\ projected < OptionalAnalysis
  /\ o.class = "experiment" => projected < Warning

\* The scope limit of authenticity cases.
InScope(k, o) == k \in CaseKeys => Cost((usage \cup Held) \cap CaseKeys) + o.cost < CaseLimit

NextPc(k) == IF k \in CaseKeys THEN "case" ELSE "work"

\* Mutant: expired reservations drop out of the sum while they can still be settled.
ReserveWithoutExpiring(w, k, o, killed) ==
  LET ok == ~killed /\ Admitted(o, Cost(usage \cup Held) + o.cost) /\ InScope(k, o)
  IN  /\ At(w, "idle") /\ status[k] = "none"
      /\ k \in CaseKeys => o.class = "experiment"
      /\ op' = IF ok THEN [op EXCEPT ![k] = o] ELSE op
      /\ status' = [status EXCEPT ![k] = IF ok THEN "reserved" ELSE "rejected"]
      /\ worker' = IF ok THEN [worker EXCEPT ![w] = [pc |-> NextPc(k), key |-> k]] ELSE worker
      /\ UNCHANGED <<overdue, usage, called, lost>>

\* reserveBudgetInTransaction for a new key, which an enabled cost_kill_switches row (killed), a
\* threshold or the scope may reject; a case is an experiment.
Reserve(w, k, o, killed) ==
  LET ok == ~killed /\ Admitted(o, Cost(usage \cup Held) + o.cost) /\ InScope(k, o)
  IN  /\ At(w, "idle") /\ status[k] = "none"
      /\ k \in CaseKeys => o.class = "experiment"
      /\ op' = IF ok THEN [op EXCEPT ![k] = o] ELSE op
      /\ status' = [j \in Keys |-> IF j = k THEN IF ok THEN "reserved" ELSE "rejected"
                                   ELSE IF j \in Lapsed THEN "expired" ELSE status[j]]
      /\ worker' = IF ok THEN [worker EXCEPT ![w] = [pc |-> NextPc(k), key |-> k]] ELSE worker
      /\ UNCHANGED <<overdue, usage, called, lost>>

\* The same key again, from a retry: a row still reserved is used, any other is refused.
ReserveAgain(w, k) ==
  /\ k \in CallKeys
  /\ At(w, "idle") /\ status[k] = "reserved"
  /\ worker' = [worker EXCEPT ![w] = [pc |-> "work", key |-> k]]
  /\ UNCHANGED <<status, op, overdue, usage, called, lost>>

-----------------------------------------------------------------------------
(* withBudgetAdmission.                                                    *)

\* work(): the call is charged at the estimate whether it succeeds or fails.
CallProvider(w) ==
  /\ At(w, "work")
  /\ called' = called \cup {worker[w].key}
  /\ Go(w, "settle") \/ Go(w, "reconcile")
  /\ UNCHANGED <<status, op, overdue, usage, lost>>

\* A row still reserved takes the final status with its usage event; a settled one is left alone.
Price(k, final) ==
  /\ status[k] \in {"reserved", "committed", "reconciled"}
  /\ IF status[k] = "reserved"
     THEN status' = [status EXCEPT ![k] = final] /\ usage' = usage \cup {k}
     ELSE UNCHANGED <<status, usage>>

Settle(w) ==
  /\ At(w, "settle")
  /\ Price(worker[w].key, "committed")
  /\ Finish(w)
  /\ UNCHANGED <<op, overdue, called, lost>>

\* settleBudgetReservation throws: the row has expired, or the database refused.
SettleFails(w) ==
  /\ At(w, "settle")
  /\ Go(w, "reconcile")
  /\ UNCHANGED <<status, op, overdue, usage, called, lost>>

\* Mutant: after a provider error nothing is charged.
ReconcileForgetting(w) ==
  /\ At(w, "reconcile")
  /\ Finish(w)
  /\ UNCHANGED <<status, op, overdue, usage, called, lost>>

Reconcile(w) ==
  /\ At(w, "reconcile")
  /\ Price(worker[w].key, "reconciled")
  /\ Finish(w)
  /\ UNCHANGED <<op, overdue, called, lost>>

\* budget_reservation_not_reserved: the reservation expired while the provider was working.
ReconcileRefused(w) ==
  /\ At(w, "reconcile")
  /\ status[worker[w].key] \notin {"reserved", "committed", "reconciled"}
  /\ Finish(w)
  /\ UNCHANGED <<status, op, overdue, usage, called, lost>>

\* The worker dies, or neither settlement can be written.
WorkerDies(w) ==
  /\ ~At(w, "idle")
  /\ lost' = IF worker[w].key \in called THEN lost \cup {worker[w].key} ELSE lost
  /\ Finish(w)
  /\ UNCHANGED <<status, op, overdue, usage, called>>

-----------------------------------------------------------------------------
(* Authenticity case admission: the reservation is committed with the case, unpriced,  *)
(* or released.                                                                        *)

CommitCase(w) ==
  /\ At(w, "case")
  /\ status' = [status EXCEPT ![worker[w].key] = "committed"]
  /\ Finish(w)
  /\ UNCHANGED <<op, overdue, usage, called, lost>>

ReleaseCase(w) ==
  /\ At(w, "case")
  /\ status' = IF status[worker[w].key] = "reserved"
               THEN [status EXCEPT ![worker[w].key] = "released"] ELSE status
  /\ Finish(w)
  /\ UNCHANGED <<op, overdue, usage, called, lost>>

-----------------------------------------------------------------------------
(* Time and the expiry sweep.                                              *)

\* A case request commits or releases at once, never 15 minutes later.
PassExpiry(k) ==
  /\ status[k] = "reserved" /\ k \notin overdue
  /\ \A w \in Workers : ~(At(w, "case") /\ worker[w].key = k)
  /\ overdue' = overdue \cup {k}
  /\ UNCHANGED <<status, op, usage, worker, called, lost>>

\* expireBudgetReservations.
ExpireReservations ==
  /\ Lapsed # {}
  /\ status' = [k \in Keys |-> IF k \in Lapsed THEN "expired" ELSE status[k]]
  /\ UNCHANGED <<op, overdue, usage, worker, called, lost>>

Next ==
  \/ \E w \in Workers, k \in Keys :
       (\E o \in Operations, killed \in BOOLEAN : Reserve(w, k, o, killed)) \/ ReserveAgain(w, k)
  \/ \E w \in Workers :
       \/ CallProvider(w) \/ Settle(w) \/ SettleFails(w) \/ Reconcile(w) \/ ReconcileRefused(w)
       \/ CommitCase(w) \/ ReleaseCase(w) \/ WorkerDies(w)
  \/ \E k \in Keys : PassExpiry(k)
  \/ ExpireReservations

Spec == Init /\ [][Next]_vars

-----------------------------------------------------------------------------
(* Properties.                                                             *)

\* Types: a usage event belongs to a settled reservation of a provider call.
TypeOK ==
  /\ status \in [Keys -> Statuses]
  /\ op \in [Keys -> Operations]
  /\ overdue \subseteq Keys
  /\ usage \subseteq {k \in CallKeys : status[k] \in {"committed", "reconciled"}}
  /\ worker \in [Workers -> [pc: Pcs, key: Keys]]
  /\ called \subseteq CallKeys /\ lost \subseteq called

\* What has been spent, and what can still be settled or billed.
Exposure == usage \cup {k \in Keys : status[k] \in {"reserved", "committed", "reconciled"}}

Below(S, limit) == S # {} => Cost(S) < limit

\* Whatever expires, is retried or settles late, the recorded spend and everything
\* that may still be added to it stay below the limit that admission is checked against.
ExposureBelowLimit == Below(Exposure, Limit)

\* Essential work keeps its headroom: all optional and experimental operations together stay
\* below the optional threshold, experiments alone below the warning and authenticity cases below
\* their own limit, in whatever order admission, expiry and settlement happen.
HeadroomKept ==
  /\ Below({k \in Exposure : op[k].class # "essential"}, OptionalAnalysis)
  /\ Below({k \in Exposure : op[k].class = "experiment"}, Warning)
  /\ Below({k \in Exposure : op[k].scan = "scan"}, DeepScanStop)
  /\ Below(Exposure \cap CaseKeys, CaseLimit)

\* A provider call that was made is in the ledger once its workers are done, unless the
\* reservation expired under it or a worker was lost.
CallsAreCharged ==
  \A k \in called :
    \/ k \in usage \/ k \in lost \/ status[k] = "expired"
    \/ \E w \in Workers : worker[w].pc \in {"settle", "reconcile"} /\ worker[w].key = k

=============================================================================
