----------------------- MODULE AuthenticityBetaProofs -----------------------
(***************************************************************************)
(* Proofs about AuthenticityBeta for any number of cases and invocations   *)
(* and any limits on attempts and cancellations.                           *)
(***************************************************************************)
EXTENDS AuthenticityBeta, FiniteSetTheorems, TLAPS

CaseRows == [state: CaseStates, rev: 1..(MaxRev + 2), token: 0..MaxAttempts, attempts: 0..MaxAttempts, result: Results]
StoreRows == [reserved: 0..2, display: 0..1, owned: 0..1]
TaskRows == [pc: Pcs, c: Cases, rev: 0..(MaxRev + 2), op: {"none", "analysis", "advice"},
             s: Steps \cup {"none"}, token: 0..MaxAttempts, result: Results]

\* The storage of a case: none, reserved, the original stored, the display copy stored.
Nothing == [reserved |-> 0, display |-> 0, owned |-> 0]
Reserved == [reserved |-> 2, display |-> 0, owned |-> 0]
Original == [reserved |-> 1, display |-> 0, owned |-> 1]
Displayed == [reserved |-> 0, display |-> 1, owned |-> 1]

\* The revision moves once more when a case expires and once more when it is deleted.
RevLimit(state) == CASE state = "deleted" -> MaxRev + 2 [] state = "expired" -> MaxRev + 1 [] OTHER -> MaxRev

\* How the row of a case and its storage go together.
CaseOK(r, st) ==
  /\ r.rev <= RevLimit(r.state)
  /\ r.token # 0 => r.state = "analyzing"
  /\ r.state = "none" => st = Nothing
  /\ r.state # "none" => st \in {Reserved, Original, Displayed}
  /\ r.state = "uploading" => st = Reserved
  /\ r.state \in {"queued", "analyzing", "complete", "failed", "paused", "safety"} => st # Reserved

CaseInv == \A c \in Cases : CaseOK(case[c], store[c])

FinalisePcs == {"finalise.put", "finalise.commit", "finalise.catch", "finalise.clean"}
PurgePcs == {"purge.delete", "purge.mark"}
CallPcs == {"call", "finish", "display", "display.put", "display.check", "display.charge"}
PutPcs == {"finalise.put", "display.put"}

\* What is true of a task k at its program counter, of the row r of its case, and of the steps st and
\* the calls n made for it.
TaskOK(k, r, st, n) ==
  /\ k.pc # "idle" => r.state # "none"
  /\ k.pc \notin {"idle"} \cup FinalisePcs \cup PurgePcs => k.token # 0
  /\ k.pc \in PurgePcs => r.state = "deleted"
  /\ k.pc \in CallPcs => k.s \in Steps
  /\ k.pc = "call" => st[k.s] # "none" /\ n[k.s] = 0

TaskInv == \A t \in Tasks : TaskOK(task[t], case[task[t].c], step[task[t].c], calls[task[t].c])

\* A step that was not begun was not called, and one that was begun has one caller.
CallInv ==
  /\ \A c \in Cases, s \in Steps : step[c][s] = "none" => calls[c][s] = 0
  /\ \A t, u \in Tasks : task[t].pc = "call" /\ task[u].pc = "call" /\ task[t].c = task[u].c /\ task[t].s = task[u].s => t = u

\* Before its case is created an upload has no URL and no object.
ObjectInv == \A c \in Cases : case[c].state = "none" => object[c] = {} /\ c \notin url

\* Once the waits of the purge are over nothing writes, and a pass on its way has emptied the bucket.
AgedInv ==
  /\ purged \subseteq aged
  /\ \A c \in aged : case[c].state = "deleted" /\ c \notin url
  /\ \A t \in Tasks : task[t].c \in aged =>
       /\ task[t].pc \notin PutPcs
       /\ task[t].pc = "purge.mark" => object[task[t].c] = {}

\* The first half of StorageIsCharged; the second follows from CaseInv and ObjectInv.
Unpurged == Cases \ purged
ReservedOf == [c \in Cases |-> store[c].reserved]
StoredOf == [c \in Cases |-> store[c].display + store[c].owned]
LedgerInv ==
  /\ ledger.reserved = OtherBytes + Total(ReservedOf, Unpurged)
  /\ ledger.approved = OtherBytes + Total(StoredOf, Unpurged)

IndInv ==
  /\ TypeOK /\ CaseInv /\ TaskInv /\ CallInv /\ ObjectInv /\ AgedInv /\ LedgerInv
  /\ OneCallPerStep /\ DeletionIsThorough

-----------------------------------------------------------------------------
(* Totals.                                                                 *)

Sizes == [Cases -> 0..2]
Counted(f, S) == {x \in S \X (1..2) : x[2] <= f[x[1]]}

LEMMA CountedIsFinite ==
  ASSUME NEW f, NEW S \in SUBSET Cases
  PROVE  IsFiniteSet(Counted(f, S)) /\ Total(f, S) = Cardinality(Counted(f, S)) /\ Total(f, S) \in Nat
<1>1. IsFiniteSet(S) /\ IsFiniteSet(1..2)
  BY BetaConstants, FS_Subset, FS_Interval
<1>2. IsFiniteSet(S \X (1..2))
  BY <1>1, FS_Product
<1>3. IsFiniteSet(Counted(f, S))
  BY <1>2, FS_Subset DEF Counted
<1>4. Total(f, S) = Cardinality(Counted(f, S))
  BY DEF Total, Counted
<1> QED
  BY <1>3, <1>4, FS_CardinalityType

LEMMA SameTotal ==
  ASSUME NEW f, NEW g, NEW S \in SUBSET Cases, \A c \in S : g[c] = f[c]
  PROVE  Total(g, S) = Total(f, S)
<1>1. Counted(g, S) = Counted(f, S)
  BY DEF Counted
<1> QED
  BY <1>1, CountedIsFinite

\* A case contributes what it holds.
LEMMA TotalWithout ==
  ASSUME NEW f \in Sizes, NEW S \in SUBSET Cases, NEW c \in S
  PROVE  /\ Total(f, S) = Total(f, S \ {c}) + f[c]
         /\ Total(f, S) \in Nat /\ Total(f, S \ {c}) \in Nat /\ f[c] \in Nat
<1> DEFINE R == S \ {c}
<1>1. PICK n \in Nat : n = f[c] /\ n <= 2
  BY DEF Sizes
<1> DEFINE own == {c} \X (1..n)
<1>2. IsFiniteSet(own) /\ Cardinality(own) = n
  <2>1. IsFiniteSet({c}) /\ Cardinality({c}) = 1
    BY FS_Singleton
  <2>2. IsFiniteSet(1..n) /\ Cardinality(1..n) = n
    BY FS_Interval
  <2>3. IsFiniteSet(own) /\ Cardinality(own) = Cardinality({c}) * Cardinality(1..n)
    BY <2>1, <2>2, FS_Product
  <2> HIDE DEF own
  <2> QED
    BY <2>1, <2>2, <2>3
<1>3. Counted(f, S) = Counted(f, R) \cup own
  BY <1>1 DEF Counted, Sizes
<1>4. Counted(f, R) \cap own = {}
  BY DEF Counted
<1>5. IsFiniteSet(Counted(f, R)) /\ Cardinality(Counted(f, R)) \in Nat
  BY CountedIsFinite, FS_CardinalityType
<1>6. Total(f, S) = Cardinality(Counted(f, S)) /\ Total(f, R) = Cardinality(Counted(f, R))
  BY CountedIsFinite
<1> HIDE DEF own, R
<1>7. Cardinality(Counted(f, R) \cup own)
        = Cardinality(Counted(f, R)) + Cardinality(own) - Cardinality(Counted(f, R) \cap own)
  BY <1>2, <1>5, FS_Union
<1>8. Cardinality(Counted(f, R) \cap own) = 0
  BY <1>4, FS_EmptySet
<1>9. Total(f, S) = Total(f, R) + n
  BY <1>2, <1>3, <1>5, <1>6, <1>7, <1>8
<1> QED
  BY <1>1, <1>5, <1>6, <1>9 DEF R

\* What one case holds changes.
LEMMA TotalChange ==
  ASSUME NEW f \in Sizes, NEW g \in Sizes, NEW S \in SUBSET Cases, NEW c \in S,
         \A d \in S \ {c} : g[d] = f[d]
  PROVE  /\ Total(g, S) = Total(f, S) - f[c] + g[c]
         /\ Total(f, S) >= f[c] /\ Total(f, S) \in Nat /\ f[c] \in Nat /\ g[c] \in Nat
<1>1. Total(g, S \ {c}) = Total(f, S \ {c})
  BY SameTotal
<1>2. Total(f, S) = Total(f, S \ {c}) + f[c] /\ Total(f, S \ {c}) \in Nat /\ f[c] \in Nat
  BY TotalWithout
<1>3. Total(g, S) = Total(g, S \ {c}) + g[c] /\ g[c] \in Nat
  BY TotalWithout
<1> QED
  BY <1>1, <1>2, <1>3

LEMMA SizesOf ==
  TypeOK => ReservedOf \in Sizes /\ StoredOf \in Sizes /\ Unpurged \in SUBSET Cases
<1> SUFFICES ASSUME TypeOK PROVE ReservedOf \in Sizes /\ StoredOf \in Sizes /\ Unpurged \in SUBSET Cases
  OBVIOUS
<1>1. \A c \in Cases : store[c].reserved \in 0..2 /\ store[c].display \in 0..1 /\ store[c].owned \in 0..1
  BY DEF TypeOK
<1> QED
  BY <1>1 DEF ReservedOf, StoredOf, Sizes, Unpurged

LEMMA SameLedger ==
  ASSUME LedgerInv, UNCHANGED <<store, ledger, purged>>
  PROVE  LedgerInv'
  BY DEF LedgerInv, ReservedOf, StoredOf, Unpurged, Total

-----------------------------------------------------------------------------
(* What most steps have in common.                                         *)

StepRows == [Steps -> {"none", "started", "completed", "ambiguous", "wiped"}]
Messages == [c: Cases, rev: 1..(MaxRev + 2), op: {"analysis", "advice"}]
Objects == {"upload", "original", "display"}

\* A task may be at k after the step, unless that is a provider call.
Settles(k) ==
  /\ TaskOK(k, case'[k.c], step'[k.c], calls'[k.c]) /\ k.pc # "call"
  /\ k.c \in aged => k.pc \notin PutPcs /\ (k.pc = "purge.mark" => object'[k.c] = {})

\* A case that is neither created nor deleted by the step.
Evolves(c) ==
  /\ CaseOK(case'[c], store'[c])
  /\ case[c].state \notin {"none", "deleted"} /\ case'[c].state \notin {"none", "deleted"}

\* A step that was begun before is recorded, as completed only for a case that is not deleted.
Records(c, s) ==
  step[c][s] # "none" /\ step'[c][s] # "none" /\ (step'[c][s] = "completed" => case[c].state # "deleted")

LEMMA StepKeeps ==
  ASSUME IndInv,
         task' \in [Tasks -> TaskRows], \A t \in Tasks : task'[t] = task[t] \/ Settles(task'[t]),
         case' \in [Cases -> CaseRows], store' \in [Cases -> StoreRows],
         \A c \in Cases : (case'[c] = case[c] /\ store'[c] = store[c]) \/ Evolves(c),
         step' \in [Cases -> StepRows],
         \A c \in Cases, s \in Steps : step'[c][s] = step[c][s] \/ Records(c, s),
         object' \in [Cases -> SUBSET Objects],
         \A c \in Cases : object'[c] \subseteq object[c] \/ (c \notin aged /\ case[c].state # "none"),
         leased' \subseteq Cases, late' \subseteq Cases, msgs' \subseteq Messages, url' \subseteq url,
         ledger' \in [reserved: Nat, approved: Nat], LedgerInv', UNCHANGED <<purged, calls, aged>>
  PROVE  IndInv'
<1> USE DEF IndInv
<1>1. TypeOK'
  BY DEF TypeOK, TaskRows, CaseRows, StoreRows, StepRows, Messages, Objects
<1>2. CaseInv'
  BY DEF CaseInv, Evolves
<1>3. \A c \in Cases :
        /\ case[c].state # "none" <=> case'[c].state # "none"
        /\ case[c].state = "deleted" <=> case'[c].state = "deleted"
        /\ case'[c] = case[c] \/ case'[c].state # "deleted"
  BY DEF Evolves
<1>4. TaskInv'
  <2> SUFFICES ASSUME NEW t \in Tasks
               PROVE  TaskOK(task'[t], case'[task'[t].c], step'[task'[t].c], calls'[task'[t].c])
    BY DEF TaskInv
  <2>1. CASE Settles(task'[t])
    BY <2>1 DEF Settles
  <2>2. CASE task'[t] = task[t]
    <3>1. TaskOK(task[t], case[task[t].c], step[task[t].c], calls[task[t].c]) /\ task[t].c \in Cases
      BY DEF TaskInv, TypeOK
    <3> QED
      BY <1>3, <2>2, <3>1 DEF TaskOK, CallPcs, Records
  <2> QED
    BY <2>1, <2>2
<1>5. CallInv'
  <2>1. \A c \in Cases, s \in Steps : step'[c][s] = "none" => calls'[c][s] = 0
    BY DEF CallInv, Records
  <2>2. \A t \in Tasks : task'[t].pc = "call" => task'[t] = task[t]
    BY DEF Settles
  <2> QED
    BY <2>1, <2>2 DEF CallInv
<1>6. ObjectInv'
  BY <1>3 DEF ObjectInv
<1>7. AgedInv'
  <2>1. \A c \in aged : case'[c].state = "deleted" /\ c \notin url' /\ object'[c] \subseteq object[c]
    BY <1>3 DEF AgedInv, TypeOK
  <2>2. ASSUME NEW t \in Tasks, task'[t].c \in aged
        PROVE  task'[t].pc \notin PutPcs /\ (task'[t].pc = "purge.mark" => object'[task'[t].c] = {})
    BY <2>1, <2>2 DEF AgedInv, Settles
  <2> QED
    BY <2>1, <2>2 DEF AgedInv
<1>8. OneCallPerStep'
  BY DEF OneCallPerStep
<1>9. DeletionIsThorough'
  <2>1. ASSUME NEW c \in Cases, case'[c].state = "deleted"
        PROVE  case'[c].result = "none" /\ \A s \in Steps : step'[c][s] # "completed"
    BY <1>3, <2>1 DEF DeletionIsThorough, Deleted, Records
  <2>2. ASSUME NEW c \in purged PROVE object'[c] = {}
    BY DEF DeletionIsThorough, AgedInv, TypeOK
  <2> QED
    BY <2>1, <2>2 DEF DeletionIsThorough, Deleted
<1> QED
  BY <1>1, <1>2, <1>4, <1>5, <1>6, <1>7, <1>8, <1>9

LEMMA TaskType ==
  /\ Idle \in TaskRows /\ Idle.pc = "idle"
  /\ TypeOK => \A t \in Tasks : task[t] \in TaskRows /\ task[t].c \in Cases /\ task[t].pc \in Pcs
<1>1. (CHOOSE c \in Cases : TRUE) \in Cases
  BY BetaConstants
<1> QED
  BY <1>1, BetaConstants DEF Idle, TaskRows, Pcs, Results, TypeOK

\* Task t is at k afterwards, and the others where they were.
Moves(t, k) == task' \in [Tasks -> TaskRows] /\ task'[t] = k /\ \A u \in Tasks : u # t => task'[u] = task[u]

LEMMA TaskMoves ==
  ASSUME TypeOK, NEW t \in Tasks
  PROVE  /\ \A k \in TaskRows : task' = [task EXCEPT ![t] = k] => Moves(t, k)
         /\ Ends(t) => Moves(t, Idle)
         /\ \A p \in Pcs : Goes(t, p) => Moves(t, [task[t] EXCEPT !.pc = p])
<1>1. task \in [Tasks -> TaskRows] /\ task[t] \in TaskRows
  BY DEF TypeOK, TaskRows
<1>2. ASSUME NEW k \in TaskRows, task' = [task EXCEPT ![t] = k]
      PROVE  Moves(t, k)
  BY <1>1, <1>2 DEF Moves
<1>3. Ends(t) => Moves(t, Idle)
  BY <1>2, TaskType DEF Ends
<1>4. ASSUME NEW p \in Pcs, Goes(t, p)
      PROVE  Moves(t, [task[t] EXCEPT !.pc = p])
  <2>1. [task[t] EXCEPT !.pc = p] \in TaskRows
    BY <1>1 DEF TaskRows
  <2>2. task' = [task EXCEPT ![t] = [task[t] EXCEPT !.pc = p]]
    BY <1>4 DEF Goes
  <2> QED
    BY <1>2, <2>1, <2>2
<1> QED
  BY <1>2, <1>3, <1>4

\* Only rows of cases that are under way, leases, deadlines, messages and URLs change, and task t moves.
LEMMA MoveKeeps ==
  ASSUME IndInv, NEW t \in Tasks, NEW k \in TaskRows, Moves(t, k), Settles(k),
         case' \in [Cases -> CaseRows], \A c \in Cases : case'[c] = case[c] \/ Evolves(c),
         leased' \subseteq Cases, late' \subseteq Cases, msgs' \subseteq Messages,
         UNCHANGED <<purged, step, calls, object, url, aged, store, ledger>>
  PROVE  IndInv'
<1>1. LedgerInv'
  BY SameLedger DEF IndInv
<1>2. /\ store' \in [Cases -> StoreRows] /\ step' \in [Cases -> StepRows]
      /\ object' \in [Cases -> SUBSET Objects] /\ ledger' \in [reserved: Nat, approved: Nat]
  BY DEF IndInv, TypeOK, StoreRows, StepRows, Objects
<1>4. task' \in [Tasks -> TaskRows] /\ \A u \in Tasks : task'[u] = task[u] \/ Settles(task'[u])
  BY DEF Moves
<1>5. \A c \in Cases : (case'[c] = case[c] /\ store'[c] = store[c]) \/ Evolves(c)
  OBVIOUS
<1>6. \A c \in Cases, s \in Steps : step'[c][s] = step[c][s] \/ Records(c, s)
  OBVIOUS
<1>7. \A c \in Cases : object'[c] \subseteq object[c] \/ (c \notin aged /\ case[c].state # "none")
  OBVIOUS
<1>8. url' \subseteq url /\ UNCHANGED <<purged, calls, aged>>
  OBVIOUS
<1> QED
  BY <1>1, <1>2, <1>4, <1>5, <1>6, <1>7, <1>8, StepKeeps

LEMMA RowKeeps ==
  ASSUME IndInv, task' = task,
         case' \in [Cases -> CaseRows], \A c \in Cases : case'[c] = case[c] \/ Evolves(c),
         leased' \subseteq Cases, late' \subseteq Cases, msgs' \subseteq Messages, url' \subseteq url,
         UNCHANGED <<purged, step, calls, object, aged, store, ledger>>
  PROVE  IndInv'
<1>1. LedgerInv'
  BY SameLedger DEF IndInv
<1>2. /\ store' \in [Cases -> StoreRows] /\ step' \in [Cases -> StepRows]
      /\ object' \in [Cases -> SUBSET Objects] /\ ledger' \in [reserved: Nat, approved: Nat]
      /\ task' \in [Tasks -> TaskRows]
  BY DEF IndInv, TypeOK, StoreRows, StepRows, Objects, TaskRows
<1>5. \A c \in Cases : (case'[c] = case[c] /\ store'[c] = store[c]) \/ Evolves(c)
  OBVIOUS
<1>6. \A c \in Cases, s \in Steps : step'[c][s] = step[c][s] \/ Records(c, s)
  OBVIOUS
<1>7. \A c \in Cases : object'[c] \subseteq object[c] \/ (c \notin aged /\ case[c].state # "none")
  OBVIOUS
<1>8. url' \subseteq url /\ UNCHANGED <<purged, calls, aged>>
  OBVIOUS
<1> QED
  BY <1>1, <1>2, <1>5, <1>6, <1>7, <1>8, StepKeeps

-----------------------------------------------------------------------------
(* Steps on the row of a case.                                             *)

LEMMA CaseType ==
  TypeOK => /\ case \in [Cases -> CaseRows] /\ msgs \subseteq Messages
            /\ leased \subseteq Cases /\ late \subseteq Cases
            /\ \A c \in Cases : case[c] \in CaseRows /\ store[c] \in StoreRows
  BY DEF TypeOK, CaseRows, Messages, StoreRows

LEMMA NoToken == 0 \in 0..MaxAttempts
  BY BetaConstants

\* Cancellation, expiry and exhaustion end a case; retry and advice queue it again.
LEMMA RowStep ==
  ASSUME IndInv, NEW c \in Cases,
         Cancel(c) \/ ExpireCase(c) \/ ExhaustCase(c) \/ Retry(c) \/ RequestAdvice(c)
  PROVE  IndInv'
<1> USE DEF IndInv
<1>0. /\ UNCHANGED <<late, purged, step, calls, object, url, aged, store, ledger, task>>
      /\ leased' \subseteq leased
  BY DEF Cancel, ExpireCase, ExhaustCase, Retry, RequestAdvice, Requeue, work, media, bytes
<1>1. case[c] \in CaseRows /\ CaseOK(case[c], store[c])
  BY CaseType DEF CaseInv
<1>2. PICK r \in CaseRows : /\ case' = [case EXCEPT ![c] = r]
                            /\ CaseOK(r, store[c]) /\ r.state \notin {"none", "deleted"}
                            /\ case[c].state \notin {"none", "deleted"}
  <2>1. CASE Cancel(c)
    <3> DEFINE r == [case[c] EXCEPT !.state = "cancelled", !.rev = @ + 1, !.token = 0]
    <3>1. case' = [case EXCEPT ![c] = r]
      BY <2>1 DEF Cancel
    <3>2. case[c].rev \in Nat /\ case[c].rev + 1 <= RevLimit("cancelled") /\ case[c].rev + 1 \in 1..(MaxRev + 2)
      BY <1>1, <2>1, BetaConstants DEF Cancel, CaseRows, CaseOK, RevLimit
    <3>3. r \in CaseRows /\ r.state = "cancelled" /\ r.rev = case[c].rev + 1 /\ r.token = 0
      BY <1>1, <3>2, NoToken DEF CaseRows, CaseStates
    <3>4. CaseOK(r, store[c]) /\ case[c].state \notin {"none", "deleted"}
      BY <1>1, <2>1, <3>2, <3>3 DEF Cancel, CaseOK
    <3> QED
      BY <3>1, <3>3, <3>4
  <2>2. CASE ExpireCase(c)
    <3> DEFINE r == [case[c] EXCEPT !.state = "expired", !.rev = @ + 1, !.token = 0]
    <3>1. case' = [case EXCEPT ![c] = r]
      BY <2>2 DEF ExpireCase
    <3>2. case[c].rev \in Nat /\ case[c].rev + 1 <= RevLimit("expired") /\ case[c].rev + 1 \in 1..(MaxRev + 2)
      BY <1>1, <2>2, BetaConstants DEF ExpireCase, CaseRows, CaseOK, RevLimit
    <3>3. r \in CaseRows /\ r.state = "expired" /\ r.rev = case[c].rev + 1 /\ r.token = 0
      BY <1>1, <3>2, NoToken DEF CaseRows, CaseStates
    <3>4. CaseOK(r, store[c]) /\ case[c].state \notin {"none", "deleted"}
      BY <1>1, <2>2, <3>2, <3>3 DEF ExpireCase, CaseOK
    <3> QED
      BY <3>1, <3>3, <3>4
  <2>3. CASE ExhaustCase(c)
    <3> DEFINE r == [case[c] EXCEPT !.state = "failed", !.token = 0]
    <3>1. case' = [case EXCEPT ![c] = r]
      BY <2>3 DEF ExhaustCase
    <3>2. case[c].rev \in Nat /\ case[c].rev <= RevLimit("failed") /\ case[c].rev \in 1..(MaxRev + 2)
      BY <1>1, <2>3, BetaConstants DEF ExhaustCase, CaseRows, CaseOK, RevLimit
    <3>3. r \in CaseRows /\ r.state = "failed" /\ r.rev = case[c].rev /\ r.token = 0
      BY <1>1, <3>2, NoToken DEF CaseRows, CaseStates
    <3>4. CaseOK(r, store[c]) /\ case[c].state \notin {"none", "deleted"}
      BY <1>1, <2>3, <3>2, <3>3 DEF ExhaustCase, CaseOK
    <3> QED
      BY <3>1, <3>3, <3>4
  <2>4. CASE Retry(c) \/ RequestAdvice(c)
    <3> DEFINE r == [case[c] EXCEPT !.state = "queued"]
    <3>1. case' = [case EXCEPT ![c] = r] /\ case[c].token = 0 /\ case[c].state \in {"paused", "failed", "complete"}
      BY <2>4 DEF Retry, RequestAdvice, Requeue
    <3>2. r \in CaseRows /\ CaseOK(r, store[c])
      BY <1>1, <3>1, BetaConstants DEF CaseRows, CaseStates, CaseOK, RevLimit
    <3> QED
      BY <1>1, <3>1, <3>2 DEF CaseRows
  <2> QED
    BY <2>1, <2>2, <2>3, <2>4
<1>3. case' \in [Cases -> CaseRows] /\ \A d \in Cases : case'[d] = case[d] \/ Evolves(d)
  BY <1>0, <1>2, CaseType DEF Evolves
<1>4. msgs' \subseteq Messages
  <2>1. \A op \in {"analysis", "advice"} : [c |-> c, rev |-> case[c].rev, op |-> op] \in Messages
    BY <1>1 DEF Messages, CaseRows
  <2> QED
    BY <2>1, CaseType DEF Cancel, ExpireCase, ExhaustCase, Retry, RequestAdvice, Requeue
<1>5. leased' \subseteq Cases /\ late' \subseteq Cases /\ url' \subseteq url /\ task' = task
  BY <1>0, CaseType
<1> QED
  BY <1>0, <1>3, <1>4, <1>5, RowKeeps

LEMMA TimeStep ==
  ASSUME IndInv, NEW c \in Cases, LapseLease(c) \/ CloseUrl(c) \/ PassDeadline(c)
  PROVE  IndInv'
<1>0. UNCHANGED <<case, purged, step, calls, object, aged, store, ledger, task, msgs>>
  BY DEF LapseLease, CloseUrl, PassDeadline, row, work, media, bytes
<1>1. leased' \subseteq Cases /\ late' \subseteq Cases /\ url' \subseteq url
  BY CaseType DEF LapseLease, CloseUrl, PassDeadline, row, media, IndInv
<1>2. case' \in [Cases -> CaseRows] /\ msgs' \subseteq Messages /\ \A d \in Cases : case'[d] = case[d] \/ Evolves(d)
  BY <1>0, CaseType DEF IndInv
<1> QED
  BY <1>0, <1>1, <1>2, RowKeeps

LEMMA ClaimNothingStep ==
  ASSUME IndInv, NEW m \in msgs, ClaimNothing(m)
  PROVE  IndInv'
<1>0. UNCHANGED <<case, leased, late, purged, step, calls, object, url, aged, store, ledger, task>> /\ msgs' \subseteq msgs
  BY DEF ClaimNothing, row, work, media, bytes
<1>1. leased' \subseteq Cases /\ late' \subseteq Cases /\ url' \subseteq url
  BY <1>0, CaseType DEF IndInv
<1>2. case' \in [Cases -> CaseRows] /\ msgs' \subseteq Messages /\ \A d \in Cases : case'[d] = case[d] \/ Evolves(d)
  BY <1>0, CaseType DEF IndInv
<1> QED
  BY <1>0, <1>1, <1>2, RowKeeps

-----------------------------------------------------------------------------
(* Steps of the analysis that move its task.                               *)

AnalysisPcs == Pcs \ ({"idle"} \cup FinalisePcs \cup PurgePcs)

\* An analysis goes on: its token and its step are what they were.
LEMMA AnalysisGoes ==
  ASSUME IndInv, NEW t \in Tasks, task[t].pc \in AnalysisPcs, NEW p \in AnalysisPcs \ {"call", "display.put"},
         p \in CallPcs => task[t].s \in Steps, case'[task[t].c].state # "none", Goes(t, p)
  PROVE  \E k \in TaskRows : Moves(t, k) /\ Settles(k)
<1> DEFINE k == [task[t] EXCEPT !.pc = p]
<1>1. task[t] \in TaskRows /\ p \in Pcs /\ task[t].token # 0
  BY TaskType DEF IndInv, AnalysisPcs, TaskInv, TaskOK
<1>2. k \in TaskRows /\ k.pc = p /\ k.c = task[t].c /\ k.s = task[t].s /\ k.token = task[t].token
  BY <1>1 DEF TaskRows
<1>3. Moves(t, k)
  BY <1>1, TaskMoves DEF IndInv
<1> HIDE DEF k
<1>4. Settles(k)
  BY <1>1, <1>2 DEF Settles, TaskOK, AnalysisPcs, PurgePcs, FinalisePcs, PutPcs
<1> QED
  BY <1>2, <1>3, <1>4

\* The task ends.
LEMMA IdleSettles == Settles(Idle)
  BY TaskType DEF Settles, TaskOK, FinalisePcs, PurgePcs, CallPcs, PutPcs

LEMMA PlainKeeps ==
  ASSUME IndInv, NEW t \in Tasks, \E k \in TaskRows : Moves(t, k) /\ Settles(k),
         UNCHANGED <<row, work, media, bytes>>, msgs' \subseteq Messages
  PROVE  IndInv'
<1>0. UNCHANGED <<case, leased, late, purged, step, calls, object, url, aged, store, ledger>>
  BY DEF row, work, media, bytes
<1>1. leased' \subseteq Cases /\ late' \subseteq Cases
  BY <1>0, CaseType DEF IndInv
<1>2. case' \in [Cases -> CaseRows] /\ \A d \in Cases : case'[d] = case[d] \/ Evolves(d)
  BY <1>0, CaseType DEF IndInv
<1> QED
  BY <1>0, <1>1, <1>2, MoveKeeps

LEMMA DieStep ==
  ASSUME IndInv, NEW t \in Tasks, Die(t) \/ Acknowledge(t)
  PROVE  IndInv'
<1>1. UNCHANGED <<row, work, media, bytes>> /\ msgs' \subseteq Messages
  BY CaseType DEF Die, Acknowledge, IndInv
<1>2. Moves(t, Idle) /\ Idle \in TaskRows
  BY TaskMoves, TaskType DEF Die, Acknowledge, IndInv
<1> QED
  BY <1>1, <1>2, IdleSettles, PlainKeeps

\* A finalise request or a purge pass begins.
LEMMA StartStep ==
  ASSUME IndInv, NEW t \in Tasks, NEW c \in Cases, FinaliseRead(t, c) \/ StartPurge(t, c)
  PROVE  IndInv'
<1>0. UNCHANGED <<row, work, media, bytes>> /\ msgs' \subseteq Messages /\ UNCHANGED <<case, step, calls>>
  BY CaseType DEF FinaliseRead, StartPurge, IndInv, row, work
<1>1. PICK p \in {"finalise.put", "purge.delete"} :
        /\ task' = [task EXCEPT ![t] = [Idle EXCEPT !.pc = p, !.c = c]]
        /\ p = "finalise.put" => case[c].state = "uploading"
        /\ p = "purge.delete" => case[c].state = "deleted"
  BY DEF FinaliseRead, StartPurge, Deleted
<1> DEFINE k == [Idle EXCEPT !.pc = p, !.c = c]
<1>2. k \in TaskRows /\ k.pc = p /\ k.c = c
  BY TaskType DEF TaskRows, Pcs
<1>3. Moves(t, k)
  BY <1>1, <1>2, TaskMoves DEF IndInv
<1> HIDE DEF k
<1>4. c \in aged => case[c].state = "deleted"
  BY DEF IndInv, AgedInv
<1>5. Settles(k)
  BY <1>0, <1>1, <1>2, <1>4 DEF Settles, TaskOK, FinalisePcs, PurgePcs, CallPcs, PutPcs
<1> QED
  BY <1>0, <1>2, <1>3, <1>5, PlainKeeps

\* What a task that is not idle knows of its case.
LEMMA TaskFacts ==
  ASSUME IndInv, NEW t \in Tasks
  PROVE  /\ task[t] \in TaskRows /\ task[t].c \in Cases /\ task[t].pc \in Pcs
         /\ TaskOK(task[t], case[task[t].c], step[task[t].c], calls[task[t].c])
         /\ case[task[t].c] \in CaseRows /\ CaseOK(case[task[t].c], store[task[t].c])
  BY TaskType, CaseType DEF IndInv, TaskInv, CaseInv

\* The steps of the analysis that change no row.
LEMMA PlainAnalysis ==
  ASSUME IndInv, NEW t \in Tasks, task[t].pc \in AnalysisPcs, NEW p \in AnalysisPcs \ CallPcs, Goes(t, p),
         UNCHANGED <<row, work, msgs, media, bytes>>
  PROVE  IndInv'
<1>1. case'[task[t].c].state # "none"
  BY TaskFacts DEF row, TaskOK, AnalysisPcs
<1>2. \E k \in TaskRows : Moves(t, k) /\ Settles(k)
  BY <1>1, AnalysisGoes DEF CallPcs
<1>3. msgs' \subseteq Messages /\ UNCHANGED <<row, work, media, bytes>>
  BY CaseType DEF IndInv
<1> QED
  BY <1>2, <1>3, PlainKeeps

LEMMA OpenStep ==
  ASSUME IndInv, NEW t \in Tasks, Open(t)
  PROVE  IndInv'
<1>1. PICK p \in {"advise", "fail", "safety", "pause"} : Goes(t, p)
  BY DEF Open, Pauses
<1>2. task[t].pc \in AnalysisPcs /\ p \in AnalysisPcs \ CallPcs
  BY DEF Open, AnalysisPcs, Pcs, FinalisePcs, PurgePcs, CallPcs, Steps
<1>3. UNCHANGED <<row, work, msgs, media, bytes>>
  BY DEF Open, Pauses
<1> QED
  BY <1>1, <1>2, <1>3, PlainAnalysis

LEMMA AdviseStep ==
  ASSUME IndInv, NEW t \in Tasks, Advise(t)
  PROVE  IndInv'
<1>1. PICK p \in {"advice", "fail", "settle", "pause"} : Goes(t, p)
  BY DEF Advise, Pauses
<1>2. task[t].pc \in AnalysisPcs /\ p \in AnalysisPcs \ CallPcs
  BY DEF Advise, AnalysisPcs, Pcs, FinalisePcs, PurgePcs, CallPcs, Steps
<1>3. UNCHANGED <<row, work, msgs, media, bytes>>
  BY DEF Advise, Pauses
<1> QED
  BY <1>1, <1>2, <1>3, PlainAnalysis

LEMMA AdvisedStep ==
  ASSUME IndInv, NEW t \in Tasks, Advised(t)
  PROVE  IndInv'
<1> DEFINE k == [task[t] EXCEPT !.pc = "settle", !.result = "advised"]
<1>0. UNCHANGED <<row, work, media, bytes>> /\ UNCHANGED <<case, step, calls>> /\ msgs' \subseteq Messages
  BY CaseType DEF Advised, row, work, IndInv
<1>1. k \in TaskRows /\ k.pc = "settle" /\ k.c = task[t].c /\ k.token = task[t].token
  BY TaskFacts DEF TaskRows, Pcs, Results
<1>2. task' = [task EXCEPT ![t] = k]
  BY DEF Advised
<1>3. Moves(t, k)
  BY <1>1, <1>2, TaskMoves DEF IndInv
<1> HIDE DEF k
<1>4. case[task[t].c].state # "none" /\ task[t].token # 0
  BY TaskFacts DEF Advised, TaskOK, FinalisePcs, PurgePcs
<1>5. Settles(k)
  BY <1>0, <1>1, <1>4 DEF Settles, TaskOK, FinalisePcs, PurgePcs, CallPcs, PutPcs
<1> QED
  BY <1>0, <1>1, <1>3, <1>5, PlainKeeps

-----------------------------------------------------------------------------
(* Steps of the analysis that write the row of its case.                   *)

\* The row becomes r, or stays, and task t moves.
LEMMA WriteKeeps ==
  ASSUME IndInv, NEW t \in Tasks, \E k \in TaskRows : Moves(t, k) /\ Settles(k),
         NEW c \in Cases, NEW r \in CaseRows, case' = [case EXCEPT ![c] = r],
         r = case[c] \/ (CaseOK(r, store[c]) /\ r.state \notin {"none", "deleted"}
                           /\ case[c].state \notin {"none", "deleted"}),
         leased' \subseteq leased \cup {c}, UNCHANGED <<late, purged, work, msgs, media, bytes>>
  PROVE  IndInv'
<1>0. UNCHANGED <<late, purged, msgs, step, calls, object, url, aged, store, ledger>>
  BY DEF work, media, bytes
<1>1. case \in [Cases -> CaseRows] /\ case' \in [Cases -> CaseRows]
  BY CaseType DEF IndInv
<1>2. \A d \in Cases : case'[d] = case[d] \/ Evolves(d)
  BY <1>0, <1>1 DEF Evolves
<1>3. leased' \subseteq Cases /\ late' \subseteq Cases /\ msgs' \subseteq Messages
  BY <1>0, CaseType DEF IndInv
<1> QED
  BY <1>0, <1>1, <1>2, <1>3, MoveKeeps

\* The same, with a task that goes on to p.
LEMMA AnalysisWrites ==
  ASSUME IndInv, NEW t \in Tasks, task[t].pc \in AnalysisPcs, NEW p \in AnalysisPcs \ CallPcs, Goes(t, p),
         NEW r \in CaseRows, case' = [case EXCEPT ![task[t].c] = r],
         r = case[task[t].c] \/ (CaseOK(r, store[task[t].c]) /\ r.state \notin {"none", "deleted"}
                           /\ case[task[t].c].state \notin {"none", "deleted"}),
         leased' \subseteq leased, UNCHANGED <<late, purged, work, msgs, media, bytes>>
  PROVE  IndInv'
<1>1. PICK c \in Cases : c = task[t].c
  BY TaskFacts
<1>2. case'[c] = r /\ r.state # "none"
  <2>1. case[c].state # "none"
    BY <1>1, TaskFacts DEF TaskOK, AnalysisPcs
  <2> QED
    BY <1>1, <2>1, CaseType DEF IndInv
<1>3. \E k \in TaskRows : Moves(t, k) /\ Settles(k)
  BY <1>1, <1>2, AnalysisGoes DEF CallPcs
<1> QED
  BY <1>1, <1>3, WriteKeeps

\* The row of a case that is being analysed after a write that keeps its revision.
LEMMA Written ==
  ASSUME NEW r \in CaseRows, NEW st, CaseOK(r, st), r.state = "analyzing",
         NEW q \in CaseRows, q.rev = r.rev, q.token = 0 \/ q.state = "analyzing",
         q.state \in {"analyzing", "safety", "paused", "complete", "failed"}
  PROVE  CaseOK(q, st) /\ q.state \notin {"none", "deleted"} /\ r.state \notin {"none", "deleted"}
  BY DEF CaseOK, RevLimit

LEMMA BranchStep ==
  ASSUME IndInv, NEW t \in Tasks, Branch(t)
  PROVE  IndInv'
<1>0. PICK c \in Cases : c = task[t].c
  BY TaskFacts
<1>1. task[t].pc = "branch" /\ UNCHANGED <<late, purged, work, msgs, media, bytes>>
  BY DEF Branch
<1>2. {"branch", "done", "safe", "advise"} \subseteq AnalysisPcs \ CallPcs
  BY DEF AnalysisPcs, Pcs, FinalisePcs, PurgePcs, CallPcs, Steps
<1>3. case[c] \in CaseRows /\ CaseOK(case[c], store[c]) /\ case \in [Cases -> CaseRows]
  BY <1>0, TaskFacts, CaseType DEF IndInv
<1>4. ASSUME NEW p \in AnalysisPcs \ CallPcs, Goes(t, p), UNCHANGED <<case, leased>>
      PROVE  IndInv'
  BY <1>1, <1>2, <1>4, PlainAnalysis DEF row
<1>5. ASSUME NEW state \in {"safety", "paused"}, Fence(t), Goes(t, "done"),
             case' = [case EXCEPT ![c].state = state, ![c].token = 0], leased' = leased \ {c}
      PROVE  IndInv'
  <2> DEFINE r == [case[c] EXCEPT !.state = state, !.token = 0]
  <2>1. r \in CaseRows /\ r.state = state /\ r.token = 0 /\ r.rev = case[c].rev
    BY <1>3, NoToken DEF CaseRows, CaseStates
  <2>2. case' = [case EXCEPT ![c] = r]
    BY <1>5
  <2>3. case[c].state = "analyzing"
    BY <1>0, <1>5 DEF Fence
  <2> HIDE DEF r
  <2>4. CaseOK(r, store[c]) /\ r.state \notin {"none", "deleted"} /\ case[c].state \notin {"none", "deleted"}
    BY <1>3, <2>1, <2>3, Written
  <2>5. /\ task[t].pc \in AnalysisPcs /\ "done" \in AnalysisPcs \ CallPcs /\ Goes(t, "done")
        /\ leased' \subseteq leased /\ UNCHANGED <<late, purged, work, msgs, media, bytes>>
    BY <1>1, <1>2, <1>5
  <2> QED
    BY <1>0, <2>1, <2>2, <2>4, <2>5, AnalysisWrites
<1> QED
  BY <1>0, <1>2, <1>4, <1>5 DEF Branch

LEMMA SettleStep ==
  ASSUME IndInv, NEW t \in Tasks, Settle(t)
  PROVE  IndInv'
<1>0. PICK c \in Cases : c = task[t].c
  BY TaskFacts
<1>1. {"settle", "done", "fail", "pause"} \subseteq AnalysisPcs \ CallPcs /\ task[t].pc = "settle"
  BY DEF AnalysisPcs, Pcs, FinalisePcs, PurgePcs, CallPcs, Steps, Settle
<1>2. ASSUME NEW p \in AnalysisPcs \ CallPcs, Goes(t, p), UNCHANGED <<row, work, msgs, media, bytes>>
      PROVE  IndInv'
  BY <1>1, <1>2, PlainAnalysis
<1>3. ASSUME Fence(t), Goes(t, "done"), leased' = leased \ {c},
             case' = [case EXCEPT ![c].state = "complete", ![c].token = 0, ![c].result = task[t].result],
             UNCHANGED <<late, purged, work, msgs, media, bytes>>
      PROVE  IndInv'
  <2> DEFINE r == [case[c] EXCEPT !.state = "complete", !.token = 0, !.result = task[t].result]
  <2>1. case[c] \in CaseRows /\ CaseOK(case[c], store[c]) /\ task[t].result \in Results
    BY <1>0, TaskFacts DEF TaskRows
  <2>2. r \in CaseRows /\ r.state = "complete" /\ r.token = 0 /\ r.rev = case[c].rev
    BY <2>1, NoToken DEF CaseRows, CaseStates
  <2>3. case' = [case EXCEPT ![c] = r]
    BY <1>3
  <2>4. case[c].state = "analyzing"
    BY <1>0, <1>3 DEF Fence
  <2> HIDE DEF r
  <2>5. CaseOK(r, store[c]) /\ r.state \notin {"none", "deleted"} /\ case[c].state \notin {"none", "deleted"}
    BY <2>1, <2>2, <2>4, Written
  <2>6. /\ task[t].pc \in AnalysisPcs /\ "done" \in AnalysisPcs \ CallPcs /\ Goes(t, "done")
        /\ leased' \subseteq leased /\ UNCHANGED <<late, purged, work, msgs, media, bytes>>
    BY <1>1, <1>3
  <2> QED
    BY <1>0, <2>2, <2>3, <2>5, <2>6, AnalysisWrites
<1> QED
  BY <1>0, <1>1, <1>2, <1>3 DEF Settle, Pauses

\* The catch clause: the token is still the task's, so the case is being analysed.
LEMMA CatchStep ==
  ASSUME IndInv, NEW t \in Tasks, Catch(t)
  PROVE  IndInv'
<1>0. PICK c \in Cases : c = task[t].c
  BY TaskFacts
<1>1. /\ {"fail", "pause", "done"} \subseteq AnalysisPcs \ CallPcs /\ task[t].pc \in {"fail", "pause"}
      /\ Goes(t, "done") /\ UNCHANGED <<late, purged, work, msgs, media, bytes>>
  BY DEF AnalysisPcs, Pcs, FinalisePcs, PurgePcs, CallPcs, Steps, Catch
<1>2. CASE UNCHANGED <<case, leased>>
  BY <1>1, <1>2, PlainAnalysis DEF row
<1>3. CASE ~UNCHANGED <<case, leased>>
  <2>1. PICK state \in {"paused", "complete", "failed"} :
          case' = [case EXCEPT ![c].token = 0, ![c].state = state]
    BY <1>0, <1>3 DEF Catch
  <2>2. case[c].token = task[t].token /\ leased' = leased \ {c}
    BY <1>0, <1>3 DEF Catch
  <2> DEFINE r == [case[c] EXCEPT !.token = 0, !.state = state]
  <2>3. case[c] \in CaseRows /\ CaseOK(case[c], store[c]) /\ task[t].token # 0
    BY <1>0, <1>1, TaskFacts DEF TaskOK, FinalisePcs, PurgePcs
  <2>4. r \in CaseRows /\ r.state = state /\ r.token = 0 /\ r.rev = case[c].rev
    BY <2>3, NoToken DEF CaseRows, CaseStates
  <2>5. case' = [case EXCEPT ![c] = r]
    BY <2>1
  <2>6. case[c].state = "analyzing"
    BY <2>2, <2>3 DEF CaseOK
  <2> HIDE DEF r
  <2>7. CaseOK(r, store[c]) /\ r.state \notin {"none", "deleted"} /\ case[c].state \notin {"none", "deleted"}
    BY <2>3, <2>4, <2>6, Written
  <2> QED
    BY <1>0, <1>1, <2>2, <2>4, <2>5, <2>7, AnalysisWrites
<1> QED
  BY <1>2, <1>3

LEMMA SaveResultStep ==
  ASSUME IndInv, NEW t \in Tasks, SaveResult(t)
  PROVE  IndInv'
<1>0. PICK c \in Cases : c = task[t].c
  BY TaskFacts
<1>1. UNCHANGED <<leased, late, purged, work, msgs, media, bytes>> /\ UNCHANGED <<step, calls>> /\ task[t].pc = "save"
  BY DEF SaveResult, work
<1>2. PICK result \in {"plain", "eligible"}, p \in {"advise", "fail"} :
        /\ task' = [task EXCEPT ![t].pc = p, ![t].result = result]
        /\ case' = case \/ (Fence(t) /\ case' = [case EXCEPT ![c].result = result])
  BY <1>0 DEF SaveResult
<1> DEFINE k == [task[t] EXCEPT !.pc = p, !.result = result]
           r == [case[c] EXCEPT !.result = result]
<1>3. k \in TaskRows /\ k.pc = p /\ k.c = c /\ k.token = task[t].token
  BY <1>0, TaskFacts DEF TaskRows, Pcs, Results
<1>4. Moves(t, k)
  <2>1. task' = [task EXCEPT ![t] = k]
    BY <1>2
  <2> QED
    BY <1>3, <2>1, TaskMoves DEF IndInv
<1>5. case[c] \in CaseRows /\ CaseOK(case[c], store[c]) /\ task[t].token # 0 /\ case[c].state # "none"
  BY <1>0, <1>1, TaskFacts DEF TaskOK, FinalisePcs, PurgePcs
<1>6. r \in CaseRows /\ r.state = case[c].state /\ r.token = case[c].token /\ r.rev = case[c].rev
  BY <1>5 DEF CaseRows, Results
<1>7. case \in [Cases -> CaseRows]
  BY CaseType DEF IndInv
<1>8. PICK q \in CaseRows : /\ case' = [case EXCEPT ![c] = q] /\ q.state = case[c].state
                            /\ q = case[c] \/ (q = r /\ case[c].state = "analyzing")
  <2>1. CASE case' = case
    BY <1>5, <1>7, <2>1
  <2>2. CASE Fence(t) /\ case' = [case EXCEPT ![c].result = result]
    BY <1>0, <1>6, <2>2 DEF Fence
  <2> QED
    BY <1>2, <2>1, <2>2
<1> HIDE DEF k, r
<1>9. Settles(k)
  <2>1. case'[c].state # "none"
    BY <1>5, <1>7, <1>8
  <2> QED
    BY <1>3, <1>5, <2>1 DEF Settles, TaskOK, FinalisePcs, PurgePcs, CallPcs, PutPcs
<1>10. q = case[c] \/ (CaseOK(q, store[c]) /\ q.state \notin {"none", "deleted"} /\ case[c].state \notin {"none", "deleted"})
  BY <1>5, <1>6, <1>8, Written
<1>11. leased' \subseteq leased \cup {c} /\ UNCHANGED <<late, purged, work, msgs, media, bytes>>
  BY <1>1
<1> QED
  BY <1>3, <1>4, <1>8, <1>9, <1>10, <1>11, WriteKeeps

LEMMA ClaimStep ==
  ASSUME IndInv, NEW t \in Tasks, NEW m \in msgs, Claim(t, m)
  PROVE  IndInv'
<1>0. m \in Messages /\ UNCHANGED <<late, purged, work, msgs, media, bytes>> /\ UNCHANGED <<step, calls>>
  BY CaseType DEF IndInv, Claim, work
<1>1. PICK c \in Cases : c = m.c
  BY <1>0 DEF Messages
<1>2. /\ case[c].state \in {"queued", "analyzing"} /\ case[c].attempts < MaxAttempts
      /\ case[c] \in CaseRows /\ CaseOK(case[c], store[c]) /\ case \in [Cases -> CaseRows]
  BY <1>1, CaseType DEF Claim, IndInv, CaseInv
<1> DEFINE n == case[c].attempts + 1
           r == [case[c] EXCEPT !.state = "analyzing", !.attempts = n, !.token = n]
           k == [pc |-> "open", c |-> c, rev |-> m.rev, op |-> m.op, s |-> "none", token |-> n, result |-> case[c].result]
<1>3. n \in 0..MaxAttempts /\ n # 0
  BY <1>2, BetaConstants DEF CaseRows
<1>4. case' = [case EXCEPT ![c] = r] /\ task' = [task EXCEPT ![t] = k] /\ leased' = leased \cup {c}
  BY <1>1 DEF Claim
<1> HIDE DEF n
<1>5. r \in CaseRows /\ r.state = "analyzing" /\ r.rev = case[c].rev
  BY <1>2, <1>3 DEF CaseRows, CaseStates
<1>6. k \in TaskRows /\ k.pc = "open" /\ k.c = c /\ k.token = n
  BY <1>0, <1>1, <1>2, <1>3, BetaConstants DEF TaskRows, Messages, CaseRows, Pcs
<1> HIDE DEF k, r
<1>7. CaseOK(r, store[c]) /\ r.state \notin {"none", "deleted"} /\ case[c].state \notin {"none", "deleted"}
  BY <1>2, <1>5 DEF CaseOK, RevLimit
<1>8. Settles(k)
  <2>1. case'[c] = r
    BY <1>2, <1>4
  <2> QED
    BY <1>3, <1>6, <1>7, <2>1 DEF Settles, TaskOK, FinalisePcs, PurgePcs, CallPcs, PutPcs
<1>9. Moves(t, k)
  BY <1>4, <1>6, TaskMoves DEF IndInv
<1>10. leased' \subseteq leased \cup {c}
  BY <1>4
<1> QED
  BY <1>0, <1>4, <1>5, <1>6, <1>7, <1>8, <1>9, <1>10, WriteKeeps

-----------------------------------------------------------------------------
(* Steps that change the objects of a case or the record of its steps.     *)

TasksMove == task' \in [Tasks -> TaskRows] /\ \A t \in Tasks : task'[t] = task[t] \/ Settles(task'[t])
StepsMove == /\ step' \in [Cases -> StepRows]
             /\ \A c \in Cases, s \in Steps : step'[c][s] = step[c][s] \/ Records(c, s)
ObjectsMove == /\ object' \in [Cases -> SUBSET Objects]
               /\ \A c \in Cases : object'[c] \subseteq object[c] \/ (c \notin aged /\ case[c].state # "none")

LEMMA WorkKeeps ==
  ASSUME IndInv, TasksMove, StepsMove, ObjectsMove, UNCHANGED <<row, calls, msgs, url, aged, bytes>>
  PROVE  IndInv'
<1>0. UNCHANGED <<case, leased, late, purged, store, ledger>>
  BY DEF row, bytes
<1>1. LedgerInv'
  BY <1>0, SameLedger DEF IndInv
<1>2. /\ case' \in [Cases -> CaseRows] /\ store' \in [Cases -> StoreRows]
      /\ leased' \subseteq Cases /\ late' \subseteq Cases /\ msgs' \subseteq Messages /\ url' \subseteq url
      /\ ledger' \in [reserved: Nat, approved: Nat]
  BY <1>0, CaseType DEF IndInv, TypeOK, StoreRows
<1>3. \A c \in Cases : (case'[c] = case[c] /\ store'[c] = store[c]) \/ Evolves(c)
  BY <1>0
<1>4. UNCHANGED <<purged, calls, aged>>
  BY <1>0
<1> QED
  BY <1>1, <1>2, <1>3, <1>4, StepKeeps DEF TasksMove, StepsMove, ObjectsMove

LEMMA TasksMoved ==
  /\ \A t \in Tasks : (\E k \in TaskRows : Moves(t, k) /\ Settles(k)) => TasksMove
  /\ IndInv /\ task' = task => TasksMove
  BY DEF TasksMove, Moves, IndInv, TypeOK, TaskRows

LEMMA StepsMoved ==
  ASSUME IndInv
  PROVE  /\ step' = step => StepsMove
         /\ \A c \in Cases, s \in Steps, v \in {"ambiguous", "completed"} :
              /\ v = "completed" => case[c].state # "deleted"
              /\ step' = IF step[c][s] = "started" THEN [step EXCEPT ![c][s] = v] ELSE step
              => StepsMove
<1>1. step \in [Cases -> StepRows]
  BY DEF IndInv, TypeOK, StepRows
<1>2. step' = step => StepsMove
  BY <1>1 DEF StepsMove
<1>3. ASSUME NEW c \in Cases, NEW s \in Steps, NEW v \in {"ambiguous", "completed"},
             v = "completed" => case[c].state # "deleted",
             step[c][s] = "started", step' = [step EXCEPT ![c][s] = v]
      PROVE  StepsMove
  <2>1. step' \in [Cases -> StepRows]
    BY <1>1, <1>3 DEF StepRows
  <2>2. step'[c][s] = v /\ Records(c, s)
    BY <1>1, <1>3 DEF StepRows, Records
  <2>3. \A d \in Cases, r \in Steps : (d = c /\ r = s) \/ step'[d][r] = step[d][r]
    BY <1>1, <1>3 DEF StepRows
  <2> QED
    BY <2>1, <2>2, <2>3 DEF StepsMove
<1> QED
  BY <1>2, <1>3

LEMMA ObjectsMoved ==
  ASSUME IndInv
  PROVE  /\ object' = object => ObjectsMove
         /\ \A c \in Cases, S \in SUBSET Objects :
              object' = [object EXCEPT ![c] = S] /\ (S \subseteq object[c] \/ (c \notin aged /\ case[c].state # "none"))
              => ObjectsMove
         /\ object \in [Cases -> SUBSET Objects]
<1>1. object \in [Cases -> SUBSET Objects]
  BY DEF IndInv, TypeOK, Objects
<1>2. object' = object => ObjectsMove
  BY <1>1 DEF ObjectsMove
<1>3. ASSUME NEW c \in Cases, NEW S \in SUBSET Objects, object' = [object EXCEPT ![c] = S],
             S \subseteq object[c] \/ (c \notin aged /\ case[c].state # "none")
      PROVE  ObjectsMove
  <2>1. object' \in [Cases -> SUBSET Objects] /\ object'[c] = S /\ \A d \in Cases : d # c => object'[d] = object[d]
    BY <1>1, <1>3
  <2> QED
    BY <1>3, <2>1 DEF ObjectsMove
<1> QED
  BY <1>1, <1>2, <1>3

LEMMA ConsumeMoves ==
  ASSUME IndInv, NEW t \in Tasks, task[t].pc \in CallPcs, Consume(t), case' = case
  PROVE  TasksMove /\ StepsMove
<1>1. task[t].pc \in AnalysisPcs /\ {"settle", "fail"} \subseteq AnalysisPcs \ CallPcs
  BY DEF AnalysisPcs, Pcs, FinalisePcs, PurgePcs, CallPcs, Steps
<1>2. task[t].s \in Steps /\ task[t].c \in Cases /\ case[task[t].c].state # "none"
  BY TaskFacts DEF TaskOK, CallPcs
<1>3. PICK p \in {"settle", "fail"} : Goes(t, p)
  BY DEF Consume, Thrown
<1>4. \E k \in TaskRows : Moves(t, k) /\ Settles(k)
  <2>1. p \in AnalysisPcs \ {"call", "display.put"} /\ (p \in CallPcs => task[t].s \in Steps)
    BY <1>1, <1>2 DEF CallPcs
  <2>2. case'[task[t].c].state # "none"
    BY <1>2
  <2> QED
    BY <1>1, <1>3, <2>1, <2>2, AnalysisGoes
<1>5. StepsMove
  <2>1. PICK c \in Cases, s \in Steps : c = task[t].c /\ s = task[t].s
    BY <1>2
  <2>2. step' = IF step[c][s] = "started" THEN [step EXCEPT ![c][s] = "ambiguous"] ELSE step
    BY <2>1 DEF Consume
  <2> QED
    BY <2>2, StepsMoved
<1> QED
  BY <1>4, <1>5, TasksMoved

LEMMA ProviderFailsStep ==
  ASSUME IndInv, NEW t \in Tasks, ProviderFails(t)
  PROVE  IndInv'
<1>1. /\ task[t].pc \in CallPcs /\ Consume(t) /\ case' = case /\ object' = object
      /\ UNCHANGED <<row, calls, msgs, url, aged, bytes>>
  BY DEF ProviderFails, CallPcs, row, media
<1> QED
  BY <1>1, ConsumeMoves, ObjectsMoved, WorkKeeps

LEMMA FinishStepStep ==
  ASSUME IndInv, NEW t \in Tasks, FinishStep(t)
  PROVE  IndInv'
<1>1. /\ task[t].pc \in CallPcs /\ task[t].pc \in AnalysisPcs /\ case' = case /\ object' = object
      /\ UNCHANGED <<row, calls, msgs, url, aged, bytes>>
  BY DEF FinishStep, CallPcs, AnalysisPcs, Pcs, FinalisePcs, PurgePcs, row, media
<1>2. CASE Consume(t)
  BY <1>1, <1>2, ConsumeMoves, ObjectsMoved, WorkKeeps
<1>3. CASE Fence(t)
  <2>1. PICK c \in Cases, s \in Steps : c = task[t].c /\ s = task[t].s /\ case[c].state = "analyzing"
    BY <1>1, <1>3, TaskFacts DEF TaskOK, Fence
  <2>2. step' = IF step[c][s] = "started" THEN [step EXCEPT ![c][s] = "completed"] ELSE step
    BY <1>3, <2>1 DEF FinishStep
  <2>3. StepsMove
    BY <2>1, <2>2, StepsMoved
  <2>4. PICK p \in {"branch", "save", "advised"} : Goes(t, p)
    BY <1>3, <2>1 DEF FinishStep, After, Steps
  <2>5. p \in AnalysisPcs \ {"call", "display.put"} /\ (p \in CallPcs => task[t].s \in Steps)
    BY DEF CallPcs, AnalysisPcs, Pcs, FinalisePcs, PurgePcs
  <2>6. case'[task[t].c].state # "none"
    BY <1>1, <2>1
  <2>7. \E k \in TaskRows : Moves(t, k) /\ Settles(k)
    BY <1>1, <2>4, <2>5, <2>6, AnalysisGoes
  <2> QED
    BY <1>1, <2>3, <2>7, TasksMoved, ObjectsMoved, WorkKeeps
<1> QED
  BY <1>2, <1>3 DEF FinishStep

\* A lease is not held for a case whose waits are over.
LEMMA FencedIsLive ==
  ASSUME IndInv, NEW t \in Tasks, Fence(t)
  PROVE  task[t].c \notin aged /\ case[task[t].c].state = "analyzing"
  BY DEF IndInv, AgedInv, Fence

\* The step goes on with its display copy.
LEMMA DisplayGoes ==
  ASSUME IndInv, NEW t \in Tasks, task[t].pc \in CallPcs, NEW p \in CallPcs \ {"call"}, Goes(t, p), case' = case,
         p = "display.put" => Fence(t)
  PROVE  TasksMove
<1> DEFINE k == [task[t] EXCEPT !.pc = p]
<1>1. p \in Pcs /\ task[t] \in TaskRows /\ task[t].token # 0 /\ task[t].s \in Steps /\ case[task[t].c].state # "none"
  BY TaskFacts DEF TaskOK, CallPcs, FinalisePcs, PurgePcs, Pcs
<1>2. k \in TaskRows /\ k.pc = p /\ k.c = task[t].c /\ k.token = task[t].token /\ k.s = task[t].s
  BY <1>1 DEF TaskRows
<1>3. Moves(t, k)
  BY <1>1, TaskMoves DEF IndInv
<1> HIDE DEF k
<1>4. p \in PutPcs => k.c \notin aged
  BY <1>2, FencedIsLive DEF CallPcs, PutPcs
<1>5. Settles(k)
  BY <1>1, <1>2, <1>4 DEF Settles, TaskOK, CallPcs, FinalisePcs, PurgePcs
<1> QED
  BY <1>2, <1>3, <1>5, TasksMoved

LEMMA CheckDisplayStep ==
  ASSUME IndInv, NEW t \in Tasks, CheckDisplay(t)
  PROVE  IndInv'
<1>1. /\ task[t].pc \in CallPcs /\ case' = case /\ object' = object
      /\ UNCHANGED <<row, calls, msgs, url, aged, bytes>>
  BY DEF CheckDisplay, CallPcs, row, media
<1>2. CASE Consume(t)
  BY <1>1, <1>2, ConsumeMoves, ObjectsMoved, WorkKeeps
<1>3. CASE Fence(t)
  <2>1. Goes(t, "display.put") /\ step' = step /\ "display.put" \in CallPcs \ {"call"}
    BY <1>3 DEF CheckDisplay, CallPcs
  <2>2. TasksMove
    BY <1>1, <1>3, <2>1, DisplayGoes
  <2> QED
    BY <1>1, <2>1, <2>2, StepsMoved, ObjectsMoved, WorkKeeps
<1> QED
  BY <1>2, <1>3 DEF CheckDisplay

LEMMA PutDisplayStep ==
  ASSUME IndInv, NEW t \in Tasks, PutDisplay(t)
  PROVE  IndInv'
<1>1. /\ task[t].pc = "display.put" /\ task[t].pc \in CallPcs /\ case' = case /\ step' = step
      /\ UNCHANGED <<row, calls, msgs, url, aged, bytes>>
      /\ Goes(t, "display.check") /\ "display.check" \in CallPcs \ {"call"}
  BY DEF PutDisplay, CallPcs, row, work
<1>2. TasksMove
  BY <1>1, DisplayGoes
<1>3. PICK c \in Cases : c = task[t].c
  BY TaskFacts
<1>4. c \notin aged /\ case[c].state # "none"
  BY <1>1, <1>3, TaskFacts DEF IndInv, AgedInv, PutPcs, TaskOK
<1>5. object' = [object EXCEPT ![c] = object[c] \cup {"display"}]
  BY <1>3, ObjectsMoved DEF PutDisplay
<1>6. object[c] \cup {"display"} \in SUBSET Objects
  BY ObjectsMoved DEF Objects
<1>7. ObjectsMove
  BY <1>4, <1>5, <1>6, ObjectsMoved
<1> QED
  BY <1>1, <1>2, <1>7, StepsMoved, WorkKeeps

LEMMA RecheckDisplayStep ==
  ASSUME IndInv, NEW t \in Tasks, RecheckDisplay(t)
  PROVE  IndInv'
<1>1. /\ task[t].pc \in CallPcs /\ case' = case /\ UNCHANGED <<row, calls, msgs, url, aged, bytes>>
  BY DEF RecheckDisplay, CallPcs, row
<1>2. CASE ~Fence(t)
  <2>1. PICK c \in Cases : c = task[t].c
    BY TaskFacts
  <2>2. Consume(t) /\ object' = [object EXCEPT ![c] = object[c] \ {"display"}]
    BY <1>2, <2>1, ObjectsMoved DEF RecheckDisplay
  <2>3. object[c] \ {"display"} \in SUBSET Objects /\ object[c] \ {"display"} \subseteq object[c]
    BY ObjectsMoved
  <2>4. ObjectsMove
    BY <2>2, <2>3, ObjectsMoved
  <2> QED
    BY <1>1, <2>2, <2>4, ConsumeMoves, WorkKeeps
<1>3. CASE Fence(t)
  <2>1. Goes(t, "display.charge") /\ UNCHANGED <<step, object>> /\ "display.charge" \in CallPcs \ {"call"}
    BY <1>3 DEF RecheckDisplay, CallPcs
  <2>2. TasksMove
    BY <1>1, <1>3, <2>1, DisplayGoes
  <2> QED
    BY <1>1, <2>1, <2>2, StepsMoved, ObjectsMoved, WorkKeeps
<1> QED
  BY <1>2, <1>3

\* The task of a finalise request ends, or goes on without writing.
LEMMA FinaliseGoes ==
  ASSUME IndInv, NEW t \in Tasks, task[t].pc \in FinalisePcs, case'[task[t].c].state # "none",
         Ends(t) \/ \E p \in FinalisePcs \ PutPcs : Goes(t, p)
  PROVE  TasksMove
<1>1. CASE Ends(t)
  BY <1>1, TaskMoves, TaskType, IdleSettles, TasksMoved DEF IndInv
<1>2. ASSUME NEW p \in FinalisePcs \ PutPcs, Goes(t, p)
      PROVE  TasksMove
  <2> DEFINE k == [task[t] EXCEPT !.pc = p]
  <2>1. p \in Pcs /\ task[t] \in TaskRows
    BY TaskFacts DEF FinalisePcs, Pcs
  <2>2. k \in TaskRows /\ k.pc = p /\ k.c = task[t].c
    BY <2>1 DEF TaskRows
  <2>3. Moves(t, k)
    BY <1>2, <2>1, TaskMoves DEF IndInv
  <2> HIDE DEF k
  <2>4. Settles(k)
    BY <2>2 DEF Settles, TaskOK, CallPcs, FinalisePcs, PurgePcs
  <2> QED
    BY <2>2, <2>3, <2>4, TasksMoved
<1> QED
  BY <1>1, <1>2

LEMMA FinaliseObjectsStep ==
  ASSUME IndInv, NEW t \in Tasks, FinalisePut(t) \/ FinaliseCatch(t) \/ FinaliseClean(t)
  PROVE  IndInv'
<1>1. /\ task[t].pc \in FinalisePcs /\ case' = case /\ step' = step
      /\ UNCHANGED <<row, calls, msgs, url, aged, bytes>>
  BY DEF FinalisePut, FinaliseCatch, FinaliseClean, FinalisePcs, row, work
<1>2. PICK c \in Cases : c = task[t].c
  BY TaskFacts
<1>3. case[c].state # "none"
  BY <1>1, <1>2, TaskFacts DEF TaskOK, FinalisePcs
<1>4. Ends(t) \/ \E p \in FinalisePcs \ PutPcs : Goes(t, p)
  BY DEF FinalisePut, FinaliseCatch, FinaliseClean, FinalisePcs, PutPcs
<1>5. TasksMove
  BY <1>1, <1>2, <1>3, <1>4, FinaliseGoes
<1>6. object \in [Cases -> SUBSET Objects] /\ object[c] \in SUBSET Objects
  BY ObjectsMoved
<1>7. CASE FinalisePut(t)
  <2>1. object' = [object EXCEPT ![c] = object[c] \cup {"original"}] /\ task[t].pc = "finalise.put"
    BY <1>2, <1>6, <1>7 DEF FinalisePut
  <2>2. object[c] \cup {"original"} \in SUBSET Objects /\ c \notin aged
    BY <1>2, <1>6, <2>1 DEF Objects, IndInv, AgedInv, PutPcs
  <2>3. ObjectsMove
    BY <1>3, <2>1, <2>2, ObjectsMoved
  <2> QED
    BY <1>1, <1>5, <2>3, StepsMoved, WorkKeeps
<1>8. CASE FinaliseCatch(t) \/ FinaliseClean(t)
  <2>1. PICK S \in SUBSET Objects : S \subseteq object[c] /\ object' = [object EXCEPT ![c] = S]
    <3>1. object' = object => object' = [object EXCEPT ![c] = object[c]]
      BY <1>6
    <3>2. /\ object[c] \ {"original"} \in SUBSET Objects /\ object[c] \ {"upload"} \in SUBSET Objects
          /\ object[c] \ {"original"} \subseteq object[c] /\ object[c] \ {"upload"} \subseteq object[c]
      BY <1>6
    <3>3. \/ object' = [object EXCEPT ![c] = object[c] \ {"original"}]
          \/ object' = [object EXCEPT ![c] = object[c] \ {"upload"}]
          \/ object' = object
      BY <1>2, <1>6, <1>8 DEF FinaliseCatch, FinaliseClean
    <3> QED
      BY <1>6, <3>1, <3>2, <3>3
  <2>2. ObjectsMove
    BY <2>1, ObjectsMoved
  <2> QED
    BY <1>1, <1>5, <2>2, StepsMoved, WorkKeeps
<1> QED
  BY <1>7, <1>8

LEMMA UploadStep ==
  ASSUME IndInv, NEW c \in Cases, Upload(c)
  PROVE  IndInv'
<1>1. task' = task /\ step' = step /\ UNCHANGED <<row, calls, msgs, url, aged, bytes>>
  BY DEF Upload, work
<1>2. c \notin aged /\ case[c].state # "none"
  BY DEF Upload, IndInv, AgedInv, ObjectInv
<1>3. object' = [object EXCEPT ![c] = object[c] \cup {"upload"}] /\ object[c] \cup {"upload"} \in SUBSET Objects
  BY ObjectsMoved DEF Upload, Objects
<1>4. ObjectsMove
  BY <1>2, <1>3, ObjectsMoved
<1> QED
  BY <1>1, <1>4, TasksMoved, StepsMoved, WorkKeeps

LEMMA ExpireStepsStep ==
  ASSUME IndInv, ExpireSteps
  PROVE  IndInv'
<1>1. task' = task /\ object' = object /\ UNCHANGED <<row, calls, msgs, url, aged, bytes>>
  BY DEF ExpireSteps, media
<1>2. StepsMove
  <2>1. \A c \in Cases, s \in Steps :
          step'[c][s] = step[c][s] \/ (step[c][s] = "started" /\ step'[c][s] = "ambiguous")
    BY DEF ExpireSteps
  <2>2. step \in [Cases -> StepRows]
    BY DEF IndInv, TypeOK, StepRows
  <2>3. \A c \in Cases, s \in Steps : step'[c][s] \in {"none", "started", "completed", "ambiguous", "wiped"}
    BY <2>1, <2>2 DEF StepRows
  <2>4. step' \in [Cases -> StepRows]
    BY <2>3 DEF ExpireSteps, StepRows
  <2> QED
    BY <2>1, <2>4 DEF StepsMove, Records
<1> QED
  BY <1>1, <1>2, TasksMoved, ObjectsMoved, WorkKeeps

LEMMA PurgeObjectsStep ==
  ASSUME IndInv, NEW t \in Tasks, PurgeObjects(t)
  PROVE  IndInv'
<1>1. /\ task[t].pc = "purge.delete" /\ case' = case /\ step' = step
      /\ UNCHANGED <<row, calls, msgs, url, aged, bytes>>
  BY DEF PurgeObjects, row, work
<1>2. PICK c \in Cases : c = task[t].c
  BY TaskFacts
<1>3. object' = [object EXCEPT ![c] = {}] /\ ObjectsMove /\ object'[c] = {}
  <2>1. object' = [object EXCEPT ![c] = {}] /\ {} \in SUBSET Objects /\ {} \subseteq object[c]
    BY <1>2 DEF PurgeObjects
  <2>2. ObjectsMove
    BY <2>1, ObjectsMoved
  <2> QED
    BY <2>1, <2>2, ObjectsMoved
<1> DEFINE k == [task[t] EXCEPT !.pc = "purge.mark"]
<1>4. k \in TaskRows /\ k.pc = "purge.mark" /\ k.c = c
  BY <1>2, TaskFacts DEF TaskRows, Pcs
<1>5. Moves(t, k)
  BY TaskMoves DEF PurgeObjects, IndInv, Pcs
<1> HIDE DEF k
<1>6. case[c].state = "deleted"
  BY <1>1, <1>2, TaskFacts DEF TaskOK, PurgePcs
<1>7. Settles(k)
  BY <1>1, <1>3, <1>4, <1>6 DEF Settles, TaskOK, CallPcs, FinalisePcs, PurgePcs, PutPcs
<1> QED
  BY <1>1, <1>3, <1>4, <1>5, <1>7, TasksMoved, StepsMoved, WorkKeeps

-----------------------------------------------------------------------------
(* Steps that change the storage of a case and the ledger.                 *)

\* The ledger holds at least what a case does that is not purged.
LEMMA LedgerCovers ==
  ASSUME IndInv, NEW c \in Unpurged
  PROVE  /\ ledger.reserved >= store[c].reserved /\ ledger.approved >= store[c].display + store[c].owned
         /\ ledger \in [reserved: Nat, approved: Nat] /\ ledger.reserved \in Nat /\ ledger.approved \in Nat
         /\ store[c] \in StoreRows /\ c \in Cases
<1>0. TypeOK /\ LedgerInv /\ c \in Cases /\ store[c] \in StoreRows /\ ledger \in [reserved: Nat, approved: Nat]
  BY CaseType DEF IndInv, Unpurged, TypeOK
<1>1. PICK f \in Sizes : f = ReservedOf
  BY <1>0, SizesOf
<1>2. PICK g \in Sizes : g = StoredOf
  BY <1>0, SizesOf
<1>3. Unpurged \in SUBSET Cases
  BY <1>0, SizesOf
<1>4. Total(f, Unpurged) = Total(f, Unpurged \ {c}) + f[c] /\ Total(f, Unpurged \ {c}) \in Nat /\ f[c] \in Nat
  BY <1>3, TotalWithout
<1>5. Total(g, Unpurged) = Total(g, Unpurged \ {c}) + g[c] /\ Total(g, Unpurged \ {c}) \in Nat /\ g[c] \in Nat
  BY <1>3, TotalWithout
<1>6. f[c] = store[c].reserved /\ g[c] = store[c].display + store[c].owned
  BY <1>0, <1>1, <1>2 DEF ReservedOf, StoredOf
<1>7. ledger.reserved = OtherBytes + Total(f, Unpurged) /\ ledger.approved = OtherBytes + Total(g, Unpurged)
  BY <1>0, <1>1, <1>2 DEF LedgerInv
<1> QED
  BY <1>0, <1>4, <1>5, <1>6, <1>7, BetaConstants

\* One case changes what it holds, and the ledger follows.
LEMMA LedgerMoves ==
  ASSUME IndInv, NEW c \in Unpurged, purged' = purged, store' \in [Cases -> StoreRows],
         \A d \in Cases \ {c} : store'[d] = store[d],
         ledger'.reserved = ledger.reserved - store[c].reserved + store'[c].reserved,
         ledger'.approved = ledger.approved - (store[c].display + store[c].owned) + (store'[c].display + store'[c].owned)
  PROVE  LedgerInv'
<1>0. TypeOK /\ LedgerInv /\ c \in Cases /\ Unpurged' = Unpurged
  BY DEF IndInv, Unpurged
<1>1. PICK f \in Sizes : f = ReservedOf
  BY <1>0, SizesOf
<1>2. PICK g \in Sizes : g = StoredOf
  BY <1>0, SizesOf
<1>3. PICK S \in SUBSET Cases : S = Unpurged
  BY <1>0, SizesOf
<1>4. \A d \in Cases : store'[d].reserved \in 0..2 /\ store'[d].display \in 0..1 /\ store'[d].owned \in 0..1
  BY DEF StoreRows
<1>5. PICK h \in Sizes : h = ReservedOf'
  BY <1>4 DEF Sizes, ReservedOf
<1>6. PICK k \in Sizes : k = StoredOf'
  <2>1. \A d \in Cases : store'[d].display + store'[d].owned \in 0..2
    BY <1>4
  <2> QED
    BY <2>1 DEF Sizes, StoredOf
<1>7. c \in S /\ (\A d \in S \ {c} : h[d] = f[d]) /\ f[c] = store[c].reserved /\ h[c] = store'[c].reserved
  BY <1>0, <1>1, <1>3, <1>5 DEF ReservedOf
<1>8. /\ \A d \in S \ {c} : k[d] = g[d]
      /\ g[c] = store[c].display + store[c].owned /\ k[c] = store'[c].display + store'[c].owned
  BY <1>0, <1>2, <1>3, <1>6 DEF StoredOf
<1>9. /\ Total(h, S) = Total(f, S) - f[c] + h[c]
      /\ Total(f, S) >= f[c] /\ Total(f, S) \in Nat /\ f[c] \in Nat /\ h[c] \in Nat
  BY <1>7, TotalChange
<1>10. /\ Total(k, S) = Total(g, S) - g[c] + k[c]
       /\ Total(g, S) >= g[c] /\ Total(g, S) \in Nat /\ g[c] \in Nat /\ k[c] \in Nat
  BY <1>3, <1>8, TotalChange
<1>11. ledger.reserved = OtherBytes + Total(f, S) /\ ledger.approved = OtherBytes + Total(g, S)
  BY <1>0, <1>1, <1>2, <1>3 DEF LedgerInv
<1>12. ledger'.reserved = OtherBytes + Total(h, S) /\ ledger'.approved = OtherBytes + Total(k, S)
  BY <1>7, <1>8, <1>9, <1>10, <1>11, BetaConstants
<1> QED
  BY <1>0, <1>3, <1>5, <1>6, <1>12 DEF LedgerInv

\* A case under way whose row becomes r and whose storage becomes st.
LEMMA ChargeKeeps ==
  ASSUME IndInv, TasksMove, NEW c \in Cases, NEW r \in CaseRows, NEW st \in StoreRows,
         case' = [case EXCEPT ![c] = r], store' = [store EXCEPT ![c] = st], CaseOK(r, st),
         case[c].state \notin {"none", "deleted"}, r.state \notin {"none", "deleted"},
         ledger' \in [reserved: Nat, approved: Nat],
         ledger'.reserved = ledger.reserved - store[c].reserved + st.reserved,
         ledger'.approved = ledger.approved - (store[c].display + store[c].owned) + (st.display + st.owned),
         msgs' \subseteq Messages, UNCHANGED <<leased, late, purged, work, media>>
  PROVE  IndInv'
<1>0. UNCHANGED <<leased, late, purged, step, calls, object, url, aged>>
  BY DEF work, media
<1>1. case \in [Cases -> CaseRows] /\ store \in [Cases -> StoreRows] /\ leased' \subseteq Cases /\ late' \subseteq Cases
  BY <1>0, CaseType DEF IndInv, TypeOK, StoreRows
<1>2. case' \in [Cases -> CaseRows] /\ store' \in [Cases -> StoreRows]
  BY <1>1
<1>3. case'[c] = r /\ store'[c] = st /\ \A d \in Cases \ {c} : case'[d] = case[d] /\ store'[d] = store[d]
  BY <1>1
<1>4. c \in Unpurged
  BY DEF IndInv, AgedInv, Unpurged
<1>5. LedgerInv'
  BY <1>0, <1>2, <1>3, <1>4, LedgerMoves
<1>6. \A d \in Cases : (case'[d] = case[d] /\ store'[d] = store[d]) \/ Evolves(d)
  BY <1>3 DEF Evolves
<1>7. StepsMove /\ ObjectsMove
  BY <1>0, StepsMoved, ObjectsMoved
<1>8. url' \subseteq url /\ UNCHANGED <<purged, calls, aged>>
  BY <1>0
<1> QED
  BY <1>1, <1>2, <1>5, <1>6, <1>7, <1>8, StepKeeps DEF TasksMove, StepsMove, ObjectsMove

LEMMA FinaliseCommitStep ==
  ASSUME IndInv, NEW t \in Tasks, FinaliseCommit(t)
  PROVE  IndInv'
<1>0. PICK c \in Cases : c = task[t].c
  BY TaskFacts
<1>1. task[t].pc \in FinalisePcs /\ case[c].state # "none" /\ UNCHANGED <<leased, late, purged, work, media>>
  BY <1>0, TaskFacts DEF FinaliseCommit, FinalisePcs, TaskOK
<1>2. \E p \in FinalisePcs \ PutPcs : Goes(t, p)
  BY DEF FinaliseCommit, FinalisePcs, PutPcs
<1>3. CASE UNCHANGED <<case, bytes, msgs>>
  <2>1. TasksMove
    BY <1>0, <1>1, <1>2, <1>3, FinaliseGoes
  <2>2. step' = step /\ object' = object /\ UNCHANGED <<row, calls, msgs, url, aged, bytes>>
    BY <1>1, <1>3 DEF work, media, row
  <2> QED
    BY <2>1, <2>2, StepsMoved, ObjectsMoved, WorkKeeps
<1>4. CASE ~UNCHANGED <<case, bytes, msgs>>
  <2>1. /\ case[c].state = "uploading" /\ case' = [case EXCEPT ![c].state = "queued"]
        /\ store' = [store EXCEPT ![c].reserved = @ - 1, ![c].owned = 1]
        /\ ledger' = [reserved |-> Monus(ledger.reserved, 1), approved |-> ledger.approved + 1]
        /\ msgs' = msgs \cup {[c |-> c, rev |-> case[c].rev, op |-> "analysis"]}
    BY <1>0, <1>4 DEF FinaliseCommit
  <2>2. /\ case \in [Cases -> CaseRows] /\ store \in [Cases -> StoreRows]
        /\ case[c] \in CaseRows /\ CaseOK(case[c], store[c]) /\ msgs \subseteq Messages
    BY CaseType DEF IndInv, CaseInv, TypeOK, StoreRows
  <2>3. store[c] = Reserved
    BY <2>1, <2>2 DEF CaseOK
  <2> DEFINE r == [case[c] EXCEPT !.state = "queued"]
  <2>4. case' = [case EXCEPT ![c] = r] /\ store' = [store EXCEPT ![c] = Original]
    BY <2>1, <2>2, <2>3 DEF Reserved, Original
  <2>5. r \in CaseRows /\ r.state = "queued" /\ r.rev = case[c].rev /\ r.token = case[c].token
    BY <2>2 DEF CaseRows, CaseStates
  <2>6. Original \in StoreRows
    BY DEF Original, StoreRows
  <2> HIDE DEF r
  <2>7. CaseOK(r, Original)
    BY <2>1, <2>2, <2>5 DEF CaseOK, RevLimit, Original, Reserved
  <2>8. case'[c].state # "none"
    BY <2>2, <2>4, <2>5
  <2>9. TasksMove
    BY <1>0, <1>1, <1>2, <2>8, FinaliseGoes
  <2>10. c \in Unpurged
    BY <2>1 DEF IndInv, AgedInv, Unpurged
  <2>11. /\ ledger' \in [reserved: Nat, approved: Nat]
         /\ ledger'.reserved = ledger.reserved - store[c].reserved + Original.reserved
         /\ ledger'.approved = ledger.approved - (store[c].display + store[c].owned) + (Original.display + Original.owned)
    <3>1. store[c].reserved = 2 /\ store[c].display = 0 /\ store[c].owned = 0
      BY <2>3 DEF Reserved
    <3>2. Original.reserved = 1 /\ Original.display = 0 /\ Original.owned = 1
      BY DEF Original
    <3>3. ledger.reserved \in Nat /\ ledger.approved \in Nat /\ ledger.reserved >= 2
      BY <2>10, <3>1, LedgerCovers
    <3> QED
      BY <2>1, <3>1, <3>2, <3>3 DEF Monus
  <2>12. msgs' \subseteq Messages
    BY <2>1, <2>2 DEF Messages, CaseRows
  <2> QED
    BY <1>1, <2>1, <2>4, <2>5, <2>6, <2>7, <2>9, <2>11, <2>12, ChargeKeeps
<1> QED
  BY <1>3, <1>4

LEMMA ChargeDisplayStep ==
  ASSUME IndInv, NEW t \in Tasks, ChargeDisplay(t)
  PROVE  IndInv'
<1>0. PICK c \in Cases : c = task[t].c
  BY TaskFacts
<1>1. task[t].pc \in CallPcs /\ UNCHANGED <<row, calls, msgs, media>> /\ case' = case
  BY DEF ChargeDisplay, CallPcs, row
<1>2. CASE ~Fence(t)
  <2>1. Consume(t) /\ object' = object /\ UNCHANGED <<row, calls, msgs, url, aged, bytes>>
    BY <1>1, <1>2 DEF ChargeDisplay, media
  <2> QED
    BY <1>1, <2>1, ConsumeMoves, ObjectsMoved, WorkKeeps
<1>3. CASE Fence(t)
  <2>1. /\ ledger' = [reserved |-> Monus(ledger.reserved, store[c].reserved),
                      approved |-> ledger.approved + 1 - store[c].display]
        /\ store' = [store EXCEPT ![c].reserved = 0, ![c].display = 1]
        /\ Goes(t, "finish") /\ step' = step
    BY <1>0, <1>3 DEF ChargeDisplay
  <2>2. /\ case \in [Cases -> CaseRows] /\ store \in [Cases -> StoreRows]
        /\ case[c] \in CaseRows /\ CaseOK(case[c], store[c]) /\ case[c].state = "analyzing"
    BY <1>0, <1>3, CaseType DEF IndInv, CaseInv, TypeOK, StoreRows, Fence
  <2>3. store[c] \in {Original, Displayed}
    BY <2>2 DEF CaseOK
  <2>4. case' = [case EXCEPT ![c] = case[c]] /\ store' = [store EXCEPT ![c] = Displayed]
    <3>1. [store[c] EXCEPT !.reserved = 0, !.display = 1] = Displayed
      <4> DEFINE e == [store[c] EXCEPT !.reserved = 0, !.display = 1]
      <4>1. store[c] \in StoreRows /\ store[c].owned = 1
        BY <2>2, <2>3 DEF Original, Displayed
      <4>2. e \in StoreRows /\ e.reserved = 0 /\ e.display = 1 /\ e.owned = 1
        <5>1. 0 \in 0..2 /\ 1 \in 0..1
          OBVIOUS
        <5>2. e.reserved = 0 /\ e.display = 1 /\ e.owned = store[c].owned
          BY <4>1 DEF StoreRows
        <5>3. e \in StoreRows
          BY <4>1, <5>1 DEF StoreRows
        <5> QED
          BY <4>1, <5>2, <5>3
      <4> HIDE DEF e
      <4>3. e = Displayed
        BY <4>2 DEF StoreRows, Displayed
      <4> QED
        BY <4>3 DEF e
    <3>2. store' = [store EXCEPT ![c] = [store[c] EXCEPT !.reserved = 0, !.display = 1]]
      BY <2>1, <2>2
    <3> QED
      BY <1>1, <2>2, <3>1, <3>2
  <2>5. Displayed \in StoreRows /\ CaseOK(case[c], Displayed)
    BY <2>2 DEF Displayed, StoreRows, CaseOK, Reserved
  <2>6. TasksMove
    BY <1>1, <2>1, DisplayGoes DEF CallPcs
  <2>7. c \in Unpurged
    BY <2>2 DEF IndInv, AgedInv, Unpurged
  <2>8. /\ ledger' \in [reserved: Nat, approved: Nat]
        /\ ledger'.reserved = ledger.reserved - store[c].reserved + Displayed.reserved
        /\ ledger'.approved = ledger.approved - (store[c].display + store[c].owned) + (Displayed.display + Displayed.owned)
    <3>1. Displayed.reserved = 0 /\ Displayed.display = 1 /\ Displayed.owned = 1
      BY DEF Displayed
    <3>2. store[c].reserved \in 0..1 /\ store[c].display \in 0..1 /\ store[c].owned = 1
      BY <2>3 DEF Original, Displayed
    <3>3. /\ ledger.reserved \in Nat /\ ledger.approved \in Nat
          /\ ledger.reserved >= store[c].reserved /\ ledger.approved >= store[c].display + store[c].owned
      BY <2>7, LedgerCovers
    <3> QED
      BY <2>1, <3>1, <3>2, <3>3 DEF Monus
  <2>9. msgs' \subseteq Messages /\ UNCHANGED <<leased, late, purged, work, media>>
    BY <1>1, <2>1, CaseType DEF row, work, IndInv
  <2>10. case[c].state \notin {"none", "deleted"}
    BY <2>2
  <2> QED
    BY <2>2, <2>4, <2>5, <2>6, <2>8, <2>9, <2>10, ChargeKeeps
<1> QED
  BY <1>2, <1>3

LEMMA CreateCaseStep ==
  ASSUME IndInv, NEW c \in Cases, CreateCase(c)
  PROVE  IndInv'
<1> USE DEF IndInv
<1>0. /\ UNCHANGED <<leased, late, purged, step, calls, msgs, object, aged, task>>
      /\ case[c].state = "none" /\ url' = url \cup {c}
  BY DEF CreateCase, work
<1>1. /\ case \in [Cases -> CaseRows] /\ store \in [Cases -> StoreRows]
      /\ case[c] \in CaseRows /\ CaseOK(case[c], store[c]) /\ store[c] = Nothing
  BY <1>0, CaseType DEF CaseInv, TypeOK, StoreRows, CaseOK
<1> DEFINE r == [case[c] EXCEPT !.state = "uploading"]
<1>2. case' = [case EXCEPT ![c] = r] /\ r \in CaseRows /\ r.state = "uploading" /\ r.rev = case[c].rev /\ r.token = case[c].token
  BY <1>1 DEF CreateCase, CaseRows, CaseStates
<1>3. store' = [store EXCEPT ![c] = Reserved] /\ Reserved \in StoreRows
  <2>1. store' = [store EXCEPT ![c] = [store[c] EXCEPT !.reserved = 2]]
    BY <1>1 DEF CreateCase
  <2>2. [store[c] EXCEPT !.reserved = 2] = Reserved
    BY <1>1 DEF Nothing, Reserved
  <2>3. Reserved \in StoreRows
    BY DEF Reserved, StoreRows
  <2> QED
    BY <2>1, <2>2, <2>3
<1> HIDE DEF r
<1>4. /\ case' \in [Cases -> CaseRows] /\ store' \in [Cases -> StoreRows] /\ case'[c] = r /\ store'[c] = Reserved
      /\ \A d \in Cases \ {c} : case'[d] = case[d] /\ store'[d] = store[d]
  BY <1>1, <1>2, <1>3
<1>5. c \notin aged /\ c \in Unpurged
  BY <1>0 DEF AgedInv, Unpurged
<1>6. /\ ledger' \in [reserved: Nat, approved: Nat]
      /\ ledger'.reserved = ledger.reserved + 2 /\ ledger'.approved = ledger.approved
  BY <1>5, LedgerCovers DEF CreateCase
<1>7. LedgerInv'
  <2>1. store[c].reserved = 0 /\ store[c].display = 0 /\ store[c].owned = 0
    BY <1>1 DEF Nothing
  <2>2. store'[c].reserved = 2 /\ store'[c].display = 0 /\ store'[c].owned = 0
    BY <1>4 DEF Reserved
  <2>3. ledger.reserved \in Nat /\ ledger.approved \in Nat
    BY <1>5, LedgerCovers
  <2>4. /\ ledger'.reserved = ledger.reserved - store[c].reserved + store'[c].reserved
        /\ ledger'.approved = ledger.approved - (store[c].display + store[c].owned) + (store'[c].display + store'[c].owned)
    BY <1>6, <2>1, <2>2, <2>3
  <2> QED
    BY <1>0, <1>4, <1>5, <2>4, LedgerMoves
<1>8. TypeOK'
  BY <1>0, <1>4, <1>6 DEF TypeOK, CaseRows, StoreRows
<1>9. CaseInv'
  <2>1. CaseOK(r, Reserved)
    BY <1>0, <1>1, <1>2 DEF CaseOK, RevLimit
  <2> QED
    BY <1>4, <2>1 DEF CaseInv
<1>10. TaskInv'
  <2> SUFFICES ASSUME NEW t \in Tasks
               PROVE  TaskOK(task[t], case'[task[t].c], step[task[t].c], calls[task[t].c])
    BY <1>0 DEF TaskInv
  <2>1. task[t].c = c => task[t].pc = "idle"
    BY <1>0, TaskFacts DEF TaskOK
  <2> QED
    BY <1>4, <2>1, TaskFacts DEF TaskOK, FinalisePcs, PurgePcs, CallPcs
<1>11. CallInv' /\ OneCallPerStep'
  BY <1>0 DEF CallInv, OneCallPerStep
<1>12. ObjectInv'
  BY <1>0, <1>2, <1>4 DEF ObjectInv
<1>13. AgedInv'
  <2>1. aged \subseteq Cases
    BY DEF TypeOK
  <2> QED
    BY <1>0, <1>4, <1>5, <2>1 DEF AgedInv
<1>14. DeletionIsThorough'
  BY <1>0, <1>2, <1>4 DEF DeletionIsThorough, Deleted
<1> QED
  BY <1>7, <1>8, <1>9, <1>10, <1>11, <1>12, <1>13, <1>14

-----------------------------------------------------------------------------
(* Deletion and purge.                                                     *)

LEMMA DeleteStep ==
  ASSUME IndInv, NEW c \in Cases, Delete(c)
  PROVE  IndInv'
<1> USE DEF IndInv
<1>0. /\ UNCHANGED <<late, purged, calls, msgs, object, url, aged, store, ledger, task>>
      /\ case[c].state \notin {"none", "deleted"} /\ leased' \subseteq leased
  BY DEF Delete, media, bytes
<1>1. /\ case \in [Cases -> CaseRows] /\ step \in [Cases -> StepRows]
      /\ case[c] \in CaseRows /\ CaseOK(case[c], store[c])
  BY CaseType DEF CaseInv, TypeOK, StepRows
<1> DEFINE n == case[c].rev + 1
           r == [case[c] EXCEPT !.state = "deleted", !.rev = n, !.token = 0, !.result = "none"]
<1>2. n \in 1..(MaxRev + 2) /\ n <= RevLimit("deleted")
  BY <1>0, <1>1, BetaConstants DEF CaseOK, CaseRows, RevLimit
<1>3. case' = [case EXCEPT ![c] = r]
  BY <1>1 DEF Delete
<1> HIDE DEF n
<1>4. r \in CaseRows /\ r.state = "deleted" /\ r.rev = n /\ r.token = 0 /\ r.result = "none"
  BY <1>1, <1>2, NoToken DEF CaseRows, CaseStates, Results
<1> HIDE DEF r
<1>5. case' \in [Cases -> CaseRows] /\ case'[c] = r /\ \A d \in Cases \ {c} : case'[d] = case[d]
  BY <1>1, <1>3, <1>4
<1>6. /\ \A s \in Steps : step'[c][s] = IF step[c][s] = "completed" THEN "wiped" ELSE step[c][s]
      /\ \A d \in Cases \ {c} : step'[d] = step[d]
      /\ step' \in [Cases -> StepRows]
  <2> DEFINE w == [s \in Steps |-> IF step[c][s] = "completed" THEN "wiped" ELSE step[c][s]]
  <2>1. step' = [step EXCEPT ![c] = w]
    BY <1>1 DEF Delete
  <2>2. w \in StepRows
    BY <1>1 DEF StepRows
  <2> QED
    BY <1>1, <2>1, <2>2
<1>7. TypeOK'
  BY <1>0, <1>5, <1>6 DEF TypeOK, CaseRows, StepRows
<1>8. CaseInv'
  <2>1. CaseOK(r, store[c])
    BY <1>0, <1>1, <1>2, <1>4 DEF CaseOK
  <2> QED
    BY <1>0, <1>5, <2>1 DEF CaseInv
<1>9. TaskInv'
  <2> SUFFICES ASSUME NEW t \in Tasks
               PROVE  TaskOK(task[t], case'[task[t].c], step'[task[t].c], calls[task[t].c])
    BY <1>0 DEF TaskInv
  <2>1. TaskOK(task[t], case[task[t].c], step[task[t].c], calls[task[t].c]) /\ task[t].c \in Cases
    BY TaskFacts
  <2>2. CASE task[t].c # c
    BY <1>5, <1>6, <2>1, <2>2
  <2>3. CASE task[t].c = c
    <3>1. TaskOK(task[t], case[c], step[c], calls[c])
      BY <2>1, <2>3
    <3>2. TaskOK(task[t], r, step'[c], calls[c])
      BY <1>4, <1>6, <3>1 DEF TaskOK, CallPcs
    <3> QED
      BY <1>5, <2>3, <3>2
  <2> QED
    BY <2>2, <2>3
<1>10. CallInv' /\ OneCallPerStep'
  <2>1. \A d \in Cases, s \in Steps : step'[d][s] = "none" => step[d][s] = "none"
    BY <1>6
  <2> QED
    BY <1>0, <2>1 DEF CallInv, OneCallPerStep
<1>11. ObjectInv'
  BY <1>0, <1>4, <1>5 DEF ObjectInv
<1>12. AgedInv'
  <2>1. aged \subseteq Cases
    BY DEF TypeOK
  <2> QED
    BY <1>0, <1>4, <1>5, <2>1 DEF AgedInv
<1>13. DeletionIsThorough'
  BY <1>0, <1>4, <1>5, <1>6 DEF DeletionIsThorough, Deleted
<1>14. LedgerInv'
  BY <1>0, SameLedger
<1> QED
  BY <1>7, <1>8, <1>9, <1>10, <1>11, <1>12, <1>13, <1>14

\* The mark of a case is set: its bucket is empty, and the ledger loses what it held.
LEMMA MarkPurgedStep ==
  ASSUME IndInv, NEW t \in Tasks, MarkPurged(t)
  PROVE  IndInv'
<1> USE DEF IndInv
<1>0. /\ UNCHANGED <<case, leased, late, step, calls, msgs, object, url, aged, store>>
      /\ task[t].pc = "purge.mark" /\ Ends(t)
  BY DEF MarkPurged, work, media
<1>1. Moves(t, Idle) /\ Idle \in TaskRows /\ Idle.pc = "idle"
  BY <1>0, TaskMoves, TaskType
<1>2. PICK c \in Cases : c = task[t].c
  BY TaskFacts
<1>3. CASE c \notin aged \ purged
  <2>1. UNCHANGED <<row, work, media, bytes>> /\ msgs' \subseteq Messages
    BY <1>0, <1>2, <1>3, CaseType DEF MarkPurged, row, work, media, bytes
  <2> QED
    BY <1>1, <2>1, IdleSettles, PlainKeeps
<1>4. CASE c \in aged \ purged
  <2>1. /\ purged' = purged \cup {c} /\ c \in Unpurged
        /\ ledger' = [reserved |-> Monus(ledger.reserved, store[c].reserved),
                      approved |-> Monus(ledger.approved, store[c].display + store[c].owned)]
    BY <1>2, <1>4 DEF MarkPurged, Release, Unpurged
  <2>2. /\ ledger.reserved >= store[c].reserved /\ ledger.approved >= store[c].display + store[c].owned
        /\ ledger.reserved \in Nat /\ ledger.approved \in Nat
        /\ store[c].reserved \in Nat /\ store[c].display \in Nat /\ store[c].owned \in Nat
    BY <2>1, LedgerCovers DEF StoreRows
  <2>3. /\ ledger'.reserved = ledger.reserved - store[c].reserved
        /\ ledger'.approved = ledger.approved - (store[c].display + store[c].owned)
        /\ ledger' \in [reserved: Nat, approved: Nat]
    BY <2>1, <2>2 DEF Monus
  <2>4. TypeOK'
    BY <1>0, <1>1, <2>1, <2>3 DEF TypeOK, Moves, TaskRows
  <2>5. CaseInv' /\ OneCallPerStep' /\ ObjectInv'
    BY <1>0 DEF CaseInv, OneCallPerStep, ObjectInv
  <2>6. \A u \in Tasks : task'[u] = task[u] \/ task'[u] = Idle
    BY <1>1 DEF Moves
  <2>7. TaskInv'
    BY <1>0, <1>1, <2>6 DEF TaskInv, TaskOK, FinalisePcs, PurgePcs, CallPcs
  <2>8. CallInv'
    BY <1>0, <1>1, <2>6 DEF CallInv
  <2>9. AgedInv'
    BY <1>0, <1>1, <1>4, <2>1, <2>6 DEF AgedInv, PutPcs
  <2>10. DeletionIsThorough'
    <3>1. object[c] = {}
      BY <1>0, <1>2, <1>4 DEF AgedInv
    <3> QED
      BY <1>0, <2>1, <3>1 DEF DeletionIsThorough, Deleted
  <2>11. LedgerInv'
    <3>1. PICK f \in Sizes : f = ReservedOf
      BY SizesOf
    <3>2. PICK g \in Sizes : g = StoredOf
      BY SizesOf
    <3>3. PICK S \in SUBSET Cases : S = Unpurged
      BY SizesOf
    <3>4. ReservedOf' = f /\ StoredOf' = g /\ Unpurged' = S \ {c} /\ c \in S
      BY <1>0, <2>1, <3>1, <3>2, <3>3 DEF ReservedOf, StoredOf, Unpurged
    <3>5. f[c] = store[c].reserved /\ g[c] = store[c].display + store[c].owned
      BY <3>1, <3>2 DEF ReservedOf, StoredOf
    <3>6. Total(f, S) = Total(f, S \ {c}) + f[c] /\ Total(f, S \ {c}) \in Nat
      BY <3>4, TotalWithout
    <3>7. Total(g, S) = Total(g, S \ {c}) + g[c] /\ Total(g, S \ {c}) \in Nat
      BY <3>4, TotalWithout
    <3>8. ledger.reserved = OtherBytes + Total(f, S) /\ ledger.approved = OtherBytes + Total(g, S)
      BY <3>1, <3>2, <3>3 DEF LedgerInv
    <3>9. ledger'.reserved = OtherBytes + Total(f, S \ {c}) /\ ledger'.approved = OtherBytes + Total(g, S \ {c})
      BY <2>2, <2>3, <3>5, <3>6, <3>7, <3>8, BetaConstants
    <3> QED
      BY <3>4, <3>9 DEF LedgerInv
  <2> QED
    BY <2>4, <2>5, <2>7, <2>8, <2>9, <2>10, <2>11
<1> QED
  BY <1>3, <1>4

\* The waits of a case are over: whoever was writing it has ended, and a pass that is to mark it
\* has deleted everything.
LEMMA AgeStep ==
  ASSUME IndInv, NEW c \in Cases, Age(c)
  PROVE  IndInv'
<1> USE DEF IndInv
<1>0. /\ UNCHANGED <<case, leased, late, purged, step, calls, msgs, object, url, store, ledger, task>>
      /\ case[c].state = "deleted" /\ c \notin url /\ aged' = aged \cup {c}
  BY DEF Age, row, work, bytes, Deleted
<1>1. \A t \in Tasks : task[t].c = c => task[t].pc \notin PutPcs /\ (task[t].pc = "purge.mark" => object[c] = {})
  BY DEF Age, PutPcs
<1>2. TypeOK'
  BY <1>0 DEF TypeOK
<1>3. CaseInv' /\ OneCallPerStep' /\ ObjectInv' /\ DeletionIsThorough'
  BY <1>0 DEF CaseInv, OneCallPerStep, ObjectInv, DeletionIsThorough, Deleted
<1>4. TaskInv' /\ CallInv'
  BY <1>0 DEF TaskInv, TaskOK, CallInv
<1>5. AgedInv'
  BY <1>0, <1>1 DEF AgedInv
<1>6. LedgerInv'
  BY <1>0, SameLedger
<1> QED
  BY <1>2, <1>3, <1>4, <1>5, <1>6

-----------------------------------------------------------------------------
(* The provider call.                                                      *)

\* A step is begun: no attempt was made for it, and no other task is about to make one.
LEMMA StepBegins ==
  ASSUME IndInv, NEW t \in Tasks, NEW c \in Cases, NEW s \in Steps, c = task[t].c,
         task[t].pc \in AnalysisPcs, step[c][s] = "none", step' = [step EXCEPT ![c][s] = "started"],
         task' = [task EXCEPT ![t].pc = "call", ![t].s = s], UNCHANGED <<row, calls, msgs, media, bytes>>
  PROVE  IndInv'
<1> USE DEF IndInv
<1>0. UNCHANGED <<case, leased, late, purged, calls, msgs, object, url, aged, store, ledger>>
  BY DEF row, media, bytes
<1>1. step \in [Cases -> StepRows] /\ task[t] \in TaskRows
  BY TaskFacts DEF TypeOK, StepRows
<1>2. /\ step' \in [Cases -> StepRows] /\ step'[c][s] = "started"
      /\ \A d \in Cases, r \in Steps : (d = c /\ r = s) \/ step'[d][r] = step[d][r]
  BY <1>1 DEF StepRows
<1> DEFINE k == [task[t] EXCEPT !.pc = "call", !.s = s]
<1>3. k \in TaskRows /\ k.pc = "call" /\ k.s = s /\ k.c = c /\ k.token = task[t].token
  BY <1>1 DEF TaskRows, Pcs
<1>4. Moves(t, k)
  <2>1. task' = [task EXCEPT ![t] = k]
    OBVIOUS
  <2> QED
    BY <1>3, <2>1, TaskMoves
<1> HIDE DEF k
<1>5. TypeOK'
  BY <1>0, <1>2, <1>4 DEF TypeOK, StepRows, Moves, TaskRows
<1>6. CaseInv' /\ ObjectInv' /\ OneCallPerStep'
  BY <1>0 DEF CaseInv, ObjectInv, OneCallPerStep
<1>7. TaskInv'
  <2> SUFFICES ASSUME NEW u \in Tasks
               PROVE  TaskOK(task'[u], case[task'[u].c], step'[task'[u].c], calls[task'[u].c])
    BY <1>0 DEF TaskInv
  <2>1. CASE u = t
    <3>1. case[c].state # "none" /\ task[t].token # 0
      BY TaskFacts DEF TaskOK, AnalysisPcs
    <3>2. calls[c][s] = 0
      BY DEF CallInv
    <3>3. TaskOK(k, case[c], step'[c], calls[c])
      BY <1>2, <1>3, <3>1, <3>2 DEF TaskOK, FinalisePcs, PurgePcs
    <3> QED
      BY <1>3, <1>4, <2>1, <3>3 DEF Moves
  <2>2. CASE u # t
    <3>1. task'[u] = task[u]
      BY <1>4, <2>2 DEF Moves
    <3>2. TaskOK(task[u], case[task[u].c], step[task[u].c], calls[task[u].c]) /\ task[u].c \in Cases
      BY TaskFacts
    <3>3. \A r \in Steps : step[task[u].c][r] # "none" => step'[task[u].c][r] # "none"
      BY <1>2, <3>2
    <3>4. TaskOK(task[u], case[task[u].c], step'[task[u].c], calls[task[u].c])
      BY <3>2, <3>3 DEF TaskOK, CallPcs
    <3> QED
      BY <3>1, <3>4
  <2> QED
    BY <2>1, <2>2
<1>8. CallInv'
  <2>1. \A d \in Cases, r \in Steps : step'[d][r] = "none" => calls[d][r] = 0
    BY <1>2 DEF CallInv
  <2>2. \A u \in Tasks : task[u].pc = "call" => ~(task[u].c = c /\ task[u].s = s)
    BY TaskFacts DEF TaskOK
  <2>3. ASSUME NEW u \in Tasks, NEW v \in Tasks, task'[u].pc = "call", task'[v].pc = "call",
               task'[u].c = task'[v].c, task'[u].s = task'[v].s
        PROVE  u = v
    <3>1. CASE u # t /\ v # t
      BY <1>4, <2>3, <3>1 DEF Moves, CallInv
    <3>2. CASE u = t \/ v = t
      BY <1>3, <1>4, <2>2, <2>3, <3>2 DEF Moves
    <3> QED
      BY <3>1, <3>2
  <2> QED
    BY <1>0, <2>1, <2>3 DEF CallInv
<1>9. AgedInv'
  <2>1. \A u \in Tasks : task'[u] = task[u] \/ task'[u].pc = "call"
    BY <1>3, <1>4 DEF Moves
  <2>2. ASSUME NEW u \in Tasks, task'[u].c \in aged
        PROVE  task'[u].pc \notin PutPcs /\ (task'[u].pc = "purge.mark" => object[task'[u].c] = {})
    BY <2>1, <2>2 DEF AgedInv, PutPcs
  <2> QED
    BY <1>0, <2>2 DEF AgedInv
<1>10. DeletionIsThorough'
  <2>1. \A d \in Cases, r \in Steps : step'[d][r] = "completed" => step[d][r] = "completed"
    BY <1>2
  <2> QED
    BY <1>0, <2>1 DEF DeletionIsThorough, Deleted
<1>11. LedgerInv'
  BY <1>0, SameLedger
<1> QED
  BY <1>5, <1>6, <1>7, <1>8, <1>9, <1>10, <1>11

LEMMA BeginStepStep ==
  ASSUME IndInv, NEW t \in Tasks, NEW s \in Steps, BeginStep(t, s)
  PROVE  IndInv'
<1>1. task[t].pc \in AnalysisPcs
  BY DEF BeginStep, AnalysisPcs, Pcs, FinalisePcs, PurgePcs, Steps
<1>2. PICK c \in Cases : c = task[t].c
  BY TaskFacts
<1>3. CASE step' # step
  <2>1. /\ step[c][s] = "none" /\ step' = [step EXCEPT ![c][s] = "started"]
        /\ task' = [task EXCEPT ![t].pc = "call", ![t].s = s] /\ UNCHANGED <<row, calls, msgs, media, bytes>>
    BY <1>2, <1>3 DEF BeginStep, Pauses, work
  <2> QED
    BY <1>1, <1>2, <2>1, StepBegins
<1>4. ASSUME NEW p \in {"branch", "save", "advised", "settle", "fail", "pause"}, Goes(t, p),
             UNCHANGED <<row, work, msgs, media, bytes>>
      PROVE  IndInv'
  <2>1. p \in AnalysisPcs \ CallPcs
    BY DEF AnalysisPcs, CallPcs, Pcs, FinalisePcs, PurgePcs
  <2> QED
    BY <1>1, <1>4, <2>1, PlainAnalysis
<1>5. CASE step' = step
  <2>1. step[c][s] = "none" => [step EXCEPT ![c][s] = "started"] # step
    BY DEF IndInv, TypeOK
  <2>2. UNCHANGED <<row, work, msgs, media, bytes>>
    BY <1>2, <1>5, <2>1 DEF BeginStep, Pauses
  <2>3. \E p \in {"branch", "save", "advised", "settle", "fail", "pause"} : Goes(t, p)
    BY <1>2, <1>5, <2>1 DEF BeginStep, Pauses, After, Thrown, Steps
  <2> QED
    BY <1>4, <2>2, <2>3
<1> QED
  BY <1>3, <1>5

\* The call: it is the first of its step, and its task is the only one that was about to make it.
LEMMA CallProviderStep ==
  ASSUME IndInv, NEW t \in Tasks, CallProvider(t)
  PROVE  IndInv'
<1> USE DEF IndInv
<1>0. /\ UNCHANGED <<case, leased, late, purged, step, msgs, object, url, aged, store, ledger>>
      /\ task[t].pc = "call"
  BY DEF CallProvider, row, media, bytes
<1>1. PICK c \in Cases, s \in Steps : c = task[t].c /\ s = task[t].s
  BY <1>0, TaskFacts DEF TaskOK, CallPcs
<1>2. /\ step[c][s] # "none" /\ calls[c][s] = 0 /\ case[c].state # "none" /\ task[t].token # 0
      /\ calls \in [Cases -> [Steps -> Nat]] /\ task[t] \in TaskRows
  BY <1>0, <1>1, TaskFacts DEF TaskOK, FinalisePcs, PurgePcs, TypeOK
<1>3. /\ calls' \in [Cases -> [Steps -> Nat]] /\ calls'[c][s] = 1
      /\ \A d \in Cases, r \in Steps : (d = c /\ r = s) \/ calls'[d][r] = calls[d][r]
  <2>1. calls' = [calls EXCEPT ![c][s] = @ + 1]
    BY <1>1 DEF CallProvider
  <2> QED
    BY <1>2, <2>1
<1>4. PICK p \in {"finish", "display"} : Goes(t, p)
  BY DEF CallProvider
<1> DEFINE k == [task[t] EXCEPT !.pc = p]
<1>5. k \in TaskRows /\ k.pc = p /\ k.s = s /\ k.c = c /\ k.token = task[t].token
  BY <1>1, <1>2 DEF TaskRows, Pcs
<1>6. Moves(t, k)
  BY <1>4, TaskMoves DEF Pcs
<1> HIDE DEF k
<1>7. TypeOK'
  BY <1>0, <1>3, <1>6 DEF TypeOK, Moves, TaskRows
<1>8. CaseInv' /\ ObjectInv' /\ DeletionIsThorough'
  BY <1>0 DEF CaseInv, ObjectInv, DeletionIsThorough, Deleted
<1>9. OneCallPerStep'
  <2>1. \A d \in Cases, r \in Steps : calls[d][r] <= 1
    BY DEF OneCallPerStep
  <2> QED
    BY <1>3, <2>1 DEF OneCallPerStep
<1>10. TaskInv'
  <2> SUFFICES ASSUME NEW u \in Tasks
               PROVE  TaskOK(task'[u], case[task'[u].c], step[task'[u].c], calls'[task'[u].c])
    BY <1>0 DEF TaskInv
  <2>1. CASE u = t
    <3>1. TaskOK(k, case[c], step[c], calls'[c])
      BY <1>2, <1>5 DEF TaskOK, FinalisePcs, PurgePcs
    <3> QED
      BY <1>5, <1>6, <2>1, <3>1 DEF Moves
  <2>2. CASE u # t
    <3>1. task'[u] = task[u]
      BY <1>6, <2>2 DEF Moves
    <3>2. TaskOK(task[u], case[task[u].c], step[task[u].c], calls[task[u].c]) /\ task[u].c \in Cases
      BY TaskFacts
    <3>3. task[u].pc = "call" => ~(task[u].c = c /\ task[u].s = s)
      BY <1>0, <1>1, <2>2 DEF CallInv
    <3>4. task[u].pc = "call" => calls'[task[u].c][task[u].s] = 0
      BY <1>3, <3>2, <3>3 DEF TaskOK, CallPcs
    <3>5. TaskOK(task[u], case[task[u].c], step[task[u].c], calls'[task[u].c])
      BY <3>2, <3>4 DEF TaskOK
    <3> QED
      BY <3>1, <3>5
  <2> QED
    BY <2>1, <2>2
<1>11. CallInv'
  <2>1. \A d \in Cases, r \in Steps : step[d][r] = "none" => calls'[d][r] = 0
    BY <1>2, <1>3 DEF CallInv
  <2>2. \A u \in Tasks : task'[u] = task[u] \/ task'[u].pc # "call"
    BY <1>5, <1>6 DEF Moves
  <2> QED
    BY <1>0, <2>1, <2>2 DEF CallInv
<1>12. AgedInv'
  <2>1. \A u \in Tasks : task'[u] = task[u] \/ task'[u].pc \in {"finish", "display"}
    BY <1>5, <1>6 DEF Moves
  <2> QED
    BY <1>0, <2>1 DEF AgedInv, PutPcs
<1>13. LedgerInv'
  BY <1>0, SameLedger
<1> QED
  BY <1>7, <1>8, <1>9, <1>10, <1>11, <1>12, <1>13

-----------------------------------------------------------------------------
(* The theorems.                                                           *)

LEMMA InitInv ==
  ASSUME Init
  PROVE  IndInv
<1>0. /\ case = [c \in Cases |-> NoCase] /\ leased = {} /\ late = {} /\ purged = {} /\ msgs = {} /\ url = {} /\ aged = {}
      /\ step = [c \in Cases |-> [s \in Steps |-> "none"]] /\ calls = [c \in Cases |-> [s \in Steps |-> 0]]
      /\ object = [c \in Cases |-> {}] /\ store = [c \in Cases |-> Nothing]
      /\ ledger = [reserved |-> OtherBytes, approved |-> OtherBytes] /\ task = [t \in Tasks |-> Idle]
  BY DEF Init, Nothing
<1>1. Idle \in TaskRows /\ Idle.pc = "idle" /\ Nothing \in StoreRows
  BY TaskType DEF Nothing, StoreRows
<1>2. NoCase \in CaseRows /\ NoCase.state = "none" /\ NoCase.token = 0 /\ NoCase.rev = 1
  BY BetaConstants DEF NoCase, CaseRows, CaseStates, Results
<1>3. TypeOK
  <2>1. case \in [Cases -> CaseRows] /\ store \in [Cases -> StoreRows] /\ task \in [Tasks -> TaskRows]
    BY <1>0, <1>1, <1>2
  <2>2. ledger \in [reserved: Nat, approved: Nat]
    BY <1>0, BetaConstants
  <2> QED
    BY <1>0, <2>1, <2>2 DEF TypeOK, CaseRows, StoreRows, TaskRows
<1>4. CaseInv
  <2>1. CaseOK(NoCase, Nothing)
    BY <1>2, BetaConstants DEF CaseOK, RevLimit
  <2> QED
    BY <1>0, <2>1 DEF CaseInv
<1>5. TaskInv
  BY <1>0, <1>1 DEF TaskInv, TaskOK, FinalisePcs, PurgePcs, CallPcs
<1>6. CallInv /\ OneCallPerStep
  BY <1>0, <1>1 DEF CallInv, OneCallPerStep
<1>7. ObjectInv /\ AgedInv
  BY <1>0 DEF ObjectInv, AgedInv
<1>8. DeletionIsThorough
  BY <1>0, <1>2 DEF DeletionIsThorough, Deleted
<1>9. LedgerInv
  <2>1. Counted(ReservedOf, Unpurged) = {} /\ Counted(StoredOf, Unpurged) = {}
    <3>1. \A c \in Cases : ReservedOf[c] = 0 /\ StoredOf[c] = 0
      BY <1>0 DEF ReservedOf, StoredOf, Nothing
    <3> QED
      BY <3>1 DEF Counted, Unpurged
  <2>2. Total(ReservedOf, Unpurged) = 0 /\ Total(StoredOf, Unpurged) = 0
    <3>1. Unpurged \in SUBSET Cases
      BY DEF Unpurged
    <3> QED
      BY <2>1, <3>1, CountedIsFinite, FS_EmptySet
  <2> QED
    BY <1>0, <2>2, BetaConstants DEF LedgerInv
<1> QED
  BY <1>3, <1>4, <1>5, <1>6, <1>7, <1>8, <1>9 DEF IndInv

LEMMA StutterStep ==
  ASSUME IndInv, UNCHANGED vars
  PROVE  IndInv'
<1>1. task' = task /\ step' = step /\ object' = object /\ UNCHANGED <<row, calls, msgs, url, aged, bytes>>
  BY DEF vars, work, media
<1> QED
  BY <1>1, TasksMoved, StepsMoved, ObjectsMoved, WorkKeeps

LEMMA NextStep ==
  ASSUME IndInv, Next
  PROVE  IndInv'
<1>1. ASSUME NEW c \in Cases,
             \/ CreateCase(c) \/ Upload(c) \/ Cancel(c) \/ Delete(c) \/ Retry(c) \/ RequestAdvice(c)
             \/ ExpireCase(c) \/ ExhaustCase(c) \/ LapseLease(c) \/ CloseUrl(c) \/ PassDeadline(c) \/ Age(c)
      PROVE  IndInv'
  BY <1>1, CreateCaseStep, UploadStep, DeleteStep, RowStep, TimeStep, AgeStep
<1>2. ASSUME NEW c \in Cases, NEW t \in Tasks, FinaliseRead(t, c) \/ StartPurge(t, c)
      PROVE  IndInv'
  BY <1>2, StartStep
<1>3. ASSUME NEW m \in msgs, ClaimNothing(m) \/ \E t \in Tasks : Claim(t, m)
      PROVE  IndInv'
  BY <1>3, ClaimNothingStep, ClaimStep
<1>4. ASSUME NEW t \in Tasks, Finalising(t)
      PROVE  IndInv'
  BY <1>4, FinaliseObjectsStep, FinaliseCommitStep DEF Finalising
<1>5. ASSUME NEW t \in Tasks, Analysing(t)
      PROVE  IndInv'
  BY <1>5, OpenStep, BeginStepStep, CallProviderStep, ProviderFailsStep, FinishStepStep, CheckDisplayStep,
     PutDisplayStep, RecheckDisplayStep, ChargeDisplayStep, BranchStep, SaveResultStep, AdviseStep, AdvisedStep,
     SettleStep, CatchStep, DieStep DEF Analysing
<1>6. ASSUME NEW t \in Tasks, Purging(t) \/ Die(t)
      PROVE  IndInv'
  BY <1>6, PurgeObjectsStep, MarkPurgedStep, DieStep DEF Purging
<1> QED
  BY <1>1, <1>2, <1>3, <1>4, <1>5, <1>6, ExpireStepsStep DEF Next, Proceed

\* The inductive invariant holds of every behaviour of the private beta.
THEOREM Invariance == Spec => []IndInv
<1>1. Init => IndInv
  BY InitInv
<1>2. IndInv /\ [Next]_vars => IndInv'
  BY NextStep, StutterStep
<1> QED
  BY <1>1, <1>2, PTL DEF Spec

\* The rows, the steps, the objects, the ledger and the tasks have their types.
THEOREM TypeCorrect == Spec => []TypeOK
<1>1. IndInv => TypeOK
  BY DEF IndInv
<1> QED
  BY <1>1, Invariance, PTL

\* step() calls a provider at most once for each step of a case, for any number of invocations,
\* claims, lapsed leases, redeliveries and lost Workers.
THEOREM CalledOnce == Spec => []OneCallPerStep
<1>1. IndInv => OneCallPerStep
  BY DEF IndInv
<1> QED
  BY <1>1, Invariance, PTL

\* tombstoneBetaCases and purgeBetaMedia: a deleted case stays without results and outputs, and a
\* case that is marked purged stays without objects.
THEOREM DeletionIsFinal == Spec => []DeletionIsThorough
<1>1. IndInv => DeletionIsThorough
  BY DEF IndInv
<1> QED
  BY <1>1, Invariance, PTL

\* The storage ledger is exactly what the unpurged cases hold, and covers what is in the bucket.
THEOREM StorageCharged == Spec => []StorageIsCharged
<1>1. ASSUME IndInv
      PROVE  StorageIsCharged
  <2>1. /\ ledger.reserved = OtherBytes + Total([c \in Cases |-> store[c].reserved], Cases \ purged)
        /\ ledger.approved = OtherBytes + Total([c \in Cases |-> store[c].display + store[c].owned], Cases \ purged)
    BY <1>1 DEF IndInv, LedgerInv, ReservedOf, StoredOf, Unpurged
  <2>2. ASSUME NEW c \in Cases
        PROVE  Stored(c) <= store[c].reserved + store[c].display + store[c].owned
    <3>1. CaseOK(case[c], store[c])
      BY <1>1 DEF IndInv, CaseInv
    <3>2. CASE case[c].state = "none"
      <4>1. object[c] \cap {"original", "display"} = {} /\ store[c] = Nothing
        BY <1>1, <3>1, <3>2 DEF IndInv, ObjectInv, CaseOK
      <4>2. Stored(c) = 0
        BY <4>1, FS_EmptySet DEF Stored
      <4> QED
        BY <4>1, <4>2 DEF Nothing
    <3>3. CASE case[c].state # "none"
      <4>1. store[c].reserved + store[c].display + store[c].owned = 2
        BY <3>1, <3>3 DEF CaseOK, Reserved, Original, Displayed
      <4> DEFINE both == {"original", "display"}
      <4>2. IsFiniteSet({"original"}) /\ Cardinality({"original"}) = 1
        BY FS_Singleton
      <4>3. IsFiniteSet(both) /\ Cardinality(both) = 2
        <5>1. both = {"original"} \cup {"display"} /\ "display" \notin {"original"}
          OBVIOUS
        <5> QED
          BY <4>2, <5>1, FS_AddElement
      <4>4. Cardinality(object[c] \cap both) <= Cardinality(both)
        BY <4>3, FS_Subset
      <4> QED
        BY <4>1, <4>3, <4>4 DEF Stored
    <3> QED
      BY <3>2, <3>3
  <2> QED
    BY <2>1, <2>2 DEF StorageIsCharged
<1>2. IndInv => StorageIsCharged
  BY <1>1
<1> QED
  BY <1>2, Invariance, PTL

=============================================================================
