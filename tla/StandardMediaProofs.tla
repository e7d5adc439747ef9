------------------------ MODULE StandardMediaProofs ------------------------
(***************************************************************************)
(* Proofs about StandardMedia for any number of sessions and invocations,  *)
(* any sizes and any quota, with and without the account's deletion.       *)
(***************************************************************************)
EXTENDS StandardMedia, FiniteSetTheorems, TLAPS

TaskRows == [pc: Pcs, s: Sessions]

\* What is true of a session while a task is at pc with it.
PcOK(pc, s) ==
  /\ pc # "idle" => status[s] # "none"
  /\ pc = "put" => status[s] = "pending"
  /\ pc \in {"derive", "putd", "approve"} => status[s] = "queued"
  /\ pc = "approve" => derivative[s] > 0
  /\ pc = "finqueue" /\ status[s] = "pending" => s \in quarantine
  /\ pc \in PutPcs => age[s] # "due"
  /\ pc \in {"delq", "rmark"} => status[s] \in Terminal
  /\ pc = "rdelq" => status[s] = "approved"
  /\ pc \in {"delqd", "deld", "rdelqd", "rdeld"} => status[s] \in Discarded
  /\ pc \in {"rdelq", "rdelqd", "rdeld", "rmark"} => age[s] = "due"
  /\ pc \in {"rdeld", "rmark"} => s \notin quarantine
  /\ pc = "rmark" /\ derivative[s] > 0 => status[s] = "approved"
  /\ pc = "lateputd" /\ status[s] = "approved" => s \in overtaken

TaskInv ==
  /\ \A t \in Tasks : PcOK(task[t].pc, task[t].s)
  /\ \A t, u \in Tasks :
       task[t].pc \in LockPcs /\ task[u].pc \in LockPcs /\ task[t].s = task[u].s => t = u

SessionInv ==
  \A s \in Sessions :
    /\ derivative[s] <= expected[s]
    /\ status[s] = "none" => derivative[s] = 0 /\ s \notin quarantine
    /\ s \in marked => age[s] = "due" /\ status[s] \in Terminal

\* Behind the fence the only open sessions are those created late, which never get any bytes.
FencedInv ==
  erasure # "none" =>
    /\ active = "deleted"
    /\ \A s \in Sessions : status[s] \in Held =>
         status[s] = "pending" /\ s \notin quarantine /\ derivative[s] = 0
    /\ \A t \in Tasks : task[t].pc \in LockPcs \cup PutPcs \cup {"finqueue"} => status[task[t].s] \notin Held

\* What the purge has been through is gone, or is owed a cleanup, or is the derivative of an
\* overtaken put.
Purged(s) ==
  /\ s \in quarantine => <<s, "quarantine">> \in left \/ (status[s] \in Terminal /\ s \notin marked)
  /\ derivative[s] > 0 /\ s \notin overtaken =>
       <<s, "approved">> \in left \/ (status[s] \in Discarded /\ s \notin marked)

PurgeInv ==
  /\ left # {} => erasure = "purging"
  /\ erasure \in {"purging", "purged"} => \A s \in Sessions : Purged(s)

IndInv ==
  /\ TypeOK /\ TaskInv /\ SessionInv /\ FencedInv /\ PurgeInv
  /\ LedgerBalances /\ WithinQuota
  /\ QueuedHasBytes /\ ApprovedKeepsDerivative /\ NothingUntracked

HeldSessions == {s \in Sessions : status[s] \in Held}
ApprovedSessions == {s \in Sessions : status[s] = "approved"}

-----------------------------------------------------------------------------
(* Sums of bytes.                                                          *)

Sizes == [Sessions -> 0..MaxBytes]
Counted(size, S) == {x \in S \X (1..MaxBytes) : x[2] <= size[x[1]]}

LEMMA CountedIsFinite ==
  ASSUME NEW size, NEW S \in SUBSET Sessions
  PROVE  IsFiniteSet(Counted(size, S)) /\ Bytes(size, S) = Cardinality(Counted(size, S)) /\ Bytes(size, S) \in Nat
<1>1. IsFiniteSet(S) /\ IsFiniteSet(1..MaxBytes)
  BY MediaConstants, FS_Subset, FS_Interval
<1>2. IsFiniteSet(S \X (1..MaxBytes))
  BY <1>1, FS_Product
<1>3. IsFiniteSet(Counted(size, S))
  BY <1>2, FS_Subset DEF Counted
<1>4. Bytes(size, S) = Cardinality(Counted(size, S))
  BY DEF Bytes, Counted
<1> QED
  BY <1>3, <1>4, FS_CardinalityType

\* The sum depends on the sizes of the sessions in it only, and is 0 when they are.
LEMMA SameBytes ==
  ASSUME NEW size, NEW size2, NEW S \in SUBSET Sessions, \A s \in S : size[s] = size2[s]
  PROVE  Bytes(size, S) = Bytes(size2, S)
<1>1. Counted(size, S) = Counted(size2, S)
  BY DEF Counted
<1> QED
  BY <1>1, CountedIsFinite

LEMMA NoBytes ==
  ASSUME NEW size, NEW S \in SUBSET Sessions, \A s \in S : size[s] = 0
  PROVE  Bytes(size, S) = 0
<1>1. Counted(size, S) = {}
  BY DEF Counted
<1> QED
  BY <1>1, CountedIsFinite, FS_EmptySet

\* One session more adds its size.
LEMMA MoreBytes ==
  ASSUME NEW size \in Sizes, NEW S \in SUBSET Sessions, NEW s \in Sessions \ S
  PROVE  Bytes(size, S \cup {s}) = Bytes(size, S) + size[s]
<1>1. PICK n \in Nat : n = size[s]
  BY MediaConstants DEF Sizes
<1> DEFINE own == {s} \X (1..n)
<1>2. IsFiniteSet(own) /\ Cardinality(own) = n
  <2>1. IsFiniteSet({s}) /\ Cardinality({s}) = 1
    BY FS_Singleton
  <2>2. IsFiniteSet(1..n) /\ Cardinality(1..n) = n
    BY FS_Interval
  <2>3. IsFiniteSet(own) /\ Cardinality(own) = Cardinality({s}) * Cardinality(1..n)
    BY <2>1, <2>2, FS_Product
  <2> HIDE DEF own
  <2> QED
    BY <2>1, <2>2, <2>3
<1>3. Counted(size, S \cup {s}) = Counted(size, S) \cup own
  BY <1>1, MediaConstants DEF Counted, Sizes
<1>4. Counted(size, S) \cap own = {}
  BY DEF Counted
<1> HIDE DEF own
<1>5. IsFiniteSet(Counted(size, S)) /\ Cardinality(Counted(size, S)) \in Nat
  BY CountedIsFinite, FS_CardinalityType
<1>6. Cardinality(Counted(size, S) \cup own)
        = Cardinality(Counted(size, S)) + Cardinality(own) - Cardinality(Counted(size, S) \cap own)
  BY <1>2, <1>5, FS_Union
<1>7. Cardinality(Counted(size, S) \cup own) = Cardinality(Counted(size, S)) + n
  <2>1. Cardinality(Counted(size, S) \cap own) = 0
    BY <1>4, FS_EmptySet
  <2> QED
    BY <1>2, <1>5, <1>6, <2>1
<1>8. Bytes(size, S \cup {s}) = Cardinality(Counted(size, S \cup {s}))
  BY CountedIsFinite
<1>9. Bytes(size, S) = Cardinality(Counted(size, S))
  BY CountedIsFinite
<1> QED
  BY <1>1, <1>3, <1>7, <1>8, <1>9

LEMMA FewerBytes ==
  ASSUME NEW size \in Sizes, NEW S \in SUBSET Sessions, NEW s \in S
  PROVE  Bytes(size, S \ {s}) = Bytes(size, S) - size[s]
<1>1. (S \ {s}) \cup {s} = S
  OBVIOUS
<1>2. Bytes(size, S) = Bytes(size, S \ {s}) + size[s]
  BY <1>1, MoreBytes
<1>3. Bytes(size, S \ {s}) \in Nat /\ size[s] \in Nat
  BY CountedIsFinite DEF Sizes
<1> QED
  BY <1>2, <1>3

\* The balance in terms of the sets above.
LEMMA Balance ==
  /\ LedgerBalances <=> (erasure \in {"none", "purged"} =>
       /\ reserved = Bytes(expected, HeldSessions)
       /\ approved = IF erasure = "purged" THEN 0 ELSE Bytes(derivative, ApprovedSessions))
  /\ LedgerBalances' <=> (erasure' \in {"none", "purged"} =>
       /\ reserved' = Bytes(expected', HeldSessions')
       /\ approved' = IF erasure' = "purged" THEN 0 ELSE Bytes(derivative', ApprovedSessions'))
  BY DEF LedgerBalances, HeldSessions, ApprovedSessions, Bytes

\* The ledger stays balanced when nobody's reservation or approval changes.
LEMMA SameLedger ==
  ASSUME LedgerBalances, UNCHANGED <<expected, reserved, approved, erasure>>,
         HeldSessions' = HeldSessions, ApprovedSessions' = ApprovedSessions,
         erasure = "none" => \A s \in ApprovedSessions : derivative'[s] = derivative[s]
  PROVE  LedgerBalances'
<1>1. ApprovedSessions \in SUBSET Sessions
  BY DEF ApprovedSessions
<1>2. erasure = "none" => Bytes(derivative', ApprovedSessions) = Bytes(derivative, ApprovedSessions)
  BY <1>1, SameBytes
<1>3. Bytes(expected', HeldSessions') = Bytes(expected, HeldSessions)
  OBVIOUS
<1> QED
  BY <1>2, <1>3, Balance

-----------------------------------------------------------------------------
(* Tasks.                                                                  *)

LEMMA TaskType ==
  /\ IdleTask \in TaskRows /\ IdleTask.pc = "idle" /\ IdleTask.s \in Sessions
  /\ TypeOK => \A t \in Tasks : task[t] \in TaskRows /\ task[t].pc \in Pcs /\ task[t].s \in Sessions
<1>1. (CHOOSE s \in Sessions : TRUE) \in Sessions
  BY MediaConstants
<1> QED
  BY <1>1 DEF IdleTask, TaskRows, Pcs, TypeOK

\* Task t is at p with session s afterwards, and the others where they were.
Moves(t, p, s) == task' = [task EXCEPT ![t] = [pc |-> p, s |-> s]]

LEMMA TaskMoves ==
  ASSUME TypeOK, NEW t \in Tasks
  PROVE  /\ \A p \in Pcs, s \in Sessions : Moves(t, p, s) =>
              /\ task' \in [Tasks -> TaskRows]
              /\ task'[t].pc = p /\ task'[t].s = s
              /\ \A u \in Tasks : u # t => task'[u] = task[u]
         /\ \A p \in Pcs : Go(t, p) => Moves(t, p, task[t].s)
         /\ Finish(t) => \E s \in Sessions : Moves(t, "idle", s)
         /\ \A p \in Pcs, s \in Sessions : Start(t, p, s) => Moves(t, p, s) /\ task[t].pc = "idle"
<1>1. task \in [Tasks -> TaskRows] /\ task[t] \in TaskRows
  BY DEF TypeOK, TaskRows
<1>2. ASSUME NEW p \in Pcs, NEW s \in Sessions, Moves(t, p, s)
      PROVE  /\ task' \in [Tasks -> TaskRows]
             /\ task'[t].pc = p /\ task'[t].s = s
             /\ \A u \in Tasks : u # t => task'[u] = task[u]
  <2>1. [pc |-> p, s |-> s] \in TaskRows
    BY DEF TaskRows
  <2> QED
    BY <1>1, <1>2, <2>1 DEF Moves
<1>3. ASSUME NEW p \in Pcs, Go(t, p)
      PROVE  Moves(t, p, task[t].s)
  <2>1. [task[t] EXCEPT !.pc = p] = [pc |-> p, s |-> task[t].s]
    BY <1>1 DEF TaskRows
  <2>2. task' = [task EXCEPT ![t] = [task[t] EXCEPT !.pc = p]]
    BY <1>3 DEF Go
  <2> QED
    BY <2>1, <2>2 DEF Moves
<1>4. ASSUME Finish(t)
      PROVE  \E s \in Sessions : Moves(t, "idle", s)
  BY <1>4, TaskType DEF Finish, IdleTask, Moves
<1>5. ASSUME NEW p \in Pcs, NEW s \in Sessions, Start(t, p, s)
      PROVE  Moves(t, p, s) /\ task[t].pc = "idle"
  BY <1>5 DEF Start, Moves, At
<1> QED
  BY <1>2, <1>3, <1>4, <1>5

\* Nobody but t holds the lock of s.
OnlyLocker(t, s) == \A u \in Tasks \ {t} : ~(task[u].pc \in LockPcs /\ task[u].s = s)

\* What a task that goes to p with s has to find, beside PcOK.
MayMove(t, p, s) ==
  /\ p \in LockPcs => OnlyLocker(t, s)
  /\ erasure # "none" /\ p \in LockPcs \cup PutPcs \cup {"finqueue"} => status[s] \notin Held

LEMMA TaskStep ==
  ASSUME IndInv, NEW t \in Tasks, NEW p \in Pcs, NEW s \in Sessions,
         Moves(t, p, s), PcOK(p, s), MayMove(t, p, s),
         UNCHANGED <<rows, age, ledger, buckets, active, deletion>>
  PROVE  IndInv'
<1> USE DEF IndInv
<1>0. UNCHANGED <<status, expected, finalised, marked, reserved, approved, quarantine, derivative, erasure, left, overtaken>>
  BY DEF rows, ledger, buckets, deletion
<1>1. /\ task' \in [Tasks -> TaskRows]
      /\ task'[t].pc = p /\ task'[t].s = s
      /\ \A u \in Tasks : u # t => task'[u] = task[u]
  BY TaskMoves
<1>2. TypeOK'
  BY <1>0, <1>1 DEF TypeOK, TaskRows
<1>3. TaskInv'
  <2>2. \A u \in Tasks : PcOK(task[u].pc, task[u].s)'
    <3> SUFFICES ASSUME NEW u \in Tasks PROVE PcOK(task[u].pc, task[u].s)'
      OBVIOUS
    <3>1. CASE u = t
      BY <1>0, <1>1, <3>1 DEF PcOK
    <3>2. CASE u # t
      BY <1>0, <1>1, <3>2 DEF TaskInv, PcOK
    <3> QED
      BY <3>1, <3>2
  <2>3. \A u, v \in Tasks :
          task'[u].pc \in LockPcs /\ task'[v].pc \in LockPcs /\ task'[u].s = task'[v].s => u = v
    BY <1>1 DEF TaskInv, MayMove, OnlyLocker
  <2> QED
    BY <2>2, <2>3 DEF TaskInv
<1>4. SessionInv' /\ QueuedHasBytes' /\ ApprovedKeepsDerivative' /\ NothingUntracked'
  BY <1>0 DEF SessionInv, QueuedHasBytes, ApprovedKeepsDerivative, NothingUntracked
<1>6. FencedInv'
  BY <1>0, <1>1 DEF FencedInv, MayMove
<1>7. PurgeInv' /\ WithinQuota'
  BY <1>0 DEF PurgeInv, Purged, WithinQuota
<1>8. LedgerBalances'
  BY <1>0, SameLedger DEF HeldSessions, ApprovedSessions
<1> QED
  BY <1>2, <1>3, <1>4, <1>6, <1>7, <1>8

\* Positions that hold no lock and no put, and idle tasks, need PcOK only.
LEMMA PlainMove ==
  ASSUME IndInv, NEW t \in Tasks, NEW p \in Pcs, NEW s \in Sessions,
         Moves(t, p, s), PcOK(p, s), p \notin LockPcs \cup PutPcs \cup {"finqueue"},
         UNCHANGED <<rows, age, ledger, buckets, active, deletion>>
  PROVE  IndInv'
<1>1. MayMove(t, p, s)
  BY DEF MayMove, PutPcs
<1> QED
  BY <1>1, TaskStep

LEMMA TaskEnds ==
  ASSUME IndInv, NEW t \in Tasks, Finish(t),
         UNCHANGED <<rows, age, ledger, buckets, active, deletion>>
  PROVE  IndInv'
<1>1. PICK s \in Sessions : Moves(t, "idle", s)
  BY TaskMoves DEF IndInv
<1>2. "idle" \in Pcs /\ "idle" \notin LockPcs \cup PutPcs \cup {"finqueue"}
  BY DEF Pcs, LockPcs, PutPcs
<1>3. PcOK("idle", s)
  BY <1>2 DEF PcOK
<1> QED
  BY <1>1, <1>2, <1>3, PlainMove

-----------------------------------------------------------------------------
(* Steps that only move a task.                                            *)

LEMMA UploadReadStep ==
  ASSUME IndInv, NEW t \in Tasks, NEW s \in Sessions, UploadRead(t, s)
  PROVE  IndInv'
<1>1. "upload" \in Pcs /\ "upload" \notin LockPcs \cup PutPcs \cup {"finqueue"}
  BY DEF Pcs, LockPcs, PutPcs
<1>2. PcOK("upload", s)
  BY <1>1 DEF PcOK, UploadRead
<1>3. Moves(t, "upload", s)
  BY <1>1, TaskMoves DEF UploadRead, IndInv
<1> QED
  BY <1>1, <1>2, <1>3, PlainMove DEF UploadRead

LEMMA TaskEndsStep ==
  ASSUME IndInv, NEW t \in Tasks, UploadRefused(t) \/ FinaliseRefused(t) \/ Abandon(t)
  PROVE  IndInv'
  BY TaskEnds DEF UploadRefused, FinaliseRefused, Abandon

LEMMA UploadBeginStep ==
  ASSUME IndInv, NEW t \in Tasks, UploadBegin(t)
  PROVE  IndInv'
<1>1. CASE Finish(t)
  BY <1>1, TaskEnds DEF UploadBegin
<1>2. CASE Go(t, "put")
  <2>1. "put" \in Pcs /\ task[t].s \in Sessions /\ "put" \in LockPcs
    BY TaskType DEF Pcs, LockPcs, IndInv
  <2>2. /\ status[task[t].s] = "pending" /\ age[task[t].s] = "fresh" /\ active = "yes"
        /\ ~Locked(task[t].s)
    BY DEF UploadBegin, UploadAllowed
  <2>3. Moves(t, "put", task[t].s)
    BY <1>2, <2>1, TaskMoves DEF IndInv
  <2>4. PcOK("put", task[t].s)
    BY <2>2 DEF PcOK
  <2>5. erasure = "none"
    BY <2>2 DEF IndInv, FencedInv
  <2>6. MayMove(t, "put", task[t].s)
    BY <2>2, <2>5 DEF MayMove, OnlyLocker, Locked
  <2> QED
    BY <2>1, <2>3, <2>4, <2>6, TaskStep DEF UploadBegin
<1> QED
  BY <1>1, <1>2 DEF UploadBegin

LEMMA FinaliseReadStep ==
  ASSUME IndInv, NEW t \in Tasks, NEW s \in Sessions, FinaliseRead(t, s)
  PROVE  IndInv'
<1>1. {"delq", "finexpire", "finreject", "finqueue"} \subseteq Pcs
  BY DEF Pcs
<1>2. PICK p \in {"delq", "finexpire", "finreject", "finqueue"} : Start(t, p, s) /\ PcOK(p, s)
  <2>1. CASE status[s] \in Discarded /\ Start(t, "delq", s)
    BY <2>1 DEF PcOK, PutPcs, Discarded, Terminal
  <2>2. CASE status[s] = "pending" /\ age[s] # "fresh" /\ Start(t, "finexpire", s)
    BY <2>2 DEF PcOK, PutPcs
  <2>3. CASE /\ status[s] = "pending" /\ age[s] = "fresh" /\ s \in quarantine
             /\ \E pc \in {"finqueue", "finreject"} : Start(t, pc, s)
    BY <2>3 DEF PcOK, PutPcs
  <2> QED
    BY <2>1, <2>2, <2>3 DEF FinaliseRead
<1>3. Moves(t, p, s)
  BY <1>1, <1>2, TaskMoves DEF IndInv
<1>4. MayMove(t, p, s)
  <2>1. p \notin LockPcs \cup PutPcs
    BY <1>2 DEF LockPcs, PutPcs
  <2>2. CASE p = "finqueue"
    <3>1. s \in quarantine /\ status[s] = "pending"
      BY <1>2, <2>2 DEF PcOK, FinaliseRead, Start, IndInv, TypeOK, Discarded
    <3>2. erasure = "none"
      BY <3>1 DEF IndInv, FencedInv, Held
    <3> QED
      BY <2>1, <3>2 DEF MayMove, PutPcs
  <2>3. CASE p # "finqueue"
    BY <2>1, <2>3 DEF MayMove, PutPcs
  <2> QED
    BY <2>2, <2>3
<1> QED
  BY <1>1, <1>2, <1>3, <1>4, TaskStep DEF FinaliseRead

LEMMA ProcessSettledStep ==
  ASSUME IndInv, NEW t \in Tasks, NEW s \in Sessions, ProcessSettled(t, s)
  PROVE  IndInv'
<1>1. PICK p \in {"delq", "delqd"} : Start(t, p, s) /\ PcOK(p, s)
  BY DEF ProcessSettled, PcOK, PutPcs, Discarded, Terminal
<1>2. p \in Pcs /\ p \notin LockPcs \cup PutPcs \cup {"finqueue"}
  BY DEF Pcs, LockPcs, PutPcs
<1>3. Moves(t, p, s)
  BY <1>1, <1>2, TaskMoves DEF IndInv
<1> QED
  BY <1>1, <1>2, <1>3, PlainMove DEF ProcessSettled

LEMMA ProcessBeginStep ==
  ASSUME IndInv, NEW t \in Tasks, NEW s \in Sessions, ProcessBegin(t, s)
  PROVE  IndInv'
<1>1. PICK p \in {"approve", "derive"} : Start(t, p, s) /\ PcOK(p, s)
  BY DEF ProcessBegin, PcOK, PutPcs
<1>2. p \in Pcs /\ p \in LockPcs
  BY DEF Pcs, LockPcs
<1>3. Moves(t, p, s)
  BY <1>1, <1>2, TaskMoves DEF IndInv
<1>4. active = "yes" /\ ~Locked(s)
  BY DEF ProcessBegin
<1>5. erasure = "none"
  BY <1>4 DEF IndInv, FencedInv
<1>6. MayMove(t, p, s)
  BY <1>4, <1>5 DEF MayMove, OnlyLocker, Locked
<1> QED
  BY <1>1, <1>2, <1>3, <1>6, TaskStep DEF ProcessBegin

LEMMA ProcessTransformedStep ==
  ASSUME IndInv, NEW t \in Tasks, ProcessTransformed(t)
  PROVE  IndInv'
<1> DEFINE s == task[t].s
<1>1. s \in Sessions /\ "putd" \in Pcs /\ "putd" \in LockPcs /\ task[t].pc \in LockPcs /\ task[t].pc = "derive"
  BY TaskType DEF Pcs, LockPcs, ProcessTransformed, At, IndInv
<1>2. status[s] = "queued" /\ age[s] = "fresh"
  BY <1>1 DEF IndInv, TaskInv, PcOK, ProcessTransformed
<1>3. Moves(t, "putd", s)
  BY <1>1, TaskMoves DEF IndInv, ProcessTransformed
<1>4. PcOK("putd", s)
  BY <1>2 DEF PcOK
<1>5. OnlyLocker(t, s)
  BY <1>1 DEF IndInv, TaskInv, OnlyLocker
<1>7. erasure = "none"
  BY <1>1, <1>2 DEF IndInv, FencedInv, Held
<1>8. MayMove(t, "putd", s)
  BY <1>5, <1>7 DEF MayMove
<1> QED
  BY <1>1, <1>3, <1>4, <1>8, TaskStep DEF ProcessTransformed

LEMMA ReconcileSettledStep ==
  ASSUME IndInv, NEW t \in Tasks, NEW s \in Sessions, ReconcileSettled(t, s)
  PROVE  IndInv'
<1>1. PICK p \in {"rdelq", "rdelqd"} : Start(t, p, s) /\ PcOK(p, s)
  BY DEF ReconcileSettled, CleanupPc, CleanupPending, CleanupDue, PcOK, PutPcs, Terminal, Discarded
<1>2. p \in Pcs /\ p \notin LockPcs \cup PutPcs \cup {"finqueue"}
  BY DEF Pcs, LockPcs, PutPcs
<1>3. Moves(t, p, s)
  BY <1>1, <1>2, TaskMoves DEF IndInv
<1> QED
  BY <1>1, <1>2, <1>3, PlainMove DEF ReconcileSettled

\* The lock goes and the put stays, of a session that is still open.
LEMMA LoseConnectionStep ==
  ASSUME IndInv, NEW t \in Tasks, LoseConnection(t)
  PROVE  IndInv'
<1> DEFINE s == task[t].s
<1>1. s \in Sessions /\ task[t].pc \in LockPcs /\ task[t].pc \in {"put", "putd"}
  BY TaskType DEF LockPcs, LoseConnection, At, IndInv
<1>2. PICK p \in {"lateput", "lateputd"} : Go(t, p) /\ (p = "lateput" <=> task[t].pc = "put")
  BY DEF LoseConnection, At
<1>3. p \in Pcs /\ p \notin LockPcs /\ p \in PutPcs
  BY DEF Pcs, LockPcs, PutPcs
<1>4. Moves(t, p, s)
  BY <1>2, <1>3, TaskMoves DEF IndInv
<1>5. status[s] \in {"pending", "queued"} /\ age[s] # "due"
  BY <1>1 DEF IndInv, TaskInv, PcOK, PutPcs
<1>6. PcOK(p, s)
  BY <1>5 DEF PcOK
<1>9. erasure = "none"
  BY <1>1, <1>5 DEF IndInv, FencedInv, Held
<1>10. MayMove(t, p, s)
  BY <1>3, <1>9 DEF MayMove
<1> QED
  BY <1>1, <1>3, <1>4, <1>6, <1>10, TaskStep DEF LoseConnection

-----------------------------------------------------------------------------
(* Sessions that are settled unapproved.                                   *)

LEMMA SettleStep ==
  ASSUME IndInv, NEW t \in Tasks, NEW s \in Sessions, NEW to \in Discarded,
         NEW p \in {"idle", "delq", "delqd", "rdelqd"}, NEW q \in Sessions,
         status[s] \in Held, OnlyLocker(t, s), Settle(s, to),
         Moves(t, p, q), p # "idle" => q = s, p = "rdelqd" => age[s] = "due",
         UNCHANGED <<age, buckets, active, deletion>>
  PROVE  IndInv'
<1> USE DEF IndInv
<1>0. /\ UNCHANGED <<expected, finalised, marked, approved, quarantine, derivative, erasure, left, overtaken>>
      /\ reserved' = reserved - expected[s] /\ reserved >= expected[s]
  BY DEF Settle, buckets, deletion
<1>1. /\ status' \in [Sessions -> {"none"} \cup Held \cup Terminal]
      /\ \A r \in Sessions : status'[r] = IF r = s THEN to ELSE status[r]
  BY DEF Settle, TypeOK, Terminal
<1>2. p \in Pcs /\ p \notin LockPcs \cup PutPcs \cup {"finqueue"}
  BY DEF Pcs, LockPcs, PutPcs
<1>3. /\ task' \in [Tasks -> TaskRows]
      /\ task'[t].pc = p /\ task'[t].s = q
      /\ \A u \in Tasks : u # t => task'[u] = task[u]
  BY <1>2, TaskMoves
<1>4. TypeOK'
  BY <1>0, <1>1, <1>3 DEF TypeOK, TaskRows
<1>5. to \in {"rejected", "expired"} /\ status[s] \in {"pending", "queued"}
  BY DEF Discarded, Held
<1>6. TaskInv'
  <2>1. ASSUME NEW u \in Tasks PROVE PcOK(task[u].pc, task[u].s)'
    <3>1. CASE u = t
      BY <1>0, <1>1, <1>3, <1>5, <3>1 DEF PcOK, Discarded, Terminal, PutPcs
    <3>2. CASE u # t /\ task[u].s = s
      <4>1. task'[u] = task[u] /\ PcOK(task[u].pc, s) /\ task[u].pc \notin LockPcs
        BY <1>3, <3>2 DEF TaskInv, OnlyLocker
      <4> QED
        BY <1>0, <1>1, <1>5, <3>2, <4>1 DEF PcOK, Discarded, Terminal, LockPcs
    <3>3. CASE u # t /\ task[u].s # s
      <4>1. task'[u] = task[u] /\ PcOK(task[u].pc, task[u].s) /\ task[u].s \in Sessions
        BY <1>3, <3>3, TaskType DEF TaskInv
      <4>2. status'[task[u].s] = status[task[u].s]
        BY <1>1, <3>3, <4>1
      <4> QED
        BY <1>0, <4>1, <4>2 DEF PcOK
    <3> QED
      BY <3>1, <3>2, <3>3
  <2>2. \A u, v \in Tasks :
          task'[u].pc \in LockPcs /\ task'[v].pc \in LockPcs /\ task'[u].s = task'[v].s => u = v
    BY <1>2, <1>3 DEF TaskInv
  <2> QED
    BY <2>1, <2>2 DEF TaskInv
<1>7. SessionInv'
  BY <1>0, <1>1, <1>5 DEF SessionInv, Terminal, Discarded
<1>8. QueuedHasBytes' /\ ApprovedKeepsDerivative' /\ NothingUntracked'
  BY <1>0, <1>1, <1>5, <1>7 DEF QueuedHasBytes, ApprovedKeepsDerivative, NothingUntracked, SessionInv,
     Terminal, Discarded, TypeOK
<1>10. FencedInv'
  BY <1>0, <1>1, <1>2, <1>3, <1>5, TaskType DEF FencedInv, Held
<1>11. PurgeInv'
  BY <1>0, <1>1, <1>5 DEF PurgeInv, Purged, SessionInv, Terminal, Discarded
<1>12. WithinQuota'
  BY <1>0, MediaConstants DEF WithinQuota, TypeOK
<1>13. LedgerBalances'
  <2>1. HeldSessions' = HeldSessions \ {s} /\ s \in HeldSessions /\ HeldSessions \in SUBSET Sessions
    BY <1>1, <1>5 DEF HeldSessions, Held
  <2>2. ApprovedSessions' = ApprovedSessions
    BY <1>1, <1>5 DEF ApprovedSessions
  <2>3. Bytes(expected, HeldSessions \ {s}) = Bytes(expected, HeldSessions) - expected[s]
    BY <2>1, FewerBytes DEF TypeOK, Sizes
  <2> QED
    BY <1>0, <2>1, <2>2, <2>3, Balance
<1> QED
  BY <1>4, <1>6, <1>7, <1>8, <1>10, <1>11, <1>12, <1>13

LEMMA UploadInactiveStep ==
  ASSUME IndInv, NEW t \in Tasks, UploadInactive(t)
  PROVE  IndInv'
<1>1. task[t].s \in Sessions /\ status[task[t].s] \in Held /\ OnlyLocker(t, task[t].s)
  BY TaskType DEF IndInv, UploadInactive, UploadAllowed, Held, OnlyLocker, Locked
<1>2. PICK q \in Sessions : Moves(t, "idle", q)
  BY TaskMoves DEF IndInv, UploadInactive
<1>3. "expired" \in Discarded
  BY DEF Discarded
<1> QED
  BY <1>1, <1>2, <1>3, SettleStep DEF UploadInactive

LEMMA FinaliseSettleStep ==
  ASSUME IndInv, NEW t \in Tasks, FinaliseSettle(t)
  PROVE  IndInv'
<1>1. task[t].s \in Sessions /\ status[task[t].s] \in Held /\ OnlyLocker(t, task[t].s)
  BY TaskType DEF IndInv, FinaliseSettle, Held, OnlyLocker, Locked
<1>2. Moves(t, "delq", task[t].s)
  BY TaskMoves DEF IndInv, FinaliseSettle, Pcs
<1>3. PICK to \in Discarded : Settle(task[t].s, to)
  BY DEF FinaliseSettle, Discarded
<1> QED
  BY <1>1, <1>2, <1>3, SettleStep DEF FinaliseSettle

LEMMA ProcessExpiredStep ==
  ASSUME IndInv, NEW t \in Tasks, NEW s \in Sessions, ProcessExpired(t, s)
  PROVE  IndInv'
<1>1. status[s] \in Held /\ OnlyLocker(t, s)
  BY DEF ProcessExpired, Held, OnlyLocker, Locked
<1>2. Moves(t, "delqd", s)
  BY TaskMoves DEF IndInv, ProcessExpired, Pcs
<1>3. "expired" \in Discarded
  BY DEF Discarded
<1> QED
  BY <1>1, <1>2, <1>3, SettleStep DEF ProcessExpired

LEMMA ProcessDiscardStep ==
  ASSUME IndInv, NEW t \in Tasks, ProcessDiscard(t)
  PROVE  IndInv'
<1>1. task[t].s \in Sessions /\ task[t].pc = "derive"
  BY TaskType DEF IndInv, ProcessDiscard, At
<1>2. status[task[t].s] \in Held /\ OnlyLocker(t, task[t].s)
  BY <1>1 DEF IndInv, TaskInv, PcOK, Held, OnlyLocker, LockPcs
<1>3. Moves(t, "delqd", task[t].s)
  BY TaskMoves DEF IndInv, ProcessDiscard, Pcs
<1>4. PICK to \in Discarded : Settle(task[t].s, to)
  BY DEF ProcessDiscard, Discarded
<1> QED
  BY <1>1, <1>2, <1>3, <1>4, SettleStep DEF ProcessDiscard

LEMMA ReconcileExpireStep ==
  ASSUME IndInv, NEW t \in Tasks, NEW s \in Sessions, ReconcileExpire(t, s)
  PROVE  IndInv'
<1>1. status[s] \in Held /\ OnlyLocker(t, s)
  BY DEF ReconcileExpire, OnlyLocker, Locked
<1>2. "expired" \in Discarded
  BY DEF Discarded
<1>3. CASE CleanupDue(s)
  <2>1. Moves(t, "rdelqd", s) /\ age[s] = "due"
    BY <1>3, TaskMoves DEF IndInv, ReconcileExpire, Pcs, CleanupDue
  <2> QED
    BY <1>1, <1>2, <2>1, SettleStep DEF ReconcileExpire
<1>4. CASE ~CleanupDue(s)
  <2>1. task[t].pc = "idle" /\ task' = task /\ task[t] \in TaskRows /\ task[t].s \in Sessions
    BY <1>4, TaskType DEF IndInv, ReconcileExpire, At
  <2>2. task[t] = [pc |-> "idle", s |-> task[t].s]
    BY <2>1 DEF TaskRows
  <2>3. Moves(t, "idle", task[t].s)
    BY <2>1, <2>2 DEF Moves, IndInv, TypeOK
  <2> QED
    BY <1>1, <1>2, <2>1, <2>3, SettleStep DEF ReconcileExpire
<1> QED
  BY <1>3, <1>4

-----------------------------------------------------------------------------
(* The other steps of a session.                                           *)

LEMMA CreateStep ==
  ASSUME IndInv, NEW s \in Sessions, NEW n \in 1..MaxBytes, CreateUploadSession(s, n)
  PROVE  IndInv'
<1> USE DEF IndInv
<1>0. /\ UNCHANGED <<finalised, marked, age, approved, quarantine, derivative, active, erasure, left, overtaken, task>>
      /\ reserved' = reserved + n /\ status[s] = "none" /\ n \in Nat
  BY MediaConstants DEF CreateUploadSession, buckets, deletion
<1>1. /\ status' \in [Sessions -> {"none"} \cup Held \cup Terminal]
      /\ \A r \in Sessions : status'[r] = IF r = s THEN "pending" ELSE status[r]
  BY DEF CreateUploadSession, TypeOK, Held
<1>2. /\ expected' \in [Sessions -> 0..MaxBytes]
      /\ \A r \in Sessions : expected'[r] = IF r = s THEN n ELSE expected[r]
  BY MediaConstants DEF CreateUploadSession, TypeOK
<1>3. TypeOK'
  BY <1>0, <1>1, <1>2 DEF TypeOK
<1>4. \A t \in Tasks : task[t].pc # "idle" => task[t].s # s
  BY <1>0 DEF TaskInv, PcOK
<1>5. TaskInv'
  <2>1. ASSUME NEW t \in Tasks PROVE PcOK(task[t].pc, task[t].s)'
    <3>1. CASE task[t].pc = "idle"
      BY <1>0, <3>1 DEF PcOK, PutPcs
    <3>2. CASE task[t].pc # "idle"
      <4>1. status'[task[t].s] = status[task[t].s] /\ PcOK(task[t].pc, task[t].s)
        BY <1>1, <1>4, <3>2, TaskType DEF TaskInv
      <4> QED
        BY <1>0, <4>1 DEF PcOK
    <3> QED
      BY <3>1, <3>2
  <2> QED
    BY <1>0, <2>1 DEF TaskInv
<1>6. SessionInv'
  <2>1. derivative[s] = 0 /\ s \notin marked
    BY <1>0 DEF SessionInv, Terminal, Discarded
  <2> QED
    BY <1>0, <1>1, <1>2, <2>1 DEF SessionInv
<1>7. QueuedHasBytes' /\ ApprovedKeepsDerivative' /\ NothingUntracked'
  <2>1. s \notin marked /\ marked \subseteq Sessions
    BY <1>0 DEF SessionInv, Terminal, Discarded, TypeOK
  <2>2. \A r \in marked : status'[r] = status[r]
    BY <1>1, <2>1
  <2>3. NothingUntracked'
    BY <1>0, <2>2 DEF NothingUntracked
  <2> QED
    BY <1>0, <1>1, <2>3 DEF QueuedHasBytes, ApprovedKeepsDerivative
<1>9. FencedInv'
  <2>1. derivative[s] = 0 /\ s \notin quarantine
    BY <1>0 DEF SessionInv
  <2>2. \A t \in Tasks : task[t].pc \in LockPcs \cup PutPcs \cup {"finqueue"} => task[t].pc # "idle"
    BY DEF LockPcs, PutPcs
  <2> QED
    BY <1>0, <1>1, <1>4, <2>1, <2>2, TaskType DEF FencedInv
<1>10. PurgeInv'
  BY <1>0, <1>1 DEF PurgeInv, Purged, SessionInv
<1>11. HeldSessions' = HeldSessions \cup {s} /\ s \in Sessions \ HeldSessions /\ HeldSessions \in SUBSET Sessions
  BY <1>0, <1>1 DEF HeldSessions, Held
<1>12. LedgerBalances'
  <2>1. ApprovedSessions' = ApprovedSessions
    BY <1>0, <1>1 DEF ApprovedSessions
  <2>2. Bytes(expected', HeldSessions \cup {s}) = Bytes(expected', HeldSessions) + n
    BY <1>2, <1>11, MoreBytes DEF Sizes
  <2>3. Bytes(expected', HeldSessions) = Bytes(expected, HeldSessions)
    BY <1>2, <1>11, SameBytes
  <2> QED
    BY <1>0, <1>11, <2>1, <2>2, <2>3, Balance
<1>13. WithinQuota'
  <2>1. Bytes(expected, CleanupPending) \in Nat
    BY CountedIsFinite DEF CleanupPending
  <2> QED
    BY <1>0, <2>1, MediaConstants DEF WithinQuota, CreateUploadSession, TypeOK
<1> QED
  BY <1>3, <1>5, <1>6, <1>7, <1>9, <1>10, <1>12, <1>13

\* A put of the original, with the lock or without: never of a session that is due.
LEMMA PutQuarantineStep ==
  ASSUME IndInv, NEW t \in Tasks, PutQuarantine(t)
  PROVE  IndInv'
<1> USE DEF IndInv
<1> DEFINE s == task[t].s
<1>0. UNCHANGED <<status, expected, finalised, marked, age, reserved, approved, derivative, active, erasure, left, overtaken>>
  BY DEF PutQuarantine, rows, ledger, deletion
<1>1. s \in Sessions /\ task[t].pc \in {"put", "lateput"} /\ quarantine' = quarantine \cup {s}
  BY TaskType DEF PutQuarantine
<1>2. status[s] # "none" /\ age[s] # "due" /\ s \notin marked
  BY <1>1 DEF TaskInv, PcOK, PutPcs, SessionInv
<1>3. PICK q \in Sessions : Moves(t, "idle", q)
  BY TaskMoves DEF PutQuarantine
<1>4. /\ task' \in [Tasks -> TaskRows]
      /\ task'[t].pc = "idle"
      /\ \A u \in Tasks : u # t => task'[u] = task[u]
  BY <1>3, TaskMoves DEF Pcs
<1>5. TypeOK'
  BY <1>0, <1>1, <1>4 DEF TypeOK, TaskRows
<1>6. TaskInv'
  <2>1. ASSUME NEW u \in Tasks PROVE PcOK(task[u].pc, task[u].s)'
    <3>1. CASE u = t
      BY <1>4, <3>1 DEF PcOK, PutPcs
    <3>2. CASE u # t
      <4>1. task'[u] = task[u] /\ PcOK(task[u].pc, task[u].s)
        BY <1>4, <3>2 DEF TaskInv
      <4> QED
        BY <1>0, <1>1, <1>2, <4>1 DEF PcOK
    <3> QED
      BY <3>1, <3>2
  <2> QED
    BY <1>4, <2>1 DEF TaskInv, LockPcs
<1>7. SessionInv' /\ QueuedHasBytes' /\ ApprovedKeepsDerivative' /\ NothingUntracked' /\ WithinQuota'
  BY <1>0, <1>1, <1>2 DEF SessionInv, QueuedHasBytes, ApprovedKeepsDerivative, NothingUntracked, WithinQuota
<1>8. "idle" \notin LockPcs \cup PutPcs \cup {"finqueue"} /\ {"put", "lateput"} \subseteq PutPcs
  BY DEF LockPcs, PutPcs
<1>9. FencedInv' /\ PurgeInv'
  <2>1. erasure # "none" => status[s] \in Terminal
    BY <1>1, <1>2, <1>8 DEF FencedInv, TypeOK
  <2>2. erasure # "none" => status[s] \notin Held
    BY <1>1, <1>8 DEF FencedInv
  <2>3. FencedInv'
    BY <1>0, <1>1, <1>4, <1>8, <2>2 DEF FencedInv
  <2>4. PurgeInv'
    BY <1>0, <1>1, <1>2, <2>1 DEF PurgeInv, Purged
  <2> QED
    BY <2>3, <2>4
<1>10. LedgerBalances'
  BY <1>0, SameLedger DEF HeldSessions, ApprovedSessions
<1> QED
  BY <1>5, <1>6, <1>7, <1>9, <1>10

LEMMA FinaliseQueueStep ==
  ASSUME IndInv, NEW t \in Tasks, FinaliseQueue(t)
  PROVE  IndInv'
<1> USE DEF IndInv
<1> DEFINE s == task[t].s
<1>0. UNCHANGED <<expected, marked, age, reserved, approved, quarantine, derivative, active, erasure, left, overtaken>>
  BY DEF FinaliseQueue, ledger, buckets, deletion
<1>1. /\ s \in Sessions /\ task[t].pc = "finqueue" /\ status[s] = "pending" /\ ~Locked(s)
      /\ finalised' = finalised \cup {s}
  BY TaskType DEF FinaliseQueue, At
<1>2. s \in quarantine /\ erasure = "none" /\ s \notin marked
  BY <1>1 DEF TaskInv, PcOK, FencedInv, Held, SessionInv, Terminal, Discarded
<1>3. /\ status' \in [Sessions -> {"none"} \cup Held \cup Terminal]
      /\ \A r \in Sessions : status'[r] = IF r = s THEN "queued" ELSE status[r]
  BY DEF FinaliseQueue, TypeOK, Held
<1>4. PICK q \in Sessions : Moves(t, "idle", q)
  BY TaskMoves DEF FinaliseQueue
<1>5. /\ task' \in [Tasks -> TaskRows]
      /\ task'[t].pc = "idle"
      /\ \A u \in Tasks : u # t => task'[u] = task[u]
  BY <1>4, TaskMoves DEF Pcs
<1>6. TypeOK'
  BY <1>0, <1>1, <1>3, <1>5 DEF TypeOK, TaskRows
<1>7. TaskInv'
  <2>1. ASSUME NEW u \in Tasks PROVE PcOK(task[u].pc, task[u].s)'
    <3>1. CASE u = t
      BY <1>5, <3>1 DEF PcOK, PutPcs
    <3>2. CASE u # t
      <4>1. /\ task'[u] = task[u] /\ PcOK(task[u].pc, task[u].s) /\ task[u].s \in Sessions
            /\ task[u].s = s => task[u].pc \notin LockPcs
        BY <1>1, <1>5, <3>2, TaskType DEF TaskInv, Locked
      <4>2. CASE task[u].s = s
        BY <1>0, <1>1, <1>3, <4>1, <4>2 DEF PcOK, LockPcs, Terminal, Discarded
      <4>3. CASE task[u].s # s
        BY <1>0, <1>3, <4>1, <4>3 DEF PcOK
      <4> QED
        BY <4>2, <4>3
    <3> QED
      BY <3>1, <3>2
  <2> QED
    BY <1>5, <2>1 DEF TaskInv, LockPcs
<1>8. SessionInv' /\ QueuedHasBytes' /\ ApprovedKeepsDerivative' /\ NothingUntracked' /\ WithinQuota'
  <2>1. \A r \in marked : r \in Sessions /\ status'[r] = status[r]
    BY <1>2, <1>3 DEF TypeOK
  <2>2. NothingUntracked' /\ WithinQuota'
    BY <1>0, <2>1 DEF NothingUntracked, WithinQuota
  <2>3. SessionInv'
    BY <1>0, <1>1, <1>2, <1>3 DEF SessionInv
  <2> QED
    BY <1>0, <1>2, <1>3, <2>2, <2>3 DEF QueuedHasBytes, ApprovedKeepsDerivative
<1>10. FencedInv' /\ PurgeInv'
  BY <1>0, <1>2 DEF FencedInv, PurgeInv, Purged
<1>11. LedgerBalances'
  <2>1. HeldSessions' = HeldSessions /\ ApprovedSessions' = ApprovedSessions
    BY <1>1, <1>3 DEF HeldSessions, ApprovedSessions, Held
  <2> QED
    BY <1>0, <2>1, SameLedger
<1> QED
  BY <1>6, <1>7, <1>8, <1>10, <1>11

\* A put of the derivative: the session is queued, or settled and not due, and not approved unless
\* its derivative is there already.
LEMMA PutDerivativeStep ==
  ASSUME IndInv, NEW t \in Tasks, PutDerivative(t)
  PROVE  IndInv'
<1> USE DEF IndInv
<1> DEFINE s == task[t].s
<1>0. UNCHANGED <<status, expected, finalised, marked, age, reserved, approved, quarantine, active, erasure, left, overtaken>>
  BY DEF PutDerivative, rows, ledger, deletion
<1>1. s \in Sessions /\ task[t].pc \in {"putd", "lateputd"}
  BY TaskType DEF PutDerivative
<1>2. status[s] # "none" /\ age[s] # "due" /\ s \notin marked
  BY <1>1 DEF TaskInv, PcOK, PutPcs, SessionInv
<1>3. /\ derivative' \in [Sessions -> 0..MaxBytes]
      /\ derivative'[s] > 0 /\ derivative'[s] <= expected[s]
      /\ derivative[s] > 0 => derivative'[s] = derivative[s]
      /\ \A r \in Sessions : r # s => derivative'[r] = derivative[r]
  <2>1. CASE derivative[s] > 0
    BY <1>1, <2>1 DEF PutDerivative, SessionInv, TypeOK
  <2>2. CASE ~(derivative[s] > 0)
    <3>1. PICK n \in 1..expected[s] : derivative' = [derivative EXCEPT ![s] = n]
      BY <2>2 DEF PutDerivative
    <3>2. n \in 0..MaxBytes /\ n > 0 /\ n <= expected[s]
      BY <1>1, MediaConstants DEF TypeOK
    <3> QED
      BY <1>1, <2>2, <3>1, <3>2 DEF TypeOK
  <2> QED
    BY <2>1, <2>2
<1>4. /\ task' \in [Tasks -> TaskRows]
      /\ \/ task[t].pc = "putd" /\ task'[t].pc = "approve" /\ task'[t].s = s
         \/ task[t].pc = "lateputd" /\ task'[t].pc = "idle"
      /\ \A u \in Tasks : u # t => task'[u] = task[u]
  <2>1. CASE At(t, "putd")
    <3>1. Moves(t, "approve", s) /\ "approve" \in Pcs
      BY <2>1, TaskMoves DEF PutDerivative, Pcs, LockPcs
    <3> QED
      BY <1>1, <2>1, <3>1, TaskMoves DEF At
  <2>2. CASE ~At(t, "putd")
    <3>1. PICK q \in Sessions : Moves(t, "idle", q)
      BY <2>2, TaskMoves DEF PutDerivative
    <3> QED
      BY <1>1, <2>2, <3>1, TaskMoves DEF At, Pcs
  <2> QED
    BY <2>1, <2>2
<1>5. TypeOK'
  BY <1>0, <1>3, <1>4 DEF TypeOK, TaskRows
<1>6. TaskInv'
  <2>1. ASSUME NEW u \in Tasks PROVE PcOK(task[u].pc, task[u].s)'
    <3>1. CASE u = t
      <4>1. task[t].pc = "putd" => status[s] = "queued"
        BY DEF TaskInv, PcOK
      <4> QED
        BY <1>0, <1>3, <1>4, <3>1, <4>1 DEF PcOK, PutPcs
    <3>2. CASE u # t
      <4>1. task'[u] = task[u] /\ PcOK(task[u].pc, task[u].s) /\ task[u].s \in Sessions
        BY <1>4, <3>2, TaskType DEF TaskInv
      <4>2. CASE task[u].s = s
        BY <1>0, <1>2, <1>3, <4>1, <4>2 DEF PcOK
      <4>3. CASE task[u].s # s
        BY <1>0, <1>3, <4>1, <4>3 DEF PcOK
      <4> QED
        BY <4>2, <4>3
    <3> QED
      BY <3>1, <3>2
  <2>2. "idle" \notin LockPcs /\ {"putd", "approve"} \subseteq LockPcs
    BY DEF LockPcs
  <2> QED
    BY <1>4, <2>1, <2>2 DEF TaskInv
<1>7. SessionInv' /\ QueuedHasBytes' /\ ApprovedKeepsDerivative' /\ NothingUntracked' /\ WithinQuota'
  BY <1>0, <1>2, <1>3 DEF SessionInv, QueuedHasBytes, ApprovedKeepsDerivative, NothingUntracked, WithinQuota, TypeOK
<1>8. "idle" \notin LockPcs \cup PutPcs /\ {"putd", "approve"} \subseteq LockPcs /\ "lateputd" \in PutPcs
  BY DEF LockPcs, PutPcs
<1>10. erasure # "none" =>
         /\ task[t].pc = "lateputd" /\ status[s] \notin Held
         /\ status[s] \in Discarded \/ s \in overtaken
  <2>1. erasure # "none" => status[s] \notin Held
    BY <1>1, <1>8 DEF FencedInv
  <2>2. /\ task[t].pc = "putd" => status[s] \in Held
        /\ task[t].pc = "lateputd" /\ status[s] = "approved" => s \in overtaken
    BY DEF TaskInv, PcOK, Held
  <2> QED
    BY <1>1, <1>2, <2>1, <2>2 DEF TypeOK, Terminal
<1>11. FencedInv'
  BY <1>0, <1>3, <1>4, <1>8, <1>10 DEF FencedInv
<1>12. PurgeInv'
  BY <1>0, <1>2, <1>3, <1>10 DEF PurgeInv, Purged
<1>13. LedgerBalances'
  <2>1. erasure = "none" /\ status[s] = "approved" => derivative'[s] = derivative[s]
    BY <1>1, <1>3 DEF ApprovedKeepsDerivative
  <2> QED
    BY <1>0, <1>3, <2>1, SameLedger DEF HeldSessions, ApprovedSessions
<1> QED
  BY <1>5, <1>6, <1>7, <1>11, <1>12, <1>13

\* The approval: the task holds the lock of a queued session whose derivative is stored.
LEMMA ApproveStep ==
  ASSUME IndInv, NEW t \in Tasks, Approve(t)
  PROVE  IndInv'
<1> USE DEF IndInv
<1> DEFINE s == task[t].s
<1>0. /\ UNCHANGED <<expected, finalised, marked, age, quarantine, derivative, active, erasure, left>>
      /\ approved' = approved + derivative[s] /\ reserved' = reserved - expected[s]
      /\ reserved >= expected[s]
      /\ overtaken \subseteq overtaken' /\ overtaken' \subseteq overtaken \cup {s}
      /\ \A u \in Tasks : task[u].pc = "lateputd" /\ task[u].s = s => s \in overtaken'
  BY DEF Approve, At, buckets
<1>1. s \in Sessions /\ task[t].pc = "approve" /\ age[s] = "fresh" /\ "approve" \in LockPcs
  BY TaskType DEF Approve, At, LockPcs
<1>2. status[s] = "queued" /\ derivative[s] > 0 /\ s \notin marked
  BY <1>1 DEF TaskInv, PcOK, SessionInv
<1>3. erasure = "none" /\ OnlyLocker(t, s)
  BY <1>1, <1>2 DEF FencedInv, Held, TaskInv, OnlyLocker
<1>4. /\ status' \in [Sessions -> {"none"} \cup Held \cup Terminal]
      /\ \A r \in Sessions : status'[r] = IF r = s THEN "approved" ELSE status[r]
  BY DEF Approve, TypeOK, Terminal
<1>5. /\ task' \in [Tasks -> TaskRows]
      /\ (task'[t].pc = "delq" /\ task'[t].s = s) \/ task'[t].pc = "idle"
      /\ \A u \in Tasks : u # t => task'[u] = task[u]
  <2>1. CASE Go(t, "delq")
    <3>1. Moves(t, "delq", s) /\ "delq" \in Pcs
      BY <2>1, TaskMoves DEF Pcs
    <3> QED
      BY <1>1, <3>1, TaskMoves
  <2>2. CASE Finish(t)
    <3>1. PICK q \in Sessions : Moves(t, "idle", q)
      BY <2>2, TaskMoves
    <3> QED
      BY <3>1, TaskMoves DEF Pcs
  <2> QED
    BY <2>1, <2>2 DEF Approve
<1>6. TypeOK'
  BY <1>0, <1>1, <1>4, <1>5 DEF TypeOK, TaskRows
<1>7. "delq" \notin LockPcs \cup PutPcs /\ "idle" \notin LockPcs \cup PutPcs
  BY DEF LockPcs, PutPcs
<1>8. TaskInv'
  <2>1. ASSUME NEW u \in Tasks PROVE PcOK(task[u].pc, task[u].s)'
    <3>1. CASE u = t
      BY <1>1, <1>4, <1>5, <1>7, <3>1 DEF PcOK, Terminal
    <3>2. CASE u # t
      <4>1. /\ task'[u] = task[u] /\ PcOK(task[u].pc, task[u].s) /\ task[u].s \in Sessions
            /\ task[u].s = s => task[u].pc \notin LockPcs
        BY <1>3, <1>5, <3>2, TaskType DEF TaskInv, OnlyLocker
      <4>2. CASE task[u].s = s
        BY <1>0, <1>2, <1>4, <4>1, <4>2 DEF PcOK, LockPcs, Terminal, Discarded
      <4>3. CASE task[u].s # s
        BY <1>0, <1>4, <4>1, <4>3 DEF PcOK
      <4> QED
        BY <4>2, <4>3
    <3> QED
      BY <3>1, <3>2
  <2> QED
    BY <1>5, <1>7, <2>1 DEF TaskInv
<1>9. SessionInv' /\ QueuedHasBytes' /\ ApprovedKeepsDerivative'
  BY <1>0, <1>2, <1>4 DEF SessionInv, QueuedHasBytes, ApprovedKeepsDerivative, Terminal
<1>10. NothingUntracked'
  BY <1>0, <1>2, <1>4 DEF NothingUntracked, TypeOK
<1>12. FencedInv' /\ PurgeInv'
  BY <1>0, <1>3 DEF FencedInv, PurgeInv, Purged
<1>13. WithinQuota'
  BY <1>0, <1>1, MediaConstants DEF WithinQuota, TypeOK, SessionInv
<1>14. LedgerBalances'
  <2>1. /\ HeldSessions' = HeldSessions \ {s} /\ s \in HeldSessions /\ HeldSessions \in SUBSET Sessions
        /\ ApprovedSessions' = ApprovedSessions \cup {s} /\ s \in Sessions \ ApprovedSessions
        /\ ApprovedSessions \in SUBSET Sessions
    BY <1>1, <1>2, <1>4 DEF HeldSessions, Held, ApprovedSessions
  <2>2. Bytes(expected, HeldSessions \ {s}) = Bytes(expected, HeldSessions) - expected[s]
    BY <2>1, FewerBytes DEF TypeOK, Sizes
  <2>3. Bytes(derivative, ApprovedSessions \cup {s}) = Bytes(derivative, ApprovedSessions) + derivative[s]
    BY <2>1, MoreBytes DEF TypeOK, Sizes
  <2> QED
    BY <1>0, <1>3, <2>1, <2>2, <2>3, Balance
<1> QED
  BY <1>6, <1>8, <1>9, <1>10, <1>12, <1>13, <1>14

-----------------------------------------------------------------------------
(* Cleanup.                                                                *)

\* Objects of a settled session are deleted; the derivative only where it was discarded.
LEMMA DeleteStep ==
  ASSUME IndInv, NEW t \in Tasks, NEW p \in Pcs, NEW q \in Sessions, NEW s \in Sessions,
         status[s] \in Terminal, Moves(t, p, q), p \notin LockPcs \cup PutPcs \cup {"finqueue"},
         PcOK(p, q)', quarantine' \in {quarantine, quarantine \ {s}},
         \/ derivative' = derivative
         \/ status[s] \in Discarded /\ derivative' = [derivative EXCEPT ![s] = 0],
         UNCHANGED <<rows, age, ledger, active, deletion>>
  PROVE  IndInv'
<1> USE DEF IndInv
<1>0. UNCHANGED <<status, expected, finalised, marked, reserved, approved, erasure, left, overtaken>>
  BY DEF rows, ledger, deletion
<1>1. /\ task' \in [Tasks -> TaskRows]
      /\ task'[t].pc = p /\ task'[t].s = q
      /\ \A u \in Tasks : u # t => task'[u] = task[u]
  BY TaskMoves
<1>2. /\ quarantine' \subseteq quarantine
      /\ \A r \in Sessions : r # s => (r \in quarantine' <=> r \in quarantine)
  OBVIOUS
<1>3. /\ derivative' \in [Sessions -> 0..MaxBytes]
      /\ \A r \in Sessions : r # s => derivative'[r] = derivative[r]
      /\ derivative'[s] = derivative[s] \/ (status[s] \in Discarded /\ derivative'[s] = 0)
  BY MediaConstants DEF TypeOK
<1>4. TypeOK'
  BY <1>0, <1>1, <1>2, <1>3 DEF TypeOK, TaskRows
<1>5. status[s] \in {"rejected", "expired", "approved"} /\ (status[s] \in Discarded => status[s] # "approved")
  BY DEF Terminal, Discarded
<1>6. TaskInv'
  <2>1. ASSUME NEW u \in Tasks PROVE PcOK(task[u].pc, task[u].s)'
    <3>1. CASE u = t
      <4>1. PcOK(p, q)' <=> PcOK(task[t].pc, task[t].s)'
        BY <1>1 DEF PcOK
      <4> QED
        BY <3>1, <4>1
    <3>2. CASE u # t
      <4>1. task'[u] = task[u] /\ PcOK(task[u].pc, task[u].s) /\ task[u].s \in Sessions
        BY <1>1, <3>2, TaskType DEF TaskInv
      <4>2. CASE task[u].s = s
        BY <1>0, <1>2, <1>3, <1>5, <4>1, <4>2 DEF PcOK, TypeOK
      <4>3. CASE task[u].s # s
        BY <1>0, <1>2, <1>3, <4>1, <4>3 DEF PcOK
      <4> QED
        BY <4>2, <4>3
    <3> QED
      BY <3>1, <3>2
  <2> QED
    BY <1>1, <2>1 DEF TaskInv
<1>7. SessionInv'
  BY <1>0, <1>2, <1>3 DEF SessionInv, TypeOK
<1>8. QueuedHasBytes' /\ ApprovedKeepsDerivative' /\ NothingUntracked' /\ WithinQuota'
  BY <1>0, <1>2, <1>3, <1>5 DEF QueuedHasBytes, ApprovedKeepsDerivative, NothingUntracked, WithinQuota, TypeOK
<1>10. FencedInv'
  BY <1>0, <1>1, <1>2, <1>3 DEF FencedInv, TypeOK
<1>11. PurgeInv'
  BY <1>0, <1>2, <1>3 DEF PurgeInv, Purged
<1>12. LedgerBalances'
  BY <1>0, <1>3, <1>5, SameLedger DEF HeldSessions, ApprovedSessions
<1> QED
  BY <1>4, <1>6, <1>7, <1>8, <1>10, <1>11, <1>12

LEMMA DeleteQuarantineStep ==
  ASSUME IndInv, NEW t \in Tasks, DeleteQuarantine(t)
  PROVE  IndInv'
<1> DEFINE s == task[t].s
<1>0. /\ UNCHANGED <<rows, age, ledger, derivative, active, deletion>> /\ quarantine' = quarantine \ {s}
      /\ UNCHANGED <<status, age>>
  BY DEF DeleteQuarantine, rows
<1>1. /\ s \in Sessions /\ status[s] \in Terminal
      /\ At(t, "delqd") => status[s] \in Discarded
  BY TaskType DEF DeleteQuarantine, At, IndInv, TaskInv, PcOK, Terminal
<1>2. /\ {"deld", "idle"} \subseteq Pcs
      /\ \A p \in {"deld", "idle"} : p \notin LockPcs \cup PutPcs \cup {"finqueue"}
  BY DEF Pcs, LockPcs, PutPcs
<1>3. CASE At(t, "delqd")
  <2>1. Moves(t, "deld", s)
    BY <1>2, <1>3, TaskMoves DEF IndInv, DeleteQuarantine
  <2>2. PICK r \in Sessions : r = s
    BY <1>1
  <2>3. PcOK("deld", r)'
    BY <1>0, <1>1, <1>3, <2>2 DEF PcOK, PutPcs, Discarded
  <2> QED
    BY <1>0, <1>1, <1>2, <2>1, <2>2, <2>3, DeleteStep
<1>4. CASE ~At(t, "delqd")
  <2>1. PICK q \in Sessions : Moves(t, "idle", q)
    BY <1>4, TaskMoves DEF IndInv, DeleteQuarantine
  <2>2. PcOK("idle", q)'
    BY DEF PcOK, PutPcs
  <2> QED
    BY <1>0, <1>1, <1>2, <2>1, <2>2, DeleteStep
<1> QED
  BY <1>3, <1>4

LEMMA ReconcileDeleteQuarantineStep ==
  ASSUME IndInv, NEW t \in Tasks, ReconcileDeleteQuarantine(t)
  PROVE  IndInv'
<1>0. PICK s \in Sessions : s = task[t].s
  BY TaskType DEF IndInv
<1>1. /\ UNCHANGED <<rows, age, ledger, derivative, active, deletion>> /\ quarantine' = quarantine \ {s}
      /\ UNCHANGED <<status, age>>
  BY <1>0 DEF ReconcileDeleteQuarantine, rows
<1>2. /\ status[s] \in Terminal /\ age[s] = "due"
      /\ At(t, "rdelqd") => status[s] \in Discarded
      /\ ~At(t, "rdelqd") => status[s] = "approved"
  BY <1>0 DEF ReconcileDeleteQuarantine, At, IndInv, TaskInv, PcOK, Terminal
<1>3. PICK p \in {"rdeld", "rmark"} : Go(t, p) /\ (p = "rdeld" <=> At(t, "rdelqd"))
  BY DEF ReconcileDeleteQuarantine
<1>4. p \in Pcs /\ p \notin LockPcs \cup PutPcs \cup {"finqueue"}
  BY DEF Pcs, LockPcs, PutPcs
<1>5. Moves(t, p, s)
  BY <1>0, <1>3, <1>4, TaskMoves DEF IndInv
<1>6. PcOK(p, s)'
  BY <1>1, <1>2, <1>3 DEF PcOK, PutPcs, Discarded, Terminal
<1> QED
  BY <1>1, <1>2, <1>4, <1>5, <1>6, DeleteStep

LEMMA DeleteDerivativeStep ==
  ASSUME IndInv, NEW t \in Tasks, DeleteDerivative(t) \/ ReconcileDeleteDerivative(t)
  PROVE  IndInv'
<1>0. PICK s \in Sessions : s = task[t].s
  BY TaskType DEF IndInv
<1>1. /\ UNCHANGED <<rows, age, ledger, quarantine, active, deletion>>
      /\ derivative' = [derivative EXCEPT ![s] = 0]
      /\ UNCHANGED <<status, age, quarantine>>
  BY <1>0 DEF DeleteDerivative, ReconcileDeleteDerivative, rows
<1>2. /\ status[s] \in Discarded /\ status[s] \in Terminal /\ derivative'[s] = 0
      /\ At(t, "rdeld") => age[s] = "due" /\ s \notin quarantine
  BY <1>0, <1>1 DEF DeleteDerivative, ReconcileDeleteDerivative, At, IndInv, TaskInv, PcOK, Terminal, TypeOK
<1>3. {"rmark", "idle"} \subseteq Pcs /\ \A p \in {"rmark", "idle"} : p \notin LockPcs \cup PutPcs \cup {"finqueue"}
  BY DEF Pcs, LockPcs, PutPcs
<1>4. CASE DeleteDerivative(t)
  <2>1. PICK q \in Sessions : Moves(t, "idle", q)
    BY <1>4, TaskMoves DEF IndInv, DeleteDerivative
  <2>2. PcOK("idle", q)'
    BY DEF PcOK, PutPcs
  <2> QED
    BY <1>1, <1>2, <1>3, <2>1, <2>2, DeleteStep
<1>5. CASE ReconcileDeleteDerivative(t)
  <2>1. Moves(t, "rmark", s)
    BY <1>0, <1>3, <1>5, TaskMoves DEF IndInv, ReconcileDeleteDerivative
  <2>2. PcOK("rmark", s)'
    BY <1>1, <1>2, <1>5 DEF PcOK, PutPcs, ReconcileDeleteDerivative, Terminal, Discarded
  <2> QED
    BY <1>1, <1>2, <1>3, <2>1, <2>2, DeleteStep
<1> QED
  BY <1>4, <1>5

\* The mark: the objects of a due session were deleted and no put can bring them back.
LEMMA ReconcileMarkStep ==
  ASSUME IndInv, NEW t \in Tasks, ReconcileMark(t)
  PROVE  IndInv'
<1> USE DEF IndInv
<1>0. UNCHANGED <<status, expected, finalised, age, reserved, approved, quarantine, derivative, active, erasure, left, overtaken>>
  BY DEF ReconcileMark, ledger, buckets, deletion
<1>1. PICK s \in Sessions : s = task[t].s
  BY TaskType
<1>2. /\ status[s] \in Terminal /\ age[s] = "due" /\ s \notin quarantine
      /\ derivative[s] > 0 => status[s] = "approved"
  BY <1>1 DEF TaskInv, PcOK, ReconcileMark, At
<1>3. marked' \subseteq marked \cup {s}
  BY <1>1 DEF ReconcileMark
<1>4. PICK q \in Sessions : Moves(t, "idle", q)
  BY TaskMoves DEF ReconcileMark
<1>5. /\ task' \in [Tasks -> TaskRows]
      /\ task'[t].pc = "idle"
      /\ \A u \in Tasks : u # t => task'[u] = task[u]
  BY <1>4, TaskMoves DEF Pcs
<1>6. TypeOK'
  BY <1>0, <1>3, <1>5 DEF TypeOK, TaskRows
<1>7. TaskInv'
  <2>1. ASSUME NEW u \in Tasks PROVE PcOK(task[u].pc, task[u].s)'
    <3>1. CASE u = t
      BY <1>5, <3>1 DEF PcOK, PutPcs
    <3>2. CASE u # t
      BY <1>0, <1>5, <3>2 DEF TaskInv, PcOK
    <3> QED
      BY <3>1, <3>2
  <2> QED
    BY <1>5, <2>1 DEF TaskInv, LockPcs
<1>8. SessionInv' /\ QueuedHasBytes' /\ ApprovedKeepsDerivative' /\ NothingUntracked' /\ WithinQuota'
  BY <1>0, <1>2, <1>3 DEF SessionInv, QueuedHasBytes, ApprovedKeepsDerivative, NothingUntracked, WithinQuota
<1>9. "idle" \notin LockPcs \cup PutPcs \cup {"finqueue"}
  BY DEF LockPcs, PutPcs
<1>11. FencedInv'
  BY <1>0, <1>5, <1>9 DEF FencedInv
<1>12. PurgeInv'
  <2>1. status[s] \in Discarded => derivative[s] = 0
    BY <1>2 DEF Discarded, TypeOK
  <2> QED
    BY <1>0, <1>2, <1>3, <2>1 DEF PurgeInv, Purged
<1>13. LedgerBalances'
  BY <1>0, SameLedger DEF HeldSessions, ApprovedSessions
<1> QED
  BY <1>6, <1>7, <1>8, <1>11, <1>12, <1>13

-----------------------------------------------------------------------------
(* Time and the account.                                                   *)

\* Time passes for one session: no put is on its way once it is due.
LEMMA TimeStep ==
  ASSUME IndInv, NEW s \in Sessions, Expire(s) \/ FallDue(s)
  PROVE  IndInv'
<1> USE DEF IndInv
<1>0. UNCHANGED <<status, expected, finalised, marked, reserved, approved, quarantine, derivative, active, erasure, left, overtaken, task>>
  BY DEF Expire, FallDue, rows, ledger, buckets, deletion
<1>1. /\ age' \in [Sessions -> {"fresh", "expired", "due"}]
      /\ \A r \in Sessions : r # s => age'[r] = age[r]
      /\ age[s] # "due"
      /\ age'[s] = "due" => \A t \in Tasks : ~(task[t].pc \in PutPcs /\ task[t].s = s)
  BY DEF Expire, FallDue, TypeOK
<1>2. TypeOK'
  BY <1>0, <1>1 DEF TypeOK
<1>3. TaskInv'
  <2>1. ASSUME NEW u \in Tasks PROVE PcOK(task[u].pc, task[u].s)'
    <3>1. PcOK(task[u].pc, task[u].s) /\ task[u].s \in Sessions
      BY TaskType DEF TaskInv
    <3>2. CASE task[u].s = s
      BY <1>0, <1>1, <3>1, <3>2 DEF PcOK
    <3>3. CASE task[u].s # s
      BY <1>0, <1>1, <3>1, <3>3 DEF PcOK
    <3> QED
      BY <3>2, <3>3
  <2> QED
    BY <1>0, <2>1 DEF TaskInv
<1>4. SessionInv'
  BY <1>0, <1>1 DEF SessionInv
<1>5. QueuedHasBytes' /\ ApprovedKeepsDerivative' /\ NothingUntracked' /\ WithinQuota' /\ PurgeInv'
  BY <1>0 DEF QueuedHasBytes, ApprovedKeepsDerivative, NothingUntracked, WithinQuota, PurgeInv, Purged
<1>6. FencedInv'
  BY <1>0 DEF FencedInv
<1>7. LedgerBalances'
  BY <1>0, SameLedger DEF HeldSessions, ApprovedSessions
<1> QED
  BY <1>2, <1>3, <1>4, <1>5, <1>6, <1>7

\* The account is locked, reinstated or erased, whatever is on its way.
LEMMA AccountStep ==
  ASSUME IndInv, ChangeAccount \/ EraseAccount
  PROVE  IndInv'
<1> USE DEF IndInv
<1>0. UNCHANGED <<status, expected, finalised, marked, age, reserved, approved, quarantine, derivative, erasure, left, overtaken, task>>
  BY DEF ChangeAccount, EraseAccount, rows, ledger, buckets, deletion
<1>1. /\ active' \in {"yes", "no", "deleted"} /\ active # "deleted"
  BY DEF ChangeAccount, EraseAccount
<1>2. TypeOK' /\ TaskInv'
  BY <1>0, <1>1 DEF TypeOK, TaskInv, PcOK
<1>3. SessionInv' /\ QueuedHasBytes' /\ ApprovedKeepsDerivative' /\ NothingUntracked' /\ WithinQuota' /\ PurgeInv'
  BY <1>0 DEF SessionInv, QueuedHasBytes, ApprovedKeepsDerivative, NothingUntracked, WithinQuota, PurgeInv, Purged
<1>5. FencedInv'
  BY <1>0, <1>1 DEF FencedInv
<1>6. LedgerBalances'
  BY <1>0, SameLedger DEF HeldSessions, ApprovedSessions
<1> QED
  BY <1>2, <1>3, <1>5, <1>6

-----------------------------------------------------------------------------
(* The deletion of the account.                                            *)

\* Every open session is expired under its row lock, as the fence and the commit of the purge do.
Closes ==
  /\ active = "deleted"
  /\ \A s \in Sessions : status[s] \in Held => ~Locked(s)
  /\ status' = [s \in Sessions |-> IF status[s] \in Held THEN "expired" ELSE status[s]]
  /\ UNCHANGED <<expected, finalised, marked, age, quarantine, derivative, active, left, overtaken, task>>

LEMMA ClosesKeeps ==
  ASSUME IndInv, Closes
  PROVE  /\ status' \in [Sessions -> {"none"} \cup Held \cup Terminal]
         /\ TaskInv' /\ SessionInv' /\ QueuedHasBytes' /\ NothingUntracked'
         /\ \A s \in Sessions :
              /\ status'[s] \notin Held
              /\ status[s] \notin Held => status'[s] = status[s]
              /\ status[s] \in Held => status'[s] \in Discarded
<1> USE DEF IndInv
<1>0. UNCHANGED <<expected, finalised, marked, age, quarantine, derivative, active, left, overtaken, task>> /\ active = "deleted"
  BY DEF Closes
<1>1. /\ status' \in [Sessions -> {"none"} \cup Held \cup Terminal]
      /\ \A s \in Sessions : status'[s] = IF status[s] \in Held THEN "expired" ELSE status[s]
  BY DEF Closes, TypeOK, Terminal, Discarded
<1>2. \A s \in Sessions :
              /\ status'[s] \notin Held
              /\ status[s] \notin Held => status'[s] = status[s]
              /\ status[s] \in Held => status'[s] \in Discarded /\ status'[s] = "expired"
  BY <1>1 DEF Held, Discarded
<1>3. \A t \in Tasks : status[task[t].s] \in Held => task[t].pc \notin LockPcs
  BY TaskType DEF Closes, Locked
<1>4. TaskInv'
  <2>1. ASSUME NEW u \in Tasks PROVE PcOK(task[u].pc, task[u].s)'
    <3>1. PcOK(task[u].pc, task[u].s) /\ task[u].s \in Sessions
      BY TaskType DEF TaskInv
    <3>2. CASE status[task[u].s] \in Held
      BY <1>0, <1>2, <1>3, <3>1, <3>2 DEF PcOK, LockPcs, Held, Terminal, Discarded
    <3>3. CASE status[task[u].s] \notin Held
      <4>1. status'[task'[u].s] = status[task[u].s] /\ task' = task
        BY <1>0, <1>2, <3>1, <3>3
      <4> QED
        BY <1>0, <3>1, <4>1 DEF PcOK
    <3> QED
      BY <3>2, <3>3
  <2> QED
    BY <1>0, <2>1 DEF TaskInv
<1>5. SessionInv'
  BY <1>0, <1>1, <1>2 DEF SessionInv, Held, Terminal, Discarded
<1>7. QueuedHasBytes' /\ NothingUntracked'
  BY <1>0, <1>1 DEF QueuedHasBytes, NothingUntracked, Held, TypeOK
<1> QED
  BY <1>1, <1>2, <1>4, <1>5, <1>7

LEMMA FenceSessionsStep ==
  ASSUME IndInv, FenceSessions
  PROVE  IndInv'
<1> USE DEF IndInv
<1>0. /\ Closes /\ erasure = "none" /\ erasure' = "fenced" /\ active = "deleted"
      /\ UNCHANGED <<expected, finalised, marked, age, reserved, approved, quarantine, derivative, active, left, overtaken, task>>
  BY DEF FenceSessions, Closes, ledger, buckets
<1>1. /\ status' \in [Sessions -> {"none"} \cup Held \cup Terminal]
      /\ TaskInv' /\ SessionInv' /\ QueuedHasBytes' /\ NothingUntracked'
      /\ \A s \in Sessions :
              /\ status'[s] \notin Held
              /\ status[s] \notin Held => status'[s] = status[s]
              /\ status[s] \in Held => status'[s] \in Discarded
  BY <1>0, ClosesKeeps
<1>2. TypeOK'
  BY <1>0, <1>1 DEF TypeOK
<1>3. FencedInv'
  BY <1>0, <1>1, TaskType DEF FencedInv
<1>4. PurgeInv' /\ WithinQuota'
  BY <1>0 DEF PurgeInv, Purged, WithinQuota
<1>5. ApprovedKeepsDerivative'
  BY <1>0, <1>1 DEF ApprovedKeepsDerivative, Discarded
<1>6. LedgerBalances'
  BY <1>0, Balance
<1> QED
  BY <1>1, <1>2, <1>3, <1>4, <1>5, <1>6

LEMMA PurgeListStep ==
  ASSUME IndInv, PurgeList
  PROVE  IndInv'
<1> USE DEF IndInv
<1>0. /\ UNCHANGED <<status, expected, finalised, marked, age, reserved, approved, quarantine, derivative, active, overtaken, task>>
      /\ erasure # "none" /\ erasure' = "purging"
      /\ left' = {s \in Sessions : status[s] # "none"} \X {"quarantine", "approved"}
  BY DEF PurgeList, rows, ledger, buckets
<1>1. TypeOK' /\ TaskInv'
  BY <1>0 DEF TypeOK, TaskInv, PcOK
<1>2. SessionInv' /\ QueuedHasBytes' /\ ApprovedKeepsDerivative' /\ NothingUntracked' /\ WithinQuota'
  BY <1>0 DEF SessionInv, QueuedHasBytes, ApprovedKeepsDerivative, NothingUntracked, WithinQuota
<1>3. FencedInv'
  BY <1>0 DEF FencedInv
<1>4. PurgeInv'
  BY <1>0 DEF PurgeInv, Purged, SessionInv
<1>5. LedgerBalances'
  BY <1>0, Balance
<1> QED
  BY <1>1, <1>2, <1>3, <1>4, <1>5

\* Behind the fence nobody needs the objects that the purge deletes.
LEMMA PurgeObjectStep ==
  ASSUME IndInv, NEW s \in Sessions, NEW bucket \in {"quarantine", "approved"}, PurgeObject(s, bucket)
  PROVE  IndInv'
<1> USE DEF IndInv
<1>0. /\ UNCHANGED <<status, expected, finalised, marked, age, reserved, approved, active, erasure, overtaken, task>>
      /\ erasure = "purging" /\ left' = left \ {<<s, bucket>>}
  BY DEF PurgeObject, PurgeInv, Purged, rows, ledger
<1>1. /\ quarantine' \subseteq quarantine
      /\ \A r \in Sessions : r # s => (r \in quarantine' <=> r \in quarantine)
      /\ bucket = "quarantine" => s \notin quarantine'
  BY DEF PurgeObject
<1>2. /\ derivative' \in [Sessions -> 0..MaxBytes]
      /\ \A r \in Sessions : derivative'[r] = derivative[r] \/ derivative'[r] = 0
      /\ bucket = "approved" => derivative'[s] = 0
  BY MediaConstants DEF PurgeObject, TypeOK
<1>3. TypeOK'
  BY <1>0, <1>1, <1>2 DEF TypeOK
<1>4. \A t \in Tasks : task[t].pc \in LockPcs \cup PutPcs \cup {"finqueue"} => status[task[t].s] \notin Held
  BY <1>0 DEF FencedInv
<1>5. TaskInv'
  <2>1. ASSUME NEW u \in Tasks PROVE PcOK(task[u].pc, task[u].s)'
    <3>1. PcOK(task[u].pc, task[u].s) /\ task[u].s \in Sessions
      BY TaskType DEF TaskInv
    <3>2. task[u].pc # "approve" /\ (task[u].pc = "finqueue" => status[task[u].s] # "pending")
      BY <1>4, <3>1 DEF PcOK, LockPcs, Held
    <3> QED
      BY <1>0, <1>1, <1>2, <3>1, <3>2 DEF PcOK
  <2> QED
    BY <1>0, <2>1 DEF TaskInv
<1>6. SessionInv'
  BY <1>0, <1>1, <1>2 DEF SessionInv, TypeOK
<1>7. QueuedHasBytes'
  BY <1>0 DEF QueuedHasBytes, FencedInv, Held
<1>8. NothingUntracked'
  BY <1>0, <1>1, <1>2 DEF NothingUntracked, TypeOK
<1>9. ApprovedKeepsDerivative' /\ WithinQuota'
  BY <1>0 DEF ApprovedKeepsDerivative, WithinQuota
<1>11. FencedInv'
  BY <1>0, <1>1, <1>2 DEF FencedInv
<1>12. PurgeInv'
  <2>1. ASSUME NEW r \in Sessions PROVE Purged(r)'
    <3>1. Purged(r)
      BY <1>0 DEF PurgeInv
    <3>2. <<r, "quarantine">> \in left => <<r, "quarantine">> \in left' \/ r \notin quarantine'
      BY <1>0, <1>1
    <3>3. <<r, "approved">> \in left => <<r, "approved">> \in left' \/ derivative'[r] = 0
      BY <1>0, <1>2
    <3> QED
      BY <1>0, <1>1, <1>2, <3>1, <3>2, <3>3 DEF Purged
  <2> QED
    BY <1>0, <2>1 DEF PurgeInv, Purged
<1>13. LedgerBalances'
  BY <1>0, Balance
<1> QED
  BY <1>3, <1>5, <1>6, <1>7, <1>8, <1>9, <1>11, <1>12, <1>13

\* The ledger row goes when no session is open.
LEMMA PurgeCommitStep ==
  ASSUME IndInv, PurgeCommit
  PROVE  IndInv'
<1> USE DEF IndInv
<1>0. /\ Closes /\ erasure = "purging" /\ erasure' = "purged" /\ active = "deleted"
      /\ left = {} /\ reserved' = 0 /\ approved' = 0
      /\ UNCHANGED <<expected, finalised, marked, age, quarantine, derivative, active, left, overtaken, task>>
  BY DEF PurgeCommit, Closes, buckets, FencedInv
<1>1. /\ status' \in [Sessions -> {"none"} \cup Held \cup Terminal]
      /\ TaskInv' /\ SessionInv' /\ QueuedHasBytes' /\ NothingUntracked'
      /\ \A s \in Sessions :
              /\ status'[s] \notin Held
              /\ status[s] \notin Held => status'[s] = status[s]
              /\ status[s] \in Held => status'[s] \in Discarded
  BY <1>0, ClosesKeeps
<1>2. TypeOK'
  BY <1>0, <1>1 DEF TypeOK
<1>3. FencedInv'
  BY <1>0, <1>1, TaskType DEF FencedInv
<1>4. PurgeInv'
  BY <1>0, <1>1 DEF PurgeInv, Purged, Discarded, Held
<1>5. ApprovedKeepsDerivative' /\ WithinQuota'
  BY <1>0, MediaConstants DEF ApprovedKeepsDerivative, WithinQuota
<1>6. LedgerBalances'
  <2>1. HeldSessions' = {}
    BY <1>1 DEF HeldSessions
  <2>2. Bytes(expected', {}) = 0
    BY NoBytes
  <2> QED
    BY <1>0, <2>1, <2>2, Balance
<1> QED
  BY <1>1, <1>2, <1>3, <1>4, <1>5, <1>6

-----------------------------------------------------------------------------
(* The inductive invariant.                                                *)

LEMMA InitInv == Init => IndInv
<1> SUFFICES ASSUME Init PROVE IndInv
  OBVIOUS
<1> USE DEF Init
<1>1. \A t \in Tasks : task[t] = IdleTask
  OBVIOUS
<1>2. TypeOK
  BY TaskType, MediaConstants DEF TypeOK, TaskRows
<1>3. "idle" \notin LockPcs \cup PutPcs \cup {"finqueue"}
  BY DEF LockPcs, PutPcs
<1>4. TaskInv
  BY <1>1, <1>3, TaskType DEF TaskInv, PcOK
<1>5. SessionInv /\ QueuedHasBytes /\ ApprovedKeepsDerivative /\ NothingUntracked
  BY MediaConstants DEF SessionInv, QueuedHasBytes, ApprovedKeepsDerivative, NothingUntracked
<1>6. FencedInv /\ PurgeInv /\ WithinQuota
  BY MediaConstants DEF FencedInv, PurgeInv, Purged, WithinQuota
<1>7. LedgerBalances
  <2>1. HeldSessions = {} /\ ApprovedSessions = {}
    BY DEF HeldSessions, Held, ApprovedSessions
  <2>2. Bytes(expected, {}) = 0 /\ Bytes(derivative, {}) = 0
    BY NoBytes
  <2> QED
    BY <2>1, <2>2, Balance
<1> QED
  BY <1>2, <1>4, <1>5, <1>6, <1>7 DEF IndInv

LEMMA StutterStep ==
  ASSUME IndInv, UNCHANGED vars
  PROVE  IndInv'
  BY DEF vars, rows, ledger, buckets, deletion, IndInv, TypeOK, TaskInv, PcOK, SessionInv,
         FencedInv, PurgeInv, Purged, LedgerBalances, Bytes, WithinQuota, QueuedHasBytes, ApprovedKeepsDerivative, NothingUntracked

\* However requests, the processor, the cron and the account's deletion interleave, over however
\* many sessions and invocations, the invariant holds.
THEOREM Invariance == Spec => []IndInv
<1>1. ASSUME IndInv, [Next]_vars
      PROVE  IndInv'
  <2>1. CASE UNCHANGED vars
    BY <1>1, <2>1, StutterStep
  <2>2. ASSUME NEW s \in Sessions, NEW n \in 1..MaxBytes, CreateUploadSession(s, n)
        PROVE  IndInv'
    BY <1>1, <2>2, CreateStep
  <2>3. ASSUME NEW t \in Tasks, NEW s \in Sessions,
               \/ UploadRead(t, s) \/ FinaliseRead(t, s)
               \/ ProcessSettled(t, s) \/ ProcessExpired(t, s) \/ ProcessBegin(t, s)
               \/ Reconcile(t, s)
        PROVE  IndInv'
    BY <1>1, <2>3, UploadReadStep, FinaliseReadStep, ProcessSettledStep, ProcessExpiredStep, ProcessBeginStep,
       ReconcileExpireStep, ReconcileSettledStep DEF Reconcile
  <2>4. ASSUME NEW t \in Tasks, Step(t) \/ Abandon(t) \/ LoseConnection(t)
        PROVE  IndInv'
    BY <1>1, <2>4, TaskEndsStep, UploadInactiveStep, UploadBeginStep, PutQuarantineStep, FinaliseSettleStep,
       FinaliseQueueStep, ProcessDiscardStep, ProcessTransformedStep, PutDerivativeStep, ApproveStep,
       DeleteQuarantineStep, DeleteDerivativeStep, ReconcileDeleteQuarantineStep, ReconcileMarkStep,
       LoseConnectionStep DEF Step
  <2>5. ASSUME NEW s \in Sessions, Expire(s) \/ FallDue(s)
        PROVE  IndInv'
    BY <1>1, <2>5, TimeStep
  <2>6. CASE ChangeAccount \/ EraseAccount \/ FenceSessions \/ PurgeList \/ PurgeCommit
    BY <1>1, <2>6, AccountStep, FenceSessionsStep, PurgeListStep, PurgeCommitStep
  <2>7. ASSUME NEW s \in Sessions, NEW bucket \in {"quarantine", "approved"}, PurgeObject(s, bucket)
        PROVE  IndInv'
    BY <1>1, <2>7, PurgeObjectStep
  <2> QED
    BY <1>1, <2>1, <2>2, <2>3, <2>4, <2>5, <2>6, <2>7 DEF Next
<1> QED
  BY <1>1, InitInv, PTL DEF Spec

\* Every variable keeps its type; in particular neither balance of media.storage_ledger is ever
\* negative, the CHECKs that would abort a settlement.
THEOREM TypeCorrect == Spec => []TypeOK
<1>1. IndInv => TypeOK
  BY DEF IndInv
<1> QED
  BY <1>1, Invariance, PTL

\* The ledger is the sum of what its sessions hold: each reservation is released exactly once and
\* each approved derivative booked once, whichever of finalise, processor and cron gets there first.
THEOREM LedgerIsExact == Spec => []LedgerBalances
<1>1. IndInv => LedgerBalances
  BY DEF IndInv
<1> QED
  BY <1>1, Invariance, PTL

\* The check in createUploadSession keeps the account within its quota for good.
THEOREM QuotaHolds == Spec => []WithinQuota
<1>1. IndInv => WithinQuota
  BY DEF IndInv
<1> QED
  BY <1>1, Invariance, PTL

\* The bytes of a session that finaliseUpload queued stay in quarantine until it is settled.
THEOREM QueuedBytes == Spec => []QueuedHasBytes
<1>1. IndInv => QueuedHasBytes
  BY DEF IndInv
<1> QED
  BY <1>1, Invariance, PTL

\* No late or repeated cleanup deletes the derivative of an approved session.
THEOREM ApprovedBytes == Spec => []ApprovedKeepsDerivative
<1>1. IndInv => ApprovedKeepsDerivative
  BY DEF IndInv
<1> QED
  BY <1>1, Invariance, PTL

\* A session marked with quarantine_deleted_at has left nothing behind, and nothing comes back.
THEOREM CleanupIsFinal == Spec => []NothingUntracked
<1>1. IndInv => NothingUntracked
  BY DEF IndInv
<1> QED
  BY <1>1, Invariance, PTL

\* After the account's purge, whatever a late put leaves in a bucket is still on the reconciler's
\* books, unless its session was approved by a redelivered event while the put was on its way.
THEOREM ErasureTracked == Spec => []ErasureIsTracked
<1>1. IndInv => ErasureIsTracked
  <2> SUFFICES ASSUME IndInv, erasure = "purged", NEW s \in Sessions
               PROVE  /\ s \in quarantine => status[s] \in Terminal /\ s \notin marked
                      /\ derivative[s] > 0 /\ s \notin overtaken => status[s] \in Discarded /\ s \notin marked
    BY DEF ErasureIsTracked
  <2>1. left = {}
    BY DEF IndInv, PurgeInv, Purged
  <2> QED
    BY <2>1 DEF IndInv, PurgeInv, Purged
<1> QED
  BY <1>1, Invariance, PTL

=============================================================================
