--------------------------- MODULE StandardMedia ---------------------------
(***************************************************************************)
(* Standard image uploads of one account.  The public API reserves quota,  *)
(* stores the bytes in the quarantine bucket and finalises the session;    *)
(* the jobs Worker turns the bytes into an approved derivative, and the    *)
(* cron expires sessions and removes what they left behind.                *)
(*                                                                         *)
(* Session rows and the storage ledger live in PostgreSQL, bytes in two R2 *)
(* buckets, and no transaction spans both.  A task is one running Worker   *)
(* invocation.  It takes the row lock with FOR UPDATE NOWAIT and keeps it  *)
(* across R2 calls; when its connection drops the lock is gone while the   *)
(* R2 call is still on its way.                                            *)
(*                                                                         *)
(* External assumption: an R2 put begun before a session expires has ended *)
(* 15 minutes after the expiry, the platform's limit on an invocation.     *)
(***************************************************************************)
EXTENDS Naturals, FiniteSets

CONSTANTS
  Sessions,  \* media.upload_sessions rows with purpose 'standard'
  Tasks,     \* concurrent invocations: requests, queue consumers, cron ticks
  MaxBytes,  \* largest expected_bytes
  Quota,     \* MEDIA_QUOTA_BYTES
  Erasing    \* whether the account's deletion is part of the instance

ASSUME MediaConstants ==
  /\ Erasing \in BOOLEAN /\ MaxBytes \in Nat \ {0} /\ Quota \in Nat \ {0}
  /\ IsFiniteSet(Sessions) /\ Sessions # {}

VARIABLES
  status,      \* "none" before creation
  expected,    \* expected_bytes
  age,         \* expires_at against the clock: fresh, expired, or due (15 minutes past)
  finalised,   \* sessions with a media.upload.finalised event, delivered at least once
  marked,      \* sessions with quarantine_deleted_at
  reserved,    \* storage_ledger.bytes_reserved
  approved,    \* storage_ledger.bytes_approved
  quarantine,  \* sessions with an object in MEDIA_QUARANTINE
  derivative,  \* size of the session's object in MEDIA_APPROVED, 0 when absent
  active,      \* identity.users is active without deleted_at: "yes", or "no", or "deleted" for good
  erasure,     \* how far AccountDeleteWorkflow has come with the account's media
  left,        \* the objects it has listed and not deleted yet, by session and bucket
  overtaken,   \* history: sessions approved while an earlier put of their derivative was on its way
  task         \* each invocation's position

rows == <<status, expected, finalised, marked>>
ledger == <<reserved, approved>>
buckets == <<quarantine, derivative>>
deletion == <<erasure, left, overtaken>>
vars == <<rows, age, ledger, buckets, active, deletion, task>>

Held == {"pending", "queued"}
Discarded == {"rejected", "expired"}
Terminal == Discarded \cup {"approved"}

\* Positions at which a task holds its session's row lock, and at which it has a put on its way.
LockPcs == {"put", "derive", "putd", "approve"}
PutPcs == {"put", "lateput", "putd", "lateputd"}
Pcs == {"idle", "upload", "finexpire", "finreject", "finqueue", "delq", "delqd", "deld",
        "rdelq", "rdelqd", "rdeld", "rmark"} \cup LockPcs \cup PutPcs
IdleTask == [pc |-> "idle", s |-> CHOOSE s \in Sessions : TRUE]

Init ==
  /\ status = [s \in Sessions |-> "none"]
  /\ expected = [s \in Sessions |-> 0]
  /\ age = [s \in Sessions |-> "fresh"]
  /\ finalised = {} /\ marked = {} /\ quarantine = {} /\ overtaken = {}
  /\ reserved = 0 /\ approved = 0
  /\ derivative = [s \in Sessions |-> 0]
  /\ active = "yes" /\ erasure = "none" /\ left = {}
  /\ task = [t \in Tasks |-> IdleTask]

Locked(s) == \E t \in Tasks : task[t].pc \in LockPcs /\ task[t].s = s
At(t, pc) == task[t].pc = pc
Go(t, pc) == task' = [task EXCEPT ![t].pc = pc]
Start(t, pc, s) == At(t, "idle") /\ task' = [task EXCEPT ![t] = [pc |-> pc, s |-> s]]
Finish(t) == task' = [task EXCEPT ![t] = IdleTask]

\* What the sessions of S add up to, each with its size: their bytes, counted.
Bytes(size, S) == Cardinality({x \in S \X (1..MaxBytes) : x[2] <= size[x[1]]})

\* Terminal sessions whose quarantine object has not been confirmed deleted.
CleanupPending == {s \in Sessions : status[s] \in Terminal} \ marked

\* Mutant: the status is changed without giving the reservation back.
SettleKeepingReservation(s, to) ==
  /\ status' = [status EXCEPT ![s] = to]
  /\ UNCHANGED <<expected, finalised, marked, ledger>>

\* A session leaves pending or queued unapproved: its reservation is released with it.
Settle(s, to) ==
  /\ reserved >= expected[s]
  /\ status' = [status EXCEPT ![s] = to]
  /\ reserved' = reserved - expected[s]
  /\ UNCHANGED <<expected, finalised, marked, approved>>

-----------------------------------------------------------------------------
(* Public API: create, upload, finalise.                                   *)

\* Mutant: only the reservations count against the quota.
CreateIgnoringApproved(s, n) ==
  /\ status[s] = "none" /\ (active = "yes" \/ Erasing)
  /\ reserved + n <= Quota
  /\ status' = [status EXCEPT ![s] = "pending"]
  /\ expected' = [expected EXCEPT ![s] = n]
  /\ reserved' = reserved + n
  /\ UNCHANGED <<finalised, marked, age, approved, buckets, active, deletion, task>>

\* createUploadSession, under the ledger's row lock.  The account is checked when the request
\* arrives and not again: while the account is deleted a request may still be on its way.
CreateUploadSession(s, n) ==
  /\ status[s] = "none" /\ (active = "yes" \/ Erasing)
  /\ reserved + approved + Bytes(expected, CleanupPending) + n <= Quota
  /\ status' = [status EXCEPT ![s] = "pending"]
  /\ expected' = [expected EXCEPT ![s] = n]
  /\ reserved' = reserved + n
  /\ UNCHANGED <<finalised, marked, age, approved, buckets, active, deletion, task>>

\* uploadSessionBytes: the checks made before the body is read.
UploadRead(t, s) ==
  /\ status[s] = "pending" /\ age[s] = "fresh" /\ active = "yes"
  /\ Start(t, "upload", s)
  /\ UNCHANGED <<rows, age, ledger, buckets, active, deletion>>

UploadAllowed(s) == ~Locked(s) /\ status[s] = "pending" /\ age[s] = "fresh"

\* The row is locked, no longer pending or expired.
UploadRefused(t) ==
  /\ At(t, "upload") /\ ~UploadAllowed(task[t].s)
  /\ Finish(t)
  /\ UNCHANGED <<rows, age, ledger, buckets, active, deletion>>

UploadInactive(t) ==
  LET s == task[t].s IN
  /\ At(t, "upload") /\ UploadAllowed(s) /\ active # "yes"
  /\ Settle(s, "expired")
  /\ Finish(t)
  /\ UNCHANGED <<age, buckets, active, deletion>>

\* The lock is taken; bytes already stored and verified are not put again.
UploadBegin(t) ==
  LET s == task[t].s IN
  /\ At(t, "upload") /\ UploadAllowed(s) /\ active = "yes"
  /\ IF s \in quarantine THEN Finish(t) ELSE Go(t, "put")
  /\ UNCHANGED <<rows, age, ledger, buckets, active, deletion>>

\* The conditional put takes effect; what follows only sets observed_bytes or throws.
PutQuarantine(t) ==
  /\ task[t].pc \in {"put", "lateput"}
  /\ quarantine' = quarantine \cup {task[t].s}
  /\ Finish(t)
  /\ UNCHANGED <<rows, age, ledger, derivative, active, deletion>>

\* Mutant: the object is deleted as soon as the unlocked read finds the session settled or expired,
\* or its bytes unreadable.
FinaliseReadDeleting(t, s) ==
  /\ \/ status[s] \in Discarded /\ Start(t, "delq", s)
     \/ /\ status[s] = "pending" /\ s \in quarantine
        /\ \E pc \in {"finqueue", "delq"} : Start(t, pc, s)
  /\ UNCHANGED <<rows, age, ledger, buckets, active, deletion>>

\* finaliseUpload: the unlocked read and, for a pending session, the check of the stored bytes.
FinaliseRead(t, s) ==
  /\ \/ status[s] \in Discarded /\ Start(t, "delq", s)
     \/ status[s] = "pending" /\ age[s] # "fresh" /\ Start(t, "finexpire", s)
     \/ /\ status[s] = "pending" /\ age[s] = "fresh" /\ s \in quarantine
        /\ \E pc \in {"finqueue", "finreject"} : Start(t, pc, s)
  /\ UNCHANGED <<rows, age, ledger, buckets, active, deletion>>

\* The UPDATE waits for the row lock and finds the session no longer pending,
\* or, when it is to be queued, no longer fresh.
FinaliseRefused(t) ==
  LET s == task[t].s IN
  /\ ~Locked(s)
  /\ \/ task[t].pc \in {"finexpire", "finreject"} /\ status[s] # "pending"
     \/ At(t, "finqueue") /\ (status[s] # "pending" \/ age[s] # "fresh")
  /\ Finish(t)
  /\ UNCHANGED <<rows, age, ledger, buckets, active, deletion>>

\* expirePendingUploadReservation and rejectUploadReservation; the object is deleted next.
FinaliseSettle(t) ==
  LET s == task[t].s IN
  /\ ~Locked(s) /\ status[s] = "pending"
  /\ \/ At(t, "finexpire") /\ age[s] # "fresh" /\ Settle(s, "expired")
     \/ At(t, "finreject") /\ Settle(s, "rejected")
  /\ Go(t, "delq")
  /\ UNCHANGED <<age, buckets, active, deletion>>

FinaliseQueue(t) ==
  LET s == task[t].s IN
  /\ At(t, "finqueue") /\ ~Locked(s)
  /\ status[s] = "pending" /\ age[s] = "fresh"
  /\ status' = [status EXCEPT ![s] = "queued"]
  /\ finalised' = finalised \cup {s}
  /\ Finish(t)
  /\ UNCHANGED <<expected, marked, age, ledger, buckets, active, deletion>>

-----------------------------------------------------------------------------
(* Jobs: processMediaUpload.                                               *)

\* A redelivered event finds the session settled and repeats the deletes.
ProcessSettled(t, s) ==
  /\ s \in finalised /\ ~Locked(s)
  /\ \/ status[s] = "approved" /\ Start(t, "delq", s)
     \/ status[s] \in Discarded /\ Start(t, "delqd", s)
  /\ UNCHANGED <<rows, age, ledger, buckets, active, deletion>>

ProcessExpired(t, s) ==
  /\ s \in finalised /\ ~Locked(s) /\ status[s] = "queued"
  /\ age[s] # "fresh" \/ active # "yes"
  /\ Settle(s, "expired")
  /\ Start(t, "delqd", s)
  /\ UNCHANGED <<age, buckets, active, deletion>>

\* A derivative left by an earlier attempt is used again; a missing source is an error.
ProcessBegin(t, s) ==
  /\ s \in finalised /\ ~Locked(s) /\ status[s] = "queued"
  /\ age[s] = "fresh" /\ active = "yes"
  /\ \/ derivative[s] > 0 /\ Start(t, "approve", s)
     \/ derivative[s] = 0 /\ s \in quarantine /\ Start(t, "derive", s)
  /\ UNCHANGED <<rows, age, ledger, buckets, active, deletion>>

\* settleRejected on bad bytes, dimensions or output size; expireQueued when time ran out.
ProcessDiscard(t) ==
  LET s == task[t].s IN
  /\ At(t, "derive")
  /\ \/ Settle(s, "rejected")
     \/ age[s] # "fresh" /\ Settle(s, "expired")
  /\ Go(t, "delqd")
  /\ UNCHANGED <<age, buckets, active, deletion>>

ProcessTransformed(t) ==
  /\ At(t, "derive") /\ age[task[t].s] = "fresh"
  /\ Go(t, "putd")
  /\ UNCHANGED <<rows, age, ledger, buckets, active, deletion>>

\* The conditional put of the derivative; the winner of an earlier put is kept.
PutDerivative(t) ==
  LET s == task[t].s IN
  /\ task[t].pc \in {"putd", "lateputd"}
  /\ IF derivative[s] > 0 THEN UNCHANGED derivative
     ELSE \E n \in 1..expected[s] : derivative' = [derivative EXCEPT ![s] = n]
  /\ IF At(t, "putd") THEN Go(t, "approve") ELSE Finish(t)
  /\ UNCHANGED <<rows, age, ledger, quarantine, active, deletion>>

\* The object row, the ledger and the status commit together; the acknowledgement may be lost.
Approve(t) ==
  LET s == task[t].s IN
  /\ At(t, "approve") /\ age[s] = "fresh" /\ reserved >= expected[s]
  /\ status' = [status EXCEPT ![s] = "approved"]
  /\ approved' = approved + derivative[s]
  /\ reserved' = reserved - expected[s]
  /\ overtaken' = IF \E u \in Tasks : At(u, "lateputd") /\ task[u].s = s
                  THEN overtaken \cup {s} ELSE overtaken
  /\ Go(t, "delq") \/ Finish(t)
  /\ UNCHANGED <<expected, finalised, marked, age, buckets, active, erasure, left>>

\* Mutant: the approved session's derivative is removed with its quarantine object.
DeleteQuarantineThenDerivative(t) ==
  /\ task[t].pc \in {"delq", "delqd"}
  /\ quarantine' = quarantine \ {task[t].s}
  /\ Go(t, "deld")
  /\ UNCHANGED <<rows, age, ledger, derivative, active, deletion>>

DeleteQuarantine(t) ==
  /\ task[t].pc \in {"delq", "delqd"}
  /\ quarantine' = quarantine \ {task[t].s}
  /\ IF At(t, "delqd") THEN Go(t, "deld") ELSE Finish(t)
  /\ UNCHANGED <<rows, age, ledger, derivative, active, deletion>>

DeleteDerivative(t) ==
  /\ At(t, "deld")
  /\ derivative' = [derivative EXCEPT ![task[t].s] = 0]
  /\ Finish(t)
  /\ UNCHANGED <<rows, age, ledger, quarantine, active, deletion>>

-----------------------------------------------------------------------------
(* Cron: reconcileExpiredStandardMediaSessions, one candidate.             *)

\* Mutant: the 15 minutes of grace are not waited for.
CleanupDueAtExpiry(s) == age[s] # "fresh"

\* expires_at <= clock_timestamp() - interval '15 minutes'.
CleanupDue(s) == age[s] = "due"

\* Mutant: a session that is already settled is taken for cleaned up.
ReconcileSettledOnce(t, s) ==
  /\ ~Locked(s) /\ s \in CleanupPending /\ CleanupDue(s) /\ status[s] = "approved"
  /\ Start(t, "rdelq", s)
  /\ UNCHANGED <<rows, age, ledger, buckets, active, deletion>>

\* Only a session that is not approved, and so has no media.objects row, loses its derivative.
CleanupPc(st) == IF st = "approved" THEN "rdelq" ELSE "rdelqd"

ReconcileExpire(t, s) ==
  /\ ~Locked(s) /\ status[s] \in Held /\ age[s] # "fresh"
  /\ At(t, "idle")
  /\ Settle(s, "expired")
  /\ IF CleanupDue(s) THEN Start(t, "rdelqd", s) ELSE UNCHANGED task
  /\ UNCHANGED <<age, buckets, active, deletion>>

ReconcileSettled(t, s) ==
  /\ ~Locked(s) /\ s \in CleanupPending /\ CleanupDue(s)
  /\ Start(t, CleanupPc(status[s]), s)
  /\ UNCHANGED <<rows, age, ledger, buckets, active, deletion>>

ReconcileDeleteQuarantine(t) ==
  /\ task[t].pc \in {"rdelq", "rdelqd"}
  /\ quarantine' = quarantine \ {task[t].s}
  /\ Go(t, IF At(t, "rdelqd") THEN "rdeld" ELSE "rmark")
  /\ UNCHANGED <<rows, age, ledger, derivative, active, deletion>>

ReconcileDeleteDerivative(t) ==
  /\ At(t, "rdeld")
  /\ derivative' = [derivative EXCEPT ![task[t].s] = 0]
  /\ Go(t, "rmark")
  /\ UNCHANGED <<rows, age, ledger, quarantine, active, deletion>>

ReconcileMark(t) ==
  LET s == task[t].s IN
  /\ At(t, "rmark")
  /\ ~Locked(s)
  /\ marked' = IF s \in CleanupPending /\ CleanupDue(s) THEN marked \cup {s} ELSE marked
  /\ Finish(t)
  /\ UNCHANGED <<status, expected, finalised, age, ledger, buckets, active, deletion>>

-----------------------------------------------------------------------------
(* Failures, time and the account.                                         *)

\* A call throws, the commit fails or the invocation ends: an open transaction rolls back.
Abandon(t) ==
  /\ ~At(t, "idle")
  /\ Finish(t)
  /\ UNCHANGED <<rows, age, ledger, buckets, active, deletion>>

\* The database connection drops under a put: the lock is gone, the put is not.
LoseConnection(t) ==
  /\ \/ At(t, "put") /\ Go(t, "lateput")
     \/ At(t, "putd") /\ Go(t, "lateputd")
  /\ UNCHANGED <<rows, age, ledger, buckets, active, deletion>>

Expire(s) ==
  /\ status[s] # "none" /\ age[s] = "fresh"
  /\ age' = [age EXCEPT ![s] = "expired"]
  /\ UNCHANGED <<rows, ledger, buckets, active, deletion, task>>

FallDue(s) ==
  /\ age[s] = "expired"
  /\ \A t \in Tasks : ~(task[t].pc \in PutPcs /\ task[t].s = s)
  /\ age' = [age EXCEPT ![s] = "due"]
  /\ UNCHANGED <<rows, ledger, buckets, active, deletion, task>>

\* Suspension or the deletion lock, and an administrator's reinstatement.
ChangeAccount ==
  /\ active # "deleted"
  /\ active' = IF active = "yes" THEN "no" ELSE "yes"
  /\ UNCHANGED <<rows, age, ledger, buckets, deletion, task>>

-----------------------------------------------------------------------------
(* Jobs: AccountDeleteWorkflow's steps on the account's media.             *)

\* The end of redact-authoritative-content, which waits for no upload: an account that was
\* reinstated since it was locked may have puts on their way.
EraseAccount ==
  /\ Erasing /\ active # "deleted"
  /\ active' = "deleted"
  /\ UNCHANGED <<rows, age, ledger, buckets, deletion, task>>

\* fence-standard-media-sessions-for-deletion: the UPDATE waits for every row lock; the ledger
\* keeps the reservations until it is deleted.
FenceSessions ==
  /\ active = "deleted" /\ erasure = "none"
  /\ \A s \in Sessions : status[s] \in Held => ~Locked(s)
  /\ status' = [s \in Sessions |-> IF status[s] \in Held THEN "expired" ELSE status[s]]
  /\ erasure' = "fenced"
  /\ UNCHANGED <<expected, finalised, marked, age, ledger, buckets, active, left, overtaken, task>>

\* purge-media-and-mark-locator reads the objects and the sessions; a step that failed starts here again.
PurgeList ==
  /\ erasure \in {"fenced", "purging"}
  /\ erasure' = "purging"
  /\ left' = {s \in Sessions : status[s] # "none"} \X {"quarantine", "approved"}
  /\ UNCHANGED <<rows, age, ledger, buckets, active, overtaken, task>>

PurgeObject(s, bucket) ==
  /\ <<s, bucket>> \in left
  /\ left' = left \ {<<s, bucket>>}
  /\ IF bucket = "quarantine"
     THEN quarantine' = quarantine \ {s} /\ UNCHANGED derivative
     ELSE derivative' = [derivative EXCEPT ![s] = 0] /\ UNCHANGED quarantine
  /\ UNCHANGED <<rows, age, ledger, active, erasure, overtaken, task>>

\* Mutant: the purge takes the sessions off the reconciler's books as well.
PurgeCommitMarking ==
  /\ erasure = "purging" /\ left = {}
  /\ \A s \in Sessions : status[s] \in Held => ~Locked(s)
  /\ status' = [s \in Sessions |-> IF status[s] \in Held THEN "expired" ELSE status[s]]
  /\ marked' = {s \in Sessions : status[s] # "none"}
  /\ reserved' = 0 /\ approved' = 0
  /\ erasure' = "purged"
  /\ UNCHANGED <<expected, finalised, age, buckets, active, left, overtaken, task>>

\* The objects are marked deleted, late sessions expired and the ledger row deleted.
PurgeCommit ==
  /\ erasure = "purging" /\ left = {}
  /\ \A s \in Sessions : status[s] \in Held => ~Locked(s)
  /\ status' = [s \in Sessions |-> IF status[s] \in Held THEN "expired" ELSE status[s]]
  /\ reserved' = 0 /\ approved' = 0
  /\ erasure' = "purged"
  /\ UNCHANGED <<expected, finalised, marked, age, buckets, active, left, overtaken, task>>

-----------------------------------------------------------------------------
Reconcile(t, s) == ReconcileExpire(t, s) \/ ReconcileSettled(t, s)

Step(t) ==
  \/ UploadRefused(t) \/ UploadInactive(t) \/ UploadBegin(t) \/ PutQuarantine(t)
  \/ FinaliseRefused(t) \/ FinaliseSettle(t) \/ FinaliseQueue(t)
  \/ ProcessDiscard(t) \/ ProcessTransformed(t) \/ PutDerivative(t) \/ Approve(t)
  \/ DeleteQuarantine(t) \/ DeleteDerivative(t)
  \/ ReconcileDeleteQuarantine(t) \/ ReconcileDeleteDerivative(t) \/ ReconcileMark(t)

Next ==
  \/ \E s \in Sessions, n \in 1..MaxBytes : CreateUploadSession(s, n)
  \/ \E t \in Tasks, s \in Sessions :
       \/ UploadRead(t, s) \/ FinaliseRead(t, s)
       \/ ProcessSettled(t, s) \/ ProcessExpired(t, s) \/ ProcessBegin(t, s)
       \/ Reconcile(t, s)
  \/ \E t \in Tasks : Step(t) \/ Abandon(t) \/ LoseConnection(t)
  \/ \E s \in Sessions : Expire(s) \/ FallDue(s)
  \/ ChangeAccount
  \/ EraseAccount \/ FenceSessions \/ PurgeList \/ PurgeCommit
  \/ \E s \in Sessions, bucket \in {"quarantine", "approved"} : PurgeObject(s, bucket)

Spec == Init /\ [][Next]_vars

\* Time passes, an invocation ends, and the cron keeps coming back: it cannot fail on
\* the same session for ever (strong fairness of each of its steps).
FairSpec ==
  /\ Spec
  /\ \A s \in Sessions :
       /\ WF_vars(Expire(s)) /\ WF_vars(FallDue(s))
       /\ SF_vars(\E t \in Tasks : Reconcile(t, s))
       /\ SF_vars(\E t \in Tasks : task[t].s = s /\ ReconcileDeleteQuarantine(t))
       /\ SF_vars(\E t \in Tasks : task[t].s = s /\ ReconcileDeleteDerivative(t))
       /\ SF_vars(\E t \in Tasks : task[t].s = s /\ ReconcileMark(t))
  /\ \A t \in Tasks : WF_vars(Step(t) \/ Abandon(t))

-----------------------------------------------------------------------------
(* Properties.                                                             *)

\* Types, and the CHECKs of media.storage_ledger: no balance goes negative.
TypeOK ==
  /\ status \in [Sessions -> {"none"} \cup Held \cup Terminal]
  /\ expected \in [Sessions -> 0..MaxBytes]
  /\ age \in [Sessions -> {"fresh", "expired", "due"}]
  /\ finalised \subseteq Sessions /\ marked \subseteq Sessions /\ quarantine \subseteq Sessions
  /\ reserved \in Nat /\ approved \in Nat
  /\ derivative \in [Sessions -> 0..MaxBytes]
  /\ active \in {"yes", "no", "deleted"}
  /\ erasure \in {"none", "fenced", "purging", "purged"}
  /\ left \subseteq Sessions \X {"quarantine", "approved"} /\ overtaken \subseteq Sessions
  /\ task \in [Tasks -> [pc: Pcs, s: Sessions]]

\* However finalise, the processor, the upload of an inactive account and the cron race to
\* settle a session, its reservation is released exactly once and approved bytes are booked once.
\* The deletion of the account leaves the ledger behind when it fences the sessions; after it
\* nothing is booked but the reservations of requests that were late for it.
LedgerBalances ==
  erasure \in {"none", "purged"} =>
  /\ reserved = Bytes(expected, {s \in Sessions : status[s] \in Held})
  /\ approved = IF erasure = "purged" THEN 0
                ELSE Bytes(derivative, {s \in Sessions : status[s] = "approved"})

\* createUploadSession's check is enough: reservations and approved bytes never exceed the quota.
WithinQuota == reserved + approved <= Quota

\* A queued session can always be processed: nobody deletes its bytes before it is settled.
QueuedHasBytes == \A s \in Sessions : status[s] = "queued" => s \in quarantine

\* The derivative that media.objects refers to is never removed by a late or repeated cleanup,
\* until the account is purged.
ApprovedKeepsDerivative ==
  erasure \in {"none", "fenced"} => \A s \in Sessions : status[s] = "approved" => derivative[s] > 0

\* Once quarantine_deleted_at takes a session off the books, nothing of it is left in the
\* buckets, and no put that lost its row lock brings it back.
NothingUntracked ==
  \A s \in marked : s \notin quarantine /\ (derivative[s] > 0 => status[s] = "approved")

\* What a put that outlived the deletion of the account leaves in the buckets is still owed a
\* cleanup: its session is settled and on the reconciler's books, and a derivative's was fenced.
\* The one exception is a derivative whose put had lost its connection and was still on its way
\* when the redelivered event approved the session: the reconciler leaves an approved session's
\* derivative alone.
ErasureIsTracked ==
  erasure = "purged" =>
    \A s \in Sessions :
      /\ s \in quarantine => status[s] \in Terminal /\ s \notin marked
      /\ derivative[s] > 0 /\ s \notin overtaken => status[s] \in Discarded /\ s \notin marked

\* Every session ends: settled, confirmed clean and without a reservation.
EverySessionIsCleaned == \A s \in Sessions : status[s] # "none" ~> s \in marked

=============================================================================
