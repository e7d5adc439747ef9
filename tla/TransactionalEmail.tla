------------------------- MODULE TransactionalEmail -------------------------
(***************************************************************************)
(* The transactional e-mail outbox of one account: the public API inserts  *)
(* a row in the transaction that issues or consumes a mailbox challenge,   *)
(* jobs Workers (the 15-minute cron and the dispatch queue) claim rows and *)
(* call the provider, and provider lifecycle events update accepted rows.  *)
(*                                                                         *)
(* Claiming commits before delivery starts; delivery is one transaction    *)
(* that holds the account's advisory lock (lockAuthDelivery) and the row   *)
(* lock across the provider call.  A Worker may die at any point, the      *)
(* provider may answer after the 20 s deadline or after the Worker died,   *)
(* and the COMMIT may be lost.                                             *)
(*                                                                         *)
(* A challenge is identified with the row that carries its link; for the   *)
(* password_changed notice it stands for the 24 h delivery window.         *)
(***************************************************************************)
EXTENDS Naturals

CONSTANTS
  Emails,       \* outbox rows
  Workers,      \* concurrent claimers: cron ticks and queue consumers
  MaxAttempts,  \* nextTransactionalEmailState's maxAttempts (8 in the code)
  LifecycleStates  \* the lifecycle events the provider sends

ASSUME EmailConstants ==
  /\ MaxAttempts \in Nat \ {0}
  /\ Emails # {}
  /\ LifecycleStates \subseteq {"delivered", "deferred", "bounced", "failed", "rejected", "complained"}

VARIABLES
  state,     \* system.transactional_email_outbox.state, "none" before insertion
  purpose,
  attempts,  \* attempt_count
  sealed,    \* rows whose delivery_envelope_ciphertext is not NULL
  elapsed,   \* queued rows with next_attempt_at <= now(), and processing rows whose
             \* updated_at is more than 5 minutes old
  recorded,  \* rows with a provider_message_id
  chal,      \* the row's challenge
  worker,    \* each Worker's position in claim and delivery
  orphan,    \* rows with a provider call nobody waits for any more
  accepted   \* how often the provider accepted the row's message

vars == <<state, purpose, attempts, sealed, elapsed, recorded, chal, worker, orphan, accepted>>

ChallengePurposes == {"verification", "password_reset"}
Pending == {"queued", "processing"}
Terminal == {"cancelled", "bounced", "rejected", "failed", "complained"}
States == {"none", "provider_accepted", "delivered", "deferred"} \cup Pending \cup Terminal
Outcomes == {"accepted", "transient", "permanent", "unknown"}
WorkerRows == [pc: {"idle", "claimed", "sending", "answered"}, email: Emails, outcome: Outcomes]
IdleWorker == [pc |-> "idle", email |-> CHOOSE e \in Emails : TRUE, outcome |-> "unknown"]

Init ==
  /\ state = [e \in Emails |-> "none"]
  /\ purpose = [e \in Emails |-> "password_changed"]
  /\ attempts = [e \in Emails |-> 0]
  /\ sealed = {} /\ elapsed = {} /\ recorded = {} /\ orphan = {}
  /\ chal = [e \in Emails |-> "none"]
  /\ worker = [w \in Workers |-> IdleWorker]
  /\ accepted = [e \in Emails |-> 0]

-----------------------------------------------------------------------------
(* Locks and shared effects.                                               *)

Delivering(w) == worker[w].pc \in {"sending", "answered"}

\* Mutant: the provider call is made outside the transaction, with no lock held.
AuthLockAlwaysFree == TRUE

\* lockAuthDelivery: no delivery transaction of this account is open.
AuthLockFree == \A w \in Workers : ~Delivering(w)

RowLocked(e) == \E w \in Workers : Delivering(w) /\ worker[w].email = e

\* Rows that cancelPendingAuthEmails cancels for purpose p.
Cancellable(p) == {e \in Emails : purpose[e] = p /\ state[e] \in {"queued", "processing", "failed"}}

\* Challenges of purpose p that are neither consumed nor superseded.
Unused(p) == {e \in Emails : purpose[e] = p /\ chal[e] \in {"open", "expired"}}

\* enqueueTransactionalEmailIntent: the new row n, on top of the states st.
Enqueue(n, p, st, ch, env) ==
  /\ state[n] = "none"
  /\ state' = [st EXCEPT ![n] = "queued"]
  /\ purpose' = [purpose EXCEPT ![n] = p]
  /\ chal' = [ch EXCEPT ![n] = "open"]
  /\ sealed' = env \cup {n}
  /\ elapsed' = elapsed \cup {n}

CancelledStates(p) == [e \in Emails |-> IF e \in Cancellable(p) THEN "cancelled" ELSE state[e]]

-----------------------------------------------------------------------------
(* Public API.                                                             *)

\* queueRecoveryEmail (and registration): supersede, cancel, insert, enqueue.
QueueRecoveryEmail(n, p) ==
  /\ AuthLockFree
  /\ Enqueue(n, p, CancelledStates(p),
             [e \in Emails |-> IF e \in Unused(p) THEN "superseded" ELSE chal[e]],
             sealed \ Cancellable(p))
  /\ UNCHANGED <<attempts, recorded, worker, orphan, accepted>>

\* The challenges of e's purpose once e has been consumed.
ConsumedChallenges(e) ==
  [d \in Emails |-> IF d = e THEN "consumed" ELSE IF d \in Unused(purpose[e]) THEN "superseded" ELSE chal[d]]

\* Mutant: cancelled rows keep the sealed link.
VerifyEmailKeepingEnvelope(e) ==
  /\ AuthLockFree
  /\ purpose[e] = "verification" /\ chal[e] = "open"
  /\ chal' = ConsumedChallenges(e)
  /\ state' = CancelledStates("verification")
  /\ UNCHANGED <<purpose, attempts, sealed, elapsed, recorded, worker, orphan, accepted>>

\* verifyEmail.
VerifyEmail(e) ==
  /\ AuthLockFree
  /\ purpose[e] = "verification" /\ chal[e] = "open"
  /\ chal' = ConsumedChallenges(e)
  /\ state' = CancelledStates("verification")
  /\ sealed' = sealed \ Cancellable("verification")
  /\ UNCHANGED <<purpose, attempts, elapsed, recorded, worker, orphan, accepted>>

\* completePasswordReset, which also queues the password_changed notice n.
CompletePasswordReset(e, n) ==
  /\ AuthLockFree
  /\ purpose[e] = "password_reset" /\ chal[e] = "open"
  /\ Enqueue(n, "password_changed", CancelledStates("password_reset"), ConsumedChallenges(e),
             sealed \ Cancellable("password_reset"))
  /\ UNCHANGED <<attempts, recorded, worker, orphan, accepted>>

-----------------------------------------------------------------------------
(* Jobs Workers.                                                           *)

StaleClaims == {e \in elapsed : state[e] = "processing"}

\* Mutant: an abandoned claim is queued again, as an ordinary job queue would.
SweptStatesRequeued == [e \in Emails |-> IF e \in StaleClaims THEN "queued" ELSE state[e]]

\* Mutant: abandoned claims are left alone.
SweptStatesKept == state

\* Abandoned claims fail as E_DELIVERY_ACCEPTANCE_UNKNOWN; they are never sent again.
SweptStates == [e \in Emails |-> IF e \in StaleClaims THEN "failed" ELSE state[e]]

\* The sweep's UPDATE waits for delivery transactions that hold a stale row.
SweepUnblocked == \A e \in StaleClaims : ~RowLocked(e)

\* claimTransactionalEmails: sweep, then claim one queued row that is due.
Claim(w, e) ==
  /\ worker[w].pc = "idle" /\ SweepUnblocked
  /\ state[e] = "queued" /\ e \in elapsed
  /\ state' = [SweptStates EXCEPT ![e] = "processing"]
  /\ sealed' = {d \in sealed : SweptStates[d] # "failed"}
  /\ attempts' = [attempts EXCEPT ![e] = @ + 1]
  /\ elapsed' = elapsed \ {e}
  /\ worker' = [worker EXCEPT ![w].pc = "claimed", ![w].email = e]
  /\ UNCHANGED <<purpose, recorded, chal, orphan, accepted>>

\* claimTransactionalEmails when no row is claimable: the sweep alone.
Sweep(w) ==
  /\ worker[w].pc = "idle" /\ SweepUnblocked /\ StaleClaims # {}
  /\ state' = SweptStates
  /\ sealed' = {d \in sealed : SweptStates[d] # "failed"}
  /\ UNCHANGED <<purpose, attempts, elapsed, recorded, chal, worker, orphan, accepted>>

\* lockDeliverableEmail finds the row processing and its challenge live; the provider is called.
BeginDelivery(w) ==
  LET e == worker[w].email
  IN /\ worker[w].pc = "claimed" /\ AuthLockFree
     /\ state[e] = "processing" /\ chal[e] = "open"
     /\ worker' = [worker EXCEPT ![w].pc = "sending"]
     /\ UNCHANGED <<state, purpose, attempts, sealed, elapsed, recorded, chal, orphan, accepted>>

\* lockDeliverableEmail refuses: the row is cancelled if it is still pending.
RefuseDelivery(w) ==
  LET e == worker[w].email
  IN /\ worker[w].pc = "claimed" /\ AuthLockFree
     /\ ~(state[e] = "processing" /\ chal[e] = "open")
     /\ state' = [state EXCEPT ![e] = IF @ \in Pending THEN "cancelled" ELSE @]
     /\ sealed' = IF state[e] \in Pending THEN sealed \ {e} ELSE sealed
     /\ worker' = [worker EXCEPT ![w] = IdleWorker]
     /\ UNCHANGED <<purpose, attempts, elapsed, recorded, chal, orphan, accepted>>

\* sendTransactionalEmail returns; a transient or permanent error means nothing was accepted.
ProviderAnswer(w, outcome) ==
  /\ worker[w].pc = "sending" /\ outcome \in {"accepted", "transient", "permanent"}
  /\ worker' = [worker EXCEPT ![w].pc = "answered", ![w].outcome = outcome]
  /\ accepted' = IF outcome = "accepted" THEN [accepted EXCEPT ![worker[w].email] = @ + 1] ELSE accepted
  /\ UNCHANGED <<state, purpose, attempts, sealed, elapsed, recorded, chal, orphan>>

\* withDeliveryDeadline fires; the provider call goes on without the Worker.
DeliveryDeadline(w) ==
  /\ worker[w].pc = "sending"
  /\ worker' = [worker EXCEPT ![w].pc = "answered", ![w].outcome = "unknown"]
  /\ orphan' = orphan \cup {worker[w].email}
  /\ UNCHANGED <<state, purpose, attempts, sealed, elapsed, recorded, chal, accepted>>

\* nextTransactionalEmailState: only transient failures below the limit are retried.
NextState(e, outcome) ==
  IF outcome # "transient" \/ attempts[e] >= MaxAttempts THEN "failed" ELSE "queued"

\* The end of deliverClaimedEmail: markEmailFailure or provider_accepted, and COMMIT.
CommitDelivery(w) ==
  LET e == worker[w].email
      next == IF worker[w].outcome = "accepted" THEN "provider_accepted" ELSE NextState(e, worker[w].outcome)
  IN /\ worker[w].pc = "answered"
     /\ state' = [state EXCEPT ![e] = IF @ = "processing" THEN next ELSE @]
     /\ sealed' = IF next = "queued" THEN sealed ELSE sealed \ {e}
     /\ recorded' = IF next = "provider_accepted" THEN recorded \cup {e} ELSE recorded
     /\ worker' = [worker EXCEPT ![w] = IdleWorker]
     /\ elapsed' = elapsed \ {e}
     /\ UNCHANGED <<purpose, attempts, chal, orphan, accepted>>

\* The Worker or its connection is lost: the transaction rolls back, a claim stays processing.
LoseWorker(w) ==
  /\ worker[w].pc # "idle"
  /\ orphan' = IF worker[w].pc = "sending" THEN orphan \cup {worker[w].email} ELSE orphan
  /\ worker' = [worker EXCEPT ![w] = IdleWorker]
  /\ UNCHANGED <<state, purpose, attempts, sealed, elapsed, recorded, chal, accepted>>

-----------------------------------------------------------------------------
(* The provider and time.                                                  *)

\* A provider call that nobody waits for is accepted after all, or dropped.
LateAnswer(e, isAccepted) ==
  /\ e \in orphan
  /\ orphan' = orphan \ {e}
  /\ accepted' = IF isAccepted THEN [accepted EXCEPT ![e] = @ + 1] ELSE accepted
  /\ UNCHANGED <<state, purpose, attempts, sealed, elapsed, recorded, chal, worker>>

\* Mutant: lifecycle events also update rows that have ended.
LifecycleAppliesAlways(e, k) == e \in recorded /\ state[e] # k

\* The WHERE clause of applyTransactionalEmailLifecycle.
LifecycleApplies(e, k) ==
  /\ e \in recorded
  /\ state[e] \notin Terminal /\ state[e] # k
  /\ ~(state[e] = "delivered" /\ k = "deferred")

\* applyTransactionalEmailLifecycle; events come in any order and more than once.
Lifecycle(e, k) ==
  /\ LifecycleApplies(e, k)
  /\ state' = [state EXCEPT ![e] = k]
  /\ UNCHANGED <<purpose, attempts, sealed, elapsed, recorded, chal, worker, orphan, accepted>>

\* expires_at of the challenge, or the 24 h window of a notice, passes.
ExpireChallenge(e) ==
  /\ chal[e] = "open"
  /\ chal' = [chal EXCEPT ![e] = "expired"]
  /\ UNCHANGED <<state, purpose, attempts, sealed, elapsed, recorded, worker, orphan, accepted>>

\* The retry backoff of a queued row, or five minutes since a claim, pass.
TimerElapses(e) ==
  /\ state[e] \in Pending /\ e \notin elapsed
  /\ elapsed' = elapsed \cup {e}
  /\ UNCHANGED <<state, purpose, attempts, sealed, recorded, chal, worker, orphan, accepted>>

WorkerSteps(w) ==
  \/ \E e \in Emails : Claim(w, e)
  \/ Sweep(w)
  \/ BeginDelivery(w)
  \/ RefuseDelivery(w)
  \/ \E outcome \in Outcomes : ProviderAnswer(w, outcome)
  \/ DeliveryDeadline(w)
  \/ CommitDelivery(w)
  \/ LoseWorker(w)

EmailSteps(e) ==
  \/ \E p \in ChallengePurposes : QueueRecoveryEmail(e, p)
  \/ VerifyEmail(e)
  \/ \E n \in Emails : CompletePasswordReset(e, n)
  \/ \E b \in BOOLEAN : LateAnswer(e, b)
  \/ \E k \in LifecycleStates : Lifecycle(e, k)
  \/ ExpireChallenge(e)
  \/ TimerElapses(e)

Next == (\E w \in Workers : WorkerSteps(w)) \/ (\E e \in Emails : EmailSteps(e))

Spec == Init /\ [][Next]_vars

(***************************************************************************)
(* Fairness.  The cron keeps running and claims the oldest due row, so     *)
(* a row that stays claimable is claimed and an abandoned claim is swept;  *)
(* a Worker past a claim proceeds or dies; the provider answers or the     *)
(* deadline fires; clocks advance.  Nothing is assumed of the API, of the  *)
(* provider's success, of lifecycle events or of the dispatch queue.       *)
(***************************************************************************)
Fairness ==
  /\ \A e \in Emails : WF_vars(\E w \in Workers : Claim(w, e))
  /\ WF_vars(\E w \in Workers : Sweep(w))
  /\ \A w \in Workers :
       /\ WF_vars(BeginDelivery(w) \/ RefuseDelivery(w))
       /\ WF_vars(DeliveryDeadline(w) \/ \E o \in Outcomes : ProviderAnswer(w, o))
       /\ WF_vars(CommitDelivery(w))
  /\ \A e \in Emails : WF_vars(TimerElapses(e))

FairSpec == Spec /\ Fairness

-----------------------------------------------------------------------------
(* Properties.                                                             *)

\* Every variable keeps its type.
TypeOK ==
  /\ state \in [Emails -> States]
  /\ purpose \in [Emails -> ChallengePurposes \cup {"password_changed"}]
  /\ attempts \in [Emails -> 0 .. MaxAttempts]
  /\ sealed \subseteq Emails /\ elapsed \subseteq Emails
  /\ recorded \subseteq Emails /\ orphan \subseteq Emails
  /\ chal \in [Emails -> {"none", "open", "expired", "consumed", "superseded"}]
  /\ worker \in [Workers -> WorkerRows]
  /\ accepted \in [Emails -> Nat]

\* The provider accepts a row's message at most once, over every crash, lost commit, late
\* answer and retry: an attempt whose acceptance is unknown is never repeated
\* (claimTransactionalEmails' sweep, nextTransactionalEmailState).
AcceptedAtMostOnce == \A e \in Emails : accepted[e] <= 1

\* While a Worker waits for the provider to take a link, the link's challenge can neither be
\* superseded nor consumed: the API's transactions wait for the delivery transaction.
NoDeadLinkInDelivery ==
  \A w \in Workers : Delivering(w) => chal[worker[w].email] \in {"open", "expired"}

\* The encrypted envelope with the address and the link exists exactly while the row is pending.
EnvelopeOnlyWhilePending == sealed = {e \in Emails : state[e] \in Pending}

\* A row that has left the queue never returns to it, and an ended row stays ended whatever
\* lifecycle events, late Workers and cancellations still arrive.
SettledStaysSettled ==
  [][\A e \in Emails :
       /\ state[e] \notin Pending \cup {"none"} => state'[e] \notin Pending
       /\ state[e] \in Terminal => state'[e] \in Terminal
       /\ state[e] = "delivered" => state'[e] # "deferred"]_vars

\* Every queued message is eventually handed to the provider, failed or cancelled, even if
\* Workers die and the dispatch hint is lost.
EveryEmailSettles ==
  \A e \in Emails : state[e] = "queued" ~> state[e] \notin Pending
=============================================================================
