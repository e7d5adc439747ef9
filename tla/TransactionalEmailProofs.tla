---------------------- MODULE TransactionalEmailProofs ----------------------
(***************************************************************************)
(* Proofs about TransactionalEmail for any number of rows, Workers and     *)
(* attempts.                                                               *)
(***************************************************************************)
EXTENDS TransactionalEmail, TLAPS

Busy(w) == worker[w].pc # "idle"

\* The Worker's attempt is known not to have been accepted.
NotYet(w) ==
  \/ worker[w].pc \in {"claimed", "sending"}
  \/ worker[w].pc = "answered" /\ worker[w].outcome \in {"transient", "permanent"}

\* A call that nobody waits for is the row's only chance of an acceptance.
OrphanInv == \A e \in orphan : accepted[e] = 0

\* A row is in the hands of one Worker, who holds it as long as the attempt is undecided.
WorkerInv ==
  /\ \A w \in Workers : NotYet(w) => accepted[worker[w].email] = 0 /\ worker[w].email \notin orphan
  /\ \A v, w \in Workers : Busy(v) /\ Busy(w) /\ worker[v].email = worker[w].email => v = w

\* A row that can be claimed was never accepted, is with nobody and has an attempt left; a row
\* with a provider's message id has left the queue.
RowInv ==
  /\ \A e \in Emails : state[e] \in {"none", "queued"} =>
       /\ accepted[e] = 0 /\ e \notin orphan /\ attempts[e] < MaxAttempts
       /\ \A w \in Workers : Busy(w) => worker[w].email # e
  /\ \A e \in recorded : state[e] \notin Pending \cup {"none"}

IndInv ==
  /\ TypeOK /\ OrphanInv /\ WorkerInv /\ RowInv
  /\ AcceptedAtMostOnce /\ NoDeadLinkInDelivery /\ EnvelopeOnlyWhilePending

-----------------------------------------------------------------------------
\* An idle Worker is well typed, and so is the row of any Worker.
LEMMA WorkerType ==
  /\ IdleWorker \in WorkerRows /\ IdleWorker.pc = "idle"
  /\ TypeOK => \A w \in Workers : /\ worker[w] \in WorkerRows /\ worker[w].email \in Emails
                                  /\ worker[w].pc \in {"idle", "claimed", "sending", "answered"}
                                  /\ worker[w].outcome \in Outcomes
  BY EmailConstants DEF IdleWorker, WorkerRows, Outcomes, TypeOK

\* The initial state: no rows, no work.
LEMMA InitInv == Init => IndInv
<1> SUFFICES ASSUME Init PROVE IndInv
  OBVIOUS
<1>1. TypeOK
  BY WorkerType, EmailConstants DEF Init, TypeOK, States, ChallengePurposes, Pending, Terminal
<1>2. OrphanInv /\ WorkerInv /\ RowInv
  BY WorkerType, EmailConstants DEF Init, OrphanInv, WorkerInv, RowInv, NotYet, Busy, Pending
<1>3. AcceptedAtMostOnce /\ NoDeadLinkInDelivery /\ EnvelopeOnlyWhilePending
  BY WorkerType DEF Init, AcceptedAtMostOnce, NoDeadLinkInDelivery, EnvelopeOnlyWhilePending, Pending, Delivering
<1> QED
  BY <1>1, <1>2, <1>3 DEF IndInv

\* The API cancels rows of one purpose and may add a row; no delivery is under way.
LEMMA ApiStep ==
  ASSUME IndInv, AuthLockFree, NEW p \in ChallengePurposes, NEW N \in SUBSET Emails,
         \A n \in N : state[n] = "none",
         state' = [e \in Emails |-> IF e \in N THEN "queued" ELSE CancelledStates(p)[e]],
         sealed' = (sealed \ Cancellable(p)) \cup N,
         purpose' \in [Emails -> ChallengePurposes \cup {"password_changed"}],
         chal' \in [Emails -> {"none", "open", "expired", "consumed", "superseded"}],
         elapsed' \subseteq Emails,
         UNCHANGED <<attempts, recorded, worker, orphan, accepted>>
  PROVE  IndInv'
<1> USE DEF IndInv
<1>1. \A e \in Emails : state'[e] = IF e \in N THEN "queued"
                                    ELSE IF e \in Cancellable(p) THEN "cancelled" ELSE state[e]
  BY DEF CancelledStates
<1>2. \A e \in Cancellable(p) : state[e] \in {"queued", "processing", "failed"}
  BY DEF Cancellable
<1>3. TypeOK'
  <2>1. state' \in [Emails -> States]
    BY DEF TypeOK, States, Pending, Terminal, CancelledStates
  <2> QED
    BY <2>1 DEF TypeOK
<1>4. OrphanInv' /\ WorkerInv' /\ AcceptedAtMostOnce'
  BY DEF OrphanInv, WorkerInv, AcceptedAtMostOnce, NotYet, Busy
<1>5. RowInv'
  BY <1>1, <1>2 DEF RowInv, Busy, Pending, TypeOK
<1>6. NoDeadLinkInDelivery'
  BY DEF NoDeadLinkInDelivery, AuthLockFree, Delivering
<1>7. EnvelopeOnlyWhilePending'
  BY <1>1, <1>2 DEF EnvelopeOnlyWhilePending, Pending
<1> QED
  BY <1>3, <1>4, <1>5, <1>6, <1>7

LEMMA QueueRecoveryEmailStep ==
  ASSUME IndInv, NEW n \in Emails, NEW p \in ChallengePurposes, QueueRecoveryEmail(n, p)
  PROVE  IndInv'
<1>1. /\ state[n] = "none"
      /\ state' = [e \in Emails |-> IF e \in {n} THEN "queued" ELSE CancelledStates(p)[e]]
      /\ sealed' = (sealed \ Cancellable(p)) \cup {n}
  BY DEF QueueRecoveryEmail, Enqueue, CancelledStates
<1>2. /\ purpose' \in [Emails -> ChallengePurposes \cup {"password_changed"}]
      /\ chal' \in [Emails -> {"none", "open", "expired", "consumed", "superseded"}]
      /\ elapsed' \subseteq Emails
  BY DEF QueueRecoveryEmail, Enqueue, IndInv, TypeOK
<1> QED
  BY <1>1, <1>2, ApiStep DEF QueueRecoveryEmail

LEMMA VerifyEmailStep ==
  ASSUME IndInv, NEW e \in Emails, VerifyEmail(e)
  PROVE  IndInv'
<1>1. /\ state' = [d \in Emails |-> IF d \in {} THEN "queued" ELSE CancelledStates("verification")[d]]
      /\ sealed' = (sealed \ Cancellable("verification")) \cup {}
  BY DEF VerifyEmail, CancelledStates
<1>2. /\ purpose' \in [Emails -> ChallengePurposes \cup {"password_changed"}]
      /\ chal' \in [Emails -> {"none", "open", "expired", "consumed", "superseded"}]
      /\ elapsed' \subseteq Emails
  BY DEF VerifyEmail, ConsumedChallenges, IndInv, TypeOK
<1> QED
  <2>1. "verification" \in ChallengePurposes /\ {} \in SUBSET Emails
    BY DEF ChallengePurposes
  <2> QED
    BY <1>1, <1>2, <2>1, ApiStep DEF VerifyEmail

LEMMA CompletePasswordResetStep ==
  ASSUME IndInv, NEW e \in Emails, NEW n \in Emails, CompletePasswordReset(e, n)
  PROVE  IndInv'
<1>1. /\ state[n] = "none"
      /\ state' = [d \in Emails |-> IF d \in {n} THEN "queued" ELSE CancelledStates("password_reset")[d]]
      /\ sealed' = (sealed \ Cancellable("password_reset")) \cup {n}
  BY DEF CompletePasswordReset, Enqueue, CancelledStates
<1>2. /\ purpose' \in [Emails -> ChallengePurposes \cup {"password_changed"}]
      /\ chal' \in [Emails -> {"none", "open", "expired", "consumed", "superseded"}]
      /\ elapsed' \subseteq Emails
  BY DEF CompletePasswordReset, Enqueue, ConsumedChallenges, IndInv, TypeOK
<1> QED
  <2>1. "password_reset" \in ChallengePurposes
    BY DEF ChallengePurposes
  <2> QED
    BY <1>1, <1>2, <2>1, ApiStep DEF CompletePasswordReset

\* A claim: the sweep fails abandoned rows, and the claimed row goes to an idle Worker.
LEMMA ClaimStep ==
  ASSUME IndInv, NEW w \in Workers, NEW e \in Emails, Claim(w, e)
  PROVE  IndInv'
<1> USE DEF IndInv
<1>1. /\ worker[w].pc = "idle" /\ state[e] = "queued" /\ accepted[e] = 0 /\ e \notin orphan
      /\ attempts[e] < MaxAttempts
  BY DEF Claim, RowInv
<1>2. \A d \in Emails : state'[d] = IF d = e THEN "processing"
                                    ELSE IF d \in StaleClaims THEN "failed" ELSE state[d]
  BY DEF Claim, SweptStates
<1>3. \A d \in StaleClaims : d \in Emails /\ state[d] = "processing"
  BY DEF StaleClaims, TypeOK
<1>4. \A v \in Workers : /\ v # w => worker'[v] = worker[v]
                         /\ v = w => worker'[v].pc = "claimed" /\ worker'[v].email = e
                                     /\ worker'[v] \in WorkerRows
  BY DEF Claim, TypeOK, WorkerRows
<1>5. TypeOK'
  <2>1. state' \in [Emails -> States]
    BY DEF Claim, SweptStates, TypeOK, States, Pending, Terminal
  <2>2. worker' \in [Workers -> WorkerRows]
    BY <1>4 DEF Claim, TypeOK
  <2>3. attempts' \in [Emails -> 0..MaxAttempts]
    BY <1>1, EmailConstants DEF Claim, TypeOK
  <2> QED
    BY <2>1, <2>2, <2>3 DEF Claim, TypeOK
<1>6. OrphanInv' /\ AcceptedAtMostOnce'
  BY DEF Claim, OrphanInv, AcceptedAtMostOnce
<1>7. WorkerInv'
  <2>1. \A v \in Workers : NotYet(v)' =>
          accepted'[worker'[v].email] = 0 /\ worker'[v].email \notin orphan'
    <3> SUFFICES ASSUME NEW v \in Workers, NotYet(v)'
                 PROVE  accepted'[worker'[v].email] = 0 /\ worker'[v].email \notin orphan'
      OBVIOUS
    <3>1. UNCHANGED <<accepted, orphan>>
      BY DEF Claim
    <3>2. CASE v = w
      BY <1>1, <1>4, <3>1, <3>2
    <3>3. CASE v # w
      <4>1. worker'[v] = worker[v] /\ NotYet(v)
        BY <1>4, <3>3 DEF NotYet
      <4> QED
        BY <3>1, <4>1 DEF WorkerInv
    <3> QED
      BY <3>2, <3>3
  <2>2. \A v \in Workers : v # w /\ Busy(v) => worker[v].email # e
    BY <1>1 DEF RowInv
  <2>3. \A u, v \in Workers : Busy(u)' /\ Busy(v)' /\ worker'[u].email = worker'[v].email => u = v
    BY <1>4, <2>2 DEF WorkerInv, Busy
  <2> QED
    BY <2>1, <2>3 DEF WorkerInv
<1>8. RowInv'
  <2>1. \A d \in Emails : d # e => attempts'[d] = attempts[d]
    BY DEF Claim, TypeOK
  <2> QED
    BY <1>1, <1>2, <1>3, <1>4, <2>1 DEF Claim, RowInv, Busy, Pending, TypeOK
<1>9. NoDeadLinkInDelivery'
  BY <1>4 DEF Claim, NoDeadLinkInDelivery, Delivering
<1>10. EnvelopeOnlyWhilePending'
  <2>1. \A d \in Emails : SweptStates[d] = IF d \in StaleClaims THEN "failed" ELSE state[d]
    BY DEF SweptStates
  <2> QED
    BY <1>1, <1>2, <1>3, <2>1 DEF Claim, EnvelopeOnlyWhilePending, Pending
<1> QED
  BY <1>5, <1>6, <1>7, <1>8, <1>9, <1>10

LEMMA SweepStep ==
  ASSUME IndInv, NEW w \in Workers, Sweep(w)
  PROVE  IndInv'
<1> USE DEF IndInv
<1>1. \A d \in Emails : /\ SweptStates[d] = IF d \in StaleClaims THEN "failed" ELSE state[d]
                        /\ state'[d] = SweptStates[d]
  BY DEF Sweep, SweptStates
<1>2. \A d \in StaleClaims : d \in Emails /\ state[d] = "processing"
  BY DEF StaleClaims, TypeOK
<1>3. TypeOK'
  BY DEF Sweep, SweptStates, TypeOK, States, Terminal
<1>4. OrphanInv' /\ AcceptedAtMostOnce' /\ WorkerInv' /\ NoDeadLinkInDelivery'
  BY DEF Sweep, OrphanInv, AcceptedAtMostOnce, WorkerInv, NoDeadLinkInDelivery, Delivering, NotYet, Busy
<1>5. RowInv'
  BY <1>1, <1>2 DEF Sweep, RowInv, Busy, Pending, TypeOK
<1>6. EnvelopeOnlyWhilePending'
  BY <1>1, <1>2 DEF Sweep, EnvelopeOnlyWhilePending, Pending
<1> QED
  BY <1>3, <1>4, <1>5, <1>6

LEMMA BeginDeliveryStep ==
  ASSUME IndInv, NEW w \in Workers, BeginDelivery(w)
  PROVE  IndInv'
<1> USE DEF IndInv
<1>1. /\ worker[w].pc = "claimed" /\ chal[worker[w].email] = "open"
      /\ UNCHANGED <<state, purpose, attempts, sealed, elapsed, recorded, chal, orphan, accepted>>
      /\ worker' = [worker EXCEPT ![w].pc = "sending"]
  BY DEF BeginDelivery
<1>2. \A v \in Workers : /\ v # w => worker'[v] = worker[v]
                         /\ v = w => worker'[v].pc = "sending" /\ worker'[v].email = worker[v].email
  BY <1>1 DEF TypeOK, WorkerRows
<1>3. TypeOK'
  BY <1>1 DEF TypeOK, WorkerRows
<1>4. OrphanInv' /\ AcceptedAtMostOnce' /\ EnvelopeOnlyWhilePending'
  BY <1>1 DEF OrphanInv, AcceptedAtMostOnce, EnvelopeOnlyWhilePending
<1>5. WorkerInv' /\ RowInv' /\ NoDeadLinkInDelivery'
  BY <1>1, <1>2 DEF WorkerInv, RowInv, NoDeadLinkInDelivery, Delivering, NotYet, Busy
<1> QED
  BY <1>3, <1>4, <1>5

LEMMA RefuseDeliveryStep ==
  ASSUME IndInv, NEW w \in Workers, RefuseDelivery(w)
  PROVE  IndInv'
<1> USE DEF IndInv
<1> DEFINE e == worker[w].email
<1>1. /\ worker[w].pc = "claimed" /\ e \in Emails
      /\ worker' = [worker EXCEPT ![w] = IdleWorker]
      /\ UNCHANGED <<purpose, attempts, elapsed, recorded, chal, orphan, accepted>>
  BY WorkerType DEF RefuseDelivery
<1>2. /\ state' = [state EXCEPT ![e] = IF state[e] \in Pending THEN "cancelled" ELSE state[e]]
      /\ sealed' = IF state[e] \in Pending THEN sealed \ {e} ELSE sealed
  BY DEF RefuseDelivery
<1>3. \A v \in Workers : worker'[v] = IF v = w THEN IdleWorker ELSE worker[v]
  BY <1>1 DEF TypeOK
<1>4. TypeOK'
  BY <1>1, <1>2, WorkerType DEF TypeOK, States, Terminal
<1>5. OrphanInv' /\ AcceptedAtMostOnce'
  BY <1>1 DEF OrphanInv, AcceptedAtMostOnce
<1>6. WorkerInv' /\ NoDeadLinkInDelivery'
  BY <1>1, <1>3, WorkerType DEF WorkerInv, NoDeadLinkInDelivery, Delivering, NotYet, Busy
<1>7. RowInv'
  BY <1>1, <1>2, <1>3, WorkerType DEF RowInv, Busy, Pending, TypeOK
<1>8. EnvelopeOnlyWhilePending'
  BY <1>1, <1>2 DEF EnvelopeOnlyWhilePending, Pending, TypeOK
<1> QED
  BY <1>4, <1>5, <1>6, <1>7, <1>8

\* The provider's answer comes while nobody else holds the row, and no call for it is left.
LEMMA ProviderAnswerStep ==
  ASSUME IndInv, NEW w \in Workers, NEW outcome \in Outcomes, ProviderAnswer(w, outcome)
  PROVE  IndInv'
<1> USE DEF IndInv
<1> DEFINE e == worker[w].email
<1>1. /\ worker[w].pc = "sending" /\ e \in Emails /\ accepted[e] = 0 /\ e \notin orphan
      /\ outcome \in {"accepted", "transient", "permanent"}
      /\ worker' = [worker EXCEPT ![w].pc = "answered", ![w].outcome = outcome]
      /\ accepted' = IF outcome = "accepted" THEN [accepted EXCEPT ![e] = accepted[e] + 1] ELSE accepted
      /\ UNCHANGED <<state, purpose, attempts, sealed, elapsed, recorded, chal, orphan>>
  BY WorkerType DEF ProviderAnswer, WorkerInv, NotYet
<1>2. \A v \in Workers : /\ v # w => worker'[v] = worker[v]
                         /\ v = w => /\ worker'[v].pc = "answered" /\ worker'[v].email = e
                                     /\ worker'[v].outcome = outcome /\ worker'[v] \in WorkerRows
  BY <1>1 DEF TypeOK, WorkerRows
<1>3. \A d \in Emails : /\ d # e => accepted'[d] = accepted[d]
                        /\ d = e => accepted'[d] = IF outcome = "accepted" THEN 1 ELSE 0
  BY <1>1 DEF TypeOK
<1>4. TypeOK'
  <2>1. worker' \in [Workers -> WorkerRows]
    BY <1>1, <1>2 DEF TypeOK
  <2>2. accepted' \in [Emails -> Nat]
    BY <1>1 DEF TypeOK
  <2> QED
    BY <1>1, <2>1, <2>2 DEF TypeOK
<1>5. OrphanInv' /\ AcceptedAtMostOnce' /\ EnvelopeOnlyWhilePending'
  BY <1>1, <1>3 DEF OrphanInv, AcceptedAtMostOnce, EnvelopeOnlyWhilePending, TypeOK
<1>6. \A v \in Workers : v # w /\ Busy(v) => worker[v].email # e
  BY <1>1 DEF WorkerInv, Busy
<1>7. WorkerInv'
  <2>1. \A v \in Workers : NotYet(v)' =>
          accepted'[worker'[v].email] = 0 /\ worker'[v].email \notin orphan'
    <3> SUFFICES ASSUME NEW v \in Workers, NotYet(v)'
                 PROVE  accepted'[worker'[v].email] = 0 /\ worker'[v].email \notin orphan'
      OBVIOUS
    <3>1. CASE v = w
      <4>1. outcome \in {"transient", "permanent"}
        BY <1>2, <3>1 DEF NotYet
      <4>2. accepted'[e] = 0
        BY <1>1, <1>3, <4>1
      <4>3. worker'[v].email = e
        BY <1>2, <3>1
      <4> QED
        BY <1>1, <4>2, <4>3
    <3>2. CASE v # w
      <4>1. worker'[v] = worker[v] /\ NotYet(v) /\ worker[v].email # e /\ worker[v].email \in Emails
        BY <1>2, <1>6, <3>2, WorkerType DEF NotYet, Busy
      <4> QED
        BY <1>1, <1>3, <4>1 DEF WorkerInv
    <3> QED
      BY <3>1, <3>2
  <2>2. \A u, v \in Workers : Busy(u)' /\ Busy(v)' /\ worker'[u].email = worker'[v].email => u = v
    BY <1>1, <1>2, <1>6 DEF WorkerInv, Busy
  <2> QED
    BY <2>1, <2>2 DEF WorkerInv
<1>8. RowInv'
  <2>1. state[e] \notin {"none", "queued"}
    BY <1>1 DEF RowInv, Busy
  <2>2. \A v \in Workers : worker'[v].email = worker[v].email /\ (Busy(v)' => Busy(v))
    BY <1>1, <1>2 DEF Busy
  <2>3. \A d \in Emails : state[d] \in {"none", "queued"} => accepted'[d] = accepted[d]
    BY <1>3, <2>1
  <2> QED
    BY <1>1, <2>2, <2>3 DEF RowInv
<1>9. NoDeadLinkInDelivery'
  BY <1>1, <1>2 DEF NoDeadLinkInDelivery, Delivering
<1> QED
  BY <1>4, <1>5, <1>7, <1>8, <1>9

LEMMA DeliveryDeadlineStep ==
  ASSUME IndInv, NEW w \in Workers, DeliveryDeadline(w)
  PROVE  IndInv'
<1> USE DEF IndInv
<1> DEFINE e == worker[w].email
<1>1. /\ worker[w].pc = "sending" /\ e \in Emails /\ accepted[e] = 0 /\ e \notin orphan
      /\ worker' = [worker EXCEPT ![w].pc = "answered", ![w].outcome = "unknown"]
      /\ orphan' = orphan \cup {e}
      /\ UNCHANGED <<state, purpose, attempts, sealed, elapsed, recorded, chal, accepted>>
  BY WorkerType DEF DeliveryDeadline, WorkerInv, NotYet
<1>2. \A v \in Workers : /\ v # w => worker'[v] = worker[v]
                         /\ v = w => /\ worker'[v].pc = "answered" /\ worker'[v].email = e
                                     /\ worker'[v].outcome = "unknown" /\ worker'[v] \in WorkerRows
  BY <1>1 DEF TypeOK, WorkerRows, Outcomes
<1>3. TypeOK'
  <2>1. worker' \in [Workers -> WorkerRows]
    BY <1>1, <1>2 DEF TypeOK
  <2> QED
    BY <1>1, <2>1 DEF TypeOK
<1>4. OrphanInv' /\ AcceptedAtMostOnce' /\ EnvelopeOnlyWhilePending'
  BY <1>1 DEF OrphanInv, AcceptedAtMostOnce, EnvelopeOnlyWhilePending
<1>5. \A v \in Workers : v # w /\ Busy(v) => worker[v].email # e
  BY <1>1 DEF WorkerInv, Busy
<1>6. \A v \in Workers : /\ worker'[v].email = worker[v].email /\ (Busy(v)' <=> Busy(v))
                         /\ NotYet(v)' => v # w /\ NotYet(v) /\ Busy(v)
  BY <1>1, <1>2 DEF Busy, NotYet
<1>7. WorkerInv'
  <2>1. \A v \in Workers : NotYet(v)' =>
          accepted'[worker'[v].email] = 0 /\ worker'[v].email \notin orphan'
    <3> SUFFICES ASSUME NEW v \in Workers, NotYet(v)'
                 PROVE  accepted'[worker'[v].email] = 0 /\ worker'[v].email \notin orphan'
      OBVIOUS
    <3>1. worker'[v].email = worker[v].email /\ worker[v].email # e /\ NotYet(v)
      BY <1>5, <1>6
    <3>2. accepted[worker[v].email] = 0 /\ worker[v].email \notin orphan
      BY <3>1 DEF WorkerInv
    <3> QED
      BY <1>1, <3>1, <3>2
  <2>2. \A u, v \in Workers : Busy(u)' /\ Busy(v)' /\ worker'[u].email = worker'[v].email => u = v
    BY <1>6 DEF WorkerInv
  <2> QED
    BY <2>1, <2>2 DEF WorkerInv
<1>8. RowInv'
  <2>1. state[e] \notin {"none", "queued"}
    BY <1>1 DEF RowInv, Busy
  <2> QED
    BY <1>1, <1>6, <2>1 DEF RowInv
<1>9. NoDeadLinkInDelivery'
  BY <1>1, <1>2 DEF NoDeadLinkInDelivery, Delivering
<1> QED
  BY <1>3, <1>4, <1>7, <1>8, <1>9

\* The end of a delivery: only a row that was certainly not accepted goes back to the queue.
LEMMA CommitDeliveryStep ==
  ASSUME IndInv, NEW w \in Workers, CommitDelivery(w)
  PROVE  IndInv'
<1> USE DEF IndInv
<1> DEFINE e == worker[w].email
           next == IF worker[w].outcome = "accepted" THEN "provider_accepted"
                   ELSE NextState(e, worker[w].outcome)
<1>1. /\ worker[w].pc = "answered" /\ e \in Emails
      /\ state' = [state EXCEPT ![e] = IF state[e] = "processing" THEN next ELSE state[e]]
      /\ sealed' = IF next = "queued" THEN sealed ELSE sealed \ {e}
      /\ recorded' = IF next = "provider_accepted" THEN recorded \cup {e} ELSE recorded
      /\ worker' = [worker EXCEPT ![w] = IdleWorker]
      /\ elapsed' = elapsed \ {e}
      /\ UNCHANGED <<purpose, attempts, chal, orphan, accepted>>
  BY WorkerType DEF CommitDelivery
<1>2. \A v \in Workers : worker'[v] = IF v = w THEN IdleWorker ELSE worker[v]
  BY <1>1 DEF TypeOK
<1>3. state[e] \notin {"none", "queued"}
  BY <1>1 DEF RowInv, Busy
<1>4. /\ next \in {"provider_accepted", "failed", "queued"}
      /\ next = "queued" => worker[w].outcome = "transient" /\ attempts[e] < MaxAttempts
  <2>1. attempts[e] \in 0..MaxAttempts /\ MaxAttempts \in Nat
    BY <1>1, EmailConstants DEF TypeOK
  <2> QED
    BY <2>1 DEF NextState
<1>5. next = "queued" => accepted[e] = 0 /\ e \notin orphan
  BY <1>1, <1>4 DEF WorkerInv, NotYet
<1> HIDE DEF next
<1>6. \A d \in Emails : state'[d] = IF d = e /\ state[e] = "processing" THEN next ELSE state[d]
  BY <1>1 DEF TypeOK
<1>7. TypeOK'
  <2>1. state' \in [Emails -> States]
    BY <1>1, <1>4 DEF TypeOK, States, Pending, Terminal
  <2>2. worker' \in [Workers -> WorkerRows]
    BY <1>1, WorkerType DEF TypeOK
  <2> QED
    BY <1>1, <2>1, <2>2 DEF TypeOK
<1>8. OrphanInv' /\ AcceptedAtMostOnce'
  BY <1>1 DEF OrphanInv, AcceptedAtMostOnce
<1>9. \A v \in Workers : /\ Busy(v)' => v # w /\ Busy(v) /\ worker'[v] = worker[v]
                         /\ NotYet(v)' => v # w /\ NotYet(v) /\ worker'[v] = worker[v]
  BY <1>2, WorkerType DEF Busy, NotYet
<1>10. WorkerInv'
  BY <1>1, <1>9 DEF WorkerInv
<1>11. RowInv'
  <2>1. \A v \in Workers : v # w /\ Busy(v) => worker[v].email # e
    BY <1>1 DEF WorkerInv, Busy
  <2>2. \A d \in Emails : state'[d] \in {"none", "queued"} =>
          /\ accepted[d] = 0 /\ d \notin orphan /\ attempts[d] < MaxAttempts
          /\ \A v \in Workers : Busy(v)' => worker'[v].email # d
    BY <1>3, <1>4, <1>5, <1>6, <1>9, <2>1 DEF RowInv
  <2>3. \A d \in recorded' : state'[d] \notin Pending \cup {"none"}
    BY <1>1, <1>3, <1>4, <1>6 DEF RowInv, Pending, TypeOK
  <2> QED
    BY <1>1, <2>2, <2>3 DEF RowInv
<1>12. NoDeadLinkInDelivery'
  BY <1>1, <1>2, WorkerType DEF NoDeadLinkInDelivery, Delivering
<1>13. EnvelopeOnlyWhilePending'
  BY <1>1, <1>3, <1>4, <1>6 DEF EnvelopeOnlyWhilePending, Pending, TypeOK
<1> QED
  BY <1>7, <1>8, <1>10, <1>11, <1>12, <1>13

\* A lost Worker leaves its claim behind and perhaps a call that nobody waits for.
LEMMA LoseWorkerStep ==
  ASSUME IndInv, NEW w \in Workers, LoseWorker(w)
  PROVE  IndInv'
<1> USE DEF IndInv
<1> DEFINE e == worker[w].email
<1>1. /\ worker[w].pc # "idle" /\ e \in Emails
      /\ orphan' = IF worker[w].pc = "sending" THEN orphan \cup {e} ELSE orphan
      /\ worker' = [worker EXCEPT ![w] = IdleWorker]
      /\ UNCHANGED <<state, purpose, attempts, sealed, elapsed, recorded, chal, accepted>>
  BY WorkerType DEF LoseWorker
<1>2. \A v \in Workers : worker'[v] = IF v = w THEN IdleWorker ELSE worker[v]
  BY <1>1 DEF TypeOK
<1>3. worker[w].pc = "sending" => accepted[e] = 0
  BY DEF WorkerInv, NotYet
<1>4. state[e] \notin {"none", "queued"} /\ \A v \in Workers : v # w /\ Busy(v) => worker[v].email # e
  BY <1>1 DEF RowInv, WorkerInv, Busy
<1>5. TypeOK'
  BY <1>1, WorkerType DEF TypeOK
<1>6. OrphanInv' /\ AcceptedAtMostOnce' /\ EnvelopeOnlyWhilePending'
  BY <1>1, <1>3 DEF OrphanInv, AcceptedAtMostOnce, EnvelopeOnlyWhilePending
<1>7. \A v \in Workers : /\ Busy(v)' => v # w /\ Busy(v) /\ worker'[v] = worker[v]
                         /\ NotYet(v)' => v # w /\ NotYet(v) /\ Busy(v) /\ worker'[v] = worker[v]
  BY <1>2, WorkerType DEF Busy, NotYet
<1>8. WorkerInv'
  BY <1>1, <1>4, <1>7 DEF WorkerInv
<1>9. RowInv'
  BY <1>1, <1>4, <1>7 DEF RowInv
<1>10. NoDeadLinkInDelivery'
  BY <1>1, <1>2, WorkerType DEF NoDeadLinkInDelivery, Delivering
<1> QED
  BY <1>5, <1>6, <1>8, <1>9, <1>10

\* The remaining steps leave the Workers alone.
LEMMA LateAnswerStep ==
  ASSUME IndInv, NEW e \in Emails, NEW b \in BOOLEAN, LateAnswer(e, b)
  PROVE  IndInv'
<1> USE DEF IndInv
<1>1. /\ e \in orphan /\ accepted[e] = 0 /\ orphan' = orphan \ {e}
      /\ accepted' = IF b THEN [accepted EXCEPT ![e] = accepted[e] + 1] ELSE accepted
      /\ UNCHANGED <<state, purpose, attempts, sealed, elapsed, recorded, chal, worker>>
  BY DEF LateAnswer, OrphanInv
<1>2. \A d \in Emails : (d # e => accepted'[d] = accepted[d]) /\ accepted'[e] \in {0, 1}
  BY <1>1 DEF TypeOK
<1>3. TypeOK'
  BY <1>1 DEF TypeOK
<1>4. OrphanInv' /\ AcceptedAtMostOnce'
  BY <1>1, <1>2 DEF OrphanInv, AcceptedAtMostOnce, TypeOK
<1>5. WorkerInv'
  BY <1>1, <1>2, WorkerType DEF WorkerInv, NotYet, Busy
<1>6. RowInv'
  BY <1>1, <1>2 DEF RowInv, Busy
<1>7. NoDeadLinkInDelivery' /\ EnvelopeOnlyWhilePending'
  BY <1>1 DEF NoDeadLinkInDelivery, EnvelopeOnlyWhilePending, Delivering
<1> QED
  BY <1>3, <1>4, <1>5, <1>6, <1>7

LEMMA LifecycleStep ==
  ASSUME IndInv, NEW e \in Emails, NEW k \in LifecycleStates, Lifecycle(e, k)
  PROVE  IndInv'
<1> USE DEF IndInv
<1>1. /\ e \in recorded /\ state[e] \notin Pending \cup {"none"}
      /\ k \in {"delivered", "deferred", "bounced", "failed", "rejected", "complained"}
      /\ state' = [state EXCEPT ![e] = k]
      /\ UNCHANGED <<purpose, attempts, sealed, elapsed, recorded, chal, worker, orphan, accepted>>
  BY EmailConstants DEF Lifecycle, LifecycleApplies, RowInv
<1>2. \A d \in Emails : state'[d] = IF d = e THEN k ELSE state[d]
  BY <1>1 DEF TypeOK
<1>3. TypeOK'
  BY <1>1 DEF TypeOK, States, Terminal
<1>4. OrphanInv' /\ WorkerInv' /\ AcceptedAtMostOnce' /\ NoDeadLinkInDelivery'
  BY <1>1 DEF OrphanInv, WorkerInv, AcceptedAtMostOnce, NoDeadLinkInDelivery, Delivering, NotYet, Busy
<1>5. RowInv' /\ EnvelopeOnlyWhilePending'
  BY <1>1, <1>2 DEF RowInv, EnvelopeOnlyWhilePending, Pending, Busy, TypeOK
<1> QED
  BY <1>3, <1>4, <1>5

LEMMA ClockStep ==
  ASSUME IndInv, NEW e \in Emails, ExpireChallenge(e) \/ TimerElapses(e)
  PROVE  IndInv'
<1> USE DEF IndInv
<1>1. UNCHANGED <<state, purpose, attempts, sealed, recorded, worker, orphan, accepted>>
  BY DEF ExpireChallenge, TimerElapses
<1>2. TypeOK'
  BY DEF ExpireChallenge, TimerElapses, TypeOK
<1>3. \A d \in Emails : chal[d] \in {"open", "expired"} => chal'[d] \in {"open", "expired"}
  BY DEF ExpireChallenge, TimerElapses, TypeOK
<1>4. OrphanInv' /\ WorkerInv' /\ RowInv' /\ AcceptedAtMostOnce' /\ EnvelopeOnlyWhilePending'
  BY <1>1 DEF OrphanInv, WorkerInv, RowInv, AcceptedAtMostOnce, EnvelopeOnlyWhilePending, NotYet, Busy
<1>5. NoDeadLinkInDelivery'
  BY <1>1, <1>3, WorkerType DEF NoDeadLinkInDelivery, Delivering
<1> QED
  BY <1>2, <1>4, <1>5

\* One case per action.
LEMMA NextInv == IndInv /\ [Next]_vars => IndInv'
<1> SUFFICES ASSUME IndInv, [Next]_vars PROVE IndInv'
  OBVIOUS
<1>1. ASSUME NEW w \in Workers, WorkerSteps(w) PROVE IndInv'
  BY <1>1, ClaimStep, SweepStep, BeginDeliveryStep, RefuseDeliveryStep, ProviderAnswerStep,
     DeliveryDeadlineStep, CommitDeliveryStep, LoseWorkerStep DEF WorkerSteps
<1>2. ASSUME NEW e \in Emails, EmailSteps(e) PROVE IndInv'
  BY <1>2, QueueRecoveryEmailStep, VerifyEmailStep, CompletePasswordResetStep, LateAnswerStep,
     LifecycleStep, ClockStep DEF EmailSteps
<1>3. CASE UNCHANGED vars
  <2>1. TypeOK' /\ OrphanInv' /\ WorkerInv' /\ RowInv'
    BY <1>3 DEF vars, IndInv, TypeOK, OrphanInv, WorkerInv, RowInv, NotYet, Busy
  <2>2. AcceptedAtMostOnce' /\ NoDeadLinkInDelivery' /\ EnvelopeOnlyWhilePending'
    BY <1>3 DEF vars, IndInv, AcceptedAtMostOnce, NoDeadLinkInDelivery, EnvelopeOnlyWhilePending, Delivering
  <2> QED
    BY <2>1, <2>2 DEF IndInv
<1> QED
  BY <1>1, <1>2, <1>3 DEF Next

\* What SettledStaysSettled says of one step.
LEMMA SettledStep ==
  ASSUME IndInv, [Next]_vars, NEW e \in Emails
  PROVE  /\ state[e] \notin Pending \cup {"none"} => state'[e] \notin Pending
         /\ state[e] \in Terminal => state'[e] \in Terminal
         /\ state[e] = "delivered" => state'[e] # "deferred"
<1> USE DEF IndInv
<1>1. \/ state'[e] = state[e]
      \/ state[e] \in {"none", "queued", "processing"}
      \/ state[e] = "failed" /\ state'[e] = "cancelled"
      \/ \E k \in LifecycleStates : LifecycleApplies(e, k) /\ state'[e] = k
  <2>1. ASSUME NEW w \in Workers, WorkerSteps(w)
        PROVE  state'[e] = state[e] \/ state[e] \in {"none", "queued", "processing"}
    <3>1. ASSUME NEW d \in Emails, Claim(w, d)
          PROVE  state'[e] = state[e] \/ state[e] \in {"none", "queued", "processing"}
      BY <3>1 DEF Claim, SweptStates, StaleClaims, TypeOK
    <3>2. CASE Sweep(w)
      BY <3>2 DEF Sweep, SweptStates, StaleClaims, TypeOK
    <3>3. CASE RefuseDelivery(w)
      BY <3>3 DEF RefuseDelivery, Pending, TypeOK
    <3>4. CASE CommitDelivery(w)
      BY <3>4 DEF CommitDelivery, TypeOK
    <3> QED
      BY <2>1, <3>1, <3>2, <3>3, <3>4
         DEF WorkerSteps, BeginDelivery, ProviderAnswer, DeliveryDeadline, LoseWorker
  <2>2. ASSUME NEW d \in Emails, EmailSteps(d)
        PROVE  \/ state'[e] = state[e]
               \/ state[e] \in {"none", "queued", "processing"}
               \/ state[e] = "failed" /\ state'[e] = "cancelled"
               \/ \E k \in LifecycleStates : LifecycleApplies(e, k) /\ state'[e] = k
    <3>1. ASSUME NEW p \in ChallengePurposes, QueueRecoveryEmail(d, p)
          PROVE  \/ state'[e] = state[e]
                 \/ state[e] \in {"none", "queued", "processing"}
                 \/ state[e] = "failed" /\ state'[e] = "cancelled"
      BY <3>1 DEF QueueRecoveryEmail, Enqueue, CancelledStates, Cancellable, TypeOK
    <3>2. CASE VerifyEmail(d)
      BY <3>2 DEF VerifyEmail, CancelledStates, Cancellable, TypeOK
    <3>3. ASSUME NEW n \in Emails, CompletePasswordReset(d, n)
          PROVE  \/ state'[e] = state[e]
                 \/ state[e] \in {"none", "queued", "processing"}
                 \/ state[e] = "failed" /\ state'[e] = "cancelled"
      BY <3>3 DEF CompletePasswordReset, Enqueue, CancelledStates, Cancellable, TypeOK
    <3>4. ASSUME NEW k \in LifecycleStates, Lifecycle(d, k)
          PROVE  state'[e] = state[e] \/ (LifecycleApplies(e, k) /\ state'[e] = k)
      BY <3>4 DEF Lifecycle, TypeOK
    <3> QED
      BY <2>2, <3>1, <3>2, <3>3, <3>4 DEF EmailSteps, LateAnswer, ExpireChallenge, TimerElapses
  <2>3. CASE UNCHANGED vars
    BY <2>3 DEF vars
  <2> QED
    BY <2>1, <2>2, <2>3 DEF Next
<1>2. CASE state'[e] = state[e]
  BY <1>2
<1>3. CASE state[e] \in {"none", "queued", "processing"}
  BY <1>3 DEF Pending, Terminal
<1>4. CASE state[e] = "failed" /\ state'[e] = "cancelled"
  BY <1>4 DEF Pending, Terminal
<1>5. ASSUME NEW k \in LifecycleStates, LifecycleApplies(e, k), state'[e] = k
      PROVE  /\ state[e] \notin Pending \cup {"none"} => state'[e] \notin Pending
             /\ state[e] \in Terminal => state'[e] \in Terminal
             /\ state[e] = "delivered" => state'[e] # "deferred"
  BY <1>5, EmailConstants DEF LifecycleApplies, Pending
<1> QED
  BY <1>1, <1>2, <1>3, <1>4, <1>5

-----------------------------------------------------------------------------
\* The inductive invariant holds in every reachable state.
THEOREM Invariance == Spec => []IndInv
  BY InitInv, NextInv, PTL DEF Spec

\* Types; in particular no row is tried more than MaxAttempts times.
THEOREM TypeCorrect == Spec => []TypeOK
  BY Invariance, PTL DEF IndInv

\* The provider accepts a row's message at most once.
THEOREM AcceptedOnce == Spec => []AcceptedAtMostOnce
  BY Invariance, PTL DEF IndInv

\* No link is superseded or consumed while a Worker hands it to the provider.
THEOREM NoDeadLink == Spec => []NoDeadLinkInDelivery
  BY Invariance, PTL DEF IndInv

\* A sealed link exists exactly while its row is pending.
THEOREM EnvelopeLifetime == Spec => []EnvelopeOnlyWhilePending
  BY Invariance, PTL DEF IndInv

\* A row that left the queue stays out of it, and an ended row stays ended.
THEOREM Settling == Spec => SettledStaysSettled
<1>1. IndInv /\ [Next]_vars =>
        [\A e \in Emails :
           /\ state[e] \notin Pending \cup {"none"} => state'[e] \notin Pending
           /\ state[e] \in Terminal => state'[e] \in Terminal
           /\ state[e] = "delivered" => state'[e] # "deferred"]_vars
  BY SettledStep
<1> QED
  BY <1>1, Invariance, PTL DEF Spec, SettledStaysSettled

=============================================================================
