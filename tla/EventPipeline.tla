--------------------------- MODULE EventPipeline ---------------------------
(***************************************************************************)
(* The path of a domain event through the jobs Worker: system.outbox_events*)
(* -> relayOutbox (cron) -> Cloudflare Queue -> queue() -> processMessage, *)
(* which claims the event in system.consumer_inbox, runs the handlers and  *)
(* marks it completed.                                                     *)
(*                                                                         *)
(* Every hand-over is at least once: a relay may die between sending and   *)
(* recording, a consumer may die anywhere, a statement may fail after it   *)
(* took effect, and a claim older than five minutes may be taken over      *)
(* while its first owner is still running.                                 *)
(***************************************************************************)
EXTENDS Naturals, FiniteSets

CONSTANTS
  Events,      \* outbox rows
  Relays,      \* overlapping cron runs
  Consumers,   \* concurrent queue consumers
  MaxCopies,   \* queue messages per event (a bound on relay failures)
  MaxRetries   \* the queue's max_retries (10 in wrangler.jsonc)

ASSUME PipelineConstants ==
  Events # {} /\ MaxCopies \in Nat \ {0} /\ MaxRetries \in Nat

Copies == 1..MaxCopies

VARIABLES
  unrouted,    \* events of a type whose queue binding is not configured
  written,     \* events in system.outbox_events
  dispatched,  \* events with dispatched_at
  attempted,   \* attempted_at: "never" (NULL), "recent", "old" (more than 5 minutes)
  todo,        \* per relay: claimed events not sent yet
  sent,        \* per relay: the event sent and not recorded yet
  msg,         \* queue messages, by event and copy: where it is and its retry count
  inbox,       \* consumer_inbox row: "none", "fresh" or "stale" (processing), "completed"
  consumer,    \* each consumer's position, with the message it holds
  handled,     \* events whose handlers have run to the end at least once
  overran      \* events whose claim went stale while a consumer was still at work on it

outbox == <<unrouted, written, dispatched, attempted>>
relay == <<todo, sent>>
vars == <<outbox, relay, msg, inbox, consumer, handled, overran>>

Running == {"handle", "complete"}
AtWork == Running \cup {"failed"}
Pcs == {"idle", "insert", "read", "reclaim", "ack"} \cup AtWork
NoMessage == [at |-> "none", tries |-> 0]
IdleConsumer == [pc |-> "idle", e |-> CHOOSE e \in Events : TRUE, c |-> 1]

Init ==
  /\ unrouted \in SUBSET Events
  /\ written = {} /\ dispatched = {} /\ handled = {} /\ overran = {}
  /\ attempted = [e \in Events |-> "never"]
  /\ todo = [r \in Relays |-> {}] /\ sent = [r \in Relays |-> {}]
  /\ msg = [e \in Events |-> [c \in Copies |-> NoMessage]]
  /\ inbox = [e \in Events |-> "none"]
  /\ consumer = [k \in Consumers |-> IdleConsumer]

\* A request commits its change and the event in one transaction.
WriteEvent(e) ==
  /\ e \notin written
  /\ written' = written \cup {e}
  /\ UNCHANGED <<unrouted, dispatched, attempted, relay, msg, inbox, consumer, handled, overran>>

-----------------------------------------------------------------------------
(* relayOutbox.                                                            *)

\* Mutant: a claim whose relay died is never taken again.
ClaimableOnce == {e \in written \ dispatched : attempted[e] = "never"}

Claimable == {e \in written \ dispatched : attempted[e] # "recent"}

RelayIdle(r) == todo[r] = {} /\ sent[r] = {}

\* One transaction claims a batch (SKIP LOCKED and LIMIT may leave rows out).
RelayClaim(r) ==
  /\ RelayIdle(r)
  /\ \E batch \in SUBSET Claimable :
       /\ batch # {}
       /\ attempted' = [e \in Events |-> IF e \in batch THEN "recent" ELSE attempted[e]]
       /\ todo' = [todo EXCEPT ![r] = batch]
  /\ UNCHANGED <<unrouted, written, dispatched, sent, msg, inbox, consumer, handled, overran>>

\* queue_not_configured: the event keeps its claim and the loop goes on.
RelaySkip(r) ==
  /\ sent[r] = {}
  /\ \E e \in todo[r] \cap unrouted : todo' = [todo EXCEPT ![r] = @ \ {e}]
  /\ UNCHANGED <<outbox, sent, msg, inbox, consumer, handled, overran>>

FreeCopies(e) == {c \in Copies : msg[e][c] = NoMessage}

RelaySend(r) ==
  /\ sent[r] = {}
  /\ \E e \in todo[r] \ unrouted :
       /\ FreeCopies(e) # {}
       /\ LET c == CHOOSE c \in FreeCopies(e) : \A d \in FreeCopies(e) : c <= d
          IN  msg' = [msg EXCEPT ![e][c] = [at |-> "queued", tries |-> 0]]
       /\ todo' = [todo EXCEPT ![r] = @ \ {e}]
       /\ sent' = [sent EXCEPT ![r] = {e}]
  /\ UNCHANGED <<outbox, inbox, consumer, handled, overran>>

RelayMark(r) ==
  /\ sent[r] # {}
  /\ dispatched' = dispatched \cup sent[r]
  /\ sent' = [sent EXCEPT ![r] = {}]
  /\ UNCHANGED <<unrouted, written, attempted, todo, msg, inbox, consumer, handled, overran>>

\* The send or the UPDATE throws: the event's claim is given up and the rest of the batch left.
RelayFails(r) ==
  /\ \E e \in sent[r] \cup (todo[r] \ unrouted) :
       /\ FreeCopies(e) # {}
       /\ attempted' = IF e \in dispatched THEN attempted ELSE [attempted EXCEPT ![e] = "never"]
  /\ todo' = [todo EXCEPT ![r] = {}] /\ sent' = [sent EXCEPT ![r] = {}]
  /\ UNCHANGED <<unrouted, written, dispatched, msg, inbox, consumer, handled, overran>>

RelayDies(r) ==
  /\ ~RelayIdle(r)
  /\ \A e \in sent[r] : FreeCopies(e) # {}
  /\ todo' = [todo EXCEPT ![r] = {}] /\ sent' = [sent EXCEPT ![r] = {}]
  /\ UNCHANGED <<outbox, msg, inbox, consumer, handled, overran>>

AttemptAges(e) ==
  /\ attempted[e] = "recent" /\ e \notin dispatched
  /\ attempted' = [attempted EXCEPT ![e] = "old"]
  /\ UNCHANGED <<unrouted, written, dispatched, relay, msg, inbox, consumer, handled, overran>>

-----------------------------------------------------------------------------
(* Cloudflare Queues, from how queue() uses them.                          *)

Message(k) == msg[consumer[k].e][consumer[k].c]

Put(k, m) == msg' = [msg EXCEPT ![consumer[k].e][consumer[k].c] = m]

AckMessage(k) == Put(k, [Message(k) EXCEPT !.at = "acked"])

\* message.retry(), and the redelivery of a message whose consumer died.
RetryMessage(k) ==
  Put(k, IF Message(k).tries < MaxRetries THEN [at |-> "queued", tries |-> Message(k).tries + 1]
         ELSE [at |-> "dead", tries |-> Message(k).tries])

Deliver(k, e, c) ==
  /\ consumer[k].pc = "idle"
  /\ msg[e][c].at = "queued"
  /\ msg' = [msg EXCEPT ![e][c].at = "held"]
  /\ consumer' = [consumer EXCEPT ![k] = [pc |-> "insert", e |-> e, c |-> c]]
  /\ UNCHANGED <<outbox, relay, inbox, handled, overran>>

-----------------------------------------------------------------------------
(* processMessage.                                                         *)

At(k, pc) == consumer[k].pc = pc
Go(k, pc) == consumer' = [consumer EXCEPT ![k].pc = pc]
Finish(k) == consumer' = [consumer EXCEPT ![k] = IdleConsumer]
Row(k) == inbox[consumer[k].e]
SetRow(k, state) == inbox' = [inbox EXCEPT ![consumer[k].e] = state]

\* INSERT ... ON CONFLICT DO NOTHING.
InsertClaim(k) ==
  /\ At(k, "insert")
  /\ IF Row(k) = "none" THEN SetRow(k, "fresh") /\ Go(k, "handle")
     ELSE UNCHANGED inbox /\ Go(k, "read")
  /\ UNCHANGED <<outbox, relay, msg, handled, overran>>

\* Mutant: a message whose event somebody else is processing is acknowledged.
ReadClaimAcking(k) ==
  /\ At(k, "read")
  /\ AckMessage(k) /\ Finish(k)
  /\ UNCHANGED <<outbox, relay, inbox, handled, overran>>

\* A row that is completed, or gone since the INSERT, ends the message.
ReadClaim(k) ==
  /\ At(k, "read")
  /\ IF Row(k) \in {"none", "completed"} THEN AckMessage(k) /\ Finish(k)
     ELSE UNCHANGED msg /\ Go(k, "reclaim")
  /\ UNCHANGED <<outbox, relay, inbox, handled, overran>>

\* Mutant: a claim is taken over without looking at its age.
ReclaimAny(k) ==
  /\ At(k, "reclaim")
  /\ IF Row(k) \in {"fresh", "stale"} THEN SetRow(k, "fresh") /\ Go(k, "handle") /\ UNCHANGED msg
     ELSE RetryMessage(k) /\ Finish(k) /\ UNCHANGED inbox
  /\ UNCHANGED <<outbox, relay, handled, overran>>

\* Only a claim more than five minutes old is taken over.
Reclaim(k) ==
  /\ At(k, "reclaim")
  /\ IF Row(k) = "stale" THEN SetRow(k, "fresh") /\ Go(k, "handle") /\ UNCHANGED msg
     ELSE RetryMessage(k) /\ Finish(k) /\ UNCHANGED inbox
  /\ UNCHANGED <<outbox, relay, handled, overran>>

Handle(k) ==
  /\ At(k, "handle")
  /\ handled' = handled \cup {consumer[k].e}
  /\ Go(k, "complete")
  /\ UNCHANGED <<outbox, relay, msg, inbox, overran>>

\* The UPDATE to completed has no owner condition and does nothing to a deleted row.
Complete(k) ==
  /\ At(k, "complete")
  /\ IF Row(k) = "none" THEN UNCHANGED inbox ELSE SetRow(k, "completed")
  /\ Go(k, "ack")
  /\ UNCHANGED <<outbox, relay, msg, handled, overran>>

Ack(k) ==
  /\ At(k, "ack")
  /\ AckMessage(k) /\ Finish(k)
  /\ UNCHANGED <<outbox, relay, inbox, handled, overran>>

\* A handler throws, or the UPDATE does, with or without having taken effect.
HandlingFails(k) ==
  /\ consumer[k].pc \in Running
  /\ \/ UNCHANGED inbox
     \/ At(k, "complete") /\ Row(k) # "none" /\ SetRow(k, "completed")
  /\ Go(k, "failed")
  /\ UNCHANGED <<outbox, relay, msg, handled, overran>>

\* The claim is deleted, whoever owns it by now; a failing DELETE is swallowed.
ReleaseClaim(k) ==
  /\ At(k, "failed")
  /\ SetRow(k, "none") \/ UNCHANGED inbox
  /\ RetryMessage(k) /\ Finish(k)
  /\ UNCHANGED <<outbox, relay, handled, overran>>

ConsumerDies(k) ==
  /\ ~At(k, "idle")
  /\ RetryMessage(k) /\ Finish(k)
  /\ UNCHANGED <<outbox, relay, inbox, handled, overran>>

ClaimAges(e) ==
  /\ inbox[e] = "fresh"
  /\ inbox' = [inbox EXCEPT ![e] = "stale"]
  /\ overran' = IF \E k \in Consumers : consumer[k].e = e /\ consumer[k].pc \in AtWork
                THEN overran \cup {e} ELSE overran
  /\ UNCHANGED <<outbox, relay, msg, consumer, handled>>

-----------------------------------------------------------------------------
Consume(k) ==
  \/ InsertClaim(k) \/ ReadClaim(k) \/ Reclaim(k) \/ Handle(k) \/ Complete(k) \/ Ack(k)
  \/ HandlingFails(k) \/ ReleaseClaim(k)

Next ==
  \/ \E e \in Events : WriteEvent(e) \/ AttemptAges(e) \/ ClaimAges(e)
  \/ \E r \in Relays :
       RelayClaim(r) \/ RelaySkip(r) \/ RelaySend(r) \/ RelayMark(r) \/ RelayFails(r) \/ RelayDies(r)
  \/ \E k \in Consumers, e \in Events, c \in Copies : Deliver(k, e, c)
  \/ \E k \in Consumers : Consume(k) \/ ConsumerDies(k)

Spec == Init /\ [][Next]_vars

\* The cron keeps running and does not fail on the same event for ever; the queue delivers;
\* an invocation goes on until it ends; claims and attempts grow old.
FairSpec ==
  /\ Spec
  /\ \A e \in Events : /\ WF_vars(AttemptAges(e)) /\ WF_vars(ClaimAges(e))
                       /\ SF_vars(\E r \in Relays : RelayClaim(r) /\ e \in todo'[r])
                       /\ SF_vars(\E r \in Relays : RelaySend(r) /\ e \in sent'[r])
                       /\ SF_vars(\E r \in Relays : e \in sent[r] /\ RelayMark(r))
  /\ \A r \in Relays : WF_vars(RelaySkip(r))
  /\ \A e \in Events, c \in Copies : SF_vars(\E k \in Consumers : Deliver(k, e, c))
  /\ \A k \in Consumers : WF_vars(Consume(k))

-----------------------------------------------------------------------------
(* Properties.                                                             *)

\* Types, with the queue's retry budget.
TypeOK ==
  /\ unrouted \subseteq Events /\ written \subseteq Events /\ dispatched \subseteq written
  /\ attempted \in [Events -> {"never", "recent", "old"}]
  /\ todo \in [Relays -> SUBSET Events] /\ sent \in [Relays -> SUBSET Events]
  /\ msg \in [Events -> [Copies -> [at: {"none", "queued", "held", "acked", "dead"}, tries: 0..MaxRetries]]]
  /\ inbox \in [Events -> {"none", "fresh", "stale", "completed"}]
  /\ consumer \in [Consumers -> [pc: Pcs, e: Events, c: Copies]]
  /\ handled \subseteq Events /\ overran \subseteq Events

Somewhere(e, places) == \E c \in Copies : msg[e][c].at \in places

\* No event disappears: until its handlers have run it is waiting for a relay, on its way in a
\* message, or in the dead-letter queue, although a message is acknowledged without
\* processing when the claim row it conflicted with is completed or gone.
NoSilentLoss ==
  \A e \in written : e \in handled \/ e \notin dispatched \/ Somewhere(e, {"queued", "held", "dead"})

Workers(e) == {k \in Consumers : consumer[k].e = e /\ consumer[k].pc \in Running}

\* However messages are duplicated, retried and redelivered, the handlers of an event do not run
\* twice at the same time, nor start again once it is completed, unless a consumer
\* outlived its five-minute claim.
HandledOneAtATime ==
  \A e \in Events \ overran : Cardinality(Workers(e)) <= 1 /\ (inbox[e] = "completed" => Workers(e) = {})

\* Every event that can be routed is handled or ends in the dead-letter queue.
EveryEventIsHandled ==
  \A e \in Events : e \in written \ unrouted ~> e \in handled \/ Somewhere(e, {"dead"})

=============================================================================
