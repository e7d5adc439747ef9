------------------------ MODULE EventPipelineProofs ------------------------
(***************************************************************************)
(* Proofs about EventPipeline for any number of events, relays, consumers, *)
(* copies and retries.                                                     *)
(***************************************************************************)
EXTENDS EventPipeline, FiniteSetTheorems, TLAPS

Live(e, c) == msg[e][c].at \in {"queued", "held", "dead"}
Reading(k, e) == consumer[k].pc = "read" /\ consumer[k].e = e

\* The relay has sent the event, whether or not it recorded that.
Sent(e) == e \in dispatched \/ \E r \in Relays : e \in sent[r]

RelayInv == \A r \in Relays : todo[r] \subseteq written /\ sent[r] \subseteq written

\* A consumer has a message to itself until it acknowledges or gives it back.
HoldInv ==
  /\ \A k \in Consumers : consumer[k].pc # "idle" => Message(k).at = "held"
  /\ \A j, k \in Consumers :
       /\ consumer[j].pc # "idle" /\ consumer[k].pc # "idle"
       /\ consumer[j].e = consumer[k].e /\ consumer[j].c = consumer[k].c
       => j = k

\* Completed rows and consumers past the handlers mean that the handlers have run.
HandledInv ==
  /\ \A e \in Events : inbox[e] = "completed" => e \in handled
  /\ \A k \in Consumers : consumer[k].pc \in {"complete", "ack"} => consumer[k].e \in handled

\* A sent event is handled or has a message left.
SentInv == \A e \in Events : Sent(e) => e \in handled \/ \E c \in Copies : Live(e, c)

\* When the claim row of an unhandled event is gone, the consumers that met it and are about to
\* acknowledge their messages do not hold all of them: whoever deleted the row had its own
\* message retried.
CoverInv ==
  \A e \in Events \ handled :
    inbox[e] = "none" /\ (\E k \in Consumers : Reading(k, e)) =>
      \E c \in Copies : Live(e, c) /\ \A k \in Consumers : Reading(k, e) => consumer[k].c # c

\* Nobody works on an event whose claim is gone or old, and never two at once, except where a
\* consumer outlived its claim.
ClaimInv ==
  \A e \in Events \ overran :
    /\ \A k \in Consumers : consumer[k].e = e /\ consumer[k].pc \in AtWork =>
         inbox[e] = "fresh" \/ (inbox[e] = "completed" /\ consumer[k].pc = "failed")
    /\ \A j, k \in Consumers :
         /\ consumer[j].e = e /\ consumer[j].pc \in AtWork
         /\ consumer[k].e = e /\ consumer[k].pc \in AtWork
         => j = k

IndInv == TypeOK /\ RelayInv /\ HoldInv /\ HandledInv /\ SentInv /\ CoverInv /\ ClaimInv

MsgRows == [at: {"none", "queued", "held", "acked", "dead"}, tries: 0..MaxRetries]
ConsumerRows == [pc: Pcs, e: Events, c: Copies]

-----------------------------------------------------------------------------
(* The operators that write a message or a consumer.                       *)

\* Consumers, idle ones included, are well typed.
LEMMA ConsumerType ==
  /\ IdleConsumer \in ConsumerRows /\ IdleConsumer.pc = "idle"
  /\ TypeOK => \A k \in Consumers : /\ consumer[k] \in ConsumerRows /\ consumer[k].pc \in Pcs
                                    /\ consumer[k].e \in Events /\ consumer[k].c \in Copies
<1>1. 1 \in Copies
  BY PipelineConstants DEF Copies
<1>2. (CHOOSE e \in Events : TRUE) \in Events
  BY PipelineConstants
<1> QED
  BY <1>1, <1>2 DEF IdleConsumer, ConsumerRows, Pcs, TypeOK

\* Writing one message leaves the others alone.
LEMMA OneMessage ==
  ASSUME TypeOK, NEW e \in Events, NEW c \in Copies, NEW m \in MsgRows,
         msg' = [msg EXCEPT ![e][c] = m]
  PROVE  /\ msg' \in [Events -> [Copies -> MsgRows]]
         /\ msg'[e][c] = m
         /\ \A f \in Events, d \in Copies : f # e \/ d # c => msg'[f][d] = msg[f][d]
<1>1. msg \in [Events -> [Copies -> MsgRows]]
  BY DEF TypeOK, MsgRows
<1>2. msg' = [msg EXCEPT ![e] = [msg[e] EXCEPT ![c] = m]]
  OBVIOUS
<1>3. [msg[e] EXCEPT ![c] = m] \in [Copies -> MsgRows]
  BY <1>1
<1> QED
  BY <1>1, <1>2, <1>3

\* Message(k) is a message; Put(k, m) replaces it and no other.
LEMMA PutMessage ==
  ASSUME TypeOK, NEW k \in Consumers
  PROVE  /\ Message(k) \in MsgRows
         /\ \A m \in MsgRows : Put(k, m) =>
              /\ msg' \in [Events -> [Copies -> MsgRows]]
              /\ msg'[consumer[k].e][consumer[k].c] = m
              /\ \A f \in Events, d \in Copies :
                   f # consumer[k].e \/ d # consumer[k].c => msg'[f][d] = msg[f][d]
<1>1. consumer[k].e \in Events /\ consumer[k].c \in Copies
  BY ConsumerType
<1>2. Message(k) \in MsgRows
  BY <1>1 DEF TypeOK, MsgRows, Message
<1>3. SUFFICES ASSUME NEW m \in MsgRows, Put(k, m)
               PROVE  /\ msg' \in [Events -> [Copies -> MsgRows]]
                      /\ msg'[consumer[k].e][consumer[k].c] = m
                      /\ \A f \in Events, d \in Copies :
                           f # consumer[k].e \/ d # consumer[k].c => msg'[f][d] = msg[f][d]
  BY <1>2
<1>4. PICK e \in Events, c \in Copies : e = consumer[k].e /\ c = consumer[k].c
  BY <1>1
<1>5. msg' = [msg EXCEPT ![e][c] = m]
  BY <1>3, <1>4 DEF Put
<1>6. /\ msg' \in [Events -> [Copies -> MsgRows]]
      /\ msg'[e][c] = m
      /\ \A f \in Events, d \in Copies : f # e \/ d # c => msg'[f][d] = msg[f][d]
  BY <1>3, <1>5, OneMessage, Zenon
<1> QED
  BY <1>4, <1>6

\* A retried message is queued or dead, within the retry budget.
LEMMA RetriedMessage ==
  ASSUME TypeOK, NEW k \in Consumers, RetryMessage(k)
  PROVE  /\ msg' \in [Events -> [Copies -> MsgRows]]
         /\ msg'[consumer[k].e][consumer[k].c].at \in {"queued", "dead"}
         /\ \A f \in Events, d \in Copies :
              f # consumer[k].e \/ d # consumer[k].c => msg'[f][d] = msg[f][d]
<1> DEFINE m == IF Message(k).tries < MaxRetries
                  THEN [at |-> "queued", tries |-> Message(k).tries + 1]
                  ELSE [at |-> "dead", tries |-> Message(k).tries]
<1>1. Message(k).tries \in 0..MaxRetries
  BY PutMessage DEF MsgRows
<1>2. m \in MsgRows /\ m.at \in {"queued", "dead"}
  BY <1>1, PipelineConstants DEF MsgRows
<1>3. Put(k, m)
  BY DEF RetryMessage
<1> HIDE DEF m
<1> QED
  BY <1>2, <1>3, PutMessage

\* An acknowledged message is acknowledged, and the others stay as they are.
LEMMA AckedMessage ==
  ASSUME TypeOK, NEW k \in Consumers, AckMessage(k)
  PROVE  /\ msg' \in [Events -> [Copies -> MsgRows]]
         /\ \A f \in Events, d \in Copies :
              f # consumer[k].e \/ d # consumer[k].c => msg'[f][d] = msg[f][d]
<1> DEFINE m == [Message(k) EXCEPT !.at = "acked"]
<1>1. m \in MsgRows
  BY PutMessage DEF MsgRows
<1>2. Put(k, m)
  BY DEF AckMessage
<1> HIDE DEF m
<1> QED
  BY <1>1, <1>2, PutMessage

\* A nonempty set of copies has a least one.
LEMMA LeastCopy ==
  ASSUME NEW S \in SUBSET (1..MaxCopies), S # {}
  PROVE  \E c \in S : \A d \in S : c <= d
<1>1. S \subseteq Nat
  BY PipelineConstants
<1>2. PICK c \in S : \A d \in S : ~ (<<d, c>> \in OpToRel(<, Nat))
  BY <1>1, WFMin, NatLessThanWellFounded
<1>3. \A d \in S : ~ (d < c)
  BY <1>1, <1>2 DEF OpToRel
<1> QED
  BY <1>1, <1>3

\* Go and Finish change one consumer.
LEMMA OneConsumer ==
  ASSUME TypeOK, NEW k \in Consumers
  PROVE  /\ Finish(k) => /\ consumer' \in [Consumers -> ConsumerRows]
                         /\ consumer'[k].pc = "idle"
                         /\ \A j \in Consumers : j # k => consumer'[j] = consumer[j]
         /\ \A pc \in Pcs : Go(k, pc) =>
              /\ consumer' \in [Consumers -> ConsumerRows]
              /\ consumer'[k].pc = pc /\ consumer'[k].e = consumer[k].e /\ consumer'[k].c = consumer[k].c
              /\ \A j \in Consumers : j # k => consumer'[j] = consumer[j]
<1>1. consumer \in [Consumers -> ConsumerRows]
  BY DEF TypeOK, ConsumerRows
<1>2. ASSUME Finish(k)
      PROVE  /\ consumer' \in [Consumers -> ConsumerRows]
             /\ consumer'[k].pc = "idle"
             /\ \A j \in Consumers : j # k => consumer'[j] = consumer[j]
  BY <1>1, <1>2, ConsumerType DEF Finish
<1>3. ASSUME NEW pc \in Pcs, Go(k, pc)
      PROVE  /\ consumer' \in [Consumers -> ConsumerRows]
             /\ consumer'[k].pc = pc /\ consumer'[k].e = consumer[k].e /\ consumer'[k].c = consumer[k].c
             /\ \A j \in Consumers : j # k => consumer'[j] = consumer[j]
  BY <1>1, <1>3 DEF Go, ConsumerRows
<1> QED
  BY <1>2, <1>3

-----------------------------------------------------------------------------
(* One lemma per action, or per group of actions that write the same state.*)

LEMMA InitInv == Init => IndInv
<1> SUFFICES ASSUME Init PROVE IndInv
  OBVIOUS
<1>1. TypeOK
  <2>1. consumer \in [Consumers -> ConsumerRows]
    BY ConsumerType DEF Init
  <2>2. NoMessage \in MsgRows
    BY PipelineConstants DEF NoMessage, MsgRows
  <2>3. msg \in [Events -> [Copies -> MsgRows]]
    BY <2>2 DEF Init
  <2> QED
    BY <2>1, <2>3 DEF Init, TypeOK, ConsumerRows, MsgRows
<1>2. \A k \in Consumers : consumer[k].pc = "idle"
  BY ConsumerType DEF Init
<1>3. RelayInv /\ HoldInv /\ HandledInv /\ SentInv /\ CoverInv /\ ClaimInv
  BY <1>2 DEF Init, RelayInv, HoldInv, HandledInv, SentInv, CoverInv, ClaimInv, Sent, Reading, AtWork, Running
<1> QED
  BY <1>1, <1>3 DEF IndInv

\* Steps of requests, relays and clocks that send nothing.
LEMMA OutboxStep ==
  ASSUME IndInv, UNCHANGED <<msg, inbox, consumer, handled, overran>>,
         TypeOK', RelayInv', \A e \in Events : Sent(e)' => Sent(e)
  PROVE  IndInv'
<1>1. HoldInv' /\ HandledInv' /\ CoverInv' /\ ClaimInv'
  BY DEF IndInv, HoldInv, HandledInv, CoverInv, ClaimInv, Message, Live, Reading
<1>2. SentInv'
  BY DEF IndInv, SentInv, Live
<1> QED
  BY <1>1, <1>2 DEF IndInv

LEMMA WriteEventStep ==
  ASSUME IndInv, NEW e \in Events, WriteEvent(e)
  PROVE  IndInv'
<1>1. TypeOK' /\ RelayInv'
  BY DEF IndInv, TypeOK, RelayInv, WriteEvent, relay
<1>2. \A f \in Events : Sent(f)' => Sent(f)
  BY DEF WriteEvent, Sent, relay
<1> QED
  BY <1>1, <1>2, OutboxStep DEF WriteEvent

LEMMA AttemptAgesStep ==
  ASSUME IndInv, NEW e \in Events, AttemptAges(e)
  PROVE  IndInv'
<1>1. TypeOK' /\ RelayInv'
  BY DEF IndInv, TypeOK, RelayInv, AttemptAges, relay
<1>2. \A f \in Events : Sent(f)' => Sent(f)
  BY DEF AttemptAges, Sent, relay
<1> QED
  BY <1>1, <1>2, OutboxStep DEF AttemptAges

LEMMA RelayClaimStep ==
  ASSUME IndInv, NEW r \in Relays, RelayClaim(r)
  PROVE  IndInv'
<1>1. PICK batch \in SUBSET Claimable :
        /\ attempted' = [e \in Events |-> IF e \in batch THEN "recent" ELSE attempted[e]]
        /\ todo' = [todo EXCEPT ![r] = batch]
  BY DEF RelayClaim
<1>2. batch \subseteq written /\ batch \subseteq Events
  BY DEF Claimable, IndInv, TypeOK
<1>3. TypeOK'
  BY <1>1, <1>2 DEF IndInv, TypeOK, RelayClaim
<1>4. RelayInv'
  BY <1>1, <1>2 DEF IndInv, TypeOK, RelayInv, RelayClaim
<1>5. \A e \in Events : Sent(e)' => Sent(e)
  BY DEF RelayClaim, Sent
<1> QED
  BY <1>3, <1>4, <1>5, OutboxStep DEF RelayClaim

LEMMA RelaySkipStep ==
  ASSUME IndInv, NEW r \in Relays, RelaySkip(r)
  PROVE  IndInv'
<1>1. PICK e \in todo[r] \cap unrouted : todo' = [todo EXCEPT ![r] = @ \ {e}]
  BY DEF RelaySkip
<1>2. TypeOK' /\ RelayInv'
  BY <1>1 DEF IndInv, TypeOK, RelayInv, RelaySkip, outbox
<1>3. \A f \in Events : Sent(f)' => Sent(f)
  BY DEF RelaySkip, Sent, outbox
<1> QED
  BY <1>2, <1>3, OutboxStep DEF RelaySkip

LEMMA RelayMarkStep ==
  ASSUME IndInv, NEW r \in Relays, RelayMark(r)
  PROVE  IndInv'
<1>1. \A q \in Relays : sent'[q] \subseteq sent[q]
  BY DEF IndInv, TypeOK, RelayMark
<1>2. TypeOK' /\ RelayInv'
  BY <1>1 DEF IndInv, TypeOK, RelayInv, RelayMark
<1>3. \A f \in Events : Sent(f)' => Sent(f)
  BY <1>1 DEF RelayMark, Sent
<1> QED
  BY <1>2, <1>3, OutboxStep DEF RelayMark

\* A relay that fails or dies forgets its batch.
LEMMA RelayStopsStep ==
  ASSUME IndInv, NEW r \in Relays, RelayFails(r) \/ RelayDies(r)
  PROVE  IndInv'
<1>1. todo' = [todo EXCEPT ![r] = {}] /\ sent' = [sent EXCEPT ![r] = {}]
  BY DEF RelayFails, RelayDies
<1>2. UNCHANGED <<unrouted, written, dispatched, msg, inbox, consumer, handled, overran>>
  BY DEF RelayFails, RelayDies, outbox
<1>3. attempted' \in [Events -> {"never", "recent", "old"}]
  BY DEF RelayFails, RelayDies, outbox, IndInv, TypeOK
<1>4. \A q \in Relays : sent'[q] \subseteq sent[q] /\ todo'[q] \subseteq todo[q]
  BY <1>1 DEF IndInv, TypeOK
<1>5. TypeOK'
  BY <1>1, <1>2, <1>3 DEF IndInv, TypeOK
<1>6. RelayInv'
  BY <1>2, <1>4 DEF IndInv, RelayInv
<1>7. \A f \in Events : Sent(f)' => Sent(f)
  BY <1>2, <1>4 DEF Sent
<1> QED
  BY <1>2, <1>5, <1>6, <1>7, OutboxStep

\* The message goes where no message was, so no consumer holds it.
LEMMA RelaySendStep ==
  ASSUME IndInv, NEW r \in Relays, RelaySend(r)
  PROVE  IndInv'
<1> USE DEF IndInv
<1>1. PICK e \in todo[r] \ unrouted :
        /\ FreeCopies(e) # {}
        /\ LET c == CHOOSE c \in FreeCopies(e) : \A d \in FreeCopies(e) : c <= d
           IN  msg' = [msg EXCEPT ![e][c] = [at |-> "queued", tries |-> 0]]
        /\ todo' = [todo EXCEPT ![r] = @ \ {e}]
        /\ sent' = [sent EXCEPT ![r] = {e}]
  BY DEF RelaySend
<1>m. PICK m \in MsgRows : m = [at |-> "queued", tries |-> 0]
  <2>1. 0 \in 0..MaxRetries
    BY PipelineConstants
  <2> QED
    BY <2>1 DEF MsgRows
<1>2. e \in written /\ e \in Events
  BY DEF RelayInv, TypeOK
<1>3. PICK c \in FreeCopies(e) : msg' = [msg EXCEPT ![e][c] = m]
  <2>1. FreeCopies(e) \subseteq 1..MaxCopies /\ FreeCopies(e) # {}
    BY <1>1 DEF FreeCopies, Copies
  <2>2. \E c \in FreeCopies(e) : \A d \in FreeCopies(e) : c <= d
    BY <2>1, LeastCopy
  <2> QED
    BY <1>1, <1>m, <2>2
<1>4. c \in Copies /\ msg[e][c] = NoMessage
  BY DEF FreeCopies
<1> HIDE DEF IndInv
<1>5. /\ msg' \in [Events -> [Copies -> MsgRows]]
      /\ msg'[e][c] = m
      /\ \A f \in Events, d \in Copies : f # e \/ d # c => msg'[f][d] = msg[f][d]
  <2>1. TypeOK
    BY DEF IndInv
  <2>2. e \in Events /\ c \in Copies
    BY <1>2, <1>4
  <2> QED
    BY <1>3, <2>1, <2>2, OneMessage, Zenon
<1> USE DEF IndInv
<1>6. TypeOK'
  <2>1. todo' \in [Relays -> SUBSET Events] /\ sent' \in [Relays -> SUBSET Events]
    BY <1>1, <1>2 DEF TypeOK
  <2>2. UNCHANGED <<outbox, inbox, consumer, handled, overran>>
    BY DEF RelaySend
  <2> QED
    BY <1>5, <2>1, <2>2 DEF outbox, TypeOK, MsgRows
<1>7. RelayInv'
  BY <1>1, <1>2 DEF RelaySend, outbox, RelayInv, TypeOK
<1>8. msg[e][c].at = "none" /\ m.at = "queued"
  BY <1>4, <1>m DEF NoMessage
<1>9. \A f \in Events, d \in Copies : Live(f, d) => Live(f, d)'
  BY <1>5, <1>8 DEF Live
<1>10. HoldInv'
  BY <1>2, <1>4, <1>5, <1>8, ConsumerType DEF HoldInv, Message, RelaySend
<1>11. HandledInv' /\ ClaimInv'
  BY DEF RelaySend, HandledInv, ClaimInv
<1>12. SentInv'
  <2>1. \A f \in Events : f # e /\ Sent(f)' => Sent(f)
    BY <1>1 DEF RelaySend, outbox, Sent, TypeOK
  <2>2. Live(e, c)'
    BY <1>5, <1>8 DEF Live
  <2>3. handled' = handled
    BY DEF RelaySend
  <2> QED
    BY <1>4, <1>9, <2>1, <2>2, <2>3 DEF SentInv
<1>13. CoverInv'
  BY <1>9 DEF RelaySend, CoverInv, Reading
<1> QED
  BY <1>6, <1>7, <1>10, <1>11, <1>12, <1>13

LEMMA DeliverStep ==
  ASSUME IndInv, NEW k \in Consumers, NEW e \in Events, NEW c \in Copies, Deliver(k, e, c)
  PROVE  IndInv'
<1> USE DEF IndInv
<1>m. msg[e][c] \in MsgRows
  BY DEF TypeOK, MsgRows
<1>1. PICK m \in MsgRows : m = [msg[e][c] EXCEPT !.at = "held"] /\ msg' = [msg EXCEPT ![e][c] = m]
  BY <1>m DEF Deliver, MsgRows
<1>2. msg[e][c].at = "queued" /\ m.at = "held"
  BY <1>m, <1>1 DEF Deliver, MsgRows
<1> HIDE DEF IndInv
<1>3. /\ msg' \in [Events -> [Copies -> MsgRows]]
      /\ msg'[e][c] = m
      /\ \A f \in Events, d \in Copies : f # e \/ d # c => msg'[f][d] = msg[f][d]
  <2>1. TypeOK
    BY DEF IndInv
  <2>2. msg' = [msg EXCEPT ![e][c] = m]
    BY <1>1
  <2> QED
    BY <2>1, <2>2, OneMessage, Zenon
<1> USE DEF IndInv
<1>4. /\ consumer' \in [Consumers -> ConsumerRows]
      /\ consumer'[k].pc = "insert" /\ consumer'[k].e = e /\ consumer'[k].c = c
      /\ \A j \in Consumers : j # k => consumer'[j] = consumer[j]
  <2>1. [pc |-> "insert", e |-> e, c |-> c] \in ConsumerRows
    BY DEF ConsumerRows, Pcs
  <2> QED
    BY <2>1 DEF Deliver, TypeOK, ConsumerRows
<1>5. TypeOK' /\ RelayInv'
  BY <1>3, <1>4 DEF Deliver, outbox, relay, TypeOK, RelayInv, MsgRows, ConsumerRows
<1>6. \A f \in Events, d \in Copies : Live(f, d)' <=> Live(f, d)
  BY <1>2, <1>3 DEF Live
<1>7. \A j \in Consumers : consumer[j].pc # "idle" => consumer[j].e # e \/ consumer[j].c # c
  BY <1>2 DEF HoldInv, Message
<1>8. HoldInv'
  BY <1>2, <1>3, <1>4, <1>7, ConsumerType DEF HoldInv, Message
<1>9. HandledInv'
  BY <1>4 DEF Deliver, HandledInv
<1>10. ClaimInv'
  <2>1. \A j \in Consumers : consumer'[j].pc \in AtWork => j # k
    BY <1>4 DEF AtWork, Running
  <2> QED
    BY <1>4, <2>1 DEF Deliver, ClaimInv
<1>11. SentInv'
  BY <1>6 DEF Deliver, outbox, relay, SentInv, Sent
<1>12. CoverInv'
  <2>1. \A j \in Consumers, f \in Events : Reading(j, f)' => Reading(j, f) /\ consumer'[j] = consumer[j]
    BY <1>4 DEF Reading
  <2> QED
    BY <1>6, <2>1 DEF Deliver, CoverInv
<1> QED
  BY <1>5, <1>8, <1>9, <1>10, <1>11, <1>12

\* A claim that ages under a consumer at work is recorded as overran.
LEMMA ClaimAgesStep ==
  ASSUME IndInv, NEW e \in Events, ClaimAges(e)
  PROVE  IndInv'
<1> USE DEF IndInv
<1>1. inbox[e] = "fresh" /\ \A f \in Events : inbox'[f] = IF f = e THEN "stale" ELSE inbox[f]
  BY DEF ClaimAges, TypeOK
<1>2. overran \subseteq overran'
  BY DEF ClaimAges
<1>3. TypeOK' /\ RelayInv'
  BY DEF ClaimAges, outbox, relay, TypeOK, RelayInv
<1>4. HoldInv' /\ SentInv'
  BY DEF ClaimAges, outbox, relay, HoldInv, SentInv, Sent, Live, Message
<1>5. HandledInv' /\ CoverInv'
  BY <1>1 DEF ClaimAges, HandledInv, CoverInv, Reading, Live
<1>6. ClaimInv'
  <2>1. e \notin overran' => \A k \in Consumers : ~(consumer[k].e = e /\ consumer[k].pc \in AtWork)
    BY DEF ClaimAges
  <2> QED
    BY <1>1, <1>2, <2>1 DEF ClaimAges, ClaimInv
<1> QED
  BY <1>3, <1>4, <1>5, <1>6

\* A message given back: by a consumer that died, met an unexpired claim, or failed. Only the one
\* that failed deletes the claim row, and its own message is then queued or dead.
LEMMA RetryStep ==
  ASSUME IndInv, NEW k \in Consumers, ~At(k, "idle"), RetryMessage(k), Finish(k),
         inbox' = inbox \/ (At(k, "failed") /\ SetRow(k, "none")),
         UNCHANGED <<outbox, relay, handled, overran>>
  PROVE  IndInv'
<1> USE DEF IndInv
<1> DEFINE e == consumer[k].e
           c == consumer[k].c
<1>1. e \in Events /\ c \in Copies
  BY ConsumerType
<1>2. /\ msg' \in [Events -> [Copies -> MsgRows]]
      /\ msg'[e][c].at \in {"queued", "dead"}
      /\ \A f \in Events, d \in Copies : f # e \/ d # c => msg'[f][d] = msg[f][d]
  BY RetriedMessage
<1>3. /\ consumer' \in [Consumers -> ConsumerRows]
      /\ consumer'[k].pc = "idle"
      /\ \A j \in Consumers : j # k => consumer'[j] = consumer[j]
  BY OneConsumer
<1>4. /\ inbox' \in [Events -> {"none", "fresh", "stale", "completed"}]
      /\ \A f \in Events : inbox'[f] = inbox[f] \/ (f = e /\ inbox'[f] = "none" /\ At(k, "failed"))
  BY DEF SetRow, TypeOK
<1>5. TypeOK' /\ RelayInv'
  BY <1>2, <1>3, <1>4 DEF outbox, relay, TypeOK, RelayInv, MsgRows, ConsumerRows
<1>6. /\ \A f \in Events, d \in Copies : Live(f, d) => Live(f, d)'
      /\ msg'[e][c].at \in {"queued", "held", "dead"}
  BY <1>2 DEF Live
<1>7. \A j \in Consumers : j # k /\ consumer[j].pc # "idle" => consumer[j].e # e \/ consumer[j].c # c
  BY DEF HoldInv, At
<1>8. HoldInv'
  <2>1. ASSUME NEW j \in Consumers, consumer'[j].pc # "idle"
        PROVE  /\ j # k /\ consumer'[j] = consumer[j]
               /\ msg'[consumer[j].e][consumer[j].c] = msg[consumer[j].e][consumer[j].c]
    BY <1>2, <1>3, <1>7, <2>1, ConsumerType
  <2> QED
    BY <2>1 DEF HoldInv, Message
<1>9. HandledInv'
  BY <1>3, <1>4 DEF HandledInv
<1>10. SentInv'
  BY <1>6 DEF outbox, relay, SentInv, Sent
<1>11. CoverInv'
  <2> SUFFICES ASSUME NEW f \in Events \ handled, inbox'[f] = "none",
                      NEW j \in Consumers, Reading(j, f)'
               PROVE  \E d \in Copies : Live(f, d)' /\ \A i \in Consumers : Reading(i, f)' => consumer'[i].c # d
    BY DEF CoverInv
  <2>1. \A i \in Consumers : Reading(i, f)' => i # k /\ Reading(i, f) /\ consumer'[i] = consumer[i]
    BY <1>3 DEF Reading
  <2>2. CASE f = e
    <3>1. PICK d \in Copies : d = c
      BY <1>1
    <3>2. Live(f, d)'
      BY <1>6, <2>2, <3>1 DEF Live
    <3>3. \A i \in Consumers : Reading(i, f)' => consumer'[i].c # d
      BY <1>7, <2>1, <2>2, <3>1 DEF Reading
    <3> QED
      BY <3>2, <3>3
  <2>3. CASE f # e
    <3>1. inbox[f] = "none" /\ Reading(j, f)
      BY <1>4, <2>1, <2>3
    <3> QED
      BY <1>6, <2>1, <3>1 DEF CoverInv
  <2> QED
    BY <2>2, <2>3
<1>12. ClaimInv'
  <2>1. \A j \in Consumers : consumer'[j].pc \in AtWork => j # k /\ consumer'[j] = consumer[j]
    BY <1>3 DEF AtWork, Running
  <2>2. At(k, "failed") => consumer[k].pc \in AtWork
    BY DEF At, AtWork
  <2>3. \A j \in Consumers : At(k, "failed") /\ e \notin overran /\ consumer[j].e = e /\ consumer[j].pc \in AtWork => j = k
    BY <1>1, <2>2 DEF ClaimInv
  <2> QED
    BY <1>4, <2>1, <2>3 DEF ClaimInv
<1> QED
  BY <1>5, <1>8, <1>9, <1>10, <1>11, <1>12

\* An acknowledged message: its event is handled, or its claim row is gone and another message
\* is left for the event.
LEMMA AckStep ==
  ASSUME IndInv, NEW k \in Consumers, ~At(k, "idle"), AckMessage(k), Finish(k),
         consumer[k].e \in handled \/ (At(k, "read") /\ Row(k) = "none"),
         UNCHANGED <<outbox, relay, inbox, handled, overran>>
  PROVE  IndInv'
<1> USE DEF IndInv
<1> DEFINE e == consumer[k].e
           c == consumer[k].c
<1>1. e \in Events /\ c \in Copies
  BY ConsumerType
<1>2. /\ msg' \in [Events -> [Copies -> MsgRows]]
      /\ \A f \in Events, d \in Copies : f # e \/ d # c => msg'[f][d] = msg[f][d]
  BY AckedMessage
<1>3. /\ consumer' \in [Consumers -> ConsumerRows]
      /\ consumer'[k].pc = "idle"
      /\ \A j \in Consumers : j # k => consumer'[j] = consumer[j]
  BY OneConsumer
<1>4. TypeOK' /\ RelayInv'
  BY <1>2, <1>3 DEF outbox, relay, TypeOK, RelayInv, MsgRows, ConsumerRows
<1>5. \A f \in Events, d \in Copies : (f # e \/ d # c) /\ Live(f, d) => Live(f, d)'
  BY <1>2 DEF Live
<1>6. HoldInv'
  <2>1. ASSUME NEW j \in Consumers, consumer'[j].pc # "idle"
        PROVE  /\ j # k /\ consumer'[j] = consumer[j]
               /\ msg'[consumer[j].e][consumer[j].c] = msg[consumer[j].e][consumer[j].c]
    <3>1. j # k /\ consumer'[j] = consumer[j]
      BY <1>3, <2>1
    <3>2. consumer[j].e # e \/ consumer[j].c # c
      BY <2>1, <3>1 DEF HoldInv, At
    <3> QED
      BY <1>2, <3>1, <3>2, ConsumerType
  <2> QED
    BY <2>1 DEF HoldInv, Message
<1>7. HandledInv'
  BY <1>3 DEF HandledInv
<1>8. ClaimInv'
  <2>1. \A j \in Consumers : consumer'[j].pc \in AtWork => j # k /\ consumer'[j] = consumer[j]
    BY <1>3 DEF AtWork, Running
  <2> QED
    BY <2>1 DEF ClaimInv
<1>9. e \in handled \/ \E d \in Copies :
        /\ d # c /\ Live(e, d)
        /\ \A i \in Consumers : Reading(i, e) => consumer[i].c # d
  BY <1>1 DEF CoverInv, Reading, At, Row
<1>10. SentInv'
  <2> SUFFICES ASSUME NEW f \in Events, Sent(f), f \notin handled
               PROVE  \E d \in Copies : Live(f, d)'
    BY DEF SentInv, Sent, outbox, relay
  <2>1. CASE f = e
    BY <1>5, <1>9, <2>1
  <2>2. CASE f # e
    BY <1>5, <2>2 DEF SentInv
  <2> QED
    BY <2>1, <2>2
<1>11. CoverInv'
  <2> SUFFICES ASSUME NEW f \in Events \ handled, inbox[f] = "none",
                      NEW j \in Consumers, Reading(j, f)'
               PROVE  \E d \in Copies : Live(f, d)' /\ \A i \in Consumers : Reading(i, f)' => consumer'[i].c # d
    BY DEF CoverInv
  <2>1. \A i \in Consumers : Reading(i, f)' => Reading(i, f) /\ consumer'[i] = consumer[i]
    BY <1>3 DEF Reading
  <2>2. CASE f = e
    BY <1>5, <1>9, <2>1, <2>2
  <2>3. CASE f # e
    BY <1>5, <2>1, <2>3 DEF CoverInv
  <2> QED
    BY <2>2, <2>3
<1> QED
  BY <1>4, <1>6, <1>7, <1>8, <1>10, <1>11

\* A consumer that goes on with its message. It becomes a reader only where there is a claim row,
\* and no row disappears.
LEMMA GoStep ==
  ASSUME IndInv, NEW k \in Consumers, ~At(k, "idle"), NEW pc \in Pcs, pc # "idle", Go(k, pc),
         pc = "read" => Row(k) # "none" /\ inbox' = inbox,
         inbox' \in [Events -> {"none", "fresh", "stale", "completed"}],
         \A e \in Events : inbox'[e] = "none" => inbox[e] = "none",
         handled \subseteq handled', handled' \subseteq Events,
         UNCHANGED <<outbox, relay, msg, overran>>,
         HandledInv', ClaimInv'
  PROVE  IndInv'
<1> USE DEF IndInv
<1>1. /\ consumer' \in [Consumers -> ConsumerRows]
      /\ consumer'[k].pc = pc /\ consumer'[k].e = consumer[k].e /\ consumer'[k].c = consumer[k].c
      /\ \A j \in Consumers : j # k => consumer'[j] = consumer[j]
  BY OneConsumer
<1>2. TypeOK' /\ RelayInv'
  BY <1>1 DEF outbox, relay, TypeOK, RelayInv, ConsumerRows
<1>3. HoldInv'
  BY <1>1 DEF HoldInv, Message, At
<1>4. SentInv'
  BY DEF SentInv, Sent, Live, outbox, relay
<1>5. CoverInv'
  <2> SUFFICES ASSUME NEW f \in Events \ handled, inbox'[f] = "none",
                      NEW j \in Consumers, Reading(j, f)'
               PROVE  \E d \in Copies : Live(f, d)' /\ \A i \in Consumers : Reading(i, f)' => consumer'[i].c # d
    BY DEF CoverInv
  <2>1. inbox[f] = "none"
    OBVIOUS
  <2>2. \A i \in Consumers : Reading(i, f)' => Reading(i, f) /\ consumer'[i].c = consumer[i].c
    BY <1>1, <2>1 DEF Reading, Row
  <2> QED
    BY <2>1, <2>2 DEF CoverInv, Live
<1> QED
  BY <1>2, <1>3, <1>4, <1>5

LEMMA InsertClaimStep ==
  ASSUME IndInv, NEW k \in Consumers, InsertClaim(k)
  PROVE  IndInv'
<1> USE DEF IndInv
<1>1. consumer[k].e \in Events /\ consumer[k].pc = "insert"
  BY ConsumerType DEF InsertClaim, At
<1>2. CASE Row(k) = "none"
  <2>1. SetRow(k, "fresh") /\ Go(k, "handle")
    BY <1>2 DEF InsertClaim
  <2>2. \A e \in Events : inbox'[e] = IF e = consumer[k].e THEN "fresh" ELSE inbox[e]
    BY <2>1 DEF SetRow, TypeOK
  <2>3. "handle" \in Pcs
    BY DEF Pcs, AtWork, Running
  <2>4. /\ consumer'[k].pc = "handle" /\ consumer'[k].e = consumer[k].e
        /\ \A j \in Consumers : j # k => consumer'[j] = consumer[j]
    BY <2>1, <2>3, OneConsumer
  <2>5. HandledInv'
    BY <2>2, <2>4 DEF HandledInv, InsertClaim
  <2>6. consumer[k].e \notin overran =>
          \A j \in Consumers : ~ (consumer[j].e = consumer[k].e /\ consumer[j].pc \in AtWork)
    BY <1>1, <1>2 DEF ClaimInv, Row
  <2>7. ClaimInv'
    BY <1>1, <2>2, <2>4, <2>6 DEF ClaimInv, InsertClaim
  <2>8. inbox' \in [Events -> {"none", "fresh", "stale", "completed"}]
    BY <2>1 DEF SetRow, TypeOK
  <2> QED
    BY <1>1, <2>1, <2>2, <2>3, <2>5, <2>7, <2>8, GoStep DEF InsertClaim, At, TypeOK
<1>3. CASE Row(k) # "none"
  <2>1. inbox' = inbox /\ Go(k, "read")
    BY <1>3 DEF InsertClaim
  <2>2. "read" \in Pcs
    BY DEF Pcs
  <2>3. /\ consumer'[k].pc = "read" /\ consumer'[k].e = consumer[k].e
        /\ \A j \in Consumers : j # k => consumer'[j] = consumer[j]
    BY <2>1, <2>2, OneConsumer
  <2>4. HandledInv'
    BY <2>1, <2>3 DEF HandledInv, InsertClaim
  <2>5. ClaimInv'
    BY <2>1, <2>3 DEF ClaimInv, InsertClaim, AtWork, Running
  <2> QED
    BY <1>1, <1>3, <2>1, <2>2, <2>4, <2>5, GoStep DEF InsertClaim, At, TypeOK
<1> QED
  BY <1>2, <1>3

LEMMA ReadClaimStep ==
  ASSUME IndInv, NEW k \in Consumers, ReadClaim(k)
  PROVE  IndInv'
<1> USE DEF IndInv
<1>1. consumer[k].e \in Events /\ consumer[k].pc = "read"
  BY ConsumerType DEF ReadClaim, At
<1>2. CASE Row(k) \in {"none", "completed"}
  <2>1. consumer[k].e \in handled \/ (At(k, "read") /\ Row(k) = "none")
    BY <1>1, <1>2 DEF HandledInv, Row, At
  <2> QED
    BY <1>1, <1>2, <2>1, AckStep DEF ReadClaim, At
<1>3. CASE Row(k) \notin {"none", "completed"}
  <2>1. UNCHANGED <<outbox, relay, msg, inbox, handled, overran>> /\ Go(k, "reclaim")
    BY <1>3 DEF ReadClaim
  <2>2. "reclaim" \in Pcs
    BY DEF Pcs
  <2>3. /\ consumer'[k].pc = "reclaim" /\ consumer'[k].e = consumer[k].e
        /\ \A j \in Consumers : j # k => consumer'[j] = consumer[j]
    BY <2>1, <2>2, OneConsumer
  <2>4. HandledInv'
    BY <2>1, <2>3 DEF HandledInv
  <2>5. ClaimInv'
    BY <2>1, <2>3 DEF ClaimInv, AtWork, Running
  <2> QED
    BY <1>1, <2>1, <2>2, <2>4, <2>5, GoStep DEF At, TypeOK
<1> QED
  BY <1>2, <1>3

LEMMA ReclaimStep ==
  ASSUME IndInv, NEW k \in Consumers, Reclaim(k)
  PROVE  IndInv'
<1> USE DEF IndInv
<1>1. consumer[k].e \in Events /\ consumer[k].pc = "reclaim"
  BY ConsumerType DEF Reclaim, At
<1>2. CASE Row(k) = "stale"
  <2>1. SetRow(k, "fresh") /\ Go(k, "handle") /\ UNCHANGED <<outbox, relay, msg, handled, overran>>
    BY <1>2 DEF Reclaim
  <2>2. \A e \in Events : inbox'[e] = IF e = consumer[k].e THEN "fresh" ELSE inbox[e]
    BY <2>1 DEF SetRow, TypeOK
  <2>3. "handle" \in Pcs
    BY DEF Pcs, AtWork, Running
  <2>4. /\ consumer'[k].pc = "handle" /\ consumer'[k].e = consumer[k].e
        /\ \A j \in Consumers : j # k => consumer'[j] = consumer[j]
    BY <2>1, <2>3, OneConsumer
  <2>5. HandledInv'
    BY <2>1, <2>2, <2>4 DEF HandledInv
  <2>6. consumer[k].e \notin overran =>
          \A j \in Consumers : ~ (consumer[j].e = consumer[k].e /\ consumer[j].pc \in AtWork)
    BY <1>1, <1>2 DEF ClaimInv, Row
  <2>7. ClaimInv'
    BY <1>1, <2>1, <2>2, <2>4, <2>6 DEF ClaimInv
  <2>8. inbox' \in [Events -> {"none", "fresh", "stale", "completed"}]
    BY <2>1 DEF SetRow, TypeOK
  <2> QED
    BY <1>1, <2>1, <2>2, <2>3, <2>5, <2>7, <2>8, GoStep DEF At, TypeOK
<1>3. CASE Row(k) # "stale"
  BY <1>1, <1>3, RetryStep DEF Reclaim, At
<1> QED
  BY <1>2, <1>3

LEMMA HandleStep ==
  ASSUME IndInv, NEW k \in Consumers, Handle(k)
  PROVE  IndInv'
<1> USE DEF IndInv
<1>1. consumer[k].e \in Events /\ consumer[k].pc = "handle"
  BY ConsumerType DEF Handle, At
<1>2. "complete" \in Pcs
  BY DEF Pcs, AtWork, Running
<1>3. /\ consumer'[k].pc = "complete" /\ consumer'[k].e = consumer[k].e
      /\ \A j \in Consumers : j # k => consumer'[j] = consumer[j]
  BY <1>2, OneConsumer DEF Handle
<1>4. HandledInv'
  BY <1>3 DEF HandledInv, Handle
<1>5. ClaimInv'
  <2>1. \A j \in Consumers : /\ consumer'[j].e = consumer[j].e
                             /\ consumer'[j].pc \in AtWork <=> consumer[j].pc \in AtWork
                             /\ consumer'[j].pc = "failed" <=> consumer[j].pc = "failed"
    BY <1>1, <1>3 DEF AtWork, Running
  <2> QED
    BY <2>1 DEF ClaimInv, Handle
<1> QED
  BY <1>1, <1>2, <1>4, <1>5, GoStep DEF Handle, At, TypeOK

\* The consumer goes to "ack" or "failed"; the claim row is left alone or becomes completed.
LEMMA EndOfWorkStep ==
  ASSUME IndInv, NEW k \in Consumers, Complete(k) \/ HandlingFails(k)
  PROVE  IndInv'
<1> USE DEF IndInv
<1> DEFINE e == consumer[k].e
<1>1. e \in Events /\ consumer[k].pc \in Running
  BY ConsumerType DEF Complete, HandlingFails, At, Running
<1>2. UNCHANGED <<outbox, relay, msg, handled, overran>>
  BY DEF Complete, HandlingFails
<1>3. PICK pc \in Pcs : pc \in {"ack", "failed"} /\ Go(k, pc) /\ (pc = "ack" <=> ~HandlingFails(k))
  <2>1. {"ack", "failed"} \subseteq Pcs
    BY DEF Pcs, AtWork
  <2>2. CASE HandlingFails(k)
    BY <2>1, <2>2 DEF HandlingFails
  <2>3. CASE ~HandlingFails(k)
    BY <2>1, <2>3 DEF Complete
  <2> QED
    BY <2>2, <2>3
<1>4. /\ consumer'[k].pc = pc /\ consumer'[k].e = consumer[k].e
      /\ \A j \in Consumers : j # k => consumer'[j] = consumer[j]
  BY <1>3, OneConsumer
<1>5. inbox' = inbox \/ (At(k, "complete") /\ Row(k) # "none" /\ SetRow(k, "completed"))
  BY DEF Complete, HandlingFails
<1>6. /\ inbox' \in [Events -> {"none", "fresh", "stale", "completed"}]
      /\ \A f \in Events : \/ inbox'[f] = inbox[f]
                           \/ f = e /\ inbox'[f] = "completed" /\ inbox[f] # "none" /\ At(k, "complete")
  BY <1>5 DEF SetRow, Row, TypeOK
<1>7. pc = "ack" => e \in handled
  BY <1>3 DEF Complete, HandledInv, At
<1>8. HandledInv'
  <2>1. At(k, "complete") => e \in handled
    BY DEF At, HandledInv
  <2> QED
    BY <1>2, <1>3, <1>4, <1>6, <1>7, <2>1 DEF HandledInv
<1>9. ClaimInv'
  <2> SUFFICES ASSUME NEW f \in Events \ overran
               PROVE  /\ \A j \in Consumers : consumer'[j].e = f /\ consumer'[j].pc \in AtWork =>
                           inbox'[f] = "fresh" \/ (inbox'[f] = "completed" /\ consumer'[j].pc = "failed")
                      /\ \A i, j \in Consumers :
                           /\ consumer'[i].e = f /\ consumer'[i].pc \in AtWork
                           /\ consumer'[j].e = f /\ consumer'[j].pc \in AtWork
                           => i = j
    BY <1>2 DEF ClaimInv
  <2>1. consumer[k].pc \in AtWork /\ consumer[k].pc # "failed"
    BY <1>1 DEF AtWork, Running
  <2>2. \A j \in Consumers : consumer'[j].pc \in AtWork =>
          consumer[j].pc \in AtWork /\ consumer'[j].e = consumer[j].e
    BY <1>4, <2>1
  <2>3. \A i, j \in Consumers :
          /\ consumer'[i].e = f /\ consumer'[i].pc \in AtWork
          /\ consumer'[j].e = f /\ consumer'[j].pc \in AtWork
          => i = j
    BY <2>2 DEF ClaimInv
  <2>4. ASSUME NEW j \in Consumers, consumer'[j].e = f, consumer'[j].pc \in AtWork
        PROVE  inbox'[f] = "fresh" \/ (inbox'[f] = "completed" /\ consumer'[j].pc = "failed")
    <3>1. CASE j = k
      <4>1. f = e /\ pc = "failed" /\ inbox[f] = "fresh"
        BY <1>3, <1>4, <2>1, <2>4, <3>1 DEF ClaimInv, AtWork, Running
      <4> QED
        BY <1>4, <1>6, <3>1, <4>1
    <3>2. CASE j # k
      <4>1. consumer'[j] = consumer[j] /\ f # e
        BY <1>4, <2>1, <2>4, <3>2 DEF ClaimInv
      <4> QED
        BY <1>6, <2>4, <4>1 DEF ClaimInv
    <3> QED
      BY <3>1, <3>2
  <2> QED
    BY <2>3, <2>4
<1>10. ~At(k, "idle") /\ pc # "idle" /\ pc # "read"
  BY <1>1, <1>3 DEF At, Running
<1>11. \A f \in Events : inbox'[f] = "none" => inbox[f] = "none"
  BY <1>6
<1> QED
  BY <1>2, <1>3, <1>6, <1>8, <1>9, <1>10, <1>11, GoStep DEF TypeOK

LEMMA AckActionStep ==
  ASSUME IndInv, NEW k \in Consumers, Ack(k)
  PROVE  IndInv'
<1>1. ~At(k, "idle") /\ consumer[k].e \in handled
  BY DEF IndInv, HandledInv, Ack, At
<1> QED
  BY <1>1, AckStep DEF Ack

LEMMA GiveBackStep ==
  ASSUME IndInv, NEW k \in Consumers, ReleaseClaim(k) \/ ConsumerDies(k)
  PROVE  IndInv'
<1>1. /\ ~At(k, "idle") /\ RetryMessage(k) /\ Finish(k)
      /\ inbox' = inbox \/ (At(k, "failed") /\ SetRow(k, "none"))
      /\ UNCHANGED <<outbox, relay, handled, overran>>
  BY DEF ReleaseClaim, ConsumerDies, At
<1> QED
  BY <1>1, RetryStep

-----------------------------------------------------------------------------
(* The theorems.                                                           *)

\* The inductive invariant holds in every reachable state of the pipeline.
THEOREM Invariance == Spec => []IndInv
<1>1. IndInv /\ [Next]_vars => IndInv'
  <2> SUFFICES ASSUME IndInv, [Next]_vars PROVE IndInv'
    OBVIOUS
  <2>1. CASE UNCHANGED vars
    BY <2>1 DEF vars, outbox, relay, IndInv, TypeOK, RelayInv, HoldInv, HandledInv, SentInv, CoverInv,
                ClaimInv, Message, Live, Reading, Sent
  <2>2. ASSUME NEW e \in Events, WriteEvent(e) \/ AttemptAges(e) \/ ClaimAges(e)
        PROVE  IndInv'
    BY <2>2, WriteEventStep, AttemptAgesStep, ClaimAgesStep
  <2>3. ASSUME NEW r \in Relays,
               \/ RelayClaim(r) \/ RelaySkip(r) \/ RelaySend(r) \/ RelayMark(r)
               \/ RelayFails(r) \/ RelayDies(r)
        PROVE  IndInv'
    BY <2>3, RelayClaimStep, RelaySkipStep, RelaySendStep, RelayMarkStep, RelayStopsStep
  <2>4. ASSUME NEW k \in Consumers, NEW e \in Events, NEW c \in Copies, Deliver(k, e, c)
        PROVE  IndInv'
    BY <2>4, DeliverStep
  <2>5. ASSUME NEW k \in Consumers, Consume(k) \/ ConsumerDies(k)
        PROVE  IndInv'
    BY <2>5, InsertClaimStep, ReadClaimStep, ReclaimStep, HandleStep, EndOfWorkStep, AckActionStep,
       GiveBackStep DEF Consume
  <2> QED
    BY <2>1, <2>2, <2>3, <2>4, <2>5 DEF Next
<1> QED
  BY <1>1, InitInv, PTL DEF Spec

\* Types are kept, and no message is retried beyond the queue's max_retries.
THEOREM TypeCorrect == Spec => []TypeOK
  BY Invariance, PTL DEF IndInv

\* A dispatched event that no handler has run for still has a message that is queued, held by a
\* consumer or dead: processMessage never acknowledges the last one early.
THEOREM NoLoss == Spec => []NoSilentLoss
<1>1. IndInv => NoSilentLoss
  BY DEF IndInv, TypeOK, SentInv, Sent, NoSilentLoss, Somewhere, Live
<1> QED
  BY <1>1, Invariance, PTL

\* A set without two different elements has at most one.
LEMMA AtMostOne ==
  ASSUME NEW S, \A j, k \in S : j = k
  PROVE  Cardinality(S) <= 1
<1>1. CASE S = {}
  BY <1>1, FS_EmptySet
<1>2. CASE S # {}
  <2>1. PICK k \in S : S = {k}
    BY <1>2
  <2> QED
    BY <2>1, FS_Singleton
<1> QED
  BY <1>1, <1>2

\* The handlers of an event run one at a time, and not again once the event is completed, while
\* no consumer outlives the five minutes of its claim.
THEOREM OneAtATime == Spec => []HandledOneAtATime
<1>1. IndInv => HandledOneAtATime
  <2> SUFFICES ASSUME IndInv, NEW e \in Events \ overran
               PROVE  Cardinality(Workers(e)) <= 1 /\ (inbox[e] = "completed" => Workers(e) = {})
    BY DEF HandledOneAtATime
  <2>1. \A k \in Workers(e) : /\ k \in Consumers /\ consumer[k].e = e /\ consumer[k].pc \in AtWork
                              /\ consumer[k].pc # "failed"
    BY DEF Workers, AtWork, Running
  <2>2. \A j, k \in Workers(e) : j = k
    BY <2>1 DEF IndInv, ClaimInv
  <2>3. inbox[e] = "completed" => Workers(e) = {}
    BY <2>1 DEF IndInv, ClaimInv
  <2> QED
    BY <2>2, <2>3, AtMostOne
<1> QED
  BY <1>1, Invariance, PTL

=============================================================================
