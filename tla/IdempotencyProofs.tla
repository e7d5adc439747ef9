------------------------- MODULE IdempotencyProofs -------------------------
(***************************************************************************)
(* Proofs about Idempotency for any number of keys, hashes and requests:   *)
(* IndInv is inductive, one case per statement of idempotentMutation, and  *)
(* the properties follow from it.                                          *)
(***************************************************************************)
EXTENDS Idempotency, TLAPS

\* A request is well typed: what TypeOK says of a single one.
LEMMA RequestType ==
  ASSUME TypeOK, NEW r \in Requests
  PROVE  /\ Key(r) \in Keys /\ req[r].hash \in Hashes /\ req[r].answer \in Answers
         /\ req[r] \in [pc: Pcs, key: Keys, hash: Hashes, answer: Answers]
  BY DEF TypeOK, Key

\* Moving a request on changes its position and nothing else of any request.
LEMMA GoEffect ==
  ASSUME TypeOK, NEW r \in Requests, NEW pc \in Pcs, Go(r, pc)
  PROVE  /\ req' \in [Requests -> [pc: Pcs, key: Keys, hash: Hashes, answer: Answers]]
         /\ \A q \in Requests : /\ req'[q].key = req[q].key /\ req'[q].hash = req[q].hash
                                /\ req'[q].answer = req[q].answer
                                /\ req'[q].pc = IF q = r THEN pc ELSE req[q].pc
  BY DEF TypeOK, Go

\* Every statement keeps the types, and a row stays completed exactly while it has an answer.
LEMMA TypeStep == IndInv /\ [Next]_vars => TypeOK'
<1> SUFFICES ASSUME IndInv, [Next]_vars PROVE TypeOK'
  OBVIOUS
<1> USE DEF IndInv
<1>1. ASSUME NEW r \in Requests, NEW k \in Keys, NEW h \in Hashes, Send(r, k, h) PROVE TypeOK'
  BY <1>1 DEF Send, row, TypeOK, Pcs, Answers
<1>2. ASSUME NEW r \in Requests, Claim(r) PROVE TypeOK'
  <2>1. req' \in [Requests -> [pc: Pcs, key: Keys, hash: Hashes, answer: Answers]]
    BY <1>2, GoEffect DEF Claim, Pcs
  <2> QED
    BY <1>2, <2>1, RequestType DEF Claim, TypeOK, States
<1>3. ASSUME NEW r \in Requests, ReadRecord(r) PROVE TypeOK'
  <2>1. req' \in [Requests -> [pc: Pcs, key: Keys, hash: Hashes, answer: Answers]]
    BY <1>3, GoEffect DEF ReadRecord, Pcs
  <2>2. told' \subseteq [key: Keys, hash: Hashes, answer: Answers]
    BY <1>3, RequestType DEF ReadRecord, Tell, TypeOK
  <2> QED
    BY <1>3, <2>1, <2>2 DEF ReadRecord, TypeOK, row
<1>4. ASSUME NEW r \in Requests, QuarantineStale(r) \/ Quarantine(r) \/ Die(r) PROVE TypeOK'
  <2>1. req' \in [Requests -> [pc: Pcs, key: Keys, hash: Hashes, answer: Answers]]
    BY <1>4, GoEffect DEF QuarantineStale, Quarantine, Die, Pcs
  <2> QED
    BY <1>4, <2>1, RequestType DEF QuarantineStale, Quarantine, Die, TypeOK, States, row
<1>5. ASSUME NEW r \in Requests, NEW a \in {"ok", "refused"}, WorkAnswers(r, a) PROVE TypeOK'
  <2>1. effects' \in [Keys -> Nat]
    BY <1>5, RequestType DEF WorkAnswers, TypeOK
  <2>2. req' \in [Requests -> [pc: Pcs, key: Keys, hash: Hashes, answer: Answers]]
    BY <1>5, RequestType DEF WorkAnswers, TypeOK, Pcs, Answers
  <2> QED
    BY <1>5, <2>1, <2>2 DEF WorkAnswers, TypeOK, row
<1>6. ASSUME NEW r \in Requests, NEW b \in BOOLEAN, WorkThrows(r, b) PROVE TypeOK'
  <2>1. req' \in [Requests -> [pc: Pcs, key: Keys, hash: Hashes, answer: Answers]]
    BY <1>6, GoEffect DEF WorkThrows, Pcs
  <2>2. effects' \in [Keys -> Nat]
    BY <1>6, RequestType DEF WorkThrows, TypeOK
  <2> QED
    BY <1>6, <2>1, <2>2 DEF WorkThrows, TypeOK, row
<1>7. ASSUME NEW r \in Requests, Finalize(r) \/ FinalizeFails(r) PROVE TypeOK'
  <2>1. req' \in [Requests -> [pc: Pcs, key: Keys, hash: Hashes, answer: Answers]]
    BY <1>7, GoEffect DEF Finalize, FinalizeFails, Pcs
  <2>2. req[r].answer # "none"
    BY <1>7 DEF Finalize, FinalizeFails, WorkInv
  <2>3. told' \subseteq [key: Keys, hash: Hashes, answer: Answers]
    BY <1>7, RequestType DEF Finalize, FinalizeFails, Tell, TypeOK
  <2> QED
    BY <1>7, <2>1, <2>2, <2>3, RequestType DEF Finalize, FinalizeFails, TypeOK, States
<1>8. ASSUME NEW k \in Keys, Age(k) PROVE TypeOK'
  BY <1>8 DEF Age, TypeOK
<1>9. CASE UNCHANGED vars
  BY <1>9 DEF vars, row, TypeOK
<1> QED
  BY <1>1, <1>2, <1>3, <1>4, <1>5, <1>6, <1>7, <1>8, <1>9 DEF Next, RequestSteps

\* The rows and the effects stay in step with the requests, one case per statement.
LEMMA KeyStep ==
  IndInv /\ [Next]_vars => (EffectAtMostOnce /\ OneOwner /\ WorkInv /\ RowInv /\ ToldInv)'
<1> DEFINE Rest == EffectAtMostOnce /\ OneOwner /\ WorkInv /\ RowInv /\ ToldInv
<1> SUFFICES ASSUME IndInv, [Next]_vars PROVE Rest'
  OBVIOUS
<1> USE DEF IndInv
<1>0. TypeOK /\ \A q \in Requests : Key(q) \in Keys /\ Key(q) = req[q].key
  BY RequestType DEF Key
<1>1. ASSUME NEW r \in Requests, NEW k \in Keys, NEW h \in Hashes, Send(r, k, h) PROVE Rest'
  <2>1. \A q \in Requests : req'[q].pc = IF q = r THEN "claim" ELSE req[q].pc
    BY <1>1 DEF Send, TypeOK
  <2>2. \A q \in Requests : q # r => req'[q] = req[q]
    BY <1>1 DEF Send, TypeOK
  <2> QED
    BY <1>0, <1>1, <2>1, <2>2 DEF Send, row, EffectAtMostOnce, OneOwner, WorkInv, RowInv, ToldInv, Owning, At, Key
<1>2. ASSUME NEW r \in Requests, Claim(r) PROVE Rest'
  <2>1. CASE rec[Key(r)] = "none"
    <3>1. /\ rec' = [rec EXCEPT ![Key(r)] = "processing"]
          /\ owner' = [owner EXCEPT ![Key(r)] = req[r].hash]
          /\ Go(r, "work") /\ UNCHANGED <<stored, effects, told>>
      BY <1>2, <2>1 DEF Claim
    <3>2. \A q \in Requests : /\ req'[q].key = req[q].key /\ req'[q].hash = req[q].hash
                              /\ req'[q].answer = req[q].answer
                              /\ req'[q].pc = IF q = r THEN "work" ELSE req[q].pc
      BY <1>0, <3>1, GoEffect DEF Pcs
    <3>3. \A q \in Requests : Owning(q) => Key(q) # Key(r)
      BY <2>1 DEF OneOwner
    <3>4. ToldInv'
      BY <1>0, <2>1, <3>1 DEF ToldInv, TypeOK
    <3>5. OneOwner'
      BY <1>0, <3>1, <3>2, <3>3 DEF OneOwner, Owning, Key, TypeOK
    <3>6. WorkInv'
      BY <1>0, <2>1, <3>1, <3>2, <3>3 DEF WorkInv, RowInv, Owning, At, Key, TypeOK
    <3>7. EffectAtMostOnce' /\ RowInv'
      BY <1>0, <3>1 DEF EffectAtMostOnce, RowInv, TypeOK
    <3> QED
      BY <3>4, <3>5, <3>6, <3>7
  <2>2. CASE rec[Key(r)] # "none"
    <3>1. Go(r, "read") /\ UNCHANGED <<row, effects, told>>
      BY <1>2, <2>2 DEF Claim, row
    <3> QED
      BY <1>0, <3>1, GoEffect DEF row, Pcs, EffectAtMostOnce, OneOwner, WorkInv, RowInv, ToldInv, Owning, At, Key
  <2> QED
    BY <2>1, <2>2
<1>3. ASSUME NEW r \in Requests, ReadRecord(r) PROVE Rest'
  <2>1. \E pc \in {"done", "stale"} : Go(r, pc)
    BY <1>3 DEF ReadRecord
  <2>2. ToldInv'
    BY <1>0, <1>3 DEF ReadRecord, Tell, ToldInv, row
  <2> QED
    BY <1>0, <1>3, <2>1, <2>2, GoEffect
       DEF ReadRecord, row, Pcs, EffectAtMostOnce, OneOwner, WorkInv, RowInv, Owning, At, Key
<1>4. ASSUME NEW r \in Requests, QuarantineStale(r) \/ Quarantine(r) \/ Die(r) PROVE Rest'
  <2>1. Go(r, "done") /\ UNCHANGED <<owner, stored, effects, told>>
    BY <1>4 DEF QuarantineStale, Quarantine, Die, row
  <2>2. \A k \in Keys : /\ rec'[k] = rec[k] \/ (rec[k] = "processing" /\ rec'[k] = "outcome_unknown")
    BY <1>0, <1>4 DEF QuarantineStale, Quarantine, Die, row, TypeOK
  <2>3. \A q \in Requests : /\ req'[q].key = req[q].key /\ req'[q].hash = req[q].hash
                            /\ req'[q].answer = req[q].answer
                            /\ req'[q].pc = IF q = r THEN "done" ELSE req[q].pc
    BY <1>0, <2>1, GoEffect DEF Pcs
  <2>4. ToldInv'
    BY <1>0, <2>1, <2>2 DEF ToldInv, TypeOK
  <2>5. OneOwner'
    BY <1>0, <2>1, <2>2, <2>3 DEF OneOwner, Owning, Key
  <2>6. WorkInv'
    BY <1>0, <2>1, <2>2, <2>3 DEF WorkInv, At, Key
  <2>7. EffectAtMostOnce' /\ RowInv'
    BY <2>1, <2>2 DEF EffectAtMostOnce, RowInv
  <2> QED
    BY <2>4, <2>5, <2>6, <2>7
<1>5. ASSUME NEW r \in Requests, NEW a \in {"ok", "refused"}, WorkAnswers(r, a) PROVE Rest'
  <2>1. \A q \in Requests : /\ req'[q].key = req[q].key /\ req'[q].hash = req[q].hash
                            /\ req'[q].answer = IF q = r THEN a ELSE req[q].answer
                            /\ req'[q].pc = IF q = r THEN "finalize" ELSE req[q].pc
    BY <1>0, <1>5 DEF WorkAnswers, TypeOK, Key
  <2>2. At(r, "work") /\ UNCHANGED <<rec, owner, stored, told>>
    BY <1>5 DEF WorkAnswers, row
  <2>3. effects[Key(r)] = 0 /\ rec[Key(r)] \notin {"none", "completed"}
    BY <2>2 DEF WorkInv, OneOwner, Owning, At
  <2>4. \A k \in Keys : effects'[k] = IF k = Key(r) /\ a = "ok" THEN 1 ELSE effects[k]
    BY <1>0, <1>5, <2>3 DEF WorkAnswers, TypeOK
  <2>5. \A q \in Requests : Owning(q) /\ Key(q) = Key(r) => q = r
    BY <2>2 DEF OneOwner, Owning, At
  <2>6. OneOwner'
    BY <1>0, <2>1, <2>2 DEF OneOwner, Owning, At, Key
  <2>7. WorkInv'
    BY <1>0, <2>1, <2>2, <2>3, <2>4, <2>5 DEF WorkInv, Owning, At, Key
  <2>8. EffectAtMostOnce' /\ RowInv'
    BY <1>0, <2>2, <2>3, <2>4 DEF EffectAtMostOnce, RowInv
  <2>9. ToldInv'
    BY <2>2 DEF ToldInv
  <2> QED
    BY <2>6, <2>7, <2>8, <2>9
<1>6. ASSUME NEW r \in Requests, NEW b \in BOOLEAN, WorkThrows(r, b) PROVE Rest'
  <2>1. \A q \in Requests : /\ req'[q].key = req[q].key /\ req'[q].hash = req[q].hash
                            /\ req'[q].answer = req[q].answer
                            /\ req'[q].pc = IF q = r THEN "quarantine" ELSE req[q].pc
    BY <1>0, <1>6, GoEffect DEF WorkThrows, Pcs
  <2>2. At(r, "work") /\ UNCHANGED <<rec, owner, stored, told>>
    BY <1>6 DEF WorkThrows, row
  <2>3. effects[Key(r)] = 0 /\ rec[Key(r)] \notin {"none", "completed"}
    BY <2>2 DEF WorkInv, OneOwner, Owning, At
  <2>4. \A k \in Keys : effects'[k] = effects[k] \/ (k = Key(r) /\ effects'[k] = 1)
    BY <1>0, <1>6, <2>3 DEF WorkThrows, TypeOK
  <2>5. \A q \in Requests : Owning(q) /\ Key(q) = Key(r) => q = r
    BY <2>2 DEF OneOwner, Owning, At
  <2>6. OneOwner'
    BY <1>0, <2>1, <2>2 DEF OneOwner, Owning, At, Key
  <2>7. WorkInv'
    BY <1>0, <2>1, <2>2, <2>4, <2>5 DEF WorkInv, Owning, At, Key
  <2>8. EffectAtMostOnce' /\ RowInv'
    BY <1>0, <2>2, <2>3, <2>4 DEF EffectAtMostOnce, RowInv
  <2>9. ToldInv'
    BY <2>2 DEF ToldInv
  <2> QED
    BY <2>6, <2>7, <2>8, <2>9
<1>7. ASSUME NEW r \in Requests, Finalize(r) \/ FinalizeFails(r) PROVE Rest'
  <2>1. \A q \in Requests : /\ req'[q].key = req[q].key /\ req'[q].hash = req[q].hash
                            /\ req'[q].answer = req[q].answer
                            /\ q # r => req'[q].pc = req[q].pc
                            /\ req'[r].pc \in {"done", "quarantine"}
    BY <1>0, <1>7, GoEffect DEF Finalize, FinalizeFails, Pcs
  <2>2. At(r, "finalize") /\ UNCHANGED <<owner, effects>>
    BY <1>7 DEF Finalize, FinalizeFails
  <2>3. /\ rec[Key(r)] \notin {"none", "completed"} /\ owner[Key(r)] = req[r].hash
        /\ req[r].answer # "none" /\ (req[r].answer = "ok" <=> effects[Key(r)] = 1)
    BY <2>2 DEF WorkInv, OneOwner, Owning, At
  <2>4. \A q \in Requests : Owning(q) /\ Key(q) = Key(r) => q = r
    BY <2>2 DEF OneOwner, Owning, At
  <2>5. \A k \in Keys : \/ rec'[k] = rec[k] /\ stored'[k] = stored[k]
                        \/ k = Key(r) /\ rec'[k] = "completed" /\ stored'[k] = req[r].answer
    BY <1>0, <1>7 DEF Finalize, FinalizeFails, TypeOK
  <2>6. OneOwner'
    BY <1>0, <2>1, <2>2, <2>3, <2>5 DEF OneOwner, Owning, At, Key
  <2>7. WorkInv'
    BY <1>0, <2>1, <2>2, <2>4, <2>5 DEF WorkInv, Owning, At, Key
  <2>8. EffectAtMostOnce' /\ RowInv'
    BY <1>0, <2>2, <2>3, <2>5 DEF EffectAtMostOnce, RowInv
  <2>9. ToldInv'
    <3>1. \A t \in told : t.key \in Keys /\ t.key # Key(r)
      BY <1>0, <2>3 DEF ToldInv, TypeOK
    <3>2. CASE Finalize(r)
      <4>1. rec'[Key(r)] = "completed" /\ stored'[Key(r)] = req[r].answer
        BY <1>0, <3>2 DEF Finalize, TypeOK
      <4> QED
        BY <1>0, <2>2, <2>3, <2>5, <3>1, <3>2, <4>1 DEF Finalize, Tell, ToldInv
    <3>3. CASE FinalizeFails(r)
      BY <2>2, <2>5, <3>1, <3>3 DEF FinalizeFails, ToldInv
    <3> QED
      BY <1>7, <3>2, <3>3
  <2> QED
    BY <2>6, <2>7, <2>8, <2>9
<1>8. CASE UNCHANGED vars \/ \E k \in Keys : Age(k)
  BY <1>8 DEF Age, vars, row, EffectAtMostOnce, OneOwner, WorkInv, RowInv, ToldInv, Owning, At, Key
<1> QED
  BY <1>1, <1>2, <1>3, <1>4, <1>5, <1>6, <1>7, <1>8 DEF Next, RequestSteps

\* Types, owners, effects and answers: the inductive invariant of idempotentMutation.
THEOREM InductiveInvariant == Spec => []IndInv
<1>1. Init => IndInv
  <2>1. AnyKey \in Keys /\ AnyHash \in Hashes
    BY IdempotencyConstants DEF AnyKey, AnyHash
  <2> QED
    BY <2>1 DEF Init, IndInv, TypeOK, States, Answers, Pcs, EffectAtMostOnce, OneOwner, WorkInv, RowInv,
                ToldInv, Owning, At, Key
<1>2. IndInv /\ [Next]_vars => IndInv'
  BY TypeStep, KeyStep DEF IndInv
<1> QED
  BY <1>1, <1>2, PTL DEF Spec

\* However many identical or conflicting requests, retries, deaths and failed statements: the
\* work behind an idempotency key takes effect at most once.
THEOREM EffectsHappenOnce == Spec => []EffectAtMostOnce
<1>1. IndInv => EffectAtMostOnce
  BY DEF IndInv
<1> QED
  BY <1>1, InductiveInvariant, PTL

\* Every final answer given to a client is the stored one and tells whether the work took effect.
THEOREM AnswersTellTheTruth == Spec => []AnswersAreTrue
<1>1. IndInv => AnswersAreTrue
  BY DEF IndInv, AnswersAreTrue, ToldInv, RowInv, TypeOK
<1> QED
  BY <1>1, InductiveInvariant, PTL

\* No statement of any request changes a completed row.
THEOREM CompletedRowsAreFinal == Spec => CompletedIsFinal
<1> DEFINE Final(k) == rec[k] = "completed" =>
                         rec'[k] = "completed" /\ stored'[k] = stored[k] /\ owner'[k] = owner[k]
<1>1. IndInv /\ [Next]_vars => [\A k \in Keys : Final(k)]_vars
  <2> SUFFICES ASSUME IndInv, Next, NEW k \in Keys, rec[k] = "completed"
               PROVE  rec'[k] = "completed" /\ stored'[k] = stored[k] /\ owner'[k] = owner[k]
    OBVIOUS
  <2> USE DEF IndInv, TypeOK
  <2>1. ASSUME NEW r \in Requests, RequestSteps(r)
        PROVE  rec'[k] = "completed" /\ stored'[k] = stored[k] /\ owner'[k] = owner[k]
    <3>0. Key(r) \in Keys
      BY RequestType
    <3>1. CASE Finalize(r) \/ FinalizeFails(r)
      <4>1. Key(r) # k
        BY <3>1 DEF Finalize, FinalizeFails, WorkInv
      <4> QED
        BY <3>0, <3>1, <4>1 DEF Finalize, FinalizeFails
    <3>2. CASE Claim(r)
      BY <3>0, <3>2 DEF Claim
    <3>3. CASE QuarantineStale(r) \/ Quarantine(r)
      BY <3>0, <3>3 DEF QuarantineStale, Quarantine
    <3>4. CASE UNCHANGED row
      BY <3>4 DEF row
    <3> QED
      BY <2>1, <3>1, <3>2, <3>3, <3>4
         DEF RequestSteps, Send, ReadRecord, WorkAnswers, WorkThrows, Die
  <2>2. CASE \E j \in Keys : Age(j)
    BY <2>2 DEF Age
  <2> QED
    BY <2>1, <2>2 DEF Next
<1> QED
  BY <1>1, InductiveInvariant, PTL DEF Spec, CompletedIsFinal
-----------------------------------------------------------------------------
(* The refinement: the verdicts of the rows and what they determine.       *)

Verdicts == [k \in Keys |-> Verdict(k)]

\* A step that leaves a key's row alone, up to quarantine, leaves its verdict.
LEMMA VerdictKept ==
  ASSUME NEW k \in Keys,
         \/ rec'[k] = rec[k] /\ owner'[k] = owner[k] /\ stored'[k] = stored[k]
         \/ rec[k] # "completed" /\ rec'[k] # "completed"
  PROVE  Verdict(k)' = Verdict(k)
  BY DEF Verdict

\* A step that neither works, answers nor completes a row is a stutter for the client.
LEMMA Unnoticed ==
  ASSUME UNCHANGED <<effects, told>>, \A k \in Keys : Verdict(k)' = Verdict(k)
  PROVE  UNCHANGED <<effects, Verdicts, told>>
  BY DEF Verdicts

\* Completing the row of a request that has its answer is the verdict on the key.
LEMMA CompletionDecides ==
  ASSUME IndInv, NEW r \in Requests, At(r, "finalize"), Finalizable(r),
         rec' = [rec EXCEPT ![Key(r)] = "completed"],
         stored' = [stored EXCEPT ![Key(r)] = req[r].answer],
         UNCHANGED <<owner, effects>>,
         told' = told \/ Tell(r, req[r].answer)
  PROVE  Promise!Decide(Key(r), req[r].hash)
<1> USE DEF IndInv
<1>0. Key(r) \in Keys /\ req[r].answer \in {"ok", "refused"}
  BY RequestType DEF WorkInv, Answers
<1>1. /\ rec[Key(r)] # "completed" /\ owner[Key(r)] = req[r].hash
      /\ req[r].answer = "ok" <=> effects[Key(r)] = 1
  BY DEF WorkInv, Finalizable
<1>2. req[r].answer = IF effects[Key(r)] = 1 THEN "ok" ELSE "refused"
  BY <1>0, <1>1
<1>3. Verdicts[Key(r)] = Promise!Undecided
  BY <1>0, <1>1 DEF Verdicts, Verdict, Promise!Undecided
<1>4. Verdicts' = [Verdicts EXCEPT ![Key(r)] = Promise!Settled(req[r].hash, req[r].answer)]
  <2>1. ASSUME NEW k \in Keys
        PROVE  Verdict(k)' = IF k = Key(r) THEN Promise!Settled(req[r].hash, req[r].answer) ELSE Verdict(k)
    BY <1>0, <1>1 DEF TypeOK, Verdict, Promise!Settled
  <2> QED
    BY <1>0, <2>1 DEF Verdicts
<1> QED
  BY <1>0, <1>2, <1>3, <1>4 DEF Promise!Decide, Promise!Message, Promise!Settled, Tell, Verdicts

\* Every statement of a request, and the passing of time, is a step of the promise or a stutter.
LEMMA PromiseStep == IndInv /\ [Next]_vars => [Promise!Next]_<<effects, Verdicts, told>>
<1> DEFINE Kept == UNCHANGED <<effects, Verdicts, told>> \/ Promise!Next
<1> SUFFICES ASSUME IndInv, [Next]_vars PROVE Kept
  BY DEF Promise!Next
<1> USE DEF IndInv
<1>0. TypeOK /\ \A q \in Requests : Key(q) \in Keys /\ req[q].hash \in Hashes
  BY RequestType
<1>1. ASSUME UNCHANGED <<row, effects, told>> PROVE Kept
  BY <1>1, VerdictKept, Unnoticed DEF row
<1>2. ASSUME NEW r \in Requests, Claim(r) \/ QuarantineStale(r) \/ Quarantine(r) PROVE Kept
  <2>1. \A k \in Keys : \/ rec'[k] = rec[k] /\ owner'[k] = owner[k] /\ stored'[k] = stored[k]
                        \/ rec[k] # "completed" /\ rec'[k] # "completed"
    BY <1>0, <1>2 DEF Claim, QuarantineStale, Quarantine, TypeOK
  <2> QED
    BY <1>2, <2>1, VerdictKept, Unnoticed DEF Claim, QuarantineStale, Quarantine
<1>3. ASSUME NEW r \in Requests, ReadRecord(r) PROVE Kept
  <2>1. CASE UNCHANGED told
    BY <1>1, <1>3, <2>1 DEF ReadRecord
  <2>2. CASE owner[Key(r)] = req[r].hash /\ rec[Key(r)] = "completed" /\ Tell(r, stored[Key(r)])
    <3>1. Verdicts[Key(r)] = [hash |-> req[r].hash, answer |-> stored[Key(r)]] /\ stored[Key(r)] # "none"
      BY <1>0, <2>2 DEF Verdicts, Verdict, TypeOK
    <3>2. Verdicts' = Verdicts /\ effects' = effects
      BY <1>3, VerdictKept DEF ReadRecord, row, Verdicts
    <3>3. Promise!Repeat(Key(r))
      BY <2>2, <3>1, <3>2 DEF Promise!Repeat, Promise!Message, Promise!Undecided, Tell, Verdicts
    <3> QED
      BY <1>0, <3>3 DEF Promise!Next
  <2> QED
    BY <1>3, <2>1, <2>2 DEF ReadRecord
<1>4. ASSUME NEW r \in Requests, At(r, "work"), UNCHANGED <<row, told>>,
             effects' = effects \/ effects' = [effects EXCEPT ![Key(r)] = @ + 1]
      PROVE  Kept
  <2>1. rec[Key(r)] # "completed" /\ effects[Key(r)] = 0
    BY <1>4 DEF WorkInv
  <2>2. Verdicts[Key(r)] = Promise!Undecided /\ Verdicts' = Verdicts
    BY <1>0, <1>4, <2>1, VerdictKept DEF row, Verdicts, Verdict, Promise!Undecided
  <2>3. CASE effects' = [effects EXCEPT ![Key(r)] = @ + 1]
    <3>1. effects' = [effects EXCEPT ![Key(r)] = 1]
      BY <1>0, <2>1, <2>3 DEF TypeOK
    <3>2. Promise!Perform(Key(r))
      BY <1>4, <2>1, <2>2, <3>1 DEF Promise!Perform, Verdicts
    <3> QED
      BY <1>0, <3>2 DEF Promise!Next
  <2> QED
    BY <1>1, <1>4, <2>3
<1>5. ASSUME NEW r \in Requests, Finalize(r) \/ FinalizeFails(r) PROVE Kept
  <2>1. CASE UNCHANGED <<rec, stored, owner, effects, told>>
    BY <2>1, VerdictKept, Unnoticed
  <2>2. CASE Promise!Decide(Key(r), req[r].hash)
    BY <1>0, <2>2 DEF Promise!Next
  <2> QED
    BY <1>5, <2>1, <2>2, CompletionDecides DEF Finalize, FinalizeFails
<1>6. CASE \E k \in Keys : Age(k)
  BY <1>6, VerdictKept, Unnoticed DEF Age
<1>7. ASSUME NEW r \in Requests, RequestSteps(r) PROVE Kept
  <2>1. ASSUME \/ \E k \in Keys, h \in Hashes : Send(r, k, h)
               \/ Die(r)
        PROVE  Kept
    BY <1>1, <2>1 DEF Send, Die
  <2>2. ASSUME \/ \E answer \in {"ok", "refused"} : WorkAnswers(r, answer)
               \/ \E happened \in BOOLEAN : WorkThrows(r, happened)
        PROVE  Kept
    BY <1>4, <2>2 DEF WorkAnswers, WorkThrows
  <2> QED
    BY <1>2, <1>3, <1>5, <1>7, <2>1, <2>2 DEF RequestSteps
<1> QED
  BY <1>1, <1>6, <1>7 DEF Next, vars

\* idempotentMutation implements OnceOnly for any number of keys, hashes and requests: a client
\* cannot tell its statements, retries and failures from a single attempt with one verdict.
THEOREM KeepsOnceOnly == Spec => KeepsPromise
<1>1. Init => Promise!Init
  BY DEF Init, Promise!Init, Verdict, Promise!Undecided
<1>2. IndInv /\ [Next]_vars => [Promise!Next]_<<effects, [k \in Keys |-> Verdict(k)], told>>
  BY PromiseStep DEF Verdicts
<1> QED
  BY <1>1, <1>2, InductiveInvariant, PTL DEF Spec, KeepsPromise, Promise!Spec
=============================================================================
