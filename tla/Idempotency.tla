---------------------------- MODULE Idempotency ----------------------------
(***************************************************************************)
(* idempotentMutation of the public API: a request that carries an         *)
(* Idempotency-Key claims the key, runs its work and stores the response,  *)
(* and a repeated request replays it.  Each statement is a transaction of  *)
(* its own, so any number of other requests may act between two of them;   *)
(* an isolate may die, and a statement may fail after it took effect.      *)
(*                                                                         *)
(* The work commits its effect in its own transaction.  Its answer is ok,  *)
(* refused (a 4xx: nothing was changed) or an error (a 5xx: unknown).      *)
(***************************************************************************)
EXTENDS Naturals, FiniteSets

CONSTANTS
  Keys,      \* (scope, key) pairs of one actor
  Hashes,    \* request hashes: method, path, content type and body
  Requests   \* HTTP requests, each sent once; a retry is another request

VARIABLES
  rec,      \* system.idempotency_keys: the state of each key's row
  owner,    \* the requestHash stored with it
  stored,   \* the answer stored with it
  old,      \* keys created more than five minutes ago
  req,      \* each request's position, key, hash and the answer of its work
  effects,  \* how often the work of a key took effect
  told      \* final answers given to clients: the key, the request's hash, the answer

row == <<rec, owner, stored, old>>
vars == <<row, req, effects, told>>

States == {"none", "processing", "completed", "outcome_unknown"}
Answers == {"none", "ok", "refused"}
Pcs == {"new", "claim", "read", "stale", "work", "finalize", "quarantine", "done"}
AnyKey == CHOOSE k \in Keys : TRUE
AnyHash == CHOOSE h \in Hashes : TRUE

ASSUME IdempotencyConstants == Keys # {} /\ Hashes # {}

Init ==
  /\ rec = [k \in Keys |-> "none"]
  /\ owner = [k \in Keys |-> AnyHash]
  /\ stored = [k \in Keys |-> "none"]
  /\ old = {} /\ told = {}
  /\ req = [r \in Requests |-> [pc |-> "new", key |-> AnyKey, hash |-> AnyHash, answer |-> "none"]]
  /\ effects = [k \in Keys |-> 0]

At(r, pc) == req[r].pc = pc
Go(r, pc) == req' = [req EXCEPT ![r].pc = pc]
Key(r) == req[r].key
Tell(r, answer) == told' = told \cup {[key |-> Key(r), hash |-> req[r].hash, answer |-> answer]}

\* A client sends a request, or repeats one.
Send(r, k, h) ==
  /\ At(r, "new")
  /\ req' = [req EXCEPT ![r] = [pc |-> "claim", key |-> k, hash |-> h, answer |-> "none"]]
  /\ UNCHANGED <<row, effects, told>>

\* Mutant: a key whose outcome is unknown is claimed anew.
ClaimUnknown(r) ==
  LET k == Key(r) IN
  /\ At(r, "claim")
  /\ IF rec[k] \in {"none", "outcome_unknown"}
     THEN /\ rec' = [rec EXCEPT ![k] = "processing"]
          /\ owner' = [owner EXCEPT ![k] = req[r].hash]
          /\ Go(r, "work")
     ELSE Go(r, "read") /\ UNCHANGED <<rec, owner>>
  /\ UNCHANGED <<stored, old, effects, told>>

\* INSERT ... ON CONFLICT DO NOTHING.
Claim(r) ==
  LET k == Key(r) IN
  /\ At(r, "claim")
  /\ IF rec[k] = "none"
     THEN /\ rec' = [rec EXCEPT ![k] = "processing"]
          /\ owner' = [owner EXCEPT ![k] = req[r].hash]
          /\ Go(r, "work")
     ELSE Go(r, "read") /\ UNCHANGED <<rec, owner>>
  /\ UNCHANGED <<stored, old, effects, told>>

\* Mutant: the stored response is replayed to any request with the key.
ReadRecordOfAny(r) ==
  LET k == Key(r) IN
  /\ At(r, "read")
  /\ \/ rec[k] = "completed" /\ Tell(r, stored[k]) /\ Go(r, "done")
     \/ rec[k] # "completed" /\ Go(r, "done") /\ UNCHANGED told
     \/ rec[k] = "processing" /\ Go(r, "stale") /\ UNCHANGED told
  /\ UNCHANGED <<row, effects>>

\* planExistingIdempotencyRecord: another hash is a conflict, a completed row is replayed, an
\* unknown outcome stays unknown, and a processing row is judged by the Worker's own clock.
ReadRecord(r) ==
  LET k == Key(r) IN
  /\ At(r, "read")
  /\ \/ owner[k] = req[r].hash /\ rec[k] = "completed" /\ Tell(r, stored[k]) /\ Go(r, "done")
     \/ ~(owner[k] = req[r].hash /\ rec[k] = "completed") /\ Go(r, "done") /\ UNCHANGED told
     \/ owner[k] = req[r].hash /\ rec[k] = "processing" /\ Go(r, "stale") /\ UNCHANGED told
  /\ UNCHANGED <<row, effects>>

\* The row is quarantined if it is still processing and old by the database's clock.
QuarantineStale(r) ==
  LET k == Key(r) IN
  /\ At(r, "stale")
  /\ rec' = IF rec[k] = "processing" /\ k \in old THEN [rec EXCEPT ![k] = "outcome_unknown"] ELSE rec
  /\ Go(r, "done")
  /\ UNCHANGED <<owner, stored, old, effects, told>>

-----------------------------------------------------------------------------
(* runClaimedIdempotentWork.                                               *)

\* work() answers, or throws a public error that is answered as a refusal.
WorkAnswers(r, answer) ==
  /\ At(r, "work")
  /\ effects' = IF answer = "ok" THEN [effects EXCEPT ![Key(r)] = @ + 1] ELSE effects
  /\ req' = [req EXCEPT ![r] = [pc |-> "finalize", key |-> Key(r), hash |-> req[r].hash, answer |-> answer]]
  /\ UNCHANGED <<row, told>>

\* work() throws anything else, perhaps after its commit.
WorkThrows(r, happened) ==
  /\ At(r, "work")
  /\ effects' = IF happened THEN [effects EXCEPT ![Key(r)] = @ + 1] ELSE effects
  /\ Go(r, "quarantine")
  /\ UNCHANGED <<row, told>>

\* The WHERE clause of finalize: a quarantined row may still be completed by its owner.
Finalizable(r) == rec[Key(r)] \in {"processing", "outcome_unknown"} /\ owner[Key(r)] = req[r].hash

\* finalize(): the answer is stored, then given.
Finalize(r) ==
  /\ At(r, "finalize") /\ Finalizable(r)
  /\ rec' = [rec EXCEPT ![Key(r)] = "completed"]
  /\ stored' = [stored EXCEPT ![Key(r)] = req[r].answer]
  /\ Tell(r, req[r].answer)
  /\ Go(r, "done")
  /\ UNCHANGED <<owner, old, effects>>

\* finalize() throws, with or without having taken effect; the client is told nothing final.
FinalizeFails(r) ==
  /\ At(r, "finalize")
  /\ \/ UNCHANGED <<rec, stored>>
     \/ /\ Finalizable(r)
        /\ rec' = [rec EXCEPT ![Key(r)] = "completed"]
        /\ stored' = [stored EXCEPT ![Key(r)] = req[r].answer]
  /\ Go(r, "quarantine")
  /\ UNCHANGED <<owner, old, effects, told>>

\* Mutant: quarantine overwrites whatever the row holds.
QuarantineAlways(r) ==
  /\ At(r, "quarantine")
  /\ rec' = [rec EXCEPT ![Key(r)] = "outcome_unknown"]
  /\ Go(r, "done")
  /\ UNCHANGED <<owner, stored, old, effects, told>>

\* quarantine(), whose own failure is swallowed.
Quarantine(r) ==
  LET k == Key(r) IN
  /\ At(r, "quarantine")
  /\ \/ UNCHANGED rec
     \/ /\ rec[k] = "processing" /\ owner[k] = req[r].hash
        /\ rec' = [rec EXCEPT ![k] = "outcome_unknown"]
  /\ Go(r, "done")
  /\ UNCHANGED <<owner, stored, old, effects, told>>

-----------------------------------------------------------------------------
\* The isolate is lost: the client gets no answer.
Die(r) ==
  /\ req[r].pc \notin {"new", "done"}
  /\ Go(r, "done")
  /\ UNCHANGED <<row, effects, told>>

Age(k) ==
  /\ rec[k] # "none" /\ k \notin old
  /\ old' = old \cup {k}
  /\ UNCHANGED <<rec, owner, stored, req, effects, told>>

RequestSteps(r) ==
  \/ \E k \in Keys, h \in Hashes : Send(r, k, h)
  \/ Claim(r) \/ ReadRecord(r) \/ QuarantineStale(r)
  \/ \E answer \in {"ok", "refused"} : WorkAnswers(r, answer)
  \/ \E happened \in BOOLEAN : WorkThrows(r, happened)
  \/ Finalize(r) \/ FinalizeFails(r) \/ Quarantine(r) \/ Die(r)

Next == (\E r \in Requests : RequestSteps(r)) \/ (\E k \in Keys : Age(k))

Spec == Init /\ [][Next]_vars

-----------------------------------------------------------------------------
(* Properties.                                                             *)

\* Types; a row is completed exactly when an answer is stored with it.
TypeOK ==
  /\ rec \in [Keys -> States]
  /\ owner \in [Keys -> Hashes]
  /\ stored \in [Keys -> Answers]
  /\ \A k \in Keys : rec[k] = "completed" <=> stored[k] # "none"
  /\ old \subseteq Keys
  /\ req \in [Requests -> [pc: Pcs, key: Keys, hash: Hashes, answer: Answers]]
  /\ effects \in [Keys -> Nat]
  /\ told \subseteq [key: Keys, hash: Hashes, answer: Answers]

\* However often a request is repeated, and whatever fails between its statements, the work
\* behind a key takes effect at most once.
EffectAtMostOnce == \A k \in Keys : effects[k] <= 1

\* Final answers tell the truth: only requests identical to the one that did the work are
\* answered, all of them alike, with ok exactly when the work took effect.
AnswersAreTrue ==
  \A t \in told : /\ t.hash = owner[t.key] /\ t.answer = stored[t.key]
                  /\ t.answer = "ok" <=> effects[t.key] = 1

\* A completed row is final: no late quarantine, retry or ambiguous commit changes it.
CompletedIsFinal ==
  [][\A k \in Keys : rec[k] = "completed" =>
       rec'[k] = "completed" /\ stored'[k] = stored[k] /\ owner'[k] = owner[k]]_vars

\* The verdict a key's row holds.
Verdict(k) ==
  IF rec[k] = "completed" THEN [hash |-> owner[k], answer |-> stored[k]] ELSE [hash |-> "none", answer |-> "none"]

Promise == INSTANCE OnceOnly WITH count <- effects, verdict <- [k \in Keys |-> Verdict(k)], heard <- told

\* idempotentMutation keeps the promise of OnceOnly: repeated, concurrent and dying requests
\* look to their clients like one attempt, with one verdict that is never changed or contradicted.
KeepsPromise == Promise!Spec

-----------------------------------------------------------------------------
(* The inductive invariant behind these properties (IdempotencyProofs).    *)

\* A request that claimed its key and has not ended.
Owning(r) == req[r].pc \in {"work", "finalize", "quarantine"}

\* A claimed key has one such request at most, the one whose hash is stored with the row.
OneOwner ==
  /\ \A r \in Requests : Owning(r) => rec[Key(r)] # "none" /\ owner[Key(r)] = req[r].hash
  /\ \A r, q \in Requests : Owning(r) /\ Owning(q) /\ Key(r) = Key(q) => r = q

\* The effect has not happened before the work, and agrees with the answer after it.
WorkInv ==
  \A r \in Requests :
    /\ At(r, "work") => rec[Key(r)] # "completed" /\ effects[Key(r)] = 0
    /\ At(r, "finalize") => /\ rec[Key(r)] # "completed"
                            /\ req[r].answer # "none"
                            /\ req[r].answer = "ok" <=> effects[Key(r)] = 1

\* What the rows say of the effects.
RowInv ==
  \A k \in Keys :
    /\ rec[k] = "none" => effects[k] = 0
    /\ rec[k] = "completed" => (stored[k] = "ok" <=> effects[k] = 1)

\* Answers are given from completed rows.
ToldInv ==
  \A t \in told : rec[t.key] = "completed" /\ t.hash = owner[t.key] /\ t.answer = stored[t.key]

IndInv == TypeOK /\ EffectAtMostOnce /\ OneOwner /\ WorkInv /\ RowInv /\ ToldInv

=============================================================================
