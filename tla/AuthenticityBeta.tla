-------------------------- MODULE AuthenticityBeta --------------------------
(***************************************************************************)
(* The private authenticity beta: an image is uploaded to a case, the      *)
(* queue consumer analyses it under a lease (safety provider, detector,    *)
(* adviser), and the owner may cancel or delete the case at any time.  A   *)
(* deleted case loses its results at once and its objects when a purge     *)
(* pass finds that nothing can still be writing them.                      *)
(*                                                                         *)
(* A task is one invocation: a finalise request, an analysis or a purge    *)
(* pass.  It is at a program counter between two transactions, provider    *)
(* calls or object-store calls, and may die there.                         *)
(***************************************************************************)
EXTENDS Integers, FiniteSets

CONSTANTS
  Cases, Tasks,
  MaxAttempts,  \* claims of a case by the consumer (3 in the code)
  MaxRev,       \* a bound on cancellations of a case
  OtherBytes    \* what the owner's other media hold in the ledger

ASSUME BetaConstants ==
  /\ IsFiniteSet(Cases) /\ Cases # {}
  /\ MaxAttempts \in Nat \ {0} /\ MaxRev \in Nat \ {0} /\ OtherBytes \in Nat

Steps == {"safety", "safe", "advice"}

VARIABLES
  case,      \* moderation.authenticity_beta: state, revision, lease token, attempts, result
  leased,    \* cases whose lease_until has not passed
  late,      \* cases whose expires_at has passed
  purged,    \* cases with purged_at set
  step,      \* moderation.authenticity_beta_steps of each case
  calls,     \* history: provider calls of each step
  msgs,      \* authenticity_beta.requested events not acknowledged
  object,    \* objects of each case in MEDIA_QUARANTINE
  url,       \* cases whose signed upload URL is open
  aged,      \* deleted cases for which both five-minute waits of the purge are over
  store,     \* storage_reserved_bytes, display_bytes and object_id of each case
  ledger,    \* media.storage_ledger: reserved, approved
  task

row == <<case, leased, late, purged>>
work == <<step, calls>>
media == <<object, url, aged>>
bytes == <<store, ledger>>
vars == <<row, work, msgs, media, bytes, task>>

Idle == [pc |-> "idle", c |-> CHOOSE c \in Cases : TRUE, rev |-> 0, op |-> "none", s |-> "none",
         token |-> 0, result |-> "none"]
NoCase == [state |-> "none", rev |-> 1, token |-> 0, attempts |-> 0, result |-> "none"]

Init ==
  /\ case = [c \in Cases |-> NoCase]
  /\ leased = {} /\ late = {} /\ purged = {}
  /\ step = [c \in Cases |-> [s \in Steps |-> "none"]]
  /\ calls = [c \in Cases |-> [s \in Steps |-> 0]]
  /\ msgs = {}
  /\ object = [c \in Cases |-> {}] /\ url = {} /\ aged = {}
  /\ store = [c \in Cases |-> [reserved |-> 0, display |-> 0, owned |-> 0]]
  /\ ledger = [reserved |-> OtherBytes, approved |-> OtherBytes]
  /\ task = [t \in Tasks |-> Idle]

\* An original and a display copy have one unit of storage each.
Monus(a, b) == IF a < b THEN 0 ELSE a - b
Deleted(c) == case[c].state = "deleted"
Goes(t, pc) == task' = [task EXCEPT ![t].pc = pc]
Ends(t) == task' = [task EXCEPT ![t] = Idle]

-----------------------------------------------------------------------------
(* Public API.                                                             *)

\* POST /cases.
CreateCase(c) ==
  /\ case[c].state = "none"
  /\ case' = [case EXCEPT ![c].state = "uploading"]
  /\ store' = [store EXCEPT ![c].reserved = 2]
  /\ ledger' = [ledger EXCEPT !.reserved = @ + 2]
  /\ url' = url \cup {c}
  /\ UNCHANGED <<leased, late, purged, work, msgs, object, aged, task>>

\* The owner uploads through the signed URL.
Upload(c) ==
  /\ c \in url
  /\ object' = [object EXCEPT ![c] = @ \cup {"upload"}]
  /\ UNCHANGED <<row, work, msgs, url, aged, bytes, task>>

\* finalise: the session and its bytes are read, the original is put unless it exists.
FinaliseRead(t, c) ==
  /\ task[t] = Idle
  /\ case[c].state = "uploading" /\ c \in url /\ "upload" \in object[c]
  /\ task' = [task EXCEPT ![t] = [Idle EXCEPT !.pc = "finalise.put", !.c = c]]
  /\ UNCHANGED <<row, work, msgs, media, bytes>>

FinalisePut(t) ==
  /\ task[t].pc = "finalise.put"
  /\ object' = [object EXCEPT ![task[t].c] = @ \cup {"original"}]
  /\ Goes(t, "finalise.commit")
  /\ UNCHANGED <<row, work, msgs, url, aged, bytes>>

FinaliseCommit(t) ==
  LET c == task[t].c IN
  /\ task[t].pc = "finalise.commit"
  /\ IF case[c].state = "uploading" /\ c \notin late
     THEN /\ case' = [case EXCEPT ![c].state = "queued"]
          /\ store' = [store EXCEPT ![c].reserved = @ - 1, ![c].owned = 1]
          /\ ledger' = [reserved |-> Monus(ledger.reserved, 1), approved |-> ledger.approved + 1]
          /\ msgs' = msgs \cup {[c |-> c, rev |-> case[c].rev, op |-> "analysis"]}
          /\ Goes(t, "finalise.clean")
     ELSE Goes(t, "finalise.catch") /\ UNCHANGED <<case, bytes, msgs>>
  /\ UNCHANGED <<leased, late, purged, work, media>>

\* A refused finalise removes the original of a case that has ended.
FinaliseCatch(t) ==
  LET c == task[t].c IN
  /\ task[t].pc = "finalise.catch"
  /\ object' = IF case[c].state \in {"deleted", "cancelled", "expired"}
               THEN [object EXCEPT ![c] = @ \ {"original"}] ELSE object
  /\ Ends(t)
  /\ UNCHANGED <<row, work, msgs, url, aged, bytes>>

FinaliseClean(t) ==
  /\ task[t].pc = "finalise.clean"
  /\ object' = [object EXCEPT ![task[t].c] = @ \ {"upload"}]
  /\ Ends(t)
  /\ UNCHANGED <<row, work, msgs, url, aged, bytes>>

Cancel(c) ==
  /\ case[c].state \notin {"none", "deleted"} /\ case[c].rev < MaxRev
  /\ case' = [case EXCEPT ![c].state = "cancelled", ![c].rev = @ + 1, ![c].token = 0]
  /\ leased' = leased \ {c}
  /\ UNCHANGED <<late, purged, work, msgs, media, bytes, task>>

\* tombstoneBetaCases.
Delete(c) ==
  /\ case[c].state \notin {"none", "deleted"}
  /\ case' = [case EXCEPT ![c].state = "deleted", ![c].rev = @ + 1, ![c].token = 0, ![c].result = "none"]
  /\ leased' = leased \ {c}
  /\ step' = [step EXCEPT ![c] = [s \in Steps |-> IF @[s] = "completed" THEN "wiped" ELSE @[s]]]
  /\ UNCHANGED <<late, purged, calls, msgs, media, bytes, task>>

-----------------------------------------------------------------------------
(* Admin API: retry and advice.                                            *)

Requeue(c, op) ==
  /\ case[c].attempts < MaxAttempts /\ c \notin late /\ case[c].token = 0
  /\ case' = [case EXCEPT ![c].state = "queued"]
  /\ msgs' = msgs \cup {[c |-> c, rev |-> case[c].rev, op |-> op]}
  /\ UNCHANGED <<leased, late, purged, work, media, bytes, task>>

Retry(c) ==
  /\ case[c].state \in {"paused", "failed"}
  /\ \A s \in Steps : step[c][s] \in {"none", "completed"}
  /\ Requeue(c, "analysis")

RequestAdvice(c) ==
  /\ case[c].state = "complete" /\ case[c].result \in {"eligible", "advised"}
  /\ step[c]["advice"] = "none"
  /\ Requeue(c, "advice")

-----------------------------------------------------------------------------
(* processBetaEvent.  The result of a task is the one it would store:      *)
(* "plain" where advice is not called for, "eligible", or "advised".       *)

\* The claim, under the advisory lock of the runtime; a token is the number of the attempt.
Claim(t, m) ==
  LET c == m.c IN
  /\ task[t] = Idle
  /\ \A d \in leased : case[d].state # "analyzing"
  /\ case[c].rev = m.rev /\ case[c].state \in {"queued", "analyzing"}
  /\ c \notin late /\ case[c].attempts < MaxAttempts
  /\ case' = [case EXCEPT ![c].state = "analyzing", ![c].attempts = @ + 1, ![c].token = case[c].attempts + 1]
  /\ leased' = leased \cup {c}
  /\ task' = [task EXCEPT ![t] = [pc |-> "open", c |-> c, rev |-> m.rev, op |-> m.op, s |-> "none",
                                  token |-> case[c].attempts + 1, result |-> case[c].result]]
  /\ UNCHANGED <<late, purged, work, msgs, media, bytes>>

\* An event whose case cannot be claimed any more is acknowledged.
ClaimNothing(m) ==
  /\ \A d \in leased : case[d].state # "analyzing"
  /\ \/ case[m.c].rev # m.rev \/ case[m.c].state \notin {"queued", "analyzing"}
     \/ m.c \in late \/ case[m.c].attempts >= MaxAttempts
  /\ msgs' = msgs \ {m}
  /\ UNCHANGED <<row, work, media, bytes, task>>

\* The SQL condition "fence" (case, revision, lease token, lease and deadline, state).
Fence(t) ==
  LET c == task[t].c IN
  /\ case[c].rev = task[t].rev /\ case[c].token = task[t].token
  /\ c \in leased /\ c \notin late /\ case[c].state = "analyzing"

\* The checks of current() other than the fence (configuration, budget, kill switches) may fail.
Pauses(t) == Goes(t, "pause") /\ UNCHANGED <<row, work, msgs, media, bytes>>

\* An advice event needs the recorded steps, an analysis needs the original.
Open(t) ==
  LET c == task[t].c IN
  /\ task[t].pc = "open"
  /\ \/ /\ Fence(t)
        /\ IF task[t].op = "advice"
           THEN Goes(t, IF task[t].result \in {"eligible", "advised"}
                            /\ step[c]["safety"] = "completed" /\ step[c]["safe"] = "completed"
                          THEN "advise" ELSE "fail")
           ELSE Goes(t, IF store[c].owned = 1 /\ "original" \in object[c] THEN "safety" ELSE "fail")
        /\ UNCHANGED <<row, work, msgs, media, bytes>>
     \/ ~Fence(t) /\ Goes(t, "fail") /\ UNCHANGED <<row, work, msgs, media, bytes>>
     \/ Pauses(t)

\* Where a failed step leads: the adviser's failure is caught and the result kept.
Thrown(s) == IF s = "advice" THEN "settle" ELSE "fail"
After(s) == CASE s = "safety" -> "branch" [] s = "safe" -> "save" [] s = "advice" -> "advised"

\* Mutant: an attempt whose outcome is unknown is made again.
BeginStepAgain(t, s) ==
  LET c == task[t].c IN
  /\ task[t].pc = s
  /\ \/ /\ Fence(t) /\ step[c][s] \in {"none", "ambiguous"}
        /\ step' = [step EXCEPT ![c][s] = "started"]
        /\ task' = [task EXCEPT ![t].pc = "call", ![t].s = s]
        /\ UNCHANGED <<row, calls, msgs, media, bytes>>
     \/ /\ Goes(t, IF Fence(t) /\ step[c][s] = "completed" THEN After(s) ELSE Thrown(s))
        /\ ~Fence(t) \/ step[c][s] = "completed" \/ step[c][s] = "started"
        /\ UNCHANGED <<row, work, msgs, media, bytes>>
     \/ s # "advice" /\ Pauses(t)

\* step(): a completed step is reused, one that was started before is not repeated.
BeginStep(t, s) ==
  LET c == task[t].c IN
  /\ task[t].pc = s
  /\ \/ /\ Fence(t) /\ step[c][s] = "none"
        /\ step' = [step EXCEPT ![c][s] = "started"]
        /\ task' = [task EXCEPT ![t].pc = "call", ![t].s = s]
        /\ UNCHANGED <<row, calls, msgs, media, bytes>>
     \/ /\ ~Fence(t) \/ step[c][s] # "none"
        /\ Goes(t, IF Fence(t) /\ step[c][s] = "completed" THEN After(s) ELSE Thrown(s))
        /\ UNCHANGED <<row, work, msgs, media, bytes>>
     \/ s # "advice" /\ Pauses(t)

\* The provider is called; the detector's answer may carry a display copy.
CallProvider(t) ==
  LET s == task[t].s IN
  /\ task[t].pc = "call"
  /\ calls' = [calls EXCEPT ![task[t].c][s] = @ + 1]
  /\ \E pc \in {"finish"} \cup (IF s = "safe" THEN {"display"} ELSE {}) : Goes(t, pc)
  /\ UNCHANGED <<row, step, msgs, media, bytes>>

\* The catch clause of step(): a step that is still open has an unknown outcome.
Consume(t) ==
  LET c == task[t].c  s == task[t].s IN
  /\ step' = IF step[c][s] = "started" THEN [step EXCEPT ![c][s] = "ambiguous"] ELSE step
  /\ Goes(t, Thrown(s))

\* The provider failed, timed out or answered something that is refused.
ProviderFails(t) ==
  /\ task[t].pc \in {"display", "finish"}
  /\ Consume(t)
  /\ UNCHANGED <<row, calls, msgs, media, bytes>>

\* Mutant: the result of a step is recorded without the fence.
FinishStepUnfenced(t) ==
  LET c == task[t].c  s == task[t].s IN
  /\ task[t].pc = "finish"
  /\ step' = [step EXCEPT ![c][s] = "completed"]
  /\ Goes(t, After(s))
  /\ UNCHANGED <<row, calls, msgs, media, bytes>>

FinishStep(t) ==
  LET c == task[t].c  s == task[t].s IN
  /\ task[t].pc = "finish"
  /\ IF Fence(t)
     THEN /\ step' = IF step[c][s] = "started" THEN [step EXCEPT ![c][s] = "completed"] ELSE step
          /\ Goes(t, After(s))
     ELSE Consume(t)
  /\ UNCHANGED <<row, calls, msgs, media, bytes>>

\* The display copy: checked, put, checked again, and charged under the fence.
CheckDisplay(t) ==
  /\ task[t].pc = "display"
  /\ IF Fence(t) THEN Goes(t, "display.put") /\ UNCHANGED step ELSE Consume(t)
  /\ UNCHANGED <<row, calls, msgs, media, bytes>>

PutDisplay(t) ==
  /\ task[t].pc = "display.put"
  /\ object' = [object EXCEPT ![task[t].c] = @ \cup {"display"}]
  /\ Goes(t, "display.check")
  /\ UNCHANGED <<row, work, msgs, url, aged, bytes>>

RecheckDisplay(t) ==
  /\ task[t].pc = "display.check"
  /\ IF Fence(t) THEN Goes(t, "display.charge") /\ UNCHANGED <<step, object>>
     ELSE /\ object' = [object EXCEPT ![task[t].c] = @ \ {"display"}]
          /\ Consume(t)
  /\ UNCHANGED <<row, calls, msgs, url, aged, bytes>>

ChargeDisplay(t) ==
  LET c == task[t].c IN
  /\ task[t].pc = "display.charge"
  /\ IF Fence(t)
     THEN /\ ledger' = [reserved |-> Monus(ledger.reserved, store[c].reserved),
                        approved |-> ledger.approved + 1 - store[c].display]
          /\ store' = [store EXCEPT ![c].reserved = 0, ![c].display = 1]
          /\ Goes(t, "finish") /\ UNCHANGED step
     ELSE Consume(t) /\ UNCHANGED bytes
  /\ UNCHANGED <<row, calls, msgs, media>>

\* After the safety step: blocked or for review, the runtime disabled, a result from before, or on
\* to the detector.  The first two are written under the fence, without a test of the outcome.
Branch(t) ==
  LET c == task[t].c IN
  /\ task[t].pc = "branch"
  /\ \/ \E state \in {"safety", "paused"} :
          /\ case' = IF Fence(t) THEN [case EXCEPT ![c].state = state, ![c].token = 0] ELSE case
          /\ leased' = IF Fence(t) THEN leased \ {c} ELSE leased
          /\ Goes(t, "done")
     \/ Goes(t, IF task[t].result = "none" THEN "safe" ELSE "advise") /\ UNCHANGED <<case, leased>>
  /\ UNCHANGED <<late, purged, work, msgs, media, bytes>>

\* saveResult, not terminal: the detector's result is stored before any advice.
SaveResult(t) ==
  LET c == task[t].c IN
  /\ task[t].pc = "save"
  /\ \E result \in {"plain", "eligible"} :
       IF Fence(t) THEN /\ case' = [case EXCEPT ![c].result = result]
                        /\ task' = [task EXCEPT ![t].pc = "advise", ![t].result = result]
       ELSE task' = [task EXCEPT ![t].pc = "fail", ![t].result = result] /\ UNCHANGED case
  /\ UNCHANGED <<leased, late, purged, work, msgs, media, bytes>>

\* The adviser is asked where the result calls for it and the adviser is not disabled.
Advise(t) ==
  /\ task[t].pc = "advise"
  /\ \/ ~Fence(t) /\ Goes(t, "fail") /\ UNCHANGED <<row, work, msgs, media, bytes>>
     \/ /\ Fence(t)
        /\ \E pc \in {"settle"} \cup (IF task[t].result = "eligible" THEN {"advice"} ELSE {}) : Goes(t, pc)
        /\ UNCHANGED <<row, work, msgs, media, bytes>>
     \/ Pauses(t)

Advised(t) ==
  /\ task[t].pc = "advised"
  /\ task' = [task EXCEPT ![t].pc = "settle", ![t].result = "advised"]
  /\ UNCHANGED <<row, work, msgs, media, bytes>>

\* saveResult, terminal.
Settle(t) ==
  LET c == task[t].c IN
  /\ task[t].pc = "settle"
  /\ \/ /\ Fence(t)
        /\ case' = [case EXCEPT ![c].state = "complete", ![c].token = 0, ![c].result = task[t].result]
        /\ leased' = leased \ {c}
        /\ Goes(t, "done")
        /\ UNCHANGED <<late, purged, work, msgs, media, bytes>>
     \/ ~Fence(t) /\ Goes(t, "fail") /\ UNCHANGED <<row, work, msgs, media, bytes>>
     \/ Pauses(t)

\* The catch clause: it asks for the revision and the token, not for the lease or the state.
Catch(t) ==
  LET c == task[t].c IN
  /\ task[t].pc \in {"fail", "pause"}
  /\ IF case[c].rev = task[t].rev /\ case[c].token = task[t].token /\ ~Deleted(c)
     THEN /\ case' = [case EXCEPT ![c].token = 0,
                        ![c].state = IF task[t].pc = "pause" THEN "paused"
                                     ELSE IF task[t].result # "none" THEN "complete" ELSE "failed"]
          /\ leased' = leased \ {c}
     ELSE UNCHANGED <<case, leased>>
  /\ Goes(t, "done")
  /\ UNCHANGED <<late, purged, work, msgs, media, bytes>>

\* The consumer acknowledges what processBetaEvent has returned from.
Acknowledge(t) ==
  /\ task[t].pc = "done"
  /\ msgs' = msgs \ {[c |-> task[t].c, rev |-> task[t].rev, op |-> task[t].op]}
  /\ Ends(t)
  /\ UNCHANGED <<row, work, media, bytes>>

-----------------------------------------------------------------------------
(* expireBetaWork, three statements of the cron, and purgeBetaMedia.       *)

ExpireSteps ==
  /\ step' = [c \in Cases |-> [s \in Steps |->
       IF step[c][s] = "started"
          /\ (c \in late \/ (case[c].token # 0 /\ c \notin leased) \/ case[c].state \in {"deleted", "cancelled"})
       THEN "ambiguous" ELSE step[c][s]]]
  /\ step' # step
  /\ UNCHANGED <<row, calls, msgs, media, bytes, task>>

ExpireCase(c) ==
  /\ c \in late /\ case[c].state \in {"uploading", "queued", "analyzing", "paused"}
  /\ case' = [case EXCEPT ![c].state = "expired", ![c].rev = @ + 1, ![c].token = 0]
  /\ leased' = leased \ {c}
  /\ UNCHANGED <<late, purged, work, msgs, media, bytes, task>>

ExhaustCase(c) ==
  /\ case[c].attempts >= MaxAttempts /\ case[c].state \in {"queued", "analyzing"} /\ c \notin leased
  /\ case' = [case EXCEPT ![c].state = "failed", ![c].token = 0]
  /\ UNCHANGED <<leased, late, purged, work, msgs, media, bytes, task>>

StartPurge(t, c) ==
  /\ task[t] = Idle
  /\ Deleted(c) /\ c \notin purged
  /\ task' = [task EXCEPT ![t] = [Idle EXCEPT !.pc = "purge.delete", !.c = c]]
  /\ UNCHANGED <<row, work, msgs, media, bytes>>

PurgeObjects(t) ==
  /\ task[t].pc = "purge.delete"
  /\ object' = [object EXCEPT ![task[t].c] = {}]
  /\ Goes(t, "purge.mark")
  /\ UNCHANGED <<row, work, msgs, url, aged, bytes>>

Release(c) ==
  /\ purged' = purged \cup {c}
  /\ ledger' = [reserved |-> Monus(ledger.reserved, store[c].reserved),
                approved |-> Monus(ledger.approved, store[c].display + store[c].owned)]

\* Mutant: a second pass releases the storage again.
MarkPurgedTwice(t) ==
  LET c == task[t].c IN
  /\ task[t].pc = "purge.mark"
  /\ IF c \in aged THEN Release(c) ELSE UNCHANGED <<purged, ledger>>
  /\ Ends(t)
  /\ UNCHANGED <<case, leased, late, work, msgs, media, store>>

\* The mark commits only after both waits; otherwise a later pass deletes again.
MarkPurged(t) ==
  LET c == task[t].c IN
  /\ task[t].pc = "purge.mark"
  /\ IF c \in aged \ purged THEN Release(c) ELSE UNCHANGED <<purged, ledger>>
  /\ Ends(t)
  /\ UNCHANGED <<case, leased, late, work, msgs, media, store>>

-----------------------------------------------------------------------------
(* Time and faults.                                                        *)

LapseLease(c) ==
  /\ c \in leased
  /\ leased' = leased \ {c}
  /\ UNCHANGED <<case, late, purged, work, msgs, media, bytes, task>>

\* The URL is open for 10 minutes, the case for 15.
CloseUrl(c) ==
  /\ c \in url
  /\ url' = url \ {c}
  /\ UNCHANGED <<row, work, msgs, object, aged, bytes, task>>

PassDeadline(c) ==
  /\ case[c].state # "none" /\ c \notin url \cup late
  /\ late' = late \cup {c}
  /\ UNCHANGED <<case, leased, purged, work, msgs, media, bytes, task>>

\* Five minutes since the deletion and since the URL closed.  External assumption: a put together
\* with a purge pass, from its delete to its mark, takes less.  So every put has ended, and a pass
\* that is to mark after the wait began its delete after the last of them.
Age(c) ==
  /\ Deleted(c) /\ c \notin url \cup aged
  /\ \A t \in Tasks : task[t].c = c =>
       /\ task[t].pc \notin {"finalise.put", "display.put"}
       /\ task[t].pc = "purge.mark" => object[c] = {}
  /\ aged' = aged \cup {c}
  /\ UNCHANGED <<row, work, msgs, object, url, bytes, task>>

Die(t) ==
  /\ task[t] # Idle
  /\ Ends(t)
  /\ UNCHANGED <<row, work, msgs, media, bytes>>

-----------------------------------------------------------------------------
Finalising(t) == FinalisePut(t) \/ FinaliseCommit(t) \/ FinaliseCatch(t) \/ FinaliseClean(t)
Analysing(t) ==
  \/ Open(t) \/ (\E s \in Steps : BeginStep(t, s)) \/ CallProvider(t) \/ ProviderFails(t) \/ FinishStep(t)
  \/ CheckDisplay(t) \/ PutDisplay(t) \/ RecheckDisplay(t) \/ ChargeDisplay(t)
  \/ Branch(t) \/ SaveResult(t) \/ Advise(t) \/ Advised(t) \/ Settle(t) \/ Catch(t) \/ Acknowledge(t)
Purging(t) == PurgeObjects(t) \/ MarkPurged(t)
Proceed(t) == Finalising(t) \/ Analysing(t) \/ Purging(t)

Next ==
  \/ \E c \in Cases :
       \/ CreateCase(c) \/ Upload(c) \/ Cancel(c) \/ Delete(c) \/ Retry(c) \/ RequestAdvice(c)
       \/ ExpireCase(c) \/ ExhaustCase(c) \/ LapseLease(c) \/ CloseUrl(c) \/ PassDeadline(c) \/ Age(c)
       \/ \E t \in Tasks : FinaliseRead(t, c) \/ StartPurge(t, c)
  \/ \E m \in msgs : ClaimNothing(m) \/ \E t \in Tasks : Claim(t, m)
  \/ \E t \in Tasks : Proceed(t) \/ Die(t)
  \/ ExpireSteps

Spec == Init /\ [][Next]_vars

-----------------------------------------------------------------------------
(* Properties.                                                             *)

\* What the cases of S hold together, counted; a case holds at most two units.
Total(f, S) == Cardinality({x \in S \X (1..2) : x[2] <= f[x[1]]})
Stored(c) == Cardinality(object[c] \cap {"original", "display"})

CaseStates == {"none", "uploading", "queued", "analyzing", "complete", "failed", "paused", "safety",
               "cancelled", "expired", "deleted"}
Results == {"none", "plain", "eligible", "advised"}
Pcs == {"idle", "finalise.put", "finalise.commit", "finalise.catch", "finalise.clean", "open", "call", "finish",
        "display", "display.put", "display.check", "display.charge", "branch", "save", "advise", "advised",
        "settle", "fail", "pause", "done", "purge.delete", "purge.mark"} \cup Steps

\* The types of the variables.
TypeOK ==
  /\ case \in [Cases -> [state: CaseStates, rev: 1..(MaxRev + 2), token: 0..MaxAttempts,
                         attempts: 0..MaxAttempts, result: Results]]
  /\ leased \cup late \cup purged \cup url \cup aged \subseteq Cases
  /\ step \in [Cases -> [Steps -> {"none", "started", "completed", "ambiguous", "wiped"}]]
  /\ calls \in [Cases -> [Steps -> Nat]]
  /\ msgs \subseteq [c: Cases, rev: 1..(MaxRev + 2), op: {"analysis", "advice"}]
  /\ object \in [Cases -> SUBSET {"upload", "original", "display"}]
  /\ store \in [Cases -> [reserved: 0..2, display: 0..1, owned: 0..1]]
  /\ ledger \in [reserved: Nat, approved: Nat]
  /\ task \in [Tasks -> [pc: Pcs, c: Cases, rev: 0..(MaxRev + 2), op: {"none", "analysis", "advice"},
                         s: Steps \cup {"none"}, token: 0..MaxAttempts, result: Results]]

\* A provider is called at most once for each step of a case: lapsed leases, redelivered events,
\* administrators' retries and lost Workers never repeat an attempt that may have been billed.
OneCallPerStep == \A c \in Cases, s \in Steps : calls[c][s] <= 1

\* Late answers bring nothing back: a deleted case has no result and no output of a step, and a
\* case that is marked purged has no object, whatever was uploading or analysing it.
DeletionIsThorough ==
  /\ \A c \in Cases : Deleted(c) =>
       case[c].result = "none" /\ \A s \in Steps : step[c][s] # "completed"
  /\ \A c \in purged : object[c] = {}

\* The ledger is what the cases that are not purged hold beside the owner's other media, each
\* released once, and it covers every original and display copy in the bucket.
StorageIsCharged ==
  /\ ledger.reserved = OtherBytes + Total([c \in Cases |-> store[c].reserved], Cases \ purged)
  /\ ledger.approved = OtherBytes + Total([c \in Cases |-> store[c].display + store[c].owned], Cases \ purged)
  /\ \A c \in Cases \ purged : Stored(c) <= store[c].reserved + store[c].display + store[c].owned

=============================================================================
