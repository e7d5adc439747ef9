--------------------------- MODULE AccountErasure ---------------------------
(***************************************************************************)
(* The privacy requests of one account: deletion and export.  The public   *)
(* and the admin API record a request and its event; the jobs consumer     *)
(* starts a workflow for it.  AccountDeleteWorkflow locks the account,     *)
(* looks for legal holds and erases store after store; at the same time    *)
(* AccountExportWorkflow may publish an export object and its manifest,    *)
(* administrators may change the account, and operators place holds.       *)
(*                                                                         *)
(* A workflow step is repeated when its result is lost and the workflow    *)
(* ends in error when the repetitions run out.  The account's media are    *)
(* erased in StandardMedia.                                                *)
(***************************************************************************)
EXTENDS Naturals, FiniteSets

CONSTANTS
  MaxRequests,  \* privacy requests; exports have a cooldown of 30 days, so one of them is an export
  MaxChanges,   \* a bound on status changes and holds placed or cleared
  MaxFaults     \* a bound on lost results, rollbacks and lost connections

ASSUME ErasureConstants == MaxRequests \in Nat \ {0} /\ MaxChanges \in Nat /\ MaxFaults \in Nat

PrivacyRequests == 1..MaxRequests

VARIABLES
  account,   \* identity.users.status; deleted_at is set with 'deleted'
  hold,      \* an active row of privacy.legal_holds
  request,   \* privacy.requests: type, who asked, state
  event,     \* the privacy.request.created event: in the outbox, queued, blank (redacted), done, dead
  flow,      \* the position of each request's workflow
  object,    \* export objects in PRIVATE_EXPORTS
  manifest,  \* privacy.export_manifests
  late,      \* puts under way whose transaction is gone
  stray,     \* objects such a put has stored
  erased,    \* the stores a deletion has been through
  changes, faults

store == <<object, manifest, late, stray>>
bounds == <<changes, faults>>
erasureVars == <<account, hold, request, event, flow, store, erased, bounds>>

OpenStates == {"received", "blocked"}
Stores == {"activity", "content", "identity", "reputation"}
Running == {"lock", "evaluate", "support", "redact", "identity", "reputation", "exports", "manifests",
            "complete", "build", "publish", "put", "commit"}
NoRequest == [type |-> "none", by |-> "none", state |-> "none"]

ErasureInit ==
  /\ account = "active" /\ hold = FALSE
  /\ request = [q \in PrivacyRequests |-> NoRequest]
  /\ event = [q \in PrivacyRequests |-> "none"]
  /\ flow = [q \in PrivacyRequests |-> "none"]
  /\ object = {} /\ manifest = {} /\ late = {} /\ stray = {} /\ erased = {}
  /\ changes = 0 /\ faults = 0

\* A publication holds the row of the account from its check to its commit.
AccountFree == \A q \in PrivacyRequests : flow[q] \notin {"put", "commit"}

Unused(q) == request[q] = NoRequest /\ \A p \in PrivacyRequests : request[p] = NoRequest => q <= p
OfType(type, states) == {q \in PrivacyRequests : request[q].type = type /\ request[q].state \in states}
Record(q, type, by) ==
  /\ request' = [request EXCEPT ![q] = [type |-> type, by |-> by, state |-> "received"]]
  /\ event' = [event EXCEPT ![q] = "outbox"]

\* createPrivacyRequest, with the account's row locked.
createPrivacyRequest(q, type) ==
  /\ Unused(q) /\ AccountFree /\ account = "active"
  /\ OfType(type, OpenStates) = {}
  /\ type = "export" => OfType(type, {"completed"}) = {}
  /\ Record(q, type, "user")
  /\ UNCHANGED <<account, hold, flow, store, erased, bounds>>

\* deleteAdminUser: a received deletion is taken over, a blocked or completed one is not.
deleteAdminUser ==
  /\ AccountFree
  /\ account' = "deleted"
  /\ IF OfType("delete", {"received"}) # {} THEN UNCHANGED <<request, event>>
     ELSE \E q \in PrivacyRequests : Unused(q) /\ Record(q, "delete", "admin")
  /\ UNCHANGED <<hold, flow, store, erased, bounds>>

updateAccountStatus(status) ==
  /\ AccountFree /\ account \notin {"deleted", status} /\ changes < MaxChanges
  /\ account' = status
  /\ changes' = changes + 1
  /\ UNCHANGED <<hold, request, event, flow, store, erased, faults>>

\* legalHolds and clearLegalHold; no consumer listens to their events.
ChangeHold ==
  /\ changes < MaxChanges
  /\ hold' = ~hold
  /\ changes' = changes + 1
  /\ UNCHANGED <<account, request, event, flow, store, erased, faults>>

relayOutbox(q) ==
  /\ event[q] = "outbox"
  /\ event' = [event EXCEPT ![q] = "queued"]
  /\ UNCHANGED <<account, hold, request, flow, store, erased, bounds>>

\* reconcilePrivacyRequestPayload: the subject of a request is the actor of its event.
Subject(q) == request[q].by

\* The consumer compares the subject with the request's row and starts the workflow; an event of
\* another actor, or one that was blanked, fails on every delivery.
ConsumeRequest(q) ==
  /\ event[q] \in {"queued", "blank"}
  /\ IF event[q] = "queued" /\ Subject(q) = "user"
     THEN /\ flow' = [flow EXCEPT ![q] = IF request[q].type = "delete" THEN "lock" ELSE "build"]
          /\ event' = [event EXCEPT ![q] = "done"]
     ELSE event' = [event EXCEPT ![q] = "dead"] /\ UNCHANGED flow
  /\ UNCHANGED <<account, hold, request, store, erased, bounds>>

-----------------------------------------------------------------------------
At(q, pc) == flow[q] = pc
Go(q, pc) == flow' = [flow EXCEPT ![q] = pc] /\ UNCHANGED faults

\* A fault: the workflow goes on from an earlier position.
Fault(q, pc) == faults < MaxFaults /\ faults' = faults + 1 /\ flow' = [flow EXCEPT ![q] = pc]

\* A step has taken effect: its result is recorded, or lost and the step is repeated.
Step(q, first, next) == Go(q, next) \/ Fault(q, first)

\* The repetitions of a step run out.
GiveUp(q) ==
  /\ flow[q] \in Running
  /\ Fault(q, "errored")
  /\ UNCHANGED <<account, hold, request, event, store, erased, changes>>

(* AccountDeleteWorkflow.                                                  *)

\* lock-account-and-revoke-sessions: a suspended or deleted account keeps its status.
LockAccount(q) ==
  /\ At(q, "lock") /\ AccountFree
  /\ account' = IF account = "active" THEN "locked" ELSE account
  /\ Step(q, "lock", "evaluate")
  /\ UNCHANGED <<hold, request, event, store, erased, changes>>

\* Mutant: the workflow waits until the hold is cleared.
EvaluateWaiting(q) ==
  /\ At(q, "evaluate") /\ ~hold
  /\ Step(q, "evaluate", "support")
  /\ UNCHANGED <<account, hold, request, event, store, erased, changes>>

\* evaluate-legal-holds.
Evaluate(q) ==
  /\ At(q, "evaluate")
  /\ IF hold
     THEN /\ request' = IF request[q].state = "completed" THEN request
                        ELSE [request EXCEPT ![q].state = "blocked"]
          /\ Step(q, "evaluate", "blocked")
     ELSE Step(q, "evaluate", "support") /\ UNCHANGED request
  /\ UNCHANGED <<account, hold, event, store, erased, changes>>

\* purge-account-activity and purge-support-feedback, which fails under a hold where the support
\* tables are installed.
PurgeSupport(q) ==
  /\ At(q, "support")
  /\ \/ erased' = erased \cup {"activity"} /\ Step(q, "support", "redact")
     \/ hold /\ Go(q, "errored") /\ UNCHANGED erased
  /\ UNCHANGED <<account, hold, request, event, store, changes>>

\* redact-authoritative-content, first transaction: the content is redacted, and with it the
\* events that have not been relayed.  It does not lock the account; posts and comments, which a
\* reinstated account may still write, are not modelled.
RedactContent(q) ==
  /\ At(q, "redact")
  /\ erased' = erased \cup {"content"}
  /\ event' = [p \in PrivacyRequests |-> IF event[p] = "outbox" THEN "blank" ELSE event[p]]
  /\ Step(q, "redact", "identity")
  /\ UNCHANGED <<account, hold, request, store, changes>>

\* Second transaction of the same step, with the account's row locked.
EraseIdentity(q) ==
  /\ At(q, "identity") /\ AccountFree
  /\ account' = "deleted"
  /\ erased' = erased \cup {"identity"}
  /\ Step(q, "redact", "reputation")
  /\ UNCHANGED <<hold, request, event, store, changes>>

\* purge-terminal-reputation-balance insists on a deleted account.
PurgeReputation(q) ==
  /\ At(q, "reputation")
  /\ \/ /\ account = "deleted"
        /\ erased' = erased \cup {"reputation"}
        /\ Step(q, "reputation", "exports")
     \/ account # "deleted" /\ Go(q, "errored") /\ UNCHANGED erased
  /\ UNCHANGED <<account, hold, request, event, store, changes>>

\* purge-media-and-mark-locator: deleteR2Prefix, then the manifests.
DeleteExports(q) ==
  /\ At(q, "exports")
  /\ object' = {}
  /\ Step(q, "exports", "manifests")
  /\ UNCHANGED <<account, hold, request, event, manifest, late, stray, erased, changes>>

DeleteManifests(q) ==
  /\ At(q, "manifests")
  /\ manifest' = {}
  /\ Step(q, "exports", "complete")
  /\ UNCHANGED <<account, hold, request, event, object, late, stray, erased, changes>>

\* complete-request-and-tombstone.
CompleteDeletion(q) ==
  /\ At(q, "complete")
  /\ request' = [request EXCEPT ![q].state = "completed"]
  /\ Step(q, "complete", "done")
  /\ UNCHANGED <<account, hold, event, store, erased, changes>>

-----------------------------------------------------------------------------
(* AccountExportWorkflow.                                                  *)

BuildPassport(q) ==
  /\ At(q, "build")
  /\ Step(q, "build", "publish")
  /\ UNCHANGED <<account, hold, request, event, store, erased, changes>>

\* Mutant: the account that was active for the passport is not checked again.
PublishBeginUnchecked(q) ==
  /\ At(q, "publish") /\ AccountFree
  /\ Go(q, "put")
  /\ UNCHANGED <<account, hold, request, event, store, erased, changes>>

\* Mutant: the manifest commits before the object is put.
PublishManifestFirst(q) ==
  /\ At(q, "publish") /\ AccountFree
  /\ \/ account = "active" /\ Go(q, "put") /\ manifest' = manifest \cup {q}
     \/ account # "active" /\ Go(q, "errored") /\ UNCHANGED manifest
  /\ UNCHANGED <<account, hold, request, event, object, late, stray, erased, changes>>

\* store-export-and-complete-request: the rows of the request and of the account are locked, and
\* an account that is not active is refused, at the latest when the repetitions run out.
PublishBegin(q) ==
  /\ At(q, "publish") /\ AccountFree
  /\ \/ account = "active" /\ Go(q, "put")
     \/ account # "active" /\ Go(q, "errored")
  /\ UNCHANGED <<account, hold, request, event, store, erased, changes>>

\* storePrivateExportObject.
PutExport(q) ==
  /\ At(q, "put")
  /\ object' = object \cup {q}
  /\ Go(q, "commit")
  /\ UNCHANGED <<account, hold, request, event, manifest, late, stray, erased, changes>>

\* The manifest and the completed request commit; a repeated step publishes again.
CommitExport(q) ==
  /\ At(q, "commit")
  /\ manifest' = manifest \cup {q}
  /\ request' = [request EXCEPT ![q].state = "completed"]
  /\ Step(q, "publish", "done")
  /\ UNCHANGED <<account, hold, event, object, late, stray, erased, changes>>

\* The transaction fails and rolls back; the step is repeated.
RollBack(q) ==
  /\ flow[q] \in {"put", "commit"}
  /\ Fault(q, "publish")
  /\ UNCHANGED <<account, hold, request, event, store, erased, changes>>

\* The connection is lost under the put: the locks are gone, the put is not.
LoseConnection(q) ==
  /\ At(q, "put")
  /\ late' = late \cup {q}
  /\ Fault(q, "publish")
  /\ UNCHANGED <<account, hold, request, event, object, manifest, stray, erased, changes>>

LatePut(q) ==
  /\ q \in late
  /\ late' = late \ {q}
  /\ object' = object \cup {q} /\ stray' = stray \cup {q}
  /\ UNCHANGED <<account, hold, request, event, flow, manifest, erased, bounds>>

-----------------------------------------------------------------------------
Workflow(q) ==
  \/ LockAccount(q) \/ Evaluate(q) \/ PurgeSupport(q) \/ RedactContent(q) \/ EraseIdentity(q)
  \/ PurgeReputation(q) \/ DeleteExports(q) \/ DeleteManifests(q) \/ CompleteDeletion(q)
  \/ BuildPassport(q) \/ PublishBegin(q) \/ PutExport(q) \/ CommitExport(q)

ErasureNext ==
  \/ \E q \in PrivacyRequests :
       \/ \E type \in {"delete", "export"} : createPrivacyRequest(q, type)
       \/ relayOutbox(q) \/ ConsumeRequest(q) \/ Workflow(q)
       \/ GiveUp(q) \/ RollBack(q) \/ LoseConnection(q) \/ LatePut(q)
  \/ deleteAdminUser \/ ChangeHold
  \/ \E status \in {"active", "suspended", "locked"} : updateAccountStatus(status)

ErasureSpec == ErasureInit /\ [][ErasureNext]_erasureVars

\* The relay and the queue deliver, and the platform keeps running every workflow.
FairErasureSpec ==
  /\ ErasureSpec
  /\ \A q \in PrivacyRequests :
       WF_erasureVars(relayOutbox(q)) /\ WF_erasureVars(ConsumeRequest(q)) /\ WF_erasureVars(Workflow(q))

-----------------------------------------------------------------------------
(* Properties.                                                             *)

\* The types of the variables.
ErasureTypeOK ==
  /\ account \in {"active", "suspended", "locked", "deleted"} /\ hold \in BOOLEAN
  /\ request \in [PrivacyRequests -> [type: {"none", "delete", "export"}, by: {"none", "user", "admin"},
                           state: {"none", "completed"} \cup OpenStates]]
  /\ event \in [PrivacyRequests -> {"none", "outbox", "queued", "blank", "done", "dead"}]
  /\ flow \in [PrivacyRequests -> {"none", "blocked", "errored", "done"} \cup Running]
  /\ object \subseteq PrivacyRequests /\ manifest \subseteq PrivacyRequests
  /\ late \subseteq PrivacyRequests /\ stray \subseteq PrivacyRequests
  /\ erased \subseteq Stores
  /\ changes \in 0..MaxChanges /\ faults \in 0..MaxFaults

\* When a deletion is reported complete it has been through every store, the account is deleted
\* and no export can be downloaded: no publication, repeated step, reinstatement or second request
\* brings back the account, a manifest or an object.  The only objects left are those of a put
\* whose transaction had lost its connection.
ErasureIsComplete ==
  OfType("delete", {"completed"}) # {} =>
    account = "deleted" /\ erased = Stores /\ manifest = {} /\ object \subseteq stray

\* A manifest has its object as long as its owner can ask for it: neither a failed publication
\* nor a deletion under way leaves a download without its file.
DownloadsAreServed == \A q \in manifest : q \in object \/ account = "deleted"

Ended(q) == request[q].state \in {"blocked", "completed"} \/ flow[q] = "errored"

\* A deletion the user asked for is carried out, blocked by a hold, or its workflow has failed
\* for good.
EveryDeletionEnds == \A q \in PrivacyRequests : request[q].type = "delete" /\ request[q].by = "user" ~> Ended(q)

\* The same of an administrator's deletion, which is answered with purgeState 'pending_purge'.
EveryAdminDeletionEnds == \A q \in PrivacyRequests : request[q].type = "delete" /\ request[q].by = "admin" ~> Ended(q)

=============================================================================
