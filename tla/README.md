# Lythaus: verification of the stateful core

TLA+ models of the parts of Lythaus that keep state across requests, Workers and
crashes, the TLC runs that check them, and TLAPS proofs of their safety for every value
of the constants. Every definition is translated from the TypeScript
of this repository; `PROJECT.json` gives, for each definition, the lines it stands for.

## 1. The system

Lythaus runs as Cloudflare Workers over one PlanetScale Postgres database:

| Worker | What it does | Scheduling |
|---|---|---|
| `apps/lythaus-public-api` | HTTP API for members | one invocation per request |
| `apps/lythaus-admin-api` | HTTP API for operators | one invocation per request |
| `apps/lythaus-jobs` | cron (`*/15 * * * *`), Queue consumers, Workflows | at-least-once delivery, `max_retries` 10; steps repeated when their result is lost |

They interact through database rows, through Queue messages written from an outbox
table, and through R2 buckets (`MEDIA_QUARANTINE`, `MEDIA_APPROVED`, `PRIVATE_EXPORTS`). Nothing is
shared in memory: every hard behaviour comes from transactions of different invocations that
interleave, and from an invocation that dies or loses its connection between two of them.

### Inventory

| Component | State | Operations | Hard behaviour | Correct when |
|---|---|---|---|---|
| Authentication and sessions | `identity.users` (status, token_version), `email_credentials`, `auth_sessions`, `refresh_token_families`, challenge tables | register, recovery, verify, login, refresh, logout, reset; admin status and deletion | reads before the row lock; replayed refresh tokens; admin and deletion writes in between | families never fork, no stale session survives, recovery never lifts enforcement |
| Transactional e-mail | `system.transactional_email_outbox`, advisory lock per account | enqueue, supersede, claim, sweep, deliver, lifecycle | provider call inside a transaction, deadline, dead Workers, lost COMMIT, duplicated events | one acceptance per row, no dead link, sealed data erased, every row settles |
| Standard media | `media.upload_sessions`, `media.storage_ledger`, two buckets | create, upload, finalise, process, reconcile; fence and purge of a deleted account | five handlers may settle one session; puts outlive row locks; deletes after commit | ledger balances, quota holds, approved objects stay, nothing leaks |
| Event outbox and consumer | `system.outbox_events`, `system.consumer_inbox`, the Queue | relay (claim, send, mark), consume (claim, reclaim, handle, complete) | duplicates, crashes between send and mark, stale claims | no event is lost, one handler at a time, every event is handled |
| Budget ledger | `system.cost_budget_reservations`, usage events, kill switches | reserve, settle, reconcile, expire, commit or release a case | reservations expire under a running call; retries reuse a key | exposure below the limit, headroom kept, calls charged |
| Idempotent mutations | `system.idempotency_keys` | claim, replay, work, finalize, quarantine | retry racing the first request; death after the effect; ambiguous commit | the effect happens once, answers are true |
| Content and its moderation | `content.posts`, `content.comments`, `social.profiles`, `moderation.cases`, `decisions`, `detector_runs` | create, edit, delete; review handlers; decide, reopen | evaluation between two transactions; redelivered and reordered events; stale screens | only what was allowed is public, no review is lost |
| Appeals | `moderation.appeals`, `appeal_assignments`, `appeal_review_votes`, `appeal_adjudications`, `appeal_outcomes`, a workflow | create, assign, vote, recuse, replace, suspend, evaluate, adjudicate, expire | votes lock their assignment and not the appeal; suspension after a vote; repeated steps | outcome follows votes, resolution is backed, closed is sealed, every appeal closes |
| Account deletion and export | `privacy.requests`, `export_manifests`, `legal_holds`, two workflows, the export bucket | request, lock, evaluate holds, erase, purge; build and publish an export | publication racing the purge; puts that outlive their transaction; administrators in between | erasure is complete, manifests have files, deletions end |
| Authenticity beta | `moderation.authenticity_beta`, `authenticity_beta_steps`, objects, storage ledger | create, upload, finalise, analyse, retry, advise, cancel, delete, purge | leases that lapse under billed calls; late answers after deletion; two purges | one call per step, thorough deletion, storage charged once |
| Community appeals, image detection, reputation and rewards, alpha, retention | their own tables | see `PROJECT.json` | leases, deadlines, closures | not modelled |
| Feeds, social graph, search, support feedback, activity log | rows written by one statement or one transaction | CRUD | little beyond database constraints | not modelled |
| Security and contracts packages, Flutter client, control panel, sites | none or client side | pure functions, UI | none that a model adds to | not modelled |

`PROJECT.json` lists all components with a status and 40 hazards with the line at which
each one bites; the properties below were written from that list.

## 2. Plan

1. `AuthSessions`: the most important behaviour, and the first proofs. **Done.**
2. `TransactionalEmail`, `StandardMedia`, `EventPipeline`, `BudgetLedger`, `Idempotency`. **Done.**
3. `ContentModeration`, `Appeals`, `AccountErasure` (with the media purge composed into
   `StandardMedia`), `AuthenticityBeta`, and the abstract specification `OnceOnly` that
   `Idempotency` implements. **Done.**
4. The safety of every module for any size: each invariant and action property that a run checks
   is a theorem (section 6). **Done.**
5. Models still worth writing: the retention workflow (a hold is checked, then acted on),
   image-detection leases, community appeals, the claim of a monthly reward.

## 3. The modules

Each component module has an `MC` module that instantiates it for TLC.
Where a definition is preceded by one marked *Mutant*, the mutant is a plausible bug in the same
code; TLC finds the corresponding property violated when it takes the definition's place.

**AuthSessions.** One action is one transaction, because every writing handler first locks the
`identity.users` row. What is read before the lock is a step of its own: `LoginRead`
(credential read and password check in `emailAuth`) and `PrincipalRead` (`principal`)
leave a request in flight, committed later by `LoginCommit`, `LogoutCommit` or
`CreateDeleteRequest`. `Rotate` and `DetectReuse` are `refreshSession`; `TokenState` is the CASE
expression of `lockRefreshSession`. Admin routes and the deletion workflow are actions too. A salted hash is a
number that every write increases; `epoch` is a history variable that counts real password
changes (a rehash at login changes the hash but not the epoch). Access tokens never expire in
the model, which only adds behaviours.

**TransactionalEmail.** Rows of one account. `Claim` commits before delivery; `BeginDelivery`
to `CommitDelivery` is one transaction that holds the account's advisory lock and the row lock
across the provider call, so `AuthLockFree` guards the API's actions. `DeliveryDeadline` is the 20 s race,
`LoseWorker` drops all locks and may orphan a call, which `LateAnswer` then accepts or drops.
`Sweep` fails claims older than five minutes. `Lifecycle` takes events in any order.

**StandardMedia.** Sessions, the ledger's two counters, the contents of both buckets, and
tasks: invocations of upload, finalise, the processor and the cron, each at a program counter.
Object-store calls are steps apart from the transaction around them. `LoseConnection`
releases the row lock while the put goes on. With `Erasing` the account's deletion runs beside
them: `EraseAccount`, `FenceSessions`, then `PurgeList`, one `PurgeObject` per object and
`PurgeCommit`. The updates wait for row locks, but nothing waits for a put that has lost its lock: the workflow's 16 minutes of sleep come before and behind a flag, and an
administrator may reinstate the account meanwhile (`ChangeAccount`), so uploads may be under way at each of them. `overtaken` is a
history variable: the sessions approved while an earlier put of their derivative, cut off from its connection, was still on its way.

**EventPipeline.** The outbox row, the relay's batch, up to `MaxCopies` copies of a message in the
Queue, the inbox row, and consumers at a program counter between each two statements of
`processMessage`. `Handle` stands for all event handlers; the modules below open some of them.

**BudgetLedger.** Reservations by key, workers inside `withBudgetAdmission` or inside a
case admission; `Admitted` is `isBudgetOperationAdmitted`, and the kill switch is an input of `Reserve`.

**Idempotency** and **OnceOnly.** The row of each key, and requests at a program counter inside
`idempotentMutation` and `runClaimedIdempotentWork`. A finalize may commit and still report failure.
`OnceOnly` is what an Idempotency-Key promises, without rows or requests: work at most once and never
after a verdict, one verdict per key, answers that repeat it. `Idempotency` instantiates it as `Promise` with
`count <- effects`, `verdict <- Verdicts` and `heard <- told`.

**ContentModeration.** A revision is the number of its source event; body, mode and hash change only with it.
The author's routes are actions; a consumer's work is a snapshot and an `Apply`, with the model's
evaluation between them; a moderator's screen is `seen`, loaded by `View` and used by `decideModeration` and
`reopenModerationCase` any time later. An event is acknowledged, or redelivered because the acknowledgement was lost.

**Appeals.** One appeal of risk class *standard*. Votes, recusals and the recusal of a suspended reviewer lock
an assignment row but not the appeal, so they have a begin and a commit; every other handler locks the appeal and is
one step. The workflow is at a program counter; `StepDone` repeats a step whose result was lost.
Weights and the 0.6 majority are those of `evaluateAppeal`. `adjudicateAppeal` refuses a resolution that overturns
(`appeal_resolution_unavailable`), as the code does.

**AccountErasure.** All privacy requests of one account, their events and workflows, and the export bucket.
A publication holds the account's row from its check to its commit (`AccountFree`), its put is a step of its own, and
`LoseConnection` leaves the put under way without the lock.

**AuthenticityBeta.** A case row with revision, lease and attempts, its steps, its objects and the storage ledger.
A task is a finalise request, an analysis or a purge pass at a program counter between two transactions,
provider calls or object-store calls, and may die there. `Fence` is the code's `fence`.

## 4. The runs

| Run | Instance | What it shows |
|---|---|---|
| `auth` | 1 user, 3 sessions, 2 challenges, 2 requests in flight | `OneLiveSessionPerFamily`, `SessionsAreCurrent`, `SessionsFollowPassword`, `OneOpenChallenge`, `RecoveryNeverLiftsEnforcement`, `RevokedFamilyIsDead` |
| `email` | 2 rows, 2 Workers, 3 attempts | `AcceptedAtMostOnce`, `NoDeadLinkInDelivery`, `EnvelopeOnlyWhilePending`, `SettledStaysSettled`, `EveryEmailSettles` |
| `media` | 2 sessions, 2 tasks, 2 bytes each, quota 3 | `LedgerBalances`, `WithinQuota`, `QueuedHasBytes`, `ApprovedKeepsDerivative`, `NothingUntracked` |
| `media_live` | 1 session, 2 tasks, the account's deletion | `ErasureIsTracked`, `EverySessionIsCleaned` |
| `pipeline` | 1 event, 2 relays, 2 consumers, 2 copies, 2 retries | `NoSilentLoss`, `HandledOneAtATime`, `EveryEventIsHandled` |
| `budget` | 2 calls, 2 cases, 2 workers, limits 2 to 7 | `ExposureBelowLimit`, `HeadroomKept`, `CallsAreCharged` |
| `idempotency` | 2 keys, 2 bodies, 3 requests | `EffectAtMostOnce`, `AnswersAreTrue`, `KeepsPromise` (refinement of `OnceOnly`) |
| `content` | a post, a comment or a profile with 2 revisions, 2 consumers, 2 moderators, 1 reopening | `PublicWasApproved`, `ReviewIsTracked`, `DeletionClosesCases` |
| `appeals` | 4 people (two of level 5, one of these an editor), 2 seats, 2 attempts, 1 withdrawn qualification or fault | `OutcomeFollowsVotes`, `ResolvedIsBacked`, `ClosedIsSealed`, `EveryAppealCloses` |
| `erasure` | 3 requests, 3 changes, 3 faults | `ErasureIsComplete`, `DownloadsAreServed`, `EveryDeletionEnds` |
| `erasure_admin` | 2 requests, 1 change, 1 fault | violation of `EveryAdminDeletionEnds`: see section 5 |
| `beta` | 1 case, 2 tasks, 2 attempts, 2 revisions | `OneCallPerStep`, `DeletionIsThorough`, `StorageIsCharged` |

Every module also states its types as `TypeOK`, with the constraints of the schema where it has them
(`ErasureTypeOK` and `AppealsTypeOK` in the modules that share a proof module with another). It has been checked on
these instances and is proved in section 6; the configurations list only the properties above.

**Why the bounds are enough.** Accounts do not interact, so one user with two requests in
flight shows every race of the code; three sessions give a rotation chain plus a second family, and
`MaxVersion` and `MaxHash` 3 leave room for a change on either side of a read. Two e-mail rows are a superseded link and
its successor, two Workers a claim racing a sweep, and three attempts a retry that is not the last. Two
upload sessions compete for a quota that holds one and a half of them; two tasks race for one session. Two consumers
are a claim's owner and the one that reclaims it, and either may meet the late duplicate. Budget costs and
limits are chosen so that every threshold both admits and rejects. Three requests are the first, its retry,
and a conflicting body. A text does not depend on others, except that a comment needs a public post, which may be another author's (`OthersPost`), so one text at a time is enough (`MaxContents`); its two revisions are an edit; two consumers take one revision
twice or both revisions; two moderators hold the same case in different cycles. Two seats and four people, numbered by the
hashes that rank them, leave two replacements and a pool from which a repeated assignment can draw beside an empty seat; a double
weight next to a single one makes a majority, two single ones a tie, and the editor may be drawn. Three
privacy requests are a deletion, an export and an administrator's. Two beta attempts are a lapsed
lease and its successor.

Larger instances that were checked once: appeals with two editors, and with two withdrawals or faults (safety); two upload
sessions of one byte, or three tasks on one session, with the deletion (safety); the beta with the code's three attempts.

**Deadlock** is checked in the media runs, where the system never has to stop. It is off in
the others because identifiers are used up there (a session, e-mail row, event, key or appeal is created once) or
counters reach their bound, after which the model may stop although the system goes on.

**Fairness** is stated where liveness is checked. The cron repeats every 15 minutes and
picks the oldest due rows, so a row that stays due is taken (weak fairness of `Claim`, `Sweep`; strong fairness of the
reconciler's and the relay's steps, which says that R2, the Queue or the database does not fail on one row for
ever). The Queue redelivers what is not acknowledged (strong fairness of `Deliver`); an invocation
goes on until it ends; deadlines fire and clocks advance. The platform keeps running a workflow until it ends (weak
fairness of `Workflow`); a
transaction on a reviewer's row commits or rolls back, and the suspensions that the Queue delivers over and over are handled
in the end (strong fairness of `SuspendedCommit` in `Appeals`). No fairness is assumed of users, reviewers, administrators, of the provider's success,
of lifecycle events or of the dispatch queue.

**Assumptions about what is outside the code.** A provider error that
`classifyEmailProviderFailure` calls transient or permanent means that the message was not accepted. An R2 put ends within the
15 minutes that `cleanup_due_at` allows. In the beta a put and a purge pass (from its delete to its mark) together take less than the five minutes
the purge waits, so a pass that straddles the end of the wait and marks has deleted after the last put (`Age`). The Queue delivers at least once and dead-letters
after `max_retries`. A case request commits or releases before its 15-minute reservation lapses;
this matters, because the commit in `authenticity-beta.ts` does not test the row's status. Accounts that need
manual recovery (`SupportOnly`) are absent from the TLC instance and arbitrary in the proofs.

## 5. What the runs found

**An administrator's deletion is never carried out** (`erasure_admin`, `apps/lythaus-admin-api/src/keeper-runtime.ts:275`). `deleteAdminUser`
records a request for the user and an event whose actor is the administrator. The consumer takes the request's subject from
the actor (`reconcilePrivacyRequestPayload`), finds no such request and throws `privacy_request_mismatch` on every delivery. No
workflow starts; the account is marked deleted but nothing is erased, while the route answers
`purgeState: pending_purge`. `EveryDeletionEnds` holds for the requests of users.

**What a reader should not conclude**, with what the code does instead:

- `HandledOneAtATime` excludes events in `overran`: a handler that outlives
  its five-minute claim does run beside the consumer that took the claim over. `CallsAreCharged` excludes reservations that expired
  under a call: that spend is not recorded by the code. `EveryEventIsHandled` accepts the dead-letter queue as an end, and a
  message can get there by meeting an unexpired claim too often.
- `ReviewIsTracked` excludes revisions whose event was acknowledged while the author was not active: no case is opened for them,
  not even when the account is restored.
- `OutcomeFollowsVotes` excludes appeals with a reviewer demoted to *none* or *eligible*: only a suspension leads to a new
  evaluation. A late `vote_locked` event replaces the state `adjudication_disagreement` by `pending_adjudication`. `EveryAppealCloses` accepts a failed workflow: a repeated
  assignment step that meets an unreplaced seat fails on the unique seat index.
  Appeals whose panel overturns stay open until they expire.
- `ErasureIsComplete` excludes objects stored by a put that outlived its lost connection
  (`docs/testing/privacy-export-publication-2026-10-11.md` describes the case). A hold placed after the evaluation step does not stop the redaction. A
  blocked request stays blocked, and the account locked, after the hold is cleared.
  About the content it says that every erasing step has run. The transaction that redacts content does not lock the account, so a post or comment of
  an account that was reinstated meanwhile, written before or after the account is marked deleted, stays unredacted; nobody who writes content is part of the model.
- `ErasureIsTracked` excludes the derivatives of `overtaken` sessions. A derivative's put loses its connection, the redelivered event stores its own and approves the
  session, the account is redacted, fenced and purged, and then the first put lands: its condition holds again because the object is gone. The
  session is approved, so the reconciler deletes its quarantine object only and that derivative stays. It needs an upload during a
  reinstatement, or the beta flag off, since the 16 minutes of sleep outlast a put begun before the lock. Without the exclusion TLC finds this behaviour in the instance of `media_live`.
- `NoDeadLinkInDelivery` does not cover the deletion of challenge rows with the account, which does not take the advisory lock, and
  `HandledOneAtATime` not the deletion of the account's `consumer_inbox` rows.
- `DeletionIsThorough` is about deleted and purged cases. Expired, cancelled and failed beta cases keep their objects and their
  reserved bytes until the owner deletes them or retention runs. When lease or deadline lapse between the last step and
  its result, the case becomes `complete` without a stored result.

## 6. The proofs

TLAPS checks eight modules. Each theorem holds for every value of the constants, from the assumptions that
the component modules name (`AuthConstants`, `MediaConstants`, ...): finite sets where something is counted, nonempty ones
where a row has to name a member, naturals for bounds and sizes. Every invariant and every action property that a passing run checks is
proved, and so is the refinement of `OnceOnly`.

| Proof module | About | Theorems that state a run's property |
|---|---|---|
| `AccountProofs` | `AuthSessions` | `FamiliesNeverFork`, `UsableSessionsAreCurrent`, `StaleLoginsAreRefused`, `ChallengesAreUnique`, `RevokedFamiliesStayDead`, `MailboxProofKeepsEnforcement` |
| | `AccountErasure` | `CompletedErasure`, `ServedDownloads` |
| `IdempotencyProofs` | `Idempotency`, `OnceOnly` | `EffectsHappenOnce`, `AnswersTellTheTruth`, `KeepsOnceOnly` |
| `TransactionalEmailProofs` | `TransactionalEmail` | `AcceptedOnce`, `NoDeadLink`, `EnvelopeLifetime`, `Settling` |
| `EventPipelineProofs` | `EventPipeline` | `NoLoss`, `OneAtATime` |
| `StandardMediaProofs` | `StandardMedia` | `LedgerIsExact`, `QuotaHolds`, `QueuedBytes`, `ApprovedBytes`, `CleanupIsFinal`, `ErasureTracked` |
| `BudgetLedgerProofs` | `BudgetLedger` | `SpendIsBounded`, `HeadroomHolds`, `ChargedCalls` |
| `ModerationProofs` | `ContentModeration` | `PublicApproval`, `ReviewsAreKept`, `DeletionsClose` |
| | `Appeals` | `OutcomeKept`, `ResolutionIsBacked`, `ClosedStaysSealed` |
| `AuthenticityBetaProofs` | `AuthenticityBeta` | `CalledOnce`, `DeletionIsFinal`, `StorageCharged` |

All follow one argument. An inductive invariant holds initially and is preserved by each action, one lemma or one case per action
or group of actions; the properties are parts of it or follow from it, and an action property follows from it and a case split of the
next-state relation. The inductive invariants were checked by TLC on small instances before they were proved. What each
one adds, and why:

**AuthSessions.** `OneLiveSessionPerFamily` alone is not inductive: a login could name a family
that already exists. `SessionsFollowPassword` is not either: it needs to know what a login in flight
remembers. `IndInv` adds

- `LiveIsCurrent`: every live session, in a revoked family or not, has the present status, version and epoch;
- `FamiliesAreKnown`: the session that names a family exists, so a new session names a new one;
- `LoginsKnowPassword`: a login whose verified hash is still the stored one carries the present epoch.
  This is what makes `lockLoginAccount`'s comparison of the hash sufficient;
- `UnregisteredHasNoHash`: registration, which writes the first hash, cannot repeat an old number.

`RevokedFamiliesStayDead`, `DeletionIsFinal` and `MailboxProofKeepsEnforcement` are action properties.

**AccountErasure.** `ErasureIsComplete` and `DownloadsAreServed` depend on where each workflow is. `PublishInv`: a publication under way
holds the row of an active account, so no deletion has passed the account's row. `ProgressInv`: what a deletion has erased by the time it is at
each position, which no later step undoes; from `reputation` on the account is deleted, hence no publication adds a manifest and the bucket
only gains what a lost connection left behind. `KindInv`: a workflow is of its request's type, so only the end of a deletion completes one.
`ErasureKeeps` states what all steps have in common (a deleted account stays deleted, its row changes only when no publication holds it, erased stores
stay erased) and gives the invariant; each action is then shown to be such a step.

**Idempotency.** `EffectAtMostOnce` needs to know that the request about to work is alone. `IndInv` adds `OneOwner` (a claimed key has at most one
request past its claim), `WorkInv` (the effect has not happened before the work, and
agrees with the answer after it), `RowInv` and `ToldInv` (rows and answers agree with effects). Note that a stale claim is quarantined,
never taken over; that is why one owner is enough. `CompletedRowsAreFinal` is an action property.

`KeepsOnceOnly` proves the refinement: the initial states map to `OnceOnly`'s, and by `PromiseStep` every step maps to
`Perform` (the work), `Decide` (a completed row), `Repeat` (a replayed answer) or a stutter. `IndInv` supplies what the mapping needs:
the work of a claimed key has not happened and its row is undecided (so `Perform` is enabled), and a completed row agrees with the effect
(so the verdict is the right one).

**TransactionalEmail.** At most one acceptance needs three facts: a row that can be claimed was never accepted, has no call under way and
is with no Worker (`RowInv`); a row is in the hands of one Worker, and not accepted while the attempt is undecided (`WorkerInv`); a call that lost its Worker is
the row's only chance (`OrphanInv`). They hold because a claim that is not resolved in time fails the row and never requeues it.

**EventPipeline.** `NoSilentLoss` rests on `SentInv` (a sent event is handled or has a message left) and, less obviously, on `CoverInv`: when the claim
row of an unhandled event is gone, the consumers that are about to acknowledge because they met it do not hold all its messages, since
whoever deleted the row had its own message retried. `ClaimInv` gives `HandledOneAtATime` for events whose consumers did not outlive their claim.

**StandardMedia.** `PcOK` says what is true of a session while a task is at each program counter, for instance that a cleanup on its way deletes a derivative
only of a discarded session, or that an approved session with a derivative still on its way is overtaken. `FencedInv`: behind the fence no open session has bytes, a
lock or a put. `PurgeInv`: what the purge has been through is gone, owed a cleanup or an overtaken derivative; it holds because a put under way has a session that is not due, hence not marked.

**BudgetLedger.** A case's reservation, which its commit does not look at again, is in the hands of one worker and not overdue (`WorkerInv`); a
call's reservation is settled together with its usage event (`RowInv`). The thresholds may be zero (`assertMoney` accepts that), and
a ledger without spending is then not *below* its threshold; `Below` says that whatever is spent is.

**ContentModeration.** `CaseInv`: a revision has no case before it exists, no older one is open beside the current one's, and a resolved case has a decision on the
text. `SubmittedInv`: what is only submitted is not public.

**Appeals.** Votes do not lock the appeal, so `ClosedIsSealed` needs that no vote is under way when it closes. `CastInv` says so; it is
preserved by `Expire` because that waits for the assigned rows, and by `adjudicateAppeal` because a panel that reaches its quorum has no assigned seat left (`FullPanel`: seats
are an injection of the reviewers into `1..ReviewerCount`, and the quorum is that number). `FullPanel` also gives `ResolvedIsBacked`.
`OutcomeInv` strengthens `OutcomeFollowsVotes`: the outcome row is right as soon as no vote event is pending and no
suspension of somebody who voted; `TrainedInv` (an untrained reviewer on the panel was demoted, or the suspension is pending) is needed for
somebody who is trained again. `Ranks` and `DrawnFit` show that a draw by rank gives distinct seats within the panel.

**AuthenticityBeta.** `CallInv`: a step that was begun has one caller and one that was not was not called. `CaseOK` lists the storage a row can have in each
state, `AgedInv` says that nothing writes once the waits of the purge are over, and `LedgerInv` is the ledger as a sum over the unpurged cases.

**Sums.** `Bytes`, `Cost` and `Total` count the pairs of an element and a number up to its value, so that what a step adds to or takes from a sum
follows from the library's theorems on cardinalities and needs no induction. `Weight` in `Appeals` is one cardinality plus
another for the same reason.

**Only model-checked.** The liveness properties (`EveryEmailSettles`, `EverySessionIsCleaned`, `EveryEventIsHandled`, `EveryAppealCloses`,
`EveryDeletionEnds`) need fairness and `ENABLED`, which this prover does not handle; `EveryAdminDeletionEnds` is violated (section 5). That the invariants of the
components compose, for instance that a handler of `EventPipeline` is one of `AccountErasure`'s, is an argument of this document and not a theorem.

## 7. Not modelled

- The retention workflow; high-risk appeals (which need two adjudicators) and the effects of a resolved appeal on reputation; community appeals.
- In `processMessage`, the deferral of monthly assessments; in the relay, the filter for paused event types.
- The alpha, its adviser's reservation and the period state column of the budget; the beta's feedback and review routes, its storage quota check,
  its refusal to delete under a hold, and `reconcileBetaCost`.
- Isolation between the steps of the scheduled handler: a step that always throws starves those after it. The
  liveness properties assume that each relay runs.
- Formatting, encryption, token signing, rate limits, activity and notification rows, logging.
- The repository's research scripts, evaluation library, client and sites: computation or presentation without shared state.
- The components marked `not_modelled` in `PROJECT.json`, with the reason there.
