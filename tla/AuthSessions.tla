---------------------------- MODULE AuthSessions ----------------------------
(***************************************************************************)
(* Accounts, refresh-token families, access-token versions and mailbox     *)
(* challenges of the Lythaus public API, with the admin and jobs Workers   *)
(* that change an account behind its back.                                 *)
(*                                                                         *)
(* Every handler that writes runs its writes in one database transaction   *)
(* that first locks the identity.users row, so one action is one           *)
(* transaction.  What a handler reads BEFORE that lock is a step of its    *)
(* own: LoginRead (credential read and password check) and PrincipalRead   *)
(* (access-token check) leave a request in flight that a later action      *)
(* commits, with any number of other transactions in between.              *)
(*                                                                         *)
(* Abstractions.  A password hash is salted, so each write of one is a new *)
(* value: hash[u] numbers them.  A session row stands for its refresh      *)
(* token and for the access token issued with it; a family is named by its *)
(* first session.  Access tokens are never expired here (the code expires  *)
(* them after 900 s), which only admits more behaviours.                   *)
(***************************************************************************)
EXTENDS Naturals

CONSTANTS
  Users,        \* accounts, one per e-mail address
  SupportOnly,  \* accounts with a recoverySupportReason: recovery is manual
  Sessions,     \* session identifiers
  Challenges,   \* verification and reset token identifiers
  Requests,     \* HTTP requests in flight
  MaxVersion,   \* bound on token_version
  MaxHash       \* bound on the number of password hashes of an account

ASSUME AuthConstants ==
  /\ Users # {} /\ SupportOnly \subseteq Users
  /\ MaxVersion \in Nat \ {0} /\ MaxHash \in Nat

VARIABLES
  status,    \* identity.users.status, "none" before registration
  version,   \* identity.users.token_version
  cred,      \* identity.email_credentials: none, unverified or verified
  hash,      \* number of the current password_hash
  deletion,  \* the account's privacy deletion request
  sess,      \* identity.auth_sessions
  revoked,   \* identity.refresh_token_families with revoked_at set
  chal,      \* email_verification_tokens and password_reset_tokens
  req,       \* requests between their unlocked read and their transaction
  epoch      \* history: how often the account's password was replaced

vars == <<status, version, cred, hash, deletion, sess, revoked, chal, req, epoch>>

Statuses == {"none", "active", "suspended", "locked", "deleted", "relink_required"}
Purposes == {"verification", "password_reset"}

SessionRows == [state: {"none", "live", "revoked", "purged"}, age: {"current", "expired"},
                user: Users, family: Sessions, version: Nat, epoch: Nat]
ChallengeRows == [state: {"none", "live", "consumed", "superseded", "purged"},
                  age: {"fresh", "aged", "expired"}, user: Users, purpose: Purposes]
RequestRows == [kind: {"idle", "login", "logout", "delete"}, user: Users,
                hash: Nat, epoch: Nat]

AnyUser == CHOOSE u \in Users : TRUE
Idle == [kind |-> "idle", user |-> AnyUser, hash |-> 0, epoch |-> 0]

\* Accounts are new, or legacy ones imported without a credential.
Init ==
  /\ status \in [Users -> {"none", "relink_required"}]
  /\ version = [u \in Users |-> 1]
  /\ cred = [u \in Users |-> "none"]
  /\ hash = [u \in Users |-> 0]
  /\ deletion = [u \in Users |-> "none"]
  /\ sess = [s \in Sessions |-> [state |-> "none", age |-> "current", user |-> AnyUser,
                                 family |-> s, version |-> 0, epoch |-> 0]]
  /\ revoked = {}
  /\ chal = [c \in Challenges |-> [state |-> "none", age |-> "fresh", user |-> AnyUser,
                                   purpose |-> "verification"]]
  /\ req = [r \in Requests |-> Idle]
  /\ epoch = [u \in Users |-> 0]

-----------------------------------------------------------------------------
(* Policies and the effects several transactions share.                    *)

\* isCurrentActivePrincipal: does the API accept the access token issued with s?
Accepts(s) ==
  /\ sess[s].state # "none"
  /\ status[sess[s].user] = "active"
  /\ sess[s].version = version[sess[s].user]

\* Mutant: the token state computed without the family join.
TokenStateIgnoringFamily(s) ==
  IF sess[s].age = "expired" THEN "expired"
  ELSE IF sess[s].state = "revoked" THEN "revoked" ELSE "active"

\* The token_state that lockRefreshSession computes under the account lock.
TokenState(s) ==
  IF sess[s].family \in revoked THEN "family_revoked"
  ELSE IF sess[s].age = "expired" THEN "expired"
  ELSE IF sess[s].state = "revoked" THEN "revoked" ELSE "active"

\* The session rows of an account, and the families they belong to.
SessionsOf(u) == {s \in Sessions : sess[s].state \in {"live", "revoked"} /\ sess[s].user = u}
FamiliesOf(u) == {sess[s].family : s \in SessionsOf(u)}

\* UPDATE auth_sessions and refresh_token_families SET revoked_at WHERE user_id = u.
RevokeSessionsOf(u) ==
  /\ sess' = [s \in Sessions |-> IF s \in SessionsOf(u)
                                 THEN [sess[s] EXCEPT !.state = "revoked"] ELSE sess[s]]
  /\ revoked' = revoked \cup FamiliesOf(u)

\* token_version = token_version + 1
BumpTokenVersion(u) ==
  /\ version[u] < MaxVersion
  /\ version' = [version EXCEPT ![u] = @ + 1]

\* A new password hash replaces the account's password.
SetPassword(u) ==
  /\ hash[u] < MaxHash
  /\ hash' = [hash EXCEPT ![u] = @ + 1]
  /\ epoch' = [epoch EXCEPT ![u] = @ + 1]

\* Mutant: the plan looks at the credential and not at the account status.
RecoveryPlanIgnoringStatus(u) ==
  IF u \in SupportOnly THEN "support_required"
  ELSE IF cred[u] = "verified" THEN "reset_password" ELSE "credential_setup"

\* recoveryPlan: what mailbox proof may do for an account.
RecoveryPlan(u) ==
  IF status[u] \notin {"active", "relink_required"} THEN "suppressed"
  ELSE IF u \in SupportOnly THEN "support_required"
  ELSE IF cred[u] = "verified" /\ status[u] = "active" THEN "reset_password"
  ELSE "credential_setup"

\* Challenges of u for purpose p that are neither consumed nor superseded.
Open(u, p) == {c \in Challenges : chal[c].state = "live" /\ chal[c].user = u /\ chal[c].purpose = p}

\* Consume c and supersede every other open challenge of its account and purpose.
ConsumeChallenge(c) ==
  chal' = [d \in Challenges |->
             IF d = c THEN [chal[d] EXCEPT !.state = "consumed"]
             ELSE IF d \in Open(chal[c].user, chal[c].purpose)
                  THEN [chal[d] EXCEPT !.state = "superseded"] ELSE chal[d]]

\* Mutant: the older challenges stay open.
IssueChallengeKeepingOld(c, u, p) ==
  /\ chal[c].state = "none"
  /\ chal' = [chal EXCEPT ![c] = [state |-> "live", age |-> "fresh", user |-> u, purpose |-> p]]

\* Supersede the open challenges of u for p and insert the new challenge c.
IssueChallenge(c, u, p) ==
  /\ chal[c].state = "none"
  /\ chal' = [d \in Challenges |->
                IF d = c THEN [state |-> "live", age |-> "fresh", user |-> u, purpose |-> p]
                ELSE IF d \in Open(u, p) THEN [chal[d] EXCEPT !.state = "superseded"]
                ELSE chal[d]]

-----------------------------------------------------------------------------
(* Public API: registration, mailbox challenges, password changes.         *)

\* emailAuth, mode register: account, unverified credential and challenge in one commit.
Register(u, c) ==
  /\ status[u] = "none"
  /\ status' = [status EXCEPT ![u] = "active"]
  /\ cred' = [cred EXCEPT ![u] = "unverified"]
  /\ hash' = [hash EXCEPT ![u] = 1]
  /\ IssueChallenge(c, u, "verification")
  /\ UNCHANGED <<version, deletion, sess, revoked, req, epoch>>

\* queueRecoveryEmail, for a resend (intent verification) or a reset request (recovery).
QueueRecoveryEmail(u, intent, c) ==
  LET purpose == IF RecoveryPlan(u) = "credential_setup" THEN "verification" ELSE "password_reset"
  IN /\ RecoveryPlan(u) \in {"credential_setup", "reset_password"}
     /\ ~(intent = "verification" /\ RecoveryPlan(u) = "reset_password")
     /\ \A d \in Open(u, purpose) : chal[d].age # "fresh"
     /\ IssueChallenge(c, u, purpose)
     /\ UNCHANGED <<status, version, cred, hash, deletion, sess, revoked, req, epoch>>

\* verifyEmail and establishVerifiedCredential.
VerifyEmail(c) ==
  LET u == chal[c].user
  IN /\ chal[c].purpose = "verification"
     /\ RecoveryPlan(u) = "credential_setup"
     /\ chal[c].state = "live" /\ chal[c].age # "expired"
     /\ ConsumeChallenge(c)
     /\ SetPassword(u)
     /\ cred' = [cred EXCEPT ![u] = "verified"]
     /\ status' = [status EXCEPT ![u] = "active"]
     /\ BumpTokenVersion(u)
     /\ RevokeSessionsOf(u)
     /\ UNCHANGED <<deletion, req>>

\* completePasswordReset.
CompletePasswordReset(c) ==
  LET u == chal[c].user
  IN /\ chal[c].purpose = "password_reset"
     /\ RecoveryPlan(u) = "reset_password"
     /\ chal[c].state = "live" /\ chal[c].age # "expired"
     /\ ConsumeChallenge(c)
     /\ SetPassword(u)
     /\ RevokeSessionsOf(u)
     /\ BumpTokenVersion(u)
     /\ UNCHANGED <<status, cred, deletion, req>>

-----------------------------------------------------------------------------
(* Public API: sessions.                                                   *)

\* emailAuth, mode login: unlocked read of the credential; the password matches it.
LoginRead(r, u) ==
  /\ req[r].kind = "idle"
  /\ status[u] = "active" /\ cred[u] = "verified"
  /\ req' = [req EXCEPT ![r] = [kind |-> "login", user |-> u, hash |-> hash[u], epoch |-> epoch[u]]]
  /\ UNCHANGED <<status, version, cred, hash, deletion, sess, revoked, chal, epoch>>

\* Mutant: the transaction trusts the password check made before the lock.
LoginAccountActive(u, verifiedHash) == status[u] = "active" /\ cred[u] = "verified"

\* lockLoginAccount: the account is still active and still has the hash that was verified.
LoginAccountUnchanged(u, verifiedHash) ==
  /\ status[u] = "active"
  /\ cred[u] = "verified" /\ hash[u] = verifiedHash

\* issueSession; needsPasswordRehash decides whether the same password is hashed anew.
LoginCommit(r, s, rehash) ==
  LET u == req[r].user
  IN /\ req[r].kind = "login"
     /\ LoginAccountUnchanged(u, req[r].hash)
     /\ sess[s].state = "none"
     /\ rehash => hash[u] < MaxHash
     /\ sess' = [sess EXCEPT ![s] = [state |-> "live", age |-> "current", user |-> u, family |-> s,
                                     version |-> version[u], epoch |-> req[r].epoch]]
     /\ hash' = IF rehash THEN [hash EXCEPT ![u] = @ + 1] ELSE hash
     /\ req' = [req EXCEPT ![r] = Idle]
     /\ UNCHANGED <<status, version, cred, deletion, revoked, chal, epoch>>

\* The login transaction rolls back with account_unavailable.
LoginRefused(r) ==
  /\ req[r].kind = "login"
  /\ ~LoginAccountUnchanged(req[r].user, req[r].hash)
  /\ req' = [req EXCEPT ![r] = Idle]
  /\ UNCHANGED <<status, version, cred, hash, deletion, sess, revoked, chal, epoch>>

\* Mutant: the presented session is not revoked when its successor is inserted.
RotateKeepingOld(s, n) ==
  /\ sess[s].state \in {"live", "revoked"}
  /\ TokenState(s) = "active" /\ status[sess[s].user] = "active"
  /\ sess[n].state = "none"
  /\ sess' = [sess EXCEPT ![n] = [sess[s] EXCEPT !.version = version[sess[s].user]]]
  /\ UNCHANGED <<status, version, cred, hash, deletion, revoked, chal, req, epoch>>

\* refreshSession with the token of s: rotation to the new session n.
Rotate(s, n) ==
  LET u == sess[s].user
  IN /\ sess[s].state \in {"live", "revoked"}
     /\ TokenState(s) = "active" /\ status[u] = "active"
     /\ sess[n].state = "none"
     /\ sess' = [sess EXCEPT ![s].state = "revoked",
                             ![n] = [state |-> "live", age |-> "current", user |-> u,
                                     family |-> sess[s].family, version |-> version[u],
                                     epoch |-> sess[s].epoch]]
     /\ UNCHANGED <<status, version, cred, hash, deletion, revoked, chal, req, epoch>>

\* refreshSession with a token that was already rotated away: the family is revoked.
DetectReuse(s) ==
  /\ sess[s].state \in {"live", "revoked"}
  /\ TokenState(s) = "revoked"
  /\ revoked' = revoked \cup {sess[s].family}
  /\ UNCHANGED <<status, version, cred, hash, deletion, sess, chal, req, epoch>>

\* Mutant: logout ends the presented family only.
LogoutOneFamily(s) ==
  /\ sess[s].state \in {"live", "revoked"}
  /\ TokenState(s) \in {"active", "revoked"}
  /\ revoked' = revoked \cup {sess[s].family}
  /\ BumpTokenVersion(sess[s].user)
  /\ UNCHANGED <<status, cred, hash, deletion, sess, chal, req, epoch>>

\* logout with a refresh token: ignored unless the token is active or merely rotated.
Logout(s) ==
  /\ sess[s].state \in {"live", "revoked"}
  /\ TokenState(s) \in {"active", "revoked"}
  /\ RevokeSessionsOf(sess[s].user)
  /\ BumpTokenVersion(sess[s].user)
  /\ UNCHANGED <<status, cred, hash, deletion, chal, req, epoch>>

\* principal(): the access token of s is checked before the handler's transaction.
PrincipalRead(r, s, kind) ==
  /\ req[r].kind = "idle"
  /\ Accepts(s)
  /\ req' = [req EXCEPT ![r] = [kind |-> kind, user |-> sess[s].user, hash |-> 0, epoch |-> 0]]
  /\ UNCHANGED <<status, version, cred, hash, deletion, sess, revoked, chal, epoch>>

\* logout from a native client without a refresh token.
LogoutCommit(r) ==
  /\ req[r].kind = "logout"
  /\ RevokeSessionsOf(req[r].user)
  /\ BumpTokenVersion(req[r].user)
  /\ req' = [req EXCEPT ![r] = Idle]
  /\ UNCHANGED <<status, cred, hash, deletion, chal, epoch>>

\* createPrivacyRequest of type delete; it rechecks the status, not the token.
CreateDeleteRequest(r) ==
  LET u == req[r].user
  IN /\ req[r].kind = "delete"
     /\ deletion' = IF status[u] = "active" /\ deletion[u] = "none"
                    THEN [deletion EXCEPT ![u] = "requested"] ELSE deletion
     /\ req' = [req EXCEPT ![r] = Idle]
     /\ UNCHANGED <<status, version, cred, hash, sess, revoked, chal, epoch>>

-----------------------------------------------------------------------------
(* Admin API and the account deletion workflow.                            *)

\* updateAccountStatus: suspend, lock or reactivate.
UpdateAccountStatus(u, st) ==
  /\ status[u] \notin {"none", "deleted"}
  /\ status' = [status EXCEPT ![u] = st]
  /\ BumpTokenVersion(u)
  /\ RevokeSessionsOf(u)
  /\ UNCHANGED <<cred, hash, deletion, chal, req, epoch>>

\* revokeAdminUserSessions of the keeper runtime.
RevokeAdminUserSessions(u) ==
  /\ status[u] # "none"
  /\ RevokeSessionsOf(u)
  /\ BumpTokenVersion(u)
  /\ UNCHANGED <<status, cred, hash, deletion, chal, req, epoch>>

\* deleteAdminUser: the account is deleted at once, its data by the workflow.
DeleteAdminUser(u) ==
  /\ status[u] # "none"
  /\ deletion' = [deletion EXCEPT ![u] = IF @ = "none" THEN "requested" ELSE @]
  /\ status' = [status EXCEPT ![u] = "deleted"]
  /\ BumpTokenVersion(u)
  /\ RevokeSessionsOf(u)
  /\ UNCHANGED <<cred, hash, chal, req, epoch>>

\* AccountDeleteWorkflow, step lock-account-and-revoke-sessions, perhaps retried.
DeleteLock(u) ==
  /\ deletion[u] \in {"requested", "locked"}
  /\ deletion' = [deletion EXCEPT ![u] = "locked"]
  /\ status' = [status EXCEPT ![u] = IF @ \in {"active", "locked"} THEN "locked" ELSE @]
  /\ RevokeSessionsOf(u)
  /\ UNCHANGED <<version, cred, hash, chal, req, epoch>>

\* AccountDeleteWorkflow, the purge of identity rows.
DeletePurge(u) ==
  /\ deletion[u] = "locked"
  /\ deletion' = [deletion EXCEPT ![u] = "purged"]
  /\ status' = [status EXCEPT ![u] = "deleted"]
  /\ cred' = [cred EXCEPT ![u] = "none"]
  /\ sess' = [s \in Sessions |-> IF s \in SessionsOf(u)
                                 THEN [sess[s] EXCEPT !.state = "purged"] ELSE sess[s]]
  /\ revoked' = revoked \ FamiliesOf(u)
  /\ chal' = [c \in Challenges |-> IF chal[c].state # "none" /\ chal[c].user = u
                                   THEN [chal[c] EXCEPT !.state = "purged"] ELSE chal[c]]
  /\ UNCHANGED <<version, hash, req, epoch>>

-----------------------------------------------------------------------------
(* Time: expires_at of sessions (30 days) and challenges (30 minutes), and *)
(* the 30 second cooldown of a challenge.                                  *)

ExpireSession(s) ==
  /\ sess[s].state \in {"live", "revoked"} /\ sess[s].age = "current"
  /\ sess' = [sess EXCEPT ![s].age = "expired"]
  /\ UNCHANGED <<status, version, cred, hash, deletion, revoked, chal, req, epoch>>

AgeChallenge(c) ==
  /\ chal[c].state = "live" /\ chal[c].age # "expired"
  /\ chal' = [chal EXCEPT ![c].age = IF @ = "fresh" THEN "aged" ELSE "expired"]
  /\ UNCHANGED <<status, version, cred, hash, deletion, sess, revoked, req, epoch>>

UserSteps(u) ==
  \/ \E c \in Challenges : Register(u, c)
  \/ \E c \in Challenges, intent \in {"verification", "recovery"} : QueueRecoveryEmail(u, intent, c)
  \/ \E r \in Requests : LoginRead(r, u)
  \/ \E st \in {"active", "suspended", "locked"} : UpdateAccountStatus(u, st)
  \/ RevokeAdminUserSessions(u)
  \/ DeleteAdminUser(u)
  \/ DeleteLock(u)
  \/ DeletePurge(u)

RequestSteps(r) ==
  \/ \E s \in Sessions, rehash \in BOOLEAN : LoginCommit(r, s, rehash)
  \/ LoginRefused(r)
  \/ \E s \in Sessions, kind \in {"logout", "delete"} : PrincipalRead(r, s, kind)
  \/ LogoutCommit(r)
  \/ CreateDeleteRequest(r)

SessionSteps(s) ==
  \/ \E n \in Sessions : Rotate(s, n)
  \/ DetectReuse(s)
  \/ Logout(s)
  \/ ExpireSession(s)

ChallengeSteps(c) == VerifyEmail(c) \/ CompletePasswordReset(c) \/ AgeChallenge(c)

Next ==
  \/ \E u \in Users : UserSteps(u)
  \/ \E r \in Requests : RequestSteps(r)
  \/ \E s \in Sessions : SessionSteps(s)
  \/ \E c \in Challenges : ChallengeSteps(c)

Spec == Init /\ [][Next]_vars

-----------------------------------------------------------------------------
(* Properties.                                                             *)

\* Every variable keeps its type: rows, versions, hash numbers and requests.
TypeOK ==
  /\ status \in [Users -> Statuses]
  /\ version \in [Users -> 1 .. MaxVersion]
  /\ cred \in [Users -> {"none", "unverified", "verified"}]
  /\ hash \in [Users -> Nat]
  /\ deletion \in [Users -> {"none", "requested", "locked", "purged"}]
  /\ sess \in [Sessions -> SessionRows]
  /\ revoked \subseteq Sessions
  /\ chal \in [Challenges -> ChallengeRows]
  /\ req \in [Requests -> RequestRows]
  /\ epoch \in [Users -> Nat]

\* A session whose refresh token can still be exchanged, if it has not expired.
Usable(s) == sess[s].state = "live" /\ sess[s].family \notin revoked

\* Rotation never forks a family: however refreshes interleave, a refresh family has
\* at most one live session (refreshSession, rotateAuthSession).
OneLiveSessionPerFamily ==
  \A s, t \in Sessions :
    sess[s].state = "live" /\ sess[t].state = "live" /\ sess[s].family = sess[t].family => s = t

\* Refresh rows and access-token versions are two revocation mechanisms that must agree:
\* a usable refresh token belongs to an active account and was issued at the account's
\* present token_version, so whatever revoked the access tokens (logout, password change,
\* admin action) left no refresh token that could mint new ones.
SessionsAreCurrent ==
  \A s \in Sessions : Usable(s) =>
    /\ status[sess[s].user] = "active"
    /\ sess[s].version = version[sess[s].user]

\* No usable session descends from a login that proved a password which has since been
\* replaced, even when the password was checked before the reset and the session
\* inserted after it (emailAuth and lockLoginAccount against completePasswordReset).
SessionsFollowPassword ==
  \A s \in Sessions : Usable(s) => sess[s].epoch = epoch[sess[s].user]

\* At most one mailbox challenge per account and purpose is open, so an older link is
\* dead as soon as a newer one is issued or one of them is consumed.
OneOpenChallenge ==
  \A c, d \in Challenges :
    /\ chal[c].state = "live" /\ chal[d].state = "live"
    /\ chal[c].user = chal[d].user /\ chal[c].purpose = chal[d].purpose
    => c = d

\* Mailbox proof never lifts enforcement: a challenge is consumed only by an account that
\* is active or awaits relinking, whatever happened since the challenge was issued.
RecoveryNeverLiftsEnforcement ==
  [][\A c \in Challenges : chal[c].state = "live" /\ chal'[c].state = "consumed" =>
       status[chal[c].user] \in {"active", "relink_required"}]_vars

\* A deleted account stays deleted: no admin status change, recovery or workflow step that
\* was already under way brings it back.
DeletedIsFinal ==
  [][\A u \in Users : status[u] = "deleted" => status'[u] = "deleted"]_vars

\* A revoked family is dead: no session is ever added to it, even through the live session
\* that reuse detection leaves behind in it.
RevokedFamilyIsDead ==
  [][\A s \in Sessions : sess[s].state = "none" /\ sess'[s].state = "live" =>
       sess'[s].family \notin revoked]_vars

-----------------------------------------------------------------------------
(* The inductive invariant behind these properties (AccountProofs).   *)

\* Every live session, usable or not, is of the account's present status, version and password.
LiveIsCurrent ==
  \A s \in Sessions : sess[s].state = "live" =>
    /\ status[sess[s].user] = "active"
    /\ sess[s].version = version[sess[s].user]
    /\ sess[s].epoch = epoch[sess[s].user]

\* The session that names a family was created with it, so new sessions name new families.
FamiliesAreKnown ==
  /\ \A s \in Sessions : sess[s].state # "none" => sess[sess[s].family].state # "none"
  /\ \A f \in revoked : sess[f].state # "none"

\* A login in flight whose verified hash is still the stored one knows the present password.
LoginsKnowPassword ==
  \A r \in Requests : req[r].kind = "login" =>
    /\ req[r].hash <= hash[req[r].user]
    /\ req[r].hash = hash[req[r].user] => req[r].epoch = epoch[req[r].user]

\* An account that does not exist has no password.
UnregisteredHasNoHash == \A u \in Users : status[u] = "none" => hash[u] = 0

SessionInv == LiveIsCurrent /\ OneLiveSessionPerFamily /\ FamiliesAreKnown
LoginInv == LoginsKnowPassword /\ UnregisteredHasNoHash
IndInv == TypeOK /\ SessionInv /\ LoginInv /\ OneOpenChallenge
=============================================================================
