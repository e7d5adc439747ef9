--------------------------- MODULE AccountProofs ---------------------------
(***************************************************************************)
(* Proofs about an account: AuthSessions for every set of accounts,        *)
(* sessions, challenges and requests, and AccountErasure for any number of *)
(* privacy requests, changes and faults.  The two specifications share no  *)
(* variable and each theorem is about one of them.                         *)
(*                                                                         *)
(* IndInv of AuthSessions is shown inductive in four parts (types,         *)
(* sessions, logins in flight, challenges), one case per action; EraseInv  *)
(* of AccountErasure from what all its steps have in common.               *)
(***************************************************************************)
EXTENDS AuthSessions, AccountErasure, TLAPS

\* A request slot that has been freed is a well-formed request row.
LEMMA IdleType == Idle \in RequestRows
  BY AuthConstants DEF Idle, AnyUser, RequestRows

\* Revoking the sessions of an account keeps the session table and the revoked families well typed.
LEMMA RevokeType ==
  ASSUME TypeOK, NEW u \in Users, RevokeSessionsOf(u)
  PROVE  sess' \in [Sessions -> SessionRows] /\ revoked' \subseteq Sessions
<1>1. FamiliesOf(u) \subseteq Sessions
  BY DEF TypeOK, SessionRows, FamiliesOf, SessionsOf
<1>2. \A s \in Sessions : [sess[s] EXCEPT !.state = "revoked"] \in SessionRows
  BY DEF TypeOK, SessionRows
<1> QED
  BY <1>1, <1>2 DEF RevokeSessionsOf, TypeOK

\* Issuing a mailbox challenge and consuming one keep the challenge table well typed.
LEMMA ChallengeType ==
  ASSUME TypeOK
  PROVE  /\ \A c \in Challenges : ConsumeChallenge(c) => chal' \in [Challenges -> ChallengeRows]
         /\ \A c \in Challenges, u \in Users, p \in Purposes :
              IssueChallenge(c, u, p) => chal' \in [Challenges -> ChallengeRows]
<1>1. \A d \in Challenges : \A x \in {"consumed", "superseded"} :
         [chal[d] EXCEPT !.state = x] \in ChallengeRows
  BY DEF TypeOK, ChallengeRows
<1>2. \A u \in Users, p \in Purposes :
         [state |-> "live", age |-> "fresh", user |-> u, purpose |-> p] \in ChallengeRows
  BY DEF ChallengeRows
<1> QED
  BY <1>1, <1>2 DEF ConsumeChallenge, IssueChallenge, TypeOK

\* Every transaction and every unlocked read of the API keeps the types, one case per action.
LEMMA TypeStep == TypeOK /\ [Next]_vars => TypeOK'
<1> SUFFICES ASSUME TypeOK, [Next]_vars PROVE TypeOK'
  OBVIOUS
<1> USE AuthConstants DEF TypeOK
<1>1. ASSUME NEW u \in Users, NEW c \in Challenges, Register(u, c) PROVE TypeOK'
  <2>1. chal' \in [Challenges -> ChallengeRows]
    BY <1>1, ChallengeType DEF Register, Purposes
  <2> QED
    BY <1>1, <2>1 DEF Register, Statuses
<1>2. ASSUME NEW u \in Users, NEW intent, NEW c \in Challenges, QueueRecoveryEmail(u, intent, c) PROVE TypeOK'
  <2>1. chal' \in [Challenges -> ChallengeRows]
    BY <1>2, ChallengeType DEF QueueRecoveryEmail, Purposes
  <2> QED
    BY <1>2, <2>1 DEF QueueRecoveryEmail
<1>3. ASSUME NEW c \in Challenges, VerifyEmail(c) \/ CompletePasswordReset(c) PROVE TypeOK'
  <2>1. chal' \in [Challenges -> ChallengeRows] /\ chal[c].user \in Users
    BY <1>3, ChallengeType DEF VerifyEmail, CompletePasswordReset, ChallengeRows
  <2>2. sess' \in [Sessions -> SessionRows] /\ revoked' \subseteq Sessions
    BY <1>3, <2>1, RevokeType DEF VerifyEmail, CompletePasswordReset
  <2> QED
    BY <1>3, <2>1, <2>2 DEF VerifyEmail, CompletePasswordReset, SetPassword, BumpTokenVersion, Statuses
<1>4. ASSUME NEW r \in Requests, NEW u \in Users, LoginRead(r, u) PROVE TypeOK'
  BY <1>4 DEF LoginRead, RequestRows
<1>5. ASSUME NEW r \in Requests, NEW s \in Sessions, NEW rehash \in BOOLEAN, LoginCommit(r, s, rehash)
      PROVE TypeOK'
  <2>1. req' \in [Requests -> RequestRows]
    BY <1>5, IdleType DEF LoginCommit
  <2>2. sess' \in [Sessions -> SessionRows]
    BY <1>5 DEF LoginCommit, RequestRows, SessionRows
  <2>3. hash' \in [Users -> Nat]
    BY <1>5 DEF LoginCommit, RequestRows
  <2> QED
    BY <1>5, <2>1, <2>2, <2>3 DEF LoginCommit
<1>6. ASSUME NEW r \in Requests, LoginRefused(r) PROVE TypeOK'
  BY <1>6, IdleType DEF LoginRefused
<1>7. ASSUME NEW s \in Sessions, NEW n \in Sessions, Rotate(s, n) PROVE TypeOK'
  <2>1. sess' \in [Sessions -> SessionRows]
    BY <1>7 DEF Rotate, SessionRows
  <2> QED
    BY <1>7, <2>1 DEF Rotate
<1>8. ASSUME NEW s \in Sessions, DetectReuse(s) PROVE TypeOK'
  BY <1>8 DEF DetectReuse, SessionRows
<1>9. ASSUME NEW s \in Sessions, Logout(s) PROVE TypeOK'
  <2>1. sess[s].user \in Users
    BY DEF SessionRows
  <2>2. sess' \in [Sessions -> SessionRows] /\ revoked' \subseteq Sessions
    BY <1>9, <2>1, RevokeType DEF Logout
  <2> QED
    BY <1>9, <2>1, <2>2 DEF Logout, BumpTokenVersion
<1>10. ASSUME NEW r \in Requests, NEW s \in Sessions, NEW kind \in {"logout", "delete"},
              PrincipalRead(r, s, kind)
       PROVE TypeOK'
  BY <1>10 DEF PrincipalRead, RequestRows, SessionRows
<1>11. ASSUME NEW r \in Requests, LogoutCommit(r) PROVE TypeOK'
  <2>1. req[r].user \in Users
    BY DEF RequestRows
  <2>2. sess' \in [Sessions -> SessionRows] /\ revoked' \subseteq Sessions
    BY <1>11, <2>1, RevokeType DEF LogoutCommit
  <2> QED
    BY <1>11, <2>1, <2>2, IdleType DEF LogoutCommit, BumpTokenVersion
<1>12. ASSUME NEW r \in Requests, CreateDeleteRequest(r) PROVE TypeOK'
  BY <1>12, IdleType DEF CreateDeleteRequest
<1>13. ASSUME NEW u \in Users, NEW st \in {"active", "suspended", "locked"}, UpdateAccountStatus(u, st)
       PROVE TypeOK'
  <2>1. sess' \in [Sessions -> SessionRows] /\ revoked' \subseteq Sessions
    BY <1>13, RevokeType DEF UpdateAccountStatus
  <2> QED
    BY <1>13, <2>1 DEF UpdateAccountStatus, BumpTokenVersion, Statuses
<1>14. ASSUME NEW u \in Users, RevokeAdminUserSessions(u) PROVE TypeOK'
  <2>1. sess' \in [Sessions -> SessionRows] /\ revoked' \subseteq Sessions
    BY <1>14, RevokeType DEF RevokeAdminUserSessions
  <2> QED
    BY <1>14, <2>1 DEF RevokeAdminUserSessions, BumpTokenVersion
<1>15. ASSUME NEW u \in Users, DeleteAdminUser(u) \/ DeleteLock(u) PROVE TypeOK'
  <2>1. sess' \in [Sessions -> SessionRows] /\ revoked' \subseteq Sessions
    BY <1>15, RevokeType DEF DeleteAdminUser, DeleteLock
  <2> QED
    BY <1>15, <2>1 DEF DeleteAdminUser, DeleteLock, BumpTokenVersion, Statuses
<1>16. ASSUME NEW u \in Users, DeletePurge(u) PROVE TypeOK'
  <2>1. sess' \in [Sessions -> SessionRows]
    BY <1>16 DEF DeletePurge, SessionRows
  <2>2. chal' \in [Challenges -> ChallengeRows]
    BY <1>16 DEF DeletePurge, ChallengeRows
  <2> QED
    BY <1>16, <2>1, <2>2 DEF DeletePurge, Statuses
<1>17. ASSUME NEW s \in Sessions, ExpireSession(s) PROVE TypeOK'
  BY <1>17 DEF ExpireSession, SessionRows
<1>18. ASSUME NEW c \in Challenges, AgeChallenge(c) PROVE TypeOK'
  BY <1>18 DEF AgeChallenge, ChallengeRows
<1>19. CASE UNCHANGED vars
  BY <1>19 DEF vars
<1> QED
  BY <1>1, <1>2, <1>3, <1>4, <1>5, <1>6, <1>7, <1>8, <1>9, <1>10, <1>11, <1>12, <1>13, <1>14,
     <1>15, <1>16, <1>17, <1>18, <1>19
  DEF Next, UserSteps, RequestSteps, SessionSteps, ChallengeSteps

\* Setting revoked_at changes the state of a session row and none of its other columns.
LEMMA SetState ==
  ASSUME NEW row \in SessionRows, NEW x \in {"revoked", "purged"}
  PROVE  LET new == [row EXCEPT !.state = x]
         IN  /\ new.user = row.user /\ new.family = row.family
             /\ new.version = row.version /\ new.epoch = row.epoch /\ new.state = x
  BY DEF SessionRows

\* UPDATE ... WHERE user_id, as in logout and the purge: rows in S take the new state, the others stay.
LEMMA MarkEffect ==
  ASSUME TypeOK, NEW S, NEW x \in {"revoked", "purged"},
         \A s \in Sessions : sess'[s] = IF s \in S THEN [sess[s] EXCEPT !.state = x] ELSE sess[s]
  PROVE  \A s \in Sessions :
           /\ sess'[s].user = sess[s].user /\ sess'[s].family = sess[s].family
           /\ sess'[s].version = sess[s].version /\ sess'[s].epoch = sess[s].epoch
           /\ sess'[s].state = IF s \in S THEN x ELSE sess[s].state
<1> TAKE s \in Sessions
<1>1. sess[s] \in SessionRows
  BY DEF TypeOK
<1>2. CASE s \in S
  <2>1. sess'[s] = [sess[s] EXCEPT !.state = x]
    BY <1>2
  <2> QED
    BY <1>1, <1>2, <2>1, SetState
<1>3. CASE s \notin S
  <2>1. sess'[s] = sess[s]
    BY <1>3
  <2> QED
    BY <1>3, <2>1
<1> QED
  BY <1>2, <1>3

\* After RevokeSessionsOf the account has no live session, and other accounts are untouched.
LEMMA RevokeEffect ==
  ASSUME TypeOK, NEW u \in Users, RevokeSessionsOf(u)
  PROVE  /\ \A s \in Sessions :
              /\ sess'[s].user = sess[s].user /\ sess'[s].family = sess[s].family
              /\ sess'[s].version = sess[s].version /\ sess'[s].epoch = sess[s].epoch
              /\ sess'[s].state = "live" => sess[s].state = "live" /\ sess[s].user # u
              /\ sess'[s].state = "none" <=> sess[s].state = "none"
         /\ \A f \in revoked' : f \in revoked \/ \E s \in Sessions : sess[s].state # "none" /\ sess[s].family = f
<1>1. \A s \in Sessions : sess'[s] = IF s \in SessionsOf(u) THEN [sess[s] EXCEPT !.state = "revoked"] ELSE sess[s]
  BY DEF RevokeSessionsOf
<1>2. \A s \in Sessions :
        /\ sess'[s].user = sess[s].user /\ sess'[s].family = sess[s].family
        /\ sess'[s].version = sess[s].version /\ sess'[s].epoch = sess[s].epoch
        /\ sess'[s].state = IF s \in SessionsOf(u) THEN "revoked" ELSE sess[s].state
  BY <1>1, MarkEffect
<1> QED
  BY <1>2 DEF RevokeSessionsOf, FamiliesOf, SessionsOf

\* A transaction that revokes an account's sessions may change its status, version and
\* password as it likes: no live session is left that could disagree with them.
LEMMA RevokeKeepsSessionInv ==
  ASSUME TypeOK, SessionInv, NEW u \in Users, RevokeSessionsOf(u),
         \A v \in Users \ {u} : status'[v] = status[v] /\ version'[v] = version[v] /\ epoch'[v] = epoch[v]
  PROVE  SessionInv'
<1>1. \A s \in Sessions : sess[s].user \in Users /\ sess[s].family \in Sessions
  BY DEF TypeOK, SessionRows
<1>2. LiveIsCurrent'
  BY <1>1, RevokeEffect DEF SessionInv, LiveIsCurrent
<1>3. OneLiveSessionPerFamily'
  BY <1>1, RevokeEffect DEF SessionInv, OneLiveSessionPerFamily
<1>4. FamiliesAreKnown'
  BY <1>1, RevokeEffect DEF SessionInv, FamiliesAreKnown, TypeOK
<1> QED
  BY <1>2, <1>3, <1>4 DEF SessionInv

\* Every action keeps live sessions current, unforked and in known families.
LEMMA SessionStep == IndInv /\ [Next]_vars => SessionInv'
<1> SUFFICES ASSUME IndInv, [Next]_vars PROVE SessionInv'
  OBVIOUS
<1> USE DEF IndInv
<1>0. \A s \in Sessions : sess[s].user \in Users /\ sess[s].family \in Sessions
  BY DEF TypeOK, SessionRows
<1>1. ASSUME NEW u \in Users, NEW c \in Challenges, Register(u, c) PROVE SessionInv'
  BY <1>1, <1>0 DEF Register, SessionInv, LiveIsCurrent, OneLiveSessionPerFamily, FamiliesAreKnown, TypeOK
<1>2. ASSUME NEW c \in Challenges, VerifyEmail(c) \/ CompletePasswordReset(c) PROVE SessionInv'
  <2>1. chal[c].user \in Users
    BY DEF TypeOK, ChallengeRows
  <2>2. \A v \in Users \ {chal[c].user} : status'[v] = status[v] /\ version'[v] = version[v] /\ epoch'[v] = epoch[v]
    BY <1>2 DEF VerifyEmail, CompletePasswordReset, SetPassword, BumpTokenVersion, TypeOK
  <2> QED
    BY <1>2, <2>1, <2>2, RevokeKeepsSessionInv DEF VerifyEmail, CompletePasswordReset
<1>3. ASSUME NEW r \in Requests, NEW s \in Sessions, NEW rehash \in BOOLEAN, LoginCommit(r, s, rehash)
      PROVE SessionInv'
  <2> DEFINE u == req[r].user
  <2>1. u \in Users /\ req[r].epoch = epoch[u] /\ status[u] = "active"
    BY <1>3 DEF LoginCommit, LoginAccountUnchanged, LoginInv, LoginsKnowPassword, TypeOK, RequestRows
  <2>2. /\ sess[s].state = "none"
        /\ sess'[s].state = "live" /\ sess'[s].user = u /\ sess'[s].family = s
        /\ sess'[s].version = version[u] /\ sess'[s].epoch = epoch[u]
        /\ \A t \in Sessions \ {s} : sess'[t] = sess[t]
    BY <1>3, <2>1 DEF LoginCommit, TypeOK
  <2>3. UNCHANGED <<status, version, epoch, revoked>>
    BY <1>3 DEF LoginCommit
  <2>4. LiveIsCurrent'
    BY <2>1, <2>2, <2>3, <1>0 DEF SessionInv, LiveIsCurrent
  <2>5. OneLiveSessionPerFamily'
    BY <2>2, <1>0 DEF SessionInv, OneLiveSessionPerFamily, FamiliesAreKnown
  <2>6. FamiliesAreKnown'
    BY <2>2, <2>3, <1>0 DEF SessionInv, FamiliesAreKnown, TypeOK
  <2> QED
    BY <2>4, <2>5, <2>6 DEF SessionInv
<1>4. ASSUME NEW s \in Sessions, NEW n \in Sessions, Rotate(s, n) PROVE SessionInv'
  <2> DEFINE u == sess[s].user
  <2>1. s # n /\ sess[s].state = "live" /\ status[u] = "active" /\ u \in Users
    BY <1>4, <1>0 DEF Rotate, TokenState
  <2>2. /\ sess[n].state = "none"
        /\ sess'[n].state = "live" /\ sess'[n].user = u /\ sess'[n].family = sess[s].family
        /\ sess'[n].version = version[u] /\ sess'[n].epoch = sess[s].epoch
        /\ sess'[s].state = "revoked" /\ sess'[s].family = sess[s].family
        /\ \A t \in Sessions \ {s, n} : sess'[t] = sess[t]
    BY <1>4, <2>1 DEF Rotate, TypeOK, SessionRows
  <2>3. UNCHANGED <<status, version, epoch, revoked>>
    BY <1>4 DEF Rotate
  <2>4. LiveIsCurrent'
    BY <2>1, <2>2, <2>3, <1>0 DEF SessionInv, LiveIsCurrent
  <2>5. OneLiveSessionPerFamily'
    BY <2>1, <2>2, <1>0 DEF SessionInv, OneLiveSessionPerFamily
  <2>6. FamiliesAreKnown'
    BY <2>1, <2>2, <2>3, <1>0 DEF SessionInv, FamiliesAreKnown, TypeOK
  <2> QED
    BY <2>4, <2>5, <2>6 DEF SessionInv
<1>5. ASSUME NEW s \in Sessions, DetectReuse(s) PROVE SessionInv'
  BY <1>5, <1>0 DEF DetectReuse, SessionInv, LiveIsCurrent, OneLiveSessionPerFamily, FamiliesAreKnown
<1>6. ASSUME NEW s \in Sessions, Logout(s) PROVE SessionInv'
  BY <1>6, <1>0, RevokeKeepsSessionInv DEF Logout, BumpTokenVersion, TypeOK
<1>7. ASSUME NEW r \in Requests, LogoutCommit(r) PROVE SessionInv'
  <2>1. req[r].user \in Users
    BY DEF TypeOK, RequestRows
  <2> QED
    BY <1>7, <2>1, RevokeKeepsSessionInv DEF LogoutCommit, BumpTokenVersion, TypeOK
<1>8. ASSUME NEW u \in Users, NEW st, UpdateAccountStatus(u, st) PROVE SessionInv'
  BY <1>8, RevokeKeepsSessionInv DEF UpdateAccountStatus, BumpTokenVersion, TypeOK
<1>9. ASSUME NEW u \in Users, RevokeAdminUserSessions(u) \/ DeleteAdminUser(u) \/ DeleteLock(u)
      PROVE SessionInv'
  BY <1>9, RevokeKeepsSessionInv DEF RevokeAdminUserSessions, DeleteAdminUser, DeleteLock, BumpTokenVersion, TypeOK
<1>10. ASSUME NEW u \in Users, DeletePurge(u) PROVE SessionInv'
  <2>1. \A s \in Sessions :
          /\ sess'[s].user = sess[s].user /\ sess'[s].family = sess[s].family
          /\ sess'[s].version = sess[s].version /\ sess'[s].epoch = sess[s].epoch
          /\ sess'[s].state = IF s \in SessionsOf(u) THEN "purged" ELSE sess[s].state
    <3>1. \A s \in Sessions : sess'[s] = IF s \in SessionsOf(u) THEN [sess[s] EXCEPT !.state = "purged"] ELSE sess[s]
      BY <1>10 DEF DeletePurge
    <3> QED
      BY <3>1, MarkEffect
  <2>2. \A v \in Users \ {u} : status'[v] = status[v]
    BY <1>10 DEF DeletePurge, TypeOK
  <2>3. UNCHANGED <<version, epoch>> /\ revoked' \subseteq revoked
    BY <1>10 DEF DeletePurge
  <2> QED
    BY <2>1, <2>2, <2>3, <1>0 DEF SessionsOf, SessionInv, LiveIsCurrent, OneLiveSessionPerFamily, FamiliesAreKnown, TypeOK
<1>11. ASSUME NEW s \in Sessions, ExpireSession(s) PROVE SessionInv'
  <2>1. \A t \in Sessions :
          /\ sess'[t].user = sess[t].user /\ sess'[t].family = sess[t].family
          /\ sess'[t].version = sess[t].version /\ sess'[t].epoch = sess[t].epoch
          /\ sess'[t].state = sess[t].state
    BY <1>11 DEF ExpireSession, TypeOK, SessionRows
  <2> QED
    BY <1>11, <2>1, <1>0 DEF ExpireSession, SessionInv, LiveIsCurrent, OneLiveSessionPerFamily, FamiliesAreKnown, TypeOK
<1>12. CASE UNCHANGED <<status, version, epoch, sess, revoked>>
  BY <1>12 DEF SessionInv, LiveIsCurrent, OneLiveSessionPerFamily, FamiliesAreKnown
<1> QED
  BY <1>1, <1>2, <1>3, <1>4, <1>5, <1>6, <1>7, <1>8, <1>9, <1>10, <1>11, <1>12
  DEF Next, UserSteps, RequestSteps, SessionSteps, ChallengeSteps, vars, QueueRecoveryEmail, LoginRead,
      LoginRefused, PrincipalRead, CreateDeleteRequest, AgeChallenge

\* Every action keeps the fact that lockLoginAccount relies on: an unchanged hash is the present password.
LEMMA LoginStep == IndInv /\ [Next]_vars => LoginInv'
<1> SUFFICES ASSUME IndInv, [Next]_vars PROVE LoginInv'
  OBVIOUS
<1> USE DEF IndInv, LoginInv, LoginsKnowPassword, UnregisteredHasNoHash
<1>0. /\ \A r \in Requests : req[r].user \in Users /\ req[r].hash \in Nat
      /\ \A u \in Users : hash[u] \in Nat
  BY DEF TypeOK, RequestRows
<1>1. ASSUME NEW u \in Users, NEW c \in Challenges, Register(u, c) PROVE LoginInv'
  BY <1>0, <1>1 DEF Register, TypeOK
<1>2. ASSUME NEW c \in Challenges, VerifyEmail(c) \/ CompletePasswordReset(c) PROVE LoginInv'
  <2>1. chal[c].user \in Users
    BY DEF TypeOK, ChallengeRows
  <2>2. status[chal[c].user] # "none"
    BY <1>2 DEF VerifyEmail, CompletePasswordReset, RecoveryPlan
  <2> QED
    BY <1>0, <1>2, <2>1, <2>2 DEF VerifyEmail, CompletePasswordReset, SetPassword, TypeOK
<1>3. ASSUME NEW r \in Requests, NEW u \in Users, LoginRead(r, u) PROVE LoginInv'
  BY <1>0, <1>3 DEF LoginRead, TypeOK
<1>4. ASSUME NEW r \in Requests, NEW s \in Sessions, NEW rehash \in BOOLEAN, LoginCommit(r, s, rehash)
      PROVE LoginInv'
  <2>1. status[req[r].user] = "active"
    BY <1>4 DEF LoginCommit, LoginAccountUnchanged
  <2>2. req'[r].kind # "login" /\ \A q \in Requests \ {r} : req'[q] = req[q]
    BY <1>4 DEF LoginCommit, Idle, TypeOK
  <2>3. hash' = hash \/ hash' = [hash EXCEPT ![req[r].user] = @ + 1]
    BY <1>4 DEF LoginCommit
  <2>4. UNCHANGED <<status, epoch>>
    BY <1>4 DEF LoginCommit
  <2> QED
    BY <1>0, <2>1, <2>2, <2>3, <2>4 DEF TypeOK
<1>5. ASSUME NEW r \in Requests, LoginRefused(r) \/ LogoutCommit(r) \/ CreateDeleteRequest(r)
      PROVE LoginInv'
  <2>1. req'[r].kind # "login" /\ \A q \in Requests \ {r} : req'[q] = req[q]
    BY <1>5 DEF LoginRefused, LogoutCommit, CreateDeleteRequest, Idle, TypeOK
  <2> QED
    BY <1>5, <2>1 DEF LoginRefused, LogoutCommit, CreateDeleteRequest
<1>6. ASSUME NEW r \in Requests, NEW s \in Sessions, NEW kind \in {"logout", "delete"},
             PrincipalRead(r, s, kind)
      PROVE LoginInv'
  BY <1>6 DEF PrincipalRead, TypeOK
<1>7. ASSUME NEW u \in Users, NEW st \in {"active", "suspended", "locked"},
             UpdateAccountStatus(u, st) \/ DeleteAdminUser(u) \/ DeleteLock(u) \/ DeletePurge(u)
      PROVE LoginInv'
  <2>1. UNCHANGED <<hash, req, epoch>>
    BY <1>7 DEF UpdateAccountStatus, DeleteAdminUser, DeleteLock, DeletePurge
  <2>2. \A v \in Users : status'[v] = "none" => status[v] = "none"
    BY <1>7 DEF UpdateAccountStatus, DeleteAdminUser, DeleteLock, DeletePurge, TypeOK
  <2> QED
    BY <2>1, <2>2
<1>8. CASE UNCHANGED <<status, hash, req, epoch>>
  BY <1>8
<1> QED
  BY <1>1, <1>2, <1>3, <1>4, <1>5, <1>6, <1>7, <1>8
  DEF Next, UserSteps, RequestSteps, SessionSteps, ChallengeSteps, vars, QueueRecoveryEmail, Rotate,
      DetectReuse, Logout, RevokeAdminUserSessions, ExpireSession, AgeChallenge

\* Every action leaves at most one open challenge per account and purpose.
LEMMA ChallengeStep == IndInv /\ [Next]_vars => OneOpenChallenge'
<1> SUFFICES ASSUME IndInv, [Next]_vars PROVE OneOpenChallenge'
  OBVIOUS
<1> USE DEF IndInv
<1>1. ASSUME NEW c \in Challenges, NEW u \in Users, NEW p \in Purposes, IssueChallenge(c, u, p)
      PROVE OneOpenChallenge'
  <2>1. \A d \in Challenges : chal'[d].state = "live" =>
          \/ d = c /\ chal'[d].user = u /\ chal'[d].purpose = p
          \/ d # c /\ chal'[d] = chal[d] /\ d \notin Open(u, p)
    <3> TAKE d \in Challenges
    <3>1. CASE d = c
      BY <1>1, <3>1 DEF IssueChallenge
    <3>2. CASE d # c /\ d \in Open(u, p)
      <4>1. chal'[d] = [chal[d] EXCEPT !.state = "superseded"]
        BY <1>1, <3>2 DEF IssueChallenge
      <4> QED
        BY <4>1, <3>2 DEF TypeOK, ChallengeRows
    <3>3. CASE d # c /\ d \notin Open(u, p)
      BY <1>1, <3>3 DEF IssueChallenge
    <3> QED
      BY <3>1, <3>2, <3>3
  <2> QED
    BY <2>1 DEF OneOpenChallenge, Open
<1>2. ASSUME NEW c \in Challenges, ConsumeChallenge(c) PROVE OneOpenChallenge'
  <2>1. \A d \in Challenges : chal'[d].state = "live" => chal'[d] = chal[d]
    <3> TAKE d \in Challenges
    <3>0. chal[d] \in ChallengeRows
      BY DEF TypeOK
    <3>1. CASE d = c
      <4>1. chal'[d] = [chal[d] EXCEPT !.state = "consumed"]
        BY <1>2, <3>1 DEF ConsumeChallenge
      <4> QED
        BY <3>0, <4>1 DEF ChallengeRows
    <3>2. CASE d # c /\ d \in Open(chal[c].user, chal[c].purpose)
      <4>1. chal'[d] = [chal[d] EXCEPT !.state = "superseded"]
        BY <1>2, <3>2 DEF ConsumeChallenge
      <4> QED
        BY <3>0, <4>1 DEF ChallengeRows
    <3>3. CASE d # c /\ d \notin Open(chal[c].user, chal[c].purpose)
      BY <1>2, <3>3 DEF ConsumeChallenge
    <3> QED
      BY <3>1, <3>2, <3>3
  <2> QED
    BY <2>1 DEF OneOpenChallenge
<1>3. ASSUME NEW u \in Users, NEW c \in Challenges, Register(u, c) PROVE OneOpenChallenge'
  BY <1>1, <1>3 DEF Register, Purposes
<1>4. ASSUME NEW u \in Users, NEW intent, NEW c \in Challenges, QueueRecoveryEmail(u, intent, c)
      PROVE OneOpenChallenge'
  BY <1>1, <1>4 DEF QueueRecoveryEmail, Purposes
<1>5. ASSUME NEW c \in Challenges, VerifyEmail(c) \/ CompletePasswordReset(c) PROVE OneOpenChallenge'
  BY <1>2, <1>5 DEF VerifyEmail, CompletePasswordReset
<1>6. ASSUME NEW u \in Users, DeletePurge(u) PROVE OneOpenChallenge'
  <2>1. \A d \in Challenges : chal'[d].state = "live" => chal'[d] = chal[d]
    <3> TAKE d \in Challenges
    <3>1. CASE chal[d].state # "none" /\ chal[d].user = u
      <4>1. chal'[d] = [chal[d] EXCEPT !.state = "purged"]
        BY <1>6, <3>1 DEF DeletePurge
      <4> QED
        BY <4>1 DEF TypeOK, ChallengeRows
    <3>2. CASE ~(chal[d].state # "none" /\ chal[d].user = u)
      BY <1>6, <3>2 DEF DeletePurge
    <3> QED
      BY <3>1, <3>2
  <2> QED
    BY <2>1 DEF OneOpenChallenge
<1>7. ASSUME NEW c \in Challenges, AgeChallenge(c) PROVE OneOpenChallenge'
  <2>1. \A d \in Challenges : /\ chal'[d].state = chal[d].state /\ chal'[d].user = chal[d].user
                              /\ chal'[d].purpose = chal[d].purpose
    BY <1>7 DEF AgeChallenge, TypeOK, ChallengeRows
  <2> QED
    BY <2>1 DEF OneOpenChallenge
<1>8. CASE UNCHANGED chal
  BY <1>8 DEF OneOpenChallenge
<1> QED
  BY <1>3, <1>4, <1>5, <1>6, <1>7, <1>8
  DEF Next, UserSteps, RequestSteps, SessionSteps, ChallengeSteps, vars, LoginRead, LoginCommit,
      LoginRefused, Rotate, DetectReuse, Logout, PrincipalRead, LogoutCommit, CreateDeleteRequest,
      UpdateAccountStatus, RevokeAdminUserSessions, DeleteAdminUser, DeleteLock, ExpireSession

-----------------------------------------------------------------------------
\* The inductive invariant holds of every behaviour of the account transactions.
THEOREM InductiveInvariant == Spec => []IndInv
<1>1. Init => IndInv
  <2> SUFFICES ASSUME Init PROVE IndInv
    OBVIOUS
  <2>1. TypeOK
    <3>1. AnyUser \in Users
      BY AuthConstants DEF AnyUser
    <3>2. sess \in [Sessions -> SessionRows]
      BY <3>1 DEF Init, SessionRows
    <3>3. chal \in [Challenges -> ChallengeRows]
      BY <3>1 DEF Init, ChallengeRows, Purposes
    <3>4. req \in [Requests -> RequestRows]
      BY IdleType DEF Init
    <3>5. status \in [Users -> Statuses] /\ version \in [Users -> 1 .. MaxVersion]
      BY AuthConstants DEF Init, Statuses
    <3> QED
      BY <3>2, <3>3, <3>4, <3>5 DEF Init, TypeOK
  <2>2. SessionInv
    BY DEF Init, SessionInv, LiveIsCurrent, OneLiveSessionPerFamily, FamiliesAreKnown
  <2>3. LoginInv
    BY DEF Init, LoginInv, LoginsKnowPassword, UnregisteredHasNoHash, Idle
  <2>4. OneOpenChallenge
    BY DEF Init, OneOpenChallenge
  <2> QED
    BY <2>1, <2>2, <2>3, <2>4 DEF IndInv
<1>2. IndInv /\ [Next]_vars => IndInv'
  BY TypeStep, SessionStep, LoginStep, ChallengeStep DEF IndInv
<1> QED
  BY <1>1, <1>2, PTL DEF Spec

\* Types hold for every set of accounts, sessions, challenges and requests.
THEOREM TypeCorrect == Spec => []TypeOK
<1>1. IndInv => TypeOK
  BY DEF IndInv
<1> QED
  BY <1>1, InductiveInvariant, PTL

\* However refreshes interleave, rotateAuthSession never leaves two live sessions in a family.
THEOREM FamiliesNeverFork == Spec => []OneLiveSessionPerFamily
<1>1. IndInv => OneLiveSessionPerFamily
  BY DEF IndInv, SessionInv
<1> QED
  BY <1>1, InductiveInvariant, PTL

\* Whatever revoked an account's access tokens also revoked its refresh tokens.
THEOREM UsableSessionsAreCurrent == Spec => []SessionsAreCurrent
<1>1. IndInv => SessionsAreCurrent
  BY DEF IndInv, SessionInv, LiveIsCurrent, SessionsAreCurrent, Usable
<1> QED
  BY <1>1, InductiveInvariant, PTL

\* A login that raced a password change never yields a usable session: the password check
\* made before the lock is confirmed by lockLoginAccount under it.
THEOREM StaleLoginsAreRefused == Spec => []SessionsFollowPassword
<1>1. IndInv => SessionsFollowPassword
  BY DEF IndInv, SessionInv, LiveIsCurrent, SessionsFollowPassword, Usable
<1> QED
  BY <1>1, InductiveInvariant, PTL

\* At most one mailbox challenge per account and purpose is open.
THEOREM ChallengesAreUnique == Spec => []OneOpenChallenge
<1>1. IndInv => OneOpenChallenge
  BY DEF IndInv
<1> QED
  BY <1>1, InductiveInvariant, PTL

\* No session is ever added to a revoked refresh family: rotation checks the family under the
\* account lock, and a login opens a family that no earlier revocation can name.
THEOREM RevokedFamiliesStayDead == Spec => RevokedFamilyIsDead
<1> DEFINE NoNewMember == \A s \in Sessions : sess[s].state = "none" /\ sess'[s].state = "live" =>
                            sess'[s].family \notin revoked
<1>1. IndInv /\ [Next]_vars => [NoNewMember]_vars
  <2> SUFFICES ASSUME IndInv, Next PROVE NoNewMember
    OBVIOUS
  <2> USE DEF IndInv
  <2>1. ASSUME NEW r \in Requests, NEW s \in Sessions, NEW rehash \in BOOLEAN, LoginCommit(r, s, rehash)
        PROVE NoNewMember
    <3>1. sess'[s].family = s /\ sess[s].state = "none" /\ \A t \in Sessions \ {s} : sess'[t] = sess[t]
      BY <2>1 DEF LoginCommit, TypeOK
    <3> QED
      BY <3>1 DEF SessionInv, FamiliesAreKnown
  <2>2. ASSUME NEW s \in Sessions, NEW n \in Sessions, Rotate(s, n) PROVE NoNewMember
    <3>1. sess[s].family \notin revoked
      BY <2>2 DEF Rotate, TokenState
    <3>2. s # n
      BY <2>2 DEF Rotate
    <3>3. sess'[n].family = sess[s].family /\ \A t \in Sessions \ {s, n} : sess'[t] = sess[t]
      BY <2>2, <3>2 DEF Rotate, TypeOK
    <3>4. sess[s].state # "none"
      BY <2>2 DEF Rotate
    <3> QED
      BY <3>1, <3>3, <3>4
  <2>3. ASSUME NEW u \in Users, RevokeSessionsOf(u) PROVE NoNewMember
    BY <2>3, RevokeEffect
  <2>4. ASSUME NEW u \in Users, DeletePurge(u) PROVE NoNewMember
    <3>1. \A s \in Sessions : sess'[s] = IF s \in SessionsOf(u) THEN [sess[s] EXCEPT !.state = "purged"] ELSE sess[s]
      BY <2>4 DEF DeletePurge
    <3> QED
      BY <3>1, MarkEffect
  <2>5. ASSUME NEW s \in Sessions, ExpireSession(s) PROVE NoNewMember
    BY <2>5 DEF ExpireSession, TypeOK, SessionRows
  <2>6. CASE UNCHANGED sess
    BY <2>6
  <2>7. /\ \A s \in Sessions : sess[s].user \in Users
        /\ \A r \in Requests : req[r].user \in Users
        /\ \A c \in Challenges : chal[c].user \in Users
    BY DEF TypeOK, SessionRows, RequestRows, ChallengeRows
  <2>8. ASSUME NEW s \in Sessions, Logout(s) PROVE NoNewMember
    BY <2>3, <2>7, <2>8 DEF Logout
  <2>9. ASSUME NEW r \in Requests, LogoutCommit(r) PROVE NoNewMember
    BY <2>3, <2>7, <2>9 DEF LogoutCommit
  <2>10. ASSUME NEW c \in Challenges, VerifyEmail(c) \/ CompletePasswordReset(c) PROVE NoNewMember
    BY <2>3, <2>7, <2>10 DEF VerifyEmail, CompletePasswordReset
  <2>11. ASSUME NEW u \in Users, NEW st, \/ UpdateAccountStatus(u, st) \/ RevokeAdminUserSessions(u)
                                         \/ DeleteAdminUser(u) \/ DeleteLock(u)
         PROVE NoNewMember
    BY <2>3, <2>11 DEF UpdateAccountStatus, RevokeAdminUserSessions, DeleteAdminUser, DeleteLock
  <2> HIDE DEF NoNewMember, IndInv
  <2> QED
    BY <2>1, <2>2, <2>4, <2>5, <2>6, <2>8, <2>9, <2>10, <2>11
    DEF Next, UserSteps, RequestSteps, SessionSteps, ChallengeSteps, Register, QueueRecoveryEmail,
        LoginRead, LoginRefused, DetectReuse, PrincipalRead, CreateDeleteRequest, AgeChallenge
<1> QED
  BY <1>1, InductiveInvariant, PTL DEF Spec, RevokedFamilyIsDead

\* A deleted account is never brought back by a status change, recovery or a workflow step.
THEOREM DeletionIsFinal == Spec => DeletedIsFinal
<1>1. TypeOK /\ [Next]_vars => [\A u \in Users : status[u] = "deleted" => status'[u] = "deleted"]_vars
  <2> SUFFICES ASSUME TypeOK, Next, NEW u \in Users, status[u] = "deleted" PROVE status'[u] = "deleted"
    OBVIOUS
  <2>1. CASE \E v \in Users : UserSteps(v)
    BY <2>1 DEF UserSteps, Register, QueueRecoveryEmail, LoginRead, UpdateAccountStatus,
                RevokeAdminUserSessions, DeleteAdminUser, DeleteLock, DeletePurge, TypeOK
  <2>2. CASE \E c \in Challenges : ChallengeSteps(c)
    BY <2>2 DEF ChallengeSteps, VerifyEmail, CompletePasswordReset, AgeChallenge, RecoveryPlan, TypeOK
  <2>3. CASE UNCHANGED status
    BY <2>3
  <2> QED
    BY <2>1, <2>2, <2>3 DEF Next, RequestSteps, SessionSteps, LoginCommit, LoginRefused, PrincipalRead,
                            LogoutCommit, CreateDeleteRequest, Rotate, DetectReuse, Logout, ExpireSession
<1> QED
  BY <1>1, TypeCorrect, PTL DEF Spec, DeletedIsFinal

\* VerifyEmail and CompletePasswordReset consume a challenge only for an account that recoveryPlan
\* still admits, however long ago and in whatever status the challenge was issued.
THEOREM MailboxProofKeepsEnforcement == Spec => RecoveryNeverLiftsEnforcement
<1> DEFINE Admitted == \A c \in Challenges : chal[c].state = "live" /\ chal'[c].state = "consumed" =>
                         status[chal[c].user] \in {"active", "relink_required"}
<1>1. TypeOK /\ [Next]_vars => [Admitted]_vars
  <2> SUFFICES ASSUME TypeOK, Next PROVE Admitted
    OBVIOUS
  <2>1. ASSUME NEW c \in Challenges, VerifyEmail(c) \/ CompletePasswordReset(c) PROVE Admitted
    <3>1. status[chal[c].user] \in {"active", "relink_required"}
      BY <2>1 DEF VerifyEmail, CompletePasswordReset, RecoveryPlan
    <3>2. ConsumeChallenge(c)
      BY <2>1 DEF VerifyEmail, CompletePasswordReset
    <3>3. \A d \in Challenges : d # c /\ chal[d].state = "live" => chal'[d].state # "consumed"
      <4>1. \A d \in Challenges : chal[d] \in ChallengeRows
        BY DEF TypeOK
      <4>2. \A d \in Challenges : d # c => chal'[d] = [chal[d] EXCEPT !.state = "superseded"] \/ chal'[d] = chal[d]
        BY <3>2 DEF ConsumeChallenge
      <4> QED
        BY <4>1, <4>2 DEF ChallengeRows
    <3> QED
      BY <3>1, <3>3
  <2>2. ASSUME NEW c \in Challenges, NEW u \in Users, NEW p \in Purposes, IssueChallenge(c, u, p) PROVE Admitted
    <3>1. \A d \in Challenges : chal[d] \in ChallengeRows
      BY DEF TypeOK
    <3>2. /\ chal'[c].state = "live"
          /\ \A d \in Challenges : d # c => chal'[d] = [chal[d] EXCEPT !.state = "superseded"] \/ chal'[d] = chal[d]
      BY <2>2 DEF IssueChallenge
    <3> QED
      BY <3>1, <3>2 DEF ChallengeRows
  <2>3. ASSUME NEW u \in Users, DeletePurge(u) PROVE Admitted
    <3>1. \A d \in Challenges : chal[d] \in ChallengeRows
      BY DEF TypeOK
    <3>2. \A d \in Challenges : chal'[d] = [chal[d] EXCEPT !.state = "purged"] \/ chal'[d] = chal[d]
      BY <2>3 DEF DeletePurge
    <3> QED
      BY <3>1, <3>2 DEF ChallengeRows
  <2>4. ASSUME NEW c \in Challenges, AgeChallenge(c) PROVE Admitted
    BY <2>4 DEF AgeChallenge, TypeOK, ChallengeRows
  <2>5. CASE UNCHANGED chal
    BY <2>5
  <2>6. ASSUME NEW u \in Users, UserSteps(u) PROVE Admitted
    <3>1. ASSUME NEW c \in Challenges, NEW i, Register(u, c) \/ QueueRecoveryEmail(u, i, c) PROVE Admitted
      BY <2>2, <3>1 DEF Register, QueueRecoveryEmail, Purposes
    <3> HIDE DEF Admitted
    <3> QED
      BY <2>3, <2>5, <2>6, <3>1 DEF UserSteps, LoginRead, UpdateAccountStatus, RevokeAdminUserSessions,
                                    DeleteAdminUser, DeleteLock
  <2> HIDE DEF Admitted
  <2>7. ASSUME NEW r \in Requests, RequestSteps(r) PROVE Admitted
    BY <2>5, <2>7 DEF RequestSteps, LoginCommit, LoginRefused, PrincipalRead, LogoutCommit, CreateDeleteRequest
  <2>8. ASSUME NEW s \in Sessions, SessionSteps(s) PROVE Admitted
    BY <2>5, <2>8 DEF SessionSteps, Rotate, DetectReuse, Logout, ExpireSession
  <2> QED
    BY <2>1, <2>4, <2>6, <2>7, <2>8 DEF Next, ChallengeSteps
<1> QED
  BY <1>1, TypeCorrect, PTL DEF Spec, RecoveryNeverLiftsEnforcement

-----------------------------------------------------------------------------
(* AccountErasure.                                                         *)

\* The positions of the two workflows.
Erasing == {"lock", "evaluate", "support", "redact", "identity", "reputation", "exports", "manifests", "complete"}
Exporting == {"build", "publish", "put", "commit"}

\* A publication under way holds the row of an active account, and commits what it has put.
PublishInv ==
  \A q \in PrivacyRequests :
    /\ flow[q] \in {"put", "commit"} => account = "active"
    /\ flow[q] = "commit" => q \in object

\* A workflow is of its request's type, and an event belongs to a request.
KindInv ==
  \A q \in PrivacyRequests :
    /\ flow[q] \in Erasing => request[q].type = "delete"
    /\ flow[q] \in Exporting => request[q].type = "export"
    /\ event[q] # "none" => request[q].type # "none"

\* What a deletion has done when it is at pc.
Done(pc) ==
  /\ pc \in {"redact", "identity", "reputation", "exports", "manifests", "complete"} => "activity" \in erased
  /\ pc \in {"identity", "reputation", "exports", "manifests", "complete"} => "content" \in erased
  /\ pc \in {"reputation", "exports", "manifests", "complete"} => "identity" \in erased /\ account = "deleted"
  /\ pc \in {"exports", "manifests", "complete"} => "reputation" \in erased
  /\ pc \in {"manifests", "complete"} => object \subseteq stray
  /\ pc = "complete" => manifest = {}

ProgressInv == \A q \in PrivacyRequests : Done(flow[q])

EraseInv ==
  ErasureTypeOK /\ PublishInv /\ KindInv /\ ProgressInv /\ ErasureIsComplete /\ DownloadsAreServed

Positions == {"none", "blocked", "errored", "done"} \cup Running

-----------------------------------------------------------------------------
(* What the steps have in common.                                          *)

\* A position that request p may have after the step.
Fits(p) ==
  /\ flow'[p] \in {"put", "commit"} => account' = "active"
  /\ flow'[p] = "commit" => p \in object'
  /\ flow'[p] \in Erasing => request[p].type = "delete"
  /\ flow'[p] \in Exporting => request[p].type = "export"
  /\ Done(flow[p])' 

\* The account's row changes only when no publication holds it, and a deleted account stays deleted.
AccountKeeps ==
  /\ account = "deleted" => account' = "deleted"
  /\ account' = account \/ AccountFree

\* Nothing that was erased comes back, and what a deleted account still loses is not added to.
StoresKeep ==
  /\ erased \subseteq erased' /\ stray \subseteq stray'
  /\ account # "deleted" => object \subseteq object'
  /\ account = "deleted" => manifest' \subseteq manifest /\ object' \subseteq object \cup stray'
  /\ \A p \in manifest' : p \in manifest \/ p \in object'

\* A request keeps its type once it has one, and a deletion is completed at the end of its workflow.
RequestsKeep ==
  /\ \A p \in PrivacyRequests : request'[p].type = request[p].type \/ (request[p].type = "none" /\ flow'[p] = flow[p])
  /\ \A p \in PrivacyRequests : request'[p].type = "delete" /\ request'[p].state = "completed" =>
       (request[p].type = "delete" /\ request[p].state = "completed") \/ flow[p] = "complete"
  /\ \A p \in PrivacyRequests : event'[p] # "none" => event[p] # "none" \/ request'[p].type # "none"

\* What every step has in common is enough for the invariant.
LEMMA ErasureKeeps ==
  ASSUME EraseInv, ErasureTypeOK', AccountKeeps, StoresKeep, RequestsKeep,
         \A p \in PrivacyRequests : flow'[p] = flow[p] \/ Fits(p)
  PROVE  EraseInv'
<1> USE DEF EraseInv
<1>0. /\ \A p \in PrivacyRequests : flow[p] \in {"put", "commit"} => account = "active"
      /\ \A p \in PrivacyRequests : flow[p] = "commit" => p \in object
  BY DEF PublishInv
<1>1. \A p \in PrivacyRequests : flow[p] \in {"put", "commit"} => account' = "active"
  BY <1>0 DEF AccountKeeps, AccountFree
<1>2. PublishInv'
  <2> SUFFICES ASSUME NEW p \in PrivacyRequests
               PROVE  /\ flow'[p] \in {"put", "commit"} => account' = "active"
                      /\ flow'[p] = "commit" => p \in object'
    BY DEF PublishInv
  <2>1. CASE Fits(p)
    BY <2>1 DEF Fits
  <2>2. CASE flow'[p] = flow[p]
    BY <1>0, <1>1, <2>2 DEF StoresKeep
  <2> QED
    BY <2>1, <2>2
<1>3. KindInv'
  <2> SUFFICES ASSUME NEW p \in PrivacyRequests
               PROVE  /\ flow'[p] \in Erasing => request'[p].type = "delete"
                      /\ flow'[p] \in Exporting => request'[p].type = "export"
                      /\ event'[p] # "none" => request'[p].type # "none"
    BY DEF KindInv
  <2>1. request[p].type # "none" => request'[p].type = request[p].type
    BY DEF RequestsKeep
  <2>2. CASE Fits(p)
    BY <2>1, <2>2 DEF Fits, KindInv, RequestsKeep
  <2>3. CASE flow'[p] = flow[p]
    BY <2>1, <2>3 DEF KindInv, RequestsKeep
  <2> QED
    BY <2>2, <2>3
<1>4. ASSUME NEW pc, Done(pc)
      PROVE  Done(pc)'
  BY <1>4 DEF Done, AccountKeeps, StoresKeep
<1>5. ProgressInv'
  <2> SUFFICES ASSUME NEW p \in PrivacyRequests PROVE Done(flow[p])'
    BY DEF ProgressInv
  <2>1. PICK pc : pc = flow[p]
    OBVIOUS
  <2>2. Done(pc)
    BY <2>1 DEF ProgressInv
  <2>3. Done(pc)'
    BY <1>4, <2>2
  <2>4. CASE flow'[p] = flow[p]
    BY <2>1, <2>3, <2>4 DEF Done
  <2>5. CASE Fits(p)
    BY <2>5 DEF Fits
  <2> QED
    BY <2>4, <2>5
<1>6. ErasureIsComplete'
  <2> SUFFICES ASSUME NEW p \in PrivacyRequests, request'[p].type = "delete", request'[p].state = "completed"
               PROVE  account' = "deleted" /\ erased' = Stores /\ manifest' = {} /\ object' \subseteq stray'
    BY DEF ErasureIsComplete, OfType
  <2>1. account = "deleted" /\ Stores \subseteq erased /\ manifest = {} /\ object \subseteq stray
    <3>1. CASE request[p].type = "delete" /\ request[p].state = "completed"
      BY <3>1 DEF ErasureIsComplete, OfType
    <3>2. CASE flow[p] = "complete"
      BY <3>2 DEF ProgressInv, Done, Stores
    <3> QED
      BY <3>1, <3>2 DEF RequestsKeep
  <2>2. erased' \subseteq Stores
    BY DEF ErasureTypeOK
  <2> QED
    BY <2>1, <2>2 DEF AccountKeeps, StoresKeep
<1>7. DownloadsAreServed'
  <2> SUFFICES ASSUME NEW p \in manifest' PROVE p \in object' \/ account' = "deleted"
    BY DEF DownloadsAreServed
  <2>1. CASE p \in object'
    BY <2>1
  <2>2. CASE p \in manifest
    BY <2>2 DEF DownloadsAreServed, StoresKeep, AccountKeeps
  <2> QED
    BY <2>1, <2>2 DEF StoresKeep
<1> QED
  BY <1>2, <1>3, <1>5, <1>6, <1>7

\* A workflow moves to pc; its result may have been lost.
Moved(q, pc) ==
  /\ flow' = [flow EXCEPT ![q] = pc]
  /\ faults' = faults \/ (faults < MaxFaults /\ faults' = faults + 1)

\* The other workflows stay where they are.
LEMMA Moving ==
  ASSUME ErasureTypeOK, NEW q \in PrivacyRequests, NEW pc \in Positions, Moved(q, pc)
  PROVE  /\ flow' \in [PrivacyRequests -> Positions] /\ faults' \in 0..MaxFaults
         /\ flow'[q] = pc /\ \A p \in PrivacyRequests : p # q => flow'[p] = flow[p]
<1>1. flow \in [PrivacyRequests -> Positions] /\ faults \in 0..MaxFaults
  BY DEF ErasureTypeOK, Positions
<1> QED
  BY <1>1, ErasureConstants DEF Moved

\* The ways in which a workflow moves.
LEMMA Steps ==
  ASSUME NEW q, NEW pc, NEW first
  PROVE  /\ Go(q, pc) => Moved(q, pc)
         /\ Fault(q, pc) => Moved(q, pc)
         /\ Step(q, first, pc) => Moved(q, pc) \/ Moved(q, first)
  BY DEF Go, Fault, Step, Moved

-----------------------------------------------------------------------------
(* The actions one by one.                                                 *)

\* The steps of both workflows, their failures and lost results.
LEMMA WorkflowKeeps ==
  ASSUME EraseInv, NEW q \in PrivacyRequests, Workflow(q) \/ GiveUp(q) \/ RollBack(q) \/ LoseConnection(q)
  PROVE  EraseInv'
<1> USE DEF EraseInv, Running
<1>0. /\ ErasureTypeOK /\ Done(flow[q])
      /\ flow[q] \in {"put", "commit"} => account = "active"
      /\ flow[q] = "commit" => q \in object
      /\ flow[q] \in Erasing => request[q].type = "delete"
      /\ flow[q] \in Exporting => request[q].type = "export"
  BY DEF ProgressInv, PublishInv, KindInv
<1>1. CASE LockAccount(q)
  <2>1. PICK pc \in {"evaluate", "lock"} : Moved(q, pc)
    BY <1>1, Steps DEF LockAccount
  <2>2. /\ flow' \in [PrivacyRequests -> Positions] /\ faults' \in 0..MaxFaults
        /\ flow'[q] = pc /\ \A p \in PrivacyRequests : p # q => flow'[p] = flow[p]
    <3> pc \in Positions
      BY DEF Positions
    <3> QED
      BY <1>0, <2>1, Moving
  <2>3. ErasureTypeOK'
    BY <1>1, <1>0, <2>2 DEF LockAccount, ErasureTypeOK, Positions, Stores, OpenStates, store
  <2>4. AccountKeeps /\ StoresKeep /\ RequestsKeep
    BY <1>1, <1>0 DEF LockAccount, At, AccountKeeps, StoresKeep, RequestsKeep,
       ErasureTypeOK, Done, Erasing, Exporting, store
  <2>5. Fits(q)
    BY <1>1, <1>0, <2>1, <2>2 DEF LockAccount, At, Fits, Done, Erasing, Exporting, Step, Go, Fault, store
  <2> QED
    BY <2>2, <2>3, <2>4, <2>5, ErasureKeeps
<1>2. CASE Evaluate(q)
  <2>1. PICK pc \in {"support", "blocked", "evaluate"} : Moved(q, pc)
    BY <1>2, Steps DEF Evaluate
  <2>2. /\ flow' \in [PrivacyRequests -> Positions] /\ faults' \in 0..MaxFaults
        /\ flow'[q] = pc /\ \A p \in PrivacyRequests : p # q => flow'[p] = flow[p]
    <3> pc \in Positions
      BY DEF Positions
    <3> QED
      BY <1>0, <2>1, Moving
  <2>3. ErasureTypeOK'
    BY <1>2, <1>0, <2>2 DEF Evaluate, ErasureTypeOK, Positions, Stores, OpenStates, store
  <2>4. AccountKeeps /\ StoresKeep /\ RequestsKeep
    BY <1>2, <1>0 DEF Evaluate, At, AccountKeeps, StoresKeep, RequestsKeep,
       ErasureTypeOK, Done, Erasing, Exporting, store
  <2>5. Fits(q)
    BY <1>2, <1>0, <2>1, <2>2 DEF Evaluate, At, Fits, Done, Erasing, Exporting, Step, Go, Fault, store
  <2> QED
    BY <2>2, <2>3, <2>4, <2>5, ErasureKeeps
<1>3. CASE PurgeSupport(q)
  <2>1. PICK pc \in {"redact", "support", "errored"} : Moved(q, pc)
    BY <1>3, Steps DEF PurgeSupport
  <2>2. /\ flow' \in [PrivacyRequests -> Positions] /\ faults' \in 0..MaxFaults
        /\ flow'[q] = pc /\ \A p \in PrivacyRequests : p # q => flow'[p] = flow[p]
    <3> pc \in Positions
      BY DEF Positions
    <3> QED
      BY <1>0, <2>1, Moving
  <2>3. ErasureTypeOK'
    BY <1>3, <1>0, <2>2 DEF PurgeSupport, ErasureTypeOK, Positions, Stores, OpenStates, store
  <2>4. AccountKeeps /\ StoresKeep /\ RequestsKeep
    BY <1>3, <1>0 DEF PurgeSupport, At, AccountKeeps, StoresKeep, RequestsKeep,
       ErasureTypeOK, Done, Erasing, Exporting, store
  <2>5. Fits(q)
    BY <1>3, <1>0, <2>1, <2>2 DEF PurgeSupport, At, Fits, Done, Erasing, Exporting, Step, Go, Fault, store
  <2> QED
    BY <2>2, <2>3, <2>4, <2>5, ErasureKeeps
<1>4. CASE RedactContent(q)
  <2>1. PICK pc \in {"identity", "redact"} : Moved(q, pc)
    BY <1>4, Steps DEF RedactContent
  <2>2. /\ flow' \in [PrivacyRequests -> Positions] /\ faults' \in 0..MaxFaults
        /\ flow'[q] = pc /\ \A p \in PrivacyRequests : p # q => flow'[p] = flow[p]
    <3> pc \in Positions
      BY DEF Positions
    <3> QED
      BY <1>0, <2>1, Moving
  <2>3. ErasureTypeOK'
    BY <1>4, <1>0, <2>2 DEF RedactContent, ErasureTypeOK, Positions, Stores, OpenStates, store
  <2>4. AccountKeeps /\ StoresKeep /\ RequestsKeep
    BY <1>4, <1>0 DEF RedactContent, At, AccountKeeps, StoresKeep, RequestsKeep,
       ErasureTypeOK, Done, Erasing, Exporting, store
  <2>5. Fits(q)
    BY <1>4, <1>0, <2>1, <2>2 DEF RedactContent, At, Fits, Done, Erasing, Exporting, Step, Go, Fault, store
  <2> QED
    BY <2>2, <2>3, <2>4, <2>5, ErasureKeeps
<1>5. CASE EraseIdentity(q)
  <2>1. PICK pc \in {"reputation", "redact"} : Moved(q, pc)
    BY <1>5, Steps DEF EraseIdentity
  <2>2. /\ flow' \in [PrivacyRequests -> Positions] /\ faults' \in 0..MaxFaults
        /\ flow'[q] = pc /\ \A p \in PrivacyRequests : p # q => flow'[p] = flow[p]
    <3> pc \in Positions
      BY DEF Positions
    <3> QED
      BY <1>0, <2>1, Moving
  <2>3. ErasureTypeOK'
    BY <1>5, <1>0, <2>2 DEF EraseIdentity, ErasureTypeOK, Positions, Stores, OpenStates, store
  <2>4. AccountKeeps /\ StoresKeep /\ RequestsKeep
    BY <1>5, <1>0 DEF EraseIdentity, At, AccountKeeps, StoresKeep, RequestsKeep,
       ErasureTypeOK, Done, Erasing, Exporting, store
  <2>5. Fits(q)
    BY <1>5, <1>0, <2>1, <2>2 DEF EraseIdentity, At, Fits, Done, Erasing, Exporting, Step, Go, Fault, store
  <2> QED
    BY <2>2, <2>3, <2>4, <2>5, ErasureKeeps
<1>6. CASE PurgeReputation(q)
  <2>1. PICK pc \in {"exports", "reputation", "errored"} : Moved(q, pc)
    BY <1>6, Steps DEF PurgeReputation
  <2>2. /\ flow' \in [PrivacyRequests -> Positions] /\ faults' \in 0..MaxFaults
        /\ flow'[q] = pc /\ \A p \in PrivacyRequests : p # q => flow'[p] = flow[p]
    <3> pc \in Positions
      BY DEF Positions
    <3> QED
      BY <1>0, <2>1, Moving
  <2>3. ErasureTypeOK'
    BY <1>6, <1>0, <2>2 DEF PurgeReputation, ErasureTypeOK, Positions, Stores, OpenStates, store
  <2>4. AccountKeeps /\ StoresKeep /\ RequestsKeep
    BY <1>6, <1>0 DEF PurgeReputation, At, AccountKeeps, StoresKeep, RequestsKeep,
       ErasureTypeOK, Done, Erasing, Exporting, store
  <2>5. Fits(q)
    BY <1>6, <1>0, <2>1, <2>2 DEF PurgeReputation, At, Fits, Done, Erasing, Exporting, Step, Go, Fault, store
  <2> QED
    BY <2>2, <2>3, <2>4, <2>5, ErasureKeeps
<1>7. CASE DeleteExports(q)
  <2>1. PICK pc \in {"manifests", "exports"} : Moved(q, pc)
    BY <1>7, Steps DEF DeleteExports
  <2>2. /\ flow' \in [PrivacyRequests -> Positions] /\ faults' \in 0..MaxFaults
        /\ flow'[q] = pc /\ \A p \in PrivacyRequests : p # q => flow'[p] = flow[p]
    <3> pc \in Positions
      BY DEF Positions
    <3> QED
      BY <1>0, <2>1, Moving
  <2>3. ErasureTypeOK'
    BY <1>7, <1>0, <2>2 DEF DeleteExports, ErasureTypeOK, Positions, Stores, OpenStates, store
  <2>4. AccountKeeps /\ StoresKeep /\ RequestsKeep
    BY <1>7, <1>0 DEF DeleteExports, At, AccountKeeps, StoresKeep, RequestsKeep,
       ErasureTypeOK, Done, Erasing, Exporting, store
  <2>5. Fits(q)
    BY <1>7, <1>0, <2>1, <2>2 DEF DeleteExports, At, Fits, Done, Erasing, Exporting, Step, Go, Fault, store
  <2> QED
    BY <2>2, <2>3, <2>4, <2>5, ErasureKeeps
<1>8. CASE DeleteManifests(q)
  <2>1. PICK pc \in {"complete", "exports"} : Moved(q, pc)
    BY <1>8, Steps DEF DeleteManifests
  <2>2. /\ flow' \in [PrivacyRequests -> Positions] /\ faults' \in 0..MaxFaults
        /\ flow'[q] = pc /\ \A p \in PrivacyRequests : p # q => flow'[p] = flow[p]
    <3> pc \in Positions
      BY DEF Positions
    <3> QED
      BY <1>0, <2>1, Moving
  <2>3. ErasureTypeOK'
    BY <1>8, <1>0, <2>2 DEF DeleteManifests, ErasureTypeOK, Positions, Stores, OpenStates, store
  <2>4. AccountKeeps /\ StoresKeep /\ RequestsKeep
    BY <1>8, <1>0 DEF DeleteManifests, At, AccountKeeps, StoresKeep, RequestsKeep,
       ErasureTypeOK, Done, Erasing, Exporting, store
  <2>5. Fits(q)
    BY <1>8, <1>0, <2>1, <2>2 DEF DeleteManifests, At, Fits, Done, Erasing, Exporting, Step, Go, Fault, store
  <2> QED
    BY <2>2, <2>3, <2>4, <2>5, ErasureKeeps
<1>9. CASE CompleteDeletion(q)
  <2>1. PICK pc \in {"done", "complete"} : Moved(q, pc)
    BY <1>9, Steps DEF CompleteDeletion
  <2>2. /\ flow' \in [PrivacyRequests -> Positions] /\ faults' \in 0..MaxFaults
        /\ flow'[q] = pc /\ \A p \in PrivacyRequests : p # q => flow'[p] = flow[p]
    <3> pc \in Positions
      BY DEF Positions
    <3> QED
      BY <1>0, <2>1, Moving
  <2>3. ErasureTypeOK'
    BY <1>9, <1>0, <2>2 DEF CompleteDeletion, ErasureTypeOK, Positions, Stores, OpenStates, store
  <2>4. AccountKeeps /\ StoresKeep /\ RequestsKeep
    BY <1>9, <1>0 DEF CompleteDeletion, At, AccountKeeps, StoresKeep, RequestsKeep,
       ErasureTypeOK, Done, Erasing, Exporting, store
  <2>5. Fits(q)
    BY <1>9, <1>0, <2>1, <2>2 DEF CompleteDeletion, At, Fits, Done, Erasing, Exporting, Step, Go, Fault, store
  <2> QED
    BY <2>2, <2>3, <2>4, <2>5, ErasureKeeps
<1>10. CASE BuildPassport(q)
  <2>1. PICK pc \in {"publish", "build"} : Moved(q, pc)
    BY <1>10, Steps DEF BuildPassport
  <2>2. /\ flow' \in [PrivacyRequests -> Positions] /\ faults' \in 0..MaxFaults
        /\ flow'[q] = pc /\ \A p \in PrivacyRequests : p # q => flow'[p] = flow[p]
    <3> pc \in Positions
      BY DEF Positions
    <3> QED
      BY <1>0, <2>1, Moving
  <2>3. ErasureTypeOK'
    BY <1>10, <1>0, <2>2 DEF BuildPassport, ErasureTypeOK, Positions, Stores, OpenStates, store
  <2>4. AccountKeeps /\ StoresKeep /\ RequestsKeep
    BY <1>10, <1>0 DEF BuildPassport, At, AccountKeeps, StoresKeep, RequestsKeep,
       ErasureTypeOK, Done, Erasing, Exporting, store
  <2>5. Fits(q)
    BY <1>10, <1>0, <2>1, <2>2 DEF BuildPassport, At, Fits, Done, Erasing, Exporting, Step, Go, Fault, store
  <2> QED
    BY <2>2, <2>3, <2>4, <2>5, ErasureKeeps
<1>11. CASE PublishBegin(q)
  <2>1. PICK pc \in {"put", "errored"} : Moved(q, pc)
    BY <1>11, Steps DEF PublishBegin
  <2>2. /\ flow' \in [PrivacyRequests -> Positions] /\ faults' \in 0..MaxFaults
        /\ flow'[q] = pc /\ \A p \in PrivacyRequests : p # q => flow'[p] = flow[p]
    <3> pc \in Positions
      BY DEF Positions
    <3> QED
      BY <1>0, <2>1, Moving
  <2>3. ErasureTypeOK'
    BY <1>11, <1>0, <2>2 DEF PublishBegin, ErasureTypeOK, Positions, Stores, OpenStates, store
  <2>4. AccountKeeps /\ StoresKeep /\ RequestsKeep
    BY <1>11, <1>0 DEF PublishBegin, At, AccountKeeps, StoresKeep, RequestsKeep,
       ErasureTypeOK, Done, Erasing, Exporting, store
  <2>5. Fits(q)
    BY <1>11, <1>0, <2>1, <2>2 DEF PublishBegin, At, Fits, Done, Erasing, Exporting, Step, Go, Fault, store
  <2> QED
    BY <2>2, <2>3, <2>4, <2>5, ErasureKeeps
<1>12. CASE PutExport(q)
  <2>1. Moved(q, "commit")
    BY <1>12, Steps DEF PutExport
  <2>2. /\ flow' \in [PrivacyRequests -> Positions] /\ faults' \in 0..MaxFaults
        /\ flow'[q] = "commit" /\ \A p \in PrivacyRequests : p # q => flow'[p] = flow[p]
    <3> "commit" \in Positions
      BY DEF Positions
    <3> QED
      BY <1>0, <2>1, Moving
  <2>3. ErasureTypeOK'
    BY <1>12, <1>0, <2>2 DEF PutExport, ErasureTypeOK, Positions, Stores, OpenStates, store
  <2>4. AccountKeeps /\ StoresKeep /\ RequestsKeep
    BY <1>12, <1>0 DEF PutExport, At, AccountKeeps, StoresKeep, RequestsKeep,
       ErasureTypeOK, Done, Erasing, Exporting, store
  <2>5. Fits(q)
    BY <1>12, <1>0, <2>1, <2>2 DEF PutExport, At, Fits, Done, Erasing, Exporting, Step, Go, Fault, store
  <2> QED
    BY <2>2, <2>3, <2>4, <2>5, ErasureKeeps
<1>13. CASE CommitExport(q)
  <2>1. PICK pc \in {"done", "publish"} : Moved(q, pc)
    BY <1>13, Steps DEF CommitExport
  <2>2. /\ flow' \in [PrivacyRequests -> Positions] /\ faults' \in 0..MaxFaults
        /\ flow'[q] = pc /\ \A p \in PrivacyRequests : p # q => flow'[p] = flow[p]
    <3> pc \in Positions
      BY DEF Positions
    <3> QED
      BY <1>0, <2>1, Moving
  <2>3. ErasureTypeOK'
    BY <1>13, <1>0, <2>2 DEF CommitExport, ErasureTypeOK, Positions, Stores, OpenStates, store
  <2>4. AccountKeeps /\ StoresKeep /\ RequestsKeep
    BY <1>13, <1>0 DEF CommitExport, At, AccountKeeps, StoresKeep, RequestsKeep,
       ErasureTypeOK, Done, Erasing, Exporting, store
  <2>5. Fits(q)
    BY <1>13, <1>0, <2>1, <2>2 DEF CommitExport, At, Fits, Done, Erasing, Exporting, Step, Go, Fault, store
  <2> QED
    BY <2>2, <2>3, <2>4, <2>5, ErasureKeeps
<1>14. CASE GiveUp(q)
  <2>1. Moved(q, "errored")
    BY <1>14, Steps DEF GiveUp
  <2>2. /\ flow' \in [PrivacyRequests -> Positions] /\ faults' \in 0..MaxFaults
        /\ flow'[q] = "errored" /\ \A p \in PrivacyRequests : p # q => flow'[p] = flow[p]
    <3> "errored" \in Positions
      BY DEF Positions
    <3> QED
      BY <1>0, <2>1, Moving
  <2>3. ErasureTypeOK'
    BY <1>14, <1>0, <2>2 DEF GiveUp, ErasureTypeOK, Positions, Stores, OpenStates, store
  <2>4. AccountKeeps /\ StoresKeep /\ RequestsKeep
    BY <1>14, <1>0 DEF GiveUp, At, AccountKeeps, StoresKeep, RequestsKeep,
       ErasureTypeOK, Done, Erasing, Exporting, store
  <2>5. Fits(q)
    BY <1>14, <1>0, <2>1, <2>2 DEF GiveUp, At, Fits, Done, Erasing, Exporting, Step, Go, Fault, store
  <2> QED
    BY <2>2, <2>3, <2>4, <2>5, ErasureKeeps
<1>15. CASE RollBack(q)
  <2>1. Moved(q, "publish")
    BY <1>15, Steps DEF RollBack
  <2>2. /\ flow' \in [PrivacyRequests -> Positions] /\ faults' \in 0..MaxFaults
        /\ flow'[q] = "publish" /\ \A p \in PrivacyRequests : p # q => flow'[p] = flow[p]
    <3> "publish" \in Positions
      BY DEF Positions
    <3> QED
      BY <1>0, <2>1, Moving
  <2>3. ErasureTypeOK'
    BY <1>15, <1>0, <2>2 DEF RollBack, ErasureTypeOK, Positions, Stores, OpenStates, store
  <2>4. AccountKeeps /\ StoresKeep /\ RequestsKeep
    BY <1>15, <1>0 DEF RollBack, At, AccountKeeps, StoresKeep, RequestsKeep,
       ErasureTypeOK, Done, Erasing, Exporting, store
  <2>5. Fits(q)
    BY <1>15, <1>0, <2>1, <2>2 DEF RollBack, At, Fits, Done, Erasing, Exporting, Step, Go, Fault, store
  <2> QED
    BY <2>2, <2>3, <2>4, <2>5, ErasureKeeps
<1>16. CASE LoseConnection(q)
  <2>1. Moved(q, "publish")
    BY <1>16, Steps DEF LoseConnection
  <2>2. /\ flow' \in [PrivacyRequests -> Positions] /\ faults' \in 0..MaxFaults
        /\ flow'[q] = "publish" /\ \A p \in PrivacyRequests : p # q => flow'[p] = flow[p]
    <3> "publish" \in Positions
      BY DEF Positions
    <3> QED
      BY <1>0, <2>1, Moving
  <2>3. ErasureTypeOK'
    BY <1>16, <1>0, <2>2 DEF LoseConnection, ErasureTypeOK, Positions, Stores, OpenStates, store
  <2>4. AccountKeeps /\ StoresKeep /\ RequestsKeep
    BY <1>16, <1>0 DEF LoseConnection, At, AccountKeeps, StoresKeep, RequestsKeep,
       ErasureTypeOK, Done, Erasing, Exporting, store
  <2>5. Fits(q)
    BY <1>16, <1>0, <2>1, <2>2 DEF LoseConnection, At, Fits, Done, Erasing, Exporting, Step, Go, Fault, store
  <2> QED
    BY <2>2, <2>3, <2>4, <2>5, ErasureKeeps
<1> QED
  BY <1>1, <1>2, <1>3, <1>4, <1>5, <1>6, <1>7, <1>8, <1>9, <1>10, <1>11, <1>12, <1>13, <1>14, <1>15, <1>16 DEF Workflow

\* The event of a request and a put that arrives late.
LEMMA RequestKeeps ==
  ASSUME EraseInv, NEW q \in PrivacyRequests,
         relayOutbox(q) \/ ConsumeRequest(q) \/ LatePut(q)
  PROVE  EraseInv'
<1> USE DEF EraseInv, Running
<1>1. CASE relayOutbox(q)
  <2>1. ErasureTypeOK'
    BY <1>1 DEF relayOutbox, ErasureTypeOK, store, bounds
  <2>2. AccountKeeps /\ StoresKeep /\ RequestsKeep
    BY <1>1 DEF relayOutbox, AccountKeeps, StoresKeep, RequestsKeep, ErasureTypeOK, store
  <2> QED
    BY <1>1, <2>1, <2>2, ErasureKeeps DEF relayOutbox
<1>2. CASE ConsumeRequest(q)
  <2>1. ErasureTypeOK'
    BY <1>2 DEF ConsumeRequest, ErasureTypeOK, store, bounds
  <2>2. AccountKeeps /\ StoresKeep /\ RequestsKeep
    BY <1>2 DEF ConsumeRequest, AccountKeeps, StoresKeep, RequestsKeep, ErasureTypeOK, store
  <2>3. request[q].type \in {"delete", "export"}
    BY <1>2 DEF ConsumeRequest, KindInv, ErasureTypeOK
  <2>4. \A p \in PrivacyRequests : flow'[p] = flow[p] \/ Fits(p)
    BY <1>2, <2>3 DEF ConsumeRequest, Fits, Done, Erasing, Exporting, ErasureTypeOK
  <2> QED
    BY <2>1, <2>2, <2>4, ErasureKeeps
<1>3. CASE LatePut(q)
  <2>1. ErasureTypeOK'
    BY <1>3 DEF LatePut, ErasureTypeOK, bounds
  <2>2. AccountKeeps /\ StoresKeep /\ RequestsKeep
    BY <1>3 DEF LatePut, AccountKeeps, StoresKeep, RequestsKeep, ErasureTypeOK
  <2> QED
    BY <1>3, <2>1, <2>2, ErasureKeeps DEF LatePut
<1> QED
  BY <1>1, <1>2, <1>3

\* A new request disturbs no workflow: none runs for it.
LEMMA Recording ==
  ASSUME ErasureTypeOK, NEW q \in PrivacyRequests, NEW type \in {"delete", "export"}, NEW by \in {"user", "admin"},
         Unused(q), Record(q, type, by), flow' = flow
  PROVE  /\ request' \in [PrivacyRequests -> [type: {"none", "delete", "export"}, by: {"none", "user", "admin"},
                                              state: {"none", "completed"} \cup OpenStates]]
         /\ event' \in [PrivacyRequests -> {"none", "outbox", "queued", "blank", "done", "dead"}]
         /\ RequestsKeep
<1>1. request[q].type = "none"
  BY DEF Unused, NoRequest
<1> QED
  BY <1>1 DEF Record, ErasureTypeOK, RequestsKeep, OpenStates

\* Users, administrators and operators.
LEMMA ApiKeeps ==
  ASSUME EraseInv,
         \/ \E q \in PrivacyRequests, type \in {"delete", "export"} : createPrivacyRequest(q, type)
         \/ deleteAdminUser \/ ChangeHold
         \/ \E next \in {"active", "suspended", "locked"} : updateAccountStatus(next)
  PROVE  EraseInv'
<1> USE DEF EraseInv
<1>1. ASSUME NEW q \in PrivacyRequests, NEW type \in {"delete", "export"}, createPrivacyRequest(q, type)
      PROVE  EraseInv'
  <2>1. Unused(q) /\ Record(q, type, "user") /\ flow' = flow
    BY <1>1 DEF createPrivacyRequest
  <2>2. /\ request' \in [PrivacyRequests -> [type: {"none", "delete", "export"}, by: {"none", "user", "admin"},
                                             state: {"none", "completed"} \cup OpenStates]]
        /\ event' \in [PrivacyRequests -> {"none", "outbox", "queued", "blank", "done", "dead"}]
        /\ RequestsKeep
    BY <2>1, Recording
  <2>3. ErasureTypeOK' /\ AccountKeeps /\ StoresKeep
    BY <1>1, <2>2 DEF createPrivacyRequest, ErasureTypeOK, AccountKeeps, StoresKeep, store, bounds
  <2> QED
    BY <2>1, <2>2, <2>3, ErasureKeeps
<1>2. CASE deleteAdminUser
  <2>1. /\ request' \in [PrivacyRequests -> [type: {"none", "delete", "export"}, by: {"none", "user", "admin"},
                                             state: {"none", "completed"} \cup OpenStates]]
        /\ event' \in [PrivacyRequests -> {"none", "outbox", "queued", "blank", "done", "dead"}]
        /\ RequestsKeep /\ flow' = flow
    <3>1. CASE request' = request /\ event' = event
      BY <1>2, <3>1 DEF deleteAdminUser, ErasureTypeOK, RequestsKeep
    <3>2. ASSUME NEW q \in PrivacyRequests, Unused(q), Record(q, "delete", "admin")
          PROVE  /\ request' \in [PrivacyRequests -> [type: {"none", "delete", "export"}, by: {"none", "user", "admin"},
                                                     state: {"none", "completed"} \cup OpenStates]]
                 /\ event' \in [PrivacyRequests -> {"none", "outbox", "queued", "blank", "done", "dead"}]
                 /\ RequestsKeep /\ flow' = flow
      BY <1>2, <3>2, Recording DEF deleteAdminUser
    <3>3. \/ request' = request /\ event' = event
          \/ \E q \in PrivacyRequests : Unused(q) /\ Record(q, "delete", "admin")
      BY <1>2 DEF deleteAdminUser
    <3> QED
      BY <3>1, <3>2, <3>3
  <2>2. ErasureTypeOK' /\ AccountKeeps /\ StoresKeep
    BY <1>2, <2>1 DEF deleteAdminUser, ErasureTypeOK, AccountKeeps, StoresKeep, store, bounds
  <2> QED
    BY <2>1, <2>2, ErasureKeeps
<1>3. CASE ChangeHold
  <2>1. ErasureTypeOK'
    <3>1. hold' \in BOOLEAN
      BY <1>3 DEF ChangeHold
    <3> QED
      BY <1>3, <3>1, ErasureConstants DEF ChangeHold, ErasureTypeOK, store
  <2>2. AccountKeeps /\ StoresKeep /\ RequestsKeep
    BY <1>3 DEF ChangeHold, AccountKeeps, StoresKeep, RequestsKeep, ErasureTypeOK, store
  <2> QED
    BY <1>3, <2>1, <2>2, ErasureKeeps DEF ChangeHold
<1>4. ASSUME NEW next \in {"active", "suspended", "locked"}, updateAccountStatus(next)
      PROVE  EraseInv'
  <2>1. ErasureTypeOK'
    BY <1>4, ErasureConstants DEF updateAccountStatus, ErasureTypeOK, store
  <2>2. AccountKeeps /\ StoresKeep /\ RequestsKeep
    BY <1>4 DEF updateAccountStatus, AccountKeeps, StoresKeep, RequestsKeep, ErasureTypeOK, store
  <2> QED
    BY <1>4, <2>1, <2>2, ErasureKeeps DEF updateAccountStatus
<1> QED
  BY <1>1, <1>2, <1>3, <1>4

\* A step of nobody.
LEMMA StutterKeepsErasure ==
  ASSUME EraseInv, UNCHANGED erasureVars
  PROVE  EraseInv'
<1> USE DEF EraseInv, erasureVars, store, bounds
<1>1. ErasureTypeOK'
  BY DEF ErasureTypeOK
<1>2. AccountKeeps /\ StoresKeep /\ RequestsKeep
  BY DEF AccountKeeps, StoresKeep, RequestsKeep
<1> QED
  BY <1>1, <1>2, ErasureKeeps

-----------------------------------------------------------------------------
\* Erasure, publication and the account's row keep each other in step, whatever interleaves.
THEOREM ErasureInvariance == ErasureSpec => []EraseInv
<1>1. ErasureInit => EraseInv
  <2> SUFFICES ASSUME ErasureInit PROVE EraseInv
    OBVIOUS
  <2> USE DEF ErasureInit, NoRequest
  <2>0. 0 \in 0..MaxChanges /\ 0 \in 0..MaxFaults
    BY ErasureConstants
  <2>1. ErasureTypeOK
    BY <2>0 DEF ErasureTypeOK
  <2>2. PublishInv /\ KindInv /\ ProgressInv
    BY DEF PublishInv, KindInv, ProgressInv, Done, Erasing, Exporting
  <2>3. ErasureIsComplete /\ DownloadsAreServed
    BY DEF ErasureIsComplete, DownloadsAreServed, OfType
  <2> QED
    BY <2>1, <2>2, <2>3 DEF EraseInv
<1>2. EraseInv /\ [ErasureNext]_erasureVars => EraseInv'
  BY WorkflowKeeps, RequestKeeps, ApiKeeps, StutterKeepsErasure DEF ErasureNext
<1> QED
  BY <1>1, <1>2, PTL DEF ErasureSpec

\* The types of the privacy requests, of their events and of their workflows.
THEOREM ErasureTypes == ErasureSpec => []ErasureTypeOK
<1>1. EraseInv => ErasureTypeOK
  BY DEF EraseInv
<1> QED
  BY <1>1, ErasureInvariance, PTL

\* A deletion that is reported complete has been through every store, and nothing brings the account
\* or an export back.
THEOREM CompletedErasure == ErasureSpec => []ErasureIsComplete
<1>1. EraseInv => ErasureIsComplete
  BY DEF EraseInv
<1> QED
  BY <1>1, ErasureInvariance, PTL

\* A manifest has its object as long as its owner can ask for it.
THEOREM ServedDownloads == ErasureSpec => []DownloadsAreServed
<1>1. EraseInv => DownloadsAreServed
  BY DEF EraseInv
<1> QED
  BY <1>1, ErasureInvariance, PTL

=============================================================================
