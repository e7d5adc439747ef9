------------------------- MODULE ContentModeration -------------------------
(***************************************************************************)
(* Posts, comments and profiles from submission to publication.  Every     *)
(* change of a text gives it a new source event and puts it under review;  *)
(* the queue consumer opens a moderation case for the revision, staff      *)
(* decide and reopen cases.  Nothing is public without a decision.         *)
(*                                                                         *)
(* A revision is the number of its source event (moderation_source_event_  *)
(* id): body, declared mode and hash change only together with it.  A case *)
(* is identified by content and revision (moderation_cases_content_source_ *)
(* event_idx).  Each action is one transaction; a consumer's work is two,  *)
(* with the model's evaluation in between.  The contents have one author.  *)
(***************************************************************************)
EXTENDS Naturals, FiniteSets

CONSTANTS
  Posts, Comments, Profiles,
  OthersPost,  \* whether a post of another author is public, to comment on
  Consumers,   \* runs of the queue consumer
  Moderators,  \* staff, each with one case on screen
  MaxRev,      \* bound on the revisions of one content
  MaxContents, \* bound on the contents that are submitted or edited
  MaxCycle     \* bound on the reopenings of one case

VARIABLES
  rev,      \* the current source event of each content; 0: never submitted
  mod,      \* its moderation_state
  deleted,  \* contents with deleted_at
  author,   \* the author's account is active
  case,     \* moderation.cases: the state of the case of each revision
  cycle,    \* its review cycle: how often it was reopened
  dec,      \* its latest staff decision and the cycle it was made in
  scanned,  \* moderation.detector_runs by content and revision
  msgs,     \* events in the outbox or the queue, not yet acknowledged
  work,     \* each consumer's message and how far it is
  seen,     \* the case each moderator loaded: its revision, cycle and state
  skipped   \* history: revisions whose event was acknowledged while the author was not active

texts == <<rev, mod, deleted>>
cases == <<case, cycle, dec, scanned>>
vars == <<texts, author, cases, msgs, work, seen, skipped>>

Contents == Posts \cup Comments \cup Profiles
Revs == 1..MaxRev
Keys == Contents \X Revs

ASSUME ContentConstants ==
  /\ OthersPost \in BOOLEAN
  /\ MaxRev \in Nat \ {0} /\ MaxContents \in Nat \ {0} /\ MaxCycle \in Nat
  /\ Posts \cap Comments = {} /\ Posts \cap Profiles = {} /\ Comments \cap Profiles = {}

Within(c) == Cardinality({d \in Contents : rev[d] > 0} \cup {c}) <= MaxContents

Review(c, r) == [type |-> "review", c |-> c, r |-> r]
Deletion(c) == [type |-> "deleted", c |-> c, r |-> rev[c]]
Idle == [pc |-> "idle"]
Nothing == [at |-> "nothing"]

Init ==
  /\ rev = [c \in Contents |-> 0]
  /\ mod = [c \in Contents |-> IF c \in Profiles THEN "allowed" ELSE "under_review"]
  /\ deleted = {} /\ author = TRUE
  /\ case = [k \in Keys |-> "none"]
  /\ cycle = [k \in Keys |-> 0]
  /\ dec = [k \in Keys |-> [outcome |-> "none", cycle |-> 0]]
  /\ scanned = {} /\ msgs = {} /\ skipped = {}
  /\ work = [w \in Consumers |-> Idle]
  /\ seen = [m \in Moderators |-> Nothing]

-----------------------------------------------------------------------------
(* The author (public API).                                                *)

\* visiblePostForInteraction, for the author of all contents.
Visible(p) == rev[p] > 0 /\ mod[p] = "allowed" /\ p \notin deleted /\ author

\* The row, under review, and its event in one transaction.
Create(c) ==
  /\ rev[c] = 0 /\ Within(c)
  /\ rev' = [rev EXCEPT ![c] = 1]
  /\ msgs' = msgs \cup {Review(c, 1)}
  /\ UNCHANGED <<mod, deleted, author, cases, work, seen, skipped>>

createPost(p) == p \in Posts /\ Create(p)

createComment(c) == c \in Comments /\ (OthersPost \/ \E p \in Posts : Visible(p)) /\ Create(c)

\* A changed text goes back to review.
Edit(c) ==
  /\ rev[c] < MaxRev /\ Within(c)
  /\ rev' = [rev EXCEPT ![c] = @ + 1]
  /\ mod' = [mod EXCEPT ![c] = "under_review"]
  /\ msgs' = msgs \cup {Review(c, rev[c] + 1)}
  /\ UNCHANGED <<deleted, author, cases, work, seen, skipped>>

updatePost(p) == p \in Posts \ deleted /\ rev[p] > 0 /\ Edit(p)

updateComment(c) == c \in Comments \ deleted /\ rev[c] > 0 /\ Edit(c)

\* updateProfile with a new display name or bio.
updateProfile(u) == u \in Profiles /\ Edit(u)

\* The row is kept with deleted_at.
Delete(c) ==
  /\ rev[c] > 0 /\ c \notin deleted
  /\ deleted' = deleted \cup {c}
  /\ msgs' = msgs \cup {Deletion(c)}
  /\ UNCHANGED <<rev, mod, author, cases, work, seen, skipped>>

deletePost(p) == p \in Posts /\ Delete(p)

deleteComment(c) == c \in Comments /\ Delete(c)

\* The account is suspended or restored (AuthSessions models how).
AuthorChanges ==
  /\ author' = ~author
  /\ UNCHANGED <<texts, cases, msgs, work, seen, skipped>>

-----------------------------------------------------------------------------
(* The consumer.                                                           *)

\* isCurrentContentModerationRevision, isCurrentProfileModerationRevision: the event is about the
\* text as it is.
SameRevision(k) ==
  author /\ rev[k[1]] = k[2] /\ mod[k[1]] = "under_review" /\ k[1] \notin deleted

\* readTextReviewSnapshot: nor does a case of this revision hold the text.  Profiles have no holds.
Current(k) ==
  /\ SameRevision(k)
  /\ k[1] \notin Profiles => case[k] \in {"none", "superseded"}

\* An acknowledged message is gone, unless the acknowledgement was lost.
Ack(m) == msgs' \in {msgs \ {m}, msgs}

Skip(k) == skipped' = IF author THEN skipped ELSE skipped \cup {k}

\* The first transaction: the handler goes on, or returns and the message is acknowledged.
Snapshot(w, m, goesOn) ==
  /\ work[w] = Idle /\ m \in msgs /\ m.type = "review"
  /\ IF goesOn
     THEN work' = [work EXCEPT ![w] = [pc |-> "apply", m |-> m]] /\ UNCHANGED <<msgs, skipped>>
     ELSE Ack(m) /\ Skip(<<m.c, m.r>>) /\ UNCHANGED work
  /\ UNCHANGED <<texts, author, cases, seen>>

\* A post or a profile goes to the model, unless its revision has been there before.
processPostModeration(w, m) ==
  LET k == <<m.c, m.r>> IN m.c \in Posts /\ Snapshot(w, m, Current(k) /\ k \notin scanned)

processCommentModeration(w, m) == m.c \in Comments /\ Snapshot(w, m, Current(<<m.c, m.r>>))

processProfileModeration(w, m) ==
  LET k == <<m.c, m.r>> IN m.c \in Profiles /\ Snapshot(w, m, Current(k) /\ k \notin scanned)

\* Mutant: the older revisions' cases stay open.
OpenCaseBeside(k) ==
  /\ scanned' = scanned \cup {k}
  /\ case' = [case EXCEPT ![k] = "open"]

\* Every open case of an older revision is superseded, and the revision gets its own.
OpenCase(k) ==
  /\ scanned' = scanned \cup {k}
  /\ case' = [j \in Keys |-> IF j = k THEN "open"
                             ELSE IF j[1] = k[1] /\ case[j] = "open" THEN "superseded" ELSE case[j]]

\* Mutant: the second transaction trusts the first one's snapshot.
ApplyUnchecked(w) ==
  /\ work[w] # Idle
  /\ LET m == work[w].m  k == <<m.c, m.r>> IN
     /\ IF k \notin scanned /\ case[k] = "none"
        THEN OpenCase(k) /\ UNCHANGED skipped
        ELSE Skip(k) /\ UNCHANGED <<case, scanned>>
     /\ Ack(m)
  /\ work' = [work EXCEPT ![w] = Idle]
  /\ UNCHANGED <<texts, author, cycle, dec, seen>>

\* The second transaction reads everything again under locks and opens the case; the unique
\* detector run makes the second of two deliveries a no-op.
Apply(w) ==
  /\ work[w] # Idle
  /\ LET m == work[w].m  k == <<m.c, m.r>> IN
     /\ IF Current(k) /\ k \notin scanned /\ case[k] = "none"
        THEN OpenCase(k) /\ UNCHANGED skipped
        ELSE Skip(k) /\ UNCHANGED <<case, scanned>>
     /\ Ack(m)
  /\ work' = [work EXCEPT ![w] = Idle]
  /\ UNCHANGED <<texts, author, cycle, dec, seen>>

\* A lock is busy (NOWAIT), the account fence is unavailable, a statement fails or the consumer
\* dies: everything is rolled back and the message comes again.
Fail(w) ==
  /\ work[w] # Idle
  /\ work' = [work EXCEPT ![w] = Idle]
  /\ UNCHANGED <<texts, author, cases, msgs, seen, skipped>>

\* supersedeDeletedContentCases; a deletion is never undone, so its two statements act as one.
HandleDeletion(m) ==
  /\ m \in msgs /\ m.type = "deleted"
  /\ case' = [k \in Keys |-> IF k[1] = m.c /\ m.c \in deleted /\ case[k] = "open"
                             THEN "superseded" ELSE case[k]]
  /\ Ack(m)
  /\ UNCHANGED <<texts, author, cycle, dec, scanned, work, seen, skipped>>

-----------------------------------------------------------------------------
(* Staff (admin API).                                                      *)

\* A moderator loads a case.
View(m, k) ==
  /\ case[k] \in {"open", "resolved"}
  /\ seen' = [seen EXCEPT ![m] = [at |-> "case", key |-> k, cycle |-> cycle[k], state |-> case[k]]]
  /\ UNCHANGED <<texts, author, cases, msgs, work, skipped>>

\* content_active
Active(c) == IF c \in Profiles THEN author ELSE c \notin deleted

\* Mutant: the case's revision is not compared with the content's.
ActionableAnyRevision(k) == case[k] = "open" /\ Active(k[1])

\* assertActionableModerationCase
Actionable(k) == case[k] = "open" /\ Active(k[1]) /\ rev[k[1]] = k[2]

moderationState(outcome) ==
  IF outcome = "allow" THEN "allowed" ELSE IF outcome = "block" THEN "blocked" ELSE "under_review"

\* decideModeration: with the review cycle the moderator saw; "queue" leaves the case open.  An
\* allowed post needs its declaration row, which is written with the detector run.
decideModeration(m, outcome) ==
  /\ seen[m] # Nothing
  /\ LET k == seen[m].key IN
     /\ Actionable(k) /\ cycle[k] = seen[m].cycle
     /\ (outcome = "allow" /\ k[1] \in Posts) => \E r \in Revs : <<k[1], r>> \in scanned
     /\ dec' = [dec EXCEPT ![k] = [outcome |-> outcome, cycle |-> cycle[k]]]
     /\ case' = [case EXCEPT ![k] = IF outcome = "queue" THEN "open" ELSE "resolved"]
     /\ mod' = [mod EXCEPT ![k[1]] = moderationState(outcome)]
  /\ seen' = [seen EXCEPT ![m] = Nothing]
  /\ UNCHANGED <<rev, deleted, author, cycle, scanned, msgs, work, skipped>>

\* reopenModerationCase: of the resolution the moderator saw (a case is resolved once in each
\* cycle); the content leaves the public view with it.
reopenModerationCase(m) ==
  /\ seen[m] # Nothing
  /\ LET k == seen[m].key IN
     /\ seen[m].state = "resolved" /\ case[k] = "resolved" /\ cycle[k] = seen[m].cycle
     /\ k[1] \notin Profiles \cup deleted /\ rev[k[1]] = k[2] /\ cycle[k] < MaxCycle
     /\ case' = [case EXCEPT ![k] = "open"]
     /\ cycle' = [cycle EXCEPT ![k] = @ + 1]
     /\ mod' = [mod EXCEPT ![k[1]] = "under_review"]
  /\ seen' = [seen EXCEPT ![m] = Nothing]
  /\ UNCHANGED <<rev, deleted, author, dec, scanned, msgs, work, skipped>>

Next ==
  \/ \E c \in Contents :
       \/ createPost(c) \/ updatePost(c) \/ deletePost(c)
       \/ createComment(c) \/ updateComment(c) \/ deleteComment(c)
       \/ updateProfile(c)
  \/ AuthorChanges
  \/ \E w \in Consumers :
       \/ Apply(w) \/ Fail(w)
       \/ \E m \in msgs :
            processPostModeration(w, m) \/ processCommentModeration(w, m) \/ processProfileModeration(w, m)
  \/ \E m \in msgs : HandleDeletion(m)
  \/ \E m \in Moderators :
       \/ \E k \in Keys : View(m, k)
       \/ \E outcome \in {"allow", "block", "queue"} : decideModeration(m, outcome)
       \/ reopenModerationCase(m)

Spec == Init /\ [][Next]_vars

-----------------------------------------------------------------------------
(* Properties.                                                             *)

\* Types; a revision has a case exactly when it has a detector run, and only once submitted;
\* at most one case of a content is open (moderation_cases_one_open_content_idx is never hit).
TypeOK ==
  /\ rev \in [Contents -> 0..MaxRev]
  /\ mod \in [Contents -> {"under_review", "allowed", "blocked"}]
  /\ deleted \subseteq Posts \cup Comments /\ author \in BOOLEAN
  /\ case \in [Keys -> {"none", "open", "resolved", "superseded"}]
  /\ cycle \in [Keys -> 0..MaxCycle]
  /\ dec \in [Keys -> [outcome: {"none", "queue", "allow", "block"}, cycle: 0..MaxCycle]]
  /\ scanned \subseteq Keys /\ skipped \subseteq Keys
  /\ msgs \subseteq [type: {"review", "deleted"}, c: Contents, r: Revs]
  /\ work \in [Consumers -> {Idle} \cup [pc: {"apply"}, m: [type: {"review"}, c: Contents, r: Revs]]]
  /\ seen \in [Moderators ->
       {Nothing} \cup [at: {"case"}, key: Keys, cycle: 0..MaxCycle, state: {"open", "resolved"}]]
  /\ \A k \in Keys : case[k] # "none" <=> k \in scanned
  /\ \A j, k \in Keys : j[1] = k[1] /\ case[j] = "open" /\ case[k] = "open" => j = k

\* A text is public only as staff allowed it: the current revision's own case is resolved, by an
\* allowing decision of its current review cycle.  Edits, redeliveries and decisions on stale
\* screens must not let an unreviewed revision through.
PublicWasApproved ==
  \A c \in Contents :
    rev[c] > 0 /\ mod[c] = "allowed" /\ c \notin deleted =>
      LET k == <<c, rev[c]>> IN
      case[k] = "resolved" /\ dec[k] = [outcome |-> "allow", cycle |-> cycle[k]]

\* No text waits for a review that nobody will do: once its event is handled, a text under review
\* has an open case of its own revision and no other.  Excepted are revisions whose event was
\* acknowledged while the author was not active: no case is opened for them.
ReviewIsTracked ==
  \A c \in Contents :
    LET k == <<c, rev[c]>> IN
    rev[c] > 0 /\ mod[c] = "under_review" /\ c \notin deleted
      /\ Review(c, rev[c]) \notin msgs /\ k \notin skipped =>
        \A r \in Revs : case[<<c, r>>] = "open" <=> r = rev[c]

\* A deleted text leaves no work behind: after its deletion event is handled no case of it is
\* open, whatever reviews were under way.
DeletionClosesCases ==
  \A c \in deleted : Deletion(c) \notin msgs => \A r \in Revs : case[<<c, r>>] # "open"

=============================================================================
