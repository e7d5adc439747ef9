-------------------------- MODULE ModerationProofs --------------------------
(***************************************************************************)
(* Proofs about moderation: ContentModeration for any contents, consumers  *)
(* and moderators and any number of revisions and reopenings, and Appeals  *)
(* for any people, editors, size of the panel, attempts and events.  The   *)
(* two specifications share no variable and each theorem is about one of   *)
(* them.                                                                   *)
(***************************************************************************)
EXTENDS ContentModeration, Appeals, FiniteSetTheorems, TLAPS

\* What is only submitted is not public, and only what was submitted is deleted.
SubmittedInv ==
  /\ \A c \in Posts \cup Comments : rev[c] = 0 => mod[c] = "under_review"
  /\ \A c \in deleted : rev[c] > 0

\* A revision has no case before it exists.  Once the current one has a case no older one is
\* open; its case is resolved only with a decision on the text, superseded only by a deletion.
CaseInv ==
  \A c \in Contents :
    /\ \A r \in Revs : r > rev[c] => case[<<c, r>>] = "none"
    /\ rev[c] > 0 =>
         LET k == <<c, rev[c]>> IN
         /\ case[k] # "none" => \A r \in Revs : r # rev[c] => case[<<c, r>>] # "open"
         /\ case[k] = "resolved" => mod[c] # "under_review"
         /\ case[k] = "superseded" => c \in deleted

IndInv ==
  TypeOK /\ SubmittedInv /\ CaseInv /\ PublicWasApproved /\ ReviewIsTracked /\ DeletionClosesCases

-----------------------------------------------------------------------------
\* A key of the current revision, and what TypeOK says of the parts of a state.
LEMMA CurrentKey ==
  ASSUME TypeOK, NEW c \in Contents, rev[c] > 0
  PROVE  rev[c] \in Revs /\ <<c, rev[c]>> \in Keys
  BY ContentConstants DEF TypeOK, Keys, Revs

\* The initial state: nothing submitted, no case.
LEMMA InitInv == Init => IndInv
<1> SUFFICES ASSUME Init PROVE IndInv
  OBVIOUS
<1>1. TypeOK
  BY ContentConstants DEF Init, TypeOK, Keys, Contents, Idle, Nothing
<1>2. SubmittedInv /\ CaseInv
  BY ContentConstants DEF Init, SubmittedInv, CaseInv, Contents, Keys, Revs
<1>3. PublicWasApproved /\ ReviewIsTracked /\ DeletionClosesCases
  BY DEF Init, PublicWasApproved, ReviewIsTracked, DeletionClosesCases
<1> QED
  BY <1>1, <1>2, <1>3 DEF IndInv

\* A new revision, created or edited, is under review, has no case and has its event.
LEMMA SubmitStep ==
  ASSUME IndInv, NEW c \in Contents, c \notin deleted, Edit(c) \/ (Create(c) /\ c \notin Profiles)
  PROVE  IndInv'
<1> USE DEF IndInv
<1>0. /\ rev[c] \in 0..MaxRev /\ rev[c] < MaxRev /\ rev[c] + 1 \in Revs
      /\ rev' = [rev EXCEPT ![c] = rev[c] + 1]
      /\ msgs' = msgs \cup {Review(c, rev[c] + 1)}
      /\ mod' = [mod EXCEPT ![c] = "under_review"]
      /\ UNCHANGED <<deleted, author, case, cycle, dec, scanned, work, seen, skipped>>
  BY ContentConstants DEF Create, Edit, TypeOK, Revs, SubmittedInv, cases, Contents
<1>1. TypeOK'
  <2>1. Review(c, rev[c] + 1) \in [type: {"review", "deleted"}, c: Contents, r: Revs]
    BY <1>0 DEF Review
  <2>2. rev' \in [Contents -> 0..MaxRev]
    BY <1>0 DEF TypeOK, Revs
  <2> QED
    BY <1>0, <2>1, <2>2 DEF TypeOK
<1>2. SubmittedInv'
  BY <1>0 DEF SubmittedInv, TypeOK
<1>3. CaseInv'
  BY <1>0 DEF CaseInv, TypeOK, Revs
<1>4. PublicWasApproved'
  BY <1>0 DEF PublicWasApproved, TypeOK
<1>5. ReviewIsTracked'
  BY <1>0 DEF ReviewIsTracked, TypeOK, Review
<1>6. DeletionClosesCases'
  BY <1>0 DEF DeletionClosesCases, TypeOK, Deletion
<1> QED
  BY <1>1, <1>2, <1>3, <1>4, <1>5, <1>6

\* A deletion leaves its event behind.
LEMMA DeleteStep ==
  ASSUME IndInv, NEW c \in Posts \cup Comments, Delete(c)
  PROVE  IndInv'
<1> USE DEF IndInv
<1>0. /\ rev[c] > 0 /\ c \notin deleted /\ deleted' = deleted \cup {c}
      /\ msgs' = msgs \cup {Deletion(c)}
      /\ UNCHANGED <<rev, mod, author, case, cycle, dec, scanned, work, seen, skipped>>
  BY DEF Delete, cases
<1>1. TypeOK'
  <2>1. Deletion(c) \in [type: {"review", "deleted"}, c: Contents, r: Revs]
    BY <1>0, CurrentKey DEF Deletion, Contents
  <2> QED
    BY <1>0, <2>1 DEF TypeOK
<1>2. SubmittedInv' /\ CaseInv'
  BY <1>0 DEF SubmittedInv, CaseInv
<1>3. PublicWasApproved' /\ ReviewIsTracked'
  BY <1>0 DEF PublicWasApproved, ReviewIsTracked, Review, Deletion
<1>4. DeletionClosesCases'
  BY <1>0 DEF DeletionClosesCases, Deletion
<1> QED
  BY <1>1, <1>2, <1>3, <1>4

\* A change of the author's account, a failed consumer or a loaded screen touches no text or case.
LEMMA QuietStep ==
  ASSUME IndInv, UNCHANGED <<rev, mod, deleted, case, cycle, dec, scanned, msgs, skipped>>, TypeOK'
  PROVE  IndInv'
<1>1. SubmittedInv' /\ CaseInv'
  BY DEF IndInv, SubmittedInv, CaseInv
<1>2. PublicWasApproved' /\ ReviewIsTracked'
  BY DEF IndInv, PublicWasApproved, ReviewIsTracked, Review
<1>3. DeletionClosesCases'
  BY DEF IndInv, DeletionClosesCases, Deletion
<1> QED
  BY <1>1, <1>2, <1>3 DEF IndInv

\* A message that is acknowledged without a new case is not needed any more: the text is gone,
\* was decided, is tracked by a case, or is in skipped.
LEMMA Unneeded ==
  ASSUME IndInv, NEW c \in Contents, NEW r \in Revs, author,
         ~(Current(<<c, r>>) /\ case[<<c, r>>] = "none"),
         rev[c] = r, mod[c] = "under_review", c \notin deleted
  PROVE  case[<<c, r>>] = "open" /\ \A q \in Revs : q # r => case[<<c, q>>] # "open"
<1>1. <<c, r>> \in Keys /\ rev[c] > 0
  BY DEF Keys, Revs
<1>2. case[<<c, r>>] \in {"none", "open", "resolved", "superseded"}
  BY <1>1 DEF IndInv, TypeOK
<1>3. case[<<c, r>>] \notin {"none", "resolved", "superseded"}
  BY <1>1 DEF IndInv, CaseInv, Current, SameRevision
<1> QED
  BY <1>1, <1>2, <1>3 DEF IndInv, CaseInv

\* A step that acknowledges or keeps a review message without opening a case.
LEMMA AckStep ==
  ASSUME IndInv, NEW m \in [type: {"review"}, c: Contents, r: Revs],
         msgs' \in {msgs \ {m}, msgs},
         skipped' = IF author THEN skipped ELSE skipped \cup {<<m.c, m.r>>},
         ~(Current(<<m.c, m.r>>) /\ case[<<m.c, m.r>>] = "none"),
         UNCHANGED <<rev, mod, deleted, author, case, cycle, dec, scanned, seen>>,
         work' \in [Consumers -> {Idle} \cup [pc: {"apply"}, m: [type: {"review"}, c: Contents, r: Revs]]]
  PROVE  IndInv'
<1> USE DEF IndInv
<1>1. TypeOK'
  BY DEF TypeOK, Keys
<1>2. SubmittedInv' /\ CaseInv' /\ PublicWasApproved'
  BY DEF SubmittedInv, CaseInv, PublicWasApproved
<1>3. ReviewIsTracked'
  <2> SUFFICES ASSUME NEW c \in Contents, rev[c] > 0, mod[c] = "under_review", c \notin deleted,
                      Review(c, rev[c]) \notin msgs', <<c, rev[c]>> \notin skipped'
               PROVE  \A r \in Revs : case[<<c, r>>] = "open" <=> r = rev[c]
    BY DEF ReviewIsTracked, Review
  <2>1. CASE Review(c, rev[c]) \notin msgs
    BY <2>1 DEF ReviewIsTracked
  <2>2. CASE Review(c, rev[c]) \in msgs
    <3>1. m = Review(c, rev[c])
      BY <2>2
    <3>2. m.c = c /\ m.r = rev[c]
      BY <3>1 DEF Review
    <3> QED
      BY <3>2, Unneeded
  <2> QED
    BY <2>1, <2>2
<1>4. DeletionClosesCases'
  BY DEF DeletionClosesCases, Deletion
<1> QED
  BY <1>1, <1>2, <1>3, <1>4

\* A consumer's first transaction: it goes on, or the message was not needed.
LEMMA SnapshotStep ==
  ASSUME IndInv, NEW w \in Consumers, NEW m \in msgs, NEW g \in BOOLEAN, Snapshot(w, m, g),
         ~g => ~(Current(<<m.c, m.r>>) /\ case[<<m.c, m.r>>] = "none")
  PROVE  IndInv'
<1>0. m \in [type: {"review"}, c: Contents, r: Revs]
  BY DEF IndInv, TypeOK, Snapshot
<1>1. CASE g
  <2>1. /\ work' = [work EXCEPT ![w] = [pc |-> "apply", m |-> m]]
        /\ UNCHANGED <<rev, mod, deleted, author, case, cycle, dec, scanned, msgs, seen, skipped>>
    BY <1>1 DEF Snapshot, texts, cases
  <2>2. TypeOK'
    BY <1>0, <2>1 DEF IndInv, TypeOK
  <2> QED
    BY <2>1, <2>2, QuietStep
<1>2. CASE ~g
  <2>1. /\ Ack(m) /\ Skip(<<m.c, m.r>>)
        /\ UNCHANGED <<rev, mod, deleted, author, case, cycle, dec, scanned, work, seen>>
    BY <1>2 DEF Snapshot, texts, cases
  <2> QED
    BY <1>0, <1>2, <2>1, AckStep DEF Ack, Skip, IndInv, TypeOK
<1> QED
  BY <1>1, <1>2

\* Opening the case of a current revision: it is the content's only open case.
LEMMA OpenStep ==
  ASSUME IndInv, NEW w \in Consumers, NEW m \in [type: {"review"}, c: Contents, r: Revs],
         Current(<<m.c, m.r>>), case[<<m.c, m.r>>] = "none", OpenCase(<<m.c, m.r>>),
         msgs' \in {msgs \ {m}, msgs}, work' = [work EXCEPT ![w] = Idle],
         UNCHANGED <<rev, mod, deleted, author, cycle, dec, seen, skipped>>
  PROVE  IndInv'
<1> USE DEF IndInv
<1> DEFINE k == <<m.c, m.r>>
<1>0. /\ k \in Keys /\ m.c \in Contents /\ m.r \in Revs /\ rev[m.c] = m.r /\ m.c \notin deleted
      /\ mod[m.c] = "under_review" /\ k[1] = m.c /\ k[2] = m.r
  BY DEF Keys, Current, SameRevision
<1>1. \A j \in Keys : case'[j] = IF j = k THEN "open"
                                 ELSE IF j[1] = m.c /\ case[j] = "open" THEN "superseded" ELSE case[j]
  BY <1>0 DEF OpenCase
<1>2. scanned' = scanned \cup {k}
  BY DEF OpenCase
<1>3. TypeOK'
  <2>1. case' \in [Keys -> {"none", "open", "resolved", "superseded"}]
    BY <1>0 DEF OpenCase, TypeOK
  <2>2. \A j \in Keys : case'[j] # "none" <=> j \in scanned'
    BY <1>0, <1>1, <1>2 DEF TypeOK
  <2>3. \A i, j \in Keys : i[1] = j[1] /\ case'[i] = "open" /\ case'[j] = "open" => i = j
    <3>1. \A i, j \in Keys : i[1] = j[1] /\ case[i] = "open" /\ case[j] = "open" => i = j
      BY DEF TypeOK
    <3>2. \A j \in Keys : case'[j] = "open" => j = k \/ (j[1] # k[1] /\ case[j] = "open")
      BY <1>0, <1>1
    <3> QED
      BY <3>1, <3>2
  <2> QED
    BY <1>0, <1>2, <2>1, <2>2, <2>3 DEF TypeOK
<1>4. \A c \in Contents, r \in Revs :
        /\ <<c, r>> \in Keys
        /\ case'[<<c, r>>] = IF c = m.c /\ r = m.r THEN "open"
                             ELSE IF c = m.c /\ case[<<c, r>>] = "open" THEN "superseded"
                             ELSE case[<<c, r>>]
  BY <1>0, <1>1 DEF Keys
<1>5. SubmittedInv'
  BY DEF SubmittedInv
<1>6. CaseInv'
  <2> SUFFICES ASSUME NEW c \in Contents
               PROVE  /\ \A r \in Revs : r > rev[c] => case'[<<c, r>>] = "none"
                      /\ rev[c] > 0 =>
                           /\ case'[<<c, rev[c]>>] # "none" =>
                                \A r \in Revs : r # rev[c] => case'[<<c, r>>] # "open"
                           /\ case'[<<c, rev[c]>>] = "resolved" => mod[c] # "under_review"
                           /\ case'[<<c, rev[c]>>] = "superseded" => c \in deleted
    BY DEF CaseInv
  <2>1. CASE c = m.c
    <3>1. \A r \in Revs : r > rev[c] => case'[<<c, r>>] = "none"
      BY <1>0, <1>4, <2>1 DEF CaseInv, Revs
    <3> QED
      BY <1>0, <1>4, <2>1, <3>1
  <2>2. CASE c # m.c
    BY <1>4, <2>2, CurrentKey DEF CaseInv
  <2> QED
    BY <2>1, <2>2
<1>7. PublicWasApproved'
  BY <1>0, <1>4, CurrentKey DEF PublicWasApproved
<1>8. ReviewIsTracked'
  <2> SUFFICES ASSUME NEW c \in Contents, rev[c] > 0, mod[c] = "under_review", c \notin deleted,
                      Review(c, rev[c]) \notin msgs', <<c, rev[c]>> \notin skipped
               PROVE  \A r \in Revs : case'[<<c, r>>] = "open" <=> r = rev[c]
    BY DEF ReviewIsTracked, Review
  <2>1. CASE c = m.c
    BY <1>0, <1>4, <2>1
  <2>2. CASE c # m.c
    <3>1. Review(c, rev[c]) # m
      BY <2>2 DEF Review
    <3> QED
      BY <1>4, <2>2, <3>1 DEF ReviewIsTracked
  <2> QED
    BY <2>1, <2>2
<1>9. DeletionClosesCases'
  BY <1>0, <1>4 DEF DeletionClosesCases, Deletion, TypeOK, Contents
<1> QED
  BY <1>3, <1>5, <1>6, <1>7, <1>8, <1>9

\* A consumer's second transaction: a new case or an unneeded message.
LEMMA ApplyStep ==
  ASSUME IndInv, NEW w \in Consumers, Apply(w)
  PROVE  IndInv'
<1> DEFINE m == work[w].m
           k == <<m.c, m.r>>
<1>1. m \in [type: {"review"}, c: Contents, r: Revs]
  BY DEF IndInv, TypeOK, Apply
<1>2. /\ Ack(m) /\ work' = [work EXCEPT ![w] = Idle]
      /\ UNCHANGED <<rev, mod, deleted, author, cycle, dec, seen>>
      /\ IF Current(k) /\ k \notin scanned /\ case[k] = "none"
         THEN OpenCase(k) /\ UNCHANGED skipped
         ELSE Skip(k) /\ UNCHANGED <<case, scanned>>
  BY DEF Apply, texts
<1>3. CASE Current(k) /\ k \notin scanned /\ case[k] = "none"
  BY <1>1, <1>2, <1>3, OpenStep DEF Ack
<1>4. CASE ~(Current(k) /\ k \notin scanned /\ case[k] = "none")
  <2>1. ~(Current(k) /\ case[k] = "none")
    BY <1>1, <1>4 DEF IndInv, TypeOK, Keys
  <2>2. work' \in [Consumers -> {Idle} \cup [pc: {"apply"}, m: [type: {"review"}, c: Contents, r: Revs]]]
    BY <1>2 DEF IndInv, TypeOK
  <2> QED
    BY <1>1, <1>2, <1>4, <2>1, <2>2, AckStep DEF Ack, Skip
<1> QED
  BY <1>3, <1>4

\* The deletion event closes the cases of the deleted text and of no other.
LEMMA HandleDeletionStep ==
  ASSUME IndInv, NEW m \in msgs, HandleDeletion(m)
  PROVE  IndInv'
<1> USE DEF IndInv
<1>0. /\ m \in [type: {"deleted"}, c: Contents, r: Revs]
      /\ msgs' \in {msgs \ {m}, msgs}
      /\ UNCHANGED <<rev, mod, deleted, author, cycle, dec, scanned, work, seen, skipped>>
      /\ case' = [k \in Keys |-> IF k[1] = m.c /\ m.c \in deleted /\ case[k] = "open"
                                 THEN "superseded" ELSE case[k]]
  BY DEF HandleDeletion, TypeOK, texts, Ack
<1>1. TypeOK'
  BY <1>0 DEF TypeOK
<1>2. \A c \in Contents, r \in Revs :
        /\ <<c, r>> \in Keys
        /\ case'[<<c, r>>] = IF c = m.c /\ c \in deleted /\ case[<<c, r>>] = "open"
                             THEN "superseded" ELSE case[<<c, r>>]
  BY <1>0 DEF Keys
<1>3. SubmittedInv' /\ CaseInv'
  BY <1>0, <1>2, CurrentKey DEF SubmittedInv, CaseInv
<1>4. PublicWasApproved'
  BY <1>0, <1>2, CurrentKey DEF PublicWasApproved
<1>5. ReviewIsTracked'
  BY <1>0, <1>2 DEF ReviewIsTracked, Review
<1>6. DeletionClosesCases'
  <2> SUFFICES ASSUME NEW c \in deleted, Deletion(c) \notin msgs', NEW r \in Revs
               PROVE  case'[<<c, r>>] # "open"
    BY <1>0 DEF DeletionClosesCases, Deletion
  <2>1. c \in Contents
    BY DEF TypeOK, Contents
  <2>2. CASE c = m.c
    BY <1>2, <2>1, <2>2
  <2>3. CASE c # m.c
    <3>1. Deletion(c) # m
      BY <2>3 DEF Deletion
    <3> QED
      BY <1>0, <1>2, <2>1, <2>3, <3>1 DEF DeletionClosesCases
  <2> QED
    BY <2>2, <2>3
<1> QED
  BY <1>1, <1>3, <1>4, <1>5, <1>6

\* A decision of the review cycle on screen, about the current revision.
LEMMA DecideStep ==
  ASSUME IndInv, NEW a \in Moderators, NEW verdict \in {"allow", "block", "queue"},
         decideModeration(a, verdict)
  PROVE  IndInv'
<1> USE DEF IndInv
<1> DEFINE k == seen[a].key
<1>0. /\ k \in Keys /\ k[1] \in Contents /\ k[2] \in Revs /\ k = <<k[1], k[2]>>
      /\ cycle[k] \in 0..MaxCycle
  BY DEF decideModeration, TypeOK, Keys
<1>1. /\ case[k] = "open" /\ rev[k[1]] = k[2] /\ Active(k[1])
      /\ dec' = [dec EXCEPT ![k] = [outcome |-> verdict, cycle |-> cycle[k]]]
      /\ case' = [case EXCEPT ![k] = IF verdict = "queue" THEN "open" ELSE "resolved"]
      /\ mod' = [mod EXCEPT ![k[1]] = moderationState(verdict)]
      /\ seen' = [seen EXCEPT ![a] = Nothing]
      /\ UNCHANGED <<rev, deleted, author, cycle, scanned, msgs, work, skipped>>
  BY DEF decideModeration, Actionable
<1>2. k[1] \notin deleted
  BY <1>0, <1>1, ContentConstants DEF Active, TypeOK, Contents
<1>3. moderationState(verdict) \in {"under_review", "allowed", "blocked"}
  BY DEF moderationState
<1>4. TypeOK'
  <2>1. dec' \in [Keys -> [outcome: {"none", "queue", "allow", "block"}, cycle: 0..MaxCycle]]
    BY <1>0, <1>1 DEF TypeOK
  <2>2. \A j \in Keys : /\ case'[j] # "none" <=> case[j] # "none"
                        /\ case'[j] = "open" => case[j] = "open"
    BY <1>0, <1>1 DEF TypeOK
  <2>3. case' \in [Keys -> {"none", "open", "resolved", "superseded"}]
    BY <1>0, <1>1 DEF TypeOK
  <2>4. mod' \in [Contents -> {"under_review", "allowed", "blocked"}]
    BY <1>0, <1>1, <1>3 DEF TypeOK
  <2>5. seen' \in [Moderators ->
          {Nothing} \cup [at: {"case"}, key: Keys, cycle: 0..MaxCycle, state: {"open", "resolved"}]]
    BY <1>1 DEF TypeOK
  <2> QED
    BY <1>1, <2>1, <2>2, <2>3, <2>4, <2>5 DEF TypeOK
<1>5. SubmittedInv'
  BY <1>0, <1>1, <1>2 DEF SubmittedInv, TypeOK, Revs
<1>6. \A c \in Contents, r \in Revs :
        /\ <<c, r>> \in Keys
        /\ <<c, r>> = k <=> c = k[1] /\ r = rev[c]
        /\ case'[<<c, r>>] = IF c = k[1] /\ r = rev[c]
                             THEN (IF verdict = "queue" THEN "open" ELSE "resolved")
                             ELSE case[<<c, r>>]
        /\ dec'[<<c, r>>] = IF c = k[1] /\ r = rev[c]
                            THEN [outcome |-> verdict, cycle |-> cycle[<<c, r>>]] ELSE dec[<<c, r>>]
  <2> SUFFICES ASSUME NEW c \in Contents, NEW r \in Revs
               PROVE  /\ <<c, r>> \in Keys
                      /\ <<c, r>> = k <=> c = k[1] /\ r = rev[c]
                      /\ case'[<<c, r>>] = IF c = k[1] /\ r = rev[c]
                                           THEN (IF verdict = "queue" THEN "open" ELSE "resolved")
                                           ELSE case[<<c, r>>]
                      /\ dec'[<<c, r>>] = IF c = k[1] /\ r = rev[c]
                                          THEN [outcome |-> verdict, cycle |-> cycle[<<c, r>>]]
                                          ELSE dec[<<c, r>>]
    OBVIOUS
  <2>1. <<c, r>> \in Keys
    BY DEF Keys
  <2>2. <<c, r>> = k <=> c = k[1] /\ r = rev[c]
    BY <1>0, <1>1
  <2> QED
    BY <1>1, <2>1, <2>2 DEF TypeOK
<1>7. \A c \in Contents : mod'[c] = IF c = k[1] THEN moderationState(verdict) ELSE mod[c]
  BY <1>0, <1>1 DEF TypeOK
<1>8. CaseInv'
  <2> SUFFICES ASSUME NEW c \in Contents
               PROVE  /\ \A r \in Revs : r > rev[c] => case'[<<c, r>>] = "none"
                      /\ rev[c] > 0 =>
                           /\ case'[<<c, rev[c]>>] # "none" =>
                                \A r \in Revs : r # rev[c] => case'[<<c, r>>] # "open"
                           /\ case'[<<c, rev[c]>>] = "resolved" => mod'[c] # "under_review"
                           /\ case'[<<c, rev[c]>>] = "superseded" => c \in deleted
    BY <1>1 DEF CaseInv
  <2>1. CASE c = k[1]
    <3>1. rev[c] \in Revs /\ rev[c] > 0
      BY <1>0, <1>1, <2>1 DEF Revs
    <3>2. \A r \in Revs : r > rev[c] => r # rev[c]
      BY <3>1 DEF Revs
    <3> QED
      BY <1>0, <1>1, <1>6, <1>7, <2>1, <3>1, <3>2 DEF CaseInv, moderationState
  <2>2. CASE c # k[1]
    <3>1. /\ \A r \in Revs : case'[<<c, r>>] = case[<<c, r>>]
          /\ mod'[c] = mod[c]
          /\ rev[c] > 0 => rev[c] \in Revs
      BY <1>6, <1>7, <2>2, CurrentKey
    <3> QED
      BY <3>1 DEF CaseInv
  <2> QED
    BY <2>1, <2>2
<1>9. PublicWasApproved'
  BY <1>1, <1>6, <1>7, CurrentKey DEF PublicWasApproved, moderationState
<1>10. ReviewIsTracked'
  BY <1>1, <1>6, <1>7, <1>0, CurrentKey DEF ReviewIsTracked, Review, moderationState, CaseInv
<1>11. DeletionClosesCases'
  BY <1>1, <1>2, <1>6 DEF DeletionClosesCases, Deletion, TypeOK, Contents
<1> QED
  BY <1>4, <1>5, <1>8, <1>9, <1>10, <1>11

\* A resolved case of the current revision is reopened and its text leaves the public view.
LEMMA ReopenStep ==
  ASSUME IndInv, NEW a \in Moderators, reopenModerationCase(a)
  PROVE  IndInv'
<1> USE DEF IndInv
<1> DEFINE k == seen[a].key
<1>0. /\ k \in Keys /\ k[1] \in Contents /\ k[2] \in Revs /\ k = <<k[1], k[2]>>
      /\ cycle[k] \in 0..MaxCycle
  BY DEF reopenModerationCase, TypeOK, Keys
<1>1. /\ case[k] = "resolved" /\ rev[k[1]] = k[2] /\ k[1] \notin deleted /\ cycle[k] < MaxCycle
      /\ case' = [case EXCEPT ![k] = "open"]
      /\ cycle' = [cycle EXCEPT ![k] = cycle[k] + 1]
      /\ mod' = [mod EXCEPT ![k[1]] = "under_review"]
      /\ seen' = [seen EXCEPT ![a] = Nothing]
      /\ UNCHANGED <<rev, deleted, author, dec, scanned, msgs, work, skipped>>
  BY DEF reopenModerationCase
<1>2. \A c \in Contents, r \in Revs :
        /\ <<c, r>> \in Keys
        /\ <<c, r>> = k <=> c = k[1] /\ r = rev[c]
        /\ case'[<<c, r>>] = IF c = k[1] /\ r = rev[c] THEN "open" ELSE case[<<c, r>>]
        /\ c # k[1] => cycle'[<<c, r>>] = cycle[<<c, r>>]
  <2> SUFFICES ASSUME NEW c \in Contents, NEW r \in Revs
               PROVE  /\ <<c, r>> \in Keys
                      /\ <<c, r>> = k <=> c = k[1] /\ r = rev[c]
                      /\ case'[<<c, r>>] = IF c = k[1] /\ r = rev[c] THEN "open" ELSE case[<<c, r>>]
                      /\ c # k[1] => cycle'[<<c, r>>] = cycle[<<c, r>>]
    OBVIOUS
  <2>1. <<c, r>> \in Keys
    BY DEF Keys
  <2>2. <<c, r>> = k <=> c = k[1] /\ r = rev[c]
    BY <1>0, <1>1
  <2> QED
    BY <1>1, <2>1, <2>2 DEF TypeOK
<1>3. \A c \in Contents : mod'[c] = IF c = k[1] THEN "under_review" ELSE mod[c]
  BY <1>0, <1>1 DEF TypeOK
<1>4. rev[k[1]] > 0 /\ \A r \in Revs : r # rev[k[1]] => case[<<k[1], r>>] # "open"
  BY <1>0, <1>1 DEF CaseInv, Revs
<1>5. TypeOK'
  <2>1. cycle' \in [Keys -> 0..MaxCycle]
    BY <1>0, <1>1, ContentConstants DEF TypeOK
  <2>2. case' \in [Keys -> {"none", "open", "resolved", "superseded"}]
    BY <1>0, <1>1 DEF TypeOK
  <2>3. \A j \in Keys : case'[j] # "none" <=> j \in scanned'
    BY <1>0, <1>1 DEF TypeOK
  <2>4. \A i, j \in Keys : i[1] = j[1] /\ case'[i] = "open" /\ case'[j] = "open" => i = j
    <3>1. \A j \in Keys : j = k \/ (j[1] = k[1] => case[j] # "open")
      <4> SUFFICES ASSUME NEW j \in Keys, j[1] = k[1], j # k PROVE case[j] # "open"
        OBVIOUS
      <4>1. j = <<j[1], j[2]>> /\ j[2] \in Revs
        BY DEF Keys
      <4>2. j[2] # rev[k[1]]
        BY <1>0, <1>1, <4>1
      <4> QED
        BY <1>4, <4>1, <4>2
    <3>2. \A j \in Keys : case'[j] = IF j = k THEN "open" ELSE case[j]
      BY <1>1 DEF TypeOK
    <3>3. \A i, j \in Keys : i[1] = j[1] /\ case[i] = "open" /\ case[j] = "open" => i = j
      BY DEF TypeOK
    <3> QED
      BY <3>1, <3>2, <3>3
  <2>5. mod' \in [Contents -> {"under_review", "allowed", "blocked"}]
    BY <1>0, <1>1 DEF TypeOK
  <2>6. seen' \in [Moderators ->
          {Nothing} \cup [at: {"case"}, key: Keys, cycle: 0..MaxCycle, state: {"open", "resolved"}]]
    BY <1>1 DEF TypeOK
  <2> QED
    BY <1>1, <2>1, <2>2, <2>3, <2>4, <2>5, <2>6 DEF TypeOK
<1>6. SubmittedInv'
  BY <1>0, <1>1, <1>3 DEF SubmittedInv, Contents
<1>7. CaseInv'
  <2> SUFFICES ASSUME NEW c \in Contents
               PROVE  /\ \A r \in Revs : r > rev[c] => case'[<<c, r>>] = "none"
                      /\ rev[c] > 0 =>
                           /\ case'[<<c, rev[c]>>] # "none" =>
                                \A r \in Revs : r # rev[c] => case'[<<c, r>>] # "open"
                           /\ case'[<<c, rev[c]>>] = "resolved" => mod'[c] # "under_review"
                           /\ case'[<<c, rev[c]>>] = "superseded" => c \in deleted
    BY <1>1 DEF CaseInv
  <2>1. CASE c = k[1]
    <3>1. rev[c] \in Revs /\ \A r \in Revs : r > rev[c] => r # rev[c]
      BY <1>0, <1>1, <2>1 DEF Revs
    <3> QED
      BY <1>2, <1>4, <2>1, <3>1 DEF CaseInv
  <2>2. CASE c # k[1]
    <3>1. /\ \A r \in Revs : case'[<<c, r>>] = case[<<c, r>>]
          /\ mod'[c] = mod[c]
          /\ rev[c] > 0 => rev[c] \in Revs
      BY <1>2, <1>3, <2>2, CurrentKey
    <3> QED
      BY <3>1 DEF CaseInv
  <2> QED
    BY <2>1, <2>2
<1>8. PublicWasApproved'
  BY <1>1, <1>2, <1>3, CurrentKey DEF PublicWasApproved
<1>9. ReviewIsTracked'
  BY <1>1, <1>2, <1>3, <1>4, <1>0, CurrentKey DEF ReviewIsTracked, Review
<1>10. DeletionClosesCases'
  BY <1>1, <1>2 DEF DeletionClosesCases, Deletion, TypeOK, Contents
<1> QED
  BY <1>5, <1>6, <1>7, <1>8, <1>9, <1>10

\* One case per action.
LEMMA NextInv == IndInv /\ [Next]_vars => IndInv'
<1> SUFFICES ASSUME IndInv, [Next]_vars PROVE IndInv'
  OBVIOUS
<1>1. ASSUME NEW c \in Contents, createPost(c) \/ createComment(c) PROVE IndInv'
  <2>1. c \notin deleted /\ c \notin Profiles /\ Create(c)
    BY <1>1, ContentConstants DEF createPost, createComment, Create, IndInv, SubmittedInv
  <2> QED
    BY <2>1, SubmitStep
<1>2. ASSUME NEW c \in Contents, updatePost(c) \/ updateComment(c) \/ updateProfile(c) PROVE IndInv'
  <2>1. c \notin deleted /\ Edit(c)
    BY <1>2, ContentConstants DEF updatePost, updateComment, updateProfile, IndInv, TypeOK
  <2> QED
    BY <2>1, SubmitStep
<1>3. ASSUME NEW c \in Contents, deletePost(c) \/ deleteComment(c) PROVE IndInv'
  BY <1>3, DeleteStep DEF deletePost, deleteComment
<1>4. CASE AuthorChanges
  <2>1. TypeOK'
    BY <1>4 DEF AuthorChanges, IndInv, TypeOK, texts, cases
  <2> QED
    BY <1>4, <2>1, QuietStep DEF AuthorChanges, texts, cases
<1>5. ASSUME NEW w \in Consumers, Apply(w) PROVE IndInv'
  BY <1>5, ApplyStep
<1>6. ASSUME NEW w \in Consumers, Fail(w) PROVE IndInv'
  <2>1. TypeOK'
    BY <1>6 DEF Fail, IndInv, TypeOK, texts, cases
  <2> QED
    BY <1>6, <2>1, QuietStep DEF Fail, texts, cases
<1>7. ASSUME NEW w \in Consumers, NEW m \in msgs, processPostModeration(w, m) PROVE IndInv'
  <2> DEFINE g == Current(<<m.c, m.r>>) /\ <<m.c, m.r>> \notin scanned
  <2>1. Snapshot(w, m, g) /\ g \in BOOLEAN
    BY <1>7 DEF processPostModeration
  <2>2. ~g => ~(Current(<<m.c, m.r>>) /\ case[<<m.c, m.r>>] = "none")
    BY DEF IndInv, TypeOK, Keys
  <2> HIDE DEF g
  <2> QED
    BY <2>1, <2>2, SnapshotStep
<1>8. ASSUME NEW w \in Consumers, NEW m \in msgs, processCommentModeration(w, m) PROVE IndInv'
  <2> DEFINE g == Current(<<m.c, m.r>>)
  <2>1. Snapshot(w, m, g) /\ g \in BOOLEAN
    BY <1>8 DEF processCommentModeration, Current
  <2>2. ~g => ~(Current(<<m.c, m.r>>) /\ case[<<m.c, m.r>>] = "none")
    OBVIOUS
  <2> HIDE DEF g
  <2> QED
    BY <2>1, <2>2, SnapshotStep
<1>9. ASSUME NEW w \in Consumers, NEW m \in msgs, processProfileModeration(w, m) PROVE IndInv'
  <2> DEFINE g == Current(<<m.c, m.r>>) /\ <<m.c, m.r>> \notin scanned
  <2>1. Snapshot(w, m, g) /\ g \in BOOLEAN
    BY <1>9 DEF processProfileModeration
  <2>2. ~g => ~(Current(<<m.c, m.r>>) /\ case[<<m.c, m.r>>] = "none")
    BY DEF IndInv, TypeOK, Keys
  <2> HIDE DEF g
  <2> QED
    BY <2>1, <2>2, SnapshotStep
<1>10. ASSUME NEW m \in msgs, HandleDeletion(m) PROVE IndInv'
  BY <1>10, HandleDeletionStep
<1>11. ASSUME NEW a \in Moderators, NEW k \in Keys, View(a, k) PROVE IndInv'
  <2>1. TypeOK'
    BY <1>11 DEF View, IndInv, TypeOK, texts, cases
  <2> QED
    BY <1>11, <2>1, QuietStep DEF View, texts, cases
<1>12. ASSUME NEW a \in Moderators, NEW verdict \in {"allow", "block", "queue"},
              decideModeration(a, verdict)
       PROVE  IndInv'
  BY <1>12, DecideStep
<1>13. ASSUME NEW a \in Moderators, reopenModerationCase(a) PROVE IndInv'
  BY <1>13, ReopenStep
<1>14. CASE UNCHANGED vars
  <2>1. TypeOK'
    BY <1>14 DEF vars, IndInv, TypeOK, texts, cases
  <2> QED
    BY <1>14, <2>1, QuietStep DEF vars, texts, cases
<1> QED
  BY <1>1, <1>2, <1>3, <1>4, <1>5, <1>6, <1>7, <1>8, <1>9, <1>10, <1>11, <1>12, <1>13, <1>14 DEF Next

-----------------------------------------------------------------------------
\* The inductive invariant holds in every reachable state.
THEOREM Invariance == Spec => []IndInv
  BY InitInv, NextInv, PTL DEF Spec

\* Types, one case per scanned revision and at most one open case of a content: the unique index
\* moderation_cases_one_open_content_idx is never hit.
THEOREM TypeCorrect == Spec => []TypeOK
  BY Invariance, PTL DEF IndInv

\* A text is public only as staff allowed it, in the current review cycle of its own revision.
THEOREM PublicApproval == Spec => []PublicWasApproved
  BY Invariance, PTL DEF IndInv

\* No text under review is forgotten: its event is pending, or its own case is the open one.
THEOREM ReviewsAreKept == Spec => []ReviewIsTracked
  BY Invariance, PTL DEF IndInv

\* A handled deletion leaves no open case.
THEOREM DeletionsClose == Spec => []DeletionClosesCases
  BY Invariance, PTL DEF IndInv

-----------------------------------------------------------------------------
(* Appeals.                                                                *)

\* A vote or a recusal under way is of an assigned reviewer in an open appeal; a suspension
\* under way is of a reviewer who still has the seat.
CastInv ==
  \A p \in People :
    /\ casting[p] \in {"vote", "recuse"} => asg[p].state = "assigned" /\ appeal = "open"
    /\ casting[p] = "suspend" => asg[p].state \in {"assigned", "voted"}

\* Before the appeal there is no panel.
FreshInv == appeal = "none" => outcome.panel = "none" /\ \A p \in People : asg[p] = Absent

\* An untrained reviewer on a panel was demoted, or the suspension is still to be handled.
TrainedInv ==
  \A p \in People : appeal = "open" /\ p \in Seated /\ p \notin trained => p \in demoted \/ Suspended(p) \in queue

\* No event is under way that changes which votes count.
Calm ==
  /\ demoted = {}
  /\ \A p \in People : VoteLocked(p) \notin queue
  /\ \A p \in People : Suspended(p) \in queue => asg[p].state # "voted"

OutcomeInv == appeal = "open" /\ Calm => outcome.panel = PanelDecision

AppealInv == AppealsTypeOK /\ CastInv /\ FreshInv /\ TrainedInv /\ OutcomeInv

-----------------------------------------------------------------------------
(* Counting: seats, ranks and weights.                                     *)

\* Any set of people can be counted.
LEMMA PeopleFinite ==
  ASSUME NEW S \in SUBSET People
  PROVE  IsFiniteSet(S) /\ Cardinality(S) \in Nat
  BY AppealConstants, FS_Subset, FS_CardinalityType

\* A reviewer who sits has a seat and a weight.
LEMMA SeatedTypes ==
  ASSUME AppealsTypeOK
  PROVE  /\ Effective \subseteq Seated /\ Seated \subseteq People
         /\ \A p \in Seated : asg[p].seat \in Seats /\ asg[p].weight \in {1, 2}
         /\ \A p, q \in Seated : asg[p].seat = asg[q].seat => p = q
<1>1. Seated \subseteq People /\ Effective \subseteq Seated
  BY DEF Seated, Effective, AppealsTypeOK
<1>2. ASSUME NEW p \in Seated PROVE asg[p].seat \in Seats /\ asg[p].weight \in {1, 2}
  <2>1. p \in People /\ asg[p] # Absent
    BY <1>2 DEF Seated, Absent
  <2>2. asg[p] \in [state: {"assigned", "voted", "recused", "expired"}, seat: Seats, weight: {1, 2}]
    BY <2>1 DEF AppealsTypeOK
  <2> QED
    BY <2>2
<1> QED
  BY <1>1, <1>2 DEF AppealsTypeOK

\* A panel that reaches the quorum has every seat filled and every vote in: the quorum is the
\* number of seats, and no two reviewers share one.
LEMMA FullPanel ==
  ASSUME AppealsTypeOK, QuorumReached
  PROVE  Seated = Effective /\ {asg[p].seat : p \in Effective} = Seats
<1> DEFINE I == {asg[p].seat : p \in Effective}
           f == [p \in Effective |-> asg[p].seat]
<1>1. I \subseteq Seats /\ \A p, q \in Effective : asg[p].seat = asg[q].seat => p = q
  BY SeatedTypes
<1>2. IsFiniteSet(Effective)
  BY SeatedTypes, PeopleFinite
<1>3. f \in Bijection(Effective, I)
  BY <1>1 DEF Bijection, Injection, Surjection, IsInjective
<1>4. Cardinality(I) = Cardinality(Effective)
  BY <1>2, <1>3, FS_Bijection DEF ExistsBijection
<1>5. IsFiniteSet(Seats) /\ Cardinality(Seats) = ReviewerCount
  BY FS_Interval, AppealConstants DEF Seats
<1>6. Cardinality(I) <= Cardinality(Seats) /\ (Cardinality(Seats) = Cardinality(I) => Seats = I)
  BY <1>1, <1>5, FS_Subset
<1>7. Cardinality(Effective) \in Nat
  BY SeatedTypes, PeopleFinite
<1>8. I = Seats
  BY <1>4, <1>5, <1>6, <1>7, AppealConstants DEF QuorumReached
<1>9. ASSUME NEW p \in Seated PROVE p \in Effective
  <2>1. asg[p].seat \in I
    BY <1>8, SeatedTypes
  <2>2. PICK q \in Effective : asg[q].seat = asg[p].seat
    BY <2>1
  <2> QED
    BY <2>2, SeatedTypes
<1> QED
  BY <1>8, <1>9, SeatedTypes

\* A reviewer who has yet to vote keeps the panel from its quorum.
LEMMA NoQuorumYet ==
  ASSUME AppealsTypeOK, NEW p \in People, asg[p].state = "assigned"
  PROVE  ~QuorumReached
  BY FullPanel DEF Seated, Effective

\* assignmentRank numbers the people of a set from 1, and no two alike.
LEMMA Ranks ==
  ASSUME NEW S \in SUBSET People, NEW p \in S, NEW q \in S, p < q
  PROVE  Rank(S, p) \in Nat \ {0} /\ Rank(S, q) \in Nat \ {0} /\ Rank(S, p) < Rank(S, q)
<1> DEFINE P == {r \in S : r <= p}
           Q == {r \in S : r <= q}
<1>0. S \subseteq Nat /\ p \in Nat /\ q \in Nat
  BY AppealConstants
<1>1. P \in SUBSET People /\ Q \in SUBSET People /\ P \subseteq Q /\ q \in Q /\ q \notin P /\ p \in P
  <2>1. P \subseteq People /\ Q \subseteq People
    OBVIOUS
  <2>2. \A r \in S : r <= p => r <= q
    BY <1>0
  <2>3. P \subseteq Q
    BY <2>2
  <2>4. q <= q /\ ~(q <= p) /\ p <= p
    BY <1>0
  <2> QED
    BY <2>1, <2>3, <2>4
<1>2. IsFiniteSet(P) /\ IsFiniteSet(Q) /\ Cardinality(P) \in Nat /\ Cardinality(Q) \in Nat
  BY <1>1, PeopleFinite
<1>3. Cardinality(P) <= Cardinality(Q) /\ (Cardinality(Q) = Cardinality(P) => Q = P)
  BY <1>1, <1>2, FS_Subset
<1>4. Cardinality(P) # 0
  BY <1>1, <1>2, FS_EmptySet
<1> QED
  BY <1>1, <1>2, <1>3, <1>4 DEF Rank

\* The drawn people fit the seats.
LEMMA DrawnFit ==
  ASSUME AppealsTypeOK, NEW p \in Drawn
  PROVE  Rank(Drawn, p) \in Seats
<1> DEFINE P == {r \in Drawn : r <= p}
           C == {r \in Candidates : r <= p}
<1>1. P \subseteq C /\ C \in SUBSET People /\ P \in SUBSET People /\ p \in P
  <2>1. Drawn \subseteq Candidates /\ Candidates \subseteq People
    BY DEF Drawn, Candidates, AppealsTypeOK
  <2>2. p \in Nat
    BY <2>1, AppealConstants
  <2>3. p <= p
    BY <2>2
  <2> QED
    BY <2>1, <2>3
<1>2. IsFiniteSet(P) /\ IsFiniteSet(C) /\ Cardinality(P) \in Nat /\ Cardinality(C) \in Nat
  BY <1>1, PeopleFinite
<1>3. Cardinality(P) <= Cardinality(C)
  BY <1>1, <1>2, FS_Subset
<1>4. Cardinality(P) # 0
  BY <1>1, <1>2, FS_EmptySet
<1>5. Cardinality(C) <= ReviewerCount
  BY DEF Drawn, Rank
<1> QED
  BY <1>2, <1>3, <1>4, <1>5, AppealConstants DEF Rank, Seats

\* The panel decides the same as long as the same people's votes count, with the same weights.
LEMMA DecisionKeeps ==
  ASSUME Effective' = Effective,
         \A p \in Effective : asg'[p].weight = asg[p].weight /\ vote'[p] = vote[p]
  PROVE  PanelDecision' = PanelDecision
<1>1. QuorumReached' = QuorumReached
  BY DEF QuorumReached
<1>2. ASSUME NEW S \in SUBSET Effective PROVE Weight(S)' = Weight(S)
  <2>1. {p \in S : asg'[p].weight = 2} = {p \in S : asg[p].weight = 2}
    BY <1>2
  <2> QED
    BY <2>1 DEF Weight
<1>3. ASSUME NEW d PROVE Favour(d)' = Favour(d)
  BY DEF Favour
<1>4. ASSUME NEW d PROVE Weight(Favour(d))' = Weight(Favour(d))
  <2>1. PICK S : S = Favour(d)
    OBVIOUS
  <2>2. S \in SUBSET Effective
    BY <2>1 DEF Favour
  <2>3. Weight(S)' = Weight(S)
    BY <1>2, <2>2
  <2>4. Favour(d)' = S
    BY <1>3, <2>1
  <2> QED
    BY <2>1, <2>3, <2>4 DEF Weight
<1>5. Weight(Effective)' = Weight(Effective)
  <2>1. PICK S : S = Effective
    OBVIOUS
  <2>2. Weight(S)' = Weight(S)
    BY <1>2, <2>1
  <2> QED
    BY <2>1, <2>2 DEF Weight
<1>6. {d \in Decisions : 5 * Weight(Favour(d)) >= 3 * Weight(Effective)}'
      = {d \in Decisions : 5 * Weight(Favour(d)) >= 3 * Weight(Effective)}
  BY <1>4, <1>5
<1> QED
  BY <1>1, <1>6 DEF PanelDecision

-----------------------------------------------------------------------------
(* What the steps have in common.                                          *)

\* The messages are told apart by their type and their person.
LEMMA Messages ==
  /\ \A p, q : VoteLocked(p) # Suspended(q) /\ VoteLocked(p) # Recused(q) /\ Suspended(p) # Recused(q)
  /\ \A p : VoteLocked(p) # Created /\ Suspended(p) # Created
  /\ \A p, q : Suspended(p) = Suspended(q) => p = q
<1>1. \A p : VoteLocked(p).type = "vote" /\ Suspended(p).type = "suspended" /\ Recused(p).type = "recused"
             /\ Suspended(p).p = p
  BY DEF VoteLocked, Suspended, Recused
<1>2. Created.type = "created"
  BY DEF Created
<1> QED
  BY <1>1, <1>2

\* A message that is acknowledged may stay, and nothing else changes in the queue.
LEMMA Acknowledging ==
  ASSUME AppealsTypeOK, NEW m, AckEvent(m)
  PROVE  queue' \subseteq queue /\ queue \ {m} \subseteq queue' /\ events' \in 0..MaxEvents
  BY AppealConstants DEF AckEvent, AppealsTypeOK

\* A step of the workflow is recorded, or repeated.
LEMMA SteppingOn ==
  ASSUME AppealsTypeOK, NEW pc \in {"expire", "done"}, StepDone(pc)
  PROVE  /\ wf' \in [pc: {"none", "assign", "expire", "done", "failed"}, attempt: 1..MaxAttempts]
         /\ events' \in 0..MaxEvents
  BY AppealConstants DEF StepDone, AppealsTypeOK

\* The first evaluation of an outcome leaves the panel's decision alone.
LEMMA InitialOutcome ==
  ASSUME AppealsTypeOK, InitOutcome
  PROVE  /\ outcome'.panel = outcome.panel
         /\ outcome' \in [panel: Decisions \cup {"none"},
              state: {"none", "pending_quorum", "no_consensus", "pending_adjudication",
                      "adjudication_disagreement", "resolved"}]
  BY DEF InitOutcome, AppealsTypeOK

\* evaluateAppeal gives an outcome with the panel's decision.
LEMMA Evaluating ==
  ASSUME NEW given
  PROVE  /\ Evaluate(given).panel = PanelDecision
         /\ Evaluate(given) \in [panel: Decisions \cup {"none"},
              state: {"none", "pending_quorum", "no_consensus", "pending_adjudication",
                      "adjudication_disagreement", "resolved"}]
<1>1. PanelDecision \in Decisions \cup {"none"}
  BY DEF PanelDecision, Decisions
<1> QED
  BY <1>1 DEF Evaluate

\* The part of AppealsTypeOK about the seats.
OneEach == \A p, q \in Seated : p # q => asg[p].seat # asg[q].seat /\ asg[p].weight + asg[q].weight < 4

\* One reviewer's assignment changes its state and keeps its seat: nobody sits who did not sit.
LEMMA StateChange ==
  ASSUME AppealsTypeOK, NEW p \in People, NEW s \in {"voted", "recused"},
         p \in Seated, asg' = [asg EXCEPT ![p].state = s]
  PROVE  /\ asg' \in [People -> {Absent} \cup
               [state: {"assigned", "voted", "recused", "expired"}, seat: Seats, weight: {1, 2}]]
         /\ asg'[p].state = s /\ asg'[p].seat = asg[p].seat /\ asg'[p].weight = asg[p].weight
         /\ \A q \in People : q # p => asg'[q] = asg[q]
         /\ OneEach'
<1>1. asg \in [People -> {Absent} \cup
        [state: {"assigned", "voted", "recused", "expired"}, seat: Seats, weight: {1, 2}]]
  BY DEF AppealsTypeOK
<1>2. asg[p] \in [state: {"assigned", "voted", "recused", "expired"}, seat: Seats, weight: {1, 2}]
  BY <1>1 DEF Seated, Absent
<1>3. /\ asg'[p] = [asg[p] EXCEPT !.state = s]
      /\ \A q \in People : q # p => asg'[q] = asg[q]
      /\ DOMAIN asg' = People
  BY <1>1
<1>4. asg'[p].state = s /\ asg'[p].seat = asg[p].seat /\ asg'[p].weight = asg[p].weight
  BY <1>2, <1>3
<1>5. asg'[p] \in [state: {"assigned", "voted", "recused", "expired"}, seat: Seats, weight: {1, 2}]
  BY <1>2, <1>3
<1>6. asg' \in [People -> {Absent} \cup
        [state: {"assigned", "voted", "recused", "expired"}, seat: Seats, weight: {1, 2}]]
  BY <1>1, <1>3, <1>5
<1>7. Seated' \subseteq Seated
  BY <1>3 DEF Seated
<1>8. \A q \in People : asg'[q].seat = asg[q].seat /\ asg'[q].weight = asg[q].weight
  BY <1>3, <1>4
<1>9. OneEach
  BY DEF OneEach, AppealsTypeOK
<1>10. OneEach'
  BY <1>7, <1>8, <1>9 DEF OneEach, Seated
<1> QED
  BY <1>3, <1>4, <1>6, <1>10

\* A step that leaves the panel, its votes, the qualifications and the decision alone, and takes
\* from the queue no vote and no suspension of a reviewer of the open appeal.
Quiet ==
  /\ appeal' = appeal /\ asg' = asg /\ vote' = vote /\ trained' = trained /\ demoted' = demoted
  /\ outcome'.panel = outcome.panel
  /\ \A p \in People : VoteLocked(p) \in queue => VoteLocked(p) \in queue'
  /\ \A p \in People : Suspended(p) \in queue => Suspended(p) \in queue' \/ ~(appeal = "open" /\ p \in Seated)

\* Such a step keeps the outcome in line with the votes.
LEMMA QuietSteps ==
  ASSUME AppealInv, Quiet
  PROVE  FreshInv' /\ TrainedInv' /\ OutcomeInv'
<1> USE DEF AppealInv
<1>1. Seated' = Seated /\ Effective' = Effective
  BY DEF Quiet, Seated, Effective
<1>2. FreshInv'
  BY DEF Quiet, FreshInv
<1>3. TrainedInv'
  BY <1>1 DEF Quiet, TrainedInv, Suspended
<1>4. PanelDecision' = PanelDecision
  BY <1>1, DecisionKeeps DEF Quiet
<1>5. appeal = "open" /\ Calm' => Calm
  BY DEF Quiet, Calm, Seated, Suspended, VoteLocked
<1>6. OutcomeInv'
  BY <1>4, <1>5 DEF Quiet, OutcomeInv
<1> QED
  BY <1>2, <1>3, <1>6

\* Transactions that are under way keep what they rest on.
LEMMA CastsKeep ==
  ASSUME AppealInv, AppealsTypeOK',
         \A p \in People :
           \/ casting'[p] = "no"
           \/ casting'[p] = casting[p] /\ asg'[p].state = asg[p].state
              /\ (casting[p] \in {"vote", "recuse"} => appeal' = appeal)
           \/ casting'[p] \in {"vote", "recuse"} /\ asg'[p].state = "assigned" /\ appeal' = "open"
           \/ casting'[p] = "suspend" /\ asg'[p].state \in {"assigned", "voted"}
  PROVE  CastInv'
  BY DEF AppealInv, CastInv

-----------------------------------------------------------------------------
(* Steps that leave the panel and its votes alone.                         *)

\* Time, the workflow without a draw, transactions that begin or roll back, dropped messages.
LEMMA QuietActions ==
  ASSUME AppealInv,
         \/ TimePasses \/ StartWorkflow \/ AssignSkipped \/ AssignWaits \/ AssignThrows
         \/ \E p \in People : \/ VoteBegin(p) \/ RecuseBegin(p) \/ Rollback(p)
                               \/ SuspendedBegin(p) \/ ReplacementDropped(p)
  PROVE  AppealInv'
<1> USE DEF AppealInv
<1>0. AppealsTypeOK
  OBVIOUS
<1>1. CASE TimePasses
  <2>1. AppealsTypeOK'
    BY <1>1, AppealConstants DEF TimePasses, AppealsTypeOK, Seated, panel, staff
  <2>2. CastInv'
    BY <1>1, <2>1, CastsKeep DEF TimePasses, Seated, panel
  <2>3. Quiet
    BY <1>1, Messages DEF TimePasses, Quiet, panel, staff
  <2> QED
    BY <2>1, <2>2, <2>3, QuietSteps
<1>2. CASE StartWorkflow
  <2>0. queue' \subseteq queue /\ queue \ {Created} \subseteq queue' /\ events' \in 0..MaxEvents
    BY <1>2, <1>0, Acknowledging DEF StartWorkflow
  <2>1. AppealsTypeOK'
    BY <1>2, <2>0, AppealConstants DEF StartWorkflow, AppealsTypeOK, Seated, panel, staff
  <2>2. CastInv'
    BY <1>2, <2>1, CastsKeep DEF StartWorkflow, Seated, panel
  <2>3. Quiet
    BY <1>2, <2>0, Messages DEF StartWorkflow, Quiet, panel, staff
  <2> QED
    BY <2>1, <2>2, <2>3, QuietSteps
<1>3. CASE AssignSkipped
  <2>0. /\ wf' \in [pc: {"none", "assign", "expire", "done", "failed"}, attempt: 1..MaxAttempts]
        /\ events' \in 0..MaxEvents /\ outcome'.panel = outcome.panel
        /\ outcome' \in [panel: Decisions \cup {"none"},
             state: {"none", "pending_quorum", "no_consensus", "pending_adjudication",
                     "adjudication_disagreement", "resolved"}]
    <3>1. CASE StepDone("done") /\ UNCHANGED outcome
      BY <1>0, <3>1, SteppingOn DEF AppealsTypeOK
    <3>2. CASE StepDone("expire") /\ InitOutcome
      BY <1>0, <3>2, SteppingOn, InitialOutcome
    <3> QED
      BY <1>3, <3>1, <3>2 DEF AssignSkipped
  <2>1. AppealsTypeOK'
    BY <1>3, <2>0, AppealConstants DEF AssignSkipped, AppealsTypeOK, Seated, panel, staff
  <2>2. CastInv'
    BY <1>3, <2>1, CastsKeep DEF AssignSkipped, Seated, panel
  <2>3. Quiet
    BY <1>3, <2>0, Messages DEF AssignSkipped, Quiet, panel, staff
  <2> QED
    BY <2>1, <2>2, <2>3, QuietSteps
<1>4. CASE AssignWaits
  <2>0. /\ outcome'.panel = outcome.panel
        /\ outcome' \in [panel: Decisions \cup {"none"},
             state: {"none", "pending_quorum", "no_consensus", "pending_adjudication",
                     "adjudication_disagreement", "resolved"}]
    BY <1>4, <1>0, InitialOutcome DEF AssignWaits
  <2>1. AppealsTypeOK'
    BY <1>4, <2>0, AppealConstants DEF AssignWaits, AppealsTypeOK, Seated, panel, staff
  <2>2. CastInv'
    BY <1>4, <2>1, CastsKeep DEF AssignWaits, Seated, panel
  <2>3. Quiet
    BY <1>4, <2>0, Messages DEF AssignWaits, Quiet, panel, staff
  <2> QED
    BY <2>1, <2>2, <2>3, QuietSteps
<1>5. CASE AssignThrows
  <2>1. AppealsTypeOK'
    BY <1>5, AppealConstants DEF AssignThrows, AppealsTypeOK, Seated, panel, staff
  <2>2. CastInv'
    BY <1>5, <2>1, CastsKeep DEF AssignThrows, Seated, panel
  <2>3. Quiet
    BY <1>5, Messages DEF AssignThrows, Quiet, panel, staff
  <2> QED
    BY <2>1, <2>2, <2>3, QuietSteps
<1>6. ASSUME NEW p \in People, VoteBegin(p) PROVE AppealInv'
  <2>1. AppealsTypeOK'
    BY <1>6, AppealConstants DEF VoteBegin, AppealsTypeOK, Seated, panel, staff
  <2>2. CastInv'
    BY <1>6, <2>1, CastsKeep DEF VoteBegin, Seated, panel, CastInv, AppealsTypeOK
  <2>3. Quiet
    BY <1>6, Messages DEF VoteBegin, Quiet, panel, staff
  <2> QED
    BY <2>1, <2>2, <2>3, QuietSteps
<1>7. ASSUME NEW p \in People, RecuseBegin(p) PROVE AppealInv'
  <2>1. AppealsTypeOK'
    BY <1>7, AppealConstants DEF RecuseBegin, AppealsTypeOK, Seated, panel, staff
  <2>2. CastInv'
    BY <1>7, <2>1, CastsKeep DEF RecuseBegin, Seated, panel, CastInv, AppealsTypeOK
  <2>3. Quiet
    BY <1>7, Messages DEF RecuseBegin, Quiet, panel, staff
  <2> QED
    BY <2>1, <2>2, <2>3, QuietSteps
<1>8. ASSUME NEW p \in People, Rollback(p) PROVE AppealInv'
  <2>1. AppealsTypeOK'
    BY <1>8, AppealConstants DEF Rollback, AppealsTypeOK, Seated, panel, staff
  <2>2. CastInv'
    BY <1>8, <2>1, CastsKeep DEF Rollback, Seated, panel, CastInv, AppealsTypeOK
  <2>3. Quiet
    BY <1>8, Messages DEF Rollback, Quiet, panel, staff
  <2> QED
    BY <2>1, <2>2, <2>3, QuietSteps
<1>9. ASSUME NEW p \in People, SuspendedBegin(p) PROVE AppealInv'
  <2>0. /\ queue' \subseteq queue /\ queue \ {Suspended(p)} \subseteq queue' /\ events' \in 0..MaxEvents
        /\ Suspended(p) \notin queue' => ~(appeal = "open" /\ p \in Seated)
    <3>1. CASE AckEvent(Suspended(p)) /\ ~(appeal = "open" /\ p \in Seated)
      BY <1>0, <3>1, Acknowledging
    <3>2. CASE UNCHANGED <<queue, events>>
      BY <1>9, <1>0, <3>2 DEF AppealsTypeOK, SuspendedBegin
    <3> QED
      BY <1>9, <3>1, <3>2 DEF SuspendedBegin
  <2>1. AppealsTypeOK'
    BY <1>9, <2>0, AppealConstants DEF SuspendedBegin, AppealsTypeOK, Seated, panel, staff
  <2>2. CastInv'
    BY <1>9, <2>1, CastsKeep DEF SuspendedBegin, Seated, panel, CastInv, AppealsTypeOK
  <2>3. Quiet
    BY <1>9, <2>0, Messages DEF SuspendedBegin, Quiet, panel, staff
  <2> QED
    BY <2>1, <2>2, <2>3, QuietSteps
<1>10. ASSUME NEW p \in People, ReplacementDropped(p) PROVE AppealInv'
  <2>1. AppealsTypeOK'
    BY <1>10, AppealConstants DEF ReplacementDropped, AppealsTypeOK, Seated, panel, staff
  <2>2. CastInv'
    BY <1>10, <2>1, CastsKeep DEF ReplacementDropped, Seated, panel
  <2>3. Quiet
    BY <1>10, Messages DEF ReplacementDropped, Quiet, panel, staff
  <2> QED
    BY <2>1, <2>2, <2>3, QuietSteps
<1> QED
  BY <1>1, <1>2, <1>3, <1>4, <1>5, <1>6, <1>7, <1>8, <1>9, <1>10

-----------------------------------------------------------------------------
(* Steps that change the panel, its votes or who is trained.               *)

\* People without an assignment are seated: the votes that count stay the same.
LEMMA Seating ==
  ASSUME AppealInv, appeal = "open", appeal' = appeal, vote' = vote, trained' = trained, demoted' = demoted,
         casting' = casting, outcome'.panel = outcome.panel, AppealsTypeOK',
         NEW S \in SUBSET Candidates,
         \A p \in S : asg'[p].state = "assigned",
         \A p \in People \ S : asg'[p] = asg[p],
         \A p \in People : VoteLocked(p) \in queue => VoteLocked(p) \in queue',
         \A p \in People : Suspended(p) \in queue => Suspended(p) \in queue'
  PROVE  AppealInv'
<1> USE DEF AppealInv
<1>1. \A p \in S : p \in trained /\ p \in People /\ asg[p].state = "none"
  BY DEF Candidates, Absent, AppealsTypeOK
<1>2. \A p \in trained : p \in People
  BY DEF AppealsTypeOK
<1>3. Effective' = Effective
  BY <1>1, <1>2 DEF Effective
<1>4. \A p \in Effective : asg'[p] = asg[p]
  BY <1>1, <1>2 DEF Effective
<1>5. PanelDecision' = PanelDecision
  BY <1>3, <1>4, DecisionKeeps
<1>6. CastInv'
  <2>1. \A p \in People : casting[p] # "no" => asg'[p] = asg[p]
    BY <1>1 DEF CastInv, AppealsTypeOK
  <2> QED
    BY <2>1, CastsKeep
<1>7. FreshInv'
  BY DEF FreshInv
<1>8. TrainedInv'
  <2> SUFFICES ASSUME NEW p \in People, p \in Seated', p \notin trained
               PROVE  p \in demoted' \/ Suspended(p) \in queue'
    BY DEF TrainedInv, Suspended
  <2>1. p \in Seated
    BY <1>1 DEF Seated
  <2> QED
    BY <2>1 DEF TrainedInv
<1>9. Calm' => Calm
  <2>1. \A p \in People : asg[p].state = "voted" => asg'[p].state = "voted"
    BY <1>1
  <2> QED
    BY <2>1 DEF Calm, Suspended, VoteLocked
<1> QED
  BY <1>5, <1>6, <1>7, <1>8, <1>9 DEF OutcomeInv

\* selectAppealReviewers seats people on different seats, with one double weight at most.
LEMMA DrawnOneEach ==
  ASSUME AppealsTypeOK, NEW p \in Drawn, NEW q \in Drawn, p < q
  PROVE  /\ Rank(Drawn, p) # Rank(Drawn, q)
         /\ WeightFor(p, \E r \in Drawn \cap Level5 : r < p) + WeightFor(q, \E r \in Drawn \cap Level5 : r < q) < 4
<1>1. Drawn \in SUBSET People
  BY DEF Drawn, Candidates, AppealsTypeOK
<1>2. Rank(Drawn, p) # Rank(Drawn, q)
  BY <1>1, Ranks
<1>3. CASE p \in Level5
  <2>1. \E r \in Drawn \cap Level5 : r < q
    BY <1>3
  <2>2. WeightFor(q, \E r \in Drawn \cap Level5 : r < q) = 1
    BY <2>1 DEF WeightFor
  <2> QED
    BY <1>2, <2>2 DEF WeightFor
<1>4. CASE p \notin Level5
  BY <1>2, <1>4 DEF WeightFor
<1> QED
  BY <1>3, <1>4

\* AssignReviewers seats the drawn people on an empty panel.
LEMMA AssigningKeeps ==
  ASSUME AppealInv, AssignReviewers
  PROVE  AppealInv'
<1> USE DEF AppealInv
<1> DEFINE New(p) == Assigned(Rank(Drawn, p), WeightFor(p, \E q \in Drawn \cap Level5 : q < p))
<1>0. AppealsTypeOK /\ appeal = "open" /\ Seated = {}
  BY DEF AssignReviewers
<1>1. Drawn \in SUBSET Candidates /\ Drawn \subseteq People
  BY DEF Drawn, Candidates, AppealsTypeOK
<1>2. asg' = [p \in People |-> IF p \in Drawn THEN New(p) ELSE asg[p]]
  BY DEF AssignReviewers
<1>3. \A p \in Drawn : New(p) \in [state: {"assigned", "voted", "recused", "expired"}, seat: Seats, weight: {1, 2}]
  BY <1>0, DrawnFit DEF Assigned, WeightFor
<1>4. \A p \in Drawn : New(p).state = "assigned"
                       /\ New(p).seat = Rank(Drawn, p)
                       /\ New(p).weight = WeightFor(p, \E q \in Drawn \cap Level5 : q < p)
  BY DEF Assigned
<1> HIDE DEF New
<1>5. /\ \A p \in Drawn : asg'[p] = New(p)
      /\ \A p \in People \ Drawn : asg'[p] = asg[p]
  BY <1>1, <1>2
<1>6. asg' \in [People -> {Absent} \cup
        [state: {"assigned", "voted", "recused", "expired"}, seat: Seats, weight: {1, 2}]]
  BY <1>0, <1>2, <1>3 DEF AppealsTypeOK
<1>7. Seated' = Drawn
  <2>1. \A p \in People : asg[p].state \notin {"assigned", "voted"}
    BY <1>0 DEF Seated
  <2> QED
    BY <1>1, <1>4, <1>5, <2>1 DEF Seated
<1>8. OneEach'
  <2> SUFFICES ASSUME NEW p \in Drawn, NEW q \in Drawn, p # q
               PROVE  asg'[p].seat # asg'[q].seat /\ asg'[p].weight + asg'[q].weight < 4
    BY <1>7 DEF OneEach
  <2>1. p \in Nat /\ q \in Nat
    BY <1>1, AppealConstants
  <2>2. /\ asg'[p].seat = Rank(Drawn, p) /\ asg'[q].seat = Rank(Drawn, q)
        /\ asg'[p].weight = WeightFor(p, \E r \in Drawn \cap Level5 : r < p)
        /\ asg'[q].weight = WeightFor(q, \E r \in Drawn \cap Level5 : r < q)
    BY <1>4, <1>5
  <2>3. CASE p < q
    <3>1. /\ Rank(Drawn, p) # Rank(Drawn, q)
          /\ WeightFor(p, \E r \in Drawn \cap Level5 : r < p) + WeightFor(q, \E r \in Drawn \cap Level5 : r < q) < 4
      BY <1>0, <2>3, DrawnOneEach
    <3> QED
      BY <2>2, <3>1, Zenon
  <2>4. CASE q < p
    <3>1. /\ Rank(Drawn, q) # Rank(Drawn, p)
          /\ WeightFor(q, \E r \in Drawn \cap Level5 : r < q) + WeightFor(p, \E r \in Drawn \cap Level5 : r < p) < 4
      BY <1>0, <2>4, DrawnOneEach
    <3>2. asg'[q].seat # asg'[p].seat /\ asg'[q].weight + asg'[p].weight < 4
      BY <2>2, <3>1, Zenon
    <3>3. asg'[p].weight \in {1, 2} /\ asg'[q].weight \in {1, 2}
      BY <1>3, <1>5
    <3> QED
      BY <3>2, <3>3
  <2> QED
    BY <2>1, <2>3, <2>4
<1>9. /\ wf' \in [pc: {"none", "assign", "expire", "done", "failed"}, attempt: 1..MaxAttempts]
      /\ events' \in 0..MaxEvents /\ outcome'.panel = outcome.panel
      /\ outcome' \in [panel: Decisions \cup {"none"},
           state: {"none", "pending_quorum", "no_consensus", "pending_adjudication",
                   "adjudication_disagreement", "resolved"}]
  BY <1>0, SteppingOn, InitialOutcome DEF AssignReviewers
<1>10. AppealsTypeOK'
  BY <1>0, <1>6, <1>8, <1>9 DEF AssignReviewers, AppealsTypeOK, OneEach, staff
<1>11. /\ appeal' = appeal /\ vote' = vote /\ trained' = trained /\ demoted' = demoted
       /\ casting' = casting /\ queue' = queue
  BY DEF AssignReviewers, staff
<1>12. \A p \in Drawn : asg'[p].state = "assigned"
  BY <1>4, <1>5
<1> QED
  BY <1>0, <1>1, <1>5, <1>9, <1>10, <1>11, <1>12, Seating

\* replaceRecusedAppealReviewer fills one seat that nobody holds.
LEMMA ReplacingKeeps ==
  ASSUME AppealInv, NEW p \in People, replaceRecusedAppealReviewer(p)
  PROVE  AppealInv'
<1> USE DEF AppealInv
<1>0. AppealsTypeOK
  OBVIOUS
<1>1. queue' \subseteq queue /\ queue \ {Recused(p)} \subseteq queue' /\ events' \in 0..MaxEvents
  BY <1>0, Acknowledging DEF replaceRecusedAppealReviewer
<1>2. /\ \A q \in People : VoteLocked(q) \in queue => VoteLocked(q) \in queue'
      /\ \A q \in People : Suspended(q) \in queue => Suspended(q) \in queue'
  BY <1>1, Messages
<1>3. /\ appeal' = appeal /\ vote' = vote /\ trained' = trained /\ demoted' = demoted
      /\ casting' = casting /\ outcome' = outcome /\ overdue' = overdue /\ adj' = adj /\ wf' = wf
  BY DEF replaceRecusedAppealReviewer, staff
<1>4. CASE asg' = asg
  <2>1. AppealsTypeOK'
    BY <1>0, <1>1, <1>3, <1>4 DEF AppealsTypeOK, Seated
  <2>2. CastInv'
    BY <1>3, <1>4, <2>1, CastsKeep
  <2>3. Quiet
    BY <1>2, <1>3, <1>4 DEF Quiet
  <2> QED
    BY <2>1, <2>2, <2>3, QuietSteps
<1>5. ASSUME NEW q \in Candidates, asg[p].state = "recused", appeal = "open", ~SeatTaken(asg[p].seat),
             asg' = [asg EXCEPT ![q] =
               Assigned(asg[p].seat, WeightFor(q, \E r \in Seated : asg[r].weight = 2))]
      PROVE  AppealInv'
  <2> DEFINE new == Assigned(asg[p].seat, WeightFor(q, \E r \in Seated : asg[r].weight = 2))
  <2>1. asg \in [People -> {Absent} \cup
          [state: {"assigned", "voted", "recused", "expired"}, seat: Seats, weight: {1, 2}]]
    BY DEF AppealsTypeOK
  <2>2. asg[p].seat \in Seats
    BY <1>5, <2>1 DEF Absent
  <2>3. /\ new \in [state: {"assigned", "voted", "recused", "expired"}, seat: Seats, weight: {1, 2}]
        /\ new.state = "assigned" /\ new.seat = asg[p].seat
        /\ new.weight = 2 => \A r \in Seated : asg[r].weight # 2
    BY <2>2 DEF Assigned, WeightFor
  <2>4. asg' = [asg EXCEPT ![q] = new]
    BY <1>5
  <2> HIDE DEF new
  <2>5. q \in People /\ asg[q] = Absent
    BY DEF Candidates, AppealsTypeOK
  <2>6. /\ asg'[q] = new /\ \A r \in People : r # q => asg'[r] = asg[r]
        /\ asg' \in [People -> {Absent} \cup
             [state: {"assigned", "voted", "recused", "expired"}, seat: Seats, weight: {1, 2}]]
    BY <2>1, <2>3, <2>4, <2>5
  <2>7. Seated' = Seated \cup {q} /\ q \notin Seated
    BY <2>3, <2>5, <2>6 DEF Seated, Absent
  <2>8. \A r \in Seated : /\ asg[r].seat # new.seat /\ asg[r].weight + new.weight < 4
                          /\ new.weight + asg[r].weight < 4
    <3> SUFFICES ASSUME NEW r \in Seated
                 PROVE  /\ asg[r].seat # new.seat /\ asg[r].weight + new.weight < 4
                        /\ new.weight + asg[r].weight < 4
      OBVIOUS
    <3>1. asg[r].seat # new.seat
      BY <1>5, <2>3 DEF SeatTaken
    <3>2. asg[r].weight \in {1, 2} /\ new.weight \in {1, 2}
      BY <1>0, <2>3, SeatedTypes
    <3> QED
      BY <2>3, <3>1, <3>2
  <2>9. OneEach'
    <3> SUFFICES ASSUME NEW r \in Seated', NEW s \in Seated', r # s
                 PROVE  asg'[r].seat # asg'[s].seat /\ asg'[r].weight + asg'[s].weight < 4
      BY DEF OneEach
    <3>1. CASE r \in Seated /\ s \in Seated
      <4>1. r \in People /\ s \in People /\ r # q /\ s # q
        BY <2>7, <3>1 DEF Seated
      <4>2. asg[r].seat # asg[s].seat /\ asg[r].weight + asg[s].weight < 4
        BY <3>1 DEF AppealsTypeOK
      <4> QED
        BY <2>6, <4>1, <4>2
    <3>2. CASE r = q /\ s \in Seated
      BY <2>6, <2>7, <2>8, <3>2 DEF Seated
    <3>3. CASE s = q /\ r \in Seated
      BY <2>6, <2>7, <2>8, <3>3 DEF Seated
    <3> QED
      BY <2>7, <3>1, <3>2, <3>3
  <2>10. AppealsTypeOK'
    BY <1>0, <1>1, <1>3, <2>6, <2>9 DEF AppealsTypeOK, OneEach
  <2>11. {q} \in SUBSET Candidates /\ \A r \in {q} : asg'[r].state = "assigned"
    BY <2>3, <2>6
  <2>12. \A r \in People \ {q} : asg'[r] = asg[r]
    BY <2>6
  <2>13. outcome'.panel = outcome.panel
    BY <1>3
  <2>14. appeal = "open"
    BY <1>5
  <2> HIDE DEF AppealInv
  <2> QED
    BY <1>2, <1>3, <2>10, <2>11, <2>12, <2>13, <2>14, Seating
<1> QED
  BY <1>4, <1>5 DEF replaceRecusedAppealReviewer

\* A reviewer's transaction commits.
LEMMA CommittingKeeps ==
  ASSUME AppealInv, NEW p \in People,
         (\E d \in Decisions : VoteCommit(p, d)) \/ RecuseCommit(p) \/ SuspendedCommit(p)
  PROVE  AppealInv'
<1> USE DEF AppealInv
<1>0. AppealsTypeOK /\ p \in Seated
  BY DEF VoteCommit, RecuseCommit, SuspendedCommit, CastInv, Seated
<1>1. PICK s \in {"voted", "recused"} : asg' = [asg EXCEPT ![p].state = s]
  BY DEF VoteCommit, RecuseCommit, SuspendedCommit
<1>2. /\ asg' \in [People -> {Absent} \cup
           [state: {"assigned", "voted", "recused", "expired"}, seat: Seats, weight: {1, 2}]]
      /\ asg'[p].state = s /\ asg'[p].seat = asg[p].seat /\ asg'[p].weight = asg[p].weight
      /\ \A q \in People : q # p => asg'[q] = asg[q]
      /\ OneEach'
  BY <1>0, <1>1, StateChange
<1>3. /\ casting' = [casting EXCEPT ![p] = "no"] /\ appeal' = appeal /\ overdue' = overdue
      /\ adj' = adj /\ outcome' = outcome /\ staff' = staff /\ wf' = wf /\ events' = events
  BY DEF VoteCommit, RecuseCommit, SuspendedCommit
<1>4. /\ vote' \in [People -> Decisions \cup {"none"}]
      /\ queue' \subseteq {Created} \cup [type: {"recused", "vote", "suspended"}, p: People]
  BY DEF VoteCommit, RecuseCommit, SuspendedCommit, AppealsTypeOK, VoteLocked, Recused
<1>5. AppealsTypeOK'
  BY <1>0, <1>2, <1>3, <1>4 DEF AppealsTypeOK, OneEach, staff
<1>6. CastInv'
  <2>1. casting'[p] = "no" /\ \A q \in People : q # p => casting'[q] = casting[q]
    BY <1>0, <1>3 DEF AppealsTypeOK
  <2> QED
    BY <1>2, <1>3, <1>5, <2>1, CastsKeep
<1>7. appeal # "none"
  <2>1. asg[p] # Absent
    BY <1>0 DEF Seated, Absent
  <2> QED
    BY <2>1 DEF FreshInv
<1>8. FreshInv'
  BY <1>3, <1>7 DEF FreshInv
<1>9. \A q \in People : Suspended(q) \in queue => Suspended(q) \in queue' \/ (q = p /\ s = "recused")
  <2>1. CASE SuspendedCommit(p)
    <3>1. asg'[p].state = "recused"
      BY <1>0, <2>1 DEF SuspendedCommit, AppealsTypeOK
    <3> QED
      BY <1>2, <2>1, <3>1, Messages DEF SuspendedCommit
  <2>2. CASE (\E d \in Decisions : VoteCommit(p, d)) \/ RecuseCommit(p)
    BY <2>2 DEF VoteCommit, RecuseCommit
  <2> QED
    BY <2>1, <2>2
<1>10. TrainedInv'
  <2> SUFFICES ASSUME NEW q \in People, appeal' = "open", q \in Seated', q \notin trained'
               PROVE  q \in demoted' \/ Suspended(q) \in queue'
    BY DEF TrainedInv, Suspended
  <2>1. q \in Seated /\ ~(q = p /\ s = "recused")
    BY <1>0, <1>2 DEF Seated
  <2> QED
    BY <1>3, <1>9, <2>1 DEF TrainedInv, staff
<1>11. OutcomeInv'
  <2>1. CASE (\E d \in Decisions : VoteCommit(p, d)) \/ SuspendedCommit(p)
    <3>1. VoteLocked(p) \in queue'
      BY <2>1 DEF VoteCommit, SuspendedCommit
    <3>2. ~Calm'
      BY <3>1 DEF Calm, VoteLocked
    <3> QED
      BY <3>2 DEF OutcomeInv
  <2>2. CASE RecuseCommit(p)
    <3>1. asg[p].state = "assigned" /\ asg'[p].state = "recused" /\ vote' = vote
      BY <1>0, <2>2 DEF RecuseCommit, CastInv, AppealsTypeOK
    <3>2. trained' = trained /\ trained \subseteq People
      BY <1>0, <1>3 DEF staff, AppealsTypeOK
    <3>3. Effective' = Effective
      BY <1>2, <3>1, <3>2 DEF Effective
    <3>4. \A q \in Effective : asg'[q].weight = asg[q].weight /\ vote'[q] = vote[q]
      BY <1>2, <3>1, <3>2 DEF Effective
    <3>5. PanelDecision' = PanelDecision
      BY <3>3, <3>4, DecisionKeeps
    <3>6. Calm' => Calm
      <4>1. queue \subseteq queue' /\ demoted' = demoted
        BY <2>2 DEF RecuseCommit, staff
      <4>2. \A q \in People : asg[q].state = "voted" => asg'[q].state = "voted"
        BY <1>2, <3>1
      <4> QED
        BY <4>1, <4>2 DEF Calm, VoteLocked, Suspended
    <3> QED
      BY <1>3, <3>5, <3>6 DEF OutcomeInv
  <2> QED
    BY <2>1, <2>2
<1> QED
  BY <1>5, <1>6, <1>8, <1>10, <1>11

\* The qualifications of the reviewers change.
LEMMA QualifyingKeeps ==
  ASSUME AppealInv, NEW p \in People, Train(p) \/ Suspend(p) \/ Demote(p)
  PROVE  AppealInv'
<1> USE DEF AppealInv
<1>0. AppealsTypeOK
  OBVIOUS
<1>1. /\ appeal' = appeal /\ asg' = asg /\ vote' = vote /\ casting' = casting /\ outcome' = outcome
      /\ overdue' = overdue /\ adj' = adj /\ wf' = wf /\ queue \subseteq queue' /\ demoted \subseteq demoted'
  BY DEF Train, Suspend, Demote, panel
<1>2. /\ trained' \subseteq People /\ demoted' \subseteq People /\ events' \in 0..MaxEvents
      /\ queue' \subseteq {Created} \cup [type: {"recused", "vote", "suspended"}, p: People]
  <2>1. Suspended(p) \in [type: {"recused", "vote", "suspended"}, p: People]
    BY DEF Suspended
  <2>2. events' \in 0..MaxEvents
    BY <1>0, AppealConstants DEF Train, Suspend, Demote, AppealsTypeOK
  <2> QED
    BY <1>0, <2>1, <2>2 DEF Train, Suspend, Demote, AppealsTypeOK
<1>3. AppealsTypeOK'
  BY <1>0, <1>1, <1>2 DEF AppealsTypeOK, Seated
<1>4. CastInv'
  BY <1>1, <1>3, CastsKeep
<1>5. FreshInv'
  BY <1>1 DEF FreshInv
<1>6. TrainedInv'
  <2> SUFFICES ASSUME NEW q \in People, appeal' = "open", q \in Seated', q \notin trained'
               PROVE  q \in demoted' \/ Suspended(q) \in queue'
    BY DEF TrainedInv, Suspended
  <2>1. q \in Seated
    BY <1>1 DEF Seated
  <2>2. CASE q \notin trained
    BY <1>1, <2>1, <2>2 DEF TrainedInv
  <2>3. CASE q \in trained
    BY <2>3 DEF Train, Suspend, Demote
  <2> QED
    BY <2>2, <2>3
<1>7. Calm' => Calm
  BY <1>1 DEF Calm, VoteLocked, Suspended
<1>8. ASSUME appeal = "open", Calm' PROVE PanelDecision' = PanelDecision
  <2>1. asg[p].state # "voted"
    <3>1. CASE Train(p)
      <4>1. CASE p \in Seated
        <5>1. Suspended(p) \in queue \/ p \in demoted
          BY <1>8, <3>1, <4>1 DEF Train, TrainedInv
        <5> QED
          BY <1>7, <1>8, <5>1 DEF Calm
      <4>2. CASE p \notin Seated
        BY <4>2 DEF Seated
      <4> QED
        BY <4>1, <4>2
    <3>2. CASE Suspend(p)
      <4>1. Suspended(p) \in queue'
        BY <3>2 DEF Suspend
      <4>2. asg'[p].state # "voted"
        BY <1>8, <4>1 DEF Calm, Suspended
      <4> QED
        BY <1>1, <4>2
    <3>3. CASE Demote(p)
      <4>1. demoted' # {}
        BY <3>3 DEF Demote
      <4> QED
        BY <1>8, <4>1 DEF Calm
    <3> QED
      BY <3>1, <3>2, <3>3
  <2>2. \A q : q # p => (q \in trained' <=> q \in trained)
    BY DEF Train, Suspend, Demote
  <2>3. Effective' = Effective
    BY <1>1, <2>1, <2>2 DEF Effective
  <2> QED
    BY <1>1, <2>3, DecisionKeeps
<1>9. OutcomeInv'
  BY <1>1, <1>7, <1>8 DEF OutcomeInv
<1> QED
  BY <1>3, <1>4, <1>5, <1>6, <1>9

\* createAppeal starts without a panel, so without a decision.
LEMMA OpeningKeeps ==
  ASSUME AppealInv, createAppeal
  PROVE  AppealInv'
<1> USE DEF AppealInv
<1>1. /\ appeal = "none" /\ appeal' = "open" /\ queue' = queue \cup {Created}
      /\ asg' = asg /\ vote' = vote /\ casting' = casting /\ outcome' = outcome /\ trained' = trained
      /\ demoted' = demoted /\ overdue' = overdue /\ adj' = adj /\ wf' = wf /\ events' = events
  BY DEF createAppeal, panel, staff
<1>2. AppealsTypeOK'
  BY <1>1 DEF AppealsTypeOK, Seated
<1>3. \A p \in People : asg[p].state = "none"
  BY <1>1 DEF FreshInv, Absent
<1>4. CastInv'
  <2>1. \A p \in People : casting[p] = "no"
    BY <1>3 DEF CastInv, AppealsTypeOK
  <2> QED
    BY <1>1, <1>2, <2>1, CastsKeep
<1>5. Seated' = {} /\ Effective' = {}
  BY <1>1, <1>3 DEF Seated, Effective, AppealsTypeOK
<1>6. PanelDecision' = "none"
  <2>1. ~QuorumReached'
    BY <1>5, FS_EmptySet, AppealConstants DEF QuorumReached
  <2> QED
    BY <2>1 DEF PanelDecision
<1>7. FreshInv' /\ TrainedInv' /\ OutcomeInv'
  BY <1>1, <1>5, <1>6 DEF FreshInv, TrainedInv, OutcomeInv
<1> QED
  BY <1>2, <1>4, <1>7

\* Expire meets no vote and no recusal under way: it has waited for the assigned rows.
LEMMA ExpiringKeeps ==
  ASSUME AppealInv, Expire
  PROVE  AppealInv'
<1> USE DEF AppealInv
<1>0. /\ wf' \in [pc: {"none", "assign", "expire", "done", "failed"}, attempt: 1..MaxAttempts]
      /\ events' \in 0..MaxEvents
  BY SteppingOn DEF Expire
<1>1. /\ vote' = vote /\ casting' = casting /\ trained' = trained
      /\ demoted' = demoted /\ overdue' = overdue /\ adj' = adj /\ queue' = queue
  BY DEF Expire, staff
<1>2. CASE appeal # "open"
  <2>1. appeal' = appeal /\ asg' = asg /\ outcome' = outcome
    BY <1>2 DEF Expire
  <2>2. AppealsTypeOK'
    BY <1>0, <1>1, <2>1 DEF AppealsTypeOK, Seated
  <2>3. CastInv'
    BY <1>1, <2>1, <2>2, CastsKeep
  <2>4. Quiet
    BY <1>1, <2>1 DEF Quiet
  <2> QED
    BY <2>2, <2>3, <2>4, QuietSteps
<1>3. CASE appeal = "open"
  <2>1. /\ appeal' = "expired"
        /\ \A p \in People : asg[p].state = "assigned" => casting[p] = "no"
        /\ asg' = [p \in People |->
             IF asg[p].state = "assigned" THEN [asg[p] EXCEPT !.state = "expired"] ELSE asg[p]]
        /\ outcome' = IF outcome.state \in {"none", "resolved"} THEN outcome
                      ELSE [outcome EXCEPT !.state = "no_consensus"]
    BY <1>3 DEF Expire
  <2>2. ASSUME NEW p \in People
        PROVE  /\ asg'[p] \in {Absent} \cup
                    [state: {"assigned", "voted", "recused", "expired"}, seat: Seats, weight: {1, 2}]
               /\ asg'[p].seat = asg[p].seat /\ asg'[p].weight = asg[p].weight
               /\ asg'[p].state = IF asg[p].state = "assigned" THEN "expired" ELSE asg[p].state
    <3>1. asg[p] \in {Absent} \cup
            [state: {"assigned", "voted", "recused", "expired"}, seat: Seats, weight: {1, 2}]
      BY DEF AppealsTypeOK
    <3>2. CASE asg[p].state = "assigned"
      <4>1. asg[p] \in [state: {"assigned", "voted", "recused", "expired"}, seat: Seats, weight: {1, 2}]
        BY <3>1, <3>2 DEF Absent
      <4>2. asg'[p] = [asg[p] EXCEPT !.state = "expired"]
        BY <2>1, <3>2
      <4> QED
        BY <3>2, <4>1, <4>2
    <3>3. CASE asg[p].state # "assigned"
      <4>1. asg'[p] = asg[p]
        BY <2>1, <3>3
      <4> QED
        BY <3>1, <3>3, <4>1
    <3> QED
      BY <3>2, <3>3
  <2>3. asg' \in [People -> {Absent} \cup
          [state: {"assigned", "voted", "recused", "expired"}, seat: Seats, weight: {1, 2}]]
    <3>1. DOMAIN asg' = People /\ asg' = [p \in People |-> asg'[p]]
      BY <2>1
    <3> QED
      BY <2>2, <3>1
  <2>4. Seated' \subseteq Seated /\ Seated \subseteq People
    BY <2>2 DEF Seated
  <2>5. OneEach'
    <3>1. OneEach
      BY DEF OneEach, AppealsTypeOK
    <3> QED
      BY <2>2, <2>4, <3>1 DEF OneEach
  <2>6. outcome' \in [panel: Decisions \cup {"none"},
          state: {"none", "pending_quorum", "no_consensus", "pending_adjudication",
                  "adjudication_disagreement", "resolved"}]
    BY <2>1 DEF AppealsTypeOK
  <2>7. AppealsTypeOK'
    BY <1>0, <1>1, <2>1, <2>3, <2>5, <2>6 DEF AppealsTypeOK, OneEach
  <2>8. CastInv'
    <3>1. \A p \in People : casting[p] # "no" => casting[p] = "suspend" /\ asg'[p].state = asg[p].state
      BY <2>1, <2>2 DEF CastInv, AppealsTypeOK
    <3> QED
      BY <1>1, <2>7, <3>1, CastsKeep
  <2> QED
    BY <2>1, <2>7, <2>8 DEF FreshInv, TrainedInv, OutcomeInv
<1> QED
  BY <1>2, <1>3

\* processAppealVoteLocked brings the outcome row in line with the votes.
LEMMA EvaluatingKeeps ==
  ASSUME AppealInv, NEW p \in People, processAppealVoteLocked(p)
  PROVE  AppealInv'
<1> USE DEF AppealInv
<1>0. AppealsTypeOK
  OBVIOUS
<1>1. /\ appeal' = appeal /\ asg' = asg /\ vote' = vote /\ casting' = casting /\ trained' = trained
      /\ demoted' = demoted /\ overdue' = overdue /\ adj' = adj /\ wf' = wf
  BY DEF processAppealVoteLocked, panel, staff
<1>2. queue' \subseteq queue /\ queue \ {VoteLocked(p)} \subseteq queue' /\ events' \in 0..MaxEvents
  BY <1>0, Acknowledging DEF processAppealVoteLocked
<1>3. outcome' = IF appeal = "open" THEN Evaluate({}) ELSE outcome
  BY DEF processAppealVoteLocked
<1>4. AppealsTypeOK'
  <2>1. outcome' \in [panel: Decisions \cup {"none"},
          state: {"none", "pending_quorum", "no_consensus", "pending_adjudication",
                  "adjudication_disagreement", "resolved"}]
    BY <1>0, <1>3, Evaluating DEF AppealsTypeOK
  <2> QED
    BY <1>0, <1>1, <1>2, <2>1 DEF AppealsTypeOK, Seated
<1>5. CastInv'
  BY <1>1, <1>4, CastsKeep
<1>6. Seated' = Seated /\ Effective' = Effective
  BY <1>1 DEF Seated, Effective
<1>7. TrainedInv' /\ FreshInv'
  <2>1. \A q \in People : Suspended(q) \in queue => Suspended(q) \in queue'
    BY <1>2, Messages
  <2> QED
    BY <1>1, <1>3, <1>6, <2>1 DEF TrainedInv, FreshInv, Suspended
<1>8. OutcomeInv'
  <2>1. PanelDecision' = PanelDecision
    BY <1>1, <1>6, DecisionKeeps
  <2>2. appeal = "open" => outcome'.panel = PanelDecision
    BY <1>3, Evaluating
  <2> QED
    BY <1>1, <2>1, <2>2 DEF OutcomeInv
<1> QED
  BY <1>4, <1>5, <1>7, <1>8

\* adjudicateAppeal closes the appeal only with a full panel, when no vote is under way.
LEMMA AdjudicatingKeeps ==
  ASSUME AppealInv, NEW e \in Editors, NEW d \in Decisions, adjudicateAppeal(e, d)
  PROVE  AppealInv'
<1> USE DEF AppealInv
<1>0. AppealsTypeOK /\ appeal = "open"
  BY DEF adjudicateAppeal
<1>1. /\ asg' = asg /\ vote' = vote /\ casting' = casting /\ trained' = trained
      /\ demoted' = demoted /\ overdue' = overdue /\ wf' = wf /\ queue' = queue /\ events' = events
      /\ adj' = [adj EXCEPT ![e] = d]
      /\ appeal' = IF outcome'.state = "resolved" THEN "resolved" ELSE appeal
  BY DEF adjudicateAppeal, panel, staff
<1>2. PICK given : outcome' = Evaluate(given)
  BY DEF adjudicateAppeal
<1>3. /\ outcome'.panel = PanelDecision
      /\ outcome' \in [panel: Decisions \cup {"none"},
           state: {"none", "pending_quorum", "no_consensus", "pending_adjudication",
                   "adjudication_disagreement", "resolved"}]
  BY <1>2, Evaluating
<1>4. AppealsTypeOK'
  BY <1>0, <1>1, <1>3 DEF AppealsTypeOK, Seated
<1>5. outcome'.state = "resolved" => QuorumReached
  BY <1>2 DEF Evaluate
<1>6. CastInv'
  <2>1. \A p \in People : casting[p] \in {"vote", "recuse"} => ~QuorumReached
    BY <1>0, NoQuorumYet DEF CastInv
  <2> QED
    BY <1>1, <1>4, <1>5, <2>1, CastsKeep
<1>7. Seated' = Seated /\ Effective' = Effective
  BY <1>1 DEF Seated, Effective
<1>8. FreshInv' /\ TrainedInv'
  BY <1>0, <1>1, <1>7 DEF FreshInv, TrainedInv, Suspended
<1>9. OutcomeInv'
  <2>1. PanelDecision' = PanelDecision
    BY <1>1, <1>7, DecisionKeeps
  <2> QED
    BY <1>3, <2>1 DEF OutcomeInv
<1> QED
  BY <1>4, <1>6, <1>8, <1>9

-----------------------------------------------------------------------------
\* Seats, transactions, qualifications and the outcome row agree in every reachable state.
THEOREM AppealInvariance == AppealsSpec => []AppealInv
<1>1. AppealsInit => AppealInv
  <2> SUFFICES ASSUME AppealsInit PROVE AppealInv
    OBVIOUS
  <2> USE DEF AppealsInit
  <2>1. AppealsTypeOK
    <3>1. 0 \in 0..MaxEvents /\ 1 \in 1..MaxAttempts
      BY AppealConstants
    <3>2. Seated = {}
      BY DEF Seated, Absent
    <3> QED
      BY <3>1, <3>2 DEF AppealsTypeOK
  <2> QED
    BY <2>1 DEF AppealInv, CastInv, FreshInv, TrainedInv, OutcomeInv
<1>2. AppealInv /\ [AppealsNext]_appealsVars => AppealInv'
  <2> SUFFICES ASSUME AppealInv, [AppealsNext]_appealsVars PROVE AppealInv'
    OBVIOUS
  <2>1. CASE AppealsNext
    BY <2>1, QuietActions, AssigningKeeps, ReplacingKeeps, CommittingKeeps, QualifyingKeeps,
       OpeningKeeps, ExpiringKeeps, EvaluatingKeeps, AdjudicatingKeeps
       DEF AppealsNext, Workflow, Ending, Consume
  <2>2. CASE UNCHANGED appealsVars
    <3> USE DEF appealsVars, panel, staff
    <3>1. AppealsTypeOK'
      BY <2>2 DEF AppealInv, AppealsTypeOK, Seated
    <3>2. CastInv'
      BY <2>2, <3>1, CastsKeep
    <3>3. Quiet
      BY <2>2 DEF Quiet
    <3> QED
      BY <3>1, <3>2, <3>3, QuietSteps DEF AppealInv
  <2> QED
    BY <2>1, <2>2
<1> QED
  BY <1>1, <1>2, PTL DEF AppealsSpec

\* The seats of a panel are held by different reviewers, with one double weight at most.
THEOREM PanelTypes == AppealsSpec => []AppealsTypeOK
<1>1. AppealInv => AppealsTypeOK
  BY DEF AppealInv
<1> QED
  BY <1>1, AppealInvariance, PTL

\* Once the events are handled, the outcome row tells the decision the votes give.
THEOREM OutcomeKept == AppealsSpec => []OutcomeFollowsVotes
<1>1. AppealInv => OutcomeFollowsVotes
  <2> SUFFICES ASSUME AppealInv, appeal = "open", demoted = {},
                      \A p \in People : {VoteLocked(p), Suspended(p)} \cap queue = {}
               PROVE  outcome.panel = PanelDecision
    BY DEF OutcomeFollowsVotes
  <2>1. \A p \in People : VoteLocked(p) \notin queue /\ Suspended(p) \notin queue
    OBVIOUS
  <2>2. Calm
    BY <2>1 DEF Calm
  <2> QED
    BY <2>2 DEF AppealInv, OutcomeInv
<1> QED
  BY <1>1, AppealInvariance, PTL

\* A vote that is under way when the appeal closes cannot commit: none is.
THEOREM ClosedStaysSealed == AppealsSpec => ClosedIsSealed
<1>1. ASSUME AppealInv, [AppealsNext]_appealsVars, appeal \in {"resolved", "expired"}
      PROVE  UNCHANGED <<appeal, vote, adj, outcome>>
  <2>1. CASE UNCHANGED appealsVars
    BY <2>1 DEF appealsVars, panel
  <2>2. CASE createAppeal \/ TimePasses \/ Workflow
    BY <1>1, <2>2 DEF createAppeal, TimePasses, Workflow, StartWorkflow, AssignSkipped, AssignWaits,
       AssignReviewers, AssignThrows, Expire, panel
  <2>3. ASSUME NEW p \in People, VoteBegin(p) \/ RecuseBegin(p) \/ Train(p) \/ Suspend(p) \/ Demote(p)
        PROVE  UNCHANGED <<appeal, vote, adj, outcome>>
    BY <2>3 DEF VoteBegin, RecuseBegin, Train, Suspend, Demote, panel
  <2>4. ASSUME NEW p \in People, Ending(p)
        PROVE  UNCHANGED <<appeal, vote, adj, outcome>>
    <3>1. ~\E d \in Decisions : VoteCommit(p, d)
      BY <1>1 DEF VoteCommit, AppealInv, CastInv
    <3> QED
      BY <2>4, <3>1 DEF Ending, RecuseCommit, SuspendedCommit, Rollback
  <2>5. ASSUME NEW p \in People, Consume(p)
        PROVE  UNCHANGED <<appeal, vote, adj, outcome>>
    BY <1>1, <2>5 DEF Consume, SuspendedBegin, replaceRecusedAppealReviewer, ReplacementDropped,
       processAppealVoteLocked, panel
  <2>6. ASSUME NEW e \in Editors, NEW d \in Decisions, adjudicateAppeal(e, d)
        PROVE  UNCHANGED <<appeal, vote, adj, outcome>>
    BY <1>1, <2>6 DEF adjudicateAppeal
  <2> QED
    BY <1>1, <2>1, <2>2, <2>3, <2>4, <2>5, <2>6 DEF AppealsNext
<1>2. AppealInv /\ [AppealsNext]_appealsVars
      => [(appeal \in {"resolved", "expired"}) => UNCHANGED <<appeal, vote, adj, outcome>>]_appealsVars
  BY <1>1
<1> QED
  BY <1>2, AppealInvariance, PTL DEF AppealsSpec, ClosedIsSealed

\* A resolution has the whole panel, its weighted majority and an editor outside it behind it.
THEOREM ResolutionIsBacked == AppealsSpec => ResolvedIsBacked
<1> DEFINE Backed ==
      /\ {asg[p].seat : p \in Effective} = Seats
      /\ \E S \in SUBSET Seated :
           /\ \A p \in S : vote[p] = "uphold"
           /\ 5 * Weight(S) >= 3 * Weight(Seated)
      /\ \E e \in Editors \ Seated : adj'[e] = "uphold"
      /\ \A e \in Editors : adj'[e] # "overturn"
<1>1. ASSUME AppealInv, NEW e \in Editors, NEW d \in Decisions, adjudicateAppeal(e, d), appeal' = "resolved"
      PROVE  Backed
  <2> DEFINE given == {adj'[f] : f \in Editors} \ {"none"}
  <2>1. /\ outcome' = Evaluate(given) /\ outcome' # [state |-> "resolved", panel |-> "overturn"]
        /\ e \notin Seated /\ adj' = [adj EXCEPT ![e] = d] /\ adj \in [Editors -> Decisions \cup {"none"}]
    BY <1>1 DEF adjudicateAppeal, AppealInv, AppealsTypeOK
  <2>2. outcome'.state = "resolved"
    BY <1>1 DEF adjudicateAppeal
  <2>3. QuorumReached /\ PanelDecision # "none" /\ given = {PanelDecision}
    <3>1. Evaluate(given).state = "resolved"
      BY <2>1, <2>2
    <3> HIDE DEF given
    <3> QED
      BY <3>1 DEF Evaluate
  <2>4. PanelDecision # "overturn"
    <3>1. Evaluate(given) = [state |-> Evaluate(given).state, panel |-> PanelDecision]
      BY DEF Evaluate
    <3>2. Evaluate(given).state = "resolved"
      BY <2>1, <2>2
    <3> HIDE DEF given
    <3> QED
      BY <2>1, <3>1, <3>2
  <2>5. "uphold" \in {c \in Decisions : 5 * Weight(Favour(c)) >= 3 * Weight(Effective)} /\ PanelDecision = "uphold"
    BY <2>3, <2>4 DEF PanelDecision, Decisions
  <2>6. Seated = Effective /\ {asg[p].seat : p \in Effective} = Seats
    BY <1>1, <2>3, FullPanel DEF AppealInv
  <2>7. \E S \in SUBSET Seated : (\A p \in S : vote[p] = "uphold") /\ 5 * Weight(S) >= 3 * Weight(Seated)
    <3>1. Favour("uphold") \in SUBSET Seated /\ \A p \in Favour("uphold") : vote[p] = "uphold"
      BY <2>6 DEF Favour
    <3>2. 5 * Weight(Favour("uphold")) >= 3 * Weight(Seated)
      BY <2>5, <2>6
    <3> QED
      BY <3>1, <3>2
  <2>8. \A f \in Editors : adj'[f] \in {"none", "uphold"}
    BY <2>3, <2>5
  <2>9. adj'[e] = "uphold"
    <3>1. adj'[e] = d
      BY <2>1
    <3> QED
      BY <2>8, <3>1 DEF Decisions
  <2> QED
    BY <2>1, <2>6, <2>7, <2>8, <2>9
<1>2. ASSUME AppealInv, AppealsNext, appeal' = "resolved", appeal # "resolved"
      PROVE  Backed
  <2>1. \E e \in Editors, d \in Decisions : adjudicateAppeal(e, d)
    <3>1. ~(createAppeal \/ TimePasses \/ Workflow)
      BY <1>2 DEF createAppeal, TimePasses, Workflow, StartWorkflow, AssignSkipped, AssignWaits,
         AssignReviewers, AssignThrows, Expire
    <3>2. ASSUME NEW p \in People
          PROVE  ~(VoteBegin(p) \/ RecuseBegin(p) \/ Ending(p) \/ Consume(p) \/ Train(p) \/ Suspend(p) \/ Demote(p))
      BY <1>2 DEF VoteBegin, RecuseBegin, Ending, VoteCommit, RecuseCommit, SuspendedCommit, Rollback,
         Consume, SuspendedBegin, replaceRecusedAppealReviewer, ReplacementDropped, processAppealVoteLocked,
         Train, Suspend, Demote
    <3> QED
      BY <1>2, <3>1, <3>2 DEF AppealsNext
  <2> HIDE DEF Backed
  <2> QED
    BY <1>1, <1>2, <2>1
<1>3. AppealInv /\ [AppealsNext]_appealsVars => [appeal' = "resolved" /\ appeal # "resolved" => Backed]_appealsVars
  <2> HIDE DEF Backed
  <2> QED
    BY <1>2
<1> QED
  BY <1>3, AppealInvariance, PTL DEF AppealsSpec, ResolvedIsBacked

=============================================================================
