------------------------------ MODULE Appeals ------------------------------
(***************************************************************************)
(* One appeal against a moderation decision on a post, a comment or a      *)
(* profile (risk class "standard", policy appeals-v1.0.0): a workflow      *)
(* draws a panel of trained reviewers, they vote or recuse themselves,     *)
(* the queue consumer replaces them and evaluates the panel, an editor     *)
(* adjudicates, and what is not resolved in time expires.                  *)
(*                                                                         *)
(* Votes and recusals lock the reviewer's assignment row but not the       *)
(* appeal; they are transactions with a begin and a commit here.  All      *)
(* other handlers lock the appeal first and are one step each.             *)
(***************************************************************************)
EXTENDS Naturals, FiniteSets

CONSTANTS
  People,         \* accounts without a conflict of interest that may hold a reviewer qualification,
                  \* numbered in the order of their rank hashes for this appeal
  Level5,         \* those with reputation level 5
  Editors,        \* those with an editorial membership
  ReviewerCount,  \* APPEAL_POLICY.reviewerCount, which is also its quorum
  MaxAttempts,    \* assignment attempts of the workflow
  MaxEvents       \* bound on withdrawn qualifications and on repeated steps and messages

VARIABLES
  appeal,     \* moderation.appeals.state
  overdue,    \* expires_at has passed
  asg,        \* moderation.appeal_assignments of each person
  vote,       \* moderation.appeal_review_votes
  adj,        \* moderation.appeal_adjudications
  outcome,    \* moderation.appeal_outcomes: state and reviewer_panel_decision
  trained,    \* moderation.reviewer_qualifications in state trained
  casting,    \* the open transaction that holds each person's assignment row
  queue,      \* outbox and queue events not yet acknowledged
  wf,         \* AppealLifecycleWorkflow
  events,     \* withdrawn qualifications, lost acknowledgements and lost step results so far
  demoted     \* history: people whose training was withdrawn without a suspension

panel == <<asg, vote, casting>>
staff == <<trained, demoted>>
appealsVars == <<appeal, overdue, panel, adj, outcome, staff, queue, wf, events>>

ASSUME AppealConstants ==
  /\ People \subseteq Nat /\ IsFiniteSet(People)
  /\ Level5 \subseteq People /\ Editors \subseteq People
  /\ ReviewerCount \in Nat \ {0} /\ MaxAttempts \in Nat \ {0}
  /\ MaxEvents \in Nat

Decisions == {"overturn", "uphold"}
Seats == 1..ReviewerCount
Absent == [state |-> "none", seat |-> 0, weight |-> 0]

Created == [type |-> "created"]
Recused(p) == [type |-> "recused", p |-> p]
VoteLocked(p) == [type |-> "vote", p |-> p]
Suspended(p) == [type |-> "suspended", p |-> p]

AppealsInit ==
  /\ appeal = "none" /\ overdue = FALSE
  /\ asg = [p \in People |-> Absent]
  /\ vote = [p \in People |-> "none"]
  /\ casting = [p \in People |-> "no"]
  /\ adj = [e \in Editors |-> "none"]
  /\ outcome = [state |-> "none", panel |-> "none"]
  /\ trained = People /\ events = 0 /\ demoted = {}
  /\ queue = {}
  /\ wf = [pc |-> "none", attempt |-> 1]

\* An acknowledged message is gone, unless the acknowledgement was lost.
AckEvent(m) ==
  \/ queue' = queue \ {m} /\ UNCHANGED events
  \/ events < MaxEvents /\ events' = events + 1 /\ UNCHANGED queue

-----------------------------------------------------------------------------
(* The policy (packages/contracts).                                        *)

Seated == {p \in People : asg[p].state \in {"assigned", "voted"}}

\* lockedAppealVote: the votes that count are of reviewers who are trained now.
Effective == {p \in trained : asg[p].state = "voted"}

Weight(S) == Cardinality(S) + Cardinality({p \in S : asg[p].weight = 2})

Favour(d) == {p \in Effective : vote[p] = d}

\* The quorum is the whole panel.
QuorumReached == Cardinality(Effective) >= ReviewerCount

\* evaluateAppeal, first half: the decision of a complete panel with a weighted majority of 0.6.
PanelDecision ==
  LET won == {d \in Decisions : 5 * Weight(Favour(d)) >= 3 * Weight(Effective)} IN
  IF ~QuorumReached \/ won = {} THEN "none"
  ELSE IF "overturn" \in won THEN "overturn" ELSE "uphold"

\* evaluateAppeal: the outcome, given the adjudicators' decisions.
Evaluate(given) ==
  [panel |-> PanelDecision,
   state |-> IF ~QuorumReached THEN "pending_quorum"
             ELSE IF PanelDecision = "none" THEN "no_consensus"
             ELSE IF given = {} THEN "pending_adjudication"
             ELSE IF given = {PanelDecision} THEN "resolved" ELSE "adjudication_disagreement"]

\* Trained people who never had an assignment in this appeal.
Candidates == {p \in trained : asg[p] = Absent}

\* assignmentRank: the place of a person among the people of S.
Rank(S, p) == Cardinality({q \in S : q <= p})

\* One reviewer of level 5 gets the double weight.
WeightFor(p, weighted) == IF p \in Level5 /\ ~weighted THEN 2 ELSE 1

\* selectAppealReviewers: the candidates of the lowest ranks.
Drawn == {p \in Candidates : Rank(Candidates, p) <= ReviewerCount}

Assigned(seat, weight) == [state |-> "assigned", seat |-> seat, weight |-> weight]

-----------------------------------------------------------------------------
(* The appellant and the workflow.                                         *)

createAppeal ==
  /\ appeal = "none"
  /\ appeal' = "open"
  /\ queue' = queue \cup {Created}
  /\ UNCHANGED <<overdue, panel, adj, outcome, staff, wf, events>>

TimePasses ==
  /\ appeal # "none" /\ ~overdue
  /\ overdue' = TRUE
  /\ UNCHANGED <<appeal, panel, adj, outcome, staff, queue, wf, events>>

\* The created event starts the workflow; its instance id is the appeal's, so a second delivery
\* finds it.
StartWorkflow ==
  /\ Created \in queue
  /\ wf' = IF wf.pc = "none" THEN [wf EXCEPT !.pc = "assign"] ELSE wf
  /\ AckEvent(Created)
  /\ UNCHANGED <<appeal, overdue, panel, adj, outcome, staff>>

\* Whether the workflow learns of the result of a step that it committed; otherwise the step
\* runs again.
StepDone(pc) ==
  \/ wf' = [wf EXCEPT !.pc = pc] /\ UNCHANGED events
  \/ events < MaxEvents /\ events' = events + 1 /\ UNCHANGED wf

InitOutcome ==
  outcome' = IF outcome.state = "none" THEN [outcome EXCEPT !.state = "pending_quorum"] ELSE outcome

\* assign-reviewers: nothing left to do.
AssignSkipped ==
  /\ wf.pc = "assign"
  /\ \/ appeal # "open" /\ StepDone("done") /\ UNCHANGED outcome
     \/ appeal = "open" /\ Cardinality(Seated) >= ReviewerCount /\ StepDone("expire") /\ InitOutcome
  /\ UNCHANGED <<appeal, overdue, panel, adj, staff, queue>>

\* assign-reviewers: the pool is too small; wait a day, or after the last attempt for the expiry.
AssignWaits ==
  /\ wf.pc = "assign" /\ appeal = "open"
  /\ Cardinality(Seated) < ReviewerCount /\ Cardinality(Candidates) < ReviewerCount
  /\ InitOutcome
  /\ wf' = IF wf.attempt < MaxAttempts THEN [wf EXCEPT !.attempt = @ + 1] ELSE [wf EXCEPT !.pc = "expire"]
  /\ UNCHANGED <<appeal, overdue, panel, adj, staff, queue, events>>

\* Mutant: the workflow ends when it has drawn the panel.
AssignAndLeave ==
  /\ wf.pc = "assign" /\ appeal = "open"
  /\ Seated = {} /\ Cardinality(Candidates) >= ReviewerCount
  /\ asg' = [p \in People |-> IF p \in Drawn THEN Assigned(Rank(Drawn, p), 1) ELSE asg[p]]
  /\ InitOutcome
  /\ StepDone("done")
  /\ UNCHANGED <<appeal, overdue, vote, casting, adj, staff, queue>>

\* assign-reviewers: a panel drawn and seated in the order of its rank hashes.  The seats are
\* numbered from 1, and the unique index of active seats refuses them while one is taken.
AssignReviewers ==
  /\ wf.pc = "assign" /\ appeal = "open"
  /\ Seated = {} /\ Cardinality(Candidates) >= ReviewerCount
  /\ asg' = [p \in People |->
       IF p \in Drawn
       THEN Assigned(Rank(Drawn, p), WeightFor(p, \E q \in Drawn \cap Level5 : q < p))
       ELSE asg[p]]
  /\ InitOutcome
  /\ StepDone("expire")
  /\ UNCHANGED <<appeal, overdue, vote, casting, adj, staff, queue>>

\* The insert fails: the step rolls back and is retried; when its retries are used up the
\* workflow ends in an error.
AssignThrows ==
  /\ wf.pc = "assign" /\ appeal = "open"
  /\ Seated # {} /\ Cardinality(Seated) < ReviewerCount /\ Cardinality(Candidates) >= ReviewerCount
  /\ wf' = [wf EXCEPT !.pc = "failed"]
  /\ UNCHANGED <<appeal, overdue, panel, adj, outcome, staff, queue, events>>

\* Mutant: the expiry leaves the assignments alone.
ExpireAppealOnly ==
  /\ wf.pc = "expire" /\ overdue
  /\ appeal' = IF appeal = "open" THEN "expired" ELSE appeal
  /\ outcome' = IF appeal = "open" /\ outcome.state \notin {"none", "resolved"}
                THEN [outcome EXCEPT !.state = "no_consensus"] ELSE outcome
  /\ StepDone("done")
  /\ UNCHANGED <<overdue, panel, adj, staff, queue>>

\* expire-unresolved-appeal: waits for the transactions that hold assigned rows.
Expire ==
  /\ wf.pc = "expire" /\ overdue
  /\ IF appeal = "open"
     THEN /\ \A p \in People : asg[p].state = "assigned" => casting[p] = "no"
          /\ appeal' = "expired"
          /\ asg' = [p \in People |->
               IF asg[p].state = "assigned" THEN [asg[p] EXCEPT !.state = "expired"] ELSE asg[p]]
          /\ outcome' = IF outcome.state \in {"none", "resolved"} THEN outcome
                        ELSE [outcome EXCEPT !.state = "no_consensus"]
     ELSE UNCHANGED <<appeal, asg, outcome>>
  /\ StepDone("done")
  /\ UNCHANGED <<overdue, vote, casting, adj, staff, queue>>

-----------------------------------------------------------------------------
(* Reviewers (public API).                                                 *)

\* submitAppealVote: the checks, with the assignment row locked.
VoteBegin(p) ==
  /\ appeal = "open" /\ ~overdue /\ p \in trained
  /\ asg[p].state = "assigned" /\ casting[p] = "no"
  /\ casting' = [casting EXCEPT ![p] = "vote"]
  /\ UNCHANGED <<appeal, overdue, asg, vote, adj, outcome, staff, queue, wf, events>>

VoteCommit(p, d) ==
  /\ casting[p] = "vote"
  /\ casting' = [casting EXCEPT ![p] = "no"]
  /\ vote' = [vote EXCEPT ![p] = d]
  /\ asg' = [asg EXCEPT ![p].state = "voted"]
  /\ queue' = queue \cup {VoteLocked(p)}
  /\ UNCHANGED <<appeal, overdue, adj, outcome, staff, wf, events>>

\* recuseAppealReview.
RecuseBegin(p) ==
  /\ appeal = "open" /\ ~overdue
  /\ asg[p].state = "assigned" /\ casting[p] = "no"
  /\ casting' = [casting EXCEPT ![p] = "recuse"]
  /\ UNCHANGED <<appeal, overdue, asg, vote, adj, outcome, staff, queue, wf, events>>

RecuseCommit(p) ==
  /\ casting[p] = "recuse"
  /\ casting' = [casting EXCEPT ![p] = "no"]
  /\ asg' = [asg EXCEPT ![p].state = "recused"]
  /\ queue' = queue \cup {Recused(p)}
  /\ UNCHANGED <<appeal, overdue, vote, adj, outcome, staff, wf, events>>

\* The request dies or a statement fails.
Rollback(p) ==
  /\ casting[p] # "no"
  /\ casting' = [casting EXCEPT ![p] = "no"]
  /\ UNCHANGED <<appeal, overdue, asg, vote, adj, outcome, staff, queue, wf, events>>

-----------------------------------------------------------------------------
(* Staff (admin API).                                                      *)

\* updateReviewerQualification: trained, suspended, or back to none or eligible.  The handler of
\* the event acts on suspensions only.
Train(p) ==
  /\ p \notin trained
  /\ trained' = trained \cup {p}
  /\ UNCHANGED <<appeal, overdue, panel, adj, outcome, demoted, queue, wf, events>>

Suspend(p) ==
  /\ p \in trained /\ events < MaxEvents
  /\ trained' = trained \ {p} /\ events' = events + 1
  /\ queue' = queue \cup {Suspended(p)}
  /\ UNCHANGED <<appeal, overdue, panel, adj, outcome, demoted, wf>>

Demote(p) ==
  /\ p \in trained /\ events < MaxEvents
  /\ trained' = trained \ {p} /\ events' = events + 1
  /\ demoted' = demoted \cup {p}
  /\ UNCHANGED <<appeal, overdue, panel, adj, outcome, queue, wf>>

\* Mutant: members of the panel may adjudicate.
adjudicateByMember(e, d) ==
  /\ appeal = "open" /\ e \in trained
  /\ adj[e] \in {"none", d}
  /\ adj' = [adj EXCEPT ![e] = d]
  /\ outcome' = Evaluate({adj'[f] : f \in Editors} \ {"none"})
  /\ outcome' # [state |-> "resolved", panel |-> "overturn"]
  /\ appeal' = IF outcome'.state = "resolved" THEN "resolved" ELSE appeal
  /\ UNCHANGED <<overdue, panel, staff, queue, wf, events>>

\* adjudicateAppeal: by a trained editor outside the panel, who cannot change a recorded decision.
\* A resolution that overturns is refused (appeal_resolution_unavailable) and rolled back.
adjudicateAppeal(e, d) ==
  /\ appeal = "open" /\ e \in trained /\ e \notin Seated
  /\ adj[e] \in {"none", d}
  /\ adj' = [adj EXCEPT ![e] = d]
  /\ outcome' = Evaluate({adj'[f] : f \in Editors} \ {"none"})
  /\ outcome' # [state |-> "resolved", panel |-> "overturn"]
  /\ appeal' = IF outcome'.state = "resolved" THEN "resolved" ELSE appeal
  /\ UNCHANGED <<overdue, panel, staff, queue, wf, events>>

-----------------------------------------------------------------------------
(* The queue consumer.                                                     *)

\* processNotificationSource for a suspended reviewer: recused from open appeals, even after
\* voting, with an event for the replacement and one for a new evaluation.
SuspendedBegin(p) ==
  /\ Suspended(p) \in queue
  /\ casting[p] = "no"
  /\ IF appeal = "open" /\ p \in Seated
     THEN casting' = [casting EXCEPT ![p] = "suspend"] /\ UNCHANGED <<queue, events>>
     ELSE AckEvent(Suspended(p)) /\ UNCHANGED casting
  /\ UNCHANGED <<appeal, overdue, asg, vote, adj, outcome, staff, wf>>

\* Mutant: a suspended reviewer is replaced but the panel is not evaluated again.
SuspendedWithoutRecompute(p) ==
  /\ casting[p] = "suspend"
  /\ casting' = [casting EXCEPT ![p] = "no"]
  /\ asg' = [asg EXCEPT ![p].state = "recused"]
  /\ queue' = (queue \ {Suspended(p)}) \cup {Recused(p)}
  /\ UNCHANGED <<appeal, overdue, vote, adj, outcome, staff, wf, events>>

SuspendedCommit(p) ==
  /\ casting[p] = "suspend"
  /\ casting' = [casting EXCEPT ![p] = "no"]
  /\ asg' = [asg EXCEPT ![p].state = "recused"]
  /\ queue' = (queue \ {Suspended(p)}) \cup {Recused(p), VoteLocked(p)}
  /\ UNCHANGED <<appeal, overdue, vote, adj, outcome, staff, wf, events>>

SeatTaken(s) == \E p \in Seated : asg[p].seat = s

\* replaceRecusedAppealReviewer: the seat goes to the first in rank who never had one.
replaceRecusedAppealReviewer(p) ==
  /\ Recused(p) \in queue
  /\ IF asg[p].state = "recused" /\ appeal = "open" /\ ~overdue
     THEN /\ ~SeatTaken(asg[p].seat)
          /\ \E q \in Candidates :
               /\ Rank(Candidates, q) = 1
               /\ asg' = [asg EXCEPT ![q] =
                    Assigned(asg[p].seat, WeightFor(q, \E r \in Seated : asg[r].weight = 2))]
     ELSE UNCHANGED asg
  /\ AckEvent(Recused(p))
  /\ UNCHANGED <<appeal, overdue, vote, casting, adj, outcome, staff, wf>>

\* Nobody is left, or the seat is taken: the handler throws until the message is a dead letter.
ReplacementDropped(p) ==
  /\ Recused(p) \in queue
  /\ asg[p].state = "recused" /\ appeal = "open" /\ ~overdue
  /\ Candidates = {} \/ SeatTaken(asg[p].seat)
  /\ queue' = queue \ {Recused(p)}
  /\ UNCHANGED <<appeal, overdue, panel, adj, outcome, staff, wf, events>>

\* processAppealVoteLocked: the panel alone, adjudications are not read.
processAppealVoteLocked(p) ==
  /\ VoteLocked(p) \in queue
  /\ outcome' = IF appeal = "open" THEN Evaluate({}) ELSE outcome
  /\ AckEvent(VoteLocked(p))
  /\ UNCHANGED <<appeal, overdue, panel, adj, staff, wf>>

-----------------------------------------------------------------------------
Workflow == StartWorkflow \/ AssignSkipped \/ AssignWaits \/ AssignReviewers \/ AssignThrows \/ Expire

Ending(p) == (\E d \in Decisions : VoteCommit(p, d)) \/ RecuseCommit(p) \/ SuspendedCommit(p) \/ Rollback(p)

Consume(p) ==
  SuspendedBegin(p) \/ replaceRecusedAppealReviewer(p) \/ ReplacementDropped(p) \/ processAppealVoteLocked(p)

AppealsNext ==
  \/ createAppeal \/ TimePasses \/ Workflow
  \/ \E p \in People :
       \/ VoteBegin(p) \/ RecuseBegin(p) \/ Ending(p) \/ Consume(p)
       \/ Train(p) \/ Suspend(p) \/ Demote(p)
  \/ \E e \in Editors, d \in Decisions : adjudicateAppeal(e, d)

AppealsSpec == AppealsInit /\ [][AppealsNext]_appealsVars

\* Time passes, the workflow engine runs what is due and the queue delivers the event that starts
\* it, a transaction ends, and suspensions that are delivered over and over are handled in the
\* end (strong fairness: one attempt may be rolled back).  Nobody has to vote, adjudicate or be
\* trained.
FairAppealsSpec ==
  /\ AppealsSpec /\ WF_appealsVars(TimePasses) /\ WF_appealsVars(Workflow)
  /\ \A p \in People : WF_appealsVars(Ending(p))
  /\ SF_appealsVars(\E p \in People : SuspendedCommit(p))

-----------------------------------------------------------------------------
(* Properties.                                                             *)

\* Types; never more reviewers than seats, no two on one seat, and at most one double weight,
\* whatever recusals, suspensions, replacements and repeated steps come together.
AppealsTypeOK ==
  /\ appeal \in {"none", "open", "resolved", "expired"} /\ overdue \in BOOLEAN
  /\ asg \in [People -> {Absent} \cup
       [state: {"assigned", "voted", "recused", "expired"}, seat: Seats, weight: {1, 2}]]
  /\ vote \in [People -> Decisions \cup {"none"}]
  /\ casting \in [People -> {"no", "vote", "recuse", "suspend"}]
  /\ adj \in [Editors -> Decisions \cup {"none"}]
  /\ outcome \in [panel: Decisions \cup {"none"},
       state: {"none", "pending_quorum", "no_consensus", "pending_adjudication",
               "adjudication_disagreement", "resolved"}]
  /\ trained \subseteq People /\ demoted \subseteq People
  /\ queue \subseteq {Created} \cup [type: {"recused", "vote", "suspended"}, p: People]
  /\ wf \in [pc: {"none", "assign", "expire", "done", "failed"}, attempt: 1..MaxAttempts]
  /\ events \in 0..MaxEvents
  /\ \A p, q \in Seated : p # q => asg[p].seat # asg[q].seat /\ asg[p].weight + asg[q].weight < 4

\* A decision is upheld only by a panel with every seat filled and voted, with a weighted
\* majority of at least 0.6, and with a confirming editor outside that panel and none against.
ResolvedIsBacked ==
  [][appeal' = "resolved" /\ appeal # "resolved" =>
       /\ {asg[p].seat : p \in Effective} = Seats
       /\ \E S \in SUBSET Seated :
            /\ \A p \in S : vote[p] = "uphold"
            /\ 5 * Weight(S) >= 3 * Weight(Seated)
       /\ \E e \in Editors \ Seated : adj'[e] = "uphold"
       /\ \A e \in Editors : adj'[e] # "overturn"]_appealsVars

\* The record of a closed appeal is final: no vote, adjudication or evaluation that was under way
\* when it closed changes it afterwards.  Votes do not lock the appeal, so this rests on the
\* expiry's wait for assigned rows and on a quorum that is the whole panel.
ClosedIsSealed ==
  [][(appeal \in {"resolved", "expired"}) => UNCHANGED <<appeal, vote, adj, outcome>>]_appealsVars

\* The outcome row tells the panel's decision as the votes give it, once the events are handled:
\* editors are asked to adjudicate exactly what the panel decided.  Excepted are appeals with a
\* reviewer whose training was withdrawn without a suspension: no event re-evaluates those.
OutcomeFollowsVotes ==
  /\ appeal = "open" /\ demoted = {}
  /\ \A p \in People : {VoteLocked(p), Suspended(p)} \cap queue = {}
  => outcome.panel = PanelDecision

\* Every appeal is closed in the end, by resolution or expiry, even if nobody votes, the pool is
\* too small or a step is repeated; unless the workflow itself failed, which a repeated
\* assignment does that meets a panel with an empty seat.
EveryAppealCloses == appeal = "open" ~> (appeal # "open" \/ wf.pc = "failed")

=============================================================================
