---------------------------- MODULE ManualReview ----------------------------
(***************************************************************************)
(* Generation tasks together with the moderators who decide what has been  *)
(* put up for review.  A review is claimed by one of them; deciding it     *)
(* reads the claimed review first and then updates the task, its results,  *)
(* the credits and the review in one transaction, none of whose updates    *)
(* depends on what the task has become in the meantime.                    *)
(***************************************************************************)
EXTENDS GenerationTask

CONSTANTS
  Decisions,      (* Requests of moderators that decide a review.         *)
  Judgements      (* What a moderator may decide.                         *)

ASSUME ReviewAssumption == Judgements \subseteq {"approved", "rejected"}

VARIABLE
  decision        (* decision[d]: the step of decideReview() d is at.     *)

reviewVars == <<vars, decision>>

IdleDecision == [pc |-> "idle", task |-> None, review |-> 0, verdict |-> "none"]

ReviewInit == Init /\ decision = [d \in Decisions |-> IdleDecision]

-----------------------------------------------------------------------------
(* Only an open review can be claimed.                                     *)
ClaimReview(t, i) ==
  /\ reviews[t][i].status = "open"
  /\ reviews' = [reviews EXCEPT ![t][i].status = "claimed"]
  /\ UNCHANGED <<sessionVars, status, attempts, attemptKey, hasJobId, results,
                 quotaVars, job, worker, api, decision>>

ReadReview(d, t, i) ==
  /\ decision[d].pc = "idle"
  /\ reviews[t][i].status = "claimed"
  /\ \E v \in Judgements :
       decision' = [decision EXCEPT ![d] =
                      [pc |-> "commit", task |-> t, review |-> i, verdict |-> v]]
  /\ UNCHANGED vars

(* Mutant: one image approved is a success in part.                        *)
OutcomeInPart(stage, v) ==
  CASE v = "rejected"                     -> "failed"
    [] v = "approved" /\ stage = "input"  -> "queued"
    [] v = "approved" /\ stage = "output" -> "partially_succeeded"

(* The status that deciding a review of this stage gives its task. *)
Outcome(stage, v) ==
  CASE v = "rejected"                     -> "failed"
    [] v = "approved" /\ stage = "input"  -> "queued"
    [] v = "approved" /\ stage = "output" -> "succeeded"

MarkDecided(t, i, v) == reviews' = [reviews EXCEPT ![t][i].status = v]

(* All pending images of the task are decided alike, and an image whose    *)
(* object is kept must not be marked rejected: the database refuses that.  *)
CommitDecision(d) ==
  LET t == decision[d].task
      i == decision[d].review
      v == decision[d].verdict
      stage == reviews[t][i].stage
      st == Outcome(stage, v)
  IN
  /\ decision[d].pc = "commit"
  /\ i \in DOMAIN reviews[t]
  /\ ~ (stage = "output" /\ v = "rejected" /\ results[t] = "pending")
  /\ st \in Terminal => CanSettle(t)
  /\ status' = [status EXCEPT ![t] = st]
  /\ results' = IF stage = "output" /\ results[t] = "pending"
                THEN [results EXCEPT ![t] = v]
                ELSE results
  /\ MarkDecided(t, i, v)
  /\ CASE st = "failed"    -> Released(t, "manual-release")
       [] st = "succeeded" -> Consumed(t)
       [] OTHER            -> UNCHANGED quotaVars
  /\ decision' = [decision EXCEPT ![d] =
                    IF st = "queued" THEN [@ EXCEPT !.pc = "enqueue"] ELSE IdleDecision]
  /\ UNCHANGED <<sessionVars, attempts, attemptKey, hasJobId, job, worker, api>>

(* The transaction is refused, or its rows have gone. *)
AbortDecision(d) ==
  LET t == decision[d].task
      i == decision[d].review
      v == decision[d].verdict
      gone == i \notin DOMAIN reviews[t]
      stage == reviews[t][i].stage
  IN
  /\ decision[d].pc = "commit"
  /\ \/ gone
     \/ ~gone /\ stage = "output" /\ v = "rejected" /\ results[t] = "pending"
     \/ ~gone /\ Outcome(stage, v) \in Terminal /\ ~CanSettle(t)
     \/ "db" \in Faults
  /\ decision' = [decision EXCEPT ![d] = IdleDecision]
  /\ UNCHANGED vars

(* An approved prompt goes back to the queue, with a retry limit of 2;     *)
(* when that fails the moderator gets an error, and nothing else happens.  *)
EnqueueApproved(d) ==
  /\ decision[d].pc = "enqueue"
  /\ AddJob(decision[d].task, 2) \/ ("queue" \in Faults /\ UNCHANGED job)
  /\ decision' = [decision EXCEPT ![d] = IdleDecision]
  /\ UNCHANGED <<sessionVars, taskVars, quotaVars, worker, api>>

DecisionLost(d) ==
  /\ "crash" \in Faults
  /\ decision[d].pc # "idle"
  /\ decision' = [decision EXCEPT ![d] = IdleDecision]
  /\ UNCHANGED vars

-----------------------------------------------------------------------------
Decide(d) == CommitDecision(d) \/ AbortDecision(d) \/ EnqueueApproved(d)

ReviewNext ==
  \/ Next /\ UNCHANGED decision
  \/ \E t \in Tasks : \E i \in DOMAIN reviews[t] :
       \/ ClaimReview(t, i)
       \/ \E d \in Decisions : ReadReview(d, t, i)
  \/ \E d \in Decisions : Decide(d) \/ DecisionLost(d)

ReviewSpec == ReviewInit /\ [][ReviewNext]_reviewVars

(* A request to decide is carried through, like the steps of GenerationTask. *)
FairReviewSpec ==
  /\ ReviewSpec
  /\ \A r \in Requests : WF_reviewVars(Finish(r) /\ UNCHANGED decision)
  /\ \A w \in Workers :
       WF_reviewVars((Process(w) \/ FinishJob(w) \/ RejectJob(w)) /\ UNCHANGED decision)
  /\ WF_reviewVars((\E w \in Workers, t \in Tasks : TakeJob(w, t)) /\ UNCHANGED decision)
  /\ \A d \in Decisions : WF_reviewVars(Decide(d))

-----------------------------------------------------------------------------
(* Properties.                                                             *)

(* The values of the requests to decide, next to those of the tasks.       *)
ReviewTypeOK ==
  /\ TypeOK
  /\ decision \in [Decisions -> {IdleDecision} \cup
                     [pc : {"commit", "enqueue"}, task : Tasks,
                      review : Nat \ {0}, verdict : Judgements]]

(* A task waiting for a review has a review that can still be decided; it  *)
(* never waits for nobody.                                                 *)
SomeoneDecides ==
  \A t \in Tasks : status[t] = "reviewing" =>
    \E i \in DOMAIN reviews[t] : reviews[t][i].status \in {"open", "claimed"}

(* Published images were paid for, whoever let them through.               *)
PublishedIsPaid ==
  \A t \in Tasks : results[t] = "approved" => "consume" \in ledger[t]

(* With moderators, too, a task's status says how it was settled: not yet, *)
(* or once, by the party that ended it.                                    *)
SettledOnceReviewed ==
  \A t \in Tasks :
    /\ status[t] \in {"queued", "generating", "reviewing"} => ledger[t] = {"reserve"}
    /\ status[t] = "succeeded" => ledger[t] = {"reserve", "consume"}
    /\ status[t] \in {"failed", "cancelled"} =>
         \E key \in SettlementKeys \ {"consume"} : ledger[t] = {"reserve", key}

(* A review leaves the hands of its moderator decided, once and for all.   *)
DecidedOnce(t) ==
  \A i \in DOMAIN reviews[t] :
    reviews[t][i].status \in {"approved", "rejected"} /\ status'[t] # "deleted"
      => reviews'[t][i] = reviews[t][i]

(* The task's state machine is kept to by moderators as well: nobody moves *)
(* a task that has ended (decideReview).  No run checks it: it does not     *)
(* hold when a cancellation overlaps the decision, see README.md.          *)
EndIsFinal ==
  [][\A t \in Tasks : status[t] \in Terminal =>
       status'[t] \in {status[t], "deleted"}]_reviewVars

(* A prompt that a moderator approved is worked on again.                  *)
ApprovedIsRun ==
  \A d \in Decisions, t \in Tasks :
    decision[d].pc = "enqueue" /\ decision[d].task = t ~> status[t] # "queued"

(* A rejected output ends its task and gives the credits back.             *)
RejectionReleases ==
  \A d \in Decisions, t \in Tasks :
    decision[d].pc = "commit" /\ decision[d].task = t /\ decision[d].verdict = "rejected"
      ~> status[t] \in {"failed", "deleted"}

(* No image is published while its own review has not been approved.       *)
PublishedIsApproved ==
  \A t \in Tasks : results[t] = "approved" =>
    \A i \in DOMAIN reviews[t] :
      reviews[t][i].stage = "output" => reviews[t][i].status = "approved"

(* Whatever is under review, somebody can decide it, and what is published *)
(* was paid for (holdForReview, claimReview, decideReview).                *)
DecidableAndPaid == SomeoneDecides /\ PublishedIsPaid

(* Tasks whose reviews are decided one at a time are settled as they end,  *)
(* in the account as in the ledger, and publish what was approved.         *)
SettledReviews == SettledOnceReviewed /\ QuotaMatchesLedger /\ PublishedIsApproved

(* A moderator moves tasks as the state machine allows, and decides once.  *)
ReviewsKeepToRules ==
  [][\A t \in Tasks : LegalMove(t) /\ DecidedOnce(t)]_reviewVars

=============================================================================
