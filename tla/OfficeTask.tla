------------------------------ MODULE OfficeTask ------------------------------
(***************************************************************************)
(* The hosted office task and its transitions                              *)
(* (packages/core/src/task.ts, office.ts, transitions.ts).                 *)
(*                                                                         *)
(* A task is a record; a transition of transitions.ts is a pair: the guard *)
(* under which it does not throw (Can...) and the record it returns.  The  *)
(* module has no variables: OfficeBoard applies the transitions to one     *)
(* task atomically, OfficeRuntime through the scheduler, the key-value     *)
(* store and the trust anchor.                                             *)
(*                                                                         *)
(* Data kept abstract:                                                     *)
(*  - an output is the number of the attempt that produced it (0 is null)  *)
(*    and task.result is the set of <<step, output>> pairs it is made of;  *)
(*    truncation and the layout of a hand-off are left out;                *)
(*  - a lease or a retry time is TRUE when set and FALSE when null; whether*)
(*    it lies in the past is decided by the clock, which is a parameter    *)
(*    (lapsed, due) of the operators that look at it;                      *)
(*  - texts (prompt, feedback, reasons, previous_result) are left out.     *)
(*                                                                         *)
(* The part of a task fixed at creation (the route and the retry policy,   *)
(* bound by the contract digest) is the field plan.  Steps count from 1.   *)
(***************************************************************************)
EXTENDS Integers, FiniteSets

CONSTANTS
  Agents,            \* hosted employees (agent_id and agent_did are one name)
  None,              \* a null DID
  Plans,             \* the workflows a task may be created with
  MaxRevisionCount,  \* officeTaskStepSchema: revision_count at most 6
  MaxRetryCount      \* paperRouteSchema: retry_count at most 8

-----------------------------------------------------------------------------
(***************************************************************************)
(* Records                                                                 *)
(***************************************************************************)

Statuses == {"open", "running", "review", "done", "failed"}

RouteStates == {"ready", "working", "waiting", "retrying", "blocked", "exhausted"}

StepStatuses == {"pending", "running", "awaiting_approval", "done", "changes_requested"}

\* A mutant: a returned step is not picked up again.
RunnableIfNew == {"pending"}

\* A step that may be picked up.
Runnable == {"pending", "changes_requested"}

\* error_code: null, one of the provider codes, or the revision limit.
ErrorCodes == {"none", "provider", "REVISION_LIMIT"}

PaperRoute ==
  [state : RouteStates, retry_count : Nat, next_retry_at : BOOLEAN, error_code : ErrorCodes]

StepState == [status : StepStatuses, revision_count : Nat, output : Nat]

\* What a step is, as the workflow fixed it. local: a coder's step of a task
\* with a local project, whose work goes through the runner.
StepPlan ==
  [agent : Agents, kind : {"work", "review"}, stage : Nat, merge : BOOLEAN,
   requires_approval : BOOLEAN, max_revisions : Nat, local : BOOLEAN]

Task(plan) ==
  [plan : {plan},
   status : Statuses,
   attempt : Nat,
   worker_did : Agents \union {None},
   worker_lease_until : BOOLEAN,
   reviewer_did : Agents \union {None},
   reviewer_lease_until : BOOLEAN,
   review_decision : {"none", "approved", "changes_requested"},
   result : SUBSET ((DOMAIN plan.steps) \X Nat),
   paper_route : PaperRoute,
   current_step : DOMAIN plan.steps,
   steps : [DOMAIN plan.steps -> StepState]]

-----------------------------------------------------------------------------
(***************************************************************************)
(* Workflows                                                               *)
(***************************************************************************)

Members(plan, stage) == {i \in DOMAIN plan.steps : plan.steps[i].stage = stage}

\* validateWorkflow. rejection_target_step = 0 is null.
ValidWorkflow(plan) ==
  LET S == DOMAIN plan.steps
      n == Cardinality(S)
  IN  /\ n \in 1..5 /\ S = 1..n
      /\ plan.steps[1].kind = "work" /\ plan.steps[1].stage = 0
      /\ \A i \in S \ {1} :
           plan.steps[i].stage \in {plan.steps[i-1].stage, plan.steps[i-1].stage + 1}
      /\ \A i \in S : plan.steps[i].kind = "review" =>
           /\ i = n
           /\ ~plan.steps[i].merge /\ ~plan.steps[i].requires_approval
      /\ \A i, j \in S : (i # j /\ plan.steps[i].stage = plan.steps[j].stage) =>
           /\ plan.steps[i].kind = "work" /\ ~plan.steps[i].merge
           /\ \E m \in S :
                /\ Members(plan, plan.steps[i].stage + 1) = {m}
                /\ plan.steps[m].merge /\ plan.steps[m].kind = "work"
      /\ \A i \in S :
           /\ Cardinality(Members(plan, plan.steps[i].stage)) <= 3
           /\ plan.steps[i].merge => Cardinality(Members(plan, plan.steps[i].stage - 1)) >= 2
      /\ plan.rejection_target_step # 0 =>
           /\ plan.rejection_target_step \in S
           /\ plan.steps[plan.rejection_target_step].kind = "work"
           /\ plan.steps[n].kind = "review"
           /\ plan.rejection_target_step < n

ASSUME PlansAssumption ==
  \A plan \in Plans :
    /\ plan.steps \in [DOMAIN plan.steps -> StepPlan]
    /\ ValidWorkflow(plan)
    /\ plan.max_retries \in Nat \ {0}

ASSUME TaskAssumption ==
  /\ None \notin Agents
  /\ MaxRevisionCount \in Nat /\ MaxRetryCount \in Nat

\* No branch of a parallel stage is a boss checkpoint.
CheckpointsAlone(plan) ==
  \A i \in DOMAIN plan.steps :
    plan.steps[i].requires_approval => Members(plan, plan.steps[i].stage) = {i}

\* No step is a boss checkpoint.
NoCheckpoints(plan) == \A i \in DOMAIN plan.steps : ~plan.steps[i].requires_approval

\* createOfficeTask on a valid workflow whose employees are all available.
NewOfficeTask(plan) ==
  [plan |-> plan,
   status |-> "open",
   attempt |-> 0,
   worker_did |-> None, worker_lease_until |-> FALSE,
   reviewer_did |-> None, reviewer_lease_until |-> FALSE,
   review_decision |-> "none",
   result |-> {},
   paper_route |-> [state |-> "ready", retry_count |-> 0,
                    next_retry_at |-> FALSE, error_code |-> "none"],
   current_step |-> 1,
   steps |-> [i \in DOMAIN plan.steps |->
                [status |-> "pending", revision_count |-> 0, output |-> 0]]]

-----------------------------------------------------------------------------
(***************************************************************************)
(* Helpers of transitions.ts                                               *)
(***************************************************************************)

ActivePaperRoute(route) ==
  [route EXCEPT !.state = "working", !.next_retry_at = FALSE, !.error_code = "none"]

ReadyPaperRoute(route) ==
  [route EXCEPT !.state = "ready", !.retry_count = 0,
                !.next_retry_at = FALSE, !.error_code = "none"]

RevisionLimitRoute(route) ==
  [route EXCEPT !.state = "exhausted", !.next_retry_at = FALSE, !.error_code = "REVISION_LIMIT"]

\* A mutant: an index counted from zero.
FirstFromZero(S) == (CHOOSE i \in S : \A j \in S : i <= j) - 1

\* The first index with some property, find and findIndex of the source.
First(S) == CHOOSE i \in S : \A j \in S : i <= j

\* stageOutput: the labelled outputs of a stage.
StageOutput(plan, steps, stage) ==
  {<<i, steps[i].output>> : i \in {j \in Members(plan, stage) : steps[j].output # 0}}

\* Nobody holds the task any more.
Unassigned(t) ==
  [t EXCEPT !.worker_did = None, !.worker_lease_until = FALSE,
            !.reviewer_did = None, !.reviewer_lease_until = FALSE]

Current(t) == t.plan.steps[t.current_step]

\* taskSchema.parse: the counters must fit; a transition whose record does not
\* parse throws and changes nothing.
Parses(t) ==
  /\ t.paper_route.retry_count <= MaxRetryCount
  /\ \A i \in DOMAIN t.steps : t.steps[i].revision_count <= MaxRevisionCount

-----------------------------------------------------------------------------
(***************************************************************************)
(* finishStage: step i has been completed or approved; who is next?        *)
(*   - a branch of the same stage not yet started, or returned;            *)
(*   - otherwise a branch waiting for the boss;                            *)
(*   - otherwise the first step of the next stage, or nobody.              *)
(* Branches in status "running" are not looked at.                         *)
(***************************************************************************)

FinishStage(t, steps, i) ==
  LET stage    == t.plan.steps[i].stage
      members  == Members(t.plan, stage)
      runnable == {j \in members : steps[j].status \in Runnable}
      awaiting == {j \in members : steps[j].status = "awaiting_approval"}
      later    == {j \in DOMAIN t.plan.steps : t.plan.steps[j].stage > stage}
      outputs  == StageOutput(t.plan, steps, stage)
      result   == IF members # {i} /\ outputs # {} THEN outputs ELSE t.result
      freed    == [Unassigned(t) EXCEPT !.steps = steps, !.paper_route = ReadyPaperRoute(@)]
  IN  CASE runnable # {} ->
             [freed EXCEPT !.status = "open", !.current_step = First(runnable)]
        [] runnable = {} /\ awaiting # {} ->
             [freed EXCEPT !.status = "open", !.current_step = First(awaiting),
                           !.paper_route.state = "waiting"]
        [] runnable = {} /\ awaiting = {} /\ later = {} ->
             [freed EXCEPT !.status = "done", !.current_step = i, !.result = result]
        [] runnable = {} /\ awaiting = {} /\ later # {} ->
             [freed EXCEPT !.status = IF t.plan.steps[First(later)].kind = "review"
                                        THEN "review" ELSE "open",
                           !.current_step = First(later), !.result = result,
                           !.review_decision = "none"]

-----------------------------------------------------------------------------
(***************************************************************************)
(* Claiming a step                                                         *)
(***************************************************************************)

\* The filter of runWorkspace: may the scheduler give task t to employee a?
\* due: the retry time has come; lapsed: the lease that is set lies in the
\* past; erred: a's row has a last_error.
Eligible(t, a, due, lapsed, erred) ==
  LET s == t.steps[t.current_step] IN
  /\ Current(t).agent = a
  /\ s.status \in Runnable
  /\ t.paper_route.state \notin {"blocked", "exhausted"}
  /\ (t.paper_route.state = "retrying" /\ t.paper_route.next_retry_at) => due
  /\ \/ /\ Current(t).kind = "review" /\ t.status = "review"
        /\ \/ t.reviewer_did = None
           \/ t.reviewer_lease_until /\ lapsed
           \/ erred /\ t.reviewer_did = a
     \/ /\ Current(t).kind = "work"
        /\ \/ t.status = "open"
           \/ /\ t.status = "running"
              /\ \/ t.worker_lease_until /\ lapsed
                 \/ erred /\ t.worker_did = a

CanClaimForReview(t, lapsed) ==
  /\ t.status = "review"
  /\ t.reviewer_did = None \/ (t.reviewer_lease_until /\ lapsed)
  /\ t.result # {}

CanClaimOfficeStep(t, a, lapsed) ==
  /\ Current(t).agent = a
  /\ t.steps[t.current_step].status \in Runnable
  /\ Current(t).kind = "review" => CanClaimForReview(t, lapsed)

ClaimForReview(t, a) ==
  [t EXCEPT !.reviewer_did = a, !.reviewer_lease_until = TRUE,
            !.paper_route = ActivePaperRoute(@)]

ClaimForOfficeWork(t, a) ==
  [t EXCEPT !.status = "running", !.attempt = @ + 1,
            !.worker_did = a, !.worker_lease_until = TRUE,
            !.reviewer_did = None, !.reviewer_lease_until = FALSE,
            !.review_decision = "none", !.paper_route = ActivePaperRoute(@)]

\* A mutant: the task is claimed, its step is not.
ClaimTaskOnly(t, a) ==
  IF Current(t).kind = "review" THEN ClaimForReview(t, a) ELSE ClaimForOfficeWork(t, a)

ClaimOfficeStep(t, a) ==
  LET claimed == IF Current(t).kind = "review" THEN ClaimForReview(t, a)
                                               ELSE ClaimForOfficeWork(t, a)
  IN  [claimed EXCEPT !.steps[t.current_step].status = "running"]

\* resumeFailedClaim of runWorkspace, and resumeOfficeStep.
ResumesFailedClaim(t, a, erred) ==
  /\ t.paper_route.state = "retrying" /\ erred
  /\ IF Current(t).kind = "review" THEN t.reviewer_did = a ELSE t.worker_did = a

CanResumeOfficeStep(t, a, due) ==
  /\ t.paper_route.state = "retrying"
  /\ t.paper_route.next_retry_at => due
  /\ Current(t).agent = a
  /\ \/ Current(t).kind = "review" /\ t.status = "review" /\ t.reviewer_did = a
     \/ Current(t).kind = "work" /\ t.status = "running" /\ t.worker_did = a

ResumeOfficeStep(t) ==
  [t EXCEPT !.worker_lease_until = @ \/ Current(t).kind = "work",
            !.reviewer_lease_until = @ \/ Current(t).kind = "review",
            !.paper_route = ActivePaperRoute(@)]

\* What the scheduler does with an eligible task: resume or claim.
CanTake(t, a, due, lapsed, erred) ==
  /\ Eligible(t, a, due, lapsed, erred)
  /\ IF ResumesFailedClaim(t, a, erred) THEN CanResumeOfficeStep(t, a, due)
                                        ELSE CanClaimOfficeStep(t, a, lapsed)

Take(t, a, erred) ==
  IF ResumesFailedClaim(t, a, erred) THEN ResumeOfficeStep(t) ELSE ClaimOfficeStep(t, a)

-----------------------------------------------------------------------------
(***************************************************************************)
(* Finishing a step                                                        *)
(***************************************************************************)

CanCompleteOfficeWork(t, a) ==
  /\ Current(t).kind = "work" /\ Current(t).agent = a
  /\ t.status = "running" /\ t.worker_did = a

\* A mutant: every branch of a parallel stage replaces the result.
CompleteReplacesResult(t) ==
  LET i == t.current_step IN
  FinishStage([t EXCEPT !.result = {<<i, t.attempt>>}],
              [t.steps EXCEPT
                 ![i].status = IF Current(t).requires_approval THEN "awaiting_approval" ELSE "done",
                 ![i].output = t.attempt],
              i)

\* The output is the number of the attempt; only a step alone in its stage
\* replaces the task's result at once.
CompleteOfficeWork(t) ==
  LET i     == t.current_step
      steps == [t.steps EXCEPT
                  ![i].status = IF Current(t).requires_approval THEN "awaiting_approval" ELSE "done",
                  ![i].output = t.attempt]
      alone == Members(t.plan, Current(t).stage) = {i}
  IN  FinishStage([t EXCEPT !.result = IF alone THEN {<<i, t.attempt>>} ELSE @], steps, i)

CanFinishOfficeReview(t, a) ==
  /\ Current(t).kind = "review" /\ Current(t).agent = a
  /\ t.status = "review" /\ t.reviewer_did = a
  /\ t.result # {}

\* A mutant: the review itself stays unfinished.
ApproveTaskOnly(t) ==
  [t EXCEPT !.status = "done", !.reviewer_lease_until = FALSE, !.review_decision = "approved",
            !.paper_route = ReadyPaperRoute(@)]

ApproveResult(t) ==
  [t EXCEPT !.status = "done", !.reviewer_lease_until = FALSE, !.review_decision = "approved",
            !.paper_route = ReadyPaperRoute(@), !.steps[t.current_step].status = "done"]

\* The step a rejection goes to: the configured one, else the last work step
\* before the review.
RejectionTarget(t) ==
  IF t.plan.rejection_target_step # 0
    THEN t.plan.rejection_target_step
    ELSE CHOOSE i \in DOMAIN t.steps :
           /\ i < t.current_step /\ t.plan.steps[i].kind = "work"
           /\ \A j \in DOMAIN t.steps : (i < j /\ j < t.current_step) => t.plan.steps[j].kind # "work"

\* A mutant: one revision more.
ExhaustsLate(t, i) == t.steps[i].revision_count > t.plan.steps[i].max_revisions

\* Is one more revision of step i beyond its allowance?
Exhausts(t, i) == t.steps[i].revision_count + 1 > t.plan.steps[i].max_revisions

\* A mutant: what came after the target is kept.
ReturnedStepsKeepLater(t, target) ==
  [i \in DOMAIN t.steps |->
     CASE i = t.current_step ->
            [t.steps[i] EXCEPT !.status = "pending", !.output = 0]
       [] i = target /\ i # t.current_step ->
            [t.steps[i] EXCEPT !.status = "changes_requested", !.revision_count = @ + 1]
       [] OTHER -> t.steps[i]]

\* The steps after a review returned the task to step target.
ReturnedSteps(t, target) ==
  [i \in DOMAIN t.steps |->
     CASE i = t.current_step ->
            [t.steps[i] EXCEPT !.status = "pending", !.output = 0]
       [] i = target /\ i # t.current_step ->
            [t.steps[i] EXCEPT !.status = "changes_requested", !.revision_count = @ + 1]
       [] i \notin {target, t.current_step} /\ t.plan.steps[i].stage > t.plan.steps[target].stage ->
            [t.steps[i] EXCEPT !.status = "pending", !.output = 0]
       [] OTHER -> t.steps[i]]

ReturnResult(t) ==
  LET target == RejectionTarget(t)
      steps  == ReturnedSteps(t, target)
      over   == Exhausts(t, target)
  IN  [t EXCEPT !.status = IF over THEN "failed" ELSE "open",
                !.worker_did = IF over THEN @ ELSE None,
                !.worker_lease_until = FALSE, !.reviewer_lease_until = FALSE,
                !.review_decision = "changes_requested",
                !.result = StageOutput(t.plan, steps, t.plan.steps[target].stage - 1),
                !.paper_route = IF over THEN RevisionLimitRoute(@) ELSE ReadyPaperRoute(@),
                !.current_step = target, !.steps = steps]

-----------------------------------------------------------------------------
(***************************************************************************)
(* The boss: checkpoints and recovery                                      *)
(***************************************************************************)

AwaitsApproval(t, i) == t.steps[i].status = "awaiting_approval"

CanRejectCheckpoint(t, i) == AwaitsApproval(t, i) /\ t.plan.steps[i].kind = "work"

ApproveOfficeCheckpoint(t, i) ==
  FinishStage(t, [t.steps EXCEPT ![i].status = "done"], i)

RejectOfficeCheckpoint(t, i) ==
  LET over == Exhausts(t, i)
  IN  [Unassigned(t) EXCEPT
         !.status = IF over THEN "failed" ELSE "open",
         !.paper_route = IF over THEN RevisionLimitRoute(@) ELSE ReadyPaperRoute(@),
         !.current_step = i,
         !.steps[i].status = "changes_requested",
         !.steps[i].revision_count = @ + 1]

\* A mutant: the revision limit is not looked at.
CanRecoverAnyStop(t) ==
  t.paper_route.state \in {"waiting", "retrying", "blocked", "exhausted"}

CanRecoverOfficeTask(t) ==
  /\ t.paper_route.state \in {"waiting", "retrying", "blocked", "exhausted"}
  /\ t.paper_route.error_code # "REVISION_LIMIT"

\* A mutant: the reviewer keeps the task.
RecoverKeepsReviewer(t) ==
  [t EXCEPT !.status = IF Current(t).kind = "review" THEN "review" ELSE "open",
            !.worker_did = IF Current(t).kind = "work" THEN None ELSE @,
            !.worker_lease_until = FALSE, !.reviewer_lease_until = FALSE,
            !.paper_route = ReadyPaperRoute(@),
            !.steps[t.current_step].status =
               IF @ = "changes_requested" THEN "changes_requested" ELSE "pending"]

RecoverOfficeTask(t) ==
  [t EXCEPT !.status = IF Current(t).kind = "review" THEN "review" ELSE "open",
            !.worker_did = IF Current(t).kind = "work" THEN None ELSE @,
            !.worker_lease_until = FALSE,
            !.reviewer_did = None, !.reviewer_lease_until = FALSE,
            !.paper_route = ReadyPaperRoute(@),
            !.steps[t.current_step].status =
               IF @ = "changes_requested" THEN "changes_requested" ELSE "pending"]

-----------------------------------------------------------------------------
(***************************************************************************)
(* Failures and waiting                                                    *)
(***************************************************************************)

\* A mutant: a stopped task may fail again.
CanDeferStopped(t) == t.status # "done"

CanDeferOfficeStep(t) == t.status \notin {"done", "failed"}

\* The attempts at the route are counted on the whole task; the step keeps its
\* status.
DeferOfficeStep(t, retryable) ==
  LET count == t.paper_route.retry_count + 1
      over  == retryable /\ count >= t.plan.max_retries
  IN  [t EXCEPT !.status = IF over THEN "failed" ELSE @,
                !.worker_lease_until = FALSE, !.reviewer_lease_until = FALSE,
                !.paper_route = [state |-> IF over THEN "exhausted"
                                           ELSE IF retryable THEN "retrying" ELSE "blocked",
                                 retry_count |-> count,
                                 next_retry_at |-> retryable /\ ~over,
                                 error_code |-> "provider"]]

MarkOfficeWaiting(t) ==
  [t EXCEPT !.paper_route.state = "waiting", !.paper_route.next_retry_at = FALSE,
            !.paper_route.error_code = "none"]
==============================================================================
