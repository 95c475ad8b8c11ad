------------------------------ MODULE OfficeBoard ------------------------------
(***************************************************************************)
(* One office task whose stored record changes only by the transitions of  *)
(* transitions.ts, each applied atomically: what the conditional writes of *)
(* TechnoQueue (packages/core/src/queue.ts) promise to everybody who looks *)
(* at the task.  Employees take, complete, review or fail a step; the boss *)
(* approves, rejects or retries (PATCH tasks/[taskId]); the order between  *)
(* them is arbitrary.  OfficeRuntime has the processes that produce these  *)
(* steps, with everything that happens between a read and its write.       *)
(*                                                                         *)
(* Time is nondeterministic: whether a retry is due or a lease has lapsed, *)
(* and whether an employee's row has a last error, is chosen at each step. *)
(***************************************************************************)
EXTENDS OfficeTask

CONSTANTS
  MaxFaults,  \* bound: provider failures in one behaviour
  MaxManual   \* bound: retries of a waiting task by the boss in one behaviour

ASSUME BoundsAssumption == MaxFaults \in Nat /\ MaxManual \in Nat

VARIABLES
  task,    \* the record in the key-value store
  faults,  \* provider failures so far (only to bound them)
  manual   \* boss retries of a waiting task so far (only to bound them)

vars == <<task, faults, manual>>

TypeOK ==
  /\ task.plan \in Plans
  /\ task \in Task(task.plan)
  /\ faults \in Nat
  /\ manual \in Nat

Init ==
  /\ task \in {NewOfficeTask(plan) : plan \in Plans}
  /\ faults = 0
  /\ manual = 0

-----------------------------------------------------------------------------
(* Employees, through the scheduler *)

\* queue.claimOffice or queue.resumeOffice.
PickUp(a) ==
  \E due, lapsed, erred \in BOOLEAN :
    /\ CanTake(task, a, due, lapsed, erred)
    /\ task' = Take(task, a, erred)
    /\ UNCHANGED <<faults, manual>>

\* queue.completeOffice.
Complete(a) ==
  /\ CanCompleteOfficeWork(task, a)
  /\ task' = CompleteOfficeWork(task)
  /\ UNCHANGED <<faults, manual>>

\* queue.finishOfficeReview.
Approve(a) ==
  /\ CanFinishOfficeReview(task, a)
  /\ task' = ApproveResult(task)
  /\ UNCHANGED <<faults, manual>>

Return(a) ==
  /\ CanFinishOfficeReview(task, a)
  /\ task' = ReturnResult(task)
  /\ Parses(task')
  /\ UNCHANGED <<faults, manual>>

\* queue.waitOffice: a coder's step waits for the local runner.  Nothing is
\* written when the task waits already.
WaitForRunner(a) ==
  /\ Current(task).local
  /\ \E due, lapsed, erred \in BOOLEAN : Eligible(task, a, due, lapsed, erred)
  /\ task.paper_route.state # "waiting"
  /\ task' = MarkOfficeWaiting(task)
  /\ UNCHANGED <<faults, manual>>

\* queue.deferOffice, which asks neither who holds the step nor who failed.
Fail(retryable) ==
  /\ faults < MaxFaults
  /\ CanDeferOfficeStep(task)
  /\ task' = DeferOfficeStep(task, retryable)
  /\ Parses(task')
  /\ faults' = faults + 1
  /\ UNCHANGED manual

-----------------------------------------------------------------------------
(* The boss *)

ApproveCheckpoint(i) ==
  /\ AwaitsApproval(task, i)
  /\ task' = ApproveOfficeCheckpoint(task, i)
  /\ UNCHANGED <<faults, manual>>

RejectCheckpoint(i) ==
  /\ CanRejectCheckpoint(task, i)
  /\ task' = RejectOfficeCheckpoint(task, i)
  /\ Parses(task')
  /\ UNCHANGED <<faults, manual>>

\* A waiting task can be retried again and again; the others wait for a failure.
Retry ==
  /\ CanRecoverOfficeTask(task)
  /\ task' = RecoverOfficeTask(task)
  /\ IF task.paper_route.state = "waiting"
       THEN manual < MaxManual /\ manual' = manual + 1
       ELSE UNCHANGED manual
  /\ UNCHANGED faults

-----------------------------------------------------------------------------
Employee(a) == PickUp(a) \/ Complete(a) \/ Approve(a) \/ Return(a) \/ WaitForRunner(a)

Next ==
  \/ \E a \in Agents : Employee(a)
  \/ \E retryable \in BOOLEAN : Fail(retryable)
  \/ \E i \in DOMAIN task.steps : ApproveCheckpoint(i) \/ RejectCheckpoint(i)
  \/ Retry

Spec == Init /\ [][Next]_vars

(***************************************************************************)
(* Fairness.  The scheduler ticks every few seconds (background-runtime)   *)
(* and offers every eligible step to its employee, and a provider call     *)
(* ends: an employee's step that stays possible is taken.  WaitForRunner   *)
(* is not fair: the runner's answer is outside.                            *)
(***************************************************************************)
SchedulerFairness ==
  \A a \in Agents :
    /\ WF_vars(PickUp(a))
    /\ WF_vars(Complete(a))
    /\ WF_vars(Approve(a) \/ Return(a))

\* A boss who eventually answers a checkpoint and eventually retries what stopped.
BossFairness ==
  /\ WF_vars(\E i \in DOMAIN task.steps : ApproveCheckpoint(i) \/ RejectCheckpoint(i))
  /\ WF_vars(Retry)

AttendedSpec == Spec /\ SchedulerFairness /\ BossFairness
-----------------------------------------------------------------------------
(***************************************************************************)
(* Properties                                                              *)
(***************************************************************************)

Stage(i) == task.plan.steps[i].stage
StatusOf(i) == task.steps[i].status

\* The paper never passes a desk that has not finished: when the task is at
\* some stage, every step of an earlier stage is done and every step of a later
\* one is untouched (finishStage, finishOfficeReview, the boss's decisions).
StagesInOrder ==
  \A i \in DOMAIN task.steps :
    /\ Stage(i) < Stage(task.current_step) => StatusOf(i) = "done"
    /\ Stage(i) > Stage(task.current_step) => StatusOf(i) = "pending"

\* A task is done only when every step is, and a route with a reviewer only
\* with the reviewer's approval.
DoneIsComplete ==
  task.status = "done" =>
    /\ \A i \in DOMAIN task.steps : StatusOf(i) = "done"
    /\ (\E i \in DOMAIN task.steps : task.plan.steps[i].kind = "review")
         => task.review_decision = "approved"

\* The two places that say who works agree: a running task, or a review that
\* somebody holds, is held by the employee of its current step, which is
\* running; and a running step is the current one, of a task held or failed.
HolderMatchesStep ==
  /\ task.status = "running" =>
       /\ task.worker_did = Current(task).agent
       /\ StatusOf(task.current_step) = "running"
  /\ (task.status = "review" /\ task.reviewer_did # None) =>
       /\ task.reviewer_did = Current(task).agent
       /\ StatusOf(task.current_step) = "running"
  /\ \A i \in DOMAIN task.steps : StatusOf(i) = "running" =>
       /\ i = task.current_step
       /\ task.status \in {"running", "review", "failed"}

\* A step is sent back at most once more than its allowance, and that once
\* stops the task with the revision limit (README, workflow controls).
RevisionsWithinAllowance ==
  \A i \in DOMAIN task.steps :
    \/ task.steps[i].revision_count <= task.plan.steps[i].max_revisions
    \/ /\ task.steps[i].revision_count = task.plan.steps[i].max_revisions + 1
       /\ task.status = "failed" /\ task.paper_route.error_code = "REVISION_LIMIT"

\* "The workflow revision limit is final" (recoverOfficeTask): a task stopped
\* by it never changes again, whoever still holds or answers something.
RevisionLimitFinal ==
  [][task.paper_route.error_code = "REVISION_LIMIT" => UNCHANGED task]_vars

\* The hand-off an employee is prompted with (task.result in workPrompt) is
\* exactly what the desks of the previous stage last produced.
HandoffIsPriorStage ==
  StatusOf(task.current_step) \in {"pending", "running", "changes_requested"} =>
    task.result = StageOutput(task.plan, task.steps, Stage(task.current_step) - 1)

\* The same, on routes without a boss checkpoint.
PlainHandoffIsPriorStage == NoCheckpoints(task.plan) => HandoffIsPriorStage

\* What the scheduler's filter offers to an employee (runWorkspace), the
\* transition accepts: claimOfficeStep and resumeOfficeStep never throw there.
OfferedIsClaimable ==
  \A a \in Agents, due, lapsed, erred \in BOOLEAN :
    Eligible(task, a, due, lapsed, erred) => CanTake(task, a, due, lapsed, erred)

\* "stops the task visibly instead of creating an infinite review loop"
\* (README): with a boss who answers, every task ends, done or at the limit.
Settles == <>[](task.status = "done" \/ task.paper_route.error_code = "REVISION_LIMIT")

-----------------------------------------------------------------------------
(***************************************************************************)
(* The inductive invariant behind them, on routes whose checkpoints stand  *)
(* alone in their stage: besides the properties above,                     *)
(*  - only the current step waits for the boss;                            *)
(*  - a task stopped by the revision limit is out of everybody's reach;    *)
(*  - when a reviewer has the task, the current step is the review.        *)
(***************************************************************************)
AwaitingIsCurrent ==
  \A i \in DOMAIN task.steps : StatusOf(i) = "awaiting_approval" => i = task.current_step

LimitStops ==
  task.paper_route.error_code = "REVISION_LIMIT" =>
    /\ task.status = "failed"
    /\ task.paper_route.state = "exhausted"
    /\ StatusOf(task.current_step) = "changes_requested"

DoneSteps == task.status = "done" => \A i \in DOMAIN task.steps : StatusOf(i) = "done"

\* Everything the proofs carry from step to step: the order of the desks, the
\* holder, the boss's checkpoints and the revision limit hold together.
Orderly ==
  /\ StagesInOrder
  /\ HolderMatchesStep
  /\ AwaitingIsCurrent
  /\ LimitStops
  /\ DoneSteps
  /\ RevisionsWithinAllowance

\* A desk that has finished left an output; only a checkpoint waits for the boss; nobody
\* works on an open task; an ended step is the end of the task.
DesksAccounted ==
  /\ task.status = "running" => task.attempt > 0
  /\ task.status = "open" => task.worker_did = None
  /\ \A i \in DOMAIN task.steps :
       /\ StatusOf(i) = "awaiting_approval" => task.plan.steps[i].requires_approval
       /\ (StatusOf(i) \in {"awaiting_approval", "done"} /\ task.plan.steps[i].kind = "work")
            => task.steps[i].output # 0
  /\ StatusOf(task.current_step) = "done" => task.status = "done" /\ task.paper_route.state = "ready"

\* The paper: behind the first stage, and before the boss, it is not empty.
PaperCarried ==
  /\ DesksAccounted
  /\ (Stage(task.current_step) > 0 \/ StatusOf(task.current_step) = "awaiting_approval") => task.result # {}
  /\ PlainHandoffIsPriorStage
==============================================================================
