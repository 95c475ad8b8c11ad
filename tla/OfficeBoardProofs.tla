--------------------------- MODULE OfficeBoardProofs ---------------------------
(***************************************************************************)
(* What holds of the board for every workflow, every set of employees and  *)
(* every bound.                                                            *)
(***************************************************************************)
EXTENDS OfficeBoard, OfficeTaskProofs

-----------------------------------------------------------------------------
(***************************************************************************)
(* Type correctness                                                        *)
(***************************************************************************)

\* No step of the board changes the plan of the task, and each leaves a task.
LEMMA StepKeepsTask ==
  ASSUME TypeOK, [Next]_vars
  PROVE  task' \in Task(task.plan) /\ task'.plan = task.plan
<1> DEFINE plan == task.plan
<1>1. plan \in Plans /\ task \in Task(plan)
  BY DEF TypeOK
<1>2. DOMAIN task.steps = DOMAIN plan.steps
  BY <1>1 DEF Task
<1>3. SUFFICES task' \in Task(plan)
  BY DEF Task
<1> HIDE DEF plan
<1>4. ASSUME NEW a \in Agents, PickUp(a)
      PROVE  task' \in Task(plan)
  BY <1>1, <1>4, TakeType DEF PickUp
<1>5. ASSUME NEW a \in Agents, Complete(a)
      PROVE  task' \in Task(plan)
  BY <1>1, <1>5, CompleteType DEF Complete
<1>6. ASSUME NEW a \in Agents, Approve(a)
      PROVE  task' \in Task(plan)
  BY <1>1, <1>6, ApproveType DEF Approve
<1>7. ASSUME NEW a \in Agents, Return(a)
      PROVE  task' \in Task(plan)
  BY <1>1, <1>7, ReturnType DEF Return, CanFinishOfficeReview
<1>8. ASSUME NEW a \in Agents, WaitForRunner(a)
      PROVE  task' \in Task(plan)
  BY <1>1, <1>8, WaitingType DEF WaitForRunner
<1>9. ASSUME NEW retryable \in BOOLEAN, Fail(retryable)
      PROVE  task' \in Task(plan)
  BY <1>1, <1>9, DeferType DEF Fail
<1>10. ASSUME NEW i \in DOMAIN task.steps, ApproveCheckpoint(i)
       PROVE  task' \in Task(plan)
  BY <1>1, <1>2, <1>10, ApproveCheckpointType DEF ApproveCheckpoint
<1>11. ASSUME NEW i \in DOMAIN task.steps, RejectCheckpoint(i)
       PROVE  task' \in Task(plan)
  BY <1>1, <1>2, <1>11, RejectCheckpointType DEF RejectCheckpoint
<1>12. CASE Retry
  BY <1>1, <1>12, RecoverType DEF Retry
<1>13. CASE UNCHANGED vars
  BY <1>1, <1>13 DEF vars
<1>14. QED
  BY <1>4, <1>5, <1>6, <1>7, <1>8, <1>9, <1>10, <1>11, <1>12, <1>13 DEF Next, Employee

\* Whatever employees and the boss do, the stored record parses as a task of
\* its workflow (taskSchema): every transition of transitions.ts returns one.
THEOREM TypeCorrect == Spec => []TypeOK
<1>1. Init => TypeOK
  <2>1. ASSUME NEW plan \in Plans, task = NewOfficeTask(plan)
        PROVE  task.plan = plan /\ task \in Task(plan)
    BY <2>1, InitialTask DEF NewOfficeTask
  <2>2. QED
    BY <2>1 DEF Init, TypeOK
<1>2. TypeOK /\ [Next]_vars => TypeOK'
  <2>1. SUFFICES ASSUME TypeOK, [Next]_vars
                 PROVE  TypeOK'
    OBVIOUS
  <2>2. task' \in Task(task.plan) /\ task'.plan = task.plan
    BY <2>1, StepKeepsTask
  <2>3. faults' \in Nat /\ manual' \in Nat
    BY <2>1 DEF TypeOK, Next, Employee, PickUp, Complete, Approve, Return, WaitForRunner, Fail,
                ApproveCheckpoint, RejectCheckpoint, Retry, vars
  <2>4. QED
    BY <2>1, <2>2, <2>3 DEF TypeOK
<1>3. QED
  BY <1>1, <1>2, PTL DEF Spec

-----------------------------------------------------------------------------
(***************************************************************************)
(* The order of the desks, the holder and the revision limit               *)
(***************************************************************************)

\* What the current types say, in the form the steps below use.
LEMMA TaskFacts ==
  ASSUME TypeOK
  PROVE  /\ task.plan \in Plans /\ task \in Task(task.plan)
         /\ DOMAIN task.steps = DOMAIN task.plan.steps
         /\ task.current_step \in DOMAIN task.steps
         /\ \A i \in DOMAIN task.steps :
              /\ Stage(i) \in Nat
              /\ StatusOf(i) \in StepStatuses
              /\ task.steps[i] \in StepState
              /\ task.steps[i].revision_count \in Nat
              /\ task.plan.steps[i].max_revisions \in Nat
<1>1. task.plan \in Plans /\ task \in Task(task.plan)
  BY DEF TypeOK
<1>2. /\ DOMAIN task.steps = DOMAIN task.plan.steps
      /\ task.current_step \in DOMAIN task.steps
      /\ \A i \in DOMAIN task.steps : task.steps[i] \in StepState
  BY <1>1 DEF Task
<1>3. \A i \in DOMAIN task.steps : task.plan.steps[i] \in StepPlan
  BY <1>1, <1>2, WorkflowSteps
<1>4. QED
  BY <1>1, <1>2, <1>3 DEF Stage, StatusOf, StepState, StepPlan

\* As long as the limit has not stopped the task every step is within its allowance,
\* and a task that somebody can still work on has not been stopped.
LEMMA NotStopped ==
  ASSUME TypeOK, Orderly,
         \/ task.paper_route.error_code # "REVISION_LIMIT"
         \/ task.paper_route.state # "exhausted"
         \/ StatusOf(task.current_step) # "changes_requested" \/ task.status # "failed"
  PROVE  /\ task.paper_route.error_code # "REVISION_LIMIT"
         /\ \A i \in DOMAIN task.steps :
              task.steps[i].revision_count <= task.plan.steps[i].max_revisions
BY DEF Orderly, LimitStops, RevisionsWithinAllowance

\* The current step ends, done or at a checkpoint, and finishStage picks who is next.
LEMMA FinishingKeepsOrder ==
  ASSUME TypeOK, Orderly, CheckpointsAlone(task.plan),
         NEW u \in Task(task.plan), NEW steps \in [DOMAIN task.plan.steps -> StepState],
         NEW i, i = task.current_step,
         StatusOf(i) # "changes_requested",
         steps[i].status = "done" \/ (steps[i].status = "awaiting_approval"
                                         /\ task.plan.steps[i].requires_approval),
         \A j \in DOMAIN task.plan.steps : j # i => steps[j] = task.steps[j],
         \A j \in DOMAIN task.plan.steps : steps[j].revision_count = task.steps[j].revision_count,
         task' = FinishStage(u, steps, i)
  PROVE  Orderly'
<1> DEFINE plan == task.plan
<1>1. /\ plan \in Plans /\ i \in DOMAIN plan.steps /\ DOMAIN task.steps = DOMAIN plan.steps
      /\ \A j \in DOMAIN plan.steps : plan.steps[j].stage \in Nat
  BY TaskFacts DEF Stage
<1>2. PICK next \in DOMAIN plan.steps, status \in {"open", "review", "done"},
           decision \in {u.review_decision, "none"},
           result \in SUBSET ((DOMAIN plan.steps) \X Nat),
           route \in {ReadyPaperRoute(u.paper_route),
                      Paused(u.paper_route)} :
        /\ FinishStage(u, steps, i) = Freed(u, steps, next, status, decision, result, route)
        /\ NextDesk(plan, steps, i, next, status)
  <2>1. StageEnds(plan, u, steps, i)
    BY <1>1, FinishStageCases
  <2>2. QED
    BY <2>1, Zenon DEF StageEnds
<1>3. u.paper_route \in PaperRoute
  BY DEF Task
<1>4. route.error_code = "none"
  <2>1. CASE route = ReadyPaperRoute(u.paper_route)
    BY <1>3, <2>1, RouteFields
  <2>2. CASE route = Paused(u.paper_route)
    BY <1>3, <2>2, RouteFields
  <2>3. QED
    BY <2>1, <2>2
<1>5. /\ task'.plan = plan /\ task'.steps = steps /\ task'.current_step = next
      /\ task'.status = status /\ task'.reviewer_did = None
      /\ task'.paper_route.error_code = "none"
  BY <1>2, <1>4 DEF Freed, Unassigned, Task
<1>6. DOMAIN steps = DOMAIN plan.steps
  OBVIOUS
<1>7. \A j \in DOMAIN plan.steps : j # i => steps[j].status \notin {"running", "awaiting_approval"}
  BY <1>1 DEF Orderly, HolderMatchesStep, AwaitingIsCurrent, StatusOf
<1>8. \A j \in DOMAIN plan.steps :
        /\ plan.steps[j].stage < plan.steps[i].stage => steps[j].status = "done"
        /\ plan.steps[j].stage > plan.steps[i].stage => steps[j].status = "pending"
  BY <1>1 DEF Orderly, StagesInOrder, StatusOf, Stage
<1>9. steps[i].status = "awaiting_approval" => Members(plan, plan.steps[i].stage) = {i}
  BY <1>1 DEF CheckpointsAlone
<1>10. \A j \in DOMAIN plan.steps : steps[j].status \in StepStatuses
  BY DEF StepState
<1>11. (status = "done" \/ plan.steps[next].stage > plan.steps[i].stage) =>
         \A j \in DOMAIN plan.steps : plan.steps[j].stage <= plan.steps[i].stage => steps[j].status = "done"
  <2>1. ASSUME status = "done" \/ plan.steps[next].stage > plan.steps[i].stage
        PROVE  \A j \in Members(plan, plan.steps[i].stage) :
                 steps[j].status \notin Runnable \union {"awaiting_approval"}
    <3>1. plan.steps[next].stage \in Nat /\ plan.steps[i].stage \in Nat
      BY <1>1
    <3>2. ~(status = "open" /\ plan.steps[next].stage = plan.steps[i].stage)
      BY <2>1, <3>1
    <3>3. QED
      BY <1>2, <3>2, Zenon DEF NextDesk
  <2>2. ASSUME status = "done" \/ plan.steps[next].stage > plan.steps[i].stage,
               NEW j \in DOMAIN plan.steps, plan.steps[j].stage = plan.steps[i].stage
        PROVE  steps[j].status = "done"
    <3>1. steps[j].status \notin Runnable \union {"awaiting_approval"}
      BY <2>1, <2>2 DEF Members
    <3>2. CASE j = i
      BY <3>1, <3>2 DEF Runnable
    <3>3. CASE j # i
      BY <1>7, <1>10, <3>1, <3>3 DEF Runnable, StepStatuses
    <3>4. QED
      BY <3>2, <3>3
  <2>3. SUFFICES ASSUME status = "done" \/ plan.steps[next].stage > plan.steps[i].stage,
                        NEW j \in DOMAIN plan.steps, plan.steps[j].stage <= plan.steps[i].stage
                 PROVE  steps[j].status = "done"
    OBVIOUS
  <2>4. plan.steps[j].stage \in Nat /\ plan.steps[i].stage \in Nat
    BY <1>1
  <2>5. CASE plan.steps[j].stage < plan.steps[i].stage
    BY <1>8, <2>5
  <2>6. CASE plan.steps[j].stage = plan.steps[i].stage
    BY <2>2, <2>3, <2>6
  <2>7. QED
    BY <2>3, <2>4, <2>5, <2>6
<1>12. StagesInOrder'
  <2>1. ASSUME NEW j \in DOMAIN plan.steps
        PROVE  /\ plan.steps[j].stage < plan.steps[next].stage => steps[j].status = "done"
               /\ plan.steps[j].stage > plan.steps[next].stage => steps[j].status = "pending"
    <3>1. CASE plan.steps[next].stage = plan.steps[i].stage
      BY <1>1, <1>8, <3>1
    <3>2. CASE plan.steps[next].stage > plan.steps[i].stage
      <4>1. \A k \in DOMAIN plan.steps : plan.steps[k].stage > plan.steps[i].stage => next <= k
        BY <1>1, <1>2, <3>2 DEF NextDesk
      <4>2. plan.steps[j].stage > plan.steps[i].stage => plan.steps[next].stage <= plan.steps[j].stage
        BY <1>1, <4>1, WorkflowOrder
      <4>3. QED
        BY <1>1, <1>8, <1>11, <3>2, <4>2
    <3>3. QED
      BY <1>1, <1>2, <3>1, <3>2 DEF NextDesk
  <2>2. QED
    BY <1>5, <1>6, <2>1 DEF StagesInOrder, StatusOf, Stage
<1>13. HolderMatchesStep'
  <2>1. \A j \in DOMAIN plan.steps : steps[j].status # "running"
    BY <1>7
  <2>2. QED
    BY <1>5, <1>6, <2>1 DEF HolderMatchesStep, StatusOf
<1>14. AwaitingIsCurrent'
  <2>1. ASSUME NEW j \in DOMAIN plan.steps, steps[j].status = "awaiting_approval"
        PROVE  j = next
    <3>1. j = i /\ Members(plan, plan.steps[i].stage) = {i}
      BY <1>7, <1>9, <2>1
    <3>2. next \in Members(plan, plan.steps[i].stage)
      BY <1>1, <1>2, <1>11, <2>1, <3>1 DEF NextDesk, Members
    <3>3. QED
      BY <3>1, <3>2
  <2>2. QED
    BY <1>5, <1>6, <2>1 DEF AwaitingIsCurrent, StatusOf
<1>15. LimitStops'
  BY <1>5 DEF LimitStops
<1>16. DoneSteps'
  <2>1. status = "done" => \A j \in DOMAIN plan.steps : plan.steps[j].stage <= plan.steps[i].stage
    <3>1. status = "done" /\ plan.steps[next].stage > plan.steps[i].stage => FALSE
      BY <1>1, <1>2 DEF NextDesk
    <3>2. QED
      BY <1>1, <1>2, <3>1 DEF NextDesk
  <2>2. QED
    BY <1>5, <1>6, <1>11, <2>1 DEF DoneSteps, StatusOf
<1>17. RevisionsWithinAllowance'
  <2>1. \A j \in DOMAIN task.steps : task.steps[j].revision_count <= task.plan.steps[j].max_revisions
    BY NotStopped
  <2>2. QED
    BY <1>1, <1>5, <1>6, <2>1 DEF RevisionsWithinAllowance
<1>18. QED
  BY <1>12, <1>13, <1>14, <1>15, <1>16, <1>17 DEF Orderly

\* A step of the board that leaves the place of the task and every other step's
\* record alone, and does not stop the task: the order of the desks stays.
LEMMA StayingKeepsOrder ==
  ASSUME TypeOK, Orderly,
         task.paper_route.error_code # "REVISION_LIMIT",
         task'.plan = task.plan, DOMAIN task'.steps = DOMAIN task.steps,
         task'.current_step = task.current_step,
         task'.paper_route.error_code # "REVISION_LIMIT",
         \A j \in DOMAIN task.steps :
           /\ j # task.current_step => task'.steps[j].status = task.steps[j].status
           /\ task'.steps[j].revision_count = task.steps[j].revision_count
  PROVE  StagesInOrder' /\ AwaitingIsCurrent' /\ LimitStops' /\ RevisionsWithinAllowance'
<1>1. \A j \in DOMAIN task.steps : Stage(j) \in Nat
  BY TaskFacts
<1>2. task.current_step \in DOMAIN task.steps
  BY TaskFacts
<1>3. StagesInOrder'
  BY <1>1, <1>2 DEF Orderly, StagesInOrder, Stage, StatusOf
<1>4. AwaitingIsCurrent'
  BY <1>2 DEF Orderly, AwaitingIsCurrent, StatusOf
<1>5. LimitStops'
  BY DEF LimitStops
<1>6. RevisionsWithinAllowance'
  <2>1. \A j \in DOMAIN task.steps : task.steps[j].revision_count <= task.plan.steps[j].max_revisions
    BY NotStopped
  <2>2. QED
    BY <2>1 DEF RevisionsWithinAllowance
<1>7. QED
  BY <1>3, <1>4, <1>5, <1>6

\* An employee picks up a step only when it is not running; so a claim that
\* failed is never resumed: the step of a failed claim is still running.
LEMMA PickUpClaims ==
  ASSUME TypeOK, Orderly, NEW a \in Agents, PickUp(a)
  PROVE  /\ task' = ClaimOfficeStep(task, a)
         /\ Current(task).agent = a
         /\ task.paper_route.error_code # "REVISION_LIMIT"
         /\ Current(task).kind = "review" => task.status = "review"
<1>1. PICK due \in BOOLEAN, lapsed \in BOOLEAN, erred \in BOOLEAN :
        CanTake(task, a, due, lapsed, erred) /\ task' = Take(task, a, erred)
  BY DEF PickUp
<1>2. Eligible(task, a, due, lapsed, erred)
  BY <1>1 DEF CanTake
<1>3. StatusOf(task.current_step) \in Runnable /\ task.paper_route.state # "exhausted"
  BY <1>2 DEF Eligible, StatusOf
<1>4. task.paper_route.error_code # "REVISION_LIMIT"
  BY <1>3, NotStopped
<1>5. ~CanResumeOfficeStep(task, a, due)
  <2>1. StatusOf(task.current_step) # "running"
    BY <1>3 DEF Runnable
  <2>2. task.status # "running" /\ ~(task.status = "review" /\ task.reviewer_did = a)
    BY <2>1, TaskAssumption DEF Orderly, HolderMatchesStep
  <2>3. QED
    BY <2>2 DEF CanResumeOfficeStep
<1>6. ~ResumesFailedClaim(task, a, erred) /\ CanClaimOfficeStep(task, a, lapsed)
  BY <1>1, <1>5 DEF CanTake
<1>7. QED
  BY <1>1, <1>4, <1>6 DEF Take, CanClaimOfficeStep, CanClaimForReview

LEMMA PickUpKeepsOrder ==
  ASSUME TypeOK, Orderly, NEW a \in Agents, PickUp(a)
  PROVE  Orderly'
<1> DEFINE c == task.current_step
<1>1. /\ task \in Task(task.plan) /\ c \in DOMAIN task.steps
      /\ task.paper_route \in PaperRoute /\ task.steps \in [DOMAIN task.steps -> StepState]
  BY TaskFacts DEF Task
<1>2. ActivePaperRoute(task.paper_route).error_code = "none"
  BY <1>1, RouteFields
<1>3. /\ task' = ClaimOfficeStep(task, a) /\ Current(task).agent = a
      /\ task.paper_route.error_code # "REVISION_LIMIT"
      /\ Current(task).kind = "review" => task.status = "review"
  BY PickUpClaims
<1>4. /\ task'.plan = task.plan /\ task'.current_step = c
      /\ task'.steps = [task.steps EXCEPT ![c].status = "running"]
      /\ task'.paper_route.error_code = "none"
      /\ \/ task'.status = "running" /\ task'.worker_did = a
         \/ task'.status = "review" /\ task'.reviewer_did = a
  <2>1. CASE Current(task).kind = "review"
    BY <1>1, <1>2, <1>3, <2>1 DEF ClaimOfficeStep, ClaimForReview, Task
  <2>2. CASE Current(task).kind # "review"
    BY <1>1, <1>2, <1>3, <2>2 DEF ClaimOfficeStep, ClaimForOfficeWork, Task
  <2>3. QED
    BY <2>1, <2>2
<1>5. /\ DOMAIN task'.steps = DOMAIN task.steps
      /\ task'.steps[c].status = "running"
      /\ \A j \in DOMAIN task.steps :
           /\ j # c => task'.steps[j].status = task.steps[j].status
           /\ task'.steps[j].revision_count = task.steps[j].revision_count
  BY <1>1, <1>4 DEF StepState
<1>6. StagesInOrder' /\ AwaitingIsCurrent' /\ LimitStops' /\ RevisionsWithinAllowance'
  BY <1>3, <1>4, <1>5, StayingKeepsOrder
<1>7. HolderMatchesStep'
  <2>1. \A j \in DOMAIN task.steps : task'.steps[j].status = "running" => j = c
    BY <1>5 DEF Orderly, HolderMatchesStep, StatusOf
  <2>2. Current(task)' = Current(task)
    BY <1>4 DEF Current
  <2>3. QED
    BY <1>3, <1>4, <1>5, <2>1, <2>2 DEF HolderMatchesStep, StatusOf
<1>8. DoneSteps'
  BY <1>4 DEF DoneSteps
<1>9. QED
  BY <1>6, <1>7, <1>8 DEF Orderly

LEMMA CompleteKeepsOrder ==
  ASSUME TypeOK, Orderly, CheckpointsAlone(task.plan), NEW a \in Agents, Complete(a)
  PROVE  Orderly'
<1> DEFINE i     == task.current_step
           end   == IF Current(task).requires_approval THEN "awaiting_approval" ELSE "done"
           steps == [task.steps EXCEPT ![i].status = end, ![i].output = task.attempt]
           alone == Members(task.plan, Current(task).stage) = {i}
           u     == [task EXCEPT !.result = IF alone THEN {<<i, task.attempt>>} ELSE @]
<1>1. /\ i \in DOMAIN task.plan.steps /\ task.attempt \in Nat
      /\ task \in Task(task.plan)
      /\ task.steps \in [DOMAIN task.plan.steps -> StepState]
  BY TaskFacts DEF Task
<1>2. steps \in [DOMAIN task.plan.steps -> StepState]
  BY <1>1 DEF StepState, StepStatuses
<1>3. u \in Task(task.plan)
  BY <1>1 DEF Task
<1>4. StatusOf(i) = "running"
  BY DEF Complete, CanCompleteOfficeWork, Orderly, HolderMatchesStep
<1>5. steps[i].status = "done"
        \/ (steps[i].status = "awaiting_approval" /\ task.plan.steps[i].requires_approval)
  <2>1. steps[i].status = end
    BY <1>1 DEF StepState
  <2>2. QED
    BY <2>1 DEF Current
<1>6. \A j \in DOMAIN task.plan.steps :
        /\ j # i => steps[j] = task.steps[j]
        /\ steps[j].revision_count = task.steps[j].revision_count
  BY <1>1 DEF StepState
<1>7. task' = FinishStage(u, steps, i)
  BY DEF Complete, CompleteOfficeWork
<1>8. StatusOf(i) # "changes_requested"
  BY <1>4
<1>9. QED
  <2> HIDE DEF steps, u
  <2>1. QED
    BY <1>2, <1>3, <1>5, <1>6, <1>7, <1>8, FinishingKeepsOrder

LEMMA ApproveCheckpointKeepsOrder ==
  ASSUME TypeOK, Orderly, CheckpointsAlone(task.plan),
         NEW i \in DOMAIN task.steps, ApproveCheckpoint(i)
  PROVE  Orderly'
<1> DEFINE steps == [task.steps EXCEPT ![i].status = "done"]
<1>1. /\ i \in DOMAIN task.plan.steps /\ task \in Task(task.plan)
      /\ task.steps \in [DOMAIN task.plan.steps -> StepState]
  BY TaskFacts DEF Task
<1>2. steps \in [DOMAIN task.plan.steps -> StepState]
  BY <1>1 DEF StepState, StepStatuses
<1>3. StatusOf(i) = "awaiting_approval" /\ i = task.current_step
  BY DEF ApproveCheckpoint, AwaitsApproval, StatusOf, Orderly, AwaitingIsCurrent
<1>4. /\ steps[i].status = "done"
      /\ \A j \in DOMAIN task.plan.steps :
           /\ j # i => steps[j] = task.steps[j]
           /\ steps[j].revision_count = task.steps[j].revision_count
  BY <1>1 DEF StepState
<1>5. task' = FinishStage(task, steps, i)
  BY DEF ApproveCheckpoint, ApproveOfficeCheckpoint
<1>6. StatusOf(i) # "changes_requested"
  BY <1>3
<1>7. QED
  <2> HIDE DEF steps
  <2>1. QED
    BY <1>1, <1>2, <1>3, <1>4, <1>5, <1>6, FinishingKeepsOrder

\* The reviewer approves: every desk before the last has finished.
LEMMA ApproveKeepsOrder ==
  ASSUME TypeOK, Orderly, NEW a \in Agents, Approve(a)
  PROVE  Orderly'
<1> DEFINE c == task.current_step
<1>1. /\ task.plan \in Plans /\ task \in Task(task.plan) /\ c \in DOMAIN task.steps
      /\ DOMAIN task.steps = DOMAIN task.plan.steps
      /\ task.paper_route \in PaperRoute /\ task.steps \in [DOMAIN task.steps -> StepState]
  BY TaskFacts DEF Task
<1>2. StatusOf(c) = "running" /\ Current(task).kind = "review"
  BY TaskAssumption DEF Approve, CanFinishOfficeReview, Orderly, HolderMatchesStep
<1>3. task.paper_route.error_code # "REVISION_LIMIT"
  BY <1>2, NotStopped
<1>4. /\ task'.plan = task.plan /\ task'.current_step = c /\ task'.status = "done"
      /\ task'.steps = [task.steps EXCEPT ![c].status = "done"]
      /\ task'.paper_route.error_code = "none"
  BY <1>1, RouteFields DEF Approve, ApproveResult, Task
<1>5. /\ DOMAIN task'.steps = DOMAIN task.steps
      /\ task'.steps[c].status = "done"
      /\ \A j \in DOMAIN task.steps :
           /\ j # c => task'.steps[j].status = task.steps[j].status
           /\ task'.steps[j].revision_count = task.steps[j].revision_count
  BY <1>1, <1>4 DEF StepState
<1>6. StagesInOrder' /\ AwaitingIsCurrent' /\ LimitStops' /\ RevisionsWithinAllowance'
  BY <1>3, <1>4, <1>5, StayingKeepsOrder
<1>7. \A j \in DOMAIN task.steps : task'.steps[j].status = "done"
  <2>1. \A j \in DOMAIN task.steps : j # c => Stage(j) < Stage(c)
    BY <1>1, <1>2, WorkflowOrder DEF Current, Stage
  <2>2. \A j \in DOMAIN task.steps : j # c => task.steps[j].status = "done"
    BY <2>1 DEF Orderly, StagesInOrder, StatusOf
  <2>3. QED
    BY <1>5, <2>2
<1>8. HolderMatchesStep' /\ DoneSteps'
  BY <1>4, <1>5, <1>7 DEF HolderMatchesStep, DoneSteps, StatusOf
<1>9. QED
  BY <1>6, <1>8 DEF Orderly

\* The reviewer returns the paper: the target is revised, what came after it is undone.
LEMMA ReturnKeepsOrder ==
  ASSUME TypeOK, Orderly, NEW a \in Agents, Return(a)
  PROVE  Orderly'
<1> DEFINE c == task.current_step
           g == RejectionTarget(task)
           over == Exhausts(task, g)
<1>1. /\ task.plan \in Plans /\ task \in Task(task.plan) /\ c \in DOMAIN task.steps
      /\ DOMAIN task.steps = DOMAIN task.plan.steps
      /\ task.paper_route \in PaperRoute /\ task.steps \in [DOMAIN task.steps -> StepState]
      /\ \A j \in DOMAIN task.steps :
           /\ Stage(j) \in Nat
           /\ task.steps[j].revision_count \in Nat /\ task.plan.steps[j].max_revisions \in Nat
  BY TaskFacts DEF Task
<1>2. StatusOf(c) = "running" /\ Current(task).kind = "review"
  BY TaskAssumption DEF Return, CanFinishOfficeReview, Orderly, HolderMatchesStep
<1>3. g \in DOMAIN task.steps /\ g # c
  BY <1>1, <1>2, TargetIsEarlierWork
<1>4. \A j \in DOMAIN task.steps : j # c => Stage(j) < Stage(c) /\ task.steps[j].status = "done"
  <2>1. \A j \in DOMAIN task.steps : j # c => Stage(j) < Stage(c)
    BY <1>1, <1>2, WorkflowOrder DEF Current, Stage
  <2>2. QED
    BY <2>1 DEF Orderly, StagesInOrder, StatusOf
<1>5. \A j \in DOMAIN task.steps : task.steps[j].revision_count <= task.plan.steps[j].max_revisions
  BY <1>2, NotStopped
<1>6. /\ task'.plan = task.plan /\ task'.current_step = g
      /\ task'.steps = ReturnedSteps(task, g)
      /\ task'.status = IF over THEN "failed" ELSE "open"
      /\ task'.paper_route = IF over THEN RevisionLimitRoute(task.paper_route)
                                     ELSE ReadyPaperRoute(task.paper_route)
  <2> HIDE DEF g
  <2>1. task' = ReturnResult(task)
    BY DEF Return
  <2>2. QED
    BY <1>1, <2>1 DEF ReturnResult, Task, g
<1> HIDE DEF g
<1>7. /\ DOMAIN task'.steps = DOMAIN task.steps
      /\ task'.steps[c].status = "pending"
      /\ task'.steps[g].status = "changes_requested"
      /\ task'.steps[g].revision_count = task.steps[g].revision_count + 1
      /\ \A j \in DOMAIN task.steps :
           /\ j # g => task'.steps[j].revision_count = task.steps[j].revision_count
           /\ j \notin {c, g} => task'.steps[j].status = IF Stage(j) > Stage(g) THEN "pending" ELSE "done"
  <2>1. \A j \in DOMAIN task.steps : task.steps[j] \in StepState
    BY <1>1
  <2>2. DOMAIN task'.steps = DOMAIN task.steps
    BY <1>6 DEF ReturnedSteps
  <2>3. task'.steps[c] = [task.steps[c] EXCEPT !.status = "pending", !.output = 0]
    BY <1>1, <1>6 DEF ReturnedSteps
  <2>4. task'.steps[g] = [task.steps[g] EXCEPT !.status = "changes_requested", !.revision_count = @ + 1]
    BY <1>3, <1>6 DEF ReturnedSteps
  <2>5. ASSUME NEW j \in DOMAIN task.steps, j \notin {c, g}
        PROVE  task'.steps[j] = IF Stage(j) > Stage(g)
                                  THEN [task.steps[j] EXCEPT !.status = "pending", !.output = 0]
                                  ELSE task.steps[j]
    <3>1. CASE Stage(j) > Stage(g)
      BY <1>6, <2>5, <3>1 DEF ReturnedSteps, Stage
    <3>2. CASE ~(Stage(j) > Stage(g))
      BY <1>6, <2>5, <3>2 DEF ReturnedSteps, Stage
    <3>3. QED
      BY <3>1, <3>2
  <2>6. /\ task'.steps[c].status = "pending"
        /\ task'.steps[c].revision_count = task.steps[c].revision_count
    BY <1>1, <2>1, <2>3 DEF StepState
  <2>7. /\ task'.steps[g].status = "changes_requested"
        /\ task'.steps[g].revision_count = task.steps[g].revision_count + 1
    BY <1>3, <2>1, <2>4 DEF StepState
  <2>8. ASSUME NEW j \in DOMAIN task.steps, j \notin {c, g}
        PROVE  /\ task'.steps[j].revision_count = task.steps[j].revision_count
               /\ task'.steps[j].status = IF Stage(j) > Stage(g) THEN "pending" ELSE "done"
    <3>1. CASE Stage(j) > Stage(g)
      BY <2>1, <2>5, <2>8, <3>1 DEF StepState
    <3>2. CASE ~(Stage(j) > Stage(g))
      BY <1>4, <2>1, <2>5, <2>8, <3>2
    <3>3. QED
      BY <3>1, <3>2
  <2>9. QED
    <3> HIDE DEF c
    <3>1. \A j \in DOMAIN task.steps :
            j # g => task'.steps[j].revision_count = task.steps[j].revision_count
      BY <2>6, <2>8
    <3>2. QED
      BY <2>2, <2>6, <2>7, <2>8, <3>1
<1>8. StagesInOrder'
  <2>1. \A j \in DOMAIN task.steps :
          /\ Stage(j) < Stage(g) => task'.steps[j].status = "done"
          /\ Stage(j) > Stage(g) => task'.steps[j].status = "pending"
    BY <1>1, <1>3, <1>4, <1>7
  <2>2. QED
    BY <1>6, <1>7, <2>1 DEF StagesInOrder, Stage, StatusOf
<1>9. \A j \in DOMAIN task.steps : task'.steps[j].status \notin {"running", "awaiting_approval"}
  BY <1>7
<1>10. HolderMatchesStep' /\ AwaitingIsCurrent' /\ DoneSteps'
  BY <1>6, <1>7, <1>9 DEF HolderMatchesStep, AwaitingIsCurrent, DoneSteps, StatusOf
<1>11. LimitStops'
  <2>1. CASE over
    BY <1>1, <1>6, <1>7, <2>1, RouteFields DEF LimitStops, StatusOf
  <2>2. CASE ~over
    BY <1>1, <1>6, <2>2, RouteFields DEF LimitStops
  <2>3. QED
    BY <2>1, <2>2
<1>12. RevisionsWithinAllowance'
  <2>1. CASE over
    <3>1. task.steps[g].revision_count = task.plan.steps[g].max_revisions
      BY <1>1, <1>3, <1>5, <2>1 DEF Exhausts
    <3>2. task'.status = "failed" /\ task'.paper_route.error_code = "REVISION_LIMIT"
      BY <1>1, <1>6, <2>1, RouteFields
    <3>3. QED
      BY <1>5, <1>6, <1>7, <3>1, <3>2 DEF RevisionsWithinAllowance
  <2>2. CASE ~over
    <3>1. task.steps[g].revision_count + 1 <= task.plan.steps[g].max_revisions
      BY <1>1, <1>3, <2>2 DEF Exhausts
    <3>2. QED
      BY <1>5, <1>6, <1>7, <3>1 DEF RevisionsWithinAllowance
  <2>3. QED
    BY <2>1, <2>2
<1>13. QED
  BY <1>8, <1>10, <1>11, <1>12 DEF Orderly

LEMMA WaitForRunnerKeepsOrder ==
  ASSUME TypeOK, Orderly, NEW a \in Agents, WaitForRunner(a)
  PROVE  Orderly'
<1>1. task \in Task(task.plan) /\ task.paper_route \in PaperRoute
  BY TaskFacts DEF Task
<1>2. task.paper_route.error_code # "REVISION_LIMIT"
  BY NotStopped DEF WaitForRunner, Eligible
<1>3. /\ task'.plan = task.plan /\ task'.current_step = task.current_step
      /\ task'.steps = task.steps /\ task'.status = task.status
      /\ task'.worker_did = task.worker_did /\ task'.reviewer_did = task.reviewer_did
      /\ task'.paper_route.error_code = "none"
  BY <1>1 DEF WaitForRunner, MarkOfficeWaiting, Task, PaperRoute
<1>4. StagesInOrder' /\ AwaitingIsCurrent' /\ LimitStops' /\ RevisionsWithinAllowance'
  BY <1>2, <1>3, StayingKeepsOrder
<1>5. HolderMatchesStep' /\ DoneSteps'
  BY <1>3 DEF Orderly, HolderMatchesStep, DoneSteps, StatusOf, Current
<1>6. QED
  BY <1>4, <1>5 DEF Orderly

LEMMA FailKeepsOrder ==
  ASSUME TypeOK, Orderly, NEW retryable \in BOOLEAN, Fail(retryable)
  PROVE  Orderly'
<1>1. task \in Task(task.plan)
  BY TaskFacts
<1>2. task.status \notin {"done", "failed"} /\ task.paper_route.error_code # "REVISION_LIMIT"
  BY NotStopped DEF Fail, CanDeferOfficeStep
<1>3. /\ task'.plan = task.plan /\ task'.current_step = task.current_step
      /\ task'.steps = task.steps /\ task'.status \in {task.status, "failed"}
      /\ task'.worker_did = task.worker_did /\ task'.reviewer_did = task.reviewer_did
      /\ task'.paper_route.error_code = "provider"
  BY <1>1 DEF Fail, DeferOfficeStep, Task
<1>4. StagesInOrder' /\ AwaitingIsCurrent' /\ LimitStops' /\ RevisionsWithinAllowance'
  BY <1>2, <1>3, StayingKeepsOrder
<1>5. HolderMatchesStep' /\ DoneSteps'
  BY <1>2, <1>3 DEF Orderly, HolderMatchesStep, DoneSteps, StatusOf, Current
<1>6. QED
  BY <1>4, <1>5 DEF Orderly

LEMMA RejectCheckpointKeepsOrder ==
  ASSUME TypeOK, Orderly, NEW i \in DOMAIN task.steps, RejectCheckpoint(i)
  PROVE  Orderly'
<1> DEFINE over == Exhausts(task, i)
<1>1. /\ task \in Task(task.plan)
      /\ task.paper_route \in PaperRoute /\ task.steps \in [DOMAIN task.steps -> StepState]
      /\ \A j \in DOMAIN task.steps :
           task.steps[j].revision_count \in Nat /\ task.plan.steps[j].max_revisions \in Nat
  BY TaskFacts DEF Task
<1>2. StatusOf(i) = "awaiting_approval" /\ i = task.current_step
  BY DEF RejectCheckpoint, CanRejectCheckpoint, AwaitsApproval, StatusOf, Orderly, AwaitingIsCurrent
<1>3. \A j \in DOMAIN task.steps : task.steps[j].revision_count <= task.plan.steps[j].max_revisions
  BY <1>2, NotStopped
<1>4. /\ task'.plan = task.plan /\ task'.current_step = i /\ task'.reviewer_did = None
      /\ task'.steps = [task.steps EXCEPT ![i].status = "changes_requested",
                                          ![i].revision_count = @ + 1]
      /\ task'.status = IF over THEN "failed" ELSE "open"
      /\ task'.paper_route = IF over THEN RevisionLimitRoute(task.paper_route)
                                     ELSE ReadyPaperRoute(task.paper_route)
  <2>1. task' = RejectOfficeCheckpoint(task, i)
    BY DEF RejectCheckpoint
  <2>2. CASE over
    BY <1>1, <2>1, <2>2 DEF RejectOfficeCheckpoint, Unassigned, Task
  <2>3. CASE ~over
    BY <1>1, <2>1, <2>3 DEF RejectOfficeCheckpoint, Unassigned, Task
  <2>4. QED
    BY <2>2, <2>3
<1>5. /\ DOMAIN task'.steps = DOMAIN task.steps
      /\ task'.steps[i].status = "changes_requested"
      /\ task'.steps[i].revision_count = task.steps[i].revision_count + 1
      /\ \A j \in DOMAIN task.steps : j # i => task'.steps[j] = task.steps[j]
  BY <1>1, <1>4 DEF StepState
<1>6. StagesInOrder'
  <2>1. \A j \in DOMAIN task.steps : Stage(j) \in Nat
    BY TaskFacts
  <2>2. QED
    BY <1>2, <1>4, <1>5, <2>1 DEF Orderly, StagesInOrder, Stage, StatusOf
<1>7. HolderMatchesStep' /\ AwaitingIsCurrent' /\ DoneSteps'
  <2>1. \A j \in DOMAIN task.steps : task'.steps[j].status \notin {"running", "awaiting_approval"}
    BY <1>2, <1>5 DEF Orderly, HolderMatchesStep, AwaitingIsCurrent, StatusOf
  <2>2. QED
    BY <1>4, <1>5, <2>1 DEF HolderMatchesStep, AwaitingIsCurrent, DoneSteps, StatusOf
<1>8. LimitStops'
  <2>1. CASE over
    BY <1>1, <1>4, <1>5, <2>1, RouteFields DEF LimitStops, StatusOf
  <2>2. CASE ~over
    BY <1>1, <1>4, <2>2, RouteFields DEF LimitStops
  <2>3. QED
    BY <2>1, <2>2
<1>9. RevisionsWithinAllowance'
  <2>1. CASE over
    <3>1. task.steps[i].revision_count = task.plan.steps[i].max_revisions
      BY <1>1, <1>3, <2>1 DEF Exhausts
    <3>2. task'.status = "failed" /\ task'.paper_route.error_code = "REVISION_LIMIT"
      BY <1>1, <1>4, <2>1, RouteFields
    <3>3. QED
      BY <1>3, <1>4, <1>5, <3>1, <3>2 DEF RevisionsWithinAllowance
  <2>2. CASE ~over
    <3>1. task.steps[i].revision_count + 1 <= task.plan.steps[i].max_revisions
      BY <1>1, <2>2 DEF Exhausts
    <3>2. QED
      BY <1>3, <1>4, <1>5, <3>1 DEF RevisionsWithinAllowance
  <2>3. QED
    BY <2>1, <2>2
<1>10. QED
  BY <1>6, <1>7, <1>8, <1>9 DEF Orderly

LEMMA RetryKeepsOrder ==
  ASSUME TypeOK, Orderly, Retry
  PROVE  Orderly'
<1> DEFINE c == task.current_step
<1>1. /\ task \in Task(task.plan) /\ c \in DOMAIN task.steps
      /\ task.paper_route \in PaperRoute /\ task.steps \in [DOMAIN task.steps -> StepState]
  BY TaskFacts DEF Task
<1>2. task.paper_route.error_code # "REVISION_LIMIT"
  BY DEF Retry, CanRecoverOfficeTask
<1>3. PICK s \in {"pending", "changes_requested"} :
        /\ task'.plan = task.plan /\ task'.current_step = c /\ task'.reviewer_did = None
        /\ task'.status \in {"open", "review"}
        /\ task'.steps = [task.steps EXCEPT ![c].status = s]
        /\ task'.paper_route.error_code = "none"
  BY <1>1, RouteFields DEF Retry, RecoverOfficeTask, Task
<1>4. /\ DOMAIN task'.steps = DOMAIN task.steps
      /\ task'.steps[c].status = s
      /\ \A j \in DOMAIN task.steps :
           /\ j # c => task'.steps[j].status = task.steps[j].status
           /\ task'.steps[j].revision_count = task.steps[j].revision_count
  BY <1>1, <1>3 DEF StepState
<1>5. StagesInOrder' /\ AwaitingIsCurrent' /\ LimitStops' /\ RevisionsWithinAllowance'
  BY <1>2, <1>3, <1>4, StayingKeepsOrder
<1>6. HolderMatchesStep' /\ DoneSteps'
  BY <1>3, <1>4 DEF Orderly, HolderMatchesStep, DoneSteps, StatusOf
<1>7. QED
  BY <1>5, <1>6 DEF Orderly

\* A new task is at its first desk, which every other desk is at or after.
LEMMA NewTaskInOrder ==
  ASSUME Init, TypeOK
  PROVE  Orderly
<1>1. PICK plan \in Plans : task = NewOfficeTask(plan)
  BY DEF Init
<1>2. /\ task.plan = plan /\ task.current_step = 1 /\ task.status = "open"
      /\ task.paper_route.error_code = "none"
      /\ task.steps = [i \in DOMAIN plan.steps |->
                         [status |-> "pending", revision_count |-> 0, output |-> 0]]
  BY <1>1 DEF NewOfficeTask
<1>3. /\ DOMAIN task.steps = DOMAIN plan.steps
      /\ \A i \in DOMAIN plan.steps :
           task.steps[i].status = "pending" /\ task.steps[i].revision_count = 0
  BY <1>2
<1>4. \A i \in DOMAIN plan.steps : ~(Stage(i) < Stage(1))
  <2>1. PICK n \in 1..5 : DOMAIN plan.steps = 1..n
    BY WorkflowSteps
  <2>2. \A i \in DOMAIN plan.steps : 1 <= i
    BY <2>1
  <2>3. \A i \in DOMAIN plan.steps : plan.steps[1].stage <= plan.steps[i].stage
    BY <2>2, WorkflowSteps, WorkflowOrder
  <2>4. \A i \in DOMAIN plan.steps : Stage(i) \in Nat /\ Stage(1) \in Nat
    BY <1>2, WorkflowSteps DEF Stage, StepPlan
  <2>5. QED
    BY <1>2, <2>3, <2>4 DEF Stage
<1>5. StagesInOrder
  BY <1>2, <1>3, <1>4 DEF StagesInOrder, StatusOf
<1>6. HolderMatchesStep /\ AwaitingIsCurrent /\ LimitStops /\ DoneSteps
  BY <1>2, <1>3 DEF HolderMatchesStep, AwaitingIsCurrent, LimitStops, DoneSteps, StatusOf
<1>7. RevisionsWithinAllowance
  <2>1. \A i \in DOMAIN plan.steps : 0 <= plan.steps[i].max_revisions
    BY WorkflowSteps DEF StepPlan
  <2>2. QED
    BY <1>2, <1>3, <2>1 DEF RevisionsWithinAllowance
<1>8. QED
  BY <1>5, <1>6, <1>7 DEF Orderly

\* No step of an employee or of the boss disturbs the order.
LEMMA StepKeepsOrder ==
  ASSUME TypeOK, Orderly, CheckpointsAlone(task.plan), [Next]_vars
  PROVE  Orderly'
<1>1. ASSUME NEW a \in Agents, Employee(a)
      PROVE  Orderly'
  BY <1>1, PickUpKeepsOrder, CompleteKeepsOrder, ApproveKeepsOrder, ReturnKeepsOrder,
     WaitForRunnerKeepsOrder DEF Employee
<1>2. ASSUME NEW retryable \in BOOLEAN, Fail(retryable)
      PROVE  Orderly'
  BY <1>2, FailKeepsOrder
<1>3. ASSUME NEW i \in DOMAIN task.steps, ApproveCheckpoint(i) \/ RejectCheckpoint(i)
      PROVE  Orderly'
  BY <1>3, ApproveCheckpointKeepsOrder, RejectCheckpointKeepsOrder
<1>4. CASE Retry
  BY <1>4, RetryKeepsOrder
<1>5. CASE UNCHANGED vars
  BY <1>5 DEF vars, Orderly, StagesInOrder, HolderMatchesStep, AwaitingIsCurrent, LimitStops,
              DoneSteps, RevisionsWithinAllowance, Stage, StatusOf, Current
<1>6. QED
  BY <1>1, <1>2, <1>3, <1>4, <1>5 DEF Next

\* On routes whose checkpoints stand alone in their stage the order of the
\* desks, the holder, the checkpoints and the revision limit hold together in
\* every state: they are inductive (finishStage, finishOfficeReview,
\* rejectOfficeCheckpoint, recoverOfficeTask).
THEOREM OrderCorrect ==
  ASSUME \A plan \in Plans : CheckpointsAlone(plan)
  PROVE  Spec => []Orderly
<1>1. Init /\ TypeOK => Orderly
  BY NewTaskInOrder
<1>2. TypeOK /\ Orderly /\ [Next]_vars => Orderly'
  <2>1. TypeOK => CheckpointsAlone(task.plan)
    BY DEF TypeOK
  <2>2. QED
    BY <2>1, StepKeepsOrder
<1>3. Spec => []TypeOK
  BY TypeCorrect
<1>4. QED
  BY <1>1, <1>2, <1>3, PTL DEF Spec

\* The paper never passes a desk that has not finished (finishStage).
THEOREM DesksInOrder ==
  ASSUME \A plan \in Plans : CheckpointsAlone(plan)
  PROVE  Spec => []StagesInOrder
<1>1. Orderly => StagesInOrder
  BY DEF Orderly
<1>2. QED
  BY <1>1, OrderCorrect, PTL

\* The task and its step agree on who works (claimOfficeStep, finishStage).
THEOREM HolderCorrect ==
  ASSUME \A plan \in Plans : CheckpointsAlone(plan)
  PROVE  Spec => []HolderMatchesStep
<1>1. Orderly => HolderMatchesStep
  BY DEF Orderly
<1>2. QED
  BY <1>1, OrderCorrect, PTL

\* No desk revises more often than its allowance, except for the rejection
\* that stops the task (finishOfficeReview, rejectOfficeCheckpoint).
THEOREM AllowanceCorrect ==
  ASSUME \A plan \in Plans : CheckpointsAlone(plan)
  PROVE  Spec => []RevisionsWithinAllowance
<1>1. Orderly => RevisionsWithinAllowance
  BY DEF Orderly
<1>2. QED
  BY <1>1, OrderCorrect, PTL

\* A task stopped by the revision limit never changes again (recoverOfficeTask:
\* "The workflow revision limit is final").
THEOREM LimitIsFinal ==
  ASSUME \A plan \in Plans : CheckpointsAlone(plan)
  PROVE  Spec => RevisionLimitFinal
<1>1. TypeOK /\ Orderly /\ [Next]_vars
        => [task.paper_route.error_code = "REVISION_LIMIT" => UNCHANGED task]_vars
  <2>1. SUFFICES ASSUME TypeOK, Orderly, [Next]_vars,
                        task.paper_route.error_code = "REVISION_LIMIT", ~UNCHANGED task
                 PROVE  FALSE
    OBVIOUS
  <2>2. /\ task.status = "failed" /\ task.paper_route.state = "exhausted"
        /\ StatusOf(task.current_step) = "changes_requested"
    BY <2>1 DEF Orderly, LimitStops
  <2>3. ASSUME NEW a \in Agents, Employee(a)
        PROVE  FALSE
    <3>1. ~PickUp(a)
      BY <2>1, PickUpClaims
    <3>2. ~Complete(a) /\ ~Approve(a) /\ ~Return(a) /\ ~WaitForRunner(a)
      BY <2>2 DEF Complete, CanCompleteOfficeWork, Approve, Return, CanFinishOfficeReview,
                  WaitForRunner, Eligible
    <3>3. QED
      BY <2>3, <3>1, <3>2 DEF Employee
  <2>4. \A retryable \in BOOLEAN : ~Fail(retryable)
    BY <2>2 DEF Fail, CanDeferOfficeStep
  <2>5. \A i \in DOMAIN task.steps : ~ApproveCheckpoint(i) /\ ~RejectCheckpoint(i)
    BY <2>1, <2>2 DEF ApproveCheckpoint, RejectCheckpoint, CanRejectCheckpoint, AwaitsApproval,
                      Orderly, AwaitingIsCurrent, StatusOf
  <2>6. ~Retry
    BY <2>1 DEF Retry, CanRecoverOfficeTask
  <2>7. QED
    BY <2>1, <2>3, <2>4, <2>5, <2>6 DEF Next, vars
<1>2. QED
  BY <1>1, TypeCorrect, OrderCorrect, PTL DEF Spec, RevisionLimitFinal

-----------------------------------------------------------------------------
(***************************************************************************)
(* A finished route is a reviewed route                                    *)
(***************************************************************************)

\* Only a desk's work waits for the boss, and a route with a reviewer ends approved.
Reviewed ==
  /\ \A i \in DOMAIN task.steps : StatusOf(i) = "awaiting_approval" => task.plan.steps[i].kind = "work"
  /\ task.status = "done" =>
       ((\E i \in DOMAIN task.steps : task.plan.steps[i].kind = "review")
          => task.review_decision = "approved")

\* finishStage, called for a desk, ends the route only when no reviewer follows.
LEMMA FinishingIsReviewed ==
  ASSUME TypeOK, NEW u \in Task(task.plan), NEW steps \in [DOMAIN task.plan.steps -> StepState],
         NEW i \in DOMAIN task.plan.steps, task.plan.steps[i].kind = "work",
         \A j \in DOMAIN task.plan.steps :
           steps[j].status = "awaiting_approval" => task.plan.steps[j].kind = "work",
         task' = FinishStage(u, steps, i)
  PROVE  Reviewed'
<1> DEFINE plan == task.plan
<1>1. plan \in Plans /\ \A j \in DOMAIN plan.steps : plan.steps[j].stage \in Nat
  BY TaskFacts DEF Stage
<1>2. PICK next \in DOMAIN plan.steps, status \in {"open", "review", "done"},
           decision \in {u.review_decision, "none"},
           result \in SUBSET ((DOMAIN plan.steps) \X Nat),
           route \in {ReadyPaperRoute(u.paper_route), Paused(u.paper_route)} :
        /\ FinishStage(u, steps, i) = Freed(u, steps, next, status, decision, result, route)
        /\ NextDesk(plan, steps, i, next, status)
  <2>1. StageEnds(plan, u, steps, i)
    BY <1>1, FinishStageCases
  <2>2. QED
    BY <2>1, Zenon DEF StageEnds
<1>3. task'.plan = plan /\ task'.steps = steps /\ task'.status = status
  BY <1>2 DEF Freed, Unassigned, Task
<1>4. ASSUME status = "done", NEW r \in DOMAIN plan.steps, plan.steps[r].kind = "review"
      PROVE  FALSE
  <2>1. plan.steps[i].stage < plan.steps[r].stage
    BY <1>1, <1>4, WorkflowOrder
  <2>2. plan.steps[r].stage <= plan.steps[i].stage
    <3>1. status # "open" /\ status # "review"
      BY <1>4
    <3>2. QED
      BY <1>2, <3>1 DEF NextDesk
  <2>3. QED
    BY <1>1, <2>1, <2>2
<1>5. QED
  BY <1>3, <1>4 DEF Reviewed, StatusOf

LEMMA StepIsReviewed ==
  ASSUME TypeOK, Orderly, Reviewed, [Next]_vars
  PROVE  Reviewed'
<1>1. /\ task.plan \in Plans /\ task \in Task(task.plan)
      /\ DOMAIN task.steps = DOMAIN task.plan.steps
      /\ task.current_step \in DOMAIN task.steps
      /\ task.steps \in [DOMAIN task.plan.steps -> StepState]
      /\ task.attempt \in Nat
  BY TaskFacts DEF Task
<1>2. ASSUME task'.plan = task.plan, DOMAIN task'.steps = DOMAIN task.steps, task'.status # "done",
             \A j \in DOMAIN task.steps :
               task'.steps[j].status = "awaiting_approval" => task.steps[j].status = "awaiting_approval"
      PROVE  Reviewed'
  BY <1>2 DEF Reviewed, StatusOf
<1>3. task'.plan = task.plan /\ DOMAIN task'.steps = DOMAIN task.steps
  BY <1>1, StepKeepsTask DEF Task
<1>4. ASSUME NEW a \in Agents, PickUp(a)
      PROVE  Reviewed'
  <2>1. task' = ClaimOfficeStep(task, a) /\ (Current(task).kind = "review" => task.status = "review")
    BY <1>4, PickUpClaims
  <2>2. /\ task'.steps = [task.steps EXCEPT ![task.current_step].status = "running"]
        /\ task'.status \in {"running", "review"}
    BY <1>1, <2>1 DEF ClaimOfficeStep, ClaimForReview, ClaimForOfficeWork, Task
  <2>3. \A j \in DOMAIN task.steps :
          task'.steps[j].status = "awaiting_approval" => task.steps[j].status = "awaiting_approval"
    BY <1>1, <2>2 DEF StepState
  <2>4. QED
    BY <1>2, <1>3, <2>2, <2>3
<1>5. ASSUME NEW a \in Agents, Complete(a)
      PROVE  Reviewed'
  <2> DEFINE i     == task.current_step
             end   == IF Current(task).requires_approval THEN "awaiting_approval" ELSE "done"
             steps == [task.steps EXCEPT ![i].status = end, ![i].output = task.attempt]
             alone == Members(task.plan, Current(task).stage) = {i}
             u     == [task EXCEPT !.result = IF alone THEN {<<i, task.attempt>>} ELSE @]
  <2>1. steps \in [DOMAIN task.plan.steps -> StepState]
    BY <1>1 DEF StepState, StepStatuses
  <2>2. u \in Task(task.plan)
    BY <1>1 DEF Task
  <2>3. task.plan.steps[i].kind = "work"
    BY <1>5 DEF Complete, CanCompleteOfficeWork, Current
  <2>4. \A j \in DOMAIN task.plan.steps : j # i => steps[j] = task.steps[j]
    BY <1>1
  <2>5. \A j \in DOMAIN task.plan.steps :
          steps[j].status = "awaiting_approval" => task.plan.steps[j].kind = "work"
    BY <1>1, <2>3, <2>4 DEF Reviewed, StatusOf
  <2>6. task' = FinishStage(u, steps, i)
    BY <1>5 DEF Complete, CompleteOfficeWork
  <2>7. QED
    <3> HIDE DEF steps, u
    <3>1. QED
      BY <1>1, <2>1, <2>2, <2>3, <2>5, <2>6, FinishingIsReviewed
<1>6. ASSUME NEW i \in DOMAIN task.steps, ApproveCheckpoint(i)
      PROVE  Reviewed'
  <2> DEFINE steps == [task.steps EXCEPT ![i].status = "done"]
  <2>1. steps \in [DOMAIN task.plan.steps -> StepState]
    BY <1>1 DEF StepState, StepStatuses
  <2>2. task.plan.steps[i].kind = "work"
    BY <1>6 DEF ApproveCheckpoint, AwaitsApproval, Reviewed, StatusOf
  <2>3. \A j \in DOMAIN task.plan.steps :
          steps[j].status = "awaiting_approval" => task.plan.steps[j].kind = "work"
    BY <1>1, <2>2 DEF Reviewed, StatusOf
  <2>4. task' = FinishStage(task, steps, i)
    BY <1>6 DEF ApproveCheckpoint, ApproveOfficeCheckpoint
  <2>5. QED
    <3> HIDE DEF steps
    <3>1. QED
      BY <1>1, <2>1, <2>2, <2>3, <2>4, FinishingIsReviewed
<1>7. ASSUME NEW a \in Agents, Approve(a)
      PROVE  Reviewed'
  <2>1. /\ task'.review_decision = "approved"
        /\ task'.steps = [task.steps EXCEPT ![task.current_step].status = "done"]
    BY <1>1, <1>7 DEF Approve, ApproveResult, Task
  <2>2. \A j \in DOMAIN task.steps :
          task'.steps[j].status = "awaiting_approval" => task.steps[j].status = "awaiting_approval"
    BY <1>1, <2>1 DEF StepState
  <2>3. QED
    BY <1>3, <2>1, <2>2 DEF Reviewed, StatusOf
<1>8. ASSUME NEW a \in Agents, Return(a)
      PROVE  Reviewed'
  <2>1. task'.status # "done" /\ task'.steps = ReturnedSteps(task, RejectionTarget(task))
    BY <1>1, <1>8 DEF Return, ReturnResult, Task
  <2>2. \A j \in DOMAIN task.steps :
          task'.steps[j].status = "awaiting_approval" => task.steps[j].status = "awaiting_approval"
    <3>1. \A j \in DOMAIN task.steps : task.steps[j] \in StepState
      BY <1>1
    <3>2. SUFFICES ASSUME NEW j \in DOMAIN task.steps
                   PROVE  task'.steps[j].status \in {"pending", "changes_requested", task.steps[j].status}
      OBVIOUS
    <3>3. task'.steps[j] \in
            {[task.steps[j] EXCEPT !.status = "pending", !.output = 0],
             [task.steps[j] EXCEPT !.status = "changes_requested", !.revision_count = @ + 1],
             task.steps[j]}
      BY <2>1, Zenon DEF ReturnedSteps
    <3>4. QED
      BY <3>1, <3>3 DEF StepState
  <2>3. QED
    BY <1>2, <1>3, <2>1, <2>2
<1>9. ASSUME NEW a \in Agents, WaitForRunner(a)
      PROVE  Reviewed'
  <2>1. /\ task'.steps = task.steps /\ task'.status = task.status
        /\ task'.review_decision = task.review_decision
    BY <1>1, <1>9 DEF WaitForRunner, MarkOfficeWaiting, Task
  <2>2. QED
    BY <1>3, <2>1 DEF Reviewed, StatusOf
<1>10. ASSUME NEW retryable \in BOOLEAN, Fail(retryable)
       PROVE  Reviewed'
  <2>1. task'.steps = task.steps /\ task'.status # "done"
    BY <1>1, <1>10 DEF Fail, CanDeferOfficeStep, DeferOfficeStep, Task
  <2>2. QED
    BY <1>2, <1>3, <2>1
<1>11. ASSUME NEW i \in DOMAIN task.steps, RejectCheckpoint(i)
       PROVE  Reviewed'
  <2>1. task' = RejectOfficeCheckpoint(task, i)
    BY <1>11 DEF RejectCheckpoint
  <2>2. task'.status # "done"
    BY <1>1, <2>1 DEF RejectOfficeCheckpoint, Unassigned, Task
  <2>3. task'.steps = [task.steps EXCEPT ![i].status = "changes_requested", ![i].revision_count = @ + 1]
    BY <1>1, <2>1 DEF RejectOfficeCheckpoint, Unassigned, Task
  <2>4. \A j \in DOMAIN task.steps :
          task'.steps[j].status = "awaiting_approval" => task.steps[j].status = "awaiting_approval"
    BY <1>1, <2>3 DEF StepState
  <2>5. QED
    BY <1>2, <1>3, <2>2, <2>4
<1>12. CASE Retry
  <2>1. PICK s \in {"pending", "changes_requested"} :
          /\ task'.steps = [task.steps EXCEPT ![task.current_step].status = s]
          /\ task'.status # "done"
    BY <1>1, <1>12 DEF Retry, RecoverOfficeTask, Task
  <2>2. \A j \in DOMAIN task.steps :
          task'.steps[j].status = "awaiting_approval" => task.steps[j].status = "awaiting_approval"
    BY <1>1, <2>1 DEF StepState
  <2>3. QED
    BY <1>2, <1>3, <2>1, <2>2
<1>13. CASE UNCHANGED vars
  BY <1>13 DEF vars, Reviewed, StatusOf
<1>14. QED
  BY <1>4, <1>5, <1>6, <1>7, <1>8, <1>9, <1>10, <1>11, <1>12, <1>13 DEF Next, Employee

\* A task is done only when every desk is, and a route with a reviewer only
\* with the reviewer's approval (finishStage, finishOfficeReview).
THEOREM DoneCorrect ==
  ASSUME \A plan \in Plans : CheckpointsAlone(plan)
  PROVE  Spec => []DoneIsComplete
<1>1. Init => Reviewed
  BY DEF Init, NewOfficeTask, Reviewed, StatusOf
<1>2. TypeOK /\ Orderly /\ Reviewed /\ [Next]_vars => Reviewed'
  BY StepIsReviewed
<1>3. Orderly /\ Reviewed => DoneIsComplete
  BY DEF Orderly, DoneSteps, Reviewed, DoneIsComplete
<1>4. QED
  BY <1>1, <1>2, <1>3, TypeCorrect, OrderCorrect, PTL DEF Spec
===============================================================================
