--------------------------- MODULE OfficeTaskProofs ---------------------------
(***************************************************************************)
(* Lemmas about workflows, and about each transition: it returns a task of *)
(* the same workflow, and one that parses.  OfficeBoardProofs and          *)
(* OfficeRuntimeProofs rest on them.                                       *)
(***************************************************************************)
EXTENDS OfficeTask, TLAPS

-----------------------------------------------------------------------------
(***************************************************************************)
(* Workflows                                                               *)
(***************************************************************************)

\* A workflow has one to five steps, numbered from 1.
LEMMA WorkflowSteps ==
  ASSUME NEW plan \in Plans
  PROVE  /\ plan.steps \in [DOMAIN plan.steps -> StepPlan]
         /\ plan.max_retries \in Nat
         /\ 1 \in DOMAIN plan.steps
         /\ \E n \in 1..5 : DOMAIN plan.steps = 1..n
<1>1. ValidWorkflow(plan) /\ plan.steps \in [DOMAIN plan.steps -> StepPlan] /\ plan.max_retries \in Nat
  BY PlansAssumption
<1>2. /\ Cardinality(DOMAIN plan.steps) \in 1..5
      /\ DOMAIN plan.steps = 1..Cardinality(DOMAIN plan.steps)
  BY <1>1, Zenon DEF ValidWorkflow
<1>3. QED
  BY <1>1, <1>2

\* The smallest of a non-empty set of steps.
LEMMA FirstIsLeast ==
  ASSUME NEW n \in 1..5, NEW S \in SUBSET (1..n), S # {}
  PROVE  First(S) \in S /\ \A j \in S : First(S) <= j
<1>1. \E i \in S : \A j \in S : i <= j
  <2>1. PICK k \in S : TRUE
    OBVIOUS
  <2>2. CASE 1 \in S
    BY <2>2
  <2>3. CASE 1 \notin S /\ 2 \in S
    BY <2>3
  <2>4. CASE 1 \notin S /\ 2 \notin S /\ 3 \in S
    BY <2>4
  <2>5. CASE 1 \notin S /\ 2 \notin S /\ 3 \notin S /\ 4 \in S
    BY <2>5
  <2>6. CASE 1 \notin S /\ 2 \notin S /\ 3 \notin S /\ 4 \notin S
    <3>1. \A j \in S : j = 5
      BY <2>6
    <3>2. QED
      BY <2>1, <3>1
  <2>7. QED
    BY <2>2, <2>3, <2>4, <2>5, <2>6
<1>2. QED
  BY <1>1 DEF First

\* The steps of a workflow are in the order of their stages; a review is alone
\* in the last stage, behind at least one desk.
LEMMA WorkflowOrder ==
  ASSUME NEW plan \in Plans
  PROVE  /\ \A i, j \in DOMAIN plan.steps : i <= j => plan.steps[i].stage <= plan.steps[j].stage
         /\ \A i, j \in DOMAIN plan.steps :
              (plan.steps[i].kind = "review" /\ j # i) =>
                j < i /\ plan.steps[j].stage < plan.steps[i].stage /\ plan.steps[j].kind = "work"
         /\ \A i \in DOMAIN plan.steps : plan.steps[i].kind = "review" => i # 1
<1>1. PICK n \in 1..5 : DOMAIN plan.steps = 1..n
  BY WorkflowSteps
<1>2. \A i \in 1..n : plan.steps[i] \in StepPlan
  BY <1>1, WorkflowSteps
<1>3. \A i \in 1..n : plan.steps[i].stage \in Nat /\ plan.steps[i].kind \in {"work", "review"}
  BY <1>2 DEF StepPlan
<1>4. \A i \in 2..n : plan.steps[i].stage \in {plan.steps[i-1].stage, plan.steps[i-1].stage + 1}
  <2>1. \A i \in (DOMAIN plan.steps) \ {1} :
           plan.steps[i].stage \in {plan.steps[i-1].stage, plan.steps[i-1].stage + 1}
    BY PlansAssumption DEF ValidWorkflow
  <2>2. \A i \in 2..n : i \in (DOMAIN plan.steps) \ {1}
    BY <1>1
  <2>3. QED
    BY <2>1, <2>2
<1>5. \A i \in 2..n : plan.steps[i-1].stage <= plan.steps[i].stage
  BY <1>3, <1>4
<1>6. \A i, j \in 1..n : i <= j => plan.steps[i].stage <= plan.steps[j].stage
  <2>1. SUFFICES ASSUME NEW i \in 1..n, NEW j \in 1..n, i <= j
                 PROVE  plan.steps[i].stage <= plan.steps[j].stage
    OBVIOUS
  <2> DEFINE st(k) == plan.steps[k].stage
  <2>2. \A k \in 1..n : st(k) \in Nat
    BY <1>3
  <2>3. \A k \in 2..n : st(k-1) <= st(k)
    BY <1>5
  <2> HIDE DEF st
  <2>4. /\ n >= 2 => st(1) <= st(2)
        /\ n >= 3 => st(2) <= st(3)
        /\ n >= 4 => st(3) <= st(4)
        /\ n >= 5 => st(4) <= st(5)
    BY <2>3
  <2>5. st(i) <= st(j)
    BY <2>1, <2>2, <2>4
  <2>6. QED
    BY <2>5 DEF st
<1>7. \A i \in 1..n : plan.steps[i].kind = "review" => i = n
  BY PlansAssumption, <1>1 DEF ValidWorkflow
<1>8. \A i, j \in 1..n : (i # j /\ plan.steps[i].stage = plan.steps[j].stage) => plan.steps[i].kind = "work"
  BY PlansAssumption, <1>1 DEF ValidWorkflow
<1>9. plan.steps[1].kind = "work"
  BY PlansAssumption, <1>1 DEF ValidWorkflow
<1>10. QED
  BY <1>1, <1>3, <1>6, <1>7, <1>8, <1>9

\* The desk a reviewer returns the paper to: an earlier desk, in an earlier stage.
LEMMA TargetIsEarlierWork ==
  ASSUME NEW plan \in Plans, NEW t \in Task(plan), Current(t).kind = "review"
  PROVE  /\ RejectionTarget(t) \in DOMAIN plan.steps
         /\ RejectionTarget(t) # t.current_step
         /\ plan.steps[RejectionTarget(t)].kind = "work"
<1>1. t.plan = plan /\ t.current_step \in DOMAIN plan.steps /\ DOMAIN t.steps = DOMAIN plan.steps
  BY DEF Task
<1>2. plan.steps[t.current_step].kind = "review"
  BY <1>1 DEF Current
<1>3. CASE plan.rejection_target_step # 0
  <2>1. /\ plan.rejection_target_step \in DOMAIN plan.steps
        /\ plan.steps[plan.rejection_target_step].kind = "work"
    <3>1. ValidWorkflow(plan)
      BY PlansAssumption
    <3>2. QED
      BY <1>3, <3>1, Zenon DEF ValidWorkflow
  <2>2. QED
    BY <1>1, <1>2, <1>3, <2>1 DEF RejectionTarget
<1>4. CASE plan.rejection_target_step = 0
  <2> DEFINE c == t.current_step
             Last(i) == /\ i < c /\ plan.steps[i].kind = "work"
                        /\ \A j \in DOMAIN plan.steps : (i < j /\ j < c) => plan.steps[j].kind # "work"
  <2>1. PICK n \in 1..5 : DOMAIN plan.steps = 1..n
    BY WorkflowSteps
  <2>2. c \in 2..n
    BY <1>1, <1>2, <2>1, WorkflowOrder
  <2>3. c - 1 \in DOMAIN plan.steps /\ Last(c - 1)
    <3>1. c - 1 \in DOMAIN plan.steps /\ c - 1 # c /\ c \in DOMAIN plan.steps
      BY <2>1, <2>2
    <3>2. plan.steps[c - 1].kind = "work"
      BY <3>1, <1>2, WorkflowOrder
    <3>3. \A j \in DOMAIN plan.steps : ~(c - 1 < j /\ j < c)
      BY <2>1, <2>2
    <3>4. QED
      BY <2>2, <3>1, <3>2, <3>3
  <2>4. RejectionTarget(t) = CHOOSE i \in DOMAIN plan.steps : Last(i)
    BY <1>1, <1>4 DEF RejectionTarget
  <2>5. RejectionTarget(t) \in DOMAIN plan.steps /\ Last(RejectionTarget(t))
    BY <2>3, <2>4
  <2>6. QED
    BY <2>1, <2>2, <2>5
<1>5. QED
  BY <1>3, <1>4

-----------------------------------------------------------------------------
(***************************************************************************)
(* Every transition returns a task                                         *)
(***************************************************************************)

\* The route of a task that waits for the boss.
Paused(r) == [ReadyPaperRoute(r) EXCEPT !.state = "waiting"]

LEMMA RouteType ==
  ASSUME NEW r \in PaperRoute
  PROVE  /\ ActivePaperRoute(r) \in PaperRoute
         /\ ReadyPaperRoute(r) \in PaperRoute
         /\ RevisionLimitRoute(r) \in PaperRoute
         /\ Paused(r) \in PaperRoute
BY DEF PaperRoute, RouteStates, ErrorCodes, ActivePaperRoute, ReadyPaperRoute, Paused, RevisionLimitRoute

LEMMA StageOutputType ==
  ASSUME NEW plan \in Plans, NEW steps \in [DOMAIN plan.steps -> StepState], NEW stage
  PROVE  StageOutput(plan, steps, stage) \in SUBSET ((DOMAIN plan.steps) \X Nat)
<1>1. \A j \in DOMAIN plan.steps : steps[j].output \in Nat
  BY DEF StepState
<1>2. QED
  BY <1>1 DEF StageOutput, Members

LEMMA UnassignedType ==
  ASSUME NEW plan \in Plans, NEW t \in Task(plan)
  PROVE  Unassigned(t) \in Task(plan)
BY DEF Task, Unassigned

\* A step of the task has ended and nobody has it: what finishStage returns.
Freed(t, steps, next, status, decision, result, route) ==
  [Unassigned(t) EXCEPT !.steps = steps, !.paper_route = route, !.status = status,
                        !.current_step = next, !.result = result, !.review_decision = decision]

\* The choice of the next step: another branch of the stage, a branch that waits
\* for the boss, nobody, or the first step of a later stage.
NextDesk(plan, steps, i, next, status) ==
  LET stage == plan.steps[i].stage
      over  == \A j \in Members(plan, stage) : steps[j].status \notin Runnable \union {"awaiting_approval"}
  IN  \/ /\ status = "open" /\ plan.steps[next].stage = stage
         /\ steps[next].status \in Runnable \union {"awaiting_approval"}
      \/ /\ status = "done" /\ next = i /\ over
         /\ \A j \in DOMAIN plan.steps : plan.steps[j].stage <= stage
      \/ /\ status = IF plan.steps[next].kind = "review" THEN "review" ELSE "open"
         /\ plan.steps[next].stage > stage /\ over
         /\ \A j \in DOMAIN plan.steps : plan.steps[j].stage > stage => next <= j

\* The record finishStage returns is one of these.
StageEnds(plan, t, steps, i) ==
  \E next \in DOMAIN plan.steps, status \in {"open", "review", "done"},
    decision \in {t.review_decision, "none"},
    result \in SUBSET ((DOMAIN plan.steps) \X Nat),
    route \in {ReadyPaperRoute(t.paper_route),
               Paused(t.paper_route)} :
      /\ FinishStage(t, steps, i) = Freed(t, steps, next, status, decision, result, route)
      /\ NextDesk(plan, steps, i, next, status)

\* The possible outcomes of finishStage.
LEMMA FinishStageCases ==
  ASSUME NEW plan \in Plans, NEW t \in Task(plan),
         NEW steps \in [DOMAIN plan.steps -> StepState], NEW i \in DOMAIN plan.steps
  PROVE  StageEnds(plan, t, steps, i)
<1> DEFINE stage    == plan.steps[i].stage
           members  == Members(plan, stage)
           runnable == {j \in members : steps[j].status \in Runnable}
           awaiting == {j \in members : steps[j].status = "awaiting_approval"}
           later    == {j \in DOMAIN plan.steps : plan.steps[j].stage > stage}
           outputs  == StageOutput(plan, steps, stage)
           result   == IF members # {i} /\ outputs # {} THEN outputs ELSE t.result
           ready    == ReadyPaperRoute(t.paper_route)
<1>1. t.plan = plan /\ t.result \in SUBSET ((DOMAIN plan.steps) \X Nat)
  BY DEF Task
<1>2. result \in SUBSET ((DOMAIN plan.steps) \X Nat)
  BY <1>1, StageOutputType
<1>3. PICK n \in 1..5 : DOMAIN plan.steps = 1..n
  BY WorkflowSteps
<1>4. \A j \in DOMAIN plan.steps : plan.steps[j].stage \in Nat
  BY WorkflowSteps DEF StepPlan
<1>5. /\ runnable \in SUBSET (1..n) /\ awaiting \in SUBSET (1..n) /\ later \in SUBSET (1..n)
  BY <1>3 DEF Members
<1>6. CASE runnable # {}
  <2>1. First(runnable) \in runnable
    BY <1>5, <1>6, FirstIsLeast
  <2>2. FinishStage(t, steps, i) =
          Freed(t, steps, First(runnable), "open", t.review_decision, t.result, ready)
    BY <1>1, <1>6 DEF Freed, FinishStage, Unassigned, Task
  <2>3. QED
    BY <1>1, <2>1, <2>2 DEF Members, NextDesk, StageEnds
<1>7. CASE runnable = {} /\ awaiting # {}
  <2>1. First(awaiting) \in awaiting
    BY <1>5, <1>7, FirstIsLeast
  <2>2. FinishStage(t, steps, i) =
          Freed(t, steps, First(awaiting), "open", t.review_decision, t.result,
                Paused(t.paper_route))
    BY <1>1, <1>7 DEF Freed, FinishStage, Paused, Unassigned, Task
  <2>3. QED
    BY <1>1, <2>1, <2>2 DEF Members, NextDesk, StageEnds
<1>8. CASE runnable = {} /\ awaiting = {} /\ later = {}
  <2>1. FinishStage(t, steps, i) = Freed(t, steps, i, "done", t.review_decision, result, ready)
    BY <1>1, <1>8 DEF Freed, FinishStage, Unassigned, Task
  <2>2. \A j \in members : steps[j].status \notin Runnable \union {"awaiting_approval"}
    BY <1>8
  <2>3. \A j \in DOMAIN plan.steps : plan.steps[j].stage <= stage
    BY <1>4, <1>8
  <2>4. QED
    BY <1>2, <2>1, <2>2, <2>3 DEF NextDesk, StageEnds
<1>9. CASE runnable = {} /\ awaiting = {} /\ later # {}
  <2>1. First(later) \in later /\ \A j \in later : First(later) <= j
    BY <1>5, <1>9, FirstIsLeast
  <2> DEFINE status == IF plan.steps[First(later)].kind = "review" THEN "review" ELSE "open"
  <2>2. FinishStage(t, steps, i) =
          Freed(t, steps, First(later), status, "none", result, ready)
    <3>1. CASE plan.steps[First(later)].kind = "review"
      BY <1>1, <1>9, <3>1, SMTT(30) DEF Freed, FinishStage, Unassigned, Task
    <3>2. CASE plan.steps[First(later)].kind # "review"
      BY <1>1, <1>9, <3>2, SMTT(30) DEF Freed, FinishStage, Unassigned, Task
    <3>3. QED
      BY <3>1, <3>2
  <2>3. \A j \in members : steps[j].status \notin Runnable \union {"awaiting_approval"}
    BY <1>9
  <2>4. QED
    BY <1>2, <2>1, <2>2, <2>3 DEF NextDesk, StageEnds
<1>10. QED
  BY <1>6, <1>7, <1>8, <1>9

LEMMA FinishStageType ==
  ASSUME NEW plan \in Plans, NEW t \in Task(plan),
         NEW steps \in [DOMAIN plan.steps -> StepState], NEW i \in DOMAIN plan.steps
  PROVE  FinishStage(t, steps, i) \in Task(plan)
<1>1. PICK next \in DOMAIN plan.steps, status \in {"open", "review", "done"},
           decision \in {t.review_decision, "none"},
           result \in SUBSET ((DOMAIN plan.steps) \X Nat),
           route \in {ReadyPaperRoute(t.paper_route),
                      Paused(t.paper_route)} :
        /\ FinishStage(t, steps, i) = Freed(t, steps, next, status, decision, result, route)
        /\ NextDesk(plan, steps, i, next, status)
  <2>1. StageEnds(plan, t, steps, i)
    BY FinishStageCases
  <2>2. QED
    BY <2>1, Zenon DEF StageEnds
<1>2. t.paper_route \in PaperRoute /\ t.review_decision \in {"none", "approved", "changes_requested"}
  BY DEF Task
<1>3. route \in PaperRoute
  BY <1>2, RouteType
<1>4. Unassigned(t) \in Task(plan)
  BY UnassignedType
<1>5. QED
  <2>1. status \in Statuses /\ decision \in {"none", "approved", "changes_requested"}
    BY <1>2 DEF Statuses
  <2>2. Freed(t, steps, next, status, decision, result, route) \in Task(plan)
    BY <1>3, <1>4, <2>1 DEF Freed, Task
  <2>3. QED
    BY <1>1, <2>2

\* The changes of one step's record.
LEMMA StepType ==
  ASSUME NEW s \in StepState
  PROVE  /\ \A st \in StepStatuses : [s EXCEPT !.status = st] \in StepState
         /\ [s EXCEPT !.status = "pending", !.output = 0] \in StepState
         /\ [s EXCEPT !.status = "changes_requested", !.revision_count = @ + 1] \in StepState
<1>1. s.revision_count + 1 \in Nat
  BY DEF StepState
<1>2. QED
  BY <1>1 DEF StepState, StepStatuses

LEMMA TakeType ==
  ASSUME NEW plan \in Plans, NEW t \in Task(plan), NEW a \in Agents, NEW erred
  PROVE  Take(t, a, erred) \in Task(plan)
<1>1. t.paper_route \in PaperRoute /\ ActivePaperRoute(t.paper_route) \in PaperRoute
  BY RouteType DEF Task
<1>2. ResumeOfficeStep(t) \in Task(plan)
  BY <1>1 DEF ResumeOfficeStep, Task
<1>3. ClaimForReview(t, a) \in Task(plan) /\ ClaimForOfficeWork(t, a) \in Task(plan)
  <2>1. ClaimForReview(t, a) \in Task(plan)
    BY <1>1 DEF ClaimForReview, Task
  <2>2. t.attempt + 1 \in Nat
    BY DEF Task
  <2>3. ClaimForOfficeWork(t, a) \in Task(plan)
    BY <1>1, <2>2 DEF ClaimForOfficeWork, Task, Statuses
  <2>4. QED
    BY <2>1, <2>3
<1>4. ClaimOfficeStep(t, a) \in Task(plan)
  <2>1. ASSUME NEW c \in Task(plan), NEW i \in DOMAIN plan.steps
        PROVE  [c EXCEPT !.steps[i].status = "running"] \in Task(plan)
    <3>1. [c.steps EXCEPT ![i].status = "running"] \in [DOMAIN plan.steps -> StepState]
      BY DEF Task, StepState, StepStatuses
    <3>2. QED
      BY <3>1 DEF Task
  <2>2. t.current_step \in DOMAIN plan.steps
    BY DEF Task
  <2>3. QED
    BY <1>3, <2>1, <2>2 DEF ClaimOfficeStep
<1>5. QED
  BY <1>2, <1>4 DEF Take

LEMMA CompleteType ==
  ASSUME NEW plan \in Plans, NEW t \in Task(plan)
  PROVE  CompleteOfficeWork(t) \in Task(plan)
<1> DEFINE i     == t.current_step
           steps == [t.steps EXCEPT
                       ![i].status = IF Current(t).requires_approval THEN "awaiting_approval" ELSE "done",
                       ![i].output = t.attempt]
           alone == Members(t.plan, Current(t).stage) = {i}
           u     == [t EXCEPT !.result = IF alone THEN {<<i, t.attempt>>} ELSE @]
<1>1. i \in DOMAIN plan.steps /\ t.attempt \in Nat /\ t.steps \in [DOMAIN plan.steps -> StepState]
  BY DEF Task
<1>2. steps \in [DOMAIN plan.steps -> StepState]
  BY <1>1 DEF StepState, StepStatuses
<1>3. u \in Task(plan)
  BY <1>1 DEF Task
<1>4. FinishStage(u, steps, i) \in Task(plan)
  <2> HIDE DEF u, steps, i
  <2>1. QED
    BY <1>1, <1>2, <1>3, FinishStageType
<1>5. QED
  BY <1>4 DEF CompleteOfficeWork

LEMMA ApproveType ==
  ASSUME NEW plan \in Plans, NEW t \in Task(plan)
  PROVE  ApproveResult(t) \in Task(plan)
<1>1. t.paper_route \in PaperRoute /\ ReadyPaperRoute(t.paper_route) \in PaperRoute
  BY RouteType DEF Task
<1>2. [t.steps EXCEPT ![t.current_step].status = "done"] \in [DOMAIN plan.steps -> StepState]
  BY DEF Task, StepState, StepStatuses
<1>3. QED
  BY <1>1, <1>2 DEF ApproveResult, Task, Statuses

LEMMA ReturnedStepsType ==
  ASSUME NEW plan \in Plans, NEW t \in Task(plan), NEW target \in DOMAIN plan.steps
  PROVE  ReturnedSteps(t, target) \in [DOMAIN plan.steps -> StepState]
<1>1. t.steps \in [DOMAIN plan.steps -> StepState]
  BY DEF Task
<1>2. \A i \in DOMAIN plan.steps :
        /\ t.steps[i] \in StepState
        /\ [t.steps[i] EXCEPT !.status = "pending", !.output = 0] \in StepState
        /\ [t.steps[i] EXCEPT !.status = "changes_requested", !.revision_count = @ + 1] \in StepState
  BY <1>1, StepType
<1>3. QED
  BY <1>1, <1>2 DEF ReturnedSteps

LEMMA ReturnType ==
  ASSUME NEW plan \in Plans, NEW t \in Task(plan), Current(t).kind = "review"
  PROVE  ReturnResult(t) \in Task(plan)
<1> DEFINE target == RejectionTarget(t)
           steps  == ReturnedSteps(t, target)
           result == StageOutput(plan, steps, plan.steps[target].stage - 1)
<1>1. target \in DOMAIN plan.steps
  BY TargetIsEarlierWork
<1>2. steps \in [DOMAIN plan.steps -> StepState]
  <2> HIDE DEF target
  <2>1. QED
    BY <1>1, ReturnedStepsType
<1>3. result \in SUBSET ((DOMAIN plan.steps) \X Nat)
  <2> HIDE DEF steps, target
  <2>1. QED
    BY <1>2, StageOutputType
<1>4. /\ t.paper_route \in PaperRoute
      /\ ReadyPaperRoute(t.paper_route) \in PaperRoute
      /\ RevisionLimitRoute(t.paper_route) \in PaperRoute
  BY RouteType DEF Task
<1>5. t.plan = plan
  BY DEF Task
<1>6. ReturnResult(t) =
        [t EXCEPT !.status = IF Exhausts(t, target) THEN "failed" ELSE "open",
                  !.worker_did = IF Exhausts(t, target) THEN @ ELSE None,
                  !.worker_lease_until = FALSE, !.reviewer_lease_until = FALSE,
                  !.review_decision = "changes_requested", !.result = result,
                  !.paper_route = IF Exhausts(t, target) THEN RevisionLimitRoute(@)
                                                         ELSE ReadyPaperRoute(@),
                  !.current_step = target, !.steps = steps]
  BY <1>5 DEF ReturnResult
<1>7. QED
  <2> HIDE DEF target, steps, result
  <2>1. CASE Exhausts(t, target)
    BY <1>1, <1>2, <1>3, <1>4, <1>6, <2>1 DEF Task, Statuses
  <2>2. CASE ~Exhausts(t, target)
    BY <1>1, <1>2, <1>3, <1>4, <1>6, <2>2 DEF Task, Statuses
  <2>3. QED
    BY <2>1, <2>2

LEMMA ApproveCheckpointType ==
  ASSUME NEW plan \in Plans, NEW t \in Task(plan), NEW i \in DOMAIN plan.steps
  PROVE  ApproveOfficeCheckpoint(t, i) \in Task(plan)
<1>1. [t.steps EXCEPT ![i].status = "done"] \in [DOMAIN plan.steps -> StepState]
  BY DEF Task, StepState, StepStatuses
<1>2. QED
  BY <1>1, FinishStageType DEF ApproveOfficeCheckpoint

LEMMA RejectCheckpointType ==
  ASSUME NEW plan \in Plans, NEW t \in Task(plan), NEW i \in DOMAIN plan.steps
  PROVE  RejectOfficeCheckpoint(t, i) \in Task(plan)
<1>1. t.steps[i] \in StepState /\ t.steps \in [DOMAIN plan.steps -> StepState]
  BY DEF Task
<1>2. [t.steps[i] EXCEPT !.status = "changes_requested", !.revision_count = @ + 1] \in StepState
  BY <1>1, StepType
<1>3. /\ t.paper_route \in PaperRoute
      /\ ReadyPaperRoute(t.paper_route) \in PaperRoute
      /\ RevisionLimitRoute(t.paper_route) \in PaperRoute
  BY RouteType DEF Task
<1>4. Unassigned(t) \in Task(plan)
  BY UnassignedType
<1>5. /\ Unassigned(t).paper_route = t.paper_route
      /\ Unassigned(t).steps = t.steps
  BY DEF Task, Unassigned
<1>6. [Unassigned(t).steps EXCEPT ![i].status = "changes_requested", ![i].revision_count = @ + 1]
        \in [DOMAIN plan.steps -> StepState]
  BY <1>1, <1>5 DEF StepState, StepStatuses
<1>7. CASE Exhausts(t, i)
  BY <1>3, <1>4, <1>5, <1>6, <1>7 DEF RejectOfficeCheckpoint, Task, Statuses
<1>8. CASE ~Exhausts(t, i)
  BY <1>3, <1>4, <1>5, <1>6, <1>8 DEF RejectOfficeCheckpoint, Task, Statuses
<1>9. QED
  BY <1>7, <1>8

LEMMA RecoverType ==
  ASSUME NEW plan \in Plans, NEW t \in Task(plan)
  PROVE  RecoverOfficeTask(t) \in Task(plan)
<1>1. t.paper_route \in PaperRoute /\ ReadyPaperRoute(t.paper_route) \in PaperRoute
  BY RouteType DEF Task
<1>2. \A s \in {"pending", "changes_requested"} :
        [t.steps EXCEPT ![t.current_step].status = s] \in [DOMAIN plan.steps -> StepState]
  BY DEF Task, StepState, StepStatuses
<1>3. QED
  BY <1>1, <1>2 DEF RecoverOfficeTask, Task, Statuses

LEMMA DeferType ==
  ASSUME NEW plan \in Plans, NEW t \in Task(plan), NEW retryable \in BOOLEAN
  PROVE  DeferOfficeStep(t, retryable) \in Task(plan)
<1>1. t.paper_route.retry_count + 1 \in Nat
  BY DEF Task, PaperRoute
<1> DEFINE over  == retryable /\ t.paper_route.retry_count + 1 >= t.plan.max_retries
           state == IF over THEN "exhausted" ELSE IF retryable THEN "retrying" ELSE "blocked"
           next  == retryable /\ ~over
           route == [state |-> state, retry_count |-> t.paper_route.retry_count + 1,
                     next_retry_at |-> next, error_code |-> "provider"]
<1>2. state \in RouteStates /\ next \in BOOLEAN
  BY DEF RouteStates
<1>3. route \in PaperRoute
  <2> HIDE DEF state, next
  <2>1. QED
    BY <1>1, <1>2 DEF PaperRoute, ErrorCodes
<1>4. DeferOfficeStep(t, retryable) =
        [t EXCEPT !.status = IF over THEN "failed" ELSE @,
                  !.worker_lease_until = FALSE, !.reviewer_lease_until = FALSE, !.paper_route = route]
  BY Zenon DEF DeferOfficeStep
<1>5. QED
  <2> HIDE DEF over, route
  <2>1. QED
    BY <1>3, <1>4 DEF Task, Statuses

LEMMA WaitingType ==
  ASSUME NEW plan \in Plans, NEW t \in Task(plan)
  PROVE  MarkOfficeWaiting(t) \in Task(plan)
BY DEF MarkOfficeWaiting, Task, PaperRoute, RouteStates, ErrorCodes

LEMMA InitialTask ==
  ASSUME NEW plan \in Plans
  PROVE  NewOfficeTask(plan) \in Task(plan)
<1>1. 1 \in DOMAIN plan.steps
  BY WorkflowSteps
<1>2. [i \in DOMAIN plan.steps |-> [status |-> "pending", revision_count |-> 0, output |-> 0]]
        \in [DOMAIN plan.steps -> StepState]
  BY DEF StepState, StepStatuses
<1>3. QED
  BY <1>1, <1>2 DEF NewOfficeTask, Task, Statuses, PaperRoute, RouteStates, ErrorCodes

\* What the changes of a route leave in it.
LEMMA RouteFields ==
  ASSUME NEW r \in PaperRoute
  PROVE  /\ ActivePaperRoute(r).error_code = "none"
         /\ ReadyPaperRoute(r).error_code = "none"
         /\ Paused(r).error_code = "none"
         /\ RevisionLimitRoute(r).error_code = "REVISION_LIMIT"
         /\ RevisionLimitRoute(r).state = "exhausted"
BY DEF PaperRoute, ActivePaperRoute, ReadyPaperRoute, Paused, RevisionLimitRoute

-----------------------------------------------------------------------------
(***************************************************************************)
(* Every transition that is not checked for it returns a task that parses  *)
(***************************************************************************)

\* The counters are as they were, or the failures are forgotten.
LEMMA CountersKept ==
  ASSUME NEW t, NEW u, Parses(t), u.paper_route.retry_count \in {0, t.paper_route.retry_count},
         DOMAIN u.steps = DOMAIN t.steps,
         \A i \in DOMAIN t.steps : u.steps[i].revision_count = t.steps[i].revision_count
  PROVE  Parses(u)
BY TaskAssumption DEF Parses

LEMMA RouteCounters ==
  ASSUME NEW r \in PaperRoute
  PROVE  /\ ActivePaperRoute(r).retry_count = r.retry_count
         /\ ReadyPaperRoute(r).retry_count = 0 /\ Paused(r).retry_count = 0
BY DEF PaperRoute, ActivePaperRoute, ReadyPaperRoute, Paused

LEMMA TakeParses ==
  ASSUME NEW plan \in Plans, NEW t \in Task(plan), NEW a \in Agents, NEW erred, Parses(t)
  PROVE  Parses(Take(t, a, erred))
<1>1. /\ t.paper_route \in PaperRoute /\ t.steps \in [DOMAIN plan.steps -> StepState]
      /\ t.current_step \in DOMAIN plan.steps
      /\ ActivePaperRoute(t.paper_route).retry_count = t.paper_route.retry_count
  BY RouteCounters DEF Task
<1>2. Parses(ResumeOfficeStep(t))
  BY <1>1, CountersKept DEF ResumeOfficeStep, Task
<1>3. \A u \in {ClaimForReview(t, a), ClaimForOfficeWork(t, a)} :
        /\ u.steps = t.steps /\ u.paper_route = ActivePaperRoute(t.paper_route)
        /\ [u EXCEPT !.steps[t.current_step].status = "running"].steps
             = [t.steps EXCEPT ![t.current_step].status = "running"]
        /\ [u EXCEPT !.steps[t.current_step].status = "running"].paper_route = u.paper_route
  BY DEF ClaimForReview, ClaimForOfficeWork, Task
<1>4. Parses(ClaimOfficeStep(t, a))
  <2>1. ClaimOfficeStep(t, a).paper_route = ActivePaperRoute(t.paper_route)
    BY <1>3 DEF ClaimOfficeStep
  <2>2. ClaimOfficeStep(t, a).steps = [t.steps EXCEPT ![t.current_step].status = "running"]
    BY <1>3 DEF ClaimOfficeStep
  <2>3. \A i \in DOMAIN t.steps :
          [t.steps EXCEPT ![t.current_step].status = "running"][i].revision_count = t.steps[i].revision_count
    BY <1>1 DEF StepState
  <2> QED
    BY <1>1, <2>1, <2>2, <2>3, CountersKept
<1> QED
  BY <1>2, <1>4 DEF Take

LEMMA FinishStageParses ==
  ASSUME NEW plan \in Plans, NEW t \in Task(plan), Parses(t),
         NEW steps \in [DOMAIN plan.steps -> StepState], NEW i \in DOMAIN plan.steps,
         \A j \in DOMAIN plan.steps : steps[j].revision_count = t.steps[j].revision_count
  PROVE  Parses(FinishStage(t, steps, i))
<1>1. PICK next \in DOMAIN plan.steps, status \in {"open", "review", "done"},
           decision \in {t.review_decision, "none"},
           result \in SUBSET ((DOMAIN plan.steps) \X Nat),
           route \in {ReadyPaperRoute(t.paper_route), Paused(t.paper_route)} :
        FinishStage(t, steps, i) = Freed(t, steps, next, status, decision, result, route)
  <2>1. StageEnds(plan, t, steps, i)
    BY FinishStageCases
  <2> QED
    BY <2>1, Zenon DEF StageEnds
<1>2. t.paper_route \in PaperRoute /\ DOMAIN t.steps = DOMAIN plan.steps
  BY DEF Task
<1>3. route.retry_count = 0
  BY <1>2, RouteCounters
<1>4. Freed(t, steps, next, status, decision, result, route).steps = steps
  BY DEF Freed, Unassigned, Task
<1>5. Freed(t, steps, next, status, decision, result, route).paper_route = route
  BY DEF Freed, Unassigned, Task
<1> QED
  BY <1>1, <1>2, <1>3, <1>4, <1>5, CountersKept

LEMMA CompleteParses ==
  ASSUME NEW plan \in Plans, NEW t \in Task(plan), Parses(t)
  PROVE  Parses(CompleteOfficeWork(t))
<1> DEFINE i     == t.current_step
           end   == IF Current(t).requires_approval THEN "awaiting_approval" ELSE "done"
           steps == [t.steps EXCEPT ![i].status = end, ![i].output = t.attempt]
           alone == Members(t.plan, Current(t).stage) = {i}
           u     == [t EXCEPT !.result = IF alone THEN {<<i, t.attempt>>} ELSE @]
<1>1. /\ i \in DOMAIN plan.steps /\ t.attempt \in Nat /\ t.steps \in [DOMAIN plan.steps -> StepState]
  BY DEF Task
<1>2. /\ steps \in [DOMAIN plan.steps -> StepState]
      /\ \A j \in DOMAIN plan.steps : steps[j].revision_count = t.steps[j].revision_count
  BY <1>1 DEF StepState, StepStatuses
<1>3. u \in Task(plan) /\ u.steps = t.steps /\ u.paper_route = t.paper_route
  BY <1>1 DEF Task
<1>4. Parses(u)
  BY <1>3 DEF Parses
<1>5. Parses(FinishStage(u, steps, i))
  <2> HIDE DEF u, steps, i
  <2> QED
    BY <1>1, <1>2, <1>3, <1>4, FinishStageParses
<1> QED
  BY <1>5 DEF CompleteOfficeWork

LEMMA ApproveParses ==
  ASSUME NEW plan \in Plans, NEW t \in Task(plan), Parses(t)
  PROVE  Parses(ApproveResult(t))
<1>1. /\ t.paper_route \in PaperRoute /\ t.steps \in [DOMAIN plan.steps -> StepState]
      /\ ReadyPaperRoute(t.paper_route).retry_count = 0
  BY RouteCounters DEF Task
<1>2. /\ ApproveResult(t).paper_route = ReadyPaperRoute(t.paper_route)
      /\ DOMAIN ApproveResult(t).steps = DOMAIN t.steps
      /\ \A i \in DOMAIN t.steps : ApproveResult(t).steps[i].revision_count = t.steps[i].revision_count
  BY <1>1 DEF ApproveResult, Task, StepState
<1> QED
  BY <1>1, <1>2, CountersKept

LEMMA WaitingParses ==
  ASSUME NEW plan \in Plans, NEW t \in Task(plan), Parses(t)
  PROVE  Parses(MarkOfficeWaiting(t))
BY CountersKept DEF MarkOfficeWaiting, Task, PaperRoute

LEMMA ApproveCheckpointParses ==
  ASSUME NEW plan \in Plans, NEW t \in Task(plan), Parses(t), NEW i \in DOMAIN plan.steps
  PROVE  Parses(ApproveOfficeCheckpoint(t, i))
<1>1. /\ [t.steps EXCEPT ![i].status = "done"] \in [DOMAIN plan.steps -> StepState]
      /\ \A j \in DOMAIN plan.steps :
           [t.steps EXCEPT ![i].status = "done"][j].revision_count = t.steps[j].revision_count
  BY DEF Task, StepState, StepStatuses
<1> QED
  BY <1>1, FinishStageParses DEF ApproveOfficeCheckpoint

LEMMA RecoverParses ==
  ASSUME NEW plan \in Plans, NEW t \in Task(plan), Parses(t)
  PROVE  Parses(RecoverOfficeTask(t))
<1>1. /\ t.paper_route \in PaperRoute /\ t.steps \in [DOMAIN plan.steps -> StepState]
      /\ ReadyPaperRoute(t.paper_route).retry_count = 0
  BY RouteCounters DEF Task
<1>2. /\ RecoverOfficeTask(t).paper_route = ReadyPaperRoute(t.paper_route)
      /\ DOMAIN RecoverOfficeTask(t).steps = DOMAIN t.steps
      /\ \A i \in DOMAIN t.steps : RecoverOfficeTask(t).steps[i].revision_count = t.steps[i].revision_count
  BY <1>1 DEF RecoverOfficeTask, Task, StepState
<1> QED
  BY <1>1, <1>2, CountersKept
===============================================================================
