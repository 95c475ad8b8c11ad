-------------------------- MODULE OfficeHandoffProofs --------------------------
(***************************************************************************)
(* What an employee is given: on every route whose checkpoints stand alone *)
(* in their stage, what the scheduler offers can be claimed; on routes     *)
(* without checkpoints, the hand-off is what the desks before produced.    *)
(*                                                                         *)
(* Both follow from PaperCarried, which is inductive beside Orderly: the   *)
(* steps that leave the place of the task keep it (StayingCarries), the    *)
(* others are finishStage (FinishingCarries) and a reviewer's return.      *)
(***************************************************************************)
EXTENDS OfficeBoardProofs

-----------------------------------------------------------------------------
(***************************************************************************)
(* Stages                                                                  *)
(***************************************************************************)

\* Consecutive steps are in the same stage or in consecutive ones.
LEMMA StagesAreDense ==
  ASSUME NEW plan \in Plans, NEW i \in DOMAIN plan.steps, i # 1
  PROVE  /\ i - 1 \in DOMAIN plan.steps /\ i \in Nat
         /\ plan.steps[i].stage \in {plan.steps[i-1].stage, plan.steps[i-1].stage + 1}
         /\ plan.steps[i].stage \in Nat /\ plan.steps[i-1].stage \in Nat
<1>1. PICK n \in 1..5 : DOMAIN plan.steps = 1..n
  BY WorkflowSteps
<1>2. i \in Nat /\ i - 1 \in DOMAIN plan.steps
  BY <1>1
<1>3. plan.steps[i].stage \in Nat /\ plan.steps[i-1].stage \in Nat
  BY <1>2, WorkflowSteps DEF StepPlan
<1>4. plan.steps[i].stage \in {plan.steps[i-1].stage, plan.steps[i-1].stage + 1}
  BY PlansAssumption DEF ValidWorkflow
<1> QED
  BY <1>2, <1>3, <1>4

LEMMA FirstStage ==
  ASSUME NEW plan \in Plans
  PROVE  1 \in DOMAIN plan.steps /\ plan.steps[1].stage = 0 /\ plan.steps[1].kind = "work"
  BY WorkflowSteps, PlansAssumption DEF ValidWorkflow

\* The first step behind a stage belongs to the next one.
LEMMA NextStage ==
  ASSUME NEW plan \in Plans, NEW i \in DOMAIN plan.steps, NEW next \in DOMAIN plan.steps,
         plan.steps[next].stage > plan.steps[i].stage,
         \A j \in DOMAIN plan.steps : plan.steps[j].stage > plan.steps[i].stage => next <= j
  PROVE  plan.steps[next].stage - 1 = plan.steps[i].stage
<1>1. plan.steps[i].stage \in Nat
  BY WorkflowSteps DEF StepPlan
<1>2. next # 1
  BY <1>1, FirstStage
<1>3. /\ next - 1 \in DOMAIN plan.steps /\ next \in Nat
      /\ plan.steps[next].stage \in {plan.steps[next-1].stage, plan.steps[next-1].stage + 1}
      /\ plan.steps[next].stage \in Nat /\ plan.steps[next-1].stage \in Nat
  BY <1>2, StagesAreDense
<1>4. plan.steps[next-1].stage <= plan.steps[i].stage
  <2>1. ~(plan.steps[next-1].stage > plan.steps[i].stage)
    <3>1. ~(next <= next - 1)
      BY <1>3
    <3> QED
      BY <1>3, <3>1
  <2> QED
    BY <1>1, <1>3, <2>1
<1> QED
  BY <1>1, <1>3, <1>4

\* Before a later stage there is one.
LEMMA PriorStage ==
  ASSUME NEW plan \in Plans, NEW i \in DOMAIN plan.steps, plan.steps[i].stage > 0
  PROVE  \E j \in DOMAIN plan.steps : plan.steps[j].stage = plan.steps[i].stage - 1
<1> DEFINE S == {j \in DOMAIN plan.steps : plan.steps[j].stage >= plan.steps[i].stage}
<1>1. PICK n \in 1..5 : DOMAIN plan.steps = 1..n
  BY WorkflowSteps
<1>2. plan.steps[i].stage \in Nat
  BY WorkflowSteps DEF StepPlan
<1>3. S \in SUBSET (1..n) /\ i \in S
  BY <1>1, <1>2
<1>4. PICK f \in S : \A j \in S : f <= j
  <2> HIDE DEF S
  <2> QED
    BY <1>3, FirstIsLeast
<1>5. f # 1
  BY <1>2, FirstStage
<1>6. /\ f - 1 \in DOMAIN plan.steps /\ f \in Nat
      /\ plan.steps[f].stage \in {plan.steps[f-1].stage, plan.steps[f-1].stage + 1}
      /\ plan.steps[f].stage \in Nat /\ plan.steps[f-1].stage \in Nat
  BY <1>5, StagesAreDense
<1>7. f - 1 \notin S
  <2>1. ~(f <= f - 1)
    BY <1>6
  <2> HIDE DEF S
  <2> QED
    BY <1>4, <2>1
<1>8. plan.steps[f-1].stage = plan.steps[i].stage - 1
  BY <1>2, <1>6, <1>7
<1> QED
  BY <1>6, <1>8

-----------------------------------------------------------------------------
(***************************************************************************)
(* What finishStage makes of the paper                                     *)
(***************************************************************************)

\* The result stays while the stage goes on, and is made of its outputs at its end.
StagePaper(plan, t, steps, i) ==
  LET stage   == plan.steps[i].stage
      members == Members(plan, stage)
      outputs == StageOutput(plan, steps, stage)
      goesOn  == \E j \in members : steps[j].status \in Runnable \union {"awaiting_approval"}
      f       == FinishStage(t, steps, i)
  IN  /\ goesOn => f.result = t.result
      /\ ~goesOn => f.result = IF members # {i} /\ outputs # {} THEN outputs ELSE t.result
      /\ f.status = "done" => f.paper_route = ReadyPaperRoute(t.paper_route)
      /\ f.worker_did = None

LEMMA FinishResult ==
  ASSUME NEW plan \in Plans, NEW t \in Task(plan),
         NEW steps \in [DOMAIN plan.steps -> StepState], NEW i \in DOMAIN plan.steps
  PROVE  StagePaper(plan, t, steps, i)
<1> DEFINE stage    == plan.steps[i].stage
           members  == Members(plan, stage)
           runnable == {j \in members : steps[j].status \in Runnable}
           awaiting == {j \in members : steps[j].status = "awaiting_approval"}
           later    == {j \in DOMAIN plan.steps : plan.steps[j].stage > stage}
           outputs  == StageOutput(plan, steps, stage)
           result   == IF members # {i} /\ outputs # {} THEN outputs ELSE t.result
           ready    == ReadyPaperRoute(t.paper_route)
           goesOn   == \E j \in members : steps[j].status \in Runnable \union {"awaiting_approval"}
           f        == FinishStage(t, steps, i)
<1>1. t.plan = plan
  BY DEF Task
<1>2. CASE runnable # {}
  <2>1. f = Freed(t, steps, First(runnable), "open", t.review_decision, t.result, ready)
    BY <1>1, <1>2 DEF Freed, FinishStage, Unassigned, Task
  <2>2. f.result = t.result /\ f.status = "open" /\ f.worker_did = None
    BY <2>1 DEF Freed, Unassigned, Task
  <2>3. goesOn
    BY <1>2
  <2> QED
    BY <2>2, <2>3 DEF StagePaper
<1>3. CASE runnable = {} /\ awaiting # {}
  <2>1. f = Freed(t, steps, First(awaiting), "open", t.review_decision, t.result,
                  Paused(t.paper_route))
    BY <1>1, <1>3 DEF Freed, FinishStage, Paused, Unassigned, Task
  <2>2. f.result = t.result /\ f.status = "open" /\ f.worker_did = None
    BY <2>1 DEF Freed, Unassigned, Task
  <2>3. goesOn
    BY <1>3
  <2> QED
    BY <2>2, <2>3 DEF StagePaper
<1>4. CASE runnable = {} /\ awaiting = {} /\ later = {}
  <2>1. f = Freed(t, steps, i, "done", t.review_decision, result, ready)
    BY <1>1, <1>4 DEF Freed, FinishStage, Unassigned, Task
  <2>2. f.result = result /\ f.paper_route = ready /\ f.worker_did = None
    <3> HIDE DEF result, ready
    <3> QED
      BY <2>1 DEF Freed, Unassigned, Task
  <2>3. ~goesOn
    BY <1>4
  <2> QED
    BY <2>2, <2>3 DEF StagePaper
<1>5. CASE runnable = {} /\ awaiting = {} /\ later # {}
  <2> DEFINE status == IF plan.steps[First(later)].kind = "review" THEN "review" ELSE "open"
  <2>1. f = Freed(t, steps, First(later), status, "none", result, ready)
    <3>1. CASE plan.steps[First(later)].kind = "review"
      BY <1>1, <1>5, <3>1, SMTT(30) DEF Freed, FinishStage, Unassigned, Task
    <3>2. CASE plan.steps[First(later)].kind # "review"
      BY <1>1, <1>5, <3>2, SMTT(30) DEF Freed, FinishStage, Unassigned, Task
    <3> QED
      BY <3>1, <3>2
  <2>2. f.result = result /\ f.status = status /\ f.worker_did = None
    <3> HIDE DEF result, ready, status
    <3> QED
      BY <2>1 DEF Freed, Unassigned, Task
  <2>3. ~goesOn /\ f.status # "done"
    BY <1>5, <2>2
  <2> QED
    BY <2>2, <2>3 DEF StagePaper
<1> QED
  BY <1>2, <1>3, <1>4, <1>5

-----------------------------------------------------------------------------
(***************************************************************************)
(* The steps that finish a stage or a branch of it                         *)
(***************************************************************************)

\* What a stage produced is seen through the outputs of its desks only.
LEMMA SameOutput ==
  ASSUME NEW plan, NEW stage, NEW before, NEW after,
         \A j \in Members(plan, stage) : after[j].output = before[j].output
  PROVE  StageOutput(plan, after, stage) = StageOutput(plan, before, stage)
BY DEF StageOutput

\* finishStage hands on the paper the desks of its stage produced.
LEMMA FinishingCarries ==
  ASSUME TypeOK, Orderly, PaperCarried, CheckpointsAlone(task.plan),
         NEW u \in Task(task.plan), NEW steps \in [DOMAIN task.plan.steps -> StepState],
         NEW i \in DOMAIN task.plan.steps, i = task.current_step,
         StatusOf(i) \in {"running", "awaiting_approval"},
         task.plan.steps[i].kind = "work", steps[i].output # 0,
         \/ steps[i].status = "done"
         \/ steps[i].status = "awaiting_approval" /\ task.plan.steps[i].requires_approval,
         \A j \in DOMAIN task.plan.steps : j # i => steps[j] = task.steps[j],
         Members(task.plan, Stage(i)) = {i} =>
           /\ u.result # {}
           /\ NoCheckpoints(task.plan) => u.result = {<<i, steps[i].output>>},
         Members(task.plan, Stage(i)) # {i} => u.result = task.result,
         task' = FinishStage(u, steps, i)
  PROVE  PaperCarried'
<1> DEFINE plan    == task.plan
           members == Members(plan, Stage(i))
           outputs == StageOutput(plan, steps, Stage(i))
           goesOn  == \E j \in members : steps[j].status \in Runnable \union {"awaiting_approval"}
           f       == FinishStage(u, steps, i)
<1>1. /\ plan \in Plans /\ task \in Task(plan) /\ DOMAIN task.steps = DOMAIN plan.steps
      /\ \A j \in DOMAIN plan.steps : Stage(j) \in Nat
      /\ DOMAIN steps = DOMAIN plan.steps
  BY TaskFacts
<1>2. PICK next \in DOMAIN plan.steps, status \in {"open", "review", "done"},
           decision \in {u.review_decision, "none"},
           result \in SUBSET ((DOMAIN plan.steps) \X Nat),
           route \in {ReadyPaperRoute(u.paper_route), Paused(u.paper_route)} :
        /\ FinishStage(u, steps, i) = Freed(u, steps, next, status, decision, result, route)
        /\ NextDesk(plan, steps, i, next, status)
  <2>1. StageEnds(plan, u, steps, i)
    BY <1>1, FinishStageCases
  <2> QED
    BY <2>1, Zenon DEF StageEnds
<1>3. /\ task'.plan = plan /\ task'.steps = steps /\ task'.status = status
      /\ task'.current_step = next /\ task'.result = result /\ task'.worker_did = None
      /\ task'.paper_route = route
  BY <1>2 DEF Freed, Unassigned, Task
<1>4. /\ goesOn => result = u.result
      /\ ~goesOn => result = IF members # {i} /\ outputs # {} THEN outputs ELSE u.result
      /\ status = "done" => route = ReadyPaperRoute(u.paper_route)
  <2>1. StagePaper(plan, u, steps, i)
    BY <1>1, FinishResult
  <2>2. f.result = result /\ f.status = status /\ f.paper_route = route
    BY <1>3
  <2> QED
    BY <2>1, <2>2 DEF StagePaper, Stage
<1> HIDE DEF f
<1>5. i \in members /\ <<i, steps[i].output>> \in outputs
  BY DEF Members, Stage, StageOutput
\* The next desk: in this stage, nobody, or the first of the next stage.
<1>6. \/ /\ status = "open" /\ Stage(next) = Stage(i) /\ goesOn
         /\ steps[next].status \in Runnable \union {"awaiting_approval"}
      \/ status = "done" /\ next = i /\ ~goesOn
      \/ /\ status # "done" /\ Stage(next) = Stage(i) + 1 /\ ~goesOn /\ next # i
         /\ steps[next].status = "pending"
  <2>1. CASE /\ status = "open" /\ plan.steps[next].stage = plan.steps[i].stage
             /\ steps[next].status \in Runnable \union {"awaiting_approval"}
    <3>1. next \in members
      BY <2>1 DEF Members, Stage
    <3> QED
      BY <2>1, <3>1 DEF Stage
  <2>2. CASE /\ status = "done" /\ next = i
             /\ \A j \in Members(plan, plan.steps[i].stage) :
                  steps[j].status \notin Runnable \union {"awaiting_approval"}
    BY <2>2 DEF Stage
  <2>3. CASE /\ status = IF plan.steps[next].kind = "review" THEN "review" ELSE "open"
             /\ plan.steps[next].stage > plan.steps[i].stage
             /\ \A j \in Members(plan, plan.steps[i].stage) :
                  steps[j].status \notin Runnable \union {"awaiting_approval"}
             /\ \A j \in DOMAIN plan.steps : plan.steps[j].stage > plan.steps[i].stage => next <= j
    <3>1. plan.steps[next].stage - 1 = plan.steps[i].stage
      BY <1>1, <2>3, NextStage
    <3>2. Stage(next) = Stage(i) + 1 /\ next # i
      BY <1>1, <3>1 DEF Stage
    <3>3. steps[next].status = "pending"
      <4>1. StatusOf(next) = "pending"
        BY <1>1, <3>2 DEF Orderly, StagesInOrder
      <4> QED
        BY <3>2, <4>1 DEF StatusOf
    <3>4. ~goesOn
      BY <2>3 DEF Stage
    <3>5. status # "done"
      BY <2>3
    <3> QED
      BY <3>2, <3>3, <3>4, <3>5
  <2> QED
    BY <1>2, <2>1, <2>2, <2>3 DEF NextDesk
<1>7. DesksAccounted'
  <2>1. status # "running"
    OBVIOUS
  <2>2. ASSUME NEW j \in DOMAIN plan.steps
        PROVE  /\ steps[j].status = "awaiting_approval" => plan.steps[j].requires_approval
               /\ (steps[j].status \in {"awaiting_approval", "done"} /\ plan.steps[j].kind = "work")
                    => steps[j].output # 0
    <3>1. CASE j = i
      BY <3>1
    <3>2. CASE j # i
      BY <1>1, <3>2 DEF PaperCarried, DesksAccounted, StatusOf
    <3> QED
      BY <3>1, <3>2
  <2>3. steps[next].status = "done" => status = "done" /\ route.state = "ready"
    <3>1. steps[next].status = "done" => status = "done"
      BY <1>6 DEF Runnable
    <3>2. status = "done" => route.state = "ready"
      <4>1. u.paper_route \in PaperRoute
        BY DEF Task
      <4>2. ReadyPaperRoute(u.paper_route).state = "ready"
        BY <4>1 DEF ReadyPaperRoute, PaperRoute
      <4> QED
        BY <1>4, <4>2
    <3> QED
      BY <3>1, <3>2
  <2> QED
    BY <1>1, <1>3, <2>1, <2>2, <2>3 DEF DesksAccounted, StatusOf
\* A desk that waits for the boss is this one, alone in its stage.
<1>8. ASSUME NEW j \in DOMAIN plan.steps, steps[j].status = "awaiting_approval"
      PROVE  j = i /\ members = {i}
  <2>1. j = i
    BY <1>1, <1>8 DEF Orderly, AwaitingIsCurrent, StatusOf
  <2>2. members = {i}
    BY <1>8, <2>1 DEF CheckpointsAlone, Stage
  <2> QED
    BY <2>1, <2>2
<1>9. (Stage(next) > 0 \/ steps[next].status = "awaiting_approval") => result # {}
  <2>1. members = {i} => u.result # {}
    OBVIOUS
  <2>2. Stage(i) > 0 => u.result # {}
    BY <2>1 DEF PaperCarried
  <2>3. CASE goesOn
    <3>1. Stage(next) = Stage(i) /\ result = u.result
      BY <1>4, <1>6, <2>3
    <3> QED
      BY <1>8, <2>1, <2>2, <3>1
  <2>4. CASE ~goesOn /\ status = "done"
    <3>1. next = i /\ steps[i].status # "awaiting_approval"
      BY <1>5, <1>6, <2>4
    <3> QED
      BY <1>4, <1>5, <2>1, <2>2, <2>4, <3>1
  <2>5. CASE ~goesOn /\ status # "done"
    BY <1>4, <1>5, <2>1, <2>5
  <2> QED
    BY <2>3, <2>4, <2>5
<1>10. PlainHandoffIsPriorStage'
  <2>1. SUFFICES ASSUME NoCheckpoints(plan),
                        steps[next].status \in {"pending", "running", "changes_requested"}
                 PROVE  result = StageOutput(plan, steps, Stage(next) - 1)
    BY <1>3 DEF PlainHandoffIsPriorStage, HandoffIsPriorStage, StatusOf, Stage
  <2>2. steps[i].status = "done" /\ StatusOf(i) = "running"
    BY <1>1, <2>1 DEF NoCheckpoints, PaperCarried, DesksAccounted
  <2>3. CASE goesOn
    <3>1. Stage(next) = Stage(i) /\ result = u.result
      BY <1>4, <1>6, <2>3
    <3>2. members # {i}
      BY <2>2, <2>3 DEF Runnable
    <3>3. result = StageOutput(plan, task.steps, Stage(i) - 1)
      BY <2>1, <2>2, <3>1, <3>2 DEF PaperCarried, PlainHandoffIsPriorStage, HandoffIsPriorStage
    <3>4. \A j \in Members(plan, Stage(i) - 1) : j # i /\ j \in DOMAIN plan.steps
      BY <1>1 DEF Members, Stage
    <3>5. StageOutput(plan, steps, Stage(i) - 1) = StageOutput(plan, task.steps, Stage(i) - 1)
      BY <3>4, SameOutput
    <3> QED
      BY <3>1, <3>3, <3>5
  <2>4. CASE ~goesOn
    <3>1. Stage(next) = Stage(i) + 1
      BY <1>6, <2>1, <2>2, <2>4
    <3>2. Stage(next) - 1 = Stage(i)
      BY <1>1, <3>1
    <3>3. CASE members # {i}
      BY <1>4, <1>5, <2>4, <3>2, <3>3
    <3>4. CASE members = {i}
      <4>1. result = {<<i, steps[i].output>>}
        BY <1>4, <2>1, <2>4, <3>4
      <4>2. outputs = {<<i, steps[i].output>>}
        BY <3>4 DEF StageOutput
      <4> QED
        BY <3>2, <4>1, <4>2
    <3> QED
      BY <3>3, <3>4
  <2> QED
    BY <2>3, <2>4
<1> QED
  <2>1. (Stage(task.current_step)' > 0 \/ StatusOf(task.current_step)' = "awaiting_approval")
          => task'.result # {}
    BY <1>3, <1>9 DEF Stage, StatusOf
  <2> QED
    BY <1>7, <1>10, <2>1 DEF PaperCarried

-----------------------------------------------------------------------------
(***************************************************************************)
(* The steps that leave the task where it is                               *)
(***************************************************************************)

\* The desk, its result and all outputs stay; the current step is taken up or given back.
LEMMA StayingCarries ==
  ASSUME TypeOK, PaperCarried,
         task'.plan = task.plan, DOMAIN task'.steps = DOMAIN task.steps,
         task'.current_step = task.current_step, task'.result = task.result,
         \A j \in DOMAIN task.steps : task'.steps[j].output = task.steps[j].output,
         \A j \in DOMAIN task.steps :
           j # task.current_step => task'.steps[j].status = task.steps[j].status,
         StatusOf(task.current_step) # "done",
         \/ task'.steps[task.current_step].status = StatusOf(task.current_step)
         \/ task'.steps[task.current_step].status \in {"pending", "running", "changes_requested"},
         task'.status = "running" => task'.attempt > 0,
         task'.status = "open" => task'.worker_did = None
  PROVE  PaperCarried'
<1> DEFINE c == task.current_step
<1>1. /\ task.plan \in Plans /\ DOMAIN task.steps = DOMAIN task.plan.steps
      /\ c \in DOMAIN task.steps /\ StatusOf(c) \in StepStatuses
  BY TaskFacts
<1>2. task'.steps[c].status # "done"
  OBVIOUS
<1>3. DesksAccounted'
  <2>1. \A j \in DOMAIN task.steps :
          /\ task'.steps[j].status = "awaiting_approval" => task.plan.steps[j].requires_approval
          /\ (task'.steps[j].status \in {"awaiting_approval", "done"} /\ task.plan.steps[j].kind = "work")
               => task'.steps[j].output # 0
    <3>1. \A j \in DOMAIN task.steps :
            task'.steps[j].status \in {"awaiting_approval", "done"} => task'.steps[j].status = task.steps[j].status
      BY DEF StatusOf
    <3> QED
      BY <3>1 DEF PaperCarried, DesksAccounted, StatusOf
  <2> QED
    BY <1>2, <2>1 DEF DesksAccounted, StatusOf
<1>4. (Stage(c)' > 0 \/ task'.steps[c].status = "awaiting_approval") => task'.result # {}
  BY DEF PaperCarried, Stage, StatusOf
<1>5. PlainHandoffIsPriorStage'
  <2>1. SUFFICES ASSUME NoCheckpoints(task.plan)
                 PROVE  task.result = StageOutput(task.plan, task'.steps, Stage(c) - 1)
    BY DEF PlainHandoffIsPriorStage, HandoffIsPriorStage, Stage
  <2>2. StatusOf(c) # "awaiting_approval"
    BY <1>1, <2>1 DEF NoCheckpoints, PaperCarried, DesksAccounted
  <2>3. StatusOf(c) \in {"pending", "running", "changes_requested"}
    BY <1>1, <2>2 DEF StepStatuses
  <2>4. task.result = StageOutput(task.plan, task.steps, Stage(c) - 1)
    BY <2>1, <2>3 DEF PaperCarried, PlainHandoffIsPriorStage, HandoffIsPriorStage
  <2>5. StageOutput(task.plan, task'.steps, Stage(c) - 1) = StageOutput(task.plan, task.steps, Stage(c) - 1)
    BY <1>1, SameOutput DEF Members
  <2> QED
    BY <2>4, <2>5
<1> QED
  BY <1>3, <1>4, <1>5 DEF PaperCarried, Stage, StatusOf

LEMMA PickUpCarries ==
  ASSUME TypeOK, Orderly, PaperCarried, NEW a \in Agents, PickUp(a)
  PROVE  PaperCarried'
<1> DEFINE c == task.current_step
<1>1. /\ task \in Task(task.plan) /\ c \in DOMAIN task.steps /\ task.attempt \in Nat
      /\ task.steps \in [DOMAIN task.steps -> StepState]
  BY TaskFacts DEF Task
<1>2. StatusOf(c) # "done"
  BY DEF PickUp, CanTake, Eligible, Runnable, StatusOf
<1>3. task' = ClaimOfficeStep(task, a) /\ (Current(task).kind = "review" => task.status = "review")
  BY PickUpClaims
<1>4. /\ task'.plan = task.plan /\ task'.current_step = c /\ task'.result = task.result
      /\ task'.steps = [task.steps EXCEPT ![c].status = "running"]
      /\ \/ task'.status = "running" /\ task'.attempt = task.attempt + 1
         \/ task'.status = "review"
  <2>1. CASE Current(task).kind = "review"
    BY <1>1, <1>3, <2>1 DEF ClaimOfficeStep, ClaimForReview, Task
  <2>2. CASE Current(task).kind # "review"
    BY <1>1, <1>3, <2>2 DEF ClaimOfficeStep, ClaimForOfficeWork, Task
  <2> QED
    BY <2>1, <2>2
<1>5. /\ DOMAIN task'.steps = DOMAIN task.steps
      /\ task'.steps[c].status = "running"
      /\ \A j \in DOMAIN task.steps :
           /\ j # c => task'.steps[j].status = task.steps[j].status
           /\ task'.steps[j].output = task.steps[j].output
  BY <1>1, <1>4 DEF StepState
<1>6. task'.status = "running" => task'.attempt > 0
  BY <1>1, <1>4
<1> QED
  BY <1>2, <1>4, <1>5, <1>6, StayingCarries

LEMMA WaitForRunnerCarries ==
  ASSUME TypeOK, PaperCarried, NEW a \in Agents, WaitForRunner(a)
  PROVE  PaperCarried'
<1>1. task \in Task(task.plan)
  BY TaskFacts
<1>2. StatusOf(task.current_step) # "done"
  BY DEF WaitForRunner, Eligible, Runnable, StatusOf
<1>3. /\ task'.plan = task.plan /\ task'.current_step = task.current_step
      /\ task'.result = task.result /\ task'.steps = task.steps /\ task'.status = task.status
      /\ task'.attempt = task.attempt /\ task'.worker_did = task.worker_did
  BY <1>1 DEF WaitForRunner, MarkOfficeWaiting, Task
<1>4. /\ task.status = "running" => task.attempt > 0
      /\ task.status = "open" => task.worker_did = None
  BY DEF PaperCarried, DesksAccounted
<1> QED
  BY <1>2, <1>3, <1>4, StayingCarries DEF StatusOf

LEMMA FailCarries ==
  ASSUME TypeOK, PaperCarried, NEW retryable \in BOOLEAN, Fail(retryable)
  PROVE  PaperCarried'
<1>1. task \in Task(task.plan)
  BY TaskFacts
<1>2. /\ StatusOf(task.current_step) # "done"
      /\ task.status = "running" => task.attempt > 0
      /\ task.status = "open" => task.worker_did = None
  BY DEF Fail, CanDeferOfficeStep, PaperCarried, DesksAccounted
<1>3. /\ task'.plan = task.plan /\ task'.current_step = task.current_step
      /\ task'.result = task.result /\ task'.steps = task.steps
      /\ task'.status \in {task.status, "failed"}
      /\ task'.attempt = task.attempt /\ task'.worker_did = task.worker_did
  BY <1>1 DEF Fail, DeferOfficeStep, Task
<1> QED
  BY <1>2, <1>3, StayingCarries DEF StatusOf

LEMMA RetryCarries ==
  ASSUME TypeOK, Orderly, PaperCarried, Retry
  PROVE  PaperCarried'
<1> DEFINE c == task.current_step
<1>1. /\ task \in Task(task.plan) /\ c \in DOMAIN task.steps
      /\ task.paper_route \in PaperRoute /\ task.steps \in [DOMAIN task.steps -> StepState]
      /\ task.plan \in Plans /\ DOMAIN task.steps = DOMAIN task.plan.steps
  BY TaskFacts DEF Task
<1>2. StatusOf(c) # "done"
  BY DEF Retry, CanRecoverOfficeTask, PaperCarried, DesksAccounted
<1>3. Current(task).kind \in {"work", "review"}
  <2>1. task.plan.steps[c] \in StepPlan
    BY <1>1, WorkflowSteps
  <2> QED
    BY <2>1 DEF Current, StepPlan
<1>4. PICK s \in {"pending", "changes_requested"} :
        /\ task'.plan = task.plan /\ task'.current_step = c /\ task'.result = task.result
        /\ task'.status = IF Current(task).kind = "review" THEN "review" ELSE "open"
        /\ task'.worker_did = IF Current(task).kind = "work" THEN None ELSE task.worker_did
        /\ task'.steps = [task.steps EXCEPT ![c].status = s]
  BY <1>1 DEF Retry, RecoverOfficeTask, Task
<1>5. /\ DOMAIN task'.steps = DOMAIN task.steps
      /\ task'.steps[c].status = s
      /\ \A j \in DOMAIN task.steps :
           /\ j # c => task'.steps[j].status = task.steps[j].status
           /\ task'.steps[j].output = task.steps[j].output
  BY <1>1, <1>4 DEF StepState
<1>6. task'.status # "running" /\ (task'.status = "open" => task'.worker_did = None)
  BY <1>3, <1>4
<1> QED
  BY <1>2, <1>4, <1>5, <1>6, StayingCarries

LEMMA RejectCheckpointCarries ==
  ASSUME TypeOK, Orderly, PaperCarried, NEW i \in DOMAIN task.steps, RejectCheckpoint(i)
  PROVE  PaperCarried'
<1>1. /\ task \in Task(task.plan) /\ task.steps \in [DOMAIN task.steps -> StepState]
  BY TaskFacts DEF Task
<1>2. StatusOf(i) = "awaiting_approval" /\ i = task.current_step
  BY DEF RejectCheckpoint, CanRejectCheckpoint, AwaitsApproval, StatusOf, Orderly, AwaitingIsCurrent
<1>3. /\ task'.plan = task.plan /\ task'.current_step = i /\ task'.result = task.result
      /\ task'.status \in {"open", "failed"} /\ task'.worker_did = None
      /\ task'.steps = [task.steps EXCEPT ![i].status = "changes_requested", ![i].revision_count = @ + 1]
  BY <1>1 DEF RejectCheckpoint, RejectOfficeCheckpoint, Unassigned, Task
<1>4. /\ DOMAIN task'.steps = DOMAIN task.steps
      /\ task'.steps[i].status = "changes_requested"
      /\ \A j \in DOMAIN task.steps :
           /\ j # i => task'.steps[j].status = task.steps[j].status
           /\ task'.steps[j].output = task.steps[j].output
  BY <1>1, <1>3 DEF StepState
<1> QED
  BY <1>2, <1>3, <1>4, StayingCarries

-----------------------------------------------------------------------------
(***************************************************************************)
(* The reviewer                                                            *)
(***************************************************************************)

LEMMA ApproveCarries ==
  ASSUME TypeOK, PaperCarried, NEW a \in Agents, Approve(a)
  PROVE  PaperCarried'
<1> DEFINE c == task.current_step
<1>1. /\ task \in Task(task.plan) /\ c \in DOMAIN task.steps
      /\ task.paper_route \in PaperRoute /\ task.steps \in [DOMAIN task.steps -> StepState]
  BY TaskFacts DEF Task
<1>2. task.plan.steps[c].kind = "review"
  BY DEF Approve, CanFinishOfficeReview, Current
<1>3. /\ task'.plan = task.plan /\ task'.current_step = c /\ task'.result = task.result
      /\ task'.status = "done" /\ task'.paper_route = ReadyPaperRoute(task.paper_route)
      /\ task'.steps = [task.steps EXCEPT ![c].status = "done"]
  BY <1>1 DEF Approve, ApproveResult, Task
<1>4. /\ DOMAIN task'.steps = DOMAIN task.steps
      /\ task'.steps[c].status = "done"
      /\ \A j \in DOMAIN task.steps :
           /\ j # c => task'.steps[j].status = task.steps[j].status
           /\ task'.steps[j].output = task.steps[j].output
  BY <1>1, <1>3 DEF StepState
<1>5. task'.paper_route.state = "ready"
  BY <1>1, <1>3 DEF ReadyPaperRoute, PaperRoute
<1>6. DesksAccounted'
  <2>1. \A j \in DOMAIN task.steps :
          /\ task'.steps[j].status = "awaiting_approval" => task.plan.steps[j].requires_approval
          /\ (task'.steps[j].status \in {"awaiting_approval", "done"} /\ task.plan.steps[j].kind = "work")
               => task'.steps[j].output # 0
    BY <1>2, <1>4 DEF PaperCarried, DesksAccounted, StatusOf
  <2> QED
    BY <1>3, <1>4, <1>5, <2>1 DEF DesksAccounted, StatusOf
<1>7. PlainHandoffIsPriorStage'
  BY <1>3, <1>4 DEF PlainHandoffIsPriorStage, HandoffIsPriorStage, StatusOf
<1>8. task'.result # {}
  BY <1>3 DEF Approve, CanFinishOfficeReview
<1> QED
  BY <1>6, <1>7, <1>8 DEF PaperCarried

\* A returned paper is what the desks before the target produced.
LEMMA ReturnCarries ==
  ASSUME TypeOK, Orderly, PaperCarried, NEW a \in Agents, Return(a)
  PROVE  PaperCarried'
<1> DEFINE c == task.current_step
           g == RejectionTarget(task)
           over == Exhausts(task, g)
<1>1. /\ task.plan \in Plans /\ task \in Task(task.plan) /\ c \in DOMAIN task.steps
      /\ DOMAIN task.steps = DOMAIN task.plan.steps
      /\ task.steps \in [DOMAIN task.steps -> StepState]
      /\ \A j \in DOMAIN task.steps : Stage(j) \in Nat /\ task.steps[j] \in StepState
  BY TaskFacts DEF Task
<1>2. Current(task).kind = "review" /\ task.plan.steps[c].kind = "review"
  BY DEF Return, CanFinishOfficeReview, Current
<1>3. g \in DOMAIN task.steps /\ g # c /\ task.plan.steps[g].kind = "work"
  BY <1>1, <1>2, TargetIsEarlierWork
<1>4. \A j \in DOMAIN task.steps : j # c =>
        Stage(j) < Stage(c) /\ task.steps[j].status = "done" /\ task.plan.steps[j].kind = "work"
  <2>1. \A j \in DOMAIN task.steps : j # c => Stage(j) < Stage(c) /\ task.plan.steps[j].kind = "work"
    BY <1>1, <1>2, WorkflowOrder DEF Stage
  <2> QED
    BY <2>1 DEF Orderly, StagesInOrder, StatusOf
<1>5. /\ task'.plan = task.plan /\ task'.current_step = g
      /\ task'.steps = ReturnedSteps(task, g)
      /\ task'.status = IF over THEN "failed" ELSE "open"
      /\ task'.worker_did = IF over THEN task.worker_did ELSE None
      /\ task'.result = StageOutput(task.plan, ReturnedSteps(task, g), Stage(g) - 1)
  <2> HIDE DEF g
  <2>1. task' = ReturnResult(task)
    BY DEF Return
  <2> QED
    BY <1>1, <2>1 DEF ReturnResult, Task, Stage, g
<1> HIDE DEF g
<1>6. /\ DOMAIN task'.steps = DOMAIN task.steps
      /\ task'.steps[g].status = "changes_requested"
      /\ \A j \in DOMAIN task.steps :
           \/ task'.steps[j] = task.steps[j] /\ j \notin {c, g}
           \/ task'.steps[j].status \in {"pending", "changes_requested"}
      /\ \A j \in DOMAIN task.steps : (j \notin {c, g} /\ Stage(j) < Stage(g)) => task'.steps[j] = task.steps[j]
  <2>1. DOMAIN task'.steps = DOMAIN task.steps
    BY <1>5 DEF ReturnedSteps
  <2>2. task'.steps[c] = [task.steps[c] EXCEPT !.status = "pending", !.output = 0]
    BY <1>1, <1>5 DEF ReturnedSteps
  <2>3. task'.steps[g] = [task.steps[g] EXCEPT !.status = "changes_requested", !.revision_count = @ + 1]
    BY <1>3, <1>5 DEF ReturnedSteps
  <2>4. ASSUME NEW j \in DOMAIN task.steps, j \notin {c, g}
        PROVE  task'.steps[j] = IF Stage(j) > Stage(g)
                                  THEN [task.steps[j] EXCEPT !.status = "pending", !.output = 0]
                                  ELSE task.steps[j]
    <3>1. CASE Stage(j) > Stage(g)
      BY <1>5, <2>4, <3>1 DEF ReturnedSteps, Stage
    <3>2. CASE ~(Stage(j) > Stage(g))
      BY <1>5, <2>4, <3>2 DEF ReturnedSteps, Stage
    <3> QED
      BY <3>1, <3>2
  <2>5. task'.steps[c].status = "pending" /\ task'.steps[g].status = "changes_requested"
    BY <1>1, <1>3, <2>2, <2>3 DEF StepState
  <2>6. ASSUME NEW j \in DOMAIN task.steps, j \notin {c, g}
        PROVE  /\ task'.steps[j] = task.steps[j] \/ task'.steps[j].status = "pending"
               /\ Stage(j) < Stage(g) => task'.steps[j] = task.steps[j]
    <3>1. CASE Stage(j) > Stage(g)
      <4>1. ~(Stage(j) < Stage(g))
        BY <1>1, <1>3, <3>1
      <4>2. task'.steps[j] = [task.steps[j] EXCEPT !.status = "pending", !.output = 0]
        BY <2>4, <2>6, <3>1
      <4>3. task'.steps[j].status = "pending"
        BY <1>1, <4>2 DEF StepState
      <4> QED
        BY <4>1, <4>3
    <3>2. CASE ~(Stage(j) > Stage(g))
      BY <2>4, <2>6, <3>2
    <3> QED
      BY <3>1, <3>2
  <2> HIDE DEF c
  <2> QED
    BY <2>1, <2>5, <2>6
<1>7. DesksAccounted'
  <2>1. \A j \in DOMAIN task.steps :
          /\ task'.steps[j].status = "awaiting_approval" => task.plan.steps[j].requires_approval
          /\ (task'.steps[j].status \in {"awaiting_approval", "done"} /\ task.plan.steps[j].kind = "work")
               => task'.steps[j].output # 0
    BY <1>6 DEF PaperCarried, DesksAccounted, StatusOf
  <2> QED
    BY <1>5, <1>6, <2>1 DEF DesksAccounted, StatusOf
<1>8. Stage(g) > 0 => task'.result # {}
  <2>1. SUFFICES ASSUME Stage(g) > 0
                 PROVE  task'.result # {}
    OBVIOUS
  <2>2. PICK j \in DOMAIN task.plan.steps : task.plan.steps[j].stage = task.plan.steps[g].stage - 1
    BY <1>1, <1>3, <2>1, PriorStage DEF Stage
  <2>3. Stage(j) < Stage(g) /\ j \notin {c, g}
    <3>1. Stage(j) < Stage(g)
      BY <1>1, <1>3, <2>2 DEF Stage
    <3>2. ~(Stage(c) < Stage(g))
      BY <1>1, <1>3, <1>4
    <3> QED
      BY <1>1, <1>3, <3>1, <3>2
  <2>4. task'.steps[j] = task.steps[j] /\ task.steps[j].output # 0
    BY <1>1, <1>4, <1>6, <2>3 DEF PaperCarried, DesksAccounted, StatusOf
  <2>5. j \in Members(task.plan, Stage(g) - 1)
    BY <2>2 DEF Members, Stage
  <2>6. <<j, task'.steps[j].output>> \in StageOutput(task.plan, task'.steps, Stage(g) - 1)
    BY <2>4, <2>5 DEF StageOutput
  <2> QED
    BY <1>5, <2>6
<1>9. PlainHandoffIsPriorStage'
  BY <1>5 DEF PlainHandoffIsPriorStage, HandoffIsPriorStage, Stage
<1> QED
  <2>1. (Stage(task.current_step)' > 0 \/ StatusOf(task.current_step)' = "awaiting_approval")
          => task'.result # {}
    BY <1>5, <1>6, <1>8 DEF Stage, StatusOf
  <2> QED
    BY <1>7, <1>9, <2>1 DEF PaperCarried

-----------------------------------------------------------------------------
(***************************************************************************)
(* The desks and the boss                                                  *)
(***************************************************************************)

LEMMA CompleteCarries ==
  ASSUME TypeOK, Orderly, PaperCarried, CheckpointsAlone(task.plan), NEW a \in Agents, Complete(a)
  PROVE  PaperCarried'
<1> DEFINE i     == task.current_step
           end   == IF Current(task).requires_approval THEN "awaiting_approval" ELSE "done"
           steps == [task.steps EXCEPT ![i].status = end, ![i].output = task.attempt]
           alone == Members(task.plan, Current(task).stage) = {i}
           u     == [task EXCEPT !.result = IF alone THEN {<<i, task.attempt>>} ELSE @]
<1>1. /\ i \in DOMAIN task.plan.steps /\ task.attempt \in Nat
      /\ task \in Task(task.plan)
      /\ task.steps \in [DOMAIN task.plan.steps -> StepState]
  BY TaskFacts DEF Task
<1>2. steps \in [DOMAIN task.plan.steps -> StepState]
  BY <1>1 DEF StepState, StepStatuses
<1>3. u \in Task(task.plan)
  BY <1>1 DEF Task
<1>4. StatusOf(i) = "running" /\ task.plan.steps[i].kind = "work" /\ task.attempt > 0
  BY DEF Complete, CanCompleteOfficeWork, Orderly, HolderMatchesStep, Current, PaperCarried,
         DesksAccounted
<1>5. steps[i].status = "done"
        \/ (steps[i].status = "awaiting_approval" /\ task.plan.steps[i].requires_approval)
  <2>1. steps[i].status = end
    BY <1>1 DEF StepState
  <2> QED
    BY <2>1 DEF Current
<1>6. steps[i].output = task.attempt /\ task.attempt # 0
  BY <1>1, <1>4 DEF StepState
<1>7. \A j \in DOMAIN task.plan.steps : j # i => steps[j] = task.steps[j]
  BY <1>1
<1>8. task' = FinishStage(u, steps, i)
  BY DEF Complete, CompleteOfficeWork
<1>9. /\ Members(task.plan, Stage(i)) = {i} => u.result = {<<i, task.attempt>>}
      /\ Members(task.plan, Stage(i)) # {i} => u.result = task.result
  BY <1>1 DEF Stage, Current, Task
<1> HIDE DEF steps, u
<1>10. Members(task.plan, Stage(i)) = {i} =>
         /\ u.result # {}
         /\ NoCheckpoints(task.plan) => u.result = {<<i, steps[i].output>>}
  BY <1>6, <1>9
<1> QED
  BY <1>1, <1>2, <1>3, <1>4, <1>5, <1>6, <1>7, <1>8, <1>9, <1>10, FinishingCarries

LEMMA ApproveCheckpointCarries ==
  ASSUME TypeOK, Orderly, Reviewed, PaperCarried, CheckpointsAlone(task.plan),
         NEW i \in DOMAIN task.steps, ApproveCheckpoint(i)
  PROVE  PaperCarried'
<1> DEFINE steps == [task.steps EXCEPT ![i].status = "done"]
<1>1. /\ i \in DOMAIN task.plan.steps /\ task \in Task(task.plan)
      /\ task.steps \in [DOMAIN task.plan.steps -> StepState]
  BY TaskFacts DEF Task
<1>2. steps \in [DOMAIN task.plan.steps -> StepState]
  BY <1>1 DEF StepState, StepStatuses
<1>3. StatusOf(i) = "awaiting_approval" /\ i = task.current_step
  BY DEF ApproveCheckpoint, AwaitsApproval, StatusOf, Orderly, AwaitingIsCurrent
<1>4. task.plan.steps[i].kind = "work" /\ task.plan.steps[i].requires_approval /\ task.steps[i].output # 0
  BY <1>3 DEF Reviewed, PaperCarried, DesksAccounted
<1>5. steps[i].status = "done" /\ steps[i].output # 0
  BY <1>1, <1>4 DEF StepState
<1>6. \A j \in DOMAIN task.plan.steps : j # i => steps[j] = task.steps[j]
  BY <1>1
<1>7. task' = FinishStage(task, steps, i)
  BY DEF ApproveCheckpoint, ApproveOfficeCheckpoint
<1>8. task.result # {} /\ ~NoCheckpoints(task.plan)
  BY <1>1, <1>3, <1>4 DEF PaperCarried, NoCheckpoints
<1> HIDE DEF steps
<1> QED
  BY <1>1, <1>2, <1>3, <1>4, <1>5, <1>6, <1>7, <1>8, FinishingCarries

\* The first desk starts without a paper.
LEMMA NewTaskCarries ==
  ASSUME Init
  PROVE  PaperCarried
<1>1. PICK plan \in Plans : task = NewOfficeTask(plan)
  BY DEF Init
<1>2. /\ task.plan = plan /\ task.current_step = 1 /\ task.status = "open"
      /\ task.worker_did = None /\ task.result = {}
      /\ task.steps = [j \in DOMAIN plan.steps |->
                         [status |-> "pending", revision_count |-> 0, output |-> 0]]
  BY <1>1 DEF NewOfficeTask
<1>3. /\ 1 \in DOMAIN plan.steps /\ Stage(1) = 0
      /\ \A j \in DOMAIN plan.steps : Stage(j) \in Nat
  BY <1>2, FirstStage, WorkflowSteps DEF Stage, StepPlan
<1>4. \A j \in DOMAIN task.steps : StatusOf(j) = "pending"
  BY <1>2 DEF StatusOf
<1>5. DesksAccounted
  BY <1>2, <1>3, <1>4 DEF DesksAccounted
<1>6. StageOutput(plan, task.steps, Stage(1) - 1) = {}
  <2>1. Members(plan, Stage(1) - 1) = {}
    BY <1>2, <1>3 DEF Members, Stage
  <2> QED
    BY <2>1 DEF StageOutput
<1> QED
  BY <1>2, <1>3, <1>4, <1>5, <1>6 DEF PaperCarried, PlainHandoffIsPriorStage, HandoffIsPriorStage

LEMMA StepCarries ==
  ASSUME TypeOK, Orderly, Reviewed, PaperCarried, CheckpointsAlone(task.plan), [Next]_vars
  PROVE  PaperCarried'
<1>1. ASSUME NEW a \in Agents, Employee(a)
      PROVE  PaperCarried'
  BY <1>1, PickUpCarries, CompleteCarries, ApproveCarries, ReturnCarries, WaitForRunnerCarries
     DEF Employee
<1>2. ASSUME NEW retryable \in BOOLEAN, Fail(retryable)
      PROVE  PaperCarried'
  BY <1>2, FailCarries
<1>3. ASSUME NEW i \in DOMAIN task.steps, ApproveCheckpoint(i) \/ RejectCheckpoint(i)
      PROVE  PaperCarried'
  BY <1>3, ApproveCheckpointCarries, RejectCheckpointCarries
<1>4. CASE Retry
  BY <1>4, RetryCarries
<1>5. CASE UNCHANGED vars
  BY <1>5 DEF vars, PaperCarried, DesksAccounted, PlainHandoffIsPriorStage, HandoffIsPriorStage,
              Stage, StatusOf
<1> QED
  BY <1>1, <1>2, <1>3, <1>4, <1>5 DEF Next

-----------------------------------------------------------------------------
(***************************************************************************)
(* Theorems                                                                *)
(***************************************************************************)

\* On routes whose checkpoints stand alone in their stage a paper behind the
\* first stage, or before the boss, is never empty; finished desks have an
\* output; and without checkpoints the hand-off is the prior stage's
\* (finishStage, completeOfficeWork, finishOfficeReview).
THEOREM PaperCorrect ==
  ASSUME \A plan \in Plans : CheckpointsAlone(plan)
  PROVE  Spec => []PaperCarried
<1>1. Init => Reviewed /\ PaperCarried
  <2>1. Init => Reviewed
    BY DEF Init, NewOfficeTask, Reviewed, StatusOf
  <2> QED
    BY <2>1, NewTaskCarries
<1>2. TypeOK /\ Orderly /\ Reviewed /\ PaperCarried /\ [Next]_vars => Reviewed' /\ PaperCarried'
  <2>1. TypeOK => CheckpointsAlone(task.plan)
    BY DEF TypeOK
  <2> QED
    BY <2>1, StepIsReviewed, StepCarries
<1> QED
  BY <1>1, <1>2, TypeCorrect, OrderCorrect, PTL DEF Spec

\* On routes without a boss checkpoint the hand-off an employee is prompted
\* with is exactly what the desks of the previous stage last produced
\* (workPrompt, finishStage).
THEOREM HandoffCorrect ==
  ASSUME \A plan \in Plans : CheckpointsAlone(plan)
  PROVE  Spec => []PlainHandoffIsPriorStage
<1>1. PaperCarried => PlainHandoffIsPriorStage
  BY DEF PaperCarried
<1> QED
  BY <1>1, PaperCorrect, PTL

\* What the scheduler offers, the transition accepts: a step that may be
\* picked up is held by nobody, and a review has a paper to judge
\* (runWorkspace, claimOfficeStep, resumeOfficeStep).
THEOREM OfferCorrect ==
  ASSUME \A plan \in Plans : CheckpointsAlone(plan)
  PROVE  Spec => []OfferedIsClaimable
<1>1. TypeOK /\ Orderly /\ PaperCarried => OfferedIsClaimable
  <2>1. SUFFICES ASSUME TypeOK, Orderly, PaperCarried,
                        NEW a \in Agents, NEW due \in BOOLEAN, NEW lapsed \in BOOLEAN,
                        NEW erred \in BOOLEAN, Eligible(task, a, due, lapsed, erred)
                 PROVE  CanTake(task, a, due, lapsed, erred)
    BY DEF OfferedIsClaimable
  <2>2. /\ Current(task).agent = a /\ StatusOf(task.current_step) \in Runnable
        /\ \/ Current(task).kind = "review" /\ task.status = "review"
           \/ Current(task).kind = "work" /\ task.status \in {"open", "running"}
    BY <2>1 DEF Eligible, StatusOf
  <2>3. /\ task.status # "running"
        /\ task.status = "review" => task.reviewer_did = None
    BY <2>1, <2>2 DEF Runnable, Orderly, HolderMatchesStep
  <2>4. task.status = "open" => task.worker_did = None
    BY <2>1 DEF PaperCarried, DesksAccounted
  <2>5. Current(task).kind = "review" => task.result # {}
    <3>1. SUFFICES ASSUME Current(task).kind = "review"
                   PROVE  task.result # {}
      OBVIOUS
    <3>2. /\ task.plan \in Plans /\ task.current_step \in DOMAIN task.plan.steps
          /\ Stage(task.current_step) \in Nat
          /\ task.plan.steps[task.current_step].kind = "review"
      BY <2>1, <3>1, TaskFacts DEF Current
    <3>3. 1 \in DOMAIN task.plan.steps /\ 1 # task.current_step /\ task.plan.steps[1].stage = 0
      BY <3>2, FirstStage, WorkflowOrder
    <3>4. Stage(task.current_step) > 0
      BY <3>2, <3>3, WorkflowOrder DEF Stage
    <3> QED
      BY <2>1, <3>4 DEF PaperCarried
  <2>6. ~ResumesFailedClaim(task, a, erred)
    BY <2>2, <2>3, <2>4, TaskAssumption DEF ResumesFailedClaim
  <2>7. CanClaimOfficeStep(task, a, lapsed)
    BY <2>2, <2>3, <2>5 DEF CanClaimOfficeStep, CanClaimForReview, StatusOf
  <2> QED
    BY <2>1, <2>6, <2>7 DEF CanTake
<1> QED
  BY <1>1, TypeCorrect, OrderCorrect, PaperCorrect, PTL
===============================================================================
