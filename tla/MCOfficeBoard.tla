----------------------------- MODULE MCOfficeBoard -----------------------------
(* Instances of OfficeBoard: small workflows of the shapes validateWorkflow   *)
(* admits.  rejection_target_step = 0 is null.                                *)
EXTENDS OfficeBoard, TLC

CONSTANTS ann, bob, cyd, rev

Work(a, s, limit) ==
  [agent |-> a, kind |-> "work", stage |-> s, merge |-> FALSE,
   requires_approval |-> FALSE, max_revisions |-> limit, local |-> FALSE]

Checkpoint(a, s, limit) == [Work(a, s, limit) EXCEPT !.requires_approval = TRUE]
Local(a, s, limit) == [Work(a, s, limit) EXCEPT !.local = TRUE]
Merge(a, s, limit) == [Work(a, s, limit) EXCEPT !.merge = TRUE]
Review(a, s) == [Work(a, s, 0) EXCEPT !.kind = "review"]

Plan(steps, target) == [steps |-> steps, rejection_target_step |-> target, max_retries |-> 2]

\* planner (checkpoint) -> developer with a local project -> reviewer
Linear == Plan(<<Checkpoint(ann, 0, 1), Local(bob, 1, 1), Review(rev, 2)>>, 0)

\* two branches -> merge desk -> reviewer, who returns work to the second branch
Parallel == Plan(<<Work(ann, 0, 1), Work(bob, 0, 1), Merge(cyd, 1, 1), Review(rev, 2)>>, 2)

\* a planner who is also the merge desk (checkpoint), the reviewer returns to the planner
Fan == Plan(<<Work(ann, 0, 1), Work(bob, 1, 0), Work(cyd, 1, 0), Checkpoint(ann, 2, 1)>>, 0)
FanMerge == [Fan EXCEPT !.steps[4].merge = TRUE]

\* a single desk that the boss checks
Single == Plan(<<Checkpoint(ann, 0, 2)>>, 0)

OrderedPlans == {Linear, Parallel, FanMerge, Single}

\* a parallel stage with one boss checkpoint
OneCheckedBranch == {Plan(<<Checkpoint(ann, 0, 1), Work(bob, 0, 1), Merge(cyd, 1, 1)>>, 0)}

\* a parallel stage where both branches are boss checkpoints
TwoCheckedBranches == {Plan(<<Checkpoint(ann, 0, 0), Checkpoint(bob, 0, 0), Merge(cyd, 1, 1)>>, 0)}

\* planner -> writer whom the boss checks
CheckedWriter == {Plan(<<Work(ann, 0, 1), Checkpoint(bob, 1, 1)>>, 0)}

==============================================================================
