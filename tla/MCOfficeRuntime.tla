---------------------------- MODULE MCOfficeRuntime ----------------------------
(* Instances of OfficeRuntime. *)
EXTENDS OfficeRuntime, TLC

CONSTANTS ann, bob, rev, owner

Work(a, s, limit) ==
  [agent |-> a, kind |-> "work", stage |-> s, merge |-> FALSE,
   requires_approval |-> FALSE, max_revisions |-> limit, local |-> FALSE]

Checkpoint(a, s, limit) == [Work(a, s, limit) EXCEPT !.requires_approval = TRUE]
Local(a, s, limit) == [Work(a, s, limit) EXCEPT !.local = TRUE]
Review(a, s) == [Work(a, s, 0) EXCEPT !.kind = "review"]

Plan(steps) == [steps |-> steps, rejection_target_step |-> 0, max_retries |-> 2]

\* a writer checked by the boss, then a reviewer; and a developer with a local project
ShortRoutes == {Plan(<<Checkpoint(ann, 0, 1), Review(rev, 1)>>), Plan(<<Local(bob, 0, 0)>>)}

\* a developer with a local project
LocalDesk == {Plan(<<Local(bob, 0, 0)>>)}

\* one desk
OneDesk == {Plan(<<Work(ann, 0, 1)>>)}
==============================================================================
