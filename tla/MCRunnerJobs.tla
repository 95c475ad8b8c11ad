------------------------------ MODULE MCRunnerJobs ------------------------------
(* Instances of RunnerJobs. *)
EXTENDS RunnerJobs

\* the boss grants changes, with verification or without
WriteOrVerify == {{"read", "write"}, {"read", "write", "verify"}}

\* changes only
WriteOnly == {{"read", "write"}}
==============================================================================
