------------------------------ MODULE MCTaskQueue ------------------------------
(* An instance of TaskQueue. The agents' liveness is not symmetric. *)
EXTENDS TaskQueue
==============================================================================
