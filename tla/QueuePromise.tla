------------------------------ MODULE QueuePromise ------------------------------
(***************************************************************************)
(* What the queue of standalone agents promises of a task ("Queue safety", *)
(* docs/architecture.md), without leases, copies, retries or lost answers: *)
(* attempts are numbered and bounded, only the worker of the latest one    *)
(* delivers and delivers once, and a verdict is about the delivery that is *)
(* there.                                                                  *)
(***************************************************************************)
EXTENDS Integers

CONSTANTS
  Workers,
  None,        \* no worker
  MaxAttempts

VARIABLES
  phase,      \* "open", "running", "review", "done" or "failed"
  attempt,    \* of the latest claim
  worker,     \* of the latest claim, while it counts
  delivered   \* the attempt whose result is there, or 0

vars == <<phase, attempt, worker, delivered>>

Init ==
  /\ phase = "open" /\ attempt = 0
  /\ worker = None /\ delivered = 0

\* A worker begins an attempt, perhaps in place of one that is given up.
Begin(w) ==
  /\ phase \in {"open", "running"} /\ attempt < MaxAttempts
  /\ phase' = "running" /\ attempt' = attempt + 1 /\ worker' = w
  /\ UNCHANGED delivered

Deliver ==
  /\ phase = "running"
  /\ phase' \in {"review", "done"}
  /\ delivered' = attempt
  /\ UNCHANGED <<attempt, worker>>

Accept ==
  /\ phase = "review" /\ delivered = attempt
  /\ phase' = "done"
  /\ UNCHANGED <<attempt, worker, delivered>>

\* Changes are requested: another attempt, if there is one.
SendBack ==
  /\ phase = "review" /\ delivered = attempt
  /\ IF attempt < MaxAttempts
       THEN phase' = "open" /\ worker' = None
       ELSE phase' = "failed" /\ UNCHANGED worker
  /\ UNCHANGED <<attempt, delivered>>

Next == (\E w \in Workers : Begin(w)) \/ Deliver \/ Accept \/ SendBack

Spec == Init /\ [][Next]_vars
==============================================================================
