------------------------------- MODULE TaskQueue -------------------------------
(***************************************************************************)
(* The queue of standalone agents (packages/core/src/queue.ts, the first   *)
(* transitions of transitions.ts, apps/agent/src/cli.ts): any number of    *)
(* worker and reviewer processes share a task that lies in a Technocore    *)
(* note, claim it under a lease by conditional writes, and publish signed  *)
(* events, from which analyzeIntegrity (integrity.ts) judges the note.     *)
(*                                                                         *)
(* Each request to Technocore is a step: the read of a pass, the           *)
(* conditional writes, the event after each.  A write may be answered,     *)
(* refused for a conflict, lost, applied without an answer, or applied     *)
(* late.                                                                   *)
(*                                                                         *)
(* Data kept abstract:                                                     *)
(*  - one task; it does not depend on the others, which are passed over in *)
(*    the same pass, but for what stops a process (Look);                  *)
(*  - prompt, contract and texts never change and are left out; a result   *)
(*    is the attempt that made it;                                         *)
(*  - updated_at makes every version of the note different: stamp counts   *)
(*    them.  A lease is live until `lapsed`; a note has one lease at most, *)
(*    its worker's or its reviewer's;                                      *)
(*  - of the room only what analyzeIntegrity looks at is kept: the latest  *)
(*    claim, submission and approval.                                      *)
(***************************************************************************)
EXTENDS Integers

CONSTANTS
  Workers, Reviewers,  \* the agents' DIDs
  None,                \* no DID
  MaxAttempts,         \* max_attempts of the task
  MaxMishaps           \* bound: requests or answers lost, processes killed,
                       \* providers failing, leases lapsing under an agent at work

Agents == Workers \union Reviewers

ASSUME QueueAssumption ==
  /\ Workers \intersect Reviewers = {} /\ None \notin Agents
  /\ MaxAttempts \in Nat \ {0} /\ MaxMishaps \in Nat

VARIABLES
  note,     \* the task in the note
  lapsed,   \* the lease in the note is over
  procs,    \* the agents' processes
  late,     \* conditional writes that may still be applied
  room,     \* the latest events
  owed,     \* events that follow from the note and are not in the room
  mishaps

vars == <<note, lapsed, procs, late, room, owed, mishaps>>

\* taskSchema
Task ==
  [status : {"open", "running", "review", "done", "failed"},
   attempt : 0..MaxAttempts,
   requires_review : BOOLEAN,
   worker : Workers \union {None},
   reviewer : Reviewers \union {None},
   result : 0..MaxAttempts,
   stamp : Nat]

\* createTask
Created(requiresReview) ==
  [status |-> "open", attempt |-> 0, requires_review |-> requiresReview,
   worker |-> None, reviewer |-> None, result |-> 0, stamp |-> 0]

\* What a process holds when it holds nothing.
Blank == Created(FALSE)

Processes ==
  [pc : {"off", "idle", "seen", "claimed", "resumed", "working", "finished"}, copy : Task]

\* A signed event: its author, the attempt it is about, and whether a newer one
\* had been made when it was published.
Event == [by : Agents \union {None}, attempt : 0..MaxAttempts, late : BOOLEAN]

Unsaid == [by |-> None, attempt |-> 0, late |-> FALSE]

Kinds == {"claim", "result", "verdict"}

TypeOK ==
  /\ note \in Task /\ lapsed \in BOOLEAN
  /\ procs \in [Agents -> Processes]
  /\ \A w \in late : w.from \in Task /\ w.to \in Task
  /\ room \in [Kinds -> Event]
  /\ owed \in SUBSET Kinds
  /\ mishaps \in 0..MaxMishaps

\* TechnoQueue.create
Init ==
  /\ note \in {Created(r) : r \in BOOLEAN}
  /\ lapsed = FALSE
  /\ procs = [a \in Agents |-> [pc |-> "off", copy |-> Blank]]
  /\ late = {}
  /\ room = [k \in Kinds |-> Unsaid]
  /\ owed = {}
  /\ mishaps = 0

Mishap == mishaps < MaxMishaps /\ mishaps' = mishaps + 1

-----------------------------------------------------------------------------
(***************************************************************************)
(* The transitions                                                         *)
(***************************************************************************)

Stamped(task) == [task EXCEPT !.stamp = @ + 1]

\* claimForWork: the result and the feedback of an earlier attempt stay.
ClaimForWork(task, did) ==
  Stamped([task EXCEPT !.status = "running", !.attempt = @ + 1, !.worker = did, !.reviewer = None])

SubmitResult(task) ==
  Stamped([task EXCEPT !.status = IF task.requires_review THEN "review" ELSE "done",
                       !.result = task.attempt, !.reviewer = None])

ClaimForReview(task, did) == Stamped([task EXCEPT !.reviewer = did])

ApproveTask(task) == Stamped([task EXCEPT !.status = "done"])

\* requestChanges: the reviewer stays, without a lease, until the next claim.
RequestChanges(task) ==
  IF task.attempt >= MaxAttempts
    THEN Stamped([task EXCEPT !.status = "failed"])
    ELSE Stamped([task EXCEPT !.status = "open", !.worker = None])

-----------------------------------------------------------------------------
(***************************************************************************)
(* Conditional writes (cas, compareAndSetNote)                             *)
(***************************************************************************)

\* The event that is to follow a write.
Due(old, new) ==
  CASE new.status = "running" -> {"claim"}
    [] old.status = "running" /\ new.status # "running" -> {"result"}
    [] old.status = "review" /\ new.status = "done" -> {"verdict"}
    [] OTHER -> {}

Apply(new) ==
  /\ note' = new
  /\ lapsed' = FALSE
  /\ owed' = owed \union Due(note, new)

Proc(a, pc, copy) == procs' = [procs EXCEPT ![a] = [pc |-> pc, copy |-> copy]]

\* A mutant: the note's value is not compared.
MatchesAny(copy) == TRUE

\* The note is, byte for byte, what was read.
Matches(copy) == note = copy

\* The write of `new` over the copy of agent a, and the second read after a
\* timeout. Who has not won passes on to the next task or backs off.
Cas(a, new, won) ==
  LET copy == procs[a].copy IN
  \/ /\ Matches(copy)
     /\ Apply(new) /\ Proc(a, won, new)
     /\ UNCHANGED <<late, mishaps>>
  \/ /\ ~Matches(copy)
     /\ Proc(a, "idle", Blank)
     /\ UNCHANGED <<note, lapsed, owed, late, mishaps>>
  \/ /\ Mishap /\ Matches(copy)   \* applied, and the answers to both are lost
     /\ Apply(new) /\ Proc(a, "idle", Blank)
     /\ UNCHANGED late
  \/ /\ Mishap                    \* not applied, or not yet
     /\ late' = late \union {[from |-> copy, to |-> new]}
     /\ Proc(a, "idle", Blank)
     /\ UNCHANGED <<note, lapsed, owed>>

\* A write that nobody waits for arrives.
Land(w) ==
  /\ late' = late \ {w}
  /\ IF Matches(w.from) THEN Apply(w.to) ELSE UNCHANGED <<note, lapsed, owed>>
  /\ UNCHANGED <<procs, room, mishaps>>

-----------------------------------------------------------------------------
(***************************************************************************)
(* A pass of an agent (workerLoop, reviewerLoop)                           *)
(***************************************************************************)

\* Mutants: a running task is taken for an expired one; an expired one is not
\* taken on.
AvailableAlways(a) ==
  IF a \in Workers THEN note.status \in {"open", "running"}
                   ELSE note.status = "review" /\ (note.reviewer = None \/ lapsed)
AvailableOpen(a) ==
  IF a \in Workers THEN note.status = "open"
                   ELSE note.status = "review" /\ (note.reviewer = None \/ lapsed)

Available(a) ==
  IF a \in Workers
    THEN note.status = "open" \/ (note.status = "running" /\ lapsed)
    ELSE note.status = "review" /\ (note.reviewer = None \/ lapsed)

\* ownActiveClaim
OwnClaim(a) ==
  /\ ~lapsed
  /\ IF a \in Workers THEN note.status = "running" /\ note.worker = a
                      ELSE note.status = "review" /\ note.reviewer = a

\* A mutant: one attempt too many.
ThrowsLate(a) == a \in Workers /\ note.attempt > MaxAttempts

\* claimForWork throws, and the process ends.
Throws(a) == a \in Workers /\ note.attempt >= MaxAttempts

\* The tasks are listed, and this one is looked at.
Look(a) ==
  /\ procs[a].pc = "idle"
  /\ \/ Available(a) /\ ~Throws(a) /\ Proc(a, "seen", note)
     \/ Available(a) /\ Throws(a) /\ Proc(a, "off", Blank)
     \/ OwnClaim(a) /\ Proc(a, "resumed", note)
  /\ UNCHANGED <<note, lapsed, late, room, owed, mishaps>>

\* claimWork, claimReview: the write.
Claim(a) ==
  /\ procs[a].pc = "seen"
  /\ LET copy == procs[a].copy IN
     Cas(a, IF a \in Workers THEN ClaimForWork(copy, a) ELSE ClaimForReview(copy, a), "claimed")
  /\ UNCHANGED room

\* An event is published. A review claim is of no use to analyzeIntegrity.
Say(kind, event) ==
  /\ room' = [room EXCEPT ![kind] = event]
  /\ owed' = IF event.late THEN owed ELSE owed \ {kind}

SayClaim(a) ==
  LET copy == procs[a].copy IN
  IF a \in Workers
    THEN Say("claim", [by |-> a, attempt |-> copy.attempt, late |-> note.attempt # copy.attempt])
    ELSE UNCHANGED <<room, owed>>

\* A mutant: the event is published before it is known who has won.
AnnounceFirst(a) ==
  /\ procs[a].pc \in {"seen", "claimed", "resumed"}
  /\ procs[a].pc = "seen" => room["claim"].by # a
  /\ IF procs[a].pc = "seen"
       THEN /\ a \in Workers
            /\ room' = [room EXCEPT !["claim"] =
                 [by |-> a, attempt |-> procs[a].copy.attempt + 1, late |-> FALSE]]
            /\ UNCHANGED <<owed, procs>>
       ELSE SayClaim(a) /\ Proc(a, "working", procs[a].copy)
  /\ UNCHANGED <<note, lapsed, late, mishaps>>

\* The event of a claim is tried once: when it fails, the pass ends.
AnnounceOnce(a) ==
  /\ procs[a].pc = "claimed"
  /\ \/ SayClaim(a) /\ Proc(a, "working", procs[a].copy) /\ UNCHANGED mishaps
     \/ /\ Mishap
        /\ SayClaim(a) \/ UNCHANGED <<room, owed>>
        /\ Proc(a, "idle", Blank)
  /\ UNCHANGED <<note, lapsed, late>>

\* retryTransient: that of a resumed claim is tried until it is published.
AnnounceAgain(a) ==
  /\ procs[a].pc = "resumed"
  /\ SayClaim(a) /\ Proc(a, "working", procs[a].copy)
  /\ UNCHANGED <<note, lapsed, late, mishaps>>

Announce(a) == AnnounceOnce(a) \/ AnnounceAgain(a)

\* completeWork, finishReview: the provider has answered, and the write.
Finish(a) ==
  /\ procs[a].pc = "working"
  /\ LET copy == procs[a].copy IN
     IF a \in Workers THEN Cas(a, SubmitResult(copy), "finished")
     ELSE Cas(a, ApproveTask(copy), "finished") \/ Cas(a, RequestChanges(copy), "finished")
  /\ UNCHANGED room

\* The event of what was written; of a returned task it changes no verdict.
SayFinished(a) ==
  LET copy == procs[a].copy
      event == [by |-> a, attempt |-> copy.result, late |-> note.result # copy.result]
  IN  CASE a \in Workers -> Say("result", event)
        [] a \in Reviewers /\ copy.status = "done" -> Say("verdict", event)
        [] OTHER -> UNCHANGED <<room, owed>>

\* It is tried once.
Attest(a) ==
  /\ procs[a].pc = "finished"
  /\ \/ SayFinished(a) /\ UNCHANGED mishaps
     \/ Mishap /\ UNCHANGED <<room, owed>>
  /\ Proc(a, "idle", Blank)
  /\ UNCHANGED <<note, lapsed, late>>

-----------------------------------------------------------------------------
(***************************************************************************)
(* Time and faults                                                         *)
(***************************************************************************)

Holder ==
  CASE note.status = "running" -> note.worker
    [] note.status = "review" -> note.reviewer
    [] OTHER -> None

\* The lease runs out: under an agent at work that is a mishap.
Lapse ==
  /\ Holder # None /\ ~lapsed
  /\ lapsed' = TRUE
  /\ IF procs[Holder].pc = "off" THEN UNCHANGED mishaps ELSE Mishap
  /\ UNCHANGED <<note, procs, late, room, owed>>

\* A process is killed, or its provider fails, which nothing catches.
Stop(a) ==
  /\ procs[a].pc # "off"
  /\ Mishap
  /\ Proc(a, "off", Blank)
  /\ UNCHANGED <<note, lapsed, late, room, owed>>

Boot(a) ==
  /\ procs[a].pc = "off"
  /\ Proc(a, "idle", Blank)
  /\ UNCHANGED <<note, lapsed, late, room, owed, mishaps>>

-----------------------------------------------------------------------------

Agent(a) == Look(a) \/ Claim(a) \/ Announce(a) \/ Finish(a) \/ Attest(a)

Next ==
  \/ \E a \in Agents : Agent(a) \/ Stop(a) \/ Boot(a)
  \/ \E w \in late : Land(w)
  \/ Lapse

Spec == Init /\ [][Next]_vars

(***************************************************************************)
(* Fairness: an agent that runs goes on, and time passes.  Nothing starts  *)
(* an agent again (docker-compose.yml runs the web application only).      *)
(***************************************************************************)
FairSpec == Spec /\ (\A a \in Agents : WF_vars(Agent(a))) /\ WF_vars(Lapse)

-----------------------------------------------------------------------------
(***************************************************************************)
(* Properties                                                              *)
(***************************************************************************)

Promise == INSTANCE QueuePromise WITH
  phase <- note.status, attempt <- note.attempt, worker <- note.worker, delivered <- note.result

\* The notes the agents write, with copies that go stale, lost answers, late
\* writes and lapsed leases, are a run of what the queue promises.
Implements == Promise!Spec

\* A live claim is not taken over ("allows only expired leases to be reclaimed",
\* packages/core/tests/core.test.ts), nor by a write that was computed from an older
\* note: while a lease is live, the next note has the holder's result or verdict.
LiveClaimIsKept ==
  [][note' # note /\ Holder # None /\ ~lapsed =>
       /\ note'.status # note.status
       /\ IF note.status = "running"
            THEN note'.worker = note.worker /\ note'.result = note.attempt
            ELSE note'.reviewer = note.reviewer /\ note'.result = note.result]_vars

\* analyzeIntegrity, without the contract, whose digest never changes.
Judged(kind, did, applies) ==
  CASE ~applies -> "not_applicable"
    [] applies /\ room[kind] = Unsaid -> "unavailable"
    [] applies /\ room[kind] # Unsaid ->
         IF room[kind].by = did /\ (kind = "claim" \/ room[kind].attempt = note.result)
           THEN "valid" ELSE "mismatch"

Integrity ==
  [prompt |-> Judged("claim", note.worker, TRUE),
   result |-> Judged("result", note.worker, note.result # 0),
   review |-> Judged("verdict", note.reviewer, note.requires_review /\ note.status = "done")]

\* A task that honest agents finish is not accused of having been altered, in
\* whatever order they were replaced and their requests were lost, unless an event
\* of theirs is missing or was published after a newer one.
DoneIsAttested ==
  (note.status = "done" /\ owed = {} /\ \A k \in Kinds : ~room[k].late) =>
    \A k \in DOMAIN Integrity : Integrity[k] \in {"valid", "not_applicable"}

\* Somebody runs who could take the task on.
Attended ==
  \E a \in IF note.status = "review" THEN Reviewers ELSE Workers : procs[a].pc # "off"

\* The worker of the last attempt let its lease lapse. claimForWork throws for it,
\* which ends every worker that looks at the task.
Poisoned == note.status = "running" /\ lapsed /\ note.attempt = MaxAttempts

\* "Leases reduce dead tasks": a task does not wait for ever for an agent that is
\* gone, as long as others run, unless its last attempt was lost.
QueueSettles == <>[](Attended /\ ~Poisoned) => <>(note.status \in {"done", "failed"})

-----------------------------------------------------------------------------
(***************************************************************************)
(* The inductive invariant behind the safety properties.                   *)
(***************************************************************************)

\* A claim, and a result or verdict, computed from a version of the note.
ClaimWrite(from, to) ==
  \/ /\ from.status \in {"open", "running"} /\ from.attempt < MaxAttempts
     /\ \E w \in Workers : to = ClaimForWork(from, w)
  \/ /\ from.status = "review"
     /\ \E r \in Reviewers : to = ClaimForReview(from, r)

FinishWrite(from, to) ==
  \/ from.status = "running" /\ to = SubmitResult(from)
  \/ from.status = "review" /\ from.reviewer # None /\ to \in {ApproveTask(from), RequestChanges(from)}

\* Every version of the note: who has been given an attempt or has approved is
\* named, and a delivered result is that of the latest attempt.
Coherent(t) ==
  /\ t.status # "open" => t.worker # None
  /\ t.status = "done" /\ t.requires_review => t.reviewer # None
  /\ t.status \in {"review", "done", "failed"} => t.result = t.attempt

\* A version a process or a late write goes by: it is the note, or older.
Older(t) == Coherent(t) /\ t.stamp <= note.stamp /\ t.attempt <= note.attempt

\* Nobody has a live claim.
Unheld == Holder = None \/ lapsed

\* Who holds version t.
HeldBy(t, a) ==
  IF a \in Workers THEN t.status = "running" /\ t.worker = a
                   ELSE t.status = "review" /\ t.reviewer = a

\* What a process goes by. One that has seen the task: a version somebody may claim,
\* and, if it is still the note, nobody has claimed. One at work: its own claim. One
\* that has finished: its own result or verdict, and an approved task stays as it is.
\* And an attempt has one worker.
ProcessIsLawful(a) ==
  LET pc == procs[a].pc
      t  == procs[a].copy
  IN
  /\ pc \notin {"off", "idle"} => Older(t)
  /\ pc = "seen" =>
       /\ IF a \in Workers THEN t.status \in {"open", "running"} /\ t.attempt < MaxAttempts
                            ELSE t.status = "review"
       /\ t = note => Unheld
  /\ pc \in {"claimed", "resumed", "working"} => HeldBy(t, a)
  /\ pc = "finished" =>
       /\ a \in Workers => t.worker = a /\ t.result = t.attempt
       /\ a \in Reviewers /\ t.status = "done" => t = note /\ t.reviewer = a
  /\ (a \in Workers /\ pc \in {"claimed", "resumed", "working", "finished"}
       /\ t.attempt = note.attempt /\ note.status # "open") => note.worker = a

\* A write under way is a claim or a finish, and a claim that would still be
\* applied takes the task from nobody.
WriteIsLawful(from, to) ==
  /\ Older(from)
  /\ \/ ClaimWrite(from, to) /\ (from = note => Unheld)
     \/ FinishWrite(from, to)

\* The room's latest events are about the note, unless they are owed or late.
Said(kind, did) ==
  kind \in owed \/ room[kind].late
    \/ (room[kind].by = did /\ (kind = "claim" \/ room[kind].attempt = note.result))

RoomFollows ==
  /\ note.status # "open" => Said("claim", note.worker)
  /\ note.status \in {"review", "done", "failed"} => Said("result", note.worker)
  /\ note.status = "done" /\ note.requires_review => Said("verdict", note.reviewer)

Lawful ==
  /\ Coherent(note)
  /\ \A a \in Agents : ProcessIsLawful(a)
  /\ \A w \in late : WriteIsLawful(w.from, w.to)
  /\ RoomFollows
==============================================================================
