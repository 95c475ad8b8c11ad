----------------------------- MODULE OfficeRuntime -----------------------------
(***************************************************************************)
(* One office task in production: the scheduler (runWorkspace,             *)
(* apps/web/lib/office-runtime.ts), the boss's requests (PATCH of the task *)
(* route), the key-value store of Technocore, and the local trust anchor   *)
(* (apps/web/lib/technocore-integrity.ts).  Nobody writes the task in      *)
(* place: every change is read, computed, sent as a conditional write, and *)
(* anchored after the answer, with an await between any two of these.      *)
(*                                                                         *)
(* One step of this module is what runs between two awaits.  The scheduler *)
(* is one process (workspaceLocks admits one runWorkspace per workspace);  *)
(* each boss is one browser request at a time.  The store may answer late  *)
(* or not at all, the server may stop between any two steps, and the store *)
(* is world-writable.                                                      *)
(*                                                                         *)
(* A read of the store is one step, taken when the store answers, wherever *)
(* nothing that others change is read between the answer and the next      *)
(* await.  The boss's first read is two (Fetch, Decide): the anchor is     *)
(* read again as soon as the answer has been compared.                     *)
(*                                                                         *)
(* A stored value is a record and a stamp: every transition writes a new   *)
(* updated_at, so two computed values never have the same bytes.           *)
(***************************************************************************)
EXTENDS OfficeTask

CONSTANTS
  Bosses,
  Foreign,      \* what somebody outside the office writes
  RetryStates,  \* the route states in which a boss asks for a retry
  MaxFaults,    \* bound: provider failures
  MaxManual,    \* bound: retries of a waiting task
  MaxMishaps    \* bound: unanswered writes, restarts and outside writes, together

ASSUME RuntimeAssumption ==
  /\ RetryStates \subseteq {"waiting", "retrying", "blocked", "exhausted"}
  /\ {MaxFaults, MaxManual, MaxMishaps} \subseteq Nat

VARIABLES
  note,     \* the value in the key-value store
  anchor,   \* trusted_technocore_records: raw_value, and compromised_at as a flag
  sched,    \* the locals of runWorkspace
  boss,     \* the locals of each PATCH
  erred,    \* hosted_agents.last_error is set, by employee
  wire,     \* conditional writes sent whose answer nobody waits for any more
  clock,    \* the last stamp
  faults, manual, lost, crashes, outside  \* the bounded events so far

mishaps == lost + crashes + outside
bounds == <<faults, manual, lost, crashes, outside>>
vars == <<note, anchor, sched, boss, erred, wire, clock, bounds>>

Nobody == [pc |-> "idle"]

First0(plan) == [task |-> NewOfficeTask(plan), stamp |-> 0]

\* What is stored and carried: versions of the one task.
Versions == [task : Task(anchor.raw.task.plan), stamp : 0..clock]

\* The locals of the scheduler and of a request, which go by versions in V.
Looking(V) == [pc : {"listing", "scanning"}, rows : [Agents -> BOOLEAN], seen : V]
Checking(V) == [pc : {"checking"}, seen : V]
Sending(V) == [pc : {"writing", "settling", "anchoring"}, op : {"claim", "wait", "finish", "defer"},
               agent : Agents, base : V, next : V]
Calling(V) == [pc : {"calling"}, agent : Agents, next : V]
Finishing(V) == [pc : {"rereading"}, op : {"finish"}, agent : Agents, seen : V]
GivingUp(V) == [pc : {"rereading"}, op : {"defer"}, agent : Agents, retryable : BOOLEAN, seen : V]

SchedLocals(V) == {Nobody} \union Looking(V) \union Checking(V) \union Sending(V)
                    \union Calling(V) \union Finishing(V) \union GivingUp(V)

Reading(V) == [pc : {"reading"}, seen : V]
Deciding(V) == [pc : {"deciding"}, seen : V, got : {Foreign} \union V]
Replacing(V) == [pc : {"verifying", "writing", "settling", "anchoring"}, from : V, next : V, base : V]
Clearing == [pc : {"clearing"}, agent : Agents]

BossLocals(V) == {Nobody} \union Reading(V) \union Deciding(V) \union Replacing(V) \union Clearing

TypeOK ==
  /\ clock \in Nat
  /\ anchor.raw.task.plan \in Plans
  /\ anchor \in [raw : Versions, compromised : BOOLEAN]
  /\ note \in {Foreign} \union Versions
  /\ sched \in SchedLocals(Versions)
  /\ boss \in [Bosses -> BossLocals(Versions)]
  /\ erred \in [Agents -> BOOLEAN]
  /\ wire \subseteq [base : Versions, next : Versions]
  /\ {faults, manual, lost, crashes, outside} \subseteq Nat /\ mishaps <= MaxMishaps

\* The task has been created and anchored.
Init ==
  /\ \E plan \in Plans : note = First0(plan)
  /\ anchor = [raw |-> note, compromised |-> FALSE]
  /\ sched = Nobody
  /\ boss = [b \in Bosses |-> Nobody]
  /\ erred = [a \in Agents |-> FALSE]
  /\ wire = {}
  /\ clock = 0
  /\ faults = 0 /\ manual = 0 /\ lost = 0 /\ crashes = 0 /\ outside = 0

-----------------------------------------------------------------------------
(***************************************************************************)
(* The store and the anchor                                                *)
(***************************************************************************)

\* A mutant: the new value is not recorded.
TrustKeepsRaw(raw) == anchor' = [anchor EXCEPT !.compromised = FALSE]

\* trustTechnocoreRecord
Trust(raw) == anchor' = [raw |-> raw, compromised |-> FALSE]

\* markCompromised marks the row as it is now, not as it was compared.
MarkCompromised == anchor' = [anchor EXCEPT !.compromised = TRUE]

\* The value a transition computed, serialized with a new updated_at.
Stamped(task) == [task |-> task, stamp |-> clock + 1]

\* A conditional write of process p that the store answers in time.
Applied(p) == note = p.base /\ note' = p.next
Conflict(p) == note # p.base /\ UNCHANGED note

\* A conditional write that times out or fails: it may still be applied.
Unanswered(p) ==
  /\ mishaps < MaxMishaps
  /\ lost' = lost + 1
  /\ wire' = wire \union {[base |-> p.base, next |-> p.next]}

\* The store gets to a write nobody waits for.
Land(m) ==
  /\ m \in wire
  /\ wire' = wire \ {m}
  /\ note' = IF note = m.base THEN m.next ELSE note
  /\ UNCHANGED <<anchor, sched, boss, erred, clock, bounds>>

\* Somebody outside writes the world-writable store: anything, an old value of
\* the task, or what was there before.
OutsideWrite ==
  /\ mishaps < MaxMishaps
  /\ outside' = outside + 1
  /\ note' \in {Foreign, anchor.raw, First0(anchor.raw.task.plan)} \ {note}
  /\ UNCHANGED <<anchor, sched, boss, erred, wire, clock, faults, manual, lost, crashes>>

-----------------------------------------------------------------------------
(***************************************************************************)
(* The scheduler                                                           *)
(***************************************************************************)

Others == <<boss, wire, faults, manual, lost, crashes, outside>>

\* runWorkspace begins: the rows and the anchor are read, then the note is asked for.
Tick ==
  /\ sched.pc = "idle"
  /\ sched' = [pc |-> "listing", rows |-> erred, seen |-> anchor.raw]
  /\ UNCHANGED <<note, anchor, erred, clock, Others>>

\* The end of verifiedRecords.
List ==
  /\ sched.pc = "listing"
  /\ IF note = sched.seen THEN sched' = [sched EXCEPT !.pc = "scanning"] /\ UNCHANGED anchor
                          ELSE sched' = Nobody /\ MarkCompromised
  /\ UNCHANGED <<note, erred, clock, Others>>

\* Send the transition computed from the value read.
Send(op, a, task) ==
  /\ sched' = [pc |-> "writing", op |-> op, agent |-> a, base |-> sched.seen,
               next |-> Stamped(task)]
  /\ clock' = clock + 1

\* The steps from the loop over the employees to the first write: an eligible
\* step waits for its runner or is claimed (OfferedIsClaimable: the claim does not
\* throw).  A new reason of a step that waits already only rewrites it.
Offer(a) ==
  /\ sched.pc = "scanning"
  /\ \E due, lapsed \in BOOLEAN :
       LET t == sched.seen.task IN
       /\ Eligible(t, a, due, lapsed, sched.rows[a])
       /\ \/ /\ CanTake(t, a, due, lapsed, sched.rows[a])
             /\ Send("claim", a, Take(t, a, sched.rows[a]))
             /\ UNCHANGED erred
          \/ /\ Current(t).local /\ t.paper_route.state # "waiting"
             /\ Send("wait", a, MarkOfficeWaiting(t))
             /\ UNCHANGED erred
          \/ /\ Current(t).local /\ t.paper_route.state = "waiting"
             /\ sched' = Nobody
             /\ erred' = [erred EXCEPT ![a] = FALSE]
             /\ UNCHANGED clock
  /\ UNCHANGED <<note, anchor, Others>>

\* Nobody may have the task now, or not before the clock moves on.
NothingToDo ==
  /\ sched.pc = "scanning"
  /\ \A a \in Agents : ~\A due, lapsed \in BOOLEAN :
       Eligible(sched.seen.task, a, due, lapsed, sched.rows[a])
  /\ sched' = Nobody
  /\ UNCHANGED <<note, anchor, erred, clock, Others>>

\* A mutant: the look after a lost claim expects what the store has by then.
NotWrittenAsStored ==
  /\ sched' = IF sched.op = "claim" THEN [pc |-> "checking", seen |-> note] ELSE Nobody
  /\ erred' = IF sched.op = "wait" THEN [erred EXCEPT ![sched.agent] = FALSE] ELSE erred

\* cas returned null: the end of the tick, after a look for the reason of a lost
\* claim; the row of an employee who waits is updated all the same.
NotWritten ==
  /\ sched' = IF sched.op = "claim" THEN [pc |-> "checking", seen |-> anchor.raw] ELSE Nobody
  /\ erred' = IF sched.op = "wait" THEN [erred EXCEPT ![sched.agent] = FALSE] ELSE erred

\* cas: a conflict is null.
Write ==
  /\ sched.pc = "writing"
  /\ \/ Applied(sched) /\ sched' = [sched EXCEPT !.pc = "anchoring"] /\ UNCHANGED erred
     \/ Conflict(sched) /\ NotWritten
  /\ UNCHANGED <<anchor, clock, Others>>

\* A timeout is settled by reading the note; another error is thrown: the tick
\* ends, or the error is recorded as a failure of the step that was finished or
\* was to wait.
WriteFails ==
  /\ sched.pc = "writing"
  /\ Unanswered(sched)
  /\ \/ sched' = [sched EXCEPT !.pc = "settling"]
     \/ sched.op \in {"claim", "defer"} /\ sched' = Nobody
     \/ /\ sched.op \in {"finish", "wait"}
        /\ \E retryable \in BOOLEAN :
             sched' = [pc |-> "rereading", op |-> "defer", agent |-> sched.agent,
                       retryable |-> retryable, seen |-> anchor.raw]
  /\ UNCHANGED <<note, anchor, boss, erred, clock, faults, manual, crashes, outside>>

\* A mutant: a write that timed out counts as written.
SettleTrusts ==
  /\ sched.pc = "settling"
  /\ sched' = [sched EXCEPT !.pc = "anchoring"]
  /\ UNCHANGED <<note, anchor, erred, clock, Others>>

Settle ==
  /\ sched.pc = "settling"
  /\ IF note = sched.next THEN sched' = [sched EXCEPT !.pc = "anchoring"] /\ UNCHANGED erred
                          ELSE NotWritten
  /\ UNCHANGED <<note, anchor, clock, Others>>

\* The verifiedRecord after a lost claim.
Check ==
  /\ sched.pc = "checking"
  /\ IF note = sched.seen THEN UNCHANGED anchor ELSE MarkCompromised
  /\ sched' = Nobody
  /\ UNCHANGED <<note, erred, clock, Others>>

\* onPersisted, then the row of the employee.
Anchor ==
  /\ sched.pc = "anchoring"
  /\ Trust(sched.next)
  /\ sched' = IF sched.op = "claim"
                THEN [pc |-> "calling", agent |-> sched.agent, next |-> sched.next] ELSE Nobody
  /\ erred' = CASE sched.op \in {"claim", "wait"} -> [erred EXCEPT ![sched.agent] = FALSE]
                [] sched.op = "defer" -> [erred EXCEPT ![sched.agent] = TRUE]
                [] OTHER -> erred
  /\ faults' = IF sched.op = "defer" THEN faults + 1 ELSE faults
  /\ UNCHANGED <<note, boss, wire, clock, manual, lost, crashes, outside>>

\* The provider, or the local runner, answered.
CallEnds ==
  /\ sched.pc = "calling"
  /\ sched' = [pc |-> "rereading", op |-> "finish", agent |-> sched.agent, seen |-> anchor.raw]
  /\ UNCHANGED <<note, anchor, erred, clock, Others>>

\* The provider failed, also while it prepared a proposal for the local runner.
Failing(a) == [pc |-> "rereading", op |-> "defer", agent |-> a,
               retryable |-> FALSE, seen |-> anchor.raw]

CallFails ==
  /\ faults < MaxFaults
  /\ \E retryable \in BOOLEAN :
       \/ /\ sched.pc = "calling"
          /\ sched' = [Failing(sched.agent) EXCEPT !.retryable = retryable]
       \/ /\ sched.pc = "scanning"
          /\ Current(sched.seen.task).local
          /\ \E a \in Agents, due, lapsed \in BOOLEAN :
               /\ Eligible(sched.seen.task, a, due, lapsed, sched.rows[a])
               /\ sched' = [Failing(a) EXCEPT !.retryable = retryable]
  /\ UNCHANGED <<note, anchor, erred, clock, Others>>

\* The latest record, verified, and the transition from it.  A finish that
\* throws is recorded as a failure that is not retried; a failure that cannot
\* be recorded ends the tick.
Finishes(t, a) ==
  IF CanCompleteOfficeWork(t, a) THEN {CompleteOfficeWork(t)}
  ELSE IF CanFinishOfficeReview(t, a) THEN {next \in {ApproveResult(t), ReturnResult(t)} : Parses(next)}
  ELSE {}

Reread ==
  /\ sched.pc = "rereading"
  /\ IF note # sched.seen
       THEN sched' = Nobody /\ MarkCompromised /\ UNCHANGED clock
       ELSE LET t == sched.seen.task IN
            /\ UNCHANGED anchor
            /\ \/ /\ sched.op = "finish"
                  /\ \E next \in Finishes(t, sched.agent) : Send("finish", sched.agent, next)
               \/ /\ sched.op = "finish" /\ Finishes(t, sched.agent) = {}
                  /\ sched' = Failing(sched.agent)
                  /\ UNCHANGED clock
               \/ /\ sched.op = "defer" /\ CanDeferOfficeStep(t)
                  /\ Parses(DeferOfficeStep(t, sched.retryable))
                  /\ Send("defer", sched.agent, DeferOfficeStep(t, sched.retryable))
               \/ /\ sched.op = "defer"
                  /\ ~(CanDeferOfficeStep(t) /\ Parses(DeferOfficeStep(t, sched.retryable)))
                  /\ sched' = Nobody
                  /\ UNCHANGED clock
  /\ UNCHANGED <<note, erred, Others>>

Scheduler ==
  \/ Tick \/ List \/ NothingToDo \/ Write \/ WriteFails \/ Settle \/ Check \/ Anchor
  \/ CallEnds \/ CallFails \/ Reread
  \/ \E a \in Agents : Offer(a)

-----------------------------------------------------------------------------
(***************************************************************************)
(* The boss: PATCH of the task route                                       *)
(***************************************************************************)

ByBoss == <<sched, crashes, outside, faults>>

Set(b, value) == boss' = [boss EXCEPT ![b] = value]

Ask(b) ==
  /\ boss[b].pc = "idle"
  /\ Set(b, [pc |-> "reading", seen |-> anchor.raw])
  /\ UNCHANGED <<note, anchor, erred, wire, clock, lost, manual, ByBoss>>

\* A mutant: a stopped task may be retried whatever stopped it.
DecisionsByState(t) ==
  IF t.paper_route.state \in RetryStates THEN {RecoverOfficeTask(t)}
  ELSE {ApproveOfficeCheckpoint(t, i) : i \in {j \in DOMAIN t.steps : AwaitsApproval(t, j)}}
         \union {RejectOfficeCheckpoint(t, i) : i \in {j \in DOMAIN t.steps : CanRejectCheckpoint(t, j)}}

\* The transitions a request of the boss may ask for and that do not throw.
Decisions(t) ==
  LET checkpoints == {i \in DOMAIN t.steps : AwaitsApproval(t, i)}
  IN  {ApproveOfficeCheckpoint(t, i) : i \in checkpoints}
        \union {next \in {RejectOfficeCheckpoint(t, i) :
                            i \in {j \in checkpoints : CanRejectCheckpoint(t, j)}} : Parses(next)}
        \union {next \in {RecoverOfficeTask(t)} :
                  /\ CanRecoverOfficeTask(t)
                  /\ t.paper_route.state \in RetryStates
                  /\ t.paper_route.state = "waiting" => manual < MaxManual}

\* The store answers.
Fetch(b) ==
  /\ boss[b].pc = "reading"
  /\ Set(b, [pc |-> "deciding", seen |-> boss[b].seen, got |-> note])
  /\ UNCHANGED <<note, anchor, erred, wire, clock, lost, manual, ByBoss>>

\* verifiedRecord ends and the transition is computed; replaceTrustedRecord
\* begins, and reads the anchor again.
Decide(b) ==
  /\ boss[b].pc = "deciding"
  /\ IF boss[b].got # boss[b].seen
       THEN Set(b, Nobody) /\ MarkCompromised /\ UNCHANGED clock
       ELSE /\ UNCHANGED anchor
            /\ \/ \E next \in Decisions(boss[b].seen.task) :
                    /\ Set(b, [pc |-> "verifying", from |-> boss[b].seen,
                               next |-> Stamped(next), base |-> anchor.raw])
                    /\ clock' = clock + 1
               \/ Decisions(boss[b].seen.task) = {} /\ Set(b, Nobody) /\ UNCHANGED clock
  /\ UNCHANGED <<note, erred, wire, lost, manual, ByBoss>>

\* The second verifiedRecord: the base of the write is the value anchored now.
Verify(b) ==
  /\ boss[b].pc = "verifying"
  /\ IF note # boss[b].base
       THEN Set(b, Nobody) /\ MarkCompromised
       ELSE Set(b, [boss[b] EXCEPT !.pc = "writing"]) /\ UNCHANGED anchor
  /\ UNCHANGED <<note, erred, wire, clock, lost, manual, ByBoss>>

BossWrite(b) ==
  /\ boss[b].pc = "writing"
  /\ \/ /\ Applied(boss[b])
        /\ Set(b, [boss[b] EXCEPT !.pc = "anchoring"])
        /\ UNCHANGED <<wire, lost>>
     \/ /\ Conflict(boss[b])
        /\ Set(b, [boss[b] EXCEPT !.pc = "settling"])
        /\ UNCHANGED <<wire, lost>>
     \/ /\ Unanswered(boss[b])
        /\ Set(b, [boss[b] EXCEPT !.pc = "settling"]) \/ Set(b, Nobody)
        /\ UNCHANGED note
  /\ UNCHANGED <<anchor, erred, clock, manual, ByBoss>>

\* Any error of the write: confirmed, changed by another, or not written.
BossSettle(b) ==
  /\ boss[b].pc = "settling"
  /\ \/ /\ note = boss[b].next
        /\ Set(b, [boss[b] EXCEPT !.pc = "anchoring"]) /\ UNCHANGED anchor
     \/ /\ note \notin {boss[b].next, boss[b].base}
        /\ Set(b, Nobody) /\ MarkCompromised
     \/ /\ note = boss[b].base
        /\ Set(b, Nobody) /\ UNCHANGED anchor
  /\ UNCHANGED <<note, erred, wire, clock, lost, manual, ByBoss>>

BossAnchor(b) ==
  /\ boss[b].pc = "anchoring"
  /\ Trust(boss[b].next)
  /\ Set(b, [pc |-> "clearing", agent |-> Current(boss[b].next.task).agent])
  /\ manual' = IF boss[b].from.task.paper_route.state = "waiting"
                    /\ boss[b].next.task = RecoverOfficeTask(boss[b].from.task)
                 THEN manual + 1 ELSE manual
  /\ UNCHANGED <<note, erred, wire, clock, lost, ByBoss>>

\* After the event is published, the error of the employee is cleared.
Clear(b) ==
  /\ boss[b].pc = "clearing"
  /\ erred' = [erred EXCEPT ![boss[b].agent] = FALSE]
  /\ Set(b, Nobody)
  /\ UNCHANGED <<note, anchor, wire, clock, lost, manual, ByBoss>>

Boss(b) ==
  \/ Ask(b) \/ Fetch(b) \/ Decide(b) \/ Verify(b)
  \/ BossWrite(b) \/ BossSettle(b) \/ BossAnchor(b) \/ Clear(b)

-----------------------------------------------------------------------------
(***************************************************************************)
(* The server                                                              *)
(***************************************************************************)

\* The process stops and starts: locals and the workspace lock are gone, the
\* database stays, a write on its way may still be applied.
Crash ==
  /\ mishaps < MaxMishaps
  /\ crashes' = crashes + 1
  /\ sched' = Nobody
  /\ boss' = [b \in Bosses |-> Nobody]
  /\ wire' = wire \union {[base |-> p.base, next |-> p.next] :
                            p \in {q \in {sched} \union {boss[b] : b \in Bosses} : q.pc = "writing"}}
  /\ UNCHANGED <<note, anchor, erred, clock, faults, manual, lost, outside>>

Next ==
  \/ Scheduler
  \/ \E b \in Bosses : Boss(b)
  \/ \E m \in wire : Land(m)
  \/ OutsideWrite
  \/ Crash

Spec == Init /\ [][Next]_vars

(***************************************************************************)
(* Fairness: the background runtime ticks for ever, and what it awaits     *)
(* ends; the clock moves, so a step that may be offered some day is not    *)
(* passed over for ever.                                                   *)
(***************************************************************************)
SchedulerFairness ==
  /\ WF_vars(Scheduler)
  /\ SF_vars(\E a \in Agents : Offer(a))

FairSpec == Spec /\ SchedulerFairness

-----------------------------------------------------------------------------
(***************************************************************************)
(* Properties                                                              *)
(***************************************************************************)

\* To the board an unanswered write of a finished step is a failure, too.
Board == INSTANCE OfficeBoard WITH task <- anchor.raw.task, MaxFaults <- MaxFaults + MaxMishaps

\* Whatever is lost, late, written from outside or interrupted: the anchored
\* task goes through the transitions of transitions.ts one at a time, each from
\* the value the one before left (cas, replaceTrustedRecord, verifiedRecord).
AnchoredHistory == Board!Spec

\* An employee is paid only for a claim the office holds: as long as nobody
\* outside writes, while the provider is called the store and the anchor both
\* have the claim the call is made for, also after a timeout and whatever lands
\* late (architecture.md, "Before an agent calls a provider ..."; casNote).
CallIsAnchored ==
  (sched.pc = "calling" /\ outside = 0) => note = sched.next /\ anchor.raw = sched.next

\* Without lost answers, restarts and outsiders the store and the anchor only
\* differ while the process that wrote has not anchored yet: the office does
\* not lock itself out.
DivergenceIsTransient ==
  (lost = 0 /\ crashes = 0 /\ outside = 0 /\ note # anchor.raw) =>
    \E p \in {sched} \union {boss[b] : b \in Bosses} :
      p.pc = "anchoring" /\ note = p.next

\* A boss's decision is stored over the record it was taken on, as every other
\* transition is ("Tasks move desk to desk through Technocore conditional
\* writes", README; replaceTrustedRecord).
NoLostUpdate ==
  [][\A b \in Bosses :
       (note' # note /\ boss[b].pc = "writing" /\ note' = boss[b].next)
         => note = boss[b].from]_vars

\* "changed outside this office and was quarantined" (verifiedRecord): a record
\* is quarantined only if somebody outside wrote it.
QuarantineIsOutside == anchor.compromised => outside > 0

\* "temporary upstream failures use exponential backoff" (README): a step in
\* backoff is tried again, or at least leaves the backoff.
RetryHappens ==
  anchor.raw.task.paper_route.state = "retrying" ~> anchor.raw.task.paper_route.state # "retrying"

-----------------------------------------------------------------------------
(***************************************************************************)
(* The inductive invariants                                                *)
(***************************************************************************)

\* p has computed a value that is not anchored yet.
Carries(p) == p.pc \in {"verifying", "writing", "settling", "anchoring"}

\* The versions that are anchored, or that somebody goes by who has read the anchor.
Known ==
  {anchor.raw} \union {m.base : m \in wire}
    \union (IF sched.pc \in {"listing", "scanning", "rereading"} THEN {sched.seen} ELSE {})
    \union (IF Carries(sched) THEN {sched.base} ELSE {})
    \union {boss[b].base : b \in {c \in Bosses : Carries(boss[c])}}

\* A computed value is new, and its own process's.
Fresh ==
  /\ Carries(sched) => sched.next \notin Known
  /\ \A b \in Bosses : Carries(boss[b]) =>
       /\ boss[b].next \notin Known
       /\ Carries(sched) => boss[b].next # sched.next
       /\ \A c \in Bosses \ {b} : Carries(boss[c]) => boss[b].next # boss[c].next

\* Without mishaps every write is answered at once, and whoever is to anchor has what
\* is in the store.
Undisturbed ==
  (lost = 0 /\ crashes = 0 /\ outside = 0) =>
    /\ wire = {} /\ sched.pc # "settling"
    /\ sched.pc = "anchoring" => note = sched.next
    /\ \A b \in Bosses : boss[b].pc = "anchoring" => note = boss[b].next
    /\ DivergenceIsTransient

\* What one goes by is what it was: whoever writes, late or not, expects a value that
\* was anchored, and sends one that was not.
Traced == TypeOK /\ Fresh /\ Undisturbed

\* The boss may decide something about t.
BossTurn(t) ==
  \/ \E i \in DOMAIN t.steps : AwaitsApproval(t, i)
  \/ t.paper_route.state \in RetryStates

\* The scheduler may offer t.
Offered(t) ==
  /\ t.steps[t.current_step].status \in Runnable
  /\ t.paper_route.state \notin {"blocked", "exhausted"}

Holds(t, a) == CanCompleteOfficeWork(t, a) \/ CanFinishOfficeReview(t, a)

\* The transitions of t to u: for the scheduler's op and employee a, and for the boss.
Sends(op, a, t, u) ==
  \/ /\ op = "claim"
     /\ \E due, lapsed, e \in BOOLEAN : CanTake(t, a, due, lapsed, e) /\ u = Take(t, a, e)
  \/ /\ op = "wait" /\ Current(t).local /\ t.paper_route.state # "waiting"
     /\ \E due, lapsed, e \in BOOLEAN : Eligible(t, a, due, lapsed, e)
     /\ u = MarkOfficeWaiting(t)
  \/ op = "finish" /\ u \in Finishes(t, a)
  \/ /\ op = "defer" /\ CanDeferOfficeStep(t)
     /\ \E retryable \in BOOLEAN : u = DeferOfficeStep(t, retryable) /\ Parses(u)

Decides(t, u) ==
  \/ \E i \in DOMAIN t.steps : AwaitsApproval(t, i) /\ u = ApproveOfficeCheckpoint(t, i)
  \/ \E i \in DOMAIN t.steps : CanRejectCheckpoint(t, i) /\ u = RejectOfficeCheckpoint(t, i) /\ Parses(u)
  \/ CanRecoverOfficeTask(t) /\ t.paper_route.state \in RetryStates /\ u = RecoverOfficeTask(t)

\* The scheduler and the boss take turns, which the anchored task decides: who carries a
\* transition computed it from that task, and what the other has read is that
\* task or of no use.
SchedInTurn ==
  /\ sched.pc \in {"listing", "scanning"} => sched.seen = anchor.raw \/ ~Offered(sched.seen.task)
  /\ Carries(sched) =>
       /\ sched.base = anchor.raw /\ ~BossTurn(anchor.raw.task)
       /\ Sends(sched.op, sched.agent, anchor.raw.task, sched.next.task)
  /\ sched.pc = "calling" =>
       sched.next = anchor.raw /\ ~BossTurn(anchor.raw.task) /\ Holds(anchor.raw.task, sched.agent)
  /\ sched.pc = "rereading" =>
       /\ sched.seen = anchor.raw /\ ~BossTurn(anchor.raw.task)
       /\ sched.op = "finish" => Holds(anchor.raw.task, sched.agent)

BossInTurn(p) ==
  /\ p.pc \in {"reading", "deciding"} => p.seen = anchor.raw \/ ~BossTurn(p.seen.task)
  /\ Carries(p) =>
       /\ p.base = anchor.raw /\ p.from = anchor.raw /\ BossTurn(anchor.raw.task)
       /\ Decides(anchor.raw.task, p.next.task)

\* A failure that is being recorded was the provider's or a lost answer.
Deferring == sched.pc \in {"rereading", "writing", "settling", "anchoring"} /\ sched.op = "defer"

FailuresCounted == faults + (IF Deferring THEN 1 ELSE 0) <= MaxFaults + lost

\* The store keeps a claim until the call it was made for has ended.
ClaimKept ==
  outside = 0 =>
    /\ sched.pc \in {"anchoring", "calling"} => note = sched.next
    /\ sched.pc = "calling" => \A m \in wire : m.base # sched.next

TurnsTaken ==
  /\ SchedInTurn /\ \A b \in Bosses : BossInTurn(boss[b])
  /\ FailuresCounted /\ ClaimKept
  /\ Parses(anchor.raw.task)
==============================================================================
