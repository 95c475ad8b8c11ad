-------------------------- MODULE OfficeRuntimeProofs --------------------------
(***************************************************************************)
(* Theorems about OfficeRuntime, for every set of valid workflows,         *)
(* employees, bosses and bounds on failures, lost answers, restarts and    *)
(* outside writes.                                                         *)
(***************************************************************************)
EXTENDS OfficeRuntime, OfficeTaskProofs

-----------------------------------------------------------------------------
(***************************************************************************)
(* Versions and locals                                                     *)
(***************************************************************************)

LEMMA LocalsGrow ==
  ASSUME NEW V, NEW W, V \subseteq W
  PROVE  SchedLocals(V) \subseteq SchedLocals(W) /\ BossLocals(V) \subseteq BossLocals(W)
BY DEF SchedLocals, BossLocals, Looking, Checking, Sending, Calling, Finishing, GivingUp,
       Reading, Deciding, Replacing

LEMMA VersionsGrow ==
  ASSUME TypeOK, clock' \in {clock, clock + 1}, anchor'.raw.task.plan = anchor.raw.task.plan
  PROVE  /\ Versions \subseteq Versions' /\ clock' \in Nat
         /\ clock' = clock => Versions' = Versions
         /\ SchedLocals(Versions) \subseteq SchedLocals(Versions')
         /\ BossLocals(Versions) \subseteq BossLocals(Versions')
<1>1. Versions \subseteq Versions' /\ (clock' = clock => Versions' = Versions) /\ clock' \in Nat
  <2>1. clock \in Nat /\ clock' \in Nat /\ 0..clock \subseteq 0..clock'
    BY DEF TypeOK
  <2> QED
    BY <2>1 DEF Versions
<1>2. /\ SchedLocals(Versions) \subseteq SchedLocals(Versions')
      /\ BossLocals(Versions) \subseteq BossLocals(Versions')
  BY <1>1, LocalsGrow
<1> QED
  BY <1>1, <1>2

\* What a local is follows from where the scheduler is.
LEMMA SchedShape ==
  ASSUME TypeOK
  PROVE  /\ sched.pc \in {"idle", "listing", "scanning", "writing", "settling", "checking",
                          "anchoring", "calling", "rereading"}
         /\ sched.pc = "idle" => sched = Nobody
         /\ sched.pc \in {"listing", "scanning"} => sched \in Looking(Versions)
         /\ sched.pc \in {"writing", "settling", "anchoring"} => sched \in Sending(Versions)
         /\ sched.pc = "checking" => sched \in Checking(Versions)
         /\ sched.pc = "calling" => sched \in Calling(Versions)
         /\ sched.pc = "rereading" => sched \in Finishing(Versions) \union GivingUp(Versions)
BY DEF TypeOK, SchedLocals, Nobody, Looking, Checking, Sending, Calling, Finishing, GivingUp

LEMMA BossShape ==
  ASSUME TypeOK, NEW b \in Bosses
  PROVE  /\ boss[b].pc \in {"idle", "reading", "deciding", "verifying", "writing", "settling",
                            "anchoring", "clearing"}
         /\ boss[b].pc = "idle" => boss[b] = Nobody
         /\ boss[b].pc = "reading" => boss[b] \in Reading(Versions)
         /\ boss[b].pc = "deciding" => boss[b] \in Deciding(Versions)
         /\ boss[b].pc \in {"verifying", "writing", "settling", "anchoring"} =>
              boss[b] \in Replacing(Versions)
         /\ boss[b].pc = "clearing" => boss[b] \in Clearing
<1>1. boss[b] \in BossLocals(Versions)
  BY DEF TypeOK
<1> QED
  BY <1>1 DEF BossLocals, Nobody, Reading, Deciding, Replacing, Clearing

\* A value computed now is a version, and was none before.
LEMMA StampedIsNew ==
  ASSUME TypeOK, NEW t \in Task(anchor.raw.task.plan),
         clock' = clock + 1, anchor' = anchor
  PROVE  Stamped(t) \in Versions' /\ Stamped(t) \notin Versions
BY DEF Stamped, Versions, TypeOK

LEMMA Plan ==
  ASSUME TypeOK
  PROVE  /\ anchor.raw.task.plan \in Plans /\ anchor.raw \in Versions
         /\ \A v \in Versions : v.task \in Task(anchor.raw.task.plan) /\ v.task.plan = anchor.raw.task.plan
BY DEF TypeOK, Versions, Task

\* The transitions there are keep the workflow.
LEMMA FinishesAreTasks ==
  ASSUME NEW plan \in Plans, NEW t \in Task(plan), NEW a, NEW u \in Finishes(t, a)
  PROVE  u \in Task(plan)
BY CompleteType, ApproveType, ReturnType DEF Finishes, CanFinishOfficeReview

LEMMA DecisionsAreTasks ==
  ASSUME NEW plan \in Plans, NEW t \in Task(plan), NEW u \in Decisions(t)
  PROVE  u \in Task(plan)
<1>1. DOMAIN t.steps = DOMAIN plan.steps
  BY DEF Task
<1> QED
  BY <1>1, ApproveCheckpointType, RejectCheckpointType, RecoverType DEF Decisions

-----------------------------------------------------------------------------
(***************************************************************************)
(* Types                                                                   *)
(***************************************************************************)

\* Steps that neither anchor nor compute: the versions are what they were.
LEMMA StillTyped ==
  ASSUME TypeOK, clock' = clock,
         anchor' \in {anchor, [anchor EXCEPT !.compromised = TRUE]},
         note' \in {Foreign} \union Versions,
         sched' \in SchedLocals(Versions),
         boss' \in [Bosses -> BossLocals(Versions)],
         erred' \in [Agents -> BOOLEAN],
         wire' \subseteq [base : Versions, next : Versions],
         {faults', manual', lost', crashes', outside'} \subseteq Nat, mishaps' <= MaxMishaps
  PROVE  TypeOK'
<1>1. anchor'.raw = anchor.raw /\ anchor' \in [raw : Versions, compromised : BOOLEAN]
  BY DEF TypeOK
<1>2. Versions' = Versions
  BY <1>1 DEF Versions
<1> QED
  BY <1>1, <1>2 DEF TypeOK

\* Steps that compute a value, and change nothing else but locals.
LEMMA ComputingTyped ==
  ASSUME TypeOK, clock' = clock + 1, UNCHANGED <<note, anchor, wire, bounds>>,
         erred' = erred,
         sched' \in SchedLocals(Versions'), boss' \in [Bosses -> BossLocals(Versions')]
  PROVE  TypeOK'
<1>1. Versions \subseteq Versions' /\ clock' \in Nat
  BY VersionsGrow
<1>2. anchor' \in [raw : Versions', compromised : BOOLEAN] /\ note' \in {Foreign} \union Versions'
  BY <1>1 DEF TypeOK
<1>3. wire' \subseteq [base : Versions', next : Versions']
  BY <1>1 DEF TypeOK
<1> QED
  BY <1>1, <1>2, <1>3 DEF TypeOK, bounds, mishaps

\* Steps that anchor.
LEMMA AnchoringTyped ==
  ASSUME TypeOK, NEW v \in Versions, Trust(v), UNCHANGED <<note, wire, clock, lost, crashes, outside>>,
         sched' \in SchedLocals(Versions), boss' \in [Bosses -> BossLocals(Versions)],
         erred' \in [Agents -> BOOLEAN], faults' \in Nat, manual' \in Nat
  PROVE  TypeOK'
<1>1. anchor' = [raw |-> v, compromised |-> FALSE] /\ anchor'.raw.task.plan = anchor.raw.task.plan
  BY Plan DEF Trust
<1>2. Versions' = Versions
  BY <1>1 DEF Versions
<1> QED
  BY <1>1, <1>2 DEF TypeOK, mishaps

LEMMA SchedulerTypes ==
  ASSUME TypeOK, Scheduler
  PROVE  TypeOK'
<1>0. /\ note \in {Foreign} \union Versions /\ boss \in [Bosses -> BossLocals(Versions)]
      /\ sched \in SchedLocals(Versions) /\ Nobody \in SchedLocals(Versions)
      /\ erred \in [Agents -> BOOLEAN] /\ wire \subseteq [base : Versions, next : Versions]
      /\ {faults, manual, lost, crashes, outside} \subseteq Nat /\ mishaps <= MaxMishaps
      /\ anchor.raw \in Versions
  BY Plan DEF TypeOK, SchedLocals
<1>1. CASE Tick
  <2>1. sched' \in Looking(Versions)
    BY <1>0, <1>1 DEF Tick, Looking
  <2> QED
    BY <1>0, <1>1, <2>1, StillTyped, Zenon DEF Tick, Others, SchedLocals, mishaps
<1>2. CASE List
  <2>1. sched \in Looking(Versions)
    BY <1>2, SchedShape DEF List
  <2>2. sched' \in Looking(Versions) \union {Nobody}
    BY <1>2, <2>1 DEF List, Looking
  <2>3. sched' \in SchedLocals(Versions)
    BY <2>2 DEF SchedLocals
  <2> QED
    BY <1>0, <1>2, <2>3, StillTyped, Zenon DEF List, MarkCompromised, Others, mishaps
<1>3. CASE NothingToDo
  BY <1>0, <1>3, StillTyped, Zenon DEF NothingToDo, Others, mishaps
<1>4. CASE Write
  <2>1. sched \in Sending(Versions)
    BY <1>4, SchedShape DEF Write
  <2>2. sched.next \in Versions /\ sched.agent \in Agents
    BY <2>1 DEF Sending
  <2>3. note' \in {Foreign} \union Versions
    BY <1>0, <1>4, <2>2 DEF Write, Applied, Conflict
  <2>4. /\ [sched EXCEPT !.pc = "anchoring"] \in Sending(Versions)
        /\ [pc |-> "checking", seen |-> anchor.raw] \in Checking(Versions)
    BY <1>0, <2>1 DEF Sending, Checking
  <2>5. sched' \in Sending(Versions) \union Checking(Versions) \union {Nobody}
    BY <1>4, <2>4 DEF Write, NotWritten
  <2>6. sched' \in SchedLocals(Versions)
    BY <2>5 DEF SchedLocals
  <2>7. erred' \in [Agents -> BOOLEAN]
    BY <1>0, <1>4, <2>2 DEF Write, NotWritten
  <2> QED
    BY <1>0, <1>4, <2>3, <2>6, <2>7, StillTyped, Zenon DEF Write, Others, mishaps
<1>5. CASE WriteFails
  <2>1. sched \in Sending(Versions)
    BY <1>5, SchedShape DEF WriteFails
  <2>2. /\ sched.base \in Versions /\ sched.next \in Versions /\ sched.agent \in Agents
        /\ [sched EXCEPT !.pc = "settling"] \in Sending(Versions)
    BY <2>1 DEF Sending
  <2>3. \A retryable \in BOOLEAN :
          [pc |-> "rereading", op |-> "defer", agent |-> sched.agent,
           retryable |-> retryable, seen |-> anchor.raw] \in GivingUp(Versions)
    BY <1>0, <2>2 DEF GivingUp
  <2>4. sched' \in Sending(Versions) \union GivingUp(Versions) \union {Nobody}
    BY <1>5, <2>2, <2>3 DEF WriteFails
  <2>5. sched' \in SchedLocals(Versions)
    BY <2>4 DEF SchedLocals
  <2>6. wire' \subseteq [base : Versions, next : Versions]
    BY <1>0, <1>5, <2>2 DEF WriteFails, Unanswered
  <2>7. {faults', manual', lost', crashes', outside'} \subseteq Nat /\ mishaps' <= MaxMishaps
    BY <1>0, <1>5, RuntimeAssumption DEF WriteFails, Unanswered, mishaps
  <2> QED
    BY <1>0, <1>5, <2>5, <2>6, <2>7, StillTyped, Zenon DEF WriteFails
<1>6. CASE Settle
  <2>1. sched \in Sending(Versions)
    BY <1>6, SchedShape DEF Settle
  <2>2. /\ [sched EXCEPT !.pc = "anchoring"] \in Sending(Versions) /\ sched.agent \in Agents
        /\ [pc |-> "checking", seen |-> anchor.raw] \in Checking(Versions)
    BY <1>0, <2>1 DEF Sending, Checking
  <2>3. sched' \in Sending(Versions) \union Checking(Versions) \union {Nobody}
    BY <1>6, <2>2 DEF Settle, NotWritten
  <2>4. sched' \in SchedLocals(Versions)
    BY <2>3 DEF SchedLocals
  <2>5. erred' \in [Agents -> BOOLEAN]
    BY <1>0, <1>6, <2>2 DEF Settle, NotWritten
  <2> QED
    BY <1>0, <1>6, <2>4, <2>5, StillTyped, Zenon DEF Settle, Others, mishaps
<1>7. CASE Check
  BY <1>0, <1>7, StillTyped, Zenon DEF Check, MarkCompromised, Others, mishaps
<1>8. CASE Anchor
  <2>1. sched \in Sending(Versions)
    BY <1>8, SchedShape DEF Anchor
  <2>2. /\ sched.next \in Versions /\ sched.agent \in Agents
        /\ [pc |-> "calling", agent |-> sched.agent, next |-> sched.next] \in Calling(Versions)
    BY <2>1 DEF Sending, Calling
  <2>3. sched' \in SchedLocals(Versions)
    BY <1>0, <1>8, <2>2 DEF Anchor, SchedLocals
  <2>4. erred' \in [Agents -> BOOLEAN]
    <3>1. \A e \in BOOLEAN : [erred EXCEPT ![sched.agent] = e] \in [Agents -> BOOLEAN]
      BY <1>0, <2>2
    <3> QED
      BY <1>0, <1>8, <3>1 DEF Anchor
  <2>5. faults' \in Nat
    BY <1>0, <1>8 DEF Anchor
  <2> QED
    BY <1>0, <1>8, <2>2, <2>3, <2>4, <2>5, AnchoringTyped, Zenon DEF Anchor
<1>9. CASE CallEnds
  <2>1. sched \in Calling(Versions)
    BY <1>9, SchedShape DEF CallEnds
  <2>2. sched' \in Finishing(Versions)
    BY <1>0, <1>9, <2>1 DEF CallEnds, Calling, Finishing
  <2> QED
    BY <1>0, <1>9, <2>2, StillTyped, Zenon DEF CallEnds, Others, SchedLocals, mishaps
<1>10. CASE CallFails
  <2>1. PICK a \in Agents, retryable \in BOOLEAN : sched' = [Failing(a) EXCEPT !.retryable = retryable]
    <3>1. sched.pc = "calling" => sched.agent \in Agents
      BY SchedShape DEF Calling
    <3> QED
      BY <1>10, <3>1 DEF CallFails
  <2>2. sched' \in GivingUp(Versions)
    BY <1>0, <2>1 DEF Failing, GivingUp
  <2> QED
    BY <1>0, <1>10, <2>2, StillTyped, Zenon DEF CallFails, Others, SchedLocals, mishaps
<1>11. CASE Reread
  <2>1. sched \in Finishing(Versions) \union GivingUp(Versions)
    BY <1>11, SchedShape DEF Reread
  <2>2. /\ sched.seen \in Versions /\ sched.agent \in Agents
        /\ sched.seen.task \in Task(anchor.raw.task.plan) /\ anchor.raw.task.plan \in Plans
        /\ sched.op = "defer" => sched.retryable \in BOOLEAN
    BY <2>1, Plan DEF Finishing, GivingUp
  <2>3. CASE clock' = clock
    <3>1. Failing(sched.agent) \in GivingUp(Versions)
      BY <1>0, <2>2 DEF Failing, GivingUp
    <3>2. sched' \in GivingUp(Versions) \union {Nobody}
      <4>1. clock \in Nat
        BY DEF TypeOK
      <4> QED
        BY <1>11, <2>3, <3>1, <4>1 DEF Reread, Send
    <3>3. sched' \in SchedLocals(Versions)
      BY <3>2 DEF SchedLocals
    <3> QED
      BY <1>0, <1>11, <2>3, <3>3, StillTyped, Zenon DEF Reread, MarkCompromised, Others, mishaps
  <2>4. CASE clock' # clock
    <3>1. PICK op \in {"finish", "defer"}, u \in Task(anchor.raw.task.plan) : Send(op, sched.agent, u)
      <4>1. \A u \in Finishes(sched.seen.task, sched.agent) : u \in Task(anchor.raw.task.plan)
        BY <2>2, FinishesAreTasks
      <4>2. sched.op = "defer" => DeferOfficeStep(sched.seen.task, sched.retryable) \in Task(anchor.raw.task.plan)
        BY <2>2, DeferType
      <4> QED
        BY <1>11, <2>4, <4>1, <4>2 DEF Reread
    <3>2. clock' = clock + 1 /\ UNCHANGED <<note, anchor, erred, Others>>
      BY <1>11, <2>4, <3>1 DEF Reread, Send
    <3>3. Stamped(u) \in Versions' /\ Versions \subseteq Versions'
      BY <3>2, StampedIsNew, VersionsGrow
    <3>4. sched' \in Sending(Versions')
      BY <2>2, <3>1, <3>3 DEF Send, Sending
    <3>5. sched' \in SchedLocals(Versions')
      BY <3>4 DEF SchedLocals
    <3>6. boss' \in [Bosses -> BossLocals(Versions')]
      BY <1>0, <3>2, VersionsGrow DEF Others
    <3> QED
      BY <3>2, <3>5, <3>6, ComputingTyped DEF Others, bounds
  <2> QED
    BY <2>3, <2>4
<1>12. ASSUME NEW a \in Agents, Offer(a)
       PROVE  TypeOK'
  <2>1. sched \in Looking(Versions)
    BY <1>12, SchedShape DEF Offer
  <2>2. /\ sched.seen \in Versions
        /\ sched.seen.task \in Task(anchor.raw.task.plan) /\ anchor.raw.task.plan \in Plans
    BY <2>1, Plan DEF Looking
  <2>3. UNCHANGED <<note, anchor, Others>>
    BY <1>12 DEF Offer
  <2>4. CASE sched' = Nobody
    <3>1. clock' = clock /\ erred' \in [Agents -> BOOLEAN]
      BY <1>0, <1>12, <2>4 DEF Offer, Send, Nobody
    <3> QED
      BY <1>0, <2>3, <2>4, <3>1, StillTyped, Zenon DEF Others, mishaps
  <2>5. CASE sched' # Nobody
    <3>1. PICK op \in {"claim", "wait"}, u \in Task(anchor.raw.task.plan) : Send(op, a, u) /\ erred' = erred
      <4>1. Take(sched.seen.task, a, sched.rows[a]) \in Task(anchor.raw.task.plan)
        BY <2>2, TakeType
      <4>2. MarkOfficeWaiting(sched.seen.task) \in Task(anchor.raw.task.plan)
        BY <2>2, WaitingType
      <4> QED
        BY <1>12, <2>5, <4>1, <4>2 DEF Offer
    <3>2. Stamped(u) \in Versions' /\ Versions \subseteq Versions' /\ clock' = clock + 1
      BY <2>3, <3>1, StampedIsNew, VersionsGrow DEF Send
    <3>3. sched' \in Sending(Versions')
      BY <2>2, <3>1, <3>2 DEF Send, Sending
    <3>4. sched' \in SchedLocals(Versions')
      BY <3>3 DEF SchedLocals
    <3>5. boss' \in [Bosses -> BossLocals(Versions')]
      BY <1>0, <2>3, <3>2, VersionsGrow DEF Others
    <3> QED
      BY <2>3, <3>1, <3>2, <3>4, <3>5, ComputingTyped DEF Others, bounds
  <2> QED
    BY <2>4, <2>5
<1> QED
  BY <1>1, <1>2, <1>3, <1>4, <1>5, <1>6, <1>7, <1>8, <1>9, <1>10, <1>11, <1>12 DEF Scheduler

LEMMA BossTypes ==
  ASSUME TypeOK, NEW b \in Bosses, Boss(b)
  PROVE  TypeOK'
<1>0. /\ note \in {Foreign} \union Versions /\ boss \in [Bosses -> BossLocals(Versions)]
      /\ sched \in SchedLocals(Versions) /\ Nobody \in BossLocals(Versions)
      /\ erred \in [Agents -> BOOLEAN] /\ wire \subseteq [base : Versions, next : Versions]
      /\ {faults, manual, lost, crashes, outside} \subseteq Nat /\ mishaps <= MaxMishaps
      /\ anchor.raw \in Versions
  BY Plan DEF TypeOK, BossLocals
<1>1. ASSUME NEW V, NEW p \in BossLocals(V), boss \in [Bosses -> BossLocals(V)], Set(b, p)
      PROVE  boss' \in [Bosses -> BossLocals(V)]
  BY <1>1 DEF Set
<1>2. CASE Ask(b)
  <2>1. [pc |-> "reading", seen |-> anchor.raw] \in BossLocals(Versions)
    BY <1>0 DEF BossLocals, Reading
  <2>2. boss' \in [Bosses -> BossLocals(Versions)]
    BY <1>0, <1>1, <1>2, <2>1 DEF Ask
  <2> QED
    BY <1>0, <1>2, <2>2, StillTyped, Zenon DEF Ask, ByBoss, mishaps
<1>3. CASE Fetch(b)
  <2>1. boss[b] \in Reading(Versions)
    BY <1>3, BossShape DEF Fetch
  <2>2. [pc |-> "deciding", seen |-> boss[b].seen, got |-> note] \in BossLocals(Versions)
    BY <1>0, <2>1 DEF BossLocals, Reading, Deciding
  <2>3. boss' \in [Bosses -> BossLocals(Versions)]
    BY <1>0, <1>1, <1>3, <2>2 DEF Fetch
  <2> QED
    BY <1>0, <1>3, <2>3, StillTyped, Zenon DEF Fetch, ByBoss, mishaps
<1>4. CASE Decide(b)
  <2>1. boss[b] \in Deciding(Versions)
    BY <1>4, BossShape DEF Decide
  <2>2. /\ boss[b].seen \in Versions /\ boss[b].seen.task \in Task(anchor.raw.task.plan)
        /\ anchor.raw.task.plan \in Plans
    BY <2>1, Plan DEF Deciding
  <2>3. CASE Set(b, Nobody) /\ UNCHANGED clock
    <3>1. boss' \in [Bosses -> BossLocals(Versions)]
      BY <1>0, <1>1, <2>3
    <3> QED
      BY <1>0, <1>4, <2>3, <3>1, StillTyped, Zenon DEF Decide, MarkCompromised, ByBoss, mishaps
  <2>4. CASE ~(Set(b, Nobody) /\ UNCHANGED clock)
    <3>1. PICK u \in Decisions(boss[b].seen.task) :
            /\ Set(b, [pc |-> "verifying", from |-> boss[b].seen, next |-> Stamped(u), base |-> anchor.raw])
            /\ clock' = clock + 1 /\ anchor' = anchor
      BY <1>4, <2>4 DEF Decide
    <3>2. u \in Task(anchor.raw.task.plan)
      BY <2>2, DecisionsAreTasks
    <3>3. Stamped(u) \in Versions' /\ Versions \subseteq Versions'
      BY <3>1, <3>2, StampedIsNew, VersionsGrow
    <3>4. [pc |-> "verifying", from |-> boss[b].seen, next |-> Stamped(u), base |-> anchor.raw]
            \in BossLocals(Versions')
      BY <1>0, <2>2, <3>3 DEF BossLocals, Replacing
    <3>5. /\ boss \in [Bosses -> BossLocals(Versions')]
          /\ SchedLocals(Versions) \subseteq SchedLocals(Versions')
      BY <1>0, <3>1, VersionsGrow
    <3>6. boss' \in [Bosses -> BossLocals(Versions')]
      BY <1>1, <3>1, <3>4, <3>5
    <3> QED
      BY <1>0, <1>4, <3>1, <3>5, <3>6, ComputingTyped DEF Decide, ByBoss, bounds
  <2> QED
    BY <2>3, <2>4
<1>5. CASE Verify(b)
  <2>1. boss[b] \in Replacing(Versions)
    BY <1>5, BossShape DEF Verify
  <2>2. [boss[b] EXCEPT !.pc = "writing"] \in BossLocals(Versions)
    BY <2>1 DEF BossLocals, Replacing
  <2>3. boss' \in [Bosses -> BossLocals(Versions)]
    BY <1>0, <1>1, <1>5, <2>2 DEF Verify
  <2> QED
    BY <1>0, <1>5, <2>3, StillTyped, Zenon DEF Verify, MarkCompromised, ByBoss, mishaps
<1>6. CASE BossWrite(b)
  <2>1. boss[b] \in Replacing(Versions)
    BY <1>6, BossShape DEF BossWrite
  <2>2. /\ \A pc \in {"anchoring", "settling"} : [boss[b] EXCEPT !.pc = pc] \in BossLocals(Versions)
        /\ boss[b].base \in Versions /\ boss[b].next \in Versions
    BY <2>1 DEF BossLocals, Replacing
  <2>3. boss' \in [Bosses -> BossLocals(Versions)]
    BY <1>0, <1>1, <1>6, <2>2 DEF BossWrite
  <2>4. note' \in {Foreign} \union Versions /\ wire' \subseteq [base : Versions, next : Versions]
    BY <1>0, <1>6, <2>2 DEF BossWrite, Applied, Conflict, Unanswered
  <2>5. {faults', manual', lost', crashes', outside'} \subseteq Nat /\ mishaps' <= MaxMishaps
    BY <1>0, <1>6, RuntimeAssumption DEF BossWrite, Unanswered, ByBoss, mishaps
  <2> QED
    BY <1>0, <1>6, <2>3, <2>4, <2>5, StillTyped, Zenon DEF BossWrite, ByBoss
<1>7. CASE BossSettle(b)
  <2>1. boss[b] \in Replacing(Versions)
    BY <1>7, BossShape DEF BossSettle
  <2>2. [boss[b] EXCEPT !.pc = "anchoring"] \in BossLocals(Versions)
    BY <2>1 DEF BossLocals, Replacing
  <2>3. boss' \in [Bosses -> BossLocals(Versions)]
    BY <1>0, <1>1, <1>7, <2>2 DEF BossSettle
  <2> QED
    BY <1>0, <1>7, <2>3, StillTyped, Zenon DEF BossSettle, MarkCompromised, ByBoss, mishaps
<1>8. CASE BossAnchor(b)
  <2>1. boss[b] \in Replacing(Versions)
    BY <1>8, BossShape DEF BossAnchor
  <2>2. boss[b].next \in Versions /\ Current(boss[b].next.task).agent \in Agents
    <3>1. boss[b].next \in Versions
      BY <2>1 DEF Replacing
    <3>2. /\ boss[b].next.task.plan \in Plans
          /\ boss[b].next.task.current_step \in DOMAIN boss[b].next.task.plan.steps
      BY <3>1, Plan DEF Task
    <3> QED
      BY <3>1, <3>2, WorkflowSteps DEF Current, StepPlan
  <2>3. [pc |-> "clearing", agent |-> Current(boss[b].next.task).agent] \in BossLocals(Versions)
    BY <2>2 DEF BossLocals, Clearing
  <2>4. boss' \in [Bosses -> BossLocals(Versions)]
    BY <1>0, <1>1, <1>8, <2>3 DEF BossAnchor
  <2>5. manual' \in Nat
    BY <1>0, <1>8 DEF BossAnchor
  <2> QED
    BY <1>0, <1>8, <2>2, <2>4, <2>5, AnchoringTyped, Zenon DEF BossAnchor, ByBoss
<1>9. CASE Clear(b)
  <2>1. boss[b] \in Clearing
    BY <1>9, BossShape DEF Clear
  <2>2. boss' \in [Bosses -> BossLocals(Versions)]
    BY <1>0, <1>1, <1>9 DEF Clear
  <2>3. erred' \in [Agents -> BOOLEAN]
    BY <1>0, <1>9, <2>1 DEF Clear, Clearing
  <2> QED
    BY <1>0, <1>9, <2>2, <2>3, StillTyped, Zenon DEF Clear, ByBoss, mishaps
<1> QED
  BY <1>2, <1>3, <1>4, <1>5, <1>6, <1>7, <1>8, <1>9 DEF Boss

\* Late writes, writes from outside, restarts.
Environment == (\E m \in wire : Land(m)) \/ OutsideWrite \/ Crash

LEMMA EnvironmentTypes ==
  ASSUME TypeOK, Environment
  PROVE  TypeOK'
<1>0. /\ note \in {Foreign} \union Versions /\ boss \in [Bosses -> BossLocals(Versions)]
      /\ sched \in SchedLocals(Versions)
      /\ erred \in [Agents -> BOOLEAN] /\ wire \subseteq [base : Versions, next : Versions]
      /\ {faults, manual, lost, crashes, outside} \subseteq Nat /\ mishaps <= MaxMishaps
      /\ anchor.raw \in Versions
  BY Plan DEF TypeOK
<1>1. ASSUME NEW m \in wire, Land(m)
      PROVE  TypeOK'
  <2>1. m.next \in Versions
    BY <1>0
  <2>2. note' \in {Foreign} \union Versions /\ wire' \subseteq [base : Versions, next : Versions]
    BY <1>0, <1>1, <2>1 DEF Land
  <2> QED
    BY <1>0, <1>1, <2>2, StillTyped, Zenon DEF Land, bounds, mishaps
<1>2. CASE OutsideWrite
  <2>1. First0(anchor.raw.task.plan) \in Versions
    BY Plan, InitialTask DEF First0, Versions, TypeOK
  <2>2. note' \in {Foreign} \union Versions
    BY <1>0, <1>2, <2>1 DEF OutsideWrite
  <2>3. {faults', manual', lost', crashes', outside'} \subseteq Nat /\ mishaps' <= MaxMishaps
    BY <1>0, <1>2, RuntimeAssumption DEF OutsideWrite, mishaps
  <2> QED
    BY <1>0, <1>2, <2>2, <2>3, StillTyped, Zenon DEF OutsideWrite
<1>3. CASE Crash
  <2>1. sched' \in SchedLocals(Versions) /\ boss' \in [Bosses -> BossLocals(Versions)]
    BY <1>3 DEF Crash, SchedLocals, BossLocals
  <2>2. sched.pc = "writing" => sched.base \in Versions /\ sched.next \in Versions
    BY SchedShape DEF Sending
  <2>3. \A b \in Bosses : boss[b].pc = "writing" => boss[b].base \in Versions /\ boss[b].next \in Versions
    BY BossShape DEF Replacing
  <2>4. wire' \subseteq [base : Versions, next : Versions]
    BY <1>0, <1>3, <2>2, <2>3 DEF Crash
  <2>5. {faults', manual', lost', crashes', outside'} \subseteq Nat /\ mishaps' <= MaxMishaps
    BY <1>0, <1>3, RuntimeAssumption DEF Crash, mishaps
  <2> QED
    BY <1>0, <1>3, <2>1, <2>4, <2>5, StillTyped, Zenon DEF Crash
<1> QED
  BY <1>1, <1>2, <1>3 DEF Environment

LEMMA InitTypes ==
  ASSUME Init
  PROVE  TypeOK
<1>1. PICK plan \in Plans : note = First0(plan)
  BY DEF Init
<1>2. note.task = NewOfficeTask(plan) /\ note.stamp = 0 /\ note = [task |-> note.task, stamp |-> note.stamp]
  BY <1>1 DEF First0
<1>3. NewOfficeTask(plan) \in Task(plan) /\ NewOfficeTask(plan).plan = plan
  BY InitialTask DEF NewOfficeTask
<1>4. anchor.raw = note /\ anchor.raw.task.plan = plan /\ clock = 0
  BY <1>2, <1>3 DEF Init
<1>5. note \in Versions
  BY <1>2, <1>3, <1>4 DEF Versions
<1>6. anchor \in [raw : Versions, compromised : BOOLEAN]
  BY <1>5 DEF Init
<1>7. sched \in SchedLocals(Versions) /\ boss \in [Bosses -> BossLocals(Versions)]
  BY DEF Init, SchedLocals, BossLocals
<1>8. {faults, manual, lost, crashes, outside} \subseteq Nat /\ mishaps <= MaxMishaps
  BY RuntimeAssumption DEF Init, mishaps
<1> QED
  BY <1>4, <1>5, <1>6, <1>7, <1>8 DEF Init, TypeOK

LEMMA StutterTypes ==
  ASSUME TypeOK, UNCHANGED vars
  PROVE  TypeOK'
<1>1. Versions' = Versions
  BY DEF vars, Versions
<1> QED
  BY <1>1 DEF vars, bounds, TypeOK, mishaps

LEMMA NextByActor == Next <=> Scheduler \/ (\E b \in Bosses : Boss(b)) \/ Environment
BY DEF Next, Environment

LEMMA StepTypes == ASSUME TypeOK, [Next]_vars PROVE TypeOK'
BY NextByActor, SchedulerTypes, BossTypes, EnvironmentTypes, StutterTypes

\* What is stored, anchored, on its way or held by anybody is a version of the one task,
\* well-formed (taskSchema), whatever is lost, late, interrupted or written from outside.
THEOREM RuntimeTypeCorrect == Spec => []TypeOK
<1>1. TypeOK /\ [Next]_vars => TypeOK'
  BY StepTypes
<1> QED
  BY InitTypes, <1>1, PTL DEF Spec

-----------------------------------------------------------------------------
(***************************************************************************)
(* What is carried is new                                                  *)
(***************************************************************************)

\* Nobody computes or anchors: who carries a value carried it before.
LEMMA CarriedOn ==
  ASSUME Fresh, Known' \subseteq Known,
         Carries(sched') => Carries(sched) /\ sched'.next = sched.next,
         \A b \in Bosses : Carries(boss'[b]) => Carries(boss[b]) /\ boss'[b].next = boss[b].next
  PROVE  Fresh'
BY DEF Fresh

\* The scheduler, or a boss, computes a value that was not there.
LEMMA ComputedBySched ==
  ASSUME Fresh, Known \subseteq Versions, Known' \subseteq Known, boss' = boss, sched'.next \notin Versions,
         \A b \in Bosses : Carries(boss[b]) => boss[b].next \in Versions
  PROVE  Fresh'
BY DEF Fresh

LEMMA ComputedByBoss ==
  ASSUME Fresh, Known \subseteq Versions, Known' \subseteq Known, sched' = sched,
         NEW b \in Bosses, boss'[b].next \notin Versions, \A c \in Bosses \ {b} : boss'[c] = boss[c],
         Carries(sched) => sched.next \in Versions,
         \A c \in Bosses : Carries(boss[c]) => boss[c].next \in Versions
  PROVE  Fresh'
BY DEF Fresh

\* The scheduler, or a boss, anchors what it carried.
LEMMA AnchoredBySched ==
  ASSUME Fresh, Carries(sched), Known' \subseteq Known \union {sched.next}, boss' = boss, ~Carries(sched')
  PROVE  Fresh'
BY DEF Fresh

LEMMA AnchoredByBoss ==
  ASSUME Fresh, sched' = sched, NEW b \in Bosses, Carries(boss[b]), ~Carries(boss'[b]),
         Known' \subseteq Known \union {boss[b].next}, \A c \in Bosses \ {b} : boss'[c] = boss[c]
  PROVE  Fresh'
BY DEF Fresh

LEMMA KnownAreVersions ==
  ASSUME TypeOK
  PROVE  /\ Known \subseteq Versions
         /\ Carries(sched) => sched \in Sending(Versions) /\ sched.next \in Versions /\ sched.base \in Versions
         /\ \A b \in Bosses : Carries(boss[b]) =>
              boss[b] \in Replacing(Versions) /\ boss[b].next \in Versions /\ boss[b].base \in Versions
<1>1. Carries(sched) => sched \in Sending(Versions)
  BY SchedShape DEF Carries
<1>2. \A b \in Bosses : Carries(boss[b]) => boss[b] \in Replacing(Versions)
  BY BossShape DEF Carries
<1>3. sched.pc \in {"listing", "scanning", "rereading"} => sched.seen \in Versions
  BY SchedShape DEF Looking, Finishing, GivingUp
<1>4. anchor.raw \in Versions /\ \A m \in wire : m.base \in Versions
  BY Plan DEF TypeOK
<1>5. /\ Carries(sched) => sched.next \in Versions /\ sched.base \in Versions
      /\ \A b \in Bosses : Carries(boss[b]) => boss[b].next \in Versions /\ boss[b].base \in Versions
  BY <1>1, <1>2 DEF Sending, Replacing
<1>6. Known \subseteq Versions
  BY <1>3, <1>4, <1>5 DEF Known
<1> QED
  BY <1>1, <1>2, <1>5, <1>6

\* Steps of the scheduler alone, on what it knows: nothing becomes known but what it
\* reads from the anchor, and nothing is lost of what the others know.
LEMMA SchedKnows ==
  ASSUME NEW n, anchor'.raw \in {anchor.raw, n}, boss' = boss,
         wire' \subseteq wire \union {m : m \in {[base |-> sched.base, next |-> sched.next]}},
         wire' # wire => Carries(sched),
         sched'.pc \in {"listing", "scanning", "rereading"} => sched'.seen \in Known,
         Carries(sched') => sched'.base \in Known
  PROVE  Known' \subseteq Known \union {n}
BY DEF Known

LEMMA SchedulerFresh ==
  ASSUME TypeOK, Fresh, Scheduler
  PROVE  Fresh'
<1>0. /\ boss' = boss /\ anchor.raw \in Known
      /\ sched.pc \in {"listing", "scanning", "rereading"} => sched.seen \in Known
      /\ Carries(sched) => sched.base \in Known
  BY DEF Scheduler, Tick, List, NothingToDo, Write, WriteFails, Settle, Check, Anchor, CallEnds, CallFails,
         Reread, Offer, Others, Known
<1>1. ASSUME anchor'.raw = anchor.raw, wire' = wire,
             Carries(sched') => Carries(sched) /\ sched'.next = sched.next /\ sched'.base = sched.base,
             sched'.pc \in {"listing", "scanning", "rereading"} =>
               \/ sched'.seen = anchor.raw
               \/ sched.pc \in {"listing", "scanning", "rereading"} /\ sched'.seen = sched.seen
      PROVE  Fresh'
  <2>1. Known' \subseteq Known \union {anchor.raw}
    BY <1>0, <1>1, SchedKnows
  <2> QED
    BY <1>0, <1>1, <2>1, CarriedOn
<1>2. CASE Tick
  BY <1>1, <1>2 DEF Tick, Others, Carries
<1>3. CASE List
  <2>1. sched \in Looking(Versions) /\ sched.pc = "listing"
    BY <1>3, SchedShape DEF List
  <2>2. anchor'.raw = anchor.raw
    BY <1>3 DEF List, MarkCompromised, TypeOK
  <2>3. sched' = Nobody \/ (sched'.pc = "scanning" /\ sched'.seen = sched.seen)
    BY <1>3, <2>1 DEF List, Looking
  <2> QED
    BY <1>1, <1>3, <2>1, <2>2, <2>3 DEF List, Others, Carries, Nobody
<1>4. CASE NothingToDo
  BY <1>1, <1>4 DEF NothingToDo, Others, Carries, Nobody
<1>5. CASE Write \/ Settle
  <2>1. sched \in Sending(Versions) /\ Carries(sched)
    BY <1>5, SchedShape DEF Write, Settle, Carries
  <2>2. \/ sched'.pc = "anchoring" /\ sched'.next = sched.next /\ sched'.base = sched.base
        \/ sched'.pc \in {"idle", "checking"}
    BY <1>5, <2>1 DEF Write, Settle, NotWritten, Sending, Nobody
  <2> QED
    BY <1>1, <1>5, <2>1, <2>2 DEF Write, Settle, Others, Carries
<1>6. CASE WriteFails
  <2>1. sched \in Sending(Versions) /\ Carries(sched)
    BY <1>6, SchedShape DEF WriteFails, Carries
  <2>2. \/ sched'.pc = "settling" /\ sched'.next = sched.next /\ sched'.base = sched.base
        \/ sched' = Nobody
        \/ sched'.pc = "rereading" /\ sched'.seen = anchor.raw
    BY <1>6, <2>1 DEF WriteFails, Sending
  <2>3. Known' \subseteq Known \union {anchor.raw}
    BY <1>0, <1>6, <2>1, <2>2, SchedKnows DEF WriteFails, Unanswered, Carries, Nobody
  <2> QED
    BY <1>0, <2>1, <2>2, <2>3, CarriedOn DEF Carries, Nobody
<1>7. CASE Check
  <2>1. anchor'.raw = anchor.raw
    BY <1>7 DEF Check, MarkCompromised, TypeOK
  <2> QED
    BY <1>1, <1>7, <2>1 DEF Check, Others, Carries, Nobody
<1>8. CASE Anchor
  <2>1. Carries(sched) /\ anchor'.raw = sched.next /\ sched'.pc \in {"calling", "idle"}
    BY <1>8 DEF Anchor, Trust, Carries, Nobody
  <2>2. Known' \subseteq Known \union {sched.next}
    BY <1>0, <1>8, <2>1, SchedKnows DEF Anchor, Carries
  <2> QED
    BY <1>0, <2>1, <2>2, AnchoredBySched DEF Carries
<1>9. CASE CallEnds
  BY <1>1, <1>9 DEF CallEnds, Others, Carries
<1>10. CASE CallFails
  <2>1. sched'.pc = "rereading" /\ sched'.seen = anchor.raw
    BY <1>10 DEF CallFails, Failing
  <2> QED
    BY <1>1, <1>10, <2>1 DEF CallFails, Others, Carries
<1>11. CASE Reread
  <2>1. /\ sched.pc = "rereading" /\ wire' = wire /\ anchor'.raw = anchor.raw
    BY <1>11 DEF Reread, Others, MarkCompromised, TypeOK
  <2>2. CASE sched'.pc \in {"idle", "rereading"}
    <3>1. sched'.pc = "rereading" => sched'.seen = anchor.raw
      BY <1>11, <2>2 DEF Reread, Failing, Send, Nobody
    <3> QED
      BY <1>1, <2>1, <2>2, <3>1 DEF Carries
  <2>3. CASE sched'.pc \notin {"idle", "rereading"}
    <3>1. PICK op \in {"finish", "defer"}, u \in Task(anchor.raw.task.plan) : Send(op, sched.agent, u) /\ UNCHANGED anchor
      <4>1. /\ sched.seen.task \in Task(anchor.raw.task.plan) /\ anchor.raw.task.plan \in Plans
            /\ sched.op = "defer" => sched.retryable \in BOOLEAN
        BY <2>1, SchedShape, Plan DEF Finishing, GivingUp
      <4>2. \A u \in Finishes(sched.seen.task, sched.agent) : u \in Task(anchor.raw.task.plan)
        BY <4>1, FinishesAreTasks
      <4>3. sched.op = "defer" => DeferOfficeStep(sched.seen.task, sched.retryable) \in Task(anchor.raw.task.plan)
        BY <4>1, DeferType
      <4> QED
        BY <1>11, <2>3, <4>2, <4>3 DEF Reread, Nobody, Failing
    <3>2. sched'.next \notin Versions /\ sched'.base = sched.seen /\ sched'.pc = "writing"
      BY <3>1, StampedIsNew DEF Send
    <3>3. Known' \subseteq Known \union {anchor.raw}
      BY <1>0, <2>1, <3>2, SchedKnows
    <3> QED
      BY <1>0, <3>2, <3>3, KnownAreVersions, ComputedBySched
  <2> QED
    BY <2>2, <2>3
<1>12. ASSUME NEW a \in Agents, Offer(a)
       PROVE  Fresh'
  <2>1. sched.pc = "scanning" /\ UNCHANGED <<anchor, Others>>
    BY <1>12 DEF Offer
  <2>2. CASE sched' = Nobody
    BY <1>1, <2>1, <2>2 DEF Others, Carries, Nobody
  <2>3. CASE sched' # Nobody
    <3>1. PICK op \in {"claim", "wait"}, u \in Task(anchor.raw.task.plan) : Send(op, a, u)
      <4>1. sched.seen.task \in Task(anchor.raw.task.plan) /\ anchor.raw.task.plan \in Plans
        BY <2>1, SchedShape, Plan DEF Looking
      <4>2. /\ Take(sched.seen.task, a, sched.rows[a]) \in Task(anchor.raw.task.plan)
            /\ MarkOfficeWaiting(sched.seen.task) \in Task(anchor.raw.task.plan)
        BY <4>1, TakeType, WaitingType
      <4> QED
        BY <1>12, <2>3, <4>2 DEF Offer
    <3>2. sched'.next \notin Versions /\ sched'.base = sched.seen /\ sched'.pc = "writing"
      BY <2>1, <3>1, StampedIsNew DEF Send
    <3>3. Known' \subseteq Known \union {anchor.raw}
      BY <1>0, <2>1, <3>2, SchedKnows DEF Others
    <3> QED
      BY <1>0, <3>2, <3>3, KnownAreVersions, ComputedBySched
  <2> QED
    BY <2>2, <2>3
<1> QED
  BY <1>2, <1>3, <1>4, <1>5, <1>6, <1>7, <1>8, <1>9, <1>10, <1>11, <1>12 DEF Scheduler

\* Steps of a boss's request alone.
LEMMA BossKnows ==
  ASSUME NEW n, anchor'.raw \in {anchor.raw, n}, sched' = sched, NEW b \in Bosses,
         \A c \in Bosses \ {b} : boss'[c] = boss[c],
         \A m \in wire' : m \in wire \/ (Carries(boss[b]) /\ m.base = boss[b].base),
         Carries(boss'[b]) => boss'[b].base \in Known
  PROVE  Known' \subseteq Known \union {n}
<1>1. \A c \in Bosses : Carries(boss'[c]) => boss'[c].base \in Known
  BY DEF Known
<1>2. \A m \in wire' : m.base \in Known
  BY DEF Known
<1> QED
  BY <1>1, <1>2 DEF Known

LEMMA BossFresh ==
  ASSUME TypeOK, Fresh, NEW b \in Bosses, Boss(b)
  PROVE  Fresh'
<1>0. /\ sched' = sched /\ anchor.raw \in Known /\ DOMAIN boss = Bosses
      /\ Carries(boss[b]) => boss[b].base \in Known
  BY DEF Boss, Ask, Fetch, Decide, Verify, BossWrite, BossSettle, BossAnchor, Clear, ByBoss, Known, TypeOK
<1>1. PICK p : Set(b, p)
  BY DEF Boss, Ask, Fetch, Decide, Verify, BossWrite, BossSettle, BossAnchor, Clear
<1>2. boss'[b] = p /\ \A c \in Bosses \ {b} : boss'[c] = boss[c]
  BY <1>0, <1>1 DEF Set
<1>3. ASSUME anchor'.raw = anchor.raw,
             \A m \in wire' : m \in wire \/ (Carries(boss[b]) /\ m.base = boss[b].base),
             Carries(p) => Carries(boss[b]) /\ p.next = boss[b].next /\ p.base = boss[b].base
      PROVE  Fresh'
  <2>1. Known' \subseteq Known \union {anchor.raw}
    BY <1>0, <1>2, <1>3, BossKnows
  <2> QED
    BY <1>0, <1>2, <1>3, <2>1, CarriedOn
<1>4. CASE Ask(b) \/ Fetch(b) \/ Clear(b)
  <2>1. p.pc \in {"reading", "deciding", "idle"}
    BY <1>0, <1>2, <1>4 DEF Ask, Fetch, Clear, Set, Nobody, TypeOK
  <2> QED
    BY <1>3, <1>4, <2>1 DEF Ask, Fetch, Clear, Carries
<1>5. CASE Decide(b)
  <2>1. CASE p.pc = "idle"
    BY <1>3, <1>5, <2>1 DEF Decide, MarkCompromised, TypeOK, Carries
  <2>2. CASE p.pc # "idle"
    <3>1. PICK u \in Decisions(boss[b].seen.task) :
            /\ Set(b, [pc |-> "verifying", from |-> boss[b].seen, next |-> Stamped(u), base |-> anchor.raw])
            /\ clock' = clock + 1 /\ anchor' = anchor
      BY <1>0, <1>2, <1>5, <2>2 DEF Decide, Set, Nobody, TypeOK
    <3>2. p = [pc |-> "verifying", from |-> boss[b].seen, next |-> Stamped(u), base |-> anchor.raw]
      BY <1>0, <1>2, <3>1 DEF Set
    <3>3. u \in Task(anchor.raw.task.plan)
      <4>1. boss[b].seen.task \in Task(anchor.raw.task.plan) /\ anchor.raw.task.plan \in Plans
        BY <1>5, BossShape, Plan DEF Decide, Deciding
      <4> QED
        BY <4>1, DecisionsAreTasks
    <3>4. boss'[b].next \notin Versions
      BY <1>2, <3>1, <3>2, <3>3, StampedIsNew
    <3>5. Known' \subseteq Known \union {anchor.raw}
      BY <1>0, <1>2, <1>5, <3>1, <3>2, BossKnows DEF Decide
    <3> QED
      BY <1>0, <1>2, <3>4, <3>5, KnownAreVersions, ComputedByBoss
  <2> QED
    BY <2>1, <2>2
<1>6. CASE Verify(b) \/ BossSettle(b) \/ BossWrite(b)
  <2>1. boss[b] \in Replacing(Versions) /\ Carries(boss[b])
    BY <1>6, BossShape DEF Verify, BossSettle, BossWrite, Carries
  <2>2. p = Nobody \/ \E pc \in {"writing", "settling", "anchoring"} : p = [boss[b] EXCEPT !.pc = pc]
    BY <1>0, <1>2, <1>6 DEF Verify, BossSettle, BossWrite, Set
  <2>3. Carries(p) => p.next = boss[b].next /\ p.base = boss[b].base
    BY <2>1, <2>2 DEF Replacing, Carries, Nobody
  <2>4. anchor'.raw = anchor.raw
    BY <1>6 DEF Verify, BossSettle, BossWrite, MarkCompromised, TypeOK
  <2>5. \A m \in wire' : m \in wire \/ m.base = boss[b].base
    BY <1>6 DEF Verify, BossSettle, BossWrite, Unanswered
  <2> QED
    BY <1>3, <2>1, <2>3, <2>4, <2>5
<1>7. CASE BossAnchor(b)
  <2>1. Carries(boss[b]) /\ p.pc = "clearing" /\ anchor'.raw = boss[b].next
    BY <1>0, <1>2, <1>7 DEF BossAnchor, Trust, Set, Carries
  <2>2. Known' \subseteq Known \union {boss[b].next}
    BY <1>0, <1>2, <1>7, <2>1, BossKnows DEF BossAnchor, Carries
  <2> QED
    BY <1>0, <1>2, <2>1, <2>2, AnchoredByBoss DEF Carries
<1> QED
  BY <1>4, <1>5, <1>6, <1>7 DEF Boss

LEMMA EnvironmentFresh ==
  ASSUME TypeOK, Fresh, Environment
  PROVE  Fresh'
<1>1. ASSUME NEW m \in wire, Land(m)
      PROVE  Fresh'
  <2>1. Known' \subseteq Known
    BY <1>1 DEF Land, Known
  <2> QED
    BY <1>1, <2>1, CarriedOn DEF Land
<1>2. CASE OutsideWrite
  <2>1. Known' \subseteq Known
    BY <1>2 DEF OutsideWrite, Known
  <2> QED
    BY <1>2, <2>1, CarriedOn DEF OutsideWrite
<1>3. CASE Crash
  <2>1. /\ sched' = Nobody /\ \A b \in Bosses : boss'[b] = Nobody
        /\ anchor' = anchor
    BY <1>3 DEF Crash
  <2>2. \A m \in wire' : \/ m \in wire
                         \/ Carries(sched) /\ m.base = sched.base
                         \/ \E b \in Bosses : Carries(boss[b]) /\ m.base = boss[b].base
    BY <1>3 DEF Crash, Carries
  <2>3. Known' \subseteq Known
    <3>1. \A m \in wire' : m.base \in Known
      BY <2>2 DEF Known
    <3> QED
      BY <2>1, <3>1 DEF Known, Carries, Nobody
  <2> QED
    BY <2>1, <2>3, CarriedOn DEF Carries, Nobody
<1> QED
  BY <1>1, <1>2, <1>3 DEF Environment

-----------------------------------------------------------------------------
(***************************************************************************)
(* Without mishaps, the store is ahead of the anchor by the one write that *)
(* is about to be anchored                                                 *)
(***************************************************************************)

Quiet == lost = 0 /\ crashes = 0 /\ outside = 0

\* Somebody is about to anchor what is in the store.
Ahead ==
  \/ sched.pc = "anchoring" /\ note = sched.next
  \/ \E b \in Bosses : boss[b].pc = "anchoring" /\ note = boss[b].next

LEMMA Ahead_Divergence == DivergenceIsTransient <=> (Quiet /\ note # anchor.raw => Ahead)
BY DEF DivergenceIsTransient, Quiet, Ahead

\* While it is quiet, what is in the store is nobody's value but the one who anchors it.
LEMMA QuietStore ==
  ASSUME Fresh, Undisturbed, Quiet
  PROVE  /\ \/ note = anchor.raw /\ sched.pc # "anchoring" /\ \A b \in Bosses : boss[b].pc # "anchoring"
            \/ Ahead
         /\ Carries(sched) /\ sched.pc # "anchoring" => note # sched.next
         /\ \A b \in Bosses : Carries(boss[b]) /\ boss[b].pc # "anchoring" => note # boss[b].next
         /\ note = anchor.raw => sched.pc # "anchoring" /\ \A b \in Bosses : boss[b].pc # "anchoring"
<1>1. anchor.raw \in Known
  BY DEF Known
<1>2. note = anchor.raw \/ Ahead
  BY Ahead_Divergence DEF Undisturbed, Quiet
<1>3. /\ sched.pc = "anchoring" => note = sched.next /\ Carries(sched)
      /\ \A b \in Bosses : boss[b].pc = "anchoring" => note = boss[b].next /\ Carries(boss[b])
  BY DEF Undisturbed, Quiet, Carries
<1>4. note = anchor.raw => sched.pc # "anchoring" /\ \A b \in Bosses : boss[b].pc # "anchoring"
  BY <1>1, <1>3 DEF Fresh
<1>5. /\ Carries(sched) /\ sched.pc # "anchoring" => note # sched.next
      /\ \A b \in Bosses : Carries(boss[b]) /\ boss[b].pc # "anchoring" => note # boss[b].next
  <2>1. CASE note = anchor.raw
    BY <1>1, <2>1 DEF Fresh
  <2>2. CASE sched.pc = "anchoring"
    BY <1>3, <2>2 DEF Fresh
  <2>3. ASSUME NEW c \in Bosses, boss[c].pc = "anchoring"
        PROVE  /\ Carries(sched) => note # sched.next
               /\ \A b \in Bosses \ {c} : Carries(boss[b]) => note # boss[b].next
    BY <1>3, <2>3 DEF Fresh
  <2> QED
    BY <1>2, <2>1, <2>2, <2>3 DEF Ahead
<1> QED
  BY <1>2, <1>4, <1>5

\* A write is applied only while nobody anchors: what it expects was anchored.
LEMMA QuietWrite ==
  ASSUME Fresh, Undisturbed, Quiet, note \in Known
  PROVE  sched.pc # "anchoring" /\ \A b \in Bosses : boss[b].pc # "anchoring"
BY DEF Undisturbed, Quiet, Fresh, Carries

\* Steps that neither write nor anchor.
LEMMA QuietKept ==
  ASSUME Undisturbed, Quiet, UNCHANGED <<note, wire>>, anchor'.raw = anchor.raw,
         sched'.pc # "settling",
         sched.pc = "anchoring" => sched' = sched,
         sched'.pc = "anchoring" => note = sched'.next,
         \A b \in Bosses : boss[b].pc = "anchoring" => boss'[b] = boss[b],
         \A b \in Bosses : boss'[b].pc = "anchoring" => note = boss'[b].next
  PROVE  Undisturbed'
<1>1. wire' = {} /\ (note' # anchor'.raw => Ahead)
  BY Ahead_Divergence DEF Undisturbed, Quiet
<1>2. note' # anchor'.raw => Ahead'
  BY <1>1 DEF Ahead
<1>3. (DivergenceIsTransient <=> (Quiet /\ note # anchor.raw => Ahead))'
  BY Ahead_Divergence, PTL
<1> QED
  BY <1>1, <1>2, <1>3 DEF Undisturbed, Quiet

LEMMA SchedulerUndisturbed ==
  ASSUME TypeOK, Fresh, Undisturbed, Scheduler
  PROVE  Undisturbed'
<1> SUFFICES ASSUME Quiet' PROVE Undisturbed'
  BY DEF Undisturbed, Quiet
<1>0. /\ boss' = boss /\ lost' \in {lost, lost + 1} /\ crashes' = crashes /\ outside' = outside
      /\ lost \in Nat
  BY DEF Scheduler, Tick, List, NothingToDo, Write, WriteFails, Settle, Check, Anchor, CallEnds, CallFails,
         Reread, Offer, Others, Unanswered, TypeOK
<1>1. Quiet /\ lost' = lost
  BY <1>0 DEF Quiet
<1>2. /\ wire = {} /\ sched.pc # "settling"
      /\ sched.pc = "anchoring" => note = sched.next
      /\ \A b \in Bosses : boss[b].pc = "anchoring" => note = boss[b].next
  BY <1>1 DEF Undisturbed, Quiet
<1>3. CASE Tick \/ List \/ NothingToDo \/ Check \/ CallEnds \/ CallFails \/ Reread
             \/ \E a \in Agents : Offer(a)
  <2>1. UNCHANGED <<note, wire>> /\ anchor'.raw = anchor.raw
    BY <1>3 DEF Tick, List, NothingToDo, Check, CallEnds, CallFails, Reread, Offer, Others, MarkCompromised, TypeOK
  <2>2. sched.pc # "anchoring"
    BY <1>3 DEF Tick, List, NothingToDo, Check, CallEnds, CallFails, Reread, Offer
  <2>3. sched'.pc \notin {"settling", "anchoring"}
    <3>2. CASE Tick \/ NothingToDo \/ Check
      BY <3>2 DEF Tick, NothingToDo, Check, Nobody
    <3>3. CASE List
      <4>1. sched.pc = "listing" /\ sched' \in {Nobody, [sched EXCEPT !.pc = "scanning"]}
        BY <3>3 DEF List
      <4>2. CASE sched' = Nobody
        BY <4>2 DEF Nobody
      <4>3. CASE sched' = [sched EXCEPT !.pc = "scanning"]
        BY <4>1, <4>3, SchedShape DEF Looking
      <4> QED
        BY <4>1, <4>2, <4>3
    <3>4. CASE CallEnds \/ CallFails
      <4>1. \/ sched'.pc = "rereading"
            \/ \E a, retryable : sched' = [Failing(a) EXCEPT !.retryable = retryable]
        BY <3>4 DEF CallEnds, CallFails
      <4> QED
        BY <4>1 DEF Failing
    <3>5. CASE Reread
      BY <3>5 DEF Reread, Send, Failing, Nobody
    <3>6. CASE \E a \in Agents : Offer(a)
      BY <3>6 DEF Offer, Send, Nobody
    <3> QED
      BY <1>3, <3>2, <3>3, <3>4, <3>5, <3>6
  <2> QED
    BY <1>0, <1>1, <1>2, <2>1, <2>2, <2>3, QuietKept
<1>4. CASE Write
  <2>1. sched \in Sending(Versions) /\ sched.pc = "writing" /\ Carries(sched)
    BY <1>4, SchedShape DEF Write, Carries
  <2>2. CASE Conflict(sched) /\ NotWritten
    <3>1. UNCHANGED <<note, wire>> /\ anchor'.raw = anchor.raw /\ sched'.pc \in {"idle", "checking"}
      BY <1>4, <2>2 DEF Write, Conflict, NotWritten, Others, Nobody
    <3> QED
      BY <1>0, <1>1, <1>2, <2>1, <3>1, QuietKept
  <2>3. CASE Applied(sched) /\ sched' = [sched EXCEPT !.pc = "anchoring"]
    <3>1. /\ note = sched.base /\ note' = sched.next /\ UNCHANGED <<anchor, wire>>
          /\ sched'.pc = "anchoring" /\ sched'.next = sched.next
      BY <1>4, <2>1, <2>3 DEF Write, Applied, Others, Sending
    <3>2. note \in Known
      BY <2>1, <3>1 DEF Known
    <3>3. \A b \in Bosses : boss'[b].pc # "anchoring"
      BY <1>0, <1>1, <3>2, QuietWrite
    <3>4. (DivergenceIsTransient <=> (Quiet /\ note # anchor.raw => Ahead))'
      BY Ahead_Divergence, PTL
    <3> QED
      BY <1>2, <3>1, <3>3, <3>4 DEF Undisturbed, Ahead
  <2> QED
    BY <1>4, <2>2, <2>3 DEF Write
<1>5. CASE WriteFails
  BY <1>1, <1>5, <1>0 DEF WriteFails, Unanswered
<1>6. CASE Settle
  BY <1>2, <1>6 DEF Settle
<1>7. CASE Anchor
  <2>1. anchor'.raw = sched.next /\ note' = note /\ wire' = wire /\ sched'.pc \in {"calling", "idle"}
    BY <1>7 DEF Anchor, Trust, Nobody
  <2>2. note = sched.next
    BY <1>2, <1>7 DEF Anchor
  <2>3. (DivergenceIsTransient <=> (Quiet /\ note # anchor.raw => Ahead))'
    BY Ahead_Divergence, PTL
  <2> QED
    BY <1>0, <1>2, <2>1, <2>2, <2>3 DEF Undisturbed
<1> QED
  BY <1>3, <1>4, <1>5, <1>6, <1>7 DEF Scheduler

LEMMA BossUndisturbed ==
  ASSUME TypeOK, Fresh, Undisturbed, NEW b \in Bosses, Boss(b)
  PROVE  Undisturbed'
<1> SUFFICES ASSUME Quiet' PROVE Undisturbed'
  BY DEF Undisturbed, Quiet
<1>0. /\ sched' = sched /\ lost' \in {lost, lost + 1} /\ crashes' = crashes /\ outside' = outside
      /\ lost \in Nat /\ DOMAIN boss = Bosses
  BY DEF Boss, Ask, Fetch, Decide, Verify, BossWrite, BossSettle, BossAnchor, Clear, ByBoss, Unanswered, TypeOK
<1>1. Quiet /\ lost' = lost
  BY <1>0 DEF Quiet
<1>2. /\ wire = {} /\ sched.pc # "settling"
      /\ sched.pc = "anchoring" => note = sched.next
      /\ \A c \in Bosses : boss[c].pc = "anchoring" => note = boss[c].next
  BY <1>1 DEF Undisturbed, Quiet
<1>3. PICK p : Set(b, p)
  BY DEF Boss, Ask, Fetch, Decide, Verify, BossWrite, BossSettle, BossAnchor, Clear
<1>4. boss'[b] = p /\ \A c \in Bosses \ {b} : boss'[c] = boss[c]
  BY <1>0, <1>3 DEF Set
<1>5. (DivergenceIsTransient <=> (Quiet /\ note # anchor.raw => Ahead))'
  BY Ahead_Divergence, PTL
<1>6. CASE Ask(b) \/ Fetch(b) \/ Decide(b) \/ Verify(b) \/ Clear(b)
  <2>1. UNCHANGED <<note, wire>> /\ anchor'.raw = anchor.raw /\ boss[b].pc # "anchoring"
    BY <1>6 DEF Ask, Fetch, Decide, Verify, Clear, MarkCompromised, TypeOK
  <2>2. p.pc # "anchoring"
    <3>2. CASE Ask(b)
      BY <1>0, <1>4, <3>2 DEF Ask, Set
    <3>3. CASE Fetch(b)
      BY <1>0, <1>4, <3>3 DEF Fetch, Set
    <3>4. CASE Decide(b)
      BY <1>0, <1>4, <3>4 DEF Decide, Set, Nobody
    <3>5. CASE Verify(b)
      <4>1. /\ boss[b].pc = "verifying"
            /\ Set(b, Nobody) \/ Set(b, [boss[b] EXCEPT !.pc = "writing"])
        BY <3>5 DEF Verify
      <4>2. p \in {Nobody, [boss[b] EXCEPT !.pc = "writing"]}
        BY <1>0, <1>4, <4>1 DEF Set
      <4>3. CASE p = Nobody
        BY <4>3 DEF Nobody
      <4>4. CASE p = [boss[b] EXCEPT !.pc = "writing"]
        BY <4>1, <4>4, BossShape DEF Replacing
      <4> QED
        BY <4>2, <4>3, <4>4
    <3>6. CASE Clear(b)
      BY <1>0, <1>4, <3>6 DEF Clear, Set, Nobody
    <3> QED
      BY <1>6, <3>2, <3>3, <3>4, <3>5, <3>6
  <2> QED
    BY <1>0, <1>1, <1>2, <1>4, <2>1, <2>2, QuietKept
<1>7. CASE BossWrite(b)
  <2>1. boss[b] \in Replacing(Versions) /\ boss[b].pc = "writing" /\ Carries(boss[b])
    BY <1>7, BossShape DEF BossWrite, Carries
  <2>2. CASE Applied(boss[b]) /\ Set(b, [boss[b] EXCEPT !.pc = "anchoring"])
    <3>1. /\ note = boss[b].base /\ note' = boss[b].next
          /\ p.pc = "anchoring" /\ p.next = boss[b].next
      BY <1>0, <1>4, <2>1, <2>2 DEF Applied, Set, Replacing
    <3>2. note \in Known
      BY <2>1, <3>1 DEF Known
    <3>3. sched.pc # "anchoring" /\ \A c \in Bosses : boss[c].pc # "anchoring"
      BY <1>1, <3>2, QuietWrite
    <3>4. UNCHANGED <<anchor, wire>>
      BY <1>1, <1>0, <1>7 DEF BossWrite, Unanswered
    <3> QED
      BY <1>0, <1>2, <1>4, <1>5, <3>1, <3>3, <3>4 DEF Undisturbed, Ahead
  <2>3. CASE ~(Applied(boss[b]) /\ Set(b, [boss[b] EXCEPT !.pc = "anchoring"]))
    <3>1. Conflict(boss[b]) /\ Set(b, [boss[b] EXCEPT !.pc = "settling"])
      BY <1>0, <1>1, <1>7, <2>3 DEF BossWrite, Unanswered
    <3>2. p.pc = "settling" /\ UNCHANGED <<note, wire, anchor>>
      BY <1>0, <1>1, <1>4, <1>7, <2>1, <3>1 DEF BossWrite, Conflict, Unanswered, Set, Replacing
    <3> QED
      BY <1>0, <1>1, <1>2, <1>4, <2>1, <3>2, QuietKept
  <2> QED
    BY <2>2, <2>3
<1>8. CASE BossSettle(b)
  <2>1. boss[b] \in Replacing(Versions) /\ boss[b].pc = "settling" /\ Carries(boss[b])
    BY <1>8, BossShape DEF BossSettle, Carries
  <2>2. note # boss[b].next
    BY <1>1, <2>1, QuietStore
  <2>3. p = Nobody /\ UNCHANGED <<note, wire>> /\ anchor'.raw = anchor.raw
    BY <1>0, <1>4, <1>8, <2>2 DEF BossSettle, Set, MarkCompromised, TypeOK
  <2> QED
    BY <1>0, <1>1, <1>2, <1>4, <2>1, <2>3, QuietKept DEF Nobody
<1>9. CASE BossAnchor(b)
  <2>1. /\ anchor'.raw = boss[b].next /\ UNCHANGED <<note, wire>> /\ p.pc = "clearing"
        /\ note = boss[b].next
    BY <1>0, <1>2, <1>4, <1>9 DEF BossAnchor, Trust, Set
  <2> QED
    BY <1>0, <1>2, <1>4, <1>5, <2>1 DEF Undisturbed
<1> QED
  BY <1>6, <1>7, <1>8, <1>9 DEF Boss

LEMMA EnvironmentUndisturbed ==
  ASSUME TypeOK, Undisturbed, Environment
  PROVE  Undisturbed'
<1> SUFFICES ASSUME Quiet' PROVE Undisturbed'
  BY DEF Undisturbed, Quiet
<1>1. ~OutsideWrite /\ ~Crash
  BY DEF OutsideWrite, Crash, Quiet, TypeOK
<1>2. PICK m \in wire : Land(m)
  BY <1>1 DEF Environment
<1>3. Quiet
  BY <1>2 DEF Land, Quiet, bounds
<1> QED
  BY <1>2, <1>3 DEF Undisturbed, Quiet

-----------------------------------------------------------------------------
(***************************************************************************)
(* What holds without further conditions                                   *)
(***************************************************************************)

LEMMA InitTraced == Init => Traced
<1> SUFFICES ASSUME Init PROVE Traced
  OBVIOUS
<1>1. Fresh /\ Undisturbed
  BY DEF Init, Fresh, Carries, Nobody, Undisturbed, DivergenceIsTransient
<1> QED
  BY <1>1, InitTypes DEF Traced

LEMMA StutterTraced ==
  ASSUME Traced, UNCHANGED vars
  PROVE  Fresh' /\ Undisturbed'
<1>1. Known' = Known
  BY DEF vars, Known, Carries
<1>2. Fresh'
  BY <1>1, CarriedOn DEF Traced, vars
<1>3. Undisturbed'
  BY DEF Traced, Undisturbed, DivergenceIsTransient, vars, bounds
<1> QED
  BY <1>2, <1>3

LEMMA StepTraced == Traced /\ [Next]_vars => Traced'
<1> SUFFICES ASSUME Traced, [Next]_vars PROVE Traced'
  OBVIOUS
<1>1. TypeOK /\ Fresh /\ Undisturbed
  BY DEF Traced
<1>2. TypeOK'
  BY <1>1, StepTypes
<1>3. Fresh' /\ Undisturbed'
  <2>1. CASE Scheduler
    BY <1>1, <2>1, SchedulerFresh, SchedulerUndisturbed
  <2>2. ASSUME NEW b \in Bosses, Boss(b)
        PROVE  Fresh' /\ Undisturbed'
    BY <1>1, <2>2, BossFresh, BossUndisturbed
  <2>3. CASE Environment
    BY <1>1, <2>3, EnvironmentFresh, EnvironmentUndisturbed
  <2> QED
    BY <2>1, <2>2, <2>3, NextByActor, StutterTraced
<1> QED
  BY <1>2, <1>3 DEF Traced

\* Whoever writes, late or not, expects a version that was anchored and sends one that was
\* not, for any number of bosses, mishaps and retries.
THEOREM RuntimeTraced == Spec => []Traced
BY InitTraced, StepTraced, PTL DEF Spec

\* Without lost answers, restarts and outsiders the store and the anchor differ only while
\* the process that wrote is about to anchor (cas, replaceTrustedRecord, onPersisted).
THEOREM DivergenceCorrect == Spec => []DivergenceIsTransient
<1>1. Traced => DivergenceIsTransient
  BY DEF Traced, Undisturbed, DivergenceIsTransient
<1> QED
  BY <1>1, RuntimeTraced, PTL
-----------------------------------------------------------------------------
(***************************************************************************)
(* The board that the anchored task follows.  Board has its specification, *)
(* Law the theorems about it; each names anew what OfficeTask defines.     *)
(***************************************************************************)

Law == INSTANCE OfficeBoardProofs WITH task <- anchor.raw.task, MaxFaults <- MaxFaults + MaxMishaps

LEMMA SameRecords ==
  /\ \A plan : Law!Task(plan) = Task(plan)
  /\ \A plan : Law!ValidWorkflow(plan) = ValidWorkflow(plan)
  /\ Law!StepPlan = StepPlan
<1>1. /\ Law!PaperRoute = PaperRoute /\ Law!StepState = StepState /\ Law!StepPlan = StepPlan
  BY DEF Law!StepPlan, StepPlan, Law!PaperRoute, PaperRoute, Law!RouteStates, RouteStates,
         Law!ErrorCodes, ErrorCodes, Law!StepState, StepState, Law!StepStatuses, StepStatuses
<1>2. \A plan : Law!Task(plan) = Task(plan)
  BY <1>1 DEF Law!Task, Task, Law!Statuses, Statuses
<1>3. \A plan : Law!ValidWorkflow(plan) = ValidWorkflow(plan)
  BY DEF Law!ValidWorkflow, ValidWorkflow, Law!Members, Members, Law!Cardinality, Cardinality
<1> QED
  BY <1>1, <1>2, <1>3

\* What the theorems of the board suppose is supposed here.
LEMMA Workable ==
  /\ \A plan \in Plans :
       /\ plan.steps \in [DOMAIN plan.steps -> Law!StepPlan]
       /\ Law!ValidWorkflow(plan)
       /\ plan.max_retries \in Nat \ {0}
  /\ None \notin Agents /\ MaxRevisionCount \in Nat /\ MaxRetryCount \in Nat
  /\ MaxFaults + MaxMishaps \in Nat /\ MaxManual \in Nat
<1>1. MaxFaults + MaxMishaps \in Nat /\ MaxManual \in Nat
  BY RuntimeAssumption
<1> QED
  BY <1>1, PlansAssumption, TaskAssumption, SameRecords

LEMMA SameBoard == /\ Law!Next <=> Board!Next
                   /\ Law!Init <=> Board!Init
                   /\ Law!vars = Board!vars
<1>1. Law!Next <=> Board!Next
  BY ZenonT(60) DEF
    Law!Next, Board!Next, Law!Employee, Board!Employee, Law!PickUp, Board!PickUp,
    Law!Complete, Board!Complete, Law!Approve, Board!Approve, Law!Return, Board!Return,
    Law!WaitForRunner, Board!WaitForRunner, Law!Fail, Board!Fail, Law!ApproveCheckpoint,
    Board!ApproveCheckpoint, Law!RejectCheckpoint, Board!RejectCheckpoint, Law!Retry,
    Board!Retry, Law!CanTake, Board!CanTake, Law!Take, Board!Take, Law!Eligible,
    Board!Eligible, Law!Current, Board!Current, Law!CanCompleteOfficeWork,
    Board!CanCompleteOfficeWork, Law!CompleteOfficeWork, Board!CompleteOfficeWork,
    Law!CanFinishOfficeReview, Board!CanFinishOfficeReview, Law!ApproveResult,
    Board!ApproveResult, Law!ReturnResult, Board!ReturnResult, Law!Parses, Board!Parses,
    Law!MarkOfficeWaiting, Board!MarkOfficeWaiting, Law!CanDeferOfficeStep,
    Board!CanDeferOfficeStep, Law!DeferOfficeStep, Board!DeferOfficeStep,
    Law!AwaitsApproval, Board!AwaitsApproval, Law!ApproveOfficeCheckpoint,
    Board!ApproveOfficeCheckpoint, Law!CanRejectCheckpoint, Board!CanRejectCheckpoint,
    Law!RejectOfficeCheckpoint, Board!RejectOfficeCheckpoint, Law!CanRecoverOfficeTask,
    Board!CanRecoverOfficeTask, Law!RecoverOfficeTask, Board!RecoverOfficeTask,
    Law!FinishStage, Board!FinishStage, Law!Members, Board!Members, Law!Runnable,
    Board!Runnable, Law!StageOutput, Board!StageOutput, Law!Unassigned,
    Board!Unassigned, Law!ReadyPaperRoute, Board!ReadyPaperRoute, Law!First,
    Board!First, Law!ResumesFailedClaim, Board!ResumesFailedClaim,
    Law!CanResumeOfficeStep, Board!CanResumeOfficeStep, Law!CanClaimOfficeStep,
    Board!CanClaimOfficeStep, Law!CanClaimForReview, Board!CanClaimForReview,
    Law!ResumeOfficeStep, Board!ResumeOfficeStep, Law!ClaimOfficeStep,
    Board!ClaimOfficeStep, Law!ClaimForReview, Board!ClaimForReview,
    Law!ClaimForOfficeWork, Board!ClaimForOfficeWork, Law!ActivePaperRoute,
    Board!ActivePaperRoute, Law!RejectionTarget, Board!RejectionTarget,
    Law!ReturnedSteps, Board!ReturnedSteps, Law!Exhausts, Board!Exhausts,
    Law!RevisionLimitRoute, Board!RevisionLimitRoute
<1>2. Law!Init <=> Board!Init
  BY DEF Law!Init, Board!Init, Law!NewOfficeTask, Board!NewOfficeTask
<1>3. Law!vars = Board!vars
  BY DEF Law!vars, Board!vars
<1> QED
  BY <1>1, <1>2, <1>3

\* The transitions of the board are the ones the scheduler and the boss compute.
LEMMA SameTransitions ==
  /\ \A t, a, due, lapsed, e :
       /\ Board!Eligible(t, a, due, lapsed, e) <=> Eligible(t, a, due, lapsed, e)
       /\ Board!CanTake(t, a, due, lapsed, e) <=> CanTake(t, a, due, lapsed, e)
       /\ Board!Take(t, a, e) = Take(t, a, e)
  /\ \A t, a :
       /\ Board!CanCompleteOfficeWork(t, a) <=> CanCompleteOfficeWork(t, a)
       /\ Board!CanFinishOfficeReview(t, a) <=> CanFinishOfficeReview(t, a)
  /\ \A t :
       /\ Board!CompleteOfficeWork(t) = CompleteOfficeWork(t)
       /\ Board!ApproveResult(t) = ApproveResult(t)
       /\ Board!ReturnResult(t) = ReturnResult(t)
       /\ Board!MarkOfficeWaiting(t) = MarkOfficeWaiting(t)
       /\ Board!RecoverOfficeTask(t) = RecoverOfficeTask(t)
       /\ Board!Parses(t) <=> Parses(t)
       /\ Board!Current(t) = Current(t)
       /\ Board!CanDeferOfficeStep(t) <=> CanDeferOfficeStep(t)
       /\ Board!CanRecoverOfficeTask(t) <=> CanRecoverOfficeTask(t)
  /\ \A t, retryable : Board!DeferOfficeStep(t, retryable) = DeferOfficeStep(t, retryable)
  /\ \A t, i :
       /\ Board!AwaitsApproval(t, i) <=> AwaitsApproval(t, i)
       /\ Board!CanRejectCheckpoint(t, i) <=> CanRejectCheckpoint(t, i)
       /\ Board!ApproveOfficeCheckpoint(t, i) = ApproveOfficeCheckpoint(t, i)
       /\ Board!RejectOfficeCheckpoint(t, i) = RejectOfficeCheckpoint(t, i)
<1>1. \A t, a, due, lapsed, e :
       /\ Board!Eligible(t, a, due, lapsed, e) <=> Eligible(t, a, due, lapsed, e)
       /\ Board!CanTake(t, a, due, lapsed, e) <=> CanTake(t, a, due, lapsed, e)
  BY DEF Board!Eligible, Eligible, Board!CanTake, CanTake, Board!Current, Current,
         Board!Runnable, Runnable, Board!ResumesFailedClaim, ResumesFailedClaim,
         Board!CanResumeOfficeStep, CanResumeOfficeStep, Board!CanClaimOfficeStep,
         CanClaimOfficeStep, Board!CanClaimForReview, CanClaimForReview
<1>2. \A t, a, e : Board!Take(t, a, e) = Take(t, a, e)
  BY DEF Board!Take, Take, Board!ResumesFailedClaim, ResumesFailedClaim,
         Board!ResumeOfficeStep, ResumeOfficeStep, Board!ClaimOfficeStep,
         ClaimOfficeStep, Board!Current, Current, Board!ClaimForReview, ClaimForReview,
         Board!ClaimForOfficeWork, ClaimForOfficeWork, Board!ActivePaperRoute,
         ActivePaperRoute
<1>3. \A t, a :
       /\ Board!CanCompleteOfficeWork(t, a) <=> CanCompleteOfficeWork(t, a)
       /\ Board!CanFinishOfficeReview(t, a) <=> CanFinishOfficeReview(t, a)
  BY DEF Board!CanCompleteOfficeWork, CanCompleteOfficeWork,
         Board!CanFinishOfficeReview, CanFinishOfficeReview, Board!Current, Current
<1>4. \A t : Board!CompleteOfficeWork(t) = CompleteOfficeWork(t)
  BY DEF Board!CompleteOfficeWork, CompleteOfficeWork, Board!Current, Current,
         Board!FinishStage, FinishStage, Board!Members, Members, Board!Runnable,
         Runnable, Board!StageOutput, StageOutput, Board!Unassigned, Unassigned,
         Board!ReadyPaperRoute, ReadyPaperRoute, Board!First, First
<1>5. \A t : Board!ApproveResult(t) = ApproveResult(t)
  BY DEF Board!ApproveResult, ApproveResult, Board!ReadyPaperRoute, ReadyPaperRoute
<1>6. \A t : Board!ReturnResult(t) = ReturnResult(t)
  BY DEF Board!ReturnResult, ReturnResult, Board!RejectionTarget, RejectionTarget,
         Board!ReturnedSteps, ReturnedSteps, Board!Exhausts, Exhausts,
         Board!StageOutput, StageOutput, Board!Members, Members,
         Board!RevisionLimitRoute, RevisionLimitRoute, Board!ReadyPaperRoute,
         ReadyPaperRoute
<1>7. \A t : Board!MarkOfficeWaiting(t) = MarkOfficeWaiting(t)
  BY DEF Board!MarkOfficeWaiting, MarkOfficeWaiting
<1>8. \A t : Board!RecoverOfficeTask(t) = RecoverOfficeTask(t)
  BY DEF Board!RecoverOfficeTask, RecoverOfficeTask, Board!Current, Current,
         Board!ReadyPaperRoute, ReadyPaperRoute
<1>9. \A t :
       /\ Board!Parses(t) <=> Parses(t)
       /\ Board!Current(t) = Current(t)
       /\ Board!CanDeferOfficeStep(t) <=> CanDeferOfficeStep(t)
       /\ Board!CanRecoverOfficeTask(t) <=> CanRecoverOfficeTask(t)
  BY DEF Board!Parses, Parses, Board!Current, Current, Board!CanDeferOfficeStep,
         CanDeferOfficeStep, Board!CanRecoverOfficeTask, CanRecoverOfficeTask
<1>10. \A t, retryable : Board!DeferOfficeStep(t, retryable) = DeferOfficeStep(t, retryable)
  BY DEF Board!DeferOfficeStep, DeferOfficeStep
<1>11. \A t, i :
       /\ Board!AwaitsApproval(t, i) <=> AwaitsApproval(t, i)
       /\ Board!CanRejectCheckpoint(t, i) <=> CanRejectCheckpoint(t, i)
  BY DEF Board!AwaitsApproval, AwaitsApproval, Board!CanRejectCheckpoint,
         CanRejectCheckpoint
<1>12. \A t, i : Board!ApproveOfficeCheckpoint(t, i) = ApproveOfficeCheckpoint(t, i)
  BY DEF Board!ApproveOfficeCheckpoint, ApproveOfficeCheckpoint, Board!FinishStage,
         FinishStage, Board!Members, Members, Board!Runnable, Runnable,
         Board!StageOutput, StageOutput, Board!Unassigned, Unassigned,
         Board!ReadyPaperRoute, ReadyPaperRoute, Board!First, First
<1>13. \A t, i : Board!RejectOfficeCheckpoint(t, i) = RejectOfficeCheckpoint(t, i)
  BY DEF Board!RejectOfficeCheckpoint, RejectOfficeCheckpoint, Board!Exhausts, Exhausts,
         Board!Unassigned, Unassigned, Board!RevisionLimitRoute, RevisionLimitRoute,
         Board!ReadyPaperRoute, ReadyPaperRoute
<1> QED
  BY <1>1, <1>2, <1>3, <1>4, <1>5, <1>6, <1>7, <1>8, <1>9, <1>10, <1>11, <1>12, <1>13

-----------------------------------------------------------------------------
(***************************************************************************)
(* The scheduler and the boss take turns, if there is one boss who retries *)
(* what has stopped, and checkpoints stand alone in their stage            *)
(***************************************************************************)

Premises ==
  /\ \A b, c \in Bosses : b = c
  /\ RetryStates \subseteq {"blocked", "exhausted"}
  /\ \A plan \in Plans : CheckpointsAlone(plan)

\* What an ordered task says about who has it.
LEMMA OrderedTask ==
  ASSUME TypeOK, Law!Orderly
  PROVE  LET t == anchor.raw.task IN
         /\ \A i \in DOMAIN t.steps : AwaitsApproval(t, i) => i = t.current_step
         /\ t.status = "running" => t.steps[t.current_step].status = "running"
         /\ (t.status = "review" /\ t.reviewer_did # None) => t.steps[t.current_step].status = "running"
BY DEF Law!Orderly, Law!HolderMatchesStep, Law!AwaitingIsCurrent, Law!StatusOf, AwaitsApproval

\* What the scheduler may offer the boss has no say in.
LEMMA OfferedOrBoss ==
  ASSUME Premises, TypeOK, Law!Orderly, Offered(anchor.raw.task)
  PROVE  ~BossTurn(anchor.raw.task)
<1> DEFINE t == anchor.raw.task
<1>1. t.steps[t.current_step].status \in Runnable /\ t.paper_route.state \notin {"blocked", "exhausted"}
  BY DEF Offered
<1>2. \A i \in DOMAIN t.steps : ~AwaitsApproval(t, i)
  BY <1>1, OrderedTask DEF Runnable, AwaitsApproval
<1> QED
  BY <1>1, <1>2 DEF BossTurn, Premises

LEMMA EligibleIsOffered ==
  ASSUME NEW t, NEW a, NEW due, NEW lapsed, NEW e, Eligible(t, a, due, lapsed, e)
  PROVE  Offered(t)
BY DEF Eligible, Offered

\* A claim gives the task to the employee, and takes it from the boss.
LEMMA ClaimHolds ==
  ASSUME Premises, TypeOK, Law!Orderly, NEW a \in Agents, NEW due, NEW lapsed, NEW e,
         CanTake(anchor.raw.task, a, due, lapsed, e), ~BossTurn(anchor.raw.task)
  PROVE  /\ Holds(Take(anchor.raw.task, a, e), a)
         /\ ~BossTurn(Take(anchor.raw.task, a, e))
<1> DEFINE t == anchor.raw.task
           i == t.current_step
           u == Take(t, a, e)
           c == IF Current(t).kind = "review" THEN ClaimForReview(t, a) ELSE ClaimForOfficeWork(t, a)
<1>1. PICK plan \in Plans : t \in Task(plan) /\ t.plan = plan
  BY Plan DEF Task
<1>2. t.steps[i].status \in Runnable /\ Eligible(t, a, due, lapsed, e)
  BY DEF CanTake, Eligible
<1>3. ~(t.status = "running") /\ ~(t.status = "review" /\ t.reviewer_did # None)
  BY <1>2, OrderedTask DEF Runnable
<1>4. ~ResumesFailedClaim(t, a, e)
  BY <1>3, TaskAssumption DEF CanTake, CanResumeOfficeStep
<1>5. u = [c EXCEPT !.steps[i].status = "running"] /\ CanClaimOfficeStep(t, a, lapsed)
  BY <1>4 DEF Take, CanTake, ClaimOfficeStep
<1>6. /\ t.paper_route \in PaperRoute /\ t.steps \in [DOMAIN plan.steps -> StepState]
      /\ i \in DOMAIN plan.steps
  BY <1>1 DEF Task
<1>7. Current(t).kind \in {"work", "review"} /\ Current(t).agent = a
  BY <1>1, <1>5, <1>6, WorkflowSteps DEF CanClaimOfficeStep, StepPlan, Current
<1>8. ActivePaperRoute(t.paper_route).state = "working"
  BY <1>6 DEF ActivePaperRoute, PaperRoute
<1>9. /\ u.plan = t.plan /\ u.current_step = i /\ u.paper_route.state = "working"
      /\ u.steps = [t.steps EXCEPT ![i].status = "running"]
      /\ Current(t).kind = "review" =>
           u.status = t.status /\ u.reviewer_did = a /\ u.result = t.result
      /\ Current(t).kind = "work" => u.status = "running" /\ u.worker_did = a
  <2>1. CASE Current(t).kind = "review"
    BY <1>1, <1>5, <1>8, <2>1 DEF ClaimForReview, Task
  <2>2. CASE Current(t).kind = "work"
    BY <1>1, <1>5, <1>8, <2>2 DEF ClaimForOfficeWork, Task
  <2> QED
    BY <1>7, <2>1, <2>2
<1>10. Holds(u, a)
  <2>1. Current(u) = Current(t)
    BY <1>9 DEF Current
  <2>2. Current(t).kind = "review" => t.status = "review" /\ t.result # {}
    BY <1>5 DEF CanClaimOfficeStep, CanClaimForReview
  <2> QED
    BY <1>7, <1>9, <2>1, <2>2 DEF Holds, CanCompleteOfficeWork, CanFinishOfficeReview
<1>11. ~BossTurn(u)
  <2>1. \A j \in DOMAIN u.steps : ~AwaitsApproval(u, j)
    <3>1. \A j \in DOMAIN t.steps : t.steps[j].status # "awaiting_approval"
      BY DEF BossTurn, AwaitsApproval
    <3> QED
      BY <1>6, <1>9, <3>1 DEF AwaitsApproval, StepState
  <2> QED
    BY <1>9, <2>1 DEF BossTurn, Premises
<1> QED
  BY <1>10, <1>11

\* What the scheduler or the boss sends parses.
LEMMA SentParses ==
  ASSUME NEW plan \in Plans, NEW t \in Task(plan), Parses(t), NEW op, NEW a \in Agents, NEW u,
         Sends(op, a, t, u)
  PROVE  Parses(u)
BY TakeParses, WaitingParses, CompleteParses DEF Sends, Finishes

LEMMA DecidedParses ==
  ASSUME NEW plan \in Plans, NEW t \in Task(plan), Parses(t), NEW u, Decides(t, u)
  PROVE  Parses(u)
<1>1. DOMAIN t.steps = DOMAIN plan.steps
  BY DEF Task
<1> QED
  BY <1>1, ApproveCheckpointParses, RecoverParses DEF Decides

\* Who holds the task can finish it: no finish throws.
LEMMA HoldersFinish ==
  ASSUME NEW plan \in Plans, NEW t \in Task(plan), Parses(t), NEW a, Holds(t, a)
  PROVE  Finishes(t, a) # {}
BY ApproveParses DEF Holds, Finishes

\* Steps of the scheduler that do not anchor.
LEMMA SchedulerInTurn ==
  ASSUME Premises, Traced, TurnsTaken, Law!Orderly, Scheduler, ~Anchor
  PROVE  TurnsTaken'
<1> DEFINE t == anchor.raw.task
<1>0. /\ TypeOK /\ SchedInTurn /\ FailuresCounted /\ Parses(t)
      /\ \A b \in Bosses : BossInTurn(boss[b])
      /\ {faults, lost} \subseteq Nat /\ MaxFaults \in Nat
  BY RuntimeAssumption DEF Traced, TurnsTaken, TypeOK
<1>1. /\ boss' = boss /\ faults' = faults /\ lost' \in {lost, lost + 1}
      /\ anchor'.raw = anchor.raw
  BY <1>0 DEF Scheduler, Tick, List, NothingToDo, Write, WriteFails, Settle, Check, Anchor, CallEnds,
              CallFails, Reread, Offer, Others, Unanswered, MarkCompromised, TypeOK
<1>2. Parses(t)' /\ \A b \in Bosses : BossInTurn(boss[b])'
  BY <1>0, <1>1 DEF BossInTurn, Carries
<1>3. ASSUME SchedInTurn', Deferring' => Deferring, sched'.pc \notin {"anchoring", "calling"}
      PROVE  TurnsTaken'
  <2>1. FailuresCounted'
    BY <1>0, <1>1, <1>3 DEF FailuresCounted
  <2> QED
    BY <1>2, <1>3, <2>1 DEF TurnsTaken, ClaimKept
<1>4. ASSUME sched'.pc \in {"idle", "checking"}
      PROVE  TurnsTaken'
  BY <1>3, <1>4 DEF SchedInTurn, Carries, Deferring
<1>5. CASE Tick
  BY <1>0, <1>1, <1>3, <1>5 DEF Tick, SchedInTurn, Carries, Deferring
<1>6. CASE List
  <2>1. sched \in Looking(Versions) /\ sched.pc = "listing"
    BY <1>0, <1>6, SchedShape DEF List
  <2>2. sched' = Nobody \/ (sched'.pc = "scanning" /\ sched'.seen = sched.seen)
    BY <1>6, <2>1 DEF List, Looking
  <2> QED
    BY <1>0, <1>1, <1>3, <1>4, <2>1, <2>2 DEF SchedInTurn, Carries, Deferring, Nobody
<1>7. CASE NothingToDo \/ Check
  BY <1>4, <1>7 DEF NothingToDo, Check, Nobody
<1>8. CASE Write \/ Settle
  <2>1. sched \in Sending(Versions) /\ sched.pc \in {"writing", "settling"} /\ Carries(sched)
    BY <1>0, <1>8, SchedShape DEF Write, Settle, Carries
  <2>2. \/ sched'.pc \in {"idle", "checking"}
        \/ sched' = [sched EXCEPT !.pc = "anchoring"] /\ note' = sched.next /\ lost' = lost
    BY <1>8 DEF Write, Settle, NotWritten, Nobody, Applied, Others
  <2>3. CASE sched' = [sched EXCEPT !.pc = "anchoring"] /\ note' = sched.next /\ lost' = lost
    <3>1. /\ sched'.pc = "anchoring" /\ sched'.op = sched.op /\ sched'.agent = sched.agent
          /\ sched'.base = sched.base /\ sched'.next = sched.next
      BY <2>1, <2>3 DEF Sending
    <3>2. SchedInTurn'
      BY <1>0, <1>1, <2>1, <3>1 DEF SchedInTurn, Carries
    <3>3. FailuresCounted'
      BY <1>0, <1>1, <2>1, <2>3, <3>1 DEF FailuresCounted, Deferring
    <3>4. ClaimKept'
      BY <2>3, <3>1 DEF ClaimKept
    <3> QED
      BY <1>2, <3>2, <3>3, <3>4 DEF TurnsTaken
  <2> QED
    BY <1>4, <2>2, <2>3
<1>9. CASE WriteFails
  <2>1. sched \in Sending(Versions) /\ sched.pc = "writing" /\ Carries(sched)
    BY <1>0, <1>9, SchedShape DEF WriteFails, Carries
  <2>2. CASE sched' = Nobody
    BY <1>4, <2>2 DEF Nobody
  <2>3. CASE sched' = [sched EXCEPT !.pc = "settling"]
    <3>1. /\ sched'.pc = "settling" /\ sched'.op = sched.op /\ sched'.agent = sched.agent
          /\ sched'.base = sched.base /\ sched'.next = sched.next
      BY <2>1, <2>3 DEF Sending
    <3> QED
      BY <1>0, <1>1, <1>3, <2>1, <3>1 DEF SchedInTurn, Carries, Deferring
  <2>4. CASE /\ sched.op \in {"finish", "wait"}
             /\ \E retryable \in BOOLEAN :
                  sched' = [pc |-> "rereading", op |-> "defer", agent |-> sched.agent,
                            retryable |-> retryable, seen |-> anchor.raw]
    <3>1. /\ sched'.pc = "rereading" /\ sched'.op = "defer" /\ sched'.seen = anchor.raw
          /\ lost' = lost + 1
      BY <1>9, <2>4 DEF WriteFails, Unanswered
    <3>2. SchedInTurn'
      BY <1>0, <1>1, <2>1, <3>1 DEF SchedInTurn, Carries
    <3>3. FailuresCounted'
      BY <1>0, <1>1, <2>4, <3>1 DEF FailuresCounted, Deferring
    <3> QED
      BY <1>2, <3>1, <3>2, <3>3 DEF TurnsTaken, ClaimKept
  <2> QED
    BY <1>9, <2>2, <2>3, <2>4 DEF WriteFails
<1>10. CASE CallEnds
  <2>1. /\ sched.pc = "calling" /\ sched'.pc = "rereading" /\ sched'.op = "finish"
        /\ sched'.agent = sched.agent /\ sched'.seen = anchor.raw
    BY <1>10 DEF CallEnds
  <2> QED
    BY <1>0, <1>1, <1>3, <2>1 DEF SchedInTurn, Carries, Deferring
<1>11. CASE CallFails
  <2>1. sched'.pc = "rereading" /\ sched'.op = "defer" /\ sched'.seen = anchor.raw
    BY <1>11 DEF CallFails, Failing
  <2>2. ~BossTurn(t)
    <3>1. CASE sched.pc = "calling"
      BY <1>0, <3>1 DEF SchedInTurn
    <3>2. CASE sched.pc = "scanning"
      <4>1. Offered(sched.seen.task)
        BY <1>11, <3>2, EligibleIsOffered DEF CallFails
      <4>2. sched.seen = anchor.raw
        BY <1>0, <3>2, <4>1 DEF SchedInTurn
      <4> QED
        BY <1>0, <4>1, <4>2, OfferedOrBoss
    <3> QED
      BY <1>11, <3>1, <3>2 DEF CallFails
  <2>3. SchedInTurn'
    BY <1>1, <2>1, <2>2 DEF SchedInTurn, Carries
  <2>4. FailuresCounted'
    BY <1>0, <1>1, <1>11 DEF CallFails, FailuresCounted
  <2> QED
    BY <1>2, <2>1, <2>3, <2>4 DEF TurnsTaken, ClaimKept
<1>12. CASE Reread
  <2>1. /\ sched.pc = "rereading" /\ sched.seen = anchor.raw /\ ~BossTurn(t)
        /\ sched.op = "finish" => Holds(t, sched.agent)
    BY <1>0, <1>12 DEF Reread, SchedInTurn
  <2>2. CASE sched' = Nobody
    BY <1>4, <2>2 DEF Nobody
  <2>3. ASSUME NEW op \in {"finish", "defer"}, NEW u, Send(op, sched.agent, u), op = sched.op,
               Sends(op, sched.agent, t, u)
        PROVE  TurnsTaken'
    <3>1. /\ sched'.pc = "writing" /\ sched'.op = op /\ sched'.agent = sched.agent
          /\ sched'.base = anchor.raw /\ sched'.next.task = u
      BY <2>1, <2>3 DEF Send, Stamped
    <3>2. SchedInTurn'
      BY <1>1, <2>1, <2>3, <3>1 DEF SchedInTurn, Carries
    <3> QED
      BY <1>3, <2>1, <2>3, <3>1, <3>2 DEF Deferring
  <2>4. CASE \E next \in Finishes(t, sched.agent) : sched.op = "finish" /\ Send("finish", sched.agent, next)
    BY <2>3, <2>4 DEF Sends
  <2>5. CASE /\ sched.op = "defer" /\ CanDeferOfficeStep(t)
             /\ Parses(DeferOfficeStep(t, sched.retryable))
             /\ Send("defer", sched.agent, DeferOfficeStep(t, sched.retryable))
    <3>1. sched.retryable \in BOOLEAN
      BY <1>0, <2>1, <2>5, SchedShape DEF Finishing, GivingUp
    <3> QED
      BY <2>3, <2>5, <3>1 DEF Sends
  <2>6. sched.op = "finish" => Finishes(t, sched.agent) # {}
    <3>1. t \in Task(t.plan) /\ t.plan \in Plans
      BY <1>0, Plan
    <3> QED
      BY <1>0, <2>1, <3>1, HoldersFinish
  <2> QED
    BY <1>12, <2>1, <2>2, <2>4, <2>5, <2>6 DEF Reread
<1>13. ASSUME NEW a \in Agents, Offer(a)
       PROVE  TurnsTaken'
  <2>1. CASE sched' = Nobody
    BY <1>4, <2>1 DEF Nobody
  <2>2. ASSUME NEW op \in {"claim", "wait"}, NEW u, Send(op, a, u), Sends(op, a, t, u),
               ~BossTurn(t), sched.seen = anchor.raw
        PROVE  TurnsTaken'
    <3>1. /\ sched'.pc = "writing" /\ sched'.op = op /\ sched'.agent = a
          /\ sched'.base = anchor.raw /\ sched'.next.task = u
      BY <2>2 DEF Send, Stamped
    <3>2. SchedInTurn'
      BY <1>1, <2>2, <3>1 DEF SchedInTurn, Carries
    <3> QED
      BY <1>3, <2>2, <3>1, <3>2 DEF Deferring
  <2>3. PICK due \in BOOLEAN, lapsed \in BOOLEAN :
          /\ Eligible(sched.seen.task, a, due, lapsed, sched.rows[a])
          /\ \/ /\ CanTake(sched.seen.task, a, due, lapsed, sched.rows[a])
                /\ Send("claim", a, Take(sched.seen.task, a, sched.rows[a]))
             \/ /\ Current(sched.seen.task).local /\ sched.seen.task.paper_route.state # "waiting"
                /\ Send("wait", a, MarkOfficeWaiting(sched.seen.task))
             \/ sched' = Nobody
    BY <1>13 DEF Offer
  <2>4. sched.seen = anchor.raw /\ ~BossTurn(t)
    <3>1. Offered(sched.seen.task) /\ sched.pc = "scanning"
      BY <1>13, <2>3, EligibleIsOffered DEF Offer
    <3>2. sched.seen = anchor.raw
      BY <1>0, <3>1 DEF SchedInTurn
    <3> QED
      BY <1>0, <3>1, <3>2, OfferedOrBoss
  <2>5. sched.rows[a] \in BOOLEAN
    BY <1>0, <1>13, SchedShape DEF Offer, Looking
  <2>6. CASE /\ CanTake(t, a, due, lapsed, sched.rows[a])
             /\ Send("claim", a, Take(t, a, sched.rows[a]))
    <3>1. Sends("claim", a, t, Take(t, a, sched.rows[a]))
      BY <2>5, <2>6 DEF Sends
    <3> QED
      BY <2>2, <2>4, <2>6, <3>1
  <2>7. CASE /\ Current(t).local /\ t.paper_route.state # "waiting"
             /\ Send("wait", a, MarkOfficeWaiting(t))
    <3>1. Sends("wait", a, t, MarkOfficeWaiting(t))
      BY <2>3, <2>4, <2>5, <2>7 DEF Sends
    <3> QED
      BY <2>2, <2>4, <2>7, <3>1
  <2> QED
    BY <2>1, <2>3, <2>4, <2>6, <2>7
<1> QED
  BY <1>5, <1>6, <1>7, <1>8, <1>9, <1>10, <1>11, <1>12, <1>13 DEF Scheduler

\* The scheduler anchors what it sent, and is called for it or done.
LEMMA AnchorInTurn ==
  ASSUME Premises, Traced, TurnsTaken, Law!Orderly, Anchor
  PROVE  TurnsTaken'
<1> DEFINE t == anchor.raw.task
           u == sched.next.task
<1>0. /\ TypeOK /\ Fresh /\ SchedInTurn /\ FailuresCounted /\ ClaimKept /\ Parses(t)
      /\ \A b \in Bosses : BossInTurn(boss[b])
      /\ {faults, lost} \subseteq Nat /\ MaxFaults \in Nat
  BY RuntimeAssumption DEF Traced, TurnsTaken, TypeOK
<1>1. /\ sched.pc = "anchoring" /\ Carries(sched) /\ sched \in Sending(Versions)
      /\ sched.base = anchor.raw /\ ~BossTurn(t) /\ Sends(sched.op, sched.agent, t, u)
  BY <1>0, SchedShape DEF Anchor, Carries, SchedInTurn
<1>2. /\ anchor'.raw = sched.next /\ boss' = boss /\ UNCHANGED <<note, wire, lost, outside>>
      /\ sched' = IF sched.op = "claim"
                    THEN [pc |-> "calling", agent |-> sched.agent, next |-> sched.next] ELSE Nobody
      /\ faults' = IF sched.op = "defer" THEN faults + 1 ELSE faults
  BY DEF Anchor, Trust
<1>3. sched.agent \in Agents /\ t \in Task(t.plan) /\ t.plan \in Plans
  BY <1>0, <1>1, Plan DEF Sending
<1>4. \A b \in Bosses : BossInTurn(boss[b])'
  BY <1>0, <1>1, <1>2 DEF BossInTurn, Carries
<1>5. SchedInTurn'
  <2>1. CASE sched.op = "claim"
    <3>1. PICK due \in BOOLEAN, lapsed \in BOOLEAN, e \in BOOLEAN :
            CanTake(t, sched.agent, due, lapsed, e) /\ u = Take(t, sched.agent, e)
      BY <1>1, <2>1 DEF Sends
    <3>2. Holds(u, sched.agent) /\ ~BossTurn(u)
      BY <1>0, <1>1, <1>3, <3>1, ClaimHolds
    <3> QED
      BY <1>2, <2>1, <3>2 DEF SchedInTurn, Carries
  <2>2. CASE sched.op # "claim"
    BY <1>2, <2>2 DEF SchedInTurn, Carries, Nobody
  <2> QED
    BY <2>1, <2>2
<1>6. FailuresCounted'
  <2>1. ~Deferring'
    BY <1>2 DEF Deferring, Nobody
  <2>2. sched.op = "defer" => Deferring
    BY <1>1 DEF Deferring
  <2> QED
    BY <1>0, <1>2, <2>1, <2>2 DEF FailuresCounted
<1>7. ClaimKept'
  <2>1. \A m \in wire : m.base # sched.next
    BY <1>0, <1>1 DEF Fresh, Known
  <2> QED
    BY <1>0, <1>1, <1>2, <2>1 DEF ClaimKept, Nobody
<1>8. Parses(t)'
  BY <1>0, <1>1, <1>2, <1>3, SentParses
<1> QED
  BY <1>4, <1>5, <1>6, <1>7, <1>8 DEF TurnsTaken

\* Steps of the boss that do not anchor.
LEMMA BossStepInTurn ==
  ASSUME Premises, Traced, TurnsTaken, Law!Orderly, NEW b \in Bosses, Boss(b), ~BossAnchor(b)
  PROVE  TurnsTaken'
<1> DEFINE t == anchor.raw.task
<1>0. /\ TypeOK /\ SchedInTurn /\ FailuresCounted /\ ClaimKept /\ Parses(t) /\ BossInTurn(boss[b])
      /\ {faults, lost} \subseteq Nat /\ MaxFaults \in Nat /\ DOMAIN boss = Bosses
      /\ \A c \in Bosses : c = b
  BY RuntimeAssumption DEF Traced, TurnsTaken, TypeOK, Premises
<1>1. /\ sched' = sched /\ faults' = faults /\ lost' \in {lost, lost + 1} /\ outside' = outside
      /\ anchor'.raw = anchor.raw
  BY <1>0 DEF Boss, Ask, Fetch, Decide, Verify, BossWrite, BossSettle, BossAnchor, Clear, ByBoss, Unanswered,
              MarkCompromised, TypeOK
<1>2. PICK p : Set(b, p)
  BY DEF Boss, Ask, Fetch, Decide, Verify, BossWrite, BossSettle, BossAnchor, Clear
<1>3. boss'[b] = p
  BY <1>0, <1>2 DEF Set
<1>4. SchedInTurn' /\ FailuresCounted' /\ Parses(t)'
  <2>1. SchedInTurn' /\ Parses(t)'
    BY <1>0, <1>1 DEF SchedInTurn, Carries
  <2>2. FailuresCounted'
    BY <1>0, <1>1 DEF FailuresCounted, Deferring
  <2> QED
    BY <2>1, <2>2
<1>5. ClaimKept'
  <2>1. CASE BossWrite(b)
    <3>1. BossTurn(t)
      BY <1>0, <2>1 DEF BossWrite, BossInTurn, Carries
    <3>2. sched.pc \notin {"anchoring", "calling"}
      BY <1>0, <3>1 DEF SchedInTurn, Carries
    <3> QED
      BY <1>1, <3>2 DEF ClaimKept
  <2>2. CASE ~BossWrite(b)
    <3>1. UNCHANGED <<note, wire>>
      BY <2>2 DEF Boss, Ask, Fetch, Decide, Verify, BossSettle, BossAnchor, Clear
    <3> QED
      BY <1>0, <1>1, <3>1 DEF ClaimKept
  <2> QED
    BY <2>1, <2>2
<1>6. BossInTurn(p)'
  <2>1. CASE Ask(b)
    <3>1. p = [pc |-> "reading", seen |-> anchor.raw]
      BY <1>0, <1>3, <2>1 DEF Ask, Set
    <3> QED
      BY <1>1, <3>1 DEF BossInTurn, Carries
  <2>2. CASE Fetch(b)
    <3>1. p = [pc |-> "deciding", seen |-> boss[b].seen, got |-> note] /\ boss[b].pc = "reading"
      BY <1>0, <1>3, <2>2 DEF Fetch, Set
    <3> QED
      BY <1>0, <1>1, <3>1 DEF BossInTurn, Carries
  <2>3. CASE p = Nobody
    BY <2>3 DEF BossInTurn, Carries, Nobody
  <2>4. CASE Decide(b) /\ p # Nobody
    <3>1. PICK u \in Decisions(boss[b].seen.task) :
            Set(b, [pc |-> "verifying", from |-> boss[b].seen, next |-> Stamped(u), base |-> anchor.raw])
      BY <1>0, <1>3, <2>4 DEF Decide, Set
    <3>2. p = [pc |-> "verifying", from |-> boss[b].seen, next |-> Stamped(u), base |-> anchor.raw]
      BY <1>0, <1>3, <3>1 DEF Set
    <3>3. Decides(boss[b].seen.task, u) /\ BossTurn(boss[b].seen.task)
      BY <3>1 DEF Decisions, Decides, BossTurn
    <3>4. boss[b].seen = anchor.raw
      BY <1>0, <2>4, <3>3 DEF Decide, BossInTurn
    <3>5. p.next.task = u
      BY <3>2 DEF Stamped
    <3> QED
      BY <1>1, <3>2, <3>3, <3>4, <3>5 DEF BossInTurn, Carries
  <2>5. CASE (Verify(b) \/ BossSettle(b) \/ BossWrite(b)) /\ p # Nobody
    <3>1. boss[b] \in Replacing(Versions) /\ Carries(boss[b])
      BY <1>0, <2>5, BossShape DEF Verify, BossSettle, BossWrite, Carries
    <3>2. \E pc \in {"writing", "settling", "anchoring"} : p = [boss[b] EXCEPT !.pc = pc]
      BY <1>0, <1>3, <2>5 DEF Verify, BossSettle, BossWrite, Set
    <3>3. /\ p.pc \in {"writing", "settling", "anchoring"}
          /\ p.from = boss[b].from /\ p.next = boss[b].next /\ p.base = boss[b].base
      BY <3>1, <3>2 DEF Replacing
    <3> QED
      BY <1>0, <1>1, <3>1, <3>3 DEF BossInTurn, Carries
  <2>6. CASE Clear(b)
    <3>1. p = Nobody
      BY <1>0, <1>3, <2>6 DEF Clear, Set
    <3> QED
      BY <2>3, <3>1
  <2> QED
    BY <2>1, <2>2, <2>3, <2>4, <2>5, <2>6 DEF Boss
<1>7. \A c \in Bosses : BossInTurn(boss[c])'
  <2>1. BossInTurn(boss[b])'
    BY <1>3, <1>6 DEF BossInTurn, Carries
  <2> QED
    BY <1>0, <2>1
<1> QED
  BY <1>4, <1>5, <1>7 DEF TurnsTaken

\* The boss anchors a decision.
LEMMA BossAnchorInTurn ==
  ASSUME Premises, Traced, TurnsTaken, Law!Orderly, NEW b \in Bosses, BossAnchor(b)
  PROVE  TurnsTaken'
<1> DEFINE t == anchor.raw.task
           u == boss[b].next.task
<1>0. /\ TypeOK /\ SchedInTurn /\ FailuresCounted /\ Parses(t) /\ BossInTurn(boss[b])
      /\ DOMAIN boss = Bosses /\ \A c \in Bosses : c = b
  BY DEF Traced, TurnsTaken, TypeOK, Premises
<1>1. BossTurn(t) /\ Decides(t, u)
  BY <1>0 DEF BossAnchor, BossInTurn, Carries
<1>2. /\ anchor'.raw = boss[b].next /\ UNCHANGED <<sched, faults, lost, note, wire, outside>>
      /\ boss'[b].pc = "clearing"
  BY <1>0 DEF BossAnchor, Trust, Set, ByBoss
<1>3. sched.pc \in {"listing", "scanning"} => ~Offered(sched.seen.task)
  BY <1>0, <1>1, OfferedOrBoss DEF SchedInTurn
<1>4. ~Carries(sched) /\ sched.pc \notin {"calling", "rereading"}
  BY <1>0, <1>1 DEF SchedInTurn
<1>5. SchedInTurn'
  BY <1>2, <1>3, <1>4 DEF SchedInTurn, Carries
<1>6. \A c \in Bosses : BossInTurn(boss[c])'
  BY <1>0, <1>2 DEF BossInTurn, Carries
<1>7. FailuresCounted' /\ ClaimKept'
  BY <1>0, <1>2, <1>4 DEF FailuresCounted, Deferring, ClaimKept, Carries
<1>8. Parses(t)'
  BY <1>0, <1>1, <1>2, Plan, DecidedParses
<1> QED
  BY <1>5, <1>6, <1>7, <1>8 DEF TurnsTaken

LEMMA EnvironmentInTurn ==
  ASSUME Traced, TurnsTaken, Environment
  PROVE  TurnsTaken'
<1>0. TypeOK /\ Fresh /\ SchedInTurn /\ FailuresCounted /\ ClaimKept
  BY DEF Traced, TurnsTaken
<1>1. ASSUME NEW m \in wire, Land(m)
      PROVE  TurnsTaken'
  <2>1. UNCHANGED <<anchor, sched, boss, faults, lost, outside>> /\ wire' \subseteq wire
        /\ note' = IF note = m.base THEN m.next ELSE note
    BY <1>1 DEF Land, bounds
  <2>2. ClaimKept'
    <3>1. sched.pc = "anchoring" => m.base # sched.next
      BY <1>0 DEF Fresh, Known, Carries
    <3> QED
      BY <1>0, <2>1, <3>1 DEF ClaimKept
  <2>3. SchedInTurn' /\ FailuresCounted'
    BY <1>0, <2>1 DEF SchedInTurn, FailuresCounted, Deferring, Carries
  <2> QED
    BY <2>1, <2>2, <2>3 DEF TurnsTaken, BossInTurn, Carries
<1>2. CASE OutsideWrite
  <2>1. UNCHANGED <<anchor, sched, boss, faults, lost>> /\ outside' # 0
    BY <1>0, <1>2 DEF OutsideWrite, TypeOK
  <2>2. SchedInTurn' /\ FailuresCounted'
    BY <1>0, <2>1 DEF SchedInTurn, FailuresCounted, Deferring, Carries
  <2> QED
    BY <2>1, <2>2 DEF TurnsTaken, BossInTurn, Carries, ClaimKept
<1>3. CASE Crash
  <2>1. /\ sched'.pc = "idle" /\ \A b \in Bosses : boss'[b].pc = "idle"
        /\ UNCHANGED <<anchor, faults, lost>>
    BY <1>3 DEF Crash, Nobody
  <2>2. FailuresCounted'
    BY <1>0, <2>1, RuntimeAssumption DEF FailuresCounted, Deferring, TypeOK
  <2> QED
    BY <2>1, <2>2 DEF TurnsTaken, SchedInTurn, BossInTurn, Carries, ClaimKept
<1> QED
  BY <1>1, <1>2, <1>3 DEF Environment

LEMMA StepInTurn ==
  ASSUME Premises, Traced, TurnsTaken, Law!Orderly, [Next]_vars
  PROVE  TurnsTaken'
<1>1. CASE UNCHANGED vars
  BY <1>1 DEF vars, bounds, TurnsTaken, SchedInTurn, BossInTurn, Carries, FailuresCounted, Deferring, ClaimKept
<1> QED
  BY <1>1, NextByActor, SchedulerInTurn, AnchorInTurn, BossStepInTurn, BossAnchorInTurn, EnvironmentInTurn

-----------------------------------------------------------------------------
(***************************************************************************)
(* Every step of the runtime is a step of the board, or none               *)
(***************************************************************************)

LEMMA SentIsNext ==
  ASSUME NEW op, NEW a \in Agents, Sends(op, a, anchor.raw.task, anchor'.raw.task), manual' = manual,
         IF op = "defer" THEN faults < MaxFaults + MaxMishaps /\ faults' = faults + 1 ELSE faults' = faults
  PROVE  Board!Next
<1> DEFINE t == anchor.raw.task
           u == anchor'.raw.task
<1>1. CASE op = "claim"
  BY <1>1, SameTransitions DEF Sends, Board!Next, Board!Employee, Board!PickUp
<1>2. CASE op = "wait"
  BY <1>2, SameTransitions DEF Sends, Board!Next, Board!Employee, Board!WaitForRunner
<1>3. CASE op = "finish"
  <2>1. \/ CanCompleteOfficeWork(t, a) /\ u = CompleteOfficeWork(t)
        \/ CanFinishOfficeReview(t, a) /\ u = ApproveResult(t)
        \/ CanFinishOfficeReview(t, a) /\ u = ReturnResult(t) /\ Parses(u)
    BY <1>3 DEF Sends, Finishes
  <2>2. Board!Complete(a) \/ Board!Approve(a) \/ Board!Return(a)
    BY <1>3, <2>1, SameTransitions DEF Board!Complete, Board!Approve, Board!Return
  <2> QED
    BY <2>2 DEF Board!Next, Board!Employee
<1>4. CASE op = "defer"
  BY <1>4, SameTransitions DEF Sends, Board!Next, Board!Fail
<1> QED
  BY <1>1, <1>2, <1>3, <1>4 DEF Sends

\* Only a retry counts as one.
LEMMA CheckpointIsNoRetry ==
  ASSUME NEW plan \in Plans, NEW t \in Task(plan), AwaitsApproval(t, t.current_step)
  PROVE  /\ ApproveOfficeCheckpoint(t, t.current_step) # RecoverOfficeTask(t)
         /\ RejectOfficeCheckpoint(t, t.current_step) # RecoverOfficeTask(t)
<1> DEFINE i == t.current_step
<1>1. /\ t.steps \in [DOMAIN plan.steps -> StepState] /\ i \in DOMAIN plan.steps
      /\ t.steps[i].status = "awaiting_approval" /\ t.steps[i] \in StepState
  BY DEF Task, AwaitsApproval
<1>2. RecoverOfficeTask(t).steps[i].status = "pending"
  <2>1. RecoverOfficeTask(t).steps = [t.steps EXCEPT ![i].status = "pending"]
    BY <1>1 DEF RecoverOfficeTask, Task
  <2> QED
    BY <1>1, <2>1 DEF StepState
<1>3. ApproveOfficeCheckpoint(t, i).steps[i].status = "done"
  <2> DEFINE steps == [t.steps EXCEPT ![i].status = "done"]
  <2>1. steps \in [DOMAIN plan.steps -> StepState] /\ steps[i].status = "done"
    BY <1>1 DEF StepState, StepStatuses
  <2>2. FinishStage(t, steps, i).steps = steps
    <3> HIDE DEF steps
    <3>1. PICK next \in DOMAIN plan.steps, status \in {"open", "review", "done"},
               decision \in {t.review_decision, "none"},
               result \in SUBSET ((DOMAIN plan.steps) \X Nat),
               route \in {ReadyPaperRoute(t.paper_route), Paused(t.paper_route)} :
            FinishStage(t, steps, i) = Freed(t, steps, next, status, decision, result, route)
      <4>1. StageEnds(plan, t, steps, i)
        BY <1>1, <2>1, FinishStageCases
      <4> QED
        BY <4>1, Zenon DEF StageEnds
    <3>2. Freed(t, steps, next, status, decision, result, route).steps = steps
      BY DEF Freed, Unassigned, Task
    <3> QED
      BY <3>1, <3>2
  <2> QED
    BY <2>1, <2>2 DEF ApproveOfficeCheckpoint
<1>4. RejectOfficeCheckpoint(t, i).steps[i].status = "changes_requested"
  <2>1. Unassigned(t).steps = t.steps /\ Unassigned(t) \in Task(plan)
    BY UnassignedType DEF Unassigned, Task
  <2>2. RejectOfficeCheckpoint(t, i).steps
          = [t.steps EXCEPT ![i].status = "changes_requested", ![i].revision_count = @ + 1]
    BY <1>1, <2>1 DEF RejectOfficeCheckpoint, Task
  <2> QED
    BY <1>1, <2>2 DEF StepState
<1> QED
  BY <1>2, <1>3, <1>4

LEMMA DecidedIsNext ==
  ASSUME Premises, TypeOK, Law!Orderly, NEW u, Decides(anchor.raw.task, u), anchor'.raw.task = u,
         faults' = faults,
         manual' = IF anchor.raw.task.paper_route.state = "waiting" /\ u = RecoverOfficeTask(anchor.raw.task)
                     THEN manual + 1 ELSE manual
  PROVE  Board!Next
<1> DEFINE t == anchor.raw.task
<1>1. t \in Task(t.plan) /\ t.plan \in Plans
  BY Plan
<1>2. ASSUME NEW i \in DOMAIN t.steps, AwaitsApproval(t, i),
             u = ApproveOfficeCheckpoint(t, i) \/ u = RejectOfficeCheckpoint(t, i)
      PROVE  manual' = manual
  BY <1>1, <1>2, OrderedTask, CheckpointIsNoRetry
<1>3. ASSUME NEW i \in DOMAIN t.steps, AwaitsApproval(t, i), u = ApproveOfficeCheckpoint(t, i)
      PROVE  Board!Next
  BY <1>2, <1>3, SameTransitions DEF Board!Next, Board!ApproveCheckpoint
<1>4. ASSUME NEW i \in DOMAIN t.steps, CanRejectCheckpoint(t, i), u = RejectOfficeCheckpoint(t, i), Parses(u)
      PROVE  Board!Next
  <2>1. AwaitsApproval(t, i)
    BY <1>4 DEF CanRejectCheckpoint
  <2> QED
    BY <1>2, <1>4, <2>1, SameTransitions DEF Board!Next, Board!RejectCheckpoint
<1>5. CASE CanRecoverOfficeTask(t) /\ t.paper_route.state \in RetryStates /\ u = RecoverOfficeTask(t)
  BY <1>5, SameTransitions DEF Premises, Board!Next, Board!Retry
<1> QED
  BY <1>3, <1>4, <1>5 DEF Decides

LEMMA StepIsBoardStep ==
  ASSUME Premises, Traced, TurnsTaken, Law!Orderly, [Next]_vars
  PROVE  [Board!Next]_(Board!vars)
<1>0. TypeOK /\ SchedInTurn /\ FailuresCounted /\ \A b \in Bosses : BossInTurn(boss[b])
  BY DEF Traced, TurnsTaken
<1>1. CASE Anchor
  <2>1. /\ Sends(sched.op, sched.agent, anchor.raw.task, sched.next.task)
        /\ sched.agent \in Agents /\ sched.pc = "anchoring"
    BY <1>0, <1>1, SchedShape DEF Anchor, SchedInTurn, Carries, Sending
  <2>2. /\ anchor'.raw = sched.next /\ manual' = manual
        /\ faults' = IF sched.op = "defer" THEN faults + 1 ELSE faults
    BY <1>1 DEF Anchor, Trust
  <2>3. sched.op = "defer" => faults < MaxFaults + MaxMishaps
    <3>1. {faults, lost, crashes, outside, MaxFaults, MaxMishaps} \subseteq Nat
          /\ lost + crashes + outside <= MaxMishaps
      BY <1>0, RuntimeAssumption DEF TypeOK, mishaps
    <3>2. sched.op = "defer" => faults + 1 <= MaxFaults + lost
      BY <1>0, <2>1 DEF FailuresCounted, Deferring
    <3> QED
      BY <3>1, <3>2
  <2> QED
    BY <2>1, <2>2, <2>3, SentIsNext
<1>2. ASSUME NEW b \in Bosses, BossAnchor(b)
      PROVE  Board!Next
  <2>1. boss[b].from = anchor.raw /\ Decides(anchor.raw.task, boss[b].next.task)
    BY <1>0, <1>2 DEF BossAnchor, BossInTurn, Carries
  <2>2. /\ anchor'.raw = boss[b].next /\ faults' = faults
        /\ manual' = IF anchor.raw.task.paper_route.state = "waiting"
                          /\ boss[b].next.task = RecoverOfficeTask(anchor.raw.task)
                       THEN manual + 1 ELSE manual
    BY <1>2, <2>1 DEF BossAnchor, Trust, ByBoss
  <2> QED
    BY <1>0, <2>1, <2>2, DecidedIsNext
<1>3. CASE ~Anchor /\ ~\E b \in Bosses : BossAnchor(b)
  <2>1. anchor'.raw = anchor.raw /\ UNCHANGED <<faults, manual>>
    <3>1. CASE Scheduler
      BY <1>0, <1>3, <3>1 DEF Scheduler, Tick, List, NothingToDo, Write, WriteFails, Settle, Check, CallEnds,
         CallFails, Reread, Offer, Others, MarkCompromised, TypeOK
    <3>2. ASSUME NEW b \in Bosses, Boss(b)
          PROVE  anchor'.raw = anchor.raw /\ UNCHANGED <<faults, manual>>
      BY <1>0, <1>3, <3>2 DEF Boss, Ask, Fetch, Decide, Verify, BossWrite, BossSettle, Clear, ByBoss,
         MarkCompromised, TypeOK
    <3>3. CASE Environment \/ UNCHANGED vars
      BY <3>3 DEF Environment, Land, OutsideWrite, Crash, vars, bounds
    <3> QED
      BY <3>1, <3>2, <3>3, NextByActor
  <2> QED
    BY <2>1 DEF Board!vars
<1> QED
  BY <1>1, <1>2, <1>3

-----------------------------------------------------------------------------
(***************************************************************************)
(* What holds in every state follows                                       *)
(***************************************************************************)

LEMMA OrderKept ==
  ASSUME Premises, Traced, TurnsTaken, Law!Orderly, [Next]_vars
  PROVE  Law!Orderly'
<1>1. [Law!Next]_(Law!vars)
  BY StepIsBoardStep, SameBoard DEF Law!vars, Board!vars
<1>2. Law!TypeOK
  <2>1. TypeOK
    BY DEF Traced
  <2>2. anchor.raw.task \in Law!Task(anchor.raw.task.plan)
    BY <2>1, SameRecords DEF TypeOK, Versions
  <2> QED
    BY <2>1, <2>2 DEF TypeOK, Law!TypeOK
<1>3. Law!CheckpointsAlone(anchor.raw.task.plan)
  BY DEF Traced, TypeOK, Premises, Law!CheckpointsAlone, CheckpointsAlone, Law!Members, Members
<1> QED
  BY <1>1, <1>2, <1>3, Workable, Law!StepKeepsOrder

LEMMA InitIsBoardInit ==
  ASSUME Init
  PROVE  Board!Init
<1>1. PICK plan \in Plans : anchor.raw = First0(plan)
  BY DEF Init
<1>2. Board!NewOfficeTask(plan) = NewOfficeTask(plan)
  BY DEF Board!NewOfficeTask, NewOfficeTask
<1> QED
  BY <1>1, <1>2 DEF Init, Board!Init, First0

LEMMA InitInTurn ==
  ASSUME Init
  PROVE  TurnsTaken /\ Law!Orderly
<1>1. /\ sched.pc = "idle" /\ \A b \in Bosses : boss[b].pc = "idle"
      /\ faults = 0 /\ lost = 0 /\ MaxFaults \in Nat
  BY RuntimeAssumption DEF Init, Nobody
<1>2. Parses(anchor.raw.task)
  <2>1. PICK plan \in Plans : anchor.raw = First0(plan)
    BY DEF Init
  <2>2. /\ anchor.raw.task.paper_route.retry_count = 0
        /\ DOMAIN anchor.raw.task.steps = DOMAIN plan.steps
        /\ \A i \in DOMAIN plan.steps : anchor.raw.task.steps[i].revision_count = 0
    BY <2>1 DEF First0, NewOfficeTask
  <2> QED
    BY <2>2, TaskAssumption DEF Parses
<1>3. TurnsTaken
  BY <1>1, <1>2 DEF TurnsTaken, SchedInTurn, BossInTurn, Carries, FailuresCounted, Deferring, ClaimKept
<1>4. Law!Init
  BY InitIsBoardInit, SameBoard
<1>5. Law!TypeOK
  <2>1. TypeOK
    BY InitTypes
  <2>2. anchor.raw.task \in Law!Task(anchor.raw.task.plan)
    BY <2>1, SameRecords DEF TypeOK, Versions
  <2> QED
    BY <2>1, <2>2 DEF TypeOK, Law!TypeOK
<1> QED
  BY <1>3, <1>4, <1>5, Workable, Law!NewTaskInOrder

\* The scheduler and the boss take turns, and the store keeps a claim until the call it
\* was made for has ended: with one boss, who retries only what has stopped, and
\* checkpoints that stand alone in their stage; for any failures, late or lost answers,
\* restarts and outside writes (runWorkspace, PATCH of the task route).
THEOREM TurnsCorrect ==
  ASSUME Premises
  PROVE  Spec => [](TurnsTaken /\ Law!Orderly)
<1>1. Traced /\ TurnsTaken /\ Law!Orderly /\ [Next]_vars => TurnsTaken' /\ Law!Orderly'
  BY StepInTurn, OrderKept
<1> QED
  BY <1>1, InitInTurn, RuntimeTraced, PTL DEF Spec

\* An employee is paid only for a claim the office holds: while the provider is called,
\* and nobody outside has written, the store and the anchor have the claim the call is
\* made for, whatever is lost, late or interrupted (architecture.md, "Before an agent calls
\* a provider ..."; casNote).
THEOREM CallCorrect ==
  ASSUME Premises
  PROVE  Spec => []CallIsAnchored
<1>1. TurnsTaken => CallIsAnchored
  BY DEF TurnsTaken, ClaimKept, SchedInTurn, CallIsAnchored
<1> QED
  BY <1>1, TurnsCorrect, PTL

\* The runtime implements the board: whatever is lost, late, written from outside or
\* interrupted, the anchored task goes through the transitions of transitions.ts one at a
\* time (cas, replaceTrustedRecord, verifiedRecord).
THEOREM HistoryCorrect ==
  ASSUME Premises
  PROVE  Spec => AnchoredHistory
<1>1. Traced /\ TurnsTaken /\ Law!Orderly /\ [Next]_vars => [Board!Next]_(Board!vars)
  BY StepIsBoardStep
<1> QED
  BY <1>1, InitIsBoardInit, TurnsCorrect, RuntimeTraced, PTL DEF Spec, AnchoredHistory, Board!Spec
================================================================================
