----------------------------- MODULE TaskQueueProofs -----------------------------
(***************************************************************************)
(* What holds of the queue of standalone agents for any number of agents   *)
(* and attempts, and whatever is lost, late or killed: the invariant       *)
(* Lawful, from it that the note keeps QueuePromise, that live claims are  *)
(* kept, and that honest work is attested.                                 *)
(***************************************************************************)
EXTENDS TaskQueue, TLAPS

-----------------------------------------------------------------------------
(***************************************************************************)
(* Versions of the note                                                    *)
(***************************************************************************)

LEMMA StampedType ==
  ASSUME NEW t \in Task
  PROVE  /\ Stamped(t) \in Task /\ Stamped(t).stamp = t.stamp + 1
         /\ Stamped(t).status = t.status /\ Stamped(t).attempt = t.attempt
         /\ Stamped(t).requires_review = t.requires_review /\ Stamped(t).result = t.result
         /\ Stamped(t).worker = t.worker /\ Stamped(t).reviewer = t.reviewer
<1>1. t.stamp + 1 \in Nat
  BY DEF Task
<1>2. QED
  BY <1>1 DEF Stamped, Task

\* What claimForWork and claimForReview change.
LEMMA ClaimChanges ==
  ASSUME NEW t \in Task, NEW u, ClaimWrite(t, u)
  PROVE  /\ u \in Task /\ u.stamp = t.stamp + 1
         /\ u.requires_review = t.requires_review /\ u.result = t.result
         /\ \/ /\ t.status \in {"open", "running"} /\ t.attempt < MaxAttempts
               /\ u.status = "running" /\ u.attempt = t.attempt + 1
               /\ u.worker \in Workers /\ u.reviewer = None
            \/ /\ t.status = "review" /\ u.status = "review" /\ u.attempt = t.attempt
               /\ u.worker = t.worker /\ u.reviewer \in Reviewers
<1>1. CASE /\ t.status \in {"open", "running"} /\ t.attempt < MaxAttempts
           /\ \E w \in Workers : u = ClaimForWork(t, w)
  <2>1. PICK w \in Workers : u = ClaimForWork(t, w)
    BY <1>1
  <2> DEFINE c == [t EXCEPT !.status = "running", !.attempt = @ + 1, !.worker = w, !.reviewer = None]
  <2>2. t.attempt + 1 \in 0..MaxAttempts
    BY <1>1, QueueAssumption DEF Task
  <2>3. /\ c \in Task /\ c.stamp = t.stamp /\ c.status = "running" /\ c.attempt = t.attempt + 1
        /\ c.worker = w /\ c.reviewer = None
        /\ c.requires_review = t.requires_review /\ c.result = t.result
    BY <2>2 DEF Task
  <2>4. u = Stamped(c)
    BY <2>1 DEF ClaimForWork
  <2> HIDE DEF c
  <2>5. QED
    BY <1>1, <2>3, <2>4, StampedType
<1>2. CASE t.status = "review" /\ \E r \in Reviewers : u = ClaimForReview(t, r)
  <2>1. PICK r \in Reviewers : u = ClaimForReview(t, r)
    BY <1>2
  <2> DEFINE c == [t EXCEPT !.reviewer = r]
  <2>2. /\ c \in Task /\ c.stamp = t.stamp /\ c.status = t.status /\ c.attempt = t.attempt
        /\ c.worker = t.worker /\ c.reviewer = r
        /\ c.requires_review = t.requires_review /\ c.result = t.result
    BY DEF Task
  <2>3. u = Stamped(c)
    BY <2>1 DEF ClaimForReview
  <2> HIDE DEF c
  <2>4. QED
    BY <1>2, <2>2, <2>3, StampedType
<1>3. QED
  BY <1>1, <1>2 DEF ClaimWrite

\* What submitResult, approveTask and requestChanges change.
LEMMA FinishChanges ==
  ASSUME NEW t \in Task, NEW u, FinishWrite(t, u)
  PROVE  /\ u \in Task /\ u.stamp = t.stamp + 1 /\ u.attempt = t.attempt
         /\ u.requires_review = t.requires_review
         /\ \/ /\ t.status = "running" /\ u.result = t.attempt /\ u.worker = t.worker
               /\ u.status = IF t.requires_review THEN "review" ELSE "done"
               /\ u.reviewer = None
            \/ /\ t.status = "review" /\ t.reviewer # None
               /\ u.result = t.result /\ u.reviewer = t.reviewer
               /\ \/ u.status = "done" /\ u.worker = t.worker
                  \/ u.status = "failed" /\ u.worker = t.worker /\ t.attempt >= MaxAttempts
                  \/ u.status = "open" /\ u.worker = None /\ t.attempt < MaxAttempts
<1>1. CASE t.status = "running" /\ u = SubmitResult(t)
  <2> DEFINE c == [t EXCEPT !.status = IF t.requires_review THEN "review" ELSE "done",
                            !.result = t.attempt, !.reviewer = None]
  <2>1. /\ c \in Task /\ c.stamp = t.stamp /\ c.attempt = t.attempt /\ c.worker = t.worker
        /\ c.requires_review = t.requires_review /\ c.result = t.attempt /\ c.reviewer = None
        /\ c.status = IF t.requires_review THEN "review" ELSE "done"
    BY DEF Task
  <2>2. u = Stamped(c)
    BY <1>1 DEF SubmitResult
  <2> HIDE DEF c
  <2>3. QED
    BY <1>1, <2>1, <2>2, StampedType
<1>2. ASSUME t.status = "review", t.reviewer # None,
             NEW status \in {"done", "failed", "open"},
             NEW worker \in {t.worker, None},
             u = Stamped([t EXCEPT !.status = status, !.worker = worker])
      PROVE  /\ u \in Task /\ u.stamp = t.stamp + 1 /\ u.attempt = t.attempt
             /\ u.requires_review = t.requires_review /\ u.result = t.result
             /\ u.reviewer = t.reviewer /\ u.status = status /\ u.worker = worker
  <2> DEFINE c == [t EXCEPT !.status = status, !.worker = worker]
  <2>1. /\ c \in Task /\ c.stamp = t.stamp /\ c.attempt = t.attempt /\ c.worker = worker
        /\ c.requires_review = t.requires_review /\ c.result = t.result
        /\ c.reviewer = t.reviewer /\ c.status = status
    BY <1>2 DEF Task
  <2> HIDE DEF c
  <2>2. QED
    BY <1>2, <2>1, StampedType DEF c
<1>3. \A status : [t EXCEPT !.status = status] = [t EXCEPT !.status = status, !.worker = t.worker]
  BY DEF Task
<1>4. CASE t.status = "review" /\ t.reviewer # None /\ u = ApproveTask(t)
  <2>1. u = Stamped([t EXCEPT !.status = "done", !.worker = t.worker])
    BY <1>3, <1>4 DEF ApproveTask
  <2>2. QED
    BY <1>2, <1>4, <2>1
<1>5. CASE t.status = "review" /\ t.reviewer # None /\ u = RequestChanges(t)
  <2>1. CASE t.attempt >= MaxAttempts
    <3>1. u = Stamped([t EXCEPT !.status = "failed", !.worker = t.worker])
      BY <1>3, <1>5, <2>1 DEF RequestChanges
    <3>2. QED
      BY <1>2, <1>5, <2>1, <3>1
  <2>2. CASE ~(t.attempt >= MaxAttempts)
    <3>1. u = Stamped([t EXCEPT !.status = "open", !.worker = None])
      BY <1>5, <2>2 DEF RequestChanges
    <3>2. t.attempt < MaxAttempts
      BY <2>2, QueueAssumption DEF Task
    <3>3. QED
      BY <1>2, <1>5, <3>1, <3>2
  <2>3. QED
    BY <2>1, <2>2
<1>6. QED
  BY <1>1, <1>4, <1>5 DEF FinishWrite

LEMMA BlankIsTask == Blank \in Task
  BY QueueAssumption DEF Blank, Created, Task

-----------------------------------------------------------------------------
(***************************************************************************)
(* Processes and writes                                                    *)
(***************************************************************************)

Inv == TypeOK /\ Lawful

LEMMA ProcChanges ==
  ASSUME procs \in [Agents -> Processes], NEW a \in Agents, NEW pc, NEW copy, Proc(a, pc, copy)
  PROVE  /\ procs'[a].pc = pc /\ procs'[a].copy = copy
         /\ \A b \in Agents \ {a} : procs'[b] = procs[b]
         /\ (pc \in {"off", "idle", "seen", "claimed", "resumed", "working", "finished"} /\ copy \in Task)
              => procs' \in [Agents -> Processes]
BY DEF Proc, Processes

\* A process that goes by nothing any more breaks nothing.
LEMMA IdleIsLawful ==
  ASSUME NEW a \in Agents, procs[a].pc \in {"off", "idle"}
  PROVE  ProcessIsLawful(a)
BY DEF ProcessIsLawful

\* Nothing under way is about a version newer than the note.
LEMMA ApplyAges ==
  ASSUME Inv, NEW to, Apply(to), ClaimWrite(note, to) \/ FinishWrite(note, to)
  PROVE  /\ note \in Task /\ note' \in Task /\ note'.stamp = note.stamp + 1
         /\ note'.attempt >= note.attempt
         /\ Coherent(note)'
         /\ \A t \in Task : Older(t) => Older(t)' /\ t # note'
<1>1. note \in Task /\ Coherent(note) /\ note' = to
  BY DEF Inv, TypeOK, Lawful, Apply
<1>2. note' \in Task /\ note'.stamp = note.stamp + 1 /\ note'.attempt >= note.attempt
  <2>1. note.attempt \in Nat
    BY <1>1, QueueAssumption DEF Task
  <2>2. QED
    BY <1>1, <2>1, ClaimChanges, FinishChanges
<1>3. None \notin Workers
  BY QueueAssumption DEF Agents
<1>4. Coherent(note')
  <2>1. CASE ClaimWrite(note, to)
    BY <1>1, <1>3, <2>1, ClaimChanges DEF Coherent
  <2>2. CASE FinishWrite(note, to)
    <3>1. to.status \in {"review", "done", "failed"} => to.worker # None /\ to.result = to.attempt
      BY <1>1, <2>2, FinishChanges DEF Coherent, Task
    <3>2. to.status \in {"review", "done", "failed", "open"}
      BY <1>1, <2>2, FinishChanges
    <3>3. to.status = "done" /\ to.requires_review => to.reviewer # None
      BY <1>1, <2>2, FinishChanges
    <3>4. QED
      BY <1>1, <3>1, <3>2, <3>3 DEF Coherent
  <2>3. QED
    BY <2>1, <2>2
<1>5. ASSUME NEW t \in Task, Older(t)
      PROVE  Older(t)' /\ t # note'
  <2>1. t.stamp \in Nat /\ note.stamp \in Nat /\ t.attempt \in Nat /\ note.attempt \in Nat /\ note'.attempt \in Nat
    BY <1>1, <1>2, QueueAssumption DEF Task
  <2>2. t.stamp <= note'.stamp /\ t.attempt <= note'.attempt /\ t.stamp # note'.stamp
    BY <1>2, <1>5, <2>1 DEF Older
  <2>3. QED
    BY <1>5, <2>2 DEF Older, Coherent
<1>6. QED
  BY <1>1, <1>2, <1>4, <1>5 DEF Coherent

\* A write leaves the processes that did not make it as they should be.
LEMMA ApplyKeepsProcess ==
  ASSUME Inv, NEW to, Apply(to), ClaimWrite(note, to) \/ FinishWrite(note, to),
         NEW b \in Agents, procs'[b] = procs[b]
  PROVE  ProcessIsLawful(b)'
<1> DEFINE t == procs[b].copy
           pc == procs[b].pc
<1>1. /\ note \in Task /\ note' = to /\ t \in Task /\ ProcessIsLawful(b)
  BY DEF Inv, TypeOK, Lawful, Apply, Processes
<1>2. CASE pc \in {"off", "idle"}
  BY <1>2 DEF ProcessIsLawful
<1>3. CASE pc \notin {"off", "idle"}
  <2>1. Older(t) /\ Older(t)' /\ t # note'
    BY <1>1, <1>3, ApplyAges DEF ProcessIsLawful
  <2>2. pc = "finished" /\ b \in Reviewers => t.status # "done"
    <3>1. SUFFICES ASSUME pc = "finished", b \in Reviewers, t.status = "done"
                   PROVE  FALSE
      OBVIOUS
    <3>2. note.status = "done"
      BY <1>1, <3>1 DEF ProcessIsLawful
    <3>3. QED
      BY <3>2 DEF ClaimWrite, FinishWrite
  <2>3. (/\ b \in Workers /\ pc \in {"claimed", "resumed", "working", "finished"}
         /\ t.attempt = note'.attempt /\ note'.status # "open") => note'.worker = b
    <3>1. SUFFICES ASSUME b \in Workers, pc \in {"claimed", "resumed", "working", "finished"},
                          t.attempt = note'.attempt, note'.status # "open"
                   PROVE  note'.worker = b
      OBVIOUS
    <3>2. t.attempt \in Nat /\ note.attempt \in Nat /\ t.attempt <= note.attempt
      BY <1>1, <2>1, QueueAssumption DEF Task, Older
    <3>3. note'.attempt = note.attempt /\ note.status # "open" /\ note'.worker = note.worker
      <4>1. CASE ClaimWrite(note, to)
        BY <1>1, <3>1, <3>2, <4>1, ClaimChanges
      <4>2. CASE FinishWrite(note, to)
        BY <1>1, <3>1, <4>2, FinishChanges
      <4>3. QED
        BY <4>1, <4>2
    <3>4. QED
      BY <1>1, <3>1, <3>3 DEF ProcessIsLawful
  <2>4. QED
    BY <1>1, <1>3, <2>1, <2>2, <2>3 DEF ProcessIsLawful, HeldBy
<1>4. QED
  BY <1>2, <1>3

\* The events in the room are about the note again, or one is owed.
LEMMA ApplyKeepsRoom ==
  ASSUME Inv, NEW to, Apply(to), ClaimWrite(note, to) \/ FinishWrite(note, to), UNCHANGED room
  PROVE  RoomFollows'
<1>1. note \in Task /\ note' = to /\ RoomFollows /\ owed' = owed \union Due(note, to)
  BY DEF Inv, TypeOK, Lawful, Apply
<1>2. CASE ClaimWrite(note, to)
  <2>1. CASE to.status = "running"
    <3>1. "claim" \in owed'
      BY <1>1, <2>1 DEF Due
    <3>2. QED
      BY <1>1, <2>1, <3>1 DEF RoomFollows, Said
  <2>2. CASE to.status = "review"
    <3>1. to.worker = note.worker /\ to.result = note.result /\ note.status = "review"
      BY <1>1, <1>2, <2>2, ClaimChanges
    <3>2. QED
      BY <1>1, <2>2, <3>1 DEF RoomFollows, Said
  <2>3. QED
    BY <1>1, <1>2, <2>1, <2>2, ClaimChanges
<1>3. CASE FinishWrite(note, to) /\ note.status = "running"
  <2>1. to.worker = note.worker /\ to.status \in {"review", "done"} /\ (to.status = "done" => ~to.requires_review)
    BY <1>1, <1>3, FinishChanges
  <2>2. "result" \in owed'
    BY <1>1, <1>3, <2>1 DEF Due
  <2>3. QED
    BY <1>1, <1>3, <2>1, <2>2 DEF RoomFollows, Said
<1>4. CASE FinishWrite(note, to) /\ note.status = "review"
  <2>1. to.result = note.result /\ (to.status # "open" => to.worker = note.worker)
    BY <1>1, <1>4, FinishChanges
  <2>2. to.status = "done" => "verdict" \in owed'
    BY <1>1, <1>4 DEF Due
  <2>3. QED
    BY <1>1, <1>4, <2>1, <2>2 DEF RoomFollows, Said
<1>5. QED
  BY <1>1, <1>2, <1>3, <1>4, FinishChanges

\* What a process writes and what it goes by afterwards.
Outcome(a, new, won) ==
  /\ won = "claimed" => HeldBy(new, a)
  /\ won = "finished" =>
       /\ a \in Workers => new.worker = a /\ new.result = new.attempt
       /\ a \in Reviewers /\ new.status = "done" => new.reviewer = a

\* Both writes of a pass, however they end.
LEMMA CasKeeps ==
  ASSUME Inv, NEW a \in Agents, NEW new, NEW won \in {"claimed", "finished"},
         procs[a].pc \in {"seen", "working"},
         WriteIsLawful(procs[a].copy, new), Outcome(a, new, won),
         Cas(a, new, won), UNCHANGED room
  PROVE  Inv'
<1> DEFINE copy == procs[a].copy
<1>1. /\ procs \in [Agents -> Processes] /\ copy \in Task /\ note \in Task
      /\ \A b \in Agents : ProcessIsLawful(b)
  BY DEF Inv, TypeOK, Lawful, Processes
<1>2. new \in Task
  BY <1>1, ClaimChanges, FinishChanges DEF WriteIsLawful
<1>3. /\ mishaps' \in 0..MaxMishaps /\ room' \in [Kinds -> Event]
      /\ lapsed' \in BOOLEAN /\ owed' \in SUBSET Kinds
  <2>1. mishaps' \in 0..MaxMishaps
    BY QueueAssumption DEF Inv, TypeOK, Cas, Mishap
  <2>2. room' \in [Kinds -> Event] /\ lapsed' \in BOOLEAN
    BY DEF Inv, TypeOK, Cas, Apply
  <2>3. owed' \in SUBSET Kinds
    BY DEF Inv, TypeOK, Cas, Apply, Due, Kinds
  <2>4. QED
    BY <2>1, <2>2, <2>3
<1>4. ASSUME note = copy, Apply(new), Proc(a, won, new) \/ Proc(a, "idle", Blank), UNCHANGED late
      PROVE  Inv'
  <2>1. ClaimWrite(note, new) \/ FinishWrite(note, new)
    BY <1>4 DEF WriteIsLawful
  <2>2. note' = new /\ note' \in Task /\ Coherent(note)'
    BY <1>4, <2>1, ApplyAges DEF Apply
  <2>3. procs' \in [Agents -> Processes]
    BY <1>1, <1>2, <1>4, ProcChanges, BlankIsTask
  <2>4. ASSUME NEW b \in Agents
        PROVE  ProcessIsLawful(b)'
    <3>1. CASE b # a
      <4>1. procs'[b] = procs[b]
        BY <1>1, <1>4, <3>1, ProcChanges
      <4>2. QED
        BY <1>4, <2>1, <4>1, ApplyKeepsProcess
    <3>2. CASE b = a /\ procs'[a].pc = "idle"
      BY <3>2 DEF ProcessIsLawful
    <3>3. CASE b = a /\ procs'[a].pc = won /\ procs'[a].copy = new
      <4>1. Older(new)'
        BY <2>2 DEF Older, Task, Coherent
      <4>2. QED
        BY <2>2, <3>3, <4>1, QueueAssumption DEF ProcessIsLawful, Outcome, HeldBy
    <3>4. QED
      BY <1>1, <1>4, <3>1, <3>2, <3>3, ProcChanges
  <2>5. ASSUME NEW w \in late'
        PROVE  w.from \in Task /\ w.to \in Task /\ WriteIsLawful(w.from, w.to)'
    <3>1. w.from \in Task /\ w.to \in Task /\ WriteIsLawful(w.from, w.to)
      BY <1>4, <2>5 DEF Inv, TypeOK, Lawful
    <3>2. Older(w.from)' /\ w.from # note'
      BY <1>4, <2>1, <3>1, ApplyAges DEF WriteIsLawful
    <3>3. QED
      BY <3>1, <3>2 DEF WriteIsLawful, ClaimWrite, FinishWrite
  <2>6. RoomFollows'
    BY <1>4, <2>1, ApplyKeepsRoom
  <2>7. QED
    BY <1>3, <2>2, <2>3, <2>4, <2>5, <2>6 DEF Inv, TypeOK, Lawful
<1>5. ASSUME Proc(a, "idle", Blank), UNCHANGED <<note, lapsed, owed>>,
             late' \subseteq late \union {[from |-> copy, to |-> new]}
      PROVE  Inv'
  <2>1. procs' \in [Agents -> Processes]
    BY <1>1, <1>5, ProcChanges, BlankIsTask
  <2>2. ASSUME NEW b \in Agents
        PROVE  ProcessIsLawful(b)'
    <3>1. CASE b # a
      <4>1. procs'[b] = procs[b] /\ ProcessIsLawful(b)
        BY <1>1, <1>5, <3>1, ProcChanges
      <4>2. QED
        BY <1>5, <4>1 DEF ProcessIsLawful, Older, HeldBy, Unheld, Holder
    <3>2. CASE b = a
      BY <1>1, <1>5, <3>2, ProcChanges DEF ProcessIsLawful
    <3>3. QED
      BY <3>1, <3>2
  <2>3. ASSUME NEW w \in late'
        PROVE  w.from \in Task /\ w.to \in Task /\ WriteIsLawful(w.from, w.to)'
    <3>1. w.from \in Task /\ w.to \in Task /\ WriteIsLawful(w.from, w.to)
      <4>1. CASE w \in late
        BY <4>1 DEF Inv, TypeOK, Lawful
      <4>2. CASE w = [from |-> copy, to |-> new]
        BY <1>1, <1>2, <4>2
      <4>3. QED
        BY <1>5, <2>3, <4>1, <4>2
    <3>2. QED
      BY <1>5, <3>1 DEF WriteIsLawful, ClaimWrite, FinishWrite, Older, Unheld, Holder
  <2>4. Coherent(note)' /\ RoomFollows'
    BY <1>5 DEF Inv, Lawful, Coherent, RoomFollows, Said
  <2>5. note' \in Task
    BY <1>1, <1>5
  <2>6. QED
    BY <1>3, <2>1, <2>2, <2>3, <2>4, <2>5 DEF Inv, TypeOK, Lawful
<1>6. QED
  BY <1>4, <1>5 DEF Cas, Matches

\* What is read is what is there: of the steps that leave the note and the writes
\* under way as they are, only what the processes go by has to be looked at.
LEMMA NoteStays ==
  ASSUME Inv, UNCHANGED <<note, late>>, lapsed' \in {lapsed, TRUE},
         mishaps' \in 0..MaxMishaps, procs' \in [Agents -> Processes],
         room' \in [Kinds -> Event], owed' \in SUBSET Kinds, RoomFollows',
         \A b \in Agents : procs'[b] = procs[b] \/ ProcessIsLawful(b)'
  PROVE  Inv'
<1>1. Unheld => Unheld'
  BY DEF Inv, TypeOK, Unheld, Holder
<1>2. ASSUME NEW b \in Agents
      PROVE  ProcessIsLawful(b)'
  <2>1. CASE procs'[b] = procs[b]
    BY <1>1, <2>1 DEF Inv, Lawful, ProcessIsLawful, Older, HeldBy
  <2>2. QED
    BY <2>1
<1>3. ASSUME NEW w \in late
      PROVE  WriteIsLawful(w.from, w.to)'
  BY <1>1 DEF Inv, Lawful, WriteIsLawful, ClaimWrite, FinishWrite, Older
<1>4. Coherent(note)'
  BY DEF Inv, Lawful, Coherent
<1>5. QED
  BY <1>2, <1>3, <1>4 DEF Inv, TypeOK, Lawful

-----------------------------------------------------------------------------
(***************************************************************************)
(* The steps of an agent                                                   *)
(***************************************************************************)

LEMMA LookKeeps ==
  ASSUME Inv, NEW a \in Agents, Look(a)
  PROVE  Inv'
<1>1. /\ procs \in [Agents -> Processes] /\ note \in Task /\ Coherent(note)
      /\ UNCHANGED <<note, lapsed, late, room, owed, mishaps>>
  BY DEF Inv, TypeOK, Lawful, Look
<1>2. PICK pc \in {"seen", "off", "resumed"}, copy \in {note, Blank} :
        /\ Proc(a, pc, copy)
        /\ pc = "seen" => copy = note /\ Available(a) /\ ~Throws(a)
        /\ pc = "resumed" => copy = note /\ OwnClaim(a)
  BY DEF Look
<1>3. procs' \in [Agents -> Processes]
  BY <1>1, <1>2, ProcChanges, BlankIsTask
<1>4. Older(note)'
  BY <1>1 DEF Older, Task, Coherent
<1>5. ProcessIsLawful(a)'
  <2>1. CASE pc = "seen"
    <3>1. IF a \in Workers THEN note.status \in {"open", "running"} /\ note.attempt < MaxAttempts
                           ELSE note.status = "review"
      BY <1>1, <1>2, <2>1, QueueAssumption DEF Available, Throws, Task
    <3>2. Unheld'
      BY <1>1, <1>2, <2>1 DEF Available, Unheld, Holder
    <3>3. QED
      BY <1>1, <1>2, <1>4, <2>1, <3>1, <3>2, ProcChanges DEF ProcessIsLawful
  <2>2. CASE pc = "resumed"
    <3>1. HeldBy(note, a)
      BY <1>2, <2>2 DEF OwnClaim, HeldBy
    <3>2. QED
      BY <1>1, <1>2, <1>4, <2>2, <3>1, ProcChanges DEF ProcessIsLawful, HeldBy
  <2>3. CASE pc = "off"
    BY <1>1, <1>2, <2>3, ProcChanges DEF ProcessIsLawful
  <2>4. QED
    BY <2>1, <2>2, <2>3
<1>6. RoomFollows'
  BY <1>1 DEF Inv, Lawful, RoomFollows, Said
<1>7. \A b \in Agents : procs'[b] = procs[b] \/ b = a
  BY <1>1, <1>2, ProcChanges
<1>8. QED
  BY <1>1, <1>3, <1>5, <1>6, <1>7, NoteStays DEF Inv, TypeOK

LEMMA ClaimKeeps ==
  ASSUME Inv, NEW a \in Agents, Claim(a)
  PROVE  Inv'
<1> DEFINE copy == procs[a].copy
           new == IF a \in Workers THEN ClaimForWork(copy, a) ELSE ClaimForReview(copy, a)
<1>1. procs[a].pc = "seen" /\ Cas(a, new, "claimed") /\ UNCHANGED room
  BY DEF Claim
<1>2. copy \in Task /\ ProcessIsLawful(a)
  BY DEF Inv, TypeOK, Lawful, Processes
<1>3. a \in Workers \/ (a \notin Workers /\ a \in Reviewers)
  BY DEF Agents
<1>4. ClaimWrite(copy, new)
  BY <1>1, <1>2, <1>3 DEF ProcessIsLawful, ClaimWrite
<1>5. WriteIsLawful(copy, new)
  BY <1>1, <1>2, <1>4 DEF ProcessIsLawful, WriteIsLawful
<1>6. HeldBy(new, a)
  <2>1. CASE a \in Workers
    BY <1>2, <2>1 DEF HeldBy, ClaimForWork, Stamped, Task
  <2>2. CASE a \notin Workers
    BY <1>1, <1>2, <2>2 DEF ProcessIsLawful, HeldBy, ClaimForReview, Stamped, Task
  <2>3. QED
    BY <2>1, <2>2
<1>7. Outcome(a, new, "claimed")
  BY <1>6 DEF Outcome
<1>8. QED
  <2> HIDE DEF new
  <2>1. QED
    BY <1>1, <1>5, <1>7, CasKeeps

\* An event in the room: it is of its kind's present author, or it is late.
LEMMA SayKeeps ==
  ASSUME Inv, NEW kind \in Kinds, NEW event \in Event, Say(kind, event), UNCHANGED note,
         kind = "claim" /\ ~event.late /\ note.status # "open" => event.by = note.worker,
         kind = "result" /\ ~event.late /\ note.status \in {"review", "done", "failed"} =>
           event.by = note.worker /\ event.attempt = note.result,
         kind = "verdict" /\ ~event.late /\ note.status = "done" =>
           event.by = note.reviewer /\ event.attempt = note.result
  PROVE  room' \in [Kinds -> Event] /\ owed' \in SUBSET Kinds /\ RoomFollows'
<1>1. room \in [Kinds -> Event] /\ owed \in SUBSET Kinds
  BY DEF Inv, TypeOK
<1>2. /\ room' \in [Kinds -> Event] /\ owed' \in SUBSET Kinds
      /\ room'[kind] = event
      /\ \A k \in Kinds \ {kind} : room'[k] = room[k] /\ (k \in owed' <=> k \in owed)
  BY <1>1 DEF Say
<1>3. ASSUME NEW k \in Kinds \ {kind}, NEW did, Said(k, did)
      PROVE  Said(k, did)'
  BY <1>2, <1>3 DEF Said
<1>4. RoomFollows
  BY DEF Inv, Lawful
<1>5. note.status # "open" => Said("claim", note.worker)'
  BY <1>2, <1>3, <1>4 DEF RoomFollows, Said, Kinds
<1>6. note.status \in {"review", "done", "failed"} => Said("result", note.worker)'
  BY <1>2, <1>3, <1>4 DEF RoomFollows, Said, Kinds
<1>7. note.status = "done" /\ note.requires_review => Said("verdict", note.reviewer)'
  BY <1>2, <1>3, <1>4 DEF RoomFollows, Said, Kinds
<1>8. QED
  BY <1>2, <1>5, <1>6, <1>7 DEF RoomFollows, Said

LEMMA SayClaimKeeps ==
  ASSUME Inv, NEW a \in Agents, procs[a].pc \in {"claimed", "resumed"}, SayClaim(a), UNCHANGED note
  PROVE  room' \in [Kinds -> Event] /\ owed' \in SUBSET Kinds /\ RoomFollows'
<1> DEFINE copy == procs[a].copy
           event == [by |-> a, attempt |-> copy.attempt, late |-> note.attempt # copy.attempt]
<1>1. copy \in Task /\ ProcessIsLawful(a)
  BY DEF Inv, TypeOK, Lawful, Processes
<1>2. CASE a \in Workers
  <2>1. event \in Event
    BY <1>1 DEF Event, Task
  <2>2. event.late <=> note.attempt # copy.attempt
    OBVIOUS
  <2>3. ~event.late /\ note.status # "open" => event.by = note.worker
    BY <1>1, <1>2, <2>2 DEF ProcessIsLawful
  <2>4. Say("claim", event)
    BY <1>2 DEF SayClaim
  <2> HIDE DEF event
  <2>5. QED
    BY <2>1, <2>3, <2>4, SayKeeps DEF Kinds
<1>3. CASE a \notin Workers
  BY <1>3 DEF SayClaim, Inv, TypeOK, Lawful, RoomFollows, Said
<1>4. QED
  BY <1>2, <1>3

LEMMA AnnounceKeeps ==
  ASSUME Inv, NEW a \in Agents, Announce(a)
  PROVE  Inv'
<1>1. /\ procs \in [Agents -> Processes] /\ procs[a].copy \in Task /\ ProcessIsLawful(a)
      /\ mishaps \in 0..MaxMishaps /\ RoomFollows
  BY DEF Inv, TypeOK, Lawful, Processes
<1>2. /\ UNCHANGED <<note, lapsed, late>> /\ mishaps' \in 0..MaxMishaps
      /\ procs[a].pc \in {"claimed", "resumed"}
  BY <1>1, QueueAssumption DEF Announce, AnnounceOnce, AnnounceAgain, Mishap
<1>3. SayClaim(a) \/ UNCHANGED <<room, owed>>
  BY DEF Announce, AnnounceOnce, AnnounceAgain
<1>4. Proc(a, "working", procs[a].copy) \/ Proc(a, "idle", Blank)
  BY DEF Announce, AnnounceOnce, AnnounceAgain
<1>5. procs' \in [Agents -> Processes] /\ \A b \in Agents \ {a} : procs'[b] = procs[b]
  BY <1>1, <1>4, ProcChanges, BlankIsTask
<1>6. room' \in [Kinds -> Event] /\ owed' \in SUBSET Kinds /\ RoomFollows'
  <2>1. CASE SayClaim(a)
    BY <1>2, <2>1, SayClaimKeeps
  <2>2. CASE UNCHANGED <<room, owed>>
    BY <1>2, <2>2 DEF Inv, TypeOK, Lawful, RoomFollows, Said
  <2>3. QED
    BY <1>3, <2>1, <2>2
<1>7. ProcessIsLawful(a)'
  <2>1. CASE Proc(a, "working", procs[a].copy)
    BY <1>1, <1>2, <2>1, ProcChanges DEF ProcessIsLawful, Older, HeldBy
  <2>2. CASE Proc(a, "idle", Blank)
    BY <1>1, <2>2, ProcChanges DEF ProcessIsLawful
  <2>3. QED
    BY <1>4, <2>1, <2>2
<1>8. QED
  BY <1>2, <1>5, <1>6, <1>7, NoteStays

LEMMA FinishKeeps ==
  ASSUME Inv, NEW a \in Agents, Finish(a)
  PROVE  Inv'
<1> DEFINE copy == procs[a].copy
<1>1. procs[a].pc = "working" /\ UNCHANGED room
  BY DEF Finish
<1>2. copy \in Task /\ ProcessIsLawful(a)
  BY DEF Inv, TypeOK, Lawful, Processes
<1>3. a \in Workers \/ (a \notin Workers /\ a \in Reviewers)
  BY DEF Agents
<1>4. PICK new : /\ Cas(a, new, "finished")
                 /\ a \in Workers => new = SubmitResult(copy)
                 /\ a \notin Workers => new \in {ApproveTask(copy), RequestChanges(copy)}
  BY DEF Finish
<1>5. Older(copy) /\ HeldBy(copy, a)
  BY <1>1, <1>2 DEF ProcessIsLawful
<1>6. FinishWrite(copy, new)
  BY <1>3, <1>4, <1>5, QueueAssumption DEF FinishWrite, HeldBy, Agents
<1>7. WriteIsLawful(copy, new)
  BY <1>5, <1>6 DEF WriteIsLawful
<1>8. Outcome(a, new, "finished")
  <2>1. CASE a \in Workers
    BY <1>2, <1>5, <1>6, <2>1, FinishChanges, QueueAssumption DEF Outcome, HeldBy
  <2>2. CASE a \notin Workers
    BY <1>2, <1>5, <1>6, <2>2, FinishChanges DEF Outcome, HeldBy
  <2>3. QED
    BY <2>1, <2>2
<1>9. QED
  BY <1>1, <1>4, <1>7, <1>8, CasKeeps

LEMMA AttestKeeps ==
  ASSUME Inv, NEW a \in Agents, Attest(a)
  PROVE  Inv'
<1> DEFINE copy == procs[a].copy
           event == [by |-> a, attempt |-> copy.result, late |-> note.result # copy.result]
<1>1. /\ procs \in [Agents -> Processes] /\ copy \in Task /\ ProcessIsLawful(a) /\ Coherent(note)
      /\ mishaps \in 0..MaxMishaps
  BY DEF Inv, TypeOK, Lawful, Processes
<1>2. /\ procs[a].pc = "finished" /\ Proc(a, "idle", Blank)
      /\ UNCHANGED <<note, lapsed, late>> /\ mishaps' \in 0..MaxMishaps
      /\ SayFinished(a) \/ UNCHANGED <<room, owed>>
  BY <1>1, QueueAssumption DEF Attest, Mishap
<1>3. /\ procs' \in [Agents -> Processes] /\ ProcessIsLawful(a)'
      /\ \A b \in Agents \ {a} : procs'[b] = procs[b]
  BY <1>1, <1>2, ProcChanges, BlankIsTask DEF ProcessIsLawful
<1>4. room' \in [Kinds -> Event] /\ owed' \in SUBSET Kinds /\ RoomFollows'
  <2>1. event \in Event /\ event.by = a /\ event.attempt = copy.result
        /\ (event.late <=> note.result # copy.result)
    BY <1>1 DEF Event, Task
  <2>2. CASE UNCHANGED <<room, owed>>
    BY <1>2, <2>2 DEF Inv, TypeOK, Lawful, RoomFollows, Said
  <2>3. CASE SayFinished(a) /\ a \in Workers
    <3>1. Say("result", event)
      BY <2>3, QueueAssumption DEF SayFinished
    <3>2. ~event.late /\ note.status \in {"review", "done", "failed"} =>
            event.by = note.worker /\ event.attempt = note.result
      BY <1>1, <1>2, <2>1, <2>3 DEF ProcessIsLawful, Coherent
    <3> HIDE DEF event
    <3>3. QED
      BY <1>2, <2>1, <3>1, <3>2, SayKeeps DEF Kinds
  <2>4. CASE SayFinished(a) /\ a \notin Workers /\ copy.status = "done"
    <3>1. a \in Reviewers
      BY <2>4 DEF Agents
    <3>2. Say("verdict", event)
      BY <2>4, <3>1 DEF SayFinished
    <3>3. event.by = note.reviewer /\ event.attempt = note.result
      BY <1>1, <1>2, <2>1, <2>4, <3>1 DEF ProcessIsLawful
    <3> HIDE DEF event
    <3>4. QED
      BY <1>2, <2>1, <3>2, <3>3, SayKeeps DEF Kinds
  <2>5. CASE SayFinished(a) /\ a \notin Workers /\ copy.status # "done"
    <3>1. UNCHANGED <<room, owed>>
      BY <2>5 DEF SayFinished
    <3>2. QED
      BY <2>2, <3>1
  <2>6. QED
    BY <1>2, <2>2, <2>3, <2>4, <2>5
<1>5. QED
  BY <1>2, <1>3, <1>4, NoteStays

-----------------------------------------------------------------------------
(***************************************************************************)
(* The environment                                                         *)
(***************************************************************************)

LEMMA LandKeeps ==
  ASSUME Inv, NEW w \in late, Land(w)
  PROVE  Inv'
<1>1. /\ w.from \in Task /\ w.to \in Task /\ WriteIsLawful(w.from, w.to)
      /\ UNCHANGED <<procs, room, mishaps>> /\ late' = late \ {w}
  BY DEF Inv, TypeOK, Lawful, Land
<1>2. CASE note = w.from /\ Apply(w.to)
  <2>1. ClaimWrite(note, w.to) \/ FinishWrite(note, w.to)
    BY <1>1, <1>2 DEF WriteIsLawful
  <2>2. note' \in Task /\ Coherent(note)' /\ RoomFollows'
    BY <1>1, <1>2, <2>1, ApplyAges, ApplyKeepsRoom
  <2>3. \A b \in Agents : ProcessIsLawful(b)'
    BY <1>1, <1>2, <2>1, ApplyKeepsProcess
  <2>4. ASSUME NEW v \in late'
        PROVE  v.from \in Task /\ v.to \in Task /\ WriteIsLawful(v.from, v.to)'
    <3>1. v.from \in Task /\ v.to \in Task /\ WriteIsLawful(v.from, v.to)
      BY <1>1, <2>4 DEF Inv, TypeOK, Lawful
    <3>2. Older(v.from)' /\ v.from # note'
      BY <1>2, <2>1, <3>1, ApplyAges DEF WriteIsLawful
    <3>3. QED
      BY <3>1, <3>2 DEF WriteIsLawful, ClaimWrite, FinishWrite
  <2>5. lapsed' \in BOOLEAN /\ owed' \in SUBSET Kinds
    BY <1>2 DEF Inv, TypeOK, Apply, Due, Kinds
  <2>6. QED
    BY <1>1, <2>2, <2>3, <2>4, <2>5 DEF Inv, TypeOK, Lawful
<1>3. CASE UNCHANGED <<note, lapsed, owed>>
  <2>1. \A b \in Agents : ProcessIsLawful(b)'
    BY <1>1, <1>3 DEF Inv, Lawful, ProcessIsLawful, Older, HeldBy, Unheld, Holder
  <2>2. ASSUME NEW v \in late'
        PROVE  v.from \in Task /\ v.to \in Task /\ WriteIsLawful(v.from, v.to)'
    <3>1. v.from \in Task /\ v.to \in Task /\ WriteIsLawful(v.from, v.to)
      BY <1>1, <2>2 DEF Inv, TypeOK, Lawful
    <3>2. QED
      BY <1>3, <3>1 DEF WriteIsLawful, ClaimWrite, FinishWrite, Older, Unheld, Holder
  <2>3. Coherent(note)' /\ RoomFollows'
    BY <1>1, <1>3 DEF Inv, Lawful, Coherent, RoomFollows, Said
  <2>4. QED
    BY <1>1, <1>3, <2>1, <2>2, <2>3 DEF Inv, TypeOK, Lawful
<1>4. QED
  BY <1>2, <1>3 DEF Land, Matches

LEMMA LapseKeeps ==
  ASSUME Inv, Lapse
  PROVE  Inv'
<1>1. /\ UNCHANGED <<note, late, procs, room, owed>> /\ lapsed' = TRUE
      /\ procs \in [Agents -> Processes] /\ room \in [Kinds -> Event] /\ owed \in SUBSET Kinds
      /\ mishaps' \in 0..MaxMishaps
  BY QueueAssumption DEF Inv, TypeOK, Lapse, Mishap
<1>2. RoomFollows'
  BY <1>1 DEF Inv, Lawful, RoomFollows, Said
<1>3. QED
  BY <1>1, <1>2, NoteStays

\* A process is killed or started.
LEMMA StopKeeps ==
  ASSUME Inv, NEW a \in Agents, Stop(a) \/ Boot(a)
  PROVE  Inv'
<1>1. /\ UNCHANGED <<note, lapsed, late, room, owed>>
      /\ procs \in [Agents -> Processes] /\ room \in [Kinds -> Event] /\ owed \in SUBSET Kinds
      /\ mishaps' \in 0..MaxMishaps
  BY QueueAssumption DEF Inv, TypeOK, Stop, Boot, Mishap
<1>2. PICK pc \in {"off", "idle"} : Proc(a, pc, Blank)
  BY DEF Stop, Boot
<1>3. /\ procs' \in [Agents -> Processes] /\ ProcessIsLawful(a)'
      /\ \A b \in Agents \ {a} : procs'[b] = procs[b]
  BY <1>1, <1>2, ProcChanges, BlankIsTask DEF ProcessIsLawful
<1>4. RoomFollows'
  BY <1>1 DEF Inv, Lawful, RoomFollows, Said
<1>5. QED
  BY <1>1, <1>3, <1>4, NoteStays

-----------------------------------------------------------------------------

LEMMA InitIsLawful == Init => Inv
<1>1. SUFFICES ASSUME Init PROVE Inv
  OBVIOUS
<1>2. note \in Task /\ note.status = "open"
  BY <1>1, QueueAssumption DEF Init, Created, Task
<1>3. procs \in [Agents -> Processes] /\ \A a \in Agents : procs[a].pc = "off"
  BY <1>1, BlankIsTask DEF Init, Processes
<1>4. room \in [Kinds -> Event]
  BY <1>1, QueueAssumption DEF Init, Event, Unsaid
<1>5. \A a \in Agents : ProcessIsLawful(a)
  BY <1>3, IdleIsLawful
<1>6. Coherent(note) /\ RoomFollows
  BY <1>2 DEF Coherent, RoomFollows
<1>7. mishaps \in 0..MaxMishaps
  BY <1>1, QueueAssumption DEF Init
<1>8. QED
  BY <1>1, <1>2, <1>3, <1>4, <1>5, <1>6, <1>7 DEF Init, Inv, TypeOK, Lawful

LEMMA StepIsLawful ==
  ASSUME Inv, [Next]_vars
  PROVE  Inv'
<1>1. CASE \E a \in Agents : Agent(a) \/ Stop(a) \/ Boot(a)
  BY <1>1, LookKeeps, ClaimKeeps, AnnounceKeeps, FinishKeeps, AttestKeeps, StopKeeps DEF Agent
<1>2. CASE \E w \in late : Land(w)
  BY <1>2, LandKeeps
<1>3. CASE Lapse
  BY <1>3, LapseKeeps
<1>4. CASE UNCHANGED vars
  <2>1. /\ UNCHANGED <<note, late, lapsed, procs, room, owed, mishaps>>
        /\ procs \in [Agents -> Processes] /\ room \in [Kinds -> Event] /\ owed \in SUBSET Kinds
        /\ mishaps \in 0..MaxMishaps
    BY <1>4 DEF vars, Inv, TypeOK
  <2>2. RoomFollows'
    BY <2>1 DEF Inv, Lawful, RoomFollows, Said
  <2>3. QED
    BY <2>1, <2>2, NoteStays
<1>5. QED
  BY <1>1, <1>2, <1>3, <1>4 DEF Next

\* The agents' loops keep every field in its range, attempts among them: nobody
\* claims beyond max_attempts, from however old a copy.
THEOREM QueueTypeCorrect == Spec => []TypeOK
<1>1. Inv /\ [Next]_vars => Inv'
  BY StepIsLawful
<1>2. Inv => TypeOK
  BY DEF Inv
<1>3. QED
  BY InitIsLawful, <1>1, <1>2, PTL DEF Spec

\* The inductive invariant: what processes and late writes go by is the note or
\* older, a claim that would still be applied takes the task from nobody, and the
\* room's events are about the note, owed or late.
THEOREM LawfulCorrect == Spec => []Lawful
<1>1. Inv /\ [Next]_vars => Inv'
  BY StepIsLawful
<1>2. Inv => Lawful
  BY DEF Inv
<1>3. QED
  BY InitIsLawful, <1>1, <1>2, PTL DEF Spec

-----------------------------------------------------------------------------
(***************************************************************************)
(* What follows                                                            *)
(***************************************************************************)

\* The note changes by lawful writes only, and by a claim only if nobody has one.
LEMMA NoteChanges ==
  ASSUME Inv, [Next]_vars, note' # note
  PROVE  \/ ClaimWrite(note, note') /\ Unheld
         \/ FinishWrite(note, note')
<1>1. ASSUME NEW from, NEW to, WriteIsLawful(from, to), note = from, note' = to
      PROVE  (ClaimWrite(note, note') /\ Unheld) \/ FinishWrite(note, note')
  BY <1>1 DEF WriteIsLawful
<1>2. ASSUME NEW w \in late, Land(w)
      PROVE  (ClaimWrite(note, note') /\ Unheld) \/ FinishWrite(note, note')
  BY <1>1, <1>2 DEF Inv, Lawful, Land, Matches, Apply
<1>3. ASSUME NEW a \in Agents, NEW new, NEW won, Cas(a, new, won), WriteIsLawful(procs[a].copy, new)
      PROVE  (ClaimWrite(note, note') /\ Unheld) \/ FinishWrite(note, note')
  BY <1>1, <1>3 DEF Cas, Matches, Apply
<1>4. ASSUME NEW a \in Agents, Claim(a)
      PROVE  (ClaimWrite(note, note') /\ Unheld) \/ FinishWrite(note, note')
  <2>1. ProcessIsLawful(a) /\ procs[a].pc = "seen"
    BY <1>4 DEF Inv, Lawful, Claim
  <2>2. PICK new : /\ Cas(a, new, "claimed")
                   /\ a \in Workers => new = ClaimForWork(procs[a].copy, a)
                   /\ a \notin Workers => new = ClaimForReview(procs[a].copy, a)
    BY <1>4 DEF Claim
  <2>3. WriteIsLawful(procs[a].copy, new)
    BY <2>1, <2>2 DEF ProcessIsLawful, WriteIsLawful, ClaimWrite, Agents
  <2>4. QED
    BY <1>3, <2>2, <2>3
<1>5. ASSUME NEW a \in Agents, Finish(a)
      PROVE  (ClaimWrite(note, note') /\ Unheld) \/ FinishWrite(note, note')
  <2>1. ProcessIsLawful(a) /\ procs[a].pc = "working"
    BY <1>5 DEF Inv, Lawful, Finish
  <2>2. PICK new : /\ Cas(a, new, "finished")
                   /\ a \in Workers => new = SubmitResult(procs[a].copy)
                   /\ a \notin Workers => new \in {ApproveTask(procs[a].copy), RequestChanges(procs[a].copy)}
    BY <1>5 DEF Finish
  <2>3. WriteIsLawful(procs[a].copy, new)
    BY <2>1, <2>2, QueueAssumption DEF ProcessIsLawful, WriteIsLawful, FinishWrite, HeldBy, Agents
  <2>4. QED
    BY <1>3, <2>2, <2>3
<1>6. \A a \in Agents : ~(Look(a) \/ Announce(a) \/ Attest(a) \/ Stop(a) \/ Boot(a))
  BY DEF Look, Announce, AnnounceOnce, AnnounceAgain, Attest, Stop, Boot
<1>7. ~Lapse /\ ~UNCHANGED vars
  BY DEF Lapse, vars
<1>8. QED
  BY <1>2, <1>4, <1>5, <1>6, <1>7 DEF Next, Agent

\* With stale copies, lost answers, writes that land late and leases that lapse under
\* an agent at work, the note goes through what the queue promises and nothing else.
THEOREM QueueKeepsPromise == Spec => Implements
<1>1. Init => Promise!Init
  BY DEF Init, Created, Promise!Init
<1>2. Inv /\ [Next]_vars => [Promise!Next]_(Promise!vars)
  <2>1. SUFFICES ASSUME Inv, [Next]_vars, note' # note
                 PROVE  Promise!Next \/ UNCHANGED Promise!vars
    BY DEF Promise!vars
  <2>2. note \in Task /\ Coherent(note)
    BY <2>1 DEF Inv, TypeOK, Lawful
  <2>3. CASE ClaimWrite(note, note') /\ note'.status = "running"
    <3>1. Promise!Begin(note'.worker) /\ note'.worker \in Workers
      BY <2>2, <2>3, ClaimChanges DEF Promise!Begin
    <3>2. QED
      BY <3>1 DEF Promise!Next
  <2>4. CASE ClaimWrite(note, note') /\ note'.status = "review"
    BY <2>2, <2>4, ClaimChanges DEF Promise!vars
  <2>5. CASE FinishWrite(note, note') /\ note.status = "running"
    <3>1. Promise!Deliver
      BY <2>2, <2>5, FinishChanges DEF Promise!Deliver
    <3>2. QED
      BY <3>1 DEF Promise!Next
  <2>6. CASE FinishWrite(note, note') /\ note.status = "review"
    <3>1. note.result = note.attempt
      BY <2>2, <2>6 DEF Coherent
    <3>2. CASE note'.status = "done"
      BY <2>2, <2>6, <3>1, <3>2, FinishChanges DEF Promise!Accept, Promise!Next
    <3>3. CASE note'.status # "done"
      <4>1. note.attempt \in Nat
        BY <2>2, QueueAssumption DEF Task
      <4>2. Promise!SendBack
        BY <2>2, <2>6, <3>1, <3>3, <4>1, QueueAssumption, FinishChanges DEF Promise!SendBack
      <4>3. QED
        BY <4>2 DEF Promise!Next
    <3>4. QED
      BY <3>2, <3>3
  <2>7. QED
    BY <2>1, <2>2, <2>3, <2>4, <2>5, <2>6, NoteChanges, ClaimChanges, FinishChanges
<1>3. Inv /\ [Next]_vars => Inv'
  BY StepIsLawful
<1>4. QED
  BY InitIsLawful, <1>1, <1>2, <1>3, PTL DEF Spec, Implements, Promise!Spec

\* While a lease is live the note changes only to its holder's result or verdict.
THEOREM LiveClaimKept == Spec => LiveClaimIsKept
<1>1. Inv /\ [Next]_vars =>
        [note' # note /\ Holder # None /\ ~lapsed =>
           /\ note'.status # note.status
           /\ IF note.status = "running"
                THEN note'.worker = note.worker /\ note'.result = note.attempt
                ELSE note'.reviewer = note.reviewer /\ note'.result = note.result]_vars
  <2>1. SUFFICES ASSUME Inv, [Next]_vars, note' # note, Holder # None, ~lapsed
                 PROVE  /\ note'.status # note.status
                        /\ IF note.status = "running"
                             THEN note'.worker = note.worker /\ note'.result = note.attempt
                             ELSE note'.reviewer = note.reviewer /\ note'.result = note.result
    OBVIOUS
  <2>2. FinishWrite(note, note')
    BY <2>1, NoteChanges DEF Unheld
  <2>3. note \in Task
    BY <2>1 DEF Inv, TypeOK
  <2>4. QED
    BY <2>2, <2>3, FinishChanges
<1>2. Inv /\ [Next]_vars => Inv'
  BY StepIsLawful
<1>3. QED
  BY InitIsLawful, <1>1, <1>2, PTL DEF Spec, LiveClaimIsKept

\* What honest agents finish is not reported as altered (analyzeIntegrity).
THEOREM AttestedCorrect == Spec => []DoneIsAttested
<1>1. Inv => DoneIsAttested
  <2>1. SUFFICES ASSUME Inv, note.status = "done", owed = {}, \A k \in Kinds : ~room[k].late
                 PROVE  \A k \in DOMAIN Integrity : Integrity[k] \in {"valid", "not_applicable"}
    BY DEF DoneIsAttested
  <2>2. /\ note.worker # None
        /\ room["claim"].by = note.worker
        /\ room["result"].by = note.worker /\ room["result"].attempt = note.result
        /\ note.requires_review => note.reviewer # None
        /\ note.requires_review => room["verdict"].by = note.reviewer /\ room["verdict"].attempt = note.result
    BY <2>1 DEF Inv, Lawful, Coherent, RoomFollows, Said, Kinds
  <2>3. QED
    BY <2>1, <2>2 DEF Integrity, Judged, Unsaid
<1>2. Inv /\ [Next]_vars => Inv'
  BY StepIsLawful
<1>3. QED
  BY InitIsLawful, <1>1, <1>2, PTL DEF Spec
==============================================================================
