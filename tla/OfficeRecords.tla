------------------------------ MODULE OfficeRecords ------------------------------
(***************************************************************************)
(* An office's records and the anchor that tells whether they were altered *)
(* (apps/web/lib/technocore-integrity.ts, with the routes that hire, edit  *)
(* and fire employees, make workflows and tasks, and confirm or repair the *)
(* office).  A record lies in a Technocore note that anybody can write;    *)
(* the database keeps the exact bytes the office has authorised.           *)
(*                                                                         *)
(* Requests run concurrently.  A request is cut where it waits for         *)
(* Technocore or for a cipher, so a step ends with what is read at that    *)
(* moment; the row a check compares with is read before the note.          *)
(*                                                                         *)
(* Data kept abstract:                                                     *)
(*  - one employee, a workflow of that employee and a task of that         *)
(*    workflow; a version of a record is numbered; a stranger writes its   *)
(*    own version and never one of the office's again, and strangers'      *)
(*    versions are all alike; HMAC tags always match;                      *)
(*  - the content of a version is whether the employee is fired, and       *)
(*    whether a stranger wrote what it was made from: an edit keeps the     *)
(*    fields it does not name;                                             *)
(*  - a write without an answer is applied or not by the time it is looked *)
(*    at again (late writes are OfficeRuntime's).                          *)
(***************************************************************************)
EXTENDS Integers, FiniteSets

CONSTANTS
  Slots,         \* requests that may run at a time
  MaxActs,       \* bound: requests other than bootstraps and repairs
  MaxForeign,    \* bound: writes by strangers
  MaxMishaps     \* bound: lost requests or answers, and restarts

ASSUME RecordsAssumption == {MaxActs, MaxForeign, MaxMishaps} \subseteq Nat

VARIABLES
  note,       \* the store, by kind
  anchor,     \* trusted_technocore_records, by kind
  flagged,    \* kinds with compromised_at
  hosted,     \* the employee's row: "none", "active" or "archived"
  audited,    \* kinds whose creation is in the audit log
  office,     \* integrity_initialized_at, integrity_confirmed_at, and whether a repair has begun
  reqs,       \* the requests
  acts, foreign, mishaps

recordVars == <<note, anchor, flagged, hosted, audited, office, reqs, acts, foreign, mishaps>>

Kinds == {"agent", "workflow", "task"}

\* The order in which records are made, imported and repaired.
Rank(k) == CASE k = "agent" -> 1 [] k = "workflow" -> 2 [] k = "task" -> 3

Value == [n : Nat, by : {"nobody", "office", "stranger"}, fired : BOOLEAN]

Absent == [n |-> 0, by |-> "nobody", fired |-> FALSE]
Foreign == [n |-> 0, by |-> "stranger", fired |-> FALSE]
Made == [n |-> 1, by |-> "office", fired |-> FALSE]

\* A request: what it does, where it is, the record it is at, what it compares the
\* note with, what it writes, the note it has seen, the rows it has read, and the
\* records it has still to do.
Request ==
  [op : {"none", "bootstrap", "confirm", "repair", "hire", "plan", "order", "edit", "fire",
         "work", "refused"},
   pc : {"idle", "import", "verify", "reverify", "write", "trust", "seal",
         "look", "put", "check", "settle"},
   key : Kinds, expected : Value, next : Value,
   rows : [Kinds -> Value], todo : SUBSET Kinds]

NoRows == [k \in Kinds |-> Absent]

Free == [op |-> "none", pc |-> "idle", key |-> "agent", expected |-> Absent, next |-> Absent,
         rows |-> NoRows, todo |-> {}]

TypeOK ==
  /\ note \in [Kinds -> Value]
  /\ anchor \in [Kinds -> Value]
  /\ flagged \subseteq {k \in Kinds : anchor[k] # Absent}
  /\ hosted \in {"none", "active", "archived"}
  /\ audited \subseteq Kinds
  /\ office \in [initialized : BOOLEAN, confirmed : BOOLEAN, repaired : BOOLEAN]
  /\ reqs \in [Slots -> Request]
  /\ acts \in 0..MaxActs /\ foreign \in 0..MaxForeign /\ mishaps \in 0..MaxMishaps

\* POST workspaces makes an office that is initialised and confirmed; one that is
\* older than the anchor has records and neither mark.
Init ==
  /\ \/ /\ note = NoRows /\ hosted = "none" /\ audited = {}
        /\ office = [initialized |-> TRUE, confirmed |-> TRUE, repaired |-> FALSE]
     \/ /\ note = [k \in Kinds |-> Made] /\ hosted = "active" /\ audited = Kinds
        /\ office = [initialized |-> FALSE, confirmed |-> FALSE, repaired |-> FALSE]
  /\ anchor = NoRows /\ flagged = {}
  /\ reqs = [r \in Slots |-> Free]
  /\ acts = 0 /\ foreign = 0 /\ mishaps = 0

Act == acts < MaxActs /\ acts' = acts + 1
Mishap == mishaps < MaxMishaps /\ mishaps' = mishaps + 1

-----------------------------------------------------------------------------

Goes(r, req) == reqs' = [reqs EXCEPT ![r] = req]
Ends(r) == Goes(r, Free)

Rows == {k \in Kinds : anchor[k] # Absent}

\* The record of S that comes first; S is not empty.
FirstOf(S) == CHOOSE k \in S : \A j \in S : Rank(k) <= Rank(j)

\* trustTechnocoreRecord
Trust(k, value) ==
  /\ anchor' = [anchor EXCEPT ![k] = value]
  /\ flagged' = flagged \ {k}

\* markCompromised
Flag(k) == flagged' = flagged \union {k}

Unwritten == <<note, anchor, hosted, audited, office, foreign>>

-----------------------------------------------------------------------------
(***************************************************************************)
(* Bootstrap of an upgraded office (bootstrapWorkspace)                    *)
(***************************************************************************)

\* A mutant: requests do not wait for a bootstrap that runs.
UnlockedAnyway == TRUE

\* bootstrapLocks: requests that find a bootstrap wait for it.
Unlocked == \A r \in Slots : reqs[r].op # "bootstrap"

\* The records the database knows of.
Known == {k \in Kinds : IF k = "agent" THEN hosted # "none" ELSE k \in audited}

BeginBootstrap(r) ==
  /\ reqs[r] = Free
  /\ ~office.initialized /\ Unlocked
  /\ Goes(r, [Free EXCEPT !.op = "bootstrap", !.pc = "import", !.todo = Known])
  /\ UNCHANGED <<flagged, acts, mishaps, Unwritten>>

\* A note fits if the records it names are imported, and always does if no stranger
\* had a hand in them.
Importable(req, k) == note[k] # Absent /\ \A j \in Kinds : Rank(j) < Rank(k) => req.rows[j] # Absent

Sound(req, k) ==
  note[k].by = "office" /\ \A j \in Kinds : Rank(j) < Rank(k) => req.rows[j].by = "office"

\* What the store has now is trusted if it fits: strangers' versions may.  One that
\* does not, or that cannot be read just now, is skipped for ever.
Import(r) ==
  /\ reqs[r].pc = "import" /\ reqs[r].todo # {}
  /\ LET req  == reqs[r]
         k    == FirstOf(req.todo)
         done == [req EXCEPT !.todo = @ \ {k}]
     IN
       \/ /\ Importable(req, k)
          /\ Trust(k, note[k])
          /\ Goes(r, [done EXCEPT !.rows[k] = note[k]])
          /\ UNCHANGED mishaps
       \/ /\ Goes(r, done)
          /\ IF Sound(req, k) THEN Mishap ELSE UNCHANGED mishaps
          /\ UNCHANGED <<anchor, flagged>>
  /\ UNCHANGED <<note, hosted, audited, office, acts, foreign>>

EndBootstrap(r) ==
  /\ reqs[r].pc = "import" /\ reqs[r].todo = {}
  /\ office' = [office EXCEPT !.initialized = TRUE]
  /\ Ends(r)
  /\ UNCHANGED <<note, anchor, flagged, hosted, audited, acts, foreign, mishaps>>

-----------------------------------------------------------------------------
(***************************************************************************)
(* Checks (verifiedRecord, verifiedRecords)                                *)
(***************************************************************************)

\* A mutant: a record that has no row is compared like the others.
BeginAnyway(r, op, key, needs) ==
  /\ reqs[r] = Free
  /\ office.initialized
  /\ Act
  /\ Goes(r, [Free EXCEPT !.op = op, !.pc = "verify", !.key = key,
                !.rows = [k \in Kinds |-> IF k \in needs THEN anchor[k] ELSE Absent], !.todo = needs])
  /\ UNCHANGED <<flagged, mishaps, Unwritten>>

\* A request that first checks the records of `needs`, all at once.
Begin(r, op, key, needs) ==
  /\ reqs[r] = Free
  /\ office.initialized
  /\ Act
  /\ needs \subseteq Rows
  /\ Goes(r, [Free EXCEPT !.op = op, !.pc = "verify", !.key = key,
                !.rows = [k \in Kinds |-> IF k \in needs THEN anchor[k] ELSE Absent], !.todo = needs])
  /\ UNCHANGED <<flagged, mishaps, Unwritten>>

BeginConfirm(r) == ~office.confirmed /\ Begin(r, "confirm", "agent", Rows)

BeginEdit(r) == hosted = "active" /\ Begin(r, "edit", "agent", {"agent"})

BeginFire(r) == hosted = "active" /\ Begin(r, "fire", "agent", {"agent"})

\* The scheduler, about to move the task on. It needs the employee, too.
BeginWork(r) == office.confirmed /\ Begin(r, "work", "task", {"agent", "task"})

Creates(op) == op \in {"hire", "plan", "order"}

\* Every record is made under an identifier of its own, so no two requests make the same.
Unmade(key, op) ==
  note[key] = Absent /\ anchor[key] = Absent /\ \A r \in Slots : reqs[r].op # op

BeginPlan(r) ==
  /\ office.confirmed /\ Unmade("workflow", "plan")
  /\ Begin(r, "plan", "workflow", {"agent"})

BeginOrder(r) ==
  /\ office.confirmed /\ Unmade("task", "order")
  /\ Begin(r, "order", "task", {"agent", "workflow"})

BeginHire(r) ==
  /\ hosted = "none" /\ Unmade("agent", "hire")
  /\ Begin(r, "hire", "agent", {})

\* One of the notes is read and compared. The others are still looked at if it is wrong.
Verify(r) ==
  /\ reqs[r].pc = "verify" /\ reqs[r].todo # {}
  /\ \E k \in reqs[r].todo :
       LET done == [reqs[r] EXCEPT !.todo = @ \ {k}] IN
       IF note[k] = reqs[r].rows[k]
         THEN Goes(r, done) /\ UNCHANGED flagged
         ELSE Flag(k) /\ Goes(r, [done EXCEPT !.op = "refused"])
  /\ UNCHANGED <<acts, mishaps, Unwritten>>

\* All of them have been. An update goes on from the version it has read, and
\* replaceTrustedRecord looks at the row again, the scheduler does not. A fired employee
\* gets no orders.
Verified(r) ==
  LET req  == reqs[r]
      old  == req.rows[req.key]
      done == [req EXCEPT !.rows = NoRows]
  IN
  /\ req.pc = "verify" /\ req.todo = {}
  /\ office' = [office EXCEPT !.confirmed = @ \/ req.op = "confirm"]
  /\ \/ /\ \/ req.op \in {"confirm", "refused"}
           \/ req.op = "order" /\ req.rows["agent"].fired
        /\ Ends(r)
     \/ /\ req.op \in {"edit", "fire"}
        /\ Goes(r, [done EXCEPT !.pc = "reverify", !.expected = anchor[req.key],
                      !.next = [old EXCEPT !.n = anchor[req.key].n + 1,
                                           !.fired = @ \/ req.op = "fire"]])
     \/ /\ req.op = "work"
        /\ Goes(r, [done EXCEPT !.pc = "write", !.expected = old, !.next = [old EXCEPT !.n = @ + 1]])
     \/ /\ Creates(req.op)
        /\ ~(req.op = "order" /\ req.rows["agent"].fired)
        /\ Goes(r, [done EXCEPT !.pc = "write", !.next = Made])
  /\ UNCHANGED <<note, anchor, flagged, hosted, audited, acts, foreign, mishaps>>

\* replaceTrustedRecord checks the note again before it writes.
Reverify(r) ==
  /\ reqs[r].pc = "reverify"
  /\ IF note[reqs[r].key] = reqs[r].expected
       THEN Goes(r, [reqs[r] EXCEPT !.pc = "write"]) /\ UNCHANGED flagged
       ELSE Flag(reqs[r].key) /\ Ends(r)
  /\ UNCHANGED <<acts, mishaps, Unwritten>>

-----------------------------------------------------------------------------
(***************************************************************************)
(* Writes (compareAndSetNote, setNoteIfAbsent)                             *)
(***************************************************************************)

\* A mutant: the note is written whatever it holds.
FitsAlways(req) == TRUE

Fits(req) == note[req.key] = req.expected

\* The write, and after an error the look at what has become of it. A conflict is
\* taken for tampering by replaceTrustedRecord, and for a lost race by cas.
Write(r) ==
  LET req == reqs[r] IN
  /\ req.pc = "write"
  /\ \/ /\ Fits(req)
        /\ note' = [note EXCEPT ![req.key] = req.next]
        /\ Goes(r, [req EXCEPT !.pc = "trust"])
        /\ UNCHANGED <<flagged, mishaps>>
     \/ /\ ~Fits(req)
        /\ IF req.op \in {"edit", "fire"} THEN Flag(req.key) ELSE UNCHANGED flagged
        /\ Ends(r)
        /\ UNCHANGED <<note, mishaps>>
     \/ /\ Mishap   \* not applied, or applied and never known
        /\ note' \in {note, IF Fits(req) THEN [note EXCEPT ![req.key] = req.next] ELSE note}
        /\ Ends(r)
        /\ UNCHANGED flagged
  /\ UNCHANGED <<anchor, hosted, audited, office, acts, foreign>>

\* The answer is here. A hire goes on to encrypt the key; the others are done, but a
\* dismissal may be cut short before its row is archived.
TrustWritten(r) ==
  LET req == reqs[r] IN
  /\ req.pc = "trust"
  /\ Trust(req.key, req.next)
  /\ IF req.op = "hire" THEN Goes(r, [req EXCEPT !.pc = "seal"]) ELSE Ends(r)
  /\ audited' = IF req.op \in {"plan", "order"} THEN audited \union {req.key} ELSE audited
  /\ \/ hosted' = (IF req.op = "fire" THEN "archived" ELSE hosted) /\ UNCHANGED mishaps
     \/ req.op = "fire" /\ Mishap /\ UNCHANGED hosted
  /\ UNCHANGED <<note, office, acts, foreign>>

\* INSERT INTO hosted_agents
Seal(r) ==
  /\ reqs[r].pc = "seal"
  /\ hosted' = "active"
  /\ audited' = audited \union {"agent"}
  /\ Ends(r)
  /\ UNCHANGED <<note, anchor, flagged, office, acts, foreign, mishaps>>

-----------------------------------------------------------------------------
(***************************************************************************)
(* Repair (repairWorkspaceIntegrity)                                       *)
(***************************************************************************)

BeginRepair(r) ==
  /\ reqs[r] = Free
  /\ office.initialized /\ Rows # {}
  /\ \A s \in Slots : reqs[s].op # "repair"
  /\ Goes(r, [Free EXCEPT !.op = "repair", !.pc = "look", !.key = FirstOf(Rows),
                !.rows = anchor, !.todo = Rows])
  /\ office' = [office EXCEPT !.repaired = TRUE]
  /\ UNCHANGED <<note, anchor, flagged, hosted, audited, acts, foreign, mishaps>>

\* A mutant: a note that is gone is not put back.
RepairLookPresent(r) ==
  LET req == reqs[r] IN
  /\ req.pc = "look"
  /\ Goes(r, IF note[req.key] \in {Absent, req.rows[req.key]}
               THEN [req EXCEPT !.pc = "check"]
               ELSE [req EXCEPT !.pc = "put", !.expected = note[req.key]])
  /\ UNCHANGED <<flagged, acts, mishaps, Unwritten>>

\* The note of the next row is read.
RepairLook(r) ==
  LET req == reqs[r] IN
  /\ req.pc = "look"
  /\ Goes(r, IF note[req.key] = req.rows[req.key]
               THEN [req EXCEPT !.pc = "check"]
               ELSE [req EXCEPT !.pc = "put", !.expected = note[req.key]])
  /\ UNCHANGED <<flagged, acts, mishaps, Unwritten>>

\* The row's version is put over the one that was read.
RepairPut(r) ==
  LET req == reqs[r] IN
  /\ req.pc = "put"
  /\ IF Fits(req)
       THEN /\ note' = [note EXCEPT ![req.key] = req.rows[req.key]]
            /\ \/ Goes(r, [req EXCEPT !.pc = "check"]) /\ UNCHANGED mishaps
               \/ Mishap /\ Ends(r)
       ELSE Ends(r) /\ UNCHANGED <<note, mishaps>>
  /\ UNCHANGED <<anchor, flagged, hosted, audited, office, acts, foreign>>

\* The note is read once more.
RepairCheck(r) ==
  LET req == reqs[r] IN
  /\ req.pc = "check"
  /\ IF note[req.key] = req.rows[req.key] THEN Goes(r, [req EXCEPT !.pc = "settle"]) ELSE Ends(r)
  /\ UNCHANGED <<flagged, acts, mishaps, Unwritten>>

\* The row is written again as it was read when the repair began.
RepairSettle(r) ==
  LET req  == reqs[r]
      rest == req.todo \ {req.key}
  IN
  /\ req.pc = "settle"
  /\ Trust(req.key, req.rows[req.key])
  /\ IF rest = {} THEN Ends(r)
     ELSE Goes(r, [req EXCEPT !.pc = "look", !.key = FirstOf(rest), !.todo = rest,
                          !.rows[req.key] = Absent, !.expected = Absent])
  /\ UNCHANGED <<note, hosted, audited, office, acts, foreign, mishaps>>

-----------------------------------------------------------------------------
(***************************************************************************)
(* The world                                                               *)
(***************************************************************************)

\* A stranger writes a note, or Technocore loses it.
Tamper(k) ==
  /\ foreign < MaxForeign
  /\ foreign' = foreign + 1
  /\ note[k] # Absent
  /\ note' \in {[note EXCEPT ![k] = Foreign], [note EXCEPT ![k] = Absent]}
  /\ UNCHANGED <<anchor, flagged, hosted, audited, office, reqs, acts, mishaps>>

\* The server restarts, and every request ends where it is.
Restart ==
  /\ Mishap
  /\ \E r \in Slots : reqs[r] # Free
  /\ reqs' = [r \in Slots |-> Free]
  /\ UNCHANGED <<flagged, acts, Unwritten>>

-----------------------------------------------------------------------------

Begins(r) ==
  \/ BeginConfirm(r) \/ BeginHire(r) \/ BeginEdit(r) \/ BeginFire(r)
  \/ BeginPlan(r) \/ BeginOrder(r) \/ BeginWork(r)

Proceeds(r) ==
  \/ Import(r) \/ EndBootstrap(r)
  \/ Verify(r) \/ Verified(r) \/ Reverify(r) \/ Write(r) \/ TrustWritten(r) \/ Seal(r)
  \/ RepairLook(r) \/ RepairPut(r) \/ RepairCheck(r) \/ RepairSettle(r)

Next ==
  \/ \E r \in Slots : BeginBootstrap(r) \/ Begins(r) \/ BeginRepair(r) \/ Proceeds(r)
  \/ \E k \in Kinds : Tamper(k)
  \/ Restart

Spec == Init /\ [][Next]_recordVars

\* The server goes on with a request that it has. Nobody is bound to make one.
FairSpec == Spec /\ \A r \in Slots : WF_recordVars(Proceeds(r))

-----------------------------------------------------------------------------
(***************************************************************************)
(* Properties                                                              *)
(***************************************************************************)

\* What a stranger wrote becomes trusted by the import of an upgraded office or never:
\* after it, no write that is seen, no conflict and no repair makes it so.
TrustEndsWithImport ==
  [][office.initialized =>
       \A k \in Kinds : anchor'[k].by = "stranger" => anchor[k].by = "stranger"]_recordVars

\* Until somebody repairs the office, a version that is in the store and not trusted yet
\* was made from the trusted version: no update is lost to another one's.  A version that
\* came in from a stranger with the import is left out: who put it there can put it back
\* below a write that is not trusted yet, and the next request writes over it.
WriteFollowsAnchor ==
  ~office.repaired =>
    \A r \in Slots :
      reqs[r].pc = "trust" /\ anchor[reqs[r].key].by # "stranger" =>
        anchor[reqs[r].key] = reqs[r].expected

\* A trusted task has a trusted workflow, and a trusted workflow its employee, imported
\* or made here: the scheduler never holds a task whose route it could not check.
RouteIsTrusted ==
  \A j, k \in Kinds : Rank(j) < Rank(k) /\ anchor[k] # Absent => anchor[j] # Absent

\* Requests that replace a record.
Updates(op) == op \in {"edit", "fire", "work"}

\* A request is where its kind of work can be, at its record.
InStep(req) ==
  /\ req.op = "none" => req = Free
  /\ (req.pc = "import") = (req.op = "bootstrap")
  /\ req.pc = "verify" => req.expected = Absent
  /\ (req.pc \in {"look", "put", "check", "settle"}) = (req.op = "repair")
  /\ req.pc = "reverify" => req.op \in {"edit", "fire"}
  /\ req.pc \in {"write", "trust"} => Updates(req.op) \/ Creates(req.op)
  /\ req.op \in {"edit", "fire", "hire"} => req.key = "agent"
  /\ req.op = "plan" => req.key = "workflow"
  /\ req.op \in {"work", "order"} => req.key = "task"

\* A row that a request has read is a row still, with the same author.
RowsStand(req) ==
  /\ \A k \in Kinds : req.rows[k] # Absent => anchor[k] # Absent
  /\ req.op # "bootstrap" =>
       /\ \A k \in Kinds : req.rows[k] # Absent => req.rows[k].by = anchor[k].by
       /\ \A k \in req.todo : req.rows[k] # Absent
  /\ req.op = "repair" => req.key \in req.todo
  /\ req.pc = "verify" /\ Updates(req.op) => req.rows[req.key] # Absent

\* The records below the one that is made are trusted, and it is new.
RouteStands(req) ==
  /\ Updates(req.op) => anchor[req.key] # Absent
  /\ req.op \in {"plan", "order"} => anchor["agent"] # Absent
  /\ req.op = "order" => anchor["workflow"] # Absent
  /\ Creates(req.op) /\ req.pc \in {"verify", "write", "trust"} => anchor[req.key] = Absent

\* What is written has the author of what it replaces.
WritesOwn(req) ==
  req.pc \in {"reverify", "write", "trust"} =>
    /\ Updates(req.op) => req.next.n > 0 /\ req.next.by = anchor[req.key].by
    /\ Creates(req.op) => req.next = Made /\ req.expected = Absent

Stands(req) == InStep(req) /\ RowsStand(req) /\ RouteStands(req) /\ WritesOwn(req)

\* Bootstraps run alone, and nobody else makes the record that a request is making.
Exclusive ==
  /\ \A r, s \in Slots :
       reqs[r].op = reqs[s].op /\ (reqs[r].op = "bootstrap" \/ Creates(reqs[r].op)) => r = s
  /\ \A r \in Slots :
       /\ reqs[r].op = "bootstrap" => ~office.initialized
       /\ ~office.initialized => reqs[r].op \in {"none", "bootstrap"}
       /\ reqs[r].op = "repair" => office.repaired

Plain(k) == anchor[k].by # "stranger"

\* Without a repair nobody is ahead of the anchor but the one whose write it awaits.
InTurn(req) ==
  /\ req.op # "bootstrap" => \A k \in Kinds : Plain(k) => req.rows[k].n <= anchor[k].n
  /\ req.pc \in {"reverify", "write"} /\ Updates(req.op) /\ Plain(req.key) =>
       /\ req.expected # Absent /\ req.expected.by = anchor[req.key].by
       /\ req.expected.n <= anchor[req.key].n /\ req.next.n = req.expected.n + 1
  /\ req.pc = "trust" /\ Plain(req.key) =>
       /\ anchor[req.key] = req.expected /\ req.next.n = anchor[req.key].n + 1
       /\ note[req.key] \in {req.next, Foreign, Absent}

Succession ==
  /\ \A k \in Kinds : Plain(k) =>
       note[k] \in {anchor[k], Foreign, Absent} \/ note[k].n = anchor[k].n + 1
  /\ \A r, s \in Slots :
       /\ reqs[r].pc = "trust" /\ reqs[s].pc = "trust"
       /\ reqs[r].key = reqs[s].key /\ Plain(reqs[r].key)
       => r = s
  /\ \A r \in Slots : InTurn(reqs[r])

\* The inductive invariant: what a request holds agrees with what is trusted, however
\* many others run beside it.
Guarded ==
  /\ TypeOK /\ RouteIsTrusted /\ Exclusive
  /\ \A r \in Slots : Stands(reqs[r])
  /\ ~office.repaired => Succession

Healed == \A k \in Rows : note[k] = anchor[k] /\ k \notin flagged

\* An owner who repairs the office again and again gets it whole, whatever was altered,
\* lost or cut short.
RepairHeals ==
  (\A r \in Slots : ~[]<><<BeginRepair(r)>>_recordVars) \/ []<>Healed
==============================================================================
