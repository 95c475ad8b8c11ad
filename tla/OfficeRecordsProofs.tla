--------------------------- MODULE OfficeRecordsProofs ---------------------------
(***************************************************************************)
(* Proofs about OfficeRecords, for any number of requests, strangers'      *)
(* writes, lost answers and restarts: the records stay well formed, what   *)
(* a stranger wrote is trusted by an import or never, a trusted record has *)
(* a trusted route, and until a repair every write follows the anchor.     *)
(*                                                                         *)
(* All of it rests on Guarded.  A step changes one request, or the world   *)
(* under all of them; so the proof asks of every action, apart, that the   *)
(* records keep their types (...Types), that what requests hold still      *)
(* stands (...Stands), and that versions follow in turn (...InTurn).       *)
(***************************************************************************)
EXTENDS OfficeRecords, TLAPS

-----------------------------------------------------------------------------
(***************************************************************************)
(* Operators                                                               *)
(***************************************************************************)

\* The record that comes first is one of those there are to do.
LEMMA FirstOfIn == ASSUME NEW S \in SUBSET Kinds, S # {} PROVE FirstOf(S) \in S
<1>1. \E k \in S : \A j \in S : Rank(k) <= Rank(j)
  <2>1. CASE "agent" \in S
    BY <2>1 DEF Kinds, Rank
  <2>2. CASE "agent" \notin S /\ "workflow" \in S
    BY <2>2 DEF Kinds, Rank
  <2>3. CASE "agent" \notin S /\ "workflow" \notin S
    BY <2>3 DEF Kinds, Rank
  <2> QED
    BY <2>1, <2>2, <2>3
<1> QED
  BY <1>1 DEF FirstOf

\* The fixed versions are versions, and no two are the same.
LEMMA Fixed ==
  /\ Absent \in Value /\ Foreign \in Value /\ Made \in Value
  /\ Absent # Made /\ Absent # Foreign /\ Foreign # Made
  BY DEF Absent, Foreign, Made, Value

\* A free slot is a request, and one that asks nothing of the records.
LEMMA FreeIsRequest == Free \in Request
  BY Fixed DEF Free, NoRows, Request, Kinds

LEMMA FreeStands == Stands(Free)
  BY DEF Stands, InStep, RowsStand, RouteStands, WritesOwn, Free, NoRows, Updates, Creates, Kinds

LEMMA FreeStandsNext == Stands(Free)'
  BY DEF Stands, InStep, RowsStand, RouteStands, WritesOwn, Free, NoRows, Updates, Creates, Kinds

LEMMA FreeInTurn == ASSUME TypeOK PROVE InTurn(Free)
<1>1. \A k \in Kinds : anchor[k].n \in Nat
  BY DEF TypeOK, Value
<1> QED
  BY <1>1 DEF InTurn, Free, NoRows, Absent

LEMMA FreeInTurnNext == ASSUME TypeOK' PROVE InTurn(Free)'
<1>1. \A k \in Kinds : anchor'[k].n \in Nat
  BY DEF TypeOK, Value
<1> QED
  BY <1>1 DEF InTurn, Free, NoRows, Absent

-----------------------------------------------------------------------------
(***************************************************************************)
(* Steps of one request                                                    *)
(***************************************************************************)

\* What a request of a kind that may run once only has to bring.
Comes(req) ==
  /\ req.op = "bootstrap" \/ Creates(req.op) => \A s \in Slots : reqs[s].op # req.op
  /\ req.op = "bootstrap" => ~office.initialized
  /\ ~office.initialized => req.op \in {"none", "bootstrap"}
  /\ req.op = "repair" => office'.repaired

\* One request moves, and the anchor stays: the others stand as they did.
LEMMA OneStands ==
  ASSUME Guarded, NEW r \in Slots, NEW req, Goes(r, req), anchor' = anchor,
         office'.initialized = office.initialized,
         office.repaired => office'.repaired,
         Stands(req), req.op = reqs[r].op \/ Comes(req)
  PROVE  RouteIsTrusted' /\ Exclusive' /\ \A s \in Slots : Stands(reqs[s])'
<1>1. reqs \in [Slots -> Request]
  BY DEF Guarded, TypeOK
<1>2. reqs'[r] = req /\ \A s \in Slots : s # r => reqs'[s] = reqs[s]
  BY <1>1 DEF Goes
<1>3. RouteIsTrusted'
  BY DEF Guarded, RouteIsTrusted
<1>4. ASSUME NEW s \in Slots PROVE Stands(reqs[s])'
  <2>1. CASE s = r
    BY <2>1, <1>2 DEF Stands, InStep, RowsStand, RouteStands, WritesOwn
  <2>2. CASE s # r
    <3>1. Stands(reqs[s])
      BY DEF Guarded
    <3> QED
      BY <3>1, <2>2, <1>2 DEF Stands, InStep, RowsStand, RouteStands, WritesOwn
  <2> QED
    BY <2>1, <2>2
<1>5. Exclusive'
  <2>1. Exclusive
    BY DEF Guarded
  <2> QED
    BY <2>1, <1>2 DEF Exclusive, Comes
<1> QED
  BY <1>3, <1>4, <1>5

\* One request moves, short of a write, and neither the store nor the anchor does.
LEMMA OneInTurn ==
  ASSUME TypeOK, Succession, NEW r \in Slots, NEW req, Goes(r, req),
         UNCHANGED <<note, anchor>>, InTurn(req), req.pc # "trust"
  PROVE  Succession'
<1>1. reqs'[r] = req /\ \A s \in Slots : s # r => reqs'[s] = reqs[s]
  BY DEF Goes, TypeOK
<1>2. \A s \in Slots : InTurn(reqs[s])'
  BY <1>1 DEF Succession, InTurn, Plain
<1> QED
  BY <1>1, <1>2 DEF Succession, Plain

-----------------------------------------------------------------------------
(***************************************************************************)
(* Requests begin                                                          *)
(***************************************************************************)

\* A bootstrap is alone, and has read no row.
LEMMA BeginBootstrapKeeps ==
  ASSUME Guarded, NEW r \in Slots, BeginBootstrap(r) PROVE Guarded'
<1> DEFINE req == [Free EXCEPT !.op = "bootstrap", !.pc = "import", !.todo = Known]
<1>1. /\ req.op = "bootstrap" /\ req.pc = "import" /\ req.rows = NoRows
      /\ req \in Request
  BY FreeIsRequest DEF Request, Free, Known
<1>2. Goes(r, req)
  BY DEF BeginBootstrap
<1> HIDE DEF req
<1>3. TypeOK'
  BY <1>1, <1>2 DEF Guarded, TypeOK, BeginBootstrap, Goes, Unwritten
<1>4. Stands(req) /\ InTurn(req) /\ Comes(req)
  BY <1>1 DEF Stands, InStep, RowsStand, RouteStands, WritesOwn, InTurn, Comes, NoRows, Updates,
              Creates, BeginBootstrap, Unlocked
<1>5. RouteIsTrusted' /\ Exclusive' /\ \A s \in Slots : Stands(reqs[s])'
  BY <1>2, <1>4, OneStands DEF BeginBootstrap, Unwritten
<1>6. ~office'.repaired => Succession'
  BY <1>1, <1>2, <1>4, OneInTurn DEF Guarded, BeginBootstrap, Unwritten
<1> QED
  BY <1>3, <1>5, <1>6 DEF Guarded

\* A request reads the rows it needs, and it needs those its record lies on.
LEMMA BeginKeeps ==
  ASSUME Guarded, NEW r \in Slots,
         NEW op \in {"confirm", "hire", "plan", "order", "edit", "fire", "work"},
         NEW key \in Kinds, NEW needs \in SUBSET Kinds,
         op \in {"edit", "fire", "hire"} => key = "agent",
         op = "plan" => key = "workflow" /\ "agent" \in needs,
         op = "order" => key = "task" /\ "agent" \in needs /\ "workflow" \in needs,
         op = "work" => key = "task",
         Updates(op) => key \in needs,
         Creates(op) => Unmade(key, op),
         Begin(r, op, key, needs)
  PROVE  Guarded'
<1> DEFINE req == [Free EXCEPT !.op = op, !.pc = "verify", !.key = key,
                     !.rows = [k \in Kinds |-> IF k \in needs THEN anchor[k] ELSE Absent],
                     !.todo = needs]
<1>1. Goes(r, req)
  BY DEF Begin
<1>2. /\ req.op = op /\ req.pc = "verify" /\ req.key = key /\ req.todo = needs
      /\ req.rows = [k \in Kinds |-> IF k \in needs THEN anchor[k] ELSE Absent]
      /\ req.expected = Absent
  BY DEF Free
<1>3. [k \in Kinds |-> IF k \in needs THEN anchor[k] ELSE Absent] \in [Kinds -> Value]
  BY Fixed DEF Guarded, TypeOK
<1>4. req \in Request
  BY <1>3, FreeIsRequest DEF Request
<1> HIDE DEF req
<1>5. TypeOK'
  BY <1>1, <1>4, RecordsAssumption DEF Guarded, TypeOK, Begin, Act, Goes, Unwritten
<1>6. \A k \in needs : anchor[k] # Absent
  BY DEF Begin, Rows
<1>7. Stands(req)
  <2>1. InStep(req)
    BY <1>2 DEF InStep
  <2>2. RowsStand(req)
    BY <1>2, <1>6 DEF RowsStand
  <2>3. RouteStands(req)
    BY <1>2, <1>6 DEF RouteStands, Creates, Unmade, Updates
  <2> QED
    BY <1>2, <2>1, <2>2, <2>3 DEF Stands, WritesOwn
<1>8. InTurn(req)
  <2>1. \A k \in Kinds : anchor[k].n \in Nat
    BY DEF Guarded, TypeOK, Value
  <2> QED
    BY <1>2, <2>1 DEF InTurn, Absent
<1>9. Comes(req)
  BY <1>2 DEF Comes, Creates, Unmade, Begin
<1>10. RouteIsTrusted' /\ Exclusive' /\ \A s \in Slots : Stands(reqs[s])'
  BY <1>1, <1>7, <1>9, OneStands DEF Begin, Unwritten
<1>11. ~office'.repaired => Succession'
  BY <1>1, <1>2, <1>8, OneInTurn DEF Guarded, Begin, Unwritten
<1> QED
  BY <1>5, <1>10, <1>11 DEF Guarded

LEMMA BeginsKeeps ==
  ASSUME Guarded, NEW r \in Slots, Begins(r) PROVE Guarded'
<1> USE DEF Kinds, Creates, Updates
<1>1. CASE BeginConfirm(r)
  BY <1>1, BeginKeeps DEF BeginConfirm, Rows
<1>2. CASE BeginHire(r)
  BY <1>2, BeginKeeps DEF BeginHire
<1>3. CASE BeginEdit(r)
  BY <1>3, BeginKeeps DEF BeginEdit
<1>4. CASE BeginFire(r)
  BY <1>4, BeginKeeps DEF BeginFire
<1>5. CASE BeginPlan(r)
  BY <1>5, BeginKeeps DEF BeginPlan
<1>6. CASE BeginOrder(r)
  BY <1>6, BeginKeeps DEF BeginOrder
<1>7. CASE BeginWork(r)
  BY <1>7, BeginKeeps DEF BeginWork
<1> QED
  BY <1>1, <1>2, <1>3, <1>4, <1>5, <1>6, <1>7 DEF Begins

\* A repair begins with the rows as they are; from then on no turn is kept.
LEMMA BeginRepairKeeps ==
  ASSUME Guarded, NEW r \in Slots, BeginRepair(r) PROVE Guarded'
<1> DEFINE req == [Free EXCEPT !.op = "repair", !.pc = "look", !.key = FirstOf(Rows),
                     !.rows = anchor, !.todo = Rows]
<1>1. Goes(r, req)
  BY DEF BeginRepair
<1>2. FirstOf(Rows) \in Rows /\ Rows \subseteq Kinds
  BY FirstOfIn DEF BeginRepair, Rows
<1>3. /\ req.op = "repair" /\ req.pc = "look" /\ req.key = FirstOf(Rows) /\ req.rows = anchor
      /\ req.todo = Rows
  BY DEF Free
<1>4. req \in Request
  BY <1>2, FreeIsRequest DEF Request, Guarded, TypeOK
<1> HIDE DEF req
<1>5. /\ office'.repaired /\ office'.initialized = office.initialized
      /\ office' \in [initialized : BOOLEAN, confirmed : BOOLEAN, repaired : BOOLEAN]
  BY DEF BeginRepair, Guarded, TypeOK
<1>6. TypeOK'
  BY <1>1, <1>4, <1>5 DEF Guarded, TypeOK, BeginRepair, Goes
<1>7. Stands(req)
  BY <1>2, <1>3 DEF Stands, InStep, RowsStand, RouteStands, WritesOwn, Rows, Updates, Creates
<1>8. Comes(req)
  BY <1>3, <1>5 DEF Comes, Creates, BeginRepair
<1>9. RouteIsTrusted' /\ Exclusive' /\ \A s \in Slots : Stands(reqs[s])'
  BY <1>1, <1>5, <1>7, <1>8, OneStands DEF BeginRepair
<1> QED
  BY <1>5, <1>6, <1>9 DEF Guarded

-----------------------------------------------------------------------------
(***************************************************************************)
(* Requests check                                                          *)
(***************************************************************************)

\* What the invariant says of one request.
LEMMA OfOne ==
  ASSUME Guarded, NEW r \in Slots
  PROVE  reqs[r] \in Request /\ Stands(reqs[r]) /\ (~office.repaired => InTurn(reqs[r]))
  BY DEF Guarded, TypeOK, Succession

\* A record that is flagged has a row, be it checked or written.
LEMMA VerifyKeeps ==
  ASSUME Guarded, NEW r \in Slots, Verify(r) PROVE Guarded'
<1>1. reqs[r] \in Request /\ Stands(reqs[r]) /\ (~office.repaired => InTurn(reqs[r]))
  BY OfOne
<1>2. PICK k \in reqs[r].todo :
        IF note[k] = reqs[r].rows[k]
          THEN Goes(r, [reqs[r] EXCEPT !.todo = @ \ {k}]) /\ UNCHANGED flagged
          ELSE Flag(k) /\ Goes(r, [[reqs[r] EXCEPT !.todo = @ \ {k}] EXCEPT !.op = "refused"])
  BY DEF Verify
<1> DEFINE req == IF note[k] = reqs[r].rows[k] THEN [reqs[r] EXCEPT !.todo = @ \ {k}]
                  ELSE [[reqs[r] EXCEPT !.todo = @ \ {k}] EXCEPT !.op = "refused"]
<1>3. Goes(r, req) /\ (flagged' = flagged \/ Flag(k))
  BY <1>2
<1>4. /\ req \in Request /\ req.op \in {reqs[r].op, "refused"} /\ req.pc = "verify"
      /\ req.key = reqs[r].key /\ req.rows = reqs[r].rows /\ req.todo = reqs[r].todo \ {k}
      /\ req.expected = reqs[r].expected /\ reqs[r].pc = "verify"
  BY <1>1 DEF Request, Verify
<1> HIDE DEF req
<1>5. reqs[r].op \notin {"bootstrap", "repair", "none"}
  BY <1>1, <1>4 DEF Stands, InStep, Free
<1>6. anchor[k] # Absent /\ k \in Kinds
  BY <1>1, <1>5 DEF Stands, RowsStand, Request
<1>7. TypeOK'
  <2>1. flagged' \subseteq {j \in Kinds : anchor[j] # Absent}
    BY <1>3, <1>6 DEF Flag, Guarded, TypeOK
  <2> QED
    BY <1>3, <1>4, <2>1 DEF Guarded, TypeOK, Verify, Goes, Unwritten
<1>8. Stands(req)
  <2>1. InStep(req)
    BY <1>1, <1>4, <1>5 DEF Stands, InStep
  <2>2. RowsStand(req)
    BY <1>1, <1>4, <1>5 DEF Stands, RowsStand, Updates
  <2>3. RouteStands(req)
    BY <1>1, <1>4 DEF Stands, RouteStands, Updates, Creates
  <2> QED
    BY <1>4, <2>1, <2>2, <2>3 DEF Stands, WritesOwn
<1>9. ~office.repaired => InTurn(req)
  BY <1>1, <1>4, <1>5 DEF InTurn
<1>10. req.op = reqs[r].op \/ Comes(req)
  <2>1. office.initialized
    BY <1>5 DEF Guarded, Exclusive
  <2> QED
    BY <1>4, <2>1 DEF Comes, Creates
<1>11. RouteIsTrusted' /\ Exclusive' /\ \A s \in Slots : Stands(reqs[s])'
  BY <1>3, <1>8, <1>10, OneStands DEF Verify, Unwritten
<1>12. ~office'.repaired => Succession'
  BY <1>3, <1>4, <1>9, OneInTurn DEF Guarded, Verify, Unwritten
<1> QED
  BY <1>7, <1>11, <1>12 DEF Guarded

\* What a request writes, when all its notes have been compared.
Ready(req, new) ==
  /\ new.rows = NoRows /\ new.key = req.key /\ new.todo = req.todo /\ new.op = req.op
  /\ \/ /\ req.op \in {"edit", "fire"} /\ new.pc = "reverify"
        /\ new.expected = anchor[req.key]
        /\ new.next.n = anchor[req.key].n + 1 /\ new.next.by = req.rows[req.key].by
     \/ /\ req.op = "work" /\ new.pc = "write"
        /\ new.expected = req.rows[req.key]
        /\ new.next.n = req.rows[req.key].n + 1 /\ new.next.by = req.rows[req.key].by
     \/ /\ Creates(req.op) /\ new.pc = "write" /\ new.next = Made /\ new.expected = req.expected

LEMMA VerifiedReady ==
  ASSUME Guarded, NEW r \in Slots, Verified(r)
  PROVE  Ends(r) \/ \E new \in Request : Goes(r, new) /\ Ready(reqs[r], new)
<1> DEFINE req == reqs[r]
<1> DEFINE old == req.rows[req.key]
<1>1. /\ req \in Request /\ old \in Value /\ anchor[req.key] \in Value /\ NoRows \in [Kinds -> Value]
  BY OfOne, Fixed DEF Request, Guarded, TypeOK, NoRows
<1>2. CASE req.op \in {"edit", "fire"} /\ ~Ends(r)
  <2> DEFINE n == anchor[req.key].n + 1
  <2> DEFINE fired == old.fired \/ req.op = "fire"
  <2> DEFINE next == [old EXCEPT !.n = n, !.fired = fired]
  <2> DEFINE new == [[req EXCEPT !.rows = NoRows] EXCEPT !.pc = "reverify", !.expected = anchor[req.key],
                       !.next = next]
  <2>1. Goes(r, new)
    BY <1>2 DEF Verified, Creates
  <2>2. n \in Nat
    BY <1>1 DEF Value
  <2>3. fired \in BOOLEAN
    OBVIOUS
  <2>4. next \in Value /\ next.n = anchor[req.key].n + 1 /\ next.by = old.by
    <3> HIDE DEF fired, n, old
    <3>1. next \in Value /\ next.n = n /\ next.by = old.by
      BY <1>1, <2>2, <2>3 DEF Value
    <3> QED
      BY <3>1 DEF n
  <2> HIDE DEF next
  <2>5. new \in Request /\ Ready(req, new)
    BY <1>1, <1>2, <2>4 DEF Request, Ready
  <2> QED
    BY <2>1, <2>5
<1>3. CASE req.op = "work" /\ ~Ends(r)
  <2> DEFINE next == [old EXCEPT !.n = @ + 1]
  <2> DEFINE new == [[req EXCEPT !.rows = NoRows] EXCEPT !.pc = "write", !.expected = old, !.next = next]
  <2>1. Goes(r, new)
    BY <1>3 DEF Verified, Creates
  <2>2. next \in Value /\ next.n = old.n + 1 /\ next.by = old.by
    BY <1>1 DEF Value
  <2> HIDE DEF next
  <2>3. new \in Request /\ Ready(req, new)
    BY <1>1, <1>3, <2>2 DEF Request, Ready
  <2> QED
    BY <2>1, <2>3
<1>4. CASE Creates(req.op) /\ ~Ends(r)
  <2> DEFINE new == [[req EXCEPT !.rows = NoRows] EXCEPT !.pc = "write", !.next = Made]
  <2>1. Goes(r, new)
    BY <1>4 DEF Verified, Creates
  <2>2. new \in Request /\ Ready(req, new)
    BY <1>1, <1>4, Fixed DEF Request, Ready
  <2> QED
    BY <2>1, <2>2
<1> QED
  BY <1>2, <1>3, <1>4 DEF Verified

\* A request that ends leaves everything as it stood.
LEMMA OneEnds ==
  ASSUME Guarded, TypeOK', NEW r \in Slots, Ends(r), UNCHANGED <<note, anchor>>,
         office'.initialized = office.initialized, office'.repaired = office.repaired
  PROVE  Guarded'
<1>1. Goes(r, Free) /\ Stands(Free) /\ InTurn(Free) /\ Free.pc # "trust"
  BY FreeStands, FreeInTurn DEF Ends, Free, Guarded
<1>2. Comes(Free)
  BY DEF Comes, Free, Creates
<1>3. RouteIsTrusted' /\ Exclusive' /\ \A s \in Slots : Stands(reqs[s])'
  BY <1>1, <1>2, OneStands
<1>4. ~office'.repaired => Succession'
  BY <1>1, OneInTurn DEF Guarded
<1> QED
  BY <1>3, <1>4 DEF Guarded

\* An update goes on from a version the anchor had, and a creation from none.
LEMMA VerifiedKeeps ==
  ASSUME Guarded, NEW r \in Slots, Verified(r) PROVE Guarded'
<1> DEFINE req == reqs[r]
<1>1. req \in Request /\ Stands(req) /\ (~office.repaired => InTurn(req)) /\ req.pc = "verify"
  BY OfOne DEF Verified
<1>2. /\ UNCHANGED <<note, anchor, flagged, hosted, audited, acts, foreign, mishaps>>
      /\ office' = [office EXCEPT !.confirmed = @ \/ req.op = "confirm"]
  BY DEF Verified
<1>3. /\ office' \in [initialized : BOOLEAN, confirmed : BOOLEAN, repaired : BOOLEAN]
      /\ office'.initialized = office.initialized /\ office'.repaired = office.repaired
  BY <1>2 DEF Guarded, TypeOK
<1>4. ASSUME NEW new \in Request, Goes(r, new) PROVE TypeOK'
  BY <1>2, <1>3, <1>4 DEF Guarded, TypeOK, Goes
<1>5. CASE Ends(r)
  BY <1>2, <1>3, <1>4, <1>5, OneEnds, FreeIsRequest DEF Ends
<1>6. ASSUME NEW new \in Request, Goes(r, new), Ready(req, new) PROVE Guarded'
  <2>1. /\ req.op \notin {"none", "bootstrap", "repair"} /\ req.expected = Absent
        /\ new.op = req.op /\ new.key = req.key /\ new.pc \in {"reverify", "write"}
        /\ req.key \in Kinds /\ new.rows = NoRows /\ new.todo = req.todo
    BY <1>1, <1>6 DEF Ready, Stands, InStep, Free, Request
  <2>2. InStep(new)
    BY <1>1, <1>6, <2>1 DEF Ready, Stands, InStep, Updates, Creates
  <2>3. RowsStand(new)
    <3>1. new.todo = {}
      BY <2>1 DEF Verified
    <3> QED
      BY <2>1, <3>1 DEF RowsStand, NoRows
  <2>4. RouteStands(new)
    BY <1>1, <2>1 DEF Stands, RouteStands
  <2>5. Updates(req.op) =>
          /\ req.rows[req.key] # Absent /\ req.rows[req.key].by = anchor[req.key].by
          /\ req.rows[req.key].n \in Nat /\ anchor[req.key].n \in Nat /\ anchor[req.key] # Absent
    BY <1>1, <2>1 DEF Stands, RowsStand, RouteStands, Guarded, TypeOK, Request, Value
  <2>6. WritesOwn(new)
    BY <1>6, <2>1, <2>5 DEF WritesOwn, Ready, Updates, Creates
  <2>7. ~office.repaired => InTurn(new)
    <3>1. \A k \in Kinds : anchor[k].n \in Nat
      BY DEF Guarded, TypeOK, Value
    <3>2. ~office.repaired /\ Plain(req.key) => req.rows[req.key].n <= anchor[req.key].n
      BY <1>1, <2>1 DEF InTurn
    <3> QED
      BY <1>6, <2>1, <2>5, <3>1, <3>2 DEF InTurn, Ready, Updates, Creates, NoRows, Absent
  <2>8. Stands(new)
    BY <2>2, <2>3, <2>4, <2>6 DEF Stands
  <2>9. RouteIsTrusted' /\ Exclusive' /\ \A s \in Slots : Stands(reqs[s])'
    BY <1>2, <1>3, <1>6, <2>1, <2>8, OneStands
  <2>10. ~office'.repaired => Succession'
    BY <1>2, <1>3, <1>6, <2>1, <2>7, OneInTurn DEF Guarded
  <2> QED
    BY <1>4, <1>6, <2>9, <2>10 DEF Guarded
<1> QED
  BY <1>5, <1>6, VerifiedReady

\* The second check goes on to the write, or flags and ends.
LEMMA ReverifyKeeps ==
  ASSUME Guarded, NEW r \in Slots, Reverify(r) PROVE Guarded'
<1> DEFINE req == reqs[r]
<1>1. /\ req \in Request /\ Stands(req) /\ (~office.repaired => InTurn(req)) /\ req.pc = "reverify"
      /\ UNCHANGED <<note, anchor, hosted, audited, office, foreign, acts, mishaps>>
  BY OfOne DEF Reverify, Unwritten
<1>2. CASE Ends(r) /\ Flag(req.key)
  <2>1. anchor[req.key] # Absent /\ req.key \in Kinds
    BY <1>1 DEF Stands, InStep, RouteStands, Updates, Request
  <2>2. TypeOK'
    BY <1>1, <1>2, <2>1, FreeIsRequest DEF Guarded, TypeOK, Flag, Ends, Goes
  <2> QED
    BY <1>1, <1>2, <2>2, OneEnds
<1>3. CASE Goes(r, [req EXCEPT !.pc = "write"]) /\ UNCHANGED flagged
  <2> DEFINE new == [req EXCEPT !.pc = "write"]
  <2>1. /\ new \in Request /\ new.op = req.op /\ new.key = req.key /\ new.pc = "write"
        /\ new.rows = req.rows /\ new.todo = req.todo /\ new.expected = req.expected
        /\ new.next = req.next
    BY <1>1 DEF Request
  <2>2. Goes(r, new)
    BY <1>3
  <2> HIDE DEF new
  <2>3. req.op \in {"edit", "fire"}
    BY <1>1 DEF Stands, InStep
  <2>4. Stands(new)
    BY <1>1, <2>1, <2>3 DEF Stands, InStep, RowsStand, RouteStands, WritesOwn, Updates, Creates
  <2>5. ~office.repaired => InTurn(new)
    BY <1>1, <2>1 DEF InTurn
  <2>6. TypeOK'
    BY <1>1, <1>3, <2>1, <2>2 DEF Guarded, TypeOK, Goes
  <2>7. RouteIsTrusted' /\ Exclusive' /\ \A s \in Slots : Stands(reqs[s])'
    BY <1>1, <2>1, <2>2, <2>4, OneStands
  <2>8. ~office'.repaired => Succession'
    BY <1>1, <2>1, <2>2, <2>5, OneInTurn DEF Guarded
  <2> QED
    BY <2>6, <2>7, <2>8 DEF Guarded
<1> QED
  BY <1>2, <1>3 DEF Reverify

-----------------------------------------------------------------------------
(***************************************************************************)
(* Repairs: no turn is kept, but rows keep their authors                   *)
(***************************************************************************)

\* A step of a repair that keeps its rows.
LEMMA OneRepairs ==
  ASSUME Guarded, NEW r \in Slots, NEW new \in Request, Goes(r, new), TypeOK',
         UNCHANGED <<anchor, office>>,
         reqs[r].op = "repair", new.op = "repair", new.pc \in {"look", "put", "check", "settle"},
         new.key = reqs[r].key, new.rows = reqs[r].rows, new.todo = reqs[r].todo
  PROVE  Guarded'
<1>1. Stands(reqs[r]) /\ office.repaired
  BY DEF Guarded, Exclusive
<1>2. Stands(new)
  BY <1>1 DEF Stands, InStep, RowsStand, RouteStands, WritesOwn, Updates, Creates
<1>3. RouteIsTrusted' /\ Exclusive' /\ \A s \in Slots : Stands(reqs[s])'
  BY <1>2, OneStands
<1> QED
  BY <1>1, <1>3 DEF Guarded

LEMMA RepairLookKeeps ==
  ASSUME Guarded, NEW r \in Slots, RepairLook(r) PROVE Guarded'
<1> DEFINE req == reqs[r]
<1> DEFINE new == IF note[req.key] = req.rows[req.key]
                    THEN [req EXCEPT !.pc = "check"]
                    ELSE [req EXCEPT !.pc = "put", !.expected = note[req.key]]
<1>1. Goes(r, new) /\ UNCHANGED <<note, anchor, flagged, hosted, audited, office, foreign, acts, mishaps>>
  BY DEF RepairLook, Unwritten
<1>2. req \in Request /\ Stands(req) /\ note[req.key] \in Value
  BY OfOne DEF Request, Guarded, TypeOK
<1>3. /\ new \in Request /\ new.op = req.op /\ new.pc \in {"check", "put"} /\ new.key = req.key
      /\ new.rows = req.rows /\ new.todo = req.todo
  BY <1>2 DEF Request
<1> HIDE DEF new
<1>4. req.op = "repair"
  BY <1>2 DEF Stands, InStep, RepairLook
<1>5. TypeOK'
  BY <1>1, <1>3 DEF Guarded, TypeOK, Goes
<1> QED
  BY <1>1, <1>3, <1>4, <1>5, OneRepairs

LEMMA RepairCheckKeeps ==
  ASSUME Guarded, NEW r \in Slots, RepairCheck(r) PROVE Guarded'
<1> DEFINE req == reqs[r]
<1> DEFINE new == [req EXCEPT !.pc = "settle"]
<1>1. /\ Goes(r, new) \/ Ends(r)
      /\ UNCHANGED <<note, anchor, flagged, hosted, audited, office, foreign, acts, mishaps>>
  BY DEF RepairCheck, Unwritten
<1>2. req \in Request /\ Stands(req)
  BY OfOne
<1>3. /\ new \in Request /\ new.op = req.op /\ new.pc = "settle" /\ new.key = req.key
      /\ new.rows = req.rows /\ new.todo = req.todo
  BY <1>2 DEF Request
<1> HIDE DEF new
<1>4. req.op = "repair"
  BY <1>2 DEF Stands, InStep, RepairCheck
<1>5. TypeOK'
  BY <1>1, <1>3, FreeIsRequest DEF Guarded, TypeOK, Goes, Ends
<1> QED
  BY <1>1, <1>3, <1>4, <1>5, OneRepairs, OneEnds

\* A row is put over a note: the anchor stays as it is.
LEMMA RepairPutKeeps ==
  ASSUME Guarded, NEW r \in Slots, RepairPut(r) PROVE Guarded'
<1> DEFINE req == reqs[r]
<1> DEFINE new == [req EXCEPT !.pc = "check"]
<1>1. /\ Goes(r, new) \/ Ends(r)
      /\ UNCHANGED <<anchor, flagged, hosted, audited, office, acts, foreign>>
      /\ note' \in {note, [note EXCEPT ![req.key] = req.rows[req.key]]}
      /\ mishaps' \in 0..MaxMishaps
  BY RecordsAssumption DEF RepairPut, Mishap, Guarded, TypeOK
<1>2. req \in Request /\ Stands(req) /\ req.rows[req.key] \in Value
  BY OfOne DEF Request
<1>3. /\ new \in Request /\ new.op = req.op /\ new.pc = "check" /\ new.key = req.key
      /\ new.rows = req.rows /\ new.todo = req.todo
  BY <1>2 DEF Request
<1> HIDE DEF new
<1>4. req.op = "repair" /\ office.repaired
  BY <1>2 DEF Stands, InStep, RepairPut, Guarded, Exclusive
<1>5. TypeOK'
  BY <1>1, <1>2, <1>3, FreeIsRequest DEF Guarded, TypeOK, Goes, Ends
<1>6. CASE Ends(r)
  <2>1. Goes(r, Free) /\ Stands(Free) /\ Comes(Free)
    BY <1>6, FreeStands DEF Ends, Comes, Free, Creates
  <2>2. RouteIsTrusted' /\ Exclusive' /\ \A s \in Slots : Stands(reqs[s])'
    BY <1>1, <2>1, OneStands
  <2> QED
    BY <1>1, <1>4, <1>5, <2>2 DEF Guarded
<1> QED
  BY <1>1, <1>3, <1>4, <1>5, <1>6, OneRepairs

-----------------------------------------------------------------------------
(***************************************************************************)
(* The anchor changes                                                      *)
(***************************************************************************)

\* An anchored record stays one, with its author, whatever is anchored now.
Succeeds == \A k \in Kinds : anchor[k] # Absent => anchor'[k] # Absent /\ anchor'[k].by = anchor[k].by

\* A request that stays where it is, and does not make what was made, stands as it did.
LEMMA StandsOn ==
  ASSUME NEW s \in Slots, reqs[s] \in Request, reqs'[s] = reqs[s], Stands(reqs[s]), Succeeds,
         Creates(reqs[s].op) /\ reqs[s].pc \in {"verify", "write", "trust"} =>
           anchor'[reqs[s].key] = Absent
  PROVE  Stands(reqs[s])'
<1>1. reqs[s].key \in Kinds
  BY DEF Request
<1>2. InStep(reqs[s])'
  BY DEF Stands, InStep
<1>3. RowsStand(reqs[s])'
  BY DEF Stands, RowsStand, Succeeds
<1>4. RouteStands(reqs[s])'
  BY <1>1 DEF Stands, RouteStands, Succeeds, Kinds
<1>5. WritesOwn(reqs[s])'
  BY <1>1 DEF Stands, RouteStands, WritesOwn, Succeeds
<1> QED
  BY <1>2, <1>3, <1>4, <1>5 DEF Stands

\* A repair writes the row again as it was: its author is the anchor's.
LEMMA RepairSettleKeeps ==
  ASSUME Guarded, NEW r \in Slots, RepairSettle(r) PROVE Guarded'
<1> DEFINE req == reqs[r]
<1> DEFINE rest == req.todo \ {req.key}
<1> DEFINE more == [req EXCEPT !.pc = "look", !.key = FirstOf(rest), !.todo = rest,
                      !.rows[req.key] = Absent, !.expected = Absent]
<1> DEFINE new == IF rest = {} THEN Free ELSE more
<1>1. /\ Goes(r, new) /\ anchor' = [anchor EXCEPT ![req.key] = req.rows[req.key]]
      /\ flagged' = flagged \ {req.key}
      /\ UNCHANGED <<note, hosted, audited, office, acts, foreign, mishaps>>
  BY DEF RepairSettle, Trust, Ends
<1>2. req \in Request /\ Stands(req) /\ req.op = "repair" /\ office.repaired
  BY OfOne DEF RepairSettle, Stands, InStep, Guarded, Exclusive
<1>3. /\ req.key \in req.todo /\ req.key \in Kinds /\ req.rows[req.key] # Absent
      /\ req.rows[req.key] \in Value /\ anchor[req.key] # Absent
      /\ req.rows[req.key].by = anchor[req.key].by
  BY <1>2 DEF Stands, RowsStand, Request
<1>4. Succeeds /\ \A k \in Kinds : anchor'[k] # Absent => anchor[k] # Absent
  BY <1>1, <1>3 DEF Succeeds, Guarded, TypeOK
<1>5. rest # {} =>
        /\ more \in Request /\ more.op = "repair" /\ more.pc = "look" /\ more.key \in rest
        /\ more.todo = rest
        /\ more.rows = [req.rows EXCEPT ![req.key] = Absent]
  <2>1. rest \in SUBSET Kinds
    BY <1>2 DEF Request
  <2>2. ASSUME rest # {} PROVE FirstOf(rest) \in rest
    BY <2>1, <2>2, FirstOfIn
  <2> HIDE DEF rest
  <2> QED
    BY <1>2, <1>3, <2>1, <2>2, Fixed DEF Request
<1>6. new \in Request
  BY <1>5, FreeIsRequest
<1>7. reqs'[r] = new /\ \A s \in Slots : s # r => reqs'[s] = reqs[s]
  BY <1>1 DEF Goes, Guarded, TypeOK
<1>8. Stands(reqs[r])'
  <2>1. CASE rest = {}
    BY <1>7, <2>1, FreeStandsNext DEF Stands, InStep, RowsStand, RouteStands, WritesOwn
  <2>2. CASE rest # {}
    <3>0. reqs'[r] = more
      BY <1>7, <2>2
    <3> HIDE DEF more, new
    <3>1. InStep(reqs[r])'
      BY <1>5, <2>2, <3>0 DEF InStep
    <3>2. RowsStand(reqs[r])'
      <4>1. \A k \in Kinds : more.rows[k] = IF k = req.key THEN Absent ELSE req.rows[k]
        BY <1>2, <1>5, <2>2 DEF Request
      <4>2. \A k \in Kinds : req.rows[k] # Absent =>
              anchor[k] # Absent /\ req.rows[k].by = anchor[k].by
        BY <1>2 DEF Stands, RowsStand
      <4>3. \A k \in req.todo : k \in Kinds /\ req.rows[k] # Absent
        BY <1>2 DEF Stands, RowsStand, Request
      <4> QED
        BY <1>4, <1>5, <2>2, <3>0, <4>1, <4>2, <4>3 DEF RowsStand, Succeeds
    <3> QED
      BY <1>5, <2>2, <3>0, <3>1, <3>2 DEF Stands, InStep, RouteStands, WritesOwn, Updates, Creates
  <2> QED
    BY <2>1, <2>2
<1> HIDE DEF new, more, rest
<1>9. TypeOK'
  BY <1>1, <1>3, <1>6 DEF Guarded, TypeOK, Goes
<1>10. RouteIsTrusted'
  BY <1>4 DEF Guarded, RouteIsTrusted, Succeeds
<1>11. ASSUME NEW s \in Slots, s # r PROVE Stands(reqs[s])'
  <2>1. reqs[s] \in Request /\ Stands(reqs[s])
    BY OfOne
  <2>2. Creates(reqs[s].op) /\ reqs[s].pc \in {"verify", "write", "trust"}
          => anchor'[reqs[s].key] = Absent
    BY <1>4, <2>1 DEF Stands, RouteStands, Request
  <2> QED
    BY <1>7, <1>11, <2>1, <2>2, <1>4, StandsOn
<1>12. Exclusive'
  <2>1. new.op \in {"none", "repair"}
    BY <1>5 DEF new, Free
  <2> QED
    BY <1>1, <1>2, <1>7, <2>1 DEF Guarded, Exclusive, Creates
<1> QED
  BY <1>1, <1>2, <1>8, <1>9, <1>10, <1>11, <1>12 DEF Guarded

\* An import fits below what is trusted, and nobody else is there.
LEMMA ImportKeeps ==
  ASSUME Guarded, NEW r \in Slots, Import(r) PROVE Guarded'
<1> DEFINE req == reqs[r]
<1> DEFINE k == FirstOf(req.todo)
<1> DEFINE done == [req EXCEPT !.todo = @ \ {k}]
<1>1. /\ req \in Request /\ Stands(req) /\ req.op = "bootstrap" /\ req.pc = "import"
      /\ ~office.initialized
  BY OfOne DEF Import, Stands, InStep, Guarded, Exclusive
<1>2. \A s \in Slots : s # r => reqs[s] = Free
  <2>1. ASSUME NEW s \in Slots, s # r PROVE reqs[s].op = "none"
    BY <1>1, <2>1 DEF Guarded, Exclusive
  <2> QED
    BY <2>1 DEF Guarded, Stands, InStep
<1>3. k \in Kinds /\ note[k] \in Value
  <2>1. req.todo # {} /\ req.todo \in SUBSET Kinds
    BY <1>1 DEF Import, Request
  <2>2. k \in Kinds
    BY <2>1, FirstOfIn
  <2> QED
    BY <2>2 DEF Guarded, TypeOK
<1>4. PICK new :
        /\ Goes(r, new)
        /\ \/ new = [done EXCEPT !.rows[k] = note[k]] /\ Importable(req, k) /\ Trust(k, note[k])
           \/ new = done /\ UNCHANGED <<anchor, flagged>>
  <2>1. \/ Importable(req, k) /\ Trust(k, note[k]) /\ Goes(r, [done EXCEPT !.rows[k] = note[k]])
        \/ Goes(r, done) /\ UNCHANGED <<anchor, flagged>>
    BY DEF Import
  <2> HIDE DEF k, done
  <2> QED
    BY <2>1
<1>5. /\ UNCHANGED <<note, hosted, audited, office, acts, foreign>>
      /\ mishaps' \in 0..MaxMishaps
  BY RecordsAssumption DEF Import, Mishap, Guarded, TypeOK
<1> HIDE DEF k
<1>6. done \in Request /\ done.op = "bootstrap" /\ done.pc = "import" /\ done.rows = req.rows
  BY <1>1, <1>3 DEF Request
<1> HIDE DEF done
<1>7. /\ new \in Request /\ new.op = "bootstrap" /\ new.pc = "import"
      /\ \A j \in Kinds : \/ new.rows[j] = req.rows[j]
                          \/ j = k /\ new.rows[j] = note[j] /\ anchor'[j] = note[j]
  <2>1. CASE new = done
    BY <1>6, <2>1
  <2>2. CASE new = [done EXCEPT !.rows[k] = note[k]] /\ Trust(k, note[k])
    <3>1. /\ new.op = done.op /\ new.pc = done.pc /\ new.rows = [done.rows EXCEPT ![k] = note[k]]
          /\ new \in Request
      BY <1>3, <1>6, <2>2 DEF Request
    <3>2. anchor'[k] = note[k] /\ \A j \in Kinds : new.rows[j] = IF j = k THEN note[k] ELSE req.rows[j]
      BY <1>1, <1>3, <1>6, <2>2, <3>1 DEF Request, Trust, Guarded, TypeOK
    <3> QED
      BY <1>6, <3>1, <3>2
  <2> QED
    BY <1>4, <2>1, <2>2
<1>8. /\ \A j \in Kinds : \/ anchor'[j] = anchor[j]
                          \/ j = k /\ anchor'[j] = note[j] /\ note[j] # Absent
      /\ anchor' \in [Kinds -> Value] /\ flagged' \subseteq {j \in Kinds : anchor'[j] # Absent}
  BY <1>3, <1>4 DEF Trust, Guarded, TypeOK, Importable
<1>9. reqs'[r] = new /\ \A s \in Slots : s # r => reqs'[s] = Free
  BY <1>2, <1>4 DEF Goes, Guarded, TypeOK
<1>10. TypeOK'
  BY <1>4, <1>5, <1>7, <1>8 DEF Guarded, TypeOK, Goes
<1>11. RouteIsTrusted'
  <2>1. \A j \in Kinds : req.rows[j] # Absent => anchor[j] # Absent
    BY <1>1 DEF Stands, RowsStand
  <2>2. anchor'[k] # anchor[k] => Importable(req, k)
    BY <1>4
  <2>3. \A j, l \in Kinds : Rank(j) < Rank(l) /\ anchor[l] # Absent => anchor[j] # Absent
    BY DEF Guarded, RouteIsTrusted
  <2>4. \A j, l \in Kinds : Rank(j) < Rank(l) /\ anchor'[l] # Absent => anchor[j] # Absent
    BY <1>3, <1>8, <2>1, <2>2, <2>3 DEF Importable
  <2> QED
    BY <1>8, <2>4 DEF RouteIsTrusted
<1>12. Stands(reqs[r])'
  <2>1. \A j \in Kinds : req.rows[j] # Absent => anchor[j] # Absent
    BY <1>1 DEF Stands, RowsStand
  <2>2. \A j \in Kinds : new.rows[j] # Absent => anchor'[j] # Absent
    BY <1>7, <1>8, <2>1
  <2> QED
    BY <1>7, <1>9, <2>2 DEF Stands, InStep, RowsStand, RouteStands, WritesOwn, Updates, Creates
<1>13. ASSUME NEW s \in Slots PROVE Stands(reqs[s])'
  BY <1>9, <1>12, FreeStandsNext DEF Stands, InStep, RowsStand, RouteStands, WritesOwn
<1>14. Exclusive'
  BY <1>1, <1>5, <1>7, <1>9 DEF Guarded, Exclusive, Free, Creates
<1>15. ~office'.repaired => Succession'
  <2>1. ASSUME NEW s \in Slots PROVE InTurn(reqs[s])'
    BY <1>7, <1>9, <1>10, FreeInTurnNext DEF InTurn, Plain
  <2>2. \A s \in Slots : reqs'[s].pc # "trust"
    BY <1>7, <1>9 DEF Free
  <2>3. ~office.repaired => \A j \in Kinds : Plain(j)' =>
          note'[j] \in {anchor'[j], Foreign, Absent} \/ note'[j].n = anchor'[j].n + 1
    BY <1>5, <1>8 DEF Guarded, Succession, Plain
  <2> QED
    BY <1>5, <2>1, <2>2, <2>3 DEF Succession
<1> QED
  BY <1>10, <1>11, <1>13, <1>14, <1>15 DEF Guarded

\* The office is initialised when its one bootstrap ends.
LEMMA EndBootstrapKeeps ==
  ASSUME Guarded, NEW r \in Slots, EndBootstrap(r) PROVE Guarded'
<1>1. reqs[r].op = "bootstrap" /\ ~office.initialized
  BY OfOne DEF EndBootstrap, Stands, InStep, Guarded, Exclusive
<1>2. \A s \in Slots : reqs'[s] = Free
  <2>1. ASSUME NEW s \in Slots, s # r PROVE reqs[s].op = "none"
    BY <1>1, <2>1 DEF Guarded, Exclusive
  <2>2. \A s \in Slots : s # r => reqs[s] = Free
    BY <2>1 DEF Guarded, Stands, InStep
  <2> QED
    BY <2>2 DEF EndBootstrap, Ends, Goes, Guarded, TypeOK
<1>3. /\ office' \in [initialized : BOOLEAN, confirmed : BOOLEAN, repaired : BOOLEAN]
      /\ office'.initialized /\ office'.repaired = office.repaired
      /\ UNCHANGED <<note, anchor, flagged, hosted, audited, acts, foreign, mishaps>>
  BY DEF EndBootstrap, Guarded, TypeOK
<1>4. TypeOK'
  BY <1>3, FreeIsRequest DEF Guarded, TypeOK, EndBootstrap, Ends, Goes
<1>5. \A s \in Slots : Stands(reqs[s])'
  BY <1>2, FreeStandsNext DEF Stands, InStep, RowsStand, RouteStands, WritesOwn
<1>6. RouteIsTrusted' /\ Exclusive'
  BY <1>2, <1>3 DEF Guarded, RouteIsTrusted, Exclusive, Free, Creates
<1>7. ~office'.repaired => Succession'
  BY <1>2, <1>3, <1>4, FreeInTurnNext DEF Guarded, Succession, InTurn, Plain, Free
<1> QED
  BY <1>4, <1>5, <1>6, <1>7 DEF Guarded

\* Every request ends where it is.
LEMMA RestartKeeps ==
  ASSUME Guarded, Restart PROVE Guarded'
<1>1. /\ \A s \in Slots : reqs'[s] = Free
      /\ UNCHANGED <<note, anchor, flagged, hosted, audited, office, foreign, acts>>
  BY DEF Restart, Unwritten
<1>2. TypeOK'
  BY <1>1, RecordsAssumption, FreeIsRequest DEF Guarded, TypeOK, Restart, Mishap
<1>3. \A s \in Slots : Stands(reqs[s])'
  BY <1>1, FreeStandsNext DEF Stands, InStep, RowsStand, RouteStands, WritesOwn
<1>4. RouteIsTrusted' /\ Exclusive'
  BY <1>1 DEF Guarded, RouteIsTrusted, Exclusive, Free, Creates
<1>5. ~office'.repaired => Succession'
  BY <1>1, <1>2, FreeInTurnNext DEF Guarded, Succession, InTurn, Plain, Free
<1> QED
  BY <1>2, <1>3, <1>4, <1>5 DEF Guarded

-----------------------------------------------------------------------------
(***************************************************************************)
(* Writes                                                                  *)
(***************************************************************************)

\* A stranger's version, or none, is nobody's turn.
LEMMA TamperKeeps ==
  ASSUME Guarded, NEW k \in Kinds, Tamper(k) PROVE Guarded'
<1>1. /\ UNCHANGED <<anchor, flagged, hosted, audited, office, reqs, acts, mishaps>>
      /\ \A j \in Kinds : note'[j] \in {note[j], Foreign, Absent}
  BY DEF Tamper, Guarded, TypeOK
<1>2. TypeOK'
  BY <1>1, Fixed, RecordsAssumption DEF Guarded, TypeOK, Tamper
<1>3. RouteIsTrusted' /\ Exclusive'
  BY <1>1 DEF Guarded, RouteIsTrusted, Exclusive
<1>4. \A s \in Slots : Stands(reqs[s])'
  BY <1>1 DEF Guarded, Stands, InStep, RowsStand, RouteStands, WritesOwn
<1>5. ~office'.repaired => Succession'
  <2>1. SUFFICES ASSUME ~office.repaired PROVE Succession'
    BY <1>1
  <2>2. ASSUME NEW s \in Slots PROVE InTurn(reqs[s])'
    <3>1. reqs[s].key \in Kinds /\ InTurn(reqs[s])
      BY <2>1, OfOne DEF Request
    <3> QED
      BY <1>1, <3>1 DEF InTurn, Plain
  <2> QED
    BY <1>1, <2>1, <2>2 DEF Guarded, Succession, Plain
<1> QED
  BY <1>2, <1>3, <1>4, <1>5 DEF Guarded

\* A note that a request finds as it expects is the anchored version, or there is none.
LEMMA FitsIsAnchored ==
  ASSUME Guarded, ~office.repaired, NEW r \in Slots, reqs[r].pc = "write", Fits(reqs[r]),
         Plain(reqs[r].key)
  PROVE  anchor[reqs[r].key] = reqs[r].expected /\ reqs[r].next.n = anchor[reqs[r].key].n + 1
<1> DEFINE req == reqs[r]
<1>1. /\ req \in Request /\ Stands(req) /\ InTurn(req) /\ req.key \in Kinds
      /\ anchor[req.key] \in Value /\ anchor[req.key].n \in Nat
  BY OfOne DEF Request, Guarded, TypeOK, Value
<1>2. CASE Updates(req.op)
  <2>1. /\ req.expected # Absent /\ req.expected.by = anchor[req.key].by
        /\ req.expected.n <= anchor[req.key].n /\ req.next.n = req.expected.n + 1
    BY <1>1, <1>2 DEF InTurn
  <2>2. \/ note[req.key] \in {anchor[req.key], Foreign, Absent}
        \/ note[req.key].n = anchor[req.key].n + 1
    BY <1>1 DEF Guarded, Succession
  <2>3. note[req.key] = req.expected /\ req.expected # Foreign
    BY <2>1 DEF Fits, Plain, Foreign
  <2> QED
    BY <1>1, <2>1, <2>2, <2>3
<1>3. CASE Creates(req.op)
  BY <1>1, <1>3 DEF Stands, RouteStands, WritesOwn, Made, Absent
<1> QED
  BY <1>1, <1>2, <1>3 DEF Stands, InStep

\* While a write awaits its answer, no other one of the same record can succeed.
LEMMA WriteIsAlone ==
  ASSUME Guarded, ~office.repaired, NEW r \in Slots, reqs[r].pc = "write", Fits(reqs[r]),
         Plain(reqs[r].key), NEW s \in Slots, reqs[s].pc = "trust", reqs[s].key = reqs[r].key
  PROVE  FALSE
<1> DEFINE req == reqs[r]
<1> DEFINE other == reqs[s]
<1>1. /\ req \in Request /\ Stands(req) /\ InTurn(req) /\ req.key \in Kinds
      /\ other \in Request /\ Stands(other) /\ InTurn(other)
      /\ anchor[req.key].n \in Nat
  BY OfOne DEF Request, Guarded, TypeOK, Value
<1>2. anchor[req.key] = req.expected /\ note[req.key] = req.expected
  BY FitsIsAnchored DEF Fits
<1>3. note[req.key] \in {other.next, Foreign, Absent} /\ other.next.n = anchor[req.key].n + 1
  BY <1>1 DEF InTurn
<1>4. note[req.key] # other.next /\ note[req.key] # Foreign
  BY <1>1, <1>2, <1>3 DEF Plain, Foreign
<1>5. CASE Updates(req.op)
  BY <1>1, <1>2, <1>3, <1>4, <1>5 DEF Stands, RouteStands
<1>6. CASE Creates(req.op)
  <2>1. anchor[req.key] = Absent
    BY <1>1, <1>6 DEF Stands, RouteStands
  <2>2. Creates(other.op) /\ other.op = req.op
    BY <1>1, <1>6, <2>1 DEF Stands, InStep, RouteStands, Creates, Updates
  <2> QED
    BY <2>2, <1>6 DEF Guarded, Exclusive
<1> QED
  BY <1>1, <1>5, <1>6 DEF Stands, InStep

\* A write is made from the anchored version, whether its answer comes or not.
LEMMA WriteKeeps ==
  ASSUME Guarded, NEW r \in Slots, Write(r) PROVE Guarded'
<1> DEFINE req == reqs[r]
<1> DEFINE new == [req EXCEPT !.pc = "trust"]
<1>1. /\ req \in Request /\ Stands(req) /\ (~office.repaired => InTurn(req)) /\ req.pc = "write"
      /\ UNCHANGED <<anchor, hosted, audited, office, acts, foreign>>
      /\ req.key \in Kinds /\ req.next \in Value
  BY OfOne DEF Write, Request
<1>2. /\ new \in Request /\ new.op = req.op /\ new.pc = "trust" /\ new.key = req.key
      /\ new.rows = req.rows /\ new.todo = req.todo /\ new.expected = req.expected
      /\ new.next = req.next
  BY <1>1 DEF Request
<1>3. CASE /\ Fits(req) /\ note' = [note EXCEPT ![req.key] = req.next] /\ Goes(r, new)
           /\ UNCHANGED <<flagged, mishaps>>
  <2> HIDE DEF new
  <2>1. TypeOK'
    BY <1>1, <1>2, <1>3 DEF Guarded, TypeOK, Goes
  <2>2. Stands(new)
    <3>1. InStep(new)
      BY <1>1, <1>2 DEF Stands, InStep, Updates, Creates, Free
    <3>2. RowsStand(new) /\ RouteStands(new)
      BY <1>1, <1>2 DEF Stands, RowsStand, RouteStands
    <3>3. WritesOwn(new)
      BY <1>1, <1>2 DEF Stands, WritesOwn
    <3> QED
      BY <3>1, <3>2, <3>3 DEF Stands
  <2>3. RouteIsTrusted' /\ Exclusive' /\ \A s \in Slots : Stands(reqs[s])'
    BY <1>1, <1>2, <1>3, <2>2, OneStands
  <2>4. ASSUME ~office.repaired PROVE Succession'
    <3>1. /\ note'[req.key] = req.next /\ \A k \in Kinds : k # req.key => note'[k] = note[k]
          /\ reqs'[r] = new /\ \A s \in Slots : s # r => reqs'[s] = reqs[s]
      BY <1>1, <1>3 DEF Guarded, TypeOK, Goes
    <3>2. Plain(req.key) => anchor[req.key] = req.expected /\ req.next.n = anchor[req.key].n + 1
      BY <1>1, <1>3, <2>4, FitsIsAnchored
    <3>3. ASSUME NEW s \in Slots, reqs[s].pc = "trust", reqs[s].key = req.key PROVE ~Plain(req.key)
      BY <1>1, <1>3, <2>4, <3>3, WriteIsAlone
    <3>4. ASSUME NEW s \in Slots PROVE InTurn(reqs[s])'
      <4>1. CASE s = r
        BY <1>1, <1>2, <2>4, <3>1, <3>2, <4>1 DEF InTurn, Plain
      <4>2. CASE s # r
        <5>1. InTurn(reqs[s]) /\ reqs[s].key \in Kinds /\ reqs'[s] = reqs[s]
          BY <2>4, <3>1, <4>2, OfOne DEF Request
        <5> QED
          BY <1>1, <3>1, <3>3, <5>1 DEF InTurn, Plain
      <4> QED
        BY <4>1, <4>2
    <3>5. \A k \in Kinds : Plain(k)' =>
            note'[k] \in {anchor'[k], Foreign, Absent} \/ note'[k].n = anchor'[k].n + 1
      BY <1>1, <2>4, <3>1, <3>2 DEF Guarded, Succession, Plain
    <3>6. ASSUME NEW s \in Slots, NEW t \in Slots, reqs'[s].pc = "trust", reqs'[t].pc = "trust",
                 reqs'[s].key = reqs'[t].key, Plain(reqs[s].key)'
          PROVE  s = t
      BY <1>1, <1>2, <2>4, <3>1, <3>3, <3>6 DEF Guarded, Succession, Plain
    <3> QED
      BY <3>4, <3>5, <3>6 DEF Succession
  <2> QED
    BY <1>1, <2>1, <2>3, <2>4 DEF Guarded
<1>4. CASE /\ Ends(r) /\ UNCHANGED <<note, mishaps>>
           /\ IF req.op \in {"edit", "fire"} THEN Flag(req.key) ELSE UNCHANGED flagged
  <2>1. flagged' \subseteq {k \in Kinds : anchor[k] # Absent}
    BY <1>1, <1>4 DEF Guarded, TypeOK, Flag, Stands, RouteStands, Updates
  <2>2. TypeOK'
    BY <1>1, <1>4, <2>1, FreeIsRequest DEF Guarded, TypeOK, Ends, Goes
  <2> QED
    BY <1>1, <1>4, <2>2, OneEnds
<1>5. CASE /\ Mishap /\ Ends(r) /\ UNCHANGED flagged
           /\ note' \in {note, IF Fits(req) THEN [note EXCEPT ![req.key] = req.next] ELSE note}
  <2>1. TypeOK'
    BY <1>1, <1>5, FreeIsRequest, RecordsAssumption DEF Guarded, TypeOK, Mishap, Ends, Goes
  <2>2. CASE note' = note
    BY <1>1, <1>5, <2>1, <2>2, OneEnds
  <2>3. CASE Fits(req) /\ note' = [note EXCEPT ![req.key] = req.next]
    <3>1. Goes(r, Free) /\ Stands(Free) /\ Comes(Free)
      BY <1>5, FreeStands DEF Ends, Comes, Free, Creates
    <3>2. RouteIsTrusted' /\ Exclusive' /\ \A s \in Slots : Stands(reqs[s])'
      BY <1>1, <3>1, OneStands
    <3>3. ASSUME ~office.repaired PROVE Succession'
      <4>1. /\ note'[req.key] = req.next /\ \A k \in Kinds : k # req.key => note'[k] = note[k]
            /\ reqs'[r] = Free /\ \A s \in Slots : s # r => reqs'[s] = reqs[s]
        BY <1>1, <2>3, <3>1 DEF Guarded, TypeOK, Goes
      <4>2. Plain(req.key) => req.next.n = anchor[req.key].n + 1
        BY <1>1, <2>3, <3>3, FitsIsAnchored
      <4>3. ASSUME NEW s \in Slots, reqs[s].pc = "trust", reqs[s].key = req.key PROVE ~Plain(req.key)
        BY <1>1, <2>3, <3>3, <4>3, WriteIsAlone
      <4>4. ASSUME NEW s \in Slots PROVE InTurn(reqs[s])'
        <5>1. CASE s = r
          BY <2>1, <4>1, <5>1, FreeInTurnNext DEF InTurn, Plain
        <5>2. CASE s # r
          <6>1. InTurn(reqs[s]) /\ reqs[s].key \in Kinds /\ reqs'[s] = reqs[s]
            BY <3>3, <4>1, <5>2, OfOne DEF Request
          <6> QED
            BY <1>1, <4>1, <4>3, <6>1 DEF InTurn, Plain
        <5> QED
          BY <5>1, <5>2
      <4>5. \A k \in Kinds : Plain(k)' =>
              note'[k] \in {anchor'[k], Foreign, Absent} \/ note'[k].n = anchor'[k].n + 1
        BY <1>1, <3>3, <4>1, <4>2 DEF Guarded, Succession, Plain
      <4>6. \A s, t \in Slots :
              /\ reqs'[s].pc = "trust" /\ reqs'[t].pc = "trust"
              /\ reqs'[s].key = reqs'[t].key /\ Plain(reqs[s].key)'
              => s = t
        BY <1>1, <3>3, <4>1 DEF Guarded, Succession, Plain, Free
      <4> QED
        BY <4>4, <4>5, <4>6 DEF Succession
    <3> QED
      BY <1>1, <2>1, <3>2, <3>3 DEF Guarded
  <2> QED
    BY <1>5, <2>2, <2>3
<1> QED
  BY <1>3, <1>4, <1>5 DEF Write

\* The new key is sealed, and its row made.
LEMMA SealKeeps ==
  ASSUME Guarded, NEW r \in Slots, Seal(r) PROVE Guarded'
<1>1. TypeOK'
  BY FreeIsRequest DEF Guarded, TypeOK, Seal, Ends, Goes, Kinds
<1> QED
  BY <1>1, OneEnds DEF Seal

\* What is trusted now keeps the author, and is one version on.
LEMMA TrustSucceeds ==
  ASSUME Guarded, NEW r \in Slots, reqs[r].pc = "trust", Trust(reqs[r].key, reqs[r].next)
  PROVE  /\ Succeeds
         /\ anchor'[reqs[r].key] = reqs[r].next /\ reqs[r].next # Absent
         /\ \A k \in Kinds : k # reqs[r].key => anchor'[k] = anchor[k]
         /\ \A k \in Kinds : Plain(k)' <=> Plain(k)
         /\ reqs[r].next \in Value /\ reqs[r].key \in Kinds
<1> DEFINE req == reqs[r]
<1>1. req \in Request /\ Stands(req) /\ req.key \in Kinds /\ req.next \in Value
  BY OfOne DEF Request
<1>2. anchor'[req.key] = req.next /\ \A k \in Kinds : k # req.key => anchor'[k] = anchor[k]
  BY <1>1 DEF Trust, Guarded, TypeOK
<1>3. CASE Updates(req.op)
  <2>1. anchor[req.key] # Absent /\ req.next # Absent /\ req.next.by = anchor[req.key].by
    BY <1>1, <1>3 DEF Stands, RouteStands, WritesOwn, Absent
  <2> QED
    BY <1>1, <1>2, <2>1 DEF Succeeds, Plain
<1>4. CASE Creates(req.op)
  <2>1. anchor[req.key] = Absent /\ req.next = Made
    BY <1>1, <1>4 DEF Stands, RouteStands, WritesOwn
  <2>2. anchor[req.key].by # "stranger" /\ anchor'[req.key].by # "stranger"
    BY <1>2, <2>1 DEF Absent, Made
  <2> QED
    BY <1>1, <1>2, <2>1, <2>2, Fixed DEF Succeeds, Plain
<1> QED
  BY <1>1, <1>3, <1>4 DEF Stands, InStep

LEMMA TrustWrittenKeeps ==
  ASSUME Guarded, NEW r \in Slots, TrustWritten(r) PROVE Guarded'
<1> DEFINE req == reqs[r]
<1> DEFINE new == IF req.op = "hire" THEN [req EXCEPT !.pc = "seal"] ELSE Free
<1>1. /\ req \in Request /\ Stands(req) /\ req.pc = "trust" /\ Trust(req.key, req.next)
      /\ Goes(r, new) /\ UNCHANGED <<note, office, acts, foreign>>
      /\ flagged' = flagged \ {req.key}
  BY OfOne DEF TrustWritten, Ends, Trust
<1>2. /\ Succeeds /\ anchor'[req.key] = req.next /\ req.next # Absent
      /\ \A k \in Kinds : k # req.key => anchor'[k] = anchor[k]
      /\ \A k \in Kinds : Plain(k)' <=> Plain(k)
      /\ req.next \in Value /\ req.key \in Kinds
  BY <1>1, TrustSucceeds
<1>3. /\ hosted' \in {"none", "active", "archived"} /\ audited' \subseteq Kinds
      /\ mishaps' \in 0..MaxMishaps
  BY <1>2, RecordsAssumption DEF TrustWritten, Mishap, Guarded, TypeOK
<1>4. /\ new \in Request /\ new.pc \in {"seal", "idle"}
      /\ \/ new = Free
         \/ /\ new.op = "hire" /\ req.op = "hire" /\ new.pc = "seal" /\ new.key = req.key
            /\ new.rows = req.rows /\ new.todo = req.todo
  BY <1>1, FreeIsRequest DEF Request, Free
<1> HIDE DEF new
<1>5. reqs'[r] = new /\ \A s \in Slots : s # r => reqs'[s] = reqs[s]
  BY <1>1 DEF Goes, Guarded, TypeOK
<1>6. TypeOK'
  <2>1. anchor' \in [Kinds -> Value]
    BY <1>1, <1>2 DEF Trust, Guarded, TypeOK
  <2>2. flagged' \subseteq {k \in Kinds : anchor'[k] # Absent}
    BY <1>1, <1>2 DEF Guarded, TypeOK
  <2> QED
    BY <1>1, <1>3, <1>4, <2>1, <2>2 DEF Guarded, TypeOK, Goes
<1>7. RouteIsTrusted'
  <2>1. \A j \in Kinds : Rank(j) < Rank(req.key) => anchor[j] # Absent
    <3>1. CASE Updates(req.op)
      BY <1>1, <1>2, <3>1 DEF Stands, RouteStands, Guarded, RouteIsTrusted
    <3>2. CASE Creates(req.op)
      BY <1>1, <3>2 DEF Stands, RouteStands, InStep, Creates, Kinds, Rank
    <3> QED
      BY <1>1, <3>1, <3>2 DEF Stands, InStep
  <2>2. \A j, k \in Kinds : Rank(j) < Rank(k) /\ anchor'[k] # Absent => anchor[j] # Absent
    BY <1>2, <2>1 DEF Guarded, RouteIsTrusted
  <2> QED
    BY <1>2, <2>2 DEF RouteIsTrusted, Succeeds
<1>8. Stands(reqs[r])'
  <2>1. CASE new = Free
    BY <1>5, <2>1, FreeStandsNext DEF Stands, InStep, RowsStand, RouteStands, WritesOwn
  <2>2. CASE new # Free
    <3>1. InStep(reqs[r])'
      BY <1>1, <1>4, <1>5, <2>2 DEF Stands, InStep
    <3>2. RowsStand(reqs[r])'
      BY <1>1, <1>2, <1>4, <1>5, <2>2 DEF Stands, RowsStand, Succeeds, Updates
    <3> QED
      BY <1>4, <1>5, <2>2, <3>1, <3>2 DEF Stands, RouteStands, WritesOwn, Updates, Creates
  <2> QED
    BY <2>1, <2>2
<1>9. ASSUME NEW s \in Slots, s # r PROVE Stands(reqs[s])'
  <2>1. reqs[s] \in Request /\ Stands(reqs[s]) /\ reqs'[s] = reqs[s]
    BY <1>5, <1>9, OfOne
  <2>2. ASSUME Creates(reqs[s].op), reqs[s].pc \in {"verify", "write", "trust"}
        PROVE  anchor'[reqs[s].key] = Absent
    <3>1. anchor[reqs[s].key] = Absent /\ reqs[s].key \in Kinds
      BY <2>1, <2>2 DEF Stands, RouteStands, Request
    <3>2. ASSUME reqs[s].key = req.key PROVE FALSE
      <4>1. Creates(req.op)
        BY <1>1, <3>1, <3>2 DEF Stands, InStep, RouteStands
      <4>2. req.op = reqs[s].op
        BY <1>1, <2>1, <2>2, <3>2, <4>1 DEF Stands, InStep, Creates
      <4> QED
        BY <1>9, <4>1, <4>2 DEF Guarded, Exclusive
    <3> QED
      BY <1>2, <3>1, <3>2
  <2> QED
    BY <1>2, <2>1, <2>2, StandsOn
<1>10. Exclusive'
  BY <1>1, <1>4, <1>5 DEF Guarded, Exclusive, Free, Creates
<1>11. ASSUME ~office.repaired PROVE Succession'
  <2>1. \A k \in Kinds : anchor[k].n \in Nat /\ anchor'[k].n \in Nat
    BY <1>6 DEF Guarded, TypeOK, Value
  <2>2. Plain(req.key) => /\ req.next.n = anchor[req.key].n + 1
                          /\ note[req.key] \in {req.next, Foreign, Absent}
    BY <1>1, <1>11, OfOne DEF InTurn
  <2>3. \A k \in Kinds : Plain(k)' => Plain(k) /\ anchor[k].n <= anchor'[k].n
    BY <1>2, <2>1, <2>2
  <2>4. ASSUME NEW s \in Slots, s # r PROVE InTurn(reqs[s])'
    <3>1. /\ reqs[s] \in Request /\ reqs[s].key \in Kinds /\ Stands(reqs[s]) /\ InTurn(reqs[s])
          /\ reqs'[s] = reqs[s] /\ reqs[s].expected.n \in Nat
          /\ \A k \in Kinds : reqs[s].rows[k].n \in Nat
      BY <1>5, <1>11, <2>4, OfOne DEF Request, Value
    <3>2. (reqs[s].op # "bootstrap" => \A k \in Kinds : Plain(k) => reqs[s].rows[k].n <= anchor[k].n)'
      BY <2>1, <2>3, <3>1 DEF InTurn
    <3>3. ASSUME reqs[s].pc \in {"reverify", "write"}, Updates(reqs[s].op), Plain(reqs[s].key)'
          PROVE  /\ reqs[s].expected # Absent /\ reqs[s].expected.by = anchor'[reqs[s].key].by
                 /\ reqs[s].expected.n <= anchor'[reqs[s].key].n
                 /\ reqs[s].next.n = reqs[s].expected.n + 1
      <4>1. /\ reqs[s].expected # Absent /\ reqs[s].expected.by = anchor[reqs[s].key].by
            /\ reqs[s].expected.n <= anchor[reqs[s].key].n
            /\ reqs[s].next.n = reqs[s].expected.n + 1
        BY <2>3, <3>1, <3>3 DEF InTurn
      <4>2. anchor[reqs[s].key] # Absent
        BY <3>1, <3>3 DEF Stands, RouteStands
      <4> QED
        BY <1>2, <2>1, <2>3, <3>1, <3>3, <4>1, <4>2 DEF Succeeds
    <3>4. ASSUME reqs[s].pc = "trust", Plain(reqs[s].key)'
          PROVE  /\ anchor'[reqs[s].key] = reqs[s].expected
                 /\ reqs[s].next.n = anchor'[reqs[s].key].n + 1
                 /\ note'[reqs[s].key] \in {reqs[s].next, Foreign, Absent}
      <4>1. reqs[s].key # req.key
        BY <1>1, <1>11, <2>3, <2>4, <3>1, <3>4 DEF Guarded, Succession
      <4> QED
        BY <1>1, <1>2, <2>3, <3>1, <3>4, <4>1 DEF InTurn
    <3> QED
      BY <3>1, <3>2, <3>3, <3>4 DEF InTurn, Plain
  <2>5. InTurn(reqs[r])'
    <3>1. InTurn(req)
      BY <1>11, OfOne
    <3>2. \A k \in Kinds : req.rows[k].n \in Nat
      BY <1>1 DEF Request, Value
    <3>3. CASE new = Free
      BY <1>5, <1>6, <3>3, FreeInTurnNext DEF InTurn, Plain
    <3>4. CASE new # Free
      BY <1>4, <1>5, <2>1, <2>3, <3>1, <3>2, <3>4 DEF InTurn, Plain
    <3> QED
      BY <3>3, <3>4
  <2>6. \A k \in Kinds : Plain(k)' =>
          note'[k] \in {anchor'[k], Foreign, Absent} \/ note'[k].n = anchor'[k].n + 1
    BY <1>1, <1>2, <1>11, <2>2 DEF Guarded, Succession
  <2>7. \A s, t \in Slots :
          /\ reqs'[s].pc = "trust" /\ reqs'[t].pc = "trust"
          /\ reqs'[s].key = reqs'[t].key /\ Plain(reqs[s].key)'
          => s = t
    <3>1. \A s \in Slots : reqs'[s].pc = "trust" => s # r /\ reqs'[s] = reqs[s] /\ reqs[s].key \in Kinds
      BY <1>4, <1>5, OfOne DEF Request
    <3>2. \A s \in Slots : reqs'[s].pc = "trust" /\ Plain(reqs[s].key)' => Plain(reqs[s].key)
      BY <1>2, <3>1 DEF Plain
    <3> QED
      BY <1>11, <3>1, <3>2 DEF Guarded, Succession
  <2> QED
    BY <2>4, <2>5, <2>6, <2>7 DEF Succession
<1> QED
  BY <1>1, <1>6, <1>7, <1>8, <1>9, <1>10, <1>11 DEF Guarded

-----------------------------------------------------------------------------
(***************************************************************************)
(* The theorems                                                            *)
(***************************************************************************)

LEMMA InitGuarded == ASSUME Init PROVE Guarded
<1>1. \A r \in Slots : reqs[r] = Free
  BY DEF Init
<1>2. TypeOK
  <2>1. note \in [Kinds -> Value] /\ anchor \in [Kinds -> Value]
    BY Fixed DEF Init, NoRows
  <2>2. office \in [initialized : BOOLEAN, confirmed : BOOLEAN, repaired : BOOLEAN]
    <3>1. \/ office = [initialized |-> TRUE, confirmed |-> TRUE, repaired |-> FALSE]
          \/ office = [initialized |-> FALSE, confirmed |-> FALSE, repaired |-> FALSE]
      BY DEF Init
    <3>2. CASE office = [initialized |-> TRUE, confirmed |-> TRUE, repaired |-> FALSE]
      BY <3>2
    <3>3. CASE office = [initialized |-> FALSE, confirmed |-> FALSE, repaired |-> FALSE]
      BY <3>3
    <3> QED
      BY <3>1, <3>2, <3>3
  <2>3. reqs \in [Slots -> Request] /\ flagged = {}
    BY FreeIsRequest DEF Init
  <2>4. hosted \in {"none", "active", "archived"} /\ audited \subseteq Kinds
    BY DEF Init
  <2>5. acts \in 0..MaxActs /\ foreign \in 0..MaxForeign /\ mishaps \in 0..MaxMishaps
    BY RecordsAssumption DEF Init
  <2> QED
    BY <2>1, <2>2, <2>3, <2>4, <2>5 DEF TypeOK
<1>3. RouteIsTrusted
  BY DEF Init, RouteIsTrusted, NoRows
<1>4. Exclusive
  BY <1>1 DEF Exclusive, Free, Creates
<1>5. \A r \in Slots : Stands(reqs[r])
  BY <1>1, FreeStands
<1>6. Succession
  <2>1. \A k \in Kinds : note[k] = anchor[k] \/ note[k].n = anchor[k].n + 1
    <3>1. Made.n = Absent.n + 1
      BY DEF Made, Absent
    <3> QED
      BY <3>1 DEF Init, NoRows
  <2> QED
    BY <1>1, <1>2, <2>1, FreeInTurn DEF Succession, Free
<1> QED
  BY <1>2, <1>3, <1>4, <1>5, <1>6 DEF Guarded

LEMMA StutterGuarded == ASSUME Guarded, UNCHANGED recordVars PROVE Guarded'
<1> USE DEF recordVars
<1>1. TypeOK' /\ RouteIsTrusted' /\ Exclusive'
  BY DEF Guarded, TypeOK, RouteIsTrusted, Exclusive
<1>2. \A r \in Slots : Stands(reqs[r])'
  BY DEF Guarded, Stands, InStep, RowsStand, RouteStands, WritesOwn
<1>3. ~office'.repaired => Succession'
  BY DEF Guarded, Succession, InTurn, Plain
<1> QED
  BY <1>1, <1>2, <1>3 DEF Guarded

LEMMA StepGuarded == ASSUME Guarded, [Next]_recordVars PROVE Guarded'
<1>1. ASSUME NEW r \in Slots, Proceeds(r) PROVE Guarded'
  BY <1>1, ImportKeeps, EndBootstrapKeeps, VerifyKeeps, VerifiedKeeps, ReverifyKeeps, WriteKeeps,
     TrustWrittenKeeps, SealKeeps, RepairLookKeeps, RepairPutKeeps, RepairCheckKeeps,
     RepairSettleKeeps DEF Proceeds
<1>2. ASSUME NEW r \in Slots, BeginBootstrap(r) \/ Begins(r) \/ BeginRepair(r) PROVE Guarded'
  BY <1>2, BeginBootstrapKeeps, BeginsKeeps, BeginRepairKeeps
<1>3. ASSUME NEW k \in Kinds, Tamper(k) PROVE Guarded'
  BY <1>3, TamperKeeps
<1> QED
  BY <1>1, <1>2, <1>3, RestartKeeps, StutterGuarded DEF Next

\* What requests hold agrees with what is trusted, for any number of them.
THEOREM RecordsGuarded == Spec => []Guarded
  BY InitGuarded, StepGuarded, PTL DEF Spec

\* Records, rows and requests stay well formed, and what is flagged has a row.
THEOREM RecordsTypeCorrect == Spec => []TypeOK
<1>1. Guarded => TypeOK
  BY DEF Guarded
<1> QED
  BY <1>1, RecordsGuarded, PTL

\* No task is trusted without its workflow, and no workflow without its employee, whatever
\* an import skips, a conflict ends or a repair puts back.
THEOREM RouteCorrect == Spec => []RouteIsTrusted
<1>1. Guarded => RouteIsTrusted
  BY DEF Guarded
<1> QED
  BY <1>1, RecordsGuarded, PTL

\* Until a repair, a write that awaits its answer was made from the version that is
\* trusted: concurrent updates of a record follow one another.
THEOREM TurnCorrect == Spec => []WriteFollowsAnchor
<1>1. Guarded => WriteFollowsAnchor
  BY DEF Guarded, Succession, InTurn, Plain, WriteFollowsAnchor
<1> QED
  BY <1>1, RecordsGuarded, PTL

\* One step trusts a stranger's version only while the office is being imported.
LEMMA StepTrustsNoStranger ==
  ASSUME Guarded, [Next]_recordVars, office.initialized, NEW k \in Kinds, anchor'[k].by = "stranger"
  PROVE  anchor[k].by = "stranger"
<1>1. CASE anchor' = anchor
  BY <1>1
<1>2. ASSUME NEW r \in Slots, Import(r) PROVE FALSE
  BY <1>2, OfOne DEF Import, Stands, InStep, Guarded, Exclusive
<1>3. ASSUME NEW r \in Slots, TrustWritten(r) PROVE anchor[k].by = "stranger"
  BY <1>3, TrustSucceeds DEF TrustWritten, Plain
<1>4. ASSUME NEW r \in Slots, RepairSettle(r) PROVE anchor[k].by = "stranger"
  <2>1. /\ reqs[r] \in Request /\ Stands(reqs[r]) /\ reqs[r].op = "repair" /\ reqs[r].key \in Kinds
    BY <1>4, OfOne DEF RepairSettle, Stands, InStep, Request
  <2>2. reqs[r].rows[reqs[r].key].by = anchor[reqs[r].key].by
    BY <2>1 DEF Stands, RowsStand
  <2>3. anchor' = [anchor EXCEPT ![reqs[r].key] = reqs[r].rows[reqs[r].key]]
    BY <1>4 DEF RepairSettle, Trust
  <2> QED
    BY <2>2, <2>3 DEF Guarded, TypeOK
<1>5. ASSUME NEW r \in Slots, BeginBootstrap(r) \/ Begins(r) \/ BeginRepair(r) PROVE anchor' = anchor
  BY <1>5 DEF BeginBootstrap, Begins, BeginRepair, BeginConfirm, BeginHire, BeginEdit, BeginFire,
              BeginPlan, BeginOrder, BeginWork, Begin, Unwritten
<1>6. ASSUME NEW r \in Slots, Proceeds(r), ~Import(r), ~TrustWritten(r), ~RepairSettle(r)
      PROVE  anchor' = anchor
  BY <1>6 DEF Proceeds, EndBootstrap, Verify, Verified, Reverify, Write, Seal, RepairLook, RepairPut,
              RepairCheck, Unwritten
<1> QED
  BY <1>1, <1>2, <1>3, <1>4, <1>5, <1>6 DEF Next, Tamper, Restart, Unwritten, recordVars

\* What a stranger wrote becomes trusted by the import or never.
THEOREM ImportCorrect == Spec => TrustEndsWithImport
<1>1. Guarded /\ [Next]_recordVars =>
        [office.initialized =>
           \A k \in Kinds : anchor'[k].by = "stranger" => anchor[k].by = "stranger"]_recordVars
  BY StepTrustsNoStranger
<1> QED
  BY <1>1, RecordsGuarded, PTL DEF Spec, TrustEndsWithImport
===============================================================================
