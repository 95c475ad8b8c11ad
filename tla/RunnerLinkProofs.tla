---------------------------- MODULE RunnerLinkProofs ----------------------------
(***************************************************************************)
(* Lemmas about RunnerLink, for any number of codes, runners and mishaps:  *)
(* every operation keeps Linked.  RunnerJobsProofs puts them together: the *)
(* runner's whole behaviour is there.                                      *)
(***************************************************************************)
EXTENDS RunnerLink, SequenceTheorems, FiniteSetTheorems, TLAPS

\* An operation on the copies of runner.json and the bounds, with its types.
LEMMA CopiesKeep ==
  ASSUME Linked, UNCHANGED <<pairings, runners>>,
         code' \in {0} \union Codes,
         \A copy \in {file', memory', adding'} : copy \in Config /\ copy.runner \in 0..Len(runners),
         mishaps' \in 0..MaxMishaps, acts' \in 0..MaxActs
  PROVE  Linked'
<1>1. LinkTypeOK'
  BY DEF Linked, LinkTypeOK
<1>2. CodesAreUsedUp' /\ CodeIsOneTime' /\ RunnerLimit'
  BY DEF Linked, CodesAreUsedUp, CodeIsOneTime, RunnerLimit, Active
<1> QED
  BY <1>1, <1>2 DEF Linked

\* The copies there are.
LEMMA Copies ==
  ASSUME Linked
  PROVE  \A copy \in {file, memory, adding, NoConfig} : copy \in Config /\ copy.runner \in 0..Len(runners)
<1>1. NoConfig \in Config /\ NoConfig.runner \in 0..Len(runners)
  BY LenProperties DEF NoConfig, Config, Linked, LinkTypeOK
<1> QED
  BY <1>1 DEF Linked, LinkTypeOK

\* The two bounds.
LEMMA Bounds == /\ Linked /\ Mishap => mishaps' \in 0..MaxMishaps
                /\ Linked /\ Act => acts' \in 0..MaxActs
  BY LinkAssumption DEF Linked, LinkTypeOK, Mishap, Act

\* A code is made, or closed: no code that let somebody in is open again.
LEMMA CreatePairingKeeps == ASSUME Linked, CreatePairing PROVE Linked'
<1>1. /\ pairings \in Seq({"open", "closed"}) /\ Len(pairings) < MaxCodes
      /\ pairings' = Append(pairings, "open") /\ acts' \in 0..MaxActs
      /\ UNCHANGED <<runners, code, file, memory, adding, mishaps>>
  BY Bounds DEF CreatePairing, Linked, LinkTypeOK
<1>2. /\ pairings' \in Seq({"open", "closed"}) /\ Len(pairings') = Len(pairings) + 1
      /\ DOMAIN pairings = 1..Len(pairings) /\ DOMAIN pairings' = 1..Len(pairings')
      /\ \A c \in DOMAIN pairings : pairings'[c] = pairings[c]
      /\ Len(pairings) \in Nat
  BY <1>1, AppendProperties, LenProperties
<1>3. LinkTypeOK'
  BY <1>1, <1>2, LinkAssumption DEF Linked, LinkTypeOK
<1>4. CodesAreUsedUp'
  BY <1>1, <1>2 DEF Linked, CodesAreUsedUp
<1>5. CodeIsOneTime' /\ RunnerLimit'
  BY <1>1 DEF Linked, CodeIsOneTime, RunnerLimit, Active
<1> QED
  BY <1>3, <1>4, <1>5 DEF Linked

\* A closed code stays closed, and there are as many codes.
LEMMA CloseKeeps ==
  ASSUME Linked, NEW c \in DOMAIN pairings
  PROVE  /\ [pairings EXCEPT ![c] = "closed"] \in Seq({"open", "closed"})
         /\ Len([pairings EXCEPT ![c] = "closed"]) = Len(pairings)
         /\ DOMAIN [pairings EXCEPT ![c] = "closed"] = DOMAIN pairings
         /\ \A d \in DOMAIN pairings : [pairings EXCEPT ![c] = "closed"][d] =
              IF d = c THEN "closed" ELSE pairings[d]
<1>1. pairings \in Seq({"open", "closed"})
  BY DEF Linked, LinkTypeOK
<1> QED
  BY <1>1, ExceptSeq, LenProperties

LEMMA ExpirePairingKeeps == ASSUME Linked, NEW c \in Codes, ExpirePairing(c) PROVE Linked'
<1>1. c \in DOMAIN pairings /\ pairings' = [pairings EXCEPT ![c] = "closed"]
      /\ UNCHANGED <<runners, code, file, memory, adding, mishaps, acts>>
  BY DEF ExpirePairing, Pairable, bounds
<1>2. LinkTypeOK'
  BY <1>1, CloseKeeps DEF Linked, LinkTypeOK
<1>3. CodesAreUsedUp'
  BY <1>1, CloseKeeps DEF Linked, CodesAreUsedUp
<1>4. CodeIsOneTime' /\ RunnerLimit'
  BY <1>1 DEF Linked, CodeIsOneTime, RunnerLimit, Active
<1> QED
  BY <1>2, <1>3, <1>4 DEF Linked

LEMMA ActiveIsFinite == ASSUME Linked PROVE IsFiniteSet(Active) /\ Cardinality(Active) \in Nat
<1>1. Active \in SUBSET (1..Len(runners)) /\ Len(runners) \in Nat
  BY LenProperties DEF Active, Linked, LinkTypeOK
<1>2. IsFiniteSet(1..Len(runners))
  BY <1>1, FS_Interval
<1>3. IsFiniteSet(Active)
  BY <1>1, <1>2, FS_Subset
<1> QED
  BY <1>3, FS_CardinalityType

\* The transaction of POST pair: an open code has let nobody in, and there is room.
LEMMA EnrolKeeps ==
  ASSUME Linked, Admits(code), Enrol, UNCHANGED <<memory, adding, acts>>, code' = 0,
         file' \in {file, [NoConfig EXCEPT !.runner = Len(runners) + 1]}, mishaps' \in 0..MaxMishaps
  PROVE  Linked'
<1> DEFINE new == [code |-> code, revoked |-> FALSE]
<1>1. /\ runners \in Seq(Runner) /\ code \in DOMAIN pairings /\ pairings[code] = "open"
      /\ code \in Codes /\ new \in Runner
  BY LenProperties DEF Linked, LinkTypeOK, Admits, Pairable, Runner, Codes
<1>2. /\ runners' = Append(runners, new) /\ pairings' = [pairings EXCEPT ![code] = "closed"]
  BY DEF Enrol
<1>3. new.code = code /\ ~new.revoked
  OBVIOUS
<1> HIDE DEF new
<1>4. /\ runners' \in Seq(Runner) /\ Len(runners') = Len(runners) + 1 /\ Len(runners) \in Nat
      /\ DOMAIN runners = 1..Len(runners) /\ DOMAIN runners' = 1..(Len(runners) + 1)
      /\ \A r \in 1..Len(runners) : runners'[r] = runners[r]
      /\ runners'[Len(runners) + 1] = new
  BY <1>1, <1>2, AppendProperties, LenProperties
<1>5. LinkTypeOK'
  <2>1. file' \in Config /\ file'.runner \in 0..Len(runners')
    <3>1. CASE file' = file
      BY <1>4, <3>1 DEF Linked, LinkTypeOK
    <3>2. CASE file' = [NoConfig EXCEPT !.runner = Len(runners) + 1]
      <4>1. file' = [runner |-> Len(runners) + 1, behind |-> FALSE, folder |-> FALSE]
        BY <3>2 DEF NoConfig
      <4>2. Len(runners) + 1 \in Nat
        BY <1>4
      <4> QED
        BY <1>4, <4>1, <4>2 DEF Config
    <3> QED
      BY <3>1, <3>2
  <2>2. \A copy \in {memory, adding} : copy \in Config /\ copy.runner \in 0..Len(runners')
    BY <1>4 DEF Linked, LinkTypeOK
  <2> QED
    BY <1>1, <1>2, <1>4, <2>1, <2>2, CloseKeeps DEF Linked, LinkTypeOK
<1>6. CodesAreUsedUp'
  BY <1>1, <1>2, <1>3, <1>4, CloseKeeps DEF Linked, CodesAreUsedUp
<1>7. CodeIsOneTime'
  BY <1>1, <1>3, <1>4 DEF Linked, CodesAreUsedUp, CodeIsOneTime
<1>8. RunnerLimit'
  <2>1. Active' = Active \union {Len(runners) + 1}
    BY <1>3, <1>4 DEF Active
  <2> DEFINE was == Active
  <2>2. IsFiniteSet(was) /\ Cardinality(was) \in Nat /\ Cardinality(was) < MaxRunners
    BY ActiveIsFinite DEF Admits
  <2> HIDE DEF was
  <2>3. Cardinality(was \union {Len(runners) + 1}) <= Cardinality(was) + 1
    <3>1. Cardinality(was \union {Len(runners) + 1}) =
            IF Len(runners) + 1 \in was THEN Cardinality(was) ELSE Cardinality(was) + 1
      BY <2>2, FS_AddElement, Zenon
    <3> QED
      BY <2>2, <3>1
  <2>4. Cardinality(was \union {Len(runners) + 1}) <= MaxRunners
    <3>1. Cardinality(was \union {Len(runners) + 1}) \in Nat
      BY <2>2, FS_AddElement, FS_CardinalityType
    <3> QED
      BY <2>2, <2>3, <3>1, LinkAssumption
  <2> QED
    BY <2>1, <2>4 DEF RunnerLimit, was
<1> QED
  BY <1>5, <1>6, <1>7, <1>8 DEF Linked

LEMMA PairKeeps == ASSUME Linked, Pair PROVE Linked'
<1>1. CASE Admits(code) /\ Enrol
  <2>1. \/ file' = [NoConfig EXCEPT !.runner = Len(runners) + 1] /\ UNCHANGED mishaps
        \/ Mishap /\ UNCHANGED file
    BY <1>1 DEF Pair
  <2>2. mishaps' \in 0..MaxMishaps
    BY <2>1, Bounds DEF Linked, LinkTypeOK
  <2> QED
    BY <1>1, <2>1, <2>2, EnrolKeeps DEF Pair
<1>2. CASE UNCHANGED <<pairings, runners, file, mishaps>>
  BY <1>2, CopiesKeep, Copies DEF Pair, Linked, LinkTypeOK
<1> QED
  BY <1>1, <1>2 DEF Pair

\* A runner that is unplugged leaves room, and keeps its code.
LEMMA UnplugKeeps == ASSUME Linked, NEW r \in DOMAIN runners, Unplug(r) PROVE Linked'
<1> DEFINE new == [runners[r] EXCEPT !.revoked = TRUE]
<1>1. /\ runners \in Seq(Runner) /\ r \in 1..Len(runners) /\ runners' = [runners EXCEPT ![r] = new]
      /\ acts' \in 0..MaxActs /\ UNCHANGED <<pairings, code, file, memory, adding, mishaps>>
  BY Bounds, LenProperties DEF Unplug, Linked, LinkTypeOK
<1>2. new \in Runner /\ new.code = runners[r].code /\ new.revoked
  <2>1. runners[r] \in Runner
    BY <1>1, ElementOfSeq
  <2> QED
    BY <2>1 DEF Runner
<1> HIDE DEF new
<1>3. /\ runners' \in Seq(Runner) /\ Len(runners') = Len(runners) /\ DOMAIN runners' = DOMAIN runners
      /\ DOMAIN runners = 1..Len(runners)
      /\ \A s \in DOMAIN runners : runners'[s] = IF s = r THEN new ELSE runners[s]
  BY <1>1, <1>2, ExceptSeq, LenProperties
<1>4. LinkTypeOK'
  BY <1>1, <1>3 DEF Linked, LinkTypeOK
<1>5. CodesAreUsedUp' /\ CodeIsOneTime'
  BY <1>1, <1>2, <1>3 DEF Linked, CodesAreUsedUp, CodeIsOneTime
<1>6. RunnerLimit'
  <2>1. Active' \in SUBSET Active
    BY <1>2, <1>3 DEF Active
  <2>2. Cardinality(Active') <= Cardinality(Active) /\ Cardinality(Active') \in Nat
    BY <2>1, ActiveIsFinite, FS_Subset, FS_CardinalityType
  <2> QED
    BY <2>2, ActiveIsFinite, LinkAssumption DEF Linked, RunnerLimit
<1> QED
  BY <1>4, <1>5, <1>6 DEF Linked

\* The operations on the copies of runner.json: none of them makes up a runner.
LEMMA CopyingKeeps ==
  ASSUME Linked,
         \/ \E c \in Codes : Connect(c)
         \/ ConnectStops \/ Forget \/ Start \/ Heartbeat \/ HeartbeatUnanswered
         \/ AddLoads \/ AddSaves \/ AddStops
  PROVE  Linked'
<1>1. /\ code \in {0} \union Codes /\ mishaps \in 0..MaxMishaps /\ acts \in 0..MaxActs
      /\ Mishap => mishaps' \in 0..MaxMishaps
      /\ Act => acts' \in 0..MaxActs
  BY Bounds DEF Linked, LinkTypeOK
<1>2. ASSUME NEW copy \in {file, memory, adding}
      PROVE  /\ [copy EXCEPT !.behind = TRUE] \in Config
             /\ [copy EXCEPT !.folder = TRUE] \in Config
             /\ [copy EXCEPT !.behind = TRUE].runner = copy.runner
             /\ [copy EXCEPT !.folder = TRUE].runner = copy.runner
  BY <1>2, Copies DEF Config
<1>3. CASE \E c \in Codes : Connect(c)
  BY <1>1, <1>3, Copies, CopiesKeep DEF Connect, bounds
<1>4. CASE ConnectStops
  BY <1>1, <1>4, Copies, CopiesKeep DEF ConnectStops
<1>5. CASE Forget
  BY <1>1, <1>5, Copies, CopiesKeep DEF Forget
<1>6. CASE Start
  BY <1>1, <1>6, Copies, CopiesKeep DEF Start, bounds
<1>7. CASE Heartbeat
  BY <1>1, <1>2, <1>7, Copies, CopiesKeep DEF Heartbeat, Overtaken, bounds
<1>8. CASE HeartbeatUnanswered
  BY <1>1, <1>2, <1>8, Copies, CopiesKeep DEF HeartbeatUnanswered, Overtaken
<1>9. CASE AddLoads
  BY <1>1, <1>9, Copies, CopiesKeep DEF AddLoads
<1>10. CASE AddSaves
  BY <1>1, <1>2, <1>10, Copies, CopiesKeep DEF AddSaves, bounds
<1>11. CASE AddStops
  BY <1>1, <1>11, Copies, CopiesKeep DEF AddStops
<1> QED
  BY <1>3, <1>4, <1>5, <1>6, <1>7, <1>8, <1>9, <1>10, <1>11

\* The bounds alone, and the end of `start`.
LEMMA BoundsKeep ==
  ASSUME Linked, UNCHANGED <<pairings, runners, code, file, adding>>,
         memory' \in {memory, NoConfig}, Mishap \/ UNCHANGED mishaps, Act \/ UNCHANGED acts
  PROVE  Linked'
<1>1. code' \in {0} \union Codes /\ mishaps' \in 0..MaxMishaps /\ acts' \in 0..MaxActs
  BY Bounds DEF Linked, LinkTypeOK
<1> QED
  BY <1>1, Copies, CopiesKeep
===============================================================================
