------------------------------- MODULE RunnerLink -------------------------------
(***************************************************************************)
(* How a computer becomes a runner of an office and keeps in touch         *)
(* (apps/web/lib/local-runner.ts, the routes under api/runners and         *)
(* workspaces/.../runners, apps/runner/src/cli.ts): one-time pairing       *)
(* codes, the bearer token, the numbered heartbeats, and the file          *)
(* runner.json, which `connect`, `start`, `project add` and `forget` all   *)
(* read or write whole, each in a process of its own.                      *)
(*                                                                         *)
(* Handlers of the server run between two awaits and are single steps.     *)
(* The computer's requests may be lost, and so may the answers.            *)
(*                                                                         *)
(* Data kept abstract:                                                     *)
(*  - the sequence number of a copy of the configuration is only compared  *)
(*    with last_sequence of the server: a copy is behind when its next     *)
(*    number has been used;                                                *)
(*  - keys, tokens, labels, versions and capabilities are left out: a copy *)
(*    of the configuration names the runner whose token it holds;          *)
(*  - a code that has expired, was consumed or has been deleted is closed. *)
(***************************************************************************)
EXTENDS Integers, FiniteSets, Sequences

CONSTANTS
  MaxCodes,    \* bound: pairing codes the office makes; each is fresh
  MaxRunners,  \* active runners of an office (5 in the code)
  MaxMishaps,  \* bound: lost requests or answers, and processes killed
  MaxActs      \* bound: what people do to codes, runners, folders, grants and failed jobs

ASSUME LinkAssumption ==
  /\ MaxRunners \in Nat \ {0}
  /\ {MaxCodes, MaxMishaps, MaxActs} \subseteq Nat

VARIABLES
  pairings,  \* runner_pairings: what became of each code, in order of creation
  runners,   \* local_runners, in order of creation
  code,      \* the code `connect` holds a challenge for, or 0
  file,      \* runner.json
  memory,    \* the configuration in the memory of `start`
  adding,    \* the configuration in the memory of `project add`
  mishaps, acts

bounds == <<mishaps, acts>>
linkState == <<pairings, runners, code, file, memory, adding>>
linkVars == <<linkState, bounds>>

Codes == 1..MaxCodes

\* LocalRunnerRow: the code is kept to tell who was let in by which.
Runner == [code : Codes, revoked : BOOLEAN]

\* runnerConfigSchema: runner 0 is no configuration. folder: the project
\* folder is mapped.
Config == [runner : Nat, behind : BOOLEAN, folder : BOOLEAN]

NoConfig == [runner |-> 0, behind |-> FALSE, folder |-> FALSE]

LinkTypeOK ==
  /\ pairings \in Seq({"open", "closed"}) /\ Len(pairings) <= MaxCodes
  /\ runners \in Seq(Runner)
  /\ code \in {0} \union Codes
  /\ \A copy \in {file, memory, adding} : copy \in Config /\ copy.runner \in 0..Len(runners)
  /\ mishaps \in 0..MaxMishaps /\ acts \in 0..MaxActs

LinkInit ==
  /\ pairings = <<>>
  /\ runners = <<>>
  /\ code = 0
  /\ file = NoConfig /\ memory = NoConfig /\ adding = NoConfig
  /\ mishaps = 0 /\ acts = 0

Mishap == mishaps < MaxMishaps /\ mishaps' = mishaps + 1

Act == acts < MaxActs /\ acts' = acts + 1

-----------------------------------------------------------------------------
(***************************************************************************)
(* Pairing                                                                 *)
(***************************************************************************)

\* listWorkspaceRunners
Active == {r \in DOMAIN runners : ~runners[r].revoked}

\* pairingByCode
Pairable(c) == c \in DOMAIN pairings /\ pairings[c] = "open"

\* POST runners: closed codes are deleted, other open ones stay.
CreatePairing ==
  /\ Act
  /\ Len(pairings) < MaxCodes
  /\ Cardinality(Active) < MaxRunners
  /\ pairings' = Append(pairings, "open")
  /\ UNCHANGED <<runners, code, file, memory, adding, mishaps>>

\* Ten minutes pass.
ExpirePairing(c) ==
  /\ Pairable(c)
  /\ pairings' = [pairings EXCEPT ![c] = "closed"]
  /\ UNCHANGED <<runners, code, file, memory, adding, bounds>>

\* `connect` on a computer without a configuration, up to the challenge.
Connect(c) ==
  /\ file = NoConfig /\ code = 0
  /\ Pairable(c)
  /\ code' = c
  /\ UNCHANGED <<pairings, runners, file, memory, adding, bounds>>

\* A mutant: the runners are not counted again.
AdmitsUncounted(c) == Pairable(c)

\* The transaction of POST pair: the code is still open, and there is room.
Admits(c) == Pairable(c) /\ Cardinality(Active) < MaxRunners

\* A mutant: the code is not consumed.
EnrolOnly ==
  /\ runners' = Append(runners, [code |-> code, revoked |-> FALSE])
  /\ UNCHANGED pairings

\* The server's half of POST pair.
Enrol ==
  /\ runners' = Append(runners, [code |-> code, revoked |-> FALSE])
  /\ pairings' = [pairings EXCEPT ![code] = "closed"]

\* `connect` sends the signed request. Without its answer there is no
\* configuration; without a request there is no runner either.
Pair ==
  /\ code # 0
  /\ code' = 0
  /\ \/ /\ Admits(code) /\ Enrol
        /\ \/ file' = [NoConfig EXCEPT !.runner = Len(runners) + 1] /\ UNCHANGED mishaps
           \/ Mishap /\ UNCHANGED file
     \/ ~Admits(code) /\ UNCHANGED <<pairings, runners, file, mishaps>>
  /\ UNCHANGED <<memory, adding, acts>>

ConnectStops ==
  /\ code # 0
  /\ Mishap
  /\ code' = 0
  /\ UNCHANGED <<pairings, runners, file, memory, adding, acts>>

\* DELETE runners; what it does to projects and jobs is added by RunnerJobs.
Unplug(r) ==
  /\ Act
  /\ r \in Active
  /\ runners' = [runners EXCEPT ![r].revoked = TRUE]
  /\ UNCHANGED <<pairings, code, file, memory, adding, mishaps>>

\* `forget` deletes the file, also while `start` runs.
Forget ==
  /\ Act
  /\ file # NoConfig
  /\ file' = NoConfig
  /\ UNCHANGED <<pairings, runners, code, memory, adding, mishaps>>

-----------------------------------------------------------------------------
(***************************************************************************)
(* The running process                                                     *)
(***************************************************************************)

\* requireRunner
Authorized(copy) == copy.runner \in Active

Start ==
  /\ memory = NoConfig /\ file # NoConfig
  /\ memory' = file
  /\ UNCHANGED <<pairings, runners, code, file, adding, bounds>>

\* A copy of the same runner that was made before the number was used.
Overtaken(copy) ==
  IF copy.runner = memory.runner /\ copy # NoConfig THEN [copy EXCEPT !.behind = TRUE] ELSE copy

\* A heartbeat is accepted: last_sequence < sequence.
Beats == Authorized(memory) /\ ~memory.behind

\* sendHeartbeat: the number is saved after the answer, with all of the
\* configuration `start` has in its memory.
Heartbeat ==
  /\ Beats
  /\ file' = memory
  /\ adding' = Overtaken(adding)
  /\ UNCHANGED <<pairings, runners, code, memory, bounds>>

\* The answer is lost: the number has been used, and nobody here knows.
HeartbeatUnanswered ==
  /\ Beats
  /\ Mishap
  /\ memory' = [memory EXCEPT !.behind = TRUE]
  /\ file' = Overtaken(file)
  /\ adding' = Overtaken(adding)
  /\ UNCHANGED <<pairings, runners, code, acts>>

-----------------------------------------------------------------------------
(***************************************************************************)
(* Adding a project folder: runner.json is read before the request and     *)
(* written after the answer.  The row of the project is RunnerJobs'.       *)
(***************************************************************************)

AddLoads ==
  /\ Act
  /\ adding = NoConfig /\ file # NoConfig
  /\ Authorized(file)
  /\ adding' = file
  /\ UNCHANGED <<pairings, runners, code, file, memory, mishaps>>

\* The request is answered and the file is written.
AddSaves ==
  /\ adding # NoConfig
  /\ Authorized(adding)
  /\ file' = [adding EXCEPT !.folder = TRUE]
  /\ adding' = NoConfig
  /\ UNCHANGED <<pairings, runners, code, memory, bounds>>

\* Refused, lost, or killed: the file is not written.
AddStops ==
  /\ adding # NoConfig
  /\ IF Authorized(adding) THEN Mishap ELSE UNCHANGED mishaps
  /\ adding' = NoConfig
  /\ UNCHANGED <<pairings, runners, code, file, memory, acts>>

-----------------------------------------------------------------------------
(***************************************************************************)
(* Properties                                                              *)
(***************************************************************************)

\* A code lets in one computer at most, however often and from wherever it is
\* sent, and even when the answer was lost ("The server consumes the code
\* transactionally", docs/local-runner.md).
CodeIsOneTime ==
  \A r, s \in DOMAIN runners : runners[r].code = runners[s].code => r = s

\* An office never has more active runners than it may, although codes are made
\* while there is room and used later ("up to five local computers", README).
RunnerLimit == Cardinality(Active) <= MaxRunners

\* A code that let somebody in is closed.
CodesAreUsedUp ==
  \A r \in DOMAIN runners :
    runners[r].code \in DOMAIN pairings /\ pairings[runners[r].code] = "closed"

\* The part of the inductive invariant that is about pairing.
Linked == LinkTypeOK /\ CodesAreUsedUp /\ CodeIsOneTime /\ RunnerLimit
==============================================================================
