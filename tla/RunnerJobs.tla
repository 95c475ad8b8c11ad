------------------------------- MODULE RunnerJobs -------------------------------
(***************************************************************************)
(* A developer's step on a local project: the scheduler asks for jobs      *)
(* (localDeveloperResult, apps/web/lib/office-runtime.ts), the boss        *)
(* decides on them, the server queues and leases them                      *)
(* (apps/web/lib/local-projects.ts and the routes under jobs and           *)
(* projects), and the runner on the boss's computer executes them one at   *)
(* a time and sends receipts (apps/runner/src/cli.ts).                     *)
(*                                                                         *)
(* The database is written by whole handlers: what a handler does between  *)
(* two awaits is one step, and so is each statement of the runner that     *)
(* changes a file.  Awaits that matter stand between the check and the     *)
(* storing of a receipt (Arrive, Store) and around the provider call of a  *)
(* proposal (Propose, ProposalArrives).                                    *)
(*                                                                         *)
(* Data kept abstract:                                                     *)
(*  - one task, one developer and one folder on one computer, the project  *)
(*    of each runner that was paired on it; jobs are in order of request   *)
(*    and a job is named by its place;                                     *)
(*  - a lease lapses, or a snapshot grows old, when somebody finds it so:  *)
(*    every such look changes the job at once, so no clock is needed;      *)
(*  - a request is never rewritten, so its digest is a flag that says who  *)
(*    approved it; hashes and signatures always match;                     *)
(*  - result_text is kept for snapshots, and a receipt as the number of    *)
(*    the attempt it reports on (0: none);                                 *)
(*  - the reasons a step waits for are left out: waitOffice and the way a  *)
(*    finished step is made durable are OfficeRuntime's.                   *)
(***************************************************************************)
EXTENDS RunnerLink

CONSTANTS
  Grants,       \* the permission sets the boss chooses from
  NFiles,       \* files of a proposal
  MaxJobs,      \* bound: jobs of the task
  MaxAttempts,  \* bound: attempts of a job
  MaxReturns    \* bound: times the finished step is returned

ASSUME JobsAssumption ==
  /\ \A g \in Grants : "read" \in g /\ g \subseteq {"read", "write", "verify"}
  /\ {NFiles, MaxJobs, MaxReturns} \subseteq Nat
  /\ MaxAttempts \in Nat \ {0}

VARIABLES
  projects,  \* runner_projects, by runner
  jobs,      \* runner_jobs
  task,      \* the developer's step
  call,      \* the snapshot the provider is working from, or 0
  work,      \* what `start` is doing
  folder,    \* per file of the proposal: the job whose content it has, 0: as it was
  sent,      \* receipts on their way
  checked    \* receipts the server has checked and not stored yet

jobVars == <<projects, jobs, task, call, work, folder, sent, checked>>
vars == <<linkVars, jobVars>>

RunnerIds == Codes

\* RunnerProjectRow
Project == [known : BOOLEAN, permissions : {{}} \union Grants, approved : BOOLEAN, revoked : BOOLEAN]

NoProject == [known |-> FALSE, permissions |-> {}, approved |-> FALSE, revoked |-> FALSE]

Kinds == {"context", "apply_changes", "verify"}

\* RunnerJobRow
Job ==
  [runner : RunnerIds, kind : Kinds,
   status : {"awaiting_approval", "queued", "running", "succeeded", "failed", "rejected", "cancelled"},
   approved : {"no", "by_office", "by_boss"},
   attempt : 0..MaxAttempts,
   receipt : 0..MaxAttempts,
   text : BOOLEAN]

Receipt == [job : 1..MaxJobs, attempt : 1..MaxAttempts, status : {"succeeded", "failed"}]

Idle == [pc |-> "idle"]

JobTypeOK ==
  /\ projects \in [RunnerIds -> Project]
  /\ jobs \in Seq(Job) /\ Len(jobs) <= MaxJobs
  /\ task \in [step : {"none", "pending", "done"}, project : {0} \union Codes,
               returns : 0..MaxReturns, applied : 0..MaxJobs, verified : 0..MaxJobs]
  /\ call \in 0..Len(jobs)
  /\ work.pc \in {"idle", "polling", "working", "writing", "waiting"}
  /\ folder \in [1..NFiles -> 0..Len(jobs)]
  /\ sent \in SUBSET Receipt /\ checked \in SUBSET Receipt

TypeOK == LinkTypeOK /\ JobTypeOK

Init ==
  /\ LinkInit
  /\ projects = [r \in RunnerIds |-> NoProject]
  /\ jobs = <<>>
  /\ task = [step |-> "none", project |-> 0, returns |-> 0, applied |-> 0, verified |-> 0]
  /\ call = 0
  /\ work = Idle
  /\ folder = [f \in 1..NFiles |-> 0]
  /\ sent = {} /\ checked = {}

-----------------------------------------------------------------------------
(***************************************************************************)
(* Grants                                                                  *)
(***************************************************************************)

ByOwner == <<task, call, work, folder, sent, checked>>

\* projectHasPermission
Granted(r, permission) ==
  projects[r].approved /\ ~projects[r].revoked /\ permission \in projects[r].permissions

\* The permission a kind of job needs.
Needs(kind) ==
  CASE kind = "apply_changes" -> "write" [] kind = "verify" -> "verify" [] OTHER -> "read"

\* createRunnerProject: a revoked project is asked for again, without grants.
Register(r) ==
  projects' = [projects EXCEPT ![r] =
    IF @.known /\ ~@.revoked THEN @ ELSE [NoProject EXCEPT !.known = TRUE]]

\* `project add` is answered, or the answer is lost and only the server knows.
AddProject ==
  \/ AddSaves /\ Register(adding.runner)
  \/ AddStops /\ Authorized(adding) /\ Register(adding.runner)
  \/ AddStops /\ UNCHANGED projects

\* PATCH projects, approve: also a second time, with other permissions.
ApproveProject(r, grant) ==
  /\ Act
  /\ projects[r].known /\ ~projects[r].revoked
  /\ projects[r] # [projects[r] EXCEPT !.permissions = grant, !.approved = TRUE]
  /\ projects' = [projects EXCEPT ![r].permissions = grant, ![r].approved = TRUE]
  /\ UNCHANGED <<linkState, mishaps, jobs, ByOwner>>

Live == {"awaiting_approval", "queued", "running"}

\* A mutant: only jobs that wait for the boss or the runner are cancelled.
CancelWaiting(r) ==
  [i \in DOMAIN jobs |->
     IF jobs[i].runner = r /\ jobs[i].status \in Live \ {"running"}
       THEN [jobs[i] EXCEPT !.status = "cancelled"] ELSE jobs[i]]

\* Jobs of a grant that ends.
CancelJobs(r) ==
  [i \in DOMAIN jobs |->
     IF jobs[i].runner = r /\ jobs[i].status \in Live
       THEN [jobs[i] EXCEPT !.status = "cancelled"] ELSE jobs[i]]

\* PATCH projects, revoke.
RevokeProject(r) ==
  /\ Act
  /\ projects[r].known /\ ~projects[r].revoked
  /\ projects' = [projects EXCEPT ![r].revoked = TRUE]
  /\ jobs' = CancelJobs(r)
  /\ UNCHANGED <<linkState, mishaps, ByOwner>>

\* DELETE runners.
RevokeRunner(r) ==
  /\ Unplug(r)
  /\ projects' = [projects EXCEPT ![r].revoked = @ \/ projects[r].known]
  /\ jobs' = CancelJobs(r)
  /\ UNCHANGED ByOwner

-----------------------------------------------------------------------------
(***************************************************************************)
(* The boss decides on a job (PATCH jobs)                                  *)
(***************************************************************************)

SetJob(i, job) == jobs' = [jobs EXCEPT ![i] = job]

\* The boss has the request before them, and acknowledges its risk.
ApproveJob(i) ==
  /\ jobs[i].status = "awaiting_approval"
  /\ Granted(jobs[i].runner, Needs(jobs[i].kind))
  /\ SetJob(i, [jobs[i] EXCEPT !.status = "queued", !.approved = "by_boss"])
  /\ UNCHANGED <<linkVars, projects, ByOwner>>

RejectJob(i) ==
  /\ jobs[i].status = "awaiting_approval"
  /\ SetJob(i, [jobs[i] EXCEPT !.status = "rejected", !.approved = "no"])
  /\ UNCHANGED <<linkVars, projects, ByOwner>>

\* A failed job is queued again, under the approval it had.
RetryJob(i) ==
  /\ Act
  /\ jobs[i].status = "failed" /\ jobs[i].attempt < MaxAttempts
  /\ Granted(jobs[i].runner, Needs(jobs[i].kind))
  /\ SetJob(i, [jobs[i] EXCEPT !.status = "queued", !.receipt = 0, !.text = FALSE])
  /\ UNCHANGED <<linkState, mishaps, projects, ByOwner>>

-----------------------------------------------------------------------------
(***************************************************************************)
(* Leases and snapshots                                                    *)
(***************************************************************************)

Running(r) == {i \in DOMAIN jobs : jobs[i].runner = r /\ jobs[i].status = "running"}

\* Mutants: the job is queued again; its status is not touched.
LapseRequeues(i) == [jobs[i] EXCEPT !.status = "queued"]
LapseSilently(i) == jobs[i]

\* The lease of i is found to have lapsed.
Lapse(i) == [jobs[i] EXCEPT !.status = "failed"]

\* recoverExpiredRunnerJobs, when the office lists its jobs.
RecoverJob(i) ==
  /\ jobs[i].status = "running"
  /\ SetJob(i, Lapse(i))
  /\ UNCHANGED <<linkVars, projects, ByOwner>>

\* purgeExpiredRunnerSnapshots, when the office lists its jobs or the
\* developer's step is looked at.
PurgeSnapshot(i) ==
  /\ jobs[i].kind = "context" /\ jobs[i].status = "succeeded" /\ jobs[i].text
  /\ SetJob(i, [jobs[i] EXCEPT !.status = "cancelled", !.text = FALSE])
  /\ UNCHANGED <<linkVars, projects, ByOwner>>

-----------------------------------------------------------------------------
(***************************************************************************)
(* The scheduler: localDeveloperResult                                     *)
(***************************************************************************)

ByScheduler == <<linkVars, projects, work, folder, sent, checked>>

\* POST tasks with a project.
CreateTask(r) ==
  /\ task.step = "none"
  /\ projects[r].approved /\ ~projects[r].revoked
  /\ task' = [task EXCEPT !.step = "pending", !.project = r]
  /\ UNCHANGED <<jobs, call, ByScheduler>>

\* The step is looked at while nothing of it is at the provider.
Considers ==
  /\ task.step = "pending" /\ call = 0
  /\ Granted(task.project, "read") /\ Granted(task.project, "write")

OfKind(kind) == {i \in DOMAIN jobs : jobs[i].kind = kind}

Unpurged == {i \in OfKind("context") : jobs[i].status # "cancelled"}

\* jobs.find and its mirror image; 0 is undefined.
First(S) == IF S = {} THEN 0 ELSE CHOOSE i \in S : \A j \in S : i <= j
Last(S)  == IF S = {} THEN 0 ELSE CHOOSE i \in S : \A j \in S : j <= i

Change == First(OfKind("apply_changes"))
Verification == First(OfKind("verify"))

\* createRunnerJob
NewJob(kind, approval) ==
  [runner |-> task.project, kind |-> kind,
   status |-> IF approval THEN "awaiting_approval" ELSE "queued",
   approved |-> IF approval THEN "no" ELSE "by_office",
   attempt |-> 0, receipt |-> 0, text |-> FALSE]

\* No snapshot, or only purged and cancelled ones.
QueueContext ==
  /\ Considers /\ Change = 0
  /\ Unpurged = {}
  /\ Len(jobs) < MaxJobs
  /\ jobs' = Append(jobs, NewJob("context", FALSE))
  /\ UNCHANGED <<task, call, ByScheduler>>

\* The snapshot is there and the provider is asked for a proposal.
Propose ==
  /\ Considers /\ Change = 0
  /\ Unpurged # {}
  /\ LET c == Last(Unpurged) IN
       /\ jobs[c].status = "succeeded" /\ jobs[c].text /\ jobs[c].receipt # 0
       /\ call' = c
  /\ UNCHANGED <<jobs, task, ByScheduler>>

\* The proposal of snapshot c, and the snapshot that is cleared.
Proposed(c, approval) ==
  Append([jobs EXCEPT ![c].text = FALSE], NewJob("apply_changes", approval))

\* A mutant: proposals are queued at once.
ProposedUnasked(c) == Proposed(c, FALSE)

\* A mutant: the snapshot stays.
ProposedKeeping(c) == Append(jobs, NewJob("apply_changes", TRUE))

Proposal(c) == Proposed(c, TRUE)

\* The provider answered; the project is not looked at again.
ProposalArrives ==
  /\ call # 0
  /\ Len(jobs) < MaxJobs
  /\ jobs' = Proposal(call)
  /\ call' = 0
  /\ UNCHANGED <<task, ByScheduler>>

\* The provider failed, or its answer is no proposal: the step is deferred.
ProposalFails ==
  /\ call # 0
  /\ call' = 0
  /\ UNCHANGED <<jobs, task, ByScheduler>>

\* A job whose signed receipt of success is stored.
Received(i) == jobs[i].status = "succeeded" /\ jobs[i].receipt # 0

RequestVerify ==
  /\ Considers /\ Change # 0 /\ Verification = 0
  /\ Received(Change)
  /\ Granted(task.project, "verify")
  /\ Len(jobs) < MaxJobs
  /\ jobs' = Append(jobs, NewJob("verify", TRUE))
  /\ UNCHANGED <<task, call, ByScheduler>>

\* The step is complete: without verification only if none is granted.
Report ==
  /\ Considers /\ Change # 0
  /\ Received(Change)
  /\ IF Granted(task.project, "verify")
       THEN Verification # 0 /\ Received(Verification)
       ELSE TRUE
  /\ task' = [task EXCEPT !.step = "done", !.applied = Change,
                !.verified = IF Granted(task.project, "verify") THEN Verification ELSE 0]
  /\ UNCHANGED <<jobs, call, ByScheduler>>

\* The reviewer or the boss returns the step (OfficeTask): the jobs stay.
Return ==
  /\ task.step = "done" /\ task.returns < MaxReturns
  /\ task' = [task EXCEPT !.step = "pending", !.returns = @ + 1]
  /\ UNCHANGED <<jobs, call, ByScheduler>>

-----------------------------------------------------------------------------
(***************************************************************************)
(* The runner                                                              *)
(***************************************************************************)

ByRunner == <<projects, task, call, checked>>

\* One iteration: a heartbeat, then at most one job.
Beat ==
  /\ work = Idle
  /\ \/ Heartbeat /\ work' = [pc |-> "polling"]
     \/ HeartbeatUnanswered /\ UNCHANGED work
  /\ UNCHANGED <<jobs, folder, sent, ByRunner>>

\* A mutant: jobs that the boss has approved are not looked for.
QueuedByOffice(r, table) ==
  First({i \in DOMAIN table : /\ table[i].runner = r /\ table[i].status = "queued"
                              /\ table[i].approved = "by_office"})

\* claimNextRunnerJob: the oldest queued job of the runner.
Queued(r, table) == First({i \in DOMAIN table : table[i].runner = r /\ table[i].status = "queued"})

\* GET next: lapsed leases end, a job without its approval or its permission is
\* cancelled, another is leased.
Leased(r, lapsed) ==
  LET swept == [i \in DOMAIN jobs |-> IF i \in lapsed THEN Lapse(i) ELSE jobs[i]]
      next  == Queued(r, swept)
  IN  CASE next = 0 -> swept
        [] next # 0 /\ swept[next].approved = "no" -> [swept EXCEPT ![next].status = "cancelled"]
        [] OTHER ->
             [swept EXCEPT ![next].attempt = @ + 1,
                           ![next].status = IF Granted(r, Needs(swept[next].kind))
                                              THEN "running" ELSE "cancelled"]

\* The job a claim leased.
Claimed(table) ==
  {i \in DOMAIN jobs : table[i].status = "running" /\ table[i].attempt > jobs[i].attempt}

Poll ==
  /\ work.pc = "polling"
  /\ IF ~Authorized(memory)
       THEN work' = Idle /\ UNCHANGED <<jobs, mishaps>>
       ELSE \E lapsed \in SUBSET Running(memory.runner) :
              LET table == Leased(memory.runner, lapsed) IN
              /\ jobs' = table
              /\ \/ /\ Claimed(table) = {}
                    /\ work' = Idle /\ UNCHANGED mishaps
                 \/ /\ UNCHANGED mishaps
                    /\ \E i \in Claimed(table) :
                         work' = [pc |-> "working", job |-> i, attempt |-> table[i].attempt]
                 \/ /\ Claimed(table) # {}   \* the answer is lost
                    /\ Mishap
                    /\ work' = Idle
  /\ UNCHANGED <<linkState, acts, folder, sent, ByRunner>>

\* POST complete: the receipt is sent, and its answer is waited for.
Send(status) ==
  LET m == [job |-> work.job, attempt |-> work.attempt, status |-> status]
  IN  sent' = sent \union {m} /\ work' = [pc |-> "waiting", receipt |-> m]

\* A folder that is not mapped, or a snapshot, a verification or the
\* preparation of a change that fails.
JobFails ==
  /\ work.pc = "working"
  /\ Send("failed")
  /\ UNCHANGED <<linkVars, jobs, folder, ByRunner>>

\* collectContext: allowed files of the folder, as far as the limits go.
SnapshotTaken ==
  /\ work.pc = "working" /\ memory.folder
  /\ jobs[work.job].kind = "context"
  /\ Send("succeeded")
  /\ UNCHANGED <<linkVars, jobs, folder, ByRunner>>

\* runVerification, and its command exits with 0.
VerificationPasses ==
  /\ work.pc = "working" /\ memory.folder
  /\ jobs[work.job].kind = "verify"
  /\ Send("succeeded")
  /\ UNCHANGED <<linkVars, jobs, folder, ByRunner>>

\* applyChanges: the old contents are read and the temporaries are written.
BeginChange ==
  /\ work.pc = "working" /\ memory.folder
  /\ jobs[work.job].kind = "apply_changes"
  /\ work' = [pc |-> "writing", job |-> work.job, attempt |-> work.attempt,
              before |-> folder, done |-> 0]
  /\ UNCHANGED <<linkVars, jobs, folder, sent, ByRunner>>

\* A temporary replaces the next file.
RenameFile ==
  /\ work.pc = "writing" /\ work.done < NFiles
  /\ folder' = [folder EXCEPT ![work.done + 1] = work.job]
  /\ work' = [work EXCEPT !.done = @ + 1]
  /\ UNCHANGED <<linkVars, jobs, sent, ByRunner>>

\* A mutant: the files are not read back.
ReplacedSome == work.done > 0

\* Every file is replaced, and reads back as it was written.
Observed == work.done = NFiles /\ \A f \in 1..NFiles : folder[f] = work.job

ChangeSucceeds ==
  /\ work.pc = "writing"
  /\ Observed
  /\ Send("succeeded")
  /\ UNCHANGED <<linkVars, jobs, folder, ByRunner>>

\* Anything fails on the way: what was replaced is restored, as far as possible.
ChangeFails ==
  /\ work.pc = "writing"
  /\ \E stuck \in SUBSET (1..work.done) :
       folder' = [f \in 1..NFiles |->
                    IF f \in (1..work.done) \ stuck THEN work.before[f] ELSE folder[f]]
  /\ Send("failed")
  /\ UNCHANGED <<linkVars, jobs, ByRunner>>

\* The receipt is answered, or the runner no longer waits: it is on its way
\* still, or lost.
Waited ==
  /\ work.pc = "waiting"
  /\ work' = Idle
  /\ \/ work.receipt \notin sent \union checked /\ UNCHANGED <<sent, mishaps>>
     \/ Mishap /\ sent' \in {sent, sent \ {work.receipt}}
  /\ UNCHANGED <<linkState, acts, jobs, folder, ByRunner>>

\* `start` begins, ends between two iterations, or is killed.
StartRunner ==
  /\ Start
  /\ UNCHANGED jobVars

StopRunner ==
  /\ Act
  /\ memory # NoConfig
  /\ IF work.pc \in {"idle", "polling"} THEN UNCHANGED mishaps ELSE Mishap
  /\ memory' = NoConfig /\ work' = Idle
  /\ UNCHANGED <<pairings, runners, code, file, adding, jobs, folder, sent, ByRunner>>

-----------------------------------------------------------------------------
(***************************************************************************)
(* The server takes a receipt (POST complete)                              *)
(***************************************************************************)

ByServer == <<linkVars, projects, task, call, work, folder>>

\* The checks: refused, refused for its lease, or on to be stored. A receipt
\* names a job and no attempt.
Arrive(m) ==
  /\ m \in sent
  /\ sent' = sent \ {m}
  /\ LET i == m.job IN
     \/ /\ \/ jobs[i].status # "running"
           \/ ~Granted(jobs[i].runner, Needs(jobs[i].kind))
           \/ jobs[i].runner \notin Active
        /\ UNCHANGED <<jobs, checked>>
     \/ /\ jobs[i].status = "running" /\ jobs[i].runner \in Active
        /\ SetJob(i, Lapse(i))
        /\ UNCHANGED checked
     \/ /\ jobs[i].status = "running" /\ jobs[i].runner \in Active
        /\ Granted(jobs[i].runner, Needs(jobs[i].kind))
        /\ checked' = checked \union {m}
        /\ UNCHANGED jobs
  /\ UNCHANGED ByServer

\* A mutant: the status is not part of the update's condition.
StorableAnyway(i) == TRUE

\* UPDATE ... WHERE status = 'running'
Storable(i) == jobs[i].status = "running"

\* After the result has been encrypted.
Store(m) ==
  /\ m \in checked
  /\ checked' = checked \ {m}
  /\ jobs' = IF Storable(m.job)
               THEN [jobs EXCEPT ![m.job].status = m.status, ![m.job].receipt = m.attempt,
                       ![m.job].text = jobs[m.job].kind = "context"]
               ELSE jobs
  /\ UNCHANGED <<sent, ByServer>>

\* The server restarts: the database stays.
ServerCrash ==
  /\ checked # {} \/ call # 0
  /\ Mishap
  /\ checked' = {} /\ call' = 0
  /\ UNCHANGED <<linkState, acts,
                 projects, jobs, task, work, folder, sent>>

-----------------------------------------------------------------------------

Link ==
  /\ \/ \E c \in Codes : ExpirePairing(c) \/ Connect(c)
     \/ CreatePairing \/ Pair \/ ConnectStops \/ Forget \/ AddLoads
  /\ UNCHANGED jobVars

Owner ==
  \/ \E r \in RunnerIds : RevokeProject(r) \/ \E g \in Grants : ApproveProject(r, g)
  \/ \E r \in DOMAIN runners : RevokeRunner(r)
  \/ \E i \in DOMAIN jobs : ApproveJob(i) \/ RejectJob(i) \/ RetryJob(i)
  \/ \E i \in DOMAIN jobs : RecoverJob(i) \/ PurgeSnapshot(i)

Scheduler ==
  \/ \E r \in RunnerIds : CreateTask(r)
  \/ QueueContext \/ Propose \/ ProposalArrives \/ ProposalFails \/ RequestVerify \/ Report
  \/ Return

RunnerProcess ==
  \/ Beat \/ Poll \/ JobFails \/ SnapshotTaken \/ VerificationPasses \/ BeginChange \/ RenameFile
  \/ ChangeSucceeds \/ ChangeFails \/ Waited

Next ==
  \/ Link \/ Owner \/ Scheduler \/ RunnerProcess
  \/ AddProject /\ UNCHANGED <<jobs, ByOwner>>
  \/ StartRunner \/ StopRunner
  \/ \E m \in sent : Arrive(m)
  \/ \E m \in checked : Store(m)
  \/ ServerCrash

Spec == Init /\ [][Next]_vars

(***************************************************************************)
(* Fairness: while it runs, the runner goes on with what it does; the      *)
(* server answers; an open office page lists the jobs every few seconds,   *)
(* so a lease that lapses is found out.  Nobody has to start a runner, to  *)
(* approve or to retry anything.                                           *)
(***************************************************************************)
Fairness ==
  /\ WF_vars(RunnerProcess)
  /\ WF_vars(\E m \in sent : Arrive(m))
  /\ WF_vars(\E m \in checked : Store(m))
  /\ WF_vars(\E i \in DOMAIN jobs : RecoverJob(i))

FairSpec == Spec /\ Fairness

-----------------------------------------------------------------------------
(***************************************************************************)
(* Properties                                                              *)
(***************************************************************************)

\* Whatever is retried, lost, late or cancelled, a file of the project only
\* ever holds a proposal the boss has approved ("apply an exact owner-approved
\* set", docs/local-runner.md).
WrittenIsApproved ==
  \A f \in 1..NFiles : folder[f] # 0 =>
    /\ jobs[folder[f]].kind = "apply_changes"
    /\ jobs[folder[f]].approved = "by_boss"

\* "Revoking the grant cancels queued and running jobs" (docs/local-runner.md),
\* and none becomes queued or running until a new grant: not by a retry, nor by
\* an answer of the provider that was under way.
RevokedGrantIsIdle ==
  \A i \in DOMAIN jobs :
    projects[jobs[i].runner].revoked => jobs[i].status \notin {"queued", "running"}

\* A step is reported as implemented only when every file has the proposal it
\* cites, although receipts may be late, attempts repeated and files restored.
ReportedIsWritten ==
  task.step = "done" => \A f \in 1..NFiles : folder[f] = task.applied

\* "deleted as soon as the change proposal is created" (README): no snapshot
\* outlives the proposal.
SnapshotIsPurged ==
  OfKind("apply_changes") # {} => \A i \in OfKind("context") : ~jobs[i].text

\* What has succeeded, was rejected or cancelled stays so, also when a receipt
\* is stored after the check it passed; only a snapshot is purged.
SettledStays ==
  [][\A i \in DOMAIN jobs :
       (jobs[i].status \in {"succeeded", "rejected", "cancelled"} /\ jobs'[i].status # jobs[i].status)
         => jobs[i].kind = "context" /\ jobs[i].status = "succeeded" /\ jobs'[i].status = "cancelled"]_vars

Has(i, status) == i \in DOMAIN jobs /\ jobs[i].status = status

\* No job runs for ever: a runner that is killed or cut off, an answer that is
\* lost, or a receipt that never arrives end with the lease ("Jobs carry an
\* expiring lease").
RunningEnds ==
  \A i \in 1..MaxJobs : Has(i, "running") ~> ~Has(i, "running")

\* The runner that could take job i is gone: unplugged, not started, or its next
\* heartbeat number has been used.
Unreachable(i) == memory.runner # jobs[i].runner \/ memory.behind \/ memory.runner \notin Active

\* A queued job is taken up by the runner that serves its project, or cancelled,
\* unless that runner stops.
QueuedIsTaken ==
  \A i \in 1..MaxJobs :
    Has(i, "queued") ~> (Has(i, "queued") => Unreachable(i))

\* "Late and replayed receipts are rejected" (docs/local-runner.md): the receipt
\* that ends a job is that of its latest attempt.
ReceiptIsOfAttempt ==
  \A i \in DOMAIN jobs : jobs[i].receipt # 0 => jobs[i].receipt = jobs[i].attempt

-----------------------------------------------------------------------------
(***************************************************************************)
(* The inductive invariant                                                 *)
(***************************************************************************)

\* A job by itself: it waits for the boss without an approval, the office approves
\* snapshots only, an attempt is left for what waits, and only a snapshot that has been
\* sent has a text.
JobIsSound(job) ==
  /\ job.status = "awaiting_approval" => job.approved = "no"
  /\ job.approved = "by_office" => job.kind = "context"
  /\ job.status \in {"awaiting_approval", "queued"} => job.attempt < MaxAttempts
  /\ job.text => job.kind = "context" /\ job.status \in {"succeeded", "failed"}

Single(S) == \A i, j \in S : i = j

\* At most one snapshot is of use and one change is proposed; while the provider has the
\* snapshot there is no other and no change, and none is taken any more after it.
SnapshotsInOrder ==
  /\ Single(Unpurged) /\ Single(OfKind("apply_changes"))
  /\ call # 0 =>
       /\ task.step # "none" /\ jobs[call].kind = "context"
       /\ Unpurged \subseteq {call} /\ OfKind("apply_changes") = {}
  /\ call # 0 \/ OfKind("apply_changes") # {} =>
       \A i \in OfKind("context") : jobs[i].status \in {"succeeded", "cancelled"}
  /\ SnapshotIsPurged

\* What the runner is working on was approved, and what it may restore was, too.
WorkIsSound ==
  /\ work.pc = "working" =>
       /\ work \in [pc : {"working"}, job : DOMAIN jobs, attempt : 1..MaxAttempts]
       /\ jobs[work.job].approved # "no"
  /\ work.pc = "writing" =>
       /\ work \in [pc : {"writing"}, job : DOMAIN jobs, attempt : 1..MaxAttempts,
                    before : [1..NFiles -> 0..Len(jobs)], done : 0..NFiles]
       /\ jobs[work.job].approved # "no" /\ jobs[work.job].kind = "apply_changes"
       /\ \A f \in 1..NFiles : work.before[f] \in {0, work.job}

\* The success of job i has been claimed, and perhaps stored.
Succeeds(i) ==
  \/ jobs[i].status = "succeeded"
  \/ \E m \in sent \union checked : m.job = i /\ m.status = "succeeded"

\* Once a receipt says that a change is applied, it is, and nothing takes it back: later
\* attempts write the same, and restore the same.
ReceiptsAreTrue ==
  /\ \A m \in sent \union checked : m.job \in DOMAIN jobs
  /\ \A i \in OfKind("apply_changes") : Succeeds(i) =>
       \A f \in 1..NFiles : folder[f] = i /\ (work.pc = "writing" => work.before[f] = i)

\* The task names its project, and a finished one the change that succeeded.
TaskIsSound ==
  /\ task.step # "none" => task.project \in RunnerIds
  /\ task.step = "done" =>
       task.applied \in OfKind("apply_changes") /\ jobs[task.applied].status = "succeeded"

\* Jobs, snapshots, the runner's work, its receipts and the report agree.
Accountable ==
  /\ Linked /\ JobTypeOK
  /\ \A i \in DOMAIN jobs : JobIsSound(jobs[i])
  /\ RevokedGrantIsIdle /\ SnapshotsInOrder
  /\ WorkIsSound /\ WrittenIsApproved /\ ReceiptsAreTrue /\ TaskIsSound
==============================================================================
