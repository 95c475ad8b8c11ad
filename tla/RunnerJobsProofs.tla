---------------------------- MODULE RunnerJobsProofs ----------------------------
(***************************************************************************)
(* Theorems about RunnerJobs, for any number of codes, runners, grants,    *)
(* files, jobs, attempts and mishaps.                                      *)
(*                                                                         *)
(* 1. Linked is kept by every step: most of them leave pairing alone, the  *)
(*    others are RunnerLink's.                                             *)
(* 2. Accountable is inductive.  Three quarters of the steps only move     *)
(*    jobs forward in the sense of MayBecome (lemma JobsMoveKeeps); three  *)
(*    append a job (AppendKeeps); the rest write files, start a provider   *)
(*    call or change the step, with the jobs as they are.                  *)
(* 3. The properties of the runs follow from Accountable, except           *)
(*    SettledStays, which follows from MayBecome.                          *)
(***************************************************************************)
EXTENDS RunnerJobs, RunnerLinkProofs, WellFoundedInduction

-----------------------------------------------------------------------------
(***************************************************************************)
(* Pairing                                                                 *)
(***************************************************************************)

LEMMA InitLinked == Init => Linked
<1> SUFFICES ASSUME Init PROVE Linked
  OBVIOUS
<1>1. LinkInit
  BY DEF Init
<1>2. pairings = <<>> /\ runners = <<>> /\ Len(pairings) = 0 /\ Len(runners) = 0
      /\ pairings \in Seq({"open", "closed"}) /\ runners \in Seq(Runner)
  BY <1>1, EmptySeq DEF LinkInit
<1>3. LinkTypeOK
  BY <1>1, <1>2, LinkAssumption DEF LinkInit, LinkTypeOK, NoConfig, Config
<1>4. DOMAIN runners = {}
  BY <1>2
<1>5. Active = {}
  BY <1>4 DEF Active
<1>6. Cardinality({}) = 0
  BY FS_EmptySet
<1>7. RunnerLimit
  BY <1>5, <1>6, LinkAssumption DEF RunnerLimit
<1> QED
  BY <1>3, <1>4, <1>7 DEF Linked, CodesAreUsedUp, CodeIsOneTime

LEMMA NextLinked == Linked /\ [Next]_vars => Linked'
<1> SUFFICES ASSUME Linked, [Next]_vars PROVE Linked'
  OBVIOUS
<1> USE DEF linkVars, linkState, bounds
<1>1. CASE Link
  <2>1. CASE \E c \in Codes : ExpirePairing(c)
    BY <2>1, ExpirePairingKeeps
  <2>2. CASE CreatePairing
    BY <2>2, CreatePairingKeeps
  <2>3. CASE Pair
    BY <2>3, PairKeeps
  <2>4. CASE (\E c \in Codes : Connect(c)) \/ ConnectStops \/ Forget \/ AddLoads
    BY <2>4, CopyingKeeps
  <2> QED
    BY <1>1, <2>1, <2>2, <2>3, <2>4 DEF Link
<1>2. CASE Owner
  <2>1. CASE \E r \in RunnerIds : RevokeProject(r) \/ \E g \in Grants : ApproveProject(r, g)
    BY <2>1, BoundsKeep DEF RevokeProject, ApproveProject
  <2>2. CASE \E r \in DOMAIN runners : RevokeRunner(r)
    BY <2>2, UnplugKeeps DEF RevokeRunner
  <2>3. CASE \E i \in DOMAIN jobs : ApproveJob(i) \/ RejectJob(i) \/ RetryJob(i)
    BY <2>3, BoundsKeep DEF ApproveJob, RejectJob, RetryJob
  <2>4. CASE \E i \in DOMAIN jobs : RecoverJob(i) \/ PurgeSnapshot(i)
    BY <2>4, BoundsKeep DEF RecoverJob, PurgeSnapshot
  <2> QED
    BY <1>2, <2>1, <2>2, <2>3, <2>4 DEF Owner
<1>3. CASE Scheduler
  <2>1. UNCHANGED linkVars
    BY <1>3 DEF Scheduler, CreateTask, QueueContext, Propose, ProposalArrives, ProposalFails,
                RequestVerify, Report, Return, ByScheduler
  <2> QED
    BY <2>1, BoundsKeep
<1>4. CASE RunnerProcess
  <2>1. CASE Beat
    BY <2>1, CopyingKeeps DEF Beat
  <2>2. CASE Poll
    <3>1. UNCHANGED linkState /\ UNCHANGED acts
      BY <2>2 DEF Poll
    <3>2. Mishap \/ UNCHANGED mishaps
      BY <2>2 DEF Poll
    <3> QED
      BY <3>1, <3>2, BoundsKeep
  <2>3. CASE Waited
    BY <2>3, BoundsKeep DEF Waited
  <2>4. CASE JobFails \/ SnapshotTaken \/ VerificationPasses \/ BeginChange \/ RenameFile
             \/ ChangeSucceeds \/ ChangeFails
    <3>1. UNCHANGED linkVars
      BY <2>4 DEF JobFails, SnapshotTaken, VerificationPasses, BeginChange, RenameFile,
                  ChangeSucceeds, ChangeFails
    <3> QED
      BY <3>1, BoundsKeep
  <2> QED
    BY <1>4, <2>1, <2>2, <2>3, <2>4 DEF RunnerProcess
<1>5. CASE AddProject
  BY <1>5, CopyingKeeps DEF AddProject
<1>6. CASE StartRunner
  BY <1>6, CopyingKeeps DEF StartRunner
<1>7. CASE StopRunner
  BY <1>7, BoundsKeep DEF StopRunner
<1>8. CASE (\E m \in sent : Arrive(m)) \/ (\E m \in checked : Store(m)) \/ ServerCrash
  BY <1>8, BoundsKeep DEF Arrive, Store, ServerCrash, ByServer
<1>9. CASE UNCHANGED vars
  BY <1>9, BoundsKeep DEF vars
<1> QED
  BY <1>1, <1>2, <1>3, <1>4, <1>5, <1>6, <1>7, <1>8, <1>9 DEF Next

LEMMA LinkedAlways == Spec => []Linked
  BY InitLinked, NextLinked, PTL DEF Spec

\* A pairing code lets in one computer at most: the transaction of POST pair consumes it,
\* whatever is sent again or lost (api/runners/pair).
THEOREM CodeCorrect == Spec => []CodeIsOneTime
<1>1. Linked => CodeIsOneTime
  BY DEF Linked
<1> QED
  BY <1>1, LinkedAlways, PTL

\* There are never more active runners than MaxRunners, however many codes are open: the
\* runners are counted again in the transaction that lets one in.
THEOREM LimitCorrect == Spec => []RunnerLimit
<1>1. Linked => RunnerLimit
  BY DEF Linked
<1> QED
  BY <1>1, LinkedAlways, PTL

-----------------------------------------------------------------------------
(***************************************************************************)
(* Jobs that move                                                          *)
(***************************************************************************)

Settled == {"succeeded", "rejected", "cancelled"}

\* What one step may make of a job: its request and its approval stay, what is settled
\* stays, but for a snapshot that is purged, and a text comes with the end of an attempt.
MayBecome(old, new) ==
  /\ new \in Job /\ JobIsSound(new)
  /\ new.kind = old.kind /\ new.runner = old.runner
  /\ old.approved # "no" => new.approved = old.approved
  /\ old.status \in Settled /\ new.status # old.status =>
       old.kind = "context" /\ old.status = "succeeded" /\ new.status = "cancelled"
  /\ new.text => old.text \/ old.status = "running"

\* A step that only moves jobs.  It queues or leases none of a revoked project, and none
\* succeeds without a receipt.
JobsMove ==
  /\ jobs' \in [DOMAIN jobs -> Job]
  /\ \A i \in DOMAIN jobs :
       /\ MayBecome(jobs[i], jobs'[i])
       /\ jobs'[i].status = "succeeded" => Succeeds(i)
       /\ jobs'[i].status \in {"queued", "running"} => ~projects'[jobs[i].runner].revoked

\* What SettledStays says of one step.
StaysSettled ==
  \A i \in DOMAIN jobs :
    (jobs[i].status \in {"succeeded", "rejected", "cancelled"} /\ jobs'[i].status # jobs[i].status)
      => jobs[i].kind = "context" /\ jobs[i].status = "succeeded" /\ jobs'[i].status = "cancelled"

LEMMA JobsTyped ==
  ASSUME Accountable
  PROVE  /\ jobs \in Seq(Job) /\ Len(jobs) \in Nat /\ Len(jobs) <= MaxJobs
         /\ DOMAIN jobs = 1..Len(jobs) /\ jobs \in [DOMAIN jobs -> Job]
         /\ \A i \in DOMAIN jobs : jobs[i] \in Job /\ JobIsSound(jobs[i])
<1>1. jobs \in Seq(Job) /\ Len(jobs) <= MaxJobs /\ \A i \in DOMAIN jobs : JobIsSound(jobs[i])
  BY DEF Accountable, JobTypeOK
<1>2. Len(jobs) \in Nat /\ DOMAIN jobs = 1..Len(jobs) /\ jobs \in [1..Len(jobs) -> Job]
  BY <1>1, LenProperties
<1> QED
  BY <1>1, <1>2

\* Jobs that stay move.
LEMMA StayingMoves ==
  ASSUME Accountable, UNCHANGED jobs, \A r \in RunnerIds : projects'[r].revoked => projects[r].revoked
  PROVE  JobsMove
<1>1. ASSUME NEW i \in DOMAIN jobs
      PROVE  /\ jobs[i].runner \in RunnerIds
             /\ jobs[i].status \in {"queued", "running"} => ~projects[jobs[i].runner].revoked
  BY JobsTyped DEF Accountable, RevokedGrantIsIdle, Job
<1> QED
  BY <1>1, JobsTyped DEF JobsMove, MayBecome, Succeeds

\* One job moves.
LEMMA SettingMoves ==
  ASSUME Accountable, NEW i \in DOMAIN jobs, NEW job, SetJob(i, job), UNCHANGED projects,
         MayBecome(jobs[i], job), job.status = "succeeded" => Succeeds(i),
         job.status \in {"queued", "running"} => ~projects[jobs[i].runner].revoked
  PROVE  JobsMove
<1>1. jobs' = [jobs EXCEPT ![i] = job] /\ job \in Job
  BY DEF SetJob, MayBecome
<1>2. /\ jobs' \in [DOMAIN jobs -> Job]
      /\ \A j \in DOMAIN jobs : jobs'[j] = IF j = i THEN job ELSE jobs[j]
  BY <1>1, JobsTyped
<1>3. ASSUME NEW j \in DOMAIN jobs, j # i
      PROVE  /\ MayBecome(jobs[j], jobs'[j])
             /\ jobs'[j].status = "succeeded" => Succeeds(j)
             /\ jobs'[j].status \in {"queued", "running"} => ~projects'[jobs[j].runner].revoked
  <2>1. jobs'[j] = jobs[j]
    BY <1>2, <1>3
  <2> QED
    BY <2>1, JobsTyped DEF MayBecome, Succeeds, Accountable, RevokedGrantIsIdle
<1> QED
  BY <1>2, <1>3 DEF JobsMove

\* What follows for the jobs.
LEMMA JobsMoved ==
  ASSUME Accountable, JobsMove, call' \in {0, call}, call' # 0 => task'.step # "none"
  PROVE  /\ jobs' \in Seq(Job) /\ Len(jobs') = Len(jobs) /\ DOMAIN jobs' = DOMAIN jobs
         /\ (\A i \in DOMAIN jobs : JobIsSound(jobs[i]))'
         /\ RevokedGrantIsIdle' /\ SnapshotsInOrder' /\ StaysSettled
<1>1. /\ jobs' \in Seq(Job) /\ Len(jobs') = Len(jobs) /\ DOMAIN jobs' = DOMAIN jobs
  <2>1. jobs' \in [1..Len(jobs) -> Job] /\ Len(jobs) \in Nat
    BY JobsTyped DEF JobsMove
  <2>2. jobs' \in Seq(Job)
    BY <2>1, SeqDef
  <2>3. DOMAIN jobs' = 1..Len(jobs') /\ DOMAIN jobs' = 1..Len(jobs) /\ Len(jobs') \in Nat
    BY <2>1, <2>2, LenProperties
  <2>4. Len(jobs') = Len(jobs)
    BY <2>1, <2>3
  <2> QED
    BY <2>2, <2>3, <2>4
<1>2. (\A i \in DOMAIN jobs : JobIsSound(jobs[i]))'
  BY <1>1 DEF JobsMove, MayBecome
<1>3. RevokedGrantIsIdle'
  BY <1>1 DEF RevokedGrantIsIdle, JobsMove, MayBecome
<1>4. StaysSettled
  BY DEF StaysSettled, JobsMove, MayBecome, Settled
<1>5. SnapshotsInOrder'
  <2>1. \A kind : OfKind(kind)' = OfKind(kind)
    BY <1>1 DEF OfKind, JobsMove, MayBecome
  <2>2. ASSUME NEW i \in DOMAIN jobs
        PROVE  /\ jobs[i].status \in Settled => jobs'[i].status \in {jobs[i].status, "cancelled"}
               /\ jobs'[i].text => jobs[i].text \/ jobs[i].status = "running"
    BY DEF JobsMove, MayBecome
  <2>3. Unpurged' \subseteq Unpurged
    BY <2>1, <2>2 DEF Unpurged, OfKind, Settled
  <2>4. \A i \in OfKind("context") : jobs[i].status \in {"succeeded", "cancelled"} =>
          jobs'[i].status \in {"succeeded", "cancelled"}
    BY <2>2 DEF OfKind, Settled
  <2>5. call' # 0 => jobs'[call].kind = jobs[call].kind
    BY DEF JobsMove, MayBecome, Accountable, JobTypeOK, SnapshotsInOrder, Unpurged, OfKind
  <2>6. (Single(Unpurged) /\ Single(OfKind("apply_changes")))'
    BY <2>1, <2>3 DEF Accountable, SnapshotsInOrder, Single
  <2>7. (call # 0 => /\ task.step # "none" /\ jobs[call].kind = "context"
                     /\ Unpurged \subseteq {call} /\ OfKind("apply_changes") = {})'
    BY <2>1, <2>3, <2>5 DEF Accountable, SnapshotsInOrder
  <2>8. (call # 0 \/ OfKind("apply_changes") # {} =>
           \A i \in OfKind("context") : jobs[i].status \in {"succeeded", "cancelled"})'
    BY <2>1, <2>4 DEF Accountable, SnapshotsInOrder
  <2>9. SnapshotIsPurged'
    <3> SUFFICES ASSUME OfKind("apply_changes") # {}, NEW i \in OfKind("context")
                 PROVE  ~jobs'[i].text
      BY <2>1 DEF SnapshotIsPurged
    <3>1. i \in DOMAIN jobs /\ ~jobs[i].text /\ jobs[i].status # "running"
      BY DEF Accountable, SnapshotsInOrder, SnapshotIsPurged, OfKind
    <3> QED
      BY <2>2, <3>1
  <2> QED
    BY <2>6, <2>7, <2>8, <2>9 DEF SnapshotsInOrder
<1> QED
  BY <1>1, <1>2, <1>3, <1>4, <1>5

\* What follows for the work, the folder, the receipts and the step.
LEMMA WorkStays ==
  ASSUME Accountable, JobsMove, UNCHANGED work
  PROVE  WorkIsSound'
<1>1. DOMAIN jobs' = DOMAIN jobs /\ Len(jobs') = Len(jobs)
  <2>1. jobs' \in [1..Len(jobs) -> Job] /\ Len(jobs) \in Nat
    BY JobsTyped DEF JobsMove
  <2>2. jobs' \in Seq(Job)
    BY <2>1, SeqDef
  <2>3. DOMAIN jobs' = 1..Len(jobs') /\ Len(jobs') \in Nat
    BY <2>2, LenProperties
  <2> QED
    BY <2>1, <2>3, JobsTyped
<1>2. \A i \in DOMAIN jobs : jobs'[i].kind = jobs[i].kind /\ (jobs[i].approved # "no" => jobs'[i].approved # "no")
  BY DEF JobsMove, MayBecome
<1>3. CASE work.pc = "working"
  BY <1>1, <1>2, <1>3 DEF Accountable, WorkIsSound
<1>4. CASE work.pc = "writing"
  BY <1>1, <1>2, <1>4 DEF Accountable, WorkIsSound
<1> QED
  BY <1>3, <1>4 DEF WorkIsSound

LEMMA FolderStays ==
  ASSUME Accountable, JobsMove, UNCHANGED folder
  PROVE  WrittenIsApproved'
<1>1. ASSUME NEW f \in 1..NFiles, folder[f] # 0
      PROVE  folder[f] \in DOMAIN jobs
  BY <1>1, JobsTyped DEF Accountable, JobTypeOK
<1> QED
  BY <1>1 DEF Accountable, WrittenIsApproved, JobsMove, MayBecome

LEMMA ReceiptsStay ==
  ASSUME Accountable, JobsMove, UNCHANGED folder,
         work'.pc = "writing" => work' = work,
         \A m \in sent' \union checked' :
           \/ m \in sent \union checked
           \/ m.job \in DOMAIN jobs /\ (m.status = "failed" \/ jobs[m.job].kind # "apply_changes")
  PROVE  ReceiptsAreTrue'
<1>1. DOMAIN jobs' = DOMAIN jobs
  BY DEF JobsMove
<1>2. OfKind("apply_changes")' = OfKind("apply_changes")
  BY <1>1 DEF OfKind, JobsMove, MayBecome
<1>3. \A m \in sent' \union checked' : m.job \in DOMAIN jobs'
  BY <1>1 DEF Accountable, ReceiptsAreTrue
<1>4. ASSUME NEW i \in OfKind("apply_changes"), Succeeds(i)'
      PROVE  Succeeds(i)
  <2>1. i \in DOMAIN jobs /\ jobs[i].kind = "apply_changes"
    BY DEF OfKind
  <2>2. CASE jobs'[i].status = "succeeded"
    BY <2>1, <2>2 DEF JobsMove
  <2>3. CASE \E m \in sent' \union checked' : m.job = i /\ m.status = "succeeded"
    BY <2>1, <2>3 DEF Succeeds
  <2> QED
    BY <1>4, <2>2, <2>3 DEF Succeeds
<1>5. ASSUME NEW i \in OfKind("apply_changes"), Succeeds(i)', NEW f \in 1..NFiles
      PROVE  folder'[f] = i /\ (work'.pc = "writing" => work'.before[f] = i)
  BY <1>4, <1>5 DEF Accountable, ReceiptsAreTrue
<1> QED
  BY <1>2, <1>3, <1>5 DEF ReceiptsAreTrue

LEMMA TaskStays ==
  ASSUME Accountable, JobsMove, UNCHANGED task
  PROVE  TaskIsSound'
<1>1. DOMAIN jobs' = DOMAIN jobs
  BY DEF JobsMove
<1>2. OfKind("apply_changes")' = OfKind("apply_changes")
  BY <1>1 DEF OfKind, JobsMove, MayBecome
<1>3. ASSUME NEW i \in OfKind("apply_changes"), jobs[i].status = "succeeded"
      PROVE  jobs'[i].status = "succeeded"
  BY <1>3 DEF OfKind, JobsMove, MayBecome, Settled
<1> QED
  BY <1>2, <1>3 DEF Accountable, TaskIsSound

\* A step that moves jobs, takes or loses receipts, and leaves the files and the step.
LEMMA JobsMoveKeeps ==
  ASSUME Accountable, Linked', JobsMove, projects' \in [RunnerIds -> Project],
         UNCHANGED <<task, folder>>, call' \in {0, call},
         WorkIsSound', work'.pc \in {"idle", "polling", "working", "writing", "waiting"},
         work'.pc = "writing" => work' = work,
         sent' \in SUBSET Receipt, checked' \in SUBSET Receipt,
         \A m \in sent' \union checked' :
           \/ m \in sent \union checked
           \/ m.job \in DOMAIN jobs /\ (m.status = "failed" \/ jobs[m.job].kind # "apply_changes")
  PROVE  Accountable' /\ StaysSettled
<1>1. call' # 0 => task'.step # "none"
  BY DEF Accountable, SnapshotsInOrder
<1>2. JobTypeOK'
  BY <1>1, JobsMoved DEF Accountable, JobTypeOK
<1> QED
  BY <1>1, <1>2, JobsMoved, FolderStays, ReceiptsStay, TaskStays DEF Accountable

\* The same, while the runner goes on with its work and no receipt is sent.
LEMMA MovingKeeps ==
  ASSUME Accountable, Linked', JobsMove, projects' \in [RunnerIds -> Project],
         UNCHANGED <<task, folder, work>>, call' \in {0, call},
         sent' \in SUBSET sent, checked' \in SUBSET (sent \union checked)
  PROVE  Accountable' /\ StaysSettled
<1>1. work.pc \in {"idle", "polling", "working", "writing", "waiting"}
      /\ sent' \in SUBSET Receipt /\ checked' \in SUBSET Receipt
  BY DEF Accountable, JobTypeOK
<1> QED
  BY <1>1, WorkStays, JobsMoveKeeps

-----------------------------------------------------------------------------
(***************************************************************************)
(* The owner's steps                                                       *)
(***************************************************************************)

LEMMA ProjectsTyped ==
  ASSUME Accountable
  PROVE  projects \in [RunnerIds -> Project] /\ \A r \in RunnerIds : projects[r] \in Project
  BY DEF Accountable, JobTypeOK

\* Steps that leave jobs, projects and the rest alone.
LEMMA AloneKeeps ==
  ASSUME Accountable, Linked', UNCHANGED <<projects, jobs, task, work, folder, sent>>,
         call' \in {0, call}, checked' \in {checked, {}}
  PROVE  Accountable' /\ StaysSettled
<1>1. JobsMove
  BY StayingMoves
<1> QED
  BY <1>1, ProjectsTyped, MovingKeeps

\* A project is registered or approved: it is not revoked by it.
LEMMA AddProjectKeeps ==
  ASSUME Accountable, Linked', AddProject, UNCHANGED <<jobs, ByOwner>>
  PROVE  Accountable' /\ StaysSettled
<1>1. CASE UNCHANGED projects
  BY <1>1, AloneKeeps DEF ByOwner
<1>2. ASSUME NEW r, Register(r) PROVE Accountable' /\ StaysSettled
  <2> DEFINE fresh == [NoProject EXCEPT !.known = TRUE]
  <2>1. fresh \in Project /\ ~fresh.revoked
    <3>1. NoProject \in Project /\ ~NoProject.revoked
      BY DEF NoProject, Project
    <3> QED
      BY <3>1 DEF Project
  <2> HIDE DEF fresh
  <2>2. projects' = [projects EXCEPT ![r] = IF @.known /\ ~@.revoked THEN @ ELSE fresh]
    BY <1>2 DEF Register, fresh
  <2>3. projects' \in [RunnerIds -> Project]
        /\ \A q \in RunnerIds : projects'[q].revoked => projects[q].revoked
    BY <2>1, <2>2, ProjectsTyped
  <2>4. JobsMove
    BY <2>3, StayingMoves
  <2> QED
    BY <2>3, <2>4, MovingKeeps DEF ByOwner
<1> QED
  BY <1>1, <1>2 DEF AddProject

LEMMA ApproveProjectKeeps ==
  ASSUME Accountable, Linked', NEW r \in RunnerIds, NEW grant \in Grants, ApproveProject(r, grant)
  PROVE  Accountable' /\ StaysSettled
<1> DEFINE new == [projects[r] EXCEPT !.permissions = grant, !.approved = TRUE]
<1>1. projects' = [projects EXCEPT ![r] = new]
  BY DEF ApproveProject
<1>2. new \in Project /\ new.revoked = projects[r].revoked
  BY ProjectsTyped DEF Project
<1> HIDE DEF new
<1>3. projects' \in [RunnerIds -> Project]
      /\ \A q \in RunnerIds : projects'[q].revoked => projects[q].revoked
  BY <1>1, <1>2, ProjectsTyped
<1>4. JobsMove
  BY <1>3, StayingMoves DEF ApproveProject
<1> QED
  BY <1>3, <1>4, MovingKeeps DEF ApproveProject, ByOwner

\* When a grant ends, its jobs that wait or run are cancelled.
LEMMA CancelMoves ==
  ASSUME Accountable, NEW r, jobs' = CancelJobs(r),
         \A q \in RunnerIds : projects'[q].revoked => projects[q].revoked \/ q = r
  PROVE  JobsMove
<1>1. ASSUME NEW i \in DOMAIN jobs
      PROVE  /\ MayBecome(jobs[i], jobs'[i])
             /\ jobs'[i].status = "succeeded" => Succeeds(i)
             /\ jobs'[i].status \in {"queued", "running"} => ~projects'[jobs[i].runner].revoked
  <2>1. jobs[i] \in Job /\ JobIsSound(jobs[i]) /\ jobs[i].runner \in RunnerIds
    BY JobsTyped DEF Job
  <2>2. CASE jobs[i].runner = r /\ jobs[i].status \in Live
    <3>1. jobs'[i] = [jobs[i] EXCEPT !.status = "cancelled"]
      BY <2>2 DEF CancelJobs
    <3>2. ~jobs[i].text
      BY <2>1, <2>2 DEF JobIsSound, Live
    <3>3. jobs'[i] \in Job /\ JobIsSound(jobs'[i])
      BY <2>1, <3>1, <3>2 DEF Job, JobIsSound
    <3> QED
      BY <2>1, <2>2, <3>1, <3>2, <3>3 DEF MayBecome, Job, Live, Settled
  <2>3. CASE ~(jobs[i].runner = r /\ jobs[i].status \in Live)
    <3>1. jobs'[i] = jobs[i]
      BY <2>3 DEF CancelJobs
    <3> QED
      BY <2>1, <2>3, <3>1 DEF MayBecome, Succeeds, Accountable, RevokedGrantIsIdle, Live
  <2> QED
    BY <2>2, <2>3
<1>2. jobs' \in [DOMAIN jobs -> Job]
  <2>1. jobs' = [i \in DOMAIN jobs |-> jobs'[i]]
    BY DEF CancelJobs
  <2> QED
    BY <1>1, <2>1 DEF MayBecome
<1> QED
  BY <1>1, <1>2 DEF JobsMove

LEMMA RevokeProjectKeeps ==
  ASSUME Accountable, Linked', NEW r \in RunnerIds, RevokeProject(r)
  PROVE  Accountable' /\ StaysSettled
<1>1. projects' = [projects EXCEPT ![r].revoked = TRUE]
  BY DEF RevokeProject
<1>2. projects' \in [RunnerIds -> Project]
      /\ \A q \in RunnerIds : projects'[q].revoked => projects[q].revoked \/ q = r
  BY <1>1, ProjectsTyped DEF Project
<1>3. JobsMove
  BY <1>2, CancelMoves DEF RevokeProject
<1> QED
  BY <1>2, <1>3, MovingKeeps DEF RevokeProject, ByOwner

LEMMA RevokeRunnerKeeps ==
  ASSUME Accountable, Linked', NEW r \in DOMAIN runners, RevokeRunner(r)
  PROVE  Accountable' /\ StaysSettled
<1> DEFINE gone == projects[r].revoked \/ projects[r].known
<1>1. gone \in BOOLEAN
  OBVIOUS
<1>2. projects' = [projects EXCEPT ![r].revoked = gone]
  BY DEF RevokeRunner
<1> HIDE DEF gone
<1>3. projects' \in [RunnerIds -> Project]
      /\ \A q \in RunnerIds : projects'[q].revoked => projects[q].revoked \/ q = r
  BY <1>1, <1>2, ProjectsTyped DEF Project
<1>4. JobsMove
  BY <1>3, CancelMoves DEF RevokeRunner
<1> QED
  BY <1>3, <1>4, MovingKeeps DEF RevokeRunner, ByOwner

\* What a permission says of its project.
LEMMA GrantedIsKept ==
  \A r, permission : Granted(r, permission) => ~projects[r].revoked
  BY DEF Granted

\* The decisions on a job, a lapse and a purge: one job moves, and nothing else does.
LEMMA SettingKeeps ==
  ASSUME Accountable, Linked', NEW i \in DOMAIN jobs, NEW job, SetJob(i, job),
         MayBecome(jobs[i], job), job.status = "succeeded" => Succeeds(i),
         job.status \in {"queued", "running"} => ~projects[jobs[i].runner].revoked,
         UNCHANGED <<projects, task, call, work, folder>>,
         sent' \in SUBSET sent, checked' \in SUBSET (sent \union checked)
  PROVE  Accountable' /\ StaysSettled
<1>1. JobsMove
  BY SettingMoves
<1> QED
  BY <1>1, ProjectsTyped, MovingKeeps

LEMMA ApproveJobKeeps ==
  ASSUME Accountable, Linked', NEW i \in DOMAIN jobs, ApproveJob(i)
  PROVE  Accountable' /\ StaysSettled
<1> DEFINE new == [jobs[i] EXCEPT !.status = "queued", !.approved = "by_boss"]
<1>1. jobs[i] \in Job /\ JobIsSound(jobs[i]) /\ jobs[i].status = "awaiting_approval"
  BY JobsTyped DEF ApproveJob
<1>2. new \in Job /\ JobIsSound(new)
  BY <1>1 DEF Job, JobIsSound
<1>3. MayBecome(jobs[i], new) /\ new.status = "queued"
  BY <1>1, <1>2 DEF MayBecome, JobIsSound, Job, Settled
<1>4. SetJob(i, new) /\ ~projects[jobs[i].runner].revoked /\ UNCHANGED <<projects, ByOwner>>
  BY GrantedIsKept DEF ApproveJob
<1> HIDE DEF new
<1> QED
  BY <1>3, <1>4, SettingKeeps DEF ByOwner

LEMMA RejectJobKeeps ==
  ASSUME Accountable, Linked', NEW i \in DOMAIN jobs, RejectJob(i)
  PROVE  Accountable' /\ StaysSettled
<1> DEFINE new == [jobs[i] EXCEPT !.status = "rejected", !.approved = "no"]
<1>1. jobs[i] \in Job /\ JobIsSound(jobs[i]) /\ jobs[i].status = "awaiting_approval"
  BY JobsTyped DEF RejectJob
<1>2. new \in Job /\ JobIsSound(new)
  BY <1>1 DEF Job, JobIsSound
<1>3. MayBecome(jobs[i], new) /\ new.status = "rejected"
  BY <1>1, <1>2 DEF MayBecome, JobIsSound, Job, Settled
<1>4. SetJob(i, new) /\ UNCHANGED <<projects, ByOwner>>
  BY DEF RejectJob
<1> HIDE DEF new
<1> QED
  BY <1>3, <1>4, SettingKeeps DEF ByOwner

LEMMA RetryJobKeeps ==
  ASSUME Accountable, Linked', NEW i \in DOMAIN jobs, RetryJob(i)
  PROVE  Accountable' /\ StaysSettled
<1> DEFINE new == [jobs[i] EXCEPT !.status = "queued", !.receipt = 0, !.text = FALSE]
<1>1. jobs[i] \in Job /\ JobIsSound(jobs[i]) /\ jobs[i].status = "failed"
      /\ jobs[i].attempt < MaxAttempts
  BY JobsTyped DEF RetryJob
<1>2. new \in Job /\ JobIsSound(new)
  <2>1. 0 \in 0..MaxAttempts
    BY JobsAssumption
  <2>2. new \in Job
    BY <1>1, <2>1 DEF Job
  <2> QED
    BY <1>1, <2>2 DEF Job, JobIsSound
<1>3. MayBecome(jobs[i], new) /\ new.status = "queued"
  BY <1>1, <1>2 DEF MayBecome, Job, Settled
<1>4. SetJob(i, new) /\ ~projects[jobs[i].runner].revoked /\ UNCHANGED <<projects, ByOwner>>
  BY GrantedIsKept DEF RetryJob
<1> HIDE DEF new
<1> QED
  BY <1>3, <1>4, SettingKeeps DEF ByOwner

LEMMA LapseMoves ==
  ASSUME Accountable, NEW i \in DOMAIN jobs, jobs[i].status = "running"
  PROVE  MayBecome(jobs[i], Lapse(i)) /\ Lapse(i).status = "failed"
<1>1. jobs[i] \in Job /\ JobIsSound(jobs[i])
  BY JobsTyped
<1>2. Lapse(i) \in Job /\ JobIsSound(Lapse(i))
  BY <1>1 DEF Lapse, Job, JobIsSound
<1> QED
  BY <1>1, <1>2 DEF MayBecome, Lapse, Job, Settled

LEMMA RecoverJobKeeps ==
  ASSUME Accountable, Linked', NEW i \in DOMAIN jobs, RecoverJob(i)
  PROVE  Accountable' /\ StaysSettled
<1>1. SetJob(i, Lapse(i)) /\ jobs[i].status = "running" /\ UNCHANGED <<projects, ByOwner>>
  BY DEF RecoverJob
<1> QED
  BY <1>1, LapseMoves, SettingKeeps DEF ByOwner

LEMMA PurgeSnapshotKeeps ==
  ASSUME Accountable, Linked', NEW i \in DOMAIN jobs, PurgeSnapshot(i)
  PROVE  Accountable' /\ StaysSettled
<1> DEFINE new == [jobs[i] EXCEPT !.status = "cancelled", !.text = FALSE]
<1>1. jobs[i] \in Job /\ JobIsSound(jobs[i]) /\ jobs[i].status = "succeeded" /\ jobs[i].kind = "context"
  BY JobsTyped DEF PurgeSnapshot
<1>2. new \in Job /\ JobIsSound(new)
  BY <1>1 DEF Job, JobIsSound
<1>3. MayBecome(jobs[i], new) /\ new.status = "cancelled"
  BY <1>1, <1>2 DEF MayBecome, Job, Settled
<1>4. SetJob(i, new) /\ UNCHANGED <<projects, ByOwner>>
  BY DEF PurgeSnapshot
<1> HIDE DEF new
<1> QED
  BY <1>3, <1>4, SettingKeeps DEF ByOwner

LEMMA OwnerKeeps ==
  ASSUME Accountable, Linked', Owner
  PROVE  Accountable' /\ StaysSettled
  BY ApproveProjectKeeps, RevokeProjectKeeps, RevokeRunnerKeeps, ApproveJobKeeps, RejectJobKeeps,
     RetryJobKeeps, RecoverJobKeeps, PurgeSnapshotKeeps DEF Owner

-----------------------------------------------------------------------------
(***************************************************************************)
(* The first job of a kind                                                 *)
(***************************************************************************)

LEMMA FirstOfSome ==
  ASSUME NEW S, S \subseteq Nat, S # {}
  PROVE  First(S) \in S
<1>1. \E i \in S : \A j \in S : ~(<<j, i>> \in OpToRel(<, Nat))
  BY NatLessThanWellFounded, WFMin
<1>2. PICK i \in S : \A j \in S : ~(<<j, i>> \in OpToRel(<, Nat))
  BY <1>1
<1>3. \A j \in Nat : j < i => j \notin S
  BY <1>2, Zenon DEF OpToRel
<1>4. \A j \in S : i <= j
  BY <1>3
<1> QED
  BY <1>4 DEF First

LEMMA FirstOfJobs ==
  ASSUME Accountable, NEW S, S \subseteq DOMAIN jobs
  PROVE  /\ First(S) = 0 => S = {}
         /\ First(S) # 0 => First(S) \in S
<1>1. S \subseteq Nat /\ 0 \notin S
  BY JobsTyped
<1>2. CASE S = {}
  BY <1>2 DEF First
<1>3. CASE S # {}
  BY <1>1, <1>3, FirstOfSome
<1> QED
  BY <1>2, <1>3

LEMMA LastOfOne ==
  ASSUME Accountable, Unpurged # {}
  PROVE  Last(Unpurged) \in Unpurged
<1>1. PICK i \in Unpurged : TRUE
  OBVIOUS
<1>2. i \in Int
  BY JobsTyped DEF Unpurged, OfKind
<1>3. \A j \in Unpurged : j <= i
  BY <1>2 DEF Accountable, SnapshotsInOrder, Single
<1> QED
  BY <1>1, <1>3 DEF Last

\* The change and the verification the scheduler looks at.
LEMMA ChangeIsOne ==
  ASSUME Accountable
  PROVE  /\ Change = 0 => OfKind("apply_changes") = {}
         /\ Change # 0 => Change \in OfKind("apply_changes")
         /\ Verification # 0 => Verification \in OfKind("verify")
         /\ Change \in 0..MaxJobs /\ Verification \in 0..MaxJobs
<1>1. OfKind("apply_changes") \subseteq DOMAIN jobs /\ OfKind("verify") \subseteq DOMAIN jobs
  BY DEF OfKind
<1>2. /\ Change = 0 => OfKind("apply_changes") = {}
      /\ Change # 0 => Change \in OfKind("apply_changes")
      /\ Verification # 0 => Verification \in OfKind("verify")
  BY <1>1, FirstOfJobs DEF Change, Verification
<1>3. DOMAIN jobs \subseteq 0..MaxJobs /\ 0 \in 0..MaxJobs
  BY JobsTyped, JobsAssumption
<1> QED
  BY <1>1, <1>2, <1>3

-----------------------------------------------------------------------------
(***************************************************************************)
(* The scheduler's steps                                                   *)
(***************************************************************************)

\* The step changes, and the jobs do not.
LEMMA TaskKeeps ==
  ASSUME Accountable, Linked', UNCHANGED <<projects, jobs, call, work, folder, sent, checked>>,
         task' \in [step : {"none", "pending", "done"}, project : {0} \union Codes,
                    returns : 0..MaxReturns, applied : 0..MaxJobs, verified : 0..MaxJobs],
         task'.step # "none", TaskIsSound'
  PROVE  Accountable' /\ StaysSettled
<1>1. JobsMove
  BY StayingMoves
<1>2. /\ (\A i \in DOMAIN jobs : JobIsSound(jobs[i]))'
      /\ RevokedGrantIsIdle' /\ SnapshotsInOrder' /\ StaysSettled
  BY <1>1, JobsMoved
<1>3. WorkIsSound' /\ WrittenIsApproved' /\ ReceiptsAreTrue'
  BY <1>1, WorkStays, FolderStays, ReceiptsStay
<1>4. JobTypeOK'
  BY DEF Accountable, JobTypeOK
<1> QED
  BY <1>2, <1>3, <1>4 DEF Accountable

LEMMA TaskTyped ==
  ASSUME Accountable
  PROVE  /\ task \in [step : {"none", "pending", "done"}, project : {0} \union Codes,
                      returns : 0..MaxReturns, applied : 0..MaxJobs, verified : 0..MaxJobs]
         /\ task.step # "none" => task.project \in RunnerIds
  BY DEF Accountable, JobTypeOK, TaskIsSound

LEMMA CreateTaskKeeps ==
  ASSUME Accountable, Linked', NEW r \in RunnerIds, CreateTask(r)
  PROVE  Accountable' /\ StaysSettled
<1>1. /\ task' = [task EXCEPT !.step = "pending", !.project = r]
      /\ UNCHANGED <<projects, jobs, call, work, folder, sent, checked>>
  BY DEF CreateTask, ByScheduler
<1>2. /\ task' \in [step : {"none", "pending", "done"}, project : {0} \union Codes,
                    returns : 0..MaxReturns, applied : 0..MaxJobs, verified : 0..MaxJobs]
      /\ task'.step = "pending" /\ task'.project \in RunnerIds
  BY <1>1, TaskTyped DEF RunnerIds
<1>3. TaskIsSound'
  BY <1>2 DEF TaskIsSound
<1> QED
  BY <1>1, <1>2, <1>3, TaskKeeps

LEMMA ReturnKeeps ==
  ASSUME Accountable, Linked', Return
  PROVE  Accountable' /\ StaysSettled
<1>1. /\ task.step = "done" /\ task.returns < MaxReturns
      /\ task' = [task EXCEPT !.step = "pending", !.returns = @ + 1]
      /\ UNCHANGED <<projects, jobs, call, work, folder, sent, checked>>
  BY DEF Return, ByScheduler
<1>2. /\ task' \in [step : {"none", "pending", "done"}, project : {0} \union Codes,
                    returns : 0..MaxReturns, applied : 0..MaxJobs, verified : 0..MaxJobs]
      /\ task'.step = "pending" /\ task'.project \in RunnerIds
  <2>1. task.returns + 1 \in 0..MaxReturns
    BY <1>1, TaskTyped, JobsAssumption
  <2> QED
    BY <1>1, <2>1, TaskTyped
<1>3. TaskIsSound'
  BY <1>2 DEF TaskIsSound
<1> QED
  BY <1>1, <1>2, <1>3, TaskKeeps

\* The step is reported with the change the office has a receipt of.
LEMMA ReportKeeps ==
  ASSUME Accountable, Linked', Report
  PROVE  Accountable' /\ StaysSettled
<1> DEFINE verified == IF Granted(task.project, "verify") THEN Verification ELSE 0
<1>1. /\ task.step = "pending" /\ Change # 0 /\ Received(Change)
      /\ task' = [task EXCEPT !.step = "done", !.applied = Change, !.verified = verified]
      /\ UNCHANGED <<projects, jobs, call, work, folder, sent, checked>>
  BY DEF Report, Considers, ByScheduler
<1>2. /\ verified \in 0..MaxJobs /\ Change \in 0..MaxJobs
      /\ Change \in OfKind("apply_changes") /\ jobs[Change].status = "succeeded"
  BY <1>1, ChangeIsOne, JobsAssumption DEF Received
<1> HIDE DEF verified
<1>3. /\ task' \in [step : {"none", "pending", "done"}, project : {0} \union Codes,
                    returns : 0..MaxReturns, applied : 0..MaxJobs, verified : 0..MaxJobs]
      /\ task'.step = "done" /\ task'.project \in RunnerIds /\ task'.applied = Change
  BY <1>1, <1>2, TaskTyped
<1>4. OfKind("apply_changes")' = OfKind("apply_changes") /\ jobs' = jobs
  BY <1>1 DEF OfKind
<1>5. TaskIsSound'
  BY <1>2, <1>3, <1>4 DEF TaskIsSound
<1> QED
  BY <1>1, <1>3, <1>5, TaskKeeps

\* The provider gets the one snapshot there is, while no change is proposed.
LEMMA ProposeKeeps ==
  ASSUME Accountable, Linked', Propose
  PROVE  Accountable' /\ StaysSettled
<1>1. /\ task.step = "pending" /\ Change = 0 /\ Unpurged # {}
      /\ call' = Last(Unpurged) /\ jobs[call'].status = "succeeded"
      /\ UNCHANGED <<projects, jobs, task, work, folder, sent, checked>>
  BY DEF Propose, Considers, ByScheduler
<1>2. call' \in Unpurged /\ OfKind("apply_changes") = {}
  BY <1>1, LastOfOne, ChangeIsOne
<1>3. call' \in DOMAIN jobs /\ jobs[call'].kind = "context" /\ Unpurged \subseteq {call'}
  BY <1>2 DEF Unpurged, OfKind, Accountable, SnapshotsInOrder, Single
<1>4. \A kind : OfKind(kind)' = OfKind(kind)
  BY <1>1 DEF OfKind
<1>5. Unpurged' = Unpurged
  BY <1>1, <1>4 DEF Unpurged
<1>6. \A i \in OfKind("context") : jobs[i].status \in {"succeeded", "cancelled"}
  BY <1>1, <1>3 DEF Unpurged, OfKind
<1>7. SnapshotsInOrder'
  <2>1. (Single(Unpurged) /\ Single(OfKind("apply_changes")) /\ SnapshotIsPurged)'
    BY <1>1, <1>4, <1>5 DEF Accountable, SnapshotsInOrder, Single, SnapshotIsPurged
  <2>2. (call # 0 => /\ task.step # "none" /\ jobs[call].kind = "context"
                     /\ Unpurged \subseteq {call} /\ OfKind("apply_changes") = {})'
    BY <1>1, <1>2, <1>3, <1>4, <1>5
  <2>3. (call # 0 \/ OfKind("apply_changes") # {} =>
           \A i \in OfKind("context") : jobs[i].status \in {"succeeded", "cancelled"})'
    BY <1>1, <1>4, <1>6
  <2> QED
    BY <2>1, <2>2, <2>3 DEF SnapshotsInOrder
<1>8. JobsMove
  BY <1>1, StayingMoves
<1>9. WorkIsSound' /\ WrittenIsApproved' /\ ReceiptsAreTrue' /\ TaskIsSound'
  BY <1>1, <1>8, WorkStays, FolderStays, ReceiptsStay, TaskStays
<1>10. JobTypeOK'
  BY <1>1, <1>3, JobsTyped DEF Accountable, JobTypeOK
<1>11. RevokedGrantIsIdle' /\ (\A i \in DOMAIN jobs : JobIsSound(jobs[i]))' /\ StaysSettled
  BY <1>1 DEF Accountable, RevokedGrantIsIdle, StaysSettled
<1> QED
  BY <1>7, <1>9, <1>10, <1>11 DEF Accountable

\* A job is appended, and texts may be cleared.
Appends(base, new) ==
  /\ base \in Seq(Job) /\ Len(base) = Len(jobs)
  /\ \A i \in DOMAIN jobs :
       /\ JobIsSound(base[i])
       /\ base[i].kind = jobs[i].kind /\ base[i].runner = jobs[i].runner
       /\ base[i].status = jobs[i].status /\ base[i].approved = jobs[i].approved
       /\ base[i].text => jobs[i].text
  /\ new \in Job /\ JobIsSound(new) /\ new.status \in {"awaiting_approval", "queued"}
  /\ new.status = "queued" => ~projects[new.runner].revoked
  /\ jobs' = Append(base, new) /\ Len(jobs) < MaxJobs

LEMMA Appended ==
  ASSUME Accountable, NEW base, NEW new, Appends(base, new)
  PROVE  /\ jobs' \in Seq(Job) /\ Len(jobs') = Len(jobs) + 1 /\ Len(jobs) \in Nat
         /\ DOMAIN jobs = 1..Len(jobs) /\ DOMAIN jobs' = 1..(Len(jobs) + 1)
         /\ \A i \in DOMAIN jobs : jobs'[i] = base[i] /\ i \in DOMAIN jobs'
         /\ jobs'[Len(jobs) + 1] = new
         /\ \A kind : OfKind(kind)' = OfKind(kind) \union (IF new.kind = kind THEN {Len(jobs) + 1} ELSE {})
         /\ Unpurged' = Unpurged \union (IF new.kind = "context" THEN {Len(jobs) + 1} ELSE {})
<1>1. jobs \in Seq(Job) /\ base \in Seq(Job) /\ Len(base) = Len(jobs) /\ new \in Job
      /\ jobs' = Append(base, new)
  BY JobsTyped DEF Appends
<1>2. /\ jobs' \in Seq(Job) /\ Len(jobs') = Len(jobs) + 1 /\ Len(jobs) \in Nat
      /\ DOMAIN jobs = 1..Len(jobs) /\ DOMAIN jobs' = 1..(Len(jobs) + 1)
      /\ \A i \in DOMAIN jobs : jobs'[i] = base[i] /\ i \in DOMAIN jobs'
      /\ jobs'[Len(jobs) + 1] = new
  BY <1>1, LenProperties, AppendProperties
<1>3. \A kind : OfKind(kind)' = OfKind(kind) \union (IF new.kind = kind THEN {Len(jobs) + 1} ELSE {})
  BY <1>2 DEF OfKind, Appends
<1>4. Unpurged' = Unpurged \union (IF new.kind = "context" THEN {Len(jobs) + 1} ELSE {})
  BY <1>2, <1>3 DEF Unpurged, Appends, OfKind
<1> QED
  BY <1>2, <1>3, <1>4

LEMMA AppendKeeps ==
  ASSUME Accountable, Linked', NEW base, NEW new, Appends(base, new),
         UNCHANGED <<projects, task, work, folder, sent, checked>>, call' \in {0, call},
         SnapshotsInOrder'
  PROVE  Accountable' /\ StaysSettled
<1> PICK n \in Nat : n = Len(jobs) + 1
  BY JobsTyped
<1>1. /\ jobs' \in Seq(Job) /\ Len(jobs') = n /\ Len(jobs) \in Nat /\ n \notin DOMAIN jobs
      /\ DOMAIN jobs = 1..Len(jobs) /\ DOMAIN jobs' = 1..n /\ jobs'[n] = new
      /\ \A i \in DOMAIN jobs : jobs'[i] = base[i] /\ i \in DOMAIN jobs'
  BY Appended
<1>2. \A i \in DOMAIN jobs' : i \in DOMAIN jobs \/ i = n
  BY <1>1
<1>3. JobTypeOK'
  <2>1. call' \in 0..Len(jobs') /\ \A k \in 0..Len(jobs) : k \in 0..Len(jobs')
    BY <1>1 DEF Accountable, JobTypeOK
  <2>2. folder' \in [1..NFiles -> 0..Len(jobs')]
    BY <2>1 DEF Accountable, JobTypeOK
  <2>3. Len(jobs') <= MaxJobs
    BY <1>1, JobsAssumption DEF Appends
  <2> QED
    BY <1>1, <2>1, <2>2, <2>3 DEF Accountable, JobTypeOK
<1>4. (\A i \in DOMAIN jobs : JobIsSound(jobs[i]))'
  BY <1>1, <1>2 DEF Appends
<1>5. RevokedGrantIsIdle'
  BY <1>1, <1>2 DEF Accountable, RevokedGrantIsIdle, Appends
<1>6. ASSUME NEW i \in DOMAIN jobs
      PROVE  jobs'[i].kind = jobs[i].kind /\ jobs'[i].status = jobs[i].status
             /\ jobs'[i].approved = jobs[i].approved
  BY <1>1 DEF Appends
<1>7. WorkIsSound'
  <2>1. CASE work.pc = "working"
    BY <1>1, <1>6, <2>1 DEF Accountable, WorkIsSound
  <2>2. CASE work.pc = "writing"
    <3>1. work \in [pc : {"writing"}, job : DOMAIN jobs', attempt : 1..MaxAttempts,
                    before : [1..NFiles -> 0..Len(jobs')], done : 0..NFiles]
      <4>1. work \in [pc : {"writing"}, job : DOMAIN jobs, attempt : 1..MaxAttempts,
                      before : [1..NFiles -> 0..Len(jobs)], done : 0..NFiles]
        BY <2>2 DEF Accountable, WorkIsSound
      <4>2. \A k \in 0..Len(jobs) : k \in 0..Len(jobs')
        BY <1>1
      <4>3. work.before \in [1..NFiles -> 0..Len(jobs')]
        BY <4>1, <4>2
      <4> QED
        BY <1>1, <4>1, <4>3
    <3> QED
      BY <1>6, <2>2, <3>1 DEF Accountable, WorkIsSound
  <2> QED
    BY <2>1, <2>2 DEF WorkIsSound
<1>8. WrittenIsApproved'
  <2>1. ASSUME NEW f \in 1..NFiles, folder[f] # 0
        PROVE  folder[f] \in DOMAIN jobs
    BY <2>1, JobsTyped DEF Accountable, JobTypeOK
  <2> QED
    BY <1>6, <2>1 DEF Accountable, WrittenIsApproved
<1>9. ReceiptsAreTrue'
  <2>1. \A m \in sent' \union checked' : m.job \in DOMAIN jobs /\ m.job \in DOMAIN jobs'
    BY <1>1 DEF Accountable, ReceiptsAreTrue
  <2>2. ~Succeeds(n)'
    <3>1. jobs'[n].status # "succeeded"
      BY <1>1 DEF Appends
    <3> QED
      BY <1>1, <2>1, <3>1 DEF Succeeds
  <2>3. ASSUME NEW i \in DOMAIN jobs, Succeeds(i)'
        PROVE  Succeeds(i)
    BY <1>6, <2>3 DEF Succeeds
  <2>4. ASSUME NEW i \in OfKind("apply_changes")', Succeeds(i)'
        PROVE  i \in OfKind("apply_changes") /\ Succeeds(i)
    BY <1>2, <1>6, <2>2, <2>3, <2>4 DEF OfKind
  <2>5. \A i \in OfKind("apply_changes")' : Succeeds(i)' =>
          \A f \in 1..NFiles : folder'[f] = i /\ (work'.pc = "writing" => work'.before[f] = i)
    BY <2>4 DEF Accountable, ReceiptsAreTrue
  <2> QED
    BY <2>1, <2>5 DEF ReceiptsAreTrue
<1>10. TaskIsSound'
  BY <1>1, <1>6 DEF Accountable, TaskIsSound, OfKind
<1>11. StaysSettled
  BY <1>6 DEF StaysSettled
<1> QED
  BY <1>3, <1>4, <1>5, <1>7, <1>8, <1>9, <1>10, <1>11 DEF Accountable

\* A job that the scheduler asks for.
LEMMA NewJobIsSound ==
  ASSUME Accountable, NEW kind \in Kinds, NEW approval \in BOOLEAN, task.step # "none",
         approval \/ kind = "context", approval \/ ~projects[task.project].revoked
  PROVE  /\ NewJob(kind, approval) \in Job /\ JobIsSound(NewJob(kind, approval))
         /\ NewJob(kind, approval).status \in {"awaiting_approval", "queued"}
         /\ NewJob(kind, approval).kind = kind
         /\ NewJob(kind, approval).status = "queued" =>
              ~projects[NewJob(kind, approval).runner].revoked
<1>1. task.project \in RunnerIds /\ 0 \in 0..MaxAttempts /\ 0 < MaxAttempts
  BY TaskTyped, JobsAssumption
<1>2. CASE approval
  <2>1. NewJob(kind, approval) =
          [runner |-> task.project, kind |-> kind, status |-> "awaiting_approval",
           approved |-> "no", attempt |-> 0, receipt |-> 0, text |-> FALSE]
    BY <1>2 DEF NewJob
  <2>2. NewJob(kind, approval) \in Job
    BY <1>1, <2>1 DEF Job
  <2>3. JobIsSound(NewJob(kind, approval))
    BY <1>1, <2>1 DEF JobIsSound
  <2> QED
    BY <2>1, <2>2, <2>3
<1>3. CASE ~approval
  <2>1. NewJob(kind, approval) =
          [runner |-> task.project, kind |-> kind, status |-> "queued",
           approved |-> "by_office", attempt |-> 0, receipt |-> 0, text |-> FALSE]
    BY <1>3 DEF NewJob
  <2> QED
    BY <1>1, <1>3, <2>1 DEF Job, JobIsSound
<1> QED
  BY <1>2, <1>3

\* With the jobs as they are.
LEMMA AppendsJob ==
  ASSUME Accountable, NEW new \in Job, JobIsSound(new), new.status \in {"awaiting_approval", "queued"},
         new.status = "queued" => ~projects[new.runner].revoked,
         jobs' = Append(jobs, new), Len(jobs) < MaxJobs
  PROVE  Appends(jobs, new)
  BY JobsTyped DEF Appends

LEMMA QueueContextKeeps ==
  ASSUME Accountable, Linked', QueueContext
  PROVE  Accountable' /\ StaysSettled
<1> DEFINE new == NewJob("context", FALSE)
<1>1. /\ task.step = "pending" /\ call = 0 /\ call' = 0 /\ Change = 0 /\ Unpurged = {}
      /\ jobs' = Append(jobs, new) /\ Len(jobs) < MaxJobs
      /\ ~projects[task.project].revoked
      /\ UNCHANGED <<projects, task, work, folder, sent, checked>>
  BY DEF QueueContext, Considers, Granted, ByScheduler
<1>2. /\ new \in Job /\ JobIsSound(new) /\ new.status \in {"awaiting_approval", "queued"}
      /\ new.status = "queued" => ~projects[new.runner].revoked
      /\ new.kind = "context"
  BY <1>1, NewJobIsSound DEF Kinds
<1> HIDE DEF new
<1>3. Appends(jobs, new)
  BY <1>1, <1>2, AppendsJob
<1>4. OfKind("apply_changes")' = {} /\ Unpurged' = {Len(jobs) + 1}
  BY <1>1, <1>2, <1>3, Appended, ChangeIsOne
<1>5. SnapshotsInOrder'
  BY <1>1, <1>4 DEF SnapshotsInOrder, Single, SnapshotIsPurged
<1> QED
  BY <1>1, <1>3, <1>5, AppendKeeps

LEMMA RequestVerifyKeeps ==
  ASSUME Accountable, Linked', RequestVerify
  PROVE  Accountable' /\ StaysSettled
<1> DEFINE new == NewJob("verify", TRUE)
<1>1. /\ task.step = "pending" /\ call = 0 /\ call' = 0
      /\ jobs' = Append(jobs, new) /\ Len(jobs) < MaxJobs
      /\ UNCHANGED <<projects, task, work, folder, sent, checked>>
  BY DEF RequestVerify, Considers, ByScheduler
<1>2. /\ new \in Job /\ JobIsSound(new) /\ new.status \in {"awaiting_approval", "queued"}
      /\ new.status = "queued" => ~projects[new.runner].revoked
      /\ new.kind = "verify"
  BY <1>1, NewJobIsSound DEF Kinds
<1> HIDE DEF new
<1>3. Appends(jobs, new)
  BY <1>1, <1>2, AppendsJob
<1>4. /\ OfKind("apply_changes")' = OfKind("apply_changes") /\ OfKind("context")' = OfKind("context")
      /\ Unpurged' = Unpurged
      /\ \A i \in OfKind("context") : jobs'[i] = jobs[i]
  <2>1. \A i \in DOMAIN jobs : jobs'[i] = jobs[i]
    BY <1>3, Appended
  <2>2. /\ OfKind("apply_changes")' = OfKind("apply_changes") \union {}
        /\ OfKind("context")' = OfKind("context") \union {}
        /\ Unpurged' = Unpurged \union {}
    BY <1>2, <1>3, Appended
  <2> QED
    BY <2>1, <2>2 DEF OfKind
<1>5. SnapshotsInOrder'
  BY <1>1, <1>4 DEF Accountable, SnapshotsInOrder, Single, SnapshotIsPurged
<1> QED
  BY <1>1, <1>3, <1>5, AppendKeeps

\* The proposal comes: the snapshot it was made from loses its text, and no other has one.
LEMMA ProposalArrivesKeeps ==
  ASSUME Accountable, Linked', ProposalArrives
  PROVE  Accountable' /\ StaysSettled
<1> DEFINE new  == NewJob("apply_changes", TRUE)
           base == [jobs EXCEPT ![call].text = FALSE]
<1>1. /\ call # 0 /\ call' = 0 /\ jobs' = Append(base, new) /\ Len(jobs) < MaxJobs
      /\ UNCHANGED <<projects, task, work, folder, sent, checked>>
  BY DEF ProposalArrives, Proposal, Proposed, ByScheduler
<1>2. /\ task.step # "none" /\ jobs[call].kind = "context" /\ call \in DOMAIN jobs
      /\ Unpurged \subseteq {call} /\ OfKind("apply_changes") = {}
      /\ \A i \in OfKind("context") : jobs[i].status \in {"succeeded", "cancelled"}
  BY <1>1, JobsTyped DEF Accountable, SnapshotsInOrder, JobTypeOK
<1>3. /\ new \in Job /\ JobIsSound(new) /\ new.status \in {"awaiting_approval", "queued"}
      /\ new.status = "queued" => ~projects[new.runner].revoked
      /\ new.kind = "apply_changes"
  BY <1>2, NewJobIsSound DEF Kinds
<1> DEFINE cleared == [jobs[call] EXCEPT !.text = FALSE]
<1>4. cleared \in Job /\ JobIsSound(cleared) /\ ~cleared.text
      /\ cleared.kind = jobs[call].kind /\ cleared.runner = jobs[call].runner
      /\ cleared.status = jobs[call].status /\ cleared.approved = jobs[call].approved
  <2>1. jobs[call] \in Job /\ JobIsSound(jobs[call])
    BY <1>2, JobsTyped
  <2> QED
    BY <2>1 DEF Job, JobIsSound
<1>5. base = [jobs EXCEPT ![call] = cleared]
  OBVIOUS
<1> HIDE DEF new, base, cleared
<1>6. /\ base \in Seq(Job) /\ Len(base) = Len(jobs)
      /\ \A i \in DOMAIN jobs : base[i] = IF i = call THEN cleared ELSE jobs[i]
  BY <1>2, <1>4, <1>5, JobsTyped, ExceptSeq
<1>7. Appends(base, new)
  BY <1>1, <1>3, <1>4, <1>6, JobsTyped DEF Appends
<1>8. /\ OfKind("apply_changes")' = {Len(jobs) + 1} /\ OfKind("context")' = OfKind("context")
      /\ Unpurged' \subseteq {call}
      /\ \A i \in DOMAIN jobs : jobs'[i] = IF i = call THEN cleared ELSE jobs[i]
  <2>1. \A i \in DOMAIN jobs : jobs'[i] = base[i]
    BY <1>7, Appended
  <2>2. /\ OfKind("apply_changes")' = OfKind("apply_changes") \union {Len(jobs) + 1}
        /\ OfKind("context")' = OfKind("context") \union {}
        /\ Unpurged' = Unpurged \union {}
    BY <1>3, <1>7, Appended
  <2> QED
    BY <1>2, <1>6, <2>1, <2>2
<1>9. ASSUME NEW i \in OfKind("context")
      PROVE  ~jobs'[i].text /\ jobs'[i].status \in {"succeeded", "cancelled"}
  <2>1. i \in DOMAIN jobs /\ jobs[i].kind = "context"
    BY DEF OfKind
  <2>2. CASE i = call
    BY <1>2, <1>4, <1>8, <2>1, <2>2
  <2>3. CASE i # call
    <3>1. jobs'[i] = jobs[i] /\ jobs[i].status = "cancelled"
      BY <1>2, <1>8, <2>1, <2>3 DEF Unpurged
    <3>2. JobIsSound(jobs[i])
      BY <2>1, JobsTyped
    <3> QED
      BY <3>1, <3>2 DEF JobIsSound
  <2> QED
    BY <2>2, <2>3
<1>10. SnapshotsInOrder'
  BY <1>1, <1>8, <1>9 DEF SnapshotsInOrder, Single, SnapshotIsPurged
<1> QED
  BY <1>1, <1>7, <1>10, AppendKeeps

LEMMA SchedulerKeeps ==
  ASSUME Accountable, Linked', Scheduler
  PROVE  Accountable' /\ StaysSettled
<1>1. CASE ProposalFails
  BY <1>1, AloneKeeps DEF ProposalFails, ByScheduler
<1> QED
  BY <1>1, CreateTaskKeeps, QueueContextKeeps, ProposeKeeps, ProposalArrivesKeeps,
     RequestVerifyKeeps, ReportKeeps, ReturnKeeps DEF Scheduler

-----------------------------------------------------------------------------
(***************************************************************************)
(* The runner's steps                                                      *)
(***************************************************************************)

\* The runner is between two jobs, or waits for the answer to a receipt.
LEMMA RestingKeeps ==
  ASSUME Accountable, Linked', UNCHANGED <<projects, jobs, task, call, folder, checked>>,
         work'.pc \in {"idle", "polling", "waiting"}, sent' \in SUBSET Receipt,
         \A m \in sent' :
           \/ m \in sent
           \/ m.job \in DOMAIN jobs /\ (m.status = "failed" \/ jobs[m.job].kind # "apply_changes")
  PROVE  Accountable' /\ StaysSettled
<1>1. JobsMove
  BY StayingMoves
<1>2. WorkIsSound'
  BY DEF WorkIsSound
<1>3. checked' \in SUBSET Receipt
  BY DEF Accountable, JobTypeOK
<1> QED
  BY <1>1, <1>2, <1>3, ProjectsTyped, JobsMoveKeeps

LEMMA BeatKeeps ==
  ASSUME Accountable, Linked', Beat
  PROVE  Accountable' /\ StaysSettled
<1>1. UNCHANGED <<projects, jobs, task, call, folder, sent, checked>>
      /\ work'.pc \in {"idle", "polling"}
  BY DEF Beat, ByRunner, Idle
<1>2. sent' \in SUBSET Receipt
  BY <1>1 DEF Accountable, JobTypeOK
<1> QED
  BY <1>1, <1>2, RestingKeeps

LEMMA WaitedKeeps ==
  ASSUME Accountable, Linked', Waited
  PROVE  Accountable' /\ StaysSettled
<1>1. UNCHANGED <<projects, jobs, task, call, folder, checked>> /\ work'.pc = "idle"
      /\ sent' \in SUBSET sent
  BY DEF Waited, ByRunner, Idle
<1>2. sent' \in SUBSET Receipt
  BY <1>1 DEF Accountable, JobTypeOK
<1> QED
  BY <1>1, <1>2, RestingKeeps

LEMMA StopRunnerKeeps ==
  ASSUME Accountable, Linked', StopRunner
  PROVE  Accountable' /\ StaysSettled
<1>1. UNCHANGED <<projects, jobs, task, call, folder, sent, checked>> /\ work'.pc = "idle"
  BY DEF StopRunner, ByRunner, Idle
<1>2. sent' \in SUBSET Receipt
  BY <1>1 DEF Accountable, JobTypeOK
<1> QED
  BY <1>1, <1>2, RestingKeeps

\* The receipt of the job the runner has worked on.
LEMMA SentIsReceipt ==
  ASSUME Accountable, work.pc \in {"working", "writing"}, NEW status \in {"succeeded", "failed"},
         Send(status)
  PROVE  /\ work'.pc = "waiting" /\ sent' \in SUBSET Receipt /\ work.job \in DOMAIN jobs
         /\ \A m \in sent' : m \in sent \/ (m.job = work.job /\ m.status = status)
<1> DEFINE m == [job |-> work.job, attempt |-> work.attempt, status |-> status]
<1>1. work.job \in DOMAIN jobs /\ work.attempt \in 1..MaxAttempts
  BY DEF Accountable, WorkIsSound
<1>2. m \in Receipt
  BY <1>1, JobsTyped, JobsAssumption DEF Receipt
<1>3. sent' = sent \union {m} /\ work' = [pc |-> "waiting", receipt |-> m]
  BY DEF Send
<1>4. m.job = work.job /\ m.status = status
  OBVIOUS
<1> HIDE DEF m
<1>5. sent \in SUBSET Receipt
  BY DEF Accountable, JobTypeOK
<1> QED
  BY <1>1, <1>2, <1>3, <1>4, <1>5

LEMMA JobEndsKeeps ==
  ASSUME Accountable, Linked', JobFails \/ SnapshotTaken \/ VerificationPasses
  PROVE  Accountable' /\ StaysSettled
<1>1. UNCHANGED <<projects, jobs, task, call, folder, checked>> /\ work.pc = "working"
  BY DEF JobFails, SnapshotTaken, VerificationPasses, ByRunner
<1>2. CASE JobFails
  BY <1>1, <1>2, SentIsReceipt, RestingKeeps DEF JobFails
<1>3. CASE SnapshotTaken \/ VerificationPasses
  BY <1>1, <1>3, SentIsReceipt, RestingKeeps DEF SnapshotTaken, VerificationPasses
<1> QED
  BY <1>2, <1>3

\* While a change is written there is one proposal, which the boss has approved.
LEMMA Writing ==
  ASSUME Accountable, work.pc \in {"working", "writing"}, jobs[work.job].kind = "apply_changes"
  PROVE  /\ work.job \in DOMAIN jobs /\ jobs[work.job].approved = "by_boss"
         /\ OfKind("apply_changes") = {work.job}
         /\ \A f \in 1..NFiles : folder[f] \in {0, work.job}
<1>1. work.job \in DOMAIN jobs /\ jobs[work.job].approved # "no"
  BY DEF Accountable, WorkIsSound
<1>2. jobs[work.job].approved = "by_boss"
  BY <1>1, JobsTyped DEF Job, JobIsSound
<1>3. OfKind("apply_changes") = {work.job}
  BY <1>1 DEF OfKind, Accountable, SnapshotsInOrder, Single
<1>4. ASSUME NEW f \in 1..NFiles, folder[f] # 0
      PROVE  folder[f] = work.job
  <2>1. folder[f] \in DOMAIN jobs /\ jobs[folder[f]].kind = "apply_changes"
    BY <1>4, JobsTyped DEF Accountable, JobTypeOK, WrittenIsApproved
  <2> QED
    BY <1>3, <2>1 DEF OfKind
<1> QED
  BY <1>1, <1>2, <1>3, <1>4

\* Files are written or restored, or the preparation ends: jobs stay.
LEMMA WritingKeeps ==
  ASSUME Accountable, Linked', UNCHANGED <<projects, jobs, task, call, checked>>,
         folder' \in [1..NFiles -> 0..Len(jobs)],
         WorkIsSound', work'.pc \in {"writing", "waiting"}, sent' \in SUBSET Receipt,
         WrittenIsApproved', ReceiptsAreTrue'
  PROVE  Accountable' /\ StaysSettled
<1>1. JobTypeOK'
  BY DEF Accountable, JobTypeOK
<1>2. JobsMove
  BY StayingMoves
<1>3. call' # 0 => task'.step # "none"
  BY DEF Accountable, SnapshotsInOrder
<1>4. /\ (\A i \in DOMAIN jobs : JobIsSound(jobs[i]))'
      /\ RevokedGrantIsIdle' /\ SnapshotsInOrder' /\ StaysSettled /\ TaskIsSound'
  BY <1>2, <1>3, JobsMoved, TaskStays
<1> QED
  BY <1>1, <1>4 DEF Accountable

LEMMA BeginChangeKeeps ==
  ASSUME Accountable, Linked', BeginChange
  PROVE  Accountable' /\ StaysSettled
<1>1. /\ work.pc = "working" /\ jobs[work.job].kind = "apply_changes"
      /\ work' = [pc |-> "writing", job |-> work.job, attempt |-> work.attempt,
                  before |-> folder, done |-> 0]
      /\ UNCHANGED <<projects, jobs, task, call, folder, sent, checked>>
  BY DEF BeginChange, ByRunner
<1>2. /\ work.job \in DOMAIN jobs /\ OfKind("apply_changes") = {work.job}
      /\ \A f \in 1..NFiles : folder[f] \in {0, work.job}
  BY <1>1, Writing
<1>3. /\ folder \in [1..NFiles -> 0..Len(jobs)] /\ sent \in SUBSET Receipt
      /\ work.attempt \in 1..MaxAttempts /\ jobs[work.job].approved # "no" /\ 0 \in 0..NFiles
  BY <1>1, JobsAssumption DEF Accountable, JobTypeOK, WorkIsSound
<1>4. WorkIsSound'
  BY <1>1, <1>2, <1>3 DEF WorkIsSound
<1>5. ReceiptsAreTrue'
  <2>1. \A i \in OfKind("apply_changes") : Succeeds(i)' => Succeeds(i)
    BY <1>1 DEF Succeeds
  <2>2. OfKind("apply_changes")' = OfKind("apply_changes")
    BY <1>1 DEF OfKind
  <2> QED
    BY <1>1, <2>1, <2>2 DEF Accountable, ReceiptsAreTrue
<1>6. WrittenIsApproved'
  BY <1>1 DEF Accountable, WrittenIsApproved
<1> QED
  BY <1>1, <1>3, <1>4, <1>5, <1>6, WritingKeeps

\* A file of the proposal, in the place of what was there.
LEMMA RenameFileKeeps ==
  ASSUME Accountable, Linked', RenameFile
  PROVE  Accountable' /\ StaysSettled
<1>1. /\ work.pc = "writing" /\ work.done < NFiles
      /\ folder' = [folder EXCEPT ![work.done + 1] = work.job]
      /\ work' = [work EXCEPT !.done = @ + 1]
      /\ UNCHANGED <<projects, jobs, task, call, sent, checked>>
  BY DEF RenameFile, ByRunner
<1>2. /\ work \in [pc : {"writing"}, job : DOMAIN jobs, attempt : 1..MaxAttempts,
                   before : [1..NFiles -> 0..Len(jobs)], done : 0..NFiles]
      /\ jobs[work.job].approved # "no" /\ jobs[work.job].kind = "apply_changes"
      /\ \A f \in 1..NFiles : work.before[f] \in {0, work.job}
  BY <1>1 DEF Accountable, WorkIsSound
<1>3. /\ work.job \in DOMAIN jobs /\ OfKind("apply_changes") = {work.job}
      /\ jobs[work.job].approved = "by_boss"
  BY <1>1, <1>2, Writing
<1>4. work.done + 1 \in 0..NFiles /\ work.done + 1 \in 1..NFiles
  BY <1>1, <1>2, JobsAssumption
<1>5. WorkIsSound'
  <2>1. /\ work' \in [pc : {"writing"}, job : DOMAIN jobs, attempt : 1..MaxAttempts,
                      before : [1..NFiles -> 0..Len(jobs)], done : 0..NFiles]
        /\ work'.pc = "writing" /\ work'.job = work.job /\ work'.before = work.before
    BY <1>1, <1>2, <1>4
  <2> QED
    BY <1>1, <1>2, <2>1 DEF WorkIsSound
<1>6. /\ folder' \in [1..NFiles -> 0..Len(jobs)]
      /\ \A f \in 1..NFiles : folder'[f] \in {folder[f], work.job}
  <2>1. folder \in [1..NFiles -> 0..Len(jobs)] /\ work.job \in 0..Len(jobs)
    BY <1>3, JobsTyped DEF Accountable, JobTypeOK
  <2> QED
    BY <1>1, <2>1
<1>7. WrittenIsApproved'
  BY <1>1, <1>2, <1>3, <1>6 DEF Accountable, WrittenIsApproved
<1>8. ReceiptsAreTrue'
  <2>1. \A i \in OfKind("apply_changes") : Succeeds(i)' => Succeeds(i)
    BY <1>1 DEF Succeeds
  <2>2. OfKind("apply_changes")' = OfKind("apply_changes")
    BY <1>1 DEF OfKind
  <2>3. work'.before = work.before
    BY <1>1, <1>2
  <2>4. ASSUME NEW i \in OfKind("apply_changes"), Succeeds(i), NEW f \in 1..NFiles
        PROVE  folder'[f] = i /\ work.before[f] = i
    <3>1. i = work.job /\ folder[f] = i /\ work.before[f] = i
      BY <1>1, <1>3, <2>4 DEF Accountable, ReceiptsAreTrue
    <3> QED
      BY <1>6, <3>1
  <2> QED
    BY <1>1, <2>1, <2>2, <2>3, <2>4 DEF Accountable, ReceiptsAreTrue
<1>9. work'.pc = "writing" /\ sent' \in SUBSET Receipt
  BY <1>1, <1>2 DEF Accountable, JobTypeOK
<1> QED
  BY <1>1, <1>5, <1>6, <1>7, <1>8, <1>9, WritingKeeps

\* Success is claimed only of what reads back as the one proposal.
LEMMA ChangeSucceedsKeeps ==
  ASSUME Accountable, Linked', ChangeSucceeds
  PROVE  Accountable' /\ StaysSettled
<1>1. /\ work.pc = "writing" /\ Observed /\ Send("succeeded")
      /\ UNCHANGED <<projects, jobs, task, call, folder, checked>>
  BY DEF ChangeSucceeds, ByRunner
<1>2. jobs[work.job].kind = "apply_changes"
  BY <1>1 DEF Accountable, WorkIsSound
<1>3. OfKind("apply_changes") = {work.job} /\ OfKind("apply_changes")' = {work.job}
  BY <1>1, <1>2, Writing DEF OfKind
<1>4. /\ work'.pc = "waiting" /\ sent' \in SUBSET Receipt /\ work.job \in DOMAIN jobs
      /\ \A m \in sent' : m \in sent \/ (m.job = work.job /\ m.status = "succeeded")
  BY <1>1, SentIsReceipt
<1>5. ReceiptsAreTrue'
  <2>1. \A m \in sent' \union checked' : m.job \in DOMAIN jobs'
    BY <1>1, <1>4 DEF Accountable, ReceiptsAreTrue
  <2>2. \A f \in 1..NFiles : folder'[f] = work.job
    BY <1>1 DEF Observed
  <2> QED
    BY <1>3, <1>4, <2>1, <2>2 DEF ReceiptsAreTrue
<1>6. WorkIsSound' /\ WrittenIsApproved' /\ folder' \in [1..NFiles -> 0..Len(jobs)]
  BY <1>1, <1>4 DEF WorkIsSound, Accountable, WrittenIsApproved, JobTypeOK
<1> QED
  BY <1>1, <1>4, <1>5, <1>6, WritingKeeps

\* What is restored is what was there before, and that was nothing or the proposal; once
\* a success has been claimed it was the proposal.
LEMMA ChangeFailsKeeps ==
  ASSUME Accountable, Linked', ChangeFails
  PROVE  Accountable' /\ StaysSettled
<1>1. /\ work.pc = "writing" /\ Send("failed")
      /\ UNCHANGED <<projects, jobs, task, call, checked>>
  BY DEF ChangeFails, ByRunner
<1>2. PICK stuck \in SUBSET (1..work.done) :
        folder' = [f \in 1..NFiles |->
                     IF f \in (1..work.done) \ stuck THEN work.before[f] ELSE folder[f]]
  BY DEF ChangeFails
<1>3. /\ work.before \in [1..NFiles -> 0..Len(jobs)] /\ jobs[work.job].kind = "apply_changes"
      /\ \A f \in 1..NFiles : work.before[f] \in {0, work.job}
  BY <1>1 DEF Accountable, WorkIsSound
<1>4. /\ folder' \in [1..NFiles -> 0..Len(jobs)]
      /\ \A f \in 1..NFiles : folder'[f] \in {work.before[f], folder[f]}
  BY <1>2, <1>3 DEF Accountable, JobTypeOK
<1>5. /\ work'.pc = "waiting" /\ sent' \in SUBSET Receipt /\ work.job \in DOMAIN jobs
      /\ \A m \in sent' : m \in sent \/ (m.job = work.job /\ m.status = "failed")
  BY <1>1, SentIsReceipt
<1>6. OfKind("apply_changes") = {work.job} /\ OfKind("apply_changes")' = {work.job}
      /\ jobs[work.job].approved = "by_boss"
  BY <1>1, <1>3, Writing DEF OfKind
<1>7. WrittenIsApproved'
  BY <1>1, <1>3, <1>4, <1>6 DEF Accountable, WrittenIsApproved
<1>8. ReceiptsAreTrue'
  <2>1. \A m \in sent' \union checked' : m.job \in DOMAIN jobs'
    BY <1>1, <1>5 DEF Accountable, ReceiptsAreTrue
  <2>2. \A i \in OfKind("apply_changes") : Succeeds(i)' => Succeeds(i)
    BY <1>1, <1>5 DEF Succeeds
  <2>3. ASSUME NEW i \in OfKind("apply_changes"), Succeeds(i), NEW f \in 1..NFiles
        PROVE  folder'[f] = i
    BY <1>1, <1>4, <2>3 DEF Accountable, ReceiptsAreTrue
  <2> QED
    BY <1>5, <1>6, <2>1, <2>2, <2>3 DEF ReceiptsAreTrue
<1>9. WorkIsSound'
  BY <1>5 DEF WorkIsSound
<1> QED
  BY <1>1, <1>4, <1>5, <1>7, <1>8, <1>9, WritingKeeps

\* A poll: lapsed leases end, and at most one job is leased or cancelled.
LEMMA LeasedMoves ==
  ASSUME Accountable, NEW r, NEW lapsed \in SUBSET Running(r), jobs' = Leased(r, lapsed),
         UNCHANGED projects
  PROVE  /\ JobsMove
         /\ \A i \in Claimed(jobs') :
              i \in DOMAIN jobs /\ jobs'[i].attempt \in 1..MaxAttempts /\ jobs'[i].approved # "no"
<1> DEFINE swept == [i \in DOMAIN jobs |-> IF i \in lapsed THEN Lapse(i) ELSE jobs[i]]
           next  == Queued(r, swept)
<1>1. \A i \in lapsed : i \in DOMAIN jobs /\ jobs[i].status = "running"
  BY DEF Running
<1>2. ASSUME NEW i \in DOMAIN jobs
      PROVE  /\ swept[i] \in Job /\ JobIsSound(swept[i]) /\ MayBecome(jobs[i], swept[i])
             /\ swept[i].status = "succeeded" => Succeeds(i)
             /\ swept[i].status \in {"queued", "running"} => ~projects[jobs[i].runner].revoked
             /\ swept[i].status = "queued" => swept[i] = jobs[i]
             /\ swept[i].attempt = jobs[i].attempt
  <2>1. CASE i \in lapsed
    <3>1. swept[i] = Lapse(i)
      BY <2>1
    <3>2. MayBecome(jobs[i], Lapse(i)) /\ Lapse(i).status = "failed"
      BY <1>1, <2>1, LapseMoves
    <3>3. Lapse(i).attempt = jobs[i].attempt
      BY JobsTyped DEF Lapse, Job
    <3> QED
      BY <3>1, <3>2, <3>3 DEF MayBecome
  <2>2. CASE i \notin lapsed
    <3>1. swept[i] = jobs[i] /\ jobs[i] \in Job /\ JobIsSound(jobs[i])
      BY <2>2, JobsTyped
    <3> QED
      BY <3>1 DEF MayBecome, Succeeds, Accountable, RevokedGrantIsIdle
  <2> QED
    BY <2>1, <2>2
<1>3. DOMAIN swept = DOMAIN jobs
  OBVIOUS
<1>4. jobs' = CASE next = 0 -> swept
                [] next # 0 /\ swept[next].approved = "no" -> [swept EXCEPT ![next].status = "cancelled"]
                [] OTHER ->
                     [swept EXCEPT ![next].attempt = @ + 1,
                                   ![next].status = IF Granted(r, Needs(swept[next].kind))
                                                      THEN "running" ELSE "cancelled"]
  BY DEF Leased
<1>5. next # 0 => /\ next \in DOMAIN jobs /\ swept[next].status = "queued"
                  /\ swept[next].runner = r /\ swept[next] = jobs[next]
  <2> DEFINE S == {i \in DOMAIN swept : swept[i].runner = r /\ swept[i].status = "queued"}
  <2>1. S \subseteq DOMAIN jobs /\ next = First(S)
    BY DEF Queued
  <2>2. next # 0 => next \in S
    BY <2>1, FirstOfJobs
  <2> QED
    BY <1>2, <1>3, <2>2
<1>6. swept \in [DOMAIN jobs -> Job]
  BY <1>2
<1> HIDE DEF swept, next
<1>7. CASE next = 0
  <2>1. jobs' = swept
    BY <1>4, <1>7
  <2>2. JobsMove
    BY <1>2, <1>6, <2>1 DEF JobsMove
  <2>3. Claimed(jobs') = {}
    BY <1>2, <2>1, JobsTyped DEF Claimed, Job
  <2> QED
    BY <2>2, <2>3
<1>8. ASSUME next # 0, NEW job, jobs' = [swept EXCEPT ![next] = job], job \in Job,
             MayBecome(jobs[next], job), job.status \in {"cancelled", "running"},
             job.status = "running" => ~projects[r].revoked
      PROVE  /\ JobsMove
             /\ \A i \in Claimed(jobs') : i = next
  <2>1. jobs' \in [DOMAIN jobs -> Job] /\ \A i \in DOMAIN jobs : jobs'[i] = IF i = next THEN job ELSE swept[i]
    BY <1>5, <1>6, <1>8
  <2>2. ASSUME NEW i \in DOMAIN jobs
        PROVE  /\ MayBecome(jobs[i], jobs'[i])
               /\ jobs'[i].status = "succeeded" => Succeeds(i)
               /\ jobs'[i].status \in {"queued", "running"} => ~projects'[jobs[i].runner].revoked
    BY <1>2, <1>5, <1>8, <2>1
  <2>3. JobsMove
    BY <2>1, <2>2 DEF JobsMove
  <2>4. ASSUME NEW i \in Claimed(jobs'), i # next PROVE FALSE
    <3>1. i \in DOMAIN jobs /\ jobs'[i].attempt > jobs[i].attempt /\ jobs'[i] = swept[i]
      BY <2>1, <2>4 DEF Claimed
    <3>2. swept[i].attempt = jobs[i].attempt /\ jobs[i].attempt \in Int
      BY <1>2, <3>1, JobsTyped DEF Job
    <3> QED
      BY <3>1, <3>2
  <2> QED
    BY <2>3, <2>4
<1>9. CASE next # 0 /\ swept[next].approved = "no"
  <2> DEFINE job == [swept[next] EXCEPT !.status = "cancelled"]
  <2>1. swept[next] \in Job /\ JobIsSound(swept[next]) /\ swept[next] = jobs[next]
        /\ swept[next].status = "queued" /\ next \in DOMAIN jobs
    BY <1>2, <1>5, <1>9
  <2>2. jobs' = [swept EXCEPT ![next] = job]
    BY <1>4, <1>9
  <2>3. job \in Job /\ JobIsSound(job) /\ job.status = "cancelled"
    BY <2>1 DEF Job, JobIsSound
  <2>4. MayBecome(jobs[next], job)
    BY <2>1, <2>3 DEF MayBecome, Job, Settled
  <2>5. jobs'[next].status = "cancelled"
    BY <1>6, <2>1, <2>2, <2>3
  <2> HIDE DEF job
  <2>6. JobsMove /\ \A i \in Claimed(jobs') : i = next
    BY <1>8, <1>9, <2>2, <2>3, <2>4
  <2>7. Claimed(jobs') = {}
    BY <2>5, <2>6 DEF Claimed
  <2> QED
    BY <2>6, <2>7
<1>10. CASE next # 0 /\ swept[next].approved # "no"
  <2> DEFINE status == IF Granted(r, Needs(swept[next].kind)) THEN "running" ELSE "cancelled"
             job == [swept[next] EXCEPT !.attempt = @ + 1, !.status = status]
  <2>1. swept[next] \in Job /\ JobIsSound(swept[next]) /\ swept[next] = jobs[next]
        /\ swept[next].status = "queued" /\ next \in DOMAIN jobs
    BY <1>2, <1>5, <1>10
  <2>2. status \in {"running", "cancelled"} /\ (status = "running" => ~projects[r].revoked)
    BY GrantedIsKept
  <2>3. jobs' = [swept EXCEPT ![next].attempt = @ + 1, ![next].status = status]
    BY <1>4, <1>10
  <2> HIDE DEF status
  <2>4. jobs' = [swept EXCEPT ![next] = job]
    BY <1>6, <2>1, <2>3 DEF Job
  <2>5. swept[next].attempt + 1 \in 1..MaxAttempts /\ swept[next].attempt + 1 \in 0..MaxAttempts
    BY <2>1, JobsAssumption DEF Job, JobIsSound
  <2>6. job \in Job /\ job.status = status /\ job.approved = swept[next].approved
        /\ job.attempt \in 1..MaxAttempts
    BY <2>1, <2>2, <2>5 DEF Job
  <2>7. JobIsSound(job)
    BY <2>1, <2>2 DEF Job, JobIsSound
  <2>8. MayBecome(jobs[next], job)
    BY <2>1, <2>2, <2>6, <2>7 DEF MayBecome, Job, Settled
  <2>9. jobs'[next] = job
    BY <1>6, <2>1, <2>4
  <2> HIDE DEF job
  <2>10. JobsMove /\ \A i \in Claimed(jobs') : i = next
    BY <1>8, <1>10, <2>2, <2>4, <2>6, <2>8
  <2> QED
    BY <1>10, <2>1, <2>6, <2>9, <2>10
<1> QED
  BY <1>7, <1>9, <1>10

LEMMA PollKeeps ==
  ASSUME Accountable, Linked', Poll
  PROVE  Accountable' /\ StaysSettled
<1>1. UNCHANGED <<projects, task, call, folder, sent, checked>>
  BY DEF Poll, ByRunner
<1>2. CASE UNCHANGED jobs /\ work' = Idle
  <2>1. work'.pc = "idle" /\ sent' \in SUBSET Receipt
    BY <1>1, <1>2 DEF Idle, Accountable, JobTypeOK
  <2> QED
    BY <1>1, <1>2, <2>1, RestingKeeps
<1>3. ASSUME NEW lapsed \in SUBSET Running(memory.runner), jobs' = Leased(memory.runner, lapsed),
             \/ work' = Idle
             \/ \E i \in Claimed(jobs') :
                  work' = [pc |-> "working", job |-> i, attempt |-> jobs'[i].attempt]
      PROVE  Accountable' /\ StaysSettled
  <2>1. /\ JobsMove
        /\ \A i \in Claimed(jobs') :
             i \in DOMAIN jobs /\ jobs'[i].attempt \in 1..MaxAttempts /\ jobs'[i].approved # "no"
    BY <1>1, <1>3, LeasedMoves
  <2>2. DOMAIN jobs' = DOMAIN jobs
    BY <2>1 DEF JobsMove
  <2>3. WorkIsSound' /\ work'.pc \in {"idle", "working"}
    BY <1>3, <2>1, <2>2 DEF WorkIsSound, Idle
  <2>4. sent' \in SUBSET Receipt /\ checked' \in SUBSET Receipt
    BY <1>1 DEF Accountable, JobTypeOK
  <2> QED
    BY <1>1, <2>1, <2>3, <2>4, ProjectsTyped, JobsMoveKeeps
<1> QED
  BY <1>2, <1>3 DEF Poll

LEMMA RunnerKeeps ==
  ASSUME Accountable, Linked', RunnerProcess
  PROVE  Accountable' /\ StaysSettled
  BY BeatKeeps, PollKeeps, JobEndsKeeps, BeginChangeKeeps, RenameFileKeeps, ChangeSucceedsKeeps,
     ChangeFailsKeeps, WaitedKeeps DEF RunnerProcess

-----------------------------------------------------------------------------
(***************************************************************************)
(* The server's steps                                                      *)
(***************************************************************************)

LEMMA ArriveKeeps ==
  ASSUME Accountable, Linked', NEW m \in sent, Arrive(m)
  PROVE  Accountable' /\ StaysSettled
<1>1. /\ UNCHANGED <<projects, task, call, work, folder>> /\ sent' \in SUBSET sent
      /\ checked' \in SUBSET (sent \union checked)
      /\ m.job \in DOMAIN jobs
  BY DEF Arrive, ByServer, Accountable, ReceiptsAreTrue
<1>2. CASE UNCHANGED jobs
  <2>1. JobsMove
    BY <1>1, <1>2, StayingMoves
  <2> QED
    BY <1>1, <2>1, ProjectsTyped, MovingKeeps
<1>3. CASE jobs[m.job].status = "running" /\ SetJob(m.job, Lapse(m.job))
  BY <1>1, <1>3, LapseMoves, SettingKeeps
<1> QED
  BY <1>2, <1>3 DEF Arrive

LEMMA StoreKeeps ==
  ASSUME Accountable, Linked', NEW m \in checked, Store(m)
  PROVE  Accountable' /\ StaysSettled
<1>1. /\ UNCHANGED <<projects, task, call, work, folder, sent>>
      /\ checked' \in SUBSET (sent \union checked)
      /\ m.job \in DOMAIN jobs /\ m \in Receipt
  BY DEF Store, ByServer, Accountable, ReceiptsAreTrue, JobTypeOK
<1>2. CASE UNCHANGED jobs
  <2>1. JobsMove
    BY <1>1, <1>2, StayingMoves
  <2> QED
    BY <1>1, <2>1, ProjectsTyped, MovingKeeps
<1>3. CASE Storable(m.job)
  <2> DEFINE text == jobs[m.job].kind = "context"
             job == [jobs[m.job] EXCEPT !.status = m.status, !.receipt = m.attempt, !.text = text]
  <2>1. text \in BOOLEAN /\ (text => jobs[m.job].kind = "context")
    OBVIOUS
  <2>2. jobs[m.job] \in Job /\ JobIsSound(jobs[m.job]) /\ jobs[m.job].status = "running"
    BY <1>1, <1>3, JobsTyped DEF Storable
  <2>3. jobs' = [jobs EXCEPT ![m.job].status = m.status, ![m.job].receipt = m.attempt,
                             ![m.job].text = text]
    BY <1>3 DEF Store
  <2> HIDE DEF text
  <2>4. SetJob(m.job, job)
    BY <1>1, <2>2, <2>3, JobsTyped DEF SetJob, Job
  <2>5. m.status \in {"succeeded", "failed"} /\ m.attempt \in 0..MaxAttempts
    BY <1>1, JobsAssumption DEF Receipt
  <2>6. job \in Job
    BY <2>1, <2>2, <2>5 DEF Job
  <2>7. JobIsSound(job) /\ job.status \in {"succeeded", "failed"} /\ job.status = m.status
    BY <2>1, <2>2, <2>5 DEF Job, JobIsSound
  <2>8. MayBecome(jobs[m.job], job)
    BY <2>2, <2>6, <2>7 DEF MayBecome, Job, Settled
  <2>9. job.status = "succeeded" => Succeeds(m.job)
    BY <2>7 DEF Succeeds
  <2> HIDE DEF job
  <2> QED
    BY <1>1, <2>4, <2>7, <2>8, <2>9, SettingKeeps
<1> QED
  BY <1>2, <1>3 DEF Store

LEMMA ServerCrashKeeps ==
  ASSUME Accountable, Linked', ServerCrash
  PROVE  Accountable' /\ StaysSettled
  BY AloneKeeps DEF ServerCrash

-----------------------------------------------------------------------------
(***************************************************************************)
(* Accountable is an invariant                                             *)
(***************************************************************************)

LEMMA InitAccountable == Init => Accountable
<1> SUFFICES ASSUME Init PROVE Accountable
  OBVIOUS
<1>1. jobs = <<>> /\ jobs \in Seq(Job) /\ Len(jobs) = 0 /\ DOMAIN jobs = {}
  BY EmptySeq DEF Init
<1>2. JobTypeOK
  <2>1. NoProject \in Project
    BY DEF NoProject, Project
  <2>2. 0 \in 0..MaxJobs /\ 0 \in 0..MaxReturns /\ 0 <= MaxJobs /\ 0 \in 0..0
    BY JobsAssumption
  <2>3. task \in [step : {"none", "pending", "done"}, project : {0} \union Codes,
                  returns : 0..MaxReturns, applied : 0..MaxJobs, verified : 0..MaxJobs]
    BY <2>2 DEF Init
  <2> QED
    BY <1>1, <2>1, <2>2, <2>3 DEF Init, JobTypeOK, Idle
<1>3. Linked
  BY InitLinked
<1>4. \A kind : OfKind(kind) = {}
  BY <1>1 DEF OfKind
<1>5. SnapshotsInOrder
  BY <1>4 DEF Init, SnapshotsInOrder, Single, Unpurged, SnapshotIsPurged
<1>6. RevokedGrantIsIdle /\ WorkIsSound /\ WrittenIsApproved /\ ReceiptsAreTrue /\ TaskIsSound
  BY <1>1, <1>4 DEF Init, Idle, RevokedGrantIsIdle, WorkIsSound, WrittenIsApproved,
                    ReceiptsAreTrue, TaskIsSound
<1> QED
  BY <1>1, <1>2, <1>3, <1>5, <1>6 DEF Accountable

LEMMA NextAccountable == Accountable /\ [Next]_vars => Accountable' /\ StaysSettled
<1> SUFFICES ASSUME Accountable, [Next]_vars PROVE Accountable' /\ StaysSettled
  OBVIOUS
<1>1. Linked'
  BY NextLinked DEF Accountable
<1>2. CASE Link
  BY <1>1, <1>2, AloneKeeps DEF Link, jobVars
<1>3. CASE Owner
  BY <1>1, <1>3, OwnerKeeps
<1>4. CASE Scheduler
  BY <1>1, <1>4, SchedulerKeeps
<1>5. CASE RunnerProcess
  BY <1>1, <1>5, RunnerKeeps
<1>6. CASE AddProject /\ UNCHANGED <<jobs, ByOwner>>
  BY <1>1, <1>6, AddProjectKeeps
<1>7. CASE StartRunner
  BY <1>1, <1>7, AloneKeeps DEF StartRunner, jobVars
<1>8. CASE StopRunner
  BY <1>1, <1>8, StopRunnerKeeps
<1>9. CASE \E m \in sent : Arrive(m)
  BY <1>1, <1>9, ArriveKeeps
<1>10. CASE \E m \in checked : Store(m)
  BY <1>1, <1>10, StoreKeeps
<1>11. CASE ServerCrash
  BY <1>1, <1>11, ServerCrashKeeps
<1>12. CASE UNCHANGED vars
  BY <1>1, <1>12, AloneKeeps DEF vars, jobVars
<1> QED
  BY <1>2, <1>3, <1>4, <1>5, <1>6, <1>7, <1>8, <1>9, <1>10, <1>11, <1>12 DEF Next

\* Jobs, snapshots, files, receipts and the report agree at all times: the inductive
\* invariant of the whole life of local jobs.
THEOREM JobsAccountable == Spec => []Accountable
<1>1. Accountable /\ [Next]_vars => Accountable'
  BY NextAccountable
<1> QED
  BY InitAccountable, <1>1, PTL DEF Spec

\* Rows, receipts and the runner's memory have their types.
THEOREM JobsTypeCorrect == Spec => []TypeOK
<1>1. Accountable => TypeOK
  BY DEF Accountable, Linked, TypeOK
<1> QED
  BY <1>1, JobsAccountable, PTL

\* A file of the project only ever holds what was there or the proposal the boss approved
\* (PATCH jobs, applyChanges), whatever is retried, lost, late or cancelled.
THEOREM WrittenCorrect == Spec => []WrittenIsApproved
<1>1. Accountable => WrittenIsApproved
  BY DEF Accountable
<1> QED
  BY <1>1, JobsAccountable, PTL

\* No job of a revoked project waits for the runner or runs (PATCH projects, DELETE runners).
THEOREM RevocationCorrect == Spec => []RevokedGrantIsIdle
<1>1. Accountable => RevokedGrantIsIdle
  BY DEF Accountable
<1> QED
  BY <1>1, JobsAccountable, PTL

\* No snapshot outlives the proposal it led to (localDeveloperResult).
THEOREM PurgeCorrect == Spec => []SnapshotIsPurged
<1>1. Accountable => SnapshotIsPurged
  BY DEF Accountable, SnapshotsInOrder
<1> QED
  BY <1>1, JobsAccountable, PTL

\* A step that is reported as done has every file as the change it cites wrote it: the
\* change succeeded, a receipt says so only of what was read back, and later attempts of
\* the same change restore no other contents (localDeveloperResult, applyChanges).
THEOREM ReportCorrect == Spec => []ReportedIsWritten
<1>1. Accountable => ReportedIsWritten
  BY DEF Accountable, TaskIsSound, ReceiptsAreTrue, Succeeds, ReportedIsWritten
<1> QED
  BY <1>1, JobsAccountable, PTL

\* What has succeeded, was rejected or cancelled stays so (POST complete, PATCH jobs).
THEOREM SettledCorrect == Spec => SettledStays
<1>1. Accountable /\ [Next]_vars => StaysSettled
  BY NextAccountable
<1>2. StaysSettled =>
        [\A i \in DOMAIN jobs :
           (jobs[i].status \in {"succeeded", "rejected", "cancelled"} /\ jobs'[i].status # jobs[i].status)
             => jobs[i].kind = "context" /\ jobs[i].status = "succeeded" /\ jobs'[i].status = "cancelled"]_vars
  BY DEF StaysSettled
<1> QED
  BY <1>1, <1>2, JobsAccountable, PTL DEF Spec, SettledStays
===============================================================================
