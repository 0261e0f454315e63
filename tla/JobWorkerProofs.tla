-------------------------- MODULE JobWorkerProofs ---------------------------
(***************************************************************************)
(* The worker and the requests drive runners and do nothing else to jobs:  *)
(* what is proved of JobRunner holds of JobWorker.                         *)
(***************************************************************************)
EXTENDS JobWorker, JobLifecycleProofs

USE IdAssumption, StagesAssumption, TimeAssumption, CrashAssumption, WorkerAssumption

\* Every step of the composition is a step of JobRunner or leaves its
\* variables alone.
LEMMA WorkerStep == [WorkerNext]_allVars => [Next]_vars
<1> SUFFICES ASSUME [WorkerNext]_allVars PROVE [Next]_vars
  OBVIOUS
<1>1. CASE \E j \in Jobs : Enqueue(j) \/ IngestInline(j)
  BY <1>1 DEF Enqueue, IngestInline, Next
<1>2. CASE \E j \in Jobs, parent \in Parents, r \in Runners :
             StartChild(j, parent, r)
  BY <1>2 DEF StartChild, Next
<1>3. CASE \E r \in Runners : ChildRuns(r) \/ ChildDiesBooting(r)
                                \/ ChildCrashes(r)
  BY <1>3 DEF ChildRuns, ChildDiesBooting, ChildCrashes, Next
<1>4. CASE TimePasses
  BY <1>4 DEF TimePasses, Next
<1>5. CASE \/ Poll \/ StopWorker \/ WorkerExits \/ KillWorker \/ StartWorker
           \/ \E r \in Runners : StopRequest(r)
  BY <1>5 DEF Poll, StopWorker, WorkerExits, KillWorker, StartWorker,
     StopRequest, vars
<1>6. CASE UNCHANGED allVars
  BY <1>6 DEF allVars, vars
<1> QED
  BY <1>1, <1>2, <1>3, <1>4, <1>5, <1>6 DEF WorkerNext

\* Polling, children, signals and restarts amount to no more than submitting,
\* spawning, running and losing runners.
THEOREM WorkerDrivesRunners == WorkerSpec => DrivesRunners
<1>1. WorkerInit => Init
  BY DEF WorkerInit
<1> QED
  BY <1>1, WorkerStep, PTL DEF WorkerSpec, Spec, DrivesRunners

\* However the worker polls, stops, dies and is restarted beside inline
\* requests, one job is never executed by two processes.
THEOREM WorkerExclusive ==
  ASSUME MaxGap <= StaleAfter
  PROVE  WorkerSpec => []ExclusiveExecution
<1>1. WorkerSpec => Spec
  BY WorkerDrivesRunners DEF DrivesRunners
<1> QED
  BY <1>1, Exclusive, PTL

\* So do they implement the lifecycle that readers of the jobs table are
\* promised.
THEOREM WorkerImplementsLifecycle ==
  ASSUME MaxGap <= StaleAfter
  PROVE  WorkerSpec => ImplementsLifecycle
<1>1. WorkerSpec => Spec
  BY WorkerDrivesRunners DEF DrivesRunners
<1> QED
  BY <1>1, RunnersImplementLifecycle, PTL

-----------------------------------------------------------------------------
(***************************************************************************)
(* The types of the worker's own variables.                                *)
(***************************************************************************)
\* A live process, and no other, has a parent or is an orphan.
Parented == \A r \in Runners : driver[r] = "none" <=> proc[r].pc = "idle"

\* What a step of a runner means for who drives it.
LEMMA ReapKeepsParents ==
  ASSUME WorkerTypeOK, NEW r \in Runners, proc[r].pc # "idle", Reap(r),
         Run(r) \/ EndsUnclaimed(r) \/ Crash(r)
  PROVE  /\ driver' \in [Runners -> {"none", "orphan"} \cup Parents]
         /\ term' \in [Runners -> BOOLEAN]
         /\ Parented'
<1>0. /\ driver \in [Runners -> {"none", "orphan"} \cup Parents]
      /\ term \in [Runners -> BOOLEAN] /\ Parented /\ TypeOK
  BY DEF WorkerTypeOK, Parented, At
<1>1. \A q \in Runners \ {r} : proc'[q] = proc[q]
  BY <1>0, RunTouchesOneJob
<1>2. CASE proc'[r].pc = "idle"
  BY <1>0, <1>1, <1>2 DEF Reap, Parented
<1>3. CASE proc'[r].pc # "idle"
  BY <1>0, <1>1, <1>3 DEF Reap, Parented
<1> QED
  BY <1>2, <1>3

\* Every step of the parents, their children and time keeps the types.
LEMMA WorkerTypeStep == WorkerTypeOK /\ [WorkerNext]_allVars => WorkerTypeOK'
<1> SUFFICES ASSUME WorkerTypeOK, [WorkerNext]_allVars PROVE WorkerTypeOK'
  OBVIOUS
<1>0. /\ TypeOK /\ worker \in {"up", "stopping", "down"}
      /\ starts \subseteq [job : Jobs, by : Parents]
      /\ driver \in [Runners -> {"none", "orphan"} \cup Parents]
      /\ term \in [Runners -> BOOLEAN] /\ stops \in 0..MaxStops /\ Parented
  BY DEF WorkerTypeOK, Parented, At
<1>t. TypeOK'
  BY <1>0, WorkerStep, TypeStep
<1>i. ASSUME worker' \in {"up", "stopping", "down"},
             starts' \subseteq [job : Jobs, by : Parents],
             driver' \in [Runners -> {"none", "orphan"} \cup Parents],
             term' \in [Runners -> BOOLEAN], stops' \in 0..MaxStops, Parented'
      PROVE  WorkerTypeOK'
  BY <1>t, <1>i DEF WorkerTypeOK, Parented, At
<1>1. ASSUME NEW j \in Jobs, Enqueue(j) \/ IngestInline(j) PROVE WorkerTypeOK'
  <2>1. starts' \subseteq [job : Jobs, by : Parents]
    BY <1>0, <1>1 DEF Enqueue, IngestInline, workerVars, Parents
  <2>2. proc' = proc /\ worker' = worker /\ driver' = driver /\ term' = term
        /\ stops' = stops
    BY <1>1 DEF Enqueue, IngestInline, Submit, workerVars
  <2> QED
    BY <1>0, <1>i, <2>1, <2>2 DEF Parented
<1>2. CASE Poll
  <2>1. starts' \subseteq [job : Jobs, by : Parents]
    BY <1>0, <1>2 DEF Poll, Pending, Parents
  <2> QED
    BY <1>0, <1>2, <1>i, <2>1 DEF Poll, Parented
<1>3. ASSUME NEW j \in Jobs, NEW parent \in Parents, NEW r \in Runners,
             StartChild(j, parent, r)
      PROVE  WorkerTypeOK'
  <2>1. proc \in [Runners -> ProcState]
    BY <1>0 DEF TypeOK, ProcTypeOK
  <2>2. /\ proc'[r].pc = "claim"
        /\ \A q \in Runners \ {r} : proc'[q] = proc[q]
    BY <1>3, <2>1 DEF StartChild, Spawn, ProcState
  <2>3. Parented'
    BY <1>0, <1>3, <2>2 DEF Parented, StartChild, Parents
  <2> QED
    BY <1>0, <1>3, <1>i, <2>3 DEF StartChild
<1>4. ASSUME NEW r \in Runners,
             ChildRuns(r) \/ ChildDiesBooting(r) \/ ChildCrashes(r)
      PROVE  WorkerTypeOK'
  <2>1. Reap(r) /\ (Run(r) \/ EndsUnclaimed(r) \/ Crash(r))
    BY <1>4 DEF ChildRuns, ChildDiesBooting, ChildCrashes
  <2>2. proc[r].pc # "idle"
    BY <2>1 DEF Run, ClaimJob, ClaimSkipped, SkipStage, EnterStage, PersistStageStart,
       StageReturns, PersistArtifacts, PersistState, RefreshLease, PersistDone,
       SetStatusDone, Fails, RecordError, Cancel, ReleaseJob, EndsUnclaimed, Crash,
       At, InTry
  <2>3. worker' = worker /\ starts' = starts /\ stops' = stops
    BY <1>4 DEF ChildRuns, ChildDiesBooting, ChildCrashes
  <2> QED
    BY <1>0, <1>i, <2>1, <2>2, <2>3, ReapKeepsParents
<1>5. CASE StopWorker \/ WorkerExits \/ KillWorker \/ StartWorker
  <2>1. proc' = proc
    BY <1>5 DEF StopWorker, WorkerExits, KillWorker, StartWorker
  <2>2. Parented'
    BY <1>0, <1>5, <2>1 DEF StopWorker, WorkerExits, KillWorker, StartWorker, Parented
  <2>3. stops' \in 0..MaxStops
    BY <1>0, <1>5 DEF StopWorker, WorkerExits, KillWorker, StartWorker
  <2>4. /\ driver' \in [Runners -> {"none", "orphan"} \cup Parents]
        /\ term' \in [Runners -> BOOLEAN]
    BY <1>0, <1>5 DEF StopWorker, WorkerExits, KillWorker, StartWorker
  <2>5. worker' \in {"up", "stopping", "down"} /\ starts' \subseteq starts
    BY <1>5 DEF StopWorker, WorkerExits, KillWorker, StartWorker
  <2> QED
    BY <1>0, <1>i, <2>2, <2>3, <2>4, <2>5
<1>6. ASSUME NEW r \in Runners, StopRequest(r) PROVE WorkerTypeOK'
  BY <1>0, <1>6, <1>i DEF StopRequest, Parented
<1>7. CASE TimePasses
  <2>1. \A q \in Runners : proc'[q].pc = proc[q].pc
    BY <1>0, <1>7 DEF TimePasses, Tick, TypeOK, ProcTypeOK, ProcState
  <2> QED
    BY <1>0, <1>7, <1>i, <2>1 DEF TimePasses, workerVars, Parented
<1>8. CASE UNCHANGED allVars
  BY <1>0, <1>8, <1>i DEF allVars, Parented
<1> QED
  BY <1>1, <1>2, <1>3, <1>4, <1>5, <1>6, <1>7, <1>8 DEF WorkerNext

\* Every variable keeps its type, and exactly the live processes have a parent
\* or are orphans.
THEOREM WorkerTypeCorrect == WorkerSpec => []WorkerTypeOK
<1>1. WorkerInit => WorkerTypeOK
  BY TypeInit DEF WorkerInit, Init, WorkerTypeOK, NoProcess, At, Parents
<1> QED
  BY <1>1, WorkerTypeStep, PTL DEF WorkerSpec

-----------------------------------------------------------------------------
\* As long as nothing has crashed, whatever is running is being run.
Attended(j) == row[j].status = "running" =>
  \E r \in Runners : proc[r].pc \in Executing /\ proc[r].job = j

\* A runner that leaves without having died takes its job's status with it: it
\* finishes the job, fails it, or gives back the lease it holds.
LEMMA AttendedStep ==
  ASSUME TypeOK, LeaseHeld, \A j \in Jobs : Attended(j), NEW r \in Runners,
         Run(r) \/ EndsUnclaimed(r), NEW j \in Jobs
  PROVE  Attended(j)'
<1> DEFINE p == proc[r]
           w == row[j]
<1>0. /\ p.pc # "idle" /\ p \in ProcState /\ w \in JobRow
      /\ DOMAIN row = Jobs /\ DOMAIN proc = Runners
  BY DEF TypeOK, RowTypeOK, ProcTypeOK, Run, ClaimJob, ClaimSkipped, SkipStage,
     EnterStage, PersistStageStart, StageReturns, PersistArtifacts, PersistState,
     RefreshLease, PersistDone, SetStatusDone, Fails, RecordError, Cancel, ReleaseJob,
     EndsUnclaimed, At, InTry
<1>1. /\ \A k \in Jobs \ {p.job} : row'[k] = row[k]
      /\ \A q \in Runners \ {r} : proc'[q] = proc[q]
  BY <1>0, RunTouchesOneJob
<1>2. CASE p.job # j
  BY <1>1, <1>2 DEF Attended
<1>3. CASE p.job = j /\ p.pc \notin Executing
  <2>1. CASE ClaimJob(r)
    <3>1. proc'[r].pc = "loop" /\ proc'[r].job = j
      BY <1>0, <1>3, <2>1 DEF ClaimJob, ProcState
    <3> QED
      BY <3>1 DEF Attended, Executing, InTry
  <2>2. CASE row' = row
    <3> SUFFICES ASSUME row[j].status = "running"
                 PROVE  \E q \in Runners : proc'[q].pc \in Executing /\ proc'[q].job = j
      BY <2>2 DEF Attended
    <3>1. PICK q \in Runners : proc[q].pc \in Executing /\ proc[q].job = j
      BY DEF Attended
    <3>2. proc'[q] = proc[q]
      BY <1>1, <1>3, <3>1
    <3> QED
      BY <3>1, <3>2
  <2> QED
    BY <1>3, <2>1, <2>2 DEF Run, ClaimSkipped, SkipStage, EnterStage, PersistStageStart,
       StageReturns, PersistArtifacts, PersistState, RefreshLease, PersistDone,
       SetStatusDone, Fails, RecordError, Cancel, ReleaseJob, EndsUnclaimed, Executing,
       InTry, At
<1>4. CASE p.job = j /\ p.pc \in Executing
  <2>1. CASE proc'[r].pc \in Executing /\ proc'[r].job = j
    BY <2>1 DEF Attended
  <2>2. CASE SetStatusDone(r)
    BY <1>0, <1>4, <2>2 DEF SetStatusDone, Job, JobRow, Attended
  <2>3. CASE RecordError(r)
    BY <1>0, <1>4, <2>3 DEF RecordError, Job, JobRow, Attended
  <2>4. CASE ReleaseJob(r)
    <3>1. Owns(r, w)
      BY <1>4 DEF LeaseHeld, Job
    <3> QED
      BY <1>0, <1>4, <2>4, <3>1 DEF ReleaseJob, Job, JobRow, Attended
  <2>5. CASE NextStage(r)
    BY <1>0, <1>4, <2>1, <2>5 DEF NextStage, ProcState, Executing, InTry
  <2>6. CASE \E x \in Executing : Beat(r, x)
    BY <1>0, <1>4, <2>1, <2>6 DEF Beat, ProcState
  <2>7. CASE \E x \in Executing : GoTo(r, x)
    BY <1>0, <1>4, <2>1, <2>7 DEF GoTo, ProcState
  <2>8. CASE PersistState(r)
    BY <1>0, <1>4, <2>1, <2>8 DEF PersistState, ProcState, Executing, InTry
  <2> QED
    BY <1>4, <2>2, <2>3, <2>4, <2>5, <2>6, <2>7, <2>8 DEF Run, ClaimJob, ClaimSkipped,
       SkipStage, EnterStage, PersistStageStart, StageReturns, PersistArtifacts,
       RefreshLease, PersistDone, Fails, Cancel, EndsUnclaimed, Executing, InTry, At
<1> QED
  BY <1>2, <1>3, <1>4

\* Only a crash leaves a running job unattended.
LEMMA NoAbandonStep ==
  TypeOK /\ LeaseHeld /\ NoAbandonedLease /\ [Next]_vars => NoAbandonedLease'
<1> SUFFICES ASSUME TypeOK, LeaseHeld, NoAbandonedLease, [Next]_vars, crashes' = 0,
                    NEW j \in Jobs
             PROVE  Attended(j)'
  BY DEF NoAbandonedLease, Attended, Job
<1>0. /\ \A k \in Jobs : row[k] \in JobRow
      /\ \A r \in Runners : proc[r] \in ProcState
      /\ DOMAIN row = Jobs /\ DOMAIN proc = Runners /\ crashes \in Nat
  BY DEF TypeOK, RowTypeOK, ProcTypeOK
<1>1. crashes = 0 /\ ~(\E r \in Runners : Crash(r))
  <2>1. \A r \in Runners : ~Crash(r)
    BY <1>0 DEF Crash
  <2>2. \A r \in Runners : Run(r) \/ EndsUnclaimed(r) => crashes' = crashes
    BY DEF Run, ClaimJob, ClaimSkipped, SkipStage, EnterStage, PersistStageStart,
       StageReturns, PersistArtifacts, PersistState, RefreshLease, PersistDone,
       SetStatusDone, Fails, RecordError, Cancel, ReleaseJob, EndsUnclaimed
  <2>3. (\E k \in Jobs : Submit(k)) \/ (\E r \in Runners, k \in Jobs : Spawn(r, k)) \/ Tick
          \/ UNCHANGED vars => crashes' = crashes
    BY DEF Submit, Spawn, Tick, vars
  <2> QED
    BY <2>1, <2>2, <2>3 DEF Next
<1>2. \A k \in Jobs : Attended(k)
  BY <1>1 DEF NoAbandonedLease, Attended, Job
<1>3. ASSUME NEW k \in Jobs, Submit(k) PROVE Attended(j)'
  <2>1. proc' = proc /\ (row'[j] = row[j] \/ row'[j].status = "queued")
    BY <1>0, <1>3 DEF Submit, NewRow
  <2> QED
    BY <1>2, <2>1 DEF Attended
<1>4. ASSUME NEW r \in Runners, NEW k \in Jobs, Spawn(r, k) PROVE Attended(j)'
  <2>1. /\ row' = row /\ proc[r].pc \notin Executing
        /\ \A q \in Runners \ {r} : proc'[q] = proc[q]
    BY <1>0, <1>4 DEF Spawn, Executing, InTry
  <2> QED
    BY <1>2, <2>1 DEF Attended
<1>5. ASSUME NEW r \in Runners, Run(r) \/ EndsUnclaimed(r) PROVE Attended(j)'
  BY <1>2, <1>5, AttendedStep
<1>6. CASE Tick
  <2>1. /\ row'[j].status = row[j].status
        /\ \A q \in Runners : proc'[q].pc = proc[q].pc /\ proc'[q].job = proc[q].job
    BY <1>0, <1>6 DEF Tick, JobRow, ProcState
  <2> QED
    BY <1>2, <2>1 DEF Attended
<1>7. CASE UNCHANGED vars
  BY <1>2, <1>7 DEF vars, Attended
<1> QED
  BY <1>1, <1>3, <1>4, <1>5, <1>6, <1>7 DEF Next

\* As long as nothing has crashed, stopping the worker or the server strands no
\* lease: whatever says running is being run.
THEOREM NoLeaseAbandoned ==
  ASSUME MaxGap <= StaleAfter
  PROVE  WorkerSpec => []NoAbandonedLease
<1>1. Init => NoAbandonedLease
  BY DEF Init, NewRow, NoAbandonedLease
<1>2. TypeOK /\ LeaseHeld /\ NoAbandonedLease /\ [Next]_vars => NoAbandonedLease'
  BY NoAbandonStep
<1>3. WorkerSpec => Spec
  BY WorkerDrivesRunners DEF DrivesRunners
<1>4. Spec => []TypeOK /\ []LeaseHeld
  BY TypeCorrect, LeaseKept, PTL
<1> QED
  BY <1>1, <1>2, <1>3, <1>4, PTL DEF Spec
=============================================================================
