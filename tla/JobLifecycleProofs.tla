------------------------- MODULE JobLifecycleProofs --------------------------
(***************************************************************************)
(* JobRunner implements JobLifecycle: with leases that are kept alive,     *)
(* claims, heartbeats, checkpoints, cancellations and deaths amount to the *)
(* lifecycle that readers of the jobs table are promised.                  *)
(***************************************************************************)
EXTENDS JobRunnerProofs

USE IdAssumption, StagesAssumption, TimeAssumption

-----------------------------------------------------------------------------
(***************************************************************************)
(* What a runner in its loop believes completed is what its row says, and  *)
(* a runner past the loop has completed the last stage.                    *)
(***************************************************************************)
Agrees(r) ==
  /\ proc[r].pc \in {"loop", "start", "beat"} =>
       \/ row[proc[r].job].last = proc[r].done
       \/ row[proc[r].job].last = Unset /\ proc[r].done = QueuedStage
  /\ proc[r].pc = "finish" => row[proc[r].job].last = NStages

\* Nobody executes before the first claim.
LEMMA AgreeInit == Init => \A r \in Runners : Agrees(r)
  BY DEF Init, Agrees, NoProcess

\* A step of r: the claim reads what the row says, the checkpoint writes what
\* was completed, and the loop is left behind its last stage.
LEMMA AgreeOwnStep ==
  ASSUME TypeOK, LeaseHeld, CheckpointInv, NEW r \in Runners, Agrees(r), Resumes(r),
         Run(r)
  PROVE  Agrees(r)'
<1> DEFINE p == proc[r]
           j == p.job
<1>0. p \in ProcState /\ j \in Jobs /\ row[j] \in JobRow /\ p.idx \in Stages
      /\ p.done \in 0..DoneStage
  BY DEF TypeOK, RowTypeOK, ProcTypeOK, ProcState, Run, ClaimJob, ClaimSkipped,
     SkipStage, EnterStage, PersistStageStart, StageReturns, PersistArtifacts,
     PersistState, RefreshLease, PersistDone, SetStatusDone, Fails, RecordError,
     Cancel, ReleaseJob, InTry, At
<1>1. CASE ClaimJob(r)
  <2>1. row[j].last = Unset => row[j].stage = QueuedStage
    BY <1>0 DEF CheckpointInv
  <2>2. /\ proc'[r].pc = "loop" /\ proc'[r].job = j
        /\ proc'[r].done = LastCompleted(row[j])
        /\ row'[j].last = row[j].last
    BY <1>0, <1>1 DEF ClaimJob, Job, TypeOK, RowTypeOK, ProcTypeOK, ProcState, JobRow
  <2> QED
    BY <2>1, <2>2 DEF Agrees, LastCompleted
<1>2. CASE SkipStage(r)
  <2>1. row'[j].last = row[j].last /\ p.pc = "loop"
    BY <1>0, <1>2 DEF SkipStage, Refreshed, Job, At, TypeOK, RowTypeOK, JobRow
  <2>2. p.done \in Stages /\ p.idx <= p.done
    BY <1>0, <1>2 DEF SkipStage, StageIndex, Stages
  <2>3. row[j].last = p.done
    BY <2>1, <2>2 DEF Agrees, Stages, QueuedStage
  <2>4. CASE p.idx = NStages
    <3>1. p.done = NStages
      BY <1>0, <2>2, <2>4 DEF Stages, DoneStage
    <3>2. proc'[r].pc = "finish" /\ proc'[r].job = j
      BY <1>0, <1>2, <2>4 DEF SkipStage, NextStage, TypeOK, ProcTypeOK, ProcState
    <3> QED
      BY <2>1, <2>3, <3>1, <3>2 DEF Agrees
  <2>5. CASE p.idx # NStages
    <3>1. proc'[r].pc = "loop" /\ proc'[r].job = j /\ proc'[r].done = p.done
      BY <1>0, <1>2, <2>5 DEF SkipStage, NextStage, TypeOK, ProcTypeOK, ProcState
    <3> QED
      BY <2>1, <2>3, <3>1 DEF Agrees
  <2> QED
    BY <2>4, <2>5
<1>3. CASE EnterStage(r)
  <2>1. /\ p.pc = "loop" /\ proc'[r].pc = "start" /\ proc'[r].job = j
        /\ proc'[r].done = p.done /\ row'[j].last = row[j].last
    BY <1>0, <1>3 DEF EnterStage, Beat, Refreshed, Job, At, TypeOK, RowTypeOK, ProcTypeOK,
       ProcState, JobRow
  <2> QED
    BY <2>1 DEF Agrees
<1>4. CASE PersistState(r)
  <2>1. /\ proc'[r].pc = "beat" /\ proc'[r].job = j /\ proc'[r].done = p.idx
        /\ row'[j].last = p.idx
    BY <1>0, <1>4 DEF PersistState, Job, TypeOK, RowTypeOK, ProcTypeOK, ProcState, JobRow
  <2> QED
    BY <2>1 DEF Agrees
<1>5. CASE RefreshLease(r)
  <2>1. row'[j].last = row[j].last /\ p.pc = "beat" /\ p.done = p.idx
    BY <1>0, <1>5 DEF RefreshLease, Refreshed, Job, At, Resumes, TypeOK, RowTypeOK, JobRow
  <2>2. row[j].last = p.idx
    BY <1>0, <2>1 DEF Agrees, Stages, QueuedStage
  <2>3. CASE p.idx = NStages
    BY <1>0, <1>5, <2>1, <2>2, <2>3
       DEF RefreshLease, NextStage, TypeOK, ProcTypeOK, ProcState, Agrees
  <2>4. CASE p.idx # NStages
    BY <1>0, <1>5, <2>1, <2>2, <2>4
       DEF RefreshLease, NextStage, TypeOK, ProcTypeOK, ProcState, Agrees
  <2> QED
    BY <2>3, <2>4
<1>6. CASE \/ ClaimSkipped(r) \/ PersistStageStart(r) \/ StageReturns(r)
           \/ PersistArtifacts(r) \/ PersistDone(r) \/ SetStatusDone(r) \/ Fails(r)
           \/ RecordError(r) \/ Cancel(r) \/ ReleaseJob(r)
  <2>e. DOMAIN proc = Runners
    BY DEF TypeOK, ProcTypeOK
  <2>1. proc'[r].pc \in {"idle", "stage", "write", "save", "close", "error", "release"}
    <3>1. CASE StageReturns(r) \/ PersistArtifacts(r) \/ PersistDone(r) \/ Fails(r) \/ Cancel(r)
      BY <1>0, <2>e, <3>1 DEF StageReturns, PersistArtifacts, PersistDone, Fails, Cancel,
         GoTo, ProcState
    <3>2. CASE PersistStageStart(r)
      BY <1>0, <2>e, <3>2 DEF PersistStageStart, Beat, ProcState
    <3>3. CASE ClaimSkipped(r) \/ SetStatusDone(r) \/ RecordError(r) \/ ReleaseJob(r)
      BY <2>e, <3>3 DEF ClaimSkipped, SetStatusDone, RecordError, ReleaseJob, Exit, NoProcess
    <3> QED
      BY <1>6, <3>1, <3>2, <3>3
  <2> QED
    BY <2>1 DEF Agrees
<1> QED
  BY <1>1, <1>2, <1>3, <1>4, <1>5, <1>6 DEF Run

\* No step of another runner or of time comes in between.
LEMMA AgreeStep ==
  TypeOK /\ LeaseHeld /\ CheckpointInv /\ (\A r \in Runners : Agrees(r) /\ Resumes(r))
    /\ [Next]_vars
  => (\A r \in Runners : Agrees(r))'
<1> SUFFICES ASSUME TypeOK, LeaseHeld, CheckpointInv,
                    \A r \in Runners : Agrees(r) /\ Resumes(r),
                    [Next]_vars, NEW q \in Runners
             PROVE  Agrees(q)'
  OBVIOUS
<1>1. ASSUME NEW j \in Jobs, Submit(j) PROVE Agrees(q)'
  <2>1. proc'[q] = proc[q]
    BY <1>1 DEF Submit
  <2>2. proc[q].pc \in Executing => proc[q].job \in Jobs /\ proc[q].job # j
    BY <1>1 DEF Submit, LeaseHeld, Owns, Job, TypeOK, ProcTypeOK, Executing, InTry
  <2>3. proc[q].pc \in Executing => row'[proc[q].job] = row[proc[q].job]
    BY <1>1, <2>2 DEF Submit, TypeOK, RowTypeOK
  <2> QED
    BY <2>1, <2>3 DEF Agrees, Executing, InTry
<1>2. ASSUME NEW r \in Runners, NEW j \in Jobs, Spawn(r, j) PROVE Agrees(q)'
  <2>1. row' = row /\ (proc'[q] = proc[q] \/ proc'[q].pc = "claim")
    BY <1>2 DEF Spawn, TypeOK, ProcTypeOK, ProcState
  <2> QED
    BY <2>1 DEF Agrees
<1>3. ASSUME NEW r \in Runners, Run(r) \/ EndsUnclaimed(r) \/ Crash(r) PROVE Agrees(q)'
  <2>1. CASE q # r
    <3>1. proc'[q] = proc[q]
      BY <1>3, <2>1 DEF TypeOK, ProcTypeOK, Run, ClaimJob, ClaimSkipped, SkipStage,
         EnterStage, PersistStageStart, StageReturns, PersistArtifacts, PersistState,
         RefreshLease, PersistDone, SetStatusDone, Fails, RecordError, Cancel,
         ReleaseJob, EndsUnclaimed, Crash, GoTo, Beat, Exit, NextStage
    <3>2. proc[q].pc \in Executing => row'[proc[q].job].last = row[proc[q].job].last
      BY <1>3, <2>1, OthersLeaveCheckpoint
    <3> QED
      BY <3>1, <3>2 DEF Agrees, Executing, InTry
  <2>2. CASE q = r /\ Run(r)
    BY <2>2, AgreeOwnStep
  <2>3. CASE q = r /\ (EndsUnclaimed(r) \/ Crash(r))
    <3>1. proc'[q].pc = "idle"
      BY <2>3 DEF EndsUnclaimed, Crash, Exit, NoProcess, TypeOK, ProcTypeOK
    <3> QED
      BY <3>1 DEF Agrees
  <2> QED
    BY <1>3, <2>1, <2>2, <2>3
<1>4. CASE Tick
  <2>1. /\ proc'[q].pc = proc[q].pc /\ proc'[q].job = proc[q].job
        /\ proc'[q].done = proc[q].done
    BY <1>4 DEF Tick, TypeOK, ProcTypeOK, ProcState
  <2>2. proc[q].pc \in Executing => row'[proc[q].job].last = row[proc[q].job].last
    BY <1>4 DEF Tick, TypeOK, ProcTypeOK, RowTypeOK, JobRow, Executing, InTry
  <2> QED
    BY <2>1, <2>2 DEF Agrees, Executing, InTry
<1>5. CASE UNCHANGED vars
  BY <1>5 DEF vars, Agrees
<1> QED
  BY <1>1, <1>2, <1>3, <1>4, <1>5 DEF Next

\* A job that has not been submitted has no checkpoint.
Blank(j) == row[j].status = "none" => row[j].last = Unset

\* Before the first step there is nothing but jobs not submitted.
LEMMA BlankInit == Init => \A j \in Jobs : Blank(j)
  BY DEF Init, Blank, NewRow

\* A row is written by who submits it, claims it or runs it: never while its
\* job is not submitted.
LEMMA BlankStep ==
  TypeOK /\ LeaseHeld /\ (\A j \in Jobs : Blank(j)) /\ [Next]_vars
    => (\A j \in Jobs : Blank(j))'
<1> SUFFICES ASSUME TypeOK, LeaseHeld, \A k \in Jobs : Blank(k), [Next]_vars,
                    NEW j \in Jobs
             PROVE  Blank(j)'
  OBVIOUS
<1>a. row[j] \in JobRow /\ DOMAIN row = Jobs /\ Blank(j)
  BY DEF TypeOK, RowTypeOK
<1>1. ASSUME NEW k \in Jobs, Submit(k) PROVE Blank(j)'
  BY <1>1, <1>a DEF Submit, Blank, NewRow
<1>2. ASSUME NEW r \in Runners, Run(r) PROVE Blank(j)'
  <2>1. CASE row'[j] = row[j]
    BY <1>a, <2>1 DEF Blank
  <2>2. CASE row'[j] # row[j]
    <3>1. proc[r].job = j
      BY <1>2, <1>a, <2>2 DEF Run, ClaimJob, ClaimSkipped, SkipStage, EnterStage,
         PersistStageStart, StageReturns, PersistArtifacts, PersistState, RefreshLease,
         PersistDone, SetStatusDone, Fails, RecordError, Cancel, ReleaseJob, Job
    <3>2. CASE ClaimJob(r)
      BY <1>a, <3>1, <3>2 DEF ClaimJob, Job, JobRow, Blank
    <3>3. CASE ~ClaimJob(r)
      <4>1. proc[r].pc \in Executing
        BY <1>2, <2>2, <3>3 DEF Run, ClaimSkipped, SkipStage, EnterStage, PersistStageStart,
           StageReturns, PersistArtifacts, PersistState, RefreshLease, PersistDone,
           SetStatusDone, Fails, RecordError, Cancel, ReleaseJob, Executing, InTry, At
      <4>2. row[j].status = "running" /\ Owns(r, row[j])
        BY <3>1, <4>1 DEF LeaseHeld, Owns, Job
      <4>3. CASE SkipStage(r) \/ EnterStage(r) \/ RefreshLease(r)
        BY <1>a, <3>1, <4>2, <4>3 DEF SkipStage, EnterStage, RefreshLease, Refreshed,
           Job, JobRow, Blank
      <4>4. CASE PersistStageStart(r)
        BY <1>a, <3>1, <4>2, <4>4 DEF PersistStageStart, Job, JobRow, Blank
      <4>5. CASE PersistState(r) \/ PersistDone(r)
        BY <1>a, <3>1, <4>2, <4>5 DEF PersistState, PersistDone, Job, JobRow, Blank
      <4>6. CASE SetStatusDone(r) \/ RecordError(r)
        <5>1. CASE SetStatusDone(r)
          BY <1>a, <3>1, <5>1 DEF SetStatusDone, Job, JobRow, Blank
        <5>2. CASE RecordError(r)
          BY <1>a, <3>1, <5>2 DEF RecordError, Job, JobRow, Blank
        <5> QED
          BY <4>6, <5>1, <5>2
      <4>7. CASE ReleaseJob(r)
        BY <1>a, <3>1, <4>2, <4>7 DEF ReleaseJob, Job, JobRow, Blank
      <4> QED
        BY <1>2, <2>2, <3>3, <4>3, <4>4, <4>5, <4>6, <4>7 DEF Run, ClaimSkipped,
           StageReturns, PersistArtifacts, Fails, Cancel
    <3> QED
      BY <3>2, <3>3
  <2> QED
    BY <2>1, <2>2
<1>3. CASE Tick
  <2>1. row'[j].status = row[j].status /\ row'[j].last = row[j].last
    BY <1>3, <1>a DEF Tick, JobRow
  <2> QED
    BY <1>a, <2>1 DEF Blank
<1>4. CASE row' = row
  BY <1>4, <1>a DEF Blank
<1> QED
  BY <1>1, <1>2, <1>3, <1>4 DEF Next, Spawn, EndsUnclaimed, Crash, vars

-----------------------------------------------------------------------------
(***************************************************************************)
(* The refinement mapping.  Executes and Holder take the locals of the     *)
(* runners as a parameter, so that they speak of both ends of a step.      *)
(***************************************************************************)
Executes(p, r, j) == p[r].pc \in Executing /\ p[r].job = j

OneOf(live) == IF live = {} THEN NoRunner ELSE CHOOSE r \in live : TRUE

Holder(p, j) == OneOf({r \in Runners : Executes(p, r, j)})

\* The worker that readers of job j see is its holder, before and after.
LEMMA RunnerOfIsHolder ==
  ASSUME NEW j
  PROVE  RunnerOf(j) = Holder(proc, j) /\ RunnerOf(j)' = Holder(proc', j)
  BY DEF RunnerOf, Holder, OneOf, Executes, Job

\* The only runner that executes j is its holder.
LEMMA SoleHolder ==
  ASSUME NEW p, NEW j, NEW r \in Runners, Executes(p, r, j),
         \A q \in Runners : Executes(p, q, j) => q = r
  PROVE  Holder(p, j) = r
<1>1. {q \in Runners : Executes(p, q, j)} = {r}
  OBVIOUS
<1>2. (CHOOSE q \in {r} : TRUE) = r
  OBVIOUS
<1> QED
  BY <1>1, <1>2 DEF Holder, OneOf

\* A job that nobody executes has no holder.
LEMMA NoHolder ==
  ASSUME NEW p, NEW j, \A q \in Runners : ~Executes(p, q, j)
  PROVE  Holder(p, j) = NoRunner
<1>1. {q \in Runners : Executes(p, q, j)} = {}
  OBVIOUS
<1> QED
  BY <1>1 DEF Holder, OneOf

\* The holder changes only when who executes the job does.
LEMMA SameHolder ==
  ASSUME NEW p, NEW o, NEW j,
         \A q \in Runners : Executes(p, q, j) <=> Executes(o, q, j)
  PROVE  Holder(p, j) = Holder(o, j)
<1>1. {q \in Runners : Executes(p, q, j)} = {q \in Runners : Executes(o, q, j)}
  OBVIOUS
<1> QED
  BY <1>1 DEF Holder

\* What a reader sees of job k is unchanged, and of every job but j.
Untouched(k) ==
  /\ row'[k].status = row[k].status
  /\ Holder(proc', k) = Holder(proc, k)
  /\ CompletedStages(row'[k]) = CompletedStages(row[k])

OnlyTouches(j) == \A k \in Jobs \ {j} : Untouched(k)

\* A step that no reader can see.
LEMMA MapsToStutter ==
  ASSUME \A k \in Jobs : Untouched(k)
  PROVE  UNCHANGED Lifecycle!vars
  BY RunnerOfIsHolder DEF Untouched, Lifecycle!vars

\* A step that readers see as one of the steps a job may take.
LEMMA MapsToSteps ==
  ASSUME NEW j \in Jobs, OnlyTouches(j)
  PROVE  LET from == row[j].status
             to == row'[j].status
             before == Holder(proc, j)
             after == Holder(proc', j)
             c == CompletedStages(row[j])
             d == CompletedStages(row'[j])
         IN  /\ from = "none" /\ to = "queued" /\ before = after /\ c = d
                  => Lifecycle!Submit(j)
             /\ \A r \in Runners :
                  from \in {"queued", "running"} /\ before = NoRunner
                  /\ to = "running" /\ after = r /\ c = d
                    => Lifecycle!Acquire(j, r)
             /\ from = to /\ before = after /\ before # NoRunner
                /\ c < NStages /\ d = c + 1
                  => Lifecycle!Advance(j)
             /\ from = to /\ before = after /\ before # NoRunner
                /\ c = NStages /\ d = 1
                  => Lifecycle!Rerun(j)
             /\ before # NoRunner /\ after = NoRunner /\ c = d
                  => /\ c = NStages /\ to = "done" => Lifecycle!Finish(j)
                     /\ to = "error" => Lifecycle!Fail(j)
                     /\ to = "queued" => Lifecycle!Yield(j)
                     /\ from = to => Lifecycle!Lose(j)
<1> DEFINE S == [k \in Jobs |-> row[k].status]
           W == [k \in Jobs |-> RunnerOf(k)]
           C == [k \in Jobs |-> CompletedStages(row[k])]
<1>1. /\ S' = [S EXCEPT ![j] = row'[j].status]
      /\ W' = [W EXCEPT ![j] = Holder(proc', j)]
      /\ C' = [C EXCEPT ![j] = CompletedStages(row'[j])]
  BY RunnerOfIsHolder DEF OnlyTouches, Untouched
<1>2. /\ S[j] = row[j].status /\ W[j] = Holder(proc, j)
      /\ C[j] = CompletedStages(row[j])
      /\ S = [S EXCEPT ![j] = S[j]] /\ W = [W EXCEPT ![j] = W[j]]
      /\ C = [C EXCEPT ![j] = C[j]]
  BY RunnerOfIsHolder
<1>3. /\ (row[j].status = row'[j].status) => S' = S
      /\ (Holder(proc, j) = Holder(proc', j)) => W' = W
      /\ (CompletedStages(row[j]) = CompletedStages(row'[j])) => C' = C
  BY <1>1, <1>2
<1>4. ASSUME row[j].status = "none", row'[j].status = "queued",
             Holder(proc, j) = Holder(proc', j),
             CompletedStages(row[j]) = CompletedStages(row'[j])
      PROVE  Lifecycle!Submit(j)
  BY <1>1, <1>2, <1>3, <1>4 DEF Lifecycle!Submit
<1>5. ASSUME NEW r \in Runners, row[j].status \in {"queued", "running"},
             Holder(proc, j) = NoRunner, row'[j].status = "running",
             Holder(proc', j) = r,
             CompletedStages(row[j]) = CompletedStages(row'[j])
      PROVE  Lifecycle!Acquire(j, r)
  BY <1>1, <1>2, <1>3, <1>5 DEF Lifecycle!Acquire
<1>6. ASSUME row[j].status = row'[j].status, Holder(proc, j) = Holder(proc', j),
             Holder(proc, j) # NoRunner
      PROVE  /\ CompletedStages(row[j]) < NStages
                /\ CompletedStages(row'[j]) = CompletedStages(row[j]) + 1
                  => Lifecycle!Advance(j)
             /\ CompletedStages(row[j]) = NStages /\ CompletedStages(row'[j]) = 1
                  => Lifecycle!Rerun(j)
  BY <1>1, <1>2, <1>3, <1>6 DEF Lifecycle!Advance, Lifecycle!Rerun
<1>7. ASSUME Holder(proc, j) # NoRunner, Holder(proc', j) = NoRunner,
             CompletedStages(row[j]) = CompletedStages(row'[j])
      PROVE  /\ CompletedStages(row[j]) = NStages /\ row'[j].status = "done"
                  => Lifecycle!Finish(j)
             /\ row'[j].status = "error" => Lifecycle!Fail(j)
             /\ row'[j].status = "queued" => Lifecycle!Yield(j)
             /\ row[j].status = row'[j].status => Lifecycle!Lose(j)
  BY <1>1, <1>2, <1>3, <1>7
     DEF Lifecycle!Finish, Lifecycle!Fail, Lifecycle!Yield, Lifecycle!Lose
<1> QED
  BY <1>4, <1>5, <1>6, <1>7

-----------------------------------------------------------------------------
\* A step of r leaves the rows of other jobs, and who executes them, alone.
LEMMA RunTouchesOneJob ==
  ASSUME TypeOK, NEW r \in Runners, proc[r].pc # "idle",
         Run(r) \/ EndsUnclaimed(r) \/ Crash(r)
  PROVE  /\ \A k \in Jobs \ {proc[r].job} : row'[k] = row[k]
         /\ \A q \in Runners \ {r} : proc'[q] = proc[q]
         /\ proc'[r].job \in {proc[r].job, NoJob}
         /\ OnlyTouches(proc[r].job)
<1>0. /\ proc[r] \in ProcState /\ proc[r].job \in Jobs
      /\ DOMAIN row = Jobs /\ DOMAIN proc = Runners
  BY DEF TypeOK, RowTypeOK, ProcTypeOK
<1>1. \A k \in Jobs \ {proc[r].job} : row'[k] = row[k]
  BY <1>0 DEF Run, ClaimJob, ClaimSkipped, SkipStage, EnterStage, PersistStageStart,
     StageReturns, PersistArtifacts, PersistState, RefreshLease, PersistDone,
     SetStatusDone, Fails, RecordError, Cancel, ReleaseJob, EndsUnclaimed, Crash, Job
<1>2. \A q \in Runners \ {r} : proc'[q] = proc[q]
  BY <1>0 DEF Run, ClaimJob, ClaimSkipped, SkipStage, EnterStage, PersistStageStart,
     StageReturns, PersistArtifacts, PersistState, RefreshLease, PersistDone,
     SetStatusDone, Fails, RecordError, Cancel, ReleaseJob, EndsUnclaimed, Crash,
     GoTo, Beat, Exit, NextStage
<1>3. proc'[r].job \in {proc[r].job, NoJob}
  <2>1. CASE ClaimJob(r)
    BY <1>0, <2>1 DEF ClaimJob, ProcState
  <2>2. CASE NextStage(r)
    BY <1>0, <2>2 DEF NextStage, ProcState
  <2>3. CASE Beat(r, "start") \/ Beat(r, "stage")
    BY <1>0, <2>3 DEF Beat, ProcState
  <2>4. CASE \E x \in Points : GoTo(r, x)
    BY <1>0, <2>4 DEF GoTo, ProcState
  <2>5. CASE PersistState(r)
    BY <1>0, <2>5 DEF PersistState, ProcState
  <2>6. CASE Exit(r)
    BY <1>0, <2>6 DEF Exit, NoProcess
  <2> QED
    BY <2>1, <2>2, <2>3, <2>4, <2>5, <2>6 DEF Run, ClaimSkipped, SkipStage, EnterStage,
       PersistStageStart, StageReturns, PersistArtifacts, RefreshLease, PersistDone,
       SetStatusDone, Fails, RecordError, Cancel, ReleaseJob, EndsUnclaimed, Crash,
       Points, Executing, InTry
<1>4. ASSUME NEW k \in Jobs \ {proc[r].job}, NEW q \in Runners
      PROVE  Executes(proc', q, k) <=> Executes(proc, q, k)
  <2>1. CASE q = r
    <3>1. k # proc[r].job /\ k # NoJob
      OBVIOUS
    <3> QED
      BY <1>3, <2>1, <3>1 DEF Executes
  <2>2. CASE q # r
    BY <1>2, <2>2 DEF Executes
  <2> QED
    BY <2>1, <2>2
<1>5. OnlyTouches(proc[r].job)
  <2>1. \A k \in Jobs \ {proc[r].job} : Holder(proc', k) = Holder(proc, k)
    BY <1>4, SameHolder
  <2> QED
    BY <1>1, <2>1 DEF OnlyTouches, Untouched
<1> QED
  BY <1>1, <1>2, <1>3, <1>5

\* Before the step r is the only holder of its job; after it, it still is, or
\* nobody is.
LEMMA HolderStep ==
  ASSUME TypeOK, LeaseHeld, NEW r \in Runners, proc[r].pc \in Executing,
         Run(r) \/ EndsUnclaimed(r) \/ Crash(r)
  PROVE  /\ Holder(proc, proc[r].job) = r
         /\ proc'[r].pc \in Executing /\ proc'[r].job = proc[r].job
              => Holder(proc', proc[r].job) = r
         /\ proc'[r].pc = "idle" => Holder(proc', proc[r].job) = NoRunner
<1> DEFINE j == proc[r].job
<1>1. \A q \in Runners : Executes(proc, q, j) => q = r
  BY HolderIsAlone DEF Executes
<1>2. \A q \in Runners \ {r} : proc'[q] = proc[q]
  BY RunTouchesOneJob DEF Executing, InTry
<1>3. \A q \in Runners : Executes(proc', q, j) => q = r
  BY <1>1, <1>2 DEF Executes
<1>4. Holder(proc, j) = r
  BY <1>1, SoleHolder DEF Executes
<1>5. ASSUME proc'[r].pc \in Executing, proc'[r].job = j PROVE Holder(proc', j) = r
  BY <1>3, <1>5, SoleHolder DEF Executes
<1>6. ASSUME proc'[r].pc = "idle" PROVE Holder(proc', j) = NoRunner
  <2>1. \A q \in Runners : ~Executes(proc', q, j)
    BY <1>3, <1>6 DEF Executes, Executing, InTry
  <2> QED
    BY <2>1, NoHolder
<1> QED
  BY <1>4, <1>5, <1>6

-----------------------------------------------------------------------------
\* How many stages a checkpoint counts.
LEMMA CompletedValues ==
  ASSUME NEW w
  PROVE  /\ w.last = Unset => CompletedStages(w) = 0
         /\ w.last = DoneStage => CompletedStages(w) = NStages
         /\ w.last \in 0..NStages => CompletedStages(w) = w.last
         /\ \A v : v.last = w.last => CompletedStages(v) = CompletedStages(w)
<1>1. CASE w.last = Unset
  <2>1. ASSUME NEW v, v.last = w.last PROVE CompletedStages(v) = 0
    <3>1. v.last = Unset
      BY <1>1, <2>1
    <3>2. v.last # DoneStage
      BY <3>1 DEF Unset, DoneStage
    <3> QED
      BY <3>1, <3>2 DEF CompletedStages
  <2>2. CompletedStages(w) = 0
    BY <2>1
  <2>3. w.last # DoneStage /\ w.last \notin 0..NStages
    BY <1>1 DEF Unset, DoneStage
  <2> QED
    BY <2>1, <2>2, <2>3
<1>2. CASE w.last = DoneStage
  <2>0. w.last # Unset /\ w.last \notin 0..NStages
    BY <1>2 DEF Unset, DoneStage
  <2>1. \A v : v.last = w.last => CompletedStages(v) = NStages
    BY <1>2, <2>0 DEF CompletedStages
  <2>2. CompletedStages(w) = NStages
    BY <2>1
  <2> QED
    BY <2>0, <2>1, <2>2
<1>3. CASE w.last # Unset /\ w.last # DoneStage
  <2>1. \A v : v.last = w.last => CompletedStages(v) = w.last
    BY <1>3 DEF CompletedStages
  <2>2. CompletedStages(w) = w.last
    BY <2>1
  <2> QED
    BY <1>3, <2>1, <2>2
<1> QED
  BY <1>1, <1>2, <1>3

\* What the mapping of a step needs to know of the state it starts in.
MapInv ==
  /\ TypeOK
  /\ LeaseHeld
  /\ ResumePoint
  /\ CloseInv
  /\ \A r \in Runners : Agrees(r)
  /\ \A j \in Jobs : Blank(j)

\* A claim is an acquisition: nobody executes a job that can be claimed.
LEMMA ClaimMapped ==
  ASSUME MaxGap <= StaleAfter, MapInv, NEW r \in Runners, ClaimJob(r)
  PROVE  Lifecycle!Next
<1> DEFINE j == proc[r].job
           w == row[j]
<1>0. /\ j \in Jobs /\ w \in JobRow /\ proc[r] \in ProcState
      /\ \A q \in Runners : proc[q] \in ProcState
      /\ DOMAIN row = Jobs /\ DOMAIN proc = Runners
  BY DEF MapInv, TypeOK, RowTypeOK, ProcTypeOK, ClaimJob, At
<1>1. ASSUME NEW q \in Runners PROVE ~Executes(proc, q, j)
  <2> SUFFICES ASSUME proc[q].pc \in Executing, proc[q].job = j PROVE FALSE
    BY DEF Executes
  <2>1. Owns(q, w) /\ w.age <= proc[q].gap
    BY DEF MapInv, LeaseHeld, Job
  <2>2. w.age <= MaxGap
    BY <1>0, <2>1 DEF ProcState, JobRow, NoHeartbeat
  <2> QED
    BY <1>0, <2>1, <2>2 DEF ClaimJob, Claimable, Owns, Job, JobRow, NoHeartbeat
<1>2. /\ proc'[r].pc = "loop" /\ proc'[r].job = j
      /\ row'[j].status = "running" /\ row'[j].last = w.last
  BY <1>0 DEF ClaimJob, Job, JobRow, ProcState
<1>3. /\ \A q \in Runners \ {r} : proc'[q] = proc[q]
      /\ OnlyTouches(j)
  BY RunTouchesOneJob DEF Run, MapInv, ClaimJob, At
<1>4. Holder(proc, j) = NoRunner
  BY <1>1, NoHolder
<1>5. Holder(proc', j) = r
  <2>1. \A q \in Runners : Executes(proc', q, j) => q = r
    BY <1>1, <1>3 DEF Executes
  <2>2. Executes(proc', r, j)
    BY <1>2 DEF Executes, Executing, InTry
  <2> QED
    BY <2>1, <2>2, SoleHolder
<1>6. w.status \in {"queued", "running"}
  BY DEF ClaimJob, Claimable, Job
<1>7. CompletedStages(w) = CompletedStages(row'[j])
  BY <1>2 DEF CompletedStages
<1>8. Lifecycle!Acquire(j, r)
  BY <1>0, <1>2, <1>3, <1>4, <1>5, <1>6, <1>7, MapsToSteps
<1> QED
  BY <1>0, <1>8 DEF Lifecycle!Next

\* A step that keeps r executing and says nothing new about its job.
LEMMA SilentMapped ==
  ASSUME MapInv, NEW r \in Runners, Run(r), proc[r].pc \in Executing,
         proc'[r].pc \in Executing, proc'[r].job = proc[r].job,
         row'[proc[r].job].status = row[proc[r].job].status,
         CompletedStages(row'[proc[r].job]) = CompletedStages(row[proc[r].job])
  PROVE  UNCHANGED Lifecycle!vars
<1>1. OnlyTouches(proc[r].job)
  BY RunTouchesOneJob DEF MapInv, Executing, InTry
<1>2. Holder(proc', proc[r].job) = Holder(proc, proc[r].job)
  BY HolderStep DEF MapInv
<1>3. \A k \in Jobs : Untouched(k)
  BY <1>1, <1>2 DEF OnlyTouches, Untouched
<1> QED
  BY <1>3, MapsToStutter

\* A checkpoint is the next stage, or the first one of a job started again.
LEMMA CheckpointMapped ==
  ASSUME MapInv, NEW r \in Runners, PersistState(r)
  PROVE  Lifecycle!Next
<1> DEFINE j == proc[r].job
           w == row[j]
           i == proc[r].idx
<1>0. /\ proc[r].pc = "save" /\ j \in Jobs /\ w \in JobRow /\ i \in Stages
      /\ proc[r] \in ProcState /\ DOMAIN row = Jobs /\ DOMAIN proc = Runners
  BY DEF MapInv, TypeOK, RowTypeOK, ProcTypeOK, ProcState, PersistState, At
<1>1. /\ proc'[r].pc = "beat" /\ proc'[r].job = j
      /\ row'[j].status = w.status /\ row'[j].last = i
  BY <1>0 DEF PersistState, Job, JobRow, ProcState
<1>2. /\ OnlyTouches(j)
      /\ Holder(proc, j) = r /\ Holder(proc', j) = r
  BY <1>0, <1>1, RunTouchesOneJob, HolderStep DEF Run, MapInv, Executing, InTry
<1>3. r # NoRunner
  OBVIOUS
<1>4. CompletedStages(row'[j]) = i
  BY <1>0, <1>1 DEF CompletedStages, Stages, Unset, DoneStage
<1>5. CASE w.last = i - 1
  <2>1. CompletedStages(w) = i - 1 /\ i - 1 < NStages /\ i = (i - 1) + 1
    BY <1>0, <1>5 DEF CompletedStages, Stages, Unset, DoneStage
  <2>2. Lifecycle!Advance(j)
    BY <1>0, <1>1, <1>2, <1>3, <1>4, <2>1, MapsToSteps
  <2> QED
    BY <1>0, <2>2 DEF Lifecycle!Next
<1>6. CASE w.last = DoneStage /\ i = 1
  <2>1. CompletedStages(w) = NStages
    BY <1>6 DEF CompletedStages, Unset, DoneStage
  <2>2. Lifecycle!Rerun(j)
    BY <1>0, <1>1, <1>2, <1>3, <1>4, <1>6, <2>1, MapsToSteps
  <2> QED
    BY <1>0, <2>2 DEF Lifecycle!Next
<1> QED
  BY <1>0, <1>5, <1>6 DEF MapInv, ResumePoint, Job

\* A runner that leaves its job finishes it, fails it, gives it back or loses it.
LEMMA ExitMapped ==
  ASSUME MapInv, NEW r \in Runners, proc[r].pc \in Executing,
         SetStatusDone(r) \/ RecordError(r) \/ ReleaseJob(r) \/ Crash(r)
  PROVE  Lifecycle!Next
<1> PICK j \in Jobs : j = proc[r].job
  BY DEF MapInv, TypeOK, ProcTypeOK, Executing, InTry
<1> DEFINE w == row[j]
<1>0. /\ j \in Jobs /\ w \in JobRow /\ DOMAIN row = Jobs /\ DOMAIN proc = Runners
      /\ proc[r].pc # "idle"
  BY DEF MapInv, TypeOK, RowTypeOK, ProcTypeOK, Executing, InTry
<1>1. proc'[r].pc = "idle"
  BY <1>0 DEF SetStatusDone, RecordError, ReleaseJob, Crash, Exit, NoProcess
<1>2. /\ OnlyTouches(j)
      /\ Holder(proc, j) # NoRunner /\ Holder(proc', j) = NoRunner
  BY <1>0, <1>1, RunTouchesOneJob, HolderStep DEF Run, MapInv
<1>3. CASE SetStatusDone(r)
  <2>1. row'[j].status = "done" /\ row'[j].last = w.last /\ proc[r].pc = "close"
    BY <1>0, <1>3 DEF SetStatusDone, Job, JobRow, At
  <2>2. w.last = DoneStage
    BY <2>1 DEF MapInv, CloseInv, Closes
  <2>3. CompletedStages(w) = NStages /\ CompletedStages(row'[j]) = CompletedStages(w)
    BY <2>1, <2>2 DEF CompletedStages, Unset, DoneStage
  <2>4. Lifecycle!Finish(j)
    BY <1>0, <1>2, <2>1, <2>3, MapsToSteps
  <2> QED
    BY <1>0, <2>4 DEF Lifecycle!Next
<1>4. CASE RecordError(r)
  <2>1. row'[j].status = "error" /\ row'[j].last = w.last
    BY <1>0, <1>4 DEF RecordError, Job, JobRow
  <2>2. CompletedStages(row'[j]) = CompletedStages(w)
    BY <2>1 DEF CompletedStages
  <2>3. Lifecycle!Fail(j)
    BY <1>0, <1>2, <2>1, <2>2, MapsToSteps
  <2> QED
    BY <1>0, <2>3 DEF Lifecycle!Next
<1>5. CASE ReleaseJob(r)
  <2>0. Owns(r, w)
    BY DEF MapInv, LeaseHeld, Job
  <2>1. row'[j].status = "queued" /\ row'[j].last = w.last
    BY <1>0, <1>5, <2>0 DEF ReleaseJob, Job, JobRow
  <2>2. CompletedStages(row'[j]) = CompletedStages(w)
    BY <2>1 DEF CompletedStages
  <2>3. Lifecycle!Yield(j)
    BY <1>0, <1>2, <2>1, <2>2, MapsToSteps
  <2> QED
    BY <1>0, <2>3 DEF Lifecycle!Next
<1>6. CASE Crash(r)
  <2>1. row' = row
    BY <1>6 DEF Crash
  <2>2. Lifecycle!Lose(j)
    BY <1>0, <1>2, <2>1, MapsToSteps
  <2> QED
    BY <1>0, <2>2 DEF Lifecycle!Next
<1> QED
  BY <1>3, <1>4, <1>5, <1>6

\* The rest of what an executing runner does, no reader can see: what it writes
\* of the checkpoint says what the row said.
LEMMA WorkMapped ==
  ASSUME MapInv, NEW r \in Runners, Run(r), proc[r].pc \in Executing,
         ~PersistState(r), ~SetStatusDone(r), ~RecordError(r), ~ReleaseJob(r)
  PROVE  UNCHANGED Lifecycle!vars
<1> DEFINE j == proc[r].job
           w == row[j]
<1>0. /\ j \in Jobs /\ w \in JobRow /\ proc[r] \in ProcState
      /\ DOMAIN row = Jobs /\ DOMAIN proc = Runners
  BY DEF MapInv, TypeOK, RowTypeOK, ProcTypeOK, Executing, InTry
<1>1. CASE SkipStage(r) \/ EnterStage(r) \/ RefreshLease(r)
  <2>1. row'[j].status = w.status /\ row'[j].last = w.last
    BY <1>0, <1>1 DEF SkipStage, EnterStage, RefreshLease, Refreshed, Job, JobRow
  <2>2. proc'[r].pc \in Executing /\ proc'[r].job = j
    <3>1. CASE NextStage(r)
      BY <1>0, <3>1 DEF NextStage, ProcState, Executing, InTry
    <3>2. CASE Beat(r, "start")
      BY <1>0, <3>2 DEF Beat, ProcState, Executing, InTry
    <3> QED
      BY <1>1, <3>1, <3>2 DEF SkipStage, EnterStage, RefreshLease
  <2>3. CompletedStages(row'[j]) = CompletedStages(w)
    BY <2>1 DEF CompletedStages
  <2> QED
    BY <2>1, <2>2, <2>3, SilentMapped
<1>2. CASE PersistStageStart(r)
  <2>0. Owns(r, w) /\ Agrees(r) /\ proc[r].pc = "start"
    BY <1>2 DEF MapInv, LeaseHeld, Job, PersistStageStart, At
  <2>1. row'[j].status = w.status /\ row'[j].last = proc[r].done
    BY <1>0, <1>2, <2>0 DEF PersistStageStart, Job, JobRow
  <2>2. proc'[r].pc \in Executing /\ proc'[r].job = j
    BY <1>0, <1>2 DEF PersistStageStart, Beat, ProcState, Executing, InTry
  <2>3. CompletedStages(row'[j]) = CompletedStages(w)
    <3>1. \/ w.last = proc[r].done
          \/ w.last = Unset /\ proc[r].done = QueuedStage
      BY <2>0 DEF Agrees
    <3>2. CASE w.last = proc[r].done
      <4>1. row'[j].last = w.last
        BY <2>1, <3>2
      <4> QED
        BY <4>1, CompletedValues
    <3>3. CASE w.last = Unset /\ proc[r].done = 0
      <4>1. row'[j].last = 0 /\ 0 \in 0..NStages
        BY <2>1, <3>3
      <4>2. CompletedStages(row'[j]) = 0
        BY <4>1, CompletedValues
      <4> QED
        BY <3>3, <4>2, CompletedValues
    <3> QED
      BY <3>1, <3>2, <3>3 DEF QueuedStage
  <2> QED
    BY <2>1, <2>2, <2>3, SilentMapped
<1>3. CASE StageReturns(r) \/ PersistArtifacts(r) \/ Fails(r) \/ Cancel(r)
  <2>1. row' = row
    BY <1>3 DEF StageReturns, PersistArtifacts, Fails, Cancel
  <2>2. proc'[r].pc \in Executing /\ proc'[r].job = j
    BY <1>0, <1>3 DEF StageReturns, PersistArtifacts, Fails, Cancel, GoTo, ProcState,
       Executing, InTry
  <2> QED
    BY <2>1, <2>2, SilentMapped
<1>4. CASE PersistDone(r)
  <2>0. w.last = NStages
    BY <1>4 DEF MapInv, Agrees, PersistDone, At
  <2>1. row'[j].status = w.status /\ row'[j].last = DoneStage
    BY <1>0, <1>4 DEF PersistDone, Job, JobRow
  <2>2. proc'[r].pc \in Executing /\ proc'[r].job = j
    BY <1>0, <1>4 DEF PersistDone, GoTo, ProcState, Executing, InTry
  <2>3. CompletedStages(row'[j]) = NStages /\ CompletedStages(w) = NStages
    BY <2>0, <2>1 DEF CompletedStages, Unset, DoneStage
  <2> QED
    BY <2>1, <2>2, <2>3, SilentMapped
<1> QED
  BY <1>1, <1>2, <1>3, <1>4 DEF Run, ClaimJob, ClaimSkipped, At, Executing, InTry

\* Whoever starts or ends without having claimed anything, nobody sees.
LEMMA UnclaimedMapped ==
  ASSUME MapInv, NEW r \in Runners,
         row' = row, \A q \in Runners \ {r} : proc'[q] = proc[q],
         proc[r].pc \notin Executing, proc'[r].pc \notin Executing
  PROVE  UNCHANGED Lifecycle!vars
<1>1. ASSUME NEW k \in Jobs PROVE Untouched(k)
  <2>1. \A q \in Runners : Executes(proc', q, k) <=> Executes(proc, q, k)
    BY DEF Executes
  <2> QED
    BY <2>1, SameHolder DEF Untouched
<1> QED
  BY <1>1, MapsToStutter

\* The passing of time changes no status, no checkpoint and no executor.
LEMMA TickMapped ==
  ASSUME MapInv, Tick
  PROVE  UNCHANGED Lifecycle!vars
<1>0. /\ \A j \in Jobs : row[j] \in JobRow
      /\ \A r \in Runners : proc[r] \in ProcState
  BY DEF MapInv, TypeOK, RowTypeOK, ProcTypeOK
<1>1. ASSUME NEW k \in Jobs PROVE Untouched(k)
  <2>1. ASSUME NEW q \in Runners
        PROVE  Executes(proc', q, k) <=> Executes(proc, q, k)
    BY <1>0 DEF Tick, Executes, ProcState
  <2>2. row'[k].status = row[k].status /\ row'[k].last = row[k].last
    BY <1>0 DEF Tick, JobRow
  <2>3. Holder(proc', k) = Holder(proc, k)
    BY <2>1, SameHolder
  <2> QED
    BY <2>2, <2>3 DEF Untouched, CompletedStages
<1> QED
  BY <1>1, MapsToStutter

\* A submission is a submission.
LEMMA SubmitMapped ==
  ASSUME MapInv, NEW j \in Jobs, Submit(j)
  PROVE  Lifecycle!Next
<1>0. DOMAIN row = Jobs
  BY DEF MapInv, TypeOK, RowTypeOK
<1>1. \A k \in Jobs : Holder(proc', k) = Holder(proc, k)
  BY DEF Submit
<1>2. OnlyTouches(j)
  BY <1>0, <1>1 DEF Submit, OnlyTouches, Untouched
<1>3. row[j].status = "none" /\ row'[j].status = "queued"
  BY <1>0 DEF Submit, NewRow
<1>4. CompletedStages(row'[j]) = CompletedStages(row[j])
  BY <1>0, <1>3 DEF MapInv, Blank, Submit, NewRow, CompletedStages
<1>5. Lifecycle!Submit(j)
  BY <1>1, <1>2, <1>3, <1>4, MapsToSteps
<1> QED
  BY <1>5 DEF Lifecycle!Next

\* Every step is a step of the lifecycle, or one that no reader can see.
LEMMA StepMapped ==
  ASSUME MaxGap <= StaleAfter
  PROVE  MapInv /\ [Next]_vars => [Lifecycle!Next]_Lifecycle!vars
<1> SUFFICES ASSUME MapInv, [Next]_vars
             PROVE  Lifecycle!Next \/ UNCHANGED Lifecycle!vars
  OBVIOUS
<1>0. DOMAIN proc = Runners
  BY DEF MapInv, TypeOK, ProcTypeOK
<1>1. ASSUME NEW j \in Jobs, Submit(j) PROVE Lifecycle!Next
  BY <1>1, SubmitMapped
<1>2. ASSUME NEW r \in Runners, NEW j \in Jobs, Spawn(r, j)
      PROVE  UNCHANGED Lifecycle!vars
  <2>1. proc[r] \in ProcState
    BY DEF MapInv, TypeOK, ProcTypeOK
  <2>2. /\ row' = row /\ \A q \in Runners \ {r} : proc'[q] = proc[q]
        /\ proc[r].pc = "idle" /\ proc'[r].pc = "claim"
    BY <1>0, <1>2, <2>1 DEF Spawn, ProcState
  <2> QED
    BY <2>2, UnclaimedMapped DEF Executing, InTry
<1>3. ASSUME NEW r \in Runners, Run(r) \/ EndsUnclaimed(r) \/ Crash(r)
      PROVE  Lifecycle!Next \/ UNCHANGED Lifecycle!vars
  <2>1. CASE proc[r].pc \in Executing /\ Run(r)
    BY <2>1, CheckpointMapped, ExitMapped, WorkMapped
  <2>2. CASE proc[r].pc \in Executing /\ ~Run(r)
    <3>1. Crash(r)
      BY <1>3, <2>2 DEF EndsUnclaimed, At, Executing, InTry
    <3> QED
      BY <2>2, <3>1, ExitMapped
  <2>3. CASE ClaimJob(r)
    BY <2>3, ClaimMapped
  <2>4. CASE proc[r].pc \notin Executing /\ ~ClaimJob(r)
    <3>1. ClaimSkipped(r) \/ EndsUnclaimed(r) \/ Crash(r)
      BY <1>3, <2>4 DEF Run, SkipStage, EnterStage, PersistStageStart, StageReturns,
         PersistArtifacts, PersistState, RefreshLease, PersistDone, SetStatusDone, Fails,
         RecordError, Cancel, ReleaseJob, Executing, InTry, At
    <3>2. /\ row' = row /\ \A q \in Runners \ {r} : proc'[q] = proc[q]
          /\ proc'[r].pc = "idle"
      BY <1>0, <3>1 DEF ClaimSkipped, EndsUnclaimed, Crash, Exit, NoProcess
    <3> QED
      BY <2>4, <3>2, UnclaimedMapped DEF Executing, InTry
  <2> QED
    BY <1>3, <2>1, <2>2, <2>3, <2>4
<1>4. CASE Tick
  BY <1>4, TickMapped
<1>5. CASE UNCHANGED vars
  <2>1. \A k \in Jobs : Untouched(k)
    BY <1>5 DEF vars, Untouched
  <2> QED
    BY <2>1, MapsToStutter
<1> QED
  BY <1>1, <1>2, <1>3, <1>4, <1>5 DEF Next

\* Before the first step nothing is submitted, run or completed.
LEMMA InitMapped == Init => Lifecycle!Init
<1> SUFFICES ASSUME Init PROVE Lifecycle!Init
  OBVIOUS
<1>1. ASSUME NEW j \in Jobs
      PROVE  /\ row[j].status = "none" /\ CompletedStages(row[j]) = 0
             /\ RunnerOf(j) = NoRunner
  <2>1. row[j].status = "none" /\ row[j].last = Unset
    BY DEF Init, NewRow
  <2>2. \A q \in Runners : ~Executes(proc, q, j)
    BY DEF Init, NoProcess, Executes, Executing, InTry
  <2>3. RunnerOf(j) = NoRunner
    BY <2>2, NoHolder, RunnerOfIsHolder
  <2> QED
    BY <2>1, <2>3, CompletedValues
<1> QED
  BY <1>1 DEF Lifecycle!Init

\* While live runners write their heartbeats in time, leases, claims,
\* checkpoints and takeovers amount to the lifecycle that readers of the jobs
\* table are promised: one executor at a time, stages completed one after the
\* other, one outcome.
THEOREM RunnersImplementLifecycle ==
  ASSUME MaxGap <= StaleAfter
  PROVE  Spec => ImplementsLifecycle
<1> DEFINE Known == CloseInv /\ CheckpointInv
                    /\ (\A r \in Runners : Resumes(r)) /\ (\A r \in Runners : Agrees(r))
                    /\ (\A j \in Jobs : Blank(j))
<1>1. Init => Known
  BY CloseInit, CheckpointInit, ResumeInit, AgreeInit, BlankInit
<1>2. TypeOK /\ LeaseHeld /\ Known /\ [Next]_vars => Known'
  <2> SUFFICES ASSUME TypeOK, LeaseHeld, Known, [Next]_vars PROVE Known'
    OBVIOUS
  <2>1. CloseInv'
    BY CloseStep
  <2>2. CheckpointInv'
    BY CheckpointStep
  <2>3. (\A r \in Runners : Resumes(r))'
    BY ResumeStep
  <2>4. (\A r \in Runners : Agrees(r))'
    BY AgreeStep
  <2>5. (\A j \in Jobs : Blank(j))'
    BY BlankStep
  <2> QED
    BY <2>1, <2>2, <2>3, <2>4, <2>5
<1>3. TypeOK /\ LeaseHeld /\ ResumePoint /\ Known => MapInv
  BY DEF MapInv
<1> HIDE DEF Known
<1>4. Init => Lifecycle!Init
  BY InitMapped
<1>5. MapInv /\ [Next]_vars => [Lifecycle!Next]_Lifecycle!vars
  BY StepMapped
<1>6. Spec => []TypeOK /\ []LeaseHeld /\ []ResumePoint
  BY TypeCorrect, LeaseKept, ResumesRight, PTL
<1> QED
  BY <1>1, <1>2, <1>3, <1>4, <1>5, <1>6, PTL
     DEF Spec, ImplementsLifecycle, Lifecycle!Spec
=============================================================================
