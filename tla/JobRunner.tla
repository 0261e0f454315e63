----------------------------- MODULE JobRunner ------------------------------
(***************************************************************************)
(* The job lease and the stage loop of pipeline/runner.py.                 *)
(*                                                                         *)
(* A runner is one call of run_pipeline, in a child process of its own     *)
(* (pipeline/spawn.py) with a fresh uuid as runner_id.  It claims the row  *)
(* of its job in the jobs table, then takes the stages of the job's stage  *)
(* order in turn.  Every step below is one SQLite transaction of the       *)
(* runner, or the one await of the loop (_run_stage): between two of them  *)
(* another process may commit, and the runner may die.                     *)
(*                                                                         *)
(* Stages are the numbers 1..NStages, 0 is Stage.QUEUED and NStages + 1 is *)
(* Stage.DONE.  `progress' is the numerator of the fraction over NStages.  *)
(*                                                                         *)
(* Time is counted in ticks: row.age is the age of runner_heartbeat_at and *)
(* proc.gap the time since the runner last wrote a heartbeat.  The code    *)
(* writes no heartbeat while a stage runs; MaxGap bounds how long a live   *)
(* runner can go without one, StaleAfter is JOB_LEASE_STALE_SECONDS.       *)
(***************************************************************************)
EXTENDS Integers, FiniteSets

CONSTANTS Jobs,         \* job ids
          Runners,      \* process slots; a slot gets a new uuid each time
          NoRunner,     \* runner_id IS NULL
          NoJob,        \* the job of a slot in which no process runs
          NStages,      \* length of the stage order
          StaleAfter,   \* ticks after which a lease may be taken over
          MaxGap,       \* longest a live runner goes without a heartbeat
          MaxCrashes    \* bound: how many runners die

VARIABLES row,        \* row[j]: the columns of j in the jobs table
          proc,       \* proc[r]: the local state of runner r
          artifacts,  \* artifacts[j]: stages of j whose tables are written
          crashes     \* how many runners have died

vars == <<row, proc, artifacts, crashes>>

ASSUME IdAssumption == NoRunner \notin Runners /\ NoJob \notin Jobs
ASSUME StagesAssumption == NStages \in Nat \ {0}
ASSUME TimeAssumption == StaleAfter \in Nat /\ MaxGap \in Nat
ASSUME CrashAssumption == MaxCrashes \in Nat

Stages == 1..NStages
QueuedStage == 0
DoneStage == NStages + 1
Unset == -1                   \* no last_completed_stage in the state JSON
NoHeartbeat == StaleAfter + 1 \* NULL, or older than anyone can tell apart

JobRow == [status   : {"none", "queued", "running", "done", "error"},
           stage    : 0..DoneStage,
           last     : Unset..DoneStage,
           progress : 0..NStages,
           runner   : Runners \cup {NoRunner},
           age      : 0..NoHeartbeat]

\* Where the transactions of run_pipeline fail into `except Exception'.
InTry == {"loop", "start", "write", "save", "beat", "finish", "close"}
Executing == InTry \cup {"stage", "error", "release"}
Points == {"idle", "claim"} \cup Executing

ProcState == [pc   : Points,             \* program point
              job  : Jobs \cup {NoJob},   \* job_id
              idx  : Stages,             \* idx of the for statement
              done : 0..DoneStage,       \* completed_stage
              gap  : 0..MaxGap]          \* time since the last heartbeat

RowTypeOK == row \in [Jobs -> JobRow]

ProcTypeOK ==
  /\ proc \in [Runners -> ProcState]
  /\ \A r \in Runners : proc[r].pc # "idle" => proc[r].job \in Jobs

\* The types of the variables, and a process that runs has a job.
TypeOK ==
  /\ RowTypeOK
  /\ ProcTypeOK
  /\ artifacts \in [Jobs -> SUBSET Stages]
  /\ crashes \in 0..MaxCrashes

-----------------------------------------------------------------------------
NewRow == [status |-> "queued", stage |-> QueuedStage, last |-> Unset,
           progress |-> 0, runner |-> NoRunner, age |-> NoHeartbeat]

NoProcess == [pc |-> "idle", job |-> NoJob, idx |-> 1,
              done |-> QueuedStage, gap |-> 0]

Init ==
  /\ row = [j \in Jobs |-> [NewRow EXCEPT !.status = "none"]]
  /\ proc = [r \in Runners |-> NoProcess]
  /\ artifacts = [j \in Jobs |-> {}]
  /\ crashes = 0

\* The handlers of ingest and densify insert the row.
Submit(j) ==
  /\ row[j].status = "none"
  /\ row' = [row EXCEPT ![j] = NewRow]
  /\ UNCHANGED <<proc, artifacts, crashes>>

\* A driver (the worker, or the request that created the job) starts a
\* process.  Nothing stops two drivers from picking one job.
Spawn(r, j) ==
  /\ proc[r].pc = "idle"
  /\ row[j].status # "none"
  /\ proc' = [proc EXCEPT ![r] = [@ EXCEPT !.pc = "claim", !.job = j]]
  /\ UNCHANGED <<row, artifacts, crashes>>

-----------------------------------------------------------------------------
(***************************************************************************)
(* Faults: each of these in place of the definition it is named after      *)
(* breaks a property below.                                                *)
(***************************************************************************)
FaultClaimableRunning(w) == w.status \in {"queued", "running"}
FaultClaimableFailed(w) == w.status \in {"queued", "error"}
FaultLastCompletedLost(w) == QueuedStage
FaultNotRefreshed(r, w) == w

FaultNextStageEarly(r) ==
  proc' = [proc EXCEPT ![r] =
             IF proc[r].idx >= NStages - 1
             THEN [@ EXCEPT !.pc = "finish", !.gap = 0]
             ELSE [@ EXCEPT !.pc = "loop", !.idx = proc[r].idx + 1, !.gap = 0]]

FaultNextStageLate(r) ==
  proc' = [proc EXCEPT ![r] =
             IF proc[r].idx > NStages
             THEN [@ EXCEPT !.pc = "finish", !.gap = 0]
             ELSE [@ EXCEPT !.pc = "loop", !.idx = proc[r].idx + 1, !.gap = 0]]

FaultCheckpointFirst(r) ==
  /\ proc[r].pc = "stage"
  /\ proc' = [proc EXCEPT ![r].pc = "save"]
  /\ UNCHANGED <<row, artifacts, crashes>>

FaultStateNotKept(r) ==
  /\ proc[r].pc = "save"
  /\ row' = [row EXCEPT ![proc[r].job] =
               [@ EXCEPT !.stage = proc[r].idx, !.last = proc[r].idx,
                         !.progress = proc[r].idx]]
  /\ proc' = [proc EXCEPT ![r].pc = "beat"]
  /\ UNCHANGED <<artifacts, crashes>>

FaultNotReleased(r) ==
  /\ proc[r].pc = "release"
  /\ proc' = [proc EXCEPT ![r] = NoProcess]
  /\ UNCHANGED <<row, artifacts, crashes>>

-----------------------------------------------------------------------------
\* The WHERE clause of the claim: queued, or running under a stale lease.
Claimable(w) ==
  \/ w.status = "queued"
  \/ w.status = "running" /\ w.age > StaleAfter

\* state["last_completed_stage"], or the row's stage when there is none.
LastCompleted(w) == IF w.last = Unset THEN w.stage ELSE w.last

\* The index of a stage in the stage order: DONE and QUEUED are not in it.
StageIndex(s) == IF s \in Stages THEN s ELSE 0

\* The WHERE clause of the guarded updates.
Owns(r, w) == w.runner = r /\ w.status = "running"

\* The row after _refresh_lease.
Refreshed(r, w) == IF Owns(r, w) THEN [w EXCEPT !.age = 0] ELSE w

At(r, point) == proc[r].pc = point
Job(r) == proc[r].job
GoTo(r, point) == proc' = [proc EXCEPT ![r].pc = point]
Exit(r) == proc' = [proc EXCEPT ![r] = NoProcess]
Beat(r, point) ==
  proc' = [proc EXCEPT ![r] = [@ EXCEPT !.pc = point, !.gap = 0]]

\* The for statement: on to the next stage, or out of the loop.
NextStage(r) ==
  proc' = [proc EXCEPT ![r] =
             IF proc[r].idx = NStages
             THEN [@ EXCEPT !.pc = "finish", !.gap = 0]
             ELSE [@ EXCEPT !.pc = "loop", !.idx = proc[r].idx + 1, !.gap = 0]]

ClaimJob(r) ==
  /\ At(r, "claim")
  /\ Claimable(row[Job(r)])
  /\ row' = [row EXCEPT ![Job(r)] = [@ EXCEPT !.status = "running",
                                              !.runner = r, !.age = 0]]
  /\ proc' = [proc EXCEPT ![r] =
                [@ EXCEPT !.pc = "loop",
                          !.done = LastCompleted(row[Job(r)])]]
  /\ UNCHANGED <<artifacts, crashes>>

ClaimSkipped(r) ==
  /\ At(r, "claim")
  /\ ~Claimable(row[Job(r)])
  /\ Exit(r)
  /\ UNCHANGED <<row, artifacts, crashes>>

\* completed_idx >= idx.  completed_stage only moves on to the stage just
\* run, so comparing with it is comparing with the index read at the claim.
SkipStage(r) ==
  /\ At(r, "loop")
  /\ StageIndex(proc[r].done) >= proc[r].idx
  /\ row' = [row EXCEPT ![Job(r)] = Refreshed(r, @)]
  /\ NextStage(r)
  /\ UNCHANGED <<artifacts, crashes>>

EnterStage(r) ==
  /\ At(r, "loop")
  /\ StageIndex(proc[r].done) < proc[r].idx
  /\ row' = [row EXCEPT ![Job(r)] = Refreshed(r, @)]
  /\ Beat(r, "start")
  /\ UNCHANGED <<artifacts, crashes>>

PersistStageStart(r) ==
  /\ At(r, "start")
  /\ row' = [row EXCEPT ![Job(r)] =
               IF Owns(r, @)
               THEN [@ EXCEPT !.stage = proc[r].idx, !.last = proc[r].done,
                              !.progress = proc[r].idx - 1, !.age = 0]
               ELSE @]
  /\ Beat(r, "stage")
  /\ UNCHANGED <<artifacts, crashes>>

StageReturns(r) ==
  /\ At(r, "stage")
  /\ GoTo(r, "write")
  /\ UNCHANGED <<row, artifacts, crashes>>

\* The transactions that store the stage's results for the asset.
PersistArtifacts(r) ==
  /\ At(r, "write")
  /\ artifacts' = [artifacts EXCEPT ![Job(r)] = @ \cup {proc[r].idx}]
  /\ GoTo(r, "save")
  /\ UNCHANGED <<row, crashes>>

\* _persist_state does not ask who holds the lease.
PersistState(r) ==
  /\ At(r, "save")
  /\ row' = [row EXCEPT ![Job(r)] =
               [@ EXCEPT !.stage = proc[r].idx, !.last = proc[r].idx,
                         !.progress = proc[r].idx]]
  /\ proc' = [proc EXCEPT ![r] = [@ EXCEPT !.pc = "beat", !.done = proc[r].idx]]
  /\ UNCHANGED <<artifacts, crashes>>

RefreshLease(r) ==
  /\ At(r, "beat")
  /\ row' = [row EXCEPT ![Job(r)] = Refreshed(r, @)]
  /\ NextStage(r)
  /\ UNCHANGED <<artifacts, crashes>>

PersistDone(r) ==
  /\ At(r, "finish")
  /\ row' = [row EXCEPT ![Job(r)] =
               [@ EXCEPT !.stage = DoneStage, !.last = DoneStage,
                         !.progress = NStages]]
  /\ GoTo(r, "close")
  /\ UNCHANGED <<artifacts, crashes>>

\* _set_status(DONE): a transaction of its own, and unguarded.
SetStatusDone(r) ==
  /\ At(r, "close")
  /\ row' = [row EXCEPT ![Job(r)] =
               [@ EXCEPT !.status = "done", !.runner = NoRunner,
                         !.age = NoHeartbeat]]
  /\ Exit(r)
  /\ UNCHANGED <<artifacts, crashes>>

\* The stage raises, or a transaction does (a busy database, a broken key).
Fails(r) ==
  /\ proc[r].pc \in InTry \cup {"stage"}
  /\ GoTo(r, "error")
  /\ UNCHANGED <<row, artifacts, crashes>>

\* _record_error does not ask who holds the lease either.
RecordError(r) ==
  /\ At(r, "error")
  /\ row' = [row EXCEPT ![Job(r)] =
               [@ EXCEPT !.status = "error", !.runner = NoRunner,
                         !.age = NoHeartbeat]]
  /\ Exit(r)
  /\ UNCHANGED <<artifacts, crashes>>

\* CancelledError reaches the task at its only await.
Cancel(r) ==
  /\ At(r, "stage")
  /\ GoTo(r, "release")
  /\ UNCHANGED <<row, artifacts, crashes>>

ReleaseJob(r) ==
  /\ At(r, "release")
  /\ row' = [row EXCEPT ![Job(r)] =
               IF Owns(r, @)
               THEN [@ EXCEPT !.status = "queued", !.runner = NoRunner,
                              !.age = NoHeartbeat]
               ELSE @]
  /\ Exit(r)
  /\ UNCHANGED <<artifacts, crashes>>

-----------------------------------------------------------------------------
\* A process that dies, or whose claim fails, before it holds anything.
EndsUnclaimed(r) ==
  /\ At(r, "claim")
  /\ Exit(r)
  /\ UNCHANGED <<row, artifacts, crashes>>

\* The process is killed, or an exception leaves run_pipeline: the row stays
\* as the last commit left it.
Crash(r) ==
  /\ ~At(r, "idle")
  /\ crashes < MaxCrashes
  /\ crashes' = crashes + 1
  /\ Exit(r)
  /\ UNCHANGED <<row, artifacts>>

\* Time passes, up to the moment a live runner has to write a heartbeat.
Tick ==
  /\ \A r \in Runners : proc[r].pc \in Executing => proc[r].gap < MaxGap
  /\ row' = [j \in Jobs |->
               [row[j] EXCEPT !.age = IF @ = NoHeartbeat THEN @ ELSE @ + 1]]
  /\ proc' = [r \in Runners |->
                IF proc[r].pc \in Executing
                THEN [proc[r] EXCEPT !.gap = @ + 1]
                ELSE proc[r]]
  /\ UNCHANGED <<artifacts, crashes>>

Run(r) ==
  \/ ClaimJob(r)      \/ ClaimSkipped(r)      \/ SkipStage(r)
  \/ EnterStage(r)    \/ PersistStageStart(r) \/ StageReturns(r)
  \/ PersistArtifacts(r) \/ PersistState(r)   \/ RefreshLease(r)
  \/ PersistDone(r)   \/ SetStatusDone(r)
  \/ Fails(r)         \/ RecordError(r)
  \/ Cancel(r)        \/ ReleaseJob(r)

Next ==
  \/ \E j \in Jobs : Submit(j)
  \/ \E r \in Runners, j \in Jobs : Spawn(r, j)
  \/ \E r \in Runners : Run(r) \/ EndsUnclaimed(r) \/ Crash(r)
  \/ Tick

Spec == Init /\ [][Next]_vars
-----------------------------------------------------------------------------
(***************************************************************************)
(* Safety while every live runner writes a heartbeat in time               *)
(* (MaxGap <= StaleAfter).                                                 *)
(***************************************************************************)

\* Two runners never execute the same job: the claim of run_pipeline hands a
\* job out once, and a takeover waits until its runner is gone.
\* (db/sql/0006_job_runner_leases.sql: "exactly one process own execution".)
ExclusiveExecution ==
  \A r, q \in Runners :
    proc[r].pc \in Executing /\ proc[q].pc \in Executing /\ Job(r) = Job(q)
      => r = q

\* The unguarded writes of the loop (_persist_state, _set_status,
\* _record_error) are safe because whoever executes still holds the lease,
\* and the lease is no older than the runner's own silence.
LeaseHeld ==
  \A r \in Runners : proc[r].pc \in Executing =>
    /\ Owns(r, row[Job(r)])
    /\ row[Job(r)].age <= proc[r].gap

\* A runner works on the stage right after the last one recorded: nothing is
\* skipped and nothing recorded is repeated, whatever died or was cancelled
\* before.  The exception is a job whose state already says DONE, which the
\* loop starts again from its first stage.
ResumePoint ==
  \A r \in Runners : proc[r].pc \in {"stage", "write", "save"} =>
    LET last == row[Job(r)].last
    IN  \/ last = proc[r].idx - 1
        \/ last = DoneStage /\ proc[r].idx = 1

\* status = done says everything it suggests: every stage's tables written,
\* the state JSON at DONE, the progress full and the lease given up.
DoneIsComplete ==
  \A j \in Jobs : row[j].status = "done" =>
    /\ artifacts[j] = Stages
    /\ row[j].last = DoneStage
    /\ row[j].progress = NStages
    /\ row[j].runner = NoRunner

(***************************************************************************)
(* Safety in every run, a lease that lapses under a live runner included.  *)
(***************************************************************************)

\* The first n stages of the stage order have stored their results.
Stored(j, n) == \A s \in Stages : s <= n => s \in artifacts[j]

\* A checkpoint never runs ahead of the tables it vouches for: when the state
\* JSON says a stage is completed, that stage and all before it have stored
\* their results, so a resume may skip them.
CheckpointDurable == \A j \in Jobs : Stored(j, row[j].last)

\* Even two runners on one job never call it done before every stage has
\* stored its results.
DoneHasArtifacts == \A j \in Jobs : row[j].status = "done" => Stored(j, NStages)

\* Why: what a runner believes completed is stored, whichever runner stored
\* it, and a row without last_completed_stage has not begun.
CheckpointInv ==
  /\ CheckpointDurable
  /\ DoneHasArtifacts
  /\ \A j \in Jobs : row[j].last = Unset => row[j].stage = QueuedStage
  /\ \A r \in Runners : proc[r].pc \notin Executing => proc[r].idx = 1
  /\ \A r \in Runners : proc[r].pc \in Executing =>
       /\ Stored(Job(r), proc[r].done)
       /\ Stored(Job(r), proc[r].idx - 1)
       /\ proc[r].pc \in {"save", "beat"} => Stored(Job(r), proc[r].idx)
       /\ proc[r].pc \in {"finish", "close"} => Stored(Job(r), NStages)

(***************************************************************************)
(* What the documentation says and a run refutes.                          *)
(***************************************************************************)

\* docs/architecture.md, "Job lifecycle": done and error are final.  A reader
\* that saw the outcome of a job (the polling loop of ingest) relies on it.
OutcomeIsFinal ==
  [][\A j \in Jobs : row[j].status \in {"done", "error"}
                       => row'[j].status = row[j].status]_vars

\* run_pipeline: "if the job already advanced past a stage, skipped stages are
\* no-ops on next attempt": no runner starts a stage the row says is past.
CompletedStagesSkipped ==
  [][\A r \in Runners :
       At(r, "start") /\ proc'[r].pc = "stage" =>
         row[Job(r)].last < proc[r].idx]_vars

-----------------------------------------------------------------------------
(***************************************************************************)
(* JobRunner implements JobLifecycle.                                      *)
(***************************************************************************)
RunnerOf(j) ==
  LET live == {r \in Runners : proc[r].pc \in Executing /\ Job(r) = j}
  IN  IF live = {} THEN NoRunner ELSE CHOOSE r \in live : TRUE

CompletedStages(w) ==
  CASE w.last = Unset -> 0
    [] w.last = DoneStage -> NStages
    [] OTHER -> w.last

Lifecycle == INSTANCE JobLifecycle WITH
  status    <- [j \in Jobs |-> row[j].status],
  worker    <- [j \in Jobs |-> RunnerOf(j)],
  completed <- [j \in Jobs |-> CompletedStages(row[j])]

\* Leases, heartbeats, checkpoints and takeovers amount to the promised
\* lifecycle: one owner at a time, stages completed one by one, one outcome.
ImplementsLifecycle == Lifecycle!Spec
=============================================================================
