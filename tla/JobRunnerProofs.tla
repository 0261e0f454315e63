-------------------------- MODULE JobRunnerProofs ---------------------------
(***************************************************************************)
(* What holds of JobRunner for every set of jobs and runners, every number *)
(* of stages and every lease length.                                       *)
(***************************************************************************)
EXTENDS JobRunner, TLAPS

USE IdAssumption, StagesAssumption, TimeAssumption, CrashAssumption

\* Writing one column of a row keeps the row well typed.
LEMMA RowColumns ==
  ASSUME NEW w \in JobRow
  PROVE  /\ \A x \in {"none", "queued", "running", "done", "error"} :
              [w EXCEPT !.status = x] \in JobRow
         /\ \A x \in 0..DoneStage : [w EXCEPT !.stage = x] \in JobRow
         /\ \A x \in Unset..DoneStage : [w EXCEPT !.last = x] \in JobRow
         /\ \A x \in 0..NStages : [w EXCEPT !.progress = x] \in JobRow
         /\ \A x \in Runners \cup {NoRunner} :
              [w EXCEPT !.runner = x] \in JobRow
         /\ \A x \in 0..NoHeartbeat : [w EXCEPT !.age = x] \in JobRow
  BY DEF JobRow

\* Likewise for the locals of a runner.
LEMMA ProcLocals ==
  ASSUME NEW p \in ProcState
  PROVE  /\ \A x \in Points : [p EXCEPT !.pc = x] \in ProcState
         /\ \A x \in Jobs \cup {NoJob} : [p EXCEPT !.job = x] \in ProcState
         /\ \A x \in Stages : [p EXCEPT !.idx = x] \in ProcState
         /\ \A x \in 0..DoneStage : [p EXCEPT !.done = x] \in ProcState
         /\ \A x \in 0..MaxGap : [p EXCEPT !.gap = x] \in ProcState
  BY DEF ProcState

\* The values the transactions of run_pipeline write are of their columns'
\* types.
LEMMA Values ==
  /\ 0 \in 0..NoHeartbeat /\ NoHeartbeat \in 0..NoHeartbeat
  /\ 0 \in 0..MaxGap
  /\ 1 \in Stages
  /\ NStages \in 0..NStages
  /\ DoneStage \in 0..DoneStage /\ DoneStage \in Unset..DoneStage
  /\ \A i \in Stages : /\ i \in 0..DoneStage /\ i \in Unset..DoneStage
                       /\ i \in 0..NStages /\ i - 1 \in 0..NStages
                       /\ i # NStages => i + 1 \in Stages
  /\ \A d \in 0..DoneStage : d \in Unset..DoneStage
  /\ \A d \in Unset..DoneStage : d # Unset => d \in 0..DoneStage
  /\ Executing \cup {"claim", "idle"} \subseteq Points
  /\ \A x \in {"loop", "start", "write", "save", "beat", "finish", "close",
               "stage", "error", "release"} : x \in Executing
  /\ "idle" \notin Executing /\ "claim" \notin Executing
  BY DEF Stages, DoneStage, Unset, NoHeartbeat, Points, Executing, InTry

\* What the transactions of run_pipeline write is a well-typed row.
LEMMA RowWrites ==
  ASSUME NEW w \in JobRow
  PROVE  /\ [w EXCEPT !.age = 0] \in JobRow
         /\ \A r \in Runners : 
              [w EXCEPT !.status = "running", !.runner = r, !.age = 0] \in JobRow
         /\ \A i \in Stages, d \in 0..DoneStage :
              [w EXCEPT !.stage = i, !.last = d, !.progress = i - 1, !.age = 0] \in JobRow
         /\ \A i \in Stages :
              [w EXCEPT !.stage = i, !.last = i, !.progress = i] \in JobRow
         /\ [w EXCEPT !.stage = DoneStage, !.last = DoneStage, !.progress = NStages] \in JobRow
         /\ \A s \in {"queued", "done", "error"} : 
             [w EXCEPT !.status = s, !.runner = NoRunner, !.age = NoHeartbeat] \in JobRow
<1>1. [w EXCEPT !.age = 0] \in JobRow 
  BY RowColumns, Values
<1>2. ASSUME NEW r \in Runners PROVE [w EXCEPT !.status = "running", !.runner = r, !.age = 0] \in JobRow
  BY RowColumns, Values
<1>3. ASSUME NEW i \in Stages, NEW d \in 0..DoneStage
      PROVE [w EXCEPT !.stage = i, !.last = d, !.progress = i - 1, !.age = 0] \in JobRow
  BY RowColumns, Values
<1>4. ASSUME NEW i \in Stages PROVE [w EXCEPT !.stage = i, !.last = i, !.progress = i] \in JobRow
  BY RowColumns, Values
<1>5. [w EXCEPT !.stage = DoneStage, !.last = DoneStage, !.progress = NStages] \in JobRow
  BY RowColumns, Values
<1>6. ASSUME NEW s \in {"queued", "done", "error"} PROVE 
             [w EXCEPT !.status = s, !.runner = NoRunner, !.age = NoHeartbeat] \in JobRow
  BY RowColumns, Values
<1> QED BY <1>1, <1>2, <1>3, <1>4, <1>5, <1>6

\* What a step of a runner leaves in its locals is well typed.
LEMMA ProcWrites ==
  ASSUME NEW p \in ProcState
  PROVE  /\ \A j \in Jobs : [p EXCEPT !.pc = "claim", !.job = j] \in ProcState
         /\ \A x \in Points :
              /\ [p EXCEPT !.pc = x] \in ProcState
              /\ [p EXCEPT !.pc = x, !.gap = 0] \in ProcState
         /\ \A d \in 0..DoneStage :
              /\ [p EXCEPT !.pc = "loop", !.done = d] \in ProcState
              /\ [p EXCEPT !.pc = "beat", !.done = d] \in ProcState
         /\ \A i \in Stages :
              [p EXCEPT !.pc = "loop", !.idx = i, !.gap = 0] \in ProcState
<1>0. /\ "claim" \in Points /\ "loop" \in Points /\ "beat" \in Points
  BY DEF Points, Executing, InTry
<1>2. ASSUME NEW j \in Jobs
      PROVE  [p EXCEPT !.pc = "claim", !.job = j] \in ProcState
  BY ProcLocals, <1>0
<1>3. ASSUME NEW x \in Points
      PROVE  /\ [p EXCEPT !.pc = x] \in ProcState
             /\ [p EXCEPT !.pc = x, !.gap = 0] \in ProcState
  BY ProcLocals, Values
<1>4. ASSUME NEW d \in 0..DoneStage
      PROVE  /\ [p EXCEPT !.pc = "loop", !.done = d] \in ProcState
             /\ [p EXCEPT !.pc = "beat", !.done = d] \in ProcState
  BY ProcLocals, <1>0
<1>5. ASSUME NEW i \in Stages
      PROVE  [p EXCEPT !.pc = "loop", !.idx = i, !.gap = 0] \in ProcState
  BY ProcLocals, Values, <1>0
<1> QED
  BY <1>2, <1>3, <1>4, <1>5

\* A runner that has not been spawned has well-typed locals.
LEMMA ProcTypes == NoProcess \in ProcState
  BY Values DEF NoProcess, ProcState, Points, QueuedStage, DoneStage

-----------------------------------------------------------------------------
\* Every variable has its type before the first job is submitted.
LEMMA TypeInit == Init => TypeOK
<1> SUFFICES ASSUME Init PROVE TypeOK
  OBVIOUS
<1>1. [NewRow EXCEPT !.status = "none"] \in JobRow
  BY DEF NewRow, JobRow, QueuedStage, Unset, DoneStage, NoHeartbeat
<1>2. NoProcess \in ProcState /\ NoProcess.pc = "idle"
  BY ProcTypes DEF NoProcess
<1> QED
  BY <1>1, <1>2 DEF Init, TypeOK, RowTypeOK, ProcTypeOK

\* Replacing one row, or the locals of one runner.
LEMMA RowUpdate ==
  ASSUME RowTypeOK, NEW j \in Jobs, NEW w \in JobRow,
         row' = [row EXCEPT ![j] = w]
  PROVE  RowTypeOK'
  BY DEF RowTypeOK

\* The same for the locals of one runner.
LEMMA ProcUpdate ==
  ASSUME ProcTypeOK, NEW r \in Runners, NEW p \in ProcState,
         p.pc # "idle" => p.job \in Jobs,
         proc' = [proc EXCEPT ![r] = p]
  PROVE  ProcTypeOK'
  BY DEF ProcTypeOK

\* A running process moves on, exits or goes to its next stage.
LEMMA ProcMoves ==
  ASSUME ProcTypeOK, NEW r \in Runners, proc[r].pc # "idle"
  PROVE  /\ \A x \in Points : GoTo(r, x) => ProcTypeOK'
         /\ \A x \in Points : Beat(r, x) => ProcTypeOK'
         /\ Exit(r) => ProcTypeOK'
         /\ NextStage(r) => ProcTypeOK'
<1> DEFINE p == proc[r]
<1>0. p \in ProcState /\ p.job \in Jobs /\ p.idx \in Stages
  BY DEF ProcTypeOK, ProcState
<1>1. ASSUME NEW x \in Points, GoTo(r, x) PROVE ProcTypeOK'
  <2>1. /\ [p EXCEPT !.pc = x] \in ProcState
        /\ [p EXCEPT !.pc = x].job = p.job
    BY <1>0, ProcWrites DEF ProcState
  <2> QED
    BY <1>0, <1>1, <2>1, ProcUpdate DEF GoTo
<1>2. ASSUME NEW x \in Points, Beat(r, x) PROVE ProcTypeOK'
  <2>1. /\ [p EXCEPT !.pc = x, !.gap = 0] \in ProcState
        /\ [p EXCEPT !.pc = x, !.gap = 0].job = p.job
    BY <1>0, ProcWrites DEF ProcState
  <2> QED
    BY <1>0, <1>2, <2>1, ProcUpdate DEF Beat
<1>3. ASSUME Exit(r) PROVE ProcTypeOK'
  BY <1>3, ProcTypes, ProcUpdate DEF Exit, NoProcess
<1>4. ASSUME NextStage(r) PROVE ProcTypeOK'
  <2>1. CASE p.idx = NStages
    <3>1. /\ [p EXCEPT !.pc = "finish", !.gap = 0] \in ProcState
          /\ [p EXCEPT !.pc = "finish", !.gap = 0].job = p.job
      BY <1>0, ProcWrites, Values DEF ProcState
    <3> QED
      BY <1>0, <1>4, <2>1, <3>1, ProcUpdate DEF NextStage
  <2>2. CASE p.idx # NStages
    <3>1. p.idx + 1 \in Stages
      BY <1>0, <2>2, Values
    <3>2. /\ [p EXCEPT !.pc = "loop", !.idx = p.idx + 1, !.gap = 0]
               \in ProcState
          /\ [p EXCEPT !.pc = "loop", !.idx = p.idx + 1, !.gap = 0].job
               = p.job
      BY <1>0, <3>1, ProcWrites DEF ProcState
    <3>3. proc' = [proc EXCEPT ![r] =
                     [p EXCEPT !.pc = "loop", !.idx = p.idx + 1, !.gap = 0]]
      BY <1>4, <2>2 DEF NextStage
    <3> QED
      BY <1>0, <3>2, <3>3, ProcUpdate
  <2> QED
    BY <2>1, <2>2
<1> QED
  BY <1>1, <1>2, <1>3, <1>4

\* Every action writes well-typed rows and locals, and a process has a job.
LEMMA TypeStep == TypeOK /\ [Next]_vars => TypeOK'
<1> SUFFICES ASSUME TypeOK, [Next]_vars PROVE TypeOK'
  OBVIOUS
<1>a. RowTypeOK /\ ProcTypeOK
  BY DEF TypeOK
<1>1. ASSUME NEW j \in Jobs, Submit(j) PROVE TypeOK'
  <2>1. NewRow \in JobRow
    BY DEF NewRow, JobRow, QueuedStage, Unset, DoneStage, NoHeartbeat
  <2>2. RowTypeOK'
    BY <1>1, <1>a, <2>1, RowUpdate DEF Submit
  <2> QED
    BY <1>1, <2>2 DEF Submit, TypeOK, ProcTypeOK
<1>2. ASSUME NEW r \in Runners, NEW j \in Jobs, Spawn(r, j) PROVE TypeOK'
  <2>1. proc[r] \in ProcState
    BY <1>a DEF ProcTypeOK
  <2>2. /\ [proc[r] EXCEPT !.pc = "claim", !.job = j] \in ProcState
        /\ [proc[r] EXCEPT !.pc = "claim", !.job = j].job = j
    BY <2>1, ProcWrites DEF ProcState
  <2>3. ProcTypeOK'
    BY <1>2, <1>a, <2>2, ProcUpdate DEF Spawn
  <2> QED
    BY <1>2, <2>3 DEF Spawn, TypeOK, RowTypeOK
<1>3. ASSUME NEW r \in Runners, Run(r) PROVE TypeOK'
  <2> DEFINE j == proc[r].job
             w == row[j]
             p == proc[r]
  <2>0. /\ p.pc # "idle" /\ j \in Jobs /\ w \in JobRow
        /\ p \in ProcState /\ p.idx \in Stages /\ p.done \in 0..DoneStage
    BY <1>3, <1>a DEF RowTypeOK, ProcTypeOK, ProcState, Run, ClaimJob,
      ClaimSkipped, SkipStage, EnterStage, PersistStageStart, StageReturns,
      PersistArtifacts, PersistState, RefreshLease, PersistDone,
      SetStatusDone, Fails, RecordError, Cancel, ReleaseJob, InTry, At
  <2>r. Refreshed(r, w) \in JobRow
    BY <2>0, RowWrites DEF Refreshed
  <2>m. /\ \A x \in Points : GoTo(r, x) => ProcTypeOK'
        /\ \A x \in Points : Beat(r, x) => ProcTypeOK'
        /\ Exit(r) => ProcTypeOK'
        /\ NextStage(r) => ProcTypeOK'
    BY <1>a, <2>0, ProcMoves
  <2>x. /\ "loop" \in Points /\ "start" \in Points /\ "stage" \in Points
        /\ "write" \in Points /\ "save" \in Points /\ "beat" \in Points
        /\ "finish" \in Points /\ "close" \in Points /\ "error" \in Points
        /\ "release" \in Points
    BY DEF Points, Executing, InTry
  <2>1. CASE ClaimJob(r)
    <3>1. RowTypeOK'
      BY <2>1, <1>a, <2>0, RowWrites, RowUpdate DEF ClaimJob, Job
    <3>2. LastCompleted(w) \in 0..DoneStage
      BY <2>0 DEF LastCompleted, JobRow, Unset, DoneStage
    <3>3. /\ [p EXCEPT !.pc = "loop", !.done = LastCompleted(w)] \in ProcState
          /\ [p EXCEPT !.pc = "loop", !.done = LastCompleted(w)].job = j
      BY <2>0, <3>2, ProcWrites DEF ProcState
    <3>4. ProcTypeOK'
      BY <2>1, <1>a, <2>0, <3>3, ProcUpdate DEF ClaimJob, Job
    <3> QED
      BY <2>1, <3>1, <3>4 DEF ClaimJob, TypeOK
  <2>2. CASE ClaimSkipped(r)
    BY <2>2, <2>m DEF ClaimSkipped, TypeOK, RowTypeOK
  <2>3. CASE SkipStage(r)
    <3>1. RowTypeOK'
      BY <2>3, <1>a, <2>0, <2>r, RowUpdate DEF SkipStage, Job
    <3> QED
      BY <2>3, <2>m, <3>1 DEF SkipStage, TypeOK
  <2>4. CASE EnterStage(r)
    <3>1. RowTypeOK'
      BY <2>4, <1>a, <2>0, <2>r, RowUpdate DEF EnterStage, Job
    <3> QED
      BY <2>4, <2>m, <2>x, <3>1 DEF EnterStage, TypeOK
  <2>5. CASE PersistStageStart(r)
    <3>1. [w EXCEPT !.stage = p.idx, !.last = p.done,
                    !.progress = p.idx - 1, !.age = 0] \in JobRow
      BY <2>0, RowWrites
    <3>2. RowTypeOK'
      BY <2>5, <1>a, <2>0, <3>1, RowUpdate DEF PersistStageStart, Job
    <3> QED
      BY <2>5, <2>m, <2>x, <3>2 DEF PersistStageStart, TypeOK
  <2>6. CASE StageReturns(r)
    BY <2>6, <2>m, <2>x DEF StageReturns, TypeOK, RowTypeOK
  <2>7. CASE PersistArtifacts(r)
    BY <2>7, <2>0, <2>m, <2>x DEF PersistArtifacts, TypeOK, RowTypeOK, Job
  <2>8. CASE PersistState(r)
    <3>1. RowTypeOK'
      BY <2>8, <1>a, <2>0, RowWrites, RowUpdate DEF PersistState, Job
    <3>2. /\ [p EXCEPT !.pc = "beat", !.done = p.idx] \in ProcState
          /\ [p EXCEPT !.pc = "beat", !.done = p.idx].job = j
      BY <2>0, Values, ProcWrites DEF ProcState
    <3>3. ProcTypeOK'
      BY <2>8, <1>a, <2>0, <3>2, ProcUpdate DEF PersistState
    <3> QED
      BY <2>8, <3>1, <3>3 DEF PersistState, TypeOK
  <2>9. CASE RefreshLease(r)
    <3>1. RowTypeOK'
      BY <2>9, <1>a, <2>0, <2>r, RowUpdate DEF RefreshLease, Job
    <3> QED
      BY <2>9, <2>m, <3>1 DEF RefreshLease, TypeOK
  <2>10. CASE PersistDone(r)
    <3>1. RowTypeOK'
      BY <2>10, <1>a, <2>0, RowWrites, RowUpdate DEF PersistDone, Job
    <3> QED
      BY <2>10, <2>m, <2>x, <3>1 DEF PersistDone, TypeOK
  <2>11. CASE SetStatusDone(r)
    <3>1. RowTypeOK'
      BY <2>11, <1>a, <2>0, RowWrites, RowUpdate DEF SetStatusDone, Job
    <3> QED
      BY <2>11, <2>m, <3>1 DEF SetStatusDone, TypeOK
  <2>12. CASE Fails(r)
    BY <2>12, <2>m, <2>x DEF Fails, TypeOK, RowTypeOK
  <2>13. CASE RecordError(r)
    <3>1. RowTypeOK'
      BY <2>13, <1>a, <2>0, RowWrites, RowUpdate DEF RecordError, Job
    <3> QED
      BY <2>13, <2>m, <3>1 DEF RecordError, TypeOK
  <2>14. CASE Cancel(r)
    BY <2>14, <2>m, <2>x DEF Cancel, TypeOK, RowTypeOK
  <2>15. CASE ReleaseJob(r)
    <3>1. [w EXCEPT !.status = "queued", !.runner = NoRunner,
                    !.age = NoHeartbeat] \in JobRow
      BY <2>0, RowWrites
    <3>2. RowTypeOK'
      BY <2>15, <1>a, <2>0, <3>1, RowUpdate DEF ReleaseJob, Job
    <3> QED
      BY <2>15, <2>m, <3>2 DEF ReleaseJob, TypeOK
  <2> QED
    BY <1>3, <2>1, <2>2, <2>3, <2>4, <2>5, <2>6, <2>7, <2>8, <2>9, <2>10,
       <2>11, <2>12, <2>13, <2>14, <2>15 DEF Run
<1>7. ASSUME NEW r \in Runners, EndsUnclaimed(r) PROVE TypeOK'
  <2>1. ProcTypeOK'
    BY <1>7, <1>a, ProcMoves DEF EndsUnclaimed, At
  <2> QED
    BY <1>7, <2>1 DEF EndsUnclaimed, TypeOK, RowTypeOK
<1>4. ASSUME NEW r \in Runners, Crash(r) PROVE TypeOK'
  <2>1. ProcTypeOK'
    BY <1>4, <1>a, ProcMoves DEF Crash, At
  <2>2. crashes + 1 \in 0..MaxCrashes
    BY <1>4 DEF Crash, TypeOK
  <2> QED
    BY <1>4, <2>1, <2>2 DEF Crash, TypeOK, RowTypeOK
<1>5. CASE Tick
  <2>1. ASSUME NEW j \in Jobs
        PROVE  [row[j] EXCEPT !.age = IF @ = NoHeartbeat THEN @ ELSE @ + 1]
                 \in JobRow
    <3>1. (IF row[j].age = NoHeartbeat THEN row[j].age ELSE row[j].age + 1)
            \in 0..NoHeartbeat
      BY <1>a DEF RowTypeOK, JobRow, NoHeartbeat
    <3> QED
      BY <1>a, <3>1, RowColumns DEF RowTypeOK
  <2>2. RowTypeOK'
    BY <1>5, <2>1 DEF Tick, RowTypeOK
  <2>3. ASSUME NEW r \in Runners
        PROVE  /\ proc'[r] \in ProcState
               /\ proc'[r].pc = proc[r].pc
               /\ proc'[r].job = proc[r].job
    <3>1. proc[r] \in ProcState
      BY <1>a DEF ProcTypeOK
    <3>2. CASE proc[r].pc \in Executing
      <4>1. proc[r].gap + 1 \in 0..MaxGap
        BY <1>5, <3>1, <3>2 DEF Tick, ProcState
      <4>2. proc'[r] = [proc[r] EXCEPT !.gap = proc[r].gap + 1]
        BY <1>5, <3>2 DEF Tick
      <4> QED
        BY <3>1, <4>1, <4>2, ProcLocals DEF ProcState
    <3>3. CASE proc[r].pc \notin Executing
      BY <1>5, <3>1, <3>3 DEF Tick
    <3> QED
      BY <3>2, <3>3
  <2>4. DOMAIN proc' = Runners /\ proc' = [r \in Runners |-> proc'[r]]
    BY <1>5 DEF Tick
  <2>5. ProcTypeOK'
    BY <1>a, <2>3, <2>4 DEF ProcTypeOK
  <2> QED
    BY <1>5, <2>2, <2>5 DEF Tick, TypeOK
<1>6. CASE UNCHANGED vars
  BY <1>6 DEF vars, TypeOK, RowTypeOK, ProcTypeOK
<1> QED
  BY <1>1, <1>2, <1>3, <1>4, <1>5, <1>6, <1>7 DEF Next

\* Every variable keeps its type, for every value of the constants.
THEOREM TypeCorrect == Spec => []TypeOK
  BY TypeInit, TypeStep, PTL DEF Spec

-----------------------------------------------------------------------------
(***************************************************************************)
(* The lease.  LeaseHeld is inductive once a live runner is never silent   *)
(* for longer than its lease lasts: whoever executes a job owns its row,   *)
(* with a heartbeat no older than its own silence, so the row is not       *)
(* claimable and the next claim has to wait for the runner to go.          *)
(***************************************************************************)
Covered(r) == /\ Owns(r, row[Job(r)])
              /\ row[Job(r)].age <= proc[r].gap

\* Whoever holds the lease alone is the only one executing its job.
LEMMA HolderIsAlone ==
  ASSUME LeaseHeld, NEW r \in Runners, NEW q \in Runners,
         proc[r].pc \in Executing, proc[q].pc \in Executing,
         proc[q].job = proc[r].job
  PROVE  q = r
  BY DEF LeaseHeld, Owns, Job

\* A step of r that writes no row but that of its job, and no locals but its
\* own, leaves every other runner covered.
LEMMA OthersCovered ==
  ASSUME TypeOK, LeaseHeld, NEW r \in Runners, proc[r].job \in Jobs,
         \A q \in Runners : proc[q].pc \in Executing
                            /\ proc[q].job = proc[r].job => q = r,
         \/ row' = row
         \/ \E w \in JobRow : row' = [row EXCEPT ![proc[r].job] = w],
         \E x \in ProcState : proc' = [proc EXCEPT ![r] = x],
         proc'[r].pc \in Executing => Covered(r)'
  PROVE  LeaseHeld'
<1> SUFFICES ASSUME NEW q \in Runners, proc'[q].pc \in Executing
             PROVE  Covered(q)'
  BY DEF LeaseHeld, Covered
<1>1. CASE q = r
  BY <1>1
<1>2. CASE q # r
  <2>1. proc'[q] = proc[q]
    BY <1>2 DEF TypeOK, ProcTypeOK
  <2>2. proc[q].job # proc[r].job /\ proc[q].job \in Jobs
    BY <1>2, <2>1 DEF TypeOK, ProcTypeOK, Executing, InTry
  <2>3. row'[proc[q].job] = row[proc[q].job]
    BY <2>2 DEF TypeOK, RowTypeOK
  <2> QED
    BY <2>1, <2>3 DEF LeaseHeld, Covered, Job
<1> QED
  BY <1>1, <1>2

\* Nobody executes anything before the first job is claimed.
LEMMA LeaseInit == Init => LeaseHeld
  BY DEF Init, LeaseHeld, NoProcess, Executing, InTry

\* A step keeps every lease with whoever executes its job: a claim takes only
\* a free or stale one, a beat renews its own, and time stops at MaxGap.
LEMMA LeaseStep ==
  ASSUME MaxGap <= StaleAfter
  PROVE  TypeOK /\ LeaseHeld /\ [Next]_vars => LeaseHeld'
<1> SUFFICES ASSUME TypeOK, LeaseHeld, [Next]_vars PROVE LeaseHeld'
  OBVIOUS
<1>t. TypeOK'
  BY TypeStep
<1>a. /\ \A j \in Jobs : row[j] \in JobRow
      /\ \A r \in Runners : proc[r] \in ProcState
  BY DEF TypeOK, RowTypeOK, ProcTypeOK
<1>1. ASSUME NEW j \in Jobs, Submit(j) PROVE LeaseHeld'
  BY <1>1 DEF Submit, LeaseHeld, Owns, Job, TypeOK, RowTypeOK
<1>2. ASSUME NEW r \in Runners, NEW j \in Jobs, Spawn(r, j) PROVE LeaseHeld'
  <2>1. proc'[r].pc = "claim"
    BY <1>2, <1>a DEF Spawn, TypeOK, ProcTypeOK, ProcState
  <2>2. \A q \in Runners \ {r} : proc'[q] = proc[q]
    BY <1>2 DEF Spawn, TypeOK, ProcTypeOK
  <2> QED
    BY <1>2, <2>1, <2>2 DEF Spawn, LeaseHeld, Job, Executing, InTry
<1>3. ASSUME NEW r \in Runners, Run(r) PROVE LeaseHeld'
  <2> DEFINE j == proc[r].job
             w == row[j]
             p == proc[r]
  <2>0. /\ p.pc # "idle" /\ j \in Jobs /\ w \in JobRow /\ p \in ProcState
    BY <1>3, <1>a DEF TypeOK, ProcTypeOK, Run, ClaimJob,
      ClaimSkipped, SkipStage, EnterStage, PersistStageStart, StageReturns,
      PersistArtifacts, PersistState, RefreshLease, PersistDone,
      SetStatusDone, Fails, RecordError, Cancel, ReleaseJob, InTry, At
  <2>r. row'[j] \in JobRow /\ proc'[r] \in ProcState
    BY <1>t, <2>0 DEF TypeOK, RowTypeOK, ProcTypeOK
  <2>p. \E x \in ProcState : proc' = [proc EXCEPT ![r] = x]
    <3>1. proc' = [proc EXCEPT ![r] = proc'[r]]
      BY <1>3, <1>a DEF TypeOK, ProcTypeOK, Run, ClaimJob,
        ClaimSkipped, SkipStage, EnterStage, PersistStageStart, StageReturns,
        PersistArtifacts, PersistState, RefreshLease, PersistDone,
        SetStatusDone, Fails, RecordError, Cancel, ReleaseJob, At,
        GoTo, Beat, Exit, NextStage
    <3> QED
      BY <3>1, <2>r
  <2>w. \/ row' = row
        \/ \E x \in JobRow : row' = [row EXCEPT ![j] = x]
    <3>1. row' = row \/ row' = [row EXCEPT ![j] = row'[j]]
      BY <1>3, <1>a, <2>0 DEF TypeOK, RowTypeOK, Run, ClaimJob,
        ClaimSkipped, SkipStage, EnterStage, PersistStageStart, StageReturns,
        PersistArtifacts, PersistState, RefreshLease, PersistDone,
        SetStatusDone, Fails, RecordError, Cancel, ReleaseJob, Job
    <3> QED
      BY <3>1, <2>r
  <2>1. CASE ClaimJob(r)
    <3>1. ASSUME NEW q \in Runners, proc[q].pc \in Executing,
                 proc[q].job = j
          PROVE  FALSE
      <4>1. Owns(q, w) /\ w.age <= proc[q].gap
        BY <3>1 DEF LeaseHeld, Job
      <4>2. w.age <= MaxGap
        BY <4>1, <3>1, <2>0, <1>a DEF ProcState, JobRow, NoHeartbeat
      <4> QED
        BY <2>1, <2>0, <4>1, <4>2 DEF ClaimJob, Claimable, Owns, Job, JobRow, NoHeartbeat
    <3>2. Covered(r)'
      <4>1. proc'[r].job = j /\ proc'[r].gap = p.gap
        BY <2>1, <2>0 DEF ClaimJob, TypeOK, ProcTypeOK, ProcState
      <4>2. row'[j].runner = r /\ row'[j].status = "running" /\ row'[j].age = 0
        BY <2>1, <2>0 DEF ClaimJob, Job, TypeOK, RowTypeOK, JobRow
      <4> QED
        BY <4>1, <4>2, <2>0 DEF Covered, Owns, Job, ProcState
    <3> QED
      BY <2>0, <2>p, <2>w, <3>1, <3>2, OthersCovered
  <2>2. CASE ClaimSkipped(r)
    <3>1. proc'[r].pc = "idle" /\ \A q \in Runners \ {r} : proc'[q] = proc[q]
      BY <2>2 DEF ClaimSkipped, Exit, NoProcess, TypeOK, ProcTypeOK
    <3> QED
      BY <2>2, <3>1 DEF ClaimSkipped, LeaseHeld, Job, Executing, InTry
  <2>3. CASE ~ClaimJob(r) /\ ~ClaimSkipped(r)
    <3>1. p.pc \in Executing
      BY <1>3, <2>3 DEF Run, SkipStage, EnterStage, PersistStageStart,
        StageReturns, PersistArtifacts, PersistState, RefreshLease,
        PersistDone, SetStatusDone, Fails, RecordError, Cancel, ReleaseJob,
        Executing, InTry, At
    <3>2. \A q \in Runners : proc[q].pc \in Executing /\ proc[q].job = j
                               => q = r
      BY <3>1, HolderIsAlone
    <3>3. w.runner = r /\ w.status = "running" /\ w.age <= p.gap
      BY <3>1 DEF LeaseHeld, Owns, Job
    <3>4. Refreshed(r, w).runner = r /\ Refreshed(r, w).status = "running"
          /\ Refreshed(r, w).age = 0
      BY <3>3, <2>0 DEF Refreshed, Owns, JobRow
    <3>5. proc'[r].pc \in Executing => Covered(r)'
      <4> SUFFICES ASSUME proc'[r].pc \in Executing
                   PROVE  /\ proc'[r].job = j
                          /\ row'[j].runner = r
                          /\ row'[j].status = "running"
                          /\ row'[j].age <= proc'[r].gap
        BY DEF Covered, Owns, Job
      <4>1. CASE SkipStage(r) \/ EnterStage(r) \/ RefreshLease(r)
        <5>1. row'[j] = Refreshed(r, w)
          BY <4>1, <2>0 DEF SkipStage, EnterStage, RefreshLease, Job, TypeOK,
             RowTypeOK
        <5>2. NextStage(r) \/ Beat(r, "start")
          BY <4>1 DEF SkipStage, EnterStage, RefreshLease
        <5>3. proc'[r].job = j /\ proc'[r].gap = 0
          <6>1. CASE NextStage(r)
            BY <6>1, <2>0 DEF NextStage, TypeOK, ProcTypeOK, ProcState
          <6>2. CASE Beat(r, "start")
            BY <6>2, <2>0 DEF Beat, TypeOK, ProcTypeOK, ProcState
          <6> QED
            BY <5>2, <6>1, <6>2
        <5> QED
          BY <5>1, <5>3, <3>4
      <4>2. CASE PersistStageStart(r)
        <5>1. Owns(r, w)
          BY <3>3 DEF Owns
        <5>2. row'[j].runner = r /\ row'[j].status = "running"
              /\ row'[j].age = 0
          BY <4>2, <2>0, <3>3, <5>1 DEF PersistStageStart, Job, TypeOK,
             RowTypeOK, JobRow
        <5>3. proc'[r].job = j /\ proc'[r].gap = 0
          BY <4>2, <2>0 DEF PersistStageStart, Beat, TypeOK, ProcTypeOK,
             ProcState
        <5> QED
          BY <5>2, <5>3
      <4>3. CASE StageReturns(r) \/ PersistArtifacts(r) \/ Fails(r)
                 \/ Cancel(r)
        BY <4>3, <2>0, <3>3 DEF StageReturns, PersistArtifacts, Fails,
           Cancel, GoTo, TypeOK, ProcTypeOK, ProcState
      <4>4. CASE PersistState(r)
        <5>1. row'[j].runner = r /\ row'[j].status = "running"
              /\ row'[j].age = w.age
          BY <4>4, <2>0, <3>3 DEF PersistState, Job, TypeOK, RowTypeOK, JobRow
        <5>2. proc'[r].job = j /\ proc'[r].gap = p.gap
          BY <4>4, <2>0 DEF PersistState, TypeOK, ProcTypeOK, ProcState
        <5> QED
          BY <5>1, <5>2, <3>3
      <4>6. CASE PersistDone(r)
        <5>1. row'[j].runner = r /\ row'[j].status = "running"
              /\ row'[j].age = w.age
          BY <4>6, <2>0, <3>3 DEF PersistDone, Job, TypeOK, RowTypeOK, JobRow
        <5>2. proc'[r].job = j /\ proc'[r].gap = p.gap
          BY <4>6, <2>0 DEF PersistDone, GoTo, TypeOK, ProcTypeOK, ProcState
        <5> QED
          BY <5>1, <5>2, <3>3
      <4>5. CASE SetStatusDone(r) \/ RecordError(r) \/ ReleaseJob(r)
        <5>1. proc'[r].pc = "idle"
          BY <4>5 DEF SetStatusDone, RecordError, ReleaseJob, Exit,
             NoProcess, TypeOK, ProcTypeOK
        <5> QED
          BY <5>1 DEF Executing, InTry
      <4> QED
        BY <1>3, <2>3, <4>1, <4>2, <4>3, <4>4, <4>5, <4>6 DEF Run
    <3> QED
      BY <2>0, <2>p, <2>w, <3>2, <3>5, OthersCovered
  <2> QED
    BY <2>1, <2>2, <2>3
<1>4. ASSUME NEW r \in Runners, EndsUnclaimed(r) \/ Crash(r)
      PROVE  LeaseHeld'
  <2>1. proc'[r].pc = "idle" /\ \A q \in Runners \ {r} : proc'[q] = proc[q]
    BY <1>4 DEF EndsUnclaimed, Crash, Exit, NoProcess, TypeOK, ProcTypeOK
  <2> QED
    BY <1>4, <2>1 DEF EndsUnclaimed, Crash, LeaseHeld, Job, Executing, InTry
<1>5. CASE Tick
  <2> SUFFICES ASSUME NEW q \in Runners, proc'[q].pc \in Executing
               PROVE  Covered(q)'
    BY DEF LeaseHeld, Covered
  <2>1. /\ proc[q].pc \in Executing
        /\ proc'[q].job = proc[q].job
        /\ proc'[q].gap = proc[q].gap + 1
    BY <1>5, <1>a DEF Tick, ProcState
  <2>2. proc[q].job \in Jobs
    BY <2>1 DEF TypeOK, ProcTypeOK, Executing, InTry
  <2>3. /\ row'[proc[q].job].runner = row[proc[q].job].runner
        /\ row'[proc[q].job].status = row[proc[q].job].status
        /\ row'[proc[q].job].age <= row[proc[q].job].age + 1
    BY <1>5, <1>a, <2>2 DEF Tick, JobRow, NoHeartbeat
  <2>4. Owns(q, row[proc[q].job]) /\ row[proc[q].job].age <= proc[q].gap
    BY <2>1 DEF LeaseHeld, Job
  <2> QED
    BY <1>a, <1>t, <2>1, <2>2, <2>3, <2>4 DEF Covered, Owns, Job, JobRow,
       ProcState, TypeOK, RowTypeOK, NoHeartbeat
<1>6. CASE UNCHANGED vars
  BY <1>6 DEF vars, LeaseHeld, Owns, Job
<1> QED
  BY <1>1, <1>2, <1>3, <1>4, <1>5, <1>6 DEF Next

\* While live runners write their heartbeats in time, a runner that executes
\* a job holds its lease.
THEOREM LeaseKept ==
  ASSUME MaxGap <= StaleAfter
  PROVE  Spec => []LeaseHeld
<1>1. Init => TypeOK /\ LeaseHeld
  BY TypeInit, LeaseInit
<1>2. TypeOK /\ LeaseHeld /\ [Next]_vars => (TypeOK /\ LeaseHeld)'
  BY TypeStep, LeaseStep
<1> QED
  BY <1>1, <1>2, PTL DEF Spec

\* Mutual exclusion: no two runners ever execute one job.
THEOREM Exclusive ==
  ASSUME MaxGap <= StaleAfter
  PROVE  Spec => []ExclusiveExecution
<1>1. LeaseHeld => ExclusiveExecution
  BY DEF LeaseHeld, ExclusiveExecution, Owns, Job
<1> QED
  BY <1>1, LeaseKept, PTL

-----------------------------------------------------------------------------
\* While leases are kept, an outcome once recorded stays.
LEMMA FinalStep ==
  TypeOK /\ LeaseHeld /\ [Next]_vars
    => \A j \in Jobs : row[j].status \in {"done", "error"}
                         => row'[j].status = row[j].status
<1> SUFFICES ASSUME TypeOK, LeaseHeld, [Next]_vars,
                    NEW j \in Jobs, row[j].status \in {"done", "error"}
             PROVE  row'[j].status = row[j].status
  OBVIOUS
<1>1. CASE \E k \in Jobs : Submit(k)
  BY <1>1 DEF Submit, TypeOK, RowTypeOK
<1>2. ASSUME NEW r \in Runners, Run(r) PROVE row'[j].status = row[j].status
  <2>1. CASE proc[r].job = j
    <3>1. proc[r].pc \notin Executing
      BY <2>1 DEF LeaseHeld, Owns, Job
    <3>2. ~ClaimJob(r)
      BY <2>1 DEF ClaimJob, Claimable, Job
    <3>3. ClaimSkipped(r)
      BY <1>2, <3>1, <3>2 DEF Run, SkipStage, EnterStage, PersistStageStart,
        StageReturns, PersistArtifacts, PersistState, RefreshLease,
        PersistDone, SetStatusDone, Fails, RecordError, Cancel, ReleaseJob,
        Executing, InTry, At
    <3> QED
      BY <3>3 DEF ClaimSkipped
  <2>2. CASE proc[r].job # j
    BY <1>2, <2>2 DEF TypeOK, RowTypeOK, Run, ClaimJob, ClaimSkipped,
      SkipStage, EnterStage, PersistStageStart, StageReturns,
      PersistArtifacts, PersistState, RefreshLease, PersistDone,
      SetStatusDone, Fails, RecordError, Cancel, ReleaseJob, Job
  <2> QED
    BY <2>1, <2>2
<1>3. CASE Tick
  BY <1>3 DEF Tick, TypeOK, RowTypeOK, JobRow
<1>4. CASE UNCHANGED row
  BY <1>4
<1> QED
  BY <1>1, <1>2, <1>3, <1>4 DEF Next, vars, Spawn, EndsUnclaimed, Crash

\* docs/architecture.md, "Job lifecycle": under leases that are kept, done and
\* error are final, although the writes that record them are unguarded.
THEOREM OutcomesFinal ==
  ASSUME MaxGap <= StaleAfter
  PROVE  Spec => OutcomeIsFinal
<1>1. Spec => []TypeOK
  BY TypeCorrect
<1>2. Spec => []LeaseHeld
  BY LeaseKept
<1> QED
  BY <1>1, <1>2, FinalStep, PTL DEF Spec, OutcomeIsFinal

-----------------------------------------------------------------------------
(***************************************************************************)
(* Checkpoints.  These need no assumption on time: they hold even when a   *)
(* lease lapses and two runners work on one job, because tables are only   *)
(* added to and a runner claims no stage before it, or the runner it       *)
(* resumed from, has stored it.                                            *)
(***************************************************************************)
RowSound(j) == /\ Stored(j, row[j].last)
               /\ row[j].status = "done" => Stored(j, NStages)
               /\ row[j].last = Unset => row[j].stage = QueuedStage

ProcSound(r) ==
  /\ proc[r].pc \notin Executing => proc[r].idx = 1
  /\ proc[r].pc \in Executing =>
       /\ Stored(Job(r), proc[r].done)
       /\ Stored(Job(r), proc[r].idx - 1)
       /\ proc[r].pc \in {"save", "beat"} => Stored(Job(r), proc[r].idx)
       /\ proc[r].pc \in {"finish", "close"} => Stored(Job(r), NStages)

\* CheckpointInv speaks of each row and of each runner by itself.
LEMMA CheckpointParts ==
  CheckpointInv <=> /\ \A j \in Jobs : RowSound(j)
                    /\ \A r \in Runners : ProcSound(r)
  BY DEF CheckpointInv, CheckpointDurable, DoneHasArtifacts, RowSound,
         ProcSound

\* A step of r: the rest is as sound as it was.
LEMMA CheckpointUpdate ==
  ASSUME TypeOK, TypeOK', CheckpointInv, NEW r \in Runners,
         NEW j \in Jobs,
         \A k \in Jobs : artifacts[k] \subseteq artifacts'[k],
         \A k \in Jobs : k # j => row'[k] = row[k],
         \A q \in Runners : q # r => proc'[q] = proc[q],
         RowSound(j)', ProcSound(r)'
  PROVE  CheckpointInv'
<1>2. ASSUME NEW k \in Jobs PROVE RowSound(k)'
  <2>1. CASE k = j
    BY <2>1
  <2>2. CASE k # j
    BY <2>2, CheckpointParts DEF RowSound, Stored
  <2> QED
    BY <2>1, <2>2
<1>3. ASSUME NEW q \in Runners PROVE ProcSound(q)'
  <2>1. CASE q = r
    BY <2>1
  <2>2. CASE q # r
    <3>1. proc'[q] = proc[q] /\ ProcSound(q)
      BY <2>2, CheckpointParts
    <3>2. proc[q].pc \in Executing => proc[q].job \in Jobs
      BY DEF TypeOK, ProcTypeOK, Executing, InTry
    <3>3. ASSUME proc[q].pc \in Executing, NEW n,
                 \A s \in Stages : s <= n => s \in artifacts[proc[q].job]
          PROVE  \A s \in Stages : s <= n => s \in artifacts'[proc[q].job]
      BY <3>2, <3>3
    <3> QED
      BY <3>1, <3>3 DEF ProcSound, Job, Stored
  <2> QED
    BY <2>1, <2>2
<1> QED
  BY <1>2, <1>3 DEF CheckpointInv, CheckpointDurable, DoneHasArtifacts,
     RowSound, ProcSound

\* No row has a checkpoint before its job has run.
LEMMA CheckpointInit == Init => CheckpointInv
  BY DEF Init, CheckpointInv, CheckpointDurable, DoneHasArtifacts, Stored,
         NewRow, NoProcess, Executing, InTry, Stages, Unset, QueuedStage

\* A step moves no checkpoint ahead of the stored results: results are stored
\* first, and a resumed runner starts behind what the checkpoint names.
LEMMA CheckpointStep == TypeOK /\ CheckpointInv /\ [Next]_vars => CheckpointInv'
<1> SUFFICES ASSUME TypeOK, CheckpointInv, [Next]_vars
             PROVE  CheckpointInv'
  OBVIOUS
<1>t. TypeOK'
  BY TypeStep
<1>a. /\ \A j \in Jobs : row[j] \in JobRow /\ RowSound(j)
      /\ \A r \in Runners : proc[r] \in ProcState /\ ProcSound(r)
  BY CheckpointParts DEF TypeOK, RowTypeOK, ProcTypeOK
<1>1. ASSUME NEW j \in Jobs, Submit(j) PROVE CheckpointInv'
  <2>1. \A k \in Jobs : RowSound(k)'
    BY <1>1, <1>a DEF Submit, NewRow, RowSound, Stored, TypeOK, RowTypeOK,
       Stages, Unset, QueuedStage
  <2> QED
    BY <1>1, <1>a, <2>1 DEF Submit, CheckpointInv, CheckpointDurable,
       DoneHasArtifacts, RowSound, ProcSound, Stored, Job
<1>2. ASSUME NEW r \in Runners, NEW j \in Jobs, Spawn(r, j)
      PROVE  CheckpointInv'
  <2>1. /\ proc'[r].pc = "claim"
        /\ proc'[r].idx = proc[r].idx
        /\ proc[r].pc \notin Executing
    BY <1>2, <1>a DEF Spawn, TypeOK, ProcTypeOK, ProcState, Executing, InTry
  <2>2. ProcSound(r)'
    BY <1>a, <2>1 DEF ProcSound, Executing, InTry
  <2>3. \A k \in Jobs : RowSound(k)'
    BY <1>2, <1>a DEF Spawn, RowSound, Stored
  <2> QED
    BY <1>2, <1>t, <2>2, <2>3, CheckpointUpdate
       DEF Spawn, TypeOK, ProcTypeOK
<1>3. ASSUME NEW r \in Runners, Run(r) PROVE CheckpointInv'
  <2> DEFINE p == proc[r]
  <2>j. proc[r].job \in Jobs
    BY <1>3 DEF TypeOK, ProcTypeOK, Run, ClaimJob,
      ClaimSkipped, SkipStage, EnterStage, PersistStageStart, StageReturns,
      PersistArtifacts, PersistState, RefreshLease, PersistDone,
      SetStatusDone, Fails, RecordError, Cancel, ReleaseJob, InTry, At
  <2> PICK j \in Jobs : j = proc[r].job
    BY <2>j
  <2> DEFINE w == row[j]
  <2>0. /\ p.pc # "idle" /\ j \in Jobs /\ w \in JobRow /\ p \in ProcState
        /\ p.idx \in Stages /\ RowSound(j) /\ ProcSound(r)
    BY <1>3, <1>a DEF TypeOK, ProcTypeOK, ProcState, Run, ClaimJob,
      ClaimSkipped, SkipStage, EnterStage, PersistStageStart, StageReturns,
      PersistArtifacts, PersistState, RefreshLease, PersistDone,
      SetStatusDone, Fails, RecordError, Cancel, ReleaseJob, InTry, At
  <2>a. \A k \in Jobs : artifacts[k] \subseteq artifacts'[k]
    BY <1>3, <2>0 DEF TypeOK, Run, ClaimJob, ClaimSkipped,
      SkipStage, EnterStage, PersistStageStart, StageReturns,
      PersistArtifacts, PersistState, RefreshLease, PersistDone,
      SetStatusDone, Fails, RecordError, Cancel, ReleaseJob, Job
  <2>b. \A k \in Jobs : k # j => row'[k] = row[k]
    BY <1>3 DEF TypeOK, RowTypeOK, Run, ClaimJob, ClaimSkipped,
      SkipStage, EnterStage, PersistStageStart, StageReturns,
      PersistArtifacts, PersistState, RefreshLease, PersistDone,
      SetStatusDone, Fails, RecordError, Cancel, ReleaseJob, Job
  <2>c. \A q \in Runners : q # r => proc'[q] = proc[q]
    BY <1>3 DEF TypeOK, ProcTypeOK, Run, ClaimJob, ClaimSkipped,
      SkipStage, EnterStage, PersistStageStart, StageReturns,
      PersistArtifacts, PersistState, RefreshLease, PersistDone,
      SetStatusDone, Fails, RecordError, Cancel, ReleaseJob,
      GoTo, Beat, Exit, NextStage
  <2>e. /\ DOMAIN row = Jobs /\ DOMAIN proc = Runners /\ DOMAIN artifacts = Jobs
        /\ artifacts[j] \subseteq Stages
    BY DEF TypeOK, RowTypeOK, ProcTypeOK
  <2>f. /\ Stored(j, w.last)
        /\ w.status = "done" => Stored(j, NStages)
        /\ w.last = Unset => w.stage = QueuedStage
        /\ w.last \in Unset..DoneStage
    BY <2>0 DEF RowSound, JobRow
  <2>g. /\ p.pc \notin Executing => p.idx = 1
        /\ p.pc \in Executing =>
             /\ Stored(j, p.done)
             /\ Stored(j, p.idx - 1)
             /\ p.pc \in {"save", "beat"} => Stored(j, p.idx)
             /\ p.pc \in {"finish", "close"} => Stored(j, NStages)
        /\ p.done \in 0..DoneStage
    BY <2>0 DEF ProcSound, Job, ProcState
  <2>h. Stored(j, 0)
    BY DEF Stored, Stages
  <2>d1. ASSUME ClaimJob(r)
        PROVE  RowSound(j)' /\ ProcSound(r)'
    <3>1. /\ row'[j].last = w.last /\ row'[j].stage = w.stage
          /\ row'[j].status = "running" /\ artifacts' = artifacts
      BY <2>d1, <2>e, <2>0 DEF ClaimJob, Job, JobRow
    <3>2. /\ proc'[r].pc = "loop" /\ proc'[r].job = j
          /\ proc'[r].idx = 1 /\ proc'[r].done = LastCompleted(w)
      BY <2>d1, <2>e, <2>0, <2>g DEF ClaimJob, Job, At, ProcState, Executing,
         InTry
    <3>3. Stored(j, LastCompleted(w))
      BY <2>f, <2>h DEF LastCompleted, QueuedStage
    <3>4. RowSound(j)'
      BY <2>f, <3>1 DEF RowSound, Stored
    <3>5. ProcSound(r)'
      BY <2>h, <3>1, <3>2, <3>3 DEF ProcSound, Stored, Job, Executing, InTry
    <3> QED
      BY <3>4, <3>5
  <2>d2. ASSUME ClaimSkipped(r)
        PROVE  RowSound(j)' /\ ProcSound(r)'
    <3>1. proc'[r] = NoProcess /\ row' = row /\ artifacts' = artifacts
      BY <2>d2, <2>e DEF ClaimSkipped, Exit
    <3> QED
      BY <2>f, <3>1 DEF RowSound, ProcSound, Stored, NoProcess, Executing,
         InTry
  <2>d3. ASSUME SkipStage(r) \/ RefreshLease(r)
        PROVE  RowSound(j)' /\ ProcSound(r)'
    <3>1. /\ row'[j].last = w.last /\ row'[j].stage = w.stage
          /\ row'[j].status = w.status /\ artifacts' = artifacts
      BY <2>d3, <2>e, <2>0 DEF SkipStage, RefreshLease, Refreshed, Job, JobRow
    <3>2. Stored(j, p.idx)
      <4>1. CASE SkipStage(r)
        BY <4>1, <2>0, <2>g DEF SkipStage, StageIndex, At, Executing, InTry,
           Stored, Stages
      <4>2. CASE RefreshLease(r)
        BY <4>2, <2>0, <2>g DEF RefreshLease, At, Executing, InTry
      <4> QED
        BY <2>d3, <4>1, <4>2
    <3>3. p.pc \in Executing /\ NextStage(r)
      BY <2>d3 DEF SkipStage, RefreshLease, At, Executing, InTry
    <3>4. RowSound(j)'
      BY <2>f, <3>1 DEF RowSound, Stored
    <3>5. ProcSound(r)'
      <4>1. CASE p.idx = NStages
        <5>1. /\ proc'[r].pc = "finish" /\ proc'[r].job = j
              /\ proc'[r].idx = p.idx /\ proc'[r].done = p.done
          BY <4>1, <2>0, <2>e, <3>3 DEF NextStage, ProcState
        <5> QED
          BY <4>1, <5>1, <3>1, <3>2, <3>3, <2>g
             DEF ProcSound, Stored, Job, Executing, InTry
      <4>2. CASE p.idx # NStages
        <5>1. /\ proc'[r].pc = "loop" /\ proc'[r].job = j
              /\ proc'[r].idx = p.idx + 1 /\ proc'[r].done = p.done
          BY <4>2, <2>0, <2>e, <3>3 DEF NextStage, ProcState
        <5>2. proc'[r].idx - 1 = p.idx
          BY <5>1, <2>0 DEF Stages
        <5> QED
          BY <5>1, <5>2, <3>1, <3>2, <3>3, <2>g
             DEF ProcSound, Stored, Job, Executing, InTry
      <4> QED
        BY <4>1, <4>2
    <3> QED
      BY <3>4, <3>5
  <2>d4. ASSUME EnterStage(r) \/ PersistStageStart(r)
        PROVE  RowSound(j)' /\ ProcSound(r)'
    <3>1. /\ row'[j].status = w.status /\ artifacts' = artifacts
          /\ \/ row'[j].last = w.last /\ row'[j].stage = w.stage
             \/ row'[j].last = p.done
      <4>1. CASE EnterStage(r)
        BY <4>1, <2>e, <2>0 DEF EnterStage, Refreshed, Job, JobRow
      <4>2. CASE PersistStageStart(r)
        <5>1. CASE Owns(r, w)
          BY <4>2, <5>1, <2>e, <2>0 DEF PersistStageStart, Job, JobRow
        <5>2. CASE ~Owns(r, w)
          BY <4>2, <5>2, <2>e, <2>0 DEF PersistStageStart, Job
        <5> QED
          BY <5>1, <5>2
      <4> QED
        BY <2>d4, <4>1, <4>2
    <3>2. /\ proc'[r].pc \in {"start", "stage"} /\ proc'[r].job = j
          /\ proc'[r].idx = p.idx /\ proc'[r].done = p.done
          /\ p.pc \in Executing
      <4>1. CASE EnterStage(r)
        BY <4>1, <2>e, <2>0 DEF EnterStage, Beat, ProcState, At, Executing,
           InTry
      <4>2. CASE PersistStageStart(r)
        BY <4>2, <2>e, <2>0 DEF PersistStageStart, Beat, ProcState, At,
           Executing, InTry
      <4> QED
        BY <2>d4, <4>1, <4>2
    <3>3. RowSound(j)'
      BY <2>f, <2>g, <3>1, <3>2 DEF RowSound, Stored, Unset
    <3>4. ProcSound(r)'
      BY <2>g, <3>1, <3>2 DEF ProcSound, Stored, Job, Executing, InTry
    <3> QED
      BY <3>3, <3>4
  <2>d5. ASSUME StageReturns(r) \/ Fails(r) \/ Cancel(r)
        PROVE  RowSound(j)' /\ ProcSound(r)'
    <3>1. /\ proc'[r].pc \in {"write", "error", "release"}
          /\ proc'[r].job = j /\ proc'[r].idx = p.idx
          /\ proc'[r].done = p.done /\ p.pc \in Executing
          /\ row' = row /\ artifacts' = artifacts
      BY <2>d5, <2>e, <2>0 DEF StageReturns, Fails, Cancel, GoTo, ProcState,
         At, Executing, InTry
    <3> QED
      BY <2>f, <2>g, <3>1 DEF RowSound, ProcSound, Stored, Job, Executing,
         InTry
  <2>d6. ASSUME PersistArtifacts(r)
        PROVE  RowSound(j)' /\ ProcSound(r)'
    <3>1. /\ proc'[r].pc = "save" /\ proc'[r].job = j
          /\ proc'[r].idx = p.idx /\ proc'[r].done = p.done
          /\ p.pc \in Executing /\ row' = row
          /\ artifacts'[j] = artifacts[j] \cup {p.idx}
      BY <2>d6, <2>e, <2>0 DEF PersistArtifacts, GoTo, ProcState, Job, At,
         Executing, InTry
    <3>2. Stored(j, p.idx)'
      BY <2>0, <2>g, <3>1 DEF Stored, Stages
    <3>3. RowSound(j)'
      BY <2>f, <3>1 DEF RowSound, Stored
    <3>4. ProcSound(r)'
      BY <2>g, <3>1, <3>2 DEF ProcSound, Stored, Job, Executing, InTry
    <3> QED
      BY <3>3, <3>4
  <2>d7. ASSUME PersistState(r)
        PROVE  RowSound(j)' /\ ProcSound(r)'
    <3>1. /\ row'[j].last = p.idx /\ row'[j].status = w.status
          /\ artifacts' = artifacts
      BY <2>d7, <2>e, <2>0 DEF PersistState, Job, JobRow
    <3>2. /\ proc'[r].pc = "beat" /\ proc'[r].job = j
          /\ proc'[r].idx = p.idx /\ proc'[r].done = p.idx
          /\ p.pc = "save" /\ p.pc \in Executing
      BY <2>d7, <2>e, <2>0 DEF PersistState, ProcState, At, Executing, InTry
    <3>3. RowSound(j)'
      BY <2>0, <2>f, <2>g, <3>1, <3>2 DEF RowSound, Stored, Unset, Stages
    <3>4. ProcSound(r)'
      BY <2>g, <3>1, <3>2 DEF ProcSound, Stored, Job, Executing, InTry
    <3> QED
      BY <3>3, <3>4
  <2>d8. ASSUME PersistDone(r)
        PROVE  RowSound(j)' /\ ProcSound(r)'
    <3>1. /\ row'[j].last = DoneStage /\ row'[j].status = w.status
          /\ artifacts' = artifacts
      BY <2>d8, <2>e, <2>0 DEF PersistDone, Job, JobRow
    <3>2. /\ proc'[r].pc = "close" /\ proc'[r].job = j
          /\ proc'[r].idx = p.idx /\ proc'[r].done = p.done
          /\ p.pc = "finish" /\ p.pc \in Executing
      BY <2>d8, <2>e, <2>0 DEF PersistDone, GoTo, ProcState, At, Executing,
         InTry
    <3>3. RowSound(j)'
      BY <2>f, <2>g, <3>1, <3>2 DEF RowSound, Stored, Unset, Stages, DoneStage
    <3>4. ProcSound(r)'
      BY <2>g, <3>1, <3>2 DEF ProcSound, Stored, Job, Executing, InTry
    <3> QED
      BY <3>3, <3>4
  <2>d9. ASSUME SetStatusDone(r) \/ RecordError(r) \/ ReleaseJob(r)
        PROVE  RowSound(j)' /\ ProcSound(r)'
    <3>1. /\ row'[j].last = w.last /\ row'[j].stage = w.stage
          /\ \/ row'[j].status \in {"queued", "error", w.status}
             \/ row'[j].status = "done" /\ p.pc = "close"
          /\ artifacts' = artifacts
      <4>1. CASE SetStatusDone(r)
        BY <4>1, <2>e, <2>0 DEF SetStatusDone, Job, JobRow, At
      <4>2. CASE RecordError(r)
        BY <4>2, <2>e, <2>0 DEF RecordError, Job, JobRow
      <4>3. CASE ReleaseJob(r)
        <5>1. CASE Owns(r, w)
          BY <4>3, <5>1, <2>e, <2>0 DEF ReleaseJob, Job, JobRow
        <5>2. CASE ~Owns(r, w)
          BY <4>3, <5>2, <2>e, <2>0 DEF ReleaseJob, Job
        <5> QED
          BY <5>1, <5>2
      <4> QED
        BY <2>d9, <4>1, <4>2, <4>3
    <3>2. proc'[r] = NoProcess
      BY <2>d9, <2>e DEF SetStatusDone, RecordError, ReleaseJob, Exit
    <3>3. RowSound(j)'
      BY <2>f, <2>g, <3>1 DEF RowSound, Stored, Executing, InTry
    <3>4. ProcSound(r)'
      BY <3>2 DEF ProcSound, NoProcess, Executing, InTry
    <3> QED
      BY <3>3, <3>4
  <2>d. RowSound(j)' /\ ProcSound(r)'
    BY <1>3, <2>d1, <2>d2, <2>d3, <2>d4, <2>d5, <2>d6, <2>d7, <2>d8, <2>d9
       DEF Run
  <2> QED
    BY <1>t, <2>0, <2>a, <2>b, <2>c, <2>d, CheckpointUpdate
<1>4. ASSUME NEW r \in Runners, EndsUnclaimed(r) \/ Crash(r)
      PROVE  CheckpointInv'
  <2>1. proc'[r] = NoProcess /\ \A q \in Runners : q # r => proc'[q] = proc[q]
    BY <1>4 DEF EndsUnclaimed, Crash, Exit, TypeOK, ProcTypeOK
  <2>2. ProcSound(r)'
    BY <2>1 DEF ProcSound, NoProcess, Executing, InTry
  <2>3. \A k \in Jobs : RowSound(k)'
    BY <1>4, <1>a DEF EndsUnclaimed, Crash, RowSound, Stored
  <2>4. proc[r].job \in Jobs
    BY <1>4 DEF EndsUnclaimed, Crash, At, TypeOK, ProcTypeOK
  <2> QED
    BY <1>4, <1>t, <2>1, <2>2, <2>3, <2>4, CheckpointUpdate DEF EndsUnclaimed, Crash
<1>5. CASE Tick
  <2>1. ASSUME NEW k \in Jobs PROVE RowSound(k)'
    <3>1. /\ row'[k].last = row[k].last
          /\ row'[k].status = row[k].status
          /\ row'[k].stage = row[k].stage
      BY <1>5, <1>a DEF Tick, JobRow
    <3> QED
      BY <1>5, <1>a, <3>1 DEF Tick, RowSound, Stored
  <2>2. ASSUME NEW q \in Runners PROVE ProcSound(q)'
    <3>1. /\ proc'[q].pc = proc[q].pc
          /\ proc'[q].job = proc[q].job
          /\ proc'[q].idx = proc[q].idx
          /\ proc'[q].done = proc[q].done
      BY <1>5, <1>a DEF Tick, ProcState
    <3> QED
      BY <1>5, <1>a, <3>1 DEF Tick, ProcSound, Stored, Job
  <2> QED
    BY <2>1, <2>2 DEF CheckpointInv, CheckpointDurable, DoneHasArtifacts,
       RowSound, ProcSound
<1>6. CASE UNCHANGED vars
  BY <1>6 DEF vars, CheckpointInv, CheckpointDurable, DoneHasArtifacts,
     Stored, Job
<1> QED
  BY <1>1, <1>2, <1>3, <1>4, <1>5, <1>6 DEF Next

\* A checkpoint never runs ahead of the tables it vouches for, and no job is
\* called done before every stage has stored its results, whatever the clock
\* does to the leases and wherever runners die.
THEOREM CheckpointsSound == Spec => [](CheckpointDurable /\ DoneHasArtifacts)
<1>1. Init => TypeOK /\ CheckpointInv
  BY TypeInit, CheckpointInit
<1>2. TypeOK /\ CheckpointInv /\ [Next]_vars => (TypeOK /\ CheckpointInv)'
  BY TypeStep, CheckpointStep
<1>3. CheckpointInv => CheckpointDurable /\ DoneHasArtifacts
  BY DEF CheckpointInv
<1> QED
  BY <1>1, <1>2, <1>3, PTL DEF Spec

-----------------------------------------------------------------------------
(***************************************************************************)
(* Where a runner goes on, and what done means.  Both relate what a runner *)
(* has in memory to its row, so they need the lease: nobody else may write *)
(* the row in between.                                                     *)
(***************************************************************************)

\* While q executes a job, a step of another runner leaves q and the checkpoint
\* of its job alone.
LEMMA OthersLeaveCheckpoint ==
  ASSUME TypeOK, LeaseHeld, NEW r \in Runners, NEW q \in Runners, q # r,
         proc[q].pc \in Executing,
         Run(r) \/ EndsUnclaimed(r) \/ Crash(r)
  PROVE  /\ proc'[q] = proc[q]
         /\ row'[proc[q].job].last = row[proc[q].job].last
         /\ row'[proc[q].job].progress = row[proc[q].job].progress
<1>1. proc'[q] = proc[q]
  BY DEF TypeOK, ProcTypeOK, Run, ClaimJob, ClaimSkipped, SkipStage, EnterStage,
     PersistStageStart, StageReturns, PersistArtifacts, PersistState,
     RefreshLease, PersistDone, SetStatusDone, Fails, RecordError, Cancel,
     ReleaseJob, EndsUnclaimed, Crash, GoTo, Beat, Exit, NextStage
<1>2. proc[q].job \in Jobs /\ row[proc[q].job] \in JobRow
  BY DEF TypeOK, ProcTypeOK, RowTypeOK, Executing, InTry
<1>3. CASE proc[r].job # proc[q].job
  BY <1>1, <1>2, <1>3 DEF TypeOK, RowTypeOK, Run, ClaimJob, ClaimSkipped, SkipStage,
     EnterStage, PersistStageStart, StageReturns, PersistArtifacts,
     PersistState, RefreshLease, PersistDone, SetStatusDone, Fails,
     RecordError, Cancel, ReleaseJob, EndsUnclaimed, Crash, Job
<1>4. CASE proc[r].job = proc[q].job
  <2>1. proc[r].pc \notin Executing
    BY <1>4, HolderIsAlone
  <2>2. ClaimJob(r) \/ ClaimSkipped(r) \/ EndsUnclaimed(r) \/ Crash(r)
    BY <2>1 DEF Run, SkipStage, EnterStage, PersistStageStart, StageReturns,
       PersistArtifacts, PersistState, RefreshLease, PersistDone,
       SetStatusDone, Fails, RecordError, Cancel, ReleaseJob, Executing,
       InTry, At
  <2>3. CASE ClaimJob(r)
    BY <1>1, <1>2, <1>4, <2>3 DEF ClaimJob, Job, TypeOK, RowTypeOK, JobRow
  <2>4. CASE row' = row
    BY <1>1, <2>4
  <2> QED
    BY <2>2, <2>3, <2>4 DEF ClaimSkipped, EndsUnclaimed, Crash
<1> QED
  BY <1>3, <1>4

\* Where runner r is in its loop: its stage follows the last one completed, or
\* is the first; and while it runs a stage its row says the same.
Resumes(r) ==
  /\ proc[r].pc \in {"idle", "claim"} => proc[r].idx = 1
  /\ proc[r].pc \in {"loop", "start", "stage", "write", "save"} =>
       IF proc[r].done \in Stages THEN proc[r].idx - 1 <= proc[r].done
                                  ELSE proc[r].idx = 1
  /\ proc[r].pc \in {"start", "stage", "write", "save"} =>
       StageIndex(proc[r].done) < proc[r].idx
  /\ proc[r].pc = "beat" => proc[r].done = proc[r].idx
  /\ proc[r].pc \in {"stage", "write", "save"} =>
       row[proc[r].job].last = proc[r].done

\* When runner r is about to set the status, its row is complete.
Closes(r) ==
  proc[r].pc = "close" => /\ row[proc[r].job].last = DoneStage
                          /\ row[proc[r].job].progress = NStages

\* A done row says done everywhere, and is nobody's.
DoneRow(j) ==
  row[j].status = "done" => /\ row[j].last = DoneStage
                            /\ row[j].progress = NStages
                            /\ row[j].runner = NoRunner

\* What r knows of its job is right at the start: it does not run.
LEMMA ResumeInit == Init => \A r \in Runners : Resumes(r)
  BY DEF Init, Resumes, NoProcess

\* A step of r itself: it enters a stage only behind its checkpoint, writes the
\* stage just completed before it goes on, and restarts from what it claims.
LEMMA ResumeOwnStep ==
  ASSUME TypeOK, LeaseHeld, NEW r \in Runners, Resumes(r), Run(r)
  PROVE  Resumes(r)'
<1> DEFINE p == proc[r]
           w == row[p.job]
<1>0. /\ p \in ProcState /\ p.pc # "idle" /\ p.job \in Jobs /\ w \in JobRow
      /\ p.idx \in Stages /\ p.done \in 0..DoneStage
  BY DEF TypeOK, ProcTypeOK, RowTypeOK, ProcState, Run, ClaimJob,
     ClaimSkipped, SkipStage, EnterStage, PersistStageStart, StageReturns,
     PersistArtifacts, PersistState, RefreshLease, PersistDone,
     SetStatusDone, Fails, RecordError, Cancel, ReleaseJob, InTry, At
<1>e. DOMAIN row = Jobs /\ DOMAIN proc = Runners
  BY DEF TypeOK, RowTypeOK, ProcTypeOK
<1>1. CASE ClaimJob(r)
  <2>1. /\ proc'[r].pc = "loop" /\ proc'[r].idx = 1
    BY <1>0, <1>e, <1>1 DEF ClaimJob, At, ProcState, Resumes
  <2>2. proc'[r].done \in Stages => 1 - 1 <= proc'[r].done
    BY DEF Stages
  <2> QED
    BY <2>1, <2>2 DEF Resumes
<1>2. CASE \/ ClaimSkipped(r) \/ SetStatusDone(r) \/ RecordError(r)
           \/ ReleaseJob(r)
  BY <1>2, <1>e DEF ClaimSkipped, SetStatusDone, RecordError, ReleaseJob,
     Exit, NoProcess, Resumes
<1>3. CASE SkipStage(r) \/ RefreshLease(r)
  <2>1. NextStage(r) /\ p.done \in Stages /\ p.idx <= p.done
    BY <1>0, <1>3 DEF SkipStage, RefreshLease, At, Resumes, StageIndex, Stages
  <2>2. CASE p.idx = NStages
    BY <1>0, <1>e, <2>1, <2>2 DEF NextStage, ProcState, Resumes
  <2>3. CASE p.idx # NStages
    <3>1. /\ proc'[r].pc = "loop" /\ proc'[r].done = p.done
          /\ proc'[r].idx = p.idx + 1
      BY <1>0, <1>e, <2>1, <2>3 DEF NextStage, ProcState
    <3>2. proc'[r].idx - 1 <= proc'[r].done /\ proc'[r].done \in Stages
      BY <1>0, <2>1, <3>1 DEF Stages
    <3> QED
      BY <3>1, <3>2 DEF Resumes
  <2> QED
    BY <2>2, <2>3
<1>4. CASE EnterStage(r)
  <2>1. /\ proc'[r].pc = "start" /\ proc'[r].done = p.done
        /\ proc'[r].idx = p.idx
        /\ p.pc = "loop" /\ StageIndex(p.done) < p.idx
    BY <1>0, <1>e, <1>4 DEF EnterStage, Beat, At, ProcState
  <2> QED
    BY <2>1 DEF Resumes
<1>5. CASE PersistStageStart(r)
  <2>1. /\ proc'[r].pc = "stage" /\ proc'[r].done = p.done
        /\ proc'[r].idx = p.idx /\ proc'[r].job = p.job /\ p.pc = "start"
    BY <1>0, <1>e, <1>5 DEF PersistStageStart, Beat, At, ProcState
  <2>2. Owns(r, w)
    BY <2>1 DEF LeaseHeld, Executing, InTry, Job
  <2>3. row'[p.job].last = p.done
    BY <1>0, <1>e, <1>5, <2>2 DEF PersistStageStart, Job, JobRow
  <2> QED
    BY <2>1, <2>3 DEF Resumes
<1>6. CASE StageReturns(r) \/ PersistArtifacts(r)
  <2>1. /\ proc'[r].pc \in {"write", "save"} /\ proc'[r].done = p.done
        /\ proc'[r].idx = p.idx /\ proc'[r].job = p.job /\ row' = row
        /\ p.pc \in {"stage", "write"}
    BY <1>0, <1>e, <1>6 DEF StageReturns, PersistArtifacts, GoTo, At, ProcState
  <2> QED
    BY <2>1 DEF Resumes
<1>7. CASE PersistState(r)
  <2>1. /\ proc'[r].pc = "beat" /\ proc'[r].done = p.idx
        /\ proc'[r].idx = p.idx
    BY <1>0, <1>e, <1>7 DEF PersistState, ProcState
  <2> QED
    BY <2>1 DEF Resumes
<1>8. CASE PersistDone(r) \/ Fails(r) \/ Cancel(r)
  <2>1. proc'[r].pc \in {"close", "error", "release"}
    BY <1>0, <1>e, <1>8 DEF PersistDone, Fails, Cancel, GoTo, ProcState
  <2> QED
    BY <2>1 DEF Resumes
<1> QED
  BY <1>1, <1>2, <1>3, <1>4, <1>5, <1>6, <1>7, <1>8 DEF Run

\* Every step leaves every runner where its checkpoint says.
LEMMA ResumeStep ==
  TypeOK /\ LeaseHeld /\ (\A r \in Runners : Resumes(r)) /\ [Next]_vars
    => (\A r \in Runners : Resumes(r))'
<1> SUFFICES ASSUME TypeOK, LeaseHeld, \A r \in Runners : Resumes(r),
                    [Next]_vars, NEW q \in Runners
             PROVE  Resumes(q)'
  OBVIOUS
<1>a. /\ \A j \in Jobs : row[j] \in JobRow
      /\ \A r \in Runners : proc[r] \in ProcState
      /\ proc[q].pc \in Executing => proc[q].job \in Jobs
  BY DEF TypeOK, RowTypeOK, ProcTypeOK, Executing, InTry
<1>k. ASSUME proc'[q].pc = proc[q].pc, proc'[q].idx = proc[q].idx,
             proc'[q].done = proc[q].done, proc'[q].job = proc[q].job,
             proc[q].pc \in Executing =>
               row'[proc[q].job].last = row[proc[q].job].last
      PROVE  Resumes(q)'
  BY <1>k DEF Resumes, Executing, InTry
<1>1. ASSUME NEW j \in Jobs, Submit(j) PROVE Resumes(q)'
  <2>1. proc[q].pc \in Executing => proc[q].job # j
    BY <1>1 DEF Submit, LeaseHeld, Owns, Job
  <2> QED
    BY <1>1, <1>a, <1>k, <2>1 DEF Submit, TypeOK, RowTypeOK
<1>2. ASSUME NEW r \in Runners, NEW j \in Jobs, Spawn(r, j)
      PROVE  Resumes(q)'
  <2>1. CASE q = r
    <3>1. proc'[q].pc = "claim" /\ proc'[q].idx = proc[q].idx
          /\ proc[q].pc = "idle"
      BY <1>2, <1>a, <2>1 DEF Spawn, TypeOK, ProcTypeOK, ProcState
    <3> QED
      BY <3>1 DEF Resumes
  <2>2. CASE q # r
    <3>1. proc'[q] = proc[q] /\ row' = row
      BY <1>2, <2>2 DEF Spawn, TypeOK, ProcTypeOK
    <3> QED
      BY <1>k, <3>1
  <2> QED
    BY <2>1, <2>2
<1>3. ASSUME NEW r \in Runners, Run(r) \/ EndsUnclaimed(r) \/ Crash(r)
      PROVE  Resumes(q)'
  <2>1. CASE q = r /\ Run(r)
    BY <2>1, ResumeOwnStep
  <2>2. CASE q = r /\ (EndsUnclaimed(r) \/ Crash(r))
    BY <2>2 DEF EndsUnclaimed, Crash, Exit, NoProcess, Resumes, TypeOK,
       ProcTypeOK
  <2>3. CASE q # r /\ proc[q].pc \in Executing
    BY <1>3, <1>k, <2>3, OthersLeaveCheckpoint
  <2>4. CASE q # r /\ proc[q].pc \notin Executing
    <3>1. proc'[q] = proc[q]
      BY <1>3, <2>4 DEF TypeOK, ProcTypeOK, Run, ClaimJob, ClaimSkipped,
         SkipStage, EnterStage, PersistStageStart, StageReturns,
         PersistArtifacts, PersistState, RefreshLease, PersistDone,
         SetStatusDone, Fails, RecordError, Cancel, ReleaseJob,
         EndsUnclaimed, Crash, GoTo, Beat, Exit, NextStage
    <3> QED
      BY <1>k, <2>4, <3>1
  <2> QED
    BY <1>3, <2>1, <2>2, <2>3, <2>4
<1>4. CASE Tick
  <2>1. /\ proc'[q].pc = proc[q].pc /\ proc'[q].idx = proc[q].idx
        /\ proc'[q].done = proc[q].done /\ proc'[q].job = proc[q].job
    BY <1>4, <1>a DEF Tick, ProcState
  <2>2. proc[q].pc \in Executing =>
          row'[proc[q].job].last = row[proc[q].job].last
    BY <1>4, <1>a DEF Tick, JobRow
  <2> QED
    BY <1>k, <2>1, <2>2
<1>5. CASE UNCHANGED vars
  BY <1>5, <1>k DEF vars
<1> QED
  BY <1>1, <1>2, <1>3, <1>4, <1>5 DEF Next

\* While leases are kept, a runner works on the stage after the last one its
\* row records, or starts a finished job again.
THEOREM ResumesRight ==
  ASSUME MaxGap <= StaleAfter
  PROVE  Spec => []ResumePoint
<1>1. Init => \A r \in Runners : Resumes(r)
  BY ResumeInit
<1>2. TypeOK /\ LeaseHeld /\ (\A r \in Runners : Resumes(r)) /\ [Next]_vars
        => (\A r \in Runners : Resumes(r))'
  BY ResumeStep
<1>3. TypeOK /\ (\A r \in Runners : Resumes(r)) => ResumePoint
  <2> SUFFICES ASSUME TypeOK, \A r \in Runners : Resumes(r),
                      NEW r \in Runners,
                      proc[r].pc \in {"stage", "write", "save"}
               PROVE  \/ row[Job(r)].last = proc[r].idx - 1
                      \/ row[Job(r)].last = DoneStage /\ proc[r].idx = 1
    BY DEF ResumePoint
  <2>1. proc[r].idx \in Stages /\ proc[r].done \in 0..DoneStage
    BY DEF TypeOK, ProcTypeOK, ProcState
  <2>2. Resumes(r) /\ row[Job(r)].last = proc[r].done
    BY DEF Resumes, Job
  <2>3. CASE proc[r].done \in Stages
    BY <2>1, <2>2, <2>3 DEF Resumes, StageIndex, Stages
  <2>4. CASE proc[r].done \notin Stages
    BY <2>1, <2>2, <2>4 DEF Resumes, Stages, DoneStage
  <2> QED
    BY <2>3, <2>4
<1>4. Spec => []TypeOK
  BY TypeCorrect
<1>5. Spec => []LeaseHeld
  BY LeaseKept
<1> QED
  BY <1>1, <1>2, <1>3, <1>4, <1>5, PTL DEF Spec

-----------------------------------------------------------------------------
\* A runner about to set the status has just written the complete checkpoint,
\* and a done row is written by nobody.
CloseInv == (\A r \in Runners : Closes(r)) /\ (\A j \in Jobs : DoneRow(j))

\* No job is done, and no runner closes one, before the first step.
LEMMA CloseInit == Init => CloseInv
  BY DEF Init, CloseInv, Closes, DoneRow, NewRow, NoProcess

\* Every step of every runner keeps a closing runner's row, and every done row,
\* complete.
LEMMA CloseStep == TypeOK /\ LeaseHeld /\ CloseInv /\ [Next]_vars => CloseInv'
<1> SUFFICES ASSUME TypeOK, LeaseHeld, CloseInv, [Next]_vars
             PROVE  CloseInv'
  OBVIOUS
<1>a. /\ \A j \in Jobs : row[j] \in JobRow /\ DoneRow(j)
      /\ \A r \in Runners : proc[r] \in ProcState /\ Closes(r)
      /\ \A r \in Runners : proc[r].pc \in Executing => proc[r].job \in Jobs
      /\ DOMAIN row = Jobs /\ DOMAIN proc = Runners
  BY DEF TypeOK, RowTypeOK, ProcTypeOK, Executing, InTry, CloseInv
<1>1. ASSUME NEW j \in Jobs, Submit(j) PROVE CloseInv'
  <2>1. \A r \in Runners : proc[r].pc = "close" => proc[r].job # j
    BY <1>1 DEF Submit, LeaseHeld, Owns, Job, Executing, InTry
  <2>2. \A k \in Jobs : k # j => row'[k] = row[k]
    BY <1>1, <1>a DEF Submit
  <2>3. row'[j].status = "queued" /\ proc' = proc
    BY <1>1, <1>a DEF Submit, NewRow
  <2>4. \A r \in Runners : Closes(r)'
    BY <1>a, <2>1, <2>2, <2>3 DEF Closes, Executing, InTry
  <2>5. \A k \in Jobs : DoneRow(k)'
    BY <1>a, <2>2, <2>3 DEF DoneRow
  <2> QED
    BY <2>4, <2>5 DEF CloseInv
<1>2. ASSUME NEW r \in Runners, NEW j \in Jobs, Spawn(r, j) PROVE CloseInv'
  <2>1. /\ proc'[r].pc = "claim" /\ row' = row
        /\ \A q \in Runners : q # r => proc'[q] = proc[q]
    BY <1>2, <1>a DEF Spawn, ProcState
  <2> QED
    BY <1>a, <2>1 DEF CloseInv, Closes, DoneRow
<1>3. ASSUME NEW r \in Runners, Run(r) \/ EndsUnclaimed(r) \/ Crash(r)
      PROVE  CloseInv'
  <2>1. ASSUME NEW q \in Runners, q # r PROVE Closes(q)'
    <3>1. proc'[q] = proc[q]
      BY <1>3, <2>1 DEF TypeOK, ProcTypeOK, Run, ClaimJob, ClaimSkipped,
         SkipStage, EnterStage, PersistStageStart, StageReturns,
         PersistArtifacts, PersistState, RefreshLease, PersistDone,
         SetStatusDone, Fails, RecordError, Cancel, ReleaseJob,
         EndsUnclaimed, Crash, GoTo, Beat, Exit, NextStage
    <3>2. proc[q].pc = "close" =>
            /\ row'[proc[q].job].last = row[proc[q].job].last
            /\ row'[proc[q].job].progress = row[proc[q].job].progress
      BY <1>3, <2>1, OthersLeaveCheckpoint DEF Executing, InTry
    <3> QED
      BY <1>a, <3>1, <3>2 DEF Closes
  <2>2. Closes(r)'
    <3>1. CASE PersistDone(r)
      <4>1. proc'[r].job = proc[r].job /\ proc[r].job \in Jobs
        BY <1>a, <3>1 DEF PersistDone, GoTo, At, ProcState, Executing, InTry
      <4>2. /\ row'[proc[r].job].last = DoneStage
            /\ row'[proc[r].job].progress = NStages
        BY <1>a, <3>1, <4>1 DEF PersistDone, Job, JobRow
      <4> QED
        BY <4>1, <4>2 DEF Closes
    <3>2. CASE ~PersistDone(r)
      <4>1. proc'[r].pc # "close"
        <5>1. CASE NextStage(r)
          BY <1>a, <5>1 DEF NextStage, ProcState
        <5>2. CASE ClaimJob(r)
          BY <1>a, <5>2 DEF ClaimJob, ProcState
        <5>6. CASE PersistState(r)
          BY <1>a, <5>6 DEF PersistState, ProcState
        <5>4. CASE Beat(r, "start") \/ Beat(r, "stage")
          BY <1>a, <5>4 DEF Beat, ProcState
        <5>5. CASE \/ StageReturns(r) \/ PersistArtifacts(r) \/ Fails(r)
                   \/ Cancel(r)
          BY <1>a, <5>5 DEF StageReturns, PersistArtifacts, Fails, Cancel,
             GoTo, ProcState
        <5>3. CASE Exit(r)
          BY <1>a, <5>3 DEF Exit, NoProcess
        <5> QED
          BY <1>3, <3>2, <5>1, <5>2, <5>3, <5>4, <5>5, <5>6
             DEF Run, ClaimSkipped, SkipStage, EnterStage,
             PersistStageStart, RefreshLease, SetStatusDone, RecordError, ReleaseJob,
             EndsUnclaimed, Crash
      <4> QED
        BY <4>1 DEF Closes
    <3> QED
      BY <3>1, <3>2
  <2>3. ASSUME NEW k \in Jobs PROVE DoneRow(k)'
    <3>1. CASE row' = row
      BY <1>a, <3>1 DEF DoneRow
    <3>2. CASE proc[r].job # k
      <4>1. row'[k] = row[k]
        BY <1>3, <1>a, <3>2 DEF Run, ClaimJob, ClaimSkipped, SkipStage,
           EnterStage, PersistStageStart, StageReturns, PersistArtifacts,
           PersistState, RefreshLease, PersistDone, SetStatusDone, Fails,
           RecordError, Cancel, ReleaseJob, EndsUnclaimed, Crash, Job
      <4> QED
        BY <1>a, <4>1 DEF DoneRow
    <3>3. CASE proc[r].job = k /\ SetStatusDone(r)
      <4>1. /\ row'[k].last = row[k].last /\ row'[k].runner = NoRunner
            /\ row'[k].progress = row[k].progress
        BY <1>a, <3>3 DEF SetStatusDone, Job, JobRow
      <4>2. row[k].last = DoneStage /\ row[k].progress = NStages
        BY <1>a, <3>3 DEF SetStatusDone, Closes, At
      <4> QED
        BY <4>1, <4>2 DEF DoneRow
    <3>4. CASE proc[r].job = k /\ row' # row /\ ~SetStatusDone(r)
      <4>1. row'[k].status # "done"
        <5>1. CASE ClaimJob(r)
          BY <1>a, <3>4, <5>1 DEF ClaimJob, Job, JobRow
        <5>2. CASE ~ClaimJob(r)
          <6>1. proc[r].pc \in Executing
            BY <1>3, <3>4, <5>2 DEF Run, ClaimSkipped, SkipStage, EnterStage,
               PersistStageStart, StageReturns, PersistArtifacts,
               PersistState, RefreshLease, PersistDone, Fails, RecordError,
               Cancel, ReleaseJob, EndsUnclaimed, Crash, Executing, InTry, At
          <6>2. row[k].status = "running"
            BY <3>4, <6>1 DEF LeaseHeld, Owns, Job
          <6>3. CASE SkipStage(r) \/ EnterStage(r) \/ RefreshLease(r)
            BY <1>a, <3>4, <6>2, <6>3 DEF SkipStage, EnterStage,
               RefreshLease, Refreshed, Job, JobRow
          <6>4. CASE PersistStageStart(r) \/ ReleaseJob(r)
            <7>1. CASE Owns(r, row[k])
              <8>1. CASE PersistStageStart(r)
                BY <1>a, <3>4, <6>2, <7>1, <8>1 DEF PersistStageStart, Job,
                   JobRow
              <8>2. CASE ReleaseJob(r)
                BY <1>a, <3>4, <7>1, <8>2 DEF ReleaseJob, Job, JobRow
              <8> QED
                BY <6>4, <8>1, <8>2
            <7>2. CASE ~Owns(r, row[k])
              BY <1>a, <3>4, <6>2, <6>4, <7>2 DEF PersistStageStart,
                 ReleaseJob, Job, JobRow
            <7> QED
              BY <7>1, <7>2
          <6>5. CASE PersistState(r)
            BY <1>a, <3>4, <6>2, <6>5 DEF PersistState, Job, JobRow
          <6>7. CASE PersistDone(r)
            BY <1>a, <3>4, <6>2, <6>7 DEF PersistDone, Job, JobRow
          <6>6. CASE RecordError(r)
            BY <1>a, <3>4, <6>6 DEF RecordError, Job, JobRow
          <6> QED
            BY <1>3, <3>4, <5>2, <6>3, <6>4, <6>5, <6>6, <6>7
               DEF Run, ClaimSkipped,
               StageReturns, PersistArtifacts, Fails, Cancel, EndsUnclaimed,
               Crash
        <5> QED
          BY <5>1, <5>2
      <4> QED
        BY <4>1 DEF DoneRow
    <3> QED
      BY <3>1, <3>2, <3>3, <3>4
  <2> QED
    BY <2>1, <2>2, <2>3 DEF CloseInv
<1>4. CASE Tick
  <2>1. ASSUME NEW j \in Jobs
        PROVE  /\ row'[j].status = row[j].status
               /\ row'[j].last = row[j].last
               /\ row'[j].progress = row[j].progress
               /\ row'[j].runner = row[j].runner
    BY <1>4, <1>a DEF Tick, JobRow
  <2>2. ASSUME NEW r \in Runners
        PROVE  proc'[r].pc = proc[r].pc /\ proc'[r].job = proc[r].job
    BY <1>4, <1>a DEF Tick, ProcState
  <2>3. \A r \in Runners : Closes(r)'
    BY <1>a, <2>1, <2>2 DEF Closes, Executing, InTry
  <2>4. \A j \in Jobs : DoneRow(j)'
    BY <1>a, <2>1 DEF DoneRow
  <2> QED
    BY <2>3, <2>4 DEF CloseInv
<1>5. CASE UNCHANGED vars
  BY <1>5, <1>a DEF vars, CloseInv, Closes, DoneRow
<1> QED
  BY <1>1, <1>2, <1>3, <1>4, <1>5 DEF Next

\* While leases are kept, a job that is done has every stage's tables, DONE in
\* its state JSON, full progress and no runner.
THEOREM DoneComplete ==
  ASSUME MaxGap <= StaleAfter
  PROVE  Spec => []DoneIsComplete
<1>1. Init => CloseInv /\ CheckpointInv
  BY CloseInit, CheckpointInit
<1>2. TypeOK /\ LeaseHeld /\ CloseInv /\ CheckpointInv /\ [Next]_vars
        => (CloseInv /\ CheckpointInv)'
  BY CloseStep, CheckpointStep
<1>3. TypeOK /\ CloseInv /\ CheckpointInv => DoneIsComplete
  <2> SUFFICES ASSUME TypeOK, CloseInv, CheckpointInv,
                      NEW j \in Jobs, row[j].status = "done"
               PROVE  artifacts[j] = Stages /\ DoneRow(j)
    BY DEF DoneIsComplete, DoneRow
  <2>1. Stored(j, NStages) /\ artifacts[j] \subseteq Stages
    BY DEF CheckpointInv, DoneHasArtifacts, TypeOK
  <2>2. \A s \in Stages : s <= NStages
    BY DEF Stages
  <2> QED
    BY <2>1, <2>2 DEF CloseInv, Stored
<1>4. Spec => []TypeOK
  BY TypeCorrect
<1>5. Spec => []LeaseHeld
  BY LeaseKept
<1> QED
  BY <1>1, <1>2, <1>3, <1>4, <1>5, PTL DEF Spec

=============================================================================
