----------------------------- MODULE JobWorker ------------------------------
(***************************************************************************)
(* Who starts runners, and what happens to them when their parent stops:   *)
(* the polling loop and the shutdown of worker.py, the child process of    *)
(* pipeline/spawn.py, and the inline path of handlers/ingest.py.           *)
(*                                                                         *)
(* The worker polls the jobs table once a second and starts a process per  *)
(* job it finds, up to its concurrency.  Polling only reads: the claim is  *)
(* made later, by the process itself (JobRunner!ClaimJob), so a job can be *)
(* selected again before its process claims it.  A request that runs       *)
(* inline starts a process for the job it has just created.                *)
(*                                                                         *)
(* SIGTERM makes the worker terminate its children and wait for them up to *)
(* _TERMINATE_GRACE_S; a child turns the signal into a cancellation of its *)
(* pipeline, which releases the lease.  What outlives its parent goes on   *)
(* as an orphan.  Job ids are numbers in the order of created_at.          *)
(***************************************************************************)
EXTENDS JobRunner

CONSTANTS Concurrency,   \* MMRAG_WORKER_CONCURRENCY
          MaxStops,      \* bound: stops and kills of a parent
          Inline         \* the jobs whose request may run them itself

VARIABLES worker,   \* the worker process: up, stopping or down
          starts,   \* tasks about to start a process: the job, and for whom
          driver,   \* driver[r]: whose child r is
          term,     \* term[r]: a SIGTERM to r is pending
          stops     \* how many parents have been stopped or killed

workerVars == <<worker, starts, driver, term, stops>>
allVars == <<row, proc, artifacts, crashes,
             worker, starts, driver, term, stops>>

ASSUME WorkerAssumption ==
  /\ Jobs \subseteq Nat
  /\ Concurrency \in Nat \ {0}
  /\ MaxStops \in Nat
  /\ Inline \subseteq Jobs

Parents == {"worker", "request"}

\* The types of the variables; only live processes have a parent.
WorkerTypeOK ==
  /\ TypeOK
  /\ worker \in {"up", "stopping", "down"}
  /\ starts \subseteq [job : Jobs, by : Parents]
  /\ driver \in [Runners -> {"none", "orphan"} \cup Parents]
  /\ term \in [Runners -> BOOLEAN]
  /\ stops \in 0..MaxStops
  /\ \A r \in Runners : driver[r] = "none" <=> At(r, "idle")

WorkerInit ==
  /\ Init
  /\ worker = "up"
  /\ starts = {}
  /\ driver = [r \in Runners |-> "none"]
  /\ term = [r \in Runners |-> FALSE]
  /\ stops = 0

-----------------------------------------------------------------------------
\* A request inserts the next job; the worker will find it.
Enqueue(j) ==
  /\ \A k \in Jobs : k < j => row[k].status # "none"
  /\ Submit(j)
  /\ UNCHANGED workerVars

\* Likewise, and the request will start a process for it
\* (MMRAG_INGEST_INLINE).  The request may return before that process ends
\* (wait_ms), or die before it starts one, which is Enqueue.
IngestInline(j) ==
  /\ j \in Inline
  /\ \A k \in Jobs : k < j => row[k].status # "none"
  /\ Submit(j)
  /\ starts' = starts \cup {[job |-> j, by |-> "request"]}
  /\ UNCHANGED <<worker, driver, term, stops>>

\* Faults, each in place of the definition it is named after.
FaultSelectableQueued(w) == w.status = "queued"
FaultReapNothing(r) == UNCHANGED <<driver, term>>

FaultChildDiesAnywhere(r) ==
  /\ term[r]
  /\ proc' = [proc EXCEPT ![r] = NoProcess]
  /\ driver' = [driver EXCEPT ![r] = "none"]
  /\ term' = [term EXCEPT ![r] = FALSE]
  /\ UNCHANGED <<row, artifacts, crashes, worker, starts, stops>>

\* The WHERE clause of the query in _claim_pending.
Selectable(w) ==
  \/ w.status = "queued"
  \/ w.status = "running" /\ w.age > StaleAfter

\* ORDER BY created_at LIMIT limit.
Pending(limit) ==
  LET selected == {j \in Jobs : Selectable(row[j])}
  IN  {j \in selected : Cardinality({k \in selected : k < j}) < limit}

Starting == {s \in starts : s.by = "worker"}
Active == {r \in Runners : driver[r] = "worker"}

\* One turn of the loop: a task for each job the query returns.  The tasks of
\* the turn before have started their processes by now.
Poll ==
  /\ worker = "up"
  /\ Starting = {}
  /\ Cardinality(Active) < Concurrency
  /\ LET ids == Pending(Concurrency - Cardinality(Active))
     IN  /\ ids # {}
         /\ starts' = starts \cup [job : ids, by : {"worker"}]
  /\ UNCHANGED <<row, proc, artifacts, crashes, worker, driver, term, stops>>

\* run_job: the child process, which has yet to claim its job.
StartChild(j, parent, r) ==
  /\ [job |-> j, by |-> parent] \in starts
  /\ Spawn(r, j)
  /\ starts' = starts \ {[job |-> j, by |-> parent]}
  /\ driver' = [driver EXCEPT ![r] = parent]
  /\ UNCHANGED <<worker, term, stops>>

-----------------------------------------------------------------------------
\* A process that ends leaves the set of its parent's children.
Reap(r) ==
  IF proc'[r].pc = "idle"
  THEN /\ driver' = [driver EXCEPT ![r] = "none"]
       /\ term' = [term EXCEPT ![r] = FALSE]
  ELSE UNCHANGED <<driver, term>>

\* The child runs its pipeline.  Only a signal cancels it, and only where the
\* event loop runs: inside a stage.  A stage that never suspends goes on.
ChildRuns(r) ==
  /\ Run(r)
  /\ proc'[r].pc = "release" => term[r]
  /\ Reap(r)
  /\ UNCHANGED <<worker, starts, stops>>

\* SIGTERM before run_job_in_process has installed its handlers: the default
\* action.  The pipeline task has not started, so there is no lease.
ChildDiesBooting(r) ==
  /\ term[r]
  /\ EndsUnclaimed(r)
  /\ Reap(r)
  /\ UNCHANGED <<worker, starts, stops>>

ChildCrashes(r) ==
  /\ Crash(r)
  /\ Reap(r)
  /\ UNCHANGED <<worker, starts, stops>>

-----------------------------------------------------------------------------
\* SIGTERM to the worker: it cancels its tasks, run_job terminates the child.
StopWorker ==
  /\ worker = "up"
  /\ stops < MaxStops
  /\ stops' = stops + 1
  /\ worker' = "stopping"
  /\ starts' = starts \ Starting
  /\ term' = [r \in Runners |-> term[r] \/ driver[r] = "worker"]
  /\ UNCHANGED <<row, proc, artifacts, crashes, driver>>

\* gather returns: every child is gone, or its grace period is over.
WorkerExits ==
  /\ worker = "stopping"
  /\ worker' = "down"
  /\ driver' = [r \in Runners |->
                  IF driver[r] = "worker" THEN "orphan" ELSE driver[r]]
  /\ UNCHANGED <<row, proc, artifacts, crashes, starts, term, stops>>

\* SIGKILL to the worker: the children do not notice.
KillWorker ==
  /\ worker # "down"
  /\ stops < MaxStops
  /\ stops' = stops + 1
  /\ worker' = "down"
  /\ starts' = starts \ Starting
  /\ driver' = [r \in Runners |->
                  IF driver[r] = "worker" THEN "orphan" ELSE driver[r]]
  /\ UNCHANGED <<row, proc, artifacts, crashes, term>>

StartWorker ==
  /\ worker = "down"
  /\ worker' = "up"
  /\ UNCHANGED <<row, proc, artifacts, crashes, starts, driver, term, stops>>

\* The server stops: its event loop cancels the request's run_job.
StopRequest(r) ==
  /\ driver[r] = "request"
  /\ stops < MaxStops
  /\ stops' = stops + 1
  /\ term' = [term EXCEPT ![r] = TRUE]
  /\ driver' = [driver EXCEPT ![r] = "orphan"]
  /\ UNCHANGED <<row, proc, artifacts, crashes, worker, starts>>

TimePasses == Tick /\ UNCHANGED workerVars

WorkerNext ==
  \/ \E j \in Jobs : Enqueue(j)
  \/ \E j \in Jobs : IngestInline(j)
  \/ Poll
  \/ \E j \in Jobs, parent \in Parents, r \in Runners :
       StartChild(j, parent, r)
  \/ \E r \in Runners : ChildRuns(r)
  \/ \E r \in Runners : ChildDiesBooting(r)
  \/ \E r \in Runners : ChildCrashes(r)
  \/ StopWorker
  \/ WorkerExits
  \/ KillWorker
  \/ StartWorker
  \/ \E r \in Runners : StopRequest(r)
  \/ TimePasses

\* A process runs, time passes, a worker polls, ends when told to and is
\* started again (the stack restarts it).  Nothing has to crash or be stopped,
\* and nobody has to submit a job.
Fairness ==
  /\ \A r \in Runners : WF_allVars(ChildRuns(r))
  /\ WF_allVars(Poll)
  /\ WF_allVars(\E j \in Jobs, parent \in Parents, r \in Runners :
                    StartChild(j, parent, r))
  /\ WF_allVars(TimePasses)
  /\ WF_allVars(WorkerExits)
  /\ WF_allVars(StartWorker)

WorkerSpec == WorkerInit /\ [][WorkerNext]_allVars /\ Fairness

-----------------------------------------------------------------------------
\* As long as nothing has crashed, a job that says running is being run: stopping
\* the worker or the server gives back every lease ("a chance to release their
\* leases before the process exits", run_worker_until_signalled), even when
\* the parent does not wait for its children to the end.
NoAbandonedLease == crashes = 0 =>
  \A j \in Jobs : row[j].status = "running" =>
    \E r \in Runners : proc[r].pc \in Executing /\ Job(r) = j

\* Every job that was submitted is settled, although the processes that run
\* it may die, be stopped and outlive their parents: it is found again in the
\* queue or under a stale lease.
EveryJobSettles ==
  \A j \in Jobs :
    row[j].status # "none" ~> row[j].status \in {"done", "error"}

\* The worker and the requests only submit, spawn, run and stop runners: every
\* step of theirs is a step of JobRunner or none at all, so what is true of
\* JobRunner is true here.
DrivesRunners == Spec
=============================================================================
