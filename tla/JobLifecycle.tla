---------------------------- MODULE JobLifecycle ----------------------------
(***************************************************************************)
(* What the jobs table promises to its readers (handlers/status.py, the    *)
(* polling loop of handlers/ingest.py, docs/architecture.md "Job           *)
(* lifecycle"): a job is queued, is executed by at most one runner at a    *)
(* time, accumulates completed stages, and ends once and for all in done   *)
(* or error.  A runner may give a job back or vanish; the next one goes    *)
(* on from the stages already completed.                                   *)
(*                                                                         *)
(* There are no leases, clocks or transactions here: JobRunner implements  *)
(* this specification with them.                                           *)
(***************************************************************************)
EXTENDS Naturals

CONSTANTS Jobs,       \* job ids
          Runners,    \* executions of the pipeline
          NoRunner,   \* no execution
          NStages     \* stages in the job's stage order

VARIABLES status,     \* status[j]: the status a reader of the job sees
          worker,     \* worker[j]: the runner executing j, or NoRunner
          completed   \* completed[j]: how many stages are durably completed

vars == <<status, worker, completed>>

Terminal == {"done", "error"}

Init ==
  /\ status = [j \in Jobs |-> "none"]
  /\ worker = [j \in Jobs |-> NoRunner]
  /\ completed = [j \in Jobs |-> 0]

Submit(j) ==
  /\ status[j] = "none"
  /\ status' = [status EXCEPT ![j] = "queued"]
  /\ UNCHANGED <<worker, completed>>

\* A job waiting to be run, or abandoned by a runner that vanished.
Acquire(j, r) ==
  /\ status[j] \in {"queued", "running"}
  /\ worker[j] = NoRunner
  /\ status' = [status EXCEPT ![j] = "running"]
  /\ worker' = [worker EXCEPT ![j] = r]
  /\ UNCHANGED completed

\* The next stage is recorded as completed: one at a time, none skipped.
Advance(j) ==
  /\ worker[j] # NoRunner
  /\ completed[j] < NStages
  /\ completed' = [completed EXCEPT ![j] = @ + 1]
  /\ UNCHANGED <<status, worker>>

\* The one case in which completed stages are done again: the job was lost
\* after its last stage, before its status said so.
Rerun(j) ==
  /\ worker[j] # NoRunner
  /\ completed[j] = NStages
  /\ completed' = [completed EXCEPT ![j] = 1]
  /\ UNCHANGED <<status, worker>>

Finish(j) ==
  /\ worker[j] # NoRunner
  /\ completed[j] = NStages
  /\ status' = [status EXCEPT ![j] = "done"]
  /\ worker' = [worker EXCEPT ![j] = NoRunner]
  /\ UNCHANGED completed

Fail(j) ==
  /\ worker[j] # NoRunner
  /\ status' = [status EXCEPT ![j] = "error"]
  /\ worker' = [worker EXCEPT ![j] = NoRunner]
  /\ UNCHANGED completed

\* A cancelled runner puts the job back in the queue.
Yield(j) ==
  /\ worker[j] # NoRunner
  /\ status' = [status EXCEPT ![j] = "queued"]
  /\ worker' = [worker EXCEPT ![j] = NoRunner]
  /\ UNCHANGED completed

\* A runner dies: the status still says running.
Lose(j) ==
  /\ worker[j] # NoRunner
  /\ worker' = [worker EXCEPT ![j] = NoRunner]
  /\ UNCHANGED <<status, completed>>

Next ==
  \E j \in Jobs :
    \/ Submit(j)
    \/ \E r \in Runners : Acquire(j, r)
    \/ Advance(j)
    \/ Rerun(j)
    \/ Finish(j)
    \/ Fail(j)
    \/ Yield(j)
    \/ Lose(j)

Spec == Init /\ [][Next]_vars
=============================================================================
