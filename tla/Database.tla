------------------------------ MODULE Database -------------------------------
(***************************************************************************)
(* What processes that share the SQLite file do to each other: init-db,    *)
(* which applies the migrations, and the jobs of a server, whose stages    *)
(* store rows and then rebuild the projections of them.  The compose file  *)
(* starts the server beside init-db and a worker only after it; nothing    *)
(* keeps two init-db from running at once.                                 *)
(*                                                                         *)
(* SQLite in WAL mode: a transaction sees the database as it was when it   *)
(* first read; one process writes at a time.  BEGIN takes no lock.  A      *)
(* transaction whose first statement writes waits for the writer, up to    *)
(* busy_timeout.  One that has read and then writes fails at once if       *)
(* another writes, or has committed since.                                 *)
(*                                                                         *)
(* Migrations are numbered in the order of their names.  The table that    *)
(* records them is made first, in a statement of its own that changes      *)
(* nothing when it exists, and is left out.                                *)
(***************************************************************************)
EXTENDS Integers, FiniteSets

CONSTANTS Inits,      \* processes of init-db
          Jobs,       \* jobs of one asset, run by the server
          Count,      \* the number of migrations
          Objects,    \* tables and columns
          Succeeds(_, _),  \* Succeeds(m, s): script m runs on schema s
          Effect(_, _),    \* Effect(m, s): the schema it makes of s
          SchemaAt,   \* SchemaAt[k]: the schema after the first k migrations
          Needs,      \* Needs[step]: what the statements of a job's step name
          Setups,     \* how many migrations the file has at the start, and who runs
          MaxFaults   \* bound: crashes, and waits for a writer that time out

\* Running a migration again once it has run fails or changes nothing.
ASSUME MigrationAssumption ==
  /\ Count \in Nat /\ MaxFaults \in Nat
  /\ SchemaAt \in [0..Count -> SUBSET Objects]
  /\ \A k \in 1..Count : /\ Succeeds(k, SchemaAt[k - 1])
                         /\ Effect(k, SchemaAt[k - 1]) = SchemaAt[k]
  /\ \A k \in 1..Count : \A m \in 1..k :
       Succeeds(m, SchemaAt[k]) => Effect(m, SchemaAt[k]) = SchemaAt[k]

Steps == {"claim", "rows", "items", "graph"}

ASSUME ProcessAssumption ==
  /\ Inits \cap Jobs = {}
  /\ Needs \in [Steps -> SUBSET Objects]
  /\ Setups \subseteq [version : 0..Count, inits : SUBSET Inits, jobs : SUBSET Jobs]

VARIABLES db,    \* what is committed
          txn,   \* txn[p]: the transaction process p has open
          init,  \* init[p]: where apply_migrations is, and what it has still to do
          job,   \* job[j]: the step the job is at
          faults

vars == <<db, txn, init, job, faults>>

Procs == Inits \cup Jobs

\* rows, items, graph: the jobs whose rows are in the tables and projections.
Store == [schema : SUBSET Objects, applied : SUBSET (1..Count),
          rows : SUBSET Jobs, items : SUBSET Jobs, graph : SUBSET Jobs]

Empty == [schema |-> {}, applied |-> {}, rows |-> {}, items |-> {}, graph |-> {}]
NoTxn == [state |-> "none", view |-> Empty, current |-> TRUE]

Init ==
  /\ \E s \in Setups :
       /\ db = [Empty EXCEPT !.schema = SchemaAt[s.version], !.applied = 1..s.version]
       /\ init = [p \in Inits |-> [pc |-> IF p \in s.inits THEN "off" ELSE "none",
                                    todo |-> {}]]
       /\ job = [j \in Jobs |-> IF j \in s.jobs THEN "queued" ELSE "none"]
  /\ txn = [p \in Procs |-> NoTxn]
  /\ faults = 0

-----------------------------------------------------------------------------
(* Transactions.                                                           *)

Reading(p) == txn[p].state = "reading"
Writing(p) == txn[p].state = "writing"
NobodyWrites == \A p \in Procs : ~Writing(p)

\* BEGIN and a SELECT: the snapshot is taken.
BeginReading(p) ==
  /\ txn[p] = NoTxn
  /\ txn' = [txn EXCEPT ![p] = [state |-> "reading", view |-> db, current |-> TRUE]]

\* A statement that writes, and what the transaction sees after it.
Write(p, view) ==
  /\ NobodyWrites
  /\ txn' = [txn EXCEPT ![p] = [state |-> "writing", view |-> view, current |-> TRUE]]

\* As below, for SELECTs before the BEGIN instead of after it.
FaultMayUpgrade(p) == NobodyWrites

\* A transaction that has read may write: nobody does, or has since.
MayUpgrade(p) == NobodyWrites /\ txn[p].current

Rollback(p) == txn' = [txn EXCEPT ![p] = NoTxn]

\* The snapshots of the others are behind when p has committed.
Outdated(p) ==
  [q \in Procs |-> CASE q = p -> NoTxn
                     [] q # p /\ Reading(q) -> [txn[q] EXCEPT !.current = FALSE]
                     [] OTHER -> txn[q]]

Commit(p, view) ==
  /\ Writing(p)
  /\ db' = view
  /\ txn' = Outdated(p)

\* A whole transaction that writes a row of jobs.
WriteRow(p) ==
  /\ NobodyWrites
  /\ txn' = Outdated(p)
  /\ db' = db

-----------------------------------------------------------------------------
(* apply_migrations.                                                       *)

Goes(p, pc) == init' = [init EXCEPT ![p].pc = pc]

\* As below, with the files counted from 0.
FaultListApplied(p) ==
  /\ init[p].pc = "off"
  /\ init' = [init EXCEPT ![p] = [pc |-> "pending", todo |-> 0..Count - 1 \ db.applied]]
  /\ UNCHANGED <<db, txn, job, faults>>

\* As below, in a file that is not new.
FaultListWhenNew(p) ==
  /\ init[p].pc = "off"
  /\ init' = [init EXCEPT ![p] = [pc |-> "pending",
                                   todo |-> IF db.applied = {} THEN 1..Count ELSE {}]]
  /\ UNCHANGED <<db, txn, job, faults>>

\* The names that are recorded are read once, before the first script.
ListApplied(p) ==
  /\ init[p].pc = "off"
  /\ init' = [init EXCEPT ![p] = [pc |-> "pending", todo |-> 1..Count \ db.applied]]
  /\ UNCHANGED <<db, txn, job, faults>>

At(p) == CHOOSE m \in init[p].todo : \A n \in init[p].todo : m <= n
Due(p) == init[p].pc = "pending" /\ init[p].todo # {}

\* As below, without the BEGIN: every statement commits by itself.
FaultRunScript(p) ==
  /\ Due(p) /\ Succeeds(At(p), db.schema)
  /\ Write(p, [db EXCEPT !.schema = Effect(At(p), db.schema)])
  /\ db' = [db EXCEPT !.schema = Effect(At(p), db.schema)]
  /\ Goes(p, "recording")
  /\ UNCHANGED <<job, faults>>

\* BEGIN and the statements of the script.
RunScript(p) ==
  /\ Due(p) /\ Succeeds(At(p), db.schema)
  /\ Write(p, [db EXCEPT !.schema = Effect(At(p), db.schema)])
  /\ Goes(p, "recording")
  /\ UNCHANGED <<db, job, faults>>

\* INSERT OR IGNORE of the name, and COMMIT.
Record(p) ==
  /\ init[p].pc = "recording"
  /\ Commit(p, [txn[p].view EXCEPT !.applied = @ \cup {At(p)}])
  /\ init' = [init EXCEPT ![p] = [pc |-> "pending", todo |-> @.todo \ {At(p)}]]
  /\ UNCHANGED <<job, faults>>

\* A statement fails, and with it init-db.  A script that has run before may
\* begin by reading only and fail at its first write (MayUpgrade).
ScriptFails(p) ==
  /\ Due(p)
  /\ ~Succeeds(At(p), db.schema) \/ At(p) \in db.applied
  /\ Goes(p, "failed")
  /\ UNCHANGED <<db, txn, job, faults>>

\* The script waits for the writer and busy_timeout is over.
ScriptTimesOut(p) ==
  /\ Due(p) /\ ~NobodyWrites /\ faults < MaxFaults
  /\ Goes(p, "failed")
  /\ faults' = faults + 1
  /\ UNCHANGED <<db, txn, job>>

\* As below, with ; in place of &&.
FaultComesUp(p) ==
  /\ init[p].pc = "failed"
  /\ Goes(p, "up")
  /\ UNCHANGED <<db, txn, job, faults>>

\* init-db ends well; a worker may be started.
ComesUp(p) ==
  /\ init[p].pc = "pending" /\ init[p].todo = {}
  /\ Goes(p, "up")
  /\ UNCHANGED <<db, txn, job, faults>>

\* init-db is started again, by hand or with its container.
RunAgain(p) ==
  /\ init[p].pc = "failed"
  /\ Goes(p, "off")
  /\ UNCHANGED <<db, txn, job, faults>>

InitDies(p) ==
  /\ init[p].pc \in {"pending", "recording"} /\ faults < MaxFaults
  /\ Goes(p, "failed")
  /\ Rollback(p)
  /\ faults' = faults + 1
  /\ UNCHANGED <<db, job>>

-----------------------------------------------------------------------------
(* A job: claim, rows of a stage, content_items, graph, outcome.           *)

Storing == {"rows", "items", "graph"}
After == [claim |-> "rows", rows |-> "items", items |-> "graph", graph |-> "finish"]
Goto(j, step) == job' = [job EXCEPT ![j] = step]

\* Without the columns of the lease the claim fails and the job stays queued.
Claim(j) ==
  /\ job[j] = "queued" /\ Needs["claim"] \subseteq db.schema
  /\ WriteRow(j)
  /\ Goto(j, "rows")
  /\ UNCHANGED <<init, faults>>

\* The scenes of the asset, the tables, the items: each is read first.
StepReads(j) ==
  /\ job[j] \in Storing /\ Needs[job[j]] \subseteq db.schema
  /\ BeginReading(j)
  /\ UNCHANGED <<db, init, job, faults>>

\* A table or column the step names does not exist yet.
StepFails(j) ==
  /\ job[j] \in Storing /\ txn[j] = NoTxn /\ ~(Needs[job[j]] \subseteq db.schema)
  /\ Goto(j, "failing")
  /\ UNCHANGED <<db, txn, init, faults>>

\* What a step writes, of what it has read.
Stored(j, view) ==
  CASE job[j] = "rows" -> [view EXCEPT !.rows = @ \cup {j}]
    [] job[j] = "items" -> [view EXCEPT !.items = view.rows]
    [] job[j] = "graph" -> [view EXCEPT !.graph = view.items]

StepWrites(j) ==
  /\ job[j] \in Storing /\ Reading(j) /\ MayUpgrade(j)
  /\ Write(j, Stored(j, txn[j].view))
  /\ UNCHANGED <<db, init, job, faults>>

\* SQLITE_BUSY without a wait: the transaction is rolled back.
StepIsBusy(j) ==
  /\ Reading(j) /\ ~MayUpgrade(j)
  /\ Rollback(j)
  /\ Goto(j, "failing")
  /\ UNCHANGED <<db, init, faults>>

StepCommits(j) ==
  /\ job[j] \in Storing
  /\ Commit(j, txn[j].view)
  /\ Goto(j, After[job[j]])
  /\ UNCHANGED <<init, faults>>

\* As below, without the handler that stores the error.
FaultFinish(j) ==
  /\ job[j] = "finish"
  /\ WriteRow(j)
  /\ Goto(j, "done")
  /\ UNCHANGED <<init, faults>>

\* The done status, or the error of the stage that raised.
Finish(j) ==
  /\ job[j] \in {"finish", "failing"}
  /\ WriteRow(j)
  /\ Goto(j, IF job[j] = "finish" THEN "done" ELSE "error")
  /\ UNCHANGED <<init, faults>>

\* The write of the done status waits too long, and fails.
FinishTimesOut(j) ==
  /\ job[j] = "finish" /\ ~NobodyWrites /\ faults < MaxFaults
  /\ Goto(j, "failing")
  /\ faults' = faults + 1
  /\ UNCHANGED <<db, txn, init>>

\* The process dies; another one takes the job up.
JobDies(j) ==
  /\ job[j] \notin {"none", "queued", "done", "error"} /\ faults < MaxFaults
  /\ Goto(j, "queued")
  /\ Rollback(j)
  /\ faults' = faults + 1
  /\ UNCHANGED <<db, init>>

InitRuns(p) ==
  \/ ListApplied(p) \/ RunScript(p) \/ Record(p)
  \/ ScriptFails(p) \/ ComesUp(p)

JobRuns(j) ==
  \/ Claim(j) \/ StepReads(j) \/ StepFails(j) \/ StepWrites(j)
  \/ StepIsBusy(j) \/ StepCommits(j) \/ Finish(j)

Next ==
  \/ \E p \in Inits : InitRuns(p) \/ RunAgain(p) \/ ScriptTimesOut(p) \/ InitDies(p)
  \/ \E j \in Jobs : JobRuns(j) \/ FinishTimesOut(j) \/ JobDies(j)

\* Processes run.  Nothing has to die or to wait too long, and nobody has to run
\* an init-db again that failed.
Fairness ==
  /\ \A p \in Inits : WF_vars(InitRuns(p))
  /\ \A j \in Jobs : WF_vars(JobRuns(j))

Spec == Init /\ [][Next]_vars /\ Fairness

-----------------------------------------------------------------------------
(* Properties.                                                             *)

\* The variables keep their types.
DbTypeOK ==
  /\ db \in Store
  /\ txn \in [Procs -> [state : {"none", "reading", "writing"}, view : Store,
                        current : BOOLEAN]]
  /\ init \in [Inits -> [pc : {"none", "off", "pending", "recording", "failed", "up"},
                         todo : SUBSET (1..Count)]]
  /\ job \in [Jobs -> {"none", "queued", "finish", "failing", "done", "error"} \cup Storing]
  /\ faults \in 0..MaxFaults

\* Whoever opens the database finds the schema that the recorded migrations
\* make, and these are the first ones: no crash, failure or second init-db leaves
\* half a migration, one that is not recorded, or one that was run twice.
SchemaOfRecord ==
  \E k \in 0..Count : db.applied = 1..k /\ db.schema = SchemaAt[k]

\* When init-db ends well every migration has been applied, whoever did it: what
\* is started after it (init-db && worker) finds the whole schema.
InitUpComplete ==
  \A p \in Inits : init[p].pc = "up" => db.applied = 1..Count

\* The rows of a job that is done are in the tables and in every projection, and
\* stay there: no rebuild of another process overwrites them with older rows
\* (BEGIN is deferred, so a rebuild that was overtaken fails instead).
DoneJobProjected ==
  \A j \in Jobs : job[j] = "done" => j \in db.rows \cap db.items \cap db.graph

\* Once init-db is started the schema becomes complete, unless something dies or
\* waits too long after that: of several that meet one gets through, and what an
\* earlier one has left is no obstacle.
SchemaCompletes ==
  \A p \in Inits, n \in 0..MaxFaults :
    (init[p].pc = "off" /\ faults = n) ~> (db.applied = 1..Count \/ faults > n)

\* Every job ends that can be claimed, though init-db is at work or has failed:
\* transactions that want to write neither wait for each other nor for ever.
JobsEnd ==
  \A j \in Jobs : (job[j] = "queued" /\ Needs["claim"] \subseteq db.schema)
                   ~> job[j] \in {"done", "error"}
=============================================================================
