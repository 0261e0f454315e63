# MM-RAG in TLA+

MM-RAG ingests videos, audio and documents into one SQLite database and answers
queries from it. These modules specify its concurrent core (the job pipeline),
how content becomes files and rows, what jobs do to the index of an asset, how
processes share the database and its migrations, and how a search answer is put
together and measured. TLC checks them on small instances; TLAPS proves the
central invariants of the job pipeline, of the index of an asset, of the database and
of the ingest of content for every value of the constants, and that the runners
implement the abstract lifecycle of a job.

Paths below are relative to `src/src/mmrag/` unless they start with `docs/`.

## Checking

    tlc -workers 2 -config JobRunner_safe.cfg MCJobRunner.tla
    tlapm JobRunnerProofs.tla      (and the other ...Proofs modules)

Runs, mapped source lines, hazards, findings and theorems are listed in
`PROJECT.json`. Definitions named `Fault...` are plausible bugs: each, put in the
place of the definition it is named after, makes a run find a property violated.

## The system

| part | state | operations | talks to |
|---|---|---|---|
| request handlers (`handlers/ingest.py`, `densify.py`, `status.py`; `api.py`, `mcp_server.py`, `cli.py` pass requests on) | none of their own | create a job, drive it inline or wait for it, read it | `jobs` table; child processes |
| worker (`worker.py`) | its running children | poll for jobs, start a child for each, stop on a signal | `jobs` (read); children |
| child process (`pipeline/spawn.py`) | one `run_pipeline` | SIGTERM cancels the pipeline | parent, by signals and exit |
| stage loop (`pipeline/runner.py`) | `jobs` row: status, stage, state JSON, lease | claim, heartbeat, run a stage, store results, checkpoint, finish, fail, release | `jobs`; all tables; files |
| stages (`pipeline/stages/*`) | files; entries of the state JSON | fetch, normalize, scenes, transcript, frames, OCR, captions, vectors, summaries, documents | yt-dlp, ffmpeg, models |
| tables (`db/*`) | assets, scenes, segments, frames, `vec_*`, `fts_*`, content_items, graph | upserts; projections rebuilt per asset | |
| search and ask (`handlers/search.py`, `ask.py`, `vector_backends.py`) | none | streams, fusion, graph expansion, evidence | tables (read) |
| subprocess helper (`pipeline/subprocess_util.py`) | the process it waits for | run with a time limit; SIGTERM, then SIGKILL | ffmpeg, ffprobe |
| connections and migrations (`db/connection.py`, `db/sql`) | the schema; the table of applied files | connect, begin, apply what is missing | every process |
| evaluation (`ops/evaluate.py`) | none | score the hits of a search against gold refs | search |
| health, configuration, logging, transports | none | | |

All parts share one SQLite file in WAL mode. There are no locks between
processes other than its transactions and the lease columns of `jobs`.

**What is hard here.** Several processes may hold one job: two polls select it, a
request runs it inline, an orphan outlives its worker, a lease goes stale under a
live runner. A process may die between any two transactions; results, checkpoint
and status are three of them. Jobs of one asset (a second ingest, several densify
requests) share frame indices, files and rows without any lock; jobs of one content
share its directory and its assets row. A file that exists is taken for a file that
is finished, and whoever wrote it may have been stopped. Projections follow the
tables in transactions of their own. `BEGIN` takes no lock, so a transaction that
has read may fail at its first write. The API is started beside `init-db`, not after
it (`docker-compose.yml`). Search joins streams on different scales whose rows are
copies and projections of each other.

**What makes each part correct.**
*Stage loop:* one process executes a job; a resume neither skips nor repeats a
stage; done means complete; outcomes are final.
*Worker:* a job is settled in the end; stopping abandons no lease.
*Subprocess:* it is gone when `run` returns. *Ingest:* what a stage has saved is
complete; all jobs of a content speak of one asset; documents and transcripts that
can be found stay so.
*Database:* the schema is that of the recorded migrations; a done job is in every
projection.
*Asset index:* file, row, text and vector of a frame are of one picture; projections
equal the tables once jobs are done; a densify adds to the frames there are, and gives
no instant a second one.
*Search:* an answer is the best of what was found, by the best match of each entry;
evidence says what kind
it is; attribution only adds reach; graph neighbours appear, and none twice; a time range
drops nothing that was said in it; the evaluation counts what an ask would show.

## Modules

| module | what it models | extends |
|---|---|---|
| `JobLifecycle` | the promise of the jobs table: queued, executed by one owner at a time, stages completed one by one, done or error | |
| `JobRunner` | `run_pipeline`: leases, heartbeats, checkpoints | |
| `JobWorker` | worker loop, spawned children, inline requests, signals, restarts | `JobRunner` |
| `AssetIndex` | ingests and densify requests of one asset: frames, files, vectors, projections | |
| `Subprocess` | `run`: time-outs, cancellation and death of the caller | |
| `MediaIngest` | jobs of one content: fetch, normalize, document, transcript and its vectors | `Subprocess` |
| `Schema` | the files of `db/sql`, as what they create, need, add and drop | |
| `Database` | `apply_migrations` in several processes beside the transactions of jobs | |
| `Search` | one search, from streams to evidence, with an ask's time range | |
| `Evaluate` | `score_hits` over the answers of `Search` | `Search` |
| `JobRunnerProofs`, `JobLifecycleProofs`, `JobWorkerProofs` | theorems about `JobRunner`, its refinement of `JobLifecycle`, and `JobWorker` | |
| `AssetIndexProofs`, `AssetFramesProofs` | theorems about `AssetIndex`: its projections; its frames | |
| `MediaIngestProofs`, `DatabaseProofs`, `SearchProofs` | theorems about `MediaIngest`, `Database`, and `Search` with `Evaluate` | |
| `MCJobRunner`, `MCJobWorker`, `MCAssetIndex`, `MCMediaIngest`, `MCDatabase`, `MCSearch` | instances for TLC | |

### JobRunner

`row[j]` holds the columns of the job: status, stage, `last`
(`last_completed_stage`), progress, `runner` and the age of the heartbeat.
`proc[r]` is one process: its program point, the stage index of its loop, the last
stage it believes completed, and the time since its last heartbeat. `artifacts[j]`
is the set of stages whose tables are written. Each transaction of the runner is an
action: `ClaimJob` (the guarded UPDATE of `_claim_job`), `EnterStage` and
`PersistStageStart`, `StageReturns` (the one await), `PersistArtifacts`,
`PersistState`, `RefreshLease`, `PersistDone`, `SetStatusDone`, `RecordError`,
`Cancel`, `ReleaseJob`. `Crash` may strike between any two. A stage is opaque: what
it stores is a flag. The writes of `_persist_state`, `_set_status` and
`_record_error` are unguarded in the model as in the code.

Time is counted in ticks. The code writes no heartbeat while a stage runs, so how
long a live runner may be silent is a parameter, `MaxGap`; `StaleAfter` stands for
`JOB_LEASE_STALE_SECONDS`. `MaxGap <= StaleAfter` says that no stage outlasts a
lease. It is an assumption of theorems and runs that say so, never of the module.

### JobWorker

Adds the worker process, tasks that are about to start a child (selecting is only a
read, so a job may be selected again before its child claims it), whose child each
process is, and pending signals. `Inline` are the jobs whose request may run them
itself. A child that gets SIGTERM before its handlers are
installed dies (`ChildDiesBooting`); later it cancels its pipeline. A parent that is
killed, or gives up after ten seconds, leaves orphans. Every action is a JobRunner
action, or leaves its variables alone: `DrivesRunners` is the specification of
JobRunner, checked by TLC and proved.

### AssetIndex

One asset with one scene without speech; time in half seconds. A picture is the
instant it was taken at, and so are the text and the vector made from it, so that a
mismatch between file, row and vector shows. `RequestDensify` computes the plan
(`_plan`) from the rows at that moment; the job then goes through sampling, OCR,
captions (ingest only) and embedding, each followed by its transactions:
`PersistFrames`, `PersistOcr`, `PersistCaptions`, `PersistVectors`,
`RewriteFtsScenes`, `RewriteContentItems`, `RebuildGraph`, `Save`. A crash goes back
to the stage after the last saved one, with the state that was saved. `orderly` is a
mode of the callers: one job at a time, and no densify of an asset whose ingest is
not done. That each job has one runner is what JobRunner shows. Which pictures look
alike (`Look`) and which hold text is arbitrary.

Each time the stage samples, any calls of ffmpeg may miss (`WriteFrames`), others in
each attempt and each job. A call that ends well without a file is no candidate unless
a file of an earlier job lies at the path, which is then taken for the picture; one that
fails or is stopped after 15 s is skipped, and what is at the path may be what was
there, the picture after all, or cut short (`Misses`). `EmbedSkipped` is embed in a
process without the m3-visual extra: no vectors, and the job goes on.

### Subprocess and MediaIngest

`call[c]` is the one call a caller waits in: the state of `run` (communicating, then
terminating, then killing), what its process is for, whether that has ended, and what
the call will raise. `orphans` are processes whose caller is gone. `blows[c]` counts
time-outs, cancellations and deaths of the caller, for the property only.

MediaIngest runs the jobs of one content over these calls: each action of a stage
either leaves the calls alone or is one of Subprocess (`MakesCalls`). `file` is the
directory named by the content's hash; a file is none, partial or whole, and data are
no finer than that. `job[j]` is the program point, the number of stages saved, the
asset id in the state, and how much of its input the stage has seen. `UpsertAsset` is
`_upsert_asset`; `ReplaceItems` is the transaction of a document, with the foreign key
that refuses it; `PersistSegments` and `PersistVectors` are keyed by position and
write over what another job stored. `segs` and `vecs` say which source, captions or
speech recognition, a text is from. `EmbedSkipped` is embed without its encoder
(`pipeline/stages/embed.py:168-186`): the job ends as done, `embedded` is FALSE in its
record, and vectors that are there stay. `streams` says which results the content
allows: normalize makes no mezzanine without a video stream and no audio without an
audio stream (`Check`), and without audio speech recognition gives no segments
(`Given`).

The history of an ingest is in two variables that no action reads. `apart`: no job has
begun while another was not over. `cut`: a process or a copy was cut short, or a process
has failed. `OrderlyVectors` holds while `apart`, whatever dies or fails;
`UndisturbedResultsWhole` while `apart` and not `cut`, whatever dies or fails between
processes; and the run `media_whole` shows that it does not hold after a cut.

### Schema and Database

Schema lists the ten files of `db/sql` by the tables and columns that another file or
a statement of a job depends on. Database is about any list of migrations
(`Succeeds`, `Effect`); MCDatabase gives it the real one. `txn[p]` is an open
transaction: reading with its snapshot, or writing. SQLite does two things when a
transaction wants to write: one whose first statement writes waits for the writer for
`busy_timeout` (`Write`; `ScriptTimesOut`, `FinishTimesOut`), one that has read and
finds another writer, or a commit since, fails at once (`StepIsBusy`). The steps of a
job are its claim, the rows of a stage, `content_items`, the graph and the outcome;
each reads before it writes.

### Search and Evaluate

`found` is what the streams answered: any rows, best first. `listed` is what the code
makes of them: `_StreamHit`s, with a segment copied to every scene it overlaps.
`AnswerFts`, `AnswerVector`, `AnswerHybrid` and `ExpandGraph` are the branches of
`handle_search`. A contribution `1/(60+rank+1) * score/top` is multiplied by a common
denominator, `Unit`, so that the arithmetic is exact. `BestMatchesAnswered` compares
the result with a definition over the found rows, before fan-out and without the loops:
in hybrid mode an entry is worth the sum over the streams of its best row in each, in
fts and vector mode the best raw score. `request` has the time range of an ask, which is
handed to the streams and then filters the hits by the span each one shows. Evaluate adds
`ScoreHits`, the one pass over the hits as a recursive function of the place it has come
to, and compares what it returns with a definition by sets.

Python's stable sorts are `ByScore`: the members of a set in the order of a score and
then of the place they were first listed at, which for a dict is the order of its
insertions. Two assumptions speak of the index, and TLC evaluates both on the instance
of the runs. `IndexAssumption` types it: a frame always has a scene (`frames.scene_id`
is NOT NULL and a foreign key), the other references may be NULL, and no segment ends
before it starts. `ScenesTile`: the scenes of a video leave no gap, as
`scene_detect.py` stores the list of PySceneDetect, in which each scene starts where
the one before ends; only the single scene 0..duration of a video whose length it
does not know may be empty.

## Runs

| run | question | answer |
|---|---|---|
| `runner_safe` | two jobs, two runners, two crashes, leases kept: is the lifecycle kept? | `ExclusiveExecution`, `LeaseHeld`, `ResumePoint`, `DoneIsComplete`, `CheckpointDurable`, `OutcomeIsFinal`, and `JobLifecycle` is implemented |
| `runner_exclusive` | may a stage outlast its lease? | two runners execute one job |
| `runner_skip` | death between the DONE checkpoint and the done status | all stages run again |
| `worker` | a request beside a worker, a stop or kill, a crash | no lease is abandoned, every step is one of JobRunner, both jobs settle |
| `asset_index` | overlapping jobs or orderly ones; two deaths, failures or calls of ffmpeg without a picture | projections are current in the end; of orderly callers, a job that is done has stored all of every frame it took, a densify leaves the frames of other instants alone and gives none a second row, and the scene vector is made of vectors of an ingest's rows |
| `asset_race` | a densify planned while another job is under way | a frame's file, row and vector come apart |
| `asset_caption` | a static shot of eleven seconds | the scene stays without a word |
| `media` | two jobs of one content with both streams or one, with an encoder or without; a signal or a death | one blow leaves no process; one asset; documents and transcripts stay; of jobs one after another, results are whole unless a process or copy was cut, and vectors are of the text unless its job did not embed; every job ends |
| `media_whole` | one job, a signal or a death | a partial file is taken for the result |
| `database` | init-db twice, or beside jobs; a death or a time-out | the schema is that of the record and becomes complete with the attempt after the last fault; done jobs stay projected; jobs that can be claimed end |
| `search` | every mode, with and without a range, three rows found | answers are the best of what was found; evidence, reach, graph, ranges and the evaluation are as stated |
| `search_reach` | an audio-only asset in vector mode | its segments are found and dropped |

**Bounds.** Two runners are the least that can contend. Two stages give one
checkpoint that is neither the first nor the last step; the worker run uses one, since
order of stages is JobRunner's business. It has one child at a time, so that the two
jobs compete for it, and a request that takes one of them. That checkpoints are sound
when leases lapse is a theorem (`CheckpointsSound`) and has no run.
`StaleAfter = 1` makes a lease fresh, about to be stale, and stale within three ticks.
Crashes, stops and faults are bounded by `MaxCrashes`,
`MaxStops` and `MaxFaults`. In AssetIndex eleven seconds is the shortest kind of
scene of which the sampler takes a midpoint and strides, so that the midpoint is
neither first in time nor alone; the windows of the two densify requests overlap;
one pair of pictures is near-duplicate and one instant has text. The two faults may be
calls of ffmpeg in different attempts, or a call and a death, so that an attempt gets
other pictures than the one before it; with the last sample of the ingest lost, a
densify takes its number and a second ingest comes to it again. The disorderly callers
of this run are an ingest and a densify (`Disorderly`, `MaxOverlap`); more of them are
in `asset_race` and in the theorem. In Search a segment crosses a cut, one
lies past the last scene and one is a moment on the cut (both overlap nothing), one
has no scenes at all; a page has
no scene; two rows per stream and three in all let two streams agree on a scene
while one of them has a second row; scores are both above and below zero; `top_k` 1
and 2 make answers that are full and ones that are not; a range is none, an instant
on the cut, or a part of the second scene.
In MediaIngest the pairs are two downloads of one URL with both streams, a file and a
URL with captions (one segment, against two of the speech recognition) of content with
sound only, two URLs with picture only, one of them with captions, and a document from
two files or a file and a URL; one fault strikes either job anywhere. In Database two `init-db`
start from nothing beside one job, or one starts from version 5 beside two jobs, so
that two rebuilds can overtake each other and a job can meet every later migration;
one fault.

**Deadlock** is checked where the system goes on for ever (time passes in the job
runs). An asset or content whose jobs are over, a database that is up with its jobs
ended, and a search that has answered, have stopped: their configurations say
`CHECK_DEADLOCK FALSE`.

**Fairness.** JobWorker: processes run, time passes, the worker polls and starts
its children, ends when told to, and is started again. The event loop and the
operating system give the first four; the restart is the policy of the deployment
(`docker-compose.pi.yml` restarts the worker). Nothing obliges a process to crash, a
parent to be stopped or a request to arrive. `ChildRuns` is weakly fair because a
child is a process of its own that no other can block for ever: SQLite's lock is
given up at every commit. `EveryJobSettles` holds for finitely many crashes; the
code does not count attempts, and a job that always kills its process is retried
for ever. Database: processes run. `RunAgain` is possible and not fair: no compose file
starts an `init-db` again that failed, and `SchemaCompletes` needs it only after a death
or a time-out. MediaIngest: jobs run, time limits run out and SIGKILL works; ffmpeg need
not end of itself, and the action that resumes an interrupted job is the worker's.

## Proofs

`TypeCorrect`, `CheckpointsSound`: from `Spec` alone, for all sets of jobs and
runners and all bounds. `LeaseKept`, `Exclusive`, `OutcomesFinal`, `ResumesRight`,
`DoneComplete`: under `MaxGap <= StaleAfter`. `WorkerDrivesRunners`, `WorkerExclusive`:
the composition implements JobRunner, so its theorems carry over.

*Exclusion* is not inductive. `LeaseHeld` is, with types: whoever executes a job is
named in its row, and the lease is no older than the runner's own silence. A claim
takes a row that is queued or stale; a stale one has an age above `StaleAfter`, so a
runner that executed it would have been silent for longer than `MaxGap`, which `Tick`
forbids. Exclusion follows, as a row names one runner (`HolderIsAlone`). That
`LeaseHeld` survives the step of another runner (`OthersCovered`) is the part each
action shares.

*Finality* of outcomes follows from `LeaseHeld`: an unguarded write is made by the
holder of the lease, and a row that is done or failed has none.

*Checkpoints* are sound even when leases lapse. `CheckpointDurable` is strengthened
to `CheckpointInv`: what a runner believes completed is stored, whichever runner
stored it, up to the program point it is at. Artifacts only grow, so the other
runners' beliefs survive a step (`CheckpointUpdate`), and the runner that moves has
stored its stage before it names it.

*Resumption* relates a runner's locals to its row, so it needs the lease: while a
runner executes, nobody else moves the checkpoint of its job
(`OthersLeaveCheckpoint`). `Resumes` says of each program point how the stage, the
last completed one and the row go together; at a stage it gives `ResumePoint`.
*Completeness* of done takes `CloseInv`, for the two transactions that end a job
(what `PersistDone` wrote still stands when `SetStatusDone` comes), and
`CheckpointInv` for the stored results.

*Schema.* `SchemaMatchesRecord`, `UpMeansComplete` and `DoneStaysProjected` hold from
`Spec` alone, for any list of migrations of which a second run fails or changes
nothing (`MigrationAssumption`, which TLC evaluates for the files of `db/sql`), and any
number of processes. `SchemaOfRecord` is not inductive: between `RunScript` and
`Record` the new schema is in a transaction. `DbInv` says what every snapshot is (a
state that satisfied the record, and the present one if nobody has committed since),
that one process writes, and that what an `init-db` has still to do is all that was
not recorded when it looked, so that the least of it is at most the next one; if
another process has applied that meanwhile, running it again changes nothing.
`DoneStaysProjected` follows the snapshot: a rebuild commits only if its snapshot is
current, so the projections only grow.

*Lifecycle.* `RunnersImplementLifecycle`: under `MaxGap <= StaleAfter` every step of the
runners is a step of `JobLifecycle` or a stutter. The abstract owner of a job is the
process that executes it, so exclusion makes it unique; `Agrees` says that what a runner
believes completed is what the row says, so that a checkpoint counts up by one;
`CloseInv` that a job is finished with its stages complete; `Blank` that nobody executes
a job that was never submitted. The lease lets a claim map to `Acquire`: a stale row
has no owner. `WorkerImplementsLifecycle` carries it over to `JobWorker`.

*Worker.* `WorkerTypeCorrect` has the parents in it: exactly the live processes are
driven by somebody or orphans. `NoLeaseAbandoned` takes the lease again: as long as
nothing has crashed, a runner that leaves ends its job or releases it, which the
guarded UPDATE does only for the runner the row names.

*Asset index.* `AssetIndexProofs` is about any jobs in any order, crashes included.
`IndexTypeCorrect` rests on `TypeInv`, which also says where a job may rest and that
what it is about to store has rows. `IndexCurrentWhenQuiet` is that each projection
equals its table once jobs are over: inductively, whenever a projection is behind, some
job is still to rewrite it or has failed, for each of the three rewrites
(`ProjectionsOwed`). It is unconditional: nothing is assumed of ffmpeg, of the encoder
or of the callers.

`AssetFramesProofs` is about callers that ask for one job at a time, and assumes nothing
else: any call of ffmpeg may fail in one attempt and not in the next, any sample may be
dropped, any runner die. `FramesStored`, `SceneVectorFromRows`, `DensifyKeepsFrames`
and `NoInstantTwice` follow from one invariant, `OrderlyInv`. It says that one job is
under way (`Alone`); what its program point implies of the files, rows, texts and
vectors of its entries, for the state of its process and for the state it saved, from
which the next runner goes on (`Progress`); that rows under a densify's numbers, or of
its instants, are its own (`OwnPlan`, true when it is planned, as the plan numbers above
every row and leaves covered instants out, and kept as nobody else writes); and that a
picture in the scene vector is the vector of a row with an ingest's number that the
densify under way will not touch (`SceneFound`). An attempt that finds other pictures
than the one before it overwrites file, row and text of what it takes and leaves the
rest, which is why the properties speak of the frames a job took, not of all rows
(below).

*Ingest.* `OneBlow` is a theorem of Subprocess: `CallInv` counts the blows that a call
in each state has taken. `IngestMakesCalls` shows that jobs implement Subprocess, so it
carries over. For the rest `IngestInv` says per job what its program point implies of
the table (`Filed`, `Named`, `Told`), of the segments and vectors stored, and
that what other jobs do only adds to these (`Grows`): the step of one job is checked
against its own conjuncts, and against all others through one lemma.

`VectorsInOrder` and `UndisturbedWhole` are about jobs that run one after another. For
the first, `SeqInv` says that at most one job is under way (`Single`), that the segments
are those of that job from the time it has transcribed (`Spoken`), that a row has the
text of a source only where the source has a segment (`Sized`), and that the text of a
segment whose vector is missing or of another text comes from a job that has not
embedded (`Pending`). A job that embeds has spoken: its vectors are of the rows that are
there. For the second, `WholeInv` says, as long as nothing is cut, that no process was
left behind, that a file is partial only while a job is at it (`Attended`), that a call
reads a raw file that is whole and its output is whole exactly when it has ended well
(`Makes`), and what is whole by each point of a job (`Sound`), also for one that died
there and will go on.

*Search.* `SearchProofs` is about any index, any rows and scores within `SearchAssumption`,
and any number of rows. `SearchInvariant` says that every entry of `listed` is the hit
of a row found and every such hit is listed; that the hits of one stream stand in the
order of their ranks, strictly but for the copies of a segment; that a stream not yet
asked has no rows; and that `base` and
`hits` are what the mode and the neighbours make of the list. The properties speak of
the rows found, the code works on the list, and without this invariant nothing relates
the two. TLC finds no state of the run `search` that violates it.

All orders are one operator, so one lemma shows that `Ordered` enumerates a finite set
in a strict total order (`OrderedEnumerates`): it counts what is below each member. From
it come what a sort returns and what its first `top_k` are (`ByScoreEnumerates`).
`SearchTypeCorrect` and `NeighboursHeard` are then about lengths and cuts; the latter
shows that the part of `Blend` that gives displaced hits back is cut off or empty, so
that the direct hits are a prefix of the answer. That no identity is answered twice
follows the three places it could come from: the base is in order and each entry once,
the neighbours are dropped if they were seen, and what is put back begins where the base
was cut.
`EvidenceWellFiled` follows a hit
through the choice of its representative: snippet and source are always of one row.
`StoredSceneStaysReached` shows that the stored scene is always in `Attributed`, for
which the scene a moment lies in must be the one `_assign_scene` takes; `SpeechIsKept`
finds a scene that overlaps both the segment and the range, by `ScenesTile`.

`AnswersAreBest` is the deepest. For a hybrid answer, the first hit of a key in a stream
is its best row, as ranks grow along the list, scores fall along the rows and the divisor
grows with the rank; the two quotients, one rounded before it is multiplied and one
after, are equal since `Unit` is divisible; the keys of the list are those of the rows;
and the sum over the streams is therefore the one deserved. In fts mode the streams are
cut to `top_k` twice, scenes and items each on their own and then merged and cut again.
`BestOf` says what a cut must be: entries of one set, each once, falling in value, and
whatever is left out is below all of them unless there was room. `BestOfBoth` shows that
the cut of a merge of two such parts is one of the union: if an entry was lost in its
part, `top_k` places of the merge are no less than it, and then so are the first `top_k`
(`EnoughAbove`, which counts places). `EvidenceIsCounted` needs no induction theorem:
`TallyGrows` shows that the number and the first of the relevant hits among the first `n`
obey the equation of the pass, and `ScoreIsTally` that where the two differ there is a
least place, which cannot be.

**Only model-checked:** liveness under fairness (`EveryJobSettles`, `IngestEnds`,
`SchemaCompletes`, `JobsEnd`), which is out of the prover's reach.

## What the runs refute

* `db/sql/0006_job_runner_leases.sql:4` promises that one process owns execution: not
  for a stage that outlasts the lease (`runner_exclusive`).
* Completed stages are skipped on the next attempt (`pipeline/runner.py:641-642`): not
  when the process dies after the DONE checkpoint (`runner_skip`).
* A densify plan avoids the indices in the database (`handlers/densify.py:16-18`): not
  those a job under way is about to use (`asset_race`).
* Every silent scene gets a caption (`pipeline/stages/caption.py:149-152`): not when its
  midpoint was dropped as near-duplicate (`asset_caption`).
* A segment without a scene stays reachable (`handlers/search.py:247-248`): not in
  fts or vector mode (`search_reach`), and in hybrid mode all such segments, of
  whatever asset, share the one key `("item", "None")`.
* An interrupted stage is retried (`docs/architecture.md:96-102`, `README.md:627-630`):
  not if its file exists. `pipeline/stages/normalize.py:94` and `:124` skip ffmpeg when
  its output is there, and `fetch.py:163-167` copies in place, so a partial file of the
  attempt before is taken for the result (`media_whole`).

Met while modelling, without a run of their own:

* A document ingested again under another job fails: `pipeline/runner.py:679-685` writes
  its items under the id the job began with, `_upsert_asset` keeps that of the first
  one, and the foreign key refuses them, while `README.md:56` calls it a no-op.
  Nothing is lost (`DocumentStays`).
* Nor is it a no-op for media: the second job writes its transcript over the rows of the
  first by position. If one has captions and the other recognizes speech, the rows after
  the shorter transcript are left of the longer one. If the second process has no
  encoder, its texts keep the vectors of the texts they replace, while
  `pipeline/stages/embed.py:174` says that "the durable trace is the absence of vec_*
  rows". `TranscriptIndexed` and `OrderlyVectors` hold of this; they do not say that the
  rows are of one source, or unchanged.
* An ask with a time range drops speech after the last scene of an asset: search shows
  it with the span of that scene, and `_filter_time_range` looks at the span shown. A
  time-ranged hybrid answer may hold hits outside the range, for the same reason.
  Nor does a range that begins after the last scene ends show any speech that began
  before: the streams compare it with the segment, the ask with the scenes.
* In `hybrid_graph` a hit in the answer of a small `top_k` may be missing from that of
  a larger one, since the quota of graph hits grows with it.
* `docker-compose.yml` starts the API beside `init-db`: until the schema is there its
  jobs fail, or stay queued for want of the lease columns.
* `handlers/search.py:599`: a stream whose best score is not positive is not
  weighted, so a hit with negative cosine counts as a full match, while the comment
  at 600-601 wants it clamped.
* `handlers/search.py:814`: a fused hit that took its frame from another stream has
  another identity than its content item; `hybrid_graph` may answer the item twice.
  Reproduced on MCSearch with a frame and the transcript item of its scene.
* With `top_k = 1` the graph quota is the whole answer.
* `db/sql` and `pipeline/runner.py:329-346` index captions with OCR text, and
  `handlers/ask.py` then files them as `ocr_snippet`.
* `handlers/densify.py:104`: a densify numbers from the largest index in the table. If
  the last sample of the ingest was dropped or lost, that is a number the ingest has
  planned, and an ingest repeated later writes over the densified frame: its row moves
  to another instant, and its file is overwritten or, when the new picture is a
  near-duplicate, unlinked (`frame_sample.py:217`) while the row stays. Orderly callers
  meet this too; `DensifyLeavesFrames` is about densifies only.
* `pipeline/stages/frame_sample.py:189-201`: a call that failed in one attempt and not in
  the next changes which samples are near-duplicates. A row that the first attempt
  wrote before it died then stays, without a vector if the second attempt fails for its
  instant, and without its file too if it drops the picture. A repeated ingest that loses a
  frame pools a scene vector without it, though its row is there. An instant that
  failed in an ingest and was then densified gets a second row when a later ingest
  samples it. So there is no property that every row has a vector, that the scene
  vector has all rows, or that an instant has one row whatever is asked for.
* `pipeline/stages/frame_sample.py:190-205`: a densify that fails after sampling leaves
  its files. A later one gets the same numbers, and where ffmpeg ends well without a
  picture it finds such a file (`out_path.exists()`) and takes it for the picture of
  that instant: row and file are then of different pictures. `SampledFramesStored`
  compares with what the job took, and says that text and vector are of that file.
* `handlers/densify.py:66-68`: a repeated request is not a no-op for samples that were
  dropped as near-duplicates: they leave no row, are planned again and kept.

## Not modelled

Recognisers, detectors, embedding models and remote providers are functions of their
input or arbitrary answers. yt-dlp, ffmpeg, Qdrant and SQLite's full-text search are
external. Configuration, logging, transports and health probes keep no state that the
above depends on; the evaluation's datasets and latency percentiles are input and
output. ffprobe shows the streams of a raw file that was cut, or fails: that a cut
file hides a stream, and that a partial audio file has less speech, are left out.
Outside Database, transactions are atomic and fail only as `Fails`, `Fail` and
`Raises`, where any of them may. A file that a thread goes on writing after its stage
was cancelled is modelled for processes (orphans) and not for threads; what such a
thread computes is thrown away. Search runs against a constant index.

## Plan

Order of work, the most important behaviour first; 1 to 6 are done.

1. Job pipeline: `JobLifecycle`, `JobRunner`, `JobWorker`; lease, checkpoint and
   composition theorems.
2. `AssetIndex`, with the races of densify.
3. `Search`.
4. `Subprocess` and `MediaIngest`: time-out, cancellation and exit; files, assets row,
   documents and transcripts of one content; theorems.
5. `Schema` and `Database`: migrations, deferred transactions; theorems.
6. `Evaluate`, and the time range of an ask in `Search`.
7. Densify over looks: repeated requests, windows over several scenes, re-ingest
   after densify.
8. A search over an index that jobs are changing (`Search` with `AssetIndex`).

Every safety invariant and action property that a passing run checks is a theorem; what
is left of the plan are 7 and 8.
