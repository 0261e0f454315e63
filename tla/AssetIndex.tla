----------------------------- MODULE AssetIndex -----------------------------
(***************************************************************************)
(* What the jobs of one asset do to its frames: the JPEG files, the frames *)
(* table, the vectors, and what is derived from the tables (fts_scenes,    *)
(* content_items, the graph).                                              *)
(*                                                                         *)
(* An ingest samples the scene at fixed instants; a densify request plans  *)
(* more of them against the rows it finds and has a job sample them.  A    *)
(* job takes its stages one after the other; after each come the           *)
(* transactions of run_pipeline, each a step of its own, so that jobs of   *)
(* the asset interleave between them.  A job that dies goes on with the    *)
(* stage it was in, from the state it saved last.                          *)
(*                                                                         *)
(* The asset has one scene, without speech.  Time counts half seconds.  A  *)
(* picture is the instant it was taken at, and so are the texts and the    *)
(* vectors made of it; 0 is none.  Rows and files are named by frame_idx.  *)
(* The stages that leave frames alone are left out, and one runner at a    *)
(* time has a job (JobRunner).                                             *)
(***************************************************************************)
EXTENDS Integers, FiniteSets, Sequences, SequencesExt

CONSTANTS Jobs,        \* job ids
          Kind,        \* Kind[j]: "full" or "densify"
          Window,      \* Window[j]: the densify request [lo, hi, interval]
          SceneEnd,    \* the scene is 0..SceneEnd
          Look,        \* Look[t]: near-duplicate pictures look the same
          WithText,    \* instants at which OCR finds text
          Modes,       \* what the variable orderly may be
          MaxOverlap,  \* bound: how many jobs run at once when not orderly
          Disorderly,  \* bound: the jobs there are when not orderly
          MaxIdx,      \* bound: the largest frame_idx
          MaxFaults    \* bound: runners that die, jobs that fail, and calls
                       \*   of ffmpeg that give no picture

VARIABLES orderly,   \* callers ask for one job at a time, for a densify
                     \*   after an ingest is done
          job,       \* job[j]: the job and the process that runs it
          files,     \* files[i]: the picture at the path of frame i
          frames,    \* frames[i]: the row of frame i
          vec,       \* vec[i]: the picture whose vector frame i has
          sceneVec,  \* the pictures in the mean vector of the scene
          fts,       \* the pictures with a text in the scene's fts_scenes row
          items,     \* the frames as content_items has them
          graph,     \* the frames as the nodes of the graph have them
          faults

tables == <<frames, vec, sceneVec, fts, items, graph>>
vars == <<orderly, job, files, tables, faults>>

Times == 1..SceneEnd - 1
Picture == 0..SceneEnd - 1
Idx == 0..MaxIdx

ASSUME IndexAssumption ==
  /\ SceneEnd \in Nat \ {0}
  /\ Kind \in [Jobs -> {"full", "densify"}]
  /\ Window \in [Jobs -> [lo : Nat, hi : Nat, interval : {2 * n : n \in 1..SceneEnd}]]
  /\ WithText \subseteq Times
  /\ Modes \subseteq BOOLEAN
  /\ Disorderly \subseteq Jobs
  /\ {MaxIdx, MaxOverlap, MaxFaults} \subseteq Nat

\* A row, and an entry of state["frames"] with its thumbnail and its vector.
Row == [t : Picture, ocr : Picture, cap : Picture]
NoRow == [t |-> 0, ocr |-> 0, cap |-> 0]
Entry == [t : Picture, ocr : Picture, cap : Picture,
          thumb : Picture, vec : Picture]
NoEntry == [t |-> 0, ocr |-> 0, cap |-> 0, thumb |-> 0, vec |-> 0]
NoEntries == [i \in Idx |-> NoEntry]
Nothing == [i \in Idx |-> 0]

\* The stages that concern frames: DENSIFY_STAGE_ORDER and M1_STAGE_ORDER.
StageOrder(j) ==
  IF Kind[j] = "densify" THEN <<"sample", "ocr", "embed">>
                         ELSE <<"sample", "ocr", "caption", "embed">>

NoJob == [status |-> "none", stage |-> 1, pc |-> "stage", plan |-> Nothing,
          saved |-> NoEntries, cur |-> NoEntries]

\* What a job has worked on does not matter once it has ended.
Ended(status) == [NoJob EXCEPT !.status = status]

Points == {"stage", "dedup", "persist", "fts", "items", "graph", "save"}

JobState == [status : {"none", "running", "done", "error"},
             stage  : 1..4,            \* index in the stage order
             pc     : Points,          \* what comes next in that stage
             plan   : [Idx -> Picture],  \* a densify job's instants
             saved  : [Idx -> Entry],    \* state["frames"] as last saved
             cur    : [Idx -> Entry]]    \* and as the process has it

\* The types of the variables; a job is in a stage of its own order.
IndexTypeOK ==
  /\ orderly \in Modes
  /\ job \in [Jobs -> JobState]
  /\ \A j \in Jobs : job[j].stage <= Len(StageOrder(j))
  /\ files \in [Idx -> Picture]
  /\ frames \in [Idx -> Row] /\ items \in [Idx -> Row] /\ graph \in [Idx -> Row]
  /\ vec \in [Idx -> Picture]
  /\ sceneVec \subseteq Times /\ fts \subseteq Times
  /\ faults \in 0..MaxFaults

Init ==
  /\ orderly \in Modes
  /\ job = [j \in Jobs |-> NoJob]
  /\ files = Nothing
  /\ frames = [i \in Idx |-> NoRow]
  /\ vec = Nothing
  /\ sceneVec = {}
  /\ fts = {}
  /\ items = frames
  /\ graph = frames
  /\ faults = 0

-----------------------------------------------------------------------------
(* Requests.                                                               *)

Running(j) == job[j].status = "running"
HasRow(i) == frames[i].t # 0

MayAsk(j) ==
  /\ job[j].status = "none"
  /\ IF orderly
     THEN \A k \in Jobs : ~Running(k)
     ELSE j \in Disorderly /\ Cardinality({k \in Jobs : Running(k)}) < MaxOverlap

StartIngest(j) ==
  /\ Kind[j] = "full"
  /\ MayAsk(j)
  /\ job' = [job EXCEPT ![j].status = "running"]
  /\ UNCHANGED <<orderly, files, tables, faults>>

\* The bucket midpoints of a window, as far as they are in the scene.
BucketMidpoints(w) ==
  LET lo == w.lo + w.interval \div 2
  IN  {t \in Times : t >= lo /\ t < w.hi /\ (t - lo) % w.interval = 0}

\* As below, had the plan not looked at the frames there are.
FaultCovered(t, interval) == FALSE

\* A frame within half an interval covers an instant.
Covered(t, interval) ==
  \E i \in Idx : /\ HasRow(i)
                 /\ 2 * (t - frames[i].t) < interval
                 /\ 2 * (frames[i].t - t) < interval

Wanted(w) == {t \in BucketMidpoints(w) : ~Covered(t, w.interval)}

\* As below, had the plan counted the rows.
FaultNextIdx == Cardinality({i \in Idx : HasRow(i)})

\* COALESCE(MAX(f.frame_idx), -1) + 1
NextIdx ==
  CHOOSE n \in 0..MaxIdx + 1 :
    /\ \A i \in Idx : HasRow(i) => i < n
    /\ n # 0 => HasRow(n - 1)

\* A set of instants in order, from the index base on.
Numbered(base, instants) ==
  LET IdxOf(t) == base + Cardinality({u \in instants : u < t})
  IN  [i \in Idx |-> IF \E t \in instants : i = IdxOf(t)
                    THEN CHOOSE t \in instants : i = IdxOf(t)
                    ELSE 0]

\* _plan: the wanted instants from the next index on.
Plan(w) == Numbered(NextIdx, Wanted(w))

\* handle_densify: plan, and a job unless there is nothing to do.
RequestDensify(j) ==
  /\ Kind[j] = "densify"
  /\ MayAsk(j)
  /\ orderly => \E k \in Jobs : Kind[k] = "full" /\ job[k].status = "done"
  /\ NextIdx + Cardinality(Wanted(Window[j])) <= MaxIdx + 1
  /\ job' = [job EXCEPT ![j] = IF Wanted(Window[j]) = {}
                               THEN Ended("done")
                               ELSE [@ EXCEPT !.status = "running",
                                              !.plan = Plan(Window[j])]]
  /\ UNCHANGED <<orderly, files, tables, faults>>

-----------------------------------------------------------------------------
(* The stages, and what run_pipeline does with their results.              *)

StageOf(j) == StageOrder(j)[job[j].stage]
At(j, stage, point) ==
  Running(j) /\ StageOf(j) = stage /\ job[j].pc = point
GoTo(j, point) == job' = [job EXCEPT ![j].pc = point]
Results(j, point, result) ==
  job' = [job EXCEPT ![j] = [@ EXCEPT !.cur = result, !.pc = point]]
Taken(j) == {i \in Idx : job[j].cur[i].t # 0}

\* _sample_times: the midpoint, and strides on a long scene, none twice.
Midpoint == SceneEnd \div 2
Strides == {t \in Times : SceneEnd > 20 /\ t % 4 = 2 /\ t < SceneEnd - 1 /\ t # Midpoint}
SampleTimes == [Numbered(1, Strides) EXCEPT ![0] = Midpoint]

\* The instant each frame_idx is to be sampled at.
Schedule(j) == IF Kind[j] = "densify" THEN job[j].plan ELSE SampleTimes

\* The frames ffmpeg is called for.
Asked(j) == {i \in Idx : Schedule(j)[i] # 0}

\* How a call may end without a picture: well, with no file; or it fails, or is
\* stopped after 15 s, and what is at the path is what was there, the picture
\* after all, or cut short, so that nothing could open it.
Misses == {"no file", "failed", "failed late", "cut short"}

\* What is at the paths in the end, missed[i] being how the call for frame i
\* missed.
Pictures(at, missed) ==
  LET how(i) == IF i \in DOMAIN missed THEN missed[i] ELSE "written"
  IN  [i \in Idx |-> IF at[i] = 0 \/ how(i) \in {"no file", "failed"} THEN files[i]
                     ELSE IF how(i) = "cut short" THEN 0
                     ELSE at[i]]

\* A path with a file on it is a candidate, whichever job wrote it, unless the
\* call failed.
Candidates(at, missed, pics) ==
  LET failed(i) == i \in DOMAIN missed /\ missed[i] # "no file"
  IN  [i \in Idx |-> IF at[i] = 0 \/ failed(i) \/ pics[i] = 0
                     THEN NoEntry
                     ELSE [NoEntry EXCEPT !.t = at[i], !.thumb = pics[i]]]

\* frame_sample(), up to the near-duplicates: any calls may miss, others each
\* time the stage is run.
WriteFrames(j) ==
  /\ At(j, "sample", "stage")
  /\ \E lost \in SUBSET Asked(j) :
       /\ faults' = faults + Cardinality(lost)
       /\ faults' <= MaxFaults
       /\ \E missed \in [lost -> Misses] :
            /\ files' = Pictures(Schedule(j), missed)
            /\ Results(j, "dedup", Candidates(Schedule(j), missed, files'))
  /\ UNCHANGED <<orderly, tables>>

\* _drop_near_duplicates: in the order of time, a picture that looks like the
\* last one kept is dropped.
KeptOf(cand) ==
  LET frame(t) == CHOOSE i \in Idx : cand[i].t = t
      walk == SelectSeq([t \in Times |-> t], LAMBDA t : \E i \in Idx : cand[i].t = t)
      Step(acc, t) ==
        LET pic == cand[frame(t)].thumb
        IN  IF acc.last # 0 /\ Look[pic] = Look[acc.last]
            THEN acc
            ELSE [idx |-> acc.idx \cup {frame(t)}, last |-> pic]
  IN  FoldLeft(Step, [idx |-> {}, last |-> 0], walk).idx

Kept(j) == KeptOf(job[j].cur)

DropNearDuplicates(j) ==
  /\ At(j, "sample", "dedup")
  /\ LET kept == Kept(j)
     IN  /\ files' = [i \in Idx |-> IF i \in Taken(j) \ kept THEN 0 ELSE files[i]]
         /\ Results(j, "persist",
                    [i \in Idx |-> IF i \in kept THEN job[j].cur[i] ELSE NoEntry])
  /\ UNCHANGED <<orderly, tables, faults>>

\* ocr(): a missing file has no text.
Ocr(j) ==
  /\ At(j, "ocr", "stage")
  /\ Results(j, "persist",
             [i \in Idx |-> [job[j].cur[i] EXCEPT !.ocr =
                IF i \in Taken(j) /\ files[i] \in WithText THEN files[i] ELSE 0]])
  /\ UNCHANGED <<orderly, files, tables, faults>>

\* _frames_needing_caption: frame 0 of a scene without speech or text.
NeedsCaption(j) ==
  {i \in Taken(j) : i = 0 /\ \A k \in Taken(j) : job[j].cur[k].ocr = 0}

\* caption(): an unreadable frame gets none.
Caption(j) ==
  /\ At(j, "caption", "stage")
  /\ Results(j, "persist",
             [i \in Idx |-> [job[j].cur[i] EXCEPT !.cap =
                              IF i \in NeedsCaption(j) THEN files[i] ELSE @]])
  /\ UNCHANGED <<orderly, files, tables, faults>>

\* embed(): every file is opened; one that is missing fails the job (Fail).
Embed(j) ==
  /\ At(j, "embed", "stage")
  /\ \A i \in Taken(j) : files[i] # 0
  /\ Results(j, "persist",
             [i \in Idx |-> [job[j].cur[i] EXCEPT !.vec =
                              IF i \in Taken(j) THEN files[i] ELSE 0]])
  /\ UNCHANGED <<orderly, files, tables, faults>>

\* embed() in a process without the m3-visual extra: no vectors, and the job
\* goes on.
EmbedSkipped(j) ==
  /\ At(j, "embed", "stage")
  /\ Results(j, "persist",
             [i \in Idx |-> [job[j].cur[i] EXCEPT !.vec = 0]])
  /\ UNCHANGED <<orderly, files, tables, faults>>

\* As below, had the row been left as it is.
FaultUpserted(i, e) ==
  IF HasRow(i) THEN frames[i] ELSE [t |-> e.t, ocr |-> 0, cap |-> 0]

\* The row of an entry: the upsert sets ocr_text to NULL, leaves the caption.
Upserted(i, e) == [t |-> e.t, ocr |-> 0, cap |-> frames[i].cap]

\* _persist_frames
PersistFrames(j) ==
  /\ At(j, "sample", "persist")
  /\ frames' = [i \in Idx |-> IF i \in Taken(j) THEN Upserted(i, job[j].cur[i])
                                               ELSE frames[i]]
  /\ GoTo(j, "items")
  /\ UNCHANGED <<orderly, files, vec, sceneVec, fts, items, graph, faults>>

\* _update_frame_ocr
PersistOcr(j) ==
  /\ At(j, "ocr", "persist")
  /\ frames' = [i \in Idx |->
                  IF i \in Taken(j) /\ HasRow(i)
                  THEN [frames[i] EXCEPT !.ocr = job[j].cur[i].ocr]
                  ELSE frames[i]]
  /\ GoTo(j, "fts")
  /\ UNCHANGED <<orderly, files, vec, sceneVec, fts, items, graph, faults>>

\* _update_frame_captions: only the frames that carry one.
PersistCaptions(j) ==
  /\ At(j, "caption", "persist")
  /\ frames' = [i \in Idx |->
                  IF job[j].cur[i].cap # 0 /\ HasRow(i)
                  THEN [frames[i] EXCEPT !.cap = job[j].cur[i].cap]
                  ELSE frames[i]]
  /\ GoTo(j, "fts")
  /\ UNCHANGED <<orderly, files, vec, sceneVec, fts, items, graph, faults>>

\* The vectors a job has for vec_frames; none when embedding was skipped.
Vectors(j) == {job[j].cur[i].vec : i \in Idx} \ {0}

\* As below, with the scene's vector from a densify pass.
FaultPooled(j) == IF Vectors(j) = {} THEN sceneVec ELSE Vectors(j)

\* What goes into vec_scenes: nothing new from a densify pass.
Pooled(j) ==
  IF Kind[j] = "densify" \/ Vectors(j) = {} THEN sceneVec ELSE Vectors(j)

\* _persist_vectors
PersistVectors(j) ==
  /\ At(j, "embed", "persist")
  /\ vec' = [i \in Idx |-> IF job[j].cur[i].vec # 0 /\ HasRow(i)
                           THEN job[j].cur[i].vec ELSE vec[i]]
  /\ sceneVec' = Pooled(j)
  /\ GoTo(j, "save")
  /\ UNCHANGED <<orderly, files, frames, fts, items, graph, faults>>

\* The texts of the rows: OCR and captions.
Texts == ({frames[i].ocr : i \in Idx} \cup {frames[i].cap : i \in Idx}) \ {0}

\* _rewrite_fts_scenes
RewriteFtsScenes(j) ==
  /\ Running(j) /\ job[j].pc = "fts"
  /\ fts' = Texts
  /\ GoTo(j, "items")
  /\ UNCHANGED <<orderly, files, frames, vec, sceneVec, items, graph, faults>>

\* rewrite_content_items_for_asset
RewriteContentItems(j) ==
  /\ Running(j) /\ job[j].pc = "items"
  /\ items' = frames
  /\ GoTo(j, "graph")
  /\ UNCHANGED <<orderly, files, frames, vec, sceneVec, fts, graph, faults>>

\* rebuild_graph_for_asset, from content_items
RebuildGraph(j) ==
  /\ Running(j) /\ job[j].pc = "graph"
  /\ graph' = items
  /\ GoTo(j, "save")
  /\ UNCHANGED <<orderly, files, frames, vec, sceneVec, fts, items, faults>>

\* The checkpoint, and on to the next stage; the job is done after the last.
Save(j) ==
  /\ Running(j) /\ job[j].pc = "save"
  /\ job' = [job EXCEPT ![j] =
               IF @.stage = Len(StageOrder(j))
               THEN Ended("done")
               ELSE [@ EXCEPT !.stage = job[j].stage + 1, !.pc = "stage",
                              !.saved = job[j].cur]]
  /\ UNCHANGED <<orderly, files, tables, faults>>

\* A job ends as error: a frame to embed has no file, or else a stage or a
\* transaction raises.
Fail(j) ==
  /\ Running(j)
  /\ IF At(j, "embed", "stage") /\ \E i \in Taken(j) : files[i] = 0
     THEN UNCHANGED faults
     ELSE faults < MaxFaults /\ faults' = faults + 1
  /\ job' = [job EXCEPT ![j] = Ended("error")]
  /\ UNCHANGED <<orderly, files, tables>>

\* As below, with stages that do not exist.
FaultResumedPast(j) == job[j].stage + 1

\* As below, had the stage under way counted as done.
FaultResumed(j) ==
  IF job[j].stage = Len(StageOrder(j)) THEN job[j].stage ELSE job[j].stage + 1

\* The stage after the last one completed.
Resumed(j) == job[j].stage

\* The runner dies; another takes the job up from what was saved.
Crash(j) ==
  /\ Running(j)
  /\ faults < MaxFaults
  /\ faults' = faults + 1
  /\ job' = [job EXCEPT ![j] = [@ EXCEPT !.stage = Resumed(j), !.pc = "stage",
                                         !.cur = job[j].saved]]
  /\ UNCHANGED <<orderly, files, tables>>

RunJob(j) ==
  \/ WriteFrames(j) \/ DropNearDuplicates(j) \/ Ocr(j) \/ Caption(j)
  \/ Embed(j) \/ EmbedSkipped(j)
  \/ PersistFrames(j) \/ PersistOcr(j) \/ PersistCaptions(j) \/ PersistVectors(j)
  \/ RewriteFtsScenes(j) \/ RewriteContentItems(j) \/ RebuildGraph(j)
  \/ Save(j) \/ Fail(j) \/ Crash(j)

Next == \E j \in Jobs : StartIngest(j) \/ RequestDensify(j) \/ RunJob(j)

Spec == Init /\ [][Next]_vars

-----------------------------------------------------------------------------
(* Properties.                                                             *)

Quiet == \A j \in Jobs : job[j].status \in {"none", "done"}

\* Once all jobs are done, however they were interleaved and whatever died or
\* was lost on the way, the projections show the tables as they are: the
\* scene's text, the items and the graph are those of the rows.
QuietIndexCurrent ==
  Quiet => items = frames /\ graph = frames /\ fts = Texts

\* What is stored under a frame_idx is all of one picture: the one of the
\* row's instant.  The code has three places for it (a file, a row, a vector)
\* and ties them by an index it computes before the job runs.
FramesCoherent ==
  \A i \in Idx : HasRow(i) =>
    /\ files[i] = frames[i].t
    /\ {frames[i].ocr, frames[i].cap, vec[i]} \subseteq {0, frames[i].t}

\* What a job says of frame i when it ends is what is stored of it: the row
\* has its instant and the text of the picture the stage looked at, the file
\* is that picture, and so is the vector, unless embedding was skipped.
StoredAsTaken(j, i) ==
  LET e == job[j].cur[i]
  IN  /\ frames[i].t = e.t
      /\ files[i] = e.thumb
      /\ frames[i].ocr = IF e.thumb \in WithText THEN e.thumb ELSE 0
      /\ e.vec # 0 => e.vec = e.thumb /\ vec[i] = e.thumb

\* A job that ends well has stored all the frames it took, and of each one
\* all it made of it, also when it was run in parts by several runners, when
\* an attempt got other pictures than the one before it, and when the numbers
\* had belonged to frames of an earlier job.
SampledFramesStored ==
  [][orderly => \A j \in Jobs :
       Running(j) /\ job'[j].status = "done" => \A i \in Taken(j) : StoredAsTaken(j, i)]_vars

\* The scene's vector is the mean over frames an ingest sampled, whatever has
\* been densified, lost or skipped since: each of its pictures is the vector
\* of a row with a number of an ingest's.
SceneVectorOfRows ==
  orderly =>
    sceneVec \subseteq {vec[i] : i \in {k \in Idx : HasRow(k) /\ SampleTimes[k] # 0}}

Densifying(j) == Running(j) /\ Kind[j] = "densify"
PlannedInstants(j) == {job[j].plan[i] : i \in Idx}

\* A densify adds to the frames there are: of the ones that stand for other
\* instants than it was asked for, it touches neither file nor row nor vector.
DensifyLeavesFrames ==
  [][orderly => \A j \in Jobs : Densifying(j) =>
       \A i \in Idx : HasRow(i) /\ frames[i].t \notin PlannedInstants(j) =>
         UNCHANGED <<files[i], frames[i], vec[i]>>]_vars

\* Densifying a range again does not sample an instant twice.
NoSecondCopy ==
  [][orderly /\ (\E j \in Jobs : Densifying(j)) =>
       \A i, k \in Idx : i # k /\ HasRow(i)' /\ (frames[i].t = frames[k].t)' =>
         HasRow(i) /\ frames[i].t = frames[k].t]_vars

\* A silent scene that has been ingested says something: some text found by
\* OCR or else a caption.
SilentSceneDescribed ==
  Quiet /\ (\E i \in Idx : HasRow(i)) => Texts # {}
=============================================================================
