-------------------------- MODULE AssetFramesProofs --------------------------
(***************************************************************************)
(* What AssetIndex stores of the frames when callers ask for one job at a  *)
(* time: for every set of jobs, windows and pictures, whichever runners    *)
(* die, and whatever each attempt of ffmpeg and of the encoder fails to    *)
(* give.                                                                   *)
(***************************************************************************)
EXTENDS AssetIndexProofs

USE Bounds

-----------------------------------------------------------------------------
(***************************************************************************)
(* The invariant.                                                          *)
(***************************************************************************)

Alone == \A j, k \in Jobs : Running(j) /\ Running(k) => j = k

\* The numbers of a densify job are its own, and so are its instants: a row
\* under one of the numbers, or of one of the instants, is one it wrote itself.
OwnPlan(j) ==
  LET plan == job[j].plan
  IN  /\ \A i \in Idx : plan[i] # 0 /\ HasRow(i) => frames[i].t = plan[i]
      /\ \A i, k \in Idx : plan[i] # 0 /\ plan[i] = plan[k] => i = k
      /\ \A i, k \in Idx : plan[i] # 0 /\ frames[k].t = plan[i] => i = k

\* Each picture of the scene's vector is the vector of an ingest's row, which
\* the densify under way leaves alone.
Source(i, p) ==
  /\ HasRow(i) /\ SampleTimes[i] # 0 /\ vec[i] = p
  /\ \A j \in Jobs : Densifying(j) => job[j].plan[i] = 0
SceneFound == \A p \in sceneVec : \E i \in Idx : Source(i, p)

\* Entries of a job are of instants of its schedule.
Scheduled(j, entries) ==
  \A i \in Idx : /\ entries[i].t \in {0, Schedule(j)[i]}
                 /\ entries[i].t = 0 => entries[i].cap = 0 /\ entries[i].vec = 0
                 /\ entries[i].vec \in {0, entries[i].thumb}

\* What has been done for the entries so far.
OnDisk(entries) == \A i \in Idx : entries[i].t # 0 => files[i] = entries[i].thumb
InRows(entries) == \A i \in Idx : entries[i].t # 0 => frames[i].t = entries[i].t
TextOf(p) == IF p \in WithText THEN p ELSE 0
Read(entries) == \A i \in Idx : entries[i].t # 0 => entries[i].ocr = TextOf(entries[i].thumb)
TextsInRows(entries) == \A i \in Idx : entries[i].t # 0 => frames[i].ocr = entries[i].ocr
VectorsFiled(entries) == \A i \in Idx : entries[i].vec # 0 => vec[i] = entries[i].vec

PastSample(j) == StageOf(j) # "sample"
PastOcr(j) == StageOf(j) \in {"caption", "embed"}
InOcr(j) == StageOf(j) = "ocr"

\* How far a running job is.
Progress(j) ==
  LET cur == job[j].cur
      pc == job[j].pc
      saved == job[j].saved
  IN  /\ Scheduled(j, cur) /\ Scheduled(j, saved)
      /\ PastSample(j) \/ pc # "stage" => OnDisk(cur)
      /\ PastSample(j) \/ pc \notin {"stage", "dedup", "persist"} => InRows(cur)
      /\ PastSample(j) => OnDisk(saved) /\ InRows(saved)
      /\ PastOcr(j) \/ (InOcr(j) /\ pc # "stage") => Read(cur)
      /\ PastOcr(j) \/ (InOcr(j) /\ pc \notin {"stage", "persist"}) => TextsInRows(cur)
      /\ PastOcr(j) => Read(saved) /\ TextsInRows(saved)
      /\ StageOf(j) = "embed" /\ pc = "save" => VectorsFiled(cur)

Orderly ==
  /\ Alone /\ SceneFound
  /\ \A j \in Jobs : Running(j) => Progress(j)
  /\ \A j \in Jobs : Densifying(j) => OwnPlan(j)

OrderlyInv == TypeInv /\ PointsKept /\ (orderly => Orderly)

-----------------------------------------------------------------------------
(***************************************************************************)
(* Lemmas about steps.                                                     *)
(***************************************************************************)

\* The entries and rows a step of a running job starts from.
LEMMA Shapes ==
  ASSUME TypeInv, NEW j \in Jobs
  PROVE  /\ job[j].cur \in [Idx -> Entry] /\ job[j].saved \in [Idx -> Entry]
         /\ job[j].plan \in [Idx -> Picture]
         /\ StageOf(j) \in {"sample", "ocr", "caption", "embed"}
         /\ files \in [Idx -> Picture] /\ vec \in [Idx -> Picture]
         /\ frames \in [Idx -> Row] /\ \A i \in Idx : frames[i].t \in Picture
BY TypeParts, JobParts DEF TypeInv, TablesOK, Row

\* The job that takes a step is the only one that runs.
LEMMA OnlyRunner ==
  ASSUME TypeInv, Alone, NEW j \in Jobs, RunJob(j)
  PROVE  /\ Running(j) /\ Alone' /\ UNCHANGED orderly
         /\ \A k \in Jobs : k # j => ~Running(k) /\ ~Running(k)'
<1>1. Running(j) /\ UNCHANGED orderly
  BY DEF RunJob, WriteFrames, DropNearDuplicates, Ocr, Caption, Embed, EmbedSkipped,
         PersistFrames, PersistOcr, PersistCaptions, PersistVectors, RewriteFtsScenes,
         RewriteContentItems, RebuildGraph, Save, Fail, Crash, At
<1>2. ASSUME NEW k \in Jobs, k # j PROVE ~Running(k) /\ ~Running(k)'
  <2>1. job'[k] = job[k]
    BY <1>2, OthersKeep DEF JobSteps
  <2>2. ~Running(k)
    BY <1>1, <1>2 DEF Alone
  <2> QED
    BY <2>1, <2>2 DEF Running
<1> QED
  BY <1>1, <1>2 DEF Alone

\* The steps of a job but the ones that start or end it.
LEMMA PlanStays ==
  ASSUME TypeInv, NEW j \in Jobs, RunJob(j), Running(j)'
  PROVE  job'[j].plan = job[j].plan /\ Schedule(j)' = Schedule(j)
<1>1. job'[j].plan = job[j].plan
  <2>1. CASE \/ WriteFrames(j) \/ DropNearDuplicates(j) \/ Ocr(j) \/ Caption(j)
             \/ Embed(j) \/ EmbedSkipped(j)
    <3>1. \E x, e : Results(j, x, e)
      BY <2>1 DEF WriteFrames, DropNearDuplicates, Ocr, Caption, Embed, EmbedSkipped
    <3> QED
      BY <3>1, AfterResults
  <2>2. CASE \/ PersistFrames(j) \/ PersistOcr(j) \/ PersistCaptions(j)
             \/ PersistVectors(j) \/ RewriteFtsScenes(j)
             \/ RewriteContentItems(j) \/ RebuildGraph(j)
    <3>1. \E x : GoTo(j, x)
      BY <2>2 DEF PersistFrames, PersistOcr, PersistCaptions, PersistVectors,
                  RewriteFtsScenes, RewriteContentItems, RebuildGraph
    <3> QED
      BY <3>1, AfterGoTo
  <2>3. CASE Save(j)
    BY <2>3, AfterSave, EndedType DEF Running
  <2>4. CASE Fail(j)
    BY <2>4, AfterFail, EndedType DEF Running
  <2>5. CASE Crash(j)
    BY <2>5, AfterCrash
  <2> QED
    BY <2>1, <2>2, <2>3, <2>4, <2>5 DEF RunJob
<1> QED
  BY <1>1 DEF Schedule, SampleTimes

\* The instants of the rows change where a job persists what it sampled.
LEMMA RowSteps ==
  ASSUME TypeInv, NEW j \in Jobs, RunJob(j), NEW i \in Idx
  PROVE  \/ frames'[i].t = frames[i].t
         \/ PersistFrames(j) /\ i \in Taken(j) /\ frames'[i].t = job[j].cur[i].t
<1>0. frames[i] \in Row
  BY Shapes
<1>1. CASE PersistFrames(j)
  BY <1>1 DEF PersistFrames, Upserted
<1>2. CASE PersistOcr(j)
  BY <1>0, <1>2 DEF PersistOcr, Row
<1>3. CASE PersistCaptions(j)
  BY <1>0, <1>3 DEF PersistCaptions, Row
<1>4. CASE ~(PersistFrames(j) \/ PersistOcr(j) \/ PersistCaptions(j))
  <2>1. UNCHANGED frames
    BY <1>4 DEF RunJob, WriteFrames, DropNearDuplicates, Ocr, Caption, Embed, EmbedSkipped,
                PersistVectors, RewriteFtsScenes, RewriteContentItems, RebuildGraph,
                Save, Fail, Crash, tables
  <2> QED
    BY <2>1
<1> QED
  BY <1>1, <1>2, <1>3, <1>4

-----------------------------------------------------------------------------
(***************************************************************************)
(* A step of a job keeps how far it is.                                    *)
(***************************************************************************)

\* The stages that work on the entries of a job.
LEMMA StagesProgress ==
  ASSUME TypeInv, PointsKept, NEW j \in Jobs, Progress(j),
         WriteFrames(j) \/ DropNearDuplicates(j) \/ Ocr(j) \/ Caption(j)
           \/ Embed(j) \/ EmbedSkipped(j)
  PROVE  Progress(j)'
<1>0. /\ job[j].cur \in [Idx -> Entry] /\ job[j].saved \in [Idx -> Entry]
      /\ \A i \in Idx : job[j].cur[i] \in Entry
      /\ frames \in [Idx -> Row]
  BY Shapes
<1> USE DEF tables
<1> DEFINE cur == job[j].cur
<1>1. CASE WriteFrames(j)
  <2>1. PICK e \in [Idx -> Entry] :
          /\ Results(j, "dedup", e)
          /\ \A i \in Idx : e[i] # NoEntry =>
               /\ Schedule(j)[i] # 0 /\ files'[i] # 0
               /\ e[i] = [NoEntry EXCEPT !.t = Schedule(j)[i], !.thumb = files'[i]]
    BY <1>1, CallsLeave, TypeParts DEF TypeInv
  <2>r. Results(j, "dedup", e) /\ StageOf(j) = "sample"
    BY <1>1, <2>1 DEF WriteFrames, At
  <2>2. /\ job'[j].cur = e /\ job'[j].saved = job[j].saved /\ job'[j].pc = "dedup"
        /\ StageOf(j)' = "sample" /\ Schedule(j)' = Schedule(j)
    BY <2>r, AfterResults DEF Schedule, SampleTimes
  <2> DEFINE at == Schedule(j)
             Called(i) == [NoEntry EXCEPT !.t = at[i], !.thumb = files'[i]]
  <2>3. \A i \in Idx : /\ Called(i).t = at[i] /\ Called(i).thumb = files'[i]
                       /\ Called(i).cap = 0 /\ Called(i).vec = 0
    BY DEF NoEntry
  <2>4. \A i \in Idx : e[i] = NoEntry \/ (e[i] = Called(i) /\ at[i] # 0)
    BY <2>1
  <2>5. NoEntry.t = 0 /\ NoEntry.cap = 0 /\ NoEntry.vec = 0
    BY DEF NoEntry
  <2> HIDE DEF at, Called
  <2>6. \A i \in Idx : /\ e[i].t \in {0, at[i]}
                       /\ e[i].t # 0 => files'[i] = e[i].thumb
                       /\ e[i].cap = 0 /\ e[i].vec = 0
    BY <2>3, <2>4, <2>5
  <2>7. Scheduled(j, e) /\ \A i \in Idx : e[i].t # 0 => files'[i] = e[i].thumb
    <3> HIDE DEF Schedule
    <3> QED
      BY <2>6 DEF Scheduled, at
  <2> HIDE DEF Schedule
  <2>8. Scheduled(j, job[j].saved)' /\ Scheduled(j, job[j].cur)' /\ OnDisk(job[j].cur)'
    BY <2>2, <2>7 DEF Progress, Scheduled, OnDisk
  <2> QED
    BY <2>2, <2>8 DEF Progress, PastSample, PastOcr, InOcr
<1>2. CASE DropNearDuplicates(j)
  <2> DEFINE e == [i \in Idx |-> IF i \in Kept(j) THEN cur[i] ELSE NoEntry]
  <2>1. /\ Results(j, "persist", e) /\ StageOf(j) = "sample" /\ job[j].pc = "dedup"
        /\ files' = [i \in Idx |-> IF i \in Taken(j) \ Kept(j) THEN 0 ELSE files[i]]
    BY <1>2 DEF DropNearDuplicates, At
  <2>2. \A i \in Idx : (e[i] = cur[i] /\ i \in Kept(j)) \/ e[i] = NoEntry
    OBVIOUS
  <2> HIDE DEF e
  <2>3. /\ job'[j].cur = e /\ job'[j].saved = job[j].saved /\ job'[j].pc = "persist"
        /\ StageOf(j)' = "sample" /\ Schedule(j)' = Schedule(j)
    BY <2>1, AfterResults DEF Schedule, SampleTimes
  <2>4. Scheduled(j, cur) /\ Scheduled(j, job[j].saved) /\ OnDisk(cur)
    BY <2>1 DEF Progress
  <2>5. Scheduled(j, e)
    BY <2>2, <2>4 DEF Scheduled, NoEntry
  <2>6. \A i \in Idx : e[i].t # 0 => files'[i] = e[i].thumb
    BY <2>1, <2>2, <2>4 DEF OnDisk, NoEntry
  <2> HIDE DEF Schedule
  <2>7. Scheduled(j, job[j].saved)' /\ Scheduled(j, job[j].cur)' /\ OnDisk(job[j].cur)'
    BY <2>3, <2>4, <2>5, <2>6 DEF Scheduled, OnDisk
  <2> QED
    BY <2>3, <2>7 DEF Progress, PastSample, PastOcr, InOcr
<1>3. CASE Ocr(j)
  <2> DEFINE e == [i \in Idx |-> [cur[i] EXCEPT !.ocr =
                    IF i \in Taken(j) /\ files[i] \in WithText THEN files[i] ELSE 0]]
  <2>1. Results(j, "persist", e) /\ StageOf(j) = "ocr" /\ UNCHANGED <<files, frames, vec>>
    BY <1>3 DEF Ocr, At
  <2>2. \A i \in Idx : /\ e[i].t = cur[i].t /\ e[i].cap = cur[i].cap
                       /\ e[i].vec = cur[i].vec /\ e[i].thumb = cur[i].thumb
                       /\ cur[i].t # 0 => e[i].ocr = TextOf(files[i])
    BY <1>0 DEF Entry, Taken, TextOf
  <2> HIDE DEF e
  <2>3. /\ job'[j].cur = e /\ job'[j].saved = job[j].saved /\ job'[j].pc = "persist"
        /\ StageOf(j)' = "ocr" /\ Schedule(j)' = Schedule(j)
    BY <2>1, AfterResults DEF Schedule, SampleTimes
  <2>4. /\ Scheduled(j, cur) /\ Scheduled(j, job[j].saved) /\ OnDisk(cur) /\ InRows(cur)
        /\ OnDisk(job[j].saved) /\ InRows(job[j].saved)
    BY <2>1 DEF Progress, PastSample
  <2> HIDE DEF Schedule
  <2>5. /\ Scheduled(j, job[j].saved)' /\ Scheduled(j, job[j].cur)' /\ OnDisk(job[j].cur)'
        /\ InRows(job[j].cur)' /\ OnDisk(job[j].saved)' /\ InRows(job[j].saved)'
    BY <2>1, <2>2, <2>3, <2>4 DEF Scheduled, OnDisk, InRows
  <2>6. Read(job[j].cur)'
    BY <2>2, <2>3, <2>4 DEF Read, OnDisk, TextOf
  <2> QED
    BY <2>3, <2>5, <2>6 DEF Progress, PastSample, PastOcr, InOcr
<1>4. CASE Caption(j) \/ Embed(j) \/ EmbedSkipped(j)
  <2>0. /\ StageOf(j) \in {"caption", "embed"} /\ UNCHANGED <<files, frames, vec>>
        /\ Running(j) /\ job[j].pc = "stage"
    BY <1>4 DEF Caption, Embed, EmbedSkipped, At
  <2>1. /\ Scheduled(j, cur) /\ Scheduled(j, job[j].saved) /\ OnDisk(cur) /\ InRows(cur)
        /\ OnDisk(job[j].saved) /\ InRows(job[j].saved)
        /\ Read(cur) /\ TextsInRows(cur) /\ Read(job[j].saved) /\ TextsInRows(job[j].saved)
    BY <2>0 DEF Progress, PastSample, PastOcr
  <2>2. \E e : /\ Results(j, "persist", e)
               /\ \A i \in Idx : /\ e[i].t = cur[i].t /\ e[i].thumb = cur[i].thumb
                                 /\ e[i].ocr = cur[i].ocr
                                 /\ e[i].t = 0 => e[i].cap = 0 /\ e[i].vec = 0
                                 /\ e[i].vec \in {0, e[i].thumb}
    <3>1. CASE Caption(j)
      <4> DEFINE e == [i \in Idx |-> [cur[i] EXCEPT !.cap =
                        IF i \in NeedsCaption(j) THEN files[i] ELSE @]]
      <4>1. Results(j, "persist", e)
        BY <3>1 DEF Caption
      <4>2. \A i \in Idx : /\ e[i].t = cur[i].t /\ e[i].thumb = cur[i].thumb
                           /\ e[i].ocr = cur[i].ocr /\ e[i].vec = cur[i].vec
                           /\ cur[i].t = 0 => e[i].cap = cur[i].cap
        BY <1>0 DEF Entry, NeedsCaption, Taken
      <4> HIDE DEF e
      <4> QED
        BY <2>1, <4>1, <4>2 DEF Scheduled
    <3>2. CASE Embed(j)
      <4> DEFINE e == [i \in Idx |-> [cur[i] EXCEPT !.vec =
                        IF i \in Taken(j) THEN files[i] ELSE 0]]
      <4>1. Results(j, "persist", e)
        BY <3>2 DEF Embed
      <4>2. \A i \in Idx : /\ e[i].t = cur[i].t /\ e[i].thumb = cur[i].thumb
                           /\ e[i].ocr = cur[i].ocr /\ e[i].cap = cur[i].cap
                           /\ e[i].vec = IF cur[i].t # 0 THEN files[i] ELSE 0
        BY <1>0 DEF Entry, Taken
      <4> HIDE DEF e
      <4> QED
        BY <2>1, <4>1, <4>2 DEF Scheduled, OnDisk
    <3>3. CASE EmbedSkipped(j)
      <4> DEFINE e == [i \in Idx |-> [cur[i] EXCEPT !.vec = 0]]
      <4>1. Results(j, "persist", e)
        BY <3>3 DEF EmbedSkipped
      <4>2. \A i \in Idx : /\ e[i].t = cur[i].t /\ e[i].thumb = cur[i].thumb
                           /\ e[i].ocr = cur[i].ocr /\ e[i].cap = cur[i].cap
                           /\ e[i].vec = 0
        BY <1>0 DEF Entry
      <4> HIDE DEF e
      <4> QED
        BY <2>1, <4>1, <4>2 DEF Scheduled
    <3> QED
      BY <1>4, <3>1, <3>2, <3>3
  <2>3. PICK e : /\ Results(j, "persist", e)
                 /\ \A i \in Idx : /\ e[i].t = cur[i].t /\ e[i].thumb = cur[i].thumb
                                   /\ e[i].ocr = cur[i].ocr
                                   /\ e[i].t = 0 => e[i].cap = 0 /\ e[i].vec = 0
                                   /\ e[i].vec \in {0, e[i].thumb}
    BY <2>2
  <2>4. /\ job'[j].cur = e /\ job'[j].saved = job[j].saved /\ job'[j].pc = "persist"
        /\ StageOf(j)' = StageOf(j) /\ Schedule(j)' = Schedule(j)
    BY <2>3, AfterResults DEF Schedule, SampleTimes
  <2> HIDE DEF Schedule
  <2>5. /\ Scheduled(j, job[j].saved)' /\ Scheduled(j, job[j].cur)' /\ OnDisk(job[j].cur)'
        /\ InRows(job[j].cur)' /\ OnDisk(job[j].saved)' /\ InRows(job[j].saved)'
    BY <2>0, <2>1, <2>3, <2>4 DEF Scheduled, OnDisk, InRows
  <2>6. /\ Read(job[j].cur)' /\ TextsInRows(job[j].cur)'
        /\ Read(job[j].saved)' /\ TextsInRows(job[j].saved)'
    BY <2>0, <2>1, <2>3, <2>4 DEF Read, TextsInRows, TextOf
  <2> QED
    BY <2>4, <2>5, <2>6 DEF Progress
<1> QED
  BY <1>1, <1>2, <1>3, <1>4
\* The transactions on the tables a job has results for.
LEMMA PersistProgress ==
  ASSUME TypeInv, NEW j \in Jobs, Progress(j),
         PersistFrames(j) \/ PersistOcr(j) \/ PersistCaptions(j) \/ PersistVectors(j)
  PROVE  Progress(j)'
<1>0. /\ job[j].cur \in [Idx -> Entry] /\ job[j].saved \in [Idx -> Entry]
      /\ \A i \in Idx : frames[i] \in Row /\ job[j].cur[i] \in Entry
  BY Shapes
<1> DEFINE cur == job[j].cur
           saved == job[j].saved
<1>1. /\ job'[j].cur = cur /\ job'[j].saved = saved /\ StageOf(j)' = StageOf(j)
      /\ Taken(j)' = Taken(j) /\ UNCHANGED files /\ Schedule(j)' = Schedule(j)
  <2>1. (\E x : GoTo(j, x)) /\ UNCHANGED files
    BY DEF PersistFrames, PersistOcr, PersistCaptions, PersistVectors
  <2> QED
    BY <2>1, AfterGoTo DEF Schedule, SampleTimes
<1>2. Scheduled(j, cur) /\ Scheduled(j, saved)
  BY DEF Progress
<1>3. Scheduled(j, job[j].cur)' /\ Scheduled(j, job[j].saved)'
  <2> HIDE DEF Schedule
  <2> QED
    BY <1>1, <1>2 DEF Scheduled
<1>4. CASE PersistFrames(j)
  <2>1. StageOf(j) = "sample" /\ job[j].pc = "persist" /\ job'[j].pc = "items"
    BY <1>4, AfterGoTo DEF PersistFrames, At
  <2>2. OnDisk(job[j].cur)'
    BY <1>1, <2>1 DEF Progress, OnDisk
  <2>3. InRows(job[j].cur)'
    BY <1>1, <1>4 DEF PersistFrames, InRows, Upserted, Taken
  <2> QED
    BY <1>1, <1>3, <2>1, <2>2, <2>3 DEF Progress, PastSample, PastOcr, InOcr
<1>5. CASE ~PersistFrames(j)
  <2>1. /\ StageOf(j) \in {"ocr", "caption", "embed"} /\ job[j].pc = "persist"
        /\ \A i \in Idx : frames'[i].t = frames[i].t
    <3>1. PersistOcr(j) \/ PersistCaptions(j) \/ PersistVectors(j)
      BY <1>5
    <3>2. \A i \in Idx : frames'[i].t = frames[i].t
      BY <1>5, <3>1, RowSteps DEF RunJob
    <3> QED
      BY <3>1, <3>2 DEF PersistOcr, PersistCaptions, PersistVectors, At
  <2>2. OnDisk(cur) /\ OnDisk(saved) /\ InRows(cur) /\ InRows(saved)
    BY <2>1 DEF Progress, PastSample
  <2>3. /\ OnDisk(job[j].cur)' /\ OnDisk(job[j].saved)'
        /\ InRows(job[j].cur)' /\ InRows(job[j].saved)'
    BY <1>1, <2>1, <2>2 DEF OnDisk, InRows
  <2>4. CASE PersistOcr(j)
    <3>1. /\ StageOf(j) = "ocr" /\ job'[j].pc = "fts" /\ Read(cur)
      BY <2>4, AfterGoTo DEF PersistOcr, At, Progress, InOcr
    <3>2. TextsInRows(job[j].cur)'
      <4>1. ASSUME NEW i \in Idx, cur[i].t # 0 PROVE frames'[i].ocr = cur[i].ocr
        <5>1. HasRow(i) /\ i \in Taken(j)
          BY <2>2, <4>1 DEF InRows, HasRow, Taken
        <5>2. frames'[i] = [frames[i] EXCEPT !.ocr = cur[i].ocr]
          BY <2>4, <5>1 DEF PersistOcr
        <5> QED
          BY <1>0, <5>2 DEF Row
      <4> QED
        BY <1>1, <4>1 DEF TextsInRows
    <3>3. Read(job[j].cur)'
      BY <1>1, <3>1 DEF Read, TextOf
    <3> QED
      BY <1>1, <1>3, <2>3, <3>1, <3>2, <3>3 DEF Progress, PastOcr, InOcr
  <2>5. CASE PersistCaptions(j) \/ PersistVectors(j)
    <3>1. StageOf(j) \in {"caption", "embed"} /\ job'[j].pc \in {"fts", "save"}
      BY <2>5, AfterGoTo DEF PersistCaptions, PersistVectors, At
    <3>2. Read(cur) /\ Read(saved) /\ TextsInRows(cur) /\ TextsInRows(saved)
      BY <3>1 DEF Progress, PastOcr
    <3>3. \A i \in Idx : frames'[i].ocr = frames[i].ocr
      <4> SUFFICES ASSUME NEW i \in Idx PROVE frames'[i].ocr = frames[i].ocr
        OBVIOUS
      <4>1. CASE PersistCaptions(j)
        <5>1. frames'[i] = frames[i] \/ \E x : frames'[i] = [frames[i] EXCEPT !.cap = x]
          BY <4>1 DEF PersistCaptions
        <5> QED
          BY <1>0, <5>1 DEF Row
      <4>2. CASE PersistVectors(j)
        BY <4>2 DEF PersistVectors
      <4> QED
        BY <2>5, <4>1, <4>2
    <3>4. /\ Read(job[j].cur)' /\ Read(job[j].saved)'
          /\ TextsInRows(job[j].cur)' /\ TextsInRows(job[j].saved)'
      BY <1>1, <3>2, <3>3 DEF Read, TextsInRows, TextOf
    <3>5. StageOf(j) = "embed" => VectorsFiled(job[j].cur)'
      <4> SUFFICES ASSUME StageOf(j) = "embed", NEW i \in Idx, cur[i].vec # 0
                   PROVE  vec'[i] = cur[i].vec
        BY <1>1 DEF VectorsFiled
      <4>1. HasRow(i)
        BY <1>2, <2>2 DEF Scheduled, InRows, HasRow
      <4>2. PersistVectors(j)
        BY <2>5 DEF PersistCaptions, At
      <4> QED
        BY <4>1, <4>2 DEF PersistVectors
    <3> QED
      BY <1>1, <1>3, <2>3, <3>1, <3>4, <3>5 DEF Progress, PastOcr, InOcr
  <2> QED
    BY <1>5, <2>4, <2>5
<1> QED
  BY <1>4, <1>5

\* The steps that only move a job on, or back.
LEMMA MovesProgress ==
  ASSUME TypeInv, PointsKept, NEW j \in Jobs, Running(j)', Progress(j),
         \/ RewriteFtsScenes(j) \/ RewriteContentItems(j) \/ RebuildGraph(j)
         \/ Save(j) \/ Crash(j)
  PROVE  Progress(j)'
<1> DEFINE cur == job[j].cur
           saved == job[j].saved
<1> USE DEF tables
<1>0. UNCHANGED <<files, frames, vec>> /\ Schedule(j)' = Schedule(j)
  <2>1. RunJob(j)
    BY DEF RunJob
  <2>2. UNCHANGED <<files, frames, vec>>
    BY DEF RewriteFtsScenes, RewriteContentItems, RebuildGraph, Save, Crash
  <2> QED
    BY <2>1, <2>2, PlanStays
<1>1. \A e : /\ Scheduled(j, e) => Scheduled(j, e)'
             /\ OnDisk(e) => OnDisk(e)'
             /\ InRows(e) => InRows(e)'
             /\ Read(e) => Read(e)'
             /\ TextsInRows(e) => TextsInRows(e)'
  <2> HIDE DEF Schedule
  <2> QED
    BY <1>0 DEF Scheduled, OnDisk, InRows, Read, TextsInRows, TextOf
<1>2. CASE RewriteFtsScenes(j) \/ RewriteContentItems(j) \/ RebuildGraph(j)
  <2>1. /\ job'[j].cur = cur /\ job'[j].saved = saved /\ StageOf(j)' = StageOf(j)
        /\ Running(j) /\ job[j].pc \in {"fts", "items", "graph"}
        /\ job'[j].pc \in {"items", "graph", "save"}
    BY <1>2, AfterGoTo DEF RewriteFtsScenes, RewriteContentItems, RebuildGraph
  <2>2. StageOf(j) # "embed" /\ (StageOf(j) = "sample" => job[j].pc # "fts")
    BY <2>1 DEF PointsKept, PointsOf
  <2>3. /\ Scheduled(j, cur) /\ Scheduled(j, saved) /\ OnDisk(cur) /\ InRows(cur)
        /\ PastSample(j) => OnDisk(saved) /\ InRows(saved)
        /\ PastOcr(j) \/ InOcr(j) => Read(cur) /\ TextsInRows(cur)
        /\ PastOcr(j) => Read(saved) /\ TextsInRows(saved)
    BY <2>1 DEF Progress, PastSample
  <2> QED
    BY <1>1, <2>1, <2>2, <2>3 DEF Progress, PastSample, PastOcr, InOcr
<1>3. CASE Save(j)
  <2>1. /\ job'[j].cur = cur /\ job'[j].saved = cur /\ job'[j].pc = "stage"
        /\ StageOf(j)' \in {"ocr", "caption", "embed"}
        /\ StageOf(j) = "sample" => StageOf(j)' = "ocr"
    BY <1>3, AfterSave, EndedType DEF Running
  <2>2. job[j].pc = "save" /\ StageOf(j) \in {"sample", "ocr", "caption", "embed"}
    BY <1>3, Shapes DEF Save
  <2>3. /\ Scheduled(j, cur) /\ OnDisk(cur) /\ InRows(cur)
        /\ StageOf(j) # "sample" => Read(cur) /\ TextsInRows(cur)
    BY <2>2 DEF Progress, PastOcr, InOcr
  <2> QED
    BY <1>1, <2>1, <2>3 DEF Progress, PastSample, PastOcr, InOcr
<1>4. CASE Crash(j)
  <2>1. /\ job'[j].cur = saved /\ job'[j].saved = saved /\ job'[j].pc = "stage"
        /\ StageOf(j)' = StageOf(j)
    BY <1>4, AfterCrash
  <2>2. /\ Scheduled(j, saved) /\ (PastSample(j) => OnDisk(saved) /\ InRows(saved))
        /\ PastOcr(j) => Read(saved) /\ TextsInRows(saved)
    BY DEF Progress
  <2> QED
    BY <1>1, <2>1, <2>2 DEF Progress, PastSample, PastOcr, InOcr
<1> QED
  BY <1>2, <1>3, <1>4

\* A step of a running job.
LEMMA RunProgress ==
  ASSUME TypeInv, PointsKept, NEW j \in Jobs, Progress(j), RunJob(j), Running(j)'
  PROVE  Progress(j)'
<1>1. ~Fail(j)
  BY AfterFail, EndedType DEF Running
<1> QED
  BY <1>1, StagesProgress, PersistProgress, MovesProgress DEF RunJob

-----------------------------------------------------------------------------
(***************************************************************************)
(* The invariant is kept.                                                  *)
(***************************************************************************)

\* A job that begins has numbers and instants that no row has.
LEMMA PlanIsNew ==
  ASSUME NEW j \in Jobs, Window[j].interval \in Nat, Window[j].interval > 0,
         frames \in [Idx -> Row]
  PROVE  LET plan == Plan(Window[j])
         IN  /\ \A i \in Idx : plan[i] # 0 => ~HasRow(i)
             /\ \A i, k \in Idx : plan[i] # 0 /\ plan[i] = plan[k] => i = k
             /\ \A i, k \in Idx : plan[i] # 0 => frames[k].t # plan[i]
<1> DEFINE wanted == Wanted(Window[j])
           plan == Numbered(NextIdx, wanted)
<1>1. wanted \subseteq Times
  BY DEF Wanted, BucketMidpoints
<1>2. \A i \in Idx : plan[i] # 0 =>
        /\ plan[i] \in wanted
        /\ i = NextIdx + Cardinality(Before(wanted, plan[i]))
  <2> HIDE DEF wanted
  <2> QED
    BY <1>1, NumberedType
<1>3. ASSUME NEW i \in Idx, plan[i] # 0 PROVE ~HasRow(i)
  <2> DEFINE before == Before(wanted, plan[i])
  <2>1. Cardinality(before) \in Nat
    <3>1. before \subseteq Times
      BY <1>1 DEF Before
    <3> HIDE DEF before
    <3> QED
      BY <3>1, InstantsFinite
  <2>2. i = NextIdx + Cardinality(before)
    BY <1>2, <1>3
  <2> HIDE DEF before, plan
  <2> QED
    BY <2>1, <2>2, NextIdxAbove DEF Idx
<1>4. ASSUME NEW i \in Idx, NEW k \in Idx, plan[i] # 0, plan[i] = plan[k] PROVE i = k
  <2> HIDE DEF wanted
  <2> QED
    BY <1>1, <1>4, NumberedOnce
<1>5. ASSUME NEW i \in Idx, NEW k \in Idx, plan[i] # 0 PROVE frames[k].t # plan[i]
  <2>1. plan[i] \in wanted
    BY <1>2, <1>5
  <2>2. plan[i] \in Times /\ ~Covered(plan[i], Window[j].interval)
    BY <1>1, <2>1 DEF Wanted
  <2>3. frames[k].t \in Int
    BY DEF Row, Picture
  <2> HIDE DEF plan
  <2> QED
    BY <1>5, <2>2, <2>3 DEF Covered, HasRow, Times
<1> QED
  BY <1>3, <1>4, <1>5 DEF Plan

LEMMA StartKeeps ==
  ASSUME TypeInv, Orderly, orderly, NEW j \in Jobs, StartIngest(j) \/ RequestDensify(j)
  PROVE  Orderly'
<1>1. \A k \in Jobs : ~Running(k)
  BY DEF StartIngest, RequestDensify, MayAsk
<1>2. \A k \in Jobs : k # j => job'[k] = job[k]
  BY OthersKeep DEF JobSteps
<1>3. \A k \in Jobs : Running(k)' => k = j
  BY <1>1, <1>2 DEF Running
<1>4. /\ UNCHANGED <<frames, vec, sceneVec, files>>
      /\ \/ job'[j] = Ended("done")
         \/ /\ job'[j].stage = 1 /\ job'[j].pc = "stage"
            /\ job'[j].cur = NoEntries /\ job'[j].saved = NoEntries
            /\ Kind[j] = "densify" => job'[j].plan = Plan(Window[j])
  BY AfterStart DEF tables
<1>5. frames \in [Idx -> Row] /\ Window[j].interval \in Nat /\ Window[j].interval > 0
  BY Shapes
<1>6. Running(j)' => Progress(j)'
  <2> SUFFICES ASSUME Running(j)' PROVE Progress(j)'
    OBVIOUS
  <2>1. job'[j] # Ended("done")
    BY EndedType DEF Running
  <2>2. \A i \in Idx : LET e == NoEntries[i] IN e.t = 0 /\ e.cap = 0 /\ e.vec = 0
    BY DEF NoEntries, NoEntry
  <2>3. StageOf(j)' = "sample"
    BY <1>4, <2>1 DEF StageOf, StageOrder
  <2> HIDE DEF Schedule
  <2>4. Scheduled(j, NoEntries)'
    BY <2>2 DEF Scheduled
  <2> QED
    BY <1>4, <2>1, <2>3, <2>4 DEF Progress, PastSample, PastOcr, InOcr
<1>7. Densifying(j)' => OwnPlan(j)' /\ job'[j].plan = Plan(Window[j])
  <2> SUFFICES ASSUME Densifying(j)' PROVE OwnPlan(j)' /\ job'[j].plan = Plan(Window[j])
    OBVIOUS
  <2>1. job'[j].plan = Plan(Window[j])
    BY <1>4, EndedType DEF Running, Densifying
  <2> HIDE DEF Plan
  <2> QED
    BY <1>4, <1>5, <2>1, PlanIsNew DEF OwnPlan, HasRow
<1>8. SceneFound'
  <2> SUFFICES ASSUME NEW p \in sceneVec PROVE \E i \in Idx : Source(i, p)'
    BY <1>4 DEF SceneFound
  <2>1. PICK i \in Idx : Source(i, p)
    BY DEF Orderly, SceneFound
  <2>2. Densifying(j)' => job'[j].plan[i] = 0
    BY <1>5, <1>7, <2>1, PlanIsNew DEF Source
  <2>3. \A k \in Jobs : Densifying(k)' => k = j
    BY <1>3 DEF Densifying
  <2>4. SampleTimes' = SampleTimes
    BY DEF SampleTimes
  <2> QED
    BY <1>4, <2>1, <2>2, <2>3, <2>4 DEF Source, HasRow
<1> QED
  BY <1>3, <1>6, <1>7, <1>8 DEF Orderly, Alone, Densifying

LEMMA RunKeeps ==
  ASSUME TypeInv, PointsKept, Orderly, NEW j \in Jobs, RunJob(j)
  PROVE  Orderly'
<1>1. /\ Running(j) /\ Alone' /\ \A k \in Jobs : Running(k)' => k = j
  BY OnlyRunner DEF Orderly
<1>2. Progress(j) /\ (Densifying(j) => OwnPlan(j))
  BY <1>1 DEF Orderly
<1>3. /\ Running(j)' => Progress(j)'
      /\ Running(j)' => job'[j].plan = job[j].plan
  BY <1>2, RunProgress, PlanStays
<1>4. \A i \in Idx : \/ frames'[i].t = frames[i].t
                     \/ frames'[i].t = job[j].cur[i].t /\ job[j].cur[i].t # 0
  BY RowSteps DEF Taken
<1>5. \A i \in Idx : job[j].cur[i].t \in {0, Schedule(j)[i]}
  BY <1>2 DEF Progress, Scheduled
<1>6. Densifying(j)' => OwnPlan(j)'
  <2> SUFFICES ASSUME Densifying(j)' PROVE OwnPlan(j)'
    OBVIOUS
  <2> DEFINE plan == job[j].plan
  <2>1. job'[j].plan = plan /\ OwnPlan(j) /\ Kind[j] = "densify"
    BY <1>1, <1>2, <1>3 DEF Densifying
  <2>2. \A i \in Idx : frames'[i].t = frames[i].t \/ (frames'[i].t = plan[i] /\ plan[i] # 0)
    BY <1>4, <1>5, <2>1 DEF Schedule
  <2> QED
    BY <2>1, <2>2 DEF OwnPlan, HasRow
<1>7. SceneFound'
  <2> SUFFICES ASSUME NEW p \in sceneVec' PROVE \E i \in Idx : Source(i, p)'
    BY DEF SceneFound
  <2>0. SampleTimes' = SampleTimes /\ \A i \in Idx : HasRow(i) => HasRow(i)'
    BY <1>4 DEF SampleTimes, HasRow
  <2>1. CASE PersistVectors(j) /\ Kind[j] = "full" /\ Vectors(j) # {}
    <3>1. PICK i \in Idx : p = job[j].cur[i].vec /\ p # 0
      BY <2>1 DEF PersistVectors, Pooled, Vectors
    <3>2. StageOf(j) = "embed"
      BY <2>1 DEF PersistVectors, At
    <3>3. HasRow(i) /\ SampleTimes[i] # 0
      BY <1>2, <2>1, <3>1, <3>2 DEF Progress, Scheduled, PastSample, InRows, HasRow, Schedule
    <3>4. vec'[i] = p
      BY <2>1, <3>1, <3>3 DEF PersistVectors
    <3>5. \A k \in Jobs : ~Densifying(k)'
      BY <1>1, <2>1 DEF Densifying
    <3> QED
      BY <2>0, <3>3, <3>4, <3>5 DEF Source
  <2>2. CASE ~(PersistVectors(j) /\ Kind[j] = "full" /\ Vectors(j) # {})
    <3>1. p \in sceneVec
      <4>1. CASE PersistVectors(j)
        BY <2>2, <4>1 DEF PersistVectors, Pooled
      <4>2. CASE ~PersistVectors(j)
        BY <4>2 DEF RunJob, WriteFrames, DropNearDuplicates, Ocr, Caption, Embed, EmbedSkipped,
               PersistFrames, PersistOcr, PersistCaptions, RewriteFtsScenes,
               RewriteContentItems, RebuildGraph, Save, Fail, Crash, tables
      <4> QED
        BY <4>1, <4>2
    <3>2. PICK i \in Idx : Source(i, p)
      BY <3>1 DEF Orderly, SceneFound
    <3>3. vec'[i] = vec[i]
      <4>1. CASE PersistVectors(j)
        <5>1. job[j].cur[i].vec = 0
          <6>1. CASE Kind[j] = "full"
            BY <2>2, <4>1, <6>1 DEF Vectors
          <6>2. CASE Kind[j] = "densify"
            BY <1>1, <1>2, <3>2, <6>2 DEF Source, Densifying, Progress, Scheduled, Schedule
          <6> QED
            BY <6>1, <6>2
        <5>2. vec' = [k \in Idx |-> IF job[j].cur[k].vec # 0 /\ HasRow(k)
                                    THEN job[j].cur[k].vec ELSE vec[k]]
          BY <4>1 DEF PersistVectors
        <5> QED
          BY <5>1, <5>2
      <4>2. CASE ~PersistVectors(j)
        BY <4>2 DEF RunJob, WriteFrames, DropNearDuplicates, Ocr, Caption, Embed, EmbedSkipped,
               PersistFrames, PersistOcr, PersistCaptions, RewriteFtsScenes,
               RewriteContentItems, RebuildGraph, Save, Fail, Crash, tables
      <4> QED
        BY <4>1, <4>2
    <3>4. \A k \in Jobs : Densifying(k)' => job'[k].plan[i] = 0
      BY <1>1, <1>3, <3>2 DEF Densifying, Source
    <3> QED
      BY <2>0, <3>2, <3>3, <3>4 DEF Source
  <2> QED
    BY <2>1, <2>2
<1> QED
  BY <1>1, <1>3, <1>6, <1>7 DEF Orderly, Densifying

LEMMA OrderlyInit == Init => OrderlyInv
<1> SUFFICES ASSUME Init PROVE OrderlyInv
  OBVIOUS
<1>1. \A j \in Jobs : ~Running(j)
  BY DEF Init, Running, NoJob
<1>2. Orderly
  BY <1>1 DEF Orderly, Alone, SceneFound, Densifying, Init
<1> QED
  BY <1>2, IndexTypeInit, OwedInit DEF OrderlyInv

LEMMA OrderlyStep == OrderlyInv /\ [Next]_vars => OrderlyInv'
<1> SUFFICES ASSUME OrderlyInv, [Next]_vars PROVE OrderlyInv'
  OBVIOUS
<1>1. TypeInv' /\ PointsKept'
  BY IndexTypeStep, PointsStep DEF OrderlyInv
<1>2. ASSUME orderly' PROVE Orderly'
  <2>1. CASE UNCHANGED vars
    <3>1. Orderly /\ SampleTimes' = SampleTimes
      BY <1>2, <2>1 DEF OrderlyInv, vars, SampleTimes
    <3>2. \A j \in Jobs : Running(j)' = Running(j) /\ StageOf(j)' = StageOf(j)
      BY <2>1 DEF vars, Running, StageOf
    <3> QED
      BY <2>1, <3>1, <3>2
         DEF vars, tables, Orderly, Alone, SceneFound, Source, Densifying, OwnPlan, HasRow,
             Progress, Scheduled, Schedule, OnDisk, InRows, Read, TextsInRows, VectorsFiled,
             PastSample, PastOcr, InOcr, TextOf
  <2>2. ASSUME NEW j \in Jobs, StartIngest(j) \/ RequestDensify(j) PROVE Orderly'
    <3>1. orderly
      BY <1>2, <2>2 DEF StartIngest, RequestDensify
    <3> QED
      BY <2>2, <3>1, StartKeeps DEF OrderlyInv
  <2>3. ASSUME NEW j \in Jobs, RunJob(j) PROVE Orderly'
    <3>1. UNCHANGED orderly
      BY <2>3 DEF RunJob, WriteFrames, DropNearDuplicates, Ocr, Caption, Embed, EmbedSkipped,
                  PersistFrames, PersistOcr, PersistCaptions, PersistVectors, RewriteFtsScenes,
                  RewriteContentItems, RebuildGraph, Save, Fail, Crash
    <3> QED
      BY <1>2, <2>3, <3>1, RunKeeps DEF OrderlyInv
  <2> QED
    BY <2>1, <2>2, <2>3 DEF Next
<1> QED
  BY <1>1, <1>2 DEF OrderlyInv

-----------------------------------------------------------------------------
(***************************************************************************)
(* The theorems.                                                           *)
(***************************************************************************)

\* While a job runs, orderly callers ask for no other.
LEMMA NobodyElse ==
  ASSUME OrderlyInv, orderly, NEW j \in Jobs, Running(j), [Next]_vars
  PROVE  RunJob(j) \/ UNCHANGED vars
<1>1. ASSUME NEW k \in Jobs PROVE ~StartIngest(k) /\ ~RequestDensify(k)
  BY DEF StartIngest, RequestDensify, MayAsk
<1>2. ASSUME NEW k \in Jobs, RunJob(k) PROVE k = j
  BY <1>2, OnlyRunner DEF OrderlyInv, Orderly
<1> QED
  BY <1>1, <1>2 DEF Next

\* A job that ends well has stored every frame it took and all it made of it:
\* row, text, file and vector are of the picture it went on with.  For every
\* choice of runners that die, of calls of ffmpeg that fail in one attempt and
\* not in the next, of near-duplicates, and of encoders that are not there.
THEOREM FramesStored == Spec => SampledFramesStored
<1>1. OrderlyInv /\ [Next]_vars =>
        [orderly => \A j \in Jobs : Running(j) /\ job'[j].status = "done" =>
                      \A i \in Taken(j) : StoredAsTaken(j, i)]_vars
  <2> SUFFICES ASSUME OrderlyInv, [Next]_vars, orderly, NEW j \in Jobs,
                      Running(j), job'[j].status = "done", NEW i \in Taken(j)
               PROVE  StoredAsTaken(j, i)
    OBVIOUS
  <2>0. i \in Idx /\ job[j].cur[i].t # 0 /\ job[j].status = "running" /\ TypeInv
    BY DEF Taken, Running, OrderlyInv
  <2>1. Save(j) /\ job'[j] = Ended("done")
    <3>1. RunJob(j)
      BY <2>0, NobodyElse DEF vars
    <3>2. CASE \/ WriteFrames(j) \/ DropNearDuplicates(j) \/ Ocr(j) \/ Caption(j)
               \/ Embed(j) \/ EmbedSkipped(j)
      <4>1. \E x, e : Results(j, x, e)
        BY <3>2 DEF WriteFrames, DropNearDuplicates, Ocr, Caption, Embed, EmbedSkipped
      <4> QED
        BY <2>0, <4>1, AfterResults
    <3>3. CASE \/ PersistFrames(j) \/ PersistOcr(j) \/ PersistCaptions(j)
               \/ PersistVectors(j) \/ RewriteFtsScenes(j)
               \/ RewriteContentItems(j) \/ RebuildGraph(j)
      <4>1. \E x : GoTo(j, x)
        BY <3>3 DEF PersistFrames, PersistOcr, PersistCaptions, PersistVectors,
                    RewriteFtsScenes, RewriteContentItems, RebuildGraph
      <4> QED
        BY <2>0, <4>1, AfterGoTo
    <3>4. ~Fail(j) /\ ~Crash(j)
      BY <2>0, AfterFail, AfterCrash, EndedType DEF Running
    <3> QED
      BY <2>0, <3>1, <3>2, <3>3, <3>4, AfterSave DEF RunJob
  <2>2. StageOf(j) = "embed" /\ job[j].pc = "save"
    <3>1. job'[j].status # "running"
      OBVIOUS
    <3> QED
      BY <2>0, <2>1, <3>1, AfterSave DEF Save
  <2>3. Progress(j)
    BY DEF OrderlyInv, Orderly
  <2>4. /\ Scheduled(j, job[j].cur) /\ OnDisk(job[j].cur) /\ InRows(job[j].cur)
        /\ Read(job[j].cur) /\ TextsInRows(job[j].cur) /\ VectorsFiled(job[j].cur)
    BY <2>2, <2>3 DEF Progress, PastSample, PastOcr
  <2> QED
    BY <2>0, <2>4 DEF StoredAsTaken, Scheduled, OnDisk, InRows, Read, TextsInRows,
                      VectorsFiled, TextOf
<1> QED
  BY <1>1, OrderlyInit, OrderlyStep, PTL DEF Spec, SampledFramesStored

\* Each picture in the scene's vector is the vector of a row an ingest wrote,
\* whatever was densified, lost, dropped or skipped since, and also while a
\* job is under way.
THEOREM SceneVectorFromRows == Spec => []SceneVectorOfRows
<1>1. OrderlyInv => SceneVectorOfRows
  BY DEF OrderlyInv, Orderly, SceneFound, Source, SceneVectorOfRows
<1> QED
  BY <1>1, OrderlyInit, OrderlyStep, PTL DEF Spec

\* A densify touches no file, row or vector of the frames there are, of any
\* but the instants it was asked for: its numbers are free, whichever numbers
\* earlier jobs planned and did not use.
THEOREM DensifyKeepsFrames == Spec => DensifyLeavesFrames
<1>1. OrderlyInv /\ [Next]_vars =>
        [orderly => \A j \in Jobs : Densifying(j) =>
           \A i \in Idx : HasRow(i) /\ frames[i].t \notin PlannedInstants(j) =>
             UNCHANGED <<files[i], frames[i], vec[i]>>]_vars
  <2> SUFFICES ASSUME OrderlyInv, [Next]_vars, orderly, NEW j \in Jobs, Densifying(j),
                      NEW i \in Idx, HasRow(i), frames[i].t \notin PlannedInstants(j)
               PROVE  UNCHANGED <<files[i], frames[i], vec[i]>>
    OBVIOUS
  <2>0. TypeInv /\ Progress(j) /\ OwnPlan(j) /\ Running(j) /\ Kind[j] = "densify"
    BY DEF OrderlyInv, Orderly, Densifying
  <2>1. job[j].plan[i] = 0
    BY <2>0 DEF OwnPlan, PlannedInstants
  <2>2. Schedule(j)[i] = 0
    BY <2>0, <2>1 DEF Schedule
  <2>3. i \notin Taken(j) /\ job[j].cur[i].cap = 0 /\ job[j].cur[i].vec = 0
    BY <2>0, <2>2 DEF Progress, Scheduled, Taken
  <2>4. /\ files \in [Idx -> Picture] /\ vec \in [Idx -> Picture] /\ frames \in [Idx -> Row]
    BY <2>0, Shapes
  <2>5. CASE UNCHANGED vars
    BY <2>5 DEF vars, tables
  <2>6. CASE WriteFrames(j)
    <3>1. files'[i] = files[i]
      BY <2>0, <2>2, <2>6, CallsLeave, TypeParts DEF TypeInv
    <3> QED
      BY <2>6, <3>1 DEF WriteFrames, tables
  <2>7. CASE DropNearDuplicates(j)
    BY <2>3, <2>7 DEF DropNearDuplicates, tables
  <2>8. CASE PersistFrames(j) \/ PersistOcr(j) \/ PersistCaptions(j) \/ PersistVectors(j)
    BY <2>3, <2>4, <2>8 DEF PersistFrames, PersistOcr, PersistCaptions, PersistVectors
  <2>9. CASE \/ Ocr(j) \/ Caption(j) \/ Embed(j) \/ EmbedSkipped(j)
             \/ RewriteFtsScenes(j) \/ RewriteContentItems(j) \/ RebuildGraph(j)
             \/ Save(j) \/ Fail(j) \/ Crash(j)
    BY <2>9 DEF Ocr, Caption, Embed, EmbedSkipped, RewriteFtsScenes, RewriteContentItems,
                RebuildGraph, Save, Fail, Crash, tables
  <2> QED
    BY <2>0, <2>5, <2>6, <2>7, <2>8, <2>9, NobodyElse DEF RunJob
<1> QED
  BY <1>1, OrderlyInit, OrderlyStep, PTL DEF Spec, DensifyLeavesFrames

\* No densify gives an instant a second row, whatever was sampled before it,
\* and however often it is asked for the same range.
THEOREM NoInstantTwice == Spec => NoSecondCopy
<1>1. OrderlyInv /\ [Next]_vars =>
        [orderly /\ (\E j \in Jobs : Densifying(j)) =>
           \A i, k \in Idx : i # k /\ HasRow(i)' /\ (frames[i].t = frames[k].t)' =>
             HasRow(i) /\ frames[i].t = frames[k].t]_vars
  <2> SUFFICES ASSUME OrderlyInv, [Next]_vars, orderly, NEW j \in Jobs, Densifying(j),
                      NEW i \in Idx, NEW k \in Idx, i # k, HasRow(i)',
                      frames'[i].t = frames'[k].t
               PROVE  HasRow(i) /\ frames[i].t = frames[k].t
    OBVIOUS
  <2>0. TypeInv /\ Progress(j) /\ OwnPlan(j) /\ Running(j) /\ Kind[j] = "densify"
    BY DEF OrderlyInv, Orderly, Densifying
  <2>1. CASE UNCHANGED vars
    BY <2>1 DEF vars, tables, HasRow
  <2>2. CASE RunJob(j)
    <3>1. \A n \in Idx : \/ frames'[n].t = frames[n].t
                         \/ frames'[n].t = job[j].plan[n] /\ job[j].plan[n] # 0
      BY <2>0, <2>2, RowSteps DEF Progress, Scheduled, Schedule, Taken
    <3> QED
      BY <2>0, <3>1 DEF OwnPlan, HasRow
  <2> QED
    BY <2>0, <2>1, <2>2, NobodyElse
<1> QED
  BY <1>1, OrderlyInit, OrderlyStep, PTL DEF Spec, NoSecondCopy
=============================================================================
