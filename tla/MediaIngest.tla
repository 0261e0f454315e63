----------------------------- MODULE MediaIngest -----------------------------
(***************************************************************************)
(* Jobs that ingest one and the same content, from its sources to the rows *)
(* that name it: fetch, normalize or the reading of a document, the assets *)
(* row, the transcript and its vectors.  They share the directory named by *)
(* the content's hash, and the rows of the asset.                          *)
(*                                                                         *)
(* fetch puts the raw file there if there is none: a local source is       *)
(* copied, what was downloaded is moved.  normalize starts ffmpeg on the   *)
(* path of the mezzanine and of the audio if there is no such file.  Each  *)
(* job begins with an asset id of its own; the first that stores the row   *)
(* decides, the others take its id over.                                   *)
(*                                                                         *)
(* A job has one process at a time (JobRunner) and resumes after the last  *)
(* stage it has saved.  A file is none, partial or whole.                  *)
(*                                                                         *)
(* The content has a video and an audio stream, or one of them.  ffprobe   *)
(* shows them of a raw file that was cut too, or fails: streams that such  *)
(* a file hides are left out, and so is that a partial audio file has less *)
(* speech than a whole one.                                                *)
(***************************************************************************)
EXTENDS Subprocess, Sequences, FiniteSets

CONSTANTS Subjects,   \* [content, source, streams]: what is ingested, from where
          Segments,   \* Segments[s]: how many segments source s gives
          MaxFaults   \* bound: signals to a job and deaths

Jobs == Callers
Sources == {"asr", "captions"}   \* of a transcript
Media == {"mezzanine", "audio"}
None == "none"

ASSUME IngestAssumption ==
  /\ Outputs = {"probe"} \cup Media /\ None \notin Jobs
  /\ Subjects \subseteq [content : {"media", "document"},
                          source : [Jobs -> {"file", "url", "captioned url"}],
                          streams : SUBSET Media]
  /\ Segments \in [Sources -> Nat]
  /\ MaxFaults \in Nat

VARIABLES content,   \* media or document
          source,    \* source[j]: a file, or a URL that may have captions
          streams,   \* the results its streams allow: video, audio
          download,  \* what yt-dlp has downloaded is where it put it
          file,      \* the files in the directory of the content
          job,       \* job[j]: where its process is and what its state holds
          asset,     \* the job whose id the assets row has, or None
          items,     \* what the content items of the document are made of
          segs,      \* segs[k]: where the text of segment k comes from
          vecs,      \* vecs[k]: where the text comes from its vector is made of
          faults,
          apart,     \* no job has begun while another was not over
          cut        \* a process or a copy has been cut short, or has failed

rows == <<asset, items, segs, vecs>>
subject == <<content, source, streams>>
history == <<apart, cut>>
ingestVars == <<subject, download, file, job, rows, faults, history, callVars>>

Files == {"raw"} \cup Media
FileState == {"none", "partial", "whole"}
Positions == {k \in 1..Segments["asr"] + Segments["captions"] :
                \E s \in Sources : k <= Segments[s]}

\* Where each stage begins: fetch, normalize, transcribe, embed.
Begins == IF content = "media" THEN <<"fetch", "probe", "transcribe", "embed", "done">>
                               ELSE <<"fetch", "read", "done">>

Points == {"fetch", "hash", "place", "put", "copying", "probe", "checkMezzanine",
           "mezzanine", "checkAudio", "audio", "read", "upsert", "items",
           "transcribe", "embed", "save"}

Busy(j) == job[j].pc \in Points
Local(j) == source[j] = "file"
SourceOf(j) == IF source[j] = "captioned url" THEN "captions" ELSE "asr"

\* The segments a job gets: without audio there is nothing to recognize.
Given(j) ==
  IF SourceOf(j) = "asr" /\ "audio" \notin streams THEN 0 ELSE Segments[SourceOf(j)]

IngestInit ==
  /\ \E subj \in Subjects :
       content = subj.content /\ source = subj.source /\ streams = subj.streams
  /\ download = FALSE /\ file = [f \in Files |-> "none"]
  /\ job = [j \in Jobs |-> [pc |-> "new", saved |-> 0, asset |-> None,
                            input |-> "none", embedded |-> FALSE]]
  /\ asset = None /\ items = "none"
  /\ segs = [k \in Positions |-> None] /\ vecs = [k \in Positions |-> None]
  /\ faults = 0 /\ apart = TRUE /\ cut = FALSE
  /\ CallInit

-----------------------------------------------------------------------------
Goes(j, pc) == job' = [job EXCEPT ![j].pc = pc]
Undisturbed == UNCHANGED <<subject, faults, history>>

\* As below, at the stage that was under way when the job stopped.
FaultResumed(j) ==
  [job[j] EXCEPT !.pc = Begins[IF @ = "idle" /\ job[j].saved > 0
                               THEN job[j].saved + 2 ELSE job[j].saved + 1],
                 !.asset = IF job[j].saved < 2 THEN j ELSE @]

\* A job begins after the last stage it has saved.  fetch made up a fresh id,
\* which the state holds until normalize is saved with the one of the row.
Resumed(j) ==
  [job[j] EXCEPT !.pc = Begins[job[j].saved + 1],
                 !.asset = IF job[j].saved < 2 THEN j ELSE @]

Start(j) ==
  /\ job[j].pc \in {"new", "idle"}
  /\ job' = [job EXCEPT ![j] = Resumed(j)]
  /\ apart' = (apart /\ \A k \in Jobs \ {j} : job[k].pc \in {"new", "done", "error"})
  /\ UNCHANGED <<subject, download, file, rows, faults, cut, callVars>>

\* The stage is over and its patch is in the state.
Save(j) ==
  /\ job[j].pc = "save"
  /\ job' = [job EXCEPT ![j].saved = @ + 1, ![j].pc = Begins[job[j].saved + 2]]
  /\ UNCHANGED <<download, file, rows, callVars>> /\ Undisturbed

\* A stage raises: an unreachable source, a full disk or, between transcribe and
\* embed, in a stage left out here, the lack of the extra that frames need.
Raises(j) ==
  /\ Busy(j) /\ ~InCall(j)
  /\ Goes(j, "error")
  /\ cut' = (cut \/ job[j].pc = "copying")
  /\ UNCHANGED <<subject, download, file, rows, faults, apart, callVars>>

-----------------------------------------------------------------------------
(* fetch.                                                                  *)

\* yt-dlp, which leaves a file alone that is there; a local source is read
\* where it is.
Download(j) ==
  /\ job[j].pc = "fetch"
  /\ download' = (download \/ ~Local(j))
  /\ Goes(j, IF Local(j) THEN "place" ELSE "hash")
  /\ UNCHANGED <<file, rows, callVars>> /\ Undisturbed

\* Another job of the same URL may have moved it away.
HashDownload(j) ==
  /\ job[j].pc = "hash"
  /\ Goes(j, IF download THEN "place" ELSE "error")
  /\ UNCHANGED <<download, file, rows, callVars>> /\ Undisturbed

\* raw_dest.exists(): what was downloaded once more is removed.
Place(j) ==
  /\ job[j].pc = "place"
  /\ IF file["raw"] = "none"
     THEN Goes(j, "put") /\ UNCHANGED download
     ELSE Goes(j, "save") /\ download' = (download /\ Local(j))
  /\ UNCHANGED <<file, rows, callVars>> /\ Undisturbed

\* Processes that read the raw file, and may find it cut when it is copied again.
Readers == {k \in Jobs : InCall(k) /\ call[k].child = "running"}

StartCopy(j) ==
  /\ job[j].pc = "put" /\ Local(j)
  /\ file' = [file EXCEPT !["raw"] = "partial"]
  /\ \E hit \in SUBSET Readers :
       job' = [k \in Jobs |-> CASE k = j -> [job[k] EXCEPT !.pc = "copying"]
                                [] k \in hit -> [job[k] EXCEPT !.input = "partial"]
                                [] OTHER -> job[k]]
  /\ UNCHANGED <<download, rows, callVars>> /\ Undisturbed

\* copy2 writes in place: of two copies at once the first to end may leave holes.
EndCopy(j) ==
  /\ job[j].pc = "copying"
  /\ \E left \in IF file["raw"] = "partial" /\ \E k \in Jobs \ {j} : job[k].pc = "copying"
                 THEN {"partial", "whole"} ELSE {"whole"} :
       file' = [file EXCEPT !["raw"] = left]
  /\ Goes(j, "save")
  /\ UNCHANGED <<download, rows, callVars>> /\ Undisturbed

\* A rename, unless another job was faster.
Move(j) ==
  /\ job[j].pc = "put" /\ ~Local(j)
  /\ IF download
     THEN /\ file' = [file EXCEPT !["raw"] = "whole"]
          /\ Goes(j, "save")
     ELSE Goes(j, "error") /\ UNCHANGED file
  /\ download' = FALSE
  /\ UNCHANGED <<rows, callVars>> /\ Undisturbed

-----------------------------------------------------------------------------
(* normalize.                                                              *)

Checked == [checkMezzanine |-> "mezzanine", checkAudio |-> "audio"]
AfterCall == [probe |-> "checkMezzanine", mezzanine |-> "checkAudio", audio |-> "upsert"]

\* As below, without the test.
FaultCheck(j) ==
  /\ job[j].pc \in DOMAIN Checked
  /\ Goes(j, AfterCall[Checked[job[j].pc]])
  /\ UNCHANGED <<download, file, rows, callVars>> /\ Undisturbed

\* exists(): a file that is there, whole or not, is not made, and neither is one
\* the content has no stream for.
Check(j) ==
  /\ job[j].pc \in DOMAIN Checked
  /\ LET out == Checked[job[j].pc]
     IN  Goes(j, IF out \in streams /\ file[out] = "none" THEN out ELSE AfterCall[out])
  /\ UNCHANGED <<download, file, rows, callVars>> /\ Undisturbed

\* ffprobe, or ffmpeg -y, which empties its output.
RunTool(j) ==
  /\ job[j].pc \in Outputs
  /\ Create(j, job[j].pc)
  /\ job' = [job EXCEPT ![j].input = file["raw"]]
  /\ file' = [f \in Files |-> IF f = job[j].pc THEN "partial" ELSE file[f]]
  /\ UNCHANGED <<download, rows>> /\ Undisturbed

\* Another process that writes the same output.
Rivals(j, out) ==
  \/ \E k \in Jobs \ {j} : InCall(k) /\ call[k].out = out /\ call[k].child = "running"
  \/ \E k \in Jobs : <<k, out>> \in orphans

\* What a process leaves that ends with code; two at once leave either.
Leaves(out, rivals, complete) ==
  IF rivals \/ file[out] = "whole" THEN {"partial", "whole"}
  ELSE IF complete THEN {"whole"} ELSE {"partial"}

Writes(out, left) == file' = [f \in Files |-> IF f = out THEN left ELSE file[f]]

ToolEnds(j, code) ==
  /\ ChildEnds(j, code)
  /\ LET out == call[j].out
     IN  IF out = "probe" THEN UNCHANGED file
         ELSE \E left \in Leaves(out, Rivals(j, out),
                                 code = "ok" /\ job[j].input = "whole") : Writes(out, left)
  /\ UNCHANGED <<download, job, rows>> /\ Undisturbed

\* An orphan is not waited for, and does not stop.
OrphanToolEnds(j, out) ==
  /\ OrphanEnds(j, out)
  /\ IF out = "probe" THEN UNCHANGED file
     ELSE \E left \in Leaves(out, TRUE, FALSE) : Writes(out, left)
  /\ UNCHANGED <<download, job, rows>> /\ Undisturbed

ToolDone(j) ==
  /\ Answer(j, "ok")
  /\ Goes(j, AfterCall[job[j].pc])
  /\ UNCHANGED <<download, file, rows>> /\ Undisturbed

\* SubprocessFailed, or SubprocessTimeout after the wait: the job has failed.
ToolFailed(j) ==
  /\ Answer(j, "failed") \/ GaveUp(j, "timeout")
  /\ Goes(j, "error")
  /\ cut' = TRUE
  /\ UNCHANGED <<subject, download, file, rows, faults, apart>>

\* As below, without waiting for the process.
FaultTimeOut(j) ==
  /\ InCall(j) /\ Leave(j)
  /\ Goes(j, "error")
  /\ UNCHANGED <<download, file, rows, blows>> /\ Undisturbed

TimeOut(j) ==
  /\ Terminate(j, "timeout")
  /\ UNCHANGED <<download, file, job, rows>> /\ Undisturbed

Escalate(j) ==
  /\ GraceOver(j)
  /\ UNCHANGED <<download, file, job, rows>> /\ Undisturbed

-----------------------------------------------------------------------------
(* The rows.                                                               *)

\* ingest_document: the text of the file as it is.
ReadDocument(j) ==
  /\ job[j].pc = "read"
  /\ job' = [job EXCEPT ![j].input = file["raw"], ![j].pc = "upsert"]
  /\ UNCHANGED <<download, file, rows, callVars>> /\ Undisturbed

AfterUpsert == IF content = "document" THEN "items" ELSE "save"

\* As below, without reading the id of the row.
FaultUpsertAsset(j) ==
  /\ job[j].pc = "upsert"
  /\ asset' = IF asset = None THEN job[j].asset ELSE asset
  /\ Goes(j, AfterUpsert)
  /\ UNCHANGED <<download, file, items, segs, vecs, callVars>> /\ Undisturbed

\* ON CONFLICT(content_hash): the row keeps its id and the job takes it.
UpsertAsset(j) ==
  /\ job[j].pc = "upsert"
  /\ asset' = IF asset = None THEN job[j].asset ELSE asset
  /\ job' = [job EXCEPT ![j].asset = asset', ![j].pc = AfterUpsert]
  /\ UNCHANGED <<download, file, items, segs, vecs, callVars>> /\ Undisturbed

\* As below, with each statement in a transaction of its own.
FaultReplaceItems(j) ==
  /\ job[j].pc = "items"
  /\ items' = IF asset = j THEN job[j].input ELSE "none"
  /\ Goes(j, IF asset = j THEN "save" ELSE "error")
  /\ UNCHANGED <<download, file, asset, segs, vecs, callVars>> /\ Undisturbed

\* The items bear the id the job began with: with another one in the row the
\* foreign key refuses them, and nothing is replaced.
ReplaceItems(j) ==
  /\ job[j].pc = "items"
  /\ IF asset = j
     THEN items' = job[j].input /\ Goes(j, "save")
     ELSE UNCHANGED items /\ Goes(j, "error")
  /\ UNCHANGED <<download, file, asset, segs, vecs, callVars>> /\ Undisturbed

\* Rows of the positions it has; the rows after them stay.
Over(j, old) == [k \in Positions |-> IF k <= Given(j) THEN SourceOf(j) ELSE old[k]]

PersistSegments(j) ==
  /\ job[j].pc = "transcribe"
  /\ segs' = Over(j, segs)
  /\ Goes(j, "save")
  /\ UNCHANGED <<download, file, asset, items, vecs, callVars>> /\ Undisturbed

Embeds(j, with) ==
  job' = [job EXCEPT ![j].pc = "save", ![j].embedded = with]

\* As below, for the rows that have no vector yet.
FaultPersistVectors(j) ==
  /\ job[j].pc = "embed"
  /\ vecs' = [k \in Positions |-> IF vecs[k] = None THEN Over(j, vecs)[k] ELSE vecs[k]]
  /\ Embeds(j, TRUE)
  /\ UNCHANGED <<download, file, asset, items, segs, callVars>> /\ Undisturbed

\* Vectors of the job's own text, filed under the rows of the same positions.
PersistVectors(j) ==
  /\ job[j].pc = "embed"
  /\ vecs' = [k \in Positions |-> IF segs[k] = None THEN vecs[k] ELSE Over(j, vecs)[k]]
  /\ Embeds(j, TRUE)
  /\ UNCHANGED <<download, file, asset, items, segs, callVars>> /\ Undisturbed

\* M3ExtraMissingError in embed(): the process has no encoder.  The job goes on
\* without vectors, and those there are stay, of whichever text they are.
EmbedSkipped(j) ==
  /\ job[j].pc = "embed"
  /\ Embeds(j, FALSE)
  /\ UNCHANGED <<download, file, rows, callVars>> /\ Undisturbed

-----------------------------------------------------------------------------
(* Signals and deaths.                                                     *)

\* A cancellation arrives where the task awaits: in a call, or work in a thread.
Signal(j) ==
  /\ faults < MaxFaults /\ faults' = faults + 1
  /\ \/ Terminate(j, "cancelled") /\ UNCHANGED job
     \/ Interrupted(j) /\ Goes(j, "idle")
     \/ /\ job[j].pc \in {"fetch", "hash", "transcribe", "embed"}
        /\ Goes(j, "idle") /\ UNCHANGED callVars
  /\ cut' = (cut \/ InCall(j))
  /\ UNCHANGED <<subject, download, file, rows, apart>>

\* The process is gone and the lease is given back.
Released(j) ==
  /\ GaveUp(j, "cancelled")
  /\ Goes(j, "idle")
  /\ UNCHANGED <<download, file, rows>> /\ Undisturbed

Dies(j) ==
  /\ Busy(j) /\ faults < MaxFaults /\ faults' = faults + 1
  /\ CallerDies(j)
  /\ Goes(j, "idle")
  /\ cut' = (cut \/ InCall(j) \/ job[j].pc = "copying")
  /\ UNCHANGED <<subject, download, file, rows, apart>>

\* What a job's process does, and a kill, which works.
JobRuns(j) ==
  \/ Start(j) \/ Save(j)
  \/ Download(j) \/ HashDownload(j) \/ Place(j) \/ StartCopy(j) \/ EndCopy(j) \/ Move(j)
  \/ Check(j) \/ RunTool(j) \/ ToolDone(j) \/ ToolFailed(j)
  \/ TimeOut(j) \/ Escalate(j) \/ Released(j)
  \/ ReadDocument(j) \/ UpsertAsset(j) \/ ReplaceItems(j)
  \/ PersistSegments(j) \/ PersistVectors(j) \/ EmbedSkipped(j)
  \/ InCall(j) /\ call[j].state = "killing" /\ ToolEnds(j, "failed")

IngestNext ==
  \E j \in Jobs :
    \/ JobRuns(j) \/ Raises(j) \/ Signal(j) \/ Dies(j)
    \/ \E code \in Ended : ToolEnds(j, code)
    \/ \E out \in Outputs : OrphanToolEnds(j, out)

\* Jobs run and time passes.  ffmpeg need not end by itself.
Fairness == \A j \in Jobs : WF_ingestVars(JobRuns(j))

IngestSpec == IngestInit /\ [][IngestNext]_ingestVars /\ Fairness

-----------------------------------------------------------------------------
(* Properties.                                                             *)

\* The variables keep their types.
IngestTypeOK ==
  /\ [content |-> content, source |-> source, streams |-> streams] \in Subjects
  /\ {download, apart, cut} \subseteq BOOLEAN
  /\ file \in [Files -> FileState]
  /\ job \in [Jobs -> [pc : Points \cup {"new", "idle", "done", "error"}, saved : 0..4,
                       asset : Jobs \cup {None}, input : FileState,
                       embedded : BOOLEAN]]
  /\ asset \in Jobs \cup {None} /\ items \in FileState
  /\ segs \in [Positions -> Sources \cup {None}]
  /\ vecs \in [Positions -> Sources \cup {None}]
  /\ faults \in 0..MaxFaults
  /\ call \in [Jobs -> Call \cup {NoCall}]
  /\ orphans \subseteq Jobs \X Outputs

Normalized(j) == content = "media" /\ job[j].saved >= 2

\* What normalize has saved as its results is complete: a stage that was cut
\* short is done again ("Pipeline stages stay idempotent and resumable").
FinishedFilesWhole ==
  \A j \in Jobs : Normalized(j) => \A out \in streams : file[out] = "whole"

\* It is if the jobs of a content run one after another and no copy and no
\* process is cut short, though jobs stop and die at other points and go on, and
\* find the files of others; and so are the items of a document, of which all
\* ingests but the first fail.
UndisturbedResultsWhole == apart /\ ~cut =>
  /\ FinishedFilesWhole
  /\ content = "document" /\ (\E j \in Jobs : job[j].saved >= 2) => items = "whole"

\* However they overlap, jobs of one content that are past normalize speak of
\* the asset in the table (_upsert_asset: "reconcile so the job points at the
\* canonical row").
CanonicalAsset ==
  \A j \in Jobs : job[j].saved >= 2 => job[j].asset = asset /\ asset # None

\* A document, once it can be found, stays: a later ingest that the foreign key
\* refuses takes nothing away.
DocumentStays ==
  content = "document" /\ (\E j \in Jobs : job[j].saved >= 2) => items # "none"

\* A job that is done has a row for each of its segments and, unless it found no
\* encoder, a vector, whatever it shared them with and wherever it was resumed.
TranscriptIndexed ==
  \A j \in Jobs : job[j].pc = "done" /\ content = "media" =>
    \A k \in 1..Given(j) : segs[k] # None /\ (job[j].embedded => vecs[k] # None)

\* While the jobs of a content run one after another, whichever stop, die or fail
\* on the way, a segment whose vector is missing or of another text has its text
\* from a job that has not embedded it: one without an encoder, one that ended
\* as error, or the one under way.
OrderlyVectors ==
  apart => \A k \in Positions : vecs[k] # segs[k] =>
    \E j \in Jobs : /\ SourceOf(j) = segs[k]
                    /\ job[j].pc # "new" /\ ~job[j].embedded

\* Calls are made and end as Subprocess says.
MakesCalls == CallSpec

\* Every job ends, though ffmpeg hangs and ignores SIGTERM.
IngestEnds == \A j \in Jobs : <>(job[j].pc \in {"done", "error"})
=============================================================================
