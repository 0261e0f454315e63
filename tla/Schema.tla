------------------------------- MODULE Schema --------------------------------
(***************************************************************************)
(* The SQL files of db/sql in the order of their names: which tables each  *)
(* one creates if they do not exist and which columns come with them, what *)
(* else it needs, what it adds and what it drops.  A column or table is    *)
(* listed when another file, or a statement of a job, depends on it.       *)
(***************************************************************************)
EXTENDS Integers, Sequences, FiniteSets

Script == [tables |-> <<>>, needs |-> {}, drops |-> {}, adds |-> {}]
Tables(names) == [t \in names |-> {}]

InitTables ==
  [Script EXCEPT !.tables = [assets |-> {}, jobs |-> {"jobs.mode", "jobs.push_to_sbt"}]]

\* The index on shot_id is made on the table as it is, created now or not.
SpeechTables ==
  [Script EXCEPT !.tables = [shots |-> {"shots.shot_idx"},
                             transcript_segments |-> {"transcript_segments.shot_id"}],
                 !.needs = {"transcript_segments.shot_id"}]

VisualTables ==
  [Script EXCEPT !.tables = Tables({"frames", "vec_frames", "vec_scenes",
                                    "vec_transcript", "fts_scenes"}),
                 !.drops = {"shots", "shots.shot_idx", "transcript_segments.shot_id"},
                 !.adds = {"scenes", "scenes.scene_idx", "scenes.summary",
                           "transcript_segments.scene_id"}]

\* Every vec table is copied, dropped and made again.
VectorFilters ==
  [Script EXCEPT !.needs = {"vec_frames", "vec_scenes", "vec_transcript", "frames",
                            "scenes", "transcript_segments"}]

ContentItems == [Script EXCEPT !.tables = Tables({"content_items"})]

JobLeases ==
  [Script EXCEPT !.needs = {"jobs"}, !.adds = {"jobs.runner_id", "jobs.runner_heartbeat_at"}]

DocumentsGraph ==
  [Script EXCEPT !.tables = Tables({"fts_content_items", "nodes", "edges"})]

FrameCaptions == [Script EXCEPT !.needs = {"frames"}, !.adds = {"frames.caption"}]
DropMode == [Script EXCEPT !.drops = {"jobs.mode"}]
DropPush == [Script EXCEPT !.drops = {"jobs.push_to_sbt"}]

Files == <<InitTables, SpeechTables, VisualTables, VectorFilters, ContentItems,
           JobLeases, DocumentsGraph, FrameCaptions, DropMode, DropPush>>

-----------------------------------------------------------------------------
\* CREATE TABLE IF NOT EXISTS leaves a table that exists as it is.
Created(script, objects) ==
  objects \cup UNION {{t} \cup script.tables[t] : t \in DOMAIN script.tables \ objects}

\* Every statement of the script succeeds on these objects.
Runs(script, objects) ==
  /\ script.needs \subseteq Created(script, objects)
  /\ script.drops \subseteq objects
  /\ script.adds \cap objects = {}

Result(script, objects) == (Created(script, objects) \ script.drops) \cup script.adds
=============================================================================
