----------------------------- MODULE MCDatabase ------------------------------
(***************************************************************************)
(* Database with the migrations of db/sql and two processes of each kind.  *)
(***************************************************************************)
EXTENDS Database, Sequences, TLC
S == INSTANCE Schema

CONSTANTS i1, i2, j1, j2

MCCount == Len(S!Files)
MCSucceeds(m, objects) == S!Runs(S!Files[m], objects)
MCEffect(m, objects) == S!Result(S!Files[m], objects)
MCSchemaAt ==
  LET at[k \in 0..MCCount] == IF k = 0 THEN {} ELSE MCEffect(k, at[k - 1]) IN at
MCObjects == UNION {MCSchemaAt[k] : k \in 0..MCCount}

\* The tables and columns in the statements of a job's steps.
MCNeeds ==
  [claim |-> {"jobs.runner_id"},
   rows |-> {"scenes.scene_idx", "transcript_segments.scene_id"},
   items |-> {"content_items", "fts_content_items", "frames.caption", "scenes.summary"},
   graph |-> {"nodes", "edges", "content_items"}]

\* Two init-db from nothing beside one job, and one beside two jobs.
MCSetups == {[version |-> 0, inits |-> {i1, i2}, jobs |-> {j1}],
             [version |-> 5, inits |-> {i1}, jobs |-> {j1, j2}]}
=============================================================================
