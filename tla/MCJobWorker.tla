---------------------------- MODULE MCJobWorker -----------------------------
(***************************************************************************)
(* Small instances of JobWorker for TLC; a run gives the sizes in its cfg. *)
(***************************************************************************)
EXTENDS JobWorker, TLC
=============================================================================
