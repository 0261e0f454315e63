---------------------------- MODULE MCJobRunner -----------------------------
(***************************************************************************)
(* Small instances of JobRunner for TLC; a run gives the sizes in its cfg. *)
(***************************************************************************)
EXTENDS JobRunner, TLC

\* Runners are interchangeable, and so are jobs (used for invariants only).
Interchangeable == Permutations(Runners) \cup Permutations(Jobs)
=============================================================================
