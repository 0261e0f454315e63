---------------------------- MODULE MCAssetIndex ----------------------------
(***************************************************************************)
(* Small instances of AssetIndex for TLC.  The scene lasts eleven seconds: *)
(* an ingest samples its midpoint, and an instant every two seconds.       *)
(***************************************************************************)
EXTENDS AssetIndex

CONSTANTS f1, f2, d1, d2  \* job ids

MCKind ==
  [j \in Jobs |-> IF j \in {f1, f2} THEN "full" ELSE "densify"]

\* Every two seconds from 1 s to 5 s, and from 3 s to 5 s.
MCWindow ==
  [j \in Jobs |-> IF j = d1 THEN [lo |-> 2, hi |-> 10, interval |-> 4]
                            ELSE [lo |-> 6, hi |-> 10, interval |-> 4]]

\* 6 is a near-duplicate of 2; every other picture is distinct.
MCLook == [t \in Times |-> IF t = 6 THEN 2 ELSE t]

\* A static shot.
StaticLook == [t \in Times |-> 1]
=============================================================================
