---------------------------- MODULE MCConfigStore ----------------------------
(***************************************************************************)
(* ConfigStore on small instances: two configurations, three revisions.    *)
(* No symmetry: liveness is checked in the same run.                       *)
(***************************************************************************)
EXTENDS ConfigStore
=============================================================================
