---------------------------- MODULE MCComponents ----------------------------
(***************************************************************************)
(* Instances of Components.                                                *)
(***************************************************************************)
EXTENDS Components

MCRows     == 1..2
MCTaskIds  == 1..3
MCVersions == 1..2
=============================================================================
