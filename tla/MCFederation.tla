---------------------------- MODULE MCFederation ----------------------------
(***************************************************************************)
(* Instances of Federation.                                                *)
(***************************************************************************)
EXTENDS Federation

MCProcs  == 1..2
MCJoints == 1..3
=============================================================================
