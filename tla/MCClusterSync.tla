---------------------------- MODULE MCClusterSync ----------------------------
(***************************************************************************)
(* Instances of ClusterSync.  Each fault leaves at most one client's       *)
(* informers running, and one more client is registered, being removed or  *)
(* being built.                                                            *)
(***************************************************************************)
EXTENDS ClusterSync

MCClientIds == 1..2

ASSUME EnoughClientIds == Cardinality(MCClientIds) > MaxFaults
=============================================================================
