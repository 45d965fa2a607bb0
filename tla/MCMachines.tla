----------------------------- MODULE MCMachines -----------------------------
(***************************************************************************)
(* Instances of Machines.                                                  *)
(***************************************************************************)
EXTENDS Machines

MCMachines2 == 1..2
MCJobs      == 1..2
MCCounts    == {1, 3, 5}
=============================================================================
