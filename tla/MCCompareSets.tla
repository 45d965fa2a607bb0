---------------------------- MODULE MCCompareSets ----------------------------
(***************************************************************************)
(* Instance of CompareSets: slices of up to three objects over three keys, *)
(* so that equal, missing and duplicate keys occur on both sides.          *)
(***************************************************************************)
EXTENDS CompareSets

MCKeys == 1..3
=============================================================================
