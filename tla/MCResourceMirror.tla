--------------------------- MODULE MCResourceMirror ---------------------------
(***************************************************************************)
(* Instances of ResourceMirror.                                            *)
(***************************************************************************)
EXTENDS ResourceMirror

MCRowIds == 1..2
=============================================================================
