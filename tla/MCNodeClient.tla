---------------------------- MODULE MCNodeClient ----------------------------
(***************************************************************************)
(* NodeClient for TLC.  The calls are model values, and no symmetry is     *)
(* used: the run checks liveness too.                                      *)
(***************************************************************************)
EXTENDS NodeClient
=============================================================================
