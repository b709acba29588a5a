----------------------------- MODULE MCRegistry -----------------------------
(***************************************************************************)
(* Instances of Registry for TLC.  Connections are model values; symmetry  *)
(* is not used because the runs check liveness too.                        *)
(***************************************************************************)
EXTENDS Registry

=============================================================================
