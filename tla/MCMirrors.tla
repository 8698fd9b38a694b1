------------------------------ MODULE MCMirrors ------------------------------
(***************************************************************************)
(* The instance of Mirrors for TLC.                                        *)
(***************************************************************************)
EXTENDS Mirrors, MCServer
=============================================================================
