--------------------------- MODULE MCEdgeIdentity ---------------------------
(***************************************************************************)
(* The module TLC runs on; the constants are given by the .cfg files.      *)
(***************************************************************************)
EXTENDS EdgeIdentity
=============================================================================
