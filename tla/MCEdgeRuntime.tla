--------------------------- MODULE MCEdgeRuntime ---------------------------
(***************************************************************************)
(* EdgeRuntime with one id, which two jobs share when Brain restarts, and  *)
(* a pool of one worker.                                                   *)
(***************************************************************************)
EXTENDS EdgeRuntime
=============================================================================
