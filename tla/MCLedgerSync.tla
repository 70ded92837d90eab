---------------------------- MODULE MCLedgerSync ----------------------------
(***************************************************************************)
(* The module TLC runs on: LedgerSync with the inductive invariant of      *)
(* LedgerOutcome.  The constants are given by the .cfg files.              *)
(***************************************************************************)
EXTENDS LedgerOutcome
=============================================================================
