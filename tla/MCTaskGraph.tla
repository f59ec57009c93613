----------------------------- MODULE MCTaskGraph -----------------------------
(***************************************************************************)
(* TLC instance of TaskGraph: all graphs of up to four nodes, the diamond   *)
(* among them.                                                              *)
(***************************************************************************)
EXTENDS TaskGraph
=============================================================================
