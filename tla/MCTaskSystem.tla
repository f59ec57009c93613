---------------------------- MODULE MCTaskSystem ----------------------------
(***************************************************************************)
(* TLC instance of TaskSystem: two tasks and two threads besides the task   *)
(* bodies, so that a slot is reclaimed and reused while an old handle and a *)
(* pending slot exist.                                                      *)
(***************************************************************************)
EXTENDS TaskSystem
=============================================================================
