----------------------------- MODULE MCSceneSystems ----------------------------
(* SceneSystems for TLC. *)
EXTENDS SceneSystems
================================================================================
