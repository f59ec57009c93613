----------------------------- MODULE TaskFuture -----------------------------
(***************************************************************************)
(* What a TaskHandle promises (task/README.md:101-107), without slots,      *)
(* generations or threads: a task is submitted once, finishes once, and     *)
(* nobody is told that it is finished before it is.                         *)
(***************************************************************************)
CONSTANT Tasks

VARIABLES phase,   \* "unsubmitted", "submitted" or "finished", per task
          told     \* the tasks that wait or isComplete has reported as finished

vars == <<phase, told>>

Init ==
  /\ phase = [t \in Tasks |-> "unsubmitted"]
  /\ told = {}

Submit(t) ==
  /\ phase[t] = "unsubmitted"
  /\ phase' = [phase EXCEPT ![t] = "submitted"]
  /\ UNCHANGED told

Finish(t) ==
  /\ phase[t] = "submitted"
  /\ phase' = [phase EXCEPT ![t] = "finished"]
  /\ UNCHANGED told

Tell(t) ==
  /\ phase[t] = "finished"
  /\ told' = told \cup {t}
  /\ UNCHANGED phase

Next == \E t \in Tasks : Submit(t) \/ Finish(t) \/ Tell(t)

Spec == Init /\ [][Next]_vars
=============================================================================
