------------------------------ MODULE SceneSystems -----------------------------
(***************************************************************************)
(* scene/scene_system_manager.cpp: the systems of a Scene, which are told    *)
(* when they are attached and detached and run by stage.                     *)
(*                                                                          *)
(* A system is its type, of which there is at most one.  The callbacks are   *)
(* the application's code: each may call the manager again (calls is the     *)
(* stack of calls that are inside a callback) and returns or throws.         *)
(***************************************************************************)
EXTENDS Naturals, Sequences, FiniteSets, SequencesExt

CONSTANTS Types,     \* the types of systems
          Stages,    \* the execution stages
          MaxDepth   \* bound: the calls inside one another

ASSUME SystemsAssumption == MaxDepth \in Nat \ {0}

VARIABLES
  entries,              \* Storage: the registered systems in order
  executing,            \* Storage
  inLifecycleCallback,  \* Storage
  calls,                \* the calls of the manager that are inside a callback
  alive,                \* the manager was not destroyed
  attached,             \* history: onAttach returned and onDetach was not called
  reluctant             \* history: onDetach threw in removeSystem

vars == <<entries, executing, inLifecycleCallback, calls, alive, attached, reluctant>>

Entry == [type : Types, stage : Stages, enabled : BOOLEAN]

Callbacks == {"onAttach", "onUpdate", "onDetach", "shutdown"}

\* at is the entry the call holds on to: back(), found or the loop's iterator.
Call == [in : Callbacks, type : Types, at : Nat, stage : Stages]

TypeOK ==
  /\ entries \in Seq(Entry)
  /\ executing \in BOOLEAN /\ inLifecycleCallback \in BOOLEAN
  /\ calls \in Seq(Call) /\ Len(calls) <= MaxDepth
  /\ alive \in BOOLEAN
  /\ attached \subseteq Types /\ reluctant \subseteq Types

Init ==
  /\ entries = <<>>
  /\ executing = FALSE /\ inLifecycleCallback = FALSE
  /\ calls = <<>>
  /\ alive = TRUE
  /\ attached = {} /\ reluctant = {}

-----------------------------------------------------------------------------
\* The destructor's callbacks may still call the manager.
Callable == alive \/ calls # <<>>

Registered == {entries[i].type : i \in DOMAIN entries}

\* findSystem
Found(type) == CHOOSE i \in DOMAIN entries : entries[i].type = type

\* Fault: only running systems is checked for.
AcceptsUnlessExecuting == ~executing

\* Anything else is rejected with an exception in the caller, a callback.
Accepts == ~executing /\ ~inLifecycleCallback

Enter(callback, type, at, stage) ==
  /\ Len(calls) < MaxDepth
  /\ calls' = Append(calls, [in |-> callback, type |-> type, at |-> at, stage |-> stage])

Inside(callback) == calls # <<>> /\ Last(calls).in = callback

\* registerSystem
AddSystem(type, stage) ==
  /\ Callable /\ Accepts
  /\ type \notin Registered
  /\ entries' = Append(entries, [type |-> type, stage |-> stage, enabled |-> TRUE])
  /\ inLifecycleCallback' = TRUE
  /\ Enter("onAttach", type, Len(entries) + 1, stage)
  /\ UNCHANGED <<executing, alive, attached, reluctant>>

AttachReturns ==
  /\ Inside("onAttach")
  /\ inLifecycleCallback' = FALSE
  /\ attached' = attached \cup {Last(calls).type}
  /\ calls' = Front(calls)
  /\ UNCHANGED <<entries, executing, alive, reluctant>>

\* Fault: the system that failed to attach stays.
AttachThrowsKeeping ==
  /\ Inside("onAttach")
  /\ inLifecycleCallback' = FALSE
  /\ calls' = Front(calls)
  /\ UNCHANGED <<entries, executing, alive, attached, reluctant>>

\* pop_back() takes whatever is the last entry.
AttachThrows ==
  /\ Inside("onAttach")
  /\ inLifecycleCallback' = FALSE
  /\ entries' = Front(entries)
  /\ calls' = Front(calls)
  /\ UNCHANGED <<executing, alive, attached, reluctant>>

RemoveSystem(type) ==
  /\ Callable /\ Accepts
  /\ type \in Registered
  /\ inLifecycleCallback' = TRUE
  /\ Enter("onDetach", type, Found(type), entries[Found(type)].stage)
  /\ attached' = attached \ {type}
  /\ UNCHANGED <<entries, executing, alive, reluctant>>

DetachReturns ==
  /\ Inside("onDetach")
  /\ inLifecycleCallback' = FALSE
  /\ entries' = RemoveAt(entries, Last(calls).at)
  /\ reluctant' = reluctant \ {Last(calls).type}
  /\ calls' = Front(calls)
  /\ UNCHANGED <<executing, alive, attached>>

\* The system stays registered, although it has been told to detach.
DetachThrows ==
  /\ Inside("onDetach")
  /\ inLifecycleCallback' = FALSE
  /\ reluctant' = reluctant \cup {Last(calls).type}
  /\ calls' = Front(calls)
  /\ UNCHANGED <<entries, executing, alive, attached>>

\* Also from inside callbacks.
SetSystemEnabled(type, enabled) ==
  /\ Callable
  /\ type \in Registered
  /\ entries' = [entries EXCEPT ![Found(type)].enabled = enabled]
  /\ UNCHANGED <<executing, inLifecycleCallback, calls, alive, attached, reluctant>>

-----------------------------------------------------------------------------
(* runSystems. *)

Runs(stage, i) == entries[i].stage = stage /\ entries[i].enabled

\* The first entry from i on that runs in the stage, or none.
NextRun(stage, i) ==
  LET later == {j \in DOMAIN entries : j >= i /\ Runs(stage, j)}
  IN  IF later = {} THEN 0 ELSE CHOOSE j \in later : \A k \in later : j <= k

\* A stage nobody runs in only updates the world transforms.
RunSystems(stage) ==
  /\ Callable /\ Accepts
  /\ LET first == NextRun(stage, 1)
     IN  /\ first # 0
         /\ executing' = TRUE
         /\ Enter("onUpdate", entries[first].type, first, stage)
  /\ UNCHANGED <<entries, inLifecycleCallback, alive, attached, reluctant>>

UpdateReturns ==
  /\ Inside("onUpdate")
  /\ LET next == NextRun(Last(calls).stage, Last(calls).at + 1)
     IN  IF next = 0
         THEN executing' = FALSE /\ calls' = Front(calls)
         ELSE /\ calls' = Append(Front(calls), [Last(calls) EXCEPT !.type = entries[next].type,
                                                                   !.at = next])
              /\ UNCHANGED executing
  /\ UNCHANGED <<entries, inLifecycleCallback, alive, attached, reluctant>>

\* The rest of the stage is not run.
UpdateThrows ==
  /\ Inside("onUpdate")
  /\ executing' = FALSE
  /\ calls' = Front(calls)
  /\ UNCHANGED <<entries, inLifecycleCallback, alive, attached, reluctant>>

-----------------------------------------------------------------------------
(* The destructor: every onDetach, from the last, whatever it throws. *)

Shutdown(at) ==
  IF at = 0
  THEN /\ entries' = <<>> /\ calls' = <<>>
       /\ UNCHANGED attached
  ELSE /\ calls' = <<[in |-> "shutdown", type |-> entries[at].type, at |-> at,
                      stage |-> entries[at].stage]>>
       /\ attached' = attached \ {entries[at].type}
       /\ UNCHANGED entries

Destroy ==
  /\ alive /\ calls = <<>>
  /\ alive' = FALSE
  /\ inLifecycleCallback' = TRUE
  /\ Shutdown(Len(entries))
  /\ UNCHANGED <<executing, reluctant>>

ShutdownNext ==
  /\ Inside("shutdown")
  /\ Shutdown(Last(calls).at - 1)
  /\ UNCHANGED <<executing, inLifecycleCallback, alive, reluctant>>

Destroyed == ~alive /\ calls = <<>> /\ UNCHANGED vars

-----------------------------------------------------------------------------
Next ==
  \/ \E type \in Types : \/ RemoveSystem(type)
                         \/ \E stage \in Stages : AddSystem(type, stage)
                         \/ \E enabled \in BOOLEAN : SetSystemEnabled(type, enabled)
  \/ \E stage \in Stages : RunSystems(stage)
  \/ AttachReturns \/ AttachThrows \/ DetachReturns \/ DetachThrows
  \/ UpdateReturns \/ UpdateThrows
  \/ Destroy \/ ShutdownNext \/ Destroyed

Spec == Init /\ [][Next]_vars

-----------------------------------------------------------------------------
(***************************************************************************)
(* Whatever callbacks call, the entry a call in progress holds on to (the    *)
(* back of the vector, an iterator, the loop's reference) is still there and *)
(* still that system's: the vector does not change under it.                 *)
(***************************************************************************)
HeldEntryStays ==
  \A i \in DOMAIN calls : /\ calls[i].at \in DOMAIN entries
                          /\ entries[calls[i].at].type = calls[i].type
                          /\ calls[i].in = "onAttach" => calls[i].at = Len(entries)

(***************************************************************************)
(* The registered systems are those that were attached and not told to       *)
(* detach, but for the one whose callback is running and those whose onDetach *)
(* threw: these are told again.  When the manager is gone all were told.     *)
(***************************************************************************)
AttachDetachPaired ==
  /\ alive => /\ attached \subseteq Registered
              /\ Registered \subseteq attached \cup reluctant \cup
                                      {calls[i].type : i \in DOMAIN calls}
  /\ ~alive /\ calls = <<>> => attached = {}

-----------------------------------------------------------------------------
(***************************************************************************)
(* Why: the inductive invariant behind both.  There is never a call inside a *)
(* callback of another, and the flags say which callback is running.         *)
(***************************************************************************)
Running(callbacks) == calls # <<>> /\ calls[1].in \in callbacks

FlagInv ==
  /\ Len(calls) <= 1
  /\ executing <=> Running({"onUpdate"})
  /\ inLifecycleCallback <=> ~alive \/ Running({"onAttach", "onDetach"})
  /\ calls # <<>> => (alive <=> ~Running({"shutdown"}))

\* A type is registered once.
UniqueInv == \A i, j \in DOMAIN entries : entries[i].type = entries[j].type => i = j

\* The system being attached or detached.
Pending == {type \in Types : Running({"onAttach", "onDetach"}) /\ type = calls[1].type}

PairInv ==
  /\ alive => /\ attached \subseteq Registered \ Pending
              /\ Registered \subseteq attached \cup reluctant \cup Pending
  /\ ~alive => \A type \in attached :
                 calls # <<>> /\ \E i \in DOMAIN entries : i < calls[1].at /\ entries[i].type = type

IInv == TypeOK /\ FlagInv /\ UniqueInv /\ HeldEntryStays /\ PairInv
================================================================================
