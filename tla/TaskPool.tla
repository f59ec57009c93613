------------------------------ MODULE TaskPool ------------------------------
(***************************************************************************)
(* The slot table behind TaskSystem's asynchronous tasks                    *)
(* (core/task/task_pool.{h,cpp}).  A slot owns one task object; a handle is *)
(* a slot index plus the generation the slot had when it was handed out.    *)
(*                                                                          *)
(* Abstractions.  Slot indices start at 1 (the code's start at 0).  The     *)
(* free list is a set: which free slot is popped is left open, and no index *)
(* can be pushed twice, because only an occupied slot is reclaimed and      *)
(* FreeSlotsExact (TaskSystem) says that no occupied slot is free.  The     *)
(* 32-bit generation is a natural number: a slot would have to be reused    *)
(* 2^32 times while an old handle is kept (task_system.h:41 dismisses it).  *)
(*                                                                          *)
(* Every operation runs under m_mutex.  The mutex itself, and the moment in *)
(* the scan at which each task's completion flag is read, are in TaskSystem.*)
(***************************************************************************)
EXTENDS Naturals, Sequences, FiniteSets

CONSTANTS Tasks,   \* task objects
          NoTask   \* the null shared_ptr

ASSUME TaskAssumption == NoTask \notin Tasks

VARIABLES slots,   \* m_slots
          free     \* m_free, as a set

poolVars == <<slots, free>>

Slot == [task : Tasks \cup {NoTask}, generation : Nat, launched : BOOLEAN]
Handle == [index : Nat \ {0}, generation : Nat]

PoolTypeOK ==
  /\ slots \in Seq(Slot)
  /\ free \subseteq 1 .. Len(slots)

PoolInit ==
  /\ slots = <<>>
  /\ free = {}

-----------------------------------------------------------------------------
(***************************************************************************)
(* reclaimCompletedLocked.  `complete' is the set of tasks whose            *)
(* GetIsComplete() is true; it is also true of a task not yet enqueued.     *)
(***************************************************************************)

\* Fault: the scan forgets that a slot may be pending (no `launched' test).
ReclaimableEvenPending(complete) ==
  {i \in DOMAIN slots : slots[i].task \in complete}

Reclaimable(complete) ==
  {i \in DOMAIN slots : slots[i].task \in complete /\ slots[i].launched}

\* Fault: the generation is not advanced when a slot is given back.
ReclaimedKeepingGeneration(R) ==
  [i \in DOMAIN slots |->
     IF i \in R
     THEN [task |-> NoTask, generation |-> slots[i].generation, launched |-> FALSE]
     ELSE slots[i]]

Reclaimed(R) ==
  [i \in DOMAIN slots |->
     IF i \in R
     THEN [task |-> NoTask, generation |-> slots[i].generation + 1, launched |-> FALSE]
     ELSE slots[i]]

ReclaimCompleted(R) ==
  /\ slots' = Reclaimed(R)
  /\ free' = free \cup R

(***************************************************************************)
(* insert: take a free slot; R is what the scan that runs when the free     *)
(* list is empty gave back.  Only when both are empty does the table grow.  *)
(***************************************************************************)
Reuse(t, index, R) ==
  /\ index \in free \cup R
  /\ slots' = [Reclaimed(R) EXCEPT
       ![index] = [task |-> t, generation |-> @.generation, launched |-> FALSE]]
  /\ free' = (free \cup R) \ {index}

Grow(t, index) ==
  /\ index = Len(slots) + 1
  /\ slots' = Append(slots, [task |-> t, generation |-> 0, launched |-> FALSE])
  /\ UNCHANGED free

Insert(t, index, R) ==
  \/ Reuse(t, index, R)
  \/ free \cup R = {} /\ Grow(t, index)

-----------------------------------------------------------------------------
MarkLaunched(h) ==
  /\ slots' = IF h.index \in DOMAIN slots /\ slots[h.index].generation = h.generation
              THEN [slots EXCEPT ![h.index].launched = TRUE]
              ELSE slots
  /\ UNCHANGED free

Find(h) ==
  IF h.index \in DOMAIN slots /\ slots[h.index].generation = h.generation
  THEN slots[h.index].task
  ELSE NoTask
=============================================================================
