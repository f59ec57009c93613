----------------------------- MODULE TaskSystem -----------------------------
(***************************************************************************)
(* core/task/task_system.cpp: submitting tasks, waiting for handles,        *)
(* waitForAll, blocking parallelFor and shutdown, with every caller         *)
(* interleaved at the points where the code holds no lock.                  *)
(*                                                                          *)
(* The callers are application threads and the bodies of running tasks:     *)
(* a body may submit and may wait for what it submitted.  The scheduler     *)
(* (enkiTS, not under src/) is modelled by what TaskSystem relies on: a     *)
(* task's GetIsComplete() is true until it is enqueued, false while it is   *)
(* queued or running, and true again for ever.  Which thread runs a task,   *)
(* priorities and partitions of a task set are left out, so is pinning.     *)
(***************************************************************************)
EXTENDS TaskPool

CONSTANTS Threads,       \* application threads that call the API
          Nobody         \* the free mutex

ASSUME ActorAssumption ==
  /\ Threads \cap Tasks = {}
  /\ Nobody \notin Threads \cup Tasks
  /\ IsFiniteSet(Tasks)

Actors == Threads \cup Tasks
NoHandle == [index |-> 0, generation |-> 0]   \* TaskHandle{}, matches no slot

VARIABLES
  alive,      \* s_instance # nullptr
  lock,       \* the actor inside a scan of the pool under m_mutex, or Nobody
  seen,       \* the slots that were reclaimable when that scan began
  status,     \* scheduler's view: "new", "queued", "running", "done"
  pc,         \* where each actor is inside the API
  cur,        \* the task reference each actor holds (shared_ptr or stack object)
  arg,        \* the task whose handle an actor passed to wait or isComplete
  handleOf,   \* the handle issued for each task
  known,      \* tasks whose handle has been returned to the application
  parent,     \* the actor that submitted each task
  told,       \* tasks that wait or isComplete has reported as finished
  peak        \* history: the most slots that were ever needed at once

vars == <<slots, free, alive, lock, seen, status, pc, cur, arg,
          handleOf, known, parent, told, peak>>

\* GetIsComplete(): m_RunningCount is zero before the task is enqueued too.
Complete == {t \in Tasks : status[t] \in {"new", "done"}}
InFlight == {t \in Tasks : status[t] \in {"queued", "running"}}

\* Fault: the pool's mutex stays taken for as long as some caller waits.
MutexHeldWhileWaiting == lock = Nobody /\ \A a \in Actors : pc[a] # "wait"

\* m_mutex can be taken.
MutexFree == lock = Nobody

\* An actor can call the API: a thread always, a task's body while it runs.
Active(a) == a \in Threads \/ (a \in Tasks /\ status[a] = "running")

PcSet == {"idle", "insert", "scan", "enqueue", "mark", "wait", "query",
          "fork", "drain", "drain_scan"}

TypeOK ==
  /\ PoolTypeOK
  /\ alive \in BOOLEAN
  /\ lock \in Actors \cup {Nobody}
  /\ seen \subseteq DOMAIN slots
  /\ status \in [Tasks -> {"new", "queued", "running", "done"}]
  /\ pc \in [Actors -> PcSet]
  /\ cur \in [Actors -> Tasks \cup {NoTask}]
  /\ arg \in [Actors -> Tasks \cup {NoTask}]
  /\ handleOf \in [Tasks -> Handle \cup {NoHandle}]
  /\ known \subseteq Tasks
  /\ parent \in [Tasks -> Actors \cup {Nobody}]
  /\ told \subseteq Tasks
  /\ peak \in Nat

Init ==
  /\ PoolInit
  /\ alive = TRUE
  /\ lock = Nobody
  /\ seen = {}
  /\ status = [t \in Tasks |-> "new"]
  /\ pc = [a \in Actors |-> "idle"]
  /\ cur = [a \in Actors |-> NoTask]
  /\ arg = [a \in Actors |-> NoTask]
  /\ handleOf = [t \in Tasks |-> NoHandle]
  /\ known = {}
  /\ parent = [t \in Tasks |-> Nobody]
  /\ told = {}
  /\ peak = 0

-----------------------------------------------------------------------------
(***************************************************************************)
(* launch / launchPinned: insert, then AddTaskSetToPipe, then markLaunched, *)
(* three separate steps with no lock held between them.  insert itself is   *)
(* two steps: tasks may complete while its scan walks the slots, so the     *)
(* scan reclaims everything that was reclaimable when it began and any part *)
(* of what became so before it ended.                                       *)
(***************************************************************************)
Submit(a, t) ==
  /\ alive /\ Active(a)
  /\ pc[a] = "idle"
  /\ status[t] = "new" /\ parent[t] = Nobody
  /\ pc' = [pc EXCEPT ![a] = "insert"]
  /\ cur' = [cur EXCEPT ![a] = t]
  /\ parent' = [parent EXCEPT ![t] = a]
  /\ UNCHANGED <<slots, free, alive, lock, seen, status, arg, handleOf, known,
                 told, peak>>

\* Slots that a scan starting now could not give back.
Occupied == {i \in DOMAIN slots : slots[i].task # NoTask} \ Reclaimable(Complete)

BiggerOf(m, n) == IF m >= n THEN m ELSE n

InsertLock(a) ==
  /\ pc[a] = "insert"
  /\ MutexFree
  /\ lock' = a
  /\ seen' = IF free = {} THEN Reclaimable(Complete) ELSE {}
  /\ peak' = BiggerOf(peak, Cardinality(Occupied) + 1)
  /\ pc' = [pc EXCEPT ![a] = "scan"]
  /\ UNCHANGED <<slots, free, alive, status, cur, arg, handleOf, known,
                 parent, told>>

InsertSlot(a, index) ==
  /\ pc[a] = "scan"
  /\ lock = a
  /\ \E R \in SUBSET Reclaimable(Complete) :
       /\ seen \subseteq R
       /\ free # {} => R = {}
       /\ Insert(cur[a], index, R)
  /\ handleOf' = [handleOf EXCEPT
       ![cur[a]] = [index |-> index, generation |-> slots'[index].generation]]
  /\ lock' = Nobody
  /\ seen' = {}
  /\ pc' = [pc EXCEPT ![a] = "enqueue"]
  /\ UNCHANGED <<alive, status, cur, arg, known, parent, told, peak>>

AddTaskSetToPipe(a) ==
  /\ pc[a] = "enqueue"
  /\ status' = [status EXCEPT ![cur[a]] = "queued"]
  /\ pc' = [pc EXCEPT ![a] = "mark"]
  /\ UNCHANGED <<slots, free, alive, lock, seen, cur, arg, handleOf, known,
                 parent, told, peak>>

LaunchReturn(a) ==
  /\ pc[a] = "mark"
  /\ MutexFree
  /\ MarkLaunched(handleOf[cur[a]])
  /\ known' = known \cup {cur[a]}
  /\ pc' = [pc EXCEPT ![a] = "idle"]
  /\ cur' = [cur EXCEPT ![a] = NoTask]
  /\ UNCHANGED <<alive, lock, seen, status, arg, handleOf, parent, told,
                 peak>>

-----------------------------------------------------------------------------
(***************************************************************************)
(* wait and isComplete: find under the lock, then, with no lock held, look  *)
(* at the task through the reference found.  A thread may use any handle it *)
(* was given; a body only those of tasks it submitted itself.               *)
(***************************************************************************)
MayUse(a, t) ==
  /\ t \in known
  /\ a \in Tasks => parent[t] = a

WaitFind(a, t) ==
  /\ alive /\ Active(a)
  /\ pc[a] = "idle"
  /\ MutexFree
  /\ MayUse(a, t)
  /\ cur' = [cur EXCEPT ![a] = Find(handleOf[t])]
  /\ arg' = [arg EXCEPT ![a] = t]
  /\ pc' = [pc EXCEPT ![a] = "wait"]
  /\ UNCHANGED <<slots, free, alive, lock, seen, status, handleOf, known,
                 parent, told, peak>>

WaitReturn(a) ==
  /\ pc[a] = "wait"
  /\ cur[a] \in Complete \cup {NoTask}
  /\ told' = told \cup {arg[a]}
  /\ pc' = [pc EXCEPT ![a] = "idle"]
  /\ cur' = [cur EXCEPT ![a] = NoTask]
  /\ arg' = [arg EXCEPT ![a] = NoTask]
  /\ UNCHANGED <<slots, free, alive, lock, seen, status, handleOf, known,
                 parent, peak>>

QueryFind(a, t) ==
  /\ alive /\ Active(a)
  /\ pc[a] = "idle"
  /\ MutexFree
  /\ MayUse(a, t)
  /\ cur' = [cur EXCEPT ![a] = Find(handleOf[t])]
  /\ arg' = [arg EXCEPT ![a] = t]
  /\ pc' = [pc EXCEPT ![a] = "query"]
  /\ UNCHANGED <<slots, free, alive, lock, seen, status, handleOf, known,
                 parent, told, peak>>

QueryReturn(a) ==
  /\ pc[a] = "query"
  /\ told' = IF cur[a] \in Complete \cup {NoTask} THEN told \cup {arg[a]} ELSE told
  /\ pc' = [pc EXCEPT ![a] = "idle"]
  /\ cur' = [cur EXCEPT ![a] = NoTask]
  /\ arg' = [arg EXCEPT ![a] = NoTask]
  /\ UNCHANGED <<slots, free, alive, lock, seen, status, handleOf, known,
                 parent, peak>>

-----------------------------------------------------------------------------
(***************************************************************************)
(* Blocking parallelFor: the task object is on the caller's stack and never *)
(* enters the pool; the caller does not return before the task is done.     *)
(***************************************************************************)
ParallelFor(a, t) ==
  /\ alive /\ Active(a)
  /\ pc[a] = "idle"
  /\ status[t] = "new" /\ parent[t] = Nobody
  /\ status' = [status EXCEPT ![t] = "queued"]
  /\ pc' = [pc EXCEPT ![a] = "fork"]
  /\ cur' = [cur EXCEPT ![a] = t]
  /\ parent' = [parent EXCEPT ![t] = a]
  /\ UNCHANGED <<slots, free, alive, lock, seen, arg, handleOf, known, told,
                 peak>>

\* Fault: parallelFor returns without waiting for the task on its stack.
ForkReturnAtOnce(a) ==
  /\ pc[a] = "fork"
  /\ pc' = [pc EXCEPT ![a] = "idle"]
  /\ cur' = [cur EXCEPT ![a] = NoTask]
  /\ UNCHANGED <<slots, free, alive, lock, seen, status, arg, handleOf, known,
                 parent, told, peak>>

ForkReturn(a) ==
  /\ pc[a] = "fork"
  /\ cur[a] \in Complete
  /\ pc' = [pc EXCEPT ![a] = "idle"]
  /\ cur' = [cur EXCEPT ![a] = NoTask]
  /\ UNCHANGED <<slots, free, alive, lock, seen, status, arg, handleOf, known,
                 parent, told, peak>>

(***************************************************************************)
(* waitForAll: WaitforAll returns at a moment when nothing is queued or     *)
(* running; the scan that follows takes the mutex later.                    *)
(***************************************************************************)
WaitForAll(a) ==
  /\ alive /\ a \in Threads
  /\ pc[a] = "idle"
  /\ InFlight = {}
  /\ pc' = [pc EXCEPT ![a] = "drain"]
  /\ UNCHANGED <<slots, free, alive, lock, seen, status, cur, arg, handleOf,
                 known, parent, told, peak>>

DrainLock(a) ==
  /\ pc[a] = "drain"
  /\ MutexFree
  /\ lock' = a
  /\ seen' = Reclaimable(Complete)
  /\ pc' = [pc EXCEPT ![a] = "drain_scan"]
  /\ UNCHANGED <<slots, free, alive, status, cur, arg, handleOf, known,
                 parent, told, peak>>

DrainReclaim(a) ==
  /\ pc[a] = "drain_scan"
  /\ lock = a
  /\ \E R \in SUBSET Reclaimable(Complete) : seen \subseteq R /\ ReclaimCompleted(R)
  /\ lock' = Nobody
  /\ seen' = {}
  /\ pc' = [pc EXCEPT ![a] = "idle"]
  /\ UNCHANGED <<alive, status, cur, arg, handleOf, known, parent, told,
                 peak>>

-----------------------------------------------------------------------------
(***************************************************************************)
(* The scheduler: some thread picks a queued task up and runs its body to   *)
(* the end.  A body does not end inside a call of the API.                  *)
(***************************************************************************)
Start(t) ==
  /\ status[t] = "queued"
  /\ status' = [status EXCEPT ![t] = "running"]
  /\ UNCHANGED <<slots, free, alive, lock, seen, pc, cur, arg, handleOf,
                 known, parent, told, peak>>

Finish(t) ==
  /\ status[t] = "running"
  /\ pc[t] = "idle"
  /\ status' = [status EXCEPT ![t] = "done"]
  /\ UNCHANGED <<slots, free, alive, lock, seen, pc, cur, arg, handleOf,
                 known, parent, told, peak>>

(***************************************************************************)
(* shutdown waits for every task, then destroys the pool.  Calling it while *)
(* another thread is inside the API is outside its contract.  While there   *)
(* is no instance get() throws, so no call starts.  (A later init, which is *)
(* not modelled, begins with an empty pool, in which generations start      *)
(* again at 0: the handles of the old pool may then denote new tasks.)      *)
(***************************************************************************)
Quiet == \A a \in Actors : pc[a] = "idle"

Shutdown ==
  /\ alive /\ Quiet /\ InFlight = {}
  /\ alive' = FALSE
  /\ slots' = <<>>
  /\ free' = {}
  /\ UNCHANGED <<lock, seen, status, pc, cur, arg, handleOf, known,
                 parent, told, peak>>

-----------------------------------------------------------------------------
\* A step of a call that has begun.
Continue(a) ==
  \/ InsertLock(a)
  \/ \E index \in 1 .. Len(slots) + 1 : InsertSlot(a, index)
  \/ AddTaskSetToPipe(a)
  \/ LaunchReturn(a)
  \/ WaitReturn(a)
  \/ QueryReturn(a)
  \/ ForkReturn(a)
  \/ DrainLock(a)
  \/ DrainReclaim(a)

\* The first step of a call.
Call(a) ==
  \/ \E t \in Tasks : Submit(a, t) \/ ParallelFor(a, t) \/ WaitFind(a, t) \/ QueryFind(a, t)
  \/ WaitForAll(a)

Next ==
  \/ \E a \in Actors : Call(a) \/ Continue(a)
  \/ \E t \in Tasks : Start(t) \/ Finish(t)
  \/ Shutdown

Spec == Init /\ [][Next]_vars

(***************************************************************************)
(* Calls that have begun go on.  Taking the mutex needs strong fairness     *)
(* (others may take it in between); a body makes finitely many calls, so it *)
(* ends if it can end again and again; enkiTS runs what is queued.          *)
(***************************************************************************)
Fairness ==
  /\ \A a \in Actors : SF_vars(Continue(a))
  /\ \A t \in Tasks : WF_vars(Start(t)) /\ SF_vars(Finish(t))

FairSpec == Spec /\ Fairness

-----------------------------------------------------------------------------
(***************************************************************************)
(* Handle safety (task_system.h:39, task/README.md:104): as long as there   *)
(* is one TaskSystem, a handle never denotes another task, and a handle     *)
(* that denotes nothing belongs to a task that is finished, however slots   *)
(* are reclaimed and reused by concurrent submitters.                       *)
(***************************************************************************)
HandlesSafe ==
  \A t \in known :
    /\ Find(handleOf[t]) \in {t, NoTask}
    /\ Find(handleOf[t]) = NoTask => status[t] = "done"

(***************************************************************************)
(* The scheduler works on raw pointers: while a task is queued or running   *)
(* something still owns it, its pool slot or the stack frame of the         *)
(* parallelFor that waits for it.                                           *)
(***************************************************************************)
Owned(t) ==
  \/ \E i \in DOMAIN slots : slots[i].task = t
  \/ \E a \in Actors : pc[a] = "fork" /\ cur[a] = t

SchedulerObjectsAlive == \A t \in InFlight : Owned(t)

(***************************************************************************)
(* The table does not grow with the number of submissions                  *)
(* (task_system.h:186): it never has more slots than were once needed at    *)
(* the same time by tasks that were pending or unfinished.                  *)
(***************************************************************************)
SlotTableBounded == Len(slots) <= peak

(***************************************************************************)
(* A wait on a handle (task_pool.h:20, task/README.md:105) only ever blocks *)
(* on the handle's own task, never on another one.                          *)
(***************************************************************************)
WaitsForOwnTask ==
  \A a \in Actors : pc[a] = "wait" => cur[a] \in {arg[a], NoTask}

(***************************************************************************)
(* The handles implement futures: see TaskFuture.                           *)
(***************************************************************************)
Phase == [t \in Tasks |-> CASE status[t] = "new"  -> "unsubmitted"
                            [] status[t] = "done" -> "finished"
                            [] OTHER              -> "submitted"]

Futures == INSTANCE TaskFuture WITH phase <- Phase, told <- told
FuturesSpec == Futures!Spec

(***************************************************************************)
(* A thread's wait always returns: waiters hold no lock that the bodies     *)
(* they wait for, which submit and wait themselves, need in order to end    *)
(* (task_pool.h:20-22).                                                     *)
(***************************************************************************)
WaitsReturn == \A a \in Threads : pc[a] = "wait" ~> pc[a] = "idle"

-----------------------------------------------------------------------------
(***************************************************************************)
(* The inductive invariant behind HandlesSafe, SchedulerObjectsAlive,       *)
(* SlotTableBounded and the refinement of TaskFuture.                       *)
(***************************************************************************)

\* The handle of t denotes t.
InSlot(t) ==
  /\ handleOf[t].index \in DOMAIN slots
  /\ slots[handleOf[t].index].generation = handleOf[t].generation
  /\ slots[handleOf[t].index].task = t

\* The slot t was in has been given back since.
Stale(t) ==
  /\ status[t] = "done"
  /\ alive => /\ handleOf[t].index \in DOMAIN slots
              /\ slots[handleOf[t].index].generation > handleOf[t].generation

\* The mutex is held exactly during a scan.
LockInv ==
  /\ \A a \in Actors : pc[a] \in {"scan", "drain_scan"} <=> lock = a
  /\ lock = Nobody => seen = {}

\* An occupied slot agrees with its task's handle, and it is pending only
\* while the submitter is between insert and markLaunched.
SlotInv ==
  \A i \in DOMAIN slots : slots[i].task # NoTask =>
    /\ handleOf[slots[i].task] = [index |-> i, generation |-> slots[i].generation]
    /\ parent[slots[i].task] \in Actors
    /\ slots[i].launched => slots[i].task \in known
    /\ ~slots[i].launched => /\ pc[parent[slots[i].task]] \in {"enqueue", "mark"}
                             /\ cur[parent[slots[i].task]] = slots[i].task

FreeSlotsExact == free = {i \in DOMAIN slots : slots[i].task = NoTask}

KnownInv ==
  \A t \in known : /\ status[t] # "new"
                   /\ parent[t] \in Actors
                   /\ InSlot(t) \/ Stale(t)

\* What a submitter holds between the steps of its call.
SubmitInv ==
  \A a \in Actors :
    /\ pc[a] \in {"insert", "scan", "enqueue", "mark", "fork"} =>
         cur[a] \in Tasks /\ parent[cur[a]] = a /\ cur[a] \notin known
    /\ pc[a] \in {"insert", "scan", "enqueue"} => status[cur[a]] = "new"
    /\ pc[a] \in {"mark", "fork"} => status[cur[a]] # "new"
    /\ pc[a] \in {"insert", "scan", "fork"} =>
         \A i \in DOMAIN slots : slots[i].task # cur[a]
    /\ pc[a] \in {"enqueue", "mark"} => InSlot(cur[a])

FreshInv ==
  \A t \in Tasks : parent[t] = Nobody =>
    /\ status[t] = "new" /\ t \notin known
    /\ \A i \in DOMAIN slots : slots[i].task # t

\* What a waiter or an inquirer holds.
WaitInv ==
  \A a \in Actors : pc[a] \in {"wait", "query"} =>
    /\ arg[a] \in known
    /\ cur[a] \in {arg[a], NoTask}
    /\ cur[a] = NoTask => status[arg[a]] = "done"

OwnedInv ==
  \A t \in InFlight : \/ InSlot(t)
                      \/ parent[t] \in Actors /\ pc[parent[t]] = "fork" /\ cur[parent[t]] = t

StoppedInv == ~alive => slots = <<>> /\ Quiet

PeakInv ==
  /\ Len(slots) <= peak
  /\ \A a \in Actors : pc[a] = "scan" /\ seen = {} /\ free = {} => Len(slots) < peak

IInv ==
  /\ TypeOK
  /\ LockInv
  /\ SlotInv
  /\ FreeSlotsExact
  /\ KnownInv
  /\ SubmitInv
  /\ FreshInv
  /\ WaitInv
  /\ OwnedInv
  /\ StoppedInv
  /\ PeakInv
=============================================================================
