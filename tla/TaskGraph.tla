------------------------------ MODULE TaskGraph ------------------------------
(***************************************************************************)
(* core/task/task_graph.cpp: a dependency graph is built node by node, then *)
(* submitted as a whole under one handle, that of a terminator which        *)
(* depends on every node without a successor.  Its Storage owns all nodes   *)
(* and is the object the pool's slot holds.                                 *)
(*                                                                          *)
(* submitTo enqueues the roots one after another with no lock held, while   *)
(* the scheduler already runs those it has, starts dependents, and other    *)
(* submitters scan the pool.  The scheduler (enkiTS, not under src/) is     *)
(* modelled by what task_graph.cpp relies on: enqueuing a root marks all it *)
(* leads to as not complete, and a dependent starts when its last           *)
(* predecessor completes.  The slot is modelled as TaskPool has it: it is   *)
(* given back when it is launched and its task complete.                    *)
(*                                                                          *)
(* Nodes are numbered from 1 (the code's from 0).  A predecessor listed     *)
(* twice is one edge: enkiTS counts it twice on both sides.  Priorities and *)
(* partitions are left out; of the thread a node is pinned to only matters  *)
(* whether the scheduler has it.                                            *)
(***************************************************************************)
EXTENDS Naturals, Sequences, FiniteSets

CONSTANT MaxNodes   \* bound: nodes in the graph

ASSUME GraphAssumption == MaxNodes \in Nat

VARIABLES
  nodes,      \* Storage::nodes
  step,       \* where submitTo is
  toEnqueue,  \* the nodes the loop over roots has not looked at yet
  state,      \* scheduler's view of each node
  armed,      \* the terminator's running count is not zero
  slot,       \* the slot of the terminator: "none", "pending", "launched", "free"
  starts,     \* history: how often each node was started
  told        \* history: the handle was reported complete

vars == <<nodes, step, toEnqueue, state, armed, slot, starts, told>>

Ids == 1 .. Len(nodes)
Node == [incoming : SUBSET (1 .. MaxNodes), successor_count : Nat, threadExists : BOOLEAN]

TypeOK ==
  /\ nodes \in Seq(Node) /\ Len(nodes) <= MaxNodes
  /\ \A n \in Ids : nodes[n].incoming \subseteq 1 .. n - 1
  /\ step \in {"building", "rejected", "launching", "returned"}
  /\ toEnqueue \in 0 .. MaxNodes + 1
  /\ state \in [1 .. MaxNodes -> {"new", "queued", "running", "done"}]
  /\ armed \in BOOLEAN
  /\ slot \in {"none", "pending", "launched", "free"}
  /\ starts \in [1 .. MaxNodes -> Nat]
  /\ told \in BOOLEAN

Init ==
  /\ nodes = <<>>
  /\ step = "building"
  /\ toEnqueue = 0
  /\ state = [n \in 1 .. MaxNodes |-> "new"]
  /\ armed = FALSE
  /\ slot = "none"
  /\ starts = [n \in 1 .. MaxNodes |-> 0]
  /\ told = FALSE

-----------------------------------------------------------------------------
(***************************************************************************)
(* addImpl, addParallelForImpl, addPinnedImpl with linkPredecessors.  Only  *)
(* earlier nodes are accepted.  When the list of predecessors holds a node  *)
(* that does not exist, linkPredecessors throws, but the node was pushed    *)
(* and the edges before that one are linked: what is left is a step of this *)
(* action for those edges.                                                  *)
(***************************************************************************)

\* The nodes that may be named as predecessors of the next one.
Existing == Ids

Linked(preds, threadExists) ==
  Append([n \in Ids |-> IF n \in preds
                        THEN [nodes[n] EXCEPT !.successor_count = @ + 1]
                        ELSE nodes[n]],
         [incoming |-> preds, successor_count |-> 0, threadExists |-> threadExists])

AddNode(preds, threadExists) ==
  /\ step = "building"
  /\ Len(nodes) < MaxNodes
  /\ nodes' = Linked(preds, threadExists)
  /\ UNCHANGED <<step, toEnqueue, state, armed, slot, starts, told>>

-----------------------------------------------------------------------------
(***************************************************************************)
(* submitTo.  The storage leaves the graph first: a submission that throws  *)
(* takes the graph with it.                                                 *)
(***************************************************************************)

\* Fault: the loop ends with the first node.
FirstNode == {n \in Ids : n = 1}

Roots == {n \in Ids : nodes[n].incoming = {}}

\* Fault: only the node added last.
LastNode == {n \in Ids : n = Len(nodes)}

\* The nodes the terminator depends on.
Leaves == {n \in Ids : nodes[n].successor_count = 0}

Closed == nodes # <<>> /\ Roots = {}

Accepted == /\ \A n \in Ids : nodes[n].threadExists
            /\ ~Closed

SubmitRejected ==
  /\ step = "building"
  /\ ~Accepted
  /\ step' = "rejected"
  /\ UNCHANGED <<nodes, toEnqueue, state, armed, slot, starts, told>>

\* The terminator's edges are linked and insert gives its slot.
SubmitInsert ==
  /\ step = "building"
  /\ Accepted
  /\ step' = "launching"
  /\ toEnqueue' = 1
  /\ slot' = "pending"
  /\ UNCHANGED <<nodes, state, armed, starts, told>>

\* Fault: every node is enqueued, not just the roots.
EnqueueEveryNode ==
  /\ step = "launching"
  /\ toEnqueue \in Ids
  /\ toEnqueue' = toEnqueue + 1
  /\ state' = [state EXCEPT ![toEnqueue] = "queued"]
  /\ armed' = TRUE
  /\ UNCHANGED <<nodes, step, slot, starts, told>>

\* One turn of the loop.  Adding a root arms whatever depends on it: the
\* terminator too, to which every node leads.
EnqueueNext ==
  /\ step = "launching"
  /\ toEnqueue \in Ids
  /\ toEnqueue' = toEnqueue + 1
  /\ IF toEnqueue \in Roots
     THEN /\ state' = [state EXCEPT ![toEnqueue] = "queued"]
          /\ armed' = TRUE
     ELSE UNCHANGED <<state, armed>>
  /\ UNCHANGED <<nodes, step, slot, starts, told>>

SubmitReturn ==
  /\ step = "launching"
  /\ toEnqueue = Len(nodes) + 1
  /\ slot' = IF slot = "pending" THEN "launched" ELSE slot   \* markLaunched
  /\ step' = "returned"
  /\ UNCHANGED <<nodes, toEnqueue, state, armed, starts, told>>

-----------------------------------------------------------------------------
(* The scheduler. *)

Start(n) ==
  /\ state[n] = "queued"
  /\ state' = [state EXCEPT ![n] = "running"]
  /\ starts' = [starts EXCEPT ![n] = @ + 1]
  /\ UNCHANGED <<nodes, step, toEnqueue, armed, slot, told>>

\* The dependents whose last predecessor n is, and the terminator.
Released(n) ==
  {d \in Ids : /\ n \in nodes[d].incoming
               /\ \A p \in nodes[d].incoming \ {n} : state[p] = "done"}

Finish(n) ==
  /\ state[n] = "running"
  /\ state' = [m \in 1 .. MaxNodes |-> IF m = n THEN "done"
                                       ELSE IF m \in Released(n) THEN "queued"
                                       ELSE state[m]]
  /\ armed' = (armed /\ ~\A l \in Leaves : l = n \/ state[l] = "done")
  /\ UNCHANGED <<nodes, step, toEnqueue, slot, starts, told>>

-----------------------------------------------------------------------------
(* The pool and the holder of the handle.  GetIsComplete() of the           *)
(* terminator is ~armed: true before its first root is enqueued.            *)

\* Fault: the scan takes a slot that is still pending.
ReclaimableEvenPending == slot \in {"pending", "launched"} /\ ~armed

Reclaimable == slot = "launched" /\ ~armed

\* Some insert or waitForAll scans the pool.
Reclaim ==
  /\ Reclaimable
  /\ slot' = "free"
  /\ UNCHANGED <<nodes, step, toEnqueue, state, armed, starts, told>>

\* wait returns, or isComplete returns true, for the graph's handle.
Report ==
  /\ step = "returned" /\ ~told
  /\ slot = "free" \/ ~armed
  /\ told' = TRUE
  /\ UNCHANGED <<nodes, step, toEnqueue, state, armed, slot, starts>>

-----------------------------------------------------------------------------
Submission == SubmitRejected \/ SubmitInsert \/ EnqueueNext \/ SubmitReturn

Next ==
  \/ \E preds \in SUBSET Existing, threadExists \in BOOLEAN : AddNode(preds, threadExists)
  \/ Submission
  \/ \E n \in Ids : Start(n) \/ Finish(n)
  \/ Reclaim
  \/ Report

Spec == Init /\ [][Next]_vars

(***************************************************************************)
(* submitTo runs to its end once it has begun, the scheduler starts what is *)
(* queued, and bodies end.  The application need not submit the graph.      *)
(***************************************************************************)
Fairness ==
  /\ WF_vars(EnqueueNext \/ SubmitReturn)
  /\ \A n \in 1 .. MaxNodes : WF_vars(n \in Ids /\ (Start(n) \/ Finish(n)))

FairSpec == Spec /\ Fairness

-----------------------------------------------------------------------------
(***************************************************************************)
(* No node starts twice, or before all of its predecessors are done,        *)
(* although roots finish and release dependents while submitTo is still     *)
(* enqueuing others.                                                        *)
(***************************************************************************)
DependenciesRespected ==
  \A n \in Ids :
    /\ state[n] # "new" => \A p \in nodes[n].incoming : state[p] = "done"
    /\ starts[n] <= 1

(***************************************************************************)
(* The scheduler holds raw pointers into the storage: as long as a node is  *)
(* queued or running, or waits for one that is, submitTo's local reference  *)
(* or the pool's slot keeps the storage alive.                              *)
(***************************************************************************)
StorageAlive ==
  \/ \A n \in Ids : state[n] \in {"new", "done"}
  \/ step = "launching"
  \/ slot \in {"pending", "launched"}

(***************************************************************************)
(* One handle for the whole graph: as a future it is submitted once,        *)
(* finished when all nodes are, and never reported before that.             *)
(***************************************************************************)
Phase ==
  IF step \in {"building", "rejected"} THEN "unsubmitted"
  ELSE IF (\A n \in Ids : state[n] = "done") /\ (nodes # <<>> \/ step = "returned")
       THEN "finished" ELSE "submitted"

GraphFuture == INSTANCE TaskFuture
  WITH Tasks <- {"graph"}, phase <- [t \in {"graph"} |-> Phase],
       told <- IF told THEN {"graph"} ELSE {}
GraphFutureSpec == GraphFuture!Spec

(***************************************************************************)
(* A graph that was accepted runs to its end: every node gets done and the  *)
(* handle becomes complete.  (A dependent linked after its predecessor was  *)
(* enqueued would never start, task_graph.h; the API cannot do that.)       *)
(***************************************************************************)
GraphCompletes ==
  step = "launching" ~> (\A n \in Ids : state[n] = "done") /\ ~armed /\ step = "returned"

-----------------------------------------------------------------------------
(***************************************************************************)
(* Why: the inductive invariant behind the safety properties.               *)
(***************************************************************************)

\* The count of successors says whether a node is anyone's predecessor.
LinkInv ==
  \A n \in Ids : nodes[n].successor_count = 0 <=> \A m \in Ids : n \notin nodes[m].incoming

\* Every node leads to a leaf: nodes that hold all leaves, and with a node its
\* predecessors, are all nodes.
LeavesCover ==
  \A some \in SUBSET Ids :
    (Leaves \subseteq some /\ \A n \in some : nodes[n].incoming \subseteq some) => some = Ids

StepInv ==
  /\ step \in {"building", "rejected"} => /\ toEnqueue = 0 /\ slot = "none"
                                         /\ \A n \in 1 .. MaxNodes : state[n] = "new"
  /\ step = "launching" => toEnqueue \in 1 .. Len(nodes) + 1 /\ slot = "pending"
  /\ step = "returned" => toEnqueue = Len(nodes) + 1 /\ slot \in {"launched", "free"}
  /\ slot = "free" \/ told => step = "returned" /\ ~armed

\* A root is started by the loop, any other node by its last predecessor.
StateInv ==
  \A n \in 1 .. MaxNodes :
    /\ state[n] # "new" <=> /\ n \in Ids
                            /\ IF n \in Roots THEN n < toEnqueue
                               ELSE \A p \in nodes[n].incoming : state[p] = "done"
    /\ starts[n] = IF state[n] \in {"running", "done"} THEN 1 ELSE 0

\* The terminator counts from the first root to the last leaf.
ArmedInv == armed <=> toEnqueue > 1 /\ \E n \in Ids : state[n] # "done"

IInv == TypeOK /\ LinkInv /\ LeavesCover /\ StepInv /\ StateInv /\ ArmedInv
=============================================================================
