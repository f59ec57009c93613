---------------------------- MODULE TaskGraphProofs ----------------------------
(***************************************************************************)
(* TaskGraph for graphs of any size: dependencies are respected, the        *)
(* storage is kept, and the handle is a future.  That the terminator covers *)
(* all nodes is an induction over the graph; it is made here with the       *)
(* steps that build it (LeavesCover).                                       *)
(***************************************************************************)
EXTENDS TaskGraph, TLAPS

-----------------------------------------------------------------------------
(* The graph. *)

LEMMA NodeTypes ==
  ASSUME TypeOK
  PROVE  /\ Len(nodes) \in Nat /\ Len(nodes) <= MaxNodes
         /\ Ids \subseteq 1 .. MaxNodes
         /\ DOMAIN nodes = Ids
         /\ \A n \in Ids : /\ nodes[n] \in Node
                           /\ nodes[n].incoming \subseteq 1 .. n - 1
                           /\ nodes[n].incoming \subseteq Ids
                           /\ nodes[n].successor_count \in Nat
  <1>1. Len(nodes) \in Nat /\ Len(nodes) <= MaxNodes /\ DOMAIN nodes = Ids
    BY GraphAssumption DEF TypeOK, Ids
  <1>2. \A n \in Ids : nodes[n] \in Node
    BY DEF TypeOK, Ids
  <1>3. \A x \in Node : x.successor_count \in Nat
    BY DEF Node
  <1>4. \A n \in Ids : nodes[n].incoming \subseteq 1 .. n - 1
    BY DEF TypeOK
  <1>5. \A n \in Ids : 1 .. n - 1 \subseteq Ids
    BY <1>1 DEF Ids
  <1> QED
    BY <1>1, <1>2, <1>3, <1>4, <1>5, GraphAssumption DEF Ids

LEMMA LinkedNodes ==
  ASSUME TypeOK, NEW preds \in SUBSET Ids, NEW threadExists \in BOOLEAN,
         Len(nodes) < MaxNodes, nodes' = Linked(preds, threadExists)
  PROVE  /\ nodes' \in Seq(Node) /\ Len(nodes') = Len(nodes) + 1
         /\ \A n \in Ids : /\ nodes'[n].incoming = nodes[n].incoming
                           /\ nodes'[n].successor_count =
                                IF n \in preds THEN nodes[n].successor_count + 1
                                ELSE nodes[n].successor_count
         /\ nodes'[Len(nodes) + 1].incoming = preds
         /\ nodes'[Len(nodes) + 1].successor_count = 0
  <1> DEFINE new == [incoming |-> preds, successor_count |-> 0, threadExists |-> threadExists]
             node(n) == IF n \in preds THEN [nodes[n] EXCEPT !.successor_count = @ + 1] ELSE nodes[n]
             old == [n \in Ids |-> node(n)]
  <1>1. new \in Node
    BY NodeTypes DEF Node
  <1>2. ASSUME NEW n \in Ids
        PROVE  /\ node(n) \in Node
               /\ node(n).incoming = nodes[n].incoming
               /\ node(n).successor_count = IF n \in preds THEN nodes[n].successor_count + 1
                                            ELSE nodes[n].successor_count
    BY NodeTypes DEF Node
  <1> HIDE DEF node, new
  <1>3. old \in Seq(Node) /\ Len(old) = Len(nodes)
    BY <1>2, NodeTypes DEF Ids
  <1> HIDE DEF old
  <1>4. nodes' = Append(old, new)
    BY DEF Linked, old, node, new
  <1>5. /\ nodes' \in Seq(Node) /\ Len(nodes') = Len(nodes) + 1
        /\ \A n \in Ids : nodes'[n] = old[n]
        /\ nodes'[Len(nodes) + 1] = new
    BY <1>1, <1>3, <1>4, NodeTypes DEF Ids
  <1>6. \A n \in Ids : nodes'[n] = node(n)
    BY <1>5 DEF old
  <1>7. new.incoming = preds /\ new.successor_count = 0
    BY DEF new
  <1> QED
    BY <1>2, <1>5, <1>6, <1>7

\* The same, as facts for the steps that build the graph.
LEMMA LinkedFacts ==
  ASSUME TypeOK, NEW preds \in SUBSET Ids, NEW threadExists \in BOOLEAN,
         Len(nodes) < MaxNodes, nodes' = Linked(preds, threadExists)
  PROVE  /\ Ids' = Ids \cup {Len(nodes) + 1} /\ Len(nodes) + 1 \notin Ids
         /\ \A n \in Ids : /\ nodes'[n].incoming = nodes[n].incoming
                           /\ nodes[n].incoming \subseteq Ids
                           /\ nodes'[n].successor_count = 0
                                <=> n \notin preds /\ nodes[n].successor_count = 0
         /\ nodes'[Len(nodes) + 1].incoming = preds
         /\ nodes'[Len(nodes) + 1].successor_count = 0
  <1>1. Ids' = Ids \cup {Len(nodes) + 1} /\ Len(nodes) + 1 \notin Ids
    BY LinkedNodes, NodeTypes DEF Ids
  <1>2. ASSUME NEW n \in Ids
        PROVE  nodes'[n].successor_count = 0 <=> n \notin preds /\ nodes[n].successor_count = 0
    <2>1. nodes[n].successor_count \in Nat
      BY NodeTypes
    <2>2. nodes'[n].successor_count = IF n \in preds THEN nodes[n].successor_count + 1
                                      ELSE nodes[n].successor_count
      BY LinkedNodes
    <2> QED
      BY <2>1, <2>2
  <1>3. \A n \in Ids : nodes'[n].incoming = nodes[n].incoming /\ nodes[n].incoming \subseteq Ids
    BY LinkedNodes, NodeTypes
  <1>4. nodes'[Len(nodes) + 1].incoming = preds /\ nodes'[Len(nodes) + 1].successor_count = 0
    BY LinkedNodes
  <1> QED
    BY <1>1, <1>2, <1>3, <1>4

LEMMA AddLinks ==
  ASSUME TypeOK, LinkInv, NEW preds \in SUBSET Ids, NEW threadExists \in BOOLEAN,
         Len(nodes) < MaxNodes, nodes' = Linked(preds, threadExists)
  PROVE  LinkInv' /\ Leaves' = (Leaves \ preds) \cup {Len(nodes) + 1}
  <1> DEFINE k == Len(nodes) + 1
  <1>1. /\ Ids' = Ids \cup {k} /\ k \notin Ids
        /\ \A n \in Ids : /\ nodes'[n].incoming = nodes[n].incoming
                          /\ nodes[n].incoming \subseteq Ids
                          /\ nodes'[n].successor_count = 0
                               <=> n \notin preds /\ nodes[n].successor_count = 0
        /\ nodes'[k].incoming = preds /\ nodes'[k].successor_count = 0
    BY LinkedFacts, Zenon
  <1> HIDE DEF k
  <1>2. ASSUME NEW n \in Ids'
        PROVE  nodes'[n].successor_count = 0 <=> \A m \in Ids' : n \notin nodes'[m].incoming
    <2>1. CASE n = k
      BY <2>1, <1>1
    <2>2. CASE n \in Ids
      BY <2>2, <1>1 DEF LinkInv
    <2> QED
      BY <1>1, <2>1, <2>2
  <1>3. Leaves' = (Leaves \ preds) \cup {k}
    BY <1>1 DEF Leaves
  <1> QED
    BY <1>2, <1>3 DEF LinkInv, k

LEMMA AddCovers ==
  ASSUME TypeOK, LinkInv, LeavesCover, NEW preds \in SUBSET Ids, NEW threadExists \in BOOLEAN,
         Len(nodes) < MaxNodes, nodes' = Linked(preds, threadExists)
  PROVE  LeavesCover'
  <1> DEFINE k == Len(nodes) + 1
  <1>1. /\ Ids' = Ids \cup {k} /\ k \notin Ids
        /\ \A n \in Ids : /\ nodes'[n].incoming = nodes[n].incoming
                          /\ nodes[n].incoming \subseteq Ids
                          /\ nodes'[n].successor_count = 0
                               <=> n \notin preds /\ nodes[n].successor_count = 0
        /\ nodes'[k].incoming = preds /\ nodes'[k].successor_count = 0
    BY LinkedFacts, Zenon
  <1>2. Leaves' = (Leaves \ preds) \cup {k}
    BY AddLinks
  <1> HIDE DEF k
  <1> SUFFICES ASSUME NEW some \in SUBSET Ids', Leaves' \subseteq some,
                      \A n \in some : nodes'[n].incoming \subseteq some
               PROVE  some = Ids'
    BY DEF LeavesCover
  <1> DEFINE before == some \ {k}
  <1>3. k \in some /\ preds \subseteq before
    BY <1>1, <1>2
  <1>4. Leaves \subseteq before
    BY <1>1, <1>2, <1>3 DEF Leaves
  <1>5. \A n \in before : nodes[n].incoming \subseteq before
    BY <1>1
  <1>6. before = Ids
    BY <1>1, <1>4, <1>5 DEF LeavesCover
  <1> QED
    BY <1>1, <1>3, <1>6

\* When the leaves are done all nodes are, because a node starts only when its
\* predecessors are done.
LEMMA AllDone ==
  ASSUME TypeOK, LeavesCover, NEW s,
         \A n \in Ids : s[n] = "done" => \A p \in nodes[n].incoming : s[p] = "done"
  PROVE  (\A l \in Leaves : s[l] = "done") <=> \A n \in Ids : s[n] = "done"
  <1> DEFINE some == {n \in Ids : s[n] = "done"}
  <1>1. ASSUME \A l \in Leaves : s[l] = "done"
        PROVE  \A n \in Ids : s[n] = "done"
    <2>1. Leaves \subseteq some
      BY <1>1 DEF Leaves
    <2>2. \A n \in some : nodes[n].incoming \subseteq some
      BY NodeTypes
    <2>3. some = Ids
      BY <2>1, <2>2 DEF LeavesCover
    <2> QED
      BY <2>3
  <1> QED
    BY <1>1 DEF Leaves

LEMMA Respected == ASSUME IInv PROVE DependenciesRespected
  <1>1. ASSUME NEW n \in Ids, state[n] # "new"
        PROVE  \A p \in nodes[n].incoming : state[p] = "done"
    BY <1>1, NodeTypes DEF IInv, StateInv, Roots
  <1>2. \A n \in Ids : starts[n] <= 1
    BY NodeTypes DEF IInv, StateInv
  <1> QED
    BY <1>1, <1>2 DEF DependenciesRespected

-----------------------------------------------------------------------------
(* The steps. *)

LEMMA AddStep ==
  ASSUME IInv, NEW preds \in SUBSET Existing, NEW threadExists \in BOOLEAN, AddNode(preds, threadExists)
  PROVE  IInv'
  <1> DEFINE k == Len(nodes) + 1
  <1>1. /\ TypeOK /\ LinkInv /\ LeavesCover /\ preds \in SUBSET Ids
        /\ Len(nodes) < MaxNodes /\ nodes' = Linked(preds, threadExists)
    BY DEF IInv, AddNode, Existing
  <1>2. /\ Ids' = Ids \cup {k} /\ k \notin Ids
        /\ \A n \in Ids : nodes'[n].incoming = nodes[n].incoming /\ nodes[n].incoming \subseteq Ids
        /\ nodes'[k].incoming = preds
    BY <1>1, LinkedFacts, Zenon
  <1>3. /\ step = "building" /\ UNCHANGED <<step, toEnqueue, state, armed, slot, starts, told>>
        /\ toEnqueue = 0 /\ slot = "none" /\ ~armed /\ ~told
        /\ \A n \in 1 .. MaxNodes : state[n] = "new" /\ starts[n] = 0
    <2>1. step = "building" /\ UNCHANGED <<step, toEnqueue, state, armed, slot, starts, told>>
      BY DEF AddNode
    <2>2. toEnqueue = 0 /\ slot = "none" /\ ~told /\ ~armed
      BY <2>1 DEF IInv, StepInv, ArmedInv
    <2>3. \A n \in 1 .. MaxNodes : state[n] = "new"
      BY <2>1 DEF IInv, StepInv
    <2>4. \A n \in 1 .. MaxNodes : starts[n] = 0
      BY <2>3 DEF IInv, StateInv
    <2> QED
      BY <2>1, <2>2, <2>3, <2>4
  <1>4. TypeOK'
    <2>1. nodes' \in Seq(Node) /\ Len(nodes') <= MaxNodes
      BY <1>1, LinkedNodes, NodeTypes, GraphAssumption
    <2>2. ASSUME NEW n \in Ids' PROVE nodes'[n].incoming \subseteq 1 .. n - 1
      <3>1. CASE n = k
        <4>1. preds \subseteq 1 .. k - 1
          BY <1>1, NodeTypes DEF Ids
        <4> QED
          BY <1>2, <3>1, <4>1
      <3>2. CASE n \in Ids
        BY <1>1, <1>2, <3>2 DEF TypeOK
      <3> QED
        BY <1>2, <3>1, <3>2
    <2> QED
      BY <1>1, <1>3, <2>1, <2>2 DEF TypeOK
  <1>5. LinkInv' /\ LeavesCover'
    BY <1>1, AddLinks, AddCovers
  <1>6. StepInv' /\ ArmedInv'
    BY <1>3 DEF StepInv, ArmedInv
  <1>7. StateInv'
    <2>1. \A n \in Ids' : n > 0 /\ nodes'[n].incoming \subseteq 1 .. MaxNodes
      <3>1. Ids \subseteq 1 .. MaxNodes /\ k > 0
        BY <1>1, NodeTypes
      <3>2. \A n \in Ids : n > 0
        BY DEF Ids
      <3> HIDE DEF k
      <3> QED
        BY <1>1, <1>2, <3>1, <3>2
    <2>2. \A n \in 1 .. MaxNodes : state'[n] = "new" /\ starts'[n] = 0 /\ toEnqueue' = 0
      BY <1>3
    <2> QED
      BY <2>1, <2>2 DEF StateInv, Roots
  <1> QED
    BY <1>4, <1>5, <1>6, <1>7 DEF IInv

\* Steps that leave the graph and the states alone.
LEMMA SubmissionStep ==
  ASSUME IInv, SubmitRejected \/ SubmitInsert \/ SubmitReturn
  PROVE  IInv'
  <1>1. /\ nodes' = nodes /\ state' = state /\ starts' = starts /\ armed' = armed /\ told' = told
        /\ Ids' = Ids /\ Roots' = Roots /\ Leaves' = Leaves
    BY DEF SubmitRejected, SubmitInsert, SubmitReturn, Ids, Roots, Leaves
  <1>2. TypeOK'
    BY <1>1, GraphAssumption DEF IInv, TypeOK, SubmitRejected, SubmitInsert, SubmitReturn
  <1>3. LinkInv' /\ LeavesCover'
    BY <1>1 DEF IInv, LinkInv, LeavesCover
  <1>4. StepInv'
    BY <1>1, NodeTypes DEF IInv, StepInv, SubmitRejected, SubmitInsert, SubmitReturn
  <1>5. \A n \in Ids : n < toEnqueue' <=> n < toEnqueue
    BY NodeTypes DEF IInv, StepInv, SubmitRejected, SubmitInsert, SubmitReturn, Ids
  <1>6. StateInv'
    BY <1>1, <1>5 DEF IInv, StateInv
  <1>7. ArmedInv'
    BY <1>1 DEF IInv, ArmedInv, StepInv, SubmitRejected, SubmitInsert, SubmitReturn
  <1> QED
    BY <1>2, <1>3, <1>4, <1>6, <1>7 DEF IInv

LEMMA PoolStep ==
  ASSUME IInv, Reclaim \/ Report \/ UNCHANGED vars
  PROVE  IInv'
  <1>1. /\ nodes' = nodes /\ state' = state /\ starts' = starts /\ armed' = armed
        /\ step' = step /\ toEnqueue' = toEnqueue
        /\ Ids' = Ids /\ Roots' = Roots /\ Leaves' = Leaves
    BY DEF Reclaim, Report, vars, Ids, Roots, Leaves
  <1>2. TypeOK'
    BY <1>1 DEF IInv, TypeOK, Reclaim, Report, vars
  <1>3. LinkInv' /\ LeavesCover' /\ StateInv' /\ ArmedInv'
    BY <1>1 DEF IInv, LinkInv, LeavesCover, StateInv, ArmedInv
  <1>4. StepInv'
    <2>1. CASE Reclaim
      <3>1. step = "returned" /\ slot = "launched" /\ slot' = "free" /\ ~armed
        BY <2>1 DEF IInv, TypeOK, StepInv, Reclaim, Reclaimable
      <3> QED
        BY <1>1, <3>1 DEF IInv, StepInv
    <2>2. CASE Report
      BY <1>1, <2>2 DEF IInv, StepInv, Report
    <2>3. CASE UNCHANGED vars
      BY <1>1, <2>3 DEF IInv, StepInv, vars
    <2> QED
      BY <2>1, <2>2, <2>3
  <1> QED
    BY <1>2, <1>3, <1>4 DEF IInv

LEMMA EnqueueStep ==
  ASSUME IInv, EnqueueNext
  PROVE  IInv'
  <1>1. /\ nodes' = nodes /\ starts' = starts /\ told' = told /\ step' = step /\ slot' = slot
        /\ step = "launching" /\ toEnqueue \in Ids /\ toEnqueue' = toEnqueue + 1
        /\ Ids' = Ids /\ Roots' = Roots /\ Leaves' = Leaves
        /\ Ids \subseteq 1 .. MaxNodes /\ \A n \in Ids : n \in Nat
    BY NodeTypes DEF IInv, EnqueueNext, Ids, Roots, Leaves
  <1>2. state' = IF toEnqueue \in Roots THEN [state EXCEPT ![toEnqueue] = "queued"] ELSE state
    BY DEF EnqueueNext
  <1>3. toEnqueue \in Roots => state[toEnqueue] = "new"
    BY <1>1 DEF IInv, StateInv
  <1>4. state \in [1 .. MaxNodes -> {"new", "queued", "running", "done"}]
    BY DEF IInv, TypeOK
  <1>5. \A n \in 1 .. MaxNodes : /\ state'[n] = "done" <=> state[n] = "done"
                                 /\ state'[n] \in {"running", "done"} <=> state[n] \in {"running", "done"}
                                 /\ state'[n] # "new" <=> state[n] # "new" \/ (n = toEnqueue /\ n \in Roots)
    BY <1>2, <1>3, <1>4
  <1>6. TypeOK'
    <2>1. state' \in [1 .. MaxNodes -> {"new", "queued", "running", "done"}]
      BY <1>2, <1>4
    <2>2. armed' \in BOOLEAN
      BY DEF IInv, TypeOK, EnqueueNext
    <2>3. toEnqueue' \in 0 .. MaxNodes + 1
      BY <1>1, GraphAssumption
    <2> QED
      BY <1>1, <2>1, <2>2, <2>3 DEF IInv, TypeOK
  <1>7. LinkInv' /\ LeavesCover'
    BY <1>1 DEF IInv, LinkInv, LeavesCover
  <1>8. StepInv'
    <2>1. toEnqueue' \in 1 .. Len(nodes') + 1
      BY <1>1, NodeTypes DEF IInv, Ids
    <2> QED
      BY <1>1, <2>1 DEF IInv, StepInv
  <1>9. StateInv'
    <2> SUFFICES ASSUME NEW n \in 1 .. MaxNodes
                 PROVE  /\ state'[n] # "new" <=> /\ n \in Ids
                                                 /\ IF n \in Roots THEN n < toEnqueue'
                                                    ELSE \A p \in nodes[n].incoming : state'[p] = "done"
                        /\ starts'[n] = IF state'[n] \in {"running", "done"} THEN 1 ELSE 0
      BY <1>1 DEF StateInv
    <2>1. starts'[n] = IF state'[n] \in {"running", "done"} THEN 1 ELSE 0
      BY <1>1, <1>5 DEF IInv, StateInv
    <2>2. CASE n \in Roots
      <3>1. n < toEnqueue' <=> n < toEnqueue \/ n = toEnqueue
        BY <1>1
      <3> QED
        BY <1>5, <2>1, <2>2, <3>1 DEF IInv, StateInv, Roots
    <2>3. CASE n \notin Ids
      BY <1>1, <1>5, <2>1, <2>3 DEF IInv, StateInv
    <2>4. CASE n \in Ids \ Roots
      <3>1. \A p \in nodes[n].incoming : state'[p] = "done" <=> state[p] = "done"
        BY <1>1, <1>5, <2>4, NodeTypes DEF IInv
      <3> QED
        BY <1>5, <2>1, <2>4, <3>1 DEF IInv, StateInv
    <2> QED
      BY <2>2, <2>3, <2>4
  <1>10. ArmedInv'
    <2>1. CASE toEnqueue \in Roots
      <3>1. armed' /\ state'[toEnqueue] # "done" /\ toEnqueue' > 1
        BY <1>1, <1>2, <1>4, <2>1 DEF EnqueueNext
      <3> QED
        BY <1>1, <3>1 DEF ArmedInv
    <2>2. CASE toEnqueue \notin Roots
      <3>1. toEnqueue > 1
        <4>1. nodes[1].incoming \subseteq 1 .. 1 - 1 \/ 1 \notin Ids
          BY NodeTypes DEF IInv
        <4>2. 1 .. 1 - 1 = {}
          OBVIOUS
        <4>3. toEnqueue # 1
          BY <1>1, <2>2, <4>1, <4>2 DEF Roots
        <4> QED
          BY <1>1, <4>3
      <3>2. armed' = armed /\ state' = state
        BY <2>2 DEF EnqueueNext
      <3> QED
        BY <1>1, <3>1, <3>2 DEF IInv, ArmedInv
    <2> QED
      BY <2>1, <2>2
  <1> QED
    BY <1>6, <1>7, <1>8, <1>9, <1>10 DEF IInv

LEMMA StartStep ==
  ASSUME IInv, NEW n \in Ids, Start(n)
  PROVE  IInv'
  <1>1. /\ nodes' = nodes /\ told' = told /\ step' = step /\ slot' = slot /\ armed' = armed
        /\ toEnqueue' = toEnqueue
        /\ Ids' = Ids /\ Roots' = Roots /\ Leaves' = Leaves /\ n \in 1 .. MaxNodes
    BY NodeTypes DEF IInv, Start, Ids, Roots, Leaves
  <1>2. /\ state[n] = "queued" /\ state' = [state EXCEPT ![n] = "running"]
        /\ starts' = [starts EXCEPT ![n] = @ + 1]
        /\ state \in [1 .. MaxNodes -> {"new", "queued", "running", "done"}]
        /\ starts \in [1 .. MaxNodes -> Nat]
    BY DEF IInv, Start, TypeOK
  <1>3. \A m \in 1 .. MaxNodes : /\ state'[m] = "done" <=> state[m] = "done"
                                 /\ state'[m] = "new" <=> state[m] = "new"
                                 /\ state'[m] \in {"running", "done"}
                                      <=> state[m] \in {"running", "done"} \/ m = n
    BY <1>2
  <1>4. TypeOK'
    <2>1. state' \in [1 .. MaxNodes -> {"new", "queued", "running", "done"}]
      BY <1>2
    <2>2. starts' \in [1 .. MaxNodes -> Nat]
      <3>1. starts[n] + 1 \in Nat
        BY <1>1, <1>2
      <3> QED
        BY <1>2, <3>1
    <2> QED
      BY <1>1, <2>1, <2>2 DEF IInv, TypeOK
  <1>5. LinkInv' /\ LeavesCover'
    BY <1>1 DEF IInv, LinkInv, LeavesCover
  <1>6. StepInv'
    <2>1. step \notin {"building", "rejected"}
      BY <1>1, <1>2 DEF IInv, StepInv
    <2> QED
      BY <1>1, <2>1 DEF IInv, StepInv
  <1>7. StateInv'
    <2> SUFFICES ASSUME NEW m \in 1 .. MaxNodes
                 PROVE  /\ state'[m] # "new" <=> /\ m \in Ids
                                                 /\ IF m \in Roots THEN m < toEnqueue
                                                    ELSE \A p \in nodes[m].incoming : state'[p] = "done"
                        /\ starts'[m] = IF state'[m] \in {"running", "done"} THEN 1 ELSE 0
      BY <1>1 DEF StateInv
    <2>1. starts'[m] = IF state'[m] \in {"running", "done"} THEN 1 ELSE 0
      <3>1. starts[m] = IF state[m] \in {"running", "done"} THEN 1 ELSE 0
        BY DEF IInv, StateInv
      <3> QED
        BY <1>2, <3>1
    <2>2. CASE m \in Ids
      <3>1. \A p \in nodes[m].incoming : state'[p] = "done" <=> state[p] = "done"
        BY <1>1, <1>3, <2>2, NodeTypes DEF IInv
      <3> QED
        BY <1>3, <2>1, <2>2, <3>1 DEF IInv, StateInv
    <2>3. CASE m \notin Ids
      BY <1>3, <2>1, <2>3 DEF IInv, StateInv
    <2> QED
      BY <2>2, <2>3
  <1>8. ArmedInv'
    <2>1. \A m \in Ids : state'[m] = "done" <=> state[m] = "done"
      BY <1>3, NodeTypes DEF IInv
    <2> QED
      BY <1>1, <2>1 DEF IInv, ArmedInv
  <1> QED
    BY <1>4, <1>5, <1>6, <1>7, <1>8 DEF IInv

LEMMA FinishStep ==
  ASSUME IInv, NEW n \in Ids, Finish(n)
  PROVE  IInv'
  <1>1. /\ nodes' = nodes /\ told' = told /\ step' = step /\ slot' = slot /\ starts' = starts
        /\ toEnqueue' = toEnqueue
        /\ Ids' = Ids /\ Roots' = Roots /\ Leaves' = Leaves
        /\ n \in 1 .. MaxNodes /\ Ids \subseteq 1 .. MaxNodes
    BY NodeTypes DEF IInv, Finish, Ids, Roots, Leaves
  <1>2. /\ state[n] = "running"
        /\ state \in [1 .. MaxNodes -> {"new", "queued", "running", "done"}]
        /\ state' = [m \in 1 .. MaxNodes |-> IF m = n THEN "done"
                                             ELSE IF m \in Released(n) THEN "queued" ELSE state[m]]
    BY DEF IInv, Finish, TypeOK
  <1>3. \A m \in Released(n) : /\ m \in Ids /\ m # n /\ state[m] = "new" /\ m \notin Roots
                               /\ n \in nodes[m].incoming
    <2> SUFFICES ASSUME NEW m \in Released(n)
                 PROVE  /\ m \in Ids /\ m # n /\ state[m] = "new" /\ m \notin Roots
                        /\ n \in nodes[m].incoming
      OBVIOUS
    <2>1. m \in Ids /\ n \in nodes[m].incoming /\ m \notin Roots
      BY DEF Released, Roots
    <2>2. state[m] = "new"
      BY <1>1, <1>2, <2>1 DEF IInv, StateInv
    <2> QED
      BY <1>2, <2>1, <2>2
  <1>4. \A m \in 1 .. MaxNodes :
          /\ state'[m] = "done" <=> state[m] = "done" \/ m = n
          /\ state'[m] # "new" <=> state[m] # "new" \/ m \in Released(n)
          /\ state'[m] \in {"running", "done"} <=> state[m] \in {"running", "done"}
    BY <1>2, <1>3
  <1>5. TypeOK'
    <2>1. state' \in [1 .. MaxNodes -> {"new", "queued", "running", "done"}]
      BY <1>2
    <2>2. armed' \in BOOLEAN
      BY DEF Finish
    <2> QED
      BY <1>1, <2>1, <2>2 DEF IInv, TypeOK
  <1>6. LinkInv' /\ LeavesCover'
    BY <1>1 DEF IInv, LinkInv, LeavesCover
  <1>7. step \notin {"building", "rejected"}
    BY <1>1, <1>2 DEF IInv, StepInv
  <1>8. StepInv'
    <2>1. ~armed => ~armed'
      BY DEF Finish
    <2> QED
      BY <1>1, <1>7, <2>1 DEF IInv, StepInv
  <1>9. StateInv'
    <2> SUFFICES ASSUME NEW m \in 1 .. MaxNodes
                 PROVE  /\ state'[m] # "new" <=> /\ m \in Ids
                                                 /\ IF m \in Roots THEN m < toEnqueue
                                                    ELSE \A p \in nodes[m].incoming : state'[p] = "done"
                        /\ starts'[m] = IF state'[m] \in {"running", "done"} THEN 1 ELSE 0
      BY <1>1 DEF StateInv
    <2>1. starts'[m] = IF state'[m] \in {"running", "done"} THEN 1 ELSE 0
      BY <1>1, <1>4 DEF IInv, StateInv
    <2>2. CASE m \notin Ids \/ m \in Roots
      BY <1>3, <1>4, <2>1, <2>2 DEF IInv, StateInv, Roots
    <2>3. CASE m \in Ids \ Roots
      <3>1. \A p \in nodes[m].incoming : state'[p] = "done" <=> state[p] = "done" \/ p = n
        BY <1>1, <1>4, <2>3, NodeTypes DEF IInv
      <3>2. state[m] # "new" <=> \A p \in nodes[m].incoming : state[p] = "done"
        BY <2>3 DEF IInv, StateInv
      <3>3. m \in Released(n) <=> /\ n \in nodes[m].incoming
                                  /\ \A p \in nodes[m].incoming \ {n} : state[p] = "done"
        BY <2>3 DEF Released
      <3> QED
        BY <1>2, <1>4, <2>1, <2>3, <3>1, <3>2, <3>3
    <2> QED
      BY <2>2, <2>3
  <1>10. ArmedInv'
    <2>1. \A m \in Ids : state'[m] = "done" <=> state[m] = "done" \/ m = n
      BY <1>1, <1>4
    <2>2. \A m \in Ids : state'[m] = "done" => \A p \in nodes[m].incoming : state'[p] = "done"
      BY <1>1, <1>2, <2>1, Respected, NodeTypes DEF IInv, DependenciesRespected
    <2>3. (\A l \in Leaves : state'[l] = "done") <=> \A m \in Ids : state'[m] = "done"
      BY <2>2, AllDone DEF IInv
    <2>4. (\A l \in Leaves : l = n \/ state[l] = "done") <=> \A l \in Leaves : state'[l] = "done"
      BY <2>1 DEF Leaves
    <2>5. armed <=> toEnqueue > 1
      BY <1>2 DEF IInv, ArmedInv
    <2>6. armed' <=> armed /\ ~\A l \in Leaves : l = n \/ state[l] = "done"
      BY DEF Finish
    <2> QED
      BY <1>1, <2>3, <2>4, <2>5, <2>6 DEF ArmedInv
  <1> QED
    BY <1>5, <1>6, <1>8, <1>9, <1>10 DEF IInv

-----------------------------------------------------------------------------
LEMMA InitIInv == Init => IInv
  <1> SUFFICES ASSUME Init PROVE IInv
    OBVIOUS
  <1>1. Ids = {} /\ Len(nodes) = 0 /\ nodes \in Seq(Node)
    BY DEF Init, Ids
  <1>2. TypeOK
    <2>1. Len(nodes) <= MaxNodes /\ toEnqueue \in 0 .. MaxNodes + 1
      BY <1>1, GraphAssumption DEF Init
    <2>2. \A n \in Ids : nodes[n].incoming \subseteq 1 .. n - 1
      BY <1>1
    <2>3. /\ state \in [1 .. MaxNodes -> {"new", "queued", "running", "done"}]
          /\ starts \in [1 .. MaxNodes -> Nat]
      BY DEF Init
    <2>4. /\ step \in {"building", "rejected", "launching", "returned"}
          /\ slot \in {"none", "pending", "launched", "free"}
          /\ armed \in BOOLEAN /\ told \in BOOLEAN
      BY DEF Init
    <2> QED
      BY <1>1, <2>1, <2>2, <2>3, <2>4 DEF TypeOK
  <1>3. LinkInv /\ LeavesCover /\ StepInv
    BY <1>1 DEF Init, LinkInv, LeavesCover, StepInv
  <1>4. StateInv /\ ArmedInv
    BY <1>1 DEF Init, StateInv, ArmedInv
  <1> QED
    BY <1>2, <1>3, <1>4 DEF IInv

LEMMA NextIInv == IInv /\ [Next]_vars => IInv'
  <1> SUFFICES ASSUME IInv, [Next]_vars PROVE IInv'
    OBVIOUS
  <1>1. CASE \E preds \in SUBSET Existing, threadExists \in BOOLEAN : AddNode(preds, threadExists)
    BY <1>1, AddStep
  <1>2. CASE Submission
    BY <1>2, SubmissionStep, EnqueueStep DEF Submission
  <1>3. CASE \E n \in Ids : Start(n) \/ Finish(n)
    BY <1>3, StartStep, FinishStep
  <1>4. CASE Reclaim \/ Report \/ UNCHANGED vars
    BY <1>4, PoolStep
  <1> QED
    BY <1>1, <1>2, <1>3, <1>4 DEF Next

\* The inductive invariant.
THEOREM Invariance == Spec => []IInv
  BY InitIInv, NextIInv, PTL DEF Spec

\* Type correctness.
THEOREM Typing == Spec => []TypeOK
  <1>1. IInv => TypeOK
    BY DEF IInv
  <1> QED
    BY <1>1, Invariance, PTL

(***************************************************************************)
(* No node starts before its predecessors are done, or twice.               *)
(***************************************************************************)
THEOREM DependencySafety == Spec => []DependenciesRespected
  BY Respected, Invariance, PTL

\* The terminator is complete only when there is nothing left to run, once
\* submitTo has returned.
LEMMA NothingLeft ==
  ASSUME IInv, step = "returned", ~armed
  PROVE  \A n \in Ids : state[n] = "done"
  <1>1. toEnqueue = Len(nodes) + 1 /\ Len(nodes) \in Nat
    BY NodeTypes DEF IInv, StepInv
  <1>2. CASE Ids = {}
    BY <1>2
  <1>3. CASE Ids # {}
    <2>1. toEnqueue > 1
      BY <1>1, <1>3 DEF Ids
    <2> QED
      BY <2>1 DEF IInv, ArmedInv
  <1> QED
    BY <1>2, <1>3

(***************************************************************************)
(* As long as a node may still run, the storage that holds it has an owner. *)
(***************************************************************************)
THEOREM StorageSafety == Spec => []StorageAlive
  <1>1. IInv => StorageAlive
    <2> SUFFICES ASSUME IInv PROVE StorageAlive
      OBVIOUS
    <2>1. CASE step \in {"building", "rejected"}
      BY <2>1, NodeTypes DEF IInv, StepInv, StorageAlive
    <2>2. CASE step = "launching"
      BY <2>2 DEF StorageAlive
    <2>3. CASE step = "returned"
      BY <2>3, NothingLeft DEF IInv, StepInv, StorageAlive
    <2> QED
      BY <2>1, <2>2, <2>3 DEF IInv, TypeOK
  <1> QED
    BY <1>1, Invariance, PTL

-----------------------------------------------------------------------------
(***************************************************************************)
(* The refinement.  A step of the graph is a step of its future or none:    *)
(* SubmitInsert submits it, the Finish of the last node (or the return of   *)
(* submitTo when there is no node) finishes it, Report tells.               *)
(***************************************************************************)
LEMMA PhaseSteps ==
  ASSUME IInv, IInv', Next
  PROVE  \/ Phase' = Phase
         \/ Phase = "unsubmitted" /\ Phase' = "submitted"
         \/ Phase = "submitted" /\ Phase' = "finished"
  <1>1. CASE \E preds \in SUBSET Existing, threadExists \in BOOLEAN : AddNode(preds, threadExists)
    BY <1>1 DEF AddNode, Phase
  <1>2. CASE SubmitRejected
    BY <1>2 DEF SubmitRejected, Phase
  <1>3. CASE SubmitInsert
    <2>1. Phase = "unsubmitted" /\ step' = "launching"
      BY <1>3 DEF SubmitInsert, Phase
    <2>2. nodes' = <<>> \/ \E n \in Ids' : state'[n] # "done"
      <3>1. \A n \in Ids : state[n] = "new"
        BY <1>3, NodeTypes DEF IInv, StepInv, SubmitInsert
      <3>2. nodes # <<>> => 1 \in Ids
        BY DEF IInv, TypeOK, Ids
      <3>3. nodes' = nodes /\ state' = state /\ Ids' = Ids
        BY <1>3 DEF SubmitInsert, Ids
      <3> QED
        BY <3>1, <3>2, <3>3
    <2>3. Phase' = "submitted"
      BY <2>1, <2>2 DEF Phase
    <2> QED
      BY <2>1, <2>3
  <1>4. CASE EnqueueNext
    <2>1. step = "launching" /\ step' = step /\ nodes' = nodes /\ Ids' = Ids /\ nodes # <<>>
      BY <1>4 DEF EnqueueNext, Ids
    <2>2. (\A n \in Ids : state[n] = "done") <=> (\A n \in Ids : state'[n] = "done")
      <3>1. toEnqueue \in Ids /\ toEnqueue \in 1 .. MaxNodes
        BY <1>4, NodeTypes DEF IInv, EnqueueNext
      <3>2. CASE toEnqueue \in Roots
        <4>1. state[toEnqueue] # "done"
          BY <3>1, <3>2, NodeTypes DEF IInv, StateInv, Ids
        <4>2. state'[toEnqueue] # "done"
          BY <1>4, <3>1, <3>2 DEF IInv, TypeOK, EnqueueNext
        <4> QED
          BY <3>1, <4>1, <4>2
      <3>3. CASE toEnqueue \notin Roots
        BY <1>4, <3>3 DEF EnqueueNext
      <3> QED
        BY <3>2, <3>3
    <2> QED
      BY <2>1, <2>2 DEF Phase
  <1>5. CASE SubmitReturn
    BY <1>5 DEF SubmitReturn, Phase, Ids
  <1>6. CASE \E n \in Ids : Start(n)
    <2> PICK n \in Ids : Start(n)
      BY <1>6
    <2>1. n \in 1 .. MaxNodes /\ state[n] # "done" /\ state'[n] # "done"
      BY NodeTypes DEF IInv, TypeOK, Start
    <2>2. step' = step /\ nodes' = nodes /\ Ids' = Ids
      BY DEF Start, Ids
    <2> QED
      BY <2>1, <2>2 DEF Phase
  <1>7. CASE \E n \in Ids : Finish(n)
    <2> PICK n \in Ids : Finish(n)
      BY <1>7
    <2>1. n \in 1 .. MaxNodes /\ state[n] # "done" /\ state[n] # "new"
      BY NodeTypes DEF IInv, Finish
    <2>2. step' = step /\ nodes' = nodes /\ Ids' = Ids
      BY DEF Finish, Ids
    <2>3. step \notin {"building", "rejected"}
      BY <2>1 DEF IInv, StepInv
    <2> QED
      BY <2>1, <2>2, <2>3 DEF Phase
  <1>8. CASE Reclaim \/ Report
    BY <1>8 DEF Reclaim, Report, Phase, Ids
  <1> QED
    BY <1>1, <1>2, <1>3, <1>4, <1>5, <1>6, <1>7, <1>8 DEF Next, Submission

LEMMA ToldSteps ==
  ASSUME IInv, Next
  PROVE  \/ told' = told
         \/ told' = TRUE /\ Phase = "finished" /\ Phase' = Phase
  <1>1. CASE Report
    <2>1. step = "returned" /\ ~armed /\ told' = TRUE
      BY <1>1 DEF IInv, StepInv, Report
    <2>2. Phase = "finished"
      BY <2>1, NothingLeft DEF Phase
    <2>3. Phase' = Phase
      BY <1>1 DEF Report, Phase, Ids
    <2> QED
      BY <2>1, <2>2, <2>3
  <1>2. CASE ~Report
    BY <1>2 DEF Next, Submission, AddNode, SubmitRejected, SubmitInsert, EnqueueNext, SubmitReturn,
                Start, Finish, Reclaim
  <1> QED
    BY <1>1, <1>2

LEMMA FutureInit == Init => GraphFuture!Init
  <1> SUFFICES ASSUME Init PROVE GraphFuture!Init
    OBVIOUS
  <1>1. Phase = "unsubmitted" /\ told = FALSE
    BY DEF Init, Phase
  <1> QED
    BY <1>1 DEF GraphFuture!Init

LEMMA FutureStep == IInv /\ IInv' /\ [Next]_vars => [GraphFuture!Next]_GraphFuture!vars
  <1> SUFFICES ASSUME IInv, IInv', [Next]_vars PROVE [GraphFuture!Next]_GraphFuture!vars
    OBVIOUS
  <1>1. CASE UNCHANGED vars
    BY <1>1 DEF vars, GraphFuture!vars, Phase, Ids
  <1>2. CASE Next
    <2>1. CASE Phase' = Phase /\ told' = told
      BY <2>1 DEF GraphFuture!vars
    <2>2. CASE Phase' # Phase
      <3>1. told' = told
        BY <1>2, <2>2, ToldSteps
      <3>2. CASE Phase = "unsubmitted" /\ Phase' = "submitted"
        BY <3>1, <3>2 DEF GraphFuture!Next, GraphFuture!Submit
      <3>3. CASE Phase = "submitted" /\ Phase' = "finished"
        BY <3>1, <3>3 DEF GraphFuture!Next, GraphFuture!Finish
      <3> QED
        BY <1>2, <2>2, <3>2, <3>3, PhaseSteps
    <2>3. CASE told' # told
      <3>1. told' = TRUE /\ Phase = "finished" /\ Phase' = Phase
        BY <1>2, <2>3, ToldSteps
      <3> QED
        BY <3>1 DEF GraphFuture!Next, GraphFuture!Tell
    <2> QED
      BY <2>1, <2>2, <2>3
  <1> QED
    BY <1>1, <1>2

(***************************************************************************)
(* Nodes, edges, the terminator and its slot implement one future: the      *)
(* graph's handle is submitted once, finished when every node is, and       *)
(* reported complete only after that.                                       *)
(***************************************************************************)
THEOREM ImplementsFuture == Spec => GraphFutureSpec
  BY Invariance, FutureInit, FutureStep, PTL DEF Spec, GraphFutureSpec, GraphFuture!Spec
=============================================================================
