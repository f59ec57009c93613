-------------------------- MODULE TaskSystemProofs --------------------------
(***************************************************************************)
(* Proof that IInv is an invariant of TaskSystem, whatever the tasks and    *)
(* the threads are, and what follows from it.  One lemma per action; in     *)
(* each, one step per conjunct of IInv.                                     *)
(***************************************************************************)
EXTENDS TaskSystem, FiniteSetTheorems, TLAPS

-----------------------------------------------------------------------------
(* The slots of TaskPool. *)

LEMMA SlotFields ==
  ASSUME NEW s \in Slot
  PROVE  /\ s.task \in Tasks \cup {NoTask}
         /\ s.generation \in Nat
         /\ s.launched \in BOOLEAN
BY DEF Slot

LEMMA SlotMade ==
  ASSUME NEW t \in Tasks \cup {NoTask}, NEW g \in Nat, NEW l \in BOOLEAN
  PROVE  [task |-> t, generation |-> g, launched |-> l] \in Slot
BY DEF Slot

LEMMA SlotLaunched ==
  ASSUME NEW s \in Slot
  PROVE  LET r == [s EXCEPT !.launched = TRUE]
         IN  /\ r \in Slot
             /\ r.task = s.task /\ r.generation = s.generation /\ r.launched = TRUE
<1> DEFINE r == [s EXCEPT !.launched = TRUE]
<1>1. /\ r.task = s.task /\ r.generation = s.generation /\ r.launched = TRUE
      /\ DOMAIN r = {"task", "generation", "launched"}
      /\ r = [x \in DOMAIN r |-> r[x]]
  BY DEF Slot
<1>2. r.task \in Tasks \cup {NoTask} /\ r.generation \in Nat /\ r.launched \in BOOLEAN
  BY <1>1, SlotFields
<1>3. r \in Slot
  <2> HIDE DEF r
  <2>1. QED BY <1>1, <1>2 DEF Slot
<1>4. QED BY <1>1, <1>3

LEMMA FindType ==
  ASSUME PoolTypeOK, NEW h
  PROVE  Find(h) \in Tasks \cup {NoTask}
<1>1. CASE h.index \in DOMAIN slots
  <2>1. slots[h.index] \in Slot
    BY <1>1 DEF PoolTypeOK
  <2>2. QED BY <2>1, SlotFields DEF Find
<1>2. CASE h.index \notin DOMAIN slots
  BY <1>2 DEF Find
<1>3. QED BY <1>1, <1>2

LEMMA ReclaimedType ==
  ASSUME slots \in Seq(Slot), NEW R
  PROVE  /\ Reclaimed(R) \in Seq(Slot)
         /\ Len(Reclaimed(R)) = Len(slots)
         /\ DOMAIN Reclaimed(R) = DOMAIN slots
<1>1. DOMAIN slots = 1 .. Len(slots) /\ Len(slots) \in Nat
  OBVIOUS
<1>2. ASSUME NEW i \in DOMAIN slots
      PROVE  [task |-> NoTask, generation |-> slots[i].generation + 1, launched |-> FALSE] \in Slot
  <2>1. slots[i].generation + 1 \in Nat
    BY SlotFields
  <2>2. QED BY <2>1, SlotMade
<1>3. Reclaimed(R) \in [1 .. Len(slots) -> Slot]
  BY <1>1, <1>2 DEF Reclaimed
<1>4. QED BY <1>1, <1>3

LEMMA MarkLaunchedEffect ==
  ASSUME slots \in Seq(Slot), NEW h, MarkLaunched(h)
  PROVE  /\ slots' \in Seq(Slot)
         /\ Len(slots') = Len(slots)
         /\ DOMAIN slots' = DOMAIN slots
         /\ \A i \in DOMAIN slots :
              /\ slots'[i].task = slots[i].task
              /\ slots'[i].generation = slots[i].generation
              /\ slots'[i].launched = IF i = h.index /\ slots[i].generation = h.generation
                                       THEN TRUE ELSE slots[i].launched
         /\ free' = free
<1>1. CASE h.index \in DOMAIN slots /\ slots[h.index].generation = h.generation
  <2> DEFINE k == h.index
  <2>1. slots' = [slots EXCEPT ![k] = [slots[k] EXCEPT !.launched = TRUE]]
    BY <1>1 DEF MarkLaunched
  <2>2. k \in DOMAIN slots /\ slots[k] \in Slot
    BY <1>1
  <2> DEFINE r == [slots[k] EXCEPT !.launched = TRUE]
  <2>3. /\ r \in Slot
        /\ r.task = slots[k].task /\ r.generation = slots[k].generation /\ r.launched = TRUE
    BY <2>2, SlotLaunched
  <2>4. slots' = [slots EXCEPT ![k] = r]
    BY <2>1
  <2>5. slots[k].generation = h.generation /\ k = h.index
    BY <1>1
  <2> HIDE DEF k, r
  <2>7. /\ slots' \in Seq(Slot) /\ Len(slots') = Len(slots) /\ DOMAIN slots' = DOMAIN slots
    BY <2>2, <2>3, <2>4
  <2>8. slots'[k] = r /\ \A i \in DOMAIN slots : i # k => slots'[i] = slots[i]
    BY <2>2, <2>4
  <2>9. QED BY <2>3, <2>5, <2>7, <2>8 DEF MarkLaunched
<1>2. CASE ~(h.index \in DOMAIN slots /\ slots[h.index].generation = h.generation)
  BY <1>2 DEF MarkLaunched
<1>3. QED BY <1>1, <1>2

LEMMA ReclaimEffect ==
  ASSUME slots \in Seq(Slot), NEW R \in SUBSET DOMAIN slots, ReclaimCompleted(R)
  PROVE  /\ slots' \in Seq(Slot)
         /\ Len(slots') = Len(slots)
         /\ DOMAIN slots' = DOMAIN slots
         /\ \A i \in R : /\ slots'[i].task = NoTask
                         /\ slots'[i].generation = slots[i].generation + 1
                         /\ slots'[i].launched = FALSE
         /\ \A i \in DOMAIN slots \ R : slots'[i] = slots[i]
         /\ free' = free \cup R
<1>1. slots' \in Seq(Slot) /\ Len(slots') = Len(slots) /\ DOMAIN slots' = DOMAIN slots
  BY ReclaimedType DEF ReclaimCompleted
<1>2. \A i \in R : /\ slots'[i].task = NoTask
                   /\ slots'[i].generation = slots[i].generation + 1
                   /\ slots'[i].launched = FALSE
  BY DEF ReclaimCompleted, Reclaimed
<1>3. \A i \in DOMAIN slots \ R : slots'[i] = slots[i]
  BY DEF ReclaimCompleted, Reclaimed
<1>4. QED BY <1>1, <1>2, <1>3 DEF ReclaimCompleted

\* What insert does to the table, whether it reuses a slot or adds one.
Inserted(t, index, R) ==
  /\ DOMAIN slots' = DOMAIN slots \cup {index}
  /\ index \in Nat \ {0}
  /\ index \in DOMAIN slots => index \in free \cup R
  /\ slots'[index].task = t
  /\ slots'[index].launched = FALSE
  /\ slots'[index].generation \in Nat
  /\ \A i \in DOMAIN slots :
       /\ i \in R => slots'[i].generation = slots[i].generation + 1
       /\ i \notin R => slots'[i].generation = slots[i].generation
       /\ i # index /\ i \in R => slots'[i].task = NoTask
       /\ i # index /\ i \notin R => /\ slots'[i].task = slots[i].task
                                     /\ slots'[i].launched = slots[i].launched
  /\ free' = (free \cup R) \ {index}

LEMMA InsertEffect ==
  ASSUME slots \in Seq(Slot), free \subseteq DOMAIN slots,
         NEW R \in SUBSET DOMAIN slots, NEW t \in Tasks, NEW index, Insert(t, index, R)
  PROVE  /\ slots' \in Seq(Slot)
         /\ \/ Len(slots') = Len(slots)
            \/ Len(slots') = Len(slots) + 1 /\ free \cup R = {}
         /\ Inserted(t, index, R)
<1>1. CASE Reuse(t, index, R)
  <2> DEFINE S == Reclaimed(R)
  <2>1. S \in Seq(Slot) /\ Len(S) = Len(slots) /\ DOMAIN S = DOMAIN slots
    BY ReclaimedType
  <2>2. /\ \A i \in R : S[i].task = NoTask /\ S[i].generation = slots[i].generation + 1
        /\ \A i \in DOMAIN slots \ R : S[i] = slots[i]
    BY DEF Reclaimed
  <2>3. index \in DOMAIN slots /\ index \in free \cup R /\ free' = (free \cup R) \ {index}
    BY <1>1 DEF Reuse
  <2> DEFINE s == [task |-> t, generation |-> S[index].generation, launched |-> FALSE]
  <2>4. slots' = [S EXCEPT ![index] = s]
    BY <1>1, <2>1, <2>3 DEF Reuse
  <2>5. s \in Slot /\ s.task = t /\ s.generation = S[index].generation /\ s.launched = FALSE
        /\ s.generation \in Nat
    <3>1. S[index] \in Slot
      BY <2>1, <2>3
    <3>2. S[index].generation \in Nat
      BY <3>1, SlotFields
    <3>3. QED BY <3>2, SlotMade
  <2> HIDE DEF S, s
  <2>6. slots' \in Seq(Slot) /\ Len(slots') = Len(slots) /\ DOMAIN slots' = DOMAIN slots
    BY <2>1, <2>3, <2>4, <2>5
  <2>7. slots'[index] = s /\ \A i \in DOMAIN slots : i # index => slots'[i] = S[i]
    BY <2>1, <2>3, <2>4
  <2>8. \A i \in DOMAIN slots :
          /\ i \in R => slots'[i].generation = slots[i].generation + 1
          /\ i \notin R => slots'[i].generation = slots[i].generation
          /\ i # index /\ i \in R => slots'[i].task = NoTask
          /\ i # index /\ i \notin R => /\ slots'[i].task = slots[i].task
                                        /\ slots'[i].launched = slots[i].launched
    BY <2>2, <2>3, <2>5, <2>7
  <2>9. slots'[index].task = t /\ slots'[index].launched = FALSE /\ slots'[index].generation \in Nat
    BY <2>5, <2>7
  <2>10. index \in Nat \ {0} /\ DOMAIN slots' = DOMAIN slots \cup {index}
    BY <2>3, <2>6
  <2>11. QED BY <2>3, <2>6, <2>8, <2>9, <2>10 DEF Inserted
<1>2. CASE free \cup R = {} /\ Grow(t, index)
  <2> DEFINE s == [task |-> t, generation |-> 0, launched |-> FALSE]
  <2>1. s \in Slot /\ s.task = t /\ s.generation = 0 /\ s.launched = FALSE
    BY SlotMade
  <2>2. index = Len(slots) + 1 /\ slots' = Append(slots, s) /\ free' = free
    BY <1>2 DEF Grow
  <2> HIDE DEF s
  <2>3. /\ slots' \in Seq(Slot) /\ Len(slots') = Len(slots) + 1 /\ slots'[index] = s
        /\ DOMAIN slots' = DOMAIN slots \cup {index} /\ index \notin DOMAIN slots
        /\ index \in Nat \ {0}
        /\ \A i \in DOMAIN slots : slots'[i] = slots[i]
    BY <2>1, <2>2
  <2>4. QED BY <1>2, <2>1, <2>2, <2>3 DEF Inserted
<1>3. QED BY <1>1, <1>2 DEF Insert

-----------------------------------------------------------------------------
(* The actions. *)

\* What a scan may give back belongs to finished tasks whose handles are out.
LEMMA ReclaimableFinished ==
  ASSUME IInv, NEW i \in Reclaimable(Complete)
  PROVE  /\ i \in DOMAIN slots /\ slots[i].task \in known
         /\ status[slots[i].task] = "done"
<1>1. i \in DOMAIN slots /\ slots[i].task \in Complete /\ slots[i].launched
  BY DEF Reclaimable
<1>2. slots[i].task \in known
  BY <1>1, TaskAssumption DEF IInv, SlotInv, Complete
<1>3. QED BY <1>1, <1>2 DEF IInv, KnownInv, Complete

\* Find returns the task a handle was issued for, as long as its slot lives.
LEMMA FindOwnTask ==
  ASSUME NEW t, InSlot(t)
  PROVE  Find(handleOf[t]) = t
BY DEF InSlot, Find

\* A handle whose slot has been given back finds nothing.
LEMMA FindStale ==
  ASSUME TypeOK, NEW t \in Tasks, alive, Stale(t)
  PROVE  Find(handleOf[t]) = NoTask /\ status[t] = "done"
<1>1. handleOf[t].index \in DOMAIN slots /\ slots[handleOf[t].index].generation > handleOf[t].generation
  BY DEF Stale
<1>2. handleOf[t].generation \in Nat
  BY DEF TypeOK, Handle, NoHandle
<1>3. slots[handleOf[t].index] \in Slot
  BY <1>1 DEF TypeOK, PoolTypeOK
<1>4. slots[handleOf[t].index].generation \in Nat
  BY <1>3, SlotFields
<1>5. slots[handleOf[t].index].generation # handleOf[t].generation
  BY <1>1, <1>2, <1>4
<1>6. QED BY <1>5 DEF Find, Stale

\* With no free slot and nothing to give back, every slot is occupied.
LEMMA OccupiedCount ==
  ASSUME IInv
  PROVE  /\ Cardinality(Occupied) \in Nat
         /\ free = {} /\ Reclaimable(Complete) = {} => Cardinality(Occupied) = Len(slots)
<1>1. Len(slots) \in Nat /\ DOMAIN slots = 1 .. Len(slots)
  BY DEF IInv, TypeOK, PoolTypeOK
<1>2. IsFiniteSet(1 .. Len(slots)) /\ Cardinality(1 .. Len(slots)) = Len(slots)
  <2>1. \A n \in Nat : IsFiniteSet(1 .. n) /\ Cardinality(1 .. n) = n
    BY FS_Interval
  <2>2. QED BY <1>1, <2>1
<1>3. Occupied \in SUBSET (1 .. Len(slots))
  BY <1>1 DEF Occupied
<1>4. Cardinality(Occupied) \in Nat
  BY <1>2, <1>3, FS_Subset, FS_CardinalityType
<1>5. free = {} /\ Reclaimable(Complete) = {} => Occupied = 1 .. Len(slots)
  BY <1>1 DEF IInv, FreeSlotsExact, Occupied
<1>6. QED BY <1>2, <1>4, <1>5

-----------------------------------------------------------------------------
LEMMA SubmitStep ==
  ASSUME IInv, NEW a \in Actors, NEW t \in Tasks, Submit(a, t)
  PROVE  IInv'
<1> USE TaskAssumption, ActorAssumption DEF IInv, TypeOK, PoolTypeOK, Handle, NoHandle, PcSet, Actors, Submit
<1>1. TypeOK'
  OBVIOUS
<1>2. LockInv'
  BY DEF LockInv
<1>3. SlotInv'
  BY DEF SlotInv
<1>4. FreeSlotsExact'
  BY DEF FreeSlotsExact
<1>5. KnownInv'
  BY DEF KnownInv, InSlot, Stale
<1>6. SubmitInv'
  BY DEF SubmitInv, InSlot, FreshInv
<1>7. FreshInv'
  BY DEF FreshInv
<1>8. WaitInv'
  BY DEF WaitInv
<1>9. OwnedInv'
  BY DEF OwnedInv, InSlot, InFlight
<1>10. StoppedInv'
  BY DEF StoppedInv, Quiet
<1>11. PeakInv'
  BY DEF PeakInv
<1>12. QED BY <1>1, <1>2, <1>3, <1>4, <1>5, <1>6, <1>7, <1>8, <1>9, <1>10, <1>11

LEMMA InsertLockStep ==
  ASSUME IInv, NEW a \in Actors, InsertLock(a)
  PROVE  IInv'
<1> USE TaskAssumption, ActorAssumption DEF IInv, TypeOK, PoolTypeOK, Handle, NoHandle, PcSet, Actors, MutexFree, InsertLock
<1>1. TypeOK'
  BY DEF Reclaimable, BiggerOf, Occupied, Complete, InFlight
<1>2. LockInv'
  BY DEF LockInv
<1>3. SlotInv'
  BY DEF SlotInv
<1>4. FreeSlotsExact'
  BY DEF FreeSlotsExact
<1>5. KnownInv'
  BY DEF KnownInv, InSlot, Stale
<1>6. SubmitInv'
  BY DEF SubmitInv, InSlot
<1>7. FreshInv'
  BY DEF FreshInv
<1>8. WaitInv'
  BY DEF WaitInv
<1>9. OwnedInv'
  BY DEF OwnedInv, InSlot, InFlight
<1>10. StoppedInv'
  BY DEF StoppedInv, Quiet
<1>11. PeakInv'
  <2>1. Cardinality(Occupied) \in Nat
    BY OccupiedCount
  <2>2. peak' \in Nat /\ peak' >= peak /\ peak' >= Cardinality(Occupied) + 1
    BY <2>1 DEF BiggerOf
  <2>3. Len(slots) <= peak'
    BY <2>2 DEF PeakInv
  <2>4. CASE free = {} /\ Reclaimable(Complete) = {}
    <3>1. Cardinality(Occupied) = Len(slots)
      BY <2>4, OccupiedCount
    <3>2. QED BY <2>2, <2>3, <3>1 DEF PeakInv
  <2>5. CASE ~(free = {} /\ Reclaimable(Complete) = {})
    <3>1. ASSUME NEW b \in Actors, pc'[b] = "scan"
          PROVE  b = a
      BY <3>1 DEF LockInv
    <3>2. ~(free = {} /\ seen' = {})
      BY <2>5
    <3>3. QED BY <2>3, <3>2 DEF PeakInv
  <2>6. QED BY <2>4, <2>5
<1>12. QED BY <1>1, <1>2, <1>3, <1>4, <1>5, <1>6, <1>7, <1>8, <1>9, <1>10, <1>11

LEMMA InsertSlotStep ==
  ASSUME IInv, NEW a \in Actors, NEW index \in 1 .. Len(slots) + 1, InsertSlot(a, index)
  PROVE  IInv'
<1>0. PICK u \in Tasks : u = cur[a] /\ pc[a] = "scan"
  BY DEF InsertSlot, IInv, SubmitInv
<1>1. /\ pc[a] = "scan" /\ lock = a /\ lock' = Nobody /\ seen' = {}
      /\ handleOf' = [handleOf EXCEPT ![u] = [index |-> index, generation |-> slots'[index].generation]]
      /\ pc' = [pc EXCEPT ![a] = "enqueue"]
      /\ UNCHANGED <<alive, status, cur, arg, known, parent, told, peak>>
  BY <1>0 DEF InsertSlot
<1>2. /\ u \in Tasks /\ u # NoTask /\ parent[u] = a /\ u \notin known /\ status[u] = "new"
      /\ \A i \in DOMAIN slots : slots[i].task # u
  BY <1>0, TaskAssumption DEF IInv, SubmitInv
<1>3. PICK R \in SUBSET Reclaimable(Complete) :
        seen \subseteq R /\ Insert(u, index, R)
  BY <1>0 DEF InsertSlot
<1>4. /\ slots \in Seq(Slot) /\ free \subseteq DOMAIN slots
      /\ pc \in [Actors -> PcSet] /\ handleOf \in [Tasks -> Handle \cup {NoHandle}]
      /\ peak \in Nat /\ lock \in Actors \cup {Nobody} /\ Nobody \notin Actors
      /\ known \subseteq Tasks /\ a \in Actors
  BY ActorAssumption DEF IInv, TypeOK, PoolTypeOK, Actors
<1>5. \A i \in R : /\ i \in DOMAIN slots /\ slots[i].task \in known
                   /\ status[slots[i].task] = "done"
  BY <1>3, ReclaimableFinished
<1>r. R \in SUBSET DOMAIN slots
  BY <1>5
<1>s. /\ slots' \in Seq(Slot)
      /\ \/ Len(slots') = Len(slots)
         \/ Len(slots') = Len(slots) + 1 /\ free \cup R = {}
      /\ Inserted(u, index, R)
  BY <1>2, <1>3, <1>4, <1>r, InsertEffect
<1>6. Inserted(u, index, R)!:
  BY <1>s DEF Inserted
\* Slots that were neither given back nor free are as they were.
<1>7. \A i \in DOMAIN slots : i \notin R /\ slots[i].task # NoTask =>
        i # index /\ slots'[i].task = slots[i].task /\ slots'[i].generation = slots[i].generation
                  /\ slots'[i].launched = slots[i].launched
  BY <1>6 DEF IInv, FreeSlotsExact
<1>8. ASSUME NEW t \in Tasks \ {u}, InSlot(t), handleOf[t].index \notin R
      PROVE  InSlot(t)'
  BY <1>1, <1>2, <1>4, <1>6, <1>7, <1>8, TaskAssumption DEF InSlot
<1>9. handleOf'[u] = [index |-> index, generation |-> slots'[index].generation]
  BY <1>1, <1>2, <1>4
<1>10. TypeOK'
  <2>1. [index |-> index, generation |-> slots'[index].generation] \in Handle
    BY <1>6 DEF Handle
  <2>2. handleOf' \in [Tasks -> Handle \cup {NoHandle}]
    BY <1>1, <1>4, <2>1
  <2>3. free' \subseteq 1 .. Len(slots')
    <3>1. free' \subseteq DOMAIN slots'
      BY <1>4, <1>5, <1>6
    <3>2. DOMAIN slots' = 1 .. Len(slots')
      BY <1>s
    <3>3. QED BY <3>1, <3>2
  <2>4. QED BY <1>1, <1>s, <2>2, <2>3 DEF IInv, TypeOK, PoolTypeOK, PcSet
<1>11. LockInv'
  BY <1>1, <1>4 DEF IInv, LockInv
<1>12. SlotInv'
  <2>1. SUFFICES ASSUME NEW i \in DOMAIN slots', slots'[i].task # NoTask
        PROVE  /\ handleOf'[slots'[i].task] = [index |-> i, generation |-> slots'[i].generation]
               /\ parent[slots'[i].task] \in Actors
               /\ slots'[i].launched => slots'[i].task \in known
               /\ ~slots'[i].launched => /\ pc'[parent[slots'[i].task]] \in {"enqueue", "mark"}
                                         /\ cur[parent[slots'[i].task]] = slots'[i].task
    BY <1>1 DEF SlotInv
  <2>2. CASE i = index
    BY <1>1, <1>2, <1>4, <1>6, <1>0, <1>9, <2>2
  <2>3. CASE i # index
    <3>1. i \in DOMAIN slots /\ i \notin R
      BY <1>6, <2>1, <2>3
    <3>2. /\ slots'[i].task = slots[i].task /\ slots'[i].generation = slots[i].generation
          /\ slots'[i].launched = slots[i].launched
      BY <1>6, <2>3, <3>1
    <3>3. slots[i].task # u
      BY <1>2, <3>1
    <3>4. handleOf'[slots[i].task] = handleOf[slots[i].task]
      BY <1>1, <1>4, <3>3
    <3>5. QED BY <1>1, <1>4, <2>1, <3>1, <3>2, <3>4 DEF IInv, SlotInv
  <2>4. QED BY <2>2, <2>3
<1>13. FreeSlotsExact'
  BY <1>2, <1>5, <1>6 DEF IInv, FreeSlotsExact
<1>14. KnownInv'
  <2>1. SUFFICES ASSUME NEW t \in known
        PROVE  status[t] # "new" /\ parent[t] \in Actors /\ (InSlot(t)' \/ Stale(t)')
    BY <1>1 DEF KnownInv
  <2>2. t \in Tasks \ {u} /\ handleOf'[t] = handleOf[t]
    BY <1>1, <1>2, <1>4
  <2>3. CASE InSlot(t) /\ handleOf[t].index \notin R
    BY <1>8, <2>2, <2>3 DEF IInv, KnownInv
  <2>4. CASE InSlot(t) /\ handleOf[t].index \in R
    <3>1. status[t] = "done"
      BY <1>5, <2>4 DEF InSlot
    <3>2. /\ handleOf[t].index \in DOMAIN slots
          /\ slots'[handleOf[t].index].generation = handleOf[t].generation + 1
      BY <1>6, <2>4 DEF InSlot
    <3>3. handleOf[t].generation \in Nat
      BY <1>4, <2>2 DEF Handle, NoHandle
    <3>4. Stale(t)'
      BY <1>1, <1>6, <2>2, <3>1, <3>2, <3>3 DEF Stale
    <3>5. QED BY <3>4 DEF IInv, KnownInv
  <2>5. CASE Stale(t)
    <3>1. ASSUME NEW i \in DOMAIN slots
          PROVE  slots[i].generation \in Nat
                 /\ slots'[i].generation \in {slots[i].generation, slots[i].generation + 1}
      <4>1. slots[i] \in Slot
        BY <1>4
      <4>2. QED BY <1>6, <4>1, SlotFields
    <3>2. handleOf[t].generation \in Nat
      BY <1>4, <2>2 DEF Handle, NoHandle
    <3>3. Stale(t)'
      BY <1>1, <1>6, <2>2, <2>5, <3>1, <3>2 DEF Stale
    <3>4. QED BY <3>3 DEF IInv, KnownInv
  <2>6. QED BY <2>3, <2>4, <2>5 DEF IInv, KnownInv
<1>15. SubmitInv'
  <2>1. InSlot(u)'
    BY <1>6, <1>9 DEF InSlot
  <2>2. ASSUME NEW b \in Actors, b # a
        PROVE  /\ pc'[b] = pc[b]
               /\ pc[b] \in {"insert", "scan", "enqueue", "mark", "fork"} => cur[b] \in Tasks \ {u}
    BY <1>1, <1>2, <1>4, <2>2 DEF IInv, SubmitInv
  <2>3. ASSUME NEW b \in Actors, b # a, pc[b] \in {"enqueue", "mark"},
               NEW t \in Tasks, t = cur[b]
        PROVE  InSlot(t)'
    <3>1. InSlot(t) /\ t \notin known
      BY <2>3 DEF IInv, SubmitInv
    <3>2. handleOf[t].index \notin R
      BY <1>5, <3>1 DEF InSlot
    <3>3. QED BY <1>8, <2>2, <2>3, <3>1, <3>2
  <2>4. ASSUME NEW b \in Actors, b # a, pc[b] \in {"insert", "scan", "fork"}, NEW i \in DOMAIN slots'
        PROVE  slots'[i].task # cur[b]
    BY <1>6, <2>2, <2>4, TaskAssumption DEF IInv, SubmitInv
  <2>5. ASSUME NEW b \in Actors, b # a
        PROVE  /\ pc'[b] \in {"insert", "scan", "enqueue", "mark", "fork"} =>
                    cur[b] \in Tasks /\ parent[cur[b]] = b /\ cur[b] \notin known
               /\ pc'[b] \in {"insert", "scan", "enqueue"} => status[cur[b]] = "new"
               /\ pc'[b] \in {"mark", "fork"} => status[cur[b]] # "new"
    BY <2>2, <2>5 DEF IInv, SubmitInv
  <2>6. pc'[a] = "enqueue" /\ cur[a] = u
    BY <1>0, <1>1, <1>4
  <2>7. \A b \in Actors : pc'[b] \in {"enqueue", "mark"} => InSlot(cur[b])'
    <3>1. SUFFICES ASSUME NEW b \in Actors, pc'[b] \in {"enqueue", "mark"}, NEW t, t = cur'[b]
          PROVE  InSlot(t)'
      BY DEF InSlot
    <3>2. QED BY <1>0, <1>1, <2>1, <2>2, <2>3, <3>1
  <2>8. QED BY <1>1, <1>2, <2>2, <2>4, <2>5, <2>6, <2>7 DEF SubmitInv
<1>16. FreshInv'
  <2>1. ASSUME NEW t \in Tasks, parent[t] = Nobody, NEW i \in DOMAIN slots'
        PROVE  slots'[i].task # t
    BY <1>2, <1>4, <1>6, <2>1, TaskAssumption DEF IInv, FreshInv
  <2>2. QED BY <1>1, <2>1 DEF IInv, FreshInv
<1>17. WaitInv'
  BY <1>1, <1>4 DEF IInv, WaitInv
<1>18. OwnedInv'
  <2>1. SUFFICES ASSUME NEW t \in InFlight
        PROVE  InSlot(t)' \/ (parent[t] \in Actors /\ pc'[parent[t]] = "fork" /\ cur[parent[t]] = t)
    BY <1>1 DEF OwnedInv, InFlight
  <2>2. CASE InSlot(t)
    <3>1. handleOf[t].index \notin R
      BY <1>5, <2>1, <2>2 DEF InSlot, InFlight
    <3>2. QED BY <1>2, <1>8, <2>1, <2>2, <3>1 DEF InFlight
  <2>3. CASE ~InSlot(t)
    BY <1>1, <1>4, <2>1, <2>3 DEF IInv, OwnedInv
  <2>4. QED BY <2>2, <2>3
<1>19. StoppedInv'
  BY <1>1 DEF IInv, StoppedInv, Quiet
<1>20. PeakInv'
  <2>1. \A b \in Actors : pc'[b] # "scan"
    BY <1>1, <1>4 DEF IInv, LockInv
  <2>2. free \cup R = {} => Len(slots) < peak
    BY <1>1, <1>3, <1>4 DEF IInv, PeakInv
  <2>3. Len(slots') <= peak
    <3>1. Len(slots) \in Nat /\ Len(slots) <= peak
      BY <1>4 DEF IInv, PeakInv
    <3>2. \/ Len(slots') = Len(slots)
          \/ Len(slots') = Len(slots) + 1 /\ free \cup R = {}
      BY <1>s
    <3>3. QED BY <1>4, <2>2, <3>1, <3>2
  <2>4. QED BY <1>1, <2>1, <2>3 DEF PeakInv
<1>21. QED BY <1>10, <1>11, <1>12, <1>13, <1>14, <1>15, <1>16, <1>17, <1>18, <1>19, <1>20 DEF IInv

LEMMA AddTaskSetToPipeStep ==
  ASSUME IInv, NEW a \in Actors, AddTaskSetToPipe(a)
  PROVE  IInv'
<1> USE TaskAssumption, ActorAssumption DEF IInv, TypeOK, PoolTypeOK, Handle, NoHandle, PcSet, Actors, AddTaskSetToPipe
<1>1. TypeOK'
  OBVIOUS
<1>2. LockInv'
  BY DEF LockInv
<1>3. SlotInv'
  BY DEF SlotInv
<1>4. FreeSlotsExact'
  BY DEF FreeSlotsExact
<1>5. KnownInv'
  BY DEF KnownInv, InSlot, Stale, SubmitInv
<1>6. SubmitInv'
  BY DEF SubmitInv, InSlot
<1>7. FreshInv'
  BY DEF FreshInv, SubmitInv
<1>8. WaitInv'
  BY DEF WaitInv, SubmitInv, KnownInv
<1>9. OwnedInv'
  BY DEF OwnedInv, InSlot, InFlight, SubmitInv
<1>10. StoppedInv'
  BY DEF StoppedInv, Quiet
<1>11. PeakInv'
  BY DEF PeakInv
<1>12. QED BY <1>1, <1>2, <1>3, <1>4, <1>5, <1>6, <1>7, <1>8, <1>9, <1>10, <1>11

LEMMA LaunchReturnStep ==
  ASSUME IInv, NEW a \in Actors, LaunchReturn(a)
  PROVE  IInv'
<1>0. PICK u \in Tasks : u = cur[a] /\ pc[a] = "mark"
  BY DEF LaunchReturn, IInv, SubmitInv
<1>1. /\ lock = Nobody
      /\ known' = known \cup {u}
      /\ pc' = [pc EXCEPT ![a] = "idle"]
      /\ cur' = [cur EXCEPT ![a] = NoTask]
      /\ UNCHANGED <<alive, lock, seen, status, arg, handleOf, parent, told, peak>>
  BY <1>0 DEF LaunchReturn, MutexFree
<1>2. /\ parent[u] = a /\ u \notin known /\ status[u] # "new" /\ InSlot(u)
  BY <1>0 DEF IInv, SubmitInv
<1> DEFINE k == handleOf[u].index
<1>3. k \in DOMAIN slots /\ slots[k].generation = handleOf[u].generation /\ slots[k].task = u
  BY <1>2 DEF InSlot
<1>4. /\ slots \in Seq(Slot)
      /\ pc \in [Actors -> PcSet] /\ cur \in [Actors -> Tasks \cup {NoTask}]
      /\ parent \in [Tasks -> Actors \cup {Nobody}]
  BY DEF IInv, TypeOK, PoolTypeOK
<1>5. /\ slots' \in Seq(Slot)
      /\ Len(slots') = Len(slots)
      /\ DOMAIN slots' = DOMAIN slots
      /\ \A i \in DOMAIN slots :
           /\ slots'[i].task = slots[i].task
           /\ slots'[i].generation = slots[i].generation
           /\ i # k => slots'[i].launched = slots[i].launched
      /\ slots'[k].launched = TRUE
      /\ free' = free
  <2>1. MarkLaunched(handleOf[u])
    BY <1>0 DEF LaunchReturn
  <2>2. QED BY <1>3, <1>4, <2>1, MarkLaunchedEffect
<1> HIDE DEF k
<1>6. TypeOK'
  BY <1>1, <1>4, <1>5 DEF IInv, TypeOK, PoolTypeOK, PcSet
<1>7. LockInv'
  BY <1>0, <1>1, <1>4 DEF IInv, LockInv
<1>8. SlotInv'
  <2>1. SUFFICES ASSUME NEW i \in DOMAIN slots, slots[i].task # NoTask
        PROVE  /\ handleOf[slots[i].task] = [index |-> i, generation |-> slots[i].generation]
               /\ parent[slots[i].task] \in Actors
               /\ slots'[i].launched => slots[i].task \in known'
               /\ ~slots'[i].launched => /\ pc'[parent[slots[i].task]] \in {"enqueue", "mark"}
                                         /\ cur'[parent[slots[i].task]] = slots[i].task
    BY <1>1, <1>5 DEF SlotInv
  <2>2. /\ handleOf[slots[i].task] = [index |-> i, generation |-> slots[i].generation]
        /\ parent[slots[i].task] \in Actors
    BY <2>1 DEF IInv, SlotInv
  <2>3. CASE i = k
    BY <1>1, <1>3, <1>5, <2>2, <2>3
  <2>4. CASE i # k
    <3>1. slots[i].task # u
      BY <2>2, <2>4 DEF k
    <3>2. ~slots[i].launched => parent[slots[i].task] # a
      BY <1>0, <2>1, <3>1 DEF IInv, SlotInv
    <3>3. QED BY <1>1, <1>4, <1>5, <2>1, <2>2, <2>4, <3>2 DEF IInv, SlotInv
  <2>5. QED BY <2>3, <2>4
<1>9. FreeSlotsExact'
  BY <1>5 DEF IInv, FreeSlotsExact
<1>10. \A t \in Tasks : (InSlot(t) => InSlot(t)') /\ (Stale(t) => Stale(t)')
  BY <1>1, <1>5 DEF InSlot, Stale
<1>11. KnownInv'
  BY <1>1, <1>2, <1>10 DEF IInv, TypeOK, KnownInv
<1>12. SubmitInv'
  <2>1. ASSUME NEW b \in Actors, b # a
        PROVE  /\ pc'[b] = pc[b] /\ cur'[b] = cur[b]
               /\ pc[b] \in {"insert", "scan", "enqueue", "mark", "fork"} => cur[b] # u
    BY <1>1, <1>2, <1>4, <2>1 DEF IInv, SubmitInv
  <2>2. QED BY <1>0, <1>1, <1>4, <1>5, <1>10, <2>1 DEF IInv, SubmitInv
<1>13. FreshInv'
  BY <1>1, <1>2, <1>5 DEF IInv, FreshInv
<1>14. WaitInv'
  BY <1>0, <1>1, <1>4 DEF IInv, WaitInv
<1>15. OwnedInv'
  BY <1>0, <1>1, <1>4, <1>10 DEF IInv, OwnedInv, InFlight
<1>16. StoppedInv'
  BY <1>0, <1>1, <1>4, <1>5 DEF IInv, StoppedInv, Quiet
<1>17. PeakInv'
  BY <1>0, <1>1, <1>4, <1>5 DEF IInv, PeakInv
<1>18. QED BY <1>6, <1>7, <1>8, <1>9, <1>11, <1>12, <1>13, <1>14, <1>15, <1>16, <1>17 DEF IInv

LEMMA WaitFindStep ==
  ASSUME IInv, NEW a \in Actors, NEW t \in Tasks, WaitFind(a, t)
  PROVE  IInv'
<1>a. TypeOK
  BY DEF IInv
<1> USE TaskAssumption, ActorAssumption DEF IInv, TypeOK, PoolTypeOK, Handle, NoHandle, PcSet, Actors, MutexFree, WaitFind
<1>1. TypeOK'
  <2>1. Find(handleOf[t]) \in Tasks \cup {NoTask}
    BY FindType
  <2>2. QED BY <2>1 DEF MayUse
<1>2. LockInv'
  BY DEF LockInv
<1>3. SlotInv'
  BY DEF SlotInv
<1>4. FreeSlotsExact'
  BY DEF FreeSlotsExact
<1>5. KnownInv'
  BY DEF KnownInv, InSlot, Stale
<1>6. SubmitInv'
  BY DEF SubmitInv, InSlot
<1>7. FreshInv'
  BY DEF FreshInv
<1>8. WaitInv'
  <2>1. t \in known /\ alive
    BY DEF MayUse
  <2>2. \/ Find(handleOf[t]) = t
        \/ Find(handleOf[t]) = NoTask /\ status[t] = "done"
    <3>1. CASE InSlot(t)
      BY <3>1, FindOwnTask
    <3>2. CASE Stale(t)
      <4>1. t \in Tasks
        BY <2>1
      <4> HIDE DEF IInv, TypeOK
      <4>2. QED BY <1>a, <2>1, <3>2, <4>1, FindStale
    <3>3. QED BY <2>1, <3>1, <3>2 DEF KnownInv
  <2>3. QED BY <2>1, <2>2 DEF WaitInv
<1>9. OwnedInv'
  BY DEF OwnedInv, InSlot, InFlight
<1>10. StoppedInv'
  BY DEF StoppedInv, Quiet
<1>11. PeakInv'
  BY DEF PeakInv
<1>12. QED BY <1>1, <1>2, <1>3, <1>4, <1>5, <1>6, <1>7, <1>8, <1>9, <1>10, <1>11

LEMMA WaitReturnStep ==
  ASSUME IInv, NEW a \in Actors, WaitReturn(a)
  PROVE  IInv'
<1> USE TaskAssumption, ActorAssumption DEF IInv, TypeOK, PoolTypeOK, Handle, NoHandle, PcSet, Actors, WaitReturn
<1>1. TypeOK'
  BY DEF WaitInv
<1>2. LockInv'
  BY DEF LockInv
<1>3. SlotInv'
  BY DEF SlotInv
<1>4. FreeSlotsExact'
  BY DEF FreeSlotsExact
<1>5. KnownInv'
  BY DEF KnownInv, InSlot, Stale
<1>6. SubmitInv'
  BY DEF SubmitInv, InSlot
<1>7. FreshInv'
  BY DEF FreshInv
<1>8. WaitInv'
  BY DEF WaitInv
<1>9. OwnedInv'
  BY DEF OwnedInv, InSlot, InFlight
<1>10. StoppedInv'
  BY DEF StoppedInv, Quiet
<1>11. PeakInv'
  BY DEF PeakInv
<1>12. QED BY <1>1, <1>2, <1>3, <1>4, <1>5, <1>6, <1>7, <1>8, <1>9, <1>10, <1>11

LEMMA QueryFindStep ==
  ASSUME IInv, NEW a \in Actors, NEW t \in Tasks, QueryFind(a, t)
  PROVE  IInv'
<1>a. TypeOK
  BY DEF IInv
<1> USE TaskAssumption, ActorAssumption DEF IInv, TypeOK, PoolTypeOK, Handle, NoHandle, PcSet, Actors, MutexFree, QueryFind
<1>1. TypeOK'
  <2>1. Find(handleOf[t]) \in Tasks \cup {NoTask}
    BY FindType
  <2>2. QED BY <2>1 DEF MayUse
<1>2. LockInv'
  BY DEF LockInv
<1>3. SlotInv'
  BY DEF SlotInv
<1>4. FreeSlotsExact'
  BY DEF FreeSlotsExact
<1>5. KnownInv'
  BY DEF KnownInv, InSlot, Stale
<1>6. SubmitInv'
  BY DEF SubmitInv, InSlot
<1>7. FreshInv'
  BY DEF FreshInv
<1>8. WaitInv'
  <2>1. t \in known /\ alive
    BY DEF MayUse
  <2>2. \/ Find(handleOf[t]) = t
        \/ Find(handleOf[t]) = NoTask /\ status[t] = "done"
    <3>1. CASE InSlot(t)
      BY <3>1, FindOwnTask
    <3>2. CASE Stale(t)
      <4>1. t \in Tasks
        BY <2>1
      <4> HIDE DEF IInv, TypeOK
      <4>2. QED BY <1>a, <2>1, <3>2, <4>1, FindStale
    <3>3. QED BY <2>1, <3>1, <3>2 DEF KnownInv
  <2>3. QED BY <2>1, <2>2 DEF WaitInv
<1>9. OwnedInv'
  BY DEF OwnedInv, InSlot, InFlight
<1>10. StoppedInv'
  BY DEF StoppedInv, Quiet
<1>11. PeakInv'
  BY DEF PeakInv
<1>12. QED BY <1>1, <1>2, <1>3, <1>4, <1>5, <1>6, <1>7, <1>8, <1>9, <1>10, <1>11

LEMMA QueryReturnStep ==
  ASSUME IInv, NEW a \in Actors, QueryReturn(a)
  PROVE  IInv'
<1> USE TaskAssumption, ActorAssumption DEF IInv, TypeOK, PoolTypeOK, Handle, NoHandle, PcSet, Actors, QueryReturn
<1>1. TypeOK'
  BY DEF WaitInv
<1>2. LockInv'
  BY DEF LockInv
<1>3. SlotInv'
  BY DEF SlotInv
<1>4. FreeSlotsExact'
  BY DEF FreeSlotsExact
<1>5. KnownInv'
  BY DEF KnownInv, InSlot, Stale
<1>6. SubmitInv'
  BY DEF SubmitInv, InSlot
<1>7. FreshInv'
  BY DEF FreshInv
<1>8. WaitInv'
  BY DEF WaitInv
<1>9. OwnedInv'
  BY DEF OwnedInv, InSlot, InFlight
<1>10. StoppedInv'
  BY DEF StoppedInv, Quiet
<1>11. PeakInv'
  BY DEF PeakInv
<1>12. QED BY <1>1, <1>2, <1>3, <1>4, <1>5, <1>6, <1>7, <1>8, <1>9, <1>10, <1>11

LEMMA ParallelForStep ==
  ASSUME IInv, NEW a \in Actors, NEW t \in Tasks, ParallelFor(a, t)
  PROVE  IInv'
<1> USE TaskAssumption, ActorAssumption DEF IInv, TypeOK, PoolTypeOK, Handle, NoHandle, PcSet, Actors, ParallelFor
<1>1. TypeOK'
  OBVIOUS
<1>2. LockInv'
  BY DEF LockInv
<1>3. SlotInv'
  BY DEF SlotInv
<1>4. FreeSlotsExact'
  BY DEF FreeSlotsExact
<1>5. KnownInv'
  BY DEF KnownInv, InSlot, Stale
<1>6. SubmitInv'
  BY DEF SubmitInv, InSlot, FreshInv
<1>7. FreshInv'
  BY DEF FreshInv
<1>8. WaitInv'
  BY DEF WaitInv
<1>9. OwnedInv'
  BY DEF OwnedInv, InSlot, InFlight
<1>10. StoppedInv'
  BY DEF StoppedInv, Quiet
<1>11. PeakInv'
  BY DEF PeakInv
<1>12. QED BY <1>1, <1>2, <1>3, <1>4, <1>5, <1>6, <1>7, <1>8, <1>9, <1>10, <1>11

LEMMA ForkReturnStep ==
  ASSUME IInv, NEW a \in Actors, ForkReturn(a)
  PROVE  IInv'
<1> USE TaskAssumption, ActorAssumption DEF IInv, TypeOK, PoolTypeOK, Handle, NoHandle, PcSet, Actors, ForkReturn
<1>1. TypeOK'
  OBVIOUS
<1>2. LockInv'
  BY DEF LockInv
<1>3. SlotInv'
  BY DEF SlotInv
<1>4. FreeSlotsExact'
  BY DEF FreeSlotsExact
<1>5. KnownInv'
  BY DEF KnownInv, InSlot, Stale
<1>6. SubmitInv'
  BY DEF SubmitInv, InSlot
<1>7. FreshInv'
  BY DEF FreshInv
<1>8. WaitInv'
  BY DEF WaitInv
<1>9. OwnedInv'
  BY DEF OwnedInv, InSlot, InFlight, SubmitInv, Complete
<1>10. StoppedInv'
  BY DEF StoppedInv, Quiet
<1>11. PeakInv'
  BY DEF PeakInv
<1>12. QED BY <1>1, <1>2, <1>3, <1>4, <1>5, <1>6, <1>7, <1>8, <1>9, <1>10, <1>11

LEMMA WaitForAllStep ==
  ASSUME IInv, NEW a \in Actors, WaitForAll(a)
  PROVE  IInv'
<1> USE TaskAssumption, ActorAssumption DEF IInv, TypeOK, PoolTypeOK, Handle, NoHandle, PcSet, Actors, WaitForAll
<1>1. TypeOK'
  OBVIOUS
<1>2. LockInv'
  BY DEF LockInv
<1>3. SlotInv'
  BY DEF SlotInv
<1>4. FreeSlotsExact'
  BY DEF FreeSlotsExact
<1>5. KnownInv'
  BY DEF KnownInv, InSlot, Stale
<1>6. SubmitInv'
  BY DEF SubmitInv, InSlot
<1>7. FreshInv'
  BY DEF FreshInv
<1>8. WaitInv'
  BY DEF WaitInv
<1>9. OwnedInv'
  BY DEF OwnedInv, InSlot, InFlight
<1>10. StoppedInv'
  BY DEF StoppedInv, Quiet
<1>11. PeakInv'
  BY DEF PeakInv
<1>12. QED BY <1>1, <1>2, <1>3, <1>4, <1>5, <1>6, <1>7, <1>8, <1>9, <1>10, <1>11

LEMMA DrainLockStep ==
  ASSUME IInv, NEW a \in Actors, DrainLock(a)
  PROVE  IInv'
<1> USE TaskAssumption, ActorAssumption DEF IInv, TypeOK, PoolTypeOK, Handle, NoHandle, PcSet, Actors, MutexFree, DrainLock
<1>1. TypeOK'
  BY DEF Reclaimable
<1>2. LockInv'
  BY DEF LockInv
<1>3. SlotInv'
  BY DEF SlotInv
<1>4. FreeSlotsExact'
  BY DEF FreeSlotsExact
<1>5. KnownInv'
  BY DEF KnownInv, InSlot, Stale
<1>6. SubmitInv'
  BY DEF SubmitInv, InSlot
<1>7. FreshInv'
  BY DEF FreshInv
<1>8. WaitInv'
  BY DEF WaitInv
<1>9. OwnedInv'
  BY DEF OwnedInv, InSlot, InFlight
<1>10. StoppedInv'
  BY DEF StoppedInv, Quiet
<1>11. PeakInv'
  BY DEF PeakInv, LockInv, Reclaimable
<1>12. QED BY <1>1, <1>2, <1>3, <1>4, <1>5, <1>6, <1>7, <1>8, <1>9, <1>10, <1>11

LEMMA DrainReclaimStep ==
  ASSUME IInv, NEW a \in Actors, DrainReclaim(a)
  PROVE  IInv'
<1>1. /\ pc[a] = "drain_scan" /\ lock = a /\ lock' = Nobody /\ seen' = {}
      /\ pc' = [pc EXCEPT ![a] = "idle"]
      /\ UNCHANGED <<alive, status, cur, arg, handleOf, known, parent, told, peak>>
  BY DEF DrainReclaim
<1>2. PICK R \in SUBSET Reclaimable(Complete) : ReclaimCompleted(R)
  BY DEF DrainReclaim
<1>3. \A i \in R : /\ i \in DOMAIN slots /\ slots[i].task \in known
                   /\ status[slots[i].task] = "done"
  BY <1>2, ReclaimableFinished
<1>4. /\ slots \in Seq(Slot) /\ free \subseteq DOMAIN slots
      /\ pc \in [Actors -> PcSet] /\ handleOf \in [Tasks -> Handle \cup {NoHandle}]
      /\ lock \in Actors \cup {Nobody} /\ Nobody \notin Actors /\ known \subseteq Tasks
  BY ActorAssumption DEF IInv, TypeOK, PoolTypeOK, Actors
<1>5. /\ slots' \in Seq(Slot)
      /\ Len(slots') = Len(slots)
      /\ DOMAIN slots' = DOMAIN slots
      /\ \A i \in R : /\ slots'[i].task = NoTask
                      /\ slots'[i].generation = slots[i].generation + 1
                      /\ slots'[i].launched = FALSE
      /\ \A i \in DOMAIN slots \ R : slots'[i] = slots[i]
      /\ free' = free \cup R
  <2>1. R \in SUBSET DOMAIN slots
    BY <1>3
  <2>2. QED BY <1>2, <1>4, <2>1, ReclaimEffect
<1>6. ASSUME NEW t \in Tasks, InSlot(t), handleOf[t].index \notin R
      PROVE  InSlot(t)'
  BY <1>1, <1>5, <1>6 DEF InSlot
<1>7. TypeOK'
  <2>1. free' \subseteq 1 .. Len(slots')
    BY <1>3, <1>4, <1>5
  <2>2. seen' \subseteq DOMAIN slots' /\ lock' \in Actors \cup {Nobody}
    BY <1>1
  <2>3. pc' \in [Actors -> PcSet]
    BY <1>1, <1>4 DEF PcSet
  <2>4. QED BY <1>1, <1>5, <2>1, <2>2, <2>3 DEF IInv, TypeOK, PoolTypeOK
<1>8. LockInv'
  BY <1>1, <1>4 DEF IInv, LockInv
<1>9. SlotInv'
  <2>1. SUFFICES ASSUME NEW i \in DOMAIN slots, slots'[i].task # NoTask
        PROVE  /\ handleOf[slots'[i].task] = [index |-> i, generation |-> slots'[i].generation]
               /\ parent[slots'[i].task] \in Actors
               /\ slots'[i].launched => slots'[i].task \in known
               /\ ~slots'[i].launched => /\ pc'[parent[slots'[i].task]] \in {"enqueue", "mark"}
                                         /\ cur[parent[slots'[i].task]] = slots'[i].task
    BY <1>1, <1>5 DEF SlotInv
  <2>2. slots'[i] = slots[i]
    BY <1>5, <2>1
  <2>3. QED BY <1>1, <1>4, <2>1, <2>2 DEF IInv, SlotInv
<1>10. FreeSlotsExact'
  BY <1>3, <1>5 DEF IInv, FreeSlotsExact
<1>11. KnownInv'
  <2>1. SUFFICES ASSUME NEW t \in known
        PROVE  status[t] # "new" /\ parent[t] \in Actors /\ (InSlot(t)' \/ Stale(t)')
    BY <1>1 DEF KnownInv
  <2>2. handleOf[t].generation \in Nat
    BY <1>4, <2>1 DEF Handle, NoHandle
  <2>3. CASE InSlot(t) /\ handleOf[t].index \notin R
    BY <1>4, <1>6, <2>3 DEF IInv, KnownInv
  <2>4. CASE InSlot(t) /\ handleOf[t].index \in R
    <3>1. Stale(t)'
      BY <1>1, <1>3, <1>5, <2>2, <2>4 DEF InSlot, Stale
    <3>2. QED BY <3>1 DEF IInv, KnownInv
  <2>5. CASE Stale(t)
    <3>1. ASSUME NEW i \in DOMAIN slots
          PROVE  /\ slots[i].generation \in Nat
                 /\ slots'[i].generation \in {slots[i].generation, slots[i].generation + 1}
      <4>1. slots[i] \in Slot
        BY <1>4
      <4>2. QED BY <1>5, <4>1, SlotFields
    <3>2. ASSUME alive
          PROVE  /\ handleOf[t].index \in DOMAIN slots'
                 /\ slots'[handleOf[t].index].generation > handleOf[t].generation
      <4>1. /\ handleOf[t].index \in DOMAIN slots
            /\ slots[handleOf[t].index].generation > handleOf[t].generation
        BY <2>5, <3>2 DEF Stale
      <4>2. QED BY <1>5, <2>2, <3>1, <4>1
    <3>3. Stale(t)'
      BY <1>1, <2>5, <3>2 DEF Stale
    <3>4. QED BY <3>3 DEF IInv, KnownInv
  <2>6. QED BY <2>3, <2>4, <2>5 DEF IInv, KnownInv
<1>12. SubmitInv'
  <2>1. ASSUME NEW b \in Actors, pc'[b] \in {"insert", "scan", "enqueue", "mark", "fork"}
        PROVE  b # a /\ pc'[b] = pc[b]
    BY <1>1, <1>4, <2>1
  <2>2. ASSUME NEW b \in Actors, pc'[b] \in {"enqueue", "mark"}, NEW t, t = cur[b]
        PROVE  InSlot(t)'
    <3>1. InSlot(t) /\ t \notin known /\ t \in Tasks
      BY <2>1, <2>2 DEF IInv, SubmitInv
    <3>2. handleOf[t].index \notin R
      BY <1>3, <3>1 DEF InSlot
    <3>3. QED BY <1>6, <3>1, <3>2
  <2>3. \A b \in Actors : pc'[b] \in {"enqueue", "mark"} => InSlot(cur[b])'
    BY <1>1, <2>2 DEF InSlot
  <2>4. ASSUME NEW b \in Actors, pc'[b] \in {"insert", "scan", "fork"}, NEW i \in DOMAIN slots
        PROVE  slots'[i].task # cur[b]
    BY <1>5, <2>1, <2>4, TaskAssumption DEF IInv, SubmitInv
  <2>5. QED BY <1>1, <1>5, <2>1, <2>3, <2>4 DEF IInv, SubmitInv
<1>13. FreshInv'
  BY <1>1, <1>5, TaskAssumption DEF IInv, FreshInv
<1>14. WaitInv'
  BY <1>1, <1>4 DEF IInv, WaitInv
<1>15. OwnedInv'
  <2>1. SUFFICES ASSUME NEW t \in InFlight
        PROVE  InSlot(t)' \/ (parent[t] \in Actors /\ pc'[parent[t]] = "fork" /\ cur[parent[t]] = t)
    BY <1>1 DEF OwnedInv, InFlight
  <2>2. CASE InSlot(t)
    <3>1. handleOf[t].index \notin R
      BY <1>3, <2>1, <2>2 DEF InSlot, InFlight
    <3>2. QED BY <1>6, <2>1, <2>2, <3>1 DEF InFlight
  <2>3. CASE ~InSlot(t)
    BY <1>1, <1>4, <2>1, <2>3 DEF IInv, OwnedInv
  <2>4. QED BY <2>2, <2>3
<1>16. StoppedInv'
  BY <1>1 DEF IInv, StoppedInv, Quiet
<1>17. PeakInv'
  <2>1. \A b \in Actors : pc'[b] # "scan"
    BY <1>1, <1>4 DEF IInv, LockInv
  <2>2. QED BY <1>1, <1>5, <2>1 DEF IInv, PeakInv
<1>18. QED BY <1>7, <1>8, <1>9, <1>10, <1>11, <1>12, <1>13, <1>14, <1>15, <1>16, <1>17 DEF IInv

LEMMA StartStep ==
  ASSUME IInv, NEW t \in Tasks, Start(t)
  PROVE  IInv'
<1> USE TaskAssumption, ActorAssumption DEF IInv, TypeOK, PoolTypeOK, Handle, NoHandle, PcSet, Actors, Start
<1>1. TypeOK'
  OBVIOUS
<1>2. LockInv'
  BY DEF LockInv
<1>3. SlotInv'
  BY DEF SlotInv
<1>4. FreeSlotsExact'
  BY DEF FreeSlotsExact
<1>5. KnownInv'
  BY DEF KnownInv, InSlot, Stale
<1>6. SubmitInv'
  BY DEF SubmitInv, InSlot
<1>7. FreshInv'
  BY DEF FreshInv
<1>8. WaitInv'
  BY DEF WaitInv
<1>9. OwnedInv'
  BY DEF OwnedInv, InSlot, InFlight
<1>10. StoppedInv'
  BY DEF StoppedInv, Quiet
<1>11. PeakInv'
  BY DEF PeakInv
<1>12. QED BY <1>1, <1>2, <1>3, <1>4, <1>5, <1>6, <1>7, <1>8, <1>9, <1>10, <1>11

LEMMA FinishStep ==
  ASSUME IInv, NEW t \in Tasks, Finish(t)
  PROVE  IInv'
<1> USE TaskAssumption, ActorAssumption DEF IInv, TypeOK, PoolTypeOK, Handle, NoHandle, PcSet, Actors, Finish
<1>1. TypeOK'
  OBVIOUS
<1>2. LockInv'
  BY DEF LockInv
<1>3. SlotInv'
  BY DEF SlotInv
<1>4. FreeSlotsExact'
  BY DEF FreeSlotsExact
<1>5. KnownInv'
  BY DEF KnownInv, InSlot, Stale
<1>6. SubmitInv'
  BY DEF SubmitInv, InSlot
<1>7. FreshInv'
  BY DEF FreshInv
<1>8. WaitInv'
  BY DEF WaitInv
<1>9. OwnedInv'
  BY DEF OwnedInv, InSlot, InFlight
<1>10. StoppedInv'
  BY DEF StoppedInv, Quiet
<1>11. PeakInv'
  BY DEF PeakInv
<1>12. QED BY <1>1, <1>2, <1>3, <1>4, <1>5, <1>6, <1>7, <1>8, <1>9, <1>10, <1>11

LEMMA ShutdownStep ==
  ASSUME IInv, Shutdown
  PROVE  IInv'
<1> USE TaskAssumption, ActorAssumption DEF IInv, TypeOK, PoolTypeOK, Handle, NoHandle, PcSet, Actors, Shutdown
<1>1. TypeOK'
  <2>1. lock = Nobody
    BY DEF LockInv, Quiet
  <2>2. seen = {} /\ <<>> \in Seq(Slot)
    BY <2>1 DEF LockInv
  <2>3. QED BY <2>2
<1>2. LockInv'
  BY DEF LockInv
<1>3. SlotInv'
  BY DEF SlotInv
<1>4. FreeSlotsExact'
  BY DEF FreeSlotsExact
<1>5. KnownInv'
  BY DEF KnownInv, InSlot, Stale, Complete, InFlight
<1>6. SubmitInv'
  BY DEF SubmitInv, InSlot, Complete, InFlight, Quiet, Active
<1>7. FreshInv'
  BY DEF FreshInv
<1>8. WaitInv'
  BY DEF WaitInv
<1>9. OwnedInv'
  BY DEF OwnedInv, InSlot, InFlight
<1>10. StoppedInv'
  BY DEF StoppedInv, Quiet
<1>11. PeakInv'
  BY DEF PeakInv
<1>12. QED BY <1>1, <1>2, <1>3, <1>4, <1>5, <1>6, <1>7, <1>8, <1>9, <1>10, <1>11

-----------------------------------------------------------------------------
LEMMA InitIInv == Init => IInv
<1> SUFFICES ASSUME Init PROVE IInv
  OBVIOUS
<1>1. slots = <<>> /\ slots \in Seq(Slot) /\ DOMAIN slots = {} /\ Len(slots) = 0
  BY DEF Init, PoolInit
<1>2. TypeOK
  BY <1>1 DEF Init, PoolInit, TypeOK, PoolTypeOK, PcSet
<1>3. LockInv /\ SlotInv /\ FreeSlotsExact /\ KnownInv
  BY <1>1, ActorAssumption DEF Init, PoolInit, LockInv, SlotInv, FreeSlotsExact, KnownInv, Actors
<1>4. SubmitInv /\ FreshInv /\ WaitInv /\ OwnedInv
  BY <1>1 DEF Init, PoolInit, SubmitInv, FreshInv, WaitInv, OwnedInv, InFlight
<1>5. StoppedInv /\ PeakInv
  BY <1>1 DEF Init, PoolInit, StoppedInv, PeakInv
<1>6. QED BY <1>2, <1>3, <1>4, <1>5 DEF IInv

LEMMA StutterIInv == IInv /\ UNCHANGED vars => IInv'
<1> SUFFICES ASSUME IInv, UNCHANGED vars PROVE IInv'
  OBVIOUS
<1>1. UNCHANGED <<slots, free, alive, lock, seen, status, pc, cur, arg,
                  handleOf, known, parent, told, peak>>
  BY DEF vars
<1>2. TypeOK' /\ LockInv' /\ SlotInv' /\ FreeSlotsExact'
  BY <1>1 DEF IInv, TypeOK, PoolTypeOK, LockInv, SlotInv, FreeSlotsExact
<1>3. KnownInv' /\ SubmitInv' /\ FreshInv' /\ WaitInv'
  BY <1>1 DEF IInv, KnownInv, SubmitInv, FreshInv, WaitInv, InSlot, Stale
<1>4. OwnedInv' /\ StoppedInv' /\ PeakInv'
  BY <1>1 DEF IInv, OwnedInv, StoppedInv, PeakInv, InFlight, InSlot, Quiet
<1>5. QED BY <1>2, <1>3, <1>4 DEF IInv

LEMMA NextIInv == IInv /\ [Next]_vars => IInv'
<1> SUFFICES ASSUME IInv, Next PROVE IInv'
  BY StutterIInv
<1>1. ASSUME NEW a \in Actors, Call(a)
      PROVE  IInv'
  BY <1>1, SubmitStep, ParallelForStep, WaitFindStep, QueryFindStep, WaitForAllStep DEF Call
<1>2. ASSUME NEW a \in Actors, Continue(a)
      PROVE  IInv'
  BY <1>2, InsertLockStep, InsertSlotStep, AddTaskSetToPipeStep, LaunchReturnStep,
     WaitReturnStep, QueryReturnStep, ForkReturnStep, DrainLockStep, DrainReclaimStep DEF Continue
<1>3. ASSUME NEW t \in Tasks, Start(t) \/ Finish(t)
      PROVE  IInv'
  BY <1>3, StartStep, FinishStep
<1>4. CASE Shutdown
  BY <1>4, ShutdownStep
<1>5. QED BY <1>1, <1>2, <1>3, <1>4 DEF Next

\* IInv holds in every reachable state of one task system's life.
THEOREM Invariance == Spec => []IInv
BY InitIInv, NextIInv, PTL DEF Spec

-----------------------------------------------------------------------------
(***************************************************************************)
(* Every reachable state is typed: among others, a free index is always an  *)
(* index of the table and a scan only remembers slots that exist.           *)
(***************************************************************************)
THEOREM Typing == Spec => []TypeOK
<1>1. IInv => TypeOK
  BY DEF IInv
<1>2. QED BY <1>1, Invariance, PTL

(***************************************************************************)
(* TaskPool::find never returns another task's object for a handle, and     *)
(* finds nothing only when the task is finished.                            *)
(***************************************************************************)
THEOREM HandleSafety == Spec => []HandlesSafe
<1>1. IInv => HandlesSafe
  <2>1. SUFFICES ASSUME IInv, NEW t \in known
        PROVE  /\ Find(handleOf[t]) \in {t, NoTask}
               /\ Find(handleOf[t]) = NoTask => status[t] = "done"
    BY DEF HandlesSafe
  <2>2. t \in Tasks /\ TypeOK
    BY <2>1 DEF IInv, TypeOK
  <2>3. CASE InSlot(t)
    BY <2>2, <2>3, FindOwnTask, TaskAssumption
  <2>4. CASE Stale(t) /\ alive
    BY <2>2, <2>4, FindStale
  <2>5. CASE Stale(t) /\ ~alive
    <3>1. DOMAIN slots = {}
      BY <2>1, <2>5 DEF IInv, StoppedInv
    <3>2. QED BY <2>5, <3>1 DEF Find, Stale
  <2>6. QED BY <2>1, <2>3, <2>4, <2>5 DEF IInv, KnownInv
<1>2. QED BY <1>1, Invariance, PTL

(***************************************************************************)
(* The raw pointer the scheduler holds while a task is queued or running    *)
(* points to an object that a slot or a waiting parallelFor still owns.     *)
(***************************************************************************)
THEOREM OwnerSafety == Spec => []SchedulerObjectsAlive
<1>1. IInv => SchedulerObjectsAlive
  BY DEF IInv, OwnedInv, SchedulerObjectsAlive, Owned, InSlot
<1>2. QED BY <1>1, Invariance, PTL

(***************************************************************************)
(* The slot table never outgrows the largest number of slots that pending   *)
(* and unfinished tasks needed at one time.                                 *)
(***************************************************************************)
THEOREM TableBound == Spec => []SlotTableBounded
<1>1. IInv => SlotTableBounded
  BY DEF IInv, PeakInv, SlotTableBounded
<1>2. QED BY <1>1, Invariance, PTL

(***************************************************************************)
(* Between init and shutdown a wait never blocks on a task other than the   *)
(* one its handle was issued for.                                           *)
(***************************************************************************)
THEOREM OwnWait == Spec => []WaitsForOwnTask
<1>1. IInv => WaitsForOwnTask
  BY DEF IInv, WaitInv, WaitsForOwnTask
<1>2. QED BY <1>1, Invariance, PTL

-----------------------------------------------------------------------------
\* Only a finished task is reported.
LEMMA ToldFinished ==
  ASSUME IInv, NEW a \in Actors, pc[a] \in {"wait", "query"}, cur[a] \in Complete \cup {NoTask}
  PROVE  arg[a] \in Tasks /\ status[arg[a]] = "done"
<1>1. /\ arg[a] \in known /\ cur[a] \in {arg[a], NoTask}
      /\ cur[a] = NoTask => status[arg[a]] = "done"
  BY DEF IInv, WaitInv
<1>2. arg[a] \in Tasks /\ status[arg[a]] # "new"
  BY <1>1 DEF IInv, TypeOK, KnownInv
<1>3. QED BY <1>1, <1>2 DEF Complete

LEMMA TellStep ==
  ASSUME NEW t \in Tasks, status[t] = "done", status' = status, told' = told \cup {t}
  PROVE  Futures!Next
<1>1. Phase[t] = "finished" /\ Phase' = Phase
  BY DEF Phase
<1>2. QED BY <1>1 DEF Futures!Next, Futures!Tell

LEMMA PhaseKept ==
  ASSUME status' = status, told' = told
  PROVE  UNCHANGED Futures!vars
BY DEF Futures!vars, Phase

LEMMA EnqueueStep ==
  ASSUME status \in [Tasks -> {"new", "queued", "running", "done"}], NEW t \in Tasks,
         status[t] = "new", status' = [status EXCEPT ![t] = "queued"], told' = told
  PROVE  Futures!Next
<1>1. Phase[t] = "unsubmitted" /\ Phase' = [Phase EXCEPT ![t] = "submitted"]
  BY DEF Phase
<1>2. QED BY <1>1 DEF Futures!Next, Futures!Submit

LEMMA FuturesInit == Init => Futures!Init
BY DEF Init, Futures!Init, Phase

LEMMA FuturesStep == IInv /\ [Next]_vars => [Futures!Next]_Futures!vars
<1> SUFFICES ASSUME IInv, Next PROVE [Futures!Next]_Futures!vars
  BY PhaseKept DEF vars
<1>1. status \in [Tasks -> {"new", "queued", "running", "done"}]
  BY DEF IInv, TypeOK
<1>2. ASSUME NEW a \in Actors, Call(a)
      PROVE  [Futures!Next]_Futures!vars
  <2>1. ASSUME NEW t \in Tasks, ParallelFor(a, t)
        PROVE  Futures!Next
    BY <1>1, <2>1, EnqueueStep DEF ParallelFor
  <2>2. ASSUME NEW t \in Tasks, Submit(a, t) \/ WaitFind(a, t) \/ QueryFind(a, t)
        PROVE  UNCHANGED Futures!vars
    BY <2>2, PhaseKept DEF Submit, WaitFind, QueryFind
  <2>3. CASE WaitForAll(a)
    BY <2>3, PhaseKept DEF WaitForAll
  <2>4. QED BY <1>2, <2>1, <2>2, <2>3 DEF Call
<1>3. ASSUME NEW a \in Actors, Continue(a)
      PROVE  [Futures!Next]_Futures!vars
  <2>1. CASE AddTaskSetToPipe(a)
    <3>1. cur[a] \in Tasks /\ status[cur[a]] = "new"
      BY <2>1 DEF AddTaskSetToPipe, IInv, SubmitInv
    <3>2. QED BY <1>1, <2>1, <3>1, EnqueueStep DEF AddTaskSetToPipe
  <2>2. CASE WaitReturn(a)
    <3>1. arg[a] \in Tasks /\ status[arg[a]] = "done"
      BY <2>2, ToldFinished DEF WaitReturn
    <3>2. QED BY <2>2, <3>1, TellStep DEF WaitReturn
  <2>3. CASE QueryReturn(a)
    <3>1. CASE cur[a] \in Complete \cup {NoTask}
      <4>1. arg[a] \in Tasks /\ status[arg[a]] = "done"
        BY <2>3, <3>1, ToldFinished DEF QueryReturn
      <4>2. QED BY <2>3, <3>1, <4>1, TellStep DEF QueryReturn
    <3>2. CASE cur[a] \notin Complete \cup {NoTask}
      BY <2>3, <3>2, PhaseKept DEF QueryReturn
    <3>3. QED BY <3>1, <3>2
  <2>4. CASE \/ InsertLock(a)
             \/ \E index \in 1 .. Len(slots) + 1 : InsertSlot(a, index)
             \/ LaunchReturn(a)
             \/ ForkReturn(a)
             \/ DrainLock(a)
             \/ DrainReclaim(a)
    BY <2>4, PhaseKept DEF InsertLock, InsertSlot, LaunchReturn, ForkReturn, DrainLock, DrainReclaim
  <2>5. QED BY <1>3, <2>1, <2>2, <2>3, <2>4 DEF Continue
<1>4. ASSUME NEW t \in Tasks, Start(t)
      PROVE  UNCHANGED Futures!vars
  <2>1. Phase' = Phase
    BY <1>1, <1>4 DEF Start, Phase
  <2>2. QED BY <1>4, <2>1 DEF Start, Futures!vars
<1>5. ASSUME NEW t \in Tasks, Finish(t)
      PROVE  Futures!Next
  <2>1. Phase[t] = "submitted" /\ Phase' = [Phase EXCEPT ![t] = "finished"]
    BY <1>1, <1>5 DEF Finish, Phase
  <2>2. QED BY <1>5, <2>1 DEF Finish, Futures!Next, Futures!Finish
<1>6. CASE Shutdown
  BY <1>6, PhaseKept DEF Shutdown
<1>7. QED BY <1>2, <1>3, <1>4, <1>5, <1>6 DEF Next

(***************************************************************************)
(* Slots, generations, reclaiming and reuse implement plain futures: a task *)
(* is submitted once and finishes once, and neither wait nor isComplete     *)
(* says that it is finished before it is.                                   *)
(***************************************************************************)
THEOREM ImplementsFutures == Spec => FuturesSpec
BY Invariance, FuturesInit, FuturesStep, PTL DEF Spec, FuturesSpec, Futures!Spec
=============================================================================
