----------------------- MODULE RenderFrameQueueProofs -----------------------
(***************************************************************************)
(* Proof that IInv is an invariant of RenderFrameQueue for every number of  *)
(* slots and frames, and what follows from it.                              *)
(***************************************************************************)
EXTENDS RenderFrameQueue, TLAPS

\* Counters less than a ring's length apart index different slots.
LEMMA DistinctSlots ==
  ASSUME NEW n \in Nat \ {0}, NEW a \in Nat, NEW b \in Nat, a < b, b - a < n
  PROVE  a % n # b % n
<1> DEFINE p == a \div n
           q == b \div n
<1>1. /\ p \in Int /\ q \in Int
      /\ a = n * p + (a % n)
      /\ b = n * q + (b % n)
  OBVIOUS
<1> SUFFICES ASSUME a % n = b % n PROVE FALSE
  OBVIOUS
<1> DEFINE d == q - p
<1>2. d \in Int /\ b - a = n * d
  BY <1>1
<1> HIDE DEF p, q, d
<1>3. CASE d >= 1
  <2>1. n * d >= n * 1
    BY <1>2, <1>3
  <2>2. QED BY <1>2, <2>1
<1>4. CASE d <= 0
  <2>1. n * d <= 0
    BY <1>2, <1>4
  <2>2. QED BY <1>2, <2>1
<1>5. QED BY <1>2, <1>3, <1>4

LEMMA SlotIndex ==
  ASSUME NEW k \in Nat
  PROVE  k % SlotCount \in 0 .. SlotCount - 1
BY QueueAssumption

LEMMA CounterTypes ==
  ASSUME TypeOK
  PROVE  /\ published \in Nat /\ consumed \in Nat /\ consumed \in 0 .. MaxFrames
         /\ published % SlotCount \in 0 .. SlotCount - 1
         /\ consumed % SlotCount \in 0 .. SlotCount - 1
<1>1. published \in Nat /\ consumed \in Nat /\ consumed \in 0 .. MaxFrames
  BY QueueAssumption DEF TypeOK
<1>2. QED BY <1>1, SlotIndex

\* The oldest unreleased frame is in its slot.
LEMMA FrontFrame ==
  ASSUME IInv, consumed < published
  PROVE  slots[consumed % SlotCount] = consumed + 1
<1>1. consumed \in 0 .. MaxFrames /\ consumed <= consumed
  BY QueueAssumption DEF IInv, TypeOK
<1>2. QED BY <1>1 DEF IInv, SlotsInv

-----------------------------------------------------------------------------
LEMMA AcquireWriteSlotStep ==
  ASSUME IInv, AcquireWriteSlot
  PROVE  IInv'
<1>a. /\ published \in Nat /\ consumed \in Nat /\ consumed \in 0 .. MaxFrames
      /\ published % SlotCount \in 0 .. SlotCount - 1
      /\ consumed % SlotCount \in 0 .. SlotCount - 1
  BY CounterTypes DEF IInv
<1> USE QueueAssumption DEF IInv, TypeOK, Actors, PcSet, AcquireWriteSlot, Testing, Block
<1>1. TypeOK'
  <2>2. slot' \in [Actors -> 0 .. SlotCount - 1]
    BY <1>a
  <2>3. /\ \E p \in PcSet : pc' = [pc EXCEPT !["producer"] = p]
        /\ asleep' \in {asleep, asleep \cup {"producer"}}
    OBVIOUS
  <2>4. UNCHANGED <<published, consumed, isShutdown, slots, got>>
    OBVIOUS
  <2>5. pc' \in [Actors -> PcSet] /\ asleep' \subseteq Actors
    <3>1. pc \in [Actors -> PcSet] /\ asleep \subseteq Actors /\ "producer" \in Actors
      OBVIOUS
    <3> HIDE DEF IInv, TypeOK, AcquireWriteSlot, PcSet, Actors
    <3>2. QED BY <2>3, <3>1
  <2>6. QED BY <2>2, <2>4, <2>5
<1>2. ProducerInv'
  BY DEF ProducerInv, CanWrite
<1>3. ConsumerInv'
  BY DEF ConsumerInv, CanWrite
<1>4. WaitingInv'
  BY DEF WaitingInv, CanWrite
<1>5. NoLostWakeup'
  BY DEF NoLostWakeup, CanWrite, CanRead, IsDrained
<1>6. SlotsInv'
  BY DEF SlotsInv, CanWrite
<1>7. GotInv'
  BY DEF GotInv, CanWrite
<1>8. QED BY <1>1, <1>2, <1>3, <1>4, <1>5, <1>6, <1>7

LEMMA WriteStep ==
  ASSUME IInv, Write
  PROVE  IInv'
<1>a. /\ published \in Nat /\ consumed \in Nat /\ consumed \in 0 .. MaxFrames
      /\ published % SlotCount \in 0 .. SlotCount - 1
      /\ consumed % SlotCount \in 0 .. SlotCount - 1
  BY CounterTypes DEF IInv
<1> USE QueueAssumption DEF IInv, TypeOK, Actors, PcSet, Write
<1>1. TypeOK'
  BY DEF ProducerInv
<1>2. ProducerInv'
  BY DEF ProducerInv
<1>3. ConsumerInv'
  BY DEF ConsumerInv
<1>4. WaitingInv'
  BY DEF WaitingInv
<1>5. NoLostWakeup'
  BY DEF NoLostWakeup, CanWrite, CanRead, IsDrained
<1>6. SlotsInv'
  <2>1. SUFFICES ASSUME NEW k \in 0 .. MaxFrames, consumed <= k, k < published
        PROVE  slots'[k % SlotCount] = k + 1
    BY DEF SlotsInv
  <2>2. slot["producer"] = published % SlotCount /\ published - consumed < SlotCount
    BY DEF ProducerInv
  <2>3. k % SlotCount # published % SlotCount
    <3>1. k \in Nat /\ SlotCount \in Nat \ {0} /\ published - k < SlotCount
      BY <1>a, <2>1, <2>2
    <3> HIDE DEF IInv, TypeOK, Write
    <3>2. QED BY <1>a, <2>1, <3>1, DistinctSlots
  <2>4. k % SlotCount \in 0 .. SlotCount - 1
    <3>1. k \in Nat
      BY <2>1
    <3> HIDE DEF IInv, TypeOK, Write
    <3>2. QED BY <3>1, SlotIndex
  <2>5. slots'[k % SlotCount] = slots[k % SlotCount]
    BY <2>2, <2>3, <2>4
  <2>6. QED BY <2>1, <2>5 DEF SlotsInv
<1>7. GotInv'
  BY DEF GotInv
<1>8. QED BY <1>1, <1>2, <1>3, <1>4, <1>5, <1>6, <1>7

LEMMA PublishStep ==
  ASSUME IInv, Publish
  PROVE  IInv'
<1> USE QueueAssumption DEF IInv, TypeOK, Actors, PcSet, Publish, NotifyAll
<1>1. TypeOK'
  BY DEF ProducerInv
<1>2. ProducerInv'
  BY DEF ProducerInv
<1>3. ConsumerInv'
  BY DEF ConsumerInv, ProducerInv
<1>4. WaitingInv'
  BY DEF WaitingInv
<1>5. NoLostWakeup'
  BY DEF NoLostWakeup, CanWrite, CanRead, IsDrained
<1>6. SlotsInv'
  <2>1. slots[published % SlotCount] = published + 1
    BY DEF ProducerInv
  <2>2. ASSUME NEW k \in 0 .. MaxFrames, consumed <= k, k < published'
        PROVE  slots[k % SlotCount] = k + 1
    <3>1. CASE k < published
      BY <2>2, <3>1 DEF SlotsInv
    <3>2. CASE k = published
      BY <2>1, <3>2
    <3>3. QED BY <2>2, <3>1, <3>2
  <2>3. QED BY <2>2 DEF SlotsInv
<1>7. GotInv'
  BY DEF GotInv
<1>8. QED BY <1>1, <1>2, <1>3, <1>4, <1>5, <1>6, <1>7

LEMMA WaitForNextStep ==
  ASSUME IInv, WaitForNext
  PROVE  IInv'
<1>a. /\ published \in Nat /\ consumed \in Nat /\ consumed \in 0 .. MaxFrames
      /\ published % SlotCount \in 0 .. SlotCount - 1
      /\ consumed % SlotCount \in 0 .. SlotCount - 1
  BY CounterTypes DEF IInv
<1> USE QueueAssumption DEF IInv, TypeOK, Actors, PcSet, WaitForNext, Testing, Block
<1>1. TypeOK'
  <2>2. slot' \in [Actors -> 0 .. SlotCount - 1]
    BY <1>a DEF ReadSlot
  <2>3. /\ \E p \in PcSet : pc' = [pc EXCEPT !["consumer"] = p]
        /\ asleep' \in {asleep, asleep \cup {"consumer"}}
    OBVIOUS
  <2>4. UNCHANGED <<published, consumed, isShutdown, slots, got>>
    OBVIOUS
  <2>5. pc' \in [Actors -> PcSet] /\ asleep' \subseteq Actors
    <3>1. pc \in [Actors -> PcSet] /\ asleep \subseteq Actors /\ "consumer" \in Actors
      OBVIOUS
    <3> HIDE DEF IInv, TypeOK, WaitForNext, PcSet, Actors
    <3>2. QED BY <2>3, <3>1
  <2>6. QED BY <2>2, <2>4, <2>5
<1>2. ProducerInv'
  BY DEF ProducerInv, CanRead, NothingLeft, ReadSlot
<1>3. ConsumerInv'
  <2>1. CASE CanRead /\ ~NothingLeft
    <3>1. consumed < published
      BY <2>1 DEF CanRead, NothingLeft
    <3>2. pc' = [pc EXCEPT !["consumer"] = "reading"] /\ slot' = [slot EXCEPT !["consumer"] = consumed % SlotCount]
      BY <2>1 DEF ReadSlot
    <3>3. consumed' = consumed /\ published' = published
      OBVIOUS
    <3>4. QED BY <3>1, <3>2, <3>3 DEF ConsumerInv
  <2>2. CASE ~CanRead \/ NothingLeft
    <3>1. pc'["consumer"] \in {"next", "stopped"}
      BY <2>2
    <3>2. QED BY <3>1 DEF ConsumerInv
  <2>3. QED BY <2>1, <2>2
<1>4. WaitingInv'
  BY DEF WaitingInv, CanRead, NothingLeft, ReadSlot
<1>5. NoLostWakeup'
  BY DEF NoLostWakeup, CanWrite, CanRead, IsDrained, NothingLeft, ReadSlot
<1>6. SlotsInv'
  BY DEF SlotsInv, CanRead, NothingLeft, ReadSlot
<1>7. GotInv'
  BY DEF GotInv, CanRead, NothingLeft, ReadSlot
<1>8. QED BY <1>1, <1>2, <1>3, <1>4, <1>5, <1>6, <1>7

LEMMA ReadStep ==
  ASSUME IInv, Read
  PROVE  IInv'
<1>a. /\ published \in Nat /\ consumed \in Nat /\ consumed \in 0 .. MaxFrames
      /\ published % SlotCount \in 0 .. SlotCount - 1
      /\ consumed % SlotCount \in 0 .. SlotCount - 1
  BY CounterTypes DEF IInv
<1> USE QueueAssumption DEF IInv, TypeOK, Actors, PcSet, Read
<1>1. TypeOK'
  BY DEF ConsumerInv
<1>2. ProducerInv'
  BY DEF ProducerInv, ConsumerInv
<1>3. ConsumerInv'
  BY DEF ConsumerInv
<1>4. WaitingInv'
  BY DEF WaitingInv, ConsumerInv
<1>5. NoLostWakeup'
  BY DEF NoLostWakeup, CanWrite, CanRead, IsDrained, ConsumerInv
<1>6. SlotsInv'
  BY DEF SlotsInv, ConsumerInv
<1>7. GotInv'
  <2>1. slot["consumer"] = consumed % SlotCount /\ consumed < published
    BY DEF ConsumerInv
  <2>2. slots[consumed % SlotCount] = consumed + 1
    BY <2>1, FrontFrame
  <2>3. got' = Append(got, consumed + 1)
    BY <2>1, <2>2
  <2>4. Len(got) = consumed /\ \A i \in 1 .. Len(got) : got[i] = i
    BY DEF GotInv
  <2>5. Len(got') = consumed + 1 /\ \A i \in 1 .. Len(got') : got'[i] = i
    <3>1. Len(got') = Len(got) + 1 /\ \A i \in 1 .. Len(got) : got'[i] = got[i]
      BY <2>3
    <3>2. got'[Len(got) + 1] = consumed + 1
      BY <2>3
    <3>3. ASSUME NEW i \in 1 .. consumed + 1
          PROVE  got'[i] = i
      <4>1. CASE i = consumed + 1
        BY <2>4, <3>2, <4>1
      <4>2. CASE i # consumed + 1
        BY <1>a, <2>4, <3>1, <4>2
      <4>3. QED BY <4>1, <4>2
    <3>4. Len(got') = consumed + 1
      BY <2>4, <3>1
    <3>5. QED BY <3>3, <3>4
  <2>6. pc'["consumer"] = "read"
    OBVIOUS
  <2>7. QED BY <2>5, <2>6 DEF GotInv
<1>8. QED BY <1>1, <1>2, <1>3, <1>4, <1>5, <1>6, <1>7

LEMMA ReleaseReadSlotStep ==
  ASSUME IInv, ReleaseReadSlot
  PROVE  IInv'
<1>a. /\ published \in Nat /\ consumed \in Nat /\ consumed \in 0 .. MaxFrames
      /\ published % SlotCount \in 0 .. SlotCount - 1
      /\ consumed % SlotCount \in 0 .. SlotCount - 1
  BY CounterTypes DEF IInv
<1> USE QueueAssumption DEF IInv, TypeOK, Actors, PcSet, ReleaseReadSlot, NotifyAll
<1>1. TypeOK'
  BY DEF ConsumerInv
<1>2. ProducerInv'
  BY DEF ProducerInv, ConsumerInv
<1>3. ConsumerInv'
  BY DEF ConsumerInv
<1>4. WaitingInv'
  BY DEF WaitingInv, ConsumerInv
<1>5. NoLostWakeup'
  BY DEF NoLostWakeup, CanWrite, CanRead, IsDrained, ConsumerInv
<1>6. SlotsInv'
  <2>1. ASSUME NEW k \in 0 .. MaxFrames, consumed + 1 <= k, k < published
        PROVE  slots[k % SlotCount] = k + 1
    <3>1. consumed <= k
      BY <1>a, <2>1
    <3>2. QED BY <2>1, <3>1 DEF SlotsInv
  <2>2. QED BY <2>1 DEF SlotsInv
<1>7. GotInv'
  BY DEF GotInv, ConsumerInv
<1>8. QED BY <1>1, <1>2, <1>3, <1>4, <1>5, <1>6, <1>7

LEMMA WaitUntilDrainedStep ==
  ASSUME IInv, NEW a \in {"producer", "owner"}, WaitUntilDrained(a)
  PROVE  IInv'
<1>1. UNCHANGED <<published, consumed, isShutdown, slots, slot, got>>
  BY DEF WaitUntilDrained, Block
<1>2. /\ a \in Actors /\ pc[a] \in {"idle", "drain"}
      /\ pc \in [Actors -> PcSet] /\ asleep \subseteq Actors
  BY DEF WaitUntilDrained, Testing, IInv, TypeOK, Actors
<1>3. \/ ~IsDrained /\ pc' = [pc EXCEPT ![a] = "drain"] /\ asleep' = asleep \cup {a}
      \/ pc' = [pc EXCEPT ![a] = "idle"] /\ asleep' = asleep /\ a \notin asleep
  BY DEF WaitUntilDrained, Testing, Block
<1>4. PICK p \in {"idle", "drain"} : pc' = [pc EXCEPT ![a] = p]
  BY <1>3
<1>5. \A b \in Actors : pc'[b] = IF b = a THEN p ELSE pc[b]
  BY <1>2, <1>4
<1>6. TypeOK'
  <2>1. pc' \in [Actors -> PcSet]
    BY <1>2, <1>4 DEF PcSet
  <2>2. asleep' \subseteq Actors
    BY <1>2, <1>3
  <2>3. QED BY <1>1, <2>1, <2>2 DEF IInv, TypeOK
<1>7. ProducerInv'
  BY <1>1, <1>2, <1>5 DEF IInv, ProducerInv, PcSet, Actors
<1>8. ConsumerInv'
  BY <1>1, <1>5 DEF IInv, ConsumerInv, Actors
<1>9. WaitingInv'
  <2>1. pc'["owner"] \in {"idle", "drain"}
    BY <1>2, <1>5 DEF IInv, WaitingInv, Actors
  <2>2. ASSUME NEW b \in asleep'
        PROVE  pc'[b] \in {"acquire", "next", "drain"}
    <3>1. b = a => pc'[b] = "drain"
      BY <1>2, <1>3, <2>2
    <3>2. b # a => b \in asleep /\ b \in Actors /\ pc'[b] = pc[b]
      BY <1>2, <1>3, <1>5, <2>2
    <3>3. QED BY <3>1, <3>2 DEF IInv, WaitingInv
  <2>3. QED BY <2>1, <2>2 DEF WaitingInv
<1>10. NoLostWakeup'
  <2>1. (CanWrite' = CanWrite) /\ (CanRead' = CanRead) /\ (IsDrained' = IsDrained)
    BY <1>1 DEF CanWrite, CanRead, IsDrained
  <2>2. CASE ~IsDrained /\ pc' = [pc EXCEPT ![a] = "drain"] /\ asleep' = asleep \cup {a}
    BY <1>2, <2>1, <2>2 DEF IInv, NoLostWakeup
  <2>3. CASE pc' = [pc EXCEPT ![a] = "idle"] /\ asleep' = asleep /\ a \notin asleep
    BY <1>2, <2>1, <2>3 DEF IInv, NoLostWakeup
  <2>4. QED BY <1>3, <2>2, <2>3
<1>11. SlotsInv' /\ GotInv'
  BY <1>1, <1>5 DEF IInv, SlotsInv, GotInv, Actors
<1>12. QED BY <1>6, <1>7, <1>8, <1>9, <1>10, <1>11 DEF IInv

LEMMA ShutdownStep ==
  ASSUME IInv, Shutdown
  PROVE  IInv'
<1> USE QueueAssumption DEF IInv, TypeOK, Actors, PcSet, Shutdown, NotifyAll
<1>1. TypeOK'
  OBVIOUS
<1>2. ProducerInv'
  BY DEF ProducerInv
<1>3. ConsumerInv'
  BY DEF ConsumerInv
<1>4. WaitingInv'
  BY DEF WaitingInv
<1>5. NoLostWakeup'
  BY DEF NoLostWakeup, CanWrite, CanRead, IsDrained
<1>6. SlotsInv'
  BY DEF SlotsInv
<1>7. GotInv'
  BY DEF GotInv
<1>8. QED BY <1>1, <1>2, <1>3, <1>4, <1>5, <1>6, <1>7

LEMMA WakeSpuriouslyStep ==
  ASSUME IInv, NEW a \in Actors, WakeSpuriously(a)
  PROVE  IInv'
<1> USE QueueAssumption DEF IInv, TypeOK, Actors, PcSet, WakeSpuriously
<1>1. TypeOK'
  OBVIOUS
<1>2. ProducerInv'
  BY DEF ProducerInv
<1>3. ConsumerInv'
  BY DEF ConsumerInv
<1>4. WaitingInv'
  BY DEF WaitingInv
<1>5. NoLostWakeup'
  BY DEF NoLostWakeup, CanWrite, CanRead, IsDrained
<1>6. SlotsInv'
  BY DEF SlotsInv
<1>7. GotInv'
  BY DEF GotInv
<1>8. QED BY <1>1, <1>2, <1>3, <1>4, <1>5, <1>6, <1>7

-----------------------------------------------------------------------------
LEMMA InitIInv == Init => IInv
<1> SUFFICES ASSUME Init PROVE IInv
  OBVIOUS
<1> USE QueueAssumption DEF Init, Actors, PcSet
<1>1. TypeOK
  <2>1. 0 \in 0 .. SlotCount - 1 /\ 0 \in 0 .. MaxFrames
    OBVIOUS
  <2>2. <<>> \in Seq(0 .. MaxFrames)
    OBVIOUS
  <2>3. /\ published = 0 /\ consumed = 0 /\ isShutdown = FALSE /\ asleep = {} /\ got = <<>>
        /\ slots \in [0 .. SlotCount - 1 -> 0 .. MaxFrames]
        /\ slot \in [Actors -> 0 .. SlotCount - 1]
        /\ pc \in [Actors -> PcSet]
    BY <2>1
  <2>4. /\ published \in 0 .. MaxFrames /\ consumed \in 0 .. published
        /\ published - consumed <= SlotCount
    BY <2>1, <2>3
  <2> HIDE DEF Init
  <2>5. QED BY <2>2, <2>3, <2>4 DEF TypeOK
<1>2. ProducerInv /\ ConsumerInv /\ WaitingInv
  BY DEF ProducerInv, ConsumerInv, WaitingInv
<1>3. NoLostWakeup /\ SlotsInv /\ GotInv
  BY DEF NoLostWakeup, SlotsInv, GotInv
<1>4. QED BY <1>1, <1>2, <1>3 DEF IInv

LEMMA StutterIInv == IInv /\ UNCHANGED vars => IInv'
BY DEF vars, IInv, TypeOK, ProducerInv, ConsumerInv, WaitingInv, NoLostWakeup,
       CanWrite, CanRead, IsDrained, SlotsInv, GotInv

LEMMA NextIInv == IInv /\ [Next]_vars => IInv'
<1> SUFFICES ASSUME IInv, Next PROVE IInv'
  BY StutterIInv
<1>1. CASE Produce
  BY <1>1, AcquireWriteSlotStep, WriteStep, PublishStep DEF Produce
<1>2. CASE Consume
  BY <1>2, WaitForNextStep, ReadStep, ReleaseReadSlotStep DEF Consume
<1>3. ASSUME NEW a \in {"producer", "owner"}, WaitUntilDrained(a)
      PROVE  IInv'
  BY <1>3, WaitUntilDrainedStep
<1>4. CASE Shutdown
  BY <1>4, ShutdownStep
<1>5. ASSUME NEW a \in Actors, WakeSpuriously(a)
      PROVE  IInv'
  BY <1>5, WakeSpuriouslyStep
<1>6. QED BY <1>1, <1>2, <1>3, <1>4, <1>5 DEF Next

\* IInv holds in every reachable state.
THEOREM Invariance == Spec => []IInv
BY InitIInv, NextIInv, PTL DEF Spec

-----------------------------------------------------------------------------
(***************************************************************************)
(* Every reachable state is typed: the counters never cross, and never more *)
(* than slot_count frames are published and not released.                   *)
(***************************************************************************)
THEOREM Typing == Spec => []TypeOK
<1>1. IInv => TypeOK
  BY DEF IInv
<1>2. QED BY <1>1, Invariance, PTL

(***************************************************************************)
(* The slot being filled is never the slot being read, whatever the number  *)
(* of slots.                                                                *)
(***************************************************************************)
THEOREM SlotExclusion == Spec => []NoSharedSlot
<1>1. IInv => NoSharedSlot
  <2>1. SUFFICES ASSUME IInv, pc["producer"] \in {"writing", "written"},
                        pc["consumer"] \in {"reading", "read"}
        PROVE  slot["producer"] # slot["consumer"]
    BY DEF NoSharedSlot
  <2>2. /\ slot["producer"] = published % SlotCount
        /\ slot["consumer"] = consumed % SlotCount
        /\ consumed < published /\ published - consumed < SlotCount
    BY <2>1 DEF IInv, ProducerInv, ConsumerInv
  <2>3. published \in Nat /\ consumed \in Nat
    BY <2>1, QueueAssumption DEF IInv, TypeOK
  <2>4. consumed % SlotCount # published % SlotCount
    BY <2>2, <2>3, DistinctSlots, QueueAssumption
  <2>5. QED BY <2>2, <2>4
<1>2. QED BY <1>1, Invariance, PTL

(***************************************************************************)
(* Whoever is asleep in a wait has a false predicate.                       *)
(***************************************************************************)
THEOREM WakeupSafety == Spec => []NoLostWakeup
<1>1. IInv => NoLostWakeup
  BY DEF IInv
<1>2. QED BY <1>1, Invariance, PTL

-----------------------------------------------------------------------------
LEMMA ChannelInit == Init => Channel!Init
BY DEF Init, Channel!Init

LEMMA ChannelStep == IInv /\ [Next]_vars => [Channel!Next]_Channel!vars
<1> SUFFICES ASSUME IInv, Next PROVE [Channel!Next]_Channel!vars
  BY DEF vars, Channel!vars
<1> USE DEF Channel!vars
<1>1. CASE AcquireWriteSlot \/ Write
  BY <1>1 DEF AcquireWriteSlot, Write, Block
<1>2. CASE Publish
  <2>1. published - consumed < SlotCount
    BY <1>2 DEF Publish, IInv, ProducerInv
  <2>2. QED BY <1>2, <2>1 DEF Publish, Channel!Next, Channel!Send
<1>3. CASE WaitForNext
  BY <1>3 DEF WaitForNext, Block
<1>4. CASE Read
  <2>1. slot["consumer"] = consumed % SlotCount /\ consumed < published
    BY <1>4 DEF Read, IInv, ConsumerInv
  <2>3. slots[consumed % SlotCount] = consumed + 1
    BY <2>1, FrontFrame
  <2>4. Len(got) = consumed
    BY <1>4 DEF Read, IInv, GotInv
  <2>5. QED BY <1>4, <2>1, <2>3, <2>4 DEF Read, Channel!Next, Channel!Receive
<1>5. CASE ReleaseReadSlot
  <2>1. Len(got) = consumed + 1 /\ consumed \in Nat
    BY <1>5, QueueAssumption DEF ReleaseReadSlot, IInv, GotInv, TypeOK
  <2>2. QED BY <1>5, <2>1 DEF ReleaseReadSlot, Channel!Next, Channel!Release
<1>6. ASSUME NEW a \in {"producer", "owner"}, WaitUntilDrained(a)
      PROVE  UNCHANGED Channel!vars
  BY <1>6 DEF WaitUntilDrained, Block
<1>7. CASE Shutdown
  BY <1>7 DEF Shutdown
<1>8. ASSUME NEW a \in Actors, WakeSpuriously(a)
      PROVE  UNCHANGED Channel!vars
  BY <1>8 DEF WakeSpuriously
<1>9. QED BY <1>1, <1>2, <1>3, <1>4, <1>5, <1>6, <1>7, <1>8 DEF Next, Produce, Consume

(***************************************************************************)
(* The ring of slots, for every number of slots, implements the channel:    *)
(* frames arrive in the order of publication, none lost or repeated.        *)
(***************************************************************************)
THEOREM ImplementsChannel == Spec => ChannelSpec
BY Invariance, ChannelInit, ChannelStep, PTL DEF Spec, ChannelSpec, Channel!Spec
=============================================================================
