----------------------------- MODULE RendererProofs -----------------------------
(***************************************************************************)
(* RenderDevice: whatever the order in which devices, resources and frames   *)
(* are made and go, and on whatever machines, with any numbers of them and   *)
(* of addresses.  What they choose suits the machine, and what they upload   *)
(* fills the resource: halvings of a side are the shifts of its levels.      *)
(* Shaders: whatever the programs and the resources they are given.          *)
(***************************************************************************)
EXTENDS RenderDevice, Shaders, FiniteSetTheorems, WellFoundedInduction, NaturalsInduction, TLAPS

-----------------------------------------------------------------------------
(* What NVRHI keeps. *)

KeptBy(jobs) == UNION Range(jobs)

LEMMA AppendKept ==
  ASSUME NEW jobs \in Seq(SUBSET Resources), NEW uses \in SUBSET Resources
  PROVE  /\ Append(jobs, uses) \in Seq(SUBSET Resources)
         /\ KeptBy(Append(jobs, uses)) = KeptBy(jobs) \cup uses
  <1> DEFINE more == Append(jobs, uses)
  <1>1. /\ more \in Seq(SUBSET Resources) /\ Len(more) = Len(jobs) + 1
        /\ more[Len(jobs) + 1] = uses
        /\ \A i \in 1 .. Len(jobs) : more[i] = jobs[i]
        /\ DOMAIN more = 1 .. Len(jobs) + 1 /\ DOMAIN jobs = 1 .. Len(jobs)
        /\ Len(jobs) \in Nat
    OBVIOUS
  <1> HIDE DEF more
  <1>2. Range(more) = Range(jobs) \cup {uses}
    <2>1. ASSUME NEW u \in Range(more) PROVE u \in Range(jobs) \cup {uses}
      <3>1. PICK i \in DOMAIN more : u = more[i]
        BY <2>1 DEF Range
      <3>2. i = Len(jobs) + 1 \/ i \in 1 .. Len(jobs)
        BY <1>1, <3>1
      <3> QED
        BY <1>1, <3>1, <3>2 DEF Range
    <2>2. ASSUME NEW u \in Range(jobs) PROVE u \in Range(more)
      <3>1. PICK i \in DOMAIN jobs : u = jobs[i]
        BY <2>2 DEF Range
      <3>2. i \in DOMAIN more /\ more[i] = u
        BY <1>1, <3>1
      <3> QED
        BY <3>2 DEF Range
    <2>3. uses \in Range(more)
      <3>1. Len(jobs) + 1 \in DOMAIN more
        BY <1>1
      <3> QED
        BY <1>1, <3>1 DEF Range
    <2> QED
      BY <2>1, <2>2, <2>3
  <1>3. \A sets : UNION (sets \cup {uses}) = (UNION sets) \cup uses
    OBVIOUS
  <1>4. KeptBy(more) = KeptBy(jobs) \cup uses
    BY <1>2, <1>3, Zenon DEF KeptBy
  <1>5. more \in Seq(SUBSET Resources)
    BY <1>1
  <1> QED
    BY <1>4, <1>5 DEF more

LEMMA CollectKept ==
  ASSUME NEW jobs \in Seq(SUBSET Resources), NEW n \in Nat
  PROVE  /\ SubSeq(jobs, n + 1, Len(jobs)) \in Seq(SUBSET Resources)
         /\ KeptBy(SubSeq(jobs, n + 1, Len(jobs))) \subseteq KeptBy(jobs)
         /\ n = Len(jobs) => SubSeq(jobs, n + 1, Len(jobs)) = <<>>
  <1> DEFINE rest == SubSeq(jobs, n + 1, Len(jobs))
  <1>1. rest \in Seq(SUBSET Resources)
    OBVIOUS
  <1>2. \A i \in DOMAIN rest : n + i \in DOMAIN jobs /\ rest[i] = jobs[n + i]
    OBVIOUS
  <1>3. n = Len(jobs) => rest = <<>>
    OBVIOUS
  <1> HIDE DEF rest
  <1>4. Range(rest) \subseteq Range(jobs)
    BY <1>2 DEF Range
  <1> QED
    BY <1>1, <1>3, <1>4 DEF KeptBy, rest

LEMMA NothingKept == KeptBy(<<>>) = {}
  BY DEF KeptBy, Range

-----------------------------------------------------------------------------
LEMMA PartsCount == Len(Parts) = 6
  BY DEF Parts

LEMMA TypedParts ==
  ASSUME TypeOK, NEW d \in Devices
  PROVE  /\ frame[d] \in [open : BOOLEAN, uses : SUBSET Resources]
         /\ frame[d].uses \in SUBSET Resources
         /\ queue[d] \in Seq(SUBSET Resources)
         /\ done[d] \in Nat
         /\ DOMAIN queue = Devices /\ DOMAIN frame = Devices /\ DOMAIN done = Devices
  BY DEF TypeOK

\* A step that only lets go of resources lets nothing foreign in.
LEMMA LetsGo ==
  ASSUME ForeignNeverRecorded, UNCHANGED device_of,
         \A e \in Devices : frame'[e].uses \cup KeptBy(queue'[e])
                              \subseteq frame[e].uses \cup KeptBy(queue[e])
  PROVE  ForeignNeverRecorded'
  BY DEF ForeignNeverRecorded, Uses, KeptBy

-----------------------------------------------------------------------------
(* One lemma for each action: it keeps LifetimeInv. *)

LEMMA BuildsStep ==
  ASSUME LifetimeInv, NEW d \in Devices, NEW part, Builds(d, part)
  PROVE  LifetimeInv'
  <1> USE DEF LifetimeInv
  <1>1. TypeOK'
    <2>1. built[d] \in 0 .. 6 /\ built \in [Devices -> 0 .. 6]
      BY PartsCount DEF TypeOK
    <2>2. built' \in [Devices -> 0 .. 6]
      BY <2>1, PartsCount DEF Builds
    <2>3. phase' \in [Devices -> Phases]
      BY DEF TypeOK, Builds, Phases
    <2>4. queue' \in [Devices -> Seq(SUBSET Resources)] /\ done' \in [Devices -> Nat]
      BY DEF TypeOK, Builds, gpu
    <2> QED
      BY <2>2, <2>3, <2>4, PartsCount DEF TypeOK, Builds, chosen
  <1>2. ResourceInv'
    BY DEF ResourceInv, Builds, gpu, Exists
  <1>3. BuiltInv'
    BY PartsCount DEF TypeOK, BuiltInv, Builds
  <1>4. FrameInv'
    BY DEF FrameInv, Builds, gpu
  <1>5. AddressInv'
    BY DEF TypeOK, AddressInv, Builds
  <1>6. QuietInv'
    BY DEF QuietInv, Builds, gpu
  <1>7. ForeignNeverRecorded'
    BY DEF ForeignNeverRecorded, Builds, gpu, Uses
  <1> QED
    BY <1>1, <1>2, <1>3, <1>4, <1>5, <1>6, <1>7

LEMMA ConstructStep ==
  ASSUME LifetimeInv, NEW d \in Devices, Construct(d)
  PROVE  LifetimeInv'
  <1> USE DEF LifetimeInv
  <1>1. TypeOK'
    BY PartsCount DEF TypeOK, Phases, Construct, chosen, gpu
  <1>2. ResourceInv'
    BY DEF ResourceInv, Construct, chosen, gpu, Exists
  <1>3. BuiltInv'
    BY DEF BuiltInv, Construct, chosen, gpu
  <1>4. FrameInv'
    BY DEF FrameInv, Construct, chosen, gpu
  <1>5. AddressInv'
    BY DEF TypeOK, AddressInv, Construct, Occupied
  <1>6. QuietInv'
    BY DEF QuietInv, Construct, chosen, gpu
  <1>7. ForeignNeverRecorded'
    BY DEF ForeignNeverRecorded, Construct, chosen, gpu, Uses
  <1> QED
    BY <1>1, <1>2, <1>3, <1>4, <1>5, <1>6, <1>7

LEMMA ConstructionFailsStep ==
  ASSUME LifetimeInv, NEW d \in Devices, ConstructionFails(d)
  PROVE  LifetimeInv'
  <1> USE DEF LifetimeInv
  <1>1. TypeOK'
    BY PartsCount DEF TypeOK, Phases, ConstructionFails, chosen, gpu
  <1>2. ResourceInv'
    BY DEF ResourceInv, ConstructionFails, chosen, gpu, Exists
  <1>3. BuiltInv'
    BY DEF BuiltInv, ConstructionFails, chosen, gpu
  <1>4. FrameInv'
    BY DEF FrameInv, ConstructionFails, chosen, gpu
  <1>5. AddressInv'
    BY DEF AddressInv, ConstructionFails, chosen, gpu
  <1>6. QuietInv'
    BY DEF QuietInv, ConstructionFails, chosen, gpu
  <1>7. ForeignNeverRecorded'
    BY DEF ForeignNeverRecorded, ConstructionFails, chosen, gpu, Uses
  <1> QED
    BY <1>1, <1>2, <1>3, <1>4, <1>5, <1>6, <1>7

LEMMA FinishStep ==
  ASSUME LifetimeInv, NEW d \in Devices, Finish(d)
  PROVE  LifetimeInv'
  <1> USE DEF LifetimeInv
  <1>1. TypeOK'
    BY DEF TypeOK, Finish, parts, chosen
  <1>2. QuietInv'
    BY DEF QuietInv, Finish, parts, chosen
  <1>3. ResourceInv' /\ BuiltInv' /\ FrameInv' /\ AddressInv' /\ ForeignNeverRecorded'
    BY DEF ResourceInv, BuiltInv, FrameInv, AddressInv, ForeignNeverRecorded, Finish, parts, chosen, Exists, Uses
  <1> QED
    BY <1>1, <1>2, <1>3

LEMMA DestroyStep ==
  ASSUME LifetimeInv, NEW r \in Resources, DestroyResource(r)
  PROVE  LifetimeInv'
  <1> USE DEF LifetimeInv
  <1>1. TypeOK'
    BY DEF TypeOK, DestroyResource, parts, chosen, gpu
  <1>2. ResourceInv'
    BY DEF ResourceInv, DestroyResource, parts, chosen, gpu, Exists
  <1>3. BuiltInv' /\ FrameInv' /\ AddressInv' /\ QuietInv' /\ ForeignNeverRecorded'
    BY DEF BuiltInv, FrameInv, AddressInv, QuietInv, ForeignNeverRecorded, DestroyResource, parts, chosen, gpu, Uses
  <1> QED
    BY <1>1, <1>2, <1>3

LEMMA EndDestroyStep ==
  ASSUME LifetimeInv, NEW r \in Resources, EndDestroy(r)
  PROVE  LifetimeInv'
  <1> USE DEF LifetimeInv
  <1>1. TypeOK'
    BY DEF TypeOK, EndDestroy, parts, chosen, gpu
  <1>2. ResourceInv'
    BY DEF ResourceInv, EndDestroy, parts, chosen, gpu, Exists
  <1>3. ForeignNeverRecorded'
    BY DEF ForeignNeverRecorded, EndDestroy, parts, chosen, gpu, Uses
  <1>4. BuiltInv' /\ FrameInv' /\ AddressInv' /\ QuietInv'
    BY DEF BuiltInv, FrameInv, AddressInv, QuietInv, EndDestroy, parts, chosen, gpu
  <1> QED
    BY <1>1, <1>2, <1>3, <1>4

LEMMA ThrowsStep ==
  ASSUME LifetimeInv, NEW d \in Devices, ReleaseThrows(d)
  PROVE  LifetimeInv'
  <1> USE DEF LifetimeInv
  <1>1. TypeOK'
    BY DEF TypeOK, ReleaseThrows, parts, chosen, gpu
  <1>2. ResourceInv' /\ BuiltInv' /\ FrameInv' /\ AddressInv' /\ QuietInv' /\ ForeignNeverRecorded'
    BY DEF ResourceInv, BuiltInv, FrameInv, AddressInv, QuietInv, ForeignNeverRecorded, ReleaseThrows, parts, chosen, gpu, Exists, Uses
  <1> QED
    BY <1>1, <1>2

LEMMA DropImplStep ==
  ASSUME LifetimeInv, NEW d \in Devices, DropImpl(d)
  PROVE  LifetimeInv'
  <1> USE DEF LifetimeInv
  <1>1. TypeOK'
    BY PartsCount DEF TypeOK, Phases, DropImpl, chosen, gpu
  <1>2. ResourceInv'
    BY DEF ResourceInv, DropImpl, Unreferenced, OwnerHeld, Held, Members, chosen, gpu, Exists
  <1>3. BuiltInv'
    BY DEF BuiltInv, DropImpl, Unreferenced, OwnerHeld, Held, Members, chosen, gpu
  <1>4. FrameInv'
    BY DEF FrameInv, DropImpl, Unreferenced, OwnerHeld, Held, Members, chosen, gpu
  <1>5. AddressInv'
    BY DEF AddressInv, DropImpl, Unreferenced, OwnerHeld, Held, Members, chosen, gpu
  <1>6. QuietInv'
    BY DEF QuietInv, DropImpl, Unreferenced, OwnerHeld, Held, Members, chosen, gpu
  <1>7. ForeignNeverRecorded'
    BY DEF ForeignNeverRecorded, DropImpl, Unreferenced, OwnerHeld, Held, Members, chosen, gpu, Uses
  <1> QED
    BY <1>1, <1>2, <1>3, <1>4, <1>5, <1>6, <1>7

LEMMA UnwindStep ==
  ASSUME LifetimeInv, NEW d \in Devices, Unwind(d)
  PROVE  LifetimeInv'
  <1> USE DEF LifetimeInv
  <1>1. TypeOK'
    <2>1. built[d] \in 0 .. 6 /\ built \in [Devices -> 0 .. 6]
      BY PartsCount DEF TypeOK
    <2>2. built' \in [Devices -> 0 .. 6]
      BY <2>1, PartsCount DEF Unwind
    <2>3. phase' \in [Devices -> Phases]
      BY DEF TypeOK, Unwind, Phases
    <2>4. queue' \in [Devices -> Seq(SUBSET Resources)] /\ done' \in [Devices -> Nat]
      <3>1. queue' = queue \/ queue' = [queue EXCEPT ![d] = <<>>]
        BY DEF Unwind, gpu
      <3>2. done' = done \/ done' = [done EXCEPT ![d] = 0]
        BY DEF Unwind, gpu
      <3>3. queue \in [Devices -> Seq(SUBSET Resources)]
        BY DEF TypeOK
      <3>4. done' \in [Devices -> Nat]
        <4>1. done \in [Devices -> Nat]
          BY DEF TypeOK
        <4> QED
          BY <3>2, <4>1
      <3>5. <<>> \in Seq(SUBSET Resources)
        OBVIOUS
      <3>6. [queue EXCEPT ![d] = <<>>] \in [Devices -> Seq(SUBSET Resources)]
        BY <3>3, <3>5, Zenon
      <3> QED
        BY <3>1, <3>3, <3>4, <3>6
    <2> QED
      BY <2>2, <2>3, <2>4, PartsCount DEF TypeOK, Unwind, chosen
  <1>2. BuiltInv'
    BY DEF BuiltInv, Unwind, chosen, gpu
  <1>3. QuietInv'
    BY DEF QuietInv, TypeOK, Unwind, gpu
  <1>4. ForeignNeverRecorded'
    <2>1. \A e \in Devices : queue'[e] = queue[e] \/ queue'[e] = <<>>
      BY DEF TypeOK, Unwind, gpu
    <2> QED
      BY <2>1, NothingKept, LetsGo DEF Unwind
  <1>5. ResourceInv' /\ FrameInv' /\ AddressInv'
    BY DEF ResourceInv, FrameInv, AddressInv, Unwind, chosen, gpu, Exists
  <1> QED
    BY <1>1, <1>2, <1>3, <1>4, <1>5

LEMMA FreeStep ==
  ASSUME LifetimeInv, NEW d \in Devices, Free(d)
  PROVE  LifetimeInv'
  <1> USE DEF LifetimeInv
  <1>1. TypeOK'
    BY PartsCount DEF TypeOK, Phases, Free, gpu
  <1>2. ResourceInv'
    BY DEF ResourceInv, Free, gpu, Exists
  <1>3. BuiltInv'
    BY DEF BuiltInv, Free, gpu
  <1>4. FrameInv'
    BY DEF FrameInv, Free, gpu
  <1>5. AddressInv'
    BY DEF AddressInv, Free, gpu
  <1>6. QuietInv'
    BY DEF QuietInv, Free, gpu
  <1>7. ForeignNeverRecorded'
    BY DEF ForeignNeverRecorded, Free, gpu, Uses
  <1> QED
    BY <1>1, <1>2, <1>3, <1>4, <1>5, <1>6, <1>7

LEMMA OpenFrameStep ==
  ASSUME LifetimeInv, NEW d \in Devices, OpenFrame(d)
  PROVE  LifetimeInv'
  <1> USE DEF LifetimeInv
  <1>1. TypeOK'
    BY DEF TypeOK, OpenFrame, parts, chosen, gpu
  <1>2. FrameInv'
    BY DEF FrameInv, OpenFrame, parts, chosen, gpu
  <1>3. ForeignNeverRecorded'
    BY DEF ForeignNeverRecorded, OpenFrame, parts, chosen, gpu, Uses
  <1>4. ResourceInv' /\ BuiltInv' /\ AddressInv' /\ QuietInv'
    BY DEF ResourceInv, BuiltInv, AddressInv, QuietInv, OpenFrame, parts, chosen, gpu, Exists
  <1> QED
    BY <1>1, <1>2, <1>3, <1>4

LEMMA RecordUseStep ==
  ASSUME LifetimeInv, NEW d \in Devices, NEW r \in Resources, RecordUse(d, r)
  PROVE  LifetimeInv'
  <1> USE DEF LifetimeInv
  <1>1. TypeOK'
    BY DEF TypeOK, RecordUse, parts, chosen, gpu
  <1>2. FrameInv'
    BY DEF FrameInv, RecordUse, parts, chosen, gpu
  <1>3. ForeignNeverRecorded'
    <2>1. device_of[r] = d
      <3>1. device_of[r] \in Devices /\ address[device_of[r]] = address[d]
        BY DEF RecordUse, BelongsTo, Exists, TypeOK
      <3>2. phase[device_of[r]] # "none" /\ phase[d] # "none"
        BY DEF RecordUse, Exists, ResourceInv, FrameInv
      <3> QED
        BY <3>1, <3>2 DEF AddressInv
    <2>2. \A e \in Devices : frame'[e].uses \subseteq frame[e].uses \cup {x \in {r} : e = d}
      BY TypedParts DEF RecordUse
    <2>3. queue' = queue /\ device_of' = device_of
      BY DEF RecordUse, gpu
    <2> QED
      BY <2>1, <2>2, <2>3 DEF ForeignNeverRecorded, Uses
  <1>4. ResourceInv' /\ BuiltInv' /\ AddressInv' /\ QuietInv'
    BY DEF ResourceInv, BuiltInv, AddressInv, QuietInv, RecordUse, parts, chosen, gpu, Exists
  <1> QED
    BY <1>1, <1>2, <1>3, <1>4

LEMMA AbandonStep ==
  ASSUME LifetimeInv, NEW d \in Devices, AbandonFrame(d)
  PROVE  LifetimeInv'
  <1> USE DEF LifetimeInv
  <1>1. TypeOK'
    BY PartsCount DEF TypeOK, Phases, AbandonFrame, Closed, parts, chosen
  <1>2. FrameInv'
    BY DEF FrameInv, AbandonFrame, Closed, parts, chosen
  <1>3. QuietInv'
    BY DEF QuietInv, AbandonFrame, Closed, parts, chosen
  <1>4. ForeignNeverRecorded'
    <2>1. \A e \in Devices : KeptBy(queue'[e]) \subseteq KeptBy(queue[e]) \cup frame[e].uses
      BY TypedParts, NothingKept DEF AbandonFrame
    <2>2. \A e \in Devices : frame'[e].uses \subseteq frame[e].uses
      BY TypedParts DEF AbandonFrame, Closed
    <2> QED
      BY <2>1, <2>2, LetsGo DEF AbandonFrame
  <1>5. ResourceInv' /\ BuiltInv' /\ AddressInv'
    BY DEF ResourceInv, BuiltInv, AddressInv, AbandonFrame, Closed, parts, chosen, Exists
  <1> QED
    BY <1>1, <1>2, <1>3, <1>4, <1>5

LEMMA WaitIdleStep ==
  ASSUME LifetimeInv, NEW d \in Devices, WaitIdle(d)
  PROVE  LifetimeInv'
  <1> USE DEF LifetimeInv
  <1>1. TypeOK'
    BY DEF TypeOK, WaitIdle, WaitsIdle, Collected, parts, chosen
  <1>2. QuietInv'
    BY DEF QuietInv, WaitIdle, WaitsIdle, Collected, parts, chosen
  <1>3. ForeignNeverRecorded'
    <2>1. \A e \in Devices : KeptBy(queue'[e]) \subseteq KeptBy(queue[e]) \cup frame[e].uses
      BY TypedParts, CollectKept DEF WaitIdle, WaitsIdle, Collected
    <2>2. \A e \in Devices : frame'[e].uses \subseteq frame[e].uses
      BY TypedParts DEF WaitIdle, Closed
    <2> QED
      BY <2>1, <2>2, LetsGo DEF WaitIdle
  <1>4. ResourceInv' /\ BuiltInv' /\ FrameInv' /\ AddressInv'
    BY DEF ResourceInv, BuiltInv, FrameInv, AddressInv, WaitIdle, WaitsIdle, Collected, parts, chosen, Exists
  <1> QED
    BY <1>1, <1>2, <1>3, <1>4

LEMMA ReleaseFacadeStep ==
  ASSUME LifetimeInv, NEW d \in Devices, ReleaseFacade(d)
  PROVE  LifetimeInv'
  <1> USE DEF LifetimeInv
  <1>1. queue' = [queue EXCEPT ![d] = <<>>] /\ done' = [done EXCEPT ![d] = 0]
    BY TypedParts, CollectKept DEF ReleaseFacade, WaitsIdle, Collected, Idle
  <1>2. TypeOK'
    BY <1>1, PartsCount DEF TypeOK, Phases, ReleaseFacade, chosen
  <1>3. ResourceInv'
    BY DEF ResourceInv, ReleaseFacade, WaitsIdle, Collected, Idle, chosen, Exists
  <1>4. BuiltInv'
    BY DEF BuiltInv, ReleaseFacade, WaitsIdle, Collected, Idle, chosen
  <1>5. FrameInv'
    BY DEF FrameInv, ReleaseFacade, WaitsIdle, Collected, Idle, chosen
  <1>6. AddressInv'
    BY DEF AddressInv, ReleaseFacade, WaitsIdle, Collected, Idle, chosen
  <1>7. QuietInv'
    BY <1>1 DEF QuietInv, TypeOK, ReleaseFacade
  <1>8. ForeignNeverRecorded'
    <2>1. \A e \in Devices : KeptBy(queue'[e]) \subseteq KeptBy(queue[e]) \cup frame[e].uses
      BY <1>1, TypedParts, NothingKept
    <2>2. \A e \in Devices : frame'[e].uses \subseteq frame[e].uses
      BY TypedParts DEF ReleaseFacade, Closed
    <2> QED
      BY <2>1, <2>2, LetsGo DEF ReleaseFacade
  <1> QED
    BY <1>2, <1>3, <1>4, <1>5, <1>6, <1>7, <1>8

LEMMA SubmitFrameStep ==
  ASSUME LifetimeInv, NEW d \in Devices, SubmitFrame(d)
  PROVE  LifetimeInv'
  <1> USE DEF LifetimeInv
  <1> DEFINE jobs == Append(queue[d], frame[d].uses)
  <1>1. /\ jobs \in Seq(SUBSET Resources)
        /\ SubSeq(jobs, done[d] + 1, Len(jobs)) \in Seq(SUBSET Resources)
        /\ KeptBy(SubSeq(jobs, done[d] + 1, Len(jobs))) \subseteq KeptBy(queue[d]) \cup frame[d].uses
    <2>1. jobs \in Seq(SUBSET Resources) /\ KeptBy(jobs) = KeptBy(queue[d]) \cup frame[d].uses
      BY TypedParts, AppendKept
    <2> HIDE DEF jobs
    <2> QED BY <2>1, TypedParts, CollectKept
  <1>2. TypeOK'
    BY <1>1, PartsCount DEF TypeOK, Phases, SubmitFrame, Collected, Closed, parts, chosen
  <1>3. FrameInv'
    BY DEF FrameInv, SubmitFrame, Closed, Collected, parts, chosen
  <1>4. QuietInv'
    BY TypedParts DEF QuietInv, FrameInv, SubmitFrame, Collected, parts
  <1>5. ForeignNeverRecorded'
    <2>1. \A e \in Devices : KeptBy(queue'[e]) \subseteq KeptBy(queue[e]) \cup frame[e].uses
      BY <1>1, TypedParts DEF SubmitFrame, Collected
    <2>2. \A e \in Devices : frame'[e].uses \subseteq frame[e].uses
      BY TypedParts DEF SubmitFrame, Closed
    <2> QED
      BY <2>1, <2>2, LetsGo DEF SubmitFrame
  <1>6. ResourceInv' /\ BuiltInv' /\ AddressInv'
    BY DEF ResourceInv, BuiltInv, AddressInv, SubmitFrame, Closed, Collected, parts, chosen, Exists
  <1> QED
    BY <1>2, <1>3, <1>4, <1>5, <1>6

LEMMA AbandonFailsStep ==
  ASSUME LifetimeInv, NEW d \in Devices, AbandonFails(d)
  PROVE  LifetimeInv'
  <1> USE DEF LifetimeInv
  <1>1. /\ Append(queue[d], frame[d].uses) \in Seq(SUBSET Resources)
        /\ KeptBy(Append(queue[d], frame[d].uses)) \subseteq KeptBy(queue[d]) \cup frame[d].uses
    BY TypedParts, AppendKept
  <1>2. TypeOK'
    BY <1>1, PartsCount DEF TypeOK, Phases, AbandonFails, Submitted, Closed, parts, chosen
  <1>3. FrameInv'
    BY DEF FrameInv, AbandonFails, Closed, Submitted, parts, chosen
  <1>4. QuietInv'
    BY TypedParts DEF QuietInv, FrameInv, AbandonFails, Submitted, parts
  <1>5. ForeignNeverRecorded'
    <2>1. \A e \in Devices : KeptBy(queue'[e]) \subseteq KeptBy(queue[e]) \cup frame[e].uses
      BY <1>1, TypedParts DEF AbandonFails, Submitted
    <2>2. \A e \in Devices : frame'[e].uses \subseteq frame[e].uses
      BY TypedParts DEF AbandonFails, Closed
    <2> QED
      BY <2>1, <2>2, LetsGo DEF AbandonFails
  <1>6. ResourceInv' /\ BuiltInv' /\ AddressInv'
    BY DEF ResourceInv, BuiltInv, AddressInv, AbandonFails, Closed, Submitted, parts, chosen, Exists
  <1> QED
    BY <1>2, <1>3, <1>4, <1>5, <1>6

LEMMA CreateStep ==
  ASSUME LifetimeInv, NEW d \in Devices, NEW r \in Resources, NEW request, CreateResource(d, r, request)
  PROVE  LifetimeInv'
  <1> USE DEF LifetimeInv
  <1>1. /\ Append(queue[d], {r}) \in Seq(SUBSET Resources)
        /\ KeptBy(Append(queue[d], {r})) = KeptBy(queue[d]) \cup {r}
    BY TypedParts, AppendKept
  <1>2. TypeOK'
    BY <1>1, PartsCount DEF TypeOK, Phases, CreateResource, Submitted, parts
  <1>3. ResourceInv'
    BY RenderAssumption DEF ResourceInv, Exists, TypeOK, CreateResource, parts
  <1>4. QuietInv'
    BY DEF QuietInv, CreateResource, Submitted, parts
  <1>5. ForeignNeverRecorded'
    <2>1. \A e \in Devices : KeptBy(queue'[e]) \subseteq KeptBy(queue[e]) \cup {x \in {r} : e = d}
      BY <1>1, TypedParts DEF CreateResource, Submitted
    <2>2. \A e \in Devices : r \notin frame[e].uses \cup KeptBy(queue[e])
      BY DEF CreateResource, Native, Uses, KeptBy
    <2>3. frame' = frame /\ device_of' = [device_of EXCEPT ![r] = d]
      BY DEF CreateResource
    <2> QED
      BY <2>1, <2>2, <2>3 DEF ForeignNeverRecorded, Uses, KeptBy, TypeOK
  <1>6. BuiltInv' /\ FrameInv' /\ AddressInv'
    BY DEF BuiltInv, FrameInv, AddressInv, CreateResource, Submitted, parts
  <1> QED
    BY <1>2, <1>3, <1>4, <1>5, <1>6


LEMMA StutterStep == LifetimeInv /\ UNCHANGED vars => LifetimeInv'
  BY DEF LifetimeInv, TypeOK, ResourceInv, Exists, BuiltInv, FrameInv, AddressInv, QuietInv,
         ForeignNeverRecorded, Uses, vars, parts, chosen, gpu

-----------------------------------------------------------------------------
LEMMA InitLifetimeInv == Init => LifetimeInv
  <1> SUFFICES ASSUME Init PROVE LifetimeInv
    OBVIOUS
  <1>1. TypeOK
    <2>1. Closed \in [open : BOOLEAN, uses : SUBSET Resources]
      BY DEF Closed
    <2>2. phase \in [Devices -> Phases] /\ built \in [Devices -> 0 .. Len(Parts)]
      BY PartsCount DEF Init, Phases
    <2>3. queue \in [Devices -> Seq(SUBSET Resources)]
      BY DEF Init
    <2> QED
      BY <2>1, <2>2, <2>3 DEF Init, TypeOK
  <1>2. ResourceInv
    BY DEF Init, ResourceInv, Exists
  <1>3. BuiltInv /\ FrameInv /\ AddressInv /\ QuietInv
    BY DEF Init, BuiltInv, FrameInv, AddressInv, QuietInv, Closed
  <1>4. ForeignNeverRecorded
    BY NothingKept DEF Init, ForeignNeverRecorded, Uses, KeptBy, Closed
  <1> QED
    BY <1>1, <1>2, <1>3, <1>4 DEF LifetimeInv

LEMMA NextLifetimeInv == LifetimeInv /\ [Next]_vars => LifetimeInv'
  <1> SUFFICES ASSUME LifetimeInv, [Next]_vars PROVE LifetimeInv'
    OBVIOUS
  <1>1. CASE \E d \in Devices :
               \/ Construct(d) \/ ConstructionFails(d)
               \/ BuildSurfaceSource(d) \/ BuildContext(d) \/ BuildSurface(d)
               \/ BuildDevice(d) \/ BuildNvrhiDevice(d) \/ BuildFrameManager(d)
    BY <1>1, BuildsStep, ConstructStep, ConstructionFailsStep
       DEF BuildSurfaceSource, BuildContext, BuildSurface, BuildDevice, BuildNvrhiDevice,
           BuildFrameManager
  <1>2. CASE \E d \in Devices :
               \/ Finish(d) \/ WaitIdle(d)
               \/ OpenFrame(d) \/ SubmitFrame(d) \/ AbandonFrame(d) \/ AbandonFails(d)
    BY <1>2, FinishStep, WaitIdleStep, OpenFrameStep, SubmitFrameStep, AbandonStep, AbandonFailsStep
  <1>3. CASE \E d \in Devices :
               ReleaseFacade(d) \/ ReleaseThrows(d) \/ DropImpl(d) \/ Unwind(d) \/ Free(d)
    BY <1>3, ReleaseFacadeStep, ThrowsStep, DropImplStep, UnwindStep, FreeStep
  <1>4. CASE \E d \in Devices, r \in Resources :
               RecordUse(d, r) \/ \E request \in Requests : CreateResource(d, r, request)
    BY <1>4, RecordUseStep, CreateStep
  <1>5. CASE \E r \in Resources : DestroyResource(r) \/ EndDestroy(r)
    BY <1>5, DestroyStep, EndDestroyStep
  <1>6. CASE UNCHANGED vars
    BY <1>6, StutterStep
  <1> QED
    BY <1>1, <1>2, <1>3, <1>4, <1>5, <1>6 DEF Next

-----------------------------------------------------------------------------
(* What is selected, for all machines that keep Vulkan's promises. *)

LEMMA LeastExists ==
  ASSUME NEW S \in SUBSET Nat, S # {}
  PROVE  \E n \in S : \A m \in S : n <= m
  <1>1. \E x \in S : \A y \in S : ~(<<y, x>> \in OpToRel(<, Nat))
    BY NatLessThanWellFounded, WFMin
  <1>2. \A x, y \in Nat : y < x => <<y, x>> \in OpToRel(<, Nat)
    BY DEF OpToRel
  <1> HIDE DEF OpToRel
  <1>3. PICK x \in S : \A y \in S : ~(y < x)
    BY <1>1, <1>2
  <1> QED
    BY <1>3

LEMMA LeastOfIn ==
  ASSUME NEW S \in SUBSET (Nat \ {0})
  PROVE  /\ S # {} => LeastOf(S) \in S
         /\ LeastOf(S) # None <=> S # {}
  <1>1. CASE S = {}
    BY <1>1 DEF LeastOf
  <1>2. CASE S # {}
    <2>1. \E n \in S : \A m \in S : n <= m
      BY <1>2, LeastExists
    <2>2. LeastOf(S) = CHOOSE n \in S : \A m \in S : n <= m
      BY <1>2 DEF LeastOf
    <2>3. LeastOf(S) \in S
      BY <2>1, <2>2
    <2> QED
      BY <2>3 DEF None
  <1> QED
    BY <1>1, <1>2

LEMMA ScoreIsNumber ==
  ASSUME NEW g, GpuPromised(g)
  PROVE  DeviceScore(g) \in Int
  <1>1. g.max_image \in Nat
    BY Zenon DEF GpuPromised
  <1> DEFINE bonus == IF g.discrete THEN 1000000 ELSE 0
  <1>2. bonus \in Nat
    BY SMT
  <1>3. DeviceScore(g) = IF Suitable(g) THEN g.max_image + bonus ELSE 0
    BY SMT DEF DeviceScore
  <1> HIDE DEF bonus
  <1> QED
    BY <1>1, <1>2, <1>3

\* The families of a suitable GPU do what they are for.
LEMMA FamiliesWork ==
  ASSUME NEW g, GpuPromised(g), Suitable(g)
  PROVE  LET families == FindQueueFamilies(g)
         IN  g.families[families.graphics].graphics /\ g.families[families.present].present
  <1>1. /\ Graphics(g) \in SUBSET (Nat \ {0}) /\ Present(g) \in SUBSET (Nat \ {0})
        /\ Graphics(g) \cap Present(g) \in SUBSET (Nat \ {0})
    BY DEF GpuPromised, Graphics, Present, Usable
  <1>2. FindQueueFamilies(g).graphics # None /\ FindQueueFamilies(g).present # None
    BY DEF Suitable
  <1>3. CASE Graphics(g) \cap Present(g) # {}
    <2>1. LeastOf(Graphics(g) \cap Present(g)) \in Graphics(g) \cap Present(g)
      BY <1>1, <1>3, LeastOfIn
    <2> QED
      BY <1>3, <2>1 DEF FindQueueFamilies, Graphics, Present
  <1>4. CASE Graphics(g) \cap Present(g) = {}
    <2>1. FindQueueFamilies(g) = [graphics |-> LeastOf(Graphics(g)), present |-> LeastOf(Present(g))]
      BY <1>4 DEF FindQueueFamilies
    <2>2. LeastOf(Graphics(g)) \in Graphics(g) /\ LeastOf(Present(g)) \in Present(g)
      BY <1>1, <1>2, <2>1, LeastOfIn
    <2> QED
      BY <2>1, <2>2 DEF Graphics, Present
  <1> QED
    BY <1>3, <1>4

LEMMA BestSelected ==
  ASSUME NEW gpus, DOMAIN gpus = 1 .. Len(gpus), Len(gpus) \in Nat,
         SelectDevice(gpus) # None
  PROVE  /\ SelectDevice(gpus) \in DOMAIN gpus
         /\ Suitable(gpus[SelectDevice(gpus)])
         /\ \A j \in DOMAIN gpus : DeviceScore(gpus[SelectDevice(gpus)]) >= DeviceScore(gpus[j])
  <1> DEFINE S == {i \in DOMAIN gpus : /\ DeviceScore(gpus[i]) > 0
                                       /\ \A j \in DOMAIN gpus : DeviceScore(gpus[i]) >= DeviceScore(gpus[j])}
  <1>1. SelectDevice(gpus) = LeastOf(S)
    BY DEF SelectDevice
  <1>2. S \in SUBSET (Nat \ {0})
    OBVIOUS
  <1>3. SelectDevice(gpus) \in S
    BY <1>1, <1>2, LeastOfIn
  <1>4. \A g : DeviceScore(g) > 0 => Suitable(g)
    BY DEF DeviceScore
  <1> QED
    BY <1>3, <1>4

LEMMA FormatOffered ==
  ASSUME NEW g, GpuPromised(g), Suitable(g)
  PROVE  LET choice == ChooseSurfaceFormat(g)
         IN  /\ Offers(g.formats, choice.surface)
             /\ choice.mutable => "swapchain_mutable_format" \in DeviceExtensions(g)
             /\ choice.view \in {"R8G8B8A8Srgb", "B8G8R8A8Srgb"} \/ choice.view = g.formats[1]
  <1>1. MutablePairs(g) \in SUBSET (Nat \ {0}) /\ SrgbPairs(g) \in SUBSET (Nat \ {0})
    BY DEF MutablePairs, SrgbPairs, PreferredUnorm
  <1>2. \A i \in DOMAIN PreferredUnorm : Srgb[PreferredUnorm[i]] \in {"R8G8B8A8Srgb", "B8G8R8A8Srgb"}
    BY DEF PreferredUnorm, Srgb
  <1>3. CASE MutablePairs(g) # {}
    <2> DEFINE i == LeastOf(MutablePairs(g))
    <2>1. i \in MutablePairs(g)
      BY <1>1, <1>3, LeastOfIn
    <2>2. ChooseSurfaceFormat(g) = [surface |-> PreferredUnorm[i], view |-> Srgb[PreferredUnorm[i]],
                                    mutable |-> TRUE]
      BY <1>3 DEF ChooseSurfaceFormat
    <2>3. /\ i \in DOMAIN PreferredUnorm /\ Offers(g.formats, PreferredUnorm[i])
          /\ "swapchain_mutable_format" \in DeviceExtensions(g)
      BY <2>1 DEF MutablePairs, DeviceExtensions
    <2> QED
      BY <1>2, <2>2, <2>3
  <1>4. CASE MutablePairs(g) = {} /\ SrgbPairs(g) # {}
    <2> DEFINE i == LeastOf(SrgbPairs(g))
    <2>1. i \in SrgbPairs(g)
      BY <1>1, <1>4, LeastOfIn
    <2>2. ChooseSurfaceFormat(g) = [surface |-> Srgb[PreferredUnorm[i]], view |-> Srgb[PreferredUnorm[i]],
                                    mutable |-> FALSE]
      BY <1>4 DEF ChooseSurfaceFormat
    <2>3. i \in DOMAIN PreferredUnorm /\ Offers(g.formats, Srgb[PreferredUnorm[i]])
      BY <2>1 DEF SrgbPairs
    <2> QED
      BY <1>2, <2>2, <2>3
  <1>5. CASE MutablePairs(g) = {} /\ SrgbPairs(g) = {}
    <2>1. ChooseSurfaceFormat(g) = [surface |-> g.formats[1], view |-> g.formats[1], mutable |-> FALSE]
      BY <1>5 DEF ChooseSurfaceFormat
    <2>2. 1 \in DOMAIN g.formats
      BY DEF GpuPromised, Suitable
    <2> QED
      BY <2>1, <2>2 DEF Offers
  <1> QED
    BY <1>3, <1>4, <1>5

LEMMA SurfaceKept ==
  ASSUME NEW surface, SurfacePromised(surface), CanCreateSwapchain(surface), NEW framebuffer \in Nat
  PROVE  /\ ImageCount(surface) >= surface.min_images
         /\ surface.max_images # 0 => ImageCount(surface) <= surface.max_images
         /\ ChooseExtent(surface, framebuffer) \in surface.min .. surface.max
         /\ ChooseCompositeAlpha(surface) \in surface.alpha
  <1>1. ImageCount(surface) >= surface.min_images
        /\ (surface.max_images # 0 => ImageCount(surface) <= surface.max_images)
    BY DEF SurfacePromised, ImageCount
  <1>2. ChooseExtent(surface, framebuffer) \in surface.min .. surface.max
    BY DEF SurfacePromised, ChooseExtent, Clamp
  <1>3. ChooseCompositeAlpha(surface) \in surface.alpha
    <2> DEFINE S == {i \in DOMAIN AlphaChoices : AlphaChoices[i] \in surface.alpha}
    <2>1. S \in SUBSET (Nat \ {0})
      BY DEF AlphaChoices
    <2>2. S # {}
      <3>1. PICK a \in surface.alpha : a \in {"opaque", "pre_multiplied", "post_multiplied", "inherit"}
        BY DEF SurfacePromised, CanCreateSwapchain
      <3>2. \E i \in DOMAIN AlphaChoices : AlphaChoices[i] = a
        <4>1. /\ DOMAIN AlphaChoices = 1 .. 4
              /\ AlphaChoices[1] = "opaque" /\ AlphaChoices[2] = "pre_multiplied"
              /\ AlphaChoices[3] = "post_multiplied" /\ AlphaChoices[4] = "inherit"
          BY DEF AlphaChoices
        <4> QED
          BY <3>1, <4>1
      <3> QED
        BY <3>1, <3>2
    <2>3. LeastOf(S) \in S
      BY <2>1, <2>2, LeastOfIn
    <2> QED
      BY <2>3 DEF ChooseCompositeAlpha
  <1> QED
    BY <1>1, <1>2, <1>3

LEMMA ModeOffered ==
  ASSUME NEW modes, NEW vsync
  PROVE  ChoosePresentMode(modes, vsync) \in modes \cup {"fifo"}
  BY DEF ChoosePresentMode

-----------------------------------------------------------------------------
\* A step that chooses nothing.
LEMMA ChoiceStays ==
  ASSUME ChoiceInv, UNCHANGED chosen,
         \A d \in Devices : phase'[d] = "none" => built'[d] = 0,
         \A d \in Devices : phase'[d] = "constructing" /\ built'[d] >= 4
                              => phase[d] = "constructing" /\ built[d] >= 4
  PROVE  ChoiceInv'
  BY DEF ChoiceInv, chosen

LEMMA BuildsChoice ==
  ASSUME TypeOK, ChoiceInv, NEW d \in Devices,
         \/ BuildSurfaceSource(d) \/ BuildContext(d) \/ BuildSurface(d)
         \/ BuildDevice(d) \/ BuildNvrhiDevice(d) \/ BuildFrameManager(d)
  PROVE  ChoiceInv'
  <1> DEFINE part == Parts[built[d] + 1]
  <1>1. /\ Builds(d, part) /\ built[d] \in 0 .. 5
        /\ part = "device" <=> built[d] = 3
        /\ part = "frame_manager" <=> built[d] = 5
    <2>1. Len(Parts) = 6
      BY DEF Parts
    <2>2. Builds(d, part) /\ built[d] < 6
      BY <2>1 DEF BuildSurfaceSource, BuildContext, BuildSurface, BuildDevice, BuildNvrhiDevice,
                  BuildFrameManager, Builds
    <2>3. built[d] \in 0 .. 5
      BY <2>1, <2>2 DEF TypeOK
    <2>4. \A i \in 0 .. 5 : (Parts[i + 1] = "device" <=> i = 3) /\ (Parts[i + 1] = "frame_manager" <=> i = 5)
      BY DEF Parts
    <2> QED
      BY <2>2, <2>3, <2>4
  <1>2. /\ phase[d] = "constructing" /\ machine' = machine
        /\ built' = [built EXCEPT ![d] = @ + 1]
        /\ \A e \in Devices : phase'[e] = "none" => phase[e] = "none"
        /\ \A e \in Devices : phase'[e] = "constructing" => phase[e] = "constructing"
        /\ \A e \in Devices : e # d => phase'[e] = phase[e] /\ built'[e] = built[e]
        /\ built'[d] = built[d] + 1 /\ phase'[d] # "none"
    BY <1>1 DEF Builds, TypeOK
  <1>3. CASE BuildDevice(d)
    <2>1. /\ selected' = [selected EXCEPT ![d] = SelectDevice(machine.gpus)] /\ swapchain' = swapchain
          /\ SelectDevice(machine.gpus) # None
      BY <1>3 DEF BuildDevice
    <2>2. \A e \in Devices : selected[e] # None => selected'[e] = selected[e]
      BY <2>1 DEF ChoiceInv
    <2>3. selected' \in [Devices -> {None, SelectDevice(machine.gpus)}] /\ selected'[d] # None
      BY <2>1 DEF ChoiceInv
    <2> QED
      BY <1>2, <2>1, <2>2, <2>3 DEF ChoiceInv
  <1>4. CASE BuildFrameManager(d)
    <2> DEFINE choice == Swapchain(machine.gpus[selected[d]], machine.surface, machine.framebuffer, machine.vsync)
    <2>1. built[d] = 5
      BY <1>1, <1>4 DEF BuildFrameManager, Builds
    <2>2. selected[d] # None
      BY <1>2, <2>1 DEF ChoiceInv
    <2>3. /\ selected' = selected
          /\ \/ swapchain' = swapchain
             \/ CanCreateSwapchain(machine.surface) /\ swapchain' = [swapchain EXCEPT ![d] = choice]
      BY <1>4 DEF BuildFrameManager
    <2> HIDE DEF choice
    <2>4. DOMAIN swapchain' = Devices
      BY <2>3 DEF ChoiceInv
    <2>5. \A e \in Devices : \/ swapchain'[e] = swapchain[e]
                             \/ e = d /\ swapchain'[e] = choice /\ CanCreateSwapchain(machine.surface)
      BY <2>3 DEF ChoiceInv
    <2>6. \A e \in Devices : swapchain'[e] # NoChoice =>
            /\ selected'[e] # None /\ CanCreateSwapchain(machine.surface)
            /\ swapchain'[e] = Swapchain(machine.gpus[selected'[e]], machine.surface,
                                         machine.framebuffer, machine.vsync)
      BY <2>2, <2>3, <2>5 DEF ChoiceInv, choice
    <2>7. \A e \in Devices : /\ phase'[e] = "none" => built'[e] = 0
                             /\ phase'[e] = "constructing" /\ built'[e] >= 4 => selected'[e] # None
      BY <1>2, <2>2, <2>3 DEF ChoiceInv
    <2> QED
      BY <1>2, <2>3, <2>4, <2>6, <2>7 DEF ChoiceInv
  <1>5. CASE BuildSurfaceSource(d) \/ BuildContext(d) \/ BuildSurface(d) \/ BuildNvrhiDevice(d)
    <2>1. UNCHANGED chosen
      BY <1>2, <1>5 DEF BuildSurfaceSource, BuildContext, BuildSurface, BuildNvrhiDevice, Builds, chosen
    <2>2. part # "device"
      BY <1>5 DEF BuildSurfaceSource, BuildContext, BuildSurface, BuildNvrhiDevice, Builds
    <2>3. built[d] # 3
      BY <1>1, <2>2
    <2> QED
      BY <1>1, <1>2, <2>1, <2>3, ChoiceStays DEF ChoiceInv
  <1> QED
    BY <1>3, <1>4, <1>5

LEMMA FreeChoice ==
  ASSUME TypeOK, ChoiceInv, NEW d \in Devices, Free(d)
  PROVE  ChoiceInv'
  <1>1. /\ selected' = [selected EXCEPT ![d] = None] /\ swapchain' = [swapchain EXCEPT ![d] = NoChoice]
        /\ machine' = machine /\ built' = built /\ built[d] = 0 /\ phase' = [phase EXCEPT ![d] = "none"]
    BY DEF Free
  <1> HIDE DEF NoChoice
  <1>2. \A e \in Devices : e # d => selected'[e] = selected[e] /\ swapchain'[e] = swapchain[e]
                                      /\ phase'[e] = phase[e]
    BY <1>1 DEF ChoiceInv, TypeOK
  <1>3. swapchain'[d] = NoChoice /\ phase'[d] = "none" /\ DOMAIN swapchain' = Devices
        /\ selected' \in [Devices -> {None, SelectDevice(machine.gpus)}]
    BY <1>1 DEF ChoiceInv, TypeOK
  <1> QED
    BY <1>1, <1>2, <1>3 DEF ChoiceInv

LEMMA NextChoice == TypeOK /\ ChoiceInv /\ [Next]_vars => ChoiceInv'
  <1> SUFFICES ASSUME TypeOK, ChoiceInv, [Next]_vars PROVE ChoiceInv'
    OBVIOUS
  <1>1. CASE \E d \in Devices : \/ BuildSurfaceSource(d) \/ BuildContext(d) \/ BuildSurface(d)
                                \/ BuildDevice(d) \/ BuildNvrhiDevice(d) \/ BuildFrameManager(d)
    BY <1>1, BuildsChoice
  <1>2. CASE \E d \in Devices : Free(d)
    BY <1>2, FreeChoice
  <1>3. CASE \E d \in Devices : Construct(d) \/ ConstructionFails(d)
                                \/ ReleaseFacade(d) \/ DropImpl(d) \/ Unwind(d)
    <2>1. PICK d \in Devices : \/ Construct(d) \/ ConstructionFails(d)
                               \/ ReleaseFacade(d) \/ DropImpl(d) \/ Unwind(d)
      BY <1>3
    <2>2. UNCHANGED chosen
      BY <2>1 DEF Construct, ConstructionFails, ReleaseFacade, DropImpl, Unwind
    <2>3. /\ \A e \in Devices : phase'[e] = "none" => phase[e] = "none" /\ built'[e] = built[e]
          /\ \A e \in Devices : phase'[e] = "constructing" =>
               phase[e] \in {"none", "constructing"} /\ built'[e] = built[e]
      BY <2>1 DEF Construct, ConstructionFails, ReleaseFacade, DropImpl, Unwind, TypeOK, Unreferenced
    <2> QED
      BY <2>2, <2>3, ChoiceStays DEF ChoiceInv
  <1>4. CASE \/ \E d \in Devices :
                  \/ Finish(d) \/ WaitIdle(d)
                  \/ OpenFrame(d) \/ SubmitFrame(d) \/ AbandonFrame(d) \/ AbandonFails(d)
                  \/ ReleaseThrows(d)
                  \/ \E r \in Resources :
                       RecordUse(d, r) \/ \E request \in Requests : CreateResource(d, r, request)
             \/ \E r \in Resources : DestroyResource(r) \/ EndDestroy(r)
             \/ UNCHANGED vars
    <2>1. UNCHANGED <<machine, selected, swapchain, phase, built>>
      BY <1>4 DEF Finish, WaitIdle, OpenFrame, SubmitFrame, AbandonFrame, AbandonFails, ReleaseThrows,
                  RecordUse, CreateResource, DestroyResource, EndDestroy, vars, chosen, parts
    <2> QED
      BY <2>1 DEF ChoiceInv
  <1> QED
    BY <1>1, <1>2, <1>3, <1>4 DEF Next

LEMMA InitChoice == Init => ChoiceInv
  BY DEF Init, ChoiceInv

LEMMA ChosenUsable ==
  ASSUME TypeOK, ChoiceInv
  PROVE  SelectionUsable
  <1> SUFFICES ASSUME NEW d \in Devices, selected[d] # None
               PROVE  LET g        == machine.gpus[selected[d]]
                          families == FindQueueFamilies(g)
                      IN  /\ g.families[families.graphics].graphics /\ g.families[families.present].present
                          /\ \A i \in DOMAIN machine.gpus : DeviceScore(machine.gpus[i]) <= DeviceScore(g)
                          /\ swapchain[d] # NoChoice =>
                               /\ Offers(g.formats, swapchain[d].format.surface)
                               /\ swapchain[d].format.mutable => "swapchain_mutable_format" \in DeviceExtensions(g)
                               /\ swapchain[d].format.view \in {"R8G8B8A8Srgb", "B8G8R8A8Srgb"} \/
                                  swapchain[d].format.view = g.formats[1]
                               /\ swapchain[d].mode \in g.modes \cup {"fifo"}
                               /\ swapchain[d].images >= machine.surface.min_images
                               /\ machine.surface.max_images # 0 => swapchain[d].images <= machine.surface.max_images
                               /\ swapchain[d].extent \in machine.surface.min .. machine.surface.max
                               /\ swapchain[d].alpha \in machine.surface.alpha
                               /\ families.graphics # families.present => swapchain[d].sharing = "concurrent"
    BY DEF SelectionUsable
  <1> DEFINE g == machine.gpus[selected[d]]
             s == machine.surface
             families == FindQueueFamilies(g)
  <1>1. /\ DOMAIN machine.gpus = 1 .. Len(machine.gpus) /\ Len(machine.gpus) \in Nat
        /\ \A i \in DOMAIN machine.gpus : GpuPromised(machine.gpus[i])
        /\ SurfacePromised(s) /\ machine.framebuffer \in Nat
    BY MachineAssumption DEF TypeOK
  <1>2. selected[d] = SelectDevice(machine.gpus)
    BY DEF ChoiceInv
  <1>3. /\ selected[d] \in DOMAIN machine.gpus /\ Suitable(g)
        /\ \A i \in DOMAIN machine.gpus : DeviceScore(g) >= DeviceScore(machine.gpus[i])
    <2> DEFINE gpus == machine.gpus
               best == SelectDevice(gpus)
    <2>1. best # None /\ selected[d] = best
      BY <1>2
    <2>2. DOMAIN gpus = 1 .. Len(gpus) /\ Len(gpus) \in Nat
      BY <1>1
    <2> HIDE DEF gpus
    <2>3. best \in DOMAIN gpus
      BY <2>1, <2>2, BestSelected
    <2>4. Suitable(gpus[best])
      BY <2>1, <2>2, BestSelected
    <2>5. \A i \in DOMAIN gpus : DeviceScore(gpus[best]) >= DeviceScore(gpus[i])
      BY <2>1, <2>2, BestSelected
    <2> QED
      BY <2>1, <2>3, <2>4, <2>5 DEF gpus
  <1>4. GpuPromised(g)
    BY <1>1, <1>3
  <1>5. g.families[families.graphics].graphics /\ g.families[families.present].present
    <2>1. Suitable(g) /\ GpuPromised(g)
      BY <1>3, <1>4
    <2> HIDE DEF g
    <2>2. LET f == FindQueueFamilies(g) IN g.families[f.graphics].graphics /\ g.families[f.present].present
      BY <2>1, FamiliesWork
    <2> QED
      BY <2>2
  <1>6. \A i \in DOMAIN machine.gpus : DeviceScore(machine.gpus[i]) \in Int
    BY <1>1, ScoreIsNumber
  <1>7. \A i \in DOMAIN machine.gpus : DeviceScore(machine.gpus[i]) <= DeviceScore(g)
    BY <1>3, <1>6
  <1>8. ASSUME swapchain[d] # NoChoice
        PROVE  /\ Offers(g.formats, swapchain[d].format.surface)
               /\ swapchain[d].format.mutable => "swapchain_mutable_format" \in DeviceExtensions(g)
               /\ swapchain[d].format.view \in {"R8G8B8A8Srgb", "B8G8R8A8Srgb"} \/
                  swapchain[d].format.view = g.formats[1]
               /\ swapchain[d].mode \in g.modes \cup {"fifo"}
               /\ swapchain[d].images >= s.min_images
               /\ s.max_images # 0 => swapchain[d].images <= s.max_images
               /\ swapchain[d].extent \in s.min .. s.max
               /\ swapchain[d].alpha \in s.alpha
               /\ families.graphics # families.present => swapchain[d].sharing = "concurrent"
    <2>1. CanCreateSwapchain(s) /\ swapchain[d] = Swapchain(g, s, machine.framebuffer, machine.vsync)
      BY <1>8 DEF ChoiceInv
    <2>2. /\ swapchain[d].format = ChooseSurfaceFormat(g)
          /\ swapchain[d].mode = ChoosePresentMode(g.modes, machine.vsync)
          /\ swapchain[d].extent = ChooseExtent(s, machine.framebuffer)
          /\ swapchain[d].images = ImageCount(s)
          /\ swapchain[d].alpha = ChooseCompositeAlpha(s)
          /\ families.graphics # families.present => swapchain[d].sharing = "concurrent"
      BY <2>1 DEF Swapchain
    <2> HIDE DEF g, s, families
    <2>3. /\ Offers(g.formats, swapchain[d].format.surface)
          /\ swapchain[d].format.mutable => "swapchain_mutable_format" \in DeviceExtensions(g)
          /\ swapchain[d].format.view \in {"R8G8B8A8Srgb", "B8G8R8A8Srgb"} \/
             swapchain[d].format.view = g.formats[1]
      BY <1>3, <1>4, <2>2, FormatOffered
    <2>4. swapchain[d].mode \in g.modes \cup {"fifo"}
      BY <2>2, ModeOffered
    <2>5. /\ swapchain[d].images >= s.min_images
          /\ s.max_images # 0 => swapchain[d].images <= s.max_images
          /\ swapchain[d].extent \in s.min .. s.max
          /\ swapchain[d].alpha \in s.alpha
      BY <1>1, <2>1, <2>2, SurfaceKept
    <2> QED
      BY <2>2, <2>3, <2>4, <2>5
  <1> HIDE DEF g, s, families
  <1> QED
    BY <1>5, <1>7, <1>8 DEF g, s, families

-----------------------------------------------------------------------------
(* Buffers are full, whatever the layout and the width of an integer. *)

LEMMA NoWrap ==
  ASSUME NEW n \in Nat, NEW w \in Nat \ {0}, n < w
  PROVE  n % w = n
  OBVIOUS

LEMMA RowsFit ==
  ASSUME NEW stride \in Nat, NEW count \in Nat, NEW v \in 0 .. count - 1, NEW used \in 0 .. stride
  PROVE  v * stride + used <= stride * count
  <1>1. v * stride + stride = (v + 1) * stride
    OBVIOUS
  <1>2. (v + 1) * stride <= count * stride
    OBVIOUS
  <1>3. v * stride \in Nat
    OBVIOUS
  <1> QED
    BY <1>1, <1>2, <1>3

LEMMA VerticesFit ==
  ASSUME NEW request, request.stride \in Nat, request.count \in Nat, request.data \in Nat,
         \A i \in DOMAIN request.attributes :
           request.attributes[i].offset \in Nat /\ request.attributes[i].floats \in Nat,
         AcceptsVertices(request)
  PROVE  VerticesCovered(request)
  <1> SUFFICES ASSUME ~Overflows(request),
                      NEW v \in 0 .. request.count - 1, NEW i \in DOMAIN request.attributes
               PROVE  v * request.stride + request.attributes[i].offset
                        + AttributeSize(request.attributes[i]) <= request.data
    BY DEF VerticesCovered
  <1> DEFINE stride == request.stride
             count == request.count
             end == request.attributes[i].offset + AttributeSize(request.attributes[i])
  <1>1. /\ stride \in Nat /\ count \in Nat /\ stride * count \in Nat
        /\ request.attributes[i].offset \in Nat /\ AttributeSize(request.attributes[i]) \in Nat
    BY DEF AttributeSize
  <1>2. end \in Nat /\ end < Word
    BY <1>1, WidthAssumption DEF Overflows
  <1>3. stride * count < Word
    BY <1>1, WidthAssumption DEF Overflows
  <1>4. request.data = (stride * count) % Word /\ end % Word <= stride
    BY DEF AcceptsVertices, ValidLayout
  <1>5. request.data = stride * count
    BY <1>1, <1>3, <1>4, NoWrap, WidthAssumption
  <1>6. end <= stride
    BY <1>2, <1>4, NoWrap, WidthAssumption
  <1> HIDE DEF stride, count, end
  <1>7. v * stride + end <= stride * count
    BY <1>1, <1>2, <1>6, RowsFit DEF count
  <1>8. v * stride + end = v * request.stride + request.attributes[i].offset
                             + AttributeSize(request.attributes[i])
    BY <1>1 DEF stride, end
  <1> QED
    BY <1>5, <1>7, <1>8

LEMMA BuffersFit ==
  ASSUME NEW request \in Requests, request.kind \in {"vertex", "index"}, Accepts(request), NEW commands
  PROVE  Covered(request, commands)
  <1>1. CASE request.kind = "vertex"
    <2>1. AcceptsVertices(request)
      BY <1>1 DEF Accepts
    <2>2. VerticesCovered(request)
      BY <1>1, <2>1, VerticesFit, RequestAssumption
    <2> QED
      BY <1>1, <2>2 DEF Covered
  <1>2. CASE request.kind = "index"
    <2>1. request.data = request.bytes * request.count
      BY <1>2 DEF Accepts, AcceptsIndices
    <2>2. request.data \in Nat
      BY <1>2, RequestAssumption
    <2> QED
      BY <1>2, <2>1, <2>2 DEF Covered
  <1> QED
    BY <1>1, <1>2

-----------------------------------------------------------------------------
(* Sequences defined by recursion, and FlattenSeq. *)

\* G gives the n-th value in D from the one before it.
IsFold(G, N, D) == G \in [(1 .. N) \X D -> D]

Run(f, N, D, base, G) ==
  f \in [0 .. N -> D] /\ f[0] = base /\ \A n \in 1 .. N : f[n] = G[<<n, f[n - 1]>>]

LEMMA SequenceRecursion ==
  ASSUME NEW N \in Nat, NEW D, NEW base \in D, NEW G, IsFold(G, N, D)
  PROVE  \E f : Run(f, N, D, base, G)
  <1> DEFINE Solves(f, m) == /\ f \in [0 .. m -> D]
                             /\ f[0] = base
                             /\ \A n \in 1 .. m : f[n] = G[<<n, f[n - 1]>>]
             bad == {m \in 0 .. N : \A f : ~Solves(f, m)}
  <1>0. G \in [(1 .. N) \X D -> D]
    BY DEF IsFold
  <1>1. bad = {}
    <2> SUFFICES ASSUME bad # {}
                 PROVE  FALSE
      OBVIOUS
    <2>1. PICK m \in bad : \A k \in bad : m <= k
      <3>1. bad \in SUBSET Nat
        OBVIOUS
      <3> HIDE DEF bad
      <3> QED
        BY <3>1, LeastExists
    <2>4. m \in 0 .. N /\ \A f : ~Solves(f, m)
      OBVIOUS
    <2>2. CASE m = 0
      <3>1. Solves([n \in 0 .. 0 |-> base], 0)
        OBVIOUS
      <3> QED
        BY <2>1, <2>2, <3>1
    <2>3. CASE m # 0
      <3>1. m - 1 \in 0 .. N /\ m - 1 \notin bad
        <4> HIDE DEF bad
        <4> QED
          BY <2>1, <2>3, <2>4
      <3>2. PICK f : Solves(f, m - 1)
        <4> HIDE DEF Solves
        <4> QED
          BY <3>1
      <3> DEFINE g == [n \in 0 .. m |-> IF n = m THEN G[<<m, f[m - 1]>>] ELSE f[n]]
      <3>3. m \in 1 .. N /\ f[m - 1] \in D
        BY <2>1, <2>3, <3>2
      <3>4. G[<<m, f[m - 1]>>] \in D
        BY <1>0, <3>3
      <3>5. g \in [0 .. m -> D] /\ g[0] = base
        BY <3>2, <3>3, <3>4
      <3>6. ASSUME NEW n \in 1 .. m
            PROVE  g[n] = G[<<n, g[n - 1]>>]
        <4>1. n - 1 \in 0 .. m /\ n - 1 # m /\ n \in 0 .. m
          BY <3>3
        <4>2. g[n - 1] = f[n - 1]
          BY <4>1
        <4>3. CASE n = m
          BY <4>1, <4>2, <4>3
        <4>4. CASE n # m
          <5>1. n \in 1 .. m - 1
            BY <3>3, <4>4
          <5> QED
            BY <3>2, <4>1, <4>2, <4>4, <5>1
        <4> QED
          BY <4>3, <4>4
      <3>7. Solves(g, m)
        BY <3>5, <3>6
      <3> HIDE DEF Solves, g
      <3> QED
        BY <2>4, <3>7
    <2> QED
      BY <2>2, <2>3
  <1>2. PICK f : Solves(f, N)
    <2> HIDE DEF Solves
    <2> QED
      BY <1>1
  <1> QED
    BY <1>2 DEF Run

-----------------------------------------------------------------------------
(* Walks. *)

LEMMA ConcatRange ==
  ASSUME NEW X, NEW s \in Seq(X), NEW t \in Seq(X)
  PROVE  Range(s \o t) = Range(s) \cup Range(t)
  <1> DEFINE c == s \o t
  <1>1. /\ Len(s) \in Nat /\ Len(t) \in Nat /\ DOMAIN c = 1 .. Len(s) + Len(t)
        /\ DOMAIN s = 1 .. Len(s) /\ DOMAIN t = 1 .. Len(t)
        /\ \A i \in 1 .. Len(s) : c[i] = s[i]
        /\ \A i \in 1 .. Len(t) : c[Len(s) + i] = t[i]
    OBVIOUS
  <1> HIDE DEF c
  <1>2. ASSUME NEW i \in DOMAIN c
        PROVE  c[i] \in Range(s) \cup Range(t)
    <2>1. CASE i <= Len(s)
      BY <1>1, <2>1 DEF Range
    <2>2. CASE ~(i <= Len(s))
      <3>1. i - Len(s) \in 1 .. Len(t) /\ Len(s) + (i - Len(s)) = i
        BY <1>1, <2>2
      <3> QED
        BY <1>1, <3>1 DEF Range
    <2> QED
      BY <2>1, <2>2
  <1>3. \A i \in DOMAIN s : s[i] \in Range(c)
    BY <1>1 DEF Range
  <1>4. ASSUME NEW i \in DOMAIN t
        PROVE  t[i] \in Range(c)
    <2>1. Len(s) + i \in DOMAIN c
      BY <1>1
    <2> QED
      BY <1>1, <2>1 DEF Range
  <1> QED
    BY <1>2, <1>3, <1>4 DEF Range, c

LEMMA FlattenSeqRange ==
  ASSUME NEW X, NEW seqs \in Seq(Seq(X))
  PROVE  /\ FlattenSeq(seqs) \in Seq(X)
         /\ Range(FlattenSeq(seqs)) = UNION {Range(seqs[k]) : k \in DOMAIN seqs}
  <1>1. CASE Len(seqs) = 0
    BY <1>1 DEF FlattenSeq, Range
  <1>2. CASE Len(seqs) # 0
    <2> DEFINE N == Len(seqs)
               flat(v) == v = [i \in 1 .. N |-> IF i = 1 THEN seqs[i] ELSE v[i - 1] \o seqs[i]]
               w == CHOOSE v : flat(v)
    <2>1. N \in Nat \ {0} /\ \A i \in 1 .. N : seqs[i] \in Seq(X)
      BY <1>2
    <2>2. \E v \in [1 .. N -> Seq(X)] : flat(v)
      <3> DEFINE M == N - 1
                 G == [x \in (1 .. M) \X Seq(X) |-> x[2] \o seqs[x[1] + 1]]
      <3>1. M \in Nat /\ \A i \in 1 .. M : seqs[i + 1] \in Seq(X)
        BY <2>1
      <3>2. IsFold(G, M, Seq(X))
        <4> HIDE DEF M
        <4>1. \A x \in (1 .. M) \X Seq(X) : x[2] \o seqs[x[1] + 1] \in Seq(X)
          BY <3>1
        <4> QED
          BY <4>1 DEF IsFold
      <3>3. \A n \in 1 .. M, s \in Seq(X) : G[<<n, s>>] = s \o seqs[n + 1]
        <4> HIDE DEF M
        <4> QED
          OBVIOUS
      <3>4. seqs[1] \in Seq(X)
        BY <2>1
      <3> HIDE DEF G
      <3>5. PICK f : Run(f, M, Seq(X), seqs[1], G)
        <4> HIDE DEF M
        <4> QED
          BY <3>1, <3>2, <3>4, SequenceRecursion
      <3> DEFINE v == [i \in 1 .. N |-> f[i - 1]]
      <3>6. f \in [0 .. M -> Seq(X)] /\ f[0] = seqs[1]
        BY <3>5 DEF Run
      <3>7. \A i \in 1 .. N : v[i] \in Seq(X)
        <4>1. \A i \in 1 .. N : i - 1 \in 0 .. M
          BY <2>1
        <4> HIDE DEF N, M
        <4> QED
          BY <3>6, <4>1
      <3>8. ASSUME NEW i \in 1 .. N
            PROVE  v[i] = IF i = 1 THEN seqs[i] ELSE v[i - 1] \o seqs[i]
        <4>1. CASE i = 1
          BY <3>6, <4>1
        <4>2. CASE i # 1
          <5>1. i - 1 \in 1 .. M /\ i - 1 \in 1 .. N /\ (i - 1) + 1 = i
            BY <2>1, <4>2
          <5>2. (i - 1) - 1 \in 0 .. M
            BY <5>1
          <5>3. f[i - 1] = G[<<i - 1, f[(i - 1) - 1]>>]
            BY <3>5, <5>1 DEF Run
          <5>4. f[i - 1] = f[(i - 1) - 1] \o seqs[i]
            BY <3>3, <3>6, <5>1, <5>2, <5>3
          <5>5. v[i] = f[i - 1] /\ v[i - 1] = f[(i - 1) - 1]
            BY <5>1
          <5> HIDE DEF v
          <5> QED
            BY <4>2, <5>4, <5>5
        <4> QED
          BY <4>1, <4>2
      <3>9. v \in [1 .. N -> Seq(X)]
        BY <3>7
      <3> HIDE DEF v, N
      <3>10. flat(v)
        BY <3>8, <3>9
      <3> QED
        BY <3>9, <3>10
    <2>3. flat(w)
      <3> HIDE DEF flat
      <3> QED
        BY <2>2
    <2>4. FlattenSeq(seqs) = w[N]
      BY <1>2 DEF FlattenSeq
    <2> HIDE DEF w, N
    <2>5. \A i \in 1 .. N : w[i] = IF i = 1 THEN seqs[i] ELSE w[i - 1] \o seqs[i]
      BY <2>3
    <2> DEFINE Flat(i) == /\ w[i] \in Seq(X)
                          /\ Range(w[i]) = UNION {Range(seqs[k]) : k \in 1 .. i}
               bad == {i \in 1 .. N : ~Flat(i)}
    <2>6. bad = {}
      <3> SUFFICES ASSUME bad # {}
                   PROVE  FALSE
        OBVIOUS
      <3>1. PICK n \in bad : \A k \in bad : n <= k
        <4>1. bad \in SUBSET Nat
          OBVIOUS
        <4> HIDE DEF bad
        <4> QED
          BY <4>1, LeastExists
      <3>2. n \in 1 .. N /\ ~Flat(n)
        OBVIOUS
      <3>3. n # 1
        <4>1. w[1] = seqs[1] /\ seqs[1] \in Seq(X) /\ 1 .. 1 = {1}
          BY <2>1, <2>5
        <4>2. Flat(1)
          BY <4>1
        <4> HIDE DEF Flat
        <4> QED
          BY <3>2, <4>2
      <3>4. n - 1 \in 1 .. N
        <4> HIDE DEF Flat
        <4> QED
          BY <2>1, <3>2, <3>3
      <3>5. Flat(n - 1)
        <4>1. n - 1 \notin bad
          <5> HIDE DEF bad
          <5> QED
            BY <2>1, <3>1, <3>2, <3>4
        <4> HIDE DEF Flat
        <4> QED
          BY <3>4, <4>1
      <3>6. w[n] = w[n - 1] \o seqs[n] /\ seqs[n] \in Seq(X)
        <4> HIDE DEF Flat
        <4> QED
          BY <2>1, <2>5, <3>2, <3>3
      <3>7. Range(w[n]) = Range(w[n - 1]) \cup Range(seqs[n])
        BY <3>5, <3>6, ConcatRange
      <3>8. 1 .. n = (1 .. n - 1) \cup {n}
        <4> HIDE DEF Flat
        <4> QED
          BY <3>2
      <3>9. w[n] \in Seq(X)
        BY <3>5, <3>6
      <3>10. Range(w[n]) = UNION {Range(seqs[k]) : k \in 1 .. n}
        BY <3>5, <3>7, <3>8, Zenon
      <3> QED
        BY <3>2, <3>9, <3>10
    <2>7. N \in 1 .. N /\ DOMAIN seqs = 1 .. N
      BY <2>1 DEF N
    <2>8. Flat(N)
      <3> HIDE DEF Flat
      <3> QED
        BY <2>6, <2>7
    <2> QED
      BY <2>4, <2>7, <2>8
  <1> QED
    BY <1>1, <1>2

-----------------------------------------------------------------------------
(* Textures and cubes are full, whatever their extents and the width of an  *)
(* integer.                                                                 *)

LEMMA ShiftExists ==
  ASSUME NEW n \in Nat, NEW most \in Nat
  PROVE  LET s == CHOOSE s : s = [b \in 0 .. most |-> IF b = 0 THEN n ELSE s[b - 1] \div 2]
         IN  /\ s \in [0 .. most -> Nat] /\ s[0] = n
             /\ \A b \in 1 .. most : s[b] = s[b - 1] \div 2
  <1> DEFINE Is(s) == s = [b \in 0 .. most |-> IF b = 0 THEN n ELSE s[b - 1] \div 2]
             G == [x \in (1 .. most) \X Nat |-> x[2] \div 2]
  <1>1. IsFold(G, most, Nat)
    BY DEF IsFold
  <1>2. \A b \in 1 .. most, x \in Nat : G[<<b, x>>] = x \div 2
    OBVIOUS
  <1> HIDE DEF G
  <1>3. PICK f : Run(f, most, Nat, n, G)
    BY <1>1, SequenceRecursion
  <1>4. f \in [0 .. most -> Nat] /\ f[0] = n /\ \A b \in 1 .. most : f[b] = f[b - 1] \div 2
    <2>1. ASSUME NEW b \in 1 .. most
          PROVE  f[b] = f[b - 1] \div 2
      <3>1. b - 1 \in 0 .. most /\ f[b - 1] \in Nat
        BY <1>3 DEF Run
      <3> QED
        BY <1>2, <1>3, <3>1 DEF Run
    <2> QED
      BY <1>3, <2>1 DEF Run
  <1>5. Is(f)
    BY <1>4
  <1> DEFINE s == CHOOSE s : Is(s)
  <1>6. Is(s)
    <2> HIDE DEF Is
    <2> QED
      BY <1>5
  <1> HIDE DEF s
  <1>7. s[0] = n /\ \A b \in 1 .. most : s[b] = s[b - 1] \div 2
    BY <1>6
  <1> DEFINE bad == {b \in 0 .. most : s[b] \notin Nat}
  <1>8. bad = {}
    <2> SUFFICES ASSUME bad # {}
                 PROVE  FALSE
      OBVIOUS
    <2>1. PICK b \in bad : \A k \in bad : b <= k
      <3>1. bad \in SUBSET Nat
        OBVIOUS
      <3> HIDE DEF bad
      <3> QED
        BY <3>1, LeastExists
    <2>2. b \in 1 .. most /\ b - 1 \in 0 .. most
      BY <1>7
    <2>3. s[b - 1] \in Nat
      BY <2>1, <2>2
    <2> QED
      BY <1>7, <2>2, <2>3
  <1>9. s \in [0 .. most -> Nat]
    <2>1. s = [b \in 0 .. most |-> s[b]]
      BY <1>6
    <2> QED
      BY <1>8, <2>1
  <1> QED
    BY <1>7, <1>9 DEF s

LEMMA ShiftIs ==
  ASSUME NEW n \in Nat, NEW bits \in Nat
  PROVE  /\ ShiftedRight(n, 0) = n /\ ShiftedRight(n, bits) \in Nat
         /\ ShiftedRight(n, bits + 1) = ShiftedRight(n, bits) \div 2
  <1> DEFINE S(most) == CHOOSE s : s = [b \in 0 .. most |-> IF b = 0 THEN n ELSE s[b - 1] \div 2]
  <1>1. \A most \in Nat : /\ S(most) \in [0 .. most -> Nat] /\ S(most)[0] = n
                          /\ \A b \in 1 .. most : S(most)[b] = S(most)[b - 1] \div 2
    BY ShiftExists
  <1>2. \A most : ShiftedRight(n, most) = S(most)[most]
    BY DEF ShiftedRight
  <1> HIDE DEF S
  <1> DEFINE short == S(bits)
             long == S(bits + 1)
             bad == {b \in 0 .. bits : short[b] # long[b]}
  <1>3. /\ short \in [0 .. bits -> Nat] /\ short[0] = n
        /\ \A b \in 1 .. bits : short[b] = short[b - 1] \div 2
        /\ long[0] = n
        /\ \A b \in 1 .. bits + 1 : long[b] = long[b - 1] \div 2
    <2>1. bits + 1 \in Nat
      OBVIOUS
    <2>2. long[0] = n /\ \A b \in 1 .. bits + 1 : long[b] = long[b - 1] \div 2
      BY <1>1, <2>1
    <2> QED
      BY <1>1, <2>2
  <1> HIDE DEF short, long
  <1>4. bad = {}
    <2> SUFFICES ASSUME bad # {}
                 PROVE  FALSE
      OBVIOUS
    <2>1. PICK b \in bad : \A k \in bad : b <= k
      <3>1. bad \in SUBSET Nat
        OBVIOUS
      <3> HIDE DEF bad
      <3> QED
        BY <3>1, LeastExists
    <2>2. b \in 1 .. bits /\ b \in 1 .. bits + 1 /\ b - 1 \in 0 .. bits
      BY <1>3
    <2>3. short[b - 1] = long[b - 1]
      BY <2>1, <2>2
    <2> QED
      BY <1>3, <2>2, <2>3
  <1>5. short[bits] = long[bits] /\ short[bits] \in Nat
    BY <1>3, <1>4
  <1>6. long[bits + 1] = long[bits] \div 2
    <2>1. bits + 1 \in 1 .. bits + 1 /\ (bits + 1) - 1 = bits
      OBVIOUS
    <2> QED
      BY <1>3, <2>1
  <1>7. ShiftedRight(n, 0) = n
    BY <1>1, <1>2
  <1> QED
    BY <1>2, <1>5, <1>6, <1>7 DEF short, long

LEMMA HalvingsAre ==
  ASSUME NEW width \in Nat, NEW height \in Nat
  PROVE  LET e == Halvings(width, height)
         IN  /\ e[0] = <<width, height>>
             /\ \A k \in 0 .. width + height : e[k] \in Nat \X Nat
             /\ \A k \in 1 .. width + height :
                  e[k] = <<AtLeastOne(e[k - 1][1] \div 2), AtLeastOne(e[k - 1][2] \div 2)>>
  <1> DEFINE N == width + height
             D == Nat \X Nat
             next(x) == <<AtLeastOne(x[1] \div 2), AtLeastOne(x[2] \div 2)>>
             Is(e) == e = [level \in 0 .. N |->
                             IF level = 0 THEN <<width, height>> ELSE next(e[level - 1])]
             G == [x \in (1 .. N) \X D |-> next(x[2])]
             base == <<width, height>>
  <1>1. N \in Nat /\ base \in D
    OBVIOUS
  <1>2. \A x \in D : next(x) \in D
    BY DEF AtLeastOne
  <1>3. IsFold(G, N, D) /\ \A k \in 1 .. N, x \in D : G[<<k, x>>] = next(x)
    <2> HIDE DEF N, D, next
    <2> QED
      BY <1>2 DEF IsFold
  <1>4. Halvings(width, height) = CHOOSE e : Is(e)
    BY DEF Halvings
  <1> HIDE DEF G, N, D, base, next
  <1>5. PICK f : Run(f, N, D, base, G)
    BY <1>1, <1>3, SequenceRecursion
  <1>6. f \in [0 .. N -> D] /\ f[0] = base /\ \A k \in 1 .. N : f[k] = next(f[k - 1])
    <2>1. ASSUME NEW k \in 1 .. N
          PROVE  f[k] = next(f[k - 1])
      <3>1. k - 1 \in 0 .. N
        BY <1>1
      <3>2. f[k - 1] \in D
        BY <1>5, <3>1 DEF Run
      <3> QED
        BY <1>3, <1>5, <3>2 DEF Run
    <2> QED
      BY <1>5, <2>1 DEF Run
  <1>7. Is(f)
    BY <1>1, <1>6 DEF base
  <1> DEFINE e == Halvings(width, height)
  <1>8. Is(e)
    <2> HIDE DEF Is
    <2> QED
      BY <1>4, <1>7
  <1> HIDE DEF e
  <1>9. e[0] = base /\ \A k \in 1 .. N : e[k] = next(e[k - 1])
    <2>1. 0 \in 0 .. N /\ \A k \in 1 .. N : k \in 0 .. N /\ k # 0
      BY <1>1
    <2>2. \A k \in 0 .. N : e[k] = IF k = 0 THEN <<width, height>> ELSE next(e[k - 1])
      BY <1>8, Zenon
    <2> QED
      BY <2>1, <2>2 DEF base
  <1> DEFINE bad == {k \in 0 .. N : e[k] \notin D}
  <1>10. bad = {}
    <2> SUFFICES ASSUME bad # {}
                 PROVE  FALSE
      OBVIOUS
    <2>1. PICK k \in bad : \A j \in bad : k <= j
      <3>1. bad \in SUBSET Nat
        BY <1>1
      <3> HIDE DEF bad
      <3> QED
        BY <3>1, LeastExists
    <2>2. k \in 1 .. N /\ k - 1 \in 0 .. N
      BY <1>1, <1>9
    <2>3. e[k - 1] \in D
      BY <1>1, <2>1, <2>2
    <2> QED
      BY <1>2, <1>9, <2>2, <2>3
  <1> QED
    BY <1>9, <1>10 DEF e, N, D, base, next
\* The code halves and clamps level by level, Vulkan shifts and clamps once.
LEMMA ExtentsAgree ==
  ASSUME NEW width \in Nat \ {0}, NEW height \in Nat \ {0}, NEW level \in 0 .. width + height
  PROVE  Halvings(width, height)[level]
           = <<AtLeastOne(ShiftedRight(width, level)), AtLeastOne(ShiftedRight(height, level))>>
  <1> DEFINE e == Halvings(width, height)
             w(k) == ShiftedRight(width, k)
             h(k) == ShiftedRight(height, k)
             N == width + height
             bad == {k \in 0 .. N : e[k] # <<AtLeastOne(w(k)), AtLeastOne(h(k))>>}
  <1>1. /\ N \in Nat /\ e[0] = <<width, height>>
        /\ \A k \in 1 .. N :
             e[k] = <<AtLeastOne(e[k - 1][1] \div 2), AtLeastOne(e[k - 1][2] \div 2)>>
    BY HalvingsAre
  <1>2. /\ w(0) = width /\ h(0) = height
        /\ \A k \in Nat : /\ w(k) \in Nat /\ h(k) \in Nat
                          /\ w(k + 1) = w(k) \div 2 /\ h(k + 1) = h(k) \div 2
    BY ShiftIs
  <1> HIDE DEF e, w, h, N
  <1>3. \A x \in Nat : AtLeastOne(AtLeastOne(x) \div 2) = AtLeastOne(x \div 2)
    BY DEF AtLeastOne
  <1>4. bad = {}
    <2> SUFFICES ASSUME bad # {}
                 PROVE  FALSE
      OBVIOUS
    <2>1. PICK k \in bad : \A j \in bad : k <= j
      <3>1. bad \in SUBSET Nat
        BY <1>1
      <3> HIDE DEF bad
      <3> QED
        BY <3>1, LeastExists
    <2>2. k \in 1 .. N /\ k - 1 \in 0 .. N /\ (k - 1) + 1 = k /\ k - 1 \in Nat
      <3>1. k # 0
        BY <1>1, <1>2 DEF AtLeastOne
      <3> QED
        BY <1>1, <3>1
    <2>3. e[k - 1] = <<AtLeastOne(w(k - 1)), AtLeastOne(h(k - 1))>>
      BY <1>1, <2>1, <2>2
    <2>4. w(k) = w(k - 1) \div 2 /\ h(k) = h(k - 1) \div 2 /\ w(k - 1) \in Nat /\ h(k - 1) \in Nat
      BY <1>2, <2>2
    <2>5. e[k] = <<AtLeastOne(AtLeastOne(w(k - 1)) \div 2), AtLeastOne(AtLeastOne(h(k - 1)) \div 2)>>
      BY <1>1, <2>2, <2>3
    <2> QED
      BY <1>3, <2>4, <2>5
  <1>5. level \in 0 .. N /\ level \notin bad
    BY <1>4 DEF N
  <1> QED
    BY <1>5 DEF e, w, h

\* Halving comes to one texel before the levels run out.
LEMMA HalvingsEnd ==
  ASSUME NEW width \in Nat \ {0}, NEW height \in Nat \ {0}
  PROVE  Halvings(width, height)[(width + height) - 1] = <<1, 1>>
  <1> DEFINE e == Halvings(width, height)
             N == width + height
             Shrunk(k) == \A side \in {1, 2} :
                            e[k][side] >= 1 /\ (e[k][side] = 1 \/ e[k][side] + k <= <<width, height>>[side])
             bad == {k \in 0 .. N : ~Shrunk(k)}
  <1>1. /\ N \in Nat /\ e[0] = <<width, height>> /\ \A k \in 0 .. N : e[k] \in Nat \X Nat
        /\ \A k \in 1 .. N :
             e[k] = <<AtLeastOne(e[k - 1][1] \div 2), AtLeastOne(e[k - 1][2] \div 2)>>
    <2>1. width \in Nat /\ height \in Nat /\ N \in Nat
      OBVIOUS
    <2> HIDE DEF N
    <2> QED
      BY <2>1, HalvingsAre DEF N
  <1> HIDE DEF e
  <1>2. \A x \in Nat : \A k, n \in Nat : x >= 1 /\ (x = 1 \/ x + k <= n) =>
          AtLeastOne(x \div 2) >= 1 /\ (AtLeastOne(x \div 2) = 1 \/ AtLeastOne(x \div 2) + k + 1 <= n)
    BY DEF AtLeastOne
  <1>3. bad = {}
    <2> SUFFICES ASSUME bad # {}
                 PROVE  FALSE
      OBVIOUS
    <2>1. PICK k \in bad : \A j \in bad : k <= j
      <3>1. bad \in SUBSET Nat
        BY <1>1
      <3> HIDE DEF bad
      <3> QED
        BY <3>1, LeastExists
    <2>2. k \in 1 .. N /\ k - 1 \in 0 .. N /\ (k - 1) + 1 = k /\ k - 1 \in Nat
      <3>1. Shrunk(0)
        BY <1>1
      <3>2. k # 0
        <4> HIDE DEF Shrunk
        <4> QED
          BY <3>1
      <3> QED
        BY <1>1, <3>2
    <2>3. Shrunk(k - 1)
      <3> HIDE DEF Shrunk
      <3> QED
        BY <1>1, <2>1, <2>2
    <2>4. ASSUME NEW side \in {1, 2}
          PROVE  e[k][side] >= 1 /\ (e[k][side] = 1 \/ e[k][side] + k <= <<width, height>>[side])
      <3> DEFINE x == e[k - 1][side]
                 n == <<width, height>>[side]
      <3>1. x \in Nat /\ n \in Nat /\ x >= 1 /\ (x = 1 \/ x + (k - 1) <= n)
        BY <1>1, <2>2, <2>3
      <3>2. e[k][side] = AtLeastOne(x \div 2)
        BY <1>1, <2>2
      <3> HIDE DEF x, n
      <3>3. AtLeastOne(x \div 2) >= 1
              /\ (AtLeastOne(x \div 2) = 1 \/ AtLeastOne(x \div 2) + (k - 1) + 1 <= n)
        BY <1>2, <2>2, <3>1
      <3>4. AtLeastOne(x \div 2) \in Nat
        BY <3>1 DEF AtLeastOne
      <3>5. e[k][side] >= 1 /\ (e[k][side] = 1 \/ e[k][side] + k <= n)
        BY <2>2, <3>2, <3>3, <3>4
      <3> QED
        BY <3>5 DEF n
    <2> QED
      BY <2>4
  <1>4. N - 1 \in 0 .. N /\ Shrunk(N - 1)
    <2> HIDE DEF Shrunk
    <2> QED
      BY <1>1, <1>3
  <1>5. e[N - 1] \in Nat \X Nat /\ e[N - 1][1] = 1 /\ e[N - 1][2] = 1
    BY <1>1, <1>4
  <1> QED
    BY <1>5 DEF e

LEMMA MipLevelCountIs ==
  ASSUME NEW width \in Nat \ {0}, NEW height \in Nat \ {0}
  PROVE  /\ MipLevelCount(width, height) \in 1 .. width + height
         /\ Halvings(width, height)[MipLevelCount(width, height) - 1] = <<1, 1>>
  <1> DEFINE e == Halvings(width, height)
             N == width + height
             ends == {n \in 1 .. N : e[n - 1] = <<1, 1>>}
             Is(n) == e[n - 1] = <<1, 1>> /\ \A m \in 1 .. n - 1 : e[m - 1] # <<1, 1>>
  <1>1. N \in ends
    <2>1. e[N - 1] = <<1, 1>>
      BY HalvingsEnd
    <2>2. N \in 1 .. N
      OBVIOUS
    <2> HIDE DEF e, N
    <2> QED
      BY <2>1, <2>2
  <1>2. MipLevelCount(width, height) = CHOOSE n \in 1 .. N : Is(n)
    BY DEF MipLevelCount
  <1> HIDE DEF e
  <1>3. PICK n \in ends : \A m \in ends : n <= m
    <2>1. ends \in SUBSET Nat
      OBVIOUS
    <2> HIDE DEF ends
    <2> QED
      BY <1>1, <2>1, LeastExists
  <1>4. n \in 1 .. N /\ Is(n)
    <2>1. ASSUME NEW m \in 1 .. n - 1
          PROVE  e[m - 1] # <<1, 1>>
      <3>1. m \in 1 .. N /\ ~(n <= m)
        OBVIOUS
      <3> QED
        BY <1>3, <3>1
    <2> QED
      BY <2>1
  <1>5. (CHOOSE k \in 1 .. N : Is(k)) \in 1 .. N /\ Is(CHOOSE k \in 1 .. N : Is(k))
    <2> HIDE DEF Is, N
    <2> QED
      BY <1>4
  <1> QED
    BY <1>2, <1>5 DEF e
LEMMA DivBelow ==
  ASSUME NEW n \in Nat, NEW d \in Nat \ {0}
  PROVE  n \div d \in Nat /\ d * (n \div d) <= n
  OBVIOUS

\* The check of a size keeps the product within size_t.
LEMMA TexelsFit ==
  ASSUME NEW w \in Nat, NEW h \in Nat \ {0}, NEW t \in Nat \ {0},
         w <= ((Wide - 1) \div h) \div t
  PROVE  (w * h * t) % Wide = w * h * t /\ (w * t) * h = w * h * t
  <1> DEFINE most == Wide - 1
             x == most \div h
             y == x \div t
  <1>1. most \in Nat /\ most < Wide /\ Wide \in Nat \ {0}
    BY WidthAssumption
  <1> HIDE DEF most
  <1>2. x \in Nat /\ h * x <= most
    BY <1>1, DivBelow
  <1> HIDE DEF x
  <1>3. y \in Nat /\ t * y <= x /\ w <= y
    BY <1>2, DivBelow DEF most, x
  <1> HIDE DEF y
  <1>4. w * t <= t * y /\ w * t \in Nat
    BY <1>3
  <1>5. w * t <= x
    BY <1>2, <1>3, <1>4
  <1>6. (w * t) * h <= h * x
    BY <1>2, <1>4, <1>5
  <1>7. (w * t) * h = w * h * t /\ w * h * t \in Nat
    OBVIOUS
  <1>8. w * h * t < Wide
    BY <1>1, <1>2, <1>6, <1>7
  <1> QED
    BY <1>1, <1>7, <1>8, NoWrap

LEMMA ExtentIs ==
  ASSUME NEW request, NEW width \in Nat \ {0}, NEW height \in Nat \ {0},
         Base(request) = <<width, height>>, NEW level \in 0 .. width + height
  PROVE  LET e == Halvings(width, height)[level]
             extent == LevelExtent(request, level)
         IN  extent[1] = e[1] /\ extent[2] = e[2] /\ e[1] \in Nat /\ e[2] \in Nat
  <1>1. Halvings(width, height)[level] \in Nat \X Nat
    BY HalvingsAre
  <1>2. Halvings(width, height)[level]
           = <<AtLeastOne(ShiftedRight(width, level)), AtLeastOne(ShiftedRight(height, level))>>
    BY ExtentsAgree
  <1>3. LevelExtent(request, level)
          = [side \in {1, 2} |-> AtLeastOne(ShiftedRight(<<width, height>>[side], level))]
    BY DEF LevelExtent
  <1> QED
    BY <1>1, <1>2, <1>3

\* A dispatch has a thread for every texel.
LEMMA GroupsCover ==
  ASSUME NEW n \in Nat
  PROVE  8 * ((n + 7) \div 8) >= n
  OBVIOUS

LEMMA DispatchFields ==
  \A level, x, y :
    LET command == Dispatch(level, x, y)
    IN  /\ command.op = "dispatch" /\ command.slice = 0 /\ command.level = level
        /\ command.width = 8 * ((x + 7) \div 8) /\ command.height = 8 * ((y + 7) \div 8)
  BY DEF Dispatch

LEMMA TextureFits ==
  ASSUME NEW request, request.kind = "texture", AcceptsTexels(request),
         request.width \in Nat, request.height \in Nat, request.texel \in Nat \ {0},
         request.mipmaps \in BOOLEAN
  PROVE  TexelsCovered(request, Upload(request))
  <1> DEFINE w == request.width
             h == request.height
             t == request.texel
             e == Halvings(w, h)
             L == MipLevels(request)
             first == Write(0, 0, w * t, request.data)
             g == [level \in 1 .. L - 1 |-> Dispatch(level, e[level][1], e[level][2])]
             c == Upload(request)
  <1>1. w \in Nat \ {0} /\ h \in Nat \ {0} /\ t \in Nat \ {0}
    BY DEF AcceptsTexels
  <1>2. L \in 1 .. w + h /\ (request.mipmaps => L = MipLevelCount(w, h))
    <2>1. L = IF request.mipmaps THEN MipLevelCount(w, h) ELSE 1
      BY Zenon DEF MipLevels
    <2>2. MipLevelCount(w, h) \in 1 .. w + h /\ 1 \in 1 .. w + h
      <3> HIDE DEF w, h
      <3>1. MipLevelCount(w, h) \in 1 .. w + h
        BY <1>1, MipLevelCountIs
      <3> QED
        BY <1>1, <3>1
    <2> HIDE DEF L
    <2>3. CASE request.mipmaps
      BY <2>1, <2>2, <2>3
    <2>4. CASE ~request.mipmaps
      BY <2>1, <2>2, <2>4
    <2> QED
      BY <2>3, <2>4
  <1>3. request.data = w * h * t /\ (w * t) * h = w * h * t
    BY <1>1, TexelsFit DEF AcceptsTexels
  <1>4. c = <<first>> \o g
    BY DEF Upload, UploadTexture, GenerateMipmaps
  <1> HIDE DEF L, e, c
  <1>5. /\ DOMAIN c = 1 .. L /\ c[1] = first
        /\ \A i \in 2 .. L : c[i] = Dispatch(i - 1, e[i - 1][1], e[i - 1][2])
    <2> DEFINE S == {g[level] : level \in 1 .. L - 1}
    <2>1. g \in Seq(S) /\ Len(g) = L - 1
      BY <1>2
    <2>2. \A i \in 2 .. L : i - 1 \in 1 .. L - 1 /\ g[i - 1] = Dispatch(i - 1, e[i - 1][1], e[i - 1][2])
      BY <1>2
    <2> HIDE DEF g, first, S
    <2> QED
      BY <1>2, <1>4, <2>1, <2>2
  <1>6. Base(request) = <<w, h>> /\ Slices(request) = 1
    BY DEF Base, Slices
  <1>7. \A level \in 0 .. L - 1 :
          /\ LevelExtent(request, level)[1] = e[level][1] /\ LevelExtent(request, level)[2] = e[level][2]
          /\ e[level][1] \in Nat /\ e[level][2] \in Nat
    <2> SUFFICES ASSUME NEW level \in 0 .. L - 1
                 PROVE  /\ LevelExtent(request, level)[1] = e[level][1]
                        /\ LevelExtent(request, level)[2] = e[level][2]
                        /\ e[level][1] \in Nat /\ e[level][2] \in Nat
      OBVIOUS
    <2>1. level \in 0 .. w + h
      BY <1>1, <1>2
    <2> HIDE DEF w, h
    <2> QED
      BY <1>1, <1>6, <2>1, ExtentIs DEF e
  <1>8. e[0] = <<w, h>>
    BY <1>1, HalvingsAre DEF e
  <1>9. \A i \in 1 .. L : /\ c[i].slice = 0 /\ c[i].level = i - 1
                          /\ c[i].op = IF i = 1 THEN "write" ELSE "dispatch"
    <2> SUFFICES ASSUME NEW i \in 1 .. L
                 PROVE  c[i].slice = 0 /\ c[i].level = i - 1
                          /\ c[i].op = IF i = 1 THEN "write" ELSE "dispatch"
      OBVIOUS
    <2>1. CASE i = 1
      BY <1>5, <2>1 DEF Write
    <2>2. CASE i # 1
      <3>1. i \in 2 .. L
        BY <1>2, <2>2
      <3>2. c[i] = Dispatch(i - 1, e[i - 1][1], e[i - 1][2])
        BY <1>5, <3>1
      <3>3. c[i].slice = 0 /\ c[i].level = i - 1 /\ c[i].op = "dispatch"
        BY <3>2, DispatchFields
      <3> QED
        BY <2>2, <3>3
    <2> QED
      BY <2>1, <2>2
  <1> HIDE DEF w, h, t, first, g
  <1>10. ASSUME NEW i \in 1 .. L
         PROVE  Fills(request, c, i)
    <2>1. CASE i = 1
      <3>1. LevelExtent(request, 0)[1] = w /\ LevelExtent(request, 0)[2] = h
        BY <1>1, <1>2, <1>7, <1>8
      <3>2. /\ c[1].op = "write" /\ c[1].level = 0
            /\ c[1].pitch = w * t /\ c[1].data = request.data
        BY <1>5 DEF Write, first
      <3>3. w * t >= w * t /\ (w * t) * h <= request.data
        BY <1>1, <1>3
      <3>4. request.texel = t
        BY DEF t
      <3> QED
        BY <2>1, <3>1, <3>2, <3>3, <3>4 DEF Fills
    <2>2. CASE i # 1
      <3> DEFINE level == i - 1
      <3>1. i \in 2 .. L /\ level \in 0 .. L - 1 /\ i - 1 \in 1 .. L
        BY <1>2, <2>2
      <3>2. /\ c[i].op = "dispatch" /\ c[i].level = level
            /\ c[i].width = 8 * ((e[level][1] + 7) \div 8)
            /\ c[i].height = 8 * ((e[level][2] + 7) \div 8)
        <4>1. c[i] = Dispatch(i - 1, e[i - 1][1], e[i - 1][2])
          BY <1>5, <3>1
        <4> QED
          BY <4>1, DispatchFields
      <3>3. c[i].width >= LevelExtent(request, level)[1] /\ c[i].height >= LevelExtent(request, level)[2]
        BY <1>7, <3>1, <3>2, GroupsCover
      <3>4. \E j \in 1 .. i - 1 : c[j].slice = c[i].slice /\ c[j].level = c[i].level - 1
        <4>1. i - 1 \in 1 .. i - 1
          BY <3>1
        <4> QED
          BY <1>9, <3>1, <4>1
      <3> HIDE DEF level
      <3> QED
        BY <3>2, <3>3, <3>4 DEF Fills
    <2> QED
      BY <2>1, <2>2
  <1>11. \A slice \in 0 .. Slices(request) - 1, level \in 0 .. L - 1 :
           \E i \in DOMAIN c : c[i].slice = slice /\ c[i].level = level
    <2> SUFFICES ASSUME NEW slice \in 0 .. Slices(request) - 1, NEW level \in 0 .. L - 1
                 PROVE  \E i \in DOMAIN c : c[i].slice = slice /\ c[i].level = level
      OBVIOUS
    <2>1. slice = 0 /\ level + 1 \in 1 .. L /\ (level + 1) - 1 = level
      BY <1>2, <1>6
    <2> QED
      BY <1>5, <1>9, <2>1
  <1>12. \A i \in DOMAIN c : c[i].level < L
    BY <1>2, <1>5, <1>9
  <1>13. request.mipmaps => LevelExtent(request, L - 1) = [side \in {1, 2} |-> 1]
    <2> SUFFICES ASSUME request.mipmaps
                 PROVE  LevelExtent(request, L - 1) = [side \in {1, 2} |-> 1]
      OBVIOUS
    <2>1. e[L - 1] = <<1, 1>>
      BY <1>1, <1>2, MipLevelCountIs DEF e
    <2>2. L - 1 \in 0 .. L - 1
      BY <1>2
    <2>3. LevelExtent(request, L - 1)[1] = 1 /\ LevelExtent(request, L - 1)[2] = 1
      BY <1>7, <2>1, <2>2
    <2>4. LevelExtent(request, L - 1) = [side \in {1, 2} |-> LevelExtent(request, L - 1)[side]]
      BY DEF LevelExtent
    <2> QED
      BY <2>3, <2>4
  <1> QED
    BY <1>5, <1>10, <1>11, <1>12, <1>13 DEF TexelsCovered, L, c
LEMMA WriteFields ==
  \A slice, level, pitch, data :
    LET command == Write(slice, level, pitch, data)
    IN  /\ command.op = "write" /\ command.slice = slice /\ command.level = level
        /\ command.pitch = pitch /\ command.data = data
  BY DEF Write

LEMMA SequenceOf ==
  ASSUME NEW X, NEW n \in Nat, NEW f \in [1 .. n -> X]
  PROVE  f \in Seq(X)
  OBVIOUS

LEMMA CubeFits ==
  ASSUME NEW request, request.kind = "cube", AcceptsCube(request),
         request.mips \in Seq(Range(request.mips)), request.texel \in Nat \ {0},
         \A level \in DOMAIN request.mips : request.mips[level].size \in Nat
  PROVE  TexelsCovered(request, Upload(request))
  <1> DEFINE mips == request.mips
             t == request.texel
             base == mips[1].size
             e == Halvings(base, 1)
             L == Len(mips)
             command(level, face) ==
               Write(face - 1, level - 1, mips[level].size * t, mips[level].faces[face])
             seqs == [level \in DOMAIN mips |-> [face \in 1 .. 6 |-> command(level, face)]]
             c == Upload(request)
  <1>0. /\ mips # <<>> /\ base # 0 /\ L <= MipLevelCount(base, 1)
        /\ \A level \in DOMAIN mips :
             /\ mips[level].size = e[level - 1][1]
             /\ mips[level].size <= ((Wide - 1) \div mips[level].size) \div t
             /\ \A face \in 1 .. 6 :
                  mips[level].faces[face] = (mips[level].size * mips[level].size * t) % Wide
    BY Zenon DEF AcceptsCube, FaceSize
  <1>1. L \in Nat \ {0} /\ DOMAIN mips = 1 .. L
    <2>1. mips \in Seq(Range(mips))
      OBVIOUS
    <2> HIDE DEF mips
    <2> QED
      BY <1>0, <2>1
  <1>2. base \in Nat \ {0} /\ t \in Nat \ {0} /\ \A level \in 1 .. L : mips[level].size \in Nat
    <2>1. 1 \in DOMAIN mips
      BY <1>1
    <2>2. base \in Nat
      BY <2>1
    <2> QED
      BY <1>0, <1>1, <2>2
  <1>3. L <= base + 1 /\ MipLevels(request) = L
    <2>1. MipLevelCount(base, 1) \in 1 .. base + 1
      <3>1. base \in Nat \ {0} /\ 1 \in Nat \ {0}
        BY <1>2
      <3> HIDE DEF base
      <3> QED
        BY <3>1, MipLevelCountIs
    <2>2. MipLevels(request) = L
      BY DEF MipLevels
    <2> HIDE DEF L, base
    <2> QED
      BY <1>0, <1>1, <1>2, <2>1, <2>2
  <1>4. c = FlattenSeq(seqs)
    BY DEF Upload, UploadCube
  <1>5. /\ Range(c) = {command(level, face) : level \in 1 .. L, face \in 1 .. 6}
        /\ DOMAIN c = 1 .. Len(c)
    <2> DEFINE X == {command(level, face) : level \in 1 .. L, face \in 1 .. 6}
    <2> HIDE DEF command, L, mips, c, base, t
    <2>1. \A level \in 1 .. L : seqs[level] \in Seq(X) /\ Range(seqs[level]) = {command(level, face) : face \in 1 .. 6}
      <3>1. \A level \in 1 .. L : seqs[level] = [face \in 1 .. 6 |-> command(level, face)]
        BY <1>1
      <3>2. \A level \in 1 .. L, face \in 1 .. 6 : command(level, face) \in X
        OBVIOUS
      <3> HIDE DEF X, seqs
      <3>3. ASSUME NEW level \in 1 .. L
            PROVE  seqs[level] \in [1 .. 6 -> X]
        BY <3>1, <3>2
      <3>4. \A level \in 1 .. L : seqs[level] \in Seq(X)
        <4>1. 6 \in Nat
          OBVIOUS
        <4> QED
          BY <3>3, <4>1, SequenceOf
      <3>5. ASSUME NEW level \in 1 .. L
            PROVE  Range(seqs[level]) = {command(level, face) : face \in 1 .. 6}
        <4> DEFINE q == seqs[level]
        <4>1. DOMAIN q = 1 .. 6 /\ \A face \in 1 .. 6 : q[face] = command(level, face)
          BY <3>1
        <4> HIDE DEF q
        <4>2. Range(q) = {command(level, face) : face \in 1 .. 6}
          BY <4>1 DEF Range
        <4> QED
          BY <4>2 DEF q
      <3> QED
        BY <3>4, <3>5
    <2>2. DOMAIN seqs = 1 .. L /\ seqs = [level \in 1 .. L |-> seqs[level]]
      BY <1>1
    <2> HIDE DEF X, seqs
    <2>3. seqs \in Seq(Seq(X))
      <3>1. seqs \in [1 .. L -> Seq(X)]
        BY <2>1, <2>2
      <3> QED
        BY <1>1, <3>1
    <2>4. c \in Seq(X) /\ Range(c) = UNION {Range(seqs[k]) : k \in DOMAIN seqs}
      BY <1>4, <2>3, FlattenSeqRange
    <2>5. Range(c) = {command(level, face) : level \in 1 .. L, face \in 1 .. 6}
      BY <2>1, <2>2, <2>4
    <2>6. DOMAIN c = 1 .. Len(c)
      BY <2>4
    <2> QED
      BY <2>5, <2>6
  <1>6. Base(request) = <<base, base>> /\ Slices(request) = 6
    BY DEF Base, Slices
  <1>7. ASSUME NEW level \in 1 .. L
        PROVE  /\ LevelExtent(request, level - 1)[1] = mips[level].size
               /\ LevelExtent(request, level - 1)[2] = mips[level].size
               /\ mips[level].size \in Nat \ {0}
               /\ \A face \in 1 .. 6 :
                    mips[level].faces[face] = mips[level].size * mips[level].size * t
    <2> DEFINE size == mips[level].size
    <2>1. /\ size \in Nat
          /\ size = e[level - 1][1]
          /\ size <= ((Wide - 1) \div size) \div t
          /\ \A face \in 1 .. 6 : mips[level].faces[face] = (size * size * t) % Wide
      BY <1>0, <1>1, <1>2
    <2> HIDE DEF mips, t, base, size, L
    <2>2. level - 1 \in 0 .. base + 1 /\ level - 1 \in 0 .. base + base
      BY <1>1, <1>2, <1>3
    <2>3. e[level - 1][1] = AtLeastOne(ShiftedRight(base, level - 1))
      <3>1. e[level - 1]
              = <<AtLeastOne(ShiftedRight(base, level - 1)), AtLeastOne(ShiftedRight(1, level - 1))>>
        <4>1. 1 \in Nat \ {0}
          OBVIOUS
        <4> QED
          BY <1>2, <2>2, <4>1, ExtentsAgree
      <3> HIDE DEF e
      <3> QED
        BY <3>1
    <2>4. Halvings(base, base)[level - 1]
            = <<AtLeastOne(ShiftedRight(base, level - 1)), AtLeastOne(ShiftedRight(base, level - 1))>>
      BY <1>2, <2>2, ExtentsAgree
    <2>5. LevelExtent(request, level - 1)[1] = size /\ LevelExtent(request, level - 1)[2] = size
      BY <1>2, <1>6, <2>1, <2>2, <2>3, <2>4, ExtentIs
    <2>6. size \in Nat \ {0}
      <3>1. level - 1 \in Nat
        BY <1>1
      <3>2. ShiftedRight(base, level - 1) \in Nat
        BY <1>2, <3>1, ShiftIs
      <3> HIDE DEF e
      <3> QED
        BY <2>1, <2>3, <3>2 DEF AtLeastOne
    <2>7. (size * size * t) % Wide = size * size * t
      BY <1>2, <2>1, <2>6, TexelsFit
    <2> QED
      BY <2>1, <2>5, <2>6, <2>7 DEF size
  <1>8. \A i \in DOMAIN c : \E level \in 1 .. L, face \in 1 .. 6 : c[i] = command(level, face)
    <2>1. \A i \in DOMAIN c : c[i] \in Range(c)
      BY DEF Range
    <2> HIDE DEF command, c, L
    <2> QED
      BY <1>5, <2>1
  <1>9. \A level, face :
          /\ command(level, face).op = "write" /\ command(level, face).slice = face - 1
          /\ command(level, face).level = level - 1
          /\ command(level, face).pitch = mips[level].size * t
          /\ command(level, face).data = mips[level].faces[face]
    BY WriteFields
  <1> HIDE DEF command, c, L, mips, t, base
  <1>10. ASSUME NEW i \in DOMAIN c
         PROVE  Fills(request, c, i) /\ c[i].level < L
    <2>1. PICK level \in 1 .. L, face \in 1 .. 6 : c[i] = command(level, face)
      BY <1>8
    <2> DEFINE size == mips[level].size
    <2>2. /\ c[i].op = "write" /\ c[i].level = level - 1
          /\ c[i].pitch = size * t /\ c[i].data = size * size * t
      <3>1. mips[level].faces[face] = size * size * t
        BY <1>7
      <3> QED
        BY <1>9, <2>1, <3>1
    <2>3. /\ LevelExtent(request, level - 1)[1] = size /\ LevelExtent(request, level - 1)[2] = size
          /\ size \in Nat
      BY <1>7
    <2> HIDE DEF size
    <2>4. (size * t) * size <= size * size * t /\ size * t >= size * t
      BY <1>2, <2>3
    <2>5. request.texel = t
      BY DEF t
    <2>6. Fills(request, c, i)
      BY <2>2, <2>3, <2>4, <2>5 DEF Fills
    <2>7. c[i].level < L
      BY <1>1, <2>2
    <2> QED
      BY <2>6, <2>7
  <1>11. \A slice \in 0 .. Slices(request) - 1, level \in 0 .. L - 1 :
           \E i \in DOMAIN c : c[i].slice = slice /\ c[i].level = level
    <2> SUFFICES ASSUME NEW slice \in 0 .. 5, NEW level \in 0 .. L - 1
                 PROVE  \E i \in DOMAIN c : c[i].slice = slice /\ c[i].level = level
      BY <1>6
    <2>1. level + 1 \in 1 .. L /\ slice + 1 \in 1 .. 6 /\ (level + 1) - 1 = level /\ (slice + 1) - 1 = slice
      BY <1>1
    <2>2. command(level + 1, slice + 1) \in Range(c)
      BY <1>5, <2>1
    <2>3. PICK i \in DOMAIN c : c[i] = command(level + 1, slice + 1)
      BY <2>2 DEF Range
    <2> QED
      BY <1>9, <2>1, <2>3
  <1> QED
    BY <1>3, <1>10, <1>11 DEF TexelsCovered, c

\* Whatever is accepted is filled.
LEMMA UploadsFit ==
  ASSUME NEW request \in Requests, Accepts(request)
  PROVE  Covered(request, Upload(request))
  <1>1. CASE request.kind \in {"vertex", "index"}
    BY <1>1, BuffersFit
  <1>2. CASE request.kind = "texture"
    <2>1. AcceptsTexels(request)
      BY <1>2 DEF Accepts
    <2>2. TexelsCovered(request, Upload(request))
      BY <1>2, <2>1, TextureFits, RequestAssumption
    <2> QED
      BY <1>2, <2>2 DEF Covered
  <1>3. CASE request.kind = "cube"
    <2>1. AcceptsCube(request)
      BY <1>3 DEF Accepts
    <2>2. TexelsCovered(request, Upload(request))
      BY <1>3, <2>1, CubeFits, RequestAssumption
    <2> QED
      BY <1>3, <2>2 DEF Covered
  <1> QED
    BY <1>1, <1>2, <1>3, RequestAssumption

LEMMA NextUpload == UploadInv /\ [Next]_vars => UploadInv'
  <1> SUFFICES ASSUME UploadInv, [Next]_vars PROVE UploadInv'
    OBVIOUS
  <1>1. CASE \E d \in Devices, r \in Resources, request \in Requests : CreateResource(d, r, request)
    <2>1. PICK request \in Requests : upload' = [request |-> request, commands |-> Upload(request)]
                                      /\ Accepts(request)
      BY <1>1 DEF CreateResource
    <2> QED
      BY <2>1 DEF UploadInv
  <1>2. CASE UNCHANGED upload
    BY <1>2 DEF UploadInv
  <1>3. \/ UNCHANGED upload
        \/ \E d \in Devices, r \in Resources, request \in Requests : CreateResource(d, r, request)
    BY DEF Next, Construct, BuildSurfaceSource, BuildContext, BuildSurface, BuildDevice, BuildNvrhiDevice,
           BuildFrameManager, Builds, ConstructionFails, Finish, WaitIdle, OpenFrame, SubmitFrame,
           AbandonFrame, AbandonFails, ReleaseFacade, ReleaseThrows, DropImpl, Unwind, Free, RecordUse,
           DestroyResource, EndDestroy, vars, chosen
  <1> QED
    BY <1>1, <1>2, <1>3

-----------------------------------------------------------------------------
(***************************************************************************)
(* The inductive invariant.                                                 *)
(***************************************************************************)
THEOREM Invariance == Spec => []IInv
  <1>1. Init => IInv
    BY InitLifetimeInv, InitChoice DEF Init, IInv, UploadInv
  <1>2. IInv /\ [Next]_vars => IInv'
    <2>1. LifetimeInv => TypeOK
      BY DEF LifetimeInv
    <2> QED
      BY <2>1, NextLifetimeInv, NextChoice, NextUpload DEF IInv
  <1> QED
    BY <1>1, <1>2, PTL DEF Spec

\* Type correctness.
THEOREM Typing == Spec => []TypeOK
  <1>1. IInv => TypeOK
    BY DEF IInv, LifetimeInv
  <1> QED
    BY <1>1, Invariance, PTL

(***************************************************************************)
(* Teardown: as long as a resource's handle or an open command list reaches  *)
(* a device its parts are there, because every resource shares the Impl to   *)
(* the end of its destructor; and when parts go the GPU is idle, because     *)
(* only devices whose facade lives are given work, and the facade waits.     *)
(***************************************************************************)
THEOREM TeardownSafety == Spec => []PartsOutliveUsers
  <1>1. IInv => PartsOutliveUsers
    <2> SUFFICES ASSUME LifetimeInv PROVE PartsOutliveUsers
      BY DEF IInv
    <2>1. \A r \in Resources : HandleHeld(r) => built[device_of[r]] >= Nvrhi
      BY PartsCount DEF LifetimeInv, TypeOK, ResourceInv, BuiltInv, HandleHeld, Held, Exists, Nvrhi
    <2>2. \A d \in Devices : frame[d].open => built[d] = Len(Parts)
      BY DEF LifetimeInv, FrameInv, BuiltInv
    <2>3. \A d \in Devices : phase[d] = "unwinding" => Idle(d)
      BY DEF LifetimeInv, QuietInv, Idle
    <2> QED
      BY <2>1, <2>2, <2>3 DEF PartsOutliveUsers
  <1> QED
    BY <1>1, Invariance, PTL

(***************************************************************************)
(* The comparison of addresses suffices: a resource keeps its device's Impl  *)
(* alive, so that no other one can have its address.                         *)
(***************************************************************************)
THEOREM OwnershipSafety == Spec => []ForeignNeverRecorded
  <1>1. IInv => ForeignNeverRecorded
    BY DEF IInv, LifetimeInv
  <1> QED
    BY <1>1, Invariance, PTL
(***************************************************************************)
(* What was chosen works, on every machine that keeps Vulkan's promises: a   *)
(* suitable GPU has the families it is asked for, the least index found is   *)
(* one of them, and the surface's limits leave room for one more image or     *)
(* for none.                                                                *)
(***************************************************************************)
THEOREM Selection == Spec => []SelectionUsable
  <1>1. IInv => SelectionUsable
    BY ChosenUsable DEF IInv, LifetimeInv
  <1> QED
    BY <1>1, Invariance, PTL

(***************************************************************************)
(* What was accepted is filled, for integers of every width and extents of   *)
(* every size: if the products of a buffer stay within a word, the wrapped    *)
(* comparison is the true one; those of a texture do, because its width was  *)
(* divided first; and halving level by level comes to the extents Vulkan     *)
(* gives the levels, and to one texel when mipLevelCount says.               *)
(***************************************************************************)
THEOREM Uploads == Spec => []UploadsCover
  <1>1. IInv => UploadsCover
    BY UploadsFit DEF IInv, UploadInv, UploadsCover
  <1> QED
    BY <1>1, Invariance, PTL

-----------------------------------------------------------------------------
(* Shaders: what a binding set is made of, for all programs and resources. *)

LEMMA LaidOutBinding ==
  ASSUME NEW program, LaidOut(program), NEW set, NEW i \in Bounded(program, set)
  PROVE  /\ Bindings(program)[i].count \in 1 .. MaxCount
         /\ Bindings(program)[i].type \in DOMAIN LayoutType
         /\ \A j \in Bounded(program, set) :
              Bindings(program)[i].binding = Bindings(program)[j].binding => i = j
  <1>1. set \in SetsOf(program)
    BY DEF SetsOf, Bounded
  <1>2. PICK capacity \in Capacities : CanLayOut(program, capacity)
    BY DEF LaidOut
  <1> QED
    BY <1>1, <1>2 DEF CanLayOut

LEMMA TypesAgree ==
  /\ LayoutType = ItemType
  /\ \A type \in DOMAIN LayoutType : LayoutType[type] # "PushConstants"
  BY DEF LayoutType, ItemType

LEMMA ElementIn ==
  ASSUME NEW program, NEW set, NEW i \in Bounded(program, set),
         NEW n \in 0 .. Bindings(program)[i].count - 1
  PROVE  <<i, n>> \in Elements(program, set)
  BY DEF Elements

LEMMA ElementOf ==
  ASSUME NEW program, NEW set, NEW e \in Elements(program, set)
  PROVE  /\ e[1] \in Bounded(program, set)
         /\ e[2] \in 0 .. Bindings(program)[e[1]].count - 1
         /\ e = <<e[1], e[2]>>
  BY DEF Elements

\* An element is bound with the one resource of its name and number.
LEMMA BoundElement ==
  ASSUME NEW program, LaidOut(program), NEW set, NEW resources, CanBind(program, set, resources),
         NEW e \in Elements(program, set)
  PROVE  \E r \in DOMAIN resources :
           /\ Matches(resources, Bindings(program)[e[1]], e[2]) = {r}
           /\ resources[r].name = Bindings(program)[e[1]].name /\ resources[r].element = e[2]
           /\ SetItem(program, resources, e)
                = [slot |-> Bindings(program)[e[1]].binding,
                   type |-> LayoutType[Bindings(program)[e[1]].type],
                   element |-> e[2], resource |-> r]
  <1>1. PICK r \in DOMAIN resources : Matches(resources, Bindings(program)[e[1]], e[2]) = {r}
    BY Zenon DEF CanBind
  <1>2. resources[r].name = Bindings(program)[e[1]].name /\ resources[r].element = e[2]
    BY <1>1 DEF Matches
  <1>3. (CHOOSE m \in Matches(resources, Bindings(program)[e[1]], e[2]) : TRUE) = r
    BY <1>1
  <1> QED
    BY <1>1, <1>2, <1>3, TypesAgree DEF SetItem

LEMMA BoundItems ==
  ASSUME NEW program, NEW set, NEW resources, NEW b
  PROVE  b \in SetItems(program, set, resources) <=>
           \/ \E e \in Elements(program, set) : b = SetItem(program, resources, e)
           \/ /\ set = 0 /\ PushConstants(program) # {}
              /\ b = [slot |-> 0, type |-> "PushConstants", element |-> 0, resource |-> 0]
  BY DEF SetItems, PushSetItems

-----------------------------------------------------------------------------
\* One lemma for each part of what is promised of a binding set.

LEMMA FitElements ==
  ASSUME BoundInv, bound # NoSet
  PROVE  ElementsBoundOnce
  <1> DEFINE program == bound.program
             set == bound.set
             resources == bound.resources
  <1>1. LaidOut(program) /\ CanBind(program, set, resources)
        /\ bound.items = SetItems(program, set, resources)
    BY DEF BoundInv
  <1> SUFFICES ASSUME NEW item \in Layout(program, set), ~IsPush(item), NEW n \in 0 .. item.size - 1
               PROVE  Cardinality({b \in bound.items : <<b.slot, b.type, b.element>>
                                                         = <<item.slot, item.type, n>>}) = 1
    BY DEF ElementsBoundOnce
  <1>2. PICK i \in Bounded(program, set) : item = BindingItem(Bindings(program)[i])
    BY DEF Layout, PushItems, IsPush
  <1>3. /\ item.slot = Bindings(program)[i].binding
        /\ item.type = LayoutType[Bindings(program)[i].type]
        /\ item.size = Bindings(program)[i].count
    BY <1>2 DEF BindingItem
  <1>4. Bindings(program)[i].type \in DOMAIN LayoutType
    BY <1>1, LaidOutBinding
  <1> DEFINE e == <<i, n>>
             b0 == SetItem(program, resources, e)
             same == {b \in bound.items : <<b.slot, b.type, b.element>> = <<item.slot, item.type, n>>}
  <1>5. e \in Elements(program, set)
    BY <1>3, ElementIn
  <1>6. b0 \in bound.items
    BY <1>1, <1>5, BoundItems
  <1>7. b0.slot = item.slot /\ b0.type = item.type /\ b0.element = n
    BY <1>1, <1>3, <1>5, BoundElement
  <1>8. ASSUME NEW b \in same PROVE b = b0
    <2>1. b \in bound.items /\ b.slot = item.slot /\ b.type = item.type /\ b.element = n
      OBVIOUS
    <2>2. b.type # "PushConstants"
      BY <2>1, <1>3, <1>4, TypesAgree
    <2>3. PICK x \in Elements(program, set) : b = SetItem(program, resources, x)
      BY <2>1, <2>2, <1>1, BoundItems
    <2>4. b.slot = Bindings(program)[x[1]].binding /\ b.element = x[2]
      BY <2>3, <1>1, BoundElement
    <2>5. x[1] \in Bounded(program, set) /\ x = <<x[1], x[2]>>
      BY ElementOf
    <2>6. x[1] = i
      BY <2>1, <2>4, <2>5, <1>1, <1>3, LaidOutBinding
    <2>7. x = e
      BY <2>1, <2>4, <2>5, <2>6
    <2> QED
      BY <2>3, <2>7
  <1>9. same = {b0}
    BY <1>6, <1>7, <1>8
  <1> QED
    BY <1>9, FS_Singleton

LEMMA FitLayout ==
  ASSUME BoundInv, bound # NoSet
  PROVE  ItemsLaidOut
  <1> DEFINE program == bound.program
             set == bound.set
             resources == bound.resources
  <1>1. LaidOut(program) /\ CanBind(program, set, resources)
        /\ bound.items = SetItems(program, set, resources)
    BY DEF BoundInv
  <1> SUFFICES ASSUME NEW b \in bound.items
               PROVE  \E item \in Layout(program, set) :
                        /\ <<b.slot, b.type>> = <<item.slot, item.type>>
                        /\ ~IsPush(item) => b.element < item.size
    BY DEF ItemsLaidOut
  <1>2. CASE \E e \in Elements(program, set) : b = SetItem(program, resources, e)
    <2>1. PICK e \in Elements(program, set) : b = SetItem(program, resources, e)
      BY <1>2
    <2>2. e[1] \in Bounded(program, set) /\ e[2] \in 0 .. Bindings(program)[e[1]].count - 1
      BY ElementOf
    <2> DEFINE item == BindingItem(Bindings(program)[e[1]])
    <2>3. item \in Layout(program, set)
      BY <2>2 DEF Layout
    <2>4. /\ b.slot = Bindings(program)[e[1]].binding
          /\ b.type = LayoutType[Bindings(program)[e[1]].type]
          /\ b.element = e[2]
      BY <2>1, <1>1, BoundElement
    <2>5. Bindings(program)[e[1]].count \in Nat
      BY <2>2, <1>1, LaidOutBinding, ShadersAssumption
    <2>6. b.slot = item.slot /\ b.type = item.type /\ b.element < item.size
      BY <2>2, <2>4, <2>5 DEF BindingItem
    <2> QED
      BY <2>3, <2>6
  <1>3. CASE /\ set = 0 /\ PushConstants(program) # {}
             /\ b = [slot |-> 0, type |-> "PushConstants", element |-> 0, resource |-> 0]
    <2>1. PICK size \in PushConstants(program) : TRUE
      BY <1>3
    <2>2. [slot |-> 0, type |-> "PushConstants", size |-> size] \in Layout(program, set)
      BY <1>3 DEF Layout, PushItems
    <2> QED
      BY <1>3, <2>2 DEF IsPush
  <1> QED
    BY <1>1, <1>2, <1>3, BoundItems

LEMMA FitSlots ==
  ASSUME BoundInv, bound # NoSet
  PROVE  SlotsDistinct
  <1> DEFINE program == bound.program
             set == bound.set
  <1>1. LaidOut(program)
    BY DEF BoundInv
  <1> SUFFICES ASSUME NEW x \in Layout(program, set), NEW y \in Layout(program, set),
                      ~IsPush(x), ~IsPush(y), x.slot = y.slot
               PROVE  x = y
    BY DEF SlotsDistinct
  <1>2. PICK i \in Bounded(program, set) : x = BindingItem(Bindings(program)[i])
    BY DEF Layout, PushItems, IsPush
  <1>3. PICK j \in Bounded(program, set) : y = BindingItem(Bindings(program)[j])
    BY DEF Layout, PushItems, IsPush
  <1>4. Bindings(program)[i].binding = Bindings(program)[j].binding
    BY <1>2, <1>3 DEF BindingItem
  <1> QED
    BY <1>1, <1>2, <1>3, <1>4, LaidOutBinding

LEMMA FitResources ==
  ASSUME BoundInv, bound # NoSet
  PROVE  ResourcesBound
  <1> DEFINE program == bound.program
             set == bound.set
             resources == bound.resources
             bindings == Bindings(program)
  <1>1. /\ LaidOut(program) /\ CanBind(program, set, resources)
        /\ bound.items = SetItems(program, set, resources)
        /\ resources \in ResourceLists
    BY DEF BoundInv
  <1> SUFFICES ASSUME NEW r \in DOMAIN resources
               PROVE  LET items == {b \in bound.items : b.resource = r}
                      IN  /\ items # {}
                          /\ {<<b.slot, b.element>> : b \in items}
                               = {<<bindings[i].binding, resources[r].element>> : i \in DeclaredFor(r)}
    BY DEF ResourcesBound
  <1> DEFINE items == {b \in bound.items : b.resource = r}
  <1>2. r # 0
    BY <1>1, ShadersAssumption
  \* What the resource is bound as.
  <1>3. ASSUME NEW b \in items
        PROVE  \E i \in DeclaredFor(r) : b.slot = bindings[i].binding /\ b.element = resources[r].element
    <2>1. PICK e \in Elements(program, set) : b = SetItem(program, resources, e)
      BY <1>1, <1>2, BoundItems
    <2>2. PICK m \in DOMAIN resources :
            /\ resources[m].name = bindings[e[1]].name /\ resources[m].element = e[2]
            /\ b = [slot |-> bindings[e[1]].binding, type |-> LayoutType[bindings[e[1]].type],
                    element |-> e[2], resource |-> m]
      BY <1>1, <2>1, BoundElement
    <2>3. m = r
      BY <2>2
    <2>4. e[1] \in DeclaredFor(r)
      BY <2>2, <2>3, ElementOf DEF DeclaredFor
    <2> QED
      BY <2>2, <2>3, <2>4
  \* Every binding of its name has an element with its number, which is bound with it.
  <1>4. ASSUME NEW x \in Elements(program, set), r \in Matches(resources, bindings[x[1]], x[2])
        PROVE  /\ SetItem(program, resources, x) \in items
               /\ SetItem(program, resources, x).slot = bindings[x[1]].binding
               /\ SetItem(program, resources, x).element = resources[r].element
    <2>1. PICK m \in DOMAIN resources :
            /\ Matches(resources, bindings[x[1]], x[2]) = {m}
            /\ resources[m].element = x[2]
            /\ SetItem(program, resources, x)
                 = [slot |-> bindings[x[1]].binding, type |-> LayoutType[bindings[x[1]].type],
                    element |-> x[2], resource |-> m]
      BY <1>1, BoundElement
    <2>2. m = r
      BY <1>4, <2>1
    <2>3. SetItem(program, resources, x) \in bound.items
      BY <1>1, BoundItems
    <2> QED
      BY <2>1, <2>2, <2>3
  <1>5. PICK e0 \in Elements(program, set) : r \in Matches(resources, bindings[e0[1]], e0[2])
    BY <1>1, Zenon DEF CanBind
  <1>6. items # {}
    BY <1>4, <1>5
  <1>7. ASSUME NEW i \in DeclaredFor(r)
        PROVE  \E b \in items : b.slot = bindings[i].binding /\ b.element = resources[r].element
    <2> DEFINE x == <<i, resources[r].element>>
    <2>1. i \in Bounded(program, set) /\ bindings[i].name = resources[r].name
          /\ resources[r].element \in 0 .. bindings[i].count - 1
      BY DEF DeclaredFor
    <2>2. x \in Elements(program, set)
      BY <2>1, ElementIn
    <2>3. x[1] = i /\ x[2] = resources[r].element
      OBVIOUS
    <2>4. r \in Matches(resources, bindings[x[1]], x[2])
      BY <2>1, <2>3 DEF Matches
    <2> HIDE DEF x
    <2> QED
      BY <1>4, <2>2, <2>3, <2>4
  <1> HIDE DEF items
  <1>8. {<<b.slot, b.element>> : b \in items}
          = {<<bindings[i].binding, resources[r].element>> : i \in DeclaredFor(r)}
    <2>1. ASSUME NEW b \in items
          PROVE  <<b.slot, b.element>> \in {<<bindings[i].binding, resources[r].element>> : i \in DeclaredFor(r)}
      BY <1>3, Zenon
    <2>2. ASSUME NEW i \in DeclaredFor(r)
          PROVE  <<bindings[i].binding, resources[r].element>> \in {<<b.slot, b.element>> : b \in items}
      <3>1. PICK b \in items : b.slot = bindings[i].binding /\ b.element = resources[r].element
        BY <1>7
      <3> QED
        BY <3>1
    <2> QED
      BY <2>1, <2>2
  <1> QED
    BY <1>6, <1>8 DEF items

-----------------------------------------------------------------------------
LEMMA InitShadersInv == ShadersInit => ShadersInv
  BY ShadersAssumption DEF ShadersInit, ShadersInv, MutexInv, CompiledInv, ShaderInv, BoundInv, At, NoCall

\* What a binding set was made of does not change.
LEMMA BoundStays == BoundInv /\ UNCHANGED bound => BoundInv'
  BY DEF BoundInv

LEMMA CompilingStep ==
  ASSUME ShadersInv, NEW t \in Threads,
         Compiling(t) \/ \E program \in Programs : StartCompile(t, program)
  PROVE  ShadersInv'
  <1> USE DEF ShadersInv
  <1>1. BoundInv' /\ ShaderInv'
    BY BoundStays DEF ShaderInv, Compiling, StartCompile, ReadSource, ReadFails, OpenSession, CompileFails, Compile
  <1>2. CompiledInv'
    BY DEF CompiledInv, MutexInv, At, Compiling, StartCompile, ReadSource, ReadFails, OpenSession,
           CompileFails, Compile
  <1>3. MutexInv'
    <2>1. CASE \E program \in Programs : StartCompile(t, program)
      BY <2>1 DEF MutexInv, At, StartCompile
    <2>2. CASE ReadSource(t)
      BY <2>2 DEF MutexInv, At, ReadSource
    <2>3. CASE ReadFails(t)
      BY <2>3 DEF MutexInv, At, ReadFails, NoCall
    <2>4. CASE OpenSession(t)
      BY <2>4, ShadersAssumption DEF MutexInv, At, OpenSession
    <2>5. CASE CompileFails(t)
      BY <2>5, ShadersAssumption DEF MutexInv, At, CompileFails, NoCall
    <2>6. CASE Compile(t)
      BY <2>6, ShadersAssumption DEF MutexInv, At, Compile, NoCall
    <2> QED
      BY <2>1, <2>2, <2>3, <2>4, <2>5, <2>6 DEF Compiling
  <1> QED
    BY <1>1, <1>2, <1>3

LEMMA ShaderSetStep ==
  ASSUME ShadersInv, NEW capacity \in Capacities, CreateShaderSet(capacity)
  PROVE  ShadersInv'
  BY BoundStays DEF ShadersInv, MutexInv, At, CompiledInv, ShaderInv, LaidOut, CreateShaderSet

LEMMA BindingSetStep ==
  ASSUME ShadersInv, NEW set \in Sets, NEW resources \in ResourceLists, CreateBindingSet(set, resources)
  PROVE  ShadersInv'
  <1>1. BoundInv'
    BY DEF ShadersInv, ShaderInv, BoundInv, CreateBindingSet
  <1> QED
    BY <1>1 DEF ShadersInv, MutexInv, At, CompiledInv, ShaderInv, CreateBindingSet

LEMMA NextShadersInv == ShadersInv /\ [ShadersNext]_shaderVars => ShadersInv'
  <1> SUFFICES ASSUME ShadersInv, [ShadersNext]_shaderVars PROVE ShadersInv'
    OBVIOUS
  <1>1. CASE UNCHANGED shaderVars
    BY <1>1, BoundStays DEF ShadersInv, MutexInv, At, CompiledInv, ShaderInv, shaderVars
  <1> QED
    BY <1>1, CompilingStep, ShaderSetStep, BindingSetStep DEF ShadersNext

THEOREM ShadersInvariance == ShadersSpec => []ShadersInv
  BY InitShadersInv, NextShadersInv, PTL DEF ShadersSpec

(***************************************************************************)
(* Binding sets fit their layouts, for all programs and lists of resources:  *)
(* the two functions walk the same reflection with two tables of types, and  *)
(* what one has checked (distinct slots, one resource for each element) is    *)
(* what makes the other's items unique.                                      *)
(***************************************************************************)
THEOREM SetsFit == ShadersSpec => []SetsMatchLayouts
  <1>1. ShadersInv => SetsMatchLayouts
    BY FitElements, FitLayout, FitSlots, FitResources DEF ShadersInv, SetsMatchLayouts
  <1> QED
    BY <1>1, ShadersInvariance, PTL
================================================================================
