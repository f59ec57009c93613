-------------------------- MODULE FrameManagerProofs --------------------------
(***************************************************************************)
(* Proof that IInv is an invariant of FrameManager for every number of      *)
(* frame slots, sizes, image counts and failures, and what follows from it. *)
(***************************************************************************)
EXTENDS FrameManager, TLAPS

LEMMA SlotInRange == 0 \in Slots /\ \A s \in Slots : (s + 1) % FrameSlots \in Slots
BY FrameAssumption DEF Slots

LEMMA FailsType ==
  ASSUME resizes \in 0 .. MaxResizes, failures \in 0 .. MaxFailures, Fails
  PROVE  resizes' \in 0 .. MaxResizes /\ failures' \in 0 .. MaxFailures
BY FrameAssumption DEF Fails

\* What the recovery leaves behind, once the GPU is idle.
LEMMA RecoveredIInv ==
  ASSUME IInv, Recovered, Idle, UNCHANGED <<slot, vsync, gpu, outside>>,
         pc' \in {"idle", "check"},
         {active', suboptimal', executed'} \subseteq BOOLEAN,
         resizes' \in 0 .. MaxResizes, failures' \in 0 .. MaxFailures
  PROVE  IInv'
<1> USE DEF IInv, TypeOK, Recovered, Idle, outside
<1>1. TypeOK'
  OBVIOUS
<1>2. PendingInv'
  BY DEF PendingInv, InFlight
<1>3. SemaphoreInv'
  BY DEF SemaphoreInv, InFlight
<1>4. SwapchainInv' /\ FlagInv'
  BY DEF SwapchainInv, FlagInv
<1>5. QED BY <1>1, <1>2, <1>3, <1>4

\* Steps that leave the GPU and the ring of slots alone and move between points
\* of the call at which nothing is known of the slot.
LEMMA CheckStep ==
  ASSUME IInv, BeginFrame \/ DeferFrame \/ CheckFramebuffer \/ NothingToRecreate
  PROVE  IInv'
<1> USE DEF IInv, ring, chain, flags, outside, counts
<1>1. TypeOK'
  BY DEF TypeOK, BeginFrame, DeferFrame, CheckFramebuffer, NothingToRecreate
<1>2. PendingInv'
  BY DEF PendingInv, InFlight, BeginFrame, DeferFrame, CheckFramebuffer, NothingToRecreate
<1>3. SemaphoreInv'
  BY DEF SemaphoreInv, InFlight, BeginFrame, DeferFrame, CheckFramebuffer, NothingToRecreate,
         Recreating, FlagInv
<1>4. SwapchainInv'
  <2>1. UNCHANGED TargetsComplete
    BY DEF TargetsComplete, BeginFrame, DeferFrame, CheckFramebuffer, NothingToRecreate
  <2>2. CASE CheckFramebuffer
    <3>1. recreate \in BOOLEAN /\ recreate' = (recreate \/ NeedsSwapchain) /\ UNCHANGED swapchain
      BY <2>2 DEF CheckFramebuffer, TypeOK
    <3>2. ~NeedsSwapchain => swapchain # NoSwapchain /\ ~recreate
      BY <2>2 DEF CheckFramebuffer, NeedsSwapchain, NoSwapchain
    <3>3. pc' = IF NeedsSwapchain THEN "recreate" ELSE "wait"
      BY <2>2 DEF CheckFramebuffer
    <3>4. QED BY <2>1, <3>1, <3>2, <3>3 DEF SwapchainInv
  <2>3. CASE ~CheckFramebuffer
    BY <2>1, <2>3 DEF SwapchainInv, BeginFrame, DeferFrame, NothingToRecreate
  <2>4. QED BY <2>2, <2>3
<1>5. FlagInv'
  <2>1. CASE CheckFramebuffer
    <3>1. pc' = (IF NeedsSwapchain THEN "recreate" ELSE "wait") /\ pc = "check"
      BY <2>1 DEF CheckFramebuffer
    <3>2. NeedsSwapchain => recreate'
      BY <2>1 DEF CheckFramebuffer
    <3>3. UNCHANGED recovery
      BY <2>1 DEF CheckFramebuffer
    <3>4. QED BY <3>1, <3>2, <3>3 DEF FlagInv
  <2>2. CASE ~CheckFramebuffer
    BY <2>2 DEF FlagInv, BeginFrame, DeferFrame, NothingToRecreate, Recreating
  <2>3. QED BY <2>1, <2>2
<1>6. QED BY <1>1, <1>2, <1>3, <1>4, <1>5

LEMMA RecreateStep ==
  ASSUME IInv, RecreateSwapchain \/ \E stage \in Stages : RecreationFails(stage)
  PROVE  IInv'
<1> USE DEF IInv, ring, outside, counts, Fails, Recreating, AfterRecreation, FlagAfterThrow
<1>1. TypeOK'
  <2>1. resizes' \in 0 .. MaxResizes /\ failures' \in 0 .. MaxFailures
    BY FailsType DEF TypeOK, RecreateSwapchain, RecreationFails
  <2>2. swapchain' \in Swapchains \cup {NoSwapchain} /\ finished' \in ImageCounts \cup {0}
    <3>1. surface # 0 /\ surface \in Sizes \cup {0} /\ vsync \in BOOLEAN
          /\ swapchain \in Swapchains \cup {NoSwapchain} /\ finished \in ImageCounts \cup {0}
      BY DEF TypeOK, RecreateSwapchain, RecreationFails
    <3>2. CASE RecreateSwapchain
      <4>1. PICK n \in ImageCounts :
              /\ swapchain' = [extent |-> surface, vsync |-> vsync, images |-> n, wrapped |-> TRUE]
              /\ finished' = n
        BY <3>2 DEF RecreateSwapchain
      <4>2. QED BY <3>1, <4>1 DEF Swapchains
    <3>3. CASE \E stage \in Stages : RecreationFails(stage)
      <4>1. PICK stage \in Stages : RecreationFails(stage)
        BY <3>3
      <4>2. finished' \in {0, finished}
        BY <4>1 DEF RecreationFails
      <4>3. \/ \E n \in ImageCounts : swapchain' =
                 [extent |-> surface, vsync |-> vsync, images |-> n,
                  wrapped |-> stage = "semaphores"]
            \/ UNCHANGED swapchain
        BY <4>1 DEF RecreationFails
      <4> DEFINE replacement(n) == [extent |-> surface, vsync |-> vsync, images |-> n,
                                    wrapped |-> stage = "semaphores"]
      <4>4. \A n \in ImageCounts : replacement(n) \in Swapchains
        BY <3>1 DEF Swapchains
      <4>5. \/ \E n \in ImageCounts : swapchain' = replacement(n)
            \/ UNCHANGED swapchain
        BY <4>3
      <4> HIDE DEF replacement
      <4>6. QED BY <3>1, <4>2, <4>4, <4>5
    <3>4. QED BY <3>2, <3>3
  <2>3. /\ pc' \in {"wait", "idle"} /\ recreate' \in BOOLEAN
        /\ UNCHANGED <<active, suboptimal, executed, ring, vsync, recovery, outside, gpu>>
    BY DEF TypeOK, RecreateSwapchain, RecreationFails
  <2>4. QED BY <2>1, <2>2, <2>3 DEF TypeOK
<1>2. PendingInv'
  BY DEF PendingInv, InFlight, RecreateSwapchain, RecreationFails
<1>3. SemaphoreInv'
  BY DEF SemaphoreInv, InFlight, FlagInv, RecreateSwapchain, RecreationFails
<1>4. SwapchainInv'
  BY DEF SwapchainInv, FlagInv, TargetsComplete, RecreateSwapchain, RecreationFails
<1>5. FlagInv'
  BY DEF FlagInv, RecreateSwapchain, RecreationFails
<1>6. QED BY <1>1, <1>2, <1>3, <1>4, <1>5

LEMMA AcquireStep ==
  ASSUME IInv,
         \/ WaitForSlot \/ AcquireOutOfDate \/ AcquireThrows \/ RecordingThrows \/ PresentThrows
         \/ \E optimal \in BOOLEAN : Acquire(optimal)
  PROVE  IInv'
<1> USE DEF IInv, ring, chain, flags, outside, counts, Fails,
            WaitForSlot, AcquireOutOfDate, AcquireThrows, RecordingThrows, PresentThrows, Acquire
<1>1. TypeOK'
  <2>1. CASE WaitForSlot
    BY <2>1 DEF TypeOK
  <2>2. CASE AcquireOutOfDate \/ AcquireThrows \/ RecordingThrows \/ PresentThrows
    <3>1. resizes' \in 0 .. MaxResizes /\ failures' \in 0 .. MaxFailures
      BY <2>2, FailsType DEF TypeOK
    <3>2. recreate' \in BOOLEAN /\ pc' \in {"out_of_date", "idle", "abandon"}
      BY <2>2 DEF TypeOK
    <3>3. UNCHANGED <<active, suboptimal, executed, ring, chain, recovery, outside, gpu>>
      BY <2>2
    <3>4. QED BY <3>1, <3>2, <3>3 DEF TypeOK
  <2>3. CASE \E optimal \in BOOLEAN : Acquire(optimal)
    <3>1. suboptimal' \in BOOLEAN
      BY <2>3
    <3>2. /\ UNCHANGED <<slot, submitted, chain, flags, outside, gpu>>
          /\ semaphore' = [semaphore EXCEPT ![slot] = "signaled"]
          /\ executed' = FALSE /\ active' = TRUE /\ pc' = "record"
      BY <2>3
    <3>3. resizes' \in 0 .. MaxResizes /\ failures' \in 0 .. MaxFailures
      BY <2>3, FailsType DEF TypeOK
    <3>4. QED BY <3>1, <3>2, <3>3 DEF TypeOK
  <2>4. QED BY <2>1, <2>2, <2>3
<1>2. PendingInv'
  BY DEF PendingInv, InFlight, QueryCompleted, TypeOK
<1>3. SemaphoreInv'
  BY DEF SemaphoreInv, InFlight, TypeOK
<1>4. SwapchainInv'
  BY DEF SwapchainInv, TargetsComplete
<1>5. FlagInv'
  BY DEF FlagInv
<1>6. QED BY <1>1, <1>2, <1>3, <1>4, <1>5

LEMMA SubmitStep ==
  ASSUME IInv, Submit
  PROVE  IInv'
<1> USE DEF IInv, chain, flags, outside, counts, Submit
<1>1. gpu \in Seq(Slots) /\ slot \in Slots
  BY DEF TypeOK
<1>2. /\ gpu' \in Seq(Slots)
      /\ \A s \in Slots : InFlight(s)' <=> InFlight(s) \/ s = slot
  <2> HIDE DEF IInv
  <2>1. /\ gpu' \in Seq(Slots) /\ Len(gpu') = Len(gpu) + 1
        /\ \A i \in 1 .. Len(gpu) : gpu'[i] = gpu[i]
        /\ gpu'[Len(gpu) + 1] = slot
    BY <1>1
  <2>2. DOMAIN gpu = 1 .. Len(gpu) /\ DOMAIN gpu' = 1 .. Len(gpu) + 1 /\ Len(gpu) \in Nat
    BY <1>1, <2>1
  <2>3. QED BY <2>1, <2>2 DEF InFlight
<1>3. TypeOK'
  BY <1>2 DEF TypeOK
<1>4. PendingInv'
  BY <1>1, <1>2 DEF PendingInv, TypeOK
<1>5. SemaphoreInv'
  BY <1>1, <1>2 DEF SemaphoreInv, TypeOK, FlagInv
<1>6. SwapchainInv' /\ FlagInv'
  BY DEF SwapchainInv, TargetsComplete, FlagInv
<1>7. QED BY <1>3, <1>4, <1>5, <1>6

LEMMA PresentStep ==
  ASSUME IInv, NEW optimal \in BOOLEAN, Present(optimal)
  PROVE  IInv'
<1> USE DEF IInv, chain, outside, counts, Fails, Present, NextSlot
<1>1. TypeOK'
  BY SlotInRange DEF TypeOK
<1>2. PendingInv'
  BY DEF PendingInv, InFlight
<1>3. SemaphoreInv'
  BY DEF SemaphoreInv, InFlight, FlagInv
<1>4. SwapchainInv' /\ FlagInv'
  BY DEF SwapchainInv, TargetsComplete, FlagInv
<1>5. QED BY <1>1, <1>2, <1>3, <1>4

LEMMA AbandonStep ==
  ASSUME IInv, BeginWithRecovery \/ Abandon
  PROVE  IInv'
<1>1. /\ Recovered /\ Idle /\ UNCHANGED <<slot, vsync, gpu, outside>>
      /\ pc' \in {"idle", "check"}
  BY DEF BeginWithRecovery, Abandon
<1>2. /\ {active', suboptimal', executed'} \subseteq BOOLEAN
      /\ resizes' \in 0 .. MaxResizes /\ failures' \in 0 .. MaxFailures
  BY DEF BeginWithRecovery, Abandon, ActiveWhenAbandoned, IInv, TypeOK, counts
<1>3. QED BY <1>1, <1>2, RecoveredIInv

LEMMA AbandonUnrecoveredStep ==
  ASSUME IInv, NEW drained \in BOOLEAN, AbandonUnrecovered(drained)
  PROVE  IInv'
<1> USE DEF IInv, chain, outside, Fails, AbandonUnrecovered, ActiveWhenAbandoned
<1>1. TypeOK'
  <2>1. resizes' \in 0 .. MaxResizes /\ failures' \in 0 .. MaxFailures
    BY FailsType DEF TypeOK
  <2>2. semaphore' \in [Slots -> {"free", "signaled", "awaited"}]
    BY DEF TypeOK
  <2>3. QED BY <2>1, <2>2 DEF TypeOK
<1>2. PendingInv'
  BY DEF PendingInv, InFlight
<1>3. SemaphoreInv'
  BY DEF SemaphoreInv, InFlight, TypeOK
<1>4. SwapchainInv' /\ FlagInv'
  BY DEF SwapchainInv, TargetsComplete, FlagInv
<1>5. QED BY <1>1, <1>2, <1>3, <1>4

LEMMA OutsideStep ==
  ASSUME IInv,
         \/ RequestSwapchainRecreation \/ PollWindow
         \/ \E enabled \in BOOLEAN : SetVsync(enabled)
         \/ \E size \in Sizes \cup {0} : ResizeSurface(size)
  PROVE  IInv'
<1> USE DEF IInv, frame, ring, chain, flags, outside, counts,
            RequestSwapchainRecreation, PollWindow, SetVsync, ResizeSurface
<1>1. TypeOK'
  <2>1. resizes' \in 0 .. MaxResizes
    BY FrameAssumption DEF TypeOK
  <2>2. /\ vsync' \in BOOLEAN /\ recreate' \in BOOLEAN
        /\ window' \in Sizes \cup {0} /\ surface' \in Sizes \cup {0}
    BY DEF TypeOK
  <2>3. UNCHANGED <<frame, ring, finished, swapchain, recovery, gpu, failures>>
    OBVIOUS
  <2>4. QED BY <2>1, <2>2, <2>3 DEF TypeOK
<1>2. PendingInv' /\ SemaphoreInv'
  BY DEF PendingInv, SemaphoreInv, InFlight
<1>3. SwapchainInv' /\ FlagInv'
  BY DEF SwapchainInv, TargetsComplete, FlagInv
<1>4. QED BY <1>1, <1>2, <1>3

LEMMA GpuStep ==
  ASSUME IInv, GpuFinishesFrame
  PROVE  IInv'
<1> USE DEF IInv, frame, chain, flags, outside, counts
<1>1. gpu \in Seq(Slots) /\ gpu # << >>
  BY DEF TypeOK, GpuFinishesFrame
<1>2. /\ gpu' \in Seq(Slots) /\ Head(gpu) \in Slots
      /\ \A s \in Slots : InFlight(s) => InFlight(s)' \/ s = Head(gpu)
      /\ \A s \in Slots : InFlight(s)' => InFlight(s)
  <2> HIDE DEF IInv
  <2>1. /\ gpu' \in Seq(Slots) /\ Len(gpu') = Len(gpu) - 1
        /\ \A i \in 1 .. Len(gpu) - 1 : gpu'[i] = gpu[i + 1]
        /\ Head(gpu) = gpu[1] /\ Len(gpu) >= 1
    BY <1>1 DEF GpuFinishesFrame
  <2>2. /\ DOMAIN gpu = 1 .. Len(gpu) /\ DOMAIN gpu' = 1 .. Len(gpu) - 1
        /\ Len(gpu) \in Nat
    BY <1>1, <2>1
  <2>3. Head(gpu) \in Slots
    BY <1>1, <2>1, <2>2
  <2>4. ASSUME NEW s \in Slots, InFlight(s), s # Head(gpu)
        PROVE  InFlight(s)'
    <3>1. PICK i \in DOMAIN gpu : gpu[i] = s
      BY <2>4 DEF InFlight
    <3>2. i - 1 \in DOMAIN gpu' /\ gpu'[i - 1] = s
      BY <2>1, <2>2, <2>4, <3>1
    <3>3. QED BY <3>2 DEF InFlight
  <2>5. ASSUME NEW s \in Slots, InFlight(s)'
        PROVE  InFlight(s)
    <3>1. PICK i \in DOMAIN gpu' : gpu'[i] = s
      BY <2>5 DEF InFlight
    <3>2. i + 1 \in DOMAIN gpu /\ gpu[i + 1] = s
      BY <2>1, <2>2, <3>1
    <3>3. QED BY <3>2 DEF InFlight
  <2>6. QED BY <2>1, <2>3, <2>4, <2>5
<1>3. TypeOK'
  BY <1>2 DEF TypeOK, GpuFinishesFrame
<1>4. PendingInv'
  BY <1>2 DEF PendingInv, GpuFinishesFrame
<1>5. SemaphoreInv'
  <2>1. SUFFICES ASSUME NEW s \in Slots
        PROVE  /\ semaphore'[s] = "awaited" => InFlight(s)'
               /\ semaphore'[s] = "signaled" =>
                    s = slot /\ (recovery \/ pc \in {"record", "abandon"})
    BY DEF SemaphoreInv, GpuFinishesFrame
  <2>2. /\ semaphore'[s] # "free" => semaphore'[s] = semaphore[s]
        /\ semaphore'[s] = "awaited" => s # Head(gpu)
    BY <1>2 DEF TypeOK, GpuFinishesFrame
  <2>3. QED BY <1>2, <2>2 DEF SemaphoreInv
<1>6. SwapchainInv' /\ FlagInv'
  BY DEF SwapchainInv, TargetsComplete, FlagInv, GpuFinishesFrame
<1>7. QED BY <1>3, <1>4, <1>5, <1>6

-----------------------------------------------------------------------------
LEMMA InitIInv == Init => IInv
<1> SUFFICES ASSUME Init PROVE IInv
  OBVIOUS
<1>1. swapchain \in Swapchains \cup {NoSwapchain} /\ finished \in ImageCounts \cup {0}
  BY DEF Init, Swapchains, NoSwapchain
<1>2. TypeOK
  BY <1>1, SlotInRange, FrameAssumption DEF Init, TypeOK
<1>3. PendingInv /\ SemaphoreInv /\ FlagInv
  BY DEF Init, PendingInv, SemaphoreInv, FlagInv, InFlight
<1>4. SwapchainInv
  BY DEF Init, SwapchainInv, TargetsComplete, NoSwapchain
<1>5. QED BY <1>2, <1>3, <1>4 DEF IInv

LEMMA StutterIInv == IInv /\ UNCHANGED vars => IInv'
BY DEF IInv, vars, frame, ring, chain, flags, outside, counts, TypeOK, PendingInv,
       SemaphoreInv, SwapchainInv, FlagInv, TargetsComplete, InFlight

LEMMA NextIInv == IInv /\ [Next]_vars => IInv'
<1> SUFFICES ASSUME IInv, Next PROVE IInv'
  BY StutterIInv
<1>1. CASE Frame
  BY <1>1, CheckStep, AbandonStep, RecreateStep, AcquireStep, SubmitStep, PresentStep DEF Frame
<1>2. CASE Failure
  BY <1>2, RecreateStep, AcquireStep, PresentStep, AbandonUnrecoveredStep DEF Failure
<1>3. CASE Request
  BY <1>3, OutsideStep DEF Request
<1>4. CASE Environment
  BY <1>4, OutsideStep, GpuStep DEF Environment
<1>5. QED BY <1>1, <1>2, <1>3, <1>4 DEF Next

(***************************************************************************)
(* The inductive invariant: what the GPU works on is marked submitted, a    *)
(* semaphore in use has an owner, and an incomplete swapchain is flagged.   *)
(***************************************************************************)
THEOREM Invariance == Spec => []IInv
<1>1. QED BY InitIInv, NextIInv, PTL DEF Spec

(***************************************************************************)
(* The frame manager's state has the types its declarations give it.        *)
(***************************************************************************)
THEOREM Typing == Spec => []TypeOK
<1>1. IInv => TypeOK
  BY DEF IInv
<1>2. QED BY <1>1, Invariance, PTL

(***************************************************************************)
(* A slot is reused only after its query completes: a frame is never        *)
(* recorded for a slot the GPU still works on.                              *)
(***************************************************************************)
THEOREM SlotSafety == Spec => []SlotReusedWhenDone
<1>1. IInv => SlotReusedWhenDone
  BY DEF IInv, TypeOK, PendingInv, InFlight, SlotReusedWhenDone
<1>2. QED BY <1>1, Invariance, PTL

(***************************************************************************)
(* acquireNextImage never gets a semaphore that is in use.                  *)
(***************************************************************************)
THEOREM SemaphoreSafety == Spec => []AcquireSemaphoreFree
<1>1. IInv => AcquireSemaphoreFree
  <2>1. SUFFICES ASSUME IInv, pc = "acquire" PROVE semaphore[slot] = "free"
    BY DEF AcquireSemaphoreFree
  <2>2. slot \in Slots /\ ~submitted[slot] /\ ~recovery
    BY <2>1 DEF IInv, TypeOK, PendingInv, FlagInv
  <2>3. ~InFlight(slot)
    BY <2>1, <2>2 DEF IInv, PendingInv
  <2>4. semaphore[slot] \in {"free", "signaled", "awaited"}
    BY <2>1, <2>2 DEF IInv, TypeOK
  <2>5. QED BY <2>1, <2>2, <2>3, <2>4 DEF IInv, SemaphoreInv
<1>2. QED BY <1>1, Invariance, PTL

(***************************************************************************)
(* Frames are recorded into complete swapchains only, whatever recreation   *)
(* failed before.                                                           *)
(***************************************************************************)
THEOREM TargetSafety == Spec => []FrameTargetsComplete
<1>1. IInv => FrameTargetsComplete
  BY DEF IInv, SwapchainInv, TargetsComplete, FrameTargetsComplete
<1>2. QED BY <1>1, Invariance, PTL
===============================================================================
