----------------------------- MODULE FrameManager -----------------------------
(***************************************************************************)
(* renderer/vulkan/vulkan_frame_manager.cpp with the parts of               *)
(* vulkan_swapchain.cpp and vulkan_frame_policy.h it drives: one render     *)
(* thread that records a frame per call of renderNvrhiFrame into a ring of  *)
(* frame slots, against a GPU that finishes the submitted frames in order,  *)
(* a presentation engine and a window that change under it, and any Vulkan  *)
(* call failing.                                                            *)
(*                                                                          *)
(* pc is where the call is.  Every wait for the GPU is a guard.  A size is  *)
(* a number, 0 for a minimised window; the swapchain is its extent, the     *)
(* vsync setting its present mode was chosen for, its number of images and  *)
(* whether they are all wrapped.  The image acquired is left out: the code  *)
(* indexes one framebuffer and one semaphore per image with it.             *)
(***************************************************************************)
EXTENDS Naturals, Sequences

CONSTANTS FrameSlots,    \* frames_in_flight
          Sizes,         \* framebuffer sizes other than 0
          ImageCounts,   \* numbers of images a swapchain may get
          MaxResizes,    \* bound: changes of the surface
          MaxFailures    \* bound: calls that do not simply succeed

ASSUME FrameAssumption ==
  /\ FrameSlots \in Nat \ {0}
  /\ Sizes \subseteq Nat \ {0} /\ Sizes # {}
  /\ ImageCounts \subseteq Nat \ {0} /\ ImageCounts # {}
  /\ MaxResizes \in Nat /\ MaxFailures \in Nat

VARIABLES
  pc,           \* where renderNvrhiFrame is
  active,       \* m_frame_active
  slot,         \* m_current_frame_slot
  submitted,    \* m_frame_slot_submitted
  semaphore,    \* m_image_available_semaphores: free, signaled or awaited
  finished,     \* the number of m_render_finished_semaphores
  recreate,     \* m_recreate_swapchain
  recovery,     \* m_recovery_required
  swapchain,    \* m_swapchain
  vsync,        \* the swapchain's m_vsync
  suboptimal,   \* acquire_status # Success
  executed,     \* command_list_executed
  window,       \* the framebuffer size the window knows
  surface,      \* the size the surface has
  gpu,          \* the slots of the frames the GPU has not finished
  resizes, failures

frame == <<pc, active, suboptimal, executed>>
ring == <<slot, submitted, semaphore>>
chain == <<finished, swapchain, vsync>>
flags == <<recreate, recovery>>
outside == <<window, surface>>
counts == <<resizes, failures>>
vars == <<frame, ring, chain, flags, outside, gpu, counts>>

Slots == 0 .. FrameSlots - 1

NoSwapchain == [extent |-> 0, vsync |-> FALSE, images |-> 0, wrapped |-> FALSE]

Swapchains == [extent : Sizes, vsync : BOOLEAN, images : ImageCounts, wrapped : BOOLEAN]

TypeOK ==
  /\ pc \in {"idle", "check", "recreate", "wait", "acquire", "out_of_date",
             "record", "present", "abandon"}
  /\ {active, recreate, recovery, vsync, suboptimal, executed} \subseteq BOOLEAN
  /\ slot \in Slots
  /\ submitted \in [Slots -> BOOLEAN]
  /\ semaphore \in [Slots -> {"free", "signaled", "awaited"}]
  /\ finished \in ImageCounts \cup {0}
  /\ swapchain \in Swapchains \cup {NoSwapchain}
  /\ {window, surface} \subseteq Sizes \cup {0}
  /\ gpu \in Seq(Slots)
  /\ resizes \in 0 .. MaxResizes
  /\ failures \in 0 .. MaxFailures

\* The constructor, with a swapchain or (a minimised window) without.
Init ==
  /\ pc = "idle" /\ active = FALSE
  /\ slot = 0
  /\ submitted = [s \in Slots |-> FALSE]
  /\ semaphore = [s \in Slots |-> "free"]
  /\ vsync \in BOOLEAN
  /\ surface \in Sizes \cup {0} /\ window = surface
  /\ \E n \in ImageCounts :
       swapchain = IF surface = 0 THEN NoSwapchain
                   ELSE [extent |-> surface, vsync |-> vsync, images |-> n, wrapped |-> TRUE]
  /\ finished = swapchain.images
  /\ recreate = FALSE /\ recovery = FALSE
  /\ suboptimal = FALSE /\ executed = FALSE
  /\ gpu = << >>
  /\ resizes = 0 /\ failures = 0

-----------------------------------------------------------------------------
Fails == failures < MaxFailures /\ failures' = failures + 1 /\ UNCHANGED resizes

\* m_device.waitIdle: the GPU has finished every frame.
Idle == gpu = << >>

\* Fault: the semaphore of the abandoned frame is kept.
RecoveredKeepingSemaphore ==
  /\ swapchain' = NoSwapchain
  /\ finished' = 0
  /\ submitted' = [submitted EXCEPT ![slot] = FALSE]
  /\ recreate' = TRUE
  /\ recovery' = FALSE
  /\ UNCHANGED semaphore

\* recoverAbandonedFrame, when the device is idle.
Recovered ==
  /\ semaphore' = [semaphore EXCEPT ![slot] = "free"]
  /\ swapchain' = NoSwapchain
  /\ finished' = 0
  /\ submitted' = [submitted EXCEPT ![slot] = FALSE]
  /\ recreate' = TRUE
  /\ recovery' = FALSE

-----------------------------------------------------------------------------
(* renderNvrhiFrame up to the acquired image. *)

BeginFrame ==
  /\ pc = "idle" /\ ~active
  /\ ~recovery
  /\ pc' = "check"
  /\ UNCHANGED <<active, suboptimal, executed, ring, chain, flags, outside, gpu, counts>>

\* The frame before was abandoned and its recovery failed.
BeginWithRecovery ==
  /\ pc = "idle" /\ ~active
  /\ recovery /\ Idle
  /\ Recovered
  /\ pc' = "check"
  /\ UNCHANGED <<active, suboptimal, executed, slot, vsync, outside, gpu, counts>>

\* evaluateFramebufferState: DeferWhileMinimized.
DeferFrame ==
  /\ pc = "check"
  /\ window = 0
  /\ recreate' = TRUE
  /\ pc' = "idle"
  /\ UNCHANGED <<active, suboptimal, executed, ring, chain, recovery, outside, gpu, counts>>

NeedsSwapchain == recreate \/ window # swapchain.extent

CheckFramebuffer ==
  /\ pc = "check"
  /\ window # 0
  /\ recreate' = (recreate \/ NeedsSwapchain)
  /\ pc' = IF NeedsSwapchain THEN "recreate" ELSE "wait"
  /\ UNCHANGED <<active, suboptimal, executed, ring, chain, recovery, outside, gpu, counts>>

\* Where recreateSwapchain is called: before the wait or after a failed acquire.
Recreating == pc \in {"recreate", "out_of_date"} /\ Idle

AfterRecreation == IF pc = "recreate" THEN "wait" ELSE "idle"

RecreateSwapchain ==
  /\ Recreating
  /\ surface # 0
  /\ \E n \in ImageCounts :
       /\ swapchain' = [extent |-> surface, vsync |-> vsync, images |-> n, wrapped |-> TRUE]
       /\ finished' = n
  /\ recreate' = FALSE
  /\ pc' = AfterRecreation
  /\ UNCHANGED <<active, suboptimal, executed, ring, vsync, recovery, outside, gpu, counts>>

\* The surface has no extent: recreate returns false.
NothingToRecreate ==
  /\ Recreating
  /\ surface = 0
  /\ recreate' = TRUE
  /\ pc' = "idle"
  /\ UNCHANGED <<active, suboptimal, executed, ring, chain, recovery, outside, gpu, counts>>

\* Fault: the flag is cleared before the swapchain is recreated.
FlagClearedFirst == FALSE

\* The flag after recreate threw: recreateSwapchain has not assigned it.
FlagAfterThrow == recreate

\* recreateSwapchain throws: before the swapchain is replaced, while its images
\* are wrapped, or (finished = 0 standing for too few) making the semaphores.
Stages == {"swapchain", "images", "semaphores"}

RecreationFails(stage) ==
  /\ Recreating
  /\ surface # 0
  /\ Fails
  /\ IF stage = "swapchain"
     THEN UNCHANGED swapchain
     ELSE \E n \in ImageCounts :
            swapchain' = [extent |-> surface, vsync |-> vsync, images |-> n,
                          wrapped |-> stage = "semaphores"]
  /\ finished' = IF stage = "semaphores" THEN 0 ELSE finished
  /\ recreate' = FlagAfterThrow
  /\ pc' = "idle"
  /\ UNCHANGED <<active, suboptimal, executed, ring, vsync, recovery, outside, gpu>>

\* Fault: the query is reset without a wait for it.
QueryReset(s) == TRUE

\* waitEventQuery has returned: the GPU finished the slot's frame.
QueryCompleted(s) == \A i \in DOMAIN gpu : gpu[i] # s

WaitForSlot ==
  /\ pc = "wait"
  /\ submitted[slot] => QueryCompleted(slot)
  /\ submitted' = [submitted EXCEPT ![slot] = FALSE]
  /\ pc' = "acquire"
  /\ UNCHANGED <<active, suboptimal, executed, slot, semaphore, chain, flags, outside, gpu, counts>>

Acquire(optimal) ==
  /\ pc = "acquire"
  /\ IF optimal THEN UNCHANGED counts ELSE Fails
  /\ semaphore' = [semaphore EXCEPT ![slot] = "signaled"]
  /\ suboptimal' = ~optimal
  /\ executed' = FALSE
  /\ active' = TRUE
  /\ pc' = "record"
  /\ UNCHANGED <<slot, submitted, chain, flags, outside, gpu>>

AcquireOutOfDate ==
  /\ pc = "acquire"
  /\ Fails
  /\ recreate' = TRUE
  /\ pc' = "out_of_date"
  /\ UNCHANGED <<active, suboptimal, executed, ring, chain, recovery, outside, gpu>>

AcquireThrows ==
  /\ pc = "acquire"
  /\ Fails
  /\ pc' = "idle"
  /\ UNCHANGED <<active, suboptimal, executed, ring, chain, flags, outside, gpu>>

-----------------------------------------------------------------------------
(* The frame between the acquired image and its present. *)

\* The callback has returned: waits and signals are queued, the list executed.
Submit ==
  /\ pc = "record"
  /\ gpu' = Append(gpu, slot)
  /\ semaphore' = [semaphore EXCEPT ![slot] = "awaited"]
  /\ submitted' = [submitted EXCEPT ![slot] = TRUE]
  /\ executed' = TRUE
  /\ pc' = "present"
  /\ UNCHANGED <<active, suboptimal, slot, chain, flags, outside, counts>>

\* The callback, or a call up to executeCommandList, throws.
RecordingThrows ==
  /\ pc = "record"
  /\ Fails
  /\ pc' = "abandon"
  /\ UNCHANGED <<active, suboptimal, executed, ring, chain, flags, outside, gpu>>

NextSlot == (slot + 1) % FrameSlots

\* requiresSwapchainRecreation of the two statuses.
Present(optimal) ==
  /\ pc = "present"
  /\ IF optimal THEN UNCHANGED counts ELSE Fails
  /\ recreate' = (suboptimal \/ ~optimal)
  /\ slot' = NextSlot
  /\ active' = FALSE
  /\ pc' = "idle"
  /\ UNCHANGED <<suboptimal, executed, submitted, semaphore, chain, recovery, outside, gpu>>

PresentThrows ==
  /\ pc = "present"
  /\ Fails
  /\ pc' = "abandon"
  /\ UNCHANGED <<active, suboptimal, executed, ring, chain, flags, outside, gpu>>

\* Fault: an abandoned frame stays active.
StillActive == TRUE

\* m_frame_active after the frame was abandoned.
ActiveWhenAbandoned == FALSE

\* The catch block: the acquired image's semaphore is consumed by an empty
\* submission if that still works; either way recovery replaces it.
Abandon ==
  /\ pc = "abandon" /\ Idle
  /\ Recovered
  /\ active' = ActiveWhenAbandoned
  /\ pc' = "idle"
  /\ UNCHANGED <<suboptimal, executed, slot, vsync, outside, gpu, counts>>

\* The catch block, when the recovery fails as well and is left to the next call.
AbandonUnrecovered(drained) ==
  /\ pc = "abandon"
  /\ drained => ~executed /\ Idle
  /\ Fails
  /\ semaphore' = IF drained THEN [semaphore EXCEPT ![slot] = "free"] ELSE semaphore
  /\ recovery' = TRUE
  /\ active' = ActiveWhenAbandoned
  /\ pc' = "idle"
  /\ UNCHANGED <<suboptimal, executed, slot, submitted, chain, recreate, outside, gpu>>

-----------------------------------------------------------------------------
(* Requests of the application, between frames or from a recording callback. *)

RequestSwapchainRecreation ==
  /\ pc \in {"idle", "record"}
  /\ recreate' = TRUE
  /\ UNCHANGED <<frame, ring, chain, recovery, outside, gpu, counts>>

SetVsync(enabled) ==
  /\ pc \in {"idle", "record"}
  /\ vsync # enabled
  /\ vsync' = enabled
  /\ recreate' = TRUE
  /\ UNCHANGED <<frame, ring, finished, swapchain, recovery, outside, gpu, counts>>

(* The window, the surface and the GPU. *)

ResizeSurface(size) ==
  /\ resizes < MaxResizes
  /\ size # surface
  /\ surface' = size
  /\ resizes' = resizes + 1
  /\ UNCHANGED <<frame, ring, chain, flags, window, gpu, failures>>

\* The window's events are processed between frames.
PollWindow ==
  /\ pc = "idle"
  /\ window # surface
  /\ window' = surface
  /\ UNCHANGED <<frame, ring, chain, flags, surface, gpu, counts>>

GpuFinishesFrame ==
  /\ gpu # << >>
  /\ gpu' = Tail(gpu)
  /\ semaphore' = [semaphore EXCEPT ![Head(gpu)] =
                     IF @ = "awaited" THEN "free" ELSE @]
  /\ UNCHANGED <<frame, slot, submitted, chain, flags, outside, counts>>

-----------------------------------------------------------------------------
Frame ==
  \/ BeginFrame \/ BeginWithRecovery
  \/ DeferFrame \/ CheckFramebuffer
  \/ RecreateSwapchain \/ NothingToRecreate
  \/ WaitForSlot
  \/ Acquire(TRUE) \/ Submit \/ Present(TRUE)
  \/ Abandon

Failure ==
  \/ \E stage \in Stages : RecreationFails(stage)
  \/ Acquire(FALSE) \/ AcquireOutOfDate \/ AcquireThrows
  \/ RecordingThrows
  \/ Present(FALSE) \/ PresentThrows
  \/ \E drained \in BOOLEAN : AbandonUnrecovered(drained)

Request == RequestSwapchainRecreation \/ \E enabled \in BOOLEAN : SetVsync(enabled)

Environment ==
  \/ \E size \in Sizes \cup {0} : ResizeSurface(size)
  \/ PollWindow
  \/ GpuFinishesFrame

Next == Frame \/ Failure \/ Request \/ Environment

Spec == Init /\ [][Next]_vars

\* The application renders frame after frame, events are polled, the GPU works.
Fairness == WF_vars(Frame \/ Failure) /\ WF_vars(GpuFinishesFrame) /\ SF_vars(PollWindow)

FairSpec == Spec /\ Fairness

-----------------------------------------------------------------------------
(***************************************************************************)
(* A slot is reused only after its query completes (renderer/README.md):    *)
(* while a frame is recorded for a slot, whose resources the passes index   *)
(* by it, the GPU has no unfinished frame of that slot.                     *)
(***************************************************************************)
SlotReusedWhenDone ==
  pc \in {"acquire", "record"} => \A i \in DOMAIN gpu : gpu[i] # slot

(***************************************************************************)
(* acquireNextImage gets a semaphore nothing has signaled and nothing waits *)
(* for, also after frames that were abandoned and recoveries that failed.   *)
(***************************************************************************)
AcquireSemaphoreFree == pc = "acquire" => semaphore[slot] = "free"

(***************************************************************************)
(* A frame is recorded into a swapchain whose images are all wrapped and    *)
(* have a render-finished semaphore each, whatever recreation failed before *)
(* and wherever.                                                            *)
(***************************************************************************)
FrameTargetsComplete ==
  pc \in {"acquire", "record", "present"} =>
    swapchain.wrapped /\ finished = swapchain.images

(***************************************************************************)
(* RenderDevice::setVsync marks the swapchain for recreation                *)
(* (renderer/README.md): between frames, a swapchain that does not have the *)
(* present mode asked for is going to be recreated.                         *)
(***************************************************************************)
VsyncMarksSwapchain ==
  pc = "idle" /\ swapchain # NoSwapchain => swapchain.vsync = vsync \/ recreate \/ recovery

(***************************************************************************)
(* If the window does not stay minimised, frames keep being presented:      *)
(* neither abandoned frames nor failed recoveries stop the loop.            *)
(***************************************************************************)
FramesContinue == <>[](surface # 0) => []<>(pc = "present")
-----------------------------------------------------------------------------
(* The inductive invariant. *)

InFlight(s) == \E i \in DOMAIN gpu : gpu[i] = s

\* What the GPU has not finished is marked submitted.
PendingInv ==
  /\ \A s \in Slots : InFlight(s) => submitted[s]
  /\ pc \in {"acquire", "record"} => ~submitted[slot]

\* A semaphore that is waited for belongs to a frame of the GPU's, one that is
\* only signaled to the frame being recorded or abandoned.
SemaphoreInv ==
  \A s \in Slots :
    /\ semaphore[s] = "awaited" => InFlight(s)
    /\ semaphore[s] = "signaled" => s = slot /\ (recovery \/ pc \in {"record", "abandon"})

TargetsComplete == swapchain.wrapped /\ finished = swapchain.images

\* A swapchain that is not complete is going to be recreated.
SwapchainInv ==
  /\ pc \in {"wait", "acquire", "record", "present"} => TargetsComplete
  /\ swapchain # NoSwapchain /\ ~TargetsComplete => recreate

FlagInv ==
  /\ pc # "idle" => ~recovery
  /\ pc \in {"recreate", "out_of_date"} => recreate

IInv == TypeOK /\ PendingInv /\ SemaphoreInv /\ SwapchainInv /\ FlagInv
===============================================================================
