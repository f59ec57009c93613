------------------------------ MODULE RenderDevice ------------------------------
(***************************************************************************)
(* renderer/render_device.cpp, render_pass.cpp and the four kinds of        *)
(* resources: who keeps the parts of a RenderDevice alive and when they go, *)
(* and that the GPU is done with them.  One render thread; the GPU finishes *)
(* what was submitted to a device in order, by itself.                      *)
(*                                                                          *)
(* A device is its Impl: the parts built so far, its address, and whether   *)
(* the facade still holds it.  A resource is a VertexBuffer, IndexBuffer,   *)
(* Texture2D or TextureCube: an NVRHI handle and a shared pointer to the    *)
(* Impl, compared by address when a pass uses the resource.  NVRHI keeps    *)
(* what a submitted command list uses until it collects garbage.  A call    *)
(* that is refused changes nothing and is no step; what a frame does        *)
(* besides running its passes is FrameManager's.                            *)
(***************************************************************************)
EXTENDS VulkanSelection, ResourceData, FiniteSetsExt

CONSTANTS Devices,     \* the RenderDevices of the program
          Resources,   \* the resources it makes
          Addresses,   \* where an Impl may be allocated
          NoDevice,    \* a resource that does not exist
          Requests,    \* what resources are asked for with
          Machines,    \* the computers the program may run on
          MaxJobs      \* bound: submissions NVRHI keeps for a device

ASSUME RenderAssumption ==
  /\ NoDevice \notin Devices
  /\ IsFiniteSet(Resources)
  /\ MaxJobs \in Nat

\* The numbers of the requests are unsigned, and every format has bytes.
ASSUME RequestAssumption ==
  \A request \in Requests :
    /\ request.kind \in {"vertex", "index", "texture", "cube"}
    /\ request.kind = "vertex" =>
         /\ request.stride \in Nat /\ request.count \in Nat /\ request.data \in Nat
         /\ \A i \in DOMAIN request.attributes :
              request.attributes[i].offset \in Nat /\ request.attributes[i].floats \in Nat
    /\ request.kind = "index" =>
         request.bytes \in Nat /\ request.count \in Nat /\ request.data \in Nat
    /\ request.kind = "texture" =>
         /\ request.width \in Nat /\ request.height \in Nat /\ request.data \in Nat
         /\ request.mipmaps \in BOOLEAN
    /\ request.kind = "cube" =>
         /\ request.mips \in Seq(Range(request.mips))
         /\ \A level \in DOMAIN request.mips : request.mips[level].size \in Nat
    /\ request.kind \in {"texture", "cube"} => request.texel \in Nat \ {0}

ASSUME MachineAssumption ==
  \A computer \in Machines :
    /\ DOMAIN computer.gpus = 1 .. Len(computer.gpus) /\ Len(computer.gpus) \in Nat
    /\ \A i \in DOMAIN computer.gpus : GpuPromised(computer.gpus[i])
    /\ SurfacePromised(computer.surface)
    /\ computer.framebuffer \in Nat

VARIABLES
  machine,     \* the computer: loader, GPUs and surface
  phase,       \* phase[d]: none, constructing, alive, released or unwinding
  built,       \* built[d]: how many of the Impl's Parts exist
  address,     \* address[d]: where the Impl is
  selected,    \* selected[d]: the index of the GPU in use
  swapchain,   \* swapchain[d]: the choices made for it
  device_of,   \* device_of[r]: the device that made the resource
  upload,      \* how the last resource was filled, [request, commands]
  closing,     \* the resources whose destructor is running
  frame,       \* frame[d]: what the open command list uses, if one is open
  queue,       \* queue[d]: what each submission NVRHI still keeps uses
  done,        \* done[d]: how many of those the GPU has finished
  terminated   \* an exception left a destructor

parts == <<phase, built, address>>
chosen == <<machine, selected, swapchain, upload>>
gpu == <<queue, done>>
vars == <<parts, chosen, device_of, closing, frame, gpu, terminated>>

\* The members of RenderDevice::Impl, in order.
Parts == <<"surface_source", "context", "surface", "device", "nvrhi_device", "frame_manager">>
Nvrhi == 5

Phases == {"none", "constructing", "alive", "released", "unwinding"}

\* frame[d] without an open command list.
Closed == [open |-> FALSE, uses |-> {}]

TypeOK ==
  /\ machine \in Machines
  /\ phase \in [Devices -> Phases]
  /\ built \in [Devices -> 0 .. Len(Parts)]
  /\ address \in [Devices -> Addresses]
  /\ device_of \in [Resources -> Devices \cup {NoDevice}]
  /\ closing \subseteq Resources
  /\ frame \in [Devices -> [open : BOOLEAN, uses : SUBSET Resources]]
  /\ queue \in [Devices -> Seq(SUBSET Resources)]
  /\ done \in [Devices -> Nat]
  /\ terminated \in BOOLEAN

NoChoice == [format |-> [surface |-> "undefined", view |-> "undefined", mutable |-> FALSE],
             mode |-> "fifo", extent |-> 0, images |-> 0, alpha |-> "opaque",
             sharing |-> "exclusive"]

NoUpload == [request |-> [kind |-> "none"], commands |-> <<>>]

Init ==
  /\ machine \in Machines
  /\ phase = [d \in Devices |-> "none"]
  /\ built = [d \in Devices |-> 0]
  /\ \E a \in Addresses : address = [d \in Devices |-> a]
  /\ selected = [d \in Devices |-> None]
  /\ swapchain = [d \in Devices |-> NoChoice]
  /\ device_of = [r \in Resources |-> NoDevice]
  /\ upload = NoUpload
  /\ closing = {}
  /\ frame = [d \in Devices |-> Closed]
  /\ queue = [d \in Devices |-> <<>>]
  /\ done = [d \in Devices |-> 0]
  /\ terminated = FALSE

-----------------------------------------------------------------------------
Exists(r) == device_of[r] # NoDevice

\* Fault: the members of the resources' Impls are the other way round.
MembersSwapped == <<"handle", "owner">>

\* The members of the resources' Impls that count: the last one goes first.
Members == <<"owner", "handle">>

Held(r, member) == Exists(r) /\ (r \notin closing \/ Members[1] = member)

HandleHeld(r) == Held(r, "handle")

OwnerHeld(r) == Held(r, "owner")

Unreferenced(d) ==
  phase[d] = "released" /\ \A r \in Resources : ~(OwnerHeld(r) /\ device_of[r] = d)

\* What is being destroyed is destroyed before the thread goes on.
Tearing == closing # {} \/ \E d \in Devices : phase[d] = "unwinding" \/ Unreferenced(d)

Constructing == \E d \in Devices : phase[d] = "constructing"

\* The program may call the renderer.
Callable == ~terminated /\ ~Tearing /\ ~Constructing

Uses(d) == UNION Range(queue[d])

\* The NVRHI object exists, handle or not.
Native(r) == Exists(r) \/ \E d \in Devices : r \in Uses(d) \cup frame[d].uses

Occupied == {address[d] : d \in {e \in Devices : phase[e] # "none"}}

-----------------------------------------------------------------------------
(* The constructor: the parts one by one, each of which may fail. *)

\* make_shared<Impl>.
Construct(d) ==
  /\ Callable
  /\ phase[d] = "none"
  /\ \E a \in Addresses \ Occupied : address' = [address EXCEPT ![d] = a]
  /\ phase' = [phase EXCEPT ![d] = "constructing"]
  /\ UNCHANGED <<built, chosen, device_of, closing, frame, gpu, terminated>>

Builds(d, part) ==
  /\ phase[d] = "constructing" /\ built[d] < Len(Parts)
  /\ part = Parts[built[d] + 1]
  /\ built' = [built EXCEPT ![d] = @ + 1]
  /\ phase' = [phase EXCEPT ![d] = IF built[d] + 1 = Len(Parts) THEN "alive" ELSE @]
  /\ UNCHANGED <<machine, upload, address, device_of, closing, frame, gpu, terminated>>

BuildSurfaceSource(d) == Builds(d, "surface_source") /\ UNCHANGED <<selected, swapchain>>

BuildContext(d) ==
  /\ Builds(d, "context")
  /\ \E wanted \in BOOLEAN : CanCreateInstance(machine.loader, {"surface"}, wanted)
  /\ UNCHANGED <<selected, swapchain>>

BuildSurface(d) == Builds(d, "surface") /\ UNCHANGED <<selected, swapchain>>

BuildDevice(d) ==
  /\ Builds(d, "device")
  /\ SelectDevice(machine.gpus) # None
  /\ selected' = [selected EXCEPT ![d] = SelectDevice(machine.gpus)]
  /\ UNCHANGED swapchain

BuildNvrhiDevice(d) == Builds(d, "nvrhi_device") /\ UNCHANGED <<selected, swapchain>>

\* The frame manager's constructor makes the first swapchain, if the window
\* is not minimised.
BuildFrameManager(d) ==
  /\ Builds(d, "frame_manager")
  /\ LET choice == Swapchain(machine.gpus[selected[d]], machine.surface, machine.framebuffer, machine.vsync)
     IN  \/ /\ machine.framebuffer = 0
            /\ UNCHANGED swapchain
         \/ /\ machine.framebuffer # 0
            /\ CanCreateSwapchain(machine.surface)
            /\ choice.format.view \in NvrhiFormats
            /\ swapchain' = [swapchain EXCEPT ![d] = choice]
  /\ UNCHANGED selected

\* A part throws (moving the surface source does not): those built before it
\* are destroyed, and no Impl ever existed.
ConstructionFails(d) ==
  /\ phase[d] = "constructing" /\ built[d] > 0
  /\ phase' = [phase EXCEPT ![d] = "unwinding"]
  /\ UNCHANGED <<built, address, chosen, device_of, closing, frame, gpu, terminated>>

-----------------------------------------------------------------------------
(* NVRHI's submissions. *)

Submitted(d, uses) == [queue EXCEPT ![d] = Append(@, uses)]

Idle(d) == done[d] = Len(queue[d])

\* The GPU.
Finish(d) ==
  /\ done[d] < Len(queue[d])
  /\ done' = [done EXCEPT ![d] = @ + 1]
  /\ UNCHANGED <<parts, chosen, device_of, closing, frame, queue, terminated>>

\* runGarbageCollection: what the GPU has finished is let go.
Collected(d, jobs) ==
  /\ queue' = [queue EXCEPT ![d] = SubSeq(jobs, done[d] + 1, Len(jobs))]
  /\ done' = [done EXCEPT ![d] = 0]

\* waitIdle blocks until the GPU has finished, then collects.
WaitsIdle(d) == Idle(d) /\ Collected(d, queue[d])

WaitIdle(d) ==
  /\ Callable /\ phase[d] = "alive" /\ queue[d] # <<>>
  /\ WaitsIdle(d)
  /\ UNCHANGED <<parts, chosen, device_of, closing, frame, terminated>>

-----------------------------------------------------------------------------
(* Resources.  Creating one submits its upload; a pass may do it too. *)

CreateResource(d, r, request) ==
  /\ Callable /\ phase[d] = "alive"
  /\ ~Native(r)
  /\ Accepts(request)
  /\ Len(queue[d]) < MaxJobs
  /\ queue' = Submitted(d, {r})
  /\ device_of' = [device_of EXCEPT ![r] = d]
  /\ upload' = [request |-> request, commands |-> Upload(request)]
  /\ UNCHANGED <<parts, machine, selected, swapchain, closing, frame, done, terminated>>

\* The destructor of a resource, after its last member ...
DestroyResource(r) ==
  /\ Callable
  /\ Exists(r)
  /\ closing' = closing \cup {r}
  /\ UNCHANGED <<parts, chosen, device_of, frame, gpu, terminated>>

\* ... and to its end, once what that let go is gone.
EndDestroy(r) ==
  /\ r \in closing
  /\ \A d \in Devices : phase[d] # "unwinding"
  /\ closing' = closing \ {r}
  /\ device_of' = [device_of EXCEPT ![r] = NoDevice]
  /\ UNCHANGED <<parts, chosen, frame, gpu, terminated>>

-----------------------------------------------------------------------------
(* Frames. *)

\* renderFrame, when the frame manager has an image to render to.
OpenFrame(d) ==
  /\ Callable /\ phase[d] = "alive"
  /\ \A e \in Devices : ~frame[e].open
  /\ swapchain[d] # NoChoice
  /\ Len(queue[d]) < MaxJobs
  /\ frame' = [frame EXCEPT ![d] = [open |-> TRUE, uses |-> {}]]
  /\ UNCHANGED <<parts, chosen, device_of, closing, gpu, terminated>>

\* Fault: an overload without the check.
BelongsUnchecked(r, d) == TRUE

\* isOwnedBy, against the address of the device that records.
BelongsTo(r, d) == address[device_of[r]] = address[d]

\* RenderPassContext::buffer or texture.
RecordUse(d, r) ==
  /\ Callable
  /\ frame[d].open /\ Exists(r)
  /\ BelongsTo(r, d)
  /\ r \notin frame[d].uses
  /\ frame' = [frame EXCEPT ![d].uses = @ \cup {r}]
  /\ UNCHANGED <<parts, chosen, device_of, closing, gpu, terminated>>

\* The command list is executed and the frame presented.
SubmitFrame(d) ==
  /\ Callable /\ frame[d].open
  /\ Len(queue[d]) < MaxJobs
  /\ Collected(d, Append(queue[d], frame[d].uses))
  /\ frame' = [frame EXCEPT ![d] = Closed]
  /\ UNCHANGED <<parts, chosen, device_of, closing, terminated>>

\* A pass throws, for a foreign resource or for reasons of its own.  What was
\* recorded is executed, and after a wait for the GPU all is collected ...
AbandonFrame(d) ==
  /\ Callable /\ frame[d].open
  /\ Idle(d)
  /\ queue' = [queue EXCEPT ![d] = <<>>]
  /\ done' = [done EXCEPT ![d] = 0]
  /\ frame' = [frame EXCEPT ![d] = Closed]
  /\ UNCHANGED <<parts, chosen, device_of, closing, terminated>>

\* ... unless the waits fail as well.
AbandonFails(d) ==
  /\ Callable /\ frame[d].open
  /\ Len(queue[d]) < MaxJobs
  /\ queue' = Submitted(d, frame[d].uses)
  /\ frame' = [frame EXCEPT ![d] = Closed]
  /\ UNCHANGED <<parts, chosen, device_of, closing, done, terminated>>

-----------------------------------------------------------------------------
(* The end of a device. *)

\* ~RenderDevice: shutdown, then the facade lets go of the Impl.
ReleaseFacade(d) ==
  /\ Callable /\ phase[d] = "alive"
  /\ ~frame[d].open
  /\ WaitsIdle(d)
  /\ phase' = [phase EXCEPT ![d] = "released"]
  /\ UNCHANGED <<built, address, chosen, device_of, closing, frame, terminated>>

\* The wait throws in the destructor.
ReleaseThrows(d) ==
  /\ Callable /\ phase[d] = "alive"
  /\ ~frame[d].open
  /\ terminated' = TRUE
  /\ UNCHANGED <<parts, chosen, device_of, closing, frame, gpu>>

\* The last shared pointer goes: ~Impl finds the shutdown done.
DropImpl(d) ==
  /\ Unreferenced(d)
  /\ phase' = [phase EXCEPT ![d] = "unwinding"]
  /\ UNCHANGED <<built, address, chosen, device_of, closing, frame, gpu, terminated>>

\* The parts are destroyed, last one first; the NVRHI device lets go of what
\* it keeps.
Unwind(d) ==
  /\ phase[d] = "unwinding" /\ built[d] > 0
  /\ built' = [built EXCEPT ![d] = @ - 1]
  /\ IF built[d] = Nvrhi
     THEN queue' = [queue EXCEPT ![d] = <<>>] /\ done' = [done EXCEPT ![d] = 0]
     ELSE UNCHANGED gpu
  /\ UNCHANGED <<phase, address, chosen, device_of, closing, frame, terminated>>

\* The memory is freed; a new RenderDevice may be made.
Free(d) ==
  /\ phase[d] = "unwinding" /\ built[d] = 0
  /\ phase' = [phase EXCEPT ![d] = "none"]
  /\ selected' = [selected EXCEPT ![d] = None]
  /\ swapchain' = [swapchain EXCEPT ![d] = NoChoice]
  /\ UNCHANGED <<built, address, machine, upload, device_of, closing, frame, gpu, terminated>>

-----------------------------------------------------------------------------
Next ==
  \/ \E d \in Devices :
       \/ Construct(d)
       \/ BuildSurfaceSource(d) \/ BuildContext(d) \/ BuildSurface(d)
       \/ BuildDevice(d) \/ BuildNvrhiDevice(d) \/ BuildFrameManager(d)
       \/ ConstructionFails(d)
       \/ Finish(d) \/ WaitIdle(d)
       \/ OpenFrame(d) \/ SubmitFrame(d) \/ AbandonFrame(d) \/ AbandonFails(d)
       \/ ReleaseFacade(d) \/ ReleaseThrows(d) \/ DropImpl(d) \/ Unwind(d) \/ Free(d)
       \/ \E r \in Resources :
            RecordUse(d, r) \/ \E request \in Requests : CreateResource(d, r, request)
  \/ \E r \in Resources : DestroyResource(r) \/ EndDestroy(r)

Spec == Init /\ [][Next]_vars

-----------------------------------------------------------------------------
(***************************************************************************)
(* As long as there is a native object of a device that the program can     *)
(* reach, by a resource's handle or an open command list, the NVRHI device  *)
(* it belongs to exists, with the Vulkan device and instance under it; and  *)
(* no part of a device is destroyed while the GPU works for it, although    *)
(* only the facade waits and resources may keep the Impl long after it      *)
(* (renderer/README.md: "waitForIdle and runGarbageCollection provide       *)
(* GPU-safe destruction").  In whatever order resources, frames and facades *)
(* go, also when a device is made, fails to be made or goes while another   *)
(* one is in use.                                                           *)
(***************************************************************************)
PartsOutliveUsers ==
  /\ \A r \in Resources : HandleHeld(r) => built[device_of[r]] >= Nvrhi
  /\ \A d \in Devices : frame[d].open => built[d] = Len(Parts)
  /\ \A d \in Devices : phase[d] = "unwinding" => Idle(d)

(***************************************************************************)
(* A device only ever records and runs commands on its own resources,       *)
(* although the check compares the addresses of Impls, and one that died    *)
(* may have had the address of one that lives.                              *)
(***************************************************************************)
ForeignNeverRecorded ==
  \A d \in Devices : \A r \in frame[d].uses \cup Uses(d) : device_of[r] \in {d, NoDevice}

(***************************************************************************)
(* What was chosen works on the machine at hand: the queue families of the  *)
(* selected GPU can do what they are for, no better GPU was left out, and   *)
(* the swapchain has a format the surface offers, a number of images and an *)
(* extent within its limits, and shares its images if it must.              *)
(***************************************************************************)
SelectionUsable ==
  \A d \in Devices : selected[d] # None =>
    LET g        == machine.gpus[selected[d]]
        families == FindQueueFamilies(g)
    IN  /\ g.families[families.graphics].graphics /\ g.families[families.present].present
        /\ \A i \in DOMAIN machine.gpus : DeviceScore(machine.gpus[i]) <= DeviceScore(g)
        /\ swapchain[d] # NoChoice =>
             /\ Offers(g.formats, swapchain[d].format.surface)
             /\ swapchain[d].format.mutable => "swapchain_mutable_format" \in DeviceExtensions(g)
             /\ swapchain[d].format.view \in {"R8G8B8A8Srgb", "B8G8R8A8Srgb"} \/
                swapchain[d].format.view = g.formats[1]
             /\ swapchain[d].mode \in g.modes \cup {"fifo"}
             /\ swapchain[d].images >= machine.surface.min_images
             /\ machine.surface.max_images # 0 => swapchain[d].images <= machine.surface.max_images
             /\ swapchain[d].extent \in machine.surface.min .. machine.surface.max
             /\ swapchain[d].alpha \in machine.surface.alpha
             /\ families.graphics # families.present => swapchain[d].sharing = "concurrent"

(***************************************************************************)
(* A resource that was made is full: whatever a pass may read of it is      *)
(* written by the commands that were submitted with it, which read only     *)
(* what is in the caller's data or was written before.  A chain of mipmaps  *)
(* ends with one texel.  Excepted are layouts and vertex counts whose       *)
(* products leave uint32_t, which the checks compare after they wrapped.    *)
(***************************************************************************)
UploadsCover == upload # NoUpload => Covered(upload.request, upload.commands)

-----------------------------------------------------------------------------
(***************************************************************************)
(* Why: the inductive invariant behind the four.                            *)
(***************************************************************************)

\* A resource keeps the Impl of its device to the end of its destructor.
ResourceInv ==
  /\ \A r \in closing : Exists(r)
  /\ \A r \in Resources : Exists(r) => phase[device_of[r]] \in {"alive", "released"}

BuiltInv == \A d \in Devices : phase[d] \in {"alive", "released"} => built[d] = Len(Parts)

FrameInv ==
  \A d \in Devices : /\ frame[d].open => phase[d] = "alive"
                     /\ ~frame[d].open => frame[d].uses = {}

\* Impls that exist at the same time have different addresses.
AddressInv ==
  \A d, e \in Devices :
    phase[d] # "none" /\ phase[e] # "none" /\ address[d] = address[e] => d = e

\* Only a device that is alive has given anything to the GPU.
QuietInv == \A d \in Devices : phase[d] # "alive" => queue[d] = <<>> /\ done[d] = 0

\* Devices of one machine choose the same.
ChoiceInv ==
  /\ selected \in [Devices -> {None, SelectDevice(machine.gpus)}]
  /\ DOMAIN swapchain = Devices
  /\ \A d \in Devices :
       /\ phase[d] = "none" => built[d] = 0
       /\ phase[d] = "constructing" /\ built[d] >= 4 => selected[d] # None
       /\ swapchain[d] # NoChoice =>
            /\ selected[d] # None /\ CanCreateSwapchain(machine.surface)
            /\ swapchain[d] = Swapchain(machine.gpus[selected[d]], machine.surface,
                                        machine.framebuffer, machine.vsync)

LifetimeInv ==
  /\ TypeOK /\ ResourceInv /\ BuiltInv /\ FrameInv /\ AddressInv /\ QuietInv
  /\ ForeignNeverRecorded

UploadInv ==
  upload # NoUpload =>
    /\ upload.request \in Requests /\ Accepts(upload.request)
    /\ upload.commands = Upload(upload.request)

IInv == LifetimeInv /\ ChoiceInv /\ UploadInv
================================================================================
