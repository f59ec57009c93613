# A TLA+ verification of ArtiChoco

ArtiChoco is a C++20 framework for games and tools: an application loop with
layers, a task system, scenes of entities, a database of assets, projects, and a
renderer on Vulkan. This directory models the parts of it where the order of
steps decides what happens, checks them with TLC on small instances, and proves
the most important results with TLAPS for every value of the constants.

`PROJECT.json` is the index: components, runs, the map from definitions to
lines of the source, faults, findings, hazards and theorems. A definition whose
comment begins with *Fault:* is a plausible bug in the definition after it; with
the fault in its place the run finds a property violated. No specification uses
a fault.

    tlc -workers 2 -config MCTaskSystem.cfg MCTaskSystem
    tlapm TaskSystemProofs.tla

## 1. The system

Paths are relative to `src/artichoco`.

| Component | State | Operations | Works with |
|---|---|---|---|
| task pool, `core/task/task_pool.*` | slots (task, generation, launched), free list, mutex | insert, markLaunched, find, wait, isComplete, reclaimCompleted | owned by the task system; scans read the scheduler's completion flags |
| task system, `core/task/task_system.*` | the instance, enkiTS scheduler | init, shutdown, submit, wait, isComplete, waitForAll, parallelFor, pinned tasks | called from any thread and from task bodies |
| task graph, `core/task/task_graph.*` | nodes, edges, counts of successors | add, addParallelFor, addPinned, submit | hands its storage to a pool slot |
| render frame queue, `renderer/render_frame_queue.h` | ring of slots, two counters, shutdown flag, one condition variable | acquireWriteSlot, publish, waitForNext, releaseReadSlot, waitUntilDrained, shutdown | a game thread and a render thread |
| frame manager and swapchain, `renderer/vulkan/vulkan_frame_*`, `vulkan_swapchain.*` | frame slots, semaphores, event queries, recreation and recovery flags | renderNvrhiFrame, requestSwapchainRecreation, setVsync, recreate | GPU, presentation engine, window; callbacks record the frame |
| scene entities and hierarchy, `scene/scene*.{h,cpp}` | EnTT registry, UUID lookup, parent links, cached world transforms | create, destroy subtree, duplicate, setParent, detach, setLocal, update, clear | systems and the serializer |
| scene serializer and cloner | a staging scene | deserialize, save, clone, copyComponents | replaces a scene's storage |
| scene systems, `scene/scene_system_manager.*` | ordered systems, what is being called | add, remove, enable, update | callbacks may call back or throw |
| asset reconciliation, `asset/asset_manager.*` | catalog, the plan being applied | planReconcile, applyReconcile, import, open | files, importers |
| asset storage, metadata, settings | files in Assets/ and Library/ | scans, reads, writes in place, removals | shared with the user's own tools |
| asset loading, `asset/asset_manager.cpp` 855-945 | weak cache, handles being loaded | load, unloadWithDependents | importers and dependencies |
| project manager, `project/` | the open project | create, open, save | file system |
| application, layers, events, `core/` | layer stack, accumulator, run flag | run, push and pop, onEvent, close | window and layers call each other |
| window and input, `platform/window/`, `core/io/input.cpp` | reference count of SDL, sizes, close flag, mouse state | init, onUpdate, resize, mouse queries and warps | SDL's event queue; the application polls |
| render device and resources, `renderer/render_device.cpp`, `*_buffer.cpp`, `texture_*.cpp` | parts of the device, who shares it, submissions | create, upload, renderFrame, wait, destroy | the frame manager; NVRHI; resources keep their device |
| Vulkan selection, `renderer/vulkan/` | none | choice of GPU, queues, extensions, swapchain | construction of a render device |
| shaders, `renderer/slang_compiler.cpp`, `vulkan/nvrhi_shader_factory.cpp` | one global session and its mutex | compile, make layouts and binding sets | any thread compiles, the render thread binds |

What is hard in it, and what makes each part correct:

- **Task system.** Any number of threads submit and wait while tasks complete,
  with no lock held from insert to markLaunched, or between finding a task and
  waiting for it. enkiTS calls a task complete *before* it is enqueued as well.
  Correct: a handle never answers for another task, nothing the scheduler works
  on is freed, the slot table stays bounded, waits return.
- **Task graph.** The first roots run while later ones are being enqueued; one
  slot owns all nodes. Correct: dependencies hold, nodes run once, the storage
  outlives them, the graph gets complete.
- **Render frame queue.** Indices wrap; slots are used outside the lock; one
  condition variable has three kinds of waiters. Correct: no slot is shared, no
  wake-up lost, frames arrive in order and once, shutdown releases everyone but
  only after what was published has been read.
- **Frame manager.** Every Vulkan call can fail, anywhere in a frame, during
  recovery too; requests come from inside the frame. Correct: slots, semaphores
  and framebuffers are used only when free and complete; frames go on.
- **Scene.** Long sequences of legal edits on links and caches, and operations
  that throw halfway. Correct: the links are a forest, duplicates are copies,
  world transforms are current after an update.
- **Assets.** A plan from one scan is applied by another call, perhaps after
  imports, and step by step to files a user edits meanwhile; writes are torn,
  removals fail, the process dies. Correct: the catalog is what the sidecars say
  wherever the plan was up to date, identities survive, artifacts match their
  sources, reconciling converges. Loading recurses through dependencies that may
  form a circle, over weak pointers. Correct: the cache never answers with an
  asset decoded, itself or through others, from a replaced artifact; the
  catalog's indices agree with its entries; loads return.
- **Scene systems.** Callbacks call the manager that calls them, or throw, while
  it holds a reference into its vector. Correct: the entry held stays; each
  attach is followed by exactly the detaches it should have.
- **Application and window.** Every step of the start and every callback may
  throw; events queued before a call are handled after it. Correct: lifetimes
  nest however `main` ends, sizes and mouse deltas follow the events, the
  backlog of fixed steps is bounded, a close ends the program.
- **Render device.** A resource may be the last owner of its device; a device is
  recognised by an address that may be used again; construction fails at every
  part. Correct: no part goes before what uses it, nothing foreign is recorded,
  the choices made suit the machine, and uploads fill the resource.
- **Shaders.** Layouts and binding sets are derived from a reflection by two
  functions with a table each. Correct: they always fit.

## 2. The modules

    TaskSystem        EXTENDS TaskPool, implements TaskFuture
    TaskGraph         implements TaskFuture
    RenderFrameQueue  implements FrameChannel
    Scene, SceneSystems
    AssetReconcile
    AssetDatabase     EXTENDS AssetCatalog
    FrameManager
    RenderDevice      EXTENDS VulkanSelection, ResourceData
    Shaders
    Application       EXTENDS SDLWindow, FixedTimestep

*Implements* is a refinement, `INSTANCE ... WITH`, whose specification is a
PROPERTY of a run. Each `MC...` module holds what its configurations need, and each
`...Proofs` module the theorems about one or several of these (section 4).

**TaskPool** has the pool's operations as operators on `slots` and `free`.
**TaskSystem** is the callers: `pc[a]` is where actor `a` (a thread or a running
body) is in a call, `cur[a]` the reference it holds. `Submit`, `InsertLock`,
`InsertSlot`, `AddTaskSetToPipe` and `LaunchReturn` are launch; `WaitFind` and
`WaitReturn`, `QueryFind` and `QueryReturn` are wait and isComplete; `ParallelFor`
and `ForkReturn` the blocking loop; `WaitForAll`, `DrainLock` and `DrainReclaim`
waitForAll; `Start` and `Finish` are enkiTS. A scan of the pool is two steps
because tasks complete while it walks: it reclaims all that was reclaimable at
its start and any part of what got so since. Which free slot is popped is left
open. Generations do not wrap (`task_system.h:41` accepts that theirs do).

**TaskGraph** builds any graph (`AddNode`, also with a list of predecessors that
is refused halfway), checks it, takes the slot and enqueues the roots one by one
(`SubmitInsert`, `EnqueueNext`, `SubmitReturn`) against `Start`, `Finish` and the
scans of others (`Reclaim`). It keeps TaskPool's rule for one slot.

**TaskFuture** is what both promise: something is submitted, then finished, and
is reported finished only when it is.

**RenderFrameQueue** has one step per test of a wait's predicate, since member
functions hold the mutex from beginning to end except while blocked, with
spurious wake-ups, and separate steps for the reading and the writing of a slot
outside the lock. **FrameChannel** is a bounded FIFO of frames.

**FrameManager** has `pc` run through renderNvrhiFrame: `Frame` collects the
steps that succeed, `Failure` those that fail (acquire, record, submit, present,
recreate in three places, recovery), `Request` the calls an application may make
between or, as the recording callback, inside frames, `Environment` the window
and the GPU. A size is a number; the index of the acquired image is left out.

**Scene** holds entities by UUID. A matrix is the sequence of local transforms
it is the product of, which tells any stale product from the right one.
`UpdateWorldTransform` is the memoised recursion, with its dirty marks;
`DuplicateEntity`, `DuplicateFails`, `Load` follow the code's order of linking.

**SceneSystems** has the vector of systems, the two flags that guard it and, as
`calls`, the calls of the manager that are inside a callback, each with the entry
it holds on to. A callback is the time between `AddSystem` and `AttachReturns` or
`AttachThrows`, `RemoveSystem` and `DetachReturns` or `DetachThrows`,
`RunSystems` and the last `UpdateReturns` or `UpdateThrows`; in it every
operation may be called. `Destroy` and `ShutdownNext` are the destructor.

**AssetReconcile** has the sources, sidecars, artifacts and catalog as
functions. `PlanReconcile` is one step; `RebuildCatalog`, `RemoveOrphan`,
`ApplyItem` apply it; an import is `ApplyItem` or `ImportDirectly`, then
`WriteArtifact` and `WriteMetadata`, each of which may fail or be cut short;
`EditSource`, `DeleteSourceFile`, `DeleteLibrary`, `DeleteMetadata`, `Author` (a
setting written into a sidecar), `Rename` are the user's and `Crash` is the end
of the process and the next open. planReconcile and applyReconcile are two public
calls, and `applyReconcile` never looks whether its plan is still true. So between
them (`Ready`: no plan, or one not yet applied) the application may import, fail
to, reopen the workspace (`Reopen`) and plan again, and the user may touch
sidecars. `outside` is the history that goes with it: the sources whose sidecars
the catalog was not built from. It is set when a plan is applied, to the sources
whose asset was another one when it was taken (`PlannedFor`, `RecordedFor`), and
by the user; a source leaves it when it is imported, all do when the workspace is
opened.

**AssetCatalog** has the catalog's operations as operators on a record of the
entries and the two indices. **AssetDatabase** is the manager over it, seen from
the side of what it keeps in memory: `Open`, `OpenPackaged`, `Close`, `Import`
with any of a source's products, written or failing after any number of
artifacts, `ApplyReconcile` and `ForgetOrphan` change the catalog entry by entry
(`EraseNext`, `InsertNext`). `TakePlan` copies the sidecars into `plans`, the
plan the application has: it is applied whenever the application likes, after
imports, deletions or another open, and again after that. `LoadCached`, `BeginLoad`, `DependencyFails`,
`Decode`, `DecodeFails` are load with its recursion as `stack`. An asset in
memory is an object with the objects it was decoded with, whether it is
fresh, and whether it is `adrift`: its entry in the catalog was taken away, or
replaced by one with fewer dependencies, while it stayed loaded. It lives while the application, a load or another living object holds it
(`Keep`), which is what the weak pointers in `m_loaded` see. AssetReconcile has
the files and crashes in detail with one output per source, AssetDatabase the
assets and their dependencies with imports as one step.

**FixedTimestep** is the accumulator, **SDLWindow** the window with SDL's queue,
the video subsystem's count and Input's mouse state, both as operators used by
**Application**: `main` (`InitLogger`, `InitTasks`, `CreateApplication`,
`Initialize`, the shutdown in reverse), the pushes with the `onAttach` they are
nested in, the loop phase by phase (`BeginFrame`, `PollEvent`, `TranslateEvent`,
`OnEvent`, `LayerOnEvent`, `OnUpdateReturns`, `LayerReturns`, `EndPhase`), and the
destructor. Whatever the application's own code may do is a choice in
`InCallback`: throw, close, resize, query or warp the mouse, simulate.

**VulkanSelection** and **ResourceData** are pure functions: what is chosen from
what a machine offers, which requests for resources are accepted, which commands
fill the resource. **RenderDevice** runs them: a device is constructed part by
part (`Build...`, `ConstructionFails`), used (`CreateResource`, `OpenFrame`,
`RecordUse`, `SubmitFrame`, `AbandonFrame`), let go by its facade
(`ReleaseFacade`) and destroyed part by part when the last shared pointer goes
(`DropImpl`, `Unwind`, `Free`); `DestroyResource` and `EndDestroy` are the two
ends of a resource's destructor, between which its members go in their order.
What a frame does besides running its passes is FrameManager's.

**Shaders** has the threads that compile (`ReadSource`, `OpenSession` takes the
mutex, `Compile` or `CompileFails` give it back), and `CreateShaderSet` and
`CreateBindingSet`, which accept what the factory accepts.

## 3. The runs

| Run | What it shows | Instance | Distinct states |
|---|---|---|---|
| task_system | handles stay safe, scheduled objects owned; handles implement futures; waits return | 2 tasks, 2 threads; bodies call too | 46,569 |
| task_graph | dependencies, storage, one future for the graph, completion | all graphs of up to 4 nodes | 8,313 |
| frame_queue | no shared slot, no lost wake-up, a FIFO channel, arrival and release | 2 slots, 5 frames | 903 |
| scene | links are a forest; duplicates are sibling copies; local edits reach all descendants; a loaded scene is current | 4 entities, symmetric, 2 local transforms, 4 kinds of documents | 8,036 |
| scene_systems | the entry a call holds stays; attach and detach are paired | 3 systems, 2 stages, calls 2 deep | 35,253 |
| asset_reconcile | catalog and sidecars agree, also after a plan applied late; library current, identity kept, convergence when something is inferred | 2 sources there or not, 2 contents, 2 authored values, 2 UUIDs, 2 user steps, 1 failure | 2,276,723 |
| database | the cache is current through dependencies, with plans of any age; indices agree; loads return | 4 UUIDs, 2 files and an Engine asset, 2 copies, 2 changes | 644,168 |
| frame_manager | slots and semaphores reused when free, targets complete, frames go on | 2 slots, 2 or 3 images, 2 resizes, 3 failures | 234,360 |
| render_device | parts outlive their users; nothing foreign recorded; choices suit the machine; uploads fill | 2 devices, 2 resources, 2 addresses, 4 machines, 13 requests | 279,309 |
| shaders | binding sets fit their layouts | 2 threads, 6 programs, 16 lists of resources | 43,225 |
| application | lifetimes nest; sizes settle; mouse deltas true; backlog bounded; close ends the program | 2 layers, 2 sizes, 2 positions, 2 events, 1 throwing step | 769,702 |
| frame_vsync | a counterexample, section 6 | as frame_manager | |

Why the bounds are enough. Two tasks are the smallest case in which one slot is
reused under an old handle, and each of two threads and two bodies can be at
every point of every call; the proofs remove the bound. Four nodes contain the
diamond, several roots and several leaves. Five frames take both indices of a
ring of two round twice. Four entities give a copy of a subtree of two below a
parent, cycles of any length up to four to be refused, and a chain whose middle
is edited. Three systems let one be added, one removed and one be running; with
the flags checked no call ever gets inside another one's callback, and a depth of
two is where a missing check shows. Two sources, one of which suggests a setting for
the other, two UUIDs, two edits and a failure let a source be renamed, deleted and
brought back around a crash or a write cut short; the two UUIDs may go to one source
each, or both to one that lost the first. An empty start lets a source appear, be planned, and be imported before the plan
is applied. In *database* a texture and a material may come to depend on each
other, a prefab depends on the material and through it on the texture, an import
may be refused or drop an output, and two copies are the asset the application still
holds and its successor in the cache. Two changes are the import that a plan is too
old for and the import that should then unload what the catalog no longer links to it. Three failures
cover a failed frame whose recovery fails and whose next frame fails again. Two devices, two resources and two addresses
let a device be freed and another take its address while resources of the first
were in use; the four machines have a better GPU with separate queue families, an
integrated one with a window whose size is free, one that cannot present and one
with a minimised window; the requests include wrapped products, missing rows and
sides that halve in different numbers of steps. Two events are an event that is
handled and one that waits behind it.

Deadlock is checked where the system should never stop, or says so by a step of
its own (scene, scene systems, asset_reconcile, frame manager, application). The
others do stop: the tasks, the graph and the queue after the last task, node or
frame; render_device where `std::terminate` was called; shaders and database
where every choice left is refused or a bound is reached.

Fairness, as the code justifies it:

- *TaskSystem*: a call that has begun goes on; strong, since `std::mutex` may be
  taken by others in between. enkiTS starts what is queued. A body ends if it can
  end again and again: it makes finitely many calls. Nobody has to start a call.
- *TaskGraph*: submitTo runs to its end, queued nodes start and end.
- *RenderFrameQueue*: threads that were woken or are inside a call run on; the
  consumer keeps reading. The producer and the owner need not call.
- *FrameManager*: the loop goes on calling renderNvrhiFrame (weak, success or
  failure), the GPU finishes what it was given (weak), and events of the window
  are polled between frames (strong, it is possible only there). Failures and
  resizes are bounded, so `FramesContinue` speaks of the time after the last
  one: no sequence of them leaves the loop stuck.
- *AssetDatabase*: a load that has begun goes on (weak): it is one call on one
  thread. Nobody has to begin one.
- *Application*: the main thread goes on, and what it calls returns (weak, for
  the steps of `MainThread`). The user need not do anything, no callback has to
  close, and a layer may use the window between any two steps; the events are
  bounded, so polling them ends.

## 4. What is proved

Eight modules of proofs prove, for all values of the constants, every invariant,
action property and refinement that the runs check. What only TLC checks is the
liveness.

| Module | About | Results |
|---|---|---|
| TaskSystemProofs | TaskPool, TaskSystem | `Typing`, `HandleSafety`, `OwnerSafety`, `TableBound`, `OwnWait` (a wait blocks only on its own task), `ImplementsFutures` |
| TaskGraphProofs | TaskGraph | `Typing`, `DependencySafety`, `StorageSafety`, `ImplementsFuture` |
| RenderFrameQueueProofs | RenderFrameQueue | `Typing`, `SlotExclusion`, `WakeupSafety`, `ImplementsChannel` |
| FrameManagerProofs | FrameManager | `Typing`, `SlotSafety`, `SemaphoreSafety`, `TargetSafety` |
| SceneProofs | Scene, SceneSystems | `SceneTyping`, `Forest`, `Propagation`, `Loading`, `Duplication`; `EntrySafety`, `PairingSafety` |
| AssetProofs | AssetReconcile, AssetDatabase | `CatalogFollows`, `Reconciled`, `Converges`, `Identity`; `CatalogSound`, `CatalogIndices`, `CacheFresh` |
| ApplicationProofs | Application, SDLWindow, FixedTimestep | `Typing`, `Lifetimes`, `Sizing`, `MouseDelta`, `Backlog` |
| RendererProofs | RenderDevice, VulkanSelection, ResourceData, Shaders | `Typing`, `TeardownSafety`, `OwnershipSafety`, `Selection`, `Uploads`; `SetsFit` |

Each component has a theorem `Spec => []IInv` (`Invariance`, or `SceneInvariance`,
`ReconcileInvariance`, `DatabaseInvariance`, `ShadersInvariance`), with an inductive
invariant stated at the end of the model's module, and its properties follow. Type
correctness is part of it, so no run checks it again.

### Assumptions

The bounds are assumed to be natural numbers, and null values to differ from the
others. Beyond that:

- `SceneAssumption`: the UUIDs are finitely many, transforms are products, and a
  document is a list of entities. What is *in* a document is not assumed: cycles,
  missing parents and duplicates are rejected by the model as by the code.
- `DatabaseAssumption`: what importers give are lists; Engine assets have sources
  that exist; and what an earlier session recorded never gives one UUID to two
  assets, which is what open and reconcile refuse (section 5).
- `AssetAssumption`, `WindowAssumption`, `TimestepAssumption`: the types of what is
  suggested, of sizes and positions, and a step of the clock that is positive and not
  longer than the clamp of a frame (`timestep_accumulator.h:14` throws otherwise).
- `RequestAssumption`: the numbers of a request are unsigned, and a texel has
  bytes (`bytesPerTexel` returns 4 or 8). `WidthAssumption`: the widths are not zero.
- `MachineAssumption`: a machine keeps what the Vulkan specification promises (a
  surface's minima do not exceed its maxima, its extent is left open or lies
  between them, zero images stand for no maximum). Which GPUs, queue families,
  formats and present modes there are is not assumed.
- `ShadersAssumption`: counts are natural numbers. Nothing is assumed of programs.

### Why the strengthenings are needed

- *TaskSystem.* HandlesSafe alone says nothing of the steps between insert and
  markLaunched. `SlotInv` says an occupied slot agrees with its task's handle and
  is pending only while that task's submitter is between those steps, so a scan,
  which skips pending slots, takes only finished tasks. `FreeSlotsExact` keeps a
  free slot from being given out twice. `KnownInv` says a known task is in its
  slot or finished with the slot's generation beyond its handle's. `SubmitInv`,
  `FreshInv`, `WaitInv` say what references callers hold, `OwnedInv` who owns what
  the scheduler works on. `LockInv` says the mutex is held exactly during a scan,
  and `PeakInv` that a scan about to grow the table has fewer slots than are needed.
- *TaskGraph.* That the terminator, which waits for the leaves, waits for all nodes
  is an induction over the graph. It is done in the invariant: `LeavesCover` says
  that a set of nodes that has all leaves, and with a node its predecessors, is the
  set of all nodes, and every `AddNode` keeps it; taking the finished nodes for the
  set gives the refinement. `LinkInv` ties the counts of successors to the edges,
  `StateInv` says who started a node and that nothing starts twice, `ArmedInv` when
  the terminator is incomplete, `StepInv` how far submitTo is.
- *RenderFrameQueue.* `ProducerInv` and `ConsumerInv` tie the references held to
  the indices, `SlotsInv` says that slot `i % SlotCount` holds frame `i` for every
  frame published and not consumed, `GotInv` that what was read is a prefix, and
  `WaitingInv` that a sleeper's predicate is false. The arithmetic of the ring is a
  lemma of its own.
- *FrameManager.* `PendingInv`: what the GPU has is marked submitted.
  `SemaphoreInv`: an awaited semaphore belongs to such a frame, a signaled one to
  the current slot of a frame in work or to be recovered. `SwapchainInv`: an
  incomplete swapchain is marked for recreation, and from the wait for the slot to
  the presentation it is complete. `FlagInv`: recovery comes before anything else
  in a frame, and the recreation mark is cleared only by a recreation that succeeds.
- *Scene.* `CacheInv`: a cache that the next visit would find nothing wrong with,
  apart from its parent's, was made from its parent's, unless the entity is
  stranded. A visit goes up the ancestors and memoises, so the proof is about
  the recursive function that it computes: on a forest it has one value
  per entity, since entities have heights, and the value is the true product for
  those with no stranded ancestor. `Loading` needs that between two links of a load
  every clean cache already holds the final product: the parents are all written
  before the first link is made, so each visit goes up complete ancestors.
- *SceneSystems.* `FlagInv`: no call is inside another one's callback, and the
  two flags say which kind of callback is running. `UniqueInv`: a type is
  registered once. `PairInv` adds the system whose callback is running to the
  pairing.
- *AssetReconcile.* `IssuedInv`: a UUID is recorded for one path only, in the
  sidecars, the catalog, the plan or an import under way, although sidecars are renamed
  and the plan may be older than all of them, so an import never takes the entry or the
  artifact of another source that is there. `PlanInv` says what is left of the plan;
  `CatalogInv`, that outside of `outside` each sidecar not about to be removed has its
  entry, and each entry its sidecar or one that was cut short. `JobInv`: an import still holds what the sidecar says, because
  nothing else writes it meanwhile. `ArtifactInv`: a sidecar records what its
  artifact was built from, unless a write failed between the two (`half`).
  `CleanInv`: while nothing fails, nobody edits and nothing was imported since the plan
  was taken, what is planned is still to be done and the rest is done, which is what
  makes the second plan empty.
- *AssetDatabase.* `CatalogSound` first: insert and erase keep the indices in
  agreement with the entries whatever they are given. For the cache, that
  unloadWithDependents finds every object decoded from a replaced artifact needs
  that it follows the *present* index, while the objects were decoded under earlier
  ones. The argument is `Future`, the catalog as it will be when the work under way
  is done, with a set of `Trusted` objects, what load hands out and what these were
  made of: until an object goes adrift, the future catalog has an entry for its handle
  that depends on all its parts (`MadeOf`). An import keeps that, because it unloads
  what it replaces with its dependents before it inserts anything; a rebuild from
  a plan, of whatever age, keeps it for exactly the objects it does not set adrift.
  `SidecarsInv` says that a handle is one asset everywhere, in the sidecars, the plan
  and the future catalog, though its dependencies may differ between them, and
  that the orphans still to be forgotten are not in the future catalog. `CallsInv`
  carries the argument through loads that were interrupted by nothing but their own
  recursion; `EntriesInv` says what entries and the work on them look like.
- *Application.* `StageInv` says what `main` has made at each stage, `LayerInv`
  which layers are attached and when; LifetimesNest is their conjunction with the
  order of the stages. `SizeInv`: the last event of a type that is still queued
  brings the native size, or there is none and the size is that one; this survives
  `resize()`, which writes a size that an older event overwrites again, only because
  a resize queues an event of its own. `MouseInv` and `TickInv` complete it.
- *RenderDevice.* TeardownSafety needs that a resource keeps the device of its
  Impl to the end of its destructor (`ResourceInv`), that what is alive or only
  kept by resources has all its parts (`BuiltInv`), that frames are open on live
  devices only (`FrameInv`), and that a device that is no longer alive has given
  the GPU nothing more (`QuietInv`). OwnershipSafety needs that Impls that exist
  at the same time have different addresses (`AddressInv`). `ChoiceInv` and
  `UploadInv` say that what is recorded as chosen and as filled is what the pure
  functions return; the rest of `Selection` and `Uploads` is about those.
- *Shaders.* What was bound passed the checks of the program it was bound for
  (`BoundInv`); the rest of `SetsFit` compares the two tables.

### Recursion without induction

The library's induction theorems take operators, which these provers cannot
instantiate; what a recursive function computes is proved all the same where it is
needed. A set of natural numbers that is not empty has a least element, so a
counterexample to "for all n there is a function that solves the recursion below n"
has a least n, and there the function for n - 1 is extended by one value. In this way
the recursive functions are shown to exist and to be unique: heights, ancestors,
products and visits in SceneProofs, flattened sequences and the walk along
dependencies in AssetProofs, halvings of a texture's side in RendererProofs. `Uploads`
needs one more fact, that halving with a lower bound of one at each step, which is
how the code goes from level to level (`texture_2d.cpp:19-27`,
`texture_cube.cpp:77`, `nvrhi_mipmap.cpp:126`), is shifting and then clamping, which
is the extent Vulkan gives a level.

### What the proofs found

- The first form of `CacheCurrent`, that every object load finds in the cache is
  current, is false, since `rebuildUserCatalog` (`asset/asset_manager.cpp:669`) erases
  and replaces entries without unloading anything. Section 6 has two ways to a
  stale asset. `CacheCurrent` now excepts what went into assets that are
  `adrift`, and is proved to hold of all others. An asset whose new entry has all the
  dependencies of the old one is not adrift: that is as far as the code goes.
- The first forms of `CatalogIsMetadata` and `IdentityKept` are false when a plan is
  applied late. The proof needs to know which sources such a plan puts out of step;
  they are those whose asset in the plan is not the one in their sidecar, no others,
  and an import or an open puts them in step again.
- `LibraryCurrent` needed a second exception in `half`: an artifact can be written
  again without the sidecar that records it not only by an import that fails, but
  by the import of another file, when the sidecar was renamed away while the catalog
  still had its UUID under the old path (`HandleFor` looks in the catalog).
- `SetsMatchLayouts` said that a resource is bound once. A program with parameters
  of one name in two namespaces has it bound to each of them that has its element;
  the property now says so, and the program `Twins` of the run is one of these.

### Model-checked only

`WaitsReturn`, `GraphCompletes`, `PublishedFramesArrive`, `ShutdownReleases`,
`FramesContinue`, `LoadsReturn` and `CloseEndsProgram`: liveness, because tlapm 1.4.5
proves neither ENABLED nor fairness.

## 5. Bounds and abstractions

- Every bound is a constant: `MaxNodes`, `MaxFrames`, `Ids`, `MaxWorld`,
  `MaxHandles`, `MaxEdits`, `MaxResizes`, `MaxFailures`, `MaxDepth`, `MaxEvents`,
  `MaxDelta`, `MaxThrows`, `MaxJobs`, `MaxChanges`, `Copies`, `MaxCount`, and the
  sets `Tasks`, `Handles`, `Resources`, `Requests`, `Machines`, `Programs`. In scene
  the constraint `Few` lets transforms differ from the identity only while at
  least one UUID is not in use. `Word` and `Wide` stand for the widths of uint32_t
  and size_t, small enough for products to wrap.
- Sequential consistency: the code uses mutexes and enkiTS's atomics.
- A waiting task body has a thread of its own. In the code a waiter runs other
  tasks on its stack, so that a task picked up there which needs the frame below
  it cannot return; that is a hazard of its own (NestedWait, planned).
- Pinned tasks and registration of external threads are left out of TaskSystem.
- The queue's protocol (publish after acquireWriteSlot, and so on) is assumed:
  nothing in the repository calls it yet. The 64-bit counters do not wrap.
- A frame's GPU work finishes in submission order (one graphics queue).
- AssetReconcile: one importer setting with its layers *default*, *inferred* and
  *authored*; one output per source, no dependency order, Engine assets or
  packaged mode; a torn YAML file counts as one that cannot be parsed; UUIDs are
  fresh. A plan is applied once, and each step of applying it may be followed by
  edits of sources but not by other calls, since applyReconcile is one call; while it
  runs nobody but the manager touches sidecars. The application has the plan it
  took last. AssetDatabase also applies that plan again; neither keeps two plans. AssetDatabase has several outputs, dependencies, Engine assets and the
  packaged mode, and an import as one step; an expired weak pointer is removed at
  once, and two sidecars never claim one UUID. `writeFile` and `writeArtifact` test the
  stream before it is closed (`asset/asset_storage.cpp`), so that a file small enough
  for the stream's buffer can be torn by a write that is reported as successful; in
  the models a write that is not complete fails.
- FrameManager: `recreate` also returns false for a zero extent that the surface
  reports after the window's size was tested (`renderer/vulkan/vulkan_swapchain.cpp:162`);
  a recreation that does so while the frame manager is constructed is not modelled.
- Entities are their UUIDs; handles that outlive an entity are not modelled.
- Application: a size is one number for width and height, a position one for both
  coordinates; keys, buttons, wheel, text and focus are one kind of event. Time
  is natural numbers. Layers are pushed before the loop runs.
- RenderDevice: one render thread, with at most one frame open at a time, on whichever
  device (`OpenFrame`): no property relates the frames of two devices. Vulkan and NVRHI are what the code expects of
  them (submissions finish in order, garbage collection frees what is finished).
  An extent is one number, an API version its minor number.
- Shaders: a program is what its reflection says of it; the largest uint16_t is 2.

The exceptions inside the asset properties are facts of the code, each with its
history variable: `half` (an artifact write that failed may be reported Current
by the next plan), `outside` (sidecars touched by the user, those whose asset was
another one when the plan applied last was taken, and those of orphans that
could not be removed, are not what the catalog was built from), torn sidecars
(the UUID in one is lost), and a source that comes back after a plan made its
sidecar an orphan, and a source of which nothing is inferred any more
(`InferredConverges`). In the others: what went into assets that are
`adrift` (`CacheCurrent`), entities whose parent a
change of parent refreshed without them, and what is below them
(`LocalEditsPropagate`, history `stranded`), frames in which the mouse was queried or warped while
motion was queued (`MouseDeltaTrue`), vertex layouts whose products leave
uint32_t (`UploadsCover`), and the systems whose onDetach threw, which are told
again (`AttachDetachPaired`).

## 6. Findings

A run in which TLC violates a property that quotes the repository:

1. `frame_vsync`, `VsyncMarksSwapchain`: a request made while recording is
   overwritten by the result of presenting
   (`renderer/vulkan/vulkan_frame_manager.cpp:204`, `renderer/README.md:28`).

Known divergences without a run of their own. The models behave like the code in
each, and a property that would otherwise fail names it as an exception:

- setParent and detachFromParent (`scene/scene_hierarchy.cpp:56`, `:74`) refresh
  one entity with its ancestors and clear their marks; later updates find nothing
  to do and leave the world transforms of its descendants, and of the ancestors'
  other children, stale, against `scene/README.md:82-84`. `LocalEditsPropagate`
  says that these are the only ones.
- The last inference of a source is never removed (`asset/asset_manager.cpp:682`,
  against the comment at `:701`), and every reconcile imports the source again.
  `InferredConverges` says when it does converge.
- A sidecar renamed with its source is rejected for the path it holds
  (`asset/asset_storage.cpp:146`), and the UUID is lost, against
  `asset/README.md:19` and `:306`. `IdentityKept` speaks of sources that stay.
- After shutdown and init, generations start again and an old handle can match
  (`core/task/task_system.cpp:54`, against `core/task/README.md:104-105`). Within
  one life of the system a wait is always for its own task: `OwnWait`, proved.
- A plan may be applied when it is no longer true, since planReconcile and
  applyReconcile are two calls (`asset/README.md:76-83` has the plan as a report and a
  view) and nothing in the second compares the plan with the disk
  (`asset/asset_manager.cpp:750`), against the comment at `:749`, that the catalog's
  User set is a pure function of the sidecars. Plan when `p` is new; import `p`, which
  gives it a UUID; apply the plan. The rebuild drops the UUID from the catalog, so that
  the Import of `p` that was planned finds no identity to keep (`:343`), makes a
  second UUID and overwrites the sidecar, although no write failed, against `:341-342`:
  references to the first are lost. `CatalogIsMetadata` and `IdentityKept` say that
  only sources in `outside` are affected.
- applyReconcile erases and replaces entries without unloading what was decoded with
  their assets (`asset/asset_manager.cpp:669`), so that a later import does not
  unload every dependent, against `docs/ArtichocoAssetPipeline.md:83`. Delete the
  sidecar of a material on which a cached prefab depends, reconcile, import the texture
  of the material: the prefab stays, with the old texture. Or, with every asset in
  the catalog: take a plan, import a texture again so that it depends on
  a material, load it, apply the plan, which puts the entry without the dependency
  back (when the plan has the texture Current nothing imports it again), import the
  material. `CacheCurrent` excepts what went into such assets.
- The comment at `asset/asset_manager.cpp:316-317` has a failed forced import
  retried by the next reconcile; when the old sidecar still matches the source,
  the next plan finds the truncated artifact Current (`half` in `LibraryCurrent`).
- `renderer/README.md:64` has mip chains made on the CPU; a compute shader makes
  them (`renderer/vulkan/nvrhi_mipmap.cpp`), and ResourceData models that.

## 7. Not modelled, and the plan

Done: TaskPool and TaskSystem, TaskFuture, RenderFrameQueue and FrameChannel,
TaskGraph, Scene, AssetReconcile, FrameManager, Application with SDLWindow and
FixedTimestep, SceneSystems, RenderDevice with VulkanSelection and ResourceData,
Shaders, AssetDatabase with AssetCatalog; proofs of all their invariants, action
properties and refinements.

Not modelled, and why:

- A waiter that runs other tasks on its own stack (a model of its own, NestedWait,
  with a stack of bodies for each thread), pinned tasks and external threads.
- SceneCloner's clone between two scenes and its failure midway, and entity
  handles that outlive a load: both need the registry's versions and pools, where
  Scene has UUIDs.
- popLayer and popOverlay, which nothing in the repository calls, and changes of
  the layer stack while it is iterated, which are undefined behaviour.
- Observers of the window's events one by one (those removed while an event is
  handled are still called for it).
- A frame whose present threw keeps its event query set
  (`vulkan/vulkan_frame_manager.cpp:265`): needs NVRHI's queries in detail.
- renderNvrhiClearFrame, reading textures back, the smoke test.
- The project manager: a sequence of file operations without state in between.
- YAML, paths, logging, and SDL, enkiTS, NVRHI, EnTT, Slang and Vulkan
  themselves, which are modelled only by what the code relies on; tests, examples
  and vendored code.

Worth doing next: refinements between the two models of the assets, which share
the catalog and see the rest at different depth, and NestedWait with its invariant,
that a body picked up while waiting never needs the frame below it.
