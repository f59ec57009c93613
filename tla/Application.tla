------------------------------- MODULE Application -----------------------------
(***************************************************************************)
(* core/: main() in entry_point.cpp, Application with its main loop, and the *)
(* layer stack, over the window of SDLWindow.                                *)
(*                                                                          *)
(* The main thread runs one call at a time; where it is inside another call  *)
(* is recorded in `phase', `at' and `event'.  A layer's or observer's        *)
(* callback is a choice of what it may do: return, mark the event handled,   *)
(* close the application, use the window, throw.  Layers are pushed before   *)
(* run(), also by the onAttach of another layer; a push while the stack is   *)
(* iterated over invalidates the iterators and is left out.                  *)
(***************************************************************************)
EXTENDS SDLWindow, FixedTimestep, SequencesExt

CONSTANT Layers   \* the layers an application may push

VARIABLES
  stage,        \* how far main() is
  logger,       \* Logger is initialised
  tasks,        \* TaskSystem's instance exists
  running,      \* m_is_running
  layers,       \* m_layers
  insertIndex,  \* m_layer_insert_index
  attaching,    \* the pushes whose onAttach is running, the innermost last
  attached,     \* history: the layers whose onAttach returned and onDetach was not called
  phase,        \* what run() or the destructor is doing
  at,           \* the position of its iterator
  event         \* the event being handled

NoEvent == [type |-> "none"]

loop == <<phase, at, event>>
stack == <<layers, insertIndex, attaching, attached>>
process == <<stage, logger, tasks, running>>
vars == <<process, stack, loop, windowVars, timestepVars>>

Kinds == {"layer", "overlay"}

TypeOK ==
  /\ WindowTypeOK
  /\ TimestepTypeOK
  /\ stage \in {"start", "logging", "tasks", "making", "configuring", "running", "destroying",
                "stopping", "flushing", "exited", "terminated"}
  /\ logger \in BOOLEAN /\ tasks \in BOOLEAN /\ running \in BOOLEAN
  /\ layers \in Seq([layer : Layers, kind : Kinds])
  /\ insertIndex \in 0 .. Len(layers)
  /\ attaching \in Seq([layer : Layers, kind : Kinds])
  /\ attached \subseteq Layers
  /\ phase \in {"idle", "poll", "observe", "translate", "dispatch", "update", "imgui", "render"}
  /\ at \in 0 .. Len(layers) + 1
  /\ event \in Event \cup {NoEvent}

Init ==
  /\ WindowInit
  /\ TimestepInit
  /\ stage = "start"
  /\ logger = FALSE /\ tasks = FALSE
  /\ running = TRUE
  /\ layers = <<>> /\ insertIndex = 0 /\ attaching = <<>> /\ attached = {}
  /\ phase = "idle" /\ at = 0 /\ event = NoEvent

-----------------------------------------------------------------------------
(* main(). *)

\* An exception reaches main's catch; the application is destroyed on the way.
Unwound == IF window = "none" THEN "stopping" ELSE "destroying"

Throws ==
  /\ stage' = Unwound
  /\ phase' = "idle" /\ at' = 0 /\ event' = NoEvent
  /\ UNCHANGED <<logger, tasks, running, stack, windowVars, timestepVars>>

InitLogger ==
  /\ stage = "start"
  /\ logger' \in BOOLEAN
  /\ stage' = IF logger' THEN "logging" ELSE "stopping"
  /\ UNCHANGED <<tasks, running, stack, loop, windowVars, timestepVars>>

InitTasks ==
  /\ stage = "logging"
  /\ tasks' \in BOOLEAN
  /\ stage' = IF tasks' THEN "tasks" ELSE "stopping"
  /\ UNCHANGED <<logger, running, stack, loop, windowVars, timestepVars>>

\* createApplication: initialize() up to the factory; it may throw before.
CreateApplication ==
  /\ stage = "tasks"
  /\ \/ MakeWindow /\ stage' = "making"
     \/ stage' = "stopping" /\ UNCHANGED windowVars
  /\ UNCHANGED <<logger, tasks, running, stack, loop, timestepVars>>

\* The rest of initialize(); a failure destroys window and application.
Initialize ==
  /\ stage = "making"
  /\ \/ InitWindow /\ stage' = "configuring"
     \/ \E sdlStarted \in BOOLEAN : InitWindowFails(sdlStarted) /\ stage' = "stopping"
  /\ UNCHANGED <<logger, tasks, running, stack, loop, timestepVars>>

\* Fault: the logger is shut down first.
ShutdownLoggerFirst ==
  /\ stage = "stopping"
  /\ logger' = FALSE
  /\ stage' = "flushing"
  /\ UNCHANGED <<tasks, running, stack, loop, windowVars, timestepVars>>

ShutdownTasks ==
  /\ stage = "stopping"
  /\ tasks' = FALSE
  /\ stage' = "flushing"
  /\ UNCHANGED <<logger, running, stack, loop, windowVars, timestepVars>>

ShutdownLogger ==
  /\ stage = "flushing"
  /\ logger' = FALSE
  /\ stage' = "exited"
  /\ UNCHANGED <<tasks, running, stack, loop, windowVars, timestepVars>>

-----------------------------------------------------------------------------
(* The layer stack.  onAttach runs before the layer is in it. *)

Pushed(entry) == IF entry.kind = "layer" THEN InsertAt(layers, insertIndex + 1, entry)
                                         ELSE Append(layers, entry)

BeginPush(layer, kind) ==
  /\ stage = "configuring"
  /\ layer \notin attached \cup Range([i \in DOMAIN attaching |-> attaching[i].layer])
  /\ attaching' = Append(attaching, [layer |-> layer, kind |-> kind])
  /\ UNCHANGED <<process, layers, insertIndex, attached, loop, windowVars, timestepVars>>

EndPush ==
  /\ attaching # <<>>
  /\ layers' = Pushed(Last(attaching))
  /\ insertIndex' = insertIndex + (IF Last(attaching).kind = "layer" THEN 1 ELSE 0)
  /\ attached' = attached \cup {Last(attaching).layer}
  /\ attaching' = Front(attaching)
  /\ UNCHANGED <<process, loop, windowVars, timestepVars>>

\* onAttach throws, through the pushes it is nested in.
PushThrows ==
  /\ attaching # <<>>
  /\ attaching' = <<>>
  /\ stage' = Unwound
  /\ UNCHANGED <<logger, tasks, running, layers, insertIndex, attached, loop, windowVars,
                 timestepVars>>

Run ==
  /\ stage = "configuring" /\ attaching = <<>>
  /\ stage' = "running"
  /\ UNCHANGED <<logger, tasks, running, stack, loop, windowVars, timestepVars>>

\* detachAll, from the top; at counts the layers already detached.
DetachLayer ==
  /\ stage = "destroying" /\ at < Len(layers)
  /\ attached' = attached \ {layers[Len(layers) - at].layer}
  /\ at' = at + 1
  /\ UNCHANGED <<process, layers, insertIndex, attaching, phase, event, windowVars,
                 timestepVars>>

\* ~Application is noexcept.
DetachThrows ==
  /\ stage = "destroying" /\ at < Len(layers)
  /\ stage' = "terminated"
  /\ UNCHANGED <<logger, tasks, running, stack, loop, windowVars, timestepVars>>

DestroyApplication ==
  /\ stage = "destroying" /\ at = Len(layers)
  /\ layers' = <<>> /\ insertIndex' = 0
  /\ DestroyWindow
  /\ at' = 0
  /\ stage' = "stopping"
  /\ UNCHANGED <<logger, tasks, running, attaching, attached, phase, event,
                 timestepVars>>

-----------------------------------------------------------------------------
(* run(). *)

\* Fault: close() is not looked at.
WindowClosed == shouldClose

Ended == ~running \/ shouldClose

BeginFrame ==
  /\ stage = "running" /\ phase = "idle"
  /\ ~Ended
  /\ phase' = "poll"
  /\ ResetFrameState
  /\ UNCHANGED <<process, stack, at, event, timestepVars>>

RunReturns ==
  /\ stage = "running" /\ phase = "idle"
  /\ Ended
  /\ stage' = "destroying"
  /\ UNCHANGED <<logger, tasks, running, stack, loop, windowVars, timestepVars>>

PollEvent ==
  /\ phase = "poll" /\ queue # <<>>
  /\ event' = Head(queue)
  /\ queue' = Tail(queue)
  /\ phase' = "observe"
  /\ UNCHANGED <<process, stack, at, platform, window, shouldClose, size, framebuffer,
                 pointer, surface, posted, input, timestepVars>>

\* handleEvent, after the observers were called.
TranslateEvent ==
  /\ phase = "observe"
  /\ Translate(event)
  /\ phase' = IF Dispatched(event) THEN "translate" ELSE "poll"
  /\ event' = IF Dispatched(event) THEN event ELSE NoEvent
  /\ UNCHANGED <<process, stack, at, timestepVars>>

\* onEvent: a close is handled here, everything else goes to the layers.
OnEvent ==
  /\ phase = "translate"
  /\ IF event.type = "quit"
     THEN running' = FALSE /\ phase' = "poll" /\ at' = 0 /\ event' = NoEvent
     ELSE phase' = "dispatch" /\ at' = Len(layers) /\ UNCHANGED <<running, event>>
  /\ UNCHANGED <<stage, logger, tasks, stack, windowVars, timestepVars>>

LayerOnEvent ==
  /\ phase = "dispatch" /\ at > 0
  /\ at' \in {at - 1, 0}
  /\ UNCHANGED <<process, stack, phase, event, windowVars, timestepVars>>

EventHandled ==
  /\ phase = "dispatch" /\ at = 0
  /\ phase' = "poll" /\ event' = NoEvent
  /\ UNCHANGED <<process, stack, at, windowVars, timestepVars>>

OnUpdateReturns ==
  /\ phase = "poll" /\ queue = <<>>
  /\ phase' = "update" /\ at' = 1
  /\ UNCHANGED <<process, stack, event, windowVars, timestepVars>>

NextPhase == [update |-> "imgui", imgui |-> "render", render |-> "idle"]

LayerReturns ==
  /\ phase \in DOMAIN NextPhase /\ at \in DOMAIN layers /\ ~ticking
  /\ at' = at + 1
  /\ UNCHANGED <<process, stack, phase, event, windowVars, timestepVars>>

EndPhase ==
  /\ phase \in DOMAIN NextPhase /\ at = Len(layers) + 1
  /\ phase' = NextPhase[phase]
  /\ at' = IF phase = "render" THEN 0 ELSE 1
  /\ UNCHANGED <<process, stack, event, windowVars, timestepVars>>

-----------------------------------------------------------------------------
(* What callbacks do. *)

\* The application's code is running: a constructor, an observer, a layer.
InCallback ==
  \/ stage = "configuring"
  \/ stage = "running" /\ phase = "observe"
  \/ stage = "running" /\ phase = "dispatch" /\ at > 0
  \/ stage = "running" /\ phase \in DOMAIN NextPhase /\ at \in DOMAIN layers

CallbackThrows == InCallback /\ attaching = <<>> /\ ~ticking /\ Throws

Close ==
  /\ InCallback /\ running
  /\ running' = FALSE
  /\ UNCHANGED <<stage, logger, tasks, stack, loop, windowVars, timestepVars>>

UseWindow ==
  /\ InCallback
  /\ \/ \E s \in Sizes : Resize(s)
     \/ QueryMouse
     \/ \E p \in Positions : WarpMouse(p)
  /\ UNCHANGED <<process, stack, loop, timestepVars>>

\* A layer's onUpdate simulates in fixed steps.
Simulate ==
  /\ stage = "running" /\ phase = "update" /\ at \in DOMAIN layers
  /\ \E delta \in 0 .. MaxDelta : Tick(delta)
  /\ UNCHANGED <<process, stack, loop, windowVars>>

SimulateStep == Step /\ UNCHANGED <<process, stack, loop, windowVars>>

SimulateReturns ==
  /\ TickReturns
  /\ at' = at + 1
  /\ UNCHANGED <<process, stack, phase, event, windowVars>>

\* What a step throws, the layer catches, or nobody before main.
SimulateThrows ==
  /\ StepThrows
  /\ \/ at' = at + 1 /\ UNCHANGED <<stage, phase>>
     \/ stage' = Unwound /\ phase' = "idle" /\ at' = 0
  /\ UNCHANGED <<logger, tasks, running, stack, event, windowVars>>

PostEvent == UserEvent /\ UNCHANGED <<process, stack, loop, timestepVars>>

-----------------------------------------------------------------------------
\* The main thread goes on, whatever is called returns.
MainThread ==
  \/ InitLogger \/ InitTasks \/ CreateApplication \/ Initialize
  \/ EndPush \/ Run
  \/ BeginFrame \/ PollEvent \/ TranslateEvent \/ OnEvent \/ LayerOnEvent \/ EventHandled
  \/ OnUpdateReturns \/ LayerReturns \/ EndPhase \/ RunReturns \/ SimulateStep \/ SimulateReturns
  \/ DetachLayer \/ DestroyApplication \/ ShutdownTasks \/ ShutdownLogger

Stopped == stage \in {"exited", "terminated"} /\ UNCHANGED vars

Next ==
  \/ MainThread
  \/ \E layer \in Layers, kind \in Kinds : BeginPush(layer, kind)
  \/ PushThrows \/ DetachThrows \/ CallbackThrows
  \/ Close \/ UseWindow \/ Simulate \/ SimulateThrows
  \/ PostEvent
  \/ Stopped

Spec == Init /\ [][Next]_vars /\ WF_vars(MainThread)

-----------------------------------------------------------------------------
(***************************************************************************)
(* What a part uses outlives it, whatever failed or threw on the way: SDL    *)
(* the window, the window the attached layers, the task system the           *)
(* application, and the logger the task system, whose workers log while they *)
(* stop (entry_point.cpp).  At the end every layer that was attached has     *)
(* been detached.                                                            *)
(***************************************************************************)
LifetimesNest ==
  /\ attached # {} => window = "open"
  /\ window = "open" => platform = 1
  /\ window # "none" => tasks
  /\ tasks => logger
  /\ provider => window = "open"
  /\ stage \in {"stopping", "flushing", "exited"} => window = "none" /\ platform = 0

(***************************************************************************)
(* Once all events are handled the window's sizes are those of the native    *)
(* window, although resize() records the new size at once and older resize   *)
(* events may still overwrite it.                                            *)
(***************************************************************************)
SizeSettles ==
  stage = "running" /\ queue = <<>> /\ event = NoEvent => size = surface /\ framebuffer = surface

(***************************************************************************)
(* After close(), or once the user has asked to quit, the program ends: the  *)
(* frame is completed, everything destroyed, main returns.                   *)
(***************************************************************************)
CloseEndsProgram ==
  stage = "running" /\ (~running \/ \E i \in DOMAIN queue : queue[i].type = "quit")
    ~> stage \in {"exited", "terminated"}
-----------------------------------------------------------------------------
(***************************************************************************)
(* Why: the inductive invariant behind the invariants.                       *)
(***************************************************************************)

\* What main() has made at each stage; the application's constructor and run()
\* find everything there.
StageInv ==
  /\ stage = "start" => ~logger /\ ~tasks
  /\ stage = "logging" => logger /\ ~tasks
  /\ tasks => logger
  /\ stage \in {"flushing", "exited"} => ~tasks
  /\ stage \in {"tasks", "making", "configuring", "running", "destroying", "terminated"} => tasks
  /\ stage \in {"start", "logging", "tasks", "stopping", "flushing", "exited"}
       => window = "none" /\ platform = 0 /\ ~provider
  /\ stage = "making" => window = "made" /\ platform = 0 /\ ~provider
  /\ stage \in {"configuring", "running", "destroying", "terminated"}
       => window = "open" /\ platform = 1

\* Only an open window has layers, those in the stack that detachAll has not
\* come to yet.
LayerInv ==
  /\ stage \in {"destroying", "terminated"} => at <= Len(layers)
  /\ LET left == IF stage \in {"destroying", "terminated"} THEN at ELSE 0
     IN  \A layer \in attached : \E i \in 1 .. Len(layers) - left : layers[i].layer = layer
  /\ window # "open" => layers = <<>> /\ attaching = <<>> /\ queue = <<>>
  /\ attaching # <<>> => stage = "configuring"
  /\ phase # "idle" => stage = "running"
  /\ phase = "idle" /\ stage \notin {"destroying", "terminated"} => at = 0

\* An event is there while it is handled.
EventInv == event # NoEvent <=> phase \in {"observe", "translate", "dispatch"}

\* The events whose size handleEvent has not taken over yet.
Untranslated == IF phase = "observe" THEN <<event>> \o queue ELSE queue

\* The last of the events of a type carries the value, or there is none and
\* the value is what it has come to.
Brings(events, type, value, now) ==
  IF \E i \in DOMAIN events : events[i].type = type
  THEN \E i \in DOMAIN events : /\ events[i].type = type /\ events[i].size = value
                               /\ \A j \in DOMAIN events : j > i => events[j].type # type
  ELSE now = value

SizeInv ==
  stage \in {"start", "logging", "tasks", "making", "configuring", "running"} =>
    /\ Brings(Untranslated, "resized", surface, size)
    /\ Brings(Untranslated, "pixels", surface, framebuffer)

MouseInv == ~jumped => mouse.position = eventPosition /\ mouse.delta = moved

TickInv == ticking => phase = "update" /\ at \in DOMAIN layers

IInv ==
  /\ TypeOK /\ StageInv /\ LayerInv /\ EventInv
  /\ SizeInv /\ MouseInv /\ TickInv /\ BacklogBounded
================================================================================
