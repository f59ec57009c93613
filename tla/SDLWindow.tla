------------------------------- MODULE SDLWindow -------------------------------
(***************************************************************************)
(* platform/window/ and core/io/input.cpp: the one window of an              *)
(* application, the reference count of SDL's video subsystem, the events SDL *)
(* has queued for it, and the mouse state Input derives from them.           *)
(*                                                                          *)
(* Everything runs on the main thread; SDL posts events whenever it is       *)
(* asked to pump, which here is at any moment.  A size stands for width and  *)
(* height, a position for the two coordinates.  Keys, buttons, wheel, text   *)
(* and focus are translated alike and are one kind of event.                 *)
(***************************************************************************)
EXTENDS Integers, Sequences, FiniteSets

CONSTANTS Sizes,       \* the sizes a window may have
          InitialSize, \* the size the application asks for
          Positions,   \* where the mouse may be
          MaxEvents    \* bound: the times events are posted to the window

ASSUME WindowAssumption ==
  /\ Sizes \subseteq Nat \ {0} /\ InitialSize \in Sizes
  /\ Positions \subseteq Int /\ Positions # {}
  /\ MaxEvents \in Nat

VARIABLES
  platform,      \* SDLPlatform's s_reference_count
  window,        \* the SDLWindow: "none", "made" (not initialised) or "open"
  provider,      \* Input's s_provider is the window
  mouse,         \* Input: the last known position and the frame's delta
  shouldClose,   \* m_should_close
  size,          \* m_info.width and height
  framebuffer,   \* m_framebuffer_width and height
  queue,         \* SDL: events not polled yet
  pointer,       \* SDL: the mouse position after the queued events
  surface,       \* SDL: the size of the native window
  posted,        \* how often events were posted
  moved,         \* history: how far this frame's motion events went
  eventPosition, \* history: the position in the last motion event handled
  jumped         \* history: Input's position was set while motion was queued

sdl == <<queue, pointer, surface, posted>>
input == <<provider, mouse, moved, eventPosition, jumped>>
windowVars == <<platform, window, shouldClose, size, framebuffer, sdl, input>>

Event == [type : {"quit", "other", "foreign"}]
         \cup [type : {"resized", "pixels"}, size : Sizes]
         \cup [type : {"motion"}, position : Positions]

WindowTypeOK ==
  /\ platform \in 0 .. 1
  /\ window \in {"none", "made", "open"}
  /\ provider \in BOOLEAN
  /\ mouse \in [position : Positions, delta : Int]
  /\ shouldClose \in BOOLEAN
  /\ size \in Sizes /\ framebuffer \in Sizes /\ surface \in Sizes
  /\ queue \in Seq(Event)
  /\ pointer \in Positions /\ eventPosition \in Positions
  /\ posted \in Nat
  /\ moved \in Int
  /\ jumped \in BOOLEAN

WindowInit ==
  /\ platform = 0
  /\ window = "none"
  /\ provider = FALSE
  /\ pointer \in Positions
  /\ mouse = [position |-> pointer, delta |-> 0]
  /\ shouldClose = FALSE
  /\ size = InitialSize /\ framebuffer = size /\ surface = size
  /\ queue = <<>>
  /\ posted = 0
  /\ moved = 0 /\ eventPosition = pointer
  /\ jumped = FALSE

-----------------------------------------------------------------------------
(* SDL. *)

Post(events) ==
  /\ posted < MaxEvents
  /\ queue' = queue \o events
  /\ posted' = posted + 1

\* The user moves the mouse, resizes or closes the window, or presses a key.
UserEvent ==
  /\ window = "open"
  /\ \/ \E type \in {"quit", "other", "foreign"} :
          Post(<<[type |-> type]>>) /\ UNCHANGED <<pointer, surface>>
     \/ \E p \in Positions \ {pointer} :
          Post(<<[type |-> "motion", position |-> p]>>) /\ pointer' = p /\ UNCHANGED surface
     \/ \E s \in Sizes \ {surface} :
          /\ Post(<<[type |-> "resized", size |-> s], [type |-> "pixels", size |-> s]>>)
          /\ surface' = s
          /\ UNCHANGED pointer
  /\ UNCHANGED <<platform, window, shouldClose, size, framebuffer, input>>

-----------------------------------------------------------------------------
(* SDLPlatform, and the life of the window. *)

Acquired(count) == count + 1

Released(count) == IF count = 0 THEN 0 ELSE count - 1

\* The window factory.
MakeWindow ==
  /\ window' = "made"
  /\ UNCHANGED <<platform, shouldClose, size, framebuffer, sdl, input>>

(***************************************************************************)
(* init: SDL, the window, its id; Input asks the new provider for the mouse  *)
(* position.  A failing step undoes the earlier ones and throws.             *)
(***************************************************************************)
InitWindow ==
  /\ window = "made"
  /\ platform' = Acquired(platform)
  /\ window' = "open"
  /\ framebuffer' \in {surface, size}
  /\ provider' = TRUE
  /\ mouse' = [mouse EXCEPT !.position = pointer]
  /\ eventPosition' = pointer
  /\ UNCHANGED <<shouldClose, size, sdl, moved, jumped>>

\* The window was not initialised when the exception destroys it.
InitWindowFails(sdlStarted) ==
  /\ window = "made"
  /\ platform' = IF sdlStarted THEN Released(Acquired(platform)) ELSE platform
  /\ window' = "none"
  /\ UNCHANGED <<shouldClose, size, framebuffer, sdl, input>>

DestroyWindow ==
  /\ provider' = IF window = "open" THEN FALSE ELSE provider
  /\ platform' = IF window = "open" THEN Released(platform) ELSE platform
  /\ window' = "none"
  /\ queue' = <<>>
  /\ UNCHANGED <<shouldClose, size, framebuffer, pointer, surface, posted, mouse, moved,
                 eventPosition, jumped>>

-----------------------------------------------------------------------------
(* What the application may call. *)

\* resize: SDL carries it out; the pixel size asked for may still be the old one.
Resize(s) ==
  /\ window = "open" /\ s # surface
  /\ Post(<<[type |-> "resized", size |-> s], [type |-> "pixels", size |-> s]>>)
  /\ size' = s
  /\ framebuffer' \in {surface, s}
  /\ surface' = s
  /\ UNCHANGED <<platform, window, shouldClose, pointer, input>>

\* Input::getMousePosition takes over the position SDL is at.
QueryMouse ==
  /\ provider
  /\ mouse.position # pointer
  /\ mouse' = [mouse EXCEPT !.position = pointer]
  /\ jumped' = TRUE
  /\ UNCHANGED <<platform, window, shouldClose, size, framebuffer, sdl, provider,
                 moved, eventPosition>>

\* Input::setMousePosition: SDL warps the mouse and reports the motion.
WarpMouse(p) ==
  /\ provider /\ p # pointer
  /\ Post(<<[type |-> "motion", position |-> p]>>)
  /\ mouse' = [mouse EXCEPT !.position = p]
  /\ pointer' = p
  /\ jumped' = TRUE
  /\ UNCHANGED <<platform, window, shouldClose, size, framebuffer, surface, provider,
                 moved, eventPosition>>

-----------------------------------------------------------------------------
(* onUpdate. *)

\* Fault: the delta goes on adding up.
KeepFrameState ==
  /\ moved' = 0
  /\ jumped' = (mouse.position # eventPosition)
  /\ UNCHANGED <<platform, window, shouldClose, size, framebuffer, sdl, provider,
                 mouse, eventPosition>>

ResetFrameState ==
  /\ mouse' = [mouse EXCEPT !.delta = 0]
  /\ moved' = 0
  /\ jumped' = (mouse.position # eventPosition)
  /\ UNCHANGED <<platform, window, shouldClose, size, framebuffer, sdl, provider,
                 eventPosition>>

RecordMouseMoved(p) ==
  mouse' = [position |-> p, delta |-> mouse.delta + p - mouse.position]

\* Fault: the size of the event is passed on but not kept.
TranslateKeepingSize(event) ==
  /\ shouldClose' = (shouldClose \/ event.type = "quit")
  /\ framebuffer' = IF event.type = "pixels" THEN event.size ELSE framebuffer
  /\ IF event.type = "motion"
     THEN /\ RecordMouseMoved(event.position)
          /\ moved' = moved + event.position - eventPosition
          /\ eventPosition' = event.position
     ELSE UNCHANGED <<mouse, moved, eventPosition>>
  /\ UNCHANGED <<platform, window, size, queue, pointer, surface, posted, provider,
                 jumped>>

\* What handleEvent changes for the event that was polled.
Translate(event) ==
  /\ shouldClose' = (shouldClose \/ event.type = "quit")
  /\ size' = IF event.type = "resized" THEN event.size ELSE size
  /\ framebuffer' = IF event.type = "pixels" THEN event.size ELSE framebuffer
  /\ IF event.type = "motion"
     THEN /\ RecordMouseMoved(event.position)
          /\ moved' = moved + event.position - eventPosition
          /\ eventPosition' = event.position
     ELSE UNCHANGED <<mouse, moved, eventPosition>>
  /\ UNCHANGED <<platform, window, queue, pointer, surface, posted, provider, jumped>>

\* The events of this window that have a translation.
Dispatched(event) == event.type \in {"quit", "resized", "motion", "other"}

-----------------------------------------------------------------------------
(***************************************************************************)
(* The mouse delta of a frame is the way its motion events went, unless the  *)
(* position was queried or set while motion events were waiting:             *)
(* getMousePosition then runs ahead of the events, and the rest of the       *)
(* motion is lost from the delta.                                            *)
(***************************************************************************)
MouseDeltaTrue == ~jumped => mouse.delta = moved
================================================================================
