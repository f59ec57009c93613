---------------------------- MODULE ApplicationProofs ----------------------------
(***************************************************************************)
(* The invariant IInv of Application is inductive, for any layers, sizes,    *)
(* positions and frame times.  A step of the application is for its window   *)
(* one of a few steps of SDLWindow, and for the accumulator one of           *)
(* FixedTimestep, so that what these keep is proved once, apart from who     *)
(* takes them.                                                               *)
(***************************************************************************)
EXTENDS Application, SequenceTheorems, TLAPS

-----------------------------------------------------------------------------
(* Sequences. *)

LEMMA FrontOf ==
  ASSUME NEW S, NEW s \in Seq(S), s # <<>>
  PROVE  /\ Front(s) \in Seq(S)
         /\ Len(Front(s)) = Len(s) - 1
         /\ Last(s) \in S
  <1>1. Len(s) \in Nat /\ Len(s) > 0
    OBVIOUS
  <1>2. \A i \in 1 .. Len(s) - 1 : s[i] \in S
    BY <1>1
  <1>3. Len(s) - 1 \in Nat /\ (Len(s) - 1) + 1 - 1 = Len(s) - 1
    BY <1>1
  <1>4. SubSeq(s, 1, Len(s) - 1) \in Seq(S) /\ Len(SubSeq(s, 1, Len(s) - 1)) = Len(s) - 1
    BY <1>1, <1>2, <1>3, SubSeqProperties
  <1>5. s[Len(s)] \in S
    BY <1>1
  <1> QED
    BY <1>4, <1>5 DEF Front, Last

\* t is s with x in it after n elements.
Extends(t, s, S, n, x) ==
  /\ t \in Seq(S) /\ Len(t) = Len(s) + 1 /\ t[n + 1] = x
  /\ \A i \in 1 .. Len(s) : \E j \in 1 .. Len(s) + 1 : t[j] = s[i]

LEMMA InsertAtOf ==
  ASSUME NEW S, NEW s \in Seq(S), NEW n \in 0 .. Len(s), NEW x \in S
  PROVE  Extends(InsertAt(s, n + 1, x), s, S, n, x)
  <1> DEFINE a == SubSeq(s, 1, n)
  <1> DEFINE b == SubSeq(s, n + 1, Len(s))
  <1>1. /\ a \in Seq(S) /\ Len(a) = n
        /\ \A i \in 1 .. n : a[i] = s[i]
    BY SubSeqProperties
  <1>2. /\ b \in Seq(S) /\ Len(b) = Len(s) - n
        /\ \A i \in 1 .. Len(s) - n : b[i] = s[n + i]
    BY SubSeqProperties
  <1>3. InsertAt(s, n + 1, x) = a \o <<x>> \o b
    <2>1. (n + 1) - 1 = n
      OBVIOUS
    <2> QED
      BY <2>1 DEF InsertAt
  <1> HIDE DEF a, b
  <1> DEFINE c == a \o <<x>>
  <1>4. /\ c \in Seq(S) /\ Len(c) = n + 1 /\ c[n + 1] = x
        /\ \A i \in 1 .. n : c[i] = a[i]
    BY <1>1, ConcatProperties
  <1> HIDE DEF c
  <1> DEFINE d == c \o b
  <1>5. /\ d \in Seq(S) /\ Len(d) = Len(s) + 1
        /\ \A i \in 1 .. n + 1 : d[i] = c[i]
        /\ \A i \in 1 .. Len(s) - n : d[n + 1 + i] = b[i]
    BY <1>2, <1>4, ConcatProperties
  <1> HIDE DEF d
  <1>6. InsertAt(s, n + 1, x) = d
    BY <1>3 DEF c, d
  <1>7. d[n + 1] = x
    BY <1>4, <1>5
  <1>8. ASSUME NEW i \in 1 .. Len(s)
        PROVE  \E j \in 1 .. Len(s) + 1 : d[j] = s[i]
    <2>1. CASE i <= n
      BY <1>1, <1>4, <1>5, <2>1
    <2>2. CASE i > n
      <3>1. i - n \in 1 .. Len(s) - n /\ n + (i - n) = i /\ n + 1 + (i - n) \in 1 .. Len(s) + 1
        BY <2>2
      <3> QED
        BY <1>2, <1>5, <3>1
    <2> QED
      BY <2>1, <2>2
  <1> QED
    BY <1>5, <1>6, <1>7, <1>8 DEF Extends

-----------------------------------------------------------------------------
(* What the steps of the application are for its window and accumulator. *)

WindowStep ==
  \/ UNCHANGED windowVars
  \/ MakeWindow
  \/ InitWindow
  \/ \E sdlStarted \in BOOLEAN : InitWindowFails(sdlStarted)
  \/ DestroyWindow
  \/ ResetFrameState
  \/ PollEvent
  \/ phase = "observe" /\ Translate(event)
  \/ \E s \in Sizes : Resize(s)
  \/ QueryMouse
  \/ \E p \in Positions : WarpMouse(p)
  \/ UserEvent

TimestepStep ==
  \/ UNCHANGED timestepVars
  \/ \E delta \in 0 .. MaxDelta : Tick(delta)
  \/ Step \/ StepThrows \/ TickReturns

LEMMA NextWindowStep == [Next]_vars => WindowStep
  <1> SUFFICES ASSUME [Next]_vars PROVE WindowStep
    OBVIOUS
  <1>1. CASE UNCHANGED vars
    BY <1>1 DEF vars, WindowStep
  <1>2. CASE MainThread
    BY <1>2 DEF MainThread, WindowStep, InitLogger, InitTasks, CreateApplication, Initialize,
         EndPush, Run, BeginFrame, TranslateEvent, OnEvent, LayerOnEvent,
         EventHandled, OnUpdateReturns, LayerReturns, EndPhase, RunReturns, SimulateStep,
         SimulateReturns, DetachLayer, DestroyApplication, ShutdownTasks, ShutdownLogger
  <1>3. CASE ~UNCHANGED vars /\ ~MainThread
    BY <1>3 DEF Next, WindowStep, BeginPush, PushThrows, DetachThrows, CallbackThrows, Throws,
         Close, UseWindow, Simulate, SimulateThrows, PostEvent, Stopped
  <1> QED
    BY <1>1, <1>2, <1>3

LEMMA NextTimestepStep == [Next]_vars => TimestepStep
  <1> SUFFICES ASSUME [Next]_vars PROVE TimestepStep
    OBVIOUS
  <1>1. CASE UNCHANGED vars
    BY <1>1 DEF vars, TimestepStep
  <1>2. CASE MainThread
    BY <1>2 DEF MainThread, TimestepStep, InitLogger, InitTasks, CreateApplication, Initialize,
         EndPush, Run, BeginFrame, PollEvent, TranslateEvent, OnEvent, LayerOnEvent,
         EventHandled, OnUpdateReturns, LayerReturns, EndPhase, RunReturns, SimulateStep,
         SimulateReturns, DetachLayer, DestroyApplication, ShutdownTasks, ShutdownLogger
  <1>3. CASE ~UNCHANGED vars /\ ~MainThread
    BY <1>3 DEF Next, TimestepStep, BeginPush, PushThrows, DetachThrows, CallbackThrows, Throws,
         Close, UseWindow, Simulate, SimulateThrows, PostEvent, Stopped
  <1> QED
    BY <1>1, <1>2, <1>3

-----------------------------------------------------------------------------
(* FixedTimestep. *)

LEMMA TimestepInvariance ==
  ASSUME TimestepTypeOK, BacklogBounded, TimestepStep
  PROVE  TimestepTypeOK' /\ BacklogBounded'
  <1> USE TimestepAssumption DEF TimestepTypeOK
  <1> DEFINE load(n) == MaxFrameTime * n
  <1>1. \A n \in Nat : load(n) \in Nat /\ load(n + 1) = load(n) + MaxFrameTime
    OBVIOUS
  <1>2. throws \in Nat /\ load(throws + 0) = load(throws) /\ throws + 1 \in Nat
    OBVIOUS
  <1>3. /\ ~ticking => accumulator < FixedDt + load(throws)
        /\ ticking => accumulator < FixedDt + load(throws + 1)
    BY <1>2 DEF BacklogBounded
  <1>4. ASSUME throws' \in Nat,
               ~ticking' => accumulator' < FixedDt + load(throws'),
               ticking' => accumulator' < FixedDt + load(throws' + 1)
        PROVE  BacklogBounded'
    BY <1>4 DEF BacklogBounded
  <1> HIDE DEF load
  <1>5. CASE UNCHANGED timestepVars
    BY <1>3, <1>4, <1>5 DEF timestepVars
  <1>6. ASSUME NEW delta \in 0 .. MaxDelta, Tick(delta)
        PROVE  TimestepTypeOK' /\ BacklogBounded'
    <2>1. Least(delta, MaxFrameTime) \in Nat /\ Least(delta, MaxFrameTime) <= MaxFrameTime
      BY DEF Least
    <2> QED
      BY <1>1, <1>2, <1>3, <1>4, <1>6, <2>1 DEF Tick
  <1>7. CASE Step
    BY <1>1, <1>2, <1>3, <1>4, <1>7 DEF Step
  <1>8. CASE StepThrows
    <2>1. ticking /\ ~ticking' /\ ticking' \in BOOLEAN /\ accumulator' = accumulator
      BY <1>8 DEF StepThrows
    <2>2. throws' = throws + 1 /\ throws' \in 0 .. MaxThrows
      BY <1>8 DEF StepThrows
    <2>3. accumulator < FixedDt + load(throws + 1)
      BY <1>3, <2>1
    <2>4. BacklogBounded'
      BY <1>2, <1>4, <2>1, <2>2, <2>3
    <2> QED
      BY <2>1, <2>2, <2>4
  <1>9. CASE TickReturns
    <2>1. ~ticking' /\ ticking' \in BOOLEAN /\ accumulator' = accumulator /\ throws' = throws
      BY <1>9 DEF TickReturns
    <2>2. accumulator < FixedDt + load(throws)
      BY <1>1, <1>2, <1>9 DEF TickReturns
    <2>3. BacklogBounded'
      BY <1>2, <1>4, <2>1, <2>2
    <2> QED
      BY <2>1, <2>3
  <1> QED
    BY <1>5, <1>6, <1>7, <1>8, <1>9 DEF TimestepStep

-----------------------------------------------------------------------------
(* SDLWindow: types, and the mouse. *)

LEMMA EventTypes ==
  /\ \A type \in {"quit", "other", "foreign"} : [type |-> type] \in Event
  /\ \A type \in {"resized", "pixels"}, s \in Sizes : [type |-> type, size |-> s] \in Event
  /\ \A p \in Positions : [type |-> "motion", position |-> p] \in Event
  /\ \A e \in Event : /\ e.type = "motion" => e.position \in Positions
                      /\ e.type \in {"resized", "pixels"} => e.size \in Sizes
  BY DEF Event

\* Events posted to the queue are events.
LEMMA PostTyping ==
  ASSUME WindowTypeOK, NEW events \in Seq(Event), Post(events)
  PROVE  queue' \in Seq(Event) /\ posted' \in Nat
  <1>1. queue \in Seq(Event) /\ posted \in Nat
    BY DEF WindowTypeOK
  <1> QED
    BY <1>1, ConcatProperties DEF Post

LEMMA WindowTyping ==
  ASSUME WindowTypeOK, WindowStep, window = "made" => platform = 0,
         phase = "observe" => event \in Event
  PROVE  WindowTypeOK'
  <1> USE WindowAssumption DEF WindowTypeOK
  <1>1. CASE UNCHANGED windowVars
    BY <1>1 DEF windowVars, sdl, input
  <1>2. CASE MakeWindow
    BY <1>2 DEF MakeWindow, sdl, input
  <1>3. CASE InitWindow
    BY <1>3 DEF InitWindow, Acquired, sdl
  <1>4. ASSUME NEW sdlStarted \in BOOLEAN, InitWindowFails(sdlStarted)
        PROVE  WindowTypeOK'
    BY <1>4 DEF InitWindowFails, Acquired, Released, sdl, input
  <1>5. CASE DestroyWindow
    <2>1. <<>> \in Seq(Event)
      BY EmptySeq
    <2>2. platform' \in 0 .. 1
      BY <1>5 DEF DestroyWindow, Released
    <2> QED
      BY <1>5, <2>1, <2>2 DEF DestroyWindow
  <1>6. CASE ResetFrameState
    BY <1>6 DEF ResetFrameState, sdl
  <1>7. CASE PollEvent
    <2>1. Tail(queue) \in Seq(Event)
      BY <1>7, HeadTailProperties DEF PollEvent
    <2> QED
      BY <1>7, <2>1 DEF PollEvent, input
  <1>8. CASE phase = "observe" /\ Translate(event)
    <2>1. event \in Event
      BY <1>8
    <2>2. mouse' \in [position : Positions, delta : Int] /\ moved' \in Int
          /\ eventPosition' \in Positions
      <3>1. CASE event.type = "motion"
        <4>1. event.position \in Positions /\ event.position \in Int
              /\ eventPosition \in Int /\ mouse.position \in Int
          BY <2>1, <3>1, EventTypes
        <4>2. mouse' = [position |-> event.position,
                        delta |-> mouse.delta + event.position - mouse.position]
              /\ moved' = moved + event.position - eventPosition
              /\ eventPosition' = event.position
          BY <1>8, <3>1 DEF Translate, RecordMouseMoved
        <4> QED
          BY <4>1, <4>2
      <3>2. CASE event.type # "motion"
        BY <1>8, <3>2 DEF Translate
      <3> QED
        BY <3>1, <3>2
    <2>3. size' \in Sizes /\ framebuffer' \in Sizes /\ shouldClose' \in BOOLEAN
      BY <1>8, <2>1, EventTypes DEF Translate
    <2> QED
      BY <1>8, <2>2, <2>3 DEF Translate
  <1>9. ASSUME NEW s \in Sizes, Resize(s)
        PROVE  WindowTypeOK'
    <2>1. <<[type |-> "resized", size |-> s], [type |-> "pixels", size |-> s]>> \in Seq(Event)
      BY EventTypes
    <2>2. queue' \in Seq(Event) /\ posted' \in Nat
      BY <1>9, <2>1, PostTyping DEF Resize
    <2> QED
      BY <1>9, <2>2 DEF Resize, input
  <1>10. CASE QueryMouse
    BY <1>10 DEF QueryMouse, sdl
  <1>11. ASSUME NEW p \in Positions, WarpMouse(p)
         PROVE  WindowTypeOK'
    <2>1. <<[type |-> "motion", position |-> p]>> \in Seq(Event)
      BY EventTypes
    <2>2. queue' \in Seq(Event) /\ posted' \in Nat
      BY <1>11, <2>1, PostTyping DEF WarpMouse
    <2> QED
      BY <1>11, <2>2 DEF WarpMouse
  <1>12. CASE UserEvent
    <2>1. ASSUME NEW type \in {"quit", "other", "foreign"}, Post(<<[type |-> type]>>)
          PROVE  queue' \in Seq(Event) /\ posted' \in Nat
      <3>1. <<[type |-> type]>> \in Seq(Event)
        BY EventTypes
      <3> QED
        BY <2>1, <3>1, PostTyping
    <2>2. ASSUME NEW p \in Positions, Post(<<[type |-> "motion", position |-> p]>>)
          PROVE  queue' \in Seq(Event) /\ posted' \in Nat
      <3>1. <<[type |-> "motion", position |-> p]>> \in Seq(Event)
        BY EventTypes
      <3> QED
        BY <2>2, <3>1, PostTyping
    <2>3. ASSUME NEW s \in Sizes,
                 Post(<<[type |-> "resized", size |-> s], [type |-> "pixels", size |-> s]>>)
          PROVE  queue' \in Seq(Event) /\ posted' \in Nat
      <3>1. <<[type |-> "resized", size |-> s], [type |-> "pixels", size |-> s]>> \in Seq(Event)
        BY EventTypes
      <3> QED
        BY <2>3, <3>1, PostTyping
    <2>4. queue' \in Seq(Event) /\ posted' \in Nat
      BY <1>12, <2>1, <2>2, <2>3 DEF UserEvent
    <2>5. pointer' \in Positions /\ surface' \in Sizes
      BY <1>12 DEF UserEvent
    <2> QED
      BY <1>12, <2>4, <2>5 DEF UserEvent, input
  <1> QED
    BY <1>1, <1>2, <1>3, <1>4, <1>5, <1>6, <1>7, <1>8, <1>9, <1>10, <1>11, <1>12 DEF WindowStep

\* Input's position leaves that of the last motion event only when the frame is
\* marked.
LEMMA MouseInvariance ==
  ASSUME WindowTypeOK, MouseInv, WindowStep, phase = "observe" => event \in Event
  PROVE  MouseInv'
  <1> USE WindowAssumption DEF WindowTypeOK, MouseInv
  <1>1. CASE UNCHANGED windowVars
    BY <1>1 DEF windowVars, sdl, input
  <1>2. CASE MakeWindow \/ (\E sdlStarted \in BOOLEAN : InitWindowFails(sdlStarted))
    BY <1>2 DEF MakeWindow, InitWindowFails, input
  <1>3. CASE InitWindow
    BY <1>3 DEF InitWindow
  <1>4. CASE DestroyWindow
    BY <1>4 DEF DestroyWindow
  <1>5. CASE ResetFrameState
    BY <1>5 DEF ResetFrameState
  <1>6. CASE PollEvent
    BY <1>6 DEF PollEvent, input
  <1>7. CASE phase = "observe" /\ Translate(event)
    <2>1. CASE event.type = "motion"
      <3>1. event.position \in Int
        BY <1>7, <2>1, EventTypes
      <3>2. mouse' = [position |-> event.position,
                      delta |-> mouse.delta + event.position - mouse.position]
        BY <1>7, <2>1 DEF Translate, RecordMouseMoved
      <3>3. /\ moved' = moved + event.position - eventPosition
            /\ eventPosition' = event.position /\ jumped' = jumped
        BY <1>7, <2>1 DEF Translate
      <3> QED
        BY <3>1, <3>2, <3>3
    <2>2. CASE event.type # "motion"
      BY <1>7, <2>2 DEF Translate
    <2> QED
      BY <2>1, <2>2
  <1>8. CASE (\E s \in Sizes : Resize(s)) \/ UserEvent
    BY <1>8 DEF Resize, UserEvent, input
  <1>9. CASE QueryMouse \/ (\E p \in Positions : WarpMouse(p))
    BY <1>9 DEF QueryMouse, WarpMouse
  <1> QED
    BY <1>1, <1>2, <1>3, <1>4, <1>5, <1>6, <1>7, <1>8, <1>9 DEF WindowStep

-----------------------------------------------------------------------------
(* The sizes the queued events bring. *)

LEMMA BringsAppend ==
  ASSUME NEW s \in Seq(Event), NEW t \in Seq(Event), NEW type, NEW value, NEW now,
         Brings(s, type, value, now), \A i \in DOMAIN t : t[i].type # type
  PROVE  Brings(s \o t, type, value, now)
  <1> DEFINE u == s \o t
  <1>1. /\ Len(u) = Len(s) + Len(t)
        /\ \A i \in 1 .. Len(s) : u[i] = s[i]
        /\ \A i \in Len(s) + 1 .. Len(u) : u[i] = t[i - Len(s)] /\ i - Len(s) \in DOMAIN t
        /\ DOMAIN s = 1 .. Len(s) /\ DOMAIN u = 1 .. Len(u)
        /\ Len(s) \in Nat /\ Len(t) \in Nat
    BY ConcatProperties
  <1> HIDE DEF u
  <1>2. \A i \in DOMAIN u : u[i].type = type => i \in DOMAIN s /\ s[i].type = type
    BY <1>1
  <1>3. DOMAIN s \subseteq DOMAIN u
    BY <1>1
  <1>4. CASE \E i \in DOMAIN s : s[i].type = type
    <2>1. PICK i \in DOMAIN s : /\ s[i].type = type /\ s[i].size = value
                               /\ \A j \in DOMAIN s : j > i => s[j].type # type
      BY <1>4 DEF Brings
    <2>2. i \in DOMAIN u /\ u[i].type = type /\ u[i].size = value
      BY <1>1, <1>3, <2>1
    <2>3. \A j \in DOMAIN u : j > i => u[j].type # type
      BY <1>2, <2>1, <1>1
    <2> QED
      BY <2>2, <2>3 DEF Brings, u
  <1>5. CASE ~\E i \in DOMAIN s : s[i].type = type
    BY <1>2, <1>5 DEF Brings, u
  <1> QED
    BY <1>4, <1>5

\* The events of a new size bring it, whatever is queued before them.
LEMMA BringsNew ==
  ASSUME NEW s \in Seq(Event), NEW value \in Sizes, NEW type \in {"resized", "pixels"}, NEW now
  PROVE  Brings(s \o <<[type |-> "resized", size |-> value], [type |-> "pixels", size |-> value]>>,
                type, value, now)
  <1> DEFINE t == <<[type |-> "resized", size |-> value], [type |-> "pixels", size |-> value]>>
  <1> DEFINE u == s \o t
  <1>1. t \in Seq(Event) /\ Len(t) = 2
        /\ t[1].type = "resized" /\ t[2].type = "pixels" /\ t[1].size = value /\ t[2].size = value
    BY EventTypes
  <1> HIDE DEF t
  <1>2. /\ DOMAIN u = 1 .. Len(s) + 2 /\ Len(s) \in Nat
        /\ u[Len(s) + 1] = t[1] /\ u[Len(s) + 2] = t[2]
    <2>1. /\ Len(u) = Len(s) + 2
          /\ \A i \in 1 .. Len(s) + 2 : u[i] = IF i <= Len(s) THEN s[i] ELSE t[i - Len(s)]
          /\ u \in Seq(Event) /\ Len(s) \in Nat
      <3>1. t \in Seq(Event) /\ Len(s) \in Nat
        BY <1>1
      <3>2. /\ Len(u) = Len(s) + Len(t) /\ u \in Seq(Event)
            /\ \A i \in 1 .. Len(s) + Len(t) : u[i] = IF i <= Len(s) THEN s[i] ELSE t[i - Len(s)]
        BY <3>1, ConcatProperties
      <3> HIDE DEF u
      <3> QED
        BY <1>1, <3>1, <3>2
    <2> HIDE DEF u
    <2>2. (Len(s) + 1) - Len(s) = 1 /\ (Len(s) + 2) - Len(s) = 2
      BY <2>1
    <2> QED
      BY <2>1, <2>2
  <1> HIDE DEF u
  <1>3. CASE type = "pixels"
    <2>1. /\ Len(s) + 2 \in DOMAIN u
          /\ u[Len(s) + 2].type = type /\ u[Len(s) + 2].size = value
          /\ \A j \in DOMAIN u : ~(j > Len(s) + 2)
      BY <1>1, <1>2, <1>3
    <2> QED
      BY <2>1 DEF Brings, u, t
  <1>4. CASE type = "resized"
    <2>1. /\ Len(s) + 1 \in DOMAIN u
          /\ u[Len(s) + 1].type = type /\ u[Len(s) + 1].size = value
          /\ \A j \in DOMAIN u : j > Len(s) + 1 => j = Len(s) + 2
      BY <1>1, <1>2, <1>4
    <2>2. \A j \in DOMAIN u : j > Len(s) + 1 => u[j].type # type
      BY <1>1, <1>2, <1>4, <2>1
    <2> QED
      BY <2>1, <2>2 DEF Brings, u, t
  <1> QED
    BY <1>3, <1>4

\* The first event is taken over: what it brings is now the value.
LEMMA BringsRest ==
  ASSUME NEW e \in Event, NEW s \in Seq(Event), NEW type, NEW value, NEW now,
         Brings(<<e>> \o s, type, value, now)
  PROVE  Brings(s, type, value, IF e.type = type THEN e.size ELSE now)
  <1> DEFINE u == <<e>> \o s
  <1>1. /\ <<e>> \in Seq(Event) /\ Len(<<e>>) = 1 /\ <<e>>[1] = e
        /\ Len(s) \in Nat /\ DOMAIN s = 1 .. Len(s)
    OBVIOUS
  <1>2. /\ u \in Seq(Event) /\ Len(u) = 1 + Len(s)
        /\ \A i \in 1 .. 1 + Len(s) : u[i] = IF i <= 1 THEN <<e>>[i] ELSE s[i - 1]
    BY <1>1, ConcatProperties
  <1> HIDE DEF u
  <1>3. /\ DOMAIN u = 1 .. Len(s) + 1
        /\ u[1] = e
        /\ \A i \in 2 .. Len(s) + 1 : u[i] = s[i - 1]
    BY <1>1, <1>2
  <1>4. ASSUME NEW i \in DOMAIN s PROVE i + 1 \in DOMAIN u /\ u[i + 1] = s[i]
    BY <1>1, <1>3
  <1>5. CASE \E i \in DOMAIN s : s[i].type = type
    <2>1. PICK i \in DOMAIN u : /\ u[i].type = type /\ u[i].size = value
                               /\ \A j \in DOMAIN u : j > i => u[j].type # type
      BY <1>4, <1>5 DEF Brings, u
    <2>2. i # 1
      BY <1>1, <1>3, <1>4, <1>5, <2>1
    <2>3. i - 1 \in DOMAIN s /\ s[i - 1] = u[i]
      BY <1>1, <1>3, <2>1, <2>2
    <2>4. \A j \in DOMAIN s : j > i - 1 => s[j].type # type
      BY <1>1, <1>3, <1>4, <2>1
    <2> QED
      BY <1>5, <2>1, <2>3, <2>4 DEF Brings
  <1>6. CASE ~\E i \in DOMAIN s : s[i].type = type
    <2>1. \A i \in DOMAIN u : u[i].type = type => i = 1
      BY <1>1, <1>3, <1>6
    <2>2. e.type = type => e.size = value
      BY <1>3, <2>1 DEF Brings, u
    <2>3. e.type # type => now = value
      BY <1>3, <2>1 DEF Brings, u
    <2> QED
      BY <1>6, <2>2, <2>3 DEF Brings
  <1> QED
    BY <1>5, <1>6

-----------------------------------------------------------------------------
(* The invariant, part by part. *)

\* The steps that leave main() where it is.
InStage ==
  \/ EndPush \/ BeginFrame \/ PollEvent \/ TranslateEvent \/ OnEvent \/ LayerOnEvent
  \/ EventHandled \/ OnUpdateReturns \/ LayerReturns \/ EndPhase \/ SimulateStep
  \/ SimulateReturns \/ DetachLayer
  \/ \E layer \in Layers, kind \in Kinds : BeginPush(layer, kind)
  \/ Close \/ UseWindow \/ Simulate \/ PostEvent \/ UNCHANGED vars

LEMMA InStageKeeps ==
  ASSUME InStage
  PROVE  UNCHANGED <<stage, logger, tasks, window, platform, provider>>
  <1>1. CASE EndPush \/ OnEvent \/ LayerOnEvent \/ EventHandled \/ OnUpdateReturns \/ LayerReturns
             \/ EndPhase \/ SimulateReturns \/ DetachLayer \/ Close \/ SimulateStep \/ Simulate
             \/ UNCHANGED vars
             \/ \E layer \in Layers, kind \in Kinds : BeginPush(layer, kind)
    BY <1>1 DEF EndPush, OnEvent, LayerOnEvent, EventHandled, OnUpdateReturns, LayerReturns,
         EndPhase, SimulateReturns, DetachLayer, Close, SimulateStep, Simulate, BeginPush, vars,
         process, windowVars, input
  <1>2. CASE BeginFrame \/ PollEvent \/ TranslateEvent
    BY <1>2 DEF BeginFrame, ResetFrameState, PollEvent, TranslateEvent, Translate, process, input
  <1>3. CASE UseWindow \/ PostEvent
    BY <1>3 DEF UseWindow, PostEvent, UserEvent, Resize, QueryMouse, WarpMouse, process, input
  <1> QED
    BY <1>1, <1>2, <1>3 DEF InStage

\* What is left of Next.
LEMMA NextSteps ==
  ASSUME [Next]_vars
  PROVE  \/ InStage
         \/ InitLogger \/ InitTasks \/ CreateApplication \/ Initialize \/ Run \/ RunReturns
         \/ DestroyApplication \/ ShutdownTasks \/ ShutdownLogger
         \/ PushThrows \/ DetachThrows \/ CallbackThrows \/ SimulateThrows
  BY DEF Next, MainThread, InStage, Stopped

LEMMA StageStep ==
  ASSUME StageInv, LayerInv, TickInv, [Next]_vars
  PROVE  StageInv'
  <1> USE DEF StageInv
  <1>1. CASE InitLogger \/ InitTasks
    BY <1>1 DEF InitLogger, InitTasks, windowVars, input
  <1>2. CASE CreateApplication
    BY <1>2 DEF CreateApplication, MakeWindow, windowVars, input
  <1>3. CASE Initialize
    BY <1>3 DEF Initialize, InitWindow, InitWindowFails, Acquired, Released, input
  <1>4. CASE ShutdownTasks \/ ShutdownLogger
    BY <1>4 DEF ShutdownTasks, ShutdownLogger, windowVars, input
  <1>5. CASE Run \/ RunReturns
    BY <1>5 DEF Run, RunReturns, windowVars, input
  <1>6. CASE DestroyApplication
    BY <1>6 DEF DestroyApplication, DestroyWindow, Released
  <1>7. CASE DetachThrows \/ CallbackThrows
    BY <1>7 DEF DetachThrows, CallbackThrows, Throws, InCallback, Unwound, windowVars, input
  <1>8. CASE PushThrows
    BY <1>8 DEF PushThrows, LayerInv, Unwound, windowVars, input
  <1>9. CASE SimulateThrows
    BY <1>9 DEF SimulateThrows, LayerInv, TickInv, StepThrows, Unwound, windowVars, input
  <1>10. CASE InStage
    BY <1>10, InStageKeeps
  <1> QED
    BY <1>1, <1>2, <1>3, <1>4, <1>5, <1>6, <1>7, <1>8, <1>9, <1>10, NextSteps

LEMMA TickStep ==
  ASSUME TypeOK, LayerInv, TickInv, [Next]_vars
  PROVE  TickInv'
  <1> USE DEF TickInv
  <1>1. CASE Simulate
    BY <1>1 DEF Simulate, Tick, loop, stack
  <1>2. CASE SimulateStep
    BY <1>2 DEF SimulateStep, Step, loop, stack
  <1>3. CASE SimulateReturns \/ SimulateThrows
    BY <1>3 DEF SimulateReturns, SimulateThrows, TickReturns, StepThrows
  <1>4. CASE LayerReturns \/ CallbackThrows
    BY <1>4 DEF LayerReturns, CallbackThrows, Throws, timestepVars
  <1>5. CASE OnUpdateReturns \/ BeginFrame \/ PollEvent \/ TranslateEvent \/ OnEvent
             \/ LayerOnEvent \/ EventHandled
    BY <1>5 DEF OnUpdateReturns, BeginFrame, PollEvent, TranslateEvent, OnEvent,
         LayerOnEvent, EventHandled, timestepVars, stack
  <1>6. CASE InitLogger \/ InitTasks \/ CreateApplication \/ Initialize \/ Run \/ RunReturns
             \/ ShutdownTasks \/ ShutdownLogger \/ DetachThrows \/ Close \/ UseWindow \/ PostEvent
             \/ UNCHANGED vars \/ \E layer \in Layers, kind \in Kinds : BeginPush(layer, kind)
    BY <1>6 DEF InitLogger, InitTasks, CreateApplication, Initialize, Run, RunReturns,
         ShutdownTasks, ShutdownLogger, DetachThrows, Close, UseWindow, PostEvent, BeginPush,
         vars, loop, stack, timestepVars
  <1>7. CASE PushThrows
    BY <1>7 DEF PushThrows, loop, timestepVars
  <1>8. CASE EndPhase
    <2>1. at \notin DOMAIN layers
      BY <1>8 DEF EndPhase, TypeOK
    <2> QED
      BY <1>8, <2>1 DEF EndPhase, timestepVars
  <1>9. CASE EndPush \/ DetachLayer \/ DestroyApplication
    <2>1. ~ticking
      BY <1>9 DEF EndPush, DetachLayer, DestroyApplication, LayerInv
    <2> QED
      BY <1>9, <2>1 DEF EndPush, DetachLayer, DestroyApplication, timestepVars
  <1> QED
    BY <1>1, <1>2, <1>3, <1>4, <1>5, <1>6, <1>7, <1>8, <1>9, NextSteps DEF InStage

\* What LayerInv says of the stack alone.
Attached(left) == \A layer \in attached : \E i \in 1 .. Len(layers) - left : layers[i].layer = layer

LEMMA PushedLayers ==
  ASSUME TypeOK, attaching # <<>>, Attached(0), EndPush
  PROVE  /\ Attached(0)'
         /\ layers' \in Seq([layer : Layers, kind : Kinds])
         /\ Len(layers') = Len(layers) + 1
         /\ attaching' \in Seq([layer : Layers, kind : Kinds])
         /\ insertIndex' \in 0 .. Len(layers')
         /\ attached' \subseteq Layers
  <1> DEFINE E == [layer : Layers, kind : Kinds]
  <1> DEFINE e == Last(attaching)
  <1>1. e \in E /\ Front(attaching) \in Seq(E)
    BY FrontOf DEF TypeOK
  <1>2. /\ layers \in Seq(E) /\ Len(layers) \in Nat /\ insertIndex \in 0 .. Len(layers)
        /\ attached \subseteq Layers
    BY DEF TypeOK
  <1>3. /\ layers' = Pushed(e) /\ attaching' = Front(attaching)
        /\ attached' = attached \cup {e.layer}
        /\ insertIndex' = insertIndex + (IF e.kind = "layer" THEN 1 ELSE 0)
    BY DEF EndPush
  <1> HIDE DEF e
  <1>4. /\ Pushed(e) \in Seq(E) /\ Len(Pushed(e)) = Len(layers) + 1
        /\ \E j \in 1 .. Len(layers) + 1 : Pushed(e)[j] = e
        /\ \A i \in 1 .. Len(layers) : \E j \in 1 .. Len(layers) + 1 : Pushed(e)[j] = layers[i]
    <2>1. CASE e.kind = "layer"
      <3>1. insertIndex + 1 \in 1 .. Len(layers) + 1
        BY <1>2
      <3>2. Pushed(e) = InsertAt(layers, insertIndex + 1, e)
        BY <2>1 DEF Pushed
      <3> HIDE DEF E
      <3>3. Extends(Pushed(e), layers, E, insertIndex, e)
        BY <1>1, <1>2, <3>2, InsertAtOf
      <3> QED
        BY <3>1, <3>3 DEF Extends
    <2>2. CASE e.kind # "layer"
      <3>1. Pushed(e) = Append(layers, e)
        BY <2>2 DEF Pushed
      <3> HIDE DEF E
      <3>2. Len(layers) + 1 \in 1 .. Len(layers) + 1
        BY <1>2
      <3>3. /\ Append(layers, e) \in Seq(E) /\ Len(Append(layers, e)) = Len(layers) + 1
            /\ Append(layers, e)[Len(layers) + 1] = e
            /\ \A i \in 1 .. Len(layers) : Append(layers, e)[i] = layers[i]
        BY <1>1, <1>2, AppendProperties
      <3> QED
        BY <1>2, <3>1, <3>2, <3>3
    <2> QED
      BY <2>1, <2>2
  <1> HIDE DEF E
  <1>5. Attached(0)'
    <2>1. SUFFICES ASSUME NEW layer \in attached'
                   PROVE  \E i \in 1 .. Len(layers) + 1 : layers'[i].layer = layer
      BY <1>2, <1>3, <1>4 DEF Attached
    <2>2. CASE layer = e.layer
      BY <1>3, <1>4, <2>2
    <2>3. CASE layer \in attached
      <3>1. PICK i \in 1 .. Len(layers) : layers[i].layer = layer
        BY <1>2, <2>3 DEF Attached
      <3> QED
        BY <1>3, <1>4, <3>1
    <2> QED
      BY <1>3, <2>1, <2>2, <2>3
  <1>6. insertIndex' \in 0 .. Len(layers')
    BY <1>2, <1>3, <1>4
  <1>7. attached' \subseteq Layers
    BY <1>1, <1>2, <1>3 DEF E
  <1> QED
    BY <1>1, <1>3, <1>4, <1>5, <1>6, <1>7 DEF E

LEMMA EventStep ==
  ASSUME TypeOK, EventInv, TickInv, [Next]_vars
  PROVE  EventInv'
  <1> USE DEF EventInv
  <1>1. CASE PollEvent
    <2>1. Head(queue) \in Event
      BY <1>1, HeadTailProperties DEF PollEvent, TypeOK, WindowTypeOK
    <2>2. NoEvent \notin Event
      BY DEF NoEvent, Event
    <2> QED
      BY <1>1, <2>1, <2>2 DEF PollEvent
  <1>2. CASE BeginFrame \/ TranslateEvent \/ OnEvent
             \/ LayerOnEvent \/ EventHandled \/ OnUpdateReturns
    BY <1>2 DEF BeginFrame, TranslateEvent, OnEvent, LayerOnEvent, EventHandled, OnUpdateReturns
  <1>3. CASE LayerReturns \/ EndPhase
    BY <1>3 DEF LayerReturns, EndPhase, NextPhase
  <1>4. CASE SimulateStep \/ SimulateReturns \/ Simulate \/ SimulateThrows
    BY <1>4 DEF SimulateStep, SimulateReturns, Simulate, SimulateThrows, StepThrows, TickInv, loop
  <1>5. CASE CallbackThrows
    BY <1>5 DEF CallbackThrows, Throws
  <1>6. CASE \/ InitLogger \/ InitTasks \/ CreateApplication \/ Initialize \/ Run \/ RunReturns
             \/ DestroyApplication \/ ShutdownTasks \/ ShutdownLogger \/ PushThrows \/ DetachThrows
    BY <1>6 DEF InitLogger, InitTasks, CreateApplication, Initialize, Run, RunReturns,
         DestroyApplication, ShutdownTasks, ShutdownLogger, PushThrows, DetachThrows, loop
  <1>7. CASE \/ EndPush \/ DetachLayer \/ Close \/ UseWindow \/ PostEvent \/ UNCHANGED vars
             \/ \E layer \in Layers, kind \in Kinds : BeginPush(layer, kind)
    BY <1>7 DEF EndPush, DetachLayer, Close, UseWindow, PostEvent, BeginPush, vars, loop
  <1> QED
    BY <1>1, <1>2, <1>3, <1>4, <1>5, <1>6, <1>7, NextSteps DEF InStage

\* Where the layers and the sizes do not change, or the program leaves run().
LEMMA LayerStep ==
  ASSUME TypeOK, StageInv, LayerInv, EventInv, TickInv, [Next]_vars
  PROVE  LayerInv'
  <1> DEFINE left == IF stage \in {"destroying", "terminated"} THEN at ELSE 0
  <1>1. CASE EndPush
    <2>1. stage = "configuring" /\ attaching # <<>> /\ window = "open"
      BY <1>1 DEF EndPush, LayerInv, StageInv
    <2>2. Attached(0)
      BY <2>1 DEF LayerInv, Attached
    <2>3. Attached(0)'
      BY <1>1, <2>1, <2>2, PushedLayers
    <2>4. /\ stage' = stage /\ at' = at /\ phase' = phase /\ window' = window
      BY <1>1 DEF EndPush, process, loop, windowVars
    <2> QED
      BY <2>1, <2>3, <2>4 DEF LayerInv, Attached
  <1>2. CASE DetachLayer
    <2>1. stage = "destroying" /\ at < Len(layers) /\ at \in Nat /\ Len(layers) \in Nat
      BY <1>2 DEF DetachLayer, TypeOK
    <2>2. /\ attached' = attached \ {layers[Len(layers) - at].layer} /\ at' = at + 1
          /\ UNCHANGED <<stage, layers, attaching, phase, window, queue>>
      BY <1>2 DEF DetachLayer, process, windowVars, sdl
    <2>3. ASSUME NEW layer \in attached'
          PROVE  \E i \in 1 .. Len(layers) - (at + 1) : layers[i].layer = layer
      <3>1. PICK i \in 1 .. Len(layers) - at : layers[i].layer = layer
        BY <2>1, <2>2, <2>3 DEF LayerInv
      <3>2. i # Len(layers) - at
        BY <2>2, <2>3, <3>1
      <3> QED
        BY <2>1, <3>1, <3>2
    <2> QED
      BY <2>1, <2>2, <2>3 DEF LayerInv
  <1>3. CASE DestroyApplication
    <2>1. at = Len(layers) /\ Len(layers) \in Nat /\ stage = "destroying"
      BY <1>3 DEF DestroyApplication, TypeOK
    <2>2. attached = {}
      BY <2>1 DEF LayerInv
    <2>3. attaching = <<>> /\ phase = "idle"
      BY <2>1 DEF LayerInv
    <2> QED
      BY <1>3, <2>2, <2>3 DEF DestroyApplication, DestroyWindow, LayerInv
  <1>4. CASE \E layer \in Layers, kind \in Kinds : BeginPush(layer, kind)
    <2>1. /\ stage = "configuring" /\ window = "open"
          /\ UNCHANGED <<stage, layers, attached, phase, at, window, queue>>
      BY <1>4 DEF BeginPush, StageInv, process, loop, windowVars, sdl
    <2> QED
      BY <2>1 DEF LayerInv
  <1>5. CASE PushThrows
    <2>1. /\ stage = "configuring" /\ window = "open" /\ at = 0 /\ phase = "idle"
          /\ attaching' = <<>> /\ stage' = "destroying"
          /\ UNCHANGED <<layers, attached, phase, at, window, queue>>
      BY <1>5 DEF PushThrows, LayerInv, StageInv, Unwound, loop, windowVars, sdl
    <2> QED
      BY <2>1 DEF LayerInv, TypeOK
  <1>6. CASE CallbackThrows \/ SimulateThrows
    <2>1. stage \in {"configuring", "running"} /\ attaching = <<>> /\ window = "open"
      BY <1>6 DEF CallbackThrows, InCallback, SimulateThrows, StepThrows, TickInv, LayerInv, StageInv
    <2>2. UNCHANGED <<layers, attached, attaching, window, queue>>
      BY <1>6 DEF CallbackThrows, Throws, SimulateThrows, stack, windowVars, sdl
    <2>3. \/ stage' = "destroying" /\ phase' = "idle" /\ at' = 0
          \/ stage' = stage /\ phase' = phase /\ SimulateThrows
      BY <1>6, <2>1 DEF CallbackThrows, Throws, SimulateThrows, Unwound
    <2>4. CASE stage' = "destroying" /\ phase' = "idle" /\ at' = 0
      BY <2>1, <2>2, <2>4 DEF LayerInv, TypeOK
    <2>5. CASE stage' = stage /\ phase' = phase /\ SimulateThrows
      <3>1. stage = "running" /\ phase = "update"
        BY <2>5 DEF SimulateThrows, StepThrows, TickInv, LayerInv
      <3> QED
        BY <2>1, <2>2, <2>5, <3>1 DEF LayerInv
    <2> QED
      BY <2>3, <2>4, <2>5
  <1>7. CASE RunReturns \/ DetachThrows
    <2>1. /\ (stage = "running" /\ phase = "idle") \/ stage = "destroying"
          /\ stage' \in {"destroying", "terminated"}
          /\ UNCHANGED <<layers, attached, attaching, phase, at, window, queue>>
      BY <1>7 DEF RunReturns, DetachThrows, stack, loop, windowVars, sdl
    <2>2. at <= Len(layers) /\ attaching = <<>> /\ phase = "idle"
      BY <2>1 DEF LayerInv, TypeOK
    <2>3. \A layer \in attached : \E i \in 1 .. Len(layers) - at : layers[i].layer = layer
      BY <2>1 DEF LayerInv, TypeOK
    <2>4. window = "open"
      BY <2>1 DEF StageInv
    <2> QED
      BY <2>1, <2>2, <2>3, <2>4 DEF LayerInv
  <1>8. CASE Run
    <2>1. /\ stage = "configuring" /\ stage' = "running"
          /\ UNCHANGED <<layers, attached, attaching, phase, at, window, queue>>
      BY <1>8 DEF Run, stack, loop, windowVars, sdl
    <2> QED
      BY <1>8, <2>1 DEF LayerInv, Run
  <1>9. CASE InitLogger \/ InitTasks \/ ShutdownTasks \/ ShutdownLogger
    <2>1. /\ stage \notin {"configuring", "running", "destroying", "terminated"}
          /\ stage' \notin {"configuring", "running", "destroying", "terminated"}
          /\ UNCHANGED <<layers, attached, attaching, phase, at, window, queue>>
      BY <1>9 DEF InitLogger, InitTasks, ShutdownTasks, ShutdownLogger, stack, loop, windowVars, sdl
    <2> QED
      BY <2>1 DEF LayerInv
  <1>10. CASE CreateApplication \/ Initialize
    <2>1. /\ stage \in {"tasks", "making"} /\ window # "open" /\ queue' = queue
          /\ UNCHANGED <<layers, attached, attaching, phase, at>>
      BY <1>10 DEF CreateApplication, Initialize, MakeWindow, InitWindow, InitWindowFails, StageInv,
           stack, loop, windowVars, sdl
    <2>2. layers = <<>> /\ attaching = <<>> /\ queue = <<>> /\ phase = "idle" /\ attached = {}
      BY <2>1 DEF LayerInv
    <2>3. stage' \in {"making", "stopping", "configuring"} /\ at = 0
      BY <1>10, <2>1, <2>2 DEF CreateApplication, Initialize, LayerInv
    <2> QED
      BY <2>1, <2>2, <2>3 DEF LayerInv
  <1>11. ASSUME /\ stage = "running" \/ (phase' = phase /\ at' = at)
                /\ UNCHANGED <<stage, layers, attached, attaching, window>>
                /\ window = "open" \/ queue' = queue
                /\ phase' = "idle" => at' = 0 \/ (phase = "idle" /\ at' = at)
         PROVE  LayerInv'
    BY <1>11 DEF LayerInv, StageInv
  <1>12. CASE UNCHANGED vars
    BY <1>11, <1>12 DEF vars, process, stack, loop, windowVars, sdl
  <1>13. CASE \/ BeginFrame \/ PollEvent \/ TranslateEvent \/ OnEvent \/ LayerOnEvent
              \/ EventHandled \/ OnUpdateReturns \/ LayerReturns \/ EndPhase
    <2>1. stage = "running" /\ window = "open"
      BY <1>13 DEF BeginFrame, PollEvent, TranslateEvent, OnEvent, LayerOnEvent,
           EventHandled, OnUpdateReturns, LayerReturns, EndPhase, NextPhase, LayerInv, StageInv
    <2>2. UNCHANGED <<stage, layers, attached, attaching, window>>
      BY <1>13 DEF BeginFrame, PollEvent, TranslateEvent, Translate, OnEvent, LayerOnEvent,
           EventHandled, OnUpdateReturns, LayerReturns, EndPhase, ResetFrameState, process, stack,
           windowVars
    <2>3. phase' = "idle" => at' = 0
      BY <1>13 DEF BeginFrame, PollEvent, TranslateEvent, OnEvent, LayerOnEvent,
           EventHandled, OnUpdateReturns, LayerReturns, EndPhase, NextPhase
    <2> QED
      BY <1>11, <2>1, <2>2, <2>3
  <1>14. CASE SimulateStep \/ SimulateReturns \/ Simulate
    <2>1. stage = "running" /\ window = "open" /\ phase = "update"
      BY <1>14 DEF SimulateStep, Step, SimulateReturns, TickReturns, Simulate, TickInv, LayerInv, StageInv
    <2>2. UNCHANGED <<stage, layers, attached, attaching, window, phase>>
      BY <1>14 DEF SimulateStep, SimulateReturns, Simulate, process, stack, loop, windowVars
    <2> QED
      BY <1>11, <2>1, <2>2
  <1>15. CASE Close \/ UseWindow \/ PostEvent
    <2>1. UNCHANGED <<stage, layers, attached, attaching, window, phase, at>>
      BY <1>15, InStageKeeps DEF InStage, Close, UseWindow, PostEvent, stack, loop
    <2>2. queue' = queue \/ window = "open"
      BY <1>15 DEF Close, UseWindow, Resize, QueryMouse, WarpMouse, PostEvent, UserEvent, InCallback,
           StageInv, windowVars, sdl
    <2> QED
      BY <1>11, <2>1, <2>2
  <1> QED
    BY <1>1, <1>2, <1>3, <1>4, <1>5, <1>6, <1>7, <1>8, <1>9, <1>10, <1>12, <1>13, <1>14, <1>15,
       NextSteps DEF InStage

\* The native window, its recorded sizes and the events stay as they are, or
\* the program leaves the stages the invariant is about.
Early == stage \in {"start", "logging", "tasks", "making", "configuring", "running"}

LEMMA SizeKept ==
  ASSUME SizeInv, Early' => Early /\ Untranslated' = Untranslated
                                  /\ UNCHANGED <<size, framebuffer, surface>>
  PROVE  SizeInv'
  BY DEF SizeInv, Early

LEMMA SizeStep ==
  ASSUME TypeOK, StageInv, LayerInv, EventInv, SizeInv, [Next]_vars
  PROVE  SizeInv'
  <1>1. queue \in Seq(Event) /\ (phase = "observe" => event \in Event)
    BY DEF TypeOK, WindowTypeOK, EventInv
  <1>2. Untranslated \in Seq(Event)
    <2>1. CASE phase = "observe"
      <3>1. <<event>> \in Seq(Event)
        BY <1>1, <2>1
      <3> QED
        BY <1>1, <2>1, <3>1, ConcatProperties DEF Untranslated
    <2> QED
      BY <1>1, <2>1 DEF Untranslated
  <1>3. ASSUME NEW events \in Seq(Event), queue' = queue \o events, UNCHANGED <<phase, event>>
        PROVE  Untranslated' = Untranslated \o events
    <2>1. CASE phase = "observe"
      <3>1. <<event>> \in Seq(Event)
        BY <1>1, <2>1
      <3>2. <<event>> \o (queue \o events) = (<<event>> \o queue) \o events
        BY <1>1, <3>1, ConcatAssociative
      <3> QED
        BY <1>3, <2>1, <3>2 DEF Untranslated
    <2> QED
      BY <1>3, <2>1 DEF Untranslated
  <1>4. ASSUME NEW s \in Sizes,
               queue' = queue \o <<[type |-> "resized", size |-> s], [type |-> "pixels", size |-> s]>>,
               UNCHANGED <<phase, event>>, surface' = s
        PROVE  SizeInv'
    <2> DEFINE t == <<[type |-> "resized", size |-> s], [type |-> "pixels", size |-> s]>>
    <2>1. t \in Seq(Event)
      BY EventTypes
    <2>2. Untranslated' = Untranslated \o t
      BY <1>3, <1>4, <2>1
    <2>3. \A type \in {"resized", "pixels"} : \A now : Brings(Untranslated \o t, type, s, now)
      BY <1>2, BringsNew
    <2> HIDE DEF t
    <2> QED
      BY <1>4, <2>2, <2>3 DEF SizeInv
  <1>5. ASSUME NEW e \in Event, e.type \notin {"resized", "pixels"},
               queue' = queue \o <<e>>, UNCHANGED <<phase, event, stage, surface, size, framebuffer>>
        PROVE  SizeInv'
    <2>1. <<e>> \in Seq(Event) /\ \A i \in DOMAIN <<e>> : <<e>>[i] = e
      OBVIOUS
    <2>2. Untranslated' = Untranslated \o <<e>>
      BY <1>3, <1>5, <2>1
    <2>3. \A type \in {"resized", "pixels"} : \A value, now :
            Brings(Untranslated, type, value, now) => Brings(Untranslated \o <<e>>, type, value, now)
      BY <1>2, <1>5, <2>1, BringsAppend
    <2> QED
      BY <1>5, <2>2, <2>3 DEF SizeInv
  <1>6. CASE PollEvent
    <2>1. Untranslated' = <<Head(queue)>> \o Tail(queue)
      BY <1>6 DEF PollEvent, Untranslated
    <2>2. <<Head(queue)>> \o Tail(queue) = queue
      BY <1>1, <1>6, HeadTailProperties DEF PollEvent
    <2>3. Untranslated = queue
      BY <1>6 DEF PollEvent, Untranslated
    <2>4. UNCHANGED <<stage, size, framebuffer, surface>>
      BY <1>6 DEF PollEvent, process
    <2> QED
      BY <2>1, <2>2, <2>3, <2>4, SizeKept DEF Early
  <1>7. CASE TranslateEvent
    <2>1. /\ phase = "observe" /\ phase' # "observe" /\ event \in Event
          /\ UNCHANGED <<stage, queue, surface>>
          /\ size' = IF event.type = "resized" THEN event.size ELSE size
          /\ framebuffer' = IF event.type = "pixels" THEN event.size ELSE framebuffer
      BY <1>1, <1>7 DEF TranslateEvent, Translate, process
    <2>2. Untranslated = <<event>> \o queue /\ Untranslated' = queue
      BY <2>1 DEF Untranslated
    <2>3. \A type, value, now :
            Brings(<<event>> \o queue, type, value, now)
              => Brings(queue, type, value, IF event.type = type THEN event.size ELSE now)
      BY <1>1, <2>1, BringsRest
    <2> QED
      BY <2>1, <2>2, <2>3 DEF SizeInv
  <1>8. CASE UseWindow
    <2>1. UNCHANGED <<stage, phase, event>>
      BY <1>8 DEF UseWindow, process, loop
    <2>2. ASSUME NEW s \in Sizes, Resize(s) PROVE SizeInv'
      BY <1>4, <2>1, <2>2 DEF Resize, Post
    <2>3. CASE QueryMouse
      BY <2>1, <2>3, SizeKept DEF QueryMouse, sdl, Early, Untranslated
    <2>4. ASSUME NEW p \in Positions, WarpMouse(p) PROVE SizeInv'
      <3>1. [type |-> "motion", position |-> p] \in Event
        BY EventTypes
      <3> QED
        BY <1>5, <2>1, <2>4, <3>1 DEF WarpMouse, Post
    <2> QED
      BY <1>8, <2>2, <2>3, <2>4 DEF UseWindow
  <1>9. CASE PostEvent
    <2>1. UNCHANGED <<stage, phase, event, size, framebuffer>>
      BY <1>9 DEF PostEvent, UserEvent, process, loop
    <2>2. ASSUME NEW type \in {"quit", "other", "foreign"}, Post(<<[type |-> type]>>),
                 UNCHANGED surface
          PROVE  SizeInv'
      <3>1. [type |-> type] \in Event
        BY EventTypes
      <3> QED
        BY <1>5, <2>1, <2>2, <3>1 DEF Post
    <2>3. ASSUME NEW p \in Positions, Post(<<[type |-> "motion", position |-> p]>>),
                 UNCHANGED surface
          PROVE  SizeInv'
      <3>1. [type |-> "motion", position |-> p] \in Event
        BY EventTypes
      <3> QED
        BY <1>5, <2>1, <2>3, <3>1 DEF Post
    <2>4. ASSUME NEW s \in Sizes, surface' = s,
                 Post(<<[type |-> "resized", size |-> s], [type |-> "pixels", size |-> s]>>)
          PROVE  SizeInv'
      BY <1>4, <2>1, <2>4 DEF Post
    <2> QED
      BY <1>9, <2>2, <2>3, <2>4 DEF PostEvent, UserEvent
  <1>10. CASE CreateApplication
    <2>1. UNCHANGED <<size, framebuffer, surface, queue, phase, event>> /\ Early
      BY <1>10 DEF CreateApplication, MakeWindow, sdl, loop, windowVars, Early
    <2> QED
      BY <2>1, SizeKept DEF Untranslated
  <1>11. CASE Initialize
    <2>1. queue = <<>> /\ phase = "idle" /\ stage = "making"
      BY <1>11 DEF Initialize, LayerInv, StageInv
    <2>2. Untranslated = <<>>
      BY <2>1 DEF Untranslated
    <2>3. size = surface /\ framebuffer = surface
      BY <2>1, <2>2 DEF SizeInv, Brings
    <2>4. UNCHANGED <<size, surface, queue, phase>> /\ framebuffer' \in {framebuffer, surface, size}
      BY <1>11 DEF Initialize, InitWindow, InitWindowFails, sdl, loop
    <2>5. Untranslated' = <<>>
      BY <2>1, <2>4 DEF Untranslated
    <2> QED
      BY <2>3, <2>4, <2>5 DEF SizeInv, Brings
  <1>12. CASE \/ DestroyApplication \/ ShutdownTasks \/ ShutdownLogger \/ RunReturns \/ DetachThrows
              \/ PushThrows
    BY <1>12, SizeKept DEF DestroyApplication, ShutdownTasks, ShutdownLogger, RunReturns,
       DetachThrows, PushThrows, Unwound, Early
  <1>13. CASE CallbackThrows \/ SimulateThrows
    <2>1. Early' => Early /\ UNCHANGED windowVars /\ Untranslated' = Untranslated
      BY <1>13 DEF CallbackThrows, Throws, SimulateThrows, Unwound, Early, Untranslated, windowVars,
         sdl
    <2> QED
      BY <2>1, SizeKept DEF windowVars, sdl
  <1>14. CASE \/ InitLogger \/ InitTasks \/ Run \/ SimulateStep \/ Simulate \/ Close
              \/ EndPush \/ DetachLayer \/ UNCHANGED vars
              \/ \E layer \in Layers, kind \in Kinds : BeginPush(layer, kind)
    <2>1. UNCHANGED <<size, framebuffer, surface, queue, phase, event>> /\ (Early' => Early)
      BY <1>14 DEF InitLogger, InitTasks, Run, SimulateStep, Simulate, Close, EndPush, DetachLayer,
         BeginPush, vars, process, loop, windowVars, sdl, Early
    <2> QED
      BY <2>1, SizeKept DEF Untranslated
  <1>15. CASE \/ BeginFrame \/ OnEvent \/ LayerOnEvent \/ EventHandled \/ OnUpdateReturns
              \/ LayerReturns \/ EndPhase \/ SimulateReturns
    <2>1. UNCHANGED <<stage, size, framebuffer, surface, queue>>
      BY <1>15 DEF BeginFrame, OnEvent, LayerOnEvent, EventHandled, OnUpdateReturns, LayerReturns,
         EndPhase, SimulateReturns, ResetFrameState, process, windowVars, sdl
    <2>2. (phase # "observe" /\ phase' # "observe") \/ UNCHANGED <<phase, event>>
      BY <1>15 DEF BeginFrame, OnEvent, LayerOnEvent, EventHandled, OnUpdateReturns, LayerReturns,
         EndPhase, SimulateReturns, NextPhase
    <2> QED
      BY <2>1, <2>2, SizeKept DEF Untranslated, Early
  <1> QED
    BY <1>6, <1>7, <1>8, <1>9, <1>10, <1>11, <1>12, <1>13, <1>14, <1>15, NextSteps DEF InStage

-----------------------------------------------------------------------------
(* Types, and the whole invariant. *)

LEMMA TypeStep ==
  ASSUME TypeOK, StageInv, LayerInv, EventInv, TickInv, BacklogBounded, [Next]_vars
  PROVE  TypeOK'
  <1> DEFINE E == [layer : Layers, kind : Kinds]
  <1>1. WindowTypeOK' /\ TimestepTypeOK'
    <2>1. phase = "observe" => event \in Event
      BY DEF TypeOK, EventInv
    <2>2. window = "made" => platform = 0
      BY DEF StageInv, TypeOK
    <2>3. WindowTypeOK /\ TimestepTypeOK
      BY DEF TypeOK
    <2> QED
      BY <2>1, <2>2, <2>3, NextWindowStep, NextTimestepStep, WindowTyping, TimestepInvariance
  <1>2. /\ layers \in Seq(E) /\ Len(layers) \in Nat /\ insertIndex \in 0 .. Len(layers)
        /\ attaching \in Seq(E) /\ attached \subseteq Layers
    BY DEF TypeOK
  <1> DEFINE Main == /\ stage' \in {"start", "logging", "tasks", "making", "configuring",
                                    "running", "destroying", "stopping", "flushing", "exited",
                                    "terminated"}
                     /\ logger' \in BOOLEAN /\ tasks' \in BOOLEAN /\ running' \in BOOLEAN
  <1> DEFINE Stack == /\ layers' \in Seq(E) /\ insertIndex' \in 0 .. Len(layers')
                      /\ attaching' \in Seq(E) /\ attached' \subseteq Layers
  <1> DEFINE Loop == /\ phase' \in {"idle", "poll", "observe", "translate", "dispatch",
                                    "update", "imgui", "render"}
                     /\ at' \in 0 .. Len(layers') + 1
                     /\ event' \in Event \cup {NoEvent}
  <1> SUFFICES Main /\ Stack /\ Loop
    BY <1>1 DEF TypeOK
  <1>3. UNCHANGED stack => Stack
    BY <1>2 DEF stack
  <1>4. UNCHANGED process => Main
    BY DEF process, TypeOK
  <1>5. UNCHANGED <<layers, loop>> => Loop
    BY DEF loop, TypeOK
  <1>6. CASE \/ InitLogger \/ InitTasks \/ CreateApplication \/ Initialize \/ Run \/ RunReturns
             \/ ShutdownTasks \/ ShutdownLogger \/ DetachThrows \/ Close
    <2>1. UNCHANGED stack /\ UNCHANGED <<layers, loop>>
      BY <1>6 DEF InitLogger, InitTasks, CreateApplication, Initialize, Run, RunReturns,
         ShutdownTasks, ShutdownLogger, DetachThrows, Close, stack
    <2>2. Main
      BY <1>6 DEF InitLogger, InitTasks, CreateApplication, Initialize, Run, RunReturns,
         ShutdownTasks, ShutdownLogger, DetachThrows, Close, TypeOK
    <2> QED
      BY <1>3, <1>5, <2>1, <2>2
  <1>7. CASE UseWindow \/ PostEvent \/ SimulateStep \/ Simulate \/ UNCHANGED vars
    <2>1. UNCHANGED stack /\ UNCHANGED process /\ UNCHANGED <<layers, loop>>
      BY <1>7 DEF UseWindow, PostEvent, SimulateStep, Simulate, vars, stack
    <2> QED
      BY <1>3, <1>4, <1>5, <2>1
  <1>8. CASE \/ BeginFrame \/ TranslateEvent \/ LayerOnEvent \/ EventHandled \/ OnUpdateReturns
             \/ LayerReturns \/ EndPhase \/ SimulateReturns
    <2>1. UNCHANGED stack /\ UNCHANGED process /\ layers' = layers
      BY <1>8 DEF BeginFrame, TranslateEvent, LayerOnEvent, EventHandled, OnUpdateReturns,
         LayerReturns, EndPhase, SimulateReturns, stack
    <2>2. phase' \in {"idle", "poll", "translate", "dispatch", "update", "imgui", "render"}
      BY <1>8 DEF BeginFrame, TranslateEvent, LayerOnEvent, EventHandled, OnUpdateReturns,
         LayerReturns, EndPhase, SimulateReturns, TickReturns, TickInv, NextPhase
    <2>3. event' \in Event \cup {NoEvent}
      BY <1>8 DEF BeginFrame, TranslateEvent, LayerOnEvent, EventHandled, OnUpdateReturns,
         LayerReturns, EndPhase, SimulateReturns, TypeOK
    <2>4. at \in 0 .. Len(layers) + 1
      BY DEF TypeOK
    <2>5. at' \in 0 .. Len(layers) + 1
      <3>1. CASE BeginFrame \/ TranslateEvent \/ EventHandled
        BY <2>4, <3>1 DEF BeginFrame, TranslateEvent, EventHandled
      <3>2. CASE LayerOnEvent \/ OnUpdateReturns \/ EndPhase
        BY <1>2, <2>4, <3>2 DEF LayerOnEvent, OnUpdateReturns, EndPhase
      <3>3. CASE LayerReturns \/ SimulateReturns
        <4>1. at \in 1 .. Len(layers) /\ at' = at + 1
          BY <1>2, <3>3 DEF LayerReturns, SimulateReturns, TickReturns, TickInv
        <4> QED
          BY <1>2, <4>1
      <3> QED
        BY <1>8, <3>1, <3>2, <3>3
    <2> QED
      BY <1>3, <1>4, <2>1, <2>2, <2>3, <2>5
  <1>9. CASE PollEvent
    <2>1. Head(queue) \in Event
      BY <1>9, HeadTailProperties DEF PollEvent, TypeOK, WindowTypeOK
    <2>2. UNCHANGED stack /\ UNCHANGED process
      BY <1>9 DEF PollEvent
    <2>3. layers' = layers /\ at' = at /\ phase' = "observe" /\ event' = Head(queue)
      BY <1>9 DEF PollEvent, stack
    <2>4. Loop
      BY <2>1, <2>3 DEF TypeOK
    <2> QED
      BY <1>3, <1>4, <2>2, <2>4
  <1>10. CASE OnEvent
    <2>1. UNCHANGED stack /\ layers' = layers
      BY <1>10 DEF OnEvent, stack
    <2>2. Main
      BY <1>10 DEF OnEvent, TypeOK
    <2>3. Loop
      BY <1>2, <1>10, <2>1 DEF OnEvent, TypeOK
    <2> QED
      BY <1>3, <2>1, <2>2, <2>3
  <1>11. ASSUME NEW layer \in Layers, NEW kind \in Kinds, BeginPush(layer, kind)
         PROVE  Main /\ Stack /\ Loop
    <2>1. [layer |-> layer, kind |-> kind] \in E
      OBVIOUS
    <2>2. /\ UNCHANGED process /\ UNCHANGED <<layers, loop>>
          /\ UNCHANGED <<layers, insertIndex, attached>>
          /\ attaching' = Append(attaching, [layer |-> layer, kind |-> kind])
      BY <1>11 DEF BeginPush
    <2> HIDE DEF E
    <2>3. attaching' \in Seq(E)
      BY <1>2, <2>1, <2>2, AppendProperties
    <2> QED
      BY <1>2, <1>4, <1>5, <2>2, <2>3
  <1>12. CASE EndPush
    <2>1. attaching # <<>> /\ UNCHANGED <<process, loop>>
      BY <1>12 DEF EndPush
    <2>2. Attached(0)
      BY <2>1 DEF LayerInv, Attached
    <2>3. Stack /\ Len(layers') = Len(layers) + 1
      BY <1>12, <2>1, <2>2, PushedLayers
    <2>4. Main
      BY <1>4, <2>1
    <2>5. Loop
      BY <1>2, <2>1, <2>3 DEF loop, TypeOK
    <2> QED
      BY <2>3, <2>4, <2>5
  <1>13. CASE PushThrows
    <2>1. /\ attaching' = <<>> /\ UNCHANGED <<layers, insertIndex, attached>>
          /\ UNCHANGED <<layers, loop>>
      BY <1>13 DEF PushThrows
    <2>2. Main
      BY <1>13 DEF PushThrows, Unwound, TypeOK
    <2>3. <<>> \in Seq(E)
      OBVIOUS
    <2> QED
      BY <1>2, <1>5, <2>1, <2>2, <2>3
  <1>14. CASE CallbackThrows \/ SimulateThrows
    <2>1. UNCHANGED stack /\ layers' = layers
      BY <1>14 DEF CallbackThrows, Throws, SimulateThrows, stack
    <2>2. Main
      BY <1>14 DEF CallbackThrows, Throws, SimulateThrows, Unwound, TypeOK
    <2>3. phase' = "idle" \/ phase' = phase
      BY <1>14 DEF CallbackThrows, Throws, SimulateThrows
    <2>4. event' = NoEvent \/ event' = event
      BY <1>14 DEF CallbackThrows, Throws, SimulateThrows
    <2>5. at' \in 0 .. Len(layers) + 1
      <3>1. CASE at' = 0
        BY <1>2, <3>1
      <3>2. CASE at' # 0
        <4>1. at \in 1 .. Len(layers) /\ at' = at + 1
          BY <1>2, <1>14, <3>2 DEF CallbackThrows, Throws, SimulateThrows, StepThrows, TickInv
        <4> QED
          BY <1>2, <4>1
      <3> QED
        BY <3>1, <3>2
    <2>6. Loop
      BY <2>1, <2>3, <2>4, <2>5 DEF TypeOK
    <2> QED
      BY <1>3, <2>1, <2>2, <2>6
  <1>15. CASE DetachLayer
    <2>1. /\ UNCHANGED process /\ UNCHANGED <<layers, insertIndex, attaching, phase, event>>
          /\ attached' \subseteq attached /\ at' = at + 1 /\ at < Len(layers)
      BY <1>15 DEF DetachLayer
    <2>2. at' \in 0 .. Len(layers) + 1
      BY <1>2, <2>1 DEF TypeOK
    <2>3. Loop
      BY <2>1, <2>2 DEF TypeOK
    <2> QED
      BY <1>2, <1>4, <2>1, <2>3
  <1>16. CASE DestroyApplication
    <2>1. /\ layers' = <<>> /\ insertIndex' = 0 /\ at' = 0 /\ stage' = "stopping"
          /\ UNCHANGED <<logger, tasks, running, attaching, attached, phase, event>>
      BY <1>16 DEF DestroyApplication
    <2>2. <<>> \in Seq(E) /\ Len(<<>>) = 0
      OBVIOUS
    <2>3. Main /\ Loop
      BY <2>1, <2>2 DEF TypeOK
    <2> QED
      BY <1>2, <2>1, <2>2, <2>3
  <1> QED
    BY <1>6, <1>7, <1>8, <1>9, <1>10, <1>11, <1>12, <1>13, <1>14, <1>15, <1>16, NextSteps
       DEF InStage

LEMMA InitIInv == Init => IInv
  <1> SUFFICES ASSUME Init PROVE IInv
    OBVIOUS
  <1> USE WindowAssumption, TimestepAssumption DEF Init, WindowInit, TimestepInit
  <1>1. TypeOK
    <2>1. /\ <<>> \in Seq([layer : Layers, kind : Kinds]) /\ <<>> \in Seq(Event)
          /\ Len(<<>>) = 0
      OBVIOUS
    <2>2. WindowTypeOK
      <3>1. provider \in BOOLEAN /\ shouldClose \in BOOLEAN /\ jumped \in BOOLEAN
        BY Zenon
      <3>2. /\ platform \in 0 .. 1 /\ window \in {"none", "made", "open"}
            /\ size \in Sizes /\ framebuffer \in Sizes /\ surface \in Sizes
            /\ pointer \in Positions /\ eventPosition \in Positions
            /\ posted \in Nat /\ moved \in Int
        OBVIOUS
      <3>3. mouse \in [position : Positions, delta : Int]
        OBVIOUS
      <3> QED
        BY <2>1, <3>1, <3>2, <3>3, Zenon DEF WindowTypeOK
    <2>3. TimestepTypeOK
      <3>1. ticking \in BOOLEAN
        BY Zenon
      <3>2. accumulator \in Nat /\ throws \in 0 .. MaxThrows
        OBVIOUS
      <3> QED
        BY <3>1, <3>2, Zenon DEF TimestepTypeOK
    <2>4. /\ insertIndex \in 0 .. Len(layers) /\ at \in 0 .. Len(layers) + 1
          /\ attached \subseteq Layers /\ event \in Event \cup {NoEvent}
      BY <2>1
    <2> QED
      BY <2>1, <2>2, <2>3, <2>4 DEF TypeOK
  <1>2. StageInv /\ EventInv /\ TickInv /\ MouseInv
    BY DEF StageInv, EventInv, TickInv, MouseInv
  <1>3. LayerInv
    BY DEF LayerInv
  <1>4. SizeInv
    BY DEF SizeInv, Untranslated, Brings
  <1>5. BacklogBounded
    BY DEF BacklogBounded
  <1> QED
    BY <1>1, <1>2, <1>3, <1>4, <1>5 DEF IInv

LEMMA NextIInv == IInv /\ [Next]_vars => IInv'
  <1> SUFFICES ASSUME IInv, [Next]_vars PROVE IInv'
    OBVIOUS
  <1>1. /\ TypeOK /\ StageInv /\ LayerInv /\ EventInv
        /\ SizeInv /\ MouseInv /\ TickInv /\ BacklogBounded
    BY DEF IInv
  <1>2. WindowTypeOK /\ TimestepTypeOK /\ (phase = "observe" => event \in Event)
    BY <1>1 DEF TypeOK, EventInv
  <1>3. TypeOK'
    BY <1>1, TypeStep
  <1>4. StageInv' /\ TickInv'
    BY <1>1, StageStep, TickStep
  <1>5. LayerInv' /\ EventInv'
    BY <1>1, LayerStep, EventStep
  <1>6. SizeInv'
    BY <1>1, SizeStep
  <1>7. MouseInv'
    BY <1>1, <1>2, NextWindowStep, MouseInvariance
  <1>8. BacklogBounded'
    BY <1>1, <1>2, NextTimestepStep, TimestepInvariance
  <1> QED
    BY <1>3, <1>4, <1>5, <1>6, <1>7, <1>8 DEF IInv

THEOREM Invariance == Spec => []IInv
  BY InitIInv, NextIInv, PTL DEF Spec

(***************************************************************************)
(* Every step of main(), of the loop and of a callback keeps the types: no   *)
(* iterator of the main loop leaves the layer stack (application.cpp).       *)
(***************************************************************************)
THEOREM Typing == Spec => []TypeOK
  <1>1. IInv => TypeOK
    BY DEF IInv
  <1> QED
    BY <1>1, Invariance, PTL

(***************************************************************************)
(* Whatever fails or throws on the way through main(), SDL outlives the      *)
(* window, the window the attached layers, the task system the application   *)
(* and the logger the task system (entry_point.cpp, application.cpp).        *)
(***************************************************************************)
THEOREM Lifetimes == Spec => []LifetimesNest
  <1>1. IInv => LifetimesNest
    <2> SUFFICES ASSUME IInv PROVE LifetimesNest
      OBVIOUS
    <2>1. StageInv /\ LayerInv /\ TypeOK
      BY DEF IInv
    <2>2. window \in {"none", "made", "open"}
          /\ stage \in {"start", "logging", "tasks", "making", "configuring", "running",
                        "destroying", "stopping", "flushing", "exited", "terminated"}
      BY <2>1 DEF TypeOK, WindowTypeOK
    <2>3. attached # {} => window = "open"
      <3>1. SUFFICES ASSUME window # "open" PROVE attached = {}
        OBVIOUS
      <3>2. layers = <<>> /\ at \in Nat
        BY <2>1, <3>1 DEF LayerInv, TypeOK
      <3>3. \A n \in Nat : 1 .. Len(layers) - n = {}
        BY <3>2
      <3> QED
        BY <2>1, <3>2, <3>3 DEF LayerInv
    <2>4. /\ window = "open" => platform = 1
          /\ window # "none" => tasks
          /\ tasks => logger
          /\ provider => window = "open"
          /\ stage \in {"stopping", "flushing", "exited"} => window = "none" /\ platform = 0
      BY <2>1, <2>2 DEF StageInv
    <2> QED
      BY <2>3, <2>4 DEF LifetimesNest
  <1> QED
    BY <1>1, Invariance, PTL

(***************************************************************************)
(* Once the events are handled the window's sizes are those of the native    *)
(* window, whatever resize() recorded and older events overwrote             *)
(* (SDLWindow::resize and handleEvent).                                      *)
(***************************************************************************)
THEOREM Sizing == Spec => []SizeSettles
  <1>1. IInv => SizeSettles
    BY DEF IInv, EventInv, SizeInv, Untranslated, Brings, SizeSettles
  <1> QED
    BY <1>1, Invariance, PTL

(***************************************************************************)
(* The mouse delta of a frame is the way its motion events went, as long as  *)
(* nobody asked for or set the position while motion was queued (input.cpp). *)
(***************************************************************************)
THEOREM MouseDelta == Spec => []MouseDeltaTrue
  <1>1. IInv => MouseDeltaTrue
    BY DEF IInv, MouseInv, MouseDeltaTrue
  <1> QED
    BY <1>1, Invariance, PTL

(***************************************************************************)
(* The accumulator of the fixed timestep stays below one step and one        *)
(* clamped frame, and one more for every step that threw                     *)
(* (timestep_accumulator.h).                                                 *)
(***************************************************************************)
THEOREM Backlog == Spec => []BacklogBounded
  <1>1. IInv => BacklogBounded
    BY DEF IInv
  <1> QED
    BY <1>1, Invariance, PTL
================================================================================
