-------------------------------- MODULE Shaders --------------------------------
(***************************************************************************)
(* renderer/slang_compiler.cpp and vulkan/nvrhi_shader_factory.cpp: threads *)
(* that compile Slang programs under the one mutex of the global session,   *)
(* and the render thread that turns what was reflected from a program into  *)
(* NVRHI binding layouts, one per descriptor set, and resources into        *)
(* binding sets for them.                                                   *)
(*                                                                          *)
(* A program is what Slang's layout says of it: a sequence of parameters    *)
(* [name, set, slot, ranges], a range being [type, count, unbounded,    *)
(* size].  SPIR-V, stages, the views of resources and diagnostics are left  *)
(* out.                                                                     *)
(***************************************************************************)
EXTENDS Naturals, Sequences, FiniteSets, SequencesExt

CONSTANTS Threads,     \* the threads that compile
          Programs,    \* the programs there are
          Capacities,  \* the bindless capacities in use
          MaxCount,    \* bound: elements of an array and bytes of push constants, the code's
                       \* largest uint16_t
          ResourceLists,  \* the resources, [name, kind, element], binding sets are asked for with
          NoOne        \* the mutex is free

NoProgram == <<>>

ASSUME ShadersAssumption ==
  /\ NoOne \notin Threads
  /\ MaxCount \in Nat /\ Capacities \subseteq Nat
  /\ NoProgram \notin Programs
  /\ \A resources \in ResourceLists : resources \in Seq(Range(resources))

VARIABLES
  holder,    \* who holds GlobalCompileState's mutex
  call,      \* call[t]: where thread t is in a compile, and of what
  compiled,  \* the program compiled last
  shader,    \* the shader set made last, for a program and a bindless capacity
  bound      \* the last binding set made: [program, set, resources, items]

shaderVars == <<holder, call, compiled, shader, bound>>

NoCall == [stage |-> "idle", program |-> NoProgram]
NoSet == [program |-> NoProgram, set |-> 0, resources |-> <<>>, items |-> <<>>]

ShadersInit ==
  /\ holder = NoOne
  /\ call = [t \in Threads |-> NoCall]
  /\ compiled = NoProgram
  /\ shader = NoProgram
  /\ bound = NoSet

-----------------------------------------------------------------------------
(* reflectProgram: the ranges of all parameters, in order. *)

Binding(parameter, range) ==
  [name |-> parameter.name, type |-> range.type, set |-> parameter.set, binding |-> parameter.slot,
   count |-> IF range.unbounded THEN 0 ELSE range.count, unbounded |-> range.unbounded]

RangesOf(parameter, push) ==
  SelectSeq(parameter.ranges, LAMBDA range : (range.type = "PushConstant") = push)

BindingsOf(program) ==
  FlattenSeq([i \in DOMAIN program |->
    LET ranges == RangesOf(program[i], FALSE)
    IN  [j \in DOMAIN ranges |-> Binding(program[i], ranges[j])]])

\* Only their sizes matter, in no order.
PushConstantsOf(program) ==
  UNION {{range.size : range \in Range(RangesOf(program[i], TRUE))} : i \in DOMAIN program}

Reflection ==
  [program \in Programs |-> [bindings       |-> BindingsOf(program),
                             push_constants |-> PushConstantsOf(program)]]

Bindings(program) == Reflection[program].bindings
PushConstants(program) == Reflection[program].push_constants

LayoutType ==
  [Sampler |-> "Sampler", SampledImage |-> "Texture_SRV", StorageImage |-> "Texture_UAV",
   UniformBuffer |-> "ConstantBuffer", StorageBufferReadOnly |-> "RawBuffer_SRV",
   StorageBufferReadWrite |-> "RawBuffer_UAV", StructuredBufferReadOnly |-> "StructuredBuffer_SRV",
   StructuredBufferReadWrite |-> "StructuredBuffer_UAV", UniformTexelBuffer |-> "TypedBuffer_SRV",
   StorageTexelBuffer |-> "TypedBuffer_UAV"]

\* The types reflectResourceType knows: those, and combined image samplers.
Reflectable(program) ==
  /\ \A i \in DOMAIN Bindings(program) :
       LET b == Bindings(program)[i]
       IN  /\ b.type \in DOMAIN LayoutType \cup {"CombinedImageSampler"}
           /\ b.unbounded \/ b.count > 0
  /\ \A size \in PushConstants(program) : size > 0

-----------------------------------------------------------------------------
(* Compiling, on any thread. *)

At(t, stage) == call[t].stage = stage

\* compileGraphics and compileCompute read a file, the others have the text.
StartCompile(t, program) ==
  /\ At(t, "idle")
  /\ call' = [call EXCEPT ![t] = [stage |-> "reading", program |-> program]]
  /\ UNCHANGED <<holder, compiled, shader, bound>>

ReadSource(t) ==
  /\ At(t, "reading")
  /\ call' = [call EXCEPT ![t].stage = "opening"]
  /\ UNCHANGED <<holder, compiled, shader, bound>>

ReadFails(t) ==
  /\ At(t, "reading")
  /\ call' = [call EXCEPT ![t] = NoCall]
  /\ UNCHANGED <<holder, compiled, shader, bound>>

\* createCompileContext takes the mutex, and the context keeps it.
OpenSession(t) ==
  /\ At(t, "opening") /\ holder = NoOne
  /\ holder' = t
  /\ call' = [call EXCEPT ![t].stage = "compiling"]
  /\ UNCHANGED <<compiled, shader, bound>>

\* The profile, the session, the module, an entry point, linking, the code or
\* the layout: something throws, and the context is destroyed.
CompileFails(t) ==
  /\ At(t, "compiling")
  /\ holder' = NoOne
  /\ call' = [call EXCEPT ![t] = NoCall]
  /\ UNCHANGED <<compiled, shader, bound>>

\* compileComputeFromContext or compileGraphicsFromContext.
Compile(t) ==
  /\ At(t, "compiling")
  /\ Reflectable(call[t].program)
  /\ compiled' = call[t].program
  /\ holder' = NoOne
  /\ call' = [call EXCEPT ![t] = NoCall]
  /\ UNCHANGED <<shader, bound>>

-----------------------------------------------------------------------------
(***************************************************************************)
(* createBindingLayouts.  The sets with bounded bindings or push constants  *)
(* get a layout of items, those with an unbounded binding a bindless one.   *)
(***************************************************************************)
Bounded(program, set) ==
  {i \in DOMAIN Bindings(program) :
     Bindings(program)[i].set = set /\ ~Bindings(program)[i].unbounded}

UnboundedIn(program, set) ==
  {i \in DOMAIN Bindings(program) :
     Bindings(program)[i].set = set /\ Bindings(program)[i].unbounded}

SetsOf(program) == {Bindings(program)[i].set : i \in DOMAIN Bindings(program)}
Sets == {0} \cup UNION {SetsOf(program) : program \in Programs}

HasState(program, set) ==
  Bounded(program, set) # {} \/ (set = 0 /\ PushConstants(program) # {})

BindingItem(b) ==
  [slot |-> b.binding, type |-> LayoutType[b.type], size |-> b.count]

OnePushRange(program) ==
  Cardinality(PushConstants(program)) <= 1 /\ PushConstants(program) \subseteq 1 .. MaxCount

PushItems(program, set) ==
  IF set # 0 THEN {} ELSE {[slot |-> 0, type |-> "PushConstants", size |-> n] : n \in PushConstants(program)}

\* The layout of a set with a state: setSize takes the count.
Layout(program, set) ==
  {BindingItem(Bindings(program)[i]) : i \in Bounded(program, set)} \cup PushItems(program, set)

CanLayOut(program, capacity) ==
  /\ \A set \in SetsOf(program) :
       /\ \A i \in Bounded(program, set) :
            /\ Bindings(program)[i].count \in 1 .. MaxCount
            /\ Bindings(program)[i].type \in DOMAIN LayoutType
            /\ \A j \in Bounded(program, set) \ {i} :
                 Bindings(program)[i].binding # Bindings(program)[j].binding
       /\ UnboundedIn(program, set) # {} =>
            /\ Cardinality(UnboundedIn(program, set)) = 1
            /\ ~HasState(program, set)
            /\ \A i \in UnboundedIn(program, set) :
                 Bindings(program)[i].type = "SampledImage" /\ Bindings(program)[i].binding = 0
            /\ capacity # 0
  /\ OnePushRange(program)

\* createNvrhiGraphicsShaderSet and createNvrhiComputeShaderSet.
CreateShaderSet(capacity) ==
  /\ compiled # NoProgram
  /\ CanLayOut(compiled, capacity)
  /\ shader' = compiled
  /\ UNCHANGED <<holder, call, compiled, bound>>

-----------------------------------------------------------------------------
(***************************************************************************)
(* createNvrhiBindingSet: each element of each binding takes the one        *)
(* resource of its name and element, which must be of the kind the type     *)
(* wants, and no resource is left over.                                     *)
(***************************************************************************)
ItemType ==
  [Sampler |-> "Sampler", SampledImage |-> "Texture_SRV", StorageImage |-> "Texture_UAV",
   UniformBuffer |-> "ConstantBuffer", StorageBufferReadOnly |-> "RawBuffer_SRV",
   StorageBufferReadWrite |-> "RawBuffer_UAV", StructuredBufferReadOnly |-> "StructuredBuffer_SRV",
   StructuredBufferReadWrite |-> "StructuredBuffer_UAV", UniformTexelBuffer |-> "TypedBuffer_SRV",
   StorageTexelBuffer |-> "TypedBuffer_UAV"]

KindFor(type) ==
  CASE type = "Sampler" -> "Sampler"
    [] type \in {"SampledImage", "StorageImage"} -> "Texture"
    [] OTHER -> "Buffer"

\* Fault: the element is not looked at.
MatchesName(resources, b, element) ==
  {r \in DOMAIN resources : resources[r].name = b.name}

Matches(resources, b, element) ==
  {r \in DOMAIN resources : resources[r].name = b.name /\ resources[r].element = element}

\* The elements of the bindings of a set.
Elements(program, set) ==
  UNION {{<<i, n>> : n \in 0 .. Bindings(program)[i].count - 1} : i \in Bounded(program, set)}

CanBind(program, set, resources) ==
  LET b(e) == Bindings(program)[e[1]]
  IN  /\ UnboundedIn(program, set) = {}
      /\ \A e \in Elements(program, set) : \E r \in DOMAIN resources :
           Matches(resources, b(e), e[2]) = {r} /\ resources[r].kind = KindFor(b(e).type)
      /\ set = 0 => Cardinality(PushConstants(program)) <= 1
      /\ \A r \in DOMAIN resources : \E e \in Elements(program, set) :
           r \in Matches(resources, b(e), e[2])

SetItem(program, resources, e) ==
  LET b == Bindings(program)[e[1]]
      r == CHOOSE m \in Matches(resources, b, e[2]) : TRUE
  IN  [slot |-> b.binding, type |-> ItemType[b.type], element |-> resources[r].element, resource |-> r]

PushSetItems(program, set) ==
  IF set # 0 \/ PushConstants(program) = {} THEN {}
  ELSE {[slot |-> 0, type |-> "PushConstants", element |-> 0, resource |-> 0]}

SetItems(program, set, resources) ==
  {SetItem(program, resources, e) : e \in Elements(program, set)} \cup PushSetItems(program, set)

CreateBindingSet(set, resources) ==
  /\ shader # NoProgram
  /\ HasState(shader, set)
  /\ CanBind(shader, set, resources)
  /\ bound' = [program |-> shader, set |-> set, resources |-> resources,
               items |-> SetItems(shader, set, resources)]
  /\ UNCHANGED <<holder, call, compiled, shader>>

-----------------------------------------------------------------------------
Compiling(t) == ReadSource(t) \/ ReadFails(t) \/ OpenSession(t) \/ CompileFails(t) \/ Compile(t)

ShadersNext ==
  \/ \E t \in Threads : Compiling(t) \/ \E program \in Programs : StartCompile(t, program)
  \/ \E capacity \in Capacities : CreateShaderSet(capacity)
  \/ \E set \in Sets, resources \in ResourceLists : CreateBindingSet(set, resources)

ShadersSpec == ShadersInit /\ [][ShadersNext]_shaderVars

-----------------------------------------------------------------------------
(***************************************************************************)
(* The inductive invariant: a thread compiles only while it holds the       *)
(* mutex, what is compiled could be reflected, and what a shader set or a   *)
(* binding set was made of passed the checks of the one that made it.       *)
(***************************************************************************)
MutexInv ==
  /\ call \in [Threads -> [stage : {"idle", "reading", "opening", "compiling"},
                           program : Programs \cup {NoProgram}]]
  /\ \A t \in Threads : At(t, "compiling") <=> holder = t
  /\ \A t \in Threads : ~At(t, "idle") => call[t].program \in Programs

CompiledInv == compiled # NoProgram => compiled \in Programs /\ Reflectable(compiled)

LaidOut(program) == \E capacity \in Capacities : CanLayOut(program, capacity)

ShaderInv == shader # NoProgram => LaidOut(shader)

BoundInv ==
  bound # NoSet =>
    /\ bound.resources \in ResourceLists
    /\ LaidOut(bound.program)
    /\ CanBind(bound.program, bound.set, bound.resources)
    /\ bound.items = SetItems(bound.program, bound.set, bound.resources)

ShadersInv == MutexInv /\ CompiledInv /\ ShaderInv /\ BoundInv

(***************************************************************************)
(* A binding set fits the layout of its descriptor set, which is made at    *)
(* another time by another function with a table of its own: each element   *)
(* of each item of the layout is bound once, with the item's slot and type, *)
(* and nothing else is; no two items share a slot; and every resource is    *)
(* bound, as its element of each binding of its name that has one (of two,  *)
(* if the program has parameters of one name in two namespaces).            *)
(***************************************************************************)
IsPush(item) == item.type = "PushConstants"

ElementsBoundOnce ==
  \A item \in Layout(bound.program, bound.set) : ~IsPush(item) =>
    \A n \in 0 .. item.size - 1 :
      Cardinality({b \in bound.items : <<b.slot, b.type, b.element>> = <<item.slot, item.type, n>>}) = 1

ItemsLaidOut ==
  \A b \in bound.items : \E item \in Layout(bound.program, bound.set) :
    /\ <<b.slot, b.type>> = <<item.slot, item.type>>
    /\ ~IsPush(item) => b.element < item.size

SlotsDistinct ==
  \A x, y \in Layout(bound.program, bound.set) : ~IsPush(x) /\ ~IsPush(y) /\ x.slot = y.slot => x = y

DeclaredFor(r) ==
  {i \in Bounded(bound.program, bound.set) :
     /\ Bindings(bound.program)[i].name = bound.resources[r].name
     /\ bound.resources[r].element \in 0 .. Bindings(bound.program)[i].count - 1}

ResourcesBound ==
  \A r \in DOMAIN bound.resources :
    LET bindings == Bindings(bound.program)
        items    == {b \in bound.items : b.resource = r}
    IN  /\ items # {}
        /\ {<<b.slot, b.element>> : b \in items}
             = {<<bindings[i].binding, bound.resources[r].element>> : i \in DeclaredFor(r)}

SetsMatchLayouts ==
  bound # NoSet => ElementsBoundOnce /\ ItemsLaidOut /\ SlotsDistinct /\ ResourcesBound
================================================================================
