------------------------------ MODULE Dataflow ------------------------------
(***************************************************************************)
(* One session of a loaded package stepping its stages: StepStage,         *)
(* RunStageComponents, TopologicalComponents and ResolveInput of           *)
(* src/src/pipeline_session.cpp, with ReleaseStage and Reset, over the     *)
(* package Package.tla loads.                                              *)
(*                                                                         *)
(* A tensor is known by where it was made, in which pass, and where its    *)
(* bytes are.  Each call of StepStage is a pass.  The components of the    *)
(* stage are put in order by counting the connections that enter them, one *)
(* connection to a step; then each component's inputs are resolved one by  *)
(* one, its model runs, and at the end the states the stage produces are   *)
(* stored.  A pass fails when an input cannot be resolved, when a model    *)
(* fails or when it is cancelled, and leaves what it stored behind.        *)
(* A guided stage runs its components twice and publishes tensors computed *)
(* from both predictions.  Of its second run only what remains is kept     *)
(* here; StageSteps.tla has the run itself, StageRuns.tla the lock that    *)
(* keeps two runs apart.                                                   *)
(***************************************************************************)
EXTENDS Package

CONSTANT MaxPasses     \* bound on the passes of one session, by request

ASSUME MaxPassesAssumption == MaxPasses \in [DOMAIN Requests -> Nat]

VARIABLES
    external_values,   \* what the host supplied, by port
    endpoint_values,   \* what each port last carried
    state_values,      \* the loop-carried values, by state name
    guidance_values,   \* the names under which unconditional values are held
    stage_iterations,  \* completed passes, by stage name
    run,               \* the pass under way, or how the last one ended
    indegree,          \* by component of the stage: sources not yet in order
    ready,             \* components with no source left, in arrival order
    order,             \* the components in execution order, so far
    edge               \* the connection the popped component looks at, or 0

ordering == <<indegree, ready, order, edge>>
values == <<external_values, endpoint_values, state_values, guidance_values,
            stage_iterations>>
session == <<values, run, ordering>>
vars == <<package, session>>

Known(f, keys) == {f[k] : k \in keys \cap DOMAIN f}

Host == <<"host", "">>

\* A tensor the runtime or the host made outside any session.
HostTensor(pass) ==
    [from |-> Host, pass |-> pass, device |-> "none", reshaped |-> FALSE]

Stages == {manifest.stages[i].name : i \in DOMAIN manifest.stages}

StageOf(name) == manifest.stages[CHOOSE i \in Named(manifest.stages, name) : TRUE]

Stage == StageOf(run.stage)

Idle == [at |-> "idle", stage |-> "", overrides |-> {}, empty |-> TRUE,
         guided |-> FALSE, modality |-> "", pass |-> 0, next |-> 0, port |-> 0,
         skipped |-> {}, copied |-> {}, error |-> ""]

DataflowInit ==
    /\ PackageInit
    /\ external_values = <<>>
    /\ endpoint_values = <<>>
    /\ state_values = <<>>
    /\ guidance_values = {}
    /\ stage_iterations = <<>>
    /\ run = Idle
    /\ indegree = <<>>
    /\ ready = <<>>
    /\ order = <<>>
    /\ edge = 0

-----------------------------------------------------------------------------
(* Starting a pass *)

\* (The port itself, written out, is a third spelling of the same input.)
Answers(input, name) ==
    input.kind = "external" /\ name \in {input.name, input.semantic}

PortsNamed(name) ==
    {manifest.inputs[i].port :
        i \in {j \in DOMAIN manifest.inputs : Answers(manifest.inputs[j], name)}}

\* Connections between two components of a stage that order them.
OrdersStage(m, stage, c) ==
    /\ ~c.recurrent
    /\ c.source[1] # c.target[1]
    /\ StageOwns(stage, c.source[1])
    /\ StageOwns(stage, c.target[1])

OrderingEdges(m, stage) ==
    {i \in DOMAIN m.connections : OrdersStage(m, stage, m.connections[i])}

EntersFrom(m, edges, component) ==
    {i \in edges : m.connections[i].target[1] = component}

StartOrder(stage) ==
    LET edges == OrderingEdges(manifest, stage)
        degree == [c \in ToSet(stage.components) |->
                        Cardinality(EntersFrom(manifest, edges, c))]
    IN /\ indegree' = degree
       /\ ready' = <<>>
       /\ order' = <<>>
       /\ edge' = 0

StoreExternalInputs(names, pass) ==
    LET ports == UNION {PortsNamed(n) : n \in names}
    IN external_values' = Over([p \in ports |-> HostTensor(pass)], external_values)

\* The names and, for one call, the override an unconditional value may come
\* under.  (The port itself after the prefix is another name.)
Guidance(stage) == Field(stage.options, "guidance", <<>>)

GuidanceInputNames(guidance) ==
    LET declared == {i \in DOMAIN manifest.inputs :
                        manifest.inputs[i].port = guidance.conditioning_input}
        texts == UNION {{manifest.inputs[i].name, manifest.inputs[i].semantic} :
                            i \in declared}
    IN {"unconditional:" \o n : n \in texts \ {""}}
         \cup Known(guidance, {"unconditional_input"})

UnconditionalOverride(guidance) ==
    LET port == guidance.conditioning_input
    IN <<"unconditional:" \o port[1], port[2]>>

GuidedOutputs(stage, guidance) ==
    IF "outputs" \in DOMAIN guidance THEN ToSet(guidance.outputs)
    ELSE {c.source : c \in {d \in ToSet(manifest.connections) :
                               /\ d.recurrent
                               /\ d.transform = "scheduler_step"
                               /\ StageOwns(stage, d.source[1])}}

ExtractGuidanceInputs(stage, inputs) ==
    IF Guidance(stage) = <<>> THEN {}
    ELSE inputs \cap GuidanceInputNames(Guidance(stage))

\* A guided call, one whose scale is not 1, needs an unconditional value.
GuidanceResolves(stage, stored, overrides) ==
    LET guidance == Guidance(stage)
    IN /\ \/ GuidanceInputNames(guidance) \cap stored # {}
          \/ UnconditionalOverride(guidance) \in overrides
       /\ GuidedOutputs(stage, guidance) # {}

\* (A call whose stage does not exist is refused before anything changes.)
StepStage ==
    /\ phase = "loaded" /\ run.at = "idle"
    /\ run.pass < MaxPasses[request]
    /\ \E call \in {c \in ToSet(Asked.calls) : c.stage \in Stages} :
         LET stage == StageOf(call.stage)
             extracted == ExtractGuidanceInputs(stage, call.inputs)
             inputs == call.inputs \ extracted
             known == {n \in inputs : PortsNamed(n) # {}}
             pass == run.pass + 1
             guided == call.guided /\ Guidance(stage) # <<>>
             begun == [Idle EXCEPT !.stage = call.stage, !.pass = pass,
                                   !.overrides = call.overrides,
                                   !.empty = (inputs = {}),
                                   !.guided = guided,
                                   !.modality = call.modality]
         IN /\ guidance_values' = guidance_values \cup extracted
            /\ IF known # inputs
               THEN \* The name that matches nothing is met after some others.
                    /\ \E stored \in SUBSET known :
                          StoreExternalInputs(stored, pass)
                    /\ run' = [begun EXCEPT !.error = "unknown input"]
                    /\ UNCHANGED ordering
               ELSE /\ StoreExternalInputs(known, pass)
                    /\ IF guided /\ ~GuidanceResolves(stage, guidance_values',
                                                     call.overrides)
                       THEN /\ run' = [begun EXCEPT !.error = "no guidance"]
                            /\ UNCHANGED ordering
                       ELSE /\ run' = [begun EXCEPT !.at = "sources", !.next = 1]
                            /\ StartOrder(stage)
    /\ UNCHANGED <<package, endpoint_values, state_values, stage_iterations>>

-----------------------------------------------------------------------------
(* TopologicalComponents *)

\* The components of the stage that wait for none are ready, in their order.
AddSource ==
    /\ run.at = "sources" /\ run.next \in DOMAIN Stage.components
    /\ LET c == Stage.components[run.next]
       IN ready' = IF indegree[c] = 0 THEN Append(ready, c) ELSE ready
    /\ run' = [run EXCEPT !.next = @ + 1]
    /\ UNCHANGED <<package, values, indegree, order, edge>>

EndSources ==
    /\ run.at = "sources" /\ run.next = Len(Stage.components) + 1
    /\ run' = [run EXCEPT !.at = "ordering"]
    /\ UNCHANGED <<package, values, ordering>>

PopReady ==
    /\ run.at = "ordering" /\ edge = 0
    /\ ready # <<>>
    /\ order' = Append(order, Head(ready))
    /\ ready' = Tail(ready)
    /\ edge' = 1
    /\ UNCHANGED <<package, values, run, indegree>>

Popped == order[Len(order)]

\* One connection: if it leaves the popped component for another one of the
\* stage, the target waits for one source less.
DropEdge ==
    /\ run.at = "ordering" /\ edge \in DOMAIN manifest.connections
    /\ LET c == manifest.connections[edge]
           leaves == c.source[1] = Popped /\ OrdersStage(manifest, Stage, c)
           left == indegree[c.target[1]] - 1
       IN IF leaves
          THEN /\ indegree' = [indegree EXCEPT ![c.target[1]] = left]
               /\ ready' = IF left = 0 THEN Append(ready, c.target[1]) ELSE ready
          ELSE UNCHANGED <<indegree, ready>>
    /\ edge' = edge + 1
    /\ UNCHANGED <<package, values, run, order>>

NextPop ==
    /\ run.at = "ordering" /\ edge = Len(manifest.connections) + 1
    /\ edge' = 0
    /\ UNCHANGED <<package, values, run, indegree, ready, order>>

FailPass(error) ==
    run' = [run EXCEPT !.at = "idle", !.error = error]

EndOrder ==
    /\ run.at = "ordering" /\ edge = 0
    /\ ready = <<>>
    /\ IF Len(order) = Len(Stage.components)
       THEN run' = [run EXCEPT !.at = "components", !.next = 1]
       ELSE FailPass("dataflow cycle")
    /\ UNCHANGED <<package, values, ordering>>

-----------------------------------------------------------------------------
(* Resolving one input *)

FindConnection(port, recurrent) ==
    {i \in DOMAIN manifest.connections :
        /\ manifest.connections[i].target = port
        /\ manifest.connections[i].recurrent = recurrent}

FindInputState(port) ==
    {manifest.states[i].name :
        i \in {j \in DOMAIN manifest.states : manifest.states[j].input = port}}

FindDeclaredInput(port) ==
    {i \in DOMAIN manifest.inputs : manifest.inputs[i].port = port}

\* A value that is looked up rather than resolved: nothing, or one tensor.  The
\* overrides of the call are not asked.
KnownValue(port) ==
    LET sources == {manifest.connections[i].source :
                        i \in {j \in FindConnection(port, FALSE) :
                                  manifest.connections[j].transform = ""}}
        state == Known(state_values, FindInputState(port))
        external == Known(external_values, {port})
        direct == Known(endpoint_values, {port})
    IN IF state # {} THEN state
       ELSE IF external # {} THEN external
       ELSE IF direct # {} THEN direct
       ELSE Known(endpoint_values, sources)

\* The port a generated input is computed from.  Packed layouts count tokens
\* of ports with fixed names instead of reading their source.
GeneratorSources(input) ==
    {input.generator[k] :
        k \in (DOMAIN input.generator \cap {"sequence_input", "source",
                                            "shape_from"})
             \ (IF input.generator_kind = "packed_sequence_layout"
                THEN {"source"} ELSE {})}

(* Mutant: a generated input is computed once and kept. *)
GenerateOnce(input) ==
    IF input.port \in DOMAIN endpoint_values
    THEN {endpoint_values[input.port]}
    ELSE LET sources == GeneratorSources(input)
             seen == UNION {KnownValue(p) : p \in sources}
         IN IF sources = {} THEN {HostTensor(run.pass)}
            ELSE {HostTensor(v.pass) : v \in seen}

\* A generated tensor is as old as the tensor it is computed from.
Generate(input) ==
    LET sources == GeneratorSources(input)
        seen == UNION {KnownValue(p) : p \in sources}
    IN IF sources = {} THEN {HostTensor(run.pass)}
       ELSE {HostTensor(v.pass) : v \in seen}

\* A reshape hands on the buffer under a new shape, any other transform
\* computes a tensor of the host; what an override must supply gives nothing.
\* A scheduler step whose state has no value yet starts from the initial ones.
ApplyConnection(c, v, initial) ==
    LET computed == {HostTensor(run.pass)}
        held == Field(c.parameters, "state", "") \in DOMAIN state_values
    IN IF c.target \in run.overrides THEN {HostTensor(run.pass)}
       ELSE CASE c.transform = "" -> {v}
              [] c.transform = "reshape" ->
                    LET shape == OutputSpec(manifest, c.source).shape
                    IN {[v EXCEPT !.reshaped =
                            \/ @
                            \/ shape # InputSpec(manifest, c.target).shape
                            \/ ~ShapeIsNoop(c, shape)]}
              [] c.transform = "cast" ->
                    {[HostTensor(v.pass) EXCEPT !.from = v.from]}
              [] c.transform = "scheduler_step" ->
                    IF {"state", "stage"} \subseteq DOMAIN c.parameters
                         /\ (held \/ initial # {})
                    THEN computed ELSE {}
              [] c.transform \in {"video_diffusion_finalize",
                                  "audio_diffusion_finalize"} ->
                    IF held THEN computed ELSE {}
              [] OTHER -> {}

\* The port an external input that did not come is routed from, if the call
\* asks for a modality.  (Metadata that names no routing or encoder is left out:
\* nothing validates it, and the call fails.)
VisionRoute(port) ==
    LET understanding == Field(manifest.metadata, "vision_understanding", <<>>)
        routing == Field(understanding, "routing", <<>>)
    IN IF run.modality \in DOMAIN routing /\ routing[run.modality] = port
       THEN {<<understanding.encoder, "image_features">>}
       ELSE {}

\* A required external input must have come, an optional one is zeros.
DeclaredValue(input) ==
    CASE input.kind = "external" ->
            IF input.port \in DOMAIN external_values
            THEN {external_values[input.port]}
            ELSE IF VisionRoute(input.port) # {}
            THEN Known(endpoint_values, VisionRoute(input.port))
            ELSE IF input.required THEN {} ELSE {HostTensor(run.pass)}
      [] input.kind = "generated" -> Generate(input)
      [] input.kind = "defaulted" -> {HostTensor(run.pass)}
      [] input.kind = "stateful" -> {}

(* Mutant: what the port last carried is used before its connection. *)
ResolveCarried(port) ==
    LET state == Known(state_values, FindInputState(port))
        carried == Known(endpoint_values, {port})
        connections == FindConnection(port, FALSE)
        source(i) == manifest.connections[i].source
    IN IF port \in run.overrides THEN {HostTensor(run.pass)}
       ELSE IF state # {} THEN state
       ELSE IF carried # {} THEN carried
       ELSE IF connections # {}
       THEN UNION {UNION {ApplyConnection(manifest.connections[i], v, {}) :
                            v \in Known(endpoint_values, {source(i)})} :
                     i \in connections}
       ELSE UNION {DeclaredValue(manifest.inputs[i]) :
                     i \in FindDeclaredInput(port)}

\* The tensor an input resolves to, or no tensor when resolving it fails.  (A
\* scheduler step that is not recurrent and whose state has no value would ask
\* for its own target again without end; here it fails.)
ResolveInput(port) ==
    LET state == Known(state_values, FindInputState(port))
        connections == FindConnection(port, FALSE)
        source(i) == manifest.connections[i].source
    IN IF port \in run.overrides THEN {HostTensor(run.pass)}
       ELSE IF state # {} THEN state
       ELSE IF connections # {}
       THEN UNION {UNION {ApplyConnection(manifest.connections[i], v, {}) :
                            v \in Known(endpoint_values, {source(i)})} :
                     i \in connections}
       ELSE UNION {DeclaredValue(manifest.inputs[i]) :
                     i \in FindDeclaredInput(port)}

\* Why an input that resolves to nothing fails.
Reason(port) ==
    LET connections == FindConnection(port, FALSE)
    IN IF \E i \in connections :
              manifest.connections[i].source \notin DOMAIN endpoint_values
       THEN "unavailable output"
       ELSE IF connections \cup FindDeclaredInput(port) = {}
       THEN "no runtime source"
       ELSE "no value"

-----------------------------------------------------------------------------
(* RunStageComponents *)

Component == FindComponent(manifest, order[run.next])

ComponentPresent(c) ==
    \/ c.presence = ""
    \/ \E i \in DOMAIN manifest.inputs :
         /\ manifest.inputs[i].presence = c.presence
         /\ manifest.inputs[i].port \in DOMAIN external_values

Outputs(c) == {<<c.name, p>> : p \in NameSet(c.outputs)}

ReusePrefillEmbedding(c) ==
    /\ Stage.kind = "autoregressive"
    /\ Field(stage_iterations, Stage.name, 0) = 0
    /\ run.empty
    /\ c.role = "embedding"
    /\ Outputs(c) \subseteq DOMAIN endpoint_values

AtComponent == run.at = "components" /\ run.next \in DOMAIN order

SkipComponent ==
    /\ AtComponent /\ run.port = 0
    /\ ~ComponentPresent(Component) \/ ReusePrefillEmbedding(Component)
    /\ run' = [run EXCEPT !.next = @ + 1, !.skipped = @ \cup {Component.name}]
    /\ UNCHANGED <<package, values, ordering>>

BeginComponent ==
    /\ AtComponent /\ run.port = 0
    /\ ComponentPresent(Component) /\ ~ReusePrefillEmbedding(Component)
    /\ run' = [run EXCEPT !.port = 1, !.copied = {}]
    /\ UNCHANGED <<package, values, ordering>>

\* A buffer of another device, of no session or under another shape is copied
\* to the host before it is bound.
BindsDirectly(v, device) ==
    /\ v.device = device /\ device # Unknown
    /\ ~v.reshaped

ResolvePort ==
    /\ AtComponent /\ run.port \in DOMAIN Component.inputs
    /\ LET port == <<Component.name, Component.inputs[run.port].name>>
           found == ResolveInput(port)
       IN IF found = {}
          THEN FailPass(Reason(port)) /\ UNCHANGED endpoint_values
          ELSE LET v == CHOOSE x \in found : TRUE
                   direct == BindsDirectly(v, opened[port[1]].input_device)
               IN /\ endpoint_values' = Put(endpoint_values, port, v)
                  /\ run' = [run EXCEPT !.port = @ + 1,
                                        !.copied = IF direct THEN @
                                                   ELSE @ \cup {port}]
    /\ UNCHANGED <<package, external_values, state_values, guidance_values,
                   stage_iterations, ordering>>

Resolved == AtComponent /\ run.port = Len(Component.inputs) + 1

\* Outputs stay on their device only when the pipeline asked for that.
OutputDevice(name) ==
    LET device == opened[name].output_device
    IN IF Asked.options.device_outputs /\ device # Unknown
       THEN device ELSE "cpu"

CallModel ==
    /\ Resolved
    /\ LET c == Component
       IN endpoint_values' =
            Over([p \in Outputs(c) |->
                    [from |-> p, pass |-> run.pass,
                     device |-> OutputDevice(c.name), reshaped |-> FALSE]],
                 endpoint_values)
    /\ run' = [run EXCEPT !.next = @ + 1, !.port = 0]
    /\ UNCHANGED <<package, external_values, state_values, guidance_values,
                   stage_iterations, ordering>>

\* The model or a transform fails, or the pass is cancelled: between two
\* components, in the middle of resolving inputs, before or after the model runs,
\* or around and between the state updates.
StopPass ==
    /\ run.at \in {"components", "states"}
    /\ FailPass("stopped")
    /\ UNCHANGED <<package, values, ordering>>

EndComponents ==
    /\ run.at = "components" /\ run.next = Len(order) + 1 /\ ~run.guided
    /\ run' = [run EXCEPT !.at = "states", !.next = 1]
    /\ UNCHANGED <<package, values, ordering>>

\* The components of a guided stage run once more on the unconditional value;
\* a failure or a cancellation among them is one of StopPass.  All they wrote is
\* undone, and the guided outputs become tensors of the host.
PublishGuided ==
    /\ run.at = "components" /\ run.next = Len(order) + 1 /\ run.guided
    /\ LET guidance == Guidance(Stage)
           outputs == GuidedOutputs(Stage, guidance)
       IN IF outputs \subseteq DOMAIN endpoint_values
             /\ guidance.conditioning_input \in DOMAIN external_values
          THEN /\ endpoint_values' =
                    Over([p \in outputs |-> HostTensor(run.pass)],
                         endpoint_values)
               /\ run' = [run EXCEPT !.at = "states", !.next = 1]
          ELSE /\ FailPass("no guidance")
               /\ UNCHANGED endpoint_values
    /\ UNCHANGED <<package, external_values, state_values, guidance_values,
                   stage_iterations, ordering>>

-----------------------------------------------------------------------------
(* Storing the states the stage produced *)

FindStateConnection(s) ==
    {i \in FindConnection(s.input, TRUE) :
        manifest.connections[i].source = s.output}

StoreState ==
    /\ run.at = "states" /\ run.next \in DOMAIN manifest.states
    /\ LET s == manifest.states[run.next]
           produced == StageOwns(Stage, s.output[1])
                         /\ s.output \in DOMAIN endpoint_values
           edges == FindStateConnection(s)
           found == UNION {ApplyConnection(manifest.connections[i],
                                           endpoint_values[s.output],
                                           ResolveInput(s.input)) :
                             i \in edges}
       IN IF ~produced
          THEN run' = [run EXCEPT !.next = @ + 1] /\ UNCHANGED state_values
          ELSE IF found = {}
          THEN /\ FailPass(IF edges = {} THEN "no recurrent connection"
                                         ELSE "no value")
               /\ UNCHANGED state_values
          ELSE /\ state_values' =
                    Put(state_values, s.name, CHOOSE v \in found : TRUE)
               /\ run' = [run EXCEPT !.next = @ + 1]
    /\ UNCHANGED <<package, external_values, endpoint_values, guidance_values,
                   stage_iterations, ordering>>

EndPass ==
    /\ run.at = "states" /\ run.next = Len(manifest.states) + 1
    /\ stage_iterations' =
         Put(stage_iterations, run.stage,
             Field(stage_iterations, run.stage, 0) + 1)
    /\ run' = [run EXCEPT !.at = "idle"]
    /\ UNCHANGED <<package, external_values, endpoint_values, state_values,
                   guidance_values, ordering>>

-----------------------------------------------------------------------------
(* Between passes *)

Without(f, keys) == [k \in DOMAIN f \ keys |-> f[k]]

ReleaseStage(name) ==
    LET released == {s \in ToSet(manifest.states) : s.release_after = name}
        inputs == {s.input : s \in released}
        outputs == {s.output : s \in released}
        owners == {o \in ToSet(manifest.stages) :
                     /\ Looping(o)
                     /\ \E s \in released : StageOwns(o, s.input[1])
                                             /\ StageOwns(o, s.output[1])}
    IN /\ phase = "loaded" /\ run.at = "idle"
       /\ state_values' = Without(state_values, {s.name : s \in released})
       /\ external_values' = Without(external_values, inputs)
       /\ endpoint_values' = Without(endpoint_values, inputs \cup outputs)
       /\ guidance_values' = guidance_values
             \ (IF Guidance(StageOf(name)) = <<>> THEN {}
                ELSE GuidanceInputNames(Guidance(StageOf(name))))
       /\ stage_iterations' = Without(stage_iterations, {o.name : o \in owners})
       /\ UNCHANGED <<package, run, ordering>>

Reset ==
    /\ phase = "loaded" /\ run.at = "idle"
    /\ external_values' = <<>>
    /\ endpoint_values' = <<>>
    /\ state_values' = <<>>
    /\ guidance_values' = {}
    /\ stage_iterations' = <<>>
    /\ UNCHANGED <<package, run, ordering>>

Steps ==
    \/ AddSource \/ EndSources \/ PopReady \/ DropEdge \/ NextPop \/ EndOrder
    \/ SkipComponent \/ BeginComponent \/ ResolvePort \/ CallModel \/ StopPass
    \/ EndComponents \/ PublishGuided \/ StoreState \/ EndPass

Next ==
    \/ PackageNext /\ UNCHANGED session
    \/ StepStage
    \/ Steps
    \/ phase = "loaded" /\ \E name \in Stages : ReleaseStage(name)
    \/ Reset

Spec == DataflowInit /\ [][Next]_vars

-----------------------------------------------------------------------------
(* What the properties rest on: how far a load has come, *)

Accepted == {"parsed", "opening", "checked", "loaded"}

\* Sessions are opened in the order of the manifest.
OpenedUpTo(k) == DOMAIN opened = {manifest.components[i].name : i \in 1..k}

LoadInv ==
    /\ request \in DOMAIN Requests
    /\ phase \in Accepted \cup {"start", "failed"}
    /\ phase \notin Accepted => opened = <<>>
    /\ phase \in Accepted =>
         /\ Parses(Documents[Asked.document])
         /\ manifest = ParseManifest(Documents[Asked.document])
         /\ ValidateManifest(manifest)
         /\ \E k \in 0..Len(manifest.components) : OpenedUpTo(k)
    /\ phase \in {"checked", "loaded"} => EveryComponentOpen
    /\ phase = "loaded" => plan = BuildTransferPlan(manifest, opened)
    /\ \A name \in DOMAIN opened :
         opened[name].execution_providers =
            SessionProviders(ResolveComponentRuntimeOptions(
                Asked.options, Asked.placement, FindComponent(manifest, name)))

(* what a session is between two steps, *)

IsTensor(v) ==
    /\ DOMAIN v = {"from", "pass", "device", "reshaped"}
    /\ v.reshaped \in BOOLEAN

AllTensors(f) == \A k \in DOMAIN f : IsTensor(f[k])

ExternalPorts ==
    {manifest.inputs[i].port :
        i \in {j \in DOMAIN manifest.inputs :
                  manifest.inputs[j].kind = "external"}}

SessionInv ==
    /\ DOMAIN run = DOMAIN Idle
    /\ run.at \in {"idle", "sources", "ordering", "components", "states"}
    /\ run.at # "idle" => phase = "loaded" /\ run.stage \in Stages
    /\ run.pass \in Nat /\ run.next \in Nat /\ run.port \in Nat
    /\ AllTensors(external_values)
    /\ AllTensors(endpoint_values)
    /\ AllTensors(state_values)
    /\ phase = "loaded" => DOMAIN external_values \subseteq ExternalPorts
    /\ phase # "loaded" =>
         run = Idle /\ external_values = <<>> /\ endpoint_values = <<>>
           /\ state_values = <<>>

(* how far a stage is in order: each component of the stage that is not in
   order yet waits for the connections that enter it from such components, and
   those of the last one popped that have not been looked at, *)

Waiting(c) ==
    {i \in EntersFrom(manifest, OrderingEdges(manifest, Stage), c) :
        LET source == manifest.connections[i].source[1]
        IN \/ source \notin ToSet(order)
           \/ edge > 0 /\ i >= edge /\ source = Popped}

Placed ==
    \A a \in DOMAIN order :
        \A i \in EntersFrom(manifest, OrderingEdges(manifest, Stage), order[a]) :
            \E b \in DOMAIN order :
                b < a /\ order[b] = manifest.connections[i].source[1]

Queued == ToSet(order) \cup ToSet(ready)

Counted ==
    /\ order \in Seq(ToSet(Stage.components))
    /\ ready \in Seq(ToSet(Stage.components))
    /\ IsInjective(order) /\ IsInjective(ready)
    /\ ToSet(order) \cap ToSet(ready) = {}
    /\ edge \in 0..(Len(manifest.connections) + 1)
    /\ edge > 0 => order # <<>>
    /\ DOMAIN indegree = ToSet(Stage.components)
    /\ \A c \in ToSet(Stage.components) : indegree[c] = Cardinality(Waiting(c))

SourcesSoFar ==
    /\ order = <<>> /\ edge = 0
    /\ run.next \in 1..(Len(Stage.components) + 1)
    /\ ToSet(ready) = {Stage.components[k] :
            k \in {j \in 1..(run.next - 1) : indegree[Stage.components[j]] = 0}}

QueuedOnceFree ==
    \A c \in ToSet(Stage.components) : c \in Queued <=> Waiting(c) = {}

AllInOrder ==
    /\ order \in Seq(ToSet(Stage.components))
    /\ IsInjective(order)
    /\ ToSet(order) = ToSet(Stage.components)

OrderInv ==
    /\ run.at \in {"sources", "ordering"} => Counted
    /\ run.at = "sources" => SourcesSoFar
    /\ run.at = "ordering" => QueuedOnceFree
    /\ run.at \in {"ordering", "components"} => Placed
    /\ run.at = "components" => AllInOrder

(* what the ports of a pass carry, *)

Port(k) == <<Component.name, Component.inputs[k].name>>

\* The components before this one have left their outputs.
RanInv ==
    \A a \in 1..(run.next - 1) :
        order[a] \notin run.skipped =>
            \A p \in Outputs(FindComponent(manifest, order[a])) :
                /\ p \in DOMAIN endpoint_values
                /\ endpoint_values[p].from = p
                /\ endpoint_values[p].pass = run.pass

\* A connection that hands on a tensor made elsewhere, and one that hands it on
\* as it is, in the same place.
Carries(c) == c.transform \in {"", "reshape", "cast"}

Forwards(c) ==
    ~HostTransform(c, OutputSpec(manifest, c.source).shape,
               InputSpec(manifest, c.target).shape)

SamePlace(v, w) == v.device = w.device /\ v.reshaped = w.reshaped

\* An input that has been resolved carries what ResolveInput found first.
TakenFrom(port) ==
    LET v == endpoint_values[port]
        state == FindInputState(port) \cap DOMAIN state_values
    IN /\ port \in DOMAIN endpoint_values
       /\ port \in run.overrides => v.from = Host
       /\ port \notin run.overrides =>
            /\ \A s \in state : v = state_values[s]
            /\ state = {} =>
                 \A i \in FindConnection(port, FALSE) :
                    LET c == manifest.connections[i]
                        w == endpoint_values[c.source]
                    IN /\ c.source \in DOMAIN endpoint_values
                       /\ Carries(c) => v.from = w.from /\ v.pass = w.pass
                       /\ Forwards(c) => SamePlace(v, w)
            /\ state = {} /\ port \in DOMAIN external_values =>
                 v = external_values[port]

\* A generated input carries what the earlier input it comes from carries.
GeneratedFrom(source, port) ==
    (/\ {port, source} \cap run.overrides = {}
     /\ FindInputState(port) \cap DOMAIN state_values = {}
     /\ \E k \in FindDeclaredInput(port) :
          source \in GeneratorSources(manifest.inputs[k]))
    => endpoint_values[port].pass = endpoint_values[source].pass

\* The inputs of the current component resolved so far.
ResolvedInv ==
    /\ run.port <= Len(Component.inputs) + 1
    /\ run.copied \subseteq {Port(k) : k \in 1..(run.port - 1)}
    /\ \A k \in 1..(run.port - 1) :
         /\ TakenFrom(Port(k))
         /\ \A i \in 1..(k - 1) : GeneratedFrom(Port(i), Port(k))
         /\ Port(k) \notin run.copied
              <=> BindsDirectly(endpoint_values[Port(k)],
                                opened[Component.name].input_device)

PassInv ==
    /\ run.at \in {"sources", "ordering"} => run.port = 0
    /\ run.at = "components" =>
         /\ run.next \in 1..(Len(order) + 1)
         /\ run.next = Len(order) + 1 => run.port = 0
         /\ RanInv
         /\ run.port > 0 => ResolvedInv

(* and where the tensors of models are, in a port and in a state. *)

OnItsDevice(v, port) ==
    v.device = OutputDevice(port[1]) /\ ~v.reshaped

DevicesInv ==
    phase = "loaded" =>
        /\ \A p \in DOMAIN endpoint_values :
             (/\ IsOutput(manifest, p) /\ ~IsInput(manifest, p) /\ p # Host
              /\ endpoint_values[p].from = p)
                => OnItsDevice(endpoint_values[p], p)
        /\ \A k \in DOMAIN manifest.states : \A i \in DOMAIN manifest.connections :
             LET s == manifest.states[k]
                 c == manifest.connections[i]
             IN (/\ s.name \in DOMAIN state_values
                 /\ c.recurrent /\ c.target = s.input
                 /\ Forwards(c)
                 /\ ~IsInput(manifest, c.source)
                 /\ state_values[s.name].from = c.source)
                => OnItsDevice(state_values[s.name], c.source)

DataflowInv ==
    LoadInv /\ SessionInv /\ OrderInv /\ PassInv /\ DevicesInv

-----------------------------------------------------------------------------
(* Properties *)

(***************************************************************************)
(* StagesAlwaysOrdered: no stage of a manifest that validation accepted is *)
(* found to have a dataflow cycle when it runs, and the order its          *)
(* components run in puts the source of every connection that orders them  *)
(* before its target (TopologicalComponents against the depth-first search *)
(* of ValidateManifest).                                                   *)
(***************************************************************************)
StagesAlwaysOrdered ==
    /\ run.error # "dataflow cycle"
    /\ run.at = "components" =>
         \A i \in OrderingEdges(manifest, Stage) :
            \E a, b \in DOMAIN order :
                /\ a < b
                /\ order[a] = manifest.connections[i].source[1]
                /\ order[b] = manifest.connections[i].target[1]

(***************************************************************************)
(* EveryInputHasASource: in a package that was accepted a pass never meets *)
(* an input with no connection and no declaration, nor a state with no     *)
(* recurrent connection, and when an input fails because the output it     *)
(* depends on is unavailable, that output is not one of a component the    *)
(* same stage runs: its component is in another stage, or was skipped in   *)
(* this pass (ResolveInput, FindStateConnection, RunStageComponents).      *)
(***************************************************************************)
EveryInputHasASource ==
    /\ run.error \notin {"no runtime source", "no recurrent connection"}
    /\ run.error = "unavailable output" =>
         \A i \in FindConnection(<<Component.name,
                                   Component.inputs[run.port].name>>, FALSE) :
            LET source == manifest.connections[i].source[1]
            IN StageOwns(Stage, source) => source \in run.skipped

Followed(c) ==
    /\ c.target[1] = Component.name
    /\ OrdersStage(manifest, Stage, c)
    /\ Carries(c)
    /\ c.source[1] \notin run.skipped
    /\ c.target \notin run.overrides
    /\ FindInputState(c.target) \cap DOMAIN state_values = {}

(***************************************************************************)
(* InputsOfThisPass: when a model runs, every input a connection feeds     *)
(* from a component of the same stage that ran in this pass carries what   *)
(* that component produced in this pass, and nothing an earlier pass left  *)
(* in endpoint_values (ResolveInput, RunStageComponents).                  *)
(***************************************************************************)
InputsOfThisPass ==
    Resolved =>
        \A c \in {d \in ToSet(manifest.connections) : Followed(d)} :
            /\ endpoint_values[c.target].from = c.source
            /\ endpoint_values[c.target].pass = run.pass

(***************************************************************************)
(* GeneratedFromThisPass: an input generated from another input of the     *)
(* same component that is declared before it is computed from the tensor   *)
(* that input carries in the same call, never from what it carried in the  *)
(* pass before (Generate and KnownValue read endpoint_values).  Inputs the *)
(* call overrides are excepted on both sides: KnownValue asks the states   *)
(* and the external values first and no overrides at all, so a generated   *)
(* input does not follow the override of its source.                       *)
(***************************************************************************)
GeneratedFromThisPass ==
    Resolved =>
        \A i, j \in DOMAIN Component.inputs :
            LET source == <<Component.name, Component.inputs[i].name>>
                port == <<Component.name, Component.inputs[j].name>>
            IN (/\ i < j
                /\ {port, source} \cap run.overrides = {}
                /\ FindInputState(port) \cap DOMAIN state_values = {}
                /\ \E k \in FindDeclaredInput(port) :
                     source \in GeneratorSources(manifest.inputs[k]))
               => endpoint_values[port].pass = endpoint_values[source].pass

(***************************************************************************)
(* PlanIsHonest: a tensor that came over a connection the transfer plan    *)
(* calls direct, in this pass or in a state, is bound to the model without *)
(* a copy through the host, unless outputs are kept off the device the     *)
(* plan names because the pipeline did not ask for device outputs          *)
(* (ClassifyTransfer against OrtBackend::Run and the reshape of            *)
(* ApplyConnection).  The plan does not look at guidance: a guided output  *)
(* is published as a tensor of the host, and no longer the model's own.    *)
(* A component with an input of the same name as the output is excepted:   *)
(* endpoint_values has one entry for the two.                              *)
(***************************************************************************)
CameOver(c) ==
    /\ c.target[1] = Component.name
    /\ c.recurrent = (FindInputState(c.target) \cap DOMAIN state_values # {})
    /\ ~IsInput(manifest, c.source)
    /\ endpoint_values[c.target].from = c.source

PlanIsHonest ==
    Resolved =>
        \A i \in DOMAIN plan :
            LET c == manifest.connections[i]
                device == opened[c.source[1]].output_device
            IN (/\ plan[i] = "direct"
                /\ CameOver(c)
                /\ Asked.options.device_outputs \/ device = "cpu")
               => c.target \notin run.copied
=============================================================================
