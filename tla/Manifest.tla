------------------------------ MODULE Manifest ------------------------------
(***************************************************************************)
(* What a pipeline.json must be for the runtime to execute it: the         *)
(* translation of PipelineManifest::Parse (src/src/pipeline.cpp) and of    *)
(* ValidateManifest (src/src/pipeline_manifest_validation.cpp).            *)
(*                                                                         *)
(* A JSON object is a function from its field names, a JSON array a        *)
(* sequence.  An endpoint "component.port" is the pair of its two parts, a *)
(* version the pair of its two numbers, a path the sequence of its         *)
(* segments, a dimension one of <<"static", n>>, <<"symbol", s>> and       *)
(* <<"null">>.  Fields that nothing reads back but accessors (descriptive  *)
(* metadata, sources and configs) are only known by name.  A parsed        *)
(* optional string that is absent is "", which no document may spell, and  *)
(* an absent sequence axis is -1.  Values of the wrong JSON type, which    *)
(* are refused one by one, are left out.                                   *)
(***************************************************************************)
EXTENDS Integers, Sequences, FiniteSets, SequencesExt

CONSTANTS
    LowerForm,      \* the lower-case form of each name that has capitals
    ControlNames,   \* names with a control character, and the empty name
    UnsafeNames     \* names that are no portable path segment

ASSUME ManifestAssumption ==
    /\ "" \in ControlNames
    /\ \A s \in DOMAIN LowerForm : LowerForm[s] \notin DOMAIN LowerForm

-----------------------------------------------------------------------------
(* Reading objects and names *)

Field(o, name, default) == IF name \in DOMAIN o THEN o[name] ELSE default

\* A map with one entry written, and one map laid over another.
Put(f, key, value) ==
    [k \in DOMAIN f \cup {key} |-> IF k = key THEN value ELSE f[k]]

Over(f, g) ==
    [k \in DOMAIN f \cup DOMAIN g |-> IF k \in DOMAIN f THEN f[k] ELSE g[k]]

Keys(o, allowed, required) ==
    /\ DOMAIN o \subseteq allowed
    /\ required \subseteq DOMAIN o

Texts(o, names) == \A n \in names \cap DOMAIN o : o[n] # ""

Lower(s) == Field(LowerForm, s, s)

LowerPath(p) == [i \in DOMAIN p |-> Lower(p[i])]

ValidateToken(s) == s \notin ControlNames

ValidateComponentName(s) == ValidateToken(s) /\ s \notin UnsafeNames

CheckUnique(values) == IsInjective(values)

ParseStringArray(o, name) ==
    name \in DOMAIN o =>
        /\ \A i \in DOMAIN o[name] : o[name][i] # ""
        /\ CheckUnique(o[name])

ParseSafePath(p) == p # <<>> /\ \A i \in DOMAIN p : ValidateComponentName(p[i])

\* Endpoint::Parse splits the text at its first dot; the port may hold more.
ParseEndpoint(e) ==
    Len(e) = 2 /\ ValidateComponentName(e[1]) /\ ValidateToken(e[2])

VersionMajor(v) == v[1]

IsVersion(v) == Len(v) = 2 /\ v \in Seq(Nat)

Named(items, name) == {i \in DOMAIN items : items[i].name = name}

NameSet(items) == {items[i].name : i \in DOMAIN items}

NamesOf(items) == [i \in DOMAIN items |-> items[i].name]

-----------------------------------------------------------------------------
(* The closed sets a manifest chooses from *)

DataTypes ==
    {"FLOAT", "FLOAT16", "BFLOAT16", "DOUBLE", "INT64", "INT32", "INT16",
     "INT8", "UINT64", "UINT32", "UINT16", "UINT8", "BOOL"}

InputKinds == {"external", "generated", "stateful", "defaulted"}

Roles ==
    {"encoder", "decoder", "embedding", "projector", "dynamics", "observation",
     "action", "policy", "value", "reward", "sampler", "transform", "generic"}

Phases ==
    {"always", "init", "warmup", "prefill", "decode", "step", "refine",
     "finalize", "on_demand"}

StateKinds == {"kv_cache", "diffusion_latent", "action_state", "recurrent"}

Lifetimes == {"iteration", "sequence", "request", "session"}

AllowedOptions ==
    [single_pass |-> {},
     autoregressive |->
        {"tokenizer_asset", "sampling", "stop", "max_tokens", "state_names"},
     iterative |->
        {"scheduler", "guidance", "conditioning", "default_steps", "timestep",
         "state_inputs", "initial_state_inputs", "prediction_type",
         "packed_modalities"},
     state_transition |-> {"state_names", "max_steps", "stop"},
     composite |-> {"stages"},
     on_demand |-> {"presence"}]

StageKindDefinitions ==
    [kind \in DOMAIN AllowedOptions |->
        [strategy |->
            IF kind \in {"autoregressive", "iterative"} THEN kind
                                                        ELSE "single_pass",
         allowed_options |-> AllowedOptions[kind]]]

FindStageKind(kind) == kind \in DOMAIN StageKindDefinitions

\* The position of a kind in the registry, which the counters are indexed by.
StageKindIndex ==
    LET order == <<"single_pass", "autoregressive", "iterative",
                   "state_transition", "composite", "on_demand">>
    IN [kind \in DOMAIN StageKindDefinitions |->
            CHOOSE i \in DOMAIN order : order[i] = kind]

Program(capabilities, required, optional) ==
    [capabilities |-> capabilities, required |-> required,
     allowed |-> required \cup optional]

Packing ==
    {"spatial_patch_size", "temporal_patch_size", "input_layout",
     "output_layout", "channel_order"}

Finalize ==
    {"scheduler_asset", "state", "input_layout", "output_layout",
     "source_dtype", "target_dtype"}

TransformDefinitions ==
    [cast |-> Program({"tensor_cast"}, {}, {"to"}),
     reshape |-> Program({"tensor_reshape"}, {},
                         {"shape", "input_layout", "output_layout"}),
     normalize |-> Program({"tensor_normalize"}, {},
                           {"mean", "std", "scale", "shift"}),
     sample |-> Program({"stochastic_sampling"}, {},
                        {"distribution", "seed_input"}),
     patchify |-> Program({"tensor_patchify"}, {}, Packing),
     unpatchify |-> Program({"tensor_patchify"}, {}, Packing),
     scheduler_step |->
        Program({"iterative_scheduler"}, {},
                {"scheduler_asset", "stage", "state", "timestep_input"}),
     concat |-> Program({"tensor_concat"}, {}, {"axis"}),
     slice |-> Program({"tensor_slice"}, {}, {"axes", "starts", "ends", "steps"}),
     video_diffusion_finalize |->
        Program({"iterative_scheduler", "tensor_cast", "tensor_patchify",
                 "tensor_reshape"},
                Finalize \cup {"spatial_patch_size", "latent_channels"}, {}),
     audio_diffusion_finalize |->
        Program({"iterative_scheduler", "tensor_cast", "tensor_reshape"},
                Finalize, {})]

GeneratorDefinitions ==
    [empty_tensor |-> Program({}, {}, {"shape", "dynamic_axes", "fill"}),
     zeros |-> Program({}, {}, {"shape", "shape_from", "dtype"}),
     causal_attention_mask |->
        Program({"attention_mask_program"}, {"sequence_input"},
                {"past_state", "visible_value", "masked_value"}),
     multimodal_position_ids |->
        Program({"position_program"}, {"source", "axes"},
                {"mrope_sections", "temporal_margin", "reset_spatial",
                 "past_state"}),
     packed_sequence_layout |->
        Program({"packed_sequence_program"}, {"modality"},
                {"source", "layout", "understanding_prefix", "index_kind"}),
     scheduler_timesteps |->
        Program({"iterative_scheduler"}, {"stage"}, {"modality"}),
     action_domain_ids |->
        Program({"action_domain_program"}, {"domain_input"},
                {"default", "domain_map", "padded_dimension"})]

\* The option each stage capability describes.
StageCapabilityOptions ==
    [classifier_free_guidance |-> "guidance",
     conditioned_diffusion |-> "conditioning"]

SupportedCapabilityNames ==
    UNION ({{"loop_carried_state"}, DOMAIN StageCapabilityOptions}
           \cup {TransformDefinitions[k].capabilities :
                    k \in DOMAIN TransformDefinitions}
           \cup {GeneratorDefinitions[k].capabilities :
                    k \in DOMAIN GeneratorDefinitions})

ValidateProgramParameters(parameters, program) ==
    Keys(parameters, program.allowed, program.required)

-----------------------------------------------------------------------------
(* PipelineManifest::Parse: which objects it accepts, and what it makes of
   them *)

TensorSpecParses(o) ==
    /\ Keys(o, {"name", "dtype", "shape"}, {"name", "dtype", "shape"})
    /\ o.name # "" /\ o.dtype \in DataTypes
    /\ \A a \in DOMAIN o.shape : o.shape[a][1] = "static" => o.shape[a][2] >= 0

ParseTensorSpec(o) ==
    [name |-> o.name, dtype |-> o.dtype,
     shape |-> [a \in DOMAIN o.shape |->
                    IF o.shape[a][1] = "static" THEN o.shape[a][2] ELSE -1],
     symbols |-> [a \in DOMAIN o.shape |->
                    IF o.shape[a][1] = "symbol" THEN o.shape[a][2] ELSE ""]]

TensorSpecsParse(specs) ==
    /\ \A i \in DOMAIN specs : TensorSpecParses(specs[i])
    /\ CheckUnique(NamesOf(specs))

ParseTensorSpecs(specs) == [i \in DOMAIN specs |-> ParseTensorSpec(specs[i])]

ComponentParses(o) ==
    /\ Keys(o, {"name", "role", "run_on", "inputs", "outputs", "presence",
                "capabilities", "preferred_execution_providers",
                "parameter_dtype", "source", "config", "metadata"},
               {"name", "role", "run_on", "inputs", "outputs"})
    /\ TensorSpecsParse(o.inputs) /\ TensorSpecsParse(o.outputs)
    /\ Texts(o, {"name", "role", "run_on", "presence", "source"})
    /\ ParseStringArray(o, "capabilities")
    /\ ParseStringArray(o, "preferred_execution_providers")
    /\ Field(o, "parameter_dtype", "FLOAT") \in DataTypes

ParseComponent(o) ==
    [name |-> o.name, role |-> o.role, run_on |-> o.run_on,
     inputs |-> ParseTensorSpecs(o.inputs),
     outputs |-> ParseTensorSpecs(o.outputs),
     presence |-> Field(o, "presence", ""),
     capabilities |-> Field(o, "capabilities", <<>>),
     preferred_execution_providers |->
        Field(o, "preferred_execution_providers", <<>>),
     parameter_data_type |-> Field(o, "parameter_dtype", "")]

ConnectionParses(o) ==
    /\ Keys(o, {"source", "target", "recurrent", "transform", "context",
                "parameters"}, {"source", "target"})
    /\ ParseEndpoint(o.source) /\ ParseEndpoint(o.target)
    /\ Texts(o, {"transform"})
    /\ LET context == Field(o, "context", <<>>)
       IN CheckUnique(context)
            /\ \A i \in DOMAIN context : ParseEndpoint(context[i])

ParseConnection(o) ==
    [source |-> o.source, target |-> o.target,
     recurrent |-> Field(o, "recurrent", FALSE),
     transform |-> Field(o, "transform", ""),
     context |-> Field(o, "context", <<>>),
     parameters |-> Field(o, "parameters", <<>>)]

InputParses(o) ==
    /\ Keys(o, {"port", "kind", "value", "alias", "semantic", "required",
                "presence", "generator"}, {"port", "kind"})
    /\ ParseEndpoint(o.port)
    /\ o.kind \in InputKinds
    /\ "alias" \in DOMAIN o => o.kind = "external"
    /\ Texts(o, {"alias", "semantic", "presence"})
    /\ "generator" \in DOMAIN o =>
         Keys(o.generator, {"kind", "parameters"}, {"kind"})
           /\ o.generator.kind # ""

ParseInput(o) ==
    LET generator == Field(o, "generator", [kind |-> ""])
    IN [port |-> o.port, kind |-> o.kind,
        name |-> Field(o, "alias", o.port[2]),
        required |-> Field(o, "required", TRUE),
        semantic |-> Field(o, "semantic", ""),
        presence |-> Field(o, "presence", ""),
        has_value |-> "value" \in DOMAIN o,
        generator_kind |-> generator.kind,
        generator |-> Field(generator, "parameters", <<>>)]

OutputParses(o) ==
    /\ Keys(o, {"port", "state", "alias"}, {})
    /\ ("port" \in DOMAIN o) # ("state" \in DOMAIN o)
    /\ "port" \in DOMAIN o => ParseEndpoint(o.port)
    /\ Texts(o, {"state", "alias"})

ParseOutput(o) ==
    LET port == Field(o, "port", <<"", "">>)
        state == Field(o, "state", "")
    IN [port |-> port, state |-> state,
        name |-> Field(o, "alias", IF state = "" THEN port[2] ELSE state)]

StageParses(o) ==
    /\ Keys(o, {"name", "kind", "components", "run_on", "options",
                "capabilities", "metadata"},
               {"name", "kind", "components", "run_on"})
    /\ Texts(o, {"name", "kind", "run_on"})
    /\ ParseStringArray(o, "components")
    /\ ParseStringArray(o, "capabilities")

ParseStage(o) ==
    [name |-> o.name, kind |-> o.kind, components |-> o.components,
     run_on |-> o.run_on, options |-> Field(o, "options", <<>>),
     capabilities |-> Field(o, "capabilities", <<>>)]

StateParses(o) ==
    /\ Keys(o, {"name", "kind", "input", "output", "lifetime", "release_after",
                "sequence_axis", "metadata"},
               {"name", "kind", "input", "output", "lifetime", "release_after"})
    /\ Texts(o, {"name", "kind", "lifetime", "release_after"})
    /\ ParseEndpoint(o.input) /\ ParseEndpoint(o.output)
    /\ Field(o, "sequence_axis", 0) >= 0

ParseState(o) ==
    [name |-> o.name, kind |-> o.kind, input |-> o.input, output |-> o.output,
     lifetime |-> o.lifetime, release_after |-> o.release_after,
     sequence_axis |-> Field(o, "sequence_axis", -1)]

AssetParses(o) ==
    Keys(o, {"path", "required"}, {"path"}) /\ ParseSafePath(o.path)

ParseAsset(o) == [path |-> o.path, required |-> Field(o, "required", TRUE)]

ProfileParses(o) ==
    /\ Keys(o, {"name", "version"}, {"name", "version"})
    /\ o.name # "" /\ IsVersion(o.version)

RootParses(root) ==
    LET top == {"format", "schema_version", "manifest", "component_files"}
        required == {"schema_version", "components", "connections", "stages",
                     "inputs", "outputs"}
    IN /\ Keys(root, top, top)
       /\ root.format = "mobius-pipeline"
       /\ IsVersion(root.schema_version)
       /\ VersionMajor(root.schema_version) = 1
       /\ Keys(root.manifest,
               required \cup {"assets", "states", "profile",
                              "required_capabilities", "metadata"},
               required)
       /\ root.manifest.schema_version = root.schema_version
       /\ "profile" \in DOMAIN root.manifest =>
            ProfileParses(root.manifest.profile)

Parses(root) ==
    /\ RootParses(root)
    /\ LET m == root.manifest
           All(name, Accepts(_)) ==
               \A i \in DOMAIN Field(m, name, <<>>) : Accepts(m[name][i])
       IN /\ All("components", ComponentParses)
          /\ All("connections", ConnectionParses)
          /\ All("inputs", InputParses)
          /\ All("outputs", OutputParses)
          /\ All("stages", StageParses)
          /\ All("states", StateParses)
          /\ All("assets", AssetParses)
          /\ ParseStringArray(m, "required_capabilities")
          /\ \A name \in DOMAIN root.component_files :
                ParseSafePath(root.component_files[name])

ParseManifest(root) ==
    LET m == root.manifest
        All(name, Read(_)) ==
            [i \in DOMAIN Field(m, name, <<>>) |-> Read(m[name][i])]
    IN [profile |-> IF "profile" \in DOMAIN m THEN m.profile.name ELSE "",
        components |-> All("components", ParseComponent),
        connections |-> All("connections", ParseConnection),
        inputs |-> All("inputs", ParseInput),
        outputs |-> All("outputs", ParseOutput),
        stages |-> All("stages", ParseStage),
        states |-> All("states", ParseState),
        assets |-> All("assets", ParseAsset),
        required_capabilities |-> Field(m, "required_capabilities", <<>>),
        metadata |-> Field(m, "metadata", <<>>),
        component_files |-> root.component_files]

\* How the arrays of a document are represented: the parser has no say in it.
IsArray(a) == a \in Seq(ToSet(a))

ArraysOf(o, names) == \A n \in names \cap DOMAIN o : IsArray(o[n])

ArraysAreSequences(root) ==
    "manifest" \in DOMAIN root =>
        LET m == root.manifest
            Each(name, fields) ==
                \A i \in DOMAIN Field(m, name, <<>>) : ArraysOf(m[name][i], fields)
        IN /\ ArraysOf(m, {"components", "connections", "inputs", "stages",
                           "states"})
           /\ Each("components", {"inputs", "outputs"})
           /\ Each("connections", {"source", "target"})
           /\ Each("inputs", {"port"})
           /\ Each("stages", {"components"})
           /\ Each("states", {"input", "output"})

-----------------------------------------------------------------------------
(* Looking a manifest up *)

FindComponent(m, name) ==
    LET found == Named(m.components, name)
    IN m.components[CHOOSE i \in found : TRUE]

HasComponent(m, name) == Named(m.components, name) # {}

IsInput(m, e) ==
    HasComponent(m, e[1]) /\ e[2] \in NameSet(FindComponent(m, e[1]).inputs)

IsOutput(m, e) ==
    HasComponent(m, e[1]) /\ e[2] \in NameSet(FindComponent(m, e[1]).outputs)

FindSpec(specs, port) == specs[CHOOSE i \in Named(specs, port) : TRUE]

InputSpec(m, e) == FindSpec(FindComponent(m, e[1]).inputs, e[2])

OutputSpec(m, e) == FindSpec(FindComponent(m, e[1]).outputs, e[2])

RequireContextEndpoint(m, e) == IsInput(m, e) \/ IsOutput(m, e)

ShapesCompatible(source, target) ==
    /\ source.dtype = target.dtype
    /\ Len(source.shape) = Len(target.shape)
    /\ \A a \in DOMAIN source.shape :
          \/ source.shape[a] < 0 \/ target.shape[a] < 0
          \/ source.shape[a] = target.shape[a]

StageOwns(stage, component) == component \in ToSet(stage.components)

Looping(stage) ==
    stage.kind \in {"autoregressive", "iterative", "state_transition"}

\* The ports that connections of one lifecycle produce.
Producers(m, recurrent) ==
    {m.connections[i].target :
        i \in {j \in DOMAIN m.connections :
                  m.connections[j].recurrent = recurrent}}

DeclaredPorts(m) == {m.inputs[i].port : i \in DOMAIN m.inputs}

Capabilities(items) == UNION {ToSet(items[i].capabilities) : i \in DOMAIN items}

AssetPaths(m) == {m.assets[i].path : i \in DOMAIN m.assets}

-----------------------------------------------------------------------------
(* ValidateManifest, check by check *)

ComponentsValid(m) ==
    /\ m.components # <<>>
    /\ \A i \in DOMAIN m.components :
         LET c == m.components[i]
         IN ValidateComponentName(c.name) /\ c.role \in Roles
              /\ c.run_on \in Phases
    /\ CheckUnique([i \in DOMAIN m.components |-> Lower(m.components[i].name)])

StageValid(m, s) ==
    /\ ValidateToken(s.name)
    /\ FindStageKind(s.kind)
    /\ s.run_on \in Phases
    /\ s.components # <<>>
    /\ \A c \in ToSet(s.components) :
         /\ HasComponent(m, c)
         /\ "always" \in {s.run_on, FindComponent(m, c).run_on}
              \/ s.run_on = FindComponent(m, c).run_on
    /\ s.kind = "on_demand" =>
         \E c \in ToSet(s.components) : FindComponent(m, c).presence # ""
    /\ DOMAIN s.options \subseteq StageKindDefinitions[s.kind].allowed_options

StagesValid(m) ==
    /\ \A i \in DOMAIN m.stages : StageValid(m, m.stages[i])
    /\ CheckUnique(NamesOf(m.stages))
    /\ \A c \in NameSet(m.components) :
          \E i \in DOMAIN m.stages : StageOwns(m.stages[i], c)

\* Only the first looping stage that owns both ends is asked for the
\* capability.
RecurrentScoped(m, edge) ==
    LET owners == {k \in DOMAIN m.stages :
                     /\ Looping(m.stages[k])
                     /\ StageOwns(m.stages[k], edge.source[1])
                     /\ StageOwns(m.stages[k], edge.target[1])}
    IN /\ owners # {}
       /\ "loop_carried_state" \in ToSet(m.stages[Min(owners)].capabilities)

ConnectionValid(m, c) ==
    /\ IsOutput(m, c.source) /\ IsInput(m, c.target)
    /\ \A e \in ToSet(c.context) : RequireContextEndpoint(m, e)
    /\ IF c.transform = ""
       THEN /\ ShapesCompatible(OutputSpec(m, c.source), InputSpec(m, c.target))
            /\ DOMAIN c.parameters = {} /\ c.context = <<>>
       ELSE /\ c.transform \in DOMAIN TransformDefinitions
            /\ ValidateProgramParameters(c.parameters,
                                         TransformDefinitions[c.transform])
    /\ c.recurrent => RecurrentScoped(m, c)

ConnectionsValid(m) ==
    /\ \A i \in DOMAIN m.connections : ConnectionValid(m, m.connections[i])
    /\ \A i, j \in DOMAIN m.connections :
          /\ m.connections[i].target = m.connections[j].target
          /\ m.connections[i].recurrent = m.connections[j].recurrent
          => i = j

(* Mutant: only a component that feeds itself is taken for a cycle. *)
NoSelfLoops(m) ==
    \A i \in DOMAIN m.connections :
        \/ m.connections[i].recurrent
        \/ m.connections[i].source[1] # m.connections[i].target[1]

\* The depth-first search meets no component it is still visiting: every set of
\* components has one that no non-recurrent connection enters from the set.
Acyclic(m) ==
    \A group \in (SUBSET NameSet(m.components)) \ {{}} :
        \E c \in group :
            \A i \in DOMAIN m.connections :
                \/ m.connections[i].recurrent
                \/ m.connections[i].target[1] # c
                \/ m.connections[i].source[1] \notin group

InputValid(m, in) ==
    /\ IsInput(m, in.port)
    /\ (in.kind = "generated") = (in.generator_kind # "")
    /\ (in.kind = "defaulted") = in.has_value
    /\ in.kind = "generated" =>
         /\ in.generator_kind \in DOMAIN GeneratorDefinitions
         /\ ValidateProgramParameters(in.generator,
                                      GeneratorDefinitions[in.generator_kind])

InputsValid(m) ==
    /\ \A i \in DOMAIN m.inputs : InputValid(m, m.inputs[i])
    /\ \A i, j \in DOMAIN m.inputs :
          \/ i = j
          \/ /\ m.inputs[i].port # m.inputs[j].port
             /\ \/ m.inputs[i].name # m.inputs[j].name
                \/ m.inputs[i].kind # "external"
                \/ m.inputs[j].kind # "external"

(* Mutant: an input with no source at all is not noticed. *)
NoSecondSource(m) ==
    \A i \in DOMAIN m.components : \A p \in NameSet(m.components[i].inputs) :
        LET port == <<m.components[i].name, p>>
        IN ~(port \in Producers(m, FALSE) /\ port \in DeclaredPorts(m))

\* Every port of every component is fed by a connection or by a declared input,
\* and by one of them only.
OneInitialSource(m) ==
    \A i \in DOMAIN m.components : \A p \in NameSet(m.components[i].inputs) :
        LET port == <<m.components[i].name, p>>
        IN port \in Producers(m, FALSE) <=> port \notin DeclaredPorts(m)

OutputsValid(m) ==
    /\ \A i \in DOMAIN m.outputs :
          IF m.outputs[i].state = ""
          THEN IsOutput(m, m.outputs[i].port)
          ELSE m.outputs[i].state \in NameSet(m.states)
    /\ CheckUnique(NamesOf(m.outputs))

RecurrentEdges(m) ==
    {<<m.connections[i].source, m.connections[i].target>> :
        i \in {j \in DOMAIN m.connections : m.connections[j].recurrent}}

StateEdge(s) == <<s.output, s.input>>

StateValid(m, s) ==
    /\ s.kind \in StateKinds /\ s.lifetime \in Lifetimes
    /\ IsInput(m, s.input) /\ IsOutput(m, s.output)
    /\ StateEdge(s) \in RecurrentEdges(m)
    /\ s.release_after \in NameSet(m.stages)
    /\ s.sequence_axis < Len(InputSpec(m, s.input).shape)

StatesValid(m) ==
    /\ \A i \in DOMAIN m.states : StateValid(m, m.states[i])
    /\ \A i, j \in DOMAIN m.states :
          \/ i = j
          \/ /\ m.states[i].input # m.states[j].input
             /\ m.states[i].name # m.states[j].name
    /\ m.profile # "" =>
         {StateEdge(m.states[i]) : i \in DOMAIN m.states} = RecurrentEdges(m)

-----------------------------------------------------------------------------
(* Stage programs: guidance, conditioning, and the capabilities they need *)

GuidanceValid(m, stage, guidance) ==
    /\ Keys(guidance,
            {"kind", "conditioning_input", "unconditional_input",
             "scale_option", "default_scale", "combine", "outputs"},
            {"kind", "conditioning_input"})
    /\ "classifier_free_guidance" \in ToSet(stage.capabilities)
    /\ guidance.kind = "classifier_free"
    /\ StageOwns(stage, guidance.conditioning_input[1])
    /\ IsInput(m, guidance.conditioning_input)
    /\ \E i \in DOMAIN m.inputs :
          /\ m.inputs[i].port = guidance.conditioning_input
          /\ m.inputs[i].kind = "external"
    /\ Texts(guidance, {"unconditional_input", "scale_option"})
    /\ Field(guidance, "combine", "unconditional + scale * (conditional - unconditional)")
         = "unconditional + scale * (conditional - unconditional)"
    /\ LET outputs == Field(guidance, "outputs", <<>>)
       IN CheckUnique(outputs)
            /\ \A e \in ToSet(outputs) : StageOwns(stage, e[1]) /\ IsOutput(m, e)

ConditioningResampleFilters == {"bilinear", "bicubic", "nearest", "lanczos"}

PreprocessingValid(o) ==
    /\ Keys(o, {"resize", "resample", "normalize", "rescale_factor",
                "convert_rgb"}, {})
    /\ Field(o, "resample", "bilinear") \in ConditioningResampleFilters
    /\ Field(o, "resize", "bilinear")
         \in ConditioningResampleFilters \cup {"stretch_to_target"}
    /\ Field(o, "rescale_factor", "1/255") = "1/255"
    /\ Field(o, "convert_rgb", TRUE)
    /\ LET normalize == Field(o, "normalize", <<>>)
           mean == Field(normalize, "mean", <<0, 0, 0>>)
           std == Field(normalize, "std", <<1, 1, 1>>)
       IN /\ Keys(normalize, {"mean", "std"}, {})
          /\ Len(mean) = 3 /\ Len(std) = 3 /\ 0 \notin ToSet(std)

\* Conditioned rows are packed one latent frame per token row, in one layout.
PackingValid(packing) ==
    /\ Keys(packing, Packing, Packing \ {"temporal_patch_size"})
    /\ packing.spatial_patch_size > 0
    /\ Field(packing, "temporal_patch_size", 1) = 1
    /\ packing.input_layout = "BCTHW" /\ packing.output_layout = "NC"
    /\ packing.channel_order = "patch_height_patch_width_channel"

ModalityValid(m, stage, spec) ==
    LET required == {"encoder_stage", "encoder_input", "encoder_output",
                     "state", "packing"}
    IN /\ Keys(spec,
               required \cup {"conditioned_latent_frames_option",
                              "default_conditioned_latent_frames",
                              "timestep_token_indexes_input", "preprocessing"},
               required)
       /\ \E i \in DOMAIN m.stages :
            /\ m.stages[i].name = spec.encoder_stage
            /\ StageOwns(m.stages[i], spec.encoder_input[1])
            /\ StageOwns(m.stages[i], spec.encoder_output[1])
       /\ IsInput(m, spec.encoder_input) /\ IsOutput(m, spec.encoder_output)
       /\ \E i \in DOMAIN m.states :
            m.states[i].name = spec.state /\ StageOwns(stage, m.states[i].input[1])
       /\ Texts(spec, {"conditioned_latent_frames_option"})
       /\ LET frames == Field(spec, "default_conditioned_latent_frames", <<>>)
          IN \A i \in DOMAIN frames : frames[i] >= 0
       /\ "timestep_token_indexes_input" \in DOMAIN spec =>
            IsInput(m, spec.timestep_token_indexes_input)
       /\ PreprocessingValid(Field(spec, "preprocessing", <<>>))
       /\ PackingValid(spec.packing)

ConditioningValid(m, stage, conditioning) ==
    /\ "conditioned_diffusion" \in ToSet(stage.capabilities)
    /\ DOMAIN conditioning # {}
    /\ \A modality \in DOMAIN conditioning :
          ModalityValid(m, stage, conditioning[modality])

StageProgramsValid(m) ==
    \A i \in DOMAIN m.stages :
        LET stage == m.stages[i]
        IN /\ "guidance" \in DOMAIN stage.options =>
                GuidanceValid(m, stage, stage.options.guidance)
           /\ "conditioning" \in DOMAIN stage.options =>
                ConditioningValid(m, stage, stage.options.conditioning)
           /\ \A c \in ToSet(stage.capabilities)
                           \cap DOMAIN StageCapabilityOptions :
                StageCapabilityOptions[c] \in DOMAIN stage.options

ProgramCapabilities(m) ==
    UNION ({TransformDefinitions[c.transform].capabilities :
               c \in {d \in ToSet(m.connections) : d.transform # ""}}
           \cup {GeneratorDefinitions[in.generator_kind].capabilities :
               in \in {d \in ToSet(m.inputs) : d.kind = "generated"}})

CapabilitiesValid(m) ==
    LET declared == ToSet(m.required_capabilities)
        advertised == Capabilities(m.components) \cup Capabilities(m.stages)
    IN /\ declared \subseteq SupportedCapabilityNames \cup advertised
       /\ RecurrentEdges(m) # {} => "loop_carried_state" \in declared
       /\ ProgramCapabilities(m) \subseteq declared
       /\ declared \subseteq ProgramCapabilities(m) \cup advertised

-----------------------------------------------------------------------------
(* The executable profile, program parameters and files *)

RequiredOptions(kind) ==
    CASE kind = "autoregressive" -> {"tokenizer_asset", "sampling", "stop"}
      [] kind = "iterative" ->
            {"scheduler", "default_steps", "timestep", "state_inputs"}
      [] OTHER -> {}

ReferencedAssets(stage) ==
    CASE stage.kind = "autoregressive" -> {stage.options.tokenizer_asset}
      [] stage.kind = "iterative"
           /\ "config_asset" \in DOMAIN stage.options.scheduler ->
            {stage.options.scheduler.config_asset}
      [] OTHER -> {}

ProfileValid(m) ==
    m.profile # "" =>
        /\ \A i \in DOMAIN m.inputs : m.inputs[i].semantic # ""
        /\ \A i \in DOMAIN m.components :
              /\ m.components[i].preferred_execution_providers # <<>>
              /\ m.components[i].parameter_data_type # ""
        /\ \A i \in DOMAIN m.stages :
              /\ RequiredOptions(m.stages[i].kind)
                    \subseteq DOMAIN m.stages[i].options
              /\ ReferencedAssets(m.stages[i]) \subseteq AssetPaths(m)

ConnectionParametersValid(m) ==
    \A i \in DOMAIN m.connections :
        LET p == m.connections[i].parameters
        IN /\ "state" \in DOMAIN p => p.state \in NameSet(m.states)
           /\ "stage" \in DOMAIN p => p.stage \in NameSet(m.stages)
           /\ "scheduler_asset" \in DOMAIN p =>
                p.scheduler_asset \in AssetPaths(m)
           /\ "timestep_input" \in DOMAIN p =>
                RequireContextEndpoint(m, p.timestep_input)

\* A symbol of the port, or the alias of its only symbol that is not the batch.
AxisKnown(symbols, axes, symbol) ==
    /\ axes[symbol] >= 0
    /\ \/ symbol \in ToSet(symbols)
       \/ /\ Cardinality(DOMAIN axes) = 1
          /\ Cardinality({a \in DOMAIN symbols :
                symbols[a] \notin {"", "b", "batch"}}) = 1

GeneratorParametersValid(m) ==
    \A i \in DOMAIN m.inputs :
        LET p == m.inputs[i].generator
            axes == Field(p, "dynamic_axes", <<>>)
        IN /\ "stage" \in DOMAIN p => p.stage \in NameSet(m.stages)
           /\ "source" \in DOMAIN p => RequireContextEndpoint(m, p.source)
           /\ "sequence_input" \in DOMAIN p =>
                RequireContextEndpoint(m, p.sequence_input)
           /\ ToSet(Field(p, "past_state", <<>>)) \subseteq NameSet(m.states)
           /\ \A symbol \in DOMAIN axes :
                AxisKnown(InputSpec(m, m.inputs[i].port).symbols, axes, symbol)

StandardPath(m, name) ==
    IF Len(m.components) = 1 THEN <<"model.onnx">> ELSE <<name, "model.onnx">>

DataPath(path) == [path EXCEPT ![Len(path)] = "model.onnx.data"]

FilesValid(m) ==
    LET paths == {StandardPath(m, c) : c \in NameSet(m.components)}
        owned == {<<"pipeline.json">>} \cup paths \cup {DataPath(p) : p \in paths}
    IN /\ m.component_files
            = [c \in NameSet(m.components) |-> StandardPath(m, c)]
       /\ CheckUnique([i \in DOMAIN m.assets |-> LowerPath(m.assets[i].path)])
       /\ {LowerPath(p) : p \in AssetPaths(m)} \cap {LowerPath(p) : p \in owned}
            = {}

ValidateManifest(m) ==
    /\ ComponentsValid(m)
    /\ StagesValid(m)
    /\ ConnectionsValid(m)
    /\ Acyclic(m)
    /\ InputsValid(m)
    /\ OneInitialSource(m)
    /\ OutputsValid(m)
    /\ StatesValid(m)
    /\ StageProgramsValid(m)
    /\ CapabilitiesValid(m)
    /\ ProfileValid(m)
    /\ ConnectionParametersValid(m)
    /\ GeneratorParametersValid(m)
    /\ FilesValid(m)
=============================================================================
