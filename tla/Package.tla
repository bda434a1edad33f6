------------------------------ MODULE Package ------------------------------
(***************************************************************************)
(* Loading a pipeline package: PipelinePackage::Load of                    *)
(* src/src/pipeline.cpp, with the part of src/src/ort_backend.cpp that     *)
(* opens one model.  The manifest is parsed and validated, the placement   *)
(* request is checked, every component is opened on the providers resolved *)
(* for it, the assets are looked for, and the package is constructed: each *)
(* session's signature is compared with the manifest's and the transfer    *)
(* plan computed once.  A step that fails drops every session opened so    *)
(* far.                                                                    *)
(*                                                                         *)
(* A request names a document and says with which options and placement it *)
(* is loaded.  Which device ONNX Runtime puts the ports of a component on, *)
(* and whether files can be read, is the environment's choice.             *)
(***************************************************************************)
EXTENDS Manifest

CONSTANTS
    Documents,            \* the pipeline.json files, as a sequence
    Requests,             \* the loads asked for, as a sequence
    ProviderNames,        \* the normal form of spellings that have another one
    AvailableProviders,   \* what this build of ONNX Runtime offers
    RegisteredProviders   \* what SupportsProviderRegistration knows

VARIABLES
    request,      \* index of the load asked for
    phase,        \* how far it has come
    manifest,     \* the parsed and validated manifest
    opened,       \* the open component sessions, by component name
    plan          \* the transfer plan of the constructed package

package == <<request, phase, manifest, opened, plan>>

ASSUME PackageAssumption ==
    \A r \in DOMAIN Requests : Requests[r].document \in DOMAIN Documents

\* What a JSON parser hands over: its arrays are sequences, an endpoint has two
\* parts.
ASSUME DocumentsAssumption ==
    \A d \in DOMAIN Documents : ArraysAreSequences(Documents[d])

\* (NormalizeExecutionProviderName leaves the processor's name alone.)
ASSUME ProviderNamesAssumption == "cpu" \notin DOMAIN ProviderNames

Unknown == "unknown"

Asked == Requests[request]

-----------------------------------------------------------------------------
(* Which providers a component runs on, and with which options *)

Normal(name) == Field(ProviderNames, name, name)

NormalSet(names) == {Normal(n) : n \in ToSet(names)}

ValidatePlacementOptions(m, placement) ==
    \A name \in DOMAIN placement.components :
        LET c == placement.components[name]
            providers == Field(c, "providers", <<>>)
            options == Field(c, "provider_options", <<>>)
        IN /\ HasComponent(m, name)
           /\ IsInjective([i \in DOMAIN providers |-> Normal(providers[i])])
           /\ IsInjective([p \in DOMAIN options |-> Normal(p)])
           /\ Field(c, "intra_op_threads", 0) >= 0
           /\ Field(c, "inter_op_threads", 0) >= 0

OwnPlacement(placement, name) == Field(placement.components, name, <<>>)

OwnProviders(placement, name) ==
    Field(OwnPlacement(placement, name), "providers", <<>>)

\* The list the caller wrote for the component, or else for the pipeline.
ExplicitProviders(requested, placement, name) ==
    LET own == OwnProviders(placement, name)
    IN IF own # <<>> THEN own ELSE requested.providers

(* Mutant: the preferences of the manifest filter nothing. *)
FilteredLoosely(candidates, component, bypass) == candidates

\* What is left of an order keeps its positions, so that it may have gaps.
Filtered(candidates, component, bypass) ==
    LET allowed == NormalSet(component.preferred_execution_providers)
    IN Restrict(candidates,
                {i \in DOMAIN candidates :
                    \/ bypass
                    \/ allowed = {}
                    \/ Normal(candidates[i]) \in allowed})

\* A component's own list wins over the global order, which wins over its
\* manifest preferences; a processor the caller named is kept as the fallback.
ResolvedProviders(requested, placement, component) ==
    LET explicit == ExplicitProviders(requested, placement, component.name)
        preferred == component.preferred_execution_providers
        candidates == IF explicit # <<>> THEN explicit ELSE preferred
        chosen == Filtered(candidates, component,
                    /\ placement.allow_unpreferred_providers
                    /\ OwnProviders(placement, component.name) # <<>>)
        kept == IF "cpu" \in NormalSet(explicit) \ NormalSet(chosen)
                THEN Put(chosen, Len(candidates) + 1, "cpu") ELSE chosen
    IN IF DOMAIN kept = {} /\ explicit = <<>> /\ preferred = <<>>
       THEN <<"cpu">> ELSE kept

\* Global options for providers the component does not run on are dropped; its
\* own are merged over the rest, key by key.
MergedOptions(requested, placement, component) ==
    LET selected == NormalSet(ResolvedProviders(requested, placement, component))
        own == Field(OwnPlacement(placement, component.name),
                     "provider_options", <<>>)
        Of(options, n) ==
            LET spelled == {p \in DOMAIN options : Normal(p) = n}
            IN IF spelled = {} THEN <<>>
                               ELSE options[CHOOSE p \in spelled : TRUE]
    IN [n \in selected |->
            Over(Of(own, n), Of(requested.provider_options, n))]

RuntimeOptionsResolve(requested, placement, component) ==
    LET providers == ResolvedProviders(requested, placement, component)
        own == Field(OwnPlacement(placement, component.name),
                     "provider_options", <<>>)
    IN /\ DOMAIN providers # {}
       /\ \A p \in DOMAIN own : Normal(p) \in NormalSet(providers)

ResolveComponentRuntimeOptions(requested, placement, component) ==
    LET own == OwnPlacement(placement, component.name)
    IN [providers |-> ResolvedProviders(requested, placement, component),
        provider_options |-> MergedOptions(requested, placement, component),
        intra_op_threads |->
            Field(own, "intra_op_threads", requested.intra_op_threads),
        inter_op_threads |->
            Field(own, "inter_op_threads", requested.inter_op_threads),
        graph_optimization |->
            Field(own, "graph_optimization", requested.graph_optimization)]

-----------------------------------------------------------------------------
(* Opening one model: ResolveProviders and the constructor of OrtBackend *)

SessionProviders(options) ==
    LET normal == [i \in DOMAIN options.providers |->
                        Normal(options.providers[i])]
    IN Restrict(normal,
                {i \in DOMAIN normal :
                    normal[i] \in AvailableProviders \cap RegisteredProviders})

AppendProvider(name, options) ==
    name = "cpu" => DOMAIN options \subseteq {"use_arena"}

\* Two spellings of one provider, in the order or among the pipeline's own
\* options, are refused; the processor must come last.
OrtBackendOpens(requested, options) ==
    LET providers == SessionProviders(options)
        used == {p \in DOMAIN requested.provider_options :
                    Normal(p) \in DOMAIN options.provider_options}
    IN /\ options.intra_op_threads >= 0 /\ options.inter_op_threads >= 0
       /\ IsInjective([i \in DOMAIN options.providers |->
                            Normal(options.providers[i])])
       /\ \A p, q \in used : Normal(p) = Normal(q) => p = q
       /\ DOMAIN providers # {}
       /\ \A i \in DOMAIN providers :
            /\ providers[i] = "cpu" => \A j \in DOMAIN providers : j <= i
            /\ AppendProvider(providers[i],
                              options.provider_options[providers[i]])

OrtBackend(options, devices) ==
    LET providers == SessionProviders(options)
    IN [execution_providers |-> providers,
        provider_options |-> options.provider_options,
        cpu_fallback |-> "cpu" \in ToSet(providers),
        input_device |-> devices[1],
        output_device |-> devices[2]]

\* The devices of a component's inputs and outputs that a session on these
\* providers can report; either may be unknown.
PortDevices(options) ==
    LET places == ToSet(SessionProviders(options)) \cup {"cpu", Unknown}
    IN (places \X places) \cap Asked.devices

-----------------------------------------------------------------------------
(* The transfer plan *)

ShapeIsNoop(connection, source_shape) ==
    "shape" \in DOMAIN connection.parameters =>
        /\ connection.parameters.shape = source_shape
        /\ \A a \in DOMAIN source_shape : source_shape[a] >= 0

(* Mutant: every reshape is taken for one that changes nothing. *)
AnyReshapeIsNoop(connection, source_shape, target_shape) ==
    connection.transform = "reshape"

ProvableNoop(connection, source_shape, target_shape) ==
    /\ connection.transform = "reshape"
    /\ source_shape = target_shape
    /\ ShapeIsNoop(connection, source_shape)

\* Any transform but such a reshape is evaluated on the host.
HostTransform(connection, source_shape, target_shape) ==
    /\ connection.transform # ""
    /\ ~ProvableNoop(connection, source_shape, target_shape)

ClassifyTransfer(connection, source, target, source_shape, target_shape) ==
    LET host == HostTransform(connection, source_shape, target_shape)
        moves == ~host /\ source # target
    IN CASE Unknown \in {source, target} -> "unknown"
         [] Unknown \notin {source, target} /\ host -> "host_transform"
         [] source # Unknown /\ ~host /\ source = target -> "direct"
         [] target # Unknown /\ moves /\ source = "cpu" -> "upload"
         [] source # Unknown /\ moves /\ target = "cpu" -> "download"
         [] OTHER -> "host_staged"

BuildTransferPlan(m, sessions) ==
    [i \in DOMAIN m.connections |->
        LET c == m.connections[i]
        IN ClassifyTransfer(c,
                sessions[c.source[1]].output_device,
                sessions[c.target[1]].input_device,
                OutputSpec(m, c.source).shape,
                InputSpec(m, c.target).shape)]

-----------------------------------------------------------------------------
(* Loading *)

PackageInit ==
    /\ request \in DOMAIN Requests
    /\ phase = "start"
    /\ manifest = <<>>
    /\ opened = <<>>
    /\ plan = <<>>

Enter(next) == phase' = next /\ UNCHANGED request

Fail ==
    /\ Enter("failed")
    /\ manifest' = <<>>
    /\ opened' = <<>>
    /\ plan' = <<>>

ParseDocument ==
    /\ phase = "start"
    /\ LET root == Documents[Asked.document]
       IN IF Parses(root) /\ ValidateManifest(ParseManifest(root))
          THEN /\ Enter("parsed")
               /\ manifest' = ParseManifest(root)
               /\ UNCHANGED <<opened, plan>>
          ELSE Fail

CheckPlacement ==
    /\ phase = "parsed"
    /\ IF ValidatePlacementOptions(manifest, Asked.placement)
       THEN Enter("opening") /\ UNCHANGED <<manifest, opened, plan>>
       ELSE Fail

NextComponent ==
    LET m == manifest
    IN m.components[Min({i \in DOMAIN m.components :
                            m.components[i].name \notin DOMAIN opened})]

EveryComponentOpen == DOMAIN opened = NameSet(manifest.components)

OpenComponent ==
    /\ phase = "opening"
    /\ ~EveryComponentOpen
    /\ LET c == NextComponent
           options == ResolveComponentRuntimeOptions(
                          Asked.options, Asked.placement, c)
       IN IF /\ RuntimeOptionsResolve(Asked.options, Asked.placement, c)
             /\ OrtBackendOpens(Asked.options, options)
          THEN /\ \E devices \in PortDevices(options) :
                     opened' = Put(opened, c.name, OrtBackend(options, devices))
               /\ UNCHANGED <<request, phase, manifest, plan>>
          ELSE Fail

\* The manifest, a model or an asset cannot be read, lies outside the package
\* directory, or is refused by ONNX Runtime.
FileFails ==
    /\ \/ phase = "start"
       \/ phase = "opening"
            /\ (EveryComponentOpen => manifest.assets # <<>>)
    /\ Fail

ResolveAssets ==
    /\ phase = "opening"
    /\ EveryComponentOpen
    /\ Enter("checked")
    /\ UNCHANGED <<manifest, opened, plan>>

\* The graph of a component, as the session reports it.
SessionMetadata(c) ==
    Field(Asked.graphs, c.name, [inputs |-> c.inputs, outputs |-> c.outputs])

SpecMatches(expected, found) ==
    /\ expected.name = found.name
    /\ expected.dtype = found.dtype
    /\ expected.shape = found.shape

ValidateModelMetadata(c, actual) ==
    /\ Len(c.inputs) = Len(actual.inputs)
    /\ Len(c.outputs) = Len(actual.outputs)
    /\ \A i \in DOMAIN c.inputs : SpecMatches(c.inputs[i], actual.inputs[i])
    /\ \A i \in DOMAIN c.outputs : SpecMatches(c.outputs[i], actual.outputs[i])

Construct ==
    /\ phase = "checked"
    /\ IF \A c \in ToSet(manifest.components) :
              ValidateModelMetadata(c, SessionMetadata(c))
       THEN /\ Enter("loaded")
            /\ plan' = BuildTransferPlan(manifest, opened)
            /\ UNCHANGED <<manifest, opened>>
       ELSE Fail

PackageNext ==
    \/ ParseDocument
    \/ CheckPlacement
    \/ OpenComponent
    \/ FileFails
    \/ ResolveAssets
    \/ Construct

-----------------------------------------------------------------------------
(***************************************************************************)
(* SessionsRunWherePlaced: a component whose manifest names preferred      *)
(* providers runs on no other one, unless its own placement asks for it    *)
(* and the request allows that; the processor is the one exception, and    *)
(* only where a list the caller wrote names it, and a component without    *)
(* preferences runs on what the caller asked for or on the processor       *)
(* (ResolveComponentRuntimeOptions, ResolveProviders).                     *)
(***************************************************************************)
SessionsRunWherePlaced ==
    \A name \in DOMAIN opened :
        LET c == FindComponent(manifest, name)
            own == OwnProviders(Asked.placement, name)
            asked == NormalSet(own) \cup NormalSet(Asked.options.providers)
            preferred == NormalSet(c.preferred_execution_providers)
        IN \A p \in ToSet(opened[name].execution_providers) :
            \/ preferred = {} /\ (p \in asked \/ p = "cpu")
            \/ p \in preferred
            \/ p = "cpu" /\ p \in asked
            \/ /\ Asked.placement.allow_unpreferred_providers
               /\ p \in NormalSet(own)
=============================================================================
