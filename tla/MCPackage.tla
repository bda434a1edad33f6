------------------------------ MODULE MCPackage ------------------------------
(***************************************************************************)
(* Three pipelines for TLC, the documents made from them by one mistake    *)
(* each, and the loads asked for:                                          *)
(*   Talker   an embedding and a decoder in one autoregressive stage whose *)
(*            components are listed in the wrong order, with a key-value   *)
(*            state, a generated mask and a generated initial past;        *)
(*   Diamond  a stage of five components where two paths meet, with a      *)
(*            reshape, a cast, an optional component and a vision route;   *)
(*   Painter  an encoder, a denoiser with guidance, conditioning and a     *)
(*            scheduler step, and a decoder behind a finalize transform.   *)
(***************************************************************************)
EXTENDS Dataflow

S(n) == <<"static", n>>
Batch == <<"symbol", "batch">>
Length == <<"symbol", "sequence">>

Tensor(name, shape) == [name |-> name, dtype |-> "FLOAT", shape |-> shape]
Words(name) == [name |-> name, dtype |-> "INT64", shape |-> <<Batch, Length>>]
Row(name) == Tensor(name, <<Batch, S(4)>>)
Fixed(name) == Tensor(name, <<S(1), S(4)>>)
Square(name) == Tensor(name, <<S(2), S(2)>>)

Part(name, role, run_on, inputs, outputs) ==
    [name |-> name, role |-> role, run_on |-> run_on, inputs |-> inputs,
     outputs |-> outputs, parameter_dtype |-> "FLOAT16",
     preferred_execution_providers |-> <<"CUDAExecutionProvider">>]

Plain(source, target) == [source |-> source, target |-> target]

External(port, semantic) ==
    [port |-> port, kind |-> "external", semantic |-> semantic]

Generated(port, kind, parameters) ==
    [port |-> port, kind |-> "generated", semantic |-> kind,
     generator |-> [kind |-> kind, parameters |-> parameters]]

Document(m) ==
    [format |-> "mobius-pipeline", schema_version |-> <<1, 0>>,
     manifest |-> [schema_version |-> <<1, 0>>] @@ m,
     component_files |->
        [name \in {m.components[i].name : i \in DOMAIN m.components} |->
            IF Len(m.components) = 1 THEN <<"model.onnx">>
                                     ELSE <<name, "model.onnx">>]]

-----------------------------------------------------------------------------
TalkerKv == [name |-> "kv", kind |-> "kv_cache", input |-> <<"decoder", "past">>,
             output |-> <<"decoder", "present">>, lifetime |-> "sequence",
             release_after |-> "talk", sequence_axis |-> 1]

Talker ==
    [components |->
        <<[Part("embed", "embedding", "always", <<Words("ids")>>, <<Row("emb")>>)
            EXCEPT !.preferred_execution_providers = <<>>],
          Part("decoder", "decoder", "decode",
               <<Row("emb"), Row("mask"),
                 Tensor("past", <<Batch, <<"symbol", "kv_length">>, S(4)>>)>>,
               <<Row("logits"), Tensor("present", <<Batch, <<"null">>, S(4)>>)>>)>>,
     connections |->
        <<[recurrent |-> TRUE]
            @@ Plain(<<"decoder", "present">>, <<"decoder", "past">>),
          Plain(<<"embed", "emb">>, <<"decoder", "emb">>)>>,
     inputs |->
        <<[alias |-> "tokens"] @@ External(<<"embed", "ids">>, "token_ids"),
          Generated(<<"decoder", "mask">>, "causal_attention_mask",
                    [sequence_input |-> <<"decoder", "emb">>,
                     past_state |-> <<"kv">>]),
          Generated(<<"decoder", "past">>, "empty_tensor",
                    [dynamic_axes |-> [kv_length |-> 0]])>>,
     outputs |-> <<[port |-> <<"decoder", "logits">>], [state |-> "kv"]>>,
     stages |->
        <<[name |-> "talk", kind |-> "autoregressive",
           components |-> <<"decoder", "embed">>, run_on |-> "decode",
           capabilities |-> <<"loop_carried_state">>]>>,
     states |-> <<TalkerKv>>,
     required_capabilities |-> <<"loop_carried_state", "attention_mask_program">>]

Diamond ==
    [components |->
        <<Part("sink", "generic", "always",
               <<Row("sum"), Square("right"), Fixed("hint"), Row("view")>>,
               <<Row("out")>>),
          Part("left", "generic", "always", <<Row("x")>>, <<Row("l")>>),
          Part("right", "generic", "always", <<Row("x"), Row("l")>>, <<Fixed("r")>>),
          Part("source", "encoder", "always", <<Row("x")>>, <<Row("h")>>),
          [presence |-> "hint"]
            @@ Part("hinter", "encoder", "always", <<Row("x")>>,
                    <<Fixed("hint"), Row("image_features")>>)>>,
     connections |->
        <<Plain(<<"source", "h">>, <<"left", "x">>),
          [transform |-> "cast", parameters |-> [to |-> "FLOAT"]]
            @@ Plain(<<"source", "h">>, <<"right", "x">>),
          Plain(<<"left", "l">>, <<"right", "l">>),
          [transform |-> "reshape"] @@ Plain(<<"left", "l">>, <<"sink", "sum">>),
          [transform |-> "reshape", parameters |-> [shape |-> <<2, 2>>]]
            @@ Plain(<<"right", "r">>, <<"sink", "right">>),
          [transform |-> "reshape", parameters |-> [shape |-> <<1, 4>>]]
            @@ Plain(<<"hinter", "hint">>, <<"sink", "hint">>)>>,
     inputs |->
        <<External(<<"source", "x">>, "frame"),
          [presence |-> "hint", required |-> FALSE, alias |-> "hint"]
            @@ External(<<"hinter", "x">>, "hint_frame"),
          [required |-> FALSE] @@ External(<<"sink", "view">>, "view")>>,
     outputs |-> <<[port |-> <<"sink", "out">>]>>,
     metadata |->
        [vision_understanding |->
            [encoder |-> "hinter", routing |-> [image |-> <<"sink", "view">>]]],
     stages |->
        <<[name |-> "meet", kind |-> "single_pass", run_on |-> "always",
           components |-> <<"sink", "right", "left", "hinter", "source">>]>>,
     required_capabilities |-> <<"tensor_cast", "tensor_reshape">>]

Packed == [spatial_patch_size |-> 2, input_layout |-> "BCTHW",
           output_layout |-> "NC",
           channel_order |-> "patch_height_patch_width_channel"]

PainterStage ==
    [name |-> "denoise", kind |-> "iterative", components |-> <<"dit">>,
     run_on |-> "refine",
     capabilities |-> <<"loop_carried_state", "classifier_free_guidance",
                        "conditioned_diffusion">>,
     options |->
        [scheduler |-> [config_asset |-> <<"scheduler.json">>],
         default_steps |-> 2, timestep |-> "t", state_inputs |-> <<"latent">>,
         guidance |-> [kind |-> "classifier_free",
                       conditioning_input |-> <<"dit", "prompt">>,
                       outputs |-> <<<<"dit", "velocity">>>>],
         conditioning |->
            [video |-> [encoder_stage |-> "encode",
                        encoder_input |-> <<"text", "ids">>,
                        encoder_output |-> <<"text", "hidden">>,
                        state |-> "latent", packing |-> Packed,
                        preprocessing |-> [resample |-> "bicubic"]]]]]

Painter ==
    [profile |-> [name |-> "painter", version |-> <<1, 0>>],
     components |->
        <<Part("text", "encoder", "init", <<Row("ids")>>, <<Row("hidden")>>),
          Part("dit", "dynamics", "refine",
               <<Row("hidden"), Row("prompt"), Row("t"), Row("latent")>>,
               <<Row("velocity")>>),
          Part("vae", "decoder", "finalize", <<Row("z"), Row("draft")>>,
               <<Row("video")>>)>>,
     connections |->
        <<Plain(<<"text", "hidden">>, <<"dit", "hidden">>),
          [recurrent |-> TRUE, transform |-> "scheduler_step",
           parameters |-> [state |-> "latent", stage |-> "denoise",
                           timestep_input |-> <<"dit", "t">>]]
            @@ Plain(<<"dit", "velocity">>, <<"dit", "latent">>),
          [transform |-> "video_diffusion_finalize",
           context |-> <<<<"dit", "t">>>>,
           parameters |->
            [scheduler_asset |-> <<"scheduler.json">>, state |-> "latent",
             input_layout |-> "NC", output_layout |-> "BCTHW",
             source_dtype |-> "FLOAT", target_dtype |-> "FLOAT",
             spatial_patch_size |-> 2, latent_channels |-> 4]]
            @@ Plain(<<"dit", "velocity">>, <<"vae", "z">>),
          Plain(<<"dit", "velocity">>, <<"vae", "draft">>)>>,
     inputs |->
        <<External(<<"text", "ids">>, "prompt_ids"),
          External(<<"dit", "prompt">>, "prompt"),
          Generated(<<"dit", "t">>, "scheduler_timesteps", [stage |-> "denoise"]),
          [kind |-> "defaulted", value |-> 0, port |-> <<"dit", "latent">>,
           semantic |-> "latent"]>>,
     outputs |-> <<[port |-> <<"vae", "video">>]>>,
     stages |->
        <<[name |-> "encode", kind |-> "single_pass", run_on |-> "init",
           components |-> <<"text">>],
          PainterStage,
          [name |-> "paint", kind |-> "single_pass", run_on |-> "finalize",
           components |-> <<"vae">>]>>,
     states |->
        <<[name |-> "latent", kind |-> "diffusion_latent",
           input |-> <<"dit", "latent">>, output |-> <<"dit", "velocity">>,
           lifetime |-> "request", release_after |-> "paint"]>>,
     assets |-> <<[path |-> <<"scheduler.json">>]>>,
     required_capabilities |->
        <<"loop_carried_state", "iterative_scheduler", "tensor_cast",
          "tensor_patchify", "tensor_reshape">>]

-----------------------------------------------------------------------------
\* The mask declared and listed before the tensor it is generated from.
MaskFirst ==
    [Talker EXCEPT !.components[2].inputs = <<@[2], @[1], @[3]>>]

\* A cycle within the stage, and one between two stages.
Cyclic == [Diamond EXCEPT !.connections[1].source = <<"right", "r">>,
                          !.connections[1].target = <<"left", "x">>,
                          !.components[2].inputs = <<Fixed("x")>>]

Unfed == [Diamond EXCEPT !.connections = SubSeq(@, 1, 5)]

TwiceFed == [Diamond EXCEPT !.inputs = Append(@,
                External(<<"left", "x">>, "again"))]

Dangling == [Talker EXCEPT !.states[1].output = <<"decoder", "logits">>]

Unscoped == [Talker EXCEPT !.stages[1].capabilities = <<>>]

Undeclared == [Painter EXCEPT !.required_capabilities = Tail(@)]

Mismatched == [Diamond EXCEPT !.components[4].outputs = <<Words("h")>>]

Misplaced == [Painter EXCEPT !.stages[1].components = <<"dit">>]

Uncredited == [Painter EXCEPT !.assets = <<>>]

Renamed == [Talker EXCEPT !.components[1].name = "Decoder"]

Sound == <<Document(Talker), Document(Diamond), Document(Painter),
           Document(MaskFirst)>>

Mistaken ==
    <<Document(Cyclic), Document(Unfed), Document(Dangling), Document(TwiceFed),
      Document(Unscoped), Document(Undeclared), Document(Mismatched),
      Document(Misplaced), Document(Uncredited), Document(Renamed),
      [Document(Talker) EXCEPT !.schema_version = <<2, 0>>],
      [Document(Talker) EXCEPT !.component_files["embed"] = <<"..", "x">>]>>

ThreePipelines == Sound \o Mistaken

-----------------------------------------------------------------------------
Both == {<<"cpu", "cpu">>, <<"cuda", "cuda">>}
Mixed == {<<"cpu", "cpu">>, <<"cuda", "cpu">>, <<"cpu", Unknown>>}
OnHost == {<<"cpu", "cpu">>}

Ask(providers) ==
    [providers |-> providers, provider_options |-> <<>>, intra_op_threads |-> 0,
     inter_op_threads |-> 0, graph_optimization |-> TRUE, device_outputs |-> TRUE]

NoPlacement == [components |-> <<>>, allow_unpreferred_providers |-> FALSE]

Place(name, own, allow) ==
    [components |-> (name :> own), allow_unpreferred_providers |-> allow]

Load(document, devices) ==
    [document |-> document, options |-> Ask(<<"cuda", "cpu">>),
     placement |-> NoPlacement, devices |-> devices, graphs |-> <<>>,
     calls |-> <<>>]

Call(stage, inputs, overrides) ==
    [stage |-> stage, inputs |-> inputs, overrides |-> overrides,
     guided |-> FALSE, modality |-> ""]

Guided(call) == [call EXCEPT !.guided = TRUE]

WithImage(call) == [call EXCEPT !.modality = "image"]

TalkerCalls ==
    <<Call("talk", {"tokens"}, {}), Call("talk", {}, {}),
      Call("talk", {"token_ids"}, {<<"decoder", "mask">>}),
      Call("talk", {"tokens", "typo"}, {})>>

DiamondCalls ==
    <<Call("meet", {"frame"}, {}), WithImage(Call("meet", {"frame", "hint"}, {})),
      Call("meet", {}, {<<"sink", "hint">>, <<"right", "x">>})>>

PainterCalls ==
    <<Call("encode", {"prompt_ids"}, {}), Call("denoise", {"prompt"}, {}),
      Guided(Call("denoise", {"prompt", "unconditional:prompt"}, {})),
      Guided(Call("denoise", {}, {<<"unconditional:dit", "prompt">>,
                                  <<"dit", "prompt">>})),
      Call("paint", {}, {})>>

Runs ==
    <<[Load(1, Both) EXCEPT !.calls = TalkerCalls],
      [Load(1, Mixed) EXCEPT !.calls = TalkerCalls,
                             !.options.device_outputs = FALSE],
      [Load(2, Both) EXCEPT !.calls = DiamondCalls],
      [Load(3, Both) EXCEPT !.calls = PainterCalls],
      [Load(4, OnHost) EXCEPT !.calls = TalkerCalls],
      [Load(5, OnHost) EXCEPT !.calls = DiamondCalls],
      [Load(6, OnHost) EXCEPT !.calls = DiamondCalls],
      [Load(7, OnHost) EXCEPT !.calls = TalkerCalls]>>

Refusals == [i \in 1..9 |-> Load(i + 7, OnHost)]

Cpu(own, allow) ==
    [Load(1, Both) EXCEPT !.placement = Place("decoder", own, allow)]

Placements ==
    <<Cpu([providers |-> <<"cpu">>], FALSE),
      Cpu([providers |-> <<"webgpu">>], FALSE),
      Cpu([providers |-> <<"webgpu">>], TRUE),
      Cpu([providers |-> <<"cpu", "CPUExecutionProvider">>], TRUE),
      Cpu([providers |-> <<"cpu", "cuda">>], TRUE),
      Cpu([providers |-> <<"cuda">>, intra_op_threads |-> -1], TRUE),
      Cpu([provider_options |-> [webgpu |-> [mode |-> 1]]], TRUE),
      Cpu([provider_options |-> [CUDAExecutionProvider |-> [device_id |-> 1]],
           intra_op_threads |-> 2], TRUE),
      Cpu([provider_options |-> [cpu |-> [mode |-> 1]]], TRUE),
      [Load(1, Both) EXCEPT !.placement = Place("nobody", <<>>, FALSE)],
      [Load(1, Both) EXCEPT !.options = Ask(<<>>)],
      [Load(1, Both) EXCEPT !.options = Ask(<<"webgpu">>)],
      [Load(1, Both) EXCEPT !.options.provider_options =
            [cuda |-> [device_id |-> 0],
             CUDAExecutionProvider |-> [device_id |-> 1]]],
      [Load(1, Both) EXCEPT !.graphs =
            [embed |-> [inputs |-> <<>>, outputs |-> <<>>]]]>>

AllLoads == Runs \o Refusals \o Placements

\* The painter needs three passes to come to its last stage.
PassesOf == [r \in DOMAIN AllLoads |-> IF AllLoads[r].document = 3 THEN 3 ELSE 2]

Spellings == [CUDAExecutionProvider |-> "cuda", CPUExecutionProvider |-> "cpu"]

Capitals == [Decoder |-> "decoder"]

FirstControl == {""}
Reserved == {"..", "con"}
EveryProvider == {"cpu", "cuda", "webgpu"}
=============================================================================
