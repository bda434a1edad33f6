---------------------------- MODULE MCStageSteps ----------------------------
(* Small instances of StageSteps for TLC: an encoder that reads the guided *)
(* input and a denoiser that predicts one or two latents from it.          *)
EXTENDS StageSteps

TwoComponents == <<"encoder", "denoiser">>
EncoderFirst  == [c \in Components |->
                     IF c = "denoiser" THEN {"encoder"} ELSE {}]
EncoderOnly   == {"encoder"}
DenoiserOnly  == {"denoiser"}

OneLatent    == <<"video">>
TwoLatents   == <<"video", "sound">>
ByDenoiser   == [l \in Latents |-> "denoiser"]

BothStages    == {"denoise", "decode"}
AfterDecode   == [l \in Latents |-> "decode"]
SoundEarlier  == [l \in Latents |->
                     IF l = "sound" THEN "denoise" ELSE "decode"]

AllOrNothing == {{}, InputNames}
Everything   == {InputNames}

Either   == BOOLEAN

TwoSteps      == {2}
ThreeSteps    == {3}
=============================================================================
