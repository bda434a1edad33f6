----------------------------- MODULE StageSteps -----------------------------
(***************************************************************************)
(* How a pipeline session executes the steps of one stage.                 *)
(*                                                                         *)
(* A step binds inputs, runs the stage's components in dataflow order,     *)
(* runs them a second time under guidance with the conditioning input      *)
(* replaced, advances every latent with the scheduler and counts the       *)
(* iteration.  Any of it may fail, or see a cancellation, and what was     *)
(* applied until then stays, except the scratch of the second pass.        *)
(*                                                                         *)
(* Tensors are abstracted to where they come from: an endpoint to the      *)
(* passes it was computed from and the scheduler index it was computed at, *)
(* a latent to the updates it received.  An empty sequence is a latent     *)
(* that has no value in state_values.                                      *)
(***************************************************************************)
EXTENDS Integers, Sequences, FiniteSets, SequencesExt

CONSTANTS
    Order,            \* the components, as TopologicalComponents lists them
    Feeds,            \* the components whose outputs a component reads
    Conditioned,      \* components that read the guided input
    Positioned,       \* components with generated position ids
    LatentOrder,      \* the states a scheduler step updates, in order
    Predictor,        \* the component that reads and predicts a latent
    Iterative,        \* the stage kind: iterative, with one pass per
                      \* scheduler step, or state_transition, with one pass
    Multistep,        \* UniPC with its histories, or Euler
    SolverOrder,      \* solver_order
    LowerOrderFinal,  \* lower_order_final
    StepChoices,      \* values of num_inference_steps
    GuidedChoices,    \* whether the guidance scale is not one
    Bindings,         \* sets of inputs a call may supply
    Stages, Stage,    \* the stages, and this one
    ReleaseAfter,     \* release_after of each latent
    MaxUpdates,       \* bound on the updates of a latent
    MaxFailures,      \* bound on failed steps
    None              \* no value

Components == Range(Order)
Latents    == Range(LatentOrder)
Outputs    == Components \cup Latents
Passes     == {"conditional", "unconditional"}
BothPasses == Passes
InputNames == {"conditioning", "unconditional", "noise"}

ASSUME GraphAssumption ==
    /\ Order \in Seq(Components) /\ LatentOrder \in Seq(Latents)
    /\ Order # <<>> /\ Components \cap Latents = {}
    /\ IsInjective(LatentOrder)
    /\ Predictor \in [Latents -> Components]
    /\ \A i \in DOMAIN Order :
        /\ Feeds[Order[i]] \subseteq {Order[j] : j \in 1..(i - 1)}
        /\ Order[i] \in Conditioned \/ Feeds[Order[i]] # {}
ASSUME SchedulerAssumption ==
    /\ SolverOrder \in {1, 2} /\ StepChoices \subseteq Nat \ {0}
    /\ Multistep \in BOOLEAN /\ LowerOrderFinal \in BOOLEAN
ASSUME StageAssumption ==
    /\ Stage \in Stages /\ ReleaseAfter \in [Latents -> Stages]
    /\ Iterative \in BOOLEAN /\ GuidedChoices \subseteq BOOLEAN
    /\ \A b \in Bindings : b \subseteq InputNames
ASSUME BoundsAssumption == MaxUpdates \in Nat /\ MaxFailures \in Nat

Endpoint == [from : SUBSET Passes, at : Nat]
Updates  == [from : SUBSET Passes, at : Nat, used : Nat]
History  == [outputs : Seq(Updates), lower : 0..2, previous : 1..2]
Session  ==
    [iterations : Nat, latents : [Latents -> Seq(Updates)],
     histories : [Latents -> History], noise : SUBSET Latents,
     conditioning : Passes \cup {None}, unconditional : BOOLEAN,
     endpoints : [Outputs -> Endpoint \cup {None}],
     cursors : Passes \cup {None}]
Scratch  ==
    [endpoints : [Outputs -> Endpoint \cup {None}],
     cursors : Passes \cup {None}, conditioning : Passes \cup {None}]
Call     ==
    [steps : StepChoices, guided : BOOLEAN, given : SUBSET InputNames]
StageRun ==
    [steps : StepChoices, guided : BOOLEAN, given : SUBSET InputNames,
     executed : BOOLEAN, drained : BOOLEAN]

ASSUME NoneAssumption ==
    /\ None \notin Passes \cup Endpoint \cup Scratch \cup Call \cup StageRun
    /\ \A passes \in SUBSET Passes : passes # None
    /\ None \notin Session

VARIABLES
    iterations,     \* stage_iterations of the stage
    latents,        \* state_values: the updates of each latent
    histories,      \* scheduler_histories
    noise,          \* external_values: the latents with an initial value
    conditioning,   \* external_values: the guided input
    unconditional,  \* guidance_values: whether it was supplied
    endpoints,      \* endpoint_values
    cursors,        \* position_cursors: the pass that advanced them last
    saved,          \* a snapshot
    run,            \* the active run and its executor
    call,           \* the arguments of the step being executed
    window,         \* GuidanceScratch
    pc,             \* how far the step got
    next,           \* the component or latent it comes to
    failures        \* how many steps failed

sessionVars == <<iterations, latents, histories, noise, conditioning,
                 unconditional, endpoints, cursors>>
scratchVars == <<endpoints, cursors, conditioning>>
inputVars   == <<noise, unconditional>>
latentVars  == <<iterations, latents, histories>>
stepVars    == <<call, window, pc, next>>
vars        == <<sessionVars, saved, run, stepVars, failures>>

Smaller(a, b) == IF a < b THEN a ELSE b

EmptyHistory == [outputs |-> <<>>, lower |-> 0, previous |-> 1]

Init ==
    /\ iterations = 0
    /\ latents = [l \in Latents |-> <<>>]
    /\ histories = [l \in Latents |-> EmptyHistory]
    /\ noise = {}
    /\ conditioning = None
    /\ unconditional = FALSE
    /\ endpoints = [o \in Outputs |-> None]
    /\ cursors = None
    /\ saved = None
    /\ run = None
    /\ call = None
    /\ window = None
    /\ pc = "idle"
    /\ next = 0
    /\ failures = 0

-----------------------------------------------------------------------------
(* A run of the stage.  Its executor resolves the target once; RunStage    *)
(* drains the run it begins, and Finish drains one that was stepped.  The  *)
(* host makes no more calls at the bounds; a call it made runs on.         *)
WithinBounds ==
    /\ failures < MaxFailures
    /\ \A l \in Latents : Len(latents[l]) < MaxUpdates

Begin(steps, guided, given, drained) ==
    /\ pc = "idle" /\ run = None /\ WithinBounds
    /\ run' = [steps |-> steps, guided |-> guided, given |-> given,
               executed |-> FALSE, drained |-> drained]
    /\ UNCHANGED <<sessionVars, saved, stepVars, failures>>

Finish ==
    /\ pc = "idle" /\ run # None /\ ~run.drained
    /\ run' = [run EXCEPT !.drained = TRUE]
    /\ UNCHANGED <<sessionVars, saved, stepVars, failures>>

Cancel ==
    /\ pc = "idle" /\ run # None /\ ~run.drained
    /\ run' = None
    /\ UNCHANGED <<sessionVars, saved, stepVars, failures>>

Exhausted == IF Iterative THEN iterations >= run.steps ELSE run.executed

Complete ==
    /\ pc = "idle" /\ run # None /\ Exhausted
    /\ run' = None
    /\ UNCHANGED <<sessionVars, saved, stepVars, failures>>

(* StepStage begins: the first step of a run takes the run's inputs.       *)
Enter(steps, guided, given) ==
    /\ call' = [steps |-> steps, guided |-> guided, given |-> given]
    /\ pc' = "entered"
    /\ UNCHANGED <<sessionVars, saved, window, next, failures>>

RunStep ==
    /\ pc = "idle" /\ run # None /\ ~Exhausted
    /\ Enter(run.steps, run.guided, run.given)
    /\ run' = [run EXCEPT !.given = {}]

DirectStep(steps, guided, given) ==
    /\ pc = "idle" /\ run = None /\ WithinBounds
    /\ Enter(steps, guided, given)
    /\ run' = None

-----------------------------------------------------------------------------
(* The scheduler index of a step, clamped to the last one.                 *)
Index == Smaller(iterations, call.steps - 1)

Store(given) ==
    /\ noise' = IF "noise" \in given THEN Latents ELSE noise
    /\ unconditional' = (unconditional \/ "unconditional" \in given)
    /\ conditioning' = IF "conditioning" \in given THEN "conditional"
                                                   ELSE conditioning

(* Inputs are stored before the guidance plan is resolved, which needs an  *)
(* unconditional value unless the scale is one.                            *)
Bind ==
    /\ pc = "entered"
    /\ Store(call.given)
    /\ call.guided => unconditional'
    /\ pc' = "pass"
    /\ next' = 1
    /\ UNCHANGED <<latentVars, endpoints, cursors, saved, run, call, window,
                   failures>>

(* The inputs of a component: the conditioning, what other components made,*)
(* and for each latent its value or the external initial one.              *)
InputsAvailable(c) ==
    /\ c \in Conditioned => conditioning # None
    /\ \A f \in Feeds[c] : endpoints[f] # None
    /\ \A l \in Latents : Predictor[l] = c => latents[l] # <<>> \/ l \in noise

Made(c) ==
    [from |-> (IF c \in Conditioned THEN {conditioning} ELSE {})
              \cup UNION {endpoints[f].from : f \in Feeds[c]},
     at   |-> Index]

RunComponent ==
    /\ pc = "pass" /\ next <= Len(Order)
    /\ LET c == Order[next] IN
        /\ InputsAvailable(c)
        /\ endpoints' = [o \in Outputs |->
               IF o = c \/ (o \in Latents /\ Predictor[o] = c)
               THEN Made(c) ELSE endpoints[o]]
        /\ cursors' = IF c \in Positioned
                      THEN IF window = None THEN "conditional"
                                            ELSE "unconditional"
                      ELSE cursors
    /\ next' = next + 1
    /\ UNCHANGED <<latentVars, inputVars, conditioning, saved, run, call,
                   window, pc, failures>>

-----------------------------------------------------------------------------
(* Guidance.  The window copies the scratch and replaces the conditioning. *)
PredictionsExist == \A l \in Latents : endpoints[l] # None

OpenWindow ==
    /\ pc = "pass" /\ next > Len(Order)
    /\ call.guided /\ window = None
    /\ PredictionsExist /\ conditioning # None
    /\ window' = [endpoints |-> endpoints, cursors |-> cursors,
                  conditioning |-> conditioning]
    /\ conditioning' = "unconditional"
    /\ next' = 1
    /\ UNCHANGED <<latentVars, inputVars, endpoints, cursors, saved, run,
                   call, pc, failures>>

(* Mutant: a failing step drops the window as it is.                       *)
ForgetScratch == UNCHANGED scratchVars

RestoreScratch ==
    IF window = None
    THEN UNCHANGED scratchVars
    ELSE /\ endpoints' = window.endpoints
         /\ cursors' = window.cursors
         /\ conditioning' = window.conditioning

Combined(l) ==
    [from |-> endpoints[l].from \cup window.endpoints[l].from,
     at   |-> endpoints[l].at]

(* Mutants: published before the restore, which discards them; cursors     *)
(* that are not part of the scratch.                                       *)
PublishThenRestore ==
    /\ pc = "pass" /\ next > Len(Order) /\ window # None
    /\ RestoreScratch
    /\ window' = None
    /\ pc' = "transform"
    /\ next' = 1
    /\ UNCHANGED <<latentVars, inputVars, saved, run, call, failures>>

CloseKeepingCursors ==
    /\ pc = "pass" /\ next > Len(Order) /\ window # None
    /\ PredictionsExist
    /\ endpoints' = [o \in Outputs |->
           IF o \in Latents THEN Combined(o) ELSE window.endpoints[o]]
    /\ conditioning' = window.conditioning
    /\ window' = None
    /\ pc' = "transform"
    /\ next' = 1
    /\ UNCHANGED <<latentVars, inputVars, cursors, saved, run, call, failures>>

(* The scratch is restored first, and the combined predictions published   *)
(* into the restored endpoints.                                            *)
CloseWindow ==
    /\ pc = "pass" /\ next > Len(Order) /\ window # None
    /\ PredictionsExist
    /\ endpoints' = [o \in Outputs |->
           IF o \in Latents THEN Combined(o) ELSE window.endpoints[o]]
    /\ cursors' = window.cursors
    /\ conditioning' = window.conditioning
    /\ window' = None
    /\ pc' = "transform"
    /\ next' = 1
    /\ UNCHANGED <<latentVars, inputVars, saved, run, call, failures>>

Unguided ==
    /\ pc = "pass" /\ next > Len(Order) /\ ~call.guided
    /\ pc' = "transform"
    /\ next' = 1
    /\ UNCHANGED <<sessionVars, saved, run, call, window, failures>>

-----------------------------------------------------------------------------
(* The scheduler.  sigmas has one entry per step and the terminal one.     *)
LastSigma(steps) == steps

(* UniPC forgets its history at index 0, corrects the sample with the      *)
(* outputs it has, and predicts with an order that grows step by step.     *)
HistoryKept(l) == histories[l]   \* Mutant: nothing is forgotten.

HistoryBefore(l) == IF Index = 0 THEN EmptyHistory ELSE histories[l]

KeptOutputs(l, update) ==
    LET all == Append(HistoryBefore(l).outputs, update)
    IN  SubSeq(all, Len(all) + 1 - Smaller(SolverOrder, Len(all)), Len(all))

SolverStepOrder(l) ==
    Smaller(IF LowerOrderFinal THEN Smaller(SolverOrder, call.steps - Index)
                               ELSE SolverOrder,
            HistoryBefore(l).lower + 1)

Corrects(l) == Index # 0 /\ HistoryBefore(l).outputs # <<>>

(* Indices of sigmas whose logarithm or quotient the step takes.           *)
SigmasUsed(l) ==
    {Index}
    \cup (IF Multistep /\ Corrects(l) THEN {Index - 1} ELSE {})
    \cup (IF /\ Multistep /\ Corrects(l)
             /\ HistoryBefore(l).previous = 2
             /\ Len(HistoryBefore(l).outputs) >= 2
          THEN {Index - 2} ELSE {})
    \cup (IF /\ Multistep /\ SolverStepOrder(l) = 2
             /\ HistoryBefore(l).outputs # <<>>
          THEN {Index - 1} ELSE {})

AdvanceHistory(l, update) ==
    [outputs  |-> KeptOutputs(l, update),
     lower    |-> Smaller(HistoryBefore(l).lower + 1, SolverOrder),
     previous |-> SolverStepOrder(l)]

(* An update of a latent, from the prediction the stage published.         *)
Update(l) ==
    [from |-> endpoints[l].from, at |-> endpoints[l].at, used |-> Index]

Transform ==
    /\ pc = "transform" /\ next <= Len(LatentOrder)
    /\ LET l == LatentOrder[next] IN
        /\ latents[l] # <<>> \/ l \in noise
        /\ latents' = [latents EXCEPT ![l] = Append(@, Update(l))]
        /\ histories' = IF Multistep
                        THEN [histories EXCEPT
                                 ![l] = AdvanceHistory(l, Update(l))]
                        ELSE histories
    /\ next' = next + 1
    /\ UNCHANGED <<iterations, scratchVars, inputVars, saved, run, call,
                   window, pc, failures>>

(* After a last look at the token the iteration is counted.                *)
Count ==
    /\ pc = "transform" /\ next > Len(LatentOrder)
    /\ iterations' = iterations + 1
    /\ run' = IF run = None THEN None ELSE [run EXCEPT !.executed = TRUE]
    /\ call' = None
    /\ pc' = "idle"
    /\ next' = 0
    /\ UNCHANGED <<latents, histories, scratchVars, inputVars, saved, window,
                   failures>>

(* A missing input, a failing component or transform, a token that was     *)
(* cancelled: the scratch is restored and the run ends, and nothing else   *)
(* is undone.                                                              *)
Unwind ==
    /\ window' = None
    /\ run' = None
    /\ call' = None
    /\ pc' = "idle"
    /\ next' = 0
    /\ failures' = failures + 1

(* The values for the unconditional pass are stored before the others.     *)
BindFails ==
    /\ pc = "entered"
    /\ \E part \in SUBSET call.given :
        /\ part # {} /\ "unconditional" \in call.given
               => "unconditional" \in part
        /\ Store(part)
    /\ Unwind
    /\ UNCHANGED <<latentVars, endpoints, cursors, saved>>

FailCounted ==   \* Mutant: the iteration is counted however the step ends.
    /\ pc \in {"pass", "transform"}
    /\ RestoreScratch
    /\ Unwind
    /\ iterations' = iterations + 1
    /\ UNCHANGED <<latents, histories, inputVars, saved>>

Fail ==
    /\ pc \in {"pass", "transform"}
    /\ RestoreScratch
    /\ Unwind
    /\ UNCHANGED <<latentVars, inputVars, saved>>

(* Position ids are generated with the inputs of a component, so that its   *)
(* cursors have moved when the component fails.                            *)
ComponentFails ==
    /\ pc = "pass" /\ next <= Len(Order) /\ Order[next] \in Positioned
    /\ window = None /\ InputsAvailable(Order[next])
    /\ cursors' = "conditional"
    /\ Unwind
    /\ UNCHANGED <<latentVars, inputVars, endpoints, conditioning, saved>>

-----------------------------------------------------------------------------
(* Calls the session accepts while no run is active.                       *)
Between == pc = "idle" /\ run = None

Released(s) == {l \in Latents : ReleaseAfter[l] = s}

ForgetLatents(gone) ==   \* Mutant: the histories are not erased.
    /\ latents' = [l \in Latents |-> IF l \in gone THEN <<>> ELSE latents[l]]
    /\ UNCHANGED histories

Forget(gone) ==
    /\ latents' = [l \in Latents |-> IF l \in gone THEN <<>> ELSE latents[l]]
    /\ histories' = [l \in Latents |->
                        IF l \in gone THEN EmptyHistory ELSE histories[l]]

ReleaseStage(s) ==
    /\ Between
    /\ Forget(Released(s))
    /\ iterations' = IF Released(s) = {} THEN iterations ELSE 0
    /\ noise' = noise \ Released(s)
    /\ unconditional' = (unconditional /\ s # Stage)
    /\ endpoints' = [o \in Outputs |->
                        IF o \in Released(s) THEN None ELSE endpoints[o]]
    /\ UNCHANGED <<conditioning, cursors, saved, run, stepVars, failures>>

Reset ==
    /\ Between
    /\ Forget(Latents)
    /\ iterations' = 0
    /\ noise' = {}
    /\ conditioning' = None
    /\ unconditional' = FALSE
    /\ endpoints' = [o \in Outputs |-> None]
    /\ cursors' = None
    /\ UNCHANGED <<saved, run, stepVars, failures>>

(* The copyable bundle of a session.                                       *)
SessionState ==
    [iterations |-> iterations, latents |-> latents,
     histories |-> histories, noise |-> noise,
     conditioning |-> conditioning, unconditional |-> unconditional,
     endpoints |-> endpoints, cursors |-> cursors]

Snapshot ==
    /\ Between
    /\ saved' = SessionState
    /\ UNCHANGED <<sessionVars, run, stepVars, failures>>

Restore ==
    /\ Between /\ saved # None
    /\ iterations' = saved.iterations
    /\ latents' = saved.latents
    /\ histories' = saved.histories
    /\ noise' = saved.noise
    /\ conditioning' = saved.conditioning
    /\ unconditional' = saved.unconditional
    /\ endpoints' = saved.endpoints
    /\ cursors' = saved.cursors
    /\ UNCHANGED <<saved, run, stepVars, failures>>

-----------------------------------------------------------------------------
(* The step being executed.                                                *)
Execute ==
    \/ Bind \/ RunComponent \/ OpenWindow \/ CloseWindow \/ Unguided
    \/ Transform \/ Count \/ BindFails \/ Fail
    \/ ComponentFails

Calls ==
    \/ \E steps \in StepChoices, guided \in GuidedChoices, given \in Bindings :
        \/ DirectStep(steps, guided, given)
        \/ \E drained \in BOOLEAN : Begin(steps, guided, given, drained)
    \/ Finish
    \/ Cancel
    \/ RunStep
    \/ Complete
    \/ \E s \in Stages : ReleaseStage(s)
    \/ Reset
    \/ Snapshot
    \/ Restore

Next == Execute \/ Calls

Spec == Init /\ [][Next]_vars

-----------------------------------------------------------------------------
(* The variables have their types; a step is being executed exactly when   *)
(* the session is not idle, and a window is open only during its second    *)
(* pass over the components (the handler of StepStage, 3016-3113).         *)
TypeOK ==
    /\ SessionState \in Session
    /\ saved # None => saved \in Session
    /\ run # None => run \in StageRun
    /\ (call = None) = (pc = "idle")
    /\ call # None => call \in Call
    /\ window # None => pc = "pass" /\ call.guided /\ window \in Scratch
    /\ pc \in {"idle", "entered", "pass", "transform"}
    /\ next \in 0..(Len(Order) + Len(LatentOrder) + 1)
    /\ failures \in 0..MaxFailures

(* Outside the window nothing the unconditional pass wrote can be seen:    *)
(* neither the conditioning it replaced nor an endpoint or a cursor only   *)
(* it computed, however the step ended.  The comment on GuidanceScratch    *)
(* (741-748) and docs/pipeline-api.md (1172-1177) promise it.              *)
ScratchIsInvisible ==
    window = None =>
        /\ conditioning # "unconditional"
        /\ cursors # "unconditional"
        /\ \A o \in Outputs :
            endpoints[o] # None => "conditional" \in endpoints[o].from

(* The scheduler advances a latent with the prediction of its own step:    *)
(* computed at the index it is applied at, and from both passes exactly    *)
(* when the step is guided (StepStage 3082-3108, ApplyConnection 2717).    *)
UpdatesUseTheirPrediction ==
    [][Transform =>
        \A l \in Latents : latents'[l] # latents[l] =>
            LET update == Last(latents'[l]) IN
            /\ update.at = update.used
            /\ update.from = IF call.guided THEN BothPasses
                                            ELSE {"conditional"}]_vars

(* The history of a latent is about that latent: it holds the last outputs *)
(* the latent was advanced with, it has one whenever the latent has a      *)
(* value, and the order of the last step is not larger than it.  Release,  *)
(* Reset, Restore and failed steps keep the two maps together.             *)
Follows(history, value) ==
    /\ IsSuffix(history.outputs, value)
    /\ history.outputs = <<>> <=> value = <<>>
    /\ history.lower = Len(history.outputs)
    /\ history.outputs # <<>> => history.previous <= Len(history.outputs)

HistoryFollowsLatent ==
    Multistep => \A l \in Latents : Follows(histories[l], latents[l])

(* Unless a step failed or the stage is stepped past its last index, UniPC *)
(* takes logarithms of sigmas of the schedule only: no index below zero,   *)
(* no terminal zero (UniPCStep 1782-1975 indexes sigmas with index - 2).   *)
SigmasInRange ==
    pc = "transform" /\ next <= Len(LatentOrder)
        /\ failures = 0 /\ iterations < call.steps =>
        SigmasUsed(LatentOrder[next]) \subseteq 0..(LastSigma(call.steps) - 1)

(* Between steps, every iteration that counts advanced every latent, and   *)
(* the latents that were released or reset last with the count received at *)
(* most one more update for every failed step: a failure loses no update   *)
(* and a retry repeats at most one.  (A latent released at another time    *)
(* than the count was erased has more.)                                    *)
UpdatesAccountedFor ==
    pc = "idle" =>
        /\ \A l \in Latents : iterations <= Len(latents[l])
        /\ Latents # {} =>
            \E l \in Latents : Len(latents[l]) <= iterations + failures

(* A run that starts partway performs the remaining steps only             *)
(* (stage_executor_iterative.cpp:5, pipeline_stream_test.cpp:1052): when   *)
(* it completes, each latent was advanced once per scheduler step.         *)
ResumedRunsPerformTheRest ==
    [][Complete => \A l \in Latents : Len(latents[l]) = iterations]_vars

(* The inductive form of ScratchIsInvisible: what the window holds and     *)
(* what was saved is as clean as what can be seen outside it.              *)
Clean(conditioned, moved, values) ==
    /\ conditioned \in {None, "conditional"}
    /\ moved # "unconditional"
    /\ \A o \in Outputs :
        values[o] # None => "conditional" \in values[o].from

ScratchInv ==
    /\ window = None => Clean(conditioning, cursors, endpoints)
    /\ window # None =>
        /\ pc = "pass"
        /\ Clean(window.conditioning, window.cursors, window.endpoints)
        /\ \A l \in Latents : window.endpoints[l] # None
    /\ saved # None =>
        Clean(saved.conditioning, saved.cursors, saved.endpoints)

(* Which pass the components are in, and what it makes of an output.       *)
Pass == IF window = None THEN "conditional" ELSE "unconditional"
Of(passes) == [from |-> passes, at |-> Index]

(* Within a step, what was computed so far was computed by this pass, at   *)
(* this index: the second pass does not mix with the first one.            *)
StepInv ==
    /\ pc = "pass" =>
        /\ conditioning \in {None, Pass}
        /\ next > 1 => conditioning = Pass
        /\ \A i \in 1..(next - 1) :
            /\ endpoints[Order[i]] = Of({Pass})
            /\ \A l \in Latents :
                Predictor[l] = Order[i] => endpoints[l] = Of({Pass})
        /\ window # None =>
            \A l \in Latents : window.endpoints[l] = Of({"conditional"})
    /\ pc = "transform" =>
        /\ \A l \in Latents : endpoints[l] =
            Of(IF call.guided THEN BothPasses ELSE {"conditional"})
        /\ \A i \in 1..(next - 1) : latents[LatentOrder[i]] # <<>>

(* The inductive invariant: whatever is under way has not failed yet.      *)
IInv ==
    /\ TypeOK
    /\ pc = "pass" => next \in 1..(Len(Order) + 1)
    /\ pc = "transform" => next \in 1..(Len(LatentOrder) + 1)
    /\ run # None \/ pc # "idle" => failures < MaxFailures
    /\ ScratchInv
    /\ StepInv

(* The latents the step in progress has advanced, and how often a latent   *)
(* was advanced by the steps that count and by this one.                   *)
Advanced == IF pc = "transform"
            THEN {LatentOrder[i] : i \in 1..(next - 1)} ELSE {}
Due(l)   == iterations + (IF l \in Advanced THEN 1 ELSE 0)

(* The inductive forms of HistoryFollowsLatent, UpdatesAccountedFor and    *)
(* SigmasInRange: between two latents of a step, and in what was saved.    *)
HistoryInv ==
    /\ HistoryFollowsLatent
    /\ Multistep /\ saved # None =>
        \A l \in Latents : Follows(saved.histories[l], saved.latents[l])

UpdatesInv ==
    /\ \A l \in Latents : Due(l) <= Len(latents[l])
    /\ Latents # {} =>
        \E l \in Latents : Len(latents[l]) <= Due(l) + failures
    /\ saved # None =>
        /\ \A l \in Latents : saved.iterations <= Len(saved.latents[l])
        /\ Latents # {} => \E l \in Latents :
            Len(saved.latents[l]) <= saved.iterations + failures

(* Without a failure a history has no more outputs than indices went by,   *)
(* unless the next step is at index zero and forgets it.                   *)
ScheduleInv ==
    Multistep /\ failures = 0 =>
        /\ \A l \in Latents :
            Due(l) = 0 \/ Len(histories[l].outputs) <= Due(l)
        /\ saved # None =>
            \/ saved.iterations = 0
            \/ \A l \in Latents :
                Len(saved.histories[l].outputs) <= saved.iterations

(* With the window left out, a guided step is one pass whose predictions   *)
(* are replaced.                                                           *)
Visible == IF window = None
           THEN [endpoints |-> endpoints, cursors |-> cursors,
                 conditioning |-> conditioning]
           ELSE window

SinglePass == INSTANCE SinglePassSteps WITH
    iterations   <- iterations,
    latents      <- [l \in Latents |-> Len(latents[l])],
    conditioning <- Visible.conditioning,
    endpoints    <- [o \in Outputs |->
                        IF Visible.endpoints[o] = None THEN None
                        ELSE Visible.endpoints[o].from],
    cursors      <- Visible.cursors,
    saved        <- IF saved = None THEN {} ELSE
                    {[iterations |-> saved.iterations,
                      latents |-> [l \in Latents |-> Len(saved.latents[l])],
                      conditioning |-> saved.conditioning,
                      endpoints |-> [o \in Outputs |->
                        IF saved.endpoints[o] = None THEN None
                        ELSE saved.endpoints[o].from],
                      cursors |-> saved.cursors]}

ImplementsSinglePass == SinglePass!Spec
=============================================================================
