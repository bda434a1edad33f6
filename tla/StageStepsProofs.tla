-------------------------- MODULE StageStepsProofs --------------------------
(***************************************************************************)
(* Proofs about StageSteps for any graph of components, any latents and    *)
(* any schedule: the types, that nothing of the unconditional pass is seen *)
(* outside its window, that every update of a latent is made from the      *)
(* prediction of its own step, that the steps implement steps of a single  *)
(* pass, and that histories and iterations account for the updates.        *)
(***************************************************************************)
EXTENDS StageSteps, SequenceTheorems, TLAPS

(* What the assumptions say of single components and latents.              *)
LEMMA GraphFacts ==
    /\ Len(Order) \in Nat \ {0} /\ Len(LatentOrder) \in Nat
    /\ \A i \in 1..Len(Order) : Order[i] \in Components
    /\ \A c \in Components : \E i \in 1..Len(Order) : Order[i] = c
    /\ \A i \in 1..Len(LatentOrder) : LatentOrder[i] \in Latents
    /\ \A l \in Latents : Predictor[l] \in Components
<1>1. Order \in Seq(Components) /\ LatentOrder \in Seq(Latents)
  BY GraphAssumption
<1>2. Len(Order) \in Nat \ {0} /\ DOMAIN Order = 1..Len(Order)
  BY <1>1, GraphAssumption, EmptySeq, LenProperties
<1>3. Len(LatentOrder) \in Nat /\ DOMAIN LatentOrder = 1..Len(LatentOrder)
  BY <1>1, LenProperties
<1> QED
  BY <1>1, <1>2, <1>3, GraphAssumption DEF Components, Latents, Range

LEMMA FeedsEarlier ==
    ASSUME NEW i \in 1..Len(Order), NEW f \in Feeds[Order[i]]
    PROVE  \E j \in 1..(i - 1) : f = Order[j]
<1>1. DOMAIN Order = 1..Len(Order)
  BY GraphAssumption, LenProperties
<1> QED
  BY <1>1, GraphAssumption

(* The types of the session's variables, one by one.                       *)
SessionTyped ==
    /\ iterations \in Nat
    /\ latents \in [Latents -> Seq(Updates)]
    /\ histories \in [Latents -> History]
    /\ noise \in SUBSET Latents
    /\ conditioning \in Passes \cup {None}
    /\ unconditional \in BOOLEAN
    /\ endpoints \in [Outputs -> Endpoint \cup {None}]
    /\ cursors \in Passes \cup {None}

RestTyped ==
    /\ saved # None => saved \in Session
    /\ run # None => run \in StageRun
    /\ (call = None) = (pc = "idle")
    /\ call # None => call \in Call
    /\ window # None => pc = "pass" /\ call.guided /\ window \in Scratch
    /\ pc \in {"idle", "entered", "pass", "transform"}
    /\ next \in 0..(Len(Order) + Len(LatentOrder) + 1)
    /\ failures \in 0..MaxFailures

LEMMA TypeParts == TypeOK <=> SessionTyped /\ RestTyped
BY DEF TypeOK, SessionTyped, RestTyped, SessionState, Session

LEMMA TypePartsPrimed == TypeOK' <=> SessionTyped' /\ RestTyped'
BY DEF TypeOK, SessionTyped, RestTyped, SessionState, Session

LEMMA IndexType ==
    ASSUME TypeOK, call # None
    PROVE  Index \in Nat /\ Index < call.steps /\ call.steps \in Nat \ {0}
<1>1. call.steps \in Nat \ {0}
  BY SchedulerAssumption DEF TypeOK, Call
<1>2. iterations \in Nat
  BY TypeParts DEF SessionTyped
<1> QED
  BY <1>1, <1>2 DEF Index, Smaller

LEMMA EmptyHistoryType == EmptyHistory \in History
BY EmptySeq DEF EmptyHistory, History

LEMMA HistoryBeforeType ==
    ASSUME TypeOK, NEW l \in Latents
    PROVE  HistoryBefore(l) \in History
BY EmptyHistoryType, TypeParts DEF SessionTyped, HistoryBefore

LEMMA AdvanceType ==
    ASSUME TypeOK, call # None, NEW l \in Latents, NEW u \in Updates
    PROVE  AdvanceHistory(l, u) \in History
<1> DEFINE h == HistoryBefore(l)
           all == Append(h.outputs, u)
<1>1. h.outputs \in Seq(Updates) /\ h.lower \in 0..2
  BY HistoryBeforeType DEF History
<1>2. all \in Seq(Updates) /\ Len(all) \in Nat \ {0}
  BY <1>1, AppendProperties, LenProperties
<1>3. KeptOutputs(l, u) \in Seq(Updates)
  <2> DEFINE m == Len(all) + 1 - Smaller(SolverOrder, Len(all))
  <2>1. KeptOutputs(l, u) = SubSeq(all, m, Len(all))
    BY DEF KeptOutputs
  <2>2. m \in 1..(Len(all) + 1)
    <3>1. \A n \in Nat \ {0} : n + 1 - Smaller(SolverOrder, n) \in 1..(n + 1)
      BY SchedulerAssumption DEF Smaller
    <3> QED
      BY <1>2, <3>1
  <2> HIDE DEF m, all
  <2>3. SubSeq(all, m, Len(all)) \in Seq(Updates)
    BY <1>2, <2>2, SubSeqProperties
  <2> QED
    BY <2>1, <2>3
<1>4. SolverStepOrder(l) \in 1..2
  BY <1>1, IndexType, SchedulerAssumption DEF SolverStepOrder, Smaller
<1>5. Smaller(h.lower + 1, SolverOrder) \in 0..2
  BY <1>1, SchedulerAssumption DEF Smaller
<1> QED
  BY <1>3, <1>4, <1>5 DEF AdvanceHistory, History

LEMMA StoreType ==
    ASSUME TypeOK, NEW given \in SUBSET InputNames, Store(given)
    PROVE  /\ noise' \in SUBSET Latents
           /\ unconditional' \in BOOLEAN
           /\ conditioning' \in Passes \cup {None}
BY TypeParts DEF Store, SessionTyped, Passes

LEMMA UnwindType ==
    ASSUME TypeOK, failures < MaxFailures, saved' = saved, Unwind
    PROVE  RestTyped'
BY TypeParts, BoundsAssumption, GraphFacts DEF Unwind, RestTyped

LEMMA RestoreScratchType ==
    ASSUME TypeOK, RestoreScratch
    PROVE  /\ endpoints' \in [Outputs -> Endpoint \cup {None}]
           /\ cursors' \in Passes \cup {None}
           /\ conditioning' \in Passes \cup {None}
<1>1. CASE window = None
  BY <1>1, TypeParts DEF RestoreScratch, scratchVars, SessionTyped
<1>2. CASE window # None
  BY <1>2, TypeParts DEF RestoreScratch, RestTyped, Scratch
<1> QED
  BY <1>1, <1>2

-----------------------------------------------------------------------------
(* Type correctness.                                                       *)
Counters ==
    /\ pc = "pass" => next \in 1..(Len(Order) + 1)
    /\ pc = "transform" => next \in 1..(Len(LatentOrder) + 1)
    /\ run # None \/ pc # "idle" => failures < MaxFailures

LEMMA TypeInit == Init => TypeOK /\ Counters
<1> SUFFICES ASSUME Init PROVE TypeOK /\ Counters
  OBVIOUS
<1>1. SessionTyped
  BY EmptyHistoryType, EmptySeq DEF Init, SessionTyped
<1>2. RestTyped
  BY GraphFacts, BoundsAssumption DEF Init, RestTyped
<1>3. Counters
  BY DEF Init, Counters
<1> QED
  BY <1>1, <1>2, <1>3, TypeParts

(* A step that leaves the session alone.                                   *)
LEMMA SessionKept == ASSUME TypeOK, UNCHANGED sessionVars PROVE SessionTyped'
BY TypeParts DEF sessionVars, SessionTyped


(* The variables that an action of the first group leaves alone.           *)
LEMMA RunType ==
    ASSUME TypeOK, run' # None => run' \in StageRun,
           UNCHANGED <<sessionVars, saved, stepVars, failures>>
    PROVE  TypeOK'
<1>1. SessionTyped'
  BY SessionKept
<1>2. RestTyped'
  BY TypeParts DEF stepVars, RestTyped
<1> QED
  BY <1>1, <1>2, TypePartsPrimed

LEMMA EnterType ==
    ASSUME TypeOK, pc = "idle", NEW steps \in StepChoices,
           NEW guided \in BOOLEAN, NEW given \in SUBSET InputNames,
           Enter(steps, guided, given), run' # None => run' \in StageRun
    PROVE  TypeOK'
<1>1. SessionTyped'
  BY SessionKept DEF Enter
<1>2. call' \in Call /\ call' # None
  BY NoneAssumption DEF Enter, Call
<1>3. RestTyped'
  BY <1>2, TypeParts DEF Enter, RestTyped
<1> QED
  BY <1>1, <1>3, TypePartsPrimed

LEMMA BetweenType ==
    ASSUME TypeOK, SessionTyped', saved' # None => saved' \in Session,
           UNCHANGED <<run, stepVars, failures>>
    PROVE  TypeOK'
<1>1. RestTyped'
  BY TypeParts DEF stepVars, RestTyped
<1> QED
  BY <1>1, TypePartsPrimed

LEMMA MadeType ==
    ASSUME TypeOK, call # None, NEW c \in Components, InputsAvailable(c),
           \A f \in Feeds[c] : f \in Components
    PROVE  Made(c) \in Endpoint
<1>1. Index \in Nat
  BY IndexType
<1>2. c \in Conditioned => conditioning \in Passes
  BY TypeParts DEF InputsAvailable, SessionTyped
<1>3. \A f \in Feeds[c] : endpoints[f].from \in SUBSET Passes
  BY TypeParts DEF InputsAvailable, SessionTyped, Outputs, Endpoint
<1> QED
  BY <1>1, <1>2, <1>3 DEF Made, Endpoint

-----------------------------------------------------------------------------
(* The steps of StepStage.                                                 *)
LEMMA BindType == ASSUME TypeOK, Bind PROVE TypeOK'
<1>1. call # None /\ call.given \in SUBSET InputNames
  BY TypeParts DEF Bind, RestTyped, Call
<1>2. SessionTyped'
  BY <1>1, StoreType, TypeParts DEF Bind, latentVars, SessionTyped
<1>3. RestTyped'
  BY GraphFacts, TypeParts DEF Bind, RestTyped
<1> QED
  BY <1>2, <1>3, TypePartsPrimed

LEMMA ComponentType ==
    ASSUME TypeOK, Counters, RunComponent
    PROVE  TypeOK'
<1> DEFINE c == Order[next]
<1>1. next \in 1..Len(Order) /\ c \in Components /\ call # None
  BY GraphFacts, TypeParts DEF RunComponent, Counters, RestTyped
<1>2. Made(c) \in Endpoint
  <2>1. \A f \in Feeds[c] : f \in Components
    <3> SUFFICES ASSUME NEW f \in Feeds[c] PROVE f \in Components
      OBVIOUS
    <3>1. PICK j \in 1..(next - 1) : f = Order[j]
      BY <1>1, FeedsEarlier
    <3> QED
      BY <1>1, <3>1, GraphFacts
  <2> QED
    BY <1>1, <2>1, MadeType DEF RunComponent
<1>3. endpoints' \in [Outputs -> Endpoint \cup {None}]
  BY <1>2, TypeParts DEF RunComponent, SessionTyped
<1>4. cursors' \in Passes \cup {None}
  BY TypeParts DEF RunComponent, SessionTyped, Passes
<1>5. SessionTyped'
  BY <1>3, <1>4, TypeParts DEF RunComponent, latentVars, inputVars, SessionTyped
<1>6. next' \in 0..(Len(Order) + Len(LatentOrder) + 1)
  BY <1>1, GraphFacts DEF RunComponent
<1>7. RestTyped'
  BY <1>6, TypeParts DEF RunComponent, RestTyped
<1> QED
  BY <1>5, <1>7, TypePartsPrimed

LEMMA OpenType == ASSUME TypeOK, OpenWindow PROVE TypeOK'
<1>1. SessionTyped'
  BY TypeParts DEF OpenWindow, latentVars, inputVars, SessionTyped, Passes
<1>2. window' \in Scratch /\ window' # None
  BY TypeParts, NoneAssumption DEF OpenWindow, SessionTyped, Scratch
<1>3. RestTyped'
  BY <1>2, GraphFacts, TypeParts DEF OpenWindow, RestTyped
<1> QED
  BY <1>1, <1>3, TypePartsPrimed

LEMMA CloseType == ASSUME TypeOK, StepInv, CloseWindow PROVE TypeOK'
<1>1. window \in Scratch /\ call # None
  BY TypeParts DEF CloseWindow, RestTyped
<1>2. \A l \in Latents : Combined(l) \in Endpoint
  <2> SUFFICES ASSUME NEW l \in Latents PROVE Combined(l) \in Endpoint
    OBVIOUS
  <2>1. endpoints[l] \in Endpoint
    BY TypeParts DEF CloseWindow, PredictionsExist, SessionTyped, Outputs
  <2>2. window.endpoints[l] = Of({"conditional"})
    BY DEF CloseWindow, StepInv
  <2>3. window.endpoints[l].from \in SUBSET Passes
    BY <2>2 DEF Of, Passes
  <2> QED
    BY <2>1, <2>3 DEF Combined, Endpoint
<1>3. endpoints' \in [Outputs -> Endpoint \cup {None}]
  BY <1>1, <1>2 DEF CloseWindow, Scratch
<1>4. SessionTyped'
  BY <1>1, <1>3, TypeParts
     DEF CloseWindow, latentVars, inputVars, SessionTyped, Scratch
<1>5. RestTyped'
  BY GraphFacts, TypeParts DEF CloseWindow, RestTyped
<1> QED
  BY <1>4, <1>5, TypePartsPrimed

LEMMA TransformType ==
    ASSUME TypeOK, Counters, StepInv, Transform
    PROVE  TypeOK'
<1> DEFINE l == LatentOrder[next]
<1>1. next \in 1..Len(LatentOrder) /\ l \in Latents /\ call # None
  BY GraphFacts, TypeParts DEF Transform, Counters, RestTyped
<1>2. Update(l) \in Updates
  <2>1. endpoints[l] = Of(IF call.guided THEN BothPasses ELSE {"conditional"})
    BY <1>1 DEF Transform, StepInv
  <2> QED
    BY <1>1, <2>1, IndexType DEF Update, Updates, Of, BothPasses, Passes
<1>3. latents' \in [Latents -> Seq(Updates)]
  <2>1. latents[l] \in Seq(Updates)
    BY <1>1, TypeParts DEF SessionTyped
  <2>2. Append(latents[l], Update(l)) \in Seq(Updates)
    BY <1>2, <2>1, AppendProperties
  <2> QED
    BY <1>1, <2>2, TypeParts DEF Transform, SessionTyped
<1>4. histories' \in [Latents -> History]
  <2>1. AdvanceHistory(l, Update(l)) \in History
    BY <1>1, <1>2, AdvanceType
  <2> QED
    BY <1>1, <2>1, TypeParts DEF Transform, SessionTyped
<1>5. SessionTyped'
  BY <1>3, <1>4, TypeParts
     DEF Transform, scratchVars, inputVars, SessionTyped
<1>6. next' \in 0..(Len(Order) + Len(LatentOrder) + 1)
  BY <1>1, GraphFacts DEF Transform
<1>7. RestTyped'
  BY <1>6, TypeParts DEF Transform, RestTyped
<1> QED
  BY <1>5, <1>7, TypePartsPrimed

LEMMA CountType == ASSUME TypeOK, Count PROVE TypeOK'
<1>1. SessionTyped'
  BY TypeParts DEF Count, scratchVars, inputVars, SessionTyped
<1>2. run' # None => run' \in StageRun
  BY TypeParts DEF Count, RestTyped, StageRun
<1>3. RestTyped'
  BY <1>2, GraphFacts, TypeParts DEF Count, RestTyped
<1> QED
  BY <1>1, <1>3, TypePartsPrimed

LEMMA BindFailsType == ASSUME TypeOK, Counters, BindFails PROVE TypeOK'
<1>1. PICK part \in SUBSET call.given : Store(part)
  BY DEF BindFails
<1>2. part \in SUBSET InputNames
  BY <1>1, TypeParts DEF BindFails, RestTyped, Call
<1>3. SessionTyped'
  BY <1>1, <1>2, StoreType, TypeParts DEF BindFails, latentVars, SessionTyped
<1>4. RestTyped'
  BY UnwindType DEF BindFails, Counters
<1> QED
  BY <1>3, <1>4, TypePartsPrimed

LEMMA FailType == ASSUME TypeOK, Counters, Fail PROVE TypeOK'
<1>1. SessionTyped'
  BY RestoreScratchType, TypeParts DEF Fail, latentVars, inputVars, SessionTyped
<1>2. RestTyped'
  BY UnwindType DEF Fail, Counters
<1> QED
  BY <1>1, <1>2, TypePartsPrimed

LEMMA ComponentFailsType ==
    ASSUME TypeOK, Counters, ComponentFails
    PROVE  TypeOK'
<1>1. SessionTyped'
  BY TypeParts
     DEF ComponentFails, latentVars, inputVars, SessionTyped, Passes
<1>2. RestTyped'
  BY UnwindType DEF ComponentFails, Counters
<1> QED
  BY <1>1, <1>2, TypePartsPrimed

(* The calls between runs.                                                 *)
LEMMA ReleaseType ==
    ASSUME TypeOK, NEW s \in Stages, ReleaseStage(s)
    PROVE  TypeOK'
<1>1. latents' \in [Latents -> Seq(Updates)] /\ histories' \in [Latents -> History]
  BY EmptyHistoryType, EmptySeq, TypeParts DEF ReleaseStage, Forget, SessionTyped
<1>2. endpoints' \in [Outputs -> Endpoint \cup {None}]
  BY TypeParts DEF ReleaseStage, SessionTyped
<1>3. SessionTyped'
  BY <1>1, <1>2, TypeParts DEF ReleaseStage, SessionTyped
<1> QED
  BY <1>3, BetweenType, TypeParts DEF ReleaseStage, RestTyped

LEMMA ResetType == ASSUME TypeOK, Reset PROVE TypeOK'
<1>1. latents' \in [Latents -> Seq(Updates)] /\ histories' \in [Latents -> History]
  BY EmptyHistoryType, EmptySeq, TypeParts DEF Reset, Forget, SessionTyped
<1>2. SessionTyped'
  BY <1>1 DEF Reset, SessionTyped
<1> QED
  BY <1>2, BetweenType, TypeParts DEF Reset, RestTyped

LEMMA SnapshotType == ASSUME TypeOK, Snapshot PROVE TypeOK'
<1>1. saved' \in Session
  BY DEF Snapshot, TypeOK
<1> QED
  BY <1>1, SessionKept, BetweenType DEF Snapshot

LEMMA RestoreType == ASSUME TypeOK, Restore PROVE TypeOK'
<1>1. saved \in Session
  BY DEF Restore, TypeOK
<1>2. SessionTyped'
  BY <1>1 DEF Restore, Session, SessionTyped
<1> QED
  BY <1>1, <1>2, BetweenType DEF Restore

-----------------------------------------------------------------------------
LEMMA CallsType ==
    ASSUME TypeOK, Calls
    PROVE  TypeOK'
<1>1. ASSUME NEW steps \in StepChoices, NEW guided \in GuidedChoices,
             NEW given \in Bindings, DirectStep(steps, guided, given)
      PROVE  TypeOK'
  <2>1. guided \in BOOLEAN /\ given \in SUBSET InputNames
    BY StageAssumption
  <2> QED
    BY <1>1, <2>1, EnterType DEF DirectStep
<1>2. ASSUME NEW steps \in StepChoices, NEW guided \in GuidedChoices,
             NEW given \in Bindings, NEW drained \in BOOLEAN,
             Begin(steps, guided, given, drained)
      PROVE  TypeOK'
  <2>1. guided \in BOOLEAN /\ given \in SUBSET InputNames
    BY StageAssumption
  <2>2. run' \in StageRun
    BY <1>2, <2>1 DEF Begin, StageRun
  <2> QED
    BY <1>2, <2>2, RunType DEF Begin
<1>3. ASSUME Finish PROVE TypeOK'
  <2>1. run' \in StageRun
    BY <1>3, TypeParts DEF Finish, RestTyped, StageRun
  <2> QED
    BY <1>3, <2>1, RunType DEF Finish
<1>4. ASSUME Cancel PROVE TypeOK'
  BY <1>4, RunType DEF Cancel
<1>5. ASSUME RunStep PROVE TypeOK'
  <2>1. run \in StageRun
    BY <1>5, TypeParts DEF RunStep, RestTyped
  <2>2. run' \in StageRun
    BY <1>5, <2>1 DEF RunStep, StageRun
  <2>3. run.steps \in StepChoices /\ run.guided \in BOOLEAN
        /\ run.given \in SUBSET InputNames
    BY <2>1 DEF StageRun
  <2> QED
    BY <1>5, <2>2, <2>3, EnterType DEF RunStep
<1>6. ASSUME Complete PROVE TypeOK'
  BY <1>6, RunType DEF Complete
<1> QED
  BY <1>1, <1>2, <1>3, <1>4, <1>5, <1>6,
     ReleaseType, ResetType, SnapshotType, RestoreType DEF Calls

LEMMA TypeNext ==
    ASSUME IInv, [Next]_vars
    PROVE  TypeOK'
<1>1. TypeOK /\ Counters /\ StepInv
  BY DEF IInv, Counters
<1>2. ASSUME Unguided PROVE TypeOK'
  <2>1. SessionTyped'
    BY <1>1, <1>2, SessionKept DEF Unguided
  <2>2. RestTyped'
    BY <1>1, <1>2, TypeParts, GraphFacts DEF Unguided, OpenWindow, RestTyped
  <2> QED
    BY <2>1, <2>2, TypePartsPrimed
<1>3. CASE Execute
  BY <1>1, <1>2, <1>3, BindType, ComponentType, OpenType, CloseType,
     TransformType, CountType, BindFailsType, FailType, ComponentFailsType
     DEF Execute
<1>4. CASE Calls
  BY <1>1, <1>4, CallsType
<1>5. CASE UNCHANGED vars
  BY <1>1, <1>5, RunType, TypeParts DEF vars, RestTyped
<1> QED
  BY <1>3, <1>4, <1>5 DEF Next

LEMMA CountersNext ==
    ASSUME IInv, [Next]_vars
    PROVE  Counters'
<1>1. TypeOK /\ Counters /\ Len(Order) \in Nat /\ Len(LatentOrder) \in Nat
  BY GraphFacts DEF IInv, Counters
<1>2. failures \in 0..MaxFailures /\ MaxFailures \in Nat
  BY <1>1, BoundsAssumption DEF TypeOK
<1>3. CASE Execute
  <2>1. ASSUME Bind \/ OpenWindow \/ CloseWindow \/ Unguided
        PROVE  Counters'
    BY <1>1, <2>1 DEF Bind, OpenWindow, CloseWindow, Unguided, Counters
  <2>2. ASSUME RunComponent \/ Transform PROVE Counters'
    BY <1>1, <2>2 DEF RunComponent, Transform, Counters
  <2>3. ASSUME Count PROVE Counters'
    BY <1>1, <2>3 DEF Count, Counters
  <2>4. ASSUME BindFails \/ Fail \/ ComponentFails PROVE Counters'
    BY <2>4 DEF BindFails, Fail, ComponentFails, Unwind, Counters
  <2> QED
    BY <1>3, <2>1, <2>2, <2>3, <2>4 DEF Execute
<1>4. CASE Calls
  <2>1. ASSUME NEW steps, NEW guided, NEW given,
               DirectStep(steps, guided, given)
        PROVE  Counters'
    BY <2>1 DEF DirectStep, Enter, WithinBounds, Counters
  <2>2. ASSUME NEW steps, NEW guided, NEW given, NEW drained,
               Begin(steps, guided, given, drained)
        PROVE  Counters'
    BY <2>2 DEF Begin, WithinBounds, stepVars, Counters
  <2>3. ASSUME Finish \/ Cancel \/ Complete PROVE Counters'
    BY <1>1, <2>3 DEF Finish, Cancel, Complete, stepVars, Counters
  <2>4. ASSUME RunStep PROVE Counters'
    BY <1>1, <2>4 DEF RunStep, Enter, Counters
  <2>5. ASSUME Reset \/ Snapshot \/ Restore PROVE Counters'
    BY <1>1, <2>5 DEF Reset, Snapshot, Restore, Between, stepVars, Counters
  <2>6. ASSUME NEW s, ReleaseStage(s) PROVE Counters'
    BY <1>1, <2>6 DEF ReleaseStage, Between, stepVars, Counters
  <2> QED
    BY <1>4, <2>1, <2>2, <2>3, <2>4, <2>5, <2>6 DEF Calls
<1>5. CASE UNCHANGED vars
  BY <1>1, <1>5 DEF vars, stepVars, Counters
<1> QED
  BY <1>3, <1>4, <1>5 DEF Next

-----------------------------------------------------------------------------
(* The scratch of the second pass.                                         *)
LEMMA ScratchKept ==
    ASSUME ScratchInv, UNCHANGED <<scratchVars, saved, window>>,
           window # None => pc' = "pass"
    PROVE  ScratchInv'
BY DEF ScratchInv, scratchVars, Clean

LEMMA ScratchClosed ==
    ASSUME ScratchInv, window' = None, saved' = saved,
           Clean(conditioning', cursors', endpoints')
    PROVE  ScratchInv'
BY DEF ScratchInv, Clean

LEMMA StoreClean ==
    ASSUME ScratchInv, window = None, UNCHANGED <<cursors, endpoints>>,
           NEW given, Store(given)
    PROVE  Clean(conditioning', cursors', endpoints')
BY DEF ScratchInv, Store, Clean

LEMMA RestoredClean ==
    ASSUME ScratchInv, RestoreScratch
    PROVE  Clean(conditioning', cursors', endpoints')
<1>1. CASE window = None
  BY <1>1 DEF ScratchInv, RestoreScratch, scratchVars, Clean
<1>2. CASE window # None
  BY <1>2 DEF ScratchInv, RestoreScratch, Clean
<1> QED
  BY <1>1, <1>2

(* A component of the first pass is conditional by its own input or by one *)
(* of the components it reads.                                             *)
LEMMA MadeClean ==
    ASSUME ScratchInv, window = None, NEW i \in 1..Len(Order),
           InputsAvailable(Order[i])
    PROVE  "conditional" \in Made(Order[i]).from
<1> DEFINE c == Order[i]
<1>1. CASE c \in Conditioned
  <2>1. conditioning = "conditional"
    BY <1>1 DEF ScratchInv, Clean, InputsAvailable
  <2> QED
    BY <1>1, <2>1 DEF Made
<1>2. CASE Feeds[c] # {}
  <2>1. PICK f \in Feeds[c] : TRUE
    BY <1>2
  <2>2. PICK j \in 1..(i - 1) : f = Order[j]
    BY <2>1, FeedsEarlier
  <2>3. f \in Outputs
    BY <2>2, GraphFacts DEF Outputs
  <2>4. "conditional" \in endpoints[f].from
    BY <2>1, <2>3 DEF ScratchInv, Clean, InputsAvailable
  <2> QED
    BY <2>1, <2>4 DEF Made
<1>3. DOMAIN Order = 1..Len(Order)
  BY GraphAssumption, LenProperties
<1> QED
  BY <1>1, <1>2, <1>3, GraphAssumption

LEMMA ScratchInit == Init => ScratchInv
BY NoneAssumption DEF Init, ScratchInv, Clean, Passes

LEMMA ScratchExecute ==
    ASSUME TypeOK, Counters, ScratchInv, Execute
    PROVE  ScratchInv'
<1>1. CASE Bind
  BY <1>1, StoreClean, ScratchClosed, TypeParts DEF Bind, RestTyped
<1>2. CASE BindFails
  BY <1>2, StoreClean, ScratchClosed, TypeParts
     DEF BindFails, Unwind, RestTyped
<1>3. CASE RunComponent
  <2>1. CASE window = None
    <3>1. next \in 1..Len(Order) /\ InputsAvailable(Order[next])
      BY <1>3, GraphFacts DEF RunComponent, Counters
    <3>2. "conditional" \in Made(Order[next]).from
      BY <2>1, <3>1, MadeClean
    <3>3. Clean(conditioning, cursors, endpoints)
      BY <2>1 DEF ScratchInv
    <3>4. Clean(conditioning', cursors', endpoints')
      BY <1>3, <2>1, <3>2, <3>3 DEF RunComponent, Clean
    <3> QED
      BY <1>3, <2>1, <3>4, ScratchClosed DEF RunComponent
  <2>2. CASE window # None
    BY <1>3, <2>2 DEF RunComponent, ScratchInv, Clean
  <2> QED
    BY <2>1, <2>2
<1>4. CASE OpenWindow
  <2>1. Clean(conditioning, cursors, endpoints) /\ PredictionsExist
    BY <1>4 DEF OpenWindow, ScratchInv
  <2>2. /\ window' = [endpoints |-> endpoints, cursors |-> cursors,
                      conditioning |-> conditioning]
        /\ pc' = "pass" /\ saved' = saved
    BY <1>4 DEF OpenWindow
  <2>3. window' # None
    BY <1>4, OpenType, NoneAssumption, TypeParts, <2>2
       DEF SessionTyped, Scratch, OpenWindow
  <2> QED
    BY <2>1, <2>2, <2>3 DEF ScratchInv, PredictionsExist, Clean
<1>5. CASE CloseWindow
  <2>1. Clean(window.conditioning, window.cursors, window.endpoints)
        /\ \A l \in Latents : window.endpoints[l] # None
    BY <1>5 DEF CloseWindow, ScratchInv
  <2>2. \A l \in Latents : "conditional" \in Combined(l).from
    BY <2>1 DEF Combined, Clean, Outputs
  <2>3. Clean(conditioning', cursors', endpoints')
    BY <1>5, <2>1, <2>2 DEF CloseWindow, Clean
  <2> QED
    BY <1>5, <2>3, ScratchClosed DEF CloseWindow
<1>6. CASE Unguided
  <2>1. window = None
    BY <1>6, TypeParts DEF Unguided, RestTyped
  <2> QED
    BY <1>6, <2>1, ScratchKept DEF Unguided, sessionVars, scratchVars
<1>7. CASE Transform
  <2>1. window = None
    BY <1>7, TypeParts DEF Transform, RestTyped
  <2> QED
    BY <1>7, <2>1, ScratchKept DEF Transform
<1>8. CASE Count
  <2>1. window = None
    BY <1>8, TypeParts DEF Count, RestTyped
  <2> QED
    BY <1>8, <2>1, ScratchKept DEF Count
<1>9. CASE Fail
  BY <1>9, RestoredClean, ScratchClosed DEF Fail, Unwind
<1>10. CASE ComponentFails
  BY <1>10, ScratchClosed DEF ComponentFails, Unwind, ScratchInv, Clean
<1> QED
  BY <1>1, <1>2, <1>3, <1>4, <1>5, <1>6, <1>7, <1>8, <1>9, <1>10 DEF Execute

LEMMA ScratchCalls ==
    ASSUME TypeOK, ScratchInv, Calls
    PROVE  ScratchInv'
<1>1. pc = "idle" /\ window = None
  BY TypeParts DEF Calls, DirectStep, Begin, Finish, Cancel, RunStep, Complete,
     ReleaseStage, Reset, Snapshot, Restore, Between, RestTyped
<1>2. Clean(conditioning, cursors, endpoints)
  BY <1>1 DEF ScratchInv
<1>3. ASSUME NEW steps, NEW guided, NEW given,
             DirectStep(steps, guided, given)
      PROVE  ScratchInv'
  BY <1>1, <1>3, ScratchKept DEF DirectStep, Enter, sessionVars, scratchVars
<1>4. ASSUME NEW steps, NEW guided, NEW given, NEW drained,
             Begin(steps, guided, given, drained)
      PROVE  ScratchInv'
  BY <1>1, <1>4, ScratchKept DEF Begin, stepVars, sessionVars, scratchVars
<1>5. ASSUME Finish \/ Cancel \/ Complete PROVE ScratchInv'
  BY <1>1, <1>5, ScratchKept
     DEF Finish, Cancel, Complete, stepVars, sessionVars, scratchVars
<1>6. ASSUME RunStep PROVE ScratchInv'
  BY <1>1, <1>6, ScratchKept DEF RunStep, Enter, sessionVars, scratchVars
<1>7. ASSUME NEW s, ReleaseStage(s) PROVE ScratchInv'
  <2>1. Clean(conditioning', cursors', endpoints')
    BY <1>2, <1>7 DEF ReleaseStage, Clean
  <2> QED
    BY <1>1, <1>7, <2>1, ScratchClosed DEF ReleaseStage, stepVars
<1>8. ASSUME Reset PROVE ScratchInv'
  <2>1. Clean(conditioning', cursors', endpoints')
    BY <1>8, NoneAssumption DEF Reset, Clean, Passes
  <2> QED
    BY <1>1, <1>8, <2>1, ScratchClosed DEF Reset, stepVars
<1>9. ASSUME Snapshot PROVE ScratchInv'
  <2>1. saved' = SessionState /\ UNCHANGED <<scratchVars, window>>
    BY <1>9 DEF Snapshot, sessionVars, scratchVars, stepVars
  <2>2. Clean(saved'.conditioning, saved'.cursors, saved'.endpoints)
    BY <1>2, <2>1 DEF SessionState
  <2> QED
    BY <1>1, <1>2, <2>1, <2>2 DEF ScratchInv, scratchVars, Clean
<1>10. ASSUME Restore PROVE ScratchInv'
  <2>1. Clean(conditioning', cursors', endpoints')
    BY <1>10 DEF Restore, ScratchInv, Clean
  <2> QED
    BY <1>1, <1>10, <2>1, ScratchClosed DEF Restore, stepVars
<1> QED
  BY <1>3, <1>4, <1>5, <1>6, <1>7, <1>8, <1>9, <1>10 DEF Calls

LEMMA ScratchNext ==
    ASSUME IInv, [Next]_vars
    PROVE  ScratchInv'
<1>1. TypeOK /\ Counters /\ ScratchInv
  BY DEF IInv, Counters
<1>2. CASE UNCHANGED vars
  BY <1>1, <1>2, ScratchKept DEF vars, sessionVars, scratchVars, stepVars, ScratchInv
<1> QED
  BY <1>1, <1>2, ScratchExecute, ScratchCalls DEF Next

-----------------------------------------------------------------------------
(* The predictions of a step.                                              *)
LEMMA PredictedAt ==
    ASSUME NEW l \in Latents
    PROVE  \E i \in 1..Len(Order) : Predictor[l] = Order[i]
BY GraphFacts

(* After a pass over all the components every latent has its prediction.   *)
LEMMA PassComplete ==
    ASSUME StepInv, pc = "pass", next \in Nat, next > Len(Order),
           NEW l \in Latents
    PROVE  endpoints[l] = Of({Pass})
<1>1. PICK i \in 1..Len(Order) : Predictor[l] = Order[i]
  BY PredictedAt
<1>2. i \in 1..(next - 1)
  BY GraphFacts
<1> QED
  BY <1>1, <1>2 DEF StepInv

LEMMA MadeOf ==
    ASSUME StepInv, pc = "pass", next \in 1..Len(Order),
           InputsAvailable(Order[next])
    PROVE  Made(Order[next]) = Of({Pass})
<1> DEFINE c == Order[next]
<1>1. c \in Conditioned => conditioning = Pass
  BY DEF StepInv, InputsAvailable
<1>2. \A f \in Feeds[c] : endpoints[f].from = {Pass}
  <2> SUFFICES ASSUME NEW f \in Feeds[c] PROVE endpoints[f].from = {Pass}
    OBVIOUS
  <2>1. PICK j \in 1..(next - 1) : f = Order[j]
    BY FeedsEarlier
  <2> QED
    BY <2>1 DEF StepInv, Of
<1>3. c \in Conditioned \/ Feeds[c] # {}
  BY GraphAssumption, LenProperties
<1>4. (IF c \in Conditioned THEN {conditioning} ELSE {})
          \cup UNION {endpoints[f].from : f \in Feeds[c]} = {Pass}
  BY <1>1, <1>2, <1>3
<1> QED
  BY <1>4 DEF Made, Of

(* A component whose inputs are available has the conditioning of its pass:*)
(* the first component of a pass reads it.                                 *)
LEMMA Conditioning ==
    ASSUME StepInv, pc = "pass", next \in 1..Len(Order),
           InputsAvailable(Order[next])
    PROVE  conditioning = Pass
<1> DEFINE c == Order[next]
<1>1. CASE c \in Conditioned
  BY <1>1 DEF StepInv, InputsAvailable
<1>2. CASE Feeds[c] # {}
  <2>1. PICK f \in Feeds[c] : TRUE
    BY <1>2
  <2>2. PICK j \in 1..(next - 1) : f = Order[j]
    BY <2>1, FeedsEarlier
  <2> QED
    BY <2>2 DEF StepInv
<1>3. DOMAIN Order = 1..Len(Order)
  BY GraphAssumption, LenProperties
<1> QED
  BY <1>1, <1>2, <1>3, GraphAssumption

(* A step that is over, or has not come to its components, has nothing to  *)
(* keep.                                                                   *)
LEMMA StepOver ==
    ASSUME pc' \notin {"pass", "transform"}
    PROVE  StepInv'
BY DEF StepInv

LEMMA StepTransform ==
    ASSUME TypeOK, Counters, StepInv, Transform
    PROVE  StepInv'
<1> DEFINE l == LatentOrder[next]
<1>1. next \in 1..Len(LatentOrder) /\ l \in Latents
  BY GraphFacts DEF Transform, Counters
<1>2. latents' = [latents EXCEPT ![l] = Append(@, Update(l))]
  BY DEF Transform
<1>3. latents \in [Latents -> Seq(Updates)]
  BY TypeParts DEF SessionTyped
<1>4. \A m \in Latents : latents'[m] = <<>> => latents[m] = <<>> /\ m # l
  <2> SUFFICES ASSUME NEW m \in Latents, latents'[m] = <<>>
               PROVE  latents[m] = <<>> /\ m # l
    OBVIOUS
  <2>1. Append(latents[l], Update(l)) # <<>>
    <3>1. latents[l] \in Seq(Updates)
      BY <1>1, <1>3
    <3>2. Update(l) \in Updates
      BY <1>1, IndexType, TypeParts
         DEF Transform, RestTyped, StepInv, Update, Updates, Of, BothPasses, Passes
    <3> QED
      BY <3>1, <3>2, AppendProperties
  <2> QED
    BY <1>1, <1>2, <1>3, <2>1
<1>5. \A i \in 1..next : latents'[LatentOrder[i]] # <<>>
  <2> SUFFICES ASSUME NEW i \in 1..next
               PROVE  latents'[LatentOrder[i]] # <<>>
    OBVIOUS
  <2>1. LatentOrder[i] \in Latents
    BY <1>1, GraphFacts
  <2>2. i # next => latents[LatentOrder[i]] # <<>>
    BY <1>1 DEF Transform, StepInv
  <2> QED
    BY <1>4, <2>1, <2>2
<1>6. UNCHANGED <<endpoints, iterations, call, pc>> /\ next' = next + 1
      /\ pc = "transform"
  BY DEF Transform, scratchVars
<1>7. \A p : Of(p)' = Of(p)
  BY <1>6 DEF Of, Index
<1>8. (1..(next - 1))' = 1..next
  BY <1>1, <1>6
<1> QED
  BY <1>5, <1>6, <1>7, <1>8 DEF StepInv

LEMMA StepComponent ==
    ASSUME TypeOK, Counters, StepInv, RunComponent
    PROVE  StepInv'
<1> DEFINE c == Order[next]
<1>1. next \in 1..Len(Order) /\ pc = "pass" /\ c \in Components
  BY GraphFacts DEF RunComponent, Counters
<1>2. Made(c) = Of({Pass})
  BY <1>1, MadeOf DEF RunComponent
<1>3. \A o \in Outputs : endpoints'[o] =
          IF o = c \/ (o \in Latents /\ Predictor[o] = c)
          THEN Of({Pass}) ELSE endpoints[o]
  BY <1>2 DEF RunComponent
<1>4. UNCHANGED <<iterations, call, window, conditioning, pc>>
      /\ next' = next + 1
  BY DEF RunComponent, latentVars
<1>5. Pass' = Pass /\ \A p : Of(p)' = Of(p)
  BY <1>4 DEF Pass, Of, Index
<1>6. ASSUME NEW i \in 1..next
      PROVE  /\ endpoints'[Order[i]] = Of({Pass})
             /\ \A l \in Latents :
                 Predictor[l] = Order[i] => endpoints'[l] = Of({Pass})
  <2>1. Order[i] \in Outputs
    BY <1>1, GraphFacts DEF Outputs
  <2>2. CASE i = next
    BY <1>3, <2>1, <2>2 DEF Outputs
  <2>3. CASE i # next
    <3>1. i \in 1..(next - 1)
      BY <1>1, <2>3
    <3>2. /\ endpoints[Order[i]] = Of({Pass})
          /\ \A l \in Latents :
              Predictor[l] = Order[i] => endpoints[l] = Of({Pass})
      BY <1>1, <3>1 DEF StepInv
    <3> QED
      BY <1>3, <2>1, <3>2 DEF Outputs
  <2> QED
    BY <2>2, <2>3
<1>7. (1..(next - 1))' = 1..next
  BY <1>1, <1>4
<1>8. pc' = "pass" /\ (conditioning = Pass)'
  <2>1. conditioning = Pass
    BY <1>1, Conditioning DEF RunComponent
  <2> QED
    BY <1>1, <1>4, <1>5, <2>1
<1>9. window # None =>
          \A l \in Latents : window.endpoints[l] = Of({"conditional"})
  BY <1>1 DEF StepInv
<1> QED
  BY <1>4, <1>5, <1>6, <1>7, <1>8, <1>9 DEF StepInv

LEMMA StepBind == ASSUME TypeOK, ScratchInv, Bind PROVE StepInv'
<1>1. window = None /\ conditioning \in {None, "conditional"}
  BY TypeParts DEF Bind, RestTyped, ScratchInv, Clean
<1>2. window' = None /\ conditioning' \in {None, "conditional"}
  BY <1>1 DEF Bind, Store
<1>3. pc' = "pass" /\ next' = 1
  BY DEF Bind
<1> QED
  BY <1>2, <1>3 DEF StepInv, Pass

LEMMA StepOpen == ASSUME TypeOK, Counters, StepInv, OpenWindow PROVE StepInv'
<1>1. window = None /\ pc = "pass" /\ next > Len(Order) /\ next \in Nat
  BY GraphFacts DEF OpenWindow, Counters
<1>2. \A l \in Latents : endpoints[l] = Of({"conditional"})
  BY <1>1, PassComplete DEF Pass
<1>3. UNCHANGED <<iterations, call, pc>> /\ next' = 1
      /\ conditioning' = "unconditional" /\ window'.endpoints = endpoints
  BY DEF OpenWindow, latentVars
<1>4. window' # None
  BY NoneAssumption, TypeParts DEF OpenWindow, SessionTyped, Scratch
<1>5. \A p : Of(p)' = Of(p)
  BY <1>3 DEF Of, Index
<1> QED
  BY <1>1, <1>2, <1>3, <1>4, <1>5 DEF StepInv, Pass

LEMMA StepClose == ASSUME TypeOK, Counters, StepInv, CloseWindow PROVE StepInv'
<1>1. window # None /\ pc = "pass" /\ next > Len(Order) /\ next \in Nat
      /\ call.guided
  BY GraphFacts, TypeParts DEF CloseWindow, Counters, RestTyped
<1>2. ASSUME NEW l \in Latents PROVE Combined(l) = Of(BothPasses)
  <2>1. endpoints[l] = Of({"unconditional"})
    BY <1>1, PassComplete DEF Pass
  <2>2. window.endpoints[l] = Of({"conditional"})
    BY <1>1 DEF StepInv
  <2>3. {"unconditional"} \cup {"conditional"} = BothPasses
    BY DEF BothPasses, Passes
  <2> QED
    BY <2>1, <2>2, <2>3 DEF Combined, Of
<1>3. UNCHANGED <<iterations, call>> /\ pc' = "transform" /\ next' = 1
  BY DEF CloseWindow, latentVars
<1>4. \A p : Of(p)' = Of(p)
  BY <1>3 DEF Of, Index
<1>5. \A l \in Latents : endpoints'[l] = Of(BothPasses)
  BY <1>2 DEF CloseWindow, Outputs
<1> QED
  BY <1>1, <1>3, <1>4, <1>5 DEF StepInv

LEMMA StepUnguided == ASSUME TypeOK, Counters, StepInv, Unguided PROVE StepInv'
<1>1. window = None /\ pc = "pass" /\ next > Len(Order) /\ next \in Nat
      /\ ~call.guided
  BY GraphFacts, TypeParts DEF Unguided, Counters, RestTyped
<1>2. \A l \in Latents : endpoints[l] = Of({"conditional"})
  BY <1>1, PassComplete DEF Pass
<1>3. UNCHANGED <<iterations, call, endpoints>> /\ pc' = "transform"
      /\ next' = 1
  BY DEF Unguided, sessionVars
<1>4. \A p : Of(p)' = Of(p)
  BY <1>3 DEF Of, Index
<1> QED
  BY <1>1, <1>2, <1>3, <1>4 DEF StepInv

LEMMA StepNext ==
    ASSUME IInv, [Next]_vars
    PROVE  StepInv'
<1>1. TypeOK /\ Counters /\ ScratchInv /\ StepInv
  BY DEF IInv, Counters
<1>2. CASE Execute
  <2>1. ASSUME Count \/ BindFails \/ Fail \/ ComponentFails PROVE StepInv'
    BY <2>1, StepOver DEF Count, BindFails, Fail, ComponentFails, Unwind
  <2> QED
    BY <1>1, <1>2, <2>1, StepBind, StepComponent, StepOpen, StepClose,
       StepUnguided, StepTransform DEF Execute
<1>3. CASE Calls
  <2>1. pc' \in {"idle", "entered"}
    BY <1>3 DEF Calls, DirectStep, Begin, Finish, Cancel, RunStep, Complete,
       Enter, ReleaseStage, Reset, Snapshot, Restore, Between, stepVars
  <2> QED
    BY <2>1, StepOver
<1>4. CASE UNCHANGED vars
  <2>1. UNCHANGED <<iterations, call, pc, next, window, conditioning,
                    endpoints, latents>>
    BY <1>4 DEF vars, sessionVars, stepVars
  <2>2. Pass' = Pass /\ \A p : Of(p)' = Of(p)
    BY <2>1 DEF Pass, Of, Index
  <2> QED
    BY <1>1, <2>1, <2>2 DEF StepInv
<1> QED
  BY <1>2, <1>3, <1>4 DEF Next

-----------------------------------------------------------------------------
LEMMA InvariantInit == Init => IInv
BY TypeInit, ScratchInit DEF Init, IInv, Counters, StepInv

LEMMA InvariantNext == IInv /\ [Next]_vars => IInv'
BY TypeNext, CountersNext, ScratchNext, StepNext DEF IInv, Counters

(* The invariant holds of every step of every stage.                       *)
THEOREM StepsInvariant == Spec => []IInv
BY InvariantInit, InvariantNext, PTL DEF Spec

(* Every variable of the stepping keeps its type.                          *)
THEOREM StepsTypeCorrect == Spec => []TypeOK
<1>1. IInv => TypeOK
  BY DEF IInv
<1> QED
  BY <1>1, StepsInvariant, PTL

(* GuidanceScratch: nothing the unconditional pass wrote can be seen once  *)
(* the window is closed, by whichever exit.                                *)
THEOREM ScratchStaysInvisible == Spec => []ScratchIsInvisible
<1>1. IInv => ScratchIsInvisible
  BY NoneAssumption DEF IInv, ScratchInv, ScratchIsInvisible, Clean, Passes
<1> QED
  BY <1>1, StepsInvariant, PTL

(* ApplyConnection: every update of a latent is made from the prediction of*)
(* its own step, at its own index, combined exactly when it is guided.     *)
THEOREM StepsUseTheirPrediction == Spec => UpdatesUseTheirPrediction
<1>1. ASSUME IInv, Transform, NEW l \in Latents, latents'[l] # latents[l]
      PROVE  LET update == Last(latents'[l]) IN
             /\ update.at = update.used
             /\ update.from = IF call.guided THEN BothPasses
                                             ELSE {"conditional"}
  <2> DEFINE m == LatentOrder[next]
  <2>1. TypeOK /\ Counters /\ StepInv
    BY <1>1 DEF IInv, Counters
  <2>2. next \in 1..Len(LatentOrder) /\ m \in Latents
    BY <1>1, <2>1, GraphFacts DEF Transform, Counters
  <2>3. latents' = [latents EXCEPT ![m] = Append(@, Update(m))]
    BY <1>1 DEF Transform
  <2>4. latents \in [Latents -> Seq(Updates)]
    BY <2>1, TypeParts DEF SessionTyped
  <2>5. l = m /\ latents'[l] = Append(latents[l], Update(l))
    BY <1>1, <2>2, <2>3, <2>4
  <2>6. endpoints[l] = Of(IF call.guided THEN BothPasses ELSE {"conditional"})
    BY <1>1, <2>1 DEF Transform, StepInv
  <2>7. Update(l) \in Updates
    BY <1>1, <2>1, <2>6, IndexType, TypeParts
       DEF Transform, RestTyped, Update, Updates, Of, BothPasses, Passes
  <2>8. Last(latents'[l]) = Update(l)
    BY <2>4, <2>5, <2>7, AppendProperties DEF Last
  <2> QED
    BY <2>6, <2>8 DEF Update, Of
<1>2. IInv /\ [Next]_vars =>
        [Transform =>
            \A l \in Latents : latents'[l] # latents[l] =>
                LET update == Last(latents'[l]) IN
                /\ update.at = update.used
                /\ update.from = IF call.guided THEN BothPasses
                                                ELSE {"conditional"}]_vars
  BY <1>1
<1> QED
  BY <1>2, StepsInvariant, PTL DEF Spec, UpdatesUseTheirPrediction

-----------------------------------------------------------------------------
(* The refinement: what the abstract steps see of the session.             *)
From(values) == [o \in Outputs |->
                    IF values[o] = None THEN None ELSE values[o].from]
Lengths(values) == [l \in Latents |-> Len(values[l])]

LEMMA ViewInit == Init => SinglePass!Init
BY EmptySeq DEF Init, SinglePass!Init, SinglePass!Outputs, Outputs, Visible

(* What a stutter of the abstract steps is.                                *)
LEMMA ViewKept ==
    ASSUME UNCHANGED <<iterations, latents, saved>>, Visible' = Visible
    PROVE  UNCHANGED SinglePass!vars
BY DEF SinglePass!vars

LEMMA ViewStore ==
    ASSUME TypeOK, window = None, window' = None,
           UNCHANGED <<latentVars, endpoints, cursors, saved>>,
           NEW given, Store(given)
    PROVE  SinglePass!Next \/ UNCHANGED SinglePass!vars
<1>1. CASE "conditioning" \in given
  <2>1. SinglePass!Condition
    BY <1>1 DEF Store, latentVars, Visible, SinglePass!Condition
  <2> QED
    BY <2>1 DEF SinglePass!Next
<1>2. CASE "conditioning" \notin given
  <2>1. Visible' = Visible
    BY <1>2 DEF Store, Visible
  <2> QED
    BY <2>1, ViewKept DEF latentVars
<1> QED
  BY <1>1, <1>2

LEMMA ViewComponent ==
    ASSUME TypeOK, Counters, StepInv, RunComponent
    PROVE  SinglePass!Next \/ UNCHANGED SinglePass!vars
<1>0. next \in 1..Len(Order) /\ Order[next] \in Components
  BY GraphFacts DEF RunComponent, Counters
<1> PICK c \in Components : c = Order[next]
  BY <1>0
<1>1. pc = "pass" /\ InputsAvailable(Order[next])
  BY DEF RunComponent
<1>2. UNCHANGED <<iterations, latents, saved, window, conditioning>>
  BY DEF RunComponent, latentVars
<1>3. CASE window # None
  BY <1>2, <1>3, ViewKept DEF Visible
<1>4. CASE window = None
  <2>1. conditioning = "conditional"
    BY <1>0, <1>1, <1>4, Conditioning DEF Pass
  <2>2. Made(Order[next]).from = {"conditional"}
    BY <1>0, <1>1, <1>4, MadeOf DEF Pass, Of
  <2>3. Made(Order[next]) # None
    <3>1. Made(Order[next]) \in Endpoint
      <4>1. call # None
        BY <1>1, TypeParts DEF RestTyped
      <4> QED
        BY <1>0, <1>1, <1>4, <4>1, MadeOf, IndexType DEF Of, Pass, Endpoint, Passes
    <3> QED
      BY <3>1, NoneAssumption
  <2>4. endpoints' = [o \in Outputs |->
            IF o = c \/ (o \in Latents /\ Predictor[o] = c)
            THEN Made(Order[next]) ELSE endpoints[o]]
    BY DEF RunComponent
  <2>5. From(endpoints)' = [o \in Outputs |->
            IF o = c \/ (o \in Latents /\ Predictor[o] = c)
            THEN {"conditional"} ELSE From(endpoints)[o]]
    BY <2>2, <2>3, <2>4 DEF From
  <2>6. cursors' \in {cursors, "conditional"}
    BY <1>4 DEF RunComponent
  <2>7. SinglePass!Pass(c)
    BY <1>2, <1>4, <2>1, <2>5, <2>6
       DEF SinglePass!Pass, SinglePass!Outputs, Outputs, Visible, From
  <2> QED
    BY <2>7 DEF SinglePass!Next
<1> QED
  BY <1>3, <1>4

LEMMA ViewClose ==
    ASSUME TypeOK, Counters, StepInv, CloseWindow
    PROVE  SinglePass!Next
<1>1. window # None /\ window' = None /\ pc = "pass"
  BY DEF CloseWindow
<1>2. UNCHANGED <<iterations, latents, saved>>
  BY DEF CloseWindow, latentVars
<1>3. pc' = "transform" /\ call' = call /\ call # None /\ call.guided
  BY TypeParts DEF CloseWindow, RestTyped
<1>4. ASSUME NEW l \in Latents
      PROVE  endpoints'[l] = Of(BothPasses) /\ Of(BothPasses) # None
  <2>1. endpoints'[l] = Of(BothPasses)'
    BY <1>3, StepClose DEF StepInv
  <2>2. Of(BothPasses)' = Of(BothPasses)
    BY <1>2, <1>3 DEF Of, Index
  <2>3. Of(BothPasses) \in Endpoint
    BY <1>3, IndexType DEF Of, Endpoint, BothPasses
  <2> QED
    BY <2>1, <2>2, <2>3, NoneAssumption
<1>5. ASSUME NEW l \in Latents
      PROVE  From(window.endpoints)[l] # None
  <2>1. window.endpoints[l] = Of({"conditional"})
    BY <1>1 DEF StepInv
  <2>2. Of({"conditional"}) \in Endpoint
    BY <1>3, IndexType DEF Of, Endpoint, Passes
  <2>3. {"conditional"} # None
    BY NoneAssumption DEF Passes
  <2> QED
    BY <2>1, <2>2, <2>3, NoneAssumption DEF From, Of, Outputs
<1>6. \A o \in Outputs : endpoints'[o] =
          IF o \in Latents THEN Of(BothPasses) ELSE window.endpoints[o]
  BY <1>4 DEF CloseWindow
<1>7. From(endpoints)' = [o \in Outputs |->
          IF o \in Latents THEN BothPasses ELSE From(window.endpoints)[o]]
  BY <1>4, <1>6 DEF From, Of
<1>8. cursors' = window.cursors /\ conditioning' = window.conditioning
  BY DEF CloseWindow
<1>9. Visible.endpoints = window.endpoints /\ Visible.cursors = window.cursors
      /\ Visible.conditioning = window.conditioning
      /\ (Visible.endpoints)' = endpoints' /\ (Visible.cursors)' = cursors'
      /\ (Visible.conditioning)' = conditioning'
  BY <1>1 DEF Visible
<1>10. SinglePass!Guide
  BY <1>2, <1>5, <1>7, <1>8, <1>9
     DEF SinglePass!Guide, SinglePass!Outputs, SinglePass!Both, BothPasses,
         Passes, Outputs, From
<1> QED
  BY <1>10 DEF SinglePass!Next

LEMMA ViewTransform ==
    ASSUME TypeOK, Counters, StepInv, Transform
    PROVE  SinglePass!Next
<1>0. next \in 1..Len(LatentOrder) /\ LatentOrder[next] \in Latents
  BY GraphFacts DEF Transform, Counters
<1> PICK l \in Latents : l = LatentOrder[next]
  BY <1>0
<1>1. call # None /\ pc = "transform" /\ window = None
  BY TypeParts DEF Transform, RestTyped
<1>2. endpoints[l] = Of(IF call.guided THEN BothPasses ELSE {"conditional"})
  BY <1>1 DEF StepInv
<1>3. endpoints[l] \in Endpoint
  BY <1>1, <1>2, IndexType DEF Of, Endpoint, BothPasses, Passes
<1>4. From(endpoints)[l] \in {{"conditional"}, BothPasses}
  BY <1>1, <1>2, <1>3, NoneAssumption DEF From, Of, Outputs
<1>5. Lengths(latents)' = [Lengths(latents) EXCEPT ![l] = @ + 1]
  <2>1. latents' = [latents EXCEPT ![LatentOrder[next]] =
                        Append(@, Update(LatentOrder[next]))]
        /\ latents \in [Latents -> Seq(Updates)]
    BY TypeParts DEF Transform, SessionTyped
  <2>2. Update(LatentOrder[next]) \in Updates
    BY <1>1, <1>2, IndexType
       DEF Update, Updates, Of, BothPasses, Passes
  <2>3. Len(Append(latents[l], Update(LatentOrder[next])))
          = Len(latents[l]) + 1
    BY <1>1, <2>1, <2>2, AppendProperties
  <2> QED
    BY <1>1, <2>1, <2>3 DEF Lengths
<1>6. UNCHANGED <<iterations, saved, endpoints, cursors, conditioning, window>>
  BY DEF Transform, scratchVars
<1>7. SinglePass!Advance(l)
  BY <1>1, <1>4, <1>5, <1>6
     DEF SinglePass!Advance, SinglePass!Both, BothPasses, Passes, Visible,
         From, Lengths
<1> QED
  BY <1>7 DEF SinglePass!Next

LEMMA ViewCount ==
    ASSUME TypeOK, Counters, StepInv, Count
    PROVE  SinglePass!Next
<1>1. pc = "transform" /\ window = None /\ next > Len(LatentOrder)
      /\ next \in Nat
  BY GraphFacts, TypeParts DEF Count, Counters, RestTyped
<1>2. ASSUME NEW l \in Latents PROVE Lengths(latents)[l] > 0
  <2>1. PICK i \in 1..Len(LatentOrder) : l = LatentOrder[i]
    BY GraphAssumption, LenProperties DEF Latents, Range
  <2>2. latents[l] # <<>> /\ latents[l] \in Seq(Updates)
    BY <1>1, <2>1, TypeParts, GraphFacts DEF StepInv, SessionTyped
  <2> QED
    BY <2>2, EmptySeq, LenProperties DEF Lengths
<1>3. UNCHANGED <<latents, saved, endpoints, cursors, conditioning, window>>
      /\ iterations' = iterations + 1
  BY DEF Count, scratchVars
<1>4. SinglePass!Count
  BY <1>1, <1>2, <1>3 DEF SinglePass!Count, Visible, Lengths
<1> QED
  BY <1>4 DEF SinglePass!Next

LEMMA ViewComponentFails ==
    ASSUME TypeOK, Counters, StepInv, ComponentFails
    PROVE  SinglePass!Next
<1>1. next \in 1..Len(Order) /\ InputsAvailable(Order[next])
      /\ window = None /\ pc = "pass"
  BY GraphFacts DEF ComponentFails, Counters
<1>2. conditioning = "conditional"
  BY <1>1, Conditioning DEF Pass
<1>3. UNCHANGED <<iterations, latents, saved, endpoints, conditioning>>
      /\ cursors' = "conditional" /\ window' = None
  BY DEF ComponentFails, Unwind, latentVars
<1>4. SinglePass!Condition
  BY <1>1, <1>2, <1>3 DEF SinglePass!Condition, Visible
<1> QED
  BY <1>4 DEF SinglePass!Next

LEMMA ViewRelease ==
    ASSUME TypeOK, NEW s \in Stages, ReleaseStage(s)
    PROVE  SinglePass!Next
<1> DEFINE gone == Released(s)
<1>1. window = None /\ window' = None
  BY TypeParts DEF ReleaseStage, Between, stepVars, RestTyped
<1>2. gone \in SUBSET Latents
  BY DEF Released
<1>3. Lengths(latents)' = [l \in Latents |->
          IF l \in gone THEN 0 ELSE Lengths(latents)[l]]
  BY EmptySeq DEF ReleaseStage, Forget, Lengths
<1>4. From(endpoints)' = [o \in Outputs |->
          IF o \in gone THEN None ELSE From(endpoints)[o]]
  BY DEF ReleaseStage, From
<1>5. UNCHANGED <<conditioning, cursors, saved>>
      /\ iterations' = IF gone = {} THEN iterations ELSE 0
  BY DEF ReleaseStage
<1>6. SinglePass!Forget(gone)
  BY <1>1, <1>3, <1>4, <1>5
     DEF SinglePass!Forget, SinglePass!Outputs, Outputs, Visible, From, Lengths
<1> QED
  BY <1>2, <1>6 DEF SinglePass!Next, Released

LEMMA ViewReset == ASSUME TypeOK, Reset PROVE SinglePass!Next
<1>1. window = None /\ window' = None
  BY TypeParts DEF Reset, Between, stepVars, RestTyped
<1>2. Lengths(latents)' = [l \in Latents |-> 0]
  BY EmptySeq DEF Reset, Forget, Lengths
<1>3. From(endpoints)' = [o \in Outputs |-> None]
  BY DEF Reset, From
<1>4. iterations' = 0 /\ cursors' = None /\ conditioning' = None
      /\ saved' = saved
  BY DEF Reset
<1>5. SinglePass!Clear
  BY <1>1, <1>2, <1>3, <1>4
     DEF SinglePass!Clear, SinglePass!Outputs, Outputs, Visible, From, Lengths
<1> QED
  BY <1>5 DEF SinglePass!Next

LEMMA ViewSnapshot == ASSUME TypeOK, Snapshot PROVE SinglePass!Next
<1>1. window = None /\ window' = None
  BY TypeParts DEF Snapshot, Between, stepVars, RestTyped
<1>2. UNCHANGED sessionVars /\ saved' = SessionState
  BY DEF Snapshot
<1>3. saved' # None
  <2>1. saved' \in Session
    BY <1>2 DEF TypeOK
  <2> QED
    BY <2>1, NoneAssumption
<1>4. SinglePass!Save
  BY <1>1, <1>2, <1>3
     DEF SinglePass!Save, sessionVars, SessionState, Visible
<1> QED
  BY <1>4 DEF SinglePass!Next

LEMMA ViewRestore == ASSUME TypeOK, Restore PROVE SinglePass!Next
<1>1. window = None /\ window' = None /\ saved # None /\ saved' = saved
  BY TypeParts DEF Restore, Between, stepVars, RestTyped
<1>2. /\ iterations' = saved.iterations /\ latents' = saved.latents
      /\ conditioning' = saved.conditioning /\ cursors' = saved.cursors
      /\ endpoints' = saved.endpoints
  BY DEF Restore
<1>3. SinglePass!Rewind
  BY <1>1, <1>2 DEF SinglePass!Rewind, Visible
<1> QED
  BY <1>3 DEF SinglePass!Next

LEMMA ViewExecute ==
    ASSUME TypeOK, Counters, StepInv, Execute
    PROVE  SinglePass!Next \/ UNCHANGED SinglePass!vars
<1>1. CASE Bind
  BY <1>1, ViewStore, TypeParts DEF Bind, RestTyped
<1>2. CASE BindFails
  BY <1>2, ViewStore, TypeParts DEF BindFails, Unwind, RestTyped
<1>3. CASE OpenWindow
  <2>1. window' # None
    BY <1>3, NoneAssumption, TypeParts DEF OpenWindow, SessionTyped, Scratch
  <2>2. Visible' = Visible
    BY <1>3, <2>1 DEF OpenWindow, Visible
  <2> QED
    BY <1>3, <2>2, ViewKept DEF OpenWindow, latentVars
<1>4. CASE Unguided
  <2>1. Visible' = Visible
    BY <1>4 DEF Unguided, sessionVars, Visible
  <2> QED
    BY <1>4, <2>1, ViewKept DEF Unguided, sessionVars
<1>5. CASE Fail
  <2>1. CASE window = None
    BY <1>5, <2>1, ViewKept
       DEF Fail, Unwind, RestoreScratch, scratchVars, Visible, latentVars
  <2>2. CASE window # None
    <3>1. window \in Scratch
      BY <2>2, TypeParts DEF RestTyped
    <3>2. Visible' = Visible
      BY <1>5, <2>2, <3>1 DEF Fail, Unwind, RestoreScratch, Visible, Scratch
    <3> QED
      BY <1>5, <3>2, ViewKept DEF Fail, latentVars
  <2> QED
    BY <2>1, <2>2
<1> QED
  BY <1>1, <1>2, <1>3, <1>4, <1>5, ViewComponent, ViewClose, ViewTransform,
     ViewCount, ViewComponentFails DEF Execute

(* A call that starts or ends a run is not seen.                           *)
LEMMA ViewRun ==
    ASSUME UNCHANGED <<sessionVars, saved, window>>
    PROVE  UNCHANGED SinglePass!vars
<1>1. Visible' = Visible
  BY DEF sessionVars, Visible
<1> QED
  BY <1>1, ViewKept DEF sessionVars

LEMMA ViewCalls ==
    ASSUME TypeOK, Calls
    PROVE  SinglePass!Next \/ UNCHANGED SinglePass!vars
<1>1. ASSUME NEW steps, NEW guided, NEW given,
             DirectStep(steps, guided, given)
      PROVE  UNCHANGED SinglePass!vars
  BY <1>1, ViewRun DEF DirectStep, Enter
<1>2. ASSUME NEW steps, NEW guided, NEW given, NEW drained,
             Begin(steps, guided, given, drained)
      PROVE  UNCHANGED SinglePass!vars
  BY <1>2, ViewRun DEF Begin, stepVars
<1>3. ASSUME Finish \/ Cancel \/ Complete PROVE UNCHANGED SinglePass!vars
  BY <1>3, ViewRun DEF Finish, Cancel, Complete, stepVars
<1>4. ASSUME RunStep PROVE UNCHANGED SinglePass!vars
  BY <1>4, ViewRun DEF RunStep, Enter
<1> QED
  BY <1>1, <1>2, <1>3, <1>4, ViewRelease, ViewReset, ViewSnapshot,
     ViewRestore DEF Calls

(* Guided steps implement steps of a single pass: the second pass and its  *)
(* window are internal, whatever interrupts them.                          *)
THEOREM RefinesSinglePass == Spec => ImplementsSinglePass
<1>1. Init => SinglePass!Init
  BY ViewInit
<1>2. IInv /\ [Next]_vars => [SinglePass!Next]_SinglePass!vars
  <2> SUFFICES ASSUME IInv, [Next]_vars
               PROVE  SinglePass!Next \/ UNCHANGED SinglePass!vars
    OBVIOUS
  <2>1. TypeOK /\ Counters /\ StepInv
    BY DEF IInv, Counters
  <2>2. CASE UNCHANGED vars
    BY <2>2, ViewRun DEF vars, stepVars
  <2> QED
    BY <2>1, <2>2, ViewExecute, ViewCalls DEF Next
<1> QED
  BY <1>1, <1>2, StepsInvariant, PTL DEF Spec, ImplementsSinglePass, SinglePass!Spec
-----------------------------------------------------------------------------
(* Latents and their histories.  What a step does to them: nothing, or one *)
(* of the following.                                                       *)
Kept ==
    /\ UNCHANGED <<latentVars, saved, failures>>
    /\ Advanced' = Advanced

Undone ==
    /\ UNCHANGED <<latentVars, saved>>
    /\ failures' = failures + 1
    /\ Advanced' = {}

Counted ==
    /\ UNCHANGED <<latents, histories, saved, failures>>
    /\ iterations' = iterations + 1
    /\ Advanced = Latents /\ Advanced' = {}

AdvancedBy(l, u) ==
    /\ UNCHANGED <<iterations, saved, failures>>
    /\ l \notin Advanced /\ Advanced' = Advanced \cup {l}
    /\ latents' = [latents EXCEPT ![l] = Append(@, u)]
    /\ histories' = IF Multistep THEN [histories EXCEPT ![l] = AdvanceHistory(l, u)]
                                 ELSE histories

Forgotten(gone) ==
    /\ UNCHANGED <<saved, failures>>
    /\ Forget(gone)
    /\ \/ gone = {} /\ iterations' = iterations
       \/ (gone # {} \/ Latents = {}) /\ iterations' = 0
    /\ Advanced = {} /\ Advanced' = {}

Saved ==
    /\ UNCHANGED <<latentVars, failures>>
    /\ saved' = SessionState
    /\ Advanced = {} /\ Advanced' = {}

Restored ==
    /\ UNCHANGED <<saved, failures>>
    /\ saved # None /\ iterations' = saved.iterations
    /\ latents' = saved.latents /\ histories' = saved.histories
    /\ Advanced = {} /\ Advanced' = {}

(* No latent is listed twice.                                              *)
LEMMA NextNotAdvanced ==
    ASSUME Counters, pc = "transform", next <= Len(LatentOrder)
    PROVE  LatentOrder[next] \in Latents \ Advanced
<1>1. next \in 1..Len(LatentOrder)
  BY GraphFacts DEF Counters
<1>2. \A i \in 1..(next - 1) : LatentOrder[i] # LatentOrder[next]
  <2>1. \A i \in 1..Len(LatentOrder), j \in 1..Len(LatentOrder) :
            LatentOrder[i] = LatentOrder[j] => i = j
    BY GraphAssumption, LenProperties DEF IsInjective
  <2> QED
    BY <1>1, <2>1, GraphFacts
<1> QED
  BY <1>1, <1>2, GraphFacts DEF Advanced

LEMMA TransformAdvances ==
    ASSUME TypeOK, Counters, StepInv, Transform
    PROVE  /\ LatentOrder[next] \in Latents
           /\ Update(LatentOrder[next]) \in Updates
           /\ call # None
           /\ AdvancedBy(LatentOrder[next], Update(LatentOrder[next]))
<1> DEFINE l == LatentOrder[next]
<1>1. /\ next \in 1..Len(LatentOrder) /\ l \in Latents
      /\ call # None /\ pc = "transform" /\ next' = next + 1 /\ pc' = pc
  BY GraphFacts, TypeParts DEF Transform, Counters, RestTyped
<1>2. Update(l) \in Updates
  <2>1. endpoints[l] = Of(IF call.guided THEN BothPasses ELSE {"conditional"})
    BY <1>1 DEF StepInv
  <2> QED
    BY <1>1, <2>1, IndexType DEF Update, Updates, Of, BothPasses, Passes
<1>4. l \notin Advanced
  BY <1>1, NextNotAdvanced
<1>5. Advanced' = Advanced \cup {l}
  <2>1. (next' - 1) = next /\ 1..next = 1..(next - 1) \cup {next}
    BY <1>1, GraphFacts
  <2>2. Advanced' = {LatentOrder[i] : i \in 1..next}
    BY <1>1, <2>1 DEF Advanced
  <2> QED
    BY <1>1, <2>1, <2>2 DEF Advanced
<1> QED
  BY <1>1, <1>2, <1>4, <1>5 DEF Transform, AdvancedBy

LEMMA CountCounts ==
    ASSUME TypeOK, Counters, Count
    PROVE  Counted
<1>1. pc = "transform" /\ next = Len(LatentOrder) + 1 /\ pc' = "idle"
  BY GraphFacts DEF Count, Counters
<1>2. Advanced = {LatentOrder[i] : i \in 1..Len(LatentOrder)}
  BY <1>1, GraphFacts DEF Advanced
<1>3. Latents = {LatentOrder[i] : i \in 1..Len(LatentOrder)}
  BY GraphAssumption, LenProperties DEF Latents, Range
<1> QED
  BY <1>1, <1>2, <1>3 DEF Count, Counted, Advanced

(* Every step is one of these.                                             *)
LEMMA Effects ==
    ASSUME IInv, [Next]_vars
    PROVE  \/ Kept \/ Undone \/ Counted \/ Saved \/ Restored
           \/ \E gone \in SUBSET Latents : Forgotten(gone)
           \/ Transform
<1>1. TypeOK /\ Counters
  BY DEF IInv, Counters
<1>2. CASE UNCHANGED vars
  BY <1>2 DEF vars, sessionVars, stepVars, latentVars, Kept, Advanced
<1>3. CASE Execute
  <2>1. CASE Bind \/ RunComponent \/ OpenWindow
    <3>1. pc # "transform" /\ pc' # "transform"
      BY <2>1 DEF Bind, RunComponent, OpenWindow
    <3> QED
      BY <2>1, <3>1 DEF Bind, RunComponent, OpenWindow, Kept, Advanced
  <2>2. CASE CloseWindow \/ Unguided
    <3>1. pc # "transform" /\ next' = 1
      BY <2>2 DEF CloseWindow, Unguided
    <3>2. Advanced = {} /\ Advanced' = {}
      BY <3>1 DEF Advanced
    <3> QED
      BY <2>2, <3>2 DEF CloseWindow, Unguided, Kept, sessionVars, latentVars
  <2>3. CASE BindFails \/ Fail \/ ComponentFails
    <3>1. pc' = "idle"
      BY <2>3 DEF BindFails, Fail, ComponentFails, Unwind
    <3> QED
      BY <2>3, <3>1 DEF BindFails, Fail, ComponentFails, Unwind, Undone, Advanced
  <2>4. CASE Count
    BY <1>1, <2>4, CountCounts
  <2> QED
    BY <1>3, <2>1, <2>2, <2>3, <2>4 DEF Execute
<1>4. CASE Calls
  <2>1. pc = "idle" /\ pc' # "transform"
    BY <1>4 DEF Calls, DirectStep, Begin, Finish, Cancel, RunStep, Complete, Enter,
       ReleaseStage, Reset, Snapshot, Restore, Between, stepVars
  <2>2. Advanced = {} /\ Advanced' = {}
    BY <2>1 DEF Advanced
  <2>3. ASSUME NEW s \in Stages, ReleaseStage(s)
        PROVE  \E gone \in SUBSET Latents : Forgotten(gone)
    <3>1. Released(s) \in SUBSET Latents /\ Forgotten(Released(s))
      BY <2>2, <2>3 DEF ReleaseStage, Released, Forgotten
    <3> QED
      BY <3>1
  <2>4. ASSUME Reset PROVE \E gone \in SUBSET Latents : Forgotten(gone)
    <3>1. Forgotten(Latents)
      BY <2>2, <2>4 DEF Reset, Forgotten
    <3> QED
      BY <3>1
  <2>5. ASSUME Snapshot PROVE Saved
    BY <2>2, <2>5 DEF Snapshot, Saved, sessionVars, latentVars
  <2>6. ASSUME Restore PROVE Restored
    BY <2>2, <2>6 DEF Restore, Restored
  <2>7. ASSUME Finish \/ Cancel \/ Complete \/ RunStep PROVE Kept
    BY <2>2, <2>7 DEF Finish, Cancel, Complete, RunStep, Enter, Kept, sessionVars,
       latentVars
  <2>8. ASSUME NEW steps, NEW guided, NEW given,
               DirectStep(steps, guided, given)
        PROVE  Kept
    BY <2>2, <2>8 DEF DirectStep, Enter, Kept, sessionVars, latentVars
  <2>9. ASSUME NEW steps, NEW guided, NEW given, NEW drained,
               Begin(steps, guided, given, drained)
        PROVE  Kept
    BY <2>2, <2>9 DEF Begin, Kept, sessionVars, latentVars
  <2> QED
    BY <1>4, <2>3, <2>4, <2>5, <2>6, <2>7, <2>8, <2>9 DEF Calls
<1> QED
  BY <1>2, <1>3, <1>4 DEF Next

(* A suffix, entry by entry.                                               *)
LEMMA SuffixIs ==
    ASSUME NEW s \in Seq(Updates), NEW t \in Seq(Updates)
    PROVE  IsSuffix(s, t) <=>
               /\ Len(s) <= Len(t)
               /\ \A i \in 1..Len(s) : s[i] = t[Len(t) - Len(s) + i]
<1> DEFINE r == Reverse(s)
           q == Reverse(t)
           m == Len(s)
           n == Len(t)
<1>1. m \in Nat /\ n \in Nat /\ DOMAIN s = 1..m /\ DOMAIN t = 1..n
  BY LenProperties
<1>2. /\ \A i \in 1..m : s[i] \in Updates
      /\ \A i \in 1..n : t[i] \in Updates
  BY <1>1, ElementOfSeq
<1>3. /\ r \in Seq(Updates) /\ Len(r) = m /\ \A i \in 1..m : r[i] = s[m - i + 1]
      /\ q \in Seq(Updates) /\ Len(q) = n /\ \A i \in 1..n : q[i] = t[n - i + 1]
  <2>1. \A i \in 1..m : m - i + 1 \in 1..m
    BY <1>1
  <2>2. \A i \in 1..n : n - i + 1 \in 1..n
    BY <1>1
  <2>3. r = [i \in 1..m |-> s[m - i + 1]] /\ q = [i \in 1..n |-> t[n - i + 1]]
    BY DEF Reverse
  <2>4. r \in [1..m -> Updates] /\ q \in [1..n -> Updates]
    BY <1>2, <2>1, <2>2, <2>3
  <2>5. r \in Seq(Updates) /\ q \in Seq(Updates)
    <3>1. \A k \in Nat : [1..k -> Updates] \subseteq Seq(Updates)
      BY SeqDef, Zenon
    <3> HIDE DEF r, q
    <3> QED
      BY <1>1, <2>4, <3>1
  <2>6. Len(r) = m /\ Len(q) = n
    <3>1. DOMAIN r = 1..m /\ DOMAIN q = 1..n
      BY <2>3
    <3>2. DOMAIN r = 1..Len(r) /\ DOMAIN q = 1..Len(q) /\ Len(r) \in Nat /\ Len(q) \in Nat
      BY <2>5, LenProperties
    <3> HIDE DEF r, q
    <3> QED
      BY <1>1, <3>1, <3>2
  <2> QED
    BY <2>3, <2>5, <2>6
<1> HIDE DEF r, q
<1>4. IsSuffix(s, t) <=> m <= n /\ SubSeq(r, 1, m) = SubSeq(q, 1, m)
  BY <1>3 DEF IsSuffix, IsPrefix, r, q
<1>5. SUFFICES ASSUME m <= n
               PROVE  SubSeq(r, 1, m) = SubSeq(q, 1, m) <=>
                          \A i \in 1..m : s[i] = t[n - m + i]
  BY <1>4
<1>6. SubSeq(r, 1, m) = SubSeq(q, 1, m) <=> \A i \in 1..m : r[i] = q[i]
  BY <1>1, <1>3, <1>5
<1>7. \A i \in 1..m : r[i] = q[i] <=> s[m - i + 1] = t[n - i + 1]
  BY <1>1, <1>3, <1>5
<1>8. ASSUME \A i \in 1..m : r[i] = q[i], NEW i \in 1..m
      PROVE  s[i] = t[n - m + i]
  <2>1. m - i + 1 \in 1..m /\ m - (m - i + 1) + 1 = i /\ n - (m - i + 1) + 1 = n - m + i
    BY <1>1
  <2> QED
    BY <1>7, <1>8, <2>1
<1>9. ASSUME \A i \in 1..m : s[i] = t[n - m + i], NEW i \in 1..m
      PROVE  r[i] = q[i]
  <2>1. m - i + 1 \in 1..m /\ n - m + (m - i + 1) = n - i + 1
    BY <1>1
  <2> QED
    BY <1>7, <1>9, <2>1
<1> QED
  BY <1>6, <1>8, <1>9

(* KeptOutputs keeps the last outputs, the new one among them.             *)
LEMMA KeptOutputsAre ==
    ASSUME TypeOK, NEW l \in Latents, NEW u \in Updates,
           HistoryBefore(l).lower = Len(HistoryBefore(l).outputs)
    PROVE  LET h    == HistoryBefore(l)
               kept == KeptOutputs(l, u)
           IN  /\ kept \in Seq(Updates)
               /\ Len(kept) = Smaller(h.lower + 1, SolverOrder)
               /\ Len(kept) \in 1..(Len(h.outputs) + 1)
               /\ kept[Len(kept)] = u
               /\ \A i \in 1..(Len(kept) - 1) :
                    kept[i] = h.outputs[Len(h.outputs) + 1 - Len(kept) + i]
<1> DEFINE h == HistoryBefore(l)
           old == h.outputs
           n == Len(old)
           all == Append(old, u)
           k == Smaller(SolverOrder, n + 1)
<1>1. old \in Seq(Updates) /\ n \in Nat /\ h.lower = n
  BY HistoryBeforeType, LenProperties DEF History
<1>2. /\ all \in Seq(Updates) /\ Len(all) = n + 1 /\ all[n + 1] = u
      /\ \A i \in 1..n : all[i] = old[i]
  BY <1>1, AppendProperties
<1>3. k \in 1..(n + 1) /\ k = Smaller(h.lower + 1, SolverOrder)
  BY <1>1, SchedulerAssumption DEF Smaller
<1>4. KeptOutputs(l, u) = SubSeq(all, n + 2 - k, n + 1)
  <2>1. KeptOutputs(l, u) = SubSeq(all, Len(all) + 1 - Smaller(SolverOrder, Len(all)),
                                   Len(all))
    BY DEF KeptOutputs
  <2>2. (n + 1) + 1 - k = n + 2 - k
    BY <1>1, <1>3
  <2> HIDE DEF all
  <2> QED
    BY <1>2, <2>1, <2>2
<1> DEFINE kept == KeptOutputs(l, u)
<1> HIDE DEF h, old, n, all, k, kept
<1>5. /\ kept \in Seq(Updates) /\ Len(kept) = k
      /\ \A i \in 1..k : kept[i] = all[n + 1 - k + i]
  <2>1. n + 2 - k \in 1..(Len(all) + 1) /\ n + 1 \in 0..Len(all)
    BY <1>1, <1>2, <1>3
  <2>2. /\ kept \in Seq(Updates)
        /\ Len(kept) = IF n + 2 - k <= n + 1 THEN (n + 1) - (n + 2 - k) + 1 ELSE 0
        /\ \A i \in 1..((n + 1) - (n + 2 - k) + 1) : kept[i] = all[n + 2 - k + i - 1]
    BY <1>2, <1>4, <2>1, SubSeqProperties DEF kept
  <2>3. n + 2 - k <= n + 1 /\ (n + 1) - (n + 2 - k) + 1 = k
    BY <1>1, <1>3
  <2>4. \A i \in 1..k : n + 2 - k + i - 1 = n + 1 - k + i
    BY <1>1, <1>3
  <2> QED
    BY <2>2, <2>3, <2>4
<1>6. kept[k] = u
  BY <1>1, <1>2, <1>3, <1>5
<1>7. ASSUME NEW i \in 1..(k - 1)
      PROVE  kept[i] = old[n + 1 - k + i]
  <2>1. i \in 1..k /\ n + 1 - k + i \in 1..n
    BY <1>1, <1>3
  <2> QED
    BY <1>2, <1>5, <2>1
<1> QED
  BY <1>1, <1>3, <1>5, <1>6, <1>7 DEF h, old, n, kept

(* A latent that is advanced is followed by its history.                   *)
LEMMA FollowsAdvanced ==
    ASSUME TypeOK, call # None, NEW l \in Latents, NEW u \in Updates,
           Follows(histories[l], latents[l])
    PROVE  Follows(AdvanceHistory(l, u), Append(latents[l], u))
<1> DEFINE h == HistoryBefore(l)
           old == h.outputs
           n == Len(old)
           value == latents[l]
           v == Len(value)
           kept == KeptOutputs(l, u)
           k == Len(kept)
           new == Append(value, u)
<1>1. old \in Seq(Updates) /\ n \in Nat /\ h.lower \in 0..2 /\ h.previous \in 1..2
  BY HistoryBeforeType, LenProperties DEF History
<1>2. value \in Seq(Updates) /\ v \in Nat
  BY TypeParts, LenProperties DEF SessionTyped
<1>3. /\ h.lower = n
      /\ n <= v /\ \A i \in 1..n : old[i] = value[v - n + i]
  <2>1. CASE Index = 0
    <3>1. h = EmptyHistory
      BY <2>1 DEF HistoryBefore
    <3>2. old = <<>> /\ h.lower = 0 /\ n = 0
      BY <3>1, EmptySeq DEF EmptyHistory
    <3> QED
      BY <1>2, <3>2
  <2>2. CASE Index # 0
    <3>1. h = histories[l]
      BY <2>2 DEF HistoryBefore
    <3>2. IsSuffix(old, value) /\ h.lower = n
      BY <3>1 DEF Follows
    <3> HIDE DEF old, value, h
    <3> QED
      BY <1>1, <1>2, <3>2, SuffixIs
  <2> QED
    BY <2>1, <2>2
<1>4. /\ kept \in Seq(Updates)
      /\ k = Smaller(h.lower + 1, SolverOrder)
      /\ k \in 1..(n + 1)
      /\ kept[k] = u
      /\ \A i \in 1..(k - 1) : kept[i] = old[n + 1 - k + i]
  BY <1>3, KeptOutputsAre
<1>5. /\ new \in Seq(Updates) /\ Len(new) = v + 1 /\ new[v + 1] = u
      /\ \A i \in 1..v : new[i] = value[i]
  BY <1>2, AppendProperties
<1>6. SolverStepOrder(l) \in 1..k
  <2>1. Index \in Nat /\ Index < call.steps /\ call.steps \in Nat
    BY IndexType
  <2> QED
    BY <1>1, <1>4, <2>1, SchedulerAssumption DEF SolverStepOrder, Smaller
<1>7. /\ AdvanceHistory(l, u).outputs = kept
      /\ AdvanceHistory(l, u).lower = k
      /\ AdvanceHistory(l, u).previous = SolverStepOrder(l)
  BY <1>4 DEF AdvanceHistory
<1> HIDE DEF h, old, n, value, v, kept, k, new
<1>8. ASSUME NEW i \in 1..k PROVE kept[i] = new[v + 1 - k + i]
  <2>1. CASE i = k
    BY <1>2, <1>4, <1>5, <2>1
  <2>2. CASE i # k
    <3>3. n \in Nat /\ v \in Nat /\ n <= v /\ k \in Nat /\ k <= n + 1
      BY <1>1, <1>2, <1>3, <1>4
    <3>1. i \in 1..(k - 1) /\ n + 1 - k + i \in 1..n /\ v + 1 - k + i \in 1..v
      BY <2>2, <3>3
    <3>2. v - n + (n + 1 - k + i) = v + 1 - k + i
      BY <1>1, <1>2, <1>4
    <3> QED
      BY <1>3, <1>4, <1>5, <3>1, <3>2
  <2> QED
    BY <2>1, <2>2
<1>9. k <= v + 1
  BY <1>1, <1>2, <1>3, <1>4
<1>10. IsSuffix(kept, new)
  <2>1. Len(kept) = k /\ Len(new) = v + 1
    BY <1>5 DEF k
  <2>2. /\ Len(kept) <= Len(new)
        /\ \A i \in 1..Len(kept) : kept[i] = new[Len(new) - Len(kept) + i]
    BY <1>2, <1>4, <1>8, <1>9, <2>1
  <2> QED
    BY <1>4, <1>5, <2>2, SuffixIs
<1>11. kept # <<>> /\ new # <<>>
  <2>1. Len(kept) # 0 /\ Len(new) # 0
    BY <1>2, <1>4, <1>5 DEF k
  <2> QED
    BY <2>1, EmptySeq
<1> QED
  BY <1>6, <1>7, <1>10, <1>11 DEF Follows, new, value, k

LEMMA FollowsEmpty == Follows(EmptyHistory, <<>>)
<1>1. <<>> \in Seq(Updates) /\ Len(<<>>) = 0
  BY EmptySeq
<1> DEFINE none == <<>>
<1>2. IsSuffix(none, none)
  <2>1. none \in Seq(Updates) /\ Len(none) = 0
    BY <1>1
  <2> HIDE DEF none
  <2>2. /\ Len(none) <= Len(none)
        /\ \A i \in 1..Len(none) : none[i] = none[Len(none) - Len(none) + i]
    BY <2>1
  <2> QED
    BY <2>1, <2>2, SuffixIs
<1> QED
  BY <1>1, <1>2 DEF Follows, EmptyHistory

LEMMA HistoryInit == Init => HistoryInv
BY FollowsEmpty DEF Init, HistoryInv, HistoryFollowsLatent

LEMMA HistoryNext ==
    ASSUME IInv, HistoryInv, [Next]_vars
    PROVE  HistoryInv'
<1> SUFFICES ASSUME Multistep PROVE HistoryInv'
  BY DEF HistoryInv, HistoryFollowsLatent
<1>1. TypeOK /\ Counters /\ StepInv
  BY DEF IInv, Counters
<1>2. /\ \A l \in Latents : Follows(histories[l], latents[l])
      /\ saved # None =>
            \A l \in Latents : Follows(saved.histories[l], saved.latents[l])
  BY DEF HistoryInv, HistoryFollowsLatent
<1> DEFINE Goal ==
        /\ \A l \in Latents : Follows(histories'[l], latents'[l])
        /\ saved' # None =>
            \A l \in Latents : Follows(saved'.histories[l], saved'.latents[l])
<1>3. SUFFICES Goal
  BY DEF HistoryInv, HistoryFollowsLatent, Follows
<1>4. CASE Kept \/ Undone \/ Counted
  <2>1. UNCHANGED <<latents, histories, saved>>
    BY <1>4 DEF Kept, Undone, Counted, latentVars
  <2> QED
    BY <1>2, <2>1
<1>5. CASE Saved
  <2>1. UNCHANGED <<latents, histories>> /\ saved' = SessionState
    BY <1>5 DEF Saved, latentVars
  <2> QED
    BY <1>2, <2>1 DEF SessionState
<1>6. CASE Restored
  BY <1>2, <1>6 DEF Restored
<1>7. ASSUME NEW gone \in SUBSET Latents, Forgotten(gone) PROVE Goal
  BY <1>2, <1>7, FollowsEmpty DEF Forgotten, Forget
<1>8. CASE Transform
  <2> DEFINE m == LatentOrder[next]
             u == Update(m)
  <2>1. m \in Latents /\ u \in Updates /\ call # None /\ AdvancedBy(m, u)
    BY <1>1, <1>8, TransformAdvances
  <2> HIDE DEF m, u
  <2>2. Follows(AdvanceHistory(m, u), Append(latents[m], u))
    BY <1>1, <1>2, <2>1, FollowsAdvanced
  <2>3. latents \in [Latents -> Seq(Updates)] /\ histories \in [Latents -> History]
    BY <1>1, TypeParts DEF SessionTyped
  <2>4. /\ saved' = saved
        /\ latents'[m] = Append(latents[m], u) /\ histories'[m] = AdvanceHistory(m, u)
        /\ \A l \in Latents \ {m} : latents'[l] = latents[l] /\ histories'[l] = histories[l]
    BY <2>1, <2>3 DEF AdvancedBy
  <2> QED
    BY <1>2, <2>2, <2>4
<1> QED
  BY <1>4, <1>5, <1>6, <1>7, <1>8, Effects

LEMMA HistoryAlways == Spec => []HistoryInv
<1>1. Init => HistoryInv
  BY HistoryInit
<1>2. IInv /\ HistoryInv /\ [Next]_vars => HistoryInv'
  BY HistoryNext
<1> QED
  BY <1>1, <1>2, StepsInvariant, PTL DEF Spec

(* The history UniPC corrects and predicts with is always the one of the   *)
(* latent it is applied to, as long as the latent has received updates.    *)
(* (UniPCStep, ReleaseStage, Reset, Restore)                               *)
THEOREM HistoriesFollowLatents == Spec => []HistoryFollowsLatent
<1>1. HistoryInv => HistoryFollowsLatent
  BY DEF HistoryInv
<1> QED
  BY <1>1, HistoryAlways, PTL

-----------------------------------------------------------------------------
(* How many updates a latent has.                                          *)
LEMMA UpdatesInit == Init => UpdatesInv
<1> SUFFICES ASSUME Init PROVE UpdatesInv
  OBVIOUS
<1>1. /\ iterations = 0 /\ failures = 0 /\ saved = None
      /\ \A l \in Latents : Len(latents[l]) = 0 /\ Due(l) = 0
  BY EmptySeq DEF Init, Due, Advanced
<1> QED
  BY <1>1 DEF UpdatesInv

LEMMA UpdatesNext ==
    ASSUME IInv, UpdatesInv, [Next]_vars
    PROVE  UpdatesInv'
<1>1. TypeOK /\ Counters /\ StepInv
  BY DEF IInv, Counters
<1>2. /\ iterations \in Nat /\ failures \in Nat
      /\ latents \in [Latents -> Seq(Updates)]
      /\ \A l \in Latents : Len(latents[l]) \in Nat /\ Due(l) \in {iterations, iterations + 1}
  <2>1. /\ iterations \in Nat /\ failures \in Nat /\ latents \in [Latents -> Seq(Updates)]
    BY <1>1, BoundsAssumption, TypeParts DEF SessionTyped, RestTyped
  <2>2. \A l \in Latents : Len(latents[l]) \in Nat
    BY <2>1, LenProperties
  <2> QED
    BY <2>1, <2>2 DEF Due
<1>3. /\ \A l \in Latents : Due(l) <= Len(latents[l])
      /\ Latents # {} => \E l \in Latents : Len(latents[l]) <= Due(l) + failures
  BY DEF UpdatesInv
<1>4. saved # None =>
        /\ saved.iterations \in Nat
        /\ \A l \in Latents : saved.iterations <= Len(saved.latents[l])
        /\ Latents # {} => \E l \in Latents :
              Len(saved.latents[l]) \in Nat
              /\ Len(saved.latents[l]) <= saved.iterations + failures
  <2> SUFFICES ASSUME saved # None
               PROVE  /\ saved.iterations \in Nat
                      /\ \A l \in Latents : saved.iterations <= Len(saved.latents[l])
                      /\ Latents # {} => \E l \in Latents :
                            Len(saved.latents[l]) \in Nat
                            /\ Len(saved.latents[l]) <= saved.iterations + failures
    OBVIOUS
  <2>1. saved.iterations \in Nat /\ saved.latents \in [Latents -> Seq(Updates)]
    BY <1>1, TypeParts DEF RestTyped, Session
  <2>2. \A l \in Latents : Len(saved.latents[l]) \in Nat
    BY <2>1, LenProperties
  <2> QED
    BY <2>1, <2>2 DEF UpdatesInv
<1> DEFINE Now ==
              /\ \A l \in Latents : Due(l)' <= Len(latents'[l])
              /\ Latents # {} =>
                    \E l \in Latents : Len(latents'[l]) <= Due(l)' + failures'
           Then ==
              saved' # None =>
                /\ \A l \in Latents : saved'.iterations <= Len(saved'.latents[l])
                /\ Latents # {} => \E l \in Latents :
                    Len(saved'.latents[l]) <= saved'.iterations + failures'
<1>5. SUFFICES Now /\ Then
  BY DEF UpdatesInv
<1>6. ASSUME saved' = saved, failures' \in {failures, failures + 1}
      PROVE  Then
  BY <1>2, <1>4, <1>6
<1>7. CASE Kept
  <2>1. UNCHANGED <<latents, saved, failures>> /\ \A l \in Latents : Due(l)' = Due(l)
    BY <1>7 DEF Kept, latentVars, Due
  <2> QED
    BY <1>3, <1>6, <2>1
<1>8. CASE Undone
  <2>1. /\ UNCHANGED <<latents, saved>> /\ failures' = failures + 1
        /\ \A l \in Latents : Due(l)' = iterations
    BY <1>2, <1>8 DEF Undone, latentVars, Due
  <2>2. \A l \in Latents : Due(l)' <= Len(latents'[l])
    BY <1>2, <1>3, <2>1
  <2>3. ASSUME Latents # {}
        PROVE  \E l \in Latents : Len(latents'[l]) <= Due(l)' + failures'
    <3>1. PICK l \in Latents : Len(latents[l]) <= Due(l) + failures
      BY <1>3, <2>3
    <3>2. Len(latents[l]) <= iterations + 1 + failures
      BY <1>2, <3>1
    <3> QED
      BY <1>2, <2>1, <3>2
  <2> QED
    BY <1>6, <2>1, <2>2, <2>3
<1>9. CASE Counted
  <2>1. /\ UNCHANGED <<latents, saved, failures>>
        /\ \A l \in Latents : Due(l)' = iterations + 1 /\ Due(l) = iterations + 1
    BY <1>2, <1>9 DEF Counted, Due
  <2> QED
    BY <1>3, <1>6, <2>1
<1>10. CASE Saved
  <2>1. /\ UNCHANGED <<latents, failures>> /\ saved' = SessionState
        /\ \A l \in Latents : Due(l)' = iterations /\ Due(l) = iterations
    BY <1>2, <1>10 DEF Saved, latentVars, Due
  <2>2. saved'.iterations = iterations /\ saved'.latents = latents
    BY <2>1 DEF SessionState
  <2> QED
    BY <1>3, <2>1, <2>2
<1>11. CASE Restored
  <2>1. /\ saved # None /\ saved' = saved /\ failures' = failures
        /\ latents' = saved.latents /\ \A l \in Latents : Due(l)' = saved.iterations
    BY <1>4, <1>11 DEF Restored, Due
  <2> QED
    BY <1>4, <1>6, <2>1
<1>12. ASSUME NEW gone \in SUBSET Latents, Forgotten(gone)
       PROVE  Now /\ Then
  <2>1. /\ saved' = saved /\ failures' = failures
        /\ \A l \in Latents : /\ latents'[l] = IF l \in gone THEN <<>> ELSE latents[l]
                              /\ Due(l)' = iterations' /\ Due(l) = iterations
    BY <1>2, <1>12 DEF Forgotten, Forget, Due
  <2>2. Len(<<>>) = 0
    BY EmptySeq
  <2>3. CASE gone = {} /\ iterations' = iterations
    BY <1>3, <1>6, <2>1, <2>3
  <2>4. CASE (gone # {} \/ Latents = {}) /\ iterations' = 0
    <3>1. \A l \in Latents : Due(l)' <= Len(latents'[l])
      BY <1>2, <2>1, <2>2, <2>4
    <3>2. ASSUME Latents # {}
          PROVE  \E l \in Latents : Len(latents'[l]) <= Due(l)' + failures'
      <4>1. PICK l \in gone : TRUE
        BY <2>4, <3>2
      <4>2. l \in Latents /\ Len(latents'[l]) = 0 /\ Due(l)' = 0
        BY <2>1, <2>2, <2>4
      <4> QED
        BY <1>2, <2>1, <4>2
    <3> QED
      BY <1>6, <2>1, <3>1, <3>2
  <2> QED
    BY <1>12, <2>3, <2>4 DEF Forgotten
<1>13. CASE Transform
  <2>1. PICK m \in Latents, u \in Updates : AdvancedBy(m, u)
    BY <1>1, <1>13, TransformAdvances
  <2>2. Len(latents'[m]) = Len(latents[m]) + 1
    <3>1. latents'[m] = Append(latents[m], u) /\ latents[m] \in Seq(Updates)
      BY <1>2, <2>1 DEF AdvancedBy
    <3> QED
      BY <2>1, <3>1, AppendProperties
  <2>3. \A l \in Latents \ {m} : latents'[l] = latents[l] /\ Due(l)' = Due(l)
    <3>1. \A l \in Latents \ {m} : latents'[l] = latents[l]
      BY <1>2, <2>1 DEF AdvancedBy
    <3>2. \A l \in Latents \ {m} : Due(l)' = Due(l)
      BY <2>1 DEF AdvancedBy, Due
    <3> QED
      BY <3>1, <3>2
  <2>4. Due(m) = iterations /\ Due(m)' = iterations + 1
    BY <1>2, <2>1 DEF AdvancedBy, Due
  <2>5. \A l \in Latents :
            \/ Len(latents'[l]) = Len(latents[l]) /\ Due(l)' = Due(l)
            \/ Len(latents'[l]) = Len(latents[l]) + 1 /\ Due(l)' = Due(l) + 1
    <3> SUFFICES ASSUME NEW l \in Latents
                 PROVE  \/ Len(latents'[l]) = Len(latents[l]) /\ Due(l)' = Due(l)
                        \/ Len(latents'[l]) = Len(latents[l]) + 1 /\ Due(l)' = Due(l) + 1
      OBVIOUS
    <3>1. CASE l = m
      BY <2>2, <2>4, <3>1
    <3>2. CASE l # m
      BY <2>3, <3>2
    <3> QED
      BY <3>1, <3>2
  <2>6. saved' = saved /\ failures' = failures
    BY <2>1 DEF AdvancedBy
  <2>7. Now
    <3> HIDE DEF Due
    <3>1. \A l \in Latents : Due(l) \in Nat
      BY <1>2
    <3> QED
      BY <1>2, <1>3, <2>5, <2>6, <3>1
  <2> QED
    BY <1>6, <2>6, <2>7
<1> QED
  BY <1>7, <1>8, <1>9, <1>10, <1>11, <1>12, <1>13, Effects

LEMMA UpdatesAlways == Spec => []UpdatesInv
<1>1. Init => UpdatesInv
  BY UpdatesInit
<1>2. IInv /\ UpdatesInv /\ [Next]_vars => UpdatesInv'
  BY UpdatesNext
<1> QED
  BY <1>1, <1>2, StepsInvariant, PTL DEF Spec

(* Wherever a step stops, an iteration that counts advanced every latent,  *)
(* and some latent received no more than one update more per failure.      *)
(* (StepStage, ReleaseStage, Restore)                                      *)
THEOREM UpdatesAreAccountedFor == Spec => []UpdatesAccountedFor
<1>1. IInv /\ UpdatesInv => UpdatesAccountedFor
  <2> SUFFICES ASSUME IInv, UpdatesInv, pc = "idle"
               PROVE  /\ \A l \in Latents : iterations <= Len(latents[l])
                      /\ Latents # {} => \E l \in Latents :
                            Len(latents[l]) <= iterations + failures
    BY DEF UpdatesAccountedFor
  <2>1. \A l \in Latents : Due(l) = iterations
    <3>1. iterations \in Nat
      BY TypeParts DEF IInv, SessionTyped
    <3> QED
      BY <3>1 DEF Due, Advanced
  <2> QED
    BY <2>1 DEF UpdatesInv
<1> QED
  BY <1>1, StepsInvariant, UpdatesAlways, PTL

-----------------------------------------------------------------------------
(* How many outputs a history has, as long as nothing fails.               *)
LEMMA ScheduleInit == Init => ScheduleInv
<1>1. Init => /\ saved = None
              /\ \A l \in Latents : Due(l) = 0
  BY DEF Init, Due, Advanced
<1> QED
  BY <1>1 DEF ScheduleInv

(* The history of a latent grows by one output; at index zero, it has one. *)
LEMMA HistoryGrows ==
    ASSUME TypeOK, call # None, NEW l \in Latents, NEW u \in Updates,
           Follows(histories[l], latents[l])
    PROVE  /\ Len(AdvanceHistory(l, u).outputs) \in Nat
           /\ Len(AdvanceHistory(l, u).outputs) <= Len(histories[l].outputs) + 1
           /\ iterations = 0 => Len(AdvanceHistory(l, u).outputs) = 1
<1> DEFINE h == HistoryBefore(l)
<1>1. h \in History /\ histories[l] \in History
  BY HistoryBeforeType, TypeParts DEF SessionTyped
<1>2. Len(h.outputs) \in Nat /\ Len(histories[l].outputs) \in Nat
  BY <1>1, LenProperties DEF History
<1>3. /\ Index = 0 => h.lower = 0 /\ Len(h.outputs) = 0
      /\ Index # 0 => h = histories[l]
  BY EmptySeq DEF HistoryBefore, EmptyHistory
<1>4. h.lower = Len(h.outputs)
  BY <1>3 DEF Follows
<1>5. Len(KeptOutputs(l, u)) \in 1..(Len(h.outputs) + 1)
  BY <1>4, KeptOutputsAre
<1>6. iterations = 0 => Index = 0
  <2>1. call.steps \in Nat \ {0}
    BY IndexType
  <2> QED
    BY <2>1 DEF Index, Smaller
<1>7. AdvanceHistory(l, u).outputs = KeptOutputs(l, u)
  BY DEF AdvanceHistory
<1> DEFINE old == Len(h.outputs)
           was == Len(histories[l].outputs)
           k == Len(KeptOutputs(l, u))
<1>10. /\ old \in Nat /\ was \in Nat /\ k \in 1..(old + 1)
       /\ Index = 0 => old = 0
       /\ Index # 0 => old = was
  BY <1>2, <1>3, <1>5
<1> HIDE DEF h, old, was, k
<1>8. CASE Index = 0
  <2>1. k = 1 /\ k <= was + 1
    BY <1>8, <1>10
  <2> QED
    BY <1>7, <2>1 DEF k, was
<1>9. CASE Index # 0
  <2>1. k \in Nat /\ k <= was + 1
    BY <1>9, <1>10
  <2> QED
    BY <1>6, <1>7, <1>9, <2>1 DEF k, was
<1> QED
  BY <1>8, <1>9

LEMMA ScheduleNext ==
    ASSUME IInv, HistoryInv, ScheduleInv, [Next]_vars
    PROVE  ScheduleInv'
<1>1. TypeOK /\ Counters /\ StepInv
  BY DEF IInv, Counters
<1>2. /\ iterations \in Nat /\ failures \in Nat
      /\ latents \in [Latents -> Seq(Updates)] /\ histories \in [Latents -> History]
      /\ \A l \in Latents : Due(l) \in {iterations, iterations + 1}
  <2>1. /\ iterations \in Nat /\ failures \in Nat
        /\ latents \in [Latents -> Seq(Updates)] /\ histories \in [Latents -> History]
    BY <1>1, BoundsAssumption, TypeParts DEF SessionTyped, RestTyped
  <2> QED
    BY <2>1 DEF Due
<1> DEFINE Now ==
              \A l \in Latents : Due(l)' = 0 \/ Len(histories'[l].outputs) <= Due(l)'
           Then ==
              saved' # None =>
                \/ saved'.iterations = 0
                \/ \A l \in Latents : Len(saved'.histories[l].outputs) <= saved'.iterations
<1>3. SUFFICES ASSUME Multistep, failures' = 0 PROVE Now /\ Then
  BY DEF ScheduleInv
<1>4. Multistep /\ (failures' = failures => failures = 0)
  BY <1>3
<1>5. Multistep /\ failures = 0 =>
        /\ \A l \in Latents : Due(l) = 0 \/ Len(histories[l].outputs) <= Due(l)
        /\ saved # None =>
            \/ saved.iterations = 0
            \/ \A l \in Latents : Len(saved.histories[l].outputs) <= saved.iterations
  BY DEF ScheduleInv
<1>6. CASE Kept \/ Counted
  <2>1. UNCHANGED <<histories, saved, failures>>
    BY <1>6 DEF Kept, Counted, latentVars
  <2>2. \A l \in Latents : Due(l)' = Due(l)
    <3>1. CASE Kept
      BY <3>1 DEF Kept, latentVars, Due
    <3>2. CASE Counted
      BY <1>2, <3>2 DEF Counted, Due
    <3> QED
      BY <1>6, <3>1, <3>2
  <2> QED
    BY <1>4, <1>5, <2>1, <2>2
<1>7. CASE Undone
  BY <1>2, <1>3, <1>7 DEF Undone
<1>8. CASE Saved
  <2>1. /\ UNCHANGED <<histories, failures>> /\ saved' = SessionState
        /\ \A l \in Latents : Due(l)' = iterations /\ Due(l) = iterations
    BY <1>2, <1>8 DEF Saved, latentVars, Due
  <2>2. saved'.iterations = iterations /\ saved'.histories = histories
    BY <2>1 DEF SessionState
  <2> QED
    BY <1>4, <1>5, <2>1, <2>2
<1>9. CASE Restored
  <2>1. saved # None => saved.iterations \in Nat
    BY <1>1, TypeParts DEF RestTyped, Session
  <2>2. /\ saved # None /\ saved' = saved /\ failures' = failures
        /\ histories' = saved.histories /\ \A l \in Latents : Due(l)' = saved.iterations
    BY <1>9, <2>1 DEF Restored, Due
  <2> QED
    BY <1>4, <1>5, <2>2
<1>10. ASSUME NEW gone \in SUBSET Latents, Forgotten(gone)
       PROVE  Now /\ Then
  <2>1. /\ saved' = saved /\ failures' = failures
        /\ \A l \in Latents :
              /\ histories'[l] = IF l \in gone THEN EmptyHistory ELSE histories[l]
              /\ Due(l)' = iterations' /\ Due(l) = iterations
        /\ (gone = {} /\ iterations' = iterations) \/ iterations' = 0
    BY <1>2, <1>10 DEF Forgotten, Forget, Due
  <2> QED
    BY <1>4, <1>5, <2>1
<1>11. CASE Transform
  <2>1. PICK m \in Latents, u \in Updates : AdvancedBy(m, u) /\ call # None
    BY <1>1, <1>11, TransformAdvances
  <2>2. /\ saved' = saved /\ failures' = failures
        /\ \A l \in Latents \ {m} : Due(l)' = Due(l)
    BY <2>1 DEF AdvancedBy, Due
  <2>3. Due(m) = iterations /\ Due(m)' = iterations + 1
    BY <1>2, <2>1 DEF AdvancedBy, Due
  <2>4. /\ histories'[m] = AdvanceHistory(m, u)
        /\ \A l \in Latents \ {m} : histories'[l] = histories[l]
    BY <1>2, <2>1, <1>3 DEF AdvancedBy
  <2>5. Follows(histories[m], latents[m])
    BY <1>3 DEF HistoryInv, HistoryFollowsLatent
  <2>6. /\ Len(AdvanceHistory(m, u).outputs) \in Nat
        /\ Len(AdvanceHistory(m, u).outputs) <= Len(histories[m].outputs) + 1
        /\ iterations = 0 => Len(AdvanceHistory(m, u).outputs) = 1
    BY <1>1, <2>1, <2>5, HistoryGrows
  <2>7. Len(histories[m].outputs) \in Nat
    BY <1>2, LenProperties DEF History
  <2>8. Len(histories'[m].outputs) <= Due(m)'
    <3>1. iterations = 0 \/ Len(histories[m].outputs) <= iterations
      BY <1>4, <1>5, <2>2, <2>3
    <3> DEFINE k == Len(AdvanceHistory(m, u).outputs)
               was == Len(histories[m].outputs)
    <3>3. /\ k \in Nat /\ was \in Nat /\ k <= was + 1
          /\ iterations = 0 => k = 1
          /\ iterations = 0 \/ was <= iterations
      BY <2>6, <2>7, <3>1
    <3> HIDE DEF k, was
    <3>2. k <= iterations + 1
      BY <1>2, <3>3
    <3> QED
      BY <2>3, <2>4, <3>2 DEF k
  <2> QED
    BY <1>4, <1>5, <2>2, <2>4, <2>8
<1> QED
  BY <1>6, <1>7, <1>8, <1>9, <1>10, <1>11, Effects

(* As long as no step failed and the stage is not stepped past its last    *)
(* index, UniPC takes logarithms of sigmas of the schedule only.           *)
(* (UniPCStep indexes sigmas with index - 2)                               *)
THEOREM SigmasStayInRange == Spec => []SigmasInRange
<1>1. IInv /\ HistoryInv /\ ScheduleInv => SigmasInRange
  <2> SUFFICES ASSUME IInv, HistoryInv, ScheduleInv, pc = "transform",
                      next <= Len(LatentOrder), failures = 0, iterations < call.steps
               PROVE  SigmasUsed(LatentOrder[next]) \subseteq
                          0..(LastSigma(call.steps) - 1)
    BY DEF SigmasInRange
  <2>1. TypeOK /\ Counters /\ call # None
    BY TypeParts DEF IInv, Counters, RestTyped
  <2>2. PICK l \in Latents \ Advanced : l = LatentOrder[next]
    BY <2>1, NextNotAdvanced
  <2>3. iterations \in Nat /\ call.steps \in Nat /\ Index = iterations
    BY <2>1, IndexType, TypeParts DEF SessionTyped, Index, Smaller
  <2>4. Due(l) = iterations
    BY <2>2, <2>3 DEF Due
  <2> DEFINE outputs == HistoryBefore(l).outputs
  <2>5. outputs \in Seq(Updates) /\ Len(outputs) \in Nat
    BY <2>1, HistoryBeforeType, LenProperties DEF History
  <2>6. Index = 0 => outputs = <<>> /\ Len(outputs) = 0
    BY EmptySeq DEF HistoryBefore, EmptyHistory
  <2>7. \A i \in SigmasUsed(l) :
            \/ i = Index
            \/ Multistep /\ i = Index - 1 /\ outputs # <<>>
            \/ Multistep /\ i = Index - 2 /\ Len(outputs) >= 2
    BY DEF SigmasUsed, Corrects
  <2>8. Multistep => Len(outputs) <= Index
    <3>1. CASE Index = 0
      BY <2>6, <3>1
    <3>2. CASE Index # 0
      BY <2>3, <2>4, <3>2 DEF ScheduleInv, HistoryBefore
    <3> QED
      BY <3>1, <3>2
  <2> HIDE DEF outputs
  <2> QED
    BY <2>2, <2>3, <2>5, <2>6, <2>7, <2>8 DEF LastSigma
<1>2. Init => ScheduleInv
  BY ScheduleInit
<1>3. IInv /\ HistoryInv /\ ScheduleInv /\ [Next]_vars => ScheduleInv'
  BY ScheduleNext
<1> QED
  BY <1>1, <1>2, <1>3, StepsInvariant, HistoryAlways, PTL DEF Spec

=============================================================================
