-------------------------- MODULE DecodeStageProofs --------------------------
(***************************************************************************)
(* Proofs about DecodeStage for any batch, vocabulary, prompts, budgets    *)
(* and number of calls: the types, that positions increase, that finished  *)
(* lanes stay finished, that a run stops when it is done, that the cache   *)
(* follows the conversation and keeps to the maximum sequence length.      *)
(***************************************************************************)
EXTENDS DecodeStage, SequenceTheorems, TLAPS

(* The session's variables and the rest of the type, one by one.           *)
SessionTyped ==
    /\ tokens \in Inputs \cup {None}
    /\ embedded \in Inputs \cup {None}
    /\ cache \in Seq(Entry)
    /\ cursors \in Offsets \cup {None}
    /\ iterations \in Nat

RestTyped ==
    /\ saved # None => saved \in Session
    /\ run # None => run \in StageRun
    /\ pc \in {"idle", "embed", "positions", "decode", "store", "count",
               "sample"}
    /\ pc = "sample" => run # None
    /\ pc \in {"positions", "decode"} => embedded # None
    /\ pc = "decode" => tokens # None /\ (Cursored => cursors # None)
    /\ fresh \in BOOLEAN
    /\ pc \in {"decode", "store"} => positions \in Seq(Positions)
    /\ pc = "store" => present \in Seq(Entry)
    /\ failures \in 0..MaxFailures

LEMMA TypeParts == TypeOK <=> SessionTyped /\ RestTyped
BY DEF TypeOK, SessionTyped, RestTyped, SessionState, Session

LEMMA TypePartsPrimed == TypeOK' <=> SessionTyped' /\ RestTyped'
BY DEF TypeOK, SessionTyped, RestTyped, SessionState, Session

LEMMA InputFacts ==
    ASSUME NEW input \in Inputs
    PROVE  /\ Len(input) \in Nat \ {0}
           /\ DOMAIN input = 1..Len(input)
           /\ \A i \in 1..Len(input) : input[i] \in Columns
BY EmptySeq, LenProperties, ElementOfSeq DEF Inputs

LEMMA PromptsAreInputs == Prompts \subseteq Inputs
BY PromptsAssumption

LEMMA BoundType ==
    ASSUME TypeOK, NEW inputs \in Prompts \cup {None}
    PROVE  Bound(inputs) \in Inputs \cup {None}
BY TypeParts, PromptsAreInputs DEF Bound, SessionTyped

LEMMA ContextType ==
    ASSUME NEW input \in Inputs \cup {None}
    PROVE  ContextLength(input) \in Nat
BY InputFacts DEF ContextLength

LEMMA BudgetType ==
    ASSUME NEW input \in Inputs \cup {None}, NEW requested \in Requests,
           HasBudget(requested, input)
    PROVE  /\ Budget(requested, input) \in Nat \ {0}
           /\ Budget(requested, input) <= MaxSequence - ContextLength(input)
<1>1. ContextLength(input) \in Nat
  BY ContextType
<1>2. requested \in Nat \ {0} /\ MaxSequence \in Nat
  BY OptionsAssumption DEF HasBudget
<1> QED
  BY <1>1, <1>2 DEF HasBudget, Budget, Smaller

LEMMA EverywhereType ==
    ASSUME NEW n \in Nat
    PROVE  Everywhere(n) \in Places /\ \A a \in Axes : Everywhere(n)[a] = n
BY DEF Everywhere, Places

(* Where the tokens of an input lie, and what follows it in space.         *)
LEMMA LayoutType ==
    ASSUME NEW input \in Inputs, NEW l \in Lanes
    PROVE  /\ LayoutOf(input, l).next \in Nat
           /\ \A i \in 1..Len(input) : LayoutOf(input, l).at[i] \in Places
           /\ \A i \in 1..Len(input), a \in Axes \ {"time"} :
                LayoutOf(input, l).at[i][a] < LayoutOf(input, l).next
<1>1. CASE input \in Prompts
  <2>1. LayoutOf(input, l) = Layout[input][l]
    BY <1>1 DEF LayoutOf
  <2> QED
    BY <1>1, <2>1, PromptsAssumption, LayoutAssumption
<1>2. CASE input \notin Prompts
  <2>1. Len(input) \in Nat
    BY InputFacts
  <2>2. /\ LayoutOf(input, l).next = Len(input)
        /\ \A i \in 1..Len(input) : LayoutOf(input, l).at[i] = Everywhere(i - 1)
    BY <1>2 DEF LayoutOf, TextLayout
  <2>3. \A i \in 1..Len(input) : i - 1 \in Nat /\ i - 1 < Len(input)
    BY <2>1
  <2> QED
    BY <2>1, <2>2, <2>3, EverywhereType
<1> QED
  BY <1>1, <1>2

LEMMA ContinuesType ==
    ASSUME TypeOK, NEW l \in Lanes
    PROVE  Continues(l) \in Nat
<1>1. Len(cache) \in Nat
  BY TypeParts, LenProperties DEF SessionTyped
<1>2. cursors # None => cursors[l] \in Nat
  BY TypeParts DEF SessionTyped, Offsets
<1> QED
  BY <1>1, <1>2 DEF Continues

LEMMA PositionType ==
    ASSUME TypeOK, tokens # None, NEW i \in 1..Len(tokens), NEW l \in Lanes
    PROVE  Position(i, l) \in Places
<1>1. tokens \in Inputs
  BY TypeParts DEF SessionTyped
<1>2. i \in Nat \ {0} /\ LayoutOf(tokens, l).at[i] \in Places
  BY <1>1, InputFacts, LayoutType
<1>3. Continues(l) + i - 1 \in Nat
  BY <1>2, ContinuesType
<1> QED
  BY <1>2, <1>3, EverywhereType DEF Position

LEMMA AdvancedType ==
    ASSUME TypeOK, tokens # None
    PROVE  Advanced \in Offsets
<1>1. tokens \in Inputs /\ Len(tokens) \in Nat
  BY TypeParts, InputFacts DEF SessionTyped
<1>2. \A l \in Lanes : LayoutOf(tokens, l).next \in Nat /\ Continues(l) \in Nat
  BY <1>1, LayoutType, ContinuesType
<1> QED
  BY <1>1, <1>2 DEF Advanced, Offsets

LEMMA LeftOffType ==
    ASSUME TypeOK, pc = "decode"
    PROVE  LeftOff \in Offsets
<1>1. Len(cache) + Len(positions) \in Nat
  BY TypeParts, LenProperties DEF SessionTyped, RestTyped
<1>2. Cursored => cursors \in Offsets
  BY TypeParts DEF SessionTyped, RestTyped
<1> QED
  BY <1>1, <1>2 DEF LeftOff, Offsets

LEMMA FirstEosType == Eos # {} => FirstEos \in Eos
BY TokensAssumption DEF FirstEos, Min

LEMMA SubstitutedType ==
    ASSUME NEW sampled \in Samples, run # None, LatchInv
    PROVE  Substituted(sampled) \in Columns
<1>1. Eos \subseteq Tokens /\ sampled \in Columns
  BY TokensAssumption
<1>2. \A l \in run.finished : FirstEos \in Eos
  BY FirstEosType DEF LatchInv
<1> QED
  BY <1>1, <1>2 DEF Substituted, Columns

-----------------------------------------------------------------------------
(* Type correctness, with the failures that are left.                      *)
Underway == run # None \/ pc # "idle" => failures < MaxFailures

LEMMA TypeInit == Init => TypeOK /\ Underway
<1> SUFFICES ASSUME Init PROVE TypeOK /\ Underway
  OBVIOUS
<1>1. SessionTyped
  BY EmptySeq DEF Init, SessionTyped
<1>2. RestTyped
  <2>1. failures \in 0..MaxFailures
    BY BoundsAssumption DEF Init
  <2>2. fresh \in BOOLEAN
    BY DEF Init
  <2> QED
    BY <2>1, <2>2 DEF Init, RestTyped
<1> QED
  BY <1>1, <1>2, TypeParts DEF Init, Underway

LEMMA NewRunType ==
    ASSUME TypeOK, NEW inputs \in Prompts \cup {None},
           NEW requested \in Requests, Begin(inputs, requested)
    PROVE  run' \in StageRun
<1>1. Bound(inputs) \in Inputs \cup {None}
  BY BoundType
<1>2. Budget(requested, Bound(inputs)) \in Nat
  BY <1>1, BudgetType DEF Begin
<1>3. Len(cache) \in Nat
  BY TypeParts, LenProperties DEF SessionTyped
<1>4. <<>> \in Seq(Columns)
  BY EmptySeq
<1>5. (ReusesPrefill(inputs = None) /\ embedded # tokens) \in BOOLEAN
  OBVIOUS
<1> QED
  BY <1>1, <1>2, <1>3, <1>4, <1>5 DEF Begin, StageRun

LEMMA EmittedRunType ==
    ASSUME TypeOK, LatchInv, NEW sampled \in Samples, Emit(sampled)
    PROVE  run' \in StageRun /\ tokens' \in Inputs
<1>1. run # None /\ run \in StageRun
  BY TypeParts DEF RestTyped, Emit
<1> DEFINE new == Substituted(sampled)
<1>2. new \in Columns
  BY <1>1, SubstitutedType
<1>3. Latched(sampled) \subseteq Lanes
  BY <1>1 DEF Latched, StageRun
<1>4. Append(run.generated, new) \in Seq(Columns)
  BY <1>1, <1>2, AppendProperties DEF StageRun
<1>5. tokens' = <<new>>
  BY DEF Emit
<1> HIDE DEF new
<1>6. tokens' \in Inputs
  BY <1>2, <1>5 DEF Inputs
<1>7. (run.stop \/ (Eos # {} /\ Latched(sampled) = Lanes)) \in BOOLEAN
  BY <1>1 DEF StageRun
<1>8. run' = [run EXCEPT !.generated = Append(run.generated, new),
                         !.finished = Latched(sampled),
                         !.stop = run.stop \/ (Eos # {} /\ Latched(sampled) = Lanes)]
  BY DEF Emit, new
<1> QED
  BY <1>1, <1>3, <1>4, <1>6, <1>7, <1>8 DEF StageRun

LEMMA SessionNext ==
    ASSUME TypeOK, LatchInv, Next
    PROVE  SessionTyped'
<1> USE TypeParts
<1>1. SessionTyped /\ RestTyped
  OBVIOUS
<1>2. ASSUME NEW inputs \in Prompts \cup {None}
      PROVE  Bound(inputs) \in Inputs \cup {None}
  BY BoundType
<1>3. CASE \E prompt \in Prompts : PromptStage(prompt) \/ PromptStageFails(prompt)
  BY <1>1, <1>3, PromptsAreInputs DEF PromptStage, PromptStageFails, SessionTyped
<1>4. ASSUME NEW inputs \in Prompts \cup {None}, DirectStep(inputs)
      PROVE  SessionTyped'
  BY <1>1, <1>2, <1>4 DEF DirectStep, Enter, SessionTyped
<1>5. ASSUME NEW inputs \in Prompts \cup {None}, NEW requested \in Requests,
             Begin(inputs, requested) \/ BeginFails(inputs, requested)
      PROVE  SessionTyped'
  BY <1>1, <1>2, <1>5 DEF Begin, BeginFails, SessionTyped
<1>6. CASE RunStep
  <2>1. run.inputs \in Prompts \cup {None}
    BY <1>1, <1>6 DEF RunStep, RestTyped, StageRun
  <2> QED
    BY <1>1, <1>2, <1>6, <2>1 DEF RunStep, Enter, SessionTyped
<1>7. CASE Cancel \/ Complete \/ Snapshot \/ Fail
  BY <1>1, <1>7
  DEF Cancel, Complete, Snapshot, Fail, sessionVars, SessionTyped
<1>8. CASE Embed
  BY <1>1, <1>8 DEF Embed, SessionTyped
<1>9. CASE ResolvePositions
  BY <1>1, <1>9, AdvancedType DEF ResolvePositions, SessionTyped
<1>10. CASE Decode
  BY <1>1, <1>10 DEF Decode, sessionVars, SessionTyped
<1>11. CASE Store \/ Count
  BY <1>1, <1>11 DEF Store, Count, SessionTyped, RestTyped
<1>12. ASSUME NEW sampled \in Samples, Emit(sampled)
       PROVE  SessionTyped'
  BY <1>1, <1>12, EmittedRunType DEF Emit, SessionTyped
<1>13. CASE ReleaseStage \/ Reset
  <2>1. cache' = <<>> /\ cursors' = None /\ iterations' = 0
    BY <1>13 DEF ReleaseStage, Reset
  <2>2. tokens' \in Inputs \cup {None} /\ embedded' \in Inputs \cup {None}
    BY <1>1, <1>13 DEF ReleaseStage, Reset, SessionTyped
  <2> QED
    BY <2>1, <2>2, EmptySeq DEF SessionTyped
<1>14. CASE Restore
  BY <1>1, <1>14 DEF Restore, RestTyped, Session, SessionTyped
<1> QED
  BY <1>3, <1>4, <1>5, <1>6, <1>7, <1>8, <1>9, <1>10, <1>11, <1>12, <1>13,
     <1>14 DEF Next, Execute, Calls

LEMMA NewPositions ==
    ASSUME TypeOK, ResolvePositions
    PROVE  positions' \in Seq(Positions) /\ Len(positions') = Len(tokens)
<1>1. tokens \in Inputs /\ Len(tokens) \in Nat
  BY TypeParts, InputFacts DEF SessionTyped, ResolvePositions
<1>2. \A i \in 1..Len(tokens) : [l \in Lanes |-> Position(i, l)] \in Positions
  BY PositionType DEF ResolvePositions, Positions
<1> QED
  BY <1>1, <1>2 DEF ResolvePositions

(* What the decoder returned: the columns it read and the ones of the step.*)
LEMMA NewPresent ==
    ASSUME TypeOK, Decode
    PROVE  /\ present' \in Seq(Entry)
           /\ Len(cache) \in Nat /\ Len(positions) \in Nat \ {0}
           /\ Len(present') = Len(cache) + Len(positions)
           /\ \A i \in 1..Len(cache) : present'[i] = cache[i]
           /\ \A i \in 1..Len(positions) : present'[Len(cache) + i] =
                  [token |-> embedded[i], position |-> positions[i],
                   after |-> Len(cache), next |-> LeftOff]
<1>1. cache \in Seq(Entry) /\ Len(cache) \in Nat
  BY TypeParts, LenProperties DEF SessionTyped
<1>2. embedded \in Inputs /\ positions \in Seq(Positions)
  BY TypeParts DEF SessionTyped, RestTyped, Decode
<1>3. Len(positions) \in Nat \ {0} /\ Len(embedded) = Len(positions)
  BY <1>2, InputFacts DEF Decode
<1> DEFINE new == [i \in 1..Len(positions) |->
                      [token |-> embedded[i], position |-> positions[i],
                       after |-> Len(cache), next |-> LeftOff]]
<1>4. \A i \in 1..Len(positions) : embedded[i] \in Columns /\ positions[i] \in Positions
  BY <1>2, <1>3, InputFacts, ElementOfSeq
<1>5. new \in Seq(Entry) /\ Len(new) = Len(positions)
  <2>1. LeftOff \in Offsets
    BY LeftOffType DEF Decode
  <2> QED
    BY <1>1, <1>3, <1>4, <2>1 DEF Entry
<1>6. present' = cache \o new
  BY DEF Decode
<1>7. \A i \in 1..Len(positions) : new[i] =
          [token |-> embedded[i], position |-> positions[i],
           after |-> Len(cache), next |-> LeftOff]
  OBVIOUS
<1> HIDE DEF new
<1>8. /\ cache \o new \in Seq(Entry)
      /\ Len(cache \o new) = Len(cache) + Len(new)
      /\ \A i \in 1..(Len(cache) + Len(new)) : (cache \o new)[i] =
             IF i <= Len(cache) THEN cache[i] ELSE new[i - Len(cache)]
  BY <1>1, <1>5, ConcatProperties
<1>9. /\ \A i \in 1..Len(cache) : present'[i] = cache[i]
      /\ \A i \in 1..Len(positions) : present'[Len(cache) + i] = new[i]
  BY <1>1, <1>3, <1>5, <1>6, <1>8
<1> QED
  BY <1>1, <1>3, <1>5, <1>6, <1>7, <1>8, <1>9

LEMMA RestNext ==
    ASSUME TypeOK, Underway, LatchInv, Next
    PROVE  RestTyped' /\ Underway'
<1> USE BoundsAssumption
<1>1. SessionTyped /\ RestTyped
  BY TypeParts
<1>2. CASE \E prompt \in Prompts : PromptStage(prompt) \/ PromptStageFails(prompt)
  BY <1>1, <1>2 DEF PromptStage, PromptStageFails, stepVars, RestTyped,
     Underway, Between, WithinBounds
<1>3. ASSUME NEW inputs \in Prompts \cup {None}, DirectStep(inputs)
      PROVE  RestTyped' /\ Underway'
  BY <1>1, <1>3 DEF DirectStep, Enter, RestTyped, Underway, WithinBounds
<1>4. ASSUME NEW inputs \in Prompts \cup {None}, NEW requested \in Requests,
             Begin(inputs, requested)
      PROVE  RestTyped' /\ Underway'
  BY <1>1, <1>4, NewRunType
  DEF Begin, stepVars, RestTyped, Underway, Between, WithinBounds
<1>5. ASSUME NEW inputs \in Prompts \cup {None}, NEW requested \in Requests,
             BeginFails(inputs, requested)
      PROVE  RestTyped' /\ Underway'
  BY <1>1, <1>5
  DEF BeginFails, stepVars, RestTyped, Underway, Between, WithinBounds
<1>6. CASE RunStep
  <2>1. run' \in StageRun
    BY <1>1, <1>6 DEF RunStep, RestTyped, StageRun
  <2> QED
    BY <1>1, <1>6, <2>1 DEF RunStep, Enter, RestTyped, Underway
<1>7. CASE Cancel \/ Complete
  BY <1>1, <1>7 DEF Cancel, Complete, stepVars, RestTyped, Underway
<1>8. CASE Fail
  <2>1. failures' \in 0..MaxFailures
    BY <1>1, <1>8 DEF Fail, RestTyped, Underway
  <2>2. fresh' \in BOOLEAN
    BY <1>8 DEF Fail, Rest
  <2> QED
    BY <1>1, <1>8, <2>1, <2>2 DEF Fail, RestTyped, Underway
<1>9. CASE Embed
  BY <1>1, <1>9 DEF Embed, ReusesPrefill, RestTyped, Underway
<1>10. CASE ResolvePositions
  <2>1. Cursored => cursors' # None
    BY <1>10, AdvancedType, NoneAssumption DEF ResolvePositions
  <2> QED
    BY <1>1, <1>10, <2>1, NewPositions DEF ResolvePositions, RestTyped, Underway
<1>11. CASE Decode
  <2>1. present' \in Seq(Entry)
    BY <1>11, NewPresent
  <2> QED
    BY <1>1, <1>11, <2>1 DEF Decode, RestTyped, Underway
<1>12. CASE Store \/ Count
  BY <1>1, <1>12 DEF Store, Count, Rest, RestTyped, Underway
<1>13. ASSUME NEW sampled \in Samples, Emit(sampled)
       PROVE  RestTyped' /\ Underway'
  <2>1. run' \in StageRun
    BY <1>13, EmittedRunType
  <2> QED
    BY <1>1, <1>13, <2>1 DEF Emit, RestTyped, Underway
<1>14. CASE ReleaseStage \/ Reset \/ Restore
  <2>1. UNCHANGED <<saved, run, stepVars, failures>> /\ pc = "idle"
    BY <1>14 DEF ReleaseStage, Reset, Restore, Between
  <2> QED
    BY <1>1, <2>1 DEF stepVars, RestTyped, Underway
<1>15. CASE Snapshot
  <2>1. SessionState \in Session
    BY DEF TypeOK
  <2> QED
    BY <1>1, <1>15, <2>1 DEF Snapshot, Between, stepVars, RestTyped, Underway
<1> QED
  BY <1>2, <1>3, <1>4, <1>5, <1>6, <1>7, <1>8, <1>9, <1>10, <1>11, <1>12,
     <1>13, <1>14, <1>15 DEF Next, Execute, Calls

-----------------------------------------------------------------------------
(* Finished lanes and budgets.                                             *)
Budgeted ==
    /\ run # None /\ pc # "idle" =>
        run.inputs = None /\ Len(run.generated) < run.budget
    /\ run # None => /\ run.budget <= MaxSequence - ContextLength(run.prompt)
                     /\ Len(run.generated) <= run.budget

LEMMA LatchInit == Init => LatchInv /\ FinishedLanesStayFinished /\ Budgeted
BY DEF Init, LatchInv, FinishedLanesStayFinished, Budgeted

LEMMA LatchBegin ==
    ASSUME TypeOK, NEW inputs \in Prompts \cup {None},
           NEW requested \in Requests, Begin(inputs, requested)
    PROVE  LatchInv' /\ FinishedLanesStayFinished' /\ Budgeted'
<1>1. /\ run'.generated = <<>> /\ run'.finished = {} /\ run'.stop = FALSE
      /\ run'.prompt = Bound(inputs) /\ pc' = "idle"
      /\ run'.budget = Budget(requested, Bound(inputs))
  BY DEF Begin, Between, stepVars
<1>2. Bound(inputs) \in Inputs \cup {None}
  BY BoundType
<1>3. /\ run'.budget \in Nat \ {0}
      /\ run'.budget <= MaxSequence - ContextLength(run'.prompt)
  BY <1>1, <1>2, BudgetType DEF Begin
<1>4. LatchInv'
  BY <1>1, LanesAssumption DEF LatchInv
<1>5. FinishedLanesStayFinished'
  BY <1>1 DEF FinishedLanesStayFinished
<1>6. Budgeted'
  BY <1>1, <1>3 DEF Budgeted
<1> QED
  BY <1>4, <1>5, <1>6

LEMMA LatchEmit ==
    ASSUME TypeOK, LatchInv, FinishedLanesStayFinished, Budgeted,
           NEW sampled \in Samples, Emit(sampled)
    PROVE  LatchInv' /\ FinishedLanesStayFinished' /\ Budgeted'
<1>1. run # None /\ run \in StageRun /\ pc = "sample" /\ pc' = "idle"
  BY TypeParts DEF RestTyped, Emit
<1> DEFINE new == Substituted(sampled)
           old == run.generated
<1>2. new \in Columns
  BY <1>1, SubstitutedType
<1>3. old \in Seq(Columns) /\ Len(old) \in Nat /\ DOMAIN old = 1..Len(old)
  BY <1>1, LenProperties DEF StageRun
<1>4. /\ run'.generated = Append(old, new)
      /\ run'.finished = Latched(sampled)
      /\ run'.stop = (run.stop \/ (Eos # {} /\ Latched(sampled) = Lanes))
      /\ run'.budget = run.budget /\ run'.prompt = run.prompt
  BY <1>1 DEF Emit, StageRun
<1>5. \A l \in Lanes : new[l] = IF l \in run.finished THEN FirstEos
                                                      ELSE sampled[l]
  BY DEF Substituted
<1>6. /\ run.finished = {l \in Lanes : \E i \in 1..Len(old) : old[i][l] \in Eos}
      /\ run.stop <=> (Eos # {} /\ run.finished = Lanes)
  BY <1>1, <1>3 DEF LatchInv
<1>7. \A l \in Lanes : \A i, j \in 1..Len(old) :
          i < j /\ old[i][l] \in Eos => old[j][l] = FirstEos
  BY <1>1, <1>3 DEF FinishedLanesStayFinished
<1>8. Len(old) < run.budget /\ run.budget \in Nat
  BY <1>1 DEF Budgeted, StageRun
<1> HIDE DEF new, old
<1>9. /\ Append(old, new) \in Seq(Columns)
      /\ DOMAIN Append(old, new) = 1..(Len(old) + 1)
      /\ Len(Append(old, new)) = Len(old) + 1
      /\ \A i \in 1..Len(old) : Append(old, new)[i] = old[i]
      /\ Append(old, new)[Len(old) + 1] = new
  BY <1>2, <1>3, AppendProperties
<1>10. ASSUME NEW l \in Lanes
       PROVE  l \in Latched(sampled) <=>
                  \E i \in 1..(Len(old) + 1) : Append(old, new)[i][l] \in Eos
  <2>1. CASE l \in run.finished
    <3>1. PICK i \in 1..Len(old) : old[i][l] \in Eos
      BY <1>6, <2>1
    <3>2. i \in 1..(Len(old) + 1) /\ Append(old, new)[i][l] \in Eos
      BY <1>3, <1>9, <3>1
    <3> QED
      BY <2>1, <3>2 DEF Latched
  <2>2. CASE l \notin run.finished
    <3>1. \A i \in 1..Len(old) : Append(old, new)[i][l] \notin Eos
      BY <1>6, <1>9, <2>2
    <3>2. Append(old, new)[Len(old) + 1][l] = sampled[l]
      BY <1>5, <1>9, <2>2
    <3>3. l \in Latched(sampled) <=> sampled[l] \in Eos
      BY <2>2 DEF Latched
    <3> QED
      BY <1>3, <3>1, <3>2, <3>3
  <2> QED
    BY <2>1, <2>2
<1>11. Latched(sampled) \subseteq Lanes /\ run.finished \subseteq Latched(sampled)
  BY <1>6 DEF Latched
<1>12. LatchInv'
  <2>1. run'.finished = {l \in Lanes : \E i \in DOMAIN run'.generated :
                                          run'.generated[i][l] \in Eos}
    BY <1>4, <1>9, <1>10, <1>11
  <2>2. run'.stop <=> (Eos # {} /\ run'.finished = Lanes)
    BY <1>4, <1>6, <1>11
  <2> QED
    BY <2>1, <2>2 DEF LatchInv
<1>13. FinishedLanesStayFinished'
  <2>1. ASSUME NEW l \in Lanes, NEW i \in 1..(Len(old) + 1),
               NEW j \in 1..(Len(old) + 1), i < j,
               Append(old, new)[i][l] \in Eos
        PROVE  Append(old, new)[j][l] = FirstEos
    <3>1. i \in 1..Len(old) /\ old[i][l] \in Eos
      BY <1>3, <1>9, <2>1
    <3>2. CASE j \in 1..Len(old)
      BY <1>7, <1>9, <2>1, <3>1, <3>2
    <3>3. CASE j = Len(old) + 1
      BY <1>5, <1>6, <1>9, <3>1, <3>3
    <3> QED
      BY <1>3, <3>2, <3>3
  <2> QED
    BY <1>4, <1>9, <2>1 DEF FinishedLanesStayFinished
<1>14. Budgeted'
  BY <1>1, <1>3, <1>4, <1>8, <1>9 DEF Budgeted
<1> QED
  BY <1>12, <1>13, <1>14

LEMMA LatchNext ==
    ASSUME TypeOK, LatchInv, FinishedLanesStayFinished, Budgeted, Next
    PROVE  LatchInv' /\ FinishedLanesStayFinished' /\ Budgeted'
<1>1. CASE run' = None
  BY <1>1 DEF LatchInv, FinishedLanesStayFinished, Budgeted
<1>2. CASE RunStep
  <2>1. /\ run # None /\ run \in StageRun /\ pc = "idle" /\ ~Exhausted
        /\ run' = [run EXCEPT !.inputs = None]
    BY <1>2, TypeParts DEF RunStep, RestTyped
  <2>2. /\ run'.generated = run.generated /\ run'.finished = run.finished
        /\ run'.stop = run.stop /\ run'.budget = run.budget
        /\ run'.prompt = run.prompt /\ run'.inputs = None
    BY <2>1 DEF StageRun
  <2>3. run.budget \in Nat /\ Len(run.generated) \in Nat
    BY <2>1, LenProperties DEF StageRun
  <2>4. Len(run.generated) < run.budget
    BY <2>1, <2>3 DEF Exhausted
  <2>5. LatchInv' /\ FinishedLanesStayFinished'
    BY <2>1, <2>2 DEF LatchInv, FinishedLanesStayFinished
  <2>6. Budgeted'
    BY <2>1, <2>2, <2>4 DEF Budgeted
  <2> QED
    BY <2>5, <2>6
<1>3. CASE run' = run /\ (pc' # "idle" => pc # "idle")
  BY <1>3 DEF LatchInv, FinishedLanesStayFinished, Budgeted
<1>4. ASSUME NEW inputs \in Prompts \cup {None}, NEW requested \in Requests,
             Begin(inputs, requested)
      PROVE  LatchInv' /\ FinishedLanesStayFinished' /\ Budgeted'
  BY <1>4, LatchBegin
<1>5. ASSUME NEW sampled \in Samples, Emit(sampled)
      PROVE  LatchInv' /\ FinishedLanesStayFinished' /\ Budgeted'
  BY <1>5, LatchEmit
<1>6. ASSUME NEW inputs \in Prompts \cup {None},
             DirectStep(inputs)
      PROVE  run' = None
  BY <1>6 DEF DirectStep
<1>7. CASE Fail \/ Cancel \/ Complete
  BY <1>1, <1>7 DEF Fail, Cancel, Complete
<1>8. CASE Embed \/ ResolvePositions \/ Decode \/ Store \/ Count
  BY <1>3, <1>8 DEF Embed, ResolvePositions, Decode, Store, Count
<1>9. CASE ReleaseStage \/ Reset \/ Snapshot \/ Restore
  BY <1>3, <1>9 DEF ReleaseStage, Reset, Snapshot, Restore, stepVars
<1>10. CASE \E prompt \in Prompts : PromptStage(prompt) \/ PromptStageFails(prompt)
  BY <1>3, <1>10 DEF PromptStage, PromptStageFails, stepVars
<1>11. ASSUME NEW inputs \in Prompts \cup {None}, NEW requested \in Requests,
              BeginFails(inputs, requested)
       PROVE  run' = run /\ pc' = pc
  BY <1>11 DEF BeginFails, stepVars
<1> QED
  BY <1>1, <1>2, <1>3, <1>4, <1>5, <1>6, <1>7, <1>8, <1>9, <1>10, <1>11
  DEF Next, Execute, Calls

-----------------------------------------------------------------------------
(* Positions.                                                              *)
LEMMA EntryFacts ==
    ASSUME NEW entries \in Seq(Entry), NEW j \in 1..Len(entries)
    PROVE  /\ entries[j].token \in Columns
           /\ entries[j].after \in Nat
           /\ \A l \in Lanes :
                /\ entries[j].next[l] \in Nat
                /\ \A a \in Axes : entries[j].position[l][a] \in Nat
<1>1. entries[j] \in Entry
  BY ElementOfSeq
<1> QED
  BY <1>1 DEF Entry, Offsets, Positions, Places

LEMMA EmptyPlaced ==
    ASSUME NEW offsets
    PROVE  Placed(<<>>) /\ Ahead(offsets, <<>>)
BY DEF Placed, Ahead, WellPlaced

LEMMA PositionInit == Init => PositionInv
BY EmptyPlaced DEF Init, PositionInv

LEMMA PositionResolve ==
    ASSUME TypeOK, PositionInv, ResolvePositions
    PROVE  Resolved' /\ Ahead(cursors', cache)
<1>1. /\ tokens \in Inputs /\ Len(tokens) \in Nat \ {0}
      /\ cache \in Seq(Entry) /\ Len(cache) \in Nat
      /\ DOMAIN cache = 1..Len(cache)
  BY TypeParts, InputFacts, LenProperties DEF SessionTyped, ResolvePositions
<1>2. \A j \in 1..Len(cache), l \in Lanes : cache[j].next[l] \in Nat
  BY <1>1, EntryFacts
<1>3. /\ tokens' = tokens /\ cache' = cache
      /\ positions' =
             [i \in 1..Len(tokens) |-> [l \in Lanes |-> Position(i, l)]]
      /\ cursors' = IF Cursored THEN Advanced ELSE cursors
  BY DEF ResolvePositions
<1>4. Len(positions') = Len(tokens) /\ DOMAIN positions' = 1..Len(tokens)
  BY <1>1, <1>3, NewPositions
<1>5. ASSUME NEW l \in Lanes
      PROVE  LeftOff'[l] = IF Cursored THEN Advanced[l]
                           ELSE Len(cache) + Len(tokens)
  BY <1>3, <1>4 DEF LeftOff
<1>6. ASSUME NEW l \in Lanes
      PROVE  /\ Continues(l) \in Nat
             /\ Advanced[l] = IF cache = <<>> THEN LayoutOf(tokens, l).next
                              ELSE Continues(l) + Len(tokens)
             /\ \A j \in 1..Len(cache) : cache[j].next[l] <= Continues(l)
  <2>1. Continues(l) \in Nat
    BY ContinuesType
  <2>2. CASE Cursored
    BY <1>1, <2>1, <2>2 DEF Advanced, PositionInv, Ahead, Continues
  <2>3. CASE ~Cursored
    BY <1>1, <2>1, <2>3 DEF Advanced, PositionInv, Ahead, Continues
  <2> QED
    BY <2>2, <2>3
<1>7. ASSUME NEW l \in Lanes, NEW j \in 1..Len(cache)
      PROVE  cache[j].next[l] <= LeftOff'[l]
  <2>1. cache # <<>>
    BY <1>1
  <2>2. LeftOff'[l] \in Nat /\ Continues(l) <= LeftOff'[l]
    BY <1>1, <1>5, <1>6, <2>1 DEF Continues
  <2> QED
    BY <1>2, <1>6, <2>2
<1>8. ASSUME NEW i \in 1..Len(tokens), NEW l \in Lanes, NEW a \in Axes
      PROVE  /\ a # "time" \/ cache # <<>> => Position(i, l)[a] < LeftOff'[l]
             /\ \A j \in 1..Len(cache) :
                    cache[j].next[l] <= Position(i, l)[a]
  <2>1. CASE Cursored /\ cache = <<>>
    <3>1. /\ Position(i, l) = LayoutOf(tokens, l).at[i]
          /\ LeftOff'[l] = LayoutOf(tokens, l).next
      BY <1>5, <1>6, <2>1 DEF Position
    <3>2. Len(cache) = 0
      BY <2>1
    <3> QED
      BY <1>1, <2>1, <3>1, <3>2, LayoutType
  <2>2. CASE ~(Cursored /\ cache = <<>>)
    <3>1. Continues(l) \in Nat /\ Continues(l) + i - 1 \in Nat
      BY <1>1, <1>6
    <3>2. Position(i, l)[a] = Continues(l) + i - 1
      BY <2>2, <3>1, EverywhereType DEF Position
    <3>3. LeftOff'[l] = Continues(l) + Len(tokens)
      BY <1>5, <1>6, <2>2 DEF Continues
    <3> QED
      BY <1>1, <1>2, <1>6, <3>1, <3>2, <3>3
  <2> QED
    BY <2>1, <2>2
<1>9. ASSUME ~Cursored, NEW i \in 1..Len(tokens), NEW l \in Lanes
      PROVE  Position(i, l) = Everywhere(Len(cache) + i - 1)
  BY <1>9 DEF Position, Continues
<1>10. \A i \in 1..Len(tokens), l \in Lanes : positions'[i][l] = Position(i, l)
  BY <1>3
<1>11. Resolved'
  BY <1>1, <1>3, <1>4, <1>7, <1>8, <1>9, <1>10 DEF Resolved
<1>12. Ahead(cursors', cache)
  <2>1. CASE Cursored
    <3>1. cursors' # None
      BY <1>3, <2>1, AdvancedType, NoneAssumption DEF ResolvePositions
    <3>2. \A l \in Lanes : LeftOff'[l] = cursors'[l]
      BY <1>3, <1>5, <2>1
    <3> QED
      BY <1>1, <1>7, <2>1, <3>1, <3>2 DEF Ahead
  <2>2. CASE ~Cursored
    BY <2>2 DEF PositionInv, Ahead
  <2> QED
    BY <2>1, <2>2
<1> QED
  BY <1>11, <1>12

LEMMA PositionDecode ==
    ASSUME TypeOK, PositionInv, Decode
    PROVE  Placed(present') /\ Ahead(cursors, present')
<1>1. /\ cache \in Seq(Entry) /\ Len(cache) \in Nat
      /\ DOMAIN cache = 1..Len(cache)
      /\ positions \in Seq(Positions) /\ DOMAIN positions = 1..Len(positions)
  BY TypeParts, LenProperties DEF SessionTyped, RestTyped, Decode
<1> DEFINE m == Len(cache)
           n == Len(positions)
           new == present'
           left == LeftOff
<1>2. /\ new \in Seq(Entry) /\ m \in Nat /\ n \in Nat \ {0}
      /\ Len(new) = m + n
      /\ \A i \in 1..m : new[i] = cache[i]
      /\ \A i \in 1..n : new[m + i] =
             [token |-> embedded[i], position |-> positions[i], after |-> m,
              next |-> left]
  BY NewPresent
<1>3. Resolved /\ Placed(cache) /\ Ahead(cursors, cache)
  BY DEF PositionInv, Decode
<1>4. /\ \A i \in 1..m : cache[i].after \in Nat /\ cache[i].after < i
      /\ \A i \in 1..m, l \in Lanes : cache[i].next[l] \in Nat
      /\ \A i \in 1..m, l \in Lanes, a \in Axes : cache[i].position[l][a] \in Nat
  <2>1. \A i \in 1..m : cache[i].after < i
    BY <1>1, <1>3 DEF Placed
  <2> QED
    BY <1>1, <2>1, EntryFacts
<1>5. \A i \in 1..n, l \in Lanes, a \in Axes : positions[i][l][a] \in Nat
  BY <1>1, ElementOfSeq DEF Positions, Places
<1>6. /\ \A l \in Lanes : left[l] = IF Cursored THEN cursors[l] ELSE m + n
      /\ \A l \in Lanes : left[l] \in Nat
      /\ Cursored => cursors # None
  <2>1. left \in Offsets
    BY LeftOffType DEF Decode
  <2>2. Cursored => cursors # None
    BY TypeParts DEF RestTyped, Decode
  <2> QED
    BY <2>1, <2>2 DEF LeftOff, Offsets
<1>7. /\ \A i \in 1..n, l \in Lanes, a \in Axes :
            /\ a # "time" \/ m > 0 => positions[i][l][a] < left[l]
            /\ \A j \in 1..m : cache[j].next[l] <= positions[i][l][a]
      /\ \A i \in 1..n, l \in Lanes :
            ~Cursored => positions[i][l] = Everywhere(m + i - 1)
      /\ \A l \in Lanes, j \in 1..m : cache[j].next[l] <= left[l]
  <2>1. m > 0 => cache # <<>>
    OBVIOUS
  <2> QED
    BY <1>1, <1>3, <2>1 DEF Resolved
<1>8. \A j \in 1..m, l \in Lanes :
          /\ \A i \in 1..cache[j].after, a \in Axes :
                Passed(cache[i], l, a) =>
                    cache[i].position[l][a] < cache[j].position[l][a]
          /\ cache[j].after > 0 => Passed(cache[j], l, "time")
          /\ ~Cursored => cache[j].position[l] = Everywhere(j - 1)
          /\ \A a \in Axes \ {"time"} : cache[j].position[l][a] < cache[j].next[l]
  BY <1>1, <1>3 DEF Placed, WellPlaced
<1> HIDE DEF m, n, new, left
<1>9. /\ \A i \in 1..n : /\ new[m + i].after = m
                         /\ new[m + i].position = positions[i]
                         /\ new[m + i].next = left
      /\ DOMAIN new = 1..(m + n)
  <2>1. DOMAIN new = 1..(m + n)
    BY <1>2, LenProperties
  <2>2. ASSUME NEW i \in 1..n
        PROVE  /\ new[m + i].after = m /\ new[m + i].position = positions[i]
               /\ new[m + i].next = left
    <3>1. new[m + i] = [token |-> embedded[i], position |-> positions[i],
                        after |-> m, next |-> left]
      BY <1>2
    <3> QED
      BY <3>1
  <2> QED
    BY <2>1, <2>2
<1>10. ASSUME NEW j \in 1..(m + n)
       PROVE  j \in 1..m \/ \E i \in 1..n : j = m + i
  <2>1. CASE j <= m
    BY <1>2, <2>1
  <2>2. CASE j > m
    <3>1. j - m \in 1..n /\ j = m + (j - m)
      BY <1>2, <2>2
    <3> QED
      BY <3>1
  <2> QED
    BY <1>2, <2>1, <2>2
<1>11. ASSUME NEW j \in 1..(m + n), NEW l \in Lanes
       PROVE  /\ new[j].after < j
              /\ \A i \in 1..new[j].after, a \in Axes :
                    Passed(new[i], l, a) =>
                        new[i].position[l][a] < new[j].position[l][a]
              /\ new[j].after > 0 => Passed(new[j], l, "time")
              /\ ~Cursored => new[j].position[l] = Everywhere(j - 1)
              /\ \A a \in Axes \ {"time"} : new[j].position[l][a] < new[j].next[l]
              /\ new[j].next[l] <= left[l]
  <2>1. CASE j \in 1..m
    <3>1. new[j] = cache[j] /\ \A i \in 1..cache[j].after : new[i] = cache[i]
      BY <1>2, <1>4, <2>1
    <3>2. new[j].after < j /\ new[j].next[l] <= left[l]
      BY <1>4, <1>7, <2>1, <3>1
    <3> QED
      BY <1>8, <2>1, <3>1, <3>2
  <2>2. CASE \E i \in 1..n : j = m + i
    <3>1. PICK i \in 1..n : j = m + i
      BY <2>2
    <3>2. new[j].after = m /\ new[j].position = positions[i] /\ new[j].next = left
      BY <1>9, <3>1
    <3>3. m < j /\ j - 1 = m + i - 1
      BY <1>2, <3>1
    <3>4. ASSUME NEW k \in 1..m, NEW a \in Axes, Passed(cache[k], l, a)
          PROVE  cache[k].position[l][a] < positions[i][l][a]
      <4>1. cache[k].position[l][a] < cache[k].next[l]
        BY <1>8, <3>4 DEF Passed
      <4>2. cache[k].next[l] <= positions[i][l][a]
        BY <1>7
      <4> QED
        BY <1>4, <1>5, <4>1, <4>2
    <3>5. m > 0 => Passed(new[j], l, "time")
      BY <1>7, <3>2 DEF Passed, Axes
    <3>6. \A k \in 1..m : new[k] = cache[k]
      BY <1>2
    <3>7. \A a \in Axes \ {"time"} : positions[i][l][a] < left[l]
      BY <1>7
    <3>8. ~Cursored => positions[i][l] = Everywhere(j - 1)
      BY <1>7, <3>3
    <3> QED
      BY <1>6, <3>2, <3>3, <3>4, <3>5, <3>6, <3>7, <3>8
  <2> QED
    BY <1>10, <2>1, <2>2
<1>12. Placed(new)
  <2>1. WellPlaced(new)
    BY <1>9, <1>11 DEF WellPlaced
  <2>2. \A j \in 1..(m + n) : new[j].after < j
    BY <1>11, LanesAssumption
  <2> QED
    BY <1>9, <1>11, <2>1, <2>2 DEF Placed
<1>13. Len(new) = m + n
  BY <1>2
<1>14. Ahead(cursors, new)
  BY <1>6, <1>9, <1>11, <1>13 DEF Ahead
<1> QED
  BY <1>12, <1>14 DEF new

LEMMA PositionNext ==
    ASSUME TypeOK, PositionInv, Next
    PROVE  PositionInv'
<1> USE DEF PositionInv
<1>1. CASE ResolvePositions
  <2>1. /\ cache' = cache /\ saved' = saved /\ pc' = "decode"
    BY <1>1 DEF ResolvePositions
  <2> QED
    BY <1>1, <2>1, PositionResolve
<1>2. CASE Decode
  <2>1. /\ cache' = cache /\ saved' = saved /\ cursors' = cursors
        /\ pc' = "store"
    BY <1>2 DEF Decode, sessionVars
  <2>2. Placed(present') /\ Ahead(cursors', present')
    BY <1>2, <2>1, PositionDecode
  <2> QED
    BY <2>1, <2>2
<1>3. CASE Store
  BY <1>3 DEF Store
<1>4. CASE Embed \/ Count
  BY <1>4 DEF Embed, Count
<1>5. ASSUME NEW sampled \in Samples, Emit(sampled)
      PROVE  PositionInv'
  BY <1>5 DEF Emit
<1>6. CASE Fail \/ Cancel \/ Complete
  BY <1>6 DEF Fail, Cancel, Complete, sessionVars, stepVars
<1>7. CASE ReleaseStage \/ Reset
  <2>1. cache' = <<>> /\ saved' = saved /\ pc' = "idle"
    BY <1>7 DEF ReleaseStage, Reset, Between, stepVars
  <2> QED
    BY <2>1, EmptyPlaced
<1>8. CASE Snapshot
  <2>1. /\ saved'.cache = cache /\ saved'.cursors = cursors
        /\ cache' = cache /\ cursors' = cursors /\ pc' = "idle"
    BY <1>8 DEF Snapshot, SessionState, sessionVars, stepVars, Between
  <2> QED
    BY <2>1
<1>9. CASE Restore
  <2>1. /\ saved # None /\ saved' = saved /\ pc' = "idle"
        /\ cache' = saved.cache /\ cursors' = saved.cursors
    BY <1>9 DEF Restore, stepVars, Between
  <2> QED
    BY <2>1
<1>10. ASSUME cache' = cache, cursors' = cursors, saved' = saved,
              pc' \in {"idle", "embed"}
       PROVE  PositionInv'
  BY <1>10
<1>11. CASE \E prompt \in Prompts : PromptStage(prompt) \/ PromptStageFails(prompt)
  BY <1>10, <1>11 DEF PromptStage, PromptStageFails, Between, stepVars
<1>12. ASSUME NEW inputs \in Prompts \cup {None}, DirectStep(inputs)
       PROVE  PositionInv'
  BY <1>10, <1>12 DEF DirectStep, Enter
<1>13. ASSUME NEW inputs \in Prompts \cup {None}, NEW requested \in Requests,
              Begin(inputs, requested) \/ BeginFails(inputs, requested)
       PROVE  PositionInv'
  BY <1>10, <1>13 DEF Begin, BeginFails, Between, stepVars
<1>14. CASE RunStep
  BY <1>10, <1>14 DEF RunStep, Enter
<1> QED
  BY <1>1, <1>2, <1>3, <1>4, <1>5, <1>6, <1>7, <1>8, <1>9, <1>11, <1>12,
     <1>13, <1>14 DEF Next, Execute, Calls

-----------------------------------------------------------------------------
(* The conversation of a run that has a prompt: what was stored before the *)
(* step, and the token input of the step.                                  *)
LEMMA ConversationFacts ==
    ASSUME run \in StageRun, run.prompt # None
    PROVE  /\ run.prompt \in Inputs /\ Len(run.prompt) \in Nat \ {0}
           /\ run.generated \in Seq(Columns) /\ Len(run.generated) \in Nat
           /\ \A i \in 1..Len(run.prompt) : Conversation[i] = run.prompt[i]
           /\ \A i \in 1..Len(run.generated) :
                Conversation[Len(run.prompt) + i] = run.generated[i]
<1>1. run.prompt \in Inputs /\ run.generated \in Seq(Columns)
  BY DEF StageRun
<1>2. run.prompt \in Seq(Columns)
  BY <1>1 DEF Inputs
<1>3. Len(run.prompt) \in Nat \ {0} /\ Len(run.generated) \in Nat
  BY <1>1, InputFacts, LenProperties
<1> DEFINE p == run.prompt
           g == run.generated
<1>4. Conversation = p \o g
  BY DEF Conversation
<1> HIDE DEF p, g
<1>5. \A i \in 1..(Len(p) + Len(g)) :
          (p \o g)[i] = IF i <= Len(p) THEN p[i] ELSE g[i - Len(p)]
  BY <1>1, <1>2, ConcatProperties DEF p, g
<1>6. Len(p) \in Nat \ {0} /\ Len(g) \in Nat
  BY <1>3 DEF p, g
<1>7. \A i \in 1..Len(p) : Conversation[i] = p[i]
  BY <1>4, <1>5, <1>6
<1>8. \A i \in 1..Len(g) : Conversation[Len(p) + i] = g[i]
  BY <1>4, <1>5, <1>6
<1> QED
  BY <1>1, <1>3, <1>7, <1>8 DEF p, g

LEMMA TokenInputFacts ==
    ASSUME run \in StageRun, run.prompt # None
    PROVE  /\ Seen \in Nat /\ Len(TokenInput) \in Nat \ {0}
           /\ Fed = Seen + Len(TokenInput)
           /\ \A i \in 1..Len(TokenInput) :
                TokenInput[i] = Conversation[Seen + i]
<1> DEFINE p == run.prompt
           g == run.generated
<1>1. /\ Len(p) \in Nat \ {0} /\ g \in Seq(Columns) /\ Len(g) \in Nat
      /\ \A i \in 1..Len(p) : Conversation[i] = p[i]
      /\ \A i \in 1..Len(g) : Conversation[Len(p) + i] = g[i]
  BY ConversationFacts
<1>2. CASE g = <<>>
  <2>1. Seen = 0 /\ TokenInput = p /\ Fed = Len(p)
    BY <1>1, <1>2 DEF Seen, TokenInput, Fed
  <2> QED
    BY <1>1, <2>1
<1>3. CASE g # <<>>
  <2>1. Len(g) \in Nat \ {0}
    BY <1>1, <1>3, EmptySeq
  <2>2. Seen = Len(p) + Len(g) - 1 /\ TokenInput = <<g[Len(g)]>>
    BY <1>3 DEF Seen, TokenInput
  <2>3. Fed = Len(p) + Len(g)
    BY DEF Fed
  <2> HIDE DEF p, g
  <2>4. Len(TokenInput) = 1 /\ TokenInput[1] = g[Len(g)]
    BY <2>2
  <2>5. Conversation[Len(p) + Len(g)] = g[Len(g)]
    BY <1>1, <2>1
  <2>6. Seen \in Nat /\ Seen + 1 = Len(p) + Len(g)
    BY <1>1, <2>1, <2>2
  <2> QED
    BY <2>3, <2>4, <2>5, <2>6
<1> QED
  BY <1>2, <1>3

-----------------------------------------------------------------------------
(* The cache follows the conversation.                                     *)
LEMMA StepInit == Init => StepInv
BY DEF Init, StepInv

LEMMA StepBegin ==
    ASSUME TypeOK, NEW inputs \in Prompts \cup {None},
           NEW requested \in Requests, Begin(inputs, requested)
    PROVE  StepInv'
<1>1. /\ run'.generated = <<>> /\ run'.prompt = Bound(inputs)
      /\ run'.inputs = inputs /\ run'.past = Len(cache)
      /\ run'.stale = (ReusesPrefill(inputs = None) /\ embedded # tokens)
      /\ tokens' = Bound(inputs) /\ embedded' = embedded /\ cache' = cache
      /\ iterations' = iterations /\ pc' = "idle"
  BY DEF Begin, Between, stepVars
<1>2. inputs \in {None, Bound(inputs)}
  BY DEF Bound
<1>3. Len(cache) \in Nat
  BY TypeParts, LenProperties DEF SessionTyped
<1>4. Seen' = 0 /\ TokenInput' = run'.prompt
  BY <1>1 DEF Seen, TokenInput
<1>5. Continued(cache, Seen)'
  BY <1>1, <1>3, <1>4 DEF Continued
<1>6. ASSUME ~run'.stale, inputs = None, iterations = 0
      PROVE  embedded \in {None, Bound(inputs)}
  BY <1>1, <1>6 DEF ReusesPrefill, Bound
<1> QED
  BY <1>1, <1>2, <1>4, <1>5, <1>6 DEF StepInv, MayReuse

LEMMA StepRun ==
    ASSUME TypeOK, StepInv, RunStep
    PROVE  StepInv'
<1>1. /\ run # None /\ run \in StageRun /\ pc = "idle"
      /\ run' = [run EXCEPT !.inputs = None]
      /\ tokens' = Bound(run.inputs) /\ fresh' = (run.inputs = None)
      /\ pc' = "embed" /\ embedded' = embedded /\ cache' = cache
      /\ iterations' = iterations
  BY TypeParts DEF RunStep, Enter, RestTyped
<1>2. /\ run'.generated = run.generated /\ run'.prompt = run.prompt
      /\ run'.inputs = None /\ run'.past = run.past /\ run'.stale = run.stale
  BY <1>1 DEF StageRun
<1>3. /\ Seen' = Seen /\ TokenInput' = TokenInput
      /\ Conversation' = Conversation
  BY <1>2 DEF Seen, TokenInput, Conversation
<1>4. Continued(cache, Seen) => Continued(cache, Seen)'
  BY <1>1, <1>2, <1>3 DEF Continued
<1> SUFFICES ASSUME ~run.stale PROVE StepInv'
  BY <1>2 DEF StepInv
<1>5. CASE run.generated = <<>>
  <2>1. tokens' = run.prompt /\ tokens = run.prompt
    BY <1>1, <1>5 DEF StepInv, TokenInput, Bound
  <2> QED
    BY <1>1, <1>2, <1>3, <1>4, <1>5, <2>1
    DEF StepInv, MayReuse, TokenInput
<1>6. CASE run.generated # <<>>
  <2>1. tokens' = tokens
    BY <1>1, <1>6 DEF StepInv, Bound
  <2> QED
    BY <1>1, <1>2, <1>3, <1>4, <1>6, <2>1 DEF StepInv, MayReuse
<1> QED
  BY <1>5, <1>6

LEMMA StepDecode ==
    ASSUME TypeOK, PositionInv, StepInv, run # None, ~run.stale, Decode
    PROVE  /\ run.prompt # None
           /\ Len(present') = run.past + Fed
           /\ \A i \in 1..Fed : present'[run.past + i].token = Conversation[i]
<1>1. run \in StageRun /\ run.past \in Nat /\ run.prompt # None
  BY TypeParts DEF RestTyped, StageRun, StepInv, Decode
<1>2. /\ Len(cache) = run.past + Seen
      /\ \A i \in 1..Seen : cache[run.past + i].token = Conversation[i]
      /\ embedded = tokens /\ tokens = TokenInput
  BY DEF StepInv, Continued, Decode
<1>3. /\ Seen \in Nat /\ Len(TokenInput) \in Nat \ {0}
      /\ Fed = Seen + Len(TokenInput)
      /\ \A i \in 1..Len(TokenInput) : TokenInput[i] = Conversation[Seen + i]
  BY <1>1, TokenInputFacts
<1>4. Len(positions) = Len(TokenInput)
  BY <1>2 DEF PositionInv, Resolved, Decode
<1>5. /\ Len(present') = Len(cache) + Len(positions)
      /\ \A i \in 1..Len(cache) : present'[i] = cache[i]
      /\ \A i \in 1..Len(positions) :
             present'[Len(cache) + i].token = embedded[i]
  <2>1. ASSUME NEW i \in 1..Len(positions)
        PROVE  present'[Len(cache) + i].token = embedded[i]
    <3>1. present'[Len(cache) + i] =
              [token |-> embedded[i], position |-> positions[i],
               after |-> Len(cache), next |-> LeftOff]
      BY NewPresent
    <3> QED
      BY <3>1
  <2> QED
    BY <2>1, NewPresent
<1> DEFINE past == run.past
           seen == Seen
           input == TokenInput
           told == Conversation
           new == present'
<1>6. /\ past \in Nat /\ seen \in Nat /\ Len(input) \in Nat \ {0}
      /\ Len(new) = past + seen + Len(input) /\ Fed = seen + Len(input)
      /\ \A i \in 1..seen : new[past + i].token = told[i]
      /\ \A i \in 1..Len(input) : new[past + seen + i].token = told[seen + i]
  <2>1. Len(cache) = past + seen /\ past + seen \in Nat
    BY <1>1, <1>2, <1>3
  <2>2. \A i \in 1..seen : past + i \in 1..Len(cache)
    BY <1>1, <1>3, <2>1
  <2>3. \A i \in 1..seen : new[past + i].token = told[i]
    BY <1>2, <1>5, <2>2
  <2>4. \A i \in 1..Len(input) : new[past + seen + i].token = told[seen + i]
    BY <1>2, <1>3, <1>4, <1>5, <2>1
  <2>5. Len(new) = past + seen + Len(input)
    BY <1>4, <1>5, <2>1
  <2> QED
    BY <1>1, <1>3, <2>3, <2>4, <2>5
<1> HIDE DEF past, seen, input, told, new
<1>7. ASSUME NEW i \in 1..(seen + Len(input))
      PROVE  new[past + i].token = told[i]
  <2>1. CASE i <= seen
    BY <1>6, <2>1
  <2>2. CASE i > seen
    <3>1. i - seen \in 1..Len(input) /\ seen + (i - seen) = i
          /\ past + seen + (i - seen) = past + i
      BY <1>6, <2>2
    <3> QED
      BY <1>6, <3>1
  <2> QED
    BY <1>6, <2>1, <2>2
<1>8. Len(new) = past + Fed /\ \A i \in 1..Fed : new[past + i].token = told[i]
  BY <1>6, <1>7
<1> QED
  BY <1>1, <1>8 DEF past, told, new

LEMMA StepEmit ==
    ASSUME TypeOK, LatchInv, Budgeted, StepInv, NEW sampled \in Samples, Emit(sampled)
    PROVE  StepInv'
<1> DEFINE new == Substituted(sampled)
<1>1. /\ run # None /\ run \in StageRun /\ pc = "sample"
      /\ pc' = "idle" /\ tokens' = <<new>> /\ cache' = cache
      /\ iterations' = iterations
  BY TypeParts DEF Emit, RestTyped
<1>2. new \in Columns
  BY <1>1, SubstitutedType
<1>3. /\ run'.generated = Append(run.generated, new)
      /\ run'.prompt = run.prompt /\ run'.inputs = run.inputs
      /\ run'.past = run.past /\ run'.stale = run.stale
  BY <1>1 DEF Emit, StageRun
<1> SUFFICES ASSUME ~run.stale PROVE StepInv'
  BY <1>3 DEF StepInv
<1>4. /\ run.prompt # None /\ iterations > 0 /\ Continued(cache, Fed)
  BY <1>1 DEF StepInv
<1>5. run' \in StageRun
  BY EmittedRunType
<1> DEFINE p == run.prompt
           g == run.generated
<1>6. /\ Len(p) \in Nat \ {0} /\ g \in Seq(Columns) /\ Len(g) \in Nat
      /\ \A i \in 1..Len(p) : Conversation[i] = p[i]
      /\ \A i \in 1..Len(g) : Conversation[Len(p) + i] = g[i]
  BY <1>1, <1>4, ConversationFacts
<1>7. /\ Append(g, new) # <<>> /\ Len(Append(g, new)) = Len(g) + 1
      /\ Append(g, new)[Len(g) + 1] = new
      /\ \A i \in 1..Len(g) : Append(g, new)[i] = g[i]
  BY <1>2, <1>6, AppendProperties
<1>8. Conversation' = p \o Append(g, new) /\ p \in Seq(Columns)
      /\ Append(g, new) \in Seq(Columns)
  BY <1>1, <1>2, <1>3, <1>4, <1>6, ConversationFacts, AppendProperties
  DEF Conversation, Inputs
<1>9. Seen' = Fed /\ TokenInput' = <<new>> /\ Fed = Len(p) + Len(g)
  <2>1. run'.generated # <<>> /\ Len(run'.generated) = Len(g) + 1
        /\ run'.generated[Len(g) + 1] = new
    BY <1>3, <1>7
  <2>2. TokenInput' = <<new>>
    BY <2>1 DEF TokenInput
  <2>3. Seen' = Len(p) + (Len(g) + 1) - 1
    BY <1>3, <2>1 DEF Seen
  <2>4. Fed = Len(p) + Len(g)
    BY DEF Fed
  <2> HIDE DEF p, g, new
  <2> QED
    BY <1>6, <2>2, <2>3, <2>4
<1> DEFINE told == Conversation
           tell == Conversation'
<1>10. /\ \A i \in 1..Len(p) : told[i] = p[i]
       /\ \A i \in 1..Len(g) : told[Len(p) + i] = g[i]
       /\ tell = p \o Append(g, new)
  BY <1>6, <1>8
<1> HIDE DEF new, p, g, told, tell
<1>11. \A i \in 1..(Len(p) + Len(g)) : tell[i] = told[i]
  <2>1. \A i \in 1..(Len(p) + Len(g) + 1) : (p \o Append(g, new))[i] =
            IF i <= Len(p) THEN p[i] ELSE Append(g, new)[i - Len(p)]
    <3> DEFINE h == Append(g, new)
    <3>1. h \in Seq(Columns) /\ p \in Seq(Columns) /\ Len(h) = Len(g) + 1
      BY <1>7, <1>8
    <3> HIDE DEF h
    <3>2. \A i \in 1..(Len(p) + Len(h)) : (p \o h)[i] =
              IF i <= Len(p) THEN p[i] ELSE h[i - Len(p)]
      BY <3>1, ConcatProperties
    <3>3. Len(p) + Len(h) = Len(p) + Len(g) + 1
      BY <1>6, <3>1
    <3> QED
      BY <3>2, <3>3 DEF h
  <2>2. ASSUME NEW i \in 1..(Len(p) + Len(g)) PROVE tell[i] = told[i]
    <3>1. CASE i <= Len(p)
      BY <1>6, <1>10, <2>1, <3>1
    <3>2. CASE i > Len(p)
      <4>1. i - Len(p) \in 1..Len(g) /\ Len(p) + (i - Len(p)) = i
        BY <1>6, <3>2
      <4>2. told[i] = g[i - Len(p)]
        BY <1>10, <4>1
      <4>3. tell[i] = Append(g, new)[i - Len(p)]
        BY <1>6, <1>10, <2>1, <3>2
      <4> QED
        BY <1>7, <4>1, <4>2, <4>3
    <3> QED
      BY <1>6, <3>1, <3>2
  <2> QED
    BY <2>2
<1>12. Continued(cache, Seen)'
  <2>1. Len(cache') = run'.past + Seen'
    BY <1>1, <1>3, <1>4, <1>9 DEF Continued
  <2>2. \A i \in 1..Fed : cache[run.past + i].token = tell[i]
    BY <1>4, <1>9, <1>11 DEF Continued, told
  <2>3. \A i \in 1..Seen' : cache'[run'.past + i].token = Conversation'[i]
    BY <1>1, <1>3, <1>9, <2>2 DEF tell
  <2> QED
    BY <2>1, <2>3 DEF Continued
<1>13. /\ tokens' = TokenInput' /\ run'.generated # <<>> /\ iterations' > 0
       /\ run'.prompt # None
  BY <1>1, <1>3, <1>4, <1>7, <1>9 DEF new, g
<1>14. run'.inputs = None
  BY <1>1, <1>3 DEF Budgeted
<1> QED
  BY <1>1, <1>12, <1>13, <1>14 DEF StepInv

(* The steps that keep the run and the cache.                              *)
LEMMA StepKept ==
    ASSUME run' = run, cache' = cache, Continued(cache, Seen)
    PROVE  Continued(cache, Seen)'
BY DEF Continued, Seen, Conversation

LEMMA StepExecute ==
    ASSUME TypeOK, LatchInv, Budgeted, PositionInv, StepInv,
           run # None, ~run.stale, run' = run,
           Embed \/ ResolvePositions \/ Decode \/ Store \/ Count
    PROVE  StepInv'
<1> USE DEF StepInv
<1>1. /\ run \in StageRun /\ tokens = TokenInput /\ pc # "idle"
      /\ run.inputs = None
      /\ run.generated # <<>> => iterations > 0
      /\ tokens' = tokens /\ TokenInput' = TokenInput
      /\ Seen' = Seen /\ Fed' = Fed /\ Conversation' = Conversation
  BY TypeParts DEF RestTyped, Embed, ResolvePositions, Decode, Store, Count,
     sessionVars, Budgeted, TokenInput, Seen, Fed, Conversation
<1>2. CASE Embed
  <2>1. /\ pc = "embed" /\ pc' = "positions" /\ cache' = cache
        /\ iterations' = iterations
        /\ embedded' = tokens /\ tokens # None
    <3>1. CASE ReusesPrefill(fresh)
      <4>1. iterations = 0 /\ fresh /\ embedded # None
        BY <3>1 DEF ReusesPrefill
      <4>2. run.generated = <<>>
        BY <1>1, <4>1
      <4>3. embedded = tokens
        BY <1>2, <4>1, <4>2 DEF MayReuse, Embed
      <4> QED
        BY <1>2, <3>1, <4>1, <4>3 DEF Embed
    <3>2. CASE ~ReusesPrefill(fresh)
      BY <1>2, <3>2 DEF Embed
    <3> QED
      BY <3>1, <3>2
  <2>2. Continued(cache, Seen)'
    BY <2>1, StepKept
  <2> QED
    BY <1>1, <2>1, <2>2 DEF MayReuse
<1>3. CASE ResolvePositions
  <2>1. /\ pc = "positions" /\ pc' = "decode" /\ cache' = cache
        /\ iterations' = iterations /\ embedded' = embedded
        /\ tokens # None
    BY <1>3 DEF ResolvePositions
  <2>2. Continued(cache, Seen)'
    BY <2>1, StepKept
  <2>3. run.prompt # None
    BY <1>1, <2>1 DEF TokenInput
  <2> QED
    BY <1>1, <2>1, <2>2, <2>3 DEF MayReuse
<1>4. CASE Decode
  <2>1. /\ pc = "decode" /\ pc' = "store" /\ cache' = cache
        /\ iterations' = iterations
    BY <1>4 DEF Decode, sessionVars
  <2>2. Continued(cache, Seen)'
    BY <2>1, StepKept
  <2>3. run.prompt # None /\ Continued(present, Fed)'
    BY <1>1, <1>4, StepDecode DEF Continued
  <2> QED
    BY <1>1, <2>1, <2>2, <2>3 DEF MayReuse
<1>5. CASE Store
  <2>1. /\ pc = "store" /\ pc' = "count" /\ cache' = present
        /\ iterations' = iterations
    BY <1>5 DEF Store
  <2>2. Continued(cache, Fed)'
    BY <1>1, <2>1 DEF Continued
  <2> QED
    BY <1>1, <2>1, <2>2 DEF MayReuse
<1>6. CASE Count
  <2>1. /\ pc = "count" /\ pc' = "sample" /\ cache' = cache
        /\ iterations' > 0
    BY <1>6, TypeParts DEF Count, SessionTyped
  <2>2. Continued(cache, Fed)'
    BY <1>1, <2>1 DEF Continued
  <2> QED
    BY <1>1, <2>1, <2>2 DEF MayReuse
<1> QED
  BY <1>2, <1>3, <1>4, <1>5, <1>6

LEMMA StepNext ==
    ASSUME TypeOK, LatchInv, Budgeted, PositionInv, StepInv, Next
    PROVE  StepInv'
<1>1. CASE run' = None \/ (run' = run /\ run.stale)
  BY <1>1 DEF StepInv
<1>2. CASE Fail \/ Cancel \/ Complete
  BY <1>1, <1>2 DEF Fail, Cancel, Complete
<1>3. ASSUME NEW inputs \in Prompts \cup {None}, DirectStep(inputs)
      PROVE  run' = None
  BY <1>3 DEF DirectStep
<1>4. ASSUME NEW inputs \in Prompts \cup {None}, NEW requested \in Requests,
             Begin(inputs, requested)
      PROVE  StepInv'
  BY <1>4, StepBegin
<1>5. ASSUME NEW inputs \in Prompts \cup {None}, NEW requested \in Requests,
             BeginFails(inputs, requested)
      PROVE  run' = None
  BY <1>5 DEF BeginFails, Between
<1>6. CASE RunStep
  BY <1>6, StepRun
<1>7. CASE Embed \/ ResolvePositions \/ Decode \/ Store \/ Count
  <2>1. run' = run
    BY <1>7 DEF Embed, ResolvePositions, Decode, Store, Count
  <2>2. CASE run = None \/ run.stale
    BY <1>1, <2>1, <2>2
  <2>3. CASE run # None /\ ~run.stale
    BY <1>7, <2>1, <2>3, StepExecute
  <2> QED
    BY <2>2, <2>3
<1>8. ASSUME NEW sampled \in Samples, Emit(sampled)
      PROVE  StepInv'
  BY <1>8, StepEmit
<1>9. CASE ReleaseStage \/ Reset \/ Snapshot \/ Restore
  BY <1>1, <1>9 DEF ReleaseStage, Reset, Snapshot, Restore, Between
<1>10. CASE \E prompt \in Prompts : PromptStage(prompt) \/ PromptStageFails(prompt)
  BY <1>1, <1>10 DEF PromptStage, PromptStageFails, Between
<1> QED
  BY <1>1, <1>2, <1>3, <1>4, <1>5, <1>6, <1>7, <1>8, <1>9, <1>10
  DEF Next, Execute, Calls

-----------------------------------------------------------------------------
LEMMA InvariantParts ==
    IInv <=> /\ TypeOK /\ Underway /\ Budgeted /\ PositionInv /\ LatchInv
             /\ FinishedLanesStayFinished /\ StepInv
BY DEF IInv, Underway, Budgeted

LEMMA InvariantPartsPrimed ==
    IInv' <=> /\ TypeOK' /\ Underway' /\ Budgeted' /\ PositionInv' /\ LatchInv'
              /\ FinishedLanesStayFinished' /\ StepInv'
BY DEF IInv, Underway, Budgeted

LEMMA InvariantInit == Init => IInv
BY TypeInit, LatchInit, PositionInit, StepInit, InvariantParts

LEMMA InvariantStutters == IInv /\ UNCHANGED vars => IInv'
<1> SUFFICES ASSUME IInv, UNCHANGED vars PROVE IInv'
  OBVIOUS
<1> USE InvariantParts DEF vars, sessionVars, stepVars
<1>1. TypeOK' /\ Underway'
  BY DEF TypeOK, SessionState, Underway
<1>2. Budgeted' /\ LatchInv' /\ FinishedLanesStayFinished'
  BY DEF Budgeted, LatchInv, FinishedLanesStayFinished
<1>3. PositionInv'
  BY DEF PositionInv, Resolved, LeftOff
<1>4. StepInv'
  BY DEF StepInv, MayReuse, TokenInput, Continued, Conversation, Seen, Fed
<1> QED
  BY <1>1, <1>2, <1>3, <1>4, InvariantPartsPrimed

LEMMA InvariantNext == IInv /\ [Next]_vars => IInv'
<1> SUFFICES ASSUME IInv, [Next]_vars PROVE IInv'
  OBVIOUS
<1>1. CASE Next
  <2>1. TypeOK'
    BY <1>1, SessionNext, RestNext, InvariantParts, TypePartsPrimed
  <2>2. Underway'
    BY <1>1, RestNext, InvariantParts
  <2>3. LatchInv' /\ FinishedLanesStayFinished' /\ Budgeted'
    BY <1>1, LatchNext, InvariantParts
  <2>4. PositionInv'
    BY <1>1, PositionNext, InvariantParts
  <2>5. StepInv'
    BY <1>1, StepNext, InvariantParts
  <2> QED
    BY <2>1, <2>2, <2>3, <2>4, <2>5, InvariantPartsPrimed
<1>2. CASE UNCHANGED vars
  BY <1>2, InvariantStutters
<1> QED
  BY <1>1, <1>2

(* The invariant the other theorems follow from: it names what holds       *)
(* between any two steps of StepStage and of the executor around it.       *)
THEOREM DecodeInvariant == Spec => []IInv
BY InvariantInit, InvariantNext, PTL DEF Spec

(* The variables of session, run and step have their types.                *)
THEOREM DecodeTypeCorrect == Spec => []TypeOK
<1>1. IInv => TypeOK
  BY DEF IInv
<1> QED
  BY <1>1, DecodeInvariant, PTL

(* Between the steps of a run the decoder has seen the conversation the    *)
(* caller was told, without its last column.                               *)
THEOREM CacheFollows == Spec => []CacheFollowsRun
<1>1. IInv => CacheFollowsRun
  BY DEF IInv, StepInv, CacheFollowsRun
<1> QED
  BY <1>1, DecodeInvariant, PTL

(* No position is used twice, through failures, releases and snapshots.    *)
THEOREM PositionsOnlyIncrease == Spec => []PositionsIncrease
<1>1. IInv => PositionsIncrease
  BY DEF IInv, PositionInv, Placed, PositionsIncrease
<1> QED
  BY <1>1, DecodeInvariant, PTL

(* A lane that emitted a stop token emits only the first one thereafter.   *)
THEOREM FinishedLanesFinish == Spec => []FinishedLanesStayFinished
<1>1. IInv => FinishedLanesStayFinished
  BY DEF IInv
<1> QED
  BY <1>1, DecodeInvariant, PTL

(* A run on an empty cache stays below the maximum sequence length.        *)
THEOREM SequenceLimited == Spec => []WithinSequenceLimit
<1>1. ASSUME IInv, run # None, run.past = 0, ~run.stale
      PROVE  Len(cache) < MaxSequence
  <2>1. TypeOK /\ StepInv /\ Budgeted
    BY <1>1, InvariantParts
  <2>2. /\ run \in StageRun /\ run.budget \in Nat
        /\ run.budget <= MaxSequence - ContextLength(run.prompt)
        /\ Len(run.generated) <= run.budget
        /\ pc # "idle" => Len(run.generated) < run.budget
    BY <1>1, <2>1, TypeParts DEF RestTyped, StageRun, Budgeted
  <2>3. Len(run.generated) \in Nat /\ MaxSequence \in Nat \ {0}
    BY <2>2, LenProperties, OptionsAssumption DEF StageRun
  <2>4. CASE run.prompt = None
    <3>1. pc \in {"idle", "embed", "positions"} /\ Seen = 0
      BY <1>1, <2>1, <2>4 DEF StepInv, Seen
    <3>2. Len(cache) = 0
      BY <1>1, <2>1, <3>1 DEF StepInv, Continued
    <3> QED
      BY <2>3, <3>2
  <2>5. CASE run.prompt # None
    <3>1. /\ Len(run.prompt) \in Nat \ {0}
          /\ ContextLength(run.prompt) = Len(run.prompt)
      BY <2>2, <2>5, ConversationFacts DEF ContextLength
    <3> DEFINE p == Len(run.prompt)
               g == Len(run.generated)
    <3>2. Fed = p + g /\ (Seen = 0 \/ Seen = p + g - 1)
      BY DEF Fed, Seen
    <3>3. /\ p \in Nat \ {0} /\ g \in Nat /\ run.budget <= MaxSequence - p
          /\ g <= run.budget
          /\ pc # "idle" => g < run.budget
      BY <2>2, <2>3, <3>1
    <3>4. pc \in {"idle", "embed", "positions", "decode", "store"} =>
              Len(cache) = 0 + Seen
      BY <1>1, <2>1 DEF StepInv, Continued
    <3>5. pc \in {"count", "sample"} => Len(cache) = 0 + Fed
      BY <1>1, <2>1 DEF StepInv, Continued
    <3> HIDE DEF p, g
    <3>6. pc \in {"idle", "embed", "positions", "decode", "store", "count",
                  "sample"}
      BY <2>1 DEF TypeOK
    <3>7. Seen < MaxSequence /\ Seen \in Int /\ Fed \in Int
      BY <2>2, <2>3, <3>2, <3>3
    <3>8. pc # "idle" => Fed < MaxSequence
      BY <2>2, <2>3, <3>2, <3>3
    <3> QED
      BY <3>4, <3>5, <3>6, <3>7, <3>8
  <2> QED
    BY <2>4, <2>5
<1>2. IInv => WithinSequenceLimit
  BY <1>1 DEF WithinSequenceLimit
<1> QED
  BY <1>2, DecodeInvariant, PTL

(* A run steps while it has budget and a lane that is not finished, and    *)
(* completes when it has not: the latch agrees with what was emitted.      *)
THEOREM RunsStop == Spec => RunsStopWhenDone
<1>1. ASSUME IInv, run # None
      PROVE  Exhausted <=> Done(run)
  <2>1. /\ LatchInv /\ run \in StageRun /\ run.finished \subseteq Lanes
    BY <1>1, InvariantParts, TypeParts DEF RestTyped, StageRun
  <2>2. run.stop <=> \A l \in Lanes : \E i \in DOMAIN run.generated :
                                         run.generated[i][l] \in Eos
    <3>1. run.stop <=> (Eos # {} /\ run.finished = Lanes)
      BY <1>1, <2>1 DEF LatchInv
    <3>2. run.finished = Lanes <=>
              \A l \in Lanes : \E i \in DOMAIN run.generated :
                  run.generated[i][l] \in Eos
      BY <1>1, <2>1 DEF LatchInv
    <3>3. run.finished = Lanes => Eos # {}
      BY <3>2, LanesAssumption
    <3> QED
      BY <3>1, <3>2, <3>3
  <2> QED
    BY <2>2 DEF Exhausted, Done
<1>2. IInv /\ RunStep => ~Done(run)
  BY <1>1 DEF RunStep
<1>3. IInv /\ Complete => Done(run)
  BY <1>1 DEF Complete
<1> QED
  BY <1>2, <1>3, DecodeInvariant, PTL DEF Spec, RunsStopWhenDone
=============================================================================
