----------------------------- MODULE DecodeStage -----------------------------
(***************************************************************************)
(* How a session decodes: an autoregressive stage whose embedding reads    *)
(* the token input and whose decoder reads the embedding, position ids and *)
(* a key-value cache, after a stage that embedded the prompt.              *)
(*                                                                         *)
(* A step embeds, decodes, stores the cache, samples one token per lane of *)
(* the batch, rewrites the tokens of finished lanes and feeds them back.   *)
(* It may fail, or see a cancellation, between any two of these, and what  *)
(* was applied until then stays.                                           *)
(*                                                                         *)
(* A token tensor is a sequence of columns, one token per lane.  An        *)
(* embedding is abstracted to the tokens it was computed from and the      *)
(* cache to the tokens and positions the decoder wrote it for.             *)
(***************************************************************************)
EXTENDS Integers, Sequences, FiniteSetsExt

CONSTANTS
    Lanes,          \* the batch
    Tokens,         \* the vocabulary, as integers
    Eos,            \* stop.eos_token_ids
    Samples,        \* the columns sampling may choose, whatever the logits
    Prompts,        \* token inputs a caller binds
    Layout,         \* where a prompt is laid out on the axes of the position
                    \* ids, in each lane
    Cursored,       \* position ids with three axes, which have cursors
    Requests,       \* values of max_tokens, with or without a default
    TokenLimit,     \* max_tokens.limit
    MaxSequence,    \* stop.max_sequence_length
    MaxCache,       \* bound on the columns of the cache
    MaxFailures,    \* bound on calls that fail
    None            \* no value

Columns == [Lanes -> Tokens]
Inputs  == Seq(Columns) \ {<<>>}
Offsets == [Lanes -> Nat]

(* Position ids have an axis of time and two of space.  A layout says where*)
(* each token lies, and where what follows them does.                      *)
Axes       == {"time", "height", "width"}
Places     == [Axes -> Nat]
Positions  == [Lanes -> Places]
Everywhere(n) == [a \in Axes |-> n]

ASSUME LanesAssumption == Lanes # {}
ASSUME TokensAssumption ==
    /\ Tokens \subseteq Int /\ Samples \subseteq Columns
    /\ Eos \subseteq Tokens
    /\ Eos # {} => \E first \in Eos : \A token \in Eos : first <= token
ASSUME PromptsAssumption ==
    /\ Prompts \subseteq Inputs
    /\ \A p \in Prompts, l \in Lanes :
        /\ Layout[p][l].at \in [1..Len(p) -> Places]
        /\ Layout[p][l].next \in Nat
(* On the axes of space a prompt ends before what follows it.  Time may not*)
(* (pipeline_session.cpp:2302 and 2312): see GridLayout.                   *)
ASSUME LayoutAssumption ==
    \A p \in Prompts, l \in Lanes :
        \A i \in 1..Len(p), a \in Axes \ {"time"} :
            Layout[p][l].at[i][a] < Layout[p][l].next
ASSUME OptionsAssumption ==
    /\ Cursored \in BOOLEAN /\ Requests \subseteq Nat
    /\ TokenLimit \in Nat \ {0} /\ MaxSequence \in Nat \ {0}
ASSUME BoundsAssumption == MaxCache \in Nat /\ MaxFailures \in Nat

(* A column of the cache: its tokens and their positions, and, which no    *)
(* code reads, how long the cache was when the decoder read them and the   *)
(* position at which their step left off.                                  *)
Entry ==
    [token : Columns, position : Positions, after : Nat, next : Offsets]

(* A run, with what its executor keeps.  past, prompt and stale say what   *)
(* the session held when it began: no code reads them.                     *)
StageRun ==
    [budget : Nat, inputs : Prompts \cup {None}, generated : Seq(Columns),
     finished : SUBSET Lanes, stop : BOOLEAN,
     past : Nat, prompt : Inputs \cup {None}, stale : BOOLEAN]
Session ==
    [tokens : Inputs \cup {None}, embedded : Inputs \cup {None},
     cache : Seq(Entry), cursors : Offsets \cup {None}, iterations : Nat]

ASSUME NoneAssumption ==
    None \notin Seq(Columns) \cup Seq(Positions) \cup Seq(Entry) \cup Offsets
                \cup StageRun \cup Session

VARIABLES
    tokens,      \* external_values: the token input
    embedded,    \* endpoint_values: what the embedding was computed from
    cache,       \* state_values: the key-value cache
    cursors,     \* position_cursors
    iterations,  \* stage_iterations
    saved,       \* a snapshot
    run,         \* the active run and its executor
    pc,          \* how far the step got
    fresh,       \* whether the step was given no inputs
    positions,   \* the position ids the step resolved
    present,     \* the cache the decoder returned
    failures     \* how many calls failed

sessionVars == <<tokens, embedded, cache, cursors, iterations>>
stepVars    == <<pc, fresh, positions, present>>
vars        == <<sessionVars, saved, run, stepVars, failures>>

Smaller(a, b) == IF a < b THEN a ELSE b

Init ==
    /\ tokens = None
    /\ embedded = None
    /\ cache = <<>>
    /\ cursors = None
    /\ iterations = 0
    /\ saved = None
    /\ run = None
    /\ pc = "idle"
    /\ fresh = FALSE
    /\ positions = None
    /\ present = None
    /\ failures = 0

-----------------------------------------------------------------------------
(* Calls the session accepts while no run is active; the host makes no     *)
(* more of them at the bounds.                                             *)
Between      == pc = "idle" /\ run = None
WithinBounds == failures < MaxFailures /\ Len(cache) < MaxCache

(* The single-pass stage that precedes decoding binds the prompt and embeds*)
(* it; it may fail in between.                                             *)
PromptStage(prompt) ==
    /\ Between /\ WithinBounds
    /\ tokens' = prompt
    /\ embedded' = prompt
    /\ UNCHANGED <<cache, cursors, iterations, saved, run, stepVars, failures>>

PromptStageFails(prompt) ==
    /\ Between /\ WithinBounds
    /\ tokens' = prompt
    /\ failures' = failures + 1
    /\ UNCHANGED <<embedded, cache, cursors, iterations, saved, run, stepVars>>

-----------------------------------------------------------------------------
(* A run.  Its inputs are stored first, so the budget is measured against  *)
(* the prompt it starts from; a run that has no budget does not begin.     *)
Bound(inputs) == IF inputs = None THEN tokens ELSE inputs

ContextLength(input) == IF input = None THEN 0 ELSE Len(input)

HasBudget(requested, input) ==
    /\ requested \in 1..TokenLimit
    /\ ContextLength(input) < MaxSequence

(* Mutant: the budget is not measured against the prompt.                  *)
BudgetIgnoringPrompt(requested, input) == Smaller(requested, MaxSequence)

Budget(requested, input) ==
    Smaller(requested, MaxSequence - ContextLength(input))

(* Mutant: the embedding is left although the step was given inputs.       *)
ReusesAnyPrefill(inputsEmpty) == iterations = 0 /\ embedded # None

(* Whether the first step of a run leaves the embedding as it is.          *)
ReusesPrefill(inputsEmpty) ==
    iterations = 0 /\ inputsEmpty /\ embedded # None

Begin(inputs, requested) ==
    /\ Between /\ WithinBounds
    /\ HasBudget(requested, Bound(inputs))
    /\ tokens' = Bound(inputs)
    /\ run' = [budget |-> Budget(requested, Bound(inputs)),
               inputs |-> inputs, generated |-> <<>>,
               finished |-> {}, stop |-> FALSE,
               past |-> Len(cache), prompt |-> Bound(inputs),
               stale |-> ReusesPrefill(inputs = None) /\ embedded # tokens]
    /\ UNCHANGED <<embedded, cache, cursors, iterations, saved, stepVars,
                   failures>>

BeginFails(inputs, requested) ==
    /\ Between /\ WithinBounds
    /\ ~HasBudget(requested, Bound(inputs))
    /\ tokens' = Bound(inputs)
    /\ failures' = failures + 1
    /\ UNCHANGED <<embedded, cache, cursors, iterations, saved, run, stepVars>>

Exhausted == run.stop \/ Len(run.generated) >= run.budget

Cancel ==
    /\ pc = "idle" /\ run # None
    /\ run' = None
    /\ UNCHANGED <<sessionVars, saved, stepVars, failures>>

Complete ==
    /\ pc = "idle" /\ run # None /\ Exhausted
    /\ run' = None
    /\ UNCHANGED <<sessionVars, saved, stepVars, failures>>

(* StepStage begins; the first step of a run takes the inputs of the run.  *)
Enter(inputs) ==
    /\ tokens' = Bound(inputs)
    /\ fresh' = (inputs = None)
    /\ pc' = "embed"
    /\ UNCHANGED <<embedded, cache, cursors, iterations, saved, positions,
                   present, failures>>

RunStep ==
    /\ pc = "idle" /\ run # None /\ ~Exhausted
    /\ Enter(run.inputs)
    /\ run' = [run EXCEPT !.inputs = None]

DirectStep(inputs) ==
    /\ Between /\ WithinBounds
    /\ Enter(inputs)
    /\ run' = None

-----------------------------------------------------------------------------
(* The components, in order.  The embedding a prompt stage computed is not *)
(* computed again by the first step.                                       *)
Embed ==
    /\ pc = "embed"
    /\ IF ReusesPrefill(fresh)
       THEN UNCHANGED embedded
       ELSE tokens # None /\ embedded' = tokens
    /\ pc' = "positions"
    /\ UNCHANGED <<tokens, cache, cursors, iterations, saved, run, fresh,
                   positions, present, failures>>

(* The layout of text, and that of a prompt with the tokens of a picture,  *)
(* a grid of frames, rows and columns, from some token on.  What follows   *)
(* the picture starts past its rows and columns but not past its frames.   *)
TextLayout(length) ==
    [at |-> [i \in 1..length |-> Everywhere(i - 1)], next |-> length]

GridLayout(length, start, frames, rows, columns) ==
    LET spatial == rows * columns
        end     == start + frames * spatial
        next    == start + Max({rows, columns})
        InGrid(token) ==
            [a \in Axes |->
                start + CASE a = "time"   -> token \div spatial
                          [] a = "height" -> (token % spatial) \div columns
                          [] a = "width"  -> (token % spatial) % columns]
    IN  [at |-> [i \in 1..length |->
                    CASE i <= start -> Everywhere(i - 1)
                      [] i > end    -> Everywhere(next + i - 1 - end)
                      [] OTHER      -> InGrid(i - 1 - start)],
         next |-> next + length - end]

LayoutOf(input, lane) ==
    IF input \in Prompts THEN Layout[input][lane] ELSE TextLayout(Len(input))

(* The first position of a step that continues a cache.                    *)
Continues(lane) ==
    IF Cursored /\ cursors # None THEN cursors[lane] ELSE Len(cache)

Position(i, lane) ==
    IF Cursored /\ cache = <<>>
    THEN LayoutOf(tokens, lane).at[i]
    ELSE Everywhere(Continues(lane) + i - 1)

(* Mutant: the cursors are set past the prompt and not moved from there.   *)
AdvancedOnce ==
    [l \in Lanes |-> IF cache = <<>> THEN LayoutOf(tokens, l).next
                     ELSE Continues(l)]

(* The position ids are generated with the inputs of the decoder, which    *)
(* moves the cursors: past the prompt, or on by the columns of the step.   *)
Advanced ==
    [l \in Lanes |-> IF cache = <<>> THEN LayoutOf(tokens, l).next
                     ELSE Continues(l) + Len(tokens)]

ResolvePositions ==
    /\ pc = "positions" /\ tokens # None
    /\ positions' = [i \in 1..Len(tokens) |-> [l \in Lanes |-> Position(i, l)]]
    /\ cursors' = IF Cursored THEN Advanced ELSE cursors
    /\ pc' = "decode"
    /\ UNCHANGED <<tokens, embedded, cache, iterations, saved, run, fresh,
                   present, failures>>

(* The decoder, which rejects an embedding and position ids that differ in *)
(* length, appends one column per position to the cache it read.           *)
LeftOff ==
    [l \in Lanes |-> IF Cursored THEN cursors[l]
                     ELSE Len(cache) + Len(positions)]

Decode ==
    /\ pc = "decode"
    /\ Len(embedded) = Len(positions)
    /\ present' = cache \o
           [i \in 1..Len(positions) |->
               [token |-> embedded[i], position |-> positions[i],
                after |-> Len(cache), next |-> LeftOff]]
    /\ pc' = "store"
    /\ UNCHANGED <<sessionVars, saved, run, fresh, positions, failures>>

Store ==
    /\ pc = "store"
    /\ cache' = present
    /\ pc' = "count"
    /\ UNCHANGED <<tokens, embedded, cursors, iterations, saved, run, fresh,
                   positions, present, failures>>

(* The iteration is counted after a last look at the token.                *)
Rest ==
    /\ fresh' = FALSE
    /\ positions' = None
    /\ present' = None

Count ==
    /\ pc = "count"
    /\ iterations' = iterations + 1
    /\ pc' = IF run = None THEN "idle" ELSE "sample"
    /\ Rest
    /\ UNCHANGED <<tokens, embedded, cache, cursors, saved, run, failures>>

-----------------------------------------------------------------------------
(* One token per lane, sampled or of the largest logit.  A finished lane   *)
(* is given the first stop token, and a lane that emits one is finished.   *)
FirstEos == IF Eos = {} THEN 0 ELSE Min(Eos)

(* Mutant: a finished lane keeps what was sampled for it.                  *)
Unsubstituted(sampled) == sampled

Substituted(sampled) ==
    [l \in Lanes |-> IF l \in run.finished THEN FirstEos ELSE sampled[l]]

(* Mutant: a lane is finished by the token of this step alone.             *)
Unlatched(sampled) == {l \in Lanes : sampled[l] \in Eos}

Latched(sampled) == run.finished \cup {l \in Lanes : sampled[l] \in Eos}

Emit(sampled) ==
    /\ pc = "sample"
    /\ tokens' = <<Substituted(sampled)>>
    /\ run' = [run EXCEPT
           !.generated = Append(@, Substituted(sampled)),
           !.finished = Latched(sampled),
           !.stop = @ \/ (Eos # {} /\ Latched(sampled) = Lanes)]
    /\ pc' = "idle"
    /\ UNCHANGED <<embedded, cache, cursors, iterations, saved, fresh,
                   positions, present, failures>>

(* A missing input, a failing component, a token that was cancelled, or    *)
(* sampling options that are invalid: the run ends, nothing is undone.     *)
Fail ==
    /\ pc # "idle"
    /\ run' = None
    /\ pc' = "idle"
    /\ Rest
    /\ failures' = failures + 1
    /\ UNCHANGED <<sessionVars, saved>>

-----------------------------------------------------------------------------
(* ReleaseStage, of the stage the cache is released after, forgets the     *)
(* cache, its cursors and the iterations, and keeps the tokens and the     *)
(* embedding.                                                              *)
ReleaseStage ==
    /\ Between
    /\ cache' = <<>>
    /\ cursors' = None
    /\ iterations' = 0
    /\ UNCHANGED <<tokens, embedded, saved, run, stepVars, failures>>

Reset ==
    /\ Between
    /\ tokens' = None
    /\ embedded' = None
    /\ cache' = <<>>
    /\ cursors' = None
    /\ iterations' = 0
    /\ UNCHANGED <<saved, run, stepVars, failures>>

SessionState ==
    [tokens |-> tokens, embedded |-> embedded, cache |-> cache,
     cursors |-> cursors, iterations |-> iterations]

Snapshot ==
    /\ Between
    /\ saved' = SessionState
    /\ UNCHANGED <<sessionVars, run, stepVars, failures>>

Restore ==
    /\ Between /\ saved # None
    /\ tokens' = saved.tokens
    /\ embedded' = saved.embedded
    /\ cache' = saved.cache
    /\ cursors' = saved.cursors
    /\ iterations' = saved.iterations
    /\ UNCHANGED <<saved, run, stepVars, failures>>

-----------------------------------------------------------------------------
Execute ==
    \/ Embed \/ ResolvePositions \/ Decode \/ Store \/ Count
    \/ \E sampled \in Samples : Emit(sampled)
    \/ Fail

Calls ==
    \/ \E prompt \in Prompts : PromptStage(prompt) \/ PromptStageFails(prompt)
    \/ \E inputs \in Prompts \cup {None} :
        \/ DirectStep(inputs)
        \/ \E requested \in Requests :
            Begin(inputs, requested) \/ BeginFails(inputs, requested)
    \/ RunStep \/ Complete \/ Cancel
    \/ ReleaseStage \/ Reset \/ Snapshot \/ Restore

Next == Execute \/ Calls

Spec == Init /\ [][Next]_vars

-----------------------------------------------------------------------------
(* The variables have their types, and a step is under way exactly when    *)
(* the session is not idle (SessionState 717-727, StepLocked 55-103 of     *)
(* stage_executor_autoregressive.cpp).                                     *)
TypeOK ==
    /\ SessionState \in Session
    /\ saved # None => saved \in Session
    /\ run # None => run \in StageRun
    /\ pc \in {"idle", "embed", "positions", "decode", "store", "count",
               "sample"}
    /\ pc = "sample" => run # None
    /\ pc \in {"positions", "decode"} => embedded # None
    /\ pc = "decode" => tokens # None /\ (Cursored => cursors # None)
    /\ fresh \in BOOLEAN
    /\ pc \in {"decode", "store"} => positions \in Seq(Positions)
    /\ pc = "store" => present \in Seq(Entry)
    /\ failures \in 0..MaxFailures

(* What the decoder has seen is what the caller was told: between the      *)
(* steps of a run the cache continues the one the run began with by its    *)
(* prompt and the tokens it emitted, without the last, which is the token  *)
(* input of the next step.  The substituted tokens of finished lanes are   *)
(* fed back (55-103), once each, whatever failed in earlier runs.  A run   *)
(* that was given no inputs and finds an embedding of other tokens is the  *)
(* exception (reuse_prefill_embedding, pipeline_session.cpp:2930).         *)
Conversation == run.prompt \o run.generated

Seen == IF run.generated = <<>> THEN 0
        ELSE Len(run.prompt) + Len(run.generated) - 1

Continued(entries, columns) ==
    /\ Len(entries) = run.past + columns
    /\ \A i \in 1..columns : entries[run.past + i].token = Conversation[i]

TokenInput == IF run.generated = <<>> THEN run.prompt
              ELSE <<run.generated[Len(run.generated)]>>

CacheFollowsRun ==
    pc = "idle" /\ run # None /\ ~run.stale =>
        /\ tokens = TokenInput
        /\ Continued(cache, Seen)

(* A position is used once: on the axes of space a column lies after every *)
(* column that was cached when it was decoded, and without cursors it lies *)
(* where it is cached.  On the axis of time too, but for tokens of a prompt*)
(* at or past the position at which their step left off (GridLayout with   *)
(* more frames than rows and columns).  Steps that failed, a restored      *)
(* snapshot and a released cache keep cursors and cache together (Generate *)
(* 2085-2133, ReleaseStage).                                               *)
Passed(entry, lane, a) ==
    a = "time" => entry.position[lane][a] < entry.next[lane]

WellPlaced(entries) ==
    \A j \in DOMAIN entries, l \in Lanes :
        /\ \A i \in 1..entries[j].after, a \in Axes :
            Passed(entries[i], l, a) =>
                entries[i].position[l][a] < entries[j].position[l][a]
        /\ entries[j].after > 0 => Passed(entries[j], l, "time")
        /\ ~Cursored => entries[j].position[l] = Everywhere(j - 1)

PositionsIncrease == WellPlaced(cache)

(* A lane that emitted a stop token emits the first stop token from then   *)
(* on (stage_executor_autoregressive.cpp:5), also when it had emitted      *)
(* another one.                                                            *)
FinishedLanesStayFinished ==
    run # None => \A l \in Lanes :
        \A i, j \in DOMAIN run.generated :
            i < j /\ run.generated[i][l] \in Eos =>
                run.generated[j][l] = FirstEos

(* A run executes a step only while its budget is not spent and a lane has *)
(* not emitted a stop token, and completes only when it has no such step   *)
(* left (stage_executor_autoregressive.cpp:5).                             *)
Done(r) ==
    \/ Len(r.generated) >= r.budget
    \/ \A l \in Lanes : \E i \in DOMAIN r.generated : r.generated[i][l] \in Eos

RunsStopWhenDone ==
    [][/\ RunStep => ~Done(run)
       /\ Complete => Done(run)]_vars

(* A run on an empty cache ends before the cache reaches the maximum       *)
(* sequence length, because the budget is measured against its prompt once *)
(* (pipeline_stream_test.cpp:910-912, MaximumTokens 3298-3387).  A run     *)
(* that continues a cache is not bounded so: the cache is not counted.     *)
WithinSequenceLimit ==
    run # None /\ run.past = 0 /\ ~run.stale => Len(cache) < MaxSequence

(* The inductive form of PositionsIncrease: no step continues before the   *)
(* positions at which earlier ones left off, and what it decodes lies      *)
(* before the position at which it leaves off, but for the time of prompts.*)
Ahead(offsets, entries) ==
    \A j \in DOMAIN entries, l \in Lanes :
        IF Cursored THEN offsets # None /\ entries[j].next[l] <= offsets[l]
        ELSE entries[j].next[l] <= Len(entries)

Placed(entries) ==
    /\ WellPlaced(entries)
    /\ \A j \in DOMAIN entries :
        /\ entries[j].after < j
        /\ \A l \in Lanes, a \in Axes \ {"time"} :
            entries[j].position[l][a] < entries[j].next[l]

Resolved ==
    /\ Len(positions) = Len(tokens)
    /\ \A i \in DOMAIN positions, l \in Lanes :
        /\ \A a \in Axes :
            /\ a # "time" \/ cache # <<>> => positions[i][l][a] < LeftOff[l]
            /\ \A j \in DOMAIN cache : cache[j].next[l] <= positions[i][l][a]
        /\ ~Cursored => positions[i][l] = Everywhere(Len(cache) + i - 1)
    /\ \A l \in Lanes, j \in DOMAIN cache : cache[j].next[l] <= LeftOff[l]

PositionInv ==
    /\ Placed(cache) /\ Ahead(cursors, cache)
    /\ saved # None => Placed(saved.cache) /\ Ahead(saved.cursors, saved.cache)
    /\ pc = "decode" => Resolved
    /\ pc = "store" => /\ Placed(present) /\ Ahead(cursors, present)

(* A lane is finished exactly when it emitted a stop token, and the run    *)
(* stops exactly when every lane did.                                      *)
LatchInv ==
    run # None =>
        /\ run.finished = {l \in Lanes : \E i \in DOMAIN run.generated :
                                            run.generated[i][l] \in Eos}
        /\ run.stop <=> (Eos # {} /\ run.finished = Lanes)

(* Within a step, the token input is what the conversation comes to, the   *)
(* embedding is of it, and the cache or what the decoder returned holds it.*)
MayReuse ==
    \/ pc = "idle" /\ run.inputs = None
    \/ pc = "embed" /\ fresh

Fed == Len(run.prompt) + Len(run.generated)

StepInv ==
    run # None /\ ~run.stale =>
        /\ tokens = TokenInput
        /\ run.prompt = None =>
            run.generated = <<>> /\ pc \in {"idle", "embed", "positions"}
        /\ run.generated = <<>> =>
            /\ run.inputs \in {None, run.prompt}
            /\ MayReuse /\ iterations = 0 => embedded \in {None, tokens}
        /\ run.generated # <<>> => iterations > 0 /\ run.inputs = None
        /\ pc \in {"idle", "embed", "positions", "decode", "store"} =>
            Continued(cache, Seen)
        /\ pc \in {"positions", "decode"} => embedded = tokens /\ tokens # None
        /\ pc = "store" => Continued(present, Fed)
        /\ pc \in {"count", "sample"} => Continued(cache, Fed)
        /\ pc = "sample" => iterations > 0

(* The inductive invariant.  With it, whatever is under way has not failed *)
(* yet, and a run keeps to the budget its prompt left it.                  *)
IInv ==
    /\ TypeOK
    /\ run # None \/ pc # "idle" => failures < MaxFailures
    /\ run # None /\ pc # "idle" =>
        run.inputs = None /\ Len(run.generated) < run.budget
    /\ run # None => /\ run.budget <= MaxSequence - ContextLength(run.prompt)
                     /\ Len(run.generated) <= run.budget
    /\ PositionInv
    /\ LatchInv
    /\ FinishedLanesStayFinished
    /\ StepInv
=============================================================================
