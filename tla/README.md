# Verification of the ONNX world-model pipeline runtime

TLA+ models of the runtime under `src/`, TLC configurations that check them on
small instances, and TLAPS proofs of their central theorems. Paths below are
relative to the repository; modules and configurations are in this directory.

1. [The system](#the-system)
2. [What is modelled, and where](#what-is-modelled-and-where)
3. [Runs](#runs)
4. [Fairness and deadlock](#fairness-and-deadlock)
5. [Proofs](#proofs)
6. [Disagreements between code and documentation](#disagreements-between-code-and-documentation)
7. [Not modelled](#not-modelled)
8. [Plan](#plan)

## The system

A *package* (a manifest and ONNX files) is loaded: the manifest is parsed and
validated, every component opened where its placement says, and the transfers
between components planned. A `Pipeline` over it creates `PipelineSession`s, each
of which runs the package's stages, either as one call (`RunStage`) or as a
`StageRun` that the caller steps. Everything below the session is shared between
sessions.

| Component | State it keeps | Operations | Talks to |
|---|---|---|---|
| Admission scheduler (`pipeline_scheduler.cpp`) | permit counters, FIFO queue of waiters, one mutex | Acquire, ReleasePermit, CancelWaiter, AbandonWaiter, Stats | called by every session; registers callbacks with cancellation |
| Cancellation and deadlines (`cancellation.cpp`) | one reason per source, callback registry, the watchdog's schedule | Cancel, Poll, Wait, Register, Unregister, the watchdog loop | runs callbacks of the scheduler, of stage runs and of ONNX Runtime calls |
| Sessions and stage runs (`pipeline_session.cpp`) | the active-run slot, session state, checkpoints, one session mutex | begin, step, finish, cancel, run, snapshot, restore, fork, reset | acquires a lease first, then its mutex |
| Stage stepping (`pipeline_session.cpp`) | endpoint values, latents, scheduler histories, iteration counts, guidance scratch | StepStage, guidance, UniPC and Euler, release | components through the backend |
| Executors (`stage_executor*.cpp`) | generated tokens, stop flags | one pass, iterative, autoregressive | StepStage |
| Telemetry (`pipeline_telemetry.cpp`) | counter slabs per epoch, trace records | record, reset, snapshot | written by all of the above |
| Tensor (`tensor.cpp`) | shared byte buffers | copy, mutable access, clone | everything |
| Rollout (`world_model.cpp`) | the recurrent state | reset, step | model |
| Manifest (`pipeline.cpp`, `pipeline_manifest_validation.cpp`, `stage_registry.cpp`) | none | parse, validate | load; everything a session does relies on what it refused |
| Package and transfer plan (`pipeline.cpp`, `ort_backend.cpp`) | the open component sessions and the plan, fixed after loading | place, open, compare signatures, plan | load; sessions |
| Dataflow of a stage (`pipeline_session.cpp`) | endpoint, external and state values | order components, resolve inputs, run, store states | package, backend |
| Backend (`ort_backend.cpp`, `model.cpp`) | ONNX Runtime sessions | run, terminate | cancellation |
| Python API (`python/`, `bindings/`) | none of its own | wrappers | C++ API |

Hard behaviours, and what makes each part correct:

- **Admission scheduler.** Threads queue for permits while grants race
  cancellation callbacks, deadlines and exceptions. Correct when no permit is
  leaked or doubled on any path, the limits hold, the oldest acquisition that
  fits is always next, capacity does not idle, and telemetry, the error thrown
  and the permit tell the same story.
- **Cancellation.** Three mutexes, one thread of its own, callbacks into other
  components. Correct when a source stops once and for one reason, each
  callback runs once and never after its registration is gone, no wake-up is
  lost, and the watchdog neither sleeps past a deadline nor keeps the entries
  of sources that stopped.
- **Sessions and runs.** Several threads use a session and its run handles; the
  mutex is released between steps and while a permit is awaited, so everything
  looked at before is looked at again. Correct when the run that owns the slot
  is the only one that changes the session, the slot and the permits come back
  on every path, and copies are taken between runs.
- **Stage stepping.** A step can fail or be cancelled between any two of its
  effects; guidance runs the components a second time over the same endpoints;
  histories, latents and counters live in separate maps with different
  lifetimes. Correct when the second pass is invisible, each update uses the
  prediction of its own step, and the maps stay consistent.
- **Decoding.** Token input, embedding, cache, position cursors and iteration
  count are written by different parts of a step, and a step ends anywhere
  between them. Correct when the cache is what the caller was told, positions
  are used once, a lane that stopped stays stopped, and a run ends within its
  budget and the maximum sequence length.
- **Telemetry.** A reset publishes a new slab while calls go on and some of them
  still hold the old one; a traced call reserves a record slot, searches a
  directory with no lock held, and comes back for the slot. Correct when the cap
  holds at all times, every call and every trace is counted in one epoch, and
  what a reader sees of an epoch only grows.
- **Manifest, package and dataflow.** What is refused at load is never checked
  again: the runtime orders components by a queue and validation looks for
  cycles depth first, the runtime resolves inputs by a chain of fallbacks and
  validation demands sources for them, the plan is made from declared shapes and
  the runtime meets real ones. Correct when what was accepted and planned is what
  a pass finds, and when a pass reads nothing an earlier pass left behind.

Every hazard that follows from this, with its line and the properties about it,
is listed under `hazards` in `PROJECT.json`.

## What is modelled, and where

Each definition that stands for code has the lines it stands for in `map` of
`PROJECT.json`. Definitions that a comment calls a mutant are plausible bugs:
with one in place of the definition it belongs to, the run finds the property
named in `mutants` violated.

### `AdmissionScheduler`, with `Admission` as its abstract specification

Actors are the application threads and, for every source, the claim that wins.
`mutex` is the scheduler's mutex and `cbMutex[s]` the mutex `Claim`, `Register`
and `Unregister` of source `s` take. A thread's `pc` follows `Acquire`: `poll`,
`enqueue`, `enqueueing` (pumping under the mutex), `register`, `wait`/`asleep`,
`unregister`, `settle`, `throw` or `repoll`, `running`, `release`, `releasing`,
and `unwind`, `abandon` when registering or waiting throws. `PumpLocked` is
stepped one iteration at a time, with its iterator in `cursor`.
`WaitFails` stands for `Register` or the condition variable throwing. Leases of a
kind that nothing limits are inert: they take no ticket and change nothing, so
`StartAcquire` leaves them out. A claim
is one reason (`ClaimWith`), then the callbacks one by one under `cbMutex`,
each of which takes the scheduler mutex. `recorded` collects what telemetry is
told about the acquisition in progress and `thrown` the error that leaves it.
Here a source's deadline is never, pending or due and the watchdog is the one
action `WatchdogClaim`; its loop is the next module.

`Admission` has two variables: the requests waiting in order and those that
hold a permit. `Abstract` maps the controller to it.

### `Cancellation`, with `CancellationPromise`

`CancellationState` and `DeadlineService` with their three mutexes
(`wait_mutex_`, `mutex_`, the service's), the lifetime of a state (strong
references in `owners`, the destructor disarms), `timer_` as whether its handle
is stored, and `Run` of the watchdog with its locals `due`, `scanned` and
`until`. `revision_` is kept as whether it moved since the worker read it. The
clock advances by ticks up to `MaxTime`; `kMaximumWait` is `MaximumWait` ticks.
A deadline of `Forever` is a saturated timeout.

`CancellationPromise` knows reasons, attached callbacks with how often each was
called, and waits; nothing else.

### `StageRuns`, with `ExclusiveRuns`

One session: its mutex, `active_run_id`, the handles and their flags, permits,
the data with snapshots, forks and checkpoints. Data are abstracted to the run
that changed them last and how many of its passes were applied. `Step` and
`Finish` look at the run (`StepCall`, `FinishCall`), queue (`Admit`), look again
under the mutex (`EnterRun`), execute (`Poll`, `Execute`, `Emit`, `Complete`),
give the permit back, and close a failed run in a critical section of its own
(`CloseFailed`). Finish and RunStage close it before they leave the mutex
(`Throw`). `Fork` is two critical sections (`Fork`, `ForkSnapshot`).

`ExclusiveRuns` is the session without threads: runs own it one after the other.

### `StageSteps`, with `SinglePassSteps`

One iterative or state-transition stage of a session that one thread uses, as
the mutex guarantees. A step binds its inputs (`Bind`, or `BindFails`, which
leaves the unconditional inputs stored), runs the components in topological
order (`RunComponent`), with guidance opens the window, runs them again and
combines (`OpenWindow`, `CloseWindow`), transforms the latents one by one
(`Transform`) and counts the iteration (`Count`). `Fail` leaves it at any point:
token polls, failing components, missing inputs and failing transforms are the
one action, as each of them unwinds the same way; `ComponentFails` is the
failure that has moved the position cursors already. Tensors are abstracted to
where they come from: an endpoint to the passes it was computed from and the
scheduler index it was computed at, a latent to the updates it received. UniPC
is kept as the sigma indices it reads and the history it keeps.
Left out: generated inputs other than position cursors, host overrides, absent
optional components, `disable_corrector`, and
connection transforms other than `scheduler_step`.

`SinglePassSteps` has one pass per step and no window.

### `DecodeStage`

The autoregressive stage of a session that one thread uses: an embedding of the
token input, a decoder that reads the embedding, position ids and a key-value
cache, and the executor with its lanes. `PromptStage` is the single-pass stage
that binds and embeds the prompt before. A step of a run (`RunStep`) or a direct
one (`DirectStep`) stores its inputs (`Enter`), embeds unless it reuses what the
prompt stage embedded (`Embed`), generates position ids and moves the cursors
(`ResolvePositions`), decodes (`Decode`), stores the cache (`Store`), counts the
iteration (`Count`) and, in a run, samples, rewrites the tokens of finished
lanes and feeds them back (`Emit`). `Fail` leaves it at any point, as in
`StageSteps`. `Begin` measures the budget and `BeginFails` leaves the inputs
stored. `ReleaseStage` is that of the stage the cache is released after.

A token tensor is a sequence of columns with a token per lane, an embedding the
tokens it is of, and a cache the columns the decoder appended, with their
positions. The sampled column is chosen from `Samples`: logits, sampling options
and the random engine are left out, and so are overrides and the attention mask.
Position ids have an axis of time and two of space. A constant, `Layout`, says
where on them the tokens of a prompt lie and at which position what follows them
starts; `TextLayout` and `GridLayout` are the layouts the code computes, of text
and of text around a picture of frames, rows and columns. In the second the
cursor moves past the rows and columns and not past the frames
(`pipeline_session.cpp:2302` and 2312), other than in the branch before it
(2229), so late frames may lie at or past the position that follows.
`past`, `prompt` and `stale` of a
run are history variables: what it began with, and whether it began with an
embedding of other tokens, which its first step then decodes in place of its
token input. Properties that speak of the conversation leave such runs out.

### `Telemetry`

`PipelineTelemetry` with one component and one stage, and the calls that record
into it. `slab` is the epoch of the published slab and `slabs` all slabs, so
that what is recorded into one that was replaced is seen; `building` is the slab
a `Reset` has not published yet. A thread's `scope` holds its stage scope and its
component scope with the slabs they took. An execution begins (`BeginExecution`),
makes calls (each critical section and each lock-free search of
`DiscoverTraceFile` is a step of its own; atomic updates that follow each other
and that no property tells apart are one), steps, completes
and ends; the record of a trace is reserved (`Reserve`), searched for
(`Discover`) and published (`Publish`). What a reader sees is the definition
`Snapshot`.
Counters of admission and transfers are sums recorded the same way, and left out.

### `Manifest`, `Package` and `Dataflow`

`Manifest` is `PipelineManifest::Parse` and `ValidateManifest` as operators over
documents: objects are functions, arrays sequences, endpoints pairs. A document
is accepted when `Parses` and `ValidateManifest` hold, and `ParseManifest` gives
the defaults. Wrong JSON types are left out.

`Package` loads one of the `Requests`: `ParseDocument`, `CheckPlacement`,
`OpenComponent` for one component after the other, `ResolveAssets`, `Construct`
(signatures are compared, the plan is computed). The files, what the graphs
declare and the devices on which ONNX Runtime places a component are choices of
the environment or part of the request.

A list of providers from which some were struck out keeps its positions and may
have gaps; only the order matters.

`Dataflow` extends it by a session that steps stages. A pass checks its inputs
(`StepStage`), finds the components that wait for none one by one (`AddSource`,
`EndSources`), orders the others one connection at a time (`PopReady`,
`DropEdge`, `NextPop`, `EndOrder`), resolves every input of each component
through overrides, transforms, states, external values, defaults, generators and
the features of an image encoder a call may ask for (`ResolvePort`), runs it
(`CallModel`), publishes the guided outputs of a guided stage (`PublishGuided`)
and stores the states (`StoreState`). The unconditional pass of guidance is in
`StageSteps`: here there is what remains of it, the values kept for it and the
host tensors its combination leaves in place of the guided outputs. A pass
fails at any point and leaves what it has stored. A tensor is known by the port
and the pass it was made in, its device and whether it was reshaped. The three
pipelines of `MCPackage` and the documents made from them by one mistake each
are its inputs: a decoder loop, a diamond with an optional component and an input
that an image may be routed to, and a guided diffusion pipeline of three stages.

## Runs

| Run | Instance | Shows |
|---|---|---|
| `admission_limits` | 3 threads, 2 kinds, global limit 2, one kind limited to 1, one source that is renewed | limits, no idle capacity, the oldest eligible waiter first; permits and outcomes when cancellations, deadlines and exceptions race grants |
| `admission_progress` | 3 threads, 2 kinds, global limit 2, one kind limited to 1, one source; two threads ask for the limited kind, one of them with a token, and the third for either kind | every acquisition returns if executions end; a stopped wait ends even if they do not; `Admission` with its fairness is implemented |
| `cancellation_calls` | 2 threads and the watchdog, 2 sources, deadlines 1, 2 and none, clock to 2 | no lost wake-up, callbacks only while registered, no stale entries |
| `cancellation_progress` | 2 threads and the watchdog, 1 source, deadline 2 or none | deadlines fire unpolled; claims, waits and unregistrations return; `CancellationPromise` with its fairness is implemented |
| `decode_stage` | 2 lanes, 3 tokens of which 2 stop, prompts of 1 and 2 columns of which the second is in one lane a picture of two frames, budgets to 3, sequences to 4, 1 failure | the cache against the emitted tokens, positions, finished lanes, the end of runs, the sequence limit |
| `stage_runs_calls` | 2 threads, 2 runs of up to 2 passes, 2 permits, no copies | the slot; calls on stale handles change nothing; a cancelled run stops; `ExclusiveRuns` is implemented, with two runs that own the session one after the other |
| `stage_runs_saved` | 2 threads, 1 run of 1 pass, 1 permit, one copy, one checkpoint name | copies are whole; every call returns |
| `stage_runs_failure` | 2 threads, 1 run of up to 2 passes | a violation, [see below](#disagreements-between-code-and-documentation) |
| `stage_steps` | 2 components, 2 latents released by different stages, UniPC of order 2 on a schedule of 2 steps, guidance on or off, 3 updates, 1 failure, calls that bind all inputs | the second pass is invisible; histories; accounting of updates; sigma indices; `SinglePassSteps` is implemented |
| `stage_steps_resume` | 1 latent, schedule of 3, calls that bind all inputs or none | a violation, see below |
| `telemetry` | 2 threads, 2 calls, 2 executions, 2 epochs, a cap of 1 record, 2 durations | the cap; calls and traces per epoch; readings that only grow |
| `package` | 31 loads of 16 documents on 1 to 3 placements of the devices, 2 or 3 passes of one session | sessions run where placed; components are ordered; inputs have sources, of this pass; the plan is what happens |

Why the bounds are enough. In the scheduler the interesting races are of a
waiter with its own callback, with another waiter for the permit and with the
thread that pumps: three threads contain them, with one permit of the limited
kind between two of them. Three threads and two permits are also what it takes
for a waiter of a full kind to be passed again and again, and for two waiters to
have an order. `admission_progress` fixes which thread asks for what
(`Acquisitions`) and whose waits may fail (`Failing`), which `admission_limits`
leaves open. In cancellation a
race involves a claimant, the owner of a registration or wait, and the
watchdog; two sources are what it takes to change the watchdog's earliest
deadline while it sleeps, and a deadline of 2 with waits of at most 1 makes it
sleep more than once. In a session a stale call needs a run that ended and a
newer one, hence two runs; a cancelled run needs two passes to run on. Copies are
in the run of their own, with one run of one pass; over two runs they are in the
proof of the refinement only. In the
steps two components give a window that is interrupted between them, two
latents a transform that is interrupted between them, and a failure a retry;
a schedule of two steps and `MaxUpdates` of three leave one update beyond the
schedule, whether it is the repeated update of a failed step or a step too many,
and give UniPC the history of order two it corrects.
In decoding a budget of 3 lets the two lanes stop in different steps before it is
spent, a request of 4 exceeds the limit, a prompt of 2 columns meets the maximum
sequence length of 4 before the budget, `MaxCache` lets runs begin on a cache of
one column, and the lane of the picture has a cursor below the length of the cache
and a late frame at that cursor.
In telemetry two calls under a cap of one are a record and a drop, or two calls
that race for the slot, and two epochs are enough for a scope to outlive its
slab. In the packages the bound is the set of documents: every port kind, every
transform the runtime executes without host overrides, an order of listing
against the flow, a cycle, and a join; two passes let a pass read
what the one before left, three reach the last stage of the diffusion pipeline.
`MaxRuns`, `MaxSteps`, `MaxTime`, `MaxUpdates`, `MaxCache`, `MaxFailures`,
`MaxEpoch`, `MaxCalls`, `MaxExecutions` and `MaxPasses` are
the only bounds on counters. Threads are symmetric where no liveness is checked.

The one-pass executor (`Iterative = FALSE`), guidance with Euler
(`Multistep = FALSE`), longer schedules and position ids without cursors
(`Cursored = FALSE`) have no run of their own: the proofs below cover these
values.

## Fairness and deadlock

- Scheduler: `WF` for a thread that is running and for the pump, `SF` for steps
  that first lock a mutex, since the standard mutex is handed on in the end and
  is free again and again; the watchdog fires what it holds
  (`cancellation_progress` is the check of that). Executions need not end:
  `AcquireReturns` assumes it as its premise, `CancellationEndsWait` and
  `ImplementsFairAdmission` do not.
- Cancellation: the same for its mutexes; time passes (`WF` of `Tick`). No call
  is ever assumed to be made.
- Runs: `SF` for admission and the session mutex. Admission is fair because
  `AcquireReturns` holds of the scheduler.
- Stage steps, decoding, telemetry and packages are checked for safety only: what
  they do is bounded work of one call, and what may block it (the session mutex,
  permits, a search of a directory) is in the modules above or outside.

`CHECK_DEADLOCK FALSE` stands where the modelled program may stop for good: in
`Cancellation` every thread may wait for a source that nobody stops and whose
clock is at its bound; in `StageRuns`, `StageSteps`, `DecodeStage` and
`Telemetry` runs, failures, updates, the cache, calls and epochs are bounded; a
load that is refused is over. The admission runs check deadlock.

## Proofs

Eight modules hold theorems; TLAPS checks every leaf. They are for any sets of
threads, kinds, sources, components, latents, lanes and tokens, any documents
and requests, and any limits and bounds.

- **`AdmissionSchedulerProofs`.** `IInv` of `AdmissionScheduler` is inductive:
  types, who holds which mutex (`LockInv`), what a position says of the waiter
  (`WaiterInv`), which registrations and callbacks exist (`RegistrationInv`),
  the queue, what the scan has passed (`ScanInv`) and the counters. Each part is
  needed: `PermitAccounting` alone does not survive `CancelWaiter` without
  knowing that the queue is exactly the ungranted waiters, and `WorkConserving`
  needs what the scan in progress has passed. Theorems: `TypeCorrect`,
  `PermitsAccounted`, `LimitsHold`, `QueueExact`, `NeverIdle`,
  `CallbacksConfined`, and the action property `OldestEligibleFirst`.
  `OutcomesAgree` needs two more invariants. `StoppedInv`: whoever has been
  cancelled, or is on the way to throw, has a source that stopped, so that the
  error `Throw` reads is that source's reason. `RecordedInv`: what telemetry was
  told so far is what the position in `Acquire` says it is. `ImplementsTheQueue`
  is the refinement of `Admission`: `PumpGrant` is the abstract `Grant`, where
  `ScanInv` says that what the scan passed does not fit and `PermitAccounting`
  turns counters into sets of permit holders; `CancelWaiterMark` and
  `AbandonQueued` withdraw, and every other step changes nothing in sight.
- **`CancellationLemmas` and `CancellationProofs`.** `IInv` of `Cancellation`
  says which actor owns a state and that the one destroying it is the last
  (`References`), what an actor's position says of its locals (`Positions`), that
  a mutex is held exactly in its critical sections (`MutexesHeld`), and, for
  every state of affairs that must not last, that some actor is about to end it:
  a waiter about to block on a claimed state (`WaitersSeen`), an entry whose
  handle is not stored (`EntriesFollowed`), an entry or a handle of a state that
  is claimed or dead (`NoStaleEntry`). `NoLostWakeup` needs `WaitersSeen`, one
  step before the block, and that needs `WaitMutexHeld`: only a claim that has
  not come to the wait mutex can find a waiter between its test and its block.
  `NoStaleEntry` needs `EntriesFollowed`, since a disarm that finds no handle
  ends with the entry still there, and someone else must remove it.
  `NeverOversleeps` needs to know of the awake but not yet returned worker that
  the schedule changed or still fits its deadline (`SleepsInTime`). The first
  module begins by reducing the ends of a disarm, the release of a reference and the
  firing of an entry to what they do to the state (`Ended`, `Released`,
  `Fired`), so that no later proof opens those actions. `ImplementsThePromise` is
  the refinement of `CancellationPromise`. It needs `PromiseInv` besides: a claim
  stands as long as an actor works on it or a waiter that saw it has not left
  (`ClaimsStand`), which is where the lifetime of states comes in, since a
  destructor takes the reason away; and a callback that waits to be called has
  not been called (`CallsCounted`). Most steps show nothing (`Quiet`); the
  destructor is a `Renew` or, for a source that never stopped, a stutter.
- **`StageRunsProofs`.** `IInv` of `StageRuns` adds to the safety properties who
  is inside the mutex and on which run (`CallsAgree`), that runs not begun are
  untouched (`RunsAgree`) and that a pass in progress is the first after a stop
  (`PassesStop`). Theorems for each property, `EndedRunsStayEnded` as an action
  property, and `RefinesExclusiveRuns`: every step of the session is a step of
  `ExclusiveRuns` or changes nothing it sees.
- **`StageStepsProofs`.** `IInv` of `StageSteps` adds what the window and the
  snapshot hold (`ScratchInv`) and which pass and index every output computed so
  far comes from (`StepInv`). `UpdatesUseTheirPrediction` follows from `StepInv`
  at the transform, and `RefinesSinglePass` from `ScratchInv`: while the window
  is open the abstract step sees what the window saved.
  `HistoriesFollowLatents`, `UpdatesAreAccountedFor` and `SigmasStayInRange` rest
  on `HistoryInv`, `UpdatesInv` and `ScheduleInv`. The properties speak of whole
  steps, so the invariants count what the step in progress has advanced already
  (`Due`), and they speak of the snapshot too, since `Restore` makes it the
  session. One lemma to each action says which latents, histories and counters
  it moves (the action as its effect), and the invariants use only those. The
  last theorem needs the first: that sigmas stay in range depends on how long a
  history can be, and that on how often its latent was advanced.
- **`DecodeStageProofs`.** `IInv` of `DecodeStage` adds where the cursors lie
  (`PositionInv`): no lower than where any cached step left off, here and in the
  snapshot, which on the axes of space is past all it cached, and on that of
  time past all but the late frames of a picture. It adds
  that the latch is the set of lanes that emitted a stop token (`LatchInv`), and
  what token input, embedding and cache hold at each point of a step
  (`StepInv`). `PositionsIncrease` alone is not inductive: a step appends at the
  cursors, and nothing in it says where those are. `CacheFollowsRun` needs that
  the iterations are positive once a run has emitted, since that is what keeps
  the second step from reusing the embedding of the first.
- **`TelemetryProofs`.** `IInv` of `Telemetry` adds to the types who holds which
  slab (`ScopesHoldSlabs`), that trace ids are handed out once (`TraceIdsTaken`),
  that the slots reserved in a slab are its records and the calls that still look
  for their file (`SlotsAccountedFor`), and what each total has taken in
  (`DurationsCounted`). `TelemetryTypes` needs `SlotsAccountedFor`: that the
  count of pending slots does not fall below zero when a slot is given back is
  a fact about the thread that gives it back. `TracesStayWithinCap`,
  `RecordsKeepTheirTrace`, `MaximumIsInBetween` and the action property
  `ResetTakesNothingBack` follow. `CallsAreAccountedFor` compares the calls of a
  slab with the threads in their midst; its invariant, `AccountsInv`, adds that a
  call that reserved a slot is traced to its end (`TracedToTheEnd`). The proof
  counts threads: a step moves one of them, so each of the sets counted gains or
  loses that one at most, and the counters move along.
- **`DataflowProofs`.** The first part draws from `Parses` and `ValidateManifest`
  what execution rests on (`Sound`): names that identify components, ports,
  stages and states, connections between ports that exist, one source for each
  input, a generator with one source at most, a recurrent connection under each
  state. The second proves `DataflowInv` inductive. `LoadInv` says that what is
  open so far is the head of the component list, opened with the providers
  resolved for it. `OrderInv` is the counting of `TopologicalComponents`: the
  counter of a component is the number of connections it still waits for
  (`Counted`), and it has been queued exactly when there are none
  (`QueuedOnceFree`); when the queue runs dry, the components that are left would
  all wait for each other, which `Acyclic` excludes. `PassInv` says what the
  inputs resolved so far carry, component by component (`RanInv`) and port by port
  (`TakenFrom`, `GeneratedFrom`), and `DevicesInv` where the tensors of models
  are, in ports and in states, as long as they are the model's own: a guided
  output is replaced by a tensor of the host. Theorems for all six properties of
  the run:
  `StagesAreAlwaysOrdered`, `EveryInputsSourceIsThere`, `InputsAreOfThisPass`,
  `GeneratedInputsAreOfThisPass`, `ThePlanIsHonest` and
  `SessionsRunOnlyWherePlaced`. `EveryInputHasASource` speaks of a pass that has
  failed: its invariant (`FailureInv`, in the proofs) carries how it failed on to
  the next pass.

Assumptions are the `ASSUME`s of the modules: finite sets of threads, special
values that are no element of the sets they are used with, positive limits, a
topological order; and of the packages, that the arrays of a document are
sequences (`DocumentsAssumption`; the parser hands nothing else over) and that
`cpu` is its own normal form (`ProviderNamesAssumption`). TLC evaluates them in
every run.

Model-checked only: liveness, and the two refinements with fairness,
`ImplementsFairAdmission` and `ImplementsFairPromise`, whose safety halves are
the theorems `ImplementsTheQueue` and `ImplementsThePromise`. Liveness under
fairness, `ENABLED` and induction over data are beyond the prover, so properties
that rest on them stay with TLC. No module declares a `RECURSIVE` operator.

## Disagreements between code and documentation

- `stage_runs_failure` (`FailureEndsRun`): `StageRun::Step` leaves the session
  mutex with the exception of a failing step and takes it again to close the
  run. A `Step` or `Finish` of the same handle that waits for the mutex goes on
  with the failed run in between. `pipeline.hpp:972` and `stage_executor.cpp:5`
  promise that the failure closes it.
- `stage_steps_resume` (`ResumedRunsPerformTheRest`): latents are advanced
  before the iteration is counted, with a poll in between. A step that is
  cancelled there is performed again by the run that resumes the stage, on
  latents that have moved. `stage_executor_iterative.cpp:5` and
  `tests/cpp/pipeline_stream_test.cpp:1052` say that only the remaining steps
  are performed.

Disagreements that a reading of both showed and that have no run of their own:

- Executions that began before a telemetry reset record their later calls, steps
  and completion in the new epoch, because those recorders load the slab afresh
  (`pipeline_telemetry.cpp:543`); `pipeline.hpp:738` and
  `docs/pipeline-api.md:311` speak of the epoch a call or stage entered in. The
  properties of `Telemetry` say what does hold.
- `pipeline.hpp:128` says that a manifest with a required capability outside a
  fixed set is rejected; validation also accepts what its own components and
  stages provide.
- `docs/pipeline-api.md:657` calls a reshape direct only for identical static
  shapes; `ClassifyTransfer` calls equal dynamic shapes direct too when the
  transform names no shape (`pipeline.cpp:584`).
- A generated input that is listed before the port it is generated from takes the
  port's value of the previous pass, and does not see an override of it.
  `GeneratedFromThisPass` is therefore about generators whose sources come first,
  and about calls that override neither.
- Some accepted manifests cannot run without a host override: transforms the
  runtime has no code for, and a `scheduler_step` without `state` or `stage`.
- `failed_traces` counts more than its descriptions say. `pipeline.hpp:762`,
  `docs/pipeline-api.md:228` and `python/onnx_world_model/_api.py:423` speak of kept records whose file
  could not be identified, `pipeline_telemetry.hpp:140` of reserved ones. The
  code also counts calls whose prefix could not be built
  (`pipeline_telemetry.cpp:607`) and records that could not be built or
  appended (710), which leave no record. `CallsAccountedFor` says what the
  counters do add up to.
- A telemetry reading loads its counters one after the other
  (`PipelineTelemetry::Snapshot`), while calls record. What it reports of an
  epoch need not be of one moment: a call that ends in between can be in the
  maximum and not in the total. The properties speak of each counter.
- `docs/pipeline-api.md:654` claims `direct` only where nothing sits between the
  ports. The plan does not look at guidance, which combines its outputs on the
  host (`pipeline_session.cpp:3086`): a connection from a guided output is
  called direct and, on a device, copied all the same. `PlanIsHonest` leaves such tensors out.
- The cursor of a picture does not move past its frames
  (`pipeline_session.cpp:2312`, unlike 2229), so on the axis of time a token of
  the picture can lie at or past the tokens that follow it. No document says
  otherwise; `PositionsIncrease` leaves these tokens out on that axis.
- A `scheduler_step` that is not recurrent and whose state has no value asks for
  its own target (`pipeline_session.cpp:2728`), which asks for it again without
  end. Validation accepts it. In `Dataflow` resolving it fails.
- Two comments promise more than their code: the sum of the outcome counters
  (`pipeline_scheduler.cpp:289`) and the sanitised name of a component in trace
  files.

## Not modelled

- **Tensor storage.** Typed host buffers and conversions. Its one concurrent step,
  copy on write (`tensor.cpp:314`), is safe as long as a handle is used by one
  thread at a time; that is a rule for callers, and a model would assume it.
- **Rollout.** A sequential loop over one model with no branch but its checks.
- **Python API and bindings.** Conversions, and wrappers that release the
  interpreter lock around calls modelled here.
- **Provider registration, plug-in libraries and the tensors of ONNX Runtime**:
  outside the repository, seen through what `Package` and `Dataflow` assume.
- **Numbers**: what models, schedulers, samplers and transforms compute; only
  which values they read, in which order, and how often.
- Inside the modelled components: moves of handles; overrides and absent
  components in the second pass of guidance and while decoding (`Dataflow` has
  them in the passes it models); unlimited kinds, whose leases do nothing;
  `disable_corrector`, wrong JSON types, and error texts.

## Plan

What would be worth adding next: a session over the scheduler, cancellation and
telemetry in one module (lock order between the session, scheduler and callback
mutexes, and the termination of a running ONNX Runtime call).
