----------------------------- MODULE Telemetry -----------------------------
(***************************************************************************)
(* detail::PipelineTelemetry: the collector every session of a Pipeline    *)
(* records into.  Counters live in a slab, one slab per epoch.  A          *)
(* TelemetryComponentScope and a TelemetryStageScope load the published    *)
(* slab once and keep it; every other recorder loads it afresh; Reset      *)
(* publishes a new slab and stops nobody.  A traced component call         *)
(* reserves a record slot, looks for its trace file with no lock held,     *)
(* and then publishes its record.  A critical section, a search and each   *)
(* load of a Snapshot is a step.  So is an atomic update, except where     *)
(* updates follow each other that no property tells apart: those are one.  *)
(*                                                                         *)
(* The model has one component and one stage: their entries are updated    *)
(* independently of those of other names.  A call presents one unit of     *)
(* input.  The model call itself is Model::Run over a ModelBackend: it     *)
(* polls its token, validates, runs, and lets the token and not the error  *)
(* decide whether it was stopped.                                          *)
(***************************************************************************)
EXTENDS Naturals, Sequences, FiniteSets, SequencesExt, FiniteSetsExt

CONSTANTS
    Threads,          \* threads that execute stages
    MaxTraceRecords,  \* PipelineTelemetryOptions::max_trace_records
    Durations,        \* measured durations of a call, in nanoseconds
    StopReasons,      \* the CancellationReasons tokens may be stopped for
    MaxEpoch,         \* bound: the last epoch a Reset may open
    MaxCalls,         \* bound: component calls of all threads together
    MaxExecutions     \* bound: stage executions of all threads together

(* What ValidatePipelineTelemetryOptions lets through when a trace         *)
(* directory is configured.                                                *)
ASSUME OptionsAssumption == MaxTraceRecords \in Nat \ {0}
ASSUME ThreadsAssumption == IsFiniteSet(Threads)
ASSUME DurationsAssumption == Durations \subseteq Nat
ASSUME ReasonsAssumption == StopReasons \subseteq {"cancelled", "deadline_exceeded"}
ASSUME BoundsAssumption == MaxEpoch \in Nat \ {0} /\ {MaxCalls, MaxExecutions} \subseteq Nat

VARIABLES
    slab,           \* slab_: the epoch of the published slab
    next_epoch,     \* next_epoch_
    building,       \* the epoch Reset builds under reset_mutex_, 0 when none
    slabs,          \* the TelemetrySlab of each epoch
    next_trace_id,  \* NextProcessTraceId
    scope           \* per thread: its execution's and its call's scope objects

collectorVars == <<slab, next_epoch, building>>
vars == <<collectorVars, slabs, next_trace_id, scope>>

-----------------------------------------------------------------------------
Epochs   == 1..MaxEpoch
(* PipelineCallOutcome: a stopped call ends with the reason of its token.  *)
Outcomes == {"success", "failure", "cancelled", "deadline_exceeded"}
NoCounts == [o \in Outcomes |-> 0]

(* PipelineTraceRecord; its path and size are present exactly when         *)
(* profiling_failed is FALSE.                                              *)
TraceRecord == [epoch : Epochs, trace_id : Nat, outcome : Outcomes,
                duration_ns : Nat, profiling_failed : BOOLEAN]

(* TelemetrySlab: the entries of the component (calls is its four outcome  *)
(* counters) and of the stage, the transfers, and the trace state.         *)
TelemetrySlab ==
    [calls : [Outcomes -> Nat], input : Nat, total : Nat, maximum : Nat,
     executions : [Outcomes -> Nat], steps : Nat, completions : Nat,
     records : Seq(TraceRecord), pending : Nat, dropped : Nat,
     failed : Nat]

(* BuildSlab: every entry is there from the start, with zero counters.     *)
EmptySlab ==
    [calls |-> NoCounts, input |-> 0, total |-> 0, maximum |-> 0,
     executions |-> NoCounts, steps |-> 0, completions |-> 0,
     records |-> <<>>, pending |-> 0, dropped |-> 0, failed |-> 0]

(* The stage scope holds exec, the component scope call; 0 is no slab.     *)
Positions == {"idle", "stage", "scoped", "running", "ended", "raise",
              "reserve", "discover", "publish", "recorded", "leaving"}
Scope == [at : Positions, exec : Epochs \cup {0}, call : Epochs \cup {0},
          trace_id : Nat, traced : BOOLEAN, wrote : BOOLEAN,
          stop : StopReasons \cup {"none"}, outcome : Outcomes, duration : Nat,
          observed : Nat, missing : BOOLEAN]
NoScope == [at |-> "idle", exec |-> 0, call |-> 0, trace_id |-> 0,
            traced |-> FALSE, wrote |-> FALSE, stop |-> "none",
            outcome |-> "success", duration |-> 0, observed |-> 0,
            missing |-> FALSE]

Init ==
    /\ slab = 1 /\ next_epoch = 2 /\ building = 0
    /\ slabs = [e \in Epochs |-> EmptySlab]
    /\ next_trace_id = 1
    /\ scope = [t \in Threads |-> NoScope]

-----------------------------------------------------------------------------
(* Reset.  reset_mutex_ is held from BuildSlab to the store that publishes *)
(* the slab; recorders never take it.                                      *)
ResetBuild ==
    /\ building = 0
    /\ next_epoch <= MaxEpoch
    /\ building' = next_epoch
    /\ next_epoch' = next_epoch + 1
    /\ UNCHANGED <<slab, slabs, next_trace_id, scope>>

(* Mutant: Reset empties the published slab instead of building another.   *)
ResetInPlace ==
    /\ building # 0
    /\ slabs' = [slabs EXCEPT ![slab] = EmptySlab]
    /\ building' = 0
    /\ UNCHANGED <<slab, next_epoch, next_trace_id, scope>>
ResetPublish ==
    /\ building # 0
    /\ slab' = building
    /\ building' = 0
    /\ UNCHANGED <<next_epoch, slabs, next_trace_id, scope>>

-----------------------------------------------------------------------------
Own == <<collectorVars, slabs, next_trace_id>>
Shared == <<collectorVars, next_trace_id>>
At(t, position) == scope[t].at = position
Goto(t, position) == scope' = [scope EXCEPT ![t].at = position]

Total(counts) == counts["success"] + counts["failure"] + counts["cancelled"]
                    + counts["deadline_exceeded"]
ExecutionsBegun ==
    MapThenSumSet(LAMBDA e : Total(slabs[e].executions), Epochs)
        + Cardinality({t \in Threads : ~At(t, "idle")})

(* RecordStageExecution opens the stage scope once the permit is granted.  *)
BeginExecution(t) ==
    /\ At(t, "idle")
    /\ ExecutionsBegun < MaxExecutions
    /\ scope' = [scope EXCEPT ![t].at = "stage", ![t].exec = slab]
    /\ UNCHANGED Own

(* The token of the execution may be stopped while a call is under way.    *)
Stop(t) ==
    /\ scope[t].at \in {"scoped", "running"}
    /\ scope[t].stop = "none"
    /\ \E r \in StopReasons : scope' = [scope EXCEPT ![t].stop = r]
    /\ UNCHANGED Own

(* TelemetryComponentScope: load the slab, take a trace id, build the      *)
(* prefix (which may fail, and is then counted as a failed trace), charge  *)
(* the input, start the clock.                                             *)
BeginCall(t) ==
    /\ At(t, "stage")
    /\ next_trace_id <= MaxCalls
    /\ \E prefix \in BOOLEAN :
          /\ scope' = [scope EXCEPT ![t].at = "scoped", ![t].call = slab,
                                    ![t].trace_id = next_trace_id,
                                    ![t].traced = prefix]
          /\ slabs' = [slabs EXCEPT ![slab].input = @ + 1,
                         ![slab].failed = IF prefix THEN @ ELSE @ + 1]
    /\ next_trace_id' = next_trace_id + 1
    /\ UNCHANGED collectorVars

(* RecordSuccess and RecordCurrentException hand the outcome over; the     *)
(* clock is read first of all.                                             *)
CallEnds(t, how) ==
    \E d \in Durations :
        scope' = [scope EXCEPT ![t].at = "ended", ![t].outcome = how,
                               ![t].duration = d]

(* Model::Run polls the token and validates the inputs; the backend polls  *)
(* again, binds, turns profiling on for this run and starts the session.   *)
EnterModel(t) ==
    /\ At(t, "scoped")
    /\ \/ scope[t].stop # "none" /\ CallEnds(t, scope[t].stop)
       \/ CallEnds(t, "failure")
       \/ /\ scope[t].stop = "none"
          /\ scope' = [scope EXCEPT ![t].at = "running",
                                    ![t].wrote = scope[t].traced]
    /\ UNCHANGED Own

(* The session returned or threw.  A stopped token turns an ONNX Runtime   *)
(* failure and a late success into the reason it holds; a failure to       *)
(* validate the outputs stays a failure.                                   *)
LeaveModel(t) ==
    /\ At(t, "running")
    /\ \/ scope[t].stop # "none" /\ CallEnds(t, scope[t].stop)
       \/ scope[t].stop = "none" /\ CallEnds(t, "success")
       \/ CallEnds(t, "failure")
    /\ UNCHANGED Own

-----------------------------------------------------------------------------
(* TelemetryComponentScope::RecordOutcome: the outcome bucket, the total,  *)
(* and the load RaiseCounterMaximum starts with.                           *)
(* Mutant: the outcome is counted in the slab published by now.            *)
CountOutcomeNow(t) ==
    /\ At(t, "ended")
    /\ slabs' = [slabs EXCEPT ![slab].calls[scope[t].outcome] = @ + 1,
                              ![slab].total = @ + scope[t].duration]
    /\ scope' = [scope EXCEPT ![t].at = "raise",
                              ![t].observed = slabs[scope[t].call].maximum]
    /\ UNCHANGED Shared
CountOutcome(t) ==
    LET e == scope[t].call IN
    /\ At(t, "ended")
    /\ slabs' = [slabs EXCEPT ![e].calls[scope[t].outcome] = @ + 1,
                              ![e].total = @ + scope[t].duration]
    /\ scope' = [scope EXCEPT ![t].at = "raise",
                              ![t].observed = slabs[e].maximum]
    /\ UNCHANGED Shared

AfterMaximum(t) == IF scope[t].traced THEN "reserve" ELSE "recorded"

(* Mutant: the maximum is stored without comparing what is there now.      *)
RaiseBlindly(t) ==
    /\ At(t, "raise")
    /\ IF scope[t].duration > scope[t].observed
       THEN slabs' = [slabs EXCEPT ![scope[t].call].maximum = scope[t].duration]
       ELSE UNCHANGED slabs
    /\ Goto(t, AfterMaximum(t))
    /\ UNCHANGED Shared
(* Its compare-exchange, repeated with the value it observed while that is *)
(* lower and has changed.                                                  *)
RaiseMaximum(t) ==
    LET now == slabs[scope[t].call].maximum
        mine == scope[t].duration
    IN  /\ At(t, "raise")
        /\ \/ /\ mine <= scope[t].observed
              /\ Goto(t, AfterMaximum(t))
              /\ UNCHANGED slabs
           \/ /\ mine > scope[t].observed /\ now = scope[t].observed
              /\ slabs' = [slabs EXCEPT ![scope[t].call].maximum = mine]
              /\ Goto(t, AfterMaximum(t))
           \/ /\ mine > scope[t].observed /\ now # scope[t].observed
              /\ scope' = [scope EXCEPT ![t].observed = now]
              /\ UNCHANGED slabs
        /\ UNCHANGED Shared

-----------------------------------------------------------------------------
(* FinalizeTrace.  First critical section: drop the record at the cap, or  *)
(* reserve a slot.                                                         *)
(* Mutant: slots that are reserved and not yet filled are forgotten.       *)
FullOfRecords(e) == Len(slabs[e].records) >= MaxTraceRecords
Full(e) == Len(slabs[e].records) + slabs[e].pending >= MaxTraceRecords

Reserve(t) ==
    LET e == scope[t].call IN
    /\ At(t, "reserve")
    /\ \/ /\ Full(e)
          /\ slabs' = [slabs EXCEPT ![e].dropped = @ + 1]
          /\ Goto(t, "recorded")
       \/ /\ ~Full(e)
          /\ slabs' = [slabs EXCEPT ![e].pending = @ + 1]
          /\ Goto(t, "discover")
    /\ UNCHANGED Shared

(* DiscoverTraceFile: exactly one non-empty file among those the scan saw  *)
(* under the prefix.  What it sees is up to ONNX Runtime and the           *)
(* filesystem, but a session that never ran with this prefix wrote nothing *)
(* under it.                                                               *)
Listings(ran) == IF ran THEN {<<>>, <<"full">>, <<"empty">>, <<"full", "full">>}
                        ELSE {<<>>}
Identified(listing) == listing = <<"full">>

Discover(t) ==
    /\ At(t, "discover")
    /\ \E listing \in Listings(scope[t].wrote), refused \in BOOLEAN :
         LET missing == refused \/ ~Identified(listing) IN
         /\ scope' = [scope EXCEPT ![t].at = "publish", ![t].missing = missing]
         /\ slabs' = [slabs EXCEPT ![scope[t].call].failed =
                          IF missing THEN @ + 1 ELSE @]
    /\ UNCHANGED Shared

(* An allocation fails before the record exists: the catch block counts    *)
(* the failure once and gives the slot back.                               *)
Abandon(t) ==
    LET e == scope[t].call IN
    /\ At(t, "discover")
    /\ slabs' = [slabs EXCEPT ![e].failed = @ + 1, ![e].pending = @ - 1]
    /\ Goto(t, "recorded")
    /\ UNCHANGED Shared

RecordOf(t) ==
    [epoch |-> scope[t].call, trace_id |-> scope[t].trace_id,
     outcome |-> scope[t].outcome, duration_ns |-> scope[t].duration,
     profiling_failed |-> scope[t].missing]

(* Mutant: a failure that was counted is counted again when push_back      *)
(* fails.                                                                  *)
PublishCountsTwice(t) ==
    LET e == scope[t].call IN
    /\ At(t, "publish")
    /\ \/ slabs' = [slabs EXCEPT ![e].pending = @ - 1,
                                 ![e].records = Append(@, RecordOf(t))]
       \/ slabs' = [slabs EXCEPT ![e].pending = @ - 1, ![e].failed = @ + 1]
    /\ Goto(t, "recorded")
    /\ UNCHANGED Shared
(* Second critical section: the slot becomes the record.  push_back may    *)
(* fail after the slot was given back, which counts as a failed trace      *)
(* unless the discovery already did.                                       *)
Publish(t) ==
    LET e == scope[t].call IN
    /\ At(t, "publish")
    /\ \/ slabs' = [slabs EXCEPT ![e].pending = @ - 1,
                                 ![e].records = Append(@, RecordOf(t))]
       \/ slabs' = [slabs EXCEPT ![e].pending = @ - 1,
                        ![e].failed = IF scope[t].missing THEN @ ELSE @ + 1]
    /\ Goto(t, "recorded")
    /\ UNCHANGED Shared

-----------------------------------------------------------------------------
(* The component scope is destroyed when its part of the pass is over.     *)
(* RecordStageStep loads the slab that is published now; the execution     *)
(* goes on with its next step, or this was the one step it had to take.    *)
Passed(t) == At(t, "recorded") /\ scope[t].outcome = "success"
RecordStep(t) ==
    /\ Passed(t)
    /\ slabs' = [slabs EXCEPT ![slab].steps = @ + 1]
    /\ \E next \in {"stage", "leaving"} :
          scope' = [scope EXCEPT ![t] = [NoScope EXCEPT
                       !.at = next, !.exec = scope[t].exec, !.stop = scope[t].stop]]
    /\ UNCHANGED Shared

(* CompleteLocked: no step is left, after any number of steps or none.     *)
RecordCompletion(t) ==
    /\ At(t, "stage")
    /\ slabs' = [slabs EXCEPT ![slab].completions = @ + 1]
    /\ Goto(t, "leaving")
    /\ UNCHANGED Shared

(* TelemetryStageScope::RecordOutcome in the slab the scope holds: after   *)
(* the last step or the terminal event, with the error of the call that    *)
(* failed, or with what a poll or the host work around a call threw.       *)
EndExecution(t) ==
    /\ \E outcome \in Outcomes :
          /\ \/ At(t, "leaving") /\ outcome = "success"
             \/ At(t, "recorded") /\ ~Passed(t) /\ outcome = scope[t].outcome
             \/ /\ At(t, "stage") \/ Passed(t)
                /\ outcome \in {"failure"} \cup StopReasons
          /\ slabs' = [slabs EXCEPT ![scope[t].exec].executions[outcome] = @ + 1]
    /\ scope' = [scope EXCEPT ![t] = NoScope]
    /\ UNCHANGED Shared

-----------------------------------------------------------------------------
Reset == ResetBuild \/ ResetPublish
Execute(t) ==
    \/ BeginCall(t) \/ EnterModel(t) \/ LeaveModel(t) \/ CountOutcome(t)
    \/ RaiseMaximum(t) \/ Reserve(t) \/ Discover(t) \/ Abandon(t)
    \/ Publish(t) \/ RecordStep(t) \/ RecordCompletion(t) \/ EndExecution(t)

Next ==
    \/ \E t \in Threads :
          BeginExecution(t) \/ Stop(t) \/ Execute(t)
    \/ Reset

Spec == Init /\ [][Next]_vars

-----------------------------------------------------------------------------
TypeOK ==
    /\ slab \in Epochs /\ next_epoch \in 2..(MaxEpoch + 1)
    /\ building \in Epochs \cup {0}
    /\ slabs \in [Epochs -> TelemetrySlab]
    /\ next_trace_id \in 1..(MaxCalls + 1)
    /\ scope \in [Threads -> Scope]

(* At most max_trace_records records of an epoch are kept, counting the    *)
(* slots of the calls that are looking for their file with no lock held.   *)
(* (FinalizeTrace, pipeline_telemetry.cpp:666-715)                         *)
TracesWithinCap ==
    \A e \in Epochs : Len(slabs[e].records) + slabs[e].pending <= MaxTraceRecords

InCall(t, e, positions) == scope[t].call = e /\ scope[t].at \in positions
Started  == {"scoped", "running", "ended"}
Unsettled == {"raise", "reserve", "discover"}
Reserved == {"discover", "publish"}
CallsEnded(e) == Total(slabs[e].calls)

(* A call charges its input and its outcome to the same epoch, however     *)
(* many resets happen while it runs, and is accounted for there once: by a *)
(* kept record of an identified trace, as dropped, as a failed trace (a    *)
(* kept record of one included), or it is still looking for its file.  A   *)
(* call whose prefix could not be built is a failed trace from its start.  *)
(* So failed_traces is what the code counts: a prefix that was not built   *)
(* (pipeline_telemetry.cpp:607) and a record that could not be appended    *)
(* are in it and keep no record, where pipeline.hpp:762 speaks of kept     *)
(* and pipeline_telemetry.hpp:140 of reserved records.                     *)
(* (TelemetryComponentScope's slab_, RecordOutcome and FinalizeTrace)      *)
CallsAccountedFor ==
    \A e \in Epochs :
        LET started == Cardinality({t \in Threads : InCall(t, e, Started)})
            kept == Cardinality({i \in DOMAIN slabs[e].records :
                                   ~slabs[e].records[i].profiling_failed})
            looking == Cardinality({t \in Threads :
                \/ InCall(t, e, Unsettled) /\ scope[t].traced
                \/ InCall(t, e, {"publish"}) /\ ~scope[t].missing})
            failedEarly == Cardinality({t \in Threads :
                InCall(t, e, Started) /\ ~scope[t].traced})
        IN  /\ slabs[e].input = CallsEnded(e) + started
            /\ CallsEnded(e) + failedEarly =
                    kept + slabs[e].dropped + slabs[e].failed + looking

(* Each trace id, and so each file prefix, belongs to one call for ever:   *)
(* no two records of any epochs and no record and a call under way share   *)
(* one, and a record is kept in the slab of the epoch it names.            *)
RecordsOwnTheirTrace ==
    /\ \A e \in Epochs, f \in Epochs :
         \A i \in DOMAIN slabs[e].records, j \in DOMAIN slabs[f].records :
            slabs[e].records[i].trace_id = slabs[f].records[j].trace_id
                => e = f /\ i = j
    /\ \A e \in Epochs : \A i \in DOMAIN slabs[e].records :
         /\ slabs[e].records[i].epoch = e
         /\ \A t \in Threads :
              scope[t].trace_id = slabs[e].records[i].trace_id
                 => At(t, "recorded")

(* The longest call never exceeds the sum of all of them, and no kept      *)
(* record reports a longer one.  (RecordDuration, RaiseCounterMaximum)     *)
DurationsAgree ==
    \A e \in Epochs :
        /\ slabs[e].maximum <= slabs[e].total
        /\ \A i \in DOMAIN slabs[e].records :
              slabs[e].records[i].duration_ns <= slabs[e].maximum

-----------------------------------------------------------------------------
(* The inductive invariant.  Epochs are opened in order.                   *)
EpochsInOrder ==
    /\ slab < next_epoch
    /\ building # 0 => slab < building /\ building < next_epoch

(* A scope object holds the slab it loaded, and a call a trace id that no  *)
(* other call under way has and no later one will get.                     *)
CallPositions == Started \cup Unsettled \cup {"publish", "recorded"}

ScopesHoldSlabs ==
    \A t \in Threads :
        /\ ~At(t, "idle") => scope[t].exec \in Epochs
        /\ scope[t].at \in CallPositions =>
                scope[t].call \in Epochs /\ scope[t].trace_id # 0
        /\ scope[t].at \notin CallPositions =>
                scope[t].call = 0 /\ scope[t].trace_id = 0

TraceIdsTaken ==
    /\ \A t \in Threads : scope[t].trace_id < next_trace_id
    /\ \A t, u \in Threads :
         scope[t].trace_id = scope[u].trace_id /\ t # u => scope[t].trace_id = 0
    /\ \A e \in Epochs : \A i \in DOMAIN slabs[e].records :
         slabs[e].records[i].trace_id \in 1..(next_trace_id - 1)

(* Every reserved slot has a call that will fill it or give it back.       *)
SlotsHeld(e) == {t \in Threads : InCall(t, e, Reserved)}
SlotsAccountedFor ==
    \A e \in Epochs : slabs[e].pending = Cardinality(SlotsHeld(e))

(* Between the update of the total and that of the maximum a call is in    *)
(* the one and perhaps not in the other.                                   *)
DurationsCounted ==
    \A t \in Threads :
        /\ At(t, "raise") => /\ scope[t].duration <= slabs[scope[t].call].total
                             /\ scope[t].observed <= slabs[scope[t].call].maximum
        /\ scope[t].at \in {"reserve", "discover", "publish"} =>
                scope[t].duration <= slabs[scope[t].call].maximum

IInv ==
    /\ TypeOK
    /\ EpochsInOrder
    /\ ScopesHoldSlabs
    /\ TraceIdsTaken
    /\ RecordsOwnTheirTrace
    /\ SlotsAccountedFor
    /\ TracesWithinCap
    /\ DurationsCounted
    /\ DurationsAgree

(* Only a call that built its prefix settles a trace: with this,           *)
(* CallsAccountedFor is inductive.                                         *)
TracedToTheEnd ==
    \A t \in Threads : scope[t].at \in {"reserve", "discover"} => scope[t].traced
AccountsInv == CallsAccountedFor /\ TracedToTheEnd

-----------------------------------------------------------------------------
(* What Snapshot reports of the slab it loaded.  It loads field after      *)
(* field while calls go on, so a reading lies between the value of this at *)
(* its start and at its end.                                               *)
Snapshot(e) ==
    [epoch |-> e, calls |-> slabs[e].calls, total |-> slabs[e].total,
     maximum |-> slabs[e].maximum, executions |-> slabs[e].executions,
     steps |-> slabs[e].steps, completions |-> slabs[e].completions,
     dropped |-> slabs[e].dropped, failed |-> slabs[e].failed,
     traces |-> slabs[e].records]

(* Epochs never go back, and nothing ever takes back what a reading of an  *)
(* epoch could have reported: a Reset opens a slab and leaves the old one  *)
(* to the work in flight.  (Reset, pipeline_telemetry.cpp:368-376)         *)
SlabGrows(e) ==
    LET before == Snapshot(e)  after == Snapshot(e)' IN
    /\ \A o \in Outcomes : /\ after.calls[o] >= before.calls[o]
                           /\ after.executions[o] >= before.executions[o]
    /\ after.total >= before.total /\ after.maximum >= before.maximum
    /\ after.steps >= before.steps /\ after.completions >= before.completions
    /\ after.dropped >= before.dropped /\ after.failed >= before.failed
    /\ IsPrefix(before.traces, after.traces)
EpochsOnlyGrow == [][slab' >= slab /\ \A e \in Epochs : SlabGrows(e)]_vars

=============================================================================
