-------------------------- MODULE TelemetryProofs --------------------------
(***************************************************************************)
(* What the steps of Telemetry keep, for any threads, durations and        *)
(* bounds.  A step changes the scope object of one thread and counters of  *)
(* one slab: the first lemmas say which ones, action by action, and the    *)
(* proofs of the invariants use only those.                                *)
(***************************************************************************)
EXTENDS Telemetry, SequenceTheorems, FiniteSetTheorems, TLAPS

OthersStay(t) == \A u \in Threads \ {t} : scope'[u] = scope[u]
SamePlace(t) == /\ scope'[t].exec = scope[t].exec
                /\ scope'[t].call = scope[t].call
                /\ scope'[t].trace_id = scope[t].trace_id
RecordsStay  == \A x \in Epochs : slabs'[x].records = slabs[x].records
PendingStays == \A x \in Epochs : slabs'[x].pending = slabs[x].pending
TimesStay    == \A x \in Epochs : /\ slabs'[x].total = slabs[x].total
                                  /\ slabs'[x].maximum = slabs[x].maximum
(* What EpochsOnlyGrow asks of one slab.                                   *)
Grown(s, r) ==
    /\ \A o \in Outcomes : /\ r.calls[o] >= s.calls[o]
                           /\ r.executions[o] >= s.executions[o]
    /\ r.total >= s.total /\ r.maximum >= s.maximum
    /\ r.steps >= s.steps /\ r.completions >= s.completions
    /\ r.dropped >= s.dropped /\ r.failed >= s.failed
    /\ IsPrefix(s.records, r.records)
SlabsGrow == \A x \in Epochs : Grown(slabs[x], slabs'[x])
Typed == scope' \in [Threads -> Scope] /\ slabs' \in [Epochs -> TelemetrySlab]

-----------------------------------------------------------------------------
(* A step replaces one scope object.                                       *)
LEMMA ScopeStep ==
    ASSUME TypeOK, NEW t \in Threads, NEW r \in Scope, scope' = [scope EXCEPT ![t] = r]
    PROVE  scope' \in [Threads -> Scope] /\ scope'[t] = r /\ OthersStay(t)
BY DEF TypeOK, OthersStay

LEMMA PrefixIs ==
    ASSUME NEW s, NEW r, Len(s) <= Len(r), SubSeq(s, 1, Len(s)) = SubSeq(r, 1, Len(s))
    PROVE  IsPrefix(s, r)
BY DEF IsPrefix

(* A list of records is a prefix of one with a record more.                *)
LEMMA PrefixOfLonger ==
    ASSUME NEW s \in Seq(TraceRecord), NEW z \in TraceRecord
    PROVE  IsPrefix(s, Append(s, z))
<1>1. Append(s, z) \in Seq(TraceRecord) /\ Len(Append(s, z)) = Len(s) + 1
  OBVIOUS
<1>2. SubSeq(Append(s, z), 1, Len(s)) = SubSeq(s, 1, Len(s))
  <2>1. \A i \in 1..Len(s) : Append(s, z)[i] = s[i]
    OBVIOUS
  <2> QED BY <1>1, <2>1
<1>3. Len(s) \in Nat /\ Len(s) <= Len(Append(s, z))
  BY <1>1
<1> QED BY <1>2, <1>3, PrefixIs

(* Publishing a record leaves the earlier ones in place.                   *)
LEMMA RecordAppended ==
    ASSUME NEW s \in Seq(TraceRecord), NEW z
    PROVE  /\ DOMAIN Append(s, z) = 1..(Len(s) + 1) /\ DOMAIN s = 1..Len(s)
           /\ Append(s, z)[Len(s) + 1] = z
           /\ \A i \in 1..Len(s) : Append(s, z)[i] = s[i]
OBVIOUS

LEMMA SlabGrownSelf ==
    ASSUME NEW s \in TelemetrySlab
    PROVE  Grown(s, s)
<1>1. IsPrefix(s.records, s.records)
  BY DEF IsPrefix, TelemetrySlab
<1> QED BY <1>1 DEF Grown, TelemetrySlab

LEMMA NothingTaken ==
    ASSUME TypeOK, slabs' = slabs
    PROVE  SlabsGrow
BY SlabGrownSelf DEF TypeOK, SlabsGrow

(* A step replaces one slab.                                               *)
LEMMA SlabStep ==
    ASSUME TypeOK, NEW e \in Epochs, NEW s \in TelemetrySlab, Grown(slabs[e], s),
           slabs' = [slabs EXCEPT ![e] = s]
    PROVE  /\ slabs' \in [Epochs -> TelemetrySlab] /\ slabs'[e] = s
           /\ \A x \in Epochs \ {e} : slabs'[x] = slabs[x]
           /\ SlabsGrow
<1>1. /\ slabs' \in [Epochs -> TelemetrySlab] /\ slabs'[e] = s
      /\ \A x \in Epochs \ {e} : slabs'[x] = slabs[x] /\ slabs[x] \in TelemetrySlab
  BY DEF TypeOK
<1>2. SlabsGrow
  BY <1>1, SlabGrownSelf DEF SlabsGrow
<1> QED BY <1>1, <1>2

(* The fields of a scope object and of a slab.                             *)
LEMMA ScopeFields ==
    ASSUME TypeOK, NEW t \in Threads
    PROVE  /\ scope[t] \in Scope /\ scope[t].at \in Positions
           /\ scope[t].exec \in Epochs \cup {0} /\ scope[t].call \in Epochs \cup {0}
           /\ scope[t].trace_id \in Nat /\ scope[t].traced \in BOOLEAN
           /\ scope[t].outcome \in Outcomes /\ scope[t].stop \in StopReasons \cup {"none"}
           /\ scope[t].duration \in Nat /\ scope[t].observed \in Nat
           /\ scope[t].missing \in BOOLEAN
<1>1. scope[t] \in Scope
  BY DEF TypeOK
<1> QED BY <1>1 DEF Scope

LEMMA SlabFields ==
    ASSUME TypeOK, NEW e \in Epochs
    PROVE  /\ slabs[e] \in TelemetrySlab
           /\ slabs[e].calls \in [Outcomes -> Nat] /\ slabs[e].executions \in [Outcomes -> Nat]
           /\ slabs[e].input \in Nat /\ slabs[e].total \in Nat /\ slabs[e].maximum \in Nat
           /\ slabs[e].steps \in Nat /\ slabs[e].completions \in Nat
           /\ slabs[e].records \in Seq(TraceRecord) /\ slabs[e].pending \in Nat
           /\ slabs[e].dropped \in Nat /\ slabs[e].failed \in Nat
<1>1. slabs[e] \in TelemetrySlab
  BY DEF TypeOK
<1> QED BY <1>1 DEF TelemetrySlab

(* A call under way holds a slab.                                          *)
LEMMA CallHoldsSlab ==
    ASSUME ScopesHoldSlabs, NEW t \in Threads, scope[t].at \in CallPositions
    PROVE  scope[t].call \in Epochs /\ scope[t].trace_id # 0 /\ scope[t].exec \in Epochs
BY DEF ScopesHoldSlabs, At, CallPositions, Started, Unsettled

(* A call that looks for its file holds a slot.                            *)
LEMMA SlotIsHeld ==
    ASSUME TypeOK, ScopesHoldSlabs, SlotsAccountedFor,
           NEW t \in Threads, scope[t].at \in Reserved
    PROVE  slabs[scope[t].call].pending >= 1
<1> DEFINE e == scope[t].call
<1>1. e \in Epochs
  BY CallHoldsSlab DEF Reserved, CallPositions, Unsettled
<1>2. IsFiniteSet(SlotsHeld(e)) /\ t \in SlotsHeld(e)
  BY ThreadsAssumption, FS_Subset DEF SlotsHeld, InCall
<1>3. Cardinality(SlotsHeld(e)) \in Nat /\ Cardinality(SlotsHeld(e)) # 0
  BY <1>2, FS_CardinalityType, FS_EmptySet
<1> QED BY <1>1, <1>3 DEF SlotsAccountedFor

-----------------------------------------------------------------------------
(* The effects of the actions.                                             *)
LEMMA BeginExecutionEffect ==
    ASSUME TypeOK, NEW t \in Threads, BeginExecution(t)
    PROVE  /\ Typed /\ OthersStay(t) /\ slabs' = slabs
           /\ scope[t].at = "idle" /\ scope'[t].at = "stage" /\ scope'[t].exec = slab
           /\ scope'[t].call = scope[t].call /\ scope'[t].trace_id = scope[t].trace_id
<1> DEFINE r == [scope[t] EXCEPT !.at = "stage", !.exec = slab]
<1>1. "stage" \in Positions /\ slab \in Epochs /\ scope[t] \in Scope
  BY DEF TypeOK, Positions
<1>2. r \in Scope
  BY <1>1 DEF Scope
<1>3. scope' = [scope EXCEPT ![t] = r] /\ slabs' = slabs /\ scope[t].at = "idle"
  BY DEF BeginExecution, Own, At
<1>4. Typed /\ OthersStay(t) /\ scope'[t] = r
  BY <1>2, <1>3, ScopeStep DEF TypeOK, Typed
<1>5. /\ r.at = "stage" /\ r.exec = slab
      /\ r.call = scope[t].call /\ r.trace_id = scope[t].trace_id
  BY <1>1 DEF Scope
<1> QED BY <1>3, <1>4, <1>5

LEMMA StopEffect ==
    ASSUME TypeOK, NEW t \in Threads, Stop(t)
    PROVE  /\ Typed /\ OthersStay(t) /\ slabs' = slabs /\ SamePlace(t)
           /\ scope'[t].at = scope[t].at /\ scope[t].at \in {"scoped", "running"}
<1>1. PICK reason \in StopReasons : scope' = [scope EXCEPT ![t].stop = reason]
  BY DEF Stop
<1> DEFINE r == [scope[t] EXCEPT !.stop = reason]
<1>2. scope[t] \in Scope
  BY DEF TypeOK
<1>3. r \in Scope
  BY <1>1, <1>2 DEF Scope
<1>4. scope' = [scope EXCEPT ![t] = r] /\ slabs' = slabs /\ scope[t].at \in {"scoped", "running"}
  BY <1>1 DEF Stop, Own
<1>5. Typed /\ OthersStay(t) /\ scope'[t] = r
  BY <1>3, <1>4, ScopeStep DEF TypeOK, Typed
<1> QED BY <1>2, <1>4, <1>5 DEF Scope, SamePlace

LEMMA BeginCallEffect ==
    ASSUME TypeOK, NEW t \in Threads, BeginCall(t)
    PROVE  /\ SlabsGrow
           /\ Typed /\ OthersStay(t) /\ RecordsStay /\ PendingStays /\ TimesStay
           /\ scope[t].at = "stage" /\ scope'[t].at = "scoped"
           /\ scope'[t].exec = scope[t].exec /\ scope'[t].call = slab
           /\ scope'[t].trace_id = next_trace_id
           /\ next_trace_id' = next_trace_id + 1 /\ next_trace_id <= MaxCalls
<1>1. PICK prefix \in BOOLEAN :
        /\ scope' = [scope EXCEPT ![t].at = "scoped", ![t].call = slab,
                                  ![t].trace_id = next_trace_id, ![t].traced = prefix]
        /\ slabs' = [slabs EXCEPT ![slab].input = @ + 1,
                       ![slab].failed = IF prefix THEN @ ELSE @ + 1]
  BY DEF BeginCall
<1> DEFINE r == [scope[t] EXCEPT !.at = "scoped", !.call = slab,
                                 !.trace_id = next_trace_id, !.traced = prefix]
           failed == IF prefix THEN slabs[slab].failed ELSE slabs[slab].failed + 1
           s == [slabs[slab] EXCEPT !.input = slabs[slab].input + 1, !.failed = failed]
<1>2. "scoped" \in Positions /\ slab \in Epochs /\ scope[t] \in Scope /\ next_trace_id \in Nat
  BY BoundsAssumption DEF TypeOK, Positions
<1>3. slabs[slab] \in TelemetrySlab /\ slabs[slab].input + 1 \in Nat /\ failed \in Nat
  BY <1>2, SlabFields
<1>4. r \in Scope
  BY <1>1, <1>2 DEF Scope
<1>5. s \in TelemetrySlab /\ Grown(slabs[slab], s)
  <2>1. s \in TelemetrySlab
    BY <1>3 DEF TelemetrySlab
  <2>2. /\ s.calls = slabs[slab].calls /\ s.executions = slabs[slab].executions
        /\ s.total = slabs[slab].total /\ s.maximum = slabs[slab].maximum
        /\ s.steps = slabs[slab].steps /\ s.completions = slabs[slab].completions
        /\ s.dropped = slabs[slab].dropped /\ s.failed = failed
        /\ s.records = slabs[slab].records
    BY <1>3 DEF TelemetrySlab
  <2>3. Grown(slabs[slab], slabs[slab])
    BY <1>3, SlabGrownSelf
  <2>4. failed >= slabs[slab].failed
    BY <1>2, SlabFields
  <2>5. Grown(slabs[slab], s)
    BY <2>2, <2>3, <2>4 DEF Grown
  <2> QED BY <2>1, <2>5
<1>6. scope' = [scope EXCEPT ![t] = r] /\ slabs' = [slabs EXCEPT ![slab] = s]
  BY <1>1
<1>7. scope' \in [Threads -> Scope] /\ scope'[t] = r /\ OthersStay(t)
  BY <1>4, <1>6, ScopeStep
<1>8. /\ slabs' \in [Epochs -> TelemetrySlab] /\ slabs'[slab] = s
      /\ \A x \in Epochs \ {slab} : slabs'[x] = slabs[x]
      /\ SlabsGrow
  BY <1>2, <1>5, <1>6, SlabStep
<1>9. RecordsStay /\ PendingStays /\ TimesStay
  <2>1. /\ s.records = slabs[slab].records /\ s.pending = slabs[slab].pending
        /\ s.total = slabs[slab].total /\ s.maximum = slabs[slab].maximum
    BY <1>3 DEF TelemetrySlab
  <2> QED BY <1>8, <2>1 DEF RecordsStay, PendingStays, TimesStay
<1> QED BY <1>2, <1>7, <1>8, <1>9 DEF Scope, Typed, BeginCall, At

(* Handing over the outcome changes that and the position.                 *)
LEMMA CallEndsEffect ==
    ASSUME TypeOK, NEW t \in Threads, NEW how \in Outcomes, CallEnds(t, how), slabs' = slabs
    PROVE  Typed /\ OthersStay(t) /\ SamePlace(t) /\ scope'[t].at = "ended"
<1>1. PICK d \in Durations :
        scope' = [scope EXCEPT ![t].at = "ended", ![t].outcome = how, ![t].duration = d]
  BY DEF CallEnds
<1> DEFINE r == [scope[t] EXCEPT !.at = "ended", !.outcome = how, !.duration = d]
<1>2. scope[t] \in Scope /\ d \in Nat /\ "ended" \in Positions
  BY DurationsAssumption DEF TypeOK, Positions
<1>3. r \in Scope
  BY <1>2 DEF Scope
<1>4. scope' = [scope EXCEPT ![t] = r]
  BY <1>1
<1>5. Typed /\ OthersStay(t) /\ scope'[t] = r
  BY <1>3, <1>4, ScopeStep DEF TypeOK, Typed
<1> QED BY <1>2, <1>5 DEF Scope, SamePlace

LEMMA EnterModelEffect ==
    ASSUME TypeOK, NEW t \in Threads, EnterModel(t)
    PROVE  /\ Typed /\ OthersStay(t) /\ slabs' = slabs /\ SamePlace(t)
           /\ scope[t].at = "scoped" /\ scope'[t].at \in {"running", "ended"}
<1>1. slabs' = slabs /\ scope[t].at = "scoped"
  BY DEF EnterModel, Own, At
<1>2. ASSUME NEW how \in Outcomes, CallEnds(t, how)
      PROVE  Typed /\ OthersStay(t) /\ SamePlace(t) /\ scope'[t].at = "ended"
  BY <1>1, <1>2, CallEndsEffect
<1>3. ASSUME scope[t].stop # "none"
      PROVE  scope[t].stop \in Outcomes
  BY <1>3, ScopeFields, ReasonsAssumption DEF Outcomes
<1>4. CASE scope' = [scope EXCEPT ![t].at = "running", ![t].wrote = scope[t].traced]
  <2> DEFINE r == [scope[t] EXCEPT !.at = "running", !.wrote = scope[t].traced]
  <2>1. scope[t] \in Scope /\ scope[t].traced \in BOOLEAN /\ "running" \in Positions
    BY ScopeFields DEF Positions
  <2>2. r \in Scope
    BY <2>1 DEF Scope
  <2>3. scope' = [scope EXCEPT ![t] = r]
    BY <1>4
  <2>4. Typed /\ OthersStay(t) /\ scope'[t] = r
    BY <1>1, <2>2, <2>3, ScopeStep DEF TypeOK, Typed
  <2> QED BY <1>1, <2>1, <2>4 DEF Scope, SamePlace
<1>5. "failure" \in Outcomes
  BY DEF Outcomes
<1> QED BY <1>1, <1>2, <1>3, <1>4, <1>5 DEF EnterModel

LEMMA LeaveModelEffect ==
    ASSUME TypeOK, NEW t \in Threads, LeaveModel(t)
    PROVE  /\ Typed /\ OthersStay(t) /\ slabs' = slabs /\ SamePlace(t)
           /\ scope[t].at = "running" /\ scope'[t].at = "ended"
<1>1. slabs' = slabs /\ scope[t].at = "running"
  BY DEF LeaveModel, Own, At
<1>2. scope[t].stop # "none" => scope[t].stop \in Outcomes
  BY ScopeFields, ReasonsAssumption DEF Outcomes
<1>3. PICK how \in Outcomes : CallEnds(t, how)
  <2>1. "failure" \in Outcomes /\ "success" \in Outcomes
    BY DEF Outcomes
  <2> QED BY <1>2, <2>1 DEF LeaveModel
<1> QED BY <1>1, <1>3, CallEndsEffect

LEMMA CountOutcomeEffect ==
    ASSUME TypeOK, ScopesHoldSlabs, NEW t \in Threads, CountOutcome(t)
    PROVE  /\ SlabsGrow
           /\ Typed /\ OthersStay(t) /\ SamePlace(t) /\ RecordsStay /\ PendingStays
           /\ scope[t].at = "ended" /\ scope'[t].at = "raise"
           /\ scope'[t].duration = scope[t].duration
           /\ scope'[t].observed = slabs[scope[t].call].maximum
           /\ \A x \in Epochs :
                /\ slabs'[x].maximum = slabs[x].maximum
                /\ slabs'[x].total = slabs[x].total
                        + (IF x = scope[t].call THEN scope[t].duration ELSE 0)
<1> DEFINE e == scope[t].call
           c == [slabs[e].calls EXCEPT ![scope[t].outcome] = @ + 1]
           n == slabs[e].total + scope[t].duration
           r == [scope[t] EXCEPT !.at = "raise", !.observed = slabs[e].maximum]
           s == [slabs[e] EXCEPT !.calls = c, !.total = n]
<1>1. scope[t].at = "ended"
  BY DEF CountOutcome, At
<1>2. e \in Epochs
  BY <1>1, CallHoldsSlab DEF CallPositions, Started
<1>3. /\ slabs[e] \in TelemetrySlab /\ scope[t] \in Scope /\ slabs[e].maximum \in Nat
      /\ scope[t].outcome \in Outcomes /\ slabs[e].calls \in [Outcomes -> Nat]
      /\ slabs[e].total \in Nat /\ scope[t].duration \in Nat /\ "raise" \in Positions
  BY <1>2, SlabFields, ScopeFields DEF Positions
<1>4. c \in [Outcomes -> Nat] /\ n \in Nat
  BY <1>3
<1>5. n >= slabs[e].total /\ \A o \in Outcomes : c[o] >= slabs[e].calls[o]
  BY <1>3
<1> HIDE DEF c, n
<1>14. /\ s \in TelemetrySlab /\ Grown(slabs[e], s) /\ s.records = slabs[e].records
       /\ s.pending = slabs[e].pending /\ s.total = n /\ s.maximum = slabs[e].maximum
  <2>1. s \in TelemetrySlab
    BY <1>3, <1>4 DEF TelemetrySlab
  <2>2. /\ s.calls = c /\ s.executions = slabs[e].executions
        /\ s.total = n /\ s.maximum = slabs[e].maximum
        /\ s.steps = slabs[e].steps /\ s.completions = slabs[e].completions
        /\ s.dropped = slabs[e].dropped /\ s.failed = slabs[e].failed
        /\ s.records = slabs[e].records /\ s.pending = slabs[e].pending
    BY <1>3, <1>4 DEF TelemetrySlab
  <2>3. Grown(slabs[e], slabs[e])
    BY <1>3, <1>4, SlabGrownSelf
  <2> HIDE DEF s
  <2>4. Grown(slabs[e], s)
    BY <2>2, <2>3, <1>5 DEF Grown
  <2> QED BY <2>1, <2>2, <2>4
<1>6. r \in Scope
  BY <1>3 DEF Scope
<1>7. scope' = [scope EXCEPT ![t] = r] /\ slabs' = [slabs EXCEPT ![e] = s]
  BY DEF CountOutcome, c, n
<1>8. scope' \in [Threads -> Scope] /\ scope'[t] = r /\ OthersStay(t)
  BY <1>6, <1>7, ScopeStep
<1>9. /\ slabs' \in [Epochs -> TelemetrySlab] /\ slabs'[e] = s
      /\ \A x \in Epochs \ {e} : slabs'[x] = slabs[x]
      /\ SlabsGrow
  BY <1>2, <1>7, <1>14, SlabStep
<1>10. RecordsStay /\ PendingStays
  BY <1>9, <1>14 DEF RecordsStay, PendingStays
<1>11. slabs'[e].maximum = slabs[e].maximum /\ slabs'[e].total = n
  BY <1>9, <1>14
<1>12. \A x \in Epochs \ {e} : /\ slabs'[x].maximum = slabs[x].maximum
                               /\ slabs'[x].total = slabs[x].total + 0
  BY <1>9, SlabFields
<1>13. /\ scope'[t].at = "raise" /\ scope'[t].duration = scope[t].duration
       /\ scope'[t].observed = slabs[e].maximum /\ SamePlace(t)
  BY <1>3, <1>8 DEF Scope, SamePlace
<1> QED BY <1>1, <1>8, <1>9, <1>10, <1>11, <1>12, <1>13 DEF Typed, n

(* Changing only the position.                                             *)
LEMMA GotoEffect ==
    ASSUME TypeOK, NEW t \in Threads, NEW l \in Positions, Goto(t, l)
    PROVE  /\ scope' \in [Threads -> Scope] /\ OthersStay(t) /\ SamePlace(t)
           /\ scope'[t].at = l /\ scope'[t].duration = scope[t].duration
           /\ scope'[t].observed = scope[t].observed
<1> DEFINE r == [scope[t] EXCEPT !.at = l]
<1>1. scope[t] \in Scope
  BY DEF TypeOK
<1>2. r \in Scope
  BY <1>1 DEF Scope
<1>3. scope' = [scope EXCEPT ![t] = r]
  BY DEF Goto
<1>4. scope' \in [Threads -> Scope] /\ scope'[t] = r /\ OthersStay(t)
  BY <1>2, <1>3, ScopeStep
<1> QED BY <1>1, <1>4 DEF Scope, SamePlace

LEMMA AfterMaximumIs ==
    ASSUME NEW t \in Threads
    PROVE  AfterMaximum(t) \in {"reserve", "recorded"} /\ AfterMaximum(t) \in Positions
BY DEF AfterMaximum, Positions

(* The compare-exchange succeeds, is not needed, or is tried again.        *)
LEMMA RaiseMaximumEffect ==
    ASSUME TypeOK, ScopesHoldSlabs, NEW t \in Threads, RaiseMaximum(t)
    PROVE  /\ SlabsGrow
           /\ Typed /\ OthersStay(t) /\ SamePlace(t) /\ RecordsStay /\ PendingStays
           /\ scope[t].at = "raise" /\ scope'[t].duration = scope[t].duration
           /\ \A x \in Epochs : slabs'[x].total = slabs[x].total
           /\ \/ /\ scope'[t].at \in {"reserve", "recorded"} /\ TimesStay
                 /\ scope[t].duration <= scope[t].observed
              \/ /\ scope'[t].at \in {"reserve", "recorded"}
                 /\ scope[t].duration > slabs[scope[t].call].maximum
                 /\ \A x \in Epochs : slabs'[x].maximum =
                      IF x = scope[t].call THEN scope[t].duration ELSE slabs[x].maximum
              \/ /\ scope'[t].at = "raise" /\ TimesStay
                 /\ scope'[t].observed = slabs[scope[t].call].maximum
<1> DEFINE e == scope[t].call
           s == [slabs[e] EXCEPT !.maximum = scope[t].duration]
           r == [scope[t] EXCEPT !.observed = slabs[e].maximum]
<1>1. scope[t].at = "raise"
  BY DEF RaiseMaximum, At
<1>2. e \in Epochs
  BY <1>1, CallHoldsSlab DEF CallPositions, Unsettled
<1>3. /\ slabs[e] \in TelemetrySlab /\ scope[t] \in Scope /\ slabs[e].maximum \in Nat
      /\ scope[t].duration \in Nat /\ scope[t].observed \in Nat
  BY <1>2, SlabFields, ScopeFields
<1>4. CASE scope[t].duration <= scope[t].observed
  <2>1. Goto(t, AfterMaximum(t)) /\ slabs' = slabs
    BY <1>3, <1>4 DEF RaiseMaximum
  <2> QED BY <1>1, <1>4, <2>1, AfterMaximumIs, GotoEffect, NothingTaken
        DEF TypeOK, Typed, RecordsStay, PendingStays, TimesStay
<1>5. CASE scope[t].duration > scope[t].observed /\ slabs[e].maximum = scope[t].observed
  <2>1. Goto(t, AfterMaximum(t)) /\ slabs' = [slabs EXCEPT ![e] = s]
    BY <1>3, <1>5 DEF RaiseMaximum
  <2>2. s \in TelemetrySlab /\ Grown(slabs[e], s)
    <3>1. s \in TelemetrySlab
      BY <1>3 DEF TelemetrySlab
    <3>2. /\ s.calls = slabs[e].calls /\ s.executions = slabs[e].executions
          /\ s.total = slabs[e].total /\ s.maximum = scope[t].duration
          /\ s.steps = slabs[e].steps /\ s.completions = slabs[e].completions
          /\ s.dropped = slabs[e].dropped /\ s.failed = slabs[e].failed
          /\ s.records = slabs[e].records
      BY <1>3 DEF TelemetrySlab
    <3>3. Grown(slabs[e], slabs[e])
      BY <1>3, SlabGrownSelf
    <3>4. scope[t].duration >= slabs[e].maximum
      BY <1>3, <1>5
    <3>5. Grown(slabs[e], s)
      BY <3>2, <3>3, <3>4 DEF Grown
    <3> QED BY <3>1, <3>5
  <2>3. /\ slabs' \in [Epochs -> TelemetrySlab] /\ slabs'[e] = s
        /\ \A x \in Epochs \ {e} : slabs'[x] = slabs[x]
        /\ SlabsGrow
    BY <1>2, <2>1, <2>2, SlabStep
  <2>4. /\ s.records = slabs[e].records /\ s.pending = slabs[e].pending
        /\ s.total = slabs[e].total /\ s.maximum = scope[t].duration
    BY <1>3 DEF TelemetrySlab
  <2>5. /\ RecordsStay /\ PendingStays /\ \A x \in Epochs : slabs'[x].total = slabs[x].total
        /\ \A x \in Epochs : slabs'[x].maximum =
                 IF x = e THEN scope[t].duration ELSE slabs[x].maximum
    BY <2>3, <2>4 DEF RecordsStay, PendingStays
  <2>6. /\ scope' \in [Threads -> Scope] /\ OthersStay(t) /\ SamePlace(t)
        /\ scope'[t].at \in {"reserve", "recorded"}
        /\ scope'[t].duration = scope[t].duration
    BY <2>1, AfterMaximumIs, GotoEffect
  <2> QED BY <1>1, <1>5, <2>3, <2>5, <2>6 DEF Typed
<1>6. CASE scope[t].duration > scope[t].observed /\ slabs[e].maximum # scope[t].observed
  <2>1. scope' = [scope EXCEPT ![t] = r] /\ slabs' = slabs
    BY <1>3, <1>6 DEF RaiseMaximum
  <2>2. r \in Scope
    BY <1>3 DEF Scope
  <2>3. Typed /\ OthersStay(t) /\ scope'[t] = r
    BY <2>1, <2>2, ScopeStep DEF TypeOK, Typed
  <2>4. /\ SamePlace(t) /\ scope'[t].at = "raise" /\ scope'[t].observed = slabs[e].maximum
        /\ scope'[t].duration = scope[t].duration
    BY <1>1, <1>3, <2>3 DEF Scope, SamePlace
  <2> QED BY <1>1, <2>1, <2>3, <2>4, NothingTaken DEF RecordsStay, PendingStays, TimesStay
<1> QED BY <1>3, <1>4, <1>5, <1>6

LEMMA ReserveEffect ==
    ASSUME TypeOK, ScopesHoldSlabs, NEW t \in Threads, Reserve(t)
    PROVE  /\ SlabsGrow
           /\ Typed /\ OthersStay(t) /\ SamePlace(t) /\ RecordsStay /\ TimesStay
           /\ scope[t].at = "reserve" /\ scope'[t].duration = scope[t].duration
           /\ \/ scope'[t].at = "recorded" /\ PendingStays
              \/ /\ scope'[t].at = "discover" /\ ~Full(scope[t].call)
                 /\ \A x \in Epochs : slabs'[x].pending =
                      slabs[x].pending + (IF x = scope[t].call THEN 1 ELSE 0)
<1> DEFINE e == scope[t].call
           dropping == [slabs[e] EXCEPT !.dropped = slabs[e].dropped + 1]
           reserving == [slabs[e] EXCEPT !.pending = slabs[e].pending + 1]
<1>1. scope[t].at = "reserve"
  BY DEF Reserve, At
<1>2. e \in Epochs
  BY <1>1, CallHoldsSlab DEF CallPositions, Unsettled
<1>3. /\ slabs[e] \in TelemetrySlab /\ slabs[e].dropped \in Nat /\ slabs[e].pending \in Nat
      /\ "recorded" \in Positions /\ "discover" \in Positions
  BY <1>2, SlabFields DEF Positions
<1>4. slabs[e].dropped + 1 \in Nat /\ slabs[e].pending + 1 \in Nat
  BY <1>3
<1>5. CASE slabs' = [slabs EXCEPT ![e] = dropping] /\ Goto(t, "recorded")
  <2>1. dropping \in TelemetrySlab /\ Grown(slabs[e], dropping)
    <3>1. dropping \in TelemetrySlab
      BY <1>3, <1>4 DEF TelemetrySlab
    <3>2. /\ dropping.calls = slabs[e].calls /\ dropping.executions = slabs[e].executions
          /\ dropping.total = slabs[e].total /\ dropping.maximum = slabs[e].maximum
          /\ dropping.steps = slabs[e].steps /\ dropping.completions = slabs[e].completions
          /\ dropping.dropped = slabs[e].dropped + 1 /\ dropping.failed = slabs[e].failed
          /\ dropping.records = slabs[e].records
      BY <1>3, <1>4 DEF TelemetrySlab
    <3>3. Grown(slabs[e], slabs[e])
      BY <1>3, <1>4, SlabGrownSelf
    <3>4. slabs[e].dropped + 1 >= slabs[e].dropped
      BY <1>3
    <3>5. Grown(slabs[e], dropping)
      BY <3>2, <3>3, <3>4 DEF Grown
    <3> QED BY <3>1, <3>5
  <2>2. /\ slabs' \in [Epochs -> TelemetrySlab] /\ slabs'[e] = dropping
        /\ \A x \in Epochs \ {e} : slabs'[x] = slabs[x]
        /\ SlabsGrow
    BY <1>2, <1>5, <2>1, SlabStep
  <2>3. RecordsStay /\ PendingStays /\ TimesStay
    <3>1. /\ dropping.records = slabs[e].records /\ dropping.pending = slabs[e].pending
          /\ dropping.total = slabs[e].total /\ dropping.maximum = slabs[e].maximum
      BY <1>3 DEF TelemetrySlab
    <3> QED BY <2>2, <3>1 DEF RecordsStay, PendingStays, TimesStay
  <2> QED BY <1>1, <1>3, <1>5, <2>2, <2>3, GotoEffect DEF Typed
<1>6. CASE slabs' = [slabs EXCEPT ![e] = reserving] /\ Goto(t, "discover") /\ ~Full(e)
  <2>1. /\ reserving \in TelemetrySlab /\ Grown(slabs[e], reserving)
        /\ reserving.records = slabs[e].records
        /\ reserving.pending = slabs[e].pending + 1
        /\ reserving.total = slabs[e].total /\ reserving.maximum = slabs[e].maximum
    <3>1. reserving \in TelemetrySlab
      BY <1>3, <1>4 DEF TelemetrySlab
    <3>2. /\ reserving.calls = slabs[e].calls /\ reserving.executions = slabs[e].executions
          /\ reserving.total = slabs[e].total /\ reserving.maximum = slabs[e].maximum
          /\ reserving.steps = slabs[e].steps /\ reserving.completions = slabs[e].completions
          /\ reserving.dropped = slabs[e].dropped /\ reserving.failed = slabs[e].failed
          /\ reserving.records = slabs[e].records /\ reserving.pending = slabs[e].pending + 1
      BY <1>3, <1>4 DEF TelemetrySlab
    <3>3. Grown(slabs[e], slabs[e])
      BY <1>3, <1>4, SlabGrownSelf
    <3> HIDE DEF reserving
    <3>4. Grown(slabs[e], reserving)
      BY <3>2, <3>3 DEF Grown
    <3> QED BY <3>1, <3>2, <3>4
  <2>2. /\ slabs' \in [Epochs -> TelemetrySlab] /\ slabs'[e] = reserving
        /\ \A x \in Epochs \ {e} : slabs'[x] = slabs[x]
        /\ SlabsGrow
    BY <1>2, <1>6, <2>1, SlabStep
  <2>3. RecordsStay /\ TimesStay /\ slabs'[e].pending = slabs[e].pending + 1
    BY <2>1, <2>2 DEF RecordsStay, TimesStay
  <2>4. \A x \in Epochs \ {e} : slabs'[x].pending = slabs[x].pending + 0
    BY <2>2, SlabFields
  <2> QED BY <1>1, <1>3, <1>6, <2>2, <2>3, <2>4, GotoEffect DEF Typed
<1> QED BY <1>5, <1>6 DEF Reserve

LEMMA DiscoverEffect ==
    ASSUME TypeOK, ScopesHoldSlabs, NEW t \in Threads, Discover(t)
    PROVE  /\ SlabsGrow
           /\ Typed /\ OthersStay(t) /\ SamePlace(t) /\ RecordsStay /\ PendingStays /\ TimesStay
           /\ scope[t].at = "discover" /\ scope'[t].at = "publish"
           /\ scope'[t].duration = scope[t].duration
<1>1. PICK missing \in BOOLEAN :
        /\ scope' = [scope EXCEPT ![t].at = "publish", ![t].missing = missing]
        /\ slabs' = [slabs EXCEPT ![scope[t].call].failed =
                          IF missing THEN @ + 1 ELSE @]
  BY DEF Discover, Identified
<1> DEFINE e == scope[t].call
           failed == IF missing THEN slabs[e].failed + 1 ELSE slabs[e].failed
           r == [scope[t] EXCEPT !.at = "publish", !.missing = missing]
           s == [slabs[e] EXCEPT !.failed = failed]
<1>2. scope[t].at = "discover"
  BY DEF Discover, At
<1>3. e \in Epochs
  BY <1>2, CallHoldsSlab DEF CallPositions, Unsettled
<1>4. /\ slabs[e] \in TelemetrySlab /\ failed \in Nat
      /\ scope[t] \in Scope /\ "publish" \in Positions
  BY <1>3, SlabFields, ScopeFields DEF Positions
<1>5. r \in Scope
  BY <1>4 DEF Scope
<1>6. s \in TelemetrySlab /\ Grown(slabs[e], s)
  <2>1. s \in TelemetrySlab
    BY <1>4 DEF TelemetrySlab
  <2>2. /\ s.calls = slabs[e].calls /\ s.executions = slabs[e].executions
        /\ s.total = slabs[e].total /\ s.maximum = slabs[e].maximum
        /\ s.steps = slabs[e].steps /\ s.completions = slabs[e].completions
        /\ s.dropped = slabs[e].dropped /\ s.failed = failed
        /\ s.records = slabs[e].records
    BY <1>4 DEF TelemetrySlab
  <2>3. Grown(slabs[e], slabs[e])
    BY <1>4, SlabGrownSelf
  <2>4. failed >= slabs[e].failed
    BY <1>3, SlabFields
  <2>5. Grown(slabs[e], s)
    BY <2>2, <2>3, <2>4 DEF Grown
  <2> QED BY <2>1, <2>5
<1>7. scope' = [scope EXCEPT ![t] = r] /\ slabs' = [slabs EXCEPT ![e] = s]
  BY <1>1
<1>8. scope' \in [Threads -> Scope] /\ scope'[t] = r /\ OthersStay(t)
  BY <1>5, <1>7, ScopeStep
<1>9. /\ slabs' \in [Epochs -> TelemetrySlab] /\ slabs'[e] = s
      /\ \A x \in Epochs \ {e} : slabs'[x] = slabs[x]
      /\ SlabsGrow
  BY <1>3, <1>6, <1>7, SlabStep
<1>10. RecordsStay /\ PendingStays /\ TimesStay
  <2>1. /\ s.records = slabs[e].records /\ s.pending = slabs[e].pending
        /\ s.total = slabs[e].total /\ s.maximum = slabs[e].maximum
    BY <1>4 DEF TelemetrySlab
  <2> QED BY <1>9, <2>1 DEF RecordsStay, PendingStays, TimesStay
<1>11. SamePlace(t) /\ scope'[t].at = "publish" /\ scope'[t].duration = scope[t].duration
  BY <1>4, <1>8 DEF Scope, SamePlace
<1> QED BY <1>2, <1>8, <1>9, <1>10, <1>11 DEF Typed

(* A slot is given back.                                                   *)
SlotGivenBack(t) ==
    \A x \in Epochs : slabs'[x].pending =
        IF x = scope[t].call THEN slabs[x].pending - 1 ELSE slabs[x].pending

LEMMA AbandonEffect ==
    ASSUME TypeOK, ScopesHoldSlabs, SlotsAccountedFor, NEW t \in Threads, Abandon(t)
    PROVE  /\ SlabsGrow
           /\ Typed /\ OthersStay(t) /\ SamePlace(t) /\ RecordsStay /\ TimesStay
           /\ scope[t].at = "discover" /\ scope'[t].at = "recorded" /\ SlotGivenBack(t)
<1> DEFINE e == scope[t].call
           s == [slabs[e] EXCEPT !.failed = slabs[e].failed + 1,
                                 !.pending = slabs[e].pending - 1]
<1>1. scope[t].at = "discover"
  BY DEF Abandon, At
<1>2. e \in Epochs /\ slabs[e].pending >= 1
  BY <1>1, CallHoldsSlab, SlotIsHeld DEF CallPositions, Unsettled, Reserved
<1>3. /\ slabs[e] \in TelemetrySlab /\ slabs[e].failed + 1 \in Nat
      /\ slabs[e].pending - 1 \in Nat /\ "recorded" \in Positions
  BY <1>2, SlabFields DEF Positions
<1>4. /\ s \in TelemetrySlab /\ Grown(slabs[e], s) /\ s.records = slabs[e].records
      /\ s.pending = slabs[e].pending - 1 /\ s.total = slabs[e].total
      /\ s.maximum = slabs[e].maximum
  <2>1. slabs[e].failed + 1 >= slabs[e].failed
    BY <1>2, SlabFields
  <2>2. s \in TelemetrySlab
    BY <1>3 DEF TelemetrySlab
  <2>3. /\ s.calls = slabs[e].calls /\ s.executions = slabs[e].executions
        /\ s.total = slabs[e].total /\ s.maximum = slabs[e].maximum
        /\ s.steps = slabs[e].steps /\ s.completions = slabs[e].completions
        /\ s.dropped = slabs[e].dropped /\ s.failed = slabs[e].failed + 1
        /\ s.records = slabs[e].records /\ s.pending = slabs[e].pending - 1
    BY <1>3 DEF TelemetrySlab
  <2>4. Grown(slabs[e], slabs[e])
    BY <1>3, SlabGrownSelf
  <2> HIDE DEF s
  <2>5. Grown(slabs[e], s)
    BY <2>3, <2>4, <2>1 DEF Grown
  <2> QED BY <2>2, <2>3, <2>5
<1>5. slabs' = [slabs EXCEPT ![e] = s] /\ Goto(t, "recorded")
  BY DEF Abandon
<1>6. /\ slabs' \in [Epochs -> TelemetrySlab] /\ slabs'[e] = s
      /\ \A x \in Epochs \ {e} : slabs'[x] = slabs[x]
      /\ SlabsGrow
  BY <1>2, <1>4, <1>5, SlabStep
<1>8. RecordsStay /\ TimesStay /\ SlotGivenBack(t)
  BY <1>4, <1>6 DEF RecordsStay, TimesStay, SlotGivenBack
<1> QED BY <1>1, <1>3, <1>5, <1>6, <1>8, GotoEffect DEF Typed

LEMMA PublishEffect ==
    ASSUME TypeOK, ScopesHoldSlabs, SlotsAccountedFor, NEW t \in Threads, Publish(t)
    PROVE  /\ SlabsGrow
           /\ Typed /\ OthersStay(t) /\ SamePlace(t) /\ TimesStay /\ SlotGivenBack(t)
           /\ scope[t].at = "publish" /\ scope'[t].at = "recorded"
           /\ \/ RecordsStay
              \/ \A x \in Epochs : slabs'[x].records =
                    IF x = scope[t].call THEN Append(slabs[x].records, RecordOf(t))
                                         ELSE slabs[x].records
<1> DEFINE e == scope[t].call
           left == slabs[e].pending - 1
           failed == IF scope[t].missing THEN slabs[e].failed ELSE slabs[e].failed + 1
           longer == Append(slabs[e].records, RecordOf(t))
           kept == [slabs[e] EXCEPT !.pending = left, !.records = longer]
           lost == [slabs[e] EXCEPT !.pending = left, !.failed = failed]
<1>1. scope[t].at = "publish"
  BY DEF Publish, At
<1>2. e \in Epochs /\ slabs[e].pending >= 1
  BY <1>1, CallHoldsSlab, SlotIsHeld DEF CallPositions, Reserved
<1>3. /\ slabs[e] \in TelemetrySlab /\ failed \in Nat /\ left \in Nat
      /\ slabs[e].records \in Seq(TraceRecord) /\ "recorded" \in Positions
  BY <1>2, SlabFields DEF Positions
<1>4. RecordOf(t) \in TraceRecord
  BY <1>2, ScopeFields DEF RecordOf, TraceRecord
<1>5. longer \in Seq(TraceRecord)
  BY <1>3, <1>4, AppendProperties
<1>6. /\ kept \in TelemetrySlab /\ Grown(slabs[e], kept) /\ kept.records = longer
      /\ lost \in TelemetrySlab /\ Grown(slabs[e], lost) /\ lost.records = slabs[e].records
      /\ \A s \in {kept, lost} : /\ s.pending = left /\ s.total = slabs[e].total
                                 /\ s.maximum = slabs[e].maximum
  <2>1. IsPrefix(slabs[e].records, longer)
    BY <1>3, <1>4, PrefixOfLonger
  <2>2. failed >= slabs[e].failed
    BY <1>2, SlabFields
  <2> HIDE DEF left, failed, longer
  <2>3. kept \in TelemetrySlab
    BY <1>3, <1>5 DEF TelemetrySlab
  <2>4. /\ kept.calls = slabs[e].calls /\ kept.executions = slabs[e].executions
        /\ kept.total = slabs[e].total /\ kept.maximum = slabs[e].maximum
        /\ kept.steps = slabs[e].steps /\ kept.completions = slabs[e].completions
        /\ kept.dropped = slabs[e].dropped /\ kept.failed = slabs[e].failed
        /\ kept.records = longer /\ kept.pending = left
    BY <1>3, <1>5 DEF TelemetrySlab
  <2>5. Grown(slabs[e], slabs[e])
    BY <1>3, <1>5, SlabGrownSelf
  <2>7. lost \in TelemetrySlab
    BY <1>3 DEF TelemetrySlab
  <2>8. /\ lost.calls = slabs[e].calls /\ lost.executions = slabs[e].executions
        /\ lost.total = slabs[e].total /\ lost.maximum = slabs[e].maximum
        /\ lost.steps = slabs[e].steps /\ lost.completions = slabs[e].completions
        /\ lost.dropped = slabs[e].dropped /\ lost.failed = failed
        /\ lost.records = slabs[e].records /\ lost.pending = left
    BY <1>3 DEF TelemetrySlab
  <2>9. Grown(slabs[e], slabs[e])
    BY <1>3, SlabGrownSelf
  <2> HIDE DEF kept, lost
  <2>6. Grown(slabs[e], kept)
    BY <2>4, <2>5, <2>1 DEF Grown
  <2>10. Grown(slabs[e], lost)
    BY <2>8, <2>9, <2>2 DEF Grown
  <2> QED BY <2>3, <2>4, <2>6, <2>7, <2>8, <2>10
<1>7. /\ Goto(t, "recorded")
      /\ slabs' = [slabs EXCEPT ![e] = kept] \/ slabs' = [slabs EXCEPT ![e] = lost]
  BY ZenonT(20) DEF Publish
<1> HIDE DEF left, longer, kept, lost
<1>8. PICK s \in {kept, lost} : slabs' = [slabs EXCEPT ![e] = s]
  BY <1>7
<1>8a. s \in TelemetrySlab /\ Grown(slabs[e], s)
  BY <1>6, <1>8
<1>9. /\ slabs' \in [Epochs -> TelemetrySlab] /\ slabs'[e] = s
      /\ \A x \in Epochs \ {e} : slabs'[x] = slabs[x]
      /\ SlabsGrow
  BY <1>2, <1>8, <1>8a, SlabStep
<1>10. /\ s.pending = left /\ s.total = slabs[e].total /\ s.maximum = slabs[e].maximum
       /\ s.records = longer \/ s.records = slabs[e].records
  BY <1>6, <1>8, Zenon
<1>11. /\ TimesStay /\ SlotGivenBack(t)
  BY <1>9, <1>10 DEF left, TimesStay, SlotGivenBack
<1>12. \/ RecordsStay
       \/ \A x \in Epochs : slabs'[x].records =
             IF x = scope[t].call THEN Append(slabs[x].records, RecordOf(t))
                                  ELSE slabs[x].records
  BY <1>9, <1>10 DEF longer, RecordsStay
<1> QED BY <1>1, <1>3, <1>7, <1>9, <1>11, <1>12, GotoEffect DEF Typed

(* A call is over when its scope object is gone.                           *)
LEMMA NoScopeTyped == NoScope \in Scope
BY DEF NoScope, Scope, Positions, Outcomes

LEMMA RecordStepEffect ==
    ASSUME TypeOK, NEW t \in Threads, RecordStep(t)
    PROVE  /\ SlabsGrow
           /\ Typed /\ OthersStay(t) /\ RecordsStay /\ PendingStays /\ TimesStay
           /\ scope[t].at = "recorded" /\ scope'[t].at \in {"stage", "leaving"}
           /\ scope'[t].exec = scope[t].exec
           /\ scope'[t].call = 0 /\ scope'[t].trace_id = 0
<1>1. PICK next \in {"stage", "leaving"} :
        scope' = [scope EXCEPT ![t] = [NoScope EXCEPT
                       !.at = next, !.exec = scope[t].exec, !.stop = scope[t].stop]]
  BY DEF RecordStep
<1> DEFINE r == [NoScope EXCEPT !.at = next, !.exec = scope[t].exec, !.stop = scope[t].stop]
           s == [slabs[slab] EXCEPT !.steps = slabs[slab].steps + 1]
<1>2. slab \in Epochs /\ next \in Positions
  BY DEF TypeOK, Positions
<1>3. /\ slabs[slab] \in TelemetrySlab /\ slabs[slab].steps + 1 \in Nat
      /\ scope[t].exec \in Epochs \cup {0} /\ scope[t].stop \in StopReasons \cup {"none"}
  BY <1>2, SlabFields, ScopeFields
<1>4. r \in Scope
  BY <1>2, <1>3, NoScopeTyped DEF Scope
<1>5. s \in TelemetrySlab /\ Grown(slabs[slab], s)
  <2>1. s \in TelemetrySlab
    BY <1>3 DEF TelemetrySlab
  <2>2. /\ s.calls = slabs[slab].calls /\ s.executions = slabs[slab].executions
        /\ s.total = slabs[slab].total /\ s.maximum = slabs[slab].maximum
        /\ s.steps = slabs[slab].steps + 1 /\ s.completions = slabs[slab].completions
        /\ s.dropped = slabs[slab].dropped /\ s.failed = slabs[slab].failed
        /\ s.records = slabs[slab].records
    BY <1>3 DEF TelemetrySlab
  <2>3. Grown(slabs[slab], slabs[slab])
    BY <1>3, SlabGrownSelf
  <2>4. slabs[slab].steps + 1 >= slabs[slab].steps
    BY <1>2, SlabFields
  <2>5. Grown(slabs[slab], s)
    BY <2>2, <2>3, <2>4 DEF Grown
  <2> QED BY <2>1, <2>5
<1>6. scope' = [scope EXCEPT ![t] = r] /\ slabs' = [slabs EXCEPT ![slab] = s]
  BY <1>1 DEF RecordStep
<1>7. scope' \in [Threads -> Scope] /\ scope'[t] = r /\ OthersStay(t)
  BY <1>4, <1>6, ScopeStep
<1>8. /\ slabs' \in [Epochs -> TelemetrySlab] /\ slabs'[slab] = s
      /\ \A x \in Epochs \ {slab} : slabs'[x] = slabs[x]
      /\ SlabsGrow
  BY <1>2, <1>5, <1>6, SlabStep
<1>9. RecordsStay /\ PendingStays /\ TimesStay
  <2>1. /\ s.records = slabs[slab].records /\ s.pending = slabs[slab].pending
        /\ s.total = slabs[slab].total /\ s.maximum = slabs[slab].maximum
    BY <1>3 DEF TelemetrySlab
  <2> QED BY <1>8, <2>1 DEF RecordsStay, PendingStays, TimesStay
<1>10. r.at = next /\ r.exec = scope[t].exec /\ r.call = 0 /\ r.trace_id = 0
  BY DEF NoScope
<1> QED BY <1>7, <1>8, <1>9, <1>10 DEF Typed, RecordStep, Passed, At

LEMMA RecordCompletionEffect ==
    ASSUME TypeOK, NEW t \in Threads, RecordCompletion(t)
    PROVE  /\ SlabsGrow
           /\ Typed /\ OthersStay(t) /\ SamePlace(t) /\ RecordsStay /\ PendingStays /\ TimesStay
           /\ scope[t].at = "stage" /\ scope'[t].at = "leaving"
<1> DEFINE s == [slabs[slab] EXCEPT !.completions = slabs[slab].completions + 1]
<1>1. slab \in Epochs /\ "leaving" \in Positions
  BY DEF TypeOK, Positions
<1>2. slabs[slab] \in TelemetrySlab /\ slabs[slab].completions + 1 \in Nat
  BY <1>1, SlabFields
<1>3. s \in TelemetrySlab /\ Grown(slabs[slab], s)
  <2>1. s \in TelemetrySlab
    BY <1>2 DEF TelemetrySlab
  <2>2. /\ s.calls = slabs[slab].calls /\ s.executions = slabs[slab].executions
        /\ s.total = slabs[slab].total /\ s.maximum = slabs[slab].maximum
        /\ s.steps = slabs[slab].steps /\ s.completions = slabs[slab].completions + 1
        /\ s.dropped = slabs[slab].dropped /\ s.failed = slabs[slab].failed
        /\ s.records = slabs[slab].records
    BY <1>2 DEF TelemetrySlab
  <2>3. Grown(slabs[slab], slabs[slab])
    BY <1>2, SlabGrownSelf
  <2>4. slabs[slab].completions + 1 >= slabs[slab].completions
    BY <1>1, SlabFields
  <2>5. Grown(slabs[slab], s)
    BY <2>2, <2>3, <2>4 DEF Grown
  <2> QED BY <2>1, <2>5
<1>4. slabs' = [slabs EXCEPT ![slab] = s] /\ Goto(t, "leaving")
  BY DEF RecordCompletion
<1>5. /\ slabs' \in [Epochs -> TelemetrySlab] /\ slabs'[slab] = s
      /\ \A x \in Epochs \ {slab} : slabs'[x] = slabs[x]
      /\ SlabsGrow
  BY <1>1, <1>3, <1>4, SlabStep
<1>6. RecordsStay /\ PendingStays /\ TimesStay
  <2>1. /\ s.records = slabs[slab].records /\ s.pending = slabs[slab].pending
        /\ s.total = slabs[slab].total /\ s.maximum = slabs[slab].maximum
    BY <1>2 DEF TelemetrySlab
  <2> QED BY <1>5, <2>1 DEF RecordsStay, PendingStays, TimesStay
<1> QED BY <1>1, <1>4, <1>5, <1>6, GotoEffect DEF Typed, RecordCompletion, At

LEMMA EndExecutionEffect ==
    ASSUME TypeOK, ScopesHoldSlabs, NEW t \in Threads, EndExecution(t)
    PROVE  /\ SlabsGrow
           /\ Typed /\ OthersStay(t) /\ RecordsStay /\ PendingStays /\ TimesStay
           /\ scope[t].at \in {"leaving", "recorded", "stage"} /\ scope'[t] = NoScope
<1>1. PICK outcome \in Outcomes :
        /\ scope[t].at \in {"leaving", "recorded", "stage"}
        /\ slabs' = [slabs EXCEPT ![scope[t].exec].executions[outcome] = @ + 1]
        /\ scope' = [scope EXCEPT ![t] = NoScope]
  BY DEF EndExecution, Passed, At
<1> DEFINE e == scope[t].exec
           c == [slabs[e].executions EXCEPT ![outcome] = @ + 1]
           s == [slabs[e] EXCEPT !.executions = c]
<1>2. e \in Epochs
  BY <1>1 DEF ScopesHoldSlabs, At
<1>3. slabs[e] \in TelemetrySlab /\ slabs[e].executions \in [Outcomes -> Nat]
  BY <1>2, SlabFields
<1>4. c \in [Outcomes -> Nat]
  BY <1>3
<1>5. \A o \in Outcomes : c[o] >= slabs[e].executions[o]
  BY <1>3
<1>6. slabs' = [slabs EXCEPT ![e] = s]
  BY <1>1
<1> HIDE DEF c
<1>10. /\ s \in TelemetrySlab /\ Grown(slabs[e], s) /\ s.records = slabs[e].records
       /\ s.pending = slabs[e].pending /\ s.total = slabs[e].total
       /\ s.maximum = slabs[e].maximum
  <2>1. s \in TelemetrySlab
    BY <1>3, <1>4 DEF TelemetrySlab
  <2>2. /\ s.calls = slabs[e].calls /\ s.executions = c
        /\ s.total = slabs[e].total /\ s.maximum = slabs[e].maximum
        /\ s.steps = slabs[e].steps /\ s.completions = slabs[e].completions
        /\ s.dropped = slabs[e].dropped /\ s.failed = slabs[e].failed
        /\ s.records = slabs[e].records /\ s.pending = slabs[e].pending
    BY <1>3, <1>4 DEF TelemetrySlab
  <2>3. Grown(slabs[e], slabs[e])
    BY <1>3, <1>4, SlabGrownSelf
  <2> HIDE DEF s
  <2>4. Grown(slabs[e], s)
    BY <2>2, <2>3, <1>5 DEF Grown
  <2> QED BY <2>1, <2>2, <2>4
<1>7. /\ slabs' \in [Epochs -> TelemetrySlab] /\ slabs'[e] = s
      /\ \A x \in Epochs \ {e} : slabs'[x] = slabs[x]
      /\ SlabsGrow
  BY <1>2, <1>6, <1>10, SlabStep
<1>8. RecordsStay /\ PendingStays /\ TimesStay
  BY <1>7, <1>10 DEF RecordsStay, PendingStays, TimesStay
<1>9. scope' \in [Threads -> Scope] /\ scope'[t] = NoScope /\ OthersStay(t)
  BY <1>1, NoScopeTyped, ScopeStep, Zenon
<1> QED BY <1>1, <1>7, <1>8, <1>9 DEF Typed

-----------------------------------------------------------------------------
(* The steps of the specification, one by one.                             *)
LEMMA Steps ==
    ASSUME [Next]_vars
    PROVE  \/ UNCHANGED vars \/ ResetBuild \/ ResetPublish
           \/ \E t \in Threads :
                \/ BeginExecution(t) \/ Stop(t) \/ BeginCall(t) \/ EnterModel(t)
                \/ LeaveModel(t) \/ CountOutcome(t) \/ RaiseMaximum(t) \/ Reserve(t)
                \/ Discover(t) \/ Abandon(t) \/ Publish(t) \/ RecordStep(t)
                \/ RecordCompletion(t) \/ EndExecution(t)
BY DEF Next, Execute, Reset

(* What a step of a thread leaves alone.                                   *)
LEMMA ThreadSteps ==
    ASSUME NEW t \in Threads,
           \/ BeginExecution(t) \/ Stop(t) \/ EnterModel(t) \/ LeaveModel(t)
           \/ CountOutcome(t) \/ RaiseMaximum(t) \/ Reserve(t) \/ Discover(t)
           \/ Abandon(t) \/ Publish(t) \/ RecordStep(t) \/ RecordCompletion(t)
           \/ EndExecution(t)
    PROVE  UNCHANGED <<slab, next_epoch, building, next_trace_id>>
BY Zenon DEF BeginExecution, Stop, EnterModel, LeaveModel, CountOutcome, RaiseMaximum,
             Reserve, Discover, Abandon, Publish, RecordStep, RecordCompletion, EndExecution,
             Own, Shared, collectorVars

LEMMA BeginCallKeepsCollector ==
    ASSUME NEW t \in Threads, BeginCall(t)
    PROVE  UNCHANGED <<slab, next_epoch, building>>
BY DEF BeginCall, collectorVars

LEMMA TypesStep ==
    ASSUME IInv, [Next]_vars
    PROVE  TypeOK'
<1> USE DEF IInv
<1>1. CASE UNCHANGED vars
  BY <1>1 DEF vars, collectorVars, TypeOK
<1>2. CASE ResetBuild
  BY <1>2, BoundsAssumption DEF ResetBuild, TypeOK, Epochs
<1>3. CASE ResetPublish
  BY <1>3 DEF ResetPublish, TypeOK, Epochs
<1>4. ASSUME NEW t \in Threads, BeginCall(t)
      PROVE  TypeOK'
  BY <1>4, BeginCallEffect, BeginCallKeepsCollector, BoundsAssumption DEF TypeOK, Typed
<1>5. ASSUME NEW t \in Threads,
             \/ BeginExecution(t) \/ Stop(t) \/ EnterModel(t) \/ LeaveModel(t)
             \/ CountOutcome(t) \/ RaiseMaximum(t) \/ Reserve(t) \/ Discover(t)
             \/ Abandon(t) \/ Publish(t) \/ RecordStep(t) \/ RecordCompletion(t)
             \/ EndExecution(t)
      PROVE  TypeOK'
  <2>1. Typed
    BY <1>5, BeginExecutionEffect, StopEffect, EnterModelEffect, LeaveModelEffect,
       CountOutcomeEffect, RaiseMaximumEffect, ReserveEffect, DiscoverEffect,
       AbandonEffect, PublishEffect, RecordStepEffect, RecordCompletionEffect,
       EndExecutionEffect
  <2> QED BY <1>5, <2>1, ThreadSteps DEF TypeOK, Typed
<1> QED BY <1>1, <1>2, <1>3, <1>4, <1>5, Steps

LEMMA EpochsInOrderStep ==
    ASSUME IInv, [Next]_vars
    PROVE  EpochsInOrder'
<1> USE DEF IInv, EpochsInOrder
<1>1. CASE UNCHANGED vars
  BY <1>1 DEF vars, collectorVars
<1>2. CASE ResetBuild
  BY <1>2 DEF ResetBuild, TypeOK, Epochs
<1>3. CASE ResetPublish
  BY <1>3 DEF ResetPublish, TypeOK, Epochs
<1>4. ASSUME NEW t \in Threads, BeginCall(t)
      PROVE  EpochsInOrder'
  BY <1>4, BeginCallKeepsCollector
<1> QED BY <1>1, <1>2, <1>3, <1>4, Steps, ThreadSteps

-----------------------------------------------------------------------------
PlaceOf(t) ==
    /\ ~At(t, "idle") => scope[t].exec \in Epochs
    /\ scope[t].at \in CallPositions =>
            scope[t].call \in Epochs /\ scope[t].trace_id # 0
    /\ scope[t].at \notin CallPositions =>
            scope[t].call = 0 /\ scope[t].trace_id = 0

LEMMA PlacesStep ==
    ASSUME ScopesHoldSlabs, NEW t \in Threads, OthersStay(t), PlaceOf(t)'
    PROVE  ScopesHoldSlabs'
BY DEF ScopesHoldSlabs, OthersStay, PlaceOf, At

(* Moving within a call, or outside of one, keeps the place.               *)
LEMMA PlaceStays ==
    ASSUME ScopesHoldSlabs, NEW t \in Threads, OthersStay(t), SamePlace(t),
           scope[t].at # "idle" \/ scope'[t].at = "idle",
           scope[t].at \in CallPositions <=> scope'[t].at \in CallPositions
    PROVE  ScopesHoldSlabs'
<1>1. PlaceOf(t)'
  BY DEF ScopesHoldSlabs, SamePlace, PlaceOf, At
<1> QED BY <1>1, PlacesStep

LEMMA ScopesHoldSlabsStep ==
    ASSUME IInv, [Next]_vars
    PROVE  ScopesHoldSlabs'
<1> USE DEF IInv
<1> DEFINE Goal == ScopesHoldSlabs'
<1>1. CASE UNCHANGED vars \/ ResetBuild \/ ResetPublish
  BY <1>1 DEF vars, ResetBuild, ResetPublish, ScopesHoldSlabs, At
<1>2. ASSUME NEW t \in Threads, BeginExecution(t)
      PROVE  Goal
  <2>1. PlaceOf(t)'
    BY <1>2, BeginExecutionEffect
       DEF TypeOK, PlaceOf, ScopesHoldSlabs, At, CallPositions, Started, Unsettled
  <2> QED BY <1>2, <2>1, PlacesStep, BeginExecutionEffect
<1>3. ASSUME NEW t \in Threads, BeginCall(t)
      PROVE  Goal
  <2>1. PlaceOf(t)'
    BY <1>3, BeginCallEffect
       DEF TypeOK, PlaceOf, ScopesHoldSlabs, At, CallPositions, Started, Unsettled
  <2> QED BY <1>3, <2>1, PlacesStep, BeginCallEffect
<1>4. ASSUME NEW t \in Threads, Stop(t) \/ EnterModel(t) \/ LeaveModel(t)
      PROVE  Goal
  BY <1>4, PlaceStays, StopEffect, EnterModelEffect, LeaveModelEffect
     DEF CallPositions, Started
<1>5. ASSUME NEW t \in Threads, CountOutcome(t)
      PROVE  Goal
  BY <1>5, PlaceStays, CountOutcomeEffect DEF CallPositions, Started, Unsettled
<1>6. ASSUME NEW t \in Threads, RaiseMaximum(t)
      PROVE  Goal
  <2>1. /\ OthersStay(t) /\ SamePlace(t) /\ scope[t].at = "raise"
        /\ scope'[t].at \in {"raise", "reserve", "recorded"}
    BY <1>6, RaiseMaximumEffect
  <2> QED BY <2>1, PlaceStays DEF CallPositions, Unsettled
<1>7. ASSUME NEW t \in Threads, Reserve(t) \/ Discover(t) \/ Abandon(t) \/ Publish(t)
      PROVE  Goal
  <2>1. /\ OthersStay(t) /\ SamePlace(t) /\ scope[t].at \in {"reserve", "discover", "publish"}
        /\ scope'[t].at \in {"discover", "publish", "recorded"}
    BY <1>7, ReserveEffect, DiscoverEffect, AbandonEffect, PublishEffect
  <2> QED BY <2>1, PlaceStays DEF CallPositions, Unsettled
<1>8. ASSUME NEW t \in Threads, RecordStep(t)
      PROVE  Goal
  <2>1. PlaceOf(t)'
    BY <1>8, RecordStepEffect
       DEF TypeOK, PlaceOf, ScopesHoldSlabs, At, CallPositions, Started, Unsettled
  <2> QED BY <1>8, <2>1, PlacesStep, RecordStepEffect
<1>9. ASSUME NEW t \in Threads, RecordCompletion(t)
      PROVE  Goal
  BY <1>9, PlaceStays, RecordCompletionEffect DEF CallPositions, Started, Unsettled
<1>10. ASSUME NEW t \in Threads, EndExecution(t)
       PROVE  Goal
  <2>1. PlaceOf(t)'
    BY <1>10, EndExecutionEffect
       DEF NoScope, PlaceOf, At, CallPositions, Started, Unsettled
  <2> QED BY <1>10, <2>1, PlacesStep, EndExecutionEffect
<1> QED BY <1>1, <1>2, <1>3, <1>4, <1>5, <1>6, <1>7, <1>8, <1>9, <1>10, Steps

-----------------------------------------------------------------------------
(* A thread that keeps or drops its trace id disturbs nobody's.            *)
LEMMA TraceIdsStay ==
    ASSUME TypeOK, TraceIdsTaken, NEW t \in Threads, OthersStay(t), RecordsStay,
           scope'[t].trace_id \in {scope[t].trace_id, 0},
           next_trace_id' = next_trace_id
    PROVE  TraceIdsTaken'
<1>1. \A u \in Threads : scope'[u].trace_id < next_trace_id'
  BY ScopeFields, BoundsAssumption DEF TypeOK, TraceIdsTaken, OthersStay
<1>2. \A u, v \in Threads :
         scope'[u].trace_id = scope'[v].trace_id /\ u # v => scope'[u].trace_id = 0
  BY DEF TraceIdsTaken, OthersStay
<1>3. \A e \in Epochs : \A i \in DOMAIN slabs'[e].records :
         slabs'[e].records[i].trace_id \in 1..(next_trace_id' - 1)
  BY DEF TraceIdsTaken, RecordsStay
<1> QED BY <1>1, <1>2, <1>3 DEF TraceIdsTaken

LEMMA TraceIdsTakenStep ==
    ASSUME IInv, [Next]_vars
    PROVE  TraceIdsTaken'
<1> USE DEF IInv
<1> DEFINE Goal == TraceIdsTaken'
<1>1. CASE UNCHANGED vars \/ ResetBuild \/ ResetPublish
  BY <1>1 DEF vars, ResetBuild, ResetPublish, TraceIdsTaken
<1>2. ASSUME NEW t \in Threads,
             BeginExecution(t) \/ Stop(t) \/ EnterModel(t) \/ LeaveModel(t)
      PROVE  Goal
  <2>1. /\ OthersStay(t) /\ scope'[t].trace_id = scope[t].trace_id /\ slabs' = slabs
    BY <1>2, BeginExecutionEffect, StopEffect, EnterModelEffect, LeaveModelEffect
       DEF SamePlace
  <2>2. next_trace_id' = next_trace_id
    BY <1>2, ThreadSteps
  <2> QED BY <2>1, <2>2, TraceIdsStay DEF RecordsStay
<1>3. ASSUME NEW t \in Threads,
             \/ CountOutcome(t) \/ RaiseMaximum(t) \/ Reserve(t) \/ Discover(t)
             \/ Abandon(t) \/ RecordStep(t) \/ RecordCompletion(t) \/ EndExecution(t)
      PROVE  Goal
  <2>1. /\ OthersStay(t) /\ RecordsStay /\ scope'[t].trace_id \in {scope[t].trace_id, 0}
    BY <1>3, CountOutcomeEffect, RaiseMaximumEffect, ReserveEffect, DiscoverEffect,
       AbandonEffect, RecordStepEffect, RecordCompletionEffect, EndExecutionEffect
       DEF SamePlace, NoScope
  <2>2. next_trace_id' = next_trace_id
    BY <1>3, ThreadSteps
  <2> QED BY <2>1, <2>2, TraceIdsStay
<1>4. ASSUME NEW t \in Threads, BeginCall(t)
      PROVE  Goal
  <2>1. /\ OthersStay(t) /\ RecordsStay /\ scope'[t].trace_id = next_trace_id
        /\ next_trace_id' = next_trace_id + 1 /\ next_trace_id \in Nat
    BY <1>4, BeginCallEffect, BoundsAssumption DEF TypeOK
  <2>2. \A u \in Threads : scope[u].trace_id \in Nat /\ scope[u].trace_id < next_trace_id
    BY ScopeFields DEF TraceIdsTaken
  <2>3. \A u \in Threads : scope'[u].trace_id < next_trace_id'
    BY <2>1, <2>2 DEF OthersStay
  <2>4. \A u, v \in Threads :
           scope'[u].trace_id = scope'[v].trace_id /\ u # v => scope'[u].trace_id = 0
    BY <2>1, <2>2 DEF TraceIdsTaken, OthersStay
  <2>5. \A e \in Epochs : \A i \in DOMAIN slabs'[e].records :
           slabs'[e].records[i].trace_id \in 1..(next_trace_id' - 1)
    BY <2>1 DEF TraceIdsTaken, RecordsStay
  <2> QED BY <2>3, <2>4, <2>5 DEF TraceIdsTaken
<1>5. ASSUME NEW t \in Threads, Publish(t)
      PROVE  Goal
  <2>1. /\ OthersStay(t) /\ scope'[t].trace_id = scope[t].trace_id
        /\ scope[t].at = "publish" /\ next_trace_id' = next_trace_id
    BY <1>5, PublishEffect, ThreadSteps DEF SamePlace
  <2>2. CASE RecordsStay
    BY <2>1, <2>2, TraceIdsStay
  <2>3. CASE \A x \in Epochs : slabs'[x].records =
                    IF x = scope[t].call THEN Append(slabs[x].records, RecordOf(t))
                                         ELSE slabs[x].records
    <3>1. RecordOf(t).trace_id \in 1..(next_trace_id - 1)
      <4>1. scope[t].trace_id \in Nat /\ scope[t].trace_id # 0
            /\ scope[t].trace_id < next_trace_id /\ next_trace_id \in Nat
        BY <2>1, ScopeFields, CallHoldsSlab, BoundsAssumption
           DEF TypeOK, TraceIdsTaken, CallPositions
      <4> QED BY <4>1 DEF RecordOf
    <3>2. ASSUME NEW e \in Epochs, NEW i \in DOMAIN slabs'[e].records
          PROVE  slabs'[e].records[i].trace_id \in 1..(next_trace_id - 1)
      <4>1. CASE e # scope[t].call
        BY <2>3, <3>2, <4>1 DEF TraceIdsTaken
      <4>2. CASE e = scope[t].call
        <5>1. slabs[e].records \in Seq(TraceRecord)
          BY SlabFields
        <5>2. slabs'[e].records = Append(slabs[e].records, RecordOf(t))
          BY <2>3, <4>2
        <5>3. i \in 1..(Len(slabs[e].records) + 1)
          BY <3>2, <5>1, <5>2
        <5>4. slabs'[e].records[i] = IF i <= Len(slabs[e].records)
                                     THEN slabs[e].records[i] ELSE RecordOf(t)
          BY <5>1, <5>2, <5>3
        <5>5. i <= Len(slabs[e].records) => i \in DOMAIN slabs[e].records
          BY <5>1, <5>3
        <5> QED BY <3>1, <5>4, <5>5 DEF TraceIdsTaken
      <4> QED BY <4>1, <4>2
    <3>3. \A u \in Threads : scope'[u].trace_id < next_trace_id'
      BY <2>1 DEF TraceIdsTaken, OthersStay
    <3>4. \A u, v \in Threads :
             scope'[u].trace_id = scope'[v].trace_id /\ u # v => scope'[u].trace_id = 0
      BY <2>1 DEF TraceIdsTaken, OthersStay
    <3> QED BY <2>1, <3>2, <3>3, <3>4 DEF TraceIdsTaken
  <2> QED BY <1>5, <2>2, <2>3, PublishEffect
<1> QED BY <1>1, <1>2, <1>3, <1>4, <1>5, Steps

-----------------------------------------------------------------------------
(* A call that has no record yet shares its trace id with none.            *)
LEMMA RecordsStayOwned ==
    ASSUME RecordsOwnTheirTrace, NEW t \in Threads, OthersStay(t), RecordsStay,
           \A e \in Epochs : \A i \in DOMAIN slabs[e].records :
              scope'[t].trace_id = slabs[e].records[i].trace_id
                 => scope'[t].at = "recorded"
    PROVE  RecordsOwnTheirTrace'
<1>1. \A e \in Epochs, f \in Epochs :
         \A i \in DOMAIN slabs'[e].records, j \in DOMAIN slabs'[f].records :
            slabs'[e].records[i].trace_id = slabs'[f].records[j].trace_id
                => e = f /\ i = j
  BY DEF RecordsOwnTheirTrace, RecordsStay
<1>2. \A e \in Epochs : \A i \in DOMAIN slabs'[e].records :
         /\ slabs'[e].records[i].epoch = e
         /\ \A u \in Threads :
              scope'[u].trace_id = slabs'[e].records[i].trace_id
                 => scope'[u].at = "recorded"
  BY DEF RecordsOwnTheirTrace, RecordsStay, OthersStay, At
<1> QED BY <1>1, <1>2 DEF RecordsOwnTheirTrace, At

LEMMA NoRecordYet ==
    ASSUME RecordsOwnTheirTrace, NEW t \in Threads, scope[t].at # "recorded"
    PROVE  \A e \in Epochs : \A i \in DOMAIN slabs[e].records :
              slabs[e].records[i].trace_id # scope[t].trace_id
BY DEF RecordsOwnTheirTrace, At

LEMMA RecordIdsTaken ==
    ASSUME TypeOK, TraceIdsTaken
    PROVE  \A e \in Epochs : \A i \in DOMAIN slabs[e].records :
              /\ slabs[e].records[i].trace_id # 0
              /\ slabs[e].records[i].trace_id # next_trace_id
BY BoundsAssumption DEF TypeOK, TraceIdsTaken

LEMMA RecordsOwnTheirTraceStep ==
    ASSUME IInv, [Next]_vars
    PROVE  RecordsOwnTheirTrace'
<1> USE DEF IInv
<1> DEFINE Goal == RecordsOwnTheirTrace'
<1>1. CASE UNCHANGED vars \/ ResetBuild \/ ResetPublish
  BY <1>1 DEF vars, ResetBuild, ResetPublish, RecordsOwnTheirTrace, At
<1>2. ASSUME NEW t \in Threads,
             \/ BeginExecution(t) \/ Stop(t) \/ EnterModel(t) \/ LeaveModel(t)
             \/ CountOutcome(t) \/ RaiseMaximum(t) \/ Reserve(t) \/ Discover(t)
             \/ Abandon(t) \/ RecordCompletion(t)
      PROVE  Goal
  <2>1. /\ OthersStay(t) /\ RecordsStay /\ scope'[t].trace_id = scope[t].trace_id
        /\ scope[t].at # "recorded"
    BY <1>2, BeginExecutionEffect, StopEffect, EnterModelEffect, LeaveModelEffect,
       CountOutcomeEffect, RaiseMaximumEffect, ReserveEffect, DiscoverEffect,
       AbandonEffect, RecordCompletionEffect DEF SamePlace, RecordsStay
  <2> QED BY <2>1, NoRecordYet, RecordsStayOwned
<1>3. ASSUME NEW t \in Threads, RecordStep(t) \/ EndExecution(t) \/ BeginCall(t)
      PROVE  Goal
  <2>1. /\ OthersStay(t) /\ RecordsStay /\ scope'[t].trace_id \in {0, next_trace_id}
    BY <1>3, RecordStepEffect, EndExecutionEffect, BeginCallEffect DEF NoScope
  <2> QED BY <2>1, RecordIdsTaken, RecordsStayOwned
<1>4. ASSUME NEW t \in Threads, Publish(t)
      PROVE  Goal
  <2>1. /\ OthersStay(t) /\ scope'[t].trace_id = scope[t].trace_id
        /\ scope[t].at = "publish" /\ scope'[t].at = "recorded"
    BY <1>4, PublishEffect DEF SamePlace
  <2>2. CASE RecordsStay
    BY <2>1, <2>2, RecordsStayOwned
  <2>3. CASE \A x \in Epochs : slabs'[x].records =
                    IF x = scope[t].call THEN Append(slabs[x].records, RecordOf(t))
                                         ELSE slabs[x].records
    <3> DEFINE c == scope[t].call
               n == Len(slabs[c].records)
    <3>1. c \in Epochs /\ scope[t].trace_id # 0
      BY <2>1, CallHoldsSlab DEF CallPositions
    <3>2. slabs[c].records \in Seq(TraceRecord) /\ n \in Nat
      BY <3>1, SlabFields
    <3>3. /\ slabs'[c].records = Append(slabs[c].records, RecordOf(t))
          /\ DOMAIN slabs'[c].records = 1..(n + 1)
          /\ DOMAIN slabs[c].records = 1..n
          /\ slabs'[c].records[n + 1] = RecordOf(t)
          /\ \A i \in 1..n : slabs'[c].records[i] = slabs[c].records[i]
      <4>1. slabs'[c].records = Append(slabs[c].records, RecordOf(t))
        BY <2>3, <3>1
      <4> DEFINE old == slabs[c].records
                 z == RecordOf(t)
      <4>2. old \in Seq(TraceRecord)
        BY <3>2
      <4> HIDE DEF old, z
      <4>3. /\ DOMAIN Append(old, z) = 1..(Len(old) + 1) /\ DOMAIN old = 1..Len(old)
            /\ Append(old, z)[Len(old) + 1] = z
            /\ \A i \in 1..Len(old) : Append(old, z)[i] = old[i]
        BY <4>2, RecordAppended
      <4> QED BY <4>1, <4>3, Zenon DEF old, z
    <3>4. RecordOf(t).trace_id = scope[t].trace_id /\ RecordOf(t).epoch = c
      BY DEF RecordOf
    <3> DEFINE New(e, i) == e = c /\ i = n + 1
               Id(e, i) == slabs'[e].records[i].trace_id
    <3>5. ASSUME NEW e \in Epochs, NEW i \in DOMAIN slabs'[e].records, ~New(e, i)
          PROVE  i \in DOMAIN slabs[e].records /\ slabs'[e].records[i] = slabs[e].records[i]
      <4>1. CASE e = c
        <5>1. i \in 1..(n + 1) /\ i # n + 1
          BY <3>3, <3>5, <4>1
        <5>2. i \in 1..n
          BY <3>2, <5>1
        <5> QED BY <3>3, <4>1, <5>2
      <4>2. CASE e # c
        BY <2>3, <3>5, <4>2
      <4> QED BY <4>1, <4>2
    <3>6. ASSUME NEW e \in Epochs, NEW i \in DOMAIN slabs'[e].records, ~New(e, i)
          PROVE  Id(e, i) # scope[t].trace_id
      BY <2>1, <3>5, <3>6, NoRecordYet
    <3>7. ASSUME NEW e \in Epochs, NEW i \in DOMAIN slabs'[e].records, New(e, i)
          PROVE  Id(e, i) = scope[t].trace_id /\ slabs'[e].records[i].epoch = e
      BY <3>3, <3>4, <3>7
    <3>8. ASSUME NEW e \in Epochs, NEW f \in Epochs, NEW i \in DOMAIN slabs'[e].records,
                 NEW j \in DOMAIN slabs'[f].records, Id(e, i) = Id(f, j)
          PROVE  e = f /\ i = j
      <4>1. CASE New(e, i) /\ New(f, j)
        BY <4>1
      <4>2. CASE New(e, i) /\ ~New(f, j)
        BY <3>6, <3>7, <3>8, <4>2
      <4>3. CASE ~New(e, i) /\ New(f, j)
        BY <3>6, <3>7, <3>8, <4>3
      <4>4. CASE ~New(e, i) /\ ~New(f, j)
        BY <3>5, <3>8, <4>4 DEF RecordsOwnTheirTrace
      <4> QED BY <4>1, <4>2, <4>3, <4>4
    <3>9. ASSUME NEW e \in Epochs, NEW i \in DOMAIN slabs'[e].records
          PROVE  slabs'[e].records[i].epoch = e
      <4>1. CASE New(e, i)
        BY <3>7, <4>1
      <4>2. CASE ~New(e, i)
        BY <3>5, <4>2 DEF RecordsOwnTheirTrace
      <4> QED BY <4>1, <4>2
    <3>10. ASSUME NEW e \in Epochs, NEW i \in DOMAIN slabs'[e].records, NEW u \in Threads,
                  scope'[u].trace_id = Id(e, i)
           PROVE  scope'[u].at = "recorded"
      <4>1. CASE u = t
        BY <2>1, <4>1
      <4>2. CASE u # t /\ New(e, i)
        BY <2>1, <3>1, <3>7, <3>10, <4>2 DEF OthersStay, TraceIdsTaken
      <4>3. CASE u # t /\ ~New(e, i)
        <5>1. scope'[u] = scope[u]
          BY <2>1, <4>3 DEF OthersStay
        <5>2. /\ i \in DOMAIN slabs[e].records
              /\ scope[u].trace_id = slabs[e].records[i].trace_id
          BY <3>5, <3>10, <4>3, <5>1
        <5> QED BY <5>1, <5>2 DEF RecordsOwnTheirTrace, At
      <4> QED BY <4>1, <4>2, <4>3
    <3> QED BY <3>8, <3>9, <3>10 DEF RecordsOwnTheirTrace, At
  <2> QED BY <1>4, <2>2, <2>3, PublishEffect
<1> QED BY <1>1, <1>2, <1>3, <1>4, Steps

-----------------------------------------------------------------------------
(* A thread that neither takes nor gives back a slot leaves them counted.  *)
LEMMA SlotsStay ==
    ASSUME SlotsAccountedFor, NEW t \in Threads, OthersStay(t), PendingStays,
           \/ scope[t].at \notin Reserved /\ scope'[t].at \notin Reserved
           \/ /\ scope[t].at \in Reserved /\ scope'[t].at \in Reserved
              /\ scope'[t].call = scope[t].call
    PROVE  SlotsAccountedFor'
<1>1. \A e \in Epochs : SlotsHeld(e)' = SlotsHeld(e)
  BY DEF SlotsHeld, InCall, OthersStay
<1> QED BY <1>1 DEF SlotsAccountedFor, PendingStays

LEMMA SlotTaken ==
    ASSUME TypeOK, SlotsAccountedFor, NEW t \in Threads, OthersStay(t), SamePlace(t),
           scope[t].at \notin Reserved, scope'[t].at \in Reserved,
           \A x \in Epochs : slabs'[x].pending =
               slabs[x].pending + (IF x = scope[t].call THEN 1 ELSE 0)
    PROVE  SlotsAccountedFor'
<1> SUFFICES ASSUME NEW e \in Epochs
             PROVE  slabs'[e].pending = Cardinality(SlotsHeld(e)')
  BY DEF SlotsAccountedFor
<1>1. IsFiniteSet(SlotsHeld(e)) /\ slabs[e].pending = Cardinality(SlotsHeld(e))
      /\ slabs[e].pending \in Nat
  BY ThreadsAssumption, FS_Subset, SlabFields DEF SlotsHeld, SlotsAccountedFor
<1>2. CASE e = scope[t].call
  <2>1. SlotsHeld(e)' = SlotsHeld(e) \cup {t} /\ t \notin SlotsHeld(e)
    BY <1>2 DEF SlotsHeld, InCall, OthersStay, SamePlace
  <2>2. slabs'[e].pending = slabs[e].pending + 1
    BY <1>2
  <2> QED BY <1>1, <2>1, <2>2, FS_AddElement
<1>3. CASE e # scope[t].call
  <2>1. SlotsHeld(e)' = SlotsHeld(e)
    BY <1>3 DEF SlotsHeld, InCall, OthersStay, SamePlace
  <2> QED BY <1>1, <1>3, <2>1
<1> QED BY <1>2, <1>3

LEMMA SlotLeft ==
    ASSUME TypeOK, SlotsAccountedFor, NEW t \in Threads, OthersStay(t), SamePlace(t),
           scope[t].at \in Reserved, scope'[t].at \notin Reserved, SlotGivenBack(t)
    PROVE  SlotsAccountedFor'
<1> SUFFICES ASSUME NEW e \in Epochs
             PROVE  slabs'[e].pending = Cardinality(SlotsHeld(e)')
  BY DEF SlotsAccountedFor
<1>1. IsFiniteSet(SlotsHeld(e)) /\ slabs[e].pending = Cardinality(SlotsHeld(e))
      /\ slabs[e].pending \in Nat
  BY ThreadsAssumption, FS_Subset, SlabFields DEF SlotsHeld, SlotsAccountedFor
<1>2. CASE e = scope[t].call
  <2>1. SlotsHeld(e)' = SlotsHeld(e) \ {t} /\ t \in SlotsHeld(e)
    BY <1>2 DEF SlotsHeld, InCall, OthersStay, SamePlace
  <2>2. slabs'[e].pending = slabs[e].pending - 1
    BY <1>2 DEF SlotGivenBack
  <2> QED BY <1>1, <2>1, <2>2, FS_RemoveElement
<1>3. CASE e # scope[t].call
  <2>1. SlotsHeld(e)' = SlotsHeld(e)
    BY <1>3 DEF SlotsHeld, InCall, OthersStay, SamePlace
  <2>2. slabs'[e].pending = slabs[e].pending
    BY <1>3 DEF SlotGivenBack
  <2> QED BY <1>1, <2>1, <2>2
<1> QED BY <1>2, <1>3

LEMMA SlotsAccountedForStep ==
    ASSUME IInv, [Next]_vars
    PROVE  SlotsAccountedFor'
<1> USE DEF IInv
<1> DEFINE Goal == SlotsAccountedFor'
<1>1. CASE UNCHANGED vars \/ ResetBuild \/ ResetPublish
  BY <1>1 DEF vars, ResetBuild, ResetPublish, SlotsAccountedFor, SlotsHeld, InCall
<1>2. ASSUME NEW t \in Threads,
             BeginExecution(t) \/ Stop(t) \/ EnterModel(t) \/ LeaveModel(t)
      PROVE  Goal
  <2>1. /\ OthersStay(t) /\ PendingStays
        /\ scope[t].at \notin Reserved /\ scope'[t].at \notin Reserved
    BY <1>2, BeginExecutionEffect, StopEffect, EnterModelEffect, LeaveModelEffect
       DEF PendingStays, Reserved
  <2> QED BY <2>1, SlotsStay
<1>3. ASSUME NEW t \in Threads,
             \/ BeginCall(t) \/ CountOutcome(t) \/ RaiseMaximum(t)
             \/ RecordStep(t) \/ RecordCompletion(t) \/ EndExecution(t)
      PROVE  Goal
  <2>1. /\ OthersStay(t) /\ PendingStays
        /\ scope[t].at \notin Reserved /\ scope'[t].at \notin Reserved
    BY <1>3, BeginCallEffect, CountOutcomeEffect, RaiseMaximumEffect, RecordStepEffect,
       RecordCompletionEffect, EndExecutionEffect DEF Reserved, NoScope
  <2> QED BY <2>1, SlotsStay
<1>4. ASSUME NEW t \in Threads, Reserve(t)
      PROVE  Goal
  BY <1>4, ReserveEffect, SlotsStay, SlotTaken DEF Reserved
<1>5. ASSUME NEW t \in Threads, Discover(t)
      PROVE  Goal
  BY <1>5, DiscoverEffect, SlotsStay DEF Reserved, SamePlace
<1>6. ASSUME NEW t \in Threads, Abandon(t) \/ Publish(t)
      PROVE  Goal
  BY <1>6, AbandonEffect, PublishEffect, SlotLeft DEF Reserved
<1> QED BY <1>1, <1>2, <1>3, <1>4, <1>5, <1>6, Steps

-----------------------------------------------------------------------------
LEMMA TracesWithinCapStep ==
    ASSUME IInv, [Next]_vars
    PROVE  TracesWithinCap'
<1> USE DEF IInv
<1> DEFINE Goal == TracesWithinCap'
<1>1. CASE UNCHANGED vars \/ ResetBuild \/ ResetPublish
  BY <1>1 DEF vars, ResetBuild, ResetPublish, TracesWithinCap
<1>2. ASSUME RecordsStay, PendingStays
      PROVE  Goal
  BY <1>2 DEF TracesWithinCap, RecordsStay, PendingStays
<1>3. ASSUME NEW t \in Threads,
             \/ BeginExecution(t) \/ Stop(t) \/ EnterModel(t) \/ LeaveModel(t)
             \/ BeginCall(t) \/ CountOutcome(t) \/ RaiseMaximum(t) \/ Discover(t)
             \/ RecordStep(t) \/ RecordCompletion(t) \/ EndExecution(t)
      PROVE  Goal
  <2>1. RecordsStay /\ PendingStays
    BY <1>3, BeginExecutionEffect, StopEffect, EnterModelEffect, LeaveModelEffect,
       BeginCallEffect, CountOutcomeEffect, RaiseMaximumEffect, DiscoverEffect,
       RecordStepEffect, RecordCompletionEffect, EndExecutionEffect
       DEF RecordsStay, PendingStays
  <2> QED BY <1>2, <2>1
<1>4. ASSUME NEW t \in Threads, Reserve(t)
      PROVE  Goal
  <2>1. CASE PendingStays
    BY <1>2, <1>4, <2>1, ReserveEffect
  <2>2. CASE /\ ~Full(scope[t].call)
             /\ \A x \in Epochs : slabs'[x].pending =
                      slabs[x].pending + (IF x = scope[t].call THEN 1 ELSE 0)
    <3>1. RecordsStay
      BY <1>4, ReserveEffect
    <3> SUFFICES ASSUME NEW e \in Epochs
                 PROVE  Len(slabs'[e].records) + slabs'[e].pending <= MaxTraceRecords
      BY DEF TracesWithinCap
    <3>2. slabs[e].pending \in Nat /\ Len(slabs[e].records) \in Nat
      BY SlabFields
    <3> QED BY <2>2, <3>1, <3>2, OptionsAssumption DEF Full, RecordsStay, TracesWithinCap
  <2> QED BY <1>4, <2>1, <2>2, ReserveEffect
<1>5. ASSUME NEW t \in Threads, RecordsStay, SlotGivenBack(t)
      PROVE  Goal
  <2> SUFFICES ASSUME NEW e \in Epochs
               PROVE  Len(slabs'[e].records) + slabs'[e].pending <= MaxTraceRecords
    BY DEF TracesWithinCap
  <2>1. slabs[e].pending \in Nat /\ Len(slabs[e].records) \in Nat
    BY SlabFields
  <2> QED BY <1>5, <2>1, OptionsAssumption DEF SlotGivenBack, RecordsStay, TracesWithinCap
<1>6. ASSUME NEW t \in Threads, Publish(t),
             \A x \in Epochs : slabs'[x].records =
                    IF x = scope[t].call THEN Append(slabs[x].records, RecordOf(t))
                                         ELSE slabs[x].records
      PROVE  Goal
  <2> SUFFICES ASSUME NEW e \in Epochs
               PROVE  Len(slabs'[e].records) + slabs'[e].pending <= MaxTraceRecords
    BY DEF TracesWithinCap
  <2>1. slabs[e].pending \in Nat /\ slabs[e].records \in Seq(TraceRecord)
    BY SlabFields
  <2>2. Len(slabs'[e].records) = Len(slabs[e].records) + (IF e = scope[t].call THEN 1 ELSE 0)
    <3>1. Len(Append(slabs[e].records, RecordOf(t))) = Len(slabs[e].records) + 1
      BY <2>1
    <3>2. slabs'[e].records = IF e = scope[t].call
                              THEN Append(slabs[e].records, RecordOf(t)) ELSE slabs[e].records
      BY <1>6
    <3>3. Len(slabs[e].records) + 0 = Len(slabs[e].records)
      BY <2>1
    <3> QED BY <3>1, <3>2, <3>3
  <2>3. SlotGivenBack(t)
    BY <1>6, PublishEffect
  <2>4. Len(slabs[e].records) \in Nat /\ Len(slabs[e].records) + slabs[e].pending <= MaxTraceRecords
    BY <2>1 DEF TracesWithinCap
  <2>5. CASE e = scope[t].call
    <3>1. slabs'[e].pending = slabs[e].pending - 1
      BY <2>3, <2>5 DEF SlotGivenBack
    <3>2. Len(slabs'[e].records) = Len(slabs[e].records) + 1
      BY <2>2, <2>5
    <3> QED BY <2>1, <2>4, <3>1, <3>2, OptionsAssumption
  <2>6. CASE e # scope[t].call
    BY <2>1, <2>2, <2>3, <2>4, <2>6, OptionsAssumption DEF SlotGivenBack
  <2> QED BY <2>5, <2>6
<1> QED BY <1>1, <1>3, <1>4, <1>5, <1>6, Steps, AbandonEffect, PublishEffect

-----------------------------------------------------------------------------
(* What DurationsCounted says of one call.                                 *)
Counted(t) ==
    /\ At(t, "raise") => /\ scope[t].duration <= slabs[scope[t].call].total
                         /\ scope[t].observed <= slabs[scope[t].call].maximum
    /\ scope[t].at \in {"reserve", "discover", "publish"} =>
            scope[t].duration <= slabs[scope[t].call].maximum

(* Counters that only grow leave every other call counted.                 *)
LEMMA OthersStayCounted ==
    ASSUME TypeOK, ScopesHoldSlabs, DurationsCounted, NEW t \in Threads, OthersStay(t), Typed,
           \A x \in Epochs : /\ slabs'[x].total >= slabs[x].total
                             /\ slabs'[x].maximum >= slabs[x].maximum,
           Counted(t)'
    PROVE  DurationsCounted'
<1> SUFFICES ASSUME NEW u \in Threads, u # t
             PROVE  Counted(u)'
  BY DEF DurationsCounted, Counted, At
<1>1. scope'[u] = scope[u] /\ Counted(u)
  BY DEF OthersStay, DurationsCounted, Counted
<1>2. CASE scope[u].at \in {"raise", "reserve", "discover", "publish"}
  <2>1. scope[u].call \in Epochs
    BY <1>2, CallHoldsSlab DEF CallPositions, Unsettled
  <2>2. /\ scope[u].duration \in Nat /\ scope[u].observed \in Nat
        /\ slabs[scope[u].call].total \in Nat /\ slabs[scope[u].call].maximum \in Nat
    BY <2>1, ScopeFields, SlabFields
  <2>3. slabs' \in [Epochs -> TelemetrySlab]
    BY DEF Typed
  <2>4. slabs'[scope[u].call].total \in Nat /\ slabs'[scope[u].call].maximum \in Nat
    BY <2>1, <2>3 DEF TelemetrySlab
  <2> QED BY <1>1, <2>1, <2>2, <2>4 DEF Counted, At
<1>3. CASE scope[u].at \notin {"raise", "reserve", "discover", "publish"}
  BY <1>1, <1>3 DEF Counted, At
<1> QED BY <1>2, <1>3

LEMMA TimesStayGrown ==
    ASSUME TypeOK, TimesStay
    PROVE  \A x \in Epochs : /\ slabs'[x].total >= slabs[x].total
                             /\ slabs'[x].maximum >= slabs[x].maximum
BY SlabFields DEF TimesStay

LEMMA DurationsCountedStep ==
    ASSUME IInv, [Next]_vars
    PROVE  DurationsCounted'
<1> USE DEF IInv
<1> DEFINE Goal == DurationsCounted'
<1>1. CASE UNCHANGED vars \/ ResetBuild \/ ResetPublish
  BY <1>1 DEF vars, ResetBuild, ResetPublish, DurationsCounted, At
<1>2. ASSUME NEW t \in Threads,
             \/ BeginExecution(t) \/ Stop(t) \/ EnterModel(t) \/ LeaveModel(t)
             \/ BeginCall(t) \/ Abandon(t) \/ Publish(t)
             \/ RecordStep(t) \/ RecordCompletion(t) \/ EndExecution(t)
      PROVE  Goal
  <2>1. /\ OthersStay(t) /\ TimesStay /\ Typed
        /\ scope'[t].at \notin {"raise", "reserve", "discover", "publish"}
    BY <1>2, BeginExecutionEffect, StopEffect, EnterModelEffect, LeaveModelEffect,
       BeginCallEffect, AbandonEffect, PublishEffect, RecordStepEffect,
       RecordCompletionEffect, EndExecutionEffect DEF TimesStay, NoScope
  <2>2. Counted(t)'
    BY <2>1 DEF Counted, At
  <2> QED BY <2>1, <2>2, OthersStayCounted, TimesStayGrown
<1>3. ASSUME NEW t \in Threads, Reserve(t) \/ Discover(t)
      PROVE  Goal
  <2>1. /\ OthersStay(t) /\ TimesStay /\ Typed /\ SamePlace(t)
        /\ scope'[t].duration = scope[t].duration
        /\ scope[t].at \in {"reserve", "discover"} /\ scope'[t].at # "raise"
    BY <1>3, ReserveEffect, DiscoverEffect
  <2>2. scope[t].call \in Epochs
    BY <2>1, CallHoldsSlab DEF CallPositions, Unsettled
  <2>3. Counted(t)'
    BY <2>1, <2>2 DEF Counted, At, DurationsCounted, SamePlace, TimesStay
  <2> QED BY <2>1, <2>3, OthersStayCounted, TimesStayGrown
<1>4. ASSUME NEW t \in Threads, CountOutcome(t)
      PROVE  Goal
  <2>1. scope[t].call \in Epochs
    BY <1>4, CountOutcomeEffect, CallHoldsSlab DEF CallPositions, Started
  <2>2. /\ slabs[scope[t].call].total \in Nat /\ slabs[scope[t].call].maximum \in Nat
        /\ scope[t].duration \in Nat
    BY <2>1, SlabFields, ScopeFields
  <2>3. Counted(t)'
    BY <1>4, <2>1, <2>2, CountOutcomeEffect DEF Counted, At, SamePlace
  <2>4. \A x \in Epochs : /\ slabs'[x].total >= slabs[x].total
                          /\ slabs'[x].maximum >= slabs[x].maximum
    BY <1>4, <2>2, CountOutcomeEffect, SlabFields
  <2> QED BY <1>4, <2>3, <2>4, CountOutcomeEffect, OthersStayCounted
<1>5. ASSUME NEW t \in Threads, RaiseMaximum(t)
      PROVE  Goal
  <2>1. /\ OthersStay(t) /\ SamePlace(t) /\ Typed
        /\ scope[t].at = "raise" /\ scope'[t].duration = scope[t].duration
        /\ \A x \in Epochs : slabs'[x].total = slabs[x].total
    BY <1>5, RaiseMaximumEffect
  <2>2. scope[t].call \in Epochs
    BY <2>1, CallHoldsSlab DEF CallPositions, Unsettled
  <2>3. /\ slabs[scope[t].call].total \in Nat /\ slabs[scope[t].call].maximum \in Nat
        /\ scope[t].duration \in Nat /\ scope[t].observed \in Nat
        /\ scope[t].duration <= slabs[scope[t].call].total
        /\ scope[t].observed <= slabs[scope[t].call].maximum
    BY <2>1, <2>2, SlabFields, ScopeFields DEF DurationsCounted, At
  <2>4. CASE /\ scope'[t].at \in {"reserve", "recorded"} /\ TimesStay
             /\ scope[t].duration <= scope[t].observed
    <3>1. Counted(t)'
      BY <2>1, <2>2, <2>3, <2>4 DEF Counted, At, SamePlace, TimesStay
    <3> QED BY <2>1, <2>4, <3>1, OthersStayCounted, TimesStayGrown
  <2>5. CASE /\ scope'[t].at \in {"reserve", "recorded"}
             /\ scope[t].duration > slabs[scope[t].call].maximum
             /\ \A x \in Epochs : slabs'[x].maximum =
                      IF x = scope[t].call THEN scope[t].duration ELSE slabs[x].maximum
    <3>1. Counted(t)'
      BY <2>1, <2>2, <2>3, <2>5 DEF Counted, At, SamePlace
    <3>2. \A x \in Epochs : /\ slabs'[x].total >= slabs[x].total
                            /\ slabs'[x].maximum >= slabs[x].maximum
      BY <2>1, <2>3, <2>5, SlabFields
    <3> QED BY <2>1, <3>1, <3>2, OthersStayCounted
  <2>6. CASE /\ scope'[t].at = "raise" /\ TimesStay
             /\ scope'[t].observed = slabs[scope[t].call].maximum
    <3>1. Counted(t)'
      BY <2>1, <2>2, <2>3, <2>6 DEF Counted, At, SamePlace, TimesStay
    <3> QED BY <2>1, <2>6, <3>1, OthersStayCounted, TimesStayGrown
  <2> QED BY <1>5, <2>4, <2>5, <2>6, RaiseMaximumEffect
<1> QED BY <1>1, <1>2, <1>3, <1>4, <1>5, Steps

LEMMA DurationsAgreeStep ==
    ASSUME IInv, [Next]_vars
    PROVE  DurationsAgree'
<1> USE DEF IInv
<1> DEFINE Goal == DurationsAgree'
<1>1. CASE UNCHANGED vars \/ ResetBuild \/ ResetPublish
  BY <1>1 DEF vars, ResetBuild, ResetPublish, DurationsAgree
<1>2. ASSUME RecordsStay, TimesStay
      PROVE  Goal
  BY <1>2 DEF DurationsAgree, RecordsStay, TimesStay
<1>3. ASSUME NEW t \in Threads,
             \/ BeginExecution(t) \/ Stop(t) \/ EnterModel(t) \/ LeaveModel(t)
             \/ BeginCall(t) \/ Reserve(t) \/ Discover(t) \/ Abandon(t)
             \/ RecordStep(t) \/ RecordCompletion(t) \/ EndExecution(t)
      PROVE  Goal
  <2>1. RecordsStay /\ TimesStay
    BY <1>3, BeginExecutionEffect, StopEffect, EnterModelEffect, LeaveModelEffect,
       BeginCallEffect, ReserveEffect, DiscoverEffect, AbandonEffect, RecordStepEffect,
       RecordCompletionEffect, EndExecutionEffect DEF RecordsStay, TimesStay
  <2> QED BY <1>2, <2>1
<1>4. ASSUME NEW e \in Epochs, NEW i \in DOMAIN slabs[e].records
      PROVE  slabs[e].records[i].duration_ns \in Nat
  <2>1. slabs[e].records \in Seq(TraceRecord)
    BY SlabFields
  <2>2. slabs[e].records[i] \in TraceRecord
    BY <1>4, <2>1
  <2> QED BY <2>2 DEF TraceRecord
<1>5. ASSUME NEW t \in Threads, CountOutcome(t)
      PROVE  Goal
  <2>1. \A x \in Epochs : /\ slabs[x].maximum \in Nat /\ slabs[x].total \in Nat
                          /\ scope[t].duration \in Nat
    BY SlabFields, ScopeFields
  <2>2. \A x \in Epochs : slabs'[x].maximum = slabs[x].maximum
                          /\ slabs'[x].maximum <= slabs'[x].total
    BY <1>5, <2>1, CountOutcomeEffect DEF DurationsAgree
  <2> QED BY <1>5, <2>2, CountOutcomeEffect DEF DurationsAgree, RecordsStay
<1>6. ASSUME NEW t \in Threads, RaiseMaximum(t)
      PROVE  Goal
  <2>1. RecordsStay /\ scope[t].at = "raise" /\ scope[t].duration \in Nat
    BY <1>6, RaiseMaximumEffect, ScopeFields
  <2>2. scope[t].duration <= slabs[scope[t].call].total
    BY <2>1 DEF DurationsCounted, At
  <2>3. CASE TimesStay
    BY <1>2, <2>1, <2>3
  <2>4. CASE /\ scope[t].duration > slabs[scope[t].call].maximum
             /\ \A x \in Epochs : slabs'[x].maximum =
                      IF x = scope[t].call THEN scope[t].duration ELSE slabs[x].maximum
    <3>1. \A x \in Epochs : slabs'[x].total = slabs[x].total
      BY <1>6, RaiseMaximumEffect
    <3>2. \A x \in Epochs : slabs'[x].maximum <= slabs'[x].total
      BY <2>2, <2>4, <3>1 DEF DurationsAgree
    <3>3. \A x \in Epochs : /\ slabs[x].maximum \in Nat
                            /\ slabs'[x].maximum \in Nat /\ slabs[x].maximum <= slabs'[x].maximum
      BY <2>1, <2>4, SlabFields
    <3>4. \A x \in Epochs : \A i \in DOMAIN slabs[x].records :
             slabs[x].records[i].duration_ns <= slabs'[x].maximum
      BY <1>4, <3>3 DEF DurationsAgree
    <3> QED BY <2>1, <3>2, <3>4 DEF DurationsAgree, RecordsStay
  <2> QED BY <1>6, <2>3, <2>4, RaiseMaximumEffect
<1>7. ASSUME NEW t \in Threads, Publish(t)
      PROVE  Goal
  <2>1. TimesStay /\ scope[t].at = "publish"
    BY <1>7, PublishEffect
  <2>2. CASE RecordsStay
    BY <1>2, <2>1, <2>2
  <2>3. CASE \A x \in Epochs : slabs'[x].records =
                    IF x = scope[t].call THEN Append(slabs[x].records, RecordOf(t))
                                         ELSE slabs[x].records
    <3>1. RecordOf(t).duration_ns <= slabs[scope[t].call].maximum
      BY <2>1 DEF RecordOf, DurationsCounted
    <3>2. ASSUME NEW e \in Epochs, NEW i \in DOMAIN slabs'[e].records
          PROVE  slabs'[e].records[i].duration_ns <= slabs[e].maximum
      <4>1. CASE e # scope[t].call
        BY <2>3, <3>2, <4>1 DEF DurationsAgree
      <4>2. CASE e = scope[t].call
        <5>1. slabs[e].records \in Seq(TraceRecord)
          BY SlabFields
        <5>2. slabs'[e].records = Append(slabs[e].records, RecordOf(t))
          BY <2>3, <4>2
        <5>3. i \in 1..(Len(slabs[e].records) + 1)
          BY <3>2, <5>1, <5>2
        <5>4. slabs'[e].records[i] = IF i <= Len(slabs[e].records)
                                     THEN slabs[e].records[i] ELSE RecordOf(t)
          BY <5>1, <5>2, <5>3
        <5>5. i <= Len(slabs[e].records) => i \in DOMAIN slabs[e].records
          BY <5>1, <5>3
        <5> QED BY <3>1, <4>2, <5>4, <5>5 DEF DurationsAgree
      <4> QED BY <4>1, <4>2
    <3> QED BY <2>1, <3>2 DEF DurationsAgree, TimesStay
  <2> QED BY <1>7, <2>2, <2>3, PublishEffect
<1> QED BY <1>1, <1>3, <1>5, <1>6, <1>7, Steps

-----------------------------------------------------------------------------
LEMMA EmptySlabTyped == EmptySlab \in TelemetrySlab
BY DEF EmptySlab, TelemetrySlab, NoCounts

(* Nothing is recorded and nobody is in a call at the start.               *)
LEMMA InitialInvariant == Init => IInv
<1> SUFFICES ASSUME Init
             PROVE  IInv
  OBVIOUS
<1> USE DEF Init
<1>1. TypeOK
  BY EmptySlabTyped, NoScopeTyped, BoundsAssumption DEF TypeOK, Epochs
<1>2. \A t \in Threads : /\ scope[t].at = "idle" /\ scope[t].call = 0
                         /\ scope[t].trace_id = 0 /\ scope[t].duration = 0
  BY DEF NoScope
<1>3. \A e \in Epochs : /\ slabs[e].records = <<>> /\ slabs[e].pending = 0
                        /\ slabs[e].total = 0 /\ slabs[e].maximum = 0
  BY DEF EmptySlab
<1>4. EpochsInOrder
  BY DEF EpochsInOrder
<1>5. ScopesHoldSlabs
  BY <1>2 DEF ScopesHoldSlabs, At, CallPositions, Started, Unsettled
<1>6. TraceIdsTaken
  BY <1>2, <1>3 DEF TraceIdsTaken
<1>7. RecordsOwnTheirTrace
  BY <1>3 DEF RecordsOwnTheirTrace
<1>8. SlotsAccountedFor
  <2>1. \A e \in Epochs : SlotsHeld(e) = {}
    BY <1>2 DEF SlotsHeld, InCall, Reserved
  <2> QED BY <1>3, <2>1, FS_EmptySet DEF SlotsAccountedFor
<1>9. TracesWithinCap
  BY <1>3, OptionsAssumption DEF TracesWithinCap
<1>10. DurationsCounted
  BY <1>2 DEF DurationsCounted, At
<1>11. DurationsAgree
  BY <1>3 DEF DurationsAgree
<1> QED BY <1>1, <1>4, <1>5, <1>6, <1>7, <1>8, <1>9, <1>10, <1>11 DEF IInv

(* IInv holds in every reachable state.                                    *)
THEOREM TelemetryInvariant == Spec => []IInv
<1>1. Init => IInv
  BY InitialInvariant
<1>2. IInv /\ [Next]_vars => IInv'
  <2> SUFFICES ASSUME IInv, [Next]_vars
               PROVE  IInv'
    OBVIOUS
  <2> QED BY TypesStep, EpochsInOrderStep, ScopesHoldSlabsStep, TraceIdsTakenStep,
             RecordsOwnTheirTraceStep, SlotsAccountedForStep, TracesWithinCapStep,
             DurationsCountedStep, DurationsAgreeStep DEF IInv
<1> QED BY <1>1, <1>2, PTL DEF Spec

-----------------------------------------------------------------------------
LEMMA SlabsGrowStep ==
    ASSUME IInv, [Next]_vars
    PROVE  SlabsGrow
<1> USE DEF IInv
<1>1. CASE UNCHANGED vars \/ ResetBuild \/ ResetPublish
  BY <1>1, NothingTaken DEF vars, ResetBuild, ResetPublish
<1>2. ASSUME NEW t \in Threads,
             BeginExecution(t) \/ Stop(t) \/ EnterModel(t) \/ LeaveModel(t)
      PROVE  SlabsGrow
  <2>1. slabs' = slabs
    BY <1>2, BeginExecutionEffect, StopEffect, EnterModelEffect, LeaveModelEffect
  <2> QED BY <2>1, NothingTaken
<1>3. ASSUME NEW t \in Threads,
             \/ BeginCall(t) \/ CountOutcome(t) \/ RaiseMaximum(t) \/ Reserve(t)
             \/ Discover(t) \/ Abandon(t) \/ Publish(t) \/ RecordStep(t)
             \/ RecordCompletion(t) \/ EndExecution(t)
      PROVE  SlabsGrow
  BY <1>3, BeginCallEffect, CountOutcomeEffect, RaiseMaximumEffect, ReserveEffect,
     DiscoverEffect, AbandonEffect, PublishEffect, RecordStepEffect,
     RecordCompletionEffect, EndExecutionEffect
<1> QED BY <1>1, <1>2, <1>3, Steps

LEMMA PublishedSlabStep ==
    ASSUME IInv, [Next]_vars
    PROVE  slab' >= slab
<1> USE DEF IInv
<1>1. slab \in Nat
  BY DEF TypeOK, Epochs
<1>2. CASE UNCHANGED vars
  BY <1>1, <1>2 DEF vars, collectorVars
<1>3. CASE ResetBuild
  BY <1>1, <1>3 DEF ResetBuild
<1>4. CASE ResetPublish
  <2>1. building \in Nat /\ slab < building
    BY <1>4 DEF ResetPublish, EpochsInOrder, TypeOK, Epochs
  <2> QED BY <1>1, <1>4, <2>1 DEF ResetPublish
<1>5. ASSUME NEW t \in Threads, BeginCall(t)
      PROVE  slab' = slab
  BY <1>5, BeginCallKeepsCollector
<1> QED BY <1>1, <1>2, <1>3, <1>4, <1>5, Steps, ThreadSteps

-----------------------------------------------------------------------------
(* Type correctness: a slot is only given back while one is held, so no    *)
(* counter of a slab ever falls below zero.                                *)
THEOREM TelemetryTypes == Spec => []TypeOK
<1>1. IInv => TypeOK
  BY DEF IInv
<1> QED BY <1>1, TelemetryInvariant, PTL

(* However many calls look for their trace file at once, an epoch keeps no *)
(* more than max_trace_records records.  (FinalizeTrace)                   *)
THEOREM TracesStayWithinCap == Spec => []TracesWithinCap
<1>1. IInv => TracesWithinCap
  BY DEF IInv
<1> QED BY <1>1, TelemetryInvariant, PTL

(* No two records share a trace id, hence a trace file, and each is kept   *)
(* in the slab of the epoch it names.  (NextProcessTraceId, Publish)       *)
THEOREM RecordsKeepTheirTrace == Spec => []RecordsOwnTheirTrace
<1>1. IInv => RecordsOwnTheirTrace
  BY DEF IInv
<1> QED BY <1>1, TelemetryInvariant, PTL

(* The maximum duration of an epoch lies between the duration of every     *)
(* record and the total, whatever compare-exchanges fail.                  *)
(* (RecordDuration, RaiseCounterMaximum)                                   *)
THEOREM MaximumIsInBetween == Spec => []DurationsAgree
<1>1. IInv => DurationsAgree
  BY DEF IInv
<1> QED BY <1>1, TelemetryInvariant, PTL

(* A Reset never takes back what a Snapshot of an epoch could have seen,   *)
(* and the published epoch never goes back.  (Reset)                       *)
THEOREM ResetTakesNothingBack == Spec => EpochsOnlyGrow
<1>1. IInv /\ [Next]_vars => [slab' >= slab /\ \A e \in Epochs : SlabGrows(e)]_vars
  <2> SUFFICES ASSUME IInv, [Next]_vars
               PROVE  slab' >= slab /\ \A e \in Epochs : SlabGrows(e)
    OBVIOUS
  <2>1. slab' >= slab /\ SlabsGrow
    BY PublishedSlabStep, SlabsGrowStep
  <2> QED BY <2>1 DEF SlabsGrow, Grown, Snapshot, SlabGrows
<1> QED BY <1>1, TelemetryInvariant, PTL DEF Spec, EpochsOnlyGrow

-----------------------------------------------------------------------------
(* The calls of an epoch and what accounts for them.                       *)
StartedIn(e) == {t \in Threads : InCall(t, e, Started)}
EarlyIn(e)   == {t \in Threads : InCall(t, e, Started) /\ ~scope[t].traced}
LookingIn(e) == {t \in Threads :
                    \/ InCall(t, e, Unsettled) /\ scope[t].traced
                    \/ InCall(t, e, {"publish"}) /\ ~scope[t].missing}
KeptIn(e)    == {i \in DOMAIN slabs[e].records :
                    ~slabs[e].records[i].profiling_failed}
Settled(e)   == Cardinality(KeptIn(e)) + slabs[e].dropped + slabs[e].failed

Accounts(e) ==
    /\ slabs[e].input = CallsEnded(e) + Cardinality(StartedIn(e))
    /\ CallsEnded(e) + Cardinality(EarlyIn(e)) =
            Settled(e) + Cardinality(LookingIn(e))

LEMMA AccountsAre == CallsAccountedFor <=> \A e \in Epochs : Accounts(e)
BY DEF CallsAccountedFor, Accounts, Settled, StartedIn, EarlyIn, LookingIn, KeptIn

LEMMA AccountsArePrimed == CallsAccountedFor' <=> \A e \in Epochs : Accounts(e)'
BY DEF CallsAccountedFor, Accounts, Settled, StartedIn, EarlyIn, LookingIn, KeptIn

(* A set of threads in which one thread may come or go.                    *)
One(t, S) == IF t \in S THEN 1 ELSE 0

LEMMA OneThread ==
    ASSUME NEW A \in SUBSET Threads, NEW B \in SUBSET Threads, NEW t \in Threads,
           A \ {t} = B \ {t}
    PROVE  /\ Cardinality(A) \in Nat /\ Cardinality(B) \in Nat
           /\ Cardinality(B) + One(t, A) = Cardinality(A) + One(t, B)
<1>1. IsFiniteSet(A) /\ IsFiniteSet(B)
  BY ThreadsAssumption, FS_Subset
<1>2. Cardinality(A) \in Nat /\ Cardinality(B) \in Nat
  BY <1>1, FS_CardinalityType
<1>3. CASE t \in A <=> t \in B
  <2>1. A = B
    BY <1>3
  <2> QED BY <2>1, <1>2
<1>4. CASE t \in A /\ t \notin B
  <2>1. A = B \cup {t}
    BY <1>4
  <2>2. Cardinality(A) = Cardinality(B) + 1
    BY <1>1, <1>4, <2>1, FS_AddElement
  <2> QED BY <1>2, <1>4, <2>2 DEF One
<1>5. CASE t \notin A /\ t \in B
  <2>1. B = A \cup {t}
    BY <1>5
  <2>2. Cardinality(B) = Cardinality(A) + 1
    BY <1>1, <1>5, <2>1, FS_AddElement
  <2> QED BY <1>2, <1>5, <2>2 DEF One
<1> QED BY <1>2, <1>3, <1>4, <1>5

(* The thread that takes a step is the only one whose place may change.    *)
LEMMA OthersStayPlaced ==
    ASSUME NEW t \in Threads, OthersStay(t), NEW e \in Epochs
    PROVE  /\ StartedIn(e) \ {t} = StartedIn(e)' \ {t}
           /\ EarlyIn(e) \ {t} = EarlyIn(e)' \ {t}
           /\ LookingIn(e) \ {t} = LookingIn(e)' \ {t}
           /\ StartedIn(e) \in SUBSET Threads /\ StartedIn(e)' \in SUBSET Threads
           /\ EarlyIn(e) \in SUBSET Threads /\ EarlyIn(e)' \in SUBSET Threads
           /\ LookingIn(e) \in SUBSET Threads /\ LookingIn(e)' \in SUBSET Threads
<1>1. /\ StartedIn(e) \ {t} = StartedIn(e)' \ {t}
      /\ EarlyIn(e) \ {t} = EarlyIn(e)' \ {t}
  BY DEF StartedIn, EarlyIn, InCall, OthersStay
<1>2. LookingIn(e) \ {t} = LookingIn(e)' \ {t}
  BY DEF LookingIn, InCall, OthersStay
<1> QED BY <1>1, <1>2 DEF StartedIn, EarlyIn, LookingIn

LEMMA KeptFinite ==
    ASSUME TypeOK, NEW e \in Epochs
    PROVE  IsFiniteSet(KeptIn(e)) /\ Cardinality(KeptIn(e)) \in Nat
<1>1. KeptIn(e) \subseteq 1..Len(slabs[e].records) /\ Len(slabs[e].records) \in Nat
  BY SlabFields, LenProperties DEF KeptIn
<1>2. IsFiniteSet(1..Len(slabs[e].records))
  BY <1>1, FS_Interval
<1> QED BY <1>1, <1>2, FS_Subset, FS_CardinalityType

LEMMA AccountsTyped ==
    ASSUME TypeOK, NEW e \in Epochs
    PROVE  CallsEnded(e) \in Nat /\ Settled(e) \in Nat
<1>1. /\ slabs[e].calls \in [Outcomes -> Nat]
      /\ slabs[e].dropped \in Nat /\ slabs[e].failed \in Nat
  BY SlabFields
<1>2. CallsEnded(e) \in Nat
  <2>1. /\ slabs[e].calls["success"] \in Nat /\ slabs[e].calls["failure"] \in Nat
        /\ slabs[e].calls["cancelled"] \in Nat
        /\ slabs[e].calls["deadline_exceeded"] \in Nat
    BY <1>1 DEF Outcomes
  <2> QED BY <2>1 DEF CallsEnded, Total
<1> QED BY <1>1, <1>2, KeptFinite DEF Settled

(* The step of a thread that charges nothing to another epoch.             *)
Stays(e, t) ==
    /\ t \in StartedIn(e)' <=> t \in StartedIn(e)
    /\ t \in EarlyIn(e)' <=> t \in EarlyIn(e)
    /\ t \in LookingIn(e)' <=> t \in LookingIn(e)
SameSums(e) ==
    /\ slabs'[e].input = slabs[e].input
    /\ CallsEnded(e)' = CallsEnded(e) /\ Settled(e)' = Settled(e)

LEMMA AccountsStay ==
    ASSUME NEW t \in Threads, OthersStay(t), NEW e \in Epochs,
           Accounts(e), Stays(e, t), SameSums(e)
    PROVE  Accounts(e)'
<1>1. StartedIn(e)' = StartedIn(e) /\ EarlyIn(e)' = EarlyIn(e)
      /\ LookingIn(e)' = LookingIn(e)
  BY OthersStayPlaced DEF Stays
<1> QED BY <1>1 DEF Accounts, SameSums

(* What a slab keeps when only other fields change.                        *)
LEMMA SumsStay ==
    ASSUME NEW e \in Epochs,
           slabs'[e].input = slabs[e].input, slabs'[e].calls = slabs[e].calls,
           slabs'[e].records = slabs[e].records, slabs'[e].dropped = slabs[e].dropped,
           slabs'[e].failed = slabs[e].failed
    PROVE  SameSums(e)
BY DEF SameSums, CallsEnded, Settled, KeptIn

(* The step of a thread whose call is charged to e.                        *)
LEMMA AccountsMove ==
    ASSUME TypeOK, NEW t \in Threads, OthersStay(t), NEW e \in Epochs, Accounts(e),
           NEW i \in Nat, NEW c \in Nat, NEW s \in Nat,
           slabs'[e].input = slabs[e].input + i,
           CallsEnded(e)' = CallsEnded(e) + c, Settled(e)' = Settled(e) + s,
           i + One(t, StartedIn(e)) = c + One(t, StartedIn(e)'),
           c + One(t, EarlyIn(e)') + One(t, LookingIn(e)) =
               s + One(t, LookingIn(e)') + One(t, EarlyIn(e))
    PROVE  Accounts(e)'
<1>1. CallsEnded(e) \in Nat /\ Settled(e) \in Nat /\ slabs[e].input \in Nat
  BY AccountsTyped, SlabFields
<1>2. /\ Cardinality(StartedIn(e)) \in Nat /\ Cardinality(StartedIn(e)') \in Nat
      /\ Cardinality(StartedIn(e)') + One(t, StartedIn(e))
            = Cardinality(StartedIn(e)) + One(t, StartedIn(e)')
  BY OthersStayPlaced, OneThread
<1>3. /\ Cardinality(EarlyIn(e)) \in Nat /\ Cardinality(EarlyIn(e)') \in Nat
      /\ Cardinality(EarlyIn(e)') + One(t, EarlyIn(e))
            = Cardinality(EarlyIn(e)) + One(t, EarlyIn(e)')
  BY OthersStayPlaced, OneThread
<1>4. /\ Cardinality(LookingIn(e)) \in Nat /\ Cardinality(LookingIn(e)') \in Nat
      /\ Cardinality(LookingIn(e)') + One(t, LookingIn(e))
            = Cardinality(LookingIn(e)) + One(t, LookingIn(e)')
  BY OthersStayPlaced, OneThread
<1>5. /\ One(t, StartedIn(e)) \in Nat /\ One(t, StartedIn(e)') \in Nat
      /\ One(t, EarlyIn(e)) \in Nat /\ One(t, EarlyIn(e)') \in Nat
      /\ One(t, LookingIn(e)) \in Nat /\ One(t, LookingIn(e)') \in Nat
  BY DEF One
<1>6. /\ slabs[e].input = CallsEnded(e) + Cardinality(StartedIn(e))
      /\ CallsEnded(e) + Cardinality(EarlyIn(e)) = Settled(e) + Cardinality(LookingIn(e))
  BY DEF Accounts
<1>7. slabs'[e].input = CallsEnded(e)' + Cardinality(StartedIn(e)')
  BY <1>1, <1>2, <1>5, <1>6
<1>8. CallsEnded(e)' + Cardinality(EarlyIn(e)') = Settled(e)' + Cardinality(LookingIn(e)')
  BY <1>1, <1>3, <1>4, <1>5, <1>6
<1> QED BY <1>7, <1>8 DEF Accounts

(* The epochs a step is not about.                                         *)
Charging == Started \cup Unsettled \cup {"publish"}

LEMMA OtherEpochsStay ==
    ASSUME CallsAccountedFor, NEW t \in Threads, OthersStay(t), NEW e \in Epochs,
           \A x \in Epochs \ {e} : slabs'[x] = slabs[x],
           scope[t].call = e \/ scope[t].at \notin Charging,
           scope'[t].call = e \/ scope'[t].at \notin Charging
    PROVE  \A x \in Epochs \ {e} : Accounts(x)'
<1> SUFFICES ASSUME NEW x \in Epochs \ {e} PROVE Accounts(x)'
  OBVIOUS
<1>1. Accounts(x)
  BY AccountsAre
<1>2. SameSums(x)
  BY SumsStay
<1>3. Stays(x, t)
  BY DEF Stays, StartedIn, EarlyIn, LookingIn, InCall, Charging
<1> QED BY <1>1, <1>2, <1>3, AccountsStay

(* A step that charges nothing and moves its thread among the places that  *)
(* are counted alike.                                                      *)
LEMMA NothingCharged ==
    ASSUME CallsAccountedFor, NEW t \in Threads, OthersStay(t),
           \A x \in Epochs : SameSums(x),
           \/ scope[t].at \notin Charging /\ scope'[t].at \notin Charging
           \/ /\ scope'[t].call = scope[t].call /\ scope'[t].traced = scope[t].traced
              /\ scope[t].at \in Started /\ scope'[t].at \in Started
           \/ /\ scope'[t].call = scope[t].call /\ scope'[t].traced = scope[t].traced
              /\ scope[t].at \in Unsettled /\ scope'[t].at \in Unsettled
           \/ /\ scope[t].at \in Unsettled /\ ~scope[t].traced
              /\ scope'[t].at \notin Charging
    PROVE  CallsAccountedFor'
<1> SUFFICES ASSUME NEW x \in Epochs PROVE Accounts(x)'
  BY AccountsArePrimed
<1>1. Accounts(x)
  BY AccountsAre
<1>2. Stays(x, t)
  BY DEF Stays, StartedIn, EarlyIn, LookingIn, InCall, Charging, Started, Unsettled
<1> QED BY <1>1, <1>2, AccountsStay

(* What a slab counts when a trace is dropped or fails.                    *)
LEMMA SumsMove ==
    ASSUME TypeOK, NEW e \in Epochs, NEW d \in Nat, NEW f \in Nat,
           slabs'[e].calls = slabs[e].calls, slabs'[e].records = slabs[e].records,
           slabs'[e].dropped = slabs[e].dropped + d,
           slabs'[e].failed = slabs[e].failed + f
    PROVE  CallsEnded(e)' = CallsEnded(e) + 0 /\ Settled(e)' = Settled(e) + (d + f)
<1>1. CallsEnded(e) \in Nat /\ CallsEnded(e)' = CallsEnded(e)
  BY AccountsTyped DEF CallsEnded
<1>2. KeptIn(e)' = KeptIn(e)
  BY DEF KeptIn
<1>3. Cardinality(KeptIn(e)) \in Nat
  BY KeptFinite
<1>4. slabs[e].dropped \in Nat /\ slabs[e].failed \in Nat
  BY SlabFields
<1>5. Settled(e)' = Cardinality(KeptIn(e)) + (slabs[e].dropped + d) + (slabs[e].failed + f)
  BY <1>2 DEF Settled
<1>6. Settled(e) = Cardinality(KeptIn(e)) + slabs[e].dropped + slabs[e].failed
  BY DEF Settled
<1> QED BY <1>1, <1>3, <1>4, <1>5, <1>6

LEMMA BeginCallAccounts ==
    ASSUME TypeOK, CallsAccountedFor, NEW t \in Threads, BeginCall(t)
    PROVE  CallsAccountedFor'
<1>1. PICK prefix \in BOOLEAN :
        /\ scope' = [scope EXCEPT ![t].at = "scoped", ![t].call = slab,
                                  ![t].trace_id = next_trace_id, ![t].traced = prefix]
        /\ slabs' = [slabs EXCEPT ![slab].input = @ + 1,
                       ![slab].failed = IF prefix THEN @ ELSE @ + 1]
  BY DEF BeginCall
<1>2. PICK e \in Epochs : e = slab
  BY DEF TypeOK
<1> DEFINE failed == IF prefix THEN slabs[e].failed ELSE slabs[e].failed + 1
           f == IF prefix THEN 0 ELSE 1
           s == [slabs[e] EXCEPT !.input = slabs[e].input + 1, !.failed = failed]
<1>3. scope[t].at = "stage" /\ OthersStay(t)
  BY BeginCallEffect
<1>4. scope'[t].at = "scoped" /\ scope'[t].call = e /\ scope'[t].traced = prefix
  BY <1>1, <1>2, ScopeFields DEF TypeOK, Scope
<1>5. slabs[e] \in TelemetrySlab
  BY SlabFields
<1>6. slabs' = [slabs EXCEPT ![e] = s]
  BY <1>1, <1>2
<1>7. slabs'[e] = s /\ \A x \in Epochs \ {e} : slabs'[x] = slabs[x]
  BY <1>6 DEF TypeOK
<1>8. /\ slabs'[e].input = slabs[e].input + 1 /\ slabs'[e].failed = failed
      /\ slabs'[e].dropped = slabs[e].dropped
      /\ slabs'[e].calls = slabs[e].calls /\ slabs'[e].records = slabs[e].records
  BY <1>5, <1>7 DEF TelemetrySlab
<1>9. CallsEnded(e)' = CallsEnded(e) + 0 /\ Settled(e)' = Settled(e) + (0 + f)
  <2>1. failed = slabs[e].failed + f /\ slabs[e].dropped = slabs[e].dropped + 0 /\ f \in Nat
    BY SlabFields
  <2> HIDE DEF failed, f, s
  <2> QED BY <1>8, <2>1, SumsMove
<1>10. /\ One(t, StartedIn(e)) = 0 /\ One(t, StartedIn(e)') = 1
       /\ One(t, EarlyIn(e)) = 0 /\ One(t, EarlyIn(e)') = f
       /\ One(t, LookingIn(e)) = 0 /\ One(t, LookingIn(e)') = 0
  BY <1>3, <1>4 DEF One, StartedIn, EarlyIn, LookingIn, InCall, Started, Unsettled
<1>11. Accounts(e)' /\ \A x \in Epochs \ {e} : Accounts(x)'
  <2>1. Accounts(e)
    BY AccountsAre
  <2>2. Accounts(e)'
    BY <1>3, <1>8, <1>9, <1>10, <2>1, AccountsMove
  <2> QED BY <1>3, <1>4, <1>7, <2>2, OtherEpochsStay DEF Charging, Started, Unsettled
<1> QED BY <1>11, AccountsArePrimed

(* An outcome is counted once.                                             *)
LEMMA OutcomeCounted ==
    ASSUME TypeOK, NEW e \in Epochs, NEW o \in Outcomes,
           slabs'[e].calls = [slabs[e].calls EXCEPT ![o] = @ + 1]
    PROVE  CallsEnded(e)' = CallsEnded(e) + 1
<1> DEFINE c == slabs[e].calls
           d == slabs'[e].calls
<1>1. c \in [Outcomes -> Nat]
  BY SlabFields
<1>2. /\ c["success"] \in Nat /\ c["failure"] \in Nat
      /\ c["cancelled"] \in Nat /\ c["deadline_exceeded"] \in Nat
  BY <1>1 DEF Outcomes
<1>3. \A p \in Outcomes : d[p] = IF p = o THEN c[p] + 1 ELSE c[p]
  BY <1>1
<1>4. CallsEnded(e) = c["success"] + c["failure"] + c["cancelled"] + c["deadline_exceeded"]
  BY DEF CallsEnded, Total
<1>5. CallsEnded(e)' = d["success"] + d["failure"] + d["cancelled"] + d["deadline_exceeded"]
  BY DEF CallsEnded, Total
<1> HIDE DEF c, d
<1>6. o \in {"success", "failure", "cancelled", "deadline_exceeded"}
  BY DEF Outcomes
<1> QED BY <1>2, <1>3, <1>4, <1>5, <1>6 DEF Outcomes

LEMMA CountOutcomeAccounts ==
    ASSUME TypeOK, ScopesHoldSlabs, CallsAccountedFor, NEW t \in Threads, CountOutcome(t)
    PROVE  CallsAccountedFor'
<1>1. scope[t].at = "ended" /\ OthersStay(t) /\ scope'[t].at = "raise" /\ SamePlace(t)
  BY CountOutcomeEffect
<1>2. PICK e \in Epochs : e = scope[t].call
  BY <1>1, CallHoldsSlab DEF CallPositions, Started
<1> DEFINE c == [slabs[e].calls EXCEPT ![scope[t].outcome] = @ + 1]
           n == slabs[e].total + scope[t].duration
           s == [slabs[e] EXCEPT !.calls = c, !.total = n]
           k == IF scope[t].traced THEN 1 ELSE 0
<1>3. slabs[e] \in TelemetrySlab /\ scope[t] \in Scope /\ scope[t].outcome \in Outcomes
  BY SlabFields, ScopeFields
<1>4. scope'[t].traced = scope[t].traced
  BY <1>3 DEF CountOutcome, TypeOK, Scope
<1>5. slabs' = [slabs EXCEPT ![e] = s]
  BY <1>2 DEF CountOutcome
<1>6. slabs'[e] = s /\ \A x \in Epochs \ {e} : slabs'[x] = slabs[x]
  BY <1>5 DEF TypeOK
<1>7. /\ slabs'[e].input = slabs[e].input + 0 /\ slabs'[e].failed = slabs[e].failed
      /\ slabs'[e].dropped = slabs[e].dropped
      /\ slabs'[e].calls = c /\ slabs'[e].records = slabs[e].records
  <2>1. /\ slabs'[e].input = slabs[e].input /\ slabs'[e].failed = slabs[e].failed
        /\ slabs'[e].dropped = slabs[e].dropped
        /\ slabs'[e].calls = c /\ slabs'[e].records = slabs[e].records
    BY <1>3, <1>6 DEF TelemetrySlab
  <2> QED BY <2>1, SlabFields
<1>8. CallsEnded(e)' = CallsEnded(e) + 1
  BY <1>3, <1>7, OutcomeCounted
<1>9. Settled(e)' = Settled(e) + 0
  <2>1. Settled(e)' = Settled(e)
    BY <1>7 DEF Settled, KeptIn
  <2> QED BY <2>1, AccountsTyped
<1>10. /\ One(t, StartedIn(e)) = 1 /\ One(t, StartedIn(e)') = 0
       /\ One(t, EarlyIn(e)) + k = 1 /\ One(t, EarlyIn(e)') = 0
       /\ One(t, LookingIn(e)) = 0 /\ One(t, LookingIn(e)') = k
  BY <1>1, <1>2, <1>4
     DEF One, StartedIn, EarlyIn, LookingIn, InCall, Started, Unsettled, SamePlace
<1>11. Accounts(e)' /\ \A x \in Epochs \ {e} : Accounts(x)'
  <2>1. Accounts(e)
    BY AccountsAre
  <2>2. /\ 0 + One(t, StartedIn(e)) = 1 + One(t, StartedIn(e)')
        /\ 1 + One(t, EarlyIn(e)') + One(t, LookingIn(e)) =
                0 + One(t, LookingIn(e)') + One(t, EarlyIn(e))
    BY <1>10 DEF One
  <2>3. Accounts(e)'
    BY <1>1, <1>7, <1>8, <1>9, <2>1, <2>2, AccountsMove
  <2> QED BY <1>1, <1>2, <1>6, <2>3, OtherEpochsStay DEF SamePlace
<1> QED BY <1>11, AccountsArePrimed

(* A call that has ended settles its trace, or goes on looking for it.     *)
LEMMA CallSettles ==
    ASSUME TypeOK, CallsAccountedFor, NEW t \in Threads, OthersStay(t), SamePlace(t),
           NEW e \in Epochs, scope[t].call = e,
           scope[t].at \notin Started, scope'[t].at \notin Started, NEW s \in Nat,
           One(t, LookingIn(e)) = s + One(t, LookingIn(e)'),
           slabs'[e].input = slabs[e].input,
           CallsEnded(e)' = CallsEnded(e) + 0, Settled(e)' = Settled(e) + s,
           \A x \in Epochs \ {e} : slabs'[x] = slabs[x]
    PROVE  CallsAccountedFor'
<1>1. Accounts(e)
  BY AccountsAre
<1>2. /\ One(t, StartedIn(e)) = 0 /\ One(t, StartedIn(e)') = 0
      /\ One(t, EarlyIn(e)) = 0 /\ One(t, EarlyIn(e)') = 0
  BY DEF One, StartedIn, EarlyIn, InCall
<1>3. slabs'[e].input = slabs[e].input + 0
  BY SlabFields
<1>4. Accounts(e)'
  <2>1. /\ One(t, LookingIn(e)) \in Nat /\ One(t, LookingIn(e)') \in Nat
    BY DEF One
  <2>2. /\ 0 + One(t, StartedIn(e)) = 0 + One(t, StartedIn(e)')
        /\ 0 + One(t, EarlyIn(e)') + One(t, LookingIn(e)) =
                s + One(t, LookingIn(e)') + One(t, EarlyIn(e))
    BY <1>2, <2>1
  <2> QED BY <1>1, <1>3, <2>2, AccountsMove
<1>5. \A x \in Epochs \ {e} : Accounts(x)'
  BY OtherEpochsStay DEF SamePlace
<1> QED BY <1>4, <1>5, AccountsArePrimed

LEMMA GotoKeepsTrace ==
    ASSUME TypeOK, NEW t \in Threads, NEW l \in Positions, Goto(t, l)
    PROVE  scope'[t].traced = scope[t].traced /\ scope'[t].missing = scope[t].missing
BY ScopeFields DEF Goto, TypeOK, Scope

LEMMA ReserveAccounts ==
    ASSUME TypeOK, ScopesHoldSlabs, AccountsInv, NEW t \in Threads, Reserve(t)
    PROVE  CallsAccountedFor'
<1>1. /\ scope[t].at = "reserve" /\ OthersStay(t) /\ SamePlace(t)
      /\ CallsAccountedFor /\ scope[t].traced
  BY ReserveEffect DEF AccountsInv, TracedToTheEnd
<1>2. PICK e \in Epochs : e = scope[t].call
  BY <1>1, CallHoldsSlab DEF CallPositions, Unsettled
<1>3. slabs[e] \in TelemetrySlab
  BY SlabFields
<1>4. CASE /\ slabs' = [slabs EXCEPT ![e].dropped = @ + 1]
           /\ Goto(t, "recorded")
  <2> DEFINE s == [slabs[e] EXCEPT !.dropped = slabs[e].dropped + 1]
  <2>1. slabs' = [slabs EXCEPT ![e] = s]
    BY <1>4
  <2>2. slabs'[e] = s /\ \A x \in Epochs \ {e} : slabs'[x] = slabs[x]
    BY <2>1 DEF TypeOK
  <2>3. /\ slabs'[e].input = slabs[e].input /\ slabs'[e].failed = slabs[e].failed
        /\ slabs'[e].dropped = slabs[e].dropped + 1
        /\ slabs'[e].calls = slabs[e].calls /\ slabs'[e].records = slabs[e].records
    BY <1>3, <2>2 DEF TelemetrySlab
  <2>4. CallsEnded(e)' = CallsEnded(e) + 0 /\ Settled(e)' = Settled(e) + 1
    <3>1. slabs[e].failed = slabs[e].failed + 0
      BY SlabFields
    <3>2. CallsEnded(e)' = CallsEnded(e) + 0 /\ Settled(e)' = Settled(e) + (1 + 0)
      BY <2>3, <3>1, SumsMove
    <3> QED BY <3>2
  <2>5. scope'[t].at = "recorded"
    BY <1>4, GotoEffect DEF Positions
  <2>6. One(t, LookingIn(e)) = 1 + One(t, LookingIn(e)')
    BY <1>1, <1>2, <2>5 DEF One, LookingIn, InCall, Unsettled
  <2>7. scope[t].at \notin Started /\ scope'[t].at \notin Started
    BY <1>1, <2>5 DEF Started
  <2> HIDE DEF s
  <2> QED BY <1>1, <1>2, <2>2, <2>3, <2>4, <2>6, <2>7, CallSettles
<1>5. CASE /\ slabs' = [slabs EXCEPT ![e].pending = @ + 1]
           /\ Goto(t, "discover")
  <2> DEFINE s == [slabs[e] EXCEPT !.pending = slabs[e].pending + 1]
  <2>1. slabs' = [slabs EXCEPT ![e] = s]
    BY <1>5
  <2>2. slabs'[e] = s /\ \A x \in Epochs \ {e} : slabs'[x] = slabs[x]
    BY <2>1 DEF TypeOK
  <2>3. /\ slabs'[e].input = slabs[e].input /\ slabs'[e].failed = slabs[e].failed
        /\ slabs'[e].dropped = slabs[e].dropped
        /\ slabs'[e].calls = slabs[e].calls /\ slabs'[e].records = slabs[e].records
    BY <1>3, <2>2 DEF TelemetrySlab
  <2>4. \A x \in Epochs : SameSums(x)
    BY <2>2, <2>3, SumsStay
  <2>5. scope'[t].at = "discover" /\ scope'[t].traced = scope[t].traced
    BY <1>5, GotoEffect, GotoKeepsTrace DEF Positions
  <2> QED BY <1>1, <2>4, <2>5, NothingCharged DEF Unsettled, SamePlace
<1> QED BY <1>2, <1>4, <1>5 DEF Reserve

LEMMA DiscoverAccounts ==
    ASSUME TypeOK, ScopesHoldSlabs, AccountsInv, NEW t \in Threads, Discover(t)
    PROVE  CallsAccountedFor'
<1>1. /\ scope[t].at = "discover" /\ OthersStay(t) /\ SamePlace(t)
      /\ CallsAccountedFor /\ scope[t].traced
  BY DiscoverEffect DEF AccountsInv, TracedToTheEnd
<1>2. PICK e \in Epochs : e = scope[t].call
  BY <1>1, CallHoldsSlab DEF CallPositions, Unsettled
<1>3. PICK missing \in BOOLEAN :
        /\ scope' = [scope EXCEPT ![t].at = "publish", ![t].missing = missing]
        /\ slabs' = [slabs EXCEPT ![scope[t].call].failed =
                          IF missing THEN @ + 1 ELSE @]
  BY DEF Discover, Identified
<1> DEFINE failed == IF missing THEN slabs[e].failed + 1 ELSE slabs[e].failed
           f == IF missing THEN 1 ELSE 0
           s == [slabs[e] EXCEPT !.failed = failed]
<1>4. slabs[e] \in TelemetrySlab
  BY SlabFields
<1>5. scope'[t].at = "publish" /\ scope'[t].missing = missing
  BY <1>3, ScopeFields DEF TypeOK, Scope
<1>6. slabs' = [slabs EXCEPT ![e] = s]
  BY <1>2, <1>3
<1>7. slabs'[e] = s /\ \A x \in Epochs \ {e} : slabs'[x] = slabs[x]
  BY <1>6 DEF TypeOK
<1>8. /\ slabs'[e].input = slabs[e].input /\ slabs'[e].failed = failed
      /\ slabs'[e].dropped = slabs[e].dropped
      /\ slabs'[e].calls = slabs[e].calls /\ slabs'[e].records = slabs[e].records
  BY <1>4, <1>7 DEF TelemetrySlab
<1>9. f \in Nat /\ CallsEnded(e)' = CallsEnded(e) + 0 /\ Settled(e)' = Settled(e) + f
  <2>1. failed = slabs[e].failed + f /\ slabs[e].dropped = slabs[e].dropped + 0 /\ f \in Nat
    BY SlabFields
  <2> HIDE DEF failed, f, s
  <2>2. CallsEnded(e)' = CallsEnded(e) + 0 /\ Settled(e)' = Settled(e) + (0 + f)
    BY <1>8, <2>1, SumsMove
  <2> QED BY <2>1, <2>2
<1>10. One(t, LookingIn(e)) = f + One(t, LookingIn(e)')
  BY <1>1, <1>2, <1>5 DEF One, LookingIn, InCall, Unsettled, SamePlace
<1>11. scope[t].at \notin Started /\ scope'[t].at \notin Started
  BY <1>1, <1>5 DEF Started
<1> HIDE DEF f, s, failed
<1> QED BY <1>1, <1>2, <1>7, <1>8, <1>9, <1>10, <1>11, CallSettles

LEMMA AbandonAccounts ==
    ASSUME TypeOK, ScopesHoldSlabs, AccountsInv, NEW t \in Threads, Abandon(t)
    PROVE  CallsAccountedFor'
<1>1. /\ scope[t].at = "discover" /\ CallsAccountedFor /\ scope[t].traced
      /\ Goto(t, "recorded")
  BY DEF Abandon, At, AccountsInv, TracedToTheEnd
<1>2. OthersStay(t) /\ SamePlace(t) /\ scope'[t].at = "recorded"
  BY <1>1, GotoEffect DEF Positions
<1>3. PICK e \in Epochs : e = scope[t].call
  BY <1>1, CallHoldsSlab DEF CallPositions, Unsettled
<1> DEFINE s == [slabs[e] EXCEPT !.failed = slabs[e].failed + 1,
                                 !.pending = slabs[e].pending - 1]
<1>4. slabs[e] \in TelemetrySlab
  BY SlabFields
<1>5. slabs' = [slabs EXCEPT ![e] = s]
  BY <1>3 DEF Abandon
<1>6. slabs'[e] = s /\ \A x \in Epochs \ {e} : slabs'[x] = slabs[x]
  BY <1>5 DEF TypeOK
<1>7. /\ slabs'[e].input = slabs[e].input /\ slabs'[e].failed = slabs[e].failed + 1
      /\ slabs'[e].dropped = slabs[e].dropped
      /\ slabs'[e].calls = slabs[e].calls /\ slabs'[e].records = slabs[e].records
  BY <1>4, <1>6 DEF TelemetrySlab
<1>8. CallsEnded(e)' = CallsEnded(e) + 0 /\ Settled(e)' = Settled(e) + 1
  <2>1. slabs[e].dropped = slabs[e].dropped + 0
    BY SlabFields
  <2> HIDE DEF s
  <2>2. CallsEnded(e)' = CallsEnded(e) + 0 /\ Settled(e)' = Settled(e) + (0 + 1)
    BY <1>7, <2>1, SumsMove
  <2> QED BY <2>2
<1>9. One(t, LookingIn(e)) = 1 + One(t, LookingIn(e)')
  BY <1>1, <1>2, <1>3 DEF One, LookingIn, InCall, Unsettled
<1>10. scope[t].at \notin Started /\ scope'[t].at \notin Started
  BY <1>1, <1>2 DEF Started
<1> HIDE DEF s
<1> QED BY <1>1, <1>2, <1>3, <1>6, <1>7, <1>8, <1>9, <1>10, CallSettles

(* A record is kept of an identified trace exactly when it names none that *)
(* failed.                                                                 *)
LEMMA RecordKept ==
    ASSUME TypeOK, NEW e \in Epochs, NEW r \in TraceRecord,
           slabs'[e].records = Append(slabs[e].records, r)
    PROVE  Cardinality(KeptIn(e)') =
                Cardinality(KeptIn(e)) + (IF r.profiling_failed THEN 0 ELSE 1)
<1> DEFINE q == slabs[e].records
           n == Len(q) + 1
<1>1. q \in Seq(TraceRecord)
  BY SlabFields
<1>2. /\ DOMAIN slabs'[e].records = 1..n /\ DOMAIN q = 1..Len(q) /\ Len(q) \in Nat
      /\ slabs'[e].records[n] = r
      /\ \A i \in 1..Len(q) : slabs'[e].records[i] = q[i]
  BY <1>1, RecordAppended, LenProperties
<1>3. KeptIn(e) = {i \in 1..Len(q) : ~q[i].profiling_failed}
  BY <1>2 DEF KeptIn
<1>4. KeptIn(e)' = {i \in 1..n : ~slabs'[e].records[i].profiling_failed}
  BY <1>2 DEF KeptIn
<1>5. 1..n = 1..Len(q) \cup {n} /\ n \notin 1..Len(q)
  BY <1>2
<1>6. IsFiniteSet(KeptIn(e)) /\ Cardinality(KeptIn(e)) \in Nat
  BY KeptFinite
<1> HIDE DEF n, q
<1>7. n \notin KeptIn(e)
  BY <1>3, <1>5
<1>8. CASE r.profiling_failed
  <2>1. KeptIn(e)' = KeptIn(e)
    BY <1>2, <1>3, <1>4, <1>5, <1>8
  <2> QED BY <1>6, <1>8, <2>1
<1>9. CASE ~r.profiling_failed
  <2>1. KeptIn(e)' = KeptIn(e) \cup {n}
    BY <1>2, <1>3, <1>4, <1>5, <1>9
  <2>2. Cardinality(KeptIn(e)') = Cardinality(KeptIn(e)) + 1
    BY <1>6, <1>7, <2>1, FS_AddElement
  <2> QED BY <1>9, <2>2
<1> QED BY <1>8, <1>9

LEMMA PublishAccounts ==
    ASSUME TypeOK, ScopesHoldSlabs, AccountsInv, NEW t \in Threads, Publish(t)
    PROVE  CallsAccountedFor'
<1>1. /\ scope[t].at = "publish" /\ CallsAccountedFor /\ Goto(t, "recorded")
  BY DEF Publish, At, AccountsInv
<1>2. OthersStay(t) /\ SamePlace(t) /\ scope'[t].at = "recorded"
  BY <1>1, GotoEffect DEF Positions
<1>3. PICK e \in Epochs : e = scope[t].call
  BY <1>1, CallHoldsSlab DEF CallPositions
<1>4. PICK r \in TraceRecord : r = RecordOf(t)
  BY <1>3, ScopeFields DEF RecordOf, TraceRecord
<1> DEFINE left == slabs[e].pending - 1
           failed == IF scope[t].missing THEN slabs[e].failed ELSE slabs[e].failed + 1
           longer == Append(slabs[e].records, r)
           kept == [slabs[e] EXCEPT !.pending = left, !.records = longer]
           lost == [slabs[e] EXCEPT !.pending = left, !.failed = failed]
<1>5. PICK k \in Nat : k = IF scope[t].missing THEN 0 ELSE 1
  OBVIOUS
<1>6. slabs[e] \in TelemetrySlab
  BY SlabFields
<1>7. slabs' = [slabs EXCEPT ![e] = kept] \/ slabs' = [slabs EXCEPT ![e] = lost]
  BY <1>3, <1>4, ZenonT(20) DEF Publish
<1>8. /\ slabs'[e] = kept \/ slabs'[e] = lost
      /\ \A x \in Epochs \ {e} : slabs'[x] = slabs[x]
  <2> HIDE DEF kept, lost
  <2> QED BY <1>7 DEF TypeOK
<1>9. One(t, LookingIn(e)) = k + One(t, LookingIn(e)')
  BY <1>1, <1>2, <1>3, <1>5, ScopeFields DEF One, LookingIn, InCall, Unsettled
<1>10. scope[t].at \notin Started /\ scope'[t].at \notin Started
  BY <1>1, <1>2 DEF Started
<1>11. CASE slabs'[e] = kept
  <2>1. /\ slabs'[e].input = slabs[e].input /\ slabs'[e].failed = slabs[e].failed
        /\ slabs'[e].dropped = slabs[e].dropped
        /\ slabs'[e].calls = slabs[e].calls /\ slabs'[e].records = longer
    <3> HIDE DEF left, longer
    <3> QED BY <1>6, <1>11 DEF TelemetrySlab
  <2>2. r.profiling_failed = scope[t].missing
    BY <1>4 DEF RecordOf
  <2>3. Cardinality(KeptIn(e)') = Cardinality(KeptIn(e)) + k
    BY <1>5, <2>1, <2>2, RecordKept
  <2>4. CallsEnded(e)' = CallsEnded(e) + 0
    <3>1. CallsEnded(e)' = CallsEnded(e)
      BY <2>1 DEF CallsEnded
    <3> QED BY <3>1, AccountsTyped
  <2>5. Settled(e)' = Settled(e) + k
    <3>1. /\ Cardinality(KeptIn(e)) \in Nat
          /\ slabs[e].dropped \in Nat /\ slabs[e].failed \in Nat
      BY KeptFinite, SlabFields
    <3>2. Settled(e)' = Cardinality(KeptIn(e)) + k + slabs[e].dropped + slabs[e].failed
      BY <2>1, <2>3 DEF Settled
    <3>3. Settled(e) = Cardinality(KeptIn(e)) + slabs[e].dropped + slabs[e].failed
      BY DEF Settled
    <3> QED BY <3>1, <3>2, <3>3
  <2> HIDE DEF kept, lost, longer
  <2> QED BY <1>1, <1>2, <1>3, <1>8, <1>9, <1>10, <2>1, <2>4, <2>5, CallSettles
<1>12. CASE slabs'[e] = lost
  <2>1. /\ slabs'[e].input = slabs[e].input /\ slabs'[e].failed = failed
        /\ slabs'[e].dropped = slabs[e].dropped
        /\ slabs'[e].calls = slabs[e].calls /\ slabs'[e].records = slabs[e].records
    <3> HIDE DEF left, failed
    <3> QED BY <1>6, <1>12 DEF TelemetrySlab
  <2>2. failed = slabs[e].failed + k /\ slabs[e].dropped = slabs[e].dropped + 0
    BY <1>5, SlabFields
  <2> HIDE DEF failed, kept, lost
  <2>3. CallsEnded(e)' = CallsEnded(e) + 0 /\ Settled(e)' = Settled(e) + (0 + k)
    BY <2>1, <2>2, SumsMove
  <2>4. Settled(e)' = Settled(e) + k
    BY <2>3
  <2> QED BY <1>1, <1>2, <1>3, <1>8, <1>9, <1>10, <2>1, <2>3, <2>4, CallSettles
<1> QED BY <1>8, <1>11, <1>12

(* The steps that charge nothing.                                          *)
LEMMA SumsStayWithSlabs ==
    ASSUME slabs' = slabs
    PROVE  \A x \in Epochs : SameSums(x)
BY SumsStay

LEMMA QuietStepsAccount ==
    ASSUME TypeOK, ScopesHoldSlabs, CallsAccountedFor, NEW t \in Threads,
           BeginExecution(t) \/ Stop(t) \/ EnterModel(t) \/ LeaveModel(t)
    PROVE  CallsAccountedFor'
<1>1. /\ OthersStay(t) /\ slabs' = slabs /\ scope'[t].call = scope[t].call
      /\ \/ scope[t].at = "idle" /\ scope'[t].at = "stage"
         \/ scope[t].at \in Started /\ scope'[t].at \in Started
  BY BeginExecutionEffect, StopEffect, EnterModelEffect, LeaveModelEffect
     DEF Started, SamePlace
<1>2. scope'[t].traced = scope[t].traced
  <2>1. scope[t] \in Scope
    BY ScopeFields
  <2>2. CASE BeginExecution(t)
    BY <2>1, <2>2 DEF BeginExecution, TypeOK, Scope
  <2>3. CASE Stop(t)
    BY <2>1, <2>3 DEF Stop, TypeOK, Scope
  <2>4. ASSUME NEW how \in Outcomes, CallEnds(t, how)
        PROVE  scope'[t].traced = scope[t].traced
    BY <2>1, <2>4 DEF CallEnds, TypeOK, Scope
  <2>5. CASE EnterModel(t)
    <3>1. CASE scope' = [scope EXCEPT ![t].at = "running", ![t].wrote = scope[t].traced]
      BY <2>1, <3>1 DEF TypeOK, Scope
    <3>2. scope[t].stop # "none" => scope[t].stop \in Outcomes
      BY ScopeFields, ReasonsAssumption DEF Outcomes
    <3> QED BY <2>4, <2>5, <3>1, <3>2 DEF EnterModel, Outcomes
  <2>6. CASE LeaveModel(t)
    <3>1. scope[t].stop # "none" => scope[t].stop \in Outcomes
      BY ScopeFields, ReasonsAssumption DEF Outcomes
    <3> QED BY <2>4, <2>6, <3>1 DEF LeaveModel, Outcomes
  <2> QED BY <2>2, <2>3, <2>5, <2>6
<1>3. \A x \in Epochs : SameSums(x)
  BY <1>1, SumsStayWithSlabs
<1> QED BY <1>1, <1>2, <1>3, NothingCharged
        DEF Charging, Started, Unsettled

LEMMA RaiseMaximumTraces ==
    ASSUME TypeOK, ScopesHoldSlabs, NEW t \in Threads, RaiseMaximum(t)
    PROVE  /\ OthersStay(t) /\ scope'[t].traced = scope[t].traced
           /\ \/ scope'[t].at = "raise"
              \/ scope'[t].at = IF scope[t].traced THEN "reserve" ELSE "recorded"
<1>1. scope[t].at = "raise" /\ OthersStay(t)
  BY RaiseMaximumEffect
<1>2. scope[t] \in Scope
  BY ScopeFields
<1>3. CASE Goto(t, AfterMaximum(t))
  BY <1>1, <1>3, GotoEffect, GotoKeepsTrace, AfterMaximumIs DEF AfterMaximum
<1>4. CASE scope' = [scope EXCEPT ![t].observed = slabs[scope[t].call].maximum]
  BY <1>1, <1>2, <1>4 DEF TypeOK, Scope
<1> QED BY <1>1, <1>3, <1>4 DEF RaiseMaximum

LEMMA RaiseMaximumAccounts ==
    ASSUME TypeOK, ScopesHoldSlabs, CallsAccountedFor, NEW t \in Threads, RaiseMaximum(t)
    PROVE  CallsAccountedFor'
<1>1. scope[t].at = "raise" /\ OthersStay(t) /\ SamePlace(t)
  BY RaiseMaximumEffect
<1>2. PICK e \in Epochs : e = scope[t].call
  BY <1>1, CallHoldsSlab DEF CallPositions, Unsettled
<1>3. /\ slabs[e] \in TelemetrySlab /\ scope[t] \in Scope /\ scope[t].traced \in BOOLEAN
  BY SlabFields, ScopeFields
<1>4. \A x \in Epochs : SameSums(x)
  <2>1. slabs' = slabs \/ slabs' = [slabs EXCEPT ![e].maximum = scope[t].duration]
    BY <1>2 DEF RaiseMaximum
  <2>2. CASE slabs' = [slabs EXCEPT ![e].maximum = scope[t].duration]
    <3> DEFINE s == [slabs[e] EXCEPT !.maximum = scope[t].duration]
    <3>1. slabs'[e] = s /\ \A x \in Epochs \ {e} : slabs'[x] = slabs[x]
      BY <2>2 DEF TypeOK
    <3>2. /\ s.input = slabs[e].input /\ s.calls = slabs[e].calls
          /\ s.records = slabs[e].records /\ s.dropped = slabs[e].dropped
          /\ s.failed = slabs[e].failed
      BY <1>3 DEF TelemetrySlab
    <3> HIDE DEF s
    <3> QED BY <3>1, <3>2, SumsStay
  <2> QED BY <2>1, <2>2, SumsStayWithSlabs
<1> QED BY <1>1, <1>3, <1>4, RaiseMaximumTraces, NothingCharged
        DEF Charging, Started, Unsettled, SamePlace

(* The steps of an execution outside its calls.                            *)
LEMMA ExecutionStepsAccount ==
    ASSUME TypeOK, ScopesHoldSlabs, CallsAccountedFor, NEW t \in Threads,
           RecordStep(t) \/ RecordCompletion(t) \/ EndExecution(t)
    PROVE  CallsAccountedFor'
<1>1. /\ OthersStay(t) /\ scope[t].at \notin Charging /\ scope'[t].at \notin Charging
  BY RecordStepEffect, RecordCompletionEffect, EndExecutionEffect
     DEF Charging, Started, Unsettled, NoScope
<1>2. ASSUME NEW e \in Epochs, NEW s,
             slabs' = [slabs EXCEPT ![e] = s],
             s.input = slabs[e].input, s.calls = slabs[e].calls,
             s.records = slabs[e].records, s.dropped = slabs[e].dropped,
             s.failed = slabs[e].failed
      PROVE  \A x \in Epochs : SameSums(x)
  <2>1. slabs'[e] = s /\ \A x \in Epochs \ {e} : slabs'[x] = slabs[x]
    BY <1>2 DEF TypeOK
  <2> QED BY <1>2, <2>1, SumsStay
<1>3. \A x \in Epochs : SameSums(x)
  <2>1. CASE RecordStep(t)
    <3>1. PICK e \in Epochs : e = slab
      BY DEF TypeOK
    <3> DEFINE s == [slabs[e] EXCEPT !.steps = slabs[e].steps + 1]
    <3>2. slabs' = [slabs EXCEPT ![e] = s]
      BY <2>1, <3>1 DEF RecordStep
    <3>3. /\ s.input = slabs[e].input /\ s.calls = slabs[e].calls
          /\ s.records = slabs[e].records /\ s.dropped = slabs[e].dropped
          /\ s.failed = slabs[e].failed
      BY SlabFields DEF TelemetrySlab
    <3> HIDE DEF s
    <3> QED BY <1>2, <3>2, <3>3
  <2>2. CASE RecordCompletion(t)
    <3>1. PICK e \in Epochs : e = slab
      BY DEF TypeOK
    <3> DEFINE s == [slabs[e] EXCEPT !.completions = slabs[e].completions + 1]
    <3>2. slabs' = [slabs EXCEPT ![e] = s]
      BY <2>2, <3>1 DEF RecordCompletion
    <3>3. /\ s.input = slabs[e].input /\ s.calls = slabs[e].calls
          /\ s.records = slabs[e].records /\ s.dropped = slabs[e].dropped
          /\ s.failed = slabs[e].failed
      BY SlabFields DEF TelemetrySlab
    <3> HIDE DEF s
    <3> QED BY <1>2, <3>2, <3>3
  <2>3. CASE EndExecution(t)
    <3>1. PICK outcome \in Outcomes :
             slabs' = [slabs EXCEPT ![scope[t].exec].executions[outcome] = @ + 1]
      BY <2>3, Zenon DEF EndExecution
    <3>2. PICK e \in Epochs : e = scope[t].exec
      BY <2>3 DEF EndExecution, Passed, At, ScopesHoldSlabs
    <3> DEFINE c == [slabs[e].executions EXCEPT ![outcome] = @ + 1]
               s == [slabs[e] EXCEPT !.executions = c]
    <3>3. slabs' = [slabs EXCEPT ![e] = s]
      BY <3>1, <3>2
    <3>4. /\ s.input = slabs[e].input /\ s.calls = slabs[e].calls
          /\ s.records = slabs[e].records /\ s.dropped = slabs[e].dropped
          /\ s.failed = slabs[e].failed
      BY SlabFields DEF TelemetrySlab
    <3> HIDE DEF s
    <3> QED BY <1>2, <3>3, <3>4, Zenon
  <2> QED BY <2>1, <2>2, <2>3
<1> QED BY <1>1, <1>3, NothingCharged

LEMMA AccountsStep ==
    ASSUME IInv, AccountsInv, [Next]_vars
    PROVE  CallsAccountedFor'
<1>1. TypeOK /\ ScopesHoldSlabs /\ CallsAccountedFor
  BY DEF IInv, AccountsInv
<1>2. CASE UNCHANGED vars \/ ResetBuild \/ ResetPublish
  <2>1. slabs' = slabs /\ scope' = scope
    BY <1>2 DEF vars, ResetBuild, ResetPublish
  <2>2. ASSUME NEW x \in Epochs
        PROVE  Accounts(x)'
    <3>1. /\ StartedIn(x)' = StartedIn(x) /\ EarlyIn(x)' = EarlyIn(x)
          /\ LookingIn(x)' = LookingIn(x)
      BY <2>1 DEF StartedIn, EarlyIn, LookingIn, InCall
    <3>2. SameSums(x) /\ Accounts(x)
      BY <1>1, <2>1, SumsStayWithSlabs, AccountsAre
    <3> QED BY <3>1, <3>2 DEF Accounts, SameSums
  <2> QED BY <2>2, AccountsArePrimed
<1>3. ASSUME NEW t \in Threads,
             BeginExecution(t) \/ Stop(t) \/ EnterModel(t) \/ LeaveModel(t)
      PROVE  CallsAccountedFor'
  BY <1>1, <1>3, QuietStepsAccount
<1>4. ASSUME NEW t \in Threads, BeginCall(t)
      PROVE  CallsAccountedFor'
  BY <1>1, <1>4, BeginCallAccounts
<1>5. ASSUME NEW t \in Threads, CountOutcome(t)
      PROVE  CallsAccountedFor'
  BY <1>1, <1>5, CountOutcomeAccounts
<1>6. ASSUME NEW t \in Threads, RaiseMaximum(t)
      PROVE  CallsAccountedFor'
  BY <1>1, <1>6, RaiseMaximumAccounts
<1>7. ASSUME NEW t \in Threads,
             Reserve(t) \/ Discover(t) \/ Abandon(t) \/ Publish(t)
      PROVE  CallsAccountedFor'
  BY <1>1, <1>7, ReserveAccounts, DiscoverAccounts, AbandonAccounts, PublishAccounts
<1>8. ASSUME NEW t \in Threads,
             RecordStep(t) \/ RecordCompletion(t) \/ EndExecution(t)
      PROVE  CallsAccountedFor'
  BY <1>1, <1>8, ExecutionStepsAccount
<1> QED BY <1>2, <1>3, <1>4, <1>5, <1>6, <1>7, <1>8, Steps

(* Only a call that built its prefix gets as far as its trace.             *)
LEMMA TracedStep ==
    ASSUME IInv, TracedToTheEnd, [Next]_vars
    PROVE  TracedToTheEnd'
<1>2. TypeOK /\ ScopesHoldSlabs /\ SlotsAccountedFor
  BY DEF IInv
<1>3. ASSUME scope' = scope
      PROVE  TracedToTheEnd'
  BY <1>3 DEF TracedToTheEnd
<1>4. ASSUME NEW t \in Threads, OthersStay(t),
             scope'[t].at \in {"reserve", "discover"} => scope'[t].traced
      PROVE  TracedToTheEnd'
  BY <1>4 DEF TracedToTheEnd, OthersStay
<1>5. CASE UNCHANGED vars \/ ResetBuild \/ ResetPublish
  BY <1>3, <1>5 DEF vars, ResetBuild, ResetPublish
<1>6. ASSUME NEW t \in Threads,
             \/ BeginExecution(t) \/ Stop(t) \/ BeginCall(t) \/ EnterModel(t)
             \/ LeaveModel(t)
      PROVE  TracedToTheEnd'
  <2>1. OthersStay(t) /\ scope'[t].at \in {"stage", "scoped", "running", "ended"}
    BY <1>2, <1>6, BeginExecutionEffect, StopEffect, BeginCallEffect, EnterModelEffect,
       LeaveModelEffect
  <2> QED BY <1>4, <2>1
<1>7. ASSUME NEW t \in Threads,
             \/ CountOutcome(t) \/ Discover(t) \/ Abandon(t) \/ Publish(t)
             \/ RecordStep(t) \/ RecordCompletion(t) \/ EndExecution(t)
      PROVE  TracedToTheEnd'
  <2>1. OthersStay(t) /\ scope'[t].at \in {"raise", "publish", "recorded", "stage",
                                           "leaving", "idle"}
    BY <1>2, <1>7, CountOutcomeEffect, DiscoverEffect, AbandonEffect, PublishEffect,
       RecordStepEffect, RecordCompletionEffect, EndExecutionEffect DEF NoScope
  <2> QED BY <1>4, <2>1
<1>8. ASSUME NEW t \in Threads, Reserve(t)
      PROVE  TracedToTheEnd'
  <2>1. /\ scope[t].at = "reserve" /\ OthersStay(t)
        /\ Goto(t, "recorded") \/ Goto(t, "discover")
    BY <1>2, <1>8, ReserveEffect DEF Reserve
  <2>2. scope'[t].traced = scope[t].traced
    BY <1>2, <2>1, GotoKeepsTrace DEF Positions
  <2> QED BY <1>4, <2>1, <2>2 DEF TracedToTheEnd
<1>9. ASSUME NEW t \in Threads, RaiseMaximum(t)
      PROVE  TracedToTheEnd'
  <2>1. /\ OthersStay(t)
        /\ scope'[t].at \in {"reserve", "discover"} => scope'[t].traced
    BY <1>2, <1>9, RaiseMaximumTraces, ScopeFields
  <2> QED BY <1>4, <2>1
<1> QED BY <1>5, <1>6, <1>7, <1>8, <1>9, Steps

LEMMA InitialAccounts == Init => AccountsInv
<1> SUFFICES ASSUME Init
             PROVE  AccountsInv
  OBVIOUS
<1> USE DEF Init
<1>1. \A t \in Threads : scope[t].at = "idle"
  BY DEF NoScope
<1>2. ASSUME NEW e \in Epochs
      PROVE  Accounts(e)
  <2>1. /\ slabs[e].input = 0 /\ slabs[e].records = <<>>
        /\ slabs[e].dropped = 0 /\ slabs[e].failed = 0
    BY DEF EmptySlab
  <2>2. CallsEnded(e) = 0
    BY DEF EmptySlab, NoCounts, CallsEnded, Total, Outcomes
  <2>3. StartedIn(e) = {} /\ EarlyIn(e) = {} /\ LookingIn(e) = {}
    BY <1>1 DEF StartedIn, EarlyIn, LookingIn, InCall, Started, Unsettled
  <2>4. KeptIn(e) = {}
    BY <2>1 DEF KeptIn
  <2>5. Settled(e) = 0
    BY <2>1, <2>4, FS_EmptySet DEF Settled
  <2> QED BY <2>1, <2>2, <2>3, <2>5, FS_EmptySet DEF Accounts
<1>3. CallsAccountedFor
  BY <1>2, AccountsAre
<1> QED BY <1>1, <1>3 DEF AccountsInv, TracedToTheEnd

(* However many resets happen while it runs, a call is charged to one      *)
(* epoch and accounted for there once, by a kept record, as dropped, as    *)
(* failed, or as still looking for its file.  (TelemetryComponentScope,    *)
(* FinalizeTrace)                                                          *)
THEOREM CallsAreAccountedFor == Spec => []CallsAccountedFor
<1>1. Init => AccountsInv
  BY InitialAccounts
<1>2. IInv /\ AccountsInv /\ [Next]_vars => AccountsInv'
  <2> SUFFICES ASSUME IInv, AccountsInv, [Next]_vars
               PROVE  AccountsInv'
    OBVIOUS
  <2>1. TracedToTheEnd
    BY DEF AccountsInv
  <2>2. CallsAccountedFor' /\ TracedToTheEnd'
    BY <2>1, AccountsStep, TracedStep
  <2> QED BY <2>2 DEF AccountsInv
<1>3. AccountsInv => CallsAccountedFor
  BY DEF AccountsInv
<1> QED BY <1>1, <1>2, <1>3, TelemetryInvariant, PTL DEF Spec

=============================================================================
