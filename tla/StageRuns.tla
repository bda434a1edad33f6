----------------------------- MODULE StageRuns -----------------------------
(***************************************************************************)
(* One PipelineSession and the StageRun handles it produces.               *)
(*                                                                         *)
(* The session mutex guards the data and the run slot active_run_id.       *)
(* RunStage begins and drains a run under one hold of the mutex; a handle  *)
(* from BeginStage steps its run with the mutex released between steps.    *)
(* Every execution takes an admission permit before the mutex and returns  *)
(* it after; Step and Finish look at the run before admission, again under *)
(* the mutex, and take the mutex once more to close a run that failed.     *)
(*                                                                         *)
(* Short critical sections are one action, guarded by a free mutex; those  *)
(* that execute components hold it across actions.  A component may fail,  *)
(* or observe a cancellation, at any point of an execution.                *)
(*                                                                         *)
(* Data are abstracted to the execution that changed them last: the run    *)
(* and how many of its passes were applied.                                *)
(***************************************************************************)
EXTENDS Naturals, FiniteSets

CONSTANTS
    Threads,      \* application threads
    Copies,       \* snapshots and forks the program keeps
    Names,        \* checkpoint names
    MaxRuns,      \* bound on next_run_id
    MaxSteps,     \* bound on the passes of one run
    PermitLimit,  \* permits of the scheduler
    Free,         \* owner of a mutex nobody holds
    None          \* no copy of the data, no stop

ASSUME ThreadsAssumption == IsFiniteSet(Threads) /\ Free \notin Threads
ASSUME HoldersAssumption == Names \cap Copies = {}
ASSUME BoundsAssumption ==
    MaxRuns \in Nat /\ MaxSteps \in Nat /\ PermitLimit \in Nat \ {0}

Runs    == 1..MaxRuns
Holders == Copies \cup Names

(* The data as pass n of run r left them; run 0 is no run.                 *)
Left(r, n) == [run |-> r, at |-> n]
Outside    == Left(0, 1)
Fresh      == Left(0, 0)
AllData    == [run : 0..MaxRuns, at : 0..MaxSteps + 1]

ASSUME NoneAssumption == None \notin AllData /\ None \notin Nat

VARIABLES
    mutex,      \* owner of the session mutex
    nextRun,    \* next_run_id
    active,     \* active_run_id, 0 for none
    handles,    \* runs whose StageRun handle exists
    completed,  \* completed, per run
    closed,     \* closed, per run
    stopped,    \* passes applied when the run's source was cancelled
    applied,    \* passes applied, per run
    data,       \* SessionState
    saved,      \* the data of snapshots and forks, and of checkpoints
    permits,    \* permits in use
    pc,         \* where each thread is
    op,         \* the call it makes
    run         \* the run the call is about, 0 for none

runVars  == <<nextRun, active, handles, completed, closed>>
dataVars == <<applied, data, saved>>
callVars == <<pc, op, run>>
vars     == <<mutex, runVars, stopped, dataVars, permits, callVars>>

Ops == {"none", "run", "step", "finish", "direct", "fork"}
Pcs == {"idle", "admit", "lock", "polling", "stepping", "executed",
        "returning", "failed", "closing", "refused", "forking"}

Inside  == {"polling", "stepping", "executed"}
Holding == {"lock", "returning", "failed"} \cup Inside

Goto(t, l) == pc' = [pc EXCEPT ![t] = l]
Return(t) ==
    /\ Goto(t, "idle")
    /\ op' = [op EXCEPT ![t] = "none"]
    /\ run' = [run EXCEPT ![t] = 0]
Call(t, o, r, l) ==
    /\ pc[t] = "idle"
    /\ Goto(t, l)
    /\ op' = [op EXCEPT ![t] = o]
    /\ run' = [run EXCEPT ![t] = r]

Ended(r) == completed[r] \/ closed[r]

(* Mutant: the slot is released whoever has it.                            *)
ReleaseAnySlot(r) == active' = 0

(* ReleaseSlotLocked compares the ids: the slot may be a newer run's.      *)
ReleaseSlot(r) == active' = IF active = r THEN 0 ELSE active

-----------------------------------------------------------------------------
(* Calls.  Step and Finish refuse an ended run before they queue; Finish   *)
(* of a completed run returns its cached outputs.                          *)
StepCall(t, r) ==
    /\ mutex = Free /\ r \in handles /\ ~Ended(r)
    /\ Call(t, "step", r, "admit")
    /\ UNCHANGED <<mutex, runVars, stopped, dataVars, permits>>

FinishCall(t, r) ==
    /\ mutex = Free /\ r \in handles /\ ~Ended(r)
    /\ Call(t, "finish", r, "admit")
    /\ UNCHANGED <<mutex, runVars, stopped, dataVars, permits>>

RunStageCall(t) ==
    /\ Call(t, "run", 0, "admit")
    /\ UNCHANGED <<mutex, runVars, stopped, dataVars, permits>>

StepStageCall(t) ==
    /\ Call(t, "direct", 0, "admit")
    /\ UNCHANGED <<mutex, runVars, stopped, dataVars, permits>>

(* The scheduler grants a permit, or throws: cancelled, late, or no memory.*)
Admit(t) ==
    /\ pc[t] = "admit" /\ permits < PermitLimit
    /\ permits' = permits + 1
    /\ Goto(t, "lock")
    /\ UNCHANGED <<mutex, runVars, stopped, dataVars, op, run>>

AdmissionThrows(t) ==
    /\ pc[t] = "admit"
    /\ IF op[t] \in {"step", "finish"}
       THEN Goto(t, "refused") /\ UNCHANGED <<op, run>>
       ELSE Return(t)
    /\ UNCHANGED <<mutex, runVars, stopped, dataVars, permits>>

-----------------------------------------------------------------------------
(* Mutant: some run has the slot.                                          *)
SlotTaken(r) == active # 0

(* Step and Finish under the mutex, as EnsureActiveLocked has it.          *)
CanGoOn(r) == ~completed[r] /\ ~closed[r] /\ active = r

(* Mutant: the check before admission is trusted.                          *)
EnterUnchecked(t) ==
    /\ pc[t] = "lock" /\ op[t] \in {"step", "finish"} /\ mutex = Free
    /\ mutex' = t /\ Goto(t, "polling")
    /\ UNCHANGED <<runVars, stopped, dataVars, permits, op, run>>

EnterRun(t) ==
    /\ pc[t] = "lock" /\ op[t] \in {"step", "finish"} /\ mutex = Free
    /\ CASE CanGoOn(run[t]) -> mutex' = t /\ Goto(t, "polling")
         [] op[t] = "finish" /\ completed[run[t]] ->
                Goto(t, "returning") /\ UNCHANGED mutex
         [] OTHER -> Goto(t, "failed") /\ UNCHANGED mutex
    /\ UNCHANGED <<runVars, stopped, dataVars, permits, op, run>>

(* EnsureNoActiveRunLocked.                                                *)
NoActiveRun == active = 0

(* Begin claims the slot last: what fails before it leaves the slot free,  *)
(* and the inputs that an executor stored stay stored.                     *)
BeginRun ==
    /\ NoActiveRun /\ nextRun <= MaxRuns
    /\ nextRun' = nextRun + 1
    /\ active' = nextRun
    /\ data' \in {data, Left(nextRun, 0)}
BeginFails == NoActiveRun /\ data' \in {data, Outside}

BeginStage(t) ==
    /\ pc[t] = "idle" /\ mutex = Free
    /\ BeginRun
    /\ handles' = handles \cup {nextRun}
    /\ UNCHANGED <<mutex, completed, closed, stopped, applied, saved, permits,
                   callVars>>

BeginStageFails(t) ==
    /\ pc[t] = "idle" /\ mutex = Free
    /\ BeginFails
    /\ UNCHANGED <<mutex, runVars, stopped, applied, saved, permits, callVars>>

(* RunStage keeps the mutex from the check to the last step.               *)
EnterRunStage(t) ==
    /\ pc[t] = "lock" /\ op[t] = "run" /\ mutex = Free
    /\ BeginRun
    /\ mutex' = t
    /\ run' = [run EXCEPT ![t] = nextRun]
    /\ Goto(t, "polling")
    /\ UNCHANGED <<handles, completed, closed, stopped, applied, saved, permits,
                   op>>

RunStageFails(t) ==
    /\ pc[t] = "lock" /\ op[t] = "run" /\ mutex = Free
    /\ (~NoActiveRun /\ UNCHANGED data) \/ BeginFails
    /\ Goto(t, "failed")
    /\ UNCHANGED <<mutex, runVars, stopped, applied, saved, permits, op, run>>

EnterStepStage(t) ==
    /\ pc[t] = "lock" /\ op[t] = "direct" /\ mutex = Free
    /\ IF NoActiveRun THEN mutex' = t /\ Goto(t, "stepping")
                      ELSE Goto(t, "failed") /\ UNCHANGED mutex
    /\ UNCHANGED <<runVars, stopped, dataVars, permits, op, run>>

-----------------------------------------------------------------------------
(* An execution ends with an exception.  FinishLocked closes the run under *)
(* the same hold of the mutex, Step only afterwards.                       *)
Throw(t) ==
    /\ mutex' = Free
    /\ Goto(t, "failed")
    /\ IF op[t] \in {"run", "finish"}
       THEN ReleaseSlot(run[t]) /\ closed' = [closed EXCEPT ![run[t]] = TRUE]
       ELSE UNCHANGED <<active, closed>>
    /\ UNCHANGED <<nextRun, handles, completed, stopped, dataVars, permits, op,
                   run>>

(* The poll that precedes every step of a run.                             *)
Poll(t) ==
    /\ pc[t] = "polling" /\ stopped[run[t]] = None
    /\ Goto(t, "stepping")
    /\ UNCHANGED <<mutex, runVars, stopped, dataVars, permits, op, run>>

PollThrows(t) ==
    /\ pc[t] = "polling" /\ stopped[run[t]] # None
    /\ Throw(t)

(* The executor applies one pass to the session.                           *)
Execute(t) ==
    /\ pc[t] = "stepping"
    /\ IF op[t] = "direct"
       THEN data' = Outside /\ UNCHANGED applied
       ELSE /\ applied[run[t]] < MaxSteps
            /\ applied' = [applied EXCEPT ![run[t]] = @ + 1]
            /\ data' = Left(run[t], applied[run[t]] + 1)
    /\ Goto(t, "executed")
    /\ UNCHANGED <<mutex, runVars, stopped, saved, permits, op, run>>

(* Mutant: a drain polls once and then never again.                        *)
EmitUnpolled(t) ==
    /\ pc[t] = "executed"
    /\ IF op[t] \in {"run", "finish"}
       THEN Goto(t, "stepping") /\ UNCHANGED mutex
       ELSE Goto(t, "returning") /\ mutex' = Free
    /\ UNCHANGED <<runVars, stopped, dataVars, permits, op, run>>

(* The event is returned; a drain goes on with the next step.              *)
Emit(t) ==
    /\ pc[t] = "executed"
    /\ IF op[t] \in {"run", "finish"}
       THEN Goto(t, "polling") /\ UNCHANGED mutex
       ELSE Goto(t, "returning") /\ mutex' = Free
    /\ UNCHANGED <<runVars, stopped, dataVars, permits, op, run>>

(* Mutant: completion leaves the slot to the handle's destructor.          *)
CompleteKeepsSlot(t) ==
    /\ pc[t] = "stepping" /\ op[t] # "direct"
    /\ completed' = [completed EXCEPT ![run[t]] = TRUE]
    /\ mutex' = Free
    /\ Goto(t, "returning")
    /\ UNCHANGED <<nextRun, active, handles, closed, stopped, dataVars, permits,
                   op, run>>

(* The executor has no work left.                                          *)
Complete(t) ==
    /\ pc[t] = "stepping" /\ op[t] # "direct"
    /\ completed' = [completed EXCEPT ![run[t]] = TRUE]
    /\ ReleaseSlot(run[t])
    /\ mutex' = Free
    /\ Goto(t, "returning")
    /\ UNCHANGED <<nextRun, handles, closed, stopped, dataVars, permits, op, run>>

(* A component, a transform or a guidance pass fails, before or after the  *)
(* session was changed.                                                    *)
StepThrows(t) ==
    /\ pc[t] \in {"stepping", "executed"}
    /\ Throw(t)

-----------------------------------------------------------------------------
(* Mutant: only a call that succeeds returns its permit.                   *)
ReturnPermitOnSuccess(t) ==
    /\ pc[t] \in {"returning", "failed"}
    /\ permits' = IF pc[t] = "returning" THEN permits - 1 ELSE permits
    /\ IF pc[t] = "failed" /\ op[t] \in {"step", "finish"}
       THEN Goto(t, "closing") /\ UNCHANGED <<op, run>>
       ELSE Return(t)
    /\ UNCHANGED <<mutex, runVars, stopped, dataVars>>

(* The lease goes out of scope, before the handler of the exception runs.  *)
ReturnPermit(t) ==
    /\ pc[t] \in {"returning", "failed"}
    /\ permits' = permits - 1
    /\ IF pc[t] = "failed" /\ op[t] \in {"step", "finish"}
       THEN Goto(t, "closing") /\ UNCHANGED <<op, run>>
       ELSE Return(t)
    /\ UNCHANGED <<mutex, runVars, stopped, dataVars>>

(* The catch clauses of Step and Finish.                                   *)
CloseFailed(t) ==
    /\ pc[t] \in {"closing", "refused"} /\ mutex = Free
    /\ ReleaseSlot(run[t])
    /\ closed' = [closed EXCEPT ![run[t]] = TRUE]
    /\ Return(t)
    /\ UNCHANGED <<mutex, nextRun, handles, completed, stopped, dataVars,
                   permits>>

-----------------------------------------------------------------------------
(* RequestCancellation, or the caller's token or deadline: no mutex.       *)
RequestCancellation(r) ==
    /\ r < nextRun /\ stopped[r] = None
    /\ stopped' = [stopped EXCEPT ![r] = applied[r]]
    /\ UNCHANGED <<mutex, runVars, dataVars, permits, callVars>>

(* StageRun::Cancel waits for the step in progress.                        *)
Cancel(t, r) ==
    /\ pc[t] = "idle" /\ mutex = Free /\ r \in handles
    /\ ReleaseSlot(r)
    /\ closed' = [closed EXCEPT ![r] = @ \/ ~completed[r]]
    /\ UNCHANGED <<mutex, nextRun, handles, completed, stopped, dataVars,
                   permits, callVars>>

(* The destructor cancels; no thread is in a call on the handle.           *)
Destroy(t, r) ==
    /\ pc[t] = "idle" /\ mutex = Free /\ r \in handles
    /\ \A u \in Threads : run[u] # r
    /\ ReleaseSlot(r)
    /\ closed' = [closed EXCEPT ![r] = @ \/ ~completed[r]]
    /\ handles' = handles \ {r}
    /\ UNCHANGED <<mutex, nextRun, completed, stopped, dataVars, permits,
                   callVars>>

-----------------------------------------------------------------------------
(* Operations that need a session without a run, and throw otherwise.      *)
Between(t) == pc[t] = "idle" /\ mutex = Free /\ NoActiveRun

Save(h) == saved' = [saved EXCEPT ![h] = data] /\ UNCHANGED data

Snapshot(t, c) ==
    /\ Between(t) /\ Save(c)
    /\ UNCHANGED <<mutex, runVars, stopped, applied, permits, callVars>>

Checkpoint(t, n) ==
    /\ Between(t) /\ Save(n)
    /\ UNCHANGED <<mutex, runVars, stopped, applied, permits, callVars>>

(* Restore and RestoreCheckpoint.                                          *)
Restore(t, h) ==
    /\ Between(t) /\ saved[h] # None
    /\ data' = saved[h]
    /\ UNCHANGED <<mutex, runVars, stopped, applied, saved, permits, callVars>>

DropCheckpoint(t, n) ==
    /\ Between(t) /\ saved[n] # None
    /\ saved' = [saved EXCEPT ![n] = None]
    /\ UNCHANGED <<mutex, runVars, stopped, applied, data, permits, callVars>>

Reset(t) ==
    /\ Between(t)
    /\ data' = Fresh
    /\ saved' = [h \in Holders |-> IF h \in Names THEN None ELSE saved[h]]
    /\ UNCHANGED <<mutex, runVars, stopped, applied, permits, callVars>>

ReleaseStage(t) ==
    /\ Between(t)
    /\ data' = Outside
    /\ UNCHANGED <<mutex, runVars, stopped, applied, saved, permits, callVars>>

(* Fork looks for a run, releases the mutex, and takes a snapshot, which   *)
(* looks again.                                                            *)
Fork(t) ==
    /\ mutex = Free /\ NoActiveRun /\ Copies # {}
    /\ Call(t, "fork", 0, "forking")
    /\ UNCHANGED <<mutex, runVars, stopped, dataVars, permits>>

(* Mutant: the snapshot of a fork relies on the first look.                *)
ForkUnchecked(t, c) ==
    /\ pc[t] = "forking" /\ mutex = Free
    /\ Save(c)
    /\ Return(t)
    /\ UNCHANGED <<mutex, runVars, stopped, applied, permits>>

ForkSnapshot(t, c) ==
    /\ pc[t] = "forking" /\ mutex = Free
    /\ IF NoActiveRun THEN Save(c) ELSE UNCHANGED <<saved, data>>
    /\ Return(t)
    /\ UNCHANGED <<mutex, runVars, stopped, applied, permits>>

-----------------------------------------------------------------------------
Init ==
    /\ mutex = Free
    /\ nextRun = 1
    /\ active = 0
    /\ handles = {}
    /\ completed = [r \in Runs |-> FALSE]
    /\ closed = [r \in Runs |-> FALSE]
    /\ stopped = [r \in Runs |-> None]
    /\ applied = [r \in Runs |-> 0]
    /\ data = Fresh
    /\ saved = [h \in Holders |-> None]
    /\ permits = 0
    /\ pc = [t \in Threads |-> "idle"]
    /\ op = [t \in Threads |-> "none"]
    /\ run = [t \in Threads |-> 0]

(* What the program may do or not, and what may go wrong.                  *)
Optional(t) ==
    \/ \E r \in Runs :
        StepCall(t, r) \/ FinishCall(t, r) \/ Cancel(t, r) \/ Destroy(t, r)
    \/ \E n \in Names : Checkpoint(t, n) \/ DropCheckpoint(t, n)
    \/ \E h \in Holders : Restore(t, h)
    \/ RunStageCall(t)
    \/ StepStageCall(t)
    \/ BeginStage(t)
    \/ BeginStageFails(t)
    \/ \E c \in Copies : Snapshot(t, c)
    \/ Reset(t)
    \/ ReleaseStage(t)
    \/ Fork(t)
    \/ AdmissionThrows(t)

(* A thread that owns what it needs goes on.                               *)
Steps(t) ==
    \/ Poll(t)
    \/ PollThrows(t)
    \/ Execute(t)
    \/ Emit(t)
    \/ Complete(t)
    \/ StepThrows(t)
    \/ ReturnPermit(t)

(* A thread waits for a permit or for the mutex.                           *)
Waits(t) ==
    \/ Admit(t)
    \/ EnterRun(t)
    \/ EnterRunStage(t)
    \/ RunStageFails(t)
    \/ EnterStepStage(t)
    \/ CloseFailed(t)
    \/ \E c \in Copies : ForkSnapshot(t, c)

Next ==
    \/ \E t \in Threads : Optional(t) \/ Steps(t) \/ Waits(t)
    \/ \E r \in Runs : RequestCancellation(r)

Spec == Init /\ [][Next]_vars

(* Running threads go on; the scheduler is first in, first out and the     *)
(* mutex fair enough that nobody waits for ever while it keeps being freed.*)
FairSpec ==
    Spec /\ \A t \in Threads : WF_vars(Steps(t)) /\ SF_vars(Waits(t))

-----------------------------------------------------------------------------
TypeOK ==
    /\ mutex \in Threads \cup {Free}
    /\ nextRun \in 1..MaxRuns + 1
    /\ active \in 0..MaxRuns
    /\ handles \subseteq Runs
    /\ completed \in [Runs -> BOOLEAN]
    /\ closed \in [Runs -> BOOLEAN]
    /\ stopped \in [Runs -> 0..MaxSteps \cup {None}]
    /\ applied \in [Runs -> 0..MaxSteps]
    /\ data \in AllData
    /\ saved \in [Holders -> AllData \cup {None}]
    /\ permits \in 0..PermitLimit
    /\ pc \in [Threads -> Pcs]
    /\ op \in [Threads -> Ops]
    /\ run \in [Threads -> 0..MaxRuns]

(* The slot and the handles agree: a run that was begun and has not ended  *)
(* has the slot, and no other run has.  EnsureActiveLocked can thus never  *)
(* find an open run without the slot.                                      *)
OpenRunHasSlot ==
    \A r \in Runs : active = r <=> r < nextRun /\ ~Ended(r)

(* The slot never leaks: it belongs to a run with a handle, or to a        *)
(* RunStage call that is inside the mutex.                                 *)
SlotNeverLeaks ==
    active # 0 =>
        \/ active \in handles
        \/ \E t \in Threads : mutex = t /\ op[t] = "run" /\ run[t] = active

(* Permits in use are those of calls in progress.                          *)
PermitsAreHeld == permits = Cardinality({t \in Threads : pc[t] \in Holding})

(* A snapshot, fork or checkpoint holds the data of a moment between runs: *)
(* the run that produced them has ended, and they miss none of its passes. *)
Whole(d) == d.run # 0 => Ended(d.run) /\ d.at = applied[d.run]
SavedDataAreWhole == \A h \in Holders : saved[h] # None => Whole(saved[h])

(* A run whose source was cancelled applies at most the pass that was in   *)
(* progress then.                                                          *)
StopsWithinOnePass ==
    \A r \in Runs : stopped[r] # None => applied[r] <= stopped[r] + 1

(* What the proofs add.  The mutex belongs to the thread that executes; a  *)
(* thread inside it works on the active run, or there is none; the catch   *)
(* clauses are those of Step and Finish; a call on a handle keeps it alive.*)
CallAgrees(t) ==
    /\ pc[t] \in Inside <=> mutex = t
    /\ pc[t] \in Inside => active = run[t] /\ (op[t] = "direct" <=> run[t] = 0)
    /\ pc[t] = "polling" => run[t] # 0
    /\ pc[t] = "idle" <=> op[t] = "none"
    /\ pc[t] = "forking" <=> op[t] = "fork"
    /\ pc[t] \in {"closing", "refused"} => op[t] \in {"step", "finish"}
    /\ op[t] \in {"step", "finish"} => run[t] \in handles
    /\ op[t] \in {"none", "direct", "fork"} => run[t] = 0
CallsAgree == \A t \in Threads : CallAgrees(t)

(* Runs that were not begun are untouched, and the data know how far their *)
(* run has got.                                                            *)
RunsAgree ==
    /\ \A r \in handles : r < nextRun
    /\ \A r \in Runs : r >= nextRun => ~Ended(r) /\ applied[r] = 0
    /\ data.run < nextRun
    /\ data.run # 0 => data.at = applied[data.run]

(* A pass in progress is the first one after the run was stopped.          *)
PassesStop ==
    \A t \in Threads :
        pc[t] = "stepping" /\ run[t] # 0 /\ stopped[run[t]] # None =>
            applied[run[t]] <= stopped[run[t]]

(* The inductive invariant.                                                *)
IInv ==
    /\ TypeOK
    /\ CallsAgree
    /\ RunsAgree
    /\ OpenRunHasSlot
    /\ SlotNeverLeaks
    /\ SavedDataAreWhole
    /\ PassesStop /\ StopsWithinOnePass
    /\ PermitsAreHeld

(* An ended run stays ended and applies nothing more, although calls that  *)
(* found it open are still on their way.                                   *)
EndedRunsRest ==
    [][\A r \in Runs : Ended(r) => Ended(r)' /\ applied'[r] = applied[r]]_vars

(* A failing step ends its run: no pass is applied once a step has failed. *)
FailureEndsRun ==
    [][\A r \in Runs : applied'[r] # applied[r] =>
        ~\E t \in Threads : pc[t] \in {"failed", "closing"} /\ run[t] = r]_vars

(* Every call returns: permit before mutex cannot deadlock.                *)
CallsReturn == \A t \in Threads : pc[t] # "idle" ~> pc[t] = "idle"

Exclusive == INSTANCE ExclusiveRuns WITH
    begun <- nextRun - 1,
    owner <- active,
    progress <- applied

(* Runs own the session one after the other, ExclusiveRuns.                *)
ImplementsExclusiveRuns == Exclusive!Spec

=============================================================================
