--------------------------- MODULE StageRunsProofs ---------------------------
(***************************************************************************)
(* Proofs about StageRuns for any number of threads, runs, passes, permits,*)
(* snapshots and checkpoints.  IInv is the inductive invariant; there is   *)
(* one lemma per conjunct of it, with one step per action.                 *)
(***************************************************************************)
EXTENDS StageRuns, FiniteSetTheorems, TLAPS

LEMMA HolderCounted ==
    ASSUME PermitsAreHeld, NEW t \in Threads, pc[t] \in Holding
    PROVE  permits # 0
<1> DEFINE H == {u \in Threads : pc[u] \in Holding}
<1>1. IsFiniteSet(H)
  BY ThreadsAssumption, FS_Subset
<1>2. H # {}
  OBVIOUS
<1> QED
  BY <1>1, <1>2, FS_EmptySet DEF PermitsAreHeld

(* The records that stand for the data of the session.                     *)
LEMMA DataTypes ==
    /\ Outside \in AllData
    /\ Fresh \in AllData
    /\ \A r \in Runs : Left(r, 0) \in AllData
BY BoundsAssumption DEF Outside, Fresh, Left, AllData, Runs

LEMMA ReleaseType ==
    ASSUME TypeOK, NEW r, ReleaseSlot(r)
    PROVE  active' \in 0..MaxRuns
BY BoundsAssumption DEF ReleaseSlot, TypeOK

LEMMA ThrowType ==
    ASSUME TypeOK, NEW t \in Threads, Throw(t)
    PROVE  TypeOK'
<1>1. pc' \in [Threads -> Pcs]
  BY DEF Throw, Goto, TypeOK, Pcs
<1>2. CASE op[t] \in {"run", "finish"}
  <2>1. active' \in 0..MaxRuns /\ closed' \in [Runs -> BOOLEAN]
    <3>1. closed' \in [Runs -> BOOLEAN]
      BY <1>2 DEF Throw, TypeOK
    <3>2. active' \in 0..MaxRuns
      BY <1>2, ReleaseType DEF Throw
    <3> QED
      BY <3>1, <3>2
  <2> QED
    BY <1>1, <1>2, <2>1 DEF Throw, dataVars, TypeOK
<1>3. CASE ~(op[t] \in {"run", "finish"})
  BY <1>1, <1>3 DEF Throw, dataVars, TypeOK
<1> QED
  BY <1>2, <1>3

LEMMA InsideRun ==
    ASSUME TypeOK, CallsAgree, NEW t \in Threads, pc[t] \in Inside
    PROVE  /\ active = run[t] /\ run[t] \in 0..MaxRuns
           /\ op[t] = "direct" <=> run[t] = 0
           /\ op[t] # "direct" => run[t] \in Runs
BY BoundsAssumption DEF TypeOK, CallsAgree, CallAgrees, Runs

(* What the exception of an execution leaves of the run.                   *)
LEMMA ThrowSlot ==
    ASSUME TypeOK, CallsAgree, OpenRunHasSlot, NEW t \in Threads,
           pc[t] \in Inside, Throw(t)
    PROVE  OpenRunHasSlot'
<1> SUFFICES ASSUME NEW s \in Runs
             PROVE  active' = s <=> s < nextRun' /\ ~(completed'[s] \/ closed'[s])
  BY DEF OpenRunHasSlot, Ended
<1>1. CASE op[t] \in {"run", "finish"}
  <2>1. run[t] \in Runs /\ active = run[t]
    BY <1>1, InsideRun
  <2>2. active' = 0 /\ closed' = [closed EXCEPT ![run[t]] = TRUE]
    BY <1>1, <2>1 DEF Throw, ReleaseSlot
  <2>3. CASE s = run[t]
    BY <2>1, <2>2, <2>3 DEF TypeOK, Runs
  <2>4. CASE s # run[t]
    BY <2>1, <2>2, <2>4 DEF Throw, TypeOK, Runs, OpenRunHasSlot, Ended
  <2> QED
    BY <2>3, <2>4
<1>2. CASE ~(op[t] \in {"run", "finish"})
  BY <1>2 DEF Throw, OpenRunHasSlot, Ended
<1> QED
  BY <1>1, <1>2

LEMMA ThrowRuns ==
    ASSUME TypeOK, CallsAgree, RunsAgree, OpenRunHasSlot, NEW t \in Threads,
           pc[t] \in Inside, Throw(t)
    PROVE  RunsAgree'
<1>1. \A r \in Runs : r >= nextRun => closed'[r] = closed[r]
  <2>1. CASE op[t] \in {"run", "finish"}
    <3>1. run[t] \in Runs /\ active = run[t]
      BY <2>1, InsideRun
    <3>2. run[t] < nextRun
      BY <3>1 DEF OpenRunHasSlot
    <3> QED
      <4> SUFFICES ASSUME NEW r \in Runs, r >= nextRun
                   PROVE  closed'[r] = closed[r]
        OBVIOUS
      <4>1. r # run[t]
        BY <3>1, <3>2, BoundsAssumption DEF TypeOK, Runs
      <4> QED
        BY <2>1, <4>1 DEF Throw, TypeOK
  <2>2. CASE ~(op[t] \in {"run", "finish"})
    BY <2>2 DEF Throw
  <2> QED
    BY <2>1, <2>2
<1> QED
  BY <1>1 DEF Throw, dataVars, RunsAgree, Ended

LEMMA ThrowEnded ==
    ASSUME TypeOK, CallsAgree, NEW t \in Threads, pc[t] \in Inside, Throw(t),
           NEW r \in Runs, Ended(r)
    PROVE  Ended(r)'
<1>1. CASE op[t] \in {"run", "finish"}
  BY <1>1 DEF Throw, TypeOK, Ended
<1>2. CASE ~(op[t] \in {"run", "finish"})
  BY <1>2 DEF Throw, Ended
<1> QED
  BY <1>1, <1>2

(* A pass is applied by a run that has not ended.                          *)
LEMMA ExecuteOpen ==
    ASSUME TypeOK, CallsAgree, OpenRunHasSlot, NEW t \in Threads, Execute(t),
           NEW r \in Runs, Ended(r)
    PROVE  applied'[r] = applied[r]
<1>1. CASE op[t] = "direct"
  BY <1>1 DEF Execute
<1>2. CASE op[t] # "direct"
  <2>1. pc[t] \in Inside
    BY DEF Execute, Inside
  <2>2. run[t] \in Runs /\ active = run[t]
    BY <1>2, <2>1, InsideRun
  <2>3. r # run[t]
    BY <2>2 DEF OpenRunHasSlot
  <2> QED
    BY <1>2, <2>2, <2>3 DEF Execute, TypeOK
<1> QED
  BY <1>1, <1>2

LEMMA SameHolders ==
    ASSUME PermitsAreHeld, permits' = permits,
           \A u \in Threads : pc'[u] \in Holding <=> pc[u] \in Holding
    PROVE  PermitsAreHeld'
<1>1. {u \in Threads : pc'[u] \in Holding} = {u \in Threads : pc[u] \in Holding}
  OBVIOUS
<1> QED
  BY <1>1 DEF PermitsAreHeld

(* Data that something else than a run left.                               *)
LEMMA OutsideRefines ==
    ASSUME TypeOK, active = 0, data' = Outside,
           UNCHANGED <<nextRun, active, applied, saved>>
    PROVE  [Exclusive!Next]_(Exclusive!vars)
<1>1. saved' = [x \in Holders |-> IF x \in {} THEN None ELSE saved[x]]
  BY DEF TypeOK
<1>2. data' = Exclusive!Outside
  BY DEF Outside, Left, Exclusive!Outside, Exclusive!Left
<1>3. {} \in SUBSET Holders
  OBVIOUS
<1>4. Exclusive!Change
  BY <1>1, <1>2, <1>3 DEF Exclusive!Change
<1> QED
  BY <1>4 DEF Exclusive!Next

LEMMA ThrowRefines ==
    ASSUME TypeOK, CallsAgree, NEW t \in Threads, pc[t] \in Inside, Throw(t)
    PROVE  [Exclusive!Next]_(Exclusive!vars)
<1>1. CASE op[t] \in {"run", "finish"}
  <2>1. active = run[t] /\ run[t] # 0
    BY <1>1, InsideRun
  <2>2. Exclusive!End
    BY <1>1, <2>1 DEF Throw, ReleaseSlot, dataVars, Exclusive!End
  <2> QED
    BY <2>2 DEF Exclusive!Next
<1>2. CASE ~(op[t] \in {"run", "finish"})
  BY <1>2 DEF Throw, dataVars, Exclusive!vars
<1> QED
  BY <1>1, <1>2

(* Types; the bounds of permits are those of the calls that hold them.     *)
LEMMA TypeStep == IInv /\ [Next]_vars => TypeOK'
<1> SUFFICES ASSUME IInv, [Next]_vars
             PROVE  TypeOK'
  OBVIOUS
<1>0. /\ TypeOK
      /\ CallsAgree
      /\ PermitsAreHeld
  BY DEF IInv
<1>1. ASSUME NEW t \in Threads, NEW r \in Runs, StepCall(t, r)
      PROVE  TypeOK'
  BY BoundsAssumption, <1>0, <1>1 DEF StepCall, Call, Goto, runVars,
     dataVars, callVars, TypeOK, Pcs, Ops, Runs
<1>2. ASSUME NEW t \in Threads, NEW r \in Runs, FinishCall(t, r)
      PROVE  TypeOK'
  BY BoundsAssumption, <1>0, <1>2 DEF FinishCall, Call, Goto, runVars,
     dataVars, callVars, TypeOK, Pcs, Ops, Runs
<1>3. ASSUME NEW t \in Threads, NEW r \in Runs, Cancel(t, r)
      PROVE  TypeOK'
  <2>1. active' \in 0..MaxRuns
    BY <1>0, <1>3, ReleaseType DEF Cancel
  <2> QED
    BY BoundsAssumption, <1>0, <2>1, <1>3
       DEF Cancel, dataVars, callVars, TypeOK
<1>4. ASSUME NEW t \in Threads, NEW r \in Runs, Destroy(t, r)
      PROVE  TypeOK'
  <2>1. active' \in 0..MaxRuns
    BY <1>0, <1>4, ReleaseType DEF Destroy
  <2> QED
    BY BoundsAssumption, <1>0, <2>1, <1>4
       DEF Destroy, dataVars, callVars, TypeOK
<1>5. ASSUME NEW t \in Threads, NEW n \in Names, Checkpoint(t, n)
      PROVE  TypeOK'
  BY BoundsAssumption, <1>0, <1>5 DEF Checkpoint, Between, NoActiveRun,
     Save, runVars, dataVars, callVars, TypeOK, Holders
<1>6. ASSUME NEW t \in Threads, NEW n \in Names, DropCheckpoint(t, n)
      PROVE  TypeOK'
  BY BoundsAssumption, <1>0, <1>6 DEF DropCheckpoint, Between,
     NoActiveRun, runVars, dataVars, callVars, TypeOK, Holders
<1>7. ASSUME NEW t \in Threads, NEW h \in Holders, Restore(t, h)
      PROVE  TypeOK'
  BY BoundsAssumption, <1>0, <1>7 DEF Restore, Between, NoActiveRun,
     runVars, dataVars, callVars, TypeOK, Holders
<1>8. ASSUME NEW t \in Threads, RunStageCall(t)
      PROVE  TypeOK'
  BY BoundsAssumption, <1>0, <1>8 DEF RunStageCall, Call, Goto, runVars,
     dataVars, callVars, TypeOK, Pcs, Ops, Runs
<1>9. ASSUME NEW t \in Threads, StepStageCall(t)
      PROVE  TypeOK'
  BY BoundsAssumption, <1>0, <1>9 DEF StepStageCall, Call, Goto, runVars,
     dataVars, callVars, TypeOK, Pcs, Ops, Runs
<1>10. ASSUME NEW t \in Threads, BeginStage(t)
      PROVE  TypeOK'
  <2>1. data' \in AllData
    BY BoundsAssumption, DataTypes, <1>0, <1>10 DEF BeginStage,
       BeginRun, NoActiveRun, Runs, TypeOK
  <2> QED
    BY BoundsAssumption, <1>0, <2>1, <1>10 DEF BeginStage, BeginRun,
       NoActiveRun, Runs, runVars, callVars, TypeOK
<1>11. ASSUME NEW t \in Threads, BeginStageFails(t)
      PROVE  TypeOK'
  <2>1. data' \in AllData
    BY BoundsAssumption, DataTypes, <1>0, <1>11 DEF BeginStageFails,
       BeginFails, NoActiveRun, TypeOK
  <2> QED
    BY BoundsAssumption, <1>0, <2>1, <1>11 DEF BeginStageFails,
       BeginFails, NoActiveRun, runVars, callVars, TypeOK
<1>12. ASSUME NEW t \in Threads, NEW c \in Copies, Snapshot(t, c)
      PROVE  TypeOK'
  BY BoundsAssumption, <1>0, <1>12 DEF Snapshot, Between, NoActiveRun,
     Save, runVars, dataVars, callVars, TypeOK, Holders
<1>13. ASSUME NEW t \in Threads, Reset(t)
      PROVE  TypeOK'
  <2>1. data' \in AllData
    BY BoundsAssumption, DataTypes, <1>0, <1>13 DEF Reset, TypeOK
  <2> QED
    BY BoundsAssumption, <1>0, <2>1, <1>13 DEF Reset, runVars, callVars, TypeOK
<1>14. ASSUME NEW t \in Threads, ReleaseStage(t)
      PROVE  TypeOK'
  <2>1. data' \in AllData
    BY BoundsAssumption, DataTypes, <1>0, <1>14 DEF ReleaseStage, TypeOK
  <2> QED
    BY BoundsAssumption, <1>0, <2>1, <1>14 DEF ReleaseStage, runVars,
       callVars, TypeOK
<1>15. ASSUME NEW t \in Threads, Fork(t)
      PROVE  TypeOK'
  BY BoundsAssumption, <1>0, <1>15 DEF Fork, NoActiveRun, Call, Goto,
     runVars, dataVars, callVars, TypeOK, Pcs, Ops, Runs
<1>16. ASSUME NEW t \in Threads, AdmissionThrows(t)
      PROVE  TypeOK'
  <2>1. /\ pc' \in [Threads -> Pcs]
        /\ op' \in [Threads -> Ops]
        /\ run' \in [Threads -> 0..MaxRuns]
    <3>1. CASE op[t] \in {"step", "finish"}
      BY <1>0, <1>16, <3>1 DEF AdmissionThrows, Goto, TypeOK, Pcs
    <3>2. CASE ~(op[t] \in {"step", "finish"})
      BY BoundsAssumption, <1>0, <1>16, <3>2
         DEF AdmissionThrows, Return, Goto, TypeOK, Pcs, Ops
    <3> QED
      BY <3>1, <3>2
  <2> QED
    BY <1>0, <2>1, <1>16 DEF AdmissionThrows, runVars, dataVars, TypeOK
<1>17. ASSUME NEW t \in Threads, Poll(t)
      PROVE  TypeOK'
  BY BoundsAssumption, <1>0, <1>17 DEF Poll, Goto, runVars, dataVars,
     callVars, TypeOK, Pcs
<1>18. ASSUME NEW t \in Threads, PollThrows(t)
      PROVE  TypeOK'
  <2>1. Throw(t)
    BY <1>18 DEF PollThrows
  <2> QED
    BY <1>0, <2>1, ThrowType
<1>19. ASSUME NEW t \in Threads, Execute(t)
      PROVE  TypeOK'
  <2>1. CASE op[t] = "direct"
    BY BoundsAssumption, NoneAssumption, <1>0, <1>19, <2>1 DEF Execute,
       Goto, Outside, Left, runVars, dataVars, callVars, TypeOK,
       AllData, Runs, Holders, Pcs, Ops
  <2>2. CASE op[t] # "direct"
    <3>1. run[t] \in Runs
      BY BoundsAssumption, NoneAssumption, <1>0, <1>19, <2>2 DEF
         Execute, CallsAgree, CallAgrees, Inside, TypeOK, AllData,
         Runs, Holders, Pcs, Ops
    <3>2. applied[run[t]] \in 0..MaxSteps /\ applied[run[t]] < MaxSteps
      BY <1>0, <3>1, <1>19, <2>2 DEF Execute, TypeOK
    <3>3. applied[run[t]] + 1 \in 0..MaxSteps
      BY BoundsAssumption, <3>2
    <3>4. applied' \in [Runs -> 0..MaxSteps]
      BY <1>0, <3>1, <3>3, <1>19, <2>2 DEF Execute, TypeOK
    <3>5. data' \in AllData
      BY BoundsAssumption, <3>1, <3>3, <1>19, <2>2 DEF Execute, Left,
         AllData, Runs
    <3> QED
      BY <1>0, <3>4, <3>5, <1>19, <2>2 DEF Execute, Goto, runVars,
         callVars, TypeOK, Pcs
  <2> QED
    BY <2>1, <2>2
<1>20. ASSUME NEW t \in Threads, Emit(t)
      PROVE  TypeOK'
  BY BoundsAssumption, <1>0, <1>20 DEF Emit, Goto, runVars, dataVars,
     callVars, TypeOK, Pcs
<1>21. ASSUME NEW t \in Threads, Complete(t)
      PROVE  TypeOK'
  <2>1. active' \in 0..MaxRuns
    BY <1>0, <1>21, ReleaseType DEF Complete
  <2> QED
    BY BoundsAssumption, <1>0, <2>1, <1>21
       DEF Complete, Goto, dataVars, callVars, TypeOK, Pcs
<1>22. ASSUME NEW t \in Threads, StepThrows(t)
      PROVE  TypeOK'
  <2>1. Throw(t)
    BY <1>22 DEF StepThrows
  <2>2. UNCHANGED stopped
    BY <2>1 DEF Throw
  <2> QED
    BY <1>0, <2>1, ThrowType
<1>23. ASSUME NEW t \in Threads, ReturnPermit(t)
      PROVE  TypeOK'
  <2>1. permits # 0
    BY <1>0, <1>23, HolderCounted DEF ReturnPermit, Holding
  <2> QED
    BY BoundsAssumption, NoneAssumption, <1>0, <2>1, <1>23 DEF
       ReturnPermit, Goto, Return, runVars, dataVars, TypeOK, Pcs, Ops
<1>24. ASSUME NEW t \in Threads, Admit(t)
      PROVE  TypeOK'
  BY BoundsAssumption, <1>0, <1>24 DEF Admit, Goto, runVars, dataVars,
     callVars, TypeOK, Pcs
<1>25. ASSUME NEW t \in Threads, EnterRun(t)
      PROVE  TypeOK'
  BY BoundsAssumption, <1>0, <1>25 DEF EnterRun, Goto, CanGoOn, runVars,
     dataVars, callVars, TypeOK, Pcs
<1>26. ASSUME NEW t \in Threads, EnterRunStage(t)
      PROVE  TypeOK'
  <2>1. data' \in AllData
    BY BoundsAssumption, DataTypes, <1>0, <1>26 DEF EnterRunStage,
       BeginRun, NoActiveRun, Runs, TypeOK
  <2> QED
    BY BoundsAssumption, <1>0, <2>1, <1>26 DEF EnterRunStage, BeginRun,
       NoActiveRun, Runs, Goto, runVars, callVars, TypeOK, Pcs
<1>27. ASSUME NEW t \in Threads, RunStageFails(t)
      PROVE  TypeOK'
  <2>1. data' \in AllData
    BY BoundsAssumption, DataTypes, <1>0, <1>27 DEF RunStageFails,
       BeginFails, NoActiveRun, TypeOK
  <2> QED
    BY BoundsAssumption, <1>0, <2>1, <1>27 DEF RunStageFails,
       BeginFails, NoActiveRun, Goto, runVars, callVars, TypeOK, Pcs
<1>28. ASSUME NEW t \in Threads, EnterStepStage(t)
      PROVE  TypeOK'
  BY BoundsAssumption, <1>0, <1>28 DEF EnterStepStage, NoActiveRun, Goto,
     runVars, dataVars, callVars, TypeOK, Pcs
<1>29. ASSUME NEW t \in Threads, CloseFailed(t)
      PROVE  TypeOK'
  <2>1. active' \in 0..MaxRuns
    BY <1>0, <1>29, ReleaseType DEF CloseFailed
  <2>2. closed' \in [Runs -> BOOLEAN]
    BY <1>0, <1>29 DEF CloseFailed, TypeOK
  <2>3. /\ pc' \in [Threads -> Pcs]
        /\ op' \in [Threads -> Ops]
        /\ run' \in [Threads -> 0..MaxRuns]
    BY BoundsAssumption, NoneAssumption, <1>0, <1>29 DEF CloseFailed,
       Return, Goto, TypeOK, Pcs, Ops
  <2> QED
    BY <1>0, <2>1, <2>2, <2>3, <1>29 DEF CloseFailed, dataVars, TypeOK
<1>30. ASSUME NEW t \in Threads, NEW c \in Copies, ForkSnapshot(t, c)
      PROVE  TypeOK'
  <2>1. data' \in AllData /\ saved' \in [Holders -> AllData \cup {None}]
    BY <1>0, <1>30 DEF ForkSnapshot, Save, TypeOK
  <2>2. /\ pc' \in [Threads -> Pcs]
        /\ op' \in [Threads -> Ops]
        /\ run' \in [Threads -> 0..MaxRuns]
    BY BoundsAssumption, NoneAssumption, <1>0, <1>30 DEF ForkSnapshot,
       Return, Goto, TypeOK, Pcs, Ops
  <2> QED
    BY <1>0, <2>1, <2>2, <1>30 DEF ForkSnapshot, runVars, TypeOK
<1>31. ASSUME NEW r \in Runs, RequestCancellation(r)
      PROVE  TypeOK'
  BY BoundsAssumption, <1>0, <1>31 DEF RequestCancellation, runVars,
     dataVars, callVars, TypeOK, AllData, Runs, Holders, Pcs, Ops,
     CallsAgree, CallAgrees, Inside
<1>32. ASSUME UNCHANGED vars
      PROVE  TypeOK'
  BY BoundsAssumption, <1>0, <1>32 DEF vars, runVars, dataVars, callVars,
     TypeOK, AllData, Runs, Holders, Pcs, Ops, CallsAgree, CallAgrees,
     Inside
<1> QED
  BY <1>1, <1>2, <1>3, <1>4, <1>5, <1>6, <1>7, <1>8, <1>9, <1>10, <1>11,
     <1>12, <1>13, <1>14, <1>15, <1>16, <1>17, <1>18, <1>19, <1>20, <1>21,
     <1>22, <1>23, <1>24, <1>25, <1>26, <1>27, <1>28, <1>29, <1>30, <1>31,
     <1>32 DEF Next, Optional, Steps, Waits

(* Who is inside the mutex, and on which run.                              *)
LEMMA CallsStep == IInv /\ [Next]_vars => CallsAgree'
<1> SUFFICES ASSUME IInv, [Next]_vars
             PROVE  CallsAgree'
  OBVIOUS
<1>0. /\ TypeOK
      /\ CallsAgree
      /\ RunsAgree
  BY DEF IInv
<1>1. ASSUME NEW t \in Threads, NEW r \in Runs, StepCall(t, r)
      PROVE  CallsAgree'
  <2> SUFFICES ASSUME NEW u \in Threads
               PROVE  CallAgrees(u)'
    BY DEF CallsAgree
  <2>1. CASE u = t
    BY ThreadsAssumption, <1>0, <1>1, <2>1 DEF StepCall, Call, Goto,
       runVars, dataVars, callVars, TypeOK, AllData, Runs, Holders, Pcs,
       Ops, CallsAgree, CallAgrees, RunsAgree, Inside
  <2>2. CASE u # t
    BY ThreadsAssumption, <1>0, <1>1, <2>2 DEF StepCall, Call, Goto,
       runVars, dataVars, callVars, TypeOK, AllData, Runs, Holders, Pcs,
       Ops, CallsAgree, CallAgrees, RunsAgree, Inside
  <2> QED
    BY <2>1, <2>2
<1>2. ASSUME NEW t \in Threads, NEW r \in Runs, FinishCall(t, r)
      PROVE  CallsAgree'
  <2> SUFFICES ASSUME NEW u \in Threads
               PROVE  CallAgrees(u)'
    BY DEF CallsAgree
  <2>1. CASE u = t
    BY ThreadsAssumption, <1>0, <1>2, <2>1 DEF FinishCall, Call, Goto,
       runVars, dataVars, callVars, TypeOK, AllData, Runs, Holders, Pcs,
       Ops, CallsAgree, CallAgrees, RunsAgree, Inside
  <2>2. CASE u # t
    BY ThreadsAssumption, <1>0, <1>2, <2>2 DEF FinishCall, Call, Goto,
       runVars, dataVars, callVars, TypeOK, AllData, Runs, Holders, Pcs,
       Ops, CallsAgree, CallAgrees, RunsAgree, Inside
  <2> QED
    BY <2>1, <2>2
<1>3. ASSUME NEW t \in Threads, NEW r \in Runs, Cancel(t, r)
      PROVE  CallsAgree'
  <2> SUFFICES ASSUME NEW u \in Threads
               PROVE  CallAgrees(u)'
    BY DEF CallsAgree
  <2>1. CASE u = t
    BY ThreadsAssumption, <1>0, <1>3, <2>1 DEF Cancel, ReleaseSlot,
       runVars, dataVars, callVars, TypeOK, AllData, Runs, Holders, Pcs,
       Ops, CallsAgree, CallAgrees, RunsAgree, Inside
  <2>2. CASE u # t
    BY ThreadsAssumption, <1>0, <1>3, <2>2 DEF Cancel, ReleaseSlot,
       runVars, dataVars, callVars, TypeOK, AllData, Runs, Holders, Pcs,
       Ops, CallsAgree, CallAgrees, RunsAgree, Inside
  <2> QED
    BY <2>1, <2>2
<1>4. ASSUME NEW t \in Threads, NEW r \in Runs, Destroy(t, r)
      PROVE  CallsAgree'
  <2> SUFFICES ASSUME NEW u \in Threads
               PROVE  CallAgrees(u)'
    BY DEF CallsAgree
  <2>1. CASE u = t
    BY ThreadsAssumption, <1>0, <1>4, <2>1 DEF Destroy, ReleaseSlot,
       runVars, dataVars, callVars, TypeOK, AllData, Runs, Holders, Pcs,
       Ops, CallsAgree, CallAgrees, RunsAgree, Inside
  <2>2. CASE u # t
    BY ThreadsAssumption, <1>0, <1>4, <2>2 DEF Destroy, ReleaseSlot,
       runVars, dataVars, callVars, TypeOK, AllData, Runs, Holders, Pcs,
       Ops, CallsAgree, CallAgrees, RunsAgree, Inside
  <2> QED
    BY <2>1, <2>2
<1>5. ASSUME NEW t \in Threads, NEW n \in Names, Checkpoint(t, n)
      PROVE  CallsAgree'
  <2> SUFFICES ASSUME NEW u \in Threads
               PROVE  CallAgrees(u)'
    BY DEF CallsAgree
  <2>1. CASE u = t
    BY ThreadsAssumption, <1>0, <1>5, <2>1 DEF Checkpoint, Between,
       NoActiveRun, Save, runVars, dataVars, callVars, TypeOK, AllData,
       Runs, Holders, Pcs, Ops, CallsAgree, CallAgrees, RunsAgree,
       Inside
  <2>2. CASE u # t
    BY ThreadsAssumption, <1>0, <1>5, <2>2 DEF Checkpoint, Between,
       NoActiveRun, Save, runVars, dataVars, callVars, TypeOK, AllData,
       Runs, Holders, Pcs, Ops, CallsAgree, CallAgrees, RunsAgree,
       Inside
  <2> QED
    BY <2>1, <2>2
<1>6. ASSUME NEW t \in Threads, NEW n \in Names, DropCheckpoint(t, n)
      PROVE  CallsAgree'
  <2> SUFFICES ASSUME NEW u \in Threads
               PROVE  CallAgrees(u)'
    BY DEF CallsAgree
  <2>1. CASE u = t
    BY ThreadsAssumption, <1>0, <1>6, <2>1 DEF DropCheckpoint, Between,
       NoActiveRun, runVars, dataVars, callVars, TypeOK, AllData, Runs,
       Holders, Pcs, Ops, CallsAgree, CallAgrees, RunsAgree, Inside
  <2>2. CASE u # t
    BY ThreadsAssumption, <1>0, <1>6, <2>2 DEF DropCheckpoint, Between,
       NoActiveRun, runVars, dataVars, callVars, TypeOK, AllData, Runs,
       Holders, Pcs, Ops, CallsAgree, CallAgrees, RunsAgree, Inside
  <2> QED
    BY <2>1, <2>2
<1>7. ASSUME NEW t \in Threads, NEW h \in Holders, Restore(t, h)
      PROVE  CallsAgree'
  <2> SUFFICES ASSUME NEW u \in Threads
               PROVE  CallAgrees(u)'
    BY DEF CallsAgree
  <2>1. CASE u = t
    BY ThreadsAssumption, <1>0, <1>7, <2>1 DEF Restore, Between,
       NoActiveRun, runVars, dataVars, callVars, TypeOK, AllData, Runs,
       Holders, Pcs, Ops, CallsAgree, CallAgrees, RunsAgree, Inside
  <2>2. CASE u # t
    BY ThreadsAssumption, <1>0, <1>7, <2>2 DEF Restore, Between,
       NoActiveRun, runVars, dataVars, callVars, TypeOK, AllData, Runs,
       Holders, Pcs, Ops, CallsAgree, CallAgrees, RunsAgree, Inside
  <2> QED
    BY <2>1, <2>2
<1>8. ASSUME NEW t \in Threads, RunStageCall(t)
      PROVE  CallsAgree'
  <2> SUFFICES ASSUME NEW u \in Threads
               PROVE  CallAgrees(u)'
    BY DEF CallsAgree
  <2>1. CASE u = t
    BY ThreadsAssumption, <1>0, <1>8, <2>1 DEF RunStageCall, Call, Goto,
       runVars, dataVars, callVars, TypeOK, AllData, Runs, Holders, Pcs,
       Ops, CallsAgree, CallAgrees, RunsAgree, Inside
  <2>2. CASE u # t
    BY ThreadsAssumption, <1>0, <1>8, <2>2 DEF RunStageCall, Call, Goto,
       runVars, dataVars, callVars, TypeOK, AllData, Runs, Holders, Pcs,
       Ops, CallsAgree, CallAgrees, RunsAgree, Inside
  <2> QED
    BY <2>1, <2>2
<1>9. ASSUME NEW t \in Threads, StepStageCall(t)
      PROVE  CallsAgree'
  <2> SUFFICES ASSUME NEW u \in Threads
               PROVE  CallAgrees(u)'
    BY DEF CallsAgree
  <2>1. CASE u = t
    BY ThreadsAssumption, <1>0, <1>9, <2>1 DEF StepStageCall, Call,
       Goto, runVars, dataVars, callVars, TypeOK, AllData, Runs,
       Holders, Pcs, Ops, CallsAgree, CallAgrees, RunsAgree, Inside
  <2>2. CASE u # t
    BY ThreadsAssumption, <1>0, <1>9, <2>2 DEF StepStageCall, Call,
       Goto, runVars, dataVars, callVars, TypeOK, AllData, Runs,
       Holders, Pcs, Ops, CallsAgree, CallAgrees, RunsAgree, Inside
  <2> QED
    BY <2>1, <2>2
<1>10. ASSUME NEW t \in Threads, BeginStage(t)
      PROVE  CallsAgree'
  <2> SUFFICES ASSUME NEW u \in Threads
               PROVE  CallAgrees(u)'
    BY DEF CallsAgree
  <2>1. CASE u = t
    BY ThreadsAssumption, <1>0, <1>10, <2>1 DEF BeginStage, BeginRun,
       NoActiveRun, Left, runVars, dataVars, callVars, TypeOK, AllData,
       Runs, Holders, Pcs, Ops, CallsAgree, CallAgrees, RunsAgree,
       Inside
  <2>2. CASE u # t
    BY ThreadsAssumption, <1>0, <1>10, <2>2 DEF BeginStage, BeginRun,
       NoActiveRun, Left, runVars, dataVars, callVars, TypeOK, AllData,
       Runs, Holders, Pcs, Ops, CallsAgree, CallAgrees, RunsAgree,
       Inside
  <2> QED
    BY <2>1, <2>2
<1>11. ASSUME NEW t \in Threads, BeginStageFails(t)
      PROVE  CallsAgree'
  <2> SUFFICES ASSUME NEW u \in Threads
               PROVE  CallAgrees(u)'
    BY DEF CallsAgree
  <2>1. CASE u = t
    BY ThreadsAssumption, <1>0, <1>11, <2>1 DEF BeginStageFails,
       BeginFails, NoActiveRun, Outside, Left, runVars, dataVars,
       callVars, TypeOK, AllData, Runs, Holders, Pcs, Ops, CallsAgree,
       CallAgrees, RunsAgree, Inside
  <2>2. CASE u # t
    BY ThreadsAssumption, <1>0, <1>11, <2>2 DEF BeginStageFails,
       BeginFails, NoActiveRun, Outside, Left, runVars, dataVars,
       callVars, TypeOK, AllData, Runs, Holders, Pcs, Ops, CallsAgree,
       CallAgrees, RunsAgree, Inside
  <2> QED
    BY <2>1, <2>2
<1>12. ASSUME NEW t \in Threads, NEW c \in Copies, Snapshot(t, c)
      PROVE  CallsAgree'
  <2> SUFFICES ASSUME NEW u \in Threads
               PROVE  CallAgrees(u)'
    BY DEF CallsAgree
  <2>1. CASE u = t
    BY ThreadsAssumption, <1>0, <1>12, <2>1 DEF Snapshot, Between,
       NoActiveRun, Save, runVars, dataVars, callVars, TypeOK, AllData,
       Runs, Holders, Pcs, Ops, CallsAgree, CallAgrees, RunsAgree,
       Inside
  <2>2. CASE u # t
    BY ThreadsAssumption, <1>0, <1>12, <2>2 DEF Snapshot, Between,
       NoActiveRun, Save, runVars, dataVars, callVars, TypeOK, AllData,
       Runs, Holders, Pcs, Ops, CallsAgree, CallAgrees, RunsAgree,
       Inside
  <2> QED
    BY <2>1, <2>2
<1>13. ASSUME NEW t \in Threads, Reset(t)
      PROVE  CallsAgree'
  <2> SUFFICES ASSUME NEW u \in Threads
               PROVE  CallAgrees(u)'
    BY DEF CallsAgree
  <2>1. CASE u = t
    BY ThreadsAssumption, <1>0, <1>13, <2>1 DEF Reset, Between,
       NoActiveRun, Fresh, Left, runVars, dataVars, callVars, TypeOK,
       AllData, Runs, Holders, Pcs, Ops, CallsAgree, CallAgrees,
       RunsAgree, Inside
  <2>2. CASE u # t
    BY ThreadsAssumption, <1>0, <1>13, <2>2 DEF Reset, Between,
       NoActiveRun, Fresh, Left, runVars, dataVars, callVars, TypeOK,
       AllData, Runs, Holders, Pcs, Ops, CallsAgree, CallAgrees,
       RunsAgree, Inside
  <2> QED
    BY <2>1, <2>2
<1>14. ASSUME NEW t \in Threads, ReleaseStage(t)
      PROVE  CallsAgree'
  <2> SUFFICES ASSUME NEW u \in Threads
               PROVE  CallAgrees(u)'
    BY DEF CallsAgree
  <2>1. CASE u = t
    BY ThreadsAssumption, <1>0, <1>14, <2>1 DEF ReleaseStage, Between,
       NoActiveRun, Outside, Left, runVars, dataVars, callVars, TypeOK,
       AllData, Runs, Holders, Pcs, Ops, CallsAgree, CallAgrees,
       RunsAgree, Inside
  <2>2. CASE u # t
    BY ThreadsAssumption, <1>0, <1>14, <2>2 DEF ReleaseStage, Between,
       NoActiveRun, Outside, Left, runVars, dataVars, callVars, TypeOK,
       AllData, Runs, Holders, Pcs, Ops, CallsAgree, CallAgrees,
       RunsAgree, Inside
  <2> QED
    BY <2>1, <2>2
<1>15. ASSUME NEW t \in Threads, Fork(t)
      PROVE  CallsAgree'
  <2> SUFFICES ASSUME NEW u \in Threads
               PROVE  CallAgrees(u)'
    BY DEF CallsAgree
  <2>1. CASE u = t
    BY ThreadsAssumption, <1>0, <1>15, <2>1 DEF Fork, NoActiveRun, Call,
       Goto, runVars, dataVars, callVars, TypeOK, AllData, Runs,
       Holders, Pcs, Ops, CallsAgree, CallAgrees, RunsAgree, Inside
  <2>2. CASE u # t
    BY ThreadsAssumption, <1>0, <1>15, <2>2 DEF Fork, NoActiveRun, Call,
       Goto, runVars, dataVars, callVars, TypeOK, AllData, Runs,
       Holders, Pcs, Ops, CallsAgree, CallAgrees, RunsAgree, Inside
  <2> QED
    BY <2>1, <2>2
<1>16. ASSUME NEW t \in Threads, AdmissionThrows(t)
      PROVE  CallsAgree'
  <2> SUFFICES ASSUME NEW u \in Threads
               PROVE  CallAgrees(u)'
    BY DEF CallsAgree
  <2>1. CASE u = t
    BY ThreadsAssumption, <1>0, <1>16, <2>1 DEF AdmissionThrows, Goto,
       Return, runVars, dataVars, callVars, TypeOK, AllData, Runs,
       Holders, Pcs, Ops, CallsAgree, CallAgrees, RunsAgree, Inside
  <2>2. CASE u # t
    BY ThreadsAssumption, <1>0, <1>16, <2>2 DEF AdmissionThrows, Goto,
       Return, runVars, dataVars, callVars, TypeOK, AllData, Runs,
       Holders, Pcs, Ops, CallsAgree, CallAgrees, RunsAgree, Inside
  <2> QED
    BY <2>1, <2>2
<1>17. ASSUME NEW t \in Threads, Poll(t)
      PROVE  CallsAgree'
  <2> SUFFICES ASSUME NEW u \in Threads
               PROVE  CallAgrees(u)'
    BY DEF CallsAgree
  <2>1. CASE u = t
    BY ThreadsAssumption, <1>0, <1>17, <2>1 DEF Poll, Goto, runVars,
       dataVars, callVars, TypeOK, AllData, Runs, Holders, Pcs, Ops,
       CallsAgree, CallAgrees, RunsAgree, Inside
  <2>2. CASE u # t
    BY ThreadsAssumption, <1>0, <1>17, <2>2 DEF Poll, Goto, runVars,
       dataVars, callVars, TypeOK, AllData, Runs, Holders, Pcs, Ops,
       CallsAgree, CallAgrees, RunsAgree, Inside
  <2> QED
    BY <2>1, <2>2
<1>18. ASSUME NEW t \in Threads, PollThrows(t)
      PROVE  CallsAgree'
  <2> SUFFICES ASSUME NEW u \in Threads
               PROVE  CallAgrees(u)'
    BY DEF CallsAgree
  <2>1. CASE u = t
    BY ThreadsAssumption, <1>0, <1>18, <2>1 DEF PollThrows, Throw,
       ReleaseSlot, Goto, runVars, dataVars, callVars, TypeOK, AllData,
       Runs, Holders, Pcs, Ops, CallsAgree, CallAgrees, RunsAgree,
       Inside
  <2>2. CASE u # t
    BY ThreadsAssumption, <1>0, <1>18, <2>2 DEF PollThrows, Throw,
       ReleaseSlot, Goto, runVars, dataVars, callVars, TypeOK, AllData,
       Runs, Holders, Pcs, Ops, CallsAgree, CallAgrees, RunsAgree,
       Inside
  <2> QED
    BY <2>1, <2>2
<1>19. ASSUME NEW t \in Threads, Execute(t)
      PROVE  CallsAgree'
  <2> SUFFICES ASSUME NEW u \in Threads
               PROVE  CallAgrees(u)'
    BY DEF CallsAgree
  <2>1. CASE u = t
    BY ThreadsAssumption, <1>0, <1>19, <2>1 DEF Execute, Goto, Outside,
       Left, runVars, dataVars, callVars, TypeOK, AllData, Runs,
       Holders, Pcs, Ops, CallsAgree, CallAgrees, RunsAgree, Inside
  <2>2. CASE u # t
    BY ThreadsAssumption, <1>0, <1>19, <2>2 DEF Execute, Goto, Outside,
       Left, runVars, dataVars, callVars, TypeOK, AllData, Runs,
       Holders, Pcs, Ops, CallsAgree, CallAgrees, RunsAgree, Inside
  <2> QED
    BY <2>1, <2>2
<1>20. ASSUME NEW t \in Threads, Emit(t)
      PROVE  CallsAgree'
  <2> SUFFICES ASSUME NEW u \in Threads
               PROVE  CallAgrees(u)'
    BY DEF CallsAgree
  <2>1. CASE u = t
    BY ThreadsAssumption, <1>0, <1>20, <2>1 DEF Emit, Goto, runVars,
       dataVars, callVars, TypeOK, AllData, Runs, Holders, Pcs, Ops,
       CallsAgree, CallAgrees, RunsAgree, Inside
  <2>2. CASE u # t
    BY ThreadsAssumption, <1>0, <1>20, <2>2 DEF Emit, Goto, runVars,
       dataVars, callVars, TypeOK, AllData, Runs, Holders, Pcs, Ops,
       CallsAgree, CallAgrees, RunsAgree, Inside
  <2> QED
    BY <2>1, <2>2
<1>21. ASSUME NEW t \in Threads, Complete(t)
      PROVE  CallsAgree'
  <2> SUFFICES ASSUME NEW u \in Threads
               PROVE  CallAgrees(u)'
    BY DEF CallsAgree
  <2>1. CASE u = t
    BY ThreadsAssumption, <1>0, <1>21, <2>1 DEF Complete, ReleaseSlot,
       Goto, runVars, dataVars, callVars, TypeOK, AllData, Runs,
       Holders, Pcs, Ops, CallsAgree, CallAgrees, RunsAgree, Inside
  <2>2. CASE u # t
    BY ThreadsAssumption, <1>0, <1>21, <2>2 DEF Complete, ReleaseSlot,
       Goto, runVars, dataVars, callVars, TypeOK, AllData, Runs,
       Holders, Pcs, Ops, CallsAgree, CallAgrees, RunsAgree, Inside
  <2> QED
    BY <2>1, <2>2
<1>22. ASSUME NEW t \in Threads, StepThrows(t)
      PROVE  CallsAgree'
  <2> SUFFICES ASSUME NEW u \in Threads
               PROVE  CallAgrees(u)'
    BY DEF CallsAgree
  <2>1. CASE u = t
    BY ThreadsAssumption, <1>0, <1>22, <2>1 DEF StepThrows, Throw,
       ReleaseSlot, Goto, runVars, dataVars, callVars, TypeOK, AllData,
       Runs, Holders, Pcs, Ops, CallsAgree, CallAgrees, RunsAgree,
       Inside
  <2>2. CASE u # t
    BY ThreadsAssumption, <1>0, <1>22, <2>2 DEF StepThrows, Throw,
       ReleaseSlot, Goto, runVars, dataVars, callVars, TypeOK, AllData,
       Runs, Holders, Pcs, Ops, CallsAgree, CallAgrees, RunsAgree,
       Inside
  <2> QED
    BY <2>1, <2>2
<1>23. ASSUME NEW t \in Threads, ReturnPermit(t)
      PROVE  CallsAgree'
  <2> SUFFICES ASSUME NEW u \in Threads
               PROVE  CallAgrees(u)'
    BY DEF CallsAgree
  <2>1. CASE u = t
    BY ThreadsAssumption, <1>0, <1>23, <2>1 DEF ReturnPermit, Goto,
       Return, runVars, dataVars, callVars, TypeOK, AllData, Runs,
       Holders, Pcs, Ops, CallsAgree, CallAgrees, RunsAgree, Inside
  <2>2. CASE u # t
    BY ThreadsAssumption, <1>0, <1>23, <2>2 DEF ReturnPermit, Goto,
       Return, runVars, dataVars, callVars, TypeOK, AllData, Runs,
       Holders, Pcs, Ops, CallsAgree, CallAgrees, RunsAgree, Inside
  <2> QED
    BY <2>1, <2>2
<1>24. ASSUME NEW t \in Threads, Admit(t)
      PROVE  CallsAgree'
  <2> SUFFICES ASSUME NEW u \in Threads
               PROVE  CallAgrees(u)'
    BY DEF CallsAgree
  <2>1. CASE u = t
    BY ThreadsAssumption, <1>0, <1>24, <2>1 DEF Admit, Goto, runVars,
       dataVars, callVars, TypeOK, AllData, Runs, Holders, Pcs, Ops,
       CallsAgree, CallAgrees, RunsAgree, Inside
  <2>2. CASE u # t
    BY ThreadsAssumption, <1>0, <1>24, <2>2 DEF Admit, Goto, runVars,
       dataVars, callVars, TypeOK, AllData, Runs, Holders, Pcs, Ops,
       CallsAgree, CallAgrees, RunsAgree, Inside
  <2> QED
    BY <2>1, <2>2
<1>25. ASSUME NEW t \in Threads, EnterRun(t)
      PROVE  CallsAgree'
  <2> SUFFICES ASSUME NEW u \in Threads
               PROVE  CallAgrees(u)'
    BY DEF CallsAgree
  <2>1. CASE u = t
    BY ThreadsAssumption, <1>0, <1>25, <2>1 DEF EnterRun, Goto, CanGoOn,
       runVars, dataVars, callVars, TypeOK, AllData, Runs, Holders, Pcs,
       Ops, CallsAgree, CallAgrees, RunsAgree, Inside
  <2>2. CASE u # t
    BY ThreadsAssumption, <1>0, <1>25, <2>2 DEF EnterRun, Goto, CanGoOn,
       runVars, dataVars, callVars, TypeOK, AllData, Runs, Holders, Pcs,
       Ops, CallsAgree, CallAgrees, RunsAgree, Inside
  <2> QED
    BY <2>1, <2>2
<1>26. ASSUME NEW t \in Threads, EnterRunStage(t)
      PROVE  CallsAgree'
  <2> SUFFICES ASSUME NEW u \in Threads
               PROVE  CallAgrees(u)'
    BY DEF CallsAgree
  <2>1. CASE u = t
    BY ThreadsAssumption, <1>0, <1>26, <2>1 DEF EnterRunStage, BeginRun,
       NoActiveRun, Left, Goto, runVars, dataVars, callVars, TypeOK,
       AllData, Runs, Holders, Pcs, Ops, CallsAgree, CallAgrees,
       RunsAgree, Inside
  <2>2. CASE u # t
    BY ThreadsAssumption, <1>0, <1>26, <2>2 DEF EnterRunStage, BeginRun,
       NoActiveRun, Left, Goto, runVars, dataVars, callVars, TypeOK,
       AllData, Runs, Holders, Pcs, Ops, CallsAgree, CallAgrees,
       RunsAgree, Inside
  <2> QED
    BY <2>1, <2>2
<1>27. ASSUME NEW t \in Threads, RunStageFails(t)
      PROVE  CallsAgree'
  <2> SUFFICES ASSUME NEW u \in Threads
               PROVE  CallAgrees(u)'
    BY DEF CallsAgree
  <2>1. CASE u = t
    BY ThreadsAssumption, <1>0, <1>27, <2>1 DEF RunStageFails,
       BeginFails, NoActiveRun, Outside, Left, Goto, runVars, dataVars,
       callVars, TypeOK, AllData, Runs, Holders, Pcs, Ops, CallsAgree,
       CallAgrees, RunsAgree, Inside
  <2>2. CASE u # t
    BY ThreadsAssumption, <1>0, <1>27, <2>2 DEF RunStageFails,
       BeginFails, NoActiveRun, Outside, Left, Goto, runVars, dataVars,
       callVars, TypeOK, AllData, Runs, Holders, Pcs, Ops, CallsAgree,
       CallAgrees, RunsAgree, Inside
  <2> QED
    BY <2>1, <2>2
<1>28. ASSUME NEW t \in Threads, EnterStepStage(t)
      PROVE  CallsAgree'
  <2> SUFFICES ASSUME NEW u \in Threads
               PROVE  CallAgrees(u)'
    BY DEF CallsAgree
  <2>1. CASE u = t
    BY ThreadsAssumption, <1>0, <1>28, <2>1 DEF EnterStepStage,
       NoActiveRun, Goto, runVars, dataVars, callVars, TypeOK, AllData,
       Runs, Holders, Pcs, Ops, CallsAgree, CallAgrees, RunsAgree,
       Inside
  <2>2. CASE u # t
    BY ThreadsAssumption, <1>0, <1>28, <2>2 DEF EnterStepStage,
       NoActiveRun, Goto, runVars, dataVars, callVars, TypeOK, AllData,
       Runs, Holders, Pcs, Ops, CallsAgree, CallAgrees, RunsAgree,
       Inside
  <2> QED
    BY <2>1, <2>2
<1>29. ASSUME NEW t \in Threads, CloseFailed(t)
      PROVE  CallsAgree'
  <2> SUFFICES ASSUME NEW u \in Threads
               PROVE  CallAgrees(u)'
    BY DEF CallsAgree
  <2>1. CASE u = t
    BY ThreadsAssumption, <1>0, <1>29, <2>1 DEF CloseFailed,
       ReleaseSlot, Return, Goto, runVars, dataVars, callVars, TypeOK,
       AllData, Runs, Holders, Pcs, Ops, CallsAgree, CallAgrees,
       RunsAgree, Inside
  <2>2. CASE u # t
    BY ThreadsAssumption, <1>0, <1>29, <2>2 DEF CloseFailed,
       ReleaseSlot, Return, Goto, runVars, dataVars, callVars, TypeOK,
       AllData, Runs, Holders, Pcs, Ops, CallsAgree, CallAgrees,
       RunsAgree, Inside
  <2> QED
    BY <2>1, <2>2
<1>30. ASSUME NEW t \in Threads, NEW c \in Copies, ForkSnapshot(t, c)
      PROVE  CallsAgree'
  <2> SUFFICES ASSUME NEW u \in Threads
               PROVE  CallAgrees(u)'
    BY DEF CallsAgree
  <2>1. CASE u = t
    BY ThreadsAssumption, <1>0, <1>30, <2>1 DEF ForkSnapshot,
       NoActiveRun, Save, Return, Goto, runVars, dataVars, callVars,
       TypeOK, AllData, Runs, Holders, Pcs, Ops, CallsAgree, CallAgrees,
       RunsAgree, Inside
  <2>2. CASE u # t
    BY ThreadsAssumption, <1>0, <1>30, <2>2 DEF ForkSnapshot,
       NoActiveRun, Save, Return, Goto, runVars, dataVars, callVars,
       TypeOK, AllData, Runs, Holders, Pcs, Ops, CallsAgree, CallAgrees,
       RunsAgree, Inside
  <2> QED
    BY <2>1, <2>2
<1>31. ASSUME NEW r \in Runs, RequestCancellation(r)
      PROVE  CallsAgree'
  BY ThreadsAssumption, <1>0, <1>31 DEF RequestCancellation, runVars,
     dataVars, callVars, TypeOK, AllData, Runs, Holders, Pcs, Ops,
     CallsAgree, CallAgrees, RunsAgree, Inside
<1>32. ASSUME UNCHANGED vars
      PROVE  CallsAgree'
  BY ThreadsAssumption, <1>0, <1>32 DEF vars, runVars, dataVars, callVars,
     TypeOK, AllData, Runs, Holders, Pcs, Ops, CallsAgree, CallAgrees,
     RunsAgree, Inside
<1> QED
  BY <1>1, <1>2, <1>3, <1>4, <1>5, <1>6, <1>7, <1>8, <1>9, <1>10, <1>11,
     <1>12, <1>13, <1>14, <1>15, <1>16, <1>17, <1>18, <1>19, <1>20, <1>21,
     <1>22, <1>23, <1>24, <1>25, <1>26, <1>27, <1>28, <1>29, <1>30, <1>31,
     <1>32 DEF Next, Optional, Steps, Waits

(* The data belong to a run that was begun.                                *)
LEMMA RunsStep == IInv /\ [Next]_vars => RunsAgree'
<1> SUFFICES ASSUME IInv, [Next]_vars
             PROVE  RunsAgree'
  OBVIOUS
<1>0. /\ TypeOK
      /\ CallsAgree
      /\ RunsAgree
      /\ OpenRunHasSlot
      /\ SavedDataAreWhole
  BY DEF IInv
<1>1. ASSUME NEW t \in Threads, NEW r \in Runs, StepCall(t, r)
      PROVE  RunsAgree'
  BY <1>0, <1>1 DEF StepCall, Call, Goto, runVars, dataVars, callVars,
     TypeOK, AllData, Runs, Holders, CallsAgree, CallAgrees, RunsAgree,
     Inside, Ended, OpenRunHasSlot, SavedDataAreWhole, Whole
<1>2. ASSUME NEW t \in Threads, NEW r \in Runs, FinishCall(t, r)
      PROVE  RunsAgree'
  BY <1>0, <1>2 DEF FinishCall, Call, Goto, runVars, dataVars, callVars,
     TypeOK, AllData, Runs, Holders, CallsAgree, CallAgrees, RunsAgree,
     Inside, Ended, OpenRunHasSlot, SavedDataAreWhole, Whole
<1>3. ASSUME NEW t \in Threads, NEW r \in Runs, Cancel(t, r)
      PROVE  RunsAgree'
  BY <1>0, <1>3 DEF Cancel, ReleaseSlot, runVars, dataVars, callVars,
     TypeOK, AllData, Runs, Holders, CallsAgree, CallAgrees, RunsAgree,
     Inside, Ended, OpenRunHasSlot, SavedDataAreWhole, Whole
<1>4. ASSUME NEW t \in Threads, NEW r \in Runs, Destroy(t, r)
      PROVE  RunsAgree'
  BY <1>0, <1>4 DEF Destroy, ReleaseSlot, runVars, dataVars, callVars,
     TypeOK, AllData, Runs, Holders, CallsAgree, CallAgrees, RunsAgree,
     Inside, Ended, OpenRunHasSlot, SavedDataAreWhole, Whole
<1>5. ASSUME NEW t \in Threads, NEW n \in Names, Checkpoint(t, n)
      PROVE  RunsAgree'
  BY <1>0, <1>5 DEF Checkpoint, Between, NoActiveRun, Save, runVars,
     dataVars, callVars, TypeOK, AllData, Runs, Holders, CallsAgree,
     CallAgrees, RunsAgree, Inside, Ended, OpenRunHasSlot,
     SavedDataAreWhole, Whole
<1>6. ASSUME NEW t \in Threads, NEW n \in Names, DropCheckpoint(t, n)
      PROVE  RunsAgree'
  BY <1>0, <1>6 DEF DropCheckpoint, Between, NoActiveRun, runVars,
     dataVars, callVars, TypeOK, AllData, Runs, Holders, CallsAgree,
     CallAgrees, RunsAgree, Inside, Ended, OpenRunHasSlot,
     SavedDataAreWhole, Whole
<1>7. ASSUME NEW t \in Threads, NEW h \in Holders, Restore(t, h)
      PROVE  RunsAgree'
  BY <1>0, <1>7 DEF Restore, Between, NoActiveRun, runVars, dataVars,
     callVars, TypeOK, AllData, Runs, Holders, CallsAgree, CallAgrees,
     RunsAgree, Inside, Ended, OpenRunHasSlot, SavedDataAreWhole, Whole
<1>8. ASSUME NEW t \in Threads, RunStageCall(t)
      PROVE  RunsAgree'
  BY <1>0, <1>8 DEF RunStageCall, Call, Goto, runVars, dataVars, callVars,
     TypeOK, AllData, Runs, Holders, CallsAgree, CallAgrees, RunsAgree,
     Inside, Ended, OpenRunHasSlot, SavedDataAreWhole, Whole
<1>9. ASSUME NEW t \in Threads, StepStageCall(t)
      PROVE  RunsAgree'
  BY <1>0, <1>9 DEF StepStageCall, Call, Goto, runVars, dataVars,
     callVars, TypeOK, AllData, Runs, Holders, CallsAgree, CallAgrees,
     RunsAgree, Inside, Ended, OpenRunHasSlot, SavedDataAreWhole, Whole
<1>10. ASSUME NEW t \in Threads, BeginStage(t)
      PROVE  RunsAgree'
  BY <1>0, <1>10 DEF BeginStage, BeginRun, NoActiveRun, Left, runVars,
     dataVars, callVars, TypeOK, AllData, Runs, Holders, CallsAgree,
     CallAgrees, RunsAgree, Inside, Ended, OpenRunHasSlot,
     SavedDataAreWhole, Whole
<1>11. ASSUME NEW t \in Threads, BeginStageFails(t)
      PROVE  RunsAgree'
  BY <1>0, <1>11 DEF BeginStageFails, BeginFails, NoActiveRun, Outside,
     Left, runVars, dataVars, callVars, TypeOK, AllData, Runs, Holders,
     CallsAgree, CallAgrees, RunsAgree, Inside, Ended, OpenRunHasSlot,
     SavedDataAreWhole, Whole
<1>12. ASSUME NEW t \in Threads, NEW c \in Copies, Snapshot(t, c)
      PROVE  RunsAgree'
  BY <1>0, <1>12 DEF Snapshot, Between, NoActiveRun, Save, runVars,
     dataVars, callVars, TypeOK, AllData, Runs, Holders, CallsAgree,
     CallAgrees, RunsAgree, Inside, Ended, OpenRunHasSlot,
     SavedDataAreWhole, Whole
<1>13. ASSUME NEW t \in Threads, Reset(t)
      PROVE  RunsAgree'
  BY <1>0, <1>13 DEF Reset, Between, NoActiveRun, Fresh, Left, runVars,
     dataVars, callVars, TypeOK, AllData, Runs, Holders, CallsAgree,
     CallAgrees, RunsAgree, Inside, Ended, OpenRunHasSlot,
     SavedDataAreWhole, Whole
<1>14. ASSUME NEW t \in Threads, ReleaseStage(t)
      PROVE  RunsAgree'
  BY <1>0, <1>14 DEF ReleaseStage, Between, NoActiveRun, Outside, Left,
     runVars, dataVars, callVars, TypeOK, AllData, Runs, Holders,
     CallsAgree, CallAgrees, RunsAgree, Inside, Ended, OpenRunHasSlot,
     SavedDataAreWhole, Whole
<1>15. ASSUME NEW t \in Threads, Fork(t)
      PROVE  RunsAgree'
  BY <1>0, <1>15 DEF Fork, NoActiveRun, Call, Goto, runVars, dataVars,
     callVars, TypeOK, AllData, Runs, Holders, CallsAgree, CallAgrees,
     RunsAgree, Inside, Ended, OpenRunHasSlot, SavedDataAreWhole, Whole
<1>16. ASSUME NEW t \in Threads, AdmissionThrows(t)
      PROVE  RunsAgree'
  BY <1>0, <1>16 DEF AdmissionThrows, Goto, Return, runVars, dataVars,
     callVars, TypeOK, AllData, Runs, Holders, CallsAgree, CallAgrees,
     RunsAgree, Inside, Ended, OpenRunHasSlot, SavedDataAreWhole, Whole
<1>17. ASSUME NEW t \in Threads, Poll(t)
      PROVE  RunsAgree'
  BY <1>0, <1>17 DEF Poll, Goto, runVars, dataVars, callVars, TypeOK,
     AllData, Runs, Holders, CallsAgree, CallAgrees, RunsAgree, Inside,
     Ended, OpenRunHasSlot, SavedDataAreWhole, Whole
<1>18. ASSUME NEW t \in Threads, PollThrows(t)
      PROVE  RunsAgree'
  <2>1. Throw(t) /\ pc[t] \in Inside
    BY <1>18 DEF PollThrows, Inside, Throw
  <2> QED
    BY <1>0, <2>1, ThrowRuns
<1>19. ASSUME NEW t \in Threads, Execute(t)
      PROVE  RunsAgree'
  <2>1. CASE op[t] = "direct"
    BY <1>0, <1>19, <2>1 DEF Execute, Outside, Left, runVars, TypeOK,
       RunsAgree, Ended
  <2>2. CASE op[t] # "direct"
    <3>1. run[t] \in Runs /\ active = run[t]
      BY BoundsAssumption, <1>0, <1>19, <2>2 DEF Execute, CallsAgree,
         CallAgrees,
         Inside, TypeOK, Runs
    <3>2. run[t] < nextRun
      BY <1>0, <3>1 DEF OpenRunHasSlot
    <3>3. data'.run = run[t] /\ data'.at = applied'[run[t]]
      BY <1>0, <3>1, <1>19, <2>2 DEF Execute, Left, TypeOK
    <3>4. \A r \in Runs : r >= nextRun => applied'[r] = applied[r]
      <4> SUFFICES ASSUME NEW r \in Runs, r >= nextRun
                   PROVE  applied'[r] = applied[r]
        OBVIOUS
      <4>1. r # run[t]
        BY <1>0, <3>1, <3>2, BoundsAssumption DEF TypeOK, Runs
      <4> QED
        BY <1>0, <3>1, <4>1, <1>19, <2>2 DEF Execute, TypeOK
    <3> QED
      BY <1>0, <3>1, <3>2, <3>3, <3>4, <1>19 DEF Execute, runVars,
         RunsAgree, Ended
  <2> QED
    BY <2>1, <2>2
<1>20. ASSUME NEW t \in Threads, Emit(t)
      PROVE  RunsAgree'
  BY <1>0, <1>20 DEF Emit, Goto, runVars, dataVars, callVars, TypeOK,
     AllData, Runs, Holders, CallsAgree, CallAgrees, RunsAgree, Inside,
     Ended, OpenRunHasSlot, SavedDataAreWhole, Whole
<1>21. ASSUME NEW t \in Threads, Complete(t)
      PROVE  RunsAgree'
  BY <1>0, <1>21 DEF Complete, ReleaseSlot, Goto, runVars, dataVars,
     callVars, TypeOK, AllData, Runs, Holders, CallsAgree, CallAgrees,
     RunsAgree, Inside, Ended, OpenRunHasSlot, SavedDataAreWhole, Whole
<1>22. ASSUME NEW t \in Threads, StepThrows(t)
      PROVE  RunsAgree'
  <2>1. Throw(t) /\ pc[t] \in Inside
    BY <1>22 DEF StepThrows, Inside, Throw
  <2> QED
    BY <1>0, <2>1, ThrowRuns
<1>23. ASSUME NEW t \in Threads, ReturnPermit(t)
      PROVE  RunsAgree'
  BY <1>0, <1>23 DEF ReturnPermit, Goto, Return, runVars, dataVars,
     callVars, TypeOK, AllData, Runs, Holders, CallsAgree, CallAgrees,
     RunsAgree, Inside, Ended, OpenRunHasSlot, SavedDataAreWhole, Whole
<1>24. ASSUME NEW t \in Threads, Admit(t)
      PROVE  RunsAgree'
  BY <1>0, <1>24 DEF Admit, Goto, runVars, dataVars, callVars, TypeOK,
     AllData, Runs, Holders, CallsAgree, CallAgrees, RunsAgree, Inside,
     Ended, OpenRunHasSlot, SavedDataAreWhole, Whole
<1>25. ASSUME NEW t \in Threads, EnterRun(t)
      PROVE  RunsAgree'
  BY <1>0, <1>25 DEF EnterRun, Goto, CanGoOn, runVars, dataVars, callVars,
     TypeOK, AllData, Runs, Holders, CallsAgree, CallAgrees, RunsAgree,
     Inside, Ended, OpenRunHasSlot, SavedDataAreWhole, Whole
<1>26. ASSUME NEW t \in Threads, EnterRunStage(t)
      PROVE  RunsAgree'
  BY <1>0, <1>26 DEF EnterRunStage, BeginRun, NoActiveRun, Left, Goto,
     runVars, dataVars, callVars, TypeOK, AllData, Runs, Holders,
     CallsAgree, CallAgrees, RunsAgree, Inside, Ended, OpenRunHasSlot,
     SavedDataAreWhole, Whole
<1>27. ASSUME NEW t \in Threads, RunStageFails(t)
      PROVE  RunsAgree'
  BY <1>0, <1>27 DEF RunStageFails, BeginFails, NoActiveRun, Outside,
     Left, Goto, runVars, dataVars, callVars, TypeOK, AllData, Runs,
     Holders, CallsAgree, CallAgrees, RunsAgree, Inside, Ended,
     OpenRunHasSlot, SavedDataAreWhole, Whole
<1>28. ASSUME NEW t \in Threads, EnterStepStage(t)
      PROVE  RunsAgree'
  BY <1>0, <1>28 DEF EnterStepStage, NoActiveRun, Goto, runVars, dataVars,
     callVars, TypeOK, AllData, Runs, Holders, CallsAgree, CallAgrees,
     RunsAgree, Inside, Ended, OpenRunHasSlot, SavedDataAreWhole, Whole
<1>29. ASSUME NEW t \in Threads, CloseFailed(t)
      PROVE  RunsAgree'
  BY <1>0, <1>29 DEF CloseFailed, ReleaseSlot, Return, Goto, runVars,
     dataVars, callVars, TypeOK, AllData, Runs, Holders, CallsAgree,
     CallAgrees, RunsAgree, Inside, Ended, OpenRunHasSlot,
     SavedDataAreWhole, Whole
<1>30. ASSUME NEW t \in Threads, NEW c \in Copies, ForkSnapshot(t, c)
      PROVE  RunsAgree'
  BY <1>0, <1>30 DEF ForkSnapshot, NoActiveRun, Save, Return, Goto,
     runVars, dataVars, callVars, TypeOK, AllData, Runs, Holders,
     CallsAgree, CallAgrees, RunsAgree, Inside, Ended, OpenRunHasSlot,
     SavedDataAreWhole, Whole
<1>31. ASSUME NEW r \in Runs, RequestCancellation(r)
      PROVE  RunsAgree'
  BY <1>0, <1>31 DEF RequestCancellation, runVars, dataVars, callVars,
     TypeOK, AllData, Runs, Holders, CallsAgree, CallAgrees, RunsAgree,
     Inside, Ended, OpenRunHasSlot, SavedDataAreWhole, Whole
<1>32. ASSUME UNCHANGED vars
      PROVE  RunsAgree'
  BY <1>0, <1>32 DEF vars, runVars, dataVars, callVars, TypeOK, AllData,
     Runs, Holders, CallsAgree, CallAgrees, RunsAgree, Inside, Ended,
     OpenRunHasSlot, SavedDataAreWhole, Whole
<1> QED
  BY <1>1, <1>2, <1>3, <1>4, <1>5, <1>6, <1>7, <1>8, <1>9, <1>10, <1>11,
     <1>12, <1>13, <1>14, <1>15, <1>16, <1>17, <1>18, <1>19, <1>20, <1>21,
     <1>22, <1>23, <1>24, <1>25, <1>26, <1>27, <1>28, <1>29, <1>30, <1>31,
     <1>32 DEF Next, Optional, Steps, Waits

(* The open run has the slot.                                              *)
LEMMA SlotStep == IInv /\ [Next]_vars => OpenRunHasSlot'
<1> SUFFICES ASSUME IInv, [Next]_vars
             PROVE  OpenRunHasSlot'
  OBVIOUS
<1>0. /\ TypeOK
      /\ CallsAgree
      /\ RunsAgree
      /\ OpenRunHasSlot
  BY DEF IInv
<1>1. ASSUME NEW t \in Threads, NEW r \in Runs, StepCall(t, r)
      PROVE  OpenRunHasSlot'
  BY <1>0, <1>1 DEF StepCall, Call, Goto, runVars, dataVars, callVars,
     TypeOK, Runs, CallsAgree, CallAgrees, RunsAgree, Inside, Ended,
     OpenRunHasSlot
<1>2. ASSUME NEW t \in Threads, NEW r \in Runs, FinishCall(t, r)
      PROVE  OpenRunHasSlot'
  BY <1>0, <1>2 DEF FinishCall, Call, Goto, runVars, dataVars, callVars,
     TypeOK, Runs, CallsAgree, CallAgrees, RunsAgree, Inside, Ended,
     OpenRunHasSlot
<1>3. ASSUME NEW t \in Threads, NEW r \in Runs, Cancel(t, r)
      PROVE  OpenRunHasSlot'
  <2> SUFFICES ASSUME NEW s \in Runs
               PROVE  active' = s <=> s < nextRun' /\ ~(completed'[s] \/ closed'[s])
    BY DEF OpenRunHasSlot, Ended
  <2>1. completed'[r] \/ closed'[r]
    BY <1>0, <1>3 DEF Cancel, TypeOK
  <2>2. CASE s = r
    BY <1>0, <1>3, <2>1, <2>2 DEF Cancel, ReleaseSlot, Runs
  <2>3. CASE s # r
    BY <1>0, <1>3, <2>3 DEF Cancel, ReleaseSlot, TypeOK, Runs,
       OpenRunHasSlot, Ended
  <2> QED
    BY <2>2, <2>3
<1>4. ASSUME NEW t \in Threads, NEW r \in Runs, Destroy(t, r)
      PROVE  OpenRunHasSlot'
  <2> SUFFICES ASSUME NEW s \in Runs
               PROVE  active' = s <=> s < nextRun' /\ ~(completed'[s] \/ closed'[s])
    BY DEF OpenRunHasSlot, Ended
  <2>1. completed'[r] \/ closed'[r]
    BY <1>0, <1>4 DEF Destroy, TypeOK
  <2>2. CASE s = r
    BY <1>0, <1>4, <2>1, <2>2 DEF Destroy, ReleaseSlot, Runs
  <2>3. CASE s # r
    BY <1>0, <1>4, <2>3 DEF Destroy, ReleaseSlot, TypeOK, Runs,
       OpenRunHasSlot, Ended
  <2> QED
    BY <2>2, <2>3
<1>5. ASSUME NEW t \in Threads, NEW n \in Names, Checkpoint(t, n)
      PROVE  OpenRunHasSlot'
  BY <1>0, <1>5 DEF Checkpoint, Between, NoActiveRun, Save, runVars,
     dataVars, callVars, TypeOK, Runs, CallsAgree, CallAgrees, RunsAgree,
     Inside, Ended, OpenRunHasSlot
<1>6. ASSUME NEW t \in Threads, NEW n \in Names, DropCheckpoint(t, n)
      PROVE  OpenRunHasSlot'
  BY <1>0, <1>6 DEF DropCheckpoint, Between, NoActiveRun, runVars,
     dataVars, callVars, TypeOK, Runs, CallsAgree, CallAgrees, RunsAgree,
     Inside, Ended, OpenRunHasSlot
<1>7. ASSUME NEW t \in Threads, NEW h \in Holders, Restore(t, h)
      PROVE  OpenRunHasSlot'
  BY <1>0, <1>7 DEF Restore, Between, NoActiveRun, runVars, dataVars,
     callVars, TypeOK, Runs, CallsAgree, CallAgrees, RunsAgree, Inside,
     Ended, OpenRunHasSlot
<1>8. ASSUME NEW t \in Threads, RunStageCall(t)
      PROVE  OpenRunHasSlot'
  BY <1>0, <1>8 DEF RunStageCall, Call, Goto, runVars, dataVars, callVars,
     TypeOK, Runs, CallsAgree, CallAgrees, RunsAgree, Inside, Ended,
     OpenRunHasSlot
<1>9. ASSUME NEW t \in Threads, StepStageCall(t)
      PROVE  OpenRunHasSlot'
  BY <1>0, <1>9 DEF StepStageCall, Call, Goto, runVars, dataVars,
     callVars, TypeOK, Runs, CallsAgree, CallAgrees, RunsAgree, Inside,
     Ended, OpenRunHasSlot
<1>10. ASSUME NEW t \in Threads, BeginStage(t)
      PROVE  OpenRunHasSlot'
  BY <1>0, <1>10 DEF BeginStage, BeginRun, NoActiveRun, Left, runVars,
     dataVars, callVars, TypeOK, Runs, CallsAgree, CallAgrees, RunsAgree,
     Inside, Ended, OpenRunHasSlot
<1>11. ASSUME NEW t \in Threads, BeginStageFails(t)
      PROVE  OpenRunHasSlot'
  BY <1>0, <1>11 DEF BeginStageFails, BeginFails, NoActiveRun, Outside,
     Left, runVars, dataVars, callVars, TypeOK, Runs, CallsAgree,
     CallAgrees, RunsAgree, Inside, Ended, OpenRunHasSlot
<1>12. ASSUME NEW t \in Threads, NEW c \in Copies, Snapshot(t, c)
      PROVE  OpenRunHasSlot'
  BY <1>0, <1>12 DEF Snapshot, Between, NoActiveRun, Save, runVars,
     dataVars, callVars, TypeOK, Runs, CallsAgree, CallAgrees, RunsAgree,
     Inside, Ended, OpenRunHasSlot
<1>13. ASSUME NEW t \in Threads, Reset(t)
      PROVE  OpenRunHasSlot'
  BY <1>0, <1>13 DEF Reset, Between, NoActiveRun, Fresh, Left, runVars,
     dataVars, callVars, TypeOK, Runs, CallsAgree, CallAgrees, RunsAgree,
     Inside, Ended, OpenRunHasSlot
<1>14. ASSUME NEW t \in Threads, ReleaseStage(t)
      PROVE  OpenRunHasSlot'
  BY <1>0, <1>14 DEF ReleaseStage, Between, NoActiveRun, Outside, Left,
     runVars, dataVars, callVars, TypeOK, Runs, CallsAgree, CallAgrees,
     RunsAgree, Inside, Ended, OpenRunHasSlot
<1>15. ASSUME NEW t \in Threads, Fork(t)
      PROVE  OpenRunHasSlot'
  BY <1>0, <1>15 DEF Fork, NoActiveRun, Call, Goto, runVars, dataVars,
     callVars, TypeOK, Runs, CallsAgree, CallAgrees, RunsAgree, Inside,
     Ended, OpenRunHasSlot
<1>16. ASSUME NEW t \in Threads, AdmissionThrows(t)
      PROVE  OpenRunHasSlot'
  BY <1>0, <1>16 DEF AdmissionThrows, Goto, Return, runVars, dataVars,
     callVars, TypeOK, Runs, CallsAgree, CallAgrees, RunsAgree, Inside,
     Ended, OpenRunHasSlot
<1>17. ASSUME NEW t \in Threads, Poll(t)
      PROVE  OpenRunHasSlot'
  BY <1>0, <1>17 DEF Poll, Goto, runVars, dataVars, callVars, TypeOK,
     Runs, CallsAgree, CallAgrees, RunsAgree, Inside, Ended,
     OpenRunHasSlot
<1>18. ASSUME NEW t \in Threads, PollThrows(t)
      PROVE  OpenRunHasSlot'
  <2>1. Throw(t) /\ pc[t] \in Inside
    BY <1>18 DEF PollThrows, Inside, Throw
  <2> QED
    BY <1>0, <2>1, ThrowSlot
<1>19. ASSUME NEW t \in Threads, Execute(t)
      PROVE  OpenRunHasSlot'
  BY <1>0, <1>19 DEF Execute, Goto, Outside, Left, runVars, dataVars,
     callVars, TypeOK, Runs, CallsAgree, CallAgrees, RunsAgree, Inside,
     Ended, OpenRunHasSlot
<1>20. ASSUME NEW t \in Threads, Emit(t)
      PROVE  OpenRunHasSlot'
  BY <1>0, <1>20 DEF Emit, Goto, runVars, dataVars, callVars, TypeOK,
     Runs, CallsAgree, CallAgrees, RunsAgree, Inside, Ended,
     OpenRunHasSlot
<1>21. ASSUME NEW t \in Threads, Complete(t)
      PROVE  OpenRunHasSlot'
  BY <1>0, <1>21 DEF Complete, ReleaseSlot, Goto, runVars, dataVars,
     callVars, TypeOK, Runs, CallsAgree, CallAgrees, RunsAgree, Inside,
     Ended, OpenRunHasSlot
<1>22. ASSUME NEW t \in Threads, StepThrows(t)
      PROVE  OpenRunHasSlot'
  <2>1. Throw(t) /\ pc[t] \in Inside
    BY <1>22 DEF StepThrows, Inside, Throw
  <2> QED
    BY <1>0, <2>1, ThrowSlot
<1>23. ASSUME NEW t \in Threads, ReturnPermit(t)
      PROVE  OpenRunHasSlot'
  BY <1>0, <1>23 DEF ReturnPermit, Goto, Return, runVars, dataVars,
     callVars, TypeOK, Runs, CallsAgree, CallAgrees, RunsAgree, Inside,
     Ended, OpenRunHasSlot
<1>24. ASSUME NEW t \in Threads, Admit(t)
      PROVE  OpenRunHasSlot'
  BY <1>0, <1>24 DEF Admit, Goto, runVars, dataVars, callVars, TypeOK,
     Runs, CallsAgree, CallAgrees, RunsAgree, Inside, Ended,
     OpenRunHasSlot
<1>25. ASSUME NEW t \in Threads, EnterRun(t)
      PROVE  OpenRunHasSlot'
  BY <1>0, <1>25 DEF EnterRun, Goto, CanGoOn, runVars, dataVars, callVars,
     TypeOK, Runs, CallsAgree, CallAgrees, RunsAgree, Inside, Ended,
     OpenRunHasSlot
<1>26. ASSUME NEW t \in Threads, EnterRunStage(t)
      PROVE  OpenRunHasSlot'
  BY <1>0, <1>26 DEF EnterRunStage, BeginRun, NoActiveRun, Left, Goto,
     runVars, dataVars, callVars, TypeOK, Runs, CallsAgree, CallAgrees,
     RunsAgree, Inside, Ended, OpenRunHasSlot
<1>27. ASSUME NEW t \in Threads, RunStageFails(t)
      PROVE  OpenRunHasSlot'
  BY <1>0, <1>27 DEF RunStageFails, BeginFails, NoActiveRun, Outside,
     Left, Goto, runVars, dataVars, callVars, TypeOK, Runs, CallsAgree,
     CallAgrees, RunsAgree, Inside, Ended, OpenRunHasSlot
<1>28. ASSUME NEW t \in Threads, EnterStepStage(t)
      PROVE  OpenRunHasSlot'
  BY <1>0, <1>28 DEF EnterStepStage, NoActiveRun, Goto, runVars, dataVars,
     callVars, TypeOK, Runs, CallsAgree, CallAgrees, RunsAgree, Inside,
     Ended, OpenRunHasSlot
<1>29. ASSUME NEW t \in Threads, CloseFailed(t)
      PROVE  OpenRunHasSlot'
  BY <1>0, <1>29 DEF CloseFailed, ReleaseSlot, Return, Goto, runVars,
     dataVars, callVars, TypeOK, Runs, CallsAgree, CallAgrees, RunsAgree,
     Inside, Ended, OpenRunHasSlot
<1>30. ASSUME NEW t \in Threads, NEW c \in Copies, ForkSnapshot(t, c)
      PROVE  OpenRunHasSlot'
  BY <1>0, <1>30 DEF ForkSnapshot, NoActiveRun, Save, Return, Goto,
     runVars, dataVars, callVars, TypeOK, Runs, CallsAgree, CallAgrees,
     RunsAgree, Inside, Ended, OpenRunHasSlot
<1>31. ASSUME NEW r \in Runs, RequestCancellation(r)
      PROVE  OpenRunHasSlot'
  BY <1>0, <1>31 DEF RequestCancellation, runVars, dataVars, callVars,
     TypeOK, Runs, CallsAgree, CallAgrees, RunsAgree, Inside, Ended,
     OpenRunHasSlot
<1>32. ASSUME UNCHANGED vars
      PROVE  OpenRunHasSlot'
  BY <1>0, <1>32 DEF vars, runVars, dataVars, callVars, TypeOK, Runs,
     CallsAgree, CallAgrees, RunsAgree, Inside, Ended, OpenRunHasSlot
<1> QED
  BY <1>1, <1>2, <1>3, <1>4, <1>5, <1>6, <1>7, <1>8, <1>9, <1>10, <1>11,
     <1>12, <1>13, <1>14, <1>15, <1>16, <1>17, <1>18, <1>19, <1>20, <1>21,
     <1>22, <1>23, <1>24, <1>25, <1>26, <1>27, <1>28, <1>29, <1>30, <1>31,
     <1>32 DEF Next, Optional, Steps, Waits

(* The slot is never left to a run that nobody can step.                   *)
LEMMA LeakStep == IInv /\ [Next]_vars => SlotNeverLeaks'
<1> SUFFICES ASSUME IInv, [Next]_vars
             PROVE  SlotNeverLeaks'
  OBVIOUS
<1>0. /\ TypeOK
      /\ CallsAgree
      /\ SlotNeverLeaks
  BY DEF IInv
<1>1. ASSUME NEW t \in Threads, NEW r \in Runs, StepCall(t, r)
      PROVE  SlotNeverLeaks'
  BY <1>0, <1>1 DEF StepCall, Call, Goto, runVars, dataVars, callVars,
     TypeOK, Runs, CallsAgree, CallAgrees, Inside, SlotNeverLeaks
<1>2. ASSUME NEW t \in Threads, NEW r \in Runs, FinishCall(t, r)
      PROVE  SlotNeverLeaks'
  BY <1>0, <1>2 DEF FinishCall, Call, Goto, runVars, dataVars, callVars,
     TypeOK, Runs, CallsAgree, CallAgrees, Inside, SlotNeverLeaks
<1>3. ASSUME NEW t \in Threads, NEW r \in Runs, Cancel(t, r)
      PROVE  SlotNeverLeaks'
  BY <1>0, <1>3 DEF Cancel, ReleaseSlot, runVars, dataVars, callVars,
     TypeOK, Runs, CallsAgree, CallAgrees, Inside, SlotNeverLeaks
<1>4. ASSUME NEW t \in Threads, NEW r \in Runs, Destroy(t, r)
      PROVE  SlotNeverLeaks'
  BY <1>0, <1>4 DEF Destroy, ReleaseSlot, runVars, dataVars, callVars,
     TypeOK, Runs, CallsAgree, CallAgrees, Inside, SlotNeverLeaks
<1>5. ASSUME NEW t \in Threads, NEW n \in Names, Checkpoint(t, n)
      PROVE  SlotNeverLeaks'
  BY <1>0, <1>5 DEF Checkpoint, Between, NoActiveRun, Save, runVars,
     dataVars, callVars, TypeOK, Runs, CallsAgree, CallAgrees, Inside,
     SlotNeverLeaks
<1>6. ASSUME NEW t \in Threads, NEW n \in Names, DropCheckpoint(t, n)
      PROVE  SlotNeverLeaks'
  BY <1>0, <1>6 DEF DropCheckpoint, Between, NoActiveRun, runVars,
     dataVars, callVars, TypeOK, Runs, CallsAgree, CallAgrees, Inside,
     SlotNeverLeaks
<1>7. ASSUME NEW t \in Threads, NEW h \in Holders, Restore(t, h)
      PROVE  SlotNeverLeaks'
  BY <1>0, <1>7 DEF Restore, Between, NoActiveRun, runVars, dataVars,
     callVars, TypeOK, Runs, CallsAgree, CallAgrees, Inside,
     SlotNeverLeaks
<1>8. ASSUME NEW t \in Threads, RunStageCall(t)
      PROVE  SlotNeverLeaks'
  BY <1>0, <1>8 DEF RunStageCall, Call, Goto, runVars, dataVars, callVars,
     TypeOK, Runs, CallsAgree, CallAgrees, Inside, SlotNeverLeaks
<1>9. ASSUME NEW t \in Threads, StepStageCall(t)
      PROVE  SlotNeverLeaks'
  BY <1>0, <1>9 DEF StepStageCall, Call, Goto, runVars, dataVars,
     callVars, TypeOK, Runs, CallsAgree, CallAgrees, Inside,
     SlotNeverLeaks
<1>10. ASSUME NEW t \in Threads, BeginStage(t)
      PROVE  SlotNeverLeaks'
  BY <1>0, <1>10 DEF BeginStage, BeginRun, NoActiveRun, Left, runVars,
     dataVars, callVars, TypeOK, Runs, CallsAgree, CallAgrees, Inside,
     SlotNeverLeaks
<1>11. ASSUME NEW t \in Threads, BeginStageFails(t)
      PROVE  SlotNeverLeaks'
  BY <1>0, <1>11 DEF BeginStageFails, BeginFails, NoActiveRun, Outside,
     Left, runVars, dataVars, callVars, TypeOK, Runs, CallsAgree,
     CallAgrees, Inside, SlotNeverLeaks
<1>12. ASSUME NEW t \in Threads, NEW c \in Copies, Snapshot(t, c)
      PROVE  SlotNeverLeaks'
  BY <1>0, <1>12 DEF Snapshot, Between, NoActiveRun, Save, runVars,
     dataVars, callVars, TypeOK, Runs, CallsAgree, CallAgrees, Inside,
     SlotNeverLeaks
<1>13. ASSUME NEW t \in Threads, Reset(t)
      PROVE  SlotNeverLeaks'
  BY <1>0, <1>13 DEF Reset, Between, NoActiveRun, Fresh, Left, runVars,
     dataVars, callVars, TypeOK, Runs, CallsAgree, CallAgrees, Inside,
     SlotNeverLeaks
<1>14. ASSUME NEW t \in Threads, ReleaseStage(t)
      PROVE  SlotNeverLeaks'
  BY <1>0, <1>14 DEF ReleaseStage, Between, NoActiveRun, Outside, Left,
     runVars, dataVars, callVars, TypeOK, Runs, CallsAgree, CallAgrees,
     Inside, SlotNeverLeaks
<1>15. ASSUME NEW t \in Threads, Fork(t)
      PROVE  SlotNeverLeaks'
  BY <1>0, <1>15 DEF Fork, NoActiveRun, Call, Goto, runVars, dataVars,
     callVars, TypeOK, Runs, CallsAgree, CallAgrees, Inside,
     SlotNeverLeaks
<1>16. ASSUME NEW t \in Threads, AdmissionThrows(t)
      PROVE  SlotNeverLeaks'
  BY <1>0, <1>16 DEF AdmissionThrows, Goto, Return, runVars, dataVars,
     callVars, TypeOK, Runs, CallsAgree, CallAgrees, Inside,
     SlotNeverLeaks
<1>17. ASSUME NEW t \in Threads, Poll(t)
      PROVE  SlotNeverLeaks'
  BY <1>0, <1>17 DEF Poll, Goto, runVars, dataVars, callVars, TypeOK,
     Runs, CallsAgree, CallAgrees, Inside, SlotNeverLeaks
<1>18. ASSUME NEW t \in Threads, PollThrows(t)
      PROVE  SlotNeverLeaks'
  BY <1>0, <1>18 DEF PollThrows, Throw, ReleaseSlot, Goto, runVars,
     dataVars, callVars, TypeOK, Runs, CallsAgree, CallAgrees, Inside,
     SlotNeverLeaks
<1>19. ASSUME NEW t \in Threads, Execute(t)
      PROVE  SlotNeverLeaks'
  BY <1>0, <1>19 DEF Execute, Goto, Outside, Left, runVars, dataVars,
     callVars, TypeOK, Runs, CallsAgree, CallAgrees, Inside,
     SlotNeverLeaks
<1>20. ASSUME NEW t \in Threads, Emit(t)
      PROVE  SlotNeverLeaks'
  BY <1>0, <1>20 DEF Emit, Goto, runVars, dataVars, callVars, TypeOK,
     Runs, CallsAgree, CallAgrees, Inside, SlotNeverLeaks
<1>21. ASSUME NEW t \in Threads, Complete(t)
      PROVE  SlotNeverLeaks'
  BY <1>0, <1>21 DEF Complete, ReleaseSlot, Goto, runVars, dataVars,
     callVars, TypeOK, Runs, CallsAgree, CallAgrees, Inside,
     SlotNeverLeaks
<1>22. ASSUME NEW t \in Threads, StepThrows(t)
      PROVE  SlotNeverLeaks'
  BY <1>0, <1>22 DEF StepThrows, Throw, ReleaseSlot, Goto, runVars,
     dataVars, callVars, TypeOK, Runs, CallsAgree, CallAgrees, Inside,
     SlotNeverLeaks
<1>23. ASSUME NEW t \in Threads, ReturnPermit(t)
      PROVE  SlotNeverLeaks'
  BY <1>0, <1>23 DEF ReturnPermit, Goto, Return, runVars, dataVars,
     callVars, TypeOK, Runs, CallsAgree, CallAgrees, Inside,
     SlotNeverLeaks
<1>24. ASSUME NEW t \in Threads, Admit(t)
      PROVE  SlotNeverLeaks'
  BY <1>0, <1>24 DEF Admit, Goto, runVars, dataVars, callVars, TypeOK,
     Runs, CallsAgree, CallAgrees, Inside, SlotNeverLeaks
<1>25. ASSUME NEW t \in Threads, EnterRun(t)
      PROVE  SlotNeverLeaks'
  BY <1>0, <1>25 DEF EnterRun, Goto, CanGoOn, runVars, dataVars, callVars,
     TypeOK, Runs, CallsAgree, CallAgrees, Inside, SlotNeverLeaks
<1>26. ASSUME NEW t \in Threads, EnterRunStage(t)
      PROVE  SlotNeverLeaks'
  BY <1>0, <1>26 DEF EnterRunStage, BeginRun, NoActiveRun, Left, Goto,
     runVars, dataVars, callVars, TypeOK, Runs, CallsAgree, CallAgrees,
     Inside, SlotNeverLeaks
<1>27. ASSUME NEW t \in Threads, RunStageFails(t)
      PROVE  SlotNeverLeaks'
  BY <1>0, <1>27 DEF RunStageFails, BeginFails, NoActiveRun, Outside,
     Left, Goto, runVars, dataVars, callVars, TypeOK, Runs, CallsAgree,
     CallAgrees, Inside, SlotNeverLeaks
<1>28. ASSUME NEW t \in Threads, EnterStepStage(t)
      PROVE  SlotNeverLeaks'
  BY <1>0, <1>28 DEF EnterStepStage, NoActiveRun, Goto, runVars, dataVars,
     callVars, TypeOK, Runs, CallsAgree, CallAgrees, Inside,
     SlotNeverLeaks
<1>29. ASSUME NEW t \in Threads, CloseFailed(t)
      PROVE  SlotNeverLeaks'
  BY <1>0, <1>29 DEF CloseFailed, ReleaseSlot, Return, Goto, runVars,
     dataVars, callVars, TypeOK, Runs, CallsAgree, CallAgrees, Inside,
     SlotNeverLeaks
<1>30. ASSUME NEW t \in Threads, NEW c \in Copies, ForkSnapshot(t, c)
      PROVE  SlotNeverLeaks'
  BY <1>0, <1>30 DEF ForkSnapshot, NoActiveRun, Save, Return, Goto,
     runVars, dataVars, callVars, TypeOK, Runs, CallsAgree, CallAgrees,
     Inside, SlotNeverLeaks
<1>31. ASSUME NEW r \in Runs, RequestCancellation(r)
      PROVE  SlotNeverLeaks'
  BY <1>0, <1>31 DEF RequestCancellation, runVars, dataVars, callVars,
     TypeOK, Runs, CallsAgree, CallAgrees, Inside, SlotNeverLeaks
<1>32. ASSUME UNCHANGED vars
      PROVE  SlotNeverLeaks'
  BY <1>0, <1>32 DEF vars, runVars, dataVars, callVars, TypeOK, Runs,
     CallsAgree, CallAgrees, Inside, SlotNeverLeaks
<1> QED
  BY <1>1, <1>2, <1>3, <1>4, <1>5, <1>6, <1>7, <1>8, <1>9, <1>10, <1>11,
     <1>12, <1>13, <1>14, <1>15, <1>16, <1>17, <1>18, <1>19, <1>20, <1>21,
     <1>22, <1>23, <1>24, <1>25, <1>26, <1>27, <1>28, <1>29, <1>30, <1>31,
     <1>32 DEF Next, Optional, Steps, Waits

(* Copies are taken between runs, and ended runs apply nothing.            *)
LEMMA SavedStep == IInv /\ [Next]_vars => SavedDataAreWhole'
<1> SUFFICES ASSUME IInv, [Next]_vars
             PROVE  SavedDataAreWhole'
  OBVIOUS
<1>0. /\ TypeOK
      /\ CallsAgree
      /\ RunsAgree
      /\ OpenRunHasSlot
      /\ SavedDataAreWhole
  BY DEF IInv
<1>1. ASSUME NEW t \in Threads, NEW r \in Runs, StepCall(t, r)
      PROVE  SavedDataAreWhole'
  BY <1>0, <1>1 DEF StepCall, Call, Goto, runVars, dataVars, callVars,
     TypeOK, AllData, Runs, Holders, CallsAgree, CallAgrees, RunsAgree,
     Inside, Ended, OpenRunHasSlot, SavedDataAreWhole, Whole
<1>2. ASSUME NEW t \in Threads, NEW r \in Runs, FinishCall(t, r)
      PROVE  SavedDataAreWhole'
  BY <1>0, <1>2 DEF FinishCall, Call, Goto, runVars, dataVars, callVars,
     TypeOK, AllData, Runs, Holders, CallsAgree, CallAgrees, RunsAgree,
     Inside, Ended, OpenRunHasSlot, SavedDataAreWhole, Whole
<1>3. ASSUME NEW t \in Threads, NEW r \in Runs, Cancel(t, r)
      PROVE  SavedDataAreWhole'
  BY <1>0, <1>3 DEF Cancel, ReleaseSlot, runVars, dataVars, callVars,
     TypeOK, AllData, Runs, Holders, CallsAgree, CallAgrees, RunsAgree,
     Inside, Ended, OpenRunHasSlot, SavedDataAreWhole, Whole
<1>4. ASSUME NEW t \in Threads, NEW r \in Runs, Destroy(t, r)
      PROVE  SavedDataAreWhole'
  BY <1>0, <1>4 DEF Destroy, ReleaseSlot, runVars, dataVars, callVars,
     TypeOK, AllData, Runs, Holders, CallsAgree, CallAgrees, RunsAgree,
     Inside, Ended, OpenRunHasSlot, SavedDataAreWhole, Whole
<1>5. ASSUME NEW t \in Threads, NEW n \in Names, Checkpoint(t, n)
      PROVE  SavedDataAreWhole'
  BY <1>0, <1>5 DEF Checkpoint, Between, NoActiveRun, Save, runVars,
     dataVars, callVars, TypeOK, AllData, Runs, Holders, CallsAgree,
     CallAgrees, RunsAgree, Inside, Ended, OpenRunHasSlot,
     SavedDataAreWhole, Whole
<1>6. ASSUME NEW t \in Threads, NEW n \in Names, DropCheckpoint(t, n)
      PROVE  SavedDataAreWhole'
  BY <1>0, <1>6 DEF DropCheckpoint, Between, NoActiveRun, runVars,
     dataVars, callVars, TypeOK, AllData, Runs, Holders, CallsAgree,
     CallAgrees, RunsAgree, Inside, Ended, OpenRunHasSlot,
     SavedDataAreWhole, Whole
<1>7. ASSUME NEW t \in Threads, NEW h \in Holders, Restore(t, h)
      PROVE  SavedDataAreWhole'
  BY <1>0, <1>7 DEF Restore, Between, NoActiveRun, runVars, dataVars,
     callVars, TypeOK, AllData, Runs, Holders, CallsAgree, CallAgrees,
     RunsAgree, Inside, Ended, OpenRunHasSlot, SavedDataAreWhole, Whole
<1>8. ASSUME NEW t \in Threads, RunStageCall(t)
      PROVE  SavedDataAreWhole'
  BY <1>0, <1>8 DEF RunStageCall, Call, Goto, runVars, dataVars, callVars,
     TypeOK, AllData, Runs, Holders, CallsAgree, CallAgrees, RunsAgree,
     Inside, Ended, OpenRunHasSlot, SavedDataAreWhole, Whole
<1>9. ASSUME NEW t \in Threads, StepStageCall(t)
      PROVE  SavedDataAreWhole'
  BY <1>0, <1>9 DEF StepStageCall, Call, Goto, runVars, dataVars,
     callVars, TypeOK, AllData, Runs, Holders, CallsAgree, CallAgrees,
     RunsAgree, Inside, Ended, OpenRunHasSlot, SavedDataAreWhole, Whole
<1>10. ASSUME NEW t \in Threads, BeginStage(t)
      PROVE  SavedDataAreWhole'
  BY <1>0, <1>10 DEF BeginStage, BeginRun, NoActiveRun, Left, runVars,
     dataVars, callVars, TypeOK, AllData, Runs, Holders, CallsAgree,
     CallAgrees, RunsAgree, Inside, Ended, OpenRunHasSlot,
     SavedDataAreWhole, Whole
<1>11. ASSUME NEW t \in Threads, BeginStageFails(t)
      PROVE  SavedDataAreWhole'
  BY <1>0, <1>11 DEF BeginStageFails, BeginFails, NoActiveRun, Outside,
     Left, runVars, dataVars, callVars, TypeOK, AllData, Runs, Holders,
     CallsAgree, CallAgrees, RunsAgree, Inside, Ended, OpenRunHasSlot,
     SavedDataAreWhole, Whole
<1>12. ASSUME NEW t \in Threads, NEW c \in Copies, Snapshot(t, c)
      PROVE  SavedDataAreWhole'
  BY <1>0, <1>12 DEF Snapshot, Between, NoActiveRun, Save, runVars,
     dataVars, callVars, TypeOK, AllData, Runs, Holders, CallsAgree,
     CallAgrees, RunsAgree, Inside, Ended, OpenRunHasSlot,
     SavedDataAreWhole, Whole
<1>13. ASSUME NEW t \in Threads, Reset(t)
      PROVE  SavedDataAreWhole'
  BY <1>0, <1>13 DEF Reset, Between, NoActiveRun, Fresh, Left, runVars,
     dataVars, callVars, TypeOK, AllData, Runs, Holders, CallsAgree,
     CallAgrees, RunsAgree, Inside, Ended, OpenRunHasSlot,
     SavedDataAreWhole, Whole
<1>14. ASSUME NEW t \in Threads, ReleaseStage(t)
      PROVE  SavedDataAreWhole'
  BY <1>0, <1>14 DEF ReleaseStage, Between, NoActiveRun, Outside, Left,
     runVars, dataVars, callVars, TypeOK, AllData, Runs, Holders,
     CallsAgree, CallAgrees, RunsAgree, Inside, Ended, OpenRunHasSlot,
     SavedDataAreWhole, Whole
<1>15. ASSUME NEW t \in Threads, Fork(t)
      PROVE  SavedDataAreWhole'
  BY <1>0, <1>15 DEF Fork, NoActiveRun, Call, Goto, runVars, dataVars,
     callVars, TypeOK, AllData, Runs, Holders, CallsAgree, CallAgrees,
     RunsAgree, Inside, Ended, OpenRunHasSlot, SavedDataAreWhole, Whole
<1>16. ASSUME NEW t \in Threads, AdmissionThrows(t)
      PROVE  SavedDataAreWhole'
  BY <1>0, <1>16 DEF AdmissionThrows, Goto, Return, runVars, dataVars,
     callVars, TypeOK, AllData, Runs, Holders, CallsAgree, CallAgrees,
     RunsAgree, Inside, Ended, OpenRunHasSlot, SavedDataAreWhole, Whole
<1>17. ASSUME NEW t \in Threads, Poll(t)
      PROVE  SavedDataAreWhole'
  BY <1>0, <1>17 DEF Poll, Goto, runVars, dataVars, callVars, TypeOK,
     AllData, Runs, Holders, CallsAgree, CallAgrees, RunsAgree, Inside,
     Ended, OpenRunHasSlot, SavedDataAreWhole, Whole
<1>18. ASSUME NEW t \in Threads, PollThrows(t)
      PROVE  SavedDataAreWhole'
  <2> SUFFICES ASSUME NEW x \in Holders, saved'[x] # None, saved'[x].run # 0,
                      NEW q, q = saved[x].run
               PROVE  Ended(q)' /\ saved[x].at = applied'[q]
    BY <1>18 DEF PollThrows, Throw, dataVars, SavedDataAreWhole, Whole, Ended
  <2>1. q \in Runs /\ Ended(q) /\ saved[x].at = applied[q]
    BY BoundsAssumption, <1>0, <1>18 DEF PollThrows, Throw, dataVars,
       TypeOK, AllData,
       Runs, SavedDataAreWhole, Whole
  <2>2. Throw(t) /\ pc[t] \in Inside /\ UNCHANGED applied
    BY <1>18 DEF PollThrows, Inside, Throw, dataVars
  <2> QED
    BY <1>0, <2>1, <2>2, ThrowEnded
<1>19. ASSUME NEW t \in Threads, Execute(t)
      PROVE  SavedDataAreWhole'
  <2> SUFFICES ASSUME NEW x \in Holders, saved'[x] # None, saved'[x].run # 0,
                      NEW q, q = saved[x].run
               PROVE  Ended(q)' /\ saved[x].at = applied'[q]
    BY <1>19 DEF Execute, Throw, dataVars, SavedDataAreWhole, Whole, Ended
  <2>1. q \in Runs /\ Ended(q) /\ saved[x].at = applied[q]
    BY BoundsAssumption, <1>0, <1>19 DEF Execute, Throw, dataVars,
       TypeOK, AllData,
       Runs, SavedDataAreWhole, Whole
  <2>2. UNCHANGED <<completed, closed>>
    BY <1>19 DEF Execute, runVars
  <2> QED
    BY <1>0, <1>19, <2>1, <2>2, ExecuteOpen DEF Ended
<1>20. ASSUME NEW t \in Threads, Emit(t)
      PROVE  SavedDataAreWhole'
  BY <1>0, <1>20 DEF Emit, Goto, runVars, dataVars, callVars, TypeOK,
     AllData, Runs, Holders, CallsAgree, CallAgrees, RunsAgree, Inside,
     Ended, OpenRunHasSlot, SavedDataAreWhole, Whole
<1>21. ASSUME NEW t \in Threads, Complete(t)
      PROVE  SavedDataAreWhole'
  BY <1>0, <1>21 DEF Complete, ReleaseSlot, Goto, runVars, dataVars,
     callVars, TypeOK, AllData, Runs, Holders, CallsAgree, CallAgrees,
     RunsAgree, Inside, Ended, OpenRunHasSlot, SavedDataAreWhole, Whole
<1>22. ASSUME NEW t \in Threads, StepThrows(t)
      PROVE  SavedDataAreWhole'
  <2> SUFFICES ASSUME NEW x \in Holders, saved'[x] # None, saved'[x].run # 0,
                      NEW q, q = saved[x].run
               PROVE  Ended(q)' /\ saved[x].at = applied'[q]
    BY <1>22 DEF StepThrows, Throw, dataVars, SavedDataAreWhole, Whole, Ended
  <2>1. q \in Runs /\ Ended(q) /\ saved[x].at = applied[q]
    BY BoundsAssumption, <1>0, <1>22 DEF StepThrows, Throw, dataVars,
       TypeOK, AllData,
       Runs, SavedDataAreWhole, Whole
  <2>2. Throw(t) /\ pc[t] \in Inside /\ UNCHANGED applied
    BY <1>22 DEF StepThrows, Inside, Throw, dataVars
  <2> QED
    BY <1>0, <2>1, <2>2, ThrowEnded
<1>23. ASSUME NEW t \in Threads, ReturnPermit(t)
      PROVE  SavedDataAreWhole'
  BY <1>0, <1>23 DEF ReturnPermit, Goto, Return, runVars, dataVars,
     callVars, TypeOK, AllData, Runs, Holders, CallsAgree, CallAgrees,
     RunsAgree, Inside, Ended, OpenRunHasSlot, SavedDataAreWhole, Whole
<1>24. ASSUME NEW t \in Threads, Admit(t)
      PROVE  SavedDataAreWhole'
  BY <1>0, <1>24 DEF Admit, Goto, runVars, dataVars, callVars, TypeOK,
     AllData, Runs, Holders, CallsAgree, CallAgrees, RunsAgree, Inside,
     Ended, OpenRunHasSlot, SavedDataAreWhole, Whole
<1>25. ASSUME NEW t \in Threads, EnterRun(t)
      PROVE  SavedDataAreWhole'
  BY <1>0, <1>25 DEF EnterRun, Goto, CanGoOn, runVars, dataVars, callVars,
     TypeOK, AllData, Runs, Holders, CallsAgree, CallAgrees, RunsAgree,
     Inside, Ended, OpenRunHasSlot, SavedDataAreWhole, Whole
<1>26. ASSUME NEW t \in Threads, EnterRunStage(t)
      PROVE  SavedDataAreWhole'
  BY <1>0, <1>26 DEF EnterRunStage, BeginRun, NoActiveRun, Left, Goto,
     runVars, dataVars, callVars, TypeOK, AllData, Runs, Holders,
     CallsAgree, CallAgrees, RunsAgree, Inside, Ended, OpenRunHasSlot,
     SavedDataAreWhole, Whole
<1>27. ASSUME NEW t \in Threads, RunStageFails(t)
      PROVE  SavedDataAreWhole'
  BY <1>0, <1>27 DEF RunStageFails, BeginFails, NoActiveRun, Outside,
     Left, Goto, runVars, dataVars, callVars, TypeOK, AllData, Runs,
     Holders, CallsAgree, CallAgrees, RunsAgree, Inside, Ended,
     OpenRunHasSlot, SavedDataAreWhole, Whole
<1>28. ASSUME NEW t \in Threads, EnterStepStage(t)
      PROVE  SavedDataAreWhole'
  BY <1>0, <1>28 DEF EnterStepStage, NoActiveRun, Goto, runVars, dataVars,
     callVars, TypeOK, AllData, Runs, Holders, CallsAgree, CallAgrees,
     RunsAgree, Inside, Ended, OpenRunHasSlot, SavedDataAreWhole, Whole
<1>29. ASSUME NEW t \in Threads, CloseFailed(t)
      PROVE  SavedDataAreWhole'
  BY <1>0, <1>29 DEF CloseFailed, ReleaseSlot, Return, Goto, runVars,
     dataVars, callVars, TypeOK, AllData, Runs, Holders, CallsAgree,
     CallAgrees, RunsAgree, Inside, Ended, OpenRunHasSlot,
     SavedDataAreWhole, Whole
<1>30. ASSUME NEW t \in Threads, NEW c \in Copies, ForkSnapshot(t, c)
      PROVE  SavedDataAreWhole'
  BY <1>0, <1>30 DEF ForkSnapshot, NoActiveRun, Save, Return, Goto,
     runVars, dataVars, callVars, TypeOK, AllData, Runs, Holders,
     CallsAgree, CallAgrees, RunsAgree, Inside, Ended, OpenRunHasSlot,
     SavedDataAreWhole, Whole
<1>31. ASSUME NEW r \in Runs, RequestCancellation(r)
      PROVE  SavedDataAreWhole'
  BY <1>0, <1>31 DEF RequestCancellation, runVars, dataVars, callVars,
     TypeOK, AllData, Runs, Holders, CallsAgree, CallAgrees, RunsAgree,
     Inside, Ended, OpenRunHasSlot, SavedDataAreWhole, Whole
<1>32. ASSUME UNCHANGED vars
      PROVE  SavedDataAreWhole'
  BY <1>0, <1>32 DEF vars, runVars, dataVars, callVars, TypeOK, AllData,
     Runs, Holders, CallsAgree, CallAgrees, RunsAgree, Inside, Ended,
     OpenRunHasSlot, SavedDataAreWhole, Whole
<1> QED
  BY <1>1, <1>2, <1>3, <1>4, <1>5, <1>6, <1>7, <1>8, <1>9, <1>10, <1>11,
     <1>12, <1>13, <1>14, <1>15, <1>16, <1>17, <1>18, <1>19, <1>20, <1>21,
     <1>22, <1>23, <1>24, <1>25, <1>26, <1>27, <1>28, <1>29, <1>30, <1>31,
     <1>32 DEF Next, Optional, Steps, Waits

(* A stopped run finishes the pass in progress and no other.               *)
LEMMA StopStep == IInv /\ [Next]_vars => (PassesStop /\ StopsWithinOnePass)'
<1> SUFFICES ASSUME IInv, [Next]_vars
             PROVE  (PassesStop /\ StopsWithinOnePass)'
  OBVIOUS
<1>0. /\ TypeOK
      /\ CallsAgree
      /\ PassesStop /\ StopsWithinOnePass
  BY DEF IInv
<1>1. ASSUME NEW t \in Threads, NEW r \in Runs, StepCall(t, r)
      PROVE  (PassesStop /\ StopsWithinOnePass)'
  BY <1>0, <1>1 DEF StepCall, Call, Goto, runVars, dataVars, callVars,
     TypeOK, Runs, CallsAgree, CallAgrees, Inside, PassesStop,
     StopsWithinOnePass
<1>2. ASSUME NEW t \in Threads, NEW r \in Runs, FinishCall(t, r)
      PROVE  (PassesStop /\ StopsWithinOnePass)'
  BY <1>0, <1>2 DEF FinishCall, Call, Goto, runVars, dataVars, callVars,
     TypeOK, Runs, CallsAgree, CallAgrees, Inside, PassesStop,
     StopsWithinOnePass
<1>3. ASSUME NEW t \in Threads, NEW r \in Runs, Cancel(t, r)
      PROVE  (PassesStop /\ StopsWithinOnePass)'
  BY <1>0, <1>3 DEF Cancel, ReleaseSlot, runVars, dataVars, callVars,
     TypeOK, Runs, CallsAgree, CallAgrees, Inside, PassesStop,
     StopsWithinOnePass
<1>4. ASSUME NEW t \in Threads, NEW r \in Runs, Destroy(t, r)
      PROVE  (PassesStop /\ StopsWithinOnePass)'
  BY <1>0, <1>4 DEF Destroy, ReleaseSlot, runVars, dataVars, callVars,
     TypeOK, Runs, CallsAgree, CallAgrees, Inside, PassesStop,
     StopsWithinOnePass
<1>5. ASSUME NEW t \in Threads, NEW n \in Names, Checkpoint(t, n)
      PROVE  (PassesStop /\ StopsWithinOnePass)'
  BY <1>0, <1>5 DEF Checkpoint, Between, NoActiveRun, Save, runVars,
     dataVars, callVars, TypeOK, Runs, CallsAgree, CallAgrees, Inside,
     PassesStop, StopsWithinOnePass
<1>6. ASSUME NEW t \in Threads, NEW n \in Names, DropCheckpoint(t, n)
      PROVE  (PassesStop /\ StopsWithinOnePass)'
  BY <1>0, <1>6 DEF DropCheckpoint, Between, NoActiveRun, runVars,
     dataVars, callVars, TypeOK, Runs, CallsAgree, CallAgrees, Inside,
     PassesStop, StopsWithinOnePass
<1>7. ASSUME NEW t \in Threads, NEW h \in Holders, Restore(t, h)
      PROVE  (PassesStop /\ StopsWithinOnePass)'
  BY <1>0, <1>7 DEF Restore, Between, NoActiveRun, runVars, dataVars,
     callVars, TypeOK, Runs, CallsAgree, CallAgrees, Inside, PassesStop,
     StopsWithinOnePass
<1>8. ASSUME NEW t \in Threads, RunStageCall(t)
      PROVE  (PassesStop /\ StopsWithinOnePass)'
  BY <1>0, <1>8 DEF RunStageCall, Call, Goto, runVars, dataVars, callVars,
     TypeOK, Runs, CallsAgree, CallAgrees, Inside, PassesStop,
     StopsWithinOnePass
<1>9. ASSUME NEW t \in Threads, StepStageCall(t)
      PROVE  (PassesStop /\ StopsWithinOnePass)'
  BY <1>0, <1>9 DEF StepStageCall, Call, Goto, runVars, dataVars,
     callVars, TypeOK, Runs, CallsAgree, CallAgrees, Inside, PassesStop,
     StopsWithinOnePass
<1>10. ASSUME NEW t \in Threads, BeginStage(t)
      PROVE  (PassesStop /\ StopsWithinOnePass)'
  BY <1>0, <1>10 DEF BeginStage, BeginRun, NoActiveRun, Left, runVars,
     dataVars, callVars, TypeOK, Runs, CallsAgree, CallAgrees, Inside,
     PassesStop, StopsWithinOnePass
<1>11. ASSUME NEW t \in Threads, BeginStageFails(t)
      PROVE  (PassesStop /\ StopsWithinOnePass)'
  BY <1>0, <1>11 DEF BeginStageFails, BeginFails, NoActiveRun, Outside,
     Left, runVars, dataVars, callVars, TypeOK, Runs, CallsAgree,
     CallAgrees, Inside, PassesStop, StopsWithinOnePass
<1>12. ASSUME NEW t \in Threads, NEW c \in Copies, Snapshot(t, c)
      PROVE  (PassesStop /\ StopsWithinOnePass)'
  BY <1>0, <1>12 DEF Snapshot, Between, NoActiveRun, Save, runVars,
     dataVars, callVars, TypeOK, Runs, CallsAgree, CallAgrees, Inside,
     PassesStop, StopsWithinOnePass
<1>13. ASSUME NEW t \in Threads, Reset(t)
      PROVE  (PassesStop /\ StopsWithinOnePass)'
  BY <1>0, <1>13 DEF Reset, Between, NoActiveRun, Fresh, Left, runVars,
     dataVars, callVars, TypeOK, Runs, CallsAgree, CallAgrees, Inside,
     PassesStop, StopsWithinOnePass
<1>14. ASSUME NEW t \in Threads, ReleaseStage(t)
      PROVE  (PassesStop /\ StopsWithinOnePass)'
  BY <1>0, <1>14 DEF ReleaseStage, Between, NoActiveRun, Outside, Left,
     runVars, dataVars, callVars, TypeOK, Runs, CallsAgree, CallAgrees,
     Inside, PassesStop, StopsWithinOnePass
<1>15. ASSUME NEW t \in Threads, Fork(t)
      PROVE  (PassesStop /\ StopsWithinOnePass)'
  BY <1>0, <1>15 DEF Fork, NoActiveRun, Call, Goto, runVars, dataVars,
     callVars, TypeOK, Runs, CallsAgree, CallAgrees, Inside, PassesStop,
     StopsWithinOnePass
<1>16. ASSUME NEW t \in Threads, AdmissionThrows(t)
      PROVE  (PassesStop /\ StopsWithinOnePass)'
  BY <1>0, <1>16 DEF AdmissionThrows, Goto, Return, runVars, dataVars,
     callVars, TypeOK, Runs, CallsAgree, CallAgrees, Inside, PassesStop,
     StopsWithinOnePass
<1>17. ASSUME NEW t \in Threads, Poll(t)
      PROVE  (PassesStop /\ StopsWithinOnePass)'
  BY <1>0, <1>17 DEF Poll, Goto, runVars, dataVars, callVars, TypeOK,
     Runs, CallsAgree, CallAgrees, Inside, PassesStop, StopsWithinOnePass
<1>18. ASSUME NEW t \in Threads, PollThrows(t)
      PROVE  (PassesStop /\ StopsWithinOnePass)'
  BY <1>0, <1>18 DEF PollThrows, Throw, ReleaseSlot, Goto, runVars,
     dataVars, callVars, TypeOK, Runs, CallsAgree, CallAgrees, Inside,
     PassesStop, StopsWithinOnePass
<1>19. ASSUME NEW t \in Threads, Execute(t)
      PROVE  (PassesStop /\ StopsWithinOnePass)'
  <2>1. CASE op[t] = "direct"
    <3>1. run[t] = 0
      BY <1>0, <2>1, <1>19 DEF Execute, CallsAgree, CallAgrees
    <3> QED
      BY <1>0, <1>19, <2>1, <3>1 DEF Execute, Goto, PassesStop,
         StopsWithinOnePass,
         TypeOK
  <2>2. CASE op[t] # "direct"
    <3>1. pc[t] \in Inside
      BY <1>19 DEF Execute, Inside
    <3>2. run[t] \in Runs /\ applied[run[t]] \in Nat
      BY <1>0, <2>2, <3>1, InsideRun, BoundsAssumption DEF TypeOK
    <3>3. stopped[run[t]] # None => applied[run[t]] <= stopped[run[t]]
      BY <1>0, <3>2, <1>19 DEF Execute, PassesStop, Runs
    <3>4. applied' = [applied EXCEPT ![run[t]] = applied[run[t]] + 1] /\ UNCHANGED stopped
      BY <2>2, <1>19 DEF Execute
    <3>5. StopsWithinOnePass'
      <4> SUFFICES ASSUME NEW r \in Runs, stopped[r] # None
                   PROVE  applied'[r] <= stopped[r] + 1
        BY <3>4 DEF StopsWithinOnePass
      <4>1. stopped[r] \in Nat /\ applied[r] <= stopped[r] + 1
        BY <1>0, BoundsAssumption DEF TypeOK, StopsWithinOnePass
      <4>2. CASE r = run[t]
        BY <1>0, <3>2, <3>3, <3>4, <4>1, <4>2 DEF TypeOK
      <4>3. CASE r # run[t]
        BY <1>0, <3>4, <4>1, <4>3 DEF TypeOK
      <4> QED
        BY <4>2, <4>3
    <3>6. PassesStop'
      <4> SUFFICES ASSUME NEW u \in Threads, pc'[u] = "stepping", run'[u] # 0,
                          stopped'[run'[u]] # None
                   PROVE  FALSE
        BY DEF PassesStop
      <4>1. mutex = t
        BY <1>0, <3>1 DEF CallsAgree, CallAgrees
      <4>2. u # t
        BY <1>0, <1>19 DEF Execute, Goto, TypeOK
      <4>3. pc[u] \in Inside
        BY <1>0, <4>2, <1>19 DEF Execute, Goto, TypeOK, Inside
      <4> QED
        BY <1>0, <4>1, <4>2, <4>3 DEF CallsAgree, CallAgrees
    <3> QED
      BY <3>5, <3>6
  <2> QED
    BY <2>1, <2>2
<1>20. ASSUME NEW t \in Threads, Emit(t)
      PROVE  (PassesStop /\ StopsWithinOnePass)'
  BY <1>0, <1>20 DEF Emit, Goto, runVars, dataVars, callVars, TypeOK,
     Runs, CallsAgree, CallAgrees, Inside, PassesStop, StopsWithinOnePass
<1>21. ASSUME NEW t \in Threads, Complete(t)
      PROVE  (PassesStop /\ StopsWithinOnePass)'
  BY <1>0, <1>21 DEF Complete, ReleaseSlot, Goto, runVars, dataVars,
     callVars, TypeOK, Runs, CallsAgree, CallAgrees, Inside, PassesStop,
     StopsWithinOnePass
<1>22. ASSUME NEW t \in Threads, StepThrows(t)
      PROVE  (PassesStop /\ StopsWithinOnePass)'
  BY <1>0, <1>22 DEF StepThrows, Throw, ReleaseSlot, Goto, runVars,
     dataVars, callVars, TypeOK, Runs, CallsAgree, CallAgrees, Inside,
     PassesStop, StopsWithinOnePass
<1>23. ASSUME NEW t \in Threads, ReturnPermit(t)
      PROVE  (PassesStop /\ StopsWithinOnePass)'
  BY <1>0, <1>23 DEF ReturnPermit, Goto, Return, runVars, dataVars,
     callVars, TypeOK, Runs, CallsAgree, CallAgrees, Inside, PassesStop,
     StopsWithinOnePass
<1>24. ASSUME NEW t \in Threads, Admit(t)
      PROVE  (PassesStop /\ StopsWithinOnePass)'
  BY <1>0, <1>24 DEF Admit, Goto, runVars, dataVars, callVars, TypeOK,
     Runs, CallsAgree, CallAgrees, Inside, PassesStop, StopsWithinOnePass
<1>25. ASSUME NEW t \in Threads, EnterRun(t)
      PROVE  (PassesStop /\ StopsWithinOnePass)'
  BY <1>0, <1>25 DEF EnterRun, Goto, CanGoOn, runVars, dataVars, callVars,
     TypeOK, Runs, CallsAgree, CallAgrees, Inside, PassesStop,
     StopsWithinOnePass
<1>26. ASSUME NEW t \in Threads, EnterRunStage(t)
      PROVE  (PassesStop /\ StopsWithinOnePass)'
  BY <1>0, <1>26 DEF EnterRunStage, BeginRun, NoActiveRun, Left, Goto,
     runVars, dataVars, callVars, TypeOK, Runs, CallsAgree, CallAgrees,
     Inside, PassesStop, StopsWithinOnePass
<1>27. ASSUME NEW t \in Threads, RunStageFails(t)
      PROVE  (PassesStop /\ StopsWithinOnePass)'
  BY <1>0, <1>27 DEF RunStageFails, BeginFails, NoActiveRun, Outside,
     Left, Goto, runVars, dataVars, callVars, TypeOK, Runs, CallsAgree,
     CallAgrees, Inside, PassesStop, StopsWithinOnePass
<1>28. ASSUME NEW t \in Threads, EnterStepStage(t)
      PROVE  (PassesStop /\ StopsWithinOnePass)'
  BY <1>0, <1>28 DEF EnterStepStage, NoActiveRun, Goto, runVars, dataVars,
     callVars, TypeOK, Runs, CallsAgree, CallAgrees, Inside, PassesStop,
     StopsWithinOnePass
<1>29. ASSUME NEW t \in Threads, CloseFailed(t)
      PROVE  (PassesStop /\ StopsWithinOnePass)'
  BY <1>0, <1>29 DEF CloseFailed, ReleaseSlot, Return, Goto, runVars,
     dataVars, callVars, TypeOK, Runs, CallsAgree, CallAgrees, Inside,
     PassesStop, StopsWithinOnePass
<1>30. ASSUME NEW t \in Threads, NEW c \in Copies, ForkSnapshot(t, c)
      PROVE  (PassesStop /\ StopsWithinOnePass)'
  BY <1>0, <1>30 DEF ForkSnapshot, NoActiveRun, Save, Return, Goto,
     runVars, dataVars, callVars, TypeOK, Runs, CallsAgree, CallAgrees,
     Inside, PassesStop, StopsWithinOnePass
<1>31. ASSUME NEW r \in Runs, RequestCancellation(r)
      PROVE  (PassesStop /\ StopsWithinOnePass)'
  BY <1>0, <1>31 DEF RequestCancellation, runVars, dataVars, callVars,
     TypeOK, Runs, CallsAgree, CallAgrees, Inside, PassesStop,
     StopsWithinOnePass
<1>32. ASSUME UNCHANGED vars
      PROVE  (PassesStop /\ StopsWithinOnePass)'
  BY <1>0, <1>32 DEF vars, runVars, dataVars, callVars, TypeOK, Runs,
     CallsAgree, CallAgrees, Inside, PassesStop, StopsWithinOnePass
<1> QED
  BY <1>1, <1>2, <1>3, <1>4, <1>5, <1>6, <1>7, <1>8, <1>9, <1>10, <1>11,
     <1>12, <1>13, <1>14, <1>15, <1>16, <1>17, <1>18, <1>19, <1>20, <1>21,
     <1>22, <1>23, <1>24, <1>25, <1>26, <1>27, <1>28, <1>29, <1>30, <1>31,
     <1>32 DEF Next, Optional, Steps, Waits


(* Permits are counted by the calls that hold them.                        *)
LEMMA PermitStep == IInv /\ [Next]_vars => PermitsAreHeld'
<1> SUFFICES ASSUME IInv, [Next]_vars
             PROVE  PermitsAreHeld'
  OBVIOUS
<1>0. /\ TypeOK
      /\ PermitsAreHeld
  BY DEF IInv
<1>1. ASSUME NEW t \in Threads, NEW r \in Runs, StepCall(t, r)
      PROVE  PermitsAreHeld'
  <2>1. /\ permits' = permits
        /\ \A u \in Threads : pc'[u] \in Holding <=> pc[u] \in Holding
    BY <1>0, <1>1 DEF StepCall, Call, Goto, runVars, dataVars, callVars,
       TypeOK, Holding, Inside
  <2> QED
    BY <1>0, <2>1, SameHolders
<1>2. ASSUME NEW t \in Threads, NEW r \in Runs, FinishCall(t, r)
      PROVE  PermitsAreHeld'
  <2>1. /\ permits' = permits
        /\ \A u \in Threads : pc'[u] \in Holding <=> pc[u] \in Holding
    BY <1>0, <1>2 DEF FinishCall, Call, Goto, runVars, dataVars,
       callVars, TypeOK, Holding, Inside
  <2> QED
    BY <1>0, <2>1, SameHolders
<1>3. ASSUME NEW t \in Threads, NEW r \in Runs, Cancel(t, r)
      PROVE  PermitsAreHeld'
  <2>1. /\ permits' = permits
        /\ \A u \in Threads : pc'[u] \in Holding <=> pc[u] \in Holding
    BY <1>0, <1>3 DEF Cancel, ReleaseSlot, runVars, dataVars, callVars,
       TypeOK, Holding, Inside
  <2> QED
    BY <1>0, <2>1, SameHolders
<1>4. ASSUME NEW t \in Threads, NEW r \in Runs, Destroy(t, r)
      PROVE  PermitsAreHeld'
  <2>1. /\ permits' = permits
        /\ \A u \in Threads : pc'[u] \in Holding <=> pc[u] \in Holding
    BY <1>0, <1>4 DEF Destroy, ReleaseSlot, runVars, dataVars, callVars,
       TypeOK, Holding, Inside
  <2> QED
    BY <1>0, <2>1, SameHolders
<1>5. ASSUME NEW t \in Threads, NEW n \in Names, Checkpoint(t, n)
      PROVE  PermitsAreHeld'
  <2>1. /\ permits' = permits
        /\ \A u \in Threads : pc'[u] \in Holding <=> pc[u] \in Holding
    BY <1>0, <1>5 DEF Checkpoint, Between, NoActiveRun, Save, runVars,
       dataVars, callVars, TypeOK, Holding, Inside
  <2> QED
    BY <1>0, <2>1, SameHolders
<1>6. ASSUME NEW t \in Threads, NEW n \in Names, DropCheckpoint(t, n)
      PROVE  PermitsAreHeld'
  <2>1. /\ permits' = permits
        /\ \A u \in Threads : pc'[u] \in Holding <=> pc[u] \in Holding
    BY <1>0, <1>6 DEF DropCheckpoint, Between, NoActiveRun, runVars,
       dataVars, callVars, TypeOK, Holding, Inside
  <2> QED
    BY <1>0, <2>1, SameHolders
<1>7. ASSUME NEW t \in Threads, NEW h \in Holders, Restore(t, h)
      PROVE  PermitsAreHeld'
  <2>1. /\ permits' = permits
        /\ \A u \in Threads : pc'[u] \in Holding <=> pc[u] \in Holding
    BY <1>0, <1>7 DEF Restore, Between, NoActiveRun, runVars, dataVars,
       callVars, TypeOK, Holding, Inside
  <2> QED
    BY <1>0, <2>1, SameHolders
<1>8. ASSUME NEW t \in Threads, RunStageCall(t)
      PROVE  PermitsAreHeld'
  <2>1. /\ permits' = permits
        /\ \A u \in Threads : pc'[u] \in Holding <=> pc[u] \in Holding
    BY <1>0, <1>8 DEF RunStageCall, Call, Goto, runVars, dataVars,
       callVars, TypeOK, Holding, Inside
  <2> QED
    BY <1>0, <2>1, SameHolders
<1>9. ASSUME NEW t \in Threads, StepStageCall(t)
      PROVE  PermitsAreHeld'
  <2>1. /\ permits' = permits
        /\ \A u \in Threads : pc'[u] \in Holding <=> pc[u] \in Holding
    BY <1>0, <1>9 DEF StepStageCall, Call, Goto, runVars, dataVars,
       callVars, TypeOK, Holding, Inside
  <2> QED
    BY <1>0, <2>1, SameHolders
<1>10. ASSUME NEW t \in Threads, BeginStage(t)
      PROVE  PermitsAreHeld'
  <2>1. /\ permits' = permits
        /\ \A u \in Threads : pc'[u] \in Holding <=> pc[u] \in Holding
    BY <1>0, <1>10 DEF BeginStage, BeginRun, NoActiveRun, Left, runVars,
       dataVars, callVars, TypeOK, Holding, Inside
  <2> QED
    BY <1>0, <2>1, SameHolders
<1>11. ASSUME NEW t \in Threads, BeginStageFails(t)
      PROVE  PermitsAreHeld'
  <2>1. /\ permits' = permits
        /\ \A u \in Threads : pc'[u] \in Holding <=> pc[u] \in Holding
    BY <1>0, <1>11 DEF BeginStageFails, BeginFails, NoActiveRun,
       Outside, Left, runVars, dataVars, callVars, TypeOK, Holding,
       Inside
  <2> QED
    BY <1>0, <2>1, SameHolders
<1>12. ASSUME NEW t \in Threads, NEW c \in Copies, Snapshot(t, c)
      PROVE  PermitsAreHeld'
  <2>1. /\ permits' = permits
        /\ \A u \in Threads : pc'[u] \in Holding <=> pc[u] \in Holding
    BY <1>0, <1>12 DEF Snapshot, Between, NoActiveRun, Save, runVars,
       dataVars, callVars, TypeOK, Holding, Inside
  <2> QED
    BY <1>0, <2>1, SameHolders
<1>13. ASSUME NEW t \in Threads, Reset(t)
      PROVE  PermitsAreHeld'
  <2>1. /\ permits' = permits
        /\ \A u \in Threads : pc'[u] \in Holding <=> pc[u] \in Holding
    BY <1>0, <1>13 DEF Reset, Between, NoActiveRun, Fresh, Left,
       runVars, dataVars, callVars, TypeOK, Holding, Inside
  <2> QED
    BY <1>0, <2>1, SameHolders
<1>14. ASSUME NEW t \in Threads, ReleaseStage(t)
      PROVE  PermitsAreHeld'
  <2>1. /\ permits' = permits
        /\ \A u \in Threads : pc'[u] \in Holding <=> pc[u] \in Holding
    BY <1>0, <1>14 DEF ReleaseStage, Between, NoActiveRun, Outside,
       Left, runVars, dataVars, callVars, TypeOK, Holding, Inside
  <2> QED
    BY <1>0, <2>1, SameHolders
<1>15. ASSUME NEW t \in Threads, Fork(t)
      PROVE  PermitsAreHeld'
  <2>1. /\ permits' = permits
        /\ \A u \in Threads : pc'[u] \in Holding <=> pc[u] \in Holding
    BY <1>0, <1>15 DEF Fork, NoActiveRun, Call, Goto, runVars, dataVars,
       callVars, TypeOK, Holding, Inside
  <2> QED
    BY <1>0, <2>1, SameHolders
<1>16. ASSUME NEW t \in Threads, AdmissionThrows(t)
      PROVE  PermitsAreHeld'
  <2>1. /\ permits' = permits
        /\ \A u \in Threads : pc'[u] \in Holding <=> pc[u] \in Holding
    BY <1>0, <1>16 DEF AdmissionThrows, Goto, Return, runVars, dataVars,
       callVars, TypeOK, Holding, Inside
  <2> QED
    BY <1>0, <2>1, SameHolders
<1>17. ASSUME NEW t \in Threads, Poll(t)
      PROVE  PermitsAreHeld'
  <2>1. /\ permits' = permits
        /\ \A u \in Threads : pc'[u] \in Holding <=> pc[u] \in Holding
    BY <1>0, <1>17 DEF Poll, Goto, runVars, dataVars, callVars, TypeOK,
       Holding, Inside
  <2> QED
    BY <1>0, <2>1, SameHolders
<1>18. ASSUME NEW t \in Threads, PollThrows(t)
      PROVE  PermitsAreHeld'
  <2>1. /\ permits' = permits
        /\ \A u \in Threads : pc'[u] \in Holding <=> pc[u] \in Holding
    BY <1>0, <1>18 DEF PollThrows, Throw, ReleaseSlot, Goto, runVars,
       dataVars, callVars, TypeOK, Holding, Inside
  <2> QED
    BY <1>0, <2>1, SameHolders
<1>19. ASSUME NEW t \in Threads, Execute(t)
      PROVE  PermitsAreHeld'
  <2>1. /\ permits' = permits
        /\ \A u \in Threads : pc'[u] \in Holding <=> pc[u] \in Holding
    BY <1>0, <1>19 DEF Execute, Goto, Outside, Left, runVars, dataVars,
       callVars, TypeOK, Holding, Inside
  <2> QED
    BY <1>0, <2>1, SameHolders
<1>20. ASSUME NEW t \in Threads, Emit(t)
      PROVE  PermitsAreHeld'
  <2>1. /\ permits' = permits
        /\ \A u \in Threads : pc'[u] \in Holding <=> pc[u] \in Holding
    BY <1>0, <1>20 DEF Emit, Goto, runVars, dataVars, callVars, TypeOK,
       Holding, Inside
  <2> QED
    BY <1>0, <2>1, SameHolders
<1>21. ASSUME NEW t \in Threads, Complete(t)
      PROVE  PermitsAreHeld'
  <2>1. /\ permits' = permits
        /\ \A u \in Threads : pc'[u] \in Holding <=> pc[u] \in Holding
    BY <1>0, <1>21 DEF Complete, ReleaseSlot, Goto, runVars, dataVars,
       callVars, TypeOK, Holding, Inside
  <2> QED
    BY <1>0, <2>1, SameHolders
<1>22. ASSUME NEW t \in Threads, StepThrows(t)
      PROVE  PermitsAreHeld'
  <2>1. /\ permits' = permits
        /\ \A u \in Threads : pc'[u] \in Holding <=> pc[u] \in Holding
    BY <1>0, <1>22 DEF StepThrows, Throw, ReleaseSlot, Goto, runVars,
       dataVars, callVars, TypeOK, Holding, Inside
  <2> QED
    BY <1>0, <2>1, SameHolders
<1>23. ASSUME NEW t \in Threads, ReturnPermit(t)
      PROVE  PermitsAreHeld'
  <2> DEFINE H == {u \in Threads : pc[u] \in Holding}
  <2>1. {u \in Threads : pc'[u] \in Holding} = H \ {t} /\ t \in H
    BY <1>0, <1>23 DEF ReturnPermit, Return, Goto, TypeOK, Holding, Inside
  <2>2. IsFiniteSet(H)
    BY ThreadsAssumption, FS_Subset
  <2>3. Cardinality(H \ {t}) = Cardinality(H) - 1
    BY <2>1, <2>2, FS_RemoveElement
  <2> QED
    BY <1>0, <2>1, <2>3, <1>23 DEF ReturnPermit, PermitsAreHeld
<1>24. ASSUME NEW t \in Threads, Admit(t)
      PROVE  PermitsAreHeld'
  <2> DEFINE H == {u \in Threads : pc[u] \in Holding}
  <2>1. {u \in Threads : pc'[u] \in Holding} = H \cup {t} /\ t \notin H
    BY <1>0, <1>24 DEF Admit, Goto, TypeOK, Holding, Inside
  <2>2. IsFiniteSet(H)
    BY ThreadsAssumption, FS_Subset
  <2>3. Cardinality(H \cup {t}) = Cardinality(H) + 1
    BY <2>1, <2>2, FS_AddElement
  <2> QED
    BY <1>0, <2>1, <2>3, <1>24 DEF Admit, PermitsAreHeld
<1>25. ASSUME NEW t \in Threads, EnterRun(t)
      PROVE  PermitsAreHeld'
  <2>1. /\ permits' = permits
        /\ \A u \in Threads : pc'[u] \in Holding <=> pc[u] \in Holding
    BY <1>0, <1>25 DEF EnterRun, Goto, CanGoOn, runVars, dataVars,
       callVars, TypeOK, Holding, Inside
  <2> QED
    BY <1>0, <2>1, SameHolders
<1>26. ASSUME NEW t \in Threads, EnterRunStage(t)
      PROVE  PermitsAreHeld'
  <2>1. /\ permits' = permits
        /\ \A u \in Threads : pc'[u] \in Holding <=> pc[u] \in Holding
    BY <1>0, <1>26 DEF EnterRunStage, BeginRun, NoActiveRun, Left, Goto,
       runVars, dataVars, callVars, TypeOK, Holding, Inside
  <2> QED
    BY <1>0, <2>1, SameHolders
<1>27. ASSUME NEW t \in Threads, RunStageFails(t)
      PROVE  PermitsAreHeld'
  <2>1. /\ permits' = permits
        /\ \A u \in Threads : pc'[u] \in Holding <=> pc[u] \in Holding
    BY <1>0, <1>27 DEF RunStageFails, BeginFails, NoActiveRun, Outside,
       Left, Goto, runVars, dataVars, callVars, TypeOK, Holding, Inside
  <2> QED
    BY <1>0, <2>1, SameHolders
<1>28. ASSUME NEW t \in Threads, EnterStepStage(t)
      PROVE  PermitsAreHeld'
  <2>1. /\ permits' = permits
        /\ \A u \in Threads : pc'[u] \in Holding <=> pc[u] \in Holding
    BY <1>0, <1>28 DEF EnterStepStage, NoActiveRun, Goto, runVars,
       dataVars, callVars, TypeOK, Holding, Inside
  <2> QED
    BY <1>0, <2>1, SameHolders
<1>29. ASSUME NEW t \in Threads, CloseFailed(t)
      PROVE  PermitsAreHeld'
  <2>1. /\ permits' = permits
        /\ \A u \in Threads : pc'[u] \in Holding <=> pc[u] \in Holding
    BY <1>0, <1>29 DEF CloseFailed, ReleaseSlot, Return, Goto, runVars,
       dataVars, callVars, TypeOK, Holding, Inside
  <2> QED
    BY <1>0, <2>1, SameHolders
<1>30. ASSUME NEW t \in Threads, NEW c \in Copies, ForkSnapshot(t, c)
      PROVE  PermitsAreHeld'
  <2>1. /\ permits' = permits
        /\ \A u \in Threads : pc'[u] \in Holding <=> pc[u] \in Holding
    BY <1>0, <1>30 DEF ForkSnapshot, NoActiveRun, Save, Return, Goto,
       runVars, dataVars, callVars, TypeOK, Holding, Inside
  <2> QED
    BY <1>0, <2>1, SameHolders
<1>31. ASSUME NEW r \in Runs, RequestCancellation(r)
      PROVE  PermitsAreHeld'
  BY <1>0, <1>31 DEF RequestCancellation, runVars, dataVars, callVars,
     PermitsAreHeld
<1>32. ASSUME UNCHANGED vars
      PROVE  PermitsAreHeld'
  BY <1>0, <1>32 DEF vars, runVars, dataVars, callVars, PermitsAreHeld
<1> QED
  BY <1>1, <1>2, <1>3, <1>4, <1>5, <1>6, <1>7, <1>8, <1>9, <1>10, <1>11,
     <1>12, <1>13, <1>14, <1>15, <1>16, <1>17, <1>18, <1>19, <1>20, <1>21,
     <1>22, <1>23, <1>24, <1>25, <1>26, <1>27, <1>28, <1>29, <1>30, <1>31,
     <1>32 DEF Next, Optional, Steps, Waits


(* Every step is one of ExclusiveRuns or a stutter.                        *)
LEMMA RefinementStep == IInv /\ [Next]_vars => [Exclusive!Next]_(Exclusive!vars)
<1> SUFFICES ASSUME IInv, [Next]_vars
             PROVE  [Exclusive!Next]_(Exclusive!vars)
  OBVIOUS
<1>0. /\ TypeOK
      /\ CallsAgree
  BY DEF IInv
<1>1. ASSUME NEW t \in Threads, NEW r \in Runs, StepCall(t, r)
      PROVE  [Exclusive!Next]_(Exclusive!vars)
  BY <1>0, <1>1 DEF StepCall, Call, Goto, runVars, dataVars, callVars,
     Exclusive!vars
<1>2. ASSUME NEW t \in Threads, NEW r \in Runs, FinishCall(t, r)
      PROVE  [Exclusive!Next]_(Exclusive!vars)
  BY <1>0, <1>2 DEF FinishCall, Call, Goto, runVars, dataVars, callVars,
     Exclusive!vars
<1>3. ASSUME NEW t \in Threads, NEW r \in Runs, Cancel(t, r)
      PROVE  [Exclusive!Next]_(Exclusive!vars)
  <2>1. CASE active = r /\ active # 0
    <3>1. Exclusive!End
      BY <2>1, <1>3 DEF Cancel, ReleaseSlot, runVars, dataVars,
         callVars, Exclusive!End
    <3> QED
      BY <3>1 DEF Exclusive!Next
  <2>2. CASE ~(active = r /\ active # 0)
    BY <2>2, <1>3 DEF Cancel, ReleaseSlot, runVars, dataVars, callVars,
       Exclusive!vars
  <2> QED
    BY <2>1, <2>2
<1>4. ASSUME NEW t \in Threads, NEW r \in Runs, Destroy(t, r)
      PROVE  [Exclusive!Next]_(Exclusive!vars)
  <2>1. CASE active = r /\ active # 0
    <3>1. Exclusive!End
      BY <2>1, <1>4 DEF Destroy, ReleaseSlot, runVars, dataVars,
         callVars, Exclusive!End
    <3> QED
      BY <3>1 DEF Exclusive!Next
  <2>2. CASE ~(active = r /\ active # 0)
    BY <2>2, <1>4 DEF Destroy, ReleaseSlot, runVars, dataVars, callVars,
       Exclusive!vars
  <2> QED
    BY <2>1, <2>2
<1>5. ASSUME NEW t \in Threads, NEW n \in Names, Checkpoint(t, n)
      PROVE  [Exclusive!Next]_(Exclusive!vars)
  <2>1. n \in Holders /\ Exclusive!Save(n)
    BY <1>5 DEF Checkpoint, Between, NoActiveRun, Save, runVars,
       dataVars, callVars, Holders, Exclusive!Save
  <2> QED
    BY <2>1 DEF Exclusive!Next
<1>6. ASSUME NEW t \in Threads, NEW n \in Names, DropCheckpoint(t, n)
      PROVE  [Exclusive!Next]_(Exclusive!vars)
  <2>1. n \in Holders /\ Exclusive!Save(n)
    BY <1>6 DEF DropCheckpoint, Between, NoActiveRun, runVars, dataVars,
       callVars, Holders, Exclusive!Save
  <2> QED
    BY <2>1 DEF Exclusive!Next
<1>7. ASSUME NEW t \in Threads, NEW h \in Holders, Restore(t, h)
      PROVE  [Exclusive!Next]_(Exclusive!vars)
  <2>1. /\ active = 0 /\ UNCHANGED <<nextRun, active, applied>>
        /\ \/ data' \in {Exclusive!Outside, Exclusive!Fresh}
           \/ \E x \in Holders : saved[x] # None /\ data' = saved[x]
    BY <1>7 DEF Restore, Between, NoActiveRun, runVars, dataVars,
       callVars, Exclusive!Left, Exclusive!Outside, Exclusive!Fresh
  <2>2. PICK forgotten \in SUBSET Holders :
            saved' = [x \in Holders |-> IF x \in forgotten THEN None ELSE saved[x]]
    <3>1. saved' = [x \in Holders |-> IF x \in {} THEN None ELSE saved[x]]
      BY <1>0, <1>7 DEF Restore, TypeOK
    <3>2. {} \in SUBSET Holders
      OBVIOUS
    <3> QED
      BY <3>1, <3>2
  <2>3. Exclusive!Change
    BY <2>1, <2>2 DEF Exclusive!Change
  <2> QED
    BY <2>3 DEF Exclusive!Next
<1>8. ASSUME NEW t \in Threads, RunStageCall(t)
      PROVE  [Exclusive!Next]_(Exclusive!vars)
  BY <1>0, <1>8 DEF RunStageCall, Call, Goto, runVars, dataVars, callVars,
     Exclusive!vars
<1>9. ASSUME NEW t \in Threads, StepStageCall(t)
      PROVE  [Exclusive!Next]_(Exclusive!vars)
  BY <1>0, <1>9 DEF StepStageCall, Call, Goto, runVars, dataVars,
     callVars, Exclusive!vars
<1>10. ASSUME NEW t \in Threads, BeginStage(t)
      PROVE  [Exclusive!Next]_(Exclusive!vars)
  <2>1. Exclusive!Begin
    BY BoundsAssumption, <1>0, <1>10 DEF BeginStage, BeginRun,
       NoActiveRun, Left, runVars, dataVars, callVars, TypeOK,
       Exclusive!Begin, Exclusive!Left
  <2> QED
    BY <2>1 DEF Exclusive!Next
<1>11. ASSUME NEW t \in Threads, BeginStageFails(t)
      PROVE  [Exclusive!Next]_(Exclusive!vars)
  <2>1. /\ UNCHANGED data \/ (active = 0 /\ data' = Outside)
        /\ UNCHANGED <<nextRun, active, applied, saved>>
    BY <1>11 DEF BeginStageFails, BeginFails, NoActiveRun, runVars
  <2>2. CASE UNCHANGED data
    BY <2>1, <2>2 DEF Exclusive!vars
  <2> QED
    BY <1>0, <2>1, <2>2, OutsideRefines
<1>12. ASSUME NEW t \in Threads, NEW c \in Copies, Snapshot(t, c)
      PROVE  [Exclusive!Next]_(Exclusive!vars)
  <2>1. c \in Holders /\ Exclusive!Save(c)
    BY <1>12 DEF Snapshot, Between, NoActiveRun, Save, runVars,
       dataVars, callVars, Holders, Exclusive!Save
  <2> QED
    BY <2>1 DEF Exclusive!Next
<1>13. ASSUME NEW t \in Threads, Reset(t)
      PROVE  [Exclusive!Next]_(Exclusive!vars)
  <2>1. /\ active = 0 /\ UNCHANGED <<nextRun, active, applied>>
        /\ \/ data' \in {Exclusive!Outside, Exclusive!Fresh}
           \/ \E x \in Holders : saved[x] # None /\ data' = saved[x]
    BY <1>13 DEF Reset, Between, NoActiveRun, Fresh, Left, runVars,
       dataVars, callVars, Exclusive!Left, Exclusive!Outside,
       Exclusive!Fresh
  <2>2. PICK forgotten \in SUBSET Holders :
            saved' = [x \in Holders |-> IF x \in forgotten THEN None ELSE saved[x]]
    <3>1. Names \in SUBSET Holders
      BY DEF Holders
    <3> QED
      BY <3>1, <1>13 DEF Reset
  <2>3. Exclusive!Change
    BY <2>1, <2>2 DEF Exclusive!Change
  <2> QED
    BY <2>3 DEF Exclusive!Next
<1>14. ASSUME NEW t \in Threads, ReleaseStage(t)
      PROVE  [Exclusive!Next]_(Exclusive!vars)
  <2>1. /\ active = 0 /\ UNCHANGED <<nextRun, active, applied>>
        /\ \/ data' \in {Exclusive!Outside, Exclusive!Fresh}
           \/ \E x \in Holders : saved[x] # None /\ data' = saved[x]
    BY <1>14 DEF ReleaseStage, Between, NoActiveRun, Outside, Left,
       runVars, dataVars, callVars, Exclusive!Left, Exclusive!Outside,
       Exclusive!Fresh
  <2>2. PICK forgotten \in SUBSET Holders :
            saved' = [x \in Holders |-> IF x \in forgotten THEN None ELSE saved[x]]
    <3>1. saved' = [x \in Holders |-> IF x \in {} THEN None ELSE saved[x]]
      BY <1>0, <1>14 DEF ReleaseStage, TypeOK
    <3>2. {} \in SUBSET Holders
      OBVIOUS
    <3> QED
      BY <3>1, <3>2
  <2>3. Exclusive!Change
    BY <2>1, <2>2 DEF Exclusive!Change
  <2> QED
    BY <2>3 DEF Exclusive!Next
<1>15. ASSUME NEW t \in Threads, Fork(t)
      PROVE  [Exclusive!Next]_(Exclusive!vars)
  BY <1>0, <1>15 DEF Fork, NoActiveRun, Call, Goto, runVars, dataVars,
     callVars, Exclusive!vars
<1>16. ASSUME NEW t \in Threads, AdmissionThrows(t)
      PROVE  [Exclusive!Next]_(Exclusive!vars)
  BY <1>0, <1>16 DEF AdmissionThrows, Goto, Return, runVars, dataVars,
     callVars, Exclusive!vars
<1>17. ASSUME NEW t \in Threads, Poll(t)
      PROVE  [Exclusive!Next]_(Exclusive!vars)
  BY <1>0, <1>17 DEF Poll, Goto, runVars, dataVars, callVars, Exclusive!vars
<1>18. ASSUME NEW t \in Threads, PollThrows(t)
      PROVE  [Exclusive!Next]_(Exclusive!vars)
  <2>1. Throw(t) /\ pc[t] \in Inside
    BY <1>18 DEF PollThrows, Throw, Inside
  <2> QED
    BY <1>0, <2>1, ThrowRefines
<1>19. ASSUME NEW t \in Threads, Execute(t)
      PROVE  [Exclusive!Next]_(Exclusive!vars)
  <2>1. pc[t] \in Inside
    BY <1>19 DEF Execute, Inside
  <2>2. CASE op[t] = "direct"
    <3>1. active = 0
      BY <1>0, <2>1, <2>2, InsideRun
    <3> QED
      BY <1>0, <2>2, <3>1, <1>19, OutsideRefines DEF Execute, runVars
  <2>3. CASE op[t] # "direct"
    <3>1. active = run[t] /\ run[t] # 0
      BY <1>0, <2>1, <2>3, InsideRun
    <3>2. Exclusive!Advance
      BY <2>3, <3>1, <1>19 DEF Execute, runVars, Left,
         Exclusive!Advance, Exclusive!Left
    <3> QED
      BY <3>2 DEF Exclusive!Next
  <2> QED
    BY <2>2, <2>3
<1>20. ASSUME NEW t \in Threads, Emit(t)
      PROVE  [Exclusive!Next]_(Exclusive!vars)
  BY <1>0, <1>20 DEF Emit, Goto, runVars, dataVars, callVars, Exclusive!vars
<1>21. ASSUME NEW t \in Threads, Complete(t)
      PROVE  [Exclusive!Next]_(Exclusive!vars)
  <2>1. active = run[t] /\ run[t] # 0
    BY <1>0, InsideRun, <1>21 DEF Complete, Inside
  <2>2. Exclusive!End
    BY <2>1, <1>21 DEF Complete, ReleaseSlot, dataVars, Exclusive!End
  <2> QED
    BY <2>2 DEF Exclusive!Next
<1>22. ASSUME NEW t \in Threads, StepThrows(t)
      PROVE  [Exclusive!Next]_(Exclusive!vars)
  <2>1. Throw(t) /\ pc[t] \in Inside
    BY <1>22 DEF StepThrows, Throw, Inside
  <2> QED
    BY <1>0, <2>1, ThrowRefines
<1>23. ASSUME NEW t \in Threads, ReturnPermit(t)
      PROVE  [Exclusive!Next]_(Exclusive!vars)
  BY <1>0, <1>23 DEF ReturnPermit, Goto, Return, runVars, dataVars,
     callVars, Exclusive!vars
<1>24. ASSUME NEW t \in Threads, Admit(t)
      PROVE  [Exclusive!Next]_(Exclusive!vars)
  BY <1>0, <1>24 DEF Admit, Goto, runVars, dataVars, callVars, Exclusive!vars
<1>25. ASSUME NEW t \in Threads, EnterRun(t)
      PROVE  [Exclusive!Next]_(Exclusive!vars)
  BY <1>0, <1>25 DEF EnterRun, Goto, CanGoOn, runVars, dataVars, callVars,
     Exclusive!vars
<1>26. ASSUME NEW t \in Threads, EnterRunStage(t)
      PROVE  [Exclusive!Next]_(Exclusive!vars)
  <2>1. Exclusive!Begin
    BY BoundsAssumption, <1>0, <1>26 DEF EnterRunStage, BeginRun,
       NoActiveRun, Left, Goto, runVars, dataVars, callVars, TypeOK,
       Exclusive!Begin, Exclusive!Left
  <2> QED
    BY <2>1 DEF Exclusive!Next
<1>27. ASSUME NEW t \in Threads, RunStageFails(t)
      PROVE  [Exclusive!Next]_(Exclusive!vars)
  <2>1. /\ UNCHANGED data \/ (active = 0 /\ data' = Outside)
        /\ UNCHANGED <<nextRun, active, applied, saved>>
    BY <1>27 DEF RunStageFails, BeginFails, NoActiveRun, runVars
  <2>2. CASE UNCHANGED data
    BY <2>1, <2>2 DEF Exclusive!vars
  <2> QED
    BY <1>0, <2>1, <2>2, OutsideRefines
<1>28. ASSUME NEW t \in Threads, EnterStepStage(t)
      PROVE  [Exclusive!Next]_(Exclusive!vars)
  BY <1>0, <1>28 DEF EnterStepStage, NoActiveRun, Goto, runVars, dataVars,
     callVars, Exclusive!vars
<1>29. ASSUME NEW t \in Threads, CloseFailed(t)
      PROVE  [Exclusive!Next]_(Exclusive!vars)
  <2>1. CASE active = run[t] /\ active # 0
    <3>1. Exclusive!End
      BY <2>1, <1>29 DEF CloseFailed, ReleaseSlot, Return, Goto,
         runVars, dataVars, callVars, Exclusive!End
    <3> QED
      BY <3>1 DEF Exclusive!Next
  <2>2. CASE ~(active = run[t] /\ active # 0)
    BY <2>2, <1>29 DEF CloseFailed, ReleaseSlot, Return, Goto, runVars,
       dataVars, callVars, Exclusive!vars
  <2> QED
    BY <2>1, <2>2
<1>30. ASSUME NEW t \in Threads, NEW c \in Copies, ForkSnapshot(t, c)
      PROVE  [Exclusive!Next]_(Exclusive!vars)
  <2>1. CASE active = 0
    <3>1. c \in Holders /\ Exclusive!Save(c)
      BY <2>1, <1>30 DEF ForkSnapshot, NoActiveRun, Save, runVars, Holders,
         Exclusive!Save
    <3> QED
      BY <3>1 DEF Exclusive!Next
  <2>2. CASE active # 0
    BY <2>2, <1>30 DEF ForkSnapshot, NoActiveRun, runVars, Exclusive!vars
  <2> QED
    BY <2>1, <2>2
<1>31. ASSUME NEW r \in Runs, RequestCancellation(r)
      PROVE  [Exclusive!Next]_(Exclusive!vars)
  BY <1>0, <1>31 DEF RequestCancellation, runVars, dataVars, callVars,
     Exclusive!vars
<1>32. ASSUME UNCHANGED vars
      PROVE  [Exclusive!Next]_(Exclusive!vars)
  BY <1>0, <1>32 DEF vars, runVars, dataVars, callVars, Exclusive!vars
<1> QED
  BY <1>1, <1>2, <1>3, <1>4, <1>5, <1>6, <1>7, <1>8, <1>9, <1>10, <1>11,
     <1>12, <1>13, <1>14, <1>15, <1>16, <1>17, <1>18, <1>19, <1>20, <1>21,
     <1>22, <1>23, <1>24, <1>25, <1>26, <1>27, <1>28, <1>29, <1>30, <1>31,
     <1>32 DEF Next, Optional, Steps, Waits


(* Ended runs stay ended and apply nothing.                                *)
LEMMA RestStep == IInv /\ [Next]_vars => (\A q \in Runs : Ended(q) => Ended(q)' /\ applied'[q] = applied[q])
<1> SUFFICES ASSUME IInv, [Next]_vars
             PROVE  (\A q \in Runs : Ended(q) => Ended(q)' /\ applied'[q] = applied[q])
  OBVIOUS
<1>0. /\ TypeOK
      /\ CallsAgree
      /\ OpenRunHasSlot
  BY DEF IInv
<1>1. ASSUME NEW t \in Threads, NEW r \in Runs, StepCall(t, r)
      PROVE  (\A q \in Runs : Ended(q) => Ended(q)' /\ applied'[q] = applied[q])
  BY <1>0, <1>1 DEF StepCall, Call, Goto, runVars, dataVars, callVars,
     TypeOK, Ended
<1>2. ASSUME NEW t \in Threads, NEW r \in Runs, FinishCall(t, r)
      PROVE  (\A q \in Runs : Ended(q) => Ended(q)' /\ applied'[q] = applied[q])
  BY <1>0, <1>2 DEF FinishCall, Call, Goto, runVars, dataVars, callVars,
     TypeOK, Ended
<1>3. ASSUME NEW t \in Threads, NEW r \in Runs, Cancel(t, r)
      PROVE  (\A q \in Runs : Ended(q) => Ended(q)' /\ applied'[q] = applied[q])
  BY <1>0, <1>3 DEF Cancel, ReleaseSlot, runVars, dataVars, callVars,
     TypeOK, Ended
<1>4. ASSUME NEW t \in Threads, NEW r \in Runs, Destroy(t, r)
      PROVE  (\A q \in Runs : Ended(q) => Ended(q)' /\ applied'[q] = applied[q])
  BY <1>0, <1>4 DEF Destroy, ReleaseSlot, runVars, dataVars, callVars,
     TypeOK, Ended
<1>5. ASSUME NEW t \in Threads, NEW n \in Names, Checkpoint(t, n)
      PROVE  (\A q \in Runs : Ended(q) => Ended(q)' /\ applied'[q] = applied[q])
  BY <1>0, <1>5 DEF Checkpoint, Between, NoActiveRun, Save, runVars,
     dataVars, callVars, TypeOK, Ended
<1>6. ASSUME NEW t \in Threads, NEW n \in Names, DropCheckpoint(t, n)
      PROVE  (\A q \in Runs : Ended(q) => Ended(q)' /\ applied'[q] = applied[q])
  BY <1>0, <1>6 DEF DropCheckpoint, Between, NoActiveRun, runVars,
     dataVars, callVars, TypeOK, Ended
<1>7. ASSUME NEW t \in Threads, NEW h \in Holders, Restore(t, h)
      PROVE  (\A q \in Runs : Ended(q) => Ended(q)' /\ applied'[q] = applied[q])
  BY <1>0, <1>7 DEF Restore, Between, NoActiveRun, runVars, dataVars,
     callVars, TypeOK, Ended
<1>8. ASSUME NEW t \in Threads, RunStageCall(t)
      PROVE  (\A q \in Runs : Ended(q) => Ended(q)' /\ applied'[q] = applied[q])
  BY <1>0, <1>8 DEF RunStageCall, Call, Goto, runVars, dataVars, callVars,
     TypeOK, Ended
<1>9. ASSUME NEW t \in Threads, StepStageCall(t)
      PROVE  (\A q \in Runs : Ended(q) => Ended(q)' /\ applied'[q] = applied[q])
  BY <1>0, <1>9 DEF StepStageCall, Call, Goto, runVars, dataVars,
     callVars, TypeOK, Ended
<1>10. ASSUME NEW t \in Threads, BeginStage(t)
      PROVE  (\A q \in Runs : Ended(q) => Ended(q)' /\ applied'[q] = applied[q])
  BY <1>0, <1>10 DEF BeginStage, BeginRun, NoActiveRun, Left, runVars,
     dataVars, callVars, TypeOK, Ended
<1>11. ASSUME NEW t \in Threads, BeginStageFails(t)
      PROVE  (\A q \in Runs : Ended(q) => Ended(q)' /\ applied'[q] = applied[q])
  BY <1>0, <1>11 DEF BeginStageFails, BeginFails, NoActiveRun, Outside,
     Left, runVars, dataVars, callVars, TypeOK, Ended
<1>12. ASSUME NEW t \in Threads, NEW c \in Copies, Snapshot(t, c)
      PROVE  (\A q \in Runs : Ended(q) => Ended(q)' /\ applied'[q] = applied[q])
  BY <1>0, <1>12 DEF Snapshot, Between, NoActiveRun, Save, runVars,
     dataVars, callVars, TypeOK, Ended
<1>13. ASSUME NEW t \in Threads, Reset(t)
      PROVE  (\A q \in Runs : Ended(q) => Ended(q)' /\ applied'[q] = applied[q])
  BY <1>0, <1>13 DEF Reset, Between, NoActiveRun, Fresh, Left, runVars,
     dataVars, callVars, TypeOK, Ended
<1>14. ASSUME NEW t \in Threads, ReleaseStage(t)
      PROVE  (\A q \in Runs : Ended(q) => Ended(q)' /\ applied'[q] = applied[q])
  BY <1>0, <1>14 DEF ReleaseStage, Between, NoActiveRun, Outside, Left,
     runVars, dataVars, callVars, TypeOK, Ended
<1>15. ASSUME NEW t \in Threads, Fork(t)
      PROVE  (\A q \in Runs : Ended(q) => Ended(q)' /\ applied'[q] = applied[q])
  BY <1>0, <1>15 DEF Fork, NoActiveRun, Call, Goto, runVars, dataVars,
     callVars, TypeOK, Ended
<1>16. ASSUME NEW t \in Threads, AdmissionThrows(t)
      PROVE  (\A q \in Runs : Ended(q) => Ended(q)' /\ applied'[q] = applied[q])
  BY <1>0, <1>16 DEF AdmissionThrows, Goto, Return, runVars, dataVars,
     callVars, TypeOK, Ended
<1>17. ASSUME NEW t \in Threads, Poll(t)
      PROVE  (\A q \in Runs : Ended(q) => Ended(q)' /\ applied'[q] = applied[q])
  BY <1>0, <1>17 DEF Poll, Goto, runVars, dataVars, callVars, TypeOK, Ended
<1>18. ASSUME NEW t \in Threads, PollThrows(t)
      PROVE  (\A q \in Runs : Ended(q) => Ended(q)' /\ applied'[q] = applied[q])
  <2>1. Throw(t) /\ pc[t] \in Inside /\ UNCHANGED applied
    BY <1>18 DEF PollThrows, Throw, Inside, dataVars
  <2> QED
    BY <1>0, <2>1, ThrowEnded
<1>19. ASSUME NEW t \in Threads, Execute(t)
      PROVE  (\A q \in Runs : Ended(q) => Ended(q)' /\ applied'[q] = applied[q])
  <2>1. UNCHANGED <<completed, closed>>
    BY <1>19 DEF Execute, runVars
  <2> QED
    BY <1>0, <2>1, <1>19, ExecuteOpen DEF Ended
<1>20. ASSUME NEW t \in Threads, Emit(t)
      PROVE  (\A q \in Runs : Ended(q) => Ended(q)' /\ applied'[q] = applied[q])
  BY <1>0, <1>20 DEF Emit, Goto, runVars, dataVars, callVars, TypeOK, Ended
<1>21. ASSUME NEW t \in Threads, Complete(t)
      PROVE  (\A q \in Runs : Ended(q) => Ended(q)' /\ applied'[q] = applied[q])
  BY <1>0, <1>21 DEF Complete, ReleaseSlot, Goto, runVars, dataVars,
     callVars, TypeOK, Ended
<1>22. ASSUME NEW t \in Threads, StepThrows(t)
      PROVE  (\A q \in Runs : Ended(q) => Ended(q)' /\ applied'[q] = applied[q])
  <2>1. Throw(t) /\ pc[t] \in Inside /\ UNCHANGED applied
    BY <1>22 DEF StepThrows, Throw, Inside, dataVars
  <2> QED
    BY <1>0, <2>1, ThrowEnded
<1>23. ASSUME NEW t \in Threads, ReturnPermit(t)
      PROVE  (\A q \in Runs : Ended(q) => Ended(q)' /\ applied'[q] = applied[q])
  BY <1>0, <1>23 DEF ReturnPermit, Goto, Return, runVars, dataVars,
     callVars, TypeOK, Ended
<1>24. ASSUME NEW t \in Threads, Admit(t)
      PROVE  (\A q \in Runs : Ended(q) => Ended(q)' /\ applied'[q] = applied[q])
  BY <1>0, <1>24 DEF Admit, Goto, runVars, dataVars, callVars, TypeOK, Ended
<1>25. ASSUME NEW t \in Threads, EnterRun(t)
      PROVE  (\A q \in Runs : Ended(q) => Ended(q)' /\ applied'[q] = applied[q])
  BY <1>0, <1>25 DEF EnterRun, Goto, CanGoOn, runVars, dataVars, callVars,
     TypeOK, Ended
<1>26. ASSUME NEW t \in Threads, EnterRunStage(t)
      PROVE  (\A q \in Runs : Ended(q) => Ended(q)' /\ applied'[q] = applied[q])
  BY <1>0, <1>26 DEF EnterRunStage, BeginRun, NoActiveRun, Left, Goto,
     runVars, dataVars, callVars, TypeOK, Ended
<1>27. ASSUME NEW t \in Threads, RunStageFails(t)
      PROVE  (\A q \in Runs : Ended(q) => Ended(q)' /\ applied'[q] = applied[q])
  BY <1>0, <1>27 DEF RunStageFails, BeginFails, NoActiveRun, Outside,
     Left, Goto, runVars, dataVars, callVars, TypeOK, Ended
<1>28. ASSUME NEW t \in Threads, EnterStepStage(t)
      PROVE  (\A q \in Runs : Ended(q) => Ended(q)' /\ applied'[q] = applied[q])
  BY <1>0, <1>28 DEF EnterStepStage, NoActiveRun, Goto, runVars, dataVars,
     callVars, TypeOK, Ended
<1>29. ASSUME NEW t \in Threads, CloseFailed(t)
      PROVE  (\A q \in Runs : Ended(q) => Ended(q)' /\ applied'[q] = applied[q])
  BY <1>0, <1>29 DEF CloseFailed, ReleaseSlot, Return, Goto, runVars,
     dataVars, callVars, TypeOK, Ended
<1>30. ASSUME NEW t \in Threads, NEW c \in Copies, ForkSnapshot(t, c)
      PROVE  (\A q \in Runs : Ended(q) => Ended(q)' /\ applied'[q] = applied[q])
  BY <1>0, <1>30 DEF ForkSnapshot, NoActiveRun, Save, Return, Goto,
     runVars, dataVars, callVars, TypeOK, Ended
<1>31. ASSUME NEW r \in Runs, RequestCancellation(r)
      PROVE  (\A q \in Runs : Ended(q) => Ended(q)' /\ applied'[q] = applied[q])
  BY <1>0, <1>31 DEF RequestCancellation, runVars, dataVars, callVars,
     TypeOK, Ended
<1>32. ASSUME UNCHANGED vars
      PROVE  (\A q \in Runs : Ended(q) => Ended(q)' /\ applied'[q] = applied[q])
  BY <1>0, <1>32 DEF vars, runVars, dataVars, callVars, TypeOK, Ended
<1> QED
  BY <1>1, <1>2, <1>3, <1>4, <1>5, <1>6, <1>7, <1>8, <1>9, <1>10, <1>11,
     <1>12, <1>13, <1>14, <1>15, <1>16, <1>17, <1>18, <1>19, <1>20, <1>21,
     <1>22, <1>23, <1>24, <1>25, <1>26, <1>27, <1>28, <1>29, <1>30, <1>31,
     <1>32 DEF Next, Optional, Steps, Waits

LEMMA InitInvariant == Init => IInv
<1> SUFFICES ASSUME Init
             PROVE  IInv
  OBVIOUS
<1>1. TypeOK
  BY BoundsAssumption DEF Init, TypeOK, Fresh, Left, AllData, Runs, Pcs, Ops
<1>2. CallsAgree
  BY ThreadsAssumption DEF Init, CallsAgree, CallAgrees, Inside
<1>3. RunsAgree
  BY BoundsAssumption DEF Init, RunsAgree, Ended, Fresh, Left, Runs
<1>4. OpenRunHasSlot /\ SlotNeverLeaks /\ SavedDataAreWhole
  BY BoundsAssumption
     DEF Init, OpenRunHasSlot, SlotNeverLeaks, SavedDataAreWhole, Ended, Runs
<1>5. PassesStop /\ StopsWithinOnePass
  BY DEF Init, PassesStop, StopsWithinOnePass
<1>6. PermitsAreHeld
  <2>1. {t \in Threads : pc[t] \in Holding} = {}
    BY DEF Init, Holding, Inside
  <2> QED
    BY <2>1, FS_EmptySet DEF Init, PermitsAreHeld
<1> QED
  BY <1>1, <1>2, <1>3, <1>4, <1>5, <1>6 DEF IInv

LEMMA InvariantStep == IInv /\ [Next]_vars => IInv'
BY TypeStep, CallsStep, RunsStep, SlotStep, LeakStep, SavedStep, StopStep,
   PermitStep DEF IInv

(* The inductive invariant holds of the session.                           *)
THEOREM RunsInvariant == Spec => []IInv
<1>1. Init => IInv
  BY InitInvariant
<1>2. IInv /\ [Next]_vars => IInv'
  BY InvariantStep
<1> QED
  BY <1>1, <1>2, PTL DEF Spec

(* Every variable keeps its type; no more permits are in use than there    *)
(* are.                                                                    *)
THEOREM RunsTypeCorrect == Spec => []TypeOK
<1>1. IInv => TypeOK
  BY DEF IInv
<1> QED
  BY <1>1, RunsInvariant, PTL

(* active_run_id names the one run that was begun and has not completed or *)
(* closed, whatever stale handles do.                                      *)
THEOREM OpenRunsHaveTheSlot == Spec => []OpenRunHasSlot
<1>1. IInv => OpenRunHasSlot
  BY DEF IInv
<1> QED
  BY <1>1, RunsInvariant, PTL

(* The slot always belongs to a run that somebody can step or destroy.     *)
THEOREM SlotsNeverLeak == Spec => []SlotNeverLeaks
<1>1. IInv => SlotNeverLeaks
  BY DEF IInv
<1> QED
  BY <1>1, RunsInvariant, PTL

(* Permits are neither lost nor returned twice on any path of a call.      *)
THEOREM PermitsComeBack == Spec => []PermitsAreHeld
<1>1. IInv => PermitsAreHeld
  BY DEF IInv
<1> QED
  BY <1>1, RunsInvariant, PTL

(* No snapshot, fork or checkpoint holds a half-executed run.              *)
THEOREM SavedDataStayWhole == Spec => []SavedDataAreWhole
<1>1. IInv => SavedDataAreWhole
  BY DEF IInv
<1> QED
  BY <1>1, RunsInvariant, PTL

(* A stopped run applies at most the pass in progress.                     *)
THEOREM StoppedRunsStop == Spec => []StopsWithinOnePass
<1>1. IInv => StopsWithinOnePass
  BY DEF IInv
<1> QED
  BY <1>1, RunsInvariant, PTL

(* Calls that found a run open before it ended do nothing to it after.     *)
THEOREM EndedRunsStayEnded == Spec => EndedRunsRest
<1>1. IInv /\ [Next]_vars =>
        [\A r \in Runs : Ended(r) => Ended(r)' /\ applied'[r] = applied[r]]_vars
  BY RestStep
<1> QED
  BY <1>1, RunsInvariant, PTL DEF Spec, EndedRunsRest

(* The session implements exclusive runs.                                  *)
THEOREM RefinesExclusiveRuns == Spec => ImplementsExclusiveRuns
<1>1. Init => Exclusive!Init
  BY DEF Init, Exclusive!Init, Exclusive!Fresh, Exclusive!Left, Fresh, Left,
     Runs, Exclusive!Runs
<1>2. IInv /\ [Next]_vars => [Exclusive!Next]_(Exclusive!vars)
  BY RefinementStep
<1> QED
  BY <1>1, <1>2, RunsInvariant, PTL DEF Spec, ImplementsExclusiveRuns, Exclusive!Spec

=============================================================================
