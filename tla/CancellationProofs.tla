------------------------- MODULE CancellationProofs -------------------------
(***************************************************************************)
(* What the steps of Cancellation keep, part two: whenever a thread is     *)
(* blocked, an entry is stale or a handle is missing, there is an actor    *)
(* that will put it right.  Then the inductive invariant as a whole, and   *)
(* the theorems, the refinement last.  A step keeps such a part if the     *)
(* actor of a state keeps its place or hands the duty on, and no state     *)
(* comes to need an actor that has none.                                   *)
(***************************************************************************)
EXTENDS CancellationLemmas

-----------------------------------------------------------------------------
(* A callback runs only inside a claim of its state. Kept over the end of  *)
(* a disarm.                                                               *)
LEMMA RunningHeldEnded ==
    ASSUME TypeOK, References, Positions, MutexesHeld, NEW a \in Actors,
      Ended(a), object[a] \in States
    PROVE  RunningHeld'
<1> SUFFICES ASSUME NEW s \in States, running'[s] # None PROVE \E b \in Actors : RunsCallback(b, s)'
  BY DEF RunningHeld
<1>1. running[s] # None \/ \E b \in Actors : RunsCallback(b, s)'
  BY ActorAssumption
    DEF Ended, RunningHeld, RunsCallback, Working, References, Positions,
        MutexesHeld, OwnersAgree, OwnedAreAlive, DestroyersAreLast,
        Destroying, PurposeKnown, AtWork, ArmingComesFirst, DisarmPcs,
        WaitMutexHeld, CbMutexHeld, TypeOK, Actors, ClaimPcs
<1>2. \A b \in Actors : RunsCallback(b, s) => RunsCallback(b, s)'
  BY ActorAssumption
    DEF Ended, RunningHeld, RunsCallback, Working, References, Positions,
        MutexesHeld, OwnersAgree, OwnedAreAlive, DestroyersAreLast,
        Destroying, PurposeKnown, AtWork, ArmingComesFirst, DisarmPcs,
        WaitMutexHeld, CbMutexHeld, TypeOK, Actors, ClaimPcs
<1> QED BY <1>1, <1>2 DEF RunningHeld, MutexesHeld

(* The same (RunningHeld), kept over the release of a reference.           *)
LEMMA RunningHeldReleased ==
    ASSUME TypeOK, References, Positions, MutexesHeld, NEW a \in Actors,
      Released(a)
    PROVE  RunningHeld'
<1> SUFFICES ASSUME NEW s \in States, running'[s] # None PROVE \E b \in Actors : RunsCallback(b, s)'
  BY DEF RunningHeld
<1>1. running[s] # None \/ \E b \in Actors : RunsCallback(b, s)'
  BY ActorAssumption
    DEF Released, RunningHeld, RunsCallback, Working, References, Positions,
        MutexesHeld, OwnersAgree, OwnedAreAlive, DestroyersAreLast,
        Destroying, PurposeKnown, AtWork, ArmingComesFirst, DisarmPcs,
        WaitMutexHeld, CbMutexHeld, TypeOK, Actors, ClaimPcs
<1>2. \A b \in Actors : RunsCallback(b, s) => RunsCallback(b, s)'
  BY ActorAssumption
    DEF Released, RunningHeld, RunsCallback, Working, References, Positions,
        MutexesHeld, OwnersAgree, OwnedAreAlive, DestroyersAreLast,
        Destroying, PurposeKnown, AtWork, ArmingComesFirst, DisarmPcs,
        WaitMutexHeld, CbMutexHeld, TypeOK, Actors, ClaimPcs
<1> QED BY <1>1, <1>2 DEF RunningHeld, MutexesHeld

(* The same (RunningHeld), kept over the firing of an entry.               *)
LEMMA RunningHeldFired ==
    ASSUME TypeOK, References, Positions, MutexesHeld, NEW z \in States,
      Fired(z)
    PROVE  RunningHeld'
<1> SUFFICES ASSUME NEW s \in States, running'[s] # None PROVE \E b \in Actors : RunsCallback(b, s)'
  BY DEF RunningHeld
<1>1. running[s] # None \/ \E b \in Actors : RunsCallback(b, s)'
  BY ActorAssumption
    DEF Fired, RunningHeld, RunsCallback, Working, References, Positions,
        MutexesHeld, OwnersAgree, OwnedAreAlive, DestroyersAreLast,
        Destroying, PurposeKnown, AtWork, ArmingComesFirst, DisarmPcs,
        WaitMutexHeld, CbMutexHeld, TypeOK, Actors, ClaimPcs
<1>2. \A b \in Actors : RunsCallback(b, s) => RunsCallback(b, s)'
  BY ActorAssumption
    DEF Fired, RunningHeld, RunsCallback, Working, References, Positions,
        MutexesHeld, OwnersAgree, OwnedAreAlive, DestroyersAreLast,
        Destroying, PurposeKnown, AtWork, ArmingComesFirst, DisarmPcs,
        WaitMutexHeld, CbMutexHeld, TypeOK, Actors, ClaimPcs
<1> QED BY <1>1, <1>2 DEF RunningHeld, MutexesHeld

(* The same (RunningHeld), kept over every step.                           *)
LEMMA RunningHeldStep ==
    ASSUME TypeOK, References, Positions,
      MutexesHeld, Next
    PROVE  RunningHeld'
<1> USE ActorAssumption DEF At, Goto, RunningHeld, RunsCallback, Working,
    References, Positions, MutexesHeld, OwnersAgree, OwnedAreAlive,
    DestroyersAreLast, Destroying, PurposeKnown, AtWork, ArmingComesFirst,
    DisarmPcs, WaitMutexHeld, CbMutexHeld, dataVars, tokenVars, lifeVars,
    cbVars, serviceVars, runVars, callVars, watchVars, vars, TypeOK, Actors,
    ClaimPcs
<1>1. ASSUME NEW t \in Threads, NEW s \in States, NEW d \in Deadlines, Create(t, s, d)
      PROVE RunningHeld'
  <2> SUFFICES ASSUME NEW z \in States, running'[z] # None
               PROVE  \E b \in Actors : RunsCallback(b, z)'
    OBVIOUS
  <2>1. running[z] # None \/ \E b \in Actors : RunsCallback(b, z)'
    BY <1>1 DEF Create
  <2>2. \A b \in Actors : RunsCallback(b, z) => RunsCallback(b, z)'
    BY <1>1 DEF Create
  <2> QED BY <2>1, <2>2
<1>2. ASSUME NEW t \in Threads, ArmRegister(t) PROVE RunningHeld'
  <2> SUFFICES ASSUME NEW z \in States, running'[z] # None
               PROVE  \E b \in Actors : RunsCallback(b, z)'
    OBVIOUS
  <2>1. running[z] # None \/ \E b \in Actors : RunsCallback(b, z)'
    BY <1>2 DEF ArmRegister
  <2>2. \A b \in Actors : RunsCallback(b, z) => RunsCallback(b, z)'
    BY <1>2 DEF ArmRegister
  <2> QED BY <2>1, <2>2
<1>3. ASSUME NEW t \in Threads, ArmFails(t) PROVE RunningHeld'
  <2> SUFFICES ASSUME NEW z \in States, running'[z] # None
               PROVE  \E b \in Actors : RunsCallback(b, z)'
    OBVIOUS
  <2>1. running[z] # None \/ \E b \in Actors : RunsCallback(b, z)'
    BY <1>3 DEF ArmFails
  <2>2. \A b \in Actors : RunsCallback(b, z) => RunsCallback(b, z)'
    BY <1>3 DEF ArmFails
  <2> QED BY <2>1, <2>2
<1>4. ASSUME NEW t \in Threads, ArmStore(t) PROVE RunningHeld'
  <2> SUFFICES ASSUME NEW z \in States, running'[z] # None
               PROVE  \E b \in Actors : RunsCallback(b, z)'
    OBVIOUS
  <2>1. running[z] # None \/ \E b \in Actors : RunsCallback(b, z)'
    BY <1>4 DEF ArmStore
  <2>2. \A b \in Actors : RunsCallback(b, z) => RunsCallback(b, z)'
    BY <1>4 DEF ArmStore
  <2> QED BY <2>1, <2>2
<1>5. ASSUME NEW t \in Threads, NEW s \in States, Share(t, s) PROVE RunningHeld'
  <2> SUFFICES ASSUME NEW z \in States, running'[z] # None
               PROVE  \E b \in Actors : RunsCallback(b, z)'
    OBVIOUS
  <2>1. running[z] # None \/ \E b \in Actors : RunsCallback(b, z)'
    BY <1>5 DEF Share
  <2>2. \A b \in Actors : RunsCallback(b, z) => RunsCallback(b, z)'
    BY <1>5 DEF Share
  <2> QED BY <2>1, <2>2
<1>6. ASSUME NEW t \in Threads, Cancel(t) PROVE RunningHeld'
  <2> SUFFICES ASSUME NEW z \in States, running'[z] # None
               PROVE  \E b \in Actors : RunsCallback(b, z)'
    OBVIOUS
  <2>1. running[z] # None \/ \E b \in Actors : RunsCallback(b, z)'
    BY <1>6 DEF Cancel, StartClaim
  <2>2. \A b \in Actors : RunsCallback(b, z) => RunsCallback(b, z)'
    BY <1>6 DEF Cancel, StartClaim
  <2> QED BY <2>1, <2>2
<1>7. ASSUME NEW t \in Threads, Poll(t) PROVE RunningHeld'
  <2> SUFFICES ASSUME NEW z \in States, running'[z] # None
               PROVE  \E b \in Actors : RunsCallback(b, z)'
    OBVIOUS
  <2>1. running[z] # None \/ \E b \in Actors : RunsCallback(b, z)'
    BY <1>7 DEF Poll, StartClaim
  <2>2. \A b \in Actors : RunsCallback(b, z) => RunsCallback(b, z)'
    BY <1>7 DEF Poll, StartClaim
  <2> QED BY <2>1, <2>2
<1>8. ASSUME NEW t \in Threads, Wait(t) PROVE RunningHeld'
  <2> SUFFICES ASSUME NEW z \in States, running'[z] # None
               PROVE  \E b \in Actors : RunsCallback(b, z)'
    OBVIOUS
  <2>1. running[z] # None \/ \E b \in Actors : RunsCallback(b, z)'
    BY <1>8 DEF Wait
  <2>2. \A b \in Actors : RunsCallback(b, z) => RunsCallback(b, z)'
    BY <1>8 DEF Wait
  <2> QED BY <2>1, <2>2
<1>9. ASSUME NEW t \in Threads, StartRegister(t) PROVE RunningHeld'
  <2> SUFFICES ASSUME NEW z \in States, running'[z] # None
               PROVE  \E b \in Actors : RunsCallback(b, z)'
    OBVIOUS
  <2>1. running[z] # None \/ \E b \in Actors : RunsCallback(b, z)'
    BY <1>9 DEF StartRegister
  <2>2. \A b \in Actors : RunsCallback(b, z) => RunsCallback(b, z)'
    BY <1>9 DEF StartRegister
  <2> QED BY <2>1, <2>2
<1>10. ASSUME NEW t \in Threads, DestroyRegistration(t) PROVE RunningHeld'
  <2> SUFFICES ASSUME NEW z \in States, running'[z] # None
               PROVE  \E b \in Actors : RunsCallback(b, z)'
    OBVIOUS
  <2>1. running[z] # None \/ \E b \in Actors : RunsCallback(b, z)'
    BY <1>10 DEF DestroyRegistration
  <2>2. \A b \in Actors : RunsCallback(b, z) => RunsCallback(b, z)'
    BY <1>10 DEF DestroyRegistration
  <2> QED BY <2>1, <2>2
<1>11. ASSUME NEW t \in Threads, DestroyInline(t) PROVE RunningHeld'
  <2> SUFFICES ASSUME NEW z \in States, running'[z] # None
               PROVE  \E b \in Actors : RunsCallback(b, z)'
    OBVIOUS
  <2>1. running[z] # None \/ \E b \in Actors : RunsCallback(b, z)'
    BY <1>11 DEF DestroyInline
  <2>2. \A b \in Actors : RunsCallback(b, z) => RunsCallback(b, z)'
    BY <1>11 DEF DestroyInline
  <2> QED BY <2>1, <2>2
<1>12. ASSUME NEW t \in Threads, WaitTest(t) PROVE RunningHeld'
  <2> SUFFICES ASSUME NEW z \in States, running'[z] # None
               PROVE  \E b \in Actors : RunsCallback(b, z)'
    OBVIOUS
  <2>1. running[z] # None \/ \E b \in Actors : RunsCallback(b, z)'
    BY <1>12 DEF WaitTest
  <2>2. \A b \in Actors : RunsCallback(b, z) => RunsCallback(b, z)'
    BY <1>12 DEF WaitTest
  <2> QED BY <2>1, <2>2
<1>13. ASSUME NEW t \in Threads, WaitLock(t) PROVE RunningHeld'
  <2> SUFFICES ASSUME NEW z \in States, running'[z] # None
               PROVE  \E b \in Actors : RunsCallback(b, z)'
    OBVIOUS
  <2>1. running[z] # None \/ \E b \in Actors : RunsCallback(b, z)'
    BY <1>13 DEF WaitLock
  <2>2. \A b \in Actors : RunsCallback(b, z) => RunsCallback(b, z)'
    BY <1>13 DEF WaitLock
  <2> QED BY <2>1, <2>2
<1>14. ASSUME NEW t \in Threads, RegisterStored(t) PROVE RunningHeld'
  <2> SUFFICES ASSUME NEW z \in States, running'[z] # None
               PROVE  \E b \in Actors : RunsCallback(b, z)'
    OBVIOUS
  <2>1. running[z] # None \/ \E b \in Actors : RunsCallback(b, z)'
    BY <1>14 DEF RegisterStored
  <2>2. \A b \in Actors : RunsCallback(b, z) => RunsCallback(b, z)'
    BY <1>14 DEF RegisterStored
  <2> QED BY <2>1, <2>2
<1>15. ASSUME NEW t \in Threads, RegisterInline(t) PROVE RunningHeld'
  <2> SUFFICES ASSUME NEW z \in States, running'[z] # None
               PROVE  \E b \in Actors : RunsCallback(b, z)'
    OBVIOUS
  <2>1. running[z] # None \/ \E b \in Actors : RunsCallback(b, z)'
    BY <1>15 DEF RegisterInline
  <2>2. \A b \in Actors : RunsCallback(b, z) => RunsCallback(b, z)'
    BY <1>15 DEF RegisterInline
  <2> QED BY <2>1, <2>2
<1>16. ASSUME NEW t \in Threads, Unregister(t) PROVE RunningHeld'
  <2> SUFFICES ASSUME NEW z \in States, running'[z] # None
               PROVE  \E b \in Actors : RunsCallback(b, z)'
    OBVIOUS
  <2>1. running[z] # None \/ \E b \in Actors : RunsCallback(b, z)'
    BY <1>16 DEF Unregister
  <2>2. \A b \in Actors : RunsCallback(b, z) => RunsCallback(b, z)'
    BY <1>16 DEF Unregister
  <2> QED BY <2>1, <2>2
<1>17. ASSUME NEW a \in Actors, NotifyWaiters(a) PROVE RunningHeld'
  <2> SUFFICES ASSUME NEW z \in States, running'[z] # None
               PROVE  \E b \in Actors : RunsCallback(b, z)'
    OBVIOUS
  <2>1. running[z] # None \/ \E b \in Actors : RunsCallback(b, z)'
    BY <1>17 DEF NotifyWaiters
  <2>2. \A b \in Actors : RunsCallback(b, z) => RunsCallback(b, z)'
    BY <1>17 DEF NotifyWaiters
  <2> QED BY <2>1, <2>2
<1>18. ASSUME NEW a \in Actors, CallBack(a) PROVE RunningHeld'
  <2> SUFFICES ASSUME NEW z \in States, running'[z] # None
               PROVE  \E b \in Actors : RunsCallback(b, z)'
    OBVIOUS
  <2>1. running[z] # None \/ \E b \in Actors : RunsCallback(b, z)'
    BY <1>18 DEF CallBack
  <2>2. \A b \in Actors : RunsCallback(b, z) => RunsCallback(b, z)'
    BY <1>18 DEF CallBack
  <2> QED BY <2>1, <2>2
<1>19. ASSUME NEW a \in Actors, CallbackReturns(a) PROVE RunningHeld'
  <2> SUFFICES ASSUME NEW z \in States, running'[z] # None
               PROVE  \E b \in Actors : RunsCallback(b, z)'
    OBVIOUS
  <2>1. running[z] # None \/ \E b \in Actors : RunsCallback(b, z)'
    BY <1>19 DEF CallbackReturns
  <2>2. \A b \in Actors : RunsCallback(b, z) => RunsCallback(b, z)'
    BY <1>19 DEF CallbackReturns
  <2> QED BY <2>1, <2>2
<1>20. ASSUME NEW a \in Actors, ClaimReturns(a) PROVE RunningHeld'
  <2> SUFFICES ASSUME NEW z \in States, running'[z] # None
               PROVE  \E b \in Actors : RunsCallback(b, z)'
    OBVIOUS
  <2>1. running[z] # None \/ \E b \in Actors : RunsCallback(b, z)'
    BY <1>20 DEF ClaimReturns, AfterClaim
  <2>2. \A b \in Actors : RunsCallback(b, z) => RunsCallback(b, z)'
    BY <1>20 DEF ClaimReturns, AfterClaim
  <2> QED BY <2>1, <2>2
<1>21. ASSUME NEW a \in Actors, ReleaseWaiters(a) PROVE RunningHeld'
  <2> SUFFICES ASSUME NEW z \in States, running'[z] # None
               PROVE  \E b \in Actors : RunsCallback(b, z)'
    OBVIOUS
  <2>1. running[z] # None \/ \E b \in Actors : RunsCallback(b, z)'
    BY <1>21 DEF ReleaseWaiters
  <2>2. \A b \in Actors : RunsCallback(b, z) => RunsCallback(b, z)'
    BY <1>21 DEF ReleaseWaiters
  <2> QED BY <2>1, <2>2
<1>22. ASSUME NEW a \in Actors, LockCallbacks(a) PROVE RunningHeld'
  <2> SUFFICES ASSUME NEW z \in States, running'[z] # None
               PROVE  \E b \in Actors : RunsCallback(b, z)'
    OBVIOUS
  <2>1. running[z] # None \/ \E b \in Actors : RunsCallback(b, z)'
    BY <1>22 DEF LockCallbacks
  <2>2. \A b \in Actors : RunsCallback(b, z) => RunsCallback(b, z)'
    BY <1>22 DEF LockCallbacks
  <2> QED BY <2>1, <2>2
<1>23. ASSUME Collect PROVE RunningHeld'
  <2> SUFFICES ASSUME NEW z \in States, running'[z] # None
               PROVE  \E b \in Actors : RunsCallback(b, z)'
    OBVIOUS
  <2>1. running[z] # None \/ \E b \in Actors : RunsCallback(b, z)'
    BY <1>23 DEF Collect, Collected
  <2>2. \A b \in Actors : RunsCallback(b, z) => RunsCallback(b, z)'
    BY <1>23 DEF Collect, Collected
  <2> QED BY <2>1, <2>2
<1>24. ASSUME CollectedAll PROVE RunningHeld'
  <2> SUFFICES ASSUME NEW z \in States, running'[z] # None
               PROVE  \E b \in Actors : RunsCallback(b, z)'
    OBVIOUS
  <2>1. running[z] # None \/ \E b \in Actors : RunsCallback(b, z)'
    BY <1>24 DEF CollectedAll
  <2>2. \A b \in Actors : RunsCallback(b, z) => RunsCallback(b, z)'
    BY <1>24 DEF CollectedAll
  <2> QED BY <2>1, <2>2
<1>25. ASSUME Sleep PROVE RunningHeld'
  <2> SUFFICES ASSUME NEW z \in States, running'[z] # None
               PROVE  \E b \in Actors : RunsCallback(b, z)'
    OBVIOUS
  <2>1. running[z] # None \/ \E b \in Actors : RunsCallback(b, z)'
    BY <1>25 DEF Sleep
  <2>2. \A b \in Actors : RunsCallback(b, z) => RunsCallback(b, z)'
    BY <1>25 DEF Sleep
  <2> QED BY <2>1, <2>2
<1>26. ASSUME TimeOut PROVE RunningHeld'
  <2> SUFFICES ASSUME NEW z \in States, running'[z] # None
               PROVE  \E b \in Actors : RunsCallback(b, z)'
    OBVIOUS
  <2>1. running[z] # None \/ \E b \in Actors : RunsCallback(b, z)'
    BY <1>26 DEF TimeOut
  <2>2. \A b \in Actors : RunsCallback(b, z) => RunsCallback(b, z)'
    BY <1>26 DEF TimeOut
  <2> QED BY <2>1, <2>2
<1>27. ASSUME FiredAll PROVE RunningHeld'
  <2> SUFFICES ASSUME NEW z \in States, running'[z] # None
               PROVE  \E b \in Actors : RunsCallback(b, z)'
    OBVIOUS
  <2>1. running[z] # None \/ \E b \in Actors : RunsCallback(b, z)'
    BY <1>27 DEF FiredAll
  <2>2. \A b \in Actors : RunsCallback(b, z) => RunsCallback(b, z)'
    BY <1>27 DEF FiredAll
  <2> QED BY <2>1, <2>2
<1>28. ASSUME Scan PROVE RunningHeld'
  <2> SUFFICES ASSUME NEW z \in States, running'[z] # None
               PROVE  \E b \in Actors : RunsCallback(b, z)'
    OBVIOUS
  <2>1. running[z] # None \/ \E b \in Actors : RunsCallback(b, z)'
    BY <1>28 DEF Scan
  <2>2. \A b \in Actors : RunsCallback(b, z) => RunsCallback(b, z)'
    BY <1>28 DEF Scan
  <2> QED BY <2>1, <2>2
<1>29. ASSUME Tick PROVE RunningHeld'
  <2> SUFFICES ASSUME NEW z \in States, running'[z] # None
               PROVE  \E b \in Actors : RunsCallback(b, z)'
    OBVIOUS
  <2>1. running[z] # None \/ \E b \in Actors : RunsCallback(b, z)'
    BY <1>29 DEF Tick
  <2>2. \A b \in Actors : RunsCallback(b, z) => RunsCallback(b, z)'
    BY <1>29 DEF Tick
  <2> QED BY <2>1, <2>2
<1> HIDE ActorAssumption DEF At, Goto, RunningHeld, RunsCallback, Working,
    References, Positions, MutexesHeld, OwnersAgree, OwnedAreAlive,
    DestroyersAreLast, Destroying, PurposeKnown, AtWork, ArmingComesFirst,
    DisarmPcs, WaitMutexHeld, CbMutexHeld, dataVars, tokenVars, lifeVars,
    cbVars, serviceVars, runVars, callVars, watchVars, vars, TypeOK, Actors,
    ClaimPcs
<1>30. ASSUME NEW t \in Threads, ArmNotify(t) PROVE RunningHeld'
  <2>1. CASE pc[Watchdog] = "asleep"
    <3> SUFFICES ASSUME NEW s \in States, running'[s] # None PROVE \E b \in Actors : RunsCallback(b, s)'
      BY DEF RunningHeld
    <3>1. running[s] # None \/ \E b \in Actors : RunsCallback(b, s)'
      BY ActorAssumption, <1>30, <2>1
        DEF ArmNotify, WakeWatchdog, RunningHeld, RunsCallback, Working,
            References, Positions, MutexesHeld, OwnersAgree, OwnedAreAlive,
            DestroyersAreLast, Destroying, PurposeKnown, AtWork,
            ArmingComesFirst, DisarmPcs, WaitMutexHeld, CbMutexHeld, dataVars,
            tokenVars, lifeVars, cbVars, serviceVars, runVars, callVars,
            watchVars, TypeOK, Actors, ClaimPcs
    <3>2. \A b \in Actors : RunsCallback(b, s) => RunsCallback(b, s)'
      BY ActorAssumption, <1>30, <2>1
        DEF ArmNotify, WakeWatchdog, RunningHeld, RunsCallback, Working,
            References, Positions, MutexesHeld, OwnersAgree, OwnedAreAlive,
            DestroyersAreLast, Destroying, PurposeKnown, AtWork,
            ArmingComesFirst, DisarmPcs, WaitMutexHeld, CbMutexHeld, dataVars,
            tokenVars, lifeVars, cbVars, serviceVars, runVars, callVars,
            watchVars, TypeOK, Actors, ClaimPcs
    <3> QED BY <3>1, <3>2 DEF RunningHeld, MutexesHeld
  <2>2. CASE pc[Watchdog] # "asleep"
    <3> SUFFICES ASSUME NEW s \in States, running'[s] # None PROVE \E b \in Actors : RunsCallback(b, s)'
      BY DEF RunningHeld
    <3>1. running[s] # None \/ \E b \in Actors : RunsCallback(b, s)'
      BY ActorAssumption, <1>30, <2>2
        DEF ArmNotify, WakeWatchdog, RunningHeld, RunsCallback, Working,
            References, Positions, MutexesHeld, OwnersAgree, OwnedAreAlive,
            DestroyersAreLast, Destroying, PurposeKnown, AtWork,
            ArmingComesFirst, DisarmPcs, WaitMutexHeld, CbMutexHeld, dataVars,
            tokenVars, lifeVars, cbVars, serviceVars, runVars, callVars,
            watchVars, TypeOK, Actors, ClaimPcs
    <3>2. \A b \in Actors : RunsCallback(b, s) => RunsCallback(b, s)'
      BY ActorAssumption, <1>30, <2>2
        DEF ArmNotify, WakeWatchdog, RunningHeld, RunsCallback, Working,
            References, Positions, MutexesHeld, OwnersAgree, OwnedAreAlive,
            DestroyersAreLast, Destroying, PurposeKnown, AtWork,
            ArmingComesFirst, DisarmPcs, WaitMutexHeld, CbMutexHeld, dataVars,
            tokenVars, lifeVars, cbVars, serviceVars, runVars, callVars,
            watchVars, TypeOK, Actors, ClaimPcs
    <3> QED BY <3>1, <3>2 DEF RunningHeld, MutexesHeld
  <2> QED BY <2>1, <2>2
<1>31. ASSUME NEW t \in Threads, ArmRecheck(t) PROVE RunningHeld'
  <2>1. CASE reason[object[t]] = "none"
    <3> SUFFICES ASSUME NEW s \in States, running'[s] # None PROVE \E b \in Actors : RunsCallback(b, s)'
      BY DEF RunningHeld
    <3>1. running[s] # None \/ \E b \in Actors : RunsCallback(b, s)'
      BY ActorAssumption, <1>31, <2>1
        DEF ArmRecheck, Goto, RunningHeld, RunsCallback, Working, References,
            Positions, MutexesHeld, OwnersAgree, OwnedAreAlive,
            DestroyersAreLast, Destroying, PurposeKnown, AtWork,
            ArmingComesFirst, DisarmPcs, WaitMutexHeld, CbMutexHeld,
            tokenVars, lifeVars, cbVars, serviceVars, runVars, watchVars,
            TypeOK, Actors, ClaimPcs
    <3>2. \A b \in Actors : RunsCallback(b, s) => RunsCallback(b, s)'
      BY ActorAssumption, <1>31, <2>1
        DEF ArmRecheck, Goto, RunningHeld, RunsCallback, Working, References,
            Positions, MutexesHeld, OwnersAgree, OwnedAreAlive,
            DestroyersAreLast, Destroying, PurposeKnown, AtWork,
            ArmingComesFirst, DisarmPcs, WaitMutexHeld, CbMutexHeld,
            tokenVars, lifeVars, cbVars, serviceVars, runVars, watchVars,
            TypeOK, Actors, ClaimPcs
    <3> QED BY <3>1, <3>2 DEF RunningHeld, MutexesHeld
  <2>2. CASE reason[object[t]] # "none"
    <3> SUFFICES ASSUME NEW s \in States, running'[s] # None PROVE \E b \in Actors : RunsCallback(b, s)'
      BY DEF RunningHeld
    <3>1. running[s] # None \/ \E b \in Actors : RunsCallback(b, s)'
      BY ActorAssumption, <1>31, <2>2
        DEF ArmRecheck, Goto, RunningHeld, RunsCallback, Working, References,
            Positions, MutexesHeld, OwnersAgree, OwnedAreAlive,
            DestroyersAreLast, Destroying, PurposeKnown, AtWork,
            ArmingComesFirst, DisarmPcs, WaitMutexHeld, CbMutexHeld,
            tokenVars, lifeVars, cbVars, serviceVars, runVars, watchVars,
            TypeOK, Actors, ClaimPcs
    <3>2. \A b \in Actors : RunsCallback(b, s) => RunsCallback(b, s)'
      BY ActorAssumption, <1>31, <2>2
        DEF ArmRecheck, Goto, RunningHeld, RunsCallback, Working, References,
            Positions, MutexesHeld, OwnersAgree, OwnedAreAlive,
            DestroyersAreLast, Destroying, PurposeKnown, AtWork,
            ArmingComesFirst, DisarmPcs, WaitMutexHeld, CbMutexHeld,
            tokenVars, lifeVars, cbVars, serviceVars, runVars, watchVars,
            TypeOK, Actors, ClaimPcs
    <3> QED BY <3>1, <3>2 DEF RunningHeld, MutexesHeld
  <2> QED BY <2>1, <2>2
<1>32. ASSUME NEW t \in Threads, Drop(t) PROVE RunningHeld'
  <2>1. t \in Actors
    BY DEF Actors
  <2> QED BY <1>32, <2>1, DropReleases, RunningHeldReleased DEF References,
      Positions
<1>33. ASSUME NEW t \in Threads, WaitUnlock(t) PROVE RunningHeld'
  <2>1. CASE pc[t] = "block"
    <3> SUFFICES ASSUME NEW s \in States, running'[s] # None PROVE \E b \in Actors : RunsCallback(b, s)'
      BY DEF RunningHeld
    <3>1. running[s] # None \/ \E b \in Actors : RunsCallback(b, s)'
      BY ActorAssumption, <1>33, <2>1
        DEF WaitUnlock, Goto, RunningHeld, RunsCallback, Working, References,
            Positions, MutexesHeld, OwnersAgree, OwnedAreAlive,
            DestroyersAreLast, Destroying, PurposeKnown, AtWork,
            ArmingComesFirst, DisarmPcs, WaitMutexHeld, CbMutexHeld, lifeVars,
            cbVars, serviceVars, runVars, callVars, watchVars, TypeOK, Actors,
            ClaimPcs
    <3>2. \A b \in Actors : RunsCallback(b, s) => RunsCallback(b, s)'
      BY ActorAssumption, <1>33, <2>1
        DEF WaitUnlock, Goto, RunningHeld, RunsCallback, Working, References,
            Positions, MutexesHeld, OwnersAgree, OwnedAreAlive,
            DestroyersAreLast, Destroying, PurposeKnown, AtWork,
            ArmingComesFirst, DisarmPcs, WaitMutexHeld, CbMutexHeld, lifeVars,
            cbVars, serviceVars, runVars, callVars, watchVars, TypeOK, Actors,
            ClaimPcs
    <3> QED BY <3>1, <3>2 DEF RunningHeld, MutexesHeld
  <2>2. CASE pc[t] # "block"
    <3> SUFFICES ASSUME NEW s \in States, running'[s] # None PROVE \E b \in Actors : RunsCallback(b, s)'
      BY DEF RunningHeld
    <3>1. running[s] # None \/ \E b \in Actors : RunsCallback(b, s)'
      BY ActorAssumption, <1>33, <2>2
        DEF WaitUnlock, Goto, RunningHeld, RunsCallback, Working, References,
            Positions, MutexesHeld, OwnersAgree, OwnedAreAlive,
            DestroyersAreLast, Destroying, PurposeKnown, AtWork,
            ArmingComesFirst, DisarmPcs, WaitMutexHeld, CbMutexHeld, lifeVars,
            cbVars, serviceVars, runVars, callVars, watchVars, TypeOK, Actors,
            ClaimPcs
    <3>2. \A b \in Actors : RunsCallback(b, s) => RunsCallback(b, s)'
      BY ActorAssumption, <1>33, <2>2
        DEF WaitUnlock, Goto, RunningHeld, RunsCallback, Working, References,
            Positions, MutexesHeld, OwnersAgree, OwnedAreAlive,
            DestroyersAreLast, Destroying, PurposeKnown, AtWork,
            ArmingComesFirst, DisarmPcs, WaitMutexHeld, CbMutexHeld, lifeVars,
            cbVars, serviceVars, runVars, callVars, watchVars, TypeOK, Actors,
            ClaimPcs
    <3> QED BY <3>1, <3>2 DEF RunningHeld, MutexesHeld
  <2> QED BY <2>1, <2>2
<1>34. ASSUME NEW a \in Actors, Disarm(a) PROVE RunningHeld'
  <2>0. object[a] \in States
    BY <1>34, DisarmObject DEF Disarm, DisarmPcs
  <2>1. CASE timer[object[a]]
    <3> SUFFICES ASSUME NEW s \in States, running'[s] # None PROVE \E b \in Actors : RunsCallback(b, s)'
      BY DEF RunningHeld
    <3>1. running[s] # None \/ \E b \in Actors : RunsCallback(b, s)'
      BY ActorAssumption, <1>34, <2>0, <2>1
        DEF Disarm, Goto, Disarmed, DisarmedPc, RunningHeld, RunsCallback,
            Working, References, Positions, MutexesHeld, OwnersAgree,
            OwnedAreAlive, DestroyersAreLast, Destroying, PurposeKnown,
            AtWork, ArmingComesFirst, DisarmPcs, WaitMutexHeld, CbMutexHeld,
            cbVars, serviceVars, runVars, watchVars, TypeOK, Actors, ClaimPcs
    <3>2. \A b \in Actors : RunsCallback(b, s) => RunsCallback(b, s)'
      BY ActorAssumption, <1>34, <2>0, <2>1
        DEF Disarm, Goto, Disarmed, DisarmedPc, RunningHeld, RunsCallback,
            Working, References, Positions, MutexesHeld, OwnersAgree,
            OwnedAreAlive, DestroyersAreLast, Destroying, PurposeKnown,
            AtWork, ArmingComesFirst, DisarmPcs, WaitMutexHeld, CbMutexHeld,
            cbVars, serviceVars, runVars, watchVars, TypeOK, Actors, ClaimPcs
    <3> QED BY <3>1, <3>2 DEF RunningHeld, MutexesHeld
  <2>2. CASE ~timer[object[a]]
    BY <1>34, <2>0, <2>2, DisarmEnds, RunningHeldEnded DEF Positions
  <2> QED BY <2>1, <2>2
<1>35. ASSUME NEW a \in Actors, NotifyService(a) PROVE RunningHeld'
  <2>0. object[a] \in States
    BY <1>35, DisarmObject DEF NotifyService, DisarmPcs
  <2> QED BY <1>35, <2>0, NotifyEnds, RunningHeldEnded DEF Positions
<1>36. ASSUME NEW a \in Actors, ClaimReason(a) PROVE RunningHeld'
  <2>1. CASE reason[object[a]] = "none"
    <3> SUFFICES ASSUME NEW s \in States, running'[s] # None PROVE \E b \in Actors : RunsCallback(b, s)'
      BY DEF RunningHeld
    <3>1. running[s] # None \/ \E b \in Actors : RunsCallback(b, s)'
      BY ActorAssumption, <1>36, <2>1
        DEF ClaimReason, Goto, AfterClaim, RunningHeld, RunsCallback, Working,
            References, Positions, MutexesHeld, OwnersAgree, OwnedAreAlive,
            DestroyersAreLast, Destroying, PurposeKnown, AtWork,
            ArmingComesFirst, DisarmPcs, WaitMutexHeld, CbMutexHeld, lifeVars,
            cbVars, serviceVars, runVars, watchVars, TypeOK, Actors, ClaimPcs
    <3>2. \A b \in Actors : RunsCallback(b, s) => RunsCallback(b, s)'
      BY ActorAssumption, <1>36, <2>1
        DEF ClaimReason, Goto, AfterClaim, RunningHeld, RunsCallback, Working,
            References, Positions, MutexesHeld, OwnersAgree, OwnedAreAlive,
            DestroyersAreLast, Destroying, PurposeKnown, AtWork,
            ArmingComesFirst, DisarmPcs, WaitMutexHeld, CbMutexHeld, lifeVars,
            cbVars, serviceVars, runVars, watchVars, TypeOK, Actors, ClaimPcs
    <3> QED BY <3>1, <3>2 DEF RunningHeld, MutexesHeld
  <2>2. CASE reason[object[a]] # "none"
    <3> SUFFICES ASSUME NEW s \in States, running'[s] # None PROVE \E b \in Actors : RunsCallback(b, s)'
      BY DEF RunningHeld
    <3>1. running[s] # None \/ \E b \in Actors : RunsCallback(b, s)'
      BY ActorAssumption, <1>36, <2>2
        DEF ClaimReason, Goto, AfterClaim, RunningHeld, RunsCallback, Working,
            References, Positions, MutexesHeld, OwnersAgree, OwnedAreAlive,
            DestroyersAreLast, Destroying, PurposeKnown, AtWork,
            ArmingComesFirst, DisarmPcs, WaitMutexHeld, CbMutexHeld, lifeVars,
            cbVars, serviceVars, runVars, watchVars, TypeOK, Actors, ClaimPcs
    <3>2. \A b \in Actors : RunsCallback(b, s) => RunsCallback(b, s)'
      BY ActorAssumption, <1>36, <2>2
        DEF ClaimReason, Goto, AfterClaim, RunningHeld, RunsCallback, Working,
            References, Positions, MutexesHeld, OwnersAgree, OwnedAreAlive,
            DestroyersAreLast, Destroying, PurposeKnown, AtWork,
            ArmingComesFirst, DisarmPcs, WaitMutexHeld, CbMutexHeld, lifeVars,
            cbVars, serviceVars, runVars, watchVars, TypeOK, Actors, ClaimPcs
    <3> QED BY <3>1, <3>2 DEF RunningHeld, MutexesHeld
  <2> QED BY <2>1, <2>2
<1>37. ASSUME NEW a \in Actors, UnregisterEntry(a) PROVE RunningHeld'
  <2>0. object[a] \in States
    BY <1>37, DisarmObject DEF UnregisterEntry, DisarmPcs
  <2>1. CASE object[a] \in schedule
    <3> SUFFICES ASSUME NEW s \in States, running'[s] # None PROVE \E b \in Actors : RunsCallback(b, s)'
      BY DEF RunningHeld
    <3>1. running[s] # None \/ \E b \in Actors : RunsCallback(b, s)'
      BY ActorAssumption, <1>37, <2>0, <2>1
        DEF UnregisterEntry, Goto, RunningHeld, RunsCallback, Working,
            References, Positions, MutexesHeld, OwnersAgree, OwnedAreAlive,
            DestroyersAreLast, Destroying, PurposeKnown, AtWork,
            ArmingComesFirst, DisarmPcs, WaitMutexHeld, CbMutexHeld, cbVars,
            runVars, TypeOK, Actors, ClaimPcs
    <3>2. \A b \in Actors : RunsCallback(b, s) => RunsCallback(b, s)'
      BY ActorAssumption, <1>37, <2>0, <2>1
        DEF UnregisterEntry, Goto, RunningHeld, RunsCallback, Working,
            References, Positions, MutexesHeld, OwnersAgree, OwnedAreAlive,
            DestroyersAreLast, Destroying, PurposeKnown, AtWork,
            ArmingComesFirst, DisarmPcs, WaitMutexHeld, CbMutexHeld, cbVars,
            runVars, TypeOK, Actors, ClaimPcs
    <3> QED BY <3>1, <3>2 DEF RunningHeld, MutexesHeld
  <2>2. CASE object[a] \notin schedule
    BY <1>37, <2>0, <2>2, UnregisterEnds, RunningHeldEnded DEF Positions
  <2> QED BY <2>1, <2>2
<1>38. ASSUME Fire PROVE RunningHeld'
  <2>1. CASE owners[Head(due)] = {}
    <3> SUFFICES ASSUME NEW s \in States, running'[s] # None PROVE \E b \in Actors : RunsCallback(b, s)'
      BY DEF RunningHeld
    <3>1. running[s] # None \/ \E b \in Actors : RunsCallback(b, s)'
      BY ActorAssumption, <1>38, <2>1
        DEF Fire, Goto, RunningHeld, RunsCallback, Working, References,
            Positions, MutexesHeld, OwnersAgree, OwnedAreAlive,
            DestroyersAreLast, Destroying, PurposeKnown, AtWork,
            ArmingComesFirst, DisarmPcs, WaitMutexHeld, CbMutexHeld, cbVars,
            serviceVars, TypeOK, Actors, ClaimPcs
    <3>2. \A b \in Actors : RunsCallback(b, s) => RunsCallback(b, s)'
      BY ActorAssumption, <1>38, <2>1
        DEF Fire, Goto, RunningHeld, RunsCallback, Working, References,
            Positions, MutexesHeld, OwnersAgree, OwnedAreAlive,
            DestroyersAreLast, Destroying, PurposeKnown, AtWork,
            ArmingComesFirst, DisarmPcs, WaitMutexHeld, CbMutexHeld, cbVars,
            serviceVars, TypeOK, Actors, ClaimPcs
    <3> QED BY <3>1, <3>2 DEF RunningHeld, MutexesHeld
  <2>2. CASE owners[Head(due)] # {}
    <3>1. Fired(Head(due))
      BY <1>38, <2>2, FireFires DEF Positions
    <3> QED BY <3>1, RunningHeldFired DEF Fired
  <2> QED BY <2>1, <2>2
<1>39. ASSUME DropFired PROVE RunningHeld'
  <2>1. Watchdog \in Actors
    BY DEF Actors
  <2> QED BY <1>39, <2>1, DropFiredReleases, RunningHeldReleased DEF References,
      Positions
<1>40. ASSUME Woken PROVE RunningHeld'
  <2>1. CASE changed \/ now >= until
    <3> SUFFICES ASSUME NEW s \in States, running'[s] # None PROVE \E b \in Actors : RunsCallback(b, s)'
      BY DEF RunningHeld
    <3>1. running[s] # None \/ \E b \in Actors : RunsCallback(b, s)'
      BY ActorAssumption, <1>40, <2>1
        DEF Woken, Goto, RunningHeld, RunsCallback, Working, References,
            Positions, MutexesHeld, OwnersAgree, OwnedAreAlive,
            DestroyersAreLast, Destroying, PurposeKnown, AtWork,
            ArmingComesFirst, DisarmPcs, WaitMutexHeld, CbMutexHeld,
            tokenVars, lifeVars, cbVars, serviceVars, callVars, TypeOK,
            Actors, ClaimPcs
    <3>2. \A b \in Actors : RunsCallback(b, s) => RunsCallback(b, s)'
      BY ActorAssumption, <1>40, <2>1
        DEF Woken, Goto, RunningHeld, RunsCallback, Working, References,
            Positions, MutexesHeld, OwnersAgree, OwnedAreAlive,
            DestroyersAreLast, Destroying, PurposeKnown, AtWork,
            ArmingComesFirst, DisarmPcs, WaitMutexHeld, CbMutexHeld,
            tokenVars, lifeVars, cbVars, serviceVars, callVars, TypeOK,
            Actors, ClaimPcs
    <3> QED BY <3>1, <3>2 DEF RunningHeld, MutexesHeld
  <2>2. CASE ~(changed \/ now >= until)
    <3> SUFFICES ASSUME NEW s \in States, running'[s] # None PROVE \E b \in Actors : RunsCallback(b, s)'
      BY DEF RunningHeld
    <3>1. running[s] # None \/ \E b \in Actors : RunsCallback(b, s)'
      BY ActorAssumption, <1>40, <2>2
        DEF Woken, Goto, RunningHeld, RunsCallback, Working, References,
            Positions, MutexesHeld, OwnersAgree, OwnedAreAlive,
            DestroyersAreLast, Destroying, PurposeKnown, AtWork,
            ArmingComesFirst, DisarmPcs, WaitMutexHeld, CbMutexHeld,
            tokenVars, lifeVars, cbVars, serviceVars, callVars, TypeOK,
            Actors, ClaimPcs
    <3>2. \A b \in Actors : RunsCallback(b, s) => RunsCallback(b, s)'
      BY ActorAssumption, <1>40, <2>2
        DEF Woken, Goto, RunningHeld, RunsCallback, Working, References,
            Positions, MutexesHeld, OwnersAgree, OwnedAreAlive,
            DestroyersAreLast, Destroying, PurposeKnown, AtWork,
            ArmingComesFirst, DisarmPcs, WaitMutexHeld, CbMutexHeld,
            tokenVars, lifeVars, cbVars, serviceVars, callVars, TypeOK,
            Actors, ClaimPcs
    <3> QED BY <3>1, <3>2 DEF RunningHeld, MutexesHeld
  <2> QED BY <2>1, <2>2
<1> QED
  BY <1>1, <1>2, <1>3, <1>4, <1>5, <1>6, <1>7, <1>8, <1>9, <1>10,
      <1>11, <1>12, <1>13, <1>14, <1>15, <1>16, <1>17, <1>18, <1>19, <1>20,
      <1>21, <1>22, <1>23, <1>24, <1>25, <1>26, <1>27, <1>28, <1>29, <1>30,
      <1>31, <1>32, <1>33, <1>34, <1>35, <1>36, <1>37, <1>38, <1>39, <1>40
  DEF Next, Optional, ThreadSteps, ThreadLocks, ClaimSteps, ClaimLocks,
      WatchdogSteps, WatchdogLocks, Actors

-----------------------------------------------------------------------------
(* A thread that saw no reason and is about to block is seen by the claim  *)
(* that has not come to the wait mutex yet. Kept over the end of a disarm. *)
LEMMA WaitersSeenEnded ==
    ASSUME TypeOK, References, Positions, WaitMutexHeld, WaitersSeen,
      NEW a \in Actors, Ended(a), object[a] \in States
    PROVE  WaitersSeen'
<1> SUFFICES ASSUME NEW s \in States, WaiterAt("block", s)' PROVE \E b \in Actors : BeforeRelease(b, s)'
  BY DEF WaitersSeen
<1>1. WaiterAt("block", s) \/ \E b \in Actors : BeforeRelease(b, s)'
  BY ActorAssumption
    DEF Ended, WaitersSeen, BeforeRelease, WaiterAt, References, Positions,
        WaitMutexHeld, OwnersAgree, OwnedAreAlive, DestroyersAreLast,
        Destroying, PurposeKnown, AtWork, ArmingComesFirst, DisarmPcs, TypeOK,
        Actors, ClaimPcs
<1>2. \A b \in Actors : BeforeRelease(b, s) => BeforeRelease(b, s)'
  BY ActorAssumption
    DEF Ended, WaitersSeen, BeforeRelease, WaiterAt, References, Positions,
        WaitMutexHeld, OwnersAgree, OwnedAreAlive, DestroyersAreLast,
        Destroying, PurposeKnown, AtWork, ArmingComesFirst, DisarmPcs, TypeOK,
        Actors, ClaimPcs
<1> QED BY <1>1, <1>2 DEF WaitersSeen

(* The same (WaitersSeen), kept over the release of a reference.           *)
LEMMA WaitersSeenReleased ==
    ASSUME TypeOK, References, Positions, WaitMutexHeld, WaitersSeen,
      NEW a \in Actors, Released(a)
    PROVE  WaitersSeen'
<1> SUFFICES ASSUME NEW s \in States, WaiterAt("block", s)' PROVE \E b \in Actors : BeforeRelease(b, s)'
  BY DEF WaitersSeen
<1>1. WaiterAt("block", s) \/ \E b \in Actors : BeforeRelease(b, s)'
  BY ActorAssumption
    DEF Released, WaitersSeen, BeforeRelease, WaiterAt, References, Positions,
        WaitMutexHeld, OwnersAgree, OwnedAreAlive, DestroyersAreLast,
        Destroying, PurposeKnown, AtWork, ArmingComesFirst, DisarmPcs, TypeOK,
        Actors, ClaimPcs
<1>2. \A b \in Actors : BeforeRelease(b, s) => BeforeRelease(b, s)'
  BY ActorAssumption
    DEF Released, WaitersSeen, BeforeRelease, WaiterAt, References, Positions,
        WaitMutexHeld, OwnersAgree, OwnedAreAlive, DestroyersAreLast,
        Destroying, PurposeKnown, AtWork, ArmingComesFirst, DisarmPcs, TypeOK,
        Actors, ClaimPcs
<1> QED BY <1>1, <1>2 DEF WaitersSeen

(* The same (WaitersSeen), kept over the firing of an entry.               *)
LEMMA WaitersSeenFired ==
    ASSUME TypeOK, References, Positions, WaitMutexHeld, WaitersSeen,
      NEW z \in States, Fired(z)
    PROVE  WaitersSeen'
<1> SUFFICES ASSUME NEW s \in States, WaiterAt("block", s)' PROVE \E b \in Actors : BeforeRelease(b, s)'
  BY DEF WaitersSeen
<1>1. WaiterAt("block", s) \/ \E b \in Actors : BeforeRelease(b, s)'
  BY ActorAssumption
    DEF Fired, WaitersSeen, BeforeRelease, WaiterAt, References, Positions,
        WaitMutexHeld, OwnersAgree, OwnedAreAlive, DestroyersAreLast,
        Destroying, PurposeKnown, AtWork, ArmingComesFirst, DisarmPcs, TypeOK,
        Actors, ClaimPcs
<1>2. \A b \in Actors : BeforeRelease(b, s) => BeforeRelease(b, s)'
  BY ActorAssumption
    DEF Fired, WaitersSeen, BeforeRelease, WaiterAt, References, Positions,
        WaitMutexHeld, OwnersAgree, OwnedAreAlive, DestroyersAreLast,
        Destroying, PurposeKnown, AtWork, ArmingComesFirst, DisarmPcs, TypeOK,
        Actors, ClaimPcs
<1> QED BY <1>1, <1>2 DEF WaitersSeen

(* The same (WaitersSeen), kept over every step.                           *)
LEMMA WaitersSeenStep ==
    ASSUME TypeOK, References, Positions,
      WaitMutexHeld, WaitersSeen, Next
    PROVE  WaitersSeen'
<1> USE ActorAssumption DEF At, Goto, WaitersSeen, BeforeRelease, Working,
    WaiterAt, References, Positions, WaitMutexHeld, OwnersAgree,
    OwnedAreAlive, DestroyersAreLast, Destroying, PurposeKnown, AtWork,
    ArmingComesFirst, DisarmPcs, dataVars, tokenVars, lifeVars, cbVars,
    serviceVars, runVars, callVars, watchVars, vars, TypeOK, Actors, ClaimPcs
<1>1. ASSUME NEW t \in Threads, NEW s \in States, NEW d \in Deadlines, Create(t, s, d)
      PROVE WaitersSeen'
  <2> SUFFICES ASSUME NEW z \in States, WaiterAt("block", z)'
               PROVE  \E b \in Actors : BeforeRelease(b, z)'
    OBVIOUS
  <2>1. WaiterAt("block", z) \/ \E b \in Actors : BeforeRelease(b, z)'
    BY <1>1 DEF Create
  <2>2. \A b \in Actors : BeforeRelease(b, z) => BeforeRelease(b, z)'
    BY <1>1 DEF Create
  <2> QED BY <2>1, <2>2
<1>2. ASSUME NEW t \in Threads, ArmRegister(t) PROVE WaitersSeen'
  <2> SUFFICES ASSUME NEW z \in States, WaiterAt("block", z)'
               PROVE  \E b \in Actors : BeforeRelease(b, z)'
    OBVIOUS
  <2>1. WaiterAt("block", z) \/ \E b \in Actors : BeforeRelease(b, z)'
    BY <1>2 DEF ArmRegister
  <2>2. \A b \in Actors : BeforeRelease(b, z) => BeforeRelease(b, z)'
    BY <1>2 DEF ArmRegister
  <2> QED BY <2>1, <2>2
<1>3. ASSUME NEW t \in Threads, ArmFails(t) PROVE WaitersSeen'
  <2> SUFFICES ASSUME NEW z \in States, WaiterAt("block", z)'
               PROVE  \E b \in Actors : BeforeRelease(b, z)'
    OBVIOUS
  <2>1. WaiterAt("block", z) \/ \E b \in Actors : BeforeRelease(b, z)'
    BY <1>3 DEF ArmFails
  <2>2. \A b \in Actors : BeforeRelease(b, z) => BeforeRelease(b, z)'
    BY <1>3 DEF ArmFails
  <2> QED BY <2>1, <2>2
<1>4. ASSUME NEW t \in Threads, ArmStore(t) PROVE WaitersSeen'
  <2> SUFFICES ASSUME NEW z \in States, WaiterAt("block", z)'
               PROVE  \E b \in Actors : BeforeRelease(b, z)'
    OBVIOUS
  <2>1. WaiterAt("block", z) \/ \E b \in Actors : BeforeRelease(b, z)'
    BY <1>4 DEF ArmStore
  <2>2. \A b \in Actors : BeforeRelease(b, z) => BeforeRelease(b, z)'
    BY <1>4 DEF ArmStore
  <2> QED BY <2>1, <2>2
<1>5. ASSUME NEW t \in Threads, NEW s \in States, Share(t, s) PROVE WaitersSeen'
  <2> SUFFICES ASSUME NEW z \in States, WaiterAt("block", z)'
               PROVE  \E b \in Actors : BeforeRelease(b, z)'
    OBVIOUS
  <2>1. WaiterAt("block", z) \/ \E b \in Actors : BeforeRelease(b, z)'
    BY <1>5 DEF Share
  <2>2. \A b \in Actors : BeforeRelease(b, z) => BeforeRelease(b, z)'
    BY <1>5 DEF Share
  <2> QED BY <2>1, <2>2
<1>6. ASSUME NEW t \in Threads, Cancel(t) PROVE WaitersSeen'
  <2> SUFFICES ASSUME NEW z \in States, WaiterAt("block", z)'
               PROVE  \E b \in Actors : BeforeRelease(b, z)'
    OBVIOUS
  <2>1. WaiterAt("block", z) \/ \E b \in Actors : BeforeRelease(b, z)'
    BY <1>6 DEF Cancel, StartClaim
  <2>2. \A b \in Actors : BeforeRelease(b, z) => BeforeRelease(b, z)'
    BY <1>6 DEF Cancel, StartClaim
  <2> QED BY <2>1, <2>2
<1>7. ASSUME NEW t \in Threads, Poll(t) PROVE WaitersSeen'
  <2> SUFFICES ASSUME NEW z \in States, WaiterAt("block", z)'
               PROVE  \E b \in Actors : BeforeRelease(b, z)'
    OBVIOUS
  <2>1. WaiterAt("block", z) \/ \E b \in Actors : BeforeRelease(b, z)'
    BY <1>7 DEF Poll, StartClaim
  <2>2. \A b \in Actors : BeforeRelease(b, z) => BeforeRelease(b, z)'
    BY <1>7 DEF Poll, StartClaim
  <2> QED BY <2>1, <2>2
<1>8. ASSUME NEW t \in Threads, Wait(t) PROVE WaitersSeen'
  <2> SUFFICES ASSUME NEW z \in States, WaiterAt("block", z)'
               PROVE  \E b \in Actors : BeforeRelease(b, z)'
    OBVIOUS
  <2>1. WaiterAt("block", z) \/ \E b \in Actors : BeforeRelease(b, z)'
    BY <1>8 DEF Wait
  <2>2. \A b \in Actors : BeforeRelease(b, z) => BeforeRelease(b, z)'
    BY <1>8 DEF Wait
  <2> QED BY <2>1, <2>2
<1>9. ASSUME NEW t \in Threads, StartRegister(t) PROVE WaitersSeen'
  <2> SUFFICES ASSUME NEW z \in States, WaiterAt("block", z)'
               PROVE  \E b \in Actors : BeforeRelease(b, z)'
    OBVIOUS
  <2>1. WaiterAt("block", z) \/ \E b \in Actors : BeforeRelease(b, z)'
    BY <1>9 DEF StartRegister
  <2>2. \A b \in Actors : BeforeRelease(b, z) => BeforeRelease(b, z)'
    BY <1>9 DEF StartRegister
  <2> QED BY <2>1, <2>2
<1>10. ASSUME NEW t \in Threads, DestroyRegistration(t) PROVE WaitersSeen'
  <2> SUFFICES ASSUME NEW z \in States, WaiterAt("block", z)'
               PROVE  \E b \in Actors : BeforeRelease(b, z)'
    OBVIOUS
  <2>1. WaiterAt("block", z) \/ \E b \in Actors : BeforeRelease(b, z)'
    BY <1>10 DEF DestroyRegistration
  <2>2. \A b \in Actors : BeforeRelease(b, z) => BeforeRelease(b, z)'
    BY <1>10 DEF DestroyRegistration
  <2> QED BY <2>1, <2>2
<1>11. ASSUME NEW t \in Threads, DestroyInline(t) PROVE WaitersSeen'
  <2> SUFFICES ASSUME NEW z \in States, WaiterAt("block", z)'
               PROVE  \E b \in Actors : BeforeRelease(b, z)'
    OBVIOUS
  <2>1. WaiterAt("block", z) \/ \E b \in Actors : BeforeRelease(b, z)'
    BY <1>11 DEF DestroyInline
  <2>2. \A b \in Actors : BeforeRelease(b, z) => BeforeRelease(b, z)'
    BY <1>11 DEF DestroyInline
  <2> QED BY <2>1, <2>2
<1>12. ASSUME NEW t \in Threads, WaitTest(t) PROVE WaitersSeen'
  <2> SUFFICES ASSUME NEW z \in States, WaiterAt("block", z)'
               PROVE  \E b \in Actors : BeforeRelease(b, z)'
    OBVIOUS
  <2>1. WaiterAt("block", z) \/ \E b \in Actors : BeforeRelease(b, z)'
    BY <1>12 DEF WaitTest
  <2>2. \A b \in Actors : BeforeRelease(b, z) => BeforeRelease(b, z)'
    BY <1>12 DEF WaitTest
  <2> QED BY <2>1, <2>2
<1>13. ASSUME NEW t \in Threads, WaitLock(t) PROVE WaitersSeen'
  <2> SUFFICES ASSUME NEW z \in States, WaiterAt("block", z)'
               PROVE  \E b \in Actors : BeforeRelease(b, z)'
    OBVIOUS
  <2>1. WaiterAt("block", z) \/ \E b \in Actors : BeforeRelease(b, z)'
    BY <1>13 DEF WaitLock
  <2>2. \A b \in Actors : BeforeRelease(b, z) => BeforeRelease(b, z)'
    BY <1>13 DEF WaitLock
  <2> QED BY <2>1, <2>2
<1>14. ASSUME NEW t \in Threads, RegisterStored(t) PROVE WaitersSeen'
  <2> SUFFICES ASSUME NEW z \in States, WaiterAt("block", z)'
               PROVE  \E b \in Actors : BeforeRelease(b, z)'
    OBVIOUS
  <2>1. WaiterAt("block", z) \/ \E b \in Actors : BeforeRelease(b, z)'
    BY <1>14 DEF RegisterStored
  <2>2. \A b \in Actors : BeforeRelease(b, z) => BeforeRelease(b, z)'
    BY <1>14 DEF RegisterStored
  <2> QED BY <2>1, <2>2
<1>15. ASSUME NEW t \in Threads, RegisterInline(t) PROVE WaitersSeen'
  <2> SUFFICES ASSUME NEW z \in States, WaiterAt("block", z)'
               PROVE  \E b \in Actors : BeforeRelease(b, z)'
    OBVIOUS
  <2>1. WaiterAt("block", z) \/ \E b \in Actors : BeforeRelease(b, z)'
    BY <1>15 DEF RegisterInline
  <2>2. \A b \in Actors : BeforeRelease(b, z) => BeforeRelease(b, z)'
    BY <1>15 DEF RegisterInline
  <2> QED BY <2>1, <2>2
<1>16. ASSUME NEW t \in Threads, Unregister(t) PROVE WaitersSeen'
  <2> SUFFICES ASSUME NEW z \in States, WaiterAt("block", z)'
               PROVE  \E b \in Actors : BeforeRelease(b, z)'
    OBVIOUS
  <2>1. WaiterAt("block", z) \/ \E b \in Actors : BeforeRelease(b, z)'
    BY <1>16 DEF Unregister
  <2>2. \A b \in Actors : BeforeRelease(b, z) => BeforeRelease(b, z)'
    BY <1>16 DEF Unregister
  <2> QED BY <2>1, <2>2
<1>17. ASSUME NEW a \in Actors, NotifyWaiters(a) PROVE WaitersSeen'
  <2> SUFFICES ASSUME NEW z \in States, WaiterAt("block", z)'
               PROVE  \E b \in Actors : BeforeRelease(b, z)'
    OBVIOUS
  <2>1. WaiterAt("block", z) \/ \E b \in Actors : BeforeRelease(b, z)'
    BY <1>17 DEF NotifyWaiters
  <2>2. \A b \in Actors : BeforeRelease(b, z) => BeforeRelease(b, z)'
    BY <1>17 DEF NotifyWaiters
  <2> QED BY <2>1, <2>2
<1>18. ASSUME NEW a \in Actors, CallBack(a) PROVE WaitersSeen'
  <2> SUFFICES ASSUME NEW z \in States, WaiterAt("block", z)'
               PROVE  \E b \in Actors : BeforeRelease(b, z)'
    OBVIOUS
  <2>1. WaiterAt("block", z) \/ \E b \in Actors : BeforeRelease(b, z)'
    BY <1>18 DEF CallBack
  <2>2. \A b \in Actors : BeforeRelease(b, z) => BeforeRelease(b, z)'
    BY <1>18 DEF CallBack
  <2> QED BY <2>1, <2>2
<1>19. ASSUME NEW a \in Actors, CallbackReturns(a) PROVE WaitersSeen'
  <2> SUFFICES ASSUME NEW z \in States, WaiterAt("block", z)'
               PROVE  \E b \in Actors : BeforeRelease(b, z)'
    OBVIOUS
  <2>1. WaiterAt("block", z) \/ \E b \in Actors : BeforeRelease(b, z)'
    BY <1>19 DEF CallbackReturns
  <2>2. \A b \in Actors : BeforeRelease(b, z) => BeforeRelease(b, z)'
    BY <1>19 DEF CallbackReturns
  <2> QED BY <2>1, <2>2
<1>20. ASSUME NEW a \in Actors, ClaimReturns(a) PROVE WaitersSeen'
  <2> SUFFICES ASSUME NEW z \in States, WaiterAt("block", z)'
               PROVE  \E b \in Actors : BeforeRelease(b, z)'
    OBVIOUS
  <2>1. WaiterAt("block", z) \/ \E b \in Actors : BeforeRelease(b, z)'
    BY <1>20 DEF ClaimReturns, AfterClaim
  <2>2. \A b \in Actors : BeforeRelease(b, z) => BeforeRelease(b, z)'
    BY <1>20 DEF ClaimReturns, AfterClaim
  <2> QED BY <2>1, <2>2
<1>21. ASSUME NEW a \in Actors, ReleaseWaiters(a) PROVE WaitersSeen'
  <2> SUFFICES ASSUME NEW z \in States, WaiterAt("block", z)'
               PROVE  \E b \in Actors : BeforeRelease(b, z)'
    OBVIOUS
  <2>1. WaiterAt("block", z) \/ \E b \in Actors : BeforeRelease(b, z)'
    BY <1>21 DEF ReleaseWaiters
  <2>2. \A b \in Actors : BeforeRelease(b, z) => BeforeRelease(b, z)'
    BY <1>21 DEF ReleaseWaiters
  <2> QED BY <2>1, <2>2
<1>22. ASSUME NEW a \in Actors, LockCallbacks(a) PROVE WaitersSeen'
  <2> SUFFICES ASSUME NEW z \in States, WaiterAt("block", z)'
               PROVE  \E b \in Actors : BeforeRelease(b, z)'
    OBVIOUS
  <2>1. WaiterAt("block", z) \/ \E b \in Actors : BeforeRelease(b, z)'
    BY <1>22 DEF LockCallbacks
  <2>2. \A b \in Actors : BeforeRelease(b, z) => BeforeRelease(b, z)'
    BY <1>22 DEF LockCallbacks
  <2> QED BY <2>1, <2>2
<1>23. ASSUME Collect PROVE WaitersSeen'
  <2> SUFFICES ASSUME NEW z \in States, WaiterAt("block", z)'
               PROVE  \E b \in Actors : BeforeRelease(b, z)'
    OBVIOUS
  <2>1. WaiterAt("block", z) \/ \E b \in Actors : BeforeRelease(b, z)'
    BY <1>23 DEF Collect, Collected
  <2>2. \A b \in Actors : BeforeRelease(b, z) => BeforeRelease(b, z)'
    BY <1>23 DEF Collect, Collected
  <2> QED BY <2>1, <2>2
<1>24. ASSUME CollectedAll PROVE WaitersSeen'
  <2> SUFFICES ASSUME NEW z \in States, WaiterAt("block", z)'
               PROVE  \E b \in Actors : BeforeRelease(b, z)'
    OBVIOUS
  <2>1. WaiterAt("block", z) \/ \E b \in Actors : BeforeRelease(b, z)'
    BY <1>24 DEF CollectedAll
  <2>2. \A b \in Actors : BeforeRelease(b, z) => BeforeRelease(b, z)'
    BY <1>24 DEF CollectedAll
  <2> QED BY <2>1, <2>2
<1>25. ASSUME Sleep PROVE WaitersSeen'
  <2> SUFFICES ASSUME NEW z \in States, WaiterAt("block", z)'
               PROVE  \E b \in Actors : BeforeRelease(b, z)'
    OBVIOUS
  <2>1. WaiterAt("block", z) \/ \E b \in Actors : BeforeRelease(b, z)'
    BY <1>25 DEF Sleep
  <2>2. \A b \in Actors : BeforeRelease(b, z) => BeforeRelease(b, z)'
    BY <1>25 DEF Sleep
  <2> QED BY <2>1, <2>2
<1>26. ASSUME TimeOut PROVE WaitersSeen'
  <2> SUFFICES ASSUME NEW z \in States, WaiterAt("block", z)'
               PROVE  \E b \in Actors : BeforeRelease(b, z)'
    OBVIOUS
  <2>1. WaiterAt("block", z) \/ \E b \in Actors : BeforeRelease(b, z)'
    BY <1>26 DEF TimeOut
  <2>2. \A b \in Actors : BeforeRelease(b, z) => BeforeRelease(b, z)'
    BY <1>26 DEF TimeOut
  <2> QED BY <2>1, <2>2
<1>27. ASSUME FiredAll PROVE WaitersSeen'
  <2> SUFFICES ASSUME NEW z \in States, WaiterAt("block", z)'
               PROVE  \E b \in Actors : BeforeRelease(b, z)'
    OBVIOUS
  <2>1. WaiterAt("block", z) \/ \E b \in Actors : BeforeRelease(b, z)'
    BY <1>27 DEF FiredAll
  <2>2. \A b \in Actors : BeforeRelease(b, z) => BeforeRelease(b, z)'
    BY <1>27 DEF FiredAll
  <2> QED BY <2>1, <2>2
<1>28. ASSUME Scan PROVE WaitersSeen'
  <2> SUFFICES ASSUME NEW z \in States, WaiterAt("block", z)'
               PROVE  \E b \in Actors : BeforeRelease(b, z)'
    OBVIOUS
  <2>1. WaiterAt("block", z) \/ \E b \in Actors : BeforeRelease(b, z)'
    BY <1>28 DEF Scan
  <2>2. \A b \in Actors : BeforeRelease(b, z) => BeforeRelease(b, z)'
    BY <1>28 DEF Scan
  <2> QED BY <2>1, <2>2
<1>29. ASSUME Tick PROVE WaitersSeen'
  <2> SUFFICES ASSUME NEW z \in States, WaiterAt("block", z)'
               PROVE  \E b \in Actors : BeforeRelease(b, z)'
    OBVIOUS
  <2>1. WaiterAt("block", z) \/ \E b \in Actors : BeforeRelease(b, z)'
    BY <1>29 DEF Tick
  <2>2. \A b \in Actors : BeforeRelease(b, z) => BeforeRelease(b, z)'
    BY <1>29 DEF Tick
  <2> QED BY <2>1, <2>2
<1> HIDE ActorAssumption DEF At, Goto, WaitersSeen, BeforeRelease, Working,
    WaiterAt, References, Positions, WaitMutexHeld, OwnersAgree,
    OwnedAreAlive, DestroyersAreLast, Destroying, PurposeKnown, AtWork,
    ArmingComesFirst, DisarmPcs, dataVars, tokenVars, lifeVars, cbVars,
    serviceVars, runVars, callVars, watchVars, vars, TypeOK, Actors, ClaimPcs
<1>30. ASSUME NEW t \in Threads, ArmNotify(t) PROVE WaitersSeen'
  <2>1. CASE pc[Watchdog] = "asleep"
    <3> SUFFICES ASSUME NEW s \in States, WaiterAt("block", s)' PROVE \E b \in Actors : BeforeRelease(b, s)'
      BY DEF WaitersSeen
    <3>1. WaiterAt("block", s) \/ \E b \in Actors : BeforeRelease(b, s)'
      BY ActorAssumption, <1>30, <2>1
        DEF ArmNotify, WakeWatchdog, WaitersSeen, BeforeRelease, WaiterAt,
            References, Positions, WaitMutexHeld, OwnersAgree, OwnedAreAlive,
            DestroyersAreLast, Destroying, PurposeKnown, AtWork,
            ArmingComesFirst, DisarmPcs, dataVars, tokenVars, lifeVars,
            cbVars, serviceVars, runVars, callVars, watchVars, TypeOK, Actors,
            ClaimPcs
    <3>2. \A b \in Actors : BeforeRelease(b, s) => BeforeRelease(b, s)'
      BY ActorAssumption, <1>30, <2>1
        DEF ArmNotify, WakeWatchdog, WaitersSeen, BeforeRelease, WaiterAt,
            References, Positions, WaitMutexHeld, OwnersAgree, OwnedAreAlive,
            DestroyersAreLast, Destroying, PurposeKnown, AtWork,
            ArmingComesFirst, DisarmPcs, dataVars, tokenVars, lifeVars,
            cbVars, serviceVars, runVars, callVars, watchVars, TypeOK, Actors,
            ClaimPcs
    <3> QED BY <3>1, <3>2 DEF WaitersSeen
  <2>2. CASE pc[Watchdog] # "asleep"
    <3> SUFFICES ASSUME NEW s \in States, WaiterAt("block", s)' PROVE \E b \in Actors : BeforeRelease(b, s)'
      BY DEF WaitersSeen
    <3>1. WaiterAt("block", s) \/ \E b \in Actors : BeforeRelease(b, s)'
      BY ActorAssumption, <1>30, <2>2
        DEF ArmNotify, WakeWatchdog, WaitersSeen, BeforeRelease, WaiterAt,
            References, Positions, WaitMutexHeld, OwnersAgree, OwnedAreAlive,
            DestroyersAreLast, Destroying, PurposeKnown, AtWork,
            ArmingComesFirst, DisarmPcs, dataVars, tokenVars, lifeVars,
            cbVars, serviceVars, runVars, callVars, watchVars, TypeOK, Actors,
            ClaimPcs
    <3>2. \A b \in Actors : BeforeRelease(b, s) => BeforeRelease(b, s)'
      BY ActorAssumption, <1>30, <2>2
        DEF ArmNotify, WakeWatchdog, WaitersSeen, BeforeRelease, WaiterAt,
            References, Positions, WaitMutexHeld, OwnersAgree, OwnedAreAlive,
            DestroyersAreLast, Destroying, PurposeKnown, AtWork,
            ArmingComesFirst, DisarmPcs, dataVars, tokenVars, lifeVars,
            cbVars, serviceVars, runVars, callVars, watchVars, TypeOK, Actors,
            ClaimPcs
    <3> QED BY <3>1, <3>2 DEF WaitersSeen
  <2> QED BY <2>1, <2>2
<1>31. ASSUME NEW t \in Threads, ArmRecheck(t) PROVE WaitersSeen'
  <2>1. CASE reason[object[t]] = "none"
    <3> SUFFICES ASSUME NEW s \in States, WaiterAt("block", s)' PROVE \E b \in Actors : BeforeRelease(b, s)'
      BY DEF WaitersSeen
    <3>1. WaiterAt("block", s) \/ \E b \in Actors : BeforeRelease(b, s)'
      BY ActorAssumption, <1>31, <2>1
        DEF ArmRecheck, Goto, WaitersSeen, BeforeRelease, WaiterAt,
            References, Positions, WaitMutexHeld, OwnersAgree, OwnedAreAlive,
            DestroyersAreLast, Destroying, PurposeKnown, AtWork,
            ArmingComesFirst, DisarmPcs, tokenVars, lifeVars, cbVars,
            serviceVars, runVars, watchVars, TypeOK, Actors, ClaimPcs
    <3>2. \A b \in Actors : BeforeRelease(b, s) => BeforeRelease(b, s)'
      BY ActorAssumption, <1>31, <2>1
        DEF ArmRecheck, Goto, WaitersSeen, BeforeRelease, WaiterAt,
            References, Positions, WaitMutexHeld, OwnersAgree, OwnedAreAlive,
            DestroyersAreLast, Destroying, PurposeKnown, AtWork,
            ArmingComesFirst, DisarmPcs, tokenVars, lifeVars, cbVars,
            serviceVars, runVars, watchVars, TypeOK, Actors, ClaimPcs
    <3> QED BY <3>1, <3>2 DEF WaitersSeen
  <2>2. CASE reason[object[t]] # "none"
    <3> SUFFICES ASSUME NEW s \in States, WaiterAt("block", s)' PROVE \E b \in Actors : BeforeRelease(b, s)'
      BY DEF WaitersSeen
    <3>1. WaiterAt("block", s) \/ \E b \in Actors : BeforeRelease(b, s)'
      BY ActorAssumption, <1>31, <2>2
        DEF ArmRecheck, Goto, WaitersSeen, BeforeRelease, WaiterAt,
            References, Positions, WaitMutexHeld, OwnersAgree, OwnedAreAlive,
            DestroyersAreLast, Destroying, PurposeKnown, AtWork,
            ArmingComesFirst, DisarmPcs, tokenVars, lifeVars, cbVars,
            serviceVars, runVars, watchVars, TypeOK, Actors, ClaimPcs
    <3>2. \A b \in Actors : BeforeRelease(b, s) => BeforeRelease(b, s)'
      BY ActorAssumption, <1>31, <2>2
        DEF ArmRecheck, Goto, WaitersSeen, BeforeRelease, WaiterAt,
            References, Positions, WaitMutexHeld, OwnersAgree, OwnedAreAlive,
            DestroyersAreLast, Destroying, PurposeKnown, AtWork,
            ArmingComesFirst, DisarmPcs, tokenVars, lifeVars, cbVars,
            serviceVars, runVars, watchVars, TypeOK, Actors, ClaimPcs
    <3> QED BY <3>1, <3>2 DEF WaitersSeen
  <2> QED BY <2>1, <2>2
<1>32. ASSUME NEW t \in Threads, Drop(t) PROVE WaitersSeen'
  <2>1. t \in Actors
    BY DEF Actors
  <2> QED BY <1>32, <2>1, DropReleases, WaitersSeenReleased DEF References,
      Positions
<1>33. ASSUME NEW t \in Threads, WaitUnlock(t) PROVE WaitersSeen'
  <2>1. CASE pc[t] = "block"
    <3> SUFFICES ASSUME NEW s \in States, WaiterAt("block", s)' PROVE \E b \in Actors : BeforeRelease(b, s)'
      BY DEF WaitersSeen
    <3>1. WaiterAt("block", s) \/ \E b \in Actors : BeforeRelease(b, s)'
      BY ActorAssumption, <1>33, <2>1
        DEF WaitUnlock, Goto, WaitersSeen, BeforeRelease, WaiterAt,
            References, Positions, WaitMutexHeld, OwnersAgree, OwnedAreAlive,
            DestroyersAreLast, Destroying, PurposeKnown, AtWork,
            ArmingComesFirst, DisarmPcs, lifeVars, cbVars, serviceVars,
            runVars, callVars, watchVars, TypeOK, Actors, ClaimPcs
    <3>2. \A b \in Actors : BeforeRelease(b, s) => BeforeRelease(b, s)'
      BY ActorAssumption, <1>33, <2>1
        DEF WaitUnlock, Goto, WaitersSeen, BeforeRelease, WaiterAt,
            References, Positions, WaitMutexHeld, OwnersAgree, OwnedAreAlive,
            DestroyersAreLast, Destroying, PurposeKnown, AtWork,
            ArmingComesFirst, DisarmPcs, lifeVars, cbVars, serviceVars,
            runVars, callVars, watchVars, TypeOK, Actors, ClaimPcs
    <3> QED BY <3>1, <3>2 DEF WaitersSeen
  <2>2. CASE pc[t] # "block"
    <3> SUFFICES ASSUME NEW s \in States, WaiterAt("block", s)' PROVE \E b \in Actors : BeforeRelease(b, s)'
      BY DEF WaitersSeen
    <3>1. WaiterAt("block", s) \/ \E b \in Actors : BeforeRelease(b, s)'
      BY ActorAssumption, <1>33, <2>2
        DEF WaitUnlock, Goto, WaitersSeen, BeforeRelease, WaiterAt,
            References, Positions, WaitMutexHeld, OwnersAgree, OwnedAreAlive,
            DestroyersAreLast, Destroying, PurposeKnown, AtWork,
            ArmingComesFirst, DisarmPcs, lifeVars, cbVars, serviceVars,
            runVars, callVars, watchVars, TypeOK, Actors, ClaimPcs
    <3>2. \A b \in Actors : BeforeRelease(b, s) => BeforeRelease(b, s)'
      BY ActorAssumption, <1>33, <2>2
        DEF WaitUnlock, Goto, WaitersSeen, BeforeRelease, WaiterAt,
            References, Positions, WaitMutexHeld, OwnersAgree, OwnedAreAlive,
            DestroyersAreLast, Destroying, PurposeKnown, AtWork,
            ArmingComesFirst, DisarmPcs, lifeVars, cbVars, serviceVars,
            runVars, callVars, watchVars, TypeOK, Actors, ClaimPcs
    <3> QED BY <3>1, <3>2 DEF WaitersSeen
  <2> QED BY <2>1, <2>2
<1>34. ASSUME NEW a \in Actors, Disarm(a) PROVE WaitersSeen'
  <2>0. object[a] \in States
    BY <1>34, DisarmObject DEF Disarm, DisarmPcs
  <2>1. CASE timer[object[a]]
    <3> SUFFICES ASSUME NEW s \in States, WaiterAt("block", s)' PROVE \E b \in Actors : BeforeRelease(b, s)'
      BY DEF WaitersSeen
    <3>1. WaiterAt("block", s) \/ \E b \in Actors : BeforeRelease(b, s)'
      BY ActorAssumption, <1>34, <2>0, <2>1
        DEF Disarm, Goto, Disarmed, DisarmedPc, WaitersSeen, BeforeRelease,
            WaiterAt, References, Positions, WaitMutexHeld, OwnersAgree,
            OwnedAreAlive, DestroyersAreLast, Destroying, PurposeKnown,
            AtWork, ArmingComesFirst, DisarmPcs, cbVars, serviceVars, runVars,
            watchVars, TypeOK, Actors, ClaimPcs
    <3>2. \A b \in Actors : BeforeRelease(b, s) => BeforeRelease(b, s)'
      BY ActorAssumption, <1>34, <2>0, <2>1
        DEF Disarm, Goto, Disarmed, DisarmedPc, WaitersSeen, BeforeRelease,
            WaiterAt, References, Positions, WaitMutexHeld, OwnersAgree,
            OwnedAreAlive, DestroyersAreLast, Destroying, PurposeKnown,
            AtWork, ArmingComesFirst, DisarmPcs, cbVars, serviceVars, runVars,
            watchVars, TypeOK, Actors, ClaimPcs
    <3> QED BY <3>1, <3>2 DEF WaitersSeen
  <2>2. CASE ~timer[object[a]]
    BY <1>34, <2>0, <2>2, DisarmEnds, WaitersSeenEnded DEF Positions
  <2> QED BY <2>1, <2>2
<1>35. ASSUME NEW a \in Actors, NotifyService(a) PROVE WaitersSeen'
  <2>0. object[a] \in States
    BY <1>35, DisarmObject DEF NotifyService, DisarmPcs
  <2> QED BY <1>35, <2>0, NotifyEnds, WaitersSeenEnded DEF Positions
<1>36. ASSUME NEW a \in Actors, ClaimReason(a) PROVE WaitersSeen'
  <2>1. CASE reason[object[a]] = "none"
    <3> SUFFICES ASSUME NEW s \in States, WaiterAt("block", s)' PROVE \E b \in Actors : BeforeRelease(b, s)'
      BY DEF WaitersSeen
    <3>1. WaiterAt("block", s) \/ \E b \in Actors : BeforeRelease(b, s)'
      BY ActorAssumption, <1>36, <2>1
        DEF ClaimReason, Goto, AfterClaim, WaitersSeen, BeforeRelease,
            WaiterAt, References, Positions, WaitMutexHeld, OwnersAgree,
            OwnedAreAlive, DestroyersAreLast, Destroying, PurposeKnown,
            AtWork, ArmingComesFirst, DisarmPcs, lifeVars, cbVars,
            serviceVars, runVars, watchVars, TypeOK, Actors, ClaimPcs
    <3>2. \A b \in Actors : BeforeRelease(b, s) => BeforeRelease(b, s)'
      BY ActorAssumption, <1>36, <2>1
        DEF ClaimReason, Goto, AfterClaim, WaitersSeen, BeforeRelease,
            WaiterAt, References, Positions, WaitMutexHeld, OwnersAgree,
            OwnedAreAlive, DestroyersAreLast, Destroying, PurposeKnown,
            AtWork, ArmingComesFirst, DisarmPcs, lifeVars, cbVars,
            serviceVars, runVars, watchVars, TypeOK, Actors, ClaimPcs
    <3> QED BY <3>1, <3>2 DEF WaitersSeen
  <2>2. CASE reason[object[a]] # "none"
    <3> SUFFICES ASSUME NEW s \in States, WaiterAt("block", s)' PROVE \E b \in Actors : BeforeRelease(b, s)'
      BY DEF WaitersSeen
    <3>1. WaiterAt("block", s) \/ \E b \in Actors : BeforeRelease(b, s)'
      BY ActorAssumption, <1>36, <2>2
        DEF ClaimReason, Goto, AfterClaim, WaitersSeen, BeforeRelease,
            WaiterAt, References, Positions, WaitMutexHeld, OwnersAgree,
            OwnedAreAlive, DestroyersAreLast, Destroying, PurposeKnown,
            AtWork, ArmingComesFirst, DisarmPcs, lifeVars, cbVars,
            serviceVars, runVars, watchVars, TypeOK, Actors, ClaimPcs
    <3>2. \A b \in Actors : BeforeRelease(b, s) => BeforeRelease(b, s)'
      BY ActorAssumption, <1>36, <2>2
        DEF ClaimReason, Goto, AfterClaim, WaitersSeen, BeforeRelease,
            WaiterAt, References, Positions, WaitMutexHeld, OwnersAgree,
            OwnedAreAlive, DestroyersAreLast, Destroying, PurposeKnown,
            AtWork, ArmingComesFirst, DisarmPcs, lifeVars, cbVars,
            serviceVars, runVars, watchVars, TypeOK, Actors, ClaimPcs
    <3> QED BY <3>1, <3>2 DEF WaitersSeen
  <2> QED BY <2>1, <2>2
<1>37. ASSUME NEW a \in Actors, UnregisterEntry(a) PROVE WaitersSeen'
  <2>0. object[a] \in States
    BY <1>37, DisarmObject DEF UnregisterEntry, DisarmPcs
  <2>1. CASE object[a] \in schedule
    <3> SUFFICES ASSUME NEW s \in States, WaiterAt("block", s)' PROVE \E b \in Actors : BeforeRelease(b, s)'
      BY DEF WaitersSeen
    <3>1. WaiterAt("block", s) \/ \E b \in Actors : BeforeRelease(b, s)'
      BY ActorAssumption, <1>37, <2>0, <2>1
        DEF UnregisterEntry, Goto, WaitersSeen, BeforeRelease, WaiterAt,
            References, Positions, WaitMutexHeld, OwnersAgree, OwnedAreAlive,
            DestroyersAreLast, Destroying, PurposeKnown, AtWork,
            ArmingComesFirst, DisarmPcs, cbVars, runVars, TypeOK, Actors,
            ClaimPcs
    <3>2. \A b \in Actors : BeforeRelease(b, s) => BeforeRelease(b, s)'
      BY ActorAssumption, <1>37, <2>0, <2>1
        DEF UnregisterEntry, Goto, WaitersSeen, BeforeRelease, WaiterAt,
            References, Positions, WaitMutexHeld, OwnersAgree, OwnedAreAlive,
            DestroyersAreLast, Destroying, PurposeKnown, AtWork,
            ArmingComesFirst, DisarmPcs, cbVars, runVars, TypeOK, Actors,
            ClaimPcs
    <3> QED BY <3>1, <3>2 DEF WaitersSeen
  <2>2. CASE object[a] \notin schedule
    BY <1>37, <2>0, <2>2, UnregisterEnds, WaitersSeenEnded DEF Positions
  <2> QED BY <2>1, <2>2
<1>38. ASSUME Fire PROVE WaitersSeen'
  <2>1. CASE owners[Head(due)] = {}
    <3> SUFFICES ASSUME NEW s \in States, WaiterAt("block", s)' PROVE \E b \in Actors : BeforeRelease(b, s)'
      BY DEF WaitersSeen
    <3>1. WaiterAt("block", s) \/ \E b \in Actors : BeforeRelease(b, s)'
      BY ActorAssumption, <1>38, <2>1
        DEF Fire, Goto, WaitersSeen, BeforeRelease, WaiterAt, References,
            Positions, WaitMutexHeld, OwnersAgree, OwnedAreAlive,
            DestroyersAreLast, Destroying, PurposeKnown, AtWork,
            ArmingComesFirst, DisarmPcs, cbVars, serviceVars, TypeOK, Actors,
            ClaimPcs
    <3>2. \A b \in Actors : BeforeRelease(b, s) => BeforeRelease(b, s)'
      BY ActorAssumption, <1>38, <2>1
        DEF Fire, Goto, WaitersSeen, BeforeRelease, WaiterAt, References,
            Positions, WaitMutexHeld, OwnersAgree, OwnedAreAlive,
            DestroyersAreLast, Destroying, PurposeKnown, AtWork,
            ArmingComesFirst, DisarmPcs, cbVars, serviceVars, TypeOK, Actors,
            ClaimPcs
    <3> QED BY <3>1, <3>2 DEF WaitersSeen
  <2>2. CASE owners[Head(due)] # {}
    <3>1. Fired(Head(due))
      BY <1>38, <2>2, FireFires DEF Positions
    <3> QED BY <3>1, WaitersSeenFired DEF Fired
  <2> QED BY <2>1, <2>2
<1>39. ASSUME DropFired PROVE WaitersSeen'
  <2>1. Watchdog \in Actors
    BY DEF Actors
  <2> QED BY <1>39, <2>1, DropFiredReleases, WaitersSeenReleased DEF References,
      Positions
<1>40. ASSUME Woken PROVE WaitersSeen'
  <2>1. CASE changed \/ now >= until
    <3> SUFFICES ASSUME NEW s \in States, WaiterAt("block", s)' PROVE \E b \in Actors : BeforeRelease(b, s)'
      BY DEF WaitersSeen
    <3>1. WaiterAt("block", s) \/ \E b \in Actors : BeforeRelease(b, s)'
      BY ActorAssumption, <1>40, <2>1
        DEF Woken, Goto, WaitersSeen, BeforeRelease, WaiterAt, References,
            Positions, WaitMutexHeld, OwnersAgree, OwnedAreAlive,
            DestroyersAreLast, Destroying, PurposeKnown, AtWork,
            ArmingComesFirst, DisarmPcs, tokenVars, lifeVars, cbVars,
            serviceVars, callVars, TypeOK, Actors, ClaimPcs
    <3>2. \A b \in Actors : BeforeRelease(b, s) => BeforeRelease(b, s)'
      BY ActorAssumption, <1>40, <2>1
        DEF Woken, Goto, WaitersSeen, BeforeRelease, WaiterAt, References,
            Positions, WaitMutexHeld, OwnersAgree, OwnedAreAlive,
            DestroyersAreLast, Destroying, PurposeKnown, AtWork,
            ArmingComesFirst, DisarmPcs, tokenVars, lifeVars, cbVars,
            serviceVars, callVars, TypeOK, Actors, ClaimPcs
    <3> QED BY <3>1, <3>2 DEF WaitersSeen
  <2>2. CASE ~(changed \/ now >= until)
    <3> SUFFICES ASSUME NEW s \in States, WaiterAt("block", s)' PROVE \E b \in Actors : BeforeRelease(b, s)'
      BY DEF WaitersSeen
    <3>1. WaiterAt("block", s) \/ \E b \in Actors : BeforeRelease(b, s)'
      BY ActorAssumption, <1>40, <2>2
        DEF Woken, Goto, WaitersSeen, BeforeRelease, WaiterAt, References,
            Positions, WaitMutexHeld, OwnersAgree, OwnedAreAlive,
            DestroyersAreLast, Destroying, PurposeKnown, AtWork,
            ArmingComesFirst, DisarmPcs, tokenVars, lifeVars, cbVars,
            serviceVars, callVars, TypeOK, Actors, ClaimPcs
    <3>2. \A b \in Actors : BeforeRelease(b, s) => BeforeRelease(b, s)'
      BY ActorAssumption, <1>40, <2>2
        DEF Woken, Goto, WaitersSeen, BeforeRelease, WaiterAt, References,
            Positions, WaitMutexHeld, OwnersAgree, OwnedAreAlive,
            DestroyersAreLast, Destroying, PurposeKnown, AtWork,
            ArmingComesFirst, DisarmPcs, tokenVars, lifeVars, cbVars,
            serviceVars, callVars, TypeOK, Actors, ClaimPcs
    <3> QED BY <3>1, <3>2 DEF WaitersSeen
  <2> QED BY <2>1, <2>2
<1> QED
  BY <1>1, <1>2, <1>3, <1>4, <1>5, <1>6, <1>7, <1>8, <1>9, <1>10,
      <1>11, <1>12, <1>13, <1>14, <1>15, <1>16, <1>17, <1>18, <1>19, <1>20,
      <1>21, <1>22, <1>23, <1>24, <1>25, <1>26, <1>27, <1>28, <1>29, <1>30,
      <1>31, <1>32, <1>33, <1>34, <1>35, <1>36, <1>37, <1>38, <1>39, <1>40
  DEF Next, Optional, ThreadSteps, ThreadLocks, ClaimSteps, ClaimLocks,
      WatchdogSteps, WatchdogLocks, Actors

-----------------------------------------------------------------------------
(* A thread that is blocked on a claimed state will be notified. Kept over *)
(* the end of a disarm.                                                    *)
LEMMA NoLostWakeupEnded ==
    ASSUME TypeOK, References, Positions, WaitersSeen, NoLostWakeup,
      NEW a \in Actors, Ended(a), object[a] \in States
    PROVE  NoLostWakeup'
<1> SUFFICES ASSUME NEW s \in States, WaiterAt("blocked", s)'
             PROVE  \E b \in Actors : Releasing(b, s)'
  BY DEF NoLostWakeup
<1>1. WaiterAt("blocked", s)
  <2>1. PICK t \in Threads : pc'[t] = "blocked" /\ object'[t] = s
    BY DEF WaiterAt
  <2>2. t # a
    BY <2>1 DEF Ended
  <2>3. pc[t] = "blocked" /\ object[t] = s
    BY <2>1, <2>2, ActorAssumption DEF Ended, Actors
  <2>4. reason[s] # "none"
    BY DEF WaiterAt, Ended, TypeOK
  <2> QED BY <2>3, <2>4 DEF WaiterAt
<1>2. PICK b \in Actors : Releasing(b, s)
  BY <1>1 DEF NoLostWakeup
<1>3. Releasing(b, s)'
  BY <1>2 DEF Releasing, Ended, DisarmPcs
<1> QED BY <1>3

(* The same (NoLostWakeup), kept over the release of a reference.          *)
LEMMA NoLostWakeupReleased ==
    ASSUME TypeOK, References, Positions, WaitersSeen, NoLostWakeup,
      NEW a \in Actors, Released(a)
    PROVE  NoLostWakeup'
<1> SUFFICES ASSUME NEW s \in States, WaiterAt("blocked", s)'
             PROVE  \E b \in Actors : Releasing(b, s)'
  BY DEF NoLostWakeup
<1>1. WaiterAt("blocked", s)
  <2>1. PICK t \in Threads : pc'[t] = "blocked" /\ object'[t] = s
    BY DEF WaiterAt
  <2>2. t # a
    BY <2>1 DEF Released, TypeOK
  <2>3. pc[t] = "blocked" /\ object[t] = s
    BY <2>1, <2>2, ActorAssumption DEF Released, Actors
  <2>4. reason[s] # "none"
    BY DEF WaiterAt, Released
  <2> QED BY <2>3, <2>4 DEF WaiterAt
<1>2. PICK b \in Actors : Releasing(b, s)
  BY <1>1 DEF NoLostWakeup
<1>3. Releasing(b, s)'
  BY <1>2 DEF Releasing, Released
<1> QED BY <1>3

(* The same (NoLostWakeup), kept over the firing of an entry.              *)
LEMMA NoLostWakeupFired ==
    ASSUME TypeOK, References, Positions, WaitersSeen, NoLostWakeup,
      NEW z \in States, Fired(z)
    PROVE  NoLostWakeup'
<1> SUFFICES ASSUME NEW s \in States, WaiterAt("blocked", s)' PROVE \E b \in Actors : Releasing(b, s)'
  BY DEF NoLostWakeup
<1>1. WaiterAt("blocked", s) \/ \E b \in Actors : Releasing(b, s)'
  BY ActorAssumption
    DEF Fired, NoLostWakeup, Releasing, WaiterAt, References, Positions,
        WaitersSeen, OwnersAgree, OwnedAreAlive, DestroyersAreLast,
        Destroying, PurposeKnown, AtWork, ArmingComesFirst, DisarmPcs, TypeOK,
        Actors, ClaimPcs
<1>2. \A b \in Actors : Releasing(b, s) => Releasing(b, s)'
  BY ActorAssumption
    DEF Fired, NoLostWakeup, Releasing, WaiterAt, References, Positions,
        WaitersSeen, OwnersAgree, OwnedAreAlive, DestroyersAreLast,
        Destroying, PurposeKnown, AtWork, ArmingComesFirst, DisarmPcs, TypeOK,
        Actors, ClaimPcs
<1> QED BY <1>1, <1>2 DEF NoLostWakeup

(* The same (NoLostWakeup), kept over every step.                          *)
LEMMA NoLostWakeupStep ==
    ASSUME TypeOK, References, Positions,
      WaitersSeen, NoLostWakeup, Next
    PROVE  NoLostWakeup'
<1> USE ActorAssumption DEF At, Goto, References, Positions, WaitersSeen,
    OwnersAgree, OwnedAreAlive, DestroyersAreLast, Destroying, PurposeKnown,
    AtWork, ArmingComesFirst, DisarmPcs, dataVars, tokenVars, lifeVars,
    cbVars, serviceVars, runVars, callVars, watchVars, vars, TypeOK, Actors,
    ClaimPcs
<1>1. ASSUME NEW t \in Threads, NEW s \in States, NEW d \in Deadlines, Create(t, s, d)
      PROVE NoLostWakeup'
  <2> SUFFICES ASSUME NEW z \in States, WaiterAt("blocked", z)'
               PROVE  \E b \in Actors : Releasing(b, z)'
    BY DEF NoLostWakeup
  <2>1. WaiterAt("blocked", z) \/ \E b \in Actors : Releasing(b, z)'
    BY <1>1 DEF Create, WaiterAt, Releasing
  <2>2. \A b \in Actors : Releasing(b, z) => Releasing(b, z)'
    BY <1>1 DEF Create, WaiterAt, Releasing
  <2> QED BY <2>1, <2>2 DEF NoLostWakeup
<1>2. ASSUME NEW t \in Threads, ArmRegister(t) PROVE NoLostWakeup'
  <2> SUFFICES ASSUME NEW z \in States, WaiterAt("blocked", z)'
               PROVE  \E b \in Actors : Releasing(b, z)'
    BY DEF NoLostWakeup
  <2>1. WaiterAt("blocked", z) \/ \E b \in Actors : Releasing(b, z)'
    BY <1>2 DEF ArmRegister, WaiterAt, Releasing
  <2>2. \A b \in Actors : Releasing(b, z) => Releasing(b, z)'
    BY <1>2 DEF ArmRegister, WaiterAt, Releasing
  <2> QED BY <2>1, <2>2 DEF NoLostWakeup
<1>3. ASSUME NEW t \in Threads, ArmFails(t) PROVE NoLostWakeup'
  <2> SUFFICES ASSUME NEW z \in States, WaiterAt("blocked", z)'
               PROVE  \E b \in Actors : Releasing(b, z)'
    BY DEF NoLostWakeup
  <2>1. WaiterAt("blocked", z) \/ \E b \in Actors : Releasing(b, z)'
    BY <1>3 DEF ArmFails, WaiterAt, Releasing
  <2>2. \A b \in Actors : Releasing(b, z) => Releasing(b, z)'
    BY <1>3 DEF ArmFails, WaiterAt, Releasing
  <2> QED BY <2>1, <2>2 DEF NoLostWakeup
<1>4. ASSUME NEW t \in Threads, ArmStore(t) PROVE NoLostWakeup'
  <2> SUFFICES ASSUME NEW z \in States, WaiterAt("blocked", z)'
               PROVE  \E b \in Actors : Releasing(b, z)'
    BY DEF NoLostWakeup
  <2>1. WaiterAt("blocked", z) \/ \E b \in Actors : Releasing(b, z)'
    BY <1>4 DEF ArmStore, WaiterAt, Releasing
  <2>2. \A b \in Actors : Releasing(b, z) => Releasing(b, z)'
    BY <1>4 DEF ArmStore, WaiterAt, Releasing
  <2> QED BY <2>1, <2>2 DEF NoLostWakeup
<1>5. ASSUME NEW t \in Threads, NEW s \in States, Share(t, s)
      PROVE NoLostWakeup'
  <2> SUFFICES ASSUME NEW z \in States, WaiterAt("blocked", z)'
               PROVE  \E b \in Actors : Releasing(b, z)'
    BY DEF NoLostWakeup
  <2>1. WaiterAt("blocked", z) \/ \E b \in Actors : Releasing(b, z)'
    BY <1>5 DEF Share, WaiterAt, Releasing
  <2>2. \A b \in Actors : Releasing(b, z) => Releasing(b, z)'
    BY <1>5 DEF Share, WaiterAt, Releasing
  <2> QED BY <2>1, <2>2 DEF NoLostWakeup
<1>6. ASSUME NEW t \in Threads, Cancel(t) PROVE NoLostWakeup'
  <2> SUFFICES ASSUME NEW z \in States, WaiterAt("blocked", z)'
               PROVE  \E b \in Actors : Releasing(b, z)'
    BY DEF NoLostWakeup
  <2>1. WaiterAt("blocked", z) \/ \E b \in Actors : Releasing(b, z)'
    BY <1>6 DEF Cancel, StartClaim, WaiterAt, Releasing
  <2>2. \A b \in Actors : Releasing(b, z) => Releasing(b, z)'
    BY <1>6 DEF Cancel, StartClaim, WaiterAt, Releasing
  <2> QED BY <2>1, <2>2 DEF NoLostWakeup
<1>7. ASSUME NEW t \in Threads, Poll(t) PROVE NoLostWakeup'
  <2> SUFFICES ASSUME NEW z \in States, WaiterAt("blocked", z)'
               PROVE  \E b \in Actors : Releasing(b, z)'
    BY DEF NoLostWakeup
  <2>1. WaiterAt("blocked", z) \/ \E b \in Actors : Releasing(b, z)'
    BY <1>7 DEF Poll, StartClaim, WaiterAt, Releasing
  <2>2. \A b \in Actors : Releasing(b, z) => Releasing(b, z)'
    BY <1>7 DEF Poll, StartClaim, WaiterAt, Releasing
  <2> QED BY <2>1, <2>2 DEF NoLostWakeup
<1>8. ASSUME NEW t \in Threads, Wait(t) PROVE NoLostWakeup'
  <2> SUFFICES ASSUME NEW z \in States, WaiterAt("blocked", z)'
               PROVE  \E b \in Actors : Releasing(b, z)'
    BY DEF NoLostWakeup
  <2>1. WaiterAt("blocked", z) \/ \E b \in Actors : Releasing(b, z)'
    BY <1>8 DEF Wait, WaiterAt, Releasing
  <2>2. \A b \in Actors : Releasing(b, z) => Releasing(b, z)'
    BY <1>8 DEF Wait, WaiterAt, Releasing
  <2> QED BY <2>1, <2>2 DEF NoLostWakeup
<1>9. ASSUME NEW t \in Threads, StartRegister(t) PROVE NoLostWakeup'
  <2> SUFFICES ASSUME NEW z \in States, WaiterAt("blocked", z)'
               PROVE  \E b \in Actors : Releasing(b, z)'
    BY DEF NoLostWakeup
  <2>1. WaiterAt("blocked", z) \/ \E b \in Actors : Releasing(b, z)'
    BY <1>9 DEF StartRegister, WaiterAt, Releasing
  <2>2. \A b \in Actors : Releasing(b, z) => Releasing(b, z)'
    BY <1>9 DEF StartRegister, WaiterAt, Releasing
  <2> QED BY <2>1, <2>2 DEF NoLostWakeup
<1>10. ASSUME NEW t \in Threads, DestroyRegistration(t) PROVE NoLostWakeup'
  <2> SUFFICES ASSUME NEW z \in States, WaiterAt("blocked", z)'
               PROVE  \E b \in Actors : Releasing(b, z)'
    BY DEF NoLostWakeup
  <2>1. WaiterAt("blocked", z) \/ \E b \in Actors : Releasing(b, z)'
    BY <1>10 DEF DestroyRegistration, WaiterAt, Releasing
  <2>2. \A b \in Actors : Releasing(b, z) => Releasing(b, z)'
    BY <1>10 DEF DestroyRegistration, WaiterAt, Releasing
  <2> QED BY <2>1, <2>2 DEF NoLostWakeup
<1>11. ASSUME NEW t \in Threads, DestroyInline(t) PROVE NoLostWakeup'
  <2> SUFFICES ASSUME NEW z \in States, WaiterAt("blocked", z)'
               PROVE  \E b \in Actors : Releasing(b, z)'
    BY DEF NoLostWakeup
  <2>1. WaiterAt("blocked", z) \/ \E b \in Actors : Releasing(b, z)'
    BY <1>11 DEF DestroyInline, WaiterAt, Releasing
  <2>2. \A b \in Actors : Releasing(b, z) => Releasing(b, z)'
    BY <1>11 DEF DestroyInline, WaiterAt, Releasing
  <2> QED BY <2>1, <2>2 DEF NoLostWakeup
<1>12. ASSUME NEW t \in Threads, WaitTest(t) PROVE NoLostWakeup'
  <2> SUFFICES ASSUME NEW z \in States, WaiterAt("blocked", z)'
               PROVE  \E b \in Actors : Releasing(b, z)'
    BY DEF NoLostWakeup
  <2>1. WaiterAt("blocked", z) \/ \E b \in Actors : Releasing(b, z)'
    BY <1>12 DEF WaitTest, WaiterAt, Releasing
  <2>2. \A b \in Actors : Releasing(b, z) => Releasing(b, z)'
    BY <1>12 DEF WaitTest, WaiterAt, Releasing
  <2> QED BY <2>1, <2>2 DEF NoLostWakeup
<1>13. ASSUME NEW t \in Threads, WaitLock(t) PROVE NoLostWakeup'
  <2> SUFFICES ASSUME NEW z \in States, WaiterAt("blocked", z)'
               PROVE  \E b \in Actors : Releasing(b, z)'
    BY DEF NoLostWakeup
  <2>1. WaiterAt("blocked", z) \/ \E b \in Actors : Releasing(b, z)'
    BY <1>13 DEF WaitLock, WaiterAt, Releasing
  <2>2. \A b \in Actors : Releasing(b, z) => Releasing(b, z)'
    BY <1>13 DEF WaitLock, WaiterAt, Releasing
  <2> QED BY <2>1, <2>2 DEF NoLostWakeup
<1>14. ASSUME NEW t \in Threads, RegisterStored(t) PROVE NoLostWakeup'
  <2> SUFFICES ASSUME NEW z \in States, WaiterAt("blocked", z)'
               PROVE  \E b \in Actors : Releasing(b, z)'
    BY DEF NoLostWakeup
  <2>1. WaiterAt("blocked", z) \/ \E b \in Actors : Releasing(b, z)'
    BY <1>14 DEF RegisterStored, WaiterAt, Releasing
  <2>2. \A b \in Actors : Releasing(b, z) => Releasing(b, z)'
    BY <1>14 DEF RegisterStored, WaiterAt, Releasing
  <2> QED BY <2>1, <2>2 DEF NoLostWakeup
<1>15. ASSUME NEW t \in Threads, RegisterInline(t) PROVE NoLostWakeup'
  <2> SUFFICES ASSUME NEW z \in States, WaiterAt("blocked", z)'
               PROVE  \E b \in Actors : Releasing(b, z)'
    BY DEF NoLostWakeup
  <2>1. WaiterAt("blocked", z) \/ \E b \in Actors : Releasing(b, z)'
    BY <1>15 DEF RegisterInline, WaiterAt, Releasing
  <2>2. \A b \in Actors : Releasing(b, z) => Releasing(b, z)'
    BY <1>15 DEF RegisterInline, WaiterAt, Releasing
  <2> QED BY <2>1, <2>2 DEF NoLostWakeup
<1>16. ASSUME NEW t \in Threads, Unregister(t) PROVE NoLostWakeup'
  <2> SUFFICES ASSUME NEW z \in States, WaiterAt("blocked", z)'
               PROVE  \E b \in Actors : Releasing(b, z)'
    BY DEF NoLostWakeup
  <2>1. WaiterAt("blocked", z) \/ \E b \in Actors : Releasing(b, z)'
    BY <1>16 DEF Unregister, WaiterAt, Releasing
  <2>2. \A b \in Actors : Releasing(b, z) => Releasing(b, z)'
    BY <1>16 DEF Unregister, WaiterAt, Releasing
  <2> QED BY <2>1, <2>2 DEF NoLostWakeup
<1>17. ASSUME NEW a \in Actors, NotifyWaiters(a) PROVE NoLostWakeup'
  <2> SUFFICES ASSUME NEW z \in States, WaiterAt("blocked", z)'
               PROVE  \E b \in Actors : Releasing(b, z)'
    BY DEF NoLostWakeup
  <2>1. WaiterAt("blocked", z) \/ \E b \in Actors : Releasing(b, z)'
    BY <1>17 DEF NotifyWaiters, WaiterAt, Releasing
  <2>2. \A b \in Actors : Releasing(b, z) => Releasing(b, z)'
    BY <1>17 DEF NotifyWaiters, WaiterAt, Releasing
  <2> QED BY <2>1, <2>2 DEF NoLostWakeup
<1>18. ASSUME NEW a \in Actors, CallBack(a) PROVE NoLostWakeup'
  <2> SUFFICES ASSUME NEW z \in States, WaiterAt("blocked", z)'
               PROVE  \E b \in Actors : Releasing(b, z)'
    BY DEF NoLostWakeup
  <2>1. WaiterAt("blocked", z) \/ \E b \in Actors : Releasing(b, z)'
    BY <1>18 DEF CallBack, WaiterAt, Releasing
  <2>2. \A b \in Actors : Releasing(b, z) => Releasing(b, z)'
    BY <1>18 DEF CallBack, WaiterAt, Releasing
  <2> QED BY <2>1, <2>2 DEF NoLostWakeup
<1>19. ASSUME NEW a \in Actors, CallbackReturns(a) PROVE NoLostWakeup'
  <2> SUFFICES ASSUME NEW z \in States, WaiterAt("blocked", z)'
               PROVE  \E b \in Actors : Releasing(b, z)'
    BY DEF NoLostWakeup
  <2>1. WaiterAt("blocked", z) \/ \E b \in Actors : Releasing(b, z)'
    BY <1>19 DEF CallbackReturns, WaiterAt, Releasing
  <2>2. \A b \in Actors : Releasing(b, z) => Releasing(b, z)'
    BY <1>19 DEF CallbackReturns, WaiterAt, Releasing
  <2> QED BY <2>1, <2>2 DEF NoLostWakeup
<1>20. ASSUME NEW a \in Actors, ClaimReturns(a) PROVE NoLostWakeup'
  <2> SUFFICES ASSUME NEW z \in States, WaiterAt("blocked", z)'
               PROVE  \E b \in Actors : Releasing(b, z)'
    BY DEF NoLostWakeup
  <2>1. WaiterAt("blocked", z) \/ \E b \in Actors : Releasing(b, z)'
    BY <1>20 DEF ClaimReturns, AfterClaim, WaiterAt, Releasing
  <2>2. \A b \in Actors : Releasing(b, z) => Releasing(b, z)'
    BY <1>20 DEF ClaimReturns, AfterClaim, WaiterAt, Releasing
  <2> QED BY <2>1, <2>2 DEF NoLostWakeup
<1>21. ASSUME NEW a \in Actors, ReleaseWaiters(a) PROVE NoLostWakeup'
  <2> SUFFICES ASSUME NEW z \in States, WaiterAt("blocked", z)'
               PROVE  \E b \in Actors : Releasing(b, z)'
    BY DEF NoLostWakeup
  <2>1. WaiterAt("blocked", z) \/ \E b \in Actors : Releasing(b, z)'
    BY <1>21 DEF ReleaseWaiters, WaiterAt, Releasing
  <2>2. \A b \in Actors : Releasing(b, z) => Releasing(b, z)'
    BY <1>21 DEF ReleaseWaiters, WaiterAt, Releasing
  <2> QED BY <2>1, <2>2 DEF NoLostWakeup
<1>22. ASSUME NEW a \in Actors, LockCallbacks(a) PROVE NoLostWakeup'
  <2> SUFFICES ASSUME NEW z \in States, WaiterAt("blocked", z)'
               PROVE  \E b \in Actors : Releasing(b, z)'
    BY DEF NoLostWakeup
  <2>1. WaiterAt("blocked", z) \/ \E b \in Actors : Releasing(b, z)'
    BY <1>22 DEF LockCallbacks, WaiterAt, Releasing
  <2>2. \A b \in Actors : Releasing(b, z) => Releasing(b, z)'
    BY <1>22 DEF LockCallbacks, WaiterAt, Releasing
  <2> QED BY <2>1, <2>2 DEF NoLostWakeup
<1>23. ASSUME Collect PROVE NoLostWakeup'
  <2> SUFFICES ASSUME NEW z \in States, WaiterAt("blocked", z)'
               PROVE  \E b \in Actors : Releasing(b, z)'
    BY DEF NoLostWakeup
  <2>1. WaiterAt("blocked", z) \/ \E b \in Actors : Releasing(b, z)'
    BY <1>23 DEF Collect, Collected, WaiterAt, Releasing
  <2>2. \A b \in Actors : Releasing(b, z) => Releasing(b, z)'
    BY <1>23 DEF Collect, Collected, WaiterAt, Releasing
  <2> QED BY <2>1, <2>2 DEF NoLostWakeup
<1>24. ASSUME CollectedAll PROVE NoLostWakeup'
  <2> SUFFICES ASSUME NEW z \in States, WaiterAt("blocked", z)'
               PROVE  \E b \in Actors : Releasing(b, z)'
    BY DEF NoLostWakeup
  <2>1. WaiterAt("blocked", z) \/ \E b \in Actors : Releasing(b, z)'
    BY <1>24 DEF CollectedAll, WaiterAt, Releasing
  <2>2. \A b \in Actors : Releasing(b, z) => Releasing(b, z)'
    BY <1>24 DEF CollectedAll, WaiterAt, Releasing
  <2> QED BY <2>1, <2>2 DEF NoLostWakeup
<1>25. ASSUME Sleep PROVE NoLostWakeup'
  <2> SUFFICES ASSUME NEW z \in States, WaiterAt("blocked", z)'
               PROVE  \E b \in Actors : Releasing(b, z)'
    BY DEF NoLostWakeup
  <2>1. WaiterAt("blocked", z) \/ \E b \in Actors : Releasing(b, z)'
    BY <1>25 DEF Sleep, WaiterAt, Releasing
  <2>2. \A b \in Actors : Releasing(b, z) => Releasing(b, z)'
    BY <1>25 DEF Sleep, WaiterAt, Releasing
  <2> QED BY <2>1, <2>2 DEF NoLostWakeup
<1>26. ASSUME TimeOut PROVE NoLostWakeup'
  <2> SUFFICES ASSUME NEW z \in States, WaiterAt("blocked", z)'
               PROVE  \E b \in Actors : Releasing(b, z)'
    BY DEF NoLostWakeup
  <2>1. WaiterAt("blocked", z) \/ \E b \in Actors : Releasing(b, z)'
    BY <1>26 DEF TimeOut, WaiterAt, Releasing
  <2>2. \A b \in Actors : Releasing(b, z) => Releasing(b, z)'
    BY <1>26 DEF TimeOut, WaiterAt, Releasing
  <2> QED BY <2>1, <2>2 DEF NoLostWakeup
<1>27. ASSUME FiredAll PROVE NoLostWakeup'
  <2> SUFFICES ASSUME NEW z \in States, WaiterAt("blocked", z)'
               PROVE  \E b \in Actors : Releasing(b, z)'
    BY DEF NoLostWakeup
  <2>1. WaiterAt("blocked", z) \/ \E b \in Actors : Releasing(b, z)'
    BY <1>27 DEF FiredAll, WaiterAt, Releasing
  <2>2. \A b \in Actors : Releasing(b, z) => Releasing(b, z)'
    BY <1>27 DEF FiredAll, WaiterAt, Releasing
  <2> QED BY <2>1, <2>2 DEF NoLostWakeup
<1>28. ASSUME Scan PROVE NoLostWakeup'
  <2> SUFFICES ASSUME NEW z \in States, WaiterAt("blocked", z)'
               PROVE  \E b \in Actors : Releasing(b, z)'
    BY DEF NoLostWakeup
  <2>1. WaiterAt("blocked", z) \/ \E b \in Actors : Releasing(b, z)'
    BY <1>28 DEF Scan, WaiterAt, Releasing
  <2>2. \A b \in Actors : Releasing(b, z) => Releasing(b, z)'
    BY <1>28 DEF Scan, WaiterAt, Releasing
  <2> QED BY <2>1, <2>2 DEF NoLostWakeup
<1>29. ASSUME Tick PROVE NoLostWakeup'
  <2> SUFFICES ASSUME NEW z \in States, WaiterAt("blocked", z)'
               PROVE  \E b \in Actors : Releasing(b, z)'
    BY DEF NoLostWakeup
  <2>1. WaiterAt("blocked", z) \/ \E b \in Actors : Releasing(b, z)'
    BY <1>29 DEF Tick, WaiterAt, Releasing
  <2>2. \A b \in Actors : Releasing(b, z) => Releasing(b, z)'
    BY <1>29 DEF Tick, WaiterAt, Releasing
  <2> QED BY <2>1, <2>2 DEF NoLostWakeup
<1> HIDE ActorAssumption DEF At, Goto, References, Positions, WaitersSeen,
    OwnersAgree, OwnedAreAlive, DestroyersAreLast, Destroying, PurposeKnown,
    AtWork, ArmingComesFirst, DisarmPcs, dataVars, tokenVars, lifeVars,
    cbVars, serviceVars, runVars, callVars, watchVars, vars, TypeOK, Actors,
    ClaimPcs
<1>30. ASSUME NEW t \in Threads, ArmNotify(t) PROVE NoLostWakeup'
  <2>1. CASE pc[Watchdog] = "asleep"
    <3> SUFFICES ASSUME NEW s \in States, WaiterAt("blocked", s)' PROVE \E b \in Actors : Releasing(b, s)'
      BY DEF NoLostWakeup
    <3>1. WaiterAt("blocked", s) \/ \E b \in Actors : Releasing(b, s)'
      BY ActorAssumption, <1>30, <2>1
        DEF ArmNotify, WakeWatchdog, NoLostWakeup, Releasing, WaiterAt,
            References, Positions, WaitersSeen, OwnersAgree, OwnedAreAlive,
            DestroyersAreLast, Destroying, PurposeKnown, AtWork,
            ArmingComesFirst, DisarmPcs, dataVars, tokenVars, lifeVars,
            cbVars, serviceVars, runVars, callVars, watchVars, TypeOK, Actors,
            ClaimPcs
    <3>2. \A b \in Actors : Releasing(b, s) => Releasing(b, s)'
      BY ActorAssumption, <1>30, <2>1
        DEF ArmNotify, WakeWatchdog, NoLostWakeup, Releasing, WaiterAt,
            References, Positions, WaitersSeen, OwnersAgree, OwnedAreAlive,
            DestroyersAreLast, Destroying, PurposeKnown, AtWork,
            ArmingComesFirst, DisarmPcs, dataVars, tokenVars, lifeVars,
            cbVars, serviceVars, runVars, callVars, watchVars, TypeOK, Actors,
            ClaimPcs
    <3> QED BY <3>1, <3>2 DEF NoLostWakeup
  <2>2. CASE pc[Watchdog] # "asleep"
    <3> SUFFICES ASSUME NEW s \in States, WaiterAt("blocked", s)' PROVE \E b \in Actors : Releasing(b, s)'
      BY DEF NoLostWakeup
    <3>1. WaiterAt("blocked", s) \/ \E b \in Actors : Releasing(b, s)'
      BY ActorAssumption, <1>30, <2>2
        DEF ArmNotify, WakeWatchdog, NoLostWakeup, Releasing, WaiterAt,
            References, Positions, WaitersSeen, OwnersAgree, OwnedAreAlive,
            DestroyersAreLast, Destroying, PurposeKnown, AtWork,
            ArmingComesFirst, DisarmPcs, dataVars, tokenVars, lifeVars,
            cbVars, serviceVars, runVars, callVars, watchVars, TypeOK, Actors,
            ClaimPcs
    <3>2. \A b \in Actors : Releasing(b, s) => Releasing(b, s)'
      BY ActorAssumption, <1>30, <2>2
        DEF ArmNotify, WakeWatchdog, NoLostWakeup, Releasing, WaiterAt,
            References, Positions, WaitersSeen, OwnersAgree, OwnedAreAlive,
            DestroyersAreLast, Destroying, PurposeKnown, AtWork,
            ArmingComesFirst, DisarmPcs, dataVars, tokenVars, lifeVars,
            cbVars, serviceVars, runVars, callVars, watchVars, TypeOK, Actors,
            ClaimPcs
    <3> QED BY <3>1, <3>2 DEF NoLostWakeup
  <2> QED BY <2>1, <2>2
<1>31. ASSUME NEW t \in Threads, ArmRecheck(t) PROVE NoLostWakeup'
  <2>1. CASE reason[object[t]] = "none"
    <3> SUFFICES ASSUME NEW s \in States, WaiterAt("blocked", s)' PROVE \E b \in Actors : Releasing(b, s)'
      BY DEF NoLostWakeup
    <3>1. WaiterAt("blocked", s) \/ \E b \in Actors : Releasing(b, s)'
      BY ActorAssumption, <1>31, <2>1
        DEF ArmRecheck, Goto, NoLostWakeup, Releasing, WaiterAt, References,
            Positions, WaitersSeen, OwnersAgree, OwnedAreAlive,
            DestroyersAreLast, Destroying, PurposeKnown, AtWork,
            ArmingComesFirst, DisarmPcs, tokenVars, lifeVars, cbVars,
            serviceVars, runVars, watchVars, TypeOK, Actors, ClaimPcs
    <3>2. \A b \in Actors : Releasing(b, s) => Releasing(b, s)'
      BY ActorAssumption, <1>31, <2>1
        DEF ArmRecheck, Goto, NoLostWakeup, Releasing, WaiterAt, References,
            Positions, WaitersSeen, OwnersAgree, OwnedAreAlive,
            DestroyersAreLast, Destroying, PurposeKnown, AtWork,
            ArmingComesFirst, DisarmPcs, tokenVars, lifeVars, cbVars,
            serviceVars, runVars, watchVars, TypeOK, Actors, ClaimPcs
    <3> QED BY <3>1, <3>2 DEF NoLostWakeup
  <2>2. CASE reason[object[t]] # "none"
    <3> SUFFICES ASSUME NEW s \in States, WaiterAt("blocked", s)' PROVE \E b \in Actors : Releasing(b, s)'
      BY DEF NoLostWakeup
    <3>1. WaiterAt("blocked", s) \/ \E b \in Actors : Releasing(b, s)'
      BY ActorAssumption, <1>31, <2>2
        DEF ArmRecheck, Goto, NoLostWakeup, Releasing, WaiterAt, References,
            Positions, WaitersSeen, OwnersAgree, OwnedAreAlive,
            DestroyersAreLast, Destroying, PurposeKnown, AtWork,
            ArmingComesFirst, DisarmPcs, tokenVars, lifeVars, cbVars,
            serviceVars, runVars, watchVars, TypeOK, Actors, ClaimPcs
    <3>2. \A b \in Actors : Releasing(b, s) => Releasing(b, s)'
      BY ActorAssumption, <1>31, <2>2
        DEF ArmRecheck, Goto, NoLostWakeup, Releasing, WaiterAt, References,
            Positions, WaitersSeen, OwnersAgree, OwnedAreAlive,
            DestroyersAreLast, Destroying, PurposeKnown, AtWork,
            ArmingComesFirst, DisarmPcs, tokenVars, lifeVars, cbVars,
            serviceVars, runVars, watchVars, TypeOK, Actors, ClaimPcs
    <3> QED BY <3>1, <3>2 DEF NoLostWakeup
  <2> QED BY <2>1, <2>2
<1>32. ASSUME NEW t \in Threads, Drop(t) PROVE NoLostWakeup'
  <2>1. t \in Actors
    BY DEF Actors
  <2> QED BY <1>32, <2>1, DropReleases, NoLostWakeupReleased DEF References,
      Positions
<1>33. ASSUME NEW t \in Threads, WaitUnlock(t) PROVE NoLostWakeup'
  <2>1. CASE pc[t] = "block"
    <3> SUFFICES ASSUME NEW s \in States, WaiterAt("blocked", s)'
                 PROVE  \E b \in Actors : Releasing(b, s)'
      BY DEF NoLostWakeup
    <3>1. /\ pc' = [pc EXCEPT ![t] = "blocked"]
          /\ reason' = reason /\ object' = object /\ disarmFor' = disarmFor
      BY <1>33, <2>1 DEF WaitUnlock, Goto, callVars
    <3>2. WaiterAt("blocked", s) \/ WaiterAt("block", s)
      BY <2>1, <3>1 DEF WaiterAt, TypeOK, Actors
    <3>3. \E b \in Actors : Releasing(b, s)
      BY <3>2 DEF NoLostWakeup, WaitersSeen, BeforeRelease, Releasing,
          DisarmPcs
    <3>4. \A b \in Actors : Releasing(b, s) => Releasing(b, s)'
      BY <2>1, <3>1 DEF Releasing, TypeOK, Actors
    <3> QED BY <3>3, <3>4
  <2>2. CASE pc[t] # "block"
    <3> SUFFICES ASSUME NEW s \in States, WaiterAt("blocked", s)' PROVE \E b \in Actors : Releasing(b, s)'
      BY DEF NoLostWakeup
    <3>1. WaiterAt("blocked", s) \/ \E b \in Actors : Releasing(b, s)'
      BY ActorAssumption, <1>33, <2>2
        DEF WaitUnlock, Goto, NoLostWakeup, Releasing, WaiterAt, References,
            Positions, WaitersSeen, OwnersAgree, OwnedAreAlive,
            DestroyersAreLast, Destroying, PurposeKnown, AtWork,
            ArmingComesFirst, DisarmPcs, lifeVars, cbVars, serviceVars,
            runVars, callVars, watchVars, TypeOK, Actors, ClaimPcs
    <3>2. \A b \in Actors : Releasing(b, s) => Releasing(b, s)'
      BY ActorAssumption, <1>33, <2>2
        DEF WaitUnlock, Goto, NoLostWakeup, Releasing, WaiterAt, References,
            Positions, WaitersSeen, OwnersAgree, OwnedAreAlive,
            DestroyersAreLast, Destroying, PurposeKnown, AtWork,
            ArmingComesFirst, DisarmPcs, lifeVars, cbVars, serviceVars,
            runVars, callVars, watchVars, TypeOK, Actors, ClaimPcs
    <3> QED BY <3>1, <3>2 DEF NoLostWakeup
  <2> QED BY <2>1, <2>2
<1>34. ASSUME NEW a \in Actors, Disarm(a) PROVE NoLostWakeup'
  <2>0. object[a] \in States
    BY <1>34, DisarmObject DEF Disarm, DisarmPcs
  <2>1. CASE timer[object[a]]
    <3> SUFFICES ASSUME NEW s \in States, WaiterAt("blocked", s)' PROVE \E b \in Actors : Releasing(b, s)'
      BY DEF NoLostWakeup
    <3>1. WaiterAt("blocked", s) \/ \E b \in Actors : Releasing(b, s)'
      BY ActorAssumption, <1>34, <2>0, <2>1
        DEF Disarm, Goto, Disarmed, DisarmedPc, NoLostWakeup, Releasing,
            WaiterAt, References, Positions, WaitersSeen, OwnersAgree,
            OwnedAreAlive, DestroyersAreLast, Destroying, PurposeKnown,
            AtWork, ArmingComesFirst, DisarmPcs, cbVars, serviceVars, runVars,
            watchVars, TypeOK, Actors, ClaimPcs
    <3>2. \A b \in Actors : Releasing(b, s) => Releasing(b, s)'
      BY ActorAssumption, <1>34, <2>0, <2>1
        DEF Disarm, Goto, Disarmed, DisarmedPc, NoLostWakeup, Releasing,
            WaiterAt, References, Positions, WaitersSeen, OwnersAgree,
            OwnedAreAlive, DestroyersAreLast, Destroying, PurposeKnown,
            AtWork, ArmingComesFirst, DisarmPcs, cbVars, serviceVars, runVars,
            watchVars, TypeOK, Actors, ClaimPcs
    <3> QED BY <3>1, <3>2 DEF NoLostWakeup
  <2>2. CASE ~timer[object[a]]
    BY <1>34, <2>0, <2>2, DisarmEnds, NoLostWakeupEnded DEF Positions
  <2> QED BY <2>1, <2>2
<1>35. ASSUME NEW a \in Actors, NotifyService(a) PROVE NoLostWakeup'
  <2>0. object[a] \in States
    BY <1>35, DisarmObject DEF NotifyService, DisarmPcs
  <2> QED BY <1>35, <2>0, NotifyEnds, NoLostWakeupEnded DEF Positions
<1>36. ASSUME NEW a \in Actors, ClaimReason(a) PROVE NoLostWakeup'
  <2>1. CASE reason[object[a]] = "none"
    <3> SUFFICES ASSUME NEW s \in States, WaiterAt("blocked", s)' PROVE \E b \in Actors : Releasing(b, s)'
      BY DEF NoLostWakeup
    <3>1. WaiterAt("blocked", s) \/ \E b \in Actors : Releasing(b, s)'
      BY ActorAssumption, <1>36, <2>1
        DEF ClaimReason, Goto, AfterClaim, NoLostWakeup, Releasing, WaiterAt,
            References, Positions, WaitersSeen, OwnersAgree, OwnedAreAlive,
            DestroyersAreLast, Destroying, PurposeKnown, AtWork,
            ArmingComesFirst, DisarmPcs, lifeVars, cbVars, serviceVars,
            runVars, watchVars, TypeOK, Actors, ClaimPcs
    <3>2. \A b \in Actors : Releasing(b, s) => Releasing(b, s)'
      BY ActorAssumption, <1>36, <2>1
        DEF ClaimReason, Goto, AfterClaim, NoLostWakeup, Releasing, WaiterAt,
            References, Positions, WaitersSeen, OwnersAgree, OwnedAreAlive,
            DestroyersAreLast, Destroying, PurposeKnown, AtWork,
            ArmingComesFirst, DisarmPcs, lifeVars, cbVars, serviceVars,
            runVars, watchVars, TypeOK, Actors, ClaimPcs
    <3> QED BY <3>1, <3>2 DEF NoLostWakeup
  <2>2. CASE reason[object[a]] # "none"
    <3> SUFFICES ASSUME NEW s \in States, WaiterAt("blocked", s)' PROVE \E b \in Actors : Releasing(b, s)'
      BY DEF NoLostWakeup
    <3>1. WaiterAt("blocked", s) \/ \E b \in Actors : Releasing(b, s)'
      BY ActorAssumption, <1>36, <2>2
        DEF ClaimReason, Goto, AfterClaim, NoLostWakeup, Releasing, WaiterAt,
            References, Positions, WaitersSeen, OwnersAgree, OwnedAreAlive,
            DestroyersAreLast, Destroying, PurposeKnown, AtWork,
            ArmingComesFirst, DisarmPcs, lifeVars, cbVars, serviceVars,
            runVars, watchVars, TypeOK, Actors, ClaimPcs
    <3>2. \A b \in Actors : Releasing(b, s) => Releasing(b, s)'
      BY ActorAssumption, <1>36, <2>2
        DEF ClaimReason, Goto, AfterClaim, NoLostWakeup, Releasing, WaiterAt,
            References, Positions, WaitersSeen, OwnersAgree, OwnedAreAlive,
            DestroyersAreLast, Destroying, PurposeKnown, AtWork,
            ArmingComesFirst, DisarmPcs, lifeVars, cbVars, serviceVars,
            runVars, watchVars, TypeOK, Actors, ClaimPcs
    <3> QED BY <3>1, <3>2 DEF NoLostWakeup
  <2> QED BY <2>1, <2>2
<1>37. ASSUME NEW a \in Actors, UnregisterEntry(a) PROVE NoLostWakeup'
  <2>0. object[a] \in States
    BY <1>37, DisarmObject DEF UnregisterEntry, DisarmPcs
  <2>1. CASE object[a] \in schedule
    <3> SUFFICES ASSUME NEW s \in States, WaiterAt("blocked", s)' PROVE \E b \in Actors : Releasing(b, s)'
      BY DEF NoLostWakeup
    <3>1. WaiterAt("blocked", s) \/ \E b \in Actors : Releasing(b, s)'
      BY ActorAssumption, <1>37, <2>0, <2>1
        DEF UnregisterEntry, Goto, NoLostWakeup, Releasing, WaiterAt,
            References, Positions, WaitersSeen, OwnersAgree, OwnedAreAlive,
            DestroyersAreLast, Destroying, PurposeKnown, AtWork,
            ArmingComesFirst, DisarmPcs, cbVars, runVars, TypeOK, Actors,
            ClaimPcs
    <3>2. \A b \in Actors : Releasing(b, s) => Releasing(b, s)'
      BY ActorAssumption, <1>37, <2>0, <2>1
        DEF UnregisterEntry, Goto, NoLostWakeup, Releasing, WaiterAt,
            References, Positions, WaitersSeen, OwnersAgree, OwnedAreAlive,
            DestroyersAreLast, Destroying, PurposeKnown, AtWork,
            ArmingComesFirst, DisarmPcs, cbVars, runVars, TypeOK, Actors,
            ClaimPcs
    <3> QED BY <3>1, <3>2 DEF NoLostWakeup
  <2>2. CASE object[a] \notin schedule
    BY <1>37, <2>0, <2>2, UnregisterEnds, NoLostWakeupEnded DEF Positions
  <2> QED BY <2>1, <2>2
<1>38. ASSUME Fire PROVE NoLostWakeup'
  <2>1. CASE owners[Head(due)] = {}
    <3> SUFFICES ASSUME NEW s \in States, WaiterAt("blocked", s)' PROVE \E b \in Actors : Releasing(b, s)'
      BY DEF NoLostWakeup
    <3>1. WaiterAt("blocked", s) \/ \E b \in Actors : Releasing(b, s)'
      BY ActorAssumption, <1>38, <2>1
        DEF Fire, Goto, NoLostWakeup, Releasing, WaiterAt, References,
            Positions, WaitersSeen, OwnersAgree, OwnedAreAlive,
            DestroyersAreLast, Destroying, PurposeKnown, AtWork,
            ArmingComesFirst, DisarmPcs, cbVars, serviceVars, TypeOK, Actors,
            ClaimPcs
    <3>2. \A b \in Actors : Releasing(b, s) => Releasing(b, s)'
      BY ActorAssumption, <1>38, <2>1
        DEF Fire, Goto, NoLostWakeup, Releasing, WaiterAt, References,
            Positions, WaitersSeen, OwnersAgree, OwnedAreAlive,
            DestroyersAreLast, Destroying, PurposeKnown, AtWork,
            ArmingComesFirst, DisarmPcs, cbVars, serviceVars, TypeOK, Actors,
            ClaimPcs
    <3> QED BY <3>1, <3>2 DEF NoLostWakeup
  <2>2. CASE owners[Head(due)] # {}
    <3>1. Fired(Head(due))
      BY <1>38, <2>2, FireFires DEF Positions
    <3> QED BY <3>1, NoLostWakeupFired DEF Fired
  <2> QED BY <2>1, <2>2
<1>39. ASSUME DropFired PROVE NoLostWakeup'
  <2>1. Watchdog \in Actors
    BY DEF Actors
  <2> QED BY <1>39, <2>1, DropFiredReleases, NoLostWakeupReleased DEF References,
      Positions
<1>40. ASSUME Woken PROVE NoLostWakeup'
  <2>1. CASE changed \/ now >= until
    <3> SUFFICES ASSUME NEW s \in States, WaiterAt("blocked", s)' PROVE \E b \in Actors : Releasing(b, s)'
      BY DEF NoLostWakeup
    <3>1. WaiterAt("blocked", s) \/ \E b \in Actors : Releasing(b, s)'
      BY ActorAssumption, <1>40, <2>1
        DEF Woken, Goto, NoLostWakeup, Releasing, WaiterAt, References,
            Positions, WaitersSeen, OwnersAgree, OwnedAreAlive,
            DestroyersAreLast, Destroying, PurposeKnown, AtWork,
            ArmingComesFirst, DisarmPcs, tokenVars, lifeVars, cbVars,
            serviceVars, callVars, TypeOK, Actors, ClaimPcs
    <3>2. \A b \in Actors : Releasing(b, s) => Releasing(b, s)'
      BY ActorAssumption, <1>40, <2>1
        DEF Woken, Goto, NoLostWakeup, Releasing, WaiterAt, References,
            Positions, WaitersSeen, OwnersAgree, OwnedAreAlive,
            DestroyersAreLast, Destroying, PurposeKnown, AtWork,
            ArmingComesFirst, DisarmPcs, tokenVars, lifeVars, cbVars,
            serviceVars, callVars, TypeOK, Actors, ClaimPcs
    <3> QED BY <3>1, <3>2 DEF NoLostWakeup
  <2>2. CASE ~(changed \/ now >= until)
    <3> SUFFICES ASSUME NEW s \in States, WaiterAt("blocked", s)' PROVE \E b \in Actors : Releasing(b, s)'
      BY DEF NoLostWakeup
    <3>1. WaiterAt("blocked", s) \/ \E b \in Actors : Releasing(b, s)'
      BY ActorAssumption, <1>40, <2>2
        DEF Woken, Goto, NoLostWakeup, Releasing, WaiterAt, References,
            Positions, WaitersSeen, OwnersAgree, OwnedAreAlive,
            DestroyersAreLast, Destroying, PurposeKnown, AtWork,
            ArmingComesFirst, DisarmPcs, tokenVars, lifeVars, cbVars,
            serviceVars, callVars, TypeOK, Actors, ClaimPcs
    <3>2. \A b \in Actors : Releasing(b, s) => Releasing(b, s)'
      BY ActorAssumption, <1>40, <2>2
        DEF Woken, Goto, NoLostWakeup, Releasing, WaiterAt, References,
            Positions, WaitersSeen, OwnersAgree, OwnedAreAlive,
            DestroyersAreLast, Destroying, PurposeKnown, AtWork,
            ArmingComesFirst, DisarmPcs, tokenVars, lifeVars, cbVars,
            serviceVars, callVars, TypeOK, Actors, ClaimPcs
    <3> QED BY <3>1, <3>2 DEF NoLostWakeup
  <2> QED BY <2>1, <2>2
<1> QED
  BY <1>1, <1>2, <1>3, <1>4, <1>5, <1>6, <1>7, <1>8, <1>9, <1>10,
      <1>11, <1>12, <1>13, <1>14, <1>15, <1>16, <1>17, <1>18, <1>19, <1>20,
      <1>21, <1>22, <1>23, <1>24, <1>25, <1>26, <1>27, <1>28, <1>29, <1>30,
      <1>31, <1>32, <1>33, <1>34, <1>35, <1>36, <1>37, <1>38, <1>39, <1>40
  DEF Next, Optional, ThreadSteps, ThreadLocks, ClaimSteps, ClaimLocks,
      WatchdogSteps, WatchdogLocks, Actors

-----------------------------------------------------------------------------
(* An entry whose handle is not stored has an actor that stores the handle *)
(* or removes the entry. Kept over the end of a disarm.                    *)
LEMMA HandlesFollowEnded ==
    ASSUME TypeOK, References, Positions, EntriesFollowed, NEW a \in Actors,
      Ended(a), object[a] \in States
    PROVE  HandlesFollow'
<1> SUFFICES ASSUME NEW s \in States, NoHandle(s)' PROVE \E b \in Actors : SettlesHandle(b, s)'
  BY DEF HandlesFollow
<1>1. NoHandle(s) \/ \E b \in Actors : SettlesHandle(b, s)'
  BY ActorAssumption
    DEF Ended, HandlesFollow, SettlesHandle, Working, NoHandle, References,
        Positions, EntriesFollowed, OwnersAgree, OwnedAreAlive,
        DestroyersAreLast, Destroying, PurposeKnown, AtWork, ArmingComesFirst,
        DisarmPcs, EntriesTimed, TypeOK, Actors, ClaimPcs
<1>2. \A b \in Actors : SettlesHandle(b, s) => SettlesHandle(b, s)'
  BY ActorAssumption
    DEF Ended, HandlesFollow, SettlesHandle, Working, NoHandle, References,
        Positions, EntriesFollowed, OwnersAgree, OwnedAreAlive,
        DestroyersAreLast, Destroying, PurposeKnown, AtWork, ArmingComesFirst,
        DisarmPcs, EntriesTimed, TypeOK, Actors, ClaimPcs
<1> QED BY <1>1, <1>2 DEF HandlesFollow, EntriesFollowed

(* The same (HandlesFollow), kept over the release of a reference.         *)
LEMMA HandlesFollowReleased ==
    ASSUME TypeOK, References, Positions, EntriesFollowed, NEW a \in Actors,
      Released(a)
    PROVE  HandlesFollow'
<1> SUFFICES ASSUME NEW s \in States, NoHandle(s)' PROVE \E b \in Actors : SettlesHandle(b, s)'
  BY DEF HandlesFollow
<1>1. NoHandle(s) \/ \E b \in Actors : SettlesHandle(b, s)'
  BY ActorAssumption
    DEF Released, HandlesFollow, SettlesHandle, Working, NoHandle, References,
        Positions, EntriesFollowed, OwnersAgree, OwnedAreAlive,
        DestroyersAreLast, Destroying, PurposeKnown, AtWork, ArmingComesFirst,
        DisarmPcs, EntriesTimed, TypeOK, Actors, ClaimPcs
<1>2. \A b \in Actors : SettlesHandle(b, s) => SettlesHandle(b, s)'
  BY ActorAssumption
    DEF Released, HandlesFollow, SettlesHandle, Working, NoHandle, References,
        Positions, EntriesFollowed, OwnersAgree, OwnedAreAlive,
        DestroyersAreLast, Destroying, PurposeKnown, AtWork, ArmingComesFirst,
        DisarmPcs, EntriesTimed, TypeOK, Actors, ClaimPcs
<1> QED BY <1>1, <1>2 DEF HandlesFollow, EntriesFollowed

(* The same (HandlesFollow), kept over the firing of an entry.             *)
LEMMA HandlesFollowFired ==
    ASSUME TypeOK, References, Positions, EntriesFollowed, NEW z \in States,
      Fired(z)
    PROVE  HandlesFollow'
<1> SUFFICES ASSUME NEW s \in States, NoHandle(s)' PROVE \E b \in Actors : SettlesHandle(b, s)'
  BY DEF HandlesFollow
<1>1. NoHandle(s) \/ \E b \in Actors : SettlesHandle(b, s)'
  BY ActorAssumption
    DEF Fired, HandlesFollow, SettlesHandle, Working, NoHandle, References,
        Positions, EntriesFollowed, OwnersAgree, OwnedAreAlive,
        DestroyersAreLast, Destroying, PurposeKnown, AtWork, ArmingComesFirst,
        DisarmPcs, EntriesTimed, TypeOK, Actors, ClaimPcs
<1>2. \A b \in Actors : SettlesHandle(b, s) => SettlesHandle(b, s)'
  BY ActorAssumption
    DEF Fired, HandlesFollow, SettlesHandle, Working, NoHandle, References,
        Positions, EntriesFollowed, OwnersAgree, OwnedAreAlive,
        DestroyersAreLast, Destroying, PurposeKnown, AtWork, ArmingComesFirst,
        DisarmPcs, EntriesTimed, TypeOK, Actors, ClaimPcs
<1> QED BY <1>1, <1>2 DEF HandlesFollow, EntriesFollowed

(* The same (HandlesFollow), kept over every step.                         *)
LEMMA HandlesFollowStep ==
    ASSUME TypeOK, References, Positions,
      EntriesFollowed, Next
    PROVE  HandlesFollow'
<1> USE ActorAssumption DEF At, Goto, HandlesFollow, SettlesHandle, Working,
    NoHandle, References, Positions, EntriesFollowed, OwnersAgree,
    OwnedAreAlive, DestroyersAreLast, Destroying, PurposeKnown, AtWork,
    ArmingComesFirst, DisarmPcs, EntriesTimed, dataVars, tokenVars, lifeVars,
    cbVars, serviceVars, runVars, callVars, watchVars, vars, TypeOK, Actors,
    ClaimPcs
<1>1. ASSUME NEW t \in Threads, NEW s \in States, NEW d \in Deadlines, Create(t, s, d)
      PROVE HandlesFollow'
  <2> SUFFICES ASSUME NEW z \in States, NoHandle(z)'
               PROVE  \E b \in Actors : SettlesHandle(b, z)'
    OBVIOUS
  <2>1. NoHandle(z) \/ \E b \in Actors : SettlesHandle(b, z)'
    BY <1>1 DEF Create
  <2>2. \A b \in Actors : SettlesHandle(b, z) => SettlesHandle(b, z)'
    BY <1>1 DEF Create
  <2> QED BY <2>1, <2>2
<1>2. ASSUME NEW t \in Threads, ArmRegister(t) PROVE HandlesFollow'
  <2> SUFFICES ASSUME NEW z \in States, NoHandle(z)'
               PROVE  \E b \in Actors : SettlesHandle(b, z)'
    OBVIOUS
  <2>1. NoHandle(z) \/ \E b \in Actors : SettlesHandle(b, z)'
    BY <1>2 DEF ArmRegister
  <2>2. \A b \in Actors : SettlesHandle(b, z) => SettlesHandle(b, z)'
    BY <1>2 DEF ArmRegister
  <2> QED BY <2>1, <2>2
<1>3. ASSUME NEW t \in Threads, ArmFails(t) PROVE HandlesFollow'
  <2> SUFFICES ASSUME NEW z \in States, NoHandle(z)'
               PROVE  \E b \in Actors : SettlesHandle(b, z)'
    OBVIOUS
  <2>1. NoHandle(z) \/ \E b \in Actors : SettlesHandle(b, z)'
    BY <1>3 DEF ArmFails
  <2>2. \A b \in Actors : SettlesHandle(b, z) => SettlesHandle(b, z)'
    BY <1>3 DEF ArmFails
  <2> QED BY <2>1, <2>2
<1>4. ASSUME NEW t \in Threads, ArmStore(t) PROVE HandlesFollow'
  <2> SUFFICES ASSUME NEW z \in States, NoHandle(z)'
               PROVE  \E b \in Actors : SettlesHandle(b, z)'
    OBVIOUS
  <2>1. NoHandle(z) \/ \E b \in Actors : SettlesHandle(b, z)'
    BY <1>4 DEF ArmStore
  <2>2. \A b \in Actors : SettlesHandle(b, z) => SettlesHandle(b, z)'
    BY <1>4 DEF ArmStore
  <2> QED BY <2>1, <2>2
<1>5. ASSUME NEW t \in Threads, NEW s \in States, Share(t, s)
      PROVE HandlesFollow'
  <2> SUFFICES ASSUME NEW z \in States, NoHandle(z)'
               PROVE  \E b \in Actors : SettlesHandle(b, z)'
    OBVIOUS
  <2>1. NoHandle(z) \/ \E b \in Actors : SettlesHandle(b, z)'
    BY <1>5 DEF Share
  <2>2. \A b \in Actors : SettlesHandle(b, z) => SettlesHandle(b, z)'
    BY <1>5 DEF Share
  <2> QED BY <2>1, <2>2
<1>6. ASSUME NEW t \in Threads, Cancel(t) PROVE HandlesFollow'
  <2> SUFFICES ASSUME NEW z \in States, NoHandle(z)'
               PROVE  \E b \in Actors : SettlesHandle(b, z)'
    OBVIOUS
  <2>1. NoHandle(z) \/ \E b \in Actors : SettlesHandle(b, z)'
    BY <1>6 DEF Cancel, StartClaim
  <2>2. \A b \in Actors : SettlesHandle(b, z) => SettlesHandle(b, z)'
    BY <1>6 DEF Cancel, StartClaim
  <2> QED BY <2>1, <2>2
<1>7. ASSUME NEW t \in Threads, Poll(t) PROVE HandlesFollow'
  <2> SUFFICES ASSUME NEW z \in States, NoHandle(z)'
               PROVE  \E b \in Actors : SettlesHandle(b, z)'
    OBVIOUS
  <2>1. NoHandle(z) \/ \E b \in Actors : SettlesHandle(b, z)'
    BY <1>7 DEF Poll, StartClaim
  <2>2. \A b \in Actors : SettlesHandle(b, z) => SettlesHandle(b, z)'
    BY <1>7 DEF Poll, StartClaim
  <2> QED BY <2>1, <2>2
<1>8. ASSUME NEW t \in Threads, Wait(t) PROVE HandlesFollow'
  <2> SUFFICES ASSUME NEW z \in States, NoHandle(z)'
               PROVE  \E b \in Actors : SettlesHandle(b, z)'
    OBVIOUS
  <2>1. NoHandle(z) \/ \E b \in Actors : SettlesHandle(b, z)'
    BY <1>8 DEF Wait
  <2>2. \A b \in Actors : SettlesHandle(b, z) => SettlesHandle(b, z)'
    BY <1>8 DEF Wait
  <2> QED BY <2>1, <2>2
<1>9. ASSUME NEW t \in Threads, StartRegister(t) PROVE HandlesFollow'
  <2> SUFFICES ASSUME NEW z \in States, NoHandle(z)'
               PROVE  \E b \in Actors : SettlesHandle(b, z)'
    OBVIOUS
  <2>1. NoHandle(z) \/ \E b \in Actors : SettlesHandle(b, z)'
    BY <1>9 DEF StartRegister
  <2>2. \A b \in Actors : SettlesHandle(b, z) => SettlesHandle(b, z)'
    BY <1>9 DEF StartRegister
  <2> QED BY <2>1, <2>2
<1>10. ASSUME NEW t \in Threads, DestroyRegistration(t) PROVE HandlesFollow'
  <2> SUFFICES ASSUME NEW z \in States, NoHandle(z)'
               PROVE  \E b \in Actors : SettlesHandle(b, z)'
    OBVIOUS
  <2>1. NoHandle(z) \/ \E b \in Actors : SettlesHandle(b, z)'
    BY <1>10 DEF DestroyRegistration
  <2>2. \A b \in Actors : SettlesHandle(b, z) => SettlesHandle(b, z)'
    BY <1>10 DEF DestroyRegistration
  <2> QED BY <2>1, <2>2
<1>11. ASSUME NEW t \in Threads, DestroyInline(t) PROVE HandlesFollow'
  <2> SUFFICES ASSUME NEW z \in States, NoHandle(z)'
               PROVE  \E b \in Actors : SettlesHandle(b, z)'
    OBVIOUS
  <2>1. NoHandle(z) \/ \E b \in Actors : SettlesHandle(b, z)'
    BY <1>11 DEF DestroyInline
  <2>2. \A b \in Actors : SettlesHandle(b, z) => SettlesHandle(b, z)'
    BY <1>11 DEF DestroyInline
  <2> QED BY <2>1, <2>2
<1>12. ASSUME NEW t \in Threads, WaitTest(t) PROVE HandlesFollow'
  <2> SUFFICES ASSUME NEW z \in States, NoHandle(z)'
               PROVE  \E b \in Actors : SettlesHandle(b, z)'
    OBVIOUS
  <2>1. NoHandle(z) \/ \E b \in Actors : SettlesHandle(b, z)'
    BY <1>12 DEF WaitTest
  <2>2. \A b \in Actors : SettlesHandle(b, z) => SettlesHandle(b, z)'
    BY <1>12 DEF WaitTest
  <2> QED BY <2>1, <2>2
<1>13. ASSUME NEW t \in Threads, WaitLock(t) PROVE HandlesFollow'
  <2> SUFFICES ASSUME NEW z \in States, NoHandle(z)'
               PROVE  \E b \in Actors : SettlesHandle(b, z)'
    OBVIOUS
  <2>1. NoHandle(z) \/ \E b \in Actors : SettlesHandle(b, z)'
    BY <1>13 DEF WaitLock
  <2>2. \A b \in Actors : SettlesHandle(b, z) => SettlesHandle(b, z)'
    BY <1>13 DEF WaitLock
  <2> QED BY <2>1, <2>2
<1>14. ASSUME NEW t \in Threads, RegisterStored(t) PROVE HandlesFollow'
  <2> SUFFICES ASSUME NEW z \in States, NoHandle(z)'
               PROVE  \E b \in Actors : SettlesHandle(b, z)'
    OBVIOUS
  <2>1. NoHandle(z) \/ \E b \in Actors : SettlesHandle(b, z)'
    BY <1>14 DEF RegisterStored
  <2>2. \A b \in Actors : SettlesHandle(b, z) => SettlesHandle(b, z)'
    BY <1>14 DEF RegisterStored
  <2> QED BY <2>1, <2>2
<1>15. ASSUME NEW t \in Threads, RegisterInline(t) PROVE HandlesFollow'
  <2> SUFFICES ASSUME NEW z \in States, NoHandle(z)'
               PROVE  \E b \in Actors : SettlesHandle(b, z)'
    OBVIOUS
  <2>1. NoHandle(z) \/ \E b \in Actors : SettlesHandle(b, z)'
    BY <1>15 DEF RegisterInline
  <2>2. \A b \in Actors : SettlesHandle(b, z) => SettlesHandle(b, z)'
    BY <1>15 DEF RegisterInline
  <2> QED BY <2>1, <2>2
<1>16. ASSUME NEW t \in Threads, Unregister(t) PROVE HandlesFollow'
  <2> SUFFICES ASSUME NEW z \in States, NoHandle(z)'
               PROVE  \E b \in Actors : SettlesHandle(b, z)'
    OBVIOUS
  <2>1. NoHandle(z) \/ \E b \in Actors : SettlesHandle(b, z)'
    BY <1>16 DEF Unregister
  <2>2. \A b \in Actors : SettlesHandle(b, z) => SettlesHandle(b, z)'
    BY <1>16 DEF Unregister
  <2> QED BY <2>1, <2>2
<1>17. ASSUME NEW a \in Actors, NotifyWaiters(a) PROVE HandlesFollow'
  <2> SUFFICES ASSUME NEW z \in States, NoHandle(z)'
               PROVE  \E b \in Actors : SettlesHandle(b, z)'
    OBVIOUS
  <2>1. NoHandle(z) \/ \E b \in Actors : SettlesHandle(b, z)'
    BY <1>17 DEF NotifyWaiters
  <2>2. \A b \in Actors : SettlesHandle(b, z) => SettlesHandle(b, z)'
    BY <1>17 DEF NotifyWaiters
  <2> QED BY <2>1, <2>2
<1>18. ASSUME NEW a \in Actors, CallBack(a) PROVE HandlesFollow'
  <2> SUFFICES ASSUME NEW z \in States, NoHandle(z)'
               PROVE  \E b \in Actors : SettlesHandle(b, z)'
    OBVIOUS
  <2>1. NoHandle(z) \/ \E b \in Actors : SettlesHandle(b, z)'
    BY <1>18 DEF CallBack
  <2>2. \A b \in Actors : SettlesHandle(b, z) => SettlesHandle(b, z)'
    BY <1>18 DEF CallBack
  <2> QED BY <2>1, <2>2
<1>19. ASSUME NEW a \in Actors, CallbackReturns(a) PROVE HandlesFollow'
  <2> SUFFICES ASSUME NEW z \in States, NoHandle(z)'
               PROVE  \E b \in Actors : SettlesHandle(b, z)'
    OBVIOUS
  <2>1. NoHandle(z) \/ \E b \in Actors : SettlesHandle(b, z)'
    BY <1>19 DEF CallbackReturns
  <2>2. \A b \in Actors : SettlesHandle(b, z) => SettlesHandle(b, z)'
    BY <1>19 DEF CallbackReturns
  <2> QED BY <2>1, <2>2
<1>20. ASSUME NEW a \in Actors, ClaimReturns(a) PROVE HandlesFollow'
  <2> SUFFICES ASSUME NEW z \in States, NoHandle(z)'
               PROVE  \E b \in Actors : SettlesHandle(b, z)'
    OBVIOUS
  <2>1. NoHandle(z) \/ \E b \in Actors : SettlesHandle(b, z)'
    BY <1>20 DEF ClaimReturns, AfterClaim
  <2>2. \A b \in Actors : SettlesHandle(b, z) => SettlesHandle(b, z)'
    BY <1>20 DEF ClaimReturns, AfterClaim
  <2> QED BY <2>1, <2>2
<1>21. ASSUME NEW a \in Actors, ReleaseWaiters(a) PROVE HandlesFollow'
  <2> SUFFICES ASSUME NEW z \in States, NoHandle(z)'
               PROVE  \E b \in Actors : SettlesHandle(b, z)'
    OBVIOUS
  <2>1. NoHandle(z) \/ \E b \in Actors : SettlesHandle(b, z)'
    BY <1>21 DEF ReleaseWaiters
  <2>2. \A b \in Actors : SettlesHandle(b, z) => SettlesHandle(b, z)'
    BY <1>21 DEF ReleaseWaiters
  <2> QED BY <2>1, <2>2
<1>22. ASSUME NEW a \in Actors, LockCallbacks(a) PROVE HandlesFollow'
  <2> SUFFICES ASSUME NEW z \in States, NoHandle(z)'
               PROVE  \E b \in Actors : SettlesHandle(b, z)'
    OBVIOUS
  <2>1. NoHandle(z) \/ \E b \in Actors : SettlesHandle(b, z)'
    BY <1>22 DEF LockCallbacks
  <2>2. \A b \in Actors : SettlesHandle(b, z) => SettlesHandle(b, z)'
    BY <1>22 DEF LockCallbacks
  <2> QED BY <2>1, <2>2
<1>23. ASSUME Collect PROVE HandlesFollow'
  <2> SUFFICES ASSUME NEW z \in States, NoHandle(z)'
               PROVE  \E b \in Actors : SettlesHandle(b, z)'
    OBVIOUS
  <2>1. NoHandle(z) \/ \E b \in Actors : SettlesHandle(b, z)'
    BY <1>23 DEF Collect, Collected
  <2>2. \A b \in Actors : SettlesHandle(b, z) => SettlesHandle(b, z)'
    BY <1>23 DEF Collect, Collected
  <2> QED BY <2>1, <2>2
<1>24. ASSUME CollectedAll PROVE HandlesFollow'
  <2> SUFFICES ASSUME NEW z \in States, NoHandle(z)'
               PROVE  \E b \in Actors : SettlesHandle(b, z)'
    OBVIOUS
  <2>1. NoHandle(z) \/ \E b \in Actors : SettlesHandle(b, z)'
    BY <1>24 DEF CollectedAll
  <2>2. \A b \in Actors : SettlesHandle(b, z) => SettlesHandle(b, z)'
    BY <1>24 DEF CollectedAll
  <2> QED BY <2>1, <2>2
<1>25. ASSUME Sleep PROVE HandlesFollow'
  <2> SUFFICES ASSUME NEW z \in States, NoHandle(z)'
               PROVE  \E b \in Actors : SettlesHandle(b, z)'
    OBVIOUS
  <2>1. NoHandle(z) \/ \E b \in Actors : SettlesHandle(b, z)'
    BY <1>25 DEF Sleep
  <2>2. \A b \in Actors : SettlesHandle(b, z) => SettlesHandle(b, z)'
    BY <1>25 DEF Sleep
  <2> QED BY <2>1, <2>2
<1>26. ASSUME TimeOut PROVE HandlesFollow'
  <2> SUFFICES ASSUME NEW z \in States, NoHandle(z)'
               PROVE  \E b \in Actors : SettlesHandle(b, z)'
    OBVIOUS
  <2>1. NoHandle(z) \/ \E b \in Actors : SettlesHandle(b, z)'
    BY <1>26 DEF TimeOut
  <2>2. \A b \in Actors : SettlesHandle(b, z) => SettlesHandle(b, z)'
    BY <1>26 DEF TimeOut
  <2> QED BY <2>1, <2>2
<1>27. ASSUME FiredAll PROVE HandlesFollow'
  <2> SUFFICES ASSUME NEW z \in States, NoHandle(z)'
               PROVE  \E b \in Actors : SettlesHandle(b, z)'
    OBVIOUS
  <2>1. NoHandle(z) \/ \E b \in Actors : SettlesHandle(b, z)'
    BY <1>27 DEF FiredAll
  <2>2. \A b \in Actors : SettlesHandle(b, z) => SettlesHandle(b, z)'
    BY <1>27 DEF FiredAll
  <2> QED BY <2>1, <2>2
<1>28. ASSUME Scan PROVE HandlesFollow'
  <2> SUFFICES ASSUME NEW z \in States, NoHandle(z)'
               PROVE  \E b \in Actors : SettlesHandle(b, z)'
    OBVIOUS
  <2>1. NoHandle(z) \/ \E b \in Actors : SettlesHandle(b, z)'
    BY <1>28 DEF Scan
  <2>2. \A b \in Actors : SettlesHandle(b, z) => SettlesHandle(b, z)'
    BY <1>28 DEF Scan
  <2> QED BY <2>1, <2>2
<1>29. ASSUME Tick PROVE HandlesFollow'
  <2> SUFFICES ASSUME NEW z \in States, NoHandle(z)'
               PROVE  \E b \in Actors : SettlesHandle(b, z)'
    OBVIOUS
  <2>1. NoHandle(z) \/ \E b \in Actors : SettlesHandle(b, z)'
    BY <1>29 DEF Tick
  <2>2. \A b \in Actors : SettlesHandle(b, z) => SettlesHandle(b, z)'
    BY <1>29 DEF Tick
  <2> QED BY <2>1, <2>2
<1> HIDE ActorAssumption DEF At, Goto, HandlesFollow, SettlesHandle, Working,
    NoHandle, References, Positions, EntriesFollowed, OwnersAgree,
    OwnedAreAlive, DestroyersAreLast, Destroying, PurposeKnown, AtWork,
    ArmingComesFirst, DisarmPcs, EntriesTimed, dataVars, tokenVars, lifeVars,
    cbVars, serviceVars, runVars, callVars, watchVars, vars, TypeOK, Actors,
    ClaimPcs
<1>30. ASSUME NEW t \in Threads, ArmNotify(t) PROVE HandlesFollow'
  <2>1. CASE pc[Watchdog] = "asleep"
    <3> SUFFICES ASSUME NEW s \in States, NoHandle(s)' PROVE \E b \in Actors : SettlesHandle(b, s)'
      BY DEF HandlesFollow
    <3>1. NoHandle(s) \/ \E b \in Actors : SettlesHandle(b, s)'
      BY ActorAssumption, <1>30, <2>1
        DEF ArmNotify, WakeWatchdog, HandlesFollow, SettlesHandle, Working,
            NoHandle, References, Positions, EntriesFollowed, OwnersAgree,
            OwnedAreAlive, DestroyersAreLast, Destroying, PurposeKnown,
            AtWork, ArmingComesFirst, DisarmPcs, EntriesTimed, dataVars,
            tokenVars, lifeVars, cbVars, serviceVars, runVars, callVars,
            watchVars, TypeOK, Actors, ClaimPcs
    <3>2. \A b \in Actors : SettlesHandle(b, s) => SettlesHandle(b, s)'
      BY ActorAssumption, <1>30, <2>1
        DEF ArmNotify, WakeWatchdog, HandlesFollow, SettlesHandle, Working,
            NoHandle, References, Positions, EntriesFollowed, OwnersAgree,
            OwnedAreAlive, DestroyersAreLast, Destroying, PurposeKnown,
            AtWork, ArmingComesFirst, DisarmPcs, EntriesTimed, dataVars,
            tokenVars, lifeVars, cbVars, serviceVars, runVars, callVars,
            watchVars, TypeOK, Actors, ClaimPcs
    <3> QED BY <3>1, <3>2 DEF HandlesFollow, EntriesFollowed
  <2>2. CASE pc[Watchdog] # "asleep"
    <3> SUFFICES ASSUME NEW s \in States, NoHandle(s)' PROVE \E b \in Actors : SettlesHandle(b, s)'
      BY DEF HandlesFollow
    <3>1. NoHandle(s) \/ \E b \in Actors : SettlesHandle(b, s)'
      BY ActorAssumption, <1>30, <2>2
        DEF ArmNotify, WakeWatchdog, HandlesFollow, SettlesHandle, Working,
            NoHandle, References, Positions, EntriesFollowed, OwnersAgree,
            OwnedAreAlive, DestroyersAreLast, Destroying, PurposeKnown,
            AtWork, ArmingComesFirst, DisarmPcs, EntriesTimed, dataVars,
            tokenVars, lifeVars, cbVars, serviceVars, runVars, callVars,
            watchVars, TypeOK, Actors, ClaimPcs
    <3>2. \A b \in Actors : SettlesHandle(b, s) => SettlesHandle(b, s)'
      BY ActorAssumption, <1>30, <2>2
        DEF ArmNotify, WakeWatchdog, HandlesFollow, SettlesHandle, Working,
            NoHandle, References, Positions, EntriesFollowed, OwnersAgree,
            OwnedAreAlive, DestroyersAreLast, Destroying, PurposeKnown,
            AtWork, ArmingComesFirst, DisarmPcs, EntriesTimed, dataVars,
            tokenVars, lifeVars, cbVars, serviceVars, runVars, callVars,
            watchVars, TypeOK, Actors, ClaimPcs
    <3> QED BY <3>1, <3>2 DEF HandlesFollow, EntriesFollowed
  <2> QED BY <2>1, <2>2
<1>31. ASSUME NEW t \in Threads, ArmRecheck(t) PROVE HandlesFollow'
  <2>1. CASE reason[object[t]] = "none"
    <3> SUFFICES ASSUME NEW s \in States, NoHandle(s)' PROVE \E b \in Actors : SettlesHandle(b, s)'
      BY DEF HandlesFollow
    <3>1. NoHandle(s) \/ \E b \in Actors : SettlesHandle(b, s)'
      BY ActorAssumption, <1>31, <2>1
        DEF ArmRecheck, Goto, HandlesFollow, SettlesHandle, Working, NoHandle,
            References, Positions, EntriesFollowed, OwnersAgree,
            OwnedAreAlive, DestroyersAreLast, Destroying, PurposeKnown,
            AtWork, ArmingComesFirst, DisarmPcs, EntriesTimed, tokenVars,
            lifeVars, cbVars, serviceVars, runVars, watchVars, TypeOK, Actors,
            ClaimPcs
    <3>2. \A b \in Actors : SettlesHandle(b, s) => SettlesHandle(b, s)'
      BY ActorAssumption, <1>31, <2>1
        DEF ArmRecheck, Goto, HandlesFollow, SettlesHandle, Working, NoHandle,
            References, Positions, EntriesFollowed, OwnersAgree,
            OwnedAreAlive, DestroyersAreLast, Destroying, PurposeKnown,
            AtWork, ArmingComesFirst, DisarmPcs, EntriesTimed, tokenVars,
            lifeVars, cbVars, serviceVars, runVars, watchVars, TypeOK, Actors,
            ClaimPcs
    <3> QED BY <3>1, <3>2 DEF HandlesFollow, EntriesFollowed
  <2>2. CASE reason[object[t]] # "none"
    <3> SUFFICES ASSUME NEW s \in States, NoHandle(s)' PROVE \E b \in Actors : SettlesHandle(b, s)'
      BY DEF HandlesFollow
    <3>1. NoHandle(s) \/ \E b \in Actors : SettlesHandle(b, s)'
      BY ActorAssumption, <1>31, <2>2
        DEF ArmRecheck, Goto, HandlesFollow, SettlesHandle, Working, NoHandle,
            References, Positions, EntriesFollowed, OwnersAgree,
            OwnedAreAlive, DestroyersAreLast, Destroying, PurposeKnown,
            AtWork, ArmingComesFirst, DisarmPcs, EntriesTimed, tokenVars,
            lifeVars, cbVars, serviceVars, runVars, watchVars, TypeOK, Actors,
            ClaimPcs
    <3>2. \A b \in Actors : SettlesHandle(b, s) => SettlesHandle(b, s)'
      BY ActorAssumption, <1>31, <2>2
        DEF ArmRecheck, Goto, HandlesFollow, SettlesHandle, Working, NoHandle,
            References, Positions, EntriesFollowed, OwnersAgree,
            OwnedAreAlive, DestroyersAreLast, Destroying, PurposeKnown,
            AtWork, ArmingComesFirst, DisarmPcs, EntriesTimed, tokenVars,
            lifeVars, cbVars, serviceVars, runVars, watchVars, TypeOK, Actors,
            ClaimPcs
    <3> QED BY <3>1, <3>2 DEF HandlesFollow, EntriesFollowed
  <2> QED BY <2>1, <2>2
<1>32. ASSUME NEW t \in Threads, Drop(t) PROVE HandlesFollow'
  <2>1. t \in Actors
    BY DEF Actors
  <2> QED BY <1>32, <2>1, DropReleases, HandlesFollowReleased DEF References,
      Positions
<1>33. ASSUME NEW t \in Threads, WaitUnlock(t) PROVE HandlesFollow'
  <2>1. CASE pc[t] = "block"
    <3> SUFFICES ASSUME NEW s \in States, NoHandle(s)' PROVE \E b \in Actors : SettlesHandle(b, s)'
      BY DEF HandlesFollow
    <3>1. NoHandle(s) \/ \E b \in Actors : SettlesHandle(b, s)'
      BY ActorAssumption, <1>33, <2>1
        DEF WaitUnlock, Goto, HandlesFollow, SettlesHandle, Working, NoHandle,
            References, Positions, EntriesFollowed, OwnersAgree,
            OwnedAreAlive, DestroyersAreLast, Destroying, PurposeKnown,
            AtWork, ArmingComesFirst, DisarmPcs, EntriesTimed, lifeVars,
            cbVars, serviceVars, runVars, callVars, watchVars, TypeOK, Actors,
            ClaimPcs
    <3>2. \A b \in Actors : SettlesHandle(b, s) => SettlesHandle(b, s)'
      BY ActorAssumption, <1>33, <2>1
        DEF WaitUnlock, Goto, HandlesFollow, SettlesHandle, Working, NoHandle,
            References, Positions, EntriesFollowed, OwnersAgree,
            OwnedAreAlive, DestroyersAreLast, Destroying, PurposeKnown,
            AtWork, ArmingComesFirst, DisarmPcs, EntriesTimed, lifeVars,
            cbVars, serviceVars, runVars, callVars, watchVars, TypeOK, Actors,
            ClaimPcs
    <3> QED BY <3>1, <3>2 DEF HandlesFollow, EntriesFollowed
  <2>2. CASE pc[t] # "block"
    <3> SUFFICES ASSUME NEW s \in States, NoHandle(s)' PROVE \E b \in Actors : SettlesHandle(b, s)'
      BY DEF HandlesFollow
    <3>1. NoHandle(s) \/ \E b \in Actors : SettlesHandle(b, s)'
      BY ActorAssumption, <1>33, <2>2
        DEF WaitUnlock, Goto, HandlesFollow, SettlesHandle, Working, NoHandle,
            References, Positions, EntriesFollowed, OwnersAgree,
            OwnedAreAlive, DestroyersAreLast, Destroying, PurposeKnown,
            AtWork, ArmingComesFirst, DisarmPcs, EntriesTimed, lifeVars,
            cbVars, serviceVars, runVars, callVars, watchVars, TypeOK, Actors,
            ClaimPcs
    <3>2. \A b \in Actors : SettlesHandle(b, s) => SettlesHandle(b, s)'
      BY ActorAssumption, <1>33, <2>2
        DEF WaitUnlock, Goto, HandlesFollow, SettlesHandle, Working, NoHandle,
            References, Positions, EntriesFollowed, OwnersAgree,
            OwnedAreAlive, DestroyersAreLast, Destroying, PurposeKnown,
            AtWork, ArmingComesFirst, DisarmPcs, EntriesTimed, lifeVars,
            cbVars, serviceVars, runVars, callVars, watchVars, TypeOK, Actors,
            ClaimPcs
    <3> QED BY <3>1, <3>2 DEF HandlesFollow, EntriesFollowed
  <2> QED BY <2>1, <2>2
<1>34. ASSUME NEW a \in Actors, Disarm(a) PROVE HandlesFollow'
  <2>0. object[a] \in States
    BY <1>34, DisarmObject DEF Disarm, DisarmPcs
  <2>1. CASE timer[object[a]]
    <3> SUFFICES ASSUME NEW s \in States, NoHandle(s)' PROVE \E b \in Actors : SettlesHandle(b, s)'
      BY DEF HandlesFollow
    <3>1. NoHandle(s) \/ \E b \in Actors : SettlesHandle(b, s)'
      BY ActorAssumption, <1>34, <2>0, <2>1
        DEF Disarm, Goto, Disarmed, DisarmedPc, HandlesFollow, SettlesHandle,
            Working, NoHandle, References, Positions, EntriesFollowed,
            OwnersAgree, OwnedAreAlive, DestroyersAreLast, Destroying,
            PurposeKnown, AtWork, ArmingComesFirst, DisarmPcs, EntriesTimed,
            cbVars, serviceVars, runVars, watchVars, TypeOK, Actors, ClaimPcs
    <3>2. \A b \in Actors : SettlesHandle(b, s) => SettlesHandle(b, s)'
      BY ActorAssumption, <1>34, <2>0, <2>1
        DEF Disarm, Goto, Disarmed, DisarmedPc, HandlesFollow, SettlesHandle,
            Working, NoHandle, References, Positions, EntriesFollowed,
            OwnersAgree, OwnedAreAlive, DestroyersAreLast, Destroying,
            PurposeKnown, AtWork, ArmingComesFirst, DisarmPcs, EntriesTimed,
            cbVars, serviceVars, runVars, watchVars, TypeOK, Actors, ClaimPcs
    <3> QED BY <3>1, <3>2 DEF HandlesFollow, EntriesFollowed
  <2>2. CASE ~timer[object[a]]
    BY <1>34, <2>0, <2>2, DisarmEnds, HandlesFollowEnded DEF Positions
  <2> QED BY <2>1, <2>2
<1>35. ASSUME NEW a \in Actors, NotifyService(a) PROVE HandlesFollow'
  <2>0. object[a] \in States
    BY <1>35, DisarmObject DEF NotifyService, DisarmPcs
  <2> QED BY <1>35, <2>0, NotifyEnds, HandlesFollowEnded DEF Positions
<1>36. ASSUME NEW a \in Actors, ClaimReason(a) PROVE HandlesFollow'
  <2>1. CASE reason[object[a]] = "none"
    <3> SUFFICES ASSUME NEW s \in States, NoHandle(s)' PROVE \E b \in Actors : SettlesHandle(b, s)'
      BY DEF HandlesFollow
    <3>1. NoHandle(s) \/ \E b \in Actors : SettlesHandle(b, s)'
      BY ActorAssumption, <1>36, <2>1
        DEF ClaimReason, Goto, AfterClaim, HandlesFollow, SettlesHandle,
            Working, NoHandle, References, Positions, EntriesFollowed,
            OwnersAgree, OwnedAreAlive, DestroyersAreLast, Destroying,
            PurposeKnown, AtWork, ArmingComesFirst, DisarmPcs, EntriesTimed,
            lifeVars, cbVars, serviceVars, runVars, watchVars, TypeOK, Actors,
            ClaimPcs
    <3>2. \A b \in Actors : SettlesHandle(b, s) => SettlesHandle(b, s)'
      BY ActorAssumption, <1>36, <2>1
        DEF ClaimReason, Goto, AfterClaim, HandlesFollow, SettlesHandle,
            Working, NoHandle, References, Positions, EntriesFollowed,
            OwnersAgree, OwnedAreAlive, DestroyersAreLast, Destroying,
            PurposeKnown, AtWork, ArmingComesFirst, DisarmPcs, EntriesTimed,
            lifeVars, cbVars, serviceVars, runVars, watchVars, TypeOK, Actors,
            ClaimPcs
    <3> QED BY <3>1, <3>2 DEF HandlesFollow, EntriesFollowed
  <2>2. CASE reason[object[a]] # "none"
    <3> SUFFICES ASSUME NEW s \in States, NoHandle(s)' PROVE \E b \in Actors : SettlesHandle(b, s)'
      BY DEF HandlesFollow
    <3>1. NoHandle(s) \/ \E b \in Actors : SettlesHandle(b, s)'
      BY ActorAssumption, <1>36, <2>2
        DEF ClaimReason, Goto, AfterClaim, HandlesFollow, SettlesHandle,
            Working, NoHandle, References, Positions, EntriesFollowed,
            OwnersAgree, OwnedAreAlive, DestroyersAreLast, Destroying,
            PurposeKnown, AtWork, ArmingComesFirst, DisarmPcs, EntriesTimed,
            lifeVars, cbVars, serviceVars, runVars, watchVars, TypeOK, Actors,
            ClaimPcs
    <3>2. \A b \in Actors : SettlesHandle(b, s) => SettlesHandle(b, s)'
      BY ActorAssumption, <1>36, <2>2
        DEF ClaimReason, Goto, AfterClaim, HandlesFollow, SettlesHandle,
            Working, NoHandle, References, Positions, EntriesFollowed,
            OwnersAgree, OwnedAreAlive, DestroyersAreLast, Destroying,
            PurposeKnown, AtWork, ArmingComesFirst, DisarmPcs, EntriesTimed,
            lifeVars, cbVars, serviceVars, runVars, watchVars, TypeOK, Actors,
            ClaimPcs
    <3> QED BY <3>1, <3>2 DEF HandlesFollow, EntriesFollowed
  <2> QED BY <2>1, <2>2
<1>37. ASSUME NEW a \in Actors, UnregisterEntry(a) PROVE HandlesFollow'
  <2>0. object[a] \in States
    BY <1>37, DisarmObject DEF UnregisterEntry, DisarmPcs
  <2>1. CASE object[a] \in schedule
    <3> SUFFICES ASSUME NEW s \in States, NoHandle(s)' PROVE \E b \in Actors : SettlesHandle(b, s)'
      BY DEF HandlesFollow
    <3>1. NoHandle(s) \/ \E b \in Actors : SettlesHandle(b, s)'
      BY ActorAssumption, <1>37, <2>0, <2>1
        DEF UnregisterEntry, Goto, HandlesFollow, SettlesHandle, Working,
            NoHandle, References, Positions, EntriesFollowed, OwnersAgree,
            OwnedAreAlive, DestroyersAreLast, Destroying, PurposeKnown,
            AtWork, ArmingComesFirst, DisarmPcs, EntriesTimed, cbVars,
            runVars, TypeOK, Actors, ClaimPcs
    <3>2. \A b \in Actors : SettlesHandle(b, s) => SettlesHandle(b, s)'
      BY ActorAssumption, <1>37, <2>0, <2>1
        DEF UnregisterEntry, Goto, HandlesFollow, SettlesHandle, Working,
            NoHandle, References, Positions, EntriesFollowed, OwnersAgree,
            OwnedAreAlive, DestroyersAreLast, Destroying, PurposeKnown,
            AtWork, ArmingComesFirst, DisarmPcs, EntriesTimed, cbVars,
            runVars, TypeOK, Actors, ClaimPcs
    <3> QED BY <3>1, <3>2 DEF HandlesFollow, EntriesFollowed
  <2>2. CASE object[a] \notin schedule
    BY <1>37, <2>0, <2>2, UnregisterEnds, HandlesFollowEnded DEF Positions
  <2> QED BY <2>1, <2>2
<1>38. ASSUME Fire PROVE HandlesFollow'
  <2>1. CASE owners[Head(due)] = {}
    <3> SUFFICES ASSUME NEW s \in States, NoHandle(s)' PROVE \E b \in Actors : SettlesHandle(b, s)'
      BY DEF HandlesFollow
    <3>1. NoHandle(s) \/ \E b \in Actors : SettlesHandle(b, s)'
      BY ActorAssumption, <1>38, <2>1
        DEF Fire, Goto, HandlesFollow, SettlesHandle, Working, NoHandle,
            References, Positions, EntriesFollowed, OwnersAgree,
            OwnedAreAlive, DestroyersAreLast, Destroying, PurposeKnown,
            AtWork, ArmingComesFirst, DisarmPcs, EntriesTimed, cbVars,
            serviceVars, TypeOK, Actors, ClaimPcs
    <3>2. \A b \in Actors : SettlesHandle(b, s) => SettlesHandle(b, s)'
      BY ActorAssumption, <1>38, <2>1
        DEF Fire, Goto, HandlesFollow, SettlesHandle, Working, NoHandle,
            References, Positions, EntriesFollowed, OwnersAgree,
            OwnedAreAlive, DestroyersAreLast, Destroying, PurposeKnown,
            AtWork, ArmingComesFirst, DisarmPcs, EntriesTimed, cbVars,
            serviceVars, TypeOK, Actors, ClaimPcs
    <3> QED BY <3>1, <3>2 DEF HandlesFollow, EntriesFollowed
  <2>2. CASE owners[Head(due)] # {}
    <3>1. Fired(Head(due))
      BY <1>38, <2>2, FireFires DEF Positions
    <3> QED BY <3>1, HandlesFollowFired DEF Fired
  <2> QED BY <2>1, <2>2
<1>39. ASSUME DropFired PROVE HandlesFollow'
  <2>1. Watchdog \in Actors
    BY DEF Actors
  <2> QED BY <1>39, <2>1, DropFiredReleases, HandlesFollowReleased DEF References,
      Positions
<1>40. ASSUME Woken PROVE HandlesFollow'
  <2>1. CASE changed \/ now >= until
    <3> SUFFICES ASSUME NEW s \in States, NoHandle(s)' PROVE \E b \in Actors : SettlesHandle(b, s)'
      BY DEF HandlesFollow
    <3>1. NoHandle(s) \/ \E b \in Actors : SettlesHandle(b, s)'
      BY ActorAssumption, <1>40, <2>1
        DEF Woken, Goto, HandlesFollow, SettlesHandle, Working, NoHandle,
            References, Positions, EntriesFollowed, OwnersAgree,
            OwnedAreAlive, DestroyersAreLast, Destroying, PurposeKnown,
            AtWork, ArmingComesFirst, DisarmPcs, EntriesTimed, tokenVars,
            lifeVars, cbVars, serviceVars, callVars, TypeOK, Actors, ClaimPcs
    <3>2. \A b \in Actors : SettlesHandle(b, s) => SettlesHandle(b, s)'
      BY ActorAssumption, <1>40, <2>1
        DEF Woken, Goto, HandlesFollow, SettlesHandle, Working, NoHandle,
            References, Positions, EntriesFollowed, OwnersAgree,
            OwnedAreAlive, DestroyersAreLast, Destroying, PurposeKnown,
            AtWork, ArmingComesFirst, DisarmPcs, EntriesTimed, tokenVars,
            lifeVars, cbVars, serviceVars, callVars, TypeOK, Actors, ClaimPcs
    <3> QED BY <3>1, <3>2 DEF HandlesFollow, EntriesFollowed
  <2>2. CASE ~(changed \/ now >= until)
    <3> SUFFICES ASSUME NEW s \in States, NoHandle(s)' PROVE \E b \in Actors : SettlesHandle(b, s)'
      BY DEF HandlesFollow
    <3>1. NoHandle(s) \/ \E b \in Actors : SettlesHandle(b, s)'
      BY ActorAssumption, <1>40, <2>2
        DEF Woken, Goto, HandlesFollow, SettlesHandle, Working, NoHandle,
            References, Positions, EntriesFollowed, OwnersAgree,
            OwnedAreAlive, DestroyersAreLast, Destroying, PurposeKnown,
            AtWork, ArmingComesFirst, DisarmPcs, EntriesTimed, tokenVars,
            lifeVars, cbVars, serviceVars, callVars, TypeOK, Actors, ClaimPcs
    <3>2. \A b \in Actors : SettlesHandle(b, s) => SettlesHandle(b, s)'
      BY ActorAssumption, <1>40, <2>2
        DEF Woken, Goto, HandlesFollow, SettlesHandle, Working, NoHandle,
            References, Positions, EntriesFollowed, OwnersAgree,
            OwnedAreAlive, DestroyersAreLast, Destroying, PurposeKnown,
            AtWork, ArmingComesFirst, DisarmPcs, EntriesTimed, tokenVars,
            lifeVars, cbVars, serviceVars, callVars, TypeOK, Actors, ClaimPcs
    <3> QED BY <3>1, <3>2 DEF HandlesFollow, EntriesFollowed
  <2> QED BY <2>1, <2>2
<1> QED
  BY <1>1, <1>2, <1>3, <1>4, <1>5, <1>6, <1>7, <1>8, <1>9, <1>10,
      <1>11, <1>12, <1>13, <1>14, <1>15, <1>16, <1>17, <1>18, <1>19, <1>20,
      <1>21, <1>22, <1>23, <1>24, <1>25, <1>26, <1>27, <1>28, <1>29, <1>30,
      <1>31, <1>32, <1>33, <1>34, <1>35, <1>36, <1>37, <1>38, <1>39, <1>40
  DEF Next, Optional, ThreadSteps, ThreadLocks, ClaimSteps, ClaimLocks,
      WatchdogSteps, WatchdogLocks, Actors

-----------------------------------------------------------------------------
(* An entry of a state that is claimed or dead has an actor that removes   *)
(* it. Kept over the end of a disarm.                                      *)
LEMMA StaleEntryGoesEnded ==
    ASSUME TypeOK, References, Positions, EntriesFollowed, NoStaleEntry,
      NEW a \in Actors, Ended(a), object[a] \in States
    PROVE  StaleEntryGoes'
<1> SUFFICES ASSUME NEW s \in States, StaleEntry(s)' PROVE \E b \in Actors : RemovesEntry(b, s)'
  BY DEF StaleEntryGoes
<1>1. s \in schedule /\ (disarmFor[a] = "destroy" \/ StaleEntry(s))
  BY DEF Ended, StaleEntry
<1>2. \A b \in Actors : b # a /\ RemovesEntry(b, s) => RemovesEntry(b, s)'
  BY DEF Ended, RemovesEntry, Working
<1>3. StaleEntry(s)
  <2>1. CASE object[a] = s
    BY <1>1, <2>1
      DEF Ended, StaleEntry, References, DestroyersAreLast, Destroying
  <2>2. CASE object[a] # s
    BY <1>1, <2>2 DEF Ended, StaleEntry, TypeOK
  <2> QED BY <2>1, <2>2
<1>4. PICK b \in Actors : RemovesEntry(b, s)
  BY <1>3 DEF NoStaleEntry, StaleEntryGoes
<1>5. CASE b # a
  BY <1>2, <1>4, <1>5
<1>6. CASE b = a
  <2>1. object[a] = s /\ pc[a] = "disarm" /\ ~timer[s]
    BY <1>1, <1>4, <1>6
      DEF Ended, RemovesEntry, Working, DisarmPcs
  <2>2. PICK c \in Actors : SettlesHandle(c, s)
    BY <1>1, <2>1 DEF EntriesFollowed, HandlesFollow, NoHandle
  <2>3. c # a /\ RemovesEntry(c, s)
    BY <2>1, <2>2 DEF SettlesHandle, RemovesEntry, Working
  <2> QED BY <1>2, <2>3
<1> QED BY <1>5, <1>6

(* The same (StaleEntryGoes), kept over the release of a reference.        *)
LEMMA StaleEntryGoesReleased ==
    ASSUME TypeOK, References, Positions, EntriesFollowed, NoStaleEntry,
      NEW a \in Actors, Released(a)
    PROVE  StaleEntryGoes'
<1> SUFFICES ASSUME NEW s \in States, StaleEntry(s)' PROVE \E b \in Actors : RemovesEntry(b, s)'
  BY DEF StaleEntryGoes
<1>1. StaleEntry(s) \/ \E b \in Actors : RemovesEntry(b, s)'
  BY ActorAssumption
    DEF Released, StaleEntryGoes, RemovesEntry, Working, StaleEntry,
        References, Positions, EntriesFollowed, NoStaleEntry, OwnersAgree,
        OwnedAreAlive, DestroyersAreLast, Destroying, PurposeKnown, AtWork,
        ArmingComesFirst, DisarmPcs, EntriesTimed, HandlesFollow, NoHandle,
        SettlesHandle, StaleHandleGoes, StaleHandle, RemovesHandle, TypeOK,
        Actors, ClaimPcs
<1>2. \A b \in Actors : RemovesEntry(b, s) => RemovesEntry(b, s)'
  BY ActorAssumption
    DEF Released, StaleEntryGoes, RemovesEntry, Working, StaleEntry,
        References, Positions, EntriesFollowed, NoStaleEntry, OwnersAgree,
        OwnedAreAlive, DestroyersAreLast, Destroying, PurposeKnown, AtWork,
        ArmingComesFirst, DisarmPcs, EntriesTimed, HandlesFollow, NoHandle,
        SettlesHandle, StaleHandleGoes, StaleHandle, RemovesHandle, TypeOK,
        Actors, ClaimPcs
<1> QED BY <1>1, <1>2 DEF StaleEntryGoes, NoStaleEntry

(* The same (StaleEntryGoes), kept over the firing of an entry.            *)
LEMMA StaleEntryGoesFired ==
    ASSUME TypeOK, References, Positions, EntriesFollowed, NoStaleEntry,
      NEW z \in States, Fired(z)
    PROVE  StaleEntryGoes'
<1> SUFFICES ASSUME NEW s \in States, StaleEntry(s)' PROVE \E b \in Actors : RemovesEntry(b, s)'
  BY DEF StaleEntryGoes
<1>1. StaleEntry(s) \/ \E b \in Actors : RemovesEntry(b, s)'
  BY ActorAssumption
    DEF Fired, StaleEntryGoes, RemovesEntry, Working, StaleEntry, References,
        Positions, EntriesFollowed, NoStaleEntry, OwnersAgree, OwnedAreAlive,
        DestroyersAreLast, Destroying, PurposeKnown, AtWork, ArmingComesFirst,
        DisarmPcs, EntriesTimed, HandlesFollow, NoHandle, SettlesHandle,
        StaleHandleGoes, StaleHandle, RemovesHandle, TypeOK, Actors, ClaimPcs
<1>2. \A b \in Actors : RemovesEntry(b, s) => RemovesEntry(b, s)'
  BY ActorAssumption
    DEF Fired, StaleEntryGoes, RemovesEntry, Working, StaleEntry, References,
        Positions, EntriesFollowed, NoStaleEntry, OwnersAgree, OwnedAreAlive,
        DestroyersAreLast, Destroying, PurposeKnown, AtWork, ArmingComesFirst,
        DisarmPcs, EntriesTimed, HandlesFollow, NoHandle, SettlesHandle,
        StaleHandleGoes, StaleHandle, RemovesHandle, TypeOK, Actors, ClaimPcs
<1> QED BY <1>1, <1>2 DEF StaleEntryGoes, NoStaleEntry

(* The same (StaleEntryGoes), kept over every step.                        *)
LEMMA StaleEntryGoesStep ==
    ASSUME TypeOK, References, Positions,
      EntriesFollowed, NoStaleEntry, Next
    PROVE  StaleEntryGoes'
<1> USE ActorAssumption DEF At, Goto, StaleEntryGoes, RemovesEntry, Working,
    StaleEntry, References, Positions, EntriesFollowed, NoStaleEntry,
    OwnersAgree, OwnedAreAlive, DestroyersAreLast, Destroying, PurposeKnown,
    AtWork, ArmingComesFirst, DisarmPcs, EntriesTimed, HandlesFollow,
    NoHandle, SettlesHandle, StaleHandleGoes, StaleHandle, RemovesHandle,
    dataVars, tokenVars, lifeVars, cbVars, serviceVars, runVars, callVars,
    watchVars, vars, TypeOK, Actors, ClaimPcs
<1>1. ASSUME NEW t \in Threads, NEW s \in States, NEW d \in Deadlines, Create(t, s, d)
      PROVE StaleEntryGoes'
  <2> SUFFICES ASSUME NEW z \in States, StaleEntry(z)'
               PROVE  \E b \in Actors : RemovesEntry(b, z)'
    OBVIOUS
  <2>1. StaleEntry(z) \/ \E b \in Actors : RemovesEntry(b, z)'
    BY <1>1 DEF Create
  <2>2. \A b \in Actors : RemovesEntry(b, z) => RemovesEntry(b, z)'
    BY <1>1 DEF Create
  <2> QED BY <2>1, <2>2
<1>2. ASSUME NEW t \in Threads, ArmRegister(t) PROVE StaleEntryGoes'
  <2> SUFFICES ASSUME NEW z \in States, StaleEntry(z)'
               PROVE  \E b \in Actors : RemovesEntry(b, z)'
    OBVIOUS
  <2>1. StaleEntry(z) \/ \E b \in Actors : RemovesEntry(b, z)'
    BY <1>2 DEF ArmRegister
  <2>2. \A b \in Actors : RemovesEntry(b, z) => RemovesEntry(b, z)'
    BY <1>2 DEF ArmRegister
  <2> QED BY <2>1, <2>2
<1>3. ASSUME NEW t \in Threads, ArmFails(t) PROVE StaleEntryGoes'
  <2> SUFFICES ASSUME NEW z \in States, StaleEntry(z)'
               PROVE  \E b \in Actors : RemovesEntry(b, z)'
    OBVIOUS
  <2>1. StaleEntry(z) \/ \E b \in Actors : RemovesEntry(b, z)'
    BY <1>3 DEF ArmFails
  <2>2. \A b \in Actors : RemovesEntry(b, z) => RemovesEntry(b, z)'
    BY <1>3 DEF ArmFails
  <2> QED BY <2>1, <2>2
<1>4. ASSUME NEW t \in Threads, ArmStore(t) PROVE StaleEntryGoes'
  <2> SUFFICES ASSUME NEW z \in States, StaleEntry(z)'
               PROVE  \E b \in Actors : RemovesEntry(b, z)'
    OBVIOUS
  <2>1. StaleEntry(z) \/ \E b \in Actors : RemovesEntry(b, z)'
    BY <1>4 DEF ArmStore
  <2>2. \A b \in Actors : RemovesEntry(b, z) => RemovesEntry(b, z)'
    BY <1>4 DEF ArmStore
  <2> QED BY <2>1, <2>2
<1>5. ASSUME NEW t \in Threads, NEW s \in States, Share(t, s)
      PROVE StaleEntryGoes'
  <2> SUFFICES ASSUME NEW z \in States, StaleEntry(z)'
               PROVE  \E b \in Actors : RemovesEntry(b, z)'
    OBVIOUS
  <2>1. StaleEntry(z) \/ \E b \in Actors : RemovesEntry(b, z)'
    BY <1>5 DEF Share
  <2>2. \A b \in Actors : RemovesEntry(b, z) => RemovesEntry(b, z)'
    BY <1>5 DEF Share
  <2> QED BY <2>1, <2>2
<1>6. ASSUME NEW t \in Threads, Cancel(t) PROVE StaleEntryGoes'
  <2> SUFFICES ASSUME NEW z \in States, StaleEntry(z)'
               PROVE  \E b \in Actors : RemovesEntry(b, z)'
    OBVIOUS
  <2>1. StaleEntry(z) \/ \E b \in Actors : RemovesEntry(b, z)'
    BY <1>6 DEF Cancel, StartClaim
  <2>2. \A b \in Actors : RemovesEntry(b, z) => RemovesEntry(b, z)'
    BY <1>6 DEF Cancel, StartClaim
  <2> QED BY <2>1, <2>2
<1>7. ASSUME NEW t \in Threads, Poll(t) PROVE StaleEntryGoes'
  <2> SUFFICES ASSUME NEW z \in States, StaleEntry(z)'
               PROVE  \E b \in Actors : RemovesEntry(b, z)'
    OBVIOUS
  <2>1. StaleEntry(z) \/ \E b \in Actors : RemovesEntry(b, z)'
    BY <1>7 DEF Poll, StartClaim
  <2>2. \A b \in Actors : RemovesEntry(b, z) => RemovesEntry(b, z)'
    BY <1>7 DEF Poll, StartClaim
  <2> QED BY <2>1, <2>2
<1>8. ASSUME NEW t \in Threads, Wait(t) PROVE StaleEntryGoes'
  <2> SUFFICES ASSUME NEW z \in States, StaleEntry(z)'
               PROVE  \E b \in Actors : RemovesEntry(b, z)'
    OBVIOUS
  <2>1. StaleEntry(z) \/ \E b \in Actors : RemovesEntry(b, z)'
    BY <1>8 DEF Wait
  <2>2. \A b \in Actors : RemovesEntry(b, z) => RemovesEntry(b, z)'
    BY <1>8 DEF Wait
  <2> QED BY <2>1, <2>2
<1>9. ASSUME NEW t \in Threads, StartRegister(t) PROVE StaleEntryGoes'
  <2> SUFFICES ASSUME NEW z \in States, StaleEntry(z)'
               PROVE  \E b \in Actors : RemovesEntry(b, z)'
    OBVIOUS
  <2>1. StaleEntry(z) \/ \E b \in Actors : RemovesEntry(b, z)'
    BY <1>9 DEF StartRegister
  <2>2. \A b \in Actors : RemovesEntry(b, z) => RemovesEntry(b, z)'
    BY <1>9 DEF StartRegister
  <2> QED BY <2>1, <2>2
<1>10. ASSUME NEW t \in Threads, DestroyRegistration(t) PROVE StaleEntryGoes'
  <2> SUFFICES ASSUME NEW z \in States, StaleEntry(z)'
               PROVE  \E b \in Actors : RemovesEntry(b, z)'
    OBVIOUS
  <2>1. StaleEntry(z) \/ \E b \in Actors : RemovesEntry(b, z)'
    BY <1>10 DEF DestroyRegistration
  <2>2. \A b \in Actors : RemovesEntry(b, z) => RemovesEntry(b, z)'
    BY <1>10 DEF DestroyRegistration
  <2> QED BY <2>1, <2>2
<1>11. ASSUME NEW t \in Threads, DestroyInline(t) PROVE StaleEntryGoes'
  <2> SUFFICES ASSUME NEW z \in States, StaleEntry(z)'
               PROVE  \E b \in Actors : RemovesEntry(b, z)'
    OBVIOUS
  <2>1. StaleEntry(z) \/ \E b \in Actors : RemovesEntry(b, z)'
    BY <1>11 DEF DestroyInline
  <2>2. \A b \in Actors : RemovesEntry(b, z) => RemovesEntry(b, z)'
    BY <1>11 DEF DestroyInline
  <2> QED BY <2>1, <2>2
<1>12. ASSUME NEW t \in Threads, WaitTest(t) PROVE StaleEntryGoes'
  <2> SUFFICES ASSUME NEW z \in States, StaleEntry(z)'
               PROVE  \E b \in Actors : RemovesEntry(b, z)'
    OBVIOUS
  <2>1. StaleEntry(z) \/ \E b \in Actors : RemovesEntry(b, z)'
    BY <1>12 DEF WaitTest
  <2>2. \A b \in Actors : RemovesEntry(b, z) => RemovesEntry(b, z)'
    BY <1>12 DEF WaitTest
  <2> QED BY <2>1, <2>2
<1>13. ASSUME NEW t \in Threads, WaitLock(t) PROVE StaleEntryGoes'
  <2> SUFFICES ASSUME NEW z \in States, StaleEntry(z)'
               PROVE  \E b \in Actors : RemovesEntry(b, z)'
    OBVIOUS
  <2>1. StaleEntry(z) \/ \E b \in Actors : RemovesEntry(b, z)'
    BY <1>13 DEF WaitLock
  <2>2. \A b \in Actors : RemovesEntry(b, z) => RemovesEntry(b, z)'
    BY <1>13 DEF WaitLock
  <2> QED BY <2>1, <2>2
<1>14. ASSUME NEW t \in Threads, RegisterStored(t) PROVE StaleEntryGoes'
  <2> SUFFICES ASSUME NEW z \in States, StaleEntry(z)'
               PROVE  \E b \in Actors : RemovesEntry(b, z)'
    OBVIOUS
  <2>1. StaleEntry(z) \/ \E b \in Actors : RemovesEntry(b, z)'
    BY <1>14 DEF RegisterStored
  <2>2. \A b \in Actors : RemovesEntry(b, z) => RemovesEntry(b, z)'
    BY <1>14 DEF RegisterStored
  <2> QED BY <2>1, <2>2
<1>15. ASSUME NEW t \in Threads, RegisterInline(t) PROVE StaleEntryGoes'
  <2> SUFFICES ASSUME NEW z \in States, StaleEntry(z)'
               PROVE  \E b \in Actors : RemovesEntry(b, z)'
    OBVIOUS
  <2>1. StaleEntry(z) \/ \E b \in Actors : RemovesEntry(b, z)'
    BY <1>15 DEF RegisterInline
  <2>2. \A b \in Actors : RemovesEntry(b, z) => RemovesEntry(b, z)'
    BY <1>15 DEF RegisterInline
  <2> QED BY <2>1, <2>2
<1>16. ASSUME NEW t \in Threads, Unregister(t) PROVE StaleEntryGoes'
  <2> SUFFICES ASSUME NEW z \in States, StaleEntry(z)'
               PROVE  \E b \in Actors : RemovesEntry(b, z)'
    OBVIOUS
  <2>1. StaleEntry(z) \/ \E b \in Actors : RemovesEntry(b, z)'
    BY <1>16 DEF Unregister
  <2>2. \A b \in Actors : RemovesEntry(b, z) => RemovesEntry(b, z)'
    BY <1>16 DEF Unregister
  <2> QED BY <2>1, <2>2
<1>17. ASSUME NEW a \in Actors, NotifyWaiters(a) PROVE StaleEntryGoes'
  <2> SUFFICES ASSUME NEW z \in States, StaleEntry(z)'
               PROVE  \E b \in Actors : RemovesEntry(b, z)'
    OBVIOUS
  <2>1. StaleEntry(z) \/ \E b \in Actors : RemovesEntry(b, z)'
    BY <1>17 DEF NotifyWaiters
  <2>2. \A b \in Actors : RemovesEntry(b, z) => RemovesEntry(b, z)'
    BY <1>17 DEF NotifyWaiters
  <2> QED BY <2>1, <2>2
<1>18. ASSUME NEW a \in Actors, CallBack(a) PROVE StaleEntryGoes'
  <2> SUFFICES ASSUME NEW z \in States, StaleEntry(z)'
               PROVE  \E b \in Actors : RemovesEntry(b, z)'
    OBVIOUS
  <2>1. StaleEntry(z) \/ \E b \in Actors : RemovesEntry(b, z)'
    BY <1>18 DEF CallBack
  <2>2. \A b \in Actors : RemovesEntry(b, z) => RemovesEntry(b, z)'
    BY <1>18 DEF CallBack
  <2> QED BY <2>1, <2>2
<1>19. ASSUME NEW a \in Actors, CallbackReturns(a) PROVE StaleEntryGoes'
  <2> SUFFICES ASSUME NEW z \in States, StaleEntry(z)'
               PROVE  \E b \in Actors : RemovesEntry(b, z)'
    OBVIOUS
  <2>1. StaleEntry(z) \/ \E b \in Actors : RemovesEntry(b, z)'
    BY <1>19 DEF CallbackReturns
  <2>2. \A b \in Actors : RemovesEntry(b, z) => RemovesEntry(b, z)'
    BY <1>19 DEF CallbackReturns
  <2> QED BY <2>1, <2>2
<1>20. ASSUME NEW a \in Actors, ClaimReturns(a) PROVE StaleEntryGoes'
  <2> SUFFICES ASSUME NEW z \in States, StaleEntry(z)'
               PROVE  \E b \in Actors : RemovesEntry(b, z)'
    OBVIOUS
  <2>1. StaleEntry(z) \/ \E b \in Actors : RemovesEntry(b, z)'
    BY <1>20 DEF ClaimReturns, AfterClaim
  <2>2. \A b \in Actors : RemovesEntry(b, z) => RemovesEntry(b, z)'
    BY <1>20 DEF ClaimReturns, AfterClaim
  <2> QED BY <2>1, <2>2
<1>21. ASSUME NEW a \in Actors, ReleaseWaiters(a) PROVE StaleEntryGoes'
  <2> SUFFICES ASSUME NEW z \in States, StaleEntry(z)'
               PROVE  \E b \in Actors : RemovesEntry(b, z)'
    OBVIOUS
  <2>1. StaleEntry(z) \/ \E b \in Actors : RemovesEntry(b, z)'
    BY <1>21 DEF ReleaseWaiters
  <2>2. \A b \in Actors : RemovesEntry(b, z) => RemovesEntry(b, z)'
    BY <1>21 DEF ReleaseWaiters
  <2> QED BY <2>1, <2>2
<1>22. ASSUME NEW a \in Actors, LockCallbacks(a) PROVE StaleEntryGoes'
  <2> SUFFICES ASSUME NEW z \in States, StaleEntry(z)'
               PROVE  \E b \in Actors : RemovesEntry(b, z)'
    OBVIOUS
  <2>1. StaleEntry(z) \/ \E b \in Actors : RemovesEntry(b, z)'
    BY <1>22 DEF LockCallbacks
  <2>2. \A b \in Actors : RemovesEntry(b, z) => RemovesEntry(b, z)'
    BY <1>22 DEF LockCallbacks
  <2> QED BY <2>1, <2>2
<1>23. ASSUME Collect PROVE StaleEntryGoes'
  <2> SUFFICES ASSUME NEW z \in States, StaleEntry(z)'
               PROVE  \E b \in Actors : RemovesEntry(b, z)'
    OBVIOUS
  <2>1. StaleEntry(z) \/ \E b \in Actors : RemovesEntry(b, z)'
    BY <1>23 DEF Collect, Collected
  <2>2. \A b \in Actors : RemovesEntry(b, z) => RemovesEntry(b, z)'
    BY <1>23 DEF Collect, Collected
  <2> QED BY <2>1, <2>2
<1>24. ASSUME CollectedAll PROVE StaleEntryGoes'
  <2> SUFFICES ASSUME NEW z \in States, StaleEntry(z)'
               PROVE  \E b \in Actors : RemovesEntry(b, z)'
    OBVIOUS
  <2>1. StaleEntry(z) \/ \E b \in Actors : RemovesEntry(b, z)'
    BY <1>24 DEF CollectedAll
  <2>2. \A b \in Actors : RemovesEntry(b, z) => RemovesEntry(b, z)'
    BY <1>24 DEF CollectedAll
  <2> QED BY <2>1, <2>2
<1>25. ASSUME Sleep PROVE StaleEntryGoes'
  <2> SUFFICES ASSUME NEW z \in States, StaleEntry(z)'
               PROVE  \E b \in Actors : RemovesEntry(b, z)'
    OBVIOUS
  <2>1. StaleEntry(z) \/ \E b \in Actors : RemovesEntry(b, z)'
    BY <1>25 DEF Sleep
  <2>2. \A b \in Actors : RemovesEntry(b, z) => RemovesEntry(b, z)'
    BY <1>25 DEF Sleep
  <2> QED BY <2>1, <2>2
<1>26. ASSUME TimeOut PROVE StaleEntryGoes'
  <2> SUFFICES ASSUME NEW z \in States, StaleEntry(z)'
               PROVE  \E b \in Actors : RemovesEntry(b, z)'
    OBVIOUS
  <2>1. StaleEntry(z) \/ \E b \in Actors : RemovesEntry(b, z)'
    BY <1>26 DEF TimeOut
  <2>2. \A b \in Actors : RemovesEntry(b, z) => RemovesEntry(b, z)'
    BY <1>26 DEF TimeOut
  <2> QED BY <2>1, <2>2
<1>27. ASSUME FiredAll PROVE StaleEntryGoes'
  <2> SUFFICES ASSUME NEW z \in States, StaleEntry(z)'
               PROVE  \E b \in Actors : RemovesEntry(b, z)'
    OBVIOUS
  <2>1. StaleEntry(z) \/ \E b \in Actors : RemovesEntry(b, z)'
    BY <1>27 DEF FiredAll
  <2>2. \A b \in Actors : RemovesEntry(b, z) => RemovesEntry(b, z)'
    BY <1>27 DEF FiredAll
  <2> QED BY <2>1, <2>2
<1>28. ASSUME Scan PROVE StaleEntryGoes'
  <2> SUFFICES ASSUME NEW z \in States, StaleEntry(z)'
               PROVE  \E b \in Actors : RemovesEntry(b, z)'
    OBVIOUS
  <2>1. StaleEntry(z) \/ \E b \in Actors : RemovesEntry(b, z)'
    BY <1>28 DEF Scan
  <2>2. \A b \in Actors : RemovesEntry(b, z) => RemovesEntry(b, z)'
    BY <1>28 DEF Scan
  <2> QED BY <2>1, <2>2
<1>29. ASSUME Tick PROVE StaleEntryGoes'
  <2> SUFFICES ASSUME NEW z \in States, StaleEntry(z)'
               PROVE  \E b \in Actors : RemovesEntry(b, z)'
    OBVIOUS
  <2>1. StaleEntry(z) \/ \E b \in Actors : RemovesEntry(b, z)'
    BY <1>29 DEF Tick
  <2>2. \A b \in Actors : RemovesEntry(b, z) => RemovesEntry(b, z)'
    BY <1>29 DEF Tick
  <2> QED BY <2>1, <2>2
<1> HIDE ActorAssumption DEF At, Goto, StaleEntryGoes, RemovesEntry, Working,
    StaleEntry, References, Positions, EntriesFollowed, NoStaleEntry,
    OwnersAgree, OwnedAreAlive, DestroyersAreLast, Destroying, PurposeKnown,
    AtWork, ArmingComesFirst, DisarmPcs, EntriesTimed, HandlesFollow,
    NoHandle, SettlesHandle, StaleHandleGoes, StaleHandle, RemovesHandle,
    dataVars, tokenVars, lifeVars, cbVars, serviceVars, runVars, callVars,
    watchVars, vars, TypeOK, Actors, ClaimPcs
<1>30. ASSUME NEW t \in Threads, ArmNotify(t) PROVE StaleEntryGoes'
  <2>1. CASE pc[Watchdog] = "asleep"
    <3> SUFFICES ASSUME NEW s \in States, StaleEntry(s)' PROVE \E b \in Actors : RemovesEntry(b, s)'
      BY DEF StaleEntryGoes
    <3>1. StaleEntry(s) \/ \E b \in Actors : RemovesEntry(b, s)'
      BY ActorAssumption, <1>30, <2>1
        DEF ArmNotify, WakeWatchdog, StaleEntryGoes, RemovesEntry, Working,
            StaleEntry, References, Positions, EntriesFollowed, NoStaleEntry,
            OwnersAgree, OwnedAreAlive, DestroyersAreLast, Destroying,
            PurposeKnown, AtWork, ArmingComesFirst, DisarmPcs, EntriesTimed,
            HandlesFollow, NoHandle, SettlesHandle, StaleHandleGoes,
            StaleHandle, RemovesHandle, dataVars, tokenVars, lifeVars, cbVars,
            serviceVars, runVars, callVars, watchVars, TypeOK, Actors,
            ClaimPcs
    <3>2. \A b \in Actors : RemovesEntry(b, s) => RemovesEntry(b, s)'
      BY ActorAssumption, <1>30, <2>1
        DEF ArmNotify, WakeWatchdog, StaleEntryGoes, RemovesEntry, Working,
            StaleEntry, References, Positions, EntriesFollowed, NoStaleEntry,
            OwnersAgree, OwnedAreAlive, DestroyersAreLast, Destroying,
            PurposeKnown, AtWork, ArmingComesFirst, DisarmPcs, EntriesTimed,
            HandlesFollow, NoHandle, SettlesHandle, StaleHandleGoes,
            StaleHandle, RemovesHandle, dataVars, tokenVars, lifeVars, cbVars,
            serviceVars, runVars, callVars, watchVars, TypeOK, Actors,
            ClaimPcs
    <3> QED BY <3>1, <3>2 DEF StaleEntryGoes, NoStaleEntry
  <2>2. CASE pc[Watchdog] # "asleep"
    <3> SUFFICES ASSUME NEW s \in States, StaleEntry(s)' PROVE \E b \in Actors : RemovesEntry(b, s)'
      BY DEF StaleEntryGoes
    <3>1. StaleEntry(s) \/ \E b \in Actors : RemovesEntry(b, s)'
      BY ActorAssumption, <1>30, <2>2
        DEF ArmNotify, WakeWatchdog, StaleEntryGoes, RemovesEntry, Working,
            StaleEntry, References, Positions, EntriesFollowed, NoStaleEntry,
            OwnersAgree, OwnedAreAlive, DestroyersAreLast, Destroying,
            PurposeKnown, AtWork, ArmingComesFirst, DisarmPcs, EntriesTimed,
            HandlesFollow, NoHandle, SettlesHandle, StaleHandleGoes,
            StaleHandle, RemovesHandle, dataVars, tokenVars, lifeVars, cbVars,
            serviceVars, runVars, callVars, watchVars, TypeOK, Actors,
            ClaimPcs
    <3>2. \A b \in Actors : RemovesEntry(b, s) => RemovesEntry(b, s)'
      BY ActorAssumption, <1>30, <2>2
        DEF ArmNotify, WakeWatchdog, StaleEntryGoes, RemovesEntry, Working,
            StaleEntry, References, Positions, EntriesFollowed, NoStaleEntry,
            OwnersAgree, OwnedAreAlive, DestroyersAreLast, Destroying,
            PurposeKnown, AtWork, ArmingComesFirst, DisarmPcs, EntriesTimed,
            HandlesFollow, NoHandle, SettlesHandle, StaleHandleGoes,
            StaleHandle, RemovesHandle, dataVars, tokenVars, lifeVars, cbVars,
            serviceVars, runVars, callVars, watchVars, TypeOK, Actors,
            ClaimPcs
    <3> QED BY <3>1, <3>2 DEF StaleEntryGoes, NoStaleEntry
  <2> QED BY <2>1, <2>2
<1>31. ASSUME NEW t \in Threads, ArmRecheck(t) PROVE StaleEntryGoes'
  <2>1. CASE reason[object[t]] = "none"
    <3> SUFFICES ASSUME NEW s \in States, StaleEntry(s)' PROVE \E b \in Actors : RemovesEntry(b, s)'
      BY DEF StaleEntryGoes
    <3>1. StaleEntry(s) \/ \E b \in Actors : RemovesEntry(b, s)'
      BY ActorAssumption, <1>31, <2>1
        DEF ArmRecheck, Goto, StaleEntryGoes, RemovesEntry, Working,
            StaleEntry, References, Positions, EntriesFollowed, NoStaleEntry,
            OwnersAgree, OwnedAreAlive, DestroyersAreLast, Destroying,
            PurposeKnown, AtWork, ArmingComesFirst, DisarmPcs, EntriesTimed,
            HandlesFollow, NoHandle, SettlesHandle, StaleHandleGoes,
            StaleHandle, RemovesHandle, tokenVars, lifeVars, cbVars,
            serviceVars, runVars, watchVars, TypeOK, Actors, ClaimPcs
    <3>2. \A b \in Actors : RemovesEntry(b, s) => RemovesEntry(b, s)'
      BY ActorAssumption, <1>31, <2>1
        DEF ArmRecheck, Goto, StaleEntryGoes, RemovesEntry, Working,
            StaleEntry, References, Positions, EntriesFollowed, NoStaleEntry,
            OwnersAgree, OwnedAreAlive, DestroyersAreLast, Destroying,
            PurposeKnown, AtWork, ArmingComesFirst, DisarmPcs, EntriesTimed,
            HandlesFollow, NoHandle, SettlesHandle, StaleHandleGoes,
            StaleHandle, RemovesHandle, tokenVars, lifeVars, cbVars,
            serviceVars, runVars, watchVars, TypeOK, Actors, ClaimPcs
    <3> QED BY <3>1, <3>2 DEF StaleEntryGoes, NoStaleEntry
  <2>2. CASE reason[object[t]] # "none"
    <3> SUFFICES ASSUME NEW s \in States, StaleEntry(s)' PROVE \E b \in Actors : RemovesEntry(b, s)'
      BY DEF StaleEntryGoes
    <3>1. StaleEntry(s) \/ \E b \in Actors : RemovesEntry(b, s)'
      BY ActorAssumption, <1>31, <2>2
        DEF ArmRecheck, Goto, StaleEntryGoes, RemovesEntry, Working,
            StaleEntry, References, Positions, EntriesFollowed, NoStaleEntry,
            OwnersAgree, OwnedAreAlive, DestroyersAreLast, Destroying,
            PurposeKnown, AtWork, ArmingComesFirst, DisarmPcs, EntriesTimed,
            HandlesFollow, NoHandle, SettlesHandle, StaleHandleGoes,
            StaleHandle, RemovesHandle, tokenVars, lifeVars, cbVars,
            serviceVars, runVars, watchVars, TypeOK, Actors, ClaimPcs
    <3>2. \A b \in Actors : RemovesEntry(b, s) => RemovesEntry(b, s)'
      BY ActorAssumption, <1>31, <2>2
        DEF ArmRecheck, Goto, StaleEntryGoes, RemovesEntry, Working,
            StaleEntry, References, Positions, EntriesFollowed, NoStaleEntry,
            OwnersAgree, OwnedAreAlive, DestroyersAreLast, Destroying,
            PurposeKnown, AtWork, ArmingComesFirst, DisarmPcs, EntriesTimed,
            HandlesFollow, NoHandle, SettlesHandle, StaleHandleGoes,
            StaleHandle, RemovesHandle, tokenVars, lifeVars, cbVars,
            serviceVars, runVars, watchVars, TypeOK, Actors, ClaimPcs
    <3> QED BY <3>1, <3>2 DEF StaleEntryGoes, NoStaleEntry
  <2> QED BY <2>1, <2>2
<1>32. ASSUME NEW t \in Threads, Drop(t) PROVE StaleEntryGoes'
  <2>1. t \in Actors
    BY DEF Actors
  <2> QED BY <1>32, <2>1, DropReleases, StaleEntryGoesReleased DEF References,
      Positions
<1>33. ASSUME NEW t \in Threads, WaitUnlock(t) PROVE StaleEntryGoes'
  <2>1. CASE pc[t] = "block"
    <3> SUFFICES ASSUME NEW s \in States, StaleEntry(s)' PROVE \E b \in Actors : RemovesEntry(b, s)'
      BY DEF StaleEntryGoes
    <3>1. StaleEntry(s) \/ \E b \in Actors : RemovesEntry(b, s)'
      BY ActorAssumption, <1>33, <2>1
        DEF WaitUnlock, Goto, StaleEntryGoes, RemovesEntry, Working,
            StaleEntry, References, Positions, EntriesFollowed, NoStaleEntry,
            OwnersAgree, OwnedAreAlive, DestroyersAreLast, Destroying,
            PurposeKnown, AtWork, ArmingComesFirst, DisarmPcs, EntriesTimed,
            HandlesFollow, NoHandle, SettlesHandle, StaleHandleGoes,
            StaleHandle, RemovesHandle, lifeVars, cbVars, serviceVars,
            runVars, callVars, watchVars, TypeOK, Actors, ClaimPcs
    <3>2. \A b \in Actors : RemovesEntry(b, s) => RemovesEntry(b, s)'
      BY ActorAssumption, <1>33, <2>1
        DEF WaitUnlock, Goto, StaleEntryGoes, RemovesEntry, Working,
            StaleEntry, References, Positions, EntriesFollowed, NoStaleEntry,
            OwnersAgree, OwnedAreAlive, DestroyersAreLast, Destroying,
            PurposeKnown, AtWork, ArmingComesFirst, DisarmPcs, EntriesTimed,
            HandlesFollow, NoHandle, SettlesHandle, StaleHandleGoes,
            StaleHandle, RemovesHandle, lifeVars, cbVars, serviceVars,
            runVars, callVars, watchVars, TypeOK, Actors, ClaimPcs
    <3> QED BY <3>1, <3>2 DEF StaleEntryGoes, NoStaleEntry
  <2>2. CASE pc[t] # "block"
    <3> SUFFICES ASSUME NEW s \in States, StaleEntry(s)' PROVE \E b \in Actors : RemovesEntry(b, s)'
      BY DEF StaleEntryGoes
    <3>1. StaleEntry(s) \/ \E b \in Actors : RemovesEntry(b, s)'
      BY ActorAssumption, <1>33, <2>2
        DEF WaitUnlock, Goto, StaleEntryGoes, RemovesEntry, Working,
            StaleEntry, References, Positions, EntriesFollowed, NoStaleEntry,
            OwnersAgree, OwnedAreAlive, DestroyersAreLast, Destroying,
            PurposeKnown, AtWork, ArmingComesFirst, DisarmPcs, EntriesTimed,
            HandlesFollow, NoHandle, SettlesHandle, StaleHandleGoes,
            StaleHandle, RemovesHandle, lifeVars, cbVars, serviceVars,
            runVars, callVars, watchVars, TypeOK, Actors, ClaimPcs
    <3>2. \A b \in Actors : RemovesEntry(b, s) => RemovesEntry(b, s)'
      BY ActorAssumption, <1>33, <2>2
        DEF WaitUnlock, Goto, StaleEntryGoes, RemovesEntry, Working,
            StaleEntry, References, Positions, EntriesFollowed, NoStaleEntry,
            OwnersAgree, OwnedAreAlive, DestroyersAreLast, Destroying,
            PurposeKnown, AtWork, ArmingComesFirst, DisarmPcs, EntriesTimed,
            HandlesFollow, NoHandle, SettlesHandle, StaleHandleGoes,
            StaleHandle, RemovesHandle, lifeVars, cbVars, serviceVars,
            runVars, callVars, watchVars, TypeOK, Actors, ClaimPcs
    <3> QED BY <3>1, <3>2 DEF StaleEntryGoes, NoStaleEntry
  <2> QED BY <2>1, <2>2
<1>34. ASSUME NEW a \in Actors, Disarm(a) PROVE StaleEntryGoes'
  <2>0. object[a] \in States
    BY <1>34, DisarmObject DEF Disarm, DisarmPcs
  <2>1. CASE timer[object[a]]
    <3> SUFFICES ASSUME NEW s \in States, StaleEntry(s)' PROVE \E b \in Actors : RemovesEntry(b, s)'
      BY DEF StaleEntryGoes
    <3>1. StaleEntry(s) \/ \E b \in Actors : RemovesEntry(b, s)'
      BY ActorAssumption, <1>34, <2>0, <2>1
        DEF Disarm, Goto, Disarmed, DisarmedPc, StaleEntryGoes, RemovesEntry,
            Working, StaleEntry, References, Positions, EntriesFollowed,
            NoStaleEntry, OwnersAgree, OwnedAreAlive, DestroyersAreLast,
            Destroying, PurposeKnown, AtWork, ArmingComesFirst, DisarmPcs,
            EntriesTimed, HandlesFollow, NoHandle, SettlesHandle,
            StaleHandleGoes, StaleHandle, RemovesHandle, cbVars, serviceVars,
            runVars, watchVars, TypeOK, Actors, ClaimPcs
    <3>2. \A b \in Actors : RemovesEntry(b, s) => RemovesEntry(b, s)'
      BY ActorAssumption, <1>34, <2>0, <2>1
        DEF Disarm, Goto, Disarmed, DisarmedPc, StaleEntryGoes, RemovesEntry,
            Working, StaleEntry, References, Positions, EntriesFollowed,
            NoStaleEntry, OwnersAgree, OwnedAreAlive, DestroyersAreLast,
            Destroying, PurposeKnown, AtWork, ArmingComesFirst, DisarmPcs,
            EntriesTimed, HandlesFollow, NoHandle, SettlesHandle,
            StaleHandleGoes, StaleHandle, RemovesHandle, cbVars, serviceVars,
            runVars, watchVars, TypeOK, Actors, ClaimPcs
    <3> QED BY <3>1, <3>2 DEF StaleEntryGoes, NoStaleEntry
  <2>2. CASE ~timer[object[a]]
    BY <1>34, <2>0, <2>2, DisarmEnds, StaleEntryGoesEnded DEF Positions
  <2> QED BY <2>1, <2>2
<1>35. ASSUME NEW a \in Actors, NotifyService(a) PROVE StaleEntryGoes'
  <2>0. object[a] \in States
    BY <1>35, DisarmObject DEF NotifyService, DisarmPcs
  <2> QED BY <1>35, <2>0, NotifyEnds, StaleEntryGoesEnded DEF Positions
<1>36. ASSUME NEW a \in Actors, ClaimReason(a) PROVE StaleEntryGoes'
  <2>1. CASE reason[object[a]] = "none"
    <3> SUFFICES ASSUME NEW s \in States, StaleEntry(s)' PROVE \E b \in Actors : RemovesEntry(b, s)'
      BY DEF StaleEntryGoes
    <3>1. StaleEntry(s) \/ \E b \in Actors : RemovesEntry(b, s)'
      BY ActorAssumption, <1>36, <2>1
        DEF ClaimReason, Goto, AfterClaim, StaleEntryGoes, RemovesEntry,
            Working, StaleEntry, References, Positions, EntriesFollowed,
            NoStaleEntry, OwnersAgree, OwnedAreAlive, DestroyersAreLast,
            Destroying, PurposeKnown, AtWork, ArmingComesFirst, DisarmPcs,
            EntriesTimed, HandlesFollow, NoHandle, SettlesHandle,
            StaleHandleGoes, StaleHandle, RemovesHandle, lifeVars, cbVars,
            serviceVars, runVars, watchVars, TypeOK, Actors, ClaimPcs
    <3>2. \A b \in Actors : RemovesEntry(b, s) => RemovesEntry(b, s)'
      BY ActorAssumption, <1>36, <2>1
        DEF ClaimReason, Goto, AfterClaim, StaleEntryGoes, RemovesEntry,
            Working, StaleEntry, References, Positions, EntriesFollowed,
            NoStaleEntry, OwnersAgree, OwnedAreAlive, DestroyersAreLast,
            Destroying, PurposeKnown, AtWork, ArmingComesFirst, DisarmPcs,
            EntriesTimed, HandlesFollow, NoHandle, SettlesHandle,
            StaleHandleGoes, StaleHandle, RemovesHandle, lifeVars, cbVars,
            serviceVars, runVars, watchVars, TypeOK, Actors, ClaimPcs
    <3> QED BY <3>1, <3>2 DEF StaleEntryGoes, NoStaleEntry
  <2>2. CASE reason[object[a]] # "none"
    <3> SUFFICES ASSUME NEW s \in States, StaleEntry(s)' PROVE \E b \in Actors : RemovesEntry(b, s)'
      BY DEF StaleEntryGoes
    <3>1. StaleEntry(s) \/ \E b \in Actors : RemovesEntry(b, s)'
      BY ActorAssumption, <1>36, <2>2
        DEF ClaimReason, Goto, AfterClaim, StaleEntryGoes, RemovesEntry,
            Working, StaleEntry, References, Positions, EntriesFollowed,
            NoStaleEntry, OwnersAgree, OwnedAreAlive, DestroyersAreLast,
            Destroying, PurposeKnown, AtWork, ArmingComesFirst, DisarmPcs,
            EntriesTimed, HandlesFollow, NoHandle, SettlesHandle,
            StaleHandleGoes, StaleHandle, RemovesHandle, lifeVars, cbVars,
            serviceVars, runVars, watchVars, TypeOK, Actors, ClaimPcs
    <3>2. \A b \in Actors : RemovesEntry(b, s) => RemovesEntry(b, s)'
      BY ActorAssumption, <1>36, <2>2
        DEF ClaimReason, Goto, AfterClaim, StaleEntryGoes, RemovesEntry,
            Working, StaleEntry, References, Positions, EntriesFollowed,
            NoStaleEntry, OwnersAgree, OwnedAreAlive, DestroyersAreLast,
            Destroying, PurposeKnown, AtWork, ArmingComesFirst, DisarmPcs,
            EntriesTimed, HandlesFollow, NoHandle, SettlesHandle,
            StaleHandleGoes, StaleHandle, RemovesHandle, lifeVars, cbVars,
            serviceVars, runVars, watchVars, TypeOK, Actors, ClaimPcs
    <3> QED BY <3>1, <3>2 DEF StaleEntryGoes, NoStaleEntry
  <2> QED BY <2>1, <2>2
<1>37. ASSUME NEW a \in Actors, UnregisterEntry(a) PROVE StaleEntryGoes'
  <2>0. object[a] \in States
    BY <1>37, DisarmObject DEF UnregisterEntry, DisarmPcs
  <2>1. CASE object[a] \in schedule
    <3> SUFFICES ASSUME NEW s \in States, StaleEntry(s)' PROVE \E b \in Actors : RemovesEntry(b, s)'
      BY DEF StaleEntryGoes
    <3>1. StaleEntry(s) \/ \E b \in Actors : RemovesEntry(b, s)'
      BY ActorAssumption, <1>37, <2>0, <2>1
        DEF UnregisterEntry, Goto, StaleEntryGoes, RemovesEntry, Working,
            StaleEntry, References, Positions, EntriesFollowed, NoStaleEntry,
            OwnersAgree, OwnedAreAlive, DestroyersAreLast, Destroying,
            PurposeKnown, AtWork, ArmingComesFirst, DisarmPcs, EntriesTimed,
            HandlesFollow, NoHandle, SettlesHandle, StaleHandleGoes,
            StaleHandle, RemovesHandle, cbVars, runVars, TypeOK, Actors,
            ClaimPcs
    <3>2. \A b \in Actors : RemovesEntry(b, s) => RemovesEntry(b, s)'
      BY ActorAssumption, <1>37, <2>0, <2>1
        DEF UnregisterEntry, Goto, StaleEntryGoes, RemovesEntry, Working,
            StaleEntry, References, Positions, EntriesFollowed, NoStaleEntry,
            OwnersAgree, OwnedAreAlive, DestroyersAreLast, Destroying,
            PurposeKnown, AtWork, ArmingComesFirst, DisarmPcs, EntriesTimed,
            HandlesFollow, NoHandle, SettlesHandle, StaleHandleGoes,
            StaleHandle, RemovesHandle, cbVars, runVars, TypeOK, Actors,
            ClaimPcs
    <3> QED BY <3>1, <3>2 DEF StaleEntryGoes, NoStaleEntry
  <2>2. CASE object[a] \notin schedule
    BY <1>37, <2>0, <2>2, UnregisterEnds, StaleEntryGoesEnded DEF Positions
  <2> QED BY <2>1, <2>2
<1>38. ASSUME Fire PROVE StaleEntryGoes'
  <2>1. CASE owners[Head(due)] = {}
    <3> SUFFICES ASSUME NEW s \in States, StaleEntry(s)' PROVE \E b \in Actors : RemovesEntry(b, s)'
      BY DEF StaleEntryGoes
    <3>1. StaleEntry(s) \/ \E b \in Actors : RemovesEntry(b, s)'
      BY ActorAssumption, <1>38, <2>1
        DEF Fire, Goto, StaleEntryGoes, RemovesEntry, Working, StaleEntry,
            References, Positions, EntriesFollowed, NoStaleEntry, OwnersAgree,
            OwnedAreAlive, DestroyersAreLast, Destroying, PurposeKnown,
            AtWork, ArmingComesFirst, DisarmPcs, EntriesTimed, HandlesFollow,
            NoHandle, SettlesHandle, StaleHandleGoes, StaleHandle,
            RemovesHandle, cbVars, serviceVars, TypeOK, Actors, ClaimPcs
    <3>2. \A b \in Actors : RemovesEntry(b, s) => RemovesEntry(b, s)'
      BY ActorAssumption, <1>38, <2>1
        DEF Fire, Goto, StaleEntryGoes, RemovesEntry, Working, StaleEntry,
            References, Positions, EntriesFollowed, NoStaleEntry, OwnersAgree,
            OwnedAreAlive, DestroyersAreLast, Destroying, PurposeKnown,
            AtWork, ArmingComesFirst, DisarmPcs, EntriesTimed, HandlesFollow,
            NoHandle, SettlesHandle, StaleHandleGoes, StaleHandle,
            RemovesHandle, cbVars, serviceVars, TypeOK, Actors, ClaimPcs
    <3> QED BY <3>1, <3>2 DEF StaleEntryGoes, NoStaleEntry
  <2>2. CASE owners[Head(due)] # {}
    <3>1. Fired(Head(due))
      BY <1>38, <2>2, FireFires DEF Positions
    <3> QED BY <3>1, StaleEntryGoesFired DEF Fired
  <2> QED BY <2>1, <2>2
<1>39. ASSUME DropFired PROVE StaleEntryGoes'
  <2>1. Watchdog \in Actors
    BY DEF Actors
  <2> QED BY <1>39, <2>1, DropFiredReleases, StaleEntryGoesReleased DEF References,
      Positions
<1>40. ASSUME Woken PROVE StaleEntryGoes'
  <2>1. CASE changed \/ now >= until
    <3> SUFFICES ASSUME NEW s \in States, StaleEntry(s)' PROVE \E b \in Actors : RemovesEntry(b, s)'
      BY DEF StaleEntryGoes
    <3>1. StaleEntry(s) \/ \E b \in Actors : RemovesEntry(b, s)'
      BY ActorAssumption, <1>40, <2>1
        DEF Woken, Goto, StaleEntryGoes, RemovesEntry, Working, StaleEntry,
            References, Positions, EntriesFollowed, NoStaleEntry, OwnersAgree,
            OwnedAreAlive, DestroyersAreLast, Destroying, PurposeKnown,
            AtWork, ArmingComesFirst, DisarmPcs, EntriesTimed, HandlesFollow,
            NoHandle, SettlesHandle, StaleHandleGoes, StaleHandle,
            RemovesHandle, tokenVars, lifeVars, cbVars, serviceVars, callVars,
            TypeOK, Actors, ClaimPcs
    <3>2. \A b \in Actors : RemovesEntry(b, s) => RemovesEntry(b, s)'
      BY ActorAssumption, <1>40, <2>1
        DEF Woken, Goto, StaleEntryGoes, RemovesEntry, Working, StaleEntry,
            References, Positions, EntriesFollowed, NoStaleEntry, OwnersAgree,
            OwnedAreAlive, DestroyersAreLast, Destroying, PurposeKnown,
            AtWork, ArmingComesFirst, DisarmPcs, EntriesTimed, HandlesFollow,
            NoHandle, SettlesHandle, StaleHandleGoes, StaleHandle,
            RemovesHandle, tokenVars, lifeVars, cbVars, serviceVars, callVars,
            TypeOK, Actors, ClaimPcs
    <3> QED BY <3>1, <3>2 DEF StaleEntryGoes, NoStaleEntry
  <2>2. CASE ~(changed \/ now >= until)
    <3> SUFFICES ASSUME NEW s \in States, StaleEntry(s)' PROVE \E b \in Actors : RemovesEntry(b, s)'
      BY DEF StaleEntryGoes
    <3>1. StaleEntry(s) \/ \E b \in Actors : RemovesEntry(b, s)'
      BY ActorAssumption, <1>40, <2>2
        DEF Woken, Goto, StaleEntryGoes, RemovesEntry, Working, StaleEntry,
            References, Positions, EntriesFollowed, NoStaleEntry, OwnersAgree,
            OwnedAreAlive, DestroyersAreLast, Destroying, PurposeKnown,
            AtWork, ArmingComesFirst, DisarmPcs, EntriesTimed, HandlesFollow,
            NoHandle, SettlesHandle, StaleHandleGoes, StaleHandle,
            RemovesHandle, tokenVars, lifeVars, cbVars, serviceVars, callVars,
            TypeOK, Actors, ClaimPcs
    <3>2. \A b \in Actors : RemovesEntry(b, s) => RemovesEntry(b, s)'
      BY ActorAssumption, <1>40, <2>2
        DEF Woken, Goto, StaleEntryGoes, RemovesEntry, Working, StaleEntry,
            References, Positions, EntriesFollowed, NoStaleEntry, OwnersAgree,
            OwnedAreAlive, DestroyersAreLast, Destroying, PurposeKnown,
            AtWork, ArmingComesFirst, DisarmPcs, EntriesTimed, HandlesFollow,
            NoHandle, SettlesHandle, StaleHandleGoes, StaleHandle,
            RemovesHandle, tokenVars, lifeVars, cbVars, serviceVars, callVars,
            TypeOK, Actors, ClaimPcs
    <3> QED BY <3>1, <3>2 DEF StaleEntryGoes, NoStaleEntry
  <2> QED BY <2>1, <2>2
<1> QED
  BY <1>1, <1>2, <1>3, <1>4, <1>5, <1>6, <1>7, <1>8, <1>9, <1>10,
      <1>11, <1>12, <1>13, <1>14, <1>15, <1>16, <1>17, <1>18, <1>19, <1>20,
      <1>21, <1>22, <1>23, <1>24, <1>25, <1>26, <1>27, <1>28, <1>29, <1>30,
      <1>31, <1>32, <1>33, <1>34, <1>35, <1>36, <1>37, <1>38, <1>39, <1>40
  DEF Next, Optional, ThreadSteps, ThreadLocks, ClaimSteps, ClaimLocks,
      WatchdogSteps, WatchdogLocks, Actors

-----------------------------------------------------------------------------
(* The handle of a claimed state has an actor that exchanges it. Kept over *)
(* the end of a disarm.                                                    *)
LEMMA StaleHandleGoesEnded ==
    ASSUME TypeOK, References, Positions, EntriesFollowed, NoStaleEntry,
      NEW a \in Actors, Ended(a), object[a] \in States
    PROVE  StaleHandleGoes'
<1> SUFFICES ASSUME NEW s \in States, StaleHandle(s)' PROVE \E b \in Actors : RemovesHandle(b, s)'
  BY DEF StaleHandleGoes
<1>1. StaleHandle(s) \/ \E b \in Actors : RemovesHandle(b, s)'
  BY ActorAssumption
    DEF Ended, StaleHandleGoes, RemovesHandle, Working, StaleHandle,
        References, Positions, EntriesFollowed, NoStaleEntry, OwnersAgree,
        OwnedAreAlive, DestroyersAreLast, Destroying, PurposeKnown, AtWork,
        ArmingComesFirst, DisarmPcs, EntriesTimed, HandlesFollow, NoHandle,
        SettlesHandle, StaleEntryGoes, StaleEntry, RemovesEntry, TypeOK,
        Actors, ClaimPcs
<1>2. \A b \in Actors : RemovesHandle(b, s) => RemovesHandle(b, s)'
  BY ActorAssumption
    DEF Ended, StaleHandleGoes, RemovesHandle, Working, StaleHandle,
        References, Positions, EntriesFollowed, NoStaleEntry, OwnersAgree,
        OwnedAreAlive, DestroyersAreLast, Destroying, PurposeKnown, AtWork,
        ArmingComesFirst, DisarmPcs, EntriesTimed, HandlesFollow, NoHandle,
        SettlesHandle, StaleEntryGoes, StaleEntry, RemovesEntry, TypeOK,
        Actors, ClaimPcs
<1> QED BY <1>1, <1>2 DEF StaleHandleGoes, NoStaleEntry

(* The same (StaleHandleGoes), kept over the release of a reference.       *)
LEMMA StaleHandleGoesReleased ==
    ASSUME TypeOK, References, Positions, EntriesFollowed, NoStaleEntry,
      NEW a \in Actors, Released(a)
    PROVE  StaleHandleGoes'
<1> SUFFICES ASSUME NEW s \in States, StaleHandle(s)' PROVE \E b \in Actors : RemovesHandle(b, s)'
  BY DEF StaleHandleGoes
<1>1. StaleHandle(s) \/ \E b \in Actors : RemovesHandle(b, s)'
  BY ActorAssumption
    DEF Released, StaleHandleGoes, RemovesHandle, Working, StaleHandle,
        References, Positions, EntriesFollowed, NoStaleEntry, OwnersAgree,
        OwnedAreAlive, DestroyersAreLast, Destroying, PurposeKnown, AtWork,
        ArmingComesFirst, DisarmPcs, EntriesTimed, HandlesFollow, NoHandle,
        SettlesHandle, StaleEntryGoes, StaleEntry, RemovesEntry, TypeOK,
        Actors, ClaimPcs
<1>2. \A b \in Actors : RemovesHandle(b, s) => RemovesHandle(b, s)'
  BY ActorAssumption
    DEF Released, StaleHandleGoes, RemovesHandle, Working, StaleHandle,
        References, Positions, EntriesFollowed, NoStaleEntry, OwnersAgree,
        OwnedAreAlive, DestroyersAreLast, Destroying, PurposeKnown, AtWork,
        ArmingComesFirst, DisarmPcs, EntriesTimed, HandlesFollow, NoHandle,
        SettlesHandle, StaleEntryGoes, StaleEntry, RemovesEntry, TypeOK,
        Actors, ClaimPcs
<1> QED BY <1>1, <1>2 DEF StaleHandleGoes, NoStaleEntry

(* The same (StaleHandleGoes), kept over the firing of an entry.           *)
LEMMA StaleHandleGoesFired ==
    ASSUME TypeOK, References, Positions, EntriesFollowed, NoStaleEntry,
      NEW z \in States, Fired(z)
    PROVE  StaleHandleGoes'
<1> SUFFICES ASSUME NEW s \in States, StaleHandle(s)' PROVE \E b \in Actors : RemovesHandle(b, s)'
  BY DEF StaleHandleGoes
<1>1. StaleHandle(s) \/ \E b \in Actors : RemovesHandle(b, s)'
  BY ActorAssumption
    DEF Fired, StaleHandleGoes, RemovesHandle, Working, StaleHandle,
        References, Positions, EntriesFollowed, NoStaleEntry, OwnersAgree,
        OwnedAreAlive, DestroyersAreLast, Destroying, PurposeKnown, AtWork,
        ArmingComesFirst, DisarmPcs, EntriesTimed, HandlesFollow, NoHandle,
        SettlesHandle, StaleEntryGoes, StaleEntry, RemovesEntry, TypeOK,
        Actors, ClaimPcs
<1>2. \A b \in Actors : RemovesHandle(b, s) => RemovesHandle(b, s)'
  BY ActorAssumption
    DEF Fired, StaleHandleGoes, RemovesHandle, Working, StaleHandle,
        References, Positions, EntriesFollowed, NoStaleEntry, OwnersAgree,
        OwnedAreAlive, DestroyersAreLast, Destroying, PurposeKnown, AtWork,
        ArmingComesFirst, DisarmPcs, EntriesTimed, HandlesFollow, NoHandle,
        SettlesHandle, StaleEntryGoes, StaleEntry, RemovesEntry, TypeOK,
        Actors, ClaimPcs
<1> QED BY <1>1, <1>2 DEF StaleHandleGoes, NoStaleEntry

(* The same (StaleHandleGoes), kept over every step.                       *)
LEMMA StaleHandleGoesStep ==
    ASSUME TypeOK, References, Positions,
      EntriesFollowed, NoStaleEntry, Next
    PROVE  StaleHandleGoes'
<1> USE ActorAssumption DEF At, Goto, StaleHandleGoes, RemovesHandle, Working,
    StaleHandle, References, Positions, EntriesFollowed, NoStaleEntry,
    OwnersAgree, OwnedAreAlive, DestroyersAreLast, Destroying, PurposeKnown,
    AtWork, ArmingComesFirst, DisarmPcs, EntriesTimed, HandlesFollow,
    NoHandle, SettlesHandle, StaleEntryGoes, StaleEntry, RemovesEntry,
    dataVars, tokenVars, lifeVars, cbVars, serviceVars, runVars, callVars,
    watchVars, vars, TypeOK, Actors, ClaimPcs
<1>1. ASSUME NEW t \in Threads, NEW s \in States, NEW d \in Deadlines, Create(t, s, d)
      PROVE StaleHandleGoes'
  <2> SUFFICES ASSUME NEW z \in States, StaleHandle(z)'
               PROVE  \E b \in Actors : RemovesHandle(b, z)'
    OBVIOUS
  <2>1. StaleHandle(z) \/ \E b \in Actors : RemovesHandle(b, z)'
    BY <1>1 DEF Create
  <2>2. \A b \in Actors : RemovesHandle(b, z) => RemovesHandle(b, z)'
    BY <1>1 DEF Create
  <2> QED BY <2>1, <2>2
<1>2. ASSUME NEW t \in Threads, ArmRegister(t) PROVE StaleHandleGoes'
  <2> SUFFICES ASSUME NEW z \in States, StaleHandle(z)'
               PROVE  \E b \in Actors : RemovesHandle(b, z)'
    OBVIOUS
  <2>1. StaleHandle(z) \/ \E b \in Actors : RemovesHandle(b, z)'
    BY <1>2 DEF ArmRegister
  <2>2. \A b \in Actors : RemovesHandle(b, z) => RemovesHandle(b, z)'
    BY <1>2 DEF ArmRegister
  <2> QED BY <2>1, <2>2
<1>3. ASSUME NEW t \in Threads, ArmFails(t) PROVE StaleHandleGoes'
  <2> SUFFICES ASSUME NEW z \in States, StaleHandle(z)'
               PROVE  \E b \in Actors : RemovesHandle(b, z)'
    OBVIOUS
  <2>1. StaleHandle(z) \/ \E b \in Actors : RemovesHandle(b, z)'
    BY <1>3 DEF ArmFails
  <2>2. \A b \in Actors : RemovesHandle(b, z) => RemovesHandle(b, z)'
    BY <1>3 DEF ArmFails
  <2> QED BY <2>1, <2>2
<1>4. ASSUME NEW t \in Threads, ArmStore(t) PROVE StaleHandleGoes'
  <2> SUFFICES ASSUME NEW z \in States, StaleHandle(z)'
               PROVE  \E b \in Actors : RemovesHandle(b, z)'
    OBVIOUS
  <2>1. StaleHandle(z) \/ \E b \in Actors : RemovesHandle(b, z)'
    BY <1>4 DEF ArmStore
  <2>2. \A b \in Actors : RemovesHandle(b, z) => RemovesHandle(b, z)'
    BY <1>4 DEF ArmStore
  <2> QED BY <2>1, <2>2
<1>5. ASSUME NEW t \in Threads, NEW s \in States, Share(t, s)
      PROVE StaleHandleGoes'
  <2> SUFFICES ASSUME NEW z \in States, StaleHandle(z)'
               PROVE  \E b \in Actors : RemovesHandle(b, z)'
    OBVIOUS
  <2>1. StaleHandle(z) \/ \E b \in Actors : RemovesHandle(b, z)'
    BY <1>5 DEF Share
  <2>2. \A b \in Actors : RemovesHandle(b, z) => RemovesHandle(b, z)'
    BY <1>5 DEF Share
  <2> QED BY <2>1, <2>2
<1>6. ASSUME NEW t \in Threads, Cancel(t) PROVE StaleHandleGoes'
  <2> SUFFICES ASSUME NEW z \in States, StaleHandle(z)'
               PROVE  \E b \in Actors : RemovesHandle(b, z)'
    OBVIOUS
  <2>1. StaleHandle(z) \/ \E b \in Actors : RemovesHandle(b, z)'
    BY <1>6 DEF Cancel, StartClaim
  <2>2. \A b \in Actors : RemovesHandle(b, z) => RemovesHandle(b, z)'
    BY <1>6 DEF Cancel, StartClaim
  <2> QED BY <2>1, <2>2
<1>7. ASSUME NEW t \in Threads, Poll(t) PROVE StaleHandleGoes'
  <2> SUFFICES ASSUME NEW z \in States, StaleHandle(z)'
               PROVE  \E b \in Actors : RemovesHandle(b, z)'
    OBVIOUS
  <2>1. StaleHandle(z) \/ \E b \in Actors : RemovesHandle(b, z)'
    BY <1>7 DEF Poll, StartClaim
  <2>2. \A b \in Actors : RemovesHandle(b, z) => RemovesHandle(b, z)'
    BY <1>7 DEF Poll, StartClaim
  <2> QED BY <2>1, <2>2
<1>8. ASSUME NEW t \in Threads, Wait(t) PROVE StaleHandleGoes'
  <2> SUFFICES ASSUME NEW z \in States, StaleHandle(z)'
               PROVE  \E b \in Actors : RemovesHandle(b, z)'
    OBVIOUS
  <2>1. StaleHandle(z) \/ \E b \in Actors : RemovesHandle(b, z)'
    BY <1>8 DEF Wait
  <2>2. \A b \in Actors : RemovesHandle(b, z) => RemovesHandle(b, z)'
    BY <1>8 DEF Wait
  <2> QED BY <2>1, <2>2
<1>9. ASSUME NEW t \in Threads, StartRegister(t) PROVE StaleHandleGoes'
  <2> SUFFICES ASSUME NEW z \in States, StaleHandle(z)'
               PROVE  \E b \in Actors : RemovesHandle(b, z)'
    OBVIOUS
  <2>1. StaleHandle(z) \/ \E b \in Actors : RemovesHandle(b, z)'
    BY <1>9 DEF StartRegister
  <2>2. \A b \in Actors : RemovesHandle(b, z) => RemovesHandle(b, z)'
    BY <1>9 DEF StartRegister
  <2> QED BY <2>1, <2>2
<1>10. ASSUME NEW t \in Threads, DestroyRegistration(t) PROVE StaleHandleGoes'
  <2> SUFFICES ASSUME NEW z \in States, StaleHandle(z)'
               PROVE  \E b \in Actors : RemovesHandle(b, z)'
    OBVIOUS
  <2>1. StaleHandle(z) \/ \E b \in Actors : RemovesHandle(b, z)'
    BY <1>10 DEF DestroyRegistration
  <2>2. \A b \in Actors : RemovesHandle(b, z) => RemovesHandle(b, z)'
    BY <1>10 DEF DestroyRegistration
  <2> QED BY <2>1, <2>2
<1>11. ASSUME NEW t \in Threads, DestroyInline(t) PROVE StaleHandleGoes'
  <2> SUFFICES ASSUME NEW z \in States, StaleHandle(z)'
               PROVE  \E b \in Actors : RemovesHandle(b, z)'
    OBVIOUS
  <2>1. StaleHandle(z) \/ \E b \in Actors : RemovesHandle(b, z)'
    BY <1>11 DEF DestroyInline
  <2>2. \A b \in Actors : RemovesHandle(b, z) => RemovesHandle(b, z)'
    BY <1>11 DEF DestroyInline
  <2> QED BY <2>1, <2>2
<1>12. ASSUME NEW t \in Threads, WaitTest(t) PROVE StaleHandleGoes'
  <2> SUFFICES ASSUME NEW z \in States, StaleHandle(z)'
               PROVE  \E b \in Actors : RemovesHandle(b, z)'
    OBVIOUS
  <2>1. StaleHandle(z) \/ \E b \in Actors : RemovesHandle(b, z)'
    BY <1>12 DEF WaitTest
  <2>2. \A b \in Actors : RemovesHandle(b, z) => RemovesHandle(b, z)'
    BY <1>12 DEF WaitTest
  <2> QED BY <2>1, <2>2
<1>13. ASSUME NEW t \in Threads, WaitLock(t) PROVE StaleHandleGoes'
  <2> SUFFICES ASSUME NEW z \in States, StaleHandle(z)'
               PROVE  \E b \in Actors : RemovesHandle(b, z)'
    OBVIOUS
  <2>1. StaleHandle(z) \/ \E b \in Actors : RemovesHandle(b, z)'
    BY <1>13 DEF WaitLock
  <2>2. \A b \in Actors : RemovesHandle(b, z) => RemovesHandle(b, z)'
    BY <1>13 DEF WaitLock
  <2> QED BY <2>1, <2>2
<1>14. ASSUME NEW t \in Threads, RegisterStored(t) PROVE StaleHandleGoes'
  <2> SUFFICES ASSUME NEW z \in States, StaleHandle(z)'
               PROVE  \E b \in Actors : RemovesHandle(b, z)'
    OBVIOUS
  <2>1. StaleHandle(z) \/ \E b \in Actors : RemovesHandle(b, z)'
    BY <1>14 DEF RegisterStored
  <2>2. \A b \in Actors : RemovesHandle(b, z) => RemovesHandle(b, z)'
    BY <1>14 DEF RegisterStored
  <2> QED BY <2>1, <2>2
<1>15. ASSUME NEW t \in Threads, RegisterInline(t) PROVE StaleHandleGoes'
  <2> SUFFICES ASSUME NEW z \in States, StaleHandle(z)'
               PROVE  \E b \in Actors : RemovesHandle(b, z)'
    OBVIOUS
  <2>1. StaleHandle(z) \/ \E b \in Actors : RemovesHandle(b, z)'
    BY <1>15 DEF RegisterInline
  <2>2. \A b \in Actors : RemovesHandle(b, z) => RemovesHandle(b, z)'
    BY <1>15 DEF RegisterInline
  <2> QED BY <2>1, <2>2
<1>16. ASSUME NEW t \in Threads, Unregister(t) PROVE StaleHandleGoes'
  <2> SUFFICES ASSUME NEW z \in States, StaleHandle(z)'
               PROVE  \E b \in Actors : RemovesHandle(b, z)'
    OBVIOUS
  <2>1. StaleHandle(z) \/ \E b \in Actors : RemovesHandle(b, z)'
    BY <1>16 DEF Unregister
  <2>2. \A b \in Actors : RemovesHandle(b, z) => RemovesHandle(b, z)'
    BY <1>16 DEF Unregister
  <2> QED BY <2>1, <2>2
<1>17. ASSUME NEW a \in Actors, NotifyWaiters(a) PROVE StaleHandleGoes'
  <2> SUFFICES ASSUME NEW z \in States, StaleHandle(z)'
               PROVE  \E b \in Actors : RemovesHandle(b, z)'
    OBVIOUS
  <2>1. StaleHandle(z) \/ \E b \in Actors : RemovesHandle(b, z)'
    BY <1>17 DEF NotifyWaiters
  <2>2. \A b \in Actors : RemovesHandle(b, z) => RemovesHandle(b, z)'
    BY <1>17 DEF NotifyWaiters
  <2> QED BY <2>1, <2>2
<1>18. ASSUME NEW a \in Actors, CallBack(a) PROVE StaleHandleGoes'
  <2> SUFFICES ASSUME NEW z \in States, StaleHandle(z)'
               PROVE  \E b \in Actors : RemovesHandle(b, z)'
    OBVIOUS
  <2>1. StaleHandle(z) \/ \E b \in Actors : RemovesHandle(b, z)'
    BY <1>18 DEF CallBack
  <2>2. \A b \in Actors : RemovesHandle(b, z) => RemovesHandle(b, z)'
    BY <1>18 DEF CallBack
  <2> QED BY <2>1, <2>2
<1>19. ASSUME NEW a \in Actors, CallbackReturns(a) PROVE StaleHandleGoes'
  <2> SUFFICES ASSUME NEW z \in States, StaleHandle(z)'
               PROVE  \E b \in Actors : RemovesHandle(b, z)'
    OBVIOUS
  <2>1. StaleHandle(z) \/ \E b \in Actors : RemovesHandle(b, z)'
    BY <1>19 DEF CallbackReturns
  <2>2. \A b \in Actors : RemovesHandle(b, z) => RemovesHandle(b, z)'
    BY <1>19 DEF CallbackReturns
  <2> QED BY <2>1, <2>2
<1>20. ASSUME NEW a \in Actors, ClaimReturns(a) PROVE StaleHandleGoes'
  <2> SUFFICES ASSUME NEW z \in States, StaleHandle(z)'
               PROVE  \E b \in Actors : RemovesHandle(b, z)'
    OBVIOUS
  <2>1. StaleHandle(z) \/ \E b \in Actors : RemovesHandle(b, z)'
    BY <1>20 DEF ClaimReturns, AfterClaim
  <2>2. \A b \in Actors : RemovesHandle(b, z) => RemovesHandle(b, z)'
    BY <1>20 DEF ClaimReturns, AfterClaim
  <2> QED BY <2>1, <2>2
<1>21. ASSUME NEW a \in Actors, ReleaseWaiters(a) PROVE StaleHandleGoes'
  <2> SUFFICES ASSUME NEW z \in States, StaleHandle(z)'
               PROVE  \E b \in Actors : RemovesHandle(b, z)'
    OBVIOUS
  <2>1. StaleHandle(z) \/ \E b \in Actors : RemovesHandle(b, z)'
    BY <1>21 DEF ReleaseWaiters
  <2>2. \A b \in Actors : RemovesHandle(b, z) => RemovesHandle(b, z)'
    BY <1>21 DEF ReleaseWaiters
  <2> QED BY <2>1, <2>2
<1>22. ASSUME NEW a \in Actors, LockCallbacks(a) PROVE StaleHandleGoes'
  <2> SUFFICES ASSUME NEW z \in States, StaleHandle(z)'
               PROVE  \E b \in Actors : RemovesHandle(b, z)'
    OBVIOUS
  <2>1. StaleHandle(z) \/ \E b \in Actors : RemovesHandle(b, z)'
    BY <1>22 DEF LockCallbacks
  <2>2. \A b \in Actors : RemovesHandle(b, z) => RemovesHandle(b, z)'
    BY <1>22 DEF LockCallbacks
  <2> QED BY <2>1, <2>2
<1>23. ASSUME Collect PROVE StaleHandleGoes'
  <2> SUFFICES ASSUME NEW z \in States, StaleHandle(z)'
               PROVE  \E b \in Actors : RemovesHandle(b, z)'
    OBVIOUS
  <2>1. StaleHandle(z) \/ \E b \in Actors : RemovesHandle(b, z)'
    BY <1>23 DEF Collect, Collected
  <2>2. \A b \in Actors : RemovesHandle(b, z) => RemovesHandle(b, z)'
    BY <1>23 DEF Collect, Collected
  <2> QED BY <2>1, <2>2
<1>24. ASSUME CollectedAll PROVE StaleHandleGoes'
  <2> SUFFICES ASSUME NEW z \in States, StaleHandle(z)'
               PROVE  \E b \in Actors : RemovesHandle(b, z)'
    OBVIOUS
  <2>1. StaleHandle(z) \/ \E b \in Actors : RemovesHandle(b, z)'
    BY <1>24 DEF CollectedAll
  <2>2. \A b \in Actors : RemovesHandle(b, z) => RemovesHandle(b, z)'
    BY <1>24 DEF CollectedAll
  <2> QED BY <2>1, <2>2
<1>25. ASSUME Sleep PROVE StaleHandleGoes'
  <2> SUFFICES ASSUME NEW z \in States, StaleHandle(z)'
               PROVE  \E b \in Actors : RemovesHandle(b, z)'
    OBVIOUS
  <2>1. StaleHandle(z) \/ \E b \in Actors : RemovesHandle(b, z)'
    BY <1>25 DEF Sleep
  <2>2. \A b \in Actors : RemovesHandle(b, z) => RemovesHandle(b, z)'
    BY <1>25 DEF Sleep
  <2> QED BY <2>1, <2>2
<1>26. ASSUME TimeOut PROVE StaleHandleGoes'
  <2> SUFFICES ASSUME NEW z \in States, StaleHandle(z)'
               PROVE  \E b \in Actors : RemovesHandle(b, z)'
    OBVIOUS
  <2>1. StaleHandle(z) \/ \E b \in Actors : RemovesHandle(b, z)'
    BY <1>26 DEF TimeOut
  <2>2. \A b \in Actors : RemovesHandle(b, z) => RemovesHandle(b, z)'
    BY <1>26 DEF TimeOut
  <2> QED BY <2>1, <2>2
<1>27. ASSUME FiredAll PROVE StaleHandleGoes'
  <2> SUFFICES ASSUME NEW z \in States, StaleHandle(z)'
               PROVE  \E b \in Actors : RemovesHandle(b, z)'
    OBVIOUS
  <2>1. StaleHandle(z) \/ \E b \in Actors : RemovesHandle(b, z)'
    BY <1>27 DEF FiredAll
  <2>2. \A b \in Actors : RemovesHandle(b, z) => RemovesHandle(b, z)'
    BY <1>27 DEF FiredAll
  <2> QED BY <2>1, <2>2
<1>28. ASSUME Scan PROVE StaleHandleGoes'
  <2> SUFFICES ASSUME NEW z \in States, StaleHandle(z)'
               PROVE  \E b \in Actors : RemovesHandle(b, z)'
    OBVIOUS
  <2>1. StaleHandle(z) \/ \E b \in Actors : RemovesHandle(b, z)'
    BY <1>28 DEF Scan
  <2>2. \A b \in Actors : RemovesHandle(b, z) => RemovesHandle(b, z)'
    BY <1>28 DEF Scan
  <2> QED BY <2>1, <2>2
<1>29. ASSUME Tick PROVE StaleHandleGoes'
  <2> SUFFICES ASSUME NEW z \in States, StaleHandle(z)'
               PROVE  \E b \in Actors : RemovesHandle(b, z)'
    OBVIOUS
  <2>1. StaleHandle(z) \/ \E b \in Actors : RemovesHandle(b, z)'
    BY <1>29 DEF Tick
  <2>2. \A b \in Actors : RemovesHandle(b, z) => RemovesHandle(b, z)'
    BY <1>29 DEF Tick
  <2> QED BY <2>1, <2>2
<1> HIDE ActorAssumption DEF At, Goto, StaleHandleGoes, RemovesHandle,
    Working, StaleHandle, References, Positions, EntriesFollowed,
    NoStaleEntry, OwnersAgree, OwnedAreAlive, DestroyersAreLast, Destroying,
    PurposeKnown, AtWork, ArmingComesFirst, DisarmPcs, EntriesTimed,
    HandlesFollow, NoHandle, SettlesHandle, StaleEntryGoes, StaleEntry,
    RemovesEntry, dataVars, tokenVars, lifeVars, cbVars, serviceVars, runVars,
    callVars, watchVars, vars, TypeOK, Actors, ClaimPcs
<1>30. ASSUME NEW t \in Threads, ArmNotify(t) PROVE StaleHandleGoes'
  <2>1. CASE pc[Watchdog] = "asleep"
    <3> SUFFICES ASSUME NEW s \in States, StaleHandle(s)' PROVE \E b \in Actors : RemovesHandle(b, s)'
      BY DEF StaleHandleGoes
    <3>1. StaleHandle(s) \/ \E b \in Actors : RemovesHandle(b, s)'
      BY ActorAssumption, <1>30, <2>1
        DEF ArmNotify, WakeWatchdog, StaleHandleGoes, RemovesHandle, Working,
            StaleHandle, References, Positions, EntriesFollowed, NoStaleEntry,
            OwnersAgree, OwnedAreAlive, DestroyersAreLast, Destroying,
            PurposeKnown, AtWork, ArmingComesFirst, DisarmPcs, EntriesTimed,
            HandlesFollow, NoHandle, SettlesHandle, StaleEntryGoes,
            StaleEntry, RemovesEntry, dataVars, tokenVars, lifeVars, cbVars,
            serviceVars, runVars, callVars, watchVars, TypeOK, Actors,
            ClaimPcs
    <3>2. \A b \in Actors : RemovesHandle(b, s) => RemovesHandle(b, s)'
      BY ActorAssumption, <1>30, <2>1
        DEF ArmNotify, WakeWatchdog, StaleHandleGoes, RemovesHandle, Working,
            StaleHandle, References, Positions, EntriesFollowed, NoStaleEntry,
            OwnersAgree, OwnedAreAlive, DestroyersAreLast, Destroying,
            PurposeKnown, AtWork, ArmingComesFirst, DisarmPcs, EntriesTimed,
            HandlesFollow, NoHandle, SettlesHandle, StaleEntryGoes,
            StaleEntry, RemovesEntry, dataVars, tokenVars, lifeVars, cbVars,
            serviceVars, runVars, callVars, watchVars, TypeOK, Actors,
            ClaimPcs
    <3> QED BY <3>1, <3>2 DEF StaleHandleGoes, NoStaleEntry
  <2>2. CASE pc[Watchdog] # "asleep"
    <3> SUFFICES ASSUME NEW s \in States, StaleHandle(s)' PROVE \E b \in Actors : RemovesHandle(b, s)'
      BY DEF StaleHandleGoes
    <3>1. StaleHandle(s) \/ \E b \in Actors : RemovesHandle(b, s)'
      BY ActorAssumption, <1>30, <2>2
        DEF ArmNotify, WakeWatchdog, StaleHandleGoes, RemovesHandle, Working,
            StaleHandle, References, Positions, EntriesFollowed, NoStaleEntry,
            OwnersAgree, OwnedAreAlive, DestroyersAreLast, Destroying,
            PurposeKnown, AtWork, ArmingComesFirst, DisarmPcs, EntriesTimed,
            HandlesFollow, NoHandle, SettlesHandle, StaleEntryGoes,
            StaleEntry, RemovesEntry, dataVars, tokenVars, lifeVars, cbVars,
            serviceVars, runVars, callVars, watchVars, TypeOK, Actors,
            ClaimPcs
    <3>2. \A b \in Actors : RemovesHandle(b, s) => RemovesHandle(b, s)'
      BY ActorAssumption, <1>30, <2>2
        DEF ArmNotify, WakeWatchdog, StaleHandleGoes, RemovesHandle, Working,
            StaleHandle, References, Positions, EntriesFollowed, NoStaleEntry,
            OwnersAgree, OwnedAreAlive, DestroyersAreLast, Destroying,
            PurposeKnown, AtWork, ArmingComesFirst, DisarmPcs, EntriesTimed,
            HandlesFollow, NoHandle, SettlesHandle, StaleEntryGoes,
            StaleEntry, RemovesEntry, dataVars, tokenVars, lifeVars, cbVars,
            serviceVars, runVars, callVars, watchVars, TypeOK, Actors,
            ClaimPcs
    <3> QED BY <3>1, <3>2 DEF StaleHandleGoes, NoStaleEntry
  <2> QED BY <2>1, <2>2
<1>31. ASSUME NEW t \in Threads, ArmRecheck(t) PROVE StaleHandleGoes'
  <2>1. CASE reason[object[t]] = "none"
    <3> SUFFICES ASSUME NEW s \in States, StaleHandle(s)' PROVE \E b \in Actors : RemovesHandle(b, s)'
      BY DEF StaleHandleGoes
    <3>1. StaleHandle(s) \/ \E b \in Actors : RemovesHandle(b, s)'
      BY ActorAssumption, <1>31, <2>1
        DEF ArmRecheck, Goto, StaleHandleGoes, RemovesHandle, Working,
            StaleHandle, References, Positions, EntriesFollowed, NoStaleEntry,
            OwnersAgree, OwnedAreAlive, DestroyersAreLast, Destroying,
            PurposeKnown, AtWork, ArmingComesFirst, DisarmPcs, EntriesTimed,
            HandlesFollow, NoHandle, SettlesHandle, StaleEntryGoes,
            StaleEntry, RemovesEntry, tokenVars, lifeVars, cbVars,
            serviceVars, runVars, watchVars, TypeOK, Actors, ClaimPcs
    <3>2. \A b \in Actors : RemovesHandle(b, s) => RemovesHandle(b, s)'
      BY ActorAssumption, <1>31, <2>1
        DEF ArmRecheck, Goto, StaleHandleGoes, RemovesHandle, Working,
            StaleHandle, References, Positions, EntriesFollowed, NoStaleEntry,
            OwnersAgree, OwnedAreAlive, DestroyersAreLast, Destroying,
            PurposeKnown, AtWork, ArmingComesFirst, DisarmPcs, EntriesTimed,
            HandlesFollow, NoHandle, SettlesHandle, StaleEntryGoes,
            StaleEntry, RemovesEntry, tokenVars, lifeVars, cbVars,
            serviceVars, runVars, watchVars, TypeOK, Actors, ClaimPcs
    <3> QED BY <3>1, <3>2 DEF StaleHandleGoes, NoStaleEntry
  <2>2. CASE reason[object[t]] # "none"
    <3> SUFFICES ASSUME NEW s \in States, StaleHandle(s)' PROVE \E b \in Actors : RemovesHandle(b, s)'
      BY DEF StaleHandleGoes
    <3>1. StaleHandle(s) \/ \E b \in Actors : RemovesHandle(b, s)'
      BY ActorAssumption, <1>31, <2>2
        DEF ArmRecheck, Goto, StaleHandleGoes, RemovesHandle, Working,
            StaleHandle, References, Positions, EntriesFollowed, NoStaleEntry,
            OwnersAgree, OwnedAreAlive, DestroyersAreLast, Destroying,
            PurposeKnown, AtWork, ArmingComesFirst, DisarmPcs, EntriesTimed,
            HandlesFollow, NoHandle, SettlesHandle, StaleEntryGoes,
            StaleEntry, RemovesEntry, tokenVars, lifeVars, cbVars,
            serviceVars, runVars, watchVars, TypeOK, Actors, ClaimPcs
    <3>2. \A b \in Actors : RemovesHandle(b, s) => RemovesHandle(b, s)'
      BY ActorAssumption, <1>31, <2>2
        DEF ArmRecheck, Goto, StaleHandleGoes, RemovesHandle, Working,
            StaleHandle, References, Positions, EntriesFollowed, NoStaleEntry,
            OwnersAgree, OwnedAreAlive, DestroyersAreLast, Destroying,
            PurposeKnown, AtWork, ArmingComesFirst, DisarmPcs, EntriesTimed,
            HandlesFollow, NoHandle, SettlesHandle, StaleEntryGoes,
            StaleEntry, RemovesEntry, tokenVars, lifeVars, cbVars,
            serviceVars, runVars, watchVars, TypeOK, Actors, ClaimPcs
    <3> QED BY <3>1, <3>2 DEF StaleHandleGoes, NoStaleEntry
  <2> QED BY <2>1, <2>2
<1>32. ASSUME NEW t \in Threads, Drop(t) PROVE StaleHandleGoes'
  <2>1. t \in Actors
    BY DEF Actors
  <2> QED BY <1>32, <2>1, DropReleases, StaleHandleGoesReleased DEF References,
      Positions
<1>33. ASSUME NEW t \in Threads, WaitUnlock(t) PROVE StaleHandleGoes'
  <2>1. CASE pc[t] = "block"
    <3> SUFFICES ASSUME NEW s \in States, StaleHandle(s)' PROVE \E b \in Actors : RemovesHandle(b, s)'
      BY DEF StaleHandleGoes
    <3>1. StaleHandle(s) \/ \E b \in Actors : RemovesHandle(b, s)'
      BY ActorAssumption, <1>33, <2>1
        DEF WaitUnlock, Goto, StaleHandleGoes, RemovesHandle, Working,
            StaleHandle, References, Positions, EntriesFollowed, NoStaleEntry,
            OwnersAgree, OwnedAreAlive, DestroyersAreLast, Destroying,
            PurposeKnown, AtWork, ArmingComesFirst, DisarmPcs, EntriesTimed,
            HandlesFollow, NoHandle, SettlesHandle, StaleEntryGoes,
            StaleEntry, RemovesEntry, lifeVars, cbVars, serviceVars, runVars,
            callVars, watchVars, TypeOK, Actors, ClaimPcs
    <3>2. \A b \in Actors : RemovesHandle(b, s) => RemovesHandle(b, s)'
      BY ActorAssumption, <1>33, <2>1
        DEF WaitUnlock, Goto, StaleHandleGoes, RemovesHandle, Working,
            StaleHandle, References, Positions, EntriesFollowed, NoStaleEntry,
            OwnersAgree, OwnedAreAlive, DestroyersAreLast, Destroying,
            PurposeKnown, AtWork, ArmingComesFirst, DisarmPcs, EntriesTimed,
            HandlesFollow, NoHandle, SettlesHandle, StaleEntryGoes,
            StaleEntry, RemovesEntry, lifeVars, cbVars, serviceVars, runVars,
            callVars, watchVars, TypeOK, Actors, ClaimPcs
    <3> QED BY <3>1, <3>2 DEF StaleHandleGoes, NoStaleEntry
  <2>2. CASE pc[t] # "block"
    <3> SUFFICES ASSUME NEW s \in States, StaleHandle(s)' PROVE \E b \in Actors : RemovesHandle(b, s)'
      BY DEF StaleHandleGoes
    <3>1. StaleHandle(s) \/ \E b \in Actors : RemovesHandle(b, s)'
      BY ActorAssumption, <1>33, <2>2
        DEF WaitUnlock, Goto, StaleHandleGoes, RemovesHandle, Working,
            StaleHandle, References, Positions, EntriesFollowed, NoStaleEntry,
            OwnersAgree, OwnedAreAlive, DestroyersAreLast, Destroying,
            PurposeKnown, AtWork, ArmingComesFirst, DisarmPcs, EntriesTimed,
            HandlesFollow, NoHandle, SettlesHandle, StaleEntryGoes,
            StaleEntry, RemovesEntry, lifeVars, cbVars, serviceVars, runVars,
            callVars, watchVars, TypeOK, Actors, ClaimPcs
    <3>2. \A b \in Actors : RemovesHandle(b, s) => RemovesHandle(b, s)'
      BY ActorAssumption, <1>33, <2>2
        DEF WaitUnlock, Goto, StaleHandleGoes, RemovesHandle, Working,
            StaleHandle, References, Positions, EntriesFollowed, NoStaleEntry,
            OwnersAgree, OwnedAreAlive, DestroyersAreLast, Destroying,
            PurposeKnown, AtWork, ArmingComesFirst, DisarmPcs, EntriesTimed,
            HandlesFollow, NoHandle, SettlesHandle, StaleEntryGoes,
            StaleEntry, RemovesEntry, lifeVars, cbVars, serviceVars, runVars,
            callVars, watchVars, TypeOK, Actors, ClaimPcs
    <3> QED BY <3>1, <3>2 DEF StaleHandleGoes, NoStaleEntry
  <2> QED BY <2>1, <2>2
<1>34. ASSUME NEW a \in Actors, Disarm(a) PROVE StaleHandleGoes'
  <2>0. object[a] \in States
    BY <1>34, DisarmObject DEF Disarm, DisarmPcs
  <2>1. CASE timer[object[a]]
    <3> SUFFICES ASSUME NEW s \in States, StaleHandle(s)' PROVE \E b \in Actors : RemovesHandle(b, s)'
      BY DEF StaleHandleGoes
    <3>1. StaleHandle(s) \/ \E b \in Actors : RemovesHandle(b, s)'
      BY ActorAssumption, <1>34, <2>0, <2>1
        DEF Disarm, Goto, Disarmed, DisarmedPc, StaleHandleGoes,
            RemovesHandle, Working, StaleHandle, References, Positions,
            EntriesFollowed, NoStaleEntry, OwnersAgree, OwnedAreAlive,
            DestroyersAreLast, Destroying, PurposeKnown, AtWork,
            ArmingComesFirst, DisarmPcs, EntriesTimed, HandlesFollow,
            NoHandle, SettlesHandle, StaleEntryGoes, StaleEntry, RemovesEntry,
            cbVars, serviceVars, runVars, watchVars, TypeOK, Actors, ClaimPcs
    <3>2. \A b \in Actors : RemovesHandle(b, s) => RemovesHandle(b, s)'
      BY ActorAssumption, <1>34, <2>0, <2>1
        DEF Disarm, Goto, Disarmed, DisarmedPc, StaleHandleGoes,
            RemovesHandle, Working, StaleHandle, References, Positions,
            EntriesFollowed, NoStaleEntry, OwnersAgree, OwnedAreAlive,
            DestroyersAreLast, Destroying, PurposeKnown, AtWork,
            ArmingComesFirst, DisarmPcs, EntriesTimed, HandlesFollow,
            NoHandle, SettlesHandle, StaleEntryGoes, StaleEntry, RemovesEntry,
            cbVars, serviceVars, runVars, watchVars, TypeOK, Actors, ClaimPcs
    <3> QED BY <3>1, <3>2 DEF StaleHandleGoes, NoStaleEntry
  <2>2. CASE ~timer[object[a]]
    BY <1>34, <2>0, <2>2, DisarmEnds, StaleHandleGoesEnded DEF Positions
  <2> QED BY <2>1, <2>2
<1>35. ASSUME NEW a \in Actors, NotifyService(a) PROVE StaleHandleGoes'
  <2>0. object[a] \in States
    BY <1>35, DisarmObject DEF NotifyService, DisarmPcs
  <2> QED BY <1>35, <2>0, NotifyEnds, StaleHandleGoesEnded DEF Positions
<1>36. ASSUME NEW a \in Actors, ClaimReason(a) PROVE StaleHandleGoes'
  <2>1. CASE reason[object[a]] = "none"
    <3> SUFFICES ASSUME NEW s \in States, StaleHandle(s)' PROVE \E b \in Actors : RemovesHandle(b, s)'
      BY DEF StaleHandleGoes
    <3>1. StaleHandle(s) \/ \E b \in Actors : RemovesHandle(b, s)'
      BY ActorAssumption, <1>36, <2>1
        DEF ClaimReason, Goto, AfterClaim, StaleHandleGoes, RemovesHandle,
            Working, StaleHandle, References, Positions, EntriesFollowed,
            NoStaleEntry, OwnersAgree, OwnedAreAlive, DestroyersAreLast,
            Destroying, PurposeKnown, AtWork, ArmingComesFirst, DisarmPcs,
            EntriesTimed, HandlesFollow, NoHandle, SettlesHandle,
            StaleEntryGoes, StaleEntry, RemovesEntry, lifeVars, cbVars,
            serviceVars, runVars, watchVars, TypeOK, Actors, ClaimPcs
    <3>2. \A b \in Actors : RemovesHandle(b, s) => RemovesHandle(b, s)'
      BY ActorAssumption, <1>36, <2>1
        DEF ClaimReason, Goto, AfterClaim, StaleHandleGoes, RemovesHandle,
            Working, StaleHandle, References, Positions, EntriesFollowed,
            NoStaleEntry, OwnersAgree, OwnedAreAlive, DestroyersAreLast,
            Destroying, PurposeKnown, AtWork, ArmingComesFirst, DisarmPcs,
            EntriesTimed, HandlesFollow, NoHandle, SettlesHandle,
            StaleEntryGoes, StaleEntry, RemovesEntry, lifeVars, cbVars,
            serviceVars, runVars, watchVars, TypeOK, Actors, ClaimPcs
    <3> QED BY <3>1, <3>2 DEF StaleHandleGoes, NoStaleEntry
  <2>2. CASE reason[object[a]] # "none"
    <3> SUFFICES ASSUME NEW s \in States, StaleHandle(s)' PROVE \E b \in Actors : RemovesHandle(b, s)'
      BY DEF StaleHandleGoes
    <3>1. StaleHandle(s) \/ \E b \in Actors : RemovesHandle(b, s)'
      BY ActorAssumption, <1>36, <2>2
        DEF ClaimReason, Goto, AfterClaim, StaleHandleGoes, RemovesHandle,
            Working, StaleHandle, References, Positions, EntriesFollowed,
            NoStaleEntry, OwnersAgree, OwnedAreAlive, DestroyersAreLast,
            Destroying, PurposeKnown, AtWork, ArmingComesFirst, DisarmPcs,
            EntriesTimed, HandlesFollow, NoHandle, SettlesHandle,
            StaleEntryGoes, StaleEntry, RemovesEntry, lifeVars, cbVars,
            serviceVars, runVars, watchVars, TypeOK, Actors, ClaimPcs
    <3>2. \A b \in Actors : RemovesHandle(b, s) => RemovesHandle(b, s)'
      BY ActorAssumption, <1>36, <2>2
        DEF ClaimReason, Goto, AfterClaim, StaleHandleGoes, RemovesHandle,
            Working, StaleHandle, References, Positions, EntriesFollowed,
            NoStaleEntry, OwnersAgree, OwnedAreAlive, DestroyersAreLast,
            Destroying, PurposeKnown, AtWork, ArmingComesFirst, DisarmPcs,
            EntriesTimed, HandlesFollow, NoHandle, SettlesHandle,
            StaleEntryGoes, StaleEntry, RemovesEntry, lifeVars, cbVars,
            serviceVars, runVars, watchVars, TypeOK, Actors, ClaimPcs
    <3> QED BY <3>1, <3>2 DEF StaleHandleGoes, NoStaleEntry
  <2> QED BY <2>1, <2>2
<1>37. ASSUME NEW a \in Actors, UnregisterEntry(a) PROVE StaleHandleGoes'
  <2>0. object[a] \in States
    BY <1>37, DisarmObject DEF UnregisterEntry, DisarmPcs
  <2>1. CASE object[a] \in schedule
    <3> SUFFICES ASSUME NEW s \in States, StaleHandle(s)' PROVE \E b \in Actors : RemovesHandle(b, s)'
      BY DEF StaleHandleGoes
    <3>1. StaleHandle(s) \/ \E b \in Actors : RemovesHandle(b, s)'
      BY ActorAssumption, <1>37, <2>0, <2>1
        DEF UnregisterEntry, Goto, StaleHandleGoes, RemovesHandle, Working,
            StaleHandle, References, Positions, EntriesFollowed, NoStaleEntry,
            OwnersAgree, OwnedAreAlive, DestroyersAreLast, Destroying,
            PurposeKnown, AtWork, ArmingComesFirst, DisarmPcs, EntriesTimed,
            HandlesFollow, NoHandle, SettlesHandle, StaleEntryGoes,
            StaleEntry, RemovesEntry, cbVars, runVars, TypeOK, Actors,
            ClaimPcs
    <3>2. \A b \in Actors : RemovesHandle(b, s) => RemovesHandle(b, s)'
      BY ActorAssumption, <1>37, <2>0, <2>1
        DEF UnregisterEntry, Goto, StaleHandleGoes, RemovesHandle, Working,
            StaleHandle, References, Positions, EntriesFollowed, NoStaleEntry,
            OwnersAgree, OwnedAreAlive, DestroyersAreLast, Destroying,
            PurposeKnown, AtWork, ArmingComesFirst, DisarmPcs, EntriesTimed,
            HandlesFollow, NoHandle, SettlesHandle, StaleEntryGoes,
            StaleEntry, RemovesEntry, cbVars, runVars, TypeOK, Actors,
            ClaimPcs
    <3> QED BY <3>1, <3>2 DEF StaleHandleGoes, NoStaleEntry
  <2>2. CASE object[a] \notin schedule
    BY <1>37, <2>0, <2>2, UnregisterEnds, StaleHandleGoesEnded DEF Positions
  <2> QED BY <2>1, <2>2
<1>38. ASSUME Fire PROVE StaleHandleGoes'
  <2>1. CASE owners[Head(due)] = {}
    <3> SUFFICES ASSUME NEW s \in States, StaleHandle(s)' PROVE \E b \in Actors : RemovesHandle(b, s)'
      BY DEF StaleHandleGoes
    <3>1. StaleHandle(s) \/ \E b \in Actors : RemovesHandle(b, s)'
      BY ActorAssumption, <1>38, <2>1
        DEF Fire, Goto, StaleHandleGoes, RemovesHandle, Working, StaleHandle,
            References, Positions, EntriesFollowed, NoStaleEntry, OwnersAgree,
            OwnedAreAlive, DestroyersAreLast, Destroying, PurposeKnown,
            AtWork, ArmingComesFirst, DisarmPcs, EntriesTimed, HandlesFollow,
            NoHandle, SettlesHandle, StaleEntryGoes, StaleEntry, RemovesEntry,
            cbVars, serviceVars, TypeOK, Actors, ClaimPcs
    <3>2. \A b \in Actors : RemovesHandle(b, s) => RemovesHandle(b, s)'
      BY ActorAssumption, <1>38, <2>1
        DEF Fire, Goto, StaleHandleGoes, RemovesHandle, Working, StaleHandle,
            References, Positions, EntriesFollowed, NoStaleEntry, OwnersAgree,
            OwnedAreAlive, DestroyersAreLast, Destroying, PurposeKnown,
            AtWork, ArmingComesFirst, DisarmPcs, EntriesTimed, HandlesFollow,
            NoHandle, SettlesHandle, StaleEntryGoes, StaleEntry, RemovesEntry,
            cbVars, serviceVars, TypeOK, Actors, ClaimPcs
    <3> QED BY <3>1, <3>2 DEF StaleHandleGoes, NoStaleEntry
  <2>2. CASE owners[Head(due)] # {}
    <3>1. Fired(Head(due))
      BY <1>38, <2>2, FireFires DEF Positions
    <3> QED BY <3>1, StaleHandleGoesFired DEF Fired
  <2> QED BY <2>1, <2>2
<1>39. ASSUME DropFired PROVE StaleHandleGoes'
  <2>1. Watchdog \in Actors
    BY DEF Actors
  <2> QED BY <1>39, <2>1, DropFiredReleases, StaleHandleGoesReleased DEF References,
      Positions
<1>40. ASSUME Woken PROVE StaleHandleGoes'
  <2>1. CASE changed \/ now >= until
    <3> SUFFICES ASSUME NEW s \in States, StaleHandle(s)' PROVE \E b \in Actors : RemovesHandle(b, s)'
      BY DEF StaleHandleGoes
    <3>1. StaleHandle(s) \/ \E b \in Actors : RemovesHandle(b, s)'
      BY ActorAssumption, <1>40, <2>1
        DEF Woken, Goto, StaleHandleGoes, RemovesHandle, Working, StaleHandle,
            References, Positions, EntriesFollowed, NoStaleEntry, OwnersAgree,
            OwnedAreAlive, DestroyersAreLast, Destroying, PurposeKnown,
            AtWork, ArmingComesFirst, DisarmPcs, EntriesTimed, HandlesFollow,
            NoHandle, SettlesHandle, StaleEntryGoes, StaleEntry, RemovesEntry,
            tokenVars, lifeVars, cbVars, serviceVars, callVars, TypeOK,
            Actors, ClaimPcs
    <3>2. \A b \in Actors : RemovesHandle(b, s) => RemovesHandle(b, s)'
      BY ActorAssumption, <1>40, <2>1
        DEF Woken, Goto, StaleHandleGoes, RemovesHandle, Working, StaleHandle,
            References, Positions, EntriesFollowed, NoStaleEntry, OwnersAgree,
            OwnedAreAlive, DestroyersAreLast, Destroying, PurposeKnown,
            AtWork, ArmingComesFirst, DisarmPcs, EntriesTimed, HandlesFollow,
            NoHandle, SettlesHandle, StaleEntryGoes, StaleEntry, RemovesEntry,
            tokenVars, lifeVars, cbVars, serviceVars, callVars, TypeOK,
            Actors, ClaimPcs
    <3> QED BY <3>1, <3>2 DEF StaleHandleGoes, NoStaleEntry
  <2>2. CASE ~(changed \/ now >= until)
    <3> SUFFICES ASSUME NEW s \in States, StaleHandle(s)' PROVE \E b \in Actors : RemovesHandle(b, s)'
      BY DEF StaleHandleGoes
    <3>1. StaleHandle(s) \/ \E b \in Actors : RemovesHandle(b, s)'
      BY ActorAssumption, <1>40, <2>2
        DEF Woken, Goto, StaleHandleGoes, RemovesHandle, Working, StaleHandle,
            References, Positions, EntriesFollowed, NoStaleEntry, OwnersAgree,
            OwnedAreAlive, DestroyersAreLast, Destroying, PurposeKnown,
            AtWork, ArmingComesFirst, DisarmPcs, EntriesTimed, HandlesFollow,
            NoHandle, SettlesHandle, StaleEntryGoes, StaleEntry, RemovesEntry,
            tokenVars, lifeVars, cbVars, serviceVars, callVars, TypeOK,
            Actors, ClaimPcs
    <3>2. \A b \in Actors : RemovesHandle(b, s) => RemovesHandle(b, s)'
      BY ActorAssumption, <1>40, <2>2
        DEF Woken, Goto, StaleHandleGoes, RemovesHandle, Working, StaleHandle,
            References, Positions, EntriesFollowed, NoStaleEntry, OwnersAgree,
            OwnedAreAlive, DestroyersAreLast, Destroying, PurposeKnown,
            AtWork, ArmingComesFirst, DisarmPcs, EntriesTimed, HandlesFollow,
            NoHandle, SettlesHandle, StaleEntryGoes, StaleEntry, RemovesEntry,
            tokenVars, lifeVars, cbVars, serviceVars, callVars, TypeOK,
            Actors, ClaimPcs
    <3> QED BY <3>1, <3>2 DEF StaleHandleGoes, NoStaleEntry
  <2> QED BY <2>1, <2>2
<1> QED
  BY <1>1, <1>2, <1>3, <1>4, <1>5, <1>6, <1>7, <1>8, <1>9, <1>10,
      <1>11, <1>12, <1>13, <1>14, <1>15, <1>16, <1>17, <1>18, <1>19, <1>20,
      <1>21, <1>22, <1>23, <1>24, <1>25, <1>26, <1>27, <1>28, <1>29, <1>30,
      <1>31, <1>32, <1>33, <1>34, <1>35, <1>36, <1>37, <1>38, <1>39, <1>40
  DEF Next, Optional, ThreadSteps, ThreadLocks, ClaimSteps, ClaimLocks,
      WatchdogSteps, WatchdogLocks, Actors

-----------------------------------------------------------------------------
(* The inductive invariant holds at first.                                 *)
LEMMA InitInv == Init => IInv
<1> SUFFICES ASSUME Init PROVE IInv
  OBVIOUS
<1>1. TypeOK
  <2>1. due \in Seq(States)
    BY DEF Init
  <2>2. now \in 0..MaxTime /\ scanned \in 0..MaxTime /\ until \in Nat
    BY TimeAssumption DEF Init
  <2>3. /\ pc \in [Actors -> ThreadPcs \cup WatchdogPcs]
        /\ pc[Watchdog] \in WatchdogPcs
        /\ \A t \in Threads : pc[t] \in ThreadPcs
    BY ActorAssumption DEF Init, Actors, ThreadPcs, WatchdogPcs
  <2>4. timer \in [States -> BOOLEAN] /\ changed \in BOOLEAN
    BY DEF Init
  <2>5. calls \in [Threads -> Nat]
    BY DEF Init
  <2> QED BY <2>1, <2>2, <2>3, <2>4, <2>5 DEF Init, TypeOK
<1>2. \A a \in Actors : pc[a] \in {"idle", "scan"} /\ object[a] = None /\ disarmFor[a] = "none"
  BY DEF Init
<1>3. References
  BY <1>2, ActorAssumption
    DEF Init, References, OwnersAgree, OwnedAreAlive, DestroyersAreLast,
        Destroying
<1>4. Positions
  BY <1>2, ActorAssumption
    DEF Init, Positions, PurposeKnown, AtWork, ArmingComesFirst, DisarmPcs,
        ClaimPcs, Actors
<1>5. MutexesHeld
  BY <1>2, ActorAssumption
    DEF Init, MutexesHeld, WaitMutexHeld, CbMutexHeld, RunningHeld, Actors
<1>6. WaitersSeen /\ NoLostWakeup
  BY DEF Init, WaitersSeen, NoLostWakeup, WaiterAt
<1>7. EntriesFollowed /\ NoStaleEntry
  BY DEF Init, EntriesFollowed, EntriesTimed, HandlesFollow, NoHandle,
      NoStaleEntry, StaleEntryGoes, StaleHandleGoes, StaleEntry, StaleHandle
<1>8. CallbackOwnerIsThere
  BY DEF Init, CallbackOwnerIsThere
<1>9. SleepsInTime /\ NeverOversleeps
  BY ActorAssumption DEF Init, SleepsInTime, NeverOversleeps, Actors
<1> QED BY <1>1, <1>3, <1>4, <1>5, <1>6, <1>7, <1>8, <1>9 DEF IInv

(* Every step keeps the inductive invariant.                               *)
LEMMA InvStep ==
    ASSUME IInv, Next
    PROVE  IInv'
<1>1. /\ TypeOK /\ References /\ Positions /\ MutexesHeld /\ WaitersSeen
      /\ EntriesFollowed /\ SleepsInTime /\ NoLostWakeup /\ NeverOversleeps
      /\ NoStaleEntry /\ CallbackOwnerIsThere
  BY DEF IInv
<1>2. /\ PurposeKnown /\ AtWork /\ EntriesTimed /\ WaitMutexHeld /\ CbMutexHeld
  BY <1>1 DEF Positions, EntriesFollowed, MutexesHeld
<1>3. TypeOK'
  BY <1>1, <1>2, TypeStep
<1>4. References'
  BY <1>1, OwnersAgreeStep, OwnedAreAliveStep, DestroyersAreLastStep DEF References
<1>5. Positions'
  BY <1>1, PurposeKnownStep, AtWorkStep, ArmingComesFirstStep DEF Positions
<1>6. MutexesHeld'
  BY <1>1, <1>2, WaitMutexHeldStep, CbMutexHeldStep, RunningHeldStep DEF MutexesHeld
<1>7. WaitersSeen' /\ NoLostWakeup'
  BY <1>1, <1>2, WaitersSeenStep, NoLostWakeupStep
<1>8. EntriesFollowed'
  BY <1>1, EntriesTimedStep, HandlesFollowStep DEF EntriesFollowed
<1>9. NoStaleEntry'
  BY <1>1, StaleEntryGoesStep, StaleHandleGoesStep DEF NoStaleEntry
<1>10. CallbackOwnerIsThere'
  BY <1>1, CallbackOwnerIsThereStep
<1>11. SleepsInTime' /\ NeverOversleeps'
  BY <1>1, SleepsInTimeStep, NeverOversleepsStep
<1> QED BY <1>3, <1>4, <1>5, <1>6, <1>7, <1>8, <1>9, <1>10, <1>11 DEF IInv

(* A stutter keeps it too.                                                 *)
LEMMA InvStutter ==
    ASSUME IInv, UNCHANGED vars
    PROVE  IInv'
<1> USE DEF vars, dataVars, tokenVars, lifeVars, cbVars, watchVars,
    serviceVars, runVars, callVars
<1>1. TypeOK'
  BY DEF IInv, TypeOK
<1>2. References'
  BY DEF IInv, References, OwnersAgree, OwnedAreAlive, DestroyersAreLast,
      Destroying
<1>3. Positions'
  BY DEF IInv, Positions, PurposeKnown, AtWork, ArmingComesFirst
<1>4. MutexesHeld'
  BY DEF IInv, MutexesHeld, WaitMutexHeld, CbMutexHeld, RunningHeld,
      RunsCallback, Working
<1>5. WaitersSeen' /\ NoLostWakeup'
  BY DEF IInv, WaitersSeen, NoLostWakeup, WaiterAt, BeforeRelease, Releasing
<1>6. EntriesFollowed'
  BY DEF IInv, EntriesFollowed, EntriesTimed, HandlesFollow, NoHandle,
      SettlesHandle, Working
<1>7. NoStaleEntry'
  BY DEF IInv, NoStaleEntry, StaleEntryGoes, StaleHandleGoes, StaleEntry,
      StaleHandle, RemovesEntry, RemovesHandle, Working
<1>8. CallbackOwnerIsThere'
  BY DEF IInv, CallbackOwnerIsThere
<1>9. SleepsInTime' /\ NeverOversleeps'
  BY DEF IInv, SleepsInTime, NeverOversleeps
<1> QED BY <1>1, <1>2, <1>3, <1>4, <1>5, <1>6, <1>7, <1>8, <1>9 DEF IInv

(* In every reachable state, for any number of threads and sources, the    *)
(* actors own what they work on, hold the mutexes of their critical        *)
(* sections, and whoever owes a wake-up, a handle or a removal is on the   *)
(* way to it.                                                              *)
THEOREM CancellationInvariant == Spec => []IInv
<1>1. IInv /\ [Next]_vars => IInv'
  BY InvStep, InvStutter
<1> QED BY InitInv, <1>1, PTL DEF Spec

(* Every variable keeps its type.                                          *)
THEOREM CancellationTypes == Spec => []TypeOK
<1>1. IInv => TypeOK
  BY DEF IInv
<1> QED BY CancellationInvariant, <1>1, PTL

(* Claim takes and leaves the wait mutex between its compare-exchange and  *)
(* notify_all: no thread that tested the reason before it sleeps through   *)
(* the notification.                                                       *)
THEOREM WakeupsArrive == Spec => []NoLostWakeup
<1>1. IInv => NoLostWakeup
  BY DEF IInv
<1> QED BY CancellationInvariant, <1>1, PTL

(* Run waits until the earliest entry and at most kMaximumWait, with the   *)
(* revision it read as predicate: it never sleeps past a deadline that was *)
(* registered, unless the thread that registered it is about to notify it. *)
THEOREM WatchdogNeverOversleeps == Spec => []NeverOversleeps
<1>1. IInv => NeverOversleeps
  BY DEF IInv
<1> QED BY CancellationInvariant, <1>1, PTL

(* ArmDeadline's second look at the reason, Claim's disarm and the         *)
(* destructor's between them leave no entry and no handle of a state that  *)
(* is claimed or gone, however they interleave with the watchdog.          *)
THEOREM StaleEntriesGo == Spec => []NoStaleEntry
<1>1. IInv => NoStaleEntry
  BY DEF IInv
<1> QED BY CancellationInvariant, <1>1, PTL

(* Unregister waits for the mutex under which the callbacks run, so no     *)
(* callback runs after its registration was destroyed.                     *)
THEOREM CallbacksOutliveNoOwner == Spec => []CallbackOwnerIsThere
<1>1. IInv => CallbackOwnerIsThere
  BY DEF IInv
<1> QED BY CancellationInvariant, <1>1, PTL

-----------------------------------------------------------------------------
(* The promise is kept.  Most steps show nothing of themselves; each of  *)
(* the others is the step of the promise that its caller was told of.      *)

(* A step of no concern to the callers: no reason, no call and no place    *)
(* that they see changes.                                                  *)
Quiet ==
    /\ UNCHANGED <<reason, calls, callbacks>>
    /\ \A t \in Threads :
        /\ Attached(t)' <=> Attached(t)
        /\ Waiting(t)' <=> Waiting(t)
        /\ Attached(t) \/ Waiting(t) => object'[t] = object[t]
    /\ \A a \in Actors : Claimed(a)' =>
        \/ Claimed(a) /\ object'[a] = object[a]
        \/ reason[object'[a]] # "none"
    /\ ClaimsHaveReasons'

(* Such a step keeps the invariant and stutters.                           *)
LEMMA QuietKeeps ==
    ASSUME PromiseInv, Quiet
    PROVE  PromiseInv' /\ UNCHANGED Promise!vars
<1>1. ClaimsStand' /\ ClaimsHaveReasons'
  BY DEF PromiseInv, ClaimsStand, Quiet
<1>2. CallsCounted'
  BY DEF PromiseInv, CallsCounted, Quiet
<1>3. AttachedTo' = AttachedTo /\ WaitingFor' = WaitingFor
  BY DEF Quiet, AttachedTo, WaitingFor
<1> QED
  BY <1>1, <1>2, <1>3 DEF PromiseInv, Promise!vars, Quiet

(* Giving up a reference is quiet.                                         *)
LEMMA ReleaseIsQuiet ==
    ASSUME TypeOK, ClaimsHaveReasons, NEW a \in Actors, Released(a),
           stopping' = stopping
    PROVE  Quiet
<1>1. \A b \in Actors \ {a} :
        object'[b] = object[b] /\ disarmFor'[b] = disarmFor[b] /\ pc'[b] = pc[b]
  BY DEF Released
<1>2. /\ reason' = reason /\ calls' = calls /\ callbacks' = callbacks
      /\ pc[a] \in {"drop", "idle"} /\ pc'[a] \in {"disarm", "fire", "idle"}
      /\ disarmFor'[a] \in {"destroy", "none"}
  BY DEF Released
<1>3. \A t \in Threads : t \in Actors
  BY DEF Actors
<1>4. \A t \in Threads :
        /\ Attached(t)' <=> Attached(t)
        /\ Waiting(t)' <=> Waiting(t)
        /\ Attached(t) \/ Waiting(t) => object'[t] = object[t]
  BY <1>1, <1>2, <1>3 DEF Attached, Waiting
<1>5. \A b \in Actors : Claimed(b)' => Claimed(b) /\ object'[b] = object[b]
  BY <1>1, <1>2 DEF Claimed
<1>6. ClaimsHaveReasons'
  BY <1>1, <1>2 DEF ClaimsHaveReasons
<1> QED BY <1>2, <1>4, <1>5, <1>6 DEF Quiet

(* The end of a disarm is quiet too, unless it is the destructor's.        *)
LEMMA EndIsQuiet ==
    ASSUME TypeOK, References, Positions, PromiseInv, NEW a \in Actors,
           Ended(a), object[a] \in States, stopping' = stopping,
           disarmFor[a] # "destroy"
    PROVE  Quiet
<1>1. \A b \in Actors \ {a} :
        /\ object'[b] = object[b] /\ disarmFor'[b] = disarmFor[b]
        /\ pc'[b] = pc[b] \/ (pc[b] = "asleep" /\ pc'[b] = "woken")
  BY DEF Ended
<1>2. /\ reason' = reason /\ calls' = calls /\ callbacks' = callbacks
      /\ object'[a] = object[a] /\ disarmFor'[a] = "none"
      /\ pc[a] \in {"disarm", "unregister", "notifyService"}
      /\ \/ disarmFor[a] = "claim" /\ pc'[a] = "releaseWaiters"
         \/ pc'[a] = "idle"
  BY DEF Ended, DisarmPcs
<1>3. \A t \in Threads : t \in Actors
  BY DEF Actors
<1>4. \A t \in Threads :
        /\ Attached(t)' <=> Attached(t)
        /\ Waiting(t)' <=> Waiting(t)
        /\ Attached(t) \/ Waiting(t) => object'[t] = object[t]
  BY <1>1, <1>2, <1>3 DEF Attached, Waiting
<1>5. \A b \in Actors : Claimed(b)' => Claimed(b) /\ object'[b] = object[b]
  BY <1>1, <1>2 DEF Claimed
<1>6. ClaimsHaveReasons'
  BY <1>1, <1>2 DEF PromiseInv, ClaimsHaveReasons
<1> QED BY <1>2, <1>4, <1>5, <1>6 DEF Quiet

(* The destructor takes a source that stopped away; what was not stopped   *)
(* its callers cannot tell from a new one.                                 *)
LEMMA EndRenews ==
    ASSUME TypeOK, References, Positions, PromiseInv, NEW a \in Actors,
           Ended(a), object[a] \in States, stopping' = stopping,
           disarmFor[a] = "destroy"
    PROVE  PromiseInv' /\ [Promise!Next]_(Promise!vars)
<1> DEFINE s == object[a]
<1>1. \A b \in Actors : object[b] = s => b = a
  BY DEF References, DestroyersAreLast, Destroying
<1>2. \A b \in Actors \ {a} :
        /\ object'[b] = object[b] /\ disarmFor'[b] = disarmFor[b]
        /\ pc'[b] = pc[b] \/ (pc[b] = "asleep" /\ pc'[b] = "woken")
  BY DEF Ended
<1>3. /\ reason' = [reason EXCEPT ![s] = "none"]
      /\ calls' = calls /\ callbacks' = callbacks
      /\ disarmFor'[a] = "none" /\ pc'[a] \in {"fire", "idle"}
      /\ pc[a] \in {"disarm", "unregister", "notifyService"}
  BY DEF Ended, DisarmPcs
<1>4. \A t \in Threads : t \in Actors
  BY DEF Actors
<1>5. \A t \in Threads :
        /\ Attached(t)' <=> Attached(t)
        /\ Waiting(t)' <=> Waiting(t)
        /\ Attached(t) \/ Waiting(t) => object'[t] = object[t] /\ object[t] # s
  BY <1>1, <1>2, <1>3, <1>4 DEF Attached, Waiting
<1>6. AttachedTo' = AttachedTo /\ WaitingFor' = WaitingFor
  BY <1>5 DEF AttachedTo, WaitingFor
<1>7. PromiseInv'
  <2>1. ClaimsStand'
    <3> SUFFICES ASSUME NEW b \in Actors, Claimed(b)' PROVE reason'[object'[b]] # "none"
      BY DEF ClaimsStand
    <3>1. b # a
      BY <1>3 DEF Claimed
    <3>2. Claimed(b) /\ object'[b] = object[b] /\ object[b] # s
      BY <1>1, <1>2, <3>1 DEF Claimed
    <3> QED BY <1>3, <3>2 DEF PromiseInv, ClaimsStand, TypeOK
  <2>2. ClaimsHaveReasons'
    BY <1>2, <1>3 DEF PromiseInv, ClaimsHaveReasons
  <2>3. CallsCounted'
    BY <1>3, <1>5 DEF PromiseInv, CallsCounted
  <2> QED BY <2>1, <2>2, <2>3 DEF PromiseInv
<1>8. CASE reason[s] = "none"
  <2>1. reason' = reason
    BY <1>3, <1>8 DEF TypeOK
  <2> QED BY <1>3, <1>6, <1>7, <2>1 DEF Promise!vars
<1>9. CASE reason[s] # "none"
  <2>1. \A t \in Threads : AttachedTo[t] # s /\ WaitingFor[t] # s
    BY <1>5, ActorAssumption DEF AttachedTo, WaitingFor
  <2>2. Promise!Renew(s)
    BY <1>3, <1>6, <1>9, <2>1 DEF Promise!Renew, Promise!Stopped
  <2> QED BY <1>7, <2>2 DEF Promise!Next
<1> QED BY <1>8, <1>9

(* Either way the promise is kept.                                         *)
LEMMA EndRefines ==
    ASSUME TypeOK, References, Positions, PromiseInv, NEW a \in Actors,
           Ended(a), object[a] \in States, stopping' = stopping
    PROVE  PromiseInv' /\ [Promise!Next]_(Promise!vars)
BY EndIsQuiet, EndRenews, QuietKeeps

(* What a call on a thread, a claim or the watchdog does out of sight.     *)
QuietCall(t) ==
    \/ \E s \in States : Share(t, s) \/ \E d \in Deadlines : Create(t, s, d)
    \/ ArmRegister(t) \/ ArmFails(t) \/ ArmStore(t) \/ Cancel(t) \/ Poll(t)
    \/ StartRegister(t) \/ DestroyRegistration(t) \/ WaitLock(t)
    \/ WaitTest(t) \/ ArmNotify(t) \/ ArmRecheck(t) \/ Drop(t)

QuietClaim(a) ==
    \/ NotifyWaiters(a) \/ CallbackReturns(a) \/ ClaimReturns(a)
    \/ ReleaseWaiters(a) \/ LockCallbacks(a)

QuietWatch ==
    \/ Collect \/ CollectedAll \/ Sleep \/ TimeOut \/ FiredAll \/ Scan
    \/ Woken \/ Fire \/ Tick \/ DropFired

(* They are quiet indeed.                                                  *)
LEMMA QuietSteps ==
    ASSUME TypeOK, References, Positions, ClaimsHaveReasons,
           \/ \E t \in Threads : QuietCall(t)
           \/ \E a \in Actors : QuietClaim(a)
           \/ QuietWatch
    PROVE  Quiet
<1> USE ActorAssumption
    DEF At, Goto, Quiet, Attached, Waiting, Claimed, ClaimsHaveReasons, References,
        OwnersAgree, DestroyersAreLast, Destroying, Positions, PurposeKnown,
        AtWork, DisarmPcs, ClaimPcs, dataVars, tokenVars, lifeVars, cbVars,
        serviceVars, runVars, callVars, watchVars, TypeOK, Actors
<1>1. ASSUME NEW t \in Threads, NEW s \in States, NEW d \in Deadlines,
             Create(t, s, d)
      PROVE  Quiet
  BY <1>1 DEF Create
<1>2. ASSUME NEW t \in Threads, ArmRegister(t)
      PROVE  Quiet
  BY <1>2 DEF ArmRegister
<1>3. ASSUME NEW t \in Threads, ArmFails(t)
      PROVE  Quiet
  BY <1>3 DEF ArmFails
<1>4. ASSUME NEW t \in Threads, ArmStore(t)
      PROVE  Quiet
  BY <1>4 DEF ArmStore
<1>5. ASSUME NEW t \in Threads, NEW s \in States, Share(t, s)
      PROVE  Quiet
  BY <1>5 DEF Share
<1>6. ASSUME NEW t \in Threads, Cancel(t)
      PROVE  Quiet
  BY <1>6 DEF Cancel, StartClaim
<1>7. ASSUME NEW t \in Threads, Poll(t)
      PROVE  Quiet
  BY <1>7 DEF Poll, StartClaim
<1>8. ASSUME NEW t \in Threads, StartRegister(t)
      PROVE  Quiet
  BY <1>8 DEF StartRegister
<1>9. ASSUME NEW t \in Threads, DestroyRegistration(t)
      PROVE  Quiet
  BY <1>9 DEF DestroyRegistration
<1>10. ASSUME NEW t \in Threads, WaitLock(t)
      PROVE  Quiet
  BY <1>10 DEF WaitLock
<1>11. ASSUME NEW t \in Threads, WaitTest(t)
      PROVE  Quiet
  BY <1>11 DEF WaitTest
<1>12. ASSUME NEW t \in Threads, ArmNotify(t)
      PROVE  Quiet
  BY <1>12 DEF ArmNotify, WakeWatchdog
<1>13. ASSUME NEW t \in Threads, ArmRecheck(t)
      PROVE  Quiet
  BY <1>13 DEF ArmRecheck
<1>14. ASSUME NEW a \in Actors, NotifyWaiters(a)
      PROVE  Quiet
  BY <1>14 DEF NotifyWaiters
<1>15. ASSUME NEW a \in Actors, CallbackReturns(a)
      PROVE  Quiet
  BY <1>15 DEF CallbackReturns
<1>16. ASSUME NEW a \in Actors, ClaimReturns(a)
      PROVE  Quiet
  BY <1>16 DEF ClaimReturns, AfterClaim
<1>17. ASSUME NEW a \in Actors, ReleaseWaiters(a)
      PROVE  Quiet
  BY <1>17 DEF ReleaseWaiters
<1>18. ASSUME NEW a \in Actors, LockCallbacks(a)
      PROVE  Quiet
  BY <1>18 DEF LockCallbacks
<1>19. ASSUME Collect
      PROVE  Quiet
  BY <1>19 DEF Collect
<1>20. ASSUME CollectedAll
      PROVE  Quiet
  BY <1>20 DEF CollectedAll
<1>21. ASSUME Sleep
      PROVE  Quiet
  BY <1>21 DEF Sleep
<1>22. ASSUME TimeOut
      PROVE  Quiet
  BY <1>22 DEF TimeOut
<1>23. ASSUME FiredAll
      PROVE  Quiet
  BY <1>23 DEF FiredAll
<1>24. ASSUME Scan
      PROVE  Quiet
  BY <1>24 DEF Scan
<1>25. ASSUME Woken
      PROVE  Quiet
  BY <1>25 DEF Woken
<1>26. ASSUME Tick
      PROVE  Quiet
  BY <1>26 DEF Tick
<1> HIDE ActorAssumption
    DEF At, Goto, Quiet, Attached, Waiting, Claimed, ClaimsHaveReasons, References,
        OwnersAgree, DestroyersAreLast, Destroying, Positions, PurposeKnown,
        AtWork, DisarmPcs, ClaimPcs, dataVars, tokenVars, lifeVars, cbVars,
        serviceVars, runVars, callVars, watchVars, TypeOK, Actors
<1>27. ASSUME NEW t \in Threads, Drop(t)
      PROVE  Quiet
  <2>1. Released(t) /\ t \in Actors
    BY <1>27, DropReleases DEF References, Positions, Actors
  <2>2. stopping' = stopping
    BY <1>27 DEF Drop
  <2> QED BY <2>1, <2>2, ReleaseIsQuiet
<1>28. ASSUME DropFired
      PROVE  Quiet
  <2>1. Released(Watchdog) /\ Watchdog \in Actors
    BY <1>28, DropFiredReleases DEF References, Positions, Actors
  <2>2. stopping' = stopping
    BY <1>28 DEF DropFired
  <2> QED BY <2>1, <2>2, ReleaseIsQuiet
<1>29. ASSUME Fire
      PROVE  Quiet
  <2>1. reason' = reason /\ calls' = calls /\ callbacks' = callbacks
    BY <1>29 DEF Fire, cbVars
  <2>2. CASE owners[Head(due)] = {}
    <3>1. pc' = pc /\ object' = object /\ disarmFor' = disarmFor /\ stopping' = stopping
      BY <1>29, <2>2 DEF Fire
    <3> QED BY <2>1, <3>1 DEF Quiet, Attached, Waiting, Claimed, ClaimsHaveReasons
  <2>3. CASE owners[Head(due)] # {}
    <3>1. Fired(Head(due))
      BY <1>29, <2>3, FireFires DEF Positions
    <3>2. stopping' = [stopping EXCEPT ![Watchdog] = "deadline"]
      BY <1>29, <2>3 DEF Fire
    <3>3. \A b \in Threads : object'[b] = object[b] /\ pc'[b] = pc[b]
      BY <3>1 DEF Fired
    <3>4. pc'[Watchdog] = "claim" /\ disarmFor' = disarmFor /\ disarmFor[Watchdog] = "none"
      BY <3>1 DEF Fired
    <3>5. \A t \in Threads :
            /\ Attached(t)' <=> Attached(t)
            /\ Waiting(t)' <=> Waiting(t)
      BY <3>3 DEF Attached, Waiting
    <3>6. \A a \in Actors : Claimed(a)' => Claimed(a) /\ object'[a] = object[a]
      BY <3>3, <3>4 DEF Claimed, Actors
    <3>7. ClaimsHaveReasons'
      BY <3>2, <3>3 DEF ClaimsHaveReasons, TypeOK, Actors
    <3> QED BY <2>1, <3>3, <3>5, <3>6, <3>7 DEF Quiet
  <2> QED BY <2>2, <2>3
<1> QED
  BY <1>1, <1>2, <1>3, <1>4, <1>5, <1>6, <1>7, <1>8, <1>9, <1>10, <1>11,
     <1>12, <1>13, <1>14, <1>15, <1>16, <1>17, <1>18, <1>19, <1>20, <1>21,
     <1>22, <1>23, <1>24, <1>25, <1>26, <1>27, <1>28, <1>29
  DEF QuietCall, QuietClaim, QuietWatch

(* DisarmDeadline, for whichever caller.                                   *)
LEMMA DisarmRefines ==
    ASSUME IInv, PromiseInv, NEW a \in Actors,
           Disarm(a) \/ NotifyService(a) \/ UnregisterEntry(a)
    PROVE  PromiseInv' /\ [Promise!Next]_(Promise!vars)
<1>1. TypeOK /\ References /\ Positions /\ PurposeKnown
  BY DEF IInv, Positions
<1>2. object[a] \in States
  BY <1>1, DisarmObject DEF Disarm, NotifyService, UnregisterEntry, DisarmPcs
<1>3. stopping' = stopping
  BY DEF Disarm, NotifyService, UnregisterEntry
<1>4. CASE Ended(a)
  BY <1>1, <1>2, <1>3, <1>4, EndRefines
<1>5. CASE Disarm(a) /\ timer[object[a]]
  <2>1. Quiet
    BY <1>1, <1>5, ActorAssumption
    DEF Disarm, Goto, Quiet, Attached, Waiting, Claimed, PromiseInv,
        ClaimsHaveReasons, TypeOK, Actors, cbVars
  <2> QED BY <2>1, QuietKeeps
<1>6. CASE UnregisterEntry(a) /\ object[a] \in schedule
  <2>1. Quiet
    BY <1>1, <1>6, ActorAssumption
    DEF UnregisterEntry, Goto, Quiet, Attached, Waiting, Claimed, PromiseInv,
        ClaimsHaveReasons, TypeOK, Actors, cbVars
  <2> QED BY <2>1, QuietKeeps
<1> QED
  BY <1>1, <1>2, <1>4, <1>5, <1>6, DisarmEnds, NotifyEnds, UnregisterEnds

(* The claim that takes effect stops the source.                           *)
LEMMA ClaimReasonRefines ==
    ASSUME IInv, PromiseInv, NEW a \in Actors, ClaimReason(a)
    PROVE  PromiseInv' /\ [Promise!Next]_(Promise!vars)
<1>1. TypeOK /\ References /\ Positions
  BY DEF IInv
<1>2. object[a] \in States /\ pc[a] = "claim"
  BY <1>1, ActorAssumption DEF ClaimReason, Positions, AtWork, TypeOK, Actors
<1>3. CASE reason[object[a]] = "none"
  <2>1. /\ reason' = [reason EXCEPT ![object[a]] = stopping[a]]
        /\ stopping[a] \in {"cancelled", "deadline"}
        /\ disarmFor' = [disarmFor EXCEPT ![a] = "claim"]
        /\ pc' = [pc EXCEPT ![a] = "disarm"] /\ object' = object
        /\ stopping' = [stopping EXCEPT ![a] = "none"]
        /\ callbacks' = callbacks /\ calls' = calls
    BY <1>1, <1>2, <1>3
    DEF ClaimReason, Goto, PromiseInv, ClaimsHaveReasons, TypeOK, cbVars
  <2>2. AttachedTo' = AttachedTo /\ WaitingFor' = WaitingFor
    BY <1>1, <1>2, <2>1
    DEF AttachedTo, WaitingFor, Attached, Waiting, TypeOK, Actors
  <2>3. Promise!Stop(object[a])
    BY <1>3, <2>1, <2>2 DEF Promise!Stop, Promise!Stopped
  <2>4. ClaimsStand'
    BY <1>1, <1>2, <2>1 DEF PromiseInv, ClaimsStand, Claimed, TypeOK
  <2>5. ClaimsHaveReasons' /\ CallsCounted'
    BY <1>1, <1>2, <2>1
    DEF PromiseInv, ClaimsHaveReasons, CallsCounted, Attached, TypeOK, Actors
  <2> QED BY <1>2, <2>3, <2>4, <2>5 DEF PromiseInv, Promise!Next
<1>4. CASE reason[object[a]] # "none"
  <2>1. /\ reason' = reason /\ callbacks' = callbacks /\ calls' = calls
        /\ disarmFor' = disarmFor /\ object' = object
        /\ pc' = [pc EXCEPT ![a] = AfterClaim(a)]
        /\ stopping' = [stopping EXCEPT ![a] = "none"]
    BY <1>4 DEF ClaimReason, Goto, cbVars
  <2>2. Quiet
    BY <1>1, <1>2, <2>1, ActorAssumption
    DEF Quiet, Attached, Waiting, Claimed, AfterClaim, PromiseInv,
        ClaimsHaveReasons, TypeOK, Actors
  <2> QED BY <2>2, QuietKeeps
<1> QED BY <1>3, <1>4

(* A callback is called once, by a claim of the source it is registered    *)
(* with.                                                                   *)
LEMMA CallBackRefines ==
    ASSUME IInv, PromiseInv, NEW a \in Actors, CallBack(a)
    PROVE  PromiseInv' /\ [Promise!Next]_(Promise!vars)
<1>1. TypeOK /\ Positions /\ CallbackOwnerIsThere
  BY DEF IInv
<1>2. object[a] \in States /\ pc[a] = "calling"
  BY <1>1, ActorAssumption DEF CallBack, At, Positions, AtWork, TypeOK, Actors, ClaimPcs
<1>3. PICK t \in callbacks[object[a]] :
        /\ callbacks' = [callbacks EXCEPT ![object[a]] = @ \ {t}]
        /\ calls' = [calls EXCEPT ![t] = @ + 1]
  BY DEF CallBack
<1>4. /\ t \in Threads /\ pc[t] \in {"registered", "unregistering"}
      /\ object[t] = object[a] /\ calls[t] = 0
  BY <1>1, <1>2, <1>3 DEF CallbackOwnerIsThere, PromiseInv, CallsCounted, TypeOK
<1>5. /\ reason' = reason /\ object' = object /\ disarmFor' = disarmFor
      /\ stopping' = stopping /\ pc' = [pc EXCEPT ![a] = "inCallback"]
  BY DEF CallBack, At, Goto, tokenVars, callVars
<1>6. AttachedTo' = AttachedTo /\ WaitingFor' = WaitingFor
  BY <1>1, <1>2, <1>5
  DEF AttachedTo, WaitingFor, Attached, Waiting, TypeOK, Actors
<1>7. reason[object[a]] # "none"
  BY <1>2 DEF PromiseInv, ClaimsStand, Claimed
<1>8. AttachedTo[t] = object[a] /\ object[a] # None
  BY <1>2, <1>4, ActorAssumption DEF AttachedTo, Attached
<1>9. calls' = [calls EXCEPT ![t] = 1]
  BY <1>1, <1>3, <1>4 DEF TypeOK
<1>10. Promise!Call(t)
  BY <1>4, <1>5, <1>6, <1>7, <1>8, <1>9 DEF Promise!Call, Promise!Stopped
<1>11. ClaimsStand' /\ ClaimsHaveReasons'
  BY <1>1, <1>2, <1>5
  DEF PromiseInv, ClaimsStand, ClaimsHaveReasons, Claimed, TypeOK
<1>12. CallsCounted'
  <2>1. \A u \in Threads : Attached(u)' <=> Attached(u)
    BY <1>1, <1>2, <1>5 DEF Attached, TypeOK, Actors
  <2>2. \A u \in Threads : ~Attached(u)' => calls'[u] = 0
    <3>1. Attached(t)
      BY <1>4 DEF Attached
    <3>2. \A u \in Threads \ {t} : calls'[u] = calls[u]
      BY <1>1, <1>9 DEF TypeOK
    <3> QED BY <2>1, <3>1, <3>2 DEF PromiseInv, CallsCounted
  <2>3. ASSUME NEW s \in States, NEW u \in callbacks'[s]
        PROVE  calls'[u] = 0
    <3>1. u \in callbacks[s] /\ u \in Threads
      BY <1>1, <1>2, <1>3 DEF TypeOK
    <3>2. u # t
      BY <1>1, <1>2, <1>3, <1>4, <3>1 DEF CallbackOwnerIsThere, TypeOK
    <3> QED BY <1>1, <1>9, <3>1, <3>2 DEF PromiseInv, CallsCounted, TypeOK
  <2> QED BY <2>2, <2>3 DEF CallsCounted
<1> QED BY <1>4, <1>10, <1>11, <1>12 DEF PromiseInv, Promise!Next

(* Registering and the end of a registration, waiting and its end.         *)
LEMMA ThreadRefines ==
    ASSUME IInv, PromiseInv, NEW t \in Threads,
           \/ RegisterStored(t) \/ RegisterInline(t) \/ Unregister(t)
           \/ DestroyInline(t) \/ Wait(t) \/ WaitUnlock(t)
    PROVE  PromiseInv' /\ [Promise!Next]_(Promise!vars)
<1>1. TypeOK /\ Positions /\ CallbackOwnerIsThere
  BY DEF IInv
<1>2. t \in Actors /\ DOMAIN pc = Actors /\ Threads \subseteq Actors
      /\ calls \in [Threads -> Nat] /\ DOMAIN callbacks = States
  BY <1>1 DEF TypeOK, Actors
<1>3. object[t] \in States
  BY <1>1
  DEF RegisterStored, RegisterInline, Unregister, DestroyInline, Wait,
      WaitUnlock, At, Positions, AtWork, TypeOK, Actors
<1>4. /\ reason' = reason /\ object' = object /\ disarmFor' = disarmFor
      /\ stopping' = stopping
  BY DEF RegisterStored, RegisterInline, Unregister, DestroyInline, Wait,
         WaitUnlock, dataVars, tokenVars, callVars
<1>5. PICK l : pc' = [pc EXCEPT ![t] = l]
  BY DEF RegisterStored, RegisterInline, Unregister, DestroyInline, Wait,
         WaitUnlock, At, Goto
<1>6. pc'[t] = l /\ \A u \in Actors \ {t} : pc'[u] = pc[u]
  BY <1>2, <1>5
<1>7. l \in {"registered", "registeredInline", "idle", "lockWait", "blocked"}
  BY <1>2, <1>6
  DEF RegisterStored, RegisterInline, Unregister, DestroyInline, Wait,
      WaitUnlock, At, Goto
<1>8. ClaimsStand' /\ ClaimsHaveReasons'
  BY <1>4, <1>6, <1>7 DEF PromiseInv, ClaimsStand, ClaimsHaveReasons, Claimed
<1>9. \A u \in Threads : u # t =>
        /\ Attached(u)' <=> Attached(u)
        /\ Waiting(u)' <=> Waiting(u)
  BY <1>2, <1>6 DEF Attached, Waiting
<1>10. AttachedTo' = [AttachedTo EXCEPT ![t] = IF Attached(t)' THEN object[t] ELSE None]
  BY <1>4, <1>9 DEF AttachedTo
<1>11. WaitingFor' = [WaitingFor EXCEPT ![t] = IF Waiting(t)' THEN object[t] ELSE None]
  BY <1>4, <1>9 DEF WaitingFor
<1>12. /\ AttachedTo[t] = IF Attached(t) THEN object[t] ELSE None
       /\ WaitingFor[t] = IF Waiting(t) THEN object[t] ELSE None
       /\ object[t] # None
       /\ AttachedTo = [AttachedTo EXCEPT ![t] = AttachedTo[t]]
       /\ WaitingFor = [WaitingFor EXCEPT ![t] = WaitingFor[t]]
       /\ calls = [calls EXCEPT ![t] = calls[t]]
  BY <1>2, <1>3, ActorAssumption DEF AttachedTo, WaitingFor
<1>13. CASE RegisterStored(t)
  <2>1. /\ pc[t] = "registering" /\ l = "registered" /\ reason[object[t]] = "none"
        /\ callbacks' = [callbacks EXCEPT ![object[t]] = @ \cup {t}]
        /\ calls' = calls
    BY <1>2, <1>6, <1>13 DEF RegisterStored, At, Goto
  <2>2. calls[t] = 0
    BY <2>1 DEF PromiseInv, CallsCounted, Attached
  <2>3. /\ Attached(t)' /\ ~Attached(t) /\ ~Waiting(t)' /\ ~Waiting(t)
    BY <1>6, <2>1 DEF Attached, Waiting
  <2>4. Promise!Attach(t, object[t])
    BY <1>4, <1>10, <1>11, <1>12, <2>1, <2>2, <2>3 DEF Promise!Attach, Promise!Stopped
  <2>5. CallsCounted'
    BY <1>2, <1>3, <1>9, <2>1, <2>2, <2>3 DEF PromiseInv, CallsCounted
  <2> QED BY <1>3, <1>8, <2>4, <2>5 DEF PromiseInv, Promise!Next
<1>14. CASE RegisterInline(t)
  <2>1. /\ pc[t] = "registering" /\ l = "registeredInline" /\ reason[object[t]] # "none"
        /\ callbacks' = callbacks
        /\ calls' = [calls EXCEPT ![t] = @ + 1]
    BY <1>2, <1>6, <1>14 DEF RegisterInline, At, Goto
  <2>2. calls' = [calls EXCEPT ![t] = 1]
    <3>1. calls[t] = 0
      BY <2>1 DEF PromiseInv, CallsCounted, Attached
    <3> QED BY <2>1, <3>1
  <2>3. /\ Attached(t)' /\ ~Attached(t) /\ ~Waiting(t)' /\ ~Waiting(t)
    BY <1>6, <2>1 DEF Attached, Waiting
  <2>4. Promise!Attach(t, object[t])
    BY <1>4, <1>10, <1>11, <1>12, <2>1, <2>2, <2>3 DEF Promise!Attach, Promise!Stopped
  <2>5. \A s \in States : t \notin callbacks[s]
    BY <1>1, <2>1 DEF CallbackOwnerIsThere
  <2>6. CallsCounted'
    BY <1>1, <1>2, <1>3, <1>9, <2>1, <2>2, <2>3, <2>5
    DEF PromiseInv, CallsCounted, TypeOK
  <2> QED BY <1>3, <1>8, <2>4, <2>6 DEF PromiseInv, Promise!Next
<1>15. CASE Unregister(t) \/ DestroyInline(t)
  <2>1. /\ pc[t] \in {"unregistering", "registeredInline"} /\ l = "idle"
        /\ calls' = [calls EXCEPT ![t] = 0]
    BY <1>2, <1>6, <1>15 DEF Unregister, DestroyInline, At, Goto
  <2>2. \A s \in States : callbacks'[s] \subseteq callbacks[s] /\ callbacks[s] \subseteq Threads
    <3>1. CASE Unregister(t)
      BY <1>1, <1>3, <3>1 DEF Unregister, TypeOK
    <3>2. CASE DestroyInline(t)
      BY <1>1, <3>2 DEF DestroyInline, TypeOK
    <3> QED BY <1>15, <3>1, <3>2
  <2>3. /\ ~Attached(t)' /\ Attached(t) /\ ~Waiting(t)' /\ ~Waiting(t)
    BY <1>6, <2>1 DEF Attached, Waiting
  <2>4. Promise!Detach(t)
    BY <1>4, <1>10, <1>11, <1>12, <2>1, <2>3 DEF Promise!Detach
  <2>5. CallsCounted'
    BY <1>2, <1>9, <2>1, <2>2, <2>3 DEF PromiseInv, CallsCounted
  <2> QED BY <1>8, <2>4, <2>5 DEF PromiseInv, Promise!Next
<1>16. ASSUME Wait(t) \/ WaitUnlock(t)
       PROVE  CallsCounted' /\ calls' = calls /\ AttachedTo' = AttachedTo
  <2>1. /\ calls' = calls /\ callbacks' = callbacks
        /\ pc[t] \in {"idle", "block", "leaveWait"} /\ l \in {"lockWait", "blocked", "idle"}
    BY <1>2, <1>6, <1>16 DEF Wait, WaitUnlock, At, Goto, dataVars, cbVars
  <2>2. ~Attached(t)' /\ ~Attached(t)
    BY <1>6, <2>1 DEF Attached
  <2> QED BY <1>9, <1>10, <1>12, <2>1, <2>2 DEF PromiseInv, CallsCounted
<1>17. CASE Wait(t)
  <2>1. pc[t] = "idle" /\ l = "lockWait"
    BY <1>2, <1>6, <1>17 DEF Wait, At, Goto
  <2>2. Waiting(t)' /\ ~Waiting(t)
    BY <1>6, <2>1 DEF Waiting
  <2>3. Promise!BeginWait(t, object[t])
    BY <1>4, <1>11, <1>12, <1>16, <1>17, <2>2 DEF Promise!BeginWait
  <2> QED BY <1>3, <1>8, <1>16, <1>17, <2>3 DEF PromiseInv, Promise!Next
<1>18. CASE WaitUnlock(t) /\ pc[t] = "leaveWait"
  <2>1. l = "idle"
    BY <1>2, <1>6, <1>18 DEF WaitUnlock, Goto
  <2>2. ~Waiting(t)' /\ Waiting(t)
    BY <1>6, <1>18, <2>1 DEF Waiting
  <2>3. reason[object[t]] # "none"
    BY <1>2, <1>18 DEF PromiseInv, ClaimsStand, Claimed
  <2>4. Promise!EndWait(t)
    BY <1>4, <1>11, <1>12, <1>16, <1>18, <2>2, <2>3 DEF Promise!EndWait, Promise!Stopped
  <2> QED BY <1>8, <1>16, <1>18, <2>4 DEF PromiseInv, Promise!Next
<1>19. CASE WaitUnlock(t) /\ pc[t] = "block"
  <2>1. l = "blocked"
    BY <1>2, <1>6, <1>19 DEF WaitUnlock, Goto
  <2>2. Waiting(t)' /\ Waiting(t)
    BY <1>6, <1>19, <2>1 DEF Waiting
  <2>3. WaitingFor' = WaitingFor
    BY <1>11, <1>12, <2>2
  <2> QED BY <1>4, <1>8, <1>16, <1>19, <2>3 DEF PromiseInv, Promise!vars
<1> QED
  BY <1>13, <1>14, <1>15, <1>17, <1>18, <1>19 DEF WaitUnlock

(* Every step is a step of the promise or shows nothing of itself.         *)
LEMMA PromiseStep ==
    ASSUME IInv, PromiseInv, Next
    PROVE  PromiseInv' /\ [Promise!Next]_(Promise!vars)
<1>1. CASE \/ \E t \in Threads : QuietCall(t)
           \/ \E a \in Actors : QuietClaim(a)
           \/ QuietWatch
  <2>1. TypeOK /\ References /\ Positions /\ ClaimsHaveReasons
    BY DEF IInv, PromiseInv
  <2>2. Quiet
    BY <1>1, <2>1, QuietSteps
  <2> QED BY <2>2, QuietKeeps
<1>2. ASSUME NEW t \in Threads,
             \/ RegisterStored(t) \/ RegisterInline(t) \/ Unregister(t)
             \/ DestroyInline(t) \/ Wait(t) \/ WaitUnlock(t)
      PROVE  PromiseInv' /\ [Promise!Next]_(Promise!vars)
  BY <1>2, ThreadRefines
<1>3. ASSUME NEW a \in Actors,
             \/ Disarm(a) \/ NotifyService(a) \/ UnregisterEntry(a)
             \/ ClaimReason(a) \/ CallBack(a)
      PROVE  PromiseInv' /\ [Promise!Next]_(Promise!vars)
  BY <1>3, DisarmRefines, ClaimReasonRefines, CallBackRefines
<1> QED
  BY <1>1, <1>2, <1>3
  DEF Next, Optional, ThreadSteps, ThreadLocks, ClaimSteps, ClaimLocks,
      WatchdogSteps, WatchdogLocks, QuietCall, QuietClaim, QuietWatch, Actors

(* A stutter is one of the promise.                                        *)
LEMMA PromiseStutter ==
    ASSUME PromiseInv, UNCHANGED vars
    PROVE  PromiseInv' /\ UNCHANGED Promise!vars
<1>1. UNCHANGED <<reason, calls, callbacks, pc, object, disarmFor, stopping>>
  BY DEF vars, dataVars, tokenVars, cbVars, callVars
<1>2. Quiet
  BY <1>1 DEF Quiet, PromiseInv, ClaimsHaveReasons, Attached, Waiting, Claimed
<1> QED BY <1>2, QuietKeeps

(* What callers see of the mutexes, the watchdog, the handles and the      *)
(* lifetimes is what they were promised: a source stops once and for one   *)
(* reason until nobody uses it, a callback is called once and only while   *)
(* it is registered with a source that stopped, and Wait ends only for a   *)
(* source that stopped.  (CancellationState)                               *)
THEOREM ImplementsThePromise == Spec => ImplementsPromise
<1>1. Init => PromiseInv /\ Promise!Init
  <2> SUFFICES ASSUME Init PROVE PromiseInv /\ Promise!Init
    OBVIOUS
  <2>1. \A a \in Actors : pc[a] \in {"idle", "scan"} /\ disarmFor[a] = "none"
    BY DEF Init
  <2>2. PromiseInv
    BY <2>1
    DEF Init, PromiseInv, ClaimsStand, ClaimsHaveReasons, CallsCounted, Claimed
  <2>3. \A t \in Threads : ~Attached(t) /\ ~Waiting(t)
    BY <2>1 DEF Attached, Waiting, Actors
  <2>4. AttachedTo = [t \in Threads |-> None] /\ WaitingFor = [t \in Threads |-> None]
    BY <2>3 DEF AttachedTo, WaitingFor
  <2> QED BY <2>2, <2>4 DEF Init, Promise!Init
<1>2. IInv /\ PromiseInv /\ [Next]_vars => PromiseInv' /\ [Promise!Next]_(Promise!vars)
  BY PromiseStep, PromiseStutter
<1> QED
  BY <1>1, <1>2, CancellationInvariant, PTL DEF Spec, ImplementsPromise, Promise!Spec

=============================================================================
