------------------------- MODULE CancellationLemmas -------------------------
(***************************************************************************)
(* What the steps of Cancellation keep, part one: the types; what the ends *)
(* of a disarm, of a reference and of a fired entry do to the state, which *)
(* the proofs use in place of the actions; and the parts of the inductive  *)
(* invariant that relate an actor, its position and the state it works on. *)
(* CancellationProofs has the parts that promise an actor that will act.   *)
(***************************************************************************)
EXTENDS Cancellation, SequenceTheorems, TLAPS

(* Where an actor may be.                                                  *)
Places(a) == IF a = Watchdog THEN WatchdogPcs ELSE ThreadPcs

LEMMA PlacesTyped ==
    (/\ pc \in [Actors -> ThreadPcs \cup WatchdogPcs]
     /\ pc[Watchdog] \in WatchdogPcs
     /\ \A t \in Threads : pc[t] \in ThreadPcs)
    <=> /\ pc \in [Actors -> ThreadPcs \cup WatchdogPcs]
        /\ \A a \in Actors : pc[a] \in Places(a)
BY ActorAssumption DEF Actors, Places

(* What the end of DisarmDeadline does to the types.                       *)
LEMMA DisarmedTyped ==
    ASSUME TypeOK, PurposeKnown, NEW a \in Actors,
           pc[a] \in DisarmPcs,
           NEW pcs \in [Actors -> ThreadPcs \cup WatchdogPcs],
           \A b \in Actors : pcs[b] \in Places(b),
           Disarmed(a, pcs)
    PROVE  /\ life' \in [States -> {"absent", "alive", "dying"}]
           /\ deadline' \in [States -> Deadlines \cup {NoDeadline}]
           /\ reason' \in [States -> {"none", "cancelled", "deadline"}]
           /\ pc' \in [Actors -> ThreadPcs \cup WatchdogPcs]
           /\ pc'[Watchdog] \in WatchdogPcs
           /\ \A t \in Threads : pc'[t] \in ThreadPcs
           /\ object' \in [Actors -> States \cup {None}]
           /\ disarmFor' \in [Actors -> {"none", "claim", "arm", "destroy"}]
<1>1. /\ life' \in [States -> {"absent", "alive", "dying"}]
      /\ deadline' \in [States -> Deadlines \cup {NoDeadline}]
      /\ reason' \in [States -> {"none", "cancelled", "deadline"}]
      /\ object' \in [Actors -> States \cup {None}]
      /\ disarmFor' \in [Actors -> {"none", "claim", "arm", "destroy"}]
  <2>1. CASE disarmFor[a] = "destroy"
    BY <2>1 DEF Disarmed, TypeOK
  <2>2. CASE disarmFor[a] # "destroy"
    BY <2>2 DEF Disarmed, TypeOK
  <2> QED BY <2>1, <2>2
<1>2. DisarmedPc(a) \in Places(a) \cap (ThreadPcs \cup WatchdogPcs)
  <2>1. disarmFor[a] \in {"claim", "arm", "destroy"}
    BY DEF PurposeKnown, DisarmPcs, TypeOK
  <2>2. disarmFor[a] = "arm" => a # Watchdog
    BY DEF PurposeKnown
  <2> QED
    BY <2>1, <2>2 DEF DisarmedPc, Places, ThreadPcs, WatchdogPcs, ClaimPcs
<1>3. /\ pc' \in [Actors -> ThreadPcs \cup WatchdogPcs]
      /\ \A b \in Actors : pc'[b] \in Places(b)
  BY <1>2 DEF Disarmed
<1> QED
  BY <1>1, <1>3, ActorAssumption DEF Places, Actors

(* One actor moves on.                                                     *)
LEMMA Moved ==
    ASSUME TypeOK, NEW a \in Actors,
           NEW l \in Places(a) \cap (ThreadPcs \cup WatchdogPcs),
           pc' = [pc EXCEPT ![a] = l]
    PROVE  /\ pc' \in [Actors -> ThreadPcs \cup WatchdogPcs]
           /\ pc'[Watchdog] \in WatchdogPcs
           /\ \A t \in Threads : pc'[t] \in ThreadPcs
BY ActorAssumption DEF Places, TypeOK, Actors

(* The steps that threads and the watchdog share are places of both.       *)
LEMMA ClaimPlaces ==
    ASSUME NEW a \in Actors
    PROVE  \A l \in ClaimPcs \cup {"claim"} :
              l \in Places(a) \cap (ThreadPcs \cup WatchdogPcs)
BY DEF Places, ThreadPcs, WatchdogPcs

LEMMA ReleaseTyped ==
    ASSUME TypeOK, NEW a \in Actors, NEW s \in States,
           NEW next \in Places(a) \cap (ThreadPcs \cup WatchdogPcs),
           Release(a, s, next)
    PROVE  /\ life' \in [States -> {"absent", "alive", "dying"}]
           /\ owners' \in [States -> SUBSET Actors]
           /\ pc' \in [Actors -> ThreadPcs \cup WatchdogPcs]
           /\ pc'[Watchdog] \in WatchdogPcs
           /\ \A t \in Threads : pc'[t] \in ThreadPcs
           /\ object' \in [Actors -> States \cup {None}]
           /\ disarmFor' \in [Actors -> {"none", "claim", "arm", "destroy"}]
<1>0. "disarm" \in Places(a) \cap (ThreadPcs \cup WatchdogPcs)
  BY ClaimPlaces DEF ClaimPcs
<1>1. CASE owners[s] = {a}
  <2>1. pc' = [pc EXCEPT ![a] = "disarm"]
    BY <1>1 DEF Release, Goto
  <2>2. /\ life' \in [States -> {"absent", "alive", "dying"}]
        /\ owners' \in [States -> SUBSET Actors]
        /\ object' \in [Actors -> States \cup {None}]
        /\ disarmFor' \in [Actors -> {"none", "claim", "arm", "destroy"}]
    BY <1>1 DEF Release, TypeOK
  <2> QED BY <1>0, <2>1, <2>2, Moved
<1>2. CASE owners[s] # {a}
  <2>1. pc' = [pc EXCEPT ![a] = next]
    BY <1>2 DEF Release, Goto
  <2>2. /\ life' \in [States -> {"absent", "alive", "dying"}]
        /\ owners' \in [States -> SUBSET Actors]
        /\ object' \in [Actors -> States \cup {None}]
        /\ disarmFor' \in [Actors -> {"none", "claim", "arm", "destroy"}]
    BY <1>2 DEF Release, TypeOK
  <2> QED BY <2>1, <2>2, Moved
<1> QED BY <1>1, <1>2

(* Every step keeps the types.                                             *)
LEMMA TypeStep ==
    ASSUME TypeOK, PurposeKnown, AtWork, EntriesTimed, Next
    PROVE  TypeOK'
<1>1. ASSUME NEW t \in Threads, NEW s \in States, NEW d \in Deadlines, Create(t, s, d)
      PROVE TypeOK'
  BY ActorAssumption, TimeAssumption, <1>1
    DEF Create, Goto, TypeOK, cbVars, serviceVars, runVars, watchVars, Actors,
        ThreadPcs, WatchdogPcs, ClaimPcs, PurposeKnown, AtWork, DisarmPcs
<1>2. ASSUME NEW t \in Threads, ArmRegister(t) PROVE TypeOK'
  BY ActorAssumption, TimeAssumption, <1>2
    DEF ArmRegister, Goto, At, TypeOK, tokenVars, lifeVars, cbVars, runVars,
        callVars, Actors, ThreadPcs, WatchdogPcs, ClaimPcs, PurposeKnown,
        AtWork, DisarmPcs
<1>3. ASSUME NEW t \in Threads, ArmNotify(t) PROVE TypeOK'
  BY ActorAssumption, TimeAssumption, <1>3
    DEF ArmNotify, WakeWatchdog, TypeOK, dataVars, tokenVars, lifeVars,
        cbVars, serviceVars, runVars, callVars, watchVars, Actors, ThreadPcs,
        WatchdogPcs, ClaimPcs, PurposeKnown, AtWork, DisarmPcs
<1>4. ASSUME NEW t \in Threads, ArmFails(t) PROVE TypeOK'
  BY ActorAssumption, TimeAssumption, <1>4
    DEF ArmFails, Goto, At, TypeOK, cbVars, serviceVars, runVars, watchVars,
        Actors, ThreadPcs, WatchdogPcs, ClaimPcs, PurposeKnown, AtWork,
        DisarmPcs
<1>5. ASSUME NEW t \in Threads, ArmStore(t) PROVE TypeOK'
  BY ActorAssumption, TimeAssumption, <1>5
    DEF ArmStore, Goto, At, TypeOK, lifeVars, cbVars, serviceVars, runVars,
        callVars, watchVars, Actors, ThreadPcs, WatchdogPcs, ClaimPcs,
        PurposeKnown, AtWork, DisarmPcs
<1>6. ASSUME NEW t \in Threads, ArmRecheck(t) PROVE TypeOK'
  <2>1. disarmFor' \in [Actors -> {"none", "claim", "arm", "destroy"}]
    BY <1>6 DEF ArmRecheck, Goto, TypeOK
  <2>2. /\ pc' \in [Actors -> ThreadPcs \cup WatchdogPcs]
        /\ pc'[Watchdog] \in WatchdogPcs
        /\ \A u \in Threads : pc'[u] \in ThreadPcs
    <3>1. "idle" \in Places(t) /\ "disarm" \in Places(t) /\ t \in Actors
      BY ActorAssumption DEF Places, ThreadPcs, ClaimPcs, Actors
    <3>2. \/ pc' = [pc EXCEPT ![t] = "idle"]
          \/ pc' = [pc EXCEPT ![t] = "disarm"]
      BY <1>6 DEF ArmRecheck, Goto
    <3> QED BY <3>1, <3>2, Moved DEF ThreadPcs, ClaimPcs
  <2> QED BY <1>6, <2>1, <2>2 DEF ArmRecheck, TypeOK, tokenVars, lifeVars,
      cbVars, serviceVars, runVars, watchVars
<1>7. ASSUME NEW t \in Threads, NEW s \in States, Share(t, s) PROVE TypeOK'
  BY ActorAssumption, TimeAssumption, <1>7
    DEF Share, TypeOK, cbVars, serviceVars, runVars, watchVars, Actors,
        ThreadPcs, WatchdogPcs, ClaimPcs, PurposeKnown, AtWork, DisarmPcs
<1>8. ASSUME NEW t \in Threads, Drop(t) PROVE TypeOK'
  <2>1. object[t] \in States /\ t \in Actors
    BY <1>8 DEF Drop, TypeOK, Actors
  <2>2. "idle" \in Places(t) \cap (ThreadPcs \cup WatchdogPcs)
    BY ActorAssumption DEF Places, ThreadPcs
  <2>3. Release(t, object[t], "idle")
    BY <1>8 DEF Drop
  <2> HIDE DEF Release
  <2> QED BY <1>8, <2>1, <2>2, <2>3, ReleaseTyped DEF Drop, TypeOK, cbVars,
      serviceVars, runVars, watchVars
<1>9. ASSUME NEW t \in Threads, Cancel(t) PROVE TypeOK'
  BY ActorAssumption, TimeAssumption, <1>9
    DEF Cancel, Goto, At, StartClaim, TypeOK, tokenVars, lifeVars, cbVars,
        serviceVars, runVars, watchVars, Actors, ThreadPcs, WatchdogPcs,
        ClaimPcs, PurposeKnown, AtWork, DisarmPcs
<1>10. ASSUME NEW t \in Threads, Poll(t) PROVE TypeOK'
  BY ActorAssumption, TimeAssumption, <1>10
    DEF Poll, Goto, At, StartClaim, TypeOK, tokenVars, lifeVars, cbVars,
        serviceVars, runVars, watchVars, Actors, ThreadPcs, WatchdogPcs,
        ClaimPcs, PurposeKnown, AtWork, DisarmPcs
<1>11. ASSUME NEW t \in Threads, Wait(t) PROVE TypeOK'
  BY ActorAssumption, TimeAssumption, <1>11
    DEF Wait, Goto, At, TypeOK, dataVars, tokenVars, lifeVars, cbVars,
        serviceVars, runVars, callVars, watchVars, Actors, ThreadPcs,
        WatchdogPcs, ClaimPcs, PurposeKnown, AtWork, DisarmPcs
<1>12. ASSUME NEW t \in Threads, StartRegister(t) PROVE TypeOK'
  BY ActorAssumption, TimeAssumption, <1>12
    DEF StartRegister, Goto, At, TypeOK, dataVars, tokenVars, lifeVars,
        cbVars, serviceVars, runVars, callVars, watchVars, Actors, ThreadPcs,
        WatchdogPcs, ClaimPcs, PurposeKnown, AtWork, DisarmPcs
<1>13. ASSUME NEW t \in Threads, DestroyRegistration(t) PROVE TypeOK'
  BY ActorAssumption, TimeAssumption, <1>13
    DEF DestroyRegistration, Goto, At, TypeOK, dataVars, tokenVars, lifeVars,
        cbVars, serviceVars, runVars, callVars, watchVars, Actors, ThreadPcs,
        WatchdogPcs, ClaimPcs, PurposeKnown, AtWork, DisarmPcs
<1>14. ASSUME NEW t \in Threads, DestroyInline(t) PROVE TypeOK'
  BY ActorAssumption, TimeAssumption, <1>14
    DEF DestroyInline, Goto, At, TypeOK, tokenVars, lifeVars, serviceVars,
        runVars, callVars, watchVars, Actors, ThreadPcs, WatchdogPcs,
        ClaimPcs, PurposeKnown, AtWork, DisarmPcs
<1>15. ASSUME NEW t \in Threads, WaitTest(t) PROVE TypeOK'
  BY ActorAssumption, TimeAssumption, <1>15
    DEF WaitTest, Goto, TypeOK, dataVars, tokenVars, lifeVars, cbVars,
        serviceVars, runVars, callVars, watchVars, Actors, ThreadPcs,
        WatchdogPcs, ClaimPcs, PurposeKnown, AtWork, DisarmPcs
<1>16. ASSUME NEW t \in Threads, WaitUnlock(t) PROVE TypeOK'
  BY ActorAssumption, TimeAssumption, <1>16
    DEF WaitUnlock, Goto, TypeOK, lifeVars, cbVars, serviceVars, runVars,
        callVars, watchVars, Actors, ThreadPcs, WatchdogPcs, ClaimPcs,
        PurposeKnown, AtWork, DisarmPcs
<1>17. ASSUME NEW t \in Threads, WaitLock(t) PROVE TypeOK'
  BY ActorAssumption, TimeAssumption, <1>17
    DEF WaitLock, Goto, At, TypeOK, lifeVars, cbVars, serviceVars, runVars,
        callVars, watchVars, Actors, ThreadPcs, WatchdogPcs, ClaimPcs,
        PurposeKnown, AtWork, DisarmPcs
<1>18. ASSUME NEW t \in Threads, RegisterStored(t) PROVE TypeOK'
  BY ActorAssumption, TimeAssumption, <1>18
    DEF RegisterStored, Goto, At, TypeOK, tokenVars, lifeVars, serviceVars,
        runVars, callVars, watchVars, Actors, ThreadPcs, WatchdogPcs,
        ClaimPcs, PurposeKnown, AtWork, DisarmPcs
<1>19. ASSUME NEW t \in Threads, RegisterInline(t) PROVE TypeOK'
  BY ActorAssumption, TimeAssumption, <1>19
    DEF RegisterInline, Goto, At, TypeOK, tokenVars, lifeVars, serviceVars,
        runVars, callVars, watchVars, Actors, ThreadPcs, WatchdogPcs,
        ClaimPcs, PurposeKnown, AtWork, DisarmPcs
<1>20. ASSUME NEW t \in Threads, Unregister(t) PROVE TypeOK'
  BY ActorAssumption, TimeAssumption, <1>20
    DEF Unregister, Goto, At, TypeOK, tokenVars, lifeVars, serviceVars,
        runVars, callVars, watchVars, Actors, ThreadPcs, WatchdogPcs,
        ClaimPcs, PurposeKnown, AtWork, DisarmPcs
<1>21. ASSUME NEW a \in Actors, Disarm(a) PROVE TypeOK'
  <2>1. timer' \in [States -> BOOLEAN]
    BY <1>21 DEF Disarm, TypeOK
  <2>2. CASE timer[object[a]]
    <3>1. /\ pc' \in [Actors -> ThreadPcs \cup WatchdogPcs]
          /\ pc'[Watchdog] \in WatchdogPcs
          /\ \A u \in Threads : pc'[u] \in ThreadPcs
      <4>1. pc' = [pc EXCEPT ![a] = "unregister"]
        BY <1>21, <2>2 DEF Disarm, Goto
      <4> QED BY <4>1, ClaimPlaces, Moved DEF ClaimPcs
    <3> QED BY <1>21, <2>1, <2>2, <3>1 DEF Disarm, TypeOK, cbVars,
        serviceVars, runVars, watchVars
  <2>3. CASE ~timer[object[a]]
    <3>1. Disarmed(a, pc) /\ pc[a] = "disarm"
      BY <1>21, <2>3 DEF Disarm
    <3>2. /\ pc \in [Actors -> ThreadPcs \cup WatchdogPcs]
          /\ \A b \in Actors : pc[b] \in Places(b)
      BY PlacesTyped DEF TypeOK
    <3> HIDE DEF Disarmed
    <3> QED BY <1>21, <2>1, <3>1, <3>2, DisarmedTyped DEF Disarm, DisarmPcs,
        TypeOK, cbVars, serviceVars, runVars, watchVars
  <2> QED BY <2>2, <2>3
<1>22. ASSUME NEW a \in Actors, NotifyService(a) PROVE TypeOK'
  <2>1. Disarmed(a, WakeWatchdog(pc)) /\ pc[a] = "notifyService"
    BY <1>22 DEF NotifyService
  <2>2. /\ WakeWatchdog(pc) \in [Actors -> ThreadPcs \cup WatchdogPcs]
        /\ \A b \in Actors : WakeWatchdog(pc)[b] \in Places(b)
    <3>1. /\ pc \in [Actors -> ThreadPcs \cup WatchdogPcs]
          /\ \A b \in Actors : pc[b] \in Places(b)
      BY PlacesTyped DEF TypeOK
    <3> QED BY <3>1, ActorAssumption DEF WakeWatchdog, Places, WatchdogPcs,
        Actors
  <2> HIDE DEF Disarmed
  <2> QED BY <1>22, <2>1, <2>2, DisarmedTyped DEF NotifyService, DisarmPcs,
      TypeOK, cbVars, serviceVars, runVars, watchVars
<1>23. ASSUME NEW a \in Actors, ClaimReason(a) PROVE TypeOK'
  <2>0. object[a] \in States
    BY <1>23, ActorAssumption DEF ClaimReason, TypeOK, AtWork, Actors,
        ClaimPcs
  <2>1. /\ disarmFor' \in [Actors -> {"none", "claim", "arm", "destroy"}]
        /\ reason' \in [States -> {"none", "cancelled", "deadline"}]
        /\ stopping' \in [Actors -> {"none", "cancelled", "deadline"}]
    BY <1>23, <2>0 DEF ClaimReason, TypeOK
  <2>2. /\ pc' \in [Actors -> ThreadPcs \cup WatchdogPcs]
        /\ pc'[Watchdog] \in WatchdogPcs
        /\ \A u \in Threads : pc'[u] \in ThreadPcs
    <3>1. AfterClaim(a) \in Places(a) \cap (ThreadPcs \cup WatchdogPcs)
      BY DEF AfterClaim, Places, ThreadPcs, WatchdogPcs
    <3>2. \/ pc' = [pc EXCEPT ![a] = "disarm"]
          \/ pc' = [pc EXCEPT ![a] = AfterClaim(a)]
      BY <1>23 DEF ClaimReason, Goto
    <3> QED BY <3>1, <3>2, ClaimPlaces, Moved DEF ClaimPcs
  <2> QED BY <1>23, <2>1, <2>2 DEF ClaimReason, TypeOK, lifeVars, cbVars,
      serviceVars, runVars, watchVars
<1>24. ASSUME NEW a \in Actors, NotifyWaiters(a) PROVE TypeOK'
  BY ActorAssumption, TimeAssumption, <1>24
    DEF NotifyWaiters, TypeOK, dataVars, tokenVars, lifeVars, cbVars,
        serviceVars, runVars, callVars, watchVars, Actors, ThreadPcs,
        WatchdogPcs, ClaimPcs, PurposeKnown, AtWork, DisarmPcs
<1>25. ASSUME NEW a \in Actors, CallBack(a) PROVE TypeOK'
  BY ActorAssumption, TimeAssumption, <1>25
    DEF CallBack, Goto, At, TypeOK, tokenVars, lifeVars, serviceVars, runVars,
        callVars, watchVars, Actors, ThreadPcs, WatchdogPcs, ClaimPcs,
        PurposeKnown, AtWork, DisarmPcs
<1>26. ASSUME NEW a \in Actors, CallbackReturns(a) PROVE TypeOK'
  BY ActorAssumption, TimeAssumption, <1>26
    DEF CallbackReturns, Goto, At, TypeOK, tokenVars, lifeVars, serviceVars,
        runVars, callVars, watchVars, Actors, ThreadPcs, WatchdogPcs,
        ClaimPcs, PurposeKnown, AtWork, DisarmPcs
<1>27. ASSUME NEW a \in Actors, ClaimReturns(a) PROVE TypeOK'
  BY ActorAssumption, TimeAssumption, <1>27
    DEF ClaimReturns, Goto, AfterClaim, TypeOK, tokenVars, lifeVars,
        serviceVars, runVars, callVars, watchVars, Actors, ThreadPcs,
        WatchdogPcs, ClaimPcs, PurposeKnown, AtWork, DisarmPcs
<1>28. ASSUME NEW a \in Actors, UnregisterEntry(a) PROVE TypeOK'
  <2>0. schedule' \subseteq States /\ changed' \in BOOLEAN
    BY <1>28 DEF UnregisterEntry, TypeOK
  <2>1. CASE object[a] \in schedule
    <3>1. /\ pc' \in [Actors -> ThreadPcs \cup WatchdogPcs]
          /\ pc'[Watchdog] \in WatchdogPcs
          /\ \A u \in Threads : pc'[u] \in ThreadPcs
      <4>1. pc' = [pc EXCEPT ![a] = "notifyService"]
        BY <1>28, <2>1 DEF UnregisterEntry, Goto
      <4> QED BY <4>1, ClaimPlaces, Moved DEF ClaimPcs
    <3> QED BY <1>28, <2>0, <2>1, <3>1 DEF UnregisterEntry, TypeOK, cbVars,
        runVars
  <2>2. CASE object[a] \notin schedule
    <3>1. Disarmed(a, pc) /\ pc[a] = "unregister"
      BY <1>28, <2>2 DEF UnregisterEntry
    <3>2. /\ pc \in [Actors -> ThreadPcs \cup WatchdogPcs]
          /\ \A b \in Actors : pc[b] \in Places(b)
      BY PlacesTyped DEF TypeOK
    <3> HIDE DEF Disarmed
    <3> QED BY <1>28, <2>0, <3>1, <3>2, DisarmedTyped DEF UnregisterEntry,
        DisarmPcs, TypeOK, cbVars, runVars
  <2> QED BY <2>1, <2>2
<1>29. ASSUME NEW a \in Actors, ReleaseWaiters(a) PROVE TypeOK'
  BY ActorAssumption, TimeAssumption, <1>29
    DEF ReleaseWaiters, Goto, At, TypeOK, dataVars, tokenVars, lifeVars,
        cbVars, serviceVars, runVars, callVars, watchVars, Actors, ThreadPcs,
        WatchdogPcs, ClaimPcs, PurposeKnown, AtWork, DisarmPcs
<1>30. ASSUME NEW a \in Actors, LockCallbacks(a) PROVE TypeOK'
  BY ActorAssumption, TimeAssumption, <1>30
    DEF LockCallbacks, Goto, At, TypeOK, tokenVars, lifeVars, serviceVars,
        runVars, callVars, watchVars, Actors, ThreadPcs, WatchdogPcs,
        ClaimPcs, PurposeKnown, AtWork, DisarmPcs
<1>31. ASSUME Collect PROVE TypeOK'
  BY ActorAssumption, TimeAssumption, <1>31
    DEF Collect, Collected, TypeOK, tokenVars, lifeVars, cbVars, callVars,
        Actors, ThreadPcs, WatchdogPcs, ClaimPcs, PurposeKnown, AtWork,
        DisarmPcs
<1>32. ASSUME CollectedAll PROVE TypeOK'
  BY ActorAssumption, TimeAssumption, <1>32
    DEF CollectedAll, Goto, At, TypeOK, tokenVars, lifeVars, cbVars, callVars,
        Actors, ThreadPcs, WatchdogPcs, ClaimPcs, PurposeKnown, AtWork,
        DisarmPcs
<1>33. ASSUME Sleep PROVE TypeOK'
  <2>1. PICK wake \in {scanned + MaximumWait} \cup {deadline[s] : s \in schedule} :
          until' = wake
    BY <1>33 DEF Sleep
  <2>2. until' \in Nat
    BY <2>1, TimeAssumption DEF TypeOK, EntriesTimed
  <2>3. scanned' \in 0..MaxTime /\ svcMutex' \in {Watchdog, Free} /\ changed' \in BOOLEAN
    <3>1. scanned' = 0 /\ svcMutex' = Free
      BY <1>33 DEF Sleep
    <3>2. changed' \in BOOLEAN
      BY <1>33 DEF Sleep
    <3>3. scanned' \in 0..MaxTime
      BY <3>1, TimeAssumption
    <3> QED BY <3>1, <3>2, <3>3
  <2>4. /\ pc' \in [Actors -> ThreadPcs \cup WatchdogPcs]
        /\ pc'[Watchdog] \in WatchdogPcs
        /\ \A u \in Threads : pc'[u] \in ThreadPcs
    BY <1>33, ActorAssumption
      DEF Sleep, At, Goto, TypeOK, Actors, ThreadPcs, WatchdogPcs, ClaimPcs
  <2> QED BY <1>33, <2>2, <2>3, <2>4 DEF Sleep, TypeOK, tokenVars, lifeVars,
      cbVars, callVars
<1>34. ASSUME TimeOut PROVE TypeOK'
  BY ActorAssumption, TimeAssumption, <1>34
    DEF TimeOut, Goto, At, TypeOK, dataVars, tokenVars, lifeVars, cbVars,
        serviceVars, runVars, callVars, watchVars, Actors, ThreadPcs,
        WatchdogPcs, ClaimPcs, PurposeKnown, AtWork, DisarmPcs
<1>35. ASSUME Fire PROVE TypeOK'
  <2>0. due' \in Seq(States) /\ Head(due) \in States
    BY <1>35, HeadTailProperties DEF Fire, TypeOK
  <2>1. CASE owners[Head(due)] = {}
    BY <1>35, <2>0, <2>1 DEF Fire, TypeOK, cbVars, serviceVars
  <2>2. CASE owners[Head(due)] # {}
    <3>1. /\ owners' \in [States -> SUBSET Actors]
          /\ object' \in [Actors -> States \cup {None}]
          /\ stopping' \in [Actors -> {"none", "cancelled", "deadline"}]
      <4>1. /\ owners' = [owners EXCEPT ![Head(due)] = @ \cup {Watchdog}]
            /\ object' = [object EXCEPT ![Watchdog] = Head(due)]
            /\ stopping' = [stopping EXCEPT ![Watchdog] = "deadline"]
        BY <1>35, <2>2 DEF Fire
      <4>2. owners' \in [States -> SUBSET Actors]
        BY <4>1 DEF TypeOK, Actors
      <4>3. object' \in [Actors -> States \cup {None}]
        BY <2>0, <4>1 DEF TypeOK
      <4>4. stopping' \in [Actors -> {"none", "cancelled", "deadline"}]
        BY <4>1 DEF TypeOK
      <4> QED BY <4>2, <4>3, <4>4
    <3>2. /\ pc' \in [Actors -> ThreadPcs \cup WatchdogPcs]
          /\ pc'[Watchdog] \in WatchdogPcs
          /\ \A u \in Threads : pc'[u] \in ThreadPcs
      BY <1>35, <2>2, ActorAssumption
        DEF Fire, Goto, TypeOK, Actors, WatchdogPcs
    <3> QED BY <1>35, <2>0, <3>1, <3>2 DEF Fire, TypeOK, cbVars, serviceVars
  <2> QED BY <2>1, <2>2
<1>36. ASSUME DropFired PROVE TypeOK'
  <2>1. object[Watchdog] \in States /\ Watchdog \in Actors
    BY <1>36 DEF DropFired, TypeOK, Actors, AtWork
  <2>2. "fire" \in Places(Watchdog) \cap (ThreadPcs \cup WatchdogPcs)
    BY DEF Places, WatchdogPcs
  <2>3. Release(Watchdog, object[Watchdog], "fire")
    BY <1>36 DEF DropFired
  <2> HIDE DEF Release
  <2> QED BY <1>36, <2>1, <2>2, <2>3, ReleaseTyped DEF DropFired, TypeOK,
      cbVars, serviceVars, runVars, watchVars
<1>37. ASSUME FiredAll PROVE TypeOK'
  BY ActorAssumption, TimeAssumption, <1>37
    DEF FiredAll, Goto, At, TypeOK, dataVars, tokenVars, lifeVars, cbVars,
        serviceVars, runVars, callVars, watchVars, Actors, ThreadPcs,
        WatchdogPcs, ClaimPcs, PurposeKnown, AtWork, DisarmPcs
<1>38. ASSUME Scan PROVE TypeOK'
  BY ActorAssumption, TimeAssumption, <1>38
    DEF Scan, Goto, At, TypeOK, tokenVars, lifeVars, cbVars, callVars, Actors,
        ThreadPcs, WatchdogPcs, ClaimPcs, PurposeKnown, AtWork, DisarmPcs
<1>39. ASSUME Woken PROVE TypeOK'
  <2>1. until' \in Nat
    BY <1>39 DEF Woken, TypeOK
  <2>2. /\ pc' \in [Actors -> ThreadPcs \cup WatchdogPcs]
        /\ pc'[Watchdog] \in WatchdogPcs
        /\ \A u \in Threads : pc'[u] \in ThreadPcs
    BY <1>39, ActorAssumption DEF Woken, Goto, TypeOK, Actors, WatchdogPcs
  <2> QED BY <1>39, <2>1, <2>2 DEF Woken, TypeOK, tokenVars, lifeVars, cbVars,
      serviceVars, callVars
<1>40. ASSUME Tick PROVE TypeOK'
  BY ActorAssumption, TimeAssumption, <1>40
    DEF Tick, TypeOK, lifeVars, cbVars, serviceVars, runVars, callVars,
        watchVars, Actors, ThreadPcs, WatchdogPcs, ClaimPcs, PurposeKnown,
        AtWork, DisarmPcs
<1> QED BY <1>1, <1>2, <1>3, <1>4, <1>5, <1>6, <1>7, <1>8, <1>9, <1>10, <1>11,
      <1>12, <1>13, <1>14, <1>15, <1>16, <1>17, <1>18, <1>19, <1>20, <1>21,
      <1>22, <1>23, <1>24, <1>25, <1>26, <1>27, <1>28, <1>29, <1>30, <1>31,
      <1>32, <1>33, <1>34, <1>35, <1>36, <1>37, <1>38, <1>39, <1>40
  DEF Next, Optional, ThreadSteps, ThreadLocks, ClaimSteps, ClaimLocks,
      WatchdogSteps, WatchdogLocks, Actors

-----------------------------------------------------------------------------
(* An actor in a claim or a disarm has a state.                            *)
LEMMA ObjectKnown ==
    ASSUME TypeOK, AtWork, NEW a \in Actors, pc[a] \in ClaimPcs \cup {"claim", "drop"}
    PROVE  object[a] \in States
BY ActorAssumption DEF TypeOK, AtWork, Actors, ClaimPcs

LEMMA DisarmObject ==
    ASSUME TypeOK, Positions, NEW a \in Actors, pc[a] \in DisarmPcs
    PROVE  object[a] \in States
BY ObjectKnown DEF DisarmPcs, ClaimPcs, Positions

(* What the sequence of collected entries holds.                           *)
LEMMA TailIsPart ==
    ASSUME due \in Seq(States), due # <<>>
    PROVE  \A x \in ToSet(Tail(due)) : x \in ToSet(due)
BY HeadTailProperties DEF ToSet

LEMMA HeadIsPart ==
    ASSUME due \in Seq(States), due # <<>>
    PROVE  Head(due) \in ToSet(due)
BY HeadTailProperties DEF ToSet

LEMMA AppendIsPart ==
    ASSUME due \in Seq(States), NEW s \in States
    PROVE  ToSet(Append(due, s)) = ToSet(due) \cup {s}
BY AppendProperties DEF ToSet

(* What every end of DisarmDeadline does, whether it found no handle, found*)
(* no entry, or has notified the watchdog.                                 *)
Ended(a) ==
    /\ pc[a] \in DisarmPcs
    /\ pc[a] = "disarm" => ~timer[object[a]]
    /\ pc[a] = "unregister" => object[a] \notin schedule
    /\ \A b \in Actors \ {a} :
        /\ object'[b] = object[b] /\ disarmFor'[b] = disarmFor[b]
        /\ pc'[b] = pc[b] \/ (b = Watchdog /\ pc[b] = "asleep" /\ pc'[b] = "woken")
    /\ disarmFor'[a] = "none"
    /\ \/ disarmFor[a] = "claim" /\ pc'[a] = "releaseWaiters"
       \/ disarmFor[a] = "arm" /\ pc'[a] = "idle" /\ a # Watchdog
       \/ /\ disarmFor[a] = "destroy"
          /\ pc'[a] = (IF a = Watchdog THEN "fire" ELSE "idle")
    /\ IF disarmFor[a] = "destroy"
       THEN /\ life' = [life EXCEPT ![object[a]] = "absent"]
            /\ deadline' = [deadline EXCEPT ![object[a]] = NoDeadline]
            /\ reason' = [reason EXCEPT ![object[a]] = "none"]
            /\ object'[a] = None
       ELSE UNCHANGED <<life, deadline, reason>> /\ object'[a] = object[a]
    /\ UNCHANGED <<now, owners, timer, waitMutex, cbMutex, callbacks, running,
                   calls, svcMutex, schedule, changed, due, scanned, until>>

LEMMA DisarmedEnds ==
    ASSUME TypeOK, PurposeKnown, NEW a \in Actors, pc[a] \in DisarmPcs,
           NEW pcs, pcs = pc \/ pcs = WakeWatchdog(pc), Disarmed(a, pcs)
    PROVE  /\ \A b \in Actors \ {a} :
                /\ object'[b] = object[b] /\ disarmFor'[b] = disarmFor[b]
                /\ pc'[b] = pc[b] \/ (b = Watchdog /\ pc[b] = "asleep" /\ pc'[b] = "woken")
           /\ disarmFor'[a] = "none"
           /\ \/ disarmFor[a] = "claim" /\ pc'[a] = "releaseWaiters"
              \/ disarmFor[a] = "arm" /\ pc'[a] = "idle" /\ a # Watchdog
              \/ /\ disarmFor[a] = "destroy"
                 /\ pc'[a] = (IF a = Watchdog THEN "fire" ELSE "idle")
           /\ IF disarmFor[a] = "destroy"
              THEN /\ life' = [life EXCEPT ![object[a]] = "absent"]
                   /\ deadline' = [deadline EXCEPT ![object[a]] = NoDeadline]
                   /\ reason' = [reason EXCEPT ![object[a]] = "none"]
                   /\ object'[a] = None
              ELSE UNCHANGED <<life, deadline, reason>> /\ object'[a] = object[a]
<1>1. disarmFor'[a] = "none" /\ pc'[a] = DisarmedPc(a) /\ DOMAIN pcs = Actors
  BY DEF Disarmed, TypeOK, WakeWatchdog
<1>2. \A b \in Actors \ {a} :
        /\ object'[b] = object[b] /\ disarmFor'[b] = disarmFor[b]
        /\ pc'[b] = pcs[b]
  BY <1>1 DEF Disarmed, TypeOK
<1>3. \A b \in Actors :
        pcs[b] = pc[b] \/ (b = Watchdog /\ pc[b] = "asleep" /\ pcs[b] = "woken")
  BY DEF WakeWatchdog, TypeOK, Actors
<1>4. disarmFor[a] \in {"claim", "arm", "destroy"} /\ (disarmFor[a] = "arm" => a # Watchdog)
  BY DEF PurposeKnown, TypeOK
<1>5. \/ disarmFor[a] = "claim" /\ pc'[a] = "releaseWaiters"
      \/ disarmFor[a] = "arm" /\ pc'[a] = "idle" /\ a # Watchdog
      \/ /\ disarmFor[a] = "destroy"
         /\ pc'[a] = (IF a = Watchdog THEN "fire" ELSE "idle")
  BY <1>1, <1>4 DEF DisarmedPc
<1>6. IF disarmFor[a] = "destroy"
      THEN /\ life' = [life EXCEPT ![object[a]] = "absent"]
           /\ deadline' = [deadline EXCEPT ![object[a]] = NoDeadline]
           /\ reason' = [reason EXCEPT ![object[a]] = "none"]
           /\ object'[a] = None
      ELSE UNCHANGED <<life, deadline, reason>> /\ object'[a] = object[a]
  BY DEF Disarmed, TypeOK
<1> QED BY <1>1, <1>2, <1>3, <1>5, <1>6

LEMMA DisarmEnds ==
    ASSUME TypeOK, PurposeKnown, NEW a \in Actors, Disarm(a), ~timer[object[a]],
           object[a] \in States
    PROVE  Ended(a)
<1>1. pc[a] \in DisarmPcs /\ pc[a] = "disarm" /\ Disarmed(a, pc)
  BY DEF Disarm, DisarmPcs
<1>2. timer' = timer
  BY DEF Disarm, TypeOK
<1> HIDE DEF Disarmed
<1> QED
  BY <1>1, <1>2, DisarmedEnds DEF Disarm, Ended, cbVars, watchVars,
      serviceVars, runVars

LEMMA UnregisterEnds ==
    ASSUME TypeOK, PurposeKnown, NEW a \in Actors, UnregisterEntry(a),
           object[a] \notin schedule
    PROVE  Ended(a)
<1>1. pc[a] \in DisarmPcs /\ pc[a] = "unregister" /\ Disarmed(a, pc)
  BY DEF UnregisterEntry, DisarmPcs
<1> HIDE DEF Disarmed
<1> QED
  BY <1>1, DisarmedEnds DEF UnregisterEntry, Ended, cbVars, runVars

LEMMA NotifyEnds ==
    ASSUME TypeOK, PurposeKnown, NEW a \in Actors, NotifyService(a)
    PROVE  Ended(a)
<1>1. pc[a] \in DisarmPcs /\ pc[a] = "notifyService" /\ Disarmed(a, WakeWatchdog(pc))
  BY DEF NotifyService, DisarmPcs
<1> HIDE DEF Disarmed
<1> QED
  BY <1>1, DisarmedEnds DEF NotifyService, Ended, cbVars, watchVars,
      serviceVars, runVars

(* What giving up a reference does.                                        *)
Released(a) ==
    /\ pc[a] = (IF a = Watchdog THEN "drop" ELSE "idle")
    /\ object[a] \in States /\ a \in owners[object[a]] /\ disarmFor[a] = "none"
    /\ \A b \in Actors \ {a} :
        object'[b] = object[b] /\ disarmFor'[b] = disarmFor[b] /\ pc'[b] = pc[b]
    /\ owners' = [owners EXCEPT ![object[a]] = @ \ {a}]
    /\ \/ /\ owners[object[a]] = {a}
          /\ life' = [life EXCEPT ![object[a]] = "dying"]
          /\ disarmFor'[a] = "destroy" /\ pc'[a] = "disarm" /\ object'[a] = object[a]
       \/ /\ owners[object[a]] # {a}
          /\ life' = life /\ object'[a] = None /\ disarmFor'[a] = "none"
          /\ pc'[a] = (IF a = Watchdog THEN "fire" ELSE "idle")
    /\ UNCHANGED <<now, deadline, reason, timer, waitMutex, cbMutex, callbacks,
                   running, calls, svcMutex, schedule, changed, due, scanned, until>>

LEMMA ReleaseReleases ==
    ASSUME TypeOK, PurposeKnown, OwnersAgree, NEW a \in Actors, object[a] \in States,
           pc[a] = (IF a = Watchdog THEN "drop" ELSE "idle"),
           Release(a, object[a], IF a = Watchdog THEN "fire" ELSE "idle"),
           UNCHANGED <<now, deadline, reason, timer, waitMutex, cbVars, watchVars, stopping>>
    PROVE  Released(a)
<1>1. disarmFor[a] = "none" /\ a \in owners[object[a]]
  BY DEF PurposeKnown, OwnersAgree, Destroying, DisarmPcs
<1>2. \A b \in Actors \ {a} :
        object'[b] = object[b] /\ disarmFor'[b] = disarmFor[b] /\ pc'[b] = pc[b]
  BY DEF Release, Goto, TypeOK
<1>3. \/ /\ owners[object[a]] = {a}
         /\ life' = [life EXCEPT ![object[a]] = "dying"]
         /\ disarmFor'[a] = "destroy" /\ pc'[a] = "disarm" /\ object'[a] = object[a]
      \/ /\ owners[object[a]] # {a}
         /\ life' = life /\ object'[a] = None /\ disarmFor'[a] = "none"
         /\ pc'[a] = (IF a = Watchdog THEN "fire" ELSE "idle")
  <2>1. CASE owners[object[a]] = {a}
    BY <2>1 DEF Release, Goto, TypeOK
  <2>2. CASE owners[object[a]] # {a}
    BY <1>1, <2>2 DEF Release, Goto, TypeOK
  <2> QED BY <2>1, <2>2
<1>4. owners' = [owners EXCEPT ![object[a]] = @ \ {a}]
  BY DEF Release
<1> QED
  BY <1>1, <1>2, <1>3, <1>4 DEF Released, cbVars, watchVars, serviceVars,
      runVars

LEMMA DropReleases ==
    ASSUME TypeOK, PurposeKnown, OwnersAgree, NEW t \in Threads, Drop(t)
    PROVE  Released(t)
<1>1. t \in Actors /\ t # Watchdog /\ object[t] \in States
  BY ActorAssumption DEF Drop, TypeOK, Actors
<1> HIDE DEF Release
<1> QED BY <1>1, ReleaseReleases DEF Drop

LEMMA DropFiredReleases ==
    ASSUME TypeOK, PurposeKnown, AtWork, OwnersAgree, DropFired
    PROVE  Released(Watchdog)
<1>1. Watchdog \in Actors /\ object[Watchdog] \in States
  BY DEF DropFired, TypeOK, Actors, AtWork
<1> HIDE DEF Release
<1> QED BY <1>1, ReleaseReleases DEF DropFired

(* What firing an entry of a live state does.                              *)
Fired(s) ==
    /\ s \in States /\ owners[s] # {} /\ due # <<>> /\ s = Head(due)
    /\ pc[Watchdog] = "fire" /\ object[Watchdog] = None /\ disarmFor[Watchdog] = "none"
    /\ pc'[Watchdog] = "claim" /\ object'[Watchdog] = s /\ disarmFor' = disarmFor
    /\ \A b \in Threads : object'[b] = object[b] /\ pc'[b] = pc[b]
    /\ owners' = [owners EXCEPT ![s] = @ \cup {Watchdog}]
    /\ due' = Tail(due)
    /\ UNCHANGED <<now, life, deadline, reason, timer, waitMutex, cbMutex, callbacks,
                   running, calls, svcMutex, schedule, changed, scanned, until>>

LEMMA FireFires ==
    ASSUME TypeOK, PurposeKnown, AtWork, Fire, owners[Head(due)] # {}
    PROVE  Fired(Head(due))
<1>1. Head(due) \in States /\ due # <<>> /\ pc[Watchdog] = "fire"
  BY HeadTailProperties DEF Fire, TypeOK
<1>2. object[Watchdog] = None /\ disarmFor[Watchdog] = "none"
  BY <1>1 DEF AtWork, PurposeKnown, ClaimPcs, DisarmPcs, Actors
<1>3. pc'[Watchdog] = "claim" /\ object'[Watchdog] = Head(due)
  BY <1>1 DEF Fire, Goto, TypeOK, Actors
<1>4. \A b \in Threads : object'[b] = object[b] /\ pc'[b] = pc[b]
  BY <1>1, ActorAssumption DEF Fire, Goto, TypeOK, Actors
<1> QED
  BY <1>1, <1>2, <1>3, <1>4 DEF Fire, Fired, cbVars, serviceVars

-----------------------------------------------------------------------------
(* An actor is an owner of the state it works on, and of no other, unless  *)
(* it destroys that state. Kept over the end of a disarm.                  *)
LEMMA OwnersAgreeEnded ==
    ASSUME TypeOK, References, Positions, NEW a \in Actors, Ended(a),
      object[a] \in States
    PROVE  OwnersAgree'
BY ActorAssumption
  DEF Ended, OwnersAgree, References, Positions, OwnedAreAlive,
      DestroyersAreLast, Destroying, PurposeKnown, AtWork, ArmingComesFirst,
      DisarmPcs, TypeOK, Actors, ClaimPcs

(* The same (OwnersAgree), kept over the release of a reference.           *)
LEMMA OwnersAgreeReleased ==
    ASSUME TypeOK, References, Positions, NEW a \in Actors, Released(a)
    PROVE  OwnersAgree'
BY ActorAssumption
  DEF Released, OwnersAgree, References, Positions, OwnedAreAlive,
      DestroyersAreLast, Destroying, PurposeKnown, AtWork, ArmingComesFirst,
      DisarmPcs, TypeOK, Actors, ClaimPcs

(* The same (OwnersAgree), kept over the firing of an entry.               *)
LEMMA OwnersAgreeFired ==
    ASSUME TypeOK, References, Positions, NEW z \in States, Fired(z)
    PROVE  OwnersAgree'
BY ActorAssumption
  DEF Fired, OwnersAgree, References, Positions, OwnedAreAlive,
      DestroyersAreLast, Destroying, PurposeKnown, AtWork, ArmingComesFirst,
      DisarmPcs, TypeOK, Actors, ClaimPcs

(* The same (OwnersAgree), kept over every step.                           *)
LEMMA OwnersAgreeStep ==
    ASSUME TypeOK, References, Positions, Next
    PROVE  OwnersAgree'
<1> USE ActorAssumption DEF At, Goto, OwnersAgree, References, Positions,
    OwnedAreAlive, DestroyersAreLast, Destroying, PurposeKnown, AtWork,
    ArmingComesFirst, DisarmPcs, dataVars, tokenVars, lifeVars, cbVars,
    serviceVars, runVars, callVars, watchVars, vars, TypeOK, Actors, ClaimPcs
<1>1. ASSUME NEW t \in Threads, NEW s \in States, NEW d \in Deadlines, Create(t, s, d)
      PROVE OwnersAgree'
  BY <1>1 DEF Create
<1>2. ASSUME NEW t \in Threads, ArmRegister(t) PROVE OwnersAgree'
  BY <1>2 DEF ArmRegister
<1>3. ASSUME NEW t \in Threads, ArmFails(t) PROVE OwnersAgree'
  BY <1>3 DEF ArmFails
<1>4. ASSUME NEW t \in Threads, ArmStore(t) PROVE OwnersAgree'
  BY <1>4 DEF ArmStore
<1>5. ASSUME NEW t \in Threads, NEW s \in States, Share(t, s) PROVE OwnersAgree'
  BY <1>5 DEF Share
<1>6. ASSUME NEW t \in Threads, Cancel(t) PROVE OwnersAgree'
  BY <1>6 DEF Cancel, StartClaim
<1>7. ASSUME NEW t \in Threads, Poll(t) PROVE OwnersAgree'
  BY <1>7 DEF Poll, StartClaim
<1>8. ASSUME NEW t \in Threads, Wait(t) PROVE OwnersAgree'
  BY <1>8 DEF Wait
<1>9. ASSUME NEW t \in Threads, StartRegister(t) PROVE OwnersAgree'
  BY <1>9 DEF StartRegister
<1>10. ASSUME NEW t \in Threads, DestroyRegistration(t) PROVE OwnersAgree'
  BY <1>10 DEF DestroyRegistration
<1>11. ASSUME NEW t \in Threads, DestroyInline(t) PROVE OwnersAgree'
  BY <1>11 DEF DestroyInline
<1>12. ASSUME NEW t \in Threads, WaitTest(t) PROVE OwnersAgree'
  BY <1>12 DEF WaitTest
<1>13. ASSUME NEW t \in Threads, WaitLock(t) PROVE OwnersAgree'
  BY <1>13 DEF WaitLock
<1>14. ASSUME NEW t \in Threads, RegisterStored(t) PROVE OwnersAgree'
  BY <1>14 DEF RegisterStored
<1>15. ASSUME NEW t \in Threads, RegisterInline(t) PROVE OwnersAgree'
  BY <1>15 DEF RegisterInline
<1>16. ASSUME NEW t \in Threads, Unregister(t) PROVE OwnersAgree'
  BY <1>16 DEF Unregister
<1>17. ASSUME NEW a \in Actors, NotifyWaiters(a) PROVE OwnersAgree'
  BY <1>17 DEF NotifyWaiters
<1>18. ASSUME NEW a \in Actors, CallBack(a) PROVE OwnersAgree'
  BY <1>18 DEF CallBack
<1>19. ASSUME NEW a \in Actors, CallbackReturns(a) PROVE OwnersAgree'
  BY <1>19 DEF CallbackReturns
<1>20. ASSUME NEW a \in Actors, ClaimReturns(a) PROVE OwnersAgree'
  BY <1>20 DEF ClaimReturns, AfterClaim
<1>21. ASSUME NEW a \in Actors, ReleaseWaiters(a) PROVE OwnersAgree'
  BY <1>21 DEF ReleaseWaiters
<1>22. ASSUME NEW a \in Actors, LockCallbacks(a) PROVE OwnersAgree'
  BY <1>22 DEF LockCallbacks
<1>23. ASSUME Collect PROVE OwnersAgree'
  BY <1>23 DEF Collect, Collected
<1>24. ASSUME CollectedAll PROVE OwnersAgree'
  BY <1>24 DEF CollectedAll
<1>25. ASSUME Sleep PROVE OwnersAgree'
  BY <1>25 DEF Sleep
<1>26. ASSUME TimeOut PROVE OwnersAgree'
  BY <1>26 DEF TimeOut
<1>27. ASSUME FiredAll PROVE OwnersAgree'
  BY <1>27 DEF FiredAll
<1>28. ASSUME Scan PROVE OwnersAgree'
  BY <1>28 DEF Scan
<1>29. ASSUME Tick PROVE OwnersAgree'
  BY <1>29 DEF Tick
<1> HIDE ActorAssumption DEF At, Goto, OwnersAgree, References, Positions,
    OwnedAreAlive, DestroyersAreLast, Destroying, PurposeKnown, AtWork,
    ArmingComesFirst, DisarmPcs, dataVars, tokenVars, lifeVars, cbVars,
    serviceVars, runVars, callVars, watchVars, vars, TypeOK, Actors, ClaimPcs
<1>30. ASSUME NEW t \in Threads, ArmNotify(t) PROVE OwnersAgree'
  <2>1. CASE pc[Watchdog] = "asleep"
    BY ActorAssumption, <1>30, <2>1
      DEF ArmNotify, WakeWatchdog, OwnersAgree, References, Positions,
          OwnedAreAlive, DestroyersAreLast, Destroying, PurposeKnown, AtWork,
          ArmingComesFirst, DisarmPcs, dataVars, tokenVars, lifeVars, cbVars,
          serviceVars, runVars, callVars, watchVars, TypeOK, Actors, ClaimPcs
  <2>2. CASE pc[Watchdog] # "asleep"
    BY ActorAssumption, <1>30, <2>2
      DEF ArmNotify, WakeWatchdog, OwnersAgree, References, Positions,
          OwnedAreAlive, DestroyersAreLast, Destroying, PurposeKnown, AtWork,
          ArmingComesFirst, DisarmPcs, dataVars, tokenVars, lifeVars, cbVars,
          serviceVars, runVars, callVars, watchVars, TypeOK, Actors, ClaimPcs
  <2> QED BY <2>1, <2>2
<1>31. ASSUME NEW t \in Threads, ArmRecheck(t) PROVE OwnersAgree'
  <2>1. CASE reason[object[t]] = "none"
    BY ActorAssumption, <1>31, <2>1
      DEF ArmRecheck, Goto, OwnersAgree, References, Positions, OwnedAreAlive,
          DestroyersAreLast, Destroying, PurposeKnown, AtWork,
          ArmingComesFirst, DisarmPcs, tokenVars, lifeVars, cbVars,
          serviceVars, runVars, watchVars, TypeOK, Actors, ClaimPcs
  <2>2. CASE reason[object[t]] # "none"
    BY ActorAssumption, <1>31, <2>2
      DEF ArmRecheck, Goto, OwnersAgree, References, Positions, OwnedAreAlive,
          DestroyersAreLast, Destroying, PurposeKnown, AtWork,
          ArmingComesFirst, DisarmPcs, tokenVars, lifeVars, cbVars,
          serviceVars, runVars, watchVars, TypeOK, Actors, ClaimPcs
  <2> QED BY <2>1, <2>2
<1>32. ASSUME NEW t \in Threads, Drop(t) PROVE OwnersAgree'
  <2>1. t \in Actors
    BY DEF Actors
  <2> QED BY <1>32, <2>1, DropReleases, OwnersAgreeReleased DEF References,
      Positions
<1>33. ASSUME NEW t \in Threads, WaitUnlock(t) PROVE OwnersAgree'
  <2>1. CASE pc[t] = "block"
    BY ActorAssumption, <1>33, <2>1
      DEF WaitUnlock, Goto, OwnersAgree, References, Positions, OwnedAreAlive,
          DestroyersAreLast, Destroying, PurposeKnown, AtWork,
          ArmingComesFirst, DisarmPcs, lifeVars, cbVars, serviceVars, runVars,
          callVars, watchVars, TypeOK, Actors, ClaimPcs
  <2>2. CASE pc[t] # "block"
    BY ActorAssumption, <1>33, <2>2
      DEF WaitUnlock, Goto, OwnersAgree, References, Positions, OwnedAreAlive,
          DestroyersAreLast, Destroying, PurposeKnown, AtWork,
          ArmingComesFirst, DisarmPcs, lifeVars, cbVars, serviceVars, runVars,
          callVars, watchVars, TypeOK, Actors, ClaimPcs
  <2> QED BY <2>1, <2>2
<1>34. ASSUME NEW a \in Actors, Disarm(a) PROVE OwnersAgree'
  <2>0. object[a] \in States
    BY <1>34, DisarmObject DEF Disarm, DisarmPcs
  <2>1. CASE timer[object[a]]
    BY ActorAssumption, <1>34, <2>0, <2>1
      DEF Disarm, Goto, Disarmed, DisarmedPc, OwnersAgree, References,
          Positions, OwnedAreAlive, DestroyersAreLast, Destroying,
          PurposeKnown, AtWork, ArmingComesFirst, DisarmPcs, cbVars,
          serviceVars, runVars, watchVars, TypeOK, Actors, ClaimPcs
  <2>2. CASE ~timer[object[a]]
    BY <1>34, <2>0, <2>2, DisarmEnds, OwnersAgreeEnded DEF Positions
  <2> QED BY <2>1, <2>2
<1>35. ASSUME NEW a \in Actors, NotifyService(a) PROVE OwnersAgree'
  <2>0. object[a] \in States
    BY <1>35, DisarmObject DEF NotifyService, DisarmPcs
  <2> QED BY <1>35, <2>0, NotifyEnds, OwnersAgreeEnded DEF Positions
<1>36. ASSUME NEW a \in Actors, ClaimReason(a) PROVE OwnersAgree'
  <2>1. CASE reason[object[a]] = "none"
    <3>1. owners' = owners /\ object' = object
      BY <1>36 DEF ClaimReason, lifeVars
    <3>2. \A b \in Actors : Destroying(b)' <=> Destroying(b)
      BY <1>36, <2>1 DEF ClaimReason, Destroying, Positions, PurposeKnown,
          DisarmPcs, TypeOK
    <3> QED BY <3>1, <3>2 DEF OwnersAgree, References
  <2>2. CASE reason[object[a]] # "none"
    BY ActorAssumption, <1>36, <2>2
      DEF ClaimReason, Goto, AfterClaim, OwnersAgree, References, Positions,
          OwnedAreAlive, DestroyersAreLast, Destroying, PurposeKnown, AtWork,
          ArmingComesFirst, DisarmPcs, lifeVars, cbVars, serviceVars, runVars,
          watchVars, TypeOK, Actors, ClaimPcs
  <2> QED BY <2>1, <2>2
<1>37. ASSUME NEW a \in Actors, UnregisterEntry(a) PROVE OwnersAgree'
  <2>0. object[a] \in States
    BY <1>37, DisarmObject DEF UnregisterEntry, DisarmPcs
  <2>1. CASE object[a] \in schedule
    BY ActorAssumption, <1>37, <2>0, <2>1
      DEF UnregisterEntry, Goto, OwnersAgree, References, Positions,
          OwnedAreAlive, DestroyersAreLast, Destroying, PurposeKnown, AtWork,
          ArmingComesFirst, DisarmPcs, cbVars, runVars, TypeOK, Actors,
          ClaimPcs
  <2>2. CASE object[a] \notin schedule
    BY <1>37, <2>0, <2>2, UnregisterEnds, OwnersAgreeEnded DEF Positions
  <2> QED BY <2>1, <2>2
<1>38. ASSUME Fire PROVE OwnersAgree'
  <2>1. CASE owners[Head(due)] = {}
    BY ActorAssumption, <1>38, <2>1
      DEF Fire, Goto, OwnersAgree, References, Positions, OwnedAreAlive,
          DestroyersAreLast, Destroying, PurposeKnown, AtWork,
          ArmingComesFirst, DisarmPcs, cbVars, serviceVars, TypeOK, Actors,
          ClaimPcs
  <2>2. CASE owners[Head(due)] # {}
    <3>1. Fired(Head(due))
      BY <1>38, <2>2, FireFires DEF Positions
    <3> QED BY <3>1, OwnersAgreeFired DEF Fired
  <2> QED BY <2>1, <2>2
<1>39. ASSUME DropFired PROVE OwnersAgree'
  <2>1. Watchdog \in Actors
    BY DEF Actors
  <2> QED BY <1>39, <2>1, DropFiredReleases, OwnersAgreeReleased DEF References,
      Positions
<1>40. ASSUME Woken PROVE OwnersAgree'
  <2>1. CASE changed \/ now >= until
    BY ActorAssumption, <1>40, <2>1
      DEF Woken, Goto, OwnersAgree, References, Positions, OwnedAreAlive,
          DestroyersAreLast, Destroying, PurposeKnown, AtWork,
          ArmingComesFirst, DisarmPcs, tokenVars, lifeVars, cbVars,
          serviceVars, callVars, TypeOK, Actors, ClaimPcs
  <2>2. CASE ~(changed \/ now >= until)
    BY ActorAssumption, <1>40, <2>2
      DEF Woken, Goto, OwnersAgree, References, Positions, OwnedAreAlive,
          DestroyersAreLast, Destroying, PurposeKnown, AtWork,
          ArmingComesFirst, DisarmPcs, tokenVars, lifeVars, cbVars,
          serviceVars, callVars, TypeOK, Actors, ClaimPcs
  <2> QED BY <2>1, <2>2
<1> QED
  BY <1>1, <1>2, <1>3, <1>4, <1>5, <1>6, <1>7, <1>8, <1>9, <1>10,
      <1>11, <1>12, <1>13, <1>14, <1>15, <1>16, <1>17, <1>18, <1>19, <1>20,
      <1>21, <1>22, <1>23, <1>24, <1>25, <1>26, <1>27, <1>28, <1>29, <1>30,
      <1>31, <1>32, <1>33, <1>34, <1>35, <1>36, <1>37, <1>38, <1>39, <1>40
  DEF Next, Optional, ThreadSteps, ThreadLocks, ClaimSteps, ClaimLocks,
      WatchdogSteps, WatchdogLocks, Actors

-----------------------------------------------------------------------------
(* A state that has an owner is alive. Kept over the end of a disarm.      *)
LEMMA OwnedAreAliveEnded ==
    ASSUME TypeOK, References, Positions, NEW a \in Actors, Ended(a),
      object[a] \in States
    PROVE  OwnedAreAlive'
BY ActorAssumption
  DEF Ended, OwnedAreAlive, References, Positions, OwnersAgree,
      DestroyersAreLast, Destroying, PurposeKnown, AtWork, ArmingComesFirst,
      DisarmPcs, TypeOK, Actors, ClaimPcs

(* The same (OwnedAreAlive), kept over the release of a reference.         *)
LEMMA OwnedAreAliveReleased ==
    ASSUME TypeOK, References, Positions, NEW a \in Actors, Released(a)
    PROVE  OwnedAreAlive'
BY ActorAssumption
  DEF Released, OwnedAreAlive, References, Positions, OwnersAgree,
      DestroyersAreLast, Destroying, PurposeKnown, AtWork, ArmingComesFirst,
      DisarmPcs, TypeOK, Actors, ClaimPcs

(* The same (OwnedAreAlive), kept over the firing of an entry.             *)
LEMMA OwnedAreAliveFired ==
    ASSUME TypeOK, References, Positions, NEW z \in States, Fired(z)
    PROVE  OwnedAreAlive'
BY ActorAssumption
  DEF Fired, OwnedAreAlive, References, Positions, OwnersAgree,
      DestroyersAreLast, Destroying, PurposeKnown, AtWork, ArmingComesFirst,
      DisarmPcs, TypeOK, Actors, ClaimPcs

(* The same (OwnedAreAlive), kept over every step.                         *)
LEMMA OwnedAreAliveStep ==
    ASSUME TypeOK, References, Positions, Next
    PROVE  OwnedAreAlive'
<1> USE ActorAssumption DEF At, Goto, OwnedAreAlive, References, Positions,
    OwnersAgree, DestroyersAreLast, Destroying, PurposeKnown, AtWork,
    ArmingComesFirst, DisarmPcs, dataVars, tokenVars, lifeVars, cbVars,
    serviceVars, runVars, callVars, watchVars, vars, TypeOK, Actors, ClaimPcs
<1>1. ASSUME NEW t \in Threads, NEW s \in States, NEW d \in Deadlines, Create(t, s, d)
      PROVE OwnedAreAlive'
  BY <1>1 DEF Create
<1>2. ASSUME NEW t \in Threads, ArmRegister(t) PROVE OwnedAreAlive'
  BY <1>2 DEF ArmRegister
<1>3. ASSUME NEW t \in Threads, ArmFails(t) PROVE OwnedAreAlive'
  BY <1>3 DEF ArmFails
<1>4. ASSUME NEW t \in Threads, ArmStore(t) PROVE OwnedAreAlive'
  BY <1>4 DEF ArmStore
<1>5. ASSUME NEW t \in Threads, NEW s \in States, Share(t, s)
      PROVE OwnedAreAlive'
  BY <1>5 DEF Share
<1>6. ASSUME NEW t \in Threads, Cancel(t) PROVE OwnedAreAlive'
  BY <1>6 DEF Cancel, StartClaim
<1>7. ASSUME NEW t \in Threads, Poll(t) PROVE OwnedAreAlive'
  BY <1>7 DEF Poll, StartClaim
<1>8. ASSUME NEW t \in Threads, Wait(t) PROVE OwnedAreAlive'
  BY <1>8 DEF Wait
<1>9. ASSUME NEW t \in Threads, StartRegister(t) PROVE OwnedAreAlive'
  BY <1>9 DEF StartRegister
<1>10. ASSUME NEW t \in Threads, DestroyRegistration(t) PROVE OwnedAreAlive'
  BY <1>10 DEF DestroyRegistration
<1>11. ASSUME NEW t \in Threads, DestroyInline(t) PROVE OwnedAreAlive'
  BY <1>11 DEF DestroyInline
<1>12. ASSUME NEW t \in Threads, WaitTest(t) PROVE OwnedAreAlive'
  BY <1>12 DEF WaitTest
<1>13. ASSUME NEW t \in Threads, WaitLock(t) PROVE OwnedAreAlive'
  BY <1>13 DEF WaitLock
<1>14. ASSUME NEW t \in Threads, RegisterStored(t) PROVE OwnedAreAlive'
  BY <1>14 DEF RegisterStored
<1>15. ASSUME NEW t \in Threads, RegisterInline(t) PROVE OwnedAreAlive'
  BY <1>15 DEF RegisterInline
<1>16. ASSUME NEW t \in Threads, Unregister(t) PROVE OwnedAreAlive'
  BY <1>16 DEF Unregister
<1>17. ASSUME NEW a \in Actors, NotifyWaiters(a) PROVE OwnedAreAlive'
  BY <1>17 DEF NotifyWaiters
<1>18. ASSUME NEW a \in Actors, CallBack(a) PROVE OwnedAreAlive'
  BY <1>18 DEF CallBack
<1>19. ASSUME NEW a \in Actors, CallbackReturns(a) PROVE OwnedAreAlive'
  BY <1>19 DEF CallbackReturns
<1>20. ASSUME NEW a \in Actors, ClaimReturns(a) PROVE OwnedAreAlive'
  BY <1>20 DEF ClaimReturns, AfterClaim
<1>21. ASSUME NEW a \in Actors, ReleaseWaiters(a) PROVE OwnedAreAlive'
  BY <1>21 DEF ReleaseWaiters
<1>22. ASSUME NEW a \in Actors, LockCallbacks(a) PROVE OwnedAreAlive'
  BY <1>22 DEF LockCallbacks
<1>23. ASSUME Collect PROVE OwnedAreAlive'
  BY <1>23 DEF Collect, Collected
<1>24. ASSUME CollectedAll PROVE OwnedAreAlive'
  BY <1>24 DEF CollectedAll
<1>25. ASSUME Sleep PROVE OwnedAreAlive'
  BY <1>25 DEF Sleep
<1>26. ASSUME TimeOut PROVE OwnedAreAlive'
  BY <1>26 DEF TimeOut
<1>27. ASSUME FiredAll PROVE OwnedAreAlive'
  BY <1>27 DEF FiredAll
<1>28. ASSUME Scan PROVE OwnedAreAlive'
  BY <1>28 DEF Scan
<1>29. ASSUME Tick PROVE OwnedAreAlive'
  BY <1>29 DEF Tick
<1> HIDE ActorAssumption DEF At, Goto, OwnedAreAlive, References, Positions,
    OwnersAgree, DestroyersAreLast, Destroying, PurposeKnown, AtWork,
    ArmingComesFirst, DisarmPcs, dataVars, tokenVars, lifeVars, cbVars,
    serviceVars, runVars, callVars, watchVars, vars, TypeOK, Actors, ClaimPcs
<1>30. ASSUME NEW t \in Threads, ArmNotify(t) PROVE OwnedAreAlive'
  <2>1. CASE pc[Watchdog] = "asleep"
    BY ActorAssumption, <1>30, <2>1
      DEF ArmNotify, WakeWatchdog, OwnedAreAlive, References, Positions,
          OwnersAgree, DestroyersAreLast, Destroying, PurposeKnown, AtWork,
          ArmingComesFirst, DisarmPcs, dataVars, tokenVars, lifeVars, cbVars,
          serviceVars, runVars, callVars, watchVars, TypeOK, Actors, ClaimPcs
  <2>2. CASE pc[Watchdog] # "asleep"
    BY ActorAssumption, <1>30, <2>2
      DEF ArmNotify, WakeWatchdog, OwnedAreAlive, References, Positions,
          OwnersAgree, DestroyersAreLast, Destroying, PurposeKnown, AtWork,
          ArmingComesFirst, DisarmPcs, dataVars, tokenVars, lifeVars, cbVars,
          serviceVars, runVars, callVars, watchVars, TypeOK, Actors, ClaimPcs
  <2> QED BY <2>1, <2>2
<1>31. ASSUME NEW t \in Threads, ArmRecheck(t) PROVE OwnedAreAlive'
  <2>1. CASE reason[object[t]] = "none"
    BY ActorAssumption, <1>31, <2>1
      DEF ArmRecheck, Goto, OwnedAreAlive, References, Positions, OwnersAgree,
          DestroyersAreLast, Destroying, PurposeKnown, AtWork,
          ArmingComesFirst, DisarmPcs, tokenVars, lifeVars, cbVars,
          serviceVars, runVars, watchVars, TypeOK, Actors, ClaimPcs
  <2>2. CASE reason[object[t]] # "none"
    BY ActorAssumption, <1>31, <2>2
      DEF ArmRecheck, Goto, OwnedAreAlive, References, Positions, OwnersAgree,
          DestroyersAreLast, Destroying, PurposeKnown, AtWork,
          ArmingComesFirst, DisarmPcs, tokenVars, lifeVars, cbVars,
          serviceVars, runVars, watchVars, TypeOK, Actors, ClaimPcs
  <2> QED BY <2>1, <2>2
<1>32. ASSUME NEW t \in Threads, Drop(t) PROVE OwnedAreAlive'
  <2>1. t \in Actors
    BY DEF Actors
  <2> QED BY <1>32, <2>1, DropReleases, OwnedAreAliveReleased DEF References,
      Positions
<1>33. ASSUME NEW t \in Threads, WaitUnlock(t) PROVE OwnedAreAlive'
  <2>1. CASE pc[t] = "block"
    BY ActorAssumption, <1>33, <2>1
      DEF WaitUnlock, Goto, OwnedAreAlive, References, Positions, OwnersAgree,
          DestroyersAreLast, Destroying, PurposeKnown, AtWork,
          ArmingComesFirst, DisarmPcs, lifeVars, cbVars, serviceVars, runVars,
          callVars, watchVars, TypeOK, Actors, ClaimPcs
  <2>2. CASE pc[t] # "block"
    BY ActorAssumption, <1>33, <2>2
      DEF WaitUnlock, Goto, OwnedAreAlive, References, Positions, OwnersAgree,
          DestroyersAreLast, Destroying, PurposeKnown, AtWork,
          ArmingComesFirst, DisarmPcs, lifeVars, cbVars, serviceVars, runVars,
          callVars, watchVars, TypeOK, Actors, ClaimPcs
  <2> QED BY <2>1, <2>2
<1>34. ASSUME NEW a \in Actors, Disarm(a) PROVE OwnedAreAlive'
  <2>0. object[a] \in States
    BY <1>34, DisarmObject DEF Disarm, DisarmPcs
  <2>1. CASE timer[object[a]]
    BY ActorAssumption, <1>34, <2>0, <2>1
      DEF Disarm, Goto, Disarmed, DisarmedPc, OwnedAreAlive, References,
          Positions, OwnersAgree, DestroyersAreLast, Destroying, PurposeKnown,
          AtWork, ArmingComesFirst, DisarmPcs, cbVars, serviceVars, runVars,
          watchVars, TypeOK, Actors, ClaimPcs
  <2>2. CASE ~timer[object[a]]
    BY <1>34, <2>0, <2>2, DisarmEnds, OwnedAreAliveEnded DEF Positions
  <2> QED BY <2>1, <2>2
<1>35. ASSUME NEW a \in Actors, NotifyService(a) PROVE OwnedAreAlive'
  <2>0. object[a] \in States
    BY <1>35, DisarmObject DEF NotifyService, DisarmPcs
  <2> QED BY <1>35, <2>0, NotifyEnds, OwnedAreAliveEnded DEF Positions
<1>36. ASSUME NEW a \in Actors, ClaimReason(a) PROVE OwnedAreAlive'
  <2>1. CASE reason[object[a]] = "none"
    BY ActorAssumption, <1>36, <2>1
      DEF ClaimReason, Goto, AfterClaim, OwnedAreAlive, References, Positions,
          OwnersAgree, DestroyersAreLast, Destroying, PurposeKnown, AtWork,
          ArmingComesFirst, DisarmPcs, lifeVars, cbVars, serviceVars, runVars,
          watchVars, TypeOK, Actors, ClaimPcs
  <2>2. CASE reason[object[a]] # "none"
    BY ActorAssumption, <1>36, <2>2
      DEF ClaimReason, Goto, AfterClaim, OwnedAreAlive, References, Positions,
          OwnersAgree, DestroyersAreLast, Destroying, PurposeKnown, AtWork,
          ArmingComesFirst, DisarmPcs, lifeVars, cbVars, serviceVars, runVars,
          watchVars, TypeOK, Actors, ClaimPcs
  <2> QED BY <2>1, <2>2
<1>37. ASSUME NEW a \in Actors, UnregisterEntry(a) PROVE OwnedAreAlive'
  <2>0. object[a] \in States
    BY <1>37, DisarmObject DEF UnregisterEntry, DisarmPcs
  <2>1. CASE object[a] \in schedule
    BY ActorAssumption, <1>37, <2>0, <2>1
      DEF UnregisterEntry, Goto, OwnedAreAlive, References, Positions,
          OwnersAgree, DestroyersAreLast, Destroying, PurposeKnown, AtWork,
          ArmingComesFirst, DisarmPcs, cbVars, runVars, TypeOK, Actors,
          ClaimPcs
  <2>2. CASE object[a] \notin schedule
    BY <1>37, <2>0, <2>2, UnregisterEnds, OwnedAreAliveEnded DEF Positions
  <2> QED BY <2>1, <2>2
<1>38. ASSUME Fire PROVE OwnedAreAlive'
  <2>1. CASE owners[Head(due)] = {}
    BY ActorAssumption, <1>38, <2>1
      DEF Fire, Goto, OwnedAreAlive, References, Positions, OwnersAgree,
          DestroyersAreLast, Destroying, PurposeKnown, AtWork,
          ArmingComesFirst, DisarmPcs, cbVars, serviceVars, TypeOK, Actors,
          ClaimPcs
  <2>2. CASE owners[Head(due)] # {}
    <3>1. Fired(Head(due))
      BY <1>38, <2>2, FireFires DEF Positions
    <3> QED BY <3>1, OwnedAreAliveFired DEF Fired
  <2> QED BY <2>1, <2>2
<1>39. ASSUME DropFired PROVE OwnedAreAlive'
  <2>1. Watchdog \in Actors
    BY DEF Actors
  <2> QED BY <1>39, <2>1, DropFiredReleases, OwnedAreAliveReleased DEF References,
      Positions
<1>40. ASSUME Woken PROVE OwnedAreAlive'
  <2>1. CASE changed \/ now >= until
    BY ActorAssumption, <1>40, <2>1
      DEF Woken, Goto, OwnedAreAlive, References, Positions, OwnersAgree,
          DestroyersAreLast, Destroying, PurposeKnown, AtWork,
          ArmingComesFirst, DisarmPcs, tokenVars, lifeVars, cbVars,
          serviceVars, callVars, TypeOK, Actors, ClaimPcs
  <2>2. CASE ~(changed \/ now >= until)
    BY ActorAssumption, <1>40, <2>2
      DEF Woken, Goto, OwnedAreAlive, References, Positions, OwnersAgree,
          DestroyersAreLast, Destroying, PurposeKnown, AtWork,
          ArmingComesFirst, DisarmPcs, tokenVars, lifeVars, cbVars,
          serviceVars, callVars, TypeOK, Actors, ClaimPcs
  <2> QED BY <2>1, <2>2
<1> QED
  BY <1>1, <1>2, <1>3, <1>4, <1>5, <1>6, <1>7, <1>8, <1>9, <1>10,
      <1>11, <1>12, <1>13, <1>14, <1>15, <1>16, <1>17, <1>18, <1>19, <1>20,
      <1>21, <1>22, <1>23, <1>24, <1>25, <1>26, <1>27, <1>28, <1>29, <1>30,
      <1>31, <1>32, <1>33, <1>34, <1>35, <1>36, <1>37, <1>38, <1>39, <1>40
  DEF Next, Optional, ThreadSteps, ThreadLocks, ClaimSteps, ClaimLocks,
      WatchdogSteps, WatchdogLocks, Actors

-----------------------------------------------------------------------------
(* The actor that destroys a state is the only one left that works on it.  *)
(* Kept over the end of a disarm.                                          *)
LEMMA DestroyersAreLastEnded ==
    ASSUME TypeOK, References, Positions, NEW a \in Actors, Ended(a),
      object[a] \in States
    PROVE  DestroyersAreLast'
BY ActorAssumption
  DEF Ended, DestroyersAreLast, References, Positions, OwnersAgree,
      OwnedAreAlive, Destroying, PurposeKnown, AtWork, ArmingComesFirst,
      DisarmPcs, TypeOK, Actors, ClaimPcs

(* The same (DestroyersAreLast), kept over the release of a reference.     *)
LEMMA DestroyersAreLastReleased ==
    ASSUME TypeOK, References, Positions, NEW a \in Actors, Released(a)
    PROVE  DestroyersAreLast'
BY ActorAssumption
  DEF Released, DestroyersAreLast, References, Positions, OwnersAgree,
      OwnedAreAlive, Destroying, PurposeKnown, AtWork, ArmingComesFirst,
      DisarmPcs, TypeOK, Actors, ClaimPcs

(* The same (DestroyersAreLast), kept over the firing of an entry.         *)
LEMMA DestroyersAreLastFired ==
    ASSUME TypeOK, References, Positions, NEW z \in States, Fired(z)
    PROVE  DestroyersAreLast'
BY ActorAssumption
  DEF Fired, DestroyersAreLast, References, Positions, OwnersAgree,
      OwnedAreAlive, Destroying, PurposeKnown, AtWork, ArmingComesFirst,
      DisarmPcs, TypeOK, Actors, ClaimPcs

(* The same (DestroyersAreLast), kept over every step.                     *)
LEMMA DestroyersAreLastStep ==
    ASSUME TypeOK, References, Positions, Next
    PROVE  DestroyersAreLast'
<1> USE ActorAssumption DEF At, Goto, DestroyersAreLast, References,
    Positions, OwnersAgree, OwnedAreAlive, Destroying, PurposeKnown, AtWork,
    ArmingComesFirst, DisarmPcs, dataVars, tokenVars, lifeVars, cbVars,
    serviceVars, runVars, callVars, watchVars, vars, TypeOK, Actors, ClaimPcs
<1>1. ASSUME NEW t \in Threads, NEW s \in States, NEW d \in Deadlines, Create(t, s, d)
      PROVE DestroyersAreLast'
  BY <1>1 DEF Create
<1>2. ASSUME NEW t \in Threads, ArmRegister(t) PROVE DestroyersAreLast'
  BY <1>2 DEF ArmRegister
<1>3. ASSUME NEW t \in Threads, ArmFails(t) PROVE DestroyersAreLast'
  BY <1>3 DEF ArmFails
<1>4. ASSUME NEW t \in Threads, NEW s \in States, Share(t, s)
      PROVE DestroyersAreLast'
  BY <1>4 DEF Share
<1>5. ASSUME NEW t \in Threads, Cancel(t) PROVE DestroyersAreLast'
  BY <1>5 DEF Cancel, StartClaim
<1>6. ASSUME NEW t \in Threads, Poll(t) PROVE DestroyersAreLast'
  BY <1>6 DEF Poll, StartClaim
<1>7. ASSUME NEW t \in Threads, Wait(t) PROVE DestroyersAreLast'
  BY <1>7 DEF Wait
<1>8. ASSUME NEW t \in Threads, StartRegister(t) PROVE DestroyersAreLast'
  BY <1>8 DEF StartRegister
<1>9. ASSUME NEW t \in Threads, DestroyRegistration(t) PROVE DestroyersAreLast'
  BY <1>9 DEF DestroyRegistration
<1>10. ASSUME NEW t \in Threads, DestroyInline(t) PROVE DestroyersAreLast'
  BY <1>10 DEF DestroyInline
<1>11. ASSUME NEW t \in Threads, WaitTest(t) PROVE DestroyersAreLast'
  BY <1>11 DEF WaitTest
<1>12. ASSUME NEW t \in Threads, WaitLock(t) PROVE DestroyersAreLast'
  BY <1>12 DEF WaitLock
<1>13. ASSUME NEW t \in Threads, RegisterStored(t) PROVE DestroyersAreLast'
  BY <1>13 DEF RegisterStored
<1>14. ASSUME NEW t \in Threads, RegisterInline(t) PROVE DestroyersAreLast'
  BY <1>14 DEF RegisterInline
<1>15. ASSUME NEW t \in Threads, Unregister(t) PROVE DestroyersAreLast'
  BY <1>15 DEF Unregister
<1>16. ASSUME NEW a \in Actors, NotifyWaiters(a) PROVE DestroyersAreLast'
  BY <1>16 DEF NotifyWaiters
<1>17. ASSUME NEW a \in Actors, CallBack(a) PROVE DestroyersAreLast'
  BY <1>17 DEF CallBack
<1>18. ASSUME NEW a \in Actors, CallbackReturns(a) PROVE DestroyersAreLast'
  BY <1>18 DEF CallbackReturns
<1>19. ASSUME NEW a \in Actors, ClaimReturns(a) PROVE DestroyersAreLast'
  BY <1>19 DEF ClaimReturns, AfterClaim
<1>20. ASSUME NEW a \in Actors, ReleaseWaiters(a) PROVE DestroyersAreLast'
  BY <1>20 DEF ReleaseWaiters
<1>21. ASSUME NEW a \in Actors, LockCallbacks(a) PROVE DestroyersAreLast'
  BY <1>21 DEF LockCallbacks
<1>22. ASSUME Collect PROVE DestroyersAreLast'
  BY <1>22 DEF Collect, Collected
<1>23. ASSUME CollectedAll PROVE DestroyersAreLast'
  BY <1>23 DEF CollectedAll
<1>24. ASSUME Sleep PROVE DestroyersAreLast'
  BY <1>24 DEF Sleep
<1>25. ASSUME TimeOut PROVE DestroyersAreLast'
  BY <1>25 DEF TimeOut
<1>26. ASSUME FiredAll PROVE DestroyersAreLast'
  BY <1>26 DEF FiredAll
<1>27. ASSUME Scan PROVE DestroyersAreLast'
  BY <1>27 DEF Scan
<1>28. ASSUME Tick PROVE DestroyersAreLast'
  BY <1>28 DEF Tick
<1> HIDE ActorAssumption DEF At, Goto, DestroyersAreLast, References,
    Positions, OwnersAgree, OwnedAreAlive, Destroying, PurposeKnown, AtWork,
    ArmingComesFirst, DisarmPcs, dataVars, tokenVars, lifeVars, cbVars,
    serviceVars, runVars, callVars, watchVars, vars, TypeOK, Actors, ClaimPcs
<1>29. ASSUME NEW t \in Threads, ArmNotify(t) PROVE DestroyersAreLast'
  <2>1. CASE pc[Watchdog] = "asleep"
    BY ActorAssumption, <1>29, <2>1
      DEF ArmNotify, WakeWatchdog, DestroyersAreLast, References, Positions,
          OwnersAgree, OwnedAreAlive, Destroying, PurposeKnown, AtWork,
          ArmingComesFirst, DisarmPcs, dataVars, tokenVars, lifeVars, cbVars,
          serviceVars, runVars, callVars, watchVars, TypeOK, Actors, ClaimPcs
  <2>2. CASE pc[Watchdog] # "asleep"
    BY ActorAssumption, <1>29, <2>2
      DEF ArmNotify, WakeWatchdog, DestroyersAreLast, References, Positions,
          OwnersAgree, OwnedAreAlive, Destroying, PurposeKnown, AtWork,
          ArmingComesFirst, DisarmPcs, dataVars, tokenVars, lifeVars, cbVars,
          serviceVars, runVars, callVars, watchVars, TypeOK, Actors, ClaimPcs
  <2> QED BY <2>1, <2>2
<1>30. ASSUME NEW t \in Threads, ArmStore(t) PROVE DestroyersAreLast'
  <2>1. /\ timer' = [timer EXCEPT ![object[t]] = TRUE]
        /\ pc' = [pc EXCEPT ![t] = "recheck"] /\ pc[t] = "store"
        /\ UNCHANGED <<life, owners, object, disarmFor>>
    BY <1>30 DEF ArmStore, At, Goto, lifeVars, callVars
  <2>2. object[t] \in States /\ t \in owners[object[t]]
    <3>1. t \in Actors /\ object[t] \in States
      BY <2>1 DEF Positions, AtWork, TypeOK, Actors
    <3>2. disarmFor[t] = "none"
      BY <2>1, <3>1 DEF Positions, PurposeKnown, DisarmPcs
    <3> QED BY <3>1, <3>2 DEF References, OwnersAgree, Destroying
  <2>3. ASSUME NEW a \in Actors, Destroying(a)'
        PROVE  /\ Destroying(a) /\ object[a] # object[t] /\ object[a] \in States
    BY <2>1, <2>2, <2>3 DEF References, DestroyersAreLast, Destroying, TypeOK
  <2> QED
    BY <2>1, <2>2, <2>3
      DEF References, DestroyersAreLast, Destroying, TypeOK
<1>31. ASSUME NEW t \in Threads, ArmRecheck(t) PROVE DestroyersAreLast'
  <2>1. CASE reason[object[t]] = "none"
    BY ActorAssumption, <1>31, <2>1
      DEF ArmRecheck, Goto, DestroyersAreLast, References, Positions,
          OwnersAgree, OwnedAreAlive, Destroying, PurposeKnown, AtWork,
          ArmingComesFirst, DisarmPcs, tokenVars, lifeVars, cbVars,
          serviceVars, runVars, watchVars, TypeOK, Actors, ClaimPcs
  <2>2. CASE reason[object[t]] # "none"
    BY ActorAssumption, <1>31, <2>2
      DEF ArmRecheck, Goto, DestroyersAreLast, References, Positions,
          OwnersAgree, OwnedAreAlive, Destroying, PurposeKnown, AtWork,
          ArmingComesFirst, DisarmPcs, tokenVars, lifeVars, cbVars,
          serviceVars, runVars, watchVars, TypeOK, Actors, ClaimPcs
  <2> QED BY <2>1, <2>2
<1>32. ASSUME NEW t \in Threads, Drop(t) PROVE DestroyersAreLast'
  <2>1. t \in Actors
    BY DEF Actors
  <2> QED BY <1>32, <2>1, DropReleases, DestroyersAreLastReleased DEF References,
      Positions
<1>33. ASSUME NEW t \in Threads, WaitUnlock(t) PROVE DestroyersAreLast'
  <2>1. CASE pc[t] = "block"
    BY ActorAssumption, <1>33, <2>1
      DEF WaitUnlock, Goto, DestroyersAreLast, References, Positions,
          OwnersAgree, OwnedAreAlive, Destroying, PurposeKnown, AtWork,
          ArmingComesFirst, DisarmPcs, lifeVars, cbVars, serviceVars, runVars,
          callVars, watchVars, TypeOK, Actors, ClaimPcs
  <2>2. CASE pc[t] # "block"
    BY ActorAssumption, <1>33, <2>2
      DEF WaitUnlock, Goto, DestroyersAreLast, References, Positions,
          OwnersAgree, OwnedAreAlive, Destroying, PurposeKnown, AtWork,
          ArmingComesFirst, DisarmPcs, lifeVars, cbVars, serviceVars, runVars,
          callVars, watchVars, TypeOK, Actors, ClaimPcs
  <2> QED BY <2>1, <2>2
<1>34. ASSUME NEW a \in Actors, Disarm(a) PROVE DestroyersAreLast'
  <2>0. object[a] \in States
    BY <1>34, DisarmObject DEF Disarm, DisarmPcs
  <2>1. CASE timer[object[a]]
    BY ActorAssumption, <1>34, <2>0, <2>1
      DEF Disarm, Goto, Disarmed, DisarmedPc, DestroyersAreLast, References,
          Positions, OwnersAgree, OwnedAreAlive, Destroying, PurposeKnown,
          AtWork, ArmingComesFirst, DisarmPcs, cbVars, serviceVars, runVars,
          watchVars, TypeOK, Actors, ClaimPcs
  <2>2. CASE ~timer[object[a]]
    BY <1>34, <2>0, <2>2, DisarmEnds, DestroyersAreLastEnded DEF Positions
  <2> QED BY <2>1, <2>2
<1>35. ASSUME NEW a \in Actors, NotifyService(a) PROVE DestroyersAreLast'
  <2>0. object[a] \in States
    BY <1>35, DisarmObject DEF NotifyService, DisarmPcs
  <2> QED BY <1>35, <2>0, NotifyEnds, DestroyersAreLastEnded DEF Positions
<1>36. ASSUME NEW a \in Actors, ClaimReason(a) PROVE DestroyersAreLast'
  <2>1. CASE reason[object[a]] = "none"
    BY ActorAssumption, <1>36, <2>1
      DEF ClaimReason, Goto, AfterClaim, DestroyersAreLast, References,
          Positions, OwnersAgree, OwnedAreAlive, Destroying, PurposeKnown,
          AtWork, ArmingComesFirst, DisarmPcs, lifeVars, cbVars, serviceVars,
          runVars, watchVars, TypeOK, Actors, ClaimPcs
  <2>2. CASE reason[object[a]] # "none"
    BY ActorAssumption, <1>36, <2>2
      DEF ClaimReason, Goto, AfterClaim, DestroyersAreLast, References,
          Positions, OwnersAgree, OwnedAreAlive, Destroying, PurposeKnown,
          AtWork, ArmingComesFirst, DisarmPcs, lifeVars, cbVars, serviceVars,
          runVars, watchVars, TypeOK, Actors, ClaimPcs
  <2> QED BY <2>1, <2>2
<1>37. ASSUME NEW a \in Actors, UnregisterEntry(a) PROVE DestroyersAreLast'
  <2>0. object[a] \in States
    BY <1>37, DisarmObject DEF UnregisterEntry, DisarmPcs
  <2>1. CASE object[a] \in schedule
    BY ActorAssumption, <1>37, <2>0, <2>1
      DEF UnregisterEntry, Goto, DestroyersAreLast, References, Positions,
          OwnersAgree, OwnedAreAlive, Destroying, PurposeKnown, AtWork,
          ArmingComesFirst, DisarmPcs, cbVars, runVars, TypeOK, Actors,
          ClaimPcs
  <2>2. CASE object[a] \notin schedule
    BY <1>37, <2>0, <2>2, UnregisterEnds, DestroyersAreLastEnded DEF Positions
  <2> QED BY <2>1, <2>2
<1>38. ASSUME Fire PROVE DestroyersAreLast'
  <2>1. CASE owners[Head(due)] = {}
    BY ActorAssumption, <1>38, <2>1
      DEF Fire, Goto, DestroyersAreLast, References, Positions, OwnersAgree,
          OwnedAreAlive, Destroying, PurposeKnown, AtWork, ArmingComesFirst,
          DisarmPcs, cbVars, serviceVars, TypeOK, Actors, ClaimPcs
  <2>2. CASE owners[Head(due)] # {}
    <3>1. Fired(Head(due))
      BY <1>38, <2>2, FireFires DEF Positions
    <3> QED BY <3>1, DestroyersAreLastFired DEF Fired
  <2> QED BY <2>1, <2>2
<1>39. ASSUME DropFired PROVE DestroyersAreLast'
  <2>1. Watchdog \in Actors
    BY DEF Actors
  <2> QED BY <1>39, <2>1, DropFiredReleases, DestroyersAreLastReleased DEF References,
      Positions
<1>40. ASSUME Woken PROVE DestroyersAreLast'
  <2>1. CASE changed \/ now >= until
    BY ActorAssumption, <1>40, <2>1
      DEF Woken, Goto, DestroyersAreLast, References, Positions, OwnersAgree,
          OwnedAreAlive, Destroying, PurposeKnown, AtWork, ArmingComesFirst,
          DisarmPcs, tokenVars, lifeVars, cbVars, serviceVars, callVars,
          TypeOK, Actors, ClaimPcs
  <2>2. CASE ~(changed \/ now >= until)
    BY ActorAssumption, <1>40, <2>2
      DEF Woken, Goto, DestroyersAreLast, References, Positions, OwnersAgree,
          OwnedAreAlive, Destroying, PurposeKnown, AtWork, ArmingComesFirst,
          DisarmPcs, tokenVars, lifeVars, cbVars, serviceVars, callVars,
          TypeOK, Actors, ClaimPcs
  <2> QED BY <2>1, <2>2
<1> QED
  BY <1>1, <1>2, <1>3, <1>4, <1>5, <1>6, <1>7, <1>8, <1>9, <1>10,
      <1>11, <1>12, <1>13, <1>14, <1>15, <1>16, <1>17, <1>18, <1>19, <1>20,
      <1>21, <1>22, <1>23, <1>24, <1>25, <1>26, <1>27, <1>28, <1>29, <1>30,
      <1>31, <1>32, <1>33, <1>34, <1>35, <1>36, <1>37, <1>38, <1>39, <1>40
  DEF Next, Optional, ThreadSteps, ThreadLocks, ClaimSteps, ClaimLocks,
      WatchdogSteps, WatchdogLocks, Actors

-----------------------------------------------------------------------------
(* DisarmDeadline knows its caller, which is never ArmDeadline on the      *)
(* watchdog. Kept over the end of a disarm.                                *)
LEMMA PurposeKnownEnded ==
    ASSUME TypeOK, Positions, References, NEW a \in Actors, Ended(a),
      object[a] \in States
    PROVE  PurposeKnown'
<1>1. \A b \in Actors : (disarmFor'[b] = "none") <=> pc'[b] \notin DisarmPcs
  <2> TAKE b \in Actors
  <2>1. CASE b = a
    BY <2>1 DEF Ended, DisarmPcs
  <2>2. CASE b # a
    BY <2>2 DEF Ended, Positions, PurposeKnown, DisarmPcs
  <2> QED BY <2>1, <2>2
<1>2. disarmFor'[Watchdog] # "arm"
  BY DEF Ended, Positions, PurposeKnown, Actors
<1> QED BY <1>1, <1>2 DEF PurposeKnown

(* The same (PurposeKnown), kept over the release of a reference.          *)
LEMMA PurposeKnownReleased ==
    ASSUME TypeOK, Positions, References, NEW a \in Actors, Released(a)
    PROVE  PurposeKnown'
<1>1. \A b \in Actors : (disarmFor'[b] = "none") <=> pc'[b] \notin DisarmPcs
  <2> TAKE b \in Actors
  <2>1. CASE b = a
    BY <2>1 DEF Released, DisarmPcs
  <2>2. CASE b # a
    BY <2>2 DEF Released, Positions, PurposeKnown, DisarmPcs
  <2> QED BY <2>1, <2>2
<1>2. disarmFor'[Watchdog] # "arm"
  BY DEF Released, Positions, PurposeKnown, Actors
<1> QED BY <1>1, <1>2 DEF PurposeKnown

(* The same (PurposeKnown), kept over the firing of an entry.              *)
LEMMA PurposeKnownFired ==
    ASSUME TypeOK, Positions, References, NEW z \in States, Fired(z)
    PROVE  PurposeKnown'
BY ActorAssumption
  DEF Fired, PurposeKnown, Positions, References, AtWork, ArmingComesFirst,
      DisarmPcs, OwnersAgree, OwnedAreAlive, DestroyersAreLast, Destroying,
      TypeOK, Actors, ClaimPcs

(* The same (PurposeKnown), kept over every step.                          *)
LEMMA PurposeKnownStep ==
    ASSUME TypeOK, Positions, References, Next
    PROVE  PurposeKnown'
<1> USE ActorAssumption DEF At, Goto, PurposeKnown, Positions, References,
    AtWork, ArmingComesFirst, DisarmPcs, OwnersAgree, OwnedAreAlive,
    DestroyersAreLast, Destroying, dataVars, tokenVars, lifeVars, cbVars,
    serviceVars, runVars, callVars, watchVars, vars, TypeOK, Actors, ClaimPcs
<1>1. ASSUME NEW t \in Threads, NEW s \in States, NEW d \in Deadlines, Create(t, s, d)
      PROVE PurposeKnown'
  BY <1>1 DEF Create
<1>2. ASSUME NEW t \in Threads, ArmRegister(t) PROVE PurposeKnown'
  BY <1>2 DEF ArmRegister
<1>3. ASSUME NEW t \in Threads, ArmFails(t) PROVE PurposeKnown'
  BY <1>3 DEF ArmFails
<1>4. ASSUME NEW t \in Threads, ArmStore(t) PROVE PurposeKnown'
  BY <1>4 DEF ArmStore
<1>5. ASSUME NEW t \in Threads, NEW s \in States, Share(t, s)
      PROVE PurposeKnown'
  BY <1>5 DEF Share
<1>6. ASSUME NEW t \in Threads, Cancel(t) PROVE PurposeKnown'
  BY <1>6 DEF Cancel, StartClaim
<1>7. ASSUME NEW t \in Threads, Poll(t) PROVE PurposeKnown'
  BY <1>7 DEF Poll, StartClaim
<1>8. ASSUME NEW t \in Threads, Wait(t) PROVE PurposeKnown'
  BY <1>8 DEF Wait
<1>9. ASSUME NEW t \in Threads, StartRegister(t) PROVE PurposeKnown'
  BY <1>9 DEF StartRegister
<1>10. ASSUME NEW t \in Threads, DestroyRegistration(t) PROVE PurposeKnown'
  BY <1>10 DEF DestroyRegistration
<1>11. ASSUME NEW t \in Threads, DestroyInline(t) PROVE PurposeKnown'
  BY <1>11 DEF DestroyInline
<1>12. ASSUME NEW t \in Threads, WaitTest(t) PROVE PurposeKnown'
  BY <1>12 DEF WaitTest
<1>13. ASSUME NEW t \in Threads, WaitLock(t) PROVE PurposeKnown'
  BY <1>13 DEF WaitLock
<1>14. ASSUME NEW t \in Threads, RegisterStored(t) PROVE PurposeKnown'
  BY <1>14 DEF RegisterStored
<1>15. ASSUME NEW t \in Threads, RegisterInline(t) PROVE PurposeKnown'
  BY <1>15 DEF RegisterInline
<1>16. ASSUME NEW t \in Threads, Unregister(t) PROVE PurposeKnown'
  BY <1>16 DEF Unregister
<1>17. ASSUME NEW a \in Actors, NotifyWaiters(a) PROVE PurposeKnown'
  BY <1>17 DEF NotifyWaiters
<1>18. ASSUME NEW a \in Actors, CallBack(a) PROVE PurposeKnown'
  BY <1>18 DEF CallBack
<1>19. ASSUME NEW a \in Actors, CallbackReturns(a) PROVE PurposeKnown'
  BY <1>19 DEF CallbackReturns
<1>20. ASSUME NEW a \in Actors, ClaimReturns(a) PROVE PurposeKnown'
  BY <1>20 DEF ClaimReturns, AfterClaim
<1>21. ASSUME NEW a \in Actors, ReleaseWaiters(a) PROVE PurposeKnown'
  BY <1>21 DEF ReleaseWaiters
<1>22. ASSUME NEW a \in Actors, LockCallbacks(a) PROVE PurposeKnown'
  BY <1>22 DEF LockCallbacks
<1>23. ASSUME Collect PROVE PurposeKnown'
  BY <1>23 DEF Collect, Collected
<1>24. ASSUME CollectedAll PROVE PurposeKnown'
  BY <1>24 DEF CollectedAll
<1>25. ASSUME Sleep PROVE PurposeKnown'
  BY <1>25 DEF Sleep
<1>26. ASSUME TimeOut PROVE PurposeKnown'
  BY <1>26 DEF TimeOut
<1>27. ASSUME FiredAll PROVE PurposeKnown'
  BY <1>27 DEF FiredAll
<1>28. ASSUME Scan PROVE PurposeKnown'
  BY <1>28 DEF Scan
<1>29. ASSUME Tick PROVE PurposeKnown'
  BY <1>29 DEF Tick
<1> HIDE ActorAssumption DEF At, Goto, PurposeKnown, Positions, References,
    AtWork, ArmingComesFirst, DisarmPcs, OwnersAgree, OwnedAreAlive,
    DestroyersAreLast, Destroying, dataVars, tokenVars, lifeVars, cbVars,
    serviceVars, runVars, callVars, watchVars, vars, TypeOK, Actors, ClaimPcs
<1>30. ASSUME NEW t \in Threads, ArmNotify(t) PROVE PurposeKnown'
  <2>1. CASE pc[Watchdog] = "asleep"
    BY ActorAssumption, <1>30, <2>1
      DEF ArmNotify, WakeWatchdog, PurposeKnown, Positions, References,
          AtWork, ArmingComesFirst, DisarmPcs, OwnersAgree, OwnedAreAlive,
          DestroyersAreLast, Destroying, dataVars, tokenVars, lifeVars,
          cbVars, serviceVars, runVars, callVars, watchVars, TypeOK, Actors,
          ClaimPcs
  <2>2. CASE pc[Watchdog] # "asleep"
    BY ActorAssumption, <1>30, <2>2
      DEF ArmNotify, WakeWatchdog, PurposeKnown, Positions, References,
          AtWork, ArmingComesFirst, DisarmPcs, OwnersAgree, OwnedAreAlive,
          DestroyersAreLast, Destroying, dataVars, tokenVars, lifeVars,
          cbVars, serviceVars, runVars, callVars, watchVars, TypeOK, Actors,
          ClaimPcs
  <2> QED BY <2>1, <2>2
<1>31. ASSUME NEW t \in Threads, ArmRecheck(t) PROVE PurposeKnown'
  <2>1. CASE reason[object[t]] = "none"
    BY ActorAssumption, <1>31, <2>1
      DEF ArmRecheck, Goto, PurposeKnown, Positions, References, AtWork,
          ArmingComesFirst, DisarmPcs, OwnersAgree, OwnedAreAlive,
          DestroyersAreLast, Destroying, tokenVars, lifeVars, cbVars,
          serviceVars, runVars, watchVars, TypeOK, Actors, ClaimPcs
  <2>2. CASE reason[object[t]] # "none"
    BY ActorAssumption, <1>31, <2>2
      DEF ArmRecheck, Goto, PurposeKnown, Positions, References, AtWork,
          ArmingComesFirst, DisarmPcs, OwnersAgree, OwnedAreAlive,
          DestroyersAreLast, Destroying, tokenVars, lifeVars, cbVars,
          serviceVars, runVars, watchVars, TypeOK, Actors, ClaimPcs
  <2> QED BY <2>1, <2>2
<1>32. ASSUME NEW t \in Threads, Drop(t) PROVE PurposeKnown'
  <2>1. t \in Actors
    BY DEF Actors
  <2> QED BY <1>32, <2>1, DropReleases, PurposeKnownReleased DEF References,
      Positions
<1>33. ASSUME NEW t \in Threads, WaitUnlock(t) PROVE PurposeKnown'
  <2>1. CASE pc[t] = "block"
    BY ActorAssumption, <1>33, <2>1
      DEF WaitUnlock, Goto, PurposeKnown, Positions, References, AtWork,
          ArmingComesFirst, DisarmPcs, OwnersAgree, OwnedAreAlive,
          DestroyersAreLast, Destroying, lifeVars, cbVars, serviceVars,
          runVars, callVars, watchVars, TypeOK, Actors, ClaimPcs
  <2>2. CASE pc[t] # "block"
    BY ActorAssumption, <1>33, <2>2
      DEF WaitUnlock, Goto, PurposeKnown, Positions, References, AtWork,
          ArmingComesFirst, DisarmPcs, OwnersAgree, OwnedAreAlive,
          DestroyersAreLast, Destroying, lifeVars, cbVars, serviceVars,
          runVars, callVars, watchVars, TypeOK, Actors, ClaimPcs
  <2> QED BY <2>1, <2>2
<1>34. ASSUME NEW a \in Actors, Disarm(a) PROVE PurposeKnown'
  <2>0. object[a] \in States
    BY <1>34, DisarmObject DEF Disarm, DisarmPcs
  <2>1. CASE timer[object[a]]
    BY ActorAssumption, <1>34, <2>0, <2>1
      DEF Disarm, Goto, Disarmed, DisarmedPc, PurposeKnown, Positions,
          References, AtWork, ArmingComesFirst, DisarmPcs, OwnersAgree,
          OwnedAreAlive, DestroyersAreLast, Destroying, cbVars, serviceVars,
          runVars, watchVars, TypeOK, Actors, ClaimPcs
  <2>2. CASE ~timer[object[a]]
    BY <1>34, <2>0, <2>2, DisarmEnds, PurposeKnownEnded DEF Positions
  <2> QED BY <2>1, <2>2
<1>35. ASSUME NEW a \in Actors, NotifyService(a) PROVE PurposeKnown'
  <2>0. object[a] \in States
    BY <1>35, DisarmObject DEF NotifyService, DisarmPcs
  <2> QED BY <1>35, <2>0, NotifyEnds, PurposeKnownEnded DEF Positions
<1>36. ASSUME NEW a \in Actors, ClaimReason(a) PROVE PurposeKnown'
  <2>1. CASE reason[object[a]] = "none"
    <3>1. /\ disarmFor' = [disarmFor EXCEPT ![a] = "claim"]
          /\ pc' = [pc EXCEPT ![a] = "disarm"]
      BY <1>36, <2>1 DEF ClaimReason, Goto
    <3> QED BY <3>1 DEF PurposeKnown, Positions, DisarmPcs, TypeOK, Actors
  <2>2. CASE reason[object[a]] # "none"
    BY ActorAssumption, <1>36, <2>2
      DEF ClaimReason, Goto, AfterClaim, PurposeKnown, Positions, References,
          AtWork, ArmingComesFirst, DisarmPcs, OwnersAgree, OwnedAreAlive,
          DestroyersAreLast, Destroying, lifeVars, cbVars, serviceVars,
          runVars, watchVars, TypeOK, Actors, ClaimPcs
  <2> QED BY <2>1, <2>2
<1>37. ASSUME NEW a \in Actors, UnregisterEntry(a) PROVE PurposeKnown'
  <2>0. object[a] \in States
    BY <1>37, DisarmObject DEF UnregisterEntry, DisarmPcs
  <2>1. CASE object[a] \in schedule
    BY ActorAssumption, <1>37, <2>0, <2>1
      DEF UnregisterEntry, Goto, PurposeKnown, Positions, References, AtWork,
          ArmingComesFirst, DisarmPcs, OwnersAgree, OwnedAreAlive,
          DestroyersAreLast, Destroying, cbVars, runVars, TypeOK, Actors,
          ClaimPcs
  <2>2. CASE object[a] \notin schedule
    BY <1>37, <2>0, <2>2, UnregisterEnds, PurposeKnownEnded DEF Positions
  <2> QED BY <2>1, <2>2
<1>38. ASSUME Fire PROVE PurposeKnown'
  <2>1. CASE owners[Head(due)] = {}
    BY ActorAssumption, <1>38, <2>1
      DEF Fire, Goto, PurposeKnown, Positions, References, AtWork,
          ArmingComesFirst, DisarmPcs, OwnersAgree, OwnedAreAlive,
          DestroyersAreLast, Destroying, cbVars, serviceVars, TypeOK, Actors,
          ClaimPcs
  <2>2. CASE owners[Head(due)] # {}
    <3>1. Fired(Head(due))
      BY <1>38, <2>2, FireFires DEF Positions
    <3> QED BY <3>1, PurposeKnownFired DEF Fired
  <2> QED BY <2>1, <2>2
<1>39. ASSUME DropFired PROVE PurposeKnown'
  <2>1. Watchdog \in Actors
    BY DEF Actors
  <2> QED BY <1>39, <2>1, DropFiredReleases, PurposeKnownReleased DEF References,
      Positions
<1>40. ASSUME Woken PROVE PurposeKnown'
  <2>1. CASE changed \/ now >= until
    BY ActorAssumption, <1>40, <2>1
      DEF Woken, Goto, PurposeKnown, Positions, References, AtWork,
          ArmingComesFirst, DisarmPcs, OwnersAgree, OwnedAreAlive,
          DestroyersAreLast, Destroying, tokenVars, lifeVars, cbVars,
          serviceVars, callVars, TypeOK, Actors, ClaimPcs
  <2>2. CASE ~(changed \/ now >= until)
    BY ActorAssumption, <1>40, <2>2
      DEF Woken, Goto, PurposeKnown, Positions, References, AtWork,
          ArmingComesFirst, DisarmPcs, OwnersAgree, OwnedAreAlive,
          DestroyersAreLast, Destroying, tokenVars, lifeVars, cbVars,
          serviceVars, callVars, TypeOK, Actors, ClaimPcs
  <2> QED BY <2>1, <2>2
<1> QED
  BY <1>1, <1>2, <1>3, <1>4, <1>5, <1>6, <1>7, <1>8, <1>9, <1>10,
      <1>11, <1>12, <1>13, <1>14, <1>15, <1>16, <1>17, <1>18, <1>19, <1>20,
      <1>21, <1>22, <1>23, <1>24, <1>25, <1>26, <1>27, <1>28, <1>29, <1>30,
      <1>31, <1>32, <1>33, <1>34, <1>35, <1>36, <1>37, <1>38, <1>39, <1>40
  DEF Next, Optional, ThreadSteps, ThreadLocks, ClaimSteps, ClaimLocks,
      WatchdogSteps, WatchdogLocks, Actors

-----------------------------------------------------------------------------
(* An actor in a call works on a state. Kept over the end of a disarm.     *)
LEMMA AtWorkEnded ==
    ASSUME TypeOK, Positions, References, NEW a \in Actors, Ended(a),
      object[a] \in States
    PROVE  AtWork'
<1>1. ASSUME NEW t \in Threads, pc'[t] # "idle" PROVE object'[t] # None
  <2>1. CASE t = a
    BY <1>1, <2>1, ActorAssumption DEF Ended, Actors, TypeOK
  <2>2. CASE t # a
    BY <1>1, <2>2, ActorAssumption DEF Ended, Actors, Positions, AtWork
  <2> QED BY <2>1, <2>2
<1>2. object'[Watchdog] # None <=> pc'[Watchdog] \in ClaimPcs \cup {"claim", "drop"}
  <2>1. CASE a = Watchdog
    BY <2>1, ActorAssumption DEF Ended, ClaimPcs
  <2>2. CASE a # Watchdog
    BY <2>2 DEF Ended, Actors, Positions, AtWork, ClaimPcs
  <2> QED BY <2>1, <2>2
<1> QED BY <1>1, <1>2 DEF AtWork

(* The same (AtWork), kept over the release of a reference.                *)
LEMMA AtWorkReleased ==
    ASSUME TypeOK, Positions, References, NEW a \in Actors, Released(a)
    PROVE  AtWork'
<1>1. ASSUME NEW t \in Threads, pc'[t] # "idle" PROVE object'[t] # None
  <2>1. CASE t = a
    BY <1>1, <2>1, ActorAssumption DEF Released, Actors, TypeOK
  <2>2. CASE t # a
    BY <1>1, <2>2, ActorAssumption DEF Released, Actors, Positions, AtWork
  <2> QED BY <2>1, <2>2
<1>2. object'[Watchdog] # None <=> pc'[Watchdog] \in ClaimPcs \cup {"claim", "drop"}
  <2>1. CASE a = Watchdog
    BY <2>1, ActorAssumption DEF Released, ClaimPcs
  <2>2. CASE a # Watchdog
    BY <2>2 DEF Released, Actors, Positions, AtWork, ClaimPcs
  <2> QED BY <2>1, <2>2
<1> QED BY <1>1, <1>2 DEF AtWork

(* The same (AtWork), kept over the firing of an entry.                    *)
LEMMA AtWorkFired ==
    ASSUME TypeOK, Positions, References, NEW z \in States, Fired(z)
    PROVE  AtWork'
BY ActorAssumption
  DEF Fired, AtWork, Positions, References, PurposeKnown, ArmingComesFirst,
      DisarmPcs, OwnersAgree, OwnedAreAlive, DestroyersAreLast, Destroying,
      TypeOK, Actors, ClaimPcs

(* The same (AtWork), kept over every step.                                *)
LEMMA AtWorkStep ==
    ASSUME TypeOK, Positions, References, Next
    PROVE  AtWork'
<1> USE ActorAssumption DEF At, Goto, AtWork, Positions, References,
    PurposeKnown, ArmingComesFirst, DisarmPcs, OwnersAgree, OwnedAreAlive,
    DestroyersAreLast, Destroying, dataVars, tokenVars, lifeVars, cbVars,
    serviceVars, runVars, callVars, watchVars, vars, TypeOK, Actors, ClaimPcs
<1>1. ASSUME NEW t \in Threads, NEW s \in States, NEW d \in Deadlines, Create(t, s, d)
      PROVE AtWork'
  BY <1>1 DEF Create
<1>2. ASSUME NEW t \in Threads, ArmRegister(t) PROVE AtWork'
  BY <1>2 DEF ArmRegister
<1>3. ASSUME NEW t \in Threads, ArmFails(t) PROVE AtWork'
  BY <1>3 DEF ArmFails
<1>4. ASSUME NEW t \in Threads, ArmStore(t) PROVE AtWork'
  BY <1>4 DEF ArmStore
<1>5. ASSUME NEW t \in Threads, NEW s \in States, Share(t, s) PROVE AtWork'
  BY <1>5 DEF Share
<1>6. ASSUME NEW t \in Threads, Cancel(t) PROVE AtWork'
  BY <1>6 DEF Cancel, StartClaim
<1>7. ASSUME NEW t \in Threads, Poll(t) PROVE AtWork'
  BY <1>7 DEF Poll, StartClaim
<1>8. ASSUME NEW t \in Threads, Wait(t) PROVE AtWork'
  BY <1>8 DEF Wait
<1>9. ASSUME NEW t \in Threads, StartRegister(t) PROVE AtWork'
  BY <1>9 DEF StartRegister
<1>10. ASSUME NEW t \in Threads, DestroyRegistration(t) PROVE AtWork'
  BY <1>10 DEF DestroyRegistration
<1>11. ASSUME NEW t \in Threads, DestroyInline(t) PROVE AtWork'
  BY <1>11 DEF DestroyInline
<1>12. ASSUME NEW t \in Threads, WaitTest(t) PROVE AtWork'
  BY <1>12 DEF WaitTest
<1>13. ASSUME NEW t \in Threads, WaitLock(t) PROVE AtWork'
  BY <1>13 DEF WaitLock
<1>14. ASSUME NEW t \in Threads, RegisterStored(t) PROVE AtWork'
  BY <1>14 DEF RegisterStored
<1>15. ASSUME NEW t \in Threads, RegisterInline(t) PROVE AtWork'
  BY <1>15 DEF RegisterInline
<1>16. ASSUME NEW t \in Threads, Unregister(t) PROVE AtWork'
  BY <1>16 DEF Unregister
<1>17. ASSUME NEW a \in Actors, NotifyWaiters(a) PROVE AtWork'
  BY <1>17 DEF NotifyWaiters
<1>18. ASSUME NEW a \in Actors, CallBack(a) PROVE AtWork'
  BY <1>18 DEF CallBack
<1>19. ASSUME NEW a \in Actors, CallbackReturns(a) PROVE AtWork'
  BY <1>19 DEF CallbackReturns
<1>20. ASSUME NEW a \in Actors, ClaimReturns(a) PROVE AtWork'
  BY <1>20 DEF ClaimReturns, AfterClaim
<1>21. ASSUME NEW a \in Actors, ReleaseWaiters(a) PROVE AtWork'
  BY <1>21 DEF ReleaseWaiters
<1>22. ASSUME NEW a \in Actors, LockCallbacks(a) PROVE AtWork'
  BY <1>22 DEF LockCallbacks
<1>23. ASSUME Collect PROVE AtWork'
  BY <1>23 DEF Collect, Collected
<1>24. ASSUME CollectedAll PROVE AtWork'
  BY <1>24 DEF CollectedAll
<1>25. ASSUME Sleep PROVE AtWork'
  BY <1>25 DEF Sleep
<1>26. ASSUME TimeOut PROVE AtWork'
  BY <1>26 DEF TimeOut
<1>27. ASSUME FiredAll PROVE AtWork'
  BY <1>27 DEF FiredAll
<1>28. ASSUME Scan PROVE AtWork'
  BY <1>28 DEF Scan
<1>29. ASSUME Tick PROVE AtWork'
  BY <1>29 DEF Tick
<1> HIDE ActorAssumption DEF At, Goto, AtWork, Positions, References,
    PurposeKnown, ArmingComesFirst, DisarmPcs, OwnersAgree, OwnedAreAlive,
    DestroyersAreLast, Destroying, dataVars, tokenVars, lifeVars, cbVars,
    serviceVars, runVars, callVars, watchVars, vars, TypeOK, Actors, ClaimPcs
<1>30. ASSUME NEW t \in Threads, ArmNotify(t) PROVE AtWork'
  <2>1. CASE pc[Watchdog] = "asleep"
    BY ActorAssumption, <1>30, <2>1
      DEF ArmNotify, WakeWatchdog, AtWork, Positions, References,
          PurposeKnown, ArmingComesFirst, DisarmPcs, OwnersAgree,
          OwnedAreAlive, DestroyersAreLast, Destroying, dataVars, tokenVars,
          lifeVars, cbVars, serviceVars, runVars, callVars, watchVars, TypeOK,
          Actors, ClaimPcs
  <2>2. CASE pc[Watchdog] # "asleep"
    BY ActorAssumption, <1>30, <2>2
      DEF ArmNotify, WakeWatchdog, AtWork, Positions, References,
          PurposeKnown, ArmingComesFirst, DisarmPcs, OwnersAgree,
          OwnedAreAlive, DestroyersAreLast, Destroying, dataVars, tokenVars,
          lifeVars, cbVars, serviceVars, runVars, callVars, watchVars, TypeOK,
          Actors, ClaimPcs
  <2> QED BY <2>1, <2>2
<1>31. ASSUME NEW t \in Threads, ArmRecheck(t) PROVE AtWork'
  <2>1. CASE reason[object[t]] = "none"
    BY ActorAssumption, <1>31, <2>1
      DEF ArmRecheck, Goto, AtWork, Positions, References, PurposeKnown,
          ArmingComesFirst, DisarmPcs, OwnersAgree, OwnedAreAlive,
          DestroyersAreLast, Destroying, tokenVars, lifeVars, cbVars,
          serviceVars, runVars, watchVars, TypeOK, Actors, ClaimPcs
  <2>2. CASE reason[object[t]] # "none"
    BY ActorAssumption, <1>31, <2>2
      DEF ArmRecheck, Goto, AtWork, Positions, References, PurposeKnown,
          ArmingComesFirst, DisarmPcs, OwnersAgree, OwnedAreAlive,
          DestroyersAreLast, Destroying, tokenVars, lifeVars, cbVars,
          serviceVars, runVars, watchVars, TypeOK, Actors, ClaimPcs
  <2> QED BY <2>1, <2>2
<1>32. ASSUME NEW t \in Threads, Drop(t) PROVE AtWork'
  <2>1. t \in Actors
    BY DEF Actors
  <2> QED BY <1>32, <2>1, DropReleases, AtWorkReleased DEF References,
      Positions
<1>33. ASSUME NEW t \in Threads, WaitUnlock(t) PROVE AtWork'
  <2>1. CASE pc[t] = "block"
    BY ActorAssumption, <1>33, <2>1
      DEF WaitUnlock, Goto, AtWork, Positions, References, PurposeKnown,
          ArmingComesFirst, DisarmPcs, OwnersAgree, OwnedAreAlive,
          DestroyersAreLast, Destroying, lifeVars, cbVars, serviceVars,
          runVars, callVars, watchVars, TypeOK, Actors, ClaimPcs
  <2>2. CASE pc[t] # "block"
    BY ActorAssumption, <1>33, <2>2
      DEF WaitUnlock, Goto, AtWork, Positions, References, PurposeKnown,
          ArmingComesFirst, DisarmPcs, OwnersAgree, OwnedAreAlive,
          DestroyersAreLast, Destroying, lifeVars, cbVars, serviceVars,
          runVars, callVars, watchVars, TypeOK, Actors, ClaimPcs
  <2> QED BY <2>1, <2>2
<1>34. ASSUME NEW a \in Actors, Disarm(a) PROVE AtWork'
  <2>0. object[a] \in States
    BY <1>34, DisarmObject DEF Disarm, DisarmPcs
  <2>1. CASE timer[object[a]]
    BY ActorAssumption, <1>34, <2>0, <2>1
      DEF Disarm, Goto, Disarmed, DisarmedPc, AtWork, Positions, References,
          PurposeKnown, ArmingComesFirst, DisarmPcs, OwnersAgree,
          OwnedAreAlive, DestroyersAreLast, Destroying, cbVars, serviceVars,
          runVars, watchVars, TypeOK, Actors, ClaimPcs
  <2>2. CASE ~timer[object[a]]
    BY <1>34, <2>0, <2>2, DisarmEnds, AtWorkEnded DEF Positions
  <2> QED BY <2>1, <2>2
<1>35. ASSUME NEW a \in Actors, NotifyService(a) PROVE AtWork'
  <2>0. object[a] \in States
    BY <1>35, DisarmObject DEF NotifyService, DisarmPcs
  <2> QED BY <1>35, <2>0, NotifyEnds, AtWorkEnded DEF Positions
<1>36. ASSUME NEW a \in Actors, ClaimReason(a) PROVE AtWork'
  <2>1. CASE reason[object[a]] = "none"
    BY ActorAssumption, <1>36, <2>1
      DEF ClaimReason, Goto, AfterClaim, AtWork, Positions, References,
          PurposeKnown, ArmingComesFirst, DisarmPcs, OwnersAgree,
          OwnedAreAlive, DestroyersAreLast, Destroying, lifeVars, cbVars,
          serviceVars, runVars, watchVars, TypeOK, Actors, ClaimPcs
  <2>2. CASE reason[object[a]] # "none"
    BY ActorAssumption, <1>36, <2>2
      DEF ClaimReason, Goto, AfterClaim, AtWork, Positions, References,
          PurposeKnown, ArmingComesFirst, DisarmPcs, OwnersAgree,
          OwnedAreAlive, DestroyersAreLast, Destroying, lifeVars, cbVars,
          serviceVars, runVars, watchVars, TypeOK, Actors, ClaimPcs
  <2> QED BY <2>1, <2>2
<1>37. ASSUME NEW a \in Actors, UnregisterEntry(a) PROVE AtWork'
  <2>0. object[a] \in States
    BY <1>37, DisarmObject DEF UnregisterEntry, DisarmPcs
  <2>1. CASE object[a] \in schedule
    BY ActorAssumption, <1>37, <2>0, <2>1
      DEF UnregisterEntry, Goto, AtWork, Positions, References, PurposeKnown,
          ArmingComesFirst, DisarmPcs, OwnersAgree, OwnedAreAlive,
          DestroyersAreLast, Destroying, cbVars, runVars, TypeOK, Actors,
          ClaimPcs
  <2>2. CASE object[a] \notin schedule
    BY <1>37, <2>0, <2>2, UnregisterEnds, AtWorkEnded DEF Positions
  <2> QED BY <2>1, <2>2
<1>38. ASSUME Fire PROVE AtWork'
  <2>1. CASE owners[Head(due)] = {}
    BY ActorAssumption, <1>38, <2>1
      DEF Fire, Goto, AtWork, Positions, References, PurposeKnown,
          ArmingComesFirst, DisarmPcs, OwnersAgree, OwnedAreAlive,
          DestroyersAreLast, Destroying, cbVars, serviceVars, TypeOK, Actors,
          ClaimPcs
  <2>2. CASE owners[Head(due)] # {}
    <3>1. Fired(Head(due))
      BY <1>38, <2>2, FireFires DEF Positions
    <3> QED BY <3>1, AtWorkFired DEF Fired
  <2> QED BY <2>1, <2>2
<1>39. ASSUME DropFired PROVE AtWork'
  <2>1. Watchdog \in Actors
    BY DEF Actors
  <2> QED BY <1>39, <2>1, DropFiredReleases, AtWorkReleased DEF References,
      Positions
<1>40. ASSUME Woken PROVE AtWork'
  <2>1. CASE changed \/ now >= until
    BY ActorAssumption, <1>40, <2>1
      DEF Woken, Goto, AtWork, Positions, References, PurposeKnown,
          ArmingComesFirst, DisarmPcs, OwnersAgree, OwnedAreAlive,
          DestroyersAreLast, Destroying, tokenVars, lifeVars, cbVars,
          serviceVars, callVars, TypeOK, Actors, ClaimPcs
  <2>2. CASE ~(changed \/ now >= until)
    BY ActorAssumption, <1>40, <2>2
      DEF Woken, Goto, AtWork, Positions, References, PurposeKnown,
          ArmingComesFirst, DisarmPcs, OwnersAgree, OwnedAreAlive,
          DestroyersAreLast, Destroying, tokenVars, lifeVars, cbVars,
          serviceVars, callVars, TypeOK, Actors, ClaimPcs
  <2> QED BY <2>1, <2>2
<1> QED
  BY <1>1, <1>2, <1>3, <1>4, <1>5, <1>6, <1>7, <1>8, <1>9, <1>10,
      <1>11, <1>12, <1>13, <1>14, <1>15, <1>16, <1>17, <1>18, <1>19, <1>20,
      <1>21, <1>22, <1>23, <1>24, <1>25, <1>26, <1>27, <1>28, <1>29, <1>30,
      <1>31, <1>32, <1>33, <1>34, <1>35, <1>36, <1>37, <1>38, <1>39, <1>40
  DEF Next, Optional, ThreadSteps, ThreadLocks, ClaimSteps, ClaimLocks,
      WatchdogSteps, WatchdogLocks, Actors

-----------------------------------------------------------------------------
(* A thread that is about to arm a deadline has the state for itself, and  *)
(* the watchdog has not seen it. Kept over the end of a disarm.            *)
LEMMA ArmingComesFirstEnded ==
    ASSUME TypeOK, References, Positions, NEW a \in Actors, Ended(a),
      object[a] \in States
    PROVE  ArmingComesFirst'
BY ActorAssumption
  DEF Ended, ArmingComesFirst, References, Positions, OwnersAgree,
      OwnedAreAlive, DestroyersAreLast, Destroying, PurposeKnown, AtWork,
      DisarmPcs, TypeOK, Actors, ClaimPcs

(* The same (ArmingComesFirst), kept over the release of a reference.      *)
LEMMA ArmingComesFirstReleased ==
    ASSUME TypeOK, References, Positions, NEW a \in Actors, Released(a)
    PROVE  ArmingComesFirst'
BY ActorAssumption
  DEF Released, ArmingComesFirst, References, Positions, OwnersAgree,
      OwnedAreAlive, DestroyersAreLast, Destroying, PurposeKnown, AtWork,
      DisarmPcs, TypeOK, Actors, ClaimPcs

(* The same (ArmingComesFirst), kept over the firing of an entry.          *)
LEMMA ArmingComesFirstFired ==
    ASSUME TypeOK, References, Positions, NEW z \in States, Fired(z)
    PROVE  ArmingComesFirst'
<1>1. \A x \in ToSet(Tail(due)) : x \in ToSet(due)
  BY TailIsPart DEF Fired, TypeOK
<1>2. ASSUME NEW t \in Threads, pc'[t] = "arm"
      PROVE  /\ owners'[object'[t]] = {t}
             /\ deadline'[object'[t]] \in Nat
             /\ object'[t] \notin schedule' \cup ToSet(due')
  <2>1. pc[t] = "arm" /\ object'[t] = object[t]
    BY <1>2 DEF Fired
  <2>2. Head(due) \in ToSet(due)
    BY HeadIsPart DEF Fired, TypeOK
  <2>3. object[t] # z
    BY <2>1, <2>2 DEF Positions, ArmingComesFirst, Fired
  <2>4. /\ owners[object[t]] = {t} /\ deadline[object[t]] \in Nat
        /\ object[t] \notin schedule \cup ToSet(due)
    BY <2>1 DEF Positions, ArmingComesFirst
  <2>5. owners'[object[t]] = {t}
    BY <2>3, <2>4 DEF Fired, TypeOK
  <2> QED BY <1>1, <2>1, <2>4, <2>5 DEF Fired
<1> QED BY <1>2 DEF ArmingComesFirst

(* The same (ArmingComesFirst), kept over every step.                      *)
LEMMA ArmingComesFirstStep ==
    ASSUME TypeOK, References, Positions, Next
    PROVE  ArmingComesFirst'
<1> USE ActorAssumption DEF At, Goto, ArmingComesFirst, References, Positions,
    OwnersAgree, OwnedAreAlive, DestroyersAreLast, Destroying, PurposeKnown,
    AtWork, DisarmPcs, dataVars, tokenVars, lifeVars, cbVars, serviceVars,
    runVars, callVars, watchVars, vars, TypeOK, Actors, ClaimPcs
<1>1. ASSUME NEW t \in Threads, ArmRegister(t) PROVE ArmingComesFirst'
  BY <1>1 DEF ArmRegister
<1>2. ASSUME NEW t \in Threads, ArmFails(t) PROVE ArmingComesFirst'
  BY <1>2 DEF ArmFails
<1>3. ASSUME NEW t \in Threads, ArmStore(t) PROVE ArmingComesFirst'
  BY <1>3 DEF ArmStore
<1>4. ASSUME NEW t \in Threads, NEW s \in States, Share(t, s)
      PROVE ArmingComesFirst'
  BY <1>4 DEF Share
<1>5. ASSUME NEW t \in Threads, Cancel(t) PROVE ArmingComesFirst'
  BY <1>5 DEF Cancel, StartClaim
<1>6. ASSUME NEW t \in Threads, Poll(t) PROVE ArmingComesFirst'
  BY <1>6 DEF Poll, StartClaim
<1>7. ASSUME NEW t \in Threads, Wait(t) PROVE ArmingComesFirst'
  BY <1>7 DEF Wait
<1>8. ASSUME NEW t \in Threads, StartRegister(t) PROVE ArmingComesFirst'
  BY <1>8 DEF StartRegister
<1>9. ASSUME NEW t \in Threads, DestroyRegistration(t) PROVE ArmingComesFirst'
  BY <1>9 DEF DestroyRegistration
<1>10. ASSUME NEW t \in Threads, DestroyInline(t) PROVE ArmingComesFirst'
  BY <1>10 DEF DestroyInline
<1>11. ASSUME NEW t \in Threads, WaitTest(t) PROVE ArmingComesFirst'
  BY <1>11 DEF WaitTest
<1>12. ASSUME NEW t \in Threads, WaitLock(t) PROVE ArmingComesFirst'
  BY <1>12 DEF WaitLock
<1>13. ASSUME NEW t \in Threads, RegisterStored(t) PROVE ArmingComesFirst'
  BY <1>13 DEF RegisterStored
<1>14. ASSUME NEW t \in Threads, RegisterInline(t) PROVE ArmingComesFirst'
  BY <1>14 DEF RegisterInline
<1>15. ASSUME NEW t \in Threads, Unregister(t) PROVE ArmingComesFirst'
  BY <1>15 DEF Unregister
<1>16. ASSUME NEW a \in Actors, NotifyWaiters(a) PROVE ArmingComesFirst'
  BY <1>16 DEF NotifyWaiters
<1>17. ASSUME NEW a \in Actors, CallBack(a) PROVE ArmingComesFirst'
  BY <1>17 DEF CallBack
<1>18. ASSUME NEW a \in Actors, CallbackReturns(a) PROVE ArmingComesFirst'
  BY <1>18 DEF CallbackReturns
<1>19. ASSUME NEW a \in Actors, ClaimReturns(a) PROVE ArmingComesFirst'
  BY <1>19 DEF ClaimReturns, AfterClaim
<1>20. ASSUME NEW a \in Actors, ReleaseWaiters(a) PROVE ArmingComesFirst'
  BY <1>20 DEF ReleaseWaiters
<1>21. ASSUME NEW a \in Actors, LockCallbacks(a) PROVE ArmingComesFirst'
  BY <1>21 DEF LockCallbacks
<1>22. ASSUME CollectedAll PROVE ArmingComesFirst'
  BY <1>22 DEF CollectedAll
<1>23. ASSUME Sleep PROVE ArmingComesFirst'
  BY <1>23 DEF Sleep
<1>24. ASSUME TimeOut PROVE ArmingComesFirst'
  BY <1>24 DEF TimeOut
<1>25. ASSUME FiredAll PROVE ArmingComesFirst'
  BY <1>25 DEF FiredAll
<1>26. ASSUME Scan PROVE ArmingComesFirst'
  BY <1>26 DEF Scan
<1>27. ASSUME Tick PROVE ArmingComesFirst'
  BY <1>27 DEF Tick
<1> HIDE ActorAssumption DEF At, Goto, ArmingComesFirst, References,
    Positions, OwnersAgree, OwnedAreAlive, DestroyersAreLast, Destroying,
    PurposeKnown, AtWork, DisarmPcs, dataVars, tokenVars, lifeVars, cbVars,
    serviceVars, runVars, callVars, watchVars, vars, TypeOK, Actors, ClaimPcs
<1>28. ASSUME NEW t \in Threads, NEW s \in States, NEW d \in Deadlines, Create(t, s, d)
      PROVE ArmingComesFirst'
  <2> SUFFICES ASSUME NEW u \in Threads, pc'[u] = "arm"
               PROVE  /\ owners'[object'[u]] = {u}
                      /\ deadline'[object'[u]] \in Nat
                      /\ object'[u] \notin schedule' \cup ToSet(due')
    BY DEF ArmingComesFirst
  <2>0. schedule' = schedule /\ due' = due
    BY <1>28 DEF Create, watchVars, serviceVars, runVars
  <2>1. CASE u = t
    <3>1. object'[u] = s /\ owners'[s] = {u} /\ deadline'[s] = d
      BY <1>28, <2>1 DEF Create, TypeOK, Actors
    <3>2. d # NoDeadline
      BY <1>28, <2>1 DEF Create, Goto, TypeOK, Actors
    <3>3. d \in Nat
      BY <3>2, TimeAssumption
    <3> QED BY <1>28, <2>0, <3>1, <3>3 DEF Create
  <2>2. CASE u # t
    <3>1. pc[u] = "arm" /\ object'[u] = object[u]
      BY <1>28, <2>2 DEF Create, Goto, TypeOK, Actors
    <3>2. owners[object[u]] = {u} /\ life[object[u]] = "alive" /\ object[u] \in States
      BY <3>1 DEF Positions, ArmingComesFirst, AtWork, References,
          OwnedAreAlive, TypeOK, Actors
    <3>3. object[u] # s
      BY <1>28, <3>2 DEF Create
    <3> QED BY <1>28, <2>0, <3>1, <3>2, <3>3
      DEF Create, Positions, ArmingComesFirst, TypeOK
  <2> QED BY <2>1, <2>2
<1>29. ASSUME NEW t \in Threads, ArmNotify(t) PROVE ArmingComesFirst'
  <2>1. CASE pc[Watchdog] = "asleep"
    BY ActorAssumption, <1>29, <2>1
      DEF ArmNotify, WakeWatchdog, ArmingComesFirst, References, Positions,
          OwnersAgree, OwnedAreAlive, DestroyersAreLast, Destroying,
          PurposeKnown, AtWork, DisarmPcs, dataVars, tokenVars, lifeVars,
          cbVars, serviceVars, runVars, callVars, watchVars, TypeOK, Actors,
          ClaimPcs
  <2>2. CASE pc[Watchdog] # "asleep"
    BY ActorAssumption, <1>29, <2>2
      DEF ArmNotify, WakeWatchdog, ArmingComesFirst, References, Positions,
          OwnersAgree, OwnedAreAlive, DestroyersAreLast, Destroying,
          PurposeKnown, AtWork, DisarmPcs, dataVars, tokenVars, lifeVars,
          cbVars, serviceVars, runVars, callVars, watchVars, TypeOK, Actors,
          ClaimPcs
  <2> QED BY <2>1, <2>2
<1>30. ASSUME NEW t \in Threads, ArmRecheck(t) PROVE ArmingComesFirst'
  <2>1. CASE reason[object[t]] = "none"
    BY ActorAssumption, <1>30, <2>1
      DEF ArmRecheck, Goto, ArmingComesFirst, References, Positions,
          OwnersAgree, OwnedAreAlive, DestroyersAreLast, Destroying,
          PurposeKnown, AtWork, DisarmPcs, tokenVars, lifeVars, cbVars,
          serviceVars, runVars, watchVars, TypeOK, Actors, ClaimPcs
  <2>2. CASE reason[object[t]] # "none"
    BY ActorAssumption, <1>30, <2>2
      DEF ArmRecheck, Goto, ArmingComesFirst, References, Positions,
          OwnersAgree, OwnedAreAlive, DestroyersAreLast, Destroying,
          PurposeKnown, AtWork, DisarmPcs, tokenVars, lifeVars, cbVars,
          serviceVars, runVars, watchVars, TypeOK, Actors, ClaimPcs
  <2> QED BY <2>1, <2>2
<1>31. ASSUME NEW t \in Threads, Drop(t) PROVE ArmingComesFirst'
  <2>1. t \in Actors
    BY DEF Actors
  <2> QED BY <1>31, <2>1, DropReleases, ArmingComesFirstReleased DEF References,
      Positions
<1>32. ASSUME NEW t \in Threads, WaitUnlock(t) PROVE ArmingComesFirst'
  <2>1. CASE pc[t] = "block"
    BY ActorAssumption, <1>32, <2>1
      DEF WaitUnlock, Goto, ArmingComesFirst, References, Positions,
          OwnersAgree, OwnedAreAlive, DestroyersAreLast, Destroying,
          PurposeKnown, AtWork, DisarmPcs, lifeVars, cbVars, serviceVars,
          runVars, callVars, watchVars, TypeOK, Actors, ClaimPcs
  <2>2. CASE pc[t] # "block"
    BY ActorAssumption, <1>32, <2>2
      DEF WaitUnlock, Goto, ArmingComesFirst, References, Positions,
          OwnersAgree, OwnedAreAlive, DestroyersAreLast, Destroying,
          PurposeKnown, AtWork, DisarmPcs, lifeVars, cbVars, serviceVars,
          runVars, callVars, watchVars, TypeOK, Actors, ClaimPcs
  <2> QED BY <2>1, <2>2
<1>33. ASSUME NEW a \in Actors, Disarm(a) PROVE ArmingComesFirst'
  <2>0. object[a] \in States
    BY <1>33, DisarmObject DEF Disarm, DisarmPcs
  <2>1. CASE timer[object[a]]
    BY ActorAssumption, <1>33, <2>0, <2>1
      DEF Disarm, Goto, Disarmed, DisarmedPc, ArmingComesFirst, References,
          Positions, OwnersAgree, OwnedAreAlive, DestroyersAreLast,
          Destroying, PurposeKnown, AtWork, DisarmPcs, cbVars, serviceVars,
          runVars, watchVars, TypeOK, Actors, ClaimPcs
  <2>2. CASE ~timer[object[a]]
    BY <1>33, <2>0, <2>2, DisarmEnds, ArmingComesFirstEnded DEF Positions
  <2> QED BY <2>1, <2>2
<1>34. ASSUME NEW a \in Actors, NotifyService(a) PROVE ArmingComesFirst'
  <2>0. object[a] \in States
    BY <1>34, DisarmObject DEF NotifyService, DisarmPcs
  <2> QED BY <1>34, <2>0, NotifyEnds, ArmingComesFirstEnded DEF Positions
<1>35. ASSUME NEW a \in Actors, ClaimReason(a) PROVE ArmingComesFirst'
  <2>1. CASE reason[object[a]] = "none"
    BY ActorAssumption, <1>35, <2>1
      DEF ClaimReason, Goto, AfterClaim, ArmingComesFirst, References,
          Positions, OwnersAgree, OwnedAreAlive, DestroyersAreLast,
          Destroying, PurposeKnown, AtWork, DisarmPcs, lifeVars, cbVars,
          serviceVars, runVars, watchVars, TypeOK, Actors, ClaimPcs
  <2>2. CASE reason[object[a]] # "none"
    BY ActorAssumption, <1>35, <2>2
      DEF ClaimReason, Goto, AfterClaim, ArmingComesFirst, References,
          Positions, OwnersAgree, OwnedAreAlive, DestroyersAreLast,
          Destroying, PurposeKnown, AtWork, DisarmPcs, lifeVars, cbVars,
          serviceVars, runVars, watchVars, TypeOK, Actors, ClaimPcs
  <2> QED BY <2>1, <2>2
<1>36. ASSUME NEW a \in Actors, UnregisterEntry(a) PROVE ArmingComesFirst'
  <2>0. object[a] \in States
    BY <1>36, DisarmObject DEF UnregisterEntry, DisarmPcs
  <2>1. CASE object[a] \in schedule
    BY ActorAssumption, <1>36, <2>0, <2>1
      DEF UnregisterEntry, Goto, ArmingComesFirst, References, Positions,
          OwnersAgree, OwnedAreAlive, DestroyersAreLast, Destroying,
          PurposeKnown, AtWork, DisarmPcs, cbVars, runVars, TypeOK, Actors,
          ClaimPcs
  <2>2. CASE object[a] \notin schedule
    BY <1>36, <2>0, <2>2, UnregisterEnds, ArmingComesFirstEnded DEF Positions
  <2> QED BY <2>1, <2>2
<1>37. ASSUME Collect PROVE ArmingComesFirst'
  <2>1. PICK s \in schedule : schedule' = schedule \ {s} /\ due' = Append(due, s)
    BY <1>37 DEF Collect
  <2>2. ToSet(due') = ToSet(due) \cup {s}
    BY <2>1, AppendIsPart DEF TypeOK
  <2> QED BY <1>37, <2>1, <2>2
    DEF Collect, ArmingComesFirst, Positions, tokenVars, lifeVars, callVars
<1>38. ASSUME Fire PROVE ArmingComesFirst'
  <2>1. CASE owners[Head(due)] = {}
    <3>1. \A x \in ToSet(Tail(due)) : x \in ToSet(due)
      BY <1>38, TailIsPart DEF Fire, TypeOK
    <3> QED BY <1>38, <2>1, <3>1
      DEF Fire, ArmingComesFirst, Positions, serviceVars
  <2>2. CASE owners[Head(due)] # {}
    <3>1. Fired(Head(due))
      BY <1>38, <2>2, FireFires DEF Positions
    <3> QED BY <3>1, ArmingComesFirstFired DEF Fired
  <2> QED BY <2>1, <2>2
<1>39. ASSUME DropFired PROVE ArmingComesFirst'
  <2>1. Watchdog \in Actors
    BY DEF Actors
  <2> QED BY <1>39, <2>1, DropFiredReleases, ArmingComesFirstReleased DEF References,
      Positions
<1>40. ASSUME Woken PROVE ArmingComesFirst'
  <2>1. CASE changed \/ now >= until
    BY ActorAssumption, <1>40, <2>1
      DEF Woken, Goto, ArmingComesFirst, References, Positions, OwnersAgree,
          OwnedAreAlive, DestroyersAreLast, Destroying, PurposeKnown, AtWork,
          DisarmPcs, tokenVars, lifeVars, cbVars, serviceVars, callVars,
          TypeOK, Actors, ClaimPcs
  <2>2. CASE ~(changed \/ now >= until)
    BY ActorAssumption, <1>40, <2>2
      DEF Woken, Goto, ArmingComesFirst, References, Positions, OwnersAgree,
          OwnedAreAlive, DestroyersAreLast, Destroying, PurposeKnown, AtWork,
          DisarmPcs, tokenVars, lifeVars, cbVars, serviceVars, callVars,
          TypeOK, Actors, ClaimPcs
  <2> QED BY <2>1, <2>2
<1> QED
  BY <1>1, <1>2, <1>3, <1>4, <1>5, <1>6, <1>7, <1>8, <1>9, <1>10,
      <1>11, <1>12, <1>13, <1>14, <1>15, <1>16, <1>17, <1>18, <1>19, <1>20,
      <1>21, <1>22, <1>23, <1>24, <1>25, <1>26, <1>27, <1>28, <1>29, <1>30,
      <1>31, <1>32, <1>33, <1>34, <1>35, <1>36, <1>37, <1>38, <1>39, <1>40
  DEF Next, Optional, ThreadSteps, ThreadLocks, ClaimSteps, ClaimLocks,
      WatchdogSteps, WatchdogLocks, Actors

-----------------------------------------------------------------------------
(* A thread holds the wait mutex of a state exactly between locking it and *)
(* the return or the block. Kept over the end of a disarm.                 *)
LEMMA WaitMutexHeldEnded ==
    ASSUME TypeOK, References, Positions, WaitMutexHeld, NEW a \in Actors,
      Ended(a), object[a] \in States
    PROVE  WaitMutexHeld'
<1>1. \A t \in Threads, s \in States :
        (object'[t] = s /\ pc'[t] \in {"test", "block", "leaveWait"})
            <=> (object[t] = s /\ pc[t] \in {"test", "block", "leaveWait"})
  BY ActorAssumption DEF Ended, DisarmPcs, Actors
<1> QED BY <1>1 DEF Ended, WaitMutexHeld

(* The same (WaitMutexHeld), kept over the release of a reference.         *)
LEMMA WaitMutexHeldReleased ==
    ASSUME TypeOK, References, Positions, WaitMutexHeld, NEW a \in Actors,
      Released(a)
    PROVE  WaitMutexHeld'
BY ActorAssumption
  DEF Released, WaitMutexHeld, References, Positions, OwnersAgree,
      OwnedAreAlive, DestroyersAreLast, Destroying, PurposeKnown, AtWork,
      ArmingComesFirst, DisarmPcs, TypeOK, Actors, ClaimPcs

(* The same (WaitMutexHeld), kept over the firing of an entry.             *)
LEMMA WaitMutexHeldFired ==
    ASSUME TypeOK, References, Positions, WaitMutexHeld, NEW z \in States,
      Fired(z)
    PROVE  WaitMutexHeld'
BY ActorAssumption
  DEF Fired, WaitMutexHeld, References, Positions, OwnersAgree, OwnedAreAlive,
      DestroyersAreLast, Destroying, PurposeKnown, AtWork, ArmingComesFirst,
      DisarmPcs, TypeOK, Actors, ClaimPcs

(* The same (WaitMutexHeld), kept over every step.                         *)
LEMMA WaitMutexHeldStep ==
    ASSUME TypeOK, References, Positions,
      WaitMutexHeld, Next
    PROVE  WaitMutexHeld'
<1> USE ActorAssumption DEF At, Goto, WaitMutexHeld, References, Positions,
    OwnersAgree, OwnedAreAlive, DestroyersAreLast, Destroying, PurposeKnown,
    AtWork, ArmingComesFirst, DisarmPcs, dataVars, tokenVars, lifeVars,
    cbVars, serviceVars, runVars, callVars, watchVars, vars, TypeOK, Actors,
    ClaimPcs
<1>1. ASSUME NEW t \in Threads, NEW s \in States, NEW d \in Deadlines, Create(t, s, d)
      PROVE WaitMutexHeld'
  BY <1>1 DEF Create
<1>2. ASSUME NEW t \in Threads, ArmRegister(t) PROVE WaitMutexHeld'
  BY <1>2 DEF ArmRegister
<1>3. ASSUME NEW t \in Threads, ArmFails(t) PROVE WaitMutexHeld'
  BY <1>3 DEF ArmFails
<1>4. ASSUME NEW t \in Threads, ArmStore(t) PROVE WaitMutexHeld'
  BY <1>4 DEF ArmStore
<1>5. ASSUME NEW t \in Threads, NEW s \in States, Share(t, s)
      PROVE WaitMutexHeld'
  BY <1>5 DEF Share
<1>6. ASSUME NEW t \in Threads, Cancel(t) PROVE WaitMutexHeld'
  BY <1>6 DEF Cancel, StartClaim
<1>7. ASSUME NEW t \in Threads, Poll(t) PROVE WaitMutexHeld'
  BY <1>7 DEF Poll, StartClaim
<1>8. ASSUME NEW t \in Threads, Wait(t) PROVE WaitMutexHeld'
  BY <1>8 DEF Wait
<1>9. ASSUME NEW t \in Threads, StartRegister(t) PROVE WaitMutexHeld'
  BY <1>9 DEF StartRegister
<1>10. ASSUME NEW t \in Threads, DestroyRegistration(t) PROVE WaitMutexHeld'
  BY <1>10 DEF DestroyRegistration
<1>11. ASSUME NEW t \in Threads, DestroyInline(t) PROVE WaitMutexHeld'
  BY <1>11 DEF DestroyInline
<1>12. ASSUME NEW t \in Threads, WaitTest(t) PROVE WaitMutexHeld'
  BY <1>12 DEF WaitTest
<1>13. ASSUME NEW t \in Threads, WaitLock(t) PROVE WaitMutexHeld'
  BY <1>13 DEF WaitLock
<1>14. ASSUME NEW t \in Threads, RegisterStored(t) PROVE WaitMutexHeld'
  BY <1>14 DEF RegisterStored
<1>15. ASSUME NEW t \in Threads, RegisterInline(t) PROVE WaitMutexHeld'
  BY <1>15 DEF RegisterInline
<1>16. ASSUME NEW t \in Threads, Unregister(t) PROVE WaitMutexHeld'
  BY <1>16 DEF Unregister
<1>17. ASSUME NEW a \in Actors, NotifyWaiters(a) PROVE WaitMutexHeld'
  BY <1>17 DEF NotifyWaiters
<1>18. ASSUME NEW a \in Actors, CallBack(a) PROVE WaitMutexHeld'
  BY <1>18 DEF CallBack
<1>19. ASSUME NEW a \in Actors, CallbackReturns(a) PROVE WaitMutexHeld'
  BY <1>19 DEF CallbackReturns
<1>20. ASSUME NEW a \in Actors, ClaimReturns(a) PROVE WaitMutexHeld'
  BY <1>20 DEF ClaimReturns, AfterClaim
<1>21. ASSUME NEW a \in Actors, ReleaseWaiters(a) PROVE WaitMutexHeld'
  BY <1>21 DEF ReleaseWaiters
<1>22. ASSUME NEW a \in Actors, LockCallbacks(a) PROVE WaitMutexHeld'
  BY <1>22 DEF LockCallbacks
<1>23. ASSUME Collect PROVE WaitMutexHeld'
  BY <1>23 DEF Collect, Collected
<1>24. ASSUME CollectedAll PROVE WaitMutexHeld'
  BY <1>24 DEF CollectedAll
<1>25. ASSUME Sleep PROVE WaitMutexHeld'
  BY <1>25 DEF Sleep
<1>26. ASSUME TimeOut PROVE WaitMutexHeld'
  BY <1>26 DEF TimeOut
<1>27. ASSUME FiredAll PROVE WaitMutexHeld'
  BY <1>27 DEF FiredAll
<1>28. ASSUME Scan PROVE WaitMutexHeld'
  BY <1>28 DEF Scan
<1>29. ASSUME Tick PROVE WaitMutexHeld'
  BY <1>29 DEF Tick
<1> HIDE ActorAssumption DEF At, Goto, WaitMutexHeld, References, Positions,
    OwnersAgree, OwnedAreAlive, DestroyersAreLast, Destroying, PurposeKnown,
    AtWork, ArmingComesFirst, DisarmPcs, dataVars, tokenVars, lifeVars,
    cbVars, serviceVars, runVars, callVars, watchVars, vars, TypeOK, Actors,
    ClaimPcs
<1>30. ASSUME NEW t \in Threads, ArmNotify(t) PROVE WaitMutexHeld'
  <2>1. CASE pc[Watchdog] = "asleep"
    BY ActorAssumption, <1>30, <2>1
      DEF ArmNotify, WakeWatchdog, WaitMutexHeld, References, Positions,
          OwnersAgree, OwnedAreAlive, DestroyersAreLast, Destroying,
          PurposeKnown, AtWork, ArmingComesFirst, DisarmPcs, dataVars,
          tokenVars, lifeVars, cbVars, serviceVars, runVars, callVars,
          watchVars, TypeOK, Actors, ClaimPcs
  <2>2. CASE pc[Watchdog] # "asleep"
    BY ActorAssumption, <1>30, <2>2
      DEF ArmNotify, WakeWatchdog, WaitMutexHeld, References, Positions,
          OwnersAgree, OwnedAreAlive, DestroyersAreLast, Destroying,
          PurposeKnown, AtWork, ArmingComesFirst, DisarmPcs, dataVars,
          tokenVars, lifeVars, cbVars, serviceVars, runVars, callVars,
          watchVars, TypeOK, Actors, ClaimPcs
  <2> QED BY <2>1, <2>2
<1>31. ASSUME NEW t \in Threads, ArmRecheck(t) PROVE WaitMutexHeld'
  <2>1. CASE reason[object[t]] = "none"
    BY ActorAssumption, <1>31, <2>1
      DEF ArmRecheck, Goto, WaitMutexHeld, References, Positions, OwnersAgree,
          OwnedAreAlive, DestroyersAreLast, Destroying, PurposeKnown, AtWork,
          ArmingComesFirst, DisarmPcs, tokenVars, lifeVars, cbVars,
          serviceVars, runVars, watchVars, TypeOK, Actors, ClaimPcs
  <2>2. CASE reason[object[t]] # "none"
    BY ActorAssumption, <1>31, <2>2
      DEF ArmRecheck, Goto, WaitMutexHeld, References, Positions, OwnersAgree,
          OwnedAreAlive, DestroyersAreLast, Destroying, PurposeKnown, AtWork,
          ArmingComesFirst, DisarmPcs, tokenVars, lifeVars, cbVars,
          serviceVars, runVars, watchVars, TypeOK, Actors, ClaimPcs
  <2> QED BY <2>1, <2>2
<1>32. ASSUME NEW t \in Threads, Drop(t) PROVE WaitMutexHeld'
  <2>1. t \in Actors
    BY DEF Actors
  <2> QED BY <1>32, <2>1, DropReleases, WaitMutexHeldReleased DEF References,
      Positions
<1>33. ASSUME NEW t \in Threads, WaitUnlock(t) PROVE WaitMutexHeld'
  <2>1. CASE pc[t] = "block"
    BY ActorAssumption, <1>33, <2>1
      DEF WaitUnlock, Goto, WaitMutexHeld, References, Positions, OwnersAgree,
          OwnedAreAlive, DestroyersAreLast, Destroying, PurposeKnown, AtWork,
          ArmingComesFirst, DisarmPcs, lifeVars, cbVars, serviceVars, runVars,
          callVars, watchVars, TypeOK, Actors, ClaimPcs
  <2>2. CASE pc[t] # "block"
    BY ActorAssumption, <1>33, <2>2
      DEF WaitUnlock, Goto, WaitMutexHeld, References, Positions, OwnersAgree,
          OwnedAreAlive, DestroyersAreLast, Destroying, PurposeKnown, AtWork,
          ArmingComesFirst, DisarmPcs, lifeVars, cbVars, serviceVars, runVars,
          callVars, watchVars, TypeOK, Actors, ClaimPcs
  <2> QED BY <2>1, <2>2
<1>34. ASSUME NEW a \in Actors, Disarm(a) PROVE WaitMutexHeld'
  <2>0. object[a] \in States
    BY <1>34, DisarmObject DEF Disarm, DisarmPcs
  <2>1. CASE timer[object[a]]
    BY ActorAssumption, <1>34, <2>0, <2>1
      DEF Disarm, Goto, Disarmed, DisarmedPc, WaitMutexHeld, References,
          Positions, OwnersAgree, OwnedAreAlive, DestroyersAreLast,
          Destroying, PurposeKnown, AtWork, ArmingComesFirst, DisarmPcs,
          cbVars, serviceVars, runVars, watchVars, TypeOK, Actors, ClaimPcs
  <2>2. CASE ~timer[object[a]]
    BY <1>34, <2>0, <2>2, DisarmEnds, WaitMutexHeldEnded DEF Positions
  <2> QED BY <2>1, <2>2
<1>35. ASSUME NEW a \in Actors, NotifyService(a) PROVE WaitMutexHeld'
  <2>0. object[a] \in States
    BY <1>35, DisarmObject DEF NotifyService, DisarmPcs
  <2> QED BY <1>35, <2>0, NotifyEnds, WaitMutexHeldEnded DEF Positions
<1>36. ASSUME NEW a \in Actors, ClaimReason(a) PROVE WaitMutexHeld'
  <2>1. CASE reason[object[a]] = "none"
    BY ActorAssumption, <1>36, <2>1
      DEF ClaimReason, Goto, AfterClaim, WaitMutexHeld, References, Positions,
          OwnersAgree, OwnedAreAlive, DestroyersAreLast, Destroying,
          PurposeKnown, AtWork, ArmingComesFirst, DisarmPcs, lifeVars, cbVars,
          serviceVars, runVars, watchVars, TypeOK, Actors, ClaimPcs
  <2>2. CASE reason[object[a]] # "none"
    <3>1. \A t \in Threads :
            pc'[t] \in {"test", "block", "leaveWait"} <=> pc[t] \in {"test", "block", "leaveWait"}
      BY <1>36, <2>2 DEF ClaimReason, AfterClaim, Goto, TypeOK, Actors
    <3>2. object' = object /\ waitMutex' = waitMutex
      BY <1>36 DEF ClaimReason
    <3> QED BY <3>1, <3>2 DEF WaitMutexHeld
  <2> QED BY <2>1, <2>2
<1>37. ASSUME NEW a \in Actors, UnregisterEntry(a) PROVE WaitMutexHeld'
  <2>0. object[a] \in States
    BY <1>37, DisarmObject DEF UnregisterEntry, DisarmPcs
  <2>1. CASE object[a] \in schedule
    BY ActorAssumption, <1>37, <2>0, <2>1
      DEF UnregisterEntry, Goto, WaitMutexHeld, References, Positions,
          OwnersAgree, OwnedAreAlive, DestroyersAreLast, Destroying,
          PurposeKnown, AtWork, ArmingComesFirst, DisarmPcs, cbVars, runVars,
          TypeOK, Actors, ClaimPcs
  <2>2. CASE object[a] \notin schedule
    BY <1>37, <2>0, <2>2, UnregisterEnds, WaitMutexHeldEnded DEF Positions
  <2> QED BY <2>1, <2>2
<1>38. ASSUME Fire PROVE WaitMutexHeld'
  <2>1. CASE owners[Head(due)] = {}
    BY ActorAssumption, <1>38, <2>1
      DEF Fire, Goto, WaitMutexHeld, References, Positions, OwnersAgree,
          OwnedAreAlive, DestroyersAreLast, Destroying, PurposeKnown, AtWork,
          ArmingComesFirst, DisarmPcs, cbVars, serviceVars, TypeOK, Actors,
          ClaimPcs
  <2>2. CASE owners[Head(due)] # {}
    <3>1. Fired(Head(due))
      BY <1>38, <2>2, FireFires DEF Positions
    <3> QED BY <3>1, WaitMutexHeldFired DEF Fired
  <2> QED BY <2>1, <2>2
<1>39. ASSUME DropFired PROVE WaitMutexHeld'
  <2>1. Watchdog \in Actors
    BY DEF Actors
  <2> QED BY <1>39, <2>1, DropFiredReleases, WaitMutexHeldReleased DEF References,
      Positions
<1>40. ASSUME Woken PROVE WaitMutexHeld'
  <2>1. CASE changed \/ now >= until
    BY ActorAssumption, <1>40, <2>1
      DEF Woken, Goto, WaitMutexHeld, References, Positions, OwnersAgree,
          OwnedAreAlive, DestroyersAreLast, Destroying, PurposeKnown, AtWork,
          ArmingComesFirst, DisarmPcs, tokenVars, lifeVars, cbVars,
          serviceVars, callVars, TypeOK, Actors, ClaimPcs
  <2>2. CASE ~(changed \/ now >= until)
    BY ActorAssumption, <1>40, <2>2
      DEF Woken, Goto, WaitMutexHeld, References, Positions, OwnersAgree,
          OwnedAreAlive, DestroyersAreLast, Destroying, PurposeKnown, AtWork,
          ArmingComesFirst, DisarmPcs, tokenVars, lifeVars, cbVars,
          serviceVars, callVars, TypeOK, Actors, ClaimPcs
  <2> QED BY <2>1, <2>2
<1> QED
  BY <1>1, <1>2, <1>3, <1>4, <1>5, <1>6, <1>7, <1>8, <1>9, <1>10,
      <1>11, <1>12, <1>13, <1>14, <1>15, <1>16, <1>17, <1>18, <1>19, <1>20,
      <1>21, <1>22, <1>23, <1>24, <1>25, <1>26, <1>27, <1>28, <1>29, <1>30,
      <1>31, <1>32, <1>33, <1>34, <1>35, <1>36, <1>37, <1>38, <1>39, <1>40
  DEF Next, Optional, ThreadSteps, ThreadLocks, ClaimSteps, ClaimLocks,
      WatchdogSteps, WatchdogLocks, Actors

-----------------------------------------------------------------------------
(* An actor holds the callback mutex of a state exactly while it runs the  *)
(* callbacks. Kept over the end of a disarm.                               *)
LEMMA CbMutexHeldEnded ==
    ASSUME TypeOK, References, Positions, CbMutexHeld, NEW a \in Actors,
      Ended(a), object[a] \in States
    PROVE  CbMutexHeld'
BY ActorAssumption
  DEF Ended, CbMutexHeld, References, Positions, OwnersAgree, OwnedAreAlive,
      DestroyersAreLast, Destroying, PurposeKnown, AtWork, ArmingComesFirst,
      DisarmPcs, TypeOK, Actors, ClaimPcs

(* The same (CbMutexHeld), kept over the release of a reference.           *)
LEMMA CbMutexHeldReleased ==
    ASSUME TypeOK, References, Positions, CbMutexHeld, NEW a \in Actors,
      Released(a)
    PROVE  CbMutexHeld'
BY ActorAssumption
  DEF Released, CbMutexHeld, References, Positions, OwnersAgree,
      OwnedAreAlive, DestroyersAreLast, Destroying, PurposeKnown, AtWork,
      ArmingComesFirst, DisarmPcs, TypeOK, Actors, ClaimPcs

(* The same (CbMutexHeld), kept over the firing of an entry.               *)
LEMMA CbMutexHeldFired ==
    ASSUME TypeOK, References, Positions, CbMutexHeld, NEW z \in States,
      Fired(z)
    PROVE  CbMutexHeld'
BY ActorAssumption
  DEF Fired, CbMutexHeld, References, Positions, OwnersAgree, OwnedAreAlive,
      DestroyersAreLast, Destroying, PurposeKnown, AtWork, ArmingComesFirst,
      DisarmPcs, TypeOK, Actors, ClaimPcs

(* The same (CbMutexHeld), kept over every step.                           *)
LEMMA CbMutexHeldStep ==
    ASSUME TypeOK, References, Positions,
      CbMutexHeld, Next
    PROVE  CbMutexHeld'
<1> USE ActorAssumption DEF At, Goto, CbMutexHeld, References, Positions,
    OwnersAgree, OwnedAreAlive, DestroyersAreLast, Destroying, PurposeKnown,
    AtWork, ArmingComesFirst, DisarmPcs, dataVars, tokenVars, lifeVars,
    cbVars, serviceVars, runVars, callVars, watchVars, vars, TypeOK, Actors,
    ClaimPcs
<1>1. ASSUME NEW t \in Threads, NEW s \in States, NEW d \in Deadlines, Create(t, s, d)
      PROVE CbMutexHeld'
  BY <1>1 DEF Create
<1>2. ASSUME NEW t \in Threads, ArmRegister(t) PROVE CbMutexHeld'
  BY <1>2 DEF ArmRegister
<1>3. ASSUME NEW t \in Threads, ArmFails(t) PROVE CbMutexHeld'
  BY <1>3 DEF ArmFails
<1>4. ASSUME NEW t \in Threads, ArmStore(t) PROVE CbMutexHeld'
  BY <1>4 DEF ArmStore
<1>5. ASSUME NEW t \in Threads, NEW s \in States, Share(t, s) PROVE CbMutexHeld'
  BY <1>5 DEF Share
<1>6. ASSUME NEW t \in Threads, Cancel(t) PROVE CbMutexHeld'
  BY <1>6 DEF Cancel, StartClaim
<1>7. ASSUME NEW t \in Threads, Poll(t) PROVE CbMutexHeld'
  BY <1>7 DEF Poll, StartClaim
<1>8. ASSUME NEW t \in Threads, Wait(t) PROVE CbMutexHeld'
  BY <1>8 DEF Wait
<1>9. ASSUME NEW t \in Threads, StartRegister(t) PROVE CbMutexHeld'
  BY <1>9 DEF StartRegister
<1>10. ASSUME NEW t \in Threads, DestroyRegistration(t) PROVE CbMutexHeld'
  BY <1>10 DEF DestroyRegistration
<1>11. ASSUME NEW t \in Threads, DestroyInline(t) PROVE CbMutexHeld'
  BY <1>11 DEF DestroyInline
<1>12. ASSUME NEW t \in Threads, WaitTest(t) PROVE CbMutexHeld'
  BY <1>12 DEF WaitTest
<1>13. ASSUME NEW t \in Threads, WaitLock(t) PROVE CbMutexHeld'
  BY <1>13 DEF WaitLock
<1>14. ASSUME NEW t \in Threads, RegisterStored(t) PROVE CbMutexHeld'
  BY <1>14 DEF RegisterStored
<1>15. ASSUME NEW t \in Threads, RegisterInline(t) PROVE CbMutexHeld'
  BY <1>15 DEF RegisterInline
<1>16. ASSUME NEW t \in Threads, Unregister(t) PROVE CbMutexHeld'
  BY <1>16 DEF Unregister
<1>17. ASSUME NEW a \in Actors, NotifyWaiters(a) PROVE CbMutexHeld'
  BY <1>17 DEF NotifyWaiters
<1>18. ASSUME NEW a \in Actors, CallBack(a) PROVE CbMutexHeld'
  BY <1>18 DEF CallBack
<1>19. ASSUME NEW a \in Actors, CallbackReturns(a) PROVE CbMutexHeld'
  BY <1>19 DEF CallbackReturns
<1>20. ASSUME NEW a \in Actors, ClaimReturns(a) PROVE CbMutexHeld'
  BY <1>20 DEF ClaimReturns, AfterClaim
<1>21. ASSUME NEW a \in Actors, ReleaseWaiters(a) PROVE CbMutexHeld'
  BY <1>21 DEF ReleaseWaiters
<1>22. ASSUME NEW a \in Actors, LockCallbacks(a) PROVE CbMutexHeld'
  BY <1>22 DEF LockCallbacks
<1>23. ASSUME Collect PROVE CbMutexHeld'
  BY <1>23 DEF Collect, Collected
<1>24. ASSUME CollectedAll PROVE CbMutexHeld'
  BY <1>24 DEF CollectedAll
<1>25. ASSUME Sleep PROVE CbMutexHeld'
  BY <1>25 DEF Sleep
<1>26. ASSUME TimeOut PROVE CbMutexHeld'
  BY <1>26 DEF TimeOut
<1>27. ASSUME FiredAll PROVE CbMutexHeld'
  BY <1>27 DEF FiredAll
<1>28. ASSUME Scan PROVE CbMutexHeld'
  BY <1>28 DEF Scan
<1>29. ASSUME Tick PROVE CbMutexHeld'
  BY <1>29 DEF Tick
<1> HIDE ActorAssumption DEF At, Goto, CbMutexHeld, References, Positions,
    OwnersAgree, OwnedAreAlive, DestroyersAreLast, Destroying, PurposeKnown,
    AtWork, ArmingComesFirst, DisarmPcs, dataVars, tokenVars, lifeVars,
    cbVars, serviceVars, runVars, callVars, watchVars, vars, TypeOK, Actors,
    ClaimPcs
<1>30. ASSUME NEW t \in Threads, ArmNotify(t) PROVE CbMutexHeld'
  <2>1. CASE pc[Watchdog] = "asleep"
    BY ActorAssumption, <1>30, <2>1
      DEF ArmNotify, WakeWatchdog, CbMutexHeld, References, Positions,
          OwnersAgree, OwnedAreAlive, DestroyersAreLast, Destroying,
          PurposeKnown, AtWork, ArmingComesFirst, DisarmPcs, dataVars,
          tokenVars, lifeVars, cbVars, serviceVars, runVars, callVars,
          watchVars, TypeOK, Actors, ClaimPcs
  <2>2. CASE pc[Watchdog] # "asleep"
    BY ActorAssumption, <1>30, <2>2
      DEF ArmNotify, WakeWatchdog, CbMutexHeld, References, Positions,
          OwnersAgree, OwnedAreAlive, DestroyersAreLast, Destroying,
          PurposeKnown, AtWork, ArmingComesFirst, DisarmPcs, dataVars,
          tokenVars, lifeVars, cbVars, serviceVars, runVars, callVars,
          watchVars, TypeOK, Actors, ClaimPcs
  <2> QED BY <2>1, <2>2
<1>31. ASSUME NEW t \in Threads, ArmRecheck(t) PROVE CbMutexHeld'
  <2>1. CASE reason[object[t]] = "none"
    BY ActorAssumption, <1>31, <2>1
      DEF ArmRecheck, Goto, CbMutexHeld, References, Positions, OwnersAgree,
          OwnedAreAlive, DestroyersAreLast, Destroying, PurposeKnown, AtWork,
          ArmingComesFirst, DisarmPcs, tokenVars, lifeVars, cbVars,
          serviceVars, runVars, watchVars, TypeOK, Actors, ClaimPcs
  <2>2. CASE reason[object[t]] # "none"
    BY ActorAssumption, <1>31, <2>2
      DEF ArmRecheck, Goto, CbMutexHeld, References, Positions, OwnersAgree,
          OwnedAreAlive, DestroyersAreLast, Destroying, PurposeKnown, AtWork,
          ArmingComesFirst, DisarmPcs, tokenVars, lifeVars, cbVars,
          serviceVars, runVars, watchVars, TypeOK, Actors, ClaimPcs
  <2> QED BY <2>1, <2>2
<1>32. ASSUME NEW t \in Threads, Drop(t) PROVE CbMutexHeld'
  <2>1. t \in Actors
    BY DEF Actors
  <2> QED BY <1>32, <2>1, DropReleases, CbMutexHeldReleased DEF References,
      Positions
<1>33. ASSUME NEW t \in Threads, WaitUnlock(t) PROVE CbMutexHeld'
  <2>1. CASE pc[t] = "block"
    BY ActorAssumption, <1>33, <2>1
      DEF WaitUnlock, Goto, CbMutexHeld, References, Positions, OwnersAgree,
          OwnedAreAlive, DestroyersAreLast, Destroying, PurposeKnown, AtWork,
          ArmingComesFirst, DisarmPcs, lifeVars, cbVars, serviceVars, runVars,
          callVars, watchVars, TypeOK, Actors, ClaimPcs
  <2>2. CASE pc[t] # "block"
    BY ActorAssumption, <1>33, <2>2
      DEF WaitUnlock, Goto, CbMutexHeld, References, Positions, OwnersAgree,
          OwnedAreAlive, DestroyersAreLast, Destroying, PurposeKnown, AtWork,
          ArmingComesFirst, DisarmPcs, lifeVars, cbVars, serviceVars, runVars,
          callVars, watchVars, TypeOK, Actors, ClaimPcs
  <2> QED BY <2>1, <2>2
<1>34. ASSUME NEW a \in Actors, Disarm(a) PROVE CbMutexHeld'
  <2>0. object[a] \in States
    BY <1>34, DisarmObject DEF Disarm, DisarmPcs
  <2>1. CASE timer[object[a]]
    BY ActorAssumption, <1>34, <2>0, <2>1
      DEF Disarm, Goto, Disarmed, DisarmedPc, CbMutexHeld, References,
          Positions, OwnersAgree, OwnedAreAlive, DestroyersAreLast,
          Destroying, PurposeKnown, AtWork, ArmingComesFirst, DisarmPcs,
          cbVars, serviceVars, runVars, watchVars, TypeOK, Actors, ClaimPcs
  <2>2. CASE ~timer[object[a]]
    BY <1>34, <2>0, <2>2, DisarmEnds, CbMutexHeldEnded DEF Positions
  <2> QED BY <2>1, <2>2
<1>35. ASSUME NEW a \in Actors, NotifyService(a) PROVE CbMutexHeld'
  <2>0. object[a] \in States
    BY <1>35, DisarmObject DEF NotifyService, DisarmPcs
  <2> QED BY <1>35, <2>0, NotifyEnds, CbMutexHeldEnded DEF Positions
<1>36. ASSUME NEW a \in Actors, ClaimReason(a) PROVE CbMutexHeld'
  <2>1. CASE reason[object[a]] = "none"
    BY ActorAssumption, <1>36, <2>1
      DEF ClaimReason, Goto, AfterClaim, CbMutexHeld, References, Positions,
          OwnersAgree, OwnedAreAlive, DestroyersAreLast, Destroying,
          PurposeKnown, AtWork, ArmingComesFirst, DisarmPcs, lifeVars, cbVars,
          serviceVars, runVars, watchVars, TypeOK, Actors, ClaimPcs
  <2>2. CASE reason[object[a]] # "none"
    BY ActorAssumption, <1>36, <2>2
      DEF ClaimReason, Goto, AfterClaim, CbMutexHeld, References, Positions,
          OwnersAgree, OwnedAreAlive, DestroyersAreLast, Destroying,
          PurposeKnown, AtWork, ArmingComesFirst, DisarmPcs, lifeVars, cbVars,
          serviceVars, runVars, watchVars, TypeOK, Actors, ClaimPcs
  <2> QED BY <2>1, <2>2
<1>37. ASSUME NEW a \in Actors, UnregisterEntry(a) PROVE CbMutexHeld'
  <2>0. object[a] \in States
    BY <1>37, DisarmObject DEF UnregisterEntry, DisarmPcs
  <2>1. CASE object[a] \in schedule
    BY ActorAssumption, <1>37, <2>0, <2>1
      DEF UnregisterEntry, Goto, CbMutexHeld, References, Positions,
          OwnersAgree, OwnedAreAlive, DestroyersAreLast, Destroying,
          PurposeKnown, AtWork, ArmingComesFirst, DisarmPcs, cbVars, runVars,
          TypeOK, Actors, ClaimPcs
  <2>2. CASE object[a] \notin schedule
    BY <1>37, <2>0, <2>2, UnregisterEnds, CbMutexHeldEnded DEF Positions
  <2> QED BY <2>1, <2>2
<1>38. ASSUME Fire PROVE CbMutexHeld'
  <2>1. CASE owners[Head(due)] = {}
    BY ActorAssumption, <1>38, <2>1
      DEF Fire, Goto, CbMutexHeld, References, Positions, OwnersAgree,
          OwnedAreAlive, DestroyersAreLast, Destroying, PurposeKnown, AtWork,
          ArmingComesFirst, DisarmPcs, cbVars, serviceVars, TypeOK, Actors,
          ClaimPcs
  <2>2. CASE owners[Head(due)] # {}
    <3>1. Fired(Head(due))
      BY <1>38, <2>2, FireFires DEF Positions
    <3> QED BY <3>1, CbMutexHeldFired DEF Fired
  <2> QED BY <2>1, <2>2
<1>39. ASSUME DropFired PROVE CbMutexHeld'
  <2>1. Watchdog \in Actors
    BY DEF Actors
  <2> QED BY <1>39, <2>1, DropFiredReleases, CbMutexHeldReleased DEF References,
      Positions
<1>40. ASSUME Woken PROVE CbMutexHeld'
  <2>1. CASE changed \/ now >= until
    BY ActorAssumption, <1>40, <2>1
      DEF Woken, Goto, CbMutexHeld, References, Positions, OwnersAgree,
          OwnedAreAlive, DestroyersAreLast, Destroying, PurposeKnown, AtWork,
          ArmingComesFirst, DisarmPcs, tokenVars, lifeVars, cbVars,
          serviceVars, callVars, TypeOK, Actors, ClaimPcs
  <2>2. CASE ~(changed \/ now >= until)
    BY ActorAssumption, <1>40, <2>2
      DEF Woken, Goto, CbMutexHeld, References, Positions, OwnersAgree,
          OwnedAreAlive, DestroyersAreLast, Destroying, PurposeKnown, AtWork,
          ArmingComesFirst, DisarmPcs, tokenVars, lifeVars, cbVars,
          serviceVars, callVars, TypeOK, Actors, ClaimPcs
  <2> QED BY <2>1, <2>2
<1> QED
  BY <1>1, <1>2, <1>3, <1>4, <1>5, <1>6, <1>7, <1>8, <1>9, <1>10,
      <1>11, <1>12, <1>13, <1>14, <1>15, <1>16, <1>17, <1>18, <1>19, <1>20,
      <1>21, <1>22, <1>23, <1>24, <1>25, <1>26, <1>27, <1>28, <1>29, <1>30,
      <1>31, <1>32, <1>33, <1>34, <1>35, <1>36, <1>37, <1>38, <1>39, <1>40
  DEF Next, Optional, ThreadSteps, ThreadLocks, ClaimSteps, ClaimLocks,
      WatchdogSteps, WatchdogLocks, Actors

-----------------------------------------------------------------------------
(* Only states with a deadline are scheduled. Kept over the end of a       *)
(* disarm.                                                                 *)
LEMMA EntriesTimedEnded ==
    ASSUME TypeOK, References, Positions, EntriesFollowed, NEW a \in Actors,
      Ended(a), object[a] \in States
    PROVE  EntriesTimed'
BY ActorAssumption
  DEF Ended, EntriesTimed, References, Positions, EntriesFollowed,
      OwnersAgree, OwnedAreAlive, DestroyersAreLast, Destroying, PurposeKnown,
      AtWork, ArmingComesFirst, DisarmPcs, HandlesFollow, NoHandle,
      SettlesHandle, Working, TypeOK, Actors, ClaimPcs

(* The same (EntriesTimed), kept over the release of a reference.          *)
LEMMA EntriesTimedReleased ==
    ASSUME TypeOK, References, Positions, EntriesFollowed, NEW a \in Actors,
      Released(a)
    PROVE  EntriesTimed'
BY ActorAssumption
  DEF Released, EntriesTimed, References, Positions, EntriesFollowed,
      OwnersAgree, OwnedAreAlive, DestroyersAreLast, Destroying, PurposeKnown,
      AtWork, ArmingComesFirst, DisarmPcs, HandlesFollow, NoHandle,
      SettlesHandle, Working, TypeOK, Actors, ClaimPcs

(* The same (EntriesTimed), kept over the firing of an entry.              *)
LEMMA EntriesTimedFired ==
    ASSUME TypeOK, References, Positions, EntriesFollowed, NEW z \in States,
      Fired(z)
    PROVE  EntriesTimed'
BY ActorAssumption
  DEF Fired, EntriesTimed, References, Positions, EntriesFollowed,
      OwnersAgree, OwnedAreAlive, DestroyersAreLast, Destroying, PurposeKnown,
      AtWork, ArmingComesFirst, DisarmPcs, HandlesFollow, NoHandle,
      SettlesHandle, Working, TypeOK, Actors, ClaimPcs

(* The same (EntriesTimed), kept over every step.                          *)
LEMMA EntriesTimedStep ==
    ASSUME TypeOK, References, Positions,
      EntriesFollowed, Next
    PROVE  EntriesTimed'
<1> USE ActorAssumption DEF At, Goto, EntriesTimed, References, Positions,
    EntriesFollowed, OwnersAgree, OwnedAreAlive, DestroyersAreLast,
    Destroying, PurposeKnown, AtWork, ArmingComesFirst, DisarmPcs,
    HandlesFollow, NoHandle, SettlesHandle, Working, dataVars, tokenVars,
    lifeVars, cbVars, serviceVars, runVars, callVars, watchVars, vars, TypeOK,
    Actors, ClaimPcs
<1>1. ASSUME NEW t \in Threads, NEW s \in States, NEW d \in Deadlines, Create(t, s, d)
      PROVE EntriesTimed'
  BY <1>1 DEF Create
<1>2. ASSUME NEW t \in Threads, ArmRegister(t) PROVE EntriesTimed'
  BY <1>2 DEF ArmRegister
<1>3. ASSUME NEW t \in Threads, ArmFails(t) PROVE EntriesTimed'
  BY <1>3 DEF ArmFails
<1>4. ASSUME NEW t \in Threads, ArmStore(t) PROVE EntriesTimed'
  BY <1>4 DEF ArmStore
<1>5. ASSUME NEW t \in Threads, NEW s \in States, Share(t, s)
      PROVE EntriesTimed'
  BY <1>5 DEF Share
<1>6. ASSUME NEW t \in Threads, Cancel(t) PROVE EntriesTimed'
  BY <1>6 DEF Cancel, StartClaim
<1>7. ASSUME NEW t \in Threads, Poll(t) PROVE EntriesTimed'
  BY <1>7 DEF Poll, StartClaim
<1>8. ASSUME NEW t \in Threads, Wait(t) PROVE EntriesTimed'
  BY <1>8 DEF Wait
<1>9. ASSUME NEW t \in Threads, StartRegister(t) PROVE EntriesTimed'
  BY <1>9 DEF StartRegister
<1>10. ASSUME NEW t \in Threads, DestroyRegistration(t) PROVE EntriesTimed'
  BY <1>10 DEF DestroyRegistration
<1>11. ASSUME NEW t \in Threads, DestroyInline(t) PROVE EntriesTimed'
  BY <1>11 DEF DestroyInline
<1>12. ASSUME NEW t \in Threads, WaitTest(t) PROVE EntriesTimed'
  BY <1>12 DEF WaitTest
<1>13. ASSUME NEW t \in Threads, WaitLock(t) PROVE EntriesTimed'
  BY <1>13 DEF WaitLock
<1>14. ASSUME NEW t \in Threads, RegisterStored(t) PROVE EntriesTimed'
  BY <1>14 DEF RegisterStored
<1>15. ASSUME NEW t \in Threads, RegisterInline(t) PROVE EntriesTimed'
  BY <1>15 DEF RegisterInline
<1>16. ASSUME NEW t \in Threads, Unregister(t) PROVE EntriesTimed'
  BY <1>16 DEF Unregister
<1>17. ASSUME NEW a \in Actors, NotifyWaiters(a) PROVE EntriesTimed'
  BY <1>17 DEF NotifyWaiters
<1>18. ASSUME NEW a \in Actors, CallBack(a) PROVE EntriesTimed'
  BY <1>18 DEF CallBack
<1>19. ASSUME NEW a \in Actors, CallbackReturns(a) PROVE EntriesTimed'
  BY <1>19 DEF CallbackReturns
<1>20. ASSUME NEW a \in Actors, ClaimReturns(a) PROVE EntriesTimed'
  BY <1>20 DEF ClaimReturns, AfterClaim
<1>21. ASSUME NEW a \in Actors, ReleaseWaiters(a) PROVE EntriesTimed'
  BY <1>21 DEF ReleaseWaiters
<1>22. ASSUME NEW a \in Actors, LockCallbacks(a) PROVE EntriesTimed'
  BY <1>22 DEF LockCallbacks
<1>23. ASSUME Collect PROVE EntriesTimed'
  BY <1>23 DEF Collect, Collected
<1>24. ASSUME CollectedAll PROVE EntriesTimed'
  BY <1>24 DEF CollectedAll
<1>25. ASSUME Sleep PROVE EntriesTimed'
  BY <1>25 DEF Sleep
<1>26. ASSUME TimeOut PROVE EntriesTimed'
  BY <1>26 DEF TimeOut
<1>27. ASSUME FiredAll PROVE EntriesTimed'
  BY <1>27 DEF FiredAll
<1>28. ASSUME Scan PROVE EntriesTimed'
  BY <1>28 DEF Scan
<1>29. ASSUME Tick PROVE EntriesTimed'
  BY <1>29 DEF Tick
<1> HIDE ActorAssumption DEF At, Goto, EntriesTimed, References, Positions,
    EntriesFollowed, OwnersAgree, OwnedAreAlive, DestroyersAreLast,
    Destroying, PurposeKnown, AtWork, ArmingComesFirst, DisarmPcs,
    HandlesFollow, NoHandle, SettlesHandle, Working, dataVars, tokenVars,
    lifeVars, cbVars, serviceVars, runVars, callVars, watchVars, vars, TypeOK,
    Actors, ClaimPcs
<1>30. ASSUME NEW t \in Threads, ArmNotify(t) PROVE EntriesTimed'
  <2>1. CASE pc[Watchdog] = "asleep"
    BY ActorAssumption, <1>30, <2>1
      DEF ArmNotify, WakeWatchdog, EntriesTimed, References, Positions,
          EntriesFollowed, OwnersAgree, OwnedAreAlive, DestroyersAreLast,
          Destroying, PurposeKnown, AtWork, ArmingComesFirst, DisarmPcs,
          HandlesFollow, NoHandle, SettlesHandle, Working, dataVars,
          tokenVars, lifeVars, cbVars, serviceVars, runVars, callVars,
          watchVars, TypeOK, Actors, ClaimPcs
  <2>2. CASE pc[Watchdog] # "asleep"
    BY ActorAssumption, <1>30, <2>2
      DEF ArmNotify, WakeWatchdog, EntriesTimed, References, Positions,
          EntriesFollowed, OwnersAgree, OwnedAreAlive, DestroyersAreLast,
          Destroying, PurposeKnown, AtWork, ArmingComesFirst, DisarmPcs,
          HandlesFollow, NoHandle, SettlesHandle, Working, dataVars,
          tokenVars, lifeVars, cbVars, serviceVars, runVars, callVars,
          watchVars, TypeOK, Actors, ClaimPcs
  <2> QED BY <2>1, <2>2
<1>31. ASSUME NEW t \in Threads, ArmRecheck(t) PROVE EntriesTimed'
  <2>1. CASE reason[object[t]] = "none"
    BY ActorAssumption, <1>31, <2>1
      DEF ArmRecheck, Goto, EntriesTimed, References, Positions,
          EntriesFollowed, OwnersAgree, OwnedAreAlive, DestroyersAreLast,
          Destroying, PurposeKnown, AtWork, ArmingComesFirst, DisarmPcs,
          HandlesFollow, NoHandle, SettlesHandle, Working, tokenVars,
          lifeVars, cbVars, serviceVars, runVars, watchVars, TypeOK, Actors,
          ClaimPcs
  <2>2. CASE reason[object[t]] # "none"
    BY ActorAssumption, <1>31, <2>2
      DEF ArmRecheck, Goto, EntriesTimed, References, Positions,
          EntriesFollowed, OwnersAgree, OwnedAreAlive, DestroyersAreLast,
          Destroying, PurposeKnown, AtWork, ArmingComesFirst, DisarmPcs,
          HandlesFollow, NoHandle, SettlesHandle, Working, tokenVars,
          lifeVars, cbVars, serviceVars, runVars, watchVars, TypeOK, Actors,
          ClaimPcs
  <2> QED BY <2>1, <2>2
<1>32. ASSUME NEW t \in Threads, Drop(t) PROVE EntriesTimed'
  <2>1. t \in Actors
    BY DEF Actors
  <2> QED BY <1>32, <2>1, DropReleases, EntriesTimedReleased DEF References,
      Positions
<1>33. ASSUME NEW t \in Threads, WaitUnlock(t) PROVE EntriesTimed'
  <2>1. CASE pc[t] = "block"
    BY ActorAssumption, <1>33, <2>1
      DEF WaitUnlock, Goto, EntriesTimed, References, Positions,
          EntriesFollowed, OwnersAgree, OwnedAreAlive, DestroyersAreLast,
          Destroying, PurposeKnown, AtWork, ArmingComesFirst, DisarmPcs,
          HandlesFollow, NoHandle, SettlesHandle, Working, lifeVars, cbVars,
          serviceVars, runVars, callVars, watchVars, TypeOK, Actors, ClaimPcs
  <2>2. CASE pc[t] # "block"
    BY ActorAssumption, <1>33, <2>2
      DEF WaitUnlock, Goto, EntriesTimed, References, Positions,
          EntriesFollowed, OwnersAgree, OwnedAreAlive, DestroyersAreLast,
          Destroying, PurposeKnown, AtWork, ArmingComesFirst, DisarmPcs,
          HandlesFollow, NoHandle, SettlesHandle, Working, lifeVars, cbVars,
          serviceVars, runVars, callVars, watchVars, TypeOK, Actors, ClaimPcs
  <2> QED BY <2>1, <2>2
<1>34. ASSUME NEW a \in Actors, Disarm(a) PROVE EntriesTimed'
  <2>0. object[a] \in States
    BY <1>34, DisarmObject DEF Disarm, DisarmPcs
  <2>1. CASE timer[object[a]]
    BY ActorAssumption, <1>34, <2>0, <2>1
      DEF Disarm, Goto, Disarmed, DisarmedPc, EntriesTimed, References,
          Positions, EntriesFollowed, OwnersAgree, OwnedAreAlive,
          DestroyersAreLast, Destroying, PurposeKnown, AtWork,
          ArmingComesFirst, DisarmPcs, HandlesFollow, NoHandle, SettlesHandle,
          Working, cbVars, serviceVars, runVars, watchVars, TypeOK, Actors,
          ClaimPcs
  <2>2. CASE ~timer[object[a]]
    BY <1>34, <2>0, <2>2, DisarmEnds, EntriesTimedEnded DEF Positions
  <2> QED BY <2>1, <2>2
<1>35. ASSUME NEW a \in Actors, NotifyService(a) PROVE EntriesTimed'
  <2>0. object[a] \in States
    BY <1>35, DisarmObject DEF NotifyService, DisarmPcs
  <2> QED BY <1>35, <2>0, NotifyEnds, EntriesTimedEnded DEF Positions
<1>36. ASSUME NEW a \in Actors, ClaimReason(a) PROVE EntriesTimed'
  <2>1. CASE reason[object[a]] = "none"
    BY ActorAssumption, <1>36, <2>1
      DEF ClaimReason, Goto, AfterClaim, EntriesTimed, References, Positions,
          EntriesFollowed, OwnersAgree, OwnedAreAlive, DestroyersAreLast,
          Destroying, PurposeKnown, AtWork, ArmingComesFirst, DisarmPcs,
          HandlesFollow, NoHandle, SettlesHandle, Working, lifeVars, cbVars,
          serviceVars, runVars, watchVars, TypeOK, Actors, ClaimPcs
  <2>2. CASE reason[object[a]] # "none"
    BY ActorAssumption, <1>36, <2>2
      DEF ClaimReason, Goto, AfterClaim, EntriesTimed, References, Positions,
          EntriesFollowed, OwnersAgree, OwnedAreAlive, DestroyersAreLast,
          Destroying, PurposeKnown, AtWork, ArmingComesFirst, DisarmPcs,
          HandlesFollow, NoHandle, SettlesHandle, Working, lifeVars, cbVars,
          serviceVars, runVars, watchVars, TypeOK, Actors, ClaimPcs
  <2> QED BY <2>1, <2>2
<1>37. ASSUME NEW a \in Actors, UnregisterEntry(a) PROVE EntriesTimed'
  <2>0. object[a] \in States
    BY <1>37, DisarmObject DEF UnregisterEntry, DisarmPcs
  <2>1. CASE object[a] \in schedule
    BY ActorAssumption, <1>37, <2>0, <2>1
      DEF UnregisterEntry, Goto, EntriesTimed, References, Positions,
          EntriesFollowed, OwnersAgree, OwnedAreAlive, DestroyersAreLast,
          Destroying, PurposeKnown, AtWork, ArmingComesFirst, DisarmPcs,
          HandlesFollow, NoHandle, SettlesHandle, Working, cbVars, runVars,
          TypeOK, Actors, ClaimPcs
  <2>2. CASE object[a] \notin schedule
    BY <1>37, <2>0, <2>2, UnregisterEnds, EntriesTimedEnded DEF Positions
  <2> QED BY <2>1, <2>2
<1>38. ASSUME Fire PROVE EntriesTimed'
  <2>1. CASE owners[Head(due)] = {}
    BY ActorAssumption, <1>38, <2>1
      DEF Fire, Goto, EntriesTimed, References, Positions, EntriesFollowed,
          OwnersAgree, OwnedAreAlive, DestroyersAreLast, Destroying,
          PurposeKnown, AtWork, ArmingComesFirst, DisarmPcs, HandlesFollow,
          NoHandle, SettlesHandle, Working, cbVars, serviceVars, TypeOK,
          Actors, ClaimPcs
  <2>2. CASE owners[Head(due)] # {}
    <3>1. Fired(Head(due))
      BY <1>38, <2>2, FireFires DEF Positions
    <3> QED BY <3>1, EntriesTimedFired DEF Fired
  <2> QED BY <2>1, <2>2
<1>39. ASSUME DropFired PROVE EntriesTimed'
  <2>1. Watchdog \in Actors
    BY DEF Actors
  <2> QED BY <1>39, <2>1, DropFiredReleases, EntriesTimedReleased DEF References,
      Positions
<1>40. ASSUME Woken PROVE EntriesTimed'
  <2>1. CASE changed \/ now >= until
    BY ActorAssumption, <1>40, <2>1
      DEF Woken, Goto, EntriesTimed, References, Positions, EntriesFollowed,
          OwnersAgree, OwnedAreAlive, DestroyersAreLast, Destroying,
          PurposeKnown, AtWork, ArmingComesFirst, DisarmPcs, HandlesFollow,
          NoHandle, SettlesHandle, Working, tokenVars, lifeVars, cbVars,
          serviceVars, callVars, TypeOK, Actors, ClaimPcs
  <2>2. CASE ~(changed \/ now >= until)
    BY ActorAssumption, <1>40, <2>2
      DEF Woken, Goto, EntriesTimed, References, Positions, EntriesFollowed,
          OwnersAgree, OwnedAreAlive, DestroyersAreLast, Destroying,
          PurposeKnown, AtWork, ArmingComesFirst, DisarmPcs, HandlesFollow,
          NoHandle, SettlesHandle, Working, tokenVars, lifeVars, cbVars,
          serviceVars, callVars, TypeOK, Actors, ClaimPcs
  <2> QED BY <2>1, <2>2
<1> QED
  BY <1>1, <1>2, <1>3, <1>4, <1>5, <1>6, <1>7, <1>8, <1>9, <1>10,
      <1>11, <1>12, <1>13, <1>14, <1>15, <1>16, <1>17, <1>18, <1>19, <1>20,
      <1>21, <1>22, <1>23, <1>24, <1>25, <1>26, <1>27, <1>28, <1>29, <1>30,
      <1>31, <1>32, <1>33, <1>34, <1>35, <1>36, <1>37, <1>38, <1>39, <1>40
  DEF Next, Optional, ThreadSteps, ThreadLocks, ClaimSteps, ClaimLocks,
      WatchdogSteps, WatchdogLocks, Actors

-----------------------------------------------------------------------------
(* A scan compares with a time that is past, and a wait of the watchdog    *)
(* outlasts no entry unless the schedule changed under it. Kept over the   *)
(* end of a disarm.                                                        *)
LEMMA SleepsInTimeEnded ==
    ASSUME TypeOK, References, Positions, EntriesFollowed, SleepsInTime,
      NEW a \in Actors, Ended(a), object[a] \in States
    PROVE  SleepsInTime'
<1>1. \A s \in schedule : deadline'[s] = deadline[s]
  <2>1. EntriesTimed'
    BY EntriesTimedEnded
  <2> QED BY <2>1, TimeAssumption DEF EntriesTimed, Ended, TypeOK
<1>2. /\ pc'[Watchdog] \in {"asleep", "woken"} => pc[Watchdog] \in {"asleep", "woken"}
      /\ pc'[Watchdog] = "collect" => pc[Watchdog] = "collect"
  BY DEF Ended, DisarmPcs, Actors
<1> QED BY <1>1, <1>2 DEF SleepsInTime, Ended

(* The same (SleepsInTime), kept over the release of a reference.          *)
LEMMA SleepsInTimeReleased ==
    ASSUME TypeOK, References, Positions, EntriesFollowed, SleepsInTime,
      NEW a \in Actors, Released(a)
    PROVE  SleepsInTime'
BY ActorAssumption
  DEF Released, SleepsInTime, References, Positions, EntriesFollowed,
      OwnersAgree, OwnedAreAlive, DestroyersAreLast, Destroying, PurposeKnown,
      AtWork, ArmingComesFirst, DisarmPcs, EntriesTimed, HandlesFollow,
      NoHandle, SettlesHandle, Working, TypeOK, Actors, ClaimPcs

(* The same (SleepsInTime), kept over the firing of an entry.              *)
LEMMA SleepsInTimeFired ==
    ASSUME TypeOK, References, Positions, EntriesFollowed, SleepsInTime,
      NEW z \in States, Fired(z)
    PROVE  SleepsInTime'
BY ActorAssumption
  DEF Fired, SleepsInTime, References, Positions, EntriesFollowed,
      OwnersAgree, OwnedAreAlive, DestroyersAreLast, Destroying, PurposeKnown,
      AtWork, ArmingComesFirst, DisarmPcs, EntriesTimed, HandlesFollow,
      NoHandle, SettlesHandle, Working, TypeOK, Actors, ClaimPcs

(* The same (SleepsInTime), kept over every step.                          *)
LEMMA SleepsInTimeStep ==
    ASSUME TypeOK, References, Positions,
      EntriesFollowed, SleepsInTime, Next
    PROVE  SleepsInTime'
<1> USE ActorAssumption DEF At, Goto, SleepsInTime, References, Positions,
    EntriesFollowed, OwnersAgree, OwnedAreAlive, DestroyersAreLast,
    Destroying, PurposeKnown, AtWork, ArmingComesFirst, DisarmPcs,
    EntriesTimed, HandlesFollow, NoHandle, SettlesHandle, Working, dataVars,
    tokenVars, lifeVars, cbVars, serviceVars, runVars, callVars, watchVars,
    vars, TypeOK, Actors, ClaimPcs
<1>1. ASSUME NEW t \in Threads, NEW s \in States, NEW d \in Deadlines, Create(t, s, d)
      PROVE SleepsInTime'
  BY <1>1 DEF Create
<1>2. ASSUME NEW t \in Threads, ArmRegister(t) PROVE SleepsInTime'
  BY <1>2 DEF ArmRegister
<1>3. ASSUME NEW t \in Threads, ArmFails(t) PROVE SleepsInTime'
  BY <1>3 DEF ArmFails
<1>4. ASSUME NEW t \in Threads, ArmStore(t) PROVE SleepsInTime'
  BY <1>4 DEF ArmStore
<1>5. ASSUME NEW t \in Threads, NEW s \in States, Share(t, s)
      PROVE SleepsInTime'
  BY <1>5 DEF Share
<1>6. ASSUME NEW t \in Threads, Cancel(t) PROVE SleepsInTime'
  BY <1>6 DEF Cancel, StartClaim
<1>7. ASSUME NEW t \in Threads, Poll(t) PROVE SleepsInTime'
  BY <1>7 DEF Poll, StartClaim
<1>8. ASSUME NEW t \in Threads, Wait(t) PROVE SleepsInTime'
  BY <1>8 DEF Wait
<1>9. ASSUME NEW t \in Threads, StartRegister(t) PROVE SleepsInTime'
  BY <1>9 DEF StartRegister
<1>10. ASSUME NEW t \in Threads, DestroyRegistration(t) PROVE SleepsInTime'
  BY <1>10 DEF DestroyRegistration
<1>11. ASSUME NEW t \in Threads, DestroyInline(t) PROVE SleepsInTime'
  BY <1>11 DEF DestroyInline
<1>12. ASSUME NEW t \in Threads, WaitTest(t) PROVE SleepsInTime'
  BY <1>12 DEF WaitTest
<1>13. ASSUME NEW t \in Threads, WaitLock(t) PROVE SleepsInTime'
  BY <1>13 DEF WaitLock
<1>14. ASSUME NEW t \in Threads, RegisterStored(t) PROVE SleepsInTime'
  BY <1>14 DEF RegisterStored
<1>15. ASSUME NEW t \in Threads, RegisterInline(t) PROVE SleepsInTime'
  BY <1>15 DEF RegisterInline
<1>16. ASSUME NEW t \in Threads, Unregister(t) PROVE SleepsInTime'
  BY <1>16 DEF Unregister
<1>17. ASSUME NEW a \in Actors, NotifyWaiters(a) PROVE SleepsInTime'
  BY <1>17 DEF NotifyWaiters
<1>18. ASSUME NEW a \in Actors, CallBack(a) PROVE SleepsInTime'
  BY <1>18 DEF CallBack
<1>19. ASSUME NEW a \in Actors, CallbackReturns(a) PROVE SleepsInTime'
  BY <1>19 DEF CallbackReturns
<1>20. ASSUME NEW a \in Actors, ClaimReturns(a) PROVE SleepsInTime'
  BY <1>20 DEF ClaimReturns, AfterClaim
<1>21. ASSUME NEW a \in Actors, ReleaseWaiters(a) PROVE SleepsInTime'
  BY <1>21 DEF ReleaseWaiters
<1>22. ASSUME NEW a \in Actors, LockCallbacks(a) PROVE SleepsInTime'
  BY <1>22 DEF LockCallbacks
<1>23. ASSUME Collect PROVE SleepsInTime'
  BY <1>23 DEF Collect, Collected
<1>24. ASSUME CollectedAll PROVE SleepsInTime'
  BY <1>24 DEF CollectedAll
<1>25. ASSUME TimeOut PROVE SleepsInTime'
  BY <1>25 DEF TimeOut
<1>26. ASSUME FiredAll PROVE SleepsInTime'
  BY <1>26 DEF FiredAll
<1>27. ASSUME Scan PROVE SleepsInTime'
  BY <1>27 DEF Scan
<1> HIDE ActorAssumption DEF At, Goto, SleepsInTime, References, Positions,
    EntriesFollowed, OwnersAgree, OwnedAreAlive, DestroyersAreLast,
    Destroying, PurposeKnown, AtWork, ArmingComesFirst, DisarmPcs,
    EntriesTimed, HandlesFollow, NoHandle, SettlesHandle, Working, dataVars,
    tokenVars, lifeVars, cbVars, serviceVars, runVars, callVars, watchVars,
    vars, TypeOK, Actors, ClaimPcs
<1>28. ASSUME NEW t \in Threads, ArmNotify(t) PROVE SleepsInTime'
  <2>1. CASE pc[Watchdog] = "asleep"
    BY ActorAssumption, <1>28, <2>1
      DEF ArmNotify, WakeWatchdog, SleepsInTime, References, Positions,
          EntriesFollowed, OwnersAgree, OwnedAreAlive, DestroyersAreLast,
          Destroying, PurposeKnown, AtWork, ArmingComesFirst, DisarmPcs,
          EntriesTimed, HandlesFollow, NoHandle, SettlesHandle, Working,
          dataVars, tokenVars, lifeVars, cbVars, serviceVars, runVars,
          callVars, watchVars, TypeOK, Actors, ClaimPcs
  <2>2. CASE pc[Watchdog] # "asleep"
    BY ActorAssumption, <1>28, <2>2
      DEF ArmNotify, WakeWatchdog, SleepsInTime, References, Positions,
          EntriesFollowed, OwnersAgree, OwnedAreAlive, DestroyersAreLast,
          Destroying, PurposeKnown, AtWork, ArmingComesFirst, DisarmPcs,
          EntriesTimed, HandlesFollow, NoHandle, SettlesHandle, Working,
          dataVars, tokenVars, lifeVars, cbVars, serviceVars, runVars,
          callVars, watchVars, TypeOK, Actors, ClaimPcs
  <2> QED BY <2>1, <2>2
<1>29. ASSUME NEW t \in Threads, ArmRecheck(t) PROVE SleepsInTime'
  <2>1. CASE reason[object[t]] = "none"
    BY ActorAssumption, <1>29, <2>1
      DEF ArmRecheck, Goto, SleepsInTime, References, Positions,
          EntriesFollowed, OwnersAgree, OwnedAreAlive, DestroyersAreLast,
          Destroying, PurposeKnown, AtWork, ArmingComesFirst, DisarmPcs,
          EntriesTimed, HandlesFollow, NoHandle, SettlesHandle, Working,
          tokenVars, lifeVars, cbVars, serviceVars, runVars, watchVars,
          TypeOK, Actors, ClaimPcs
  <2>2. CASE reason[object[t]] # "none"
    BY ActorAssumption, <1>29, <2>2
      DEF ArmRecheck, Goto, SleepsInTime, References, Positions,
          EntriesFollowed, OwnersAgree, OwnedAreAlive, DestroyersAreLast,
          Destroying, PurposeKnown, AtWork, ArmingComesFirst, DisarmPcs,
          EntriesTimed, HandlesFollow, NoHandle, SettlesHandle, Working,
          tokenVars, lifeVars, cbVars, serviceVars, runVars, watchVars,
          TypeOK, Actors, ClaimPcs
  <2> QED BY <2>1, <2>2
<1>30. ASSUME NEW t \in Threads, Drop(t) PROVE SleepsInTime'
  <2>1. t \in Actors
    BY DEF Actors
  <2> QED BY <1>30, <2>1, DropReleases, SleepsInTimeReleased DEF References,
      Positions
<1>31. ASSUME NEW t \in Threads, WaitUnlock(t) PROVE SleepsInTime'
  <2>1. CASE pc[t] = "block"
    BY ActorAssumption, <1>31, <2>1
      DEF WaitUnlock, Goto, SleepsInTime, References, Positions,
          EntriesFollowed, OwnersAgree, OwnedAreAlive, DestroyersAreLast,
          Destroying, PurposeKnown, AtWork, ArmingComesFirst, DisarmPcs,
          EntriesTimed, HandlesFollow, NoHandle, SettlesHandle, Working,
          lifeVars, cbVars, serviceVars, runVars, callVars, watchVars, TypeOK,
          Actors, ClaimPcs
  <2>2. CASE pc[t] # "block"
    BY ActorAssumption, <1>31, <2>2
      DEF WaitUnlock, Goto, SleepsInTime, References, Positions,
          EntriesFollowed, OwnersAgree, OwnedAreAlive, DestroyersAreLast,
          Destroying, PurposeKnown, AtWork, ArmingComesFirst, DisarmPcs,
          EntriesTimed, HandlesFollow, NoHandle, SettlesHandle, Working,
          lifeVars, cbVars, serviceVars, runVars, callVars, watchVars, TypeOK,
          Actors, ClaimPcs
  <2> QED BY <2>1, <2>2
<1>32. ASSUME NEW a \in Actors, Disarm(a) PROVE SleepsInTime'
  <2>0. object[a] \in States
    BY <1>32, DisarmObject DEF Disarm, DisarmPcs
  <2>1. CASE timer[object[a]]
    BY ActorAssumption, <1>32, <2>0, <2>1
      DEF Disarm, Goto, Disarmed, DisarmedPc, SleepsInTime, References,
          Positions, EntriesFollowed, OwnersAgree, OwnedAreAlive,
          DestroyersAreLast, Destroying, PurposeKnown, AtWork,
          ArmingComesFirst, DisarmPcs, EntriesTimed, HandlesFollow, NoHandle,
          SettlesHandle, Working, cbVars, serviceVars, runVars, watchVars,
          TypeOK, Actors, ClaimPcs
  <2>2. CASE ~timer[object[a]]
    BY <1>32, <2>0, <2>2, DisarmEnds, SleepsInTimeEnded DEF Positions
  <2> QED BY <2>1, <2>2
<1>33. ASSUME NEW a \in Actors, NotifyService(a) PROVE SleepsInTime'
  <2>0. object[a] \in States
    BY <1>33, DisarmObject DEF NotifyService, DisarmPcs
  <2> QED BY <1>33, <2>0, NotifyEnds, SleepsInTimeEnded DEF Positions
<1>34. ASSUME NEW a \in Actors, ClaimReason(a) PROVE SleepsInTime'
  <2>1. CASE reason[object[a]] = "none"
    BY ActorAssumption, <1>34, <2>1
      DEF ClaimReason, Goto, AfterClaim, SleepsInTime, References, Positions,
          EntriesFollowed, OwnersAgree, OwnedAreAlive, DestroyersAreLast,
          Destroying, PurposeKnown, AtWork, ArmingComesFirst, DisarmPcs,
          EntriesTimed, HandlesFollow, NoHandle, SettlesHandle, Working,
          lifeVars, cbVars, serviceVars, runVars, watchVars, TypeOK, Actors,
          ClaimPcs
  <2>2. CASE reason[object[a]] # "none"
    BY ActorAssumption, <1>34, <2>2
      DEF ClaimReason, Goto, AfterClaim, SleepsInTime, References, Positions,
          EntriesFollowed, OwnersAgree, OwnedAreAlive, DestroyersAreLast,
          Destroying, PurposeKnown, AtWork, ArmingComesFirst, DisarmPcs,
          EntriesTimed, HandlesFollow, NoHandle, SettlesHandle, Working,
          lifeVars, cbVars, serviceVars, runVars, watchVars, TypeOK, Actors,
          ClaimPcs
  <2> QED BY <2>1, <2>2
<1>35. ASSUME NEW a \in Actors, UnregisterEntry(a) PROVE SleepsInTime'
  <2>0. object[a] \in States
    BY <1>35, DisarmObject DEF UnregisterEntry, DisarmPcs
  <2>1. CASE object[a] \in schedule
    BY ActorAssumption, <1>35, <2>0, <2>1
      DEF UnregisterEntry, Goto, SleepsInTime, References, Positions,
          EntriesFollowed, OwnersAgree, OwnedAreAlive, DestroyersAreLast,
          Destroying, PurposeKnown, AtWork, ArmingComesFirst, DisarmPcs,
          EntriesTimed, HandlesFollow, NoHandle, SettlesHandle, Working,
          cbVars, runVars, TypeOK, Actors, ClaimPcs
  <2>2. CASE object[a] \notin schedule
    BY <1>35, <2>0, <2>2, UnregisterEnds, SleepsInTimeEnded DEF Positions
  <2> QED BY <2>1, <2>2
<1>36. ASSUME Sleep PROVE SleepsInTime'
  <2>1. PICK wake \in {scanned + MaximumWait} \cup {deadline[s] : s \in schedule} :
            /\ wake <= scanned + MaximumWait
            /\ \A s \in schedule : wake <= deadline[s]
            /\ until' = wake
    BY <1>36 DEF Sleep
  <2>2. pc[Watchdog] = "collect" /\ pc' = [pc EXCEPT ![Watchdog] = "asleep"]
    BY <1>36 DEF Sleep, At, Goto
  <2>3. UNCHANGED <<now, schedule, deadline, object>>
    BY <1>36 DEF Sleep, tokenVars, lifeVars, callVars
  <2>4. wake <= now + MaximumWait
    <3>1. wake \in Nat /\ scanned \in Nat /\ now \in Nat /\ MaximumWait \in Nat
      BY <2>1, TimeAssumption DEF TypeOK, EntriesFollowed, EntriesTimed
    <3>2. scanned <= now
      BY <2>2 DEF SleepsInTime
    <3> QED BY <2>1, <3>1, <3>2
  <2>5. pc'[Watchdog] = "asleep"
    BY <2>2 DEF TypeOK, Actors
  <2> QED BY <2>1, <2>3, <2>4, <2>5 DEF SleepsInTime
<1>37. ASSUME Fire PROVE SleepsInTime'
  <2>1. CASE owners[Head(due)] = {}
    BY ActorAssumption, <1>37, <2>1
      DEF Fire, Goto, SleepsInTime, References, Positions, EntriesFollowed,
          OwnersAgree, OwnedAreAlive, DestroyersAreLast, Destroying,
          PurposeKnown, AtWork, ArmingComesFirst, DisarmPcs, EntriesTimed,
          HandlesFollow, NoHandle, SettlesHandle, Working, cbVars,
          serviceVars, TypeOK, Actors, ClaimPcs
  <2>2. CASE owners[Head(due)] # {}
    <3>1. Fired(Head(due))
      BY <1>37, <2>2, FireFires DEF Positions
    <3> QED BY <3>1, SleepsInTimeFired DEF Fired
  <2> QED BY <2>1, <2>2
<1>38. ASSUME DropFired PROVE SleepsInTime'
  <2>1. Watchdog \in Actors
    BY DEF Actors
  <2> QED BY <1>38, <2>1, DropFiredReleases, SleepsInTimeReleased DEF References,
      Positions
<1>39. ASSUME Woken PROVE SleepsInTime'
  <2>1. CASE changed \/ now >= until
    BY ActorAssumption, <1>39, <2>1
      DEF Woken, Goto, SleepsInTime, References, Positions, EntriesFollowed,
          OwnersAgree, OwnedAreAlive, DestroyersAreLast, Destroying,
          PurposeKnown, AtWork, ArmingComesFirst, DisarmPcs, EntriesTimed,
          HandlesFollow, NoHandle, SettlesHandle, Working, tokenVars,
          lifeVars, cbVars, serviceVars, callVars, TypeOK, Actors, ClaimPcs
  <2>2. CASE ~(changed \/ now >= until)
    BY ActorAssumption, <1>39, <2>2
      DEF Woken, Goto, SleepsInTime, References, Positions, EntriesFollowed,
          OwnersAgree, OwnedAreAlive, DestroyersAreLast, Destroying,
          PurposeKnown, AtWork, ArmingComesFirst, DisarmPcs, EntriesTimed,
          HandlesFollow, NoHandle, SettlesHandle, Working, tokenVars,
          lifeVars, cbVars, serviceVars, callVars, TypeOK, Actors, ClaimPcs
  <2> QED BY <2>1, <2>2
<1>40. ASSUME Tick PROVE SleepsInTime'
  <2>1. now' = now + 1 /\ UNCHANGED <<schedule, deadline, object, pc, until, changed, scanned>>
    BY <1>40 DEF Tick, lifeVars, watchVars, serviceVars, runVars, callVars
  <2>2. now \in Nat /\ until \in Nat /\ scanned \in Nat /\ MaximumWait \in Nat
    BY TimeAssumption DEF TypeOK
  <2>3. until <= now + MaximumWait => until <= now' + MaximumWait
    BY <2>1, <2>2
  <2>4. scanned <= now => scanned <= now'
    BY <2>1, <2>2
  <2> QED BY <2>1, <2>3, <2>4 DEF SleepsInTime
<1> QED
  BY <1>1, <1>2, <1>3, <1>4, <1>5, <1>6, <1>7, <1>8, <1>9, <1>10,
      <1>11, <1>12, <1>13, <1>14, <1>15, <1>16, <1>17, <1>18, <1>19, <1>20,
      <1>21, <1>22, <1>23, <1>24, <1>25, <1>26, <1>27, <1>28, <1>29, <1>30,
      <1>31, <1>32, <1>33, <1>34, <1>35, <1>36, <1>37, <1>38, <1>39, <1>40
  DEF Next, Optional, ThreadSteps, ThreadLocks, ClaimSteps, ClaimLocks,
      WatchdogSteps, WatchdogLocks, Actors

-----------------------------------------------------------------------------
(* The sleeping watchdog sleeps past no entry, unless the thread that made *)
(* the entry has still to notify it. Kept over the end of a disarm.        *)
LEMMA NeverOversleepsEnded ==
    ASSUME TypeOK, References, Positions, EntriesFollowed, SleepsInTime,
      NeverOversleeps, NEW a \in Actors, Ended(a), object[a] \in States
    PROVE  NeverOversleeps'
<1>1. \A s \in schedule : deadline'[s] = deadline[s]
  <2>1. EntriesTimed'
    BY EntriesTimedEnded
  <2> QED BY <2>1, TimeAssumption DEF EntriesTimed, Ended, TypeOK
<1>2. pc'[Watchdog] = "asleep" => pc[Watchdog] = "asleep"
  BY DEF Ended, DisarmPcs, Actors
<1>3. \A t \in Threads : pc[t] = "armNotify" => pc'[t] = pc[t] /\ object'[t] = object[t]
  BY ActorAssumption DEF Ended, DisarmPcs, Actors
<1> QED BY <1>1, <1>2, <1>3 DEF NeverOversleeps, Ended

(* The same (NeverOversleeps), kept over the release of a reference.       *)
LEMMA NeverOversleepsReleased ==
    ASSUME TypeOK, References, Positions, EntriesFollowed, SleepsInTime,
      NeverOversleeps, NEW a \in Actors, Released(a)
    PROVE  NeverOversleeps'
<1>1. pc'[Watchdog] = "asleep" => pc[Watchdog] = "asleep"
  BY DEF Released, Actors
<1>2. \A t \in Threads : pc[t] = "armNotify" => pc'[t] = pc[t] /\ object'[t] = object[t]
  BY ActorAssumption DEF Released, Actors
<1> QED BY <1>1, <1>2 DEF NeverOversleeps, Released

(* The same (NeverOversleeps), kept over the firing of an entry.           *)
LEMMA NeverOversleepsFired ==
    ASSUME TypeOK, References, Positions, EntriesFollowed, SleepsInTime,
      NeverOversleeps, NEW z \in States, Fired(z)
    PROVE  NeverOversleeps'
BY ActorAssumption
  DEF Fired, NeverOversleeps, References, Positions, EntriesFollowed,
      SleepsInTime, OwnersAgree, OwnedAreAlive, DestroyersAreLast, Destroying,
      PurposeKnown, AtWork, ArmingComesFirst, DisarmPcs, EntriesTimed,
      HandlesFollow, NoHandle, SettlesHandle, Working, TypeOK, Actors,
      ClaimPcs

(* The same (NeverOversleeps), kept over every step.                       *)
LEMMA NeverOversleepsStep ==
    ASSUME TypeOK, References, Positions,
      EntriesFollowed, SleepsInTime, NeverOversleeps, Next
    PROVE  NeverOversleeps'
<1> USE ActorAssumption DEF At, Goto, NeverOversleeps, References, Positions,
    EntriesFollowed, SleepsInTime, OwnersAgree, OwnedAreAlive,
    DestroyersAreLast, Destroying, PurposeKnown, AtWork, ArmingComesFirst,
    DisarmPcs, EntriesTimed, HandlesFollow, NoHandle, SettlesHandle, Working,
    dataVars, tokenVars, lifeVars, cbVars, serviceVars, runVars, callVars,
    watchVars, vars, TypeOK, Actors, ClaimPcs
<1>1. ASSUME NEW t \in Threads, NEW s \in States, NEW d \in Deadlines, Create(t, s, d)
      PROVE NeverOversleeps'
  BY <1>1 DEF Create
<1>2. ASSUME NEW t \in Threads, ArmRegister(t) PROVE NeverOversleeps'
  BY <1>2 DEF ArmRegister
<1>3. ASSUME NEW t \in Threads, ArmFails(t) PROVE NeverOversleeps'
  BY <1>3 DEF ArmFails
<1>4. ASSUME NEW t \in Threads, ArmStore(t) PROVE NeverOversleeps'
  BY <1>4 DEF ArmStore
<1>5. ASSUME NEW t \in Threads, NEW s \in States, Share(t, s)
      PROVE NeverOversleeps'
  BY <1>5 DEF Share
<1>6. ASSUME NEW t \in Threads, Cancel(t) PROVE NeverOversleeps'
  BY <1>6 DEF Cancel, StartClaim
<1>7. ASSUME NEW t \in Threads, Poll(t) PROVE NeverOversleeps'
  BY <1>7 DEF Poll, StartClaim
<1>8. ASSUME NEW t \in Threads, Wait(t) PROVE NeverOversleeps'
  BY <1>8 DEF Wait
<1>9. ASSUME NEW t \in Threads, StartRegister(t) PROVE NeverOversleeps'
  BY <1>9 DEF StartRegister
<1>10. ASSUME NEW t \in Threads, DestroyRegistration(t) PROVE NeverOversleeps'
  BY <1>10 DEF DestroyRegistration
<1>11. ASSUME NEW t \in Threads, DestroyInline(t) PROVE NeverOversleeps'
  BY <1>11 DEF DestroyInline
<1>12. ASSUME NEW t \in Threads, WaitTest(t) PROVE NeverOversleeps'
  BY <1>12 DEF WaitTest
<1>13. ASSUME NEW t \in Threads, WaitLock(t) PROVE NeverOversleeps'
  BY <1>13 DEF WaitLock
<1>14. ASSUME NEW t \in Threads, RegisterStored(t) PROVE NeverOversleeps'
  BY <1>14 DEF RegisterStored
<1>15. ASSUME NEW t \in Threads, RegisterInline(t) PROVE NeverOversleeps'
  BY <1>15 DEF RegisterInline
<1>16. ASSUME NEW t \in Threads, Unregister(t) PROVE NeverOversleeps'
  BY <1>16 DEF Unregister
<1>17. ASSUME NEW a \in Actors, NotifyWaiters(a) PROVE NeverOversleeps'
  BY <1>17 DEF NotifyWaiters
<1>18. ASSUME NEW a \in Actors, CallBack(a) PROVE NeverOversleeps'
  BY <1>18 DEF CallBack
<1>19. ASSUME NEW a \in Actors, CallbackReturns(a) PROVE NeverOversleeps'
  BY <1>19 DEF CallbackReturns
<1>20. ASSUME NEW a \in Actors, ClaimReturns(a) PROVE NeverOversleeps'
  BY <1>20 DEF ClaimReturns, AfterClaim
<1>21. ASSUME NEW a \in Actors, ReleaseWaiters(a) PROVE NeverOversleeps'
  BY <1>21 DEF ReleaseWaiters
<1>22. ASSUME NEW a \in Actors, LockCallbacks(a) PROVE NeverOversleeps'
  BY <1>22 DEF LockCallbacks
<1>23. ASSUME Collect PROVE NeverOversleeps'
  BY <1>23 DEF Collect, Collected
<1>24. ASSUME CollectedAll PROVE NeverOversleeps'
  BY <1>24 DEF CollectedAll
<1>25. ASSUME TimeOut PROVE NeverOversleeps'
  BY <1>25 DEF TimeOut
<1>26. ASSUME FiredAll PROVE NeverOversleeps'
  BY <1>26 DEF FiredAll
<1>27. ASSUME Scan PROVE NeverOversleeps'
  BY <1>27 DEF Scan
<1> HIDE ActorAssumption DEF At, Goto, NeverOversleeps, References, Positions,
    EntriesFollowed, SleepsInTime, OwnersAgree, OwnedAreAlive,
    DestroyersAreLast, Destroying, PurposeKnown, AtWork, ArmingComesFirst,
    DisarmPcs, EntriesTimed, HandlesFollow, NoHandle, SettlesHandle, Working,
    dataVars, tokenVars, lifeVars, cbVars, serviceVars, runVars, callVars,
    watchVars, vars, TypeOK, Actors, ClaimPcs
<1>28. ASSUME NEW t \in Threads, ArmNotify(t) PROVE NeverOversleeps'
  <2>1. CASE pc[Watchdog] = "asleep"
    BY ActorAssumption, <1>28, <2>1
      DEF ArmNotify, WakeWatchdog, NeverOversleeps, References, Positions,
          EntriesFollowed, SleepsInTime, OwnersAgree, OwnedAreAlive,
          DestroyersAreLast, Destroying, PurposeKnown, AtWork,
          ArmingComesFirst, DisarmPcs, EntriesTimed, HandlesFollow, NoHandle,
          SettlesHandle, Working, dataVars, tokenVars, lifeVars, cbVars,
          serviceVars, runVars, callVars, watchVars, TypeOK, Actors, ClaimPcs
  <2>2. CASE pc[Watchdog] # "asleep"
    BY ActorAssumption, <1>28, <2>2
      DEF ArmNotify, WakeWatchdog, NeverOversleeps, References, Positions,
          EntriesFollowed, SleepsInTime, OwnersAgree, OwnedAreAlive,
          DestroyersAreLast, Destroying, PurposeKnown, AtWork,
          ArmingComesFirst, DisarmPcs, EntriesTimed, HandlesFollow, NoHandle,
          SettlesHandle, Working, dataVars, tokenVars, lifeVars, cbVars,
          serviceVars, runVars, callVars, watchVars, TypeOK, Actors, ClaimPcs
  <2> QED BY <2>1, <2>2
<1>29. ASSUME NEW t \in Threads, ArmRecheck(t) PROVE NeverOversleeps'
  <2>1. CASE reason[object[t]] = "none"
    BY ActorAssumption, <1>29, <2>1
      DEF ArmRecheck, Goto, NeverOversleeps, References, Positions,
          EntriesFollowed, SleepsInTime, OwnersAgree, OwnedAreAlive,
          DestroyersAreLast, Destroying, PurposeKnown, AtWork,
          ArmingComesFirst, DisarmPcs, EntriesTimed, HandlesFollow, NoHandle,
          SettlesHandle, Working, tokenVars, lifeVars, cbVars, serviceVars,
          runVars, watchVars, TypeOK, Actors, ClaimPcs
  <2>2. CASE reason[object[t]] # "none"
    BY ActorAssumption, <1>29, <2>2
      DEF ArmRecheck, Goto, NeverOversleeps, References, Positions,
          EntriesFollowed, SleepsInTime, OwnersAgree, OwnedAreAlive,
          DestroyersAreLast, Destroying, PurposeKnown, AtWork,
          ArmingComesFirst, DisarmPcs, EntriesTimed, HandlesFollow, NoHandle,
          SettlesHandle, Working, tokenVars, lifeVars, cbVars, serviceVars,
          runVars, watchVars, TypeOK, Actors, ClaimPcs
  <2> QED BY <2>1, <2>2
<1>30. ASSUME NEW t \in Threads, Drop(t) PROVE NeverOversleeps'
  <2>1. t \in Actors
    BY DEF Actors
  <2> QED BY <1>30, <2>1, DropReleases, NeverOversleepsReleased DEF References,
      Positions
<1>31. ASSUME NEW t \in Threads, WaitUnlock(t) PROVE NeverOversleeps'
  <2>1. CASE pc[t] = "block"
    BY ActorAssumption, <1>31, <2>1
      DEF WaitUnlock, Goto, NeverOversleeps, References, Positions,
          EntriesFollowed, SleepsInTime, OwnersAgree, OwnedAreAlive,
          DestroyersAreLast, Destroying, PurposeKnown, AtWork,
          ArmingComesFirst, DisarmPcs, EntriesTimed, HandlesFollow, NoHandle,
          SettlesHandle, Working, lifeVars, cbVars, serviceVars, runVars,
          callVars, watchVars, TypeOK, Actors, ClaimPcs
  <2>2. CASE pc[t] # "block"
    BY ActorAssumption, <1>31, <2>2
      DEF WaitUnlock, Goto, NeverOversleeps, References, Positions,
          EntriesFollowed, SleepsInTime, OwnersAgree, OwnedAreAlive,
          DestroyersAreLast, Destroying, PurposeKnown, AtWork,
          ArmingComesFirst, DisarmPcs, EntriesTimed, HandlesFollow, NoHandle,
          SettlesHandle, Working, lifeVars, cbVars, serviceVars, runVars,
          callVars, watchVars, TypeOK, Actors, ClaimPcs
  <2> QED BY <2>1, <2>2
<1>32. ASSUME NEW a \in Actors, Disarm(a) PROVE NeverOversleeps'
  <2>0. object[a] \in States
    BY <1>32, DisarmObject DEF Disarm, DisarmPcs
  <2>1. CASE timer[object[a]]
    BY ActorAssumption, <1>32, <2>0, <2>1
      DEF Disarm, Goto, Disarmed, DisarmedPc, NeverOversleeps, References,
          Positions, EntriesFollowed, SleepsInTime, OwnersAgree,
          OwnedAreAlive, DestroyersAreLast, Destroying, PurposeKnown, AtWork,
          ArmingComesFirst, DisarmPcs, EntriesTimed, HandlesFollow, NoHandle,
          SettlesHandle, Working, cbVars, serviceVars, runVars, watchVars,
          TypeOK, Actors, ClaimPcs
  <2>2. CASE ~timer[object[a]]
    BY <1>32, <2>0, <2>2, DisarmEnds, NeverOversleepsEnded DEF Positions
  <2> QED BY <2>1, <2>2
<1>33. ASSUME NEW a \in Actors, NotifyService(a) PROVE NeverOversleeps'
  <2>0. object[a] \in States
    BY <1>33, DisarmObject DEF NotifyService, DisarmPcs
  <2> QED BY <1>33, <2>0, NotifyEnds, NeverOversleepsEnded DEF Positions
<1>34. ASSUME NEW a \in Actors, ClaimReason(a) PROVE NeverOversleeps'
  <2>1. CASE reason[object[a]] = "none"
    BY ActorAssumption, <1>34, <2>1
      DEF ClaimReason, Goto, AfterClaim, NeverOversleeps, References,
          Positions, EntriesFollowed, SleepsInTime, OwnersAgree,
          OwnedAreAlive, DestroyersAreLast, Destroying, PurposeKnown, AtWork,
          ArmingComesFirst, DisarmPcs, EntriesTimed, HandlesFollow, NoHandle,
          SettlesHandle, Working, lifeVars, cbVars, serviceVars, runVars,
          watchVars, TypeOK, Actors, ClaimPcs
  <2>2. CASE reason[object[a]] # "none"
    BY ActorAssumption, <1>34, <2>2
      DEF ClaimReason, Goto, AfterClaim, NeverOversleeps, References,
          Positions, EntriesFollowed, SleepsInTime, OwnersAgree,
          OwnedAreAlive, DestroyersAreLast, Destroying, PurposeKnown, AtWork,
          ArmingComesFirst, DisarmPcs, EntriesTimed, HandlesFollow, NoHandle,
          SettlesHandle, Working, lifeVars, cbVars, serviceVars, runVars,
          watchVars, TypeOK, Actors, ClaimPcs
  <2> QED BY <2>1, <2>2
<1>35. ASSUME NEW a \in Actors, UnregisterEntry(a) PROVE NeverOversleeps'
  <2>0. object[a] \in States
    BY <1>35, DisarmObject DEF UnregisterEntry, DisarmPcs
  <2>1. CASE object[a] \in schedule
    BY ActorAssumption, <1>35, <2>0, <2>1
      DEF UnregisterEntry, Goto, NeverOversleeps, References, Positions,
          EntriesFollowed, SleepsInTime, OwnersAgree, OwnedAreAlive,
          DestroyersAreLast, Destroying, PurposeKnown, AtWork,
          ArmingComesFirst, DisarmPcs, EntriesTimed, HandlesFollow, NoHandle,
          SettlesHandle, Working, cbVars, runVars, TypeOK, Actors, ClaimPcs
  <2>2. CASE object[a] \notin schedule
    BY <1>35, <2>0, <2>2, UnregisterEnds, NeverOversleepsEnded DEF Positions
  <2> QED BY <2>1, <2>2
<1>36. ASSUME Sleep PROVE NeverOversleeps'
  <2>1. PICK wake \in {scanned + MaximumWait} \cup {deadline[s] : s \in schedule} :
            /\ wake <= scanned + MaximumWait
            /\ \A s \in schedule : wake <= deadline[s]
            /\ until' = wake
    BY <1>36 DEF Sleep
  <2>2. pc[Watchdog] = "collect" /\ pc' = [pc EXCEPT ![Watchdog] = "asleep"]
    BY <1>36 DEF Sleep, At, Goto
  <2>3. UNCHANGED <<now, schedule, deadline, object>>
    BY <1>36 DEF Sleep, tokenVars, lifeVars, callVars
  <2>4. wake <= now + MaximumWait
    <3>1. wake \in Nat /\ scanned \in Nat /\ now \in Nat /\ MaximumWait \in Nat
      BY <2>1, TimeAssumption DEF TypeOK, EntriesFollowed, EntriesTimed
    <3>2. scanned <= now
      BY <2>2 DEF SleepsInTime
    <3> QED BY <2>1, <3>1, <3>2
  <2>5. pc'[Watchdog] = "asleep"
    BY <2>2 DEF TypeOK, Actors
  <2> QED BY <2>1, <2>3, <2>4, <2>5 DEF NeverOversleeps
<1>37. ASSUME Fire PROVE NeverOversleeps'
  <2>1. CASE owners[Head(due)] = {}
    BY ActorAssumption, <1>37, <2>1
      DEF Fire, Goto, NeverOversleeps, References, Positions, EntriesFollowed,
          SleepsInTime, OwnersAgree, OwnedAreAlive, DestroyersAreLast,
          Destroying, PurposeKnown, AtWork, ArmingComesFirst, DisarmPcs,
          EntriesTimed, HandlesFollow, NoHandle, SettlesHandle, Working,
          cbVars, serviceVars, TypeOK, Actors, ClaimPcs
  <2>2. CASE owners[Head(due)] # {}
    <3>1. Fired(Head(due))
      BY <1>37, <2>2, FireFires DEF Positions
    <3> QED BY <3>1, NeverOversleepsFired DEF Fired
  <2> QED BY <2>1, <2>2
<1>38. ASSUME DropFired PROVE NeverOversleeps'
  <2>1. Watchdog \in Actors
    BY DEF Actors
  <2> QED BY <1>38, <2>1, DropFiredReleases, NeverOversleepsReleased DEF References,
      Positions
<1>39. ASSUME Woken PROVE NeverOversleeps'
  <2>1. CASE changed \/ now >= until
    BY ActorAssumption, <1>39, <2>1
      DEF Woken, Goto, NeverOversleeps, References, Positions,
          EntriesFollowed, SleepsInTime, OwnersAgree, OwnedAreAlive,
          DestroyersAreLast, Destroying, PurposeKnown, AtWork,
          ArmingComesFirst, DisarmPcs, EntriesTimed, HandlesFollow, NoHandle,
          SettlesHandle, Working, tokenVars, lifeVars, cbVars, serviceVars,
          callVars, TypeOK, Actors, ClaimPcs
  <2>2. CASE ~(changed \/ now >= until)
    BY ActorAssumption, <1>39, <2>2
      DEF Woken, Goto, NeverOversleeps, References, Positions,
          EntriesFollowed, SleepsInTime, OwnersAgree, OwnedAreAlive,
          DestroyersAreLast, Destroying, PurposeKnown, AtWork,
          ArmingComesFirst, DisarmPcs, EntriesTimed, HandlesFollow, NoHandle,
          SettlesHandle, Working, tokenVars, lifeVars, cbVars, serviceVars,
          callVars, TypeOK, Actors, ClaimPcs
  <2> QED BY <2>1, <2>2
<1>40. ASSUME Tick PROVE NeverOversleeps'
  <2>1. now' = now + 1 /\ UNCHANGED <<schedule, deadline, object, pc, until, changed, scanned>>
    BY <1>40 DEF Tick, lifeVars, watchVars, serviceVars, runVars, callVars
  <2>2. now \in Nat /\ until \in Nat /\ scanned \in Nat /\ MaximumWait \in Nat
    BY TimeAssumption DEF TypeOK
  <2>3. until <= now + MaximumWait => until <= now' + MaximumWait
    BY <2>1, <2>2
  <2>4. scanned <= now => scanned <= now'
    BY <2>1, <2>2
  <2> QED BY <2>1, <2>3, <2>4 DEF NeverOversleeps
<1> QED
  BY <1>1, <1>2, <1>3, <1>4, <1>5, <1>6, <1>7, <1>8, <1>9, <1>10,
      <1>11, <1>12, <1>13, <1>14, <1>15, <1>16, <1>17, <1>18, <1>19, <1>20,
      <1>21, <1>22, <1>23, <1>24, <1>25, <1>26, <1>27, <1>28, <1>29, <1>30,
      <1>31, <1>32, <1>33, <1>34, <1>35, <1>36, <1>37, <1>38, <1>39, <1>40
  DEF Next, Optional, ThreadSteps, ThreadLocks, ClaimSteps, ClaimLocks,
      WatchdogSteps, WatchdogLocks, Actors

-----------------------------------------------------------------------------
(* The owner of a callback that is registered or running is still there.   *)
(* Kept over the end of a disarm.                                          *)
LEMMA CallbackOwnerIsThereEnded ==
    ASSUME TypeOK, References, Positions, MutexesHeld, CallbackOwnerIsThere,
      NEW a \in Actors, Ended(a), object[a] \in States
    PROVE  CallbackOwnerIsThere'
<1>1. \A u \in Threads, s \in States :
        object[u] = s /\ pc[u] \in {"registered", "unregistering"}
            => object'[u] = s /\ pc'[u] \in {"registered", "unregistering"}
  BY ActorAssumption
    DEF Ended, DisarmPcs, Actors
<1>2. callbacks' = callbacks /\ running' = running
  BY ActorAssumption
    DEF Ended
<1>3. \A s \in States :
        callbacks[s] \subseteq Threads /\ (running[s] # None => running[s] \in Threads)
  BY DEF TypeOK
<1> QED BY <1>1, <1>2, <1>3 DEF CallbackOwnerIsThere

(* The same (CallbackOwnerIsThere), kept over the release of a reference.  *)
LEMMA CallbackOwnerIsThereReleased ==
    ASSUME TypeOK, References, Positions, MutexesHeld, CallbackOwnerIsThere,
      NEW a \in Actors, Released(a)
    PROVE  CallbackOwnerIsThere'
<1>1. \A u \in Threads, s \in States :
        object[u] = s /\ pc[u] \in {"registered", "unregistering"}
            => object'[u] = s /\ pc'[u] \in {"registered", "unregistering"}
  BY ActorAssumption
    DEF Released, Actors
<1>2. callbacks' = callbacks /\ running' = running
  BY ActorAssumption
    DEF Released
<1>3. \A s \in States :
        callbacks[s] \subseteq Threads /\ (running[s] # None => running[s] \in Threads)
  BY DEF TypeOK
<1> QED BY <1>1, <1>2, <1>3 DEF CallbackOwnerIsThere

(* The same (CallbackOwnerIsThere), kept over the firing of an entry.      *)
LEMMA CallbackOwnerIsThereFired ==
    ASSUME TypeOK, References, Positions, MutexesHeld, CallbackOwnerIsThere,
      NEW z \in States, Fired(z)
    PROVE  CallbackOwnerIsThere'
BY ActorAssumption
  DEF Fired, CallbackOwnerIsThere, References, Positions, MutexesHeld,
      OwnersAgree, OwnedAreAlive, DestroyersAreLast, Destroying, PurposeKnown,
      AtWork, ArmingComesFirst, DisarmPcs, WaitMutexHeld, CbMutexHeld,
      RunningHeld, RunsCallback, Working, TypeOK, Actors, ClaimPcs

(* The same (CallbackOwnerIsThere), kept over every step.                  *)
LEMMA CallbackOwnerIsThereStep ==
    ASSUME TypeOK, References, Positions,
      MutexesHeld, CallbackOwnerIsThere, Next
    PROVE  CallbackOwnerIsThere'
<1> USE ActorAssumption DEF At, Goto, CallbackOwnerIsThere, References,
    Positions, MutexesHeld, OwnersAgree, OwnedAreAlive, DestroyersAreLast,
    Destroying, PurposeKnown, AtWork, ArmingComesFirst, DisarmPcs,
    WaitMutexHeld, CbMutexHeld, RunningHeld, RunsCallback, Working, dataVars,
    tokenVars, lifeVars, cbVars, serviceVars, runVars, callVars, watchVars,
    vars, TypeOK, Actors, ClaimPcs
<1>1. ASSUME NEW t \in Threads, NEW s \in States, NEW d \in Deadlines, Create(t, s, d)
      PROVE CallbackOwnerIsThere'
  BY <1>1 DEF Create
<1>2. ASSUME NEW t \in Threads, ArmRegister(t) PROVE CallbackOwnerIsThere'
  BY <1>2 DEF ArmRegister
<1>3. ASSUME NEW t \in Threads, ArmFails(t) PROVE CallbackOwnerIsThere'
  BY <1>3 DEF ArmFails
<1>4. ASSUME NEW t \in Threads, ArmStore(t) PROVE CallbackOwnerIsThere'
  BY <1>4 DEF ArmStore
<1>5. ASSUME NEW t \in Threads, NEW s \in States, Share(t, s)
      PROVE CallbackOwnerIsThere'
  BY <1>5 DEF Share
<1>6. ASSUME NEW t \in Threads, Cancel(t) PROVE CallbackOwnerIsThere'
  BY <1>6 DEF Cancel, StartClaim
<1>7. ASSUME NEW t \in Threads, Poll(t) PROVE CallbackOwnerIsThere'
  BY <1>7 DEF Poll, StartClaim
<1>8. ASSUME NEW t \in Threads, Wait(t) PROVE CallbackOwnerIsThere'
  BY <1>8 DEF Wait
<1>9. ASSUME NEW t \in Threads, StartRegister(t) PROVE CallbackOwnerIsThere'
  BY <1>9 DEF StartRegister
<1>10. ASSUME NEW t \in Threads, DestroyRegistration(t)
      PROVE CallbackOwnerIsThere'
  BY <1>10 DEF DestroyRegistration
<1>11. ASSUME NEW t \in Threads, DestroyInline(t) PROVE CallbackOwnerIsThere'
  BY <1>11 DEF DestroyInline
<1>12. ASSUME NEW t \in Threads, WaitTest(t) PROVE CallbackOwnerIsThere'
  BY <1>12 DEF WaitTest
<1>13. ASSUME NEW t \in Threads, WaitLock(t) PROVE CallbackOwnerIsThere'
  BY <1>13 DEF WaitLock
<1>14. ASSUME NEW t \in Threads, RegisterStored(t) PROVE CallbackOwnerIsThere'
  BY <1>14 DEF RegisterStored
<1>15. ASSUME NEW t \in Threads, RegisterInline(t) PROVE CallbackOwnerIsThere'
  BY <1>15 DEF RegisterInline
<1>16. ASSUME NEW t \in Threads, Unregister(t) PROVE CallbackOwnerIsThere'
  BY <1>16 DEF Unregister
<1>17. ASSUME NEW a \in Actors, NotifyWaiters(a) PROVE CallbackOwnerIsThere'
  BY <1>17 DEF NotifyWaiters
<1>18. ASSUME NEW a \in Actors, CallBack(a) PROVE CallbackOwnerIsThere'
  BY <1>18 DEF CallBack
<1>19. ASSUME NEW a \in Actors, CallbackReturns(a) PROVE CallbackOwnerIsThere'
  BY <1>19 DEF CallbackReturns
<1>20. ASSUME NEW a \in Actors, ClaimReturns(a) PROVE CallbackOwnerIsThere'
  BY <1>20 DEF ClaimReturns, AfterClaim
<1>21. ASSUME NEW a \in Actors, ReleaseWaiters(a) PROVE CallbackOwnerIsThere'
  BY <1>21 DEF ReleaseWaiters
<1>22. ASSUME NEW a \in Actors, LockCallbacks(a) PROVE CallbackOwnerIsThere'
  BY <1>22 DEF LockCallbacks
<1>23. ASSUME Collect PROVE CallbackOwnerIsThere'
  BY <1>23 DEF Collect, Collected
<1>24. ASSUME CollectedAll PROVE CallbackOwnerIsThere'
  BY <1>24 DEF CollectedAll
<1>25. ASSUME Sleep PROVE CallbackOwnerIsThere'
  BY <1>25 DEF Sleep
<1>26. ASSUME TimeOut PROVE CallbackOwnerIsThere'
  BY <1>26 DEF TimeOut
<1>27. ASSUME FiredAll PROVE CallbackOwnerIsThere'
  BY <1>27 DEF FiredAll
<1>28. ASSUME Scan PROVE CallbackOwnerIsThere'
  BY <1>28 DEF Scan
<1>29. ASSUME Tick PROVE CallbackOwnerIsThere'
  BY <1>29 DEF Tick
<1> HIDE ActorAssumption DEF At, Goto, CallbackOwnerIsThere, References,
    Positions, MutexesHeld, OwnersAgree, OwnedAreAlive, DestroyersAreLast,
    Destroying, PurposeKnown, AtWork, ArmingComesFirst, DisarmPcs,
    WaitMutexHeld, CbMutexHeld, RunningHeld, RunsCallback, Working, dataVars,
    tokenVars, lifeVars, cbVars, serviceVars, runVars, callVars, watchVars,
    vars, TypeOK, Actors, ClaimPcs
<1>30. ASSUME NEW t \in Threads, ArmNotify(t) PROVE CallbackOwnerIsThere'
  <2>1. CASE pc[Watchdog] = "asleep"
    BY ActorAssumption, <1>30, <2>1
      DEF ArmNotify, WakeWatchdog, CallbackOwnerIsThere, References,
          Positions, MutexesHeld, OwnersAgree, OwnedAreAlive,
          DestroyersAreLast, Destroying, PurposeKnown, AtWork,
          ArmingComesFirst, DisarmPcs, WaitMutexHeld, CbMutexHeld,
          RunningHeld, RunsCallback, Working, dataVars, tokenVars, lifeVars,
          cbVars, serviceVars, runVars, callVars, watchVars, TypeOK, Actors,
          ClaimPcs
  <2>2. CASE pc[Watchdog] # "asleep"
    BY ActorAssumption, <1>30, <2>2
      DEF ArmNotify, WakeWatchdog, CallbackOwnerIsThere, References,
          Positions, MutexesHeld, OwnersAgree, OwnedAreAlive,
          DestroyersAreLast, Destroying, PurposeKnown, AtWork,
          ArmingComesFirst, DisarmPcs, WaitMutexHeld, CbMutexHeld,
          RunningHeld, RunsCallback, Working, dataVars, tokenVars, lifeVars,
          cbVars, serviceVars, runVars, callVars, watchVars, TypeOK, Actors,
          ClaimPcs
  <2> QED BY <2>1, <2>2
<1>31. ASSUME NEW t \in Threads, ArmRecheck(t) PROVE CallbackOwnerIsThere'
  <2>1. CASE reason[object[t]] = "none"
    <3>1. \A u \in Threads, s \in States :
            object[u] = s /\ pc[u] \in {"registered", "unregistering"}
                => object'[u] = s /\ pc'[u] \in {"registered", "unregistering"}
      BY <1>31, <2>1
        DEF ArmRecheck, Goto, TypeOK, Actors
    <3>2. callbacks' = callbacks /\ running' = running
      BY <1>31, <2>1
        DEF ArmRecheck, cbVars
    <3>3. \A s \in States :
            callbacks[s] \subseteq Threads /\ (running[s] # None => running[s] \in Threads)
      BY DEF TypeOK
    <3> QED BY <3>1, <3>2, <3>3 DEF CallbackOwnerIsThere
  <2>2. CASE reason[object[t]] # "none"
    <3>1. \A u \in Threads, s \in States :
            object[u] = s /\ pc[u] \in {"registered", "unregistering"}
                => object'[u] = s /\ pc'[u] \in {"registered", "unregistering"}
      BY <1>31, <2>2
        DEF ArmRecheck, Goto, TypeOK, Actors
    <3>2. callbacks' = callbacks /\ running' = running
      BY <1>31, <2>2
        DEF ArmRecheck, cbVars
    <3>3. \A s \in States :
            callbacks[s] \subseteq Threads /\ (running[s] # None => running[s] \in Threads)
      BY DEF TypeOK
    <3> QED BY <3>1, <3>2, <3>3 DEF CallbackOwnerIsThere
  <2> QED BY <2>1, <2>2
<1>32. ASSUME NEW t \in Threads, Drop(t) PROVE CallbackOwnerIsThere'
  <2>1. t \in Actors
    BY DEF Actors
  <2> QED BY <1>32, <2>1, DropReleases, CallbackOwnerIsThereReleased DEF References,
      Positions
<1>33. ASSUME NEW t \in Threads, WaitUnlock(t) PROVE CallbackOwnerIsThere'
  <2>1. CASE pc[t] = "block"
    BY ActorAssumption, <1>33, <2>1
      DEF WaitUnlock, Goto, CallbackOwnerIsThere, References, Positions,
          MutexesHeld, OwnersAgree, OwnedAreAlive, DestroyersAreLast,
          Destroying, PurposeKnown, AtWork, ArmingComesFirst, DisarmPcs,
          WaitMutexHeld, CbMutexHeld, RunningHeld, RunsCallback, Working,
          lifeVars, cbVars, serviceVars, runVars, callVars, watchVars, TypeOK,
          Actors, ClaimPcs
  <2>2. CASE pc[t] # "block"
    BY ActorAssumption, <1>33, <2>2
      DEF WaitUnlock, Goto, CallbackOwnerIsThere, References, Positions,
          MutexesHeld, OwnersAgree, OwnedAreAlive, DestroyersAreLast,
          Destroying, PurposeKnown, AtWork, ArmingComesFirst, DisarmPcs,
          WaitMutexHeld, CbMutexHeld, RunningHeld, RunsCallback, Working,
          lifeVars, cbVars, serviceVars, runVars, callVars, watchVars, TypeOK,
          Actors, ClaimPcs
  <2> QED BY <2>1, <2>2
<1>34. ASSUME NEW a \in Actors, Disarm(a) PROVE CallbackOwnerIsThere'
  <2>0. object[a] \in States
    BY <1>34, DisarmObject DEF Disarm, DisarmPcs
  <2>1. CASE timer[object[a]]
    <3>1. \A u \in Threads, s \in States :
            object[u] = s /\ pc[u] \in {"registered", "unregistering"}
                => object'[u] = s /\ pc'[u] \in {"registered", "unregistering"}
      BY <1>34, <2>0, <2>1
        DEF Disarm, Goto, TypeOK, Actors
    <3>2. callbacks' = callbacks /\ running' = running
      BY <1>34, <2>0, <2>1
        DEF Disarm, cbVars
    <3>3. \A s \in States :
            callbacks[s] \subseteq Threads /\ (running[s] # None => running[s] \in Threads)
      BY DEF TypeOK
    <3> QED BY <3>1, <3>2, <3>3 DEF CallbackOwnerIsThere
  <2>2. CASE ~timer[object[a]]
    BY <1>34, <2>0, <2>2, DisarmEnds, CallbackOwnerIsThereEnded DEF Positions
  <2> QED BY <2>1, <2>2
<1>35. ASSUME NEW a \in Actors, NotifyService(a) PROVE CallbackOwnerIsThere'
  <2>0. object[a] \in States
    BY <1>35, DisarmObject DEF NotifyService, DisarmPcs
  <2> QED BY <1>35, <2>0, NotifyEnds, CallbackOwnerIsThereEnded DEF Positions
<1>36. ASSUME NEW a \in Actors, ClaimReason(a) PROVE CallbackOwnerIsThere'
  <2>1. CASE reason[object[a]] = "none"
    BY ActorAssumption, <1>36, <2>1
      DEF ClaimReason, Goto, AfterClaim, CallbackOwnerIsThere, References,
          Positions, MutexesHeld, OwnersAgree, OwnedAreAlive,
          DestroyersAreLast, Destroying, PurposeKnown, AtWork,
          ArmingComesFirst, DisarmPcs, WaitMutexHeld, CbMutexHeld,
          RunningHeld, RunsCallback, Working, lifeVars, cbVars, serviceVars,
          runVars, watchVars, TypeOK, Actors, ClaimPcs
  <2>2. CASE reason[object[a]] # "none"
    <3>1. \A u \in Threads, s \in States :
            object[u] = s /\ pc[u] \in {"registered", "unregistering"}
                => object'[u] = s /\ pc'[u] \in {"registered", "unregistering"}
      BY <1>36, <2>2
        DEF ClaimReason, Goto, AfterClaim, TypeOK, Actors
    <3>2. callbacks' = callbacks /\ running' = running
      BY <1>36, <2>2
        DEF ClaimReason, cbVars
    <3>3. \A s \in States :
            callbacks[s] \subseteq Threads /\ (running[s] # None => running[s] \in Threads)
      BY DEF TypeOK
    <3> QED BY <3>1, <3>2, <3>3 DEF CallbackOwnerIsThere
  <2> QED BY <2>1, <2>2
<1>37. ASSUME NEW a \in Actors, UnregisterEntry(a) PROVE CallbackOwnerIsThere'
  <2>0. object[a] \in States
    BY <1>37, DisarmObject DEF UnregisterEntry, DisarmPcs
  <2>1. CASE object[a] \in schedule
    <3>1. \A u \in Threads, s \in States :
            object[u] = s /\ pc[u] \in {"registered", "unregistering"}
                => object'[u] = s /\ pc'[u] \in {"registered", "unregistering"}
      BY <1>37, <2>0, <2>1
        DEF UnregisterEntry, Goto, TypeOK, Actors
    <3>2. callbacks' = callbacks /\ running' = running
      BY <1>37, <2>0, <2>1
        DEF UnregisterEntry, cbVars
    <3>3. \A s \in States :
            callbacks[s] \subseteq Threads /\ (running[s] # None => running[s] \in Threads)
      BY DEF TypeOK
    <3> QED BY <3>1, <3>2, <3>3 DEF CallbackOwnerIsThere
  <2>2. CASE object[a] \notin schedule
    BY <1>37, <2>0, <2>2, UnregisterEnds, CallbackOwnerIsThereEnded DEF Positions
  <2> QED BY <2>1, <2>2
<1>38. ASSUME Fire PROVE CallbackOwnerIsThere'
  <2>1. CASE owners[Head(due)] = {}
    BY ActorAssumption, <1>38, <2>1
      DEF Fire, Goto, CallbackOwnerIsThere, References, Positions,
          MutexesHeld, OwnersAgree, OwnedAreAlive, DestroyersAreLast,
          Destroying, PurposeKnown, AtWork, ArmingComesFirst, DisarmPcs,
          WaitMutexHeld, CbMutexHeld, RunningHeld, RunsCallback, Working,
          cbVars, serviceVars, TypeOK, Actors, ClaimPcs
  <2>2. CASE owners[Head(due)] # {}
    <3>1. Fired(Head(due))
      BY <1>38, <2>2, FireFires DEF Positions
    <3> QED BY <3>1, CallbackOwnerIsThereFired DEF Fired
  <2> QED BY <2>1, <2>2
<1>39. ASSUME DropFired PROVE CallbackOwnerIsThere'
  <2>1. Watchdog \in Actors
    BY DEF Actors
  <2> QED BY <1>39, <2>1, DropFiredReleases, CallbackOwnerIsThereReleased DEF References,
      Positions
<1>40. ASSUME Woken PROVE CallbackOwnerIsThere'
  <2>1. CASE changed \/ now >= until
    BY ActorAssumption, <1>40, <2>1
      DEF Woken, Goto, CallbackOwnerIsThere, References, Positions,
          MutexesHeld, OwnersAgree, OwnedAreAlive, DestroyersAreLast,
          Destroying, PurposeKnown, AtWork, ArmingComesFirst, DisarmPcs,
          WaitMutexHeld, CbMutexHeld, RunningHeld, RunsCallback, Working,
          tokenVars, lifeVars, cbVars, serviceVars, callVars, TypeOK, Actors,
          ClaimPcs
  <2>2. CASE ~(changed \/ now >= until)
    BY ActorAssumption, <1>40, <2>2
      DEF Woken, Goto, CallbackOwnerIsThere, References, Positions,
          MutexesHeld, OwnersAgree, OwnedAreAlive, DestroyersAreLast,
          Destroying, PurposeKnown, AtWork, ArmingComesFirst, DisarmPcs,
          WaitMutexHeld, CbMutexHeld, RunningHeld, RunsCallback, Working,
          tokenVars, lifeVars, cbVars, serviceVars, callVars, TypeOK, Actors,
          ClaimPcs
  <2> QED BY <2>1, <2>2
<1> QED
  BY <1>1, <1>2, <1>3, <1>4, <1>5, <1>6, <1>7, <1>8, <1>9, <1>10,
      <1>11, <1>12, <1>13, <1>14, <1>15, <1>16, <1>17, <1>18, <1>19, <1>20,
      <1>21, <1>22, <1>23, <1>24, <1>25, <1>26, <1>27, <1>28, <1>29, <1>30,
      <1>31, <1>32, <1>33, <1>34, <1>35, <1>36, <1>37, <1>38, <1>39, <1>40
  DEF Next, Optional, ThreadSteps, ThreadLocks, ClaimSteps, ClaimLocks,
      WatchdogSteps, WatchdogLocks, Actors

=============================================================================
