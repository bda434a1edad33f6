---------------------- MODULE AdmissionSchedulerProofs ----------------------
EXTENDS AdmissionScheduler, FiniteSetTheorems, SequenceTheorems, TLAPS

LEMMA RemoveAtProperties ==
    ASSUME NEW S, NEW q \in Seq(S), NEW i \in 1..Len(q)
    PROVE  /\ RemoveAt(q, i) \in Seq(S)
           /\ Len(RemoveAt(q, i)) = Len(q) - 1
           /\ \A j \in 1..(Len(q) - 1) :
                RemoveAt(q, i)[j] = IF j < i THEN q[j] ELSE q[j + 1]
<1> DEFINE front == SubSeq(q, 1, i - 1)
           back  == SubSeq(q, i + 1, Len(q))
<1>1. /\ front \in Seq(S) /\ Len(front) = i - 1
      /\ \A j \in 1..(i - 1) : front[j] = q[j]
  BY SubSeqProperties
<1>2. /\ back \in Seq(S) /\ Len(back) = Len(q) - i
      /\ \A j \in 1..(Len(q) - i) : back[j] = q[i + j]
  BY SubSeqProperties
<1>3. RemoveAt(q, i) = front \o back
  BY DEF RemoveAt
<1> HIDE DEF front, back
<1>4. /\ front \o back \in Seq(S)
      /\ Len(front \o back) = Len(q) - 1
      /\ \A j \in 1..(Len(q) - 1) :
           (front \o back)[j] = IF j < i THEN front[j] ELSE back[j - (i - 1)]
  <2>1. /\ front \o back \in Seq(S)
        /\ Len(front \o back) = Len(front) + Len(back)
        /\ \A j \in 1..(Len(front) + Len(back)) :
             (front \o back)[j] = IF j <= Len(front) THEN front[j] ELSE back[j - Len(front)]
    BY <1>1, <1>2, ConcatProperties
  <2> QED
    BY <1>1, <1>2, <2>1
<1>5. ASSUME NEW j \in 1..(Len(q) - 1)
      PROVE  (front \o back)[j] = IF j < i THEN q[j] ELSE q[j + 1]
  <2>1. CASE j < i
    BY <1>1, <1>4, <2>1
  <2>2. CASE ~(j < i)
    <3>1. j - (i - 1) \in 1..(Len(q) - i)
      BY <2>2
    <3> QED
      BY <1>2, <1>4, <2>2, <3>1
  <2> QED
    BY <2>1, <2>2
<1> QED
  BY <1>3, <1>4, <1>5

(* Erasing a ticket leaves a queue of tickets.  (erase in PumpLocked,      *)
(* CancelWaiter and AbandonWaiter)                                         *)
LEMMA WithoutType ==
    ASSUME NEW S, NEW q \in Seq(S), NEW t
    PROVE  Without(q, t) \in Seq(S)
<1>1. CASE \E i \in 1..Len(q) : q[i] = t
  <2> DEFINE at == CHOOSE i \in 1..Len(q) : q[i] = t
  <2>1. at \in 1..Len(q)
    BY <1>1
  <2>2. Without(q, t) = RemoveAt(q, at)
    BY <1>1 DEF Without
  <2> HIDE DEF at
  <2> QED
    BY <2>1, <2>2, RemoveAtProperties
<1>2. CASE ~\E i \in 1..Len(q) : q[i] = t
  BY <1>2 DEF Without
<1> QED
  BY <1>1, <1>2

(* A queue without repetitions loses exactly the ticket that is erased.    *)
LEMMA RemoveAtSet ==
    ASSUME NEW S, NEW q \in Seq(S), IsInjective(q), NEW i \in 1..Len(q)
    PROVE  /\ IsInjective(RemoveAt(q, i))
           /\ ToSet(RemoveAt(q, i)) = ToSet(q) \ {q[i]}
<1> DEFINE r == RemoveAt(q, i)
<1>1. /\ r \in Seq(S) /\ Len(r) = Len(q) - 1
      /\ \A j \in 1..(Len(q) - 1) : r[j] = IF j < i THEN q[j] ELSE q[j + 1]
  BY RemoveAtProperties
<1> HIDE DEF r
<1>2. DOMAIN r = 1..(Len(q) - 1) /\ DOMAIN q = 1..Len(q)
  BY <1>1
<1>3. \A a, b \in 1..Len(q) : q[a] = q[b] => a = b
  BY <1>2 DEF IsInjective
<1>4. IsInjective(r)
  <2> SUFFICES ASSUME NEW a \in 1..(Len(q) - 1), NEW b \in 1..(Len(q) - 1),
                      r[a] = r[b]
               PROVE  a = b
    BY <1>2 DEF IsInjective
  <2> DEFINE old(j) == IF j < i THEN j ELSE j + 1
  <2>1. /\ old(a) \in 1..Len(q) /\ r[a] = q[old(a)]
        /\ old(b) \in 1..Len(q) /\ r[b] = q[old(b)]
    BY <1>1
  <2>2. old(a) = old(b)
    BY <1>3, <2>1
  <2> QED
    BY <2>2
<1>5. ASSUME NEW x \in ToSet(r) PROVE x \in ToSet(q) \ {q[i]}
  <2>1. PICK j \in 1..(Len(q) - 1) : x = r[j]
    BY <1>2, <1>5 DEF ToSet
  <2>2. PICK m \in 1..Len(q) : x = q[m] /\ m # i
    BY <1>1, <2>1
  <2> QED
    BY <1>2, <1>3, <2>2 DEF ToSet
<1>6. ASSUME NEW x \in ToSet(q), x # q[i] PROVE x \in ToSet(r)
  <2>1. PICK m \in 1..Len(q) : x = q[m] /\ m # i
    BY <1>2, <1>6 DEF ToSet
  <2>2. CASE m < i
    <3>1. m \in 1..(Len(q) - 1) /\ r[m] = x
      BY <1>1, <2>1, <2>2
    <3> QED
      BY <1>2, <3>1 DEF ToSet
  <2>3. CASE m > i
    <3>1. m - 1 \in 1..(Len(q) - 1) /\ ~(m - 1 < i)
      BY <2>1, <2>3
    <3>2. r[m - 1] = q[(m - 1) + 1]
      BY <1>1, <3>1
    <3>3. r[m - 1] = x
      BY <2>1, <3>2
    <3> QED
      BY <1>2, <3>1, <3>3 DEF ToSet
  <2> QED
    BY <2>1, <2>2, <2>3
<1>7. ToSet(r) = ToSet(q) \ {q[i]}
  BY <1>5, <1>6
<1> QED
  BY <1>4, <1>7 DEF r

LEMMA WithoutSet ==
    ASSUME NEW S, NEW q \in Seq(S), IsInjective(q), NEW t
    PROVE  /\ IsInjective(Without(q, t))
           /\ ToSet(Without(q, t)) = ToSet(q) \ {t}
<1>1. CASE \E i \in 1..Len(q) : q[i] = t
  <2> DEFINE at == CHOOSE i \in 1..Len(q) : q[i] = t
  <2>1. at \in 1..Len(q) /\ q[at] = t
    BY <1>1
  <2>2. Without(q, t) = RemoveAt(q, at)
    BY <1>1 DEF Without
  <2> HIDE DEF at
  <2> QED
    BY <2>1, <2>2, RemoveAtSet
<1>2. CASE ~\E i \in 1..Len(q) : q[i] = t
  <2>1. t \notin ToSet(q)
    BY <1>2 DEF ToSet
  <2> QED
    BY <1>2, <2>1 DEF Without
<1> QED
  BY <1>1, <1>2

LEMMA AppendSet ==
    ASSUME NEW S, NEW q \in Seq(S), IsInjective(q), NEW t \in S, t \notin ToSet(q)
    PROVE  /\ IsInjective(Append(q, t))
           /\ ToSet(Append(q, t)) = ToSet(q) \cup {t}
<1>1. DOMAIN q = 1..Len(q) /\ DOMAIN Append(q, t) = 1..(Len(q) + 1)
  OBVIOUS
<1>2. /\ \A i \in 1..Len(q) : Append(q, t)[i] = q[i]
      /\ Append(q, t)[Len(q) + 1] = t
  BY AppendProperties
<1>3. \A i \in 1..Len(q) : q[i] # t
  BY <1>1 DEF ToSet
<1>4. \A a, b \in 1..Len(q) : q[a] = q[b] => a = b
  BY <1>1 DEF IsInjective
<1>5. \A i \in 1..(Len(q) + 1) : i \in 1..Len(q) \/ i = Len(q) + 1
  OBVIOUS
<1>6. IsInjective(Append(q, t))
  BY <1>1, <1>2, <1>3, <1>4, <1>5 DEF IsInjective
<1>7. ToSet(Append(q, t)) = ToSet(q) \cup {t}
  <2>1. ASSUME NEW x \in ToSet(Append(q, t)) PROVE x \in ToSet(q) \cup {t}
    BY <1>1, <1>2, <1>5, <2>1 DEF ToSet
  <2>2. ASSUME NEW x \in ToSet(q) PROVE x \in ToSet(Append(q, t))
    <3>1. PICK i \in 1..Len(q) : x = q[i]
      BY <1>1, <2>2 DEF ToSet
    <3>2. i \in 1..(Len(q) + 1) /\ x = Append(q, t)[i]
      BY <1>2, <3>1
    <3> QED
      BY <1>1, <3>2 DEF ToSet
  <2>3. t \in ToSet(Append(q, t))
    <3>1. Len(q) + 1 \in 1..(Len(q) + 1)
      OBVIOUS
    <3> QED
      BY <1>1, <1>2, <3>1 DEF ToSet
  <2> QED
    BY <2>1, <2>2, <2>3
<1> QED
  BY <1>6, <1>7

LEMMA AnyKindType == AnyKind \in Kinds
BY KindsAssumption DEF AnyKind


(* Every step of the controller keeps every variable in its type.          *)
LEMMA TypeStep ==
    ASSUME TypeOK, [Next]_vars
    PROVE  TypeOK'
<1>1. CASE PumpSkip
  BY <1>1
  DEF PumpSkip, KindFull, threadVars, sourceVars, TypeOK, PcValues, Reasons,
      Errors, Outcomes
<1>2. CASE PumpGrant
  <2>1. cursor \in 1..Len(queue)
    BY <1>2 DEF PumpGrant, PumpScanning, PumpAtEnd, TypeOK
  <2>2. RemoveAt(queue, cursor) \in Seq(Threads) /\ queue[cursor] \in Threads
    BY <2>1, RemoveAtProperties DEF TypeOK
  <2> QED
    BY <1>2, <2>2
    DEF PumpGrant, Notify, sourceVars, TypeOK, PcValues
<1>3. ASSUME NEW t \in Threads, StartAcquire(t) PROVE TypeOK'
  BY <1>3
  DEF StartAcquire, Goto, Unlimited, schedulerVars, sourceVars, TypeOK,
      PcValues, Reasons, Errors, Outcomes
<1>4. ASSUME NEW t \in Threads, WaitFails(t) PROVE TypeOK'
  BY <1>4
  DEF WaitFails, Goto, schedulerVars, sourceVars, TypeOK, PcValues, Reasons,
      Errors, Outcomes
<1>5. ASSUME NEW t \in Threads, Finish(t) PROVE TypeOK'
  BY <1>5
  DEF Finish, Goto, schedulerVars, sourceVars, TypeOK, PcValues, Reasons,
      Errors, Outcomes
<1>7. ASSUME NEW t \in Threads, FirstPollPasses(t) PROVE TypeOK'
  BY <1>7
  DEF FirstPollPasses, Goto, Claimed, schedulerVars, sourceVars, TypeOK,
      PcValues, Reasons, Errors, Outcomes
<1>8. ASSUME NEW t \in Threads, FirstPollThrows(t) PROVE TypeOK'
  BY <1>8, AnyKindType
  DEF FirstPollThrows, Leave, Goto, PollStops, Claimed, sourceVars, TypeOK,
      PcValues, Reasons, Errors, Outcomes
<1>9. ASSUME NEW t \in Threads, PollClaims(t) PROVE TypeOK'
  BY <1>9
  DEF PollClaims, ClaimWith, schedulerVars, threadVars, TypeOK, PcValues,
      Reasons, Errors, Outcomes
<1>10. ASSUME NEW t \in Threads, AdmittedImmediately(t) PROVE TypeOK'
  BY <1>10
  DEF AdmittedImmediately, PumpedUnlock, Goto, sourceVars, TypeOK, PcValues,
      Reasons, Errors, Outcomes
<1>11. ASSUME NEW t \in Threads, Queued(t) PROVE TypeOK'
  BY <1>11
  DEF Queued, PumpedUnlock, Goto, sourceVars, TypeOK, PcValues, Reasons,
      Errors, Outcomes
<1>12. ASSUME NEW t \in Threads, InlineDone(t) PROVE TypeOK'
  BY <1>12
  DEF InlineDone, PumpedUnlock, Goto, TypeOK, PcValues, Reasons, Errors,
      Outcomes
<1>13. ASSUME NEW t \in Threads, Settle(t) PROVE TypeOK'
  BY <1>13
  DEF Settle, Goto, Claimed, schedulerVars, sourceVars, TypeOK, PcValues,
      Reasons, Errors, Outcomes
<1>14. ASSUME NEW t \in Threads, Throw(t) PROVE TypeOK'
  BY <1>14, AnyKindType
  DEF Throw, Leave, Goto, Claimed, sourceVars, TypeOK, PcValues, Reasons,
      Errors, Outcomes
<1>15. ASSUME NEW t \in Threads, RepollPasses(t) PROVE TypeOK'
  BY <1>15
  DEF RepollPasses, Goto, Claimed, schedulerVars, sourceVars, TypeOK,
      PcValues, Reasons, Errors, Outcomes
<1>16. ASSUME NEW t \in Threads, RepollThrows(t) PROVE TypeOK'
  BY <1>16
  DEF RepollThrows, Goto, PollStops, Claimed, schedulerVars, sourceVars,
      TypeOK, PcValues, Reasons, Errors, Outcomes
<1>17. ASSUME NEW t \in Threads, ReleaseDone(t) PROVE TypeOK'
  BY <1>17, AnyKindType
  DEF ReleaseDone, PumpedUnlock, Leave, Goto, sourceVars, TypeOK, PcValues,
      Reasons, Errors, Outcomes
<1>18. ASSUME NEW t \in Threads, Enqueue(t) PROVE TypeOK'
  BY <1>18
  DEF Enqueue, Goto, sourceVars, TypeOK, PcValues, Reasons, Errors, Outcomes
<1>19. ASSUME NEW t \in Threads, Register(t) PROVE TypeOK'
  BY <1>19
  DEF Register, Goto, schedulerVars, TypeOK, PcValues, Reasons, Errors,
      Outcomes
<1>20. ASSUME NEW t \in Threads, RegisterInline(t) PROVE TypeOK'
  BY <1>20
  DEF RegisterInline, Goto, schedulerVars, TypeOK, PcValues, Reasons, Errors,
      Outcomes
<1>21. ASSUME NEW t \in Threads, InlineCancels(t) PROVE TypeOK'
  <2>1. Without(queue, t) \in Seq(Threads)
    BY WithoutType DEF TypeOK
  <2> QED
    BY <1>21, <2>1
    DEF InlineCancels, CancelWaiterMark, Goto, sourceVars, TypeOK, PcValues
<1>22. ASSUME NEW t \in Threads, InlineIgnored(t) PROVE TypeOK'
  BY <1>22
  DEF InlineIgnored, CancelWaiterIgnored, Goto, schedulerVars, TypeOK,
      PcValues, Reasons, Errors, Outcomes
<1>23. ASSUME NEW t \in Threads, WaitTest(t) PROVE TypeOK'
  BY <1>23
  DEF WaitTest, Goto, schedulerVars, sourceVars, TypeOK, PcValues, Reasons,
      Errors, Outcomes
<1>24. ASSUME NEW t \in Threads, Unregister(t) PROVE TypeOK'
  BY <1>24
  DEF Unregister, ResetRegistration, Goto, schedulerVars, TypeOK, PcValues,
      Reasons, Errors, Outcomes
<1>25. ASSUME NEW t \in Threads, ReleasePermit(t) PROVE TypeOK'
  BY <1>25
  DEF ReleasePermit, Goto, sourceVars, TypeOK, PcValues, Reasons, Errors,
      Outcomes
<1>26. ASSUME NEW t \in Threads, Unwind(t) PROVE TypeOK'
  BY <1>26
  DEF Unwind, ResetRegistration, Goto, schedulerVars, TypeOK, PcValues,
      Reasons, Errors, Outcomes
<1>27. ASSUME NEW t \in Threads, AbandonGranted(t) PROVE TypeOK'
  BY <1>27
  DEF AbandonGranted, Goto, schedulerVars, sourceVars, TypeOK, PcValues,
      Reasons, Errors, Outcomes
<1>28. ASSUME NEW t \in Threads, AbandonQueued(t) PROVE TypeOK'
  BY <1>28, AnyKindType, WithoutType
  DEF AbandonQueued, Leave, Goto, sourceVars, TypeOK, PcValues, Reasons,
      Errors, Outcomes
<1>29. ASSUME NEW s \in Sources, ClaimLock(s) PROVE TypeOK'
  BY <1>29
  DEF ClaimLock, schedulerVars, threadVars, TypeOK, PcValues, Reasons, Errors,
      Outcomes
<1>30. ASSUME NEW s \in Sources, NEW w \in callbacks[s], CallbackCancels(s, w)
      PROVE  TypeOK'
  <2>1. w \in Threads /\ Without(queue, w) \in Seq(Threads)
    BY WithoutType DEF TypeOK
  <2> QED
    BY <1>30, <2>1
    DEF CallbackCancels, CallNext, CancelWaiterMark, threadVars, TypeOK
<1>31. ASSUME NEW s \in Sources, NEW w \in callbacks[s], CallbackIgnored(s, w)
      PROVE  TypeOK'
  BY <1>31
  DEF CallbackIgnored, CallNext, CancelWaiterIgnored, schedulerVars,
      threadVars, TypeOK, PcValues, Reasons, Errors, Outcomes
<1>32. ASSUME NEW s \in Sources, ClaimNotify(s) PROVE TypeOK'
  BY <1>32
  DEF ClaimNotify, PumpedUnlock, Notify, TypeOK, PcValues, Reasons, Errors,
      Outcomes
<1>33. ASSUME NEW s \in Sources, ClaimFinish(s) PROVE TypeOK'
  BY <1>33
  DEF ClaimFinish, schedulerVars, threadVars, TypeOK, PcValues, Reasons,
      Errors, Outcomes
<1>34. ASSUME NEW s \in Sources, WatchdogClaim(s) PROVE TypeOK'
  BY <1>34
  DEF WatchdogClaim, ClaimWith, schedulerVars, threadVars, TypeOK, PcValues,
      Reasons, Errors, Outcomes
<1>35. ASSUME NEW s \in Sources, Cancel(s) PROVE TypeOK'
  BY <1>35
  DEF Cancel, ClaimWith, schedulerVars, threadVars, TypeOK, PcValues, Reasons,
      Errors, Outcomes
<1>36. ASSUME NEW s \in Sources, Expire(s) PROVE TypeOK'
  BY <1>36
  DEF Expire, schedulerVars, threadVars, TypeOK, PcValues, Reasons, Errors,
      Outcomes
<1>37. ASSUME NEW s \in Sources, NewSource(s) PROVE TypeOK'
  BY <1>37
  DEF NewSource, schedulerVars, threadVars, TypeOK, PcValues, Reasons, Errors,
      Outcomes
<1>38. CASE UNCHANGED vars
  BY <1>38
  DEF vars, schedulerVars, threadVars, sourceVars, TypeOK, PcValues, Reasons,
      Errors, Outcomes
<1> QED
  BY <1>1, <1>2, <1>3, <1>4, <1>5, <1>7, <1>8, <1>9, <1>10, <1>11,
      <1>12, <1>13, <1>14, <1>15, <1>16, <1>17, <1>18, <1>19, <1>20, <1>21,
      <1>22, <1>23, <1>24, <1>25, <1>26, <1>27, <1>28, <1>29, <1>30, <1>31,
      <1>32, <1>33, <1>34, <1>35, <1>36, <1>37, <1>38
  DEF Next, PumpLocked, OptionalStep, ThreadStep, LockingStep, ClaimStep,
      ClaimCall, Environment


(* Locks stay with the actors whose positions say they hold them.          *)
LEMMA LockStep ==
    ASSUME TypeOK, WaiterInv, LockInv, [Next]_vars
    PROVE  LockInv'
<1>1. CASE PumpSkip
  BY <1>1, ActorAssumption
  DEF PumpSkip, PumpScanning, PumpAtEnd, threadVars, sourceVars, TypeOK,
      WaiterInv, LockInv
<1>2. CASE PumpGrant
  BY <1>2, ActorAssumption
  DEF PumpGrant, PumpScanning, PumpAtEnd, Notify, sourceVars, TypeOK,
      WaiterInv, LockInv
<1>3. ASSUME NEW t \in Threads, StartAcquire(t) PROVE LockInv'
  BY <1>3, ActorAssumption
  DEF StartAcquire, Goto, Unlimited, schedulerVars, sourceVars, TypeOK,
      WaiterInv, LockInv
<1>4. ASSUME NEW t \in Threads, WaitFails(t) PROVE LockInv'
  BY <1>4, ActorAssumption
  DEF WaitFails, Goto, schedulerVars, sourceVars, TypeOK, WaiterInv, LockInv
<1>5. ASSUME NEW t \in Threads, Finish(t) PROVE LockInv'
  BY <1>5, ActorAssumption
  DEF Finish, Goto, schedulerVars, sourceVars, TypeOK, WaiterInv, LockInv
<1>7. ASSUME NEW t \in Threads, FirstPollPasses(t) PROVE LockInv'
  BY <1>7, ActorAssumption
  DEF FirstPollPasses, Goto, PollWouldClaim, schedulerVars, sourceVars,
      TypeOK, WaiterInv, LockInv
<1>8. ASSUME NEW t \in Threads, FirstPollThrows(t) PROVE LockInv'
  BY <1>8, ActorAssumption
  DEF FirstPollThrows, Leave, Goto, sourceVars, TypeOK, WaiterInv, LockInv
<1>9. ASSUME NEW t \in Threads, PollClaims(t) PROVE LockInv'
  BY <1>9, ActorAssumption
  DEF PollClaims, ClaimWith, PollWouldClaim, schedulerVars, threadVars,
      TypeOK, WaiterInv, LockInv
<1>10. ASSUME NEW t \in Threads, AdmittedImmediately(t) PROVE LockInv'
  BY <1>10, ActorAssumption
  DEF AdmittedImmediately, PumpedUnlock, PumpScanning, PumpAtEnd, Goto,
      sourceVars, TypeOK, WaiterInv, LockInv
<1>11. ASSUME NEW t \in Threads, Queued(t) PROVE LockInv'
  BY <1>11, ActorAssumption
  DEF Queued, PumpedUnlock, PumpScanning, PumpAtEnd, Goto, sourceVars, TypeOK,
      WaiterInv, LockInv
<1>12. ASSUME NEW t \in Threads, InlineDone(t) PROVE LockInv'
  BY <1>12, ActorAssumption
  DEF InlineDone, PumpedUnlock, PumpScanning, PumpAtEnd, Goto, TypeOK,
      WaiterInv, LockInv
<1>13. ASSUME NEW t \in Threads, Settle(t) PROVE LockInv'
  BY <1>13, ActorAssumption
  DEF Settle, Goto, schedulerVars, sourceVars, TypeOK, WaiterInv, LockInv
<1>14. ASSUME NEW t \in Threads, Throw(t) PROVE LockInv'
  BY <1>14, ActorAssumption
  DEF Throw, Leave, Goto, sourceVars, TypeOK, WaiterInv, LockInv
<1>15. ASSUME NEW t \in Threads, RepollPasses(t) PROVE LockInv'
  BY <1>15, ActorAssumption
  DEF RepollPasses, Goto, PollWouldClaim, schedulerVars, sourceVars, TypeOK,
      WaiterInv, LockInv
<1>16. ASSUME NEW t \in Threads, RepollThrows(t) PROVE LockInv'
  BY <1>16, ActorAssumption
  DEF RepollThrows, Goto, schedulerVars, sourceVars, TypeOK, WaiterInv,
      LockInv
<1>17. ASSUME NEW t \in Threads, ReleaseDone(t) PROVE LockInv'
  BY <1>17, ActorAssumption
  DEF ReleaseDone, PumpedUnlock, PumpScanning, PumpAtEnd, Leave, Goto,
      sourceVars, TypeOK, WaiterInv, LockInv
<1>18. ASSUME NEW t \in Threads, Enqueue(t) PROVE LockInv'
  BY <1>18, ActorAssumption
  DEF Enqueue, Goto, sourceVars, TypeOK, WaiterInv, LockInv
<1>19. ASSUME NEW t \in Threads, Register(t) PROVE LockInv'
  BY <1>19, ActorAssumption
  DEF Register, Goto, schedulerVars, TypeOK, WaiterInv, LockInv
<1>20. ASSUME NEW t \in Threads, RegisterInline(t) PROVE LockInv'
  BY <1>20, ActorAssumption
  DEF RegisterInline, Goto, schedulerVars, TypeOK, WaiterInv, LockInv
<1>21. ASSUME NEW t \in Threads, InlineCancels(t) PROVE LockInv'
  BY <1>21, ActorAssumption
  DEF InlineCancels, CancelWaiterMark, Goto, sourceVars, TypeOK, WaiterInv,
      LockInv
<1>22. ASSUME NEW t \in Threads, InlineIgnored(t) PROVE LockInv'
  BY <1>22, ActorAssumption
  DEF InlineIgnored, CancelWaiterIgnored, Goto, schedulerVars, TypeOK,
      WaiterInv, LockInv
<1>23. ASSUME NEW t \in Threads, WaitTest(t) PROVE LockInv'
  BY <1>23, ActorAssumption
  DEF WaitTest, Goto, schedulerVars, sourceVars, TypeOK, WaiterInv, LockInv
<1>24. ASSUME NEW t \in Threads, Unregister(t) PROVE LockInv'
  BY <1>24, ActorAssumption
  DEF Unregister, ResetRegistration, Goto, schedulerVars, TypeOK, WaiterInv,
      LockInv
<1>25. ASSUME NEW t \in Threads, ReleasePermit(t) PROVE LockInv'
  BY <1>25, ActorAssumption
  DEF ReleasePermit, Goto, sourceVars, TypeOK, WaiterInv, LockInv
<1>26. ASSUME NEW t \in Threads, Unwind(t) PROVE LockInv'
  BY <1>26, ActorAssumption
  DEF Unwind, ResetRegistration, Goto, schedulerVars, TypeOK, WaiterInv,
      LockInv
<1>27. ASSUME NEW t \in Threads, AbandonGranted(t) PROVE LockInv'
  BY <1>27, ActorAssumption
  DEF AbandonGranted, Goto, schedulerVars, sourceVars, TypeOK, WaiterInv,
      LockInv
<1>28. ASSUME NEW t \in Threads, AbandonQueued(t) PROVE LockInv'
  BY <1>28, ActorAssumption
  DEF AbandonQueued, Leave, Goto, sourceVars, TypeOK, WaiterInv, LockInv
<1>29. ASSUME NEW s \in Sources, ClaimLock(s) PROVE LockInv'
  BY <1>29, ActorAssumption
  DEF ClaimLock, schedulerVars, threadVars, TypeOK, WaiterInv, LockInv
<1>30. ASSUME NEW s \in Sources, NEW w \in callbacks[s], CallbackCancels(s, w)
      PROVE  LockInv'
  BY <1>30, ActorAssumption
  DEF CallbackCancels, CallNext, CancelWaiterMark, threadVars, TypeOK,
      WaiterInv, LockInv
<1>31. ASSUME NEW s \in Sources, NEW w \in callbacks[s], CallbackIgnored(s, w)
      PROVE  LockInv'
  BY <1>31, ActorAssumption
  DEF CallbackIgnored, CallNext, CancelWaiterIgnored, schedulerVars,
      threadVars, TypeOK, WaiterInv, LockInv
<1>32. ASSUME NEW s \in Sources, ClaimNotify(s) PROVE LockInv'
  BY <1>32, ActorAssumption
  DEF ClaimNotify, PumpedUnlock, PumpScanning, PumpAtEnd, Notify, TypeOK,
      WaiterInv, LockInv
<1>33. ASSUME NEW s \in Sources, ClaimFinish(s) PROVE LockInv'
  BY <1>33, ActorAssumption
  DEF ClaimFinish, schedulerVars, threadVars, TypeOK, WaiterInv, LockInv
<1>34. ASSUME NEW s \in Sources, WatchdogClaim(s) PROVE LockInv'
  BY <1>34, ActorAssumption
  DEF WatchdogClaim, ClaimWith, schedulerVars, threadVars, TypeOK, WaiterInv,
      LockInv
<1>35. ASSUME NEW s \in Sources, Cancel(s) PROVE LockInv'
  BY <1>35, ActorAssumption
  DEF Cancel, ClaimWith, schedulerVars, threadVars, TypeOK, WaiterInv, LockInv
<1>36. ASSUME NEW s \in Sources, Expire(s) PROVE LockInv'
  BY <1>36, ActorAssumption
  DEF Expire, schedulerVars, threadVars, TypeOK, WaiterInv, LockInv
<1>37. ASSUME NEW s \in Sources, NewSource(s) PROVE LockInv'
  BY <1>37, ActorAssumption
  DEF NewSource, schedulerVars, threadVars, TypeOK, WaiterInv, LockInv
<1>38. CASE UNCHANGED vars
  BY <1>38
  DEF vars, schedulerVars, threadVars, sourceVars, TypeOK, WaiterInv, LockInv
<1> QED
  BY <1>1, <1>2, <1>3, <1>4, <1>5, <1>7, <1>8, <1>9, <1>10, <1>11,
      <1>12, <1>13, <1>14, <1>15, <1>16, <1>17, <1>18, <1>19, <1>20, <1>21,
      <1>22, <1>23, <1>24, <1>25, <1>26, <1>27, <1>28, <1>29, <1>30, <1>31,
      <1>32, <1>33, <1>34, <1>35, <1>36, <1>37, <1>38
  DEF Next, PumpLocked, OptionalStep, ThreadStep, LockingStep, ClaimStep,
      ClaimCall, Environment


(* What the position of a thread says of its waiter stays true.            *)
LEMMA WaiterStep ==
    ASSUME TypeOK, RegistrationInv, QueueIsTheWaiters, WaiterInv, [Next]_vars
    PROVE  WaiterInv'
<1>1. CASE PumpSkip
  BY <1>1
  DEF PumpSkip, PumpScanning, PumpAtEnd, threadVars, sourceVars, TypeOK,
      WaiterInv
<1>2. CASE PumpGrant
  <2>1. queue[cursor] \in ToSet(queue) /\ queue[cursor] \in Threads
    BY <1>2 DEF PumpGrant, PumpScanning, PumpAtEnd, TypeOK, ToSet
  <2>2. pc[queue[cursor]] \in TicketPcs
    BY <2>1 DEF QueueIsTheWaiters
  <2> QED
    BY <1>2, <2>1, <2>2
    DEF PumpGrant, Notify, sourceVars, TypeOK, WaiterInv, TicketPcs
<1>3. ASSUME NEW t \in Threads, StartAcquire(t) PROVE WaiterInv'
  BY <1>3
  DEF StartAcquire, Goto, Unlimited, schedulerVars, sourceVars, TypeOK,
      WaiterInv
<1>4. ASSUME NEW t \in Threads, WaitFails(t) PROVE WaiterInv'
  BY <1>4
  DEF WaitFails, Goto, schedulerVars, sourceVars, TypeOK, WaiterInv
<1>5. ASSUME NEW t \in Threads, Finish(t) PROVE WaiterInv'
  BY <1>5
  DEF Finish, Goto, schedulerVars, sourceVars, TypeOK, WaiterInv
<1>7. ASSUME NEW t \in Threads, FirstPollPasses(t) PROVE WaiterInv'
  BY <1>7
  DEF FirstPollPasses, Goto, PollWouldClaim, schedulerVars, sourceVars,
      TypeOK, WaiterInv
<1>8. ASSUME NEW t \in Threads, FirstPollThrows(t) PROVE WaiterInv'
  BY <1>8
  DEF FirstPollThrows, Leave, Goto, sourceVars, TypeOK, WaiterInv
<1>9. ASSUME NEW t \in Threads, PollClaims(t) PROVE WaiterInv'
  BY <1>9
  DEF PollClaims, ClaimWith, PollWouldClaim, schedulerVars, threadVars,
      TypeOK, WaiterInv
<1>10. ASSUME NEW t \in Threads, AdmittedImmediately(t) PROVE WaiterInv'
  BY <1>10
  DEF AdmittedImmediately, PumpedUnlock, PumpScanning, PumpAtEnd, Goto,
      sourceVars, TypeOK, WaiterInv
<1>11. ASSUME NEW t \in Threads, Queued(t) PROVE WaiterInv'
  BY <1>11, ActorAssumption
  DEF Queued, PumpedUnlock, PumpScanning, PumpAtEnd, Goto, sourceVars, TypeOK,
      WaiterInv
<1>12. ASSUME NEW t \in Threads, InlineDone(t) PROVE WaiterInv'
  BY <1>12
  DEF InlineDone, PumpedUnlock, PumpScanning, PumpAtEnd, Goto, TypeOK,
      WaiterInv
<1>13. ASSUME NEW t \in Threads, Settle(t) PROVE WaiterInv'
  BY <1>13
  DEF Settle, Goto, schedulerVars, sourceVars, TypeOK, WaiterInv
<1>14. ASSUME NEW t \in Threads, Throw(t) PROVE WaiterInv'
  BY <1>14
  DEF Throw, Leave, Goto, sourceVars, TypeOK, WaiterInv
<1>15. ASSUME NEW t \in Threads, RepollPasses(t) PROVE WaiterInv'
  BY <1>15
  DEF RepollPasses, Goto, PollWouldClaim, schedulerVars, sourceVars, TypeOK,
      WaiterInv
<1>16. ASSUME NEW t \in Threads, RepollThrows(t) PROVE WaiterInv'
  BY <1>16
  DEF RepollThrows, Goto, schedulerVars, sourceVars, TypeOK, WaiterInv
<1>17. ASSUME NEW t \in Threads, ReleaseDone(t) PROVE WaiterInv'
  BY <1>17
  DEF ReleaseDone, PumpedUnlock, PumpScanning, PumpAtEnd, Leave, Goto,
      sourceVars, TypeOK, WaiterInv
<1>18. ASSUME NEW t \in Threads, Enqueue(t) PROVE WaiterInv'
  BY <1>18
  DEF Enqueue, Goto, sourceVars, TypeOK, WaiterInv
<1>19. ASSUME NEW t \in Threads, Register(t) PROVE WaiterInv'
  BY <1>19
  DEF Register, Goto, schedulerVars, TypeOK, WaiterInv
<1>20. ASSUME NEW t \in Threads, RegisterInline(t) PROVE WaiterInv'
  BY <1>20
  DEF RegisterInline, Goto, schedulerVars, TypeOK, WaiterInv
<1>21. ASSUME NEW t \in Threads, InlineCancels(t) PROVE WaiterInv'
  BY <1>21
  DEF InlineCancels, CancelWaiterMark, Goto, sourceVars, TypeOK, WaiterInv
<1>22. ASSUME NEW t \in Threads, InlineIgnored(t) PROVE WaiterInv'
  BY <1>22
  DEF InlineIgnored, CancelWaiterIgnored, Goto, schedulerVars, TypeOK,
      WaiterInv
<1>23. ASSUME NEW t \in Threads, WaitTest(t) PROVE WaiterInv'
  BY <1>23
  DEF WaitTest, Goto, schedulerVars, sourceVars, TypeOK, WaiterInv
<1>24. ASSUME NEW t \in Threads, Unregister(t) PROVE WaiterInv'
  BY <1>24
  DEF Unregister, ResetRegistration, Goto, schedulerVars, TypeOK, WaiterInv
<1>25. ASSUME NEW t \in Threads, ReleasePermit(t) PROVE WaiterInv'
  BY <1>25
  DEF ReleasePermit, Goto, sourceVars, TypeOK, WaiterInv
<1>26. ASSUME NEW t \in Threads, Unwind(t) PROVE WaiterInv'
  BY <1>26
  DEF Unwind, ResetRegistration, Goto, schedulerVars, TypeOK, WaiterInv
<1>27. ASSUME NEW t \in Threads, AbandonGranted(t) PROVE WaiterInv'
  BY <1>27
  DEF AbandonGranted, Goto, schedulerVars, sourceVars, TypeOK, WaiterInv
<1>28. ASSUME NEW t \in Threads, AbandonQueued(t) PROVE WaiterInv'
  BY <1>28
  DEF AbandonQueued, Leave, Goto, sourceVars, TypeOK, WaiterInv
<1>29. ASSUME NEW s \in Sources, ClaimLock(s) PROVE WaiterInv'
  BY <1>29
  DEF ClaimLock, schedulerVars, threadVars, TypeOK, WaiterInv
<1>30. ASSUME NEW s \in Sources, NEW w \in callbacks[s], CallbackCancels(s, w)
      PROVE  WaiterInv'
  <2>1. w \in Threads /\ registered[w]
    BY DEF TypeOK, RegistrationInv
  <2>2. pc[w] \in {"wait", "asleep", "unregister", "unwind"} /\ ~granted[w]
    BY <1>30, <2>1 DEF RegistrationInv, CallbackCancels, CancelWaiterMark
  <2> QED
    BY <1>30, <2>1, <2>2
    DEF CallbackCancels, CallNext, CancelWaiterMark, threadVars, TypeOK, WaiterInv
<1>31. ASSUME NEW s \in Sources, NEW w \in callbacks[s], CallbackIgnored(s, w)
      PROVE  WaiterInv'
  BY <1>31
  DEF CallbackIgnored, CallNext, CancelWaiterIgnored, schedulerVars,
      threadVars, TypeOK, WaiterInv
<1>32. ASSUME NEW s \in Sources, ClaimNotify(s) PROVE WaiterInv'
  BY <1>32
  DEF ClaimNotify, PumpedUnlock, PumpScanning, PumpAtEnd, Notify, TypeOK,
      WaiterInv
<1>33. ASSUME NEW s \in Sources, ClaimFinish(s) PROVE WaiterInv'
  BY <1>33
  DEF ClaimFinish, schedulerVars, threadVars, TypeOK, WaiterInv
<1>34. ASSUME NEW s \in Sources, WatchdogClaim(s) PROVE WaiterInv'
  BY <1>34
  DEF WatchdogClaim, ClaimWith, schedulerVars, threadVars, TypeOK, WaiterInv
<1>35. ASSUME NEW s \in Sources, Cancel(s) PROVE WaiterInv'
  BY <1>35
  DEF Cancel, ClaimWith, schedulerVars, threadVars, TypeOK, WaiterInv
<1>36. ASSUME NEW s \in Sources, Expire(s) PROVE WaiterInv'
  BY <1>36
  DEF Expire, schedulerVars, threadVars, TypeOK, WaiterInv
<1>37. ASSUME NEW s \in Sources, NewSource(s) PROVE WaiterInv'
  BY <1>37
  DEF NewSource, schedulerVars, threadVars, TypeOK, WaiterInv
<1>38. CASE UNCHANGED vars
  BY <1>38
  DEF vars, schedulerVars, threadVars, sourceVars, TypeOK, WaiterInv
<1> QED
  BY <1>1, <1>2, <1>3, <1>4, <1>5, <1>7, <1>8, <1>9, <1>10, <1>11,
      <1>12, <1>13, <1>14, <1>15, <1>16, <1>17, <1>18, <1>19, <1>20, <1>21,
      <1>22, <1>23, <1>24, <1>25, <1>26, <1>27, <1>28, <1>29, <1>30, <1>31,
      <1>32, <1>33, <1>34, <1>35, <1>36, <1>37, <1>38
  DEF Next, PumpLocked, OptionalStep, ThreadStep, LockingStep, ClaimStep,
      ClaimCall, Environment

(* Outside the wait and its unwinding no callback can name the thread.     *)
LEMMA NoRegistration ==
    ASSUME TypeOK, RegistrationInv, NEW t \in Threads,
           pc[t] \notin {"wait", "asleep", "unregister", "unwind"}
    PROVE  /\ ~registered[t]
           /\ \A s \in Sources : t \notin callbacks[s] /\ target[s] # t
<1>1. ~registered[t]
  BY DEF RegistrationInv
<1>2. \A s \in Sources : t \notin callbacks[s]
  BY <1>1 DEF RegistrationInv
<1>3. \A s \in Sources : target[s] # t
  BY <1>1, ActorAssumption DEF RegistrationInv
<1> QED
  BY <1>1, <1>2, <1>3

(* Registrations and callbacks stay in step: this is what makes the         *)
(* callbacks of one acquisition unable to touch another.                    *)
LEMMA RegistrationStep ==
    ASSUME TypeOK, LockInv, WaiterInv, RegistrationInv, [Next]_vars
    PROVE  RegistrationInv'
<1>1. CASE PumpSkip
  BY <1>1, ActorAssumption
  DEF PumpSkip, PumpScanning, PumpAtEnd, threadVars, sourceVars, TypeOK,
      LockInv, RegistrationInv
<1>2. CASE PumpGrant
  BY <1>2, ActorAssumption
  DEF PumpGrant, PumpScanning, PumpAtEnd, Notify, sourceVars, TypeOK, LockInv,
      RegistrationInv
<1>3. ASSUME NEW t \in Threads, StartAcquire(t) PROVE RegistrationInv'
  BY <1>3, ActorAssumption
  DEF StartAcquire, Goto, Unlimited, schedulerVars, sourceVars, TypeOK,
      LockInv, RegistrationInv
<1>4. ASSUME NEW t \in Threads, WaitFails(t) PROVE RegistrationInv'
  BY <1>4, ActorAssumption
  DEF WaitFails, Goto, schedulerVars, sourceVars, TypeOK, LockInv,
      RegistrationInv
<1>5. ASSUME NEW t \in Threads, Finish(t) PROVE RegistrationInv'
  BY <1>5, ActorAssumption
  DEF Finish, Goto, schedulerVars, sourceVars, TypeOK, LockInv,
      RegistrationInv
<1>7. ASSUME NEW t \in Threads, FirstPollPasses(t) PROVE RegistrationInv'
  BY <1>7, ActorAssumption
  DEF FirstPollPasses, Goto, PollWouldClaim, schedulerVars, sourceVars,
      TypeOK, LockInv, RegistrationInv
<1>8. ASSUME NEW t \in Threads, FirstPollThrows(t) PROVE RegistrationInv'
  <2>1. /\ ~registered[t]
        /\ \A s \in Sources : t \notin callbacks[s] /\ target[s] # t
    BY <1>8, NoRegistration DEF FirstPollThrows
  <2> QED
    BY <1>8, <2>1
    DEF FirstPollThrows, Leave, Goto, sourceVars, TypeOK, RegistrationInv
<1>9. ASSUME NEW t \in Threads, PollClaims(t) PROVE RegistrationInv'
  BY <1>9, ActorAssumption
  DEF PollClaims, ClaimWith, PollWouldClaim, schedulerVars, threadVars,
      TypeOK, LockInv, RegistrationInv
<1>10. ASSUME NEW t \in Threads, AdmittedImmediately(t) PROVE RegistrationInv'
  BY <1>10, ActorAssumption
  DEF AdmittedImmediately, PumpedUnlock, PumpScanning, PumpAtEnd, Goto,
      sourceVars, TypeOK, LockInv, RegistrationInv
<1>11. ASSUME NEW t \in Threads, Queued(t) PROVE RegistrationInv'
  BY <1>11, ActorAssumption
  DEF Queued, PumpedUnlock, PumpScanning, PumpAtEnd, Goto, sourceVars, TypeOK,
      LockInv, RegistrationInv
<1>12. ASSUME NEW t \in Threads, InlineDone(t) PROVE RegistrationInv'
  BY <1>12, ActorAssumption
  DEF InlineDone, PumpedUnlock, PumpScanning, PumpAtEnd, Goto, TypeOK,
      LockInv, RegistrationInv
<1>13. ASSUME NEW t \in Threads, Settle(t) PROVE RegistrationInv'
  BY <1>13, ActorAssumption
  DEF Settle, Goto, schedulerVars, sourceVars, TypeOK, LockInv,
      RegistrationInv
<1>14. ASSUME NEW t \in Threads, Throw(t) PROVE RegistrationInv'
  <2>1. /\ ~registered[t]
        /\ \A s \in Sources : t \notin callbacks[s] /\ target[s] # t
    BY <1>14, NoRegistration DEF Throw
  <2> QED
    BY <1>14, <2>1
    DEF Throw, Leave, Goto, sourceVars, TypeOK, RegistrationInv
<1>15. ASSUME NEW t \in Threads, RepollPasses(t) PROVE RegistrationInv'
  BY <1>15, ActorAssumption
  DEF RepollPasses, Goto, PollWouldClaim, schedulerVars, sourceVars, TypeOK,
      LockInv, RegistrationInv
<1>16. ASSUME NEW t \in Threads, RepollThrows(t) PROVE RegistrationInv'
  BY <1>16, ActorAssumption
  DEF RepollThrows, Goto, schedulerVars, sourceVars, TypeOK, LockInv,
      RegistrationInv
<1>17. ASSUME NEW t \in Threads, ReleaseDone(t) PROVE RegistrationInv'
  <2>1. /\ ~registered[t]
        /\ \A s \in Sources : t \notin callbacks[s] /\ target[s] # t
    BY <1>17, NoRegistration DEF ReleaseDone
  <2> QED
    BY <1>17, <2>1
    DEF ReleaseDone, Leave, Goto, sourceVars, TypeOK, RegistrationInv
<1>18. ASSUME NEW t \in Threads, Enqueue(t) PROVE RegistrationInv'
  BY <1>18, ActorAssumption
  DEF Enqueue, Goto, sourceVars, TypeOK, LockInv, RegistrationInv
<1>19. ASSUME NEW t \in Threads, Register(t) PROVE RegistrationInv'
  BY <1>19, ActorAssumption
  DEF Register, Goto, schedulerVars, TypeOK, LockInv, RegistrationInv,
      WaiterInv
<1>20. ASSUME NEW t \in Threads, RegisterInline(t) PROVE RegistrationInv'
  BY <1>20, ActorAssumption
  DEF RegisterInline, Goto, schedulerVars, TypeOK, LockInv, RegistrationInv
<1>21. ASSUME NEW t \in Threads, InlineCancels(t) PROVE RegistrationInv'
  BY <1>21, ActorAssumption
  DEF InlineCancels, CancelWaiterMark, Goto, sourceVars, TypeOK, LockInv,
      RegistrationInv
<1>22. ASSUME NEW t \in Threads, InlineIgnored(t) PROVE RegistrationInv'
  BY <1>22, ActorAssumption
  DEF InlineIgnored, CancelWaiterIgnored, Goto, schedulerVars, TypeOK,
      LockInv, RegistrationInv
<1>23. ASSUME NEW t \in Threads, WaitTest(t) PROVE RegistrationInv'
  BY <1>23, ActorAssumption
  DEF WaitTest, Goto, schedulerVars, sourceVars, TypeOK, LockInv,
      RegistrationInv
<1>24. ASSUME NEW t \in Threads, Unregister(t) PROVE RegistrationInv'
  BY <1>24, ActorAssumption
  DEF Unregister, ResetRegistration, Goto, schedulerVars, TypeOK, LockInv,
      RegistrationInv
<1>25. ASSUME NEW t \in Threads, ReleasePermit(t) PROVE RegistrationInv'
  BY <1>25, ActorAssumption
  DEF ReleasePermit, Goto, sourceVars, TypeOK, LockInv, RegistrationInv
<1>26. ASSUME NEW t \in Threads, Unwind(t) PROVE RegistrationInv'
  BY <1>26, ActorAssumption
  DEF Unwind, ResetRegistration, Goto, schedulerVars, TypeOK, LockInv,
      RegistrationInv
<1>27. ASSUME NEW t \in Threads, AbandonGranted(t) PROVE RegistrationInv'
  BY <1>27, ActorAssumption
  DEF AbandonGranted, Goto, schedulerVars, sourceVars, TypeOK, LockInv,
      RegistrationInv
<1>28. ASSUME NEW t \in Threads, AbandonQueued(t) PROVE RegistrationInv'
  <2>1. /\ ~registered[t]
        /\ \A s \in Sources : t \notin callbacks[s] /\ target[s] # t
    BY <1>28, NoRegistration DEF AbandonQueued
  <2> QED
    BY <1>28, <2>1
    DEF AbandonQueued, Leave, Goto, sourceVars, TypeOK, RegistrationInv
<1>29. ASSUME NEW s \in Sources, ClaimLock(s) PROVE RegistrationInv'
  BY <1>29, ActorAssumption
  DEF ClaimLock, schedulerVars, threadVars, TypeOK, LockInv, RegistrationInv
<1>30. ASSUME NEW s \in Sources, NEW w \in callbacks[s], CallbackCancels(s, w)
      PROVE  RegistrationInv'
  BY <1>30, ActorAssumption
  DEF CallbackCancels, CallNext, CancelWaiterMark, threadVars, TypeOK,
      LockInv, RegistrationInv, WaiterInv
<1>31. ASSUME NEW s \in Sources, NEW w \in callbacks[s], CallbackIgnored(s, w)
      PROVE  RegistrationInv'
  BY <1>31, ActorAssumption
  DEF CallbackIgnored, CallNext, CancelWaiterIgnored, schedulerVars,
      threadVars, TypeOK, LockInv, RegistrationInv
<1>32. ASSUME NEW s \in Sources, ClaimNotify(s) PROVE RegistrationInv'
  BY <1>32, ActorAssumption
  DEF ClaimNotify, PumpedUnlock, PumpScanning, PumpAtEnd, Notify, TypeOK,
      LockInv, RegistrationInv
<1>33. ASSUME NEW s \in Sources, ClaimFinish(s) PROVE RegistrationInv'
  BY <1>33, ActorAssumption
  DEF ClaimFinish, schedulerVars, threadVars, TypeOK, LockInv, RegistrationInv
<1>34. ASSUME NEW s \in Sources, WatchdogClaim(s) PROVE RegistrationInv'
  BY <1>34, ActorAssumption
  DEF WatchdogClaim, ClaimWith, schedulerVars, threadVars, TypeOK, LockInv,
      RegistrationInv
<1>35. ASSUME NEW s \in Sources, Cancel(s) PROVE RegistrationInv'
  BY <1>35, ActorAssumption
  DEF Cancel, ClaimWith, schedulerVars, threadVars, TypeOK, LockInv,
      RegistrationInv
<1>36. ASSUME NEW s \in Sources, Expire(s) PROVE RegistrationInv'
  BY <1>36, ActorAssumption
  DEF Expire, schedulerVars, threadVars, TypeOK, LockInv, RegistrationInv
<1>37. ASSUME NEW s \in Sources, NewSource(s) PROVE RegistrationInv'
  BY <1>37, ActorAssumption
  DEF NewSource, schedulerVars, threadVars, TypeOK, LockInv, RegistrationInv
<1>38. CASE UNCHANGED vars
  BY <1>38
  DEF vars, schedulerVars, threadVars, sourceVars, TypeOK, LockInv,
      RegistrationInv
<1> QED
  BY <1>1, <1>2, <1>3, <1>4, <1>5, <1>7, <1>8, <1>9, <1>10, <1>11,
      <1>12, <1>13, <1>14, <1>15, <1>16, <1>17, <1>18, <1>19, <1>20, <1>21,
      <1>22, <1>23, <1>24, <1>25, <1>26, <1>27, <1>28, <1>29, <1>30, <1>31,
      <1>32, <1>33, <1>34, <1>35, <1>36, <1>37, <1>38
  DEF Next, PumpLocked, OptionalStep, ThreadStep, LockingStep, ClaimStep,
      ClaimCall, Environment


(* The queue stays the list of those who wait, each once.                 *)
LEMMA QueueStep ==
    ASSUME TypeOK, WaiterInv, QueueIsTheWaiters, [Next]_vars
    PROVE  QueueIsTheWaiters'
<1>1. CASE PumpSkip
  BY <1>1
  DEF PumpSkip, PumpScanning, threadVars, sourceVars, TypeOK, WaiterInv,
      QueueIsTheWaiters, TicketPcs
<1>2. CASE PumpGrant
  <2> DEFINE g == queue[cursor]
  <2>1. cursor \in 1..Len(queue) /\ g \in Threads /\ g \in ToSet(queue)
    BY <1>2 DEF PumpGrant, PumpScanning, PumpAtEnd, TypeOK, ToSet
  <2>2. IsInjective(queue') /\ ToSet(queue') = ToSet(queue) \ {g}
    BY <1>2, <2>1, RemoveAtSet DEF PumpGrant, TypeOK, QueueIsTheWaiters
  <2>3. /\ granted' = [granted EXCEPT ![g] = TRUE]
        /\ UNCHANGED cancelled
        /\ pc' = Notify(g, pc)
    BY <1>2 DEF PumpGrant
  <2> HIDE DEF g
  <2> QED
    BY <2>1, <2>2, <2>3 DEF Notify, TypeOK, QueueIsTheWaiters, TicketPcs
<1>3. ASSUME NEW t \in Threads, StartAcquire(t) PROVE QueueIsTheWaiters'
  BY <1>3
  DEF StartAcquire, Goto, Unlimited, schedulerVars, sourceVars, TypeOK,
      WaiterInv, QueueIsTheWaiters, TicketPcs
<1>4. ASSUME NEW t \in Threads, WaitFails(t) PROVE QueueIsTheWaiters'
  BY <1>4
  DEF WaitFails, Goto, schedulerVars, sourceVars, TypeOK, WaiterInv,
      QueueIsTheWaiters, TicketPcs
<1>5. ASSUME NEW t \in Threads, Finish(t) PROVE QueueIsTheWaiters'
  BY <1>5
  DEF Finish, Goto, schedulerVars, sourceVars, TypeOK, WaiterInv,
      QueueIsTheWaiters, TicketPcs
<1>7. ASSUME NEW t \in Threads, FirstPollPasses(t) PROVE QueueIsTheWaiters'
  BY <1>7
  DEF FirstPollPasses, Goto, schedulerVars, sourceVars, TypeOK, WaiterInv,
      QueueIsTheWaiters, TicketPcs
<1>8. ASSUME NEW t \in Threads, FirstPollThrows(t) PROVE QueueIsTheWaiters'
  BY <1>8
  DEF FirstPollThrows, Leave, Goto, sourceVars, TypeOK, WaiterInv,
      QueueIsTheWaiters, TicketPcs
<1>9. ASSUME NEW t \in Threads, PollClaims(t) PROVE QueueIsTheWaiters'
  BY <1>9
  DEF PollClaims, ClaimWith, schedulerVars, threadVars, TypeOK, WaiterInv,
      QueueIsTheWaiters, TicketPcs
<1>10. ASSUME NEW t \in Threads, AdmittedImmediately(t) PROVE QueueIsTheWaiters'
  BY <1>10
  DEF AdmittedImmediately, PumpedUnlock, PumpScanning, Goto, sourceVars,
      TypeOK, WaiterInv, QueueIsTheWaiters, TicketPcs
<1>11. ASSUME NEW t \in Threads, Queued(t) PROVE QueueIsTheWaiters'
  BY <1>11
  DEF Queued, PumpedUnlock, PumpScanning, Goto, sourceVars, TypeOK, WaiterInv,
      QueueIsTheWaiters, TicketPcs
<1>12. ASSUME NEW t \in Threads, InlineDone(t) PROVE QueueIsTheWaiters'
  BY <1>12
  DEF InlineDone, PumpedUnlock, PumpScanning, Goto, TypeOK, WaiterInv,
      QueueIsTheWaiters, TicketPcs
<1>13. ASSUME NEW t \in Threads, Settle(t) PROVE QueueIsTheWaiters'
  BY <1>13
  DEF Settle, Goto, schedulerVars, sourceVars, TypeOK, WaiterInv,
      QueueIsTheWaiters, TicketPcs
<1>14. ASSUME NEW t \in Threads, Throw(t) PROVE QueueIsTheWaiters'
  BY <1>14
  DEF Throw, Leave, Goto, sourceVars, TypeOK, WaiterInv, QueueIsTheWaiters,
      TicketPcs
<1>15. ASSUME NEW t \in Threads, RepollPasses(t) PROVE QueueIsTheWaiters'
  BY <1>15
  DEF RepollPasses, Goto, schedulerVars, sourceVars, TypeOK, WaiterInv,
      QueueIsTheWaiters, TicketPcs
<1>16. ASSUME NEW t \in Threads, RepollThrows(t) PROVE QueueIsTheWaiters'
  BY <1>16
  DEF RepollThrows, Goto, schedulerVars, sourceVars, TypeOK, WaiterInv,
      QueueIsTheWaiters, TicketPcs
<1>17. ASSUME NEW t \in Threads, ReleaseDone(t) PROVE QueueIsTheWaiters'
  BY <1>17
  DEF ReleaseDone, PumpedUnlock, PumpScanning, Leave, Goto, sourceVars,
      TypeOK, WaiterInv, QueueIsTheWaiters, TicketPcs
<1>18. ASSUME NEW t \in Threads, Enqueue(t) PROVE QueueIsTheWaiters'
  <2>1. t \notin ToSet(queue)
    BY <1>18 DEF Enqueue, QueueIsTheWaiters, TicketPcs
  <2>2. IsInjective(queue') /\ ToSet(queue') = ToSet(queue) \cup {t}
    BY <1>18, <2>1, AppendSet DEF Enqueue, TypeOK, QueueIsTheWaiters
  <2> HIDE DEF Enqueue
  <2>3. /\ ~granted[t] /\ ~cancelled[t]
        /\ UNCHANGED <<granted, cancelled>>
        /\ pc' = [pc EXCEPT ![t] = "enqueueing"]
    BY <1>18 DEF Enqueue, Goto, WaiterInv
  <2> QED
    BY <2>2, <2>3 DEF TypeOK, QueueIsTheWaiters, TicketPcs
<1>19. ASSUME NEW t \in Threads, Register(t) PROVE QueueIsTheWaiters'
  BY <1>19
  DEF Register, Goto, schedulerVars, TypeOK, WaiterInv, QueueIsTheWaiters,
      TicketPcs
<1>20. ASSUME NEW t \in Threads, RegisterInline(t) PROVE QueueIsTheWaiters'
  BY <1>20
  DEF RegisterInline, Goto, schedulerVars, TypeOK, WaiterInv,
      QueueIsTheWaiters, TicketPcs
<1>21. ASSUME NEW t \in Threads, InlineCancels(t) PROVE QueueIsTheWaiters'
  <2>1. t \in Threads
    BY <1>21
  <2>2. IsInjective(queue') /\ ToSet(queue') = ToSet(queue) \ {t}
    BY <1>21, WithoutSet DEF InlineCancels, CancelWaiterMark, TypeOK, QueueIsTheWaiters
  <2> QED
    BY <1>21, <2>1, <2>2
    DEF InlineCancels, Goto, CancelWaiterMark, TypeOK, QueueIsTheWaiters, TicketPcs
<1>22. ASSUME NEW t \in Threads, InlineIgnored(t) PROVE QueueIsTheWaiters'
  BY <1>22
  DEF InlineIgnored, CancelWaiterIgnored, Goto, schedulerVars, TypeOK,
      WaiterInv, QueueIsTheWaiters, TicketPcs
<1>23. ASSUME NEW t \in Threads, WaitTest(t) PROVE QueueIsTheWaiters'
  BY <1>23
  DEF WaitTest, Goto, schedulerVars, sourceVars, TypeOK, WaiterInv,
      QueueIsTheWaiters, TicketPcs
<1>24. ASSUME NEW t \in Threads, Unregister(t) PROVE QueueIsTheWaiters'
  BY <1>24
  DEF Unregister, ResetRegistration, Goto, schedulerVars, TypeOK, WaiterInv,
      QueueIsTheWaiters, TicketPcs
<1>25. ASSUME NEW t \in Threads, ReleasePermit(t) PROVE QueueIsTheWaiters'
  BY <1>25
  DEF ReleasePermit, Goto, sourceVars, TypeOK, WaiterInv, QueueIsTheWaiters,
      TicketPcs
<1>26. ASSUME NEW t \in Threads, Unwind(t) PROVE QueueIsTheWaiters'
  BY <1>26
  DEF Unwind, ResetRegistration, Goto, schedulerVars, TypeOK, WaiterInv,
      QueueIsTheWaiters, TicketPcs
<1>27. ASSUME NEW t \in Threads, AbandonGranted(t) PROVE QueueIsTheWaiters'
  BY <1>27
  DEF AbandonGranted, Goto, schedulerVars, sourceVars, TypeOK, WaiterInv,
      QueueIsTheWaiters, TicketPcs
<1>28. ASSUME NEW t \in Threads, AbandonQueued(t) PROVE QueueIsTheWaiters'
  <2>1. /\ granted' = [granted EXCEPT ![t] = FALSE]
        /\ cancelled' = [cancelled EXCEPT ![t] = FALSE]
        /\ pc' = [pc EXCEPT ![t] = "idle"]
    BY <1>28 DEF AbandonQueued, Leave, Goto
  <2>2. IsInjective(queue') /\ ToSet(queue') = ToSet(queue) \ {t}
    <3>1. CASE cancelled[t]
      BY <1>28, <3>1 DEF AbandonQueued, QueueIsTheWaiters
    <3>2. CASE ~cancelled[t]
      BY <1>28, <3>2, WithoutSet DEF AbandonQueued, TypeOK, QueueIsTheWaiters
    <3> QED
      BY <3>1, <3>2
  <2> QED
    BY <2>1, <2>2 DEF TypeOK, QueueIsTheWaiters, TicketPcs
<1>29. ASSUME NEW s \in Sources, ClaimLock(s) PROVE QueueIsTheWaiters'
  BY <1>29
  DEF ClaimLock, schedulerVars, threadVars, TypeOK, WaiterInv,
      QueueIsTheWaiters, TicketPcs
<1>30. ASSUME NEW s \in Sources, NEW w \in callbacks[s], CallbackCancels(s, w)
      PROVE  QueueIsTheWaiters'
  <2>1. w \in Threads
    BY <1>30 DEF TypeOK
  <2>2. IsInjective(queue') /\ ToSet(queue') = ToSet(queue) \ {w}
    BY <1>30, WithoutSet DEF CallbackCancels, CancelWaiterMark, TypeOK, QueueIsTheWaiters
  <2> QED
    BY <1>30, <2>1, <2>2
    DEF CallbackCancels, CallNext, threadVars, CancelWaiterMark, TypeOK, QueueIsTheWaiters, TicketPcs
<1>31. ASSUME NEW s \in Sources, NEW w \in callbacks[s], CallbackIgnored(s, w)
      PROVE  QueueIsTheWaiters'
  BY <1>31
  DEF CallbackIgnored, CallNext, CancelWaiterIgnored, schedulerVars,
      threadVars, TypeOK, WaiterInv, QueueIsTheWaiters, TicketPcs
<1>32. ASSUME NEW s \in Sources, ClaimNotify(s) PROVE QueueIsTheWaiters'
  BY <1>32
  DEF ClaimNotify, PumpedUnlock, PumpScanning, Notify, TypeOK, WaiterInv,
      QueueIsTheWaiters, TicketPcs
<1>33. ASSUME NEW s \in Sources, ClaimFinish(s) PROVE QueueIsTheWaiters'
  BY <1>33
  DEF ClaimFinish, schedulerVars, threadVars, TypeOK, WaiterInv,
      QueueIsTheWaiters, TicketPcs
<1>34. ASSUME NEW s \in Sources, WatchdogClaim(s) PROVE QueueIsTheWaiters'
  BY <1>34
  DEF WatchdogClaim, ClaimWith, schedulerVars, threadVars, TypeOK, WaiterInv,
      QueueIsTheWaiters, TicketPcs
<1>35. ASSUME NEW s \in Sources, Cancel(s) PROVE QueueIsTheWaiters'
  BY <1>35
  DEF Cancel, ClaimWith, schedulerVars, threadVars, TypeOK, WaiterInv,
      QueueIsTheWaiters, TicketPcs
<1>36. ASSUME NEW s \in Sources, Expire(s) PROVE QueueIsTheWaiters'
  BY <1>36
  DEF Expire, schedulerVars, threadVars, TypeOK, WaiterInv, QueueIsTheWaiters,
      TicketPcs
<1>37. ASSUME NEW s \in Sources, NewSource(s) PROVE QueueIsTheWaiters'
  BY <1>37
  DEF NewSource, schedulerVars, threadVars, TypeOK, WaiterInv,
      QueueIsTheWaiters, TicketPcs
<1>38. CASE UNCHANGED vars
  BY <1>38
  DEF vars, schedulerVars, threadVars, sourceVars, TypeOK, WaiterInv,
      QueueIsTheWaiters, TicketPcs
<1> QED
  BY <1>1, <1>2, <1>3, <1>4, <1>5, <1>7, <1>8, <1>9, <1>10, <1>11,
      <1>12, <1>13, <1>14, <1>15, <1>16, <1>17, <1>18, <1>19, <1>20, <1>21,
      <1>22, <1>23, <1>24, <1>25, <1>26, <1>27, <1>28, <1>29, <1>30, <1>31,
      <1>32, <1>33, <1>34, <1>35, <1>36, <1>37, <1>38
  DEF Next, PumpLocked, OptionalStep, ThreadStep, LockingStep, ClaimStep,
      ClaimCall, Environment


(* A ticket in the queue belongs to a thread that waits.                   *)
LEMMA QueuedTicket ==
    ASSUME TypeOK, QueueIsTheWaiters, NEW j \in 1..Len(queue)
    PROVE  /\ queue[j] \in Threads /\ queue[j] \in ToSet(queue)
           /\ pc[queue[j]] \in TicketPcs
           /\ ~granted[queue[j]] /\ ~cancelled[queue[j]]
<1>1. queue[j] \in Threads /\ queue[j] \in ToSet(queue)
  BY DEF TypeOK, ToSet
<1> QED
  BY <1>1 DEF QueueIsTheWaiters

(* Everything the scan in progress has passed belongs to a full kind.      *)
LEMMA ScanStep ==
    ASSUME TypeOK, LockInv, QueueIsTheWaiters, ScanInv, [Next]_vars
    PROVE  ScanInv'
<1>1. CASE PumpSkip
  BY <1>1
  DEF PumpSkip, PumpScanning, PumpAtEnd, KindFull, threadVars, sourceVars,
      TypeOK, LockInv, ScanInv
<1>2. CASE PumpGrant
  <2>1. cursor \in 1..Len(queue)
    BY <1>2 DEF PumpGrant, PumpScanning, PumpAtEnd, TypeOK
  <2>2. /\ Len(queue') = Len(queue) - 1
        /\ \A j \in 1..(Len(queue) - 1) :
             queue'[j] = IF j < cursor THEN queue[j] ELSE queue[j + 1]
    <3>1. queue \in Seq(Threads) /\ queue' = RemoveAt(queue, cursor)
      BY <1>2 DEF PumpGrant, TypeOK
    <3> QED
      BY <2>1, <3>1, RemoveAtProperties
  <2>a. \A j \in 1..(cursor - 1) : queue'[j] = queue[j] /\ queue[j] \in Threads
    <3>1. \A j \in 1..(cursor - 1) : j \in 1..(Len(queue) - 1) /\ j < cursor
      BY <2>1
    <3>2. \A j \in 1..(cursor - 1) : queue[j] \in Threads
      BY <2>1, <3>1 DEF TypeOK
    <3> QED
      BY <2>2, <3>1, <3>2
  <2>3. \A j \in 1..(cursor - 1) : KindFull(kind[queue[j]])
    BY <1>2 DEF PumpGrant, PumpScanning, ScanInv
  <2>4. \A k \in Kinds : KindFull(k) => KindFull(k)'
    BY <1>2, LimitAssumption DEF PumpGrant, TypeOK, KindFull
  <2>5. UNCHANGED <<cursor, kind>>
    BY <1>2 DEF PumpGrant
  <2>6. \A j \in 1..(cursor - 1) : KindFull(kind[queue[j]])'
    BY <2>a, <2>3, <2>4, <2>5 DEF TypeOK
  <2> QED
    BY <2>1, <2>2, <2>5, <2>6 DEF ScanInv
<1>3. ASSUME NEW t \in Threads, StartAcquire(t) PROVE ScanInv'
  <2>1. \A j \in 1..Len(queue) : queue[j] # t
    BY <1>3, QueuedTicket DEF StartAcquire, TicketPcs
  <2> QED
    BY <1>3, <2>1
    DEF StartAcquire, Goto, schedulerVars, sourceVars, TypeOK, ScanInv, KindFull
<1>4. ASSUME NEW t \in Threads, WaitFails(t) PROVE ScanInv'
  BY <1>4
  DEF WaitFails, Goto, schedulerVars, sourceVars, TypeOK, LockInv, ScanInv,
      KindFull
<1>5. ASSUME NEW t \in Threads, Finish(t) PROVE ScanInv'
  BY <1>5
  DEF Finish, Goto, schedulerVars, sourceVars, TypeOK, LockInv, ScanInv,
      KindFull
<1>7. ASSUME NEW t \in Threads, FirstPollPasses(t) PROVE ScanInv'
  BY <1>7
  DEF FirstPollPasses, Goto, schedulerVars, sourceVars, TypeOK, LockInv,
      ScanInv, KindFull
<1>8. ASSUME NEW t \in Threads, FirstPollThrows(t) PROVE ScanInv'
  <2>1. \A j \in 1..Len(queue) : queue[j] # t
    BY <1>8, QueuedTicket DEF FirstPollThrows, TicketPcs
  <2> QED
    BY <1>8, <2>1
    DEF FirstPollThrows, Leave, Goto, sourceVars, TypeOK, ScanInv, KindFull
<1>9. ASSUME NEW t \in Threads, PollClaims(t) PROVE ScanInv'
  BY <1>9
  DEF PollClaims, ClaimWith, schedulerVars, threadVars, TypeOK, LockInv,
      ScanInv, KindFull
<1>10. ASSUME NEW t \in Threads, AdmittedImmediately(t) PROVE ScanInv'
  BY <1>10
  DEF AdmittedImmediately, PumpedUnlock, PumpScanning, PumpAtEnd, Goto,
      sourceVars, TypeOK, LockInv, ScanInv, KindFull
<1>11. ASSUME NEW t \in Threads, Queued(t) PROVE ScanInv'
  BY <1>11
  DEF Queued, PumpedUnlock, PumpScanning, PumpAtEnd, Goto, sourceVars, TypeOK,
      LockInv, ScanInv, KindFull
<1>12. ASSUME NEW t \in Threads, InlineDone(t) PROVE ScanInv'
  BY <1>12
  DEF InlineDone, PumpedUnlock, PumpScanning, PumpAtEnd, Goto, TypeOK,
      LockInv, ScanInv, KindFull
<1>13. ASSUME NEW t \in Threads, Settle(t) PROVE ScanInv'
  BY <1>13
  DEF Settle, Goto, schedulerVars, sourceVars, TypeOK, LockInv, ScanInv,
      KindFull
<1>14. ASSUME NEW t \in Threads, Throw(t) PROVE ScanInv'
  <2>1. \A j \in 1..Len(queue) : queue[j] # t
    BY <1>14, QueuedTicket DEF Throw, TicketPcs
  <2> QED
    BY <1>14, <2>1
    DEF Throw, Leave, Goto, sourceVars, TypeOK, ScanInv, KindFull
<1>15. ASSUME NEW t \in Threads, RepollPasses(t) PROVE ScanInv'
  BY <1>15
  DEF RepollPasses, Goto, schedulerVars, sourceVars, TypeOK, LockInv, ScanInv,
      KindFull
<1>16. ASSUME NEW t \in Threads, RepollThrows(t) PROVE ScanInv'
  BY <1>16
  DEF RepollThrows, Goto, schedulerVars, sourceVars, TypeOK, LockInv, ScanInv,
      KindFull
<1>17. ASSUME NEW t \in Threads, ReleaseDone(t) PROVE ScanInv'
  BY <1>17
  DEF ReleaseDone, PumpedUnlock, PumpScanning, PumpAtEnd, Leave, Goto,
      sourceVars, TypeOK, LockInv, ScanInv, KindFull
<1>18. ASSUME NEW t \in Threads, Enqueue(t) PROVE ScanInv'
  BY <1>18
  DEF Enqueue, Goto, sourceVars, TypeOK, LockInv, ScanInv, KindFull
<1>19. ASSUME NEW t \in Threads, Register(t) PROVE ScanInv'
  BY <1>19
  DEF Register, Goto, schedulerVars, TypeOK, LockInv, ScanInv, KindFull
<1>20. ASSUME NEW t \in Threads, RegisterInline(t) PROVE ScanInv'
  BY <1>20
  DEF RegisterInline, Goto, schedulerVars, TypeOK, LockInv, ScanInv, KindFull
<1>21. ASSUME NEW t \in Threads, InlineCancels(t) PROVE ScanInv'
  BY <1>21
  DEF InlineCancels, CancelWaiterMark, Goto, sourceVars, TypeOK, LockInv,
      ScanInv, KindFull
<1>22. ASSUME NEW t \in Threads, InlineIgnored(t) PROVE ScanInv'
  BY <1>22
  DEF InlineIgnored, CancelWaiterIgnored, Goto, schedulerVars, TypeOK,
      LockInv, ScanInv, KindFull
<1>23. ASSUME NEW t \in Threads, WaitTest(t) PROVE ScanInv'
  BY <1>23
  DEF WaitTest, Goto, schedulerVars, sourceVars, TypeOK, LockInv, ScanInv,
      KindFull
<1>24. ASSUME NEW t \in Threads, Unregister(t) PROVE ScanInv'
  BY <1>24
  DEF Unregister, ResetRegistration, Goto, schedulerVars, TypeOK, LockInv,
      ScanInv, KindFull
<1>25. ASSUME NEW t \in Threads, ReleasePermit(t) PROVE ScanInv'
  BY <1>25
  DEF ReleasePermit, Goto, sourceVars, TypeOK, LockInv, ScanInv, KindFull
<1>26. ASSUME NEW t \in Threads, Unwind(t) PROVE ScanInv'
  BY <1>26
  DEF Unwind, ResetRegistration, Goto, schedulerVars, TypeOK, LockInv,
      ScanInv, KindFull
<1>27. ASSUME NEW t \in Threads, AbandonGranted(t) PROVE ScanInv'
  BY <1>27
  DEF AbandonGranted, Goto, schedulerVars, sourceVars, TypeOK, LockInv,
      ScanInv, KindFull
<1>28. ASSUME NEW t \in Threads, AbandonQueued(t) PROVE ScanInv'
  BY <1>28
  DEF AbandonQueued, Leave, Goto, sourceVars, TypeOK, LockInv, ScanInv,
      KindFull
<1>29. ASSUME NEW s \in Sources, ClaimLock(s) PROVE ScanInv'
  BY <1>29
  DEF ClaimLock, schedulerVars, threadVars, TypeOK, LockInv, ScanInv, KindFull
<1>30. ASSUME NEW s \in Sources, NEW w \in callbacks[s], CallbackCancels(s, w)
      PROVE  ScanInv'
  BY <1>30
  DEF CallbackCancels, CallNext, CancelWaiterMark, threadVars, TypeOK,
      LockInv, ScanInv, KindFull
<1>31. ASSUME NEW s \in Sources, NEW w \in callbacks[s], CallbackIgnored(s, w)
      PROVE  ScanInv'
  BY <1>31
  DEF CallbackIgnored, CallNext, CancelWaiterIgnored, schedulerVars,
      threadVars, TypeOK, LockInv, ScanInv, KindFull
<1>32. ASSUME NEW s \in Sources, ClaimNotify(s) PROVE ScanInv'
  BY <1>32
  DEF ClaimNotify, PumpedUnlock, PumpScanning, PumpAtEnd, Notify, TypeOK,
      LockInv, ScanInv, KindFull
<1>33. ASSUME NEW s \in Sources, ClaimFinish(s) PROVE ScanInv'
  BY <1>33
  DEF ClaimFinish, schedulerVars, threadVars, TypeOK, LockInv, ScanInv,
      KindFull
<1>34. ASSUME NEW s \in Sources, WatchdogClaim(s) PROVE ScanInv'
  BY <1>34
  DEF WatchdogClaim, ClaimWith, schedulerVars, threadVars, TypeOK, LockInv,
      ScanInv, KindFull
<1>35. ASSUME NEW s \in Sources, Cancel(s) PROVE ScanInv'
  BY <1>35
  DEF Cancel, ClaimWith, schedulerVars, threadVars, TypeOK, LockInv, ScanInv,
      KindFull
<1>36. ASSUME NEW s \in Sources, Expire(s) PROVE ScanInv'
  BY <1>36
  DEF Expire, schedulerVars, threadVars, TypeOK, LockInv, ScanInv, KindFull
<1>37. ASSUME NEW s \in Sources, NewSource(s) PROVE ScanInv'
  BY <1>37
  DEF NewSource, schedulerVars, threadVars, TypeOK, LockInv, ScanInv, KindFull
<1>38. CASE UNCHANGED vars
  BY <1>38
  DEF vars, schedulerVars, threadVars, sourceVars, TypeOK, LockInv, ScanInv,
      KindFull
<1> QED
  BY <1>1, <1>2, <1>3, <1>4, <1>5, <1>7, <1>8, <1>9, <1>10, <1>11,
      <1>12, <1>13, <1>14, <1>15, <1>16, <1>17, <1>18, <1>19, <1>20, <1>21,
      <1>22, <1>23, <1>24, <1>25, <1>26, <1>27, <1>28, <1>29, <1>30, <1>31,
      <1>32, <1>33, <1>34, <1>35, <1>36, <1>37, <1>38
  DEF Next, PumpLocked, OptionalStep, ThreadStep, LockingStep, ClaimStep,
      ClaimCall, Environment


(* No counter passes its limit.                                             *)
LEMMA CountersStep ==
    ASSUME TypeOK, CountersBounded, [Next]_vars
    PROVE  CountersBounded'
<1>1. CASE PumpSkip
  BY <1>1
  DEF PumpSkip, threadVars, sourceVars, TypeOK, CountersBounded
<1>2. CASE PumpGrant
  <2> DEFINE g == queue[cursor]
  <2>1. cursor \in 1..Len(queue) /\ ~GlobalFull
    BY <1>2 DEF PumpGrant, PumpScanning, PumpAtEnd, TypeOK
  <2>2. g \in Threads /\ kind[g] \in Kinds
    BY <2>1 DEF TypeOK
  <2>3. /\ ~KindFull(kind[g])
        /\ active' = active + 1
        /\ kindActive' = [kindActive EXCEPT ![kind[g]] = @ + 1]
    BY <1>2 DEF PumpGrant
  <2> HIDE DEF g
  <2>4. GlobalLimit # 0 => active' <= GlobalLimit
    BY <2>1, <2>3, LimitAssumption DEF GlobalFull, TypeOK
  <2>5. ASSUME NEW k \in Kinds, KindLimit[k] # 0
        PROVE  kindActive'[k] <= KindLimit[k]
    <3>1. KindLimit[k] \in Nat /\ kindActive[k] \in Nat /\ kindActive[k] <= KindLimit[k]
      BY <2>5, LimitAssumption DEF TypeOK, CountersBounded
    <3> QED
      BY <2>2, <2>3, <2>5, <3>1 DEF KindFull, TypeOK
  <2> QED
    BY <2>4, <2>5 DEF CountersBounded
<1>3. ASSUME NEW t \in Threads, StartAcquire(t) PROVE CountersBounded'
  BY <1>3
  DEF StartAcquire, Goto, Unlimited, schedulerVars, sourceVars, TypeOK,
      CountersBounded
<1>4. ASSUME NEW t \in Threads, WaitFails(t) PROVE CountersBounded'
  BY <1>4
  DEF WaitFails, Goto, schedulerVars, sourceVars, TypeOK, CountersBounded
<1>5. ASSUME NEW t \in Threads, Finish(t) PROVE CountersBounded'
  BY <1>5
  DEF Finish, Goto, schedulerVars, sourceVars, TypeOK, CountersBounded
<1>7. ASSUME NEW t \in Threads, FirstPollPasses(t) PROVE CountersBounded'
  BY <1>7
  DEF FirstPollPasses, Goto, schedulerVars, sourceVars, TypeOK,
      CountersBounded
<1>8. ASSUME NEW t \in Threads, FirstPollThrows(t) PROVE CountersBounded'
  BY <1>8
  DEF FirstPollThrows, Leave, Goto, sourceVars, TypeOK, CountersBounded
<1>9. ASSUME NEW t \in Threads, PollClaims(t) PROVE CountersBounded'
  BY <1>9
  DEF PollClaims, ClaimWith, schedulerVars, threadVars, TypeOK,
      CountersBounded
<1>10. ASSUME NEW t \in Threads, AdmittedImmediately(t) PROVE CountersBounded'
  BY <1>10
  DEF AdmittedImmediately, PumpedUnlock, Goto, sourceVars, TypeOK,
      CountersBounded
<1>11. ASSUME NEW t \in Threads, Queued(t) PROVE CountersBounded'
  BY <1>11
  DEF Queued, PumpedUnlock, Goto, sourceVars, TypeOK, CountersBounded
<1>12. ASSUME NEW t \in Threads, InlineDone(t) PROVE CountersBounded'
  BY <1>12
  DEF InlineDone, PumpedUnlock, Goto, TypeOK, CountersBounded
<1>13. ASSUME NEW t \in Threads, Settle(t) PROVE CountersBounded'
  BY <1>13
  DEF Settle, Goto, schedulerVars, sourceVars, TypeOK, CountersBounded
<1>14. ASSUME NEW t \in Threads, Throw(t) PROVE CountersBounded'
  BY <1>14
  DEF Throw, Leave, Goto, sourceVars, TypeOK, CountersBounded
<1>15. ASSUME NEW t \in Threads, RepollPasses(t) PROVE CountersBounded'
  BY <1>15
  DEF RepollPasses, Goto, schedulerVars, sourceVars, TypeOK, CountersBounded
<1>16. ASSUME NEW t \in Threads, RepollThrows(t) PROVE CountersBounded'
  BY <1>16
  DEF RepollThrows, Goto, schedulerVars, sourceVars, TypeOK, CountersBounded
<1>17. ASSUME NEW t \in Threads, ReleaseDone(t) PROVE CountersBounded'
  BY <1>17
  DEF ReleaseDone, PumpedUnlock, Leave, Goto, sourceVars, TypeOK,
      CountersBounded
<1>18. ASSUME NEW t \in Threads, Enqueue(t) PROVE CountersBounded'
  BY <1>18
  DEF Enqueue, Goto, sourceVars, TypeOK, CountersBounded
<1>19. ASSUME NEW t \in Threads, Register(t) PROVE CountersBounded'
  BY <1>19
  DEF Register, Goto, schedulerVars, TypeOK, CountersBounded
<1>20. ASSUME NEW t \in Threads, RegisterInline(t) PROVE CountersBounded'
  BY <1>20
  DEF RegisterInline, Goto, schedulerVars, TypeOK, CountersBounded
<1>21. ASSUME NEW t \in Threads, InlineCancels(t) PROVE CountersBounded'
  BY <1>21
  DEF InlineCancels, CancelWaiterMark, Goto, sourceVars, TypeOK,
      CountersBounded
<1>22. ASSUME NEW t \in Threads, InlineIgnored(t) PROVE CountersBounded'
  BY <1>22
  DEF InlineIgnored, CancelWaiterIgnored, Goto, schedulerVars, TypeOK,
      CountersBounded
<1>23. ASSUME NEW t \in Threads, WaitTest(t) PROVE CountersBounded'
  BY <1>23
  DEF WaitTest, Goto, schedulerVars, sourceVars, TypeOK, CountersBounded
<1>24. ASSUME NEW t \in Threads, Unregister(t) PROVE CountersBounded'
  BY <1>24
  DEF Unregister, ResetRegistration, Goto, schedulerVars, TypeOK,
      CountersBounded
<1>25. ASSUME NEW t \in Threads, ReleasePermit(t) PROVE CountersBounded'
  <2>1. GlobalLimit # 0 => active' <= GlobalLimit
    BY <1>25, LimitAssumption DEF ReleasePermit, TypeOK, CountersBounded
  <2>2. ASSUME NEW k \in Kinds, KindLimit[k] # 0
        PROVE  kindActive'[k] <= KindLimit[k]
    <3>1. KindLimit[k] \in Nat /\ kindActive[k] \in Nat /\ kindActive[k] <= KindLimit[k]
      BY <2>2, LimitAssumption DEF TypeOK, CountersBounded
    <3> QED
      BY <1>25, <3>1 DEF ReleasePermit, TypeOK
  <2> QED
    BY <2>1, <2>2 DEF CountersBounded
<1>26. ASSUME NEW t \in Threads, Unwind(t) PROVE CountersBounded'
  BY <1>26
  DEF Unwind, ResetRegistration, Goto, schedulerVars, TypeOK, CountersBounded
<1>27. ASSUME NEW t \in Threads, AbandonGranted(t) PROVE CountersBounded'
  BY <1>27
  DEF AbandonGranted, Goto, schedulerVars, sourceVars, TypeOK, CountersBounded
<1>28. ASSUME NEW t \in Threads, AbandonQueued(t) PROVE CountersBounded'
  BY <1>28
  DEF AbandonQueued, Leave, Goto, sourceVars, TypeOK, CountersBounded
<1>29. ASSUME NEW s \in Sources, ClaimLock(s) PROVE CountersBounded'
  BY <1>29
  DEF ClaimLock, schedulerVars, threadVars, TypeOK, CountersBounded
<1>30. ASSUME NEW s \in Sources, NEW w \in callbacks[s], CallbackCancels(s, w)
      PROVE  CountersBounded'
  BY <1>30
  DEF CallbackCancels, CallNext, CancelWaiterMark, threadVars, TypeOK,
      CountersBounded
<1>31. ASSUME NEW s \in Sources, NEW w \in callbacks[s], CallbackIgnored(s, w)
      PROVE  CountersBounded'
  BY <1>31
  DEF CallbackIgnored, CallNext, CancelWaiterIgnored, schedulerVars,
      threadVars, TypeOK, CountersBounded
<1>32. ASSUME NEW s \in Sources, ClaimNotify(s) PROVE CountersBounded'
  BY <1>32
  DEF ClaimNotify, PumpedUnlock, Notify, TypeOK, CountersBounded
<1>33. ASSUME NEW s \in Sources, ClaimFinish(s) PROVE CountersBounded'
  BY <1>33
  DEF ClaimFinish, schedulerVars, threadVars, TypeOK, CountersBounded
<1>34. ASSUME NEW s \in Sources, WatchdogClaim(s) PROVE CountersBounded'
  BY <1>34
  DEF WatchdogClaim, ClaimWith, schedulerVars, threadVars, TypeOK,
      CountersBounded
<1>35. ASSUME NEW s \in Sources, Cancel(s) PROVE CountersBounded'
  BY <1>35
  DEF Cancel, ClaimWith, schedulerVars, threadVars, TypeOK, CountersBounded
<1>36. ASSUME NEW s \in Sources, Expire(s) PROVE CountersBounded'
  BY <1>36
  DEF Expire, schedulerVars, threadVars, TypeOK, CountersBounded
<1>37. ASSUME NEW s \in Sources, NewSource(s) PROVE CountersBounded'
  BY <1>37
  DEF NewSource, schedulerVars, threadVars, TypeOK, CountersBounded
<1>38. CASE UNCHANGED vars
  BY <1>38
  DEF vars, schedulerVars, threadVars, sourceVars, TypeOK, CountersBounded
<1> QED
  BY <1>1, <1>2, <1>3, <1>4, <1>5, <1>7, <1>8, <1>9, <1>10, <1>11,
      <1>12, <1>13, <1>14, <1>15, <1>16, <1>17, <1>18, <1>19, <1>20, <1>21,
      <1>22, <1>23, <1>24, <1>25, <1>26, <1>27, <1>28, <1>29, <1>30, <1>31,
      <1>32, <1>33, <1>34, <1>35, <1>36, <1>37, <1>38
  DEF Next, PumpLocked, OptionalStep, ThreadStep, LockingStep, ClaimStep,
      ClaimCall, Environment

LEMMA HoldersFinite ==
    ASSUME TypeOK
    PROVE  /\ IsFiniteSet(Holders) /\ Cardinality(Holders) \in Nat
           /\ \A k : IsFiniteSet(HoldersOf(k)) /\ Cardinality(HoldersOf(k)) \in Nat
<1>1. Holders \subseteq Threads /\ \A k : HoldersOf(k) \subseteq Threads
  BY DEF Holders, HoldersOf
<1>2. IsFiniteSet(Holders) /\ \A k : IsFiniteSet(HoldersOf(k))
  BY <1>1, ThreadsAssumption, FS_Subset
<1> QED
  BY <1>2, FS_CardinalityType

(* The counters keep counting the permits: one more for each grant, one    *)
(* less for each release, and no other step touches either side.           *)
LEMMA PermitStep ==
    ASSUME TypeOK, WaiterInv, QueueIsTheWaiters, PermitAccounting, [Next]_vars
    PROVE  PermitAccounting'
<1>1. CASE PumpSkip
  <2>1. /\ UNCHANGED <<active, kindActive>> /\ Holders' = Holders
        /\ \A k \in Kinds : HoldersOf(k)' = HoldersOf(k)
    BY
      <1>1
    DEF PumpSkip, threadVars, sourceVars, TypeOK, WaiterInv, Holders,
      HoldersOf, PermitPcs
  <2> QED
    BY <2>1 DEF PermitAccounting
<1>2. CASE PumpGrant
  <2> DEFINE g == queue[cursor]
  <2>1. cursor \in 1..Len(queue)
    BY <1>2 DEF PumpGrant, PumpScanning, PumpAtEnd, TypeOK
  <2>2. g \in Threads /\ pc[g] \in TicketPcs /\ ~granted[g]
    BY <2>1, QueuedTicket
  <2>3. /\ active' = active + 1
        /\ kindActive' = [kindActive EXCEPT ![kind[g]] = @ + 1]
        /\ granted' = [granted EXCEPT ![g] = TRUE]
        /\ pc' = Notify(g, pc)
        /\ UNCHANGED kind
    BY <1>2 DEF PumpGrant
  <2> HIDE DEF g
  <2>4. \A u \in Threads : pc'[u] \in PermitPcs <=> pc[u] \in PermitPcs
    BY <2>2, <2>3 DEF Notify, TypeOK, PermitPcs
  <2>5. g \notin Holders /\ Holders' = Holders \cup {g}
    BY <2>2, <2>3, <2>4 DEF Holders, TypeOK, TicketPcs, PermitPcs
  <2>6. Cardinality(Holders') = Cardinality(Holders) + 1
    BY <2>5, HoldersFinite, FS_AddElement
  <2>7. ASSUME NEW k \in Kinds
        PROVE  kindActive'[k] = Cardinality(HoldersOf(k)')
    <3>1. CASE kind[g] = k
      <4>1. g \notin HoldersOf(k) /\ HoldersOf(k)' = HoldersOf(k) \cup {g}
        BY <2>3, <2>5, <3>1 DEF HoldersOf
      <4>2. Cardinality(HoldersOf(k)') = Cardinality(HoldersOf(k)) + 1
        BY <4>1, HoldersFinite, FS_AddElement
      <4> QED
        BY <2>3, <3>1, <4>2 DEF PermitAccounting, TypeOK
    <3>2. CASE kind[g] # k
      <4>1. HoldersOf(k)' = HoldersOf(k)
        BY <2>3, <2>5, <3>2 DEF HoldersOf
      <4> QED
        BY <2>3, <3>2, <4>1 DEF PermitAccounting, TypeOK
    <3> QED
      BY <3>1, <3>2
  <2> QED
    BY <2>3, <2>6, <2>7 DEF PermitAccounting
<1>3. ASSUME NEW t \in Threads, StartAcquire(t) PROVE PermitAccounting'
  <2>1. /\ UNCHANGED <<active, kindActive>> /\ Holders' = Holders
        /\ \A k \in Kinds : HoldersOf(k)' = HoldersOf(k)
    BY
      <1>3
    DEF StartAcquire, Goto, Unlimited, schedulerVars, sourceVars, TypeOK,
      WaiterInv, Holders, HoldersOf, PermitPcs
  <2> QED
    BY <2>1 DEF PermitAccounting
<1>4. ASSUME NEW t \in Threads, WaitFails(t) PROVE PermitAccounting'
  <2>1. /\ UNCHANGED <<active, kindActive>> /\ Holders' = Holders
        /\ \A k \in Kinds : HoldersOf(k)' = HoldersOf(k)
    BY
      <1>4
    DEF WaitFails, Goto, schedulerVars, sourceVars, TypeOK, WaiterInv,
      Holders, HoldersOf, PermitPcs
  <2> QED
    BY <2>1 DEF PermitAccounting
<1>5. ASSUME NEW t \in Threads, Finish(t) PROVE PermitAccounting'
  <2>1. /\ UNCHANGED <<active, kindActive>> /\ Holders' = Holders
        /\ \A k \in Kinds : HoldersOf(k)' = HoldersOf(k)
    BY
      <1>5
    DEF Finish, Goto, schedulerVars, sourceVars, TypeOK, WaiterInv, Holders,
      HoldersOf, PermitPcs
  <2> QED
    BY <2>1 DEF PermitAccounting
<1>7. ASSUME NEW t \in Threads, FirstPollPasses(t) PROVE PermitAccounting'
  <2>1. /\ UNCHANGED <<active, kindActive>> /\ Holders' = Holders
        /\ \A k \in Kinds : HoldersOf(k)' = HoldersOf(k)
    BY
      <1>7
    DEF FirstPollPasses, Goto, schedulerVars, sourceVars, TypeOK, WaiterInv,
      Holders, HoldersOf, PermitPcs
  <2> QED
    BY <2>1 DEF PermitAccounting
<1>8. ASSUME NEW t \in Threads, FirstPollThrows(t) PROVE PermitAccounting'
  <2>1. /\ UNCHANGED <<active, kindActive>> /\ Holders' = Holders
        /\ \A k \in Kinds : HoldersOf(k)' = HoldersOf(k)
    BY
      <1>8
    DEF FirstPollThrows, Leave, Goto, sourceVars, TypeOK, WaiterInv, Holders,
      HoldersOf, PermitPcs
  <2> QED
    BY <2>1 DEF PermitAccounting
<1>9. ASSUME NEW t \in Threads, PollClaims(t) PROVE PermitAccounting'
  <2>1. /\ UNCHANGED <<active, kindActive>> /\ Holders' = Holders
        /\ \A k \in Kinds : HoldersOf(k)' = HoldersOf(k)
    BY
      <1>9
    DEF PollClaims, ClaimWith, schedulerVars, threadVars, TypeOK, WaiterInv,
      Holders, HoldersOf, PermitPcs
  <2> QED
    BY <2>1 DEF PermitAccounting
<1>10. ASSUME NEW t \in Threads, AdmittedImmediately(t) PROVE PermitAccounting'
  <2>1. /\ UNCHANGED <<active, kindActive>> /\ Holders' = Holders
        /\ \A k \in Kinds : HoldersOf(k)' = HoldersOf(k)
    BY
      <1>10
    DEF AdmittedImmediately, PumpedUnlock, Goto, sourceVars, TypeOK,
      WaiterInv, Holders, HoldersOf, PermitPcs
  <2> QED
    BY <2>1 DEF PermitAccounting
<1>11. ASSUME NEW t \in Threads, Queued(t) PROVE PermitAccounting'
  <2>1. /\ UNCHANGED <<active, kindActive>> /\ Holders' = Holders
        /\ \A k \in Kinds : HoldersOf(k)' = HoldersOf(k)
    BY
      <1>11
    DEF Queued, PumpedUnlock, Goto, sourceVars, TypeOK, WaiterInv, Holders,
      HoldersOf, PermitPcs
  <2> QED
    BY <2>1 DEF PermitAccounting
<1>12. ASSUME NEW t \in Threads, InlineDone(t) PROVE PermitAccounting'
  <2>1. /\ UNCHANGED <<active, kindActive>> /\ Holders' = Holders
        /\ \A k \in Kinds : HoldersOf(k)' = HoldersOf(k)
    BY
      <1>12
    DEF InlineDone, PumpedUnlock, Goto, TypeOK, WaiterInv, Holders, HoldersOf,
      PermitPcs
  <2> QED
    BY <2>1 DEF PermitAccounting
<1>13. ASSUME NEW t \in Threads, Settle(t) PROVE PermitAccounting'
  <2>1. /\ UNCHANGED <<active, kindActive>> /\ Holders' = Holders
        /\ \A k \in Kinds : HoldersOf(k)' = HoldersOf(k)
    BY
      <1>13
    DEF Settle, Goto, schedulerVars, sourceVars, TypeOK, WaiterInv, Holders,
      HoldersOf, PermitPcs
  <2> QED
    BY <2>1 DEF PermitAccounting
<1>14. ASSUME NEW t \in Threads, Throw(t) PROVE PermitAccounting'
  <2>1. /\ UNCHANGED <<active, kindActive>> /\ Holders' = Holders
        /\ \A k \in Kinds : HoldersOf(k)' = HoldersOf(k)
    BY
      <1>14
    DEF Throw, Leave, Goto, sourceVars, TypeOK, WaiterInv, Holders, HoldersOf,
      PermitPcs
  <2> QED
    BY <2>1 DEF PermitAccounting
<1>15. ASSUME NEW t \in Threads, RepollPasses(t) PROVE PermitAccounting'
  <2>1. /\ UNCHANGED <<active, kindActive>> /\ Holders' = Holders
        /\ \A k \in Kinds : HoldersOf(k)' = HoldersOf(k)
    BY
      <1>15
    DEF RepollPasses, Goto, schedulerVars, sourceVars, TypeOK, WaiterInv,
      Holders, HoldersOf, PermitPcs
  <2> QED
    BY <2>1 DEF PermitAccounting
<1>16. ASSUME NEW t \in Threads, RepollThrows(t) PROVE PermitAccounting'
  <2>1. /\ UNCHANGED <<active, kindActive>> /\ Holders' = Holders
        /\ \A k \in Kinds : HoldersOf(k)' = HoldersOf(k)
    BY
      <1>16
    DEF RepollThrows, Goto, schedulerVars, sourceVars, TypeOK, WaiterInv,
      Holders, HoldersOf, PermitPcs
  <2> QED
    BY <2>1 DEF PermitAccounting
<1>17. ASSUME NEW t \in Threads, ReleaseDone(t) PROVE PermitAccounting'
  <2>1. /\ UNCHANGED <<active, kindActive>> /\ Holders' = Holders
        /\ \A k \in Kinds : HoldersOf(k)' = HoldersOf(k)
    BY
      <1>17
    DEF ReleaseDone, PumpedUnlock, Leave, Goto, sourceVars, TypeOK, WaiterInv,
      Holders, HoldersOf, PermitPcs
  <2> QED
    BY <2>1 DEF PermitAccounting
<1>18. ASSUME NEW t \in Threads, Enqueue(t) PROVE PermitAccounting'
  <2>1. /\ UNCHANGED <<active, kindActive>> /\ Holders' = Holders
        /\ \A k \in Kinds : HoldersOf(k)' = HoldersOf(k)
    BY
      <1>18
    DEF Enqueue, Goto, sourceVars, TypeOK, WaiterInv, Holders, HoldersOf,
      PermitPcs
  <2> QED
    BY <2>1 DEF PermitAccounting
<1>19. ASSUME NEW t \in Threads, Register(t) PROVE PermitAccounting'
  <2>1. /\ UNCHANGED <<active, kindActive>> /\ Holders' = Holders
        /\ \A k \in Kinds : HoldersOf(k)' = HoldersOf(k)
    BY
      <1>19
    DEF Register, Goto, schedulerVars, TypeOK, WaiterInv, Holders, HoldersOf,
      PermitPcs
  <2> QED
    BY <2>1 DEF PermitAccounting
<1>20. ASSUME NEW t \in Threads, RegisterInline(t) PROVE PermitAccounting'
  <2>1. /\ UNCHANGED <<active, kindActive>> /\ Holders' = Holders
        /\ \A k \in Kinds : HoldersOf(k)' = HoldersOf(k)
    BY
      <1>20
    DEF RegisterInline, Goto, schedulerVars, TypeOK, WaiterInv, Holders,
      HoldersOf, PermitPcs
  <2> QED
    BY <2>1 DEF PermitAccounting
<1>21. ASSUME NEW t \in Threads, InlineCancels(t) PROVE PermitAccounting'
  <2>1. /\ UNCHANGED <<active, kindActive>> /\ Holders' = Holders
        /\ \A k \in Kinds : HoldersOf(k)' = HoldersOf(k)
    BY
      <1>21
    DEF InlineCancels, CancelWaiterMark, Goto, sourceVars, TypeOK, WaiterInv,
      Holders, HoldersOf, PermitPcs
  <2> QED
    BY <2>1 DEF PermitAccounting
<1>22. ASSUME NEW t \in Threads, InlineIgnored(t) PROVE PermitAccounting'
  <2>1. /\ UNCHANGED <<active, kindActive>> /\ Holders' = Holders
        /\ \A k \in Kinds : HoldersOf(k)' = HoldersOf(k)
    BY
      <1>22
    DEF InlineIgnored, CancelWaiterIgnored, Goto, schedulerVars, TypeOK,
      WaiterInv, Holders, HoldersOf, PermitPcs
  <2> QED
    BY <2>1 DEF PermitAccounting
<1>23. ASSUME NEW t \in Threads, WaitTest(t) PROVE PermitAccounting'
  <2>1. /\ UNCHANGED <<active, kindActive>> /\ Holders' = Holders
        /\ \A k \in Kinds : HoldersOf(k)' = HoldersOf(k)
    BY
      <1>23
    DEF WaitTest, Goto, schedulerVars, sourceVars, TypeOK, WaiterInv, Holders,
      HoldersOf, PermitPcs
  <2> QED
    BY <2>1 DEF PermitAccounting
<1>24. ASSUME NEW t \in Threads, Unregister(t) PROVE PermitAccounting'
  <2>1. /\ UNCHANGED <<active, kindActive>> /\ Holders' = Holders
        /\ \A k \in Kinds : HoldersOf(k)' = HoldersOf(k)
    BY
      <1>24
    DEF Unregister, ResetRegistration, Goto, schedulerVars, TypeOK, WaiterInv,
      Holders, HoldersOf, PermitPcs
  <2> QED
    BY <2>1 DEF PermitAccounting
<1>25. ASSUME NEW t \in Threads, ReleasePermit(t) PROVE PermitAccounting'
  <2>1. /\ active' = IF active > 0 THEN active - 1 ELSE active
        /\ kindActive' = [kindActive EXCEPT ![kind[t]] = IF @ > 0 THEN @ - 1 ELSE @]
        /\ pc[t] = "release" /\ pc' = [pc EXCEPT ![t] = "releasing"]
        /\ UNCHANGED <<granted, kind>>
    BY <1>25 DEF ReleasePermit, Goto
  <2>2. t \in Holders /\ Holders' = Holders \ {t}
    BY <2>1 DEF Holders, PermitPcs, TypeOK, WaiterInv
  <2>3. /\ Cardinality(Holders') = Cardinality(Holders) - 1
        /\ Cardinality(Holders') \in Nat
    BY <2>2, HoldersFinite, FS_RemoveElement, FS_CardinalityType
  <2>4. active' = Cardinality(Holders')
    BY <2>1, <2>3 DEF PermitAccounting, TypeOK
  <2>5. ASSUME NEW k \in Kinds
        PROVE  kindActive'[k] = Cardinality(HoldersOf(k)')
    <3>1. CASE kind[t] = k
      <4>1. t \in HoldersOf(k) /\ HoldersOf(k)' = HoldersOf(k) \ {t}
        BY <2>1, <2>2, <3>1 DEF HoldersOf
      <4>2. /\ Cardinality(HoldersOf(k)') = Cardinality(HoldersOf(k)) - 1
            /\ Cardinality(HoldersOf(k)') \in Nat
        BY <4>1, HoldersFinite, FS_RemoveElement, FS_CardinalityType
      <4> QED
        BY <2>1, <3>1, <4>2 DEF PermitAccounting, TypeOK
    <3>2. CASE kind[t] # k
      <4>1. HoldersOf(k)' = HoldersOf(k)
        BY <2>1, <2>2, <3>2 DEF HoldersOf
      <4> QED
        BY <2>1, <3>2, <4>1 DEF PermitAccounting, TypeOK
    <3> QED
      BY <3>1, <3>2
  <2> QED
    BY <2>4, <2>5 DEF PermitAccounting
<1>26. ASSUME NEW t \in Threads, Unwind(t) PROVE PermitAccounting'
  <2>1. /\ UNCHANGED <<active, kindActive>> /\ Holders' = Holders
        /\ \A k \in Kinds : HoldersOf(k)' = HoldersOf(k)
    BY
      <1>26
    DEF Unwind, ResetRegistration, Goto, schedulerVars, TypeOK, WaiterInv,
      Holders, HoldersOf, PermitPcs
  <2> QED
    BY <2>1 DEF PermitAccounting
<1>27. ASSUME NEW t \in Threads, AbandonGranted(t) PROVE PermitAccounting'
  <2>1. /\ UNCHANGED <<active, kindActive>> /\ Holders' = Holders
        /\ \A k \in Kinds : HoldersOf(k)' = HoldersOf(k)
    BY
      <1>27
    DEF AbandonGranted, Goto, schedulerVars, sourceVars, TypeOK, WaiterInv,
      Holders, HoldersOf, PermitPcs
  <2> QED
    BY <2>1 DEF PermitAccounting
<1>28. ASSUME NEW t \in Threads, AbandonQueued(t) PROVE PermitAccounting'
  <2>1. /\ UNCHANGED <<active, kindActive>> /\ Holders' = Holders
        /\ \A k \in Kinds : HoldersOf(k)' = HoldersOf(k)
    BY
      <1>28
    DEF AbandonQueued, Leave, Goto, sourceVars, TypeOK, WaiterInv, Holders,
      HoldersOf, PermitPcs
  <2> QED
    BY <2>1 DEF PermitAccounting
<1>29. ASSUME NEW s \in Sources, ClaimLock(s) PROVE PermitAccounting'
  <2>1. /\ UNCHANGED <<active, kindActive>> /\ Holders' = Holders
        /\ \A k \in Kinds : HoldersOf(k)' = HoldersOf(k)
    BY
      <1>29
    DEF ClaimLock, schedulerVars, threadVars, TypeOK, WaiterInv, Holders,
      HoldersOf, PermitPcs
  <2> QED
    BY <2>1 DEF PermitAccounting
<1>30. ASSUME NEW s \in Sources, NEW w \in callbacks[s], CallbackCancels(s, w)
      PROVE  PermitAccounting'
  <2>1. /\ UNCHANGED <<active, kindActive>> /\ Holders' = Holders
        /\ \A k \in Kinds : HoldersOf(k)' = HoldersOf(k)
    BY
      <1>30
    DEF CallbackCancels, CallNext, CancelWaiterMark, threadVars, TypeOK,
      WaiterInv, Holders, HoldersOf, PermitPcs
  <2> QED
    BY <2>1 DEF PermitAccounting
<1>31. ASSUME NEW s \in Sources, NEW w \in callbacks[s], CallbackIgnored(s, w)
      PROVE  PermitAccounting'
  <2>1. /\ UNCHANGED <<active, kindActive>> /\ Holders' = Holders
        /\ \A k \in Kinds : HoldersOf(k)' = HoldersOf(k)
    BY
      <1>31
    DEF CallbackIgnored, CallNext, CancelWaiterIgnored, schedulerVars,
      threadVars, TypeOK, WaiterInv, Holders, HoldersOf, PermitPcs
  <2> QED
    BY <2>1 DEF PermitAccounting
<1>32. ASSUME NEW s \in Sources, ClaimNotify(s) PROVE PermitAccounting'
  <2>1. /\ UNCHANGED <<active, kindActive>> /\ Holders' = Holders
        /\ \A k \in Kinds : HoldersOf(k)' = HoldersOf(k)
    BY
      <1>32
    DEF ClaimNotify, PumpedUnlock, Notify, TypeOK, WaiterInv, Holders,
      HoldersOf, PermitPcs
  <2> QED
    BY <2>1 DEF PermitAccounting
<1>33. ASSUME NEW s \in Sources, ClaimFinish(s) PROVE PermitAccounting'
  <2>1. /\ UNCHANGED <<active, kindActive>> /\ Holders' = Holders
        /\ \A k \in Kinds : HoldersOf(k)' = HoldersOf(k)
    BY
      <1>33
    DEF ClaimFinish, schedulerVars, threadVars, TypeOK, WaiterInv, Holders,
      HoldersOf, PermitPcs
  <2> QED
    BY <2>1 DEF PermitAccounting
<1>34. ASSUME NEW s \in Sources, WatchdogClaim(s) PROVE PermitAccounting'
  <2>1. /\ UNCHANGED <<active, kindActive>> /\ Holders' = Holders
        /\ \A k \in Kinds : HoldersOf(k)' = HoldersOf(k)
    BY
      <1>34
    DEF WatchdogClaim, ClaimWith, schedulerVars, threadVars, TypeOK,
      WaiterInv, Holders, HoldersOf, PermitPcs
  <2> QED
    BY <2>1 DEF PermitAccounting
<1>35. ASSUME NEW s \in Sources, Cancel(s) PROVE PermitAccounting'
  <2>1. /\ UNCHANGED <<active, kindActive>> /\ Holders' = Holders
        /\ \A k \in Kinds : HoldersOf(k)' = HoldersOf(k)
    BY
      <1>35
    DEF Cancel, ClaimWith, schedulerVars, threadVars, TypeOK, WaiterInv,
      Holders, HoldersOf, PermitPcs
  <2> QED
    BY <2>1 DEF PermitAccounting
<1>36. ASSUME NEW s \in Sources, Expire(s) PROVE PermitAccounting'
  <2>1. /\ UNCHANGED <<active, kindActive>> /\ Holders' = Holders
        /\ \A k \in Kinds : HoldersOf(k)' = HoldersOf(k)
    BY
      <1>36
    DEF Expire, schedulerVars, threadVars, TypeOK, WaiterInv, Holders,
      HoldersOf, PermitPcs
  <2> QED
    BY <2>1 DEF PermitAccounting
<1>37. ASSUME NEW s \in Sources, NewSource(s) PROVE PermitAccounting'
  <2>1. /\ UNCHANGED <<active, kindActive>> /\ Holders' = Holders
        /\ \A k \in Kinds : HoldersOf(k)' = HoldersOf(k)
    BY
      <1>37
    DEF NewSource, schedulerVars, threadVars, TypeOK, WaiterInv, Holders,
      HoldersOf, PermitPcs
  <2> QED
    BY <2>1 DEF PermitAccounting
<1>38. CASE UNCHANGED vars
  BY <1>38
  DEF vars, schedulerVars, threadVars, sourceVars, PermitAccounting, Holders,
      HoldersOf
<1> QED
  BY <1>1, <1>2, <1>3, <1>4, <1>5, <1>7, <1>8, <1>9, <1>10, <1>11,
      <1>12, <1>13, <1>14, <1>15, <1>16, <1>17, <1>18, <1>19, <1>20, <1>21,
      <1>22, <1>23, <1>24, <1>25, <1>26, <1>27, <1>28, <1>29, <1>30, <1>31,
      <1>32, <1>33, <1>34, <1>35, <1>36, <1>37, <1>38
  DEF Next, PumpLocked, OptionalStep, ThreadStep, LockingStep, ClaimStep,
      ClaimCall, Environment


(* The scheduler never gives its mutex back with work it could admit.      *)
LEMMA WorkStep ==
    ASSUME TypeOK, LockInv, QueueIsTheWaiters, ScanInv, WorkConserving, [Next]_vars
    PROVE  WorkConserving'
<1>1. CASE PumpSkip
  BY <1>1
  DEF PumpSkip, PumpScanning, PumpAtEnd, KindFull, GlobalFull, threadVars,
      sourceVars, TypeOK, WorkConserving
<1>2. CASE PumpGrant
  BY <1>2
  DEF PumpGrant, PumpScanning, PumpAtEnd, KindFull, GlobalFull, Notify,
      sourceVars, TypeOK, WorkConserving
<1>3. ASSUME NEW t \in Threads, StartAcquire(t) PROVE WorkConserving'
  <2>1. \A j \in 1..Len(queue) : queue[j] # t
    BY <1>3, QueuedTicket DEF StartAcquire, TicketPcs
  <2> QED
    BY <1>3, <2>1
    DEF StartAcquire, Goto, Unlimited, schedulerVars, sourceVars, TypeOK, WorkConserving, GlobalFull, KindFull
<1>4. ASSUME NEW t \in Threads, WaitFails(t) PROVE WorkConserving'
  BY <1>4
  DEF WaitFails, Goto, schedulerVars, sourceVars, TypeOK, WorkConserving,
      GlobalFull, KindFull
<1>5. ASSUME NEW t \in Threads, Finish(t) PROVE WorkConserving'
  BY <1>5
  DEF Finish, Goto, schedulerVars, sourceVars, TypeOK, WorkConserving,
      GlobalFull, KindFull
<1>7. ASSUME NEW t \in Threads, FirstPollPasses(t) PROVE WorkConserving'
  BY <1>7
  DEF FirstPollPasses, Goto, schedulerVars, sourceVars, TypeOK,
      WorkConserving, GlobalFull, KindFull
<1>8. ASSUME NEW t \in Threads, FirstPollThrows(t) PROVE WorkConserving'
  <2>1. \A j \in 1..Len(queue) : queue[j] # t
    BY <1>8, QueuedTicket DEF FirstPollThrows, TicketPcs
  <2> QED
    BY <1>8, <2>1
    DEF FirstPollThrows, Leave, Goto, sourceVars, TypeOK, WorkConserving, GlobalFull, KindFull
<1>9. ASSUME NEW t \in Threads, PollClaims(t) PROVE WorkConserving'
  BY <1>9
  DEF PollClaims, ClaimWith, schedulerVars, threadVars, TypeOK,
      WorkConserving, GlobalFull, KindFull
<1>10. ASSUME NEW t \in Threads, AdmittedImmediately(t) PROVE WorkConserving'
  <2>1. /\ GlobalFull \/ cursor > Len(queue)
        /\ \A j \in 1..(cursor - 1) : KindFull(kind[queue[j]])
    BY <1>10 DEF AdmittedImmediately, PumpedUnlock, PumpScanning, PumpAtEnd, ScanInv
  <2>2. GlobalFull \/ \A j \in 1..Len(queue) : KindFull(kind[queue[j]])
    BY <2>1 DEF TypeOK
  <2> QED
    BY <1>10, <2>2
    DEF AdmittedImmediately, Goto, sourceVars, TypeOK, WorkConserving, GlobalFull, KindFull
<1>11. ASSUME NEW t \in Threads, Queued(t) PROVE WorkConserving'
  <2>1. /\ GlobalFull \/ cursor > Len(queue)
        /\ \A j \in 1..(cursor - 1) : KindFull(kind[queue[j]])
    BY <1>11 DEF Queued, PumpedUnlock, PumpScanning, PumpAtEnd, ScanInv
  <2>2. GlobalFull \/ \A j \in 1..Len(queue) : KindFull(kind[queue[j]])
    BY <2>1 DEF TypeOK
  <2> QED
    BY <1>11, <2>2
    DEF Queued, Goto, sourceVars, TypeOK, WorkConserving, GlobalFull, KindFull
<1>12. ASSUME NEW t \in Threads, InlineDone(t) PROVE WorkConserving'
  <2>1. /\ GlobalFull \/ cursor > Len(queue)
        /\ \A j \in 1..(cursor - 1) : KindFull(kind[queue[j]])
    BY <1>12 DEF InlineDone, PumpedUnlock, PumpScanning, PumpAtEnd, ScanInv
  <2>2. GlobalFull \/ \A j \in 1..Len(queue) : KindFull(kind[queue[j]])
    BY <2>1 DEF TypeOK
  <2> QED
    BY <1>12, <2>2
    DEF InlineDone, Goto, TypeOK, WorkConserving, GlobalFull, KindFull
<1>13. ASSUME NEW t \in Threads, Settle(t) PROVE WorkConserving'
  BY <1>13
  DEF Settle, Goto, schedulerVars, sourceVars, TypeOK, WorkConserving,
      GlobalFull, KindFull
<1>14. ASSUME NEW t \in Threads, Throw(t) PROVE WorkConserving'
  <2>1. \A j \in 1..Len(queue) : queue[j] # t
    BY <1>14, QueuedTicket DEF Throw, TicketPcs
  <2> QED
    BY <1>14, <2>1
    DEF Throw, Leave, Goto, sourceVars, TypeOK, WorkConserving, GlobalFull, KindFull
<1>15. ASSUME NEW t \in Threads, RepollPasses(t) PROVE WorkConserving'
  BY <1>15
  DEF RepollPasses, Goto, schedulerVars, sourceVars, TypeOK, WorkConserving,
      GlobalFull, KindFull
<1>16. ASSUME NEW t \in Threads, RepollThrows(t) PROVE WorkConserving'
  BY <1>16
  DEF RepollThrows, Goto, schedulerVars, sourceVars, TypeOK, WorkConserving,
      GlobalFull, KindFull
<1>17. ASSUME NEW t \in Threads, ReleaseDone(t) PROVE WorkConserving'
  <2>1. /\ GlobalFull \/ cursor > Len(queue)
        /\ \A j \in 1..(cursor - 1) : KindFull(kind[queue[j]])
    BY <1>17 DEF ReleaseDone, PumpedUnlock, PumpScanning, PumpAtEnd, ScanInv
  <2>2. GlobalFull \/ \A j \in 1..Len(queue) : KindFull(kind[queue[j]])
    BY <2>1 DEF TypeOK
  <2>3. \A j \in 1..Len(queue) : queue[j] # t
    BY <1>17, QueuedTicket DEF ReleaseDone, TicketPcs
  <2> QED
    BY <1>17, <2>2, <2>3
    DEF ReleaseDone, Leave, Goto, sourceVars, TypeOK, WorkConserving, GlobalFull, KindFull
<1>18. ASSUME NEW t \in Threads, Enqueue(t) PROVE WorkConserving'
  BY <1>18, ActorAssumption
  DEF Enqueue, Goto, sourceVars, TypeOK, WorkConserving, GlobalFull, KindFull
<1>19. ASSUME NEW t \in Threads, Register(t) PROVE WorkConserving'
  BY <1>19
  DEF Register, Goto, schedulerVars, TypeOK, WorkConserving, GlobalFull,
      KindFull
<1>20. ASSUME NEW t \in Threads, RegisterInline(t) PROVE WorkConserving'
  BY <1>20
  DEF RegisterInline, Goto, schedulerVars, TypeOK, WorkConserving, GlobalFull,
      KindFull
<1>21. ASSUME NEW t \in Threads, InlineCancels(t) PROVE WorkConserving'
  BY <1>21, ActorAssumption
  DEF InlineCancels, CancelWaiterMark, Goto, sourceVars, TypeOK,
      WorkConserving, GlobalFull, KindFull
<1>22. ASSUME NEW t \in Threads, InlineIgnored(t) PROVE WorkConserving'
  BY <1>22
  DEF InlineIgnored, CancelWaiterIgnored, Goto, schedulerVars, TypeOK,
      WorkConserving, GlobalFull, KindFull
<1>23. ASSUME NEW t \in Threads, WaitTest(t) PROVE WorkConserving'
  BY <1>23
  DEF WaitTest, Goto, schedulerVars, sourceVars, TypeOK, WorkConserving,
      GlobalFull, KindFull
<1>24. ASSUME NEW t \in Threads, Unregister(t) PROVE WorkConserving'
  BY <1>24
  DEF Unregister, ResetRegistration, Goto, schedulerVars, TypeOK,
      WorkConserving, GlobalFull, KindFull
<1>25. ASSUME NEW t \in Threads, ReleasePermit(t) PROVE WorkConserving'
  BY <1>25, ActorAssumption
  DEF ReleasePermit, Goto, sourceVars, TypeOK, WorkConserving, GlobalFull,
      KindFull
<1>26. ASSUME NEW t \in Threads, Unwind(t) PROVE WorkConserving'
  BY <1>26
  DEF Unwind, ResetRegistration, Goto, schedulerVars, TypeOK, WorkConserving,
      GlobalFull, KindFull
<1>27. ASSUME NEW t \in Threads, AbandonGranted(t) PROVE WorkConserving'
  BY <1>27
  DEF AbandonGranted, Goto, schedulerVars, sourceVars, TypeOK, WorkConserving,
      GlobalFull, KindFull
<1>28. ASSUME NEW t \in Threads, AbandonQueued(t) PROVE WorkConserving'
  <2>1. ToSet(queue') \subseteq ToSet(queue) \ {t} /\ queue' \in Seq(Threads)
    <3>1. CASE cancelled[t]
      BY <1>28, <3>1 DEF AbandonQueued, QueueIsTheWaiters, TypeOK
    <3>2. CASE ~cancelled[t]
      BY <1>28, <3>2, WithoutSet, WithoutType
      DEF AbandonQueued, QueueIsTheWaiters, TypeOK
    <3> QED
      BY <3>1, <3>2
  <2>2. GlobalFull \/ \A x \in ToSet(queue) : KindFull(kind[x])
    <3>1. GlobalFull \/ \A j \in 1..Len(queue) : KindFull(kind[queue[j]])
      BY <1>28 DEF AbandonQueued, WorkConserving
    <3>2. DOMAIN queue = 1..Len(queue)
      BY DEF TypeOK
    <3> QED
      BY <3>1, <3>2 DEF ToSet
  <2>3. \A j \in 1..Len(queue') : queue'[j] \in ToSet(queue) /\ queue'[j] # t
    <3>1. DOMAIN queue' = 1..Len(queue')
      BY <2>1
    <3> QED
      BY <2>1, <3>1 DEF ToSet
  <2>4. /\ UNCHANGED <<active, kindActive>>
        /\ kind' = [kind EXCEPT ![t] = AnyKind]
    BY <1>28 DEF AbandonQueued, Leave
  <2>5. \A j \in 1..Len(queue') : queue'[j] \in Threads
    BY <2>1
  <2> QED
    BY <2>2, <2>3, <2>4, <2>5
    DEF WorkConserving, GlobalFull, KindFull, TypeOK
<1>29. ASSUME NEW s \in Sources, ClaimLock(s) PROVE WorkConserving'
  BY <1>29
  DEF ClaimLock, schedulerVars, threadVars, TypeOK, WorkConserving,
      GlobalFull, KindFull
<1>30. ASSUME NEW s \in Sources, NEW w \in callbacks[s], CallbackCancels(s, w)
      PROVE  WorkConserving'
  BY <1>30, ActorAssumption
  DEF CallbackCancels, CallNext, CancelWaiterMark, threadVars, TypeOK,
      WorkConserving, GlobalFull, KindFull
<1>31. ASSUME NEW s \in Sources, NEW w \in callbacks[s], CallbackIgnored(s, w)
      PROVE  WorkConserving'
  BY <1>31
  DEF CallbackIgnored, CallNext, CancelWaiterIgnored, schedulerVars,
      threadVars, TypeOK, WorkConserving, GlobalFull, KindFull
<1>32. ASSUME NEW s \in Sources, ClaimNotify(s) PROVE WorkConserving'
  <2>1. /\ GlobalFull \/ cursor > Len(queue)
        /\ \A j \in 1..(cursor - 1) : KindFull(kind[queue[j]])
    BY <1>32 DEF ClaimNotify, PumpedUnlock, PumpScanning, PumpAtEnd, ScanInv
  <2>2. GlobalFull \/ \A j \in 1..Len(queue) : KindFull(kind[queue[j]])
    BY <2>1 DEF TypeOK
  <2> QED
    BY <1>32, <2>2
    DEF ClaimNotify, Notify, TypeOK, WorkConserving, GlobalFull, KindFull
<1>33. ASSUME NEW s \in Sources, ClaimFinish(s) PROVE WorkConserving'
  BY <1>33
  DEF ClaimFinish, schedulerVars, threadVars, TypeOK, WorkConserving,
      GlobalFull, KindFull
<1>34. ASSUME NEW s \in Sources, WatchdogClaim(s) PROVE WorkConserving'
  BY <1>34
  DEF WatchdogClaim, ClaimWith, schedulerVars, threadVars, TypeOK,
      WorkConserving, GlobalFull, KindFull
<1>35. ASSUME NEW s \in Sources, Cancel(s) PROVE WorkConserving'
  BY <1>35
  DEF Cancel, ClaimWith, schedulerVars, threadVars, TypeOK, WorkConserving,
      GlobalFull, KindFull
<1>36. ASSUME NEW s \in Sources, Expire(s) PROVE WorkConserving'
  BY <1>36
  DEF Expire, schedulerVars, threadVars, TypeOK, WorkConserving, GlobalFull,
      KindFull
<1>37. ASSUME NEW s \in Sources, NewSource(s) PROVE WorkConserving'
  BY <1>37
  DEF NewSource, schedulerVars, threadVars, TypeOK, WorkConserving,
      GlobalFull, KindFull
<1>38. CASE UNCHANGED vars
  BY <1>38
  DEF vars, schedulerVars, threadVars, sourceVars, TypeOK, WorkConserving,
      GlobalFull, KindFull
<1> QED
  BY <1>1, <1>2, <1>3, <1>4, <1>5, <1>7, <1>8, <1>9, <1>10, <1>11,
      <1>12, <1>13, <1>14, <1>15, <1>16, <1>17, <1>18, <1>19, <1>20, <1>21,
      <1>22, <1>23, <1>24, <1>25, <1>26, <1>27, <1>28, <1>29, <1>30, <1>31,
      <1>32, <1>33, <1>34, <1>35, <1>36, <1>37, <1>38
  DEF Next, PumpLocked, OptionalStep, ThreadStep, LockingStep, ClaimStep,
      ClaimCall, Environment


(* The initial states satisfy the inductive invariant.                     *)
LEMMA InitInvariant == Init => IInv
<1> SUFFICES ASSUME Init PROVE IInv
  OBVIOUS
<1>1. TypeOK
  BY AnyKindType
  DEF Init, TypeOK, PcValues, Reasons, Errors, Outcomes
<1>2. LockInv /\ WaiterInv
  BY ActorAssumption DEF Init, LockInv, WaiterInv
<1>3. RegistrationInv
  BY DEF Init, RegistrationInv
<1>4. QueueIsTheWaiters
  BY DEF Init, QueueIsTheWaiters, IsInjective, ToSet, TicketPcs
<1>5. ScanInv /\ WorkConserving
  BY DEF Init, ScanInv, WorkConserving
<1>6. PermitAccounting
  <2>1. Holders = {} /\ \A k \in Kinds : HoldersOf(k) = {}
    BY DEF Init, Holders, HoldersOf
  <2> QED
    BY <2>1, FS_EmptySet DEF Init, PermitAccounting
<1>7. CountersBounded
  BY LimitAssumption DEF Init, CountersBounded
<1> QED
  BY <1>1, <1>2, <1>3, <1>4, <1>5, <1>6, <1>7 DEF IInv

LEMMA InvariantStep ==
    ASSUME IInv, [Next]_vars
    PROVE  IInv'
BY TypeStep, LockStep, WaiterStep, RegistrationStep, QueueStep, ScanStep,
   CountersStep, PermitStep, WorkStep
DEF IInv

THEOREM Invariant == Spec => []IInv
<1>1. Init => IInv
  BY InitInvariant
<1>2. IInv /\ [Next]_vars => IInv'
  BY InvariantStep
<1> QED
  BY <1>1, <1>2, PTL DEF Spec

(* Types hold for every number of threads, kinds and sources.              *)
THEOREM TypeCorrect == Spec => []TypeOK
<1>1. IInv => TypeOK
  BY DEF IInv
<1> QED
  BY <1>1, Invariant, PTL

(* No permit leaks and none is returned twice, on any path out of Acquire. *)
THEOREM PermitsAccounted == Spec => []PermitAccounting
<1>1. IInv => PermitAccounting
  BY DEF IInv
<1> QED
  BY <1>1, Invariant, PTL

(* The executions inside the runtime never exceed either limit.            *)
THEOREM LimitsHold == Spec => []LimitsRespected
<1>1. IInv => LimitsRespected
  BY DEF IInv, PermitAccounting, CountersBounded, LimitsRespected
<1> QED
  BY <1>1, Invariant, PTL

(* The queue is exactly the acquisitions that wait.                        *)
THEOREM QueueExact == Spec => []QueueIsTheWaiters
<1>1. IInv => QueueIsTheWaiters
  BY DEF IInv
<1> QED
  BY <1>1, Invariant, PTL

(* Capacity and an acquisition that fits it are never idle together while  *)
(* the mutex is free.                                                      *)
THEOREM NeverIdle == Spec => []WorkConserving
<1>1. IInv => WorkConserving
  BY DEF IInv
<1> QED
  BY <1>1, Invariant, PTL

(* A callback only touches a waiter whose registration is still there.     *)
THEOREM CallbacksConfined == Spec => []CallbackOnlyWhileRegistered
<1>1. IInv => CallbackOnlyWhileRegistered
  <2> SUFFICES ASSUME IInv, NEW s \in Sources
               PROVE  /\ \A t \in callbacks[s] : registered[t] /\ token[t] = s
                      /\ target[s] # Free =>
                           registered[target[s]] /\ pc[target[s]] \in TicketPcs
    BY DEF CallbackOnlyWhileRegistered
  <2> QED
    BY DEF IInv, RegistrationInv, TypeOK, TicketPcs
<1> QED
  BY <1>1, Invariant, PTL

(* A grant goes to the oldest acquisition that fits: whatever is ahead of  *)
(* it is of another kind, and that kind is full.                           *)
LEMMA GrantStep ==
    ASSUME IInv, [Next]_vars, NEW i \in 1..Len(queue),
           granted'[queue[i]], ~granted[queue[i]], NEW j \in 1..(i - 1)
    PROVE  KindFull(kind[queue[j]]) /\ kind[queue[j]] # kind[queue[i]]
<1>1. /\ IsInjective(queue) /\ queue \in Seq(Threads)
      /\ granted \in [Threads -> BOOLEAN]
      /\ queue[i] \in Threads
  BY DEF IInv, QueueIsTheWaiters, TypeOK
<1>2. PumpGrant
  BY <1>1
  DEF Next, PumpLocked, PumpSkip, OptionalStep, StartAcquire, WaitFails, Finish,
      ThreadStep, FirstPollPasses, FirstPollThrows, PollClaims,
      AdmittedImmediately, Queued, InlineDone, Settle, Throw, RepollPasses,
      RepollThrows, ReleaseDone, LockingStep, Enqueue, Register, RegisterInline,
      InlineCancels, InlineIgnored, WaitTest, Unregister, ReleasePermit, Unwind,
      AbandonGranted, AbandonQueued, ClaimStep, ClaimLock, ClaimCall,
      CallbackCancels, CallbackIgnored, ClaimNotify, ClaimFinish, WatchdogClaim,
      Environment, Cancel, Expire, NewSource, ClaimWith, CancelWaiterMark,
      CancelWaiterIgnored, Leave, schedulerVars, vars
<1>3. cursor \in 1..Len(queue) /\ ~KindFull(kind[queue[cursor]])
  BY <1>2 DEF PumpGrant, PumpScanning, PumpAtEnd, IInv, TypeOK
<1>4. granted' = [granted EXCEPT ![queue[cursor]] = TRUE]
  BY <1>2 DEF PumpGrant
<1>5. queue[i] = queue[cursor]
  BY <1>1, <1>3, <1>4
<1>6. i = cursor
  BY <1>1, <1>3, <1>5 DEF IsInjective
<1>7. KindFull(kind[queue[j]])
  BY <1>2, <1>6 DEF PumpGrant, PumpScanning, IInv, ScanInv
<1> QED
  BY <1>3, <1>6, <1>7

THEOREM OldestEligibleFirst == Spec => GrantsOldestEligible
<1>1. IInv /\ [Next]_vars =>
        [\A i \in 1..Len(queue) :
            granted'[queue[i]] /\ ~granted[queue[i]] =>
                \A j \in 1..(i - 1) :
                    KindFull(kind[queue[j]]) /\ kind[queue[j]] # kind[queue[i]]]_vars
  BY GrantStep
<1> QED
  BY <1>1, Invariant, PTL DEF Spec, GrantsOldestEligible

-----------------------------------------------------------------------------
(* Who was told to stop waiting stays told: the source of a token is       *)
(* replaced only when nobody holds it any more.                            *)
LEMMA StoppedStep ==
    ASSUME TypeOK, LockInv, WaiterInv, RegistrationInv, QueueIsTheWaiters,
           StoppedInv, [Next]_vars
    PROVE  StoppedInv'
<1>1. CASE PumpSkip
  BY <1>1
  DEF PumpSkip, PumpScanning, PumpAtEnd, threadVars, sourceVars, TypeOK,
      StoppedInv, Claimed
<1>2. CASE PumpGrant
  <2>1. queue[cursor] \in Threads
    BY <1>2 DEF PumpGrant, PumpScanning, PumpAtEnd, TypeOK
  <2> QED
    BY <1>2, <2>1
    DEF PumpGrant, Notify, sourceVars, TypeOK, StoppedInv, Claimed
<1>3. ASSUME NEW t \in Threads, StartAcquire(t) PROVE StoppedInv'
  BY <1>3
  DEF StartAcquire, Goto, Unlimited, schedulerVars, sourceVars, TypeOK,
      WaiterInv, StoppedInv, Claimed
<1>4. ASSUME NEW t \in Threads, WaitFails(t) PROVE StoppedInv'
  BY <1>4
  DEF WaitFails, Goto, schedulerVars, sourceVars, TypeOK, StoppedInv, Claimed
<1>5. ASSUME NEW t \in Threads, Finish(t) PROVE StoppedInv'
  BY <1>5
  DEF Finish, Goto, schedulerVars, sourceVars, TypeOK, StoppedInv, Claimed
<1>7. ASSUME NEW t \in Threads, FirstPollPasses(t) PROVE StoppedInv'
  BY <1>7
  DEF FirstPollPasses, Goto, PollWouldClaim, schedulerVars, sourceVars,
      TypeOK, StoppedInv, Claimed
<1>8. ASSUME NEW t \in Threads, FirstPollThrows(t) PROVE StoppedInv'
  BY <1>8
  DEF FirstPollThrows, Leave, Goto, sourceVars, TypeOK, StoppedInv, Claimed
<1>9. ASSUME NEW t \in Threads, PollClaims(t) PROVE StoppedInv'
  BY <1>9
  DEF PollClaims, ClaimWith, PollWouldClaim, schedulerVars, threadVars,
      TypeOK, StoppedInv, Claimed
<1>10. ASSUME NEW t \in Threads, AdmittedImmediately(t) PROVE StoppedInv'
  BY <1>10
  DEF AdmittedImmediately, PumpedUnlock, PumpScanning, PumpAtEnd, Goto,
      sourceVars, TypeOK, StoppedInv, Claimed
<1>11. ASSUME NEW t \in Threads, Queued(t) PROVE StoppedInv'
  BY <1>11
  DEF Queued, PumpedUnlock, PumpScanning, PumpAtEnd, Goto, sourceVars,
      TypeOK, StoppedInv, Claimed
<1>12. ASSUME NEW t \in Threads, InlineDone(t) PROVE StoppedInv'
  BY <1>12
  DEF InlineDone, PumpedUnlock, PumpScanning, PumpAtEnd, Goto, TypeOK,
      StoppedInv, Claimed
<1>13. ASSUME NEW t \in Threads, Settle(t) PROVE StoppedInv'
  BY <1>13
  DEF Settle, Goto, schedulerVars, sourceVars, TypeOK, WaiterInv, StoppedInv,
      Claimed
<1>14. ASSUME NEW t \in Threads, Throw(t) PROVE StoppedInv'
  BY <1>14
  DEF Throw, Leave, Goto, sourceVars, TypeOK, StoppedInv, Claimed
<1>15. ASSUME NEW t \in Threads, RepollPasses(t) PROVE StoppedInv'
  BY <1>15
  DEF RepollPasses, Goto, PollWouldClaim, schedulerVars, sourceVars, TypeOK,
      StoppedInv, Claimed
<1>16. ASSUME NEW t \in Threads, RepollThrows(t) PROVE StoppedInv'
  BY <1>16
  DEF RepollThrows, Goto, schedulerVars, sourceVars, TypeOK, StoppedInv,
      Claimed
<1>17. ASSUME NEW t \in Threads, ReleaseDone(t) PROVE StoppedInv'
  BY <1>17
  DEF ReleaseDone, PumpedUnlock, PumpScanning, PumpAtEnd, Leave, Goto,
      sourceVars, TypeOK, StoppedInv, Claimed
<1>18. ASSUME NEW t \in Threads, Enqueue(t) PROVE StoppedInv'
  BY <1>18
  DEF Enqueue, Goto, sourceVars, TypeOK, StoppedInv, Claimed
<1>19. ASSUME NEW t \in Threads, Register(t) PROVE StoppedInv'
  BY <1>19
  DEF Register, Goto, schedulerVars, TypeOK, StoppedInv, Claimed
<1>20. ASSUME NEW t \in Threads, RegisterInline(t) PROVE StoppedInv'
  BY <1>20, ActorAssumption
  DEF RegisterInline, Goto, schedulerVars, TypeOK, WaiterInv, StoppedInv,
      Claimed
<1>21. ASSUME NEW t \in Threads, InlineCancels(t) PROVE StoppedInv'
  BY <1>21
  DEF InlineCancels, CancelWaiterMark, Goto, sourceVars, TypeOK, StoppedInv,
      Claimed
<1>22. ASSUME NEW t \in Threads, InlineIgnored(t) PROVE StoppedInv'
  BY <1>22
  DEF InlineIgnored, CancelWaiterIgnored, Goto, schedulerVars, TypeOK,
      StoppedInv, Claimed
<1>23. ASSUME NEW t \in Threads, WaitTest(t) PROVE StoppedInv'
  BY <1>23
  DEF WaitTest, Goto, schedulerVars, sourceVars, TypeOK, StoppedInv, Claimed
<1>24. ASSUME NEW t \in Threads, Unregister(t) PROVE StoppedInv'
  BY <1>24
  DEF Unregister, ResetRegistration, Goto, schedulerVars, TypeOK, StoppedInv,
      Claimed
<1>25. ASSUME NEW t \in Threads, ReleasePermit(t) PROVE StoppedInv'
  BY <1>25
  DEF ReleasePermit, Goto, sourceVars, TypeOK, StoppedInv, Claimed
<1>26. ASSUME NEW t \in Threads, Unwind(t) PROVE StoppedInv'
  BY <1>26
  DEF Unwind, ResetRegistration, Goto, schedulerVars, TypeOK, StoppedInv,
      Claimed
<1>27. ASSUME NEW t \in Threads, AbandonGranted(t) PROVE StoppedInv'
  BY <1>27
  DEF AbandonGranted, Goto, schedulerVars, sourceVars, TypeOK, StoppedInv,
      Claimed
<1>28. ASSUME NEW t \in Threads, AbandonQueued(t) PROVE StoppedInv'
  BY <1>28
  DEF AbandonQueued, Leave, Goto, sourceVars, TypeOK, StoppedInv, Claimed
<1>29. ASSUME NEW s \in Sources, ClaimLock(s) PROVE StoppedInv'
  BY <1>29
  DEF ClaimLock, schedulerVars, threadVars, TypeOK, StoppedInv, Claimed
<1>30. ASSUME NEW s \in Sources, NEW w \in callbacks[s], CallbackCancels(s, w)
      PROVE  StoppedInv'
  <2>1. w \in Threads /\ token[w] = s
    BY DEF TypeOK, RegistrationInv
  <2>2. reason[s] # "none"
    BY <1>30 DEF CallbackCancels, CallNext, LockInv
  <2> QED
    BY <1>30, <2>1, <2>2, ActorAssumption
    DEF CallbackCancels, CallNext, CancelWaiterMark, threadVars, TypeOK,
        StoppedInv, Claimed
<1>31. ASSUME NEW s \in Sources, NEW w \in callbacks[s], CallbackIgnored(s, w)
      PROVE  StoppedInv'
  BY <1>31
  DEF CallbackIgnored, CallNext, CancelWaiterIgnored, schedulerVars,
      threadVars, TypeOK, StoppedInv, Claimed
<1>32. ASSUME NEW s \in Sources, ClaimNotify(s) PROVE StoppedInv'
  BY <1>32
  DEF ClaimNotify, PumpedUnlock, PumpScanning, PumpAtEnd, Notify, TypeOK,
      StoppedInv, Claimed
<1>33. ASSUME NEW s \in Sources, ClaimFinish(s) PROVE StoppedInv'
  BY <1>33
  DEF ClaimFinish, schedulerVars, threadVars, TypeOK, StoppedInv, Claimed
<1>34. ASSUME NEW s \in Sources, WatchdogClaim(s) PROVE StoppedInv'
  BY <1>34
  DEF WatchdogClaim, ClaimWith, schedulerVars, threadVars, TypeOK,
      StoppedInv, Claimed
<1>35. ASSUME NEW s \in Sources, Cancel(s) PROVE StoppedInv'
  BY <1>35
  DEF Cancel, ClaimWith, schedulerVars, threadVars, TypeOK, StoppedInv,
      Claimed
<1>36. ASSUME NEW s \in Sources, Expire(s) PROVE StoppedInv'
  BY <1>36
  DEF Expire, schedulerVars, threadVars, TypeOK, StoppedInv, Claimed
<1>37. ASSUME NEW s \in Sources, NewSource(s) PROVE StoppedInv'
  <2>1. \A t \in Threads : token[t] # s
    BY <1>37 DEF NewSource
  <2>2. /\ UNCHANGED <<cancelled, pc, token>>
        /\ reason' = [reason EXCEPT ![s] = "none"]
    BY <1>37 DEF NewSource, schedulerVars, threadVars
  <2> QED
    BY <2>1, <2>2 DEF TypeOK, StoppedInv, Claimed
<1>38. CASE UNCHANGED vars
  BY <1>38
  DEF vars, schedulerVars, threadVars, sourceVars, TypeOK, StoppedInv,
      Claimed
<1> QED
  BY <1>1, <1>2, <1>3, <1>4, <1>5, <1>7, <1>8, <1>9, <1>10, <1>11,
      <1>12, <1>13, <1>14, <1>15, <1>16, <1>17, <1>18, <1>19, <1>20, <1>21,
      <1>22, <1>23, <1>24, <1>25, <1>26, <1>27, <1>28, <1>29, <1>30, <1>31,
      <1>32, <1>33, <1>34, <1>35, <1>36, <1>37, <1>38
  DEF Next, PumpLocked, OptionalStep, ThreadStep, LockingStep, ClaimStep,
      ClaimCall, Environment

(* A step of a thread changes what is told of that thread only.            *)
OnlyMoves(t) ==
    /\ reason' = reason
    /\ \A u \in Threads \ {t} : /\ pc'[u] = pc[u] /\ token'[u] = token[u]
                                /\ recorded'[u] = recorded[u] /\ thrown'[u] = thrown[u]

LEMMA ThreadTells ==
    ASSUME RecordedInv, NEW t \in Threads, OnlyMoves(t), TellsWhatHappened(t)'
    PROVE  RecordedInv'
<1> SUFFICES ASSUME NEW u \in Threads PROVE TellsWhatHappened(u)'
  BY DEF RecordedInv
<1>1. CASE u = t
  BY <1>1
<1>2. CASE u # t
  BY <1>2 DEF RecordedInv, OnlyMoves, TellsWhatHappened
<1> QED
  BY <1>1, <1>2

(* Waking a thread tells nothing new.                                      *)
LEMMA WakingTells ==
    ASSUME RecordedInv, UNCHANGED <<token, recorded, thrown, reason>>,
           \A u \in Threads : pc'[u] = pc[u] \/ (pc[u] = "asleep" /\ pc'[u] = "wait")
    PROVE  RecordedInv'
<1> SUFFICES ASSUME NEW u \in Threads PROVE TellsWhatHappened(u)'
  BY DEF RecordedInv
<1>1. TellsWhatHappened(u)
  BY DEF RecordedInv
<1>2. CASE pc'[u] = pc[u]
  BY <1>1, <1>2 DEF TellsWhatHappened
<1>3. CASE pc[u] = "asleep" /\ pc'[u] = "wait"
  BY <1>1, <1>3 DEF TellsWhatHappened
<1> QED
  BY <1>2, <1>3

(* A claim, or a new source, is not about the threads that are to throw.   *)
LEMMA ClaimTells ==
    ASSUME RecordedInv, UNCHANGED <<pc, token, recorded, thrown>>,
           \A u \in Threads : pc[u] = "throw" => reason'[token[u]] = reason[token[u]]
    PROVE  RecordedInv'
<1> SUFFICES ASSUME NEW u \in Threads PROVE TellsWhatHappened(u)'
  BY DEF RecordedInv
<1>1. TellsWhatHappened(u)
  BY DEF RecordedInv
<1> QED
  BY <1>1 DEF TellsWhatHappened

LEMMA ClaimWithTells ==
    ASSUME TypeOK, StoppedInv, RecordedInv, NEW s \in Sources, NEW r, NEW by,
           ClaimWith(s, r, by)
    PROVE  RecordedInv'
<1>1. UNCHANGED <<pc, token, recorded, thrown>>
  BY DEF ClaimWith, threadVars
<1>2. reason[s] = "none" /\ reason' = [reason EXCEPT ![s] = r]
  BY DEF ClaimWith
<1>3. ASSUME NEW u \in Threads, pc[u] = "throw"
      PROVE  reason'[token[u]] = reason[token[u]]
  <2>1. token[u] # s /\ token[u] \in Sources
    BY <1>2, <1>3 DEF StoppedInv, Claimed, TypeOK
  <2> QED
    BY <1>2, <2>1 DEF TypeOK
<1> QED
  BY <1>1, <1>3, ClaimTells

(* The position of a thread says what it recorded and what it will throw.  *)
LEMMA RecordedStep ==
    ASSUME TypeOK, WaiterInv, StoppedInv, RecordedInv, [Next]_vars
    PROVE  RecordedInv'
<1>1. ASSUME NEW t \in Threads, StartAcquire(t) PROVE RecordedInv'
  <2>1. OnlyMoves(t)
    BY <1>1
    DEF StartAcquire, Goto, sourceVars, OnlyMoves
  <2>2. TellsWhatHappened(t)'
    BY <1>1
    DEF StartAcquire, Goto, sourceVars, TypeOK, RecordedInv, TellsWhatHappened
  <2> QED
    BY <2>1, <2>2, ThreadTells
<1>2. ASSUME NEW t \in Threads, WaitFails(t) PROVE RecordedInv'
  <2>1. OnlyMoves(t)
    BY <1>2
    DEF WaitFails, Goto, sourceVars, OnlyMoves
  <2>2. TellsWhatHappened(t)'
    BY <1>2
    DEF WaitFails, Goto, sourceVars, TypeOK, RecordedInv, TellsWhatHappened
  <2> QED
    BY <2>1, <2>2, ThreadTells
<1>3. ASSUME NEW t \in Threads, Finish(t) PROVE RecordedInv'
  <2>1. OnlyMoves(t)
    BY <1>3
    DEF Finish, Goto, sourceVars, OnlyMoves
  <2>2. TellsWhatHappened(t)'
    BY <1>3
    DEF Finish, Goto, sourceVars, TypeOK, RecordedInv, TellsWhatHappened
  <2> QED
    BY <2>1, <2>2, ThreadTells
<1>5. ASSUME NEW t \in Threads, FirstPollPasses(t) PROVE RecordedInv'
  <2>1. OnlyMoves(t)
    BY <1>5
    DEF FirstPollPasses, Goto, sourceVars, OnlyMoves
  <2>2. TellsWhatHappened(t)'
    BY <1>5
    DEF FirstPollPasses, Goto, sourceVars, TypeOK, RecordedInv,
        TellsWhatHappened
  <2> QED
    BY <2>1, <2>2, ThreadTells
<1>6. ASSUME NEW t \in Threads, FirstPollThrows(t) PROVE RecordedInv'
  <2>1. OnlyMoves(t)
    BY <1>6
    DEF FirstPollThrows, Leave, Goto, sourceVars, OnlyMoves
  <2>2. TellsWhatHappened(t)'
    BY <1>6
    DEF FirstPollThrows, Leave, Goto, sourceVars, TypeOK, RecordedInv,
        TellsWhatHappened
  <2> QED
    BY <2>1, <2>2, ThreadTells
<1>7. ASSUME NEW t \in Threads, AdmittedImmediately(t) PROVE RecordedInv'
  <2>1. OnlyMoves(t)
    BY <1>7
    DEF AdmittedImmediately, PumpedUnlock, Goto, sourceVars, OnlyMoves
  <2>2. TellsWhatHappened(t)'
    BY <1>7
    DEF AdmittedImmediately, PumpedUnlock, Goto, sourceVars, TypeOK,
        RecordedInv, TellsWhatHappened
  <2> QED
    BY <2>1, <2>2, ThreadTells
<1>8. ASSUME NEW t \in Threads, Queued(t) PROVE RecordedInv'
  <2>1. OnlyMoves(t)
    BY <1>8
    DEF Queued, PumpedUnlock, Goto, sourceVars, OnlyMoves
  <2>2. TellsWhatHappened(t)'
    BY <1>8
    DEF Queued, PumpedUnlock, Goto, sourceVars, TypeOK, RecordedInv,
        TellsWhatHappened
  <2> QED
    BY <2>1, <2>2, ThreadTells
<1>9. ASSUME NEW t \in Threads, InlineDone(t) PROVE RecordedInv'
  <2>1. OnlyMoves(t)
    BY <1>9
    DEF InlineDone, PumpedUnlock, Goto, OnlyMoves
  <2>2. TellsWhatHappened(t)'
    BY <1>9
    DEF InlineDone, PumpedUnlock, Goto, TypeOK, RecordedInv, TellsWhatHappened
  <2> QED
    BY <2>1, <2>2, ThreadTells
<1>10. ASSUME NEW t \in Threads, Settle(t) PROVE RecordedInv'
  <2>1. /\ pc[t] = "settle" /\ recorded[t] = {"queued"} /\ thrown[t] = "none"
        /\ granted[t] \/ cancelled[t]
    BY <1>10 DEF Settle, RecordedInv, TellsWhatHappened, WaiterInv
  <2>2. ~granted[t] => Claimed(t) /\ reason[token[t]] \in {"cancelled", "deadline"}
    BY <2>1 DEF StoppedInv, Claimed, TypeOK, Reasons
  <2>3. /\ UNCHANGED <<thrown, token, reason>>
        /\ pc' = [pc EXCEPT ![t] = IF granted[t] THEN "repoll" ELSE "throw"]
        /\ recorded' = [recorded EXCEPT ![t] = @ \cup
               {IF granted[t] THEN "admitted" ELSE reason[token[t]]}]
    BY <1>10, <2>2 DEF Settle, Goto, sourceVars
  <2>4. OnlyMoves(t)
    BY <2>3 DEF OnlyMoves
  <2>5. TellsWhatHappened(t)'
    <3>1. CASE granted[t]
      <4>1. pc'[t] = "repoll" /\ recorded'[t] = {"queued", "admitted"}
        BY <2>1, <2>3, <3>1 DEF TypeOK
      <4> QED
        BY <2>1, <2>3, <4>1 DEF TellsWhatHappened
    <3>2. CASE ~granted[t]
      <4>1. pc'[t] = "throw" /\ recorded'[t] = {"queued", reason[token[t]]}
        BY <2>1, <2>3, <3>2 DEF TypeOK
      <4> QED
        BY <2>1, <2>3, <4>1 DEF TellsWhatHappened
    <3> QED
      BY <3>1, <3>2
  <2> QED
    BY <2>4, <2>5, ThreadTells
<1>11. ASSUME NEW t \in Threads, Throw(t) PROVE RecordedInv'
  <2>1. OnlyMoves(t)
    BY <1>11
    DEF Throw, Leave, Goto, sourceVars, OnlyMoves
  <2>2. TellsWhatHappened(t)'
    BY <1>11
    DEF Throw, Leave, Goto, sourceVars, TypeOK, RecordedInv, TellsWhatHappened
  <2> QED
    BY <2>1, <2>2, ThreadTells
<1>12. ASSUME NEW t \in Threads, RepollPasses(t) PROVE RecordedInv'
  <2>1. OnlyMoves(t)
    BY <1>12
    DEF RepollPasses, Goto, sourceVars, OnlyMoves
  <2>2. TellsWhatHappened(t)'
    BY <1>12
    DEF RepollPasses, Goto, sourceVars, TypeOK, RecordedInv, TellsWhatHappened
  <2> QED
    BY <2>1, <2>2, ThreadTells
<1>13. ASSUME NEW t \in Threads, RepollThrows(t) PROVE RecordedInv'
  <2>1. /\ pc[t] = "repoll" /\ recorded[t] = {"queued", "admitted"}
        /\ token[t] # NoSource /\ reason[token[t]] \in {"cancelled", "deadline"}
    BY <1>13
    DEF RepollThrows, PollStops, Claimed, TypeOK, Reasons, RecordedInv, TellsWhatHappened
  <2>2. /\ UNCHANGED <<recorded, token, reason>>
        /\ pc' = [pc EXCEPT ![t] = "release"]
        /\ thrown' = [thrown EXCEPT ![t] = reason[token[t]]]
    BY <1>13 DEF RepollThrows, Goto, sourceVars
  <2>3. OnlyMoves(t)
    BY <2>2 DEF OnlyMoves
  <2>4. pc'[t] = "release" /\ thrown'[t] = reason[token[t]]
    BY <2>2 DEF TypeOK
  <2>5. TellsWhatHappened(t)'
    BY <2>1, <2>2, <2>4 DEF TellsWhatHappened
  <2> QED
    BY <2>3, <2>5, ThreadTells
<1>14. ASSUME NEW t \in Threads, ReleaseDone(t) PROVE RecordedInv'
  <2>1. OnlyMoves(t)
    BY <1>14
    DEF ReleaseDone, PumpedUnlock, Leave, Goto, sourceVars, OnlyMoves
  <2>2. TellsWhatHappened(t)'
    BY <1>14
    DEF ReleaseDone, PumpedUnlock, Leave, Goto, sourceVars, TypeOK,
        RecordedInv, TellsWhatHappened
  <2> QED
    BY <2>1, <2>2, ThreadTells
<1>15. ASSUME NEW t \in Threads, Enqueue(t) PROVE RecordedInv'
  <2>1. OnlyMoves(t)
    BY <1>15
    DEF Enqueue, Goto, sourceVars, OnlyMoves
  <2>2. TellsWhatHappened(t)'
    BY <1>15
    DEF Enqueue, Goto, sourceVars, TypeOK, RecordedInv, TellsWhatHappened
  <2> QED
    BY <2>1, <2>2, ThreadTells
<1>16. ASSUME NEW t \in Threads, Register(t) PROVE RecordedInv'
  <2>1. OnlyMoves(t)
    BY <1>16
    DEF Register, Goto, OnlyMoves
  <2>2. TellsWhatHappened(t)'
    BY <1>16
    DEF Register, Goto, TypeOK, RecordedInv, TellsWhatHappened
  <2> QED
    BY <2>1, <2>2, ThreadTells
<1>17. ASSUME NEW t \in Threads, RegisterInline(t) PROVE RecordedInv'
  <2>1. OnlyMoves(t)
    BY <1>17
    DEF RegisterInline, Goto, OnlyMoves
  <2>2. TellsWhatHappened(t)'
    BY <1>17
    DEF RegisterInline, Goto, TypeOK, RecordedInv, TellsWhatHappened
  <2> QED
    BY <2>1, <2>2, ThreadTells
<1>18. ASSUME NEW t \in Threads, InlineCancels(t) PROVE RecordedInv'
  <2>1. OnlyMoves(t)
    BY <1>18
    DEF InlineCancels, CancelWaiterMark, Goto, sourceVars, OnlyMoves
  <2>2. TellsWhatHappened(t)'
    BY <1>18
    DEF InlineCancels, CancelWaiterMark, Goto, sourceVars, TypeOK,
        RecordedInv, TellsWhatHappened
  <2> QED
    BY <2>1, <2>2, ThreadTells
<1>19. ASSUME NEW t \in Threads, InlineIgnored(t) PROVE RecordedInv'
  <2>1. OnlyMoves(t)
    BY <1>19
    DEF InlineIgnored, CancelWaiterIgnored, Goto, OnlyMoves
  <2>2. TellsWhatHappened(t)'
    BY <1>19
    DEF InlineIgnored, CancelWaiterIgnored, Goto, TypeOK, RecordedInv,
        TellsWhatHappened
  <2> QED
    BY <2>1, <2>2, ThreadTells
<1>20. ASSUME NEW t \in Threads, WaitTest(t) PROVE RecordedInv'
  <2>1. OnlyMoves(t)
    BY <1>20
    DEF WaitTest, Goto, sourceVars, OnlyMoves
  <2>2. TellsWhatHappened(t)'
    BY <1>20
    DEF WaitTest, Goto, sourceVars, TypeOK, RecordedInv, TellsWhatHappened
  <2> QED
    BY <2>1, <2>2, ThreadTells
<1>21. ASSUME NEW t \in Threads, Unregister(t) PROVE RecordedInv'
  <2>1. OnlyMoves(t)
    BY <1>21
    DEF Unregister, ResetRegistration, Goto, OnlyMoves
  <2>2. TellsWhatHappened(t)'
    BY <1>21
    DEF Unregister, ResetRegistration, Goto, TypeOK, RecordedInv,
        TellsWhatHappened
  <2> QED
    BY <2>1, <2>2, ThreadTells
<1>22. ASSUME NEW t \in Threads, ReleasePermit(t) PROVE RecordedInv'
  <2>1. OnlyMoves(t)
    BY <1>22
    DEF ReleasePermit, Goto, sourceVars, OnlyMoves
  <2>2. TellsWhatHappened(t)'
    BY <1>22
    DEF ReleasePermit, Goto, sourceVars, TypeOK, RecordedInv,
        TellsWhatHappened
  <2> QED
    BY <2>1, <2>2, ThreadTells
<1>23. ASSUME NEW t \in Threads, Unwind(t) PROVE RecordedInv'
  <2>1. OnlyMoves(t)
    BY <1>23
    DEF Unwind, ResetRegistration, Goto, OnlyMoves
  <2>2. TellsWhatHappened(t)'
    BY <1>23
    DEF Unwind, ResetRegistration, Goto, TypeOK, RecordedInv,
        TellsWhatHappened
  <2> QED
    BY <2>1, <2>2, ThreadTells
<1>24. ASSUME NEW t \in Threads, AbandonGranted(t) PROVE RecordedInv'
  <2>1. OnlyMoves(t)
    BY <1>24
    DEF AbandonGranted, Goto, sourceVars, OnlyMoves
  <2>2. TellsWhatHappened(t)'
    BY <1>24
    DEF AbandonGranted, Goto, sourceVars, TypeOK, RecordedInv,
        TellsWhatHappened
  <2> QED
    BY <2>1, <2>2, ThreadTells
<1>25. ASSUME NEW t \in Threads, AbandonQueued(t) PROVE RecordedInv'
  <2>1. OnlyMoves(t)
    BY <1>25
    DEF AbandonQueued, Leave, Goto, sourceVars, OnlyMoves
  <2>2. TellsWhatHappened(t)'
    BY <1>25
    DEF AbandonQueued, Leave, Goto, sourceVars, TypeOK, RecordedInv,
        TellsWhatHappened
  <2> QED
    BY <2>1, <2>2, ThreadTells
<1>26. ASSUME NEW t \in Threads, PollClaims(t) PROVE RecordedInv'
  <2>1. token[t] \in Sources
    BY <1>26 DEF PollClaims, PollWouldClaim, TypeOK
  <2> QED
    BY <1>26, <2>1, ClaimWithTells DEF PollClaims
<1>27. ASSUME NEW s \in Sources, WatchdogClaim(s) \/ Cancel(s) PROVE RecordedInv'
  BY <1>27, ClaimWithTells DEF WatchdogClaim, Cancel
<1>28. ASSUME NEW s \in Sources, NewSource(s) PROVE RecordedInv'
  <2>1. /\ UNCHANGED <<pc, token, recorded, thrown>>
        /\ reason' = [reason EXCEPT ![s] = "none"]
        /\ \A t \in Threads : token[t] # s
    BY <1>28 DEF NewSource, threadVars
  <2>2. \A u \in Threads : pc[u] = "throw" => reason'[token[u]] = reason[token[u]]
    BY <2>1 DEF StoppedInv, Claimed, TypeOK
  <2> QED
    BY <2>1, <2>2, ClaimTells
<1>29. CASE PumpGrant
  <2>1. /\ UNCHANGED <<token, recorded, thrown, reason>>
        /\ pc' = Notify(queue[cursor], pc)
    BY <1>29 DEF PumpGrant, sourceVars
  <2>2. \A u \in Threads : pc'[u] = pc[u] \/ (pc[u] = "asleep" /\ pc'[u] = "wait")
    BY <2>1 DEF Notify, TypeOK
  <2> QED
    BY <2>1, <2>2, WakingTells
<1>30. ASSUME NEW s \in Sources, ClaimNotify(s) PROVE RecordedInv'
  <2>1. /\ UNCHANGED <<token, recorded, thrown, reason>>
        /\ pc' = Notify(target[s], pc)
    BY <1>30 DEF ClaimNotify
  <2>2. \A u \in Threads : pc'[u] = pc[u] \/ (pc[u] = "asleep" /\ pc'[u] = "wait")
    BY <2>1 DEF Notify, TypeOK
  <2> QED
    BY <2>1, <2>2, WakingTells
<1>31. ASSUME \/ PumpSkip \/ UNCHANGED vars
             \/ \E s \in Sources :
                  \/ ClaimLock(s) \/ ClaimFinish(s) \/ Expire(s)
                  \/ \E w \in callbacks[s] : CallbackCancels(s, w) \/ CallbackIgnored(s, w)
      PROVE  RecordedInv'
  <2>1. UNCHANGED <<pc, token, recorded, thrown, reason>>
    BY <1>31
    DEF PumpSkip, ClaimLock, ClaimFinish, Expire, CallbackCancels, CallbackIgnored,
        CallNext, threadVars, sourceVars, vars
  <2> QED
    BY <2>1, WakingTells
<1> QED
  BY  <1>1, <1>2, <1>3, <1>5, <1>6, <1>7, <1>8, <1>9, <1>10, <1>11,
      <1>12, <1>13, <1>14, <1>15, <1>16, <1>17, <1>18, <1>19, <1>20,
      <1>21, <1>22, <1>23, <1>24, <1>25, <1>26, <1>27, <1>28, <1>29,
      <1>30, <1>31
  DEF Next, PumpLocked, OptionalStep, ThreadStep, LockingStep, ClaimStep,
      ClaimCall, Environment

(* How an acquisition ends.                                                *)
LEMMA Endings ==
    ASSUME TypeOK, [Next]_vars, NEW t \in Threads, pc[t] # "idle", pc'[t] = "idle"
    PROVE  \/ FirstPollThrows(t) \/ Throw(t)
           \/ ReleaseDone(t) \/ AbandonQueued(t)
<1>1. ASSUME NEW u \in Threads,
             \/ OptionalStep(u) \/ Finish(u) \/ ThreadStep(u) \/ LockingStep(u)
      PROVE  \/ FirstPollThrows(t) \/ Throw(t)
             \/ ReleaseDone(t) \/ AbandonQueued(t)
  <2>1. CASE \/ FirstPollThrows(u) \/ Throw(u)
             \/ ReleaseDone(u) \/ AbandonQueued(u)
    <3>1. pc' = [pc EXCEPT ![u] = "idle"]
      BY <2>1 DEF FirstPollThrows, Throw, ReleaseDone, AbandonQueued, Leave, Goto
    <3>2. t = u
      BY <3>1 DEF TypeOK
    <3> QED
      BY <2>1, <3>2
  <2>2. CASE OptionalStep(u) \/ Finish(u)
    BY <2>2 DEF OptionalStep, StartAcquire, WaitFails, Finish, Goto, TypeOK
  <2>3. CASE LockingStep(u) /\ ~AbandonQueued(u)
    BY <2>3
    DEF LockingStep, Enqueue, Register, RegisterInline, InlineCancels, InlineIgnored,
        WaitTest, Unregister, ReleasePermit, Unwind, AbandonGranted, Goto, TypeOK
  <2>4. CASE ThreadStep(u) /\ ~FirstPollThrows(u) /\ ~Throw(u)
                           /\ ~ReleaseDone(u)
    BY <2>4
    DEF ThreadStep, FirstPollPasses, PollClaims, ClaimWith, AdmittedImmediately, Queued,
        InlineDone, Settle, RepollPasses, RepollThrows, Goto, threadVars, TypeOK
  <2> QED
    BY <1>1, <2>1, <2>2, <2>3, <2>4 DEF LockingStep, ThreadStep
<1>2. CASE PumpLocked
  BY <1>2 DEF PumpLocked, PumpSkip, PumpGrant, Notify, threadVars, TypeOK
<1>3. ASSUME NEW s \in Sources, ClaimStep(s) \/ WatchdogClaim(s) \/ Environment(s)
      PROVE  FALSE
  <2>1. CASE ClaimNotify(s)
    BY <2>1 DEF ClaimNotify, Notify, TypeOK
  <2>2. CASE ~ClaimNotify(s)
    BY <1>3, <2>2
    DEF ClaimStep, ClaimLock, ClaimCall, CallbackCancels, CallbackIgnored, CallNext,
        ClaimFinish, WatchdogClaim, Environment, Cancel, Expire, NewSource, ClaimWith,
        threadVars
  <2> QED
    BY <2>1, <2>2
<1>4. CASE UNCHANGED vars
  BY <1>4 DEF vars, threadVars
<1> QED
  BY <1>1, <1>2, <1>3, <1>4 DEF Next

LEMMA OutcomeStep ==
    ASSUME IInv, StoppedInv, RecordedInv, [Next]_vars,
           NEW t \in Threads, pc[t] # "idle", pc'[t] = "idle"
    PROVE  recorded[t] \in
              CASE thrown'[t] = "none"   -> {{"admitted"}, {"queued", "admitted"}}
                [] thrown'[t] = "failed" -> {{"queued"}}
                [] OTHER -> {{}, {"queued", "admitted"}, {"queued", thrown'[t]}}
<1>1. TypeOK /\ WaiterInv /\ TellsWhatHappened(t)
  BY DEF IInv, RecordedInv
<1>3. CASE FirstPollThrows(t)
  <2>1. recorded[t] = {} /\ thrown'[t] \in {"cancelled", "deadline"}
    <3>1. pc[t] = "poll" /\ Claimed(t) /\ thrown'[t] = reason[token[t]]
      BY <1>1, <1>3 DEF FirstPollThrows, PollStops, TypeOK
    <3>2. reason[token[t]] \in {"cancelled", "deadline"}
      BY <1>1, <3>1 DEF Claimed, TypeOK, Reasons
    <3> QED
      BY <1>1, <3>1, <3>2 DEF TellsWhatHappened
  <2> QED
    BY <2>1
<1>4. CASE Throw(t)
  <2>1. /\ recorded[t] = {"queued", thrown'[t]}
        /\ thrown'[t] \in {"cancelled", "deadline"}
    <3>1. pc[t] = "throw" /\ Claimed(t)
      BY <1>4 DEF Throw, StoppedInv
    <3>2. thrown'[t] = reason[token[t]]
      BY <1>1, <1>4, <3>1 DEF Throw, TypeOK
    <3>3. reason[token[t]] \in {"cancelled", "deadline"}
      BY <1>1, <3>1 DEF Claimed, TypeOK, Reasons
    <3> QED
      BY <1>1, <3>1, <3>2, <3>3 DEF TellsWhatHappened
  <2> QED
    BY <2>1
<1>5. CASE ReleaseDone(t)
  <2>1. pc[t] = "releasing" /\ thrown'[t] = thrown[t]
    BY <1>5 DEF ReleaseDone
  <2>2. recorded[t] \in IF thrown[t] = "none" THEN {{"admitted"}, {"queued", "admitted"}}
                        ELSE IF thrown[t] = "failed" THEN {{"queued"}}
                        ELSE {{"queued", "admitted"}}
    BY <1>1, <2>1 DEF TellsWhatHappened
  <2>3. CASE thrown[t] = "none"
    BY <2>1, <2>2, <2>3
  <2>4. CASE thrown[t] = "failed"
    BY <2>1, <2>2, <2>4
  <2>5. CASE thrown[t] \notin {"none", "failed"}
    BY <2>1, <2>2, <2>5
  <2> QED
    BY <2>3, <2>4, <2>5
<1>6. CASE AbandonQueued(t)
  <2>1. recorded[t] = {"queued"} /\ thrown'[t] = "failed"
    BY <1>1, <1>6 DEF AbandonQueued, TellsWhatHappened, TypeOK
  <2> QED
    BY <2>1
<1> QED
  BY <1>1, <1>3, <1>4, <1>5, <1>6, Endings

(* Telemetry and the caller agree on how an acquisition ended, however a   *)
(* grant, a cancellation and a deadline race.  (Acquire)                   *)
THEOREM OutcomesAgree == Spec => OutcomeAgrees
<1>1. Init => StoppedInv /\ RecordedInv
  BY DEF Init, StoppedInv, RecordedInv, TellsWhatHappened
<1>2. IInv /\ StoppedInv /\ RecordedInv /\ [Next]_vars => StoppedInv' /\ RecordedInv'
  BY StoppedStep, RecordedStep DEF IInv
<1>3. IInv /\ StoppedInv /\ RecordedInv /\ [Next]_vars =>
        [\A t \in Threads :
            pc[t] # "idle" /\ pc'[t] = "idle" =>
              recorded[t] \in
                  CASE thrown'[t] = "none"   -> {{"admitted"}, {"queued", "admitted"}}
                    [] thrown'[t] = "failed" -> {{"queued"}}
                    [] OTHER -> {{}, {"queued", "admitted"}, {"queued", thrown'[t]}}]_vars
  BY OutcomeStep
<1> QED
  BY <1>1, <1>2, <1>3, Invariant, PTL DEF Spec, OutcomeAgrees

-----------------------------------------------------------------------------
(* What callers see, for a queue and a set of holders.                     *)
Waiting(q) == [i \in 1..Len(q) |-> Request(q[i])]
Held(S) == {Request(t) : t \in S}

LEMMA WaitingType ==
    ASSUME TypeOK, NEW q \in Seq(Threads)
    PROVE  /\ Waiting(q) \in Seq(Abstract!Requests) /\ Len(Waiting(q)) = Len(q)
           /\ \A i \in 1..Len(q) : Waiting(q)[i] = Request(q[i])
<1>1. \A i \in 1..Len(q) : Request(q[i]) \in Abstract!Requests
  BY DEF TypeOK, Request, Abstract!Requests
<1> QED
  BY <1>1 DEF Waiting

LEMMA WaitingWithout ==
    ASSUME TypeOK, NEW q \in Seq(Threads), NEW i \in 1..Len(q)
    PROVE  Waiting(RemoveAt(q, i)) = RemoveAt(Waiting(q), i)
<1> DEFINE r == RemoveAt(q, i)
           v == RemoveAt(Waiting(q), i)
<1>1. /\ r \in Seq(Threads) /\ Len(r) = Len(q) - 1
      /\ \A j \in 1..(Len(q) - 1) : r[j] = IF j < i THEN q[j] ELSE q[j + 1]
  BY RemoveAtProperties
<1>2. /\ Waiting(q) \in Seq(Abstract!Requests) /\ Len(Waiting(q)) = Len(q)
      /\ \A j \in 1..Len(q) : Waiting(q)[j] = Request(q[j])
  BY WaitingType
<1>3. /\ v \in Seq(Abstract!Requests) /\ Len(v) = Len(q) - 1
      /\ \A j \in 1..(Len(q) - 1) :
           v[j] = IF j < i THEN Waiting(q)[j] ELSE Waiting(q)[j + 1]
  <2>1. i \in 1..Len(Waiting(q))
    BY <1>2
  <2> HIDE DEF Waiting
  <2> QED
    BY <1>2, <2>1, RemoveAtProperties
<1>4. /\ Waiting(r) \in Seq(Abstract!Requests) /\ Len(Waiting(r)) = Len(r)
      /\ \A j \in 1..Len(r) : Waiting(r)[j] = Request(r[j])
  BY <1>1, WaitingType
<1> HIDE DEF r, v
<1>5. ASSUME NEW j \in 1..(Len(q) - 1)
      PROVE  Waiting(r)[j] = v[j]
  <2>1. Waiting(r)[j] = Request(r[j])
    BY <1>1, <1>4
  <2>2. CASE j < i
    <3>1. j \in 1..Len(q)
      OBVIOUS
    <3> QED
      BY <1>1, <1>2, <1>3, <2>1, <2>2, <3>1
  <2>3. CASE ~(j < i)
    <3>1. j + 1 \in 1..Len(q)
      OBVIOUS
    <3> QED
      BY <1>1, <1>2, <1>3, <2>1, <2>3, <3>1
  <2> QED
    BY <2>2, <2>3
<1>6. Waiting(r) = v
  BY <1>1, <1>3, <1>4, <1>5
<1> QED
  BY <1>6 DEF r, v

LEMMA WaitingAppend ==
    ASSUME TypeOK, NEW q \in Seq(Threads), NEW t \in Threads
    PROVE  Waiting(Append(q, t)) = Append(Waiting(q), Request(t))
<1> DEFINE a == Append(q, t)
           v == Append(Waiting(q), Request(t))
<1>1. /\ a \in Seq(Threads) /\ Len(a) = Len(q) + 1 /\ a[Len(q) + 1] = t
      /\ \A j \in 1..Len(q) : a[j] = q[j]
  BY AppendProperties
<1>2. /\ Waiting(q) \in Seq(Abstract!Requests) /\ Len(Waiting(q)) = Len(q)
      /\ \A j \in 1..Len(q) : Waiting(q)[j] = Request(q[j])
  BY WaitingType
<1>3. Request(t) \in Abstract!Requests
  BY DEF TypeOK, Request, Abstract!Requests
<1>4. /\ v \in Seq(Abstract!Requests) /\ Len(v) = Len(q) + 1
      /\ v[Len(q) + 1] = Request(t)
      /\ \A j \in 1..Len(q) : v[j] = Waiting(q)[j]
  BY <1>2, <1>3, AppendProperties
<1>5. /\ Waiting(a) \in Seq(Abstract!Requests) /\ Len(Waiting(a)) = Len(a)
      /\ \A j \in 1..Len(a) : Waiting(a)[j] = Request(a[j])
  BY <1>1, WaitingType
<1> HIDE DEF a, v
<1>6. ASSUME NEW j \in 1..(Len(q) + 1)
      PROVE  Waiting(a)[j] = v[j]
  <2>1. j \in 1..Len(q) \/ j = Len(q) + 1
    OBVIOUS
  <2>2. Waiting(a)[j] = Request(a[j])
    BY <1>1, <1>5
  <2> QED
    BY <1>1, <1>2, <1>4, <2>1, <2>2
<1>7. Waiting(a) = v
  BY <1>1, <1>4, <1>5, <1>6
<1> QED
  BY <1>7 DEF a, v

(* The instance counts and erases as the controller does.                  *)
LEMMA SameCardinality == \A S : Abstract!Cardinality(S) = Cardinality(S)
BY DEF Abstract!Cardinality, Cardinality

LEMMA SameRemoveAt ==
    ASSUME NEW q, NEW i
    PROVE  Abstract!RemoveAt(q, i) = RemoveAt(q, i)
BY DEF Abstract!RemoveAt, RemoveAt

(* As many requests are held as threads hold a permit.                     *)
LEMMA HeldCardinality ==
    ASSUME NEW S \in SUBSET Threads
    PROVE  Cardinality(Held(S)) = Cardinality(S)
<1> DEFINE f == [t \in S |-> Request(t)]
<1>1. IsFiniteSet(S)
  BY ThreadsAssumption, FS_Subset
<1>2. f \in [S -> Held(S)] /\ \A a, b \in S : f[a] = f[b] => a = b
  BY DEF Held, Request
<1>3. \A r \in Held(S) : \E t \in S : f[t] = r
  BY DEF Held
<1> HIDE DEF f
<1>4. f \in Bijection(S, Held(S))
  BY <1>2, <1>3 DEF Bijection, Injection, Surjection, IsInjective
<1>5. ExistsBijection(S, Held(S))
  BY <1>4 DEF ExistsBijection
<1> QED
  BY <1>1, <1>5, FS_Bijection

(* A request fits when neither limit is reached.                           *)
LEMMA FitsIs ==
    ASSUME IInv, NEW t \in Threads
    PROVE  Abstract!Fits(Request(t)) <=> ~GlobalFull /\ ~KindFull(kind[t])
<1> DEFINE k == kind[t]
<1>1. TypeOK /\ k \in Kinds
  BY DEF IInv, TypeOK
<1>2. active = Cardinality(Holders) /\ kindActive[k] = Cardinality(HoldersOf(k))
  BY <1>1 DEF IInv, PermitAccounting
<1>3. {Request(u) : u \in Holders} = Held(Holders)
  BY DEF Held
<1>4. Abstract!OfKind(k) = Held(HoldersOf(k))
  BY DEF Abstract!OfKind, Held, HoldersOf, Request
<1>5. Holders \in SUBSET Threads /\ HoldersOf(k) \in SUBSET Threads
  BY DEF Holders, HoldersOf
<1>6. /\ Cardinality(Held(Holders)) = active
      /\ Cardinality(Held(HoldersOf(k))) = kindActive[k]
  BY <1>2, <1>5, HeldCardinality
<1>7. Request(t).kind = k
  BY DEF Request
<1>8. Abstract!Fits(Request(t)) <=>
        /\ GlobalLimit # 0 => active < GlobalLimit
        /\ KindLimit[k] # 0 => kindActive[k] < KindLimit[k]
  BY <1>3, <1>4, <1>6, <1>7, SameCardinality DEF Abstract!Fits
<1>9. /\ active \in Nat /\ kindActive[k] \in Nat
      /\ GlobalLimit \in Nat /\ KindLimit[k] \in Nat
  BY <1>1, LimitAssumption DEF TypeOK
<1> HIDE DEF k
<1>10. /\ GlobalFull <=> GlobalLimit # 0 /\ active >= GlobalLimit
       /\ KindFull(k) <=> KindLimit[k] # 0 /\ kindActive[k] >= KindLimit[k]
  BY DEF GlobalFull, KindFull
<1>11. Abstract!Fits(Request(t)) <=> ~GlobalFull /\ ~KindFull(k)
  BY <1>8, <1>9, <1>10
<1> QED
  BY <1>11 DEF k

(* Steps that neither the queue nor the permits show.                      *)
OutOfSight ==
    /\ queue' = queue /\ Holders' = Holders
    /\ \A u \in Threads : kind'[u] = kind[u] \/ (u \notin ToSet(queue) /\ u \notin Holders)

LEMMA ThreadsOutOfSight ==
    ASSUME TypeOK, WaiterInv, QueueIsTheWaiters, NEW t \in Threads,
           \/ WaitFails(t) \/ Finish(t) \/ FirstPollPasses(t) \/ PollClaims(t)
           \/ AdmittedImmediately(t) \/ Queued(t) \/ InlineDone(t) \/ Settle(t)
           \/ RepollPasses(t) \/ RepollThrows(t) \/ Register(t) \/ RegisterInline(t)
           \/ InlineIgnored(t) \/ WaitTest(t) \/ Unregister(t) \/ Unwind(t)
           \/ AbandonGranted(t) \/ StartAcquire(t)
           \/ FirstPollThrows(t) \/ Throw(t) \/ ReleaseDone(t)
    PROVE  OutOfSight
<1>1. CASE WaitFails(t)
  <2>1. queue' = queue /\ kind' = kind
    BY <1>1
    DEF WaitFails, schedulerVars, sourceVars
  <2>2. Holders' = Holders
    BY <1>1
    DEF WaitFails, Goto, schedulerVars, sourceVars, TypeOK, WaiterInv,
        Holders, PermitPcs
  <2> QED
    BY <2>1, <2>2 DEF OutOfSight
<1>2. CASE Finish(t)
  <2>1. queue' = queue /\ kind' = kind
    BY <1>2
    DEF Finish, schedulerVars, sourceVars
  <2>2. Holders' = Holders
    BY <1>2
    DEF Finish, Goto, schedulerVars, sourceVars, TypeOK, WaiterInv, Holders,
        PermitPcs
  <2> QED
    BY <2>1, <2>2 DEF OutOfSight
<1>3. CASE FirstPollPasses(t)
  <2>1. queue' = queue /\ kind' = kind
    BY <1>3
    DEF FirstPollPasses, schedulerVars, sourceVars
  <2>2. Holders' = Holders
    BY <1>3
    DEF FirstPollPasses, Goto, schedulerVars, sourceVars, TypeOK, WaiterInv,
        Holders, PermitPcs
  <2> QED
    BY <2>1, <2>2 DEF OutOfSight
<1>4. CASE PollClaims(t)
  <2>1. queue' = queue /\ kind' = kind
    BY <1>4
    DEF PollClaims, ClaimWith, schedulerVars, threadVars
  <2>2. Holders' = Holders
    BY <1>4
    DEF PollClaims, ClaimWith, schedulerVars, threadVars, TypeOK, WaiterInv,
        Holders, PermitPcs
  <2> QED
    BY <2>1, <2>2 DEF OutOfSight
<1>5. CASE AdmittedImmediately(t)
  <2>1. queue' = queue /\ kind' = kind
    BY <1>5
    DEF AdmittedImmediately, PumpedUnlock, sourceVars
  <2>2. Holders' = Holders
    BY <1>5
    DEF AdmittedImmediately, PumpedUnlock, Goto, sourceVars, TypeOK,
        WaiterInv, Holders, PermitPcs
  <2> QED
    BY <2>1, <2>2 DEF OutOfSight
<1>6. CASE Queued(t)
  <2>1. queue' = queue /\ kind' = kind
    BY <1>6
    DEF Queued, PumpedUnlock, sourceVars
  <2>2. Holders' = Holders
    BY <1>6
    DEF Queued, PumpedUnlock, Goto, sourceVars, TypeOK, WaiterInv, Holders,
        PermitPcs
  <2> QED
    BY <2>1, <2>2 DEF OutOfSight
<1>7. CASE InlineDone(t)
  <2>1. queue' = queue /\ kind' = kind
    BY <1>7
    DEF InlineDone, PumpedUnlock
  <2>2. Holders' = Holders
    BY <1>7
    DEF InlineDone, PumpedUnlock, Goto, TypeOK, WaiterInv, Holders, PermitPcs
  <2> QED
    BY <2>1, <2>2 DEF OutOfSight
<1>8. CASE Settle(t)
  <2>1. queue' = queue /\ kind' = kind
    BY <1>8
    DEF Settle, schedulerVars, sourceVars
  <2>2. Holders' = Holders
    BY <1>8
    DEF Settle, Goto, schedulerVars, sourceVars, TypeOK, WaiterInv, Holders,
        PermitPcs
  <2> QED
    BY <2>1, <2>2 DEF OutOfSight
<1>9. CASE RepollPasses(t)
  <2>1. queue' = queue /\ kind' = kind
    BY <1>9
    DEF RepollPasses, schedulerVars, sourceVars
  <2>2. Holders' = Holders
    BY <1>9
    DEF RepollPasses, Goto, schedulerVars, sourceVars, TypeOK, WaiterInv,
        Holders, PermitPcs
  <2> QED
    BY <2>1, <2>2 DEF OutOfSight
<1>10. CASE RepollThrows(t)
  <2>1. queue' = queue /\ kind' = kind
    BY <1>10
    DEF RepollThrows, schedulerVars, sourceVars
  <2>2. Holders' = Holders
    BY <1>10
    DEF RepollThrows, Goto, schedulerVars, sourceVars, TypeOK, WaiterInv,
        Holders, PermitPcs
  <2> QED
    BY <2>1, <2>2 DEF OutOfSight
<1>11. CASE Register(t)
  <2>1. queue' = queue /\ kind' = kind
    BY <1>11
    DEF Register, schedulerVars
  <2>2. Holders' = Holders
    BY <1>11
    DEF Register, Goto, schedulerVars, TypeOK, WaiterInv, Holders, PermitPcs
  <2> QED
    BY <2>1, <2>2 DEF OutOfSight
<1>12. CASE RegisterInline(t)
  <2>1. queue' = queue /\ kind' = kind
    BY <1>12
    DEF RegisterInline, schedulerVars
  <2>2. Holders' = Holders
    BY <1>12
    DEF RegisterInline, Goto, schedulerVars, TypeOK, WaiterInv, Holders,
        PermitPcs
  <2> QED
    BY <2>1, <2>2 DEF OutOfSight
<1>13. CASE InlineIgnored(t)
  <2>1. queue' = queue /\ kind' = kind
    BY <1>13
    DEF InlineIgnored, CancelWaiterIgnored, schedulerVars
  <2>2. Holders' = Holders
    BY <1>13
    DEF InlineIgnored, CancelWaiterIgnored, Goto, schedulerVars, TypeOK,
        WaiterInv, Holders, PermitPcs
  <2> QED
    BY <2>1, <2>2 DEF OutOfSight
<1>14. CASE WaitTest(t)
  <2>1. queue' = queue /\ kind' = kind
    BY <1>14
    DEF WaitTest, schedulerVars, sourceVars
  <2>2. Holders' = Holders
    BY <1>14
    DEF WaitTest, Goto, schedulerVars, sourceVars, TypeOK, WaiterInv, Holders,
        PermitPcs
  <2> QED
    BY <2>1, <2>2 DEF OutOfSight
<1>15. CASE Unregister(t)
  <2>1. queue' = queue /\ kind' = kind
    BY <1>15
    DEF Unregister, schedulerVars
  <2>2. Holders' = Holders
    BY <1>15
    DEF Unregister, ResetRegistration, Goto, schedulerVars, TypeOK, WaiterInv,
        Holders, PermitPcs
  <2> QED
    BY <2>1, <2>2 DEF OutOfSight
<1>16. CASE Unwind(t)
  <2>1. queue' = queue /\ kind' = kind
    BY <1>16
    DEF Unwind, schedulerVars
  <2>2. Holders' = Holders
    BY <1>16
    DEF Unwind, ResetRegistration, Goto, schedulerVars, TypeOK, WaiterInv,
        Holders, PermitPcs
  <2> QED
    BY <2>1, <2>2 DEF OutOfSight
<1>17. CASE AbandonGranted(t)
  <2>1. queue' = queue /\ kind' = kind
    BY <1>17
    DEF AbandonGranted, schedulerVars, sourceVars
  <2>2. Holders' = Holders
    BY <1>17
    DEF AbandonGranted, Goto, schedulerVars, sourceVars, TypeOK, WaiterInv,
        Holders, PermitPcs
  <2> QED
    BY <2>1, <2>2 DEF OutOfSight
<1>18. CASE StartAcquire(t)
  <2>1. queue' = queue /\ \A u \in Threads \ {t} : kind'[u] = kind[u]
    BY <1>18
    DEF StartAcquire, Goto, schedulerVars, sourceVars, TypeOK
  <2>2. Holders' = Holders
    BY <1>18
    DEF StartAcquire, Goto, schedulerVars, sourceVars, TypeOK, WaiterInv,
        Holders, PermitPcs
  <2>3. t \notin ToSet(queue) /\ t \notin Holders
    BY <1>18
    DEF StartAcquire, WaiterInv, QueueIsTheWaiters, TicketPcs, Holders,
        PermitPcs
  <2> QED
    BY <2>1, <2>2, <2>3 DEF OutOfSight
<1>20. CASE FirstPollThrows(t)
  <2>1. queue' = queue /\ \A u \in Threads \ {t} : kind'[u] = kind[u]
    BY <1>20
    DEF FirstPollThrows, Leave, Goto, sourceVars, TypeOK
  <2>2. Holders' = Holders
    BY <1>20
    DEF FirstPollThrows, Leave, Goto, sourceVars, TypeOK, WaiterInv, Holders,
        PermitPcs
  <2>3. t \notin ToSet(queue) /\ t \notin Holders
    BY <1>20
    DEF FirstPollThrows, WaiterInv, QueueIsTheWaiters, TicketPcs, Holders,
        PermitPcs
  <2> QED
    BY <2>1, <2>2, <2>3 DEF OutOfSight
<1>21. CASE Throw(t)
  <2>1. queue' = queue /\ \A u \in Threads \ {t} : kind'[u] = kind[u]
    BY <1>21
    DEF Throw, Leave, Goto, sourceVars, TypeOK
  <2>2. Holders' = Holders
    BY <1>21
    DEF Throw, Leave, Goto, sourceVars, TypeOK, WaiterInv, Holders, PermitPcs
  <2>3. t \notin ToSet(queue) /\ t \notin Holders
    BY <1>21
    DEF Throw, WaiterInv, QueueIsTheWaiters, TicketPcs, Holders, PermitPcs
  <2> QED
    BY <2>1, <2>2, <2>3 DEF OutOfSight
<1>22. CASE ReleaseDone(t)
  <2>1. queue' = queue /\ \A u \in Threads \ {t} : kind'[u] = kind[u]
    BY <1>22
    DEF ReleaseDone, PumpedUnlock, Leave, Goto, sourceVars, TypeOK
  <2>2. Holders' = Holders
    BY <1>22
    DEF ReleaseDone, PumpedUnlock, Leave, Goto, sourceVars, TypeOK, WaiterInv,
        Holders, PermitPcs
  <2>3. t \notin ToSet(queue) /\ t \notin Holders
    BY <1>22
    DEF ReleaseDone, WaiterInv, QueueIsTheWaiters, TicketPcs, Holders,
        PermitPcs
  <2> QED
    BY <2>1, <2>2, <2>3 DEF OutOfSight
<1> QED
  BY <1>1, <1>2, <1>3, <1>4, <1>5, <1>6, <1>7, <1>8, <1>9, <1>10, <1>11,
     <1>12, <1>13, <1>14, <1>15, <1>16, <1>17, <1>18, <1>20, <1>21,
     <1>22

(* What a step shows of the queue and of the permits.                      *)
LEMMA QueueShows ==
    ASSUME NEW q \in Seq(Threads), queue' = q,
           \A i \in 1..Len(q) : kind'[q[i]] = kind[q[i]]
    PROVE  [i \in 1..Len(queue) |-> Request(queue[i])]' = Waiting(q)
BY DEF Waiting, Request

LEMMA HoldersShow ==
    ASSUME NEW S \in SUBSET Threads, Holders' = S, \A u \in S : kind'[u] = kind[u]
    PROVE  {Request(t) : t \in Holders}' = Held(S)
BY DEF Held, Request

LEMMA OutOfSightStutters ==
    ASSUME TypeOK, OutOfSight
    PROVE  UNCHANGED Abstract!vars
<1>1. PICK q \in Seq(Threads) : q = queue
  BY DEF TypeOK
<1>2. PICK S \in SUBSET Threads : S = Holders
  BY DEF Holders
<1>3. \A i \in 1..Len(q) : q[i] \in Threads /\ q[i] \in ToSet(q)
  BY DEF ToSet
<1>4. [i \in 1..Len(queue) |-> Request(queue[i])]' = Waiting(q)
  BY <1>1, <1>3, QueueShows DEF OutOfSight
<1>5. {Request(t) : t \in Holders}' = Held(S)
  BY <1>2, HoldersShow DEF OutOfSight
<1> QED
  BY <1>1, <1>2, <1>4, <1>5 DEF Abstract!vars, Waiting, Held

(* PumpGrant admits the oldest request that fits.                          *)
LEMMA GrantRefines ==
    ASSUME IInv, PumpGrant
    PROVE  Abstract!Next
<1>1. TypeOK /\ QueueIsTheWaiters /\ ScanInv
  BY DEF IInv
<1>2. PICK q \in Seq(Threads) : q = queue
  BY <1>1 DEF TypeOK
<1>3. PICK S \in SUBSET Threads : S = Holders
  BY DEF Holders
<1>4. PICK i \in 1..Len(q) : i = cursor
  BY <1>1, <1>2 DEF PumpGrant, PumpScanning, PumpAtEnd, TypeOK
<1>5. PICK g \in Threads : g = q[i]
  OBVIOUS
<1>6. /\ pc[g] \in TicketPcs /\ ~granted[g]
      /\ ~GlobalFull /\ ~KindFull(kind[g])
      /\ \A j \in 1..(i - 1) : KindFull(kind[q[j]])
  <2>1. pc[g] \in TicketPcs /\ ~granted[g]
    BY <1>1, <1>2, <1>5, QueuedTicket
  <2>2. ~GlobalFull /\ ~KindFull(kind[g])
    BY <1>2, <1>4, <1>5 DEF PumpGrant, PumpAtEnd
  <2>3. \A j \in 1..(i - 1) : KindFull(kind[q[j]])
    BY <1>1, <1>2, <1>4 DEF PumpGrant, PumpScanning, ScanInv
  <2> QED
    BY <2>1, <2>2, <2>3
<1>7. /\ queue' = RemoveAt(q, i) /\ kind' = kind
      /\ granted' = [granted EXCEPT ![g] = TRUE] /\ pc' = Notify(g, pc)
  BY <1>2, <1>4, <1>5 DEF PumpGrant
<1>8. Holders' = S \cup {g}
  <2>1. \A u \in Threads : pc'[u] \in PermitPcs <=> pc[u] \in PermitPcs
    BY <1>1, <1>7 DEF Notify, TypeOK, PermitPcs
  <2> QED
    BY <1>1, <1>3, <1>6, <1>7, <2>1 DEF Holders, TypeOK, TicketPcs, PermitPcs
<1>9. [j \in 1..Len(queue) |-> Request(queue[j])]' = RemoveAt(Waiting(q), i)
  <2>1. RemoveAt(q, i) \in Seq(Threads)
    BY RemoveAtProperties
  <2>2. [j \in 1..Len(queue) |-> Request(queue[j])]' = Waiting(RemoveAt(q, i))
    BY <1>7, <2>1, QueueShows
  <2> QED
    BY <1>1, <2>2, WaitingWithout
<1>10. {Request(t) : t \in Holders}' = Held(S) \cup {Request(g)}
  <2>1. {Request(t) : t \in Holders}' = Held(S \cup {g})
    BY <1>7, <1>8, HoldersShow
  <2> QED
    BY <2>1 DEF Held
<1>11. /\ Len(Waiting(q)) = Len(q)
       /\ \A j \in 1..Len(q) : Waiting(q)[j] = Request(q[j])
  BY <1>1, WaitingType
<1>12. Abstract!Fits(Waiting(q)[i])
  BY <1>5, <1>6, <1>11, FitsIs
<1>13. \A j \in 1..(i - 1) : ~Abstract!Fits(Waiting(q)[j])
  <2> SUFFICES ASSUME NEW j \in 1..(i - 1)
               PROVE  ~Abstract!Fits(Waiting(q)[j])
    OBVIOUS
  <2>1. j \in 1..Len(q) /\ q[j] \in Threads
    OBVIOUS
  <2> QED
    BY <1>6, <1>11, <2>1, FitsIs
<1>14. /\ [j \in 1..Len(queue) |-> Request(queue[j])] = Waiting(q)
       /\ {Request(t) : t \in Holders} = Held(S)
  BY <1>2, <1>3 DEF Waiting, Held
<1>15. Abstract!Grant(i)
  BY <1>5, <1>9, <1>10, <1>11, <1>12, <1>13, <1>14, SameRemoveAt DEF Abstract!Grant
<1> QED
  BY <1>11, <1>14, <1>15 DEF Abstract!Next, Abstract!GrantSome

(* A new ticket joins the end of the queue.                                *)
LEMMA EnqueueRefines ==
    ASSUME IInv, NEW t \in Threads, Enqueue(t)
    PROVE  Abstract!Next
<1>1. TypeOK /\ QueueIsTheWaiters /\ WaiterInv
  BY DEF IInv
<1>2. PICK q \in Seq(Threads) : q = queue
  BY <1>1 DEF TypeOK
<1>3. PICK S \in SUBSET Threads : S = Holders
  BY DEF Holders
<1>4. /\ pc[t] = "enqueue" /\ queue' = Append(q, t) /\ kind' = kind
      /\ granted' = granted /\ pc' = [pc EXCEPT ![t] = "enqueueing"]
  BY <1>2 DEF Enqueue, Goto
<1>5. Holders' = S
  BY <1>1, <1>3, <1>4 DEF Holders, TypeOK, WaiterInv, PermitPcs
<1>6. t \notin ToSet(q) /\ t \notin S
  BY <1>1, <1>2, <1>3, <1>4 DEF QueueIsTheWaiters, TicketPcs, Holders, PermitPcs
<1>7. [j \in 1..Len(queue) |-> Request(queue[j])]' = Append(Waiting(q), Request(t))
  <2>1. Append(q, t) \in Seq(Threads)
    OBVIOUS
  <2>2. [j \in 1..Len(queue) |-> Request(queue[j])]' = Waiting(Append(q, t))
    BY <1>4, <2>1, QueueShows
  <2> QED
    BY <1>1, <2>2, WaitingAppend
<1>8. {Request(u) : u \in Holders}' = Held(S)
  BY <1>4, <1>5, HoldersShow
<1>9. /\ [j \in 1..Len(queue) |-> Request(queue[j])] = Waiting(q)
      /\ {Request(u) : u \in Holders} = Held(S)
  BY <1>2, <1>3 DEF Waiting, Held
<1>10. ~Abstract!Involved(Request(t).thread)
  <2>1. Request(t).thread = t
    BY DEF Request
  <2>2. \A i \in 1..Len(q) : q[i] # t
    BY <1>6 DEF ToSet
  <2>3. /\ Len(Waiting(q)) = Len(q)
        /\ \A j \in 1..Len(q) : Waiting(q)[j] = Request(q[j])
    BY <1>1, WaitingType
  <2>4. ASSUME NEW i \in 1..Len(Waiting(q))
        PROVE  Waiting(q)[i].thread # t
    <3>1. i \in 1..Len(q) /\ Waiting(q)[i] = Request(q[i])
      BY <2>3
    <3>2. Request(q[i]).thread = q[i]
      BY DEF Request
    <3> QED
      BY <2>2, <3>1, <3>2
  <2>5. \A r \in Held(S) : r.thread # t
    BY <1>6 DEF Held, Request
  <2> QED
    BY <1>9, <2>1, <2>4, <2>5 DEF Abstract!Involved
<1>11. Request(t) \in Abstract!Requests
  BY <1>1 DEF TypeOK, Request, Abstract!Requests
<1>12. Abstract!Enter(Request(t))
  BY <1>7, <1>8, <1>9, <1>10 DEF Abstract!Enter
<1> QED
  BY <1>11, <1>12 DEF Abstract!Next

(* A ticket leaves the queue without a permit, if it is still there.       *)
LEMMA WithdrawRefines ==
    ASSUME IInv, NEW t \in Threads, queue' = Without(queue, t), Holders' = Holders,
           \A u \in Threads : kind'[u] = kind[u] \/ (u = t /\ u \notin Holders)
    PROVE  [Abstract!Next]_(Abstract!vars)
<1>1. TypeOK /\ QueueIsTheWaiters
  BY DEF IInv
<1>2. PICK q \in Seq(Threads) : q = queue
  BY <1>1 DEF TypeOK
<1>3. PICK S \in SUBSET Threads : S = Holders
  BY DEF Holders
<1>4. CASE t \notin ToSet(q)
  <2>1. queue' = queue
    BY <1>2, <1>4 DEF Without, ToSet
  <2>2. OutOfSight
    BY <1>2, <1>4, <2>1 DEF OutOfSight
  <2> QED
    BY <1>1, <2>2, OutOfSightStutters
<1>5. CASE t \in ToSet(q)
  <2>1. PICK i \in 1..Len(q) : q[i] = t /\ Without(q, t) = RemoveAt(q, i)
    <3> DEFINE at == CHOOSE i \in 1..Len(q) : q[i] = t
    <3>1. \E i \in 1..Len(q) : q[i] = t
      BY <1>5 DEF ToSet
    <3>2. at \in 1..Len(q) /\ q[at] = t
      BY <3>1
    <3>3. Without(q, t) = RemoveAt(q, at)
      BY <3>1 DEF Without
    <3> HIDE DEF at
    <3> QED
      BY <3>2, <3>3
  <2>2. PICK r \in Seq(Threads) : r = RemoveAt(q, i)
    BY RemoveAtProperties
  <2>3. ToSet(r) = ToSet(q) \ {t}
    BY <1>1, <1>2, <2>1, <2>2, RemoveAtSet DEF QueueIsTheWaiters
  <2>4. \A j \in 1..Len(r) : r[j] \in Threads /\ r[j] # t
    BY <2>3 DEF ToSet
  <2>5. [j \in 1..Len(queue) |-> Request(queue[j])]' = RemoveAt(Waiting(q), i)
    <3>1. queue' = r
      BY <1>2, <2>1, <2>2
    <3>2. [j \in 1..Len(queue) |-> Request(queue[j])]' = Waiting(r)
      BY <2>4, <3>1, QueueShows
    <3> QED
      BY <1>1, <2>2, <3>2, WaitingWithout
  <2>6. {Request(u) : u \in Holders}' = Held(S)
    <3>1. \A u \in S : kind'[u] = kind[u]
      BY <1>3
    <3> QED
      BY <1>3, <3>1, HoldersShow
  <2>7. /\ [j \in 1..Len(queue) |-> Request(queue[j])] = Waiting(q)
        /\ {Request(u) : u \in Holders} = Held(S)
    BY <1>2, <1>3 DEF Waiting, Held
  <2>8. Abstract!Withdraw(i)
    BY <2>5, <2>6, <2>7, SameRemoveAt DEF Abstract!Withdraw
  <2>9. Len(Waiting(q)) = Len(q)
    BY <1>1, WaitingType
  <2> QED
    BY <2>7, <2>8, <2>9 DEF Abstract!Next
<1> QED
  BY <1>2, <1>4, <1>5

(* A permit goes back.                                                     *)
LEMMA ReleaseRefines ==
    ASSUME IInv, NEW t \in Threads, ReleasePermit(t)
    PROVE  Abstract!Next
<1>1. TypeOK /\ WaiterInv
  BY DEF IInv
<1>2. PICK q \in Seq(Threads) : q = queue
  BY <1>1 DEF TypeOK
<1>3. PICK S \in SUBSET Threads : S = Holders
  BY DEF Holders
<1>4. /\ pc[t] = "release" /\ queue' = q /\ kind' = kind /\ granted' = granted
      /\ pc' = [pc EXCEPT ![t] = "releasing"]
  BY <1>2 DEF ReleasePermit, Goto
<1>5. t \in S /\ Holders' = S \ {t}
  BY <1>1, <1>3, <1>4 DEF Holders, TypeOK, WaiterInv, PermitPcs
<1>6. [j \in 1..Len(queue) |-> Request(queue[j])]' = Waiting(q)
  BY <1>4, QueueShows
<1>7. {Request(u) : u \in Holders}' = Held(S) \ {Request(t)}
  <2>1. {Request(u) : u \in Holders}' = Held(S \ {t})
    BY <1>4, <1>5, HoldersShow
  <2> QED
    BY <2>1 DEF Held, Request
<1>8. /\ [j \in 1..Len(queue) |-> Request(queue[j])] = Waiting(q)
      /\ {Request(u) : u \in Holders} = Held(S)
  BY <1>2, <1>3 DEF Waiting, Held
<1>9. Abstract!Return(Request(t)) /\ Request(t) \in Held(S)
  BY <1>5, <1>6, <1>7, <1>8 DEF Abstract!Return, Held
<1> QED
  BY <1>8, <1>9 DEF Abstract!Next

LEMMA RefinementStep == IInv /\ [Next]_vars => [Abstract!Next]_(Abstract!vars)
<1> SUFFICES ASSUME IInv, [Next]_vars
             PROVE  [Abstract!Next]_(Abstract!vars)
  OBVIOUS
<1>1. TypeOK /\ WaiterInv /\ QueueIsTheWaiters /\ RegistrationInv
  BY DEF IInv
<1>2. ASSUME OutOfSight
      PROVE  [Abstract!Next]_(Abstract!vars)
  BY <1>1, <1>2, OutOfSightStutters
<1>3. ASSUME NEW t \in Threads,
           \/ WaitFails(t) \/ Finish(t) \/ FirstPollPasses(t) \/ PollClaims(t)
           \/ AdmittedImmediately(t) \/ Queued(t) \/ InlineDone(t) \/ Settle(t)
           \/ RepollPasses(t) \/ RepollThrows(t) \/ Register(t) \/ RegisterInline(t)
           \/ InlineIgnored(t) \/ WaitTest(t) \/ Unregister(t) \/ Unwind(t)
           \/ AbandonGranted(t) \/ StartAcquire(t)
           \/ FirstPollThrows(t) \/ Throw(t) \/ ReleaseDone(t)
      PROVE  [Abstract!Next]_(Abstract!vars)
  BY <1>1, <1>2, <1>3, ThreadsOutOfSight
<1>4. ASSUME NEW t \in Threads, Enqueue(t) \/ ReleasePermit(t)
      PROVE  [Abstract!Next]_(Abstract!vars)
  BY <1>4, EnqueueRefines, ReleaseRefines
<1>5. CASE PumpGrant
  BY <1>5, GrantRefines
<1>6. ASSUME NEW t \in Threads, InlineCancels(t)
      PROVE  [Abstract!Next]_(Abstract!vars)
  <2>1. queue' = Without(queue, t) /\ kind' = kind
    BY <1>6 DEF InlineCancels, CancelWaiterMark
  <2>2. Holders' = Holders
    BY <1>1, <1>6
    DEF InlineCancels, CancelWaiterMark, Goto, TypeOK, Holders, PermitPcs
  <2> QED
    BY <2>1, <2>2, WithdrawRefines
<1>7. ASSUME NEW t \in Threads, AbandonQueued(t)
      PROVE  [Abstract!Next]_(Abstract!vars)
  <2>1. /\ pc[t] = "abandon" /\ ~granted[t]
        /\ queue' = IF cancelled[t] THEN queue ELSE Without(queue, t)
        /\ kind' = [kind EXCEPT ![t] = AnyKind]
    BY <1>7 DEF AbandonQueued, Leave
  <2>2. Holders' = Holders /\ t \notin Holders
    BY <1>1, <1>7, <2>1
    DEF AbandonQueued, Leave, Goto, TypeOK, Holders, PermitPcs
  <2>3. queue' = Without(queue, t)
    <3>1. CASE cancelled[t]
      <4>1. t \notin ToSet(queue)
        BY <1>1, <3>1 DEF QueueIsTheWaiters
      <4>2. Without(queue, t) = queue
        BY <1>1, <4>1 DEF Without, ToSet, TypeOK
      <4> QED
        BY <2>1, <3>1, <4>2
    <3> QED
      BY <2>1, <3>1
  <2>4. \A u \in Threads : kind'[u] = kind[u] \/ (u = t /\ u \notin Holders)
    BY <1>1, <2>1, <2>2 DEF TypeOK
  <2> QED
    BY <2>2, <2>3, <2>4, WithdrawRefines
<1>8. ASSUME NEW s \in Sources, NEW w \in callbacks[s], CallbackCancels(s, w)
      PROVE  [Abstract!Next]_(Abstract!vars)
  <2>1. w \in Threads
    BY <1>1 DEF TypeOK
  <2>2. queue' = Without(queue, w) /\ kind' = kind
    BY <1>8 DEF CallbackCancels, CancelWaiterMark, CallNext, threadVars
  <2>3. Holders' = Holders
    BY <1>8 DEF CallbackCancels, CancelWaiterMark, CallNext, threadVars, Holders
  <2> QED
    BY <2>1, <2>2, <2>3, WithdrawRefines
<1>9. ASSUME NEW s \in Sources, ClaimNotify(s)
      PROVE  [Abstract!Next]_(Abstract!vars)
  <2>1. /\ queue' = queue /\ kind' = kind /\ granted' = granted
        /\ pc' = Notify(target[s], pc)
    BY <1>9 DEF ClaimNotify
  <2>2. \A u \in Threads : pc'[u] \in PermitPcs <=> pc[u] \in PermitPcs
    BY <1>1, <2>1 DEF Notify, TypeOK, PermitPcs
  <2>3. Holders' = Holders
    BY <2>1, <2>2 DEF Holders
  <2> QED
    BY <1>2, <2>1, <2>3 DEF OutOfSight
<1>10. ASSUME \/ PumpSkip \/ UNCHANGED vars
              \/ \E s \in Sources :
                   \/ ClaimLock(s) \/ ClaimFinish(s) \/ WatchdogClaim(s) \/ Cancel(s)
                   \/ Expire(s) \/ NewSource(s)
                   \/ \E w \in callbacks[s] : CallbackIgnored(s, w)
       PROVE  [Abstract!Next]_(Abstract!vars)
  <2>1. UNCHANGED <<queue, kind, granted, pc>>
    BY <1>10
    DEF PumpSkip, ClaimLock, ClaimFinish, WatchdogClaim, Cancel, ClaimWith, Expire,
        NewSource, CallbackIgnored, CallNext, CancelWaiterIgnored, schedulerVars,
        threadVars, sourceVars, vars
  <2>2. Holders' = Holders
    BY <2>1 DEF Holders
  <2> QED
    BY <1>2, <2>1, <2>2 DEF OutOfSight
<1> QED
  BY <1>3, <1>4, <1>5, <1>6, <1>7, <1>8, <1>9, <1>10
  DEF Next, PumpLocked, OptionalStep, ThreadStep, LockingStep, ClaimStep,
      ClaimCall, Environment

(* What callers see of the mutex, the scan, the callbacks and every path   *)
(* out of Acquire is a queue that admits the oldest request that fits.     *)
(* (PipelineScheduler)                                                     *)
THEOREM ImplementsTheQueue == Spec => ImplementsAdmission
<1>1. Init => Abstract!Init
  BY DEF Init, Abstract!Init, Holders
<1> QED
  BY <1>1, RefinementStep, Invariant, PTL DEF Spec, ImplementsAdmission, Abstract!Spec

=============================================================================
