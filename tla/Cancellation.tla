---------------------------- MODULE Cancellation ----------------------------
(***************************************************************************)
(* detail::CancellationState and the process-wide DeadlineService.         *)
(*                                                                         *)
(* A source stops for the first reason claimed.  The claim may be made by  *)
(* a caller of Cancel, by a poll that finds the deadline due, or by the    *)
(* watchdog thread; it disarms the watchdog entry, wakes the threads       *)
(* blocked in Wait, and runs the registered callbacks under the mutex that *)
(* Register and Unregister take.  The watchdog sleeps until the earliest   *)
(* deadline, at most MaximumWait at a time, and learns of every change of  *)
(* its schedule from a revision number and a condition variable; the model *)
(* keeps only whether the number has moved since the watchdog read it.     *)
(*                                                                         *)
(* A thread owns at most one source at a time and is in at most one call.  *)
(* A source's entry in the schedule is identified with the source, which   *)
(* registers at most once; timer says whether its handle is stored.        *)
(***************************************************************************)
EXTENDS Naturals, Sequences, FiniteSets, SequencesExt

CONSTANTS
    Threads,      \* application threads
    States,       \* CancellationState objects
    Watchdog,     \* the thread that runs DeadlineService::Run
    Free,         \* owner of a mutex nobody holds
    None,         \* no state, or no thread
    NoDeadline,   \* the deadline of a plain source
    Deadlines,    \* the deadlines sources are made with
    MaximumWait,  \* kMaximumWait in clock ticks
    MaxTime       \* bound of the clock

ASSUME ActorAssumption ==
    /\ Watchdog \notin Threads
    /\ Free \notin Threads \cup {Watchdog}
    /\ None \notin Threads \cup States
ASSUME ThreadsAssumption == IsFiniteSet(Threads)
ASSUME StatesAssumption == IsFiniteSet(States)
(* time_point::max: a saturated timeout, which never comes due.            *)
Forever == MaxTime + 1

ASSUME TimeAssumption ==
    /\ MaximumWait \in Nat \ {0}
    /\ MaxTime \in Nat
    /\ NoDeadline \notin Nat
    /\ Deadlines \subseteq 0..Forever \cup {NoDeadline}

VARIABLES
    now,         \* the steady clock
    \* CancellationState, per state
    life,        \* "absent", "alive" or "dying"
    owners,      \* threads that hold a strong reference
    deadline,    \* deadline_
    reason,      \* reason_
    timer,       \* timer_ is not zero
    waitMutex,   \* owner of wait_mutex_
    cbMutex,     \* owner of mutex_
    callbacks,   \* callbacks_: threads whose callback waits to be called
    running,     \* the thread whose callback is being run, or None
    \* DeadlineService
    svcMutex,    \* owner of mutex_
    schedule,    \* states with an entry
    changed,     \* revision_ is not the one the sleeping worker saw
    \* the locals of DeadlineService::Run
    due,         \* states collected and not yet fired
    scanned,     \* the clock value this scan compares with
    until,       \* wait_until's deadline
    \* the calls in progress
    pc,          \* where each thread is
    object,      \* the state each thread works on
    stopping,    \* the reason each thread is about to claim
    disarmFor,   \* the caller of DisarmDeadline
    calls        \* how often the registered callback of a thread was called

lifeVars    == <<life, owners, deadline>>
cbVars      == <<cbMutex, callbacks, running, calls>>
serviceVars == <<svcMutex, schedule, changed>>
runVars     == <<due, scanned, until>>
callVars    == <<object, stopping, disarmFor>>
tokenVars   == <<now, lifeVars, reason, timer, waitMutex>>
watchVars   == <<serviceVars, runVars>>
dataVars    == <<tokenVars, cbVars, watchVars, callVars>>
vars        == <<dataVars, pc>>

Actors == Threads \cup {Watchdog}

ClaimPcs == {"disarm", "unregister", "notifyService", "releaseWaiters",
             "notifyWaiters", "lockCallbacks", "calling", "inCallback"}
ThreadPcs == {"idle", "arm", "armNotify", "store", "recheck", "claim",
              "lockWait", "test", "block", "leaveWait", "blocked", "registering", "registered",
              "registeredInline", "unregistering"} \cup ClaimPcs
WatchdogPcs == {"scan", "collect", "asleep", "woken", "fire", "claim", "drop"}
                   \cup ClaimPcs

Due(s)     == deadline[s] # NoDeadline /\ deadline[s] <= now
Goto(a, l) == pc' = [pc EXCEPT ![a] = l]

(* A goes on from one position to the next.                                *)
At(a, from, to) == pc[a] = from /\ Goto(a, to)

(* Actors between a successful claim of s and its notify_all.              *)
Releasing(a, s) ==
    /\ object[a] = s
    /\ \/ pc[a] \in {"releaseWaiters", "notifyWaiters"}
       \/ /\ pc[a] \in {"disarm", "unregister", "notifyService"}
          /\ disarmFor[a] = "claim"

(* What follows a claim: the call returns, the watchdog drops its          *)
(* reference.                                                              *)
AfterClaim(a) == IF a = Watchdog THEN "drop" ELSE "idle"

(* notify_all on the service's condition variable: only a sleeping worker  *)
(* is affected.                                                            *)
WakeWatchdog(pcs) ==
    IF pcs[Watchdog] = "asleep" THEN [pcs EXCEPT ![Watchdog] = "woken"] ELSE pcs

-----------------------------------------------------------------------------
(* WithDeadline and ArmDeadline.  A deadline that is due already is not    *)
(* handed to the watchdog.                                                 *)
Create(t, s, d) ==
    /\ pc[t] = "idle" /\ object[t] = None /\ life[s] = "absent"
    /\ s \notin schedule \cup ToSet(due)
    /\ life' = [life EXCEPT ![s] = "alive"]
    /\ owners' = [owners EXCEPT ![s] = {t}]
    /\ deadline' = [deadline EXCEPT ![s] = d]
    /\ object' = [object EXCEPT ![t] = s]
    /\ Goto(t, IF d = NoDeadline \/ d <= now THEN "idle" ELSE "arm")
    /\ UNCHANGED <<now, reason, timer, waitMutex, cbVars, watchVars, stopping,
                   disarmFor>>

(* DeadlineService::Register, one critical section.                        *)
ArmRegister(t) ==
    /\ At(t, "arm", "armNotify") /\ svcMutex = Free
    /\ schedule' = schedule \cup {object[t]}
    /\ changed' = TRUE
    /\ UNCHANGED <<tokenVars, cbVars, svcMutex, runVars, callVars>>

ArmNotify(t) ==
    /\ pc[t] = "armNotify"
    /\ pc' = WakeWatchdog([pc EXCEPT ![t] = "store"])
    /\ UNCHANGED dataVars

(* Registering throws: WithDeadline unwinds and destroys the new state.    *)
ArmFails(t) ==
    /\ At(t, "arm", "disarm") /\ svcMutex = Free
    /\ owners' = [owners EXCEPT ![object[t]] = {}]
    /\ life' = [life EXCEPT ![object[t]] = "dying"]
    /\ disarmFor' = [disarmFor EXCEPT ![t] = "destroy"]
    /\ UNCHANGED <<now, deadline, reason, timer, waitMutex, cbVars, watchVars,
                   object, stopping>>

ArmStore(t) ==
    /\ At(t, "store", "recheck")
    /\ timer' = [timer EXCEPT ![object[t]] = TRUE]
    /\ UNCHANGED <<now, lifeVars, reason, waitMutex, cbVars, watchVars,
                   callVars>>

(* Mutant: the handle stored after the deadline fired is left behind.      *)
ArmWithoutRecheck(t) ==
    At(t, "recheck", "idle") /\ UNCHANGED dataVars

(* The deadline may have fired before its handle was stored.               *)
ArmRecheck(t) ==
    /\ pc[t] = "recheck"
    /\ IF reason[object[t]] = "none"
       THEN Goto(t, "idle") /\ UNCHANGED disarmFor
       ELSE Goto(t, "disarm") /\ disarmFor' = [disarmFor EXCEPT ![t] = "arm"]
    /\ UNCHANGED <<tokenVars, cbVars, watchVars, object, stopping>>

(* A thread gets a token from another that has one.                        *)
Share(t, s) ==
    /\ pc[t] = "idle" /\ object[t] = None
    /\ \E o \in owners[s] \cap Threads : pc[o] = "idle"
    /\ owners' = [owners EXCEPT ![s] = @ \cup {t}]
    /\ object' = [object EXCEPT ![t] = s]
    /\ UNCHANGED <<now, life, deadline, reason, timer, waitMutex, cbVars,
                   watchVars, stopping, disarmFor, pc>>

(* The actor gives up its reference; the last one destroys the state.      *)
Release(a, s, next) ==
    /\ owners' = [owners EXCEPT ![s] = @ \ {a}]
    /\ IF owners[s] = {a}
       THEN /\ life' = [life EXCEPT ![s] = "dying"]
            /\ disarmFor' = [disarmFor EXCEPT ![a] = "destroy"]
            /\ Goto(a, "disarm")
            /\ UNCHANGED object
       ELSE /\ object' = [object EXCEPT ![a] = None]
            /\ Goto(a, next)
            /\ UNCHANGED <<life, disarmFor>>

Drop(t) ==
    /\ pc[t] = "idle" /\ object[t] # None
    /\ Release(t, object[t], "idle")
    /\ UNCHANGED <<now, deadline, reason, timer, waitMutex, cbVars, watchVars,
                   stopping>>

-----------------------------------------------------------------------------
(* DisarmDeadline: exchange the handle, then unregister it if there was    *)
(* one.  Its callers are Claim, ArmDeadline and the destructor.            *)
DisarmedPc(a) ==
    CASE disarmFor[a] = "claim"   -> "releaseWaiters"
      [] disarmFor[a] = "arm"     -> "idle"
      [] disarmFor[a] = "destroy" -> IF a = Watchdog THEN "fire" ELSE "idle"

(* The destructor ends with the disarm, and the state is gone.             *)
Disarmed(a, pcs) ==
    /\ pc' = [pcs EXCEPT ![a] = DisarmedPc(a)]
    /\ disarmFor' = [disarmFor EXCEPT ![a] = "none"]
    /\ IF disarmFor[a] = "destroy"
       THEN /\ life' = [life EXCEPT ![object[a]] = "absent"]
            /\ deadline' = [deadline EXCEPT ![object[a]] = NoDeadline]
            /\ reason' = [reason EXCEPT ![object[a]] = "none"]
            /\ object' = [object EXCEPT ![a] = None]
       ELSE UNCHANGED <<life, deadline, reason, object>>

Disarm(a) ==
    /\ pc[a] = "disarm"
    /\ timer' = [timer EXCEPT ![object[a]] = FALSE]
    /\ IF timer[object[a]]
       THEN /\ Goto(a, "unregister")
            /\ UNCHANGED <<life, deadline, reason, object, disarmFor>>
       ELSE Disarmed(a, pc)
    /\ UNCHANGED <<now, owners, waitMutex, cbVars, watchVars, stopping>>

(* Mutant: the entry stays in the schedule.                                *)
UnregisterNothing(a) ==
    /\ pc[a] = "unregister" /\ svcMutex = Free
    /\ Disarmed(a, pc)
    /\ UNCHANGED <<now, owners, timer, waitMutex, cbVars, watchVars, stopping>>

(* DeadlineService::Unregister, one critical section.  It finds nothing    *)
(* when the worker took the entry first.                                   *)
UnregisterEntry(a) ==
    /\ pc[a] = "unregister" /\ svcMutex = Free
    /\ IF object[a] \in schedule
       THEN /\ schedule' = schedule \ {object[a]}
            /\ changed' = TRUE
            /\ Goto(a, "notifyService")
            /\ UNCHANGED <<life, deadline, reason, object, disarmFor>>
       ELSE Disarmed(a, pc) /\ UNCHANGED <<schedule, changed>>
    /\ UNCHANGED <<now, owners, timer, waitMutex, cbVars, svcMutex, runVars,
                   stopping>>

NotifyService(a) ==
    /\ pc[a] = "notifyService"
    /\ Disarmed(a, WakeWatchdog(pc))
    /\ UNCHANGED <<now, owners, timer, waitMutex, cbVars, watchVars, stopping>>

-----------------------------------------------------------------------------
(* Cancel, and the two polls that claim: CancellationToken::reason and the *)
(* poll at the start of Wait.  A poll that finds nothing due, or a reason, *)
(* only returns it.                                                        *)
StartClaim(t, r) ==
    /\ At(t, "idle", "claim") /\ object[t] # None
    /\ stopping' = [stopping EXCEPT ![t] = r]
    /\ UNCHANGED <<tokenVars, cbVars, watchVars, object, disarmFor>>

Cancel(t) == StartClaim(t, "cancelled")

Poll(t) ==
    /\ object[t] # None
    /\ reason[object[t]] = "none" /\ Due(object[t])
    /\ StartClaim(t, "deadline")

(* Claim's compare-exchange; a claim that lost returns at once.            *)
ClaimReason(a) ==
    /\ pc[a] = "claim"
    /\ IF reason[object[a]] = "none"
       THEN /\ reason' = [reason EXCEPT ![object[a]] = stopping[a]]
            /\ disarmFor' = [disarmFor EXCEPT ![a] = "claim"]
            /\ Goto(a, "disarm")
       ELSE Goto(a, AfterClaim(a)) /\ UNCHANGED <<reason, disarmFor>>
    /\ stopping' = [stopping EXCEPT ![a] = "none"]
    /\ UNCHANGED <<now, lifeVars, timer, waitMutex, cbVars, watchVars, object>>

(* Mutant: notify_all without taking the wait mutex first.                 *)
ReleaseWaitersUnlocked(a) ==
    At(a, "releaseWaiters", "notifyWaiters") /\ UNCHANGED dataVars

(* Take and leave the wait mutex, then notify_all.                         *)
ReleaseWaiters(a) ==
    /\ At(a, "releaseWaiters", "notifyWaiters") /\ waitMutex[object[a]] = Free
    /\ UNCHANGED dataVars

NotifyWaiters(a) ==
    /\ pc[a] = "notifyWaiters"
    /\ pc' = [x \in Actors |->
                 IF x = a THEN "lockCallbacks"
                 ELSE IF pc[x] = "blocked" /\ object[x] = object[a]
                      THEN "lockWait" ELSE pc[x]]
    /\ UNCHANGED dataVars

LockCallbacks(a) ==
    /\ At(a, "lockCallbacks", "calling") /\ cbMutex[object[a]] = Free
    /\ cbMutex' = [cbMutex EXCEPT ![object[a]] = a]
    /\ UNCHANGED <<tokenVars, callbacks, running, calls, watchVars, callVars>>

(* One callback; the registry is a set, so they run in any order.          *)
CallBack(a) ==
    /\ At(a, "calling", "inCallback")
    /\ \E t \in callbacks[object[a]] :
        /\ callbacks' = [callbacks EXCEPT ![object[a]] = @ \ {t}]
        /\ running' = [running EXCEPT ![object[a]] = t]
        /\ calls' = [calls EXCEPT ![t] = @ + 1]
    /\ UNCHANGED <<tokenVars, cbMutex, watchVars, callVars>>

CallbackReturns(a) ==
    /\ At(a, "inCallback", "calling")
    /\ running' = [running EXCEPT ![object[a]] = None]
    /\ UNCHANGED <<tokenVars, cbMutex, callbacks, calls, watchVars, callVars>>

ClaimReturns(a) ==
    /\ pc[a] = "calling" /\ callbacks[object[a]] = {}
    /\ cbMutex' = [cbMutex EXCEPT ![object[a]] = Free]
    /\ Goto(a, AfterClaim(a))
    /\ UNCHANGED <<tokenVars, callbacks, running, calls, watchVars, callVars>>

-----------------------------------------------------------------------------
(* Wait, after a poll that claimed nothing.                                *)
Wait(t) ==
    /\ At(t, "idle", "lockWait") /\ object[t] # None
    /\ reason[object[t]] = "none" /\ ~Due(object[t])
    /\ UNCHANGED dataVars

WaitLock(t) ==
    /\ At(t, "lockWait", "test") /\ waitMutex[object[t]] = Free
    /\ waitMutex' = [waitMutex EXCEPT ![object[t]] = t]
    /\ UNCHANGED <<now, lifeVars, reason, timer, cbVars, watchVars, callVars>>

(* The predicate, and then either the return or the block, both of which   *)
(* give up the mutex.                                                      *)
WaitTest(t) ==
    /\ pc[t] = "test"
    /\ Goto(t, IF reason[object[t]] = "none" THEN "block" ELSE "leaveWait")
    /\ UNCHANGED dataVars

WaitUnlock(t) ==
    /\ pc[t] \in {"block", "leaveWait"}
    /\ waitMutex' = [waitMutex EXCEPT ![object[t]] = Free]
    /\ Goto(t, IF pc[t] = "block" THEN "blocked" ELSE "idle")
    /\ UNCHANGED <<now, lifeVars, reason, timer, cbVars, watchVars, callVars>>

-----------------------------------------------------------------------------
(* A CancellationRegistration on the stack of thread t.                    *)
StartRegister(t) ==
    /\ At(t, "idle", "registering") /\ object[t] # None
    /\ UNCHANGED dataVars

(* Register stores the callback, or runs it inline on a claimed state and  *)
(* returns the handle 0.                                                   *)
RegisterStored(t) ==
    /\ At(t, "registering", "registered") /\ cbMutex[object[t]] = Free
    /\ reason[object[t]] = "none"
    /\ callbacks' = [callbacks EXCEPT ![object[t]] = @ \cup {t}]
    /\ UNCHANGED <<tokenVars, cbMutex, running, calls, watchVars, callVars>>

(* Mutant: a late registration is dropped, as its claim is over.           *)
RegisterDropped(t) ==
    /\ At(t, "registering", "registeredInline") /\ cbMutex[object[t]] = Free
    /\ reason[object[t]] # "none"
    /\ UNCHANGED dataVars

RegisterInline(t) ==
    /\ At(t, "registering", "registeredInline") /\ cbMutex[object[t]] = Free
    /\ reason[object[t]] # "none"
    /\ calls' = [calls EXCEPT ![t] = @ + 1]
    /\ UNCHANGED <<tokenVars, cbMutex, callbacks, running, watchVars,
                   callVars>>

(* ~CancellationRegistration.  Handle 0 needs no lock.                     *)
DestroyRegistration(t) ==
    At(t, "registered", "unregistering") /\ UNCHANGED dataVars

DestroyInline(t) ==
    /\ At(t, "registeredInline", "idle")
    /\ calls' = [calls EXCEPT ![t] = 0]
    /\ UNCHANGED <<tokenVars, cbMutex, callbacks, running, watchVars,
                   callVars>>

(* Mutant: Unregister does not take the mutex.                             *)
UnregisterUnlocked(t) ==
    /\ At(t, "unregistering", "idle")
    /\ callbacks' = [callbacks EXCEPT ![object[t]] = @ \ {t}]
    /\ calls' = [calls EXCEPT ![t] = 0]
    /\ UNCHANGED <<tokenVars, cbMutex, running, watchVars, callVars>>

Unregister(t) ==
    /\ At(t, "unregistering", "idle") /\ cbMutex[object[t]] = Free
    /\ callbacks' = [callbacks EXCEPT ![object[t]] = @ \ {t}]
    /\ calls' = [calls EXCEPT ![t] = 0]
    /\ UNCHANGED <<tokenVars, cbMutex, running, watchVars, callVars>>

-----------------------------------------------------------------------------
(* DeadlineService::Run.  A scan holds the service mutex from its clock    *)
(* read until it sleeps or has collected every due entry.                  *)
Scan ==
    /\ At(Watchdog, "scan", "collect") /\ svcMutex = Free
    /\ svcMutex' = Watchdog
    /\ scanned' = now
    /\ UNCHANGED <<tokenVars, cbVars, schedule, changed, due, until, callVars>>

(* The head of the schedule, if it is due.                                 *)
Collected(s) ==
    deadline[s] <= scanned /\ \A x \in schedule : deadline[s] <= deadline[x]
NothingDue == \A s \in schedule : deadline[s] > scanned

Collect ==
    /\ pc[Watchdog] = "collect"
    /\ \E s \in schedule :
        /\ Collected(s)
        /\ schedule' = schedule \ {s}
        /\ due' = Append(due, s)
    /\ UNCHANGED <<tokenVars, cbVars, svcMutex, changed, scanned, until,
                   callVars, pc>>

(* Mutant: entries are fired under the service mutex.                      *)
FireLocked ==
    /\ At(Watchdog, "collect", "fire") /\ NothingDue /\ due # <<>>
    /\ UNCHANGED dataVars

CollectedAll ==
    /\ At(Watchdog, "collect", "fire") /\ NothingDue /\ due # <<>>
    /\ svcMutex' = Free
    /\ scanned' = 0
    /\ UNCHANGED <<tokenVars, cbVars, schedule, changed, due, until, callVars>>

(* Nothing is due: sleep until the earliest entry, at most MaximumWait.    *)
Sleep ==
    /\ At(Watchdog, "collect", "asleep") /\ NothingDue /\ due = <<>>
    /\ \E wake \in {scanned + MaximumWait} \cup {deadline[s] : s \in schedule} :
        /\ wake <= scanned + MaximumWait
        /\ \A s \in schedule : wake <= deadline[s]
        /\ until' = wake
    /\ changed' = FALSE
    /\ svcMutex' = Free
    /\ scanned' = 0
    /\ UNCHANGED <<tokenVars, cbVars, schedule, due, callVars>>

TimeOut ==
    /\ At(Watchdog, "asleep", "woken") /\ now >= until
    /\ UNCHANGED dataVars

(* Mutant: wait instead of wait_until, so only a change ends the sleep.     *)
WokenByChange ==
    /\ pc[Watchdog] = "woken" /\ svcMutex = Free
    /\ IF changed
       THEN Goto(Watchdog, "scan") /\ until' = 0
       ELSE Goto(Watchdog, "asleep") /\ UNCHANGED until
    /\ UNCHANGED <<tokenVars, cbVars, serviceVars, due, scanned, callVars>>

(* wait_until relocks, and returns if its predicate holds or it is late.   *)
Woken ==
    /\ pc[Watchdog] = "woken" /\ svcMutex = Free
    /\ IF changed \/ now >= until
       THEN Goto(Watchdog, "scan") /\ until' = 0
       ELSE Goto(Watchdog, "asleep") /\ UNCHANGED until
    /\ UNCHANGED <<tokenVars, cbVars, serviceVars, due, scanned, callVars>>

(* Lock the weak pointer of the next collected entry.                      *)
Fire ==
    /\ pc[Watchdog] = "fire" /\ due # <<>>
    /\ due' = Tail(due)
    /\ LET s == Head(due) IN
        IF owners[s] = {}
        THEN UNCHANGED <<owners, object, stopping, pc>>
        ELSE /\ owners' = [owners EXCEPT ![s] = @ \cup {Watchdog}]
             /\ object' = [object EXCEPT ![Watchdog] = s]
             /\ stopping' = [stopping EXCEPT ![Watchdog] = "deadline"]
             /\ Goto(Watchdog, "claim")
    /\ UNCHANGED <<now, life, deadline, reason, timer, waitMutex, cbVars,
                   serviceVars, scanned, until, disarmFor>>

DropFired ==
    /\ pc[Watchdog] = "drop"
    /\ Release(Watchdog, object[Watchdog], "fire")
    /\ UNCHANGED <<now, deadline, reason, timer, waitMutex, cbVars, watchVars,
                   stopping>>

FiredAll ==
    /\ At(Watchdog, "fire", "scan") /\ due = <<>>
    /\ UNCHANGED dataVars

Tick ==
    /\ now < MaxTime
    /\ now' = now + 1
    /\ UNCHANGED <<lifeVars, reason, timer, waitMutex, cbVars, watchVars,
                   callVars, pc>>

-----------------------------------------------------------------------------
Init ==
    /\ now = 0
    /\ life = [s \in States |-> "absent"]
    /\ owners = [s \in States |-> {}]
    /\ deadline = [s \in States |-> NoDeadline]
    /\ reason = [s \in States |-> "none"]
    /\ timer = [s \in States |-> FALSE]
    /\ waitMutex = [s \in States |-> Free]
    /\ cbMutex = [s \in States |-> Free]
    /\ callbacks = [s \in States |-> {}]
    /\ running = [s \in States |-> None]
    /\ svcMutex = Free
    /\ schedule = {}
    /\ changed = FALSE
    /\ due = <<>>
    /\ scanned = 0
    /\ until = 0
    /\ pc = [a \in Actors |-> IF a = Watchdog THEN "scan" ELSE "idle"]
    /\ object = [a \in Actors |-> None]
    /\ stopping = [a \in Actors |-> "none"]
    /\ disarmFor = [a \in Actors |-> "none"]
    /\ calls = [t \in Threads |-> 0]

(* Claim and DisarmDeadline, on whichever thread runs them.                *)
ClaimSteps(a) ==
    \/ Disarm(a)
    \/ NotifyService(a)
    \/ ClaimReason(a)
    \/ NotifyWaiters(a)
    \/ CallBack(a)
    \/ CallbackReturns(a)
    \/ ClaimReturns(a)
ClaimLocks(a) == UnregisterEntry(a) \/ ReleaseWaiters(a) \/ LockCallbacks(a)

(* Calls an application may or may not make, and failures.                 *)
Optional(t) ==
    \/ \E s \in States :
        Share(t, s) \/ \E d \in Deadlines : Create(t, s, d)
    \/ ArmFails(t)
    \/ Drop(t)
    \/ Cancel(t)
    \/ Poll(t)
    \/ Wait(t)
    \/ StartRegister(t)
    \/ DestroyRegistration(t)
    \/ DestroyInline(t)

ThreadSteps(t) ==
    \/ ArmNotify(t)
    \/ ArmStore(t)
    \/ ArmRecheck(t)
    \/ WaitTest(t)
    \/ WaitUnlock(t)
    \/ ClaimSteps(t)
ThreadLocks(t) ==
    \/ ArmRegister(t)
    \/ WaitLock(t)
    \/ RegisterStored(t)
    \/ RegisterInline(t)
    \/ Unregister(t)
    \/ ClaimLocks(t)

WatchdogSteps ==
    \/ Collect
    \/ CollectedAll
    \/ Sleep
    \/ TimeOut
    \/ Fire
    \/ DropFired
    \/ FiredAll
    \/ ClaimSteps(Watchdog)
WatchdogLocks == Scan \/ Woken \/ ClaimLocks(Watchdog)

Next ==
    \/ \E t \in Threads : Optional(t) \/ ThreadSteps(t) \/ ThreadLocks(t)
    \/ WatchdogSteps
    \/ WatchdogLocks
    \/ Tick

Spec == Init /\ [][Next]_vars

(* Running threads keep running, a thread that wants a mutex gets it in    *)
(* the end, and time passes.  Which calls are made is up to the program.   *)
FairSpec ==
    /\ Spec
    /\ \A t \in Threads : WF_vars(ThreadSteps(t)) /\ SF_vars(ThreadLocks(t))
    /\ WF_vars(WatchdogSteps) /\ SF_vars(WatchdogLocks)
    /\ WF_vars(Tick)

-----------------------------------------------------------------------------
TypeOK ==
    /\ now \in 0..MaxTime
    /\ life \in [States -> {"absent", "alive", "dying"}]
    /\ owners \in [States -> SUBSET Actors]
    /\ deadline \in [States -> Deadlines \cup {NoDeadline}]
    /\ reason \in [States -> {"none", "cancelled", "deadline"}]
    /\ timer \in [States -> BOOLEAN]
    /\ waitMutex \in [States -> Threads \cup {Free}]
    /\ cbMutex \in [States -> Actors \cup {Free}]
    /\ callbacks \in [States -> SUBSET Threads]
    /\ running \in [States -> Threads \cup {None}]
    /\ svcMutex \in {Watchdog, Free}
    /\ schedule \subseteq States
    /\ changed \in BOOLEAN
    /\ due \in Seq(States)
    /\ scanned \in 0..MaxTime
    /\ until \in Nat
    /\ pc \in [Actors -> ThreadPcs \cup WatchdogPcs]
    /\ pc[Watchdog] \in WatchdogPcs
    /\ \A t \in Threads : pc[t] \in ThreadPcs
    /\ object \in [Actors -> States \cup {None}]
    /\ stopping \in [Actors -> {"none", "cancelled", "deadline"}]
    /\ disarmFor \in [Actors -> {"none", "claim", "arm", "destroy"}]
    /\ calls \in [Threads -> Nat]

(* A wake-up cannot be lost: while a thread is blocked in Wait on a state  *)
(* that is claimed, the claim's notify_all is still to come.               *)
WaiterAt(l, s) ==
    reason[s] # "none" /\ \E t \in Threads : pc[t] = l /\ object[t] = s

NoLostWakeup ==
    \A s \in States : WaiterAt("blocked", s) => \E a \in Actors : Releasing(a, s)

(* The sleeping watchdog wakes in time: it sleeps no longer than one wait  *)
(* may last, and past no entry of the schedule unless the thread that put  *)
(* the entry there has still to notify it.                                 *)
NeverOversleeps ==
    pc[Watchdog] = "asleep" =>
        /\ until <= now + MaximumWait
        /\ \A s \in schedule :
            until <= deadline[s] \/ \E t \in Threads : pc[t] = "armNotify" /\ object[t] = s

(* No callback runs for a registration that is gone: what a callback       *)
(* captured on its owner's stack is still there.                           *)
CallbackOwnerIsThere ==
    \A s \in States :
        /\ \A t \in callbacks[s] :
            pc[t] \in {"registered", "unregistering"} /\ object[t] = s
        /\ running[s] # None =>
            /\ pc[running[s]] \in {"registered", "unregistering"}
            /\ object[running[s]] = s

Working(a, s, places) == object[a] = s /\ pc[a] \in places

StaleEntry(s) == s \in schedule /\ (reason[s] # "none" \/ life[s] # "alive")
StaleHandle(s) == reason[s] # "none" /\ timer[s]

RemovesEntry(a, s) ==
    Working(a, s, {"disarm", "unregister", "armNotify", "store", "recheck"})
RemovesHandle(a, s) == Working(a, s, {"disarm", "recheck"})

StaleEntryGoes ==
    \A s \in States : StaleEntry(s) => \E a \in Actors : RemovesEntry(a, s)
StaleHandleGoes ==
    \A s \in States : StaleHandle(s) => \E a \in Actors : RemovesHandle(a, s)

(* Neither a claimed state nor a dead one keeps the watchdog busy: if such *)
(* a state is still scheduled, or a claimed one still holds the handle of  *)
(* its entry, the thread that removes it is on its way.                    *)
NoStaleEntry == StaleEntryGoes /\ StaleHandleGoes

-----------------------------------------------------------------------------
(* The inductive invariant.  What refers to a state: an actor owns it while*)
(* it works on it, but for the actor that destroys it, which is the last.  *)
Destroying(a) == disarmFor[a] = "destroy"

OwnersAgree ==
    \A a \in Actors, s \in States :
        a \in owners[s] <=> object[a] = s /\ ~Destroying(a)

OwnedAreAlive == \A s \in States : owners[s] # {} => life[s] = "alive"

DestroyersAreLast ==
    \A a \in Actors : Destroying(a) =>
        /\ object[a] # None
        /\ life[object[a]] = "dying"
        /\ owners[object[a]] = {}
        /\ \A b \in Actors : object[b] = object[a] => b = a
        /\ pc[a] # "disarm" => ~timer[object[a]]

References == OwnersAgree /\ OwnedAreAlive /\ DestroyersAreLast

(* What the place of an actor in a call says of its locals.                *)
DisarmPcs == {"disarm", "unregister", "notifyService"}

PurposeKnown ==
    /\ \A a \in Actors : (disarmFor[a] = "none") <=> pc[a] \notin DisarmPcs
    /\ disarmFor[Watchdog] # "arm"

AtWork ==
    /\ \A t \in Threads : pc[t] # "idle" => object[t] # None
    /\ (object[Watchdog] # None) <=> pc[Watchdog] \in ClaimPcs \cup {"claim", "drop"}

ArmingComesFirst ==
    \A t \in Threads : pc[t] = "arm" =>
        /\ owners[object[t]] = {t}
        /\ deadline[object[t]] \in Nat
        /\ object[t] \notin schedule \cup ToSet(due)

Positions == PurposeKnown /\ AtWork /\ ArmingComesFirst

(* A mutex is held exactly in its critical sections.                       *)
WaitMutexHeld ==
    \A t \in Threads, s \in States :
        waitMutex[s] = t <=> object[t] = s /\ pc[t] \in {"test", "block", "leaveWait"}

CbMutexHeld ==
    \A a \in Actors, s \in States :
        cbMutex[s] = a <=> object[a] = s /\ pc[a] \in {"calling", "inCallback"}

RunsCallback(a, s) == Working(a, s, {"inCallback"})

RunningHeld ==
    \A s \in States : running[s] # None => \E a \in Actors : RunsCallback(a, s)

MutexesHeld == WaitMutexHeld /\ CbMutexHeld /\ RunningHeld

(* A claim that has not come to the wait mutex yet will wake a thread that *)
(* is about to block.                                                      *)
BeforeRelease(a, s) ==
    /\ object[a] = s
    /\ \/ pc[a] = "releaseWaiters"
       \/ pc[a] \in DisarmPcs /\ disarmFor[a] = "claim"

WaitersSeen ==
    \A s \in States : WaiterAt("block", s) => \E a \in Actors : BeforeRelease(a, s)

(* An entry whose handle is not stored has an actor that stores it or      *)
(* removes the entry.                                                      *)
EntriesTimed == \A s \in schedule : deadline[s] \in Nat

NoHandle(s) == s \in schedule /\ ~timer[s]
SettlesHandle(a, s) == Working(a, s, {"armNotify", "store", "unregister"})

HandlesFollow ==
    \A s \in States : NoHandle(s) => \E a \in Actors : SettlesHandle(a, s)

EntriesFollowed == EntriesTimed /\ HandlesFollow

(* What a scan compares with is past, and a wait that is not over outlasts *)
(* no entry unless the schedule changed under it.                          *)
SleepsInTime ==
    /\ pc[Watchdog] = "collect" => scanned <= now
    /\ pc[Watchdog] \in {"asleep", "woken"} =>
        /\ until <= now + MaximumWait
        /\ changed \/ \A s \in schedule : until <= deadline[s]

IInv ==
    /\ TypeOK
    /\ References
    /\ Positions
    /\ MutexesHeld
    /\ WaitersSeen
    /\ EntriesFollowed
    /\ SleepsInTime
    /\ NoLostWakeup
    /\ NeverOversleeps
    /\ NoStaleEntry
    /\ CallbackOwnerIsThere

(* What the promise rests on besides.  A claim stands as long as an actor   *)
(* works on it: the claimant that wakes and calls, and the waiter that saw  *)
(* it.  A callback that waits to be called has not been called.             *)
Claimed(a) ==
    \/ pc[a] \in {"releaseWaiters", "notifyWaiters", "lockCallbacks",
                  "calling", "inCallback", "leaveWait"}
    \/ disarmFor[a] = "claim"

ClaimsStand == \A a \in Actors : Claimed(a) => reason[object[a]] # "none"

ClaimsHaveReasons == \A a \in Actors : pc[a] = "claim" => stopping[a] # "none"

Attached(t) == pc[t] \in {"registered", "registeredInline", "unregistering"}
Waiting(t)  == pc[t] \in {"lockWait", "test", "block", "blocked", "leaveWait"}

AttachedTo == [t \in Threads |-> IF Attached(t) THEN object[t] ELSE None]
WaitingFor == [t \in Threads |-> IF Waiting(t) THEN object[t] ELSE None]

CallsCounted ==
    /\ \A t \in Threads : ~Attached(t) => calls[t] = 0
    /\ \A s \in States : \A t \in callbacks[s] : calls[t] = 0

PromiseInv == ClaimsStand /\ ClaimsHaveReasons /\ CallsCounted

(* A source made with a deadline in the future stops at the deadline even  *)
(* if nothing ever polls it.                                               *)
DeadlineStops ==
    \A s \in States :
        (/\ s \in schedule \/ \E t \in Threads : object[t] = s /\ pc[t] = "arm"
         /\ deadline[s] <= MaxTime)
            ~> (reason[s] # "none" \/ life[s] # "alive")

(* Neither a claim nor the destruction of a registration waits for ever.   *)
CallsReturn ==
    \A t \in Threads :
        pc[t] \in ClaimPcs \cup {"registering", "unregistering"}
            ~> pc[t] \in {"idle", "registered", "registeredInline"}

(* What callers see of all this is CancellationPromise: one reason, every  *)
(* callback once, no wait that ends early or never.                        *)
Promise == INSTANCE CancellationPromise WITH
    attached <- AttachedTo, called <- calls, waiting <- WaitingFor

ImplementsPromise     == Promise!Spec
ImplementsFairPromise == Promise!FairSpec

=============================================================================
