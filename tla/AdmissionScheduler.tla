------------------------- MODULE AdmissionScheduler -------------------------
(***************************************************************************)
(* detail::PipelineScheduler: the admission controller that every copy of  *)
(* a Pipeline, every session and every StageRun share.  A thread acquires  *)
(* a permit for one execution of a stage kind, waits in a FIFO queue while *)
(* the global or the per-kind limit is reached, may be removed from the    *)
(* queue by the cancellation or the deadline of its token, and returns the *)
(* permit when its lease is destroyed.                                     *)
(*                                                                         *)
(* Actors are the application threads and, for each CancellationSource,    *)
(* the one execution of CancellationState::Claim that wins its             *)
(* compare-exchange.  The scheduler mutex is explicit (mutex) and so is    *)
(* the mutex each CancellationState holds across its callbacks (cbMutex).  *)
(* PumpLocked is stepped one loop iteration at a time, under the mutex,    *)
(* with its iterator in cursor.                                            *)
(***************************************************************************)
EXTENDS Naturals, Sequences, FiniteSets, SequencesExt

CONSTANTS
    Threads,      \* application threads; each has at most one acquisition
    Kinds,        \* stage kinds of the registry
    Sources,      \* cancellation sources whose tokens acquisitions may carry
    Acquisitions, \* what threads acquire: <<thread, kind, token or NoSource>>
    Failing,      \* threads whose waits may fail
    GlobalLimit,  \* max_concurrent_executions, 0 when there is none
    KindLimit,    \* max_concurrent_by_stage_kind, 0 for an absent kind
    Free,         \* owner of a mutex nobody holds; a claimant not in Threads
    NoSource      \* the default token, which is never cancellable

ASSUME ThreadsAssumption == IsFiniteSet(Threads)
ASSUME KindsAssumption == Kinds # {}
ASSUME LimitAssumption ==
    /\ GlobalLimit \in Nat
    /\ KindLimit \in [Kinds -> Nat]
ASSUME ActorAssumption ==
    /\ Threads \cap Sources = {}
    /\ Free \notin Threads \cup Sources
    /\ NoSource \notin Sources

VARIABLES
    mutex,       \* owner of mutex_
    cursor,      \* PumpLocked's position in the queue, 0 when not pumping
    queue,       \* queue_: waiting acquisitions, oldest first
    active,      \* active_
    kindActive,  \* kinds_[k].active
    granted,     \* Waiter::granted of each thread's waiter
    cancelled,   \* Waiter::cancelled of each thread's waiter
    registered,  \* the thread's CancellationRegistration holds an entry id
    pc,          \* where each thread is in Acquire and in its execution
    kind,        \* the stage kind each thread acquires
    token,       \* the source of each thread's token, or NoSource
    recorded,    \* admission telemetry recorded by the current acquisition
    thrown,      \* the error the last acquisition threw, or is unwinding with
    reason,      \* CancellationState::reason_
    deadline,    \* "never", "pending" or "due"
    armed,       \* the watchdog holds an entry for the source's deadline
    claim,       \* progress of the winning Claim
    claimant,    \* the thread that runs the winning Claim, Free if another
    callbacks,   \* threads whose CancelWaiter callback is registered
    cbMutex,     \* owner of CancellationState::mutex_
    target       \* the waiter whose callback the winning Claim is running

schedulerVars == <<mutex, cursor, queue, active, kindActive, granted, cancelled>>
threadVars    == <<registered, pc, kind, token, recorded, thrown>>
sourceVars    == <<reason, deadline, armed, claim, claimant, callbacks, cbMutex, target>>
vars          == <<schedulerVars, threadVars, sourceVars>>

-----------------------------------------------------------------------------
PcValues == {"idle", "poll", "enqueue", "enqueueing", "register",
             "inlineCallback", "inlineCancelling", "wait", "asleep",
             "unregister", "settle", "throw", "repoll", "running",
             "release", "releasing", "unwind", "abandon"}
Reasons  == {"none", "cancelled", "deadline"}
Outcomes == {"queued", "admitted", "cancelled", "deadline"}
Errors   == {"none", "cancelled", "deadline", "failed"}

(* Positions at which a granted waiter's permit is still counted: from the *)
(* grant until the decrement in ReleasePermit.                             *)
PermitPcs == {"enqueueing", "register", "inlineCallback", "inlineCancelling",
              "wait", "asleep", "unregister", "settle", "throw", "repoll",
              "running", "release", "unwind", "abandon"}

(* Positions at which a ticket may be in the queue.                        *)
TicketPcs == {"enqueueing", "register", "inlineCallback", "inlineCancelling",
              "wait", "asleep", "unwind", "abandon"}

Holders    == {t \in Threads : granted[t] /\ pc[t] \in PermitPcs}
HoldersOf(k) == {t \in Holders : kind[t] = k}

(* The kind of a thread that acquires nothing.                             *)
AnyKind == CHOOSE k \in Kinds : TRUE

Unlimited(k)  == GlobalLimit = 0 /\ KindLimit[k] = 0
GlobalFull    == GlobalLimit # 0 /\ active >= GlobalLimit
(* Mutant: the per-kind limit is off by one.                               *)
KindFullOffByOne(k) == KindLimit[k] # 0 /\ kindActive[k] > KindLimit[k]
KindFull(k)   == KindLimit[k] # 0 /\ kindActive[k] >= KindLimit[k]

(* Erase the node of t from the queue if it is there.                      *)
Without(q, t) ==
    IF \E i \in 1..Len(q) : q[i] = t
    THEN RemoveAt(q, CHOOSE i \in 1..Len(q) : q[i] = t)
    ELSE q

(* notify_one on the waiter's own condition variable: only a thread that   *)
(* is blocked is affected.                                                 *)
Notify(t, pcs) == IF pcs[t] = "asleep" THEN [pcs EXCEPT ![t] = "wait"] ELSE pcs

-----------------------------------------------------------------------------
(* PumpLocked.  The actor that holds the mutex runs these steps until the  *)
(* scan stops, and then goes on with what follows the pump.                *)
PumpScanning == mutex # Free /\ cursor # 0
PumpAtEnd    == cursor > Len(queue) \/ GlobalFull

(* The actor a resumes after its pump and releases the mutex.              *)
PumpedUnlock(a) ==
    /\ mutex = a /\ PumpScanning /\ PumpAtEnd
    /\ mutex' = Free
    /\ cursor' = 0

PumpSkip ==
    /\ PumpScanning /\ ~PumpAtEnd
    /\ KindFull(kind[queue[cursor]])
    /\ cursor' = cursor + 1
    /\ UNCHANGED <<mutex, queue, active, kindActive, granted, cancelled,
                   threadVars, sourceVars>>

PumpGrant ==
    /\ PumpScanning /\ ~PumpAtEnd
    /\ LET t == queue[cursor] IN
        /\ ~KindFull(kind[t])
        /\ queue' = RemoveAt(queue, cursor)
        /\ active' = active + 1
        /\ kindActive' = [kindActive EXCEPT ![kind[t]] = @ + 1]
        /\ granted' = [granted EXCEPT ![t] = TRUE]
        /\ pc' = Notify(t, pc)
    /\ UNCHANGED <<mutex, cursor, cancelled, registered, kind, token, recorded,
                   thrown, sourceVars>>

PumpLocked == PumpSkip \/ PumpGrant

-----------------------------------------------------------------------------
(* The winning Claim of a source: the compare-exchange, then the callback  *)
(* mutex, then every registered callback.  Its wake-up of blocked          *)
(* WaitForCancellation callers is the subject of module Cancellation.      *)
ClaimWith(s, r, by) ==
    /\ reason[s] = "none"
    /\ reason' = [reason EXCEPT ![s] = r]
    /\ claim' = [claim EXCEPT ![s] = "claimed"]
    /\ claimant' = [claimant EXCEPT ![s] = by]
    /\ armed' = [armed EXCEPT ![s] = FALSE]
    /\ UNCHANGED <<schedulerVars, threadVars, deadline, callbacks, cbMutex, target>>

(* CancellationSource::Cancel by whoever owns the source.                  *)
Cancel(s) == ClaimWith(s, "cancelled", Free)

(* The deadline watchdog reaches an entry that is due.                     *)
WatchdogClaim(s) ==
    /\ armed[s] /\ deadline[s] = "due"
    /\ ClaimWith(s, "deadline", Free)

Expire(s) ==
    /\ deadline[s] = "pending"
    /\ deadline' = [deadline EXCEPT ![s] = "due"]
    /\ UNCHANGED <<schedulerVars, threadVars, reason, armed, claim, claimant,
                   callbacks, cbMutex, target>>

ClaimLock(s) ==
    /\ claim[s] = "claimed" /\ cbMutex[s] = Free
    /\ claim' = [claim EXCEPT ![s] = "calling"]
    /\ cbMutex' = [cbMutex EXCEPT ![s] = s]
    /\ UNCHANGED <<schedulerVars, threadVars, reason, deadline, armed, claimant,
                   callbacks, target>>

(* CancelWaiter for waiter w, run by actor a, up to its PumpLocked.        *)
CancelWaiterMark(a, w) ==
    /\ ~granted[w] /\ ~cancelled[w]
    /\ mutex' = a
    /\ cursor' = 1
    /\ cancelled' = [cancelled EXCEPT ![w] = TRUE]
    /\ queue' = Without(queue, w)
    /\ UNCHANGED <<active, kindActive, granted>>

(* The early return of CancelWaiter: a grant that happened is not undone.  *)
CancelWaiterIgnored(w) ==
    /\ granted[w] \/ cancelled[w]
    /\ UNCHANGED schedulerVars

(* The next callback of the winning Claim.  The registry is a set here:    *)
(* the callbacks may run in any order, which includes the code's.          *)
CallNext(s, w) ==
    /\ claim[s] = "calling" /\ mutex = Free
    /\ callbacks' = [callbacks EXCEPT ![s] = @ \ {w}]
    /\ UNCHANGED <<threadVars, reason, deadline, armed, claimant, cbMutex>>

CallbackCancels(s, w) ==
    /\ CallNext(s, w)
    /\ CancelWaiterMark(s, w)
    /\ claim' = [claim EXCEPT ![s] = "cancelling"]
    /\ target' = [target EXCEPT ![s] = w]

CallbackIgnored(s, w) ==
    /\ CallNext(s, w)
    /\ CancelWaiterIgnored(w)
    /\ UNCHANGED <<claim, target>>

ClaimCall(s) == \E w \in callbacks[s] : CallbackCancels(s, w) \/ CallbackIgnored(s, w)

(* CancelWaiter after its pump: notify the waiter, release the mutex.      *)
ClaimNotify(s) ==
    /\ claim[s] = "cancelling"
    /\ PumpedUnlock(s)
    /\ pc' = Notify(target[s], pc)
    /\ claim' = [claim EXCEPT ![s] = "calling"]
    /\ target' = [target EXCEPT ![s] = Free]
    /\ UNCHANGED <<queue, active, kindActive, granted, cancelled,
                   registered, kind, token, recorded, thrown, reason, deadline,
                   armed, claimant, callbacks, cbMutex>>

ClaimFinish(s) ==
    /\ claim[s] = "calling" /\ callbacks[s] = {}
    /\ claim' = [claim EXCEPT ![s] = "done"]
    /\ cbMutex' = [cbMutex EXCEPT ![s] = Free]
    /\ UNCHANGED <<schedulerVars, threadVars, reason, deadline, armed, claimant,
                   callbacks, target>>

(* The application drops a claimed source and makes a new one.  A deadline *)
(* that is already due when the source is made is never armed.             *)
NewSource(s) ==
    /\ claim[s] = "done"
    /\ \A t \in Threads : token[t] # s
    /\ reason' = [reason EXCEPT ![s] = "none"]
    /\ claim' = [claim EXCEPT ![s] = "open"]
    /\ claimant' = [claimant EXCEPT ![s] = Free]
    /\ \E d \in {"never", "pending", "due"} :
        /\ deadline' = [deadline EXCEPT ![s] = d]
        /\ armed' = [armed EXCEPT ![s] = (d = "pending")]
    /\ UNCHANGED <<schedulerVars, threadVars, callbacks, cbMutex, target>>

-----------------------------------------------------------------------------
(* Polling a token: CancellationToken::reason and                          *)
(* ThrowIfCancellationRequested.                                           *)
Claimed(t) == token[t] # NoSource /\ reason[token[t]] # "none"

(* Poll sees a due deadline nobody has claimed, so it would claim it.      *)
PollWouldClaim(t) ==
    token[t] # NoSource /\ reason[token[t]] = "none" /\ deadline[token[t]] = "due"

(* The poll returns: what it read, if its own Claim has finished.          *)
PollStops(t) ==
    Claimed(t) /\ (claimant[token[t]] = t => claim[token[t]] = "done")
PollPasses(t) == ~Claimed(t) /\ ~PollWouldClaim(t)

(* Poll claims the deadline itself and runs the callbacks on this thread.  *)
PollClaims(t) ==
    /\ pc[t] \in {"poll", "repoll"}
    /\ PollWouldClaim(t)
    /\ ClaimWith(token[t], "deadline", t)

-----------------------------------------------------------------------------
(* Acquire.  A kind no limit applies to takes no ticket and no permit: its *)
(* lease is inert, and nothing here changes.                               *)
Goto(t, label) == pc' = [pc EXCEPT ![t] = label]

(* The call is over for thread t: its waiter and its locals are destroyed. *)
Leave(t) ==
    /\ Goto(t, "idle")
    /\ granted' = [granted EXCEPT ![t] = FALSE]
    /\ cancelled' = [cancelled EXCEPT ![t] = FALSE]
    /\ registered' = [registered EXCEPT ![t] = FALSE]
    /\ recorded' = [recorded EXCEPT ![t] = {}]
    /\ kind' = [kind EXCEPT ![t] = AnyKind]
    /\ token' = [token EXCEPT ![t] = NoSource]

StartAcquire(t) ==
    /\ pc[t] = "idle"
    /\ \E k \in Kinds, s \in Sources \cup {NoSource} :
        /\ <<t, k, s>> \in Acquisitions /\ ~Unlimited(k)
        /\ kind' = [kind EXCEPT ![t] = k]
        /\ token' = [token EXCEPT ![t] = s]
    /\ Goto(t, "poll")
    /\ thrown' = [thrown EXCEPT ![t] = "none"]
    /\ UNCHANGED <<schedulerVars, registered, recorded, sourceVars>>

(* Mutant: no poll before the ticket is taken.                             *)
FirstPollSkipped(t) ==
    /\ pc[t] = "poll"
    /\ Goto(t, "enqueue")
    /\ UNCHANGED <<schedulerVars, registered, kind, token, recorded, thrown,
                   sourceVars>>

(* The poll before a ticket is taken.                                      *)
FirstPollPasses(t) ==
    /\ pc[t] = "poll"
    /\ PollPasses(t)
    /\ Goto(t, "enqueue")
    /\ UNCHANGED <<schedulerVars, registered, kind, token, recorded, thrown,
                   sourceVars>>

FirstPollThrows(t) ==
    /\ pc[t] = "poll"
    /\ PollStops(t)
    /\ Leave(t)
    /\ thrown' = [thrown EXCEPT ![t] = reason[token[t]]]
    /\ UNCHANGED <<mutex, cursor, queue, active, kindActive, sourceVars>>

Enqueue(t) ==
    /\ pc[t] = "enqueue" /\ mutex = Free
    /\ mutex' = t
    /\ queue' = Append(queue, t)
    /\ cursor' = 1
    /\ Goto(t, "enqueueing")
    /\ UNCHANGED <<active, kindActive, granted, cancelled, registered, kind,
                   token, recorded, thrown, sourceVars>>

(* After the pump: an immediate grant is admitted and never queued.        *)
AdmittedImmediately(t) ==
    /\ pc[t] = "enqueueing" /\ granted[t]
    /\ PumpedUnlock(t)
    /\ recorded' = [recorded EXCEPT ![t] = @ \cup {"admitted"}]
    /\ Goto(t, "running")
    /\ UNCHANGED <<queue, active, kindActive, granted, cancelled,
                   registered, kind, token, thrown, sourceVars>>

(* Otherwise the acquisition really waits.                                 *)
Queued(t) ==
    /\ pc[t] = "enqueueing" /\ ~granted[t]
    /\ PumpedUnlock(t)
    /\ recorded' = [recorded EXCEPT ![t] = @ \cup {"queued"}]
    /\ Goto(t, IF token[t] = NoSource THEN "wait" ELSE "register")
    /\ UNCHANGED <<queue, active, kindActive, granted, cancelled,
                   registered, kind, token, thrown, sourceVars>>

(* CancellationState::Register of a callback on an unclaimed source.       *)
Register(t) ==
    /\ pc[t] = "register" /\ cbMutex[token[t]] = Free
    /\ reason[token[t]] = "none"
    /\ callbacks' = [callbacks EXCEPT ![token[t]] = @ \cup {t}]
    /\ registered' = [registered EXCEPT ![t] = TRUE]
    /\ Goto(t, "wait")
    /\ UNCHANGED <<schedulerVars, kind, token, recorded, thrown, reason,
                   deadline, armed, claim, claimant, cbMutex, target>>

(* Register on a claimed source runs the callback inline and stores        *)
(* nothing; the callback mutex is held until it returns.                   *)
RegisterInline(t) ==
    /\ pc[t] = "register" /\ cbMutex[token[t]] = Free
    /\ reason[token[t]] # "none"
    /\ cbMutex' = [cbMutex EXCEPT ![token[t]] = t]
    /\ Goto(t, "inlineCallback")
    /\ UNCHANGED <<schedulerVars, registered, kind, token, recorded, thrown,
                   reason, deadline, armed, claim, claimant, callbacks, target>>

InlineCancels(t) ==
    /\ pc[t] = "inlineCallback" /\ mutex = Free
    /\ CancelWaiterMark(t, t)
    /\ Goto(t, "inlineCancelling")
    /\ UNCHANGED <<registered, kind, token, recorded, thrown, sourceVars>>

InlineIgnored(t) ==
    /\ pc[t] = "inlineCallback" /\ mutex = Free
    /\ CancelWaiterIgnored(t)
    /\ Goto(t, "wait")
    /\ cbMutex' = [cbMutex EXCEPT ![token[t]] = Free]
    /\ UNCHANGED <<registered, kind, token, recorded, thrown, reason, deadline,
                   armed, claim, claimant, callbacks, target>>

InlineDone(t) ==
    /\ pc[t] = "inlineCancelling"
    /\ PumpedUnlock(t)
    /\ cbMutex' = [cbMutex EXCEPT ![token[t]] = Free]
    /\ Goto(t, "wait")
    /\ UNCHANGED <<queue, active, kindActive, granted, cancelled,
                   registered, kind, token, recorded, thrown, reason, deadline,
                   armed, claim, claimant, callbacks, target>>

(* The condition-variable wait: lock, test the predicate, block or return. *)
WaitTest(t) ==
    /\ pc[t] = "wait" /\ mutex = Free
    /\ Goto(t, IF granted[t] \/ cancelled[t] THEN "unregister" ELSE "asleep")
    /\ UNCHANGED <<schedulerVars, registered, kind, token, recorded, thrown,
                   sourceVars>>

(* Creating the registration, or locking for the wait, throws.             *)
WaitFails(t) ==
    /\ t \in Failing /\ pc[t] \in {"register", "wait"}
    /\ Goto(t, "unwind")
    /\ UNCHANGED <<schedulerVars, registered, kind, token, recorded, thrown,
                   sourceVars>>

(* registration.reset(): the destructor takes the callback mutex, unless   *)
(* there is no entry because the callback ran inline or was never made.    *)
ResetRegistration(t) ==
    /\ registered[t] => cbMutex[token[t]] = Free
    /\ registered' = [registered EXCEPT ![t] = FALSE]
    /\ callbacks' = IF registered[t]
                    THEN [callbacks EXCEPT ![token[t]] = @ \ {t}]
                    ELSE callbacks

Unregister(t) ==
    /\ pc[t] = "unregister"
    /\ ResetRegistration(t)
    /\ Goto(t, "settle")
    /\ UNCHANGED <<schedulerVars, kind, token, recorded, thrown, reason,
                   deadline, armed, claim, claimant, cbMutex, target>>

(* Mutant: every wait that ends without a permit counts as cancelled.      *)
SettleAsCancelled(t) ==
    /\ pc[t] = "settle"
    /\ recorded' = [recorded EXCEPT ![t] =
                       @ \cup {IF granted[t] THEN "admitted" ELSE "cancelled"}]
    /\ Goto(t, IF granted[t] THEN "repoll" ELSE "throw")
    /\ UNCHANGED <<schedulerVars, registered, kind, token, thrown, sourceVars>>

(* Record the outcome of the wait: admitted, or the reason the token holds.*)
Settle(t) ==
    /\ pc[t] = "settle"
    /\ LET outcome == IF granted[t] THEN "admitted"
                      ELSE IF Claimed(t) /\ reason[token[t]] = "deadline"
                           THEN "deadline" ELSE "cancelled"
       IN recorded' = [recorded EXCEPT ![t] = @ \cup {outcome}]
    /\ Goto(t, IF granted[t] THEN "repoll" ELSE "throw")
    /\ UNCHANGED <<schedulerVars, registered, kind, token, thrown, sourceVars>>

(* The wait ended without a permit: throw what the token says now.         *)
Throw(t) ==
    /\ pc[t] = "throw"
    /\ Leave(t)
    /\ thrown' = [thrown EXCEPT ![t] =
                     IF Claimed(t) THEN reason[token[t]] ELSE "cancelled"]
    /\ UNCHANGED <<mutex, cursor, queue, active, kindActive, sourceVars>>

(* The poll after a queued grant: a cancellation that raced the grant      *)
(* unwinds the lease, which returns the permit.                            *)
RepollPasses(t) ==
    /\ pc[t] = "repoll"
    /\ PollPasses(t)
    /\ Goto(t, "running")
    /\ UNCHANGED <<schedulerVars, registered, kind, token, recorded, thrown, sourceVars>>

RepollThrows(t) ==
    /\ pc[t] = "repoll"
    /\ PollStops(t)
    /\ Goto(t, "release")
    /\ thrown' = [thrown EXCEPT ![t] = reason[token[t]]]
    /\ UNCHANGED <<schedulerVars, registered, kind, token, recorded, sourceVars>>

(* The admitted execution ends, normally or by an exception, and its lease *)
(* is destroyed.                                                           *)
Finish(t) ==
    /\ pc[t] = "running"
    /\ Goto(t, "release")
    /\ UNCHANGED <<schedulerVars, registered, kind, token, recorded, thrown,
                   sourceVars>>

(* Mutants: the release does not pump, or pumps from the second ticket.    *)
ReleaseFrom(t, start) ==
    /\ pc[t] = "release" /\ mutex = Free
    /\ mutex' = t
    /\ active' = active - 1
    /\ kindActive' = [kindActive EXCEPT ![kind[t]] = @ - 1]
    /\ cursor' = start
    /\ Goto(t, "releasing")
    /\ UNCHANGED <<queue, granted, cancelled, registered, kind, token, recorded,
                   thrown, sourceVars>>
ReleaseWithoutPump(t) == ReleaseFrom(t, Len(queue) + 1)
ReleasePastHead(t)    == ReleaseFrom(t, IF Len(queue) > 1 THEN 2 ELSE 1)

ReleasePermit(t) ==
    /\ pc[t] = "release" /\ mutex = Free
    /\ mutex' = t
    /\ active' = IF active > 0 THEN active - 1 ELSE active
    /\ kindActive' = [kindActive EXCEPT ![kind[t]] = IF @ > 0 THEN @ - 1 ELSE @]
    /\ cursor' = 1
    /\ Goto(t, "releasing")
    /\ UNCHANGED <<queue, granted, cancelled, registered, kind, token, recorded,
                   thrown, sourceVars>>

ReleaseDone(t) ==
    /\ pc[t] = "releasing"
    /\ PumpedUnlock(t)
    /\ Leave(t)
    /\ UNCHANGED <<queue, active, kindActive, thrown, sourceVars>>

(* The exception path: unregister first, then give the ticket up.          *)
Unwind(t) ==
    /\ pc[t] = "unwind"
    /\ ResetRegistration(t)
    /\ Goto(t, "abandon")
    /\ UNCHANGED <<schedulerVars, kind, token, recorded, thrown, reason,
                   deadline, armed, claim, claimant, cbMutex, target>>

(* Mutant: an abandoned waiter that was granted keeps its permit.          *)
AbandonLeaks(t) ==
    /\ pc[t] = "abandon" /\ mutex = Free
    /\ granted[t]
    /\ Leave(t)
    /\ thrown' = [thrown EXCEPT ![t] = "failed"]
    /\ UNCHANGED <<mutex, cursor, queue, active, kindActive, sourceVars>>

(* AbandonWaiter of a waiter the pump granted: the permit goes back.       *)
AbandonGranted(t) ==
    /\ pc[t] = "abandon" /\ mutex = Free
    /\ granted[t]
    /\ Goto(t, "release")
    /\ thrown' = [thrown EXCEPT ![t] = "failed"]
    /\ UNCHANGED <<schedulerVars, registered, kind, token, recorded, sourceVars>>

(* AbandonWaiter otherwise: the ticket leaves the queue, with no pump, and *)
(* the waiter (whose cancelled flag nobody can read any more) is gone.     *)
AbandonQueued(t) ==
    /\ pc[t] = "abandon" /\ mutex = Free
    /\ ~granted[t]
    /\ queue' = IF cancelled[t] THEN queue ELSE Without(queue, t)
    /\ Leave(t)
    /\ thrown' = [thrown EXCEPT ![t] = "failed"]
    /\ UNCHANGED <<mutex, cursor, active, kindActive, sourceVars>>

-----------------------------------------------------------------------------
Init ==
    /\ mutex = Free
    /\ cursor = 0
    /\ queue = <<>>
    /\ active = 0
    /\ kindActive = [k \in Kinds |-> 0]
    /\ granted = [t \in Threads |-> FALSE]
    /\ cancelled = [t \in Threads |-> FALSE]
    /\ registered = [t \in Threads |-> FALSE]
    /\ pc = [t \in Threads |-> "idle"]
    /\ kind = [t \in Threads |-> AnyKind]
    /\ token = [t \in Threads |-> NoSource]
    /\ recorded = [t \in Threads |-> {}]
    /\ thrown = [t \in Threads |-> "none"]
    /\ reason = [s \in Sources |-> "none"]
    /\ deadline \in [Sources -> {"never", "pending", "due"}]
    /\ armed = [s \in Sources |-> deadline[s] = "pending"]
    /\ claim = [s \in Sources |-> "open"]
    /\ claimant = [s \in Sources |-> Free]
    /\ callbacks = [s \in Sources |-> {}]
    /\ cbMutex = [s \in Sources |-> Free]
    /\ target = [s \in Sources |-> Free]

(* Steps a thread takes without having to wait for a lock.                 *)
ThreadStep(t) ==
    \/ FirstPollPasses(t)
    \/ FirstPollThrows(t)
    \/ PollClaims(t)
    \/ AdmittedImmediately(t)
    \/ Queued(t)
    \/ InlineDone(t)
    \/ Settle(t)
    \/ Throw(t)
    \/ RepollPasses(t)
    \/ RepollThrows(t)
    \/ ReleaseDone(t)

(* Steps that first lock a mutex another actor may hold.                   *)
LockingStep(t) ==
    \/ Enqueue(t)
    \/ Register(t)
    \/ RegisterInline(t)
    \/ InlineCancels(t)
    \/ InlineIgnored(t)
    \/ WaitTest(t)
    \/ Unregister(t)
    \/ ReleasePermit(t)
    \/ Unwind(t)
    \/ AbandonGranted(t)
    \/ AbandonQueued(t)

(* Steps nothing obliges the program to take.                              *)
OptionalStep(t) == StartAcquire(t) \/ WaitFails(t)

ClaimStep(s) == ClaimLock(s) \/ ClaimCall(s) \/ ClaimNotify(s) \/ ClaimFinish(s)

Environment(s) == Cancel(s) \/ Expire(s) \/ NewSource(s)

Next ==
    \/ PumpLocked
    \/ \E t \in Threads :
        OptionalStep(t) \/ Finish(t) \/ ThreadStep(t) \/ LockingStep(t)
    \/ \E s \in Sources : ClaimStep(s) \/ WatchdogClaim(s) \/ Environment(s)

Spec == Init /\ [][Next]_vars

(* A runnable thread keeps running, an actor that wants a mutex eventually *)
(* gets it, and the watchdog fires the deadlines it holds.  Nothing makes  *)
(* an application cancel, start or finish an execution.                    *)
Fairness ==
    /\ WF_vars(PumpLocked)
    /\ \A t \in Threads : WF_vars(ThreadStep(t)) /\ SF_vars(LockingStep(t))
    /\ \A s \in Sources : SF_vars(ClaimStep(s)) /\ WF_vars(WatchdogClaim(s))

FairSpec == Spec /\ Fairness

-----------------------------------------------------------------------------
(* Type invariant.                                                         *)
TypeOK ==
    /\ mutex \in Threads \cup Sources \cup {Free}
    /\ cursor \in Nat
    /\ queue \in Seq(Threads)
    /\ active \in Nat
    /\ kindActive \in [Kinds -> Nat]
    /\ granted \in [Threads -> BOOLEAN]
    /\ cancelled \in [Threads -> BOOLEAN]
    /\ registered \in [Threads -> BOOLEAN]
    /\ pc \in [Threads -> PcValues]
    /\ kind \in [Threads -> Kinds]
    /\ token \in [Threads -> Sources \cup {NoSource}]
    /\ recorded \in [Threads -> SUBSET Outcomes]
    /\ thrown \in [Threads -> Errors]
    /\ reason \in [Sources -> Reasons]
    /\ deadline \in [Sources -> {"never", "pending", "due"}]
    /\ armed \in [Sources -> BOOLEAN]
    /\ claim \in [Sources -> {"open", "claimed", "calling", "cancelling", "done"}]
    /\ claimant \in [Sources -> Threads \cup {Free}]
    /\ callbacks \in [Sources -> SUBSET Threads]
    /\ cbMutex \in [Sources -> Threads \cup Sources \cup {Free}]
    /\ target \in [Sources -> Threads \cup {Free}]

(* The counters count exactly the acquisitions that hold a permit: no path *)
(* out of Acquire (lease, throw, raced grant, abandon) leaks one or        *)
(* returns one twice.                                                      *)
PermitAccounting ==
    /\ active = Cardinality(Holders)
    /\ \A k \in Kinds : kindActive[k] = Cardinality(HoldersOf(k))

(* Neither limit is ever exceeded by the executions that hold a permit.    *)
LimitsRespected ==
    /\ GlobalLimit # 0 => Cardinality(Holders) <= GlobalLimit
    /\ \A k \in Kinds :
        KindLimit[k] # 0 => Cardinality(HoldersOf(k)) <= KindLimit[k]

(* The queue holds exactly the acquisitions that wait: none twice, none    *)
(* that was granted, cancelled, or has left Acquire.                       *)
QueueIsTheWaiters ==
    /\ IsInjective(queue)
    /\ ToSet(queue) =
         {t \in Threads : pc[t] \in TicketPcs /\ ~granted[t] /\ ~cancelled[t]}

(* Whenever the mutex is free, which is when Stats can read, capacity and  *)
(* an acquisition that could use it are never both idle.                   *)
WorkConserving ==
    mutex = Free /\ queue # <<>> =>
        GlobalFull \/ \A i \in 1..Len(queue) : KindFull(kind[queue[i]])

(* ~CancellationRegistration cannot return while its callback runs: a      *)
(* callback only ever touches a waiter whose registration is still there.  *)
CallbackOnlyWhileRegistered ==
    \A s \in Sources :
        /\ \A t \in callbacks[s] : registered[t] /\ token[t] = s
        /\ target[s] # Free =>
             registered[target[s]] /\ pc[target[s]] \in TicketPcs

(* The inductive invariant behind the properties above: who holds which    *)
(* lock, what the position of a thread says of its waiter, which           *)
(* registrations exist, and what the scan in progress has passed.          *)
LockInv ==
    /\ mutex = Free <=> cursor = 0
    /\ \A t \in Threads :
        mutex = t <=> pc[t] \in {"enqueueing", "inlineCancelling", "releasing"}
    /\ \A s \in Sources :
        /\ reason[s] = "none" <=> claim[s] = "open"
        /\ mutex = s <=> claim[s] = "cancelling"
        /\ cbMutex[s] = s <=> claim[s] \in {"calling", "cancelling"}
        /\ \A t \in Threads :
            cbMutex[s] = t <=>
                token[t] = s /\ pc[t] \in {"inlineCallback", "inlineCancelling"}

WaiterInv ==
    \A t \in Threads :
        /\ pc[t] \in {"idle", "poll", "enqueue"} => ~granted[t] /\ ~cancelled[t]
        /\ pc[t] \in {"unregister", "settle"} => granted[t] \/ cancelled[t]
        /\ pc[t] = "throw" => ~granted[t]
        /\ pc[t] \in {"repoll", "running", "release"} => granted[t]
        /\ pc[t] \in {"register", "inlineCallback", "inlineCancelling"} =>
             token[t] \in Sources

RegistrationInv ==
    /\ \A t \in Threads :
        registered[t] =>
            /\ pc[t] \in {"wait", "asleep", "unregister", "unwind"}
            /\ token[t] \in Sources
    /\ \A s \in Sources :
        /\ \A t \in callbacks[s] : registered[t] /\ token[t] = s
        /\ target[s] # Free =>
             /\ claim[s] = "cancelling"
             /\ registered[target[s]] /\ token[target[s]] = s
             /\ pc[target[s]] \in {"wait", "asleep", "unwind"}

ScanInv ==
    mutex # Free =>
        /\ cursor \in 1..(Len(queue) + 1)
        /\ \A j \in 1..(cursor - 1) : KindFull(kind[queue[j]])

CountersBounded ==
    /\ GlobalLimit # 0 => active <= GlobalLimit
    /\ \A k \in Kinds : KindLimit[k] # 0 => kindActive[k] <= KindLimit[k]

IInv ==
    /\ TypeOK
    /\ LockInv
    /\ WaiterInv
    /\ RegistrationInv
    /\ QueueIsTheWaiters
    /\ ScanInv
    /\ PermitAccounting
    /\ CountersBounded
    /\ WorkConserving

(* Why telemetry and the caller agree: whoever was told to stop waiting    *)
(* holds a token whose source is claimed, which no later step undoes, and  *)
(* the position of a thread says what it has recorded and will throw.      *)
StoppedInv ==
    \A t \in Threads :
        cancelled[t] \/ pc[t] \in {"inlineCallback", "inlineCancelling", "throw"}
            => Claimed(t)

TellsWhatHappened(t) ==
    /\ pc[t] \notin {"idle", "release", "releasing"} => thrown[t] = "none"
    /\ pc[t] \in {"idle", "poll", "enqueue", "enqueueing"} => recorded[t] = {}
    /\ pc[t] \in {"register", "inlineCallback", "inlineCancelling", "wait", "asleep",
                 "unregister", "settle", "unwind", "abandon"} => recorded[t] = {"queued"}
    /\ pc[t] = "throw" => recorded[t] = {"queued", reason[token[t]]}
    /\ pc[t] = "repoll" => recorded[t] = {"queued", "admitted"}
    /\ pc[t] \in {"running", "release", "releasing"} =>
         recorded[t] \in IF thrown[t] = "none" THEN {{"admitted"}, {"queued", "admitted"}}
                         ELSE IF thrown[t] = "failed" THEN {{"queued"}}
                         ELSE {{"queued", "admitted"}}
RecordedInv == \A t \in Threads : TellsWhatHappened(t)

(* Action property.  Telemetry and the caller agree: as an acquisition     *)
(* ends, a wait that got no permit is counted under the error it throws, a *)
(* grant that lost to a cancellation is counted once, as admitted, and an  *)
(* abandoned ticket has no outcome.                                        *)
OutcomeAgrees ==
    [][\A t \in Threads :
          pc[t] # "idle" /\ pc'[t] = "idle" =>
              recorded[t] \in
                  CASE thrown'[t] = "none"   -> {{"admitted"}, {"queued", "admitted"}}
                    [] thrown'[t] = "failed" -> {{"queued"}}
                    [] OTHER -> {{}, {"queued", "admitted"}, {"queued", thrown'[t]}}]_vars

(* Action property.  Oldest eligible first: when an acquisition is         *)
(* granted, everything ahead of it belongs to a kind that is full, so a    *)
(* later acquisition never passes one of its own kind.                     *)
GrantsOldestEligible ==
    [][\A i \in 1..Len(queue) :
          granted'[queue[i]] /\ ~granted[queue[i]] =>
              \A j \in 1..(i - 1) :
                  KindFull(kind[queue[j]]) /\ kind[queue[j]] # kind[queue[i]]]_vars

(* The waits that hold the token of a source that is claimed or past its   *)
(* deadline end, all of them, even if no execution ever returns its permit.*)
WaitersOf(s) ==
    {t \in Threads : token[t] = s /\ pc[t] \in {"register", "wait", "asleep"}}

CancellationEndsWait ==
    \A s \in Sources :
        reason[s] # "none" \/ deadline[s] = "due" ~> WaitersOf(s) = {}

(* If executions end, every acquisition is admitted or leaves with an      *)
(* error: no kind, however busy, starves another in the queue.             *)
AcquireReturns ==
    (\A t \in Threads : WF_vars(Finish(t))) =>
    \A t \in Threads : pc[t] = "enqueue" ~> pc[t] \in {"running", "idle"}

(* The controller implements the abstract admission queue of Admission,    *)
(* fairness of its grants included: what callers see of mutex, scan and    *)
(* callbacks is a queue that admits the oldest request that fits.          *)
Request(t) == [thread |-> t, kind |-> kind[t]]

Abstract == INSTANCE Admission WITH
    waiting <- [i \in 1..Len(queue) |-> Request(queue[i])],
    holding <- {Request(t) : t \in Holders}

ImplementsAdmission     == Abstract!Spec
ImplementsFairAdmission == Abstract!FairSpec

=============================================================================
