------------------------ MODULE CancellationPromise ------------------------
(***************************************************************************)
(* What cancellation promises, with no mutex, no watchdog and no lifetime: *)
(* a source stops once, for one reason; a registered callback is called    *)
(* once if the source stops while it is registered, or was stopped before; *)
(* a thread that waits for the source goes on when it has stopped.         *)
(***************************************************************************)
EXTENDS Naturals

CONSTANTS Threads, States, None

VARIABLES
    reason,    \* why each source stopped, "none" while it has not
    attached,  \* the source each thread's callback is registered with
    called,    \* how often that callback was called
    waiting    \* the source each thread waits for

vars == <<reason, attached, called, waiting>>

Stopped(s) == reason[s] # "none"

Init ==
    /\ reason = [s \in States |-> "none"]
    /\ attached = [t \in Threads |-> None]
    /\ called = [t \in Threads |-> 0]
    /\ waiting = [t \in Threads |-> None]

Stop(s) ==
    /\ ~Stopped(s)
    /\ \E r \in {"cancelled", "deadline"} : reason' = [reason EXCEPT ![s] = r]
    /\ UNCHANGED <<attached, called, waiting>>

Attach(t, s) ==
    /\ attached[t] = None
    /\ attached' = [attached EXCEPT ![t] = s]
    /\ called' = [called EXCEPT ![t] = IF Stopped(s) THEN 1 ELSE 0]
    /\ UNCHANGED <<reason, waiting>>

Call(t) ==
    /\ attached[t] # None /\ Stopped(attached[t]) /\ called[t] = 0
    /\ called' = [called EXCEPT ![t] = 1]
    /\ UNCHANGED <<reason, attached, waiting>>

Detach(t) ==
    /\ attached[t] # None
    /\ attached' = [attached EXCEPT ![t] = None]
    /\ called' = [called EXCEPT ![t] = 0]
    /\ UNCHANGED <<reason, waiting>>

BeginWait(t, s) ==
    /\ waiting[t] = None
    /\ waiting' = [waiting EXCEPT ![t] = s]
    /\ UNCHANGED <<reason, attached, called>>

EndWait(t) ==
    /\ waiting[t] # None /\ Stopped(waiting[t])
    /\ waiting' = [waiting EXCEPT ![t] = None]
    /\ UNCHANGED <<reason, attached, called>>

(* A source nobody uses is destroyed; a new one takes its place.           *)
Renew(s) ==
    /\ Stopped(s)
    /\ \A t \in Threads : attached[t] # s /\ waiting[t] # s
    /\ reason' = [reason EXCEPT ![s] = "none"]
    /\ UNCHANGED <<attached, called, waiting>>

Next ==
    \/ \E s \in States : Stop(s) \/ Renew(s)
    \/ \E t \in Threads : Call(t) \/ Detach(t) \/ EndWait(t)
    \/ \E t \in Threads, s \in States : Attach(t, s) \/ BeginWait(t, s)

Spec == Init /\ [][Next]_vars

FairSpec ==
    Spec /\ \A t \in Threads : WF_vars(Call(t)) /\ WF_vars(EndWait(t))

=============================================================================
