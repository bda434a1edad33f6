--------------------------- MODULE ExclusiveRuns ---------------------------
(***************************************************************************)
(* What a pipeline session promises about the runs of its stages, with no  *)
(* threads, mutex, permits or handles: the run that owns the session is    *)
(* the only one that changes its data until the run ends, an ended run     *)
(* never comes back, and a saved copy of the data is of a moment between   *)
(* two runs.                                                               *)
(***************************************************************************)
EXTENDS Naturals

CONSTANTS
    MaxRuns,  \* bound on the number of runs
    Holders,  \* places where a copy of the data is kept
    None      \* no copy

VARIABLES
    begun,     \* how many runs were begun
    owner,     \* the run that owns the session, 0 for none
    progress,  \* how many steps each run has executed
    data,      \* whose step left the data as they are, and which
    saved      \* the copies

vars == <<begun, owner, progress, data, saved>>

Runs == 1..MaxRuns
Left(r, n) == [run |-> r, at |-> n]

(* Data changed by something that is not a run, and data of a new session. *)
Outside == Left(0, 1)
Fresh   == Left(0, 0)

Init ==
    /\ begun = 0
    /\ owner = 0
    /\ progress = [r \in Runs |-> 0]
    /\ data = Fresh
    /\ saved = [h \in Holders |-> None]

(* A run binds its inputs when it begins, or at its first step.            *)
Begin ==
    /\ owner = 0 /\ begun < MaxRuns
    /\ begun' = begun + 1
    /\ owner' = begun + 1
    /\ data' \in {data, Left(begun + 1, 0)}
    /\ UNCHANGED <<progress, saved>>

Advance ==
    /\ owner # 0
    /\ progress' = [progress EXCEPT ![owner] = @ + 1]
    /\ data' = Left(owner, progress[owner] + 1)
    /\ UNCHANGED <<begun, owner, saved>>

End ==
    /\ owner # 0
    /\ owner' = 0
    /\ UNCHANGED <<begun, progress, data, saved>>

(* Between two runs the data may be replaced, by a saved copy too, and the *)
(* copies may be forgotten.                                                *)
Change ==
    /\ owner = 0
    /\ \/ data' \in {Outside, Fresh}
       \/ \E h \in Holders : saved[h] # None /\ data' = saved[h]
    /\ \E forgotten \in SUBSET Holders :
        saved' = [h \in Holders |-> IF h \in forgotten THEN None ELSE saved[h]]
    /\ UNCHANGED <<begun, owner, progress>>

Save(h) ==
    /\ owner = 0
    /\ saved' \in {[saved EXCEPT ![h] = data], [saved EXCEPT ![h] = None]}
    /\ UNCHANGED <<begun, owner, progress, data>>

Next ==
    \/ Begin
    \/ Advance
    \/ End
    \/ Change
    \/ \E h \in Holders : Save(h)

Spec == Init /\ [][Next]_vars

=============================================================================
