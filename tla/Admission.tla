----------------------------- MODULE Admission -----------------------------
(***************************************************************************)
(* What the admission controller promises its callers, with no mutex, no   *)
(* scan and no cancellation machinery: acquisitions wait in arrival order, *)
(* and the one admitted next is always the oldest that fits under both     *)
(* limits.  An acquisition may leave the queue without being admitted.     *)
(***************************************************************************)
EXTENDS Naturals, Sequences, FiniteSets, SequencesExt

CONSTANTS Threads, Kinds, GlobalLimit, KindLimit

VARIABLES
    waiting,  \* requests [thread, kind] in arrival order
    holding   \* requests that hold a permit

vars == <<waiting, holding>>

Requests == [thread : Threads, kind : Kinds]

TypeOK ==
    /\ waiting \in Seq(Requests)
    /\ holding \subseteq Requests

Init == waiting = <<>> /\ holding = {}

OfKind(k) == {r \in holding : r.kind = k}

Fits(r) ==
    /\ GlobalLimit # 0 => Cardinality(holding) < GlobalLimit
    /\ KindLimit[r.kind] # 0 => Cardinality(OfKind(r.kind)) < KindLimit[r.kind]

Involved(t) ==
    \/ \E i \in 1..Len(waiting) : waiting[i].thread = t
    \/ \E r \in holding : r.thread = t

Enter(r) ==
    /\ ~Involved(r.thread)
    /\ waiting' = Append(waiting, r)
    /\ UNCHANGED holding

Grant(i) ==
    /\ Fits(waiting[i])
    /\ \A j \in 1..(i - 1) : ~Fits(waiting[j])
    /\ waiting' = RemoveAt(waiting, i)
    /\ holding' = holding \cup {waiting[i]}

Withdraw(i) ==
    /\ waiting' = RemoveAt(waiting, i)
    /\ UNCHANGED holding

Return(r) ==
    /\ holding' = holding \ {r}
    /\ UNCHANGED waiting

GrantSome == \E i \in 1..Len(waiting) : Grant(i)

Next ==
    \/ \E r \in Requests : Enter(r)
    \/ GrantSome
    \/ \E i \in 1..Len(waiting) : Withdraw(i)
    \/ \E r \in holding : Return(r)

Spec == Init /\ [][Next]_vars

(* Capacity that a waiting request fits in does not stay idle.             *)
FairSpec == Spec /\ WF_vars(GrantSome)

=============================================================================
