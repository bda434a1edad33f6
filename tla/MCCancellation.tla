--------------------------- MODULE MCCancellation ---------------------------
(* Small instances of Cancellation for TLC.                                *)
EXTENDS Cancellation, TLC

CONSTANTS t1, t2, s1, s2

TwoThreads == {t1, t2}
OneState   == {s1}
TwoStates  == {s1, s2}

LateOrNever   == {2, NoDeadline}
SoonLateNever == {1, 2, NoDeadline}

Symmetry == Permutations({t1, t2}) \cup Permutations({s1, s2})
=============================================================================
