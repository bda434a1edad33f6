---------------------------- MODULE MCStageRuns ----------------------------
(* Small instances of StageRuns for TLC.                                   *)
EXTENDS StageRuns, TLC

CONSTANTS t1, t2, c1, n1

TwoThreads == {t1, t2}
OneCopy    == {c1}
NoCopies   == {}
OneName    == {n1}
NoNames    == {}

Symmetry == Permutations({t1, t2})
=============================================================================
