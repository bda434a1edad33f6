---------------------------- MODULE MCTelemetry ----------------------------
(* Small instances of Telemetry for TLC.                                   *)
EXTENDS Telemetry

CONSTANTS t1, t2

TwoThreads     == {t1, t2}
TwoDurations   == {1, 2}
OneReason      == {"cancelled"}
ThreadSymmetry == Permutations({t1, t2})
=============================================================================
