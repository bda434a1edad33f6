---------------------------- MODULE MCAdmission ----------------------------
(* Small instances of AdmissionScheduler for TLC.                          *)
EXTENDS AdmissionScheduler

CONSTANTS t1, t2, t3, transition, generation, s1

ThreeThreads == {t1, t2, t3}
OneThread    == {t3}
TwoKinds     == {transition, generation}
OneSource    == {s1}

(* transition is limited to one execution, generation only globally.       *)
OneTransition == (transition :> 1) @@ (generation :> 0)

AnyAcquisition == Threads \X Kinds \X (Sources \cup {NoSource})

(* Two threads compete for transition, one of them with a token; the third *)
(* competes with them or passes them.                                      *)
SomeAcquisitions ==
    {<<t1, transition, s1>>, <<t2, transition, NoSource>>,
     <<t3, transition, NoSource>>, <<t3, generation, NoSource>>}

ThreadSymmetry == Permutations({t1, t2, t3})
=============================================================================
