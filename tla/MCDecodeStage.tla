---------------------------- MODULE MCDecodeStage ----------------------------
(* A batch of two lanes and two prompts for TLC: a column of words, and two*)
(* columns which are, in the second lane, a picture of two frames.         *)
EXTENDS DecodeStage

TwoLanes   == {1, 2}
ThreeWords == {0, 1, 2}
TwoStops   == {1, 2}
Words      == <<0, 0>>
OneStops   == {<<2, 0>>, <<0, 2>>}
TwoPrompts == {<<Words>>, <<Words, Words>>}
TwoFrames(p, l) == l = 2 /\ Len(p) = 2
Pictured  == [p \in Prompts |-> [l \in Lanes |->
                 IF TwoFrames(p, l) THEN GridLayout(Len(p), 0, 2, 1, 1)
                 ELSE TextLayout(Len(p))]]
ThreeOrFour == {3, 4}
=============================================================================
