---------------------------- MODULE MCAudioEngine ----------------------------
(* A track of four frames read in blocks of two; loops that share their start *)
(* (halved, doubled), or that do not (a second loop set elsewhere).           *)
EXTENDS AudioEngine

Lengths     == [t \in {"a", "b"} |-> IF t = "a" THEN 4 ELSE 3]
Halved      == {<<0, 2>>, <<0, 3>>}
Elsewhere   == {<<0, 2>>, <<1, 3>>}
OddLength   == {<<1, 4>>}
NoLoops     == {}
=============================================================================
