------------------------------- MODULE MCDeck -------------------------------
(* Two short tracks: "a" has a cue past its start, a memory point and a grid *)
(* of two frames per beat; "b" starts at its cue and is one frame longer.   *)
EXTENDS Deck

Lengths   == [t \in Tracks |-> IF t = "a" THEN 4 ELSE 5]
Cues      == [t \in Tracks |-> IF t = "a" THEN {1} ELSE {0}]
Memory    == [t \in Tracks |-> IF t = "a" THEN {1} ELSE {}]
Sound     == [t \in Tracks |-> IF t = "a" THEN 1 ELSE 2]
Period    == [t \in Tracks |-> 2]
BackForth == {<<1, 0>>, <<0, 1>>}
=============================================================================
