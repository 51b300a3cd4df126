------------------------------- MODULE CuePlay -------------------------------
(***************************************************************************)
(* What the CUE and PLAY keys promise: the rules of Transport over an      *)
(* ideal playhead, the deck of crates/transport/tests/specs.rs against     *)
(* which the behaviours of specs/xdj-1000mk2/ are stated.  PLAY and CUE    *)
(* are keys with two edges; a needle search and a placement on a cue (a    *)
(* memory point, a load) move the playhead; playing moves it on.           *)
(***************************************************************************)
EXTENDS Transport

CONSTANT Length       \* the track's length; positions are 0 .. Length

ASSUME LengthAssumption == Length \in Nat

VARIABLES playing,    \* the deck is playing
          pos,        \* the playhead, as the listener hears it
          tr,         \* what the transport rules remember
          held        \* history of CUE: "up", "preview" while a press that
                      \* started a preview is held, "locked" once PLAY latched

vars == <<playing, pos, tr, held>>

Positions == 0 .. Length

Landing(p) == IF p <= Length THEN p ELSE Length

\* Deck::apply of tests/specs.rs: pause, seek, play.
Carry(result) ==
  /\ tr' = result.tr
  /\ playing' = IF result.outcome.playing = None THEN playing ELSE result.outcome.playing
  /\ pos' = IF result.outcome.seek_to = None THEN pos ELSE Landing(result.outcome.seek_to)

Init ==
  /\ playing = FALSE
  /\ \E cue \in Positions : pos = cue /\ tr = NewTransport(cue)
  /\ held = "up"

PressPlay ==
  /\ Carry(PlayOrPause(tr, playing))
  /\ held' = IF held = "preview" THEN "locked" ELSE held

PressCue ==
  /\ held = "up"
  /\ Carry(CueDown(tr, playing, pos))
  /\ held' = IF playing THEN "locked" ELSE "preview"

ReleaseCue ==
  /\ held # "up"
  /\ Carry(CueUp(tr))
  /\ held' = "up"

Needle(p) ==
  /\ pos' = p
  /\ tr' = Searched(tr)
  /\ UNCHANGED <<playing, held>>

\* A memory point recalled or a load: the deck stops on a cue.  Any preview in
\* progress is over (DeckApp clears it before it places the playhead).
PlaceOnCue(p) ==
  /\ playing' = FALSE
  /\ pos' = p
  /\ tr' = ArrivedAtCue([tr EXCEPT !.preview = FALSE], p)
  /\ held' = IF held = "preview" THEN "locked" ELSE held

\* AUTO CUE switched on over a paused deck.
Recue(p) ==
  /\ ~playing
  /\ pos' = p
  /\ tr' = ArrivedAtCue(tr, p)
  /\ UNCHANGED <<playing, held>>

EndOfTrack ==
  /\ playing
  /\ pos = Length
  /\ playing' = FALSE
  /\ UNCHANGED <<pos, tr, held>>

Advance ==
  /\ playing
  /\ pos < Length
  /\ pos' = pos + 1
  /\ UNCHANGED <<playing, tr, held>>

Next ==
  \/ PressPlay
  \/ PressCue
  \/ ReleaseCue
  \/ \E p \in Positions : Needle(p) \/ PlaceOnCue(p) \/ Recue(p)
  \/ Advance \/ EndOfTrack

Spec == Init /\ [][Next]_vars

-----------------------------------------------------------------------------

TypeOK ==
  /\ playing \in BOOLEAN
  /\ pos \in Positions
  /\ tr \in [cue_point : Positions, cued : BOOLEAN, preview : BOOLEAN]
  /\ held \in {"up", "preview", "locked"}

\* `cued` is "a cached derivation of playhead == cue_point"
\* (docs/design/transport-rules.md): on a deck that stands still outside a
\* preview it is true only when the playhead is on the cue, so a CUE press there
\* previews the cue the DJ sees and never an older one.
CuedIsHonest == tr.cued /\ ~playing /\ ~tr.preview => pos = tr.cue_point

\* The rules know a preview exactly while CUE is held from a press that started
\* one and PLAY has not latched it.
PreviewIsHeld == tr.preview <=> held = "preview"

\* Nobody moves the cue point while the deck plays except by placing the
\* playhead on a cue; a search, playback or a CUE press from playback keeps it.
CueMovesOnlyAtRest ==
  [][tr'.cue_point # tr.cue_point => (~playing \/ ~playing')
                                     /\ (tr'.cue_point = pos \/ tr'.cue_point = pos')]_vars

\* The specs cue-preview-returns and cue-play-locks-in together: releasing CUE
\* stops the deck on its cue when the press previewed and PLAY did not latch,
\* and otherwise changes nothing the listener hears.
ReleaseReturnsOrNothing ==
  [][held # "up" /\ held' = "up" =>
       IF held = "preview" THEN ~playing' /\ pos' = tr'.cue_point
                           ELSE playing' = playing /\ pos' = pos]_vars
=============================================================================
