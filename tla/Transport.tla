------------------------------ MODULE Transport ------------------------------
(***************************************************************************)
(* The CUE / PLAY rules of crates/transport, as the pure functions they    *)
(* are in the source: each takes what the transport remembers, and what    *)
(* it is told about the deck, and returns what it remembers next together  *)
(* with the outcome the deck has to carry out (pause, then seek, then      *)
(* play).  The playhead belongs to the caller: CuePlay supplies an ideal   *)
(* one, Deck the application's.                                            *)
(***************************************************************************)
EXTENDS Naturals

CONSTANT None         \* Rust's Option::None

ASSUME NoneAssumption == None \notin Nat /\ None \notin BOOLEAN

\* struct Transport: where CUE returns to, whether the playhead is believed to
\* sit there, and whether CUE is held from a paused deck.
TransportState == [cue_point : Nat, cued : BOOLEAN, preview : BOOLEAN]

\* struct Outcome, without the cue_point field: the deck only logs that one.
Outcome == [playing : BOOLEAN \cup {None}, seek_to : Nat \cup {None}]

LeaveAlone     == [playing |-> None, seek_to |-> None]
SetPlaying(on) == [playing |-> on, seek_to |-> None]
PauseAt(p)     == [playing |-> FALSE, seek_to |-> p]
PlayFrom(p)    == [playing |-> TRUE, seek_to |-> p]

Result(tr, outcome) == [tr |-> tr, outcome |-> outcome]

\* Transport::new: a freshly loaded track sits on its cue.
NewTransport(cue) == [cue_point |-> cue, cued |-> TRUE, preview |-> FALSE]

\* Transport::play: latch continuous playback, ending any preview.
Latch(tr) == Result([tr EXCEPT !.preview = FALSE, !.cued = FALSE], SetPlaying(TRUE))

\* Transport::play_pause: a preview latches, playback pauses, a pause plays.
PlayOrPause(tr, playing) ==
  IF tr.preview THEN Latch(tr)
  ELSE IF playing THEN Result(tr, SetPlaying(FALSE))
  ELSE Result([tr EXCEPT !.cued = FALSE], SetPlaying(TRUE))

\* Transport::cue, the press: return from playback, preview the cue the deck
\* sits on, or adopt the audible position as the cue and preview that.
CueDown(tr, playing, audible) ==
  IF playing THEN Result([tr EXCEPT !.cued = TRUE], PauseAt(tr.cue_point))
  ELSE IF tr.cued THEN Result([tr EXCEPT !.preview = TRUE], PlayFrom(tr.cue_point))
  ELSE Result([cue_point |-> audible, cued |-> TRUE, preview |-> TRUE], SetPlaying(TRUE))

\* Mutant of CueUp: the deck stops where the preview got to.
CueUpInPlace(tr) ==
  IF tr.preview
  THEN Result([tr EXCEPT !.preview = FALSE, !.cued = TRUE], SetPlaying(FALSE))
  ELSE Result(tr, LeaveAlone)

\* Transport::cue, the release: only a preview has something to undo.
CueUp(tr) ==
  IF tr.preview
  THEN Result([tr EXCEPT !.preview = FALSE, !.cued = TRUE], PauseAt(tr.cue_point))
  ELSE Result(tr, LeaveAlone)

\* Mutant of Searched: a search leaves the deck cued.
SearchedStillCued(tr) == tr

\* Transport::searched: the playhead was moved by hand, off the cue.
Searched(tr) == [tr EXCEPT !.cued = FALSE]

\* Transport::arrived_at_cue: the playhead was placed on this cue.
ArrivedAtCue(tr, cue) == [tr EXCEPT !.cue_point = cue, !.cued = TRUE]
=============================================================================
