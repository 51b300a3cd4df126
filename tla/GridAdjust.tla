----------------------------- MODULE GridAdjust -----------------------------
(***************************************************************************)
(* GRID ADJUST (app/src/grids.rs and its arms of DeckApp::apply): a beat   *)
(* grid is an anchor and which beat of the bar the anchor is; it is moved  *)
(* by hand, written to grids.json under the track's path, and taken from   *)
(* there by the next load.  Frames are integers and so is a beat's period: *)
(* rounding to a frame is left out.                                        *)
(***************************************************************************)
EXTENDS Integers

CONSTANTS
  Period,       \* frames between two beats
  Detent,       \* frames of one detent of the knob (period / 64)
  LastFrame,    \* frames of the track (a bound)
  MaxEdits      \* edits in a behaviour (a bound)

ASSUME GridAssumption ==
  /\ Period \in Nat \ {0} /\ Detent \in 1 .. Period
  /\ LastFrame \in Nat /\ MaxEdits \in Nat

VARIABLES
  grid,         \* DeckApp::beat_grid
  gridOrig,     \* DeckApp::grid_orig, as it was analysed
  senderGrid,   \* DeckApp::link_grid, which the Link sender reads
  savedGrids,   \* grids.json: the entries of this track's path
  cueFrame,     \* the transport's cue point, in frames
  edits         \* edits so far

gridVars == <<grid, gridOrig, senderGrid, savedGrids, cueFrame, edits>>

Frames    == 0 .. LastFrame
FourBeats == 0 .. 3
Grids     == [anchor : 0 .. Period - 1, offset : FourBeats]

\* What the beat of a frame is called (prodj.rs, snapshot.rs): 1 .. 4.
BeatInBar(g, frame) == (((frame - g.anchor) \div Period + g.offset) % 4) + 1

\* Mutant of Shifted: the wrap keeps the number of the anchor's beat.
ShiftedUncounted(g, delta) ==
  LET a == g.anchor + delta IN
  [anchor |-> IF a < 0 THEN a % Period ELSE a, offset |-> g.offset]

\* shift: the anchor wraps by whole periods to stay at 0 or above, its number follows.
Shifted(g, delta) ==
  LET a     == g.anchor + delta
      wraps == IF a < 0 THEN (Period - 1 - a) \div Period ELSE 0 IN
  [anchor |-> a + wraps * Period, offset |-> (g.offset + wraps) % 4]

\* Half away from zero, as f64::round does.
Nearest(rel) ==
  IF rel >= 0 THEN (2 * rel + Period) \div (2 * Period)
  ELSE -((2 * (-rel) + Period) \div (2 * Period))

Residual(g, frame) == (frame - g.anchor) - Nearest(frame - g.anchor) * Period

\* snap_to: the nearest beat moves onto the frame; as a downbeat it is numbered
\* by how many beats it was from the anchor before the move.
SnappedTo(g, frame, downbeat) ==
  LET s == Shifted(g, Residual(g, frame)) IN
  IF downbeat THEN [s EXCEPT !.offset = (-Nearest(frame - g.anchor)) % 4] ELSE s

\* grid_changed: the sender follows, and the file.
Edited(g) ==
  /\ edits < MaxEdits /\ edits' = edits + 1
  /\ grid' = g /\ senderGrid' = g /\ savedGrids' = {g}
  /\ UNCHANGED <<gridOrig, cueFrame>>

\* The knob, in GRID ADJUST mode.
Nudge(detents) == Edited(Shifted(grid, detents * Detent))
SnapCue        == Edited(SnappedTo(grid, cueFrame, FALSE))
ShiftCue       == Edited(SnappedTo(grid, cueFrame, TRUE))

\* RESET.
ResetToAnalysed ==
  /\ grid' = gridOrig /\ senderGrid' = gridOrig /\ savedGrids' = {}
  /\ UNCHANGED <<gridOrig, cueFrame, edits>>

\* The track is loaded again: a saved grid wins over the analysis.
LoadAgain ==
  /\ grid' = IF savedGrids = {} THEN gridOrig ELSE CHOOSE g \in savedGrids : TRUE
  /\ senderGrid' = grid'
  /\ UNCHANGED <<gridOrig, savedGrids, cueFrame, edits>>

PlaceCue ==
  /\ cueFrame' \in Frames
  /\ UNCHANGED <<grid, gridOrig, senderGrid, savedGrids, edits>>

GridInit ==
  /\ gridOrig \in Grids /\ grid = gridOrig /\ senderGrid = gridOrig
  /\ savedGrids = {} /\ cueFrame = 0 /\ edits = 0

GridNext ==
  \/ \E detents \in {-2, -1, 1, 2} : Nudge(detents)
  \/ SnapCue \/ ShiftCue \/ ResetToAnalysed \/ LoadAgain \/ PlaceCue

GridSpec == GridInit /\ [][GridNext]_gridVars

---------------------------------------------------------------------------
(* What GRID ADJUST promises. *)

\* Moving the grid by the knob or onto the cue keeps the numbering: the beat that
\* was at a frame has its number where it went (shift wraps the anchor and its
\* number together), and the snap puts a beat on the cue.
NumberingMovesAlong ==
  [][/\ \A detents \in {-2, -1, 1, 2} : Nudge(detents) =>
          \A f \in Frames : BeatInBar(grid', f + detents * Detent) = BeatInBar(grid, f)
     /\ SnapCue =>
          /\ (cueFrame - grid'.anchor) % Period = 0
          /\ \A f \in Frames : BeatInBar(grid', f + Residual(grid, cueFrame)) = BeatInBar(grid, f)
    ]_gridVars

\* SHIFT GRID makes the cue point beat 1 of a bar (grids.rs:39).
CueBecomesBeatOne ==
  [][ShiftCue => BeatInBar(grid', cueFrame) = 1]_gridVars
=============================================================================
