------------------------------ MODULE Console ------------------------------
(***************************************************************************)
(* The touch console of the phone (app/src/screen.rs, lib.rs): two pages   *)
(* of controls under several fingers, of which the first is the pointer    *)
(* and drags a widget while the others reach only PLAY and CUE; the page   *)
(* swipe; the screens of the LCD; the keyboard of the preview window.  The *)
(* deck is the rules of Transport, with what the platter and the waveform  *)
(* hold.  An action is what one finger or key does, drawn in a frame.      *)
(***************************************************************************)
EXTENDS Transport, FiniteSets

CONSTANTS
  Fingers,
  StrayKeys     \* whether keys change the page or the screen under a held control

ASSUME ConsoleAssumption ==
  IsFiniteSet(Fingers) /\ None \notin Fingers /\ StrayKeys \in BOOLEAN

VARIABLES
  page,         \* phone_controls: "screen" or "controls"
  view,         \* ScreenMode
  fingers,      \* where each finger landed, or "up"
  primary,      \* TouchTrack::primary, the pointer, or None
  drag,         \* the widget the pointer drags, or "none"
  grab,         \* WaveGrab::grabbed
  spent,        \* the second fingers on PLAY that acted when they landed
  swiped,       \* swipe_done
  enter,        \* the Enter key is down
  vinyl,        \* Settings::jog_vinyl
  d             \* the deck

touchVars   == <<fingers, primary, drag, grab, spent, swiped>>
consoleVars == <<page, view, touchVars, enter, vinyl, d>>

Places    == 0 .. 1
Lists     == {"browse", "menu"}
Views     == Lists \cup {"perform"}

\* The widgets that are dragged, and what is drawn on a page.
Drags == {"play", "cue", "jog", "wave", "needle", "pad"}
Drawn(pg, vw) ==
  {"play", "cue", "key", "bare"} \cup
  IF pg = "controls" THEN {"jog"}
  ELSE {"needle"} \cup {w \in {"wave"} : vw = "playback"} \cup {w \in {"pad"} : vw = "perform"}

\* A drag ends without a word when its widget is no longer drawn.
KeptDrag(pg, vw) == IF drag \in Drawn(pg, vw) THEN drag ELSE "none"

Down == {f \in Fingers : fingers[f] # "up"}

---------------------------------------------------------------------------
(* What the events do to the deck (DeckApp::apply). *)

Carried(dk, result) ==
  [dk EXCEPT
     !.tr      = result.tr,
     !.playing = IF result.outcome.playing = None THEN @ ELSE result.outcome.playing,
     !.pos     = IF result.outcome.seek_to = None THEN @ ELSE result.outcome.seek_to]

LockIn(dk)    == Carried(dk, Latch(dk.tr))
PlayPause(dk) == Carried(dk, PlayOrPause(dk.tr, dk.playing))
CueEdge(dk, pressed) ==
  Carried(dk, IF pressed THEN CueDown(dk.tr, dk.playing, dk.pos) ELSE CueUp(dk.tr))
Scrubbed(dk, p) == [dk EXCEPT !.pos = p, !.tr = Searched(@)]

JogTouch(dk, touched) ==
  IF touched /\ vinyl /\ dk.playing THEN [dk EXCEPT !.playing = FALSE, !.jogHold = TRUE]
  ELSE IF ~touched /\ dk.jogHold THEN [LockIn(dk) EXCEPT !.jogHold = FALSE]
  ELSE dk

WaveTouch(dk, touched) ==
  IF touched /\ dk.playing THEN [dk EXCEPT !.playing = FALSE, !.waveHold = TRUE]
  ELSE IF ~touched /\ dk.waveHold THEN [LockIn(dk) EXCEPT !.waveHold = FALSE]
  ELSE dk

\* Mutant of LetGo: the platter is not let go with its page.
LetGoOfPreview(dk) == CueEdge(WaveTouch(dk, FALSE), FALSE)

\* release_held_controls: flipping the page is the finger lifting.
LetGo(dk) == CueEdge(WaveTouch(JogTouch(dk, FALSE), FALSE), FALSE)

\* A widget pressed; a hot cue plays from its place, an unset pad is set.
Pressed(dk, w, p) ==
  CASE w = "play"   -> PlayPause(dk)
    [] w = "cue"    -> CueEdge(dk, TRUE)
    [] w = "jog"    -> JogTouch(dk, TRUE)
    [] w = "needle" -> Scrubbed(dk, p)
    [] w = "pad"    -> IF p = 0 THEN dk ELSE [LockIn(dk) EXCEPT !.pos = p]
    [] OTHER        -> dk

\* The drag of a widget stopped.
Stopped(dk, w) ==
  CASE w = "cue"            -> CueEdge(dk, FALSE)
    [] w = "jog"            -> JogTouch(dk, FALSE)
    [] w = "wave" /\ grab -> WaveTouch(dk, FALSE)
    [] OTHER                -> dk

---------------------------------------------------------------------------
(* The keys of the screen that are clicked, and what they change. *)

ChangesView(to) == view' = to /\ UNCHANGED <<page, vinyl, d>>

\* The keys along the top, the encoder and BACK.
Toggled(key) == IF view = key THEN "playback" ELSE key
LoadKey ==
  \/ view \in Lists /\ ChangesView(view)
  \/ view = "browse" /\ ChangesView("playback")
  \/ view \notin Lists /\ ChangesView("browse")

Flipped == page' = IF page = "screen" THEN "controls" ELSE "screen"

PagerKey   == Flipped /\ d' = LetGo(d) /\ UNCHANGED <<view, vinyl>>
JogModeKey == page = "controls" /\ vinyl' = ~vinyl /\ UNCHANGED <<page, view, d>>
ScreenKeys ==
  /\ page = "screen" /\ (StrayKeys \/ ~enter)
  /\ \/ \E key \in Views : (view = "perform" => key = "perform") /\ ChangesView(Toggled(key))
     \/ LoadKey
     \/ ChangesView(IF view = "menu" THEN "playback" ELSE view)

Click == PagerKey \/ JogModeKey \/ ScreenKeys

---------------------------------------------------------------------------
(* The fingers. *)

\* The first finger is the pointer.
LandFirst(f, w) ==
  /\ primary = None /\ primary' = f
  /\ drag' = IF w \in Drags THEN w ELSE "none"
  /\ grab' = (grab /\ w # "wave")
  /\ \E p \in Places : d' = Pressed(d, w, p)
  /\ UNCHANGED spent

\* Any other acts on CUE, and on PLAY while the first one holds CUE or the platter;
\* two fingers let the waveform go.
LandSecond(f, w) ==
  /\ primary # None /\ grab' = FALSE
  /\ LET free  == IF grab THEN WaveTouch(d, FALSE) ELSE d
         acts  == w = "play" /\ drag \in {"cue", "jog"} IN
     /\ spent' = spent \cup {g \in {f} : acts}
     /\ d' = IF w = "cue" \/ acts THEN Pressed(free, w, 0) ELSE free
  /\ UNCHANGED <<primary, drag>>

Land(f, w) ==
  /\ fingers[f] = "up" /\ w \in Drawn(page, view)
  /\ fingers' = [fingers EXCEPT ![f] = w]
  /\ (LandFirst(f, w) \/ LandSecond(f, w))
  /\ UNCHANGED <<page, view, swiped, enter, vinyl>>

\* Down and up within a frame: not a drag, and read from the raw events.
TapInAFrame ==
  /\ primary = None /\ Down # Fingers /\ UNCHANGED <<touchVars, enter>>
  /\ \/ \E p \in Places, w \in {"play", "cue", "pad"} \cap Drawn(page, view) :
          d' = Stopped(Pressed(d, w, p), w) /\ UNCHANGED <<page, view, vinyl>>
     \/ Click

\* The waveform is grabbed once it has moved sideways, and then seeks.
DragWave ==
  /\ drag = "wave" /\ Cardinality(Down) = 1 /\ grab' = TRUE
  /\ \E p \in Places : d' = Scrubbed(IF grab THEN d ELSE WaveTouch(d, TRUE), p)
  /\ UNCHANGED <<page, view, fingers, primary, drag, spent, swiped, enter, vinyl>>

\* The platter scrubs unless it bends a deck that plays (TempoFollow).
DragJog ==
  /\ drag = "jog" /\ Cardinality(Down) = 1 /\ (vinyl \/ ~d.playing)
  /\ \E p \in Places : d' = Scrubbed(d, p)
  /\ UNCHANGED <<page, view, touchVars, enter, vinyl>>

\* The pointer lifts: its drag stops, or its key is clicked.
LiftFirst(f) ==
  /\ f = primary /\ primary' = None /\ drag' = "none"
  /\ grab' = (grab /\ drag # "wave")
  /\ \/ d' = Stopped(d, drag) /\ UNCHANGED <<page, view, vinyl>>
     \/ fingers[f] = "key" /\ Click

\* Another lifts: CUE is released, PLAY acts on a still tap that has not acted.
LiftSecond(f) ==
  /\ f # primary /\ \E still \in BOOLEAN :
       d' = CASE fingers[f] = "cue" -> CueEdge(d, FALSE)
              [] fingers[f] = "play" /\ still /\ f \notin spent -> PlayPause(d)
              [] OTHER -> d
  /\ UNCHANGED <<page, view, vinyl, primary, drag, grab>>

Lift(f) ==
  /\ f \in Down
  /\ fingers' = [fingers EXCEPT ![f] = "up"] /\ spent' = spent \ {f}
  /\ swiped' = (swiped /\ Cardinality(Down) > 2)
  /\ (LiftFirst(f) \/ LiftSecond(f))
  /\ UNCHANGED enter

\* phone_swipe: two fingers moved up or down bring a page, once.
Swipe ==
  /\ Cardinality(Down) >= 2 /\ ~swiped /\ swiped' = TRUE
  /\ page' \in {"screen", "controls"} /\ d' = LetGo(d)
  /\ drag' = KeptDrag(page', view)
  /\ UNCHANGED <<view, fingers, primary, grab, spent, enter, vinyl>>

---------------------------------------------------------------------------
(* The keyboard (key_input). *)

NoTouch == UNCHANGED <<fingers, primary, grab, spent, swiped, vinyl>>

EnterDown ==
  /\ ~enter /\ enter' = TRUE /\ UNCHANGED <<vinyl, touchVars>>
  /\ \/ view = "playback" /\ d' = CueEdge(d, TRUE) /\ UNCHANGED <<page, view>>
     \/ view \in Lists /\ LoadKey
     \/ view = "perform" /\ UNCHANGED <<page, view, d>>

EnterUp ==
  /\ enter /\ enter' = FALSE
  /\ d' = IF view = "playback" THEN CueEdge(d, FALSE) ELSE d
  /\ UNCHANGED <<page, view, vinyl, touchVars>>

\* Space: Play or Pause, in the screens that are no list.
SpaceKey ==
  /\ view \notin Lists
  /\ d' = IF d.playing THEN [d EXCEPT !.playing = FALSE] ELSE LockIn(d)
  /\ UNCHANGED <<page, view, touchVars, enter, vinyl>>

Holding == d.jogHold \/ d.waveHold \/ d.tr.preview

\* Tab flips the page and lets go of nothing.
TabKey ==
  /\ StrayKeys \/ ~Holding
  /\ Flipped /\ drag' = KeptDrag(page', view)
  /\ NoTouch /\ UNCHANGED <<view, enter, d>>

\* B, or Escape in a list.
BrowseKey ==
  /\ StrayKeys \/ ~(Holding \/ enter)
  /\ view' = IF view \in Lists THEN "playback" ELSE "browse"
  /\ drag' = KeptDrag(page, view')
  /\ NoTouch /\ UNCHANGED <<page, enter, d>>

---------------------------------------------------------------------------
(* The deck on its own. *)

Plays == /\ d.playing
         /\ d' = IF d.pos = 0 THEN [d EXCEPT !.pos = 1] ELSE [d EXCEPT !.playing = FALSE]
         /\ UNCHANGED <<page, view, touchVars, enter, vinyl>>

\* A track from the background stops the deck on its cue (TrackLoad, Deck).
TrackArrives ==
  /\ d' = [d EXCEPT !.playing = FALSE, !.pos = 0, !.tr = NewTransport(0)]
  /\ UNCHANGED <<page, view, touchVars, enter, vinyl>>

ConsoleInit ==
  /\ page = "screen" /\ view = "playback"
  /\ fingers = [f \in Fingers |-> "up"] /\ primary = None
  /\ drag = "none" /\ grab = FALSE /\ spent = {} /\ swiped = FALSE
  /\ enter = FALSE /\ vinyl = TRUE
  /\ d = [playing |-> FALSE, pos |-> 0, tr |-> NewTransport(0),
          jogHold |-> FALSE, waveHold |-> FALSE]

ConsoleNext ==
  \/ \E f \in Fingers : Lift(f) \/ \E w \in Drawn(page, view) : Land(f, w)
  \/ TapInAFrame \/ DragWave \/ DragJog \/ Swipe
  \/ EnterDown \/ EnterUp \/ SpaceKey \/ TabKey \/ BrowseKey
  \/ Plays \/ TrackArrives

ConsoleSpec == ConsoleInit /\ [][ConsoleNext]_consoleVars

---------------------------------------------------------------------------
(* What the console promises. *)

\* Nothing is held by nobody: a platter or a waveform that stops the deck has the
\* pointer on it and in sight, and a preview has a finger on CUE or the Enter key
\* down, through swipes, page flips and the tracks that arrive meanwhile
\* (release_held_controls: "the transport just stayed stopped after a swipe").
HeldHasAFinger ==
  /\ drag # "none" => primary # None /\ fingers[primary] = drag /\ drag \in Drawn(page, view)
  /\ d.jogHold => drag = "jog"
  /\ d.waveHold => drag = "wave" /\ grab
  /\ d.tr.preview => enter \/ \E f \in Fingers :
       fingers[f] = "cue" /\ (f = primary => drag = "cue")
=============================================================================
