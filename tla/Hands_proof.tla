---------------------------- MODULE Hands_proof ----------------------------
(***************************************************************************)
(* What the hands on the deck and its start-up are promised: nothing is    *)
(* held by nobody on the touch console, for any number of fingers; a deck  *)
(* comes up under the number, at the place and in the state it was asked   *)
(* for, for any number of launches and saves; and the browser shows        *)
(* nothing of a stick that is gone, for any sticks and any way through it. *)
(***************************************************************************)
EXTENDS Console, Startup, Browser, SequenceTheorems, WellFoundedInduction, TLAPS

\* A deck as the console sees it.
DeckRecords == [playing : BOOLEAN, pos : Nat, tr : TransportState,
                jogHold : BOOLEAN, waveHold : BOOLEAN]
Landings    == {"up", "key", "bare"} \cup Drags

ConsoleType ==
  /\ page \in {"screen", "controls"} /\ view \in Views \cup {"playback"}
  /\ fingers \in [Fingers -> Landings]
  /\ primary \in Fingers \cup {None} /\ drag \in Drags \cup {"none"} /\ grab \in BOOLEAN
  /\ enter \in BOOLEAN /\ vinyl \in BOOLEAN /\ d \in DeckRecords

\* The pointer is a finger that is down; what is dragged has it, and is in sight.
DragIsHeld ==
  /\ primary # None => fingers[primary] # "up"
  /\ drag # "none" => primary # None /\ fingers[primary] = drag /\ drag \in Drawn(page, view)

\* What stops the deck is dragged.
HoldsAreDragged == (d.jogHold => drag = "jog") /\ (d.waveHold => drag = "wave" /\ grab)

\* Enter, where it is a cue key, or a finger whose lift will be seen.
CueHeld ==
  \/ enter /\ view = "playback"
  \/ \E f \in Fingers : fingers[f] = "cue" /\ (f = primary => drag = "cue")

ConsoleInv == ConsoleType /\ DragIsHeld /\ HoldsAreDragged /\ (d.tr.preview => CueHeld)

USE NoneAssumption, ConsoleAssumption, StartAssumption
    DEF NoneAssumption, ConsoleAssumption, StartAssumption

-----------------------------------------------------------------------------
(* What the events do to what is held. *)

\* DeckApp::apply of Play: the preview is latched, what is held stays held.
LEMMA LockInDoes ==
  ASSUME NEW dk \in DeckRecords
  PROVE  /\ LockIn(dk) \in DeckRecords /\ ~LockIn(dk).tr.preview
         /\ LockIn(dk).jogHold = dk.jogHold /\ LockIn(dk).waveHold = dk.waveHold
  BY DEF DeckRecords, LockIn, Carried, Latch, Result, SetPlaying, TransportState

\* PLAY / PAUSE begins no preview.
LEMMA PlayPauseDoes ==
  ASSUME NEW dk \in DeckRecords
  PROVE  /\ PlayPause(dk) \in DeckRecords /\ ~PlayPause(dk).tr.preview
         /\ PlayPause(dk).jogHold = dk.jogHold /\ PlayPause(dk).waveHold = dk.waveHold
  BY DEF DeckRecords, PlayPause, Carried, PlayOrPause, Latch, Result, SetPlaying, TransportState

\* CUE: the release ends a preview, and holds nothing else.
LEMMA CueReleaseDoes ==
  ASSUME NEW dk \in DeckRecords
  PROVE  /\ CueEdge(dk, FALSE) \in DeckRecords /\ ~CueEdge(dk, FALSE).tr.preview
         /\ CueEdge(dk, FALSE).jogHold = dk.jogHold /\ CueEdge(dk, FALSE).waveHold = dk.waveHold
  BY DEF DeckRecords, CueEdge, Carried, CueUp, Result, PauseAt, LeaveAlone, TransportState

\* A CUE press takes hold of no platter and of no waveform.
LEMMA CuePressDoes ==
  ASSUME NEW dk \in DeckRecords
  PROVE  /\ CueEdge(dk, TRUE) \in DeckRecords
         /\ CueEdge(dk, TRUE).jogHold = dk.jogHold /\ CueEdge(dk, TRUE).waveHold = dk.waveHold
  BY ZenonT(40) DEF DeckRecords, CueEdge, Carried, CueDown, Result, PauseAt, PlayFrom, SetPlaying, TransportState

\* A search holds and lets go of nothing.
LEMMA ScrubbedDoes ==
  ASSUME NEW dk \in DeckRecords, NEW p \in Places
  PROVE  /\ Scrubbed(dk, p) \in DeckRecords /\ Scrubbed(dk, p).tr.preview = dk.tr.preview
         /\ Scrubbed(dk, p).jogHold = dk.jogHold /\ Scrubbed(dk, p).waveHold = dk.waveHold
<1>1. Searched(dk.tr) \in TransportState /\ Searched(dk.tr).preview = dk.tr.preview
  BY DEF DeckRecords, Searched, TransportState
<1>2. p \in Nat
  BY DEF Places
<1> DEFINE t == Searched(dk.tr)
<1>3. Scrubbed(dk, p) = [dk EXCEPT !.pos = p, !.tr = t]
  BY DEF Scrubbed
<1>4. t \in TransportState /\ t.preview = dk.tr.preview
  BY <1>1
<1> HIDE DEF t
<1> QED
  BY <1>2, <1>3, <1>4 DEF DeckRecords

\* The platter: let go, it holds nothing.
LEMMA JogTouchDoes ==
  ASSUME NEW dk \in DeckRecords, NEW touched \in BOOLEAN
  PROVE  /\ JogTouch(dk, touched) \in DeckRecords
         /\ JogTouch(dk, touched).tr.preview => dk.tr.preview
         /\ JogTouch(dk, touched).waveHold = dk.waveHold
         /\ ~touched => ~JogTouch(dk, touched).jogHold
<1>1. CASE touched /\ vinyl /\ dk.playing
  BY <1>1 DEF JogTouch, DeckRecords
<1>2. CASE ~touched /\ dk.jogHold
  <2> DEFINE latched == LockIn(dk)
  <2>1. JogTouch(dk, touched) = [latched EXCEPT !.jogHold = FALSE]
    BY <1>2 DEF JogTouch
  <2>2. /\ latched \in DeckRecords /\ ~latched.tr.preview
        /\ latched.jogHold = dk.jogHold /\ latched.waveHold = dk.waveHold
    BY LockInDoes
  <2> HIDE DEF latched
  <2> QED
    BY <2>1, <2>2 DEF DeckRecords
<1>3. CASE ~(touched /\ vinyl /\ dk.playing) /\ ~(~touched /\ dk.jogHold)
  BY <1>3 DEF JogTouch
<1> QED
  BY <1>1, <1>2, <1>3

\* The waveform likewise.
LEMMA WaveTouchDoes ==
  ASSUME NEW dk \in DeckRecords, NEW touched \in BOOLEAN
  PROVE  /\ WaveTouch(dk, touched) \in DeckRecords
         /\ WaveTouch(dk, touched).tr.preview => dk.tr.preview
         /\ WaveTouch(dk, touched).jogHold = dk.jogHold
         /\ ~touched => ~WaveTouch(dk, touched).waveHold
<1>1. CASE touched /\ dk.playing
  BY <1>1 DEF WaveTouch, DeckRecords
<1>2. CASE ~touched /\ dk.waveHold
  <2> DEFINE latched == LockIn(dk)
  <2>1. WaveTouch(dk, touched) = [latched EXCEPT !.waveHold = FALSE]
    BY <1>2 DEF WaveTouch
  <2>2. /\ latched \in DeckRecords /\ ~latched.tr.preview
        /\ latched.jogHold = dk.jogHold /\ latched.waveHold = dk.waveHold
    BY LockInDoes
  <2> HIDE DEF latched
  <2> QED
    BY <2>1, <2>2 DEF DeckRecords
<1>3. CASE ~(touched /\ dk.playing) /\ ~(~touched /\ dk.waveHold)
  BY <1>3 DEF WaveTouch
<1> QED
  BY <1>1, <1>2, <1>3

\* release_held_controls lets go of everything.
LEMMA LetGoDoes ==
  ASSUME NEW dk \in DeckRecords
  PROVE  /\ LetGo(dk) \in DeckRecords
         /\ ~LetGo(dk).tr.preview /\ ~LetGo(dk).jogHold /\ ~LetGo(dk).waveHold
<1> DEFINE a == JogTouch(dk, FALSE)
           b == WaveTouch(a, FALSE)
<1>1. a \in DeckRecords /\ ~a.jogHold
  BY JogTouchDoes
<1>2. b \in DeckRecords /\ b.jogHold = a.jogHold /\ ~b.waveHold
  BY <1>1, WaveTouchDoes
<1>3. LetGo(dk) = CueEdge(b, FALSE)
  BY DEF LetGo
<1> HIDE DEF a, b
<1> QED
  BY <1>1, <1>2, <1>3, CueReleaseDoes

\* A widget pressed holds what it is, and nothing else.
LEMMA PressedDoes ==
  ASSUME NEW dk \in DeckRecords, NEW w \in Landings, NEW p \in Places
  PROVE  /\ Pressed(dk, w, p) \in DeckRecords
         /\ Pressed(dk, w, p).tr.preview => w = "cue" \/ dk.tr.preview
         /\ Pressed(dk, w, p).jogHold => w = "jog" \/ dk.jogHold
         /\ Pressed(dk, w, p).waveHold = dk.waveHold
<1>1. CASE w = "play"
  BY <1>1, PlayPauseDoes DEF Pressed
<1>2. CASE w = "cue"
  BY <1>2, CuePressDoes DEF Pressed
<1>3. CASE w = "jog"
  BY <1>3, JogTouchDoes DEF Pressed
<1>4. CASE w = "needle"
  BY <1>4, ScrubbedDoes DEF Pressed
<1>5. CASE w = "pad"
  BY <1>5, LockInDoes DEF Pressed, DeckRecords, Places
<1>6. CASE w \in {"up", "key", "bare", "wave"}
  BY <1>6 DEF Pressed
<1> QED
  BY <1>1, <1>2, <1>3, <1>4, <1>5, <1>6 DEF Landings, Drags

\* A drag that stops lets go of what it was.
LEMMA StoppedDoes ==
  ASSUME NEW dk \in DeckRecords, NEW w \in Drags \cup {"none"}
  PROVE  /\ Stopped(dk, w) \in DeckRecords
         /\ Stopped(dk, w).tr.preview => w # "cue" /\ dk.tr.preview
         /\ Stopped(dk, w).jogHold => w # "jog" /\ dk.jogHold
         /\ Stopped(dk, w).waveHold => ~(w = "wave" /\ grab) /\ dk.waveHold
<1>1. CASE w = "cue"
  BY <1>1, CueReleaseDoes DEF Stopped
<1>2. CASE w = "jog"
  BY <1>2, JogTouchDoes DEF Stopped
<1>3. CASE w = "wave" /\ grab
  BY <1>3, WaveTouchDoes DEF Stopped
<1>4. CASE w \notin {"cue", "jog"} /\ ~(w = "wave" /\ grab)
  BY <1>4 DEF Stopped
<1> QED
  BY <1>1, <1>2, <1>3, <1>4

-----------------------------------------------------------------------------
(* The console: nothing is held by nobody. *)

\* At the start nothing is held.
LEMMA ConsoleStart == ConsoleInit => ConsoleInv
<1>1. NewTransport(0) \in TransportState /\ ~NewTransport(0).preview
  BY DEF NewTransport, TransportState
<1> SUFFICES ASSUME ConsoleInit PROVE ConsoleInv
  OBVIOUS
<1>2. d \in DeckRecords /\ ~d.jogHold /\ ~d.waveHold /\ ~d.tr.preview
  BY <1>1 DEF ConsoleInit, DeckRecords
<1>3. fingers \in [Fingers -> Landings] /\ primary = None /\ drag = "none" /\ grab = FALSE
  BY DEF ConsoleInit, Landings
<1>4. ConsoleType
  BY <1>2, <1>3 DEF ConsoleInit, ConsoleType
<1> QED
  BY <1>2, <1>3, <1>4 DEF ConsoleInv, DragIsHeld, HoldsAreDragged

\* What a clicked key leaves: no drag is under way.
LEMMA ClickKeeps ==
  ASSUME ConsoleInv, StrayKeys = FALSE, Click, drag = "none"
  PROVE  /\ d' \in DeckRecords /\ ~d'.jogHold /\ ~d'.waveHold
         /\ page' \in {"screen", "controls"} /\ view' \in Views \cup {"playback"} /\ vinyl' \in BOOLEAN
         /\ d'.tr.preview => d.tr.preview /\ (enter => view' = view)
<1>0. d \in DeckRecords /\ ~d.jogHold /\ ~d.waveHold
  BY DEF ConsoleInv, ConsoleType, HoldsAreDragged
<1>1. CASE PagerKey
  BY <1>0, <1>1, LetGoDoes DEF PagerKey, Flipped, ConsoleInv, ConsoleType
<1>2. CASE JogModeKey
  BY <1>0, <1>2 DEF JogModeKey, ConsoleInv, ConsoleType
<1>3. CASE ScreenKeys
  BY <1>0, <1>3 DEF ScreenKeys, ChangesView, Toggled, LoadKey, Views, Lists, ConsoleInv, ConsoleType
<1> QED
  BY <1>1, <1>2, <1>3 DEF Click

\* Every finger, key and frame leaves nothing held by nobody.
LEMMA ConsoleStep ==
  ASSUME StrayKeys = FALSE
  PROVE  ConsoleInv /\ [ConsoleNext]_consoleVars => ConsoleInv'
<1> SUFFICES ASSUME ConsoleInv, [ConsoleNext]_consoleVars PROVE ConsoleInv'
  OBVIOUS
<1>T. /\ ConsoleType /\ d \in DeckRecords /\ drag \in Drags \cup {"none"} /\ grab \in BOOLEAN
      /\ primary \in Fingers \cup {None} /\ fingers \in [Fingers -> Landings]
  BY DEF ConsoleInv, ConsoleType
<1>H. DragIsHeld /\ HoldsAreDragged /\ (d.tr.preview => CueHeld)
  BY DEF ConsoleInv
<1>D. Drawn(page, view) \subseteq Landings
  BY DEF Drawn, Landings, Drags
<1>N. primary = None => drag = "none" /\ ~d.jogHold /\ ~d.waveHold
  BY <1>H DEF DragIsHeld, HoldsAreDragged
<1>1. ASSUME NEW f \in Fingers, NEW w \in Drawn(page, view), Land(f, w)
      PROVE  ConsoleInv'
  <2>1. /\ w \in Landings /\ fingers[f] = "up" /\ fingers' = [fingers EXCEPT ![f] = w]
        /\ UNCHANGED <<page, view, swiped, enter, vinyl>>
    BY <1>1, <1>D DEF Land
  <2>2. CASE LandFirst(f, w)
    <3>1. PICK p \in Places : d' = Pressed(d, w, p)
      BY <2>2 DEF LandFirst
    <3>2. /\ d' \in DeckRecords /\ (d'.jogHold => w = "jog") /\ ~d'.waveHold
          /\ d'.tr.preview => w = "cue" \/ d.tr.preview
      BY <1>T, <1>N, <2>1, <2>2, <3>1, PressedDoes DEF LandFirst
    <3>3. /\ primary = None /\ primary' = f /\ drag' = (IF w \in Drags THEN w ELSE "none")
          /\ grab' \in BOOLEAN
      BY <2>2 DEF LandFirst
    <3>4. ConsoleType'
      BY <1>T, <2>1, <3>2, <3>3 DEF ConsoleType
    <3>5. DragIsHeld' /\ HoldsAreDragged'
      BY <1>T, <2>1, <3>2, <3>3 DEF DragIsHeld, HoldsAreDragged, Drags, Drawn
    <3>6. d'.tr.preview => CueHeld'
      BY <1>T, <1>H, <2>1, <3>2, <3>3 DEF CueHeld, Drags
    <3> QED
      BY <3>4, <3>5, <3>6 DEF ConsoleInv
  <2>3. CASE LandSecond(f, w)
    <3> DEFINE free == IF grab THEN WaveTouch(d, FALSE) ELSE d
    <3>1. /\ free \in DeckRecords /\ ~free.waveHold /\ free.jogHold = d.jogHold
          /\ free.tr.preview => d.tr.preview
      BY <1>T, <1>H, WaveTouchDoes DEF HoldsAreDragged
    <3>2. d' \in {free, Pressed(free, w, 0)} /\ (d' = free \/ w \in {"cue", "play"})
      BY <2>3 DEF LandSecond
    <3>3. /\ primary # None /\ grab' = FALSE /\ UNCHANGED <<primary, drag>>
      BY <2>3 DEF LandSecond
    <3> HIDE DEF free
    <3>4. /\ d' \in DeckRecords /\ ~d'.waveHold /\ (d'.jogHold => d.jogHold)
          /\ d'.tr.preview => w = "cue" \/ d.tr.preview
      BY <2>1, <3>1, <3>2, PressedDoes DEF Places
    <3>5. f # primary
      BY <1>H, <2>1 DEF DragIsHeld
    <3>6. ConsoleType'
      BY <1>T, <2>1, <3>3, <3>4 DEF ConsoleType
    <3>7. DragIsHeld' /\ HoldsAreDragged'
      BY <1>T, <1>H, <2>1, <3>3, <3>4, <3>5 DEF DragIsHeld, HoldsAreDragged
    <3>8. d'.tr.preview => CueHeld'
      BY <1>T, <1>H, <2>1, <3>3, <3>4, <3>5 DEF CueHeld
    <3> QED
      BY <3>6, <3>7, <3>8 DEF ConsoleInv
  <2> QED
    BY <1>1, <2>2, <2>3 DEF Land
<1>2. CASE TapInAFrame
  <2>1. primary = None /\ UNCHANGED <<touchVars, enter>>
    BY <1>2 DEF TapInAFrame
  <2>2. CASE Click
    <3>1. /\ d' \in DeckRecords /\ ~d'.jogHold /\ ~d'.waveHold
          /\ page' \in {"screen", "controls"} /\ view' \in Views \cup {"playback"}
          /\ vinyl' \in BOOLEAN /\ (d'.tr.preview => d.tr.preview /\ (enter => view' = view))
      BY <1>N, <2>1, <2>2, ClickKeeps
    <3> QED
      BY <1>H, <1>N, <1>T, <2>1, <3>1
         DEF touchVars, ConsoleInv, ConsoleType, DragIsHeld, HoldsAreDragged, CueHeld
  <2>3. CASE \E p \in Places, w \in {"play", "cue", "pad"} \cap Drawn(page, view) :
               d' = Stopped(Pressed(d, w, p), w) /\ UNCHANGED <<page, view, vinyl>>
    <3>1. PICK p \in Places, w \in {"play", "cue", "pad"} :
            d' = Stopped(Pressed(d, w, p), w) /\ UNCHANGED <<page, view, vinyl>>
      BY <2>3
    <3> DEFINE dk == Pressed(d, w, p)
    <3>2. /\ dk \in DeckRecords /\ ~dk.jogHold /\ ~dk.waveHold
          /\ dk.tr.preview => w = "cue" \/ d.tr.preview
      <4>1. w \in Landings /\ w # "jog"
        BY DEF Landings, Drags
      <4> QED
        BY <1>T, <1>N, <2>1, <4>1, PressedDoes
    <3> HIDE DEF dk
    <3>3. /\ d' \in DeckRecords /\ ~d'.jogHold /\ ~d'.waveHold
          /\ d'.tr.preview => w # "cue" /\ dk.tr.preview
      BY <3>1, <3>2, StoppedDoes DEF Drags, dk
    <3> QED
      BY <1>H, <1>N, <1>T, <2>1, <3>1, <3>2, <3>3
         DEF touchVars, ConsoleInv, ConsoleType, DragIsHeld, HoldsAreDragged, CueHeld
  <2> QED
    BY <1>2, <2>2, <2>3 DEF TapInAFrame
<1>3. CASE DragWave
  <2>1. PICK p \in Places : d' = Scrubbed(IF grab THEN d ELSE WaveTouch(d, TRUE), p)
    BY <1>3 DEF DragWave
  <2>2. /\ d' \in DeckRecords /\ d'.jogHold = d.jogHold /\ (d'.tr.preview => d.tr.preview)
    <3> DEFINE dk == IF grab THEN d ELSE WaveTouch(d, TRUE)
    <3>1. dk \in DeckRecords /\ dk.jogHold = d.jogHold /\ (dk.tr.preview => d.tr.preview)
      BY <1>T, WaveTouchDoes
    <3>2. d' = Scrubbed(dk, p)
      BY <2>1
    <3> HIDE DEF dk
    <3> QED
      BY <3>1, <3>2, ScrubbedDoes
  <2>3. drag = "wave" /\ grab' = TRUE
        /\ UNCHANGED <<page, view, fingers, primary, drag, spent, swiped, enter, vinyl>>
    BY <1>3 DEF DragWave
  <2> QED
    BY <1>H, <1>T, <2>2, <2>3 DEF ConsoleInv, ConsoleType, DragIsHeld, HoldsAreDragged, CueHeld
<1>4. CASE DragJog
  <2>1. PICK p \in Places : d' = Scrubbed(d, p)
    BY <1>4 DEF DragJog
  <2>2. /\ d' \in DeckRecords /\ d'.jogHold = d.jogHold /\ d'.waveHold = d.waveHold
        /\ d'.tr.preview = d.tr.preview
    BY <1>T, <2>1, ScrubbedDoes
  <2> QED
    BY <1>H, <1>T, <1>4, <2>2
       DEF DragJog, touchVars, ConsoleInv, ConsoleType, DragIsHeld, HoldsAreDragged, CueHeld
<1>5. ASSUME NEW f \in Fingers, Lift(f)
      PROVE  ConsoleInv'
  <2>1. fingers[f] # "up" /\ fingers' = [fingers EXCEPT ![f] = "up"] /\ UNCHANGED enter
    BY <1>5 DEF Lift, Down
  <2>2. CASE LiftFirst(f)
    <3>1. f = primary /\ primary' = None /\ drag' = "none" /\ grab' \in BOOLEAN
      BY <1>T, <2>2 DEF LiftFirst
    <3>2. CASE d' = Stopped(d, drag) /\ UNCHANGED <<page, view, vinyl>>
      <4>1. /\ d' \in DeckRecords /\ ~d'.jogHold /\ ~d'.waveHold
            /\ d'.tr.preview => drag # "cue" /\ d.tr.preview
        BY <1>T, <1>H, <3>2, StoppedDoes DEF HoldsAreDragged
      <4> QED
        BY <1>T, <1>H, <2>1, <3>1, <3>2, <4>1
           DEF ConsoleInv, ConsoleType, DragIsHeld, HoldsAreDragged, CueHeld, Landings
    <3>3. CASE fingers[f] = "key" /\ Click
      <4>1. drag = "none"
        BY <1>T, <1>H, <3>1, <3>3 DEF DragIsHeld, Drags
      <4>2. /\ d' \in DeckRecords /\ ~d'.jogHold /\ ~d'.waveHold
            /\ page' \in {"screen", "controls"} /\ view' \in Views \cup {"playback"}
            /\ vinyl' \in BOOLEAN /\ (d'.tr.preview => d.tr.preview /\ (enter => view' = view))
        BY <3>3, <4>1, ClickKeeps
      <4> QED
        BY <1>T, <1>H, <2>1, <3>1, <4>1, <4>2
           DEF ConsoleInv, ConsoleType, DragIsHeld, HoldsAreDragged, CueHeld, Landings
    <3> QED
      BY <2>2, <3>2, <3>3 DEF LiftFirst
  <2>3. CASE LiftSecond(f)
    <3>1. f # primary /\ UNCHANGED <<page, view, vinyl, primary, drag, grab>>
      BY <2>3 DEF LiftSecond
    <3>2. /\ d' \in {d, CueEdge(d, FALSE), PlayPause(d)}
          /\ fingers[f] = "cue" => d' = CueEdge(d, FALSE)
      BY <2>3 DEF LiftSecond
    <3>3. /\ d' \in DeckRecords /\ d'.jogHold = d.jogHold /\ d'.waveHold = d.waveHold
          /\ d'.tr.preview => d.tr.preview /\ fingers[f] # "cue"
      BY <1>T, <3>2, CueReleaseDoes, PlayPauseDoes
    <3> QED
      BY <1>T, <1>H, <2>1, <3>1, <3>3
         DEF ConsoleInv, ConsoleType, DragIsHeld, HoldsAreDragged, CueHeld, Landings
  <2> QED
    BY <1>5, <2>2, <2>3 DEF Lift
<1>6. CASE Swipe
  <2>1. /\ d' \in DeckRecords /\ ~d'.tr.preview /\ ~d'.jogHold /\ ~d'.waveHold
    BY <1>T, <1>6, LetGoDoes DEF Swipe
  <2> QED
    BY <1>T, <1>H, <1>6, <2>1
       DEF Swipe, KeptDrag, ConsoleInv, ConsoleType, DragIsHeld, HoldsAreDragged
<1>7. CASE EnterDown
  <2>1. ~enter /\ enter' = TRUE /\ UNCHANGED <<vinyl, touchVars>>
    BY <1>7 DEF EnterDown
  <2>2. CASE view = "playback" /\ d' = CueEdge(d, TRUE) /\ UNCHANGED <<page, view>>
    <3>1. d' \in DeckRecords /\ d'.jogHold = d.jogHold /\ d'.waveHold = d.waveHold
      BY <1>T, <2>2, CuePressDoes
    <3> QED
      BY <1>T, <1>H, <2>1, <2>2, <3>1
         DEF touchVars, ConsoleInv, ConsoleType, DragIsHeld, HoldsAreDragged, CueHeld
  <2>3. CASE view \in Lists /\ LoadKey
    <3>1. view' \in {view, "playback"} /\ UNCHANGED <<page, vinyl, d>>
      BY <2>3 DEF LoadKey, ChangesView
    <3>2. Drawn(page, view) \subseteq Drawn(page', view')
      BY <2>3, <3>1 DEF Drawn, Lists
    <3> QED
      BY <1>T, <1>H, <2>1, <3>1, <3>2
         DEF touchVars, ConsoleInv, ConsoleType, DragIsHeld, HoldsAreDragged, CueHeld
  <2>4. CASE view = "perform" /\ UNCHANGED <<page, view, d>>
    BY <1>T, <1>H, <2>1, <2>4
       DEF touchVars, ConsoleInv, ConsoleType, DragIsHeld, HoldsAreDragged, CueHeld
  <2> QED
    BY <1>7, <2>2, <2>3, <2>4 DEF EnterDown
<1>8. CASE EnterUp
  <2>1. /\ d' \in DeckRecords /\ d'.jogHold = d.jogHold /\ d'.waveHold = d.waveHold
        /\ d'.tr.preview => d.tr.preview /\ view # "playback"
    BY <1>T, <1>8, CueReleaseDoes DEF EnterUp
  <2> QED
    BY <1>T, <1>H, <1>8, <2>1
       DEF EnterUp, touchVars, ConsoleInv, ConsoleType, DragIsHeld, HoldsAreDragged, CueHeld
<1>9. CASE SpaceKey
  <2>1. CASE d' = [d EXCEPT !.playing = FALSE]
    BY <1>T, <1>H, <1>9, <2>1
       DEF SpaceKey, touchVars, ConsoleInv, ConsoleType, DragIsHeld, HoldsAreDragged, CueHeld,
           DeckRecords
  <2>2. CASE d' = LockIn(d)
    BY <1>T, <1>H, <1>9, <2>2, LockInDoes
       DEF SpaceKey, touchVars, ConsoleInv, ConsoleType, DragIsHeld, HoldsAreDragged, CueHeld
  <2> QED
    BY <1>9, <2>1, <2>2 DEF SpaceKey
<1>10. CASE TabKey
  BY <1>T, <1>H, <1>10
     DEF TabKey, Holding, Flipped, KeptDrag, NoTouch, ConsoleInv, ConsoleType, DragIsHeld,
         HoldsAreDragged
<1>11. CASE BrowseKey
  BY <1>T, <1>H, <1>11
     DEF BrowseKey, Holding, KeptDrag, NoTouch, ConsoleInv, ConsoleType, DragIsHeld,
         HoldsAreDragged, Views, Lists
<1>12. CASE Plays
  <2>1. /\ d' \in DeckRecords /\ d'.jogHold = d.jogHold /\ d'.waveHold = d.waveHold
        /\ d'.tr = d.tr
    BY <1>T, <1>12 DEF Plays, DeckRecords
  <2> QED
    BY <1>T, <1>H, <1>12, <2>1
       DEF Plays, touchVars, ConsoleInv, ConsoleType, DragIsHeld, HoldsAreDragged, CueHeld
<1>13. CASE TrackArrives
  <2>1. /\ d' \in DeckRecords /\ d'.jogHold = d.jogHold /\ d'.waveHold = d.waveHold
        /\ ~d'.tr.preview
    BY <1>T, <1>13 DEF TrackArrives, DeckRecords, NewTransport, TransportState
  <2> QED
    BY <1>T, <1>H, <1>13, <2>1
       DEF TrackArrives, touchVars, ConsoleInv, ConsoleType, DragIsHeld, HoldsAreDragged
<1>14. CASE UNCHANGED consoleVars
  BY <1>14 DEF consoleVars, touchVars, ConsoleInv, ConsoleType, DragIsHeld, HoldsAreDragged, CueHeld
<1> QED
  BY <1>1, <1>2, <1>3, <1>4, <1>5, <1>6, <1>7, <1>8, <1>9, <1>10, <1>11, <1>12, <1>13, <1>14
     DEF ConsoleNext

\* Without the keys that change the page under a held control, nothing on the touch
\* console is held by nobody, however many fingers land, swipe and lift.
THEOREM NothingHeldByNobody ==
  ASSUME StrayKeys = FALSE
  PROVE  ConsoleSpec => []HeldHasAFinger
<1>1. ConsoleInv /\ [ConsoleNext]_consoleVars => ConsoleInv'
  BY ConsoleStep
<1>2. ConsoleInv => HeldHasAFinger
  BY DEF ConsoleInv, DragIsHeld, HoldsAreDragged, CueHeld, HeldHasAFinger
<1> QED
  BY <1>1, <1>2, ConsoleStart, PTL DEF ConsoleSpec

-----------------------------------------------------------------------------
(* The start: the number, the place and the state asked for. *)

\* The number the file keeps, through torn files and those of before 0.2.1.
Chosen == IF choice # {} THEN CHOOSE n \in choice : TRUE ELSE device.default
AsChosen == [player |-> Chosen, seed |-> Seed]

Running == {"audio", "opened", "analysis", "park"}

StartInv ==
  /\ device \in {[ios |-> FALSE, default |-> 1], [ios |-> TRUE, default |-> 3],
                 [ios |-> TRUE, default |-> 4]}
  /\ choice = {} \/ \E n \in Players : choice = {n}
  /\ file \in [player : 0 .. 4, seed : {0, Seed}] /\ Reseeded(Read(file)) = AsChosen
  /\ stage \in Running \cup {"up"} => settings = AsChosen
  /\ stage \in Running => player = Wanted
  /\ config.sound \in Nat /\ cue \in Nat
  /\ stage \in {"settings", "audio"} => ~runs
  /\ stage \in {"analysis", "park", "up"} /\ ~config.autoplay => ~runs
  /\ stage = "up" /\ ~config.autoplay => cursor = cue \/ cue = 0

\* One number that was chosen is the one chosen.
LEMMA TheChoice ==
  ASSUME NEW n, choice = {n} PROVE Chosen = n
  BY DEF Chosen

\* A number that was chosen, or the device's, is one of the four.
LEMMA ChosenIsAPlayer == StartInv => Chosen \in Players
<1> SUFFICES ASSUME StartInv PROVE Chosen \in Players
  OBVIOUS
<1>1. CASE choice = {}
  BY <1>1 DEF StartInv, Chosen, Players
<1>2. ASSUME NEW n \in Players, choice = {n} PROVE Chosen \in Players
  BY <1>2, TheChoice
<1> QED
  BY <1>1, <1>2 DEF StartInv

\* The first launch finds no file, one of this build, or one of before.
LEMMA StartStart == StartInit => StartInv
<1> SUFFICES ASSUME StartInit PROVE StartInv
  OBVIOUS
<1> USE DEF Seed, Players
<1>1. file \in [player : 0 .. 4, seed : {0, Seed}]
  BY DEF StartInit, Absent
<1>2. CASE choice = {}
  <2>1. file = Absent \/ (device.ios /\ file = [player |-> 3, seed |-> 0])
    BY <1>2 DEF StartInit
  <2>2. Reseeded(Read(file)) = [player |-> device.default, seed |-> Seed]
    BY <2>1 DEF StartInit, Reseeded, Read, Fresh, Absent
  <2>3. AsChosen = [player |-> device.default, seed |-> Seed]
    BY <1>2 DEF AsChosen, Chosen
  <2> QED
    BY <1>1, <1>2, <2>2, <2>3 DEF StartInit, StartInv, Running
<1>3. CASE choice # {}
  <2>1. /\ choice = {file.player} /\ file \in [player : 1 .. 4, seed : {0, Seed}]
        /\ ~(device.ios /\ file = [player |-> 3, seed |-> 0])
    BY <1>3 DEF StartInit
  <2>2. Reseeded(Read(file)) = [player |-> file.player, seed |-> Seed]
    BY <2>1 DEF Reseeded, Read
  <2>3. AsChosen = [player |-> file.player, seed |-> Seed]
    BY <2>1, TheChoice DEF AsChosen
  <2> QED
    BY <1>1, <2>1, <2>2, <2>3 DEF StartInit, StartInv, Running
<1> QED
  BY <1>2, <1>3

\* Every stage of a launch, the menu's saves, a cut save and the end of the program.
LEMMA StartStep == StartInv /\ [StartNext]_startVars => StartInv'
<1> SUFFICES ASSUME StartInv, [StartNext]_startVars PROVE StartInv'
  OBVIOUS
<1> USE DEF StartInv, Running, deviceKept, deckState
<1>1. ASSUME NEW c \in Config, Launch(c) PROVE StartInv'
  BY <1>1 DEF Launch, Config, AsChosen, Chosen, Reseeded, Read, Fresh
<1>2. CASE LoadSettings
  <2>1. settings' = AsChosen /\ UNCHANGED <<device, choice, config, runs, cursor, cue>>
    BY <1>2 DEF LoadSettings
  <2>2. AsChosen' = AsChosen /\ Wanted' = Wanted
    BY <2>1 DEF AsChosen, Chosen, Wanted
  <2>3. player' = Wanted
    <3>1. Chosen \in 1 .. 4
      BY ChosenIsAPlayer DEF Players
    <3>2. Taken(config.given, settings') = Wanted
      BY <2>1, <3>1 DEF Taken, Wanted, AsChosen, Chosen, Clamp
    <3> QED
      BY <1>2, <3>2 DEF LoadSettings
  <2>4. file' \in {file, settings'}
    BY <1>2 DEF LoadSettings
  <2>5. Reseeded(Read(AsChosen)) = AsChosen /\ AsChosen \in [player : 0 .. 4, seed : {0, Seed}]
    BY ChosenIsAPlayer DEF Reseeded, Read, AsChosen, Players, Seed
  <2>6. /\ file' \in [player : 0 .. 4, seed : {0, Seed}]
        /\ Reseeded(Read(file))' = AsChosen
    BY <2>1, <2>4, <2>5 DEF Reseeded, Read, Fresh
  <2> QED
    BY <1>2, <2>1, <2>2, <2>3, <2>6 DEF LoadSettings
<1>3. CASE OpenAudio \/ PlayOn \/ StopForCue \/ NewApp \/ Park \/ Quit
  <2>1. UNCHANGED <<device, file, choice, config, settings, player>>
    BY <1>3 DEF OpenAudio, PlayOn, StopForCue, NewApp, Park, Quit
  <2>2. AsChosen' = AsChosen /\ Wanted' = Wanted /\ Reseeded(Read(file))' = Reseeded(Read(file))
    BY <2>1 DEF AsChosen, Chosen, Wanted, Reseeded, Read, Fresh
  <2>3. CASE OpenAudio
    BY <2>1, <2>2, <2>3 DEF OpenAudio
  <2>4. CASE PlayOn
    BY <2>1, <2>2, <2>4 DEF PlayOn
  <2>5. CASE StopForCue
    BY <2>1, <2>2, <2>5 DEF StopForCue
  <2>6. CASE NewApp
    BY <2>1, <2>2, <2>6 DEF NewApp
  <2>7. CASE Park
    BY <2>1, <2>2, <2>7 DEF Park
  <2>8. CASE Quit
    BY <2>1, <2>2, <2>8 DEF Quit
  <2> QED
    BY <1>3, <2>3, <2>4, <2>5, <2>6, <2>7, <2>8
<1>4. CASE CyclePlayer
  <2>1. PICK n \in Players : settings' = [player |-> n, seed |-> Seed]
    <3>1. settings = AsChosen /\ Chosen \in Players
      BY <1>4, ChosenIsAPlayer DEF CyclePlayer
    <3> QED
      BY <1>4, <3>1 DEF CyclePlayer, AsChosen, Players
  <2>2. choice' = {n} /\ file' = settings'
    BY <1>4, <2>1 DEF CyclePlayer
  <2>3. AsChosen' = settings'
    BY <2>1, <2>2 DEF AsChosen, Chosen
  <2>4. /\ Reseeded(Read(file))' = settings'
        /\ file' \in [player : 0 .. 4, seed : {0, Seed}]
    BY <2>1, <2>2 DEF Reseeded, Read, Players, Seed
  <2> QED
    BY <1>4, <2>2, <2>3, <2>4 DEF CyclePlayer
<1>5. CASE SaveOther
  <2>1. file' = AsChosen /\ UNCHANGED <<device, choice, settings>>
    BY <1>5 DEF SaveOther
  <2>2. AsChosen' = AsChosen
    BY <2>1 DEF AsChosen, Chosen
  <2>3. Reseeded(Read(AsChosen)) = AsChosen /\ AsChosen \in [player : 0 .. 4, seed : {0, Seed}]
    BY ChosenIsAPlayer DEF Reseeded, Read, AsChosen, Players, Seed
  <2>4. Reseeded(Read(file))' = AsChosen
    BY <2>1, <2>3 DEF Reseeded, Read, Fresh
  <2> QED
    BY <1>5, <2>1, <2>2, <2>3, <2>4 DEF SaveOther
<1>6. CASE CutInSave
  <2>1. file' = Torn /\ choice' = {} /\ UNCHANGED device
    BY <1>6 DEF CutInSave
  <2>2. AsChosen' = [player |-> device.default, seed |-> Seed]
    BY <2>1 DEF AsChosen, Chosen
  <2>3. Reseeded(Read(file))' = [player |-> device.default, seed |-> Seed]
    BY <2>1 DEF Reseeded, Read, Fresh, Torn, Seed
  <2> QED
    BY <1>6, <2>1, <2>2, <2>3 DEF CutInSave, Torn
<1>7. CASE UNCHANGED startVars
  BY <1>7 DEF startVars, AsChosen, Chosen, Wanted, Reseeded, Read, Fresh
<1> QED
  BY <1>1, <1>2, <1>3, <1>4, <1>5, <1>6, <1>7 DEF StartNext

\* Every deck comes up under the number it was given, else the last one chosen, else
\* its platform's, and one that is not to start playing sits stopped at its cue.
THEOREM ComesUpAsAsked == StartSpec => []StartsAsAsked
<1>1. StartInv => StartsAsAsked
  BY DEF StartInv, StartsAsAsked, Running
<1> QED
  BY <1>1, StartStart, StartStep, PTL DEF StartSpec

-----------------------------------------------------------------------------
(* The browser. *)

USE BrowserAssumption DEF BrowserAssumption

\* Every set of numbers that is not empty has a least one: the induction by which the
\* recursive `Those` is shown to be a sequence of what it should list.
LEMMA LeastNumber ==
  ASSUME NEW T \in SUBSET Nat, T # {}
  PROVE  \E n \in T : \A m \in T : n <= m
<1> DEFINE R == {z \in Nat \X Nat : z[1] < z[2]}
<1>1. IsWellFoundedOn(OpToRel(<, Nat), Nat) /\ OpToRel(<, Nat) = R
  BY NatLessThanWellFounded DEF OpToRel
<1>2. PICK n \in T : \A m \in T : <<m, n>> \notin R
  <2> HIDE DEF R
  <2> QED  BY <1>1, WFMin
<1>3. ASSUME NEW m \in T PROVE n <= m
  <2>1. m \in Nat /\ n \in Nat /\ <<m, n>> \notin R
    BY <1>2
  <2>2. <<m, n>> \in Nat \X Nat
    BY <2>1
  <2>3. ~(m < n)
    BY <2>1, <2>2
  <2> QED  BY <2>1, <2>3
<1> QED  BY <1>3

\* The names that paths are made of.
Names == StickSet \cup ToSet(Peers) \cup {"home", "folder", "track"}
Paths == Seq(Names)

\* Some of the sticks are a list of the paths of just those.
LEMMA ThoseListed ==
  ASSUME NEW some
  PROVE  Those(some) \in Seq({<<s>> : s \in StickSet \cap some})
<1> DEFINE L == Len(Sticks)
           P == {<<s>> : s \in StickSet \cap some}
           step(f, n) == IF n = 0 THEN <<>>
                         ELSE IF Sticks[n] \in some THEN Append(f[n - 1], <<Sticks[n]>>) ELSE f[n - 1]
           Full(m, f) == f \in [0 .. m -> Seq(P)] /\ \A n \in 0 .. m : f[n] = step(f, n)
           Missing == {m \in 0 .. L : ~\E f : Full(m, f)}
<1>1. L \in Nat /\ \A n \in 1 .. L : Sticks[n] \in StickSet
  <2>1. L \in Nat /\ DOMAIN Sticks = 1 .. L
    OBVIOUS
  <2> QED  BY <2>1 DEF StickSet, ToSet
<1>2. \A n \in 1 .. L : Sticks[n] \in some => <<Sticks[n]>> \in P
  <2> HIDE DEF L
  <2> QED  BY <1>1
<1>3. Missing = {}
  <2> SUFFICES ASSUME Missing # {} PROVE FALSE
    OBVIOUS
  <2>1. PICK m \in Missing : \A k \in Missing : m <= k
    <3>1. Missing \in SUBSET Nat
      <4> HIDE DEF Full
      <4> QED  BY <1>1
    <3> HIDE DEF Missing
    <3> QED  BY <3>1, LeastNumber
  <2>2. m # 0
    <3> DEFINE f == [n \in 0 .. 0 |-> <<>>]
    <3>1. Full(0, f)
      <4>1. <<>> \in Seq(P)
        OBVIOUS
      <4> QED  BY <4>1
    <3> QED  BY <3>1, <2>1
  <2>3. m \in 1 .. L /\ m - 1 \in 0 .. L /\ m - 1 \notin Missing
    <3> HIDE DEF Full
    <3>1. m \in 0 .. L /\ m \in Int
      BY <1>1, <2>1
    <3>2. m \in 1 .. L /\ m - 1 \in 0 .. L /\ m - 1 < m
      BY <1>1, <2>2, <3>1
    <3> HIDE DEF Missing
    <3> QED  BY <3>2, <2>1
  <2>4. PICK f : Full(m - 1, f)
    <3> HIDE DEF Full
    <3> QED  BY <2>3
  <2> DEFINE g == [n \in 0 .. m |-> IF n = m THEN step(f, m) ELSE f[n]]
  <2>5. step(f, m) \in Seq(P)
    <3>1. f[m - 1] \in Seq(P)
      <4>1. f \in [0 .. m - 1 -> Seq(P)] /\ m - 1 \in 0 .. m - 1
        BY <2>3, <2>4
      <4> HIDE DEF P, step, Full
      <4> QED  BY <4>1
    <3> HIDE DEF P
    <3> QED  BY <3>1, <1>2, <2>3, <2>2
  <2>6. g \in [0 .. m -> Seq(P)]
    <3> HIDE DEF P
    <3> QED  BY <2>3, <2>4, <2>5
  <2>7. ASSUME NEW n \in 0 .. m PROVE g[n] = step(g, n)
    <3>1. n # 0 => n - 1 \in 0 .. m /\ n - 1 # m /\ g[n - 1] = f[n - 1]
      BY <2>3
    <3>2. n # m => n \in 0 .. m - 1 /\ f[n] = step(f, n)
      <4> HIDE DEF step
      <4> QED  BY <2>3, <2>4
    <3>3. g[n] = step(f, n)
      BY <3>2
    <3>4. step(g, n) = step(f, n)
      BY <3>1
    <3> QED  BY <3>3, <3>4
  <2>8. Full(m, g)
    <3> HIDE DEF step, g
    <3> QED  BY <2>6, <2>7
  <2> HIDE DEF Full, g
  <2> QED  BY <2>1, <2>8
<1>4. PICK f : Full(L, f)
  <2>1. L \in 0 .. L
    BY <1>1
  <2> HIDE DEF Full
  <2> QED  BY <2>1, <1>3
<1> DEFINE u == CHOOSE h : h = [n \in 0 .. L |-> step(h, n)]
<1>5. f = [n \in 0 .. L |-> step(f, n)]
  <2> HIDE DEF step
  <2> QED  BY <1>4
<1>6. u = [n \in 0 .. L |-> step(u, n)]
  <2> HIDE DEF step
  <2> QED  BY <1>5
<1>7. Those(some) = u[L]
  BY DEF Those
<1>8. u \in [0 .. L -> Seq(P)]
  <2> SUFFICES ASSUME NEW k \in 0 .. L, u[k] \notin Seq(P) PROVE FALSE
    <3> HIDE DEF step, u, P
    <3> QED  BY <1>6
  <2> DEFINE Bad == {n \in 0 .. L : u[n] \notin Seq(P)}
  <2>1. PICK m \in Bad : \A n \in Bad : m <= n
    <3> HIDE DEF u, P
    <3>1. Bad \in SUBSET Nat /\ k \in Bad
      BY <1>1
    <3> QED  BY <3>1, LeastNumber
  <2>2. u[m] = step(u, m)
    <3> HIDE DEF step, u, P
    <3> QED  BY <1>6, <2>1
  <2>3. m # 0
    <3>1. step(u, 0) = <<>>
      OBVIOUS
    <3>2. <<>> \in Seq(P)
      OBVIOUS
    <3> HIDE DEF step, u, P
    <3> QED  BY <3>1, <3>2, <2>1, <2>2
  <2>4. m \in 1 .. L /\ u[m - 1] \in Seq(P)
    <3> HIDE DEF step, u, P
    <3> QED  BY <1>1, <2>1, <2>3
  <2>5. step(u, m) \in Seq(P)
    <3> HIDE DEF u, P
    <3> QED  BY <2>4, <1>2, <2>3
  <2> HIDE DEF step, u, P
  <2> QED  BY <2>1, <2>2, <2>5
<1>9. Those(some) \in Seq(P)
  <2> HIDE DEF step, u, P
  <2> QED  BY <1>1, <1>7, <1>8
<1> QED  BY <1>9

\* The places and the rows that are on none but the sticks of X.
Kinds         == {"fs", "link", "dbRoot", "dbTracks"} \cup RbPlaces
Targets       == Kinds \cup {"none", "local", "peer"}
GoodPlaces(X) ==
  {p \in [kind : Kinds, path : Paths] :
     StickOf(p.path) \subseteq X /\ (p.kind # "fs" => p.path = <<>>)}
GoodRows(X) ==
  {r \in [kind : {"go", "connect", "track"}, to : [kind : Targets, path : Paths]] :
     /\ StickOf(r.to.path) \subseteq X
     /\ r.kind = "go" => r.to \in GoodPlaces(X)
     /\ r.kind = "connect" => StickOf(r.to.path) = {}}

\* The export kept is of what its path's mount point holds, unless the stick is gone and
\* the scan, which last saw the sticks m, has not yet looked again.
GoodExport(e, m) ==
  /\ e \in [of : {"none", "local", "link"}, path : Paths, insertion : Nat]
  /\ e.of # "local" => StickOf(e.path) = {}
  /\ e.of = "local" =>
       /\ Len(e.path) = 1
       /\ \/ e.path[1] \notin StickSet /\ e.insertion = 0
          \/ e.path[1] \in Mounted /\ e.insertion = inserted[e.path[1]]
          \/ e.path[1] \in m \ Mounted

\* What the rows of a place may be on that is not read from the file system.
FromExport(place, e) ==
  IF place.kind \in RbPlaces /\ e.of = "local" THEN StickOf(e.path) ELSE {}

\* What is shown is on sticks that are there or that the scan has yet to miss; rows that
\* no scan reads again are of the export.
Shown(st, list, e, m) ==
  /\ st \in Seq(GoodPlaces(m \cup Mounted)) /\ st # <<>> /\ st[1] \in {Fs(Home), Fs(<<>>)}
  /\ list \in Seq(GoodRows(m \cup Mounted))
  /\ Last(st).kind # "fs" => list \in Seq(GoodRows(FromExport(Last(st), e)))
  /\ GoodExport(e, m)

BrowserInv ==
  /\ inserts \in Nat /\ inserted \in [StickSet -> Nat] /\ media \in SUBSET StickSet
  /\ Shown(stack, rows, export, media)

-----------------------------------------------------------------------------
(* What the rows of a place are on. *)

\* No place's name is a mount point's, and the names are names.
LEMMA NamesApart ==
  /\ StickSet \subseteq Names /\ ToSet(Peers) \subseteq Names
  /\ "home" \in Names /\ "folder" \in Names /\ "track" \in Names
  /\ "home" \notin StickSet /\ StickSet \cap ToSet(Peers) = {}
  /\ Mounted \subseteq StickSet
BY DEF Names, StickSet, Mounted

\* Places on fewer sticks are places on more, and so are rows.
LEMMA OnMore ==
  ASSUME NEW X, NEW Y, X \subseteq Y
  PROVE  GoodPlaces(X) \subseteq GoodPlaces(Y) /\ GoodRows(X) \subseteq GoodRows(Y)
BY DEF GoodPlaces, GoodRows

\* What makes a row good: where it leads is on no other stick, and is a place to enter
\* or a player if it is a row for that.
LEMMA RowGood ==
  ASSUME NEW X, NEW kind \in {"go", "connect", "track"}, NEW to \in [kind : Targets, path : Paths],
         StickOf(to.path) \subseteq X, kind = "go" => to \in GoodPlaces(X),
         kind = "connect" => StickOf(to.path) = {}
  PROVE  Row(kind, to) \in GoodRows(X)
<1> DEFINE r == Row(kind, to)
<1>1. r \in [kind : {"go", "connect", "track"}, to : [kind : Targets, path : Paths]]
  BY DEF Row
<1>2. r.kind = kind /\ r.to = to
  BY DEF Row
<1> HIDE DEF r
<1>3. r \in GoodRows(X)
  BY <1>1, <1>2 DEF GoodRows
<1> QED  BY <1>3 DEF r

\* A row that leads to a place is on what the place is on.
LEMMA GoRowGood ==
  ASSUME NEW X, NEW p \in GoodPlaces(X)
  PROVE  Go(p) \in GoodRows(X)
<1>1. p \in [kind : Kinds, path : Paths] /\ StickOf(p.path) \subseteq X
  BY DEF GoodPlaces
<1>2. Kinds \subseteq Targets
  BY DEF Targets
<1>3. p \in [kind : Targets, path : Paths]
  BY <1>1, <1>2
<1> QED  BY <1>1, <1>3, RowGood DEF Go

\* A place that is no folder is on no stick.
LEMMA AtGood ==
  ASSUME NEW X, NEW kind \in Kinds
  PROVE  At(kind) \in GoodPlaces(X)
<1>1. <<>> \in Paths
  BY DEF Paths
<1>2. At(kind) \in [kind : Kinds, path : Paths] /\ At(kind).path = <<>>
  BY <1>1 DEF At
<1> QED  BY <1>2 DEF GoodPlaces, StickOf

\* The rows of a list of paths, as rows to enter and as tracks.
LEMMA RowsGood ==
  ASSUME NEW X, NEW list \in Seq({p \in Paths : StickOf(p) \subseteq X}), NEW kind \in {"go", "track"}
  PROVE  Rows(kind, list) \in Seq(GoodRows(X))
<1> DEFINE G == {p \in Paths : StickOf(p) \subseteq X}
<1>1. DOMAIN list = 1 .. Len(list) /\ Len(list) \in Nat
  OBVIOUS
<1>2. ASSUME NEW i \in 1 .. Len(list) PROVE Row(kind, Fs(list[i])) \in GoodRows(X)
  <2>1. list[i] \in G
    BY <1>1
  <2>2. list[i] \in Paths /\ StickOf(list[i]) \subseteq X
    BY <2>1
  <2>3. /\ Fs(list[i]) \in [kind : Targets, path : Paths] /\ Fs(list[i]).path = list[i]
        /\ Fs(list[i]).kind = "fs" /\ Fs(list[i]) \in [kind : Kinds, path : Paths]
    BY <2>2 DEF Fs, Kinds, Targets
  <2>4. Fs(list[i]) \in GoodPlaces(X)
    BY <2>2, <2>3 DEF GoodPlaces
  <2> QED  BY <2>2, <2>3, <2>4, RowGood
<1>3. Rows(kind, list) = [i \in 1 .. Len(list) |-> Row(kind, Fs(list[i]))]
  BY <1>1 DEF Rows
<1> QED  BY <1>1, <1>2, <1>3, IsASeq

\* The row of one thing is a list of rows, and lists of rows one after the other are.
LEMMA RowLists ==
  ASSUME NEW X
  PROVE  /\ <<>> \in Seq(GoodRows(X))
         /\ \A r \in GoodRows(X) : <<r>> \in Seq(GoodRows(X))
         /\ \A s, t \in Seq(GoodRows(X)) : s \o t \in Seq(GoodRows(X))
<1> DEFINE G == GoodRows(X)
<1>1. <<>> \in Seq(G) /\ (\A r \in G : <<r>> \in Seq(G)) /\ (\A s, t \in Seq(G) : s \o t \in Seq(G))
  <2> HIDE DEF G
  <2> QED  OBVIOUS
<1> QED  BY <1>1

\* The first name of a path goes with it to the folder or the track in it.
LEMMA InFolder ==
  ASSUME NEW path \in Paths, path # <<>>, NEW n \in Names
  PROVE  Append(path, n) \in Paths /\ StickOf(Append(path, n)) = StickOf(path)
<1>1. Append(path, n) \in Paths /\ Append(path, n) # <<>> /\ Append(path, n)[1] = path[1]
  BY DEF Paths
<1> QED  BY <1>1 DEF StickOf

\* The paths of some of the sticks are on those.
LEMMA ThoseGood ==
  ASSUME NEW X, NEW some, some \subseteq X
  PROVE  Those(some) \in Seq({p \in Paths : StickOf(p) \subseteq X})
<1> DEFINE P == {<<s>> : s \in StickSet \cap some}
           G == {p \in Paths : StickOf(p) \subseteq X}
<1>1. ASSUME NEW s \in StickSet \cap some PROVE <<s>> \in G
  <2>1. <<s>> \in Paths /\ <<s>> # <<>> /\ <<s>>[1] = s
    BY NamesApart DEF Paths
  <2> QED  BY <2>1 DEF StickOf
<1>2. P \subseteq G
  BY <1>1
<1>3. Those(some) \in Seq(P)
  BY ThoseListed
<1>4. Those(some) \in Seq(G)
  <2> HIDE DEF P, G
  <2> QED  BY <1>2, <1>3, SeqMonotonic
<1> QED  BY <1>4

\* A folder's rows are on the sticks that are there, or that the source rows name.
LEMMA FsRowsGood ==
  ASSUME NEW X, Mounted \subseteq X, NEW sticks, sticks \subseteq X, NEW path \in Paths,
         NEW depth, NEW kept
  PROVE  FsRows(path, depth, sticks, kept) \in Seq(GoodRows(X))
<1> DEFINE G == GoodRows(X)
           PG == {p \in Paths : StickOf(p) \subseteq X}
<1>1. <<Go(At("link"))>> \in Seq(G) /\ <<Go(At("rbRoot"))>> \in Seq(G)
  BY AtGood, GoRowGood, RowLists DEF Kinds, RbPlaces
<1>2. Rows("go", Those({s \in sticks : path # <<s>>})) \in Seq(G)
  <2>1. {s \in sticks : path # <<s>>} \subseteq X
    OBVIOUS
  <2> QED  BY <2>1, ThoseGood, RowsGood
<1>3. Folders(path) \in Seq(PG)
  <2>1. CASE path = <<>>
    <3>1. Those(Mounted) \in Seq(PG)
      BY ThoseGood
    <3>2. Home \in PG
      <4>1. Home \in Paths /\ Home # <<>> /\ Home[1] = "home"
        BY NamesApart DEF Home, Paths
      <4> QED  BY <4>1, NamesApart DEF StickOf
    <3>3. <<Home>> \o Those(Mounted) \in Seq(PG)
      <4> HIDE DEF PG
      <4> QED  BY <3>1, <3>2
    <3> QED  BY <2>1, <3>3 DEF Folders
  <2>2. CASE path # <<>> /\ Len(path) = 1 /\ Present(path)
    <3>1. Append(path, "folder") \in PG
      <4>1. StickOf(path) \subseteq X
        BY <2>2 DEF Present, StickOf
      <4> QED  BY <4>1, <2>2, InFolder, NamesApart
    <3>2. <<Append(path, "folder")>> \in Seq(PG)
      <4> HIDE DEF PG
      <4> QED  BY <3>1
    <3> QED  BY <2>2, <3>2 DEF Folders
  <2>3. CASE path # <<>> /\ ~(Len(path) = 1 /\ Present(path))
    <3>1. Folders(path) = <<>>
      BY <2>3 DEF Folders
    <3> QED  BY <3>1
  <2> QED  BY <2>1, <2>2, <2>3
<1>4. FilesIn(path) \in Seq(PG)
  <2>1. CASE Len(path) = 2 /\ Present(path)
    <3>1. path # <<>>
      <4>1. Len(path) # Len(<<>>)
        BY <2>1
      <4> QED  BY <4>1
    <3>2. Append(path, "track") \in PG
      <4>1. StickOf(path) \subseteq X
        BY <2>1, <3>1 DEF Present, StickOf
      <4> QED  BY <4>1, <3>1, InFolder, NamesApart
    <3>3. <<Append(path, "track")>> \in Seq(PG)
      <4> HIDE DEF PG
      <4> QED  BY <3>2
    <3> QED  BY <2>1, <3>3 DEF FilesIn
  <2>2. CASE ~(Len(path) = 2 /\ Present(path))
    BY <2>2 DEF FilesIn
  <2> QED  BY <2>1, <2>2
<1>5. Rows("go", Folders(path)) \in Seq(G) /\ Rows("track", FilesIn(path)) \in Seq(G)
  BY <1>3, <1>4, RowsGood
<1>6. <<>> \in Seq(G) /\ \A s, t \in Seq(G) : s \o t \in Seq(G)
  BY RowLists
<1> HIDE DEF G, PG
<1>7. FsRows(path, depth, sticks, kept) \in Seq(G)
  BY <1>1, <1>2, <1>5, <1>6, Zenon DEF FsRows
<1> QED  BY <1>7 DEF G

\* Every other place's rows are on no stick, but those of an export read from one.
LEMMA OtherRowsGood ==
  ASSUME NEW st \in Seq([kind : Kinds, path : Paths]), st # <<>>, Last(st).kind # "fs",
         NEW sticks, NEW kept, NEW m, GoodExport(kept, m), NEW answered \in BOOLEAN
  PROVE  RowsOf(st, sticks, kept, answered) \in Seq(GoodRows(FromExport(Last(st), kept)))
<1> DEFINE place == Last(st)
           X == FromExport(place, kept)
           G == GoodRows(X)
<1>1. place \in [kind : Kinds, path : Paths]
  <2>1. Len(st) \in 1 .. Len(st)
    OBVIOUS
  <2> QED  BY <2>1, ElementOfSeq DEF Last
<1>2. <<>> \in Seq(G) /\ \A r \in G : <<r>> \in Seq(G)
  BY RowLists
<1>3. CASE place.kind = "link"
  <2> DEFINE list == [i \in DOMAIN Peers |-> <<Peers[i]>>]
  <2>1. DOMAIN Peers = 1 .. Len(Peers) /\ Len(Peers) \in Nat
    OBVIOUS
  <2>2. ASSUME NEW i \in 1 .. Len(Peers) PROVE Row("connect", Fs(<<Peers[i]>>)) \in G
    <3>1. Peers[i] \in ToSet(Peers)
      BY <2>1 DEF ToSet
    <3>2. <<Peers[i]>> \in Paths /\ StickOf(<<Peers[i]>>) = {}
      BY <3>1, NamesApart DEF Paths, StickOf
    <3>3. /\ Fs(<<Peers[i]>>) \in [kind : Targets, path : Paths]
          /\ Fs(<<Peers[i]>>).path = <<Peers[i]>>
      BY <3>2 DEF Fs, Targets, Kinds
    <3> QED  BY <3>2, <3>3, RowGood
  <2>3. RowsOf(st, sticks, kept, answered) = [i \in 1 .. Len(Peers) |-> Row("connect", Fs(<<Peers[i]>>))]
    BY <1>3, <2>1 DEF RowsOf, Rows, RbPlaces
  <2> HIDE DEF G
  <2>4. [i \in 1 .. Len(Peers) |-> Row("connect", Fs(<<Peers[i]>>))] \in Seq(G)
    BY <2>1, <2>2, IsASeq
  <2> QED  BY <2>3, <2>4 DEF G
<1>4. CASE place.kind \in RbPlaces
  <2>1. Go(At("rbTree")) \in G /\ Go(At("rbTracks")) \in G
    BY AtGood, GoRowGood DEF Kinds, RbPlaces
  <2>2. Row("track", [kind |-> kept.of, path |-> kept.path]) \in G
    <3> DEFINE to == [kind |-> kept.of, path |-> kept.path]
    <3>1. kept.of \in {"none", "local", "link"} /\ kept.path \in Paths
      BY DEF GoodExport
    <3>2. to \in [kind : Targets, path : Paths] /\ to.path = kept.path
      BY <3>1 DEF Targets, Kinds
    <3>3. StickOf(kept.path) \subseteq X
      BY <1>4 DEF FromExport, GoodExport
    <3> HIDE DEF to, X
    <3>4. Row("track", to) \in G
      BY <3>2, <3>3, RowGood
    <3> QED  BY <3>4 DEF to, X
  <2>3. /\ <<Go(At("rbTree")), Go(At("rbTracks"))>> \in Seq(G)
        /\ <<Go(At("rbTracks"))>> \in Seq(G)
        /\ <<Row("track", [kind |-> kept.of, path |-> kept.path])>> \in Seq(G)
    <3> HIDE DEF G
    <3> QED  BY <2>1, <2>2
  <2>4. RbRows(place.kind, kept) \in Seq(G)
    <3> HIDE DEF G, place
    <3> QED  BY <1>2, <1>4, <2>3 DEF RbRows, RbPlaces
  <2>5. RowsOf(st, sticks, kept, answered) = RbRows(place.kind, kept)
    BY <1>4 DEF RowsOf, RbPlaces
  <2> QED  BY <2>4, <2>5
<1>5. CASE place.kind \in {"dbRoot", "dbTracks"}
  <2>1. Go(At("dbTracks")) \in G
    BY AtGood, GoRowGood DEF Kinds
  <2>2. Row("track", At("peer")) \in G
    <3>1. <<>> \in Paths
      BY DEF Paths
    <3>2. At("peer") \in [kind : Targets, path : Paths] /\ StickOf(At("peer").path) = {}
      BY <3>1 DEF At, StickOf, Targets
    <3> QED  BY <3>2, RowGood
  <2>3. DbRows(place.kind, answered) \in Seq(G)
    <3> HIDE DEF G, place
    <3> QED  BY <1>2, <2>1, <2>2 DEF DbRows
  <2>4. RowsOf(st, sticks, kept, answered) = DbRows(place.kind, answered)
    BY <1>5 DEF RowsOf, RbPlaces
  <2> QED  BY <2>3, <2>4
<1> QED  BY <1>1, <1>3, <1>4, <1>5 DEF Kinds

-----------------------------------------------------------------------------
(* What the keys, the scan and the sticks leave. *)

\* fs_entries leaves an export that is good, whichever it keeps or reads; a place that
\* is no folder leaves the one there was.
LEMMA ExportAtGood ==
  ASSUME NEW place \in [kind : Kinds, path : Paths], NEW kept, NEW m, GoodExport(kept, m),
         inserted \in [StickSet -> Nat]
  PROVE  /\ GoodExport(ExportAt(place, kept), m)
         /\ place.kind # "fs" => ExportAt(place, kept) = kept
<1>1. CASE ~(place.kind = "fs" /\ HasExport(place.path))
  BY <1>1 DEF ExportAt
<1>2. CASE place.kind = "fs" /\ HasExport(place.path) /\ kept.of = "local" /\ kept.path = place.path
  BY <1>2 DEF ExportAt
<1>3. CASE place.kind = "fs" /\ HasExport(place.path) /\ ~(kept.of = "local" /\ kept.path = place.path)
  <2> DEFINE path == place.path
             e == [of |-> "local", path |-> path, insertion |-> Insertion(path)]
  <2>1. ExportAt(place, kept) = e
    BY <1>3 DEF ExportAt
  <2>2. path \in Paths /\ Len(path) = 1 /\ Present(path)
    BY <1>3 DEF HasExport
  <2>3. path # <<>>
    <3>1. Len(path) # Len(<<>>)
      BY <2>2
    <3> QED  BY <3>1
  <2>4. \/ path[1] \notin StickSet /\ Insertion(path) = 0
        \/ path[1] \in Mounted /\ path[1] \in StickSet /\ Insertion(path) = inserted[path[1]]
    BY <2>2, <2>3 DEF Present, Insertion
  <2>5. Insertion(path) \in Nat
    BY <2>4
  <2>6. e \in [of : {"none", "local", "link"}, path : Paths, insertion : Nat]
    BY <2>2, <2>5
  <2> HIDE DEF path
  <2>7. GoodExport(e, m)
    BY <2>2, <2>4, <2>6 DEF GoodExport
  <2> QED  BY <1>3, <2>1, <2>7
<1> QED  BY <1>1, <1>2, <1>3

\* An export is on a stick that is there, or that the scan has yet to miss.
LEMMA ExportStick ==
  ASSUME NEW e, NEW m, GoodExport(e, m)
  PROVE  \A place : FromExport(place, e) \subseteq m \cup Mounted
<1>1. CASE e.of = "local"
  <2>1. e.path \in Paths /\ Len(e.path) = 1 /\ (e.path[1] \in StickSet => e.path[1] \in m \cup Mounted)
    BY <1>1 DEF GoodExport
  <2> QED  BY <2>1 DEF FromExport, StickOf
<1>2. CASE e.of # "local"
  BY <1>2 DEF FromExport
<1> QED  BY <1>1, <1>2

\* Whatever place is shown, what is shown of it is on sticks that are there, or that the
\* scan has yet to miss.
LEMMA ShowShows ==
  ASSUME NEW m \in SUBSET StickSet, inserted \in [StickSet -> Nat], NEW st, NEW kept, NEW at,
         NEW sticks, sticks \subseteq m \cup Mounted,
         st \in Seq(GoodPlaces(m \cup Mounted)), st # <<>>, st[1] \in {Fs(Home), Fs(<<>>)},
         GoodExport(kept, m), Show(st, sticks, kept, at)
  PROVE  Shown(stack', rows', export', m)
<1> DEFINE X == m \cup Mounted
           place == Last(st)
           kept1 == ExportAt(place, kept)
<1>1. PICK answered \in BOOLEAN :
        stack' = st /\ export' = kept1 /\ rows' = RowsOf(st, sticks, kept1, answered)
  BY DEF Show
<1>2. place \in GoodPlaces(X)
  <2>1. Len(st) \in 1 .. Len(st)
    OBVIOUS
  <2> HIDE DEF X
  <2> QED  BY <2>1, ElementOfSeq DEF Last, X
<1>3. place \in [kind : Kinds, path : Paths]
  BY <1>2 DEF GoodPlaces
<1>4. GoodExport(kept1, m) /\ (place.kind # "fs" => kept1 = kept)
  BY <1>3, ExportAtGood
<1>5. st \in Seq([kind : Kinds, path : Paths])
  <2>1. GoodPlaces(X) \subseteq [kind : Kinds, path : Paths]
    BY DEF GoodPlaces
  <2> QED  BY <2>1, SeqMonotonic
<1>6. CASE place.kind = "fs"
  <2>1. rows' = FsRows(place.path, Len(st), sticks, kept1)
    <3> HIDE DEF kept1
    <3>1. RowsOf(st, sticks, kept1, answered) = FsRows(place.path, Len(st), sticks, kept1)
      BY <1>6 DEF RowsOf, RbPlaces
    <3> QED  BY <1>1, <3>1
  <2>2. place.path \in Paths
    BY <1>3
  <2>3. rows' \in Seq(GoodRows(X))
    <3>1. Mounted \subseteq X
      OBVIOUS
    <3> HIDE DEF X, place, kept1
    <3> QED  BY <2>1, <2>2, <3>1, FsRowsGood DEF X
  <2> QED  BY <1>1, <1>4, <1>6, <2>3 DEF Shown
<1>7. CASE place.kind # "fs"
  <2>1. rows' \in Seq(GoodRows(FromExport(place, kept1)))
    BY <1>1, <1>4, <1>5, <1>7, OtherRowsGood
  <2>2. FromExport(place, kept1) \subseteq X
    BY <1>4, ExportStick
  <2>3. GoodRows(FromExport(place, kept1)) \subseteq GoodRows(X)
    BY <2>2, OnMore
  <2>4. rows' \in Seq(GoodRows(X))
    <3> HIDE DEF X, place, kept1
    <3> QED  BY <2>1, <2>3, SeqMonotonic
  <2> HIDE DEF kept1
  <2> QED  BY <1>1, <1>4, <1>7, <2>1, <2>4 DEF Shown
<1> QED  BY <1>6, <1>7

\* A key leaves the sticks and the scan alone: what it shows, it shows truly.
LEMMA KeyShows ==
  ASSUME BrowserInv, Keyed, NEW st, NEW kept, NEW at,
         st \in Seq(GoodPlaces(media \cup Mounted)), st # <<>>, st[1] \in {Fs(Home), Fs(<<>>)},
         GoodExport(kept, media), Show(st, media, kept, at)
  PROVE  BrowserInv'
<1>1. Shown(stack', rows', export', media)
  <2>1. media \subseteq media \cup Mounted
    OBVIOUS
  <2> QED  BY <2>1, ShowShows DEF BrowserInv
<1>2. media' = media /\ inserted' = inserted /\ inserts' = inserts /\ Mounted' = Mounted
  BY DEF Keyed, Mounted
<1> QED  BY <1>1, <1>2 DEF BrowserInv, Shown, GoodExport

\* What a stack is that begins at the first folder or above it.
Stacks(X) == {st \in Seq(GoodPlaces(X)) : st # <<>> /\ st[1] \in {Fs(Home), Fs(<<>>)}}

\* A key that shows a stack: it shows it truly.
LEMMA KeyShowsStack ==
  ASSUME BrowserInv, Keyed, NEW st \in Stacks(media \cup Mounted), NEW kept, NEW at,
         GoodExport(kept, media), Show(st, media, kept, at)
  PROVE  BrowserInv'
BY KeyShows DEF Stacks

\* A place entered, and the way back, leave a stack.
LEMMA StackMoves ==
  ASSUME NEW X, NEW st \in Stacks(X), NEW p \in GoodPlaces(X)
  PROVE  /\ Append(st, p) \in Stacks(X) /\ <<st[1]>> \in Stacks(X) /\ <<st[1], p>> \in Stacks(X)
         /\ Len(st) > 1 => Front(st) \in Stacks(X)
<1> DEFINE G == GoodPlaces(X)
<1>1. st \in Seq(G) /\ st # <<>> /\ st[1] \in {Fs(Home), Fs(<<>>)} /\ st[1] \in G
  <2>1. st \in Seq(G) /\ st # <<>> /\ 1 \in 1 .. Len(st)
    BY DEF Stacks
  <2> HIDE DEF G
  <2> QED  BY <2>1, ElementOfSeq DEF Stacks
<1> HIDE DEF G
<1>2. /\ Append(st, p) \in Seq(G) /\ Append(st, p) # <<>> /\ Append(st, p)[1] = st[1]
      /\ <<st[1]>> \in Seq(G) /\ <<st[1]>> # <<>> /\ <<st[1]>>[1] = st[1]
      /\ <<st[1], p>> \in Seq(G) /\ <<st[1], p>> # <<>> /\ <<st[1], p>>[1] = st[1]
  BY <1>1 DEF G
<1>3. ASSUME Len(st) > 1
      PROVE  Front(st) \in Seq(G) /\ Front(st) # <<>> /\ Front(st)[1] = st[1]
  <2>1. Len(st) \in Nat /\ Len(st) - 1 \in 1 .. Len(st)
    BY <1>1, <1>3
  <2>2. /\ Front(st) \in Seq(G) /\ Len(Front(st)) = Len(st) - 1
        /\ \A i \in 1 .. Len(st) - 1 : Front(st)[i] = st[i]
    BY <1>1, <2>1 DEF Front
  <2> QED  BY <2>1, <2>2
<1> QED  BY <1>1, <1>2, <1>3 DEF Stacks, G

\* The parts of the invariant the keys' proofs start from.
LEMMA Starts ==
  ASSUME BrowserInv
  PROVE  /\ stack \in Stacks(media \cup Mounted) /\ GoodExport(export, media)
         /\ \A r \in ToSet(rows) : r \in GoodRows(media \cup Mounted)
<1>1. rows \in Seq(GoodRows(media \cup Mounted))
  BY DEF BrowserInv, Shown
<1>2. ASSUME NEW r \in ToSet(rows) PROVE r \in GoodRows(media \cup Mounted)
  <2>1. PICK i \in 1 .. Len(rows) : r = rows[i]
    BY <1>1 DEF ToSet
  <2> QED  BY <1>1, <2>1, ElementOfSeq
<1> QED  BY <1>2 DEF BrowserInv, Shown, Stacks

\* What leaves stack, rows, export, scan and sticks as they are keeps the invariant.
LEMMA BrowserRests ==
  ASSUME BrowserInv, UNCHANGED <<stack, rows, export, media, inserted, inserts>>
  PROVE  BrowserInv'
<1>1. Mounted' = Mounted
  BY DEF Mounted
<1> QED  BY <1>1 DEF BrowserInv, Shown, GoodExport

\* Entering a row: a folder, a stick, the export, a list of a player.
LEMMA DescendShows == BrowserInv /\ Descend => BrowserInv'
<1> SUFFICES ASSUME BrowserInv, Descend PROVE BrowserInv'
  OBVIOUS
<1> DEFINE X == media \cup Mounted
<1>1. PICK r \in ToSet(rows) :
        r.kind = "go" /\ Show(Append(stack, r.to), media, export, 1) /\ Keyed
  BY DEF Descend
<1>2. r.to \in GoodPlaces(X)
  <2>1. r \in GoodRows(X)
    BY Starts
  <2> QED  BY <1>1, <2>1 DEF GoodRows
<1>3. Append(stack, r.to) \in Stacks(X)
  BY <1>2, Starts, StackMoves
<1> QED  BY <1>1, <1>3, Starts, KeyShowsStack

\* Connecting to a player: its lists, or its export read over the network.
LEMMA ConnectShows == BrowserInv /\ Connect => BrowserInv'
<1> SUFFICES ASSUME BrowserInv, Connect PROVE BrowserInv'
  OBVIOUS
<1> DEFINE X == media \cup Mounted
           theirs(r) == [of |-> "link", path |-> r.to.path, insertion |-> 0]
<1>1. PICK r \in ToSet(rows) :
        /\ r.kind = "connect" /\ Keyed
        /\ \/ Show(Append(stack, At("dbRoot")), media, export, 1)
           \/ Show(Append(stack, At("rbTree")), media, theirs(r), 1)
           \/ UNCHANGED <<stack, rows, selected, export>>
  BY DEF Connect
<1>2. /\ Append(stack, At("dbRoot")) \in Stacks(X) /\ Append(stack, At("rbTree")) \in Stacks(X)
  BY AtGood, Starts, StackMoves DEF Kinds, RbPlaces
<1>3. GoodExport(theirs(r), media)
  <2>1. r.to.path \in Paths /\ StickOf(r.to.path) = {}
    BY <1>1, Starts DEF GoodRows
  <2> DEFINE e == theirs(r)
  <2>2. e \in [of : {"none", "local", "link"}, path : Paths, insertion : Nat]
        /\ e.of = "link" /\ e.path = r.to.path
    BY <2>1
  <2> HIDE DEF e
  <2>3. GoodExport(e, media)
    BY <2>1, <2>2 DEF GoodExport
  <2> QED  BY <2>3 DEF e
<1> HIDE DEF theirs
<1>4. CASE Show(Append(stack, At("dbRoot")), media, export, 1)
  BY <1>1, <1>2, <1>4, Starts, KeyShowsStack
<1>5. CASE Show(Append(stack, At("rbTree")), media, theirs(r), 1)
  BY <1>1, <1>2, <1>3, <1>5, KeyShowsStack
<1>6. CASE UNCHANGED <<stack, rows, selected, export>>
  BY <1>1, <1>6, BrowserRests DEF Keyed
<1> QED  BY <1>1, <1>4, <1>5, <1>6

\* The root, and a stick's folder, as places.
LEMMA FoldersGood ==
  ASSUME NEW X
  PROVE  /\ Fs(<<>>) \in GoodPlaces(X) /\ Fs(Home) \in GoodPlaces(X)
         /\ \A s \in StickSet \cap X : Fs(<<s>>) \in GoodPlaces(X)
         /\ <<Fs(<<>>)>> \in Stacks(X) /\ <<Fs(Home)>> \in Stacks(X)
<1>1. ASSUME NEW p \in Paths, StickOf(p) \subseteq X PROVE Fs(p) \in GoodPlaces(X)
  <2>1. Fs(p) \in [kind : Kinds, path : Paths] /\ Fs(p).path = p /\ Fs(p).kind = "fs"
    BY DEF Fs, Kinds
  <2> QED  BY <1>1, <2>1 DEF GoodPlaces
<1>2. <<>> \in Paths /\ StickOf(<<>>) = {}
  BY DEF Paths, StickOf
<1>3. Home \in Paths /\ StickOf(Home) = {}
  <2>1. Home \in Paths /\ Home # <<>> /\ Home[1] = "home"
    BY NamesApart DEF Home, Paths
  <2> QED  BY <2>1, NamesApart DEF StickOf
<1>4. ASSUME NEW s \in StickSet \cap X PROVE Fs(<<s>>) \in GoodPlaces(X)
  <2>1. <<s>> \in Paths /\ <<s>> # <<>> /\ <<s>>[1] = s
    BY NamesApart DEF Paths
  <2> QED  BY <1>1, <2>1 DEF StickOf
<1>5. Fs(<<>>) \in GoodPlaces(X) /\ Fs(Home) \in GoodPlaces(X)
  BY <1>1, <1>2, <1>3
<1> DEFINE G == GoodPlaces(X)
<1>6. \A p \in G : <<p>> \in Seq(G) /\ <<p>> # <<>> /\ <<p>>[1] = p
  <2> HIDE DEF G
  <2> QED  OBVIOUS
<1> QED  BY <1>4, <1>5, <1>6 DEF Stacks

\* The way back, down the stack or up a folder.
LEMMA BackShows == BrowserInv /\ Back => BrowserInv'
<1> SUFFICES ASSUME BrowserInv, Back PROVE BrowserInv'
  OBVIOUS
<1> DEFINE X == media \cup Mounted
<1>1. stack \in Stacks(X) /\ GoodExport(export, media)
  BY Starts
<1>2. CASE Keyed /\ Len(stack) > 1 /\ Show(Front(stack), media, export, 1)
  BY <1>1, <1>2, FoldersGood, StackMoves, KeyShowsStack
<1>3. ASSUME Keyed, stack[1].path # <<>>,
             NEW at, LET above == <<Fs(Front(stack[1].path))>> IN
                     Show(above, media, ExportAt(above[1], export), at)
      PROVE  BrowserInv'
  <2>1. stack[1] \in {Fs(Home), Fs(<<>>)}
    BY <1>1 DEF Stacks
  <2>2. stack[1] = Fs(Home)
    BY <1>3, <2>1 DEF Fs
  <2>3. Front(Home) = <<>>
    BY DEF Home, Front
  <2>4. <<Fs(Front(stack[1].path))>> = <<Fs(<<>>)>>
    BY <2>2, <2>3 DEF Fs
  <2>5. GoodExport(ExportAt(Fs(<<>>), export), media)
    <3>1. Fs(<<>>) \in [kind : Kinds, path : Paths]
      BY FoldersGood DEF GoodPlaces
    <3> QED  BY <1>1, <3>1, ExportAtGood DEF BrowserInv
  <2>6. Show(<<Fs(<<>>)>>, media, ExportAt(Fs(<<>>), export), at)
    BY <1>3, <2>4
  <2> QED  BY <1>3, <2>5, <2>6, FoldersGood, KeyShowsStack
<1> QED  BY <1>2, <1>3 DEF Back

\* LINK, FILE and a list opened again.
LEMMA RootShows == BrowserInv /\ (GoLink \/ GoRoot \/ Reopen) => BrowserInv'
<1> SUFFICES ASSUME BrowserInv, GoLink \/ GoRoot \/ Reopen PROVE BrowserInv'
  OBVIOUS
<1> DEFINE X == media \cup Mounted
<1>1. stack \in Stacks(X) /\ GoodExport(export, media)
  BY Starts
<1>2. CASE GoLink
  <2>1. <<stack[1], At("link")>> \in Stacks(X)
    BY <1>1, AtGood, StackMoves DEF Kinds
  <2> QED  BY <1>1, <1>2, <2>1, KeyShowsStack DEF GoLink
<1>3. CASE GoRoot
  <2>1. CASE Show(<<stack[1]>>, media, export, 1)
    BY <1>1, <1>3, <2>1, FoldersGood, StackMoves, KeyShowsStack DEF GoRoot
  <2>2. CASE \E s \in media : Show(<<stack[1], Fs(<<s>>)>>, media, export, 1)
    <3>1. PICK s \in media : Show(<<stack[1], Fs(<<s>>)>>, media, export, 1)
      BY <2>2
    <3>2. s \in StickSet \cap X
      BY DEF BrowserInv
    <3> QED  BY <1>1, <1>3, <3>1, <3>2, FoldersGood, StackMoves, KeyShowsStack DEF GoRoot
  <2> QED  BY <1>3, <2>1, <2>2 DEF GoRoot
<1>4. CASE Reopen
  BY <1>1, <1>4, KeyShowsStack DEF Reopen
<1> QED  BY <1>2, <1>3, <1>4

\* The scan: an export of a stick that is gone is dropped, and the places on one are left.
LEMMA ScanShows == BrowserInv /\ PollMedia => BrowserInv'
<1> SUFFICES ASSUME BrowserInv, PollMedia PROVE BrowserInv'
  OBVIOUS
<1> DEFINE lost == media \ Mounted
           out == Browsing(lost)
           st == IF out THEN <<stack[1]>> ELSE stack
           kept == KeptExport(lost)
           at == IF out THEN 1 ELSE selected
<1>1. /\ media' = Mounted /\ inserted' = inserted /\ inserts' = inserts /\ Mounted' = Mounted
      /\ Mounted \in SUBSET StickSet
  BY NamesApart DEF PollMedia, Mounted
<1>2. /\ stack \in Stacks(media \cup Mounted) /\ GoodExport(export, media)
      /\ inserted \in [StickSet -> Nat]
  BY Starts DEF BrowserInv
<1>3. GoodExport(kept, Mounted)
  <2>1. CASE export.of = "local" /\ export.path[1] \in lost
    <3>1. kept = NoExport
      BY <2>1 DEF KeptExport
    <3>2. <<>> \in Paths
      BY DEF Paths
    <3>3. GoodExport(NoExport, Mounted)
      BY <3>2 DEF GoodExport, NoExport, StickOf
    <3> HIDE DEF kept
    <3> QED  BY <3>1, <3>3
  <2>2. CASE ~(export.of = "local" /\ export.path[1] \in lost)
    <3>1. kept = export
      BY <2>2 DEF KeptExport
    <3> QED  BY <1>2, <2>2, <3>1 DEF GoodExport
  <2> QED  BY <2>1, <2>2
<1>4. st \in Stacks(Mounted)
  <2>1. CASE out
    <3>1. <<stack[1]>> \in Stacks(Mounted)
      <4>1. stack[1] \in {Fs(Home), Fs(<<>>)}
        BY <1>2 DEF Stacks
      <4> QED  BY <4>1, FoldersGood
    <3> QED  BY <2>1, <3>1
  <2>2. CASE ~out
    <3> DEFINE G == GoodPlaces(Mounted)
    <3>1. stack \in Seq(GoodPlaces(media \cup Mounted))
      BY <1>2 DEF Stacks
    <3>2. ASSUME NEW i \in 1 .. Len(stack) PROVE stack[i] \in G
      <4>1. stack[i] \in GoodPlaces(media \cup Mounted)
        BY <3>1, ElementOfSeq
      <4>2. stack[i] \in [kind : Kinds, path : Paths] /\ StickOf(stack[i].path) \subseteq media \cup Mounted
            /\ (stack[i].kind # "fs" => stack[i].path = <<>>)
        BY <4>1 DEF GoodPlaces
      <4>3. stack[i].kind = "fs" /\ stack[i].path # <<>> => stack[i].path[1] \notin lost
        BY <2>2, <3>1 DEF Browsing
      <4>4. stack[i].kind = "fs" => StickOf(stack[i].path) \subseteq Mounted
        BY <4>2, <4>3 DEF StickOf
      <4> QED  BY <4>2, <4>4 DEF GoodPlaces, StickOf
    <3>3. stack \in Seq(G)
      <4>1. stack = [i \in 1 .. Len(stack) |-> stack[i]] /\ Len(stack) \in Nat
        BY <3>1
      <4> HIDE DEF G
      <4> QED  BY <3>2, <4>1, IsASeq
    <3> QED  BY <1>2, <2>2, <3>3 DEF Stacks
  <2> QED  BY <2>1, <2>2
<1>5. CASE Last(st).kind = "fs"
  <2>1. Show(st, Mounted, kept, at)
    <3> HIDE DEF st, kept, at
    <3> QED  BY <1>5 DEF PollMedia, st, kept, at
  <2>2. Shown(stack', rows', export', Mounted)
    <3>1. Mounted \subseteq Mounted \cup Mounted /\ st \in Stacks(Mounted \cup Mounted)
      BY <1>4
    <3> HIDE DEF st, kept, at
    <3> QED  BY <1>1, <1>2, <1>3, <2>1, <3>1, ShowShows DEF Stacks
  <2> QED  BY <1>1, <1>2, <2>2 DEF BrowserInv, Shown, GoodExport
<1>6. CASE Last(st).kind # "fs"
  <2>1. export' = kept /\ UNCHANGED <<stack, rows, selected>>
    <3> HIDE DEF st, kept
    <3> QED  BY <1>6 DEF PollMedia, st, kept
  <2>2. ~out
    <3>1. <<stack[1]>>[Len(<<stack[1]>>)] = stack[1] /\ stack[1].kind = "fs"
      BY <1>2 DEF Stacks, Fs
    <3> QED  BY <1>6, <3>1 DEF Last
  <2>3. st = stack
    BY <2>2
  <2>4. FromExport(Last(stack), export) = FromExport(Last(stack), kept)
    <3>1. CASE Last(stack).kind \in RbPlaces
      <4>1. Len(stack) \in DOMAIN stack /\ stack[Len(stack)].kind \in RbPlaces
        BY <1>2, <3>1 DEF Stacks, Last
      <4>2. ~(export.of = "local" /\ export.path[1] \in lost)
        BY <2>2, <4>1 DEF Browsing
      <4>3. kept = export
        BY <4>2 DEF KeptExport
      <4> QED  BY <4>3
    <3>2. CASE Last(stack).kind \notin RbPlaces
      BY <3>2 DEF FromExport
    <3> QED  BY <3>1, <3>2
  <2>5. FromExport(Last(stack), kept) \subseteq Mounted \cup Mounted
    BY <1>3, ExportStick
  <2>6. rows \in Seq(GoodRows(FromExport(Last(stack), kept)))
    BY <1>6, <2>3, <2>4 DEF BrowserInv, Shown
  <2>7. rows \in Seq(GoodRows(Mounted \cup Mounted))
    <3> DEFINE F == FromExport(Last(stack), kept)
    <3>1. GoodRows(F) \subseteq GoodRows(Mounted \cup Mounted)
      BY <2>5, OnMore
    <3> HIDE DEF F
    <3> QED  BY <2>6, <3>1, SeqMonotonic DEF F
  <2>8. stack \in Stacks(Mounted \cup Mounted)
    BY <1>4, <2>3
  <2> HIDE DEF kept
  <2> QED  BY <1>1, <1>2, <1>3, <1>6, <2>1, <2>3, <2>6, <2>7, <2>8 DEF BrowserInv, Shown, Stacks, GoodExport
<1> QED  BY <1>5, <1>6

\* A relaunch begins where the first launch did, with the sticks there are.
LEMMA RelaunchShows == BrowserInv /\ Relaunch => BrowserInv'
<1> SUFFICES ASSUME BrowserInv, Relaunch PROVE BrowserInv'
  OBVIOUS
<1>1. /\ media' = Mounted /\ inserted' = inserted /\ inserts' = inserts /\ Mounted' = Mounted
      /\ Mounted \in SUBSET StickSet /\ Show(<<Fs(Home)>>, Mounted, NoExport, 1)
      /\ inserted \in [StickSet -> Nat]
  BY NamesApart DEF Relaunch, Mounted, BrowserInv
<1>2. GoodExport(NoExport, Mounted)
  <2>1. <<>> \in Paths
    BY DEF Paths
  <2> QED  BY <2>1 DEF GoodExport, NoExport, StickOf
<1>3. Mounted \subseteq Mounted \cup Mounted /\ <<Fs(Home)>> \in Stacks(Mounted \cup Mounted)
  BY FoldersGood
<1>4. Shown(stack', rows', export', Mounted)
  BY <1>1, <1>2, <1>3, ShowShows DEF Stacks
<1> QED  BY <1>1, <1>4 DEF BrowserInv, Shown, GoodExport

\* A stick goes in or is pulled.  Of a stick no scan has missed yet, none takes the place.
LEMMA StickShows ==
  ASSUME FastSwap = FALSE
  PROVE  BrowserInv /\ (InsertStick \/ PullStick) => BrowserInv'
<1> SUFFICES ASSUME BrowserInv, InsertStick \/ PullStick PROVE BrowserInv'
  OBVIOUS
<1>1. UNCHANGED <<stack, rows, export, media>>
  BY DEF InsertStick, PullStick
<1>2. inserted \in [StickSet -> Nat] /\ inserts \in Nat /\ GoodExport(export, media)
  BY DEF BrowserInv, Shown
<1>3. /\ inserts' \in Nat /\ inserted' \in [StickSet -> Nat]
      /\ media \cup Mounted \subseteq media \cup Mounted'
      /\ GoodExport(export, media)'
  <2>1. CASE InsertStick
    <3>1. PICK s \in StickSet \ Mounted :
            s \notin media /\ inserted' = [inserted EXCEPT ![s] = inserts + 1] /\ inserts' = inserts + 1
      BY <2>1 DEF InsertStick
    <3>2. Mounted' = Mounted \cup {s}
      BY <1>2, <3>1 DEF Mounted
    <3>3. \A t \in Mounted : inserted'[t] = inserted[t]
      BY <1>2, <3>1 DEF Mounted
    <3> QED  BY <1>1, <1>2, <3>1, <3>2, <3>3 DEF GoodExport
  <2>2. CASE PullStick
    <3>1. PICK s \in Mounted :
            s \in media /\ inserted' = [inserted EXCEPT ![s] = 0] /\ inserts' = inserts
      BY <2>2 DEF PullStick
    <3>2. Mounted' = Mounted \ {s} /\ s \in StickSet
      BY <1>2, <3>1 DEF Mounted
    <3>3. \A t \in Mounted' : inserted'[t] = inserted[t]
      BY <1>2, <3>1, <3>2 DEF Mounted
    <3> QED  BY <1>1, <1>2, <3>1, <3>2, <3>3 DEF GoodExport
  <2> QED  BY <2>1, <2>2
<1>4. /\ GoodPlaces(media \cup Mounted) \subseteq GoodPlaces(media \cup Mounted')
      /\ GoodRows(media \cup Mounted) \subseteq GoodRows(media \cup Mounted')
  BY <1>3, OnMore
<1>5. stack \in Seq(GoodPlaces(media \cup Mounted')) /\ rows \in Seq(GoodRows(media \cup Mounted'))
  BY <1>4, SeqMonotonic DEF BrowserInv, Shown
<1> QED  BY <1>1, <1>3, <1>5 DEF BrowserInv, Shown, FromExport, StickOf

\* The first folder, with no stick in.
LEMMA BrowserStart == BrowserInit => BrowserInv
<1> SUFFICES ASSUME BrowserInit PROVE BrowserInv
  OBVIOUS
<1>1. /\ inserted \in [StickSet -> Nat] /\ inserts = 0 /\ media = {} /\ Mounted = {}
      /\ stack = <<Fs(Home)>> /\ export = ExportAt(Fs(Home), NoExport)
      /\ rows = RowsOf(stack, {}, export, TRUE)
  BY DEF BrowserInit, Mounted
<1>2. GoodExport(export, media)
  <2>1. <<>> \in Paths
    BY DEF Paths
  <2>2. GoodExport(NoExport, media)
    BY <2>1 DEF GoodExport, NoExport, StickOf
  <2>3. Fs(Home) \in [kind : Kinds, path : Paths]
    BY FoldersGood DEF GoodPlaces
  <2> QED  BY <1>1, <2>2, <2>3, ExportAtGood
<1>3. <<Fs(Home)>> \in Stacks(media \cup Mounted)
  BY FoldersGood
<1>4. Last(stack) = Fs(Home) /\ Last(stack).kind = "fs" /\ Last(stack).path = Home /\ Home \in Paths
  <2>1. Fs(Home) \in [kind : Kinds, path : Paths]
    BY FoldersGood DEF GoodPlaces
  <2> QED  BY <1>1, <2>1 DEF Last, Fs
<1>5. rows = FsRows(Home, Len(stack), {}, export)
  <2>1. RowsOf(stack, {}, export, TRUE) = FsRows(Last(stack).path, Len(stack), {}, export)
    BY <1>4 DEF RowsOf, RbPlaces
  <2> QED  BY <1>1, <1>4, <2>1
<1>6. rows \in Seq(GoodRows(media \cup Mounted))
  <2>1. Mounted \subseteq media \cup Mounted /\ {} \subseteq media \cup Mounted
    OBVIOUS
  <2> QED  BY <1>4, <1>5, <2>1, FsRowsGood
<1> QED  BY <1>1, <1>2, <1>3, <1>4, <1>6 DEF BrowserInv, Shown, Stacks

\* Once the scan has seen the sticks as they are, nothing of one that is gone is shown,
\* whichever sticks there are and however they come and go, unless one is swapped between
\* two scans (browser.rs, poll_media; media.rs, scan).
THEOREM NothingOfTheGone ==
  ASSUME FastSwap = FALSE
  PROVE  BrowserSpec => []NothingOfAGoneStick
<1>1. BrowserInv /\ [BrowserNext]_browserVars => BrowserInv'
  <2> SUFFICES ASSUME BrowserInv, [BrowserNext]_browserVars PROVE BrowserInv'
    OBVIOUS
  <2>1. CASE \/ MoveSelection \/ Toggle \/ RemoveSelected \/ MoveTag \/ UNCHANGED browserVars
    BY <2>1, BrowserRests DEF MoveSelection, Toggle, RemoveSelected, MoveTag, Keyed, Tagged, browserVars
  <2>2. CASE Descend \/ Connect \/ Back
    BY <2>2, DescendShows, ConnectShows, BackShows
  <2>3. CASE GoLink \/ GoRoot \/ Reopen
    BY <2>3, RootShows
  <2>4. CASE PollMedia \/ Relaunch
    BY <2>4, ScanShows, RelaunchShows
  <2>5. CASE InsertStick \/ PullStick
    BY <2>5, StickShows
  <2> QED  BY <2>1, <2>2, <2>3, <2>4, <2>5 DEF BrowserNext
<1>2. BrowserInv => NothingOfAGoneStick
  <2> SUFFICES ASSUME BrowserInv, media = Mounted PROVE NothingOfAGoneStick
    BY DEF NothingOfAGoneStick
  <2>1. ASSUME NEW i \in DOMAIN stack PROVE StickOf(stack[i].path) \subseteq Mounted
    <3>1. stack \in Seq(GoodPlaces(media \cup Mounted)) /\ i \in 1 .. Len(stack)
      BY DEF BrowserInv, Shown
    <3>2. stack[i] \in GoodPlaces(media \cup Mounted)
      BY <3>1, ElementOfSeq
    <3> QED  BY <3>2 DEF GoodPlaces
  <2>2. ASSUME NEW i \in DOMAIN rows PROVE StickOf(rows[i].to.path) \subseteq Mounted
    <3>1. rows \in Seq(GoodRows(media \cup Mounted)) /\ i \in 1 .. Len(rows)
      BY DEF BrowserInv, Shown
    <3>2. rows[i] \in GoodRows(media \cup Mounted)
      BY <3>1, ElementOfSeq
    <3> QED  BY <3>2 DEF GoodRows
  <2>3. ASSUME export.of = "local" PROVE export.insertion = Insertion(export.path)
    <3>1. /\ export.path \in Paths /\ Len(export.path) = 1
          /\ \/ export.path[1] \notin StickSet /\ export.insertion = 0
             \/ export.path[1] \in Mounted /\ export.insertion = inserted[export.path[1]]
      BY <2>3 DEF BrowserInv, Shown, GoodExport
    <3>2. export.path # <<>>
      <4>1. Len(export.path) # Len(<<>>)
        BY <3>1
      <4> QED  BY <4>1
    <3> QED  BY <3>1, <3>2, NamesApart DEF Insertion
  <2> QED  BY <2>1, <2>2, <2>3 DEF NothingOfAGoneStick
<1> QED  BY <1>1, <1>2, BrowserStart, PTL DEF BrowserSpec
=============================================================================
