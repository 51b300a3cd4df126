----------------------------- MODULE Deck_proof -----------------------------
(***************************************************************************)
(* What DeckApp's handlers keep true for every track, grid and panel: the  *)
(* types, the honesty of `cued`, the return of a preview, the hold of a    *)
(* running loop, and where a loop left with SLIP engaged lands.  Each      *)
(* safety theorem takes as hypothesis that the panel is without the        *)
(* controls whose handlers do otherwise.                                   *)
(***************************************************************************)
EXTENDS Deck, TLAPS

USE NoneAssumption, TrackAssumption, LongestAssumption, BeatAssumption
    DEF NoneAssumption, TrackAssumption, LongestAssumption, BeatAssumption

\* The loop fields of DeckAudio, and slip_anchor: what the drive is made of.
LoopState == [active : BOOLEAN, start : Nat, end : Nat, beats : Nat]
Anchor == [at : Nat, consumed : Nat]
DriveState(n) == [pos : 0 .. n, loop : LoopState, anchor : Anchor \cup {None}]

\* A quotient by a positive number is a natural number; so is a product.
\* Stated once, because the grid's arithmetic is nonlinear.
LEMMA Quotient ==
  ASSUME NEW a \in Nat, NEW b \in Nat, b > 0
  PROVE  a \div b \in Nat
  OBVIOUS

\* A product of natural numbers is one.
LEMMA Product ==
  ASSUME NEW a \in Nat, NEW b \in Nat
  PROVE  a * b \in Nat
  OBVIOUS

\* Some track is the longest, so the bound on what a shadow consumes is a number.
LEMMA MaxLengthIsNat == track \in Tracks => MaxLength \in Nat
<1> SUFFICES ASSUME track \in Tracks PROVE MaxLength \in Nat
  OBVIOUS
<1>1. PICK t \in Tracks : \A u \in Tracks : Length[u] <= Length[t]
  OBVIOUS
<1>2. \E m \in {Length[u] : u \in Tracks} : \A u \in Tracks : Length[u] <= m
  BY <1>1
<1>3. MaxLength \in {Length[u] : u \in Tracks}
  BY <1>2 DEF MaxLength
<1> QED
  BY <1>3

\* The clamp of seek_to lands on the track, and leaves a target on it alone.
LEMMA AtMostIsBoth ==
  ASSUME NEW a \in Nat, NEW b \in Nat
  PROVE  AtMost(a, b) \in 0 .. b /\ AtMost(a, b) \in Nat /\ (a <= b => AtMost(a, b) = a)
  BY DEF AtMost

\* seek_to lands on the clamped target and leaves a well-formed loop and anchor.
LEMMA SeekKeepsDrive ==
  ASSUME NEW n \in Nat, NEW m \in Nat, NEW d \in DriveState(m), NEW target \in Nat
  PROVE  /\ SeekWithin(d, target, n) \in DriveState(n)
         /\ SeekWithin(d, target, n).pos = AtMost(target, n)
<1> DEFINE p == AtMost(target, n)
           stays == d.loop.active /\ ~(d.loop.active /\ (p < d.loop.start \/ p >= d.loop.end))
<1>1. p \in 0 .. n
  BY AtMostIsBoth
<1>2. d.loop \in LoopState
  BY DEF DriveState
<1>3. [d.loop EXCEPT !.active = stays] \in LoopState
  <2>1. CASE stays
    BY <1>2, <2>1 DEF LoopState
  <2>2. CASE ~stays
    BY <1>2, <2>2 DEF LoopState
  <2> QED
    BY <2>1, <2>2
<1>4. SeekWithin(d, target, n) =
       [pos |-> p, anchor |-> None, loop |-> [d.loop EXCEPT !.active = stays]]
  BY Zenon DEF SeekWithin
<1> HIDE DEF p, stays
<1>5. [pos |-> p, anchor |-> None, loop |-> [d.loop EXCEPT !.active = stays]] \in DriveState(n)
  BY <1>1, <1>3 DEF DriveState
<1>6. SeekWithin(d, target, n).pos = p
  BY <1>4
<1> QED
  BY <1>4, <1>5, <1>6 DEF p

\* quantized returns a position, on a track with a grid or without.
LEMMA QuantizedIsNat ==
  ASSUME TypeOK
  PROVE  Quantized(pos) \in Nat
<1>0. pos \in Nat /\ period \in Nat /\ len \in Nat
  BY DEF TypeOK, len, period
<1>1. CASE quantize /\ period > 0
  <2>1. 2 * period \in Nat /\ 2 * period > 0
    BY <1>0, <1>1
  <2>2. 2 * pos + period \in Nat
    BY <1>0
  <2>3. (2 * pos + period) \div (2 * period) \in Nat
    BY <2>1, <2>2, Quotient
  <2>4. ((2 * pos + period) \div (2 * period)) * period \in Nat
    BY <2>3, <1>0, Product
  <2> QED
    BY <2>4, <1>1 DEF Quantized
<1>2. CASE ~(quantize /\ period > 0)
  BY <1>0, <1>2 DEF Quantized
<1> QED
  BY <1>1, <1>2

-----------------------------------------------------------------------------
(* What each way of moving the playhead does.                               *)

\* TypeOK, of the variables a drive sets.
DriveOK ==
  /\ pos \in 0 .. len /\ loop \in LoopState /\ slip_anchor \in Anchor \cup {None}
  /\ unlooped \in Nat

\* The loaded track has a length and a beat period.
LEMMA LenIsNat == track \in Tracks => len \in Nat /\ period \in Nat
  BY DEF len, period

\* What the deck's variables hold is a drive of the loaded track.
LEMMA HereIsDrive ==
  ASSUME TypeOK
  PROVE  Here \in DriveState(len) /\ Here.pos = pos /\ len \in Nat /\ pos \in Nat
<1>1. /\ track \in Tracks /\ pos \in 0 .. len /\ loop \in LoopState
      /\ slip_anchor \in Anchor \cup {None}
  BY DEF TypeOK, LoopState, Anchor
<1>2. len \in Nat
  BY <1>1, LenIsNat
<1> QED
  BY <1>1, <1>2 DEF Here, DriveState

\* A step that sets a well-formed drive keeps the drive's types.
LEMMA DriveDoes ==
  ASSUME TypeOK, NEW d \in DriveState(len), Drive(d), track' = track
  PROVE  DriveOK' /\ pos' = d.pos
<1>1. unlooped \in Nat /\ pos \in Nat /\ len \in Nat /\ d.pos \in 0 .. len
  BY HereIsDrive DEF TypeOK, DriveState
<1>2. unlooped' \in Nat
  BY <1>1 DEF Drive
<1>3. len' = len
  BY DEF len
<1> QED
  BY <1>1, <1>2, <1>3 DEF Drive, DriveOK, DriveState

\* A step that only seeks lands on the clamped target.
LEMMA SeekDoes ==
  ASSUME TypeOK, NEW p \in Nat, Drive(SeekTo(Here, p)), track' = track
  PROVE  DriveOK' /\ pos' = AtMost(p, len)
<1>1. Here \in DriveState(len) /\ len \in Nat
  BY HereIsDrive
<1>2. SeekTo(Here, p) \in DriveState(len) /\ SeekTo(Here, p).pos = AtMost(p, len)
  BY <1>1, SeekKeepsDrive DEF SeekTo
<1> QED
  BY <1>2, DriveDoes

\* A step that sets the drive it found leaves the playhead alone.
LEMMA StayDoes ==
  ASSUME TypeOK, Drive(Here), track' = track
  PROVE  DriveOK' /\ pos' = pos
  BY HereIsDrive, DriveDoes

\* apply_transport of a pause with a seek.
LEMMA CarryPauseAt ==
  ASSUME TypeOK, NEW t, NEW p \in Nat, Carry(Result(t, PauseAt(p))), track' = track
  PROVE  tr' = t /\ playing' = FALSE /\ pos' = AtMost(p, len) /\ DriveOK'
<1>1. tr' = t /\ playing' = FALSE
  BY DEF Carry, Result, PauseAt
<1>2. Drive(SeekTo(Here, p))
  BY DEF Carry, Result, PauseAt, Landing
<1> QED
  BY <1>1, <1>2, SeekDoes

\* apply_transport of a seek that plays.
LEMMA CarryPlayFrom ==
  ASSUME TypeOK, NEW t, NEW p \in Nat, Carry(Result(t, PlayFrom(p))), track' = track
  PROVE  tr' = t /\ playing' = TRUE /\ pos' = AtMost(p, len) /\ DriveOK'
<1>1. tr' = t /\ playing' = TRUE
  BY DEF Carry, Result, PlayFrom
<1>2. Drive(SeekTo(Here, p))
  BY DEF Carry, Result, PlayFrom, Landing
<1> QED
  BY <1>1, <1>2, SeekDoes

\* apply_transport of play or pause in place.
LEMMA CarrySetPlaying ==
  ASSUME TypeOK, NEW t, NEW on \in BOOLEAN, Carry(Result(t, SetPlaying(on))), track' = track
  PROVE  tr' = t /\ playing' = on /\ pos' = pos /\ DriveOK'
<1>1. tr' = t /\ playing' = on
  BY DEF Carry, Result, SetPlaying
<1>2. Drive(Here)
  BY DEF Carry, Result, SetPlaying, Landing
<1> QED
  BY <1>1, <1>2, StayDoes

\* apply_transport of an outcome that asks for nothing.
LEMMA CarryLeaveAlone ==
  ASSUME TypeOK, NEW t, Carry(Result(t, LeaveAlone)), track' = track
  PROVE  tr' = t /\ playing' = playing /\ pos' = pos /\ DriveOK'
<1>1. tr' = t /\ playing' = playing
  BY DEF Carry, Result, LeaveAlone
<1>2. Drive(Here)
  BY DEF Carry, Result, LeaveAlone, Landing
<1> QED
  BY <1>1, <1>2, StayDoes

\* PLAY, and every lift of a held control, ends the preview and plays on in place.
LEMMA LatchDoes ==
  ASSUME TypeOK, Carry(Latch(tr)), track' = track
  PROVE  /\ tr' = [tr EXCEPT !.preview = FALSE, !.cued = FALSE] /\ playing' = TRUE
         /\ pos' = pos /\ DriveOK'
  BY CarrySetPlaying DEF Latch

\* A release of CUE stops a preview on the cue, and is nothing otherwise.
LEMMA CueUpDoes ==
  ASSUME TypeOK, Carry(CueUp(tr)), track' = track
  PROVE  /\ tr.preview => /\ tr' = [tr EXCEPT !.preview = FALSE, !.cued = TRUE]
                          /\ playing' = FALSE /\ pos' = AtMost(tr.cue_point, len)
         /\ ~tr.preview => tr' = tr /\ playing' = playing /\ pos' = pos
         /\ DriveOK'
<1>1. CASE tr.preview
  <2>1. Carry(Result([tr EXCEPT !.preview = FALSE, !.cued = TRUE], PauseAt(tr.cue_point)))
    BY <1>1 DEF CueUp
  <2>2. tr.cue_point \in Nat
    BY DEF TypeOK, TransportState
  <2> QED
    BY <1>1, <2>1, <2>2, CarryPauseAt
<1>2. CASE ~tr.preview
  <2>1. Carry(Result(tr, LeaveAlone))
    BY <1>2 DEF CueUp
  <2> QED
    BY <1>2, <2>1, CarryLeaveAlone
<1> QED
  BY <1>1, <1>2

\* A press of CUE returns to the cue, previews it, or sets one where the deck stands.
LEMMA CueDownDoes ==
  ASSUME TypeOK, NEW audible \in Nat, Carry(CueDown(tr, playing, audible)), track' = track
  PROVE  /\ playing => /\ tr' = [tr EXCEPT !.cued = TRUE]
                       /\ playing' = FALSE /\ pos' = AtMost(tr.cue_point, len)
         /\ ~playing /\ tr.cued => tr' = [tr EXCEPT !.preview = TRUE] /\ playing' = TRUE
         /\ ~playing /\ ~tr.cued =>
              /\ tr' = [cue_point |-> audible, cued |-> TRUE, preview |-> TRUE]
              /\ playing' = TRUE
         /\ DriveOK'
<1>0. tr.cue_point \in Nat
  BY DEF TypeOK, TransportState
<1>1. CASE playing
  <2>1. Carry(Result([tr EXCEPT !.cued = TRUE], PauseAt(tr.cue_point)))
    BY <1>1 DEF CueDown
  <2> QED
    BY <1>0, <1>1, <2>1, CarryPauseAt
<1>2. CASE ~playing /\ tr.cued
  <2>1. Carry(Result([tr EXCEPT !.preview = TRUE], PlayFrom(tr.cue_point)))
    BY <1>2 DEF CueDown
  <2> QED
    BY <1>0, <1>2, <2>1, CarryPlayFrom
<1>3. CASE ~playing /\ ~tr.cued
  <2>1. Carry(Result([cue_point |-> audible, cued |-> TRUE, preview |-> TRUE], SetPlaying(TRUE)))
    BY <1>3 DEF CueDown
  <2> QED
    BY <1>3, <2>1, CarrySetPlaying
<1> QED
  BY <1>1, <1>2, <1>3

\* PLAY/PAUSE latches a preview, pauses playback, or plays; it never seeks.
LEMMA PlayOrPauseDoes ==
  ASSUME TypeOK, Carry(PlayOrPause(tr, playing)), track' = track
  PROVE  /\ pos' = pos /\ DriveOK'
         /\ tr.preview => /\ tr' = [tr EXCEPT !.preview = FALSE, !.cued = FALSE]
                          /\ playing' = TRUE
         /\ ~tr.preview /\ playing => tr' = tr /\ playing' = FALSE
         /\ ~tr.preview /\ ~playing => tr' = [tr EXCEPT !.cued = FALSE] /\ playing' = TRUE
<1>1. CASE tr.preview
  <2>1. Carry(Latch(tr))
    BY <1>1 DEF PlayOrPause
  <2> QED
    BY <1>1, <2>1, LatchDoes
<1>2. CASE ~tr.preview /\ playing
  <2>1. Carry(Result(tr, SetPlaying(FALSE)))
    BY <1>2 DEF PlayOrPause
  <2> QED
    BY <1>2, <2>1, CarrySetPlaying
<1>3. CASE ~tr.preview /\ ~playing
  <2>1. Carry(Result([tr EXCEPT !.cued = FALSE], SetPlaying(TRUE)))
    BY <1>3 DEF PlayOrPause
  <2> QED
    BY <1>3, <2>1, CarrySetPlaying
<1> QED
  BY <1>1, <1>2, <1>3

-----------------------------------------------------------------------------
(* Loops, the shadow and the grid stay well-formed.                         *)

\* slip_begin anchors the shadow where the playhead is.
LEMMA SlipBeginTyped ==
  ASSUME NEW n \in Nat, NEW d \in DriveState(n)
  PROVE  SlipBegin(d) \in DriveState(n) /\ SlipBegin(d).pos = d.pos
  BY DEF SlipBegin, AnchorAt, DriveState, Anchor

\* set_loop arms a loop, or refuses, where the playhead is.
LEMMA SetLoopTyped ==
  ASSUME TypeOK, NEW d \in DriveState(len), NEW start \in Nat, NEW end \in Nat,
         NEW beats \in Nat
  PROVE  /\ SetLoop(d, start, end, beats) \in DriveState(len)
         /\ SetLoop(d, start, end, beats).pos = d.pos
<1> DEFINE e == AtMost(end, len)
           armed == [d EXCEPT !.loop = [active |-> TRUE, start |-> start, end |-> e, beats |-> beats]]
<1>0. len \in Nat
  BY HereIsDrive
<1>1. e \in Nat
  BY <1>0, AtMostIsBoth
<1>2. [active |-> TRUE, start |-> start, end |-> e, beats |-> beats] \in LoopState
  BY <1>1 DEF LoopState
<1>3. armed \in DriveState(len) /\ armed.pos = d.pos
  BY <1>2 DEF DriveState
<1>4. SlipBegin(armed) \in DriveState(len) /\ SlipBegin(armed).pos = d.pos
  BY <1>0, <1>3, SlipBeginTyped
<1>5. SetLoop(d, start, end, beats) \in {d, SlipBegin(armed), armed}
  BY DEF SetLoop
<1> QED
  BY <1>3, <1>4, <1>5

\* exit_loop keeps the bounds for RELOOP.
LEMMA ExitLoopTyped ==
  ASSUME NEW n \in Nat, NEW d \in DriveState(n)
  PROVE  ExitLoop(d) \in DriveState(n) /\ ExitLoop(d).pos = d.pos
  BY DEF ExitLoop, DriveState, LoopState

\* exit_loop_slip lands on the track: the shadow is clamped.
LEMMA ExitLoopSlipTyped ==
  ASSUME TypeOK, NEW d \in DriveState(len)
  PROVE  ExitLoopSlip(d) \in DriveState(len)
<1>1. len \in Nat
  BY HereIsDrive
<1>2. ExitLoop(d) \in DriveState(len)
  BY <1>1, ExitLoopTyped
<1>3. CASE d.anchor = None
  BY <1>2, <1>3 DEF ExitLoopSlip
<1>4. CASE d.anchor # None
  <2>1. d.anchor \in Anchor
    BY <1>4 DEF DriveState
  <2>2. d.anchor.at + d.anchor.consumed \in Nat
    BY <2>1 DEF Anchor
  <2>3. Shadow(d.anchor) \in Nat
    BY <1>1, <2>2, AtMostIsBoth, Zenon DEF Shadow
  <2>4. [ExitLoop(d) EXCEPT !.anchor = None] \in DriveState(len)
    BY <1>2 DEF DriveState
  <2> QED
    BY <1>1, <1>4, <2>3, <2>4, SeekKeepsDrive DEF ExitLoopSlip, SeekTo
<1> QED
  BY <1>3, <1>4

\* A beat jump's target is a position: the way back stops at the start.
LEMMA JumpedIsNat ==
  ASSUME TypeOK, NEW jump \in Jumps
  PROVE  Jumped(pos, jump) \in Nat
<1>1. pos \in Nat /\ len \in Nat /\ period \in Nat
  BY HereIsDrive, LenIsNat DEF TypeOK
<1>2. jump[1] \in Nat /\ jump[2] \in Nat
  OBVIOUS
<1>3. jump[1] * period \in Nat /\ jump[2] * period \in Nat
  BY <1>1, <1>2, Product
<1> DEFINE back == jump[1] * period
           from == IF pos >= back THEN pos - back ELSE 0
<1>4. from \in Nat
  BY <1>1, <1>3
<1>5. from + jump[2] * period \in Nat
  BY <1>3, <1>4
<1>6. AtMost(from + jump[2] * period, len) \in Nat
  BY <1>1, <1>5, AtMostIsBoth
<1> QED
  BY <1>6, Zenon DEF Jumped

\* beat_floor returns a position.
LEMMA BeatFloorIsNat ==
  ASSUME TypeOK
  PROVE  BeatFloor(pos) \in Nat
<1>1. pos \in Nat /\ period \in Nat
  BY HereIsDrive, LenIsNat DEF TypeOK
<1>2. CASE period > 0
  BY <1>1, <1>2, Quotient, Product DEF BeatFloor
<1>3. CASE ~(period > 0)
  BY <1>1, <1>3 DEF BeatFloor
<1> QED
  BY <1>2, <1>3

-----------------------------------------------------------------------------
(* The type invariant.                                                      *)

\* TypeOK, of the transport and the CUE key.
KeysOK ==
  playing \in BOOLEAN /\ tr \in TransportState /\ cue_key \in {"up", "preview", "locked"}

\* TypeOK, of what the drive and the transport leave alone.
SettingsOK ==
  /\ track \in Tracks
  /\ jog_vinyl \in BOOLEAN /\ quantize \in BOOLEAN /\ slip \in BOOLEAN
  /\ jog_hold_resume \in BOOLEAN /\ wave_hold_resume \in BOOLEAN
  /\ memory_cues \subseteq Nat
  /\ hot_cues \in [Slots -> Nat \cup {None}]

\* The three parts are the type invariant.
LEMMA TypeParts == TypeOK <=> KeysOK /\ SettingsOK /\ DriveOK
  BY DEF TypeOK, KeysOK, SettingsOK, DriveOK, LoopState, Anchor

\* A step that sets no part of the drive keeps its types.
LEMMA DriveStays ==
  ASSUME TypeOK, UNCHANGED <<track, drive>>
  PROVE  DriveOK'
  BY TypeParts DEF DriveOK, drive, len

\* A step that sets no setting, point or hold keeps their types.
LEMMA SettingsStay ==
  ASSUME TypeOK, UNCHANGED <<track, holds, points, modes, slip>>
  PROVE  SettingsOK'
  BY TypeParts DEF SettingsOK, holds, points, modes

\* A step that sets nothing of the transport keeps its types.
LEMMA KeysStay ==
  ASSUME TypeOK, UNCHANGED transport
  PROVE  KeysOK'
  BY TypeParts DEF KeysOK, transport

\* A latch keeps the transport's types.
LEMMA LatchIsTyped ==
  ASSUME TypeOK, tr' = [tr EXCEPT !.preview = FALSE, !.cued = FALSE], playing' = TRUE,
         cue_key' \in {cue_key, Locked}
  PROVE  KeysOK'
  BY TypeParts DEF KeysOK, TransportState, Locked

\* DeckApp::new leaves every variable well-typed.
LEMMA TypeInit == Init => TypeOK
<1> SUFFICES ASSUME Init PROVE TypeOK
  OBVIOUS
<1>1. track \in Tracks /\ len \in Nat
  BY LenIsNat DEF Init
<1>2. PICK cue \in LoadCues[track] : pos = AtMost(cue, len) /\ tr = NewTransport(cue)
  BY Zenon DEF Init
<1>3. cue \in Nat
  BY <1>1
<1>4. pos \in 0 .. len /\ pos \in Nat
  BY <1>1, <1>2, <1>3, AtMostIsBoth
<1>5. KeysOK
  BY <1>2, <1>3 DEF Init, KeysOK, NewTransport, TransportState
<1>6. SettingsOK
  BY <1>1 DEF Init, SettingsOK
<1>7. DriveOK
  BY <1>4 DEF Init, DriveOK, LoopState
<1> QED
  BY <1>5, <1>6, <1>7, TypeParts

\* Every event handler keeps every variable well-typed.
LEMMA TypeStep == TypeOK /\ [Next]_vars => TypeOK'
<1> SUFFICES ASSUME TypeOK, [Next]_vars PROVE TypeOK'
  OBVIOUS
<1> SUFFICES KeysOK' /\ SettingsOK' /\ DriveOK'
  BY TypeParts, PTL
<1>1. CASE Play
  BY <1>1, LatchDoes, LatchIsTyped, SettingsStay DEF Play, LockInPlay
<1>2. CASE Pause
  <2>1. KeysOK'
    BY <1>2, TypeParts DEF Pause, KeysOK
  <2> QED
    BY <1>2, <2>1, DriveStays, SettingsStay DEF Pause
<1>3. CASE PlayPause
  <2>1. KeysOK'
    BY <1>3, TypeParts, PlayOrPauseDoes DEF PlayPause, KeysOK, TransportState, Locked
  <2> QED
    BY <1>3, <2>1, PlayOrPauseDoes, SettingsStay DEF PlayPause
<1>4. CASE CuePress
  <2>1. Quantized(pos) \in Nat
    BY QuantizedIsNat
  <2>2. Carry(CueDown(tr, playing, Quantized(pos))) /\ track' = track
    BY <1>4 DEF CuePress
  <2>3. cue_key' \in {"up", "preview", "locked"}
    BY <1>4 DEF CuePress
  <2>4. tr \in TransportState /\ playing \in BOOLEAN
    BY TypeParts DEF KeysOK
  <2>5. tr' \in TransportState /\ playing' \in BOOLEAN
    <3>1. CASE playing
      <4>1. tr' = [tr EXCEPT !.cued = TRUE] /\ playing' = FALSE
        BY <2>1, <2>2, <3>1, CueDownDoes
      <4> QED
        BY <2>4, <4>1 DEF TransportState
    <3>2. CASE ~playing /\ tr.cued
      <4>1. tr' = [tr EXCEPT !.preview = TRUE] /\ playing' = TRUE
        BY <2>1, <2>2, <3>2, CueDownDoes
      <4> QED
        BY <2>4, <4>1 DEF TransportState
    <3>3. CASE ~playing /\ ~tr.cued
      <4>1. /\ tr' = [cue_point |-> Quantized(pos), cued |-> TRUE, preview |-> TRUE]
            /\ playing' = TRUE
        BY <2>1, <2>2, <3>3, CueDownDoes
      <4> QED
        BY <2>1, <4>1 DEF TransportState
    <3> QED
      BY <3>1, <3>2, <3>3
  <2>6. DriveOK'
    BY <2>1, <2>2, CueDownDoes
  <2> QED
    BY <1>4, <2>3, <2>5, <2>6, SettingsStay DEF CuePress, KeysOK
<1>5. CASE CueRelease
  <2>1. KeysOK'
    BY <1>5, TypeParts, CueUpDoes DEF CueRelease, KeysOK, TransportState
  <2> QED
    BY <1>5, <2>1, CueUpDoes, SettingsStay DEF CueRelease
<1>6. CASE JogModeToggle
  <2>1. SettingsOK'
    BY <1>6, TypeParts DEF JogModeToggle, SettingsOK, holds, points
  <2> QED
    BY <1>6, <2>1, DriveStays, KeysStay DEF JogModeToggle
<1>7. CASE JogTouch
  <2>1. SettingsOK' /\ KeysOK'
    BY <1>7, TypeParts DEF JogTouch, SettingsOK, KeysOK, points, modes
  <2> QED
    BY <1>7, <2>1, DriveStays DEF JogTouch
<1>8. CASE JogLift
  <2>1. SettingsOK'
    BY <1>8, TypeParts DEF JogLift, SettingsOK, points, modes
  <2> QED
    BY <1>8, <2>1, LatchDoes, LatchIsTyped DEF JogLift
<1>9. CASE WaveTouch
  <2>1. SettingsOK' /\ KeysOK'
    BY <1>9, TypeParts DEF WaveTouch, SettingsOK, KeysOK, points, modes
  <2> QED
    BY <1>9, <2>1, DriveStays DEF WaveTouch
<1>10. CASE WaveLift
  <2>1. SettingsOK'
    BY <1>10, TypeParts DEF WaveLift, SettingsOK, points, modes
  <2> QED
    BY <1>10, <2>1, LatchDoes, LatchIsTyped DEF WaveLift
<1>11. ASSUME NEW target \in 0 .. len, Search(target)
       PROVE  KeysOK' /\ SettingsOK' /\ DriveOK'
  <2>1. target \in Nat
    BY HereIsDrive
  <2>2. KeysOK'
    BY <1>11, TypeParts DEF Search, Searched, KeysOK, TransportState
  <2> QED
    BY <1>11, <2>1, <2>2, SeekDoes, SettingsStay DEF Search
<1>12. CASE PhonePageFlip
  <2>1. SettingsOK'
    BY <1>12, TypeParts DEF PhonePageFlip, SettingsOK, points, modes
  <2>2. CASE jog_hold_resume \/ wave_hold_resume
    <3>1. Carry(Latch(tr)) /\ track' = track /\ cue_key' = "up"
      BY <1>12, <2>2 DEF PhonePageFlip
    <3>2. KeysOK'
      BY <3>1, LatchDoes, TypeParts DEF KeysOK, TransportState
    <3> QED
      BY <2>1, <3>1, <3>2, LatchDoes
  <2>3. CASE ~(jog_hold_resume \/ wave_hold_resume)
    <3>1. Carry(CueUp(tr)) /\ track' = track /\ cue_key' = "up"
      BY <1>12, <2>3 DEF PhonePageFlip
    <3>2. KeysOK'
      BY <3>1, CueUpDoes, TypeParts DEF KeysOK, TransportState
    <3> QED
      BY <2>1, <3>1, <3>2, CueUpDoes
  <2> QED
    BY <2>2, <2>3
<1>13. CASE MemoryCueSet \/ MemoryCueDelete
  <2>1. SettingsOK'
    BY <1>13, TypeParts
       DEF MemoryCueSet, MemoryCueDelete, SettingsOK, KeysOK, TransportState, holds, modes
  <2> QED
    BY <1>13, <2>1, DriveStays, KeysStay DEF MemoryCueSet, MemoryCueDelete
<1>14. CASE MemoryCueCall
  <2>1. PICK m \in NextPoint(pos) \cup PrevPoint(pos) :
          tr' = ArrivedAtCue([tr EXCEPT !.preview = FALSE], m) /\ Drive(SeekTo(Here, m))
    BY <1>14 DEF MemoryCueCall
  <2>2. m \in Nat
    BY TypeParts DEF SettingsOK, NextPoint, PrevPoint
  <2>3. KeysOK'
    BY <1>14, <2>1, <2>2, TypeParts
    DEF MemoryCueCall, ArrivedAtCue, KeysOK, TransportState, Locked
  <2> QED
    BY <1>14, <2>1, <2>2, <2>3, SeekDoes, SettingsStay DEF MemoryCueCall
<1>15. ASSUME NEW s \in Slots, HotCueSet(s) \/ HotCueDelete(s)
       PROVE  KeysOK' /\ SettingsOK' /\ DriveOK'
  <2>1. Quantized(pos) \in Nat
    BY QuantizedIsNat
  <2>2. hot_cues' \in [Slots -> Nat \cup {None}]
    BY <1>15, <2>1, TypeParts DEF HotCueSet, HotCueDelete, SettingsOK
  <2>3. SettingsOK'
    BY <1>15, <2>2, TypeParts DEF HotCueSet, HotCueDelete, SettingsOK, holds, modes
  <2> QED
    BY <1>15, <2>3, DriveStays, KeysStay DEF HotCueSet, HotCueDelete
<1>16. ASSUME NEW s \in Slots, HotCueTrigger(s) PROVE KeysOK' /\ SettingsOK' /\ DriveOK'
  <2>1. hot_cues[s] \in Nat
    BY <1>16, TypeParts DEF HotCueTrigger, SettingsOK
  <2>2. tr' = [tr EXCEPT !.preview = FALSE, !.cued = FALSE]
    BY <1>16 DEF HotCueTrigger, Latch, Result
  <2> QED
    BY <1>16, <2>1, <2>2, SeekDoes, LatchIsTyped, SettingsStay DEF HotCueTrigger
<1>17. ASSUME NEW jump \in Jumps, BeatJump(jump) PROVE KeysOK' /\ SettingsOK' /\ DriveOK'
  BY <1>17, JumpedIsNat, SeekDoes, KeysStay, SettingsStay DEF BeatJump
<1>18. ASSUME NEW beats \in LoopHalfBeats, BeatLoop(beats)
       PROVE  KeysOK' /\ SettingsOK' /\ DriveOK'
  <2> DEFINE start == IF loop.active THEN loop.start ELSE BeatFloor(pos)
             end == start + (beats * period) \div 2
  <2>1. Here \in DriveState(len)
    BY HereIsDrive
  <2>2. start \in Nat
    BY BeatFloorIsNat, TypeParts DEF DriveOK, LoopState
  <2>3. beats \in Nat /\ period \in Nat
    BY LenIsNat, TypeParts DEF SettingsOK
  <2>4. (beats * period) \div 2 \in Nat
    BY <2>3, Product, Quotient
  <2>5. end \in Nat
    BY <2>2, <2>4
  <2> HIDE DEF start, end
  <2>6. /\ ExitLoopSlip(Here) \in DriveState(len)
        /\ SetLoop(Here, start, end, beats) \in DriveState(len)
    BY <2>1, <2>2, <2>3, <2>5, ExitLoopSlipTyped, SetLoopTyped
  <2>7. Drive(ExitLoopSlip(Here)) \/ Drive(SetLoop(Here, start, end, beats))
    BY <1>18, Zenon DEF BeatLoop, start, end
  <2>8. track' = track
    BY <1>18 DEF BeatLoop
  <2>9. DriveOK'
    BY <2>6, <2>7, <2>8, DriveDoes
  <2> QED
    BY <1>18, <2>9, KeysStay, SettingsStay DEF BeatLoop
<1>19. CASE LoopIn
  <2> DEFINE d == [Here EXCEPT !.loop = [active |-> FALSE, start |-> Quantized(pos),
                                         end |-> Quantized(pos), beats |-> 0]]
  <2>1. [active |-> FALSE, start |-> Quantized(pos), end |-> Quantized(pos), beats |-> 0]
          \in LoopState
    BY QuantizedIsNat DEF LoopState
  <2>2. d \in DriveState(len)
    BY <2>1, HereIsDrive DEF DriveState
  <2>3. Drive(d) /\ track' = track
    BY <1>19 DEF LoopIn
  <2>4. DriveOK'
    BY <2>2, <2>3, DriveDoes
  <2> QED
    BY <1>19, <2>4, KeysStay, SettingsStay DEF LoopIn
<1>20. CASE LoopOut
  <2>1. loop.start \in Nat /\ Quantized(pos) \in Nat /\ Here \in DriveState(len)
    BY QuantizedIsNat, HereIsDrive, TypeParts DEF DriveOK, LoopState
  <2>2. SetLoop(Here, loop.start, Quantized(pos), 0) \in DriveState(len)
    BY <2>1, SetLoopTyped
  <2>3. DriveOK'
    BY <1>20, <2>2, DriveDoes DEF LoopOut
  <2> QED
    BY <1>20, <2>3, KeysStay, SettingsStay DEF LoopOut
<1>21. CASE Reloop
  <2> DEFINE again == SetLoop(SeekTo(Here, loop.start), loop.start, loop.end, loop.beats)
  <2>1. loop \in LoopState /\ Here \in DriveState(len) /\ len \in Nat /\ pos \in Nat
    BY HereIsDrive, TypeParts DEF DriveOK
  <2>2. loop.start \in Nat /\ loop.end \in Nat /\ loop.beats \in Nat
    BY <2>1 DEF LoopState
  <2>3. SeekTo(Here, loop.start) \in DriveState(len)
    BY <2>1, <2>2, SeekKeepsDrive DEF SeekTo
  <2>4. again \in DriveState(len)
    BY <2>2, <2>3, SetLoopTyped
  <2>5. [again EXCEPT !.anchor = AnchorAt(pos)] \in DriveState(len)
    BY <2>1, <2>4 DEF DriveState, AnchorAt, Anchor
  <2>6. ExitLoopSlip(Here) \in DriveState(len)
    BY <2>1, ExitLoopSlipTyped
  <2>7. \/ Drive(ExitLoopSlip(Here))
        \/ Drive([again EXCEPT !.anchor = AnchorAt(pos)])
        \/ Drive(again)
    BY <1>21, Zenon DEF Reloop
  <2>8. track' = track
    BY <1>21 DEF Reloop
  <2> HIDE DEF again
  <2>9. DriveOK'
    BY <2>4, <2>5, <2>6, <2>7, <2>8, DriveDoes
  <2> QED
    BY <1>21, <2>9, KeysStay, SettingsStay DEF Reloop
<1>22. CASE SlipToggle
  <2>1. Here \in DriveState(len) /\ len \in Nat
    BY HereIsDrive
  <2>2. [Here EXCEPT !.anchor = None] \in DriveState(len)
    BY <2>1 DEF DriveState
  <2>3. SlipBegin(Here) \in DriveState(len)
    BY <2>1, SlipBeginTyped
  <2>4. Drive([Here EXCEPT !.anchor = None]) \/ Drive(SlipBegin(Here)) \/ Drive(Here)
    BY <1>22, Zenon DEF SlipToggle
  <2>5. track' = track
    BY <1>22 DEF SlipToggle
  <2>6. DriveOK'
    BY <2>1, <2>2, <2>3, <2>4, <2>5, DriveDoes
  <2>7. SettingsOK'
    BY <1>22, TypeParts DEF SlipToggle, SettingsOK, holds, points, modes
  <2> QED
    BY <1>22, <2>6, <2>7, KeysStay DEF SlipToggle
<1>23. CASE QuantizeToggle
  <2>1. SettingsOK'
    BY <1>23, TypeParts DEF QuantizeToggle, SettingsOK, holds, points
  <2> QED
    BY <1>23, <2>1, DriveStays, KeysStay DEF QuantizeToggle
<1>24. CASE AutoCue
  <2>1. FirstSound[track] \in Nat
    BY TypeParts DEF SettingsOK
  <2>2. KeysOK'
    BY <1>24, <2>1, TypeParts DEF AutoCue, ArrivedAtCue, KeysOK, TransportState
  <2> QED
    BY <1>24, <2>1, <2>2, SeekDoes, SettingsStay DEF AutoCue
<1>25. ASSUME NEW t \in Tracks, NEW cue \in LoadCues[t], ApplyPrepared(t, cue)
       PROVE  KeysOK' /\ SettingsOK' /\ DriveOK'
  <2> DEFINE top == [Here EXCEPT !.pos = 0]
             d == IF cue > 0 THEN SeekWithin(top, cue, Length[t]) ELSE top
  <2>1. cue \in Nat /\ Length[t] \in Nat
    OBVIOUS
  <2>2. top \in DriveState(Length[t])
    BY <2>1, HereIsDrive DEF DriveState
  <2>3. d \in DriveState(Length[t])
    BY <2>1, <2>2, SeekKeepsDrive
  <2>4. /\ track' = t /\ pos' = d.pos /\ loop' = d.loop /\ slip_anchor' = d.anchor
        /\ unlooped' = d.pos
    BY <1>25 DEF ApplyPrepared
  <2>5. len' = Length[t]
    BY <2>4 DEF len
  <2> HIDE DEF d
  <2>6. d.pos \in 0 .. Length[t] /\ d.pos \in Nat
    BY <2>1, <2>3 DEF DriveState
  <2>7. DriveOK'
    BY <2>3, <2>4, <2>5, <2>6 DEF DriveOK, DriveState
  <2>8. KeysOK'
    BY <1>25, <2>1, TypeParts
    DEF ApplyPrepared, ArrivedAtCue, KeysOK, TransportState, Locked
  <2>9. SettingsOK'
    BY <1>25, TypeParts DEF ApplyPrepared, SettingsOK, holds, modes
  <2> QED
    BY <2>7, <2>8, <2>9
<1>26. CASE Advance
  <2>1. /\ pos \in Nat /\ len \in Nat /\ pos < len /\ loop \in LoopState /\ unlooped \in Nat
        /\ slip_anchor \in Anchor \cup {None} /\ MaxLength \in Nat
    BY <1>26, HereIsDrive, MaxLengthIsNat, TypeParts DEF Advance, DriveOK, SettingsOK
  <2>2. pos' \in 0 .. len /\ pos' \in Nat
    BY <1>26, <2>1 DEF Advance, Looping, LoopState
  <2>3. slip_anchor' \in Anchor \cup {None}
    <3>1. CASE slip_anchor = None
      BY <1>26, <3>1 DEF Advance
    <3>2. CASE slip_anchor # None
      <4>1. slip_anchor \in Anchor /\ slip_anchor.consumed + 1 \in Nat
        BY <2>1, <3>2 DEF Anchor
      <4>2. AtMost(slip_anchor.consumed + 1, MaxLength) \in Nat
        BY <2>1, <4>1, AtMostIsBoth
      <4>3. slip_anchor' =
              [slip_anchor EXCEPT !.consumed = AtMost(slip_anchor.consumed + 1, MaxLength)]
        BY <1>26, <3>2 DEF Advance
      <4> QED
        BY <4>1, <4>2, <4>3 DEF Anchor
    <3> QED
      BY <3>1, <3>2
  <2>4. unlooped' \in Nat
    <3>1. AtMost(unlooped + 1, len) \in Nat
      BY <2>1, AtMostIsBoth
    <3>2. unlooped' = pos' \/ unlooped' = AtMost(unlooped + 1, len)
      BY <1>26 DEF Advance
    <3> QED
      BY <2>2, <3>1, <3>2
  <2>5. len' = len /\ loop' = loop
    BY <1>26 DEF Advance, len
  <2>6. DriveOK'
    BY <2>1, <2>2, <2>3, <2>4, <2>5 DEF DriveOK
  <2> QED
    BY <1>26, <2>6, KeysStay, SettingsStay DEF Advance
<1>27. CASE EndOfTrack
  <2>1. KeysOK'
    BY <1>27, TypeParts DEF EndOfTrack, KeysOK
  <2> QED
    BY <1>27, <2>1, DriveStays, SettingsStay DEF EndOfTrack
<1>28. CASE UNCHANGED vars
  BY <1>28, DriveStays, KeysStay, SettingsStay DEF vars
<1> QED
  BY <1>1, <1>2, <1>3, <1>4, <1>5, <1>6, <1>7, <1>8, <1>9, <1>10, <1>11, <1>12, <1>13, <1>14,
     <1>15, <1>16, <1>17, <1>18, <1>19, <1>20, <1>21, <1>22, <1>23, <1>24, <1>25, <1>26, <1>27,
     <1>28
  DEF Next

\* Every variable of DeckApp keeps its type, on every track and panel: the playhead
\* never leaves the track, whatever is sought, jumped, looped or loaded.
THEOREM TypeCorrect == Spec => []TypeOK
<1>1. Init => TypeOK
  BY TypeInit
<1>2. TypeOK /\ [Next]_vars => TypeOK'
  BY TypeStep
<1> QED
  BY <1>1, <1>2, PTL DEF Spec

-----------------------------------------------------------------------------
(* `cued` is honest.                                                        *)

\* CuedIsHonest is not inductive: a pause keeps `cued`, so one has to know that a
\* deck that plays outside a preview is never cued.
CuedStandsStill == tr.cued /\ ~tr.preview => ~playing

\* The inductive form of CuedIsHonest.
Honest == CuedIsHonest /\ CuedStandsStill

\* A handler that clears `cued` owes the playhead nothing.
LEMMA NotCued == tr'.cued = FALSE => Honest'
  BY DEF Honest, CuedIsHonest, CuedStandsStill

\* Neither does one that begins a preview.
LEMMA Previewing == tr'.preview = TRUE => Honest'
  BY DEF Honest, CuedIsHonest, CuedStandsStill

\* A handler may leave `cued` set on a paused deck it has put on the cue.
LEMMA OnTheCue == playing' = FALSE /\ pos' = AtMost(tr'.cue_point, len') => Honest'
  BY DEF Honest, CuedIsHonest, CuedStandsStill

\* A handler that moves nothing, and at most pauses, keeps what was honest.
LEMMA StaysPut ==
  ASSUME Honest, UNCHANGED <<track, tr, pos>>, playing' = playing \/ playing' = FALSE
  PROVE  Honest'
  BY DEF Honest, CuedIsHonest, CuedStandsStill, len

\* A deck that plays on, its transport untouched, is not cued outside a preview.
LEMMA RunsOn ==
  ASSUME Honest, playing, UNCHANGED <<playing, tr>>
  PROVE  Honest'
  BY DEF Honest, CuedIsHonest, CuedStandsStill

\* A latch clears `cued`.
LEMMA LatchIsHonest ==
  ASSUME TypeOK, tr' = [tr EXCEPT !.preview = FALSE, !.cued = FALSE]
  PROVE  Honest'
  BY NotCued DEF TypeOK, TransportState

\* A release of CUE puts the deck on the cue it leaves it cued on.
LEMMA CueUpIsHonest ==
  ASSUME TypeOK, Honest, Carry(CueUp(tr)), track' = track
  PROVE  Honest'
<1>1. CASE tr.preview
  <2>1. /\ tr' = [tr EXCEPT !.preview = FALSE, !.cued = TRUE]
        /\ playing' = FALSE /\ pos' = AtMost(tr.cue_point, len)
    BY <1>1, CueUpDoes
  <2>2. tr'.cue_point = tr.cue_point /\ len' = len
    BY <2>1 DEF TypeOK, TransportState, len
  <2> QED
    BY <2>1, <2>2, OnTheCue
<1>2. CASE ~tr.preview
  BY <1>2, CueUpDoes, StaysPut
<1> QED
  BY <1>1, <1>2

\* No handler leaves `cued` set away from the cue, but the loop and beat jump ones.
LEMMA HonestStep ==
  ASSUME Panel \cap {"loop", "beatjump"} = {}, TypeOK, Honest, [Next]_vars
  PROVE  Honest'
<1>0. /\ tr \in TransportState /\ playing \in BOOLEAN /\ tr.cue_point \in Nat
      /\ "loop" \notin Panel /\ "beatjump" \notin Panel
  BY DEF TypeOK, TransportState
<1>1. CASE Play
  BY <1>1, LatchDoes, LatchIsHonest DEF Play, LockInPlay
<1>2. CASE Pause \/ JogTouch \/ WaveTouch \/ EndOfTrack
  BY <1>2, StaysPut DEF Pause, JogTouch, WaveTouch, EndOfTrack, drive
<1>3. CASE PlayPause
  <2>1. CASE tr.preview
    BY <1>3, <2>1, PlayOrPauseDoes, LatchIsHonest DEF PlayPause
  <2>2. CASE ~tr.preview /\ playing
    BY <1>3, <2>2, PlayOrPauseDoes, StaysPut DEF PlayPause
  <2>3. CASE ~tr.preview /\ ~playing
    <3>1. tr' = [tr EXCEPT !.cued = FALSE]
      BY <1>3, <2>3, PlayOrPauseDoes DEF PlayPause
    <3> QED
      BY <1>0, <3>1, NotCued DEF TransportState
  <2> QED
    BY <2>1, <2>2, <2>3
<1>4. CASE CuePress
  <2>1. /\ Carry(CueDown(tr, playing, Quantized(pos))) /\ track' = track
        /\ Quantized(pos) \in Nat
    BY <1>4, QuantizedIsNat DEF CuePress
  <2>2. CASE playing
    <3>1. /\ tr' = [tr EXCEPT !.cued = TRUE] /\ playing' = FALSE
          /\ pos' = AtMost(tr.cue_point, len)
      BY <2>1, <2>2, CueDownDoes
    <3>2. tr'.cue_point = tr.cue_point /\ len' = len
      BY <1>0, <2>1, <3>1 DEF TransportState, len
    <3> QED
      BY <3>1, <3>2, OnTheCue
  <2>3. CASE ~playing /\ tr.cued
    <3>1. tr' = [tr EXCEPT !.preview = TRUE]
      BY <2>1, <2>3, CueDownDoes
    <3> QED
      BY <1>0, <3>1, Previewing DEF TransportState
  <2>4. CASE ~playing /\ ~tr.cued
    <3>1. tr' = [cue_point |-> Quantized(pos), cued |-> TRUE, preview |-> TRUE]
      BY <2>1, <2>4, CueDownDoes
    <3> QED
      BY <3>1, Previewing
  <2> QED
    BY <2>2, <2>3, <2>4
<1>5. CASE CueRelease
  BY <1>5, CueUpIsHonest DEF CueRelease
<1>6. CASE JogModeToggle \/ QuantizeToggle
  BY <1>6, StaysPut DEF JogModeToggle, QuantizeToggle, transport, drive
<1>7. CASE JogLift \/ WaveLift
  BY <1>7, LatchDoes, LatchIsHonest DEF JogLift, WaveLift
<1>8. ASSUME NEW target \in 0 .. len, Search(target) PROVE Honest'
  <2>1. tr' = [tr EXCEPT !.cued = FALSE]
    BY <1>8 DEF Search, Searched
  <2> QED
    BY <1>0, <2>1, NotCued DEF TransportState
<1>9. CASE PhonePageFlip
  <2>1. CASE jog_hold_resume \/ wave_hold_resume
    BY <1>9, <2>1, LatchDoes, LatchIsHonest DEF PhonePageFlip
  <2>2. CASE ~(jog_hold_resume \/ wave_hold_resume)
    BY <1>9, <2>2, CueUpIsHonest DEF PhonePageFlip
  <2> QED
    BY <2>1, <2>2
<1>10. CASE MemoryCueSet \/ MemoryCueDelete
  BY <1>10, StaysPut DEF MemoryCueSet, MemoryCueDelete, transport, drive
<1>11. CASE MemoryCueCall
  <2>1. PICK m \in NextPoint(pos) \cup PrevPoint(pos) :
          tr' = ArrivedAtCue([tr EXCEPT !.preview = FALSE], m) /\ Drive(SeekTo(Here, m))
    BY <1>11 DEF MemoryCueCall
  <2>2. m \in Nat
    BY DEF TypeOK, NextPoint, PrevPoint
  <2>3. track' = track /\ playing' = FALSE
    BY <1>11 DEF MemoryCueCall
  <2>4. pos' = AtMost(m, len) /\ len' = len
    BY <2>1, <2>2, <2>3, SeekDoes DEF len
  <2>5. tr'.cue_point = m
    BY <1>0, <2>1 DEF ArrivedAtCue, TransportState
  <2> QED
    BY <2>3, <2>4, <2>5, OnTheCue
<1>12. ASSUME NEW s \in Slots, HotCueSet(s) \/ HotCueDelete(s) PROVE Honest'
  BY <1>12, StaysPut DEF HotCueSet, HotCueDelete, transport, drive
<1>13. ASSUME NEW s \in Slots, HotCueTrigger(s) PROVE Honest'
  <2>1. tr' = [tr EXCEPT !.preview = FALSE, !.cued = FALSE]
    BY <1>13 DEF HotCueTrigger, Latch, Result
  <2> QED
    BY <2>1, LatchIsHonest
<1>14. ASSUME NEW jump \in Jumps, BeatJump(jump) PROVE Honest'
  BY <1>0, <1>14 DEF BeatJump
<1>15. ASSUME NEW beats \in LoopHalfBeats, BeatLoop(beats) PROVE Honest'
  BY <1>0, <1>15 DEF BeatLoop
<1>16. CASE LoopIn \/ LoopOut \/ Reloop
  BY <1>0, <1>16 DEF LoopIn, LoopOut, Reloop
<1>17. CASE SlipToggle
  <2>1. Here \in DriveState(len) /\ len \in Nat /\ Here.pos = pos
    BY HereIsDrive
  <2>2. /\ [Here EXCEPT !.anchor = None] \in DriveState(len)
        /\ [Here EXCEPT !.anchor = None].pos = pos
    BY <2>1 DEF DriveState
  <2>3. SlipBegin(Here) \in DriveState(len) /\ SlipBegin(Here).pos = pos
    BY <2>1, SlipBeginTyped
  <2>4. Drive([Here EXCEPT !.anchor = None]) \/ Drive(SlipBegin(Here)) \/ Drive(Here)
    BY <1>17, Zenon DEF SlipToggle
  <2>5. track' = track /\ tr' = tr /\ playing' = playing
    BY <1>17 DEF SlipToggle, transport
  <2>6. pos' = pos
    BY <2>1, <2>2, <2>3, <2>4, <2>5, DriveDoes
  <2> QED
    BY <2>5, <2>6, StaysPut
<1>18. CASE AutoCue
  <2>1. FirstSound[track] \in Nat
    BY DEF TypeOK
  <2>2. track' = track /\ playing' = FALSE
    BY <1>0, <1>18 DEF AutoCue
  <2>3. pos' = AtMost(FirstSound[track], len) /\ len' = len
    BY <1>18, <2>1, <2>2, SeekDoes DEF AutoCue, len
  <2>4. tr'.cue_point = FirstSound[track]
    BY <1>0, <1>18 DEF AutoCue, ArrivedAtCue, TransportState
  <2> QED
    BY <2>2, <2>3, <2>4, OnTheCue
<1>19. ASSUME NEW t \in Tracks, NEW cue \in LoadCues[t], ApplyPrepared(t, cue) PROVE Honest'
  <2> DEFINE top == [Here EXCEPT !.pos = 0]
             d == IF cue > 0 THEN SeekWithin(top, cue, Length[t]) ELSE top
  <2>1. cue \in Nat /\ Length[t] \in Nat /\ len \in Nat
    BY HereIsDrive
  <2>2. top \in DriveState(len) /\ top.pos = 0
    BY <2>1, HereIsDrive DEF DriveState
  <2>3. d.pos = AtMost(cue, Length[t])
    <3>1. CASE cue > 0
      BY <2>1, <2>2, <3>1, SeekKeepsDrive
    <3>2. CASE ~(cue > 0)
      BY <2>1, <2>2, <3>2, AtMostIsBoth
    <3> QED
      BY <3>1, <3>2
  <2>4. track' = t /\ pos' = d.pos /\ playing' = FALSE
    BY <1>19 DEF ApplyPrepared
  <2>5. len' = Length[t]
    BY <2>4 DEF len
  <2>6. tr'.cue_point = cue
    BY <1>0, <1>19 DEF ApplyPrepared, ArrivedAtCue, TransportState
  <2> QED
    BY <2>3, <2>4, <2>5, <2>6, OnTheCue
<1>20. CASE Advance
  BY <1>20, RunsOn DEF Advance, transport
<1>21. CASE UNCHANGED vars
  BY <1>21, StaysPut DEF vars, transport, drive
<1> QED
  BY <1>1, <1>2, <1>3, <1>4, <1>5, <1>6, <1>7, <1>8, <1>9, <1>10, <1>11, <1>12, <1>13, <1>14,
     <1>15, <1>16, <1>17, <1>18, <1>19, <1>20, <1>21
  DEF Next

\* CuedIsHonest, on every panel without loops and beat jumps (which move the
\* playhead without telling the transport) and for every track: `cued` means the
\* playhead is on the cue.  A deck that boots playing starts out otherwise.
THEOREM CuedHonest ==
  ASSUME Panel \cap {"loop", "beatjump"} = {}, Boot # "autoplay"
  PROVE  Spec => []CuedIsHonest
<1>1. Init => TypeOK /\ Honest
  <2> SUFFICES ASSUME Init PROVE TypeOK /\ Honest
    OBVIOUS
  <2>1. PICK cue \in LoadCues[track] : pos = AtMost(cue, len) /\ tr = NewTransport(cue)
    BY Zenon DEF Init
  <2>2. tr.cue_point = cue /\ playing = FALSE
    BY <2>1 DEF Init, NewTransport
  <2> QED
    BY <2>1, <2>2, TypeInit DEF Honest, CuedIsHonest, CuedStandsStill
<1>2. (TypeOK /\ Honest) /\ [Next]_vars => (TypeOK /\ Honest)'
  BY TypeStep, HonestStep
<1>3. TypeOK /\ Honest => CuedIsHonest
  BY DEF Honest
<1> QED
  BY <1>1, <1>2, <1>3, PTL DEF Spec

-----------------------------------------------------------------------------
(* A preview comes back.                                                    *)

\* The inductive form of PreviewReturns: while CUE is held from a press that
\* began a preview no play control has latched, the transport knows of it.
PreviewHeld == cue_key = "preview" => tr.preview

\* A handler that touches neither the key's history nor `preview`.
LEMMA PreviewStays ==
  ASSUME PreviewHeld, UNCHANGED cue_key, tr'.preview = tr.preview
  PROVE  PreviewHeld'
  BY DEF PreviewHeld

\* A handler that locks the key in, or lets it up, owes nothing.
LEMMA NoPreview == cue_key' # "preview" => PreviewHeld'
  BY DEF PreviewHeld

\* A latching key ends the preview in the history too.
LEMMA LockedIsNoPreview == Locked # "preview"
  BY DEF Locked

\* Every handler but the jog's and the waveform's lift keeps the transport and the
\* key in step: those latch a preview that CUE still holds.
LEMMA PreviewStep ==
  ASSUME Panel \cap {"jog", "wave"} = {}, TypeOK, PreviewHeld, [Next]_vars
  PROVE  PreviewHeld'
<1>0. tr \in TransportState /\ "jog" \notin Panel /\ "wave" \notin Panel
  BY DEF TypeOK
<1>1. CASE Play \/ PlayPause \/ MemoryCueCall
  BY <1>1, NoPreview, LockedIsNoPreview DEF Play, LockInPlay, PlayPause, MemoryCueCall
<1>2. CASE CueRelease \/ PhonePageFlip
  BY <1>2, NoPreview DEF CueRelease, PhonePageFlip
<1>3. CASE CuePress
  <2>1. /\ Carry(CueDown(tr, playing, Quantized(pos))) /\ track' = track
        /\ Quantized(pos) \in Nat
    BY <1>3, QuantizedIsNat DEF CuePress
  <2>2. CASE playing
    BY <1>3, <2>2, NoPreview DEF CuePress
  <2>3. CASE ~playing /\ tr.cued
    <3>1. tr' = [tr EXCEPT !.preview = TRUE]
      BY <2>1, <2>3, CueDownDoes
    <3> QED
      BY <1>0, <3>1 DEF PreviewHeld, TransportState
  <2>4. CASE ~playing /\ ~tr.cued
    <3>1. tr' = [cue_point |-> Quantized(pos), cued |-> TRUE, preview |-> TRUE]
      BY <2>1, <2>4, CueDownDoes
    <3> QED
      BY <3>1 DEF PreviewHeld
  <2> QED
    BY <2>2, <2>3, <2>4
<1>4. CASE JogModeToggle \/ JogTouch \/ JogLift \/ WaveTouch \/ WaveLift
  BY <1>0, <1>4 DEF JogModeToggle, JogTouch, JogLift, WaveTouch, WaveLift
<1>5. ASSUME NEW target \in 0 .. len, Search(target) PROVE PreviewHeld'
  <2>1. tr' = [tr EXCEPT !.cued = FALSE] /\ cue_key' = cue_key
    BY <1>5 DEF Search, Searched
  <2> QED
    BY <1>0, <2>1, PreviewStays DEF TransportState
<1>6. ASSUME NEW s \in Slots, HotCueTrigger(s) PROVE PreviewHeld'
  BY <1>6, NoPreview, LockedIsNoPreview DEF HotCueTrigger
<1>7. CASE AutoCue
  <2>1. tr'.preview = tr.preview /\ cue_key' = cue_key
    BY <1>0, <1>7 DEF AutoCue, ArrivedAtCue, TransportState
  <2> QED
    BY <2>1, PreviewStays
<1>8. ASSUME NEW t \in Tracks, NEW cue \in LoadCues[t], ApplyPrepared(t, cue)
      PROVE  PreviewHeld'
  BY <1>8, NoPreview, LockedIsNoPreview DEF ApplyPrepared
<1>9. CASE \/ Pause \/ MemoryCueSet \/ MemoryCueDelete \/ LoopIn \/ LoopOut \/ Reloop
           \/ SlipToggle \/ QuantizeToggle \/ Advance \/ EndOfTrack \/ UNCHANGED vars
  <2>1. tr' = tr /\ cue_key' = cue_key
    BY <1>9 DEF Pause, MemoryCueSet, MemoryCueDelete, LoopIn, LoopOut, Reloop, SlipToggle,
                QuantizeToggle, Advance, EndOfTrack, vars, transport
  <2> QED
    BY <2>1, PreviewStays
<1>10. ASSUME NEW s \in Slots, HotCueSet(s) \/ HotCueDelete(s) PROVE PreviewHeld'
  BY <1>10, PreviewStays DEF HotCueSet, HotCueDelete, transport
<1>11. ASSUME NEW jump \in Jumps, BeatJump(jump) PROVE PreviewHeld'
  BY <1>11, PreviewStays DEF BeatJump, transport
<1>12. ASSUME NEW beats \in LoopHalfBeats, BeatLoop(beats) PROVE PreviewHeld'
  BY <1>12, PreviewStays DEF BeatLoop, transport
<1> QED
  BY <1>1, <1>2, <1>3, <1>4, <1>5, <1>6, <1>7, <1>8, <1>9, <1>10, <1>11, <1>12 DEF Next

\* PreviewReturns, on every panel without the platter and the waveform (whose lift
\* latches playback under a held CUE) and for every track: a release that ends a
\* preview stops the deck on its cue.
THEOREM PreviewComesBack ==
  ASSUME Panel \cap {"jog", "wave"} = {}
  PROVE  Spec => PreviewReturns
<1>1. Init => TypeOK /\ PreviewHeld
  BY TypeInit DEF Init, PreviewHeld
<1>2. (TypeOK /\ PreviewHeld) /\ [Next]_vars => (TypeOK /\ PreviewHeld)'
  BY TypeStep, PreviewStep
<1>3. (TypeOK /\ PreviewHeld) /\ [Next]_vars =>
        [CueRelease /\ cue_key = "preview" => ~playing' /\ pos' = AtMost(tr'.cue_point, len)]_vars
  <2> SUFFICES ASSUME TypeOK, PreviewHeld, CueRelease, cue_key = "preview"
               PROVE  ~playing' /\ pos' = AtMost(tr'.cue_point, len)
    OBVIOUS
  <2>1. tr.preview /\ Carry(CueUp(tr)) /\ track' = track
    BY DEF PreviewHeld, CueRelease
  <2>2. /\ tr' = [tr EXCEPT !.preview = FALSE, !.cued = TRUE]
        /\ playing' = FALSE /\ pos' = AtMost(tr.cue_point, len)
    BY <2>1, CueUpDoes
  <2> QED
    BY <2>2 DEF TypeOK, TransportState
<1> QED
  BY <1>1, <1>2, <1>3, PTL DEF Spec, PreviewReturns

-----------------------------------------------------------------------------
(* A running loop holds the playhead.                                       *)

\* The playhead is inside the loop's bounds.
InLoop == pos \in loop.start .. loop.end - 1

\* The bounds a step leaves alone still hold the playhead.
HoldsPlayhead == loop'.active /\ loop'.start = loop.start /\ loop'.end = loop.end => InLoop'

\* seek_to out of a running loop ends it; a seek within it stays inside.
LEMMA SeekHolds ==
  ASSUME TypeOK, loop.active, NEW p \in Nat, Drive(SeekTo(Here, p)), track' = track
  PROVE  HoldsPlayhead
<1> DEFINE q == AtMost(p, len)
           left == loop.active /\ (q < loop.start \/ q >= loop.end)
<1>1. /\ loop \in LoopState /\ len \in Nat /\ q \in Nat /\ loop.start \in Nat
      /\ loop.end \in Nat
  <2>1. loop \in LoopState /\ len \in Nat
    BY HereIsDrive DEF TypeOK, LoopState
  <2>2. q \in Nat
    BY <2>1, AtMostIsBoth
  <2> QED
    BY <2>1, <2>2 DEF LoopState
<1>2. pos' = q
  BY SeekDoes
<1>3. loop' = [loop EXCEPT !.active = @ /\ ~left]
  BY Zenon DEF Drive, SeekTo, SeekWithin, Here
<1> HIDE DEF q
<1>4. loop'.active => ~left
  BY <1>1, <1>3 DEF LoopState
<1> QED
  BY <1>1, <1>2, <1>4 DEF HoldsPlayhead, InLoop

\* A handler that leaves the playhead alone.
LEMMA StillHolds == InLoop /\ pos' = pos => HoldsPlayhead
  BY DEF HoldsPlayhead, InLoop

\* apply_transport, whether its outcome seeks or not.
LEMMA CarryHolds ==
  ASSUME TypeOK, loop.active, InLoop, NEW r, r.outcome.seek_to \in Nat \cup {None},
         Carry(r), track' = track
  PROVE  HoldsPlayhead
<1>1. CASE r.outcome.seek_to = None
  <2>1. Drive(Here)
    BY <1>1 DEF Carry, Landing
  <2> QED
    BY <2>1, StayDoes, StillHolds
<1>2. CASE r.outcome.seek_to # None
  <2>1. Drive(SeekTo(Here, r.outcome.seek_to)) /\ r.outcome.seek_to \in Nat
    BY <1>2 DEF Carry, Landing
  <2> QED
    BY <2>1, SeekHolds
<1> QED
  BY <1>1, <1>2

\* seek_to arms no loop.
LEMMA SeekWithinArmsNoLoop ==
  ASSUME NEW d, d.loop \in LoopState, ~d.loop.active, NEW p, NEW n
  PROVE  ~SeekWithin(d, p, n).loop.active
<1> DEFINE q == AtMost(p, n)
           stays == d.loop.active /\ ~(d.loop.active /\ (q < d.loop.start \/ q >= d.loop.end))
<1>1. SeekWithin(d, p, n) =
       [pos |-> q, anchor |-> None, loop |-> [d.loop EXCEPT !.active = stays]]
  BY Zenon DEF SeekWithin
<1>2. stays = FALSE
  OBVIOUS
<1> HIDE DEF stays, q
<1>3. SeekWithin(d, p, n).loop = [d.loop EXCEPT !.active = stays]
  BY <1>1
<1>4. [d.loop EXCEPT !.active = stays].active = FALSE
  BY <1>2 DEF LoopState
<1> QED
  BY <1>3, <1>4

\* exit_loop_slip ends the loop, shadow or none.
LEMMA ExitLoopSlipEnds ==
  ASSUME NEW n \in Nat, NEW d \in DriveState(n)
  PROVE  ~ExitLoopSlip(d).loop.active
<1>1. ExitLoop(d) \in DriveState(n) /\ ~ExitLoop(d).loop.active
  <2>1. ExitLoop(d) \in DriveState(n)
    BY ExitLoopTyped
  <2>2. d.loop \in LoopState
    BY DEF DriveState
  <2>3. [d.loop EXCEPT !.active = FALSE].active = FALSE
    BY <2>2 DEF LoopState
  <2>4. ExitLoop(d).loop = [d.loop EXCEPT !.active = FALSE]
    BY DEF ExitLoop, DriveState
  <2> QED
    BY <2>1, <2>3, <2>4
<1>2. CASE d.anchor = None
  BY <1>1, <1>2 DEF ExitLoopSlip
<1>3. CASE d.anchor # None
  <2> DEFINE out == [ExitLoop(d) EXCEPT !.anchor = None]
  <2>1. out.loop \in LoopState /\ ~out.loop.active
    BY <1>1 DEF DriveState
  <2> HIDE DEF out
  <2>2. ~SeekWithin(out, Shadow(d.anchor), len).loop.active
    BY <2>1, SeekWithinArmsNoLoop
  <2>3. ExitLoopSlip(d) = SeekWithin(out, Shadow(d.anchor), len)
    BY <1>3, Zenon DEF ExitLoopSlip, SeekTo, out
  <2> QED
    BY <2>2, <2>3
<1> QED
  BY <1>2, <1>3

\* A handler that leaves the loop owes its bounds nothing.
LEMMA ExitHolds ==
  ASSUME TypeOK, Drive(ExitLoopSlip(Here))
  PROVE  HoldsPlayhead
<1>1. ~ExitLoopSlip(Here).loop.active
  BY HereIsDrive, ExitLoopSlipEnds
<1> QED
  BY <1>1 DEF Drive, HoldsPlayhead

\* set_loop, whether it arms the loop or refuses, leaves the playhead where it is.
LEMMA SetLoopHolds ==
  ASSUME TypeOK, InLoop, NEW start \in Nat, NEW end \in Nat, NEW beats \in Nat,
         Drive(SetLoop(Here, start, end, beats)), track' = track
  PROVE  HoldsPlayhead
<1> DEFINE d == SetLoop(Here, start, end, beats)
<1>1. Here \in DriveState(len) /\ Here.pos = pos
  BY HereIsDrive
<1>2. d \in DriveState(len) /\ d.pos = Here.pos
  BY <1>1, SetLoopTyped
<1> HIDE DEF d
<1>3. pos' = pos
  <2>1. Drive(d)
    BY DEF d
  <2> QED
    BY <1>1, <1>2, <2>1, DriveDoes
<1> QED
  BY <1>3, StillHolds

\* Every outcome of the transport seeks to a position, or not at all.
LEMMA OutcomesSeekInNat ==
  ASSUME TypeOK, NEW p \in Nat
  PROVE  /\ Latch(tr).outcome.seek_to \in Nat \cup {None}
         /\ PlayOrPause(tr, playing).outcome.seek_to \in Nat \cup {None}
         /\ CueDown(tr, playing, p).outcome.seek_to \in Nat \cup {None}
         /\ CueUp(tr).outcome.seek_to \in Nat \cup {None}
<1>1. tr.cue_point \in Nat
  BY DEF TypeOK, TransportState
<1> QED
  BY <1>1
  DEF Latch, PlayOrPause, CueDown, CueUp, Result, SetPlaying, PauseAt, PlayFrom, LeaveAlone

\* Every handler but a load's keeps a running loop's playhead inside it, or ends
\* or moves the loop; so does playback.
LEMMA LoopStep ==
  ASSUME "load" \notin Panel, TypeOK, Looping, loop.end < len, InLoop, [Next]_vars
  PROVE  HoldsPlayhead
<1>0. /\ loop.active /\ loop \in LoopState /\ loop.start \in Nat /\ loop.end \in Nat
      /\ len \in Nat /\ pos \in Nat /\ Here \in DriveState(len) /\ Here.pos = pos
  BY HereIsDrive DEF TypeOK, Looping, LoopState
<1>1. CASE Play \/ JogLift \/ WaveLift
  BY <1>0, <1>1, OutcomesSeekInNat, CarryHolds DEF Play, LockInPlay, JogLift, WaveLift
<1>2. CASE PlayPause \/ CueRelease \/ PhonePageFlip
  BY <1>0, <1>2, OutcomesSeekInNat, CarryHolds DEF PlayPause, CueRelease, PhonePageFlip
<1>3. CASE CuePress
  BY <1>0, <1>3, QuantizedIsNat, OutcomesSeekInNat, CarryHolds DEF CuePress
<1>4. CASE \/ Pause \/ JogModeToggle \/ JogTouch \/ WaveTouch \/ MemoryCueSet \/ MemoryCueDelete
           \/ QuantizeToggle \/ EndOfTrack \/ UNCHANGED vars
  <2>1. pos' = pos
    BY <1>4 DEF Pause, JogModeToggle, JogTouch, WaveTouch, MemoryCueSet, MemoryCueDelete,
                QuantizeToggle, EndOfTrack, vars, drive
  <2> QED
    BY <2>1, StillHolds
<1>5. ASSUME NEW target \in 0 .. len, Search(target) PROVE HoldsPlayhead
  BY <1>0, <1>5, SeekHolds DEF Search
<1>6. CASE MemoryCueCall
  <2>1. PICK m \in NextPoint(pos) \cup PrevPoint(pos) : Drive(SeekTo(Here, m))
    BY <1>6 DEF MemoryCueCall
  <2>2. m \in Nat /\ track' = track
    BY <1>6 DEF TypeOK, NextPoint, PrevPoint, MemoryCueCall
  <2> QED
    BY <1>0, <2>1, <2>2, SeekHolds
<1>7. ASSUME NEW s \in Slots, HotCueSet(s) \/ HotCueDelete(s) PROVE HoldsPlayhead
  BY <1>7, StillHolds DEF HotCueSet, HotCueDelete, drive
<1>8. ASSUME NEW s \in Slots, HotCueTrigger(s) PROVE HoldsPlayhead
  <2>1. hot_cues[s] \in Nat /\ track' = track /\ Drive(SeekTo(Here, hot_cues[s]))
    BY <1>8 DEF HotCueTrigger, TypeOK
  <2> QED
    BY <1>0, <2>1, SeekHolds
<1>9. ASSUME NEW jump \in Jumps, BeatJump(jump) PROVE HoldsPlayhead
  BY <1>0, <1>9, JumpedIsNat, SeekHolds DEF BeatJump
<1>10. ASSUME NEW beats \in LoopHalfBeats, BeatLoop(beats) PROVE HoldsPlayhead
  <2> DEFINE end == loop.start + (beats * period) \div 2
  <2>1. beats \in Nat /\ period \in Nat /\ track' = track
    BY <1>10, LenIsNat DEF BeatLoop, TypeOK
  <2>2. (beats * period) \div 2 \in Nat
    BY <2>1, Product, Quotient
  <2>3. end \in Nat
    BY <1>0, <2>2
  <2>4. Drive(ExitLoopSlip(Here)) \/ Drive(SetLoop(Here, loop.start, end, beats))
    BY <1>0, <1>10, Zenon DEF BeatLoop
  <2> HIDE DEF end
  <2>5. CASE Drive(SetLoop(Here, loop.start, end, beats))
    BY <1>0, <2>1, <2>3, <2>5, SetLoopHolds
  <2> QED
    BY <2>4, <2>5, ExitHolds
<1>11. CASE LoopIn
  <2>1. loop'.active = FALSE
    BY <1>11 DEF LoopIn, Drive, Here
  <2> QED
    BY <2>1 DEF HoldsPlayhead
<1>12. CASE LoopOut
  <2>1. Quantized(pos) \in Nat
    BY QuantizedIsNat
  <2>2. Drive(SetLoop(Here, loop.start, Quantized(pos), 0)) /\ track' = track
    BY <1>12 DEF LoopOut
  <2> QED
    BY <1>0, <2>1, <2>2, SetLoopHolds
<1>13. CASE Reloop
  BY <1>0, <1>13, ExitHolds DEF Reloop
<1>14. CASE SlipToggle
  <2>1. /\ [Here EXCEPT !.anchor = None] \in DriveState(len)
        /\ [Here EXCEPT !.anchor = None].pos = pos
    BY <1>0 DEF DriveState
  <2>2. SlipBegin(Here) \in DriveState(len) /\ SlipBegin(Here).pos = pos
    BY <1>0, SlipBeginTyped
  <2>3. Drive([Here EXCEPT !.anchor = None]) \/ Drive(SlipBegin(Here)) \/ Drive(Here)
    BY <1>14, Zenon DEF SlipToggle
  <2>4. track' = track
    BY <1>14 DEF SlipToggle
  <2>5. pos' = pos
    BY <1>0, <2>1, <2>2, <2>3, <2>4, DriveDoes
  <2> QED
    BY <2>5, StillHolds
<1>15. CASE AutoCue
  <2>1. /\ FirstSound[track] \in Nat /\ track' = track
        /\ Drive(SeekTo(Here, FirstSound[track]))
    BY <1>15 DEF AutoCue, TypeOK
  <2> QED
    BY <1>0, <2>1, SeekHolds
<1>16. ASSUME NEW t \in Tracks, NEW cue \in LoadCues[t], ApplyPrepared(t, cue)
       PROVE  HoldsPlayhead
  BY <1>16 DEF ApplyPrepared
<1>17. CASE Advance
  <2>1. loop' = loop /\ loop.start < loop.end /\ pos >= loop.start /\ pos < loop.end
    BY <1>0, <1>17 DEF Advance, Looping, InLoop
  <2>2. CASE pos + 1 >= loop.end
    BY <1>0, <1>17, <2>1, <2>2 DEF Advance, HoldsPlayhead, InLoop
  <2>3. CASE ~(pos + 1 >= loop.end)
    <3>1. pos' = pos + 1
      BY <1>17, <2>3 DEF Advance
    <3> QED
      BY <1>0, <2>1, <2>3, <3>1 DEF HoldsPlayhead, InLoop
  <2> QED
    BY <2>2, <2>3
<1> QED
  BY <1>1, <1>2, <1>3, <1>4, <1>5, <1>6, <1>7, <1>8, <1>9, <1>10, <1>11, <1>12, <1>13, <1>14,
     <1>15, <1>16, <1>17
  DEF Next

\* RunningLoopHoldsPlayhead, for every track, loop length, jump and panel without
\* loads (a load keeps the old track's loop armed): as long as a loop runs, neither
\* playback nor a seek takes the playhead out of it.
THEOREM RunningLoopHolds ==
  ASSUME "load" \notin Panel
  PROVE  Spec => RunningLoopHoldsPlayhead
<1>1. TypeOK /\ [Next]_vars =>
        [(Looping /\ loop.end < len /\ pos \in loop.start .. loop.end - 1 /\ loop'.active
          /\ loop'.start = loop.start /\ loop'.end = loop.end)
         => pos' \in loop'.start .. loop'.end - 1]_vars
  BY LoopStep DEF HoldsPlayhead, InLoop
<1> QED
  BY <1>1, TypeCorrect, PTL DEF Spec, RunningLoopHoldsPlayhead
-----------------------------------------------------------------------------
(* The slip shadow.                                                         *)

\* The shadow is where the track would be.
ShadowInv == slip_anchor # None => AtMost(unlooped, len) = Shadow(slip_anchor)

\* What a handler may leave as the anchor: none, the one that runs, or a new one here.
AnchorsLeft == {None, slip_anchor, AnchorAt(pos)}

\* A drive with one of these anchors keeps the shadow right.
LEMMA DriveShadows ==
  ASSUME TypeOK, ShadowInv, NEW d, Drive(d), d.anchor \in AnchorsLeft, track' = track
  PROVE  ShadowInv'
<1>1. /\ slip_anchor' = d.anchor /\ len' = len /\ len \in Nat /\ pos \in Nat
      /\ pos \in 0 .. len
  BY DEF Drive, TypeOK, len
<1>2. CASE d.anchor = None
  BY <1>1, <1>2 DEF ShadowInv
<1>3. CASE d.anchor # None /\ d.anchor = slip_anchor
  <2>1. unlooped' = unlooped
    BY <1>3 DEF Drive
  <2>2. AtMost(unlooped', len') = AtMost(unlooped, len) /\ Shadow(slip_anchor)' = Shadow(slip_anchor)
    BY <1>1, <1>3, <2>1 DEF Shadow
  <2> QED BY <1>1, <1>3, <2>2 DEF ShadowInv
<1>4. CASE d.anchor # None /\ d.anchor # slip_anchor
  <2>1. unlooped' = pos /\ slip_anchor' = AnchorAt(pos)
    BY <1>1, <1>4 DEF Drive, AnchorsLeft
  <2>2. slip_anchor'.at + slip_anchor'.consumed = pos
    BY <1>1, <2>1 DEF AnchorAt
  <2> QED BY <1>1, <2>1, <2>2 DEF ShadowInv, Shadow
<1> QED BY <1>2, <1>3, <1>4

\* seek_to, as it is and out of a loop, cancels the shadow.
LEMMA SeekCancels ==
  ASSUME NEW d, NEW target, NEW n
  PROVE  SeekWithin(d, target, n).anchor = None
  BY DEF SeekWithin

\* slip_begin starts a shadow here or leaves the one that runs; so does set_loop.
LEMMA SetLoopAnchors ==
  ASSUME NEW d \in DriveState(len), d.pos = pos, d.anchor \in {None, slip_anchor},
         NEW start, NEW end, NEW beats
  PROVE  /\ SlipBegin(d).anchor \in AnchorsLeft
         /\ SetLoop(d, start, end, beats).anchor \in AnchorsLeft
<1> DEFINE e == AtMost(end, len)
           armed == [d EXCEPT !.loop = [active |-> TRUE, start |-> start, end |-> e, beats |-> beats]]
<1>1. SlipBegin(d).anchor \in AnchorsLeft
  BY DEF SlipBegin, AnchorsLeft, DriveState
<1>2. armed.pos = pos /\ armed.anchor \in {None, slip_anchor}
      /\ DOMAIN armed = {"pos", "loop", "anchor"}
  BY DEF DriveState
<1>3. SetLoop(d, start, end, beats) \in {d, armed, SlipBegin(armed)}
  BY DEF SetLoop
<1> HIDE DEF armed
<1>4. SlipBegin(armed).anchor \in AnchorsLeft
  BY <1>2 DEF SlipBegin, AnchorsLeft
<1> QED BY <1>1, <1>2, <1>3, <1>4 DEF AnchorsLeft

\* exit_loop_slip lands on the shadow when there is one.
LEMMA ExitLoopSlipLands ==
  ASSUME TypeOK
  PROVE  /\ ExitLoopSlip(Here).anchor = None
         /\ slip_anchor # None => ExitLoopSlip(Here).pos = Shadow(slip_anchor)
<1>1. /\ Here \in DriveState(len) /\ Here.anchor = slip_anchor /\ len \in Nat
      /\ slip_anchor \in Anchor \cup {None}
  BY HereIsDrive DEF Here, TypeOK, Anchor
<1>2. CASE slip_anchor = None
  <2>1. ExitLoop(Here).anchor = None
    BY <1>1, <1>2 DEF ExitLoop, DriveState
  <2> QED BY <1>1, <1>2, <2>1 DEF ExitLoopSlip
<1>3. CASE slip_anchor # None
  <2> DEFINE out == [ExitLoop(Here) EXCEPT !.anchor = None]
  <2>1. ExitLoopSlip(Here) = SeekWithin(out, Shadow(slip_anchor), len)
    BY <1>1, <1>3, Zenon DEF ExitLoopSlip, SeekTo
  <2> HIDE DEF out
  <2>2. slip_anchor.at + slip_anchor.consumed \in Nat
    BY <1>1, <1>3 DEF Anchor
  <2>3. Shadow(slip_anchor) \in Nat /\ AtMost(Shadow(slip_anchor), len) = Shadow(slip_anchor)
    BY <1>1, <2>2, AtMostIsBoth DEF Shadow, AtMost
  <2>4. SeekWithin(out, Shadow(slip_anchor), len).pos = AtMost(Shadow(slip_anchor), len)
    BY DEF SeekWithin
  <2> QED BY <2>1, <2>3, <2>4, SeekCancels
<1> QED BY <1>2, <1>3
\* No track is longer than the bound on what a shadow consumes.
LEMMA MaxLengthBounds == track \in Tracks => len <= MaxLength
<1> SUFFICES ASSUME track \in Tracks PROVE len <= MaxLength
  OBVIOUS
<1>1. PICK t \in Tracks : \A u \in Tracks : Length[u] <= Length[t]
  OBVIOUS
<1>2. \E m \in {Length[u] : u \in Tracks} : \A u \in Tracks : Length[u] <= m
  BY <1>1
<1>3. \A u \in Tracks : Length[u] <= MaxLength
  BY <1>2 DEF MaxLength
<1> QED
  BY <1>3 DEF len

\* A frame played moves the shadow and where the track would be alike, up to the end of
\* the track.
LEMMA AdvanceShadows ==
  ASSUME TypeOK, ShadowInv, Advance
  PROVE  ShadowInv'
<1>1. /\ len \in Nat /\ MaxLength \in Nat /\ len <= MaxLength /\ unlooped \in Nat
      /\ len' = len
  BY MaxLengthIsNat, MaxLengthBounds DEF TypeOK, len, Advance
<1>2. CASE slip_anchor = None
  BY <1>2 DEF Advance, ShadowInv
<1>3. CASE slip_anchor # None
  <2> DEFINE at == slip_anchor.at
             c == slip_anchor.consumed
  <2>1. /\ at \in Nat /\ c \in Nat /\ slip_anchor \in Anchor
    BY <1>3 DEF TypeOK, Anchor
  <2>2. slip_anchor' = [slip_anchor EXCEPT !.consumed = AtMost(c + 1, MaxLength)]
    BY <1>3 DEF Advance
  <2>3. slip_anchor'.at = at /\ slip_anchor'.consumed = AtMost(c + 1, MaxLength)
    BY <2>1, <2>2 DEF Anchor
  <2>4. unlooped' = AtMost(unlooped + 1, len)
    BY <1>3 DEF Advance
  <2>5. AtMost(unlooped, len) = AtMost(at + c, len)
    BY <1>3 DEF ShadowInv, Shadow
  <2> HIDE DEF at, c
  <2>6. AtMost(AtMost(unlooped + 1, len), len) = AtMost(at + AtMost(c + 1, MaxLength), len)
    <3> DEFINE n == len
               m == MaxLength
    <3>1. /\ n \in Nat /\ m \in Nat /\ n <= m /\ unlooped \in Nat /\ at \in Nat /\ c \in Nat
          /\ AtMost(unlooped, n) = AtMost(at + c, n)
      BY <1>1, <2>1, <2>5
    <3> HIDE DEF n, m
    <3>2. AtMost(AtMost(unlooped + 1, n), n) = AtMost(at + AtMost(c + 1, m), n)
      BY <3>1 DEF AtMost
    <3> QED BY <3>2 DEF n, m
  <2>7. Shadow(slip_anchor') = AtMost(at + AtMost(c + 1, MaxLength), len)
    BY <2>3 DEF Shadow
  <2>8. Shadow(slip_anchor)' = Shadow(slip_anchor')
    BY <1>1 DEF Shadow
  <2> QED BY <1>1, <2>4, <2>6, <2>7, <2>8 DEF ShadowInv
<1> QED BY <1>2, <1>3

\* Every handler but a load's keeps the shadow where the track would be.
LEMMA ShadowStep ==
  ASSUME "load" \notin Panel, TypeOK, ShadowInv, [Next]_vars
  PROVE  ShadowInv'
<1>0. /\ Here \in DriveState(len) /\ Here.pos = pos /\ Here.anchor = slip_anchor
      /\ None \in AnchorsLeft /\ slip_anchor \in AnchorsLeft
  BY HereIsDrive DEF AnchorsLeft, Here
<1>a. ASSUME UNCHANGED <<track, drive>> PROVE ShadowInv'
  BY <1>a DEF drive, ShadowInv, Shadow, len
<1>b. ASSUME NEW d, NEW target, Drive(SeekTo(d, target)), track' = track PROVE ShadowInv'
  BY <1>0, <1>b, SeekCancels, DriveShadows DEF SeekTo
<1>c. ASSUME NEW r, Carry(r), track' = track PROVE ShadowInv'
  <2>1. CASE r.outcome.seek_to = None
    BY <1>0, <1>c, <2>1, DriveShadows DEF Carry, Landing
  <2>2. CASE r.outcome.seek_to # None
    BY <1>b, <1>c, <2>2 DEF Carry, Landing
  <2> QED BY <2>1, <2>2
<1>d. ASSUME NEW start, NEW end, NEW beats, Drive(SetLoop(Here, start, end, beats)), track' = track
      PROVE  ShadowInv'
  <2>1. SetLoop(Here, start, end, beats).anchor \in AnchorsLeft
    BY <1>0, SetLoopAnchors
  <2> QED BY <1>d, <2>1, DriveShadows
<1>e. ASSUME Drive(ExitLoopSlip(Here)), track' = track PROVE ShadowInv'
  BY <1>0, <1>e, ExitLoopSlipLands, DriveShadows
<1>1. CASE Play \/ PlayPause \/ CuePress \/ CueRelease \/ JogLift \/ WaveLift \/ PhonePageFlip
  BY <1>1, <1>c DEF Play, LockInPlay, PlayPause, CuePress, CueRelease, JogLift, WaveLift, PhonePageFlip
<1>2. CASE \/ Pause \/ JogModeToggle \/ JogTouch \/ WaveTouch \/ MemoryCueSet \/ MemoryCueDelete
           \/ QuantizeToggle \/ EndOfTrack \/ UNCHANGED vars
  BY <1>2, <1>a DEF Pause, JogModeToggle, JogTouch, WaveTouch, MemoryCueSet, MemoryCueDelete,
                    QuantizeToggle, EndOfTrack, vars, drive
<1>3. CASE \/ \E target \in 0 .. len : Search(target)
           \/ MemoryCueCall \/ AutoCue
           \/ \E s \in Slots : HotCueTrigger(s)
           \/ \E jump \in Jumps : BeatJump(jump)
  BY <1>3, <1>b DEF Search, MemoryCueCall, AutoCue, HotCueTrigger, BeatJump
<1>4. ASSUME NEW s \in Slots, HotCueSet(s) \/ HotCueDelete(s) PROVE ShadowInv'
  BY <1>4, <1>a DEF HotCueSet, HotCueDelete
<1>5. ASSUME NEW beats \in LoopHalfBeats, BeatLoop(beats) PROVE ShadowInv'
  BY <1>5, <1>d, <1>e, Zenon DEF BeatLoop
<1>6. CASE LoopIn
  <2>1. \A l : [Here EXCEPT !.loop = l].anchor = slip_anchor
    BY <1>0 DEF DriveState
  <2> QED BY <1>0, <1>6, <2>1, DriveShadows DEF LoopIn
<1>7. CASE LoopOut
  BY <1>7, <1>d DEF LoopOut
<1>8. CASE Reloop
  <2>1. CASE loop.active
    BY <1>8, <2>1, <1>e DEF Reloop
  <2>2. CASE ~loop.active
    <3> DEFINE back == SeekTo(Here, loop.start)
               again == SetLoop(back, loop.start, loop.end, loop.beats)
    <3>1. Drive(IF slip THEN [again EXCEPT !.anchor = AnchorAt(pos)] ELSE again) /\ track' = track
      BY <1>8, <2>2 DEF Reloop
    <3>2. back \in DriveState(len) /\ back.anchor = None
      BY <1>0, HereIsDrive, SeekKeepsDrive, SeekCancels DEF SeekTo, TypeOK
    <3>3. again \in DriveState(len)
      <4>1. loop.start \in Nat /\ loop.end \in Nat /\ loop.beats \in Nat /\ len \in Nat
        BY HereIsDrive DEF TypeOK
      <4> QED BY <3>2, <4>1, SetLoopTyped
    <3>4. ~slip => again.anchor = None
      <4> HIDE DEF back
      <4>1. DOMAIN back = {"pos", "loop", "anchor"}
        BY <3>2 DEF DriveState
      <4> QED BY <3>2, <4>1 DEF SetLoop
    <3> HIDE DEF again
    <3>5. [again EXCEPT !.anchor = AnchorAt(pos)].anchor = AnchorAt(pos)
      BY <3>3 DEF DriveState
    <3> QED BY <3>1, <3>4, <3>5, DriveShadows DEF AnchorsLeft
  <2> QED BY <2>1, <2>2
<1>9. CASE SlipToggle
  <2>1. [Here EXCEPT !.anchor = None].anchor = None
    BY <1>0 DEF DriveState
  <2>2. SlipBegin(Here).anchor \in AnchorsLeft
    BY <1>0, SetLoopAnchors
  <2>3. Drive([Here EXCEPT !.anchor = None]) \/ Drive(SlipBegin(Here)) \/ Drive(Here)
    BY <1>9, Zenon DEF SlipToggle
  <2>4. track' = track
    BY <1>9 DEF SlipToggle
  <2> QED BY <1>0, <2>1, <2>2, <2>3, <2>4, DriveShadows
<1>10. CASE Advance
  BY <1>10, AdvanceShadows
<1>11. ASSUME NEW t \in Tracks, NEW cue \in LoadCues[t], ApplyPrepared(t, cue)
       PROVE  ShadowInv'
  BY <1>11 DEF ApplyPrepared
<1> QED
  BY <1>1, <1>2, <1>3, <1>4, <1>5, <1>6, <1>7, <1>8, <1>9, <1>10, <1>11 DEF Next

\* Leaving a loop with SLIP engaged lands where the track would be without the loop, on
\* every track, whatever loops, jumps and reloops came in between, on a panel without
\* loads (a load without a cue keeps the old track's shadow).
THEOREM SlipExitLands ==
  ASSUME "load" \notin Panel
  PROVE  Spec => SlipExitLandsOnTheTrack
<1> DEFINE Lands ==
      ((\E beats \in LoopHalfBeats : BeatLoop(beats)) \/ Reloop)
        /\ loop.active /\ ~loop'.active /\ slip_anchor # None
      => pos' = AtMost(unlooped, len)
<1>1. Init => ShadowInv
  BY DEF Init, ShadowInv
<1>2. TypeOK /\ ShadowInv /\ [Next]_vars => ShadowInv'
  BY ShadowStep
<1>3. Spec => [](TypeOK /\ ShadowInv)
  BY <1>1, <1>2, TypeCorrect, PTL DEF Spec
<1>4. TypeOK /\ ShadowInv /\ [Next]_vars => Lands
  <2> SUFFICES ASSUME TypeOK, ShadowInv, loop.active, ~loop'.active, slip_anchor # None,
                      (\E beats \in LoopHalfBeats : BeatLoop(beats)) \/ Reloop
               PROVE  pos' = AtMost(unlooped, len)
    OBVIOUS
  <2>1. ASSUME NEW start, NEW end, NEW beats, Drive(SetLoop(Here, start, end, beats)) PROVE FALSE
    <3> DEFINE armed == [Here EXCEPT !.loop = [active |-> TRUE, start |-> start,
                                              end |-> AtMost(end, len), beats |-> beats]]
    <3>1. SetLoop(Here, start, end, beats) \in {Here, armed}
      BY DEF SetLoop, Here
    <3>2. Here.loop.active /\ armed.loop.active
      BY DEF Here
    <3> HIDE DEF armed
    <3> QED BY <2>1, <3>1, <3>2 DEF Drive
  <2>2. Drive(ExitLoopSlip(Here))
    BY <2>1, Zenon DEF BeatLoop, Reloop
  <2>3. pos' = Shadow(slip_anchor)
    BY <2>2, ExitLoopSlipLands DEF Drive
  <2> QED BY <2>3 DEF ShadowInv
<1> QED BY <1>3, <1>4, PTL DEF Spec, SlipExitLandsOnTheTrack
=============================================================================
