-------------------------- MODULE DeckPromise_proof --------------------------
(***************************************************************************)
(* A deck with the CUE and PLAY keys, the strip, memory points, AUTO CUE   *)
(* and loads keeps the promise of CuePlay: every step of DeckApp maps to a *)
(* step of the ideal deck or to a stutter, for tracks of every length.     *)
(***************************************************************************)
EXTENDS Deck_proof

USE NoneAssumption, TrackAssumption DEF NoneAssumption, TrackAssumption

\* The controls the ideal deck has.
IdealPanel == {"play", "cue", "needle", "memory", "load", "autocue"}

\* The ideal deck has one length, and its points lie on the track.
OneLength ==
  \A t \in Tracks :
    /\ Length[t] = MaxLength
    /\ LoadCues[t] \subseteq 0 .. MaxLength
    /\ LoadMemory[t] \subseteq 0 .. MaxLength
    /\ FirstSound[t] <= MaxLength

\* Without the loop, hot cue and QUANTIZE controls the deck runs straight on, and
\* its points stay on the track.
Plain ==
  /\ ~loop.active /\ ~quantize
  /\ tr.cue_point <= MaxLength
  /\ memory_cues \subseteq 0 .. MaxLength

\* The transport knows a preview exactly while CUE is held from a press that
\* started one (CuePlay's PreviewIsHeld).
PreviewIsHeld == tr.preview <=> cue_key = "preview"

\* The inductive invariant of the refinement.
Faithful == TypeOK /\ Honest /\ Plain /\ PreviewIsHeld

-----------------------------------------------------------------------------

\* The rules are the same functions in both modules.
LEMMA SameRules ==
  ASSUME NEW t, NEW on, NEW p
  PROVE  /\ Ideal!PlayOrPause(t, on) = PlayOrPause(t, on)
         /\ Ideal!CueDown(t, on, p) = CueDown(t, on, p)
         /\ Ideal!CueUp(t) = CueUp(t)
         /\ Ideal!Searched(t) = Searched(t)
         /\ Ideal!ArrivedAtCue(t, p) = ArrivedAtCue(t, p)
         /\ Ideal!NewTransport(p) = NewTransport(p)
         /\ Ideal!Latch(t) = Latch(t)
  BY DEF Ideal!PlayOrPause, PlayOrPause, Ideal!CueDown, CueDown, Ideal!CueUp, CueUp,
         Ideal!Searched, Searched, Ideal!ArrivedAtCue, ArrivedAtCue,
         Ideal!NewTransport, NewTransport, Ideal!Latch, Latch, Ideal!Result, Result,
         Ideal!SetPlaying, SetPlaying, Ideal!PauseAt, PauseAt, Ideal!PlayFrom, PlayFrom,
         Ideal!LeaveAlone, LeaveAlone

\* apply_transport does to DeckApp what Deck::apply does to the ideal deck.
LEMMA CarryMaps ==
  ASSUME TypeOK, len = MaxLength, NEW r, r.outcome.seek_to \in Nat \cup {None},
         Carry(r), track' = track
  PROVE  Ideal!Carry(r)
<1>1. CASE r.outcome.seek_to = None
  <2>1. Drive(Here)
    BY <1>1 DEF Carry, Landing
  <2>2. pos' = pos
    BY <2>1, StayDoes
  <2> QED
    BY <1>1, <2>2 DEF Carry, Ideal!Carry
<1>2. CASE r.outcome.seek_to # None
  <2>1. r.outcome.seek_to \in Nat /\ Drive(SeekTo(Here, r.outcome.seek_to))
    BY <1>2 DEF Carry, Landing
  <2>2. pos' = AtMost(r.outcome.seek_to, len)
    BY <2>1, SeekDoes
  <2> QED
    BY <1>2, <2>2 DEF Carry, Ideal!Carry, Ideal!Landing, AtMost
<1> QED
  BY <1>1, <1>2

\* seek_to arms no loop.
LEMMA SeekArmsNoLoop ==
  ASSUME loop \in LoopState, ~loop.active, NEW p, Drive(SeekTo(Here, p))
  PROVE  ~loop'.active
<1>1. Here.loop = loop
  BY DEF Here
<1>2. ~SeekWithin(Here, p, len).loop.active
  BY <1>1, SeekWithinArmsNoLoop
<1> QED
  BY <1>2 DEF Drive, SeekTo

\* Neither does apply_transport, whether its outcome seeks or not.
LEMMA CarryArmsNoLoop ==
  ASSUME loop \in LoopState, ~loop.active, NEW r, Carry(r)
  PROVE  ~loop'.active
<1>1. CASE r.outcome.seek_to = None
  <2>1. Drive(Here)
    BY <1>1 DEF Carry, Landing
  <2>2. loop' = loop
    BY <2>1 DEF Drive, Here
  <2> QED
    BY <2>2
<1>2. CASE r.outcome.seek_to # None
  <2>1. Drive(SeekTo(Here, r.outcome.seek_to))
    BY <1>2 DEF Carry, Landing
  <2> QED
    BY <2>1, SeekArmsNoLoop
<1> QED
  BY <1>1, <1>2

\* The other controls are not on this panel.
LEMMA IdealActions ==
  ASSUME Panel \subseteq IdealPanel, Next
  PROVE  \/ Play \/ PlayPause \/ CuePress \/ CueRelease
         \/ \E target \in 0 .. len : Search(target)
         \/ MemoryCueSet \/ MemoryCueDelete \/ MemoryCueCall \/ AutoCue
         \/ \E t \in Tracks : \E cue \in LoadCues[t] : ApplyPrepared(t, cue)
         \/ Advance \/ EndOfTrack
<1>1. Panel \cap {"pause", "jog", "wave", "phone", "hotcue", "beatjump", "loop", "slip",
                   "quantize"} = {}
  BY DEF IdealPanel
<1>2. ~(Pause \/ JogModeToggle \/ JogTouch \/ JogLift \/ WaveTouch \/ WaveLift \/ PhonePageFlip)
  BY <1>1 DEF Pause, JogModeToggle, JogTouch, JogLift, WaveTouch, WaveLift, PhonePageFlip
<1>3. ~(LoopIn \/ LoopOut \/ Reloop \/ SlipToggle \/ QuantizeToggle)
  BY <1>1 DEF LoopIn, LoopOut, Reloop, SlipToggle, QuantizeToggle
<1>4. ~(\E s \in Slots : HotCueSet(s) \/ HotCueTrigger(s) \/ HotCueDelete(s))
  BY <1>1 DEF HotCueSet, HotCueTrigger, HotCueDelete
<1>5. ~(\E jump \in Jumps : BeatJump(jump)) /\ ~(\E beats \in LoopHalfBeats : BeatLoop(beats))
  BY <1>1 DEF BeatJump, BeatLoop
<1> QED
  BY <1>2, <1>3, <1>4, <1>5 DEF Next

\* The loaded track is as long as the ideal deck's.
LEMMA OneLengthHere ==
  ASSUME OneLength, TypeOK
  PROVE  len = MaxLength /\ MaxLength \in Nat
  BY MaxLengthIsNat DEF OneLength, TypeOK, len

-----------------------------------------------------------------------------
(* One step of the deck is one of the ideal deck, or none.                  *)

\* A step of the ideal deck, or a stutter of it.
IdealStep == [Ideal!Next]_(Ideal!vars)

\* Each event handler of DeckApp's that this panel has, and playback, is one
\* operation of the ideal deck (a PLAY pressed while playing is none).
LEMMA StepMaps ==
  ASSUME Panel \subseteq IdealPanel, OneLength, Faithful, [Next]_vars
  PROVE  IdealStep /\ Plain' /\ PreviewIsHeld'
<1>0. /\ TypeOK /\ Honest /\ Plain /\ PreviewIsHeld
      /\ len = MaxLength /\ MaxLength \in Nat /\ pos \in 0 .. MaxLength
      /\ tr \in TransportState /\ playing \in BOOLEAN /\ tr.cue_point \in Nat
      /\ tr.cue_point \in 0 .. MaxLength
      /\ AtMost(tr.cue_point, len) = tr.cue_point
      /\ loop \in LoopState
  BY OneLengthHere DEF Faithful, TypeOK, TransportState, Plain, AtMost, LoopState
<1> DEFINE Goal == IdealStep /\ Plain' /\ PreviewIsHeld'
<1>1. CASE Play
  <2>1. /\ Carry(Latch(tr)) /\ track' = track /\ cue_key' = Locked
        /\ memory_cues' = memory_cues /\ quantize' = quantize
    BY <1>1 DEF Play, LockInPlay, points, modes
  <2>2. tr' = [tr EXCEPT !.preview = FALSE, !.cued = FALSE] /\ playing' = TRUE /\ pos' = pos
    BY <1>0, <2>1, LatchDoes
  <2>3. Plain'
    BY <1>0, <2>1, <2>2, CarryArmsNoLoop DEF Plain, TransportState
  <2>4. PreviewIsHeld'
    BY <1>0, <2>1, <2>2 DEF PreviewIsHeld, Locked, TransportState
  <2>5. IdealStep
    <3>1. CASE tr.preview \/ ~playing
      <4>1. /\ tr' = PlayOrPause(tr, playing).tr
            /\ PlayOrPause(tr, playing).outcome = SetPlaying(TRUE)
        BY <1>0, <2>2, <3>1 DEF PlayOrPause, Latch, Result, TransportState
      <4>2. Ideal!Carry(PlayOrPause(tr, playing))
        <5>1. /\ PlayOrPause(tr, playing).outcome.playing = TRUE
              /\ PlayOrPause(tr, playing).outcome.seek_to = None
          BY <4>1 DEF SetPlaying
        <5> QED
          BY <2>2, <4>1, <5>1 DEF Ideal!Carry
      <4>3. Ideal!PressPlay
        BY <2>1, <4>2, SameRules DEF Ideal!PressPlay, Locked
      <4> QED
        BY <4>3 DEF IdealStep, Ideal!Next
    <3>2. CASE ~tr.preview /\ playing
      <4>1. ~tr.cued
        BY <1>0, <3>2 DEF Honest, CuedStandsStill
      <4>2. tr' = tr
        BY <1>0, <2>2, <3>2, <4>1 DEF TransportState
      <4>3. cue_key' = cue_key
        BY <1>0, <2>1, <3>2 DEF PreviewIsHeld, Locked
      <4> QED
        BY <2>2, <3>2, <4>2, <4>3 DEF IdealStep, Ideal!vars
    <3> QED
      BY <3>1, <3>2
  <2> QED
    BY <2>3, <2>4, <2>5
<1>2. CASE PlayPause
  <2>1. /\ Carry(PlayOrPause(tr, playing)) /\ track' = track /\ cue_key' = Locked
        /\ memory_cues' = memory_cues /\ quantize' = quantize
    BY <1>2 DEF PlayPause, points, modes
  <2>2. PlayOrPause(tr, playing).outcome.seek_to = None
    BY DEF PlayOrPause, Latch, Result, SetPlaying
  <2>3. Ideal!PressPlay
    BY <1>0, <2>1, <2>2, CarryMaps, SameRules DEF Ideal!PressPlay, Locked
  <2>4. tr'.cue_point = tr.cue_point /\ ~tr'.preview
    <3>1. CASE tr.preview
      BY <1>0, <2>1, <3>1, PlayOrPauseDoes DEF TransportState
    <3>2. CASE ~tr.preview /\ playing
      BY <1>0, <2>1, <3>2, PlayOrPauseDoes DEF TransportState
    <3>3. CASE ~tr.preview /\ ~playing
      BY <1>0, <2>1, <3>3, PlayOrPauseDoes DEF TransportState
    <3> QED
      BY <3>1, <3>2, <3>3
  <2>5. Plain' /\ PreviewIsHeld'
    BY <1>0, <2>1, <2>4, CarryArmsNoLoop DEF Plain, PreviewIsHeld, Locked
  <2> QED
    BY <2>3, <2>5 DEF IdealStep, Ideal!Next
<1>3. CASE CuePress
  <2>1. /\ Carry(CueDown(tr, playing, pos)) /\ track' = track /\ cue_key = "up"
        /\ cue_key' = (IF playing THEN "locked" ELSE "preview")
        /\ memory_cues' = memory_cues /\ quantize' = quantize
    BY <1>0, <1>3 DEF CuePress, Quantized, Plain, points, modes
  <2>2. CueDown(tr, playing, pos).outcome.seek_to \in Nat \cup {None}
    BY <1>0 DEF CueDown, Result, SetPlaying, PauseAt, PlayFrom
  <2>3. Ideal!PressCue
    BY <1>0, <2>1, <2>2, CarryMaps, SameRules DEF Ideal!PressCue
  <2>4. ~tr.preview
    BY <1>0, <2>1 DEF PreviewIsHeld
  <2>5. tr'.cue_point \in 0 .. MaxLength /\ (tr'.preview <=> ~playing)
    <3>0. pos \in Nat
      BY <1>0
    <3>1. CASE playing
      <4>1. tr' = [tr EXCEPT !.cued = TRUE]
        BY <1>0, <2>1, <3>0, <3>1, CueDownDoes
      <4> QED
        BY <1>0, <2>4, <3>1, <4>1 DEF TransportState
    <3>2. CASE ~playing /\ tr.cued
      <4>1. tr' = [tr EXCEPT !.preview = TRUE]
        BY <1>0, <2>1, <3>0, <3>2, CueDownDoes
      <4> QED
        BY <1>0, <3>2, <4>1 DEF TransportState
    <3>3. CASE ~playing /\ ~tr.cued
      <4>1. tr' = [cue_point |-> pos, cued |-> TRUE, preview |-> TRUE]
        BY <1>0, <2>1, <3>0, <3>3, CueDownDoes
      <4> QED
        BY <1>0, <3>3, <4>1
    <3> QED
      BY <3>1, <3>2, <3>3
  <2>6. Plain' /\ PreviewIsHeld'
    BY <1>0, <2>1, <2>5, CarryArmsNoLoop DEF Plain, PreviewIsHeld
  <2> QED
    BY <2>3, <2>6 DEF IdealStep, Ideal!Next
<1>4. CASE CueRelease
  <2>1. /\ Carry(CueUp(tr)) /\ track' = track /\ cue_key # "up" /\ cue_key' = "up"
        /\ memory_cues' = memory_cues /\ quantize' = quantize
    BY <1>4 DEF CueRelease, points, modes
  <2>2. CueUp(tr).outcome.seek_to \in Nat \cup {None}
    BY <1>0 DEF CueUp, Result, LeaveAlone, PauseAt
  <2>3. Ideal!ReleaseCue
    BY <1>0, <2>1, <2>2, CarryMaps, SameRules DEF Ideal!ReleaseCue
  <2>4. tr'.cue_point = tr.cue_point /\ ~tr'.preview
    <3>1. CASE tr.preview
      BY <1>0, <2>1, <3>1, CueUpDoes DEF TransportState
    <3>2. CASE ~tr.preview
      BY <1>0, <2>1, <3>2, CueUpDoes DEF TransportState
    <3> QED
      BY <3>1, <3>2
  <2>5. Plain' /\ PreviewIsHeld'
    BY <1>0, <2>1, <2>4, CarryArmsNoLoop DEF Plain, PreviewIsHeld
  <2> QED
    BY <2>3, <2>5 DEF IdealStep, Ideal!Next
<1>5. ASSUME NEW target \in 0 .. len, Search(target) PROVE Goal
  <2>1. /\ Drive(SeekTo(Here, target)) /\ tr' = Searched(tr) /\ track' = track
        /\ playing' = playing /\ cue_key' = cue_key /\ memory_cues' = memory_cues
        /\ quantize' = quantize
    BY <1>5 DEF Search, points, modes
  <2>2. target \in 0 .. MaxLength /\ target \in Nat /\ AtMost(target, len) = target
    BY <1>0 DEF AtMost
  <2>3. pos' = target
    BY <1>0, <2>1, <2>2, SeekDoes
  <2>4. Ideal!Needle(target)
    BY <2>1, <2>3, SameRules DEF Ideal!Needle
  <2>5. tr'.cue_point = tr.cue_point /\ tr'.preview = tr.preview
    BY <1>0, <2>1 DEF Searched, TransportState
  <2>6. Plain' /\ PreviewIsHeld'
    BY <1>0, <2>1, <2>5, SeekArmsNoLoop DEF Plain, PreviewIsHeld
  <2> QED
    BY <2>2, <2>4, <2>6 DEF IdealStep, Ideal!Next, Ideal!Positions
<1>6. CASE MemoryCueSet \/ MemoryCueDelete
  <2>1. UNCHANGED <<playing, pos, tr, cue_key, loop, quantize>>
    BY <1>6 DEF MemoryCueSet, MemoryCueDelete, transport, drive, modes
  <2>2. memory_cues' \subseteq 0 .. MaxLength
    BY <1>0, <1>6 DEF MemoryCueSet, MemoryCueDelete, Plain
  <2> QED
    BY <1>0, <2>1, <2>2 DEF IdealStep, Ideal!vars, Plain, PreviewIsHeld
<1>7. CASE MemoryCueCall
  <2>1. PICK m \in NextPoint(pos) \cup PrevPoint(pos) :
          tr' = ArrivedAtCue([tr EXCEPT !.preview = FALSE], m) /\ Drive(SeekTo(Here, m))
    BY <1>7 DEF MemoryCueCall
  <2>2. m \in 0 .. MaxLength /\ m \in Nat /\ AtMost(m, len) = m
    BY <1>0 DEF NextPoint, PrevPoint, Plain, AtMost
  <2>3. /\ track' = track /\ playing' = FALSE /\ cue_key' = Locked
        /\ memory_cues' = memory_cues /\ quantize' = quantize
    BY <1>7 DEF MemoryCueCall, points, modes
  <2>4. pos' = m
    BY <1>0, <2>1, <2>2, <2>3, SeekDoes
  <2>5. Ideal!PlaceOnCue(m)
    BY <2>1, <2>3, <2>4, SameRules DEF Ideal!PlaceOnCue, Locked
  <2>6. tr'.cue_point = m /\ ~tr'.preview
    BY <1>0, <2>1 DEF ArrivedAtCue, TransportState
  <2>7. Plain' /\ PreviewIsHeld'
    BY <1>0, <2>1, <2>2, <2>3, <2>6, SeekArmsNoLoop DEF Plain, PreviewIsHeld, Locked
  <2> QED
    BY <2>2, <2>5, <2>7 DEF IdealStep, Ideal!Next, Ideal!Positions
<1>8. CASE AutoCue
  <2> DEFINE f == FirstSound[track]
  <2>1. f \in 0 .. MaxLength /\ f \in Nat /\ AtMost(f, len) = f
    <3>1. track \in Tracks /\ FirstSound[track] \in Nat
      BY <1>0 DEF TypeOK
    <3>2. FirstSound[track] <= MaxLength
      BY <3>1 DEF OneLength
    <3> QED
      BY <1>0, <3>1, <3>2 DEF AtMost
  <2>2. /\ Drive(SeekTo(Here, f)) /\ tr' = ArrivedAtCue(tr, f) /\ ~playing
        /\ UNCHANGED <<track, playing, cue_key, memory_cues, quantize>>
    BY <1>8 DEF AutoCue, points, modes
  <2> HIDE DEF f
  <2>3. pos' = f
    BY <1>0, <2>1, <2>2, SeekDoes
  <2>4. Ideal!Recue(f)
    BY <2>2, <2>3, SameRules DEF Ideal!Recue
  <2>5. tr'.cue_point = f /\ tr'.preview = tr.preview
    BY <1>0, <2>2 DEF ArrivedAtCue, TransportState
  <2>6. Plain' /\ PreviewIsHeld'
    BY <1>0, <2>1, <2>2, <2>5, SeekArmsNoLoop DEF Plain, PreviewIsHeld
  <2> QED
    BY <2>1, <2>4, <2>6 DEF IdealStep, Ideal!Next, Ideal!Positions
<1>9. ASSUME NEW t \in Tracks, NEW cue \in LoadCues[t], ApplyPrepared(t, cue) PROVE Goal
  <2> DEFINE top == [Here EXCEPT !.pos = 0]
             d == IF cue > 0 THEN SeekWithin(top, cue, Length[t]) ELSE top
  <2>1. /\ cue \in 0 .. MaxLength /\ cue \in Nat /\ Length[t] = MaxLength
        /\ AtMost(cue, MaxLength) = cue
    BY <1>0 DEF OneLength, AtMost
  <2>2. top.pos = 0 /\ top.loop = loop /\ top \in DriveState(len) /\ len \in Nat
    BY <1>0, HereIsDrive DEF Here, DriveState
  <2>3. d.pos = cue /\ ~d.loop.active
    <3>1. CASE cue > 0
      <4>1. SeekWithin(top, cue, Length[t]).pos = cue
        <5>1. Length[t] \in Nat /\ cue \in Nat /\ AtMost(cue, Length[t]) = cue
          BY <1>0, <2>1
        <5> QED
          BY <2>2, <5>1, SeekKeepsDrive
      <4>2. ~SeekWithin(top, cue, Length[t]).loop.active
        BY <1>0, <2>2, SeekWithinArmsNoLoop DEF Plain
      <4> QED
        BY <3>1, <4>1, <4>2
    <3>2. CASE ~(cue > 0)
      BY <1>0, <2>1, <2>2, <3>2 DEF Plain
    <3> QED
      BY <3>1, <3>2
  <2>4. /\ track' = t /\ pos' = d.pos /\ loop' = d.loop /\ playing' = FALSE
        /\ cue_key' = Locked
        /\ tr' = ArrivedAtCue([tr EXCEPT !.preview = FALSE], cue)
        /\ memory_cues' = LoadMemory[t]
        /\ quantize' = quantize
    BY <1>9 DEF ApplyPrepared, modes
  <2> HIDE DEF d
  <2>5. Ideal!PlaceOnCue(cue)
    BY <2>3, <2>4, SameRules DEF Ideal!PlaceOnCue, Locked
  <2>6. tr'.cue_point = cue /\ ~tr'.preview
    BY <1>0, <2>4 DEF ArrivedAtCue, TransportState
  <2>7. Plain' /\ PreviewIsHeld'
    BY <1>0, <2>1, <2>3, <2>4, <2>6 DEF Plain, PreviewIsHeld, Locked, OneLength
  <2> QED
    BY <2>1, <2>5, <2>7 DEF IdealStep, Ideal!Next, Ideal!Positions
<1>10. CASE Advance
  <2>1. playing /\ pos < MaxLength /\ pos' = pos + 1
    BY <1>0, <1>10 DEF Advance, Looping, Plain
  <2>2. UNCHANGED <<playing, tr, cue_key, loop, memory_cues, quantize>>
    BY <1>10 DEF Advance, transport, points, modes
  <2>3. Ideal!Advance
    BY <2>1, <2>2 DEF Ideal!Advance
  <2> QED
    BY <1>0, <2>2, <2>3 DEF IdealStep, Ideal!Next, Plain, PreviewIsHeld
<1>11. CASE EndOfTrack
  <2>1. playing /\ pos = MaxLength /\ playing' = FALSE
    BY <1>0, <1>11 DEF EndOfTrack
  <2>2. UNCHANGED <<pos, tr, cue_key, loop, memory_cues, quantize>>
    BY <1>11 DEF EndOfTrack, drive, points, modes
  <2>3. Ideal!EndOfTrack
    BY <2>1, <2>2 DEF Ideal!EndOfTrack
  <2> QED
    BY <1>0, <2>2, <2>3 DEF IdealStep, Ideal!Next, Plain, PreviewIsHeld
<1>12. CASE UNCHANGED vars
  <2>1. UNCHANGED <<playing, pos, tr, cue_key, loop, memory_cues, quantize>>
    BY <1>12 DEF vars, transport, drive, points, modes
  <2> QED
    BY <1>0, <2>1 DEF IdealStep, Ideal!vars, Plain, PreviewIsHeld
<1> QED
  BY <1>1, <1>2, <1>3, <1>4, <1>5, <1>6, <1>7, <1>8, <1>9, <1>10, <1>11, <1>12, IdealActions

\* KeepsThePromise: DeckApp's event loop, on tracks of one length with any points
\* on them, implements the ideal deck of the CUE and PLAY rules.
THEOREM DeckKeepsThePromise ==
  ASSUME Panel \subseteq IdealPanel, Boot # "autoplay", OneLength
  PROVE  Spec => KeepsThePromise
<1>1. Init => Faithful /\ Ideal!Init
  <2> SUFFICES ASSUME Init PROVE Faithful /\ Ideal!Init
    OBVIOUS
  <2>1. PICK cue \in LoadCues[track] : pos = AtMost(cue, len) /\ tr = NewTransport(cue)
    BY Zenon DEF Init
  <2>2. TypeOK /\ len = MaxLength /\ MaxLength \in Nat /\ track \in Tracks
    BY TypeInit, OneLengthHere DEF Init
  <2>3. cue \in 0 .. MaxLength /\ pos = cue
    BY <2>1, <2>2 DEF OneLength, AtMost
  <2>4. tr.cue_point = cue /\ tr.cued /\ ~tr.preview /\ playing = FALSE /\ cue_key = "up"
    BY <2>1 DEF Init, NewTransport
  <2>5. Honest
    BY <2>1, <2>4 DEF Honest, CuedIsHonest, CuedStandsStill
  <2>6. Plain /\ PreviewIsHeld
    BY <2>2, <2>3, <2>4 DEF Init, Plain, PreviewIsHeld, OneLength
  <2>7. Ideal!Init
    BY <2>1, <2>3, <2>4, SameRules DEF Ideal!Init, Ideal!Positions
  <2> QED
    BY <2>2, <2>5, <2>6, <2>7 DEF Faithful
<1>2. Faithful /\ [Next]_vars => Faithful' /\ [Ideal!Next]_(Ideal!vars)
  <2>1. Panel \cap {"loop", "beatjump"} = {}
    BY DEF IdealPanel
  <2> QED
    BY <2>1, TypeStep, HonestStep, StepMaps DEF Faithful, IdealStep
<1> QED
  BY <1>1, <1>2, PTL DEF Spec, KeepsThePromise, Ideal!Spec
=============================================================================
