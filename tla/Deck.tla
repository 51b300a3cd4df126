-------------------------------- MODULE Deck --------------------------------
(***************************************************************************)
(* DeckApp: the event loop's half of the deck.  Every control event a      *)
(* surface, a key or the touch screen can send is one action, applied      *)
(* whole (DeckApp::apply); between events the track plays, ends, or is     *)
(* replaced by a load that has landed.                                     *)
(*                                                                         *)
(* Positions are counted in frames from the start of the track, and `pos`  *)
(* is the heard playhead (smoothed_pos); the decoder's read-ahead is the   *)
(* subject of AudioEngine.  The speed of playback is not modelled here.    *)
(***************************************************************************)
EXTENDS Transport, FiniteSets

CONSTANTS
  Tracks,        \* the tracks that may be loaded
  Length,        \* [Tracks -> Nat]: samples.len()
  LoadCues,      \* [Tracks -> SUBSET Nat]: cue points a load may resolve to
  LoadMemory,    \* [Tracks -> SUBSET Nat]: memory points of its analysis
  FirstSound,    \* [Tracks -> Nat]: where AUTO CUE would put the cue
  BeatPeriod,    \* [Tracks -> Nat]: frames per beat, 0 without a beat grid
  LoopHalfBeats, \* loop pad lengths, in half beats
  Jumps,         \* beat jumps, in beats, as <<back, forward>> pairs of Nat
  Slots,         \* hot cue slots
  MaxMemory,     \* memory_cues holds at most this many (10 in the code)
  Panel,         \* the controls this deck's surfaces carry
  Boot           \* "parked" or "autoplay": how the deck comes up

\* What a loaded track is: its length, the points found in it and its grid.
ASSUME TrackAssumption ==
  /\ Length \in [Tracks -> Nat]
  /\ BeatPeriod \in [Tracks -> Nat]
  /\ FirstSound \in [Tracks -> Nat]
  /\ LoadCues \in [Tracks -> SUBSET Nat]
  /\ LoadMemory \in [Tracks -> SUBSET Nat]

\* Of the tracks one may load, one is the longest.
ASSUME LongestAssumption == \E t \in Tracks : \A u \in Tracks : Length[u] <= Length[t]

\* Loop pads and jumps are counted in whole half beats and beats.
ASSUME BeatAssumption == LoopHalfBeats \subseteq Nat /\ Jumps \subseteq Nat \X Nat

VARIABLES
  track,         \* the loaded track
  playing,       \* audio.playing
  pos,           \* smoothed_pos
  tr,            \* transport
  jog_vinyl,     \* settings.jog_vinyl
  quantize,      \* settings.quantize
  jog_hold_resume, wave_hold_resume,
  memory_cues,   \* a set: the code keeps the vector sorted
  hot_cues,
  loop,          \* audio.loop_active, loop_start, loop_end and loop_beats
  slip,
  slip_anchor,   \* None, or where shadowing began and the frames consumed since
  cue_key,       \* history of CUE: "up", "preview" or "locked", as in CuePlay
  unlooped       \* history: where the track would be had no slip action run

transport == <<playing, tr, cue_key>>
holds     == <<jog_hold_resume, wave_hold_resume>>
points    == <<memory_cues, hot_cues>>
modes     == <<jog_vinyl, quantize>>
drive     == <<pos, loop, slip_anchor, unlooped>>
vars      == <<track, transport, drive, holds, points, modes, slip>>

len    == Length[track]
period == BeatPeriod[track]

MaxLength == CHOOSE m \in {Length[t] : t \in Tracks} : \A t \in Tracks : Length[t] <= m

AtMost(a, b) == IF a <= b THEN a ELSE b

-----------------------------------------------------------------------------
(* The grid.                                                                *)

\* quantized: a point the DJ sets, on the nearest beat when QUANTIZE is on.
Quantized(p) ==
  IF quantize /\ period > 0 THEN ((2 * p + period) \div (2 * period)) * period ELSE p

\* beat_floor: the start of the beat the position is in.
BeatFloor(p) == IF period > 0 THEN (p \div period) * period ELSE p

\* BeatJump's target: so many beats back and forward, clamped to the track.
Jumped(p, jump) ==
  LET back == jump[1] * period
      from == IF p >= back THEN p - back ELSE 0
  IN  AtMost(from + jump[2] * period, len)

-----------------------------------------------------------------------------
(* The playhead, the loop and the slip shadow move together: a drive is    *)
(* [pos, loop, anchor], and the helpers below map drives to drives.        *)

Here == [pos |-> pos, loop |-> loop, anchor |-> slip_anchor]

\* Mutant of Shadow: what was consumed since the anchor is forgotten.
ShadowStandsStill(anchor) == AtMost(anchor.at, len)

\* slip_shadow: the anchor's position plus what was consumed since.
Shadow(anchor) == AtMost(anchor.at + anchor.consumed, len)

\* Mutant of SeekWithin: a seek out of the loop leaves it running.
SeekWithinLoop(d, target, n) == [d EXCEPT !.pos = AtMost(target, n), !.anchor = None]

\* seek_to in a track of n frames: clamp, leave a loop the target is outside of,
\* cancel the shadow.
SeekWithin(d, target, n) ==
  LET p == AtMost(target, n)
      left == d.loop.active /\ (p < d.loop.start \/ p >= d.loop.end)
  IN  [pos |-> p, anchor |-> None,
       loop |-> [d.loop EXCEPT !.active = @ /\ ~left]]

SeekTo(d, target) == SeekWithin(d, target, len)

AnchorAt(p) == [at |-> p, consumed |-> 0]

\* slip_begin with SLIP on: start shadowing, unless a shadow already runs.
SlipBegin(d) == IF d.anchor = None THEN [d EXCEPT !.anchor = AnchorAt(d.pos)] ELSE d

\* set_loop: arm [start, end) if any of it is inside the track.
SetLoop(d, start, end, beats) ==
  LET e == AtMost(end, len)
      armed == [d EXCEPT !.loop = [active |-> TRUE, start |-> start, end |-> e, beats |-> beats]]
  IN  IF e <= start THEN d ELSE IF slip /\ ~d.loop.active THEN SlipBegin(armed) ELSE armed

\* exit_loop: the bounds stay for RELOOP.
ExitLoop(d) == [d EXCEPT !.loop.active = FALSE]

\* exit_loop_slip: leave the loop and snap to the shadow.
ExitLoopSlip(d) ==
  IF d.anchor = None THEN ExitLoop(d)
  ELSE SeekTo([ExitLoop(d) EXCEPT !.anchor = None], Shadow(d.anchor))

\* The drive after a step that begins no new track; the history follows the
\* playhead until a shadow begins, and is then left to Advance.
Drive(d) ==
  /\ pos' = d.pos
  /\ loop' = d.loop
  /\ slip_anchor' = d.anchor
  /\ unlooped' = IF d.anchor = None THEN d.pos
                 ELSE IF d.anchor = slip_anchor THEN unlooped ELSE pos

-----------------------------------------------------------------------------
(* Transport: apply_transport carries an outcome out.                       *)

Landing(outcome) == IF outcome.seek_to = None THEN Here ELSE SeekTo(Here, outcome.seek_to)

Carry(result) ==
  /\ tr' = result.tr
  /\ playing' = IF result.outcome.playing = None THEN playing ELSE result.outcome.playing
  /\ Drive(Landing(result.outcome))

\* What a latching key does to the CUE key's history.
Locked == IF cue_key = "preview" THEN "locked" ELSE cue_key

LockInPlay == Carry(Latch(tr)) /\ cue_key' = Locked

Play ==
  /\ "play" \in Panel
  /\ LockInPlay
  /\ UNCHANGED <<track, holds, points, modes, slip>>

Pause ==
  /\ "pause" \in Panel
  /\ playing' = FALSE
  /\ UNCHANGED <<track, tr, cue_key, drive, holds, points, modes, slip>>

PlayPause ==
  /\ "play" \in Panel
  /\ Carry(PlayOrPause(tr, playing))
  /\ cue_key' = Locked
  /\ UNCHANGED <<track, holds, points, modes, slip>>

CuePress ==
  /\ "cue" \in Panel
  /\ cue_key = "up"
  /\ Carry(CueDown(tr, playing, Quantized(pos)))
  /\ cue_key' = IF playing THEN "locked" ELSE "preview"
  /\ UNCHANGED <<track, holds, points, modes, slip>>

CueRelease ==
  /\ "cue" \in Panel
  /\ cue_key # "up"
  /\ Carry(CueUp(tr))
  /\ cue_key' = "up"
  /\ UNCHANGED <<track, holds, points, modes, slip>>

-----------------------------------------------------------------------------
(* The platter and the waveform.                                            *)

JogModeToggle ==
  /\ "jog" \in Panel
  /\ jog_vinyl' = ~jog_vinyl
  /\ UNCHANGED <<track, transport, drive, holds, points, quantize, slip>>

JogTouch ==
  /\ "jog" \in Panel /\ jog_vinyl /\ playing
  /\ playing' = FALSE
  /\ jog_hold_resume' = TRUE
  /\ UNCHANGED <<track, tr, cue_key, drive, wave_hold_resume, points, modes, slip>>

JogLift ==
  /\ "jog" \in Panel /\ jog_hold_resume
  /\ jog_hold_resume' = FALSE
  /\ Carry(Latch(tr))
  /\ UNCHANGED <<track, cue_key, wave_hold_resume, points, modes, slip>>

WaveTouch ==
  /\ "wave" \in Panel /\ playing
  /\ playing' = FALSE
  /\ wave_hold_resume' = TRUE
  /\ UNCHANGED <<track, tr, cue_key, drive, jog_hold_resume, points, modes, slip>>

WaveLift ==
  /\ "wave" \in Panel /\ wave_hold_resume
  /\ wave_hold_resume' = FALSE
  /\ Carry(Latch(tr))
  /\ UNCHANGED <<track, cue_key, jog_hold_resume, points, modes, slip>>

\* JogDelta (paused, or VINYL), WaveDrag and NeedleSearch: the wheel, the finger
\* or the strip picks any target.  A CDJ-mode nudge while playing moves nothing.
Search(target) ==
  /\ \/ "jog" \in Panel /\ (jog_vinyl \/ ~playing)
     \/ Panel \cap {"wave", "needle"} # {}
  /\ Drive(SeekTo(Here, target))
  /\ tr' = Searched(tr)
  /\ UNCHANGED <<track, playing, cue_key, holds, points, modes, slip>>

\* release_held_controls, when the phone flips its page: both lifts in turn,
\* then CUE if a preview is still running.
PhonePageFlip ==
  /\ "phone" \in Panel
  /\ IF jog_hold_resume \/ wave_hold_resume
     THEN Carry(Latch(tr))
     ELSE Carry(CueUp(tr))
  /\ jog_hold_resume' = FALSE /\ wave_hold_resume' = FALSE
  /\ cue_key' = "up"
  /\ UNCHANGED <<track, points, modes, slip>>
-----------------------------------------------------------------------------
(* Memory points, hot cues, beat jumps.                                     *)

MemoryCueSet ==
  /\ "memory" \in Panel
  /\ len > 0
  /\ Cardinality(memory_cues) < MaxMemory
  /\ memory_cues' = memory_cues \cup {tr.cue_point}
  /\ UNCHANGED <<track, transport, drive, holds, hot_cues, modes, slip>>

MemoryCueDelete ==
  /\ "memory" \in Panel
  /\ memory_cues' = memory_cues \ {tr.cue_point}
  /\ UNCHANGED <<track, transport, drive, holds, hot_cues, modes, slip>>

\* The nearest memory point strictly after, or strictly before, the playhead.
NextPoint(p) == {m \in memory_cues : m > p /\ \A n \in memory_cues : n > p => m <= n}
PrevPoint(p) == {m \in memory_cues : m < p /\ \A n \in memory_cues : n < p => n <= m}

MemoryCueCall ==
  /\ "memory" \in Panel
  /\ \E m \in NextPoint(pos) \cup PrevPoint(pos) :
       /\ tr' = ArrivedAtCue([tr EXCEPT !.preview = FALSE], m)
       /\ Drive(SeekTo(Here, m))
  /\ playing' = FALSE
  /\ cue_key' = Locked
  /\ UNCHANGED <<track, holds, points, modes, slip>>

HotCueSet(s) ==
  /\ "hotcue" \in Panel
  /\ len > 0
  /\ hot_cues' = [hot_cues EXCEPT ![s] = Quantized(pos)]
  /\ UNCHANGED <<track, transport, drive, holds, memory_cues, modes, slip>>

HotCueTrigger(s) ==
  /\ "hotcue" \in Panel
  /\ hot_cues[s] # None
  /\ Drive(SeekTo(Here, hot_cues[s]))
  /\ tr' = Latch(tr).tr /\ playing' = TRUE
  /\ cue_key' = Locked
  /\ UNCHANGED <<track, holds, points, modes, slip>>

HotCueDelete(s) ==
  /\ "hotcue" \in Panel
  /\ hot_cues' = [hot_cues EXCEPT ![s] = None]
  /\ UNCHANGED <<track, transport, drive, holds, memory_cues, modes, slip>>

BeatJump(jump) ==
  /\ "beatjump" \in Panel
  /\ period > 0
  /\ Drive(SeekTo(Here, Jumped(pos, jump)))
  /\ UNCHANGED <<track, transport, holds, points, modes, slip>>

-----------------------------------------------------------------------------
(* Loops and SLIP.                                                          *)

BeatLoop(beats) ==
  /\ "loop" \in Panel
  /\ period > 0
  /\ LET start == IF loop.active THEN loop.start ELSE BeatFloor(pos)
     IN  IF loop.active /\ loop.beats = beats
         THEN Drive(ExitLoopSlip(Here))
         ELSE Drive(SetLoop(Here, start, start + (beats * period) \div 2, beats))
  /\ UNCHANGED <<track, transport, holds, points, modes, slip>>

\* A running loop ends here without the slip jump, and its bounds are lost.
LoopIn ==
  /\ "loop" \in Panel
  /\ LET p == Quantized(pos)
     IN  Drive([Here EXCEPT !.loop = [active |-> FALSE, start |-> p, end |-> p, beats |-> 0]])
  /\ UNCHANGED <<track, transport, holds, points, modes, slip>>

LoopOut ==
  /\ "loop" \in Panel
  /\ Quantized(pos) > loop.start
  /\ Drive(SetLoop(Here, loop.start, Quantized(pos), 0))
  /\ UNCHANGED <<track, transport, holds, points, modes, slip>>

\* LoopToggle and Reloop: leave a running loop, or go back into the last one.
\* With SLIP the shadow starts where the deck was, not at the loop's start.
Reloop ==
  /\ "loop" \in Panel
  /\ IF loop.active THEN Drive(ExitLoopSlip(Here))
     ELSE /\ loop.end > loop.start
          /\ LET again == SetLoop(SeekTo(Here, loop.start), loop.start, loop.end, loop.beats)
             IN  Drive(IF slip THEN [again EXCEPT !.anchor = AnchorAt(pos)] ELSE again)
  /\ UNCHANGED <<track, transport, holds, points, modes, slip>>

SlipToggle ==
  /\ "slip" \in Panel
  /\ slip' = ~slip
  /\ Drive(IF slip THEN [Here EXCEPT !.anchor = None]
           ELSE IF loop.active THEN SlipBegin(Here) ELSE Here)
  /\ UNCHANGED <<track, transport, holds, points, modes>>

-----------------------------------------------------------------------------
(* Settings, loads, and the track running on.                               *)

QuantizeToggle ==
  /\ "quantize" \in Panel
  /\ quantize' = ~quantize
  /\ UNCHANGED <<track, transport, drive, holds, points, jog_vinyl, slip>>

\* AUTO CUE turned on over a track still cued at its start, and paused.
AutoCue ==
  /\ "autocue" \in Panel
  /\ tr.cue_point = 0 /\ ~playing /\ FirstSound[track] > 0
  /\ Drive(SeekTo(Here, FirstSound[track]))
  /\ tr' = ArrivedAtCue(tr, FirstSound[track])
  /\ UNCHANGED <<track, playing, cue_key, holds, points, modes, slip>>

\* Mutant of ApplyPrepared: a preview survives the load.
ApplyPreparedInPreview(t, cue) ==
  /\ "load" \in Panel
  /\ track' = t
  /\ memory_cues' = LoadMemory[t]
  /\ hot_cues' = [s \in Slots |-> None]
  /\ playing' = FALSE
  /\ tr' = ArrivedAtCue(tr, cue)
  /\ cue_key' = Locked
  /\ pos' = cue /\ unlooped' = cue /\ slip_anchor' = None
  /\ UNCHANGED <<loop, holds, modes, slip>>

\* apply_prepared: the track that was loading is swapped in and the deck parked
\* at its cue.  Only a cue past the start seeks there, which is what ends a
\* loop or a shadow of the old track.
ApplyPrepared(t, cue) ==
  /\ "load" \in Panel
  /\ track' = t
  /\ memory_cues' = LoadMemory[t]
  /\ hot_cues' = [s \in Slots |-> None]
  /\ playing' = FALSE
  /\ tr' = ArrivedAtCue([tr EXCEPT !.preview = FALSE], cue)
  /\ cue_key' = Locked
  /\ LET top == [Here EXCEPT !.pos = 0]
         d   == IF cue > 0 THEN SeekWithin(top, cue, Length[t]) ELSE top
     IN  /\ pos' = d.pos /\ loop' = d.loop /\ slip_anchor' = d.anchor
         /\ unlooped' = d.pos
  /\ UNCHANGED <<holds, modes, slip>>

\* The loop the processor honours: read_block wraps only a loop inside the track.
Looping == loop.active /\ loop.end > loop.start /\ loop.end <= len

\* One frame is heard and one more consumed.  A loop that ends where the track
\* does wraps, or lets the cursor reach the end when a block ends exactly there.
Advance ==
  /\ playing
  /\ pos < len
  /\ pos' \in IF Looping /\ pos + 1 >= loop.end
             THEN {loop.start} \cup (IF loop.end = len THEN {len} ELSE {})
             ELSE {pos + 1}
  /\ slip_anchor' = IF slip_anchor = None THEN None
                    ELSE [slip_anchor EXCEPT !.consumed = AtMost(@ + 1, MaxLength)]
  /\ unlooped' = IF slip_anchor = None THEN pos' ELSE AtMost(unlooped + 1, len)
  /\ UNCHANGED <<track, transport, loop, holds, points, modes, slip>>

EndOfTrack ==
  /\ playing
  /\ pos >= len
  /\ playing' = FALSE
  /\ UNCHANGED <<track, tr, cue_key, drive, holds, points, modes, slip>>

\* DeckApp::new, and main's seek that parks the startup track at its cue.
Init ==
  /\ track \in Tracks
  /\ \E cue \in LoadCues[track] : pos = AtMost(cue, len) /\ tr = NewTransport(cue)
  /\ playing = (Boot = "autoplay")
  /\ jog_vinyl = FALSE /\ quantize = FALSE
  /\ jog_hold_resume = FALSE /\ wave_hold_resume = FALSE
  /\ memory_cues = LoadMemory[track]
  /\ hot_cues = [s \in Slots |-> None]
  /\ loop = [active |-> FALSE, start |-> 0, end |-> 0, beats |-> 0]
  /\ slip = FALSE /\ slip_anchor = None
  /\ cue_key = "up" /\ unlooped = pos

Next ==
  \/ Play \/ Pause \/ PlayPause
  \/ CuePress \/ CueRelease
  \/ JogModeToggle \/ JogTouch \/ JogLift
  \/ WaveTouch \/ WaveLift
  \/ \E target \in 0 .. len : Search(target)
  \/ PhonePageFlip
  \/ MemoryCueSet \/ MemoryCueDelete \/ MemoryCueCall
  \/ \E s \in Slots : HotCueSet(s) \/ HotCueTrigger(s) \/ HotCueDelete(s)
  \/ \E jump \in Jumps : BeatJump(jump)
  \/ \E beats \in LoopHalfBeats : BeatLoop(beats)
  \/ LoopIn \/ LoopOut \/ Reloop \/ SlipToggle
  \/ QuantizeToggle \/ AutoCue
  \/ \E t \in Tracks : \E cue \in LoadCues[t] : ApplyPrepared(t, cue)
  \/ Advance \/ EndOfTrack

Spec == Init /\ [][Next]_vars
-----------------------------------------------------------------------------
(* Properties.                                                              *)

TypeOK ==
  /\ track \in Tracks /\ playing \in BOOLEAN /\ pos \in 0 .. len
  /\ tr \in TransportState
  /\ jog_vinyl \in BOOLEAN /\ quantize \in BOOLEAN /\ slip \in BOOLEAN
  /\ jog_hold_resume \in BOOLEAN /\ wave_hold_resume \in BOOLEAN
  /\ memory_cues \subseteq Nat
  /\ hot_cues \in [Slots -> Nat \cup {None}]
  /\ loop \in [active : BOOLEAN, start : Nat, end : Nat, beats : Nat]
  /\ slip_anchor \in [at : Nat, consumed : Nat] \cup {None}
  /\ cue_key \in {"up", "preview", "locked"}
  /\ unlooped \in Nat

\* "every path that moves the playhead has to keep [cued] honest"
\* (crates/transport/src/lib.rs): on a deck standing still outside a preview,
\* `cued` is true only when the playhead is on the cue point (or on the end of
\* the track, where a cue past it lands).  Otherwise a CUE press previews an
\* older cue instead of setting one where the DJ stopped.
CuedIsHonest ==
  tr.cued /\ ~playing /\ ~tr.preview => pos = AtMost(tr.cue_point, len)

\* "releasing CUE without PLAY returns to the cue and pauses"
\* (docs/design/transport-rules.md): a release that ends a preview no play
\* control has latched stops the deck on its cue.
PreviewReturns ==
  [][CueRelease /\ cue_key = "preview" =>
       ~playing' /\ pos' = AtMost(tr'.cue_point, len)]_vars

\* A running loop clear of the track's end keeps the playhead: once inside its
\* bounds, nothing but the end of the loop takes it out, neither playback nor any
\* seek.
RunningLoopHoldsPlayhead ==
  [][(Looping /\ loop.end < len /\ pos \in loop.start .. loop.end - 1 /\ loop'.active
      /\ loop'.start = loop.start /\ loop'.end = loop.end)
     => pos' \in loop'.start .. loop'.end - 1]_vars

\* Leaving a loop with SLIP engaged lands where the track would be had the loop
\* never run (the comment on slip_shadow), whatever loops, resizes and reloops
\* came in between.
SlipExitLandsOnTheTrack ==
  [][((\E beats \in LoopHalfBeats : BeatLoop(beats)) \/ Reloop)
       /\ loop.active /\ ~loop'.active /\ slip_anchor # None
     => pos' = AtMost(unlooped, len)]_vars

-----------------------------------------------------------------------------
(* A deck with the CUE and PLAY keys, the strip, memory points, AUTO CUE    *)
(* and loads, whose tracks have one length, is the ideal deck of CuePlay.   *)

Ideal == INSTANCE CuePlay WITH Length <- MaxLength, held <- cue_key

\* Every step such a deck takes is one the CUE / PLAY rules promise.
KeepsThePromise == Ideal!Spec
=============================================================================
