---------------------------- MODULE DeviceStream ----------------------------
(***************************************************************************)
(* The output device: the callback that plays the ring and fades a stop,   *)
(* the processor that fills the ring and asks it to be flushed on a seek,  *)
(* and the supervisor thread that builds the device stream again when the  *)
(* driver gives up (on Linux; elsewhere the handle owns the stream and     *)
(* nothing builds it again).  The deck has a track.  A block of audio is a *)
(* token in the ring; a level is                                           *)
(* the gain in fade steps, of which the code plays the square.             *)
(***************************************************************************)
EXTENDS Naturals

CONSTANTS FadeFrames,   \* STOP_FADE_S in frames: the gain falls one step each
          Buffers,      \* the buffer sizes the device may ask for
          RingBlocks,   \* blocks the ring holds
          MaxFails, MaxRefusals, MaxSeeks   \* bounds of what goes wrong

ASSUME StreamAssumption ==
  /\ FadeFrames \in Nat \ {0} /\ RingBlocks \in Nat \ {0}
  /\ Buffers \subseteq Nat \ {0} /\ Buffers # {}

VARIABLES playing, shutdown,   \* stored by the UI
          gain,         \* the callback's gain, kept between buffers
          loud,         \* the loudest frame of the last buffer
          ring,         \* blocks in the ring
          seek, drain,  \* seek_request, drain_flag
          proc,         \* the processor: at its loop's top, or waiting for a flush
          stream,       \* the device stream: live, dead, none
          failed,       \* raised by the stream's error callback
          sup,          \* the supervisor: polling, building, built, returned
          fails, refusals, seeks

callbackVars == <<gain, loud>>
superVars    == <<stream, failed, sup, fails, refusals>>
deviceVars   == <<playing, shutdown, gain, loud, ring, seek, drain, proc, stream,
                  failed, sup, fails, refusals, seeks>>

-----------------------------------------------------------------------------
\* The UI.

SetPlaying(on) ==
  /\ ~shutdown /\ playing # on /\ playing' = on
  /\ UNCHANGED <<shutdown, callbackVars, ring, seek, drain, proc, superVars, seeks>>

Seek ==
  /\ ~shutdown /\ seeks < MaxSeeks
  /\ seek' = TRUE /\ seeks' = seeks + 1
  /\ UNCHANGED <<playing, shutdown, callbackVars, ring, drain, proc, superVars>>

\* The deck is dropped.
Drop ==
  /\ ~shutdown /\ shutdown' = TRUE
  /\ UNCHANGED <<playing, callbackVars, ring, seek, drain, proc, superVars, seeks>>

-----------------------------------------------------------------------------
\* The callback, while its stream lives.

\* What a buffer leaves in a ring that held r blocks.
Popped(r) == { k \in {r - 1, r} : k \in 0 .. RingBlocks }

\* A buffer while playing: no fade-in, a restart in the fade snaps up, a flush
\* is honoured first, and what the ring lacks is silence.
Sound ==
  /\ stream = "live" /\ playing
  /\ LET held == IF drain THEN 0 ELSE ring IN
       /\ ring' \in (IF held = 0 THEN {0} ELSE Popped(held))
       /\ loud' = IF held = 0 THEN 0 ELSE FadeFrames
  /\ gain' = FadeFrames /\ drain' = FALSE
  /\ UNCHANGED <<playing, shutdown, seek, proc, superVars, seeks>>

\* A buffer after the stop, while the fade lasts: the flush waits.
Fade(n) ==
  /\ stream = "live" /\ ~playing /\ gain > n
  /\ gain' = gain - n
  /\ loud' = IF ring = 0 THEN 0 ELSE gain
  /\ ring' \in (IF ring = 0 THEN {0} ELSE Popped(ring))
  /\ UNCHANGED <<playing, shutdown, seek, drain, proc, superVars, seeks>>

\* The buffer the fade ends in, and those after it: a pending flush is
\* honoured, and all of the buffer is filled with silence, the frames the fade
\* had already written included.
FallSilent(n) ==
  /\ stream = "live" /\ ~playing /\ gain <= n
  /\ gain' = 0 /\ loud' = 0 /\ drain' = FALSE
  /\ ring' \in (IF drain \/ ring = 0 THEN {0} ELSE IF gain = 0 THEN {ring} ELSE Popped(ring))
  /\ UNCHANGED <<playing, shutdown, seek, proc, superVars, seeks>>

Callback == Sound \/ \E n \in Buffers : Fade(n) \/ FallSilent(n)

-----------------------------------------------------------------------------
\* The processor.

\* A seek: the ring is to be flushed.  A playing deck waits for that, a paused
\* one parks again.
TakeSeek ==
  /\ proc = "top" /\ seek
  /\ seek' = FALSE /\ drain' = TRUE
  /\ proc' = IF playing THEN "flush" ELSE "top"
  /\ UNCHANGED <<playing, shutdown, callbackVars, ring, superVars, seeks>>

\* The flush was seen, or fifty looks were: a stream that runs calls back
\* sooner than that.
EndWait ==
  /\ proc = "flush" /\ (~drain \/ stream # "live")
  /\ proc' = "top"
  /\ UNCHANGED <<playing, shutdown, callbackVars, ring, seek, drain, superVars, seeks>>

\* A block for the ring, when there is room.
Push ==
  /\ proc = "top" /\ playing /\ ~seek /\ ring < RingBlocks
  /\ ring' = ring + 1
  /\ UNCHANGED <<playing, shutdown, callbackVars, seek, drain, proc, superVars, seeks>>

-----------------------------------------------------------------------------
\* The device and the supervisor.

\* The driver gives up: no more callbacks, the device is silent.
Fail ==
  /\ stream = "live" /\ fails < MaxFails
  /\ stream' = "dead" /\ fails' = fails + 1 /\ loud' = 0
  /\ UNCHANGED <<playing, shutdown, gain, ring, seek, drain, proc, failed, sup, refusals, seeks>>

\* The error callback of a dead stream, again on every poll of it.
Report ==
  /\ stream = "dead" /\ ~failed /\ failed' = TRUE
  /\ UNCHANGED <<playing, shutdown, callbackVars, ring, seek, drain, proc, stream, sup,
                 fails, refusals, seeks>>

\* The supervisor's look, ten times a second: the stream is dropped when the
\* flag is up; on shutdown it goes with the thread.
PollDevice ==
  /\ sup = "poll" /\ (failed \/ shutdown)
  /\ sup' = IF failed THEN "build" ELSE "returned"
  /\ stream' = "none" /\ loud' = 0
  /\ UNCHANGED <<playing, shutdown, gain, ring, seek, drain, proc, failed, fails, refusals, seeks>>

\* The new stream takes over the ring and the flags, with a gain of its own: a
\* paused deck fades out once more what the ring still holds.
BuildStream ==
  /\ sup = "build"
  /\ stream' = "live" /\ gain' = FadeFrames /\ sup' = "built"
  /\ UNCHANGED <<playing, shutdown, loud, ring, seek, drain, proc, failed, fails, refusals, seeks>>

\* Mutant of Refused: the supervisor gives up after a refusal.
RefusedOnce ==
  /\ sup = "build" /\ refusals < MaxRefusals
  /\ refusals' = refusals + 1 /\ sup' = "returned"
  /\ UNCHANGED <<playing, shutdown, callbackVars, ring, seek, drain, proc, stream, failed,
                 fails, seeks>>

\* The device refuses: again after a pause (0.1 s doubling to 2 s), unless the
\* deck was dropped meanwhile.
Refused ==
  /\ sup = "build" /\ refusals < MaxRefusals
  /\ refusals' = refusals + 1
  /\ sup' = IF shutdown THEN "returned" ELSE "build"
  /\ UNCHANGED <<playing, shutdown, callbackVars, ring, seek, drain, proc, stream, failed,
                 fails, seeks>>

\* The flag is lowered after the stream is up: a stream that failed in between
\* reports again.
ClearFailed ==
  /\ sup = "built" /\ sup' = "poll" /\ failed' = FALSE
  /\ UNCHANGED <<playing, shutdown, callbackVars, ring, seek, drain, proc, stream, fails,
                 refusals, seeks>>

Supervise == PollDevice \/ BuildStream \/ Refused \/ ClearFailed

-----------------------------------------------------------------------------

\* open_inner: the stream runs, with a track (playing) or on an empty deck.
DeviceInit ==
  /\ playing \in BOOLEAN /\ shutdown = FALSE
  /\ gain = FadeFrames /\ loud = 0 /\ ring = 0
  /\ seek = FALSE /\ drain = FALSE /\ proc = "top"
  /\ stream = "live" /\ failed = FALSE /\ sup = "poll"
  /\ fails = 0 /\ refusals = 0 /\ seeks = 0

DeviceNext ==
  \/ \E on \in BOOLEAN : SetPlaying(on)
  \/ Seek \/ Drop \/ Callback
  \/ TakeSeek \/ EndWait \/ Push
  \/ Fail \/ Report \/ Supervise

\* The device keeps asking a live stream for buffers and a dead one keeps
\* reporting; the two threads run.
DeviceFairness ==
  /\ WF_deviceVars(Callback)
  /\ WF_deviceVars(TakeSeek \/ EndWait \/ Push)
  /\ WF_deviceVars(Report)
  /\ WF_deviceVars(Supervise)

-----------------------------------------------------------------------------

\* Whatever happens between the deck, the ring and the driver, a deck that
\* plays is heard and one that is stopped falls silent, again after a device
\* failure too; a deck that was dropped lets the device go.
DeviceFollowsTheDeck ==
  []<>(IF shutdown THEN stream = "none"
       ELSE IF playing THEN loud = FadeFrames
       ELSE loud = 0)
=============================================================================
