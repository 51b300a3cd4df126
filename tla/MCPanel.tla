------------------------------ MODULE MCPanel ------------------------------
(* What surrounds the deck's keys: the grid, the tempo, the beat row, the   *)
(* control surfaces, the CDJ that is one, the device.  The parts share   *)
(* no state here, so a behaviour is one of them: `part` says which.         *)
EXTENDS GridAdjust, TempoFollow, BeatRow, Surface, DeviceStream, LanHid

VARIABLE part
vars == <<part, gridVars, tempoVars, rowVars, surfaceVars, deviceVars, hidVars>>

\* Two boards, one of them with its lamp on a button's pin, and a controller.
ThreeFiles ==
  LET B(k, a, s, o) == [key |-> k, action |-> a, shift |-> s, noteOff |-> o] IN
  { [kind |-> "i2c", binds |-> {B("k1", "play", FALSE, FALSE), B("k1", "cue", TRUE, FALSE),
                                B("k2", "shift", FALSE, FALSE)}],
    [kind |-> "i2c", binds |-> {B("k1", "cue", FALSE, FALSE), B("led", "play", FALSE, FALSE)}],
    [kind |-> "midi", binds |-> {B("k1", "cue", FALSE, FALSE), B("k1", "hot_cue", TRUE, FALSE),
                                 B("k2", "shift", FALSE, FALSE), B("k2", "load", FALSE, TRUE)}] }
TwoKeys == <<"k1", "k2">>

Init ==
  /\ part \in {"grid", "tempo", "row", "surface", "device", "unit"}
  /\ GridInit /\ TempoInit /\ BeatInit /\ SurfaceInit /\ DeviceInit /\ HidInit
  /\ part # "grid" => gridOrig = [anchor |-> 0, offset |-> 0]
  /\ part # "tempo" => speeds.fader = 10 /\ masterTempo.speed = 10
  /\ part # "surface" => IsI2c
  /\ part # "device" => ~playing

\* The step of one part: the others stand still.
Only(vs) == UNCHANGED <<part, vs>>

Next ==
  \/ part = "grid" /\ GridNext
       /\ Only(<<tempoVars, rowVars, surfaceVars, deviceVars, hidVars>>)
  \/ part = "tempo" /\ TempoNext
       /\ Only(<<gridVars, rowVars, surfaceVars, deviceVars, hidVars>>)
  \/ part = "row" /\ BeatNext
       /\ Only(<<gridVars, tempoVars, surfaceVars, deviceVars, hidVars>>)
  \/ part = "surface" /\ SurfaceNext
       /\ Only(<<gridVars, tempoVars, rowVars, deviceVars, hidVars>>)
  \/ part = "device" /\ DeviceNext
       /\ Only(<<gridVars, tempoVars, rowVars, surfaceVars, hidVars>>)
  \/ part = "unit" /\ HidNext
       /\ Only(<<gridVars, tempoVars, rowVars, surfaceVars, deviceVars>>)

Spec ==
  /\ Init /\ [][Next]_vars
  /\ part = "surface" => SurfaceFairness
  /\ part = "device" => DeviceFairness
  /\ part = "unit" => HidFairness
=============================================================================
