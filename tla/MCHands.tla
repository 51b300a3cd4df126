------------------------------ MODULE MCHands ------------------------------
(* The CUE and PLAY keys on a track of four positions past its start, the   *)
(* touch console under two fingers, the browser with two sticks, the frame  *)
(* loop they are applied in, the deck's start.  The parts share no state    *)
(* here, so a behaviour is one of them: `part` says which.                  *)
EXTENDS CuePlay, Console, Browser, FrameLoop, Startup

VARIABLE part

TwoSticks == <<"a", "b">>
OnePeer == <<"p">>

HandsInit ==
  /\ part \in {"keys", "console", "browser", "frame", "start"}
  /\ Init /\ ConsoleInit /\ BrowserInit /\ FrameInit /\ StartInit
  /\ part # "keys" => tr.cue_point = 0
  /\ part # "browser" => floor = {}
  /\ part # "frame" => host.sdl /\ host.idle
  /\ part # "start" => device.default = 1 /\ file = Absent

HandsNext ==
  \/ part = "keys" /\ Next
       /\ UNCHANGED <<part, consoleVars, browserVars, frameVars, startVars>>
  \/ part = "console" /\ ConsoleNext
       /\ UNCHANGED <<part, vars, browserVars, frameVars, startVars>>
  \/ part = "browser" /\ BrowserNext
       /\ UNCHANGED <<part, vars, consoleVars, frameVars, startVars>>
  \/ part = "frame" /\ FrameNext
       /\ UNCHANGED <<part, vars, consoleVars, browserVars, startVars>>
  \/ part = "start" /\ StartNext
       /\ UNCHANGED <<part, vars, consoleVars, browserVars, frameVars>>

handsVars == <<part, vars, consoleVars, browserVars, frameVars, startVars>>

HandsSpec == HandsInit /\ [][HandsNext]_handsVars /\ (part = "frame" => FrameFairness)
=============================================================================
