------------------------------ MODULE Startup -------------------------------
(***************************************************************************)
(* How a deck comes up: the settings file and the player number taken from *)
(* it, the startup track, which plays from the moment it is opened, the    *)
(* analysis, and the parking at the cue; and the MENU that writes the      *)
(* file again, in place, over several launches on one device.              *)
(***************************************************************************)
EXTENDS Naturals, FiniteSets

CONSTANTS Given,        \* --player arguments tried: sets of at most one number
          LastSample,   \* the startup track is 0 .. LastSample
          MaxLaunches, MaxSaves

ASSUME StartAssumption == LastSample \in Nat

VARIABLES device,       \* the platform: iOS or not, and its default player
          file,         \* settings.json: its contents, or what is left of it
          choice,       \* the number the user last chose and the file keeps: a set
          config,       \* this launch's arguments
          stage,        \* how far the launch has come
          settings,     \* Settings in memory
          player,       \* the number the deck takes on the link
          runs, cursor, cue,
          launches, saves

deviceKept == <<device, launches>>
deckState  == <<runs, cursor, cue>>
startVars  == <<device, file, choice, config, stage, settings, player, runs, cursor,
                cue, launches, saves>>

Players == 1 .. 4
Seed == 1
Torn == [player |-> 0, seed |-> 0]      \* what serde refuses
Absent == [player |-> 0, seed |-> 1]
Config == [given : Given, autoplay : BOOLEAN, track : BOOLEAN, sound : 0 .. LastSample]

Fresh == [player |-> device.default, seed |-> Seed]

\* Settings::load: defaults for a file that is missing or does not parse.
Read(f) == IF f.player = 0 THEN Fresh ELSE f

\* Mutant of Reseeded: the file's generation is not looked at.
ReseededAlways(s) ==
  [player |-> IF device.ios /\ s.player = 3 THEN device.default ELSE s.player, seed |-> Seed]

\* A file of before 0.2.1 that still has that era's number for every iOS device
\* is given the device's, once.
Reseeded(s) ==
  [player |-> IF s.seed < Seed /\ device.ios /\ s.player = 3 THEN device.default ELSE s.player,
   seed |-> Seed]

Clamp(n) == IF n < 1 THEN 1 ELSE IF n > 6 THEN 6 ELSE n

\* cfg.player.unwrap_or(settings.player).clamp(1, 6)
Taken(given, s) == Clamp(IF given = {} THEN s.player ELSE CHOOSE n \in given : TRUE)

-----------------------------------------------------------------------------

\* desktop_main, or the mobile entry point: the arguments.
Launch(c) ==
  /\ stage = "down" /\ launches < MaxLaunches
  /\ config' = c /\ stage' = "settings" /\ launches' = launches + 1
  /\ runs' = FALSE /\ cursor' = 0 /\ cue' = 0
  /\ UNCHANGED <<device, file, choice, settings, player, saves>>

\* The settings are read, and saved again when their generation is new.
LoadSettings ==
  /\ stage = "settings" /\ stage' = "audio"
  /\ settings' = Reseeded(Read(file))
  /\ file' = IF file.player # 0 /\ file.seed < Seed THEN settings' ELSE file
  /\ player' = Taken(config.given, settings')
  /\ UNCHANGED <<deviceKept, choice, config, deckState, saves>>

\* The track is opened and plays at once; an empty deck does not.
OpenAudio ==
  /\ stage = "audio" /\ stage' = "opened"
  /\ runs' = config.track
  /\ UNCHANGED <<deviceKept, file, choice, config, settings, player, cursor, cue, saves>>

\* The audio threads, all the while.
PlayOn ==
  /\ runs /\ cursor < LastSample /\ cursor' = cursor + 1
  /\ UNCHANGED <<deviceKept, file, choice, config, stage, settings, player, runs, cue, saves>>

\* The deck is stopped unless it is to start playing; the analysis follows.
StopForCue ==
  /\ stage = "opened" /\ stage' = "analysis"
  /\ runs' = (runs /\ config.autoplay)
  /\ UNCHANGED <<deviceKept, file, choice, config, settings, player, cursor, cue, saves>>

\* DeckApp::new: the cue is OPENDECK_CUE or the first sound.
NewApp ==
  /\ stage = "analysis" /\ stage' = "park"
  /\ cue' = IF config.track THEN config.sound ELSE 0
  /\ UNCHANGED <<deviceKept, file, choice, config, settings, player, runs, cursor, saves>>

\* The playhead is parked at a cue that is not the track's start.
Park ==
  /\ stage = "park" /\ stage' = "up"
  /\ cursor' = IF cue > 0 THEN cue ELSE cursor
  /\ UNCHANGED <<deviceKept, file, choice, config, settings, player, runs, cue, saves>>

-----------------------------------------------------------------------------

\* MENU, PLAYER No.: the next number, saved; it applies at the next launch.
CyclePlayer ==
  /\ stage = "up" /\ saves < MaxSaves /\ saves' = saves + 1
  /\ settings' = [settings EXCEPT !.player = IF @ = 4 THEN 1 ELSE @ + 1]
  /\ file' = settings' /\ choice' = {settings'.player}
  /\ UNCHANGED <<deviceKept, config, stage, player, deckState>>

\* Another setting, or the jog mode: the whole file is written.
SaveOther ==
  /\ stage = "up" /\ saves < MaxSaves /\ saves' = saves + 1
  /\ file' = settings
  /\ UNCHANGED <<deviceKept, choice, config, stage, settings, player, deckState>>

\* The power goes while the file is written over.
CutInSave ==
  /\ stage = "up" /\ saves < MaxSaves /\ saves' = saves + 1
  /\ file' = Torn /\ choice' = {}
  /\ stage' = "down" /\ runs' = FALSE
  /\ UNCHANGED <<deviceKept, config, settings, player, cursor, cue>>

\* The program ends, or is ended, at any stage.
Quit ==
  /\ stage # "down" /\ stage' = "down" /\ runs' = FALSE
  /\ UNCHANGED <<deviceKept, file, choice, config, settings, player, cursor, cue, saves>>

-----------------------------------------------------------------------------

\* A desktop, an iPad or an iPhone, with no file, one of this build or one of
\* before 0.2.1; on an iOS device of then a 3 was nobody's choice.
StartInit ==
  /\ device \in {[ios |-> FALSE, default |-> 1], [ios |-> TRUE, default |-> 3],
                 [ios |-> TRUE, default |-> 4]}
  /\ file \in {Absent} \union [player : Players, seed : {0, Seed}]
  /\ choice = IF file = Absent \/ (device.ios /\ file = [player |-> 3, seed |-> 0])
              THEN {} ELSE {file.player}
  /\ config = [given |-> {}, autoplay |-> FALSE, track |-> FALSE, sound |-> 0]
  /\ stage = "down" /\ settings = Torn /\ player = 1
  /\ runs = FALSE /\ cursor = 0 /\ cue = 0
  /\ launches = 0 /\ saves = 0

StartNext ==
  \/ \E c \in Config : Launch(c)
  \/ LoadSettings \/ OpenAudio \/ PlayOn \/ StopForCue \/ NewApp \/ Park
  \/ CyclePlayer \/ SaveOther \/ CutInSave \/ Quit

StartSpec == StartInit /\ [][StartNext]_startVars

-----------------------------------------------------------------------------

\* The number a launch is to take.
Wanted ==
  IF config.given # {} THEN Clamp(CHOOSE n \in config.given : TRUE)
  ELSE IF choice # {} THEN CHOOSE n \in choice : TRUE
  ELSE device.default

\* A deck takes the number it was given, else the one the user chose in any
\* earlier session (whatever file of that time was re-seeded since), else its
\* platform's; and one that is not to start playing sits at its cue, although
\* its track began to play when it was opened.  (A cue at the track's very start
\* is not parked at.)
StartsAsAsked ==
  /\ stage = "park" => player = Wanted
  /\ stage = "up" /\ ~config.autoplay => ~runs /\ (cursor = cue \/ cue = 0)
=============================================================================
