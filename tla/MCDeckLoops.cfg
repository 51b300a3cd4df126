SPECIFICATION Spec
CONSTANTS
  None = None
  Tracks = {"b"}
  Length <- Lengths
  LoadCues <- Cues
  LoadMemory <- Memory
  FirstSound <- Sound
  BeatPeriod <- Period
  LoopHalfBeats = {2, 3}
  Jumps <- BackForth
  Slots = {1}
  MaxMemory = 2
  Panel = {"play", "loop", "slip", "hotcue", "beatjump"}
  Boot = "parked"
PROPERTIES
  RunningLoopHoldsPlayhead
  SlipExitLandsOnTheTrack
