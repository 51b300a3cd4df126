SPECIFICATION Spec
CONSTANTS
  None = None
  Tracks = {"a"}
  Length <- Lengths
  LoadCues <- Cues
  LoadMemory <- Memory
  FirstSound <- Sound
  BeatPeriod <- Period
  LoopHalfBeats = {2}
  Jumps <- BackForth
  Slots = {1}
  MaxMemory = 2
  Panel = {"cue", "beatjump"}
  Boot = "parked"
INVARIANTS
  CuedIsHonest
