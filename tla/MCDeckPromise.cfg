SPECIFICATION Spec
CONSTANTS
  None = None
  Tracks = {"b"}
  Length <- Lengths
  LoadCues <- Cues
  LoadMemory <- Memory
  FirstSound <- Sound
  BeatPeriod <- Period
  LoopHalfBeats = {2}
  Jumps <- BackForth
  Slots = {1}
  MaxMemory = 2
  Panel = {"play", "cue", "needle", "memory", "load", "autocue"}
  Boot = "parked"
PROPERTIES
  KeepsThePromise
  PreviewReturns
