SPECIFICATION Spec
CONSTANTS
  None = None
  Tracks = {"a", "b"}
  Length <- Lengths
  LoadCues <- Cues
  LoadMemory <- Memory
  FirstSound <- Sound
  BeatPeriod <- Period
  LoopHalfBeats = {2}
  Jumps <- BackForth
  Slots = {1}
  MaxMemory = 2
  Panel = {"play", "pause", "cue", "jog", "wave", "phone", "slip", "hotcue", "quantize", "load"}
  Boot = "parked"
INVARIANTS
  CuedIsHonest
