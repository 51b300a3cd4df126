SPECIFICATION Spec
CONSTANTS
  None = None
  Tracks = {"a"}
  Length <- Lengths
  Block = 2
  RingLen = 5
  RingDefault = 5
  BackPressure = 4
  Repeats = {1, 2}
  Word = 64
  Loops <- Halved
  Panel = {"seek", "loop", "pause", "load"}
  MaxEvents = 2
  ParkTimeout = TRUE
  Prompt = FALSE
INVARIANTS
  StaleAudioIsFlushed
PROPERTIES
  NothingFreshIsFlushed
  HeardFollowsTheSource
CHECK_DEADLOCK FALSE
