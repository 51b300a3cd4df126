SPECIFICATION Spec
CONSTANTS
  None = None
  Tracks = {"a"}
  Length <- Lengths
  Block = 2
  RingLen = 3
  RingDefault = 3
  BackPressure = 2
  Repeats = {1}
  Word = 64
  Loops <- NoLoops
  Panel = {"play", "return"}
  MaxEvents = 2
  ParkTimeout = TRUE
  Prompt = FALSE
PROPERTIES
  NothingFreshIsFlushed
CHECK_DEADLOCK FALSE
