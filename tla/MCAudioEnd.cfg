SPECIFICATION FairSpec
CONSTANTS
  None = None
  Tracks = {"b"}
  Length <- Lengths
  Block = 2
  RingLen = 3
  RingDefault = 3
  BackPressure = 2
  Repeats = {1}
  Word = 64
  Loops <- NoLoops
  Panel = {"play", "pause", "seek", "preview", "return", "load"}
  MaxEvents = 2
  ParkTimeout = TRUE
  Prompt = TRUE
INVARIANTS
  ReturnSettles
PROPERTIES
  NoSeekIsLost
  StopsAtTheEnd
CHECK_DEADLOCK FALSE
