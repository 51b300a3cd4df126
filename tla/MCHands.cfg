SPECIFICATION HandsSpec
CONSTANTS
  None = None
  Length = 4
  Fingers = {f1, f2}
  StrayKeys = FALSE
  Sticks <- TwoSticks
  Exports = {"a"}
  Peers <- OnePeer
  MaxTags = 1
  MaxInserts = 2
  FastSwap = FALSE
  Given = {{}, {9}}
  LastSample = 2
  MaxLaunches = 2
  MaxSaves = 2
INVARIANTS
  CuedIsHonest
  HeldHasAFinger
  NothingOfAGoneStick
  StartsAsAsked
PROPERTIES
  ReleaseReturnsOrNothing
  DrawnWhileInFront
  BackgroundRests
CHECK_DEADLOCK FALSE
