SPECIFICATION Spec
CONSTANTS
  Blocks = 2
  Window = 2
  Attempts = 2
  Resends = 1
  Sessions = 2
  MaxLost = 1
  SamePort = FALSE
  Slots = {"usb", "sd"}
  Libraries <- ThreeTracks
  MaxVisits = 4
  MaxFaults = 1
  None = None
  Files = {"a"}
  Linked = {"l", "m"}
  Odd = {"m"}
  MaxLoads = 2
  MaxVersion = 1
  MaxRestarts = 1
  ReplaceInUse = FALSE
  Wires <- TwoWires
  Locals = {"dongle"}
  Peers = {1, 2}
  Leaving = FALSE
  MaxChanges = 3
  MaxSuspends = 1
INVARIANTS
  FileIsWhole
  LossIsRepaired
  ListIsOneMenu
  OneTrackOnDeck
  CacheIsOfTheFile
PROPERTIES
  NewestLoadWins
  LoadingEnds
  BeatsReachThePeer
CHECK_DEADLOCK FALSE
