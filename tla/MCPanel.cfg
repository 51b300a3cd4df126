SPECIFICATION Spec
CONSTANTS
  Period = 4
  Detent = 1
  LastFrame = 11
  MaxEdits = 3
  Tempos = {10, 12}
  Bends = {1}
  Nudges = {3}
  MaxMoves = 5
  Beat = 6
  Twin = 2
  Held = 1
  PeerGone = 4
  StatusEvery = 4
  LastTick = 16
  Keys <- TwoKeys
  LampPin = "led"
  Files <- ThreeFiles
  Debounce = 2
  MaxPresses = 4
  MaxBounces = 1
  MaxUnplugs = 1
  MaxFaults = 1
  FastReplug = FALSE
  FadeFrames = 12
  Buffers = {3, 5, 20}
  RingBlocks = 2
  MaxFails = 2
  MaxRefusals = 1
  MaxSeeks = 2
  NoReport = NoReport
  Momentary = {"cue"}
  TempoReset = "tempo reset"
  PressOnly = {"tempo reset"}
  Wrap = 16
  Turns = {7}
  Num = 3
  Den = 8
  Early = 1
  MaxTouches = 2
  MaxDrops = 1
  UnitRestarts = FALSE
INVARIANTS
  BendsComeBack
  BeatCountsOnce
  DeckFollowsTheUnit
PROPERTIES
  NumberingMovesAlong
  HoldsEndWithTheirKeys
  LampFollowsTheDeck
  DeviceFollowsTheDeck
  UnitComesIn
CHECK_DEADLOCK FALSE
