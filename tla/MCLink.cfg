SPECIFICATION FairSpec
CONSTANTS
  None = None
  A = A
  B = B
  C = C
  Players = {A, B}
  Lead = A
  Absent = {B}
  Synced = {}
  RequestEvery = 1
  AnnounceEvery = 2
  WantWait = 4
  MasterGone = 5
  Panel = {"master", "sync", "control"}
  MaxPresses = 2
  MaxPower = 2
  MaxLosses = 1
INVARIANTS
  OneMaster
  NeverMasterless
PROPERTIES
  NewestCounter
  MasterIsAnswered
  MasterBecomesKnown
  GroupKeepsAReference
