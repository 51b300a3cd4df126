SPECIFICATION Spec
CONSTANTS
  None = None
  A = A
  B = B
  C = C
  Players = {A, B, C}
  Lead = A
  Absent = {}
  Synced = {}
  RequestEvery = 1
  AnnounceEvery = 2
  WantWait = 4
  MasterGone = 5
  Panel = {"master"}
  MaxPresses = 2
  MaxPower = 0
  MaxLosses = 0
INVARIANTS
  OneMaster
