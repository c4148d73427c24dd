SPECIFICATION Spec
CONSTANTS
  Payload = {pa, pb}
  NoPayload = NoPayload
  SegmentCap = 2
  SyncEvery = 2
  MaxWrites = 2
  MaxKills = 1
  MaxPowerLosses = 0
  MaxRewinds = 0
SYMMETRY PayloadSymmetry
INVARIANTS
  KilledLayoutMounts
