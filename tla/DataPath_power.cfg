SPECIFICATION Spec
CONSTANTS
  Payload = {pa, pb}
  NoPayload = NoPayload
  SegmentCap = 2
  SyncEvery = 2
  MaxWrites = 3
  MaxKills = 0
  MaxPowerLosses = 1
  MaxRewinds = 0
SYMMETRY PayloadSymmetry
INVARIANTS
  LayoutUsable
PROPERTIES
  ImplementsLogicalTape
  FlushedTapeSurvives
