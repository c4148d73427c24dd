SPECIFICATION Spec
CONSTANTS
  Payload = {pa, pb}
  NoPayload = NoPayload
  SegmentCap = 2
  SyncEvery = 2
  MaxWrites = 4
  MaxKills = 2
  MaxPowerLosses = 0
  MaxRewinds = 0
SYMMETRY PayloadSymmetry
INVARIANTS
  ActiveBlobsPresent
  LayoutUsable
  BookkeepingFollowsMap
PROPERTIES
  ImplementsLogicalTape
