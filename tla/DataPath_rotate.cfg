SPECIFICATION FairSpec
CONSTANTS
  Payload = {pa, pb}
  NoPayload = NoPayload
  SegmentCap = 1
  SyncEvery = 2
  MaxWrites = 4
  MaxKills = 1
  MaxPowerLosses = 0
  MaxRewinds = 1
INVARIANTS
  BlobIdsFresh

  
