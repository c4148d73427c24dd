SPECIFICATION FairSpec
CONSTANTS
  pa = pa
  pb = pb
  Payload <- MCPayload
  InitialTape <- MCInitialTape
  None = None
  SegmentCap = 3
  MinDeadPercent = 50
  HeadersPerRound = 2
  DescriptorsPerRound = 2
  MaxWrites = 2
  MaxStops = 2
INVARIANTS
  TypeOK  BlobIdsNeverReused  CandidateIsBest
PROPERTIES
  MaintenanceKeepsTape ReclaimLeavesNoDanglingEntry DeadSpaceReclaimed
