CONSTANTS
  Writer = {w1, w2, w3}
  None = none
  Commands <- MCCommands
  Unit = 2
  BlobOverhead = 1
  SegmentOverhead = 1
  Reserve = 7
  Capacity = 13
  Slack = 1
  MaxCommands = 4
  MaxKills = 1
SPECIFICATION Spec
SYMMETRY Symmetry
INVARIANTS ReserveHolds
PROPERTIES RefusedOnlyForLiveClaims
CHECK_DEADLOCK FALSE
