SPECIFICATION Spec
VIEW WithoutIds
CONSTANTS
  DefaultBlock = 2
  Modes = {0, 2}
  Lengths = {1}
  Policies <- EveryPolicy
  Capacity = 4
  MaxTransfer = 2
  MaxWrites = 3
  MaxMarks = 1
  MaxFailures = 1
  MaxCrashes = 2
  MaxPowerLosses = 0
  MaxFormats = 0
INVARIANTS
  TypeOK
  
  NothingBehindEndOfData
  WritesNeverOverlap
PROPERTIES
  ProtectedTapeKept
