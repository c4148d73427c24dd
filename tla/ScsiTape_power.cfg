SPECIFICATION Spec
CONSTANTS
  DefaultBlock = 2
  Modes = {2}
  Lengths = {}
  Policies = {}
  Capacity = 6
  MaxTransfer = 2
  MaxWrites = 3
  MaxMarks = 2
  MaxFailures = 1
  MaxCrashes = 1
  MaxPowerLosses = 1
  MaxFormats = 1

  
PROPERTIES
  FilemarksKeepBlocks
