SPECIFICATION Spec
CONSTANTS
  None = None
  Sizes = {1, 2}
  DefaultBlock = 2
  Depth = 2
  InitialTape <- MCTape
  MaxChanges = 1
  MaxReads = 2
  MaxSteers = 2
  MaxFaults = 1
INVARIANTS
  TypeOK
  PrefetchedIsCurrent
PROPERTIES
  NoReaderDuringChange
  CommandsEnd
CHECK_DEADLOCK FALSE
