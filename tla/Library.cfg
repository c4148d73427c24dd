SPECIFICATION Spec
CONSTANTS
  NumCartridges = 2
  NumSlots = 2
  NumDrives = 2
  Budgets <- MCBudgets
INVARIANTS
  TypeOK
  HostMovesConserve
  ManagementRepairs
  DatabaseAgrees
CHECK_DEADLOCK FALSE
