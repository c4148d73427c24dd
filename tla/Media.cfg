CONSTANTS
  Drive = {d1, d2}
  Nexus = {n1}
  Anon = anon
  Worker = worker
  Cartridge = {c1, c2}
  Locked = {c2}
  None = none
  Budgets <- MCBudgets
SPECIFICATION FairSpec
INVARIANTS LayoutHasOneOwner
PROPERTIES ReadyOnlyWhenTold WorkStopsForOwnChange AssignedCartridgeMounts
CHECK_DEADLOCK FALSE
