SPECIFICATION Spec
CONSTANTS
  Initiator = {i1, i2, i3}
  NoOwner = NoOwner
  Key = {0, 1, 2, 3}
  GenerationModulus = 8
SYMMETRY InitiatorSymmetry
INVARIANTS
  OwnerRegistered
PROPERTIES
  GenerationAdvances
