SPECIFICATION Spec
CONSTANTS
  Handlers = {h1, h2}
  None = None
  MaxFree = 2
  MaxWallets = 3
  MaxCauses = 1
  MaxFaults = 1
SYMMETRY Symmetry
INVARIANTS
  FreeLimit
  BoughtIsPaid
  LockIsKnown
