SPECIFICATION Spec
CONSTANTS
  Handlers = {h1, h2}
  None = None
  Sums = {1, 2}
  Minimum = 1
  Limit = 1
  MaxMoved = 2
  MaxCauses = 1
  MaxFaults = 1
SYMMETRY Symmetry
INVARIANTS
  NeverOverpaid
  SentWasPaid
  PaidIsSent
