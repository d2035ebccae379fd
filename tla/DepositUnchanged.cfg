SPECIFICATION Spec
CONSTANTS
  Handlers = {h1}
  None = None
  Sums = {1}
  Minimum = 1
  Limit = 2
  MaxMoved = 3
  MaxCauses = 0
  MaxFaults = 0
INVARIANT
  UnchangedIsTrue
