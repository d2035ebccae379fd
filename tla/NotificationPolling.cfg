SPECIFICATION FairSpec
CONSTANTS
  Users = {1, 2, 3}
  Broken = {1}
  BatchSize = 2
  MaxPages = 1
  HoldSeconds = 1
  MaxTime = 3
PROPERTY HealthyAreServed
