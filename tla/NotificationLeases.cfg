SPECIFICATION Spec
CONSTANTS
  e1 = e1  e2 = e2  e3 = e3  w1 = w1  w2 = w2  h1 = h1  h2 = h2  u1 = u1  u2 = u2
  Events = {e1, e2, e3}
  Flushers = {w1, w2, h1}
  Workers = {w1, w2}
  Updates = {}
  Free = Free
  NoEvent = NoEvent
  HoldSeconds = 2
  ClockLag = 0
  MaxTime = 2
  MaxTouches = 0
  MaxFaults = 2
SYMMETRY LeaseSymmetry
INVARIANTS NoLoss DeliveredInOrder QueueMatchesIds CopiesNeedFaults
PROPERTY ImplementsQueue
