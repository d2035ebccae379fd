SPECIFICATION Spec
CONSTANTS
  e1 = e1  e2 = e2  e3 = e3  w1 = w1  w2 = w2  h1 = h1  h2 = h2  u1 = u1  u2 = u2
  Events = {e1}
  Flushers = {w1, h1}
  Workers = {w1}
  Updates = {u1, u2}
  Free = Free
  NoEvent = NoEvent
  HoldSeconds = 2
  ClockLag = 1
  MaxTime = 4
  MaxTouches = 2
  MaxFaults = 1
SYMMETRY UpdateSymmetry
INVARIANTS TypeOK NothingStranded WokenInTime QueuedStaysHeld
PROPERTY HoldEndsWithItsFlow
