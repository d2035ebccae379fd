SPECIFICATION Spec
CONSTANTS
  creator = creator  guest = guest  newcomer = newcomer  p1 = p1  p2 = p2
  Users = {creator, newcomer}
  Creator = creator
  Newcomers = {newcomer}
  OneKey = TRUE
  Presses = {p1, p2}
  NoTx = NoTx  ClaimTx = ClaimTx
  MaxCount = 2
  MaxClicks = 3
  MaxFaults = 1
INVARIANTS OneShareEach NeverOverdrawn ChequeIsFunded
           PaidHasCheque CommitsAreHonoured
SYMMETRY Symmetry
CHECK_DEADLOCK FALSE
