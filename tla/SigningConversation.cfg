SPECIFICATION Spec
CONSTANTS
  pay = pay  text = text  r1 = r1  r2 = r2  p1 = p1  p2 = p2  s1 = s1  s2 = s2
  Payments = {pay}
  Pasted = {text}
  Requests = {r1}
  Submits = {r1}
  Password = FALSE
  Presses = {p1, p2}
  Sends = {s1}
  NoTx = NoTx
  MaxCrossed = 2
  MaxFaults = 1
INVARIANTS SignedWasSeen SubmittedAsWished AnswersFit CalledOnce
SYMMETRY Symmetry
