SPECIFICATION Spec
CONSTANTS
  Assets = {a1, a2}
  Addresses = {x1, x2}
  Orders = {o1, o2}
  None = None
SYMMETRY Symmetry
INVARIANTS
  ConfirmedIsSigned
  PinDoesAsTold
  PromptIsCurrent
  QuestionFits
  OrderAsChosen
  RecipientAsGiven
CHECK_DEADLOCK FALSE
