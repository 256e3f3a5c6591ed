SPECIFICATION Spec
CONSTANTS
  Key = {}
  Cashout = {c1}
  Price <- MCPrice
  Deposit = 1
  Provider = {}
  None = None
  Handler = {h1}
  AnswersLost = TRUE
  Overlaps = FALSE
  HooksFail = FALSE
INVARIANT
  RefundedOnVerdict
CHECK_DEADLOCK FALSE
