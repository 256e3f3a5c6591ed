SPECIFICATION Spec
CONSTANTS
  Key = {}
  Cashout = {c1, c2}
  Price <- MCPrice
  Deposit = 2
  Provider = {}
  None = None
  Handler = {h1, h2}
  AnswersLost = FALSE
  Overlaps = FALSE
  HooksFail = FALSE
INVARIANTS
  TypeOK
  RefundedOnVerdict
  

  
CHECK_DEADLOCK FALSE
