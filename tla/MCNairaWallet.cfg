SPECIFICATION WalletSpec
CONSTANTS
  Key = {k1}
  Cashout = {c1}
  Price <- MCPrice
  Deposit = 1
  Provider = {sme}
  None = None
  sme = sme
  Chain <- MCChain
  Paystack = None
  Request = {r1}
  AskAgain = FALSE
  MaxFaults = 0
  MaxRestarts = 0
  Handler = {h1}
  AnswersLost = FALSE
  Overlaps = FALSE
  HooksFail = FALSE
PROPERTY
  RefusedBeyondAvailable
CHECK_DEADLOCK FALSE
