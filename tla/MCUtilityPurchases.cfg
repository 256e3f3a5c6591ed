SPECIFICATION Spec
CONSTANTS
  Key = {k1, k2}
  Cashout = {}
  Price <- MCPrice
  Deposit = 1
  Provider = {sme, paystack}
  None = None
  sme = sme
  paystack = paystack
  Chain <- MCChain
  Paystack = paystack
  Request = {r1, r2}
  AskAgain = FALSE
  MaxFaults = 1
  MaxRestarts = 1
INVARIANTS
  TypeOK
  
  
  
  
CHECK_DEADLOCK FALSE
