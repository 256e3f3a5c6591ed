SPECIFICATION FairSpec
CONSTANTS
  ann = ann
  ben = ben
  a1 = a1
  a2 = a2
  d1 = d1
  d2 = d2
  User = {ann, ben}
  Agr = {a1, a2}
  Ref = {d1, d2}
  MaxInvites = 1
  Buyer <- MCBuyer
  Seller <- MCSeller
  Principal <- MCPrincipal
  DepositUser <- MCDepositUser
  DepositNet <- MCDepositNet
INVARIANTS
  TypeOK
  EscrowMatchesStatus
  MoneyConserved
  StatusMatchesHistory
  CancelledByBothOrByTime
PROPERTIES
  PayoutExact
  LapsedInviteEnds
  EscrowPromise
CHECK_DEADLOCK FALSE
