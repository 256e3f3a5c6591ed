SPECIFICATION CrossedSpec
CONSTANTS
  ann = ann
  ben = ben
  a1 = a1
  a2 = a2
  a3 = a3
  a4 = a4
  d1 = d1
  d2 = d2
  Proc = {p1, p2, p3}
  User = {ann, ben}
  Agr = {a1, a2, a3, a4}
  Ref = {d1, d2}
  MaxInvites = 1
  Buyer <- MCBuyer
  Seller <- MCSeller
  Principal <- MCPrincipal
  DepositUser <- MCDepositUser
  DepositNet <- MCDepositNet
  Rank <- MCRank
SYMMETRY Alike
INVARIANTS
  NoWaitCycle
  InviteCap
PROPERTIES
  CommitsAreCalls
