SPECIFICATION TxSpec
CONSTANTS
  ann = ann
  ben = ben
  a1 = a1
  d1 = d1
  Proc = {p1, p2}
  User = {ann, ben}
  Agr = {a1}
  Ref = {d1}
  MaxInvites = 1
  Buyer <- MCBuyer
  Seller <- MCSeller
  Principal <- MCPrincipal
  DepositUser <- MCDepositUser
  DepositNet <- MCDepositNet
  Rank <- MCRank
INVARIANTS
  TxTypeOK
PROPERTIES
  Serializable
