SPECIFICATION Spec
CONSTANTS
  ann = ann
  a1 = a1
  a2 = a2
  t1 = t1
  t2 = t2
  Agr = {a1, a2}
  Buyer <- MCBuyer
  Total <- MCTotal
  Credential = {t1, t2}
  BoundTo <- MCBoundTo
  Request = {r1, r2}
  PoolSize = 2
  Ceiling = 5
  None = None
INVARIANTS
  DailyCeiling
