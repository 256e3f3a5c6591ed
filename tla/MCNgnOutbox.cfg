SPECIFICATION Spec
CONSTANTS
  lone = lone
  job1 = job1
  Agr = {lone, job1}
  Seq = {1, 2, 3, 4}
  About <- MCAbout
  Deposit = Deposit
  Unlinked = {1}
  Worker = {w1, w2}
  None = None
  MaxFaults = 2
INVARIANTS
  TypeOK
  DeliveredWasReceived
  ReceiverConverges
