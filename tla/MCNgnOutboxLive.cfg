SPECIFICATION FairSpec
CONSTANTS
  lone = lone
  job1 = job1
  Agr = {lone, job1}
  Seq = {1, 2, 3}
  About <- MCAbout
  Deposit = Deposit
  Unlinked = {1}
  Worker = {w1, w2}
  None = None
  MaxFaults = 1
PROPERTIES
  EventsArrive
