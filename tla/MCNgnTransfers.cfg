SPECIFICATION MCSpec
CONSTANTS
  Order = {1, 2}
  Address <- OwnAddress
  Amount <- OneAmount
  Handler = {h1}
  MaxDeliveries = 2
  MaxFaults = 1
INVARIANTS
  TypeOK
  
  

  
