SPECIFICATION Spec
CONSTANTS
  p1 = p1  p2 = p2  rideA = rideA  rideB = rideB
  Places = {1, 2, 3}
  Radius = 1
  Processors = {p1, p2}
  Ride <- TwoRides
  Clusters <- SomeClusters
  MaxClusters = 2
  ReopenHits = 2
  MaxTries = 2
  None = None
CONSTRAINT SmallSecondRide
CHECK_DEADLOCK FALSE
INVARIANTS TypeOK HitsConserved Separated
PROPERTIES SeriallyGrows MetIsActive
