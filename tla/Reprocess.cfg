SPECIFICATION Spec
CONSTANTS
  d1 = d1  d2 = d2  d3 = d3  d4 = d4  d5 = d5  d6 = d6  d7 = d7  d8 = d8  d9 = d9
  Epoch = 50
  PerSecond = 2
  Still = 2
  None = None
  Rides = {1, 2, 3}
  Track <- Tracks
  Dets = {d1, d2, d3, d4, d5, d6, d7, d8, d9}
  Of <- OfRide
  Time <- TimeOf
  Round <- RoundOf
  Ahead <- AheadOf
  Radius = 1
  MinDetections = 2
CHECK_DEADLOCK FALSE
INVARIANTS TypeOK OneClustering CorrectedIsShown
