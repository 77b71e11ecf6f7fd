SPECIFICATION FairSpec
CONSTANTS
  Rides = {1}
  Workers = {w1}
  Requests = {q1, q2}
  BatchWorkers = {}
  CliRuns = {}
  PoolSize = 1
  Faults = {"timeout", "raise"}
  MaxStops = 2
  None = None
INVARIANTS ProcessingIsOwned
PROPERTIES ProcessingEnds
CHECK_DEADLOCK FALSE
