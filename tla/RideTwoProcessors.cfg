SPECIFICATION Spec
CONSTANTS
  Rides = {1}
  Workers = {w1, w2}
  Requests = {q1, q2}
  BatchWorkers = {}
  CliRuns = {}
  PoolSize = 1
  Faults = {}
  MaxStops = 0
  None = None
INVARIANTS NeverTwoProcessors
CHECK_DEADLOCK FALSE
