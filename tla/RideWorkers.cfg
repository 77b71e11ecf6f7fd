SPECIFICATION Spec
CONSTANTS
  w1 = w1  w2 = w2  q1 = q1  q2 = q2  b1 = b1  c1 = c1
  Rides = {1}
  Workers = {w1, w2}
  Requests = {q1, q2}
  BatchWorkers = {}
  CliRuns = {}
  PoolSize = 1
  Faults = {"timeout", "db"}
  MaxStops = 1
  None = None
SYMMETRY Symmetry
INVARIANTS TypeOK SingleProcessor SavedOnce
PROPERTY ProgressMonotone
CHECK_DEADLOCK FALSE
