SPECIFICATION Spec
CONSTANTS
  w1 = w1  w2 = w2  q1 = q1  q2 = q2  b1 = b1  c1 = c1
  Rides = {1, 2}
  Workers = {w1}
  Requests = {q1}
  BatchWorkers = {b1}
  CliRuns = {c1}
  PoolSize = 1
  Faults = {"timeout", "raise", "db"}
  MaxStops = 1
  None = None
ACTION_CONSTRAINT SecondRideForTheQueue
INVARIANTS CompletedIsFull CompletedWasSaved
PROPERTY CompletedNotReclaimed
CHECK_DEADLOCK FALSE
