SPECIFICATION Spec
CONSTANTS
  hole = hole  samehole = samehole  marking = marking
  NumFrames = 6
  Skip = 2
  Boxes = {hole, samehole, marking}
  Overlap <- SomeOverlap
  Excluded = {marking}
  PoolSize = 2
  None = None
INVARIANTS TypeOK AllDetected ImagesResolved NothingOutlives
CHECK_DEADLOCK FALSE
