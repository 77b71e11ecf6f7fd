SPECIFICATION Spec
CONSTANTS
  q1 = q1  q2 = q2  u1 = u1  r1 = r1  r2 = r2
  Uploads = {u1}
  Ids = {r1, r2}
  Requests = {q1, q2}
  Attempts = 2
  Inserts = 2
  MaxLacking = 2
  None = None
CHECK_DEADLOCK FALSE
INVARIANTS TypeOK RideAnswers PhotoAnswers RidesSound
PROPERTY CompletedIsProcessed
