SPECIFICATION FairSpec
CONSTANTS
  Callers = {c1, c2, c3}
  Threshold = 3
  None = None
INVARIANTS TypeOK OpenedByFailures OpenHasTimer
PROPERTIES BlockedWhileOpen Reprobes
