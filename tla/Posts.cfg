SPECIFICATION Spec
CONSTANTS
  u1 = u1  u2 = u2  u3 = u3
  Users = {u1, u2, u3}
  Owner = u1
  HideAt = 2
  MilestoneEvery = 2
  MaxOverlap = 2
SYMMETRY Symmetry
VIEW NoDecision
INVARIANTS TypeOK ReportedIsHidden HiddenIsReported ResultKept
PROPERTIES SoloCallSettles CrossingTold
