SPECIFICATION Spec
CONSTANTS
  u1 = u1  u2 = u2  u3 = u3
  Users = {u1, u2, u3}
  Owner = u1
  HideAt = 3
  MilestoneEvery = 5
  MaxOverlap = 1
SYMMETRY Symmetry
INVARIANT AdminHideStands
