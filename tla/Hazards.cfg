SPECIFICATION Spec
CONSTANTS
  u1 = u1  u2 = u2  u3 = u3  u4 = u4  p1 = p1
  Users = {u1, u2, u3, u4}
  Owner = u1
  Processors = {p1}
  FixAt = 2
  MaxOverlap = 2
  None = None
SYMMETRY Symmetry
INVARIANTS TypeOK RuleHolds
PROPERTY Implements
