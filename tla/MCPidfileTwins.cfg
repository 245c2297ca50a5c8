CONSTANTS
  p1 = p1
  p2 = p2
  p3 = p3
  b1 = b1
  b2 = b2
  Pids = {p1, p2}
  Bodies = {b1, b2}
  Twins = {p1}
  Killable = TRUE
  None = None
SPECIFICATION Spec
INVARIANTS
  NoOrphan
  ForeignSpared
