CONSTANTS
  p1 = p1
  p2 = p2
  b1 = b1
  Pids = {p1, p2}
  Bodies = {b1}
  Twins = {}
  Killable = FALSE
  None = None
SPECIFICATION PairSpec
INVARIANT OneOwnedProcess
