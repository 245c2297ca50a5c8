CONSTANTS
  p1 = p1
  p2 = p2
  p3 = p3
  b1 = b1
  b2 = b2
  Pids = {p1, p2, p3}
  Bodies = {b1, b2}
  Twins = {}
  Killable = FALSE
  None = None
SPECIFICATION Spec
INVARIANTS
  TypeOK
  OwnerInv
  ServiceInv
PROPERTIES
  ImplementsService
