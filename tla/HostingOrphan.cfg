SPECIFICATION Spec
CONSTANTS
  a1 = a1  a2 = a2  k1 = k1  k2 = k2
  NRadios = 2
  Keys = {k1, k2}
  NSlots = 2
  Requests = {a1, a2}
  MaxBirths = 3
  MaxFails = 1
  MaxStarts = 2
  None = None
SYMMETRY Symmetry
INVARIANT NoOrphanNode
CHECK_DEADLOCK FALSE
