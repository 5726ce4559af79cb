SPECIFICATION Spec
CONSTANTS
  Visitors = {v1, v2}
  Everyone = Everyone
  Requests = {q1, q2, q3}
  Jobs = {j1, j2}
  light1 = light1
  light2 = light2
  heavy = heavy
  huge = huge
  Points <- MCPoints
  None = None
  Concurrent = 2
  Capacity <- MCCapacity
  Weight <- MCWeight
  CacheCapacity = 2
  MaxRefill = 1
  MaxEnds = 1
CONSTRAINT HugeApart
SYMMETRY Symmetry
INVARIANTS
  PlacesComeBack
  DebtStaysWithinFlight
  BudgetsHold
  RendersOnce
CHECK_DEADLOCK FALSE
