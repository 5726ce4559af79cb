SPECIFICATION Spec
CONSTANTS
  s1 = s1
  s2 = s2
  a = a
  None = None
  Kept = Kept
  Samples <- MCSamples
  ClassOf <- MCClassOf
  Anchorless = {s2}
  Labels = {a}
  TagsOf <- MCTagsOf
  LastSlot = 1
  Gestures <- MCGestures
  Files = {}
  MaxGestures = 3
INVARIANTS InTheOrderMade SavingTellsTheTruth QuietTabIsRight
PROPERTY EveryGestureSettles
CHECK_DEADLOCK FALSE
