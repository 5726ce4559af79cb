SPECIFICATION Spec
CONSTANTS
  m1 = m1
  m2 = m2
  p1 = p1
  p2 = p2
  None = None
  Modules <- MCModules
  Processes <- MCProcesses
  Slots <- MCSlots
  LastSample = 3
  MaxPasses = 3
  MaxChanges = 2
  MaxRestarts = 1
SYMMETRY Symmetry
INVARIANTS
  ObjectsStandUnlessCut
  SamplesAreHeld
  NoCircle
  RecordIsTrue
PROPERTY
  PruneLeavesNothing
CHECK_DEADLOCK FALSE
