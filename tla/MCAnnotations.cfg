CONSTANTS
  s1 = s1
  s2 = s2
  s3 = s3
  a = a
  b = b
  p = p
  q = q
  w1 = w1
  w2 = w2
  None = None
  Kept = Kept
  Samples = {s1, s2, s3}
  Labels = {a, b}
  TagsOf <- MCTagsOf
  LastSlot = 2
  Gestures <- MCGestures
  Files <- MCFiles
  Libraries <- MCLibraries
  Catalogs <- MCCatalogs
  Writers = {w1, w2}
  MaxJobs = 2
  MaxPreparations = 1
  MaxRecatalogs = 1
SPECIFICATION Spec
SYMMETRY Swap
INVARIANTS HistoryTellsTheTable QuietMomentsComeBack
PROPERTIES RanksAreForGood KeepsTheLedger
CHECK_DEADLOCK FALSE
