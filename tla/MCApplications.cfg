SPECIFICATION Spec
CONSTANTS
  Apps = {a1, a2}
  Busy = {a1}
  Roots = {r1, r2}
  None = None
  Threads = {t1}
  MaxChoices = 2
  MaxBuilds = 1
  MaxStarts = 1
  MaxFaults = 1
CONSTRAINT OverlapsAlone
SYMMETRY Symmetry
INVARIANTS
  OpenLibraryIsServed
  SettledLauncherTellsTheTruth
  BuildsKeepTheirLibrary
  QuitLeavesNothing
  StopsWaitOnlyForTheBuild
CHECK_DEADLOCK FALSE
