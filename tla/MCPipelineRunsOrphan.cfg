SPECIFICATION Spec
CONSTANTS
  StepCount = 2
  Requires <- Requires2
  Passes <- NoSteps
  Files <- File1
  Refusing <- NoSteps
  Unavailable <- NoSteps
  Runs = {r1, r2}
  NoRun = NoRun
  Requests <- Requests2
  RestartLimit = 0
  InterruptLimit = 1
INVARIANT NoRunActsBesideAnOrphan
