SPECIFICATION FairSpec
CONSTANTS
  StepCount = 1
  Requires <- Requires1
  Passes <- NoSteps
  Files <- File1
  Refusing <- NoSteps
  Unavailable <- NoSteps
  Runs = {r1, r2}
  NoRun = NoRun
  Requests <- Requests1
  RestartLimit = 1
  InterruptLimit = 3
PROPERTIES
  LostRunsTakeNothingMore
  RunsWaitOnlyForTheirStep
  ThreeInterruptsEndTheWait
