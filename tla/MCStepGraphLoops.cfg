SPECIFICATION FairSpec
CONSTANTS
  StepCount = 3
  Unavailable <- MCUnavailable
INVARIANT AnswersAreRight
PROPERTY LoopsEnd
CHECK_DEADLOCK FALSE
