SPECIFICATION FairSpec
CONSTANTS
  coordinates = coordinates
  rates = rates
  occurrences = occurrences
  Parts <- MCParts
  Stamped = {coordinates}
  Digested = {rates}
  RevisionOrder <- MCRevisionOrder
  BodyOrder <- MCBodyOrder
  Told <- MCTold
  FirstTold <- MCFirstTold
  Requests = {q1, q2}
  Sizes <- MCSizes
  None = None
  MaxWrites = 2
  MaxFaults = 1
  MaxRestarts = 1
INVARIANT AnswersAreCurrent
PROPERTY EveryRequestEnds
CHECK_DEADLOCK FALSE
