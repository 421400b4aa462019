SPECIFICATION MCSpec
CONSTANTS
  Tools = {"read", "write"}
  Gated = {"write"}
  MaxIterations = 2
  Rounds = 1
  MaxSteps = 1
  KeepRecent = 4
  Responses <- MCResponses
  Histories <- MCHistories
  MaxTurns = 1
INVARIANT
  ResultsFollowCalls
