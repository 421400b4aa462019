SPECIFICATION MCSpec
CONSTANTS
  Tools = {"read", "write"}
  Gated = {"write"}
  MaxIterations = 2
  Rounds = 2
  MaxSteps = 1
  KeepRecent = 4
  Responses <- MCResponses
  Histories <- MCHistories
  MaxTurns = 1
INVARIANTS
  TypeOK
  StopsAtFailure
  RunsWithConsent
  AnswersInOrder
  CallsAnswered
  NothingAfterCancelled
  EndsWithAssistant
PROPERTIES
  CutOnlyAfterShown
  HistoryKept
