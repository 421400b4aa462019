SPECIFICATION MCSpec
CONSTANTS
  Calls <- MCCalls
  RuleOf <- MCRuleOf
  Stored <- MCStored
  Covers <- MCCovers
  Batch = 2
  MaxKeys = 3
  MaxAsks = 2
  MaxNotices = 1
  None = None
INVARIANTS
  TypeOK
  AnswerIsTheChoice
  RulesFromConsent
  DialogPromised
  NotStuckThinking
PROPERTIES
  DialogAppears
