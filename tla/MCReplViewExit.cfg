SPECIFICATION MCSpec
CONSTANTS
  Calls <- MCExitCalls
  RuleOf <- MCRuleOf
  Stored <- MCStored
  Covers <- MCCovers
  Batch = 1
  MaxKeys = 2
  MaxAsks = 1
  MaxNotices = 0
  None = None
INVARIANT
  ViewOutlivesJobs
