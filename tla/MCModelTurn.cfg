SPECIFICATION Spec
CONSTANTS
  Bodies <- MCBodies
  Creators <- MCCreators
  SubAgentTools <- MCSubAgentTools
  MaxRequests = 1
  MaxCreates = 2
INVARIANTS
  TypeOK
  StreamEqualsWhole
  CreatedIsKept
  SameAfterRestart
