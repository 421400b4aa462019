SPECIFICATION Spec
CONSTANTS
  Servers = 2
  Callers = {"turn", "sub"}
  Turn = "turn"
  MaxCalls = 6
  MaxNoise = 1
INVARIANTS
  TypeOK
  AnswerIsOwn
  ChildrenReaped
PROPERTY
  NothingHangs
