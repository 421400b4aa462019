SPECIFICATION MCSpec
CONSTANTS
  Workers = {w1, w2}
  Callers = {c1, c2}
  Jobs = {j1, j2, j3}
  Nobody = Nobody
  NoJob = NoJob
INVARIANTS
  TypeOK
  NoTaskStranded
  OnePlace
PROPERTIES
  ImplementsJobQueue
  AcceptedTaskRuns
  DestructorReturnsUnraced
