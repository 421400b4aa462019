SPECIFICATION MCSpec
CONSTANTS
  Workers = {w1, w2}
  Callers = {c1}
  Jobs = {j1}
  Nobody = Nobody
  NoJob = NoJob
PROPERTY
  DestructorReturns
