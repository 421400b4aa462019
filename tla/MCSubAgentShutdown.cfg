SPECIFICATION MCSpec
CONSTANTS
  Tasks = {t1}
  Clients = {}
  MaxThreads = 1
  NoTask = NoTask
PROPERTY
  CancelledStays
