SPECIFICATION MCSpec
CONSTANTS
  Tasks = {t1, t2}
  Clients = {c1}
  MaxThreads = 2
  NoTask = NoTask
INVARIANTS
  TypeOK
  AllSettledAtEnd
  UiToldTheOutcome
PROPERTIES
  OutcomeFinal
  SleeperWakes
  EveryTaskSettles
