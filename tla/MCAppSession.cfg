SPECIFICATION MCSpec
CONSTANTS
  Ids = {1, 2}
  Threads = {"ui", "worker"}
  Missing = Missing
  Torn = Torn
  MaxSends = 2
  MaxStarts = 2
  MaxVisits = 1
  MaxNotices = 1
  Residues <- MCResidues
INVARIANTS
  TypeOK
  FilesWhole
  SavedWhenIdle
  DeletedStays
PROPERTIES
  AcceptedIsSaved
