SPECIFICATION Spec
CONSTANTS
  SnapIds = {s1}
  Names = {n1}
  Active = Active
  None = None
  KeepSnapshots = FALSE
  MaxRun = 3
  MaxSession = 3
  MaxCut = 1
CHECK_DEADLOCK FALSE
INVARIANTS
  TypeOK
  HeldRunsReadable
  SavedRunsIntact
  SaveFindsItsRuns
  NoOrphanFiles
