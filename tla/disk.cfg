SPECIFICATION Spec
CONSTANTS
  Names = {n1}
  Aux <- OneAux
  None = None
  Torn = Torn
  Faults = {"io", "power"}
  MaxRun = 2
  MaxSession = 2
  MaxMishaps = 1
  MaxOdd = 1
CHECK_DEADLOCK FALSE
INVARIANTS
  TypeOK
  HeldRunsDurable
  NumbersFresh
  AtomicFilesWhole
  SavedSurvivesCrash
  PowerLossCosts
