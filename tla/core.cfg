SPECIFICATION Spec
CONSTANTS
  Keys = {1}
  Values = {v1, v2}
  Tombstone = Tombstone
  Absent = Absent
  None = None
  KeyLen = 1
  ValueLen = 1
  MaxLevel = 2
  BaseTarget = 0
  SizeRatio = 1
  L0Trigger = 1
  MemtableSize = 2
  MergeBatch = 1
  StallMult = 2
  ResumeMult = 1
  SnapIds = {s1}
  Calls = {"rollback"}
  Faults = {}
  MaxRun = 5
  MaxGen = 1
SYMMETRY ValueSymmetry
INVARIANTS
  CompactionJobCurrent
  LevelsAscend
  GetAgreesWithRange
PROPERTIES
  ImplementsKvStore
