SPECIFICATION FairSpec
CONSTANTS
  Keys = {1}
  Values = {v1}
  Tombstone = Tombstone
  Absent = Absent
  None = None
  KeyLen = 1
  ValueLen = 1
  MaxLevel = 2
  BaseTarget = 100
  SizeRatio = 1
  L0Trigger = 1
  MemtableSize = 2
  MergeBatch = 2
  StallMult = 2
  ResumeMult = 1
  SnapIds = {s1}
  Calls = {"rollback", "save_snapshot", "compact", "compact_all"}
  Faults = {"flush"}
  MaxRun = 4
  MaxGen = 1
INVARIANTS
  TypeOK
  RunNumbersUnique
  L0Bounded
PROPERTIES
  StallEnds
  DropReturns
