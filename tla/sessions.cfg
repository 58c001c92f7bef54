SPECIFICATION SSpec
CONSTANTS
  Keys = {1}
  Values = {v1, v2}
  Tombstone = Tombstone
  Absent = Absent
  None = None
  KeyLen = 1
  ValueLen = 1
  MaxLevel = 2
  BaseTarget = 1
  SizeRatio = 1
  L0Trigger = 1
  MemtableSize = 2
  MergeBatch = 2
  StallMult = 2
  ResumeMult = 1
  SnapIds = {}
  Calls = {"save_snapshot", "delete"}
  Faults = {"compaction"}
  MaxRun = 2
  MaxGen = 1
  Names = {n1}
INVARIANTS
  SessionTypeOK
  RunNumbersUnique
PROPERTIES
  ImplementsDurableKvStore
