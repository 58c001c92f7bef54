SPECIFICATION FairSpec
CONSTANTS
  Keys = {1, 2}
  Values = {v1}
  Tombstone = Tombstone
  Absent = Absent
  None = None
  KeyLen = 1
  ValueLen = 1
  MaxLevel = 2
  BaseTarget = 3
  SizeRatio = 1
  L0Trigger = 1
  MemtableSize = 2
  MergeBatch = 2
  StallMult = 2
  ResumeMult = 1
  SnapIds = {s1}
  Calls = {}
  Faults = {}
  MaxRun = 8
  MaxGen = 1
PROPERTIES
  StallEnds
