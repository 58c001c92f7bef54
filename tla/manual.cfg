SPECIFICATION Spec
CONSTANTS
  Keys <- TwoByteKeys
  Values <- OneValue
  Tombstone = Tombstone
  Absent = Absent
  None = None
  KeyLen = 2
  ValueLen = 2
  MaxByte = 1
  NumHashes = 2
  BitsPerKey = 3
  Hash <- AnyHash
  IoError = IoError
  ScanAllLen = 3
  MaxLevel = 3
  BaseTarget = 1
  SizeRatio = 100
  L0Trigger = 10
  MemtableSize = 6
  MergeBatch = 100
  StallMult = 2
  ResumeMult = 1
  SnapIds = {}
  Calls = {"compact", "compact_all", "delete", "delete_batch", "insert_batch"}
  Faults = {"compaction"}
  MaxRun = 4
  MaxGen = 0
INVARIANTS
  TablesAnswer
  ScanPrefixShows
  IterShowsContents
  FoldsAddUp
PROPERTIES
  ImplementsKvStore
