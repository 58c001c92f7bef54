SPECIFICATION Spec
CONSTANTS
  Procs = {p1, p2, p3}
  Inodes = {i1, i2, i3, i4}
  NoFile = NoFile
  NoInfo = NoInfo
  Ends = {"drop"}
  Faults = {}
SYMMETRY LockSymmetry
CHECK_DEADLOCK FALSE
INVARIANTS
  OneHolder
