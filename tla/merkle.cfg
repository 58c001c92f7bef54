SPECIFICATION Spec
CONSTANTS
  Byte = {"a", "b", "x", "y", ":"}
  Keys <- MCKeys
  Values <- MCValues
  Separator = ":"
  Trees = {t1, t2}
  Heights = {0, 1, 2}
  None = None
  MaxLeaves = 4
SYMMETRY TreeSymmetry
INVARIANTS
  TypeOK
  RootIsReference
  ProofsVerify
  ProofsBind
  DiffFindsChanges
PROPERTIES
  InsertProves
