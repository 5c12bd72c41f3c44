SPECIFICATION Spec
CONSTANTS
  Threads = {t1, t2}
  Stacks = {1, 2, 3, 4, 5}
  Hash <- MCHash
  Words = 4
  HashArraySize = 2
  AddSize = 2
  ExistsSize = 1
  MaxRecords = 4
  NONE = none
  BufferSize = 3
  OpenMayFail = TRUE
SYMMETRY ThreadSymmetry
INVARIANT FileResolves
