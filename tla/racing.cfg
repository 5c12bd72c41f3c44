SPECIFICATION Spec
CONSTANTS
  Main = main
  Writer = writer
  NONE = none
  Threads = {main, t1, t2}
  RecordSizes = {1, 2}
  BufferSize = 3
  MaxCalls = 3
  Quiet = FALSE
  Reentrant = FALSE
  OpenMayFail = FALSE
SYMMETRY ThreadSymmetry
INVARIANTS
  HalvesDisjoint
  WriterGoneAtFlush
