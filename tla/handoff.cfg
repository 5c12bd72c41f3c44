SPECIFICATION Spec
CONSTANTS
  Main = main
  Writer = writer
  NONE = none
  Threads = {main, t1, t2}
  RecordSizes = {1, 2}
  BufferSize = 3
  MaxCalls = 4
  Quiet = TRUE
  Reentrant = TRUE
  OpenMayFail = TRUE
INVARIANTS
  TypeOK
  JobSlotFree
  StreamIntact
  WholeRecords
  FlushData
  ExcessWithinBuffer
  NoWaitCycle
PROPERTIES
  ChunkStable
  ClosedForGood
  ImplementsLog
SYMMETRY ThreadSymmetry
