SPECIFICATION Spec
CONSTANTS
  Main = main
  Writer = writer
  NONE = none
  Threads = {main, t1}
  RecordSizes = {1, 2}
  BufferSize = 3
  MaxCalls = 4
  Quiet = FALSE
  Reentrant = FALSE
  OpenMayFail = FALSE
INVARIANT FlushData

