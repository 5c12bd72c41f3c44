SPECIFICATION Spec
CONSTANTS
  Main = main
  Writer = writer
  NONE = none
  Threads = {main, t1}
  RecordSizes = {1, 2}
  BufferSize = 4
  MaxCalls = 4
  Quiet = FALSE
  Reentrant = TRUE
  OpenMayFail = FALSE
INVARIANT NoWaitCycle
\* Two threads really may block each other here.
CHECK_DEADLOCK FALSE
