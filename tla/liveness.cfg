SPECIFICATION FairSpec
CONSTANTS
  Main = main
  Writer = writer
  NONE = none
  Threads = {main, t1}
  RecordSizes = {1, 2}
  BufferSize = 3
  MaxCalls = 4
  Quiet = TRUE
  Reentrant = FALSE
  OpenMayFail = FALSE
\* The process ends after the shutdown.
CHECK_DEADLOCK FALSE
PROPERTIES
  CallsReturn
  ShutdownCompletes
  JobWritten
