SPECIFICATION CompressionSpec
CONSTANTS
  LZ4_DISTANCE_MAX = 60
  Chunks <- MCChunks
  Shortfalls = {0, 4, 7, 8, 9, 10}
  Buckets = {1, 499}
  RMEM_STACK_TRACE_MAX = 48
  SmallBuffer = 512
  ModuleBuffer = 16384
  Buffered = 4
  Bias = 3
  Words = 16
  Records = {0, 1, 247, 248, 447, 448, 449, 494, 495, 499, 500, 4079, 4080, 4081, 8160, 8161, 16320, 16321}
  ModuleLists <- MCModuleLists
  ListBuffers = {1, 20, 21, 25, 50, 70, 100}
  Stacks <- MCStacks
  FrameLimits = {0, 2, 3, 6}
  Functions <- MCFunctions
CHECK_DEADLOCK FALSE
INVARIANTS RoundTrip WithinBuffers RecordsFit FramesCaptured TrampolineFaithful
