SPECIFICATION Spec
CONSTANTS
  Space = 32
  WordSize = 2
  StackLo = 8
  StackHi = 18
  Values = {0, 2, 8, 10, 11, 12, 14, 16, 20}
  NumFrames = 3
  Skips = {0, 1}
INVARIANTS
  TypeOK
  ReadsOnStack
  FramesAscend
