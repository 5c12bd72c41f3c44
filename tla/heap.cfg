SPECIFICATION Spec
CONSTANTS
  Threads = {t1, t2}
  Blocks = {p1, p2, p3}
  NULL = null
  MaxOps = 6
SYMMETRY HeapSymmetry
INVARIANTS
  NoFalseLeak
  LiveKnown
PROPERTY NoDoubleAlloc
