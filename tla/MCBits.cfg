CONSTANTS
  N = 5
  Pointers <- MCPointers
  Indices <- MCIndices
  Frames <- MCFrames
  MapSize = 10
  MapMemory = 3
  MaxRun = 4
SPECIFICATION Spec
INVARIANT AssertsAreExact
INVARIANT WordHolds
INVARIANT IndexIsVector
INVARIANT FieldsDecode
INVARIANT BytesImplementBits
CHECK_DEADLOCK FALSE
