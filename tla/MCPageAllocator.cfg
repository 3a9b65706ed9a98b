CONSTANTS
  PageSize = 2
  DataPtr = 16
  AvailableMem = 80
  UsizeMod = 64
  ReqSizes <- MCReqSizes
  StrayPtrs <- MCStrayPtrs
  StrayCnts <- MCStrayCnts
  MaxStrays = 1
SPECIFICATION Spec
INVARIANT LiveInMemory
INVARIANT LiveDisjoint
INVARIANT BitmapMatchesLive
INVARIANT MarkedAreOwned
PROPERTY ImplementsPool
CHECK_DEADLOCK FALSE
