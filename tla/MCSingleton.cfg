CONSTANTS
  Contexts = {c1, c2, c3}
  BootBytes = {0, 1, 2, 3}
SPECIFICATION Spec
CHECK_DEADLOCK FALSE
INVARIANT OneInitialiser
INVARIANT ReferenceIsInitialised
INVARIANT WaitHasInitialiser
PROPERTY UsedIsKept
