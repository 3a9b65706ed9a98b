CONSTANTS
  Machines <- MCMachines
  StraySizes <- MCStraySizes
SPECIFICATION BootSpec
INVARIANT OnlyGapsAreMissing
INVARIANT FailsOnlyForTheMarker
INVARIANT LowMemoryIsMapped
INVARIANT SizeIsUsable
INVARIANT ManagedIsUsable
INVARIANT ManagedIsMapped
INVARIANT TouchedIsMapped
CHECK_DEADLOCK FALSE
