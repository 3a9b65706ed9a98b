CONSTANTS
  Machines <- MCMachines
  StraySizes <- MCStraySizes
SPECIFICATION BootSpec
INVARIANT OnlyLow64MiBMapped
CHECK_DEADLOCK FALSE
