CONSTANTS
  Machines <- MCMachines
  StraySizes <- MCStraySizes
SPECIFICATION BootSpec
INVARIANT CheckedIsComplete
CHECK_DEADLOCK FALSE
