CONSTANTS
  Bytes = {65, 66, 127}
  FifoSize = 2
  MaxBytes = 5
  MaxArrivals = 4
SPECIFICATION Spec
INVARIANT LineConfigured
INVARIANT NothingLost
INVARIANT ReceivedInOrder
PROPERTY SendsEnd
PROPERTY ReceivesEnd
CHECK_DEADLOCK FALSE
