SPECIFICATION Spec
CONSTANTS
  MAX_BLOCK_SIZE = 2
  MaxReceived = 4
  MaxRead = 2
INVARIANT AllReceivedIsThere
CHECK_DEADLOCK FALSE
