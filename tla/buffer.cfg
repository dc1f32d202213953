SPECIFICATION Spec
CONSTANTS
  MAX_BLOCK_SIZE = 2
  MaxBytes = 6
  MaxBlocks = 4
INVARIANTS
  TypeOK
  SizeIsExact
  
PROPERTY IsByteQueue
