SPECIFICATION Spec
CONSTANTS
  PAYLOAD_SIZE = 3
  MIN_PAYLOAD_SIZE = 2
  MaxIov = 3
  MinLen = 0
  MaxLen = 4
  Messages <- MCMessages
  ReadSizes = {1, 2, 4}
INVARIANTS
  TypeOK
  Segmented
  ReadsInOrder
  ReadsComplete
CHECK_DEADLOCK FALSE
