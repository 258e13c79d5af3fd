SPECIFICATION Spec
CONSTANTS
  r1 = r1
  N = 3
  Leader = 2
  Requests = {r1}
  Copies <- AllCopies
  NoSideEffects = {r1}
  MAX_ENTRIES_PER_MSG = 2
  BOUNDED_QUEUE = 1
  FC_THRESHOLD = 4
  LOG_ENTRY_COUNT = 8
  UNORDERED_LIMIT = 2
  BATCH_SIZE = 2
  PENDING_LIMIT = 2
  ACCELERATED = TRUE
  MaxTerm = 1
  SmartLb = TRUE
  MaxAe = 2
  MaxTimeouts = 1
INVARIANTS
  RecoveredIsNew
CHECK_DEADLOCK FALSE
