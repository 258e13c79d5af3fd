SPECIFICATION Spec
CONSTANTS
  r1 = r1
  r2 = r2
  r3 = r3
  r4 = r4
  N = 3
  Leader = 0
  Requests = {r1, r2, r3, r4}
  Copies <- ToLeader
  NoSideEffects = {}
  MAX_ENTRIES_PER_MSG = 3
  BOUNDED_QUEUE = 1
  FC_THRESHOLD = 1
  LOG_ENTRY_COUNT = 3
  UNORDERED_LIMIT = 1
  BATCH_SIZE = 3
  PENDING_LIMIT = 3
  ACCELERATED = FALSE
  MaxTerm = 3
  SmartLb = FALSE
  MaxAe = 1
  MaxTimeouts = 0
INVARIANTS
  LeaderKeepsUnapplied
CHECK_DEADLOCK FALSE
SYMMETRY AnyRequest
