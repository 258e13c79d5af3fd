SPECIFICATION Spec
CONSTANTS
  NReq = 3
  NSock = 2
  MAX_EVENTS = 2
  Refused = {2}
  MaxBad = 1
  SendInCallback = TRUE
  Kept = {}
INVARIANTS OwnTimeout
CHECK_DEADLOCK FALSE
