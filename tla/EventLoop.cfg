SPECIFICATION FairSpec
CONSTANTS
  NReq = 3
  NSock = 2
  MAX_EVENTS = 2
  Refused = {2}
  MaxBad = 1
  SendInCallback = FALSE
  Kept = {1}
INVARIANTS TypeOK OneOutcome OwnTimeout CountExact
PROPERTIES Concluded
CHECK_DEADLOCK FALSE
