SPECIFICATION FairSpec
CONSTANTS
  NReq = 3
  NSock = 2
  Servers = {v1, v2}
  ReqPkts <- Len_212
  RespPkts <- Len_221
  RidSpace = 16
  MaxDup = 0
  MaxDrops = 1
  Kept = {1}
INVARIANTS
  KeptOutcome
  OneOutcome
  ReplyIntegrity
  NoAssertFailure
  AtMostOnce
PROPERTIES
  KeepsContract
  Concluded
CHECK_DEADLOCK FALSE
