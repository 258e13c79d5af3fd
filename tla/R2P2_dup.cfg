SPECIFICATION Spec
CONSTANTS
  NReq = 2
  NSock = 2
  Servers = {v1, v2}
  ReqPkts <- Len_33
  RespPkts <- Len_11
  RidSpace = 16
  MaxDup = 2
  MaxDrops = 1
  Kept = {}
INVARIANTS
  RequestIntegrity
SYMMETRY Servers_any
CHECK_DEADLOCK FALSE
