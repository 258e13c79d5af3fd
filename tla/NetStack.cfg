SPECIFICATION Spec
CONSTANTS
  Mbuf = {m1, m2, m3, m4, m5}
  Frames <- AllFrames
  MaxFrames = 4
  MaxReq = 1
  ReqPkts = 2
  RespPkts = 1
  Groups = 1
  BATCH_SIZE = 2
  FlushAt = 2
  TxRing = 2
  NO_BATCH = FALSE
  Feedback = TRUE
SYMMETRY AnyMbuf
INVARIANTS TypeOK OneOwner NoOtherLeak
CHECK_DEADLOCK FALSE
