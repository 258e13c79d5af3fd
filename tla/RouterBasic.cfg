SPECIFICATION Spec
CONSTANTS
  WorkerCount = 3
  Policies = {"RAND", "RR", "JSQ"}
  IdxSpace = 4
  MaxRouted = 6
  MaxFixed = 2
  MaxVanished = 1
INVARIANTS
  BacklogExact
  IdleStackTruthful
PROPERTIES
  JoinsShortest
  RotatesTargets
CHECK_DEADLOCK FALSE
