SPECIFICATION FairSpec
CONSTANTS
  WorkerCount = 2
  Slots = 3
  MaxRouted = 7
  MaxDirect = 1
  MaxVanished = 1
INVARIANTS
  SlotConservation
  BoundedQueues
  RowsFit
  SlotAccounting
PROPERTY
  LeastLoadedFirst
  RoutedForwarded
