SPECIFICATION FairSpec
CONSTANT Size = 4
INVARIANTS
  CountExact
  ListSound
PROPERTY
  AllocEnds
