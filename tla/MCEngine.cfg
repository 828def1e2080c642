SPECIFICATION FairSpec
CONSTANT
  MaxLines = 3
INVARIANTS
  TypeOK
  NothingLostOrReordered
  CountersAccountForEveryLine
  JoinMeansDrained
  DestructionStrandsAtMostOne
  NobodyLeftInside
PROPERTIES
  CallsReturn
  EgressWindsDown
  ImplementsReplay
