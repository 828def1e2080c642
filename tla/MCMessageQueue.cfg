SPECIFICATION FairSpec
CONSTANTS
  t1 = t1
  t2 = t2
  c1 = c1
  c2 = c2
  m1 = m1
  m2 = m2
  Threads <- MCThreads
  Consumers <- MCConsumers
  Messages <- MCMessages
  MaxPushes = 2
INVARIANTS
  TypeOK
  EndIsAnnounced
  NoLostWakeup
PROPERTIES
  ImplementsHandoff
  EveryLoopEnds
  QueueDrains
