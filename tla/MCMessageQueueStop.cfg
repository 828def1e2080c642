SPECIFICATION Spec
CONSTANTS
  t1 = t1
  t2 = t2
  c1 = c1
  c2 = c2
  m1 = m1
  m2 = m2
  Threads = {t1}
  Consumers = {c1}
  Messages = {m1}
  MaxPushes = 1
PROPERTY
  StopEndsDelivery
