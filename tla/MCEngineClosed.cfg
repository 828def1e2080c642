SPECIFICATION Spec
CONSTANT
  MaxLines = 2
PROPERTY
  ClosedQueueAcceptsNothing
