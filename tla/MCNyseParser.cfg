SPECIFICATION Spec
CONSTANTS
  MsgTypes <- MCMsgTypes
  Implemented <- MCImplemented
  SeqLimit = 8
  MaxLines = 5
INVARIANTS
  TypeOK
  LostAreSkipped
  GapsAreRuns
  LossesBracketTheMissing
CHECK_DEADLOCK FALSE
