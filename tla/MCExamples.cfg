SPECIFICATION ExamplesSpec
CONSTANTS
  Symbols = {s1}
  OrderIds = {o1, o2}
  TradeIds = {t1, t2}
  Prices = {1, 2}
  Volumes = {1, 2}
  Times = {1, 2}
  VolumeLimit = 4
  MaxLevel = 2
  MaxFailures = 1
  MaxMessages = 4
  MaxTrades = 3
  Quotes <- MCQuotes
  Summaries <- MCSummaries
SYMMETRY Symmetry
CHECK_DEADLOCK FALSE
INVARIANTS
  ProgramTypeOK
  FrozenIsBookAtQuote
  ConsistentFeedValidates
  TapeIsTheFile
