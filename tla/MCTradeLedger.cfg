SPECIFICATION Spec
CONSTANTS
  s1 = s1
  s2 = s2
  t1 = t1
  t2 = t2
  Symbols <- MCOneSymbol
  TradeIds <- MCTradeIds
  Prices = {1, 2, 3}
  Volumes = {1, 2}
  VolumeLimit = 4
  MaxTrades = 3
  MaxFailures = 1
SYMMETRY Symmetry
INVARIANTS
  TypeOK
  StatsMatchLiveTrades
  IdsNameTheirOwnTrade
PROPERTY
  LogIsAJournal
CHECK_DEADLOCK FALSE
