SPECIFICATION Spec
CONSTANTS
  s1 = s1
  s2 = s2
  t1 = t1
  t2 = t2
  Symbols <- MCOneSymbol
  TradeIds <- MCTradeIds
  Prices = {1, 2}
  Volumes = {1, 2}
  VolumeLimit = 4
  MaxTrades = 2
  MaxFailures = 1
INVARIANT
  StatsAlwaysMatch
CHECK_DEADLOCK FALSE
