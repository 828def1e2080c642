SPECIFICATION Spec
CONSTANTS
  s1 = s1
  o1 = o1
  t1 = t1
  x1 = x1
  d1 = d1
  Symbols <- MCOneSymbol
  OrderIds <- MCOrderIds
  Prices = {1}
  Volumes = {1, 2}
  TradeIds <- MCOneTradeId
  CrossIds <- MCCrossIds
  Statuses = {"4", "5", "7"}
  Details <- MCDetails
  VolumeLimit = 4
  MaxLevel = 2
  MaxFailures = 1
  MaxTrades = 2
CHECK_DEADLOCK FALSE
INVARIANTS
  TypeOK
  TradesAndCrossesApart
PROPERTIES
  PrintsTakeAtMostTheirVolume
  ImplementsTradeLedger
