SPECIFICATION Spec
CONSTANTS
  s1 = s1
  o1 = o1
  o2 = o2
  Symbols <- MCOneSymbol
  OrderIds <- MCTwoOrders
  Prices = {1, 2}
  Volumes = {1, 2}
  MaxLevel = 4
  MaxFailures = 1
SYMMETRY Symmetry
CHECK_DEADLOCK FALSE
INVARIANTS
  TypeOK
  LevelsCoverOrders
  NoFalseAlarm
  LevelsMatchOrders
  TopOfBookIsBestOrder
