SPECIFICATION Spec
CONSTANTS
  Comma = ","
  Letters = {"x"}
  Numerals <- MCNumerals
  Decimals = {"1.5", "0.0"}
  Times = {"09:30:00.000000000"}
  Structs <- WireStructs
  Members <- WireMembers
  Nesting <- MCNesting
  KindOf <- WireKindOf
  FieldNums = {0, 2, 4, 5}
  LinesOf <- MCLinesOf
  Zeros = {"000", "0.0"}
INVARIANTS
  TypeOK
  AnswersAgreeWithSplit
  FailsAtFirstBadField
  LinesAreDecodedWhole
CHECK_DEADLOCK FALSE
