SPECIFICATION OperatorSpec
CONSTANTS
  MaxLen = 5
  Dep = {d1, d2}
  Label <- Labels
  Place = {p1, p2}
  Reach <- Grid
  MaxTicks = 3
  Size <- Sizes
  Text <- SomeTexts
  Float <- SomeFloats
  Operation <- Operations
INVARIANTS TablesAreArithmetic FoldsIterate ReadyRulesConfirm
INVARIANTS GateTellsNews FrontierRemembers
PROPERTIES RoundTrip RelaysAgree PrefixesRefused
CHECK_DEADLOCK FALSE
