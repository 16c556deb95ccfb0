SPECIFICATION Spec
CONSTANTS
  Base = 1
  MaxBackoff = 3
  MaxShift = 2
  FailsMod = 4
  Fresh = 3
  Window = 6
  Retry = 1
  MaxPost = 1
  MaxCheck = 1
INVARIANTS
  OnlineIsProven
  OwnPositionHasAWay
  CheckIsRepeated
