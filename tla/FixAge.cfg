SPECIFICATION Spec
CONSTANTS
  Day = 6
  MaxFixAge = 2
  MaxPositionAgeSec = 2
  MaxBlock = 2
  Start = 9
  End = 16
  Unknown = Unknown
INVARIANTS
  RecentIsForwarded
  OldIsDropped
CHECK_DEADLOCK FALSE
