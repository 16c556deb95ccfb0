SPECIFICATION AirSpec
CONSTANTS
  Buckets = 3
  Minute = 2
  Limit = 3
  ForeignLimit = 1
  MaxToa = 2
  MillisMod = 100
  MaxUptime = 10
  MaxTime = 13
  MaxPowerUps = 2
INVARIANTS
  AccountAgrees
  LimitHolds
  ForeignLimitHolds
