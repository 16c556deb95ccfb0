SPECIFICATION Spec
CONSTANTS
  o = o
  t = t
  u = u
  f = f
  Trackers = {o, t, u}
  Origin = o
  Meshtastic = {f}
  RelayMode <- MCRelayMode
  NodeByte <- MCNodeByte
  HopLimit = 3
  NoCopy = NoCopy
INVARIANTS
  ReportsAreTrue
  ScheduledIsRelayed
PROPERTIES
  FloodEnds
CHECK_DEADLOCK FALSE
