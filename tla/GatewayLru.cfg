SPECIFICATION LruSpec
CONSTANTS
  Nodes = {n1, n2, n3}
  NoNode = NoNode
  CacheSize = 2
  RequestGap = 2
  MillisMod = 4
  MaxUptime = 7
INVARIANTS
  LostOnlyToLater
PROPERTIES
  AskedOncePerGap
