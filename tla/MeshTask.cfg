SPECIFICATION Spec
CONSTANTS
  Packets = {p1, p2}
  OnChannel = {p1}
  Ids = {i1, i2}
  RelaySlots = 2
  SeenSize = 2
  TxQueueLen = 1
  MaxTries = 2
  TriesMod = 4
  RelayMode = "all"
  NoPacket = NoPacket
  NoId = NoId
INVARIANTS
  TypeOK
  PendingRelayIsAlone
  RepeatedOnce
  AwaitedIsUnheard
PROPERTIES
  OwnRelayKeepsSlot
  OwnPacketLeaves
