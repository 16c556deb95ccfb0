SPECIFICATION GuardSpec
CONSTANTS
  MillisMod = 12
  MaxPacket = 4
PROPERTIES
  StuckHeaderClears
  TimedPacketSurvives
