SPECIFICATION Spec
CONSTANTS
  RadioWorks = TRUE
  NoMode = NoMode
INVARIANTS
  TypeOK
  StateFitsSettings
  RadioFitsMode
  PortalFitsState
  SettingsSurviveRestart
  UserApStays
PROPERTIES
  ReturnsToRunning
