SPECIFICATION Spec
CONSTANTS
  QueueLen = 2
  CredEvery = 10
  CredMinGap = 2
  HelloEvery = 3
  HelloFirst = 1
  MinGap = 1
  Intervals = {1, 2}
  FirstInterval = 1
  Parked = 1
  Scales = {1}
  Relays = TRUE
  RequestGap = 3
INVARIANTS
  UrlArrivesSoon
  RelayIsHeard
