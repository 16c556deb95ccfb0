SPECIFICATION Spec
CONSTANTS
  n1 = n1
  n2 = n2
  n3 = n3
  a1 = a1
  a2 = a2
  b = b
  c = c
  h1 = h1
  h2 = h2
  NoNode = NoNode
  NoUrl = NoUrl
  NoHash = NoHash
  NoMsg = NoMsg
  Nodes = {n1, n2, n3}
  Urls = {a1, a2, b, c}
  Hashes = {h1, h2}
  TrackerUrls <- MCTrackerUrls
  HashOf <- MCHashOf
  CacheSize = 2
  MaxHeard = 2
  RxQueueLen = 1
INVARIANTS
  TypeOK
  PostGoesToOwnUrl
  SuppressedFitsQueue
  FailingIsRelayed
  DeliverableIsCached
  NewUrlIsDeliverable
  RestartRestoresCache
PROPERTY
  ImplementsKnownUrls
