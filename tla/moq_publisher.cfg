\* Two connections to one publisher, two catalogs between them.
SPECIFICATION FairSpec
CONSTANTS
  MaxConns = 2
  MaxCatalogs = 2
  MaxKeysLost = 1
  KeyInterval = 2
  Interval = 2
INVARIANTS
  TypeOK
  FramesGoToLatest
  KeyFrameWithin
  SubscriptionsAgree
PROPERTIES
  Paced
  SubscriberServed
CHECK_DEADLOCK FALSE
