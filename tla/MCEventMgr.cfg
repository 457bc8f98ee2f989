\* The event loop on four descriptors: a listener and three connections at a time.
SPECIFICATION FairSpec
CONSTANTS
  MaxFD = 4
  MaxFile = 5
  MaxEvents = 3
INVARIANTS
  TypeOK
  NoStaleDispatch
  TeardownOnce
  BatchLeavesNoZombie
PROPERTY
  DoomedIsTornDown
