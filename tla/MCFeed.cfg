\* Two numbers, one reconnect, one command of the operator; counts of 0 and 1.
SPECIFICATION FairSpec
CONSTANTS
  Configurations <- MCConfigurations
  MaxFd = 2
  MaxReconnects = 1
  SilentChecks = 0
  Word = 64
  MaxCount = 1
  MaxAdmin = 1
INVARIANTS
  TypeOK
  OneFeed
PROPERTIES
  ShutdownHitsFeed
  FeedsGoOn
CHECK_DEADLOCK FALSE
