\* Two clients, pages of three bytes, three records: the two that wrap round FreeWrap lack their header.
SPECIFICATION FairSpec
CONSTANTS
  Client = {c1, c2}
  Header = 1
  Body = 1
  Slack = 1
  FreeWrap = 5
  PageSize = 3
  CacheSize = 1
  Control = 2
  Capacity = 4
  MaxOffset = 4
  MaxAsk = 4
INVARIANTS
  TypeOK
  NothingSkipped
  OnlyPublished
  CleanReuse
  BacklogIsArmed
PROPERTY
  BacklogIsSent
