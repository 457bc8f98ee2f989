\* One connection cut anywhere or two that interleave, for each kind of traffic.
\* The peers stop sending in the end.
SPECIFICATION FairSpec
CONSTANTS
  Scenarios <- MCScenarios
  Needed <- MCNeeded
  Path <- MCPath
  Depth <- MCDepth
  MaxAnswer = 1
  LongKeys = {"long"}
INVARIANTS
  TypeOK
  InOrder
  
PROPERTY
  AllServed
CHECK_DEADLOCK FALSE
