\* The callbacks of one feed and an unknown type, five calls of Queue.
SPECIFICATION FairSpec
CONSTANTS
  Registered <- MCRegistered
  Unknown <- MCUnknown
  MaxPost = 5
INVARIANTS
  TypeOK
  StaysAwake
PROPERTIES
  InOrder
  AllRun
