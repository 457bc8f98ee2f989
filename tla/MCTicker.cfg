\* One reader, one subscribed tag of two, up to three records, three runs, pages of two records.
SPECIFICATION FairSpec
CONSTANTS
  Fd = {1}
  Tag = {1}
  RecordSize = 1
  RecordsPerPage = 2
  MaxRecordCount = 2
  MaxFDCount = 2
  MaxRoom = 2
  Kinds <- MCKinds
  MaxRecords = 3
  MaxTicks = 3
  MaxRuns = 3
INVARIANTS
  TypeOK
  Sequenced
  Delivered
PROPERTY
  AllPlayed
CHECK_DEADLOCK FALSE
