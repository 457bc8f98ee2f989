\* Five cells, up to sixteen bytes: the indices go round the array three times.
SPECIFICATION FairSpec
CONSTANTS
  Cap = 5
  MaxByte = 16
INVARIANTS
  TypeOK
  Intact
PROPERTIES
  IsByteQueue
  OutputDrains
