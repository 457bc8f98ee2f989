\* Lengths of one byte, so that Restore never finds less than a length.
SPECIFICATION Spec
CONSTANTS
  PageSize = 6
  LenSize = 1
  MaxTag = 4
  Tag <- MCTag
  MaxSize = 12
INVARIANT RestoreFindsAll
