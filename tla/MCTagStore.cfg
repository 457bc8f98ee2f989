\* Three names, with records of three, four and six bytes, in a file of up to two pages: a page can be filled exactly, left with one byte, or crossed.
SPECIFICATION Spec
CONSTANTS
  PageSize = 8
  LenSize = 2
  MaxTag = 4
  Tag <- MCTag
  MaxSize = 16
INVARIANTS
  TypeOK
  TagsKept
  StartsAgain
PROPERTY
  AppendOnly
