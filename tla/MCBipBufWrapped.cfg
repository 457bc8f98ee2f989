SPECIFICATION Spec
CONSTANTS
  Cap = 4
  MaxByte = 10
INVARIANT MessageIsParsed
