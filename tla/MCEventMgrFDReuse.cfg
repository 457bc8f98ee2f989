SPECIFICATION Spec
CONSTANTS
  MaxFD = 3
  MaxFile = 4
  MaxEvents = 3
INVARIANT RegisterFindsFreeSlot
