\* Both venues, three bid and two ask prices, messages on up to two levels in use, pages of two levels.
SPECIFICATION Spec
CONSTANTS
  Source <- MCSource
  LevelsPerPage = 2
  Snapshots <- MCSnapshots
  Updates <- MCUpdates
  Messages <- MCMessages
  MaxLevels = 2
  Depths <- MCDepths
INVARIANTS
  TypeOK
  WellFormed
  MadeAtPeak
  BookIsVenues
  AnswersAreBestFirst
