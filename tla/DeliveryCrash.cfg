SPECIFICATION Spec
CONSTANTS
  Boots <- OneBoot
  MaximumBytes = 2
  MaximumQuarantined = 1
  MaxSequence = 3
  MaxStarts = 2
  MaxFaults = 1
  MaxClockSteps = 0
  MaxExpirations = 0
  NoItem = NoItem
INVARIANTS
  TypeOK
  AnswersMatchTheBatchInFlight
  RollupCountsEachSampleOnce
  SpooledSequencesDisjoint
PROPERTIES
  DeletedOnlyAfterCommit
  EvictsOldestFirst
  ImplementsContract
