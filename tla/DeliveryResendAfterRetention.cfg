SPECIFICATION Spec
CONSTANTS
  Boots <- OneBoot
  MaximumBytes = 2
  MaximumQuarantined = 1
  MaxSequence = 1
  MaxStarts = 1
  MaxFaults = 1
  MaxClockSteps = 0
  MaxExpirations = 1
  NoItem = NoItem
INVARIANTS
  RollupCountsEachSampleOnce
