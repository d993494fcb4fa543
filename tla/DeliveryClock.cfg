SPECIFICATION FairSpec
CONSTANTS
  Boots <- OneBoot
  MaximumBytes = 1
  MaximumQuarantined = 1
  MaxSequence = 2
  MaxStarts = 2
  MaxFaults = 0
  MaxClockSteps = 1
  MaxExpirations = 1
  NoItem = NoItem
INVARIANTS
  SpoolWithinCapacity
  RowsAreUnique
