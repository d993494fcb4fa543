SPECIFICATION Spec
CONSTANTS
  Boots <- OneBoot
  MaximumBytes = 2
  MaximumQuarantined = 1
  MaxSequence = 2
  MaxStarts = 1
  MaxFaults = 1
  MaxClockSteps = 1
  MaxExpirations = 0
  NoItem = NoItem
PROPERTIES
  DeletedOnlyAfterCommit
