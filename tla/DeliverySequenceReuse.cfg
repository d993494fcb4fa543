SPECIFICATION Spec
CONSTANTS
  Boots <- OneBoot
  MaximumBytes = 2
  MaximumQuarantined = 1
  MaxSequence = 2
  MaxStarts = 2
  MaxFaults = 0
  MaxClockSteps = 0
  MaxExpirations = 0
  NoItem = NoItem
INVARIANTS
  SequenceNamesOneSample
