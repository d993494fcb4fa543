SPECIFICATION FairSpec
CONSTANTS
  Boots <- TwoBoots
  MaximumBytes = 2
  MaximumQuarantined = 1
  MaxSequence = 1
  MaxStarts = 2
  MaxFaults = 1
  MaxClockSteps = 0
  MaxExpirations = 0
  NoItem = NoItem
PROPERTIES
  ImplementsContract
  PendingIsResolved
