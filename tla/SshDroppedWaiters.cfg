SPECIFICATION FairSshSpec
CONSTANTS
  c1 = c1
  c2 = c2
  Command <- TwoCommands
  MaxChannels = 1
  MaxRetries = 1
  MaxClients = 2
  MaxConnects = 1
  MaxFaults = 1
  MaxProbeFailures = 0
PROPERTIES
  WaitersSettle
CHECK_DEADLOCK FALSE
