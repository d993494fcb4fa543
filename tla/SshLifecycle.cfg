SPECIFICATION FairSshSpec
CONSTANTS
  c1 = c1
  c2 = c2
  Command <- TwoCommands
  MaxChannels = 1
  MaxRetries = 1
  MaxClients = 4
  MaxConnects = 2
  MaxFaults = 2
  MaxProbeFailures = 0
INVARIANTS
  TypeOK
  AtMostOneConnection
  DisconnectIsFinal
  ChannelBudget
  WaitersHaveARunner
PROPERTIES
  ReconnectsOrGivesUp
CHECK_DEADLOCK FALSE
