SPECIFICATION SshSpec
CONSTANTS
  c1 = c1
  c2 = c2
  Command <- OneCommand
  MaxChannels = 1
  MaxRetries = 1
  MaxClients = 3
  MaxConnects = 1
  MaxFaults = 0
  MaxProbeFailures = 1
INVARIANTS
  DisconnectIsFinal
CHECK_DEADLOCK FALSE
