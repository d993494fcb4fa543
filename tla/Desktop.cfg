SPECIFICATION DesktopSpec
CONSTANTS
  Command = {}
  MaxChannels = 1
  MaxRetries = 1
  MaxClients = 2
  MaxConnects = 1
  MaxFaults = 2
  MaxProbeFailures = 0
  Rule = {"r1"}
  MaxStarts = 2
  Server = {"s1", "s2"}
  Logged = {"s1"}
  Session = {"t1", "t2"}
  Stream = {"l1", "l2"}
  RuleCount = 2
  ConnectionRules = {2}
  RequiredBreaches = 1
  Evaluation = {1, 2}
  MaxVersions = 2
  MaxEdits = 2
  MaxLinks = 1
  MaxSamples = 3
  MaxChecks = 3
  MaxDownloads = 2
  MaxUpdateFaults = 2
  ProjectLink = {"l1"}
  Account = {"a1"}
  Credential = {"c1", "c2", "bad"}
  WrongRegion = {"bad"}
  Service = {"ec2", "eks"}
  MaxSettings = 3
  Cluster = {"c1", "c2"}
  Namespace = {"default", "n2"}
  MaxAsked = 3
  MaxMoves = 3
  Project = {"d1", "d2"}
  Deployed = {"d1"}
  MaxRunning = 2
  MaxPresses = 7
  Repo = {"r1", "r2"}
  MaxFetches = 2
  MaxClicks = 5
  MaxTraffic = 2
  MaxOutages = 1
  MaxPolls = 2
INVARIANTS
  DesktopTypeOK
  MonitoringIsSound
  SessionsAreHeld
  EditsSurviveDispatch
  BusyIsReal
  ClientsAreCurrent
  PagesShowTheChosen
PROPERTIES
  InstallIsAskedFor
  SavedSettingsStand
  OutageIsReported
CHECK_DEADLOCK FALSE
