SPECIFICATION PlatformSpec
CONSTANTS
  User = {"u1", "u2", "u3"}
  Shared = {"u1"}
  Client = {"u2"}
  Plan = {"community", "team"}
  FirstPlan = "community"
  Seats <- MCSeats
  MaxTokens = 3
  MaxPending = 2
  Txn = {"t1", "t2", "t3"}
  Purchase = {"p1", "p2"}
  Bought <- MCBought
  HostedPlan <- MCHostedPlan
  Event = {"e1", "e2"}
  ReportedState = {"active", "refunded"}
  AdminPlan = {"team", "scale"}
  MaxBillingFaults = 1
  Worker = {"a", "b"}
  HostKey = {"k1", "k2"}
  MaxVersions = 2
  MaxAtOnce = 2
  MaxAlerts = 2
  Request = {"r1"}
  Socket = {"s1", "s2"}
  Ticket = {"t1"}
  Limit = 2
  Length = {1, 3}
  MaxInput = 3
  Workload = {"w1"}
  RawKept = 2
  Retention = 3
  PageSize = 3
  MaxNow = 4
  Starter = {"api", "worker", "command"}
  WorkerProcess = {"worker"}
  MaxAttempts = 2
  MaxStartupFaults = 3
  Tab = {"tab"}
  Call = {"c1", "c2"}
  MaxRotations = 3
  MaxLogins = 1
  FileServer = {"s1", "s2"}
  Dir = {"a", "b"}
  Root = "a"
  Name = {"x", "y"}
  Stored <- MCStored
  MaxFiles = 3
  MaxJobs = 2
  MaxUnderWay = 2
  Publication = {"v1", "v2"}
  Package = {"zip", "exe"}
  Manifest = {"m1"}
  Bytes = {"b1", "b2"}
  Site = {"web"}
  SiteLimit = 1
  Issuer = {"i1"}
  Machine = {"m1", "m2"}
  MaxPairings = 2
  MaxSerials = 3
  MaxCalls = 2
  Openable = {"w1", "w2"}
  MaxLoads = 2
  MaxOpens = 2
  Node = {"n1", "n2"}
  AgentNode = {"n1"}
  MaxJumps = 1
  MaxAsks = 3
  MaxMade = 3
  Incoming = {"u1", "u2"}
  Asset = {"zip", "exe"}
  Channel = {"latest"}
  Content = {"b1", "b2"}
INVARIANTS
  PlatformTypeOK
  OneLiveTokenPerFamily
  MembershipsAreSound
  PurchasesAreEntitled
  CollectionIsExclusive
  TerminalsAreSound
  MetricsAreCurrent
  StartupIsExclusive
  ConsoleIsSound
  NothingIsLost
  EnrollmentIsSound
PROPERTIES
  RecordsStand
  ManifestsAreComplete
CHECK_DEADLOCK FALSE
