SPECIFICATION SettlesSpec
CONSTANTS
  None = None
  OldBuild = OldBuild
  NewBuild = NewBuild
  Jobs = {j1}
  Builds = {OldBuild, NewBuild}
  Keys = {}
  Requests = {r1, r2}
  Phases = {"restarting", "rolling_back"}
  LeaseTTL = 0
  OverallDeadline = 1
  FreshTTL = 2
  UpdaterTTL = 2
  MaxTime = 2
  MaxCalls = 2
  MaxBeats = 1
  Instances = {i1}
  Backends = {"json", "postgres"}
  MaxSnaps = 2
  MaxTrouble = 1
  MaxRows = 2
  Places = {"local", "remote"}
  MaxOps = 1
  MaxPushes = 1
  MaxMishaps = 1
  Wedge = FALSE
  c1 = c1
  c2 = c2
  Conns = {c1, c2}
  Dash <- OneDashboard
  Host <- OneHost
  GlobalLimit = 2
  DashLimit = 1
  HostLimit = 1
  PendingLimit = 2
  High = 2
  InHigh = 1
  Window = 2
  Sizes = {1, 2, 3}
  MaxOut = 4
  MaxIn = 0
  MaxVersion = 1
  MaxMetric = 1
  MaxDrops = 0
  MaxRestarts = 1
  MaxLoads = 1
  Background = {"load1", "load2"}
  Grows = FALSE
  Sites <- OneSite
  Stages = {"queued", "restarting", "rolled_back", "rollback_unverified"}
  Allowances <- OneLoss
  MaxViews = 1
  MaxPolls = 1
CHECK_DEADLOCK FALSE
PROPERTIES UpgradesSettle BatchesSettle OperationsEnd TerminalsMakeProgress PageFollows
