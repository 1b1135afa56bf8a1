CONSTANTS
  Jobs = {j1}
  MaxVersion = 2
  MaxMetric = 0
  MaxDrops = 1
  MaxRestarts = 1
  MaxLoads = 1
  Background = {"load1", "load2"}
  Grows = TRUE
  v1 = v1
  v2 = v2
  k1 = k1
  k2 = k2
  k3 = k3
  Vpses = {v1, v2}
  KeysOf <- Containers
  Sections = {"events", "alerts"}
  LastPage = 3
  MaxTurns = 2
  MaxMore = 2
  Hosts = {v1, v2}
  KeysAt <- Containers
  MaxGoes = 2
  MaxOps = 1
  MaxLooks = 2
  Sites <- SitesMet
  Stages = {"queued", "restarting", "succeeded", "rolled_back", "rollback_unverified", "failed"}
  Allowances <- SparingAllowances
  MaxViews = 1
  MaxPolls = 1
  Callers = {"p1", "p2"}
  Releases = {2, 3}
  TTL = 2
  Backoff = 1
  MaxHops = 1
  Cap = 1
  MaxClock = 3
  MaxRefreshes = 2
  Servers = {v1, v2}
  OwnerOf <- Owners
  Done = 2
  ListLimit = 1
  HistoryLimit = 1
  MaxVisits = 2
  MaxSyncs = 1
SPECIFICATION WebSpec
INVARIANTS
  StreamIsWhole
  PagesShowTheirHost
PROPERTY ShownMovesForward
CHECK_DEADLOCK FALSE
