CONSTANTS
  None = None
  Places = {"local", "remote"}
  MaxOps = 2
  MaxPushes = 1
  MaxMishaps = 1
  Wedge = TRUE
  Groups = {0, 1}
  Firsts = {64512, 65023, 65215, 65216}
  Octets = {0, 10, 127, 169, 172, 254, 16, 31, 32, 192, 168}
  Lengths = {2, 3, 8, 9}
  MaxAddresses = 3
  v1 = v1
  v2 = v2
  e1 = e1
  e2 = e2
  r1 = r1
  r2 = r2
  Hosts = {v1, v2}
  Endpoints = {e1, e2}
  KeyType <- KeyTypes
  FirstKeys = {"ed", "rsa"}
  Requests = {r1, r2}
  MaxRequests = 3
  MaxReinstalls = 1
  Gone = Gone
  Callers = {"r1", "r2"}
  Admins = {a1}
  MaxCalls = 3
  MaxFailures = 1
  Stores = {"json", "postgres"}
  Shells = {"s1", "s2"}
  MaxRuns <- RunsOf
  MaxBreakdowns = 1
  Backings = {"json", "postgres"}
  MaxStarts = 2
  MaxTicks = 2
  MaxFaults = 1
  Scripts = {1, 2}
  MaxScripts = 3
  MaxEvents = 2
SPECIFICATION HostsSpec
SYMMETRY Interchangeable
INVARIANTS
  HostIsSound
  NamesAreClassed
  TrustIsVouched
  KeysOpenTheHost
  OwnHostIsServed
PROPERTIES
  SuccessIsEarned
  StoredIsKept
CHECK_DEADLOCK FALSE
