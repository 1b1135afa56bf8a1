CONSTANTS
  c1 = c1
  c2 = c2
  c3 = c3
  Conns = {c1, c2, c3}
  Dash <- Browsers
  Host <- Machines
  GlobalLimit = 2
  DashLimit = 1
  HostLimit = 1
  PendingLimit = 2
  High = 2
  InHigh = 1
  Window = 2
  Sizes = {1, 2, 3}
  MaxOut = 4
  MaxIn = 5
  Nothing = Nothing
  Logins = {l1, l2}
  Passwords = {p1, p2}
  Drivers = {"json", "postgres"}
  MaxRuns = 2
  NoBucket = NoBucket
  Keys = {"mutation", "agent"}
  WindowTime = 2
  Limits <- LimitOf
  MaxTime = 4
  MaxAsks = 4
SPECIFICATION AccessSpec
INVARIANTS
  ShellsAreAccounted
  FlowIsExact
  SweepIsFinal
  LimitsHold
PROPERTY SessionsMoveOn
CHECK_DEADLOCK FALSE
