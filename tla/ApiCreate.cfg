SPECIFICATION CreateSpec
CONSTANTS
  None = None
  OldBuild = OldBuild
  NewBuild = NewBuild
  Jobs = {j1, j2}
  Builds = {OldBuild, NewBuild}
  Keys = {k1}
  Requests = {r1, r2}
  Phases = {}
  LeaseTTL = 0
  PhaseTimeout <- MCPhaseTimeout
  OverallDeadline = 1
  FreshTTL = 2
  UpdaterTTL = 2
  MaxTime = 2
  MaxCalls = 3
  MaxBeats = 2
SYMMETRY Interchangeable
CHECK_DEADLOCK FALSE
INVARIANT JobsAreUnique
PROPERTY KeepsPromise
