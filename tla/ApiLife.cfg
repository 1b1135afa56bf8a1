SPECIFICATION LifeSpec
CONSTANTS
  None = None
  OldBuild = OldBuild
  NewBuild = NewBuild
  Jobs = {j1}
  Builds = {OldBuild, NewBuild}
  Keys = {}
  Requests = {r1, r2}
  Phases = {"restarting", "rolling_back"}
  LeaseTTL = 0
  PhaseTimeout <- MCPhaseTimeout
  OverallDeadline = 2
  FreshTTL = 2
  UpdaterTTL = 2
  MaxTime = 2
  MaxCalls = 3
  MaxBeats = 2
SYMMETRY Interchangeable
CHECK_DEADLOCK FALSE
INVARIANTS IInv RulingsHaveEvidence
PROPERTIES SettledForGood RowsAreFenced StepsKeepPromise
