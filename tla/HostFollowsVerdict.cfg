SPECIFICATION Spec
CONSTANTS
  None = None
  MaxTrouble = 0
  MaxClaims = 1
  JournalMayVanish = FALSE
CHECK_DEADLOCK FALSE
PROPERTY FollowsVerdict
