SPECIFICATION FairSpec
CONSTANTS
  None = None
  MaxTrouble = 1
  MaxClaims = 2
  JournalMayVanish = FALSE
CHECK_DEADLOCK FALSE
PROPERTY JobIsPutDown
