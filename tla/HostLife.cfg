SPECIFICATION Spec
CONSTANTS
  None = None
  MaxTrouble = 2
  MaxClaims = 2
  JournalMayVanish = TRUE
CHECK_DEADLOCK FALSE
INVARIANTS SwapsAreSafe OutcomesAreTrue
PROPERTIES ForgottenOnlyWhenRuled ServerKeepsPromise
