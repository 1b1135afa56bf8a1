SPECIFICATION FairSpec
CONSTANTS
  None = None
  Instances = {a, b}
  Targets = {None, a}
  MaxOps = 1
  MaxTrouble = 2
CHECK_DEADLOCK FALSE
INVARIANTS RunsAreExact SuccessIsTrue
PROPERTIES ReceiptOutlivesReport EveryOperationSettles
