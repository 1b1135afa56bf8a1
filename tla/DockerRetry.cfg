CONSTANTS
  None = None
  Instances = {i1, i2}
  Backends = {"json", "postgres"}
  MaxSnaps = 2
  MaxTrouble = 1
  MaxRows = 2
SPECIFICATION Spec
INVARIANT RetriesAreAcknowledged
CHECK_DEADLOCK FALSE
