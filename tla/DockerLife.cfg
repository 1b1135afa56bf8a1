CONSTANTS
  None = None
  Instances = {i1, i2}
  Backends = {"json", "postgres"}
  MaxSnaps = 3
  MaxTrouble = 2
  MaxRows = 2
  Kinds = { "docker_unavailable", "container_unhealthy", "container_restart_loop",
            "container_cpu_high", "container_memory_high", "docker_storage_pressure",
            "docker_event_gap" }
  Stores = {"json", "postgres"}
  MaxAlerts = 3
  Homes = {"json", "postgres"}
  Lists = {"host", "container", "events", "alerts"}
  Late = TRUE
  MaxTime = 2
  MaxId = 3
  Cap = 2
  PageSize = 1
  Inventories = {"json", "postgres"}
  Editors = {"e1", "e2"}
  MaxEdits = 2
  MaxBeats = 2
  MaxEnsures = 1
  MaxSlips = 1
SPECIFICATION MCSpec
CHECK_DEADLOCK FALSE
INVARIANTS DeliveryIsExact AlertsFollowTheRule ReadingsAreExact
PROPERTY RecordsAreKept
