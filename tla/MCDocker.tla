------------------------------ MODULE MCDocker ------------------------------
(* Instances for TLC of the Docker monitoring modules and of the inventory  *)
(* that has its switches.  They share nothing here: a behaviour is one of   *)
(* the module in focus.                                                     *)
EXTENDS DockerIngest, DockerAlerts, DockerHistory, VpsInventory

VARIABLE focus

\* The modules that are not in focus rest in one of their initial states.
IngestRests == Init /\ backend = "json" /\ agent.inst = CHOOSE i \in Instances : TRUE
AlertsRest == AInit /\ place = "json" /\ kind = "docker_unavailable"
HistoryRests == HInit /\ home = "json" /\ list = "host"
InventoryRests == IInit /\ keptIn = "json" /\ rec = Nobody

MCInit ==
  \/ focus = "ingest" /\ Init /\ AlertsRest /\ HistoryRests /\ InventoryRests
  \/ focus = "alerts" /\ AInit /\ IngestRests /\ HistoryRests /\ InventoryRests
  \/ focus = "history" /\ HInit /\ IngestRests /\ AlertsRest /\ InventoryRests
  \/ focus = "inventory" /\ IInit /\ IngestRests /\ AlertsRest /\ HistoryRests

MCNext ==
  /\ UNCHANGED focus
  /\ \/ focus = "ingest" /\ Next /\ UNCHANGED <<avars, hvars, ivars>>
     \/ focus = "alerts" /\ ANext /\ UNCHANGED <<vars, hvars, ivars>>
     \/ focus = "history" /\ HNext /\ UNCHANGED <<vars, avars, ivars>>
     \/ focus = "inventory" /\ INext /\ UNCHANGED <<vars, avars, hvars>>

all == <<focus, vars, avars, hvars, ivars>>

MCSpec == MCInit /\ [][MCNext]_all

\* What the readers of the lists and of the inventory are given is exact.
ReadingsAreExact == WalksAreExact /\ InventoryTypeOK

\* Rows and records give way only to what may take their place: a row of the
\* history to newer ones, a field to those asked to write it.
RecordsAreKept == PruningKeepsTheNewest /\ InventoryIsKept
=============================================================================
