-------------------------- MODULE LocalSupervisor --------------------------
(***************************************************************************)
(* The collector inside the API that stands in for an agent of the local   *)
(* host: it measures the machine at an interval and keeps a heartbeat of   *)
(* its own, version "0.1.0-local", until a real agent pushes one, and      *)
(* signs off when the API shuts down.  Shutdown may come while the API is  *)
(* still starting, or while a collection is under way; the process may     *)
(* also just die.  With Postgres another hook of the same shutdown ends    *)
(* the pool.                                                               *)
(***************************************************************************)
EXTENDS Naturals

CONSTANTS
  Backings,   \* storage drivers
  MaxStarts,  \* starts of the API
  MaxTicks,   \* collections per start
  MaxFaults   \* storage calls that fail

ASSUME SupervisorAssumption == MaxStarts \in Nat /\ MaxTicks \in Nat /\ MaxFaults \in Nat

VARIABLES
  keeps,     \* the driver
  beat,      \* the stored heartbeat: whose, and its status
  machineUp, \* the VPS record: none, unknown or healthy
  life,      \* the process: dead, ensuring, up, stopping, signing, over
  booting,   \* onApplicationBootstrap still waits for the record
  begun, stopping, timer,
  flight,    \* where the collection under way stands
  pool,      \* the database pool is open
  unsigned,  \* it shut down without signing off
  starts, ticks, faults

svars == <<keeps, beat, machineUp, life, booting, begun, stopping, timer, flight, pool, unsigned, starts, ticks, faults>>
counts == <<starts, ticks, faults>>

Beat == [by: {"nobody", "supervisor", "agent"}, status: {"none", "online", "offline"}]
Steps == {"none", "append", "beat", "seen"}

Works == keeps = "json" \/ pool

-----------------------------------------------------------------------------
(* Start *)

StartApi ==
  /\ life \in {"dead", "over"} /\ starts < MaxStarts
  /\ starts' = starts + 1 /\ ticks' = 0
  /\ life' = "up" /\ booting' = TRUE /\ pool' = TRUE
  /\ begun' = FALSE /\ stopping' = FALSE /\ timer' = FALSE /\ flight' = "none" /\ unsigned' = FALSE
  /\ UNCHANGED <<keeps, beat, machineUp, faults>>

\* ensureLocalHost returns: the record is there, of unknown status.  Collection
\* starts, be it that the shutdown has begun meanwhile.
Booted ==
  /\ booting /\ life # "dead" /\ Works
  /\ booting' = FALSE /\ machineUp' = "unknown"
  /\ timer' = TRUE /\ begun' = TRUE
  /\ UNCHANGED <<keeps, beat, life, stopping, flight, pool, unsigned, counts>>

-----------------------------------------------------------------------------
(* collectOnce *)

\* A collection that is under way is joined, not repeated.
Tick ==
  /\ timer /\ life # "dead" /\ flight = "none" /\ ~stopping
  /\ ticks < MaxTicks
  /\ ticks' = ticks + 1 /\ flight' = "append"
  /\ UNCHANGED <<keeps, beat, machineUp, life, booting, begun, stopping, timer, pool, unsigned, starts, faults>>

AppendSample ==
  /\ flight = "append" /\ life # "dead" /\ Works
  /\ flight' = "beat"
  /\ UNCHANGED <<keeps, beat, machineUp, life, booting, begun, stopping, timer, pool, unsigned, counts>>

\* Only while no real agent has one.
SyntheticBeat(status) ==
  beat' = IF beat.by = "agent" THEN beat ELSE [by |-> "supervisor", status |-> status]

BeatOnline ==
  /\ flight = "beat" /\ life # "dead" /\ Works
  /\ SyntheticBeat("online") /\ flight' = "seen"
  /\ UNCHANGED <<keeps, machineUp, life, booting, begun, stopping, timer, pool, unsigned, counts>>

MarkSeen ==
  /\ flight = "seen" /\ life # "dead" /\ Works
  /\ machineUp' = "healthy" /\ flight' = "none"
  /\ UNCHANGED <<keeps, beat, life, booting, begun, stopping, timer, pool, unsigned, counts>>

\* A storage call fails, for once or because the pool has ended: the error is
\* logged and the rest of the collection left out; the start is given up.
CallFails ==
  /\ life # "dead" /\ (flight # "none" \/ booting)
  /\ IF Works THEN faults < MaxFaults /\ faults' = faults + 1 ELSE UNCHANGED faults
  /\ IF flight # "none"
     THEN flight' = "none" /\ UNCHANGED <<booting, life>>
     ELSE booting' = FALSE /\ life' = "dead" /\ UNCHANGED flight
  /\ UNCHANGED <<keeps, beat, machineUp, begun, stopping, timer, pool, unsigned, starts, ticks>>

-----------------------------------------------------------------------------
(* onApplicationShutdown *)

Shutdown ==
  /\ life = "up"
  /\ life' = "stopping" /\ stopping' = TRUE /\ timer' = FALSE
  /\ UNCHANGED <<keeps, beat, machineUp, booting, begun, flight, pool, unsigned, counts>>

\* The pool is ended by a hook of its own.
PoolEnds ==
  /\ life \in {"stopping", "over"} /\ keeps = "postgres" /\ pool
  /\ pool' = FALSE
  /\ UNCHANGED <<keeps, beat, machineUp, life, booting, begun, stopping, timer, flight, unsigned, counts>>

\* Faulty: the collection under way is not waited for.
Drained_Never == TRUE

Drained == flight = "none"

\* The supervisor signs off when the collection has ended, if it had begun.
SignOff ==
  /\ life = "stopping" /\ Drained
  /\ life' = "over"
  /\ \/ begun /\ Works /\ SyntheticBeat("offline") /\ UNCHANGED <<unsigned, faults>>
     \/ ~begun /\ unsigned' = TRUE /\ UNCHANGED <<beat, faults>>
     \/ /\ begun /\ UNCHANGED beat /\ unsigned' = TRUE
        /\ IF Works THEN faults < MaxFaults /\ faults' = faults + 1 ELSE UNCHANGED faults
  /\ UNCHANGED <<keeps, machineUp, booting, begun, stopping, timer, flight, pool, starts, ticks>>

-----------------------------------------------------------------------------
(* Surroundings *)

Dies ==
  /\ life # "dead" /\ life' = "dead"
  /\ UNCHANGED <<keeps, beat, machineUp, booting, begun, stopping, timer, flight, pool, unsigned, counts>>

AgentPushes ==
  /\ life = "up" /\ beat.by # "agent"
  /\ beat' = [by |-> "agent", status |-> "online"]
  /\ UNCHANGED <<keeps, machineUp, life, booting, begun, stopping, timer, flight, pool, unsigned, counts>>

SInit ==
  /\ keeps \in Backings /\ beat = [by |-> "nobody", status |-> "none"] /\ machineUp = "none"
  /\ life = "dead" /\ booting = FALSE /\ begun = FALSE /\ stopping = FALSE /\ timer = FALSE
  /\ flight = "none" /\ pool = FALSE /\ unsigned = FALSE
  /\ starts = 0 /\ ticks = 0 /\ faults = 0

SNext ==
  \/ StartApi \/ Booted \/ Tick \/ AppendSample \/ BeatOnline \/ MarkSeen \/ CallFails
  \/ Shutdown \/ PoolEnds \/ SignOff \/ Dies \/ AgentPushes

SSpec == SInit /\ [][SNext]_svars

-----------------------------------------------------------------------------
(* Properties *)

\* An API that signed off as it shut down leaves its own heartbeat offline, whatever
\* was under way then, until it is begun again.  Types come with it.
StoppedIsOffline ==
  /\ beat \in Beat /\ flight \in Steps /\ machineUp \in {"none", "unknown", "healthy"}
  /\ life = "over" /\ ~unsigned /\ beat.by = "supervisor" => beat.status = "offline"

\* The heartbeat of a real agent is never replaced by the stand-in's, a collection
\* or a sign-off that was under way when it came included.
AgentKeepsItsBeat == [][beat.by = "agent" => beat'.by = "agent"]_svars

\* Violated: "Shutdown lifecycle: clear interval and mark agent offline"
\* (local-agent-supervisor.service.ts:74); with Postgres the pool ends first.
ShutdownSignsOff == life = "over" /\ begun /\ faults = 0 => beat.status = "offline" \/ beat.by = "agent"
=============================================================================
