--------------------------- MODULE AgentLifecycle ---------------------------
(***************************************************************************)
(* The life of the agent of one VPS: install, upgrade, restart and         *)
(* uninstall over SSH, and the rotation of the credential of the local     *)
(* host, against the pushes of the agent that the API takes in meanwhile.  *)
(* The API keeps one lifecycle slot per host in memory, the agent's state  *)
(* and its credentials in the repository and a job per operation; the host *)
(* has a binary, a configuration, a pid file, a lock and its processes.    *)
(*                                                                         *)
(* A remote command, the rotation helper or an audit record may fail, the  *)
(* first two before or after they took effect; the store may refuse the    *)
(* first update of a job; a process may die; the API may crash, which      *)
(* loses slot, task and handlers.  Other writes succeed.                   *)
(*                                                                         *)
(* The API ships version 2 of the agent; version 0 is none.  Home          *)
(* directory, keys and checksums are left out, as is the reuse of pids;    *)
(* DockerStatePair has the provisioning of the Docker identity.  Time is   *)
(* the number of observations stamped.                                     *)
(* MaxOps bounds the operations, MaxPushes the pushes, MaxMishaps what     *)
(* goes wrong; Wedge says whether the first update of a job may fail.      *)
(***************************************************************************)
EXTENDS Integers, FiniteSets

CONSTANTS None, Places, MaxOps, MaxPushes, MaxMishaps, Wedge

VARIABLES
  place,    \* the local host, or one reached over SSH
  slot,     \* the lifecycle operation that holds the coordinator's slot
  task,     \* the operation at work
  jobs,     \* the status of each operation's job
  agents,   \* the agent state in the repository
  info,     \* the repository has system information of the agent
  creds,    \* credentials
  machine,  \* files of the host
  procs,    \* agent processes
  pushes,   \* pushes with the API
  clock,    \* observations stamped
  sent,     \* pushes so far
  mishaps,  \* mishaps so far
  crashed,  \* history: the API has crashed
  proved    \* history: the processes whose push has landed

lvars == << place, slot, task, jobs, agents, info, creds, machine, procs, pushes,
            clock, sent, mishaps, crashed, proved >>

-----------------------------------------------------------------------------
(* State *)

OpsHere(p) == IF p = "local" THEN {"rotate"}
              ELSE {"install", "uninstall", "upgrade", "restart"}

Ops == UNION { OpsHere(p) : p \in {"local", "remote"} }

Shipped == 2
Versions == {0, 1, Shipped}
Ids == 0 .. MaxOps        \* credential 0 came with the agent that was there
Births == 0 .. 3 * MaxOps

Times == 0 .. MaxPushes + MaxOps

AgentState == [ status : {"not_installed", "installing", "online", "failed"},
                version : Versions, seen : Times ]

\* Nothing is installed, whether the state says so or there is none.
Absent == [status |-> "not_installed", version |-> 0, seen |-> 0]

Machine == [ bin : Versions, backup : Versions, staged : Versions,
             conf : Ids \cup {None}, lock : BOOLEAN, pid : Births \cup {None} ]

Bare == [ bin |-> 0, backup |-> 0, staged |-> 0, conf |-> None, lock |-> FALSE,
          pid |-> None ]

\* A process: `placed' says that its executable is still the agent's binary,
\* `once' that it pushes one observation and exits.
Process == [ id : Births, ver : Versions, cred : Ids, placed : BOOLEAN,
             once : BOOLEAN ]

\* A push: where its handler stands, the status of the credential it has read
\* and the time it has stamped.
Push == [ by : Births, ver : Versions, cred : Ids,
          at : {"sent", "verified", "begun", "stamped", "used", "landed"},
          saw : {"pending", "active"}, now : Times ]

\* Where an operation stands.
TaskSteps ==
  { "ready", "prepared", "queued", "audit", "failed", "revoke", "note",
    "upload", "config", "try", "trying", "launch", "online",
    "stop", "remove", "retire", "gone", "apply", "activate", "turn",
    "lock", "stage", "inspect", "baseline", "swap", "start", "verify", "clean", "unlock",
    "unstage", "loosen", "back", "restore", "base", "again", "check", "tidy" }

\* The observation must be newer than `base' and of version `ver'.
Task == [ op : Ops, at : TaskSteps, job : 1 .. MaxOps, cred : Ids, prior : AgentState,
          old : SUBSET Ids, base : Times, ver : Versions ]

ASSUME LifecycleAssumption ==
  /\ MaxOps \in Nat /\ MaxPushes \in Nat /\ MaxMishaps \in Nat
  /\ Places \subseteq {"local", "remote"} /\ Wedge \in BOOLEAN
  /\ None \notin Nat /\ None \notin Ops \cup Task

\* Jobs are numbered as they are created, and so are the processes of a job:
\* the one that only pushes once, the one started and the one started again.
NextJob == 1 + Cardinality({ o \in 1 .. MaxOps : jobs[o] # "none" })

Loops == { p \in procs : p.placed /\ ~ p.once }

Usable == {"pending", "active"}

\* Handlers the coordinator counts.
Ingests == { q \in pushes : q.at \notin {"sent", "verified"} }

-----------------------------------------------------------------------------
(* Pushes *)

\* A process pushes, again if it has waited in vain.
SendPush ==
  /\ sent < MaxPushes /\ sent' = sent + 1
  /\ \E p \in procs :
       pushes' = pushes \cup {[ by |-> p.id, ver |-> p.ver, cred |-> p.cred, at |-> "sent",
                                saw |-> "active", now |-> 0 ]}
  /\ UNCHANGED << place, slot, task, jobs, agents, info, creds, machine, procs, clock,
                  mishaps, crashed, proved >>

Step(q, r) == pushes' = (pushes \ {q}) \cup {r}

\* An agent that is refused for its credential stops for good; the service
\* manager of the local host starts it again.
Reject(q) ==
  /\ pushes' = pushes \ {q}
  /\ procs' = IF place = "local" THEN procs ELSE { p \in procs : p.id # q.by }

\* The bearer token is verified.
VerifyToken ==
  /\ \E q \in pushes :
       /\ q.at = "sent"
       /\ \/ creds[q.cred] = "revoked" /\ Reject(q)
          \/ creds[q.cred] # "revoked" /\ Step(q, [q EXCEPT !.at = "verified"]) /\ UNCHANGED procs
  /\ UNCHANGED << place, slot, task, jobs, agents, info, creds, machine, clock, sent,
                  mishaps, crashed, proved >>

\* An uninstallation keeps ingests out.
Admit(q) == slot # "uninstall"

\* The agent that is not admitted meets a conflict and goes on.
BeginIngest ==
  /\ \E q \in pushes :
       /\ q.at = "verified"
       /\ \/ Admit(q) /\ Step(q, [q EXCEPT !.at = "begun"])
          \/ ~ Admit(q) /\ pushes' = pushes \ {q}
  /\ UNCHANGED << place, slot, task, jobs, agents, info, creds, machine, procs, clock, sent,
                  mishaps, crashed, proved >>

\* The credential is read again within the ingest.
StillGood(q) == creds[q.cred] # "revoked"

\* The credential is read again, then the observation gets its time.
StampPush ==
  /\ \E q \in pushes :
       /\ q.at = "begun"
       /\ \/ ~ StillGood(q) /\ Reject(q) /\ UNCHANGED clock
          \/ /\ StillGood(q) /\ clock' = clock + 1 /\ UNCHANGED procs
             /\ Step(q, [q EXCEPT !.at = "stamped", !.now = clock + 1,
                                  !.saw = IF creds[q.cred] = "pending" THEN "pending"
                                          ELSE "active"])
  /\ UNCHANGED << place, slot, task, jobs, agents, info, creds, machine, sent, mishaps,
                  crashed, proved >>

\* A credential that was pending when it was read becomes active.
UseCredential ==
  /\ \E q \in pushes :
       /\ q.at = "stamped" /\ Step(q, [q EXCEPT !.at = "used"])
       /\ creds' = IF q.saw = "pending" THEN [creds EXCEPT ![q.cred] = "active"] ELSE creds
  /\ UNCHANGED << place, slot, task, jobs, agents, info, machine, procs, clock, sent,
                  mishaps, crashed, proved >>

\* The observation becomes the agent's state.
LandPush ==
  /\ \E q \in pushes :
       /\ q.at = "used" /\ Step(q, [q EXCEPT !.at = "landed"])
       /\ agents' = [status |-> "online", version |-> q.ver, seen |-> q.now]
       /\ proved' = proved \cup {q.by}
  /\ UNCHANGED << place, slot, task, jobs, info, creds, machine, procs, clock, sent,
                  mishaps, crashed >>

\* System information is written and the ingest is over.
EndIngest ==
  /\ \E q \in pushes : q.at = "landed" /\ pushes' = pushes \ {q}
  /\ info' = TRUE
  /\ UNCHANGED << place, slot, task, jobs, agents, creds, machine, procs, clock, sent,
                  mishaps, crashed, proved >>

pushing == <<place, clock, sent, crashed, proved, pushes, info>>

-----------------------------------------------------------------------------
(* Operations: from the slot to the job *)

working == <<pushing, machine, procs>>

At(step) == task.at = step
Go(step) == task' = [task EXCEPT !.at = step]
Mishap == mishaps < MaxMishaps /\ mishaps' = mishaps + 1

\* The slot is taken before anything else is looked at.
TryAcquire ==
  /\ slot = None /\ NextJob \in 1 .. MaxOps
  /\ \E op \in OpsHere(place) :
       /\ slot' = op
       /\ task' = [ op |-> op, at |-> "ready", job |-> NextJob, cred |-> NextJob,
                    prior |-> Absent, old |-> {}, base |-> 0, ver |-> 0 ]
  /\ UNCHANGED <<working, jobs, agents, creds, mishaps>>

Release == slot' = None /\ task' = None

Ready == task.op = "uninstall" => Ingests = {}

Eligible ==
  LET s == agents.status IN
  CASE task.op \in {"install", "uninstall"} -> s # "installing"
    [] task.op = "upgrade" -> s # "not_installed" /\ agents.version # 0
    [] task.op = "restart" -> s \in {"online", "failed"} /\ agents.version # 0
    [] task.op = "rotate" -> TRUE

\* The credential for the agent to come.
Issued == IF task.op \in {"install", "rotate"}
          THEN [creds EXCEPT ![task.cred] = "pending"] ELSE creds

\* The agent state is read and the operation refused, or prepared.
Prepare ==
  /\ At("ready") /\ Ready
  /\ \/ ~ Eligible /\ Release /\ UNCHANGED creds
     \/ /\ Eligible /\ UNCHANGED slot
        /\ task' = [ task EXCEPT !.at = "prepared", !.prior = agents,
                       !.ver = IF task.op = "upgrade" THEN Shipped ELSE agents.version,
                       !.old = { c \in Ids : creds[c] = "active" } ]
        /\ creds' = Issued
  /\ UNCHANGED <<working, jobs, agents, mishaps>>

\* The failure recorded of an agent that has no state.
NeverThere == [Absent EXCEPT !.status = "failed"]

\* A setup that fails revokes the credential it created.
Withdrawn == IF task.op \in {"install", "rotate"}
             THEN [creds EXCEPT ![task.cred] = "revoked"] ELSE creds

Installing == [status |-> "installing", version |-> 0, seen |-> 0]

Busy == task.op \in {"install", "uninstall"}

\* The job is created and, to keep others out, the agent marked as installing.
Dispatch ==
  /\ Go("queued") /\ jobs' = [jobs EXCEPT ![task.job] = "queued"]
  /\ agents' = IF Busy THEN Installing ELSE agents
  /\ UNCHANGED <<creds, slot, mishaps>>

\* The setup fails at the mark, or else after the job was created; an uninstallation
\* leaves the state it found, and a failure where it found no state at all.
SetupFails ==
  /\ task.op # "upgrade" /\ task.op # "restart" /\ Mishap
  /\ jobs' = [jobs EXCEPT ![task.job] = "failed"]
  /\ creds' = Withdrawn /\ Release
  /\ \/ UNCHANGED agents
     \/ task.op = "uninstall" /\ task.prior = Absent /\ agents' = NeverThere

Enqueue ==
  /\ At("prepared")
  /\ Dispatch \/ SetupFails
  /\ UNCHANGED working

First(op) == CASE op = "install" -> "upload" [] op = "uninstall" -> "stop"
               [] op = "rotate" -> "apply" [] OTHER -> "lock"

\* The runner marks the job as running.  When the store refuses that, the task
\* never runs and nobody releases the slot.
StartJob ==
  /\ At("queued")
  /\ \/ jobs' = [jobs EXCEPT ![task.job] = "running"] /\ Go(First(task.op)) /\ UNCHANGED mishaps
     \/ Wedge /\ Mishap /\ task' = None /\ UNCHANGED jobs
  /\ UNCHANGED <<working, slot, agents, creds>>

\* Faulty: a failure keeps the slot.
Finish_Held(status) ==
  /\ jobs' = [jobs EXCEPT ![task.job] = status] /\ task' = None
  /\ slot' = IF status = "failed" THEN slot ELSE None

\* The slot is released as the job ends, a failure a moment before it.
Finish(status) == jobs' = [jobs EXCEPT ![task.job] = status] /\ Release

\* What an operation does when its last record cannot be written.
OnFailure == CASE task.op \in {"install", "rotate"} -> "revoke"
               [] task.op = "uninstall" -> "note"
               [] OTHER -> "failed"

\* The audit record of the success belongs to the operation.
AuditSuccess ==
  /\ At("audit")
  /\ \/ Finish("succeeded") /\ UNCHANGED mishaps
     \/ Mishap /\ Go(OnFailure) /\ UNCHANGED <<jobs, slot>>
  /\ UNCHANGED <<working, agents, creds>>

RevokeNew ==
  /\ At("revoke") /\ Go(IF task.op = "install" THEN "note" ELSE "failed")
  /\ creds' = [creds EXCEPT ![task.cred] = "revoked"]
  /\ UNCHANGED <<working, slot, jobs, agents, mishaps>>

NoteFailure ==
  /\ At("note") /\ Go("failed")
  /\ agents' = [status |-> "failed", version |-> 0, seen |-> task.prior.seen]
  /\ UNCHANGED <<working, slot, jobs, creds, mishaps>>

Fail ==
  /\ At("failed") /\ Finish("failed")
  /\ UNCHANGED <<working, agents, creds, mishaps>>

-----------------------------------------------------------------------------
(* Remote commands *)

\* A command works and leads to `good', or fails before or after it took effect.
Command(from, good, bad, files, running) ==
  /\ At(from)
  /\ \/ Go(good) /\ machine' = files /\ procs' = running /\ UNCHANGED mishaps
     \/ /\ Go(bad) /\ Mishap
        /\ \/ machine' = files /\ procs' = running
           \/ UNCHANGED <<machine, procs>>
  /\ UNCHANGED <<pushing, slot, jobs, agents, creds>>

\* A step that changes nothing but where the operation stands.
Pass(from, to) ==
  /\ At(from) /\ Go(to)
  /\ UNCHANGED <<working, slot, jobs, agents, creds, mishaps>>

Born3(n) == 3 * (task.job - 1) + n

Spawned(n, ver, cred, once) ==
  [id |-> Born3(n), ver |-> ver, cred |-> cred, placed |-> TRUE, once |-> once]

\* The files of the processes that run are replaced or removed under them.
Displaced(ps) == { [p EXCEPT !.placed = @ /\ p.once] : p \in ps }
Unlinked(ps) == { [p EXCEPT !.placed = FALSE] : p \in ps }

\* What the inspection of the processes against the pid file says.
Inspection ==
  CASE Cardinality(Loops) > 1 -> "ambiguous"
    [] machine.pid = None -> IF Loops = {} THEN "none" ELSE "ambiguous"
    [] OTHER -> IF Loops = {} THEN "none"
                ELSE IF \E p \in Loops : p.id = machine.pid THEN "owned" ELSE "mismatch"

Kill(ps) == { p \in ps : ~ (p.id = machine.pid /\ p.placed) }

\* A new agent pushes once, with the configuration there is, and must be heard
\* before the command's time is over; it may outlive the command.
Try(good, bad) ==
  \/ /\ machine.conf # None
     /\ Command("try", "trying", bad, machine,
                procs \cup {Spawned(1, Shipped, machine.conf, TRUE)})
  \/ machine.conf = None /\ Pass("try", bad)
  \/ /\ At("trying")
     /\ LET rest == { p \in procs : p.id # Born3(1) }
        IN \/ Born3(1) \in proved /\ procs # rest /\ procs' = rest /\ Go(good)
           \/ procs' \in {procs, rest} /\ Go(bad)
     /\ UNCHANGED <<pushing, machine, slot, jobs, agents, creds, mishaps>>

\* A binary that runs cannot be written to.
TextBusy == Loops # {}

\* Install: binary, configuration, one trial push, the loop.
InstallTask ==
  /\ slot = "install"
  /\ \/ TextBusy /\ Pass("upload", "revoke")
     \/ ~ TextBusy /\ Command("upload", "config", "revoke",
                              [machine EXCEPT !.bin = Shipped], procs)
     \/ Command("config", "try", "revoke", [machine EXCEPT !.conf = task.cred], procs)
     \/ Try("launch", "revoke")
     \/ Command("launch", "online", "revoke", [machine EXCEPT !.pid = Born3(2)],
                procs \cup {Spawned(2, machine.bin, machine.conf, FALSE)})

\* The state an installation leaves names no version.
RecordInstalled ==
  /\ At("online") /\ Go("audit") /\ clock' = clock + 1
  /\ agents' = [status |-> "online", version |-> 0, seen |-> clock + 1]
  /\ UNCHANGED << place, slot, jobs, info, creds, machine, procs, pushes, sent, mishaps,
                  crashed, proved >>

\* Uninstall: the process of the pid file, the directory.
UninstallTask ==
  /\ slot = "uninstall"
  /\ \/ Command("stop", "remove", "note", machine, Kill(procs))
     \/ Command("remove", "retire", "note", Bare, Unlinked(procs))

RevokeAll ==
  /\ At("retire") /\ slot = "uninstall" /\ Go("gone")
  /\ creds' = [c \in Ids |-> IF creds[c] \in Usable THEN "revoked" ELSE creds[c]]
  /\ UNCHANGED <<working, slot, jobs, agents, mishaps>>

RecordGone ==
  /\ At("gone") /\ Go("audit")
  /\ info' = FALSE /\ agents' = Absent
  /\ UNCHANGED << place, slot, jobs, creds, machine, procs, pushes, clock, sent, mishaps,
                  crashed, proved >>

-----------------------------------------------------------------------------
(* Upgrade and restart: under the lock of the host *)

NoDirectory == machine.bin = 0 /\ machine.backup = 0 /\ machine.conf = None

AcquireLock ==
  /\ slot \in {"upgrade", "restart"}
  /\ \/ /\ ~ machine.lock /\ ~ NoDirectory
        /\ Command("lock", IF slot = "upgrade" THEN "stage" ELSE "inspect", "failed",
                   [machine EXCEPT !.lock = TRUE], procs)
     \/ (machine.lock \/ NoDirectory) /\ Pass("lock", "failed")

\* The lock is released whatever happened; a failure to do so is not noticed.
ReleaseLock ==
  \/ Command("unlock", "audit", "audit", [machine EXCEPT !.lock = FALSE], procs)
  \/ Command("loosen", "failed", "failed", [machine EXCEPT !.lock = FALSE], procs)

\* A failure before the swap removes the staged binary.
Abort == IF slot = "upgrade" THEN "unstage" ELSE "loosen"

\* The managed process is identified, then stopped; a restart also goes on from
\* none.  A process that died in between cannot be stopped.
StopManaged ==
  \/ Inspection = "owned" /\ Command("inspect", "stop", Abort, machine, procs)
  \/ /\ slot = "restart" /\ Inspection = "none"
     /\ Command("inspect", "baseline", Abort, machine, procs)
  \/ /\ Inspection # "owned" /\ ~ (slot = "restart" /\ Inspection = "none")
     /\ Pass("inspect", Abort)
  \/ Inspection = "owned" /\ Command("stop", "baseline", Abort, machine, Kill(procs))
  \/ Inspection # "owned" /\ Pass("stop", Abort)

\* The time of the last observation, once the process has stopped.
TakeBaseline ==
  /\ \E from \in {"baseline", "base"} :
       /\ At(from)
       /\ task' = [ task EXCEPT
            !.base = IF agents.seen = 0 /\ from = "baseline" /\ slot = "upgrade"
                     THEN task.prior.seen ELSE agents.seen,
            !.ver = IF from = "base" THEN task.prior.version ELSE task.ver,
            !.at = IF from = "base" THEN "again"
                   ELSE IF slot = "upgrade" THEN "swap" ELSE "start" ]
  /\ UNCHANGED <<working, slot, jobs, agents, creds, mishaps>>

\* Faulty: the old binary is overwritten.
Halfway_Overwritten == [machine EXCEPT !.bin = 0]

\* Between the two renames.
Halfway == [machine EXCEPT !.backup = machine.bin, !.bin = 0]

Swapped == [machine EXCEPT !.backup = machine.bin, !.bin = machine.staged, !.staged = 0]

\* The binaries are swapped by two renames; the connection may break between.
SwapBinaries ==
  \/ machine.bin # 0 /\ Command("swap", "start", "unstage", Swapped, Displaced(procs))
  \/ machine.bin = 0 /\ Pass("swap", "unstage")
  \/ /\ At("swap") /\ machine.bin # 0 /\ Mishap /\ Go("unstage")
     /\ machine' = Halfway
     /\ procs' = Displaced(procs)
     /\ UNCHANGED <<pushing, slot, jobs, agents, creds>>

\* A process is started from the binary there is and published in the pid file.
StartFrom(from, n, good, bad) ==
  \/ /\ machine.bin # 0 /\ machine.conf # None
     /\ LET p == Spawned(n, machine.bin, machine.conf, FALSE)
        IN Command(from, good, bad, [machine EXCEPT !.pid = p.id], procs \cup {p})
  \/ (machine.bin = 0 \/ machine.conf = None) /\ Pass(from, bad)

Observed == agents.version = task.ver /\ agents.seen > task.base

\* The state is polled until it shows the version, or patience ends.
Await(from, good, bad) ==
  \/ Observed /\ Pass(from, good)
  \/ ~ Observed /\ Pass(from, bad)

\* After the swap a failure brings the old binary back and verifies it; a failure
\* of that leaves the host as it is.
RollBack ==
  \/ Inspection = "owned" /\ Command("back", "restore", "loosen", machine, Kill(procs))
  \/ Inspection # "owned" /\ Pass("back", "loosen")
  \/ /\ machine.backup # 0
     /\ Command("restore", "base", "loosen",
                [machine EXCEPT !.bin = machine.backup, !.backup = 0], Displaced(procs))
  \/ machine.backup = 0 /\ Pass("restore", "loosen")
  \/ StartFrom("again", 3, "check", "loosen")
  \/ Await("check", "tidy", "loosen")
  \/ Command("tidy", "loosen", "loosen", [machine EXCEPT !.staged = 0], procs)

UpgradeTask ==
  /\ slot = "upgrade"
  /\ \/ Command("stage", "try", "unstage", [machine EXCEPT !.staged = Shipped], procs)
     \/ Try("inspect", "unstage")
     \/ StopManaged \/ SwapBinaries
     \/ StartFrom("start", 2, "verify", "back")
     \/ Await("verify", "clean", "back")
     \/ Command("clean", "unlock", "back", [machine EXCEPT !.backup = 0], procs)
     \/ Command("unstage", "loosen", "loosen", [machine EXCEPT !.staged = 0], procs)
     \/ RollBack
     \/ ReleaseLock

RestartTask ==
  /\ slot = "restart"
  /\ \/ StopManaged
     \/ StartFrom("start", 2, "verify", "loosen")
     \/ Await("verify", "unlock", "loosen")
     \/ ReleaseLock

-----------------------------------------------------------------------------
(* Rotation *)

\* The helper writes the new credential and restarts the agent.
ApplyCredential ==
  Command("apply", "activate", "revoke", [machine EXCEPT !.conf = task.cred],
          {Spawned(1, machine.bin, task.cred, FALSE)})

ActivateNew ==
  /\ At("activate") /\ Go("turn")
  /\ creds' = [creds EXCEPT ![task.cred] = "active"]
  /\ UNCHANGED <<working, slot, jobs, agents, mishaps>>

\* Faulty: the new credential is among those revoked.
RevokeOld_All ==
  /\ At("turn") /\ Go("audit")
  /\ creds' = [c \in Ids |-> IF creds[c] = "active" THEN "revoked" ELSE creds[c]]
  /\ UNCHANGED <<working, slot, jobs, agents, mishaps>>

RevokeOld ==
  /\ At("turn") /\ Go("audit")
  /\ creds' = [c \in Ids |-> IF c \in task.old THEN "revoked" ELSE creds[c]]
  /\ UNCHANGED <<working, slot, jobs, agents, mishaps>>

-----------------------------------------------------------------------------
(* Mishaps *)

\* A process dies; the service manager of the local host would start it again.
Die ==
  /\ place = "remote" /\ Mishap
  /\ \E p \in procs : procs' = procs \ {p}
  /\ UNCHANGED << place, slot, task, jobs, agents, info, creds, machine, pushes, clock, sent,
                  crashed, proved >>

\* The API loses slot, task and handlers; jobs, state and the host's lock stay.
Crash ==
  /\ Mishap /\ crashed' = TRUE
  /\ slot' = None /\ task' = None /\ pushes' = {}
  /\ UNCHANGED <<place, jobs, agents, info, creds, machine, procs, clock, sent, proved>>

-----------------------------------------------------------------------------
LInit ==
  /\ place \in Places /\ slot = None /\ task = None
  /\ jobs = [o \in 1 .. MaxOps |-> "none"]
  /\ \E v \in Versions :
       /\ v = 0 => place = "remote"
       /\ agents = IF v = 0 THEN Absent ELSE [status |-> "online", version |-> v, seen |-> 0]
       /\ info = (v # 0)
       /\ creds = [c \in Ids |-> IF c = 0 /\ v # 0 THEN "active" ELSE "unused"]
       /\ machine = IF v = 0 THEN Bare ELSE [Bare EXCEPT !.bin = v, !.conf = 0, !.pid = 0]
       /\ procs = IF v = 0 THEN {}
                  ELSE {[id |-> 0, ver |-> v, cred |-> 0, placed |-> TRUE, once |-> FALSE]}
  /\ pushes = {} /\ clock = 0 /\ sent = 0 /\ mishaps = 0
  /\ crashed = FALSE /\ proved = {}

Handler == VerifyToken \/ BeginIngest \/ StampPush \/ UseCredential \/ LandPush \/ EndIngest

Operation ==
  /\ task # None
  /\ \/ Prepare \/ Enqueue \/ StartJob
     \/ InstallTask \/ RecordInstalled \/ UninstallTask \/ RevokeAll \/ RecordGone
     \/ AcquireLock \/ TakeBaseline \/ UpgradeTask \/ RestartTask
     \/ ApplyCredential \/ ActivateNew \/ RevokeOld
     \/ AuditSuccess \/ RevokeNew \/ NoteFailure \/ Fail

LNext == SendPush \/ Handler \/ TryAcquire \/ Operation \/ Die \/ Crash

LSpec == LInit /\ [][LNext]_lvars

\* Awaits return and commands end; nobody need ask for an operation or push.
LFairSpec == LSpec /\ WF_lvars(Handler) /\ WF_lvars(Operation)

-----------------------------------------------------------------------------
(* Properties *)

\* Every variable has its type.
LifecycleTypeOK ==
  /\ place \in Places /\ slot \in Ops \cup {None}
  /\ task \in Task \cup {None}
  /\ jobs \in [1 .. MaxOps -> {"none", "queued", "running", "succeeded", "failed"}]
  /\ agents \in AgentState /\ info \in BOOLEAN
  /\ creds \in [Ids -> {"unused", "pending", "active", "revoked"}]
  /\ machine \in Machine
  /\ procs \subseteq Process /\ pushes \subseteq Push
  /\ clock \in Times /\ sent \in 0 .. MaxPushes /\ mishaps \in 0 .. MaxMishaps
  /\ crashed \in BOOLEAN /\ proved \subseteq Births

\* Once an agent is recorded as not installed, no credential of it is active, its
\* system information is gone, and no push that was under way is past the point
\* where it would bring the agent back (coordinator, uninstall, ingestMetric).
GoneStaysGone ==
  /\ agents.status = "not_installed" => ~ info /\ \A c \in Ids : creds[c] # "active"
  /\ agents.status = "not_installed" => \A q \in pushes : q.at \notin {"stamped", "used", "landed"}

\* At most one process runs the agent's loop from the agent's binary: every start
\* follows a stop of the managed process or finds none (inspection, pid file).
OneAgent == Cardinality(Loops) <= 1

\* A host that was configured always has a binary, in place or kept aside, at
\* every point of an upgrade, of its rollback and of their failures.
BinaryIsNeverLost == machine.conf # None => machine.bin # 0 \/ machine.backup # 0

\* Unless something went wrong on the way, the lock of the host is held only by
\* the operation at work, and `installing' stands only while one is: no way out
\* of an operation forgets either.
NothingIsLeftBehind ==
  mishaps = 0 =>
    /\ machine.lock => slot \in {"upgrade", "restart"}
    /\ agents.status = "installing" => slot \in {"install", "uninstall"}

\* A pending credential belongs to the operation at work: every failure of one
\* revokes the credential it made, if the API lives.
PendingHasOwner ==
  \A c \in Ids : creds[c] = "pending" => slot \in {"install", "rotate"} \/ crashed

\* The host, the rows and the slot agree at every step of every operation.
LifecycleIsSound ==
  /\ LifecycleTypeOK
  /\ GoneStaysGone /\ OneAgent /\ BinaryIsNeverLost
  /\ NothingIsLeftBehind /\ PendingHasOwner

\* A job that succeeds has done what it is for: the agent configured and its
\* credential good; every credential revoked; the candidate in place without
\* leftovers; the host on the new credential, which is active.
SuccessIsEarned ==
  [][ \A j \in 1 .. MaxOps :
        jobs[j] # "succeeded" /\ jobs'[j] = "succeeded" =>
          CASE slot = "install" -> machine.conf = task.cred /\ creds[task.cred] \in Usable
            [] slot = "uninstall" -> machine.conf = None /\ \A c \in Ids : creds[c] \notin Usable
            [] slot = "upgrade" -> machine.bin = Shipped /\ machine.backup = 0
            [] slot = "restart" -> machine.pid = Born3(2)
            [] slot = "rotate" -> machine.conf = task.cred /\ creds[task.cred] = "active"
    ]_lvars

\* An operation ends, and the slot is free again (coordinator, runner).
OperationsEnd == slot # None ~> slot = None

\* What the code says and does not do.

\* "so that observation cannot prove the subsequently started background process
\* is healthy"; "Baseline is deliberately captured only after the prior process
\* stopped": a job that succeeds was proved by the process it started.
ProvedByTheNew ==
  [][ \A j \in 1 .. MaxOps :
        jobs[j] # "succeeded" /\ jobs'[j] = "succeeded" /\ slot \in {"upgrade", "restart"}
          => machine.pid \in proved
    ]_lvars

\* "Helper failure revokes only the new pending credential so the previous
\* credential keeps working": between rotations the host's credential is good.
RotationKeepsAccess ==
  place = "local" /\ slot = None /\ ~ crashed => creds[machine.conf] \in Usable

\* "Token has been revoked": a revoked credential is never good again.
RevokedForGood ==
  [][\A c \in Ids : creds[c] = "revoked" => creds'[c] = "revoked"]_lvars

\* "Top-level errors are handled inside run() by the fail() path": a slot that is
\* taken has a task that will release it.
SlotHasTask == slot # None => task # None
=============================================================================
