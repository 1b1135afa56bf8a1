---------------------------- MODULE UpdaterHost ----------------------------
(***************************************************************************)
(* One local upgrade from the host's side: the unprivileged updater daemon *)
(* with its durable journal, the privileged one-shot helper that swaps and *)
(* restores the agent binary, the agent service, and the API server.       *)
(*                                                                         *)
(* Daemon and helper are processes of their own that meet in files: the    *)
(* daemon drops requests into `pending', the path unit starts the helper,  *)
(* which leaves results and its own root-owned journal.  Each file write,  *)
(* rename, restart and API call is a step, and a crash may come between    *)
(* any two of them.  The server is the one LocalUpgradeApi details, here   *)
(* with atomic calls and with deadlines and leases that run out at any     *)
(* time.                                                                   *)
(*                                                                         *)
(* The host's disk does not fail and the release's manifest is valid;      *)
(* MaxTrouble bounds the crashes, lost calls, timeouts of the helper,      *)
(* failed downloads and services that do not come up, MaxClaims the times  *)
(* the lease is granted.  One job is followed from its creation.           *)
(***************************************************************************)
EXTENDS Integers, UpgradeStates

CONSTANTS
  None,
  MaxTrouble,
  MaxClaims,
  JournalMayVanish   \* may the daemon's journal file be lost?

ASSUME BoundsAssumption ==
  /\ MaxTrouble \in Nat /\ MaxClaims \in Nat \ {0}
  /\ JournalMayVanish \in BOOLEAN

VARIABLES
  srv,       \* the job's row at the server
  seen,      \* the agent state row: the last heartbeat received
  journal,   \* the daemon's journal file, None when there is no job
  disk,      \* every other file: binary, backup, staging, requests, results
  service,   \* the agent process
  daemon,    \* the daemon's memory
  helper,    \* the helper's memory
  trouble,   \* mishaps so far
  swaps      \* history: how often the target binary was renamed into place

vars == <<srv, seen, journal, disk, service, daemon, helper, trouble, swaps>>

server == <<srv, seen>>

-----------------------------------------------------------------------------
(* State *)

HelperActions == {"apply", "rollback", "cleanup"}

Job == [ state : JobStates \ {"absent"}, token : 0 .. MaxClaims,
         lease  : BOOLEAN,     \* granted and not expired
         pinned : BOOLEAN,     \* baselineHeartbeatAt is set
         late   : BOOLEAN ]    \* a deadline has passed

\* The row of the last heartbeat, compared with the pinned one.  `restarted'
\* is history: its sender was started after the swap point was reported.
Seen == [ build : {"old", "new"}, fresh : BOOLEAN,
          sincePin : BOOLEAN, restarted : BOOLEAN ]

Journal == [ phase     : ProgressPhases \cup {"terminal"},
             token     : 0 .. MaxClaims,   \* FencingToken
             reconcile : BOOLEAN,          \* RequiresReconcile
             requested : BOOLEAN,          \* SwapRequested
             postSwap  : BOOLEAN,          \* PostSwap
             reported  : BOOLEAN,          \* ReportedToServer
             cleaned   : BOOLEAN,          \* CleanupDone
             hold      : BOOLEAN,          \* Hold
             acked     : BOOLEAN ]         \* Reason: the operator cleared the hold

HelperPhases == {"intent", "renamed", "restarted", "rolled_back"}

HelperOutcomes == {"restarted", "recovered_restarted", "recovered_no_swap",
                   "auto_rolled_back", "restart_failed_rollback_failed",
                   "verify_failed", "unclear",
                   "rolled_back", "rollback_failed", "cleaned"}

\* Outcomes that leave the request in place.
Unsettled == {"unclear", "rollback_failed", "restart_failed_rollback_failed"}

Disk == [ binary  : {"old", "new"},
          backup  : BOOLEAN,                   \* the replaced binary is kept
          staged  : BOOLEAN,                   \* artifact and manifest staged
          partial : BOOLEAN,                   \* .vps-restore-<job> exists
          robbed : BOOLEAN,                    \* the journal file has been lost
          record  : HelperPhases \cup {None},  \* the helper's journal
          pending : SUBSET HelperActions,
          results : [HelperActions -> HelperOutcomes \cup {None}] ]

\* A phase, an outcome and a journal can be told from the lack of one.
ASSUME NoneAssumption ==
  /\ None \notin ProgressPhases \cup HelperPhases \cup HelperOutcomes \cup {"failed"}
  /\ None \notin Journal

\* Where reportPhase, observeRuling or holdJob returns to: the phase the caller
\* goes on with, the dispatch at the end of runJob, or the loop of Run.
Returns == ProgressPhases \cup {"dispatch", "load"}

Daemon == [ pc    : {"load", "claim", "look", "decide", "phase", "work",
                     "request", "grace", "await", "report", "reclaim", "observe",
                     "hold", "halt", "consume", "teardown", "clear"},
            j     : Journal \cup {None},       \* the journal in memory
            last  : ProgressPhases \cup {None},\* lastPhase
            ret   : Returns,
            ask   : HelperActions,             \* the action ensureAction waits for
            say   : {"failed", "rolled_back", None},  \* the outcome to report
            retry : BOOLEAN,                   \* after a re-claim
            found : [ record : HelperPhases \cup {None},
                      pending : BOOLEAN, result : BOOLEAN ],
            told  : BOOLEAN ]   \* history: has learnt of a terminal ruling

Started == [ pc |-> "load", j |-> None, last |-> None, ret |-> "load",
             ask |-> "apply", say |-> None, retry |-> FALSE,
             found |-> [record |-> None, pending |-> FALSE, result |-> FALSE],
             told |-> FALSE ]

Helper == [ at  : {"idle", "next", "apply", "intent", "rename", "note",
                   "restart", "rejoin", "rollback", "restore", "putback",
                   "noteback", "restartback", "cleanup", "forget",
                   "result", "unlink"},
            todo : SUBSET HelperActions, act : HelperActions,
            out  : HelperOutcomes \cup {None} ]

Dormant == [at |-> "idle", todo |-> {}, act |-> "apply", out |-> None]

\* One more mishap.
Mishap == trouble < MaxTrouble /\ trouble' = trouble + 1

-----------------------------------------------------------------------------
(* The server *)

Ended(s) == s.state \in TerminalStates

Settled(s, verdict) == [s EXCEPT !.state = verdict]

\* The target's heartbeat, from after the pinned one.
TargetSeen(s) == seen.build = "new" /\ seen.fresh /\ (s.pinned => seen.sincePin)

BaselineSeen(s) == seen.build = "old" /\ seen.fresh /\ s.pinned /\ seen.sincePin

\* reconcile: what every read makes of the job first.
Reconciled ==
  IF Ended(srv) THEN srv
  ELSE IF srv.state \in {"restarting", "awaiting_heartbeat"} /\ TargetSeen(srv)
  THEN Settled(srv, "succeeded")
  ELSE IF srv.late THEN Settled(srv, DeadlineRuling(srv.state)) ELSE srv

\* claim: no job, the job under its live lease, or the job with a new token.
Claimed ==
  LET s == Reconciled IN
  IF Ended(s) \/ s.lease THEN s
  ELSE [s EXCEPT !.state = IF @ = "queued" THEN "claimed" ELSE @,
                 !.token = @ + 1, !.lease = TRUE]

HoldsLease(token) == srv.lease /\ token = srv.token

ProgressReply(token) == IF Ended(srv) THEN "job_terminal"
                        ELSE IF HoldsLease(token) THEN "ok" ELSE "stale_lease"

Progressed(token, phase) ==
  IF ProgressReply(token) = "ok"
  THEN [srv EXCEPT !.state = phase, !.pinned = @ \/ phase = "restarting"]
  ELSE srv

\* The first report of the restart pins the last heartbeat.
Pins(s) == s.pinned /\ ~ srv.pinned

ResultReply(token, outcome) ==
  IF Ended(srv)
  THEN IF \/ srv.state = "rollback_unverified" /\ outcome = "rolled_back"
          \/ /\ token = srv.token
             /\ \/ srv.state = outcome
                \/ outcome = "failed" /\ srv.state = "rollback_unverified"
       THEN "ok" ELSE "job_terminal"
  ELSE IF HoldsLease(token) THEN "ok" ELSE "stale_lease"

\* Faulty: `failed' is taken at its word.
Ruling_AsReported(outcome) ==
  IF outcome = "rolled_back" /\ BaselineSeen(srv) THEN "rolled_back"
  ELSE IF outcome = "failed" THEN "failed" ELSE "rollback_unverified"

\* The verdict a report may settle or refine the job with.
Ruling(outcome) ==
  IF outcome = "rolled_back" /\ BaselineSeen(srv) THEN "rolled_back"
  ELSE IF outcome = "failed" /\ srv.state \in PreSwapStates THEN "failed"
  ELSE "rollback_unverified"

Resulted(token, outcome) ==
  IF ResultReply(token, outcome) = "ok"
     /\ (~ Ended(srv) \/ (srv.state = "rollback_unverified" /\ outcome = "rolled_back"))
  THEN Settled(srv, Ruling(outcome)) ELSE srv

\* A call from the daemon: it gets through, or its request or its answer is lost.
Exchange(after, lost) ==
  /\ IF lost THEN Mishap /\ srv' \in {srv, after}
             ELSE srv' = after /\ UNCHANGED trouble
  /\ UNCHANGED seen

-----------------------------------------------------------------------------
(* The daemon: control *)

Ask(d, action) == [d EXCEPT !.pc = "request", !.ask = action]

Phase(d, ret) == [d EXCEPT !.pc = "phase", !.ret = ret, !.retry = FALSE, !.say = None]

Report(d, outcome) == [d EXCEPT !.pc = "report", !.say = outcome, !.retry = FALSE]

\* An error, or the end of runJob: Run loads the journal and goes on.
Failing(d) == [Started EXCEPT !.last = d.last, !.told = d.told]

\* The switch on the journal's phase at the end of runJob.
Dispatch(d) ==
  LET top == [d EXCEPT !.ret = "load"] IN
  CASE d.j.phase = "restarting"         -> Ask(top, "apply")
    [] d.j.phase = "rolling_back"       -> Ask(top, "rollback")
    [] d.j.phase = "awaiting_heartbeat" -> [top EXCEPT !.pc = "grace"]
    [] d.j.phase = "terminal"           -> [top EXCEPT !.pc = "observe"]
    [] OTHER                            -> Phase(d, d.j.phase)

\* reportPhase, observeRuling, consume or holdJob returned nil: its caller goes
\* on, whatever the callee has done to the job.
Resume(d) ==
  LET top == [d EXCEPT !.ret = "load"] IN
  CASE d.ret = "load"               -> Failing(d)
    [] d.ret = "dispatch"           -> Dispatch(d)
    [] d.ret = "restarting"         -> Ask(top, "apply")
    [] d.ret = "rolling_back"       -> Ask(top, "rollback")
    [] d.ret = "awaiting_heartbeat" -> [top EXCEPT !.pc = "grace"]
    [] OTHER                        -> [d EXCEPT !.pc = "work"]

-----------------------------------------------------------------------------
(* The daemon: claiming and resuming *)

\* Run reads the journal; runJob consults the helper's cleanup result, then
\* reconciles anything that may have mutated the host.
Load ==
  /\ daemon.pc = "load"
  /\ journal # None => ~ journal.hold
  /\ LET d == [Failing(daemon) EXCEPT !.j = journal]
     IN daemon' =
          IF journal = None THEN [d EXCEPT !.pc = "claim"]
          ELSE IF journal.cleaned \/ disk.results["cleanup"] = "cleaned"
          THEN [d EXCEPT !.pc = "observe"]
          ELSE IF journal.postSwap \/ journal.requested \/ journal.reconcile
          THEN [d EXCEPT !.pc = "look"]
          ELSE Dispatch(d)
  /\ UNCHANGED <<server, journal, disk, service, helper, trouble, swaps>>

\* stepClaim
Claim ==
  /\ daemon.pc = "claim"
  /\ \E lost \in BOOLEAN :
       /\ Exchange(Claimed, lost)
       /\ IF lost \/ Ended(srv')
          THEN daemon' = Failing(daemon) /\ UNCHANGED journal
          ELSE /\ journal' = [ phase |-> "downloading", token |-> srv'.token,
                               reconcile |-> srv'.state \in PostSwapStates,
                               requested |-> FALSE, postSwap |-> FALSE,
                               reported |-> FALSE, cleaned |-> FALSE, hold |-> FALSE,
                               acked |-> FALSE ]
               /\ daemon' = [Failing(daemon) EXCEPT !.last = None]
  /\ UNCHANGED <<disk, service, helper, swaps>>

\* reconcile reads the helper's journal, the request and the result ...
Look ==
  /\ daemon.pc = "look"
  /\ daemon' = [daemon EXCEPT
       !.pc = "decide", !.ret = "dispatch",
       !.found = [record  |-> disk.record,
                  pending |-> "apply" \in disk.pending,
                  result  |-> disk.results["apply"] # None]]
  /\ UNCHANGED <<server, journal, disk, service, helper, trouble, swaps>>

\* ... and no helper journal: the swap may have been requested all the same.
DecideUnrecorded(d) ==
  LET j == d.j
      found == daemon.found
      swapped == [d EXCEPT !.j.postSwap = TRUE, !.pc = "hold"]
      request == [j EXCEPT !.phase = "restarting"]
  IN
  /\ found.record = None
  /\ \/ /\ ~ j.requested /\ ~ j.reconcile
        /\ daemon' = Dispatch(d) /\ UNCHANGED journal
     \/ /\ j.requested \/ j.reconcile
        /\ \/ disk.binary = "new"
           \/ found.pending /\ j.reconcile
           \/ ~ found.pending /\ found.result /\ disk.results["apply"] # "verify_failed"
           \/ ~ found.pending /\ ~ found.result /\ j.reconcile
        /\ daemon' = swapped /\ UNCHANGED journal
     \/ /\ j.requested \/ j.reconcile
        /\ disk.binary = "old" /\ ~ found.pending /\ found.result
        /\ disk.results["apply"] = "verify_failed"
        /\ daemon' = Report(d, "failed") /\ UNCHANGED journal
     \/ /\ j.requested /\ ~ j.reconcile
        /\ disk.binary = "old" /\ (found.pending \/ ~ found.result)
        /\ journal' = request
        /\ daemon' = Dispatch([d EXCEPT !.j = request])

\* ... or the helper's journal and the hash of the binary.
DecideRecorded(d) ==
  LET record == daemon.found.record
      adopted == [d.j EXCEPT !.postSwap = TRUE,
                             !.phase = IF @ \in PreSwapStates THEN "restarting" ELSE @]
      back == [d.j EXCEPT !.postSwap = TRUE, !.phase = "rolling_back"]
  IN
  /\ record # None
  /\ CASE disk.binary = "new" /\ record # "rolled_back" ->
            IF d.j.phase \in PreSwapStates
            THEN journal' = adopted /\ daemon' = Phase([d EXCEPT !.j = adopted], "dispatch")
            ELSE UNCHANGED journal /\ daemon' = Dispatch([d EXCEPT !.j = adopted])
       [] disk.binary = "old" /\ record = "intent" ->
            UNCHANGED journal /\ daemon' = Report(d, "failed")
       [] disk.binary = "old" /\ record = "rolled_back" ->
            journal' = back /\ daemon' = Dispatch([d EXCEPT !.j = back])
       [] OTHER ->
            UNCHANGED journal /\ daemon' = [d EXCEPT !.j.postSwap = TRUE, !.pc = "hold"]

Decide ==
  /\ daemon.pc = "decide"
  /\ LET d == [daemon EXCEPT !.found = Started.found]
     IN DecideUnrecorded(d) \/ DecideRecorded(d)
  /\ UNCHANGED <<server, disk, service, helper, trouble, swaps>>

-----------------------------------------------------------------------------
(* The daemon: working and reporting *)

\* reportPhase: a stale lease is re-claimed before the swap and halts after it,
\* a ruled job is followed, an unreachable server is ignored.
ReportPhase ==
  LET d == daemon
      reply == ProgressReply(d.j.token)
  IN
  /\ d.pc = "phase"
  /\ \/ /\ d.last = d.j.phase
        /\ journal' = d.j /\ daemon' = Resume(d)
        /\ UNCHANGED <<server, trouble>>
     \/ /\ d.last # d.j.phase
        /\ \E lost \in BOOLEAN :
             /\ Exchange(Progressed(d.j.token, d.j.phase), lost)
             /\ IF ~ lost /\ reply = "ok"
                THEN journal' = d.j /\ daemon' = Resume([d EXCEPT !.last = d.j.phase])
                ELSE /\ UNCHANGED journal
                     /\ daemon' =
                          IF d.retry THEN Failing(d)
                          ELSE IF lost THEN Resume(d)
                          ELSE IF reply = "job_terminal"
                          THEN [d EXCEPT !.pc = "observe", !.told = TRUE]
                          ELSE [d EXCEPT !.pc = IF d.j.postSwap THEN "hold" ELSE "reclaim"]
  /\ UNCHANGED <<disk, service, helper, swaps>>

\* A new fencing token for the report that found its lease stale.
Reclaim ==
  /\ daemon.pc = "reclaim"
  /\ \E lost \in BOOLEAN :
       /\ Exchange(Claimed, lost)
       /\ daemon' = IF lost \/ Ended(srv') THEN Failing(daemon)
                    ELSE [daemon EXCEPT !.j.token = srv'.token, !.retry = TRUE,
                            !.pc = IF daemon.say = None THEN "phase" ELSE "report"]
  /\ UNCHANGED <<journal, disk, service, helper, swaps>>

\* The journal of the next phase; the last one is the intent to swap.
Advanced(j, next) ==
  [j EXCEPT !.phase = next, !.requested = @ \/ next = "restarting"]

\* runPreSwap: download, verify and stage, each phase saved when it is done.
Work ==
  LET phase == daemon.ret
      Done(next) ==
        LET j == Advanced(daemon.j, next)
        IN journal' = j /\ daemon' = Phase([daemon EXCEPT !.j = j], next)
  IN
  /\ daemon.pc = "work"
  /\ \/ /\ phase = "downloading"
        /\ disk' = [disk EXCEPT !.staged = TRUE]
        /\ Done("verifying") /\ UNCHANGED trouble
     \/ /\ phase = "downloading" /\ Mishap
        /\ daemon' = Failing(daemon) /\ UNCHANGED <<journal, disk>>
     \/ /\ phase = "verifying" /\ disk.staged
        /\ Done("staging") /\ UNCHANGED <<disk, trouble>>
     \/ /\ phase = "verifying" /\ disk.staged /\ Mishap
        /\ daemon' = Report([daemon EXCEPT !.ret = "load"], "failed")
        /\ UNCHANGED <<journal, disk>>
     \/ /\ phase \in {"verifying", "staging"} /\ ~ disk.staged
        /\ daemon' = Failing(daemon) /\ UNCHANGED <<journal, disk, trouble>>
     \/ /\ phase = "staging" /\ disk.staged
        /\ Done("restarting") /\ UNCHANGED <<disk, trouble>>
  /\ UNCHANGED <<server, service, helper, swaps>>

\* ensureAction: the request is written unless it or its result is there; the
\* wait for the result may time out.
Request ==
  LET a == daemon.ask IN
  /\ daemon.pc = "request"
  /\ disk.results[a] = None
  /\ \/ /\ a \notin disk.pending
        /\ disk' = [disk EXCEPT !.pending = @ \cup {a}]
        /\ UNCHANGED <<daemon, trouble>>
     \/ /\ a \in disk.pending /\ Mishap
        /\ daemon' = Failing(daemon) /\ UNCHANGED disk
  /\ UNCHANGED <<server, journal, service, helper, swaps>>

\* runRestarting, once the helper has answered.
ApplyAnswered ==
  LET d == daemon
      outcome == disk.results["apply"]
      swapped == [d EXCEPT !.j.postSwap = TRUE]
      waiting == [d.j EXCEPT !.postSwap = TRUE, !.phase = "awaiting_heartbeat"]
  IN
  /\ d.pc = "request" /\ d.ask = "apply" /\ outcome # None
  /\ \/ /\ outcome \in {"restarted", "recovered_restarted"}
        /\ journal' = waiting
        /\ daemon' = Phase([d EXCEPT !.j = waiting], "awaiting_heartbeat")
     \/ /\ outcome \in {"recovered_no_swap", "verify_failed"}
        /\ daemon' = Report(d, "failed") /\ UNCHANGED journal
     \/ /\ outcome = "auto_rolled_back"
        /\ daemon' = Report(swapped, "rolled_back") /\ UNCHANGED journal
     \/ /\ outcome \in {"restart_failed_rollback_failed", "unclear"}
        /\ daemon' = [swapped EXCEPT !.pc = "hold"] /\ UNCHANGED journal
  /\ UNCHANGED <<server, disk, service, helper, trouble, swaps>>

\* runRollingBack, once the helper has answered.
RollbackAnswered ==
  LET outcome == disk.results["rollback"] IN
  /\ daemon.pc = "request" /\ daemon.ask = "rollback" /\ outcome # None
  /\ daemon' = IF outcome = "rolled_back" THEN Report(daemon, "rolled_back")
               ELSE [daemon EXCEPT !.j.postSwap = TRUE, !.pc = "hold"]
  /\ UNCHANGED <<server, journal, disk, service, helper, trouble, swaps>>

\* Faulty: an unverified rollback is consumed like any other ruling.
Follow_ConsumesAll(d, ruling) ==
  daemon' = [d EXCEPT !.told = TRUE, !.pc = "consume"] /\ UNCHANGED journal

\* Faulty: an unverified rollback is noted but does not halt the updater.
Follow_WithoutHold(d, ruling) ==
  IF ruling = "rollback_unverified"
  THEN /\ journal' = [d.j EXCEPT !.phase = "terminal"]
       /\ daemon' = Resume([d EXCEPT !.told = TRUE, !.j.phase = "terminal"])
  ELSE daemon' = [d EXCEPT !.told = TRUE, !.pc = "consume"] /\ UNCHANGED journal

\* consumeWithRuling: the retention contract, for a ruling the server has given.
Follow(d, ruling) ==
  LET halted == [d.j EXCEPT !.hold = TRUE, !.phase = "terminal", !.acked = FALSE]
      heard  == [d EXCEPT !.told = TRUE]
  IN CASE ruling \in {"succeeded", "rolled_back"} \/ (ruling = "failed" /\ ~ d.j.postSwap) ->
            daemon' = [heard EXCEPT !.pc = "consume"] /\ UNCHANGED journal
       [] ruling = "failed" /\ d.j.postSwap ->
            daemon' = [heard EXCEPT !.pc = "hold"] /\ UNCHANGED journal
       [] ruling = "rollback_unverified" ->
            journal' = halted /\ daemon' = Resume([heard EXCEPT !.j = halted])

\* awaitHeartbeat saves the start of the grace period ...
AwaitBegins ==
  /\ daemon.pc = "grace"
  /\ journal' = daemon.j
  /\ daemon' = [daemon EXCEPT !.pc = "await"]
  /\ UNCHANGED <<server, disk, service, helper, trouble, swaps>>

\* ... and polls the ruling; past the grace deadline (seen only online)
\* or with a dead service, roll back.
Await ==
  LET d == daemon IN
  /\ d.pc = "await"
  /\ \E lost \in BOOLEAN :
       /\ Exchange(Reconciled, lost)
       /\ IF ~ lost /\ Ended(srv')
          THEN Follow(d, srv'.state)
          ELSE LET polled == IF lost THEN d.j ELSE [d.j EXCEPT !.token = srv'.token]
                   leaving == [polled EXCEPT !.phase = "rolling_back"]
               IN \/ /\ service.build # "down"
                     /\ journal' = polled /\ daemon' = [d EXCEPT !.j = polled]
                  \/ /\ service.build = "down" \/ ~ lost
                     /\ journal' = leaving
                     /\ daemon' = Phase([d EXCEPT !.j = leaving], "rolling_back")
  /\ UNCHANGED <<disk, service, helper, swaps>>

\* reportAndObserve
ReportResult ==
  LET d == daemon
      reply  == ResultReply(d.j.token, d.say)
      agreed == [d.j EXCEPT !.reported = TRUE, !.phase = "terminal"]
      beaten == [d.j EXCEPT !.reported = TRUE]
  IN
  /\ d.pc = "report"
  /\ \/ /\ d.j.reported
        /\ daemon' = [d EXCEPT !.pc = "observe"]
        /\ UNCHANGED <<server, journal, trouble>>
     \/ /\ ~ d.j.reported
        /\ \E lost \in BOOLEAN :
             /\ Exchange(Resulted(d.j.token, d.say), lost)
             /\ CASE lost ->
                       daemon' = Failing(d) /\ UNCHANGED journal
                  [] ~ lost /\ reply = "ok" ->
                       /\ journal' = agreed
                       /\ daemon' = [d EXCEPT !.j = agreed, !.pc = "observe"]
                  [] ~ lost /\ reply = "job_terminal" ->
                       /\ journal' = beaten
                       /\ daemon' = [d EXCEPT !.j = beaten, !.pc = "observe", !.told = TRUE]
                  [] ~ lost /\ reply = "stale_lease" ->
                       /\ UNCHANGED journal
                       /\ daemon' = IF d.j.postSwap THEN [d EXCEPT !.pc = "hold"]
                                    ELSE IF d.retry THEN Failing(d)
                                    ELSE [d EXCEPT !.pc = "reclaim"]
  /\ UNCHANGED <<disk, service, helper, swaps>>

\* observeRuling
Observe ==
  /\ daemon.pc = "observe"
  /\ \E lost \in BOOLEAN :
       /\ Exchange(Reconciled, lost)
       /\ IF ~ lost /\ Ended(srv') THEN Follow(daemon, srv'.state)
          ELSE UNCHANGED <<daemon, journal>>
  /\ UNCHANGED <<disk, service, helper, swaps>>

\* holdJob: report an unverified rollback unless a verdict was reported, ...
HoldJob ==
  LET d == daemon
      held == [d EXCEPT !.j.hold = TRUE, !.j.phase = "terminal", !.j.acked = FALSE,
                        !.pc = "halt"]
  IN
  /\ d.pc = "hold"
  /\ \/ /\ d.j.reported
        /\ daemon' = held /\ UNCHANGED <<server, trouble>>
     \/ /\ ~ d.j.reported
        /\ \E lost \in BOOLEAN :
             /\ Exchange(Resulted(d.j.token, "rollback_unverified"), lost)
             /\ daemon' = [held EXCEPT !.j.reported = ~ lost]
  /\ UNCHANGED <<journal, disk, service, helper, swaps>>

\* ... and save the hold.
Halt ==
  /\ daemon.pc = "halt"
  /\ journal' = daemon.j
  /\ daemon' = Resume(daemon)
  /\ UNCHANGED <<server, disk, service, helper, trouble, swaps>>

-----------------------------------------------------------------------------
(* The daemon: consuming a ruled job *)

\* The triggers of the privileged mutations go first, then the backup.
Consume ==
  /\ daemon.pc = "consume"
  /\ disk' = [disk EXCEPT !.pending = @ \ {"apply", "rollback"}, !.staged = FALSE]
  /\ daemon' = IF daemon.j.cleaned THEN [daemon EXCEPT !.pc = "teardown"]
               ELSE Ask(daemon, "cleanup")
  /\ UNCHANGED <<server, journal, service, helper, trouble, swaps>>

CleanupAnswered ==
  LET cleaned == [daemon.j EXCEPT !.cleaned = TRUE] IN
  /\ daemon.pc = "request" /\ daemon.ask = "cleanup"
  /\ disk.results["cleanup"] = "cleaned"
  /\ journal' = cleaned
  /\ daemon' = [daemon EXCEPT !.j = cleaned, !.pc = "teardown"]
  /\ UNCHANGED <<server, disk, service, helper, trouble, swaps>>

Teardown ==
  /\ daemon.pc = "teardown"
  /\ disk' = [disk EXCEPT !.results = [a \in HelperActions |-> None],
                          !.pending = @ \ {"cleanup"}]
  /\ daemon' = [daemon EXCEPT !.pc = "clear"]
  /\ UNCHANGED <<server, journal, service, helper, trouble, swaps>>

Clear ==
  /\ daemon.pc = "clear"
  /\ journal' = None
  /\ daemon' = Resume([daemon EXCEPT !.last = None])
  /\ UNCHANGED <<server, disk, service, helper, trouble, swaps>>

-----------------------------------------------------------------------------
(* The helper *)

Go(at) == helper' = [helper EXCEPT !.at = at]

Answer(outcome) == helper' = [helper EXCEPT !.at = "result", !.out = outcome]

\* systemctl restart: the agent runs the binary on disk, or does not come up.
Restart(up) ==
  /\ service' = [build |-> IF up THEN disk.binary ELSE "down", restarted |-> srv.pinned]
  /\ IF up THEN UNCHANGED trouble ELSE Mishap

\* The path unit starts the helper while requests are pending; it lists them once.
HelperStarts ==
  /\ helper.at = "idle" /\ disk.pending # {}
  /\ helper' = [helper EXCEPT !.at = "next", !.todo = disk.pending]
  /\ UNCHANGED <<server, journal, disk, service, daemon, trouble, swaps>>

HelperTakes ==
  /\ helper.at = "next"
  /\ IF helper.todo = {} THEN helper' = Dormant
     ELSE LET a == IF "apply" \in helper.todo THEN "apply"
                   ELSE IF "cleanup" \in helper.todo THEN "cleanup" ELSE "rollback"
          IN helper' = [helper EXCEPT !.at = a, !.act = a, !.todo = @ \ {a}]
  /\ UNCHANGED <<server, journal, disk, service, daemon, trouble, swaps>>

\* Faulty: a leftover record does not stop the swap.
HelperApply_AlwaysFresh ==
  /\ helper.at = "apply"
  /\ IF ~ disk.staged THEN Answer("verify_failed") /\ UNCHANGED disk
     ELSE disk' = [disk EXCEPT !.backup = TRUE] /\ Go("intent")
  /\ UNCHANGED <<server, journal, service, daemon, trouble, swaps>>

\* handleApply: with a record of this job only reconcile; otherwise verify the
\* staged artifact and back the binary up.  Copies never overwrite a file, so
\* one left behind by a crashed run refuses the apply.
HelperApply ==
  /\ helper.at = "apply"
  /\ \/ /\ disk.record # None
        /\ CASE disk.binary = "new" ->
                  IF disk.record # "restarted" THEN Go("rejoin")
                  ELSE Answer(IF service.build = "down" THEN "unclear"
                              ELSE "recovered_restarted")
             [] disk.binary = "old" /\ disk.record = "intent" -> Answer("recovered_no_swap")
             [] OTHER -> Answer("unclear")
        /\ UNCHANGED <<disk, trouble>>
     \/ /\ disk.record = None
        /\ \/ /\ ~ disk.staged \/ disk.backup
              /\ Answer("verify_failed") /\ UNCHANGED <<disk, trouble>>
           \/ /\ disk.staged /\ Mishap
              /\ Answer("verify_failed") /\ UNCHANGED disk
           \/ /\ disk.staged /\ ~ disk.backup
              /\ disk' = [disk EXCEPT !.backup = TRUE]
              /\ Go("intent") /\ UNCHANGED trouble
  /\ UNCHANGED <<server, journal, service, daemon, swaps>>

\* The intent is recorded, the binary renamed into place, the rename recorded.
HelperSwaps ==
  /\ \/ /\ helper.at = "intent"
        /\ disk' = [disk EXCEPT !.record = "intent"]
        /\ Go("rename") /\ UNCHANGED swaps
     \/ /\ helper.at = "rename"
        /\ disk' = [disk EXCEPT !.binary = "new"]
        /\ Go("note") /\ swaps' = swaps + 1
     \/ /\ helper.at = "note"
        /\ disk' = [disk EXCEPT !.record = "renamed"]
        /\ Go("restart") /\ UNCHANGED swaps
  /\ UNCHANGED <<server, journal, service, daemon, trouble>>

\* restartOrRollback: the unit fails to restart, or restarts and is not active.
HelperRestarts ==
  /\ helper.at = "restart"
  /\ \E up, recorded \in BOOLEAN :
       /\ up => recorded
       /\ Restart(up)
       /\ disk' = IF recorded THEN [disk EXCEPT !.record = "restarted"] ELSE disk
       /\ IF up THEN Answer("restarted") ELSE Go("restore")
  /\ UNCHANGED <<server, journal, daemon, swaps>>

\* reconcileApply after the swap: restart once, never swap again.
HelperRejoins ==
  /\ helper.at = "rejoin"
  /\ \E up, recorded \in BOOLEAN :
       /\ up => recorded
       /\ Restart(up)
       /\ disk' = IF recorded THEN [disk EXCEPT !.record = "restarted"] ELSE disk
       /\ Answer(IF up THEN "recovered_restarted" ELSE "unclear")
  /\ UNCHANGED <<server, journal, daemon, swaps>>

\* handleRollback
HelperRollback ==
  /\ helper.at = "rollback"
  /\ CASE disk.record = None          -> Answer("rollback_failed")
       [] disk.record = "rolled_back" -> Answer("rolled_back")
       [] OTHER                       -> Go("restore")
  /\ UNCHANGED <<server, journal, disk, service, daemon, trouble, swaps>>

\* Faulty: a restore that failed is reported like one that worked.
RestoreFailed_Ignored == IF helper.act = "apply" THEN "auto_rolled_back" ELSE "rolled_back"

\* What a restore that failed is called, by the action it is part of.
RestoreFailed == IF helper.act = "apply" THEN "restart_failed_rollback_failed"
                 ELSE "rollback_failed"

Restored == IF helper.act = "apply" THEN "auto_rolled_back" ELSE "rolled_back"

\* restoreBackup and what follows it.  A copy left behind by a crashed restore
\* fails this one (and is removed).
HelperRestores ==
  \/ /\ helper.at = "restore"
     /\ IF disk.partial \/ ~ disk.backup
        THEN disk' = [disk EXCEPT !.partial = ~ disk.backup /\ @] /\ Answer(RestoreFailed)
        ELSE disk' = [disk EXCEPT !.partial = TRUE] /\ Go("putback")
     /\ UNCHANGED <<server, journal, service, daemon, trouble, swaps>>
  \/ /\ helper.at = "putback"
     /\ disk' = [disk EXCEPT !.binary = "old", !.partial = FALSE]
     /\ Go("noteback")
     /\ UNCHANGED <<server, journal, service, daemon, trouble, swaps>>
  \/ /\ helper.at = "noteback"
     /\ disk' = [disk EXCEPT !.record = "rolled_back"]
     /\ Go("restartback")
     /\ UNCHANGED <<server, journal, service, daemon, trouble, swaps>>
  \/ /\ helper.at = "restartback"
     /\ \E up \in BOOLEAN :
          Restart(up) /\ Answer(IF up THEN Restored ELSE RestoreFailed)
     /\ UNCHANGED <<server, journal, disk, daemon, swaps>>

\* handleCleanup: the backup, then the record that protects it.
HelperCleans ==
  /\ \/ /\ helper.at = "cleanup"
        /\ disk' = [disk EXCEPT !.backup = FALSE] /\ Go("forget")
     \/ /\ helper.at = "forget"
        /\ disk' = [disk EXCEPT !.record = None] /\ Answer("cleaned")
  /\ UNCHANGED <<server, journal, service, daemon, trouble, swaps>>

\* RunHelper: the result is written, then the request removed if it is settled.
HelperAnswers ==
  /\ \/ /\ helper.at = "result"
        /\ disk' = [disk EXCEPT !.results[helper.act] = helper.out]
        /\ Go("unlink")
     \/ /\ helper.at = "unlink"
        /\ disk' = IF helper.out \in Unsettled THEN disk
                   ELSE [disk EXCEPT !.pending = @ \ {helper.act}]
        /\ helper' = [helper EXCEPT !.at = "next", !.out = None]
  /\ UNCHANGED <<server, journal, service, daemon, trouble, swaps>>

-----------------------------------------------------------------------------
(* The agent, the operator, time and crashes *)

\* A heartbeat of the running agent reaches the server.
Heartbeat ==
  /\ service.build # "down"
  /\ seen' = [build |-> service.build, fresh |-> TRUE, sincePin |-> srv.pinned,
              restarted |-> service.restarted]
  /\ UNCHANGED <<srv, journal, disk, service, daemon, helper, trouble, swaps>>

\* The last heartbeat is no longer fresh.
HeartbeatAges ==
  /\ seen.fresh
  /\ seen' = [seen EXCEPT !.fresh = FALSE]
  /\ UNCHANGED <<srv, journal, disk, service, daemon, helper, trouble, swaps>>

\* Nothing reads the lease of a settled job.
LeaseExpires ==
  /\ srv.lease /\ ~ Ended(srv) /\ srv.token < MaxClaims
  /\ srv' = [srv EXCEPT !.lease = FALSE]
  /\ UNCHANGED <<seen, journal, disk, service, daemon, helper, trouble, swaps>>

\* The job's deadline passes; the next read rules it.
DeadlinePasses ==
  /\ ~ Ended(srv) /\ ~ srv.late
  /\ srv' = [srv EXCEPT !.late = TRUE]
  /\ UNCHANGED <<seen, journal, disk, service, daemon, helper, trouble, swaps>>

\* The dashboard lists the jobs.
DashboardReads ==
  /\ srv' = Reconciled
  /\ UNCHANGED <<seen, journal, disk, service, daemon, helper, trouble, swaps>>

\* vps-updater ack
Ack ==
  /\ journal # None /\ journal.hold
  /\ journal' = [journal EXCEPT !.hold = FALSE, !.acked = TRUE]
  /\ UNCHANGED <<server, disk, service, daemon, helper, trouble, swaps>>

\* What the daemon has learnt stays history.
Restarted == [Started EXCEPT !.told = daemon.told]

AgentDies ==
  /\ service.build # "down" /\ Mishap
  /\ service' = [service EXCEPT !.build = "down"]
  /\ UNCHANGED <<server, journal, disk, daemon, helper, swaps>>

\* The agent's unit has Restart=always.
AgentRevives ==
  /\ service.build = "down"
  /\ service' = [build |-> disk.binary, restarted |-> srv.pinned]
  /\ UNCHANGED <<server, journal, disk, daemon, helper, trouble, swaps>>

DaemonCrashes ==
  /\ Mishap
  /\ daemon' = Restarted
  /\ UNCHANGED <<server, journal, disk, service, helper, swaps>>

HostCrashes ==
  /\ Mishap
  /\ daemon' = Restarted /\ helper' = Dormant
  /\ service' = [build |-> disk.binary, restarted |-> srv.pinned]
  /\ UNCHANGED <<server, journal, disk, swaps>>

\* The oneshot helper runs into its TimeoutStartSec, or is killed.
HelperKilled ==
  /\ helper.at # "idle" /\ Mishap
  /\ helper' = Dormant
  /\ UNCHANGED <<server, journal, disk, service, daemon, swaps>>

\* The daemon restarts without its journal.  That is trouble enough: it comes alone.
JournalVanishes ==
  /\ JournalMayVanish /\ journal # None
  /\ trouble = 0 /\ trouble' = MaxTrouble
  /\ journal' = None /\ daemon' = Restarted
  /\ disk' = [disk EXCEPT !.robbed = TRUE]
  /\ UNCHANGED <<server, service, helper, swaps>>

-----------------------------------------------------------------------------
Init ==
  /\ srv = [state |-> "queued", token |-> 0, lease |-> FALSE,
            pinned |-> FALSE, late |-> FALSE]
  /\ seen = [build |-> "old", fresh |-> TRUE, sincePin |-> FALSE, restarted |-> FALSE]
  /\ journal = None
  /\ disk = [binary |-> "old", backup |-> FALSE, staged |-> FALSE, partial |-> FALSE, robbed |-> FALSE,
             record |-> None, pending |-> {}, results |-> [a \in HelperActions |-> None]]
  /\ service = [build |-> "old", restarted |-> FALSE]
  /\ daemon = Started
  /\ helper = Dormant
  /\ trouble = 0
  /\ swaps = 0

DaemonSteps ==
  \/ Load \/ Claim \/ Look \/ Decide \/ ReportPhase \/ Reclaim \/ Work
  \/ Request \/ ApplyAnswered \/ RollbackAnswered \/ AwaitBegins \/ Await \/ ReportResult
  \/ Observe \/ HoldJob \/ Halt
  \/ Consume \/ CleanupAnswered \/ Teardown \/ Clear

HelperSteps ==
  \/ HelperStarts \/ HelperTakes \/ HelperApply \/ HelperSwaps \/ HelperRestarts
  \/ HelperRejoins \/ HelperRollback \/ HelperRestores \/ HelperCleans \/ HelperAnswers

Surroundings ==
  \/ Heartbeat \/ HeartbeatAges \/ LeaseExpires \/ DeadlinePasses \/ DashboardReads
  \/ Ack \/ AgentDies \/ AgentRevives \/ DaemonCrashes \/ HelperKilled
  \/ HostCrashes \/ JournalVanishes

Next == DaemonSteps \/ HelperSteps \/ Surroundings

Spec == Init /\ [][Next]_vars

\* The daemon and the helper run on (systemd restarts both), the agent's unit has
\* Restart=always, and time passes.
FairSpec ==
  /\ Spec
  /\ WF_vars(DaemonSteps) /\ WF_vars(HelperSteps)
  /\ WF_vars(AgentRevives) /\ WF_vars(DeadlinePasses)

-----------------------------------------------------------------------------
(* Properties *)

\* Every variable has its type.
TypeOK ==
  /\ srv \in Job /\ seen \in Seen
  /\ journal \in Journal \cup {None}
  /\ disk \in Disk
  /\ service \in [build : {"old", "new", "down"}, restarted : BOOLEAN]
  /\ daemon \in Daemon /\ helper \in Helper
  /\ trouble \in 0 .. MaxTrouble /\ swaps \in Nat

\* The rulings that end a job for good.
Final == {"succeeded", "rolled_back", "failed"}

\* The lease is granted with a token, and another one can be.
LeasesAreNumbered ==
  /\ srv.lease => srv.token > 0
  /\ ~ Ended(srv) /\ ~ srv.lease => srv.token < MaxClaims

\* The daemon has a journal in memory from its load until it is through with
\* it, reports a phase or an outcome, and takes a job apart only after its final ruling.
DaemonIsPlaced ==
  /\ daemon.j = None <=> daemon.pc \in {"load", "claim"}
  /\ \/ daemon.pc = "phase"
     \/ daemon.pc = "reclaim" /\ daemon.say = None
     => daemon.j.phase \in ProgressPhases
  /\ daemon.pc = "report" => daemon.say # None
  /\ \/ daemon.pc \in {"consume", "teardown", "clear"}
     \/ daemon.pc = "request" /\ daemon.ask = "cleanup"
     => srv.state \in Final /\ daemon.told

\* The phases before the intent to swap.
Working == {"downloading", "verifying", "staging"}

\* What a journal says of the binary that was swapped n times: the swap is
\* requested before the phases that follow it, and done before the last of them.
Truthful(j, n) ==
  /\ ~ j.reconcile
  /\ j.requested => j.phase \notin Working
  /\ j.postSwap \/ j.phase \in PostSwapStates => j.requested
  /\ j.phase \in {"awaiting_heartbeat", "rolling_back"} => n > 0

\* Where the daemon stands and where it returns to agree with its journal.
OnCourse(d, n) ==
  /\ Truthful(d.j, n)
  /\ d.ret \in Working => ~ d.j.requested
  /\ d.ret \in PostSwapStates => d.j.requested
  /\ d.ret \in {"awaiting_heartbeat", "rolling_back"} => n > 0
  /\ d.pc = "work" => d.ret \in Working
  /\ \/ d.pc \in {"look", "decide", "grace", "await"}
     \/ d.pc = "request" /\ d.ask # "cleanup"
     => d.j.requested
  /\ \/ d.pc \in {"grace", "await"}
     \/ d.pc = "request" /\ d.ask = "rollback"
     \/ d.pc = "decide" /\ d.found.record \in HelperPhases \ {"intent"}
     => n > 0

\* The helper carries out an action.
Acting(a) == helper.act = a /\ helper.at \notin {"idle", "next"}

Due(a) == a \in disk.pending \/ a \in helper.todo \/ Acting(a)

\* The helper has a trace of the swap before it, or the swap behind it.
Applied == \/ Due("apply") \/ disk.results["apply"] # None
           \/ disk.record # None \/ disk.backup \/ swaps > 0

\* The journal on disk and the one in memory: both say that the swap was
\* requested, or none does; a swap is traced only if they do; a job is claimed
\* without a journal, and one without a journal has not begun, or is over.
JournalsAgree ==
  /\ daemon.pc = "claim" => journal = None
  /\ journal # None => Truthful(journal, swaps)
  /\ daemon.j # None => OnCourse(daemon, swaps)
  /\ journal # None /\ daemon.j # None => journal.requested = daemon.j.requested
  /\ Applied /\ journal # None => journal.requested
  /\ Applied /\ daemon.j # None => daemon.j.requested
  /\ journal = None => srv.state \in {"queued", "claimed"} \cup Final
  /\ journal = None /\ (daemon.j # None \/ Applied) => srv.state \in Final /\ daemon.told

\* Which action each step of the helper belongs to, and what it finds there.
HelperIsPlaced ==
  /\ helper.at \in {"apply", "intent", "rename", "note", "restart", "rejoin"}
       => helper.act = "apply"
  /\ helper.at = "rollback" => helper.act = "rollback"
  /\ helper.at \in {"restore", "putback", "noteback", "restartback"}
       => helper.act \in {"apply", "rollback"}
  /\ helper.at \in {"cleanup", "forget"} => helper.act = "cleanup"
  /\ helper.at \in {"note", "restart", "rejoin", "restore", "putback"} => swaps > 0
  /\ helper.at \in {"intent", "rename"} =>
       disk.backup /\ (swaps = 0 \/ srv.state = "failed")
  /\ helper.at = "rename" => disk.record # None
  /\ Due("rollback") => swaps > 0

\* The old binary is back: for good, unless the job had failed already.
IsBack == swaps > 0 /\ (disk.binary = "old" \/ srv.state = "failed")

\* What the host shows of a swap is so.
TracesAreTrue ==
  /\ "new" \in {disk.binary, service.build, seen.build} => swaps > 0
  /\ disk.record \in HelperPhases \ {"intent"} => swaps > 0
  /\ \/ helper.out \in {"restarted", "recovered_restarted"}
     \/ disk.results["apply"] \in {"restarted", "recovered_restarted"}
     => swaps > 0
  /\ \/ disk.record = "rolled_back" \/ helper.at \in {"noteback", "restartback"}
     \/ helper.out \in {"auto_rolled_back", "rolled_back"}
     \/ disk.results["apply"] \in {"auto_rolled_back", "rolled_back"}
     \/ disk.results["rollback"] \in {"auto_rolled_back", "rolled_back"}
     \/ daemon.say = "rolled_back" \/ srv.state = "rolled_back"
     => IsBack
  /\ srv.state = "succeeded" => swaps > 0

\* Until the job is ruled for good, what was swapped can be restored; then the
\* helper forgets it, and the staged artifact is gone before.
TracesAreKept ==
  /\ swaps > 0 => srv.state \in Final \/ (disk.backup /\ disk.record # None)
  /\ swaps > 0 /\ ~ disk.backup => srv.state = "failed" \/ ~ disk.staged
  /\ Due("cleanup") \/ (daemon.pc = "request" /\ daemon.ask = "cleanup")
       => srv.state \in Final /\ (srv.state = "failed" \/ ~ disk.staged)
  /\ swaps > 1 => srv.state = "failed"

\* What holds of the host as long as the daemon's journal is not lost.
HostIsConsistent ==
  /\ LeasesAreNumbered /\ DaemonIsPlaced
  /\ disk.robbed \/ (JournalsAgree /\ HelperIsPlaced /\ TracesAreTrue /\ TracesAreKept)

\* The replaced binary is swapped out once, however often the daemon asks and
\* whatever crashes in between: a leftover helper record turns an apply into
\* pure reconciliation (handleApply).  Only of a job that failed before its swap
\* may the daemon, cut off from the server and restarted, ask again while its
\* own cleanup takes that record away.
AtMostOneSwap == swaps <= 1 \/ srv.state = "failed"

\* Until the server has settled the job for good, a host on the new binary
\* keeps what a rollback needs: the backup and the root-owned record that names
\* it (consumeWithRuling, handleCleanup).
RollbackStaysPossible ==
  disk.binary = "new" /\ srv.state \notin {"succeeded", "rolled_back", "failed"}
    => disk.backup /\ disk.record # None

\* The daemon forgets a job only after a ruling that ends it: an unsettled or
\* unverified one stays in the journal (consumeWithRuling, consume), if that file
\* is not lost.
ForgottenOnlyWhenRuled ==
  [][journal # None /\ journal' = None /\ ~ disk'.robbed
       => srv.state \in {"succeeded", "rolled_back", "failed"}]_vars

\* A swap is requested only under a journal that says so, so that a crash finds
\* it again (runPreSwap saves SwapRequested before the request exists); a
\* daemon that has been told of a ruling is the subject of FollowsVerdict.
IntentBeforeRequest ==
  "apply" \in disk.pending /\ ~ daemon.told /\ ~ disk.robbed
    => journal # None /\ (journal.requested \/ journal.reconcile)

\* The swap as a whole: once, asked for under a journal that says so, and
\* undoable until the server has settled the job.
SwapsAreSafe ==
  TypeOK /\ HostIsConsistent /\ AtMostOneSwap /\ IntentBeforeRequest /\ RollbackStaysPossible

\* A job the server calls rolled back runs on the old binary, which was
\* replaced before (ruleRollback, handleRollback, autoRollback).
RolledBackIsTrue == srv.state = "rolled_back" => disk.binary = "old" /\ swaps = 1

\* A job the server calls succeeded did install the target (reconcile).
SucceededIsTrue == srv.state = "succeeded" => swaps = 1

\* What the server calls a job is what happened on the host.
OutcomesAreTrue == RolledBackIsTrue /\ SucceededIsTrue

\* Whatever fails on the way, the daemon puts every job down: it forgets it or
\* halts for the operator (Run, observeRuling).
JobIsPutDown == []<>(journal = None \/ journal.hold)

\* As far as the job's row goes, the server of this module is the one UpgradeJob
\* promises, which LocalUpgradeApi implements handler by handler.
Promise == INSTANCE UpgradeJob WITH
  Jobs   <- {"job"},
  state  <- [j \in {"job"} |-> srv.state],
  token  <- [j \in {"job"} |-> srv.token],
  pinned <- [j \in {"job"} |-> srv.pinned]

\* Every step of the host and its server is one the promise allows.
ServerKeepsPromise ==
  [][srv' # srv => Promise!Next \/ UNCHANGED Promise!board]_vars

-----------------------------------------------------------------------------
(* What the comments and the runbook say and the code does not keep *)

\* "The server already ruled this job; follow its verdict instead of mutating"
\* (reportPhase): once told of a ruling the daemon requests nothing but the
\* cleanup.
FollowsVerdict ==
  [][daemon.told => disk'.pending \ disk.pending \subseteq {"cleanup"}]_vars

\* "pin the last pre-restart heartbeat so rollback checks only accept heartbeats
\* from after the restart" (progress): the heartbeat a rolled_back ruling rests
\* on comes from an agent started after the swap point.
RollbackEvidenceIsFresh ==
  [][srv.state # "rolled_back" /\ srv'.state = "rolled_back" => seen.restarted]_vars

\* "After recovery, run vps-updater ack; confirm the server rules rolled_back
\* and the updater consumes its journal" (runbook): with the old build restored,
\* running and heard of, an acknowledged job is settled, as long as its
\* heartbeat stays fresh.
AckFinishesRecovery ==
  ( /\ journal # None /\ journal.acked
    /\ srv.state = "rollback_unverified"
    /\ disk.record = "rolled_back" /\ BaselineSeen(srv) )
  ~> (srv.state = "rolled_back" \/ ~ BaselineSeen(srv))

=============================================================================
