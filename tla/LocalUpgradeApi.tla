--------------------------- MODULE LocalUpgradeApi ---------------------------
(***************************************************************************)
(* LocalUpgradeService and its repository for one local host: what the API *)
(* server does with the administrator's createJob, the updater's claim,    *)
(* progress and result calls, the reads that reconcile, and the agent's    *)
(* heartbeats.                                                             *)
(*                                                                         *)
(* Every call is an asynchronous handler: it captures the time when it     *)
(* starts (nowMs) and gives way at every repository call.  A handler is a  *)
(* slot of `req' and each of its repository accesses is a step of its own, *)
(* so calls interleave at every await at which the job row or the agent    *)
(* state is read or written.  The repository's create and compareAndSet    *)
(* run under a file lock (a transaction in the Postgres repository) and    *)
(* are atomic.                                                             *)
(*                                                                         *)
(* Bounds: the clock stops at MaxTime, MaxCalls administrator and updater  *)
(* calls are started and MaxBeats different heartbeats are received.       *)
(***************************************************************************)
EXTENDS LocalUpgradeModels, FiniteSets

CONSTANTS
  Requests,         \* concurrent handlers
  Phases,           \* the progress phases the updater reports
  LeaseTTL,         \* LOCAL_UPGRADE_LEASE_TTL_MS
  PhaseTimeout,     \* LOCAL_UPGRADE_PHASE_TIMEOUT_MS, by state
  OverallDeadline,  \* LOCAL_UPGRADE_OVERALL_DEADLINE_MS
  FreshTTL,         \* HOST_FRESHNESS_THRESHOLD_MS
  UpdaterTTL,       \* UPDATER_HEALTH_TTL_MS
  MaxTime,
  MaxCalls,
  MaxBeats

ASSUME PolicyAssumption ==
  /\ Phases \subseteq ProgressPhases
  /\ PhaseTimeout \in [ActiveStates -> Nat]
  /\ LeaseTTL \in Nat /\ OverallDeadline \in Nat
  /\ FreshTTL \in Nat /\ UpdaterTTL \in Nat
  /\ MaxTime \in Nat /\ MaxCalls \in Nat /\ MaxBeats \in Nat

VARIABLES
  now,              \* Date.now()
  jobs,             \* the repository's rows, by id
  agent,            \* the agent state row (last heartbeat upserted)
  arriving,         \* heartbeats stamped with a time and not upserted yet
  heard,            \* history: every heartbeat ever upserted
  updaterSeen,      \* the updater's own heartbeat, None before the first
  req,              \* the handlers in flight
  calls             \* administrator and updater calls started so far

vars == <<now, jobs, agent, arriving, heard, updaterSeen, req, calls>>

-----------------------------------------------------------------------------
(* Handlers *)

Ops == {"none", "create", "claim", "progress", "result", "read"}

Pcs == {"idle", "lookup", "active", "updater", "admit", "insert",   \* createJob
        "list", "sweep", "rule",               \* reconcile
        "load", "verify", "commit"}            \* claim, progress, result

Request == [ op    : Ops,
             pc    : Pcs,
             at    : Nat,                       \* nowMs
             id    : Jobs \cup {None},          \* jobId of the call
             token : Nat,                       \* input.fencingToken
             input : Phases \cup Outcomes \cup Builds \cup {None},
             key   : Keys \cup {None},
             tries : 0 .. 2,                    \* attempt
             todo  : SUBSET JobRow,             \* rows reconcile still visits
             old   : JobRow \cup {None},        \* the row last read
             new   : JobRow \cup {None} ]       \* the row to compare-and-set

Idle == [ op |-> "none", pc |-> "idle", at |-> 0, id |-> None, token |-> 0,
          input |-> None, key |-> None, tries |-> 0, todo |-> {},
          old |-> None, new |-> None ]

\* The handler returns or throws.
Finish(r) == req' = [req EXCEPT ![r] = Idle]

Goto(r, pc) == req' = [req EXCEPT ![r].pc = pc]

Start(r, q) ==
  /\ req[r].pc = "idle"
  /\ calls < MaxCalls
  /\ calls' = calls + 1
  /\ req' = [req EXCEPT ![r] = q]

ActiveIds == {j \in Jobs : Active(jobs[j])}

-----------------------------------------------------------------------------
(* Evidence: what the agent state row proves now. *)

AfterBaseline(row) ==
  row.baseHeartbeat # None => agent.seen > row.baseHeartbeat

\* Faulty: a heartbeat from before the swap point counts.
ConfirmsTarget_AnyTime(row) ==
  agent.build = row.release /\ Fresh(agent.seen, FreshTTL, now)

\* A fresh heartbeat from after the baseline identifies the target build.
ConfirmsTarget(row) ==
  /\ agent.build = row.release
  /\ Fresh(agent.seen, FreshTTL, now)
  /\ AfterBaseline(row)

\* A fresh heartbeat from after the baseline identifies the replaced build.
ConfirmsBaseline(row) ==
  /\ row.baseHeartbeat # None
  /\ row.baseBuild # None
  /\ agent.build = row.baseBuild
  /\ Fresh(agent.seen, FreshTTL, now)
  /\ AfterBaseline(row)

-----------------------------------------------------------------------------
(* Writes *)

Settle(row, state) == [row EXCEPT !.state = state, !.revision = @ + 1]

RollbackVerdict(row) ==
  IF ConfirmsBaseline(row) THEN "rolled_back" ELSE "rollback_unverified"

\* Faulty: the updater's `failed' is taken at its word.
FailedVerdict_AsReported(row) == "failed"

\* `failed' is only accepted before the swap point.
FailedVerdict(row) ==
  IF row.state \in PostSwapStates THEN "rollback_unverified" ELSE "failed"

\* Faulty: the expected revision is not compared.
CasWins_IgnoringRevision(q) == q.old.id \in Jobs

\* Would the handler's compareAndSet succeed now?
CasWins(q) == jobs[q.old.id].revision = q.old.revision

CompareAndSet(q) ==
  jobs' = IF CasWins(q) THEN [jobs EXCEPT ![q.old.id] = q.new] ELSE jobs

-----------------------------------------------------------------------------
(* createJob *)

BeginCreate(r, b, k) ==
  /\ Start(r, [Idle EXCEPT !.op = "create", !.pc = "lookup",
                           !.input = b, !.key = k])
  /\ UNCHANGED <<now, jobs, agent, arriving, heard, updaterSeen>>

Replay(k) == k # None /\ \E j \in Jobs : jobs[j].key = k

\* One awaited lookup of createJob: its answer ends the call or lets it go on.
Consult(r, from, refused, to) ==
  /\ req[r].pc = from
  /\ IF refused THEN Finish(r) ELSE Goto(r, to)
  /\ UNCHANGED <<now, jobs, agent, arriving, heard, updaterSeen, calls>>

\* Replay of the idempotency key, then 409 on an active job, then 409 on a
\* silent updater.
CreateLookup(r) ==
  \/ Consult(r, "lookup", Replay(req[r].key), "active")
  \/ Consult(r, "active", ActiveIds # {}, "updater")
  \/ Consult(r, "updater", ~ Fresh(updaterSeen, UpdaterTTL, now), "admit")

\* The agent's build, from a fresh heartbeat, becomes the baseline.
CreateAdmit(r) ==
  /\ req[r].pc = "admit"
  /\ IF /\ Fresh(agent.seen, FreshTTL, now)
        /\ agent.build # req[r].input
     THEN \E j \in Jobs :
            /\ jobs[j].state = "absent"
            /\ \A s \in Requests \ {r} : req[s].id # j   \* a new nanoid
            /\ req' = [req EXCEPT
                 ![r].pc = "insert",
                 ![r].id = j,
                 ![r].new = [AbsentRow(j) EXCEPT
                               !.state = "queued", !.key = req[r].key,
                               !.release = req[r].input,
                               !.baseBuild = agent.build]]
     ELSE Finish(r)
  /\ UNCHANGED <<now, jobs, agent, arriving, heard, updaterSeen, calls>>

\* Faulty: only the idempotency key is unique.
InsertRejected_ByKeyOnly(k) == Replay(k)

\* Faulty: only the active job is unique.
InsertRejected_ByActiveOnly(k) == ActiveIds # {}

\* repository.create throws LocalUpgradeUniqueViolationError.
InsertRejected(k) == ActiveIds # {} \/ Replay(k)

\* The clock is read again, then repository.create inserts or rejects.
CreateInsert(r) ==
  LET q == req[r] IN
  /\ q.pc = "insert"
  /\ jobs' = IF InsertRejected(q.key) THEN jobs
             ELSE [jobs EXCEPT ![q.id] =
                    [q.new EXCEPT
                       !.phaseDeadline = now + PhaseTimeout["queued"],
                       !.deadline      = now + OverallDeadline]]
  /\ Finish(r)
  /\ UNCHANGED <<now, agent, arriving, heard, updaterSeen, calls>>

-----------------------------------------------------------------------------
(* reconcile: run by every read and at the start of claim *)

BeginRead(r) ==
  /\ req[r].pc = "idle"
  /\ req' = [req EXCEPT ![r] = [Idle EXCEPT !.op = "read", !.pc = "list",
                                            !.at = now]]
  /\ UNCHANGED <<now, jobs, agent, arriving, heard, updaterSeen, calls>>

\* Where the handler goes with rows still to visit.
NextSweep(r, rows) ==
  IF rows # {}
  THEN req' = [req EXCEPT ![r].pc = "sweep", ![r].todo = rows,
                          ![r].old = None, ![r].new = None]
  ELSE IF req[r].op = "claim"
  THEN req' = [req EXCEPT ![r].pc = "load", ![r].todo = {},
                          ![r].old = None, ![r].new = None]
  ELSE Finish(r)

\* listByVps; terminal rows are skipped.
List(r) ==
  /\ req[r].pc = "list"
  /\ NextSweep(r, {jobs[j] : j \in ActiveIds})
  /\ UNCHANGED <<now, jobs, agent, arriving, heard, updaterSeen, calls>>

\* Faulty: no deadline is ruled at or after the swap point.
Expired_PreSwapOnly(row, t) ==
  row.state \in PreSwapStates /\ (t > row.phaseDeadline \/ t > row.deadline)

Expired(row, t) == t > row.phaseDeadline \/ t > row.deadline

\* Heartbeat-confirmed success first, a missed deadline second.
Sweep(r) ==
  LET q == req[r]
      Propose(row, state) ==
        req' = [req EXCEPT ![r].pc = "rule", ![r].old = row,
                           ![r].new = Settle(row, state)]
  IN
  /\ q.pc = "sweep"
  /\ \E row \in q.todo :
       LET confirmed == /\ row.state \in {"awaiting_heartbeat", "restarting"}
                        /\ ConfirmsTarget(row)
       IN \/ confirmed /\ Propose(row, "succeeded")
          \/ /\ ~ confirmed /\ Expired(row, q.at)
             /\ Propose(row, DeadlineRuling(row.state))
          \/ /\ ~ confirmed /\ ~ Expired(row, q.at)
             /\ NextSweep(r, q.todo \ {row})
  /\ UNCHANGED <<now, jobs, agent, arriving, heard, updaterSeen, calls>>

\* commitTerminal; a lost race is left to the next read.
Rule(r) ==
  /\ req[r].pc = "rule"
  /\ CompareAndSet(req[r])
  /\ NextSweep(r, req[r].todo \ {req[r].old})
  /\ UNCHANGED <<now, agent, arriving, heard, updaterSeen, calls>>

-----------------------------------------------------------------------------
(* Updater calls: claim, progress and result *)

\* Every updater call records the updater's heartbeat with the time it started.
BeginClaim(r) ==
  /\ Start(r, [Idle EXCEPT !.op = "claim", !.pc = "list", !.at = now])
  /\ updaterSeen' = now
  /\ UNCHANGED <<now, jobs, agent, arriving, heard>>

BeginReport(r, op, j, token, input) ==
  /\ Start(r, [Idle EXCEPT !.op = op, !.pc = "load", !.at = now, !.id = j,
                           !.token = token, !.input = input])
  /\ updaterSeen' = now
  /\ UNCHANGED <<now, jobs, agent, arriving, heard>>

\* The host reports about a job it was given, under a token it was given.
BeginProgress(r) ==
  \E j \in Jobs, p \in Phases : \E t \in 1 .. jobs[j].token :
    BeginReport(r, "progress", j, t, p)

BeginResult(r) ==
  \E j \in Jobs, o \in Outcomes : \E t \in 1 .. jobs[j].token :
    BeginReport(r, "result", j, t, o)

\* Faulty: a live lease is enough, whoever owns it.
HoldsLease_AnyToken(q, row) == LeaseValid(row, q.at)

\* assertLease: the current token, and the lease unexpired when the call began.
HoldsLease(q, row) == q.token = row.token /\ LeaseValid(row, q.at)

\* claim: no active job, or one under a live lease, ends the call; the loop
\* goes on with the row it read otherwise.
LoadClaim(r) ==
  /\ req[r].pc = "load" /\ req[r].op = "claim"
  /\ \/ ActiveIds = {} /\ Finish(r)
     \/ \E j \in ActiveIds :
          IF LeaseValid(jobs[j], req[r].at)
          THEN Finish(r)
          ELSE req' = [req EXCEPT ![r].pc = "verify", ![r].old = jobs[j]]
  /\ UNCHANGED <<now, jobs, agent, arriving, heard, updaterSeen, calls>>

\* progress: job_terminal, stale_lease, or the row is taken up.
LoadProgress(r) ==
  LET q == req[r]  row == jobs[q.id] IN
  /\ q.pc = "load" /\ q.op = "progress"
  /\ IF Active(row) /\ HoldsLease(q, row)
     THEN req' = [req EXCEPT ![r].pc = "verify", ![r].old = row]
     ELSE Finish(r)
  /\ UNCHANGED <<now, jobs, agent, arriving, heard, updaterSeen, calls>>

\* A terminal row: the only one a report may still settle.
Refinable(q, row) ==
  row.state = "rollback_unverified" /\ q.input = "rolled_back"

\* result: a refinable ruling needs no lease; a replay or a conflict on any
\* other terminal row writes nothing.  `failed' and `rollback_unverified' are
\* ruled from the row alone, the other outcomes read the agent state first.
LoadResult(r) ==
  LET q == req[r]  row == jobs[q.id] IN
  /\ q.pc = "load" /\ q.op = "result"
  /\ IF ~ (Refinable(q, row) \/ (Active(row) /\ HoldsLease(q, row)))
     THEN Finish(r)
     ELSE IF q.input \in {"failed", "rollback_unverified"}
     THEN req' = [req EXCEPT ![r].pc = "commit", ![r].old = row,
                    ![r].new = Settle(row, IF q.input = "failed" THEN FailedVerdict(row)
                                           ELSE "rollback_unverified")]
     ELSE req' = [req EXCEPT ![r].pc = "verify", ![r].old = row]
  /\ UNCHANGED <<now, jobs, agent, arriving, heard, updaterSeen, calls>>

-----------------------------------------------------------------------------
(* The row each call writes, computed when the agent state is read *)

ClaimedRow(row, t) ==
  [row EXCEPT
     !.state     = IF @ = "queued" THEN "claimed" ELSE @,
     !.token     = @ + 1,
     !.lease     = t + LeaseTTL,
     !.baseBuild = IF @ = None THEN agent.build ELSE @,
     !.revision  = @ + 1]

ProgressedRow(row, phase, t) ==
  [row EXCEPT
     !.state         = phase,
     !.lease         = t + LeaseTTL,
     !.phaseDeadline = t + PhaseTimeout[phase],
     !.baseHeartbeat = IF phase # "restarting" \/ @ # None THEN @
                       ELSE IF agent.seen = None THEN t ELSE agent.seen,
     !.revision      = @ + 1]

Propose(r, row) == req' = [req EXCEPT ![r].pc = "commit", ![r].new = row]

VerifyClaim(r) ==
  /\ req[r].pc = "verify" /\ req[r].op = "claim"
  /\ Propose(r, ClaimedRow(req[r].old, req[r].at))
  /\ UNCHANGED <<now, jobs, agent, arriving, heard, updaterSeen, calls>>

VerifyProgress(r) ==
  /\ req[r].pc = "verify" /\ req[r].op = "progress"
  /\ Propose(r, ProgressedRow(req[r].old, req[r].input, req[r].at))
  /\ UNCHANGED <<now, jobs, agent, arriving, heard, updaterSeen, calls>>

\* rolled_back is ruled by the baseline's heartbeat, succeeded by the target's;
\* an unconfirmed success is answered with awaitHeartbeat.
VerifyResult(r) ==
  LET q == req[r] IN
  /\ q.pc = "verify" /\ q.op = "result"
  /\ IF q.input = "rolled_back"
     THEN Propose(r, Settle(q.old, RollbackVerdict(q.old)))
     ELSE IF ConfirmsTarget(q.old)
     THEN Propose(r, Settle(q.old, "succeeded"))
     ELSE Finish(r)
  /\ UNCHANGED <<now, jobs, agent, arriving, heard, updaterSeen, calls>>

\* compareAndSet.  A lost race starts the next of three attempts, except for a
\* refinement, which answers with whatever is stored.
Commit(r) ==
  LET q == req[r] IN
  /\ q.pc = "commit"
  /\ CompareAndSet(q)
  /\ IF CasWins(q) \/ Terminal(q.old) \/ q.tries = 2
     THEN Finish(r)
     ELSE req' = [req EXCEPT ![r].pc = "load", ![r].tries = @ + 1,
                             ![r].old = None, ![r].new = None]
  /\ UNCHANGED <<now, agent, arriving, heard, updaterSeen, calls>>

-----------------------------------------------------------------------------
(* Agent heartbeats (AgentService.ingestMetric) and time *)

\* The receipt time is stamped before the awaits that precede the upsert.
HeartbeatArrives(b) ==
  /\ Cardinality(heard \cup arriving) < MaxBeats
  /\ arriving' = arriving \cup {[build |-> b, seen |-> now]}
  /\ UNCHANGED <<now, jobs, agent, heard, updaterSeen, req, calls>>

\* upsertState: the last writer wins, whatever its stamp.
HeartbeatLands ==
  \E h \in arriving :
    /\ agent' = h
    /\ heard' = heard \cup {h}
    /\ arriving' = arriving \ {h}
    /\ UNCHANGED <<now, jobs, updaterSeen, req, calls>>

Tick ==
  /\ now < MaxTime
  /\ now' = now + 1
  /\ UNCHANGED <<jobs, agent, arriving, heard, updaterSeen, req, calls>>

-----------------------------------------------------------------------------
Init ==
  /\ now = 0
  /\ jobs = [j \in Jobs |-> AbsentRow(j)]
  /\ agent = NoHeartbeat
  /\ arriving = {}
  /\ heard = {}
  /\ updaterSeen = None
  /\ req = [r \in Requests |-> Idle]
  /\ calls = 0

\* A step of a handler already started.
Continue(r) ==
  \/ CreateLookup(r) \/ CreateAdmit(r) \/ CreateInsert(r)
  \/ List(r) \/ Sweep(r) \/ Rule(r)
  \/ LoadClaim(r) \/ LoadProgress(r) \/ LoadResult(r)
  \/ VerifyClaim(r) \/ VerifyProgress(r) \/ VerifyResult(r)
  \/ Commit(r)

Begin(r) ==
  \/ \E b \in Builds, k \in Keys \cup {None} : BeginCreate(r, b, k)
  \/ BeginRead(r) \/ BeginClaim(r) \/ BeginProgress(r) \/ BeginResult(r)

Next ==
  \/ \E r \in Requests : Begin(r) \/ Continue(r)
  \/ \E b \in Builds : HeartbeatArrives(b)
  \/ HeartbeatLands
  \/ Tick

Spec == Init /\ [][Next]_vars

\* A started handler runs on, somebody keeps reading (the updater's poll, an
\* open dashboard), and time passes.
Fairness ==
  /\ \A r \in Requests : WF_vars(Continue(r))
  /\ WF_vars(\E r \in Requests : BeginRead(r))
  /\ WF_vars(Tick)

-----------------------------------------------------------------------------
(* Properties *)

\* Every variable has its type: rows, heartbeats and handlers are the records
\* the service and the repository handle.
TypeOK ==
  /\ now \in Nat
  /\ jobs \in [Jobs -> JobRow]
  /\ \A j \in Jobs : jobs[j].id = j
  /\ agent \in Heartbeat \cup {NoHeartbeat}
  /\ arriving \subseteq Heartbeat
  /\ heard \subseteq Heartbeat
  /\ updaterSeen \in OptTime
  /\ req \in [Requests -> Request]
  /\ calls \in Nat

\* Racing createJob calls never leave the host with two upgrades in flight
\* (the lookup before repository.create is only a courtesy).
OneActiveJob == \A i, j \in ActiveIds : i = j

\* An idempotency key names one job for ever: retries of a create, racing or
\* long after the first job settled, never start a second upgrade.
KeysIdentifyJobs ==
  \A i, j \in Jobs : jobs[i].key # None /\ jobs[i].key = jobs[j].key => i = j

\* Two jobs are never confused: one is active at a time, and a key names one.
JobsAreUnique == OneActiveJob /\ KeysIdentifyJobs

\* A settled job stays as it was ruled, whatever calls that read it while it
\* was active write later; only rollback_unverified may be refined, by a
\* rollback report.
SettledForGood ==
  [][\A j \in Jobs :
       Terminal(jobs[j]) =>
         \/ jobs'[j] = jobs[j]
         \/ /\ jobs[j].state = "rollback_unverified"
            /\ jobs'[j].state \in {"rollback_unverified", "rolled_back"}]_vars

\* A lease changes hands (the fencing token moves, by one) only when it was
\* never granted or has run out, also when the owner renews it between the
\* claimant's read and its write.
LeaseProtectsOwner ==
  [][\A j \in Jobs :
       jobs'[j].token # jobs[j].token =>
         /\ jobs'[j].token = jobs[j].token + 1
         /\ jobs[j].lease = None \/ jobs[j].lease < now]_vars

\* A progress or result call that changes an active job holds the job's
\* current fencing token at the moment it writes.
ReportsAreFenced ==
  [][\A r \in Requests, j \in Jobs :
       /\ req[r].op \in {"progress", "result"}
       /\ req'[r] # req[r]
       /\ Active(jobs[j]) /\ jobs'[j] # jobs[j]
       => req[r].token = jobs[j].token]_vars

\* The pre-swap heartbeat and the replaced build, once recorded, are the ones
\* every later verification compares with, however often `restarting' is
\* reported and by how many claimants.
BaselinePinned ==
  [][\A j \in Jobs :
       /\ jobs[j].baseHeartbeat # None =>
            jobs'[j].baseHeartbeat = jobs[j].baseHeartbeat
       /\ jobs[j].baseBuild # None => jobs'[j].baseBuild = jobs[j].baseBuild]_vars

\* What a job's row promises its owner and every later verification: the lease
\* is not taken away, reports are fenced, the baseline is the first one.
RowsAreFenced == LeaseProtectsOwner /\ ReportsAreFenced /\ BaselinePinned

\* The heartbeat rules: a job is only ever succeeded when the API received a
\* heartbeat of the target build, later than the pinned one if there is one.
SuccessHasEvidence(row) ==
  row.state = "succeeded" =>
    \E h \in heard :
      /\ h.build = row.release
      /\ row.baseHeartbeat # None => h.seen > row.baseHeartbeat

\* A job is only ever rolled_back when the API received a heartbeat of the
\* replaced build later than the pinned one.
RollbackHasEvidence(row) ==
  row.state = "rolled_back" =>
    /\ row.baseHeartbeat # None
    /\ \E h \in heard : /\ h.build = row.baseBuild
                        /\ h.seen > row.baseHeartbeat

HasEvidence(row) == SuccessHasEvidence(row) /\ RollbackHasEvidence(row)

\* The verdicts on their way to a compare-and-set have it already, and what the
\* agent row shows was received.
ProposalsHaveEvidence ==
  /\ agent = NoHeartbeat \/ agent \in heard
  /\ \A r \in Requests :
       req[r].pc \in {"rule", "commit"} => HasEvidence(req[r].new)

\* A verdict rests on a heartbeat the API received, of the build it names, also
\* when it is stored long after the agent row was read.
RulingsHaveEvidence ==
  ProposalsHaveEvidence /\ \A j \in Jobs : HasEvidence(jobs[j])

\* "Heartbeat-confirmed success outruns every deadline" (the comment in
\* reconcile): no deadline is ruled against a job the stored heartbeat confirms.
HeartbeatOutrunsDeadline ==
  [][\A r \in Requests, j \in Jobs :
       /\ req[r].pc = "rule" /\ req'[r] # req[r]
       /\ jobs[j].state \in {"restarting", "awaiting_heartbeat"}
       /\ jobs'[j].state = "rollback_unverified"
       => ~ ConfirmsTarget(jobs[j])]_vars

\* The strengthening behind the proofs.  A row a handler read may be out of
\* date, but a row with the stored revision is the stored row.
Snapshot(row) ==
  /\ row.state # "absent"
  /\ row.revision <= jobs[row.id].revision
  /\ row.revision = jobs[row.id].revision => row = jobs[row.id]

\* A handler only goes on with a row its call may write.
MayWrite(q) ==
  CASE q.op = "claim"    -> Active(q.old) /\ ~ LeaseValid(q.old, q.at)
    [] q.op = "progress" -> Active(q.old) /\ HoldsLease(q, q.old)
    [] q.op = "result"   -> \/ Active(q.old) /\ HoldsLease(q, q.old)
                            \/ Refinable(q, q.old)
    [] OTHER             -> FALSE

Reads(q) ==
  /\ q.at <= now
  /\ \A row \in q.todo : Active(row) /\ Snapshot(row)
  /\ q.pc \in {"rule", "verify", "commit"} => q.old # None /\ Snapshot(q.old)
  /\ q.pc = "rule" => Active(q.old)
  /\ q.pc \in {"verify", "commit"} => MayWrite(q)

Verdicts(row) ==
  {"rollback_unverified"}
    \cup (IF Active(row) THEN {"succeeded"} ELSE {})
    \cup (IF row.state \in PreSwapStates THEN {"failed"} ELSE {})
    \cup (IF row.baseHeartbeat # None THEN {"rolled_back"} ELSE {})

\* What a handler is about to write leaves the job's identity alone and is a
\* claim, a phase or a verdict.
Writes(q) ==
  q.pc \in {"rule", "commit"} =>
    /\ q.new # None
    /\ q.new.id = q.old.id /\ q.new.key = q.old.key
    /\ q.new.release = q.old.release
    /\ q.new.revision = q.old.revision + 1
    /\ q.old.baseBuild # None => q.new.baseBuild = q.old.baseBuild
    /\ q.old.baseHeartbeat # None => q.new.baseHeartbeat = q.old.baseHeartbeat
    /\ CASE q.pc = "commit" /\ q.op = "claim" ->
              /\ q.new.state = IF q.old.state = "queued" THEN "claimed" ELSE q.old.state
              /\ q.new.token = q.old.token + 1
              /\ q.new.baseHeartbeat = q.old.baseHeartbeat
         [] q.pc = "commit" /\ q.op = "progress" ->
              /\ q.new.state = q.input
              /\ q.new.token = q.old.token
              /\ q.new.baseHeartbeat # None
                   <=> (q.old.baseHeartbeat # None \/ q.input = "restarting")
         [] OTHER ->
              /\ q.new.state \in Verdicts(q.old)
              /\ q.new.token = q.old.token
              /\ q.new.baseHeartbeat = q.old.baseHeartbeat

\* A job about to be inserted has an id of its own that no row has.
Inserts ==
  \A r \in Requests : req[r].pc = "insert" =>
    /\ req[r].id \in Jobs /\ jobs[req[r].id].state = "absent"
    /\ \A s \in Requests \ {r} : req[s].id # req[r].id
    /\ \E b \in Builds :
         req[r].new = [AbsentRow(req[r].id) EXCEPT
                         !.state = "queued", !.key = req[r].key,
                         !.release = req[r].input, !.baseBuild = b]

Kinds(q) ==
  /\ q.pc \in {"lookup", "active", "updater", "admit", "insert"} =>
       q.op = "create" /\ q.input \in Builds
  /\ q.pc \in {"list", "sweep", "rule"} => q.op \in {"read", "claim"}
  /\ q.pc \in {"load", "verify", "commit"} => q.op \in {"claim", "progress", "result"}
  /\ q.op = "progress" => q.input \in Phases
  /\ q.op = "result" => q.input \in Outcomes
  /\ q.op \in {"progress", "result"} => /\ q.id \in Jobs /\ q.token > 0
                                       /\ jobs[q.id].state # "absent"

\* Between its awaits every handler holds what it needs to write safely: rows
\* that are stored rows or outdated ones, proposals its call may make, and new
\* ids nobody else holds.
HandlersConsistent ==
  /\ \A j \in Jobs : jobs[j].state = "absent" => jobs[j] = AbsentRow(j)
  /\ \A r \in Requests : Kinds(req[r]) /\ Reads(req[r]) /\ Writes(req[r])
  /\ Inserts

\* The inductive invariant: the types, and what every handler holds.
IInv == TypeOK /\ HandlersConsistent

\* Every upgrade comes to a verdict, whoever has stopped reporting: with the
\* updater gone, a read after the deadline settles the job.  (Jobs whose
\* deadline lies beyond the model's clock are excluded.)
EveryJobSettles ==
  \A j \in Jobs :
    (Active(jobs[j]) /\ jobs[j].deadline < MaxTime) ~> Terminal(jobs[j])

\* The racing handlers implement the one-step promise of UpgradeJob.
Promise == INSTANCE UpgradeJob WITH
  state  <- [j \in Jobs |-> jobs[j].state],
  token  <- [j \in Jobs |-> jobs[j].token],
  pinned <- [j \in Jobs |-> jobs[j].baseHeartbeat # None]

\* The refinement as a property: every step is a step of the promise or leaves
\* the board alone, and the promise's start is the service's start.
KeepsPromise == Promise!Spec

=============================================================================
