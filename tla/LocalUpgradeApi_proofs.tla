----------------------- MODULE LocalUpgradeApi_proofs -----------------------
(***************************************************************************)
(* Theorems about LocalUpgradeApi, for every number of handlers, jobs,     *)
(* calls and heartbeats and every timing policy.  The inductive invariant  *)
(* IInv is TypeOK and HandlersConsistent, which says what a handler still  *)
(* knows at each of its awaits; everything else follows from it.           *)
(***************************************************************************)
EXTENDS MCLocalUpgradeApi, TLAPS

-----------------------------------------------------------------------------
(* The rows the service writes are rows. *)

\* A ruling writes a row of the same job with the next revision.
LEMMA SettleRow ==
  ASSUME NEW row \in JobRow, NEW v \in TerminalStates
  PROVE  /\ Settle(row, v) \in JobRow
         /\ Settle(row, v) = [row EXCEPT !.state = v, !.revision = row.revision + 1]
         /\ Settle(row, v).id = row.id
         /\ Settle(row, v).key = row.key
         /\ Settle(row, v).release = row.release
         /\ Settle(row, v).baseBuild = row.baseBuild
         /\ Settle(row, v).baseHeartbeat = row.baseHeartbeat
         /\ Settle(row, v).token = row.token
         /\ Settle(row, v).state = v
         /\ Settle(row, v).revision = row.revision + 1
<1>1. v \in JobStates
  BY DEF JobStates
<1>2. row.revision + 1 \in Nat
  BY DEF JobRow
<1>3. Settle(row, v) = [row EXCEPT !.state = v, !.revision = row.revision + 1]
  BY DEF Settle
<1>4. Settle(row, v) \in JobRow
  BY <1>1, <1>2, <1>3 DEF JobRow
<1> QED
  BY <1>3, <1>4 DEF JobRow

\* A claim writes a row of the same job with the next token and revision.
LEMMA ClaimRow ==
  ASSUME NEW row \in JobRow, row.state # "absent", NEW t \in Nat,
         agent \in Heartbeat \cup {NoHeartbeat}
  PROVE  /\ ClaimedRow(row, t) \in JobRow
         /\ ClaimedRow(row, t).id = row.id
         /\ ClaimedRow(row, t).key = row.key
         /\ ClaimedRow(row, t).release = row.release
         /\ ClaimedRow(row, t).baseHeartbeat = row.baseHeartbeat
         /\ row.baseBuild # None => ClaimedRow(row, t).baseBuild = row.baseBuild
         /\ ClaimedRow(row, t).token = row.token + 1
         /\ ClaimedRow(row, t).revision = row.revision + 1
         /\ ClaimedRow(row, t).state = IF row.state = "queued" THEN "claimed" ELSE row.state
<1>1. agent.build \in OptBuild
  BY DEF Heartbeat, NoHeartbeat, OptBuild
<1>2. t + LeaseTTL \in OptTime
  BY PolicyAssumption DEF OptTime
<1> DEFINE st == IF row.state = "queued" THEN "claimed" ELSE row.state
           bb == IF row.baseBuild = None THEN agent.build ELSE row.baseBuild
<1>3. st \in JobStates
  BY DEF JobRow, JobStates, ActiveStates, PreSwapStates
<1>4. bb \in OptBuild
  BY <1>1 DEF JobRow
<1>5. row.token + 1 \in Nat /\ row.revision + 1 \in Nat
  BY DEF JobRow
<1>6. ClaimedRow(row, t) =
        [row EXCEPT !.state = st, !.token = row.token + 1, !.lease = t + LeaseTTL,
                    !.baseBuild = bb, !.revision = row.revision + 1]
  BY DEF ClaimedRow
<1> HIDE DEF st, bb
<1>7. ClaimedRow(row, t) \in JobRow
  BY <1>2, <1>3, <1>4, <1>5, <1>6 DEF JobRow
<1>8. /\ ClaimedRow(row, t).baseBuild = bb
      /\ ClaimedRow(row, t).state = st
  BY <1>6, <1>7 DEF JobRow
<1>9. row.baseBuild # None => bb = row.baseBuild
  BY DEF bb
<1> QED
  BY <1>6, <1>7, <1>8, <1>9 DEF JobRow, st

\* A progress report writes a row of the same job, in the reported phase.
LEMMA ProgressRow ==
  ASSUME NEW row \in JobRow, NEW p \in Phases, NEW t \in Nat,
         agent \in Heartbeat \cup {NoHeartbeat}
  PROVE  /\ ProgressedRow(row, p, t) \in JobRow
         /\ ProgressedRow(row, p, t).id = row.id
         /\ ProgressedRow(row, p, t).key = row.key
         /\ ProgressedRow(row, p, t).release = row.release
         /\ ProgressedRow(row, p, t).baseBuild = row.baseBuild
         /\ ProgressedRow(row, p, t).token = row.token
         /\ ProgressedRow(row, p, t).revision = row.revision + 1
         /\ ProgressedRow(row, p, t).state = p
         /\ row.baseHeartbeat # None =>
              ProgressedRow(row, p, t).baseHeartbeat = row.baseHeartbeat
         /\ ProgressedRow(row, p, t).baseHeartbeat # None
              <=> (row.baseHeartbeat # None \/ p = "restarting")
<1>1. agent.seen \in OptTime
  BY DEF Heartbeat, NoHeartbeat, OptTime
<1>2. t + LeaseTTL \in OptTime /\ t \in OptTime /\ t # None
  BY PolicyAssumption, NoneAssumption DEF OptTime
<1>3. p \in ActiveStates /\ p \in JobStates
  BY PolicyAssumption DEF ProgressPhases, ActiveStates, JobStates, PreSwapStates
<1>4. t + PhaseTimeout[p] \in Nat
  BY <1>3, PolicyAssumption
<1> DEFINE bh == IF p # "restarting" \/ row.baseHeartbeat # None
                 THEN row.baseHeartbeat
                 ELSE IF agent.seen = None THEN t ELSE agent.seen
<1>5. /\ bh \in OptTime
      /\ row.baseHeartbeat # None => bh = row.baseHeartbeat
      /\ bh # None <=> (row.baseHeartbeat # None \/ p = "restarting")
  BY <1>1, <1>2 DEF JobRow
<1>6. ProgressedRow(row, p, t) =
        [row EXCEPT !.state = p, !.lease = t + LeaseTTL,
                    !.phaseDeadline = t + PhaseTimeout[p],
                    !.baseHeartbeat = bh, !.revision = row.revision + 1]
  BY DEF ProgressedRow
<1> HIDE DEF bh
<1>7. row.revision + 1 \in Nat
  BY DEF JobRow
<1>8. ProgressedRow(row, p, t) \in JobRow
  BY <1>2, <1>3, <1>4, <1>5, <1>6, <1>7 DEF JobRow
<1>9. ProgressedRow(row, p, t).baseHeartbeat = bh
  BY <1>6, <1>8 DEF JobRow
<1> QED
  BY <1>5, <1>6, <1>8, <1>9 DEF JobRow

-----------------------------------------------------------------------------
(* How the rows evolve *)

\* In one step a row stays, appears, or gets a higher revision.
Evolve ==
  /\ \A j \in Jobs : \/ jobs'[j] = jobs[j]
                     \/ jobs[j].state = "absent"
                     \/ jobs'[j].revision > jobs[j].revision
  /\ \A j \in Jobs : jobs'[j].state = "absent" => jobs[j].state = "absent"
  /\ now' >= now

\* A snapshot stays one, however the rows evolve.
LEMMA SnapshotStays ==
  ASSUME TypeOK, HandlersConsistent, TypeOK', Evolve,
         NEW row \in JobRow, Snapshot(row)
  PROVE  Snapshot(row)'
<1>1. row.id \in Jobs /\ row.revision \in Nat
  BY DEF JobRow
<1>2. jobs[row.id].revision \in Nat /\ jobs'[row.id].revision \in Nat
  BY <1>1 DEF TypeOK, JobRow
<1>3. CASE jobs'[row.id] = jobs[row.id]
  BY <1>3 DEF Snapshot
<1>4. CASE jobs[row.id].state = "absent"
  <2>1. jobs[row.id] = AbsentRow(row.id)
    BY <1>1, <1>4 DEF HandlersConsistent
  <2>2. row.revision = jobs[row.id].revision
    BY <2>1, <1>1, <1>2 DEF Snapshot, AbsentRow
  <2> QED
    BY <2>2, <1>4 DEF Snapshot
<1>5. CASE jobs'[row.id].revision > jobs[row.id].revision
  BY <1>5, <1>1, <1>2 DEF Snapshot
<1> QED
  BY <1>1, <1>3, <1>4, <1>5 DEF Evolve

\* A handler that does not move stays consistent.
LEMMA HandlerStays ==
  ASSUME TypeOK, HandlersConsistent, TypeOK', Evolve,
         NEW r \in Requests, req'[r] = req[r]
  PROVE  /\ Kinds(req[r])'
         /\ Reads(req[r])'
         /\ Writes(req[r])'
<1> DEFINE q == req[r]
<1>1. q \in Request /\ Kinds(q) /\ Reads(q) /\ Writes(q)
  BY DEF TypeOK, HandlersConsistent
<1>2. now \in Nat /\ now' \in Nat /\ q.at \in Nat
  BY <1>1 DEF TypeOK, Request
<1>3. Kinds(req[r])'
  BY <1>1 DEF Kinds, Evolve
<1>4. \A row \in q.todo : Snapshot(row)'
  <2> SUFFICES ASSUME NEW row \in q.todo PROVE Snapshot(row)'
    OBVIOUS
  <2> row \in JobRow /\ Snapshot(row)
    BY <1>1 DEF Reads, Request
  <2> QED
    BY SnapshotStays
<1>5. q.pc \in {"rule", "verify", "commit"} => Snapshot(q.old)'
  <2> SUFFICES ASSUME q.pc \in {"rule", "verify", "commit"} PROVE Snapshot(q.old)'
    OBVIOUS
  <2> q.old \in JobRow /\ Snapshot(q.old)
    BY <1>1 DEF Reads, Request
  <2> QED
    BY SnapshotStays
<1>6. MayWrite(q) => MayWrite(req[r])'
  BY DEF MayWrite, Active, LeaseValid, HoldsLease, Refinable
<1>7. Reads(req[r])'
  BY <1>1, <1>2, <1>4, <1>5, <1>6 DEF Reads, Evolve, Active, Snapshot
<1>8. Writes(req[r])'
  BY <1>1 DEF Writes, Verdicts, Active
<1> QED
  BY <1>3, <1>7, <1>8

\* Consistency after a step follows from what happens to the handler that moves.
LEMMA Frame ==
  ASSUME IInv, TypeOK', Evolve, NEW r \in Requests,
         \A s \in Requests \ {r} : req'[s] = req[s],
         \A j \in Jobs : jobs'[j].state = "absent" => jobs'[j] = jobs[j],
         \A s \in Requests \ {r} : req[s].pc = "insert" =>
            jobs'[req[s].id].state = "absent" /\ req'[r].id # req[s].id,
         req'[r].pc # "insert",
         Kinds(req[r])', Reads(req[r])', Writes(req[r])'
  PROVE  IInv'
<1>1. TypeOK /\ HandlersConsistent
  BY DEF IInv
<1>2. \A j \in Jobs : jobs'[j].state = "absent" => jobs'[j] = AbsentRow(j)
  BY <1>1 DEF HandlersConsistent
<1>3. ASSUME NEW s \in Requests
      PROVE  (Kinds(req[s]) /\ Reads(req[s]) /\ Writes(req[s]))'
  <2>1. CASE s = r
    BY <2>1
  <2>2. CASE s # r
    <3>1. req'[s] = req[s]
      BY <2>2
    <3> QED
      BY <3>1, <1>1, HandlerStays
  <2> QED
    BY <2>1, <2>2
<1>4. Inserts'
  <2> SUFFICES ASSUME NEW s \in Requests, req'[s].pc = "insert"
               PROVE  /\ req'[s].id \in Jobs /\ jobs'[req'[s].id].state = "absent"
                      /\ \A u \in Requests \ {s} : req'[u].id # req'[s].id
                      /\ \E b \in Builds :
                           req'[s].new = [AbsentRow(req'[s].id) EXCEPT
                             !.state = "queued", !.key = req'[s].key,
                             !.release = req'[s].input, !.baseBuild = b]
    BY DEF Inserts
  <2>1. s # r /\ req'[s] = req[s] /\ req[s].pc = "insert"
    OBVIOUS
  <2>2. /\ req[s].id \in Jobs
        /\ \A u \in Requests \ {s} : req[u].id # req[s].id
        /\ \E b \in Builds :
             req[s].new = [AbsentRow(req[s].id) EXCEPT
               !.state = "queued", !.key = req[s].key,
               !.release = req[s].input, !.baseBuild = b]
    BY <2>1, <1>1 DEF HandlersConsistent, Inserts
  <2>3. jobs'[req[s].id].state = "absent" /\ req'[r].id # req[s].id
    BY <2>1
  <2>4. \A u \in Requests \ {s} : req'[u].id # req[s].id
    BY <2>2, <2>3
  <2> QED
    BY <2>1, <2>2, <2>3, <2>4
<1> QED
  BY <1>2, <1>3, <1>4 DEF IInv, HandlersConsistent

\* The same for a step that writes no row.
LEMMA QuietStep ==
  ASSUME IInv, NEW r \in Requests, NEW q \in Request,
         req' = [req EXCEPT ![r] = q],
         UNCHANGED <<now, jobs, agent, arriving, heard>>,
         updaterSeen' \in OptTime, calls' \in Nat,
         q.pc # "insert",
         \/ q.id = req[r].id
         \/ q.id = None
         \/ q.id \in Jobs /\ jobs[q.id].state # "absent",
         Kinds(q), Reads(q), Writes(q)
  PROVE  IInv'
<1>1. TypeOK /\ HandlersConsistent
  BY DEF IInv
<1>2. TypeOK'
  BY <1>1 DEF TypeOK
<1>3. Evolve
  BY <1>1 DEF Evolve, TypeOK
<1>4. req'[r] = q /\ \A s \in Requests \ {r} : req'[s] = req[s]
  BY <1>1 DEF TypeOK
<1>5. (Kinds(req[r]) /\ Reads(req[r]) /\ Writes(req[r]))'
  <2>1. Kinds(req[r])'
    BY <1>4 DEF Kinds
  <2>2. Reads(req[r])'
    BY <1>4 DEF Reads, Snapshot, MayWrite, HoldsLease, LeaseValid, Refinable, Active
  <2>3. Writes(req[r])'
    BY <1>4 DEF Writes, Verdicts, Active
  <2> QED
    BY <2>1, <2>2, <2>3
<1>6. \A s \in Requests \ {r} : req[s].pc = "insert" =>
        jobs'[req[s].id].state = "absent" /\ req'[r].id # req[s].id
  <2> SUFFICES ASSUME NEW s \in Requests \ {r}, req[s].pc = "insert"
               PROVE  jobs'[req[s].id].state = "absent" /\ req'[r].id # req[s].id
    OBVIOUS
  <2>1. /\ req[s].id \in Jobs /\ jobs[req[s].id].state = "absent"
        /\ req[r].id # req[s].id
    BY <1>1 DEF HandlersConsistent, Inserts
  <2>2. q.id # req[s].id
    BY <2>1, NoneAssumption
  <2> QED
    BY <1>4, <2>1, <2>2
<1> QED
  BY <1>2, <1>3, <1>4, <1>5, <1>6, Frame

\* An idle slot is a handler record.
LEMMA IdleRequest == Idle \in Request
BY DEF Idle, Request, Ops, Pcs

\* Finishing a call is such a step.
LEMMA FinishStep ==
  ASSUME IInv, NEW r \in Requests, Finish(r),
         UNCHANGED <<now, jobs, agent, arriving, heard, updaterSeen, calls>>
  PROVE  IInv'
<1>1. Idle \in Request
  BY IdleRequest
<1>2. Kinds(Idle) /\ Writes(Idle)
  BY DEF Kinds, Writes, Idle
<1>3. Reads(Idle)
  BY DEF Reads, Idle, IInv, TypeOK
<1>4. Idle.pc # "insert" /\ Idle.id = None
  BY DEF Idle
<1>5. updaterSeen' \in OptTime /\ calls' \in Nat
  BY DEF IInv, TypeOK
<1>6. req' = [req EXCEPT ![r] = Idle]
  BY DEF Finish
<1>7. UNCHANGED <<now, jobs, agent, arriving, heard>>
  OBVIOUS
<1> HIDE DEF Idle
<1> QED
  BY <1>1, <1>2, <1>3, <1>4, <1>5, <1>6, <1>7, QuietStep
-----------------------------------------------------------------------------
(* One lemma per action *)

\* Starting any call leaves every job alone and a handler with nothing to write.
LEMMA BeginStep ==
  ASSUME IInv, NEW r \in Requests, Begin(r)
  PROVE  IInv'
<1> USE DEF IInv
<1>1. /\ TypeOK /\ now \in Nat /\ calls \in Nat /\ updaterSeen \in OptTime
      /\ calls + 1 \in Nat /\ now \in OptTime
  BY DEF TypeOK, OptTime
<1>2. ASSUME NEW b \in Builds, NEW k \in Keys \cup {None}, BeginCreate(r, b, k)
      PROVE  IInv'
  <2> DEFINE q == [Idle EXCEPT !.op = "create", !.pc = "lookup", !.input = b, !.key = k]
  <2>1. q \in Request
    BY IdleRequest DEF Request, Ops, Pcs
  <2>2. q.pc = "lookup" /\ q.op = "create" /\ q.id = None /\ q.input = b
        /\ q.at = 0 /\ q.todo = {}
    BY DEF Idle
  <2>3. req' = [req EXCEPT ![r] = q] /\ calls' = calls + 1
    BY <1>2 DEF BeginCreate, Start
  <2>4. UNCHANGED <<now, jobs, agent, arriving, heard>> /\ updaterSeen' = updaterSeen
    BY <1>2 DEF BeginCreate
  <2> HIDE DEF q
  <2>5. Kinds(q) /\ Reads(q) /\ Writes(q)
    BY <1>1, <2>2 DEF Kinds, Reads, Writes
  <2> QED
    BY <1>1, <2>1, <2>2, <2>3, <2>4, <2>5, QuietStep
<1>3. ASSUME BeginRead(r)
      PROVE  IInv'
  <2> DEFINE q == [Idle EXCEPT !.op = "read", !.pc = "list", !.at = now]
  <2>1. q \in Request
    BY <1>1, IdleRequest DEF Request, Ops, Pcs
  <2>2. q.pc = "list" /\ q.op = "read" /\ q.id = None /\ q.at = now /\ q.todo = {}
    BY DEF Idle
  <2>3. req' = [req EXCEPT ![r] = q]
    BY <1>3 DEF BeginRead
  <2>4. /\ UNCHANGED <<now, jobs, agent, arriving, heard>>
        /\ updaterSeen' = updaterSeen /\ calls' = calls
    BY <1>3 DEF BeginRead
  <2> HIDE DEF q
  <2>5. Kinds(q) /\ Reads(q) /\ Writes(q)
    BY <1>1, <2>2 DEF Kinds, Reads, Writes
  <2> QED
    BY <1>1, <2>1, <2>2, <2>3, <2>4, <2>5, QuietStep
<1>4. ASSUME BeginClaim(r)
      PROVE  IInv'
  <2> DEFINE q == [Idle EXCEPT !.op = "claim", !.pc = "list", !.at = now]
  <2>1. q \in Request
    BY <1>1, IdleRequest DEF Request, Ops, Pcs
  <2>2. q.pc = "list" /\ q.op = "claim" /\ q.id = None /\ q.at = now /\ q.todo = {}
    BY DEF Idle
  <2>3. req' = [req EXCEPT ![r] = q] /\ calls' = calls + 1
    BY <1>4 DEF BeginClaim, Start
  <2>4. UNCHANGED <<now, jobs, agent, arriving, heard>> /\ updaterSeen' = now
    BY <1>4 DEF BeginClaim
  <2> HIDE DEF q
  <2>5. Kinds(q) /\ Reads(q) /\ Writes(q)
    BY <1>1, <2>2 DEF Kinds, Reads, Writes
  <2> QED
    BY <1>1, <2>1, <2>2, <2>3, <2>4, <2>5, QuietStep
<1>5. ASSUME NEW op \in {"progress", "result"}, NEW j \in Jobs,
             NEW input \in Phases \cup Outcomes,
             NEW t \in 1 .. jobs[j].token,
             op = "progress" => input \in Phases,
             op = "result" => input \in Outcomes,
             BeginReport(r, op, j, t, input)
      PROVE  IInv'
  <2> DEFINE q == [Idle EXCEPT !.op = op, !.pc = "load", !.at = now, !.id = j,
                               !.token = t, !.input = input]
  <2>1. jobs[j].token \in Nat /\ t \in Nat /\ t > 0 /\ jobs[j].token > 0
    BY <1>1 DEF TypeOK, JobRow
  <2>2. q \in Request
    BY <1>1, <2>1, IdleRequest DEF Request, Ops, Pcs
  <2>3. q.pc = "load" /\ q.op = op /\ q.id = j /\ q.at = now /\ q.todo = {}
        /\ q.token = t /\ q.input = input
    BY DEF Idle
  <2>4. req' = [req EXCEPT ![r] = q] /\ calls' = calls + 1
    BY <1>5 DEF BeginReport, Start
  <2>5. UNCHANGED <<now, jobs, agent, arriving, heard>> /\ updaterSeen' = now
    BY <1>5 DEF BeginReport
  <2>6. jobs[j].state # "absent"
    <3>1. jobs[j].state = "absent" => jobs[j] = AbsentRow(j)
      BY DEF HandlersConsistent
    <3>2. AbsentRow(j).token = 0
      BY DEF AbsentRow
    <3> QED
      BY <2>1, <3>1, <3>2
  <2> HIDE DEF q
  <2>7. Kinds(q) /\ Reads(q) /\ Writes(q)
    BY <1>1, <1>5, <2>1, <2>3, <2>6 DEF Kinds, Reads, Writes
  <2> QED
    BY <1>1, <2>2, <2>3, <2>4, <2>5, <2>6, <2>7, QuietStep
<1>6. ASSUME BeginProgress(r) PROVE IInv'
  BY <1>5, <1>6 DEF BeginProgress
<1>7. ASSUME BeginResult(r) PROVE IInv'
  BY <1>5, <1>7 DEF BeginResult
<1> QED
  BY <1>2, <1>3, <1>4, <1>6, <1>7 DEF Begin

\* One lookup of createJob writes no job.
LEMMA ConsultStep ==
  ASSUME IInv, NEW r \in Requests, NEW from \in {"lookup", "active", "updater"}, NEW refused,
         NEW to \in {"active", "updater", "admit"}, Consult(r, from, refused, to)
  PROVE  IInv'
<1> DEFINE q == [req[r] EXCEPT !.pc = to]
<1>1. TypeOK /\ req[r] \in Request /\ Kinds(req[r]) /\ Reads(req[r])
  BY DEF IInv, TypeOK, HandlersConsistent
<1>2. /\ UNCHANGED <<now, jobs, agent, arriving, heard>>
      /\ updaterSeen' = updaterSeen /\ calls' = calls /\ req[r].pc = from
  BY DEF Consult
<1>3. Finish(r) \/ req' = [req EXCEPT ![r] = q]
  BY <1>1 DEF Consult, Goto, TypeOK
<1>4. q \in Request /\ q.pc = to /\ q.id = req[r].id
  BY <1>1 DEF Request, Pcs
<1>5. Kinds(q) /\ Reads(q) /\ Writes(q)
  BY <1>1, <1>2 DEF Kinds, Reads, Writes, Request
<1>6. updaterSeen \in OptTime /\ calls \in Nat
  BY <1>1 DEF TypeOK
<1> HIDE DEF q
<1>7. CASE Finish(r)
  BY <1>2, <1>7, FinishStep
<1>8. CASE req' = [req EXCEPT ![r] = q]
  BY <1>2, <1>4, <1>5, <1>6, <1>8, QuietStep
<1> QED
  BY <1>3, <1>7, <1>8

\* createJob's courtesy lookups write no job.
LEMMA CreateLookupStep ==
  ASSUME IInv, NEW r \in Requests, CreateLookup(r)
  PROVE  IInv'
BY ConsultStep DEF CreateLookup

\* createJob draws an id nobody holds and prepares a queued row under it.
LEMMA CreateAdmitStep ==
  ASSUME IInv, NEW r \in Requests, CreateAdmit(r)
  PROVE  IInv'
<1>1. /\ TypeOK /\ req[r] \in Request /\ Kinds(req[r]) /\ Reads(req[r])
      /\ HandlersConsistent
  BY DEF IInv, TypeOK, HandlersConsistent
<1>2. /\ UNCHANGED <<now, jobs, agent, arriving, heard>>
      /\ updaterSeen' = updaterSeen /\ calls' = calls /\ req[r].pc = "admit"
  BY DEF CreateAdmit
<1>3. CASE Finish(r)
  BY <1>2, <1>3, FinishStep
<1>4. CASE ~ Finish(r)
  <2>1. PICK j \in Jobs :
          /\ Fresh(agent.seen, FreshTTL, now)
          /\ jobs[j].state = "absent"
          /\ \A s \in Requests \ {r} : req[s].id # j
          /\ req' = [req EXCEPT
               ![r].pc = "insert", ![r].id = j,
               ![r].new = [AbsentRow(j) EXCEPT
                             !.state = "queued", !.key = req[r].key,
                             !.release = req[r].input,
                             !.baseBuild = agent.build]]
    BY <1>4 DEF CreateAdmit
  <2> DEFINE row == [AbsentRow(j) EXCEPT
                       !.state = "queued", !.key = req[r].key,
                       !.release = req[r].input, !.baseBuild = agent.build]
             q == [req[r] EXCEPT !.pc = "insert", !.id = j, !.new = row]
  <2>2. agent.build \in Builds
    BY <1>1, <2>1 DEF Fresh, TypeOK, Heartbeat, NoHeartbeat
  <2>3. req[r].input \in Builds /\ req[r].key \in Keys \cup {None}
    BY <1>1, <1>2 DEF Kinds, Request
  <2>4. AbsentRow(j) \in JobRow
    BY DEF AbsentRow, JobRow, JobStates, OptBuild, OptTime
  <2>5. row \in JobRow
    BY <2>2, <2>3, <2>4 DEF JobRow, JobStates, ActiveStates, PreSwapStates, OptBuild
  <2>6. req' = [req EXCEPT ![r] = q]
    BY <1>1, <2>1 DEF TypeOK
  <2>7. /\ q \in Request /\ q.pc = "insert" /\ q.id = j /\ q.new = row
        /\ q.op = req[r].op /\ q.input = req[r].input /\ q.key = req[r].key
        /\ q.at = req[r].at /\ q.todo = req[r].todo
    BY <1>1, <2>5 DEF Request, Pcs
  <2>8. \E b \in Builds : row = [AbsentRow(j) EXCEPT
                       !.state = "queued", !.key = q.key,
                       !.release = q.input, !.baseBuild = b]
    BY <2>2, <2>7
  <2> HIDE DEF q, row
  <2>9. req'[r] = q /\ \A s \in Requests \ {r} : req'[s] = req[s]
    BY <1>1, <2>6 DEF TypeOK
  <2>10. TypeOK'
    BY <1>1, <1>2, <2>6, <2>7 DEF TypeOK
  <2>11. Evolve
    BY <1>1, <1>2 DEF Evolve, TypeOK
  <2>12. ASSUME NEW s \in Requests
         PROVE  (Kinds(req[s]) /\ Reads(req[s]) /\ Writes(req[s]))'
    <3>1. CASE s = r
      <4>1. Kinds(q) /\ Reads(q) /\ Writes(q)
        BY <1>1, <1>2, <2>7 DEF Kinds, Reads, Writes
      <4>2. Kinds(req[s])'
        BY <3>1, <4>1, <2>9, <1>2 DEF Kinds
      <4>3. Reads(req[s])'
        <5>1. q.at <= now' /\ \A w \in q.todo : Active(w) /\ Snapshot(w)'
          BY <4>1, <1>2 DEF Reads, Snapshot
        <5>2. req'[r] = q /\ q.pc = "insert"
          BY <2>7, <2>9
        <5>3. Reads(req[r])'
          BY <5>1, <5>2 DEF Reads
        <5> QED
          BY <3>1, <5>3
      <4>4. Writes(req[s])'
        BY <3>1, <4>1, <2>7, <2>9 DEF Writes
      <4> QED
        BY <4>2, <4>3, <4>4
    <3>2. CASE s # r
      <4>1. req'[s] = req[s]
        BY <2>9, <3>2
      <4> QED
        BY <4>1, <1>1, <2>10, <2>11, HandlerStays
    <3> QED
      BY <3>1, <3>2
  <2>13. Inserts'
    <3>1. ASSUME NEW s \in Requests, req'[s].pc = "insert"
          PROVE  /\ req'[s].id \in Jobs /\ jobs'[req'[s].id].state = "absent"
                 /\ \A u \in Requests \ {s} : req'[u].id # req'[s].id
                 /\ \E b \in Builds :
                      req'[s].new = [AbsentRow(req'[s].id) EXCEPT
                        !.state = "queued", !.key = req'[s].key,
                        !.release = req'[s].input, !.baseBuild = b]
      <4>1. CASE s = r
        <5>1. req'[s] = q /\ q.id = j /\ q.new = row
          BY <4>1, <2>7, <2>9
        <5>2. \E b \in Builds :
                req'[s].new = [AbsentRow(req'[s].id) EXCEPT
                  !.state = "queued", !.key = req'[s].key,
                  !.release = req'[s].input, !.baseBuild = b]
          BY <5>1, <2>8
        <5>3. jobs'[j].state = "absent"
          BY <1>2, <2>1
        <5>4. \A u \in Requests \ {s} : req'[u].id # j
          BY <4>1, <2>1, <2>9
        <5> QED
          BY <5>1, <5>2, <5>3, <5>4
      <4>2. CASE s # r
        <5>1. req'[s] = req[s] /\ req[s].pc = "insert"
          BY <2>9, <3>1, <4>2
        <5>2. /\ req[s].id \in Jobs /\ jobs[req[s].id].state = "absent"
              /\ \A u \in Requests \ {s} : req[u].id # req[s].id
              /\ \E b \in Builds :
                   req[s].new = [AbsentRow(req[s].id) EXCEPT
                     !.state = "queued", !.key = req[s].key,
                     !.release = req[s].input, !.baseBuild = b]
          BY <1>1, <5>1 DEF HandlersConsistent, Inserts
        <5>3. req[s].id # j
          BY <2>1, <4>2
        <5>4. \A u \in Requests \ {s} : req'[u].id # req[s].id
          BY <5>2, <5>3, <2>7, <2>9
        <5> QED
          BY <5>1, <5>2, <5>4, <1>2
      <4> QED
        BY <4>1, <4>2
    <3> QED
      BY <3>1 DEF Inserts
  <2>14. \A i \in Jobs : jobs'[i].state = "absent" => jobs'[i] = AbsentRow(i)
    BY <1>1, <1>2 DEF HandlersConsistent
  <2> QED
    BY <2>10, <2>12, <2>13, <2>14 DEF IInv, HandlersConsistent
<1> QED
  BY <1>3, <1>4

\* Where the sweep goes next is consistent when the rows left are live snapshots.
LEMMA NextSweepHandler ==
  ASSUME IInv, NEW r \in Requests, req[r].pc \in {"list", "sweep", "rule"},
         NEW rows \in SUBSET JobRow, NextSweep(r, rows),
         \A row \in rows : Active(row) /\ Snapshot(row)',
         now' \in Nat, now' >= now
  PROVE  /\ req' \in [Requests -> Request]
         /\ \A s \in Requests \ {r} : req'[s] = req[s]
         /\ req'[r].pc # "insert"
         /\ req'[r].id \in {req[r].id, None}
         /\ (Kinds(req[r]) /\ Reads(req[r]) /\ Writes(req[r]))'
<1>1. /\ TypeOK /\ req[r] \in Request /\ Kinds(req[r]) /\ Reads(req[r])
      /\ now \in Nat /\ req[r].at \in Nat
  BY DEF IInv, TypeOK, HandlersConsistent, Request
<1>2. req[r].op \in {"read", "claim"} /\ req[r].at <= now'
  BY <1>1 DEF Kinds, Reads
<1> DEFINE q(pc) == [req[r] EXCEPT !.pc = pc, !.todo = rows, !.old = None, !.new = None]
<1>3. PICK pc \in {"idle", "sweep", "load"} :
        /\ req' = [req EXCEPT ![r] = IF pc = "idle" THEN Idle ELSE q(pc)]
        /\ pc = "load" => req[r].op = "claim"
  <2>1. CASE rows # {}
    BY <1>1, <2>1 DEF NextSweep, TypeOK
  <2>2. CASE rows = {} /\ req[r].op = "claim"
    BY <1>1, <2>2 DEF NextSweep, TypeOK
  <2>3. CASE rows = {} /\ req[r].op # "claim"
    BY <1>1, <2>3 DEF NextSweep, TypeOK, Finish
  <2> QED
    BY <2>1, <2>2, <2>3
<1>4. CASE pc = "idle"
  <2>1. req' = [req EXCEPT ![r] = Idle]
    BY <1>3, <1>4
  <2>2. req' \in [Requests -> Request] /\ req'[r] = Idle
        /\ \A s \in Requests \ {r} : req'[s] = req[s]
    BY <1>1, <2>1, IdleRequest DEF TypeOK
  <2>3. /\ Idle.pc = "idle" /\ Idle.id = None /\ Idle.op = "none"
        /\ Idle.at = 0 /\ Idle.todo = {}
    BY DEF Idle
  <2>4. (Kinds(req[r]) /\ Reads(req[r]) /\ Writes(req[r]))'
    BY <2>2, <2>3 DEF Kinds, Reads, Writes
  <2> QED
    BY <2>2, <2>3, <2>4
<1>5. CASE pc # "idle"
  <2>1. req' = [req EXCEPT ![r] = q(pc)]
    BY <1>3, <1>5
  <2>2. /\ q(pc) \in Request /\ q(pc).pc = pc /\ q(pc).id = req[r].id
        /\ q(pc).op = req[r].op /\ q(pc).at = req[r].at /\ q(pc).todo = rows
    BY <1>1 DEF Request, Pcs
  <2> HIDE DEF q
  <2>3. req' \in [Requests -> Request] /\ req'[r] = q(pc)
        /\ \A s \in Requests \ {r} : req'[s] = req[s]
    BY <1>1, <2>1, <2>2 DEF TypeOK
  <2>4. Kinds(req[r])'
    BY <1>2, <1>3, <1>5, <2>2, <2>3 DEF Kinds
  <2>5. Reads(req[r])'
    BY <1>2, <1>5, <2>2, <2>3 DEF Reads, Active
  <2>6. Writes(req[r])'
    BY <1>5, <2>2, <2>3 DEF Writes
  <2> QED
    BY <1>5, <2>2, <2>3, <2>4, <2>5, <2>6
<1> QED
  BY <1>4, <1>5
\* Moving the sweep on without a write keeps the invariant.
LEMMA NextSweepStep ==
  ASSUME IInv, NEW r \in Requests, req[r].pc \in {"list", "sweep"},
         NEW rows \in SUBSET JobRow, NextSweep(r, rows),
         \A row \in rows : Active(row) /\ Snapshot(row),
         UNCHANGED <<now, jobs, agent, arriving, heard, updaterSeen, calls>>
  PROVE  IInv'
<1>1. TypeOK /\ HandlersConsistent /\ now' \in Nat /\ now' >= now /\ jobs' = jobs
  BY DEF IInv, TypeOK
<1>2. \A row \in rows : Active(row) /\ Snapshot(row)'
  BY <1>1 DEF Snapshot
<1>6. /\ req' \in [Requests -> Request]
      /\ \A s \in Requests \ {r} : req'[s] = req[s]
      /\ req'[r].pc # "insert"
      /\ req'[r].id \in {req[r].id, None}
      /\ (Kinds(req[r]) /\ Reads(req[r]) /\ Writes(req[r]))'
  BY <1>1, <1>2, NextSweepHandler
<1>7. TypeOK'
  BY <1>1, <1>6 DEF TypeOK
<1>8. Evolve
  BY <1>1 DEF Evolve, TypeOK
<1>9. \A s \in Requests \ {r} : req[s].pc = "insert" =>
        jobs'[req[s].id].state = "absent" /\ req'[r].id # req[s].id
  <2> SUFFICES ASSUME NEW s \in Requests \ {r}, req[s].pc = "insert"
               PROVE  jobs'[req[s].id].state = "absent" /\ req'[r].id # req[s].id
    OBVIOUS
  <2>1. /\ req[s].id \in Jobs /\ jobs[req[s].id].state = "absent"
        /\ req[r].id # req[s].id
    BY <1>1 DEF HandlersConsistent, Inserts
  <2> QED
    BY <1>1, <1>6, <2>1, NoneAssumption
<1>10. \A j \in Jobs : jobs'[j].state = "absent" => jobs'[j] = jobs[j]
  BY <1>1
<1> QED
  BY <1>6, <1>7, <1>8, <1>9, <1>10, Frame

\* A stored row that is not absent is a snapshot.
LEMMA StoredRow ==
  ASSUME TypeOK, NEW j \in Jobs, jobs[j].state # "absent"
  PROVE  jobs[j] \in JobRow /\ Snapshot(jobs[j]) /\ jobs[j] # None
<1>1. jobs[j] \in JobRow /\ jobs[j].id = j /\ jobs[j].revision \in Nat
  BY DEF TypeOK, JobRow
<1> QED
  BY <1>1, NoRowAssumption DEF Snapshot

\* An active id has a stored row that is active.
LEMMA ActiveRow ==
  ASSUME TypeOK, NEW j \in Jobs, Active(jobs[j])
  PROVE  jobs[j] \in JobRow /\ Snapshot(jobs[j]) /\ jobs[j] # None
<1>1. jobs[j].state # "absent"
  BY DEF Active, ActiveStates, PreSwapStates, PostSwapStates
<1> QED
  BY <1>1, StoredRow

\* reconcile starts with stored active rows.
LEMMA ListStep ==
  ASSUME IInv, NEW r \in Requests, List(r)
  PROVE  IInv'
<1> DEFINE rows == {jobs[j] : j \in ActiveIds}
<1>1. \A row \in rows : row \in JobRow /\ Active(row) /\ Snapshot(row)
  BY ActiveRow DEF ActiveIds, IInv
<1>2. rows \in SUBSET JobRow
  BY <1>1
<1>3. /\ UNCHANGED <<now, jobs, agent, arriving, heard, updaterSeen, calls>>
      /\ req[r].pc = "list" /\ NextSweep(r, rows)
  BY DEF List
<1> HIDE DEF rows
<1> QED
  BY <1>1, <1>2, <1>3, NextSweepStep

\* A deadline ruling or a confirmed success is a verdict the job may get.
LEMMA RulingIsVerdict ==
  ASSUME NEW row \in JobRow, Active(row)
  PROVE  /\ DeadlineRuling(row.state) \in Verdicts(row)
         /\ FailedVerdict(row) \in Verdicts(row)
         /\ "succeeded" \in Verdicts(row)
         /\ Verdicts(row) \subseteq TerminalStates
<1>1. row.state \in PreSwapStates \/ row.state \in PostSwapStates
  BY DEF Active, ActiveStates
<1> QED
  BY <1>1 DEF Verdicts, DeadlineRuling, FailedVerdict, TerminalStates, Active

\* reconcile proposes a verdict its row may be given, or goes on.
LEMMA SweepStep ==
  ASSUME IInv, NEW r \in Requests, Sweep(r)
  PROVE  IInv'
<1>1. /\ TypeOK /\ HandlersConsistent
      /\ req[r] \in Request /\ Kinds(req[r]) /\ Reads(req[r])
      /\ updaterSeen \in OptTime /\ calls \in Nat
  BY DEF IInv, TypeOK, HandlersConsistent
<1>2. /\ UNCHANGED <<now, jobs, agent, arriving, heard, updaterSeen, calls>>
      /\ UNCHANGED <<now, jobs, agent, arriving, heard>>
      /\ updaterSeen' = updaterSeen /\ calls' = calls /\ req[r].pc = "sweep"
  BY DEF Sweep
<1>3. PICK row \in req[r].todo :
        \/ NextSweep(r, req[r].todo \ {row})
        \/ \E v \in {"succeeded", DeadlineRuling(row.state)} :
             req' = [req EXCEPT ![r].pc = "rule", ![r].old = row,
                                ![r].new = Settle(row, v)]
  BY DEF Sweep
<1>4. row \in JobRow /\ Active(row) /\ Snapshot(row) /\ row # None
  <2>1. row \in JobRow /\ Active(row) /\ Snapshot(row)
    BY <1>1 DEF Request, Reads
  <2> QED
    BY <2>1, NoRowAssumption
<1>5. CASE NextSweep(r, req[r].todo \ {row})
  <2>1. \A s \in req[r].todo \ {row} : Active(s) /\ Snapshot(s)
    BY <1>1 DEF Reads
  <2>2. req[r].todo \ {row} \in SUBSET JobRow
    BY <1>1 DEF Request
  <2> QED
    BY <1>2, <1>5, <2>1, <2>2, NextSweepStep
<1>6. ASSUME NEW v \in {"succeeded", DeadlineRuling(row.state)},
             req' = [req EXCEPT ![r].pc = "rule", ![r].old = row,
                                ![r].new = Settle(row, v)]
      PROVE  IInv'
  <2> DEFINE new == Settle(row, v)
             q == [req[r] EXCEPT !.pc = "rule", !.old = row, !.new = new]
  <2>1. v \in Verdicts(row) /\ v \in TerminalStates
    BY <1>4, <1>6, RulingIsVerdict
  <2>2. /\ new \in JobRow /\ new.id = row.id /\ new.key = row.key
        /\ new.release = row.release /\ new.baseBuild = row.baseBuild
        /\ new.baseHeartbeat = row.baseHeartbeat /\ new.token = row.token
        /\ new.state = v /\ new.revision = row.revision + 1
    BY <1>4, <2>1, SettleRow
  <2>3. new # None
    BY <2>2, NoRowAssumption
  <2> HIDE DEF new
  <2>4. /\ q \in Request /\ q.pc = "rule" /\ q.old = row /\ q.new = new
        /\ q.id = req[r].id /\ q.op = req[r].op /\ q.at = req[r].at
        /\ q.todo = req[r].todo /\ q.input = req[r].input /\ q.token = req[r].token
    BY <1>1, <1>4, <2>2 DEF Request, Pcs
  <2>5. req' = [req EXCEPT ![r] = q]
    BY <1>1, <1>6 DEF TypeOK, new
  <2> HIDE DEF q
  <2>6. Kinds(q)
    BY <1>1, <1>2, <2>4 DEF Kinds
  <2>7. Reads(q)
    BY <1>1, <1>4, <2>4 DEF Reads
  <2>8. Writes(q)
    BY <2>1, <2>2, <2>3, <2>4 DEF Writes
  <2> QED
    BY <1>1, <1>2, <2>4, <2>5, <2>6, <2>7, <2>8, QuietStep
<1> QED
  BY <1>3, <1>5, <1>6
\* A handler takes up a stored row its call may write.
LEMMA TakeUp ==
  ASSUME IInv, NEW r \in Requests, req[r].pc = "load",
         NEW j \in Jobs, jobs[j].state # "absent",
         UNCHANGED <<now, jobs, agent, arriving, heard, updaterSeen, calls>>,
         req' = [req EXCEPT ![r].pc = "verify", ![r].old = jobs[j]],
         MayWrite([req[r] EXCEPT !.pc = "verify", !.old = jobs[j]])
  PROVE  IInv'
<1> DEFINE q == [req[r] EXCEPT !.pc = "verify", !.old = jobs[j]]
<1>1. /\ TypeOK /\ HandlersConsistent
      /\ req[r] \in Request /\ Kinds(req[r]) /\ Reads(req[r])
      /\ updaterSeen \in OptTime /\ calls \in Nat
  BY DEF IInv, TypeOK, HandlersConsistent
<1>2. jobs[j] \in JobRow /\ Snapshot(jobs[j]) /\ jobs[j] # None
  BY <1>1, StoredRow
<1>3. /\ q \in Request /\ q.pc = "verify" /\ q.old = jobs[j]
      /\ q.id = req[r].id /\ q.op = req[r].op /\ q.at = req[r].at
      /\ q.todo = req[r].todo /\ q.input = req[r].input /\ q.token = req[r].token
  BY <1>1, <1>2 DEF Request, Pcs
<1>4. req' = [req EXCEPT ![r] = q]
  BY <1>1 DEF TypeOK
<1>5. MayWrite(q)
  OBVIOUS
<1>6. /\ UNCHANGED <<now, jobs, agent, arriving, heard>>
      /\ updaterSeen' = updaterSeen /\ calls' = calls
  OBVIOUS
<1> HIDE DEF q
<1>7. Kinds(q)
  BY <1>1, <1>3 DEF Kinds
<1>8. Reads(q)
  BY <1>1, <1>2, <1>3, <1>5 DEF Reads
<1>9. Writes(q)
  BY <1>3 DEF Writes
<1> QED
  BY <1>1, <1>3, <1>4, <1>6, <1>7, <1>8, <1>9, QuietStep

\* claim takes up only an active row without a live lease.
LEMMA LoadClaimStep ==
  ASSUME IInv, NEW r \in Requests, LoadClaim(r)
  PROVE  IInv'
<1>1. /\ UNCHANGED <<now, jobs, agent, arriving, heard, updaterSeen, calls>>
      /\ req[r].pc = "load" /\ req[r].op = "claim" /\ req[r] \in Request
  BY DEF LoadClaim, IInv, TypeOK
<1>2. CASE Finish(r)
  BY <1>1, <1>2, FinishStep
<1>3. CASE ~ Finish(r)
  <2>1. PICK j \in Jobs : /\ Active(jobs[j]) /\ ~ LeaseValid(jobs[j], req[r].at)
                          /\ req' = [req EXCEPT ![r].pc = "verify", ![r].old = jobs[j]]
    BY <1>3 DEF LoadClaim, ActiveIds
  <2> DEFINE q == [req[r] EXCEPT !.pc = "verify", !.old = jobs[j]]
  <2>2. q.op = "claim" /\ q.old = jobs[j] /\ q.at = req[r].at
    BY <1>1 DEF Request
  <2>3. MayWrite(q)
    BY <2>1, <2>2 DEF MayWrite
  <2>4. jobs[j].state # "absent"
    BY <2>1 DEF Active, ActiveStates, PreSwapStates, PostSwapStates
  <2> QED
    BY <1>1, <2>1, <2>3, <2>4, TakeUp
<1> QED
  BY <1>2, <1>3

\* progress takes up only an active row whose lease its token holds.
LEMMA LoadProgressStep ==
  ASSUME IInv, NEW r \in Requests, LoadProgress(r)
  PROVE  IInv'
<1>1. /\ UNCHANGED <<now, jobs, agent, arriving, heard, updaterSeen, calls>>
      /\ req[r].pc = "load" /\ req[r].op = "progress" /\ req[r] \in Request
      /\ Kinds(req[r])
  BY DEF LoadProgress, IInv, TypeOK, HandlersConsistent
<1>2. CASE Finish(r)
  BY <1>1, <1>2, FinishStep
<1>3. CASE ~ Finish(r)
  <2> DEFINE j == req[r].id
             q == [req[r] EXCEPT !.pc = "verify", !.old = jobs[j]]
  <2>1. /\ j \in Jobs /\ jobs[j].state # "absent"
        /\ Active(jobs[j]) /\ HoldsLease(req[r], jobs[j])
        /\ req' = [req EXCEPT ![r].pc = "verify", ![r].old = jobs[j]]
    BY <1>1, <1>3 DEF LoadProgress, Kinds
  <2>2. q.op = "progress" /\ q.old = jobs[j] /\ q.at = req[r].at
        /\ q.token = req[r].token
    BY <1>1 DEF Request
  <2>3. MayWrite(q)
    BY <2>1, <2>2 DEF MayWrite, HoldsLease
  <2> QED
    BY <1>1, <2>1, <2>3, TakeUp
<1> QED
  BY <1>2, <1>3

\* Proposing a row the call may write.
LEMMA ProposeStep ==
  ASSUME IInv, NEW r \in Requests, req[r].pc \in {"load", "verify"},
         NEW old \in JobRow, Snapshot(old), NEW new \in JobRow,
         UNCHANGED <<now, jobs, agent, arriving, heard, updaterSeen, calls>>,
         req' = [req EXCEPT ![r] = [@ EXCEPT !.pc = "commit", !.old = old, !.new = new]],
         MayWrite([req[r] EXCEPT !.pc = "commit", !.old = old, !.new = new]),
         Writes([req[r] EXCEPT !.pc = "commit", !.old = old, !.new = new])
  PROVE  IInv'
<1> DEFINE q == [req[r] EXCEPT !.pc = "commit", !.old = old, !.new = new]
<1>1. /\ TypeOK /\ HandlersConsistent
      /\ req[r] \in Request /\ Kinds(req[r]) /\ Reads(req[r])
      /\ updaterSeen \in OptTime /\ calls \in Nat
  BY DEF IInv, TypeOK, HandlersConsistent
<1>3. /\ q \in Request /\ q.pc = "commit" /\ q.old = old
      /\ q.id = req[r].id /\ q.op = req[r].op /\ q.at = req[r].at
      /\ q.todo = req[r].todo /\ q.input = req[r].input /\ q.token = req[r].token
  BY <1>1 DEF Request, Pcs
<1>4. req' = [req EXCEPT ![r] = q]
  BY <1>1 DEF TypeOK
<1>5. MayWrite(q) /\ Writes(q)
  OBVIOUS
<1>6. /\ UNCHANGED <<now, jobs, agent, arriving, heard>>
      /\ updaterSeen' = updaterSeen /\ calls' = calls
  OBVIOUS
<1> HIDE DEF q
<1>7. Kinds(q)
  BY <1>1, <1>3 DEF Kinds
<1>8. Reads(q)
  BY <1>1, <1>3, <1>5, NoRowAssumption DEF Reads
<1> QED
  BY <1>1, <1>3, <1>4, <1>5, <1>6, <1>7, <1>8, QuietStep
\* What a ruling of an active or refinable row writes.
LEMMA VerdictWrites ==
  ASSUME NEW q, q.pc = "commit", q.op = "result", q.old \in JobRow,
         NEW v \in Verdicts(q.old), v \in TerminalStates, q.new = Settle(q.old, v)
  PROVE  Writes(q)
<1> DEFINE old == q.old
           new == Settle(old, v)
<1>0. old \in JobRow
  OBVIOUS
<1> HIDE DEF old
<1>1. /\ new \in JobRow /\ new.id = old.id /\ new.key = old.key
      /\ new.release = old.release /\ new.baseBuild = old.baseBuild
      /\ new.baseHeartbeat = old.baseHeartbeat /\ new.token = old.token
      /\ new.state = v /\ new.revision = old.revision + 1
  BY <1>0, SettleRow
<1> USE DEF old
<1>2. q.new = new /\ new # None
  BY <1>1, NoRowAssumption
<1> HIDE DEF new
<1> QED
  BY <1>1, <1>2 DEF Writes

\* result takes up only such a row, or one that may be refined.
LEMMA LoadResultStep ==
  ASSUME IInv, NEW r \in Requests, LoadResult(r)
  PROVE  IInv'
<1> DEFINE j == req[r].id
           row == jobs[j]
           input == req[r].input
<1>1. /\ UNCHANGED <<now, jobs, agent, arriving, heard, updaterSeen, calls>>
      /\ req[r].pc = "load" /\ req[r].op = "result" /\ req[r] \in Request
      /\ Kinds(req[r]) /\ TypeOK
  BY DEF LoadResult, IInv, TypeOK, HandlersConsistent
<1>2. CASE Finish(r)
  BY <1>1, <1>2, FinishStep
<1>3. CASE ~ Finish(r)
  <2>1. /\ j \in Jobs /\ row.state # "absent"
        /\ Refinable(req[r], row) \/ (Active(row) /\ HoldsLease(req[r], row))
    BY <1>1, <1>3 DEF LoadResult, Kinds
  <2>2. row \in JobRow /\ Snapshot(row)
    BY <1>1, <2>1, StoredRow
  <2>3. CASE input \in {"failed", "rollback_unverified"}
    <3> DEFINE v == IF input = "failed" THEN FailedVerdict(row) ELSE "rollback_unverified"
               new == Settle(row, v)
               q == [req[r] EXCEPT !.pc = "commit", !.old = row, !.new = new]
    <3>1. Active(row) /\ HoldsLease(req[r], row)
      BY <2>1, <2>3 DEF Refinable
    <3>2. v \in Verdicts(row) /\ v \in TerminalStates
      BY <2>2, <3>1, RulingIsVerdict DEF Verdicts
    <3> HIDE DEF v
    <3>3. new \in JobRow
      BY <2>2, <3>2, SettleRow
    <3>4. req' = [req EXCEPT ![r].pc = "commit", ![r].old = row, ![r].new = new]
      BY <1>3, <2>1, <2>3 DEF LoadResult, v
    <3>5. /\ q.pc = "commit" /\ q.op = "result" /\ q.old = row /\ q.new = Settle(row, v)
          /\ q.at = req[r].at /\ q.token = req[r].token
      BY <1>1 DEF Request
    <3>6. req' = [req EXCEPT ![r] = q]
      BY <1>1, <3>4 DEF TypeOK
    <3> HIDE DEF q
    <3>7. MayWrite(q)
      BY <3>1, <3>5 DEF MayWrite, HoldsLease
    <3>8. Writes(q)
      BY <2>2, <3>2, <3>5, VerdictWrites
    <3> QED
      BY <1>1, <2>2, <3>3, <3>6, <3>7, <3>8, ProposeStep DEF q
  <2>4. CASE input \notin {"failed", "rollback_unverified"}
    <3> DEFINE q == [req[r] EXCEPT !.pc = "verify", !.old = row]
    <3>1. req' = [req EXCEPT ![r].pc = "verify", ![r].old = row]
      BY <1>3, <2>1, <2>4 DEF LoadResult
    <3>2. q.op = "result" /\ q.old = row /\ q.at = req[r].at
          /\ q.token = req[r].token /\ q.input = input
      BY <1>1 DEF Request
    <3>3. MayWrite(q)
      BY <2>1, <3>2 DEF MayWrite, HoldsLease, Refinable
    <3> QED
      BY <1>1, <2>1, <3>1, <3>3, TakeUp
  <2> QED
    BY <2>3, <2>4
<1> QED
  BY <1>2, <1>3

\* claim proposes the next token and changes nothing else that identifies the job.
LEMMA VerifyClaimStep ==
  ASSUME IInv, NEW r \in Requests, VerifyClaim(r)
  PROVE  IInv'
<1> DEFINE old == req[r].old
           new == ClaimedRow(old, req[r].at)
           q == [req[r] EXCEPT !.pc = "commit", !.old = old, !.new = new]
<1>1. /\ UNCHANGED <<now, jobs, agent, arriving, heard, updaterSeen, calls>>
      /\ req[r].pc = "verify" /\ req[r].op = "claim" /\ req[r] \in Request
      /\ Reads(req[r]) /\ TypeOK
      /\ req' = [req EXCEPT ![r].pc = "commit", ![r].new = new]
  BY DEF VerifyClaim, Propose, IInv, TypeOK, HandlersConsistent
<1>2. old \in JobRow /\ Snapshot(old) /\ old.state # "absent" /\ req[r].at \in Nat
      /\ MayWrite(req[r])
  BY <1>1 DEF Reads, Request, Snapshot
<1>3. agent \in Heartbeat \cup {NoHeartbeat}
  BY <1>1 DEF TypeOK
<1>4. /\ new \in JobRow /\ new.id = old.id /\ new.key = old.key
      /\ new.release = old.release /\ new.baseHeartbeat = old.baseHeartbeat
      /\ old.baseBuild # None => new.baseBuild = old.baseBuild
      /\ new.token = old.token + 1 /\ new.revision = old.revision + 1
      /\ new.state = IF old.state = "queued" THEN "claimed" ELSE old.state
  BY <1>2, <1>3, ClaimRow
<1>5. new # None
  BY <1>4, NoRowAssumption
<1> HIDE DEF new
<1>6. /\ q.pc = "commit" /\ q.op = "claim" /\ q.old = old /\ q.new = new
      /\ q.at = req[r].at
  BY <1>1 DEF Request
<1>7. req' = [req EXCEPT ![r] = q]
  BY <1>1 DEF TypeOK, Request
<1> HIDE DEF q
<1>8. MayWrite(q)
  BY <1>1, <1>2, <1>6 DEF MayWrite
<1>9. Writes(q)
  BY <1>4, <1>5, <1>6 DEF Writes
<1> QED
  BY <1>1, <1>2, <1>4, <1>7, <1>8, <1>9, ProposeStep DEF q

\* progress proposes its phase and keeps a pinned baseline.
LEMMA VerifyProgressStep ==
  ASSUME IInv, NEW r \in Requests, VerifyProgress(r)
  PROVE  IInv'
<1> DEFINE old == req[r].old
           new == ProgressedRow(old, req[r].input, req[r].at)
           q == [req[r] EXCEPT !.pc = "commit", !.old = old, !.new = new]
<1>1. /\ UNCHANGED <<now, jobs, agent, arriving, heard, updaterSeen, calls>>
      /\ req[r].pc = "verify" /\ req[r].op = "progress" /\ req[r] \in Request
      /\ Reads(req[r]) /\ Kinds(req[r]) /\ TypeOK
      /\ req' = [req EXCEPT ![r].pc = "commit", ![r].new = new]
  BY DEF VerifyProgress, Propose, IInv, TypeOK, HandlersConsistent
<1>2. old \in JobRow /\ Snapshot(old) /\ req[r].at \in Nat
      /\ MayWrite(req[r]) /\ req[r].input \in Phases
  BY <1>1 DEF Reads, Request, Kinds
<1>3. agent \in Heartbeat \cup {NoHeartbeat}
  BY <1>1 DEF TypeOK
<1> HIDE DEF old
<1>4. /\ new \in JobRow /\ new.id = old.id /\ new.key = old.key
      /\ new.release = old.release /\ new.baseBuild = old.baseBuild
      /\ new.token = old.token /\ new.revision = old.revision + 1
      /\ new.state = req[r].input
      /\ old.baseHeartbeat # None => new.baseHeartbeat = old.baseHeartbeat
      /\ new.baseHeartbeat # None
           <=> (old.baseHeartbeat # None \/ req[r].input = "restarting")
  BY <1>2, <1>3, ProgressRow
<1> USE DEF old
<1>5. new # None
  BY <1>4, NoRowAssumption
<1> HIDE DEF new
<1>6. /\ q.pc = "commit" /\ q.op = "progress" /\ q.old = old /\ q.new = new
      /\ q.at = req[r].at /\ q.token = req[r].token /\ q.input = req[r].input
  BY <1>1 DEF Request
<1>7. req' = [req EXCEPT ![r] = q]
  BY <1>1 DEF TypeOK, Request
<1> HIDE DEF q
<1>8. MayWrite(q)
  BY <1>1, <1>2, <1>6 DEF MayWrite, HoldsLease
<1>9. Writes(q)
  BY <1>4, <1>5, <1>6 DEF Writes
<1> QED
  BY <1>1, <1>2, <1>4, <1>7, <1>8, <1>9, ProposeStep DEF q

\* result proposes a verdict its row may be given, or returns.
LEMMA VerifyResultStep ==
  ASSUME IInv, NEW r \in Requests, VerifyResult(r)
  PROVE  IInv'
<1> DEFINE old == req[r].old
<1>1. /\ UNCHANGED <<now, jobs, agent, arriving, heard, updaterSeen, calls>>
      /\ req[r].pc = "verify" /\ req[r].op = "result" /\ req[r] \in Request
      /\ Reads(req[r]) /\ TypeOK
  BY DEF VerifyResult, IInv, TypeOK, HandlersConsistent
<1>2. old \in JobRow /\ Snapshot(old) /\ MayWrite(req[r])
  BY <1>1 DEF Reads, Request
<1>3. CASE Finish(r)
  BY <1>1, <1>3, FinishStep
<1>4. CASE ~ Finish(r)
  <2>1. PICK v \in {"succeeded", RollbackVerdict(old)} :
          /\ req' = [req EXCEPT ![r].pc = "commit", ![r].new = Settle(old, v)]
          /\ v = "succeeded" => req[r].input # "rolled_back"
    <3>1. CASE req[r].input = "rolled_back"
      <4>1. req' = [req EXCEPT ![r].pc = "commit",
                               ![r].new = Settle(old, RollbackVerdict(old))]
        BY <3>1 DEF VerifyResult, Propose
      <4>2. RollbackVerdict(old) # "succeeded"
        BY DEF RollbackVerdict
      <4> QED
        BY <4>1, <4>2
    <3>2. CASE req[r].input # "rolled_back"
      <4>1. req' = [req EXCEPT ![r].pc = "commit", ![r].new = Settle(old, "succeeded")]
        BY <1>4, <3>2 DEF VerifyResult, Propose
      <4> QED
        BY <3>2, <4>1
    <3> QED
      BY <3>1, <3>2
  <2>2. v = "succeeded" => Active(old)
    BY <1>1, <1>2, <2>1 DEF MayWrite, Refinable
  <2>3. v \in Verdicts(old) /\ v \in TerminalStates
    BY <2>1, <2>2 DEF RollbackVerdict, ConfirmsBaseline, Verdicts, TerminalStates
  <2> DEFINE new == Settle(old, v)
             q == [req[r] EXCEPT !.pc = "commit", !.old = old, !.new = new]
  <2>4. new \in JobRow
    BY <1>2, <2>3, SettleRow
  <2>5. /\ q.pc = "commit" /\ q.op = "result" /\ q.old = old /\ q.new = Settle(old, v)
        /\ q.at = req[r].at /\ q.token = req[r].token /\ q.input = req[r].input
    BY <1>1 DEF Request
  <2>6. req' = [req EXCEPT ![r] = q]
    BY <1>1, <2>1 DEF TypeOK, Request
  <2> HIDE DEF q
  <2>7. MayWrite(q)
    BY <1>1, <1>2, <2>5 DEF MayWrite, HoldsLease, Refinable
  <2>8. Writes(q)
    BY <1>2, <2>3, <2>5, VerdictWrites
  <2> QED
    BY <1>1, <1>2, <2>4, <2>6, <2>7, <2>8, ProposeStep DEF q
<1> QED
  BY <1>3, <1>4
\* A compare-and-set writes the proposal over the very row it was made from, or
\* writes nothing.
LEMMA CompareAndSetRow ==
  ASSUME IInv, NEW r \in Requests, req[r].pc \in {"rule", "commit"},
         CompareAndSet(req[r])
  PROVE  LET q == req[r] IN
         /\ q.old \in JobRow /\ q.new \in JobRow /\ q.old.id \in Jobs
         /\ q.new.id = q.old.id
         /\ q.new.revision = q.old.revision + 1
         /\ q.new.state # "absent" /\ q.old.state # "absent"
         /\ \/ jobs' = jobs
            \/ jobs[q.old.id] = q.old /\ jobs' = [jobs EXCEPT ![q.old.id] = q.new]
<1> DEFINE q == req[r]
<1>1. /\ TypeOK /\ HandlersConsistent /\ q \in Request
      /\ Kinds(q) /\ Reads(q) /\ Writes(q)
  BY DEF IInv, TypeOK, HandlersConsistent
<1> HIDE DEF q
<1>2. q.pc \in {"rule", "commit"} /\ CompareAndSet(q)
  BY DEF q
<1>3. q.old # None /\ q.old \in JobRow /\ Snapshot(q.old)
  BY <1>1, <1>2 DEF Reads, Request
<1>4. q.new # None /\ q.new \in JobRow /\ q.new.id = q.old.id
      /\ q.new.revision = q.old.revision + 1
  BY <1>1, <1>2 DEF Writes, Request
<1>5. q.new.state # "absent"
  <2>1. CASE q.pc = "commit" /\ q.op = "claim"
    <3>1. q.new.state = IF q.old.state = "queued" THEN "claimed" ELSE q.old.state
      BY <1>1, <2>1 DEF Writes
    <3> QED
      BY <1>3, <3>1 DEF Snapshot
  <2>2. CASE q.pc = "commit" /\ q.op = "progress"
    <3>1. q.new.state = q.input /\ q.input \in Phases
      BY <1>1, <2>2 DEF Writes, Kinds
    <3> QED
      BY <3>1, PolicyAssumption DEF ProgressPhases, PostSwapStates
  <2>3. CASE ~ (q.pc = "commit" /\ q.op \in {"claim", "progress"})
    <3>1. q.new.state \in Verdicts(q.old)
      BY <1>1, <1>2, <2>3 DEF Writes
    <3> QED
      BY <3>1 DEF Verdicts
  <2> QED
    BY <2>1, <2>2, <2>3
<1>6. q.old.id \in Jobs /\ q.old.state # "absent"
  BY <1>3 DEF JobRow, Snapshot
<1>7. CASE CasWins(q)
  <2>1. jobs[q.old.id] = q.old
    BY <1>3, <1>7 DEF CasWins, Snapshot
  <2>2. jobs' = [jobs EXCEPT ![q.old.id] = q.new]
    BY <1>2, <1>7 DEF CompareAndSet
  <2> QED
    BY <1>3, <1>4, <1>5, <1>6, <2>1, <2>2 DEF q
<1>8. CASE ~ CasWins(q)
  <2>1. jobs' = jobs
    BY <1>2, <1>8 DEF CompareAndSet
  <2> QED
    BY <1>3, <1>4, <1>5, <1>6, <2>1 DEF q
<1> QED
  BY <1>7, <1>8

\* What a compare-and-set leaves true of the rows.
LEMMA CompareAndSetEvolves ==
  ASSUME IInv, NEW r \in Requests, req[r].pc \in {"rule", "commit"},
         CompareAndSet(req[r]), UNCHANGED now
  PROVE  /\ jobs' \in [Jobs -> JobRow]
         /\ \A j \in Jobs : jobs'[j].id = j
         /\ Evolve
         /\ \A j \in Jobs : jobs'[j].state = "absent" => jobs'[j] = jobs[j]
         /\ \A j \in Jobs : jobs[j].state = "absent" => jobs'[j].state = "absent"
<1> DEFINE old == req[r].old
           new == req[r].new
<1>1. /\ TypeOK /\ now \in Nat /\ now' = now
  BY DEF IInv, TypeOK
<1>2. /\ old \in JobRow /\ new \in JobRow /\ old.id \in Jobs /\ new.id = old.id
      /\ new.revision = old.revision + 1
      /\ new.state # "absent" /\ old.state # "absent"
      /\ \/ jobs' = jobs
         \/ jobs[old.id] = old /\ jobs' = [jobs EXCEPT ![old.id] = new]
  BY CompareAndSetRow
<1> HIDE DEF old, new
<1>3. CASE jobs' = jobs
  BY <1>1, <1>3 DEF TypeOK, Evolve
<1>4. CASE jobs[old.id] = old /\ jobs' = [jobs EXCEPT ![old.id] = new]
  <2>1. jobs' \in [Jobs -> JobRow]
    BY <1>1, <1>2, <1>4 DEF TypeOK
  <2>2. \A j \in Jobs : j # old.id => jobs'[j] = jobs[j]
    BY <1>1, <1>4 DEF TypeOK
  <2>3. jobs'[old.id] = new /\ jobs[old.id] = old
    BY <1>1, <1>2, <1>4 DEF TypeOK
  <2>4. new.revision > old.revision
    BY <1>2 DEF JobRow
  <2>5. \A j \in Jobs : jobs'[j].id = j
    BY <1>1, <1>2, <2>2, <2>3 DEF TypeOK
  <2>6. Evolve
    BY <1>1, <1>2, <2>2, <2>3, <2>4 DEF Evolve
  <2> QED
    BY <1>2, <2>1, <2>2, <2>3, <2>5, <2>6
<1> QED
  BY <1>2, <1>3, <1>4

\* No other handler holds a new id that the moving handler's step could disturb.
LEMMA InsertsUndisturbed ==
  ASSUME IInv, NEW r \in Requests,
         \A j \in Jobs : jobs[j].state = "absent" => jobs'[j].state = "absent",
         req'[r].id \in {req[r].id, None}
  PROVE  \A s \in Requests \ {r} : req[s].pc = "insert" =>
           jobs'[req[s].id].state = "absent" /\ req'[r].id # req[s].id
<1> SUFFICES ASSUME NEW s \in Requests \ {r}, req[s].pc = "insert"
             PROVE  jobs'[req[s].id].state = "absent" /\ req'[r].id # req[s].id
  OBVIOUS
<1>1. /\ req[s].id \in Jobs /\ jobs[req[s].id].state = "absent"
      /\ req[r].id # req[s].id
  BY DEF IInv, HandlersConsistent, Inserts
<1> QED
  BY <1>1, NoneAssumption

\* reconcile's compareAndSet keeps every handler consistent, whether it wins or loses.
LEMMA RuleStep ==
  ASSUME IInv, NEW r \in Requests, Rule(r)
  PROVE  IInv'
<1> DEFINE rows == req[r].todo \ {req[r].old}
<1>1. /\ TypeOK /\ HandlersConsistent /\ req[r] \in Request
      /\ Reads(req[r]) /\ now \in Nat
  BY DEF IInv, TypeOK, HandlersConsistent
<1>2. /\ UNCHANGED <<now, agent, arriving, heard, updaterSeen, calls>> /\ now' = now
      /\ req[r].pc = "rule" /\ CompareAndSet(req[r]) /\ NextSweep(r, rows)
  BY DEF Rule
<1>3. /\ jobs' \in [Jobs -> JobRow]
      /\ \A j \in Jobs : jobs'[j].id = j
      /\ Evolve
      /\ \A j \in Jobs : jobs'[j].state = "absent" => jobs'[j] = jobs[j]
      /\ \A j \in Jobs : jobs[j].state = "absent" => jobs'[j].state = "absent"
  BY <1>2, CompareAndSetEvolves
<1>4. req' \in [Requests -> Request]
  BY <1>1, <1>2, IdleRequest DEF NextSweep, TypeOK, Request, Pcs, Finish
<1>5. TypeOK'
  BY <1>1, <1>2, <1>3, <1>4 DEF TypeOK
<1>6. rows \in SUBSET JobRow
  BY <1>1 DEF Request
<1>7. \A row \in rows : Active(row) /\ Snapshot(row)'
  <2> SUFFICES ASSUME NEW row \in rows PROVE Active(row) /\ Snapshot(row)'
    OBVIOUS
  <2>1. row \in JobRow /\ Active(row) /\ Snapshot(row)
    BY <1>1, <1>6 DEF Reads
  <2> QED
    BY <1>1, <1>3, <1>5, <2>1, SnapshotStays
<1> HIDE DEF rows
<1>8. /\ \A s \in Requests \ {r} : req'[s] = req[s]
      /\ req'[r].pc # "insert"
      /\ req'[r].id \in {req[r].id, None}
      /\ (Kinds(req[r]) /\ Reads(req[r]) /\ Writes(req[r]))'
  BY <1>1, <1>2, <1>6, <1>7, NextSweepHandler
<1>9. \A s \in Requests \ {r} : req[s].pc = "insert" =>
        jobs'[req[s].id].state = "absent" /\ req'[r].id # req[s].id
  BY <1>3, <1>8, InsertsUndisturbed
<1> QED
  BY <1>3, <1>5, <1>8, <1>9, Frame

\* An updater call's compareAndSet keeps every handler consistent, whether it wins or loses.
LEMMA CommitStep ==
  ASSUME IInv, NEW r \in Requests, Commit(r)
  PROVE  IInv'
<1>1. /\ TypeOK /\ HandlersConsistent /\ req[r] \in Request
      /\ Kinds(req[r]) /\ Reads(req[r]) /\ now \in Nat
  BY DEF IInv, TypeOK, HandlersConsistent
<1>2. /\ UNCHANGED <<now, agent, arriving, heard, updaterSeen, calls>> /\ now' = now
      /\ req[r].pc = "commit" /\ CompareAndSet(req[r])
  BY DEF Commit
<1>3. /\ jobs' \in [Jobs -> JobRow]
      /\ \A j \in Jobs : jobs'[j].id = j
      /\ Evolve
      /\ \A j \in Jobs : jobs'[j].state = "absent" => jobs'[j] = jobs[j]
      /\ \A j \in Jobs : jobs[j].state = "absent" => jobs'[j].state = "absent"
  BY <1>2, CompareAndSetEvolves
<1> DEFINE q == [req[r] EXCEPT !.pc = "load", !.tries = req[r].tries + 1,
                               !.old = None, !.new = None]
<1>4. PICK p \in {Idle, q} :
        /\ req' = [req EXCEPT ![r] = p]
        /\ p = Idle \/ req[r].tries # 2
  BY <1>1 DEF Commit, Finish, TypeOK
<1>5. /\ p \in Request /\ p.todo \subseteq req[r].todo
      /\ \/ p.pc = "idle" /\ p.op = "none" /\ p.id = None /\ p.at = 0
         \/ /\ p.pc = "load" /\ p.op = req[r].op /\ p.id = req[r].id
            /\ p.input = req[r].input /\ p.token = req[r].token /\ p.at = req[r].at
  <2>1. CASE p = Idle
    <3>1. /\ Idle.pc = "idle" /\ Idle.op = "none" /\ Idle.id = None
          /\ Idle.at = 0 /\ Idle.todo = {}
      BY DEF Idle
    <3> QED
      BY <2>1, <3>1, IdleRequest
  <2>2. CASE p # Idle
    <3>1. p = q /\ req[r].tries \in 0 .. 1
      BY <1>1, <1>4, <2>2 DEF Request
    <3>2. q \in Request
      <4>1. req[r].tries + 1 \in 0 .. 2
        BY <3>1
      <4> DEFINE n == req[r].tries + 1
      <4>2. n \in 0 .. 2
        BY <4>1
      <4> HIDE DEF n
      <4>3. [req[r] EXCEPT !.pc = "load", !.tries = n, !.old = None, !.new = None]
              \in Request
        BY <1>1, <4>2 DEF Request, Pcs
      <4> QED
        BY <4>3 DEF n
    <3> QED
      BY <1>1, <3>1, <3>2 DEF Request
  <2> QED
    BY <2>1, <2>2
<1> HIDE DEF q
<1>6. req' \in [Requests -> Request] /\ req'[r] = p
      /\ \A s \in Requests \ {r} : req'[s] = req[s]
  BY <1>1, <1>4, <1>5 DEF TypeOK
<1>7. TypeOK'
  BY <1>1, <1>2, <1>3, <1>6 DEF TypeOK
<1>8. Kinds(req[r])'
  BY <1>1, <1>2, <1>3, <1>5, <1>6 DEF Kinds, Evolve
<1>9. \A row \in p.todo : Active(row) /\ Snapshot(row)'
  <2> SUFFICES ASSUME NEW row \in p.todo PROVE Active(row) /\ Snapshot(row)'
    OBVIOUS
  <2>1. row \in JobRow /\ Active(row) /\ Snapshot(row)
    BY <1>1, <1>5 DEF Reads, Request
  <2> QED
    BY <1>1, <1>3, <1>7, <2>1, SnapshotStays
<1>10. p.at <= now'
  BY <1>1, <1>2, <1>5 DEF Reads
<1>11. (Reads(req[r]) /\ Writes(req[r]))'
  BY <1>5, <1>6, <1>9, <1>10 DEF Reads, Writes, Active
<1>12. \A s \in Requests \ {r} : req[s].pc = "insert" =>
        jobs'[req[s].id].state = "absent" /\ req'[r].id # req[s].id
  BY <1>3, <1>5, <1>6, InsertsUndisturbed
<1>13. req'[r].pc # "insert"
  BY <1>5, <1>6
<1> QED
  BY <1>3, <1>6, <1>7, <1>8, <1>11, <1>12, <1>13, Frame
\* repository.create inserts a queued row under an id no row has, or nothing.
LEMMA InsertedRow ==
  ASSUME IInv, NEW r \in Requests, CreateInsert(r)
  PROVE  \/ jobs' = jobs
         \/ /\ ActiveIds = {} /\ ~ Replay(req[r].key)
            /\ req[r].id \in Jobs /\ jobs[req[r].id].state = "absent"
            /\ \E row \in JobRow :
                 /\ row.id = req[r].id /\ row.state = "queued" /\ row.key = req[r].key
                 /\ row.token = 0 /\ row.baseHeartbeat = None
                 /\ jobs' = [jobs EXCEPT ![req[r].id] = row]
<1> DEFINE j == req[r].id
           new == req[r].new
           row == [new EXCEPT !.phaseDeadline = now + PhaseTimeout["queued"],
                              !.deadline      = now + OverallDeadline]
<1>1. /\ TypeOK /\ HandlersConsistent /\ req[r] \in Request /\ now \in Nat
      /\ req[r].pc = "insert" /\ Kinds(req[r])
  BY DEF IInv, TypeOK, HandlersConsistent, CreateInsert
<1>2. j \in Jobs /\ jobs[j].state = "absent"
  BY <1>1 DEF HandlersConsistent, Inserts
<1>3. PICK b \in Builds :
        new = [AbsentRow(j) EXCEPT !.state = "queued", !.key = req[r].key,
                                   !.release = req[r].input, !.baseBuild = b]
  BY <1>1 DEF HandlersConsistent, Inserts
<1>4. AbsentRow(j) \in JobRow
  BY <1>2 DEF AbsentRow, JobRow, JobStates, OptBuild, OptTime
<1>5. req[r].input \in Builds /\ req[r].key \in Keys \cup {None}
  BY <1>1 DEF Kinds, Request
<1>6. /\ new \in JobRow /\ new.id = j /\ new.state = "queued"
      /\ new.key = req[r].key /\ new.token = 0 /\ new.baseHeartbeat = None
  <2>1. "queued" \in JobStates /\ b \in OptBuild /\ req[r].input \in OptBuild
    BY <1>5 DEF JobStates, ActiveStates, PreSwapStates, OptBuild
  <2>2. /\ AbsentRow(j).id = j /\ AbsentRow(j).token = 0
        /\ AbsentRow(j).baseHeartbeat = None
    BY DEF AbsentRow
  <2> HIDE DEF j, new
  <2> QED
    BY <1>3, <1>4, <1>5, <2>1, <2>2 DEF JobRow
<1>7. now + PhaseTimeout["queued"] \in Nat /\ now + OverallDeadline \in Nat
  BY <1>1, PolicyAssumption DEF ActiveStates, PreSwapStates
<1> HIDE DEF new
<1>8. /\ row \in JobRow /\ row.id = j /\ row.state = "queued" /\ row.key = req[r].key
      /\ row.token = 0 /\ row.baseHeartbeat = None
  BY <1>6, <1>7 DEF JobRow
<1>9. \/ jobs' = jobs
      \/ ActiveIds = {} /\ ~ Replay(req[r].key) /\ jobs' = [jobs EXCEPT ![j] = row]
  BY DEF CreateInsert, InsertRejected, new
<1> HIDE DEF row
<1> QED
  BY <1>2, <1>8, <1>9

\* repository.create inserts a row under an id of its own or rejects it.
LEMMA CreateInsertStep ==
  ASSUME IInv, NEW r \in Requests, CreateInsert(r)
  PROVE  IInv'
<1>1. /\ TypeOK /\ HandlersConsistent /\ now \in Nat /\ req[r].pc = "insert"
  BY DEF IInv, TypeOK, CreateInsert
<1>2. UNCHANGED <<now, agent, arriving, heard, updaterSeen, calls>> /\ Finish(r)
  BY DEF CreateInsert
<1>3. /\ req' \in [Requests -> Request] /\ req'[r] = Idle
      /\ \A s \in Requests \ {r} : req'[s] = req[s]
  BY <1>1, <1>2, IdleRequest DEF Finish, TypeOK
<1>4. /\ Idle.pc = "idle" /\ Idle.op = "none" /\ Idle.id = None
      /\ Idle.at = 0 /\ Idle.todo = {}
  BY DEF Idle
<1>5. /\ jobs' \in [Jobs -> JobRow] /\ \A j \in Jobs : jobs'[j].id = j
      /\ \A j \in Jobs : jobs'[j] = jobs[j] \/ jobs[j].state = "absent"
      /\ \A j \in Jobs : jobs'[j].state = "absent" => jobs'[j] = jobs[j]
      /\ \A j \in Jobs : j # req[r].id => jobs'[j] = jobs[j]
  <2>1. CASE jobs' = jobs
    BY <1>1, <2>1 DEF TypeOK
  <2>2. CASE jobs' # jobs
    <3>1. PICK row \in JobRow :
            /\ req[r].id \in Jobs /\ jobs[req[r].id].state = "absent"
            /\ row.id = req[r].id /\ row.state = "queued"
            /\ jobs' = [jobs EXCEPT ![req[r].id] = row]
      BY <2>2, InsertedRow
    <3> QED
      BY <1>1, <3>1 DEF TypeOK
  <2> QED
    BY <2>1, <2>2
<1>6. TypeOK'
  BY <1>1, <1>2, <1>3, <1>5 DEF TypeOK
<1>7. Evolve
  BY <1>1, <1>2, <1>5 DEF Evolve
<1>8. (Kinds(req[r]) /\ Reads(req[r]) /\ Writes(req[r]))'
  BY <1>1, <1>2, <1>3, <1>4 DEF Kinds, Reads, Writes
<1>9. ASSUME NEW s \in Requests \ {r}, req[s].pc = "insert"
      PROVE  jobs'[req[s].id].state = "absent" /\ req'[r].id # req[s].id
  <2>1. /\ req[s].id \in Jobs /\ jobs[req[s].id].state = "absent"
        /\ req[r].id # req[s].id
    BY <1>1, <1>9 DEF HandlersConsistent, Inserts
  <2> QED
    BY <1>3, <1>4, <1>5, <2>1, NoneAssumption
<1> QED
  BY <1>3, <1>4, <1>5, <1>6, <1>7, <1>8, <1>9, Frame

\* A step of the agent or the clock moves no handler.
LEMMA EnvironmentStep ==
  ASSUME IInv,
         \/ \E b \in Builds : HeartbeatArrives(b)
         \/ HeartbeatLands
         \/ Tick
  PROVE  IInv'
<1>1. TypeOK /\ HandlersConsistent
  BY DEF IInv
<1> DEFINE Framed ==
             /\ jobs' = jobs /\ req' = req /\ updaterSeen' = updaterSeen
             /\ calls' = calls /\ now' \in Nat /\ now' >= now
             /\ agent' \in Heartbeat \cup {NoHeartbeat}
             /\ arriving' \subseteq Heartbeat /\ heard' \subseteq Heartbeat
<1>2. Framed
  <2>1. ASSUME NEW b \in Builds, HeartbeatArrives(b)
        PROVE  Framed
    <3>1. [build |-> b, seen |-> now] \in Heartbeat
      BY <1>1 DEF Heartbeat, TypeOK
    <3> QED
      BY <1>1, <2>1, <3>1 DEF HeartbeatArrives, TypeOK
  <2>2. ASSUME HeartbeatLands
        PROVE  Framed
    BY <1>1, <2>2 DEF HeartbeatLands, TypeOK
  <2>3. ASSUME Tick
        PROVE  Framed
    BY <1>1, <2>3 DEF Tick, TypeOK
  <2> QED
    BY <2>1, <2>2, <2>3
<1>3. TypeOK'
  BY <1>1, <1>2 DEF TypeOK
<1>4. Evolve
  BY <1>1, <1>2 DEF Evolve, TypeOK
<1>5. \A s \in Requests : (Kinds(req[s]) /\ Reads(req[s]) /\ Writes(req[s]))'
  BY <1>1, <1>2, <1>3, <1>4, HandlerStays
<1>6. Inserts'
  BY <1>1, <1>2 DEF HandlersConsistent, Inserts
<1>7. \A j \in Jobs : jobs'[j].state = "absent" => jobs'[j] = AbsentRow(j)
  BY <1>1, <1>2 DEF HandlersConsistent
<1> QED
  BY <1>3, <1>5, <1>6, <1>7 DEF IInv, HandlersConsistent

\* Stuttering.
LEMMA StutterStep == IInv /\ UNCHANGED vars => IInv'
<1> SUFFICES ASSUME IInv, UNCHANGED vars PROVE IInv'
  OBVIOUS
<1>1. TypeOK /\ HandlersConsistent
  BY DEF IInv
<1>2. /\ jobs' = jobs /\ req' = req /\ now' = now /\ agent' = agent
      /\ arriving' = arriving /\ heard' = heard /\ updaterSeen' = updaterSeen
      /\ calls' = calls
  BY DEF vars
<1>3. TypeOK'
  BY <1>1, <1>2 DEF TypeOK
<1>4. Evolve
  BY <1>1, <1>2 DEF Evolve, TypeOK
<1>5. \A s \in Requests : (Kinds(req[s]) /\ Reads(req[s]) /\ Writes(req[s]))'
  BY <1>1, <1>2, <1>3, <1>4, HandlerStays
<1>6. Inserts'
  BY <1>1, <1>2 DEF HandlersConsistent, Inserts
<1>7. \A j \in Jobs : jobs'[j].state = "absent" => jobs'[j] = AbsentRow(j)
  BY <1>1, <1>2 DEF HandlersConsistent
<1> QED
  BY <1>3, <1>5, <1>6, <1>7 DEF IInv, HandlersConsistent

\* A step of a handler already started keeps the inductive invariant.
LEMMA ContinueStep ==
  ASSUME IInv, NEW r \in Requests, Continue(r)
  PROVE  IInv'
BY CreateLookupStep, CreateAdmitStep, CreateInsertStep, ListStep, SweepStep, RuleStep,
   LoadClaimStep, LoadProgressStep, LoadResultStep, VerifyClaimStep,
   VerifyProgressStep, VerifyResultStep, CommitStep DEF Continue

-----------------------------------------------------------------------------
(* The invariant *)

\* The service starts in the inductive invariant.
LEMMA InitIInv == Init => IInv
<1> SUFFICES ASSUME Init PROVE IInv
  OBVIOUS
<1>1. \A j \in Jobs : AbsentRow(j) \in JobRow /\ AbsentRow(j).id = j
  BY DEF AbsentRow, JobRow, JobStates, OptBuild, OptTime
<1>2. TypeOK
  BY <1>1, IdleRequest, PolicyAssumption DEF Init, TypeOK, OptTime
<1>3. /\ Idle.pc = "idle" /\ Idle.op = "none" /\ Idle.id = None
      /\ Idle.at = 0 /\ Idle.todo = {}
  BY DEF Idle
<1>4. \A r \in Requests : req[r] = Idle
  BY DEF Init
<1>5. ASSUME NEW r \in Requests PROVE Kinds(req[r]) /\ Reads(req[r]) /\ Writes(req[r])
  BY <1>3, <1>4 DEF Kinds, Reads, Writes, Init
<1>6. Inserts
  BY <1>3, <1>4 DEF Inserts
<1>7. \A j \in Jobs : jobs[j].state = "absent" => jobs[j] = AbsentRow(j)
  BY DEF Init
<1> QED
  BY <1>2, <1>5, <1>6, <1>7 DEF IInv, HandlersConsistent

\* Every step of the service keeps the inductive invariant.
LEMMA NextIInv == IInv /\ [Next]_vars => IInv'
<1> SUFFICES ASSUME IInv, [Next]_vars PROVE IInv'
  OBVIOUS
<1>1. ASSUME NEW r \in Requests, Begin(r) PROVE IInv'
  BY <1>1, BeginStep
<1>2. ASSUME NEW r \in Requests, Continue(r) PROVE IInv'
  BY <1>2, ContinueStep
<1>3. CASE (\E b \in Builds : HeartbeatArrives(b)) \/ HeartbeatLands \/ Tick
  BY <1>3, EnvironmentStep
<1>4. CASE UNCHANGED vars
  BY <1>4, StutterStep
<1> QED
  BY <1>1, <1>2, <1>3, <1>4 DEF Next

\* Between its awaits every handler of LocalUpgradeService is consistent with
\* the rows it will write over, in every reachable state.
THEOREM Consistency == Spec => []IInv
<1> QED
  BY InitIInv, NextIInv, PTL DEF Spec

\* Every row, heartbeat and handler has its type in every reachable state.
THEOREM TypeCorrect == Spec => []TypeOK
<1>1. IInv => TypeOK
  BY DEF IInv
<1> QED
  BY <1>1, Consistency, PTL

\* What a handler knows at each await holds in every reachable state.
THEOREM HandlersStayConsistent == Spec => []HandlersConsistent
<1>1. IInv => HandlersConsistent
  BY DEF IInv
<1> QED
  BY <1>1, Consistency, PTL
-----------------------------------------------------------------------------
(* How a step changes the rows *)

\* Handler r inserts its new job.
Inserting(r) ==
  /\ ActiveIds = {} /\ ~ Replay(req[r].key)
  /\ req[r].id \in Jobs /\ jobs[req[r].id].state = "absent"
  /\ jobs[req[r].id].token = 0 /\ jobs[req[r].id].baseHeartbeat = None
  /\ jobs[req[r].id].baseBuild = None
  /\ jobs'[req[r].id].state = "queued" /\ jobs'[req[r].id].key = req[r].key
  /\ jobs'[req[r].id].token = 0 /\ jobs'[req[r].id].baseHeartbeat = None
  /\ \A j \in Jobs : j # req[r].id => jobs'[j] = jobs[j]

\* Handler r writes its proposal over the stored row it read.
Writing(r) ==
  /\ req[r].pc \in {"rule", "commit"}
  /\ req[r].old \in JobRow /\ req[r].new \in JobRow /\ req[r].old.id \in Jobs
  /\ jobs[req[r].old.id] = req[r].old /\ jobs'[req[r].old.id] = req[r].new
  /\ \A j \in Jobs : j # req[r].old.id => jobs'[j] = jobs[j]
  /\ \A s \in Requests \ {r} : req'[s] = req[s]
  /\ Kinds(req[r]) /\ Reads(req[r]) /\ Writes(req[r])

\* A step that changes a row is an insert, a ruling or the commit of an updater call.
LEMMA RowsChange ==
  ASSUME IInv, [Next]_vars
  PROVE  \/ jobs' = jobs
         \/ \E r \in Requests : Inserting(r)
         \/ \E r \in Requests : Writing(r)
<1>1. TypeOK /\ HandlersConsistent
  BY DEF IInv
<1>2. ASSUME NEW r \in Requests, CreateInsert(r), jobs' # jobs
      PROVE  Inserting(r)
  <2>1. /\ ActiveIds = {} /\ ~ Replay(req[r].key)
        /\ req[r].id \in Jobs /\ jobs[req[r].id].state = "absent"
    BY <1>2, InsertedRow
  <2>2. PICK row \in JobRow :
          /\ row.state = "queued" /\ row.key = req[r].key
          /\ row.token = 0 /\ row.baseHeartbeat = None
          /\ jobs' = [jobs EXCEPT ![req[r].id] = row]
    BY <1>2, InsertedRow
  <2>3. jobs'[req[r].id] = row /\ \A j \in Jobs : j # req[r].id => jobs'[j] = jobs[j]
    BY <1>1, <2>1, <2>2 DEF TypeOK
  <2>4. jobs[req[r].id] = AbsentRow(req[r].id)
    BY <1>1, <2>1 DEF HandlersConsistent
  <2>5. /\ AbsentRow(req[r].id).token = 0 /\ AbsentRow(req[r].id).baseHeartbeat = None
        /\ AbsentRow(req[r].id).baseBuild = None
    BY DEF AbsentRow
  <2> QED
    BY <2>1, <2>2, <2>3, <2>4, <2>5 DEF Inserting
<1>3. ASSUME NEW r \in Requests, req[r].pc \in {"rule", "commit"},
             CompareAndSet(req[r]), \A s \in Requests \ {r} : req'[s] = req[s],
             jobs' # jobs
      PROVE  Writing(r)
  <2> DEFINE old == req[r].old
             new == req[r].new
  <2>1. /\ old \in JobRow /\ new \in JobRow /\ old.id \in Jobs
        /\ jobs[old.id] = old /\ jobs' = [jobs EXCEPT ![old.id] = new]
    BY <1>3, CompareAndSetRow
  <2>2. Kinds(req[r]) /\ Reads(req[r]) /\ Writes(req[r])
    BY <1>1 DEF HandlersConsistent
  <2> HIDE DEF old, new
  <2>3. jobs'[old.id] = new /\ \A j \in Jobs : j # old.id => jobs'[j] = jobs[j]
    BY <1>1, <2>1 DEF TypeOK
  <2> QED
    BY <1>3, <2>1, <2>2, <2>3 DEF Writing, old, new
<1>4. ASSUME NEW r \in Requests, Rule(r), jobs' # jobs
      PROVE  Writing(r)
  <2>1. \A s \in Requests \ {r} : req'[s] = req[s]
    BY <1>1, <1>4 DEF Rule, NextSweep, Finish, TypeOK
  <2> QED
    BY <1>3, <1>4, <2>1 DEF Rule
<1>5. ASSUME NEW r \in Requests, Commit(r), jobs' # jobs
      PROVE  Writing(r)
  <2>1. \A s \in Requests \ {r} : req'[s] = req[s]
    BY <1>1, <1>5 DEF Commit, Finish, TypeOK
  <2> QED
    BY <1>3, <1>5, <2>1 DEF Commit
<1>6. ASSUME NEW r \in Requests, Begin(r)
      PROVE  jobs' = jobs
  BY <1>6 DEF Begin, BeginCreate, BeginRead, BeginClaim, BeginProgress, BeginResult,
              BeginReport
<1>7. ASSUME NEW r \in Requests, Continue(r)
      PROVE  jobs' = jobs \/ CreateInsert(r) \/ Rule(r) \/ Commit(r)
  BY <1>7 DEF Continue, CreateLookup, Consult, CreateAdmit, List, Sweep, LoadClaim, LoadProgress,
              LoadResult, VerifyClaim, VerifyProgress, VerifyResult
<1>8. CASE (\E b \in Builds : HeartbeatArrives(b)) \/ HeartbeatLands \/ Tick
  BY <1>8 DEF HeartbeatArrives, HeartbeatLands, Tick
<1>9. CASE UNCHANGED vars
  BY <1>9 DEF vars
<1> QED
  BY <1>2, <1>4, <1>5, <1>6, <1>7, <1>8, <1>9 DEF Next

\* What a proposal does to the row it replaces, by the kind of call.
LEMMA WritingKind ==
  ASSUME NEW r \in Requests, IInv, Writing(r)
  PROVE  LET old == req[r].old  new == req[r].new  q == req[r] IN
         \/ /\ q.pc = "commit" /\ q.op = "claim"
            /\ Active(old) /\ ~ LeaseValid(old, q.at)
            /\ new.state = IF old.state = "queued" THEN "claimed" ELSE old.state
            /\ new.token = old.token + 1 /\ new.baseHeartbeat = old.baseHeartbeat
         \/ /\ q.pc = "commit" /\ q.op = "progress"
            /\ Active(old) /\ HoldsLease(q, old) /\ q.token > 0 /\ q.input \in Phases
            /\ new.state = q.input /\ new.token = old.token
            /\ new.baseHeartbeat # None
                 <=> (old.baseHeartbeat # None \/ q.input = "restarting")
         \/ /\ q.pc = "rule" \/ q.op = "result"
            /\ \/ q.pc = "rule" /\ q.op \in {"read", "claim"} /\ Active(old)
               \/ q.op = "result" /\ Active(old) /\ HoldsLease(q, old)
               \/ old.state = "rollback_unverified" /\ q.op = "result"
            /\ new.state \in Verdicts(old) /\ new.token = old.token
            /\ new.baseHeartbeat = old.baseHeartbeat
<1> DEFINE q == req[r]
<1>1. /\ Kinds(q) /\ Reads(q) /\ Writes(q) /\ q.pc \in {"rule", "commit"}
  BY DEF Writing
<1> HIDE DEF q
<1>2. CASE q.pc = "rule"
  <2>1. q.op \in {"read", "claim"} /\ Active(q.old)
    BY <1>1, <1>2 DEF Kinds, Reads
  <2>2. /\ q.new.state \in Verdicts(q.old) /\ q.new.token = q.old.token
        /\ q.new.baseHeartbeat = q.old.baseHeartbeat
    BY <1>1, <1>2, <2>1 DEF Writes
  <2> QED
    BY <1>2, <2>1, <2>2 DEF q
<1>3. CASE q.pc = "commit" /\ q.op = "claim"
  <2>1. Active(q.old) /\ ~ LeaseValid(q.old, q.at)
    BY <1>1, <1>3 DEF Reads, MayWrite
  <2>2. /\ q.new.state = IF q.old.state = "queued" THEN "claimed" ELSE q.old.state
        /\ q.new.token = q.old.token + 1
        /\ q.new.baseHeartbeat = q.old.baseHeartbeat
    BY <1>1, <1>3 DEF Writes
  <2> QED
    BY <1>3, <2>1, <2>2 DEF q
<1>4. CASE q.pc = "commit" /\ q.op = "progress"
  <2>1. Active(q.old) /\ HoldsLease(q, q.old) /\ q.token > 0 /\ q.input \in Phases
    BY <1>1, <1>4 DEF Reads, MayWrite, Kinds
  <2>2. /\ q.new.state = q.input /\ q.new.token = q.old.token
        /\ q.new.baseHeartbeat # None
             <=> (q.old.baseHeartbeat # None \/ q.input = "restarting")
    BY <1>1, <1>4 DEF Writes
  <2> QED
    BY <1>4, <2>1, <2>2 DEF q
<1>5. CASE q.pc = "commit" /\ q.op = "result"
  <2>1. \/ Active(q.old) /\ HoldsLease(q, q.old)
        \/ q.old.state = "rollback_unverified"
    BY <1>1, <1>5 DEF Reads, MayWrite, Refinable
  <2>2. /\ q.new.state \in Verdicts(q.old) /\ q.new.token = q.old.token
        /\ q.new.baseHeartbeat = q.old.baseHeartbeat
    BY <1>1, <1>5 DEF Writes
  <2> QED
    BY <1>5, <2>1, <2>2 DEF q
<1> QED
  BY <1>1, <1>2, <1>3, <1>4, <1>5 DEF Kinds
\* A proposal over an active or settled row: who may replace what.
LEMMA WritingStates ==
  ASSUME NEW r \in Requests, IInv, Writing(r)
  PROVE  LET old == req[r].old  new == req[r].new IN
         /\ Active(new) => Active(old)
         /\ Terminal(old) =>
              /\ old.state = "rollback_unverified"
              /\ new.state \in {"rollback_unverified", "rolled_back"}
         /\ new.key = old.key
<1> DEFINE q == req[r]
<1>1. q.new.key = q.old.key
  BY DEF Writing, Writes
<1>2. CASE Active(q.old)
  BY <1>1, <1>2 DEF Active, Terminal, ActiveStates, PreSwapStates, PostSwapStates,
                    TerminalStates
<1>3. CASE ~ Active(q.old)
  <2>1. q.old.state = "rollback_unverified" /\ q.new.state \in Verdicts(q.old)
    BY <1>3, WritingKind
  <2>2. q.new.state \in {"rollback_unverified", "rolled_back"}
    BY <1>3, <2>1 DEF Verdicts, PreSwapStates
  <2> QED
    BY <1>1, <2>1, <2>2 DEF Active, Terminal, ActiveStates, PreSwapStates, PostSwapStates
<1> QED
  BY <1>2, <1>3

-----------------------------------------------------------------------------
(* Theorems *)

\* However many createJob calls race, the host never has two upgrades in flight.
THEOREM OneActiveJobAlways == Spec => []OneActiveJob
<1>1. Init => OneActiveJob
  <2>1. \A j \in Jobs : AbsentRow(j).state = "absent"
    BY DEF AbsentRow
  <2>2. "absent" \notin ActiveStates
    BY DEF ActiveStates, PreSwapStates, PostSwapStates
  <2> QED
    BY <2>1, <2>2 DEF Init, OneActiveJob, ActiveIds, Active
<1>2. IInv /\ OneActiveJob /\ [Next]_vars => OneActiveJob'
  <2> SUFFICES ASSUME IInv, OneActiveJob, [Next]_vars PROVE OneActiveJob'
    OBVIOUS
  <2>1. CASE jobs' = jobs
    BY <2>1 DEF OneActiveJob, ActiveIds, Active
  <2>2. ASSUME NEW r \in Requests, Inserting(r) PROVE OneActiveJob'
    <3>1. \A j \in Jobs : ~ Active(jobs[j])
      BY <2>2 DEF Inserting, ActiveIds
    <3>2. \A j \in Jobs : j # req[r].id => jobs'[j] = jobs[j]
      BY <2>2 DEF Inserting
    <3> QED
      BY <3>1, <3>2 DEF OneActiveJob, ActiveIds, Active
  <2>3. ASSUME NEW r \in Requests, Writing(r) PROVE OneActiveJob'
    <3>1. Active(req[r].new) => Active(req[r].old)
      BY <2>3, WritingStates
    <3>2. /\ jobs[req[r].old.id] = req[r].old /\ jobs'[req[r].old.id] = req[r].new
          /\ \A j \in Jobs : j # req[r].old.id => jobs'[j] = jobs[j]
      BY <2>3 DEF Writing
    <3>3. \A j \in Jobs : Active(jobs'[j]) => Active(jobs[j])
      BY <3>1, <3>2
    <3> QED
      BY <3>3 DEF OneActiveJob, ActiveIds, Active
  <2> QED
    BY <2>1, <2>2, <2>3, RowsChange
<1> QED
  BY <1>1, <1>2, Consistency, PTL DEF Spec

\* An idempotency key never names two jobs, however create calls are retried.
THEOREM KeysAlwaysIdentifyJobs == Spec => []KeysIdentifyJobs
<1>1. Init => KeysIdentifyJobs
  BY DEF Init, KeysIdentifyJobs, AbsentRow
<1>2. IInv /\ KeysIdentifyJobs /\ [Next]_vars => KeysIdentifyJobs'
  <2> SUFFICES ASSUME IInv, KeysIdentifyJobs, [Next]_vars PROVE KeysIdentifyJobs'
    OBVIOUS
  <2>1. CASE jobs' = jobs
    BY <2>1 DEF KeysIdentifyJobs
  <2>2. ASSUME NEW r \in Requests, Inserting(r) PROVE KeysIdentifyJobs'
    <3>1. ~ Replay(req[r].key) /\ jobs'[req[r].id].key = req[r].key
          /\ \A j \in Jobs : j # req[r].id => jobs'[j] = jobs[j]
      BY <2>2 DEF Inserting
    <3> QED
      BY <3>1 DEF KeysIdentifyJobs, Replay
  <2>3. ASSUME NEW r \in Requests, Writing(r) PROVE KeysIdentifyJobs'
    <3>1. req[r].new.key = req[r].old.key
      BY <2>3, WritingStates
    <3>2. \A j \in Jobs : jobs'[j].key = jobs[j].key
      BY <2>3, <3>1 DEF Writing
    <3> QED
      BY <3>2 DEF KeysIdentifyJobs
  <2> QED
    BY <2>1, <2>2, <2>3, RowsChange
<1> QED
  BY <1>1, <1>2, Consistency, PTL DEF Spec

\* A settled job is never changed again, except for a rollback refinement.
THEOREM SettledStaysSettled == Spec => SettledForGood
<1>1. IInv /\ [Next]_vars =>
        \A j \in Jobs : Terminal(jobs[j]) =>
          \/ jobs'[j] = jobs[j]
          \/ /\ jobs[j].state = "rollback_unverified"
             /\ jobs'[j].state \in {"rollback_unverified", "rolled_back"}
  <2> SUFFICES ASSUME IInv, [Next]_vars, NEW j \in Jobs, Terminal(jobs[j]),
                      jobs'[j] # jobs[j]
               PROVE  /\ jobs[j].state = "rollback_unverified"
                      /\ jobs'[j].state \in {"rollback_unverified", "rolled_back"}
    OBVIOUS
  <2>1. ASSUME NEW r \in Requests, Inserting(r) PROVE FALSE
    BY <2>1 DEF Inserting, Terminal, TerminalStates
  <2>2. PICK r \in Requests : Writing(r)
    BY <2>1, RowsChange
  <2>3. /\ j = req[r].old.id /\ jobs[j] = req[r].old /\ jobs'[j] = req[r].new
    BY <2>2 DEF Writing
  <2> QED
    BY <2>2, <2>3, WritingStates
<1> QED
  BY <1>1, Consistency, PTL DEF Spec, SettledForGood

\* The fencing token moves only when no lease is running.
THEOREM LeaseAlwaysProtectsOwner == Spec => LeaseProtectsOwner
<1>1. IInv /\ [Next]_vars =>
        \A j \in Jobs : jobs'[j].token # jobs[j].token =>
          /\ jobs'[j].token = jobs[j].token + 1
          /\ jobs[j].lease = None \/ jobs[j].lease < now
  <2> SUFFICES ASSUME IInv, [Next]_vars, NEW j \in Jobs,
                      jobs'[j].token # jobs[j].token
               PROVE  /\ jobs'[j].token = jobs[j].token + 1
                      /\ jobs[j].lease = None \/ jobs[j].lease < now
    OBVIOUS
  <2>1. ASSUME NEW r \in Requests, Inserting(r) PROVE FALSE
    BY <2>1 DEF Inserting
  <2>2. PICK r \in Requests : Writing(r)
    BY <2>1, RowsChange
  <2>3. /\ j = req[r].old.id /\ jobs[j] = req[r].old /\ jobs'[j] = req[r].new
    BY <2>2 DEF Writing
  <2>4. req[r].new.token = req[r].old.token + 1 /\ ~ LeaseValid(req[r].old, req[r].at)
    BY <2>2, <2>3, WritingKind
  <2>5. req[r].at <= now /\ req[r].at \in Nat /\ now \in Nat
    BY DEF IInv, TypeOK, HandlersConsistent, Reads, Request
  <2>6. jobs[j].lease = None \/ jobs[j].lease \in Nat
    BY DEF IInv, TypeOK, JobRow, OptTime
  <2> QED
    BY <2>3, <2>4, <2>5, <2>6 DEF LeaseValid
<1> QED
  BY <1>1, Consistency, PTL DEF Spec, LeaseProtectsOwner

\* No report of a previous owner changes an active job.
THEOREM ReportsAlwaysFenced == Spec => ReportsAreFenced
<1>1. IInv /\ [Next]_vars =>
        \A r \in Requests, j \in Jobs :
          /\ req[r].op \in {"progress", "result"}
          /\ req'[r] # req[r]
          /\ Active(jobs[j]) /\ jobs'[j] # jobs[j]
          => req[r].token = jobs[j].token
  <2> SUFFICES ASSUME IInv, [Next]_vars, NEW r \in Requests, NEW j \in Jobs,
                      req[r].op \in {"progress", "result"}, req'[r] # req[r],
                      Active(jobs[j]), jobs'[j] # jobs[j]
               PROVE  req[r].token = jobs[j].token
    OBVIOUS
  <2>1. ASSUME NEW s \in Requests, Inserting(s) PROVE FALSE
    BY <2>1 DEF Inserting, Active, ActiveStates, PreSwapStates, PostSwapStates
  <2>2. PICK s \in Requests : Writing(s)
    BY <2>1, RowsChange
  <2>3. s = r /\ jobs[j] = req[r].old
    BY <2>2 DEF Writing
  <2>4. HoldsLease(req[r], req[r].old)
    BY <2>2, <2>3, WritingKind DEF Active, ActiveStates, PreSwapStates, PostSwapStates
  <2> QED
    BY <2>3, <2>4 DEF HoldsLease
<1> QED
  BY <1>1, Consistency, PTL DEF Spec, ReportsAreFenced

\* The recorded pre-swap heartbeat and replaced build are never overwritten.
THEOREM BaselineStaysPinned == Spec => BaselinePinned
<1>1. IInv /\ [Next]_vars =>
        \A j \in Jobs :
          /\ jobs[j].baseHeartbeat # None =>
               jobs'[j].baseHeartbeat = jobs[j].baseHeartbeat
          /\ jobs[j].baseBuild # None => jobs'[j].baseBuild = jobs[j].baseBuild
  <2> SUFFICES ASSUME IInv, [Next]_vars, NEW j \in Jobs, jobs'[j] # jobs[j]
               PROVE  /\ jobs[j].baseHeartbeat # None =>
                           jobs'[j].baseHeartbeat = jobs[j].baseHeartbeat
                      /\ jobs[j].baseBuild # None =>
                           jobs'[j].baseBuild = jobs[j].baseBuild
    OBVIOUS
  <2>1. ASSUME NEW r \in Requests, Inserting(r) PROVE j = req[r].id
    BY <2>1 DEF Inserting
  <2>2. CASE \E r \in Requests : Inserting(r)
    BY <2>1, <2>2 DEF Inserting
  <2>3. CASE \E r \in Requests : Writing(r)
    <3>1. PICK r \in Requests : Writing(r)
      BY <2>3
    <3> QED
      BY <3>1 DEF Writing, Writes
  <2> QED
    BY <2>2, <2>3, RowsChange
<1> QED
  BY <1>1, Consistency, PTL DEF Spec, BaselinePinned
-----------------------------------------------------------------------------
(* Verdicts rest on heartbeats. *)

\* A heartbeat once received stays evidence.
LEMMA EvidenceStays ==
  ASSUME heard \subseteq heard', NEW row, HasEvidence(row)
  PROVE  HasEvidence(row)'
BY DEF HasEvidence, SuccessHasEvidence, RollbackHasEvidence

\* Only two verdicts need evidence.
LEMMA NeedsNoEvidence ==
  ASSUME NEW row, row.state \notin {"succeeded", "rolled_back"}
  PROVE  HasEvidence(row)
BY DEF HasEvidence, SuccessHasEvidence, RollbackHasEvidence

\* A heartbeat that confirms the target is evidence of the success.
LEMMA TargetIsEvidence ==
  ASSUME agent = NoHeartbeat \/ agent \in heard,
         NEW row \in JobRow, ConfirmsTarget(row)
  PROVE  HasEvidence(Settle(row, "succeeded"))
<1> DEFINE new == Settle(row, "succeeded")
<1>1. /\ new.state = "succeeded" /\ new.release = row.release
      /\ new.baseHeartbeat = row.baseHeartbeat
  BY SettleRow DEF TerminalStates
<1> HIDE DEF new
<1>2. agent \in heard
  BY DEF ConfirmsTarget, Fresh, NoHeartbeat
<1>3. HasEvidence(new)
  BY <1>1, <1>2 DEF HasEvidence, SuccessHasEvidence, RollbackHasEvidence, ConfirmsTarget,
                    AfterBaseline
<1> QED
  BY <1>3 DEF new

\* A heartbeat that confirms the baseline is evidence of the rollback.
LEMMA BaselineIsEvidence ==
  ASSUME agent = NoHeartbeat \/ agent \in heard, NEW row \in JobRow
  PROVE  HasEvidence(Settle(row, RollbackVerdict(row)))
<1> DEFINE v == RollbackVerdict(row)
           new == Settle(row, v)
<1>1. /\ v \in {"rolled_back", "rollback_unverified"}
      /\ v = "rolled_back" => ConfirmsBaseline(row)
  BY DEF RollbackVerdict
<1>2. v \in TerminalStates
  BY <1>1 DEF TerminalStates
<1> HIDE DEF v
<1>3. /\ new.state = v /\ new.baseBuild = row.baseBuild
      /\ new.baseHeartbeat = row.baseHeartbeat
  BY <1>2, SettleRow
<1> HIDE DEF new
<1>4. ASSUME v = "rollback_unverified" PROVE HasEvidence(new)
  BY <1>3, <1>4, NeedsNoEvidence
<1>5. ASSUME v = "rolled_back" PROVE HasEvidence(new)
  <2>1. agent \in heard
    BY <1>1, <1>5 DEF ConfirmsBaseline, Fresh, NoHeartbeat
  <2> QED
    BY <1>1, <1>3, <1>5, <2>1
       DEF HasEvidence, SuccessHasEvidence, RollbackHasEvidence, ConfirmsBaseline, AfterBaseline
<1>6. HasEvidence(new)
  BY <1>1, <1>2, <1>4, <1>5
<1> QED
  BY <1>6 DEF new, v

\* A step of a started handler leaves it with nothing to write, or with a row
\* that has its evidence.
LEMMA ProposalHasEvidence ==
  ASSUME IInv, ProposalsHaveEvidence, NEW r \in Requests, Continue(r)
  PROVE  req'[r].pc \in {"rule", "commit"} => HasEvidence(req'[r].new)
<1>1. /\ TypeOK /\ req[r] \in Request /\ Kinds(req[r]) /\ Reads(req[r])
      /\ agent = NoHeartbeat \/ agent \in heard
      /\ agent \in Heartbeat \cup {NoHeartbeat}
  BY DEF IInv, TypeOK, HandlersConsistent, ProposalsHaveEvidence
<1> SUFFICES ASSUME req'[r].pc \in {"rule", "commit"} PROVE HasEvidence(req'[r].new)
  OBVIOUS
<1>2. Idle.pc = "idle"
  BY DEF Idle
<1>3. ASSUME Finish(r) PROVE FALSE
  BY <1>1, <1>2, <1>3 DEF Finish, TypeOK
<1>4. ASSUME NEW rows, NextSweep(r, rows) PROVE FALSE
  BY <1>1, <1>3, <1>4 DEF NextSweep, TypeOK, Request
<1>5. CASE Sweep(r)
  <2>1. PICK row \in req[r].todo, v \in {"succeeded", "failed", "rollback_unverified"} :
          /\ req' = [req EXCEPT ![r].pc = "rule", ![r].old = row,
                                ![r].new = Settle(row, v)]
          /\ v = "succeeded" => ConfirmsTarget(row)
    BY <1>4, <1>5 DEF Sweep, DeadlineRuling
  <2>2. row \in JobRow
    BY <1>1 DEF Request
  <2>3. req'[r].new = Settle(row, v)
    BY <1>1, <2>1 DEF TypeOK, Request
  <2>4. CASE v = "succeeded"
    BY <1>1, <2>1, <2>2, <2>3, <2>4, TargetIsEvidence
  <2>5. CASE v # "succeeded"
    <3>1. v \in {"failed", "rollback_unverified"} /\ v \in TerminalStates
      BY <2>1, <2>5 DEF DeadlineRuling, TerminalStates
    <3>2. Settle(row, v).state = v
      BY <2>2, <3>1, SettleRow
    <3> QED
      BY <2>3, <3>1, <3>2, NeedsNoEvidence
  <2> QED
    BY <2>4, <2>5
<1>6. CASE LoadResult(r)
  <2> DEFINE row == jobs[req[r].id]
             v == IF req[r].input = "failed" THEN FailedVerdict(row) ELSE "rollback_unverified"
  <2>1. req' = [req EXCEPT ![r].pc = "commit", ![r].old = row, ![r].new = Settle(row, v)]
    BY <1>1, <1>3, <1>6 DEF LoadResult, TypeOK, Request
  <2>2. row \in JobRow
    BY <1>1, <1>6 DEF Kinds, LoadResult, TypeOK
  <2>3. v \in {"failed", "rollback_unverified"} /\ v \in TerminalStates
    BY DEF FailedVerdict, TerminalStates
  <2> HIDE DEF v, row
  <2>4. req'[r].new = Settle(row, v)
    BY <1>1, <2>1 DEF TypeOK, Request
  <2>5. Settle(row, v).state = v
    BY <2>2, <2>3, SettleRow
  <2> QED
    BY <2>3, <2>4, <2>5, NeedsNoEvidence
<1>7. CASE VerifyClaim(r)
  <2> DEFINE old == req[r].old
             new == ClaimedRow(old, req[r].at)
  <2>1. req'[r].new = new
    BY <1>1, <1>7 DEF VerifyClaim, Propose, TypeOK, Request
  <2>2. old \in JobRow /\ Active(old) /\ req[r].at \in Nat
    BY <1>1, <1>7 DEF VerifyClaim, Reads, MayWrite, Request
  <2>3. old.state # "absent"
    BY <2>2 DEF Active, ActiveStates, PreSwapStates, PostSwapStates
  <2>4. new.state = IF old.state = "queued" THEN "claimed" ELSE old.state
    BY <1>1, <2>2, <2>3, ClaimRow
  <2> HIDE DEF new
  <2> QED
    BY <2>1, <2>2, <2>4, NeedsNoEvidence
       DEF Active, ActiveStates, PreSwapStates, PostSwapStates
<1>8. CASE VerifyProgress(r)
  <2> DEFINE old == req[r].old
             new == ProgressedRow(old, req[r].input, req[r].at)
  <2>1. req'[r].new = new
    BY <1>1, <1>8 DEF VerifyProgress, Propose, TypeOK, Request
  <2>2. old \in JobRow /\ req[r].input \in Phases /\ req[r].at \in Nat
    BY <1>1, <1>8 DEF VerifyProgress, Reads, Kinds, Request
  <2> HIDE DEF old
  <2>3. new.state = req[r].input
    BY <1>1, <2>2, ProgressRow
  <2> HIDE DEF new
  <2> QED
    BY <2>1, <2>2, <2>3, NeedsNoEvidence, PolicyAssumption DEF ProgressPhases, PostSwapStates
<1>9. CASE VerifyResult(r)
  <2> DEFINE old == req[r].old
  <2>1. old \in JobRow
    BY <1>1, <1>9 DEF VerifyResult, Reads, Request
  <2>2. CASE req[r].input = "rolled_back"
    <3>1. req'[r].new = Settle(old, RollbackVerdict(old))
      BY <1>1, <1>9, <2>2 DEF VerifyResult, Propose, TypeOK, Request
    <3> QED
      BY <1>1, <2>1, <3>1, BaselineIsEvidence
  <2>3. CASE req[r].input # "rolled_back"
    <3>1. ConfirmsTarget(old) /\ req'[r].new = Settle(old, "succeeded")
      BY <1>1, <1>3, <1>9, <2>3 DEF VerifyResult, Propose, TypeOK, Request
    <3> QED
      BY <1>1, <2>1, <3>1, TargetIsEvidence
  <2> QED
    BY <2>2, <2>3
<1>10. ASSUME CreateLookup(r) \/ CreateAdmit(r) \/ CreateInsert(r) \/ List(r) \/ Rule(r)
              \/ LoadClaim(r) \/ LoadProgress(r)
       PROVE FALSE
  <2>1. CASE CreateLookup(r) \/ CreateInsert(r)
    BY <1>1, <1>3, <2>1 DEF CreateLookup, Consult, CreateInsert, Goto, TypeOK, Request
  <2>2. CASE CreateAdmit(r)
    <3>0. PICK j \in Jobs : \E n :
            req' = [req EXCEPT ![r].pc = "insert", ![r].id = j, ![r].new = n]
      BY <1>3, <2>2 DEF CreateAdmit
    <3>1. PICK n : req' = [req EXCEPT ![r].pc = "insert", ![r].id = j, ![r].new = n]
      BY <3>0
    <3>2. req'[r] = [req[r] EXCEPT !.pc = "insert", !.id = j, !.new = n]
      BY <1>1, <3>1 DEF TypeOK
    <3> QED
      BY <1>1, <3>2 DEF Request
  <2>3. CASE List(r) \/ Rule(r)
    BY <1>4, <2>3 DEF List, Rule
  <2>4. CASE LoadClaim(r) \/ LoadProgress(r)
    BY <1>1, <1>3, <2>4 DEF LoadClaim, LoadProgress, TypeOK, Request
  <2> QED
    BY <1>10, <2>1, <2>2, <2>3, <2>4
<1>11. CASE Commit(r)
  BY <1>1, <1>3, <1>11 DEF Commit, TypeOK, Request
<1> QED
  BY <1>5, <1>6, <1>7, <1>8, <1>9, <1>10, <1>11 DEF Continue

\* Every step keeps the evidence of the verdicts, proposed and stored.
LEMMA EvidenceStep ==
  ASSUME IInv, RulingsHaveEvidence, [Next]_vars
  PROVE  RulingsHaveEvidence'
<1>1. /\ TypeOK /\ ProposalsHaveEvidence /\ \A j \in Jobs : HasEvidence(jobs[j])
      /\ agent = NoHeartbeat \/ agent \in heard
  BY DEF IInv, RulingsHaveEvidence, ProposalsHaveEvidence
<1>2. /\ heard \subseteq heard'
      /\ agent' = NoHeartbeat \/ agent' \in heard'
  <2>1. ASSUME NEW r \in Requests, Begin(r) \/ Continue(r)
        PROVE  agent' = agent /\ heard' = heard
    BY <2>1 DEF Begin, BeginCreate, BeginRead, BeginClaim, BeginProgress, BeginResult,
                BeginReport, Continue, CreateLookup, Consult, CreateAdmit, CreateInsert, List, Sweep,
                Rule, LoadClaim, LoadProgress, LoadResult, VerifyClaim, VerifyProgress,
                VerifyResult, Commit
  <2>2. CASE (\E b \in Builds : HeartbeatArrives(b)) \/ Tick \/ UNCHANGED vars
    BY <1>1, <2>2 DEF HeartbeatArrives, Tick, vars
  <2>3. CASE HeartbeatLands
    BY <2>3 DEF HeartbeatLands
  <2> QED
    BY <1>1, <2>1, <2>2, <2>3 DEF Next
<1>3. ASSUME NEW r \in Requests, req'[r].pc \in {"rule", "commit"}
      PROVE  HasEvidence(req'[r].new)
  <2>1. CASE Continue(r)
    BY <1>1, <1>3, <2>1, ProposalHasEvidence
  <2>2. CASE req'[r] = req[r]
    BY <1>1, <1>3, <2>2 DEF ProposalsHaveEvidence
  <2>3. ASSUME NEW s \in Requests, Continue(s) PROVE req'[r] = req[r] \/ s = r
    BY <1>1, <2>3 DEF Continue, CreateLookup, Consult, CreateAdmit, CreateInsert, List, Sweep,
                Rule, LoadClaim, LoadProgress, LoadResult, VerifyClaim, VerifyProgress,
                VerifyResult, Commit, Finish, Goto, Propose, NextSweep, TypeOK
  <2>4. ASSUME NEW s \in Requests, Begin(s) PROVE req'[r] = req[r]
    <3>1. ASSUME BeginRead(s) \/ BeginClaim(s) PROVE req'[r] = req[r]
      BY <1>1, <1>3, <3>1 DEF BeginRead, BeginClaim, Start, Idle, TypeOK
    <3>2. ASSUME NEW b \in Builds, NEW k \in Keys \cup {None}, BeginCreate(s, b, k)
          PROVE  req'[r] = req[r]
      BY <1>1, <1>3, <3>2 DEF BeginCreate, Start, Idle, TypeOK
    <3>3. ASSUME NEW op, NEW j, NEW t, NEW i, BeginReport(s, op, j, t, i)
          PROVE  req'[r] = req[r]
      BY <1>1, <1>3, <3>3 DEF BeginReport, Start, Idle, TypeOK
    <3> QED
      BY <2>4, <3>1, <3>2, <3>3 DEF Begin, BeginProgress, BeginResult
  <2>5. CASE (\E b \in Builds : HeartbeatArrives(b)) \/ HeartbeatLands \/ Tick \/ UNCHANGED vars
    BY <2>2, <2>5 DEF HeartbeatArrives, HeartbeatLands, Tick, vars
  <2> QED
    BY <2>1, <2>2, <2>3, <2>4, <2>5 DEF Next
<1>4. ASSUME NEW j \in Jobs PROVE HasEvidence(jobs'[j])
  <2>1. CASE jobs'[j] = jobs[j]
    BY <1>1, <2>1
  <2>2. CASE \E r \in Requests : Inserting(r)
    <3>1. PICK r \in Requests : Inserting(r)
      BY <2>2
    <3>2. CASE j = req[r].id
      <4>1. jobs'[j].state = "queued"
        BY <3>1, <3>2 DEF Inserting
      <4> QED
        BY <4>1, NeedsNoEvidence
    <3> QED
      BY <2>1, <3>1, <3>2 DEF Inserting
  <2>3. CASE \E r \in Requests : Writing(r)
    <3>1. PICK r \in Requests : Writing(r)
      BY <2>3
    <3>2. HasEvidence(req[r].new)
      BY <1>1, <3>1 DEF Writing, ProposalsHaveEvidence
    <3> QED
      BY <2>1, <3>1, <3>2 DEF Writing
  <2> QED
    BY <2>1, <2>2, <2>3, RowsChange
<1>5. \A j \in Jobs : HasEvidence(jobs[j])'
  <2> SUFFICES ASSUME NEW j \in Jobs PROVE HasEvidence(jobs[j])'
    OBVIOUS
  <2>1. PICK row : row = jobs'[j]
    OBVIOUS
  <2>2. HasEvidence(row)
    BY <1>4, <2>1
  <2>3. HasEvidence(row)'
    BY <1>2, <2>2, EvidenceStays
  <2> QED
    BY <2>1, <2>3 DEF HasEvidence, SuccessHasEvidence, RollbackHasEvidence
<1>6. ASSUME NEW r \in Requests, req'[r].pc \in {"rule", "commit"}
      PROVE  HasEvidence(req[r].new)'
  <2>1. PICK row : row = req'[r].new
    OBVIOUS
  <2>2. HasEvidence(row)
    BY <1>3, <1>6, <2>1
  <2>3. HasEvidence(row)'
    BY <1>2, <2>2, EvidenceStays
  <2> QED
    BY <2>1, <2>3 DEF HasEvidence, SuccessHasEvidence, RollbackHasEvidence
<1> QED
  BY <1>2, <1>5, <1>6 DEF RulingsHaveEvidence, ProposalsHaveEvidence

\* A job is ruled succeeded or rolled back only on a heartbeat the API received,
\* of the right build and later than the pinned one, in every reachable state.
THEOREM RulingsAlwaysHaveEvidence == Spec => []RulingsHaveEvidence
<1>1. Init => RulingsHaveEvidence
  <2> SUFFICES ASSUME Init PROVE RulingsHaveEvidence
    OBVIOUS
  <2>1. Idle.pc = "idle" /\ \A j \in Jobs : AbsentRow(j).state = "absent"
    BY DEF Idle, AbsentRow
  <2>2. \A j \in Jobs : HasEvidence(jobs[j])
    BY <2>1, NeedsNoEvidence DEF Init
  <2> QED
    BY <2>1, <2>2 DEF Init, RulingsHaveEvidence, ProposalsHaveEvidence
<1> QED
  BY <1>1, EvidenceStep, Consistency, PTL DEF Spec

-----------------------------------------------------------------------------
(* The service implements UpgradeJob: each write is one step of the promise. *)

\* A claim's write is a Claim.
LEMMA ClaimIsPromised ==
  ASSUME NEW r \in Requests, NEW i \in Jobs, i = req[r].old.id, IInv, Writing(r),
         req[r].pc = "commit", req[r].op = "claim"
  PROVE  Promise!Claim(i)
<1> DEFINE old == req[r].old
           new == req[r].new
<1>1. /\ Active(old) /\ new.token = old.token + 1
      /\ new.state = IF old.state = "queued" THEN "claimed" ELSE old.state
      /\ new.baseHeartbeat = old.baseHeartbeat
  BY WritingKind
<1>2. /\ i \in Jobs /\ jobs[i] = old /\ jobs'[i] = new
      /\ \A j \in Jobs : j # i => jobs'[j] = jobs[j]
  BY DEF Writing
<1> HIDE DEF old, new
<1>3. jobs[i].state \in Promise!Live
  BY <1>1, <1>2 DEF Active, ActiveStates, Promise!Live, Promise!PreSwap, Promise!PostSwap,
                    PreSwapStates, PostSwapStates
<1>4. [j \in Jobs |-> jobs'[j].state] =
        [[j \in Jobs |-> jobs[j].state] EXCEPT ![i] = IF @ = "queued" THEN "claimed" ELSE @]
  BY <1>1, <1>2
<1>5. [j \in Jobs |-> jobs'[j].token] =
        [[j \in Jobs |-> jobs[j].token] EXCEPT ![i] = @ + 1]
  BY <1>1, <1>2
<1>6. [j \in Jobs |-> jobs'[j].baseHeartbeat # None] =
        [j \in Jobs |-> jobs[j].baseHeartbeat # None]
  <2>1. \A j \in Jobs : jobs'[j].baseHeartbeat = jobs[j].baseHeartbeat
    BY <1>1, <1>2
  <2> QED
    BY <2>1
<1>7. Promise!Claim(i)
  BY <1>2, <1>3, <1>4, <1>5, <1>6 DEF Promise!Claim
<1> QED
  BY <1>7

\* A progress report's write is an Advance.
LEMMA ProgressIsPromised ==
  ASSUME NEW r \in Requests, NEW i \in Jobs, i = req[r].old.id, IInv, Writing(r),
         req[r].pc = "commit", req[r].op = "progress"
  PROVE  Promise!Advance(i)
<1> DEFINE old == req[r].old
           new == req[r].new
           p == req[r].input
<1>1. /\ Active(old) /\ HoldsLease(req[r], old) /\ req[r].token > 0
      /\ p \in Phases /\ new.state = p /\ new.token = old.token
      /\ new.baseHeartbeat # None <=> (old.baseHeartbeat # None \/ p = "restarting")
  BY WritingKind
<1>2. /\ i \in Jobs /\ jobs[i] = old /\ jobs'[i] = new
      /\ \A j \in Jobs : j # i => jobs'[j] = jobs[j]
  BY DEF Writing
<1>3. old.token > 0
  BY <1>1 DEF HoldsLease
<1> HIDE DEF old, new, p
<1>4. jobs[i].state \in Promise!Live
  BY <1>1, <1>2 DEF Active, ActiveStates, Promise!Live, Promise!PreSwap, Promise!PostSwap,
                    PreSwapStates, PostSwapStates
<1>5. p \in Promise!Live \ {"queued", "claimed"}
  BY <1>1, PolicyAssumption DEF ProgressPhases, PostSwapStates, Promise!Live,
                                Promise!PreSwap, Promise!PostSwap
<1>6. [j \in Jobs |-> jobs'[j].state] = [[j \in Jobs |-> jobs[j].state] EXCEPT ![i] = p]
  BY <1>1, <1>2
<1>7. [j \in Jobs |-> jobs'[j].token] = [j \in Jobs |-> jobs[j].token]
  <2>1. \A j \in Jobs : jobs'[j].token = jobs[j].token
    BY <1>1, <1>2
  <2> QED
    BY <2>1
<1>8. [j \in Jobs |-> jobs'[j].baseHeartbeat # None] =
        [[j \in Jobs |-> jobs[j].baseHeartbeat # None] EXCEPT ![i] = @ \/ p = "restarting"]
  BY <1>1, <1>2
<1>9. Promise!Advance(i)
  BY <1>2, <1>3, <1>4, <1>5, <1>6, <1>7, <1>8 DEF Promise!Advance
<1> QED
  BY <1>9

\* A verdict's write is a Settle, a Refine or (unverified again) invisible.
LEMMA VerdictIsPromised ==
  ASSUME NEW r \in Requests, NEW i \in Jobs, i = req[r].old.id, IInv, Writing(r),
         req[r].pc = "rule" \/ req[r].op = "result"
  PROVE  \/ Promise!Settle(i)
         \/ Promise!Refine(i)
         \/ UNCHANGED Promise!board
<1> DEFINE old == req[r].old
           new == req[r].new
<1>1. /\ Active(old) \/ old.state = "rollback_unverified"
      /\ new.state \in Verdicts(old) /\ new.token = old.token
      /\ new.baseHeartbeat = old.baseHeartbeat
  <2>1. Kinds(req[r]) /\ req[r].pc \in {"rule", "commit"}
    BY DEF Writing
  <2> QED
    BY <2>1, WritingKind DEF Kinds
<1>2. /\ i \in Jobs /\ jobs[i] = old /\ jobs'[i] = new
      /\ \A j \in Jobs : j # i => jobs'[j] = jobs[j]
  BY DEF Writing
<1> HIDE DEF old, new
<1> DEFINE v == new.state
<1>3. [j \in Jobs |-> jobs'[j].state] = [[j \in Jobs |-> jobs[j].state] EXCEPT ![i] = v]
  BY <1>2
<1>4. [j \in Jobs |-> jobs'[j].token] = [j \in Jobs |-> jobs[j].token]
  <2>1. \A j \in Jobs : jobs'[j].token = jobs[j].token
    BY <1>1, <1>2
  <2> QED
    BY <2>1
<1>5. [j \in Jobs |-> jobs'[j].baseHeartbeat # None] =
        [j \in Jobs |-> jobs[j].baseHeartbeat # None]
  <2>1. \A j \in Jobs : jobs'[j].baseHeartbeat = jobs[j].baseHeartbeat
    BY <1>1, <1>2
  <2> QED
    BY <2>1
<1>6. v \in Verdicts(old)
  BY <1>1
<1> HIDE DEF v
<1>7. CASE Active(old)
  <2>1. jobs[i].state \in Promise!Live
    BY <1>2, <1>7 DEF Active, ActiveStates, Promise!Live, Promise!PreSwap,
                      Promise!PostSwap, PreSwapStates, PostSwapStates
  <2>2. v \in {"succeeded", "rollback_unverified"}
              \cup (IF old.baseHeartbeat # None THEN {"rolled_back"} ELSE {})
              \cup (IF old.state \in Promise!PreSwap THEN {"failed"} ELSE {})
    BY <1>6 DEF Verdicts, PreSwapStates, Promise!PreSwap
  <2>3. Promise!Settle(i)
    BY <1>2, <1>3, <1>4, <1>5, <2>1, <2>2 DEF Promise!Settle
  <2> QED
    BY <2>3
<1>8. CASE old.state = "rollback_unverified" /\ v = "rolled_back"
  <2>1. old.baseHeartbeat # None
    BY <1>6, <1>8 DEF Verdicts
  <2>2. Promise!Refine(i)
    BY <1>2, <1>3, <1>4, <1>5, <1>8, <2>1 DEF Promise!Refine
  <2> QED
    BY <2>2
<1>9. CASE old.state = "rollback_unverified" /\ v # "rolled_back"
  <2>1. v = "rollback_unverified"
    BY <1>6, <1>9 DEF Verdicts, Active, ActiveStates, PreSwapStates, PostSwapStates
  <2>2. \A j \in Jobs : jobs'[j].state = jobs[j].state
    BY <1>2, <1>9, <2>1 DEF v
  <2>3. [j \in Jobs |-> jobs'[j].state] = [j \in Jobs |-> jobs[j].state]
    BY <2>2
  <2> QED
    BY <1>4, <1>5, <2>3 DEF Promise!board
<1> QED
  BY <1>1, <1>7, <1>8, <1>9

\* An insert is a Create.
LEMMA InsertIsPromised ==
  ASSUME NEW r \in Requests, NEW i \in Jobs, i = req[r].id, IInv, Inserting(r)
  PROVE  Promise!Create(i)
<1>1. /\ i \in Jobs /\ jobs[i].state = "absent" /\ jobs'[i].state = "queued"
      /\ jobs'[i].token = jobs[i].token
      /\ jobs'[i].baseHeartbeat = jobs[i].baseHeartbeat
      /\ \A j \in Jobs : j # i => jobs'[j] = jobs[j]
      /\ \A j \in Jobs : jobs[j].state \notin ActiveStates
  BY DEF Inserting, ActiveIds, Active
<1>2. \A j \in Jobs : jobs[j].state \notin Promise!Live
  BY <1>1 DEF ActiveStates, PreSwapStates, PostSwapStates, Promise!Live,
              Promise!PreSwap, Promise!PostSwap
<1>3. [j \in Jobs |-> jobs'[j].state] =
        [[j \in Jobs |-> jobs[j].state] EXCEPT ![i] = "queued"]
  BY <1>1
<1>4. \A j \in Jobs : /\ jobs'[j].token = jobs[j].token
                       /\ jobs'[j].baseHeartbeat = jobs[j].baseHeartbeat
  BY <1>1
<1>5. [j \in Jobs |-> jobs'[j].token] = [j \in Jobs |-> jobs[j].token]
  BY <1>4
<1>6. [j \in Jobs |-> jobs'[j].baseHeartbeat # None] =
        [j \in Jobs |-> jobs[j].baseHeartbeat # None]
  BY <1>4
<1>7. Promise!Create(i)
  BY <1>1, <1>2, <1>3, <1>5, <1>6 DEF Promise!Create
<1> QED
  BY <1>7

\* Two jobs are never confused, however createJob calls race.
THEOREM JobsStayUnique == Spec => []JobsAreUnique
  BY OneActiveJobAlways, KeysAlwaysIdentifyJobs, PTL DEF JobsAreUnique

\* Lease, fencing and baseline hold together for every write of a row.
THEOREM RowsStayFenced == Spec => RowsAreFenced
  BY LeaseAlwaysProtectsOwner, ReportsAlwaysFenced, BaselineStaysPinned DEF RowsAreFenced

\* A step of the service is a step of the promise or leaves its board alone.
LEMMA StepIsPromised == IInv /\ [Next]_vars => [Promise!Next]_(Promise!board)
<1> SUFFICES ASSUME IInv, [Next]_vars
             PROVE  Promise!Next \/ UNCHANGED Promise!board
  OBVIOUS
<1>1. CASE jobs' = jobs
  BY <1>1 DEF Promise!board
<1>2. ASSUME NEW r \in Requests, Inserting(r)
      PROVE  Promise!Next
  <2>1. PICK i \in Jobs : i = req[r].id
    BY <1>2 DEF Inserting
  <2>2. Promise!Create(i)
    BY <1>2, <2>1, InsertIsPromised
  <2> QED
    BY <2>2 DEF Promise!Next
<1>3. ASSUME NEW r \in Requests, Writing(r)
      PROVE  Promise!Next \/ UNCHANGED Promise!board
  <2>0. PICK i \in Jobs : i = req[r].old.id
    BY <1>3 DEF Writing
  <2>1. Kinds(req[r]) /\ req[r].pc \in {"rule", "commit"}
    BY <1>3 DEF Writing
  <2>2. CASE req[r].pc = "commit" /\ req[r].op = "claim"
    BY <1>3, <2>0, <2>2, ClaimIsPromised DEF Promise!Next
  <2>3. CASE req[r].pc = "commit" /\ req[r].op = "progress"
    BY <1>3, <2>0, <2>3, ProgressIsPromised DEF Promise!Next
  <2>4. CASE req[r].pc = "rule" \/ req[r].op = "result"
    BY <1>3, <2>0, <2>4, VerdictIsPromised DEF Promise!Next
  <2> QED
    BY <2>1, <2>2, <2>3, <2>4 DEF Kinds
<1> QED
  BY <1>1, <1>2, <1>3, RowsChange

\* The service, with all its races, implements the one-step promise.
THEOREM ImplementsPromise == Spec => KeepsPromise
<1>1. Init => Promise!Init
  <2>1. \A j \in Jobs : /\ AbsentRow(j).state = "absent" /\ AbsentRow(j).token = 0
                         /\ AbsentRow(j).baseHeartbeat = None
    BY DEF AbsentRow
  <2> SUFFICES ASSUME Init PROVE Promise!Init
    OBVIOUS
  <2>2. \A j \in Jobs : /\ jobs[j].state = "absent" /\ jobs[j].token = 0
                         /\ ~ (jobs[j].baseHeartbeat # None)
    BY <2>1 DEF Init
  <2>3. [j \in Jobs |-> jobs[j].baseHeartbeat # None] = [j \in Jobs |-> FALSE]
    BY <2>2
  <2> QED
    BY <2>2, <2>3 DEF Promise!Init
<1> QED
  BY <1>1, StepIsPromised, Consistency, PTL DEF Spec, KeepsPromise, Promise!Spec

-----------------------------------------------------------------------------
(* The specification that starts from a claimed job *)

\* The row a create and a claim leave is a row, and no call holds another.
LEMMA ClaimedIsConsistent == ClaimedHost => IInv
<1> SUFFICES ASSUME ClaimedHost PROVE IInv
  OBVIOUS
<1>1. PICK c \in Jobs : jobs = [j \in Jobs |-> IF j = c THEN ClaimedJob(j) ELSE AbsentRow(j)]
  BY DEF ClaimedHost
<1>2. \A j \in Jobs : AbsentRow(j) \in JobRow /\ AbsentRow(j).id = j
  BY DEF AbsentRow, JobRow, JobStates, OptBuild, OptTime
<1>3. "queued" \in ActiveStates /\ "claimed" \in JobStates /\ "claimed" # "absent"
  BY DEF JobStates, ActiveStates, PreSwapStates
<1>4. PhaseTimeout["queued"] \in Nat
  BY <1>3, PolicyAssumption
<1>5. \A j \in Jobs : /\ ClaimedJob(j) \in JobRow /\ ClaimedJob(j).id = j
                      /\ ClaimedJob(j).state = "claimed"
  BY <1>3, <1>4, PolicyAssumption, BuildsAssumption
     DEF ClaimedJob, AbsentRow, JobRow, OptBuild, OptTime
<1>6. TypeOK
  BY <1>1, <1>2, <1>5, IdleRequest, BuildsAssumption
     DEF ClaimedHost, TypeOK, OptTime, Heartbeat
<1>7. /\ Idle.pc = "idle" /\ Idle.op = "none" /\ Idle.id = None
      /\ Idle.at = 0 /\ Idle.todo = {}
  BY DEF Idle
<1>8. \A r \in Requests : req[r] = Idle
  BY DEF ClaimedHost
<1>9. ASSUME NEW r \in Requests PROVE Kinds(req[r]) /\ Reads(req[r]) /\ Writes(req[r])
  BY <1>7, <1>8 DEF Kinds, Reads, Writes, ClaimedHost
<1>10. Inserts
  BY <1>7, <1>8 DEF Inserts
<1>11. \A j \in Jobs : jobs[j].state = "absent" => jobs[j] = AbsentRow(j)
  BY <1>1, <1>3, <1>5
<1> QED
  BY <1>6, <1>9, <1>10, <1>11 DEF IInv, HandlersConsistent

\* From a claimed job on, each write of a call, however long ago it read the row,
\* is one step of the promise.
THEOREM LaterStepsKeepPromise == LifeSpec => StepsKeepPromise
  BY ClaimedIsConsistent, NextIInv, StepIsPromised, PTL DEF LifeSpec, StepsKeepPromise

=============================================================================
