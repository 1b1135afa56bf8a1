-------------------------- MODULE UpdaterHost_proofs --------------------------
(***************************************************************************)
(* Theorems about UpdaterHost, for every number of mishaps and claims.     *)
(*                                                                         *)
(* Two invariants are inductive.  Solid: the types, the numbering of the   *)
(* leases, and where the daemon stands.  Sound, as long as the daemon's    *)
(* journal is not lost: what the journal on disk, the one in memory, the   *)
(* helper's place and the traces on the disk say of the swap agrees with   *)
(* how often the binary was swapped.  Together they are HostIsConsistent   *)
(* and the types; each section keeps them over one process's steps.        *)
(***************************************************************************)
EXTENDS UpdaterHost, TLAPS

-----------------------------------------------------------------------------
(* The daemon's memory, as its callees return it *)

\* The daemon at its start.
LEMMA StartedTyped ==
  Started \in Daemon /\ Started.j = None /\ Started.pc = "load" /\ Started.say = None
BY NoneAssumption DEF Started, Daemon, Returns, ProgressPhases, PostSwapStates, HelperActions

\* An error drops the journal in memory and keeps what the daemon has learnt.
LEMMA FailingTyped ==
  ASSUME NEW d \in Daemon
  PROVE  /\ Failing(d) \in Daemon
         /\ Failing(d).j = None /\ Failing(d).pc = "load" /\ Failing(d).say = None
         /\ Failing(d).told = d.told /\ Failing(d).ret = "load"
BY DEF Failing, Started, Daemon, Returns, ProgressPhases, PostSwapStates, HelperActions

\* A journal that can be reported or worked on.
LEMMA JournalTyped ==
  ASSUME NEW j \in Journal
  PROVE  /\ j # None /\ j.phase \in ProgressPhases \cup {"terminal"}
         /\ j.token \in 0 .. MaxClaims /\ j.reconcile \in BOOLEAN /\ j.requested \in BOOLEAN
         /\ j.postSwap \in BOOLEAN /\ j.reported \in BOOLEAN /\ j.cleaned \in BOOLEAN
         /\ j.hold \in BOOLEAN /\ j.acked \in BOOLEAN
BY NoneAssumption DEF Journal

\* The daemon reports the phase it is in.
LEMMA PhaseTyped ==
  ASSUME NEW d \in Daemon, NEW r \in ProgressPhases \cup {"dispatch"}
  PROVE  /\ Phase(d, r) \in Daemon /\ Phase(d, r).j = d.j /\ Phase(d, r).pc = "phase"
         /\ Phase(d, r).ret = r /\ Phase(d, r).say = None /\ Phase(d, r).told = d.told
BY DEF Phase, Daemon, Returns

\* The daemon waits for an action of the helper.
LEMMA AskTyped ==
  ASSUME NEW d \in Daemon, NEW a \in HelperActions
  PROVE  /\ Ask(d, a) \in Daemon /\ Ask(d, a).j = d.j /\ Ask(d, a).pc = "request"
         /\ Ask(d, a).ask = a /\ Ask(d, a).ret = d.ret /\ Ask(d, a).say = d.say
         /\ Ask(d, a).told = d.told
BY DEF Ask, Daemon

\* The daemon reports an outcome.
LEMMA ReportTyped ==
  ASSUME NEW d \in Daemon, NEW o \in {"failed", "rolled_back"}
  PROVE  /\ Report(d, o) \in Daemon /\ Report(d, o).j = d.j /\ Report(d, o).pc = "report"
         /\ Report(d, o).ret = d.ret /\ Report(d, o).say = o
         /\ Report(d, o).told = d.told
BY DEF Report, Daemon

\* The switch at the end of runJob goes on with the journal in memory.
LEMMA DispatchTyped ==
  ASSUME NEW d \in Daemon, d.j \in Journal
  PROVE  LET e == Dispatch(d) IN
         /\ e \in Daemon /\ e.j = d.j /\ e.told = d.told
         /\ e.say \in {d.say, None}
         /\ \/ /\ e.pc = "request" /\ e.ret = "load"
               /\ \/ e.ask = "apply" /\ d.j.phase = "restarting"
                  \/ e.ask = "rollback" /\ d.j.phase = "rolling_back"
            \/ e.pc = "grace" /\ e.ret = "load" /\ d.j.phase = "awaiting_heartbeat"
            \/ e.pc = "observe" /\ e.ret = "load"
            \/ e.pc = "phase" /\ e.ret = d.j.phase /\ d.j.phase \in Working
<1> DEFINE top == [d EXCEPT !.ret = "load"]
<1>1. top \in Daemon /\ top.j = d.j /\ top.told = d.told /\ top.say = d.say /\ top.ret = "load"
  BY DEF Daemon, Returns
<1> HIDE DEF top
<1>2. CASE d.j.phase = "restarting"
  <2>1. Dispatch(d) = Ask(top, "apply")
    BY <1>2 DEF Dispatch, top
  <2> QED
    BY <2>1, <1>1, <1>2, AskTyped DEF HelperActions
<1>3. CASE d.j.phase = "rolling_back"
  <2>1. Dispatch(d) = Ask(top, "rollback")
    BY <1>3 DEF Dispatch, top
  <2> QED
    BY <2>1, <1>1, <1>3, AskTyped DEF HelperActions
<1>4. CASE d.j.phase = "awaiting_heartbeat"
  <2>1. Dispatch(d) = [top EXCEPT !.pc = "grace"]
    BY <1>4 DEF Dispatch, top
  <2> QED
    BY <2>1, <1>1, <1>4 DEF Daemon
<1>5. CASE d.j.phase = "terminal"
  <2>1. Dispatch(d) = [top EXCEPT !.pc = "observe"]
    BY <1>5 DEF Dispatch, top
  <2> QED
    BY <2>1, <1>1, <1>5 DEF Daemon
<1>6. CASE d.j.phase \in Working
  <2>1. Dispatch(d) = Phase(d, d.j.phase)
    BY <1>6 DEF Dispatch, Working
  <2>2. d.j.phase \in ProgressPhases \cup {"dispatch"}
    BY <1>6 DEF Working, ProgressPhases
  <2> QED
    BY <2>1, <2>2, <1>6, PhaseTyped
<1> QED
  BY <1>2, <1>3, <1>4, <1>5, <1>6, JournalTyped DEF ProgressPhases, PostSwapStates, Working

\* A caller goes on, whatever its callee has done to the job.
LEMMA ResumeTyped ==
  ASSUME NEW d \in Daemon, d.j \in Journal
  PROVE  LET e == Resume(d) IN
         /\ e \in Daemon /\ e.told = d.told /\ e.say \in {d.say, None}
         /\ \/ e.j = None /\ e.pc = "load" /\ e.ret = "load"
            \/ /\ e.j = d.j
               /\ \/ /\ e.pc = "request" /\ e.ret = "load"
                     /\ \/ e.ask = "apply" /\ "restarting" \in {d.ret, d.j.phase}
                        \/ e.ask = "rollback" /\ "rolling_back" \in {d.ret, d.j.phase}
                  \/ /\ e.pc = "grace" /\ e.ret = "load"
                     /\ "awaiting_heartbeat" \in {d.ret, d.j.phase}
                  \/ e.pc = "observe" /\ e.ret = "load"
                  \/ e.pc = "phase" /\ e.ret = d.j.phase /\ d.j.phase \in Working
                  \/ e.pc = "work" /\ e.ret = d.ret /\ d.ret \in Working
<1> DEFINE top == [d EXCEPT !.ret = "load"]
<1>1. top \in Daemon /\ top.j = d.j /\ top.told = d.told /\ top.say = d.say /\ top.ret = "load"
  BY DEF Daemon, Returns
<1> HIDE DEF top
<1>2. CASE d.ret = "load"
  <2>1. Resume(d) = Failing(d)
    BY <1>2 DEF Resume
  <2> QED
    BY <2>1, FailingTyped
<1>3. CASE d.ret = "dispatch"
  <2>1. Resume(d) = Dispatch(d)
    BY <1>3 DEF Resume
  <2> QED
    BY <2>1, DispatchTyped
<1>4. CASE d.ret = "restarting"
  <2>1. Resume(d) = Ask(top, "apply")
    BY <1>4 DEF Resume, top
  <2> QED
    BY <2>1, <1>1, <1>4, AskTyped DEF HelperActions
<1>5. CASE d.ret = "rolling_back"
  <2>1. Resume(d) = Ask(top, "rollback")
    BY <1>5 DEF Resume, top
  <2> QED
    BY <2>1, <1>1, <1>5, AskTyped DEF HelperActions
<1>6. CASE d.ret = "awaiting_heartbeat"
  <2>1. Resume(d) = [top EXCEPT !.pc = "grace"]
    BY <1>6 DEF Resume, top
  <2> QED
    BY <2>1, <1>1, <1>6 DEF Daemon
<1>7. CASE d.ret \in Working
  <2>1. Resume(d) = [d EXCEPT !.pc = "work"]
    BY <1>7 DEF Resume, Working
  <2> QED
    BY <2>1, <1>7 DEF Daemon
<1> QED
  BY <1>2, <1>3, <1>4, <1>5, <1>6, <1>7 DEF Daemon, Returns, ProgressPhases, PostSwapStates, Working

-----------------------------------------------------------------------------
(* The server's row *)

\* A job that is ruled for good stays as it is ruled.
Settling(s, t) == s.state \in Final => t.state = s.state

\* A step of the row: typed, numbered, and fenced.
Stepped(s, t) ==
  /\ t \in Job /\ Settling(s, t)
  /\ t.lease => t.token > 0
  /\ ~ Ended(t) /\ ~ t.lease => t.token < MaxClaims

\* A row as every step finds it.
LEMMA RowTyped ==
  ASSUME srv \in Job
  PROVE  /\ srv.state \in JobStates \ {"absent"} /\ srv.token \in 0 .. MaxClaims
         /\ srv.lease \in BOOLEAN /\ srv.pinned \in BOOLEAN /\ srv.late \in BOOLEAN
         /\ srv.token \in Nat
BY BoundsAssumption DEF Job

\* A verdict settles the job and nothing else.
LEMMA SettledTyped ==
  ASSUME srv \in Job, NEW v \in TerminalStates
  PROVE  LET t == Settled(srv, v) IN
         /\ t \in Job /\ t.state = v /\ t.token = srv.token /\ t.lease = srv.lease
         /\ t.pinned = srv.pinned /\ t.late = srv.late
BY DEF Settled, Job, JobStates, TerminalStates

\* What a missed deadline makes of a job ends it.
LEMMA DeadlineRules ==
  ASSUME srv \in Job, ~ Ended(srv)
  PROVE  LET v == DeadlineRuling(srv.state) IN
         /\ v \in {"failed", "rollback_unverified"}
         /\ v = "failed" <=> srv.state \in PreSwapStates
BY RowTyped DEF Ended, DeadlineRuling, JobStates, ActiveStates, PreSwapStates,
     PostSwapStates, TerminalStates

\* What a read makes of the row: nothing, or its ruling.
LEMMA ReconciledIs ==
  ASSUME srv \in Job, LeasesAreNumbered
  PROVE  /\ Stepped(srv, Reconciled)
         /\ Reconciled.token = srv.token /\ Reconciled.lease = srv.lease
         /\ Reconciled.pinned = srv.pinned
         /\ \/ Reconciled = srv
            \/ /\ ~ Ended(srv)
               /\ \/ Reconciled.state = "succeeded" /\ seen.build = "new"
                     /\ srv.state \in PostSwapStates
                  \/ Reconciled.state = "failed" /\ srv.state \in PreSwapStates
                  \/ Reconciled.state = "rollback_unverified" /\ srv.state \in PostSwapStates
<1>1. CASE Reconciled = srv
  BY <1>1 DEF Stepped, Settling, LeasesAreNumbered
<1>2. CASE /\ Reconciled = Settled(srv, "succeeded") /\ ~ Ended(srv)
           /\ srv.state \in {"restarting", "awaiting_heartbeat"} /\ TargetSeen(srv)
  BY <1>2, SettledTyped DEF Stepped, Settling, LeasesAreNumbered, Ended, TerminalStates,
       TargetSeen, PostSwapStates, Final
<1>3. CASE Reconciled = Settled(srv, DeadlineRuling(srv.state)) /\ ~ Ended(srv)
  <2> DEFINE v == DeadlineRuling(srv.state)
  <2>1. /\ v \in {"failed", "rollback_unverified"}
        /\ v = "failed" <=> srv.state \in PreSwapStates
        /\ v = "rollback_unverified" => srv.state \in PostSwapStates
    BY <1>3, DeadlineRules, RowTyped DEF Ended, JobStates, ActiveStates
  <2> HIDE DEF v
  <2> QED
    BY <1>3, <2>1, SettledTyped DEF v, Stepped, Settling, LeasesAreNumbered, Ended,
         TerminalStates, Final
<1> QED
  BY <1>1, <1>2, <1>3 DEF Reconciled

\* What a claim makes of the row: what a read makes of it, or a new owner.
LEMMA ClaimedIs ==
  ASSUME srv \in Job, LeasesAreNumbered
  PROVE  /\ Stepped(srv, Claimed)
         /\ \/ Claimed = Reconciled
            \/ /\ ~ Ended(srv) /\ ~ srv.lease /\ Reconciled = srv
               /\ Claimed = [srv EXCEPT !.state = IF @ = "queued" THEN "claimed" ELSE @,
                                        !.token = @ + 1, !.lease = TRUE]
<1>1. Reconciled = srv \/ Ended(Reconciled)
  BY ReconciledIs DEF Ended, TerminalStates
<1>2. CASE Claimed = Reconciled
  BY <1>2, ReconciledIs
<1>3. CASE ~ Ended(Reconciled) /\ ~ Reconciled.lease
  <2> DEFINE t == [srv EXCEPT !.state = IF @ = "queued" THEN "claimed" ELSE @,
                              !.token = @ + 1, !.lease = TRUE]
  <2>1. Reconciled = srv /\ Claimed = t
    BY <1>1, <1>3 DEF Claimed
  <2>2. srv.token + 1 \in 0 .. MaxClaims
    BY <1>3, <2>1, RowTyped, BoundsAssumption DEF LeasesAreNumbered
  <2>3. t \in Job /\ t.lease /\ t.token = srv.token + 1
    BY <2>2, RowTyped DEF Job, JobStates, ActiveStates, PreSwapStates
  <2>4. srv.state \notin Final
    BY <1>3, <2>1 DEF Ended, TerminalStates, Final
  <2> QED
    BY <1>3, <2>1, <2>2, <2>3, <2>4, RowTyped DEF Stepped, Settling
<1> QED
  BY <1>1, <1>2, <1>3 DEF Claimed

\* What a progress report makes of the row.
LEMMA ProgressedIs ==
  ASSUME srv \in Job, LeasesAreNumbered, NEW k, NEW p \in ProgressPhases
  PROVE  LET t == Progressed(k, p) IN
         /\ Stepped(srv, t)
         /\ \/ t = srv
            \/ /\ ~ Ended(srv) /\ srv.lease /\ k = srv.token
               /\ t = [srv EXCEPT !.state = p, !.pinned = @ \/ p = "restarting"]
<1> DEFINE t == [srv EXCEPT !.state = p, !.pinned = @ \/ p = "restarting"]
<1>1. CASE Progressed(k, p) = srv
  BY <1>1 DEF Stepped, Settling, LeasesAreNumbered
<1>2. CASE ProgressReply(k) = "ok"
  <2>1. ~ Ended(srv) /\ srv.lease /\ k = srv.token
    BY <1>2 DEF ProgressReply, HoldsLease
  <2>2. Progressed(k, p) = t
    BY <1>2 DEF Progressed
  <2>3. t \in Job /\ t.lease /\ t.token = srv.token
    BY <2>1, RowTyped DEF Job, JobStates, ActiveStates, ProgressPhases, PostSwapStates,
         PreSwapStates
  <2>4. srv.state \notin Final
    BY <2>1 DEF Ended, TerminalStates, Final
  <2> HIDE DEF t
  <2>5. Stepped(srv, t)
    BY <2>1, <2>3, <2>4 DEF Stepped, Settling, LeasesAreNumbered
  <2> QED
    BY <2>1, <2>2, <2>5 DEF t
<1> QED
  BY <1>1, <1>2 DEF Progressed

\* What a report of the outcome makes of the row: a ruling, if it owns the job,
\* or the refinement of an unverified one.
LEMMA ResultedIs ==
  ASSUME srv \in Job, LeasesAreNumbered, NEW k, NEW o
  PROVE  LET t == Resulted(k, o) IN
         /\ Stepped(srv, t)
         /\ \/ t = srv
            \/ /\ t.token = srv.token /\ t.pinned = srv.pinned
               /\ ~ Ended(srv) \/ srv.state = "rollback_unverified"
               /\ \/ t.state = "rolled_back" /\ o = "rolled_back" /\ srv.pinned
                  \/ t.state = "failed" /\ o = "failed" /\ srv.state \in PreSwapStates
                  \/ t.state = "rollback_unverified"
<1>1. CASE Resulted(k, o) = srv
  BY <1>1 DEF Stepped, Settling, LeasesAreNumbered
<1>2. CASE /\ Resulted(k, o) = Settled(srv, Ruling(o))
           /\ ~ Ended(srv) \/ srv.state = "rollback_unverified"
  <2>1. \/ Ruling(o) = "rolled_back" /\ o = "rolled_back" /\ srv.pinned
        \/ Ruling(o) = "failed" /\ o = "failed" /\ srv.state \in PreSwapStates
        \/ Ruling(o) = "rollback_unverified"
    BY DEF Ruling, BaselineSeen
  <2>2. Ruling(o) \in TerminalStates
    BY <2>1 DEF TerminalStates
  <2>3. LET t == Resulted(k, o) IN
        /\ t \in Job /\ t.state = Ruling(o) /\ t.token = srv.token /\ t.lease = srv.lease
        /\ t.pinned = srv.pinned
    BY <1>2, <2>2, SettledTyped
  <2>4. srv.state \notin Final
    BY <1>2 DEF Ended, TerminalStates, Final
  <2>5. Stepped(srv, Resulted(k, o))
    BY <2>2, <2>3, <2>4, RowTyped DEF Stepped, Settling, LeasesAreNumbered, Ended
  <2> QED
    BY <1>2, <2>1, <2>3, <2>5
<1> QED
  BY <1>1, <1>2 DEF Resulted

-----------------------------------------------------------------------------
(* Types, leases, and where the daemon stands *)

\* What holds whatever is lost: the types, the leases, the daemon's place.
Solid == TypeOK /\ LeasesAreNumbered /\ DaemonIsPlaced

\* A mishap stays within the bound.
LEMMA MishapTyped ==
  ASSUME trouble \in 0 .. MaxTrouble, Mishap
  PROVE  trouble' \in 0 .. MaxTrouble
BY BoundsAssumption DEF Mishap

\* A call leaves a row of the server.
LEMMA ExchangeTyped ==
  ASSUME Solid, NEW after, Stepped(srv, after), NEW lost, Exchange(after, lost)
  PROVE  /\ Stepped(srv, srv') /\ srv' \in {srv, after} /\ (~ lost => srv' = after)
         /\ LeasesAreNumbered'
         /\ srv' \in Job /\ seen' = seen /\ seen' \in Seen /\ trouble' \in 0 .. MaxTrouble
<1>1. Stepped(srv, srv)
  BY DEF Solid, TypeOK, LeasesAreNumbered, Stepped, Settling
<1>2. /\ srv' \in {srv, after} /\ (~ lost => srv' = after)
      /\ seen' = seen /\ trouble' \in 0 .. MaxTrouble
  BY MishapTyped DEF Solid, TypeOK, Exchange
<1>3. Stepped(srv, srv')
  BY <1>1, <1>2
<1> QED
  BY <1>2, <1>3 DEF Solid, TypeOK, Stepped, LeasesAreNumbered

\* The daemon takes the job apart.
Consuming(d) == \/ d.pc \in {"consume", "teardown", "clear"}
                \/ d.pc = "request" /\ d.ask = "cleanup"

\* The daemon has a journal when it needs one, and reports a phase.
Sited(d) ==
  /\ d \in Daemon
  /\ d.j = None <=> d.pc \in {"load", "claim"}
  /\ d.pc = "phase" \/ (d.pc = "reclaim" /\ d.say = None) => d.j.phase \in ProgressPhases
  /\ d.pc = "report" => d.say # None

\* A daemon that is sited and takes nothing apart.
Going(d) == Sited(d) /\ ~ Consuming(d)

\* What DaemonIsPlaced says, part by part.
LEMMA PlacedIs ==
  ASSUME daemon \in Daemon
  PROVE  DaemonIsPlaced <=>
           Sited(daemon) /\ (Consuming(daemon) => srv.state \in Final /\ daemon.told)
BY DEF DaemonIsPlaced, Sited, Consuming

\* The journal in memory is one outside load and claim.
LEMMA InMemory ==
  ASSUME Solid, daemon.pc \notin {"load", "claim"}
  PROVE  daemon \in Daemon /\ daemon.j \in Journal /\ daemon.j # None
BY DEF Solid, TypeOK, DaemonIsPlaced, Daemon

\* Every way on leaves the daemon going.
LEMMA FailingGoes ==
  ASSUME NEW d \in Daemon
  PROVE  Going(Failing(d))
BY FailingTyped DEF Going, Sited, Consuming

\* A report of a phase.
LEMMA PhaseGoes ==
  ASSUME NEW d \in Daemon, NEW r \in ProgressPhases \cup {"dispatch"},
         d.j \in Journal, d.j.phase \in ProgressPhases
  PROVE  Going(Phase(d, r))
BY PhaseTyped, JournalTyped DEF Going, Sited, Consuming

\* A report of an outcome.
LEMMA ReportGoes ==
  ASSUME NEW d \in Daemon, NEW o \in {"failed", "rolled_back"}, d.j \in Journal
  PROVE  Going(Report(d, o))
<1>1. o # None
  BY NoneAssumption DEF HelperOutcomes
<1> QED
  BY <1>1, ReportTyped, JournalTyped DEF Going, Sited, Consuming

\* The switch at the end of runJob.
LEMMA DispatchGoes ==
  ASSUME NEW d \in Daemon, d.j \in Journal
  PROVE  Going(Dispatch(d))
<1> DEFINE e == Dispatch(d)
<1>1. /\ e \in Daemon /\ e.j = d.j /\ d.j # None
      /\ \/ e.pc = "request" /\ e.ask \in {"apply", "rollback"}
         \/ e.pc \in {"grace", "observe"}
         \/ e.pc = "phase" /\ d.j.phase \in ProgressPhases
  BY DispatchTyped, JournalTyped DEF Working, ProgressPhases
<1> QED
  BY <1>1 DEF Going, Sited, Consuming

\* The return of a callee.
LEMMA ResumeGoes ==
  ASSUME NEW d \in Daemon, d.j \in Journal
  PROVE  Going(Resume(d))
<1> DEFINE e == Resume(d)
<1>1. e \in Daemon /\ d.j # None
  BY ResumeTyped, JournalTyped
<1>2. \/ e.j = None /\ e.pc = "load"
      \/ /\ e.j = d.j
         /\ \/ e.pc = "request" /\ e.ask \in {"apply", "rollback"}
            \/ e.pc \in {"grace", "observe", "work"}
            \/ e.pc = "phase" /\ d.j.phase \in ProgressPhases
  BY ResumeTyped DEF Working, ProgressPhases
<1> QED
  BY <1>1, <1>2 DEF Going, Sited, Consuming

\* A step of the daemon keeps what is typed, if it leaves the daemon going.
LEMMA DaemonStep ==
  ASSUME Solid, srv' \in Job, LeasesAreNumbered', seen' \in Seen,
         trouble' \in 0 .. MaxTrouble, UNCHANGED <<service, helper, swaps>>,
         disk' \in Disk, journal' \in Journal \cup {None}, Sited(daemon'),
         Consuming(daemon') => srv'.state \in Final /\ daemon'.told
  PROVE  Solid'
<1>1. DaemonIsPlaced'
  BY DEF DaemonIsPlaced, Sited, Consuming
<1> QED
  BY <1>1 DEF Solid, TypeOK, Sited

\* The same, for a step that leaves the server and the disk alone.
LEMMA QuietStep ==
  ASSUME Solid, UNCHANGED <<server, disk, service, helper, trouble, swaps>>,
         journal' \in Journal \cup {None}, Sited(daemon'),
         Consuming(daemon') => srv.state \in Final /\ daemon'.told
  PROVE  Solid'
<1>1. /\ srv' = srv /\ seen' = seen /\ disk' = disk /\ service' = service /\ helper' = helper
      /\ trouble' = trouble /\ swaps' = swaps
  BY DEF server
<1>2. LeasesAreNumbered' /\ srv' \in Job /\ seen' \in Seen /\ trouble' \in 0 .. MaxTrouble
      /\ disk' \in Disk
  BY <1>1 DEF Solid, TypeOK, LeasesAreNumbered
<1> QED
  BY <1>1, <1>2, DaemonStep

\* The journal on disk is one, or there is none.
LEMMA OnDisk ==
  ASSUME Solid
  PROVE  /\ journal \in Journal \cup {None} /\ daemon \in Daemon /\ disk \in Disk
         /\ srv \in Job /\ LeasesAreNumbered
BY DEF Solid, TypeOK

\* Load
LEMMA LoadSolid == ASSUME Solid, Load PROVE Solid'
<1> DEFINE d == [Failing(daemon) EXCEPT !.j = journal]
<1>1. d \in Daemon /\ d.j = journal /\ d.pc = "load"
  BY OnDisk, FailingTyped DEF Daemon
<1>2. CASE journal = None /\ daemon' = [d EXCEPT !.pc = "claim"]
  <2>1. Sited(daemon') /\ ~ Consuming(daemon')
    BY <1>1, <1>2 DEF Sited, Consuming, Daemon
  <2> QED
    BY <2>1, OnDisk, QuietStep DEF Load
<1>3. CASE journal # None /\ daemon' \in {[d EXCEPT !.pc = "observe"], [d EXCEPT !.pc = "look"]}
  <2>1. Sited(daemon') /\ ~ Consuming(daemon')
    BY <1>1, <1>3 DEF Sited, Consuming, Daemon
  <2> QED
    BY <2>1, OnDisk, QuietStep DEF Load
<1>4. CASE journal # None /\ daemon' = Dispatch(d)
  <2>1. d.j \in Journal
    BY <1>1, <1>4, OnDisk
  <2> HIDE DEF d
  <2>2. Going(daemon')
    BY <1>1, <1>4, <2>1, DispatchGoes
  <2> QED
    BY <2>2, OnDisk, QuietStep DEF Load, Going
<1> QED
  BY <1>2, <1>3, <1>4 DEF Load

\* The journal of a claim.
Fresh(k, r) ==
  [ phase |-> "downloading", token |-> k, reconcile |-> r, requested |-> FALSE,
    postSwap |-> FALSE, reported |-> FALSE, cleaned |-> FALSE, hold |-> FALSE,
    acked |-> FALSE ]

\* It is one, and says nothing of a swap but what the claim found.
LEMMA FreshTyped ==
  ASSUME NEW k \in 0 .. MaxClaims, NEW r \in BOOLEAN
  PROVE  /\ Fresh(k, r) \in Journal /\ Fresh(k, r).reconcile = r
         /\ ~ Fresh(k, r).requested /\ ~ Fresh(k, r).postSwap
         /\ Fresh(k, r).phase = "downloading"
BY DEF Fresh, Journal, ProgressPhases

\* stepClaim
LEMMA ClaimSolid == ASSUME Solid, Claim PROVE Solid'
<1> PICK lost \in BOOLEAN :
      /\ Exchange(Claimed, lost)
      /\ IF lost \/ Ended(srv')
         THEN daemon' = Failing(daemon) /\ UNCHANGED journal
         ELSE /\ journal' = [ phase |-> "downloading", token |-> srv'.token,
                               reconcile |-> srv'.state \in PostSwapStates,
                               requested |-> FALSE, postSwap |-> FALSE,
                               reported |-> FALSE, cleaned |-> FALSE, hold |-> FALSE,
                               acked |-> FALSE ]
              /\ daemon' = [Failing(daemon) EXCEPT !.last = None]
  BY DEF Claim
<1>1. /\ srv' \in Job /\ seen' \in Seen /\ trouble' \in 0 .. MaxTrouble /\ LeasesAreNumbered'
  BY OnDisk, ClaimedIs, ExchangeTyped
<1>2. disk' = disk /\ service' = service /\ helper' = helper /\ swaps' = swaps
  BY DEF Claim
<1>3. journal' \in Journal \cup {None}
  <2>1. srv'.token \in 0 .. MaxClaims
    BY <1>1 DEF Job
  <2>2. (srv'.state \in PostSwapStates) \in BOOLEAN
    OBVIOUS
  <2>3. Fresh(srv'.token, srv'.state \in PostSwapStates) \in Journal
    BY <2>1, <2>2, FreshTyped, Zenon
  <2>4. \/ journal' = journal
        \/ journal' = Fresh(srv'.token, srv'.state \in PostSwapStates)
    BY DEF Fresh
  <2> QED
    BY <2>3, <2>4, OnDisk
<1>4. daemon' \in Daemon /\ daemon'.j = None /\ daemon'.pc = "load"
  <2>1. Failing(daemon) \in Daemon /\ Failing(daemon).j = None /\ Failing(daemon).pc = "load"
    BY OnDisk, FailingTyped
  <2> QED
    BY <2>1 DEF Daemon
<1>5. Sited(daemon') /\ ~ Consuming(daemon')
  BY <1>4 DEF Sited, Consuming
<1> QED
  BY <1>1, <1>2, <1>3, <1>5, OnDisk, DaemonStep

\* reconcile looks at the host.
LEMMA LookSolid == ASSUME Solid, Look PROVE Solid'
<1>1. daemon \in Daemon /\ daemon.j \in Journal /\ daemon.j # None /\ daemon.pc = "look"
  BY InMemory DEF Look
<1>2. disk.record \in HelperPhases \cup {None}
  BY OnDisk DEF Disk
<1> PICK f \in [record : HelperPhases \cup {None}, pending : BOOLEAN, result : BOOLEAN] :
      daemon' = [daemon EXCEPT !.pc = "decide", !.ret = "dispatch", !.found = f]
  <2> DEFINE f == [record  |-> disk.record,
                   pending |-> "apply" \in disk.pending,
                   result  |-> disk.results["apply"] # None]
  <2>1. ("apply" \in disk.pending) \in BOOLEAN /\ (disk.results["apply"] # None) \in BOOLEAN
    OBVIOUS
  <2>2. f \in [record : HelperPhases \cup {None}, pending : BOOLEAN, result : BOOLEAN]
    BY <1>2, <2>1, Zenon
  <2> QED
    BY <2>2 DEF Look
<1>4. daemon' \in Daemon /\ daemon'.j = daemon.j /\ daemon'.pc = "decide"
  BY <1>1 DEF Daemon, Returns
<1>5. Sited(daemon') /\ ~ Consuming(daemon')
  BY <1>1, <1>4 DEF Sited, Consuming
<1> QED
  BY <1>5, OnDisk, QuietStep DEF Look

\* What reconcile makes of the journal and the daemon.
LEMMA DecideSolid == ASSUME Solid, Decide PROVE Solid'
<1> DEFINE d == [daemon EXCEPT !.found = Started.found]
<1>1. daemon \in Daemon /\ daemon.j \in Journal
  BY InMemory DEF Decide
<1>2. d \in Daemon /\ d.j = daemon.j
  BY <1>1 DEF Daemon, Started
<1>3. DecideUnrecorded(d) \/ DecideRecorded(d)
  BY DEF Decide
<1> HIDE DEF d
<1>4. ASSUME NEW j \in Journal
      PROVE  [d EXCEPT !.j = j] \in Daemon /\ [d EXCEPT !.j = j].j = j
  BY <1>2 DEF Daemon
<1>5. /\ [d EXCEPT !.j.postSwap = TRUE, !.pc = "hold"] \in Daemon
      /\ [d EXCEPT !.j.postSwap = TRUE, !.pc = "hold"].j \in Journal
      /\ [d EXCEPT !.j.postSwap = TRUE, !.pc = "hold"].pc = "hold"
  BY <1>1, <1>2 DEF Daemon, Journal
<1>6. Going([d EXCEPT !.j.postSwap = TRUE, !.pc = "hold"])
  BY <1>5, JournalTyped DEF Going, Sited, Consuming
<1>7. Going(daemon') /\ journal' \in Journal \cup {None}
  <2>1. CASE DecideUnrecorded(d)
    <3> DEFINE request == [d.j EXCEPT !.phase = "restarting"]
    <3>1. request \in Journal
      BY <1>1, <1>2 DEF Journal, ProgressPhases, PostSwapStates
    <3>2. \/ daemon' = Dispatch(d) /\ journal' = journal
          \/ daemon' = [d EXCEPT !.j.postSwap = TRUE, !.pc = "hold"] /\ journal' = journal
          \/ daemon' = Report(d, "failed") /\ journal' = journal
          \/ journal' = request /\ daemon' = Dispatch([d EXCEPT !.j = request])
      BY <2>1 DEF DecideUnrecorded
    <3> HIDE DEF request
    <3>3. Going(Dispatch(d)) /\ Going(Report(d, "failed"))
      BY <1>1, <1>2, DispatchGoes, ReportGoes
    <3>4. Going(Dispatch([d EXCEPT !.j = request]))
      BY <1>4, <3>1, DispatchGoes
    <3> QED
      BY <1>6, <3>1, <3>2, <3>3, <3>4, OnDisk
  <2>2. CASE DecideRecorded(d)
    <3> DEFINE adopted == [d.j EXCEPT !.postSwap = TRUE,
                             !.phase = IF @ \in PreSwapStates THEN "restarting" ELSE @]
               back == [d.j EXCEPT !.postSwap = TRUE, !.phase = "rolling_back"]
    <3>1. adopted \in Journal /\ back \in Journal /\ adopted.phase =
            IF d.j.phase \in PreSwapStates THEN "restarting" ELSE d.j.phase
      BY <1>1, <1>2 DEF Journal, ProgressPhases, PostSwapStates
    <3>2. \/ /\ journal' = adopted /\ daemon' = Phase([d EXCEPT !.j = adopted], "dispatch")
             /\ d.j.phase \in PreSwapStates
          \/ journal' = journal /\ daemon' = Dispatch([d EXCEPT !.j = adopted])
          \/ journal' = journal /\ daemon' = Report(d, "failed")
          \/ journal' = back /\ daemon' = Dispatch([d EXCEPT !.j = back])
          \/ daemon' = [d EXCEPT !.j.postSwap = TRUE, !.pc = "hold"] /\ journal' = journal
      BY <2>2 DEF DecideRecorded
    <3> HIDE DEF adopted, back
    <3>3. Going(Report(d, "failed"))
      BY <1>1, <1>2, ReportGoes
    <3>4. Going(Dispatch([d EXCEPT !.j = adopted])) /\ Going(Dispatch([d EXCEPT !.j = back]))
      BY <1>4, <3>1, DispatchGoes
    <3>5. ASSUME d.j.phase \in PreSwapStates
          PROVE  Going(Phase([d EXCEPT !.j = adopted], "dispatch"))
      <4>1. adopted.phase \in ProgressPhases
        BY <3>1, <3>5 DEF ProgressPhases, PostSwapStates
      <4> QED
        BY <1>4, <3>1, <4>1, PhaseGoes
    <3> QED
      BY <1>6, <3>1, <3>2, <3>3, <3>4, <3>5, OnDisk
  <2> QED
    BY <1>3, <2>1, <2>2
<1> QED
  BY <1>7, QuietStep DEF Decide, Going

\* A journal that is halted.
Halted(j) == [j EXCEPT !.hold = TRUE, !.phase = "terminal", !.acked = FALSE]

\* It is one.
LEMMA HaltedTyped ==
  ASSUME NEW j \in Journal
  PROVE  /\ Halted(j) \in Journal /\ Halted(j).phase = "terminal"
         /\ Halted(j).requested = j.requested /\ Halted(j).reconcile = j.reconcile
         /\ Halted(j).postSwap = j.postSwap
BY DEF Halted, Journal

\* consumeWithRuling takes the job apart, holds it, or halts.
LEMMA FollowIs ==
  ASSUME NEW d \in Daemon, d.j \in Journal, NEW r \in TerminalStates, Follow(d, r)
  PROVE  \/ /\ daemon' \in Daemon /\ daemon'.j = d.j /\ daemon'.ret = d.ret
            /\ daemon'.say = d.say /\ daemon'.told /\ journal' = journal
            /\ \/ daemon'.pc = "consume" /\ r \in Final
               \/ daemon'.pc = "hold" /\ d.j.postSwap
         \/ /\ journal' = Halted(d.j)
            /\ \E e \in Daemon : /\ e.j = Halted(d.j) /\ e.ret = d.ret /\ e.pc = d.pc
                                 /\ e.ask = d.ask /\ e.say = d.say /\ e.told
                                 /\ e.found = d.found
                                 /\ daemon' = Resume(e)
<1> DEFINE heard == [d EXCEPT !.told = TRUE]
<1>1. heard \in Daemon /\ heard.j = d.j /\ heard.told /\ heard.ret = d.ret
      /\ heard.say = d.say /\ heard.pc = d.pc /\ heard.ask = d.ask /\ heard.found = d.found
  BY DEF Daemon
<1>2. \/ /\ daemon' = [heard EXCEPT !.pc = "consume"] /\ journal' = journal /\ r \in Final
      \/ /\ daemon' = [heard EXCEPT !.pc = "hold"] /\ journal' = journal /\ d.j.postSwap
      \/ /\ journal' = Halted(d.j)
         /\ daemon' = Resume([heard EXCEPT !.j = Halted(d.j)])
  BY DEF Follow, TerminalStates, Final, Halted
<1> HIDE DEF heard
<1>3. CASE daemon' = [heard EXCEPT !.pc = "consume"] /\ journal' = journal /\ r \in Final
  BY <1>1, <1>3 DEF Daemon
<1>4. CASE daemon' = [heard EXCEPT !.pc = "hold"] /\ journal' = journal /\ d.j.postSwap
  BY <1>1, <1>4 DEF Daemon
<1>5. CASE journal' = Halted(d.j) /\ daemon' = Resume([heard EXCEPT !.j = Halted(d.j)])
  <2> DEFINE e == [heard EXCEPT !.j = Halted(d.j)]
  <2>1. Halted(d.j) \in Journal
    BY HaltedTyped
  <2>2. e \in Daemon /\ e.j = Halted(d.j) /\ e.ret = d.ret /\ e.say = d.say /\ e.told
        /\ e.pc = d.pc /\ e.ask = d.ask /\ e.found = d.found
    BY <1>1, <2>1 DEF Daemon
  <2> QED
    BY <1>5, <2>2
<1> QED
  BY <1>2, <1>3, <1>4, <1>5

\* What it leaves is typed.
LEMMA FollowSited ==
  ASSUME NEW d \in Daemon, d.j \in Journal, NEW r \in TerminalStates, Follow(d, r),
         journal \in Journal \cup {None}
  PROVE  /\ journal' \in Journal \cup {None} /\ Sited(daemon')
         /\ Consuming(daemon') => r \in Final /\ daemon'.told
<1>1. CASE /\ daemon' \in Daemon /\ daemon'.j = d.j /\ daemon'.told /\ journal' = journal
           /\ daemon'.pc \in {"consume", "hold"}
           /\ daemon'.pc = "consume" => r \in Final
  BY <1>1, JournalTyped DEF Sited, Consuming
<1>2. CASE /\ journal' = Halted(d.j)
           /\ \E e \in Daemon : e.j = Halted(d.j) /\ daemon' = Resume(e)
  <2> PICK e \in Daemon : e.j = Halted(d.j) /\ daemon' = Resume(e)
    BY <1>2
  <2>1. Going(daemon')
    BY HaltedTyped, ResumeGoes
  <2> QED
    BY <1>2, <2>1, HaltedTyped DEF Going
<1> QED
  BY <1>1, <1>2, FollowIs

\* reportPhase
LEMMA ReportPhaseSolid == ASSUME Solid, ReportPhase PROVE Solid'
<1> DEFINE d == daemon
<1>1. d \in Daemon /\ d.j \in Journal /\ d.j # None /\ d.j.phase \in ProgressPhases
  BY InMemory DEF ReportPhase, Solid, DaemonIsPlaced
<1>2. disk' = disk /\ service' = service /\ helper' = helper /\ swaps' = swaps
  BY DEF ReportPhase
<1>3. CASE journal' = d.j /\ daemon' = Resume(d) /\ UNCHANGED <<server, trouble>>
  <2>1. Going(daemon')
    BY <1>1, <1>3, ResumeGoes
  <2> QED
    BY <1>1, <1>2, <1>3, <2>1, QuietStep DEF Going
<1>4. CASE \E lost \in BOOLEAN :
             /\ Exchange(Progressed(d.j.token, d.j.phase), lost)
             /\ \/ journal' = d.j /\ daemon' = Resume([d EXCEPT !.last = d.j.phase])
                \/ /\ journal' = journal
                   /\ \/ daemon' \in {Failing(d), Resume(d)}
                      \/ daemon' = [d EXCEPT !.pc = "observe", !.told = TRUE]
                      \/ daemon' = [d EXCEPT !.pc = "hold"]
                      \/ daemon' = [d EXCEPT !.pc = "reclaim"]
  <2> PICK lost \in BOOLEAN :
             /\ Exchange(Progressed(d.j.token, d.j.phase), lost)
             /\ \/ journal' = d.j /\ daemon' = Resume([d EXCEPT !.last = d.j.phase])
                \/ /\ journal' = journal
                   /\ \/ daemon' \in {Failing(d), Resume(d)}
                      \/ daemon' = [d EXCEPT !.pc = "observe", !.told = TRUE]
                      \/ daemon' = [d EXCEPT !.pc = "hold"]
                      \/ daemon' = [d EXCEPT !.pc = "reclaim"]
    BY <1>4
  <2>1. Stepped(srv, Progressed(d.j.token, d.j.phase))
    BY <1>1, OnDisk, ProgressedIs
  <2>2. /\ srv' \in Job /\ seen' \in Seen /\ trouble' \in 0 .. MaxTrouble /\ LeasesAreNumbered'
    BY <2>1, ExchangeTyped
  <2>3. journal' \in Journal \cup {None}
    BY <1>1, OnDisk
  <2>4. Going(daemon')
    <3>1. [d EXCEPT !.last = d.j.phase] \in Daemon /\ [d EXCEPT !.last = d.j.phase].j = d.j
      BY <1>1 DEF Daemon
    <3>2. Going(Failing(d)) /\ Going(Resume(d)) /\ Going(Resume([d EXCEPT !.last = d.j.phase]))
      BY <1>1, <3>1, FailingGoes, ResumeGoes
    <3>3. ASSUME \/ daemon' = [d EXCEPT !.pc = "observe", !.told = TRUE]
                 \/ daemon' = [d EXCEPT !.pc = "hold"]
                 \/ daemon' = [d EXCEPT !.pc = "reclaim"]
          PROVE  Going(daemon')
      <4> DEFINE o == [d EXCEPT !.pc = "observe", !.told = TRUE]
                 h == [d EXCEPT !.pc = "hold"]
                 c == [d EXCEPT !.pc = "reclaim"]
      <4>0. d \in Daemon
        BY <1>1
      <4>2. o \in Daemon /\ o.j = d.j /\ o.pc = "observe"
        BY <4>0 DEF Daemon
      <4>3. h \in Daemon /\ h.j = d.j /\ h.pc = "hold"
        BY <4>0 DEF Daemon
      <4>4. c \in Daemon /\ c.j = d.j /\ c.pc = "reclaim"
        BY <4>0 DEF Daemon
      <4>5. daemon' \in {o, h, c}
        BY <3>3
      <4> HIDE DEF o, h, c
      <4>1. daemon' \in Daemon /\ daemon'.j = d.j /\ daemon'.pc \in {"observe", "hold", "reclaim"}
        BY <4>2, <4>3, <4>4, <4>5
      <4> QED
        BY <1>1, <4>1 DEF Going, Sited, Consuming
    <3> QED
      BY <3>2, <3>3
  <2> QED
    BY <1>2, <2>2, <2>3, <2>4, OnDisk, DaemonStep DEF Going
<1> QED
  BY <1>3, <1>4 DEF ReportPhase

\* The re-claim of a stale lease.
LEMMA ReclaimSolid == ASSUME Solid, Reclaim PROVE Solid'
<1>1. daemon \in Daemon /\ daemon.j \in Journal /\ daemon.j # None
      /\ (daemon.say = None => daemon.j.phase \in ProgressPhases)
  BY InMemory DEF Reclaim, Solid, DaemonIsPlaced
<1> PICK lost \in BOOLEAN :
       /\ Exchange(Claimed, lost)
       /\ daemon' = IF lost \/ Ended(srv') THEN Failing(daemon)
                    ELSE [daemon EXCEPT !.j.token = srv'.token, !.retry = TRUE,
                            !.pc = IF daemon.say = None THEN "phase" ELSE "report"]
  BY DEF Reclaim
<1>2. disk' = disk /\ service' = service /\ helper' = helper /\ swaps' = swaps
      /\ journal' = journal
  BY DEF Reclaim
<1>3. /\ srv' \in Job /\ seen' \in Seen /\ trouble' \in 0 .. MaxTrouble /\ LeasesAreNumbered'
  BY OnDisk, ClaimedIs, ExchangeTyped
<1>4. Going(daemon')
  <2>1. CASE daemon' = Failing(daemon)
    BY <1>1, <2>1, FailingGoes
  <2>2. ASSUME NEW k \in 0 .. MaxClaims, NEW p \in {"phase", "report"},
               p = "phase" <=> daemon.say = None,
               daemon' = [daemon EXCEPT !.j.token = k, !.retry = TRUE, !.pc = p]
        PROVE  Going(daemon')
    <3>1. /\ daemon' \in Daemon /\ daemon'.j \in Journal /\ daemon'.j.phase = daemon.j.phase
          /\ daemon'.pc = p /\ daemon'.say = daemon.say
      <4>1. [daemon.j EXCEPT !.token = k] \in Journal
        BY <1>1 DEF Journal
      <4>2. daemon' = [daemon EXCEPT !.j = [daemon.j EXCEPT !.token = k], !.retry = TRUE, !.pc = p]
        BY <1>1, <2>2 DEF Daemon
      <4>3. daemon'.j = [daemon.j EXCEPT !.token = k] /\ daemon'.pc = p /\ daemon' \in Daemon
            /\ daemon'.say = daemon.say
        BY <1>1, <4>1, <4>2 DEF Daemon
      <4> QED
        BY <1>1, <4>1, <4>3 DEF Journal
    <3> QED
      BY <1>1, <2>2, <3>1, JournalTyped DEF Going, Sited, Consuming
  <2>3. srv'.token \in 0 .. MaxClaims
    BY <1>3 DEF Job
  <2> QED
    BY <2>1, <2>2, <2>3
<1> QED
  BY <1>2, <1>3, <1>4, OnDisk, DaemonStep DEF Going

\* The journal of the next phase.
LEMMA AdvancedTyped ==
  ASSUME NEW j \in Journal, NEW next \in ProgressPhases
  PROVE  /\ Advanced(j, next) \in Journal /\ Advanced(j, next).phase = next
         /\ Advanced(j, next).reconcile = j.reconcile /\ Advanced(j, next).postSwap = j.postSwap
         /\ Advanced(j, next).requested = (j.requested \/ next = "restarting")
BY DEF Advanced, Journal

\* A step of runPreSwap, without its effect on the disk.
LEMMA WorkIs ==
  ASSUME Solid, Work
  PROVE  /\ daemon.pc = "work" /\ UNCHANGED <<server, service, helper, swaps>>
         /\ trouble' \in 0 .. MaxTrouble
         /\ disk' = disk \/ disk' = [disk EXCEPT !.staged = TRUE]
         /\ \/ journal' = journal /\ daemon' = Failing(daemon)
            \/ /\ journal' = journal
               /\ daemon' = Report([daemon EXCEPT !.ret = "load"], "failed")
            \/ \E next \in {"verifying", "staging", "restarting"} :
                 /\ journal' = Advanced(daemon.j, next)
                 /\ daemon' = Phase([daemon EXCEPT !.j = Advanced(daemon.j, next)], next)
<1>1. trouble' \in 0 .. MaxTrouble
  BY MishapTyped DEF Work, Solid, TypeOK
<1> QED
  BY <1>1 DEF Work

\* runPreSwap
LEMMA WorkSolid == ASSUME Solid, Work PROVE Solid'
<1>1. daemon \in Daemon /\ daemon.j \in Journal
  BY WorkIs, InMemory
<1>2. /\ srv' \in Job /\ seen' \in Seen /\ LeasesAreNumbered' /\ trouble' \in 0 .. MaxTrouble
      /\ UNCHANGED <<service, helper, swaps>>
  BY WorkIs DEF Solid, TypeOK, LeasesAreNumbered, server
<1>3. disk' \in Disk
  BY WorkIs, OnDisk DEF Disk
<1>4. Going(daemon') /\ journal' \in Journal \cup {None}
  <2>1. CASE journal' = journal /\ daemon' = Failing(daemon)
    BY <1>1, <2>1, OnDisk, FailingGoes
  <2>2. CASE journal' = journal /\ daemon' = Report([daemon EXCEPT !.ret = "load"], "failed")
    <3> DEFINE d == [daemon EXCEPT !.ret = "load"]
    <3>1. d \in Daemon /\ d.j = daemon.j
      BY <1>1 DEF Daemon, Returns
    <3> HIDE DEF d
    <3>2. Going(Report(d, "failed"))
      BY <1>1, <3>1, ReportGoes
    <3> QED
      BY <2>2, <3>2, OnDisk DEF d
  <2>3. ASSUME NEW next \in {"verifying", "staging", "restarting"},
               journal' = Advanced(daemon.j, next),
               daemon' = Phase([daemon EXCEPT !.j = Advanced(daemon.j, next)], next)
        PROVE  Going(daemon') /\ journal' \in Journal \cup {None}
    <3> DEFINE j == Advanced(daemon.j, next)
               d == [daemon EXCEPT !.j = j]
    <3>1. next \in ProgressPhases
      BY DEF ProgressPhases, PostSwapStates
    <3>2. j \in Journal /\ j.phase = next
      BY <1>1, <3>1, AdvancedTyped
    <3> HIDE DEF j
    <3>3. d \in Daemon /\ d.j = j
      BY <1>1, <3>2 DEF Daemon
    <3> HIDE DEF d
    <3>4. Going(Phase(d, next))
      BY <3>1, <3>2, <3>3, PhaseGoes
    <3> QED
      BY <2>3, <3>2, <3>4 DEF d, j
  <2> QED
    BY <2>1, <2>2, <2>3, WorkIs
<1> QED
  BY <1>2, <1>3, <1>4, DaemonStep DEF Going

\* ensureAction
LEMMA RequestSolid == ASSUME Solid, Request PROVE Solid'
<1>1. daemon \in Daemon /\ daemon.j \in Journal /\ daemon.ask \in HelperActions
  BY InMemory DEF Request, Daemon
<1>2. /\ srv' \in Job /\ seen' \in Seen /\ LeasesAreNumbered' /\ srv' = srv
      /\ UNCHANGED <<service, helper, swaps>> /\ journal' \in Journal \cup {None}
  BY DEF Solid, TypeOK, LeasesAreNumbered, server, Request
<1>3. CASE disk' = [disk EXCEPT !.pending = @ \cup {daemon.ask}] /\ UNCHANGED <<daemon, trouble>>
  <2>1. disk' \in Disk
    BY <1>1, <1>3, OnDisk DEF Disk
  <2>2. Sited(daemon') /\ (Consuming(daemon') => srv.state \in Final /\ daemon'.told)
    BY <1>1, <1>3, PlacedIs DEF Solid
  <2> QED
    BY <1>2, <1>3, <2>1, <2>2, DaemonStep DEF Solid, TypeOK
<1>4. CASE Mishap /\ daemon' = Failing(daemon) /\ UNCHANGED disk
  BY <1>1, <1>2, <1>4, FailingGoes, MishapTyped, DaemonStep DEF Solid, TypeOK, Going
<1> QED
  BY <1>3, <1>4 DEF Request

\* What runRestarting makes of the helper's answer.
LEMMA ApplyAnsweredIs ==
  ASSUME Solid, ApplyAnswered
  PROVE  LET j == [daemon.j EXCEPT !.postSwap = TRUE]
             waiting == [daemon.j EXCEPT !.postSwap = TRUE, !.phase = "awaiting_heartbeat"]
             outcome == disk.results["apply"]
         IN /\ daemon.pc = "request" /\ daemon.ask = "apply"
            /\ UNCHANGED <<server, disk, service, helper, trouble, swaps>>
            /\ j \in Journal /\ waiting \in Journal /\ waiting.phase = "awaiting_heartbeat"
            /\ j.phase = daemon.j.phase
            /\ waiting.postSwap /\ waiting.requested = daemon.j.requested
            /\ waiting.reconcile = daemon.j.reconcile
            /\ j.postSwap /\ j.requested = daemon.j.requested /\ j.reconcile = daemon.j.reconcile
            /\ [daemon EXCEPT !.j = j] \in Daemon /\ [daemon EXCEPT !.j = waiting] \in Daemon
            /\ \/ /\ outcome \in {"restarted", "recovered_restarted"} /\ journal' = waiting
                  /\ daemon' = Phase([daemon EXCEPT !.j = waiting], "awaiting_heartbeat")
               \/ journal' = journal /\ daemon' = Report(daemon, "failed")
               \/ /\ outcome = "auto_rolled_back" /\ journal' = journal
                  /\ daemon' = Report([daemon EXCEPT !.j = j], "rolled_back")
               \/ journal' = journal /\ daemon' = [daemon EXCEPT !.j = j, !.pc = "hold"]
<1>1. daemon \in Daemon /\ daemon.j \in Journal
  BY InMemory DEF ApplyAnswered
<1> DEFINE j == [daemon.j EXCEPT !.postSwap = TRUE]
           waiting == [daemon.j EXCEPT !.postSwap = TRUE, !.phase = "awaiting_heartbeat"]
<1>2. j \in Journal /\ waiting \in Journal /\ waiting.phase = "awaiting_heartbeat"
      /\ j.phase = daemon.j.phase
      /\ waiting.postSwap /\ waiting.requested = daemon.j.requested
      /\ waiting.reconcile = daemon.j.reconcile
      /\ j.postSwap /\ j.requested = daemon.j.requested /\ j.reconcile = daemon.j.reconcile
  BY <1>1 DEF Journal, ProgressPhases, PostSwapStates
<1>3. [daemon EXCEPT !.j = j] = [daemon EXCEPT !.j.postSwap = TRUE]
  BY <1>1 DEF Daemon
<1>4. [daemon EXCEPT !.j = j, !.pc = "hold"] = [[daemon EXCEPT !.j.postSwap = TRUE] EXCEPT !.pc = "hold"]
  BY <1>1 DEF Daemon
<1>5. [daemon EXCEPT !.j = j] \in Daemon /\ [daemon EXCEPT !.j = waiting] \in Daemon
  BY <1>1, <1>2 DEF Daemon
<1> QED
  BY <1>2, <1>3, <1>4, <1>5 DEF ApplyAnswered

\* runRestarting
LEMMA ApplyAnsweredSolid == ASSUME Solid, ApplyAnswered PROVE Solid'
<1> DEFINE j == [daemon.j EXCEPT !.postSwap = TRUE]
           waiting == [daemon.j EXCEPT !.postSwap = TRUE, !.phase = "awaiting_heartbeat"]
           d == [daemon EXCEPT !.j = j]
           w == [daemon EXCEPT !.j = waiting]
<1>1. /\ daemon \in Daemon /\ daemon.j \in Journal
      /\ j \in Journal /\ waiting \in Journal /\ waiting.phase \in ProgressPhases
      /\ d \in Daemon /\ w \in Daemon
      /\ UNCHANGED <<server, disk, service, helper, trouble, swaps>>
  BY ApplyAnsweredIs, InMemory DEF ApplyAnswered, ProgressPhases, PostSwapStates
<1>2. \/ journal' = waiting /\ daemon' = Phase(w, "awaiting_heartbeat")
      \/ journal' = journal /\ daemon' = Report(daemon, "failed")
      \/ journal' = journal /\ daemon' = Report(d, "rolled_back")
      \/ journal' = journal /\ daemon' = [daemon EXCEPT !.j = j, !.pc = "hold"]
  BY ApplyAnsweredIs
<1>3. d.j = j /\ w.j = waiting
  BY <1>1 DEF Daemon
<1>4. Going([daemon EXCEPT !.j = j, !.pc = "hold"])
  <2> DEFINE h == [daemon EXCEPT !.j = j, !.pc = "hold"]
  <2>1. h \in Daemon /\ h.j = j /\ h.pc = "hold"
    BY <1>1 DEF Daemon
  <2> HIDE DEF h, j
  <2> QED
    BY <1>1, <2>1, JournalTyped DEF Going, Sited, Consuming, h
<1> HIDE DEF d, w, j, waiting
<1>5. Going(Phase(w, "awaiting_heartbeat"))
  BY <1>1, <1>3, PhaseGoes DEF ProgressPhases, PostSwapStates
<1>6. Going(Report(daemon, "failed")) /\ Going(Report(d, "rolled_back"))
  BY <1>1, <1>3, ReportGoes
<1>7. Going(daemon') /\ journal' \in Journal \cup {None}
  BY <1>1, <1>2, <1>4, <1>5, <1>6, OnDisk
<1> QED
  BY <1>1, <1>7, QuietStep DEF Going

\* runRollingBack: the outcome is reported, or the job held.
LEMMA RollbackAnsweredIs ==
  ASSUME Solid, RollbackAnswered
  PROVE  LET j == [daemon.j EXCEPT !.postSwap = TRUE] IN
         /\ daemon.pc = "request" /\ daemon.ask = "rollback"
         /\ UNCHANGED <<server, journal, disk, service, helper, trouble, swaps>>
         /\ j \in Journal /\ j.phase = daemon.j.phase
         /\ j.postSwap /\ j.requested = daemon.j.requested /\ j.reconcile = daemon.j.reconcile
         /\ \/ daemon' = Report(daemon, "rolled_back") /\ disk.results["rollback"] = "rolled_back"
            \/ daemon' = [daemon EXCEPT !.j = j, !.pc = "hold"]
<1>1. daemon \in Daemon /\ daemon.j \in Journal
  BY InMemory DEF RollbackAnswered
<1> DEFINE j == [daemon.j EXCEPT !.postSwap = TRUE]
<1>2. j \in Journal /\ j.phase = daemon.j.phase
      /\ j.postSwap /\ j.requested = daemon.j.requested /\ j.reconcile = daemon.j.reconcile
  BY <1>1 DEF Journal
<1>3. [daemon EXCEPT !.j = j, !.pc = "hold"] = [daemon EXCEPT !.j.postSwap = TRUE, !.pc = "hold"]
  BY <1>1 DEF Daemon
<1> QED
  BY <1>2, <1>3 DEF RollbackAnswered

\* A daemon that holds a job.
LEMMA HoldTyped ==
  ASSUME NEW d \in Daemon, NEW j \in Journal
  PROVE  LET h == [d EXCEPT !.j = j, !.pc = "hold"] IN
         /\ h \in Daemon /\ h.j = j /\ h.pc = "hold" /\ h.ret = d.ret /\ h.say = d.say
         /\ h.told = d.told /\ h.ask = d.ask /\ Going(h)
<1> DEFINE h == [d EXCEPT !.j = j, !.pc = "hold"]
<1>1. h \in Daemon /\ h.j = j /\ h.pc = "hold" /\ h.ret = d.ret /\ h.say = d.say
      /\ h.told = d.told /\ h.ask = d.ask
  BY DEF Daemon
<1> HIDE DEF h
<1>2. Going(h)
  BY <1>1, JournalTyped DEF Going, Sited, Consuming
<1> QED
  BY <1>1, <1>2 DEF h

\* runRollingBack
LEMMA RollbackAnsweredSolid == ASSUME Solid, RollbackAnswered PROVE Solid'
<1>1. daemon \in Daemon /\ daemon.j \in Journal
  BY InMemory DEF RollbackAnswered
<1> DEFINE j == [daemon.j EXCEPT !.postSwap = TRUE]
<1>2. j \in Journal
  BY RollbackAnsweredIs
<1>3. Going(Report(daemon, "rolled_back"))
  BY <1>1, ReportGoes
<1>4. Going([daemon EXCEPT !.j = j, !.pc = "hold"])
  BY <1>1, <1>2, HoldTyped
<1>5. Going(daemon')
  BY <1>3, <1>4, RollbackAnsweredIs
<1> QED
  BY <1>5, OnDisk, QuietStep DEF Going, RollbackAnswered

\* awaitHeartbeat saves its journal.
LEMMA AwaitBeginsSolid == ASSUME Solid, AwaitBegins PROVE Solid'
<1>1. daemon \in Daemon /\ daemon.j \in Journal /\ daemon.j # None
  BY InMemory DEF AwaitBegins
<1>2. daemon' \in Daemon /\ daemon'.j = daemon.j /\ daemon'.pc = "await"
  BY <1>1 DEF AwaitBegins, Daemon
<1>3. Going(daemon')
  BY <1>1, <1>2 DEF Going, Sited, Consuming
<1> QED
  BY <1>1, <1>3, QuietStep DEF AwaitBegins, Going

\* What awaitHeartbeat makes of a poll: it follows a ruling, polls on, or leaves.
LEMMA AwaitIs ==
  ASSUME Solid, Await
  PROVE  /\ daemon.pc = "await" /\ UNCHANGED <<disk, service, helper, swaps>>
         /\ Stepped(srv, srv') /\ srv' \in {srv, Reconciled} /\ seen' = seen
         /\ trouble' \in 0 .. MaxTrouble /\ LeasesAreNumbered'
         /\ \/ Follow(daemon, srv'.state) /\ srv'.state \in TerminalStates
            \/ \E polled \in Journal :
                 /\ polled.phase = daemon.j.phase /\ polled.postSwap = daemon.j.postSwap
                 /\ polled.requested = daemon.j.requested
                 /\ polled.reconcile = daemon.j.reconcile
                 /\ \/ journal' = polled /\ daemon' = [daemon EXCEPT !.j = polled]
                    \/ LET leaving == [polled EXCEPT !.phase = "rolling_back"] IN
                       /\ journal' = leaving
                       /\ daemon' = Phase([daemon EXCEPT !.j = leaving], "rolling_back")
<1>1. daemon \in Daemon /\ daemon.j \in Journal
  BY InMemory DEF Await
<1> PICK lost \in BOOLEAN :
       /\ Exchange(Reconciled, lost)
       /\ IF ~ lost /\ Ended(srv')
          THEN Follow(daemon, srv'.state)
          ELSE LET polled == IF lost THEN daemon.j ELSE [daemon.j EXCEPT !.token = srv'.token]
                   leaving == [polled EXCEPT !.phase = "rolling_back"]
               IN \/ /\ service.build # "down"
                     /\ journal' = polled /\ daemon' = [daemon EXCEPT !.j = polled]
                  \/ /\ service.build = "down" \/ ~ lost
                     /\ journal' = leaving
                     /\ daemon' = Phase([daemon EXCEPT !.j = leaving], "rolling_back")
  BY DEF Await
<1>2. /\ Stepped(srv, srv') /\ srv' \in {srv, Reconciled} /\ seen' = seen
      /\ trouble' \in 0 .. MaxTrouble /\ LeasesAreNumbered' /\ srv' \in Job
  BY OnDisk, ReconciledIs, ExchangeTyped
<1>3. CASE ~ lost /\ Ended(srv')
  BY <1>2, <1>3 DEF Await, Ended
<1>4. CASE ~ (~ lost /\ Ended(srv'))
  <2>1. PICK k \in 0 .. MaxClaims : k = srv'.token
    BY <1>2 DEF Job
  <2>2. daemon.j = [daemon.j EXCEPT !.token = daemon.j.token] /\ daemon.j.token \in 0 .. MaxClaims
    BY <1>1 DEF Journal
  <2>3. PICK q \in 0 .. MaxClaims :
           LET polled == [daemon.j EXCEPT !.token = q]
               leaving == [polled EXCEPT !.phase = "rolling_back"]
           IN \/ journal' = polled /\ daemon' = [daemon EXCEPT !.j = polled]
              \/ /\ journal' = leaving
                 /\ daemon' = Phase([daemon EXCEPT !.j = leaving], "rolling_back")
    <3>1. CASE lost
      BY <1>4, <2>2, <3>1
    <3>2. CASE ~ lost
      BY <1>4, <2>1, <3>2
    <3> QED
      BY <3>1, <3>2
  <2> DEFINE polled == [daemon.j EXCEPT !.token = q]
  <2>4. /\ polled \in Journal /\ polled.phase = daemon.j.phase
        /\ polled.postSwap = daemon.j.postSwap
        /\ polled.requested = daemon.j.requested /\ polled.reconcile = daemon.j.reconcile
    BY <1>1 DEF Journal
  <2> QED
    BY <1>2, <2>3, <2>4 DEF Await
<1> QED
  BY <1>3, <1>4

\* A journal that leaves for the rollback.
Leaving(j) == [j EXCEPT !.phase = "rolling_back"]

\* It is one.
LEMMA LeavingTyped ==
  ASSUME NEW j \in Journal
  PROVE  /\ Leaving(j) \in Journal /\ Leaving(j).phase = "rolling_back"
         /\ Leaving(j).requested = j.requested /\ Leaving(j).reconcile = j.reconcile
         /\ Leaving(j).postSwap = j.postSwap
BY DEF Leaving, Journal, ProgressPhases, PostSwapStates

\* A daemon with another journal.
LEMMA WithJournal ==
  ASSUME NEW d \in Daemon, NEW j \in Journal
  PROVE  LET e == [d EXCEPT !.j = j] IN
         /\ e \in Daemon /\ e.j = j /\ e.pc = d.pc /\ e.ret = d.ret /\ e.ask = d.ask
         /\ e.say = d.say /\ e.told = d.told /\ e.found = d.found /\ e.last = d.last
BY DEF Daemon

\* awaitHeartbeat
LEMMA AwaitSolid == ASSUME Solid, Await PROVE Solid'
<1>1. daemon \in Daemon /\ daemon.j \in Journal /\ daemon.pc = "await"
  BY InMemory DEF Await
<1>2. /\ srv' \in Job /\ seen' \in Seen /\ trouble' \in 0 .. MaxTrouble /\ LeasesAreNumbered'
      /\ disk' = disk /\ service' = service /\ helper' = helper /\ swaps' = swaps
  BY AwaitIs DEF Solid, TypeOK, Stepped
<1>3. CASE Follow(daemon, srv'.state) /\ srv'.state \in TerminalStates
  <2>1. /\ journal' \in Journal \cup {None} /\ Sited(daemon')
        /\ Consuming(daemon') => srv'.state \in Final /\ daemon'.told
    BY <1>1, <1>3, OnDisk, FollowSited
  <2> QED
    BY <1>2, <2>1, OnDisk, DaemonStep
<1>4. ASSUME NEW polled \in Journal, journal' = polled, daemon' = [daemon EXCEPT !.j = polled]
      PROVE  Solid'
  <2>1. daemon' \in Daemon /\ daemon'.j = polled /\ daemon'.pc = "await"
    BY <1>1, <1>4, WithJournal
  <2>2. Going(daemon')
    BY <2>1, JournalTyped DEF Going, Sited, Consuming
  <2> QED
    BY <1>2, <1>4, <2>2, OnDisk, DaemonStep DEF Going
<1>5. ASSUME NEW polled \in Journal, journal' = Leaving(polled),
             daemon' = Phase([daemon EXCEPT !.j = Leaving(polled)], "rolling_back")
      PROVE  Solid'
  <2> DEFINE e == [daemon EXCEPT !.j = Leaving(polled)]
  <2>1. /\ Leaving(polled) \in Journal /\ Leaving(polled).phase \in ProgressPhases
        /\ "rolling_back" \in ProgressPhases
    BY LeavingTyped DEF ProgressPhases, PostSwapStates
  <2>2. e \in Daemon /\ e.j = Leaving(polled)
    BY <1>1, <2>1, WithJournal
  <2> HIDE DEF e
  <2>3. Going(Phase(e, "rolling_back"))
    BY <2>1, <2>2, PhaseGoes
  <2> QED
    BY <1>2, <1>5, <2>1, <2>3, OnDisk, DaemonStep DEF Going, e
<1> QED
  BY <1>3, <1>4, <1>5, AwaitIs DEF Leaving

\* What a report of the outcome leads to.
LEMMA ReportResultIs ==
  ASSUME Solid, ReportResult
  PROVE  /\ daemon.pc = "report" /\ UNCHANGED <<disk, service, helper, swaps>>
         /\ Stepped(srv, srv') /\ srv' \in {srv, Resulted(daemon.j.token, daemon.say)}
         /\ seen' = seen /\ trouble' \in 0 .. MaxTrouble /\ LeasesAreNumbered'
         /\ \/ journal' = journal /\ daemon' = Failing(daemon)
            \/ \E j \in Journal, p \in {"observe", "hold", "reclaim"} :
                 /\ j.phase \in {daemon.j.phase, "terminal"} /\ j.postSwap = daemon.j.postSwap
                 /\ j.requested = daemon.j.requested /\ j.reconcile = daemon.j.reconcile
                 /\ (journal' = journal /\ j = daemon.j) \/ journal' = j
                 /\ p = "hold" => j.postSwap
                 /\ daemon' \in Daemon /\ daemon'.j = j /\ daemon'.pc = p
                 /\ daemon'.ret = daemon.ret /\ daemon'.say = daemon.say
                 /\ daemon.told => daemon'.told
                 /\ daemon'.found = daemon.found
<1>1. daemon \in Daemon /\ daemon.j \in Journal
  BY InMemory DEF ReportResult
<1> DEFINE d == daemon
           agreed == [d.j EXCEPT !.reported = TRUE, !.phase = "terminal"]
           beaten == [d.j EXCEPT !.reported = TRUE]
<1>2. /\ agreed \in Journal /\ beaten \in Journal
      /\ agreed.phase = "terminal" /\ beaten.phase = d.j.phase
      /\ agreed.postSwap = d.j.postSwap /\ beaten.postSwap = d.j.postSwap
      /\ agreed.requested = d.j.requested /\ beaten.requested = d.j.requested
      /\ agreed.reconcile = d.j.reconcile /\ beaten.reconcile = d.j.reconcile
  BY <1>1 DEF Journal
<1>3. CASE d.j.reported
  <2>1. /\ daemon' = [d EXCEPT !.pc = "observe"] /\ journal' = journal
        /\ srv' = srv /\ seen' = seen /\ trouble' = trouble
    BY <1>3 DEF ReportResult, server
  <2>2. /\ daemon' \in Daemon /\ daemon'.j = d.j /\ daemon'.pc = "observe"
        /\ daemon'.ret = d.ret /\ daemon'.say = d.say /\ daemon'.told = d.told
        /\ daemon'.found = d.found
    BY <1>1, <2>1 DEF Daemon
  <2>3. Stepped(srv, srv') /\ LeasesAreNumbered' /\ trouble' \in 0 .. MaxTrouble
    BY <2>1 DEF Stepped, Settling, Solid, TypeOK, LeasesAreNumbered
  <2> QED
    BY <1>1, <2>1, <2>2, <2>3 DEF ReportResult
<1>4. CASE ~ d.j.reported
  <2> PICK lost \in BOOLEAN :
        /\ Exchange(Resulted(d.j.token, d.say), lost)
        /\ \/ daemon' = Failing(d) /\ journal' = journal
           \/ journal' = agreed /\ daemon' = [d EXCEPT !.j = agreed, !.pc = "observe"]
           \/ /\ journal' = beaten
              /\ daemon' = [d EXCEPT !.j = beaten, !.pc = "observe", !.told = TRUE]
           \/ daemon' = [d EXCEPT !.pc = "hold"] /\ d.j.postSwap /\ journal' = journal
           \/ daemon' = [d EXCEPT !.pc = "reclaim"] /\ journal' = journal
    BY <1>4 DEF ReportResult, ResultReply
  <2>1. /\ Stepped(srv, srv') /\ srv' \in {srv, Resulted(d.j.token, d.say)}
        /\ seen' = seen /\ trouble' \in 0 .. MaxTrouble /\ LeasesAreNumbered'
    <3>1. Stepped(srv, Resulted(d.j.token, d.say))
      BY OnDisk, ResultedIs
    <3> QED
      BY <3>1, ExchangeTyped
  <2>2. CASE daemon' = Failing(d) /\ journal' = journal
    BY <1>4, <2>1, <2>2 DEF ReportResult
  <2>3. ASSUME NEW j \in {d.j, agreed, beaten}, NEW p \in {"observe", "hold", "reclaim"},
               NEW t \in {d.told, TRUE}, daemon' = [d EXCEPT !.j = j, !.pc = p, !.told = t]
        PROVE  /\ daemon' \in Daemon /\ daemon'.j = j /\ daemon'.pc = p
               /\ daemon'.ret = daemon.ret /\ daemon'.say = daemon.say
               /\ (daemon.told => daemon'.told)
               /\ daemon'.found = daemon.found
    <3>1. j \in Journal /\ t \in BOOLEAN
      BY <1>1, <1>2 DEF Daemon
    <3> HIDE DEF agreed, beaten
    <3> QED
      BY <1>1, <2>3, <3>1 DEF Daemon
  <2>4. \/ daemon' = Failing(d) /\ journal' = journal
        \/ \E j \in {d.j, agreed, beaten}, p \in {"observe", "hold", "reclaim"},
              t \in {d.told, TRUE} :
             /\ (journal' = journal /\ j = d.j) \/ journal' = j
             /\ p = "hold" => d.j.postSwap
             /\ daemon' = [d EXCEPT !.j = j, !.pc = p, !.told = t]
    <3>1. /\ [d EXCEPT !.pc = "hold"] = [d EXCEPT !.j = d.j, !.pc = "hold", !.told = d.told]
          /\ [d EXCEPT !.pc = "reclaim"] = [d EXCEPT !.j = d.j, !.pc = "reclaim", !.told = d.told]
      BY <1>1 DEF Daemon
    <3>2. /\ [d EXCEPT !.j = agreed, !.pc = "observe"]
               = [d EXCEPT !.j = agreed, !.pc = "observe", !.told = d.told]
      BY <1>1 DEF Daemon
    <3> HIDE DEF agreed, beaten
    <3> QED
      BY <3>1, <3>2
  <2> HIDE DEF agreed, beaten
  <2>5. ASSUME NEW j \in {d.j, agreed, beaten}
        PROVE  /\ j \in Journal /\ j.phase \in {d.j.phase, "terminal"}
               /\ j.postSwap = d.j.postSwap
               /\ j.requested = d.j.requested /\ j.reconcile = d.j.reconcile
    BY <1>1, <1>2
  <2> QED
    BY <1>4, <2>1, <2>2, <2>3, <2>4, <2>5 DEF ReportResult
<1> QED
  BY <1>3, <1>4

\* reportAndObserve
LEMMA ReportResultSolid == ASSUME Solid, ReportResult PROVE Solid'
<1>1. daemon \in Daemon /\ journal \in Journal \cup {None} /\ disk \in Disk
  BY OnDisk
<1>2. /\ srv' \in Job /\ seen' \in Seen /\ trouble' \in 0 .. MaxTrouble /\ LeasesAreNumbered'
      /\ disk' = disk /\ service' = service /\ helper' = helper /\ swaps' = swaps
  BY ReportResultIs DEF Solid, TypeOK, Stepped
<1>3. journal' \in Journal \cup {None} /\ Going(daemon')
  <2>1. CASE journal' = journal /\ daemon' = Failing(daemon)
    BY <1>1, <2>1, FailingGoes
  <2>2. ASSUME NEW j \in Journal, daemon' \in Daemon, daemon'.j = j,
               daemon'.pc \in {"observe", "hold", "reclaim"},
               daemon'.pc = "reclaim" => daemon'.say # None
        PROVE  Going(daemon')
    BY <2>2, JournalTyped DEF Going, Sited, Consuming
  <2>3. daemon.say # None
    BY DEF Solid, DaemonIsPlaced, ReportResult
  <2> QED
    BY <1>1, <2>1, <2>2, <2>3, ReportResultIs
<1> QED
  BY <1>1, <1>2, <1>3, DaemonStep DEF Going

\* What observeRuling makes of a poll.
LEMMA ObserveIs ==
  ASSUME Solid, Observe
  PROVE  /\ daemon.pc = "observe" /\ UNCHANGED <<disk, service, helper, swaps>>
         /\ Stepped(srv, srv') /\ srv' \in {srv, Reconciled} /\ seen' = seen
         /\ trouble' \in 0 .. MaxTrouble /\ LeasesAreNumbered'
         /\ \/ Follow(daemon, srv'.state) /\ srv'.state \in TerminalStates
            \/ daemon' = daemon /\ journal' = journal
<1> PICK lost \in BOOLEAN :
       /\ Exchange(Reconciled, lost)
       /\ IF ~ lost /\ Ended(srv') THEN Follow(daemon, srv'.state)
          ELSE UNCHANGED <<daemon, journal>>
  BY DEF Observe
<1>1. /\ Stepped(srv, srv') /\ srv' \in {srv, Reconciled} /\ seen' = seen
      /\ trouble' \in 0 .. MaxTrouble /\ LeasesAreNumbered'
  BY OnDisk, ReconciledIs, ExchangeTyped
<1> QED
  BY <1>1 DEF Observe, Ended

\* observeRuling
LEMMA ObserveSolid == ASSUME Solid, Observe PROVE Solid'
<1>1. daemon \in Daemon /\ daemon.j \in Journal /\ daemon.pc = "observe"
  BY InMemory DEF Observe
<1>2. /\ srv' \in Job /\ seen' \in Seen /\ trouble' \in 0 .. MaxTrouble /\ LeasesAreNumbered'
      /\ disk' = disk /\ service' = service /\ helper' = helper /\ swaps' = swaps
  BY ObserveIs DEF Solid, TypeOK, Stepped
<1>3. CASE Follow(daemon, srv'.state) /\ srv'.state \in TerminalStates
  <2>1. /\ journal' \in Journal \cup {None} /\ Sited(daemon')
        /\ Consuming(daemon') => srv'.state \in Final /\ daemon'.told
    BY <1>1, <1>3, OnDisk, FollowSited
  <2> QED
    BY <1>2, <2>1, OnDisk, DaemonStep
<1>4. CASE daemon' = daemon /\ journal' = journal
  <2>1. Sited(daemon') /\ ~ Consuming(daemon')
    BY <1>1, <1>4, PlacedIs DEF Solid, Consuming
  <2> QED
    BY <1>2, <1>4, <2>1, OnDisk, DaemonStep
<1> QED
  BY <1>3, <1>4, ObserveIs

\* What holdJob leaves in memory.
LEMMA HoldJobIs ==
  ASSUME Solid, HoldJob
  PROVE  /\ daemon.pc = "hold" /\ UNCHANGED <<journal, disk, service, helper, swaps>>
         /\ Stepped(srv, srv') /\ srv' \in {srv, Resulted(daemon.j.token, "rollback_unverified")}
         /\ seen' = seen /\ trouble' \in 0 .. MaxTrouble /\ LeasesAreNumbered'
         /\ \E j \in Journal :
              /\ j.phase = "terminal" /\ j.postSwap = daemon.j.postSwap
              /\ j.requested = daemon.j.requested /\ j.reconcile = daemon.j.reconcile
              /\ daemon' \in Daemon /\ daemon'.j = j /\ daemon'.pc = "halt"
              /\ daemon'.ret = daemon.ret /\ daemon'.say = daemon.say
              /\ daemon'.told = daemon.told
<1>1. daemon \in Daemon /\ daemon.j \in Journal
  BY InMemory DEF HoldJob
<1> DEFINE j(b) == [daemon.j EXCEPT !.hold = TRUE, !.phase = "terminal", !.acked = FALSE,
                                    !.reported = b]
<1>2. ASSUME NEW b \in BOOLEAN
      PROVE  /\ j(b) \in Journal /\ j(b).phase = "terminal" /\ j(b).postSwap = daemon.j.postSwap
             /\ j(b).requested = daemon.j.requested /\ j(b).reconcile = daemon.j.reconcile
  BY <1>1 DEF Journal
<1>3. ASSUME NEW b \in BOOLEAN, daemon' = [daemon EXCEPT !.j = j(b), !.pc = "halt"]
      PROVE  /\ daemon' \in Daemon /\ daemon'.j = j(b) /\ daemon'.pc = "halt"
             /\ daemon'.ret = daemon.ret /\ daemon'.say = daemon.say
             /\ daemon'.told = daemon.told
  <2> HIDE DEF j
  <2> QED
    BY <1>1, <1>2, <1>3 DEF Daemon
<1> DEFINE held == [daemon EXCEPT !.j.hold = TRUE, !.j.phase = "terminal", !.j.acked = FALSE,
                                  !.pc = "halt"]
<1>4. /\ held = [daemon EXCEPT !.j = [daemon.j EXCEPT !.hold = TRUE, !.phase = "terminal",
                                                      !.acked = FALSE], !.pc = "halt"]
      /\ [daemon.j EXCEPT !.hold = TRUE, !.phase = "terminal", !.acked = FALSE] = j(daemon.j.reported)
      /\ daemon.j.reported \in BOOLEAN
  BY <1>1 DEF Daemon, Journal
<1>5. ASSUME NEW b \in BOOLEAN
      PROVE  [held EXCEPT !.j.reported = b] = [daemon EXCEPT !.j = j(b), !.pc = "halt"]
  BY <1>1 DEF Daemon, Journal
<1> HIDE DEF held, j
<1>6. CASE daemon' = held /\ UNCHANGED <<server, trouble>>
  <2>1. Stepped(srv, srv') /\ LeasesAreNumbered' /\ trouble' \in 0 .. MaxTrouble
        /\ srv' = srv /\ seen' = seen
    BY <1>6 DEF Stepped, Settling, Solid, TypeOK, LeasesAreNumbered, server
  <2> QED
    BY <1>2, <1>3, <1>4, <1>6, <2>1 DEF HoldJob
<1>7. ASSUME NEW lost \in BOOLEAN,
             Exchange(Resulted(daemon.j.token, "rollback_unverified"), lost),
             daemon' = [held EXCEPT !.j.reported = ~ lost]
      PROVE  /\ Stepped(srv, srv') /\ srv' \in {srv, Resulted(daemon.j.token, "rollback_unverified")}
             /\ seen' = seen /\ trouble' \in 0 .. MaxTrouble /\ LeasesAreNumbered'
             /\ \E b \in BOOLEAN : daemon' = [daemon EXCEPT !.j = j(b), !.pc = "halt"]
  <2>1. Stepped(srv, Resulted(daemon.j.token, "rollback_unverified"))
    BY OnDisk, ResultedIs
  <2>2. (~ lost) \in BOOLEAN
    OBVIOUS
  <2>3. daemon' = [daemon EXCEPT !.j = j(~ lost), !.pc = "halt"]
    BY <1>5, <1>7, <2>2
  <2> QED
    BY <1>7, <2>1, <2>2, <2>3, ExchangeTyped
<1>8. \/ daemon' = held /\ UNCHANGED <<server, trouble>>
      \/ \E lost \in BOOLEAN : /\ Exchange(Resulted(daemon.j.token, "rollback_unverified"), lost)
                               /\ daemon' = [held EXCEPT !.j.reported = ~ lost]
  BY DEF HoldJob, held
<1> QED
  BY <1>2, <1>3, <1>6, <1>7, <1>8 DEF HoldJob

\* holdJob
LEMMA HoldJobSolid == ASSUME Solid, HoldJob PROVE Solid'
<1>1. /\ srv' \in Job /\ seen' \in Seen /\ trouble' \in 0 .. MaxTrouble /\ LeasesAreNumbered'
      /\ disk' = disk /\ service' = service /\ helper' = helper /\ swaps' = swaps
      /\ journal' = journal
  BY HoldJobIs DEF Solid, TypeOK, Stepped
<1>2. daemon' \in Daemon /\ daemon'.j \in Journal /\ daemon'.pc = "halt"
  BY HoldJobIs
<1>3. Going(daemon')
  BY <1>2, JournalTyped DEF Going, Sited, Consuming
<1> QED
  BY <1>1, <1>3, OnDisk, DaemonStep DEF Going

\* The hold is saved.
LEMMA HaltSolid == ASSUME Solid, Halt PROVE Solid'
<1>1. daemon \in Daemon /\ daemon.j \in Journal
  BY InMemory DEF Halt
<1>2. Going(daemon')
  BY <1>1, ResumeGoes DEF Halt
<1> QED
  BY <1>1, <1>2, QuietStep DEF Halt, Going

\* The triggers and the staged artifact go.
LEMMA ConsumeSolid == ASSUME Solid, Consume PROVE Solid'
<1>1. daemon \in Daemon /\ daemon.j \in Journal /\ daemon.j # None /\ daemon.pc = "consume"
  BY InMemory DEF Consume
<1>2. /\ srv' \in Job /\ seen' \in Seen /\ LeasesAreNumbered' /\ srv' = srv
      /\ UNCHANGED <<service, helper, swaps>> /\ journal' \in Journal \cup {None}
      /\ trouble' \in 0 .. MaxTrouble
  BY DEF Solid, TypeOK, LeasesAreNumbered, server, Consume
<1>3. disk' \in Disk
  BY OnDisk DEF Disk, Consume
<1>4. /\ daemon' \in Daemon /\ daemon'.j = daemon.j /\ daemon'.told = daemon.told
      /\ daemon'.pc \in {"teardown", "request"}
  <2>1. CASE daemon' = Ask(daemon, "cleanup")
    BY <1>1, <2>1, AskTyped DEF HelperActions
  <2>2. CASE daemon' = [daemon EXCEPT !.pc = "teardown"]
    BY <1>1, <2>2 DEF Daemon
  <2> QED
    BY <2>1, <2>2 DEF Consume
<1>5. srv.state \in Final /\ daemon.told
  BY <1>1 DEF Solid, DaemonIsPlaced
<1>6. Sited(daemon')
  BY <1>1, <1>4 DEF Sited
<1> QED
  BY <1>2, <1>3, <1>4, <1>5, <1>6, DaemonStep

\* The cleanup is noted.
LEMMA CleanupAnsweredSolid == ASSUME Solid, CleanupAnswered PROVE Solid'
<1>1. daemon \in Daemon /\ daemon.j \in Journal
  BY InMemory DEF CleanupAnswered
<1> DEFINE cleaned == [daemon.j EXCEPT !.cleaned = TRUE]
<1>2. cleaned \in Journal
  BY <1>1 DEF Journal
<1>3. journal' = cleaned /\ daemon' = [daemon EXCEPT !.j = cleaned, !.pc = "teardown"]
  BY DEF CleanupAnswered
<1> HIDE DEF cleaned
<1>4. daemon' \in Daemon /\ daemon'.j = cleaned /\ daemon'.pc = "teardown"
      /\ daemon'.told = daemon.told
  BY <1>1, <1>2, <1>3 DEF Daemon
<1>5. srv.state \in Final /\ daemon.told
  BY DEF Solid, DaemonIsPlaced, CleanupAnswered
<1>6. Sited(daemon')
  BY <1>2, <1>4, JournalTyped DEF Sited
<1> QED
  BY <1>2, <1>3, <1>4, <1>5, <1>6, QuietStep DEF CleanupAnswered

\* The results go ...
LEMMA TeardownSolid == ASSUME Solid, Teardown PROVE Solid'
<1>1. daemon \in Daemon /\ daemon.j \in Journal /\ daemon.j # None
  BY InMemory DEF Teardown
<1>2. /\ srv' \in Job /\ seen' \in Seen /\ LeasesAreNumbered' /\ srv' = srv
      /\ UNCHANGED <<service, helper, swaps>> /\ journal' \in Journal \cup {None}
      /\ trouble' \in 0 .. MaxTrouble
  BY DEF Solid, TypeOK, LeasesAreNumbered, server, Teardown
<1>3. disk' \in Disk
  BY OnDisk DEF Disk, Teardown
<1>4. daemon' \in Daemon /\ daemon'.j = daemon.j /\ daemon'.pc = "clear" /\ daemon'.told = daemon.told
  BY <1>1 DEF Daemon, Teardown
<1>5. srv.state \in Final /\ daemon.told
  BY DEF Solid, DaemonIsPlaced, Teardown
<1>6. Sited(daemon')
  BY <1>1, <1>4 DEF Sited
<1> QED
  BY <1>2, <1>3, <1>4, <1>5, <1>6, DaemonStep

\* ... and the journal with them.
LEMMA ClearIs ==
  ASSUME Solid, Clear
  PROVE  /\ srv.state \in Final /\ daemon.told /\ daemon.j \in Journal /\ journal' = None
         /\ \E e \in Daemon : /\ e.j = daemon.j /\ e.ret = daemon.ret /\ e.say = daemon.say
                              /\ e.told /\ e.pc = "clear" /\ daemon' = Resume(e)
<1>1. daemon \in Daemon /\ daemon.j \in Journal
  BY InMemory DEF Clear
<1>2. srv.state \in Final /\ daemon.told
  BY DEF Solid, DaemonIsPlaced, Clear
<1> DEFINE e == [daemon EXCEPT !.last = None]
<1>3. e \in Daemon /\ e.j = daemon.j /\ e.ret = daemon.ret /\ e.say = daemon.say
      /\ e.told = daemon.told /\ e.pc = daemon.pc
  BY <1>1 DEF Daemon
<1> QED
  BY <1>1, <1>2, <1>3 DEF Clear

\* The job is forgotten.
LEMMA ClearSolid == ASSUME Solid, Clear PROVE Solid'
<1>1. Going(daemon') /\ journal' = None
  BY ClearIs, ResumeGoes
<1> QED
  BY <1>1, QuietStep DEF Clear, Going

\* Every step of the daemon keeps the types and its place.
LEMMA DaemonSolid == ASSUME Solid, DaemonSteps PROVE Solid'
BY LoadSolid, ClaimSolid, LookSolid, DecideSolid, ReportPhaseSolid, ReclaimSolid, WorkSolid,
   RequestSolid, ApplyAnsweredSolid, RollbackAnsweredSolid, AwaitBeginsSolid, AwaitSolid,
   ReportResultSolid, ObserveSolid, HoldJobSolid, HaltSolid, ConsumeSolid,
   CleanupAnsweredSolid, TeardownSolid, ClearSolid DEF DaemonSteps

-----------------------------------------------------------------------------
(* The same for the helper and the surroundings *)

\* The agent process.
Services == [build : {"old", "new", "down"}, restarted : BOOLEAN]

\* A step of the helper keeps what is typed.
LEMMA HelperStep ==
  ASSUME Solid, UNCHANGED <<srv, seen, journal, daemon>>,
         trouble' \in 0 .. MaxTrouble, service' \in Services, disk' \in Disk,
         helper' \in Helper, swaps' \in Nat
  PROVE  Solid'
<1>1. LeasesAreNumbered' /\ DaemonIsPlaced'
  BY DEF Solid, LeasesAreNumbered, DaemonIsPlaced
<1> QED
  BY <1>1 DEF Solid, TypeOK, Services

\* What the helper works on.
LEMMA HelperTyped ==
  ASSUME Solid
  PROVE  /\ helper \in Helper /\ disk \in Disk /\ service \in Services /\ swaps \in Nat
         /\ trouble \in 0 .. MaxTrouble /\ srv.pinned \in BOOLEAN
         /\ disk.binary \in {"old", "new"}
BY DEF Solid, TypeOK, Services, Disk, Job

\* The helper goes on, or has an answer.
LEMMA GoTyped ==
  ASSUME Solid
  PROVE  /\ \A p \in {"idle", "next", "apply", "intent", "rename", "note",
                      "restart", "rejoin", "rollback", "restore", "putback",
                      "noteback", "restartback", "cleanup", "forget",
                      "result", "unlink"} :
              Go(p) => /\ helper' \in Helper /\ helper'.at = p /\ helper'.act = helper.act
                       /\ helper'.todo = helper.todo /\ helper'.out = helper.out
         /\ \A o \in HelperOutcomes :
              Answer(o) => /\ helper' \in Helper /\ helper'.at = "result"
                           /\ helper'.act = helper.act
                           /\ helper'.todo = helper.todo /\ helper'.out = o
BY HelperTyped DEF Go, Answer, Helper

\* A restart of the agent.
LEMMA RestartTyped ==
  ASSUME Solid, NEW up \in BOOLEAN, Restart(up)
  PROVE  /\ service' \in Services /\ trouble' \in 0 .. MaxTrouble
         /\ service'.build \in {disk.binary, "down"}
BY HelperTyped, MishapTyped DEF Restart, Services

\* The helper lists the requests.
LEMMA HelperStartsSolid == ASSUME Solid, HelperStarts PROVE Solid'
<1>1. disk.pending \subseteq HelperActions
  BY HelperTyped DEF Disk
<1>2. helper' \in Helper
  BY <1>1, HelperTyped DEF HelperStarts, Helper
<1> QED
  BY <1>2, HelperTyped, HelperStep DEF HelperStarts, server

\* The helper without a request.
LEMMA DormantTyped == Dormant \in Helper /\ Dormant.at = "idle" /\ Dormant.todo = {} /\ Dormant.out = None
BY DEF Dormant, Helper, HelperActions

\* What the helper takes up.
LEMMA HelperTakesIs ==
  ASSUME Solid, HelperTakes
  PROVE  /\ helper.at = "next" /\ helper' \in Helper
         /\ UNCHANGED <<server, journal, disk, service, daemon, trouble, swaps>>
         /\ \/ helper' = Dormant
            \/ \E a \in helper.todo : /\ helper'.at = a /\ helper'.act = a
                                      /\ helper'.todo = helper.todo \ {a}
                                      /\ helper'.out = helper.out
<1>1. CASE helper.todo = {}
  BY <1>1, DormantTyped DEF HelperTakes
<1>2. CASE helper.todo # {}
  <2>1. helper \in Helper /\ helper.todo \subseteq HelperActions
    BY HelperTyped DEF Helper
  <2>2. PICK a \in helper.todo : helper' = [helper EXCEPT !.at = a, !.act = a, !.todo = @ \ {a}]
    BY <1>2, <2>1 DEF HelperTakes, HelperActions
  <2>3. a \in HelperActions
    BY <2>1
  <2>4. /\ helper' \in Helper /\ helper'.at = a /\ helper'.act = a
        /\ helper'.todo = helper.todo \ {a} /\ helper'.out = helper.out
    BY <2>1, <2>2, <2>3 DEF Helper, HelperActions
  <2> QED
    BY <2>4 DEF HelperTakes
<1> QED
  BY <1>1, <1>2

\* It takes one.
LEMMA HelperTakesSolid == ASSUME Solid, HelperTakes PROVE Solid'
BY HelperTakesIs, HelperTyped, HelperStep DEF server

\* handleApply
LEMMA HelperApplySolid == ASSUME Solid, HelperApply PROVE Solid'
<1>1. /\ srv' = srv /\ seen' = seen /\ journal' = journal /\ service' = service
      /\ daemon' = daemon /\ swaps' = swaps
  BY DEF HelperApply, server
<1>2. trouble' \in 0 .. MaxTrouble
  BY HelperTyped, MishapTyped DEF HelperApply
<1>3. disk' \in Disk
  <2>1. disk' = disk \/ disk' = [disk EXCEPT !.backup = TRUE]
    BY DEF HelperApply
  <2> QED
    BY <2>1, HelperTyped DEF Disk
<1>4. \/ Go("rejoin") \/ Go("intent")
      \/ \E o \in HelperOutcomes : Answer(o)
  BY HelperTyped DEF HelperApply, HelperOutcomes
<1>5. helper' \in Helper
  BY <1>4, GoTyped
<1> QED
  BY <1>1, <1>2, <1>3, <1>5, HelperTyped, HelperStep

\* The swap.
LEMMA HelperSwapsSolid == ASSUME Solid, HelperSwaps PROVE Solid'
<1>1. disk' \in Disk
  <2>1. \/ disk' = [disk EXCEPT !.record = "intent"] \/ disk' = [disk EXCEPT !.binary = "new"]
        \/ disk' = [disk EXCEPT !.record = "renamed"]
    BY DEF HelperSwaps
  <2> QED
    BY <2>1, HelperTyped DEF Disk, HelperPhases
<1>2. helper' \in Helper
  BY GoTyped DEF HelperSwaps
<1>3. swaps' \in Nat
  BY HelperTyped DEF HelperSwaps
<1> QED
  BY <1>1, <1>2, <1>3, HelperTyped, HelperStep DEF HelperSwaps, server

\* What both restarts of the new binary leave.
LEMMA RestartsIs ==
  ASSUME Solid, HelperRestarts \/ HelperRejoins
  PROVE  /\ UNCHANGED <<server, journal, daemon, swaps>>
         /\ helper.at \in {"restart", "rejoin"}
         /\ service' \in Services /\ service'.build \in {disk.binary, "down"}
         /\ trouble' \in 0 .. MaxTrouble
         /\ disk' = disk \/ disk' = [disk EXCEPT !.record = "restarted"]
         /\ disk' \in Disk /\ helper' \in Helper
         /\ helper'.act = helper.act /\ helper'.todo = helper.todo
         /\ \/ /\ helper'.at = "result"
               /\ helper'.out \in {"restarted", "recovered_restarted", "unclear"}
            \/ helper'.at = "restore" /\ helper'.out = helper.out
<1>1. \E up, recorded \in BOOLEAN :
        /\ Restart(up)
        /\ disk' = IF recorded THEN [disk EXCEPT !.record = "restarted"] ELSE disk
        /\ \/ \E o \in {"restarted", "recovered_restarted", "unclear"} : Answer(o)
           \/ Go("restore")
  BY DEF HelperRestarts, HelperRejoins
<1>2. PICK up \in BOOLEAN, recorded \in BOOLEAN :
        /\ Restart(up)
        /\ disk' = IF recorded THEN [disk EXCEPT !.record = "restarted"] ELSE disk
        /\ \/ \E o \in {"restarted", "recovered_restarted", "unclear"} : Answer(o)
           \/ Go("restore")
  BY <1>1
<1>3. /\ service' \in Services /\ service'.build \in {disk.binary, "down"}
      /\ trouble' \in 0 .. MaxTrouble
  BY <1>2, RestartTyped
<1>4. disk' \in Disk /\ (disk' = disk \/ disk' = [disk EXCEPT !.record = "restarted"])
  BY <1>2, HelperTyped DEF Disk, HelperPhases
<1>5. /\ helper' \in Helper
      /\ helper'.act = helper.act /\ helper'.todo = helper.todo
      /\ \/ /\ helper'.at = "result"
            /\ helper'.out \in {"restarted", "recovered_restarted", "unclear"}
         \/ helper'.at = "restore" /\ helper'.out = helper.out
  BY <1>2, GoTyped DEF HelperOutcomes
<1> QED
  BY <1>3, <1>4, <1>5 DEF HelperRestarts, HelperRejoins

\* The restarts.
LEMMA HelperRestartsSolid == ASSUME Solid, HelperRestarts \/ HelperRejoins PROVE Solid'
BY RestartsIs, HelperTyped, HelperStep DEF server

\* handleRollback
LEMMA HelperRollbackSolid == ASSUME Solid, HelperRollback PROVE Solid'
<1>1. \/ Answer("rollback_failed") \/ Answer("rolled_back") \/ Go("restore")
  BY DEF HelperRollback
<1>2. helper' \in Helper
  BY <1>1, GoTyped DEF HelperOutcomes
<1> QED
  BY <1>2, HelperTyped, HelperStep DEF HelperRollback, server

\* restoreBackup and what follows it.
LEMMA RestoresIs ==
  ASSUME Solid, HelperRestores
  PROVE  /\ UNCHANGED <<server, journal, daemon, swaps>>
         /\ trouble' \in 0 .. MaxTrouble /\ disk' \in Disk /\ helper' \in Helper
         /\ service' \in Services /\ service'.build \in {service.build, disk.binary, "down"}
         /\ helper'.act = helper.act /\ helper'.todo = helper.todo
         /\ disk'.backup = disk.backup /\ disk'.staged = disk.staged
         /\ disk'.pending = disk.pending /\ disk'.results = disk.results
         /\ disk'.robbed = disk.robbed
         /\ \/ /\ helper.at = "restore" /\ disk'.binary = disk.binary
               /\ disk'.record = disk.record
               /\ \/ helper'.at = "putback" /\ helper'.out = helper.out
                  \/ /\ helper'.at = "result"
                     /\ helper'.out \in {"restart_failed_rollback_failed", "rollback_failed"}
            \/ /\ helper.at = "putback" /\ disk'.binary = "old" /\ disk'.record = disk.record
               /\ helper'.at = "noteback" /\ helper'.out = helper.out
            \/ /\ helper.at = "noteback" /\ disk'.binary = disk.binary
               /\ disk'.record = "rolled_back"
               /\ helper'.at = "restartback" /\ helper'.out = helper.out
            \/ /\ helper.at = "restartback" /\ disk' = disk /\ helper'.at = "result"
<1>1. CASE helper.at = "restore"
  <2>1. \/ /\ disk' = [disk EXCEPT !.partial = ~ disk.backup /\ @] /\ Answer(RestoreFailed)
        \/ disk' = [disk EXCEPT !.partial = TRUE] /\ Go("putback")
    BY <1>1 DEF HelperRestores
  <2>2. disk.partial \in BOOLEAN /\ disk.backup \in BOOLEAN
    BY HelperTyped DEF Disk
  <2>3. (~ disk.backup /\ disk.partial) \in BOOLEAN
    OBVIOUS
  <2>4. PICK b \in BOOLEAN : disk' = [disk EXCEPT !.partial = b]
    BY <2>1, <2>3
  <2>5. /\ disk' \in Disk /\ disk'.binary = disk.binary /\ disk'.record = disk.record
        /\ disk'.backup = disk.backup /\ disk'.staged = disk.staged
        /\ disk'.pending = disk.pending /\ disk'.results = disk.results
        /\ disk'.robbed = disk.robbed
    BY <2>4, HelperTyped DEF Disk
  <2>6. /\ RestoreFailed \in {"restart_failed_rollback_failed", "rollback_failed"}
        /\ RestoreFailed \in HelperOutcomes
    BY DEF RestoreFailed, HelperOutcomes
  <2>7. /\ helper' \in Helper /\ helper'.act = helper.act /\ helper'.todo = helper.todo
        /\ \/ helper'.at = "putback" /\ helper'.out = helper.out
           \/ /\ helper'.at = "result"
              /\ helper'.out \in {"restart_failed_rollback_failed", "rollback_failed"}
    BY <2>1, <2>6, GoTyped
  <2>8. UNCHANGED <<server, journal, service, daemon, trouble, swaps>>
    BY <1>1 DEF HelperRestores
  <2> QED
    BY <1>1, <2>5, <2>7, <2>8, HelperTyped
<1>2. CASE helper.at = "putback"
  <2>1. disk' = [disk EXCEPT !.binary = "old", !.partial = FALSE] /\ Go("noteback")
        /\ UNCHANGED <<server, journal, service, daemon, trouble, swaps>>
    BY <1>2 DEF HelperRestores
  <2>2. /\ disk' \in Disk /\ disk'.binary = "old" /\ disk'.record = disk.record
        /\ disk'.backup = disk.backup /\ disk'.staged = disk.staged
        /\ disk'.pending = disk.pending /\ disk'.results = disk.results
        /\ disk'.robbed = disk.robbed
    BY <2>1, HelperTyped DEF Disk
  <2> QED
    BY <1>2, <2>1, <2>2, GoTyped, HelperTyped
<1>3. CASE helper.at = "noteback"
  <2>1. disk' = [disk EXCEPT !.record = "rolled_back"] /\ Go("restartback")
        /\ UNCHANGED <<server, journal, service, daemon, trouble, swaps>>
    BY <1>3 DEF HelperRestores
  <2>2. /\ disk' \in Disk /\ disk'.binary = disk.binary /\ disk'.record = "rolled_back"
        /\ disk'.backup = disk.backup /\ disk'.staged = disk.staged
        /\ disk'.pending = disk.pending /\ disk'.results = disk.results
        /\ disk'.robbed = disk.robbed
    BY <2>1, HelperTyped DEF Disk, HelperPhases
  <2> QED
    BY <1>3, <2>1, <2>2, GoTyped, HelperTyped
<1>4. CASE helper.at = "restartback"
  <2> PICK up \in BOOLEAN : Restart(up) /\ Answer(IF up THEN Restored ELSE RestoreFailed)
    BY <1>4 DEF HelperRestores
  <2>1. UNCHANGED <<server, journal, disk, daemon, swaps>>
    BY <1>4 DEF HelperRestores
  <2>2. (IF up THEN Restored ELSE RestoreFailed) \in HelperOutcomes
    BY DEF Restored, RestoreFailed, HelperOutcomes
  <2>3. helper' \in Helper /\ helper'.at = "result" /\ helper'.act = helper.act
        /\ helper'.todo = helper.todo
    BY <2>2, GoTyped
  <2> QED
    BY <1>4, <2>1, <2>3, RestartTyped, HelperTyped
<1> QED
  BY <1>1, <1>2, <1>3, <1>4 DEF HelperRestores

\* The restore.
LEMMA HelperRestoresSolid == ASSUME Solid, HelperRestores PROVE Solid'
BY RestoresIs, HelperTyped, HelperStep DEF server

\* handleCleanup
LEMMA HelperCleansSolid == ASSUME Solid, HelperCleans PROVE Solid'
<1>1. disk' \in Disk
  <2>1. disk' = [disk EXCEPT !.backup = FALSE] \/ disk' = [disk EXCEPT !.record = None]
    BY DEF HelperCleans
  <2> QED
    BY <2>1, HelperTyped DEF Disk
<1>2. helper' \in Helper
  BY GoTyped DEF HelperCleans, HelperOutcomes
<1> QED
  BY <1>1, <1>2, HelperTyped, HelperStep DEF HelperCleans, server

\* RunHelper
LEMMA HelperAnswersSolid == ASSUME Solid, HelperAnswers PROVE Solid'
<1>1. /\ disk' \in Disk /\ helper' \in Helper
  <2>1. CASE helper.at = "result"
    <3>1. disk' = [disk EXCEPT !.results[helper.act] = helper.out] /\ Go("unlink")
      BY <2>1 DEF HelperAnswers
    <3>2. helper.act \in HelperActions /\ helper.out \in HelperOutcomes \cup {None}
      BY HelperTyped DEF Helper
    <3>3. disk' \in Disk
      BY <3>1, <3>2, HelperTyped DEF Disk
    <3> QED
      BY <3>1, <3>3, GoTyped
  <2>2. CASE helper.at = "unlink"
    <3>1. /\ disk' = disk \/ disk' = [disk EXCEPT !.pending = @ \ {helper.act}]
          /\ helper' = [helper EXCEPT !.at = "next", !.out = None]
      BY <2>2 DEF HelperAnswers
    <3>2. disk' \in Disk
      BY <3>1, HelperTyped DEF Disk
    <3>3. helper' \in Helper
      BY <3>1, HelperTyped DEF Helper
    <3> QED
      BY <3>2, <3>3
  <2> QED
    BY <2>1, <2>2 DEF HelperAnswers
<1> QED
  BY <1>1, HelperTyped, HelperStep DEF HelperAnswers, server

\* Every step of the helper keeps the types.
LEMMA HelperSolid == ASSUME Solid, HelperSteps PROVE Solid'
BY HelperStartsSolid, HelperTakesSolid, HelperApplySolid, HelperSwapsSolid, HelperRestartsSolid,
   HelperRollbackSolid, HelperRestoresSolid, HelperCleansSolid, HelperAnswersSolid
   DEF HelperSteps

\* What the surroundings leave to the daemon and the helper: their memory, or none.
LEMMA SurroundingsTyped ==
  ASSUME Solid, Surroundings
  PROVE  /\ Stepped(srv, srv') /\ LeasesAreNumbered' /\ seen' \in Seen
         /\ srv'.state \in {srv.state, Reconciled.state}
         /\ seen'.build \in {seen.build, service.build}
         /\ trouble' \in 0 .. MaxTrouble /\ service' \in Services
         /\ service'.build \in {service.build, disk.binary, "down"}
         /\ swaps' = swaps
         /\ \/ journal' = journal
            \/ /\ journal \in Journal /\ journal' \in Journal
               /\ journal'.phase = journal.phase /\ journal'.requested = journal.requested
               /\ journal'.reconcile = journal.reconcile /\ journal'.postSwap = journal.postSwap
            \/ journal' = None /\ disk'.robbed
         /\ daemon' = daemon \/ daemon' = Restarted
         /\ helper' = helper \/ helper' = Dormant
         /\ disk' = disk \/ (disk' = [disk EXCEPT !.robbed = TRUE] /\ trouble = 0)
<1>1. Stepped(srv, srv)
  BY DEF Solid, TypeOK, Stepped, Settling, LeasesAreNumbered
<1>2. service \in Services /\ seen \in Seen /\ srv \in Job /\ disk \in Disk
      /\ trouble \in 0 .. MaxTrouble
  BY HelperTyped DEF Solid, TypeOK
<1>3. CASE Heartbeat
  <2>1. seen' \in Seen /\ seen'.build = service.build
    BY <1>2, <1>3, HelperTyped DEF Heartbeat, Seen, Services
  <2> QED
    BY <1>1, <1>2, <1>3, <2>1 DEF Heartbeat, Solid, LeasesAreNumbered
<1>4. CASE HeartbeatAges
  <2>1. seen' \in Seen /\ seen'.build = seen.build
    BY <1>2, <1>4 DEF HeartbeatAges, Seen
  <2> QED
    BY <1>1, <1>2, <1>4, <2>1 DEF HeartbeatAges, Solid, LeasesAreNumbered
<1>5. CASE LeaseExpires
  <2>1. /\ srv' \in Job /\ srv'.state = srv.state /\ srv'.token = srv.token /\ ~ srv'.lease
    BY <1>2, <1>5 DEF LeaseExpires, Job
  <2>2. Stepped(srv, srv') /\ LeasesAreNumbered'
    BY <1>5, <2>1 DEF LeaseExpires, Stepped, Settling, LeasesAreNumbered
  <2> QED
    BY <1>2, <1>5, <2>1, <2>2 DEF LeaseExpires
<1>6. CASE DeadlinePasses
  <2>1. /\ srv' \in Job /\ srv'.state = srv.state /\ srv'.token = srv.token
        /\ srv'.lease = srv.lease
    BY <1>2, <1>6 DEF DeadlinePasses, Job
  <2>2. Stepped(srv, srv') /\ LeasesAreNumbered'
    BY <2>1 DEF Solid, Stepped, Settling, LeasesAreNumbered, Ended
  <2> QED
    BY <1>2, <1>6, <2>1, <2>2 DEF DeadlinePasses
<1>7. CASE DashboardReads
  <2>1. Stepped(srv, srv') /\ srv' = Reconciled
    BY <1>7, OnDisk, ReconciledIs DEF DashboardReads
  <2>2. LeasesAreNumbered'
    BY <2>1 DEF Stepped, LeasesAreNumbered
  <2> QED
    BY <1>2, <1>7, <2>1, <2>2 DEF DashboardReads
<1>8. CASE Ack
  <2>1. journal \in Journal
    BY <1>8, OnDisk DEF Ack
  <2>2. /\ journal' \in Journal
        /\ journal'.phase = journal.phase /\ journal'.requested = journal.requested
        /\ journal'.reconcile = journal.reconcile /\ journal'.postSwap = journal.postSwap
    BY <1>8, <2>1 DEF Ack, Journal
  <2> QED
    BY <1>1, <1>2, <1>8, <2>1, <2>2 DEF Ack, server, Solid, LeasesAreNumbered
<1>9. CASE AgentDies \/ AgentRevives \/ DaemonCrashes \/ HelperKilled \/ HostCrashes
  <2>1. trouble' \in 0 .. MaxTrouble
    BY <1>2, <1>9, MishapTyped
       DEF AgentDies, AgentRevives, DaemonCrashes, HelperKilled, HostCrashes
  <2>2. service' \in Services /\ service'.build \in {service.build, disk.binary, "down"}
    BY <1>2, <1>9, HelperTyped
       DEF AgentDies, AgentRevives, DaemonCrashes, HelperKilled, HostCrashes, Services
  <2>3. LeasesAreNumbered' /\ srv' = srv /\ seen' = seen
    BY <1>9 DEF AgentDies, AgentRevives, DaemonCrashes, HelperKilled, HostCrashes, server,
         Solid, LeasesAreNumbered
  <2> QED
    BY <1>1, <1>2, <1>9, <2>1, <2>2, <2>3
       DEF AgentDies, AgentRevives, DaemonCrashes, HelperKilled, HostCrashes
<1>10. CASE JournalVanishes
  <2>1. disk'.robbed
    BY <1>2, <1>10 DEF JournalVanishes, Disk
  <2>2. trouble' \in 0 .. MaxTrouble /\ LeasesAreNumbered' /\ srv' = srv /\ seen' = seen
    BY <1>10, BoundsAssumption DEF JournalVanishes, server, Solid, LeasesAreNumbered
  <2> QED
    BY <1>1, <1>2, <1>10, <2>1, <2>2 DEF JournalVanishes
<1> QED
  BY <1>3, <1>4, <1>5, <1>6, <1>7, <1>8, <1>9, <1>10 DEF Surroundings

\* A daemon that starts again keeps what it has learnt.
LEMMA RestartedTyped ==
  ASSUME daemon \in Daemon
  PROVE  /\ Restarted \in Daemon /\ Restarted.j = None /\ Restarted.pc = "load"
         /\ Restarted.say = None /\ Restarted.told = daemon.told
BY DEF Restarted, Started, Daemon, Returns, ProgressPhases, PostSwapStates, HelperActions

\* They keep the types, too.
LEMMA SurroundingsSolid == ASSUME Solid, Surroundings PROVE Solid'
<1>1. /\ srv' \in Job /\ Settling(srv, srv') /\ LeasesAreNumbered' /\ seen' \in Seen
      /\ trouble' \in 0 .. MaxTrouble /\ service' \in Services /\ swaps' \in Nat
      /\ journal' \in Journal \cup {None}
  BY SurroundingsTyped, OnDisk, HelperTyped DEF Stepped
<1>2. disk' \in Disk
  BY SurroundingsTyped, OnDisk DEF Disk
<1>3. helper' \in Helper
  BY SurroundingsTyped, HelperTyped, DormantTyped
<1>4. daemon' \in Daemon /\ DaemonIsPlaced'
  <2>1. CASE daemon' = daemon
    <3>1. Sited(daemon) /\ (Consuming(daemon) => srv.state \in Final /\ daemon.told)
      BY OnDisk, PlacedIs DEF Solid
    <3>2. Sited(daemon') /\ (Consuming(daemon') => srv'.state \in Final /\ daemon'.told)
      BY <1>1, <2>1, <3>1 DEF Settling
    <3> QED
      BY <3>2 DEF Sited, DaemonIsPlaced, Consuming
  <2>2. CASE daemon' = Restarted
    <3>1. Sited(daemon') /\ ~ Consuming(daemon')
      BY <2>2, OnDisk, RestartedTyped DEF Sited, Consuming
    <3> QED
      BY <3>1 DEF Sited, DaemonIsPlaced, Consuming
  <2> QED
    BY <2>1, <2>2, SurroundingsTyped
<1> QED
  BY <1>1, <1>2, <1>3, <1>4 DEF Solid, TypeOK, Services

\* The first state is typed.
LEMMA InitSolid == Init => Solid
<1> SUFFICES ASSUME Init PROVE Solid
  OBVIOUS
<1>1. srv \in Job /\ seen \in Seen
  BY BoundsAssumption DEF Init, Job, Seen, JobStates, ActiveStates, PreSwapStates
<1>2. journal \in Journal \cup {None} /\ daemon \in Daemon /\ helper \in Helper
  BY StartedTyped, DormantTyped DEF Init
<1>3. disk \in Disk
  BY DEF Init, Disk
<1>4. service \in Services /\ trouble \in 0 .. MaxTrouble /\ swaps \in Nat
  BY BoundsAssumption DEF Init, Services
<1>5. LeasesAreNumbered
  BY BoundsAssumption DEF Init, LeasesAreNumbered
<1>6. DaemonIsPlaced
  BY StartedTyped DEF Init, DaemonIsPlaced
<1> QED
  BY <1>1, <1>2, <1>3, <1>4, <1>5, <1>6 DEF Solid, TypeOK, Services

\* No step leaves the types.
LEMMA NextSolid == ASSUME Solid, [Next]_vars PROVE Solid'
<1>1. CASE UNCHANGED vars
  BY <1>1 DEF vars, Solid, TypeOK, LeasesAreNumbered, DaemonIsPlaced
<1> QED
  BY <1>1, DaemonSolid, HelperSolid, SurroundingsSolid DEF Next

\* Every variable of the host keeps its type, whatever fails.
THEOREM HostTypeCorrect == Spec => []TypeOK
<1>1. Spec => []Solid
  BY InitSolid, NextSolid, PTL DEF Spec
<1>2. Solid => TypeOK
  BY DEF Solid
<1> QED
  BY <1>1, <1>2, PTL

-----------------------------------------------------------------------------
(* The daemon forgets a job only after its final ruling *)

\* What reconcile goes on with.
LEMMA DecideIs ==
  ASSUME Solid, Decide
  PROVE  /\ daemon.pc = "decide"
         /\ UNCHANGED <<server, disk, service, helper, trouble, swaps>>
         /\ \E e \in Daemon, j \in Journal :
              /\ e.j = j /\ e.ret = daemon.ret /\ e.say = daemon.say /\ e.told = daemon.told
              /\ j.requested = daemon.j.requested /\ j.reconcile = daemon.j.reconcile
              /\ \/ j.phase \in {daemon.j.phase, "restarting"}
                 \/ j.phase = "rolling_back" /\ daemon.found.record = "rolled_back"
              /\ j.phase \in {daemon.j.phase, "restarting", "rolling_back"}
              /\ journal' \in {journal, j}
              /\ \/ daemon' = Dispatch(e)
                 \/ daemon' = Phase(e, "dispatch") /\ j.phase = "restarting"
                 \/ daemon' = Report(e, "failed")
                 \/ daemon' = [e EXCEPT !.pc = "hold"]
<1> DEFINE d == [daemon EXCEPT !.found = Started.found]
<1>1. daemon \in Daemon /\ daemon.j \in Journal
  BY InMemory DEF Decide
<1>2. /\ d \in Daemon /\ d.j = daemon.j /\ d.ret = daemon.ret /\ d.say = daemon.say
      /\ d.told = daemon.told
  BY <1>1 DEF Daemon, Started
<1>3. DecideUnrecorded(d) \/ DecideRecorded(d)
  BY DEF Decide
<1> HIDE DEF d
<1> DEFINE post == [d.j EXCEPT !.postSwap = TRUE]
           request == [d.j EXCEPT !.phase = "restarting"]
           adopted == [d.j EXCEPT !.postSwap = TRUE,
                             !.phase = IF @ \in PreSwapStates THEN "restarting" ELSE @]
           back == [d.j EXCEPT !.postSwap = TRUE, !.phase = "rolling_back"]
           With(j) == [d EXCEPT !.j = j]
<1>4. /\ post \in Journal /\ request \in Journal /\ adopted \in Journal /\ back \in Journal
      /\ post.phase = d.j.phase /\ request.phase = "restarting"
      /\ adopted.phase = (IF d.j.phase \in PreSwapStates THEN "restarting" ELSE d.j.phase)
      /\ back.phase = "rolling_back"
      /\ post.requested = d.j.requested /\ request.requested = d.j.requested
      /\ adopted.requested = d.j.requested /\ back.requested = d.j.requested
      /\ post.reconcile = d.j.reconcile /\ request.reconcile = d.j.reconcile
      /\ adopted.reconcile = d.j.reconcile /\ back.reconcile = d.j.reconcile
  BY <1>1, <1>2 DEF Journal, ProgressPhases, PostSwapStates
<1>5. ASSUME NEW j \in Journal
      PROVE  /\ With(j) \in Daemon /\ With(j).j = j /\ With(j).ret = daemon.ret
             /\ With(j).say = daemon.say /\ With(j).told = daemon.told
  BY <1>2, WithJournal
<1>6. [d EXCEPT !.j.postSwap = TRUE, !.pc = "hold"] = [With(post) EXCEPT !.pc = "hold"]
  BY <1>2 DEF Daemon
<1>7. d = With(d.j)
  BY <1>2 DEF Daemon
<1> HIDE DEF post, request, adopted, back
<1>8. \/ daemon' \in {Dispatch(d), Report(d, "failed")} /\ journal' = journal
      \/ daemon' = [With(post) EXCEPT !.pc = "hold"] /\ journal' = journal
      \/ journal' = request /\ daemon' = Dispatch(With(request))
      \/ /\ journal' = adopted /\ daemon' = Phase(With(adopted), "dispatch")
         /\ d.j.phase \in PreSwapStates
      \/ journal' = journal /\ daemon' = Dispatch(With(adopted))
      \/ /\ journal' = back /\ daemon' = Dispatch(With(back))
         /\ daemon.found.record = "rolled_back"
  <2>1. CASE DecideUnrecorded(d)
    BY <1>6, <2>1 DEF DecideUnrecorded, request
  <2>2. CASE DecideRecorded(d)
    BY <1>6, <2>2 DEF DecideRecorded, adopted, back
  <2> QED
    BY <1>3, <2>1, <2>2
<1> HIDE DEF With
<1>9. ASSUME NEW j \in Journal, j.requested = d.j.requested, j.reconcile = d.j.reconcile,
             \/ j.phase \in {d.j.phase, "restarting"}
             \/ j.phase = "rolling_back" /\ daemon.found.record = "rolled_back",
             journal' \in {journal, j},
             \/ daemon' = Dispatch(With(j))
             \/ daemon' = Phase(With(j), "dispatch") /\ j.phase = "restarting"
             \/ daemon' = Report(With(j), "failed")
             \/ daemon' = [With(j) EXCEPT !.pc = "hold"]
      PROVE  \E e \in Daemon, i \in Journal :
              /\ e.j = i /\ e.ret = daemon.ret /\ e.say = daemon.say /\ e.told = daemon.told
              /\ i.requested = daemon.j.requested /\ i.reconcile = daemon.j.reconcile
              /\ \/ i.phase \in {daemon.j.phase, "restarting"}
                 \/ i.phase = "rolling_back" /\ daemon.found.record = "rolled_back"
              /\ i.phase \in {daemon.j.phase, "restarting", "rolling_back"}
              /\ journal' \in {journal, i}
              /\ \/ daemon' = Dispatch(e)
                 \/ daemon' = Phase(e, "dispatch") /\ i.phase = "restarting"
                 \/ daemon' = Report(e, "failed")
                 \/ daemon' = [e EXCEPT !.pc = "hold"]
  <2> DEFINE e == With(j)
  <2>1. e \in Daemon /\ e.j = j /\ e.ret = daemon.ret /\ e.say = daemon.say /\ e.told = daemon.told
    BY <1>5
  <2>2. /\ j.requested = daemon.j.requested /\ j.reconcile = daemon.j.reconcile
        /\ \/ j.phase \in {daemon.j.phase, "restarting"}
           \/ j.phase = "rolling_back" /\ daemon.found.record = "rolled_back"
        /\ j.phase \in {daemon.j.phase, "restarting", "rolling_back"}
    BY <1>2, <1>9
  <2>3. /\ \/ daemon' = Dispatch(e)
           \/ daemon' = Phase(e, "dispatch") /\ j.phase = "restarting"
           \/ daemon' = Report(e, "failed")
           \/ daemon' = [e EXCEPT !.pc = "hold"]
    BY <1>9
  <2> HIDE DEF e
  <2> QED
    BY <1>9, <2>1, <2>2, <2>3
<1>10. \E j \in Journal :
          /\ j.requested = d.j.requested /\ j.reconcile = d.j.reconcile
          /\ \/ j.phase \in {d.j.phase, "restarting"}
             \/ j.phase = "rolling_back" /\ daemon.found.record = "rolled_back"
          /\ journal' \in {journal, j}
          /\ \/ daemon' = Dispatch(With(j))
             \/ daemon' = Phase(With(j), "dispatch") /\ j.phase = "restarting"
             \/ daemon' = Report(With(j), "failed")
             \/ daemon' = [With(j) EXCEPT !.pc = "hold"]
  <2>1. CASE daemon' \in {Dispatch(d), Report(d, "failed")} /\ journal' = journal
    BY <1>1, <1>2, <1>7, <2>1
  <2>2. CASE daemon' = [With(post) EXCEPT !.pc = "hold"] /\ journal' = journal
    BY <1>4, <2>2
  <2>3. CASE journal' = request /\ daemon' = Dispatch(With(request))
    BY <1>4, <2>3
  <2>4. CASE /\ journal' = adopted /\ daemon' = Phase(With(adopted), "dispatch")
             /\ d.j.phase \in PreSwapStates
    BY <1>4, <2>4
  <2>5. CASE journal' = journal /\ daemon' = Dispatch(With(adopted))
    BY <1>4, <2>5
  <2>6. CASE /\ journal' = back /\ daemon' = Dispatch(With(back))
             /\ daemon.found.record = "rolled_back"
    BY <1>4, <2>6
  <2> QED
    BY <1>8, <2>1, <2>2, <2>3, <2>4, <2>5, <2>6
<1> QED
  BY <1>9, <1>10 DEF Decide

\* The journal file goes away at the end of a consumed job, or is lost.
LEMMA JournalMoves ==
  ASSUME Solid, [Next]_vars
  PROVE  \/ journal' = journal \/ journal' \in Journal
         \/ journal' = None /\ (srv.state \in Final \/ disk'.robbed)
<1>1. CASE Load \/ Look \/ Reclaim \/ Request \/ RollbackAnswered \/ HoldJob \/ Consume \/ Teardown
           \/ HelperSteps
  BY <1>1 DEF Load, Look, Reclaim, Request, RollbackAnswered, HoldJob, Consume, Teardown,
     HelperSteps, HelperStarts, HelperTakes, HelperApply, HelperSwaps, HelperRestarts,
     HelperRejoins, HelperRollback, HelperRestores, HelperCleans, HelperAnswers
<1>2. CASE Claim
  <2>1. Solid'
    BY <1>2, ClaimSolid
  <2>2. journal' \in Journal \cup {None}
    BY <2>1 DEF Solid, TypeOK
  <2>3. \/ journal' = journal
        \/ journal' = Fresh(srv'.token, srv'.state \in PostSwapStates)
    BY <1>2 DEF Claim, Fresh
  <2>4. ASSUME journal' = Fresh(srv'.token, srv'.state \in PostSwapStates)
        PROVE  journal' \in Journal
    <3>1. srv'.token \in 0 .. MaxClaims
      BY <2>1 DEF Solid, TypeOK, Job
    <3>2. (srv'.state \in PostSwapStates) \in BOOLEAN
      OBVIOUS
    <3>3. Fresh(srv'.token, srv'.state \in PostSwapStates) \in Journal
      BY <3>1, <3>2, FreshTyped, Zenon
    <3> QED
      BY <2>4, <3>3
  <2> QED
    BY <2>2, <2>3, <2>4
<1>3. CASE Decide
  BY <1>3, DecideIs
<1>4. CASE ReportPhase \/ AwaitBegins \/ Halt
  <2>1. daemon.j \in Journal
    BY <1>4, InMemory DEF ReportPhase, AwaitBegins, Halt
  <2> QED
    BY <1>4, <2>1 DEF ReportPhase, AwaitBegins, Halt
<1>5. CASE Work
  <2>1. daemon.j \in Journal
    BY <1>5, WorkIs, InMemory
  <2>2. \A next \in {"verifying", "staging", "restarting"} : Advanced(daemon.j, next) \in Journal
    BY <2>1, AdvancedTyped DEF ProgressPhases, PostSwapStates
  <2> QED
    BY <1>5, <2>2, WorkIs
<1>6. CASE ApplyAnswered
  BY <1>6, ApplyAnsweredIs
<1>7. CASE Await \/ Observe
  <2>1. daemon \in Daemon /\ daemon.j \in Journal
    BY <1>7, InMemory DEF Await, Observe
  <2>2. CASE Follow(daemon, srv'.state) /\ srv'.state \in TerminalStates
    BY <2>1, <2>2, FollowIs, HaltedTyped
  <2>3. CASE \E polled \in Journal : journal' \in {polled, Leaving(polled)}
    BY <2>3, LeavingTyped
  <2>4. CASE journal' = journal
    BY <2>4
  <2> QED
    BY <1>7, <2>2, <2>3, <2>4, AwaitIs, ObserveIs DEF Leaving
<1>8. CASE ReportResult
  BY <1>8, ReportResultIs
<1>9. CASE CleanupAnswered
  <2>1. daemon.j \in Journal
    BY <1>9, InMemory DEF CleanupAnswered
  <2>2. [daemon.j EXCEPT !.cleaned = TRUE] \in Journal
    BY <2>1 DEF Journal
  <2> QED
    BY <1>9, <2>2 DEF CleanupAnswered
<1>10. CASE Clear
  BY <1>10, ClearIs
<1>11. CASE Surroundings
  BY <1>11, SurroundingsTyped
<1>12. CASE UNCHANGED vars
  BY <1>12 DEF vars
<1> QED
  BY <1>1, <1>2, <1>3, <1>4, <1>5, <1>6, <1>7, <1>8, <1>9, <1>10, <1>11, <1>12
     DEF Next, DaemonSteps

\* The daemon drops a job only after its final ruling, unless its file is lost.
THEOREM NothingIsForgottenEarly == Spec => ForgottenOnlyWhenRuled
<1>1. Spec => []Solid
  BY InitSolid, NextSolid, PTL DEF Spec
<1>2. Solid /\ [Next]_vars =>
        [journal # None /\ journal' = None /\ ~ disk'.robbed
           => srv.state \in {"succeeded", "rolled_back", "failed"}]_vars
  BY JournalMoves, NoneAssumption DEF Final
<1> QED
  BY <1>1, <1>2, PTL DEF Spec, ForgottenOnlyWhenRuled

-----------------------------------------------------------------------------
(* The server keeps its promise *)

\* The row as the promise sees it is the same.
RowKept(t) == t.state = srv.state /\ t.token = srv.token /\ t.pinned = srv.pinned

\* A live job gets a new owner.
RowTaken(t) ==
  /\ ~ Ended(srv)
  /\ t.state = IF srv.state = "queued" THEN "claimed" ELSE srv.state
  /\ t.token = srv.token + 1 /\ t.pinned = srv.pinned

\* Its owner reports a phase.
RowReported(t) ==
  /\ ~ Ended(srv) /\ srv.token > 0 /\ t.token = srv.token
  /\ \E p \in ProgressPhases : t.state = p /\ t.pinned = (srv.pinned \/ p = "restarting")

\* It is ruled, or its ruling refined.
RowRuled(t) ==
  /\ t.token = srv.token /\ t.pinned = srv.pinned
  /\ \/ ~ Ended(srv) /\ t.state \in {"succeeded", "rollback_unverified"}
     \/ srv.state \in PreSwapStates /\ t.state = "failed"
     \/ /\ ~ Ended(srv) \/ srv.state = "rollback_unverified"
        /\ srv.pinned /\ t.state = "rolled_back"

\* Whatever a call or a read makes of the row is one of these.
RowGoes(t) == RowKept(t) \/ RowTaken(t) \/ RowReported(t) \/ RowRuled(t)

\* A read.
LEMMA ReconciledGoes ==
  ASSUME srv \in Job, LeasesAreNumbered
  PROVE  RowGoes(Reconciled)
BY ReconciledIs DEF RowGoes, RowKept, RowRuled

\* A claim.
LEMMA ClaimedGoes ==
  ASSUME srv \in Job, LeasesAreNumbered
  PROVE  RowGoes(Claimed)
<1>1. CASE Claimed = Reconciled
  BY <1>1, ReconciledGoes
<1>2. CASE /\ ~ Ended(srv)
           /\ Claimed = [srv EXCEPT !.state = IF @ = "queued" THEN "claimed" ELSE @,
                                    !.token = @ + 1, !.lease = TRUE]
  BY <1>2 DEF RowGoes, RowTaken, Job
<1> QED
  BY <1>1, <1>2, ClaimedIs

\* A progress report.
LEMMA ProgressedGoes ==
  ASSUME srv \in Job, LeasesAreNumbered, NEW k, NEW p \in ProgressPhases
  PROVE  RowGoes(Progressed(k, p))
<1>1. CASE Progressed(k, p) = srv
  BY <1>1 DEF RowGoes, RowKept
<1>2. CASE /\ ~ Ended(srv) /\ srv.lease
           /\ Progressed(k, p) = [srv EXCEPT !.state = p, !.pinned = @ \/ p = "restarting"]
  <2>1. /\ Progressed(k, p).state = p /\ Progressed(k, p).token = srv.token
        /\ Progressed(k, p).pinned = (srv.pinned \/ p = "restarting")
    BY <1>2 DEF Job
  <2> QED
    BY <1>2, <2>1 DEF RowGoes, RowReported, LeasesAreNumbered
<1>3. \/ Progressed(k, p) = srv
      \/ /\ ~ Ended(srv) /\ srv.lease
         /\ Progressed(k, p) = [srv EXCEPT !.state = p, !.pinned = @ \/ p = "restarting"]
  BY ProgressedIs, Zenon
<1> QED
  BY <1>1, <1>2, <1>3

\* A report of the outcome.
LEMMA ResultedGoes ==
  ASSUME srv \in Job, LeasesAreNumbered, NEW k, NEW o
  PROVE  RowGoes(Resulted(k, o))
<1>1. CASE Resulted(k, o) = srv
  BY <1>1 DEF RowGoes, RowKept
<1>2. CASE Resulted(k, o) # srv
  <2> DEFINE t == Resulted(k, o)
  <2>1. /\ t.token = srv.token /\ t.pinned = srv.pinned
        /\ ~ Ended(srv) \/ srv.state = "rollback_unverified"
        /\ \/ t.state = "rolled_back" /\ o = "rolled_back" /\ srv.pinned
           \/ t.state = "failed" /\ o = "failed" /\ srv.state \in PreSwapStates
           \/ t.state = "rollback_unverified"
    BY <1>2, ResultedIs
  <2> HIDE DEF t
  <2> QED
    BY <2>1 DEF RowGoes, RowKept, RowRuled, t
<1> QED
  BY <1>1, <1>2

\* So does every step.
LEMMA RowMoves == ASSUME Solid, [Next]_vars PROVE RowGoes(srv')
<1>1. srv \in Job /\ LeasesAreNumbered /\ RowGoes(srv)
  BY OnDisk DEF RowGoes, RowKept
<1>2. \A after, lost : Exchange(after, lost) => srv' \in {srv, after}
  BY DEF Exchange
<1>3. CASE srv' = srv
  BY <1>1, <1>3
<1>4. CASE Claim \/ Reclaim
  BY <1>1, <1>2, <1>4, ClaimedGoes DEF Claim, Reclaim
<1>5. CASE ReportPhase
  <2>1. daemon.j.phase \in ProgressPhases
    BY <1>5 DEF ReportPhase, Solid, DaemonIsPlaced
  <2>2. RowGoes(Progressed(daemon.j.token, daemon.j.phase))
    BY <1>1, <2>1, ProgressedGoes
  <2>3. srv' \in {srv, Progressed(daemon.j.token, daemon.j.phase)}
    BY <1>2, <1>5 DEF ReportPhase, server
  <2> QED
    BY <1>1, <2>2, <2>3
<1>6. CASE Await \/ Observe \/ DashboardReads
  <2>1. srv' \in {srv, Reconciled}
    BY <1>6, AwaitIs, ObserveIs DEF DashboardReads
  <2> QED
    BY <1>1, <2>1, ReconciledGoes
<1>7. CASE ReportResult \/ HoldJob
  <2>1. \E k, o : srv' \in {srv, Resulted(k, o)}
    BY <1>7, ReportResultIs, HoldJobIs
  <2> QED
    BY <1>1, <2>1, ResultedGoes
<1>8. CASE LeaseExpires \/ DeadlinePasses
  BY <1>1, <1>8 DEF LeaseExpires, DeadlinePasses, RowGoes, RowKept, Job
<1>9. CASE \/ Load \/ Look \/ Decide \/ Work \/ Request \/ ApplyAnswered \/ RollbackAnswered
           \/ AwaitBegins \/ Halt \/ Consume \/ CleanupAnswered \/ Teardown \/ Clear
           \/ HelperSteps
  <2>1. srv' = srv
    BY <1>9 DEF Load, Look, Decide, Work, Request, ApplyAnswered, RollbackAnswered,
       AwaitBegins, Halt, Consume, CleanupAnswered, Teardown, Clear, server,
       HelperSteps, HelperStarts, HelperTakes, HelperApply, HelperSwaps, HelperRestarts,
       HelperRejoins, HelperRollback, HelperRestores, HelperCleans, HelperAnswers
  <2> QED
    BY <1>3, <2>1
<1>10. CASE \/ Heartbeat \/ HeartbeatAges \/ Ack \/ AgentDies \/ AgentRevives \/ DaemonCrashes
            \/ HelperKilled \/ HostCrashes \/ JournalVanishes \/ UNCHANGED vars
  <2>1. srv' = srv
    BY <1>10 DEF Heartbeat, HeartbeatAges, Ack, AgentDies, AgentRevives, DaemonCrashes,
       HelperKilled, HostCrashes, JournalVanishes, server, vars
  <2> QED
    BY <1>3, <2>1
<1> QED
  BY <1>4, <1>5, <1>6, <1>7, <1>8, <1>9, <1>10 DEF Next, DaemonSteps, Surroundings

\* What goes with the row is what the promise allows.
LEMMA RowIsPromised ==
  ASSUME srv \in Job, srv' \in Job, RowGoes(srv')
  PROVE  Promise!Next \/ UNCHANGED Promise!board
<1> DEFINE Col(v) == [i \in {"job"} |-> v]
<1>1. ASSUME NEW v, NEW w PROVE [Col(v) EXCEPT !["job"] = w] = Col(w) /\ Col(v)["job"] = v
  OBVIOUS
<1>2. ~ Ended(srv) <=> srv.state \in Promise!Live
  BY RowTyped DEF Ended, JobStates, ActiveStates, PreSwapStates, PostSwapStates, TerminalStates,
     Promise!Live, Promise!PreSwap, Promise!PostSwap
<1>3. CASE RowKept(srv')
  BY <1>3 DEF RowKept, Promise!board
<1>4. CASE RowTaken(srv')
  <2>1. Promise!Claim("job")
    BY <1>2, <1>4 DEF RowTaken, Promise!Claim
  <2> QED
    BY <2>1 DEF Promise!Next
<1>5. CASE RowReported(srv')
  <2> PICK p \in ProgressPhases :
        srv'.state = p /\ srv'.pinned = (srv.pinned \/ p = "restarting")
    BY <1>5 DEF RowReported
  <2>1. p \in Promise!Live \ {"queued", "claimed"}
    BY DEF ProgressPhases, PostSwapStates, Promise!Live, Promise!PreSwap, Promise!PostSwap
  <2>2. Promise!Advance("job")
    BY <1>2, <1>5, <2>1 DEF RowReported, Promise!Advance
  <2> QED
    BY <2>2 DEF Promise!Next
<1>6. CASE RowRuled(srv') /\ ~ Ended(srv)
  <2>1. srv.state \in PreSwapStates <=> srv.state \in Promise!PreSwap
    BY DEF PreSwapStates, Promise!PreSwap
  <2>2. srv.state # "rollback_unverified"
    BY <1>6 DEF Ended, TerminalStates
  <2>3. srv'.state \in {"succeeded", "rollback_unverified"}
                        \cup (IF srv.pinned THEN {"rolled_back"} ELSE {})
                        \cup (IF srv.state \in Promise!PreSwap THEN {"failed"} ELSE {})
    BY <1>6, <2>1, <2>2 DEF RowRuled
  <2>4. Promise!Settle("job")
    BY <1>2, <1>6, <2>3 DEF RowRuled, Promise!Settle
  <2> QED
    BY <2>4 DEF Promise!Next
<1>7. CASE RowRuled(srv') /\ Ended(srv)
  <2>1. srv.state = "rollback_unverified" /\ srv.pinned /\ srv'.state = "rolled_back"
        /\ srv'.token = srv.token /\ srv'.pinned = srv.pinned
    BY <1>7 DEF RowRuled, Ended, TerminalStates, PreSwapStates
  <2>2. Promise!Refine("job")
    BY <2>1 DEF Promise!Refine
  <2> QED
    BY <2>2 DEF Promise!Next
<1> QED
  BY <1>3, <1>4, <1>5, <1>6, <1>7 DEF RowGoes

\* The server that the host talks to is the one UpgradeJob promises.
THEOREM HostServerKeepsPromise == Spec => ServerKeepsPromise
<1>1. Spec => []Solid
  BY InitSolid, NextSolid, PTL DEF Spec
<1>2. ASSUME Solid, [Next]_vars
      PROVE  Promise!Next \/ UNCHANGED Promise!board
  <2>1. srv \in Job /\ srv' \in Job
    BY <1>2, NextSolid DEF Solid, TypeOK
  <2> QED
    BY <1>2, <2>1, RowMoves, RowIsPromised
<1>3. Solid /\ [Next]_vars
        => [srv' # srv => Promise!Next \/ UNCHANGED Promise!board]_vars
  BY <1>2
<1> QED
  BY <1>1, <1>3, PTL DEF Spec, ServerKeepsPromise

-----------------------------------------------------------------------------
(* The daemon's journal is true, and the daemon stays on its course *)

\* A journal and a return address that agree, wherever the daemon is.
Homing(d, n) ==
  /\ Truthful(d.j, n)
  /\ d.ret \in Working => ~ d.j.requested
  /\ d.ret \in PostSwapStates => d.j.requested
  /\ d.ret \in {"awaiting_heartbeat", "rolling_back"} => n > 0

\* Steps of the daemon that ask nothing more of its journal.
Neutral(d) ==
  d.pc \in {"phase", "report", "reclaim", "observe", "hold", "halt", "consume", "teardown", "clear"}

\* There it is on its course.
LEMMA NeutralOnCourse ==
  ASSUME NEW d, NEW n, Homing(d, n),
         Neutral(d) \/ (d.pc = "request" /\ d.ask = "cleanup")
  PROVE  OnCourse(d, n)
BY DEF Homing, Neutral, OnCourse

\* On its course it can return.
LEMMA OnCourseHoming ==
  ASSUME NEW d, NEW n, OnCourse(d, n)
  PROVE  Homing(d, n)
BY DEF Homing, OnCourse

\* The daemon reports a phase that its journal bears out.
LEMMA PhaseOnCourse ==
  ASSUME NEW d \in Daemon, NEW r \in ProgressPhases \cup {"dispatch"}, NEW n, Truthful(d.j, n),
         r \in Working => ~ d.j.requested, r \in PostSwapStates => d.j.requested,
         r \in {"awaiting_heartbeat", "rolling_back"} => n > 0
  PROVE  OnCourse(Phase(d, r), n)
<1> DEFINE e == Phase(d, r)
<1>1. e.j = d.j /\ e.ret = r /\ e.pc = "phase"
  BY PhaseTyped
<1> HIDE DEF e
<1>2. Homing(e, n) /\ Neutral(e)
  BY <1>1 DEF Homing, Neutral
<1> QED
  BY <1>2, NeutralOnCourse DEF e

\* The daemon reports an outcome.
LEMMA ReportOnCourse ==
  ASSUME NEW d \in Daemon, NEW o \in {"failed", "rolled_back"}, NEW n, Homing(d, n)
  PROVE  OnCourse(Report(d, o), n)
<1> DEFINE e == Report(d, o)
<1>1. e.j = d.j /\ e.ret = d.ret /\ e.pc = "report"
  BY ReportTyped
<1> HIDE DEF e
<1>2. Homing(e, n) /\ Neutral(e)
  BY <1>1 DEF Homing, Neutral
<1> QED
  BY <1>2, NeutralOnCourse DEF e

\* The switch at the end of runJob follows the journal.
LEMMA DispatchOnCourse ==
  ASSUME NEW d \in Daemon, d.j \in Journal, NEW n, Truthful(d.j, n)
  PROVE  OnCourse(Dispatch(d), n)
<1> DEFINE e == Dispatch(d)
<1>1. /\ e.j = d.j
      /\ \/ /\ e.pc = "request" /\ e.ret = "load"
            /\ \/ e.ask = "apply" /\ d.j.phase = "restarting"
               \/ e.ask = "rollback" /\ d.j.phase = "rolling_back"
         \/ e.pc = "grace" /\ e.ret = "load" /\ d.j.phase = "awaiting_heartbeat"
         \/ e.pc = "observe" /\ e.ret = "load"
         \/ e.pc = "phase" /\ e.ret = d.j.phase /\ d.j.phase \in Working
  BY DispatchTyped
<1> HIDE DEF e
<1>2. OnCourse(e, n)
  BY <1>1 DEF OnCourse, Truthful, Working, PostSwapStates
<1> QED
  BY <1>2 DEF e

\* So does the return of a callee.
LEMMA ResumeOnCourse ==
  ASSUME NEW d \in Daemon, d.j \in Journal, NEW n, Homing(d, n)
  PROVE  LET e == Resume(d) IN
         \/ e.j = None /\ e.pc = "load"
         \/ e.j = d.j /\ OnCourse(e, n)
<1> DEFINE e == Resume(d)
<1>1. \/ e.j = None /\ e.pc = "load" /\ e.ret = "load"
      \/ /\ e.j = d.j
         /\ \/ /\ e.pc = "request" /\ e.ret = "load"
               /\ \/ e.ask = "apply" /\ "restarting" \in {d.ret, d.j.phase}
                  \/ e.ask = "rollback" /\ "rolling_back" \in {d.ret, d.j.phase}
            \/ /\ e.pc = "grace" /\ e.ret = "load"
               /\ "awaiting_heartbeat" \in {d.ret, d.j.phase}
            \/ e.pc = "observe" /\ e.ret = "load"
            \/ e.pc = "phase" /\ e.ret = d.j.phase /\ d.j.phase \in Working
            \/ e.pc = "work" /\ e.ret = d.ret /\ d.ret \in Working
  BY ResumeTyped
<1> HIDE DEF e
<1>2. e.j = d.j /\ e.pc # "load" => OnCourse(e, n)
  BY <1>1 DEF OnCourse, Homing, Truthful, Working, PostSwapStates
<1>3. e.j = d.j => d.j # None
  BY JournalTyped
<1>4. \/ e.j = None /\ e.pc = "load"
      \/ e.j = d.j /\ OnCourse(e, n)
  BY <1>1, <1>2
<1> QED
  BY <1>4 DEF e

\* What holds of the swap while the daemon's journal is there.
Sound == JournalsAgree /\ HelperIsPlaced /\ TracesAreTrue /\ TracesAreKept

\* The book: what the daemon has of the job, in memory and on disk, before and
\* after a step that found it in memory.
BookKept ==
  /\ daemon'.pc # "claim"
  /\ journal' # None => /\ Truthful(journal', swaps)
                        /\ daemon.j.requested => journal'.requested
  /\ daemon'.j # None => /\ OnCourse(daemon', swaps)
                         /\ daemon.j.requested => daemon'.j.requested
  /\ journal' # None /\ daemon'.j # None => journal'.requested = daemon'.j.requested
  /\ daemon.told => daemon'.told
  /\ journal' = None => journal = None \/ (srv.state \in Final /\ daemon'.told)

\* A step that keeps the book keeps the journals in agreement.
LEMMA BookAgrees ==
  ASSUME Sound, daemon.j # None, BookKept, Stepped(srv, srv'), swaps' = swaps,
         Applied' => Applied \/ daemon.j.requested
  PROVE  JournalsAgree'
<1>1. Applied' => daemon.j.requested
  BY DEF Sound, JournalsAgree
<1>2. journal = None => srv.state \in Final /\ daemon.told
  BY DEF Sound, JournalsAgree
<1>3. srv.state \in Final => srv'.state \in Final
  BY DEF Stepped, Settling
<1> QED
  BY <1>1, <1>2, <1>3 DEF BookKept, JournalsAgree

\* The usual case: one journal, in memory and perhaps saved.
LEMMA SameBook ==
  ASSUME Solid', Sound, daemon.j \in Journal, NEW j \in Journal,
         j.requested = daemon.j.requested, Truthful(j, swaps),
         journal' \in {journal, j}, daemon.told => daemon'.told,
         \/ daemon'.j = None /\ daemon'.pc = "load"
         \/ daemon'.j = j /\ OnCourse(daemon', swaps)
  PROVE  BookKept
<1>1. daemon.j # None /\ j # None
  BY JournalTyped
<1>2. journal # None => Truthful(journal, swaps) /\ journal.requested = daemon.j.requested
  BY <1>1 DEF Sound, JournalsAgree
<1>3. daemon'.pc # "claim"
  BY <1>1 DEF Solid, DaemonIsPlaced
<1> QED
  BY <1>1, <1>2, <1>3 DEF BookKept

\* A row that rules the job as it happened on the host.
Witnessed(t) ==
  /\ t.state = "rolled_back" => IsBack
  /\ t.state = "succeeded" => swaps > 0

\* What is back stays back while the binary does.
LEMMA BackStays ==
  ASSUME IsBack, Stepped(srv, srv'), swaps' = swaps, disk'.binary = disk.binary
  PROVE  IsBack'
BY DEF IsBack, Stepped, Settling, Final

\* Reads rule on what the host has shown ...
LEMMA ReconciledWitnessed ==
  ASSUME Solid, Sound
  PROVE  Witnessed(srv) /\ Witnessed(Reconciled)
<1>1. Witnessed(srv)
  BY DEF Sound, TracesAreTrue, Witnessed
<1>2. seen.build = "new" => swaps > 0
  BY DEF Sound, TracesAreTrue
<1> QED
  BY <1>1, <1>2, OnDisk, ReconciledIs DEF Witnessed

\* ... claims on no more ...
LEMMA ClaimedWitnessed ==
  ASSUME Solid, Sound
  PROVE  Witnessed(Claimed)
<1>1. CASE Claimed = Reconciled
  BY <1>1, ReconciledWitnessed
<1>2. CASE /\ ~ Ended(srv)
           /\ Claimed = [srv EXCEPT !.state = IF @ = "queued" THEN "claimed" ELSE @,
                                    !.token = @ + 1, !.lease = TRUE]
  BY <1>2, OnDisk DEF Witnessed, Job, Ended, TerminalStates
<1> QED
  BY <1>1, <1>2, OnDisk, ClaimedIs

\* ... progress on nothing ...
LEMMA ProgressedWitnessed ==
  ASSUME Solid, Sound, NEW k, NEW p \in ProgressPhases
  PROVE  Witnessed(Progressed(k, p))
<1>1. CASE Progressed(k, p) = srv
  BY <1>1, ReconciledWitnessed
<1>2. CASE Progressed(k, p) = [srv EXCEPT !.state = p, !.pinned = @ \/ p = "restarting"]
  <2>1. Progressed(k, p).state = p
    BY <1>2, OnDisk DEF Job
  <2> QED
    BY <2>1 DEF Witnessed, ProgressPhases, PostSwapStates
<1> QED
  BY <1>1, <1>2 DEF Progressed

\* ... and results on what the daemon says.
LEMMA ResultedWitnessed ==
  ASSUME Solid, Sound, NEW k, NEW o, o = "rolled_back" => IsBack
  PROVE  Witnessed(Resulted(k, o))
<1> DEFINE t == Resulted(k, o)
<1>1. \/ t = srv
      \/ t.state = "rolled_back" /\ o = "rolled_back"
      \/ t.state \in {"failed", "rollback_unverified"}
  BY OnDisk, ResultedIs
<1> HIDE DEF t
<1>2. Witnessed(t)
  BY <1>1, ReconciledWitnessed DEF Witnessed
<1> QED
  BY <1>2 DEF t

\* The daemon takes nothing apart but what the server has ruled for good, with
\* the staged artifact gone, unless the job had failed.
CleanupIsDue ==
  srv.state \in Final /\ (srv.state = "failed" \/ ~ disk.staged)

\* A step of the daemon, by its effect on the files.
LEMMA FilesMove ==
  ASSUME Solid', Sound, JournalsAgree',
         UNCHANGED <<seen, service, helper, swaps>>,
         Stepped(srv, srv'), Witnessed(srv'),
         disk'.binary = disk.binary, disk'.backup = disk.backup, disk'.record = disk.record,
         disk'.staged => disk.staged \/ swaps = 0,
         \A a \in HelperActions : disk'.results[a] \in {disk.results[a], None},
         "rollback" \in disk'.pending => "rollback" \in disk.pending \/ swaps > 0,
         "cleanup" \in disk'.pending =>
           "cleanup" \in disk.pending \/ (daemon.pc = "request" /\ daemon.ask = "cleanup"),
         daemon'.say = "rolled_back" => IsBack,
         daemon'.pc = "request" /\ daemon'.ask = "cleanup" => CleanupIsDue'
  PROVE  Sound'
<1>1. /\ srv.state = "failed" => srv'.state = "failed"
      /\ srv.state \in Final => srv'.state \in Final
      /\ IsBack => IsBack'
  BY BackStays DEF Stepped, Settling, Final
<1>2. HelperIsPlaced'
  <2>1. Due("rollback")' => Due("rollback") \/ swaps > 0
    BY DEF Due, Acting
  <2> QED
    BY <1>1, <2>1 DEF Sound, HelperIsPlaced
<1>3. TracesAreTrue'
  <2>1. /\ disk'.results["apply"] \in {disk.results["apply"], None}
        /\ disk'.results["rollback"] \in {disk.results["rollback"], None}
    BY DEF HelperActions
  <2>2. None \notin {"restarted", "recovered_restarted", "auto_rolled_back", "rolled_back"}
    BY NoneAssumption DEF HelperOutcomes
  <2>3. srv'.state = "succeeded" => swaps > 0
    BY DEF Witnessed
  <2>4. /\ "new" \in {disk'.binary, service'.build, seen'.build} => swaps' > 0
        /\ disk'.record \in HelperPhases \ {"intent"} => swaps' > 0
    BY DEF Sound, TracesAreTrue
  <2>5. \/ helper'.out \in {"restarted", "recovered_restarted"}
        \/ disk'.results["apply"] \in {"restarted", "recovered_restarted"}
        => swaps' > 0
    BY <2>1, <2>2 DEF Sound, TracesAreTrue
  <2>6. \/ disk'.record = "rolled_back" \/ helper'.at \in {"noteback", "restartback"}
        \/ helper'.out \in {"auto_rolled_back", "rolled_back"}
        \/ disk'.results["apply"] \in {"auto_rolled_back", "rolled_back"}
        \/ disk'.results["rollback"] \in {"auto_rolled_back", "rolled_back"}
        \/ daemon'.say = "rolled_back" \/ srv'.state = "rolled_back"
        => IsBack
    BY <2>1, <2>2 DEF Sound, TracesAreTrue, Witnessed
  <2> QED
    BY <1>1, <2>3, <2>4, <2>5, <2>6 DEF TracesAreTrue
<1>4. TracesAreKept'
  <2>1. Due("cleanup")' => Due("cleanup") \/ (daemon.pc = "request" /\ daemon.ask = "cleanup")
    BY DEF Due, Acting
  <2>2. srv.state \in Final /\ swaps = 0 => srv.state = "failed"
    BY DEF Sound, TracesAreTrue, Final, IsBack
  <2>3. Due("cleanup")' => srv'.state \in Final /\ (srv'.state = "failed" \/ ~ disk'.staged)
    BY <1>1, <2>1, <2>2 DEF Sound, TracesAreKept
  <2>4. swaps > 0 => (disk'.staged => disk.staged)
    BY DEF Solid, TypeOK
  <2> QED
    BY <1>1, <2>3, <2>4 DEF Sound, TracesAreKept, CleanupIsDue
<1> QED
  BY <1>2, <1>3, <1>4 DEF Sound

\* A step of the daemon that found a job in memory.
LEMMA DaemonMoves ==
  ASSUME Solid', Sound, BookKept, daemon.j # None,
         UNCHANGED <<seen, service, helper, swaps>>,
         Stepped(srv, srv'), Witnessed(srv'),
         disk'.binary = disk.binary, disk'.backup = disk.backup, disk'.record = disk.record,
         disk'.staged => disk.staged \/ swaps = 0,
         \A a \in HelperActions : disk'.results[a] \in {disk.results[a], None},
         "apply" \in disk'.pending => "apply" \in disk.pending \/ daemon.j.requested,
         "rollback" \in disk'.pending => "rollback" \in disk.pending \/ swaps > 0,
         "cleanup" \in disk'.pending =>
           "cleanup" \in disk.pending \/ (daemon.pc = "request" /\ daemon.ask = "cleanup"),
         daemon'.say = "rolled_back" => IsBack,
         daemon'.pc = "request" /\ daemon'.ask = "cleanup" => CleanupIsDue'
  PROVE  Sound'
<1>1. "apply" \in HelperActions
  BY DEF HelperActions
<1>2. Applied' => Applied \/ daemon.j.requested
  BY <1>1 DEF Applied, Due, Acting
<1>3. JournalsAgree'
  BY <1>2, BookAgrees
<1> QED
  BY <1>3, FilesMove

\* A step of the daemon that leaves the files alone.
LEMMA MemoryMoves ==
  ASSUME Solid', Sound, JournalsAgree' \/ (BookKept /\ daemon.j # None),
         UNCHANGED <<disk, seen, service, helper, swaps>>,
         Stepped(srv, srv'), Witnessed(srv'),
         daemon'.say = "rolled_back" => IsBack,
         ~ Consuming(daemon') \/ daemon'.pc \in {"consume", "teardown"}
  PROVE  Sound'
<1>1. CASE JournalsAgree'
  BY <1>1, FilesMove DEF Consuming
<1>2. CASE BookKept /\ daemon.j # None
  BY <1>2, DaemonMoves DEF Consuming
<1> QED
  BY <1>1, <1>2

\* The daemon with a job in memory.
LEMMA InCourse ==
  ASSUME Solid, Sound, daemon.pc \notin {"load", "claim"}
  PROVE  /\ daemon \in Daemon /\ daemon.j \in Journal /\ daemon.j # None
         /\ OnCourse(daemon, swaps) /\ Homing(daemon, swaps) /\ Truthful(daemon.j, swaps)
         /\ daemon.say = "rolled_back" => IsBack
<1>1. daemon \in Daemon /\ daemon.j \in Journal /\ daemon.j # None
  BY InMemory
<1>2. OnCourse(daemon, swaps) /\ (daemon.say = "rolled_back" => IsBack)
  BY <1>1 DEF Sound, JournalsAgree, TracesAreTrue
<1> QED
  BY <1>1, <1>2, OnCourseHoming DEF Homing

\* What a step that leaves the server alone says of it.
LEMMA SameServer ==
  ASSUME Solid, Sound, srv' = srv
  PROVE  Stepped(srv, srv') /\ Witnessed(srv')
<1>1. Witnessed(srv')
  BY ReconciledWitnessed DEF Witnessed
<1> QED
  BY <1>1 DEF Stepped, Settling, Solid, TypeOK, LeasesAreNumbered

\* None is not an outcome to report.
LEMMA NothingToSay == None # "rolled_back" /\ None # "failed"
BY NoneAssumption DEF HelperOutcomes

\* Load takes the journal as it is.
LEMMA LoadSound == ASSUME Solid, Sound, Load PROVE Sound'
<1> DEFINE d == [Failing(daemon) EXCEPT !.j = journal]
<1>1. /\ UNCHANGED <<srv, seen, journal, disk, service, helper, swaps>> /\ Solid'
      /\ daemon.j = None
  BY LoadSolid DEF Load, server, Solid, DaemonIsPlaced
<1>2. /\ d \in Daemon /\ d.j = journal /\ d.pc = "load" /\ d.ret = "load" /\ d.say = None
      /\ d.told = daemon.told
  BY OnDisk, FailingTyped DEF Daemon
<1>3. \/ journal = None /\ daemon' = [d EXCEPT !.pc = "claim"]
      \/ journal # None /\ daemon' = [d EXCEPT !.pc = "observe"]
      \/ /\ journal # None /\ daemon' = [d EXCEPT !.pc = "look"]
         /\ journal.postSwap \/ journal.requested \/ journal.reconcile
      \/ journal # None /\ daemon' = Dispatch(d)
  BY DEF Load
<1> HIDE DEF d
<1>4. /\ daemon'.told = daemon.told /\ daemon'.say # "rolled_back" /\ ~ Consuming(daemon')
      /\ journal = None => daemon'.j = None
      /\ journal # None => daemon'.j = journal /\ OnCourse(daemon', swaps) /\ daemon'.pc # "claim"
  <2>1. CASE journal = None /\ daemon' = [d EXCEPT !.pc = "claim"]
    BY <1>2, <2>1, NothingToSay DEF Daemon, Consuming
  <2>2. CASE journal # None
    <3>1. journal \in Journal /\ Truthful(journal, swaps)
      BY <2>2, OnDisk DEF Sound, JournalsAgree
    <3>2. ASSUME NEW p \in {"observe", "look"}, daemon' = [d EXCEPT !.pc = p],
                 p = "look" => journal.postSwap \/ journal.requested \/ journal.reconcile
          PROVE  /\ daemon'.told = daemon.told /\ daemon'.say # "rolled_back"
                 /\ ~ Consuming(daemon') /\ daemon'.j = journal /\ OnCourse(daemon', swaps)
                 /\ daemon'.pc # "claim"
      <4>1. /\ daemon'.told = daemon.told /\ daemon'.say = None /\ daemon'.j = journal
            /\ daemon'.pc = p /\ daemon'.ret = "load"
        BY <1>2, <3>2 DEF Daemon
      <4>2. OnCourse(daemon', swaps)
        BY <3>1, <3>2, <4>1 DEF OnCourse, Truthful, Working, PostSwapStates
      <4> QED
        BY <4>1, <4>2, NothingToSay DEF Consuming
    <3>3. CASE daemon' = Dispatch(d)
      <4>1. OnCourse(daemon', swaps)
        BY <1>2, <3>1, <3>3, DispatchOnCourse
      <4>2. /\ daemon'.told = daemon.told /\ daemon'.say = None /\ daemon'.j = journal
            /\ ~ Consuming(daemon') /\ daemon'.pc # "claim"
        BY <1>2, <3>1, <3>3, DispatchTyped DEF Consuming
      <4> QED
        BY <4>1, <4>2, NothingToSay
    <3> QED
      BY <1>3, <2>2, <3>2, <3>3
  <2> QED
    BY <1>3, <2>1, <2>2
<1>5. JournalsAgree'
  <2>1. Applied' = Applied
    BY <1>1 DEF Applied, Due, Acting
  <2> QED
    BY <1>1, <1>4, <2>1 DEF Sound, JournalsAgree
<1> QED
  BY <1>1, <1>4, <1>5, SameServer, MemoryMoves

\* stepClaim: a job that is granted has not been swapped.
LEMMA ClaimSound == ASSUME Solid, Sound, Claim PROVE Sound'
<1>1. /\ Solid' /\ daemon.j = None /\ daemon.pc = "claim" /\ journal = None
      /\ UNCHANGED <<seen, disk, service, helper, swaps>>
      /\ srv \in Job /\ LeasesAreNumbered /\ daemon \in Daemon
  BY ClaimSolid, OnDisk DEF Claim, Exchange, Solid, DaemonIsPlaced, Sound, JournalsAgree
<1>2. Stepped(srv, Claimed) /\ Witnessed(srv) /\ Witnessed(Claimed)
  BY <1>1, ClaimedIs, ReconciledWitnessed, ClaimedWitnessed
<1> PICK lost \in BOOLEAN :
      /\ Exchange(Claimed, lost)
      /\ IF lost \/ Ended(srv')
         THEN daemon' = Failing(daemon) /\ UNCHANGED journal
         ELSE /\ journal' = Fresh(srv'.token, srv'.state \in PostSwapStates)
              /\ daemon' = [Failing(daemon) EXCEPT !.last = None]
  BY DEF Claim, Fresh
<1>3. Stepped(srv, srv') /\ srv' \in {srv, Claimed}
  BY <1>2, ExchangeTyped
<1>4. Witnessed(srv')
  BY <1>2, <1>3 DEF Witnessed
<1>5. daemon'.j = None /\ daemon'.pc = "load" /\ daemon'.say = None /\ daemon'.told = daemon.told
  BY <1>1, FailingTyped DEF Daemon
<1>6. srv.state \in {"queued", "claimed"} \cup Final /\ (Applied => srv.state \in Final /\ daemon.told)
  BY <1>1 DEF Sound, JournalsAgree
<1>7. srv'.state \in {"queued", "claimed"} \cup Final
  <2>1. Reconciled.state \in {srv.state, "failed"}
    BY <1>1, <1>6, ReconciledIs DEF PostSwapStates, PreSwapStates, Ended, TerminalStates, Final
  <2>2. Claimed.state \in {srv.state, "failed", "claimed"}
    <3>1. CASE Claimed = Reconciled
      BY <2>1, <3>1
    <3>2. CASE Claimed = [srv EXCEPT !.state = IF @ = "queued" THEN "claimed" ELSE @,
                                     !.token = @ + 1, !.lease = TRUE]
      BY <1>1, <3>2 DEF Job
    <3> QED
      BY <1>1, <3>1, <3>2, ClaimedIs
  <2> QED
    BY <1>3, <1>6, <2>2 DEF Final
<1>8. Applied' = Applied
  BY <1>1 DEF Applied, Due, Acting
<1>9. JournalsAgree'
  <2>1. CASE journal' = None
    BY <1>3, <1>5, <1>6, <1>7, <1>8, <2>1 DEF JournalsAgree, Stepped, Settling
  <2>2. CASE journal' # None
    <3>1. journal' = Fresh(srv'.token, srv'.state \in PostSwapStates) /\ ~ Ended(srv')
      BY <1>1, <2>2
    <3>2. (srv'.state \in PostSwapStates) = FALSE /\ srv'.state \notin Final
      BY <1>7, <3>1 DEF Ended, TerminalStates, Final, PostSwapStates
    <3>3. srv'.token \in 0 .. MaxClaims
      BY <1>3 DEF Stepped, Job
    <3>4. journal' = Fresh(srv'.token, FALSE)
      BY <3>1, <3>2
    <3>5. /\ journal' \in Journal /\ ~ journal'.reconcile
          /\ ~ journal'.requested /\ ~ journal'.postSwap /\ journal'.phase = "downloading"
      BY <3>3, <3>4, FreshTyped
    <3>6. Truthful(journal', swaps)
      BY <3>5 DEF Truthful, PostSwapStates
    <3>7. ~ Applied
      BY <1>3, <1>6, <3>2 DEF Stepped, Settling
    <3> QED
      BY <1>1, <1>5, <1>8, <2>2, <3>6, <3>7 DEF JournalsAgree
  <2> QED
    BY <2>1, <2>2
<1> QED
  BY <1>1, <1>3, <1>4, <1>5, <1>9, MemoryMoves, NothingToSay DEF Consuming

\* reconcile looks.
LEMMA LookSound == ASSUME Solid, Sound, Look PROVE Sound'
<1>1. /\ Solid' /\ daemon.pc = "look"
      /\ UNCHANGED <<srv, seen, journal, disk, service, helper, swaps>>
  BY LookSolid DEF Look, server
<1>2. /\ daemon \in Daemon /\ daemon.j \in Journal /\ daemon.j # None
      /\ OnCourse(daemon, swaps) /\ Truthful(daemon.j, swaps)
      /\ daemon.say = "rolled_back" => IsBack
  BY <1>1, InCourse
<1> DEFINE f == [record  |-> disk.record,
                 pending |-> "apply" \in disk.pending,
                 result  |-> disk.results["apply"] # None]
<1>3. daemon' = [daemon EXCEPT !.pc = "decide", !.ret = "dispatch", !.found = f]
  BY DEF Look
<1>4. f.record = disk.record
  OBVIOUS
<1> HIDE DEF f
<1>5. /\ daemon'.j = daemon.j /\ daemon'.pc = "decide" /\ daemon'.ret = "dispatch"
      /\ daemon'.found.record = disk.record
      /\ daemon'.say = daemon.say /\ daemon'.told = daemon.told
  BY <1>2, <1>3, <1>4 DEF Daemon
<1>6. disk.record \in HelperPhases \ {"intent"} => swaps > 0
  BY DEF Sound, TracesAreTrue
<1>7. OnCourse(daemon', swaps)
  BY <1>1, <1>2, <1>5, <1>6 DEF OnCourse, Working, PostSwapStates
<1>8. BookKept
  BY <1>1, <1>2, <1>5, <1>7, SameBook
<1> QED
  BY <1>1, <1>2, <1>5, <1>8, SameServer, MemoryMoves DEF Consuming

\* reconcile goes on with a journal that is as true as the one it had.
LEMMA DecideSound == ASSUME Solid, Sound, Decide PROVE Sound'
<1>1. /\ Solid' /\ daemon.pc = "decide"
      /\ UNCHANGED <<srv, seen, disk, service, helper, swaps>>
  BY DecideSolid DEF Decide, server
<1>2. /\ daemon \in Daemon /\ daemon.j \in Journal /\ daemon.j # None
      /\ OnCourse(daemon, swaps) /\ Truthful(daemon.j, swaps)
      /\ daemon.say = "rolled_back" => IsBack
  BY <1>1, InCourse
<1> PICK e \in Daemon, j \in Journal :
      /\ e.j = j /\ e.ret = daemon.ret /\ e.say = daemon.say /\ e.told = daemon.told
      /\ j.requested = daemon.j.requested /\ j.reconcile = daemon.j.reconcile
      /\ \/ j.phase \in {daemon.j.phase, "restarting"}
         \/ j.phase = "rolling_back" /\ daemon.found.record = "rolled_back"
      /\ journal' \in {journal, j}
      /\ \/ daemon' = Dispatch(e)
         \/ daemon' = Phase(e, "dispatch")
         \/ daemon' = Report(e, "failed")
         \/ daemon' = [e EXCEPT !.pc = "hold"]
  BY DecideIs
<1>3. daemon.j.requested
  BY <1>1, <1>2 DEF OnCourse
<1>4. j.phase = "rolling_back" /\ daemon.found.record = "rolled_back" => swaps > 0
  BY <1>1, <1>2 DEF OnCourse, HelperPhases
<1>5. Truthful(j, swaps)
  BY <1>2, <1>3, <1>4 DEF Truthful, Working
<1>6. Homing(e, swaps)
  BY <1>2, <1>5 DEF Homing, OnCourse
<1>7. /\ daemon'.j = j /\ OnCourse(daemon', swaps) /\ daemon'.told = e.told
      /\ daemon'.say \in {e.say, None, "failed"} /\ ~ Consuming(daemon')
  <2>1. CASE daemon' = Dispatch(e)
    BY <1>5, <2>1, DispatchTyped, DispatchOnCourse DEF Consuming
  <2>2. CASE daemon' = Phase(e, "dispatch")
    BY <1>5, <2>2, PhaseTyped, PhaseOnCourse DEF Consuming, Working, PostSwapStates
  <2>3. CASE daemon' = Report(e, "failed")
    BY <1>6, <2>3, ReportTyped, ReportOnCourse DEF Consuming
  <2>4. CASE daemon' = [e EXCEPT !.pc = "hold"]
    <3>1. /\ daemon'.j = j /\ daemon'.ret = e.ret /\ daemon'.pc = "hold" /\ daemon'.told = e.told
          /\ daemon'.say = e.say
      BY <2>4 DEF Daemon
    <3>2. Homing(daemon', swaps) /\ Neutral(daemon')
      BY <1>6, <3>1 DEF Homing, Neutral
    <3> QED
      BY <3>1, <3>2, NeutralOnCourse DEF Consuming
  <2> QED
    BY <2>1, <2>2, <2>3, <2>4
<1>8. BookKept
  BY <1>1, <1>2, <1>5, <1>7, SameBook
<1> QED
  BY <1>1, <1>2, <1>7, <1>8, SameServer, MemoryMoves, NothingToSay

\* reportPhase reports the phase of a journal that is true.
LEMMA ReportPhaseSound == ASSUME Solid, Sound, ReportPhase PROVE Sound'
<1> DEFINE d == daemon
<1>1. /\ Solid' /\ daemon.pc = "phase" /\ daemon.j.phase \in ProgressPhases
      /\ UNCHANGED <<seen, disk, service, helper, swaps>>
  BY ReportPhaseSolid DEF ReportPhase, server, Solid, DaemonIsPlaced, Exchange
<1>2. /\ d \in Daemon /\ d.j \in Journal /\ d.j # None
      /\ Homing(d, swaps) /\ Truthful(d.j, swaps)
      /\ d.say = "rolled_back" => IsBack
  BY <1>1, InCourse
<1>3. Stepped(srv, srv') /\ Witnessed(srv')
  <2>1. CASE srv' = srv
    BY <2>1, SameServer
  <2>2. ASSUME NEW lost, Exchange(Progressed(d.j.token, d.j.phase), lost)
        PROVE  Stepped(srv, srv') /\ Witnessed(srv')
    <3>1. Stepped(srv, Progressed(d.j.token, d.j.phase))
      <4>1. srv \in Job /\ LeasesAreNumbered /\ d.j.phase \in ProgressPhases
        BY <1>1, OnDisk
      <4> QED
        BY <4>1, ProgressedIs, Zenon
    <3>2. Witnessed(srv) /\ Witnessed(Progressed(d.j.token, d.j.phase))
      BY <1>1, ReconciledWitnessed, ProgressedWitnessed
    <3>3. Stepped(srv, srv') /\ srv' \in {srv, Progressed(d.j.token, d.j.phase)}
      BY <2>2, <3>1, ExchangeTyped
    <3> QED
      BY <3>2, <3>3 DEF Witnessed
  <2> QED
    BY <2>1, <2>2 DEF ReportPhase, server
<1>4. /\ journal' \in {journal, d.j}
      /\ \/ daemon' \in {Resume(d), Resume([d EXCEPT !.last = d.j.phase]), Failing(d)}
         \/ daemon' = [d EXCEPT !.pc = "observe", !.told = TRUE]
         \/ daemon' = [d EXCEPT !.pc = "hold"]
         \/ daemon' = [d EXCEPT !.pc = "reclaim"]
  BY DEF ReportPhase
<1>5. ASSUME NEW e \in Daemon, e.j = d.j, e.ret = d.ret, e.say = d.say, e.told = d.told,
             daemon' = Resume(e)
      PROVE  /\ \/ daemon'.j = None /\ daemon'.pc = "load"
                \/ daemon'.j = d.j /\ OnCourse(daemon', swaps)
             /\ daemon'.say \in {d.say, None} /\ (d.told => daemon'.told)
             /\ ~ Consuming(daemon')
  <2>1. Homing(e, swaps)
    BY <1>2, <1>5 DEF Homing
  <2> QED
    BY <1>2, <1>5, <2>1, ResumeTyped, ResumeOnCourse, ResumeGoes DEF Going
<1>6. /\ \/ daemon'.j = None /\ daemon'.pc = "load"
         \/ daemon'.j = d.j /\ OnCourse(daemon', swaps)
      /\ daemon'.say \in {d.say, None} /\ (d.told => daemon'.told) /\ ~ Consuming(daemon')
  <2>1. CASE daemon' \in {Resume(d), Resume([d EXCEPT !.last = d.j.phase])}
    <3>1. /\ [d EXCEPT !.last = d.j.phase] \in Daemon
          /\ [d EXCEPT !.last = d.j.phase].j = d.j /\ [d EXCEPT !.last = d.j.phase].ret = d.ret
          /\ [d EXCEPT !.last = d.j.phase].say = d.say
          /\ [d EXCEPT !.last = d.j.phase].told = d.told
      BY <1>1, <1>2 DEF Daemon
    <3> QED
      BY <1>2, <1>5, <2>1, <3>1
  <2>2. CASE daemon' = Failing(d)
    BY <1>2, <2>2, FailingTyped DEF Consuming
  <2>3. CASE \/ daemon' = [d EXCEPT !.pc = "observe", !.told = TRUE]
             \/ daemon' = [d EXCEPT !.pc = "hold"]
             \/ daemon' = [d EXCEPT !.pc = "reclaim"]
    <3>1. /\ daemon'.j = d.j /\ daemon'.ret = d.ret /\ daemon'.say = d.say
          /\ d.told => daemon'.told
          /\ daemon'.pc \in {"observe", "hold", "reclaim"}
      BY <1>2, <2>3 DEF Daemon
    <3>2. Homing(daemon', swaps) /\ Neutral(daemon')
      BY <1>2, <3>1 DEF Homing, Neutral
    <3> QED
      BY <3>1, <3>2, NeutralOnCourse DEF Consuming
  <2> QED
    BY <1>4, <2>1, <2>2, <2>3
<1>7. BookKept
  BY <1>1, <1>2, <1>4, <1>6, SameBook
<1> QED
  BY <1>1, <1>2, <1>3, <1>6, <1>7, MemoryMoves, NothingToSay

\* The re-claim of a stale lease touches no more than the token.
LEMMA ReclaimSound == ASSUME Solid, Sound, Reclaim PROVE Sound'
<1>1. /\ Solid' /\ daemon.pc = "reclaim" /\ journal' = journal
      /\ UNCHANGED <<seen, disk, service, helper, swaps>>
  BY ReclaimSolid DEF Reclaim, Exchange
<1>2. /\ daemon \in Daemon /\ daemon.j \in Journal /\ daemon.j # None
      /\ Homing(daemon, swaps) /\ Truthful(daemon.j, swaps)
      /\ daemon.say = "rolled_back" => IsBack
  BY <1>1, InCourse
<1> PICK lost \in BOOLEAN :
       /\ Exchange(Claimed, lost)
       /\ daemon' = IF lost \/ Ended(srv') THEN Failing(daemon)
                    ELSE [daemon EXCEPT !.j.token = srv'.token, !.retry = TRUE,
                            !.pc = IF daemon.say = None THEN "phase" ELSE "report"]
  BY DEF Reclaim
<1>3. Stepped(srv, srv') /\ srv' \in {srv, Claimed}
  BY OnDisk, ClaimedIs, ExchangeTyped
<1>4. Witnessed(srv')
  BY <1>3, ReconciledWitnessed, ClaimedWitnessed DEF Witnessed
<1> DEFINE j == [daemon.j EXCEPT !.token = srv'.token]
<1>5. /\ j \in Journal /\ j.phase = daemon.j.phase /\ j.requested = daemon.j.requested
      /\ j.reconcile = daemon.j.reconcile /\ j.postSwap = daemon.j.postSwap
  BY <1>2, <1>3 DEF Journal, Stepped, Job
<1>6. \/ daemon' = Failing(daemon)
      \/ \E p \in {"phase", "report"} : daemon' = [daemon EXCEPT !.j = j, !.retry = TRUE, !.pc = p]
  BY <1>2 DEF Daemon
<1>7. Truthful(j, swaps)
  BY <1>2, <1>5 DEF Truthful
<1> HIDE DEF j
<1>8. /\ \/ daemon'.j = None /\ daemon'.pc = "load"
         \/ daemon'.j = j /\ OnCourse(daemon', swaps)
      /\ daemon'.say \in {daemon.say, None} /\ (daemon.told => daemon'.told)
      /\ ~ Consuming(daemon')
  <2>1. CASE daemon' = Failing(daemon)
    BY <1>2, <2>1, FailingTyped DEF Consuming
  <2>2. ASSUME NEW p \in {"phase", "report"},
               daemon' = [daemon EXCEPT !.j = j, !.retry = TRUE, !.pc = p]
        PROVE  /\ daemon'.j = j /\ OnCourse(daemon', swaps) /\ daemon'.say = daemon.say
               /\ daemon'.told = daemon.told /\ ~ Consuming(daemon')
    <3>1. /\ daemon'.j = j /\ daemon'.ret = daemon.ret /\ daemon'.pc = p
          /\ daemon'.told = daemon.told /\ daemon'.say = daemon.say
      BY <1>2, <2>2 DEF Daemon
    <3>2. Homing(daemon', swaps) /\ Neutral(daemon')
      BY <1>2, <1>5, <1>7, <3>1 DEF Homing, Neutral
    <3> QED
      BY <3>1, <3>2, NeutralOnCourse DEF Consuming
  <2> QED
    BY <1>6, <2>1, <2>2
<1>9. BookKept
  BY <1>1, <1>2, <1>5, <1>7, <1>8, SameBook
<1> QED
  BY <1>1, <1>2, <1>3, <1>4, <1>8, <1>9, MemoryMoves, NothingToSay

\* runPreSwap works on a job of which nothing is swapped.
LEMMA WorkSound == ASSUME Solid, Sound, Work PROVE Sound'
<1>1. /\ Solid' /\ daemon.pc = "work"
      /\ UNCHANGED <<srv, seen, service, helper, swaps>>
  BY WorkSolid DEF Work, server
<1>2. /\ daemon \in Daemon /\ daemon.j \in Journal /\ daemon.j # None
      /\ OnCourse(daemon, swaps) /\ Truthful(daemon.j, swaps)
      /\ daemon.say = "rolled_back" => IsBack
  BY <1>1, InCourse
<1>3. ~ daemon.j.requested /\ ~ daemon.j.reconcile /\ ~ daemon.j.postSwap
  BY <1>1, <1>2 DEF OnCourse, Truthful
<1>4. ~ Applied /\ swaps = 0
  BY <1>2, <1>3, HelperTyped DEF Sound, JournalsAgree, Applied
<1>5. /\ disk'.binary = disk.binary /\ disk'.backup = disk.backup /\ disk'.record = disk.record
      /\ disk'.pending = disk.pending /\ disk'.results = disk.results
  BY WorkIs, OnDisk DEF Disk
<1>6. BookKept /\ daemon'.say # "rolled_back" /\ ~ Consuming(daemon')
  <2>1. CASE journal' = journal /\ daemon' = Failing(daemon)
    <3>1. daemon'.j = None /\ daemon'.pc = "load" /\ daemon'.say = None /\ daemon'.told = daemon.told
      BY <1>2, <2>1, FailingTyped
    <3> QED
      BY <1>1, <1>2, <2>1, <3>1, SameBook, NothingToSay DEF Consuming
  <2>2. CASE /\ journal' = journal
             /\ daemon' = Report([daemon EXCEPT !.ret = "load"], "failed")
    <3> DEFINE e == [daemon EXCEPT !.ret = "load"]
    <3>1. e \in Daemon /\ e.j = daemon.j /\ e.ret = "load" /\ e.told = daemon.told
      BY <1>2 DEF Daemon, Returns
    <3> HIDE DEF e
    <3>2. daemon' = Report(e, "failed")
      BY <2>2 DEF e
    <3>3. Homing(e, swaps)
      BY <1>2, <3>1 DEF Homing, Working, PostSwapStates
    <3>4. /\ daemon'.j = daemon.j /\ OnCourse(daemon', swaps) /\ daemon'.told = daemon.told
          /\ daemon'.say = "failed" /\ daemon'.pc = "report"
      BY <3>1, <3>2, <3>3, ReportTyped, ReportOnCourse
    <3> QED
      BY <1>1, <1>2, <2>2, <3>4, SameBook DEF Consuming
  <2>3. ASSUME NEW next \in {"verifying", "staging", "restarting"},
               journal' = Advanced(daemon.j, next),
               daemon' = Phase([daemon EXCEPT !.j = Advanced(daemon.j, next)], next)
        PROVE  BookKept /\ daemon'.say # "rolled_back" /\ ~ Consuming(daemon')
    <3> DEFINE j == Advanced(daemon.j, next)
               e == [daemon EXCEPT !.j = j]
    <3>1. next \in ProgressPhases \cup {"dispatch"} /\ next \in ProgressPhases
      BY DEF ProgressPhases, PostSwapStates
    <3>2. /\ j \in Journal /\ j.phase = next /\ j.requested = (next = "restarting")
          /\ ~ j.reconcile /\ ~ j.postSwap
      BY <1>2, <1>3, <3>1, AdvancedTyped
    <3>3. Truthful(j, swaps)
      BY <3>2 DEF Truthful, Working, PostSwapStates
    <3> HIDE DEF j
    <3>4. e \in Daemon /\ e.j = j /\ e.told = daemon.told
      BY <1>2, <3>2, WithJournal
    <3> HIDE DEF e
    <3>5. daemon' = Phase(e, next) /\ journal' = j
      BY <2>3 DEF e, j
    <3>6. OnCourse(daemon', swaps)
      <4>1. /\ next \in Working => ~ e.j.requested
            /\ next \in PostSwapStates => e.j.requested
            /\ next \notin {"awaiting_heartbeat", "rolling_back"}
        BY <3>2, <3>4 DEF Working, PostSwapStates
      <4>2. Truthful(e.j, swaps)
        BY <3>3, <3>4
      <4> QED
        BY <3>1, <3>4, <3>5, <4>1, <4>2, PhaseOnCourse
    <3>7. /\ daemon'.j = j /\ daemon'.say = None /\ daemon'.pc = "phase"
          /\ daemon'.told = daemon.told
      BY <3>1, <3>4, <3>5, PhaseTyped
    <3>8. BookKept
      BY <1>1, <1>2, <1>3, <3>2, <3>3, <3>5, <3>6, <3>7, JournalTyped DEF BookKept
    <3> QED
      BY <3>7, <3>8, NothingToSay DEF Consuming
  <2> QED
    BY <2>1, <2>2, <2>3, WorkIs
<1> QED
  BY <1>1, <1>2, <1>4, <1>5, <1>6, SameServer, DaemonMoves DEF Consuming

\* ensureAction asks for what the journal says.
LEMMA RequestSound == ASSUME Solid, Sound, Request PROVE Sound'
<1>1. /\ Solid' /\ daemon.pc = "request"
      /\ UNCHANGED <<srv, seen, journal, service, helper, swaps>>
  BY RequestSolid DEF Request, server
<1>2. /\ daemon \in Daemon /\ daemon.j \in Journal /\ daemon.j # None
      /\ OnCourse(daemon, swaps) /\ Truthful(daemon.j, swaps)
      /\ daemon.say = "rolled_back" => IsBack
  BY <1>1, InCourse
<1>3. CASE daemon' = daemon /\ disk' = [disk EXCEPT !.pending = @ \cup {daemon.ask}]
  <2>1. /\ disk'.binary = disk.binary /\ disk'.backup = disk.backup /\ disk'.record = disk.record
        /\ disk'.pending = disk.pending \cup {daemon.ask} /\ disk'.results = disk.results
        /\ disk'.staged = disk.staged
    BY <1>3, OnDisk DEF Disk
  <2>2. /\ daemon.ask = "apply" => daemon.j.requested
        /\ daemon.ask = "rollback" => swaps > 0
    BY <1>1, <1>2 DEF OnCourse
  <2>3. BookKept
    BY <1>1, <1>2, <1>3, SameBook
  <2>4. daemon'.pc = "request" /\ daemon'.ask = "cleanup" => CleanupIsDue'
    BY <1>1, <1>3, <2>1 DEF Sound, TracesAreKept, CleanupIsDue
  <2> QED
    BY <1>1, <1>2, <1>3, <2>1, <2>2, <2>3, <2>4, SameServer, DaemonMoves
<1>4. CASE daemon' = Failing(daemon) /\ disk' = disk
  <2>1. daemon'.j = None /\ daemon'.pc = "load" /\ daemon'.say = None /\ daemon'.told = daemon.told
    BY <1>2, <1>4, FailingTyped
  <2>2. BookKept
    BY <1>1, <1>2, <2>1, SameBook
  <2> QED
    BY <1>1, <1>2, <1>4, <2>1, <2>2, SameServer, MemoryMoves, NothingToSay DEF Consuming
<1> QED
  BY <1>3, <1>4 DEF Request

\* runRestarting believes what the helper answers.
LEMMA ApplyAnsweredSound == ASSUME Solid, Sound, ApplyAnswered PROVE Sound'
<1> DEFINE j == [daemon.j EXCEPT !.postSwap = TRUE]
           waiting == [daemon.j EXCEPT !.postSwap = TRUE, !.phase = "awaiting_heartbeat"]
           d == [daemon EXCEPT !.j = j]
           w == [daemon EXCEPT !.j = waiting]
<1>1. /\ Solid' /\ daemon.pc = "request" /\ daemon.ask = "apply"
      /\ UNCHANGED <<srv, seen, disk, service, helper, swaps>>
  BY ApplyAnsweredSolid, ApplyAnsweredIs DEF server
<1>2. /\ daemon \in Daemon /\ daemon.j \in Journal /\ daemon.j # None
      /\ OnCourse(daemon, swaps) /\ Homing(daemon, swaps) /\ Truthful(daemon.j, swaps)
  BY <1>1, InCourse
<1>3. /\ j \in Journal /\ waiting \in Journal /\ waiting.phase = "awaiting_heartbeat"
      /\ j.phase = daemon.j.phase
      /\ waiting.requested = daemon.j.requested /\ waiting.reconcile = daemon.j.reconcile
      /\ j.requested = daemon.j.requested /\ j.reconcile = daemon.j.reconcile
  BY ApplyAnsweredIs
<1>4. \/ /\ disk.results["apply"] \in {"restarted", "recovered_restarted"} /\ journal' = waiting
         /\ daemon' = Phase(w, "awaiting_heartbeat")
      \/ journal' = journal /\ daemon' = Report(daemon, "failed")
      \/ /\ disk.results["apply"] = "auto_rolled_back" /\ journal' = journal
         /\ daemon' = Report(d, "rolled_back")
      \/ journal' = journal /\ daemon' = [daemon EXCEPT !.j = j, !.pc = "hold"]
  BY ApplyAnsweredIs
<1>5. daemon.j.requested
  BY <1>1, <1>2 DEF OnCourse
<1>6. /\ disk.results["apply"] \in {"restarted", "recovered_restarted"} => swaps > 0
      /\ disk.results["apply"] = "auto_rolled_back" => IsBack
      /\ daemon.say = "rolled_back" => IsBack
  BY DEF Sound, TracesAreTrue
<1>7. Truthful(j, swaps)
  BY <1>2, <1>3, <1>5 DEF Truthful
<1> HIDE DEF j, waiting
<1>8. d \in Daemon /\ d.j = j /\ d.ret = daemon.ret /\ d.told = daemon.told
  BY <1>2, <1>3, WithJournal
<1>9. w \in Daemon /\ w.j = waiting /\ w.told = daemon.told
  BY <1>2, <1>3, WithJournal
<1> HIDE DEF d, w
<1>10. CASE /\ disk.results["apply"] \in {"restarted", "recovered_restarted"}
            /\ journal' = waiting /\ daemon' = Phase(w, "awaiting_heartbeat")
  <2>1. swaps > 0
    BY <1>6, <1>10
  <2>2. Truthful(waiting, swaps)
    BY <1>2, <1>3, <1>5, <2>1 DEF Truthful, Working
  <2>3. /\ "awaiting_heartbeat" \in ProgressPhases \cup {"dispatch"}
        /\ "awaiting_heartbeat" \notin Working
    BY DEF ProgressPhases, PostSwapStates, Working
  <2>4. OnCourse(daemon', swaps)
    BY <1>3, <1>5, <1>9, <1>10, <2>1, <2>2, <2>3, PhaseOnCourse
  <2>5. daemon'.j = waiting /\ daemon'.told = daemon.told /\ daemon'.say = None /\ daemon'.pc = "phase"
    BY <1>9, <1>10, <2>3, PhaseTyped
  <2>6. BookKept
    BY <1>1, <1>2, <1>3, <1>10, <2>2, <2>4, <2>5, SameBook
  <2> QED
    BY <1>1, <1>2, <2>5, <2>6, SameServer, MemoryMoves, NothingToSay DEF Consuming
<1>11. CASE journal' = journal /\ daemon' = Report(daemon, "failed")
  <2>1. /\ OnCourse(daemon', swaps) /\ daemon'.j = daemon.j /\ daemon'.told = daemon.told
        /\ daemon'.say = "failed" /\ daemon'.pc = "report"
    BY <1>2, <1>11, ReportTyped, ReportOnCourse
  <2>2. BookKept
    BY <1>1, <1>2, <1>11, <2>1, SameBook
  <2> QED
    BY <1>1, <1>2, <2>1, <2>2, SameServer, MemoryMoves DEF Consuming
<1>12. CASE /\ disk.results["apply"] = "auto_rolled_back" /\ journal' = journal
            /\ daemon' = Report(d, "rolled_back")
  <2>1. Homing(d, swaps)
    BY <1>2, <1>3, <1>7, <1>8 DEF Homing
  <2>2. /\ OnCourse(daemon', swaps) /\ daemon'.j = j /\ daemon'.told = daemon.told
        /\ daemon'.say = "rolled_back" /\ daemon'.pc = "report"
    BY <1>8, <1>12, <2>1, ReportTyped, ReportOnCourse
  <2>3. BookKept
    BY <1>1, <1>2, <1>3, <1>7, <1>12, <2>2, SameBook
  <2> QED
    BY <1>1, <1>2, <1>6, <1>12, <2>2, <2>3, SameServer, MemoryMoves DEF Consuming
<1>13. CASE journal' = journal /\ daemon' = [daemon EXCEPT !.j = j, !.pc = "hold"]
  <2>1. /\ daemon'.j = j /\ daemon'.pc = "hold" /\ daemon'.ret = daemon.ret
        /\ daemon'.say = daemon.say /\ daemon'.told = daemon.told
    BY <1>2, <1>3, <1>13 DEF Daemon
  <2>2. Homing(daemon', swaps) /\ Neutral(daemon')
    BY <1>2, <1>3, <1>7, <2>1 DEF Homing, Neutral
  <2>3. BookKept
    BY <1>1, <1>2, <1>3, <1>7, <1>13, <2>1, <2>2, NeutralOnCourse, SameBook
  <2> QED
    BY <1>1, <1>2, <1>6, <2>1, <2>3, SameServer, MemoryMoves DEF Consuming
<1> QED
  BY <1>4, <1>10, <1>11, <1>12, <1>13

\* So does runRollingBack.
LEMMA RollbackAnsweredSound == ASSUME Solid, Sound, RollbackAnswered PROVE Sound'
<1> DEFINE j == [daemon.j EXCEPT !.postSwap = TRUE]
<1>1. /\ Solid' /\ daemon.pc = "request" /\ daemon.ask = "rollback"
      /\ UNCHANGED <<srv, seen, journal, disk, service, helper, swaps>>
  BY RollbackAnsweredSolid, RollbackAnsweredIs DEF server
<1>2. /\ daemon \in Daemon /\ daemon.j \in Journal /\ daemon.j # None
      /\ OnCourse(daemon, swaps) /\ Homing(daemon, swaps) /\ Truthful(daemon.j, swaps)
      /\ daemon.say = "rolled_back" => IsBack
  BY <1>1, InCourse
<1>3. /\ j \in Journal /\ j.phase = daemon.j.phase
      /\ j.requested = daemon.j.requested /\ j.reconcile = daemon.j.reconcile
      /\ \/ daemon' = Report(daemon, "rolled_back") /\ disk.results["rollback"] = "rolled_back"
         \/ daemon' = [daemon EXCEPT !.j = j, !.pc = "hold"]
  BY RollbackAnsweredIs
<1>4. daemon.j.requested
  BY <1>1, <1>2 DEF OnCourse
<1>5. disk.results["rollback"] = "rolled_back" => IsBack
  BY DEF Sound, TracesAreTrue
<1>6. Truthful(j, swaps)
  BY <1>2, <1>3, <1>4 DEF Truthful
<1> HIDE DEF j
<1>7. CASE daemon' = Report(daemon, "rolled_back") /\ disk.results["rollback"] = "rolled_back"
  <2>1. /\ OnCourse(daemon', swaps) /\ daemon'.j = daemon.j /\ daemon'.told = daemon.told
        /\ daemon'.pc = "report"
    BY <1>2, <1>7, ReportTyped, ReportOnCourse
  <2>2. BookKept
    BY <1>1, <1>2, <2>1, SameBook
  <2> QED
    BY <1>1, <1>2, <1>5, <1>7, <2>1, <2>2, SameServer, MemoryMoves DEF Consuming
<1>8. CASE daemon' = [daemon EXCEPT !.j = j, !.pc = "hold"]
  <2>1. /\ daemon'.j = j /\ daemon'.pc = "hold" /\ daemon'.ret = daemon.ret
        /\ daemon'.say = daemon.say /\ daemon'.told = daemon.told
    BY <1>2, <1>3, <1>8 DEF Daemon
  <2>2. Homing(daemon', swaps) /\ Neutral(daemon')
    BY <1>2, <1>3, <1>6, <2>1 DEF Homing, Neutral
  <2>3. BookKept
    BY <1>1, <1>2, <1>3, <1>6, <2>1, <2>2, NeutralOnCourse, SameBook
  <2> QED
    BY <1>1, <1>2, <2>1, <2>3, SameServer, MemoryMoves DEF Consuming
<1> QED
  BY <1>3, <1>7, <1>8

\* awaitHeartbeat saves a journal that is true.
LEMMA AwaitBeginsSound == ASSUME Solid, Sound, AwaitBegins PROVE Sound'
<1>1. /\ Solid' /\ daemon.pc = "grace" /\ journal' = daemon.j
      /\ daemon' = [daemon EXCEPT !.pc = "await"]
      /\ UNCHANGED <<srv, seen, disk, service, helper, swaps>>
  BY AwaitBeginsSolid DEF AwaitBegins, server
<1>2. /\ daemon \in Daemon /\ daemon.j \in Journal /\ daemon.j # None
      /\ OnCourse(daemon, swaps) /\ Truthful(daemon.j, swaps)
      /\ daemon.say = "rolled_back" => IsBack
  BY <1>1, InCourse
<1>3. /\ daemon'.j = daemon.j /\ daemon'.pc = "await" /\ daemon'.ret = daemon.ret
      /\ daemon'.say = daemon.say /\ daemon'.told = daemon.told
  BY <1>1, <1>2 DEF Daemon
<1>4. OnCourse(daemon', swaps)
  BY <1>1, <1>2, <1>3 DEF OnCourse
<1>5. BookKept
  BY <1>1, <1>2, <1>3, <1>4, SameBook
<1> QED
  BY <1>1, <1>2, <1>3, <1>5, SameServer, MemoryMoves DEF Consuming

\* A ruling is followed on course.
LEMMA FollowSound ==
  ASSUME Solid, Solid', Sound, daemon.pc \notin {"load", "claim"},
         Follow(daemon, srv'.state), srv'.state \in TerminalStates,
         UNCHANGED <<disk, seen, service, helper, swaps>>,
         Stepped(srv, srv'), Witnessed(srv')
  PROVE  Sound'
<1>1. /\ daemon \in Daemon /\ daemon.j \in Journal /\ daemon.j # None
      /\ Homing(daemon, swaps) /\ Truthful(daemon.j, swaps)
      /\ daemon.say = "rolled_back" => IsBack
  BY InCourse
<1>2. CASE /\ daemon' \in Daemon /\ daemon'.j = daemon.j /\ daemon'.ret = daemon.ret
           /\ daemon'.say = daemon.say /\ daemon'.told /\ journal' = journal
           /\ daemon'.pc \in {"consume", "hold"}
  <2>1. Homing(daemon', swaps) /\ Neutral(daemon')
    BY <1>1, <1>2 DEF Homing, Neutral
  <2>2. BookKept
    BY <1>1, <1>2, <2>1, NeutralOnCourse, SameBook
  <2> QED
    BY <1>1, <1>2, <2>2, MemoryMoves DEF Consuming
<1>3. ASSUME NEW e \in Daemon, journal' = Halted(daemon.j),
             e.j = Halted(daemon.j), e.ret = daemon.ret, e.say = daemon.say, e.told,
             daemon' = Resume(e)
      PROVE  Sound'
  <2>1. /\ Halted(daemon.j) \in Journal /\ Halted(daemon.j).phase = "terminal"
        /\ Halted(daemon.j).requested = daemon.j.requested
        /\ Halted(daemon.j).reconcile = daemon.j.reconcile
        /\ Halted(daemon.j).postSwap = daemon.j.postSwap
    BY <1>1, HaltedTyped
  <2>2. Truthful(Halted(daemon.j), swaps)
    BY <1>1, <2>1 DEF Truthful, Working, PostSwapStates
  <2>3. Homing(e, swaps)
    BY <1>1, <1>3, <2>1, <2>2 DEF Homing
  <2>4. /\ \/ daemon'.j = None /\ daemon'.pc = "load"
           \/ daemon'.j = Halted(daemon.j) /\ OnCourse(daemon', swaps)
        /\ daemon'.say \in {daemon.say, None} /\ daemon'.told /\ ~ Consuming(daemon')
    BY <1>3, <2>1, <2>3, ResumeTyped, ResumeOnCourse, ResumeGoes DEF Going
  <2>5. BookKept
    BY <1>1, <1>3, <2>1, <2>2, <2>4, SameBook
  <2> QED
    BY <1>1, <2>4, <2>5, MemoryMoves, NothingToSay
<1> QED
  BY <1>1, <1>2, <1>3, FollowIs

\* A read by the daemon is witnessed.
LEMMA ReadWitnessed ==
  ASSUME Solid, Sound, srv' \in {srv, Reconciled}
  PROVE  Witnessed(srv')
BY ReconciledWitnessed DEF Witnessed

\* awaitHeartbeat polls and leaves on course.
LEMMA AwaitSound == ASSUME Solid, Sound, Await PROVE Sound'
<1>1. /\ Solid' /\ daemon.pc = "await" /\ UNCHANGED <<disk, seen, service, helper, swaps>>
      /\ Stepped(srv, srv') /\ srv' \in {srv, Reconciled}
  BY AwaitSolid, AwaitIs
<1>2. /\ daemon \in Daemon /\ daemon.j \in Journal /\ daemon.j # None
      /\ OnCourse(daemon, swaps) /\ Truthful(daemon.j, swaps)
      /\ daemon.say = "rolled_back" => IsBack
  BY <1>1, InCourse
<1>3. Witnessed(srv')
  BY <1>1, ReadWitnessed
<1>4. daemon.j.requested /\ swaps > 0
  BY <1>1, <1>2 DEF OnCourse
<1>5. CASE Follow(daemon, srv'.state) /\ srv'.state \in TerminalStates
  BY <1>1, <1>3, <1>5, FollowSound
<1>6. ASSUME NEW p \in Journal, p.phase = daemon.j.phase, p.postSwap = daemon.j.postSwap,
             p.requested = daemon.j.requested, p.reconcile = daemon.j.reconcile,
             journal' = p, daemon' = [daemon EXCEPT !.j = p]
      PROVE  Sound'
  <2>1. Truthful(p, swaps)
    BY <1>2, <1>6 DEF Truthful
  <2>2. /\ daemon'.j = p /\ daemon'.pc = "await" /\ daemon'.ret = daemon.ret
        /\ daemon'.say = daemon.say /\ daemon'.told = daemon.told
    BY <1>1, <1>2, <1>6 DEF Daemon
  <2>3. OnCourse(daemon', swaps)
    BY <1>1, <1>2, <1>6, <2>1, <2>2 DEF OnCourse
  <2>4. BookKept
    BY <1>1, <1>2, <1>6, <2>1, <2>2, <2>3, SameBook
  <2> QED
    BY <1>1, <1>2, <1>3, <2>2, <2>4, MemoryMoves DEF Consuming
<1>7. ASSUME NEW p \in Journal, p.postSwap = daemon.j.postSwap,
             p.requested = daemon.j.requested, p.reconcile = daemon.j.reconcile,
             journal' = Leaving(p),
             daemon' = Phase([daemon EXCEPT !.j = Leaving(p)], "rolling_back")
      PROVE  Sound'
  <2> DEFINE e == [daemon EXCEPT !.j = Leaving(p)]
  <2>1. /\ Leaving(p) \in Journal /\ Leaving(p).phase = "rolling_back"
        /\ Leaving(p).requested = daemon.j.requested /\ ~ Leaving(p).reconcile
    BY <1>2, <1>7, LeavingTyped DEF Truthful
  <2>2. Truthful(Leaving(p), swaps)
    BY <1>4, <2>1 DEF Truthful, Working
  <2>3. e \in Daemon /\ e.j = Leaving(p) /\ e.told = daemon.told
    BY <1>2, <2>1, WithJournal
  <2> HIDE DEF e
  <2>4. daemon' = Phase(e, "rolling_back")
    BY <1>7 DEF e
  <2>5. "rolling_back" \in ProgressPhases \cup {"dispatch"} /\ "rolling_back" \notin Working
    BY DEF ProgressPhases, PostSwapStates, Working
  <2>6. OnCourse(daemon', swaps)
    BY <1>4, <2>1, <2>2, <2>3, <2>4, <2>5, PhaseOnCourse
  <2>7. /\ daemon'.j = Leaving(p) /\ daemon'.told = daemon.told /\ daemon'.say = None
        /\ daemon'.pc = "phase"
    BY <2>3, <2>4, <2>5, PhaseTyped
  <2>8. BookKept
    BY <1>1, <1>2, <1>7, <2>1, <2>2, <2>6, <2>7, SameBook
  <2> QED
    BY <1>1, <1>2, <1>3, <2>7, <2>8, MemoryMoves, NothingToSay DEF Consuming
<1> QED
  BY <1>5, <1>6, <1>7, AwaitIs DEF Leaving

\* observeRuling polls on course.
LEMMA ObserveSound == ASSUME Solid, Sound, Observe PROVE Sound'
<1>1. /\ Solid' /\ daemon.pc = "observe" /\ UNCHANGED <<disk, seen, service, helper, swaps>>
      /\ Stepped(srv, srv') /\ srv' \in {srv, Reconciled}
  BY ObserveSolid, ObserveIs
<1>2. /\ daemon \in Daemon /\ daemon.j \in Journal /\ daemon.j # None
      /\ OnCourse(daemon, swaps) /\ Truthful(daemon.j, swaps)
      /\ daemon.say = "rolled_back" => IsBack
  BY <1>1, InCourse
<1>3. Witnessed(srv')
  BY <1>1, ReadWitnessed
<1>4. CASE Follow(daemon, srv'.state) /\ srv'.state \in TerminalStates
  BY <1>1, <1>3, <1>4, FollowSound
<1>5. CASE daemon' = daemon /\ journal' = journal
  <2>1. BookKept
    BY <1>1, <1>2, <1>5, SameBook
  <2> QED
    BY <1>1, <1>2, <1>3, <1>5, <2>1, MemoryMoves DEF Consuming
<1> QED
  BY <1>4, <1>5, ObserveIs

\* reportAndObserve reports what the host has shown.
LEMMA ReportResultSound == ASSUME Solid, Sound, ReportResult PROVE Sound'
<1>1. /\ Solid' /\ daemon.pc = "report" /\ UNCHANGED <<disk, seen, service, helper, swaps>>
      /\ Stepped(srv, srv') /\ srv' \in {srv, Resulted(daemon.j.token, daemon.say)}
  BY ReportResultSolid, ReportResultIs
<1>2. /\ daemon \in Daemon /\ daemon.j \in Journal /\ daemon.j # None
      /\ Homing(daemon, swaps) /\ Truthful(daemon.j, swaps)
      /\ daemon.say = "rolled_back" => IsBack
  BY <1>1, InCourse
<1>3. Witnessed(srv')
  BY <1>1, <1>2, ReconciledWitnessed, ResultedWitnessed DEF Witnessed
<1>4. CASE journal' = journal /\ daemon' = Failing(daemon)
  <2>1. daemon'.j = None /\ daemon'.pc = "load" /\ daemon'.say = None /\ daemon'.told = daemon.told
    BY <1>2, <1>4, FailingTyped
  <2>2. BookKept
    BY <1>1, <1>2, <1>4, <2>1, SameBook
  <2> QED
    BY <1>1, <1>2, <1>3, <2>1, <2>2, MemoryMoves, NothingToSay DEF Consuming
<1>5. ASSUME NEW j \in Journal, NEW p \in {"observe", "hold", "reclaim"},
             j.phase \in {daemon.j.phase, "terminal"}, j.postSwap = daemon.j.postSwap,
             j.requested = daemon.j.requested, j.reconcile = daemon.j.reconcile,
             journal' \in {journal, j},
             daemon'.j = j, daemon'.pc = p, daemon'.ret = daemon.ret, daemon'.say = daemon.say,
             daemon.told => daemon'.told
      PROVE  Sound'
  <2>1. Truthful(j, swaps)
    BY <1>2, <1>5 DEF Truthful, Working, PostSwapStates
  <2>2. Homing(daemon', swaps) /\ Neutral(daemon')
    BY <1>2, <1>5, <2>1 DEF Homing, Neutral
  <2>3. BookKept
    BY <1>1, <1>2, <1>5, <2>1, <2>2, NeutralOnCourse, SameBook
  <2> QED
    BY <1>1, <1>2, <1>3, <1>5, <2>3, MemoryMoves DEF Consuming
<1> QED
  BY <1>4, <1>5, ReportResultIs

\* holdJob reports an unverified rollback, which claims nothing.
LEMMA HoldJobSound == ASSUME Solid, Sound, HoldJob PROVE Sound'
<1>1. /\ Solid' /\ daemon.pc = "hold" /\ UNCHANGED <<journal, disk, seen, service, helper, swaps>>
      /\ Stepped(srv, srv') /\ srv' \in {srv, Resulted(daemon.j.token, "rollback_unverified")}
  BY HoldJobSolid, HoldJobIs
<1>2. /\ daemon \in Daemon /\ daemon.j \in Journal /\ daemon.j # None
      /\ Homing(daemon, swaps) /\ Truthful(daemon.j, swaps)
      /\ daemon.say = "rolled_back" => IsBack
  BY <1>1, InCourse
<1>3. Witnessed(srv')
  BY <1>1, ReconciledWitnessed, ResultedWitnessed DEF Witnessed
<1> PICK j \in Journal :
      /\ j.phase = "terminal" /\ j.postSwap = daemon.j.postSwap
      /\ j.requested = daemon.j.requested /\ j.reconcile = daemon.j.reconcile
      /\ daemon' \in Daemon /\ daemon'.j = j /\ daemon'.pc = "halt"
      /\ daemon'.ret = daemon.ret /\ daemon'.say = daemon.say
      /\ daemon'.told = daemon.told
  BY HoldJobIs
<1>4. Truthful(j, swaps)
  BY <1>2 DEF Truthful, Working, PostSwapStates
<1>5. Homing(daemon', swaps) /\ Neutral(daemon')
  BY <1>2, <1>4 DEF Homing, Neutral
<1>6. BookKept
  BY <1>1, <1>2, <1>4, <1>5, NeutralOnCourse, SameBook
<1> QED
  BY <1>1, <1>2, <1>3, <1>6, MemoryMoves DEF Consuming

\* The hold is saved, and the daemon goes on where it was.
LEMMA HaltSound == ASSUME Solid, Sound, Halt PROVE Sound'
<1>1. /\ Solid' /\ daemon.pc = "halt" /\ journal' = daemon.j /\ daemon' = Resume(daemon)
      /\ UNCHANGED <<srv, seen, disk, service, helper, swaps>>
  BY HaltSolid DEF Halt, server
<1>2. /\ daemon \in Daemon /\ daemon.j \in Journal /\ daemon.j # None
      /\ Homing(daemon, swaps) /\ Truthful(daemon.j, swaps)
      /\ daemon.say = "rolled_back" => IsBack
  BY <1>1, InCourse
<1>3. /\ \/ daemon'.j = None /\ daemon'.pc = "load"
         \/ daemon'.j = daemon.j /\ OnCourse(daemon', swaps)
      /\ daemon'.say \in {daemon.say, None} /\ daemon'.told = daemon.told /\ ~ Consuming(daemon')
  BY <1>1, <1>2, ResumeTyped, ResumeOnCourse, ResumeGoes DEF Going
<1>4. BookKept
  BY <1>1, <1>2, <1>3, SameBook
<1> QED
  BY <1>1, <1>2, <1>3, <1>4, SameServer, MemoryMoves, NothingToSay


\* The triggers and the staged artifact go before the cleanup is asked for.
LEMMA ConsumeSound == ASSUME Solid, Sound, Consume PROVE Sound'
<1>1. /\ Solid' /\ daemon.pc = "consume"
      /\ UNCHANGED <<srv, seen, journal, service, helper, swaps>>
      /\ disk' = [disk EXCEPT !.pending = @ \ {"apply", "rollback"}, !.staged = FALSE]
  BY ConsumeSolid DEF Consume, server
<1>2. /\ daemon \in Daemon /\ daemon.j \in Journal /\ daemon.j # None
      /\ Homing(daemon, swaps) /\ Truthful(daemon.j, swaps)
      /\ daemon.say = "rolled_back" => IsBack
  BY <1>1, InCourse
<1>3. /\ disk'.binary = disk.binary /\ disk'.backup = disk.backup /\ disk'.record = disk.record
      /\ disk'.pending = disk.pending \ {"apply", "rollback"} /\ disk'.results = disk.results
      /\ ~ disk'.staged
  BY <1>1, OnDisk DEF Disk
<1>4. srv.state \in Final
  BY <1>1 DEF Solid, DaemonIsPlaced
<1>5. /\ daemon'.j = daemon.j /\ daemon'.ret = daemon.ret /\ daemon'.say = daemon.say
      /\ daemon'.told = daemon.told
      /\ daemon'.pc = "teardown" \/ (daemon'.pc = "request" /\ daemon'.ask = "cleanup")
  <2>1. CASE daemon' = Ask(daemon, "cleanup")
    BY <1>2, <2>1, AskTyped DEF HelperActions
  <2>2. CASE daemon' = [daemon EXCEPT !.pc = "teardown"]
    BY <1>2, <2>2 DEF Daemon
  <2> QED
    BY <2>1, <2>2 DEF Consume
<1>6. Homing(daemon', swaps)
  BY <1>2, <1>5 DEF Homing
<1>7. OnCourse(daemon', swaps)
  BY <1>5, <1>6, NeutralOnCourse DEF Neutral
<1>8. BookKept
  BY <1>1, <1>2, <1>5, <1>7, SameBook
<1>9. CleanupIsDue'
  BY <1>1, <1>3, <1>4 DEF CleanupIsDue
<1> QED
  BY <1>1, <1>2, <1>3, <1>5, <1>8, <1>9, SameServer, DaemonMoves

\* The cleanup is noted in a journal that says the same of the swap.
LEMMA CleanupAnsweredSound == ASSUME Solid, Sound, CleanupAnswered PROVE Sound'
<1> DEFINE cleaned == [daemon.j EXCEPT !.cleaned = TRUE]
<1>1. /\ Solid' /\ daemon.pc = "request"
      /\ UNCHANGED <<srv, seen, disk, service, helper, swaps>>
      /\ journal' = cleaned /\ daemon' = [daemon EXCEPT !.j = cleaned, !.pc = "teardown"]
  BY CleanupAnsweredSolid DEF CleanupAnswered, server
<1>2. /\ daemon \in Daemon /\ daemon.j \in Journal /\ daemon.j # None
      /\ Homing(daemon, swaps) /\ Truthful(daemon.j, swaps)
      /\ daemon.say = "rolled_back" => IsBack
  BY <1>1, InCourse
<1>3. /\ cleaned \in Journal /\ cleaned.phase = daemon.j.phase
      /\ cleaned.requested = daemon.j.requested /\ cleaned.reconcile = daemon.j.reconcile
      /\ cleaned.postSwap = daemon.j.postSwap
  BY <1>2 DEF Journal
<1> HIDE DEF cleaned
<1>4. /\ daemon'.j = cleaned /\ daemon'.ret = daemon.ret /\ daemon'.say = daemon.say
      /\ daemon'.told = daemon.told /\ daemon'.pc = "teardown"
  BY <1>1, <1>2, <1>3 DEF Daemon
<1>5. Truthful(cleaned, swaps)
  BY <1>2, <1>3 DEF Truthful
<1>6. Homing(daemon', swaps) /\ Neutral(daemon')
  BY <1>2, <1>3, <1>4, <1>5 DEF Homing, Neutral
<1>7. BookKept
  BY <1>1, <1>2, <1>3, <1>4, <1>5, <1>6, NeutralOnCourse, SameBook
<1> QED
  BY <1>1, <1>2, <1>4, <1>7, SameServer, MemoryMoves DEF Consuming

\* The results go with nothing left to restore.
LEMMA TeardownSound == ASSUME Solid, Sound, Teardown PROVE Sound'
<1>1. /\ Solid' /\ daemon.pc = "teardown" /\ daemon' = [daemon EXCEPT !.pc = "clear"]
      /\ UNCHANGED <<srv, seen, journal, service, helper, swaps>>
      /\ disk' = [disk EXCEPT !.results = [a \in HelperActions |-> None],
                              !.pending = @ \ {"cleanup"}]
  BY TeardownSolid DEF Teardown, server
<1>2. /\ daemon \in Daemon /\ daemon.j \in Journal /\ daemon.j # None
      /\ Homing(daemon, swaps) /\ Truthful(daemon.j, swaps)
      /\ daemon.say = "rolled_back" => IsBack
  BY <1>1, InCourse
<1>3. /\ disk'.binary = disk.binary /\ disk'.backup = disk.backup /\ disk'.record = disk.record
      /\ disk'.pending = disk.pending \ {"cleanup"} /\ disk'.staged = disk.staged
      /\ disk'.results = [a \in HelperActions |-> None]
  BY <1>1, OnDisk DEF Disk
<1>4. /\ daemon'.j = daemon.j /\ daemon'.ret = daemon.ret /\ daemon'.say = daemon.say
      /\ daemon'.told = daemon.told /\ daemon'.pc = "clear"
  BY <1>1, <1>2 DEF Daemon
<1>5. Homing(daemon', swaps) /\ Neutral(daemon')
  BY <1>2, <1>4 DEF Homing, Neutral
<1>6. BookKept
  BY <1>1, <1>2, <1>4, <1>5, NeutralOnCourse, SameBook
<1> QED
  BY <1>1, <1>2, <1>3, <1>4, <1>6, SameServer, DaemonMoves

\* The job is over before its journal goes.
LEMMA ClearSound == ASSUME Solid, Sound, Clear PROVE Sound'
<1>1. /\ Solid' /\ daemon.pc = "clear" /\ journal' = None
      /\ UNCHANGED <<srv, seen, disk, service, helper, swaps>>
  BY ClearSolid DEF Clear, server
<1>2. /\ daemon \in Daemon /\ daemon.j \in Journal /\ daemon.j # None
      /\ Homing(daemon, swaps) /\ Truthful(daemon.j, swaps)
      /\ daemon.say = "rolled_back" => IsBack
  BY <1>1, InCourse
<1> PICK e \in Daemon : /\ e.j = daemon.j /\ e.ret = daemon.ret /\ e.say = daemon.say
                        /\ e.told /\ e.pc = "clear" /\ daemon' = Resume(e)
  BY ClearIs
<1>3. Homing(e, swaps)
  BY <1>2 DEF Homing
<1>4. /\ \/ daemon'.j = None /\ daemon'.pc = "load"
         \/ daemon'.j = daemon.j /\ OnCourse(daemon', swaps)
      /\ daemon'.say \in {daemon.say, None} /\ daemon'.told /\ ~ Consuming(daemon')
  BY <1>2, <1>3, ResumeTyped, ResumeOnCourse, ResumeGoes DEF Going
<1>5. daemon'.pc # "claim"
  BY <1>1, <1>2, <1>4 DEF Solid, DaemonIsPlaced
<1>6. srv.state \in Final
  BY ClearIs
<1>7. BookKept
  BY <1>1, <1>2, <1>4, <1>5, <1>6 DEF BookKept
<1> QED
  BY <1>1, <1>2, <1>4, <1>7, SameServer, MemoryMoves, NothingToSay

\* Every step of the daemon keeps the host consistent.
LEMMA DaemonSound == ASSUME Solid, Sound, DaemonSteps PROVE Sound'
BY LoadSound, ClaimSound, LookSound, DecideSound, ReportPhaseSound, ReclaimSound, WorkSound,
   RequestSound, ApplyAnsweredSound, RollbackAnsweredSound, AwaitBeginsSound, AwaitSound,
   ReportResultSound, ObserveSound, HoldJobSound, HaltSound, ConsumeSound,
   CleanupAnsweredSound, TeardownSound, ClearSound DEF DaemonSteps


-----------------------------------------------------------------------------
(* What the helper does keeps the host consistent *)

\* What is true of a journal stays true when the binary is swapped once more.
LEMMA MoreSwaps ==
  ASSUME NEW m \in Nat, NEW n \in Nat, m <= n
  PROVE  /\ \A j : Truthful(j, m) => Truthful(j, n)
         /\ \A d : OnCourse(d, m) => OnCourse(d, n)
<1>1. m > 0 => n > 0
  OBVIOUS
<1>2. ASSUME NEW j, Truthful(j, m) PROVE Truthful(j, n)
  BY <1>1, <1>2 DEF Truthful
<1>3. ASSUME NEW d, OnCourse(d, m) PROVE OnCourse(d, n)
  <2>1. Truthful(d.j, n)
    BY <1>2, <1>3 DEF OnCourse
  <2> QED
    BY <1>1, <1>3, <2>1 DEF OnCourse
<1> QED
  BY <1>2, <1>3

\* The helper touches no journal of the daemon's, and acts on what is asked for.
LEMMA HelperAgrees ==
  ASSUME Solid, Sound, UNCHANGED <<srv, seen, journal, daemon>>,
         swaps' \in {swaps, swaps + 1}, Applied' => Applied
  PROVE  JournalsAgree'
<1>1. swaps \in Nat /\ swaps' \in Nat /\ swaps <= swaps'
  BY HelperTyped
<1>2. /\ journal # None => Truthful(journal, swaps')
      /\ daemon.j # None => OnCourse(daemon, swaps')
  BY <1>1, MoreSwaps DEF Sound, JournalsAgree
<1> QED
  BY <1>2 DEF Sound, JournalsAgree

\* A step of the helper that does not swap, by what it leaves behind.
LEMMA HelperMoves ==
  ASSUME Solid, Sound, UNCHANGED <<srv, seen, journal, daemon, swaps>>,
         Applied' => Applied, Due("cleanup")' => Due("cleanup"), HelperIsPlaced',
         disk'.staged = disk.staged, disk'.binary \in {disk.binary, "old"},
         service'.build \in {service.build, disk.binary, "down"},
         disk'.record \in {disk.record, "intent", None} \/ swaps > 0,
         disk'.backup \/ disk'.backup = disk.backup \/ CleanupIsDue,
         disk'.record # None \/ disk'.record = disk.record \/ CleanupIsDue,
         \/ helper'.out \in {"restarted", "recovered_restarted"}
         \/ disk'.results["apply"] \in {"restarted", "recovered_restarted"}
         => swaps > 0,
         \/ disk'.record = "rolled_back" \/ helper'.at \in {"noteback", "restartback"}
         \/ helper'.out \in {"auto_rolled_back", "rolled_back"}
         \/ disk'.results["apply"] \in {"auto_rolled_back", "rolled_back"}
         \/ disk'.results["rollback"] \in {"auto_rolled_back", "rolled_back"}
         => IsBack'
  PROVE  Sound'
<1>1. JournalsAgree'
  BY HelperAgrees
<1>2. IsBack => IsBack'
  BY DEF IsBack
<1>3. TracesAreTrue'
  <2>1. daemon'.say = "rolled_back" \/ srv'.state = "rolled_back" => IsBack'
    BY <1>2 DEF Sound, TracesAreTrue
  <2>2. /\ "new" \in {disk'.binary, service'.build, seen'.build} => swaps' > 0
        /\ srv'.state = "succeeded" => swaps' > 0
        /\ disk'.record \in HelperPhases \ {"intent"} => swaps' > 0
    BY NoneAssumption DEF Sound, TracesAreTrue
  <2> QED
    BY <2>1, <2>2 DEF TracesAreTrue
<1>4. TracesAreKept'
  BY DEF Sound, TracesAreKept, CleanupIsDue
<1> QED
  BY <1>1, <1>3, <1>4 DEF Sound

\* What the helper was placed at says of its action.
LEMMA ActsOn ==
  ASSUME Sound, NEW a \in HelperActions, helper.act = a, helper.at \notin {"idle", "next"}
  PROVE  /\ Due(a) /\ (a = "apply" => Applied) /\ (a = "rollback" => swaps > 0)
         /\ a = "cleanup" => CleanupIsDue
<1>1. Due(a)
  BY DEF Due, Acting
<1> QED
  BY <1>1 DEF Applied, Sound, HelperIsPlaced, TracesAreKept, CleanupIsDue


\* A step that asks for nothing new.
LEMMA NothingNew ==
  ASSUME \A a \in HelperActions : Due(a)' => Due(a)
  PROVE  /\ (Due("apply")' => Due("apply"))
         /\ (Due("rollback")' => Due("rollback"))
         /\ (Due("cleanup")' => Due("cleanup"))
BY DEF HelperActions

\* The requests it lists are there.
LEMMA HelperStartsSound == ASSUME Solid, Sound, HelperStarts PROVE Sound'
<1>1. /\ helper' \in Helper /\ helper'.at = "next" /\ helper'.todo = disk.pending
      /\ helper'.act = helper.act /\ helper'.out = helper.out
      /\ UNCHANGED <<srv, seen, journal, daemon, swaps, disk, service>>
  BY HelperTyped DEF HelperStarts, Helper, Disk, server
<1>2. \A a \in HelperActions : Due(a)' => Due(a)
  BY <1>1 DEF Due, Acting
<1>3. HelperIsPlaced'
  BY <1>1, <1>2, NothingNew DEF Sound, HelperIsPlaced
<1>4. Applied' => Applied
  BY <1>1, <1>2, NothingNew DEF Applied
<1>5. IsBack => IsBack'
  BY <1>1 DEF IsBack
<1> QED
  BY <1>1, <1>2, <1>3, <1>4, <1>5, NothingNew, HelperMoves DEF Sound, TracesAreTrue

\* It takes what it has listed.
LEMMA HelperTakesSound == ASSUME Solid, Sound, HelperTakes PROVE Sound'
<1>1. UNCHANGED <<srv, seen, journal, daemon, swaps, disk, service>>
  BY HelperTakesIs DEF server
<1>2. PICK a : \/ helper' = Dormant
               \/ /\ a \in helper.todo /\ helper'.at = a /\ helper'.act = a
                  /\ helper'.todo = helper.todo \ {a} /\ helper'.out = helper.out
  BY HelperTakesIs
<1>3. helper.todo \subseteq HelperActions
  BY HelperTyped DEF Helper
<1>4. \A b \in HelperActions : Due(b)' => Due(b)
  BY <1>1, <1>2, DormantTyped DEF Due, Acting
<1>5. HelperIsPlaced'
  <2>1. helper'.at \in {"idle", "apply", "rollback", "cleanup"} /\ (helper'.at # "idle" => helper'.act = helper'.at)
    BY <1>2, <1>3, DormantTyped DEF HelperActions
  <2>2. Due("rollback")' => swaps' > 0
    BY <1>1, <1>4, NothingNew DEF Sound, HelperIsPlaced
  <2> QED
    BY <2>1, <2>2 DEF HelperIsPlaced
<1>6. Applied' => Applied
  BY <1>1, <1>4, NothingNew DEF Applied
<1>7. IsBack => IsBack'
  BY <1>1 DEF IsBack
<1>8. helper'.out \in {helper.out, None} /\ helper'.at \notin {"noteback", "restartback"}
  BY <1>2, <1>3, DormantTyped DEF HelperActions
<1>9. None \notin {"restarted", "recovered_restarted", "auto_rolled_back", "rolled_back"}
  BY NoneAssumption DEF HelperOutcomes
<1> QED
  BY <1>1, <1>4, <1>5, <1>6, <1>7, <1>8, <1>9, NothingNew, HelperMoves DEF Sound, TracesAreTrue


\* The helper goes on with its action, or answers.
LEMMA SameAction ==
  ASSUME Solid, helper.at \notin {"idle", "next"}, disk'.pending \subseteq disk.pending,
         helper'.act = helper.act, helper'.todo = helper.todo
  PROVE  \A a \in HelperActions : Due(a)' => Due(a)
BY DEF Due, Acting

\* handleApply with a record reconciles; without one it finds nothing swapped.
LEMMA HelperApplySound == ASSUME Solid, Sound, HelperApply PROVE Sound'
<1>1. /\ UNCHANGED <<srv, seen, journal, daemon, swaps, service>> /\ helper.at = "apply"
      /\ helper.act = "apply"
  BY DEF HelperApply, server, Sound, HelperIsPlaced
<1>2. /\ Due("apply") /\ Applied
  BY <1>1, ActsOn DEF HelperActions
<1>3. IsBack => swaps > 0
  BY DEF IsBack
<1>4. CASE /\ disk.binary = "new" /\ disk' = disk /\ Go("rejoin")
  <2>1. helper'.at = "rejoin" /\ helper'.act = "apply" /\ helper'.todo = helper.todo
        /\ helper'.out = helper.out
    BY <1>1, <1>4, GoTyped
  <2>2. swaps > 0
    BY <1>4 DEF Sound, TracesAreTrue
  <2>3. \A a \in HelperActions : Due(a)' => Due(a)
    BY <1>1, <1>4, <2>1, SameAction
  <2>4. HelperIsPlaced'
    BY <1>1, <2>1, <2>2 DEF HelperIsPlaced
  <2>5. IsBack => IsBack'
    BY <1>1, <1>4 DEF IsBack
  <2> QED
    BY <1>1, <1>2, <1>4, <2>1, <2>2, <2>3, <2>4, <2>5, NothingNew, HelperMoves
       DEF Sound, TracesAreTrue
<1>5. ASSUME NEW o \in {"unclear", "recovered_restarted", "recovered_no_swap", "verify_failed"},
             disk' = disk, Answer(o), o = "recovered_restarted" => disk.binary = "new"
      PROVE  Sound'
  <2>1. o \in HelperOutcomes
    BY DEF HelperOutcomes
  <2>2. helper'.at = "result" /\ helper'.act = "apply" /\ helper'.todo = helper.todo
        /\ helper'.out = o
    BY <1>1, <1>5, <2>1, GoTyped
  <2>3. o \in {"restarted", "recovered_restarted"} => swaps > 0
    BY <1>5 DEF Sound, TracesAreTrue
  <2>4. \A a \in HelperActions : Due(a)' => Due(a)
    BY <1>1, <1>5, <2>2, SameAction
  <2>5. HelperIsPlaced'
    BY <1>1, <2>2, <2>4, NothingNew DEF Sound, HelperIsPlaced
  <2>6. IsBack => IsBack'
    BY <1>1, <1>5 DEF IsBack
  <2> QED
    BY <1>1, <1>2, <1>5, <2>2, <2>3, <2>4, <2>5, <2>6, NothingNew, HelperMoves
       DEF Sound, TracesAreTrue
<1>6. CASE /\ disk.record = None /\ disk.staged /\ ~ disk.backup
           /\ disk' = [disk EXCEPT !.backup = TRUE] /\ Go("intent")
  <2>1. helper'.at = "intent" /\ helper'.act = "apply" /\ helper'.todo = helper.todo
        /\ helper'.out = helper.out
    BY <1>1, <1>6, GoTyped
  <2>2. /\ disk'.binary = disk.binary /\ disk'.backup /\ disk'.staged = disk.staged
        /\ disk'.record = disk.record /\ disk'.pending = disk.pending
        /\ disk'.results = disk.results
    BY <1>6, HelperTyped DEF Disk
  <2>3. swaps = 0 \/ srv.state = "failed"
    BY <1>6, HelperTyped DEF Sound, TracesAreKept
  <2>4. \A a \in HelperActions : Due(a)' => Due(a)
    BY <1>1, <2>1, <2>2, SameAction
  <2>5. HelperIsPlaced'
    BY <1>1, <2>1, <2>2, <2>3, <2>4, NothingNew DEF Sound, HelperIsPlaced
  <2>6. IsBack => IsBack'
    BY <1>1, <2>2 DEF IsBack
  <2> QED
    BY <1>1, <1>2, <2>1, <2>2, <2>4, <2>5, <2>6, NothingNew, HelperMoves
       DEF Sound, TracesAreTrue
<1> QED
  BY <1>4, <1>5, <1>6, HelperTyped DEF HelperApply

\* The swap: of a binary that has not been swapped, or for a job that failed long ago.
LEMMA HelperSwapsSound == ASSUME Solid, Sound, HelperSwaps PROVE Sound'
<1>1. /\ UNCHANGED <<srv, seen, journal, daemon, service>>
      /\ helper.at \in {"intent", "rename", "note"} /\ helper.act = "apply"
  BY DEF HelperSwaps, server, Sound, HelperIsPlaced
<1>2. /\ Due("apply") /\ Applied
  BY <1>1, ActsOn DEF HelperActions
<1>3. CASE /\ helper.at = "intent" /\ disk' = [disk EXCEPT !.record = "intent"]
           /\ Go("rename") /\ swaps' = swaps
  <2>1. helper'.at = "rename" /\ helper'.act = "apply" /\ helper'.todo = helper.todo
        /\ helper'.out = helper.out
    BY <1>1, <1>3, GoTyped
  <2>2. /\ disk'.binary = disk.binary /\ disk'.backup = disk.backup /\ disk'.staged = disk.staged
        /\ disk'.record = "intent" /\ disk'.pending = disk.pending
        /\ disk'.results = disk.results
    BY <1>3, HelperTyped DEF Disk
  <2>3. disk'.record # None
    BY <2>2, NoneAssumption DEF HelperPhases
  <2>4. \A a \in HelperActions : Due(a)' => Due(a)
    BY <1>1, <2>1, <2>2, SameAction
  <2>5. HelperIsPlaced'
    BY <1>1, <1>3, <2>1, <2>2, <2>3, <2>4, NothingNew DEF Sound, HelperIsPlaced
  <2>6. IsBack => IsBack'
    BY <1>1, <1>3, <2>2 DEF IsBack
  <2> QED
    BY <1>1, <1>2, <1>3, <2>1, <2>2, <2>3, <2>4, <2>5, <2>6, NothingNew, HelperMoves
       DEF Sound, TracesAreTrue
<1>4. CASE /\ helper.at = "rename" /\ disk' = [disk EXCEPT !.binary = "new"]
           /\ Go("note") /\ swaps' = swaps + 1
  <2>1. helper'.at = "note" /\ helper'.act = "apply" /\ helper'.todo = helper.todo
        /\ helper'.out = helper.out
    BY <1>1, <1>4, GoTyped
  <2>2. /\ disk'.binary = "new" /\ disk'.backup = disk.backup /\ disk'.staged = disk.staged
        /\ disk'.record = disk.record /\ disk'.pending = disk.pending
        /\ disk'.results = disk.results
    BY <1>4, HelperTyped DEF Disk
  <2>3. /\ disk.backup /\ disk.record # None /\ (swaps = 0 \/ srv.state = "failed")
    BY <1>4 DEF Sound, HelperIsPlaced
  <2>4. swaps \in Nat /\ swaps' \in Nat /\ swaps' > 0
    BY <1>4, HelperTyped
  <2>5. \A a \in HelperActions : Due(a)' => Due(a)
    BY <1>1, <2>1, <2>2, SameAction
  <2>6. HelperIsPlaced'
    BY <2>1, <2>4 DEF HelperIsPlaced
  <2>7. IsBack => IsBack'
    BY <1>1, <2>3, <2>4 DEF IsBack
  <2>8. TracesAreTrue'
    BY <1>1, <2>1, <2>2, <2>4, <2>7 DEF Sound, TracesAreTrue
  <2>9. TracesAreKept'
    BY <1>1, <1>4, <2>2, <2>3, <2>4, <2>5, NothingNew DEF Sound, TracesAreKept
  <2>10. JournalsAgree'
    BY <1>1, <1>2, <1>4, HelperAgrees
  <2> QED
    BY <2>6, <2>8, <2>9, <2>10 DEF Sound
<1>5. CASE /\ helper.at = "note" /\ disk' = [disk EXCEPT !.record = "renamed"]
           /\ Go("restart") /\ swaps' = swaps
  <2>1. helper'.at = "restart" /\ helper'.act = "apply" /\ helper'.todo = helper.todo
        /\ helper'.out = helper.out
    BY <1>1, <1>5, GoTyped
  <2>2. /\ disk'.binary = disk.binary /\ disk'.backup = disk.backup /\ disk'.staged = disk.staged
        /\ disk'.record = "renamed" /\ disk'.pending = disk.pending
        /\ disk'.results = disk.results
    BY <1>5, HelperTyped DEF Disk
  <2>3. disk'.record # None
    BY <2>2, NoneAssumption DEF HelperPhases
  <2>4. swaps > 0
    BY <1>5 DEF Sound, HelperIsPlaced
  <2>5. \A a \in HelperActions : Due(a)' => Due(a)
    BY <1>1, <2>1, <2>2, SameAction
  <2>6. HelperIsPlaced'
    BY <1>5, <2>1, <2>4 DEF HelperIsPlaced
  <2>7. IsBack => IsBack'
    BY <1>1, <1>5, <2>2 DEF IsBack
  <2> QED
    BY <1>1, <1>2, <1>5, <2>1, <2>2, <2>3, <2>4, <2>5, <2>6, <2>7, NothingNew, HelperMoves
       DEF Sound, TracesAreTrue
<1> QED
  BY <1>3, <1>4, <1>5 DEF HelperSwaps


\* A restart finds the binary swapped.
LEMMA HelperRestartsSound ==
  ASSUME Solid, Sound, HelperRestarts \/ HelperRejoins PROVE Sound'
<1>1. /\ UNCHANGED <<srv, seen, journal, daemon, swaps>>
      /\ helper.at \in {"restart", "rejoin"} /\ helper.act = "apply" /\ swaps > 0
  BY RestartsIs DEF server, Sound, HelperIsPlaced
<1>2. /\ Due("apply") /\ Applied
  BY <1>1, ActsOn DEF HelperActions
<1>3. /\ disk'.binary = disk.binary /\ disk'.backup = disk.backup /\ disk'.staged = disk.staged
      /\ disk'.record \in {disk.record, "restarted"} /\ disk'.pending = disk.pending
      /\ disk'.results = disk.results
  BY RestartsIs, HelperTyped DEF Disk
<1>4. /\ helper'.act = "apply" /\ helper'.todo = helper.todo
      /\ \/ /\ helper'.at = "result"
            /\ helper'.out \in {"restarted", "recovered_restarted", "unclear"}
         \/ helper'.at = "restore" /\ helper'.out = helper.out
  BY <1>1, RestartsIs
<1>5. service'.build \in {disk.binary, "down"}
  BY RestartsIs
<1>6. disk'.record # None \/ disk'.record = disk.record
  BY <1>3, NoneAssumption DEF HelperPhases
<1>7. \A a \in HelperActions : Due(a)' => Due(a)
  BY <1>1, <1>3, <1>4, SameAction
<1>8. HelperIsPlaced'
  BY <1>1, <1>4 DEF HelperIsPlaced
<1>9. IsBack => IsBack'
  BY <1>1, <1>3 DEF IsBack
<1> QED
  BY <1>1, <1>2, <1>3, <1>4, <1>5, <1>6, <1>7, <1>8, <1>9, NothingNew, HelperMoves
     DEF Sound, TracesAreTrue

\* handleRollback answers for what the record says.
LEMMA HelperRollbackSound == ASSUME Solid, Sound, HelperRollback PROVE Sound'
<1>1. /\ UNCHANGED <<srv, seen, journal, daemon, swaps, disk, service>>
      /\ helper.at = "rollback" /\ helper.act = "rollback" /\ swaps > 0
  <2>1. /\ UNCHANGED <<srv, seen, journal, daemon, swaps, disk, service>>
        /\ helper.at = "rollback" /\ helper.act = "rollback"
    BY DEF HelperRollback, server, Sound, HelperIsPlaced
  <2> QED
    BY <2>1, ActsOn DEF HelperActions
<1>2. \/ Answer("rollback_failed") \/ (Answer("rolled_back") /\ disk.record = "rolled_back")
      \/ Go("restore")
  BY DEF HelperRollback
<1>3. /\ helper'.act = "rollback" /\ helper'.todo = helper.todo
      /\ \/ helper'.at = "result" /\ helper'.out = "rollback_failed"
         \/ /\ helper'.at = "result" /\ helper'.out = "rolled_back"
            /\ disk.record = "rolled_back"
         \/ helper'.at = "restore" /\ helper'.out = helper.out
  BY <1>1, <1>2, GoTyped DEF HelperOutcomes
<1>4. \A a \in HelperActions : Due(a)' => Due(a)
  BY <1>1, <1>3, SameAction
<1>5. Applied' => Applied
  BY <1>1, <1>4, NothingNew DEF Applied
<1>6. HelperIsPlaced'
  BY <1>1, <1>3 DEF HelperIsPlaced
<1>7. IsBack => IsBack'
  BY <1>1 DEF IsBack
<1> QED
  BY <1>1, <1>3, <1>4, <1>5, <1>6, <1>7, NothingNew, HelperMoves DEF Sound, TracesAreTrue

\* The restore has the old binary back before it says so.
LEMMA HelperRestoresSound == ASSUME Solid, Sound, HelperRestores PROVE Sound'
<1>1. /\ UNCHANGED <<srv, seen, journal, daemon, swaps>>
      /\ service'.build \in {service.build, disk.binary, "down"}
      /\ helper'.act = helper.act /\ helper'.todo = helper.todo
      /\ disk'.backup = disk.backup /\ disk'.staged = disk.staged
      /\ disk'.pending = disk.pending /\ disk'.results = disk.results
      /\ helper.at \in {"restore", "putback", "noteback", "restartback"}
  BY RestoresIs DEF server
<1>2. helper.act \in {"apply", "rollback"} /\ swaps > 0
  BY <1>1 DEF Sound, HelperIsPlaced, TracesAreTrue, IsBack
<1>3. \A a \in HelperActions : Due(a)' => Due(a)
  BY <1>1, SameAction
<1>4. Applied
  BY <1>2 DEF Applied
<1>5. CASE /\ helper.at = "restore" /\ disk'.binary = disk.binary
           /\ disk'.record = disk.record
           /\ \/ helper'.at = "putback" /\ helper'.out = helper.out
              \/ /\ helper'.at = "result"
                 /\ helper'.out \in {"restart_failed_rollback_failed", "rollback_failed"}
  <2>1. HelperIsPlaced'
    BY <1>1, <1>2, <1>5 DEF HelperIsPlaced
  <2>2. IsBack => IsBack'
    BY <1>1, <1>5 DEF IsBack
  <2> QED
    BY <1>1, <1>2, <1>3, <1>4, <1>5, <2>1, <2>2, NothingNew, HelperMoves
       DEF Sound, TracesAreTrue
<1>6. CASE /\ helper.at = "putback" /\ disk'.binary = "old" /\ disk'.record = disk.record
           /\ helper'.at = "noteback" /\ helper'.out = helper.out
  <2>1. HelperIsPlaced'
    BY <1>1, <1>2, <1>6 DEF HelperIsPlaced
  <2>2. IsBack'
    BY <1>1, <1>2, <1>6 DEF IsBack
  <2> QED
    BY <1>1, <1>2, <1>3, <1>4, <1>6, <2>1, <2>2, NothingNew, HelperMoves
       DEF Sound, TracesAreTrue
<1>7. CASE /\ helper.at = "noteback" /\ disk'.binary = disk.binary
           /\ disk'.record = "rolled_back"
           /\ helper'.at = "restartback" /\ helper'.out = helper.out
  <2>1. HelperIsPlaced'
    BY <1>1, <1>2, <1>7 DEF HelperIsPlaced
  <2>2. IsBack'
    BY <1>1, <1>7 DEF Sound, TracesAreTrue, IsBack
  <2>3. disk'.record # None
    BY <1>7, NoneAssumption DEF HelperPhases
  <2> QED
    BY <1>1, <1>2, <1>3, <1>4, <1>7, <2>1, <2>2, <2>3, NothingNew, HelperMoves
       DEF Sound, TracesAreTrue
<1>8. CASE helper.at = "restartback" /\ disk' = disk /\ helper'.at = "result"
  <2>1. HelperIsPlaced'
    BY <1>1, <1>2, <1>8 DEF HelperIsPlaced
  <2>2. IsBack'
    BY <1>1, <1>8 DEF Sound, TracesAreTrue, IsBack
  <2> QED
    BY <1>1, <1>2, <1>3, <1>4, <1>8, <2>1, <2>2, NothingNew, HelperMoves
       DEF Sound, TracesAreTrue
<1> QED
  BY <1>5, <1>6, <1>7, <1>8, RestoresIs

\* handleCleanup forgets what nobody restores any more.
LEMMA HelperCleansSound == ASSUME Solid, Sound, HelperCleans PROVE Sound'
<1>1. /\ UNCHANGED <<srv, seen, journal, daemon, swaps, service>>
      /\ helper.at \in {"cleanup", "forget"} /\ helper.act = "cleanup"
  BY DEF HelperCleans, server, Sound, HelperIsPlaced
<1>2. CleanupIsDue
  BY <1>1, ActsOn DEF HelperActions
<1>3. /\ disk'.binary = disk.binary /\ disk'.staged = disk.staged
      /\ disk'.pending = disk.pending /\ disk'.results = disk.results
      /\ disk'.record \in {disk.record, None} /\ (disk'.backup => disk.backup)
  <2>1. disk' = [disk EXCEPT !.backup = FALSE] \/ disk' = [disk EXCEPT !.record = None]
    BY DEF HelperCleans
  <2> QED
    BY <2>1, HelperTyped DEF Disk
<1>4. /\ helper'.act = "cleanup" /\ helper'.todo = helper.todo
      /\ \/ helper'.at = "forget" /\ helper'.out = helper.out
         \/ helper'.at = "result" /\ helper'.out = "cleaned"
  BY <1>1, GoTyped DEF HelperCleans, HelperOutcomes
<1>5. \A a \in HelperActions : Due(a)' => Due(a)
  BY <1>1, <1>3, <1>4, SameAction
<1>6. Applied' => Applied
  BY <1>1, <1>3, <1>5, NothingNew DEF Applied
<1>7. HelperIsPlaced'
  BY <1>1, <1>4, <1>5, NothingNew DEF Sound, HelperIsPlaced
<1>8. IsBack => IsBack'
  BY <1>1, <1>3 DEF IsBack
<1>9. None \notin HelperPhases
  BY NoneAssumption
<1> QED
  BY <1>1, <1>2, <1>3, <1>4, <1>5, <1>6, <1>7, <1>8, <1>9, NothingNew, HelperMoves
     DEF Sound, TracesAreTrue, HelperPhases

\* RunHelper answers what its action found.
LEMMA HelperAnswersSound == ASSUME Solid, Sound, HelperAnswers PROVE Sound'
<1>1. /\ UNCHANGED <<srv, seen, journal, daemon, swaps, service>>
      /\ helper.at \in {"result", "unlink"}
      /\ helper.act \in HelperActions
  BY HelperTyped DEF HelperAnswers, server, Helper
<1>2. /\ Due(helper.act)
      /\ helper.act = "apply" => Applied
  BY <1>1, ActsOn
<1>3. CASE /\ helper.at = "result" /\ disk' = [disk EXCEPT !.results[helper.act] = helper.out]
           /\ Go("unlink")
  <2>1. helper'.at = "unlink" /\ helper'.act = helper.act /\ helper'.todo = helper.todo
        /\ helper'.out = helper.out
    BY <1>3, GoTyped
  <2>2. /\ disk'.binary = disk.binary /\ disk'.backup = disk.backup /\ disk'.staged = disk.staged
        /\ disk'.record = disk.record /\ disk'.pending = disk.pending
        /\ \A a \in HelperActions :
             disk'.results[a] = IF a = helper.act THEN helper.out ELSE disk.results[a]
    BY <1>3, HelperTyped DEF Disk
  <2>3. /\ disk'.results["apply"] = IF helper.act = "apply" THEN helper.out
                                    ELSE disk.results["apply"]
        /\ disk'.results["rollback"] = IF helper.act = "rollback" THEN helper.out
                                       ELSE disk.results["rollback"]
    BY <2>2 DEF HelperActions
  <2>4. \A a \in HelperActions : Due(a)' => Due(a)
    BY <1>1, <2>1, <2>2, SameAction
  <2>5. Applied' => Applied
    BY <1>1, <1>2, <2>2, <2>3, <2>4, NothingNew DEF Applied
  <2>6. HelperIsPlaced'
    BY <1>1, <2>1, <2>4, NothingNew DEF Sound, HelperIsPlaced
  <2>7. IsBack => IsBack'
    BY <1>1, <2>2 DEF IsBack
  <2> QED
    BY <1>1, <2>1, <2>2, <2>3, <2>4, <2>5, <2>6, <2>7, NothingNew, HelperMoves
       DEF Sound, TracesAreTrue
<1>4. CASE /\ helper.at = "unlink"
           /\ disk' = disk \/ disk' = [disk EXCEPT !.pending = @ \ {helper.act}]
           /\ helper' = [helper EXCEPT !.at = "next", !.out = None]
  <2>1. helper'.at = "next" /\ helper'.act = helper.act /\ helper'.todo = helper.todo
        /\ helper'.out = None
    BY <1>4, HelperTyped DEF Helper
  <2>2. /\ disk'.binary = disk.binary /\ disk'.backup = disk.backup /\ disk'.staged = disk.staged
        /\ disk'.record = disk.record /\ disk'.pending \subseteq disk.pending
        /\ disk'.results = disk.results
    BY <1>4, HelperTyped DEF Disk
  <2>3. \A a \in HelperActions : Due(a)' => Due(a)
    BY <1>1, <2>1, <2>2, SameAction
  <2>4. Applied' => Applied
    BY <1>1, <2>2, <2>3, NothingNew DEF Applied
  <2>5. HelperIsPlaced'
    BY <1>1, <2>1, <2>3, NothingNew DEF Sound, HelperIsPlaced
  <2>6. IsBack => IsBack'
    BY <1>1, <2>2 DEF IsBack
  <2>7. None \notin {"restarted", "recovered_restarted", "auto_rolled_back", "rolled_back"}
    BY NoneAssumption DEF HelperOutcomes
  <2> QED
    BY <1>1, <2>1, <2>2, <2>3, <2>4, <2>5, <2>6, <2>7, NothingNew, HelperMoves
       DEF Sound, TracesAreTrue
<1> QED
  BY <1>3, <1>4 DEF HelperAnswers

\* Every step of the helper keeps the host consistent.
LEMMA HelperSound == ASSUME Solid, Sound, HelperSteps PROVE Sound'
BY HelperStartsSound, HelperTakesSound, HelperApplySound, HelperSwapsSound, HelperRestartsSound,
   HelperRollbackSound, HelperRestoresSound, HelperCleansSound, HelperAnswersSound
   DEF HelperSteps


-----------------------------------------------------------------------------
(* What surrounds them does, too, unless it takes the journal *)

\* A restart leaves no more to say and nothing to ask, and the time that passes rules only
\* what it has seen.
LEMMA SurroundingsSound ==
  ASSUME Solid, Sound, Surroundings
  PROVE  disk'.robbed \/ Sound'
<1> SUFFICES ASSUME ~ disk'.robbed PROVE Sound'
  OBVIOUS
<1>1. Stepped(srv, srv') /\ srv'.state \in {srv.state, Reconciled.state}
      /\ srv \in Job /\ LeasesAreNumbered /\ disk \in Disk /\ daemon \in Daemon
  BY SurroundingsTyped, OnDisk
<1>2. disk' = disk /\ swaps' = swaps
  <2>1. disk' = [disk EXCEPT !.robbed = TRUE] => disk'.robbed
    BY <1>1 DEF Disk
  <2> QED
    BY <2>1, SurroundingsTyped
<1>3. \/ journal' = journal
      \/ /\ journal \in Journal /\ journal' \in Journal
         /\ journal'.phase = journal.phase /\ journal'.requested = journal.requested
         /\ journal'.reconcile = journal.reconcile /\ journal'.postSwap = journal.postSwap
  BY SurroundingsTyped
<1>4. \/ daemon' = daemon
      \/ /\ daemon'.j = None /\ daemon'.pc = "load" /\ daemon'.say = None
         /\ daemon'.told = daemon.told
  BY <1>1, SurroundingsTyped, RestartedTyped
<1>5. \/ helper' = helper
      \/ helper'.at = "idle" /\ helper'.todo = {} /\ helper'.out = None
  BY SurroundingsTyped, DormantTyped
<1>6. \A a \in HelperActions : Due(a)' => Due(a)
  BY <1>2, <1>5 DEF Due, Acting
<1>7. Applied' => Applied
  BY <1>2, <1>6, NothingNew DEF Applied
<1>8. /\ srv.state = "failed" => srv'.state = "failed"
      /\ srv.state \in Final => srv'.state \in Final
      /\ IsBack => IsBack'
  BY <1>1, <1>2 DEF Stepped, Settling, Final, IsBack
<1>9. Witnessed(srv')
  BY <1>1, ReconciledWitnessed DEF Witnessed
<1>10. JournalsAgree'
  <2>1. /\ journal' # None => /\ journal # None /\ Truthful(journal', swaps)
                              /\ journal'.requested = journal.requested
        /\ journal' = None => journal = None
    BY <1>3, JournalTyped DEF Sound, JournalsAgree, Truthful
  <2>2. srv.state \in {"queued", "claimed"} => srv'.state \in {"queued", "claimed", "failed"}
    BY <1>1, ReconciledIs DEF PostSwapStates, PreSwapStates
  <2>3. journal' = None => srv'.state \in {"queued", "claimed"} \cup Final
    BY <1>8, <2>1, <2>2 DEF Sound, JournalsAgree, Final
  <2>4. daemon' = daemon \/ (daemon'.j = None /\ daemon'.pc # "claim" /\ daemon'.told = daemon.told)
    BY <1>4
  <2> QED
    BY <1>2, <1>7, <1>8, <2>1, <2>3, <2>4 DEF Sound, JournalsAgree
<1>11. HelperIsPlaced'
  BY <1>2, <1>5, <1>6, <1>8, NothingNew DEF Sound, HelperIsPlaced
<1>12. TracesAreTrue'
  <2>1. None \notin {"restarted", "recovered_restarted", "auto_rolled_back", "rolled_back"}
    BY NoneAssumption DEF HelperOutcomes
  <2>2. /\ seen'.build \in {seen.build, service.build}
        /\ service'.build \in {service.build, disk.binary, "down"}
    BY SurroundingsTyped
  <2>3. /\ "new" \in {disk'.binary, service'.build, seen'.build} => swaps' > 0
        /\ disk'.record \in HelperPhases \ {"intent"} => swaps' > 0
    BY <1>2, <2>2 DEF Sound, TracesAreTrue
  <2>4. \/ helper'.out \in {"restarted", "recovered_restarted"}
        \/ disk'.results["apply"] \in {"restarted", "recovered_restarted"}
        => swaps' > 0
    BY <1>2, <1>5, <2>1 DEF Sound, TracesAreTrue
  <2>5. \/ disk'.record = "rolled_back" \/ helper'.at \in {"noteback", "restartback"}
        \/ helper'.out \in {"auto_rolled_back", "rolled_back"}
        \/ disk'.results["apply"] \in {"auto_rolled_back", "rolled_back"}
        \/ disk'.results["rollback"] \in {"auto_rolled_back", "rolled_back"}
        \/ daemon'.say = "rolled_back" \/ srv'.state = "rolled_back"
        => IsBack
    BY <1>2, <1>4, <1>5, <1>9, <2>1 DEF Sound, TracesAreTrue, Witnessed
  <2> QED
    BY <1>2, <1>8, <1>9, <2>3, <2>4, <2>5 DEF TracesAreTrue, Witnessed
<1>13. TracesAreKept'
  <2>1. daemon'.pc = "request" /\ daemon'.ask = "cleanup"
          => daemon.pc = "request" /\ daemon.ask = "cleanup"
    BY <1>4
  <2> QED
    BY <1>2, <1>6, <1>8, <2>1, NothingNew DEF Sound, TracesAreKept
<1> QED
  BY <1>10, <1>11, <1>12, <1>13 DEF Sound

\* A journal that is lost stays lost.
LEMMA RobbedStays ==
  ASSUME Solid, [Next]_vars, disk.robbed
  PROVE  disk'.robbed
<1>1. disk \in Disk
  BY OnDisk
<1>2. CASE DaemonSteps
  <2>1. Work => disk' = disk \/ disk' = [disk EXCEPT !.staged = TRUE]
    BY WorkIs
  <2>2. Request => disk' = disk \/ disk' = [disk EXCEPT !.pending = @ \cup {daemon.ask}]
    BY DEF Request
  <2>3. Consume => disk' = [disk EXCEPT !.pending = @ \ {"apply", "rollback"}, !.staged = FALSE]
    BY DEF Consume
  <2>4. Teardown => disk' = [disk EXCEPT !.results = [a \in HelperActions |-> None],
                                         !.pending = @ \ {"cleanup"}]
    BY DEF Teardown
  <2>5. Work \/ Request \/ Consume \/ Teardown => disk'.robbed
    BY <1>1, <2>1, <2>2, <2>3, <2>4 DEF Disk
  <2>6. Load \/ Claim \/ Look \/ Decide \/ AwaitBegins \/ Await \/ Observe \/ Halt => disk' = disk
    BY DEF Load, Claim, Look, Decide, AwaitBegins, Await, Observe, Halt
  <2>7. ReportPhase \/ Reclaim \/ ApplyAnswered \/ RollbackAnswered => disk' = disk
    BY DEF ReportPhase, Reclaim, ApplyAnswered, RollbackAnswered
  <2>8. ReportResult \/ HoldJob \/ CleanupAnswered \/ Clear => disk' = disk
    BY ReportResultIs, HoldJobIs DEF CleanupAnswered, Clear
  <2> QED
    BY <1>2, <2>5, <2>6, <2>7, <2>8 DEF DaemonSteps
<1>3. CASE HelperSteps
  <2>1. CASE HelperStarts \/ HelperTakes \/ HelperApply \/ HelperSwaps \/ HelperRollback
    BY <1>1, <2>1 DEF HelperStarts, HelperTakes, HelperApply, HelperSwaps, HelperRollback, Disk
  <2>2. CASE HelperRestarts \/ HelperRejoins \/ HelperRestores
    BY <1>1, <2>2, RestartsIs, RestoresIs DEF Disk
  <2>3. CASE HelperCleans \/ HelperAnswers
    BY <1>1, <2>3 DEF HelperCleans, HelperAnswers, Disk
  <2> QED
    BY <1>3, <2>1, <2>2, <2>3 DEF HelperSteps
<1>4. CASE Surroundings
  BY <1>1, <1>4, SurroundingsTyped DEF Disk
<1>5. CASE UNCHANGED vars
  BY <1>5 DEF vars
<1> QED
  BY <1>2, <1>3, <1>4, <1>5 DEF Next

\* At the start nothing is swapped, asked for, or said.
LEMMA InitSound == Init => Sound
<1> SUFFICES ASSUME Init PROVE Sound
  OBVIOUS
<1>1. /\ daemon.j = None /\ daemon.pc = "load" /\ daemon.say = None
      /\ helper.at = "idle" /\ helper.todo = {} /\ helper.out = None
      /\ journal = None /\ swaps = 0
  BY StartedTyped, DormantTyped DEF Init
<1>2. /\ disk.binary = "old" /\ ~ disk.backup /\ disk.record = None /\ disk.pending = {}
      /\ disk.results["apply"] = None /\ disk.results["rollback"] = None
      /\ seen.build = "old" /\ service.build = "old" /\ srv.state = "queued"
  BY DEF Init, HelperActions
<1>3. /\ ~ Due("apply") /\ ~ Due("rollback") /\ ~ Due("cleanup") /\ ~ Applied
  BY <1>1, <1>2 DEF Due, Acting, Applied
<1>4. None \notin {"restarted", "recovered_restarted", "auto_rolled_back", "rolled_back"}
      /\ None \notin HelperPhases
  BY NoneAssumption DEF HelperOutcomes
<1>5. JournalsAgree /\ HelperIsPlaced
  BY <1>1, <1>2, <1>3 DEF JournalsAgree, HelperIsPlaced
<1>6. TracesAreTrue
  BY <1>1, <1>2, <1>4 DEF TracesAreTrue, HelperPhases
<1>7. TracesAreKept
  BY <1>1, <1>2, <1>3 DEF TracesAreKept
<1> QED
  BY <1>5, <1>6, <1>7 DEF Sound

\* As long as the journal is there, no step leaves the host inconsistent.
LEMMA NextSound ==
  ASSUME Solid, disk.robbed \/ Sound, [Next]_vars
  PROVE  disk'.robbed \/ Sound'
<1>1. CASE disk.robbed
  BY <1>1, RobbedStays
<1>2. CASE Sound /\ UNCHANGED vars
  BY <1>2 DEF vars, Sound, JournalsAgree, HelperIsPlaced, TracesAreTrue, TracesAreKept,
              Applied, Due, Acting, IsBack
<1>3. CASE Sound /\ Next
  BY <1>3, DaemonSound, HelperSound, SurroundingsSound DEF Next
<1> QED
  BY <1>1, <1>2, <1>3

\* The inductive invariant.
LEMMA HostIsSound == Spec => [](Solid /\ (disk.robbed \/ Sound))
<1>1. Init => Solid /\ (disk.robbed \/ Sound)
  BY InitSolid, InitSound
<1>2. Solid /\ (disk.robbed \/ Sound) /\ [Next]_vars => (Solid /\ (disk.robbed \/ Sound))'
  BY NextSolid, NextSound
<1> QED
  BY <1>1, <1>2, PTL DEF Spec

\* The journals, the helper's place and the traces on the disk agree, after every crash,
\* lost call and timeout, for any number of them.
THEOREM HostStaysConsistent == Spec => []HostIsConsistent
<1>1. Solid /\ (disk.robbed \/ Sound) => HostIsConsistent
  BY DEF Solid, Sound, HostIsConsistent
<1> QED
  BY <1>1, HostIsSound, PTL

\* The binary is swapped once unless the job has failed, asked for under a journal that
\* says so, and what a rollback needs is kept until the job is ruled for good.
THEOREM SwapsStaySafe == Spec => [](disk.robbed \/ SwapsAreSafe)
<1>1. ASSUME Solid, Sound PROVE SwapsAreSafe
  <2>1. TypeOK /\ HostIsConsistent
    BY <1>1 DEF Solid, Sound, HostIsConsistent
  <2>2. AtMostOneSwap
    BY <1>1, HelperTyped DEF Sound, TracesAreKept, AtMostOneSwap
  <2>3. IntentBeforeRequest
    BY <1>1 DEF IntentBeforeRequest, Sound, JournalsAgree, Applied, Due
  <2>4. RollbackStaysPossible
    BY <1>1 DEF RollbackStaysPossible, Sound, TracesAreTrue, TracesAreKept, Final
  <2> QED
    BY <2>1, <2>2, <2>3, <2>4 DEF SwapsAreSafe
<1>2. Solid /\ (disk.robbed \/ Sound) => disk.robbed \/ SwapsAreSafe
  BY <1>1
<1> QED
  BY <1>2, HostIsSound, PTL

\* What the server rules is what happened: a job rolled back has the old binary, replaced
\* once before, and one that succeeded has the new one.
THEOREM OutcomesStayTrue == Spec => [](disk.robbed \/ OutcomesAreTrue)
<1>1. ASSUME Solid, Sound PROVE OutcomesAreTrue
  <2>1. srv.state # "failed" => swaps = 0 \/ swaps = 1
    BY <1>1, HelperTyped DEF Sound, TracesAreKept
  <2>2. /\ srv.state = "rolled_back" => swaps > 0 /\ disk.binary = "old"
        /\ srv.state = "succeeded" => swaps > 0
    BY <1>1 DEF Sound, TracesAreTrue, IsBack
  <2> QED
    BY <2>1, <2>2 DEF OutcomesAreTrue, RolledBackIsTrue, SucceededIsTrue
<1>2. Solid /\ (disk.robbed \/ Sound) => disk.robbed \/ OutcomesAreTrue
  BY <1>1
<1> QED
  BY <1>2, HostIsSound, PTL

=============================================================================
