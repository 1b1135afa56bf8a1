-------------------------- MODULE MCLocalUpgradeApi --------------------------
(***************************************************************************)
(* Small instances of LocalUpgradeApi for TLC.  A job takes many calls to  *)
(* reach its swap point, so the runs about its later life start from a     *)
(* state the service reaches by a create and a claim at time 0.            *)
(***************************************************************************)
EXTENDS LocalUpgradeApi, TLC

CONSTANTS OldBuild, NewBuild

ASSUME BuildsAssumption == OldBuild \in Builds /\ NewBuild \in Builds

\* Every phase has the same short timeout.
MCPhaseTimeout == [s \in ActiveStates |-> 1]

\* Handlers are interchangeable; so are keys.
Interchangeable == Permutations(Requests) \cup Permutations(Keys)

\* The agent runs OldBuild and the updater polls; no job yet.
IdleHost ==
  /\ now = 0
  /\ jobs = [j \in Jobs |-> AbsentRow(j)]
  /\ agent = [build |-> OldBuild, seen |-> 0]
  /\ arriving = {}
  /\ heard = {agent}
  /\ updaterSeen = 0
  /\ req = [r \in Requests |-> Idle]
  /\ calls = 0

\* One job was created and claimed by the updater.
ClaimedJob(j) ==
  [AbsentRow(j) EXCEPT
     !.state = "claimed", !.release = NewBuild, !.baseBuild = OldBuild,
     !.token = 1, !.lease = LeaseTTL, !.phaseDeadline = PhaseTimeout["queued"],
     !.deadline = OverallDeadline, !.revision = 1]

ClaimedHost ==
  /\ now = 0
  /\ \E c \in Jobs :
       jobs = [j \in Jobs |-> IF j = c THEN ClaimedJob(j) ELSE AbsentRow(j)]
  /\ agent = [build |-> OldBuild, seen |-> 0]
  /\ arriving = {}
  /\ heard = {agent}
  /\ updaterSeen = 0
  /\ req = [r \in Requests |-> Idle]
  /\ calls = 0

CreateSpec == IdleHost /\ [][Next]_vars

LifeSpec == ClaimedHost /\ [][Next]_vars

FairLifeSpec == LifeSpec /\ Fairness

\* From a claimed job, the promise is checked step by step.
StepsKeepPromise == [][Promise!Next]_(Promise!board)

=============================================================================
