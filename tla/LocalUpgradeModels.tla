------------------------- MODULE LocalUpgradeModels -------------------------
(***************************************************************************)
(* The durable upgrade job of packages/api/src/local-upgrade: the row the  *)
(* repository stores, the lease test and the freshness rule.               *)
(*                                                                         *)
(* A field of the row that no decision of the service reads (progress      *)
(* percentage, message, error text, audit data, reclaimCount, claimedAt,   *)
(* the release's URL and digest) is left out.  result.outcome is left out  *)
(* too: every write that sets it sets `state' to the same value.           *)
(*                                                                         *)
(* In every module, a definition marked "Faulty:" (named after the one it  *)
(* precedes) is not part of the model.  It is that definition with a       *)
(* plausible bug, kept to show that the properties notice the bug.         *)
(***************************************************************************)
EXTENDS Integers, UpgradeStates

CONSTANTS
  Jobs,             \* ids a job may be given (newLocalUpgradeId)
  Builds,           \* build ids an agent may report and a release may carry
  Keys,             \* Idempotency-Key values an administrator may send
  None              \* null / undefined

ASSUME NoneAssumption ==
  /\ None \notin Jobs
  /\ None \notin Builds
  /\ None \notin Keys
  /\ None \notin Int

-----------------------------------------------------------------------------
(* The row *)

OptTime  == Nat \cup {None}

OptBuild == Builds \cup {None}

JobRow == [ id            : Jobs,
            state         : JobStates,
            key           : Keys \cup {None},
            release       : OptBuild,       \* releaseBuildId
            baseBuild     : OptBuild,       \* baselineBuildId
            baseHeartbeat : OptTime,        \* baselineHeartbeatAt
            token         : Nat,            \* fencingToken
            lease         : OptTime,        \* leaseExpiresAt
            phaseDeadline : Nat,
            deadline      : Nat,
            revision      : Nat ]

ASSUME NoRowAssumption == None \notin JobRow

AbsentRow(j) == [ id |-> j, state |-> "absent", key |-> None, release |-> None,
                  baseBuild |-> None, baseHeartbeat |-> None, token |-> 0,
                  lease |-> None, phaseDeadline |-> 0, deadline |-> 0,
                  revision |-> 0 ]

Active(row)    == row.state \in ActiveStates

Terminal(row)  == row.state \in TerminalStates

LeaseValid(row, t) == row.lease # None /\ t <= row.lease

-----------------------------------------------------------------------------
(* The agent state row: the build and receipt time of the last heartbeat.  *)

Heartbeat    == [build : Builds, seen : Nat]

NoHeartbeat  == [build |-> None, seen |-> None]

\* isFreshTimestamp: received in the past and less than ttl ago.
Fresh(seen, ttl, t) == seen # None /\ seen <= t /\ t - seen < ttl

=============================================================================
