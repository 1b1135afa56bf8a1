---------------------------- MODULE UpgradeStates ----------------------------
(***************************************************************************)
(* The states of a local upgrade job, as the API stores them and the       *)
(* updater reports them, and what a missed deadline makes of each.         *)
(***************************************************************************)

PreSwapStates  == {"queued", "claimed", "downloading", "verifying", "staging"}

PostSwapStates == {"restarting", "awaiting_heartbeat", "rolling_back"}

TerminalStates == {"succeeded", "rolled_back", "rollback_unverified", "failed"}

ActiveStates   == PreSwapStates \cup PostSwapStates

\* Phases the updater may report in a progress call.
ProgressPhases == {"downloading", "verifying", "staging"} \cup PostSwapStates

\* Verdicts the updater may report in a result call.
Outcomes == TerminalStates

\* "absent": no row has this id yet.
JobStates == ActiveStates \cup TerminalStates \cup {"absent"}

\* What a missed deadline makes of a job in the given active state.
DeadlineRuling(state) ==
  IF state \in PostSwapStates THEN "rollback_unverified" ELSE "failed"

=============================================================================
