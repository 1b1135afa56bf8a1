----------------------------- MODULE UpgradeJob -----------------------------
(***************************************************************************)
(* What LocalUpgradeService promises its callers about the upgrade jobs of *)
(* one host, with every call a single step: one job at a time, a new       *)
(* fencing token for every new owner, `failed' only before the swap point, *)
(* `rolled_back' only once the pre-swap heartbeat was pinned, and settled  *)
(* jobs that stay settled except for a verified refinement.                *)
(***************************************************************************)
EXTENDS Integers

CONSTANT Jobs

VARIABLES
  state,    \* the state of each job, "absent" before it is created
  token,    \* how many times each job was claimed
  pinned    \* the swap point was reported and its heartbeat recorded

board == <<state, token, pinned>>

PreSwap  == {"queued", "claimed", "downloading", "verifying", "staging"}
PostSwap == {"restarting", "awaiting_heartbeat", "rolling_back"}
Live     == PreSwap \cup PostSwap

\* A job is created when no other is live.
Create(j) ==
  /\ state[j] = "absent"
  /\ \A i \in Jobs : state[i] \notin Live
  /\ state' = [state EXCEPT ![j] = "queued"]
  /\ UNCHANGED <<token, pinned>>

\* The updater takes (or takes over) a live job; its phase is not reset.
Claim(j) ==
  /\ state[j] \in Live
  /\ state' = [state EXCEPT ![j] = IF @ = "queued" THEN "claimed" ELSE @]
  /\ token' = [token EXCEPT ![j] = @ + 1]
  /\ UNCHANGED pinned

\* The owner reports a phase; the first report of the restart pins the baseline.
Advance(j) ==
  /\ state[j] \in Live
  /\ token[j] > 0
  /\ \E p \in (Live \ {"queued", "claimed"}) :
       /\ state' = [state EXCEPT ![j] = p]
       /\ pinned' = [pinned EXCEPT ![j] = @ \/ p = "restarting"]
  /\ UNCHANGED token

\* A verdict: reported by the owner, confirmed by a heartbeat or by a deadline.
Settle(j) ==
  /\ state[j] \in Live
  /\ \E verdict \in {"succeeded", "rollback_unverified"}
                    \cup (IF pinned[j] THEN {"rolled_back"} ELSE {})
                    \cup (IF state[j] \in PreSwap THEN {"failed"} ELSE {}) :
       state' = [state EXCEPT ![j] = verdict]
  /\ UNCHANGED <<token, pinned>>

\* The one verdict that may still improve.
Refine(j) ==
  /\ state[j] = "rollback_unverified"
  /\ pinned[j]
  /\ state' = [state EXCEPT ![j] = "rolled_back"]
  /\ UNCHANGED <<token, pinned>>

Init ==
  /\ state = [j \in Jobs |-> "absent"]
  /\ token = [j \in Jobs |-> 0]
  /\ pinned = [j \in Jobs |-> FALSE]

Next == \E j \in Jobs : Create(j) \/ Claim(j) \/ Advance(j) \/ Settle(j) \/ Refine(j)

Spec == Init /\ [][Next]_board

=============================================================================
