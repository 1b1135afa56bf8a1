---------------------------- MODULE DockerAlerts ----------------------------
(***************************************************************************)
(* One Docker alert of one host: the evaluator that opens and resolves it  *)
(* and the rows the dashboard reads, in a JSON file or in Postgres.  Every *)
(* committed snapshot feeds the rule observations; the operator may        *)
(* acknowledge the alert, maintenance removes resolved rows, and switching *)
(* monitoring off removes everything.                                      *)
(*                                                                         *)
(* An observation is what the classifiers make of it: evidence for the     *)
(* condition, against it, in between, the removal of the container, or     *)
(* `frozen' when it is unknown, stale, partial or a gap.  Times,           *)
(* occurrences and summaries are left out.  MaxAlerts bounds the rows.     *)
(***************************************************************************)
EXTENDS Integers, Sequences, FiniteSets, SequencesExt

CONSTANTS Kinds, Stores, MaxAlerts

AllKinds == { "docker_unavailable", "container_unhealthy", "container_restart_loop",
              "container_cpu_high", "container_memory_high", "docker_storage_pressure",
              "docker_event_gap" }

ASSUME AlertAssumption ==
  Kinds \subseteq AllKinds /\ Stores \subseteq {"json", "postgres"} /\ MaxAlerts \in Nat \ {0}

VARIABLES
  place,    \* the repository in use
  kind,     \* the rule
  rule,     \* its state: window, quiet run, cooldown and alert
  rows,     \* the rows of the alert, oldest first
  seen,     \* history: the last evidence that was not frozen
  turn      \* history: what the last observation did

avars == <<place, kind, rule, rows, seen, turn>>

-----------------------------------------------------------------------------
(* Rules *)

Admissible == {"positive", "negative", "quiet", "neutral"}
Observations == Admissible \cup {"removed", "frozen"}

Rule == [ window : SeqOf(Admissible, 5), quiet : 0 .. 3, cooldown : 0 .. 2,
          alert : {"none", "open", "acknowledged"} ]

NewRule == [window |-> << >>, quiet |-> 0, cooldown |-> 0, alert |-> "none"]

Thresholds ==
  [ docker_unavailable      |-> [open |-> 3, window |-> 5, clear |-> 3, cooldown |-> 0],
    container_unhealthy     |-> [open |-> 1, window |-> 1, clear |-> 3, cooldown |-> 2],
    container_restart_loop  |-> [open |-> 3, window |-> 5, clear |-> 3, cooldown |-> 2],
    container_cpu_high      |-> [open |-> 3, window |-> 5, clear |-> 3, cooldown |-> 2],
    container_memory_high   |-> [open |-> 3, window |-> 5, clear |-> 3, cooldown |-> 2],
    docker_storage_pressure |-> [open |-> 1, window |-> 2, clear |-> 2, cooldown |-> 2],
    docker_event_gap        |-> [open |-> 1, window |-> 1, clear |-> 3, cooldown |-> 0] ]

Limits == Thresholds[kind]

\* What the file repository feeds its rules: it has no quotient for the CPU, no
\* version for the storage formula and no healthy sample for a restart loop.
JsonFeeds ==
  [ docker_unavailable      |-> {"positive", "negative", "frozen"},
    container_unhealthy     |-> {"positive", "negative", "frozen"},
    container_restart_loop  |-> {"positive", "quiet", "removed", "frozen"},
    container_cpu_high      |-> {"frozen"},
    container_memory_high   |-> {"positive", "negative", "neutral", "frozen"},
    docker_storage_pressure |-> {"frozen"},
    docker_event_gap        |-> {"positive"} ]

\* Postgres feeds samples and events to more rules, and gaps to none.
PgFeeds ==
  [ docker_unavailable      |-> {"positive", "negative", "frozen"},
    container_unhealthy     |-> {"positive", "negative", "removed", "frozen"},
    container_restart_loop  |-> {"positive", "negative", "quiet", "removed", "frozen"},
    container_cpu_high      |-> {"positive", "negative", "neutral", "frozen"},
    container_memory_high   |-> {"positive", "negative", "neutral", "frozen"},
    docker_storage_pressure |-> {"positive", "negative", "neutral", "frozen"},
    docker_event_gap        |-> {"negative"} ]

Feeds == IF place = "json" THEN JsonFeeds[kind] ELSE PgFeeds[kind]

-----------------------------------------------------------------------------
(* The evaluator: the rule after an observation, and the transition *)

Slide(w, s) ==
  LET longer == Append(w, s)
      size == Limits.window
  IN IF Len(longer) <= size THEN longer
     ELSE SubSeq(longer, Len(longer) - size + 1, Len(longer))

Count(w, S) == Cardinality({ i \in DOMAIN w : w[i] \in S })

Against == {"negative", "quiet"}

Result(r, transition) == [rule |-> r, transition |-> transition]

Unavailable(r, s) ==
  LET w == Slide(r.window, s)
  IN CASE r.alert # "none" /\ Count(w, Against) >= Limits.clear ->
            Result([r EXCEPT !.window = w, !.alert = "none"], "resolved")
       [] r.alert = "none" /\ Count(w, {"positive"}) >= Limits.open ->
            Result([r EXCEPT !.window = w, !.alert = "open"], "opened")
       [] OTHER -> Result([r EXCEPT !.window = w], "none")

EventGap(r, s) ==
  LET q == IF s = "positive" THEN 0 ELSE IF r.quiet < 3 THEN r.quiet + 1 ELSE 3
      after == [r EXCEPT !.window = Slide(@, s), !.quiet = q]
  IN CASE r.alert # "none" /\ q >= 3 ->
            Result([after EXCEPT !.quiet = 0, !.alert = "none"], "resolved")
       [] r.alert = "none" /\ s = "positive" ->
            Result([after EXCEPT !.alert = "open"], "opened")
       [] OTHER -> Result(after, "none")

\* The removal of the container resolves the alert and lifts the cooldown.
Removed(r) ==
  IF r.alert = "none" THEN Result(r, "none")
  ELSE Result([r EXCEPT !.quiet = 0, !.cooldown = 0, !.alert = "none"], "removed")

RestartLoop(r, s) ==
  LET w == Slide(r.window, s)
      q == IF s = "positive" THEN 0 ELSE IF r.quiet < 3 THEN r.quiet + 1 ELSE 3
      after == [r EXCEPT !.window = w, !.quiet = q]
      clear == s = "negative" /\ q >= 3
  IN CASE r.alert # "none" /\ clear ->
            Result([after EXCEPT !.quiet = 0, !.cooldown = Limits.cooldown,
                                 !.alert = "none"], "resolved")
       [] r.alert # "none" /\ ~ clear -> Result(after, "none")
       [] r.alert = "none" /\ r.cooldown > 0 ->
            Result([after EXCEPT !.cooldown = @ - 1], "none")
       [] r.alert = "none" /\ r.cooldown = 0 /\ Count(w, {"positive"}) >= Limits.open ->
            Result([after EXCEPT !.alert = "open"], "opened")
       [] OTHER -> Result(after, "none")

\* Faulty: any evidence against the condition in the window resolves.
SimpleThreshold_AnyClear(r, s) ==
  LET w == Slide(r.window, s)
      after == [r EXCEPT !.window = w]
  IN CASE r.alert # "none" /\ s = "negative" ->
            Result([after EXCEPT !.cooldown = Limits.cooldown, !.alert = "none"], "resolved")
       [] r.alert = "none" /\ Count(w, {"positive"}) >= Limits.open ->
            Result([after EXCEPT !.alert = "open"], "opened")
       [] OTHER -> Result(after, "none")

SimpleThreshold(r, s) ==
  LET w == Slide(r.window, s)
      after == [r EXCEPT !.window = w]
      clear == /\ Len(w) >= Limits.clear
               /\ \A i \in Len(w) - Limits.clear + 1 .. Len(w) : w[i] = "negative"
  IN CASE r.alert = "none" /\ s = "neutral" -> Result([after EXCEPT !.quiet = 0], "none")
       [] r.alert # "none" /\ clear ->
            Result([after EXCEPT !.quiet = 0, !.cooldown = Limits.cooldown,
                                 !.alert = "none"], "resolved")
       [] r.alert # "none" /\ ~ clear -> Result(after, "none")
       [] r.alert = "none" /\ s # "neutral" /\ r.cooldown > 0 ->
            Result([after EXCEPT !.cooldown = @ - 1], "none")
       [] r.alert = "none" /\ s # "neutral" /\ r.cooldown = 0
            /\ Count(w, {"positive"}) >= Limits.open ->
            Result([after EXCEPT !.quiet = 0, !.alert = "open"], "opened")
       [] OTHER -> Result(after, "none")

Evaluate(r, o) ==
  CASE o = "frozen" -> Result(r, "none")
    [] o = "removed" -> Removed(r)
    [] o \in Admissible /\ kind = "docker_unavailable" -> Unavailable(r, o)
    [] o \in Admissible /\ kind = "docker_event_gap" -> EventGap(r, o)
    [] o \in Admissible /\ kind = "container_restart_loop" -> RestartLoop(r, o)
    [] OTHER -> SimpleThreshold(r, o)

-----------------------------------------------------------------------------
(* The rows *)

Active == {"open", "acknowledged"}
ActiveRows(rs) == { i \in DOMAIN rs : rs[i] \in Active }

\* JSON: the active row is replaced, or a row with the same id is added.
JsonRecord(rs, result) ==
  IF result.rule.alert # "none"
  THEN IF ActiveRows(rs) # {}
       THEN [i \in DOMAIN rs |-> IF rs[i] \in Active THEN result.rule.alert ELSE rs[i]]
       ELSE Append(rs, result.rule.alert)
  ELSE IF result.transition \in {"resolved", "removed"}
       THEN [i \in DOMAIN rs |-> IF rs[i] \in Active THEN "resolved" ELSE rs[i]]
       ELSE rs

\* Postgres: one row for the id, which an opening takes over.
PgRecord(rs, result) ==
  IF result.rule.alert # "none" THEN << result.rule.alert >>
  ELSE IF result.transition \in {"resolved", "removed"}
       THEN [i \in DOMAIN rs |-> IF rs[i] \in Active THEN "resolved" ELSE rs[i]]
       ELSE rs

Record(rs, result) == IF place = "json" THEN JsonRecord(rs, result) ELSE PgRecord(rs, result)

Remember(s, o) ==
  IF o \notin Admissible THEN s
  ELSE LET longer == Append(s, o)
       IN IF Len(longer) <= 5 THEN longer ELSE Tail(longer)

\* A committed snapshot feeds one observation to the rule.
Observe ==
  \E o \in Feeds :
    LET result == Evaluate(rule, o)
    IN /\ Len(Record(rows, result)) <= MaxAlerts
       /\ rule' = result.rule
       /\ rows' = Record(rows, result)
       /\ seen' = Remember(seen, o)
       /\ turn' = IF result.transition = "none" THEN o ELSE result.transition
       /\ UNCHANGED <<place, kind>>

\* The id names the first of the rows that, in the file, share it.
Acknowledged(rs) ==
  IF Head(rs) = "open" THEN << "acknowledged" >> \o Tail(rs) ELSE rs

\* A request to acknowledge changes a row, and no rule; it is refused without one.
AcknowledgeAlert ==
  /\ rows # << >>
  /\ rows' = Acknowledged(rows)
  /\ turn' = "acknowledge"
  /\ UNCHANGED <<place, kind, rule, seen>>

\* Maintenance removes the rows resolved before the cutoff.
PruneAlerts ==
  /\ rows # << >> /\ Head(rows) = "resolved"
  /\ rows' = Tail(rows)
  /\ turn' = "prune"
  /\ UNCHANGED <<place, kind, rule, seen>>

\* Switching monitoring off removes rows and rule.
CleanupAlerts ==
  /\ rule' = NewRule /\ rows' = << >> /\ seen' = << >> /\ turn' = "cleanup"
  /\ UNCHANGED <<place, kind>>

AInit ==
  /\ place \in Stores /\ kind \in Kinds
  /\ rule = NewRule /\ rows = << >> /\ seen = << >> /\ turn = "cleanup"

ANext == Observe \/ AcknowledgeAlert \/ PruneAlerts \/ CleanupAlerts

ASpec == AInit /\ [][ANext]_avars

-----------------------------------------------------------------------------
(* Properties *)

\* Type invariant.
AlertTypeOK ==
  /\ place \in Stores /\ kind \in Kinds
  /\ rule \in Rule
  /\ rows \in SeqOf({"open", "acknowledged", "resolved"}, MaxAlerts)
  /\ seen \in SeqOf(Admissible, 5)
  /\ turn \in Observations \cup { "opened", "resolved", "acknowledge", "prune", "cleanup" }

\* The dashboard and the evaluator never disagree: there is one active row while
\* the rule holds an alert, open or acknowledged, and none otherwise, whatever
\* order evidence, acknowledgements, maintenance and clean-ups come in.
RowsFollowTheRule ==
  Cardinality(ActiveRows(rows)) = IF rule.alert = "none" THEN 0 ELSE 1

\* An alert opens on as many observations of the condition as its rule asks for,
\* within its window; one that cannot be judged is not among them.
OpensOnEvidence ==
  turn = "opened" =>
    LET n == IF Len(seen) < Limits.window THEN Len(seen) ELSE Limits.window
    IN Count(SubSeq(seen, Len(seen) - n + 1, Len(seen)), {"positive"}) >= Limits.open

\* And it clears on as many against it: silence, gaps and partial samples do
\* not clear an alert.
ClearsOnEvidence ==
  turn = "resolved" => Count(seen, Against) >= Limits.clear

\* Where the repository feeds its rule evidence against the condition and the
\* window can hold as much as the rule asks for, five such observations in a row
\* leave no alert, whatever opened it and whatever the operator did.
Clearable == /\ "negative" \in Feeds
             /\ Limits.clear <= Limits.window \/ kind = "docker_event_gap"

GoneIsResolved ==
  (Clearable /\ Len(seen) = 5 /\ Count(seen, {"negative"}) = 5) => rule.alert = "none"

\* An alert is open for the evidence its rule asks for and ends on it, and the
\* rows say what the rule does.
AlertsFollowTheRule ==
  AlertTypeOK /\ RowsFollowTheRule /\ OpensOnEvidence /\ ClearsOnEvidence /\ GoneIsResolved

\* Violated: an acknowledged alert is never open again before it is resolved.
AcknowledgedStays ==
  [][ (\E i \in DOMAIN rows : rows[i] = "acknowledged")
        => ~ \E i \in DOMAIN rows' : rows'[i] = "open" ]_avars

\* Violated: as many consecutive observations of a healthy container as the rule
\* asks for end its alert.
HealthyContainerClears ==
  (kind = "container_unhealthy" /\ Len(seen) >= Limits.clear
     /\ \A i \in Len(seen) - Limits.clear + 1 .. Len(seen) : seen[i] = "negative")
    => rule.alert = "none"

\* Violated: an alert opens on an observation of its condition.
OpensOnPositive ==
  [][ (rule.alert = "none" /\ rule'.alert = "open")
        => Last(seen') = "positive" ]_avars

=============================================================================
