----------------------------- MODULE UpgradeCard -----------------------------
(***************************************************************************)
(* The dashboard's control of a local upgrade (LocalAgentUpdate.tsx) next  *)
(* to what it reads of the API: the update status of the host, which names *)
(* its newest job, the job read by itself while it is live, and the        *)
(* request that creates one.                                               *)
(*                                                                         *)
(* An answer carries what the server knew when it was read and may arrive  *)
(* after a later one.  A view is read in one step here, job included.  The *)
(* job's phases are two, before and after the swap; its rows, deadlines    *)
(* and reports are LocalUpgradeApi's.                                      *)
(*                                                                         *)
(* Left out: progress in percent, dates, the wording of errors, the        *)
(* dialog that shows the manual instructions.                              *)
(***************************************************************************)
EXTENDS Naturals, Sequences, FiniteSets

CONSTANTS Sites,            \* the states of the host and of the catalogue met
          Stages,           \* the stages of a job met
          Allowances,       \* bounds: upgrades, changes of the site, losses and reloads
          MaxViews,         \* bound: status requests out at a time
          MaxPolls          \* bound: polls of the job out at a time

ASSUME CardAssumption ==
  /\ {MaxViews, MaxPolls} \subseteq Nat
  /\ Allowances \subseteq [upgrades : Nat, moves : Nat, losses : Nat]
  /\ Sites \subseteq [arch : BOOLEAN, release : Nat, api : BOOLEAN, artifact : BOOLEAN,
                      fresh : BOOLEAN, build : Nat, updater : {"absent", "sick", "healthy"}]

VARIABLES site,             \* the host and the catalogue
          upgradeRuns,      \* the jobs of the host, oldest first
          card,             \* [status, job, dialog]: what the page holds
          ask,              \* the request that creates a job, [step, release, answer, run]
          views, readings,  \* status answers and answers to job polls under way
          left              \* what is left of the bounds

cardVars == <<site, upgradeRuns, card, ask, views, readings, left>>

\* isTerminalLocalUpgrade.
Over(stage) == stage \in {"succeeded", "rolled_back", "rollback_unverified", "failed"}

NoRun  == [id |-> 0, stage |-> "none", rev |-> 0]
NoHost == [available |-> 0, artifact |-> FALSE, reason |-> "none", state |-> "none",
           updater |-> "absent"]
NoAsk  == [step |-> "none", release |-> 0, answer |-> "none", run |-> NoRun]
Blank  == [status |-> NoHost, job |-> NoRun, dialog |-> FALSE]

ReadRun(i) == [id |-> i, stage |-> upgradeRuns[i].stage, rev |-> upgradeRuns[i].rev]
Newest     == IF upgradeRuns = <<>> THEN NoRun ELSE ReadRun(Len(upgradeRuns))
Ongoing    == Newest.id # 0 /\ ~Over(Newest.stage)
Live(j)    == j.id # 0 /\ ~Over(j.stage)
----------------------------------------------------------------------------
(* The API.                                                                *)

Released(s) == s.arch /\ s.release # 0

Reason(s) ==
    IF s.arch /\ s.release = 0 THEN "release_unavailable"
    ELSE IF s.arch /\ ~s.api THEN "api_incompatible"
    ELSE IF s.arch /\ s.artifact THEN "ok" ELSE "unsupported_architecture"

\* The first that applies.
UpdateState(s) ==
    IF ~s.arch THEN "incompatible"
    ELSE IF ~Released(s) THEN "release_unavailable"
    ELSE IF ~s.fresh \/ s.build = 0 THEN "unknown"
    ELSE IF s.build = s.release THEN "current"
    ELSE IF Reason(s) # "ok" THEN "incompatible"
    ELSE IF s.updater # "healthy" THEN "updater_unavailable" ELSE "available"

\* getAgentUpdate: what the page is told of the host, and its newest job.
HostStatus == [available |-> IF Released(site) THEN site.release ELSE 0,
               artifact  |-> Released(site) /\ site.artifact,
               reason    |-> Reason(site), state |-> UpdateState(site),
               updater   |-> site.updater]

View == [host |-> HostStatus, job |-> Newest]

\* createJob's refusals, in its order; "created" when there is none.
Verdict(release) ==
    IF Ongoing THEN "active_job_exists"
    ELSE IF site.updater # "healthy" \/ ~site.arch \/ ~site.fresh \/ site.build = 0 THEN "refused"
    ELSE IF site.release = 0 THEN "refused"
    ELSE IF site.release # release THEN "release_changed"
    ELSE IF ~site.api \/ ~site.artifact \/ site.build = release THEN "refused"
    ELSE IF left.upgrades = 0 THEN "refused" ELSE "created"    \* the bound

Queue(release) ==
    /\ upgradeRuns' = Append(upgradeRuns, [stage |-> "queued", rev |-> 1, swapped |-> FALSE,
                                           release |-> release])
    /\ left' = [left EXCEPT !.upgrades = @ - 1]

\* Another page creates a job.
QueuedElsewhere ==
    /\ Verdict(site.release) = "created"
    /\ Queue(site.release)
    /\ UNCHANGED <<site, card, ask, views, readings>>

NextStages(stage) ==
    CASE stage = "queued"              -> {"restarting", "failed"}
      [] stage = "restarting"          -> {"succeeded", "rolled_back", "rollback_unverified"}
      [] stage = "rollback_unverified" -> {"rolled_back"}
      [] OTHER                         -> {}

\* A job moves on; the new build reports when it has succeeded.
RunMoves ==
    \E i \in DOMAIN upgradeRuns : \E stage \in NextStages(upgradeRuns[i].stage) \cap Stages :
        /\ upgradeRuns' = [upgradeRuns EXCEPT ![i].stage = stage, ![i].rev = @ + 1,
                                                ![i].swapped = @ \/ stage = "restarting"]
        /\ site' = IF stage = "succeeded"
                   THEN [site EXCEPT !.build = upgradeRuns[i].release, !.fresh = TRUE] ELSE site
        /\ UNCHANGED <<card, ask, views, readings, left>>

SiteMoves ==
    /\ left.moves > 0
    /\ left' = [left EXCEPT !.moves = @ - 1]
    /\ site' \in Sites \ {site}
    /\ UNCHANGED <<upgradeRuns, card, ask, views, readings>>
----------------------------------------------------------------------------
(* The page's reads.                                                       *)

\* What follows when the job shown becomes j: polls of another job, or of a
\* life that is over, are aborted ...
PollsAfter(j, polls) == IF card.job.id = j.id /\ Live(card.job) = Live(j) THEN polls ELSE {}

\* ... and a job seen to end has the status read again.
ViewsAfter(j, rest) == IF Live(card.job) /\ Over(j.stage) THEN rest \cup {View} ELSE rest

\* The initial load, the thirty-second poll, the retry button.
LoadStatus ==
    /\ Cardinality(views) < MaxViews
    /\ views' = views \cup {View}
    /\ UNCHANGED <<site, upgradeRuns, card, ask, readings, left>>

\* applyStatus: another job replaces the one shown; of the same job a live
\* one is left to its polls, an ended one gives way to what is not older.
Merged(j) ==
    IF j.id = 0 THEN card.job
    ELSE IF card.job.id # j.id THEN j
    ELSE IF Live(card.job) \/ j.rev < card.job.rev THEN card.job ELSE j

StatusArrives(v) ==
    /\ v \in views
    /\ LET j == Merged(v.job) IN
         /\ card' = [card EXCEPT !.status = v.host, !.job = j]
         /\ readings' = PollsAfter(j, readings)
         /\ views' = ViewsAfter(j, views \ {v})
    /\ UNCHANGED <<site, upgradeRuns, ask, left>>

StatusLost ==
    \E v \in views :
        /\ left.losses > 0
        /\ left' = [left EXCEPT !.losses = @ - 1]
        /\ views' = views \ {v}
        /\ UNCHANGED <<site, upgradeRuns, card, ask, readings>>

\* The five-second poll and the nudge of the event stream, while the job is live.
PollJob ==
    /\ Live(card.job) /\ Cardinality(readings) < MaxPolls
    /\ readings' = readings \cup {ReadRun(card.job.id)}
    /\ UNCHANGED <<site, upgradeRuns, card, ask, views, left>>

JobArrives(j) ==
    /\ j \in readings
    /\ card' = [card EXCEPT !.job = j]
    /\ readings' = PollsAfter(j, readings \ {j})
    /\ views' = ViewsAfter(j, views)
    /\ UNCHANGED <<site, upgradeRuns, ask, left>>

PollLost ==
    \E j \in readings :
        /\ left.losses > 0
        /\ left' = [left EXCEPT !.losses = @ - 1]
        /\ readings' = readings \ {j}
        /\ UNCHANGED <<site, upgradeRuns, card, ask, views>>
----------------------------------------------------------------------------
(* What the page offers.                                                   *)

Submitting   == ask.step # "none"
Instructed   == card.status.available # 0 /\ card.status.artifact
ShowsUpgrade == /\ card.status.updater # "absent"
                /\ \/ Live(card.job)
                   \/ /\ card.status.available # 0
                      /\ card.status.state \notin {"current", "updater_unavailable"}
UpgradeEnabled ==
    /\ ShowsUpgrade /\ ~Live(card.job) /\ ~Submitting
    /\ card.status.state = "available" /\ card.status.updater = "healthy"
ShowsInstructions ==
    /\ ~Live(card.job) /\ Instructed
    /\ card.status.updater # "healthy" \/ card.status.state = "updater_unavailable"

\* Why the button is disabled: an upgrade that runs, then the state's reason.
UpgradeReason ==
    IF ~ShowsUpgrade \/ UpgradeEnabled THEN "none"
    ELSE IF Live(card.job) THEN "running"
    ELSE IF card.status.state = "incompatible" THEN card.status.reason
    ELSE IF Submitting THEN "starting" ELSE card.status.state

\* Without rows of detail a reason stands next to the chip.
DisplayedReason(dense) ==
    IF UpgradeReason # "none" \/ ~dense THEN UpgradeReason
    ELSE IF card.status.state = "incompatible" THEN card.status.reason
    ELSE IF card.status.state = "release_unavailable" THEN "release_unavailable" ELSE "none"

\* What the live region says of the job shown.
Message ==
    CASE Live(card.job)                            -> "under way"
      [] card.job.stage = "succeeded"              -> "confirmed by a heartbeat"
      [] card.job.stage = "rolled_back"            -> "previous build verified"
      [] card.job.stage = "rollback_unverified"    -> "inspect the host"
      [] card.job.stage = "failed"                 -> "failed before the swap"
      [] OTHER                                     -> "none"
----------------------------------------------------------------------------
(* The upgrade asked for.                                                  *)

OpenConfirm ==
    /\ UpgradeEnabled /\ ~card.dialog
    /\ card' = [card EXCEPT !.dialog = TRUE]
    /\ UNCHANGED <<site, upgradeRuns, ask, views, readings, left>>

CancelConfirm ==
    /\ card.dialog
    /\ card' = [card EXCEPT !.dialog = FALSE]
    /\ UNCHANGED <<site, upgradeRuns, ask, views, readings, left>>

\* Nothing happens when the status no longer names a release.
ConfirmUpgrade ==
    /\ card.dialog /\ card.status.available # 0 /\ ~Submitting
    /\ ask' = [NoAsk EXCEPT !.step = "sent", !.release = card.status.available]
    /\ UNCHANGED <<site, upgradeRuns, card, views, readings, left>>

CreateServed ==
    /\ ask.step = "sent"
    /\ LET verdict == Verdict(ask.release) IN
         /\ IF verdict = "created" THEN Queue(ask.release) ELSE UNCHANGED <<upgradeRuns, left>>
         /\ ask' = [ask EXCEPT !.step = "answered", !.answer = verdict,
                               !.run = CASE verdict = "created" ->
                                              [id |-> Len(upgradeRuns) + 1, stage |-> "queued", rev |-> 1]
                                         [] verdict = "active_job_exists" -> Newest
                                         [] OTHER -> NoRun]
    /\ UNCHANGED <<site, card, views, readings>>

\* The answer: the job, the way to the one that runs, or an error; a release
\* that changed has the status read again, with the dialog left open.
CreateAnswered ==
    /\ ask.step = "answered"
    /\ CASE ask.answer = "created" ->
              /\ card' = [card EXCEPT !.job = ask.run, !.dialog = FALSE]
              /\ readings' = PollsAfter(ask.run, readings)
              /\ views' = ViewsAfter(ask.run, views)
              /\ ask' = NoAsk
         [] ask.answer = "active_job_exists" ->
              /\ card' = [card EXCEPT !.dialog = FALSE]
              /\ ask' = [ask EXCEPT !.step = "reading", !.run = ReadRun(ask.run.id)]
              /\ UNCHANGED <<views, readings>>
         [] ask.answer = "release_changed" ->
              /\ views' = views \cup {View}
              /\ ask' = NoAsk
              /\ UNCHANGED <<card, readings>>
         [] ask.answer = "refused" ->
              /\ ask' = NoAsk
              /\ UNCHANGED <<card, views, readings>>
    /\ UNCHANGED <<site, upgradeRuns, left>>

\* The job that runs already is read once and shown, whatever is shown by then.
ExistingRead ==
    /\ ask.step = "reading"
    /\ card' = [card EXCEPT !.job = ask.run]
    /\ readings' = PollsAfter(ask.run, readings)
    /\ views' = ViewsAfter(ask.run, views)
    /\ ask' = NoAsk
    /\ UNCHANGED <<site, upgradeRuns, left>>

\* The request or its answer is lost; an existing job that cannot be read has
\* the status read again.
AskLost ==
    /\ Submitting /\ left.losses > 0
    /\ left' = [left EXCEPT !.losses = @ - 1]
    /\ views' = IF ask.step = "reading" THEN views \cup {View} ELSE views
    /\ ask' = NoAsk
    /\ UNCHANGED <<site, upgradeRuns, card, readings>>

\* The page is loaded anew: what was on its way is lost, a load begins.
ReloadCard ==
    /\ left.losses > 0
    /\ left' = [left EXCEPT !.losses = @ - 1]
    /\ card' = Blank /\ ask' = NoAsk /\ readings' = {} /\ views' = {View}
    /\ UNCHANGED <<site, upgradeRuns>>
----------------------------------------------------------------------------
CardInit ==
    /\ site \in Sites /\ upgradeRuns = <<>>
    /\ card = Blank /\ ask = NoAsk
    /\ views = {} /\ readings = {}
    /\ left \in Allowances

CardNext ==
    \/ QueuedElsewhere \/ RunMoves \/ SiteMoves
    \/ LoadStatus \/ (\E v \in views : StatusArrives(v)) \/ StatusLost
    \/ PollJob \/ (\E j \in readings : JobArrives(j)) \/ PollLost
    \/ OpenConfirm \/ CancelConfirm \/ ConfirmUpgrade
    \/ CreateServed \/ CreateAnswered \/ ExistingRead \/ AskLost
    \/ ReloadCard

\* Timers fire, and the requests that are not lost are answered.
CardFairness ==
    /\ WF_cardVars(LoadStatus) /\ WF_cardVars(\E v \in views : StatusArrives(v))
    /\ WF_cardVars(PollJob) /\ WF_cardVars(\E j \in readings : JobArrives(j))
    /\ WF_cardVars(CreateServed) /\ WF_cardVars(CreateAnswered) /\ WF_cardVars(ExistingRead)

----------------------------------------------------------------------------
(* Properties                                                              *)

CardTypeOK ==
    /\ site.build \in Nat /\ left.upgrades >= 0
      /\ card.job.id \in 0 .. Len(upgradeRuns)
    /\ ask.step \in {"none", "sent", "answered", "reading"}

\* "Every disabled state carries a concrete reason; no generic fallback": the
\* reason shown under a disabled button never contradicts the status, which
\* the server derives and the page takes apart again.
ReasonsAreTrue ==
    \A dense \in BOOLEAN :
      DisplayedReason(dense) \notin {"ok", "available", "current", "updater_unavailable"}

\* Whatever the status, the user is told why there is nothing to do or is
\* given the next step: the upgrade, the one that runs, or the manual way.
\* An agent of unknown build without updater and artifact is left out.
NoDeadEnd ==
    \/ card.status.state \in {"none", "current"} \/ UpgradeEnabled \/ Submitting \/ Live(card.job)
    \/ ShowsInstructions \/ DisplayedReason(TRUE) # "none"
    \/ (card.status.updater = "absent" /\ ~card.status.artifact /\ card.status.state = "unknown")

\* Polls under way are of the job shown while it lives, and no newer than the
\* server's; an outcome shown has been the server's outcome, and no message
\* denies a swap the API knows of.
ShownIsReal ==
    /\ readings # {} => Live(card.job)
    /\ \A j \in readings \cup {card.job} : j.id # 0 => j.rev <= upgradeRuns[j.id].rev
    /\ \A j \in readings : j.id = card.job.id
    /\ Over(card.job.stage) => Over(upgradeRuns[card.job.id].stage)
    /\ Message = "failed before the swap" => ~upgradeRuns[card.job.id].swapped

CardIsTrue == CardTypeOK /\ ReasonsAreTrue /\ NoDeadEnd /\ ShownIsReal

\* An outcome shown is not taken back by a poll or a status read before it;
\* only the answer to the user's own request may still say what was before.
OutcomeIsKept ==
    [][Over(card.job.stage) /\ card'.job.id = card.job.id /\ ~(Submitting /\ ask' = NoAsk)
         => card'.job.rev >= card.job.rev]_cardVars

\* The page catches up: again and again it shows the newest job as it is and
\* the host as it is, and no request keeps its button for ever.
CardCatchesUp == []<>(card.job = Newest /\ card.status = HostStatus) /\ []<>~Submitting

\* Violated: a status read before a job was created replaces it by the one before.
NewestIsKept == [][card.job.id # 0 /\ card'.job.id # 0 => card'.job.id >= card.job.id]_cardVars

\* Violated: the button of an open dialog does something.
DialogActs == card.dialog => card.status.available # 0

CardSpec == CardInit /\ [][CardNext]_cardVars /\ CardFairness
=============================================================================
