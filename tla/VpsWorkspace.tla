---------------------------- MODULE VpsWorkspace ----------------------------
(***************************************************************************)
(* The workspace of one VPS in the web dashboard (VpsWorkspaceLayout): the *)
(* jobs and audit events it shows are those of the dashboard, by VPS, over *)
(* a prefill that GETs of the VPS brought once.                            *)
(*                                                                         *)
(* The dashboard's lists change in three ways: a frame of the stream adds  *)
(* the jobs that changed, a load replaces them by the newest ListLimit     *)
(* rows, the snapshot of a stream by all jobs and by no audit event (the   *)
(* overview has none).  What may be old in them when they come is the      *)
(* subject of LiveDashboard; here they come as they are read.              *)
(*                                                                         *)
(* A job is a number (1 queued, then what its runner writes, Done at the   *)
(* end); its one audit event names its VPS and is recorded when it is      *)
(* created.  Left out: the metrics, whose prefill only serves until the    *)
(* dashboard has one, VPSs that go, events that name a job or a server     *)
(* label only, the cap of the audit trail, the counts of the summary, and  *)
(* rendering.                                                              *)
(***************************************************************************)
EXTENDS Integers, FiniteSets

CONSTANTS Servers,          \* the VPSs the user goes between
          OwnerOf,          \* the VPS of each job
          Done,             \* bound: the last state of a job
          ListLimit,        \* the default limit of a list
          HistoryLimit,     \* jobs a JSON file keeps (no job reaches it in Postgres)
          MaxVisits,        \* bound: changes of VPS
          MaxSyncs          \* bound: loads and snapshots

ASSUME WorkspaceAssumption ==
  /\ OwnerOf \in [DOMAIN OwnerOf -> Servers] /\ "elsewhere" \notin Servers
  /\ {Done, ListLimit} \subseteq Nat \ {0} /\ {HistoryLimit, MaxVisits, MaxSyncs} \subseteq Nat

VARIABLES truth,            \* [state, stored: the jobs stored; written, recorded: which job was
                            \*  written, which event recorded after which]
          dash,             \* the dashboard: [loaded, known, jobs, audit]
          news,             \* jobs changed since the last frame
          at,               \* the VPS in view
          booted,           \* VPSs whose prefill was asked for
          calls,            \* the GETs of the prefill, asked or read
          prefill,          \* what they brought, per VPS
          walked            \* what is used of the bounds

workVars == <<truth, dash, news, at, booted, calls, prefill, walked>>

Works     == DOMAIN OwnerOf
Scopes    == {"jobs", "audit"}
Elsewhere == "elsewhere"
NoWork    == [w \in Works |-> 0]
Empty     == [jobs |-> NoWork, audit |-> {}]
WorkOf(v) == {w \in Works : OwnerOf[w] = v}

Use(what, max) == walked[what] < max /\ walked' = [walked EXCEPT ![what] = @ + 1]

\* The newest n of the rows, `after' being the order they came in; a page of a
\* list, which shows the newest first.
NewestRows(rs, after, n) == {w \in rs : Cardinality({x \in rs : <<x, w>> \in after}) < n}
FirstRows(rs, after)     == NewestRows(rs, after, ListLimit)

\* The order once w comes after all others.
Front(after, w, rs) == {p \in after : w \notin {p[1], p[2]}} \cup {<<w, x>> : x \in rs \ {w}}

\* The audit trail, an event of each job that was created.
Trail == {w \in Works : truth.state[w] # 0}
States(ws) == [w \in Works |-> IF w \in ws THEN truth.state[w] ELSE 0]
----------------------------------------------------------------------------
(* The API's lists of one VPS.                                             *)

\* Faulty: the page is cut before the VPS's jobs are chosen.
JobsOfVps_CutFirst(v) == States(FirstRows(truth.stored, truth.written) \cap WorkOf(v))

\* The filter comes before the page.
JobsOfVps(v) == States(FirstRows(truth.stored \cap WorkOf(v), truth.written))

AuditOfVps(v) == FirstRows(Trail \cap WorkOf(v), truth.recorded)
----------------------------------------------------------------------------
(* What the workspace shows.                                               *)

\* Faulty: the prefill is laid over the dashboard's records.
MergeById_Bootstrap(global, bootstrap) ==
    [w \in Works |-> IF bootstrap[w] # 0 THEN bootstrap[w] ELSE global[w]]

MergeById(global, bootstrap) ==
    [w \in Works |-> IF global[w] # 0 THEN global[w] ELSE bootstrap[w]]

InView == at # Elsewhere /\ dash.loaded /\ dash.known

GlobalJobs   == [w \in Works |-> IF OwnerOf[w] = at THEN dash.jobs[w] ELSE 0]
ShownJobs    == MergeById(GlobalJobs, prefill[at].jobs)
GlobalAudit  == {e \in dash.audit : OwnerOf[e] = at}
ShownAudit   == GlobalAudit \cup prefill[at].audit
----------------------------------------------------------------------------
(* The effect that asks for the prefill.                                   *)

CallsFor(v) == {[vps |-> v, what |-> s, read |-> FALSE, found |-> Empty] : s \in Scopes}

\* It runs again for another VPS: the answers of the last one are dropped,
\* and a VPS is asked of once while the layout stays.
Boot(v, loaded, last) ==
    IF loaded /\ v # Elsewhere /\ v \notin last
    THEN booted' = last \cup {v} /\ calls' = CallsFor(v)
    ELSE booted' = last /\ calls' = {}

Enter ==
    \E v \in Servers \ {at} :
        /\ Use("visits", MaxVisits)
        /\ at' = v
        /\ Boot(v, dash.loaded, booted)
        /\ UNCHANGED <<truth, dash, news, prefill>>

\* The layout unmounts: its state goes.
LeaveWorkspace ==
    /\ at # Elsewhere /\ Use("visits", MaxVisits)
    /\ at' = Elsewhere /\ booted' = {} /\ calls' = {}
    /\ prefill' = [v \in Servers |-> Empty]
    /\ UNCHANGED <<truth, dash, news>>

Found(c) ==
    IF c.what = "jobs" THEN [Empty EXCEPT !.jobs = JobsOfVps(c.vps)]
    ELSE [Empty EXCEPT !.audit = AuditOfVps(c.vps)]

CallRead ==
    \E c \in calls :
        /\ ~c.read
        /\ calls' = (calls \ {c}) \cup {[c EXCEPT !.read = TRUE, !.found = Found(c)]}
        /\ UNCHANGED <<truth, dash, news, at, booted, prefill, walked>>

CallArrives ==
    \E c \in calls :
        /\ c.read
        /\ calls' = calls \ {c}
        /\ prefill' = [prefill EXCEPT ![c.vps] =
             IF c.what = "jobs" THEN [@ EXCEPT !.jobs = c.found.jobs]
             ELSE [@ EXCEPT !.audit = c.found.audit]]
        /\ UNCHANGED <<truth, dash, news, at, booted, walked>>

\* "Global data is fallback": nobody asks again.
CallMissed ==
    \E c \in calls :
        /\ calls' = calls \ {c}
        /\ UNCHANGED <<truth, dash, news, at, booted, prefill, walked>>
----------------------------------------------------------------------------
(* What the dashboard learns.                                              *)

Sync(d) ==
    /\ dash' = d
    /\ IF d.loaded /\ ~dash.loaded THEN Boot(at, TRUE, booted) ELSE UNCHANGED <<booted, calls>>
    /\ UNCHANGED <<truth, news, at, prefill>>

\* loadVps, the first of which ends the loading screen.
Load ==
    /\ Use("syncs", MaxSyncs)
    /\ Sync([dash EXCEPT !.loaded = TRUE, !.known = TRUE, !.audit = FirstRows(Trail, truth.recorded),
                         !.jobs = States(FirstRows(truth.stored, truth.written))])

\* The first load fails.
LoadLost == ~dash.loaded /\ Sync([dash EXCEPT !.loaded = TRUE]) /\ UNCHANGED walked

Snapshot ==
    /\ Use("syncs", MaxSyncs)
    /\ Sync([dash EXCEPT !.known = TRUE, !.jobs = States(truth.stored), !.audit = {}])

\* The frame of the jobs that changed, one trimmed since included.
JobsFrame ==
    /\ news # {}
    /\ dash' = [dash EXCEPT !.jobs = [w \in Works |-> IF w \in news THEN truth.state[w] ELSE @[w]]]
    /\ news' = {}
    /\ UNCHANGED <<truth, at, booted, calls, prefill, walked>>
----------------------------------------------------------------------------
(* What happens in the API.                                                *)

\* Active jobs are kept, and the last written of the finished ones up to the
\* limit.
Trimmed(rs, written, state) ==
    LET active == {w \in rs : state[w] < Done}
        kept   == NewestRows(rs \ active, written, HistoryLimit - Cardinality(active))
    IN  IF Cardinality(rs) > HistoryLimit THEN active \cup kept ELSE rs

WorkCreated ==
    \E w \in Works :
        /\ truth.state[w] = 0
        /\ LET state   == [truth.state EXCEPT ![w] = 1]
               written == Front(truth.written, w, truth.stored)
           IN  truth' = [state |-> state, stored |-> Trimmed(truth.stored \cup {w}, written, state),
                         written |-> written, recorded |-> Front(truth.recorded, w, Trail)]
        /\ news' = news \cup {w}
        /\ UNCHANGED <<dash, at, booted, calls, prefill, walked>>

\* The runner writes a job, which makes it the newest of the list.
WorkMoves ==
    \E w \in truth.stored :
        /\ truth.state[w] < Done
        /\ truth' = [truth EXCEPT !.state[w] = @ + 1,
                                  !.written = Front(@, w, truth.stored)]
        /\ news' = news \cup {w}
        /\ UNCHANGED <<dash, at, booted, calls, prefill, walked>>
----------------------------------------------------------------------------
WorkInit ==
    /\ truth = [state |-> NoWork, stored |-> {}, written |-> {}, recorded |-> {}]
    /\ dash = [loaded |-> FALSE, known |-> FALSE, jobs |-> NoWork, audit |-> {}]
    /\ news = {} /\ at = Elsewhere /\ booted = {} /\ calls = {}
    /\ prefill = [v \in Servers |-> Empty]
    /\ walked = [visits |-> 0, syncs |-> 0]

WorkNext ==
    \/ Enter \/ LeaveWorkspace \/ CallRead \/ CallArrives \/ CallMissed
    \/ Load \/ LoadLost \/ Snapshot \/ JobsFrame
    \/ WorkCreated \/ WorkMoves

WorkSpec == WorkInit /\ [][WorkNext]_workVars
----------------------------------------------------------------------------
WorkTypeOK ==
    /\ truth.state \in [Works -> 0 .. Done] /\ truth.stored \subseteq Trail
    /\ dash.jobs \in [Works -> 0 .. Done] /\ dash.audit \subseteq Works
    /\ at \in Servers \cup {Elsewhere} /\ booted \subseteq Servers
    /\ \A v \in Servers : prefill[v].jobs \in [Works -> 0 .. Done] /\ prefill[v].audit \subseteq Works

\* What the workspace shows is of the VPS in view, whatever was asked for
\* the one before; it invents no state of a job; and a VPS that has a job
\* stored has one in the list it was answered with, however busy the others
\* are.
WorkspaceIsOfTheHost ==
    /\ WorkTypeOK
    /\ \A c \in calls : c.vps = at
    /\ InView =>
         /\ \A w \in Works : ShownJobs[w] # 0 => OwnerOf[w] = at /\ ShownJobs[w] <= truth.state[w]
         /\ \A e \in ShownAudit : OwnerOf[e] = at
    /\ \A v \in Servers : truth.stored \cap WorkOf(v) # {} => JobsOfVps(v) # NoWork

\* A job in view goes back only with the dashboard, and an audit event that
\* the prefill brought stays when a snapshot empties the dashboard's list.
WorkspaceFollows ==
    [][InView /\ InView' /\ at' = at =>
         /\ \A w \in Works : ShownJobs'[w] < ShownJobs[w] => dash'.jobs[w] < dash.jobs[w]
         /\ prefill[at].audit \subseteq ShownAudit']_workVars
=============================================================================
