--------------------------- MODULE LiveDashboard ---------------------------
(***************************************************************************)
(* The live dashboard: the server-sent event stream of the API             *)
(* (monitoring.service.ts), the client that reads it (live-api.ts) and the *)
(* page that mixes it with its own reads (DashboardContext.tsx).           *)
(*                                                                         *)
(* A job is its version (1 queued, then what the runner writes), a metric  *)
(* a number that grows; the page shows one of each.  Three paths bring     *)
(* them to the page, and none carries a version: the snapshot a stream     *)
(* opens with, read after the job listener was added; the frames that      *)
(* follow; and the five GETs of loadVps, started by the user, an action or *)
(* a Docker invalidation.  Event ids are counted per process of the API    *)
(* and start over when it does.  The web client reconnects without         *)
(* Last-Event-ID, so that the replay buffer is never asked for (the        *)
(* controller does not read its ?cursor=).                                 *)
(*                                                                         *)
(* Left out: demo mode, the heartbeat that follows each metrics frame and  *)
(* the keepalives, a tick that would send the page what it already shows,  *)
(* the debounce times (a frame may leave at any moment), the wording of    *)
(* the status line.                                                        *)
(***************************************************************************)
EXTENDS Naturals, Sequences

CONSTANTS Jobs,             \* the jobs the page follows
          MaxVersion,       \* bound: the last version of a job
          MaxMetric,        \* bound: metrics pushed
          MaxDrops,         \* bound: connections lost and reads failed
          MaxRestarts,      \* bound: restarts of the API
          MaxLoads,         \* bound: loads, actions and Docker activities
          Background,       \* bound: background loads in flight at once, by name
          Grows             \* may what a frame carries outgrow its 32 KB

ASSUME LiveAssumption == /\ {MaxMetric, MaxDrops, MaxRestarts, MaxLoads} \subseteq Nat
                         /\ MaxVersion \in Nat \ {0} /\ Grows \in BOOLEAN
                         /\ Background # {} /\ "user" \notin Background

VARIABLES server,           \* [jobs, metric: what is stored, next: the next event id]
          stream,           \* the server's side of the page's stream
          wire,             \* its frames on their way
          listeners,        \* who is subscribed to the job activity
          scoped,           \* a client of the stream of one VPS
          page,             \* the client
          loads,            \* the loads in flight
          spent             \* what is used of the bounds

liveVars == <<server, stream, wire, listeners, scoped, page, loads, spent>>

Loaders  == {"user"} \cup Background  \* under busy (actions, refresh); not (mount, invalidations)
NoJobs   == [j \in Jobs |-> 0]
Unread   == [jobs |-> NoJobs, metric |-> 0, read |-> FALSE]
Closed   == [stage |-> "closed", pending |-> NoJobs, docker |-> FALSE, snap |-> Unread,
             tick |-> Unread, sent |-> MaxMetric + 1]
NoAction == "none"

Max2(a, b)     == IF a > b THEN a ELSE b
MergeJobs(f, g) == [j \in Jobs |-> IF g[j] = 0 THEN f[j] ELSE g[j]]
Stored         == [jobs |-> server.jobs, metric |-> server.metric, read |-> TRUE]
Occupied       == page.act # NoAction \/ loads["user"].stage # "idle"
----------------------------------------------------------------------------
(* The stream on the server.                                               *)

\* sendEvent gives every frame the next id of the process; a frame over
\* the limit keeps its type and loses its payload.  A hello is small, and a
\* Docker invalidation says the same without.
Frame(type, body, whole) ==
    LET said == IF whole THEN body ELSE Unread
    IN  [id |-> server.next, type |-> type, jobs |-> said.jobs, metric |-> said.metric, whole |-> whole]

\* Is a frame within the limit?  A snapshot has every job, the metrics every host, a
\* frame of jobs those that changed.
Fits == IF Grows THEN BOOLEAN ELSE {TRUE}

\* Every listener notes the job for its next frame.
Noted(jobs) == IF "page" \in listeners THEN [stream EXCEPT !.pending = MergeJobs(@, jobs)] ELSE stream

Send(type, body, whole) ==
    /\ wire' = Append(wire, Frame(type, body, whole))
    /\ server' = [server EXCEPT !.next = @ + 1]

\* The client opens a stream: the listener first, then hello.
Connect ==
    /\ page.link = "waiting"
    /\ stream' = [Closed EXCEPT !.stage = "reading"]
    /\ listeners' = listeners \cup {"page"}
    /\ Send("hello", Unread, TRUE)
    /\ page' = [page EXCEPT !.link = "up", !.status = "connecting", !.given = FALSE, !.missed = FALSE]
    /\ UNCHANGED <<scoped, loads, spent>>

ReadOverview ==
    /\ stream.stage = "reading" /\ ~stream.snap.read
    /\ stream' = [stream EXCEPT !.snap = Stored]
    /\ UNCHANGED <<server, wire, listeners, scoped, page, loads, spent>>

SendSnapshot ==
    /\ stream.stage = "reading" /\ stream.snap.read
    /\ \E whole \in Fits : Send("snapshot", stream.snap, whole)
    /\ stream' = [stream EXCEPT !.stage = "loop", !.snap = Unread]
    /\ UNCHANGED <<listeners, scoped, page, loads, spent>>

\* The loop: one tick at a time reads, then sends; one that fails is the
\* last of its stream, which stays open.
StartTick ==
    /\ stream.stage = "loop" /\ ~stream.tick.read
    /\ server.metric # stream.sent \/ (wire = <<>> /\ page.metric # stream.sent)   \* isFirstTick: MaxMetric + 1
    /\ stream' = [stream EXCEPT !.tick = Stored]
    /\ UNCHANGED <<server, wire, listeners, scoped, page, loads, spent>>

\* Faulty: the flag of the tick in flight stays set.
SendTick_Once ==
    /\ stream.stage = "loop" /\ stream.tick.read /\ stream.sent # stream.tick.metric
    /\ \E whole \in Fits : Send("metrics", [stream.tick EXCEPT !.jobs = NoJobs], whole)
    /\ stream' = [stream EXCEPT !.sent = stream.tick.metric]
    /\ UNCHANGED <<listeners, scoped, page, loads, spent>>

SendTick ==
    /\ stream.stage = "loop" /\ stream.tick.read
    /\ \E whole \in Fits : Send("metrics", [stream.tick EXCEPT !.jobs = NoJobs], whole)
    /\ stream' = [stream EXCEPT !.tick = Unread, !.sent = stream.tick.metric]
    /\ UNCHANGED <<listeners, scoped, page, loads, spent>>

TickFails ==
    /\ stream.stage = "loop" /\ stream.tick.read /\ spent.drops < MaxDrops
    /\ stream' = [stream EXCEPT !.stage = "dead", !.tick = Unread]
    /\ spent' = [spent EXCEPT !.drops = @ + 1]
    /\ UNCHANGED <<server, wire, listeners, scoped, page, loads>>

\* Faulty: the debounced frame leaves out what came before the snapshot.
Flush_Loop ==
    /\ stream.stage # "closed" /\ stream.pending # NoJobs
    /\ IF stream.stage = "reading" THEN UNCHANGED <<wire, server>>
       ELSE \E whole \in Fits : Send("jobs", [Unread EXCEPT !.jobs = stream.pending], whole)
    /\ stream' = [stream EXCEPT !.pending = NoJobs]
    /\ UNCHANGED <<listeners, scoped, page, loads, spent>>

\* The debounced frames: the changed jobs, and the Docker invalidation.
Flush ==
    /\ stream.stage # "closed" /\ stream.pending # NoJobs
    /\ \E whole \in Fits : Send("jobs", [Unread EXCEPT !.jobs = stream.pending], whole)
    /\ stream' = [stream EXCEPT !.pending = NoJobs]
    /\ UNCHANGED <<listeners, scoped, page, loads, spent>>

FlushDocker ==
    /\ stream.stage # "closed" /\ stream.docker
    /\ Send("docker", Unread, TRUE)
    /\ stream' = [stream EXCEPT !.docker = FALSE]
    /\ UNCHANGED <<listeners, scoped, page, loads, spent>>
----------------------------------------------------------------------------
(* What changes behind it.                                                 *)

\* The runner moves a job on; write and publication are one turn.
JobMoves ==
    \E j \in Jobs :
        /\ server.jobs[j] \in 1 .. MaxVersion - 1
        /\ LET jobs == [server.jobs EXCEPT ![j] = @ + 1]
           IN  /\ server' = [server EXCEPT !.jobs = jobs]
               /\ stream' = Noted([NoJobs EXCEPT ![j] = jobs[j]])
        /\ UNCHANGED <<wire, listeners, scoped, page, loads, spent>>

MetricArrives ==
    /\ server.metric < MaxMetric
    /\ server' = [server EXCEPT !.metric = @ + 1]
    /\ UNCHANGED <<stream, wire, listeners, scoped, page, loads, spent>>

DockerNews ==
    /\ spent.loads < MaxLoads /\ stream.stage # "closed"
    /\ stream' = [stream EXCEPT !.docker = TRUE]
    /\ spent' = [spent EXCEPT !.loads = @ + 1]
    /\ UNCHANGED <<server, wire, listeners, scoped, page, loads>>

----------------------------------------------------------------------------
(* The client and the page.                                                *)

Show(p, jobs, metric) ==
    [p EXCEPT !.jobs = jobs, !.metric = metric, !.best = [j \in Jobs |-> Max2(@[j], jobs[j])]]

\* What a frame does to the page: a snapshot replaces, the others merge.
Apply(p, f) ==
    CASE f.type = "snapshot" -> Show(p, f.jobs, f.metric)
      [] f.type = "metrics"  -> Show(p, p.jobs, f.metric)
      [] f.type = "jobs"     -> Show(p, MergeJobs(p.jobs, f.jobs), p.metric)
      [] f.type = "docker"   -> [p EXCEPT !.timer = TRUE]
      [] OTHER               -> p

\* Both ends let go of the stream: the listeners are removed.
Hangup ==
    /\ stream' = Closed
    /\ wire' = <<>>
    /\ listeners' = listeners \ {"page"}

\* A frame arrives.  One whose id is not above the cursor is dropped; one
\* without payload breaks the page: its updater throws while rendering,
\* and no error boundary keeps the tree.
Receive ==
    /\ page.link = "up" /\ wire # <<>>
    /\ LET f == Head(wire)
           heard == [page EXCEPT !.cursor = f.id, !.status = "live",
                                 !.given = @ \/ f.type = "snapshot"]
       IN  \/ /\ f.id <= page.cursor
              /\ page' = [page EXCEPT !.missed = TRUE, !.given = @ \/ f.type = "snapshot"]
              /\ wire' = Tail(wire)
              /\ UNCHANGED <<stream, listeners>>
           \/ /\ f.id > page.cursor /\ f.whole
              /\ page' = Apply(heard, f)
              /\ wire' = Tail(wire)
              /\ UNCHANGED <<stream, listeners>>
           \/ /\ f.id > page.cursor /\ ~f.whole
              /\ page' = [heard EXCEPT !.link = "left", !.broken = TRUE]
              /\ Hangup
    /\ UNCHANGED <<server, scoped, loads, spent>>

\* The connection breaks, or the overview of a snapshot cannot be read:
\* onerror schedules another connection.
Drop ==
    /\ page.link = "up" /\ spent.drops < MaxDrops
    /\ Hangup
    /\ page' = [page EXCEPT !.link = "waiting", !.status = "reconnecting"]
    /\ spent' = [spent EXCEPT !.drops = @ + 1]
    /\ UNCHANGED <<server, scoped, loads>>

\* The API is started again: the ids start over, what was in flight fails.
Restart ==
    /\ spent.restarts < MaxRestarts
    /\ stream' = Closed /\ wire' = <<>> /\ listeners' = {}
    /\ server' = [server EXCEPT !.next = 1]
    /\ scoped' = IF scoped = "none" THEN "none" ELSE "closed"
    /\ page' = [page EXCEPT !.link = IF @ = "up" THEN "waiting" ELSE @,
                            !.status = IF page.link = "up" THEN "reconnecting" ELSE @,
                            !.act = NoAction]
    /\ loads' = [l \in Loaders |-> [stage |-> "idle", got |-> Unread]]
    /\ spent' = [spent EXCEPT !.restarts = @ + 1]

\* Unmounted, or signed out.
Leave ==
    /\ page.link # "left"
    /\ page' = [page EXCEPT !.link = "left"]
    /\ Hangup
    /\ UNCHANGED <<server, scoped, loads, spent>>

\* An action of the user creates a job; its answer is merged as "queued",
\* and a load follows under the same busy flag.
Act ==
    \E j \in Jobs :
        /\ page.link # "left" /\ ~Occupied /\ spent.loads < MaxLoads /\ server.jobs[j] = 0
        /\ server' = [server EXCEPT !.jobs[j] = 1]
        /\ stream' = Noted([NoJobs EXCEPT ![j] = 1])
        /\ page' = [page EXCEPT !.act = j]
        /\ spent' = [spent EXCEPT !.loads = @ + 1]
        /\ UNCHANGED <<wire, listeners, scoped, loads>>

Answered ==
    /\ page.act # NoAction
    /\ page' = [Show(page, [page.jobs EXCEPT ![page.act] = 1], page.metric) EXCEPT !.act = NoAction]
    /\ loads' = [loads EXCEPT !["user"].stage = "asked"]
    /\ UNCHANGED <<server, stream, wire, listeners, scoped, spent>>

ActFails ==
    /\ page.act # NoAction /\ spent.drops < MaxDrops
    /\ page' = [page EXCEPT !.act = NoAction]
    /\ spent' = [spent EXCEPT !.drops = @ + 1]
    /\ UNCHANGED <<server, stream, wire, listeners, scoped, loads>>

Refresh ==
    /\ page.link # "left" /\ ~Occupied /\ spent.loads < MaxLoads
    /\ loads' = [loads EXCEPT !["user"].stage = "asked"]
    /\ spent' = [spent EXCEPT !.loads = @ + 1]
    /\ UNCHANGED <<server, stream, wire, listeners, scoped, page>>

\* The invalidation's timer: a load that neither the busy flag nor an earlier
\* load holds back.
InvalidationDue ==
    /\ page.timer /\ page.link # "left"
    /\ page' = [page EXCEPT !.timer = FALSE]
    /\ \E l \in Background : /\ loads[l].stage = "idle"
                            /\ loads' = [loads EXCEPT ![l].stage = "asked"]
    /\ UNCHANGED <<server, stream, wire, listeners, scoped, spent>>

\* loadVps: the GETs are answered, and what they said replaces the page.
LoadRead ==
    \E l \in Loaders :
        /\ loads[l].stage = "asked"
        /\ loads' = [loads EXCEPT ![l] = [stage |-> "read", got |-> Stored]]
        /\ UNCHANGED <<server, stream, wire, listeners, scoped, page, spent>>

LoadDone ==
    \E l \in Loaders :
        /\ loads[l].stage = "read"
        /\ page' = Show(page, loads[l].got.jobs, loads[l].got.metric)
        /\ loads' = [loads EXCEPT ![l] = [stage |-> "idle", got |-> Unread]]
        /\ UNCHANGED <<server, stream, wire, listeners, scoped, spent>>

LoadFails ==
    \E l \in Loaders :
        /\ loads[l].stage # "idle" /\ spent.drops < MaxDrops
        /\ loads' = [loads EXCEPT ![l] = [stage |-> "idle", got |-> Unread]]
        /\ spent' = [spent EXCEPT !.drops = @ + 1]
        /\ UNCHANGED <<server, stream, wire, listeners, scoped, page>>
----------------------------------------------------------------------------
(* The stream of one VPS reads the overview before it adds anything, the   *)
(* handlers that would remove the listener included.  It shares nothing    *)
(* with the page but the listeners: a behaviour has the one or the other.  *)

ScopedOpens ==
    /\ scoped \in {"reading", "left"}
    /\ scoped' = IF scoped = "reading" THEN "open" ELSE "leaked"
    /\ listeners' = listeners \cup {"scoped"}
    /\ UNCHANGED <<server, stream, wire, page, loads, spent>>

ScopedLeaves ==
    /\ scoped \in {"reading", "open"}
    /\ scoped' = IF scoped = "reading" THEN "left" ELSE "closed"
    /\ listeners' = listeners \ {"scoped"}
    /\ UNCHANGED <<server, stream, wire, page, loads, spent>>
----------------------------------------------------------------------------
LiveInit ==
    /\ server = [jobs |-> NoJobs, metric |-> 0, next |-> 1]
    /\ stream = Closed
    /\ wire = <<>>
    /\ listeners = {}
    /\ scoped \in {"none", "reading"}
    /\ page = [link |-> IF scoped = "none" THEN "waiting" ELSE "left", cursor |-> 0, status |-> "connecting", jobs |-> NoJobs,
               metric |-> 0, best |-> NoJobs, given |-> FALSE, missed |-> FALSE,
               broken |-> FALSE, timer |-> FALSE, act |-> NoAction]
    /\ LET first == CHOOSE b \in Background : TRUE IN
         loads = [l \in Loaders |-> [stage |-> IF l = first /\ scoped = "none" THEN "asked" ELSE "idle",
                                    got |-> Unread]]
    /\ spent = [drops |-> 0, restarts |-> 0, loads |-> 0]

LiveNext ==
    \/ Connect \/ ReadOverview \/ SendSnapshot \/ StartTick \/ SendTick \/ TickFails
    \/ Flush \/ FlushDocker \/ JobMoves \/ MetricArrives \/ DockerNews
    \/ Receive \/ Drop \/ Restart \/ Leave \/ Act \/ Answered \/ ActFails \/ Refresh
    \/ InvalidationDue \/ LoadRead \/ LoadDone \/ LoadFails
    \/ ScopedOpens \/ ScopedLeaves

LiveSpec == LiveInit /\ [][LiveNext]_liveVars

\* The event loop of the API goes on, the browser delivers and reconnects,
\* requests are answered; nothing makes a user act or a job move.
LiveFairness ==
    /\ WF_liveVars(Connect) /\ WF_liveVars(ReadOverview) /\ WF_liveVars(SendSnapshot)
    /\ WF_liveVars(StartTick) /\ WF_liveVars(SendTick)
    /\ WF_liveVars(Flush) /\ WF_liveVars(FlushDocker) /\ WF_liveVars(Receive)
    /\ WF_liveVars(Answered) /\ WF_liveVars(InvalidationDue)
    /\ WF_liveVars(LoadRead) /\ WF_liveVars(LoadDone)

LiveFairSpec == LiveSpec /\ LiveFairness
----------------------------------------------------------------------------
LiveData == [jobs : [Jobs -> 0 .. MaxVersion], metric : 0 .. MaxMetric, read : BOOLEAN]

LiveTypeOK ==
    /\ server \in [jobs : [Jobs -> 0 .. MaxVersion], metric : 0 .. MaxMetric,
                   next : Nat \ {0}]
    /\ stream.stage \in {"closed", "reading", "loop", "dead"}
    /\ stream.pending \in [Jobs -> 0 .. MaxVersion] /\ stream.snap \in LiveData
    /\ stream.tick \in LiveData /\ stream.sent \in 0 .. MaxMetric + 1 /\ stream.docker \in BOOLEAN
    /\ \A i \in 1 .. Len(wire) : wire[i].type \in {"hello", "snapshot", "metrics", "jobs", "docker"}
    /\ listeners \subseteq {"page", "scoped"}
    /\ scoped \in {"none", "reading", "left", "open", "closed", "leaked"}
    /\ page.link \in {"waiting", "up", "left"} /\ page.cursor \in Nat
    /\ page.jobs \in [Jobs -> 0 .. MaxVersion] /\ page.metric \in 0 .. MaxMetric
    /\ page.act \in Jobs \cup {NoAction}
    /\ \A l \in Loaders : loads[l].stage \in {"idle", "asked", "read"} /\ loads[l].got \in LiveData

\* Nothing is on its way to a page whose stream delivers.
Quiet == /\ page.link = "up" /\ ~page.missed
         /\ stream.stage \in {"loop", "dead"} /\ stream.pending = NoJobs /\ wire = <<>>

\* No change of a job is lost between the stream's listener, its debounce,
\* its snapshot and the reconnections: once a page that dropped no frame is
\* quiet it has shown the newest state of every job.  (It may have gone
\* back since: an older read that is answered late overwrites it, which
\* nothing corrects.)
NewestWasShown == Quiet => page.best = server.jobs

\* Who is subscribed has a response open; the one exception is the client
\* of a VPS's stream that left while its overview was being read.
ListenersAreOpen ==
    /\ "page" \in listeners <=> stream.stage # "closed"
    /\ "scoped" \in listeners <=> scoped \in {"open", "leaked"}

\* The events of a stream reach the page in the order they were given, also
\* across reconnections: what is on the wire is ahead of everything the
\* page has accepted, unless the API has started over.
NothingIsReplayed ==
    spent.restarts = 0 => \A i \in 1 .. Len(wire) :
        wire[i].id > page.cursor /\ \A k \in 1 .. i - 1 : wire[k].id < wire[i].id

\* The stream as a whole: nothing lost, nothing replayed, nobody left
\* listening.
StreamIsWhole == LiveTypeOK /\ NewestWasShown /\ ListenersAreOpen /\ NothingIsReplayed

\* "Otherwise send an authoritative hello and snapshot": a page that was
\* delivered the snapshot of its stream is live.
SnapshotIsHeard == page.given /\ page.link = "up" => page.status = "live"

\* A page that stays catches up: it shows the latest metric and has shown
\* the newest state of every job, unless it dropped frames, its stream's
\* loop died or the page broke.
PageCatchesUp ==
    <>[](\/ page.link = "left" \/ page.missed
         \/ page.best = server.jobs /\ (page.metric = server.metric \/ stream.stage = "dead"))
=============================================================================
