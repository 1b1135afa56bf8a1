--------------------------- MODULE WebPages_proofs ---------------------------
(***************************************************************************)
(* Theorems about the pages of the web dashboard and the catalogue behind  *)
(* them, for every set of VPSs, containers, jobs and releases and every    *)
(* value of the bounds.                                                    *)
(*   - LiveDashboard: the newest version of a job was shown or is on its   *)
(*     way, and frames are numbered as they are sent (LiveInv).            *)
(*   - DockerPage: what an effect asked is of the VPS shown (PageInv).     *)
(*   - DockerPanel: a key belongs to one VPS, and while the page stays on  *)
(*     its VPS one thing is asked at a time (PanelInv).                    *)
(*   - UpgradeCard: what the page holds of a job was once so, and jobs     *)
(*     only go on (CardInv).                                               *)
(*   - ReleaseCatalog: a snapshot kept was verified, and who waits, waits  *)
(*     for a refresh (CatalogInv).                                         *)
(*   - VpsWorkspace: what was brought is of its VPS, and in every set of   *)
(*     rows one is the newest (WorkInv).                                   *)
(* The last part lifts them to the behaviours of MCWeb, where one of the   *)
(* modules takes its steps.                                                *)
(***************************************************************************)
EXTENDS MCWeb, FiniteSetTheorems, TLAPS

-----------------------------------------------------------------------------
(* LiveDashboard *)

\* The versions of the jobs; a frame; the server, its stream, the page, a load.
Versions   == [Jobs -> 0 .. MaxVersion]
FrameTypes == {"hello", "snapshot", "metrics", "jobs", "docker"}
FrameOf    == [id : Nat \ {0}, type : FrameTypes, jobs : Versions, metric : 0 .. MaxMetric, whole : BOOLEAN]
ServerOf   == [jobs : Versions, metric : 0 .. MaxMetric, next : Nat \ {0}]
StreamOf   == [stage : {"closed", "reading", "loop", "dead"}, pending : Versions, docker : BOOLEAN,
               snap : LiveData, tick : LiveData, sent : 0 .. MaxMetric + 1]
PageOf     == [link : {"waiting", "up", "left"}, cursor : Nat, status : {"connecting", "live", "reconnecting"},
               jobs : Versions, metric : 0 .. MaxMetric, best : Versions, given : BOOLEAN, missed : BOOLEAN,
               broken : BOOLEAN, timer : BOOLEAN, act : Jobs \cup {NoAction}]
LoadOf     == [stage : {"idle", "asked", "read"}, got : LiveData]

\* What the API, the stream and the page hold has its type.
LiveIsTyped ==
  /\ server \in ServerOf /\ stream \in StreamOf /\ wire \in Seq(FrameOf)
  /\ listeners \subseteq {"page", "scoped"}
  /\ scoped \in {"none", "reading", "left", "open", "closed", "leaked"}
  /\ page \in PageOf /\ loads \in [Loaders -> LoadOf]
  /\ spent \in [drops : Nat, restarts : Nat, loads : Nat]

\* Versions that are no newer than the jobs.
Known(f, jobs) == \A j \in Jobs : f[j] <= jobs[j]

\* Nothing that was read, sent or shown is newer than the jobs are.
NothingIsAhead ==
  /\ Known(stream.pending, server.jobs) /\ Known(stream.snap.jobs, server.jobs) /\ Known(stream.tick.jobs, server.jobs)
  /\ \A i \in 1 .. Len(wire) : Known(wire[i].jobs, server.jobs)
  /\ Known(page.jobs, server.jobs) /\ Known(page.best, server.jobs)
  /\ \A l \in Loaders : Known(loads[l].got.jobs, server.jobs)
  /\ page.act # NoAction => server.jobs[page.act] # 0

\* A frame brings a version of a job, or without its payload breaks the page.
Brings(f, j, version) ==
  ~ f.whole \/ (f.type \in {"snapshot", "jobs"} /\ f.jobs[j] = version)

\* The newest version of a job was shown, waits for its debounce, is on the
\* wire, or is in the overview the stream opens with.
IsOnItsWay(j) ==
  \/ page.best[j] = server.jobs[j]
  \/ stream.pending[j] = server.jobs[j]
  \/ \E i \in 1 .. Len(wire) : Brings(wire[i], j, server.jobs[j])
  \/ stream.stage = "reading" /\ (stream.snap.read => stream.snap.jobs[j] = server.jobs[j])

NewestIsOnItsWay == page.link = "up" /\ ~ page.missed => \A j \in Jobs : IsOnItsWay(j)

\* A page that is up has a stream, and the other way round; no stream, no frames.
StreamIsThePages ==
  /\ page.link = "up" <=> stream.stage # "closed"
  /\ stream.stage = "closed" => wire = <<>>

\* Frames are numbered as they are sent, from the next id of the process.
IdsGrow ==
  /\ \A i \in 1 .. Len(wire) : wire[i].id < server.next /\ \A k \in 1 .. i - 1 : wire[k].id < wire[i].id
  /\ spent.restarts = 0 =>
       page.cursor < server.next /\ \A i \in 1 .. Len(wire) : page.cursor < wire[i].id

\* The inductive invariant of the stream.
LiveInv == LiveIsTyped /\ NothingIsAhead /\ NewestIsOnItsWay /\ StreamIsThePages /\ ListenersAreOpen /\ IdsGrow

\* The bounds are numbers, and there is a version and a metric to begin with.
LEMMA LiveBounds ==
  /\ MaxVersion \in Nat \ {0} /\ MaxMetric \in Nat /\ 0 \in 0 .. MaxVersion /\ 0 \in 0 .. MaxMetric
  /\ NoJobs \in Versions /\ (\A j \in Jobs : NoJobs[j] = 0)
  /\ Unread \in LiveData /\ Unread.jobs = NoJobs /\ ~ Unread.read
<1>1. MaxVersion \in Nat \ {0} /\ MaxMetric \in Nat /\ 0 \in 0 .. MaxVersion /\ 0 \in 0 .. MaxMetric
  BY LiveAssumption
<1>2. NoJobs \in Versions /\ \A j \in Jobs : NoJobs[j] = 0
  BY <1>1 DEF NoJobs, Versions
<1> QED
  BY <1>1, <1>2 DEF Unread, LiveData, Versions

\* No jobs are known of any.
LEMMA NothingIsKnown == \A jobs \in Versions : Known(NoJobs, jobs) /\ Known(jobs, jobs)
<1> SUFFICES ASSUME NEW jobs \in Versions, NEW j \in Jobs PROVE NoJobs[j] <= jobs[j] /\ jobs[j] <= jobs[j]
  BY DEF Known
<1>1. NoJobs[j] = 0
  BY DEF NoJobs
<1>2. jobs[j] \in Nat
  BY LiveBounds DEF Versions
<1> QED
  BY <1>1, <1>2

\* What is known stays known, and nothing is known of any jobs.
LEMMA KnownStays ==
  ASSUME NEW old \in Versions, NEW new \in Versions, Known(old, new)
  PROVE  Known(NoJobs, new) /\ Known(new, new) /\ \A f \in Versions : Known(f, old) => Known(f, new)
BY LiveBounds DEF Known, Versions

\* What is merged of two is known if both are, and is a list of versions.
LEMMA VersionsMerge ==
  ASSUME NEW f \in Versions, NEW g \in Versions
  PROVE  /\ MergeJobs(f, g) \in Versions
         /\ \A j \in Jobs : MergeJobs(f, g)[j] = IF g[j] = 0 THEN f[j] ELSE g[j]
         /\ \A jobs : Known(f, jobs) /\ Known(g, jobs) => Known(MergeJobs(f, g), jobs)
BY DEF MergeJobs, Versions, Known

\* What the page shows next is of its type, and the best it showed the newer of both.
LEMMA PageShows ==
  ASSUME NEW p \in PageOf, NEW jobs \in Versions, NEW metric \in 0 .. MaxMetric
  PROVE  /\ Show(p, jobs, metric) \in PageOf /\ Show(p, jobs, metric).jobs = jobs
         /\ \A j \in Jobs : Show(p, jobs, metric).best[j] = Max2(p.best[j], jobs[j])
         /\ Show(p, jobs, metric).link = p.link /\ Show(p, jobs, metric).missed = p.missed
         /\ Show(p, jobs, metric).cursor = p.cursor /\ Show(p, jobs, metric).act = p.act
<1> DEFINE best == [j \in Jobs |-> Max2(p.best[j], jobs[j])]
<1>1. p.best \in Versions
  BY DEF PageOf
<1>2. best \in Versions
  BY <1>1 DEF Max2, Versions
<1>3. \A j \in Jobs : best[j] = Max2(p.best[j], jobs[j])
  OBVIOUS
<1>4. Show(p, jobs, metric) = [p EXCEPT !.jobs = jobs, !.metric = metric, !.best = best]
  BY DEF Show
<1> HIDE DEF best
<1>5. Show(p, jobs, metric) =
        [link |-> p.link, cursor |-> p.cursor, status |-> p.status, jobs |-> jobs, metric |-> metric, best |-> best,
         given |-> p.given, missed |-> p.missed, broken |-> p.broken, timer |-> p.timer, act |-> p.act]
  BY <1>4 DEF PageOf
<1> QED
  BY <1>2, <1>3, <1>5 DEF PageOf

\* A stream that is closed.
LEMMA ClosedStream ==
  /\ Closed \in StreamOf /\ Closed.stage = "closed" /\ Closed.pending = NoJobs
  /\ Closed.snap = Unread /\ Closed.tick = Unread
<1>1. MaxMetric + 1 \in 0 .. MaxMetric + 1
  BY LiveBounds
<1> QED
  BY <1>1, LiveBounds DEF Closed, StreamOf

\* The page opens with nothing shown.
LEMMA LiveOpens == LiveInit => LiveInv
<1> SUFFICES ASSUME LiveInit PROVE LiveInv
  OBVIOUS
<1>1. /\ server = [jobs |-> NoJobs, metric |-> 0, next |-> 1] /\ stream = Closed /\ wire = <<>>
      /\ listeners = {} /\ scoped \in {"none", "reading"}
      /\ spent = [drops |-> 0, restarts |-> 0, loads |-> 0]
  BY DEF LiveInit
<1>2. page \in PageOf /\ page.link # "up" /\ page.jobs = NoJobs /\ page.best = NoJobs /\ page.act = NoAction /\ page.cursor = 0
  <2> DEFINE link == IF scoped = "none" THEN "waiting" ELSE "left"
  <2>1. page = [link |-> link, cursor |-> 0, status |-> "connecting", jobs |-> NoJobs, metric |-> 0, best |-> NoJobs,
                given |-> FALSE, missed |-> FALSE, broken |-> FALSE, timer |-> FALSE, act |-> NoAction]
    BY DEF LiveInit
  <2>2. link \in {"waiting", "left"}
    OBVIOUS
  <2> HIDE DEF link
  <2> QED
    BY <2>1, <2>2, LiveBounds DEF PageOf
<1>3. loads \in [Loaders -> LoadOf] /\ \A l \in Loaders : loads[l].got = Unread
  BY <1>1, LiveBounds DEF LiveInit, LoadOf
<1>4. server \in ServerOf /\ server.jobs = NoJobs /\ server.next = 1
  BY <1>1, LiveBounds DEF ServerOf
<1>5. LiveIsTyped
  BY <1>1, <1>2, <1>3, <1>4, ClosedStream DEF LiveIsTyped
<1>6. Known(NoJobs, NoJobs)
  BY LiveBounds, NothingIsKnown
<1>7. NothingIsAhead
  <2>1. Known(stream.pending, server.jobs) /\ Known(stream.snap.jobs, server.jobs) /\ Known(stream.tick.jobs, server.jobs)
    BY <1>1, <1>4, <1>6, ClosedStream, LiveBounds
  <2>2. \A l \in Loaders : Known(loads[l].got.jobs, server.jobs)
    BY <1>3, <1>4, <1>6, LiveBounds
  <2>3. Len(wire) = 0
    BY <1>1
  <2> QED
    BY <1>2, <1>4, <1>6, <2>1, <2>2, <2>3 DEF NothingIsAhead
<1>8. NewestIsOnItsWay /\ StreamIsThePages /\ ListenersAreOpen /\ IdsGrow
  BY <1>1, <1>2, <1>4, ClosedStream DEF NewestIsOnItsWay, StreamIsThePages, ListenersAreOpen, IdsGrow
<1> QED
  BY <1>5, <1>7, <1>8 DEF LiveInv

\* A frame that is sent is the last on the wire, and has the next id.
LEMMA FrameSent ==
  ASSUME LiveInv, NEW type \in FrameTypes, NEW body \in LiveData, NEW whole \in BOOLEAN,
         Known(body.jobs, server.jobs), Send(type, body, whole)
  PROVE  /\ server' \in ServerOf /\ server'.jobs = server.jobs
         /\ wire' \in Seq(FrameOf) /\ \A i \in 1 .. Len(wire') : Known(wire'[i].jobs, server.jobs)
         /\ type \in {"snapshot", "jobs"} =>
              \A j \in Jobs : \E i \in 1 .. Len(wire') : Brings(wire'[i], j, body.jobs[j])
         /\ \A i \in 1 .. Len(wire) : i \in 1 .. Len(wire') /\ wire'[i] = wire[i]
         /\ \A i \in 1 .. Len(wire') : wire'[i].id < server'.next /\ \A k \in 1 .. i - 1 : wire'[k].id < wire'[i].id
         /\ spent.restarts = 0 =>
              page.cursor < server'.next /\ \A i \in 1 .. Len(wire') : page.cursor < wire'[i].id
<1> DEFINE f == Frame(type, body, whole)
<1>1. server \in ServerOf /\ wire \in Seq(FrameOf) /\ server.next \in Nat \ {0} /\ page.cursor \in Nat
  BY DEF LiveInv, LiveIsTyped, ServerOf, PageOf
<1>2. /\ f \in FrameOf /\ f.id = server.next /\ Known(f.jobs, server.jobs)
      /\ type \in {"snapshot", "jobs"} => \A j \in Jobs : Brings(f, j, body.jobs[j])
  <2> DEFINE said == IF whole THEN body ELSE Unread
  <2>1. server.jobs \in Versions
    BY <1>1 DEF ServerOf
  <2>2. said \in LiveData /\ Known(said.jobs, server.jobs) /\ (whole => said = body)
    BY <2>1, LiveBounds, NothingIsKnown
  <2>3. f = [id |-> server.next, type |-> type, jobs |-> said.jobs, metric |-> said.metric, whole |-> whole]
    BY DEF Frame
  <2> HIDE DEF said, f
  <2>4. f \in FrameOf /\ f.id = server.next /\ f.jobs = said.jobs /\ f.type = type /\ f.whole = whole
    BY <1>1, <2>2, <2>3 DEF FrameOf, LiveData, Versions
  <2>5. CASE whole = TRUE
    BY <2>2, <2>4, <2>5 DEF Brings
  <2>6. CASE whole = FALSE
    BY <2>2, <2>4, <2>6 DEF Brings
  <2> QED
    BY <2>5, <2>6
<1>3. wire' = Append(wire, f) /\ server' = [server EXCEPT !.next = @ + 1]
  BY DEF Send
<1> HIDE DEF f
<1>4. server' \in ServerOf /\ server'.jobs = server.jobs /\ server'.next = server.next + 1
  BY <1>1, <1>3 DEF ServerOf
<1>5. /\ wire' \in Seq(FrameOf) /\ Len(wire') = Len(wire) + 1 /\ Len(wire) \in Nat /\ wire'[Len(wire) + 1] = f
      /\ \A i \in 1 .. Len(wire) : wire'[i] = wire[i]
  BY <1>1, <1>2, <1>3
<1>6. \A i \in 1 .. Len(wire) : wire[i].id \in Nat
  <2>1. \A i \in 1 .. Len(wire) : wire[i] \in FrameOf
    BY <1>1
  <2> QED
    BY <2>1 DEF FrameOf
<1>7. IdsGrow /\ \A i \in 1 .. Len(wire) : Known(wire[i].jobs, server.jobs)
  BY DEF LiveInv, NothingIsAhead
<1>8. \A i \in 1 .. Len(wire') : i \in 1 .. Len(wire) \/ i = Len(wire) + 1
  BY <1>5
<1>9. \A i \in 1 .. Len(wire') : Known(wire'[i].jobs, server.jobs)
  <2> SUFFICES ASSUME NEW i \in 1 .. Len(wire') PROVE Known(wire'[i].jobs, server.jobs)
    OBVIOUS
  <2>1. CASE i \in 1 .. Len(wire)
    BY <1>5, <1>7, <2>1
  <2>2. CASE i = Len(wire) + 1
    BY <1>2, <1>5, <2>2
  <2> QED
    BY <1>8, <2>1, <2>2
<1>10. \A i \in 1 .. Len(wire') : wire'[i].id < server'.next /\ \A k \in 1 .. i - 1 : wire'[k].id < wire'[i].id
  <2> SUFFICES ASSUME NEW i \in 1 .. Len(wire')
               PROVE  wire'[i].id < server'.next /\ \A k \in 1 .. i - 1 : wire'[k].id < wire'[i].id
    OBVIOUS
  <2>1. CASE i \in 1 .. Len(wire)
    <3>1. wire'[i] = wire[i] /\ \A k \in 1 .. i - 1 : k \in 1 .. Len(wire) /\ wire'[k] = wire[k]
      BY <1>5, <2>1
    <3> QED
      BY <1>1, <1>4, <1>6, <1>7, <2>1, <3>1 DEF IdsGrow
  <2>2. CASE i = Len(wire) + 1
    <3>1. \A k \in 1 .. i - 1 : k \in 1 .. Len(wire) /\ wire'[k] = wire[k]
      BY <1>5, <2>2
    <3> QED
      BY <1>1, <1>2, <1>4, <1>5, <1>7, <2>2, <3>1 DEF IdsGrow
  <2> QED
    BY <1>8, <2>1, <2>2
<1>11. spent.restarts = 0 => page.cursor < server'.next /\ \A i \in 1 .. Len(wire') : page.cursor < wire'[i].id
  BY <1>1, <1>2, <1>4, <1>5, <1>7, <1>8 DEF IdsGrow
<1>12. type \in {"snapshot", "jobs"} =>
         \A j \in Jobs : \E i \in 1 .. Len(wire') : Brings(wire'[i], j, body.jobs[j])
  <2>1. Len(wire) + 1 \in 1 .. Len(wire')
    BY <1>5
  <2> QED
    BY <1>2, <1>5, <2>1
<1>13. \A i \in 1 .. Len(wire) : i \in 1 .. Len(wire')
  BY <1>5
<1> QED
  BY <1>4, <1>5, <1>9, <1>10, <1>11, <1>12, <1>13

\* The client opens a stream.
LEMMA ConnectKeeps == LiveInv /\ Connect => LiveInv'
<1> SUFFICES ASSUME LiveInv, Connect PROVE LiveInv'
  OBVIOUS
<1>1. /\ page.link = "waiting" /\ listeners' = listeners \cup {"page"} /\ UNCHANGED <<scoped, loads, spent>>
      /\ stream' = [Closed EXCEPT !.stage = "reading"] /\ Send("hello", Unread, TRUE)
      /\ page' = [page EXCEPT !.link = "up", !.status = "connecting", !.given = FALSE, !.missed = FALSE]
  BY DEF Connect
<1>2. server.jobs \in Versions /\ Known(NoJobs, server.jobs)
  BY LiveBounds DEF LiveInv, LiveIsTyped, ServerOf, Versions, Known
<1>3. "hello" \in FrameTypes
  BY DEF FrameTypes
<1>4. /\ server' \in ServerOf /\ server'.jobs = server.jobs
      /\ wire' \in Seq(FrameOf) /\ \A i \in 1 .. Len(wire') : Known(wire'[i].jobs, server.jobs)
      /\ \A i \in 1 .. Len(wire') : wire'[i].id < server'.next /\ \A k \in 1 .. i - 1 : wire'[k].id < wire'[i].id
      /\ spent.restarts = 0 =>
           page.cursor < server'.next /\ \A i \in 1 .. Len(wire') : page.cursor < wire'[i].id
  BY <1>1, <1>2, <1>3, FrameSent, LiveBounds
<1>5. stream' \in StreamOf /\ stream'.stage = "reading" /\ stream'.pending = NoJobs /\ stream'.snap = Unread /\ stream'.tick = Unread
  BY <1>1, ClosedStream DEF StreamOf
<1>6. /\ page' \in PageOf /\ page'.link = "up" /\ page'.jobs = page.jobs /\ page'.best = page.best
      /\ page'.act = page.act /\ page'.cursor = page.cursor
  <2>1. page \in PageOf
    BY DEF LiveInv, LiveIsTyped
  <2> QED
    BY <1>1, <2>1 DEF PageOf
<1>7. LiveIsTyped'
  BY <1>1, <1>4, <1>5, <1>6 DEF LiveInv, LiveIsTyped
<1>8. NothingIsAhead'
  BY <1>1, <1>2, <1>4, <1>5, <1>6, LiveBounds DEF LiveInv, NothingIsAhead
<1>9. NewestIsOnItsWay'
  BY <1>5, LiveBounds DEF NewestIsOnItsWay, IsOnItsWay
<1>10. StreamIsThePages' /\ ListenersAreOpen' /\ IdsGrow'
  BY <1>1, <1>4, <1>5, <1>6 DEF LiveInv, StreamIsThePages, ListenersAreOpen, IdsGrow
<1> QED
  BY <1>7, <1>8, <1>9, <1>10 DEF LiveInv

\* The other frames: the snapshot, the metrics, the debounced ones.
LEMMA FramesKeep ==
  ASSUME LiveInv, NEW type \in FrameTypes, NEW body \in LiveData, NEW whole \in BOOLEAN,
         Known(body.jobs, server.jobs), Send(type, body, whole), UNCHANGED <<listeners, scoped, page, loads, spent>>,
         stream' \in StreamOf, stream.stage # "closed", stream'.stage # "closed",
         Known(stream'.pending, server.jobs), Known(stream'.snap.jobs, server.jobs), Known(stream'.tick.jobs, server.jobs),
         \A j \in Jobs :
           \/ stream'.pending[j] = stream.pending[j]
           \/ type = "jobs" /\ body.jobs[j] = stream.pending[j],
         \/ stream'.stage = stream.stage /\ stream'.snap = stream.snap
         \/ stream.stage # "reading"
         \/ stream.snap.read /\ type = "snapshot" /\ body.jobs = stream.snap.jobs
  PROVE  LiveInv'
<1>1. /\ server' \in ServerOf /\ server'.jobs = server.jobs
      /\ wire' \in Seq(FrameOf) /\ \A i \in 1 .. Len(wire') : Known(wire'[i].jobs, server.jobs)
      /\ type \in {"snapshot", "jobs"} =>
           \A j \in Jobs : \E i \in 1 .. Len(wire') : Brings(wire'[i], j, body.jobs[j])
      /\ \A i \in 1 .. Len(wire) : i \in 1 .. Len(wire') /\ wire'[i] = wire[i]
      /\ \A i \in 1 .. Len(wire') : wire'[i].id < server'.next /\ \A k \in 1 .. i - 1 : wire'[k].id < wire'[i].id
      /\ spent.restarts = 0 =>
           page.cursor < server'.next /\ \A i \in 1 .. Len(wire') : page.cursor < wire'[i].id
  BY FrameSent
<1>2. LiveIsTyped'
  BY <1>1 DEF LiveInv, LiveIsTyped
<1>3. NothingIsAhead'
  BY <1>1 DEF LiveInv, NothingIsAhead
<1>4. NewestIsOnItsWay'
  <2> SUFFICES ASSUME page.link = "up", ~ page.missed, NEW j \in Jobs PROVE IsOnItsWay(j)'
    BY DEF NewestIsOnItsWay
  <2>1. IsOnItsWay(j)
    BY DEF LiveInv, NewestIsOnItsWay
  <2>2. CASE page.best[j] = server.jobs[j]
    BY <1>1, <2>2 DEF IsOnItsWay
  <2>3. CASE stream.pending[j] = server.jobs[j]
    BY <1>1, <2>3 DEF IsOnItsWay
  <2>4. CASE \E i \in 1 .. Len(wire) : Brings(wire[i], j, server.jobs[j])
    BY <1>1, <2>4 DEF IsOnItsWay
  <2>5. CASE stream.stage = "reading" /\ (stream.snap.read => stream.snap.jobs[j] = server.jobs[j])
    BY <1>1, <2>5 DEF IsOnItsWay
  <2> QED
    BY <2>1, <2>2, <2>3, <2>4, <2>5 DEF IsOnItsWay
<1>5. StreamIsThePages' /\ ListenersAreOpen' /\ IdsGrow'
  BY <1>1 DEF LiveInv, StreamIsThePages, ListenersAreOpen, IdsGrow
<1> QED
  BY <1>2, <1>3, <1>4, <1>5 DEF LiveInv

\* The stream opens, goes on with its ticks, and sends what was debounced.
LEMMA SendsKeep == LiveInv /\ (SendSnapshot \/ SendTick \/ Flush \/ FlushDocker) => LiveInv'
<1>1. ASSUME LiveInv
      PROVE  /\ stream \in StreamOf /\ stream.snap \in LiveData /\ stream.tick \in LiveData /\ stream.pending \in Versions
             /\ Known(stream.pending, server.jobs) /\ Known(stream.snap.jobs, server.jobs) /\ Known(stream.tick.jobs, server.jobs)
             /\ Known(NoJobs, server.jobs)
  <2>1. stream \in StreamOf /\ server.jobs \in Versions
    BY <1>1 DEF LiveInv, LiveIsTyped, ServerOf
  <2> QED
    BY <1>1, <2>1, NothingIsKnown DEF LiveInv, NothingIsAhead, StreamOf
<1>2. {"snapshot", "metrics", "jobs", "docker"} \subseteq FrameTypes
  BY DEF FrameTypes
<1>3. ASSUME LiveInv, SendSnapshot PROVE LiveInv'
  <2>1. /\ stream.stage = "reading" /\ stream.snap.read
        /\ \E whole \in BOOLEAN : Send("snapshot", stream.snap, whole)
        /\ stream' = [stream EXCEPT !.stage = "loop", !.snap = Unread]
        /\ UNCHANGED <<listeners, scoped, page, loads, spent>>
    BY <1>3 DEF SendSnapshot, Fits
  <2>2. /\ stream' \in StreamOf /\ stream'.stage = "loop" /\ stream'.snap = Unread
        /\ stream'.pending = stream.pending /\ stream'.tick = stream.tick
    BY <1>1, <1>3, <2>1, LiveBounds DEF StreamOf
  <2> QED
    BY <1>1, <1>2, <1>3, <2>1, <2>2, FramesKeep, LiveBounds
<1>4. ASSUME LiveInv, SendTick PROVE LiveInv'
  <2> DEFINE body == [stream.tick EXCEPT !.jobs = NoJobs]
  <2>1. /\ stream.stage = "loop" /\ stream.tick.read /\ \E whole \in BOOLEAN : Send("metrics", body, whole)
        /\ stream' = [stream EXCEPT !.tick = Unread, !.sent = stream.tick.metric]
        /\ UNCHANGED <<listeners, scoped, page, loads, spent>>
    BY <1>4 DEF SendTick, Fits
  <2>2. body \in LiveData /\ body.jobs = NoJobs /\ stream.tick.metric \in 0 .. MaxMetric + 1
    BY <1>1, <1>4, LiveBounds DEF LiveData, Versions
  <2> HIDE DEF body
  <2>3. /\ stream' \in StreamOf /\ stream'.stage = "loop" /\ stream'.snap = stream.snap
        /\ stream'.pending = stream.pending /\ stream'.tick = Unread
    BY <1>1, <1>4, <2>1, <2>2, LiveBounds DEF StreamOf
  <2> QED
    BY <1>1, <1>2, <1>4, <2>1, <2>2, <2>3, FramesKeep, LiveBounds
<1>5. ASSUME LiveInv, Flush PROVE LiveInv'
  <2> DEFINE body == [Unread EXCEPT !.jobs = stream.pending]
  <2>1. /\ stream.stage # "closed" /\ \E whole \in BOOLEAN : Send("jobs", body, whole)
        /\ stream' = [stream EXCEPT !.pending = NoJobs]
        /\ UNCHANGED <<listeners, scoped, page, loads, spent>>
    BY <1>5 DEF Flush, Fits
  <2>2. body \in LiveData /\ body.jobs = stream.pending
    BY <1>1, <1>5, LiveBounds DEF LiveData, Versions
  <2> HIDE DEF body
  <2>3. /\ stream' \in StreamOf /\ stream'.stage = stream.stage /\ stream'.snap = stream.snap
        /\ stream'.pending = NoJobs /\ stream'.tick = stream.tick
    BY <1>1, <1>5, <2>1, LiveBounds DEF StreamOf
  <2> QED
    BY <1>1, <1>2, <1>5, <2>1, <2>2, <2>3, FramesKeep
<1>6. ASSUME LiveInv, FlushDocker PROVE LiveInv'
  <2>1. /\ stream.stage # "closed" /\ Send("docker", Unread, TRUE) /\ stream' = [stream EXCEPT !.docker = FALSE]
        /\ UNCHANGED <<listeners, scoped, page, loads, spent>>
    BY <1>6 DEF FlushDocker
  <2>2. /\ stream' \in StreamOf /\ stream'.stage = stream.stage /\ stream'.snap = stream.snap
        /\ stream'.pending = stream.pending /\ stream'.tick = stream.tick
    BY <1>1, <1>6, <2>1 DEF StreamOf
  <2> QED
    BY <1>1, <1>2, <1>6, <2>1, <2>2, FramesKeep, LiveBounds
<1> QED
  BY <1>3, <1>4, <1>5, <1>6

\* The stream reads, its tick fails, Docker has news: nothing is sent.
LEMMA ReadsOfStreamKeep == LiveInv /\ (ReadOverview \/ StartTick \/ TickFails \/ DockerNews) => LiveInv'
<1> SUFFICES ASSUME LiveInv, ReadOverview \/ StartTick \/ TickFails \/ DockerNews PROVE LiveInv'
  OBVIOUS
<1>1. /\ stream \in StreamOf /\ stream.snap \in LiveData /\ stream.tick \in LiveData
      /\ server.jobs \in Versions /\ server.metric \in 0 .. MaxMetric
  BY DEF LiveInv, LiveIsTyped, StreamOf, ServerOf
<1>2. Stored \in LiveData /\ Stored.jobs = server.jobs /\ Known(server.jobs, server.jobs) /\ Known(NoJobs, server.jobs)
  BY <1>1, NothingIsKnown DEF Stored, LiveData, Versions
<1>3. /\ UNCHANGED <<server, wire, listeners, scoped, page, loads>>
      /\ spent' \in [drops : Nat, restarts : Nat, loads : Nat] /\ spent'.restarts = spent.restarts
  BY DEF ReadOverview, StartTick, TickFails, DockerNews, LiveInv, LiveIsTyped
<1>4. /\ stream' \in StreamOf /\ stream'.pending = stream.pending
      /\ stream'.snap = stream.snap \/ (stream'.snap = Stored /\ stream.stage = "reading")
      /\ stream'.tick \in {stream.tick, Stored, Unread}
      /\ stream'.stage = stream.stage \/ (stream.stage = "loop" /\ stream'.stage = "dead")
  <2>1. CASE ReadOverview
    BY <1>1, <1>2, <2>1 DEF ReadOverview, StreamOf
  <2>2. CASE StartTick
    BY <1>1, <1>2, <2>2 DEF StartTick, StreamOf
  <2>3. CASE TickFails
    BY <1>1, <2>3, LiveBounds DEF TickFails, StreamOf
  <2>4. CASE DockerNews
    BY <1>1, <2>4 DEF DockerNews, StreamOf
  <2> QED
    BY <2>1, <2>2, <2>3, <2>4
<1>5. LiveIsTyped'
  BY <1>3, <1>4 DEF LiveInv, LiveIsTyped
<1>6. NothingIsAhead'
  BY <1>2, <1>3, <1>4, LiveBounds DEF LiveInv, NothingIsAhead
<1>7. NewestIsOnItsWay'
  <2> SUFFICES ASSUME page.link = "up", ~ page.missed, NEW j \in Jobs PROVE IsOnItsWay(j)'
    BY <1>3 DEF NewestIsOnItsWay
  <2>1. IsOnItsWay(j)
    BY DEF LiveInv, NewestIsOnItsWay
  <2>2. CASE stream'.snap = stream.snap
    BY <1>3, <1>4, <2>1, <2>2 DEF IsOnItsWay
  <2>3. CASE stream'.snap = Stored /\ stream.stage = "reading"
    BY <1>2, <1>3, <1>4, <2>3 DEF IsOnItsWay
  <2> QED
    BY <1>4, <2>2, <2>3
<1>8. StreamIsThePages' /\ ListenersAreOpen' /\ IdsGrow'
  BY <1>3, <1>4 DEF LiveInv, StreamIsThePages, ListenersAreOpen, IdsGrow
<1> QED
  BY <1>5, <1>6, <1>7, <1>8 DEF LiveInv

\* A job moves on or begins: the listeners note it.
LEMMA JobsMoveOn ==
  ASSUME LiveInv, NEW j \in Jobs, NEW n \in 0 .. MaxVersion, server.jobs[j] <= n, n # 0,
         server' = [server EXCEPT !.jobs[j] = n], stream' = Noted([NoJobs EXCEPT ![j] = n]),
         page' \in PageOf, page'.link = page.link, page'.missed = page.missed, page'.cursor = page.cursor,
         page'.jobs = page.jobs, page'.best = page.best, page'.act # NoAction => page'.act \in {page.act, j},
         spent' \in [drops : Nat, restarts : Nat, loads : Nat], spent'.restarts = spent.restarts,
         UNCHANGED <<wire, listeners, scoped, loads>>
  PROVE  LiveInv'
<1> DEFINE one == [NoJobs EXCEPT ![j] = n]
<1>1. server \in ServerOf /\ server.jobs \in Versions /\ stream \in StreamOf /\ stream.pending \in Versions
  BY DEF LiveInv, LiveIsTyped, ServerOf, StreamOf
<1>2. /\ server' \in ServerOf /\ server'.jobs = [server.jobs EXCEPT ![j] = n] /\ server'.next = server.next
      /\ server'.jobs \in Versions /\ server'.jobs[j] = n
      /\ \A x \in Jobs : x # j => server'.jobs[x] = server.jobs[x]
  <2>1. [server.jobs EXCEPT ![j] = n] \in Versions
    BY <1>1 DEF Versions
  <2>2. server' = [server EXCEPT !.jobs = [server.jobs EXCEPT ![j] = n]]
    BY <1>1
  <2> QED
    BY <1>1, <2>1, <2>2 DEF ServerOf, Versions
<1>3. Known(server.jobs, server'.jobs)
  BY <1>1, <1>2 DEF Known, Versions
<1>4. one \in Versions /\ one[j] = n /\ \A x \in Jobs : x # j => one[x] = 0
  BY LiveBounds DEF Versions
<1>5. Known(one, server'.jobs)
  <2>1. \A x \in Jobs : server'.jobs[x] \in Nat /\ one[x] \in Nat
    BY <1>2, <1>4, LiveBounds DEF Versions
  <2> QED
    BY <1>2, <1>4, <2>1 DEF Known
<1> HIDE DEF one
<1>6. Known(stream.pending, server'.jobs)
  BY <1>1, <1>2, <1>3, KnownStays DEF LiveInv, NothingIsAhead
<1>7. /\ stream' \in StreamOf /\ stream'.stage = stream.stage /\ stream'.snap = stream.snap /\ stream'.tick = stream.tick
      /\ Known(stream'.pending, server'.jobs)
      /\ \A x \in Jobs : x # j => stream'.pending[x] = stream.pending[x]
      /\ stream.stage # "closed" => stream'.pending[j] = n
  <2>1. CASE "page" \in listeners
    <3> DEFINE merged == MergeJobs(stream.pending, one)
    <3>1. stream' = [stream EXCEPT !.pending = merged]
      BY <2>1 DEF Noted, one
    <3>2. /\ merged \in Versions /\ Known(merged, server'.jobs)
          /\ \A x \in Jobs : merged[x] = IF one[x] = 0 THEN stream.pending[x] ELSE one[x]
      BY <1>1, <1>4, <1>5, <1>6, VersionsMerge
    <3> HIDE DEF merged
    <3>3. /\ stream' \in StreamOf /\ stream'.stage = stream.stage /\ stream'.snap = stream.snap
          /\ stream'.tick = stream.tick /\ stream'.pending = merged
      BY <1>1, <3>1, <3>2 DEF StreamOf
    <3> QED
      BY <1>4, <3>2, <3>3
  <2>2. CASE "page" \notin listeners
    <3>1. stream' = stream
      BY <2>2 DEF Noted
    <3>2. stream.stage = "closed"
      BY <2>2 DEF LiveInv, ListenersAreOpen
    <3> QED
      BY <1>1, <1>6, <3>1, <3>2
  <2> QED
    BY <2>1, <2>2
<1>8. LiveIsTyped'
  BY <1>2, <1>7 DEF LiveInv, LiveIsTyped
<1>9. NothingIsAhead'
  <2>1. /\ stream.snap.jobs \in Versions /\ stream.tick.jobs \in Versions
        /\ \A i \in 1 .. Len(wire) : wire[i].jobs \in Versions
        /\ \A l \in Loaders : loads[l].got.jobs \in Versions
        /\ page.jobs \in Versions /\ page.best \in Versions
    <3>1. /\ stream.snap \in LiveData /\ stream.tick \in LiveData
          /\ \A i \in 1 .. Len(wire) : wire[i] \in FrameOf
          /\ \A l \in Loaders : loads[l] \in LoadOf
          /\ page \in PageOf
      <4>1. wire \in Seq(FrameOf) /\ loads \in [Loaders -> LoadOf] /\ page \in PageOf /\ stream \in StreamOf
        BY DEF LiveInv, LiveIsTyped
      <4> QED
        BY <4>1 DEF StreamOf
    <3> QED
      BY <3>1 DEF LiveData, FrameOf, LoadOf, PageOf, Versions
  <2>2. \A f \in Versions : Known(f, server.jobs) => Known(f, server'.jobs)
    BY <1>1, <1>2, <1>3, KnownStays
  <2>3. page'.act # NoAction => server'.jobs[page'.act] # 0
    <3>1. CASE page'.act = j
      BY <1>2, <3>1
    <3>2. CASE page'.act # j /\ page'.act # NoAction
      BY <1>2, <3>2 DEF LiveInv, NothingIsAhead, PageOf
    <3> QED
      BY <3>1, <3>2
  <2> QED
    BY <1>7, <2>1, <2>2, <2>3 DEF LiveInv, NothingIsAhead
<1>10. NewestIsOnItsWay'
  <2> SUFFICES ASSUME page.link = "up", ~ page.missed, NEW x \in Jobs PROVE IsOnItsWay(x)'
    BY DEF NewestIsOnItsWay
  <2>1. stream.stage # "closed" /\ IsOnItsWay(x)
    BY DEF LiveInv, StreamIsThePages, NewestIsOnItsWay
  <2>2. CASE x = j
    BY <1>2, <1>7, <2>1, <2>2 DEF IsOnItsWay
  <2>3. CASE x # j
    <3>1. /\ server'.jobs[x] = server.jobs[x] /\ stream'.pending[x] = stream.pending[x]
          /\ stream'.stage = stream.stage /\ stream'.snap = stream.snap /\ page'.best = page.best /\ wire' = wire
      BY <1>2, <1>7, <2>3
    <3> QED
      BY <2>1, <3>1 DEF IsOnItsWay
  <2> QED
    BY <2>2, <2>3
<1>11. StreamIsThePages' /\ ListenersAreOpen' /\ IdsGrow'
  BY <1>2, <1>7 DEF LiveInv, StreamIsThePages, ListenersAreOpen, IdsGrow
<1> QED
  BY <1>8, <1>9, <1>10, <1>11 DEF LiveInv

\* The runner moves a job on; an action of the user begins one.
LEMMA JobsKeep == LiveInv /\ (JobMoves \/ Act) => LiveInv'
<1>1. ASSUME LiveInv
      PROVE  /\ page \in PageOf /\ server.jobs \in Versions /\ spent \in [drops : Nat, restarts : Nat, loads : Nat]
             /\ MaxVersion \in Nat \ {0}
  BY <1>1, LiveBounds DEF LiveInv, LiveIsTyped, ServerOf
<1>2. ASSUME LiveInv, JobMoves PROVE LiveInv'
  <2>1. PICK j \in Jobs :
          /\ server.jobs[j] \in 1 .. MaxVersion - 1
          /\ server' = [server EXCEPT !.jobs = [server.jobs EXCEPT ![j] = @ + 1]]
          /\ stream' = Noted([NoJobs EXCEPT ![j] = [server.jobs EXCEPT ![j] = @ + 1][j]])
          /\ UNCHANGED <<wire, listeners, scoped, page, loads, spent>>
    BY <1>2 DEF JobMoves
  <2> DEFINE n == server.jobs[j] + 1
  <2>2. n \in 0 .. MaxVersion /\ n # 0 /\ server.jobs[j] <= n
    BY <1>1, <1>2, <2>1
  <2>3. [server.jobs EXCEPT ![j] = @ + 1] = [server.jobs EXCEPT ![j] = n] /\ [server.jobs EXCEPT ![j] = @ + 1][j] = n
    BY <1>1, <1>2 DEF Versions
  <2>4. server' = [server EXCEPT !.jobs[j] = n] /\ stream' = Noted([NoJobs EXCEPT ![j] = n])
    <3> HIDE DEF n
    <3> QED
      BY <2>1, <2>3
  <2> HIDE DEF n
  <2> QED
    BY <1>1, <1>2, <2>1, <2>2, <2>4, JobsMoveOn
<1>3. ASSUME LiveInv, Act PROVE LiveInv'
  <2>1. PICK j \in Jobs :
          /\ server.jobs[j] = 0 /\ server' = [server EXCEPT !.jobs[j] = 1]
          /\ stream' = Noted([NoJobs EXCEPT ![j] = 1])
          /\ page' = [page EXCEPT !.act = j] /\ spent' = [spent EXCEPT !.loads = @ + 1]
          /\ UNCHANGED <<wire, listeners, scoped, loads>>
    BY <1>3 DEF Act
  <2>2. /\ page' \in PageOf /\ page'.link = page.link /\ page'.missed = page.missed /\ page'.cursor = page.cursor
        /\ page'.jobs = page.jobs /\ page'.best = page.best /\ page'.act = j
    BY <1>1, <1>3, <2>1 DEF PageOf
  <2>3. spent' \in [drops : Nat, restarts : Nat, loads : Nat] /\ spent'.restarts = spent.restarts
    BY <1>1, <1>3, <2>1
  <2> DEFINE n == 1
  <2>4. /\ n \in 0 .. MaxVersion /\ n # 0 /\ server.jobs[j] <= n
        /\ server' = [server EXCEPT !.jobs[j] = n] /\ stream' = Noted([NoJobs EXCEPT ![j] = n])
        /\ UNCHANGED <<wire, listeners, scoped, loads>>
    BY <1>1, <1>3, <2>1
  <2>5. page'.act # NoAction => page'.act \in {page.act, j}
    BY <2>2
  <2> HIDE DEF n
  <2> QED
    BY <1>3, <2>2, <2>3, <2>4, <2>5, JobsMoveOn
<1> QED
  BY <1>2, <1>3
\* A metric is stored.
LEMMA StoreKeeps == LiveInv /\ MetricArrives => LiveInv'
<1> SUFFICES ASSUME LiveInv, MetricArrives PROVE LiveInv'
  OBVIOUS
<1>1. server \in ServerOf
  BY DEF LiveInv, LiveIsTyped
<1>2. UNCHANGED <<stream, wire, listeners, scoped, page, loads, spent>>
  BY DEF MetricArrives
<1>3. server' \in ServerOf /\ server'.jobs = server.jobs /\ server'.next = server.next
  <2>1. server.metric + 1 \in 0 .. MaxMetric /\ server' = [server EXCEPT !.metric = server.metric + 1]
    BY <1>1, LiveBounds DEF MetricArrives, ServerOf
  <2> QED
    BY <1>1, <2>1 DEF ServerOf
<1>4. LiveIsTyped' /\ NothingIsAhead'
  BY <1>2, <1>3 DEF LiveInv, LiveIsTyped, NothingIsAhead
<1>5. NewestIsOnItsWay'
  BY <1>2, <1>3 DEF LiveInv, NewestIsOnItsWay, IsOnItsWay
<1>6. StreamIsThePages' /\ ListenersAreOpen' /\ IdsGrow'
  BY <1>2, <1>3 DEF LiveInv, StreamIsThePages, ListenersAreOpen, IdsGrow
<1> QED
  BY <1>4, <1>5, <1>6 DEF LiveInv

\* The connection is given up, by either end or by a restart of the API.
LEMMA LettingGoKeeps ==
  ASSUME LiveInv, stream' = Closed, wire' = <<>>,
         listeners' \subseteq {"page", "scoped"}, "page" \notin listeners',
         scoped' \in {"none", "reading", "left", "open", "closed", "leaked"},
         "scoped" \in listeners' <=> scoped' \in {"open", "leaked"},
         server' \in ServerOf, server'.jobs = server.jobs,
         page' \in PageOf, page'.link # "up", page'.jobs = page.jobs, page'.best = page.best,
         page'.act \in {page.act, NoAction},
         loads' \in [Loaders -> LoadOf], \A l \in Loaders : loads'[l].got \in {loads[l].got, Unread},
         spent' \in [drops : Nat, restarts : Nat, loads : Nat],
         spent'.restarts = 0 => page'.cursor < server'.next
  PROVE  LiveInv'
<1>1. server.jobs \in Versions /\ Known(NoJobs, server.jobs)
  BY NothingIsKnown DEF LiveInv, LiveIsTyped, ServerOf
<1>2. LiveIsTyped'
  BY ClosedStream DEF LiveIsTyped
<1>3. NothingIsAhead'
  <2>1. Known(stream'.pending, server'.jobs) /\ Known(stream'.snap.jobs, server'.jobs) /\ Known(stream'.tick.jobs, server'.jobs)
    BY <1>1, ClosedStream, LiveBounds
  <2>2. \A l \in Loaders : Known(loads'[l].got.jobs, server'.jobs)
    BY <1>1, LiveBounds DEF LiveInv, NothingIsAhead
  <2>3. Len(wire') = 0
    OBVIOUS
  <2> QED
    BY <2>1, <2>2, <2>3 DEF LiveInv, NothingIsAhead
<1>4. NewestIsOnItsWay' /\ StreamIsThePages' /\ ListenersAreOpen'
  BY ClosedStream DEF NewestIsOnItsWay, StreamIsThePages, ListenersAreOpen
<1>5. IdsGrow'
  <2>1. Len(wire') = 0
    OBVIOUS
  <2> QED
    BY <2>1 DEF IdsGrow
<1> QED
  BY <1>2, <1>3, <1>4, <1>5 DEF LiveInv

\* The connection breaks, the page is left, the API starts again.
LEMMA GoingsKeep == LiveInv /\ (Drop \/ Leave \/ Restart) => LiveInv'
<1>1. ASSUME LiveInv
      PROVE  /\ page \in PageOf /\ server \in ServerOf /\ server.next \in Nat \ {0} /\ page.cursor \in Nat
             /\ loads \in [Loaders -> LoadOf] /\ spent \in [drops : Nat, restarts : Nat, loads : Nat]
             /\ listeners \subseteq {"page", "scoped"}
             /\ scoped \in {"none", "reading", "left", "open", "closed", "leaked"}
             /\ "scoped" \in listeners <=> scoped \in {"open", "leaked"}
             /\ spent.restarts = 0 => page.cursor < server.next
  BY <1>1 DEF LiveInv, LiveIsTyped, ServerOf, PageOf, ListenersAreOpen, IdsGrow
<1>2. ASSUME LiveInv, Drop PROVE LiveInv'
  <2>1. /\ stream' = Closed /\ wire' = <<>> /\ listeners' = listeners \ {"page"}
        /\ page' = [page EXCEPT !.link = "waiting", !.status = "reconnecting"]
        /\ spent' = [spent EXCEPT !.drops = @ + 1] /\ UNCHANGED <<server, scoped, loads>>
    BY <1>2 DEF Drop, Hangup
  <2>2. /\ page' \in PageOf /\ page'.link # "up" /\ page'.jobs = page.jobs /\ page'.best = page.best
        /\ page'.act = page.act /\ page'.cursor = page.cursor
    BY <1>1, <1>2, <2>1 DEF PageOf
  <2>3. spent' \in [drops : Nat, restarts : Nat, loads : Nat] /\ spent'.restarts = spent.restarts
    BY <1>1, <1>2, <2>1
  <2> QED
    BY <1>1, <1>2, <2>1, <2>2, <2>3, LettingGoKeeps
<1>3. ASSUME LiveInv, Leave PROVE LiveInv'
  <2>1. /\ stream' = Closed /\ wire' = <<>> /\ listeners' = listeners \ {"page"}
        /\ page' = [page EXCEPT !.link = "left"] /\ UNCHANGED <<server, scoped, loads, spent>>
    BY <1>3 DEF Leave, Hangup
  <2>2. /\ page' \in PageOf /\ page'.link # "up" /\ page'.jobs = page.jobs /\ page'.best = page.best
        /\ page'.act = page.act /\ page'.cursor = page.cursor
    BY <1>1, <1>3, <2>1 DEF PageOf
  <2> QED
    BY <1>1, <1>3, <2>1, <2>2, LettingGoKeeps
<1>4. ASSUME LiveInv, Restart PROVE LiveInv'
  <2> DEFINE link == IF page.link = "up" THEN "waiting" ELSE page.link
             status == IF page.link = "up" THEN "reconnecting" ELSE page.status
  <2>1. /\ stream' = Closed /\ wire' = <<>> /\ listeners' = {}
        /\ server' = [server EXCEPT !.next = 1]
        /\ scoped' = IF scoped = "none" THEN "none" ELSE "closed"
        /\ page' = [page EXCEPT !.link = link, !.status = status, !.act = NoAction]
        /\ loads' = [l \in Loaders |-> [stage |-> "idle", got |-> Unread]]
        /\ spent' = [spent EXCEPT !.restarts = @ + 1]
    BY <1>4 DEF Restart
  <2>2. link \in {"waiting", "up", "left"} /\ link # "up" /\ status \in {"connecting", "live", "reconnecting"}
    BY <1>1, <1>4 DEF PageOf
  <2> HIDE DEF link, status
  <2>3. /\ page' \in PageOf /\ page'.link # "up" /\ page'.jobs = page.jobs /\ page'.best = page.best
        /\ page'.act = NoAction
    BY <1>1, <1>4, <2>1, <2>2 DEF PageOf
  <2>4. loads' \in [Loaders -> LoadOf] /\ \A l \in Loaders : loads'[l].got = Unread
    BY <2>1, LiveBounds DEF LoadOf
  <2>5. spent' \in [drops : Nat, restarts : Nat, loads : Nat] /\ spent'.restarts # 0
    BY <1>1, <1>4, <2>1
  <2>6. server' \in ServerOf /\ server'.jobs = server.jobs
    BY <1>1, <1>4, <2>1 DEF ServerOf
  <2> QED
    BY <1>4, <2>1, <2>3, <2>4, <2>5, <2>6, LettingGoKeeps
<1> QED
  BY <1>2, <1>3, <1>4

\* What only the page and its loads notice: nothing is sent or taken off the wire.
LEMMA PageMovesKeep ==
  ASSUME LiveInv, UNCHANGED <<server, stream, wire>>,
         listeners' = listeners, scoped' = scoped,
         page' \in PageOf, page'.link = page.link, page'.missed = page.missed, page'.cursor = page.cursor,
         Known(page'.jobs, server.jobs), Known(page'.best, server.jobs), \A j \in Jobs : page.best[j] <= page'.best[j],
         page'.act \in {page.act, NoAction},
         loads' \in [Loaders -> LoadOf], \A l \in Loaders : Known(loads'[l].got.jobs, server.jobs),
         spent' \in [drops : Nat, restarts : Nat, loads : Nat], spent'.restarts = spent.restarts
  PROVE  LiveInv'
<1>1. LiveIsTyped' /\ NothingIsAhead'
  BY DEF LiveInv, LiveIsTyped, NothingIsAhead
<1>2. NewestIsOnItsWay'
  <2> SUFFICES ASSUME page.link = "up", ~ page.missed, NEW j \in Jobs PROVE IsOnItsWay(j)'
    BY DEF NewestIsOnItsWay
  <2>1. IsOnItsWay(j)
    BY DEF LiveInv, NewestIsOnItsWay
  <2>2. page.best[j] <= page'.best[j] /\ page'.best[j] <= server.jobs[j]
    BY DEF Known
  <2>3. server.jobs[j] \in Nat /\ page.best[j] \in Nat /\ page'.best[j] \in Nat
    <3>1. server.jobs \in Versions /\ page.best \in Versions /\ page'.best \in Versions
      BY DEF LiveInv, LiveIsTyped, ServerOf, PageOf
    <3> QED
      BY <3>1, LiveBounds DEF Versions
  <2>4. page.best[j] = server.jobs[j] => page'.best[j] = server.jobs[j]
    BY <2>2, <2>3
  <2> QED
    BY <2>1, <2>4 DEF IsOnItsWay
<1>3. StreamIsThePages' /\ ListenersAreOpen' /\ IdsGrow'
  BY DEF LiveInv, StreamIsThePages, ListenersAreOpen, IdsGrow
<1> QED
  BY <1>1, <1>2, <1>3 DEF LiveInv
\* What the user does, the timer of an invalidation, and the five GETs.
LEMMA LoadsKeep ==
  LiveInv /\ (Answered \/ ActFails \/ Refresh \/ InvalidationDue \/ LoadRead \/ LoadDone \/ LoadFails) => LiveInv'
<1>1. ASSUME LiveInv
      PROVE  /\ page \in PageOf /\ server.jobs \in Versions /\ page.jobs \in Versions /\ page.best \in Versions
             /\ page.metric \in 0 .. MaxMetric
             /\ loads \in [Loaders -> LoadOf] /\ spent \in [drops : Nat, restarts : Nat, loads : Nat]
             /\ Known(page.jobs, server.jobs) /\ Known(page.best, server.jobs)
             /\ \A l \in Loaders : Known(loads[l].got.jobs, server.jobs)
             /\ Known(NoJobs, server.jobs) /\ Stored \in LiveData /\ Stored.jobs = server.jobs
             /\ Known(server.jobs, server.jobs) /\ \A j \in Jobs : page.best[j] <= page.best[j]
  <2>1. page \in PageOf /\ server \in ServerOf
    BY <1>1 DEF LiveInv, LiveIsTyped
  <2>2. page.jobs \in Versions /\ page.best \in Versions /\ page.metric \in 0 .. MaxMetric /\ server.jobs \in Versions
    BY <2>1 DEF PageOf, ServerOf
  <2>3. Stored \in LiveData /\ Stored.jobs = server.jobs
    BY <2>1 DEF Stored, LiveData, ServerOf, Versions
  <2>4. \A j \in Jobs : page.best[j] <= page.best[j]
    BY <2>2, NothingIsKnown DEF Known
  <2> QED
    BY <1>1, <2>1, <2>2, <2>3, <2>4, NothingIsKnown DEF LiveInv, LiveIsTyped, NothingIsAhead
\* What the page shows may only be what is known; its best goes up with it.
<1>2. ASSUME LiveInv, NEW jobs \in Versions, Known(jobs, server.jobs), NEW metric \in 0 .. MaxMetric
      PROVE  LET p == Show(page, jobs, metric)
             IN  /\ p \in PageOf /\ p.link = page.link /\ p.missed = page.missed /\ p.cursor = page.cursor
                 /\ p.act = page.act /\ p.jobs = jobs
                 /\ Known(p.best, server.jobs) /\ \A j \in Jobs : page.best[j] <= p.best[j]
  <2> DEFINE p == Show(page, jobs, metric)
  <2>1. /\ p \in PageOf /\ p.link = page.link /\ p.missed = page.missed /\ p.cursor = page.cursor
        /\ p.act = page.act /\ p.jobs = jobs
        /\ \A j \in Jobs : p.best[j] = Max2(page.best[j], jobs[j])
    BY <1>1, <1>2, PageShows
  <2>2. ASSUME NEW j \in Jobs PROVE p.best[j] <= server.jobs[j] /\ page.best[j] <= p.best[j]
    <3>1. page.best[j] \in Nat /\ jobs[j] \in Nat /\ page.best[j] <= server.jobs[j] /\ jobs[j] <= server.jobs[j]
      BY <1>1, <1>2, LiveBounds DEF Versions, Known
    <3>2. p.best[j] = IF page.best[j] > jobs[j] THEN page.best[j] ELSE jobs[j]
      BY <2>1 DEF Max2
    <3> HIDE DEF p
    <3> QED
      BY <3>1, <3>2
  <2> HIDE DEF p
  <2>3. Known(p.best, server.jobs) /\ \A j \in Jobs : page.best[j] <= p.best[j]
    BY <2>2 DEF Known
  <2> QED
    BY <2>1, <2>3 DEF p
<1>3. ASSUME LiveInv, Answered PROVE LiveInv'
  <2> DEFINE jobs == [page.jobs EXCEPT ![page.act] = 1]
             p == Show(page, jobs, page.metric)
  <2>1. /\ page.act # NoAction /\ page' = [p EXCEPT !.act = NoAction]
        /\ loads' = [loads EXCEPT !["user"].stage = "asked"]
        /\ UNCHANGED <<server, stream, wire, listeners, scoped, spent>>
    BY <1>3 DEF Answered
  <2>2. page.act \in Jobs /\ server.jobs[page.act] \in Nat \ {0}
    BY <1>1, <1>3, <2>1, LiveBounds DEF LiveInv, NothingIsAhead, PageOf, Versions
  <2>3. jobs \in Versions /\ Known(jobs, server.jobs)
    <3>1. 1 \in 0 .. MaxVersion
      BY LiveBounds
    <3> QED
      BY <1>1, <1>3, <2>2, <3>1 DEF Versions, Known
  <2> HIDE DEF jobs
  <2>4. /\ p \in PageOf /\ p.link = page.link /\ p.missed = page.missed /\ p.cursor = page.cursor
        /\ p.jobs = jobs /\ Known(p.best, server.jobs) /\ \A j \in Jobs : page.best[j] <= p.best[j]
    BY <1>1, <1>2, <1>3, <2>3
  <2> HIDE DEF p
  <2>5. /\ page' \in PageOf /\ page'.link = p.link /\ page'.missed = p.missed /\ page'.cursor = p.cursor
        /\ page'.jobs = p.jobs /\ page'.best = p.best /\ page'.act = NoAction
    BY <2>1, <2>4 DEF PageOf
  <2>6. loads' \in [Loaders -> LoadOf] /\ \A l \in Loaders : loads'[l].got = loads[l].got
    BY <1>1, <1>3, <2>1 DEF Loaders, LoadOf
  <2> QED
    BY <1>1, <1>3, <2>1, <2>3, <2>4, <2>5, <2>6, PageMovesKeep
<1>4. ASSUME LiveInv, ActFails \/ InvalidationDue \/ Refresh \/ LoadFails \/ LoadRead PROVE LiveInv'
  <2>1. UNCHANGED <<server, stream, wire, listeners, scoped>>
    BY <1>4 DEF ActFails, InvalidationDue, Refresh, LoadFails, LoadRead
  <2>2. /\ page' \in PageOf /\ page'.link = page.link /\ page'.missed = page.missed /\ page'.cursor = page.cursor
        /\ page'.jobs = page.jobs /\ page'.best = page.best /\ page'.act \in {page.act, NoAction}
    <3>1. page' = page \/ page' = [page EXCEPT !.act = NoAction] \/ page' = [page EXCEPT !.timer = FALSE]
      BY <1>4 DEF ActFails, InvalidationDue, Refresh, LoadFails, LoadRead
    <3> QED
      BY <1>1, <1>4, <3>1 DEF PageOf
  <2>3. spent' \in [drops : Nat, restarts : Nat, loads : Nat] /\ spent'.restarts = spent.restarts
    <3>1. \/ spent' = spent \/ spent' = [spent EXCEPT !.drops = @ + 1] \/ spent' = [spent EXCEPT !.loads = @ + 1]
      BY <1>4 DEF ActFails, InvalidationDue, Refresh, LoadFails, LoadRead
    <3> QED
      BY <1>1, <1>4, <3>1
  <2>4. loads' \in [Loaders -> LoadOf] /\ \A l \in Loaders : loads'[l].got \in {loads[l].got, Unread, Stored}
    <3>1. \/ loads' = loads
          \/ \E l \in Loaders : \/ loads' = [loads EXCEPT ![l].stage = "asked"]
                                \/ loads' = [loads EXCEPT ![l] = [stage |-> "idle", got |-> Unread]]
                                \/ loads' = [loads EXCEPT ![l] = [stage |-> "read", got |-> Stored]]
      BY <1>4 DEF ActFails, InvalidationDue, Refresh, LoadFails, LoadRead, Loaders
    <3>2. [stage |-> "idle", got |-> Unread] \in LoadOf /\ [stage |-> "read", got |-> Stored] \in LoadOf
      BY <1>1, <1>4, LiveBounds DEF LoadOf
    <3>3. ASSUME NEW l \in Loaders, loads' = [loads EXCEPT ![l].stage = "asked"]
          PROVE  loads' \in [Loaders -> LoadOf] /\ \A k \in Loaders : loads'[k].got = loads[k].got
      BY <1>1, <1>4, <3>3 DEF LoadOf
    <3>4. ASSUME NEW l \in Loaders, NEW x \in LoadOf, x.got \in {Unread, Stored}, loads' = [loads EXCEPT ![l] = x]
          PROVE  loads' \in [Loaders -> LoadOf] /\ \A k \in Loaders : loads'[k].got \in {loads[k].got, Unread, Stored}
      BY <1>1, <1>4, <3>4
    <3> QED
      BY <1>1, <1>4, <3>1, <3>2, <3>3, <3>4
  <2>5. \A l \in Loaders : Known(loads'[l].got.jobs, server.jobs)
    BY <1>1, <1>4, <2>4, LiveBounds
  <2> QED
    BY <1>1, <1>4, <2>1, <2>2, <2>3, <2>4, <2>5, PageMovesKeep
<1>5. ASSUME LiveInv, LoadDone PROVE LiveInv'
  <2>1. PICK l \in Loaders :
          /\ page' = Show(page, loads[l].got.jobs, loads[l].got.metric)
          /\ loads' = [loads EXCEPT ![l] = [stage |-> "idle", got |-> Unread]]
          /\ UNCHANGED <<server, stream, wire, listeners, scoped, spent>>
    BY <1>5 DEF LoadDone
  <2>2. loads[l].got.jobs \in Versions /\ loads[l].got.metric \in 0 .. MaxMetric /\ Known(loads[l].got.jobs, server.jobs)
    BY <1>1, <1>5, <2>1 DEF LoadOf, LiveData, Versions
  <2>3. /\ page' \in PageOf /\ page'.link = page.link /\ page'.missed = page.missed /\ page'.cursor = page.cursor
        /\ page'.act = page.act /\ page'.jobs = loads[l].got.jobs
        /\ Known(page'.best, server.jobs) /\ \A j \in Jobs : page.best[j] <= page'.best[j]
    BY <1>2, <1>5, <2>1, <2>2
  <2>4. [stage |-> "idle", got |-> Unread] \in LoadOf
    BY LiveBounds DEF LoadOf
  <2>5. loads' \in [Loaders -> LoadOf] /\ \A k \in Loaders : loads'[k].got \in {loads[k].got, Unread}
    BY <1>1, <1>5, <2>1, <2>4
  <2>6. \A k \in Loaders : Known(loads'[k].got.jobs, server.jobs)
    BY <1>1, <1>5, <2>5, LiveBounds
  <2> QED
    BY <1>1, <1>5, <2>1, <2>2, <2>3, <2>5, <2>6, PageMovesKeep
<1> QED
  BY <1>3, <1>4, <1>5

\* A frame arrives.
LEMMA ReceiveKeeps == LiveInv /\ Receive => LiveInv'
<1> SUFFICES ASSUME LiveInv, Receive PROVE LiveInv'
  OBVIOUS
<1> DEFINE f == Head(wire)
           heard == [page EXCEPT !.cursor = f.id, !.status = "live", !.given = @ \/ f.type = "snapshot"]
           rest == Tail(wire)
<1>1. /\ page.link = "up" /\ wire # <<>> /\ UNCHANGED <<server, scoped, loads, spent>>
      /\ \/ /\ f.id <= page.cursor
            /\ page' = [page EXCEPT !.missed = TRUE, !.given = @ \/ f.type = "snapshot"]
            /\ wire' = rest /\ UNCHANGED <<stream, listeners>>
         \/ /\ f.id > page.cursor /\ f.whole /\ page' = Apply(heard, f)
            /\ wire' = rest /\ UNCHANGED <<stream, listeners>>
         \/ page' = [heard EXCEPT !.link = "left", !.broken = TRUE] /\ Hangup
  BY DEF Receive
<1>2. /\ page \in PageOf /\ server \in ServerOf /\ server.jobs \in Versions /\ page.best \in Versions /\ page.jobs \in Versions
      /\ page.metric \in 0 .. MaxMetric /\ wire \in Seq(FrameOf) /\ server.next \in Nat /\ page.cursor \in Nat
      /\ loads \in [Loaders -> LoadOf] /\ spent \in [drops : Nat, restarts : Nat, loads : Nat]
  BY DEF LiveInv, LiveIsTyped, ServerOf, PageOf
<1>3. /\ Len(wire) \in Nat /\ 1 \in 1 .. Len(wire) /\ f = wire[1] /\ f \in FrameOf
      /\ rest \in Seq(FrameOf) /\ Len(rest) = Len(wire) - 1
      /\ \A i \in 1 .. Len(rest) : i + 1 \in 1 .. Len(wire) /\ rest[i] = wire[i + 1]
      /\ \A i \in 1 .. Len(wire) : i = 1 \/ (i - 1 \in 1 .. Len(rest) /\ wire[i] = rest[i - 1])
  BY <1>1, <1>2
<1>4. /\ f.id \in Nat /\ f.jobs \in Versions /\ f.metric \in 0 .. MaxMetric /\ f.type \in FrameTypes
      /\ Known(f.jobs, server.jobs) /\ f.id < server.next
  BY <1>3 DEF LiveInv, NothingIsAhead, IdsGrow, FrameOf
<1>5. /\ \A i \in 1 .. Len(rest) : Known(rest[i].jobs, server.jobs)
      /\ \A i \in 1 .. Len(rest) : rest[i].id < server.next /\ f.id < rest[i].id
  <2> HIDE DEF f, rest
  <2> QED
    BY <1>3 DEF LiveInv, NothingIsAhead, IdsGrow
<1>6. \A i \in 1 .. Len(rest) : \A k \in 1 .. i - 1 : rest[k].id < rest[i].id
  <2> SUFFICES ASSUME NEW i \in 1 .. Len(rest), NEW k \in 1 .. i - 1 PROVE rest[k].id < rest[i].id
    OBVIOUS
  <2>1. k \in 1 .. Len(rest) /\ k + 1 \in 1 .. (i + 1) - 1 /\ i + 1 \in 1 .. Len(wire)
    BY <1>3
  <2>2. rest[k] = wire[k + 1] /\ rest[i] = wire[i + 1]
    BY <1>3, <2>1
  <2> HIDE DEF rest
  <2> QED
    BY <2>1, <2>2 DEF LiveInv, IdsGrow
<1>7. /\ heard \in PageOf /\ heard.cursor = f.id /\ heard.link = page.link /\ heard.missed = page.missed
      /\ heard.jobs = page.jobs /\ heard.best = page.best /\ heard.act = page.act /\ heard.metric = page.metric
  <2> DEFINE given == page.given \/ f.type = "snapshot"
  <2>1. given \in BOOLEAN
    BY <1>2 DEF PageOf
  <2>2. heard = [page EXCEPT !.cursor = f.id, !.status = "live", !.given = given]
    OBVIOUS
  <2> HIDE DEF given, f, heard
  <2> QED
    BY <1>2, <1>4, <2>1, <2>2 DEF PageOf
<1> HIDE DEF f, heard, rest
<1>8. spent.restarts = 0 => page.cursor < server.next /\ \A i \in 1 .. Len(wire) : page.cursor < wire[i].id
  BY DEF LiveInv, IdsGrow
<1>9. CASE page' = [heard EXCEPT !.link = "left", !.broken = TRUE] /\ Hangup
  <2>1. /\ page' \in PageOf /\ page'.link # "up" /\ page'.jobs = page.jobs /\ page'.best = page.best
        /\ page'.act = page.act /\ page'.cursor = f.id
    BY <1>7, <1>9 DEF PageOf
  <2>2. stream' = Closed /\ wire' = <<>> /\ listeners' = listeners \ {"page"}
    BY <1>9 DEF Hangup
  <2>3. /\ listeners \subseteq {"page", "scoped"} /\ scoped \in {"none", "reading", "left", "open", "closed", "leaked"}
        /\ "scoped" \in listeners <=> scoped \in {"open", "leaked"}
    BY DEF LiveInv, LiveIsTyped, ListenersAreOpen
  <2> QED
    BY <1>1, <1>2, <1>4, <2>1, <2>2, <2>3, LettingGoKeeps
\* In the other cases the frame is taken off the wire.
<1>10. ASSUME wire' = rest, UNCHANGED <<stream, listeners>>, page' \in PageOf, page'.link = page.link, page'.act = page.act,
              Known(page'.jobs, server.jobs), Known(page'.best, server.jobs),
              page'.cursor \in {page.cursor, f.id},
              ~ page'.missed => /\ ~ page.missed
                                /\ \A j \in Jobs : Brings(f, j, server.jobs[j]) =>
                                     f.type \in {"snapshot", "jobs"} /\ f.jobs[j] = server.jobs[j]
                                /\ \A j \in Jobs : page.best[j] <= page'.best[j]
                                /\ f.type \in {"snapshot", "jobs"} => \A j \in Jobs : f.jobs[j] # 0 => f.jobs[j] <= page'.best[j]
       PROVE  LiveInv'
  <2>1. LiveIsTyped' /\ NothingIsAhead'
    BY <1>1, <1>3, <1>5, <1>10 DEF LiveInv, LiveIsTyped, NothingIsAhead
  <2>2. NewestIsOnItsWay'
    <3> SUFFICES ASSUME ~ page'.missed, NEW j \in Jobs PROVE IsOnItsWay(j)'
      BY DEF NewestIsOnItsWay
    <3>1. IsOnItsWay(j)
      BY <1>1, <1>10 DEF LiveInv, NewestIsOnItsWay
    <3>2. /\ server.jobs[j] \in Nat /\ page.best[j] \in Nat /\ page'.best[j] \in Nat
          /\ page'.best[j] <= server.jobs[j]
      <4>1. page'.best \in Versions
        BY <1>10 DEF PageOf
      <4> QED
        BY <1>2, <1>10, <4>1, LiveBounds DEF Versions, Known
    <3>3. CASE page.best[j] = server.jobs[j]
      <4>1. page'.best[j] = server.jobs[j]
        BY <1>10, <3>2, <3>3
      <4> QED
        BY <1>1, <4>1 DEF IsOnItsWay
    <3>4. CASE stream.pending[j] = server.jobs[j]
      BY <1>1, <1>10, <3>4 DEF IsOnItsWay
    <3>5. CASE stream.stage = "reading" /\ (stream.snap.read => stream.snap.jobs[j] = server.jobs[j])
      BY <1>1, <1>10, <3>5 DEF IsOnItsWay
    <3>6. CASE \E i \in 1 .. Len(wire) : Brings(wire[i], j, server.jobs[j])
      <4>1. PICK i \in 1 .. Len(wire) : Brings(wire[i], j, server.jobs[j])
        BY <3>6
      <4>2. CASE i = 1
        <5>1. page'.best[j] = server.jobs[j]
          BY <1>3, <1>10, <3>2, <4>1, <4>2
        <5> QED
          BY <1>1, <5>1 DEF IsOnItsWay
      <4>3. CASE i # 1
        <5> DEFINE h == i - 1
        <5>1. h \in 1 .. Len(rest) /\ wire[i] = rest[h]
          BY <1>3, <4>1, <4>3
        <5>2. UNCHANGED server /\ wire' = rest
          BY <1>1, <1>10
        <5> HIDE DEF h, f, rest
        <5>3. h \in 1 .. Len(wire') /\ Brings(wire'[h], j, server'.jobs[j])
          BY <4>1, <5>1, <5>2
        <5> QED
          BY <5>3 DEF IsOnItsWay
      <4> QED
        BY <4>2, <4>3
    <3> QED
      BY <3>1, <3>3, <3>4, <3>5, <3>6 DEF IsOnItsWay
  <2>3. StreamIsThePages' /\ ListenersAreOpen'
    <3>1. stream.stage # "closed"
      BY <1>1 DEF LiveInv, StreamIsThePages
    <3> QED
      BY <1>1, <1>10, <3>1 DEF LiveInv, StreamIsThePages, ListenersAreOpen
  <2>4. IdsGrow'
    <3>1. \A i \in 1 .. Len(rest) : spent.restarts = 0 => page.cursor < rest[i].id
      BY <1>3, <1>8
    <3> QED
      BY <1>1, <1>4, <1>5, <1>6, <1>8, <1>10, <3>1 DEF IdsGrow
  <2> QED
    BY <2>1, <2>2, <2>3, <2>4 DEF LiveInv
<1>11. Known(page.jobs, server.jobs) /\ Known(page.best, server.jobs)
  BY DEF LiveInv, NothingIsAhead
<1>12. CASE /\ page' = [page EXCEPT !.missed = TRUE, !.given = @ \/ f.type = "snapshot"]
            /\ wire' = rest /\ UNCHANGED <<stream, listeners>>
  <2> DEFINE given == page.given \/ f.type = "snapshot"
  <2>1. given \in BOOLEAN /\ page' = [page EXCEPT !.missed = TRUE, !.given = given]
    BY <1>2, <1>12 DEF PageOf
  <2> HIDE DEF given
  <2>2. /\ page' \in PageOf /\ page'.link = page.link /\ page'.act = page.act /\ page'.jobs = page.jobs
        /\ page'.best = page.best /\ page'.cursor = page.cursor /\ page'.missed
    BY <1>2, <2>1 DEF PageOf
  <2> QED
    BY <1>10, <1>11, <1>12, <2>2
<1>13. CASE f.whole /\ page' = Apply(heard, f) /\ wire' = rest /\ UNCHANGED <<stream, listeners>>
  <2>0. \A j \in Jobs : Brings(f, j, server.jobs[j]) =>
          f.type \in {"snapshot", "jobs"} /\ f.jobs[j] = server.jobs[j]
    <3>1. f.whole
      BY <1>13
    <3> QED
      BY ONLY <3>1, Zenon DEF Brings
  <2> DEFINE merged == MergeJobs(page.jobs, f.jobs)
  <2>1. /\ merged \in Versions /\ Known(merged, server.jobs)
        /\ \A j \in Jobs : merged[j] = IF f.jobs[j] = 0 THEN page.jobs[j] ELSE f.jobs[j]
    BY <1>2, <1>4, <1>11, VersionsMerge
  <2> HIDE DEF merged
  <2>2. ASSUME NEW jobs \in Versions, NEW metric \in 0 .. MaxMetric, Known(jobs, server.jobs),
               page' = Show(heard, jobs, metric),
               f.type \in {"snapshot", "jobs"} => \A j \in Jobs : f.jobs[j] # 0 => f.jobs[j] = jobs[j]
        PROVE  LiveInv'
    <3>1. /\ page' \in PageOf /\ page'.link = page.link /\ page'.missed = page.missed /\ page'.cursor = f.id
          /\ page'.act = page.act /\ page'.jobs = jobs
          /\ \A j \in Jobs : page'.best[j] = Max2(page.best[j], jobs[j])
      BY <1>7, <2>2, PageShows
    <3>2. ASSUME NEW j \in Jobs
          PROVE  page'.best[j] <= server.jobs[j] /\ page.best[j] <= page'.best[j] /\ jobs[j] <= page'.best[j]
      <4>1. page.best[j] \in Nat /\ jobs[j] \in Nat /\ page.best[j] <= server.jobs[j] /\ jobs[j] <= server.jobs[j]
        BY <1>2, <1>11, <2>2, LiveBounds DEF Versions, Known
      <4>2. page'.best[j] = IF page.best[j] > jobs[j] THEN page.best[j] ELSE jobs[j]
        BY <3>1 DEF Max2
      <4> QED
        BY <4>1, <4>2
    <3>3. Known(page'.best, server.jobs)
      BY <3>2 DEF Known
    <3> QED
      BY <1>10, <1>13, <2>2, <2>0, <3>1, <3>2, <3>3
  <2>3. CASE f.type = "snapshot"
    BY <1>4, <1>13, <2>2, <2>3 DEF Apply
  <2>4. CASE f.type = "metrics"
    BY <1>2, <1>4, <1>7, <1>11, <1>13, <2>2, <2>4 DEF Apply
  <2>5. CASE f.type = "jobs"
    BY <1>2, <1>7, <1>13, <2>1, <2>2, <2>5 DEF Apply, merged
  <2>6. CASE f.type \notin {"snapshot", "metrics", "jobs"}
    <3>1. page' = heard \/ page' = [heard EXCEPT !.timer = TRUE]
      BY <1>13, <2>6 DEF Apply
    <3>2. /\ page' \in PageOf /\ page'.link = page.link /\ page'.missed = page.missed /\ page'.cursor = f.id
          /\ page'.act = page.act /\ page'.jobs = page.jobs /\ page'.best = page.best
      BY <1>7, <3>1 DEF PageOf
    <3>3. \A j \in Jobs : page.best[j] <= page'.best[j]
      BY <1>2, <3>2, NothingIsKnown DEF Known
    <3> QED
      BY <1>10, <1>11, <1>13, <2>6, <2>0, <3>2, <3>3
  <2> QED
    BY <2>3, <2>4, <2>5, <2>6
<1> QED
  BY <1>1, <1>9, <1>12, <1>13

\* Every step of the API, its streams and the page keeps the invariant.
LEMMA LiveKeeps == LiveInv /\ [LiveNext]_liveVars => LiveInv'
<1>1. ASSUME LiveInv, UNCHANGED liveVars PROVE LiveInv'
  <2>1. LiveIsTyped' /\ NothingIsAhead'
    BY <1>1 DEF liveVars, LiveInv, LiveIsTyped, NothingIsAhead
  <2>2. NewestIsOnItsWay' /\ StreamIsThePages' /\ ListenersAreOpen' /\ IdsGrow'
    BY <1>1 DEF liveVars, LiveInv, NewestIsOnItsWay, IsOnItsWay, StreamIsThePages, ListenersAreOpen, IdsGrow
  <2> QED
    BY <2>1, <2>2 DEF LiveInv
<1>2. ASSUME LiveInv, ScopedOpens \/ ScopedLeaves PROVE LiveInv'
  <2>1. UNCHANGED <<server, stream, wire, page, loads, spent>>
    BY <1>2 DEF ScopedOpens, ScopedLeaves
  <2>2. /\ listeners' \subseteq {"page", "scoped"} /\ scoped' \in {"none", "reading", "left", "open", "closed", "leaked"}
        /\ ListenersAreOpen'
    BY <1>2, <2>1 DEF LiveInv, LiveIsTyped, ListenersAreOpen, ScopedOpens, ScopedLeaves
  <2>3. LiveIsTyped' /\ NothingIsAhead'
    BY <1>2, <2>1, <2>2 DEF LiveInv, LiveIsTyped, NothingIsAhead
  <2>4. NewestIsOnItsWay' /\ StreamIsThePages' /\ IdsGrow'
    BY <1>2, <2>1 DEF LiveInv, NewestIsOnItsWay, IsOnItsWay, StreamIsThePages, IdsGrow
  <2> QED
    BY <2>2, <2>3, <2>4 DEF LiveInv
<1> QED
  BY <1>1, <1>2, ConnectKeeps, SendsKeep, ReadsOfStreamKeep, JobsKeep, StoreKeeps, GoingsKeep, LoadsKeep, ReceiveKeeps DEF LiveNext

\* The invariant says what the page may rely on.
LEMMA LiveIsWhatItSays == LiveInv => StreamIsWhole
<1> SUFFICES ASSUME LiveInv PROVE StreamIsWhole
  OBVIOUS
<1>1. LiveTypeOK
  <2>1. /\ server \in ServerOf /\ stream \in StreamOf /\ wire \in Seq(FrameOf) /\ page \in PageOf
        /\ loads \in [Loaders -> LoadOf]
    BY DEF LiveInv, LiveIsTyped
  <2>2. \A i \in 1 .. Len(wire) : wire[i] \in FrameOf
    BY <2>1
  <2>3. \A i \in 1 .. Len(wire) : wire[i].type \in {"hello", "snapshot", "metrics", "jobs", "docker"}
    BY <2>2 DEF FrameOf, FrameTypes
  <2>4. \A l \in Loaders : loads[l].stage \in {"idle", "asked", "read"} /\ loads[l].got \in LiveData
    BY <2>1 DEF LoadOf
  <2>5. server \in [jobs : [Jobs -> 0 .. MaxVersion], metric : 0 .. MaxMetric, next : Nat \ {0}]
    BY <2>1 DEF ServerOf, Versions
  <2>6. /\ stream.stage \in {"closed", "reading", "loop", "dead"}
        /\ stream.pending \in [Jobs -> 0 .. MaxVersion] /\ stream.snap \in LiveData
        /\ stream.tick \in LiveData /\ stream.sent \in 0 .. MaxMetric + 1 /\ stream.docker \in BOOLEAN
    BY <2>1 DEF StreamOf, Versions
  <2>7. /\ page.link \in {"waiting", "up", "left"} /\ page.cursor \in Nat
        /\ page.jobs \in [Jobs -> 0 .. MaxVersion] /\ page.metric \in 0 .. MaxMetric
        /\ page.act \in Jobs \cup {NoAction}
    BY <2>1 DEF PageOf, Versions
  <2> QED
    BY <2>3, <2>4, <2>5, <2>6, <2>7 DEF LiveTypeOK, LiveInv, LiveIsTyped
<1>2. NewestWasShown
  <2> SUFFICES ASSUME Quiet PROVE page.best = server.jobs
    BY DEF NewestWasShown
  <2>1. page.best \in Versions /\ server.jobs \in Versions
    BY DEF LiveInv, LiveIsTyped, PageOf, ServerOf
  <2>2. ASSUME NEW j \in Jobs PROVE page.best[j] = server.jobs[j]
    <3>1. IsOnItsWay(j) /\ stream.stage # "reading" /\ Len(wire) = 0 /\ stream.pending[j] = 0
      BY LiveBounds DEF LiveInv, NewestIsOnItsWay, Quiet
    <3>2. page.best[j] \in Nat /\ server.jobs[j] \in Nat /\ page.best[j] <= server.jobs[j]
      BY <2>1, LiveBounds DEF LiveInv, NothingIsAhead, Known, Versions
    <3> QED
      BY <3>1, <3>2 DEF IsOnItsWay
  <2> QED
    BY <2>1, <2>2 DEF Versions
<1>3. NothingIsReplayed
  BY DEF LiveInv, IdsGrow, NothingIsReplayed
<1> QED
  BY <1>1, <1>2, <1>3 DEF LiveInv, StreamIsWhole

\* No change of a job is lost between the listener, the debounce, the snapshot
\* and the reconnections, no frame is replayed, and nobody who left listens on,
\* but for the one exception named (the live stream of the dashboard).
THEOREM StreamStaysWhole == LiveSpec => []StreamIsWhole
<1>1. LiveSpec => []LiveInv
  BY LiveOpens, LiveKeeps, PTL DEF LiveSpec
<1> QED
  BY <1>1, LiveIsWhatItSays, PTL

-----------------------------------------------------------------------------
(* DockerPage *)

\* What effects ask, what "load more" asks, a page in a list.
Question == [kind : {"first", "targets", "chart"}, vps : Vpses, key : Keys \cup {Nobody}]
Wanted   == [section : Sections, vps : Vpses, page : 1 .. LastPage, n : Nat, late : BOOLEAN]
PageRow  == [vps : Vpses, page : 1 .. LastPage]

\* What the page holds has its type, whatever has been asked.
PageIsTyped ==
  /\ shown \in [vps : Vpses, on : BOOLEAN]
  /\ asks \subseteq Question
  /\ more \subseteq Wanted
  /\ rows \in [Sections -> Seq(PageRow)]
  /\ cursor \in [Sections -> 0 .. LastPage]
  /\ moreOf \in Sections \cup {Nobody}
  /\ targets \in [scope : Vpses \cup {Nobody}, keys : SUBSET Keys, loading : BOOLEAN]
  /\ chosen \in Keys \cup {Nobody} /\ stray \subseteq Sections
  /\ pressed \in [turns : Nat, more : Nat]

\* What an effect asks is of the VPS shown, and of the targets and the first
\* pages there is one question each.
AsksAreOfTheHost ==
  /\ \A a \in asks : a.vps = shown.vps /\ (a.kind # "chart" => a.key = Nobody)
  /\ targets.scope \in Vpses => targets.keys \subseteq KeysOf[targets.scope]

\* Until the first pages are there, every "load more" that is out belongs to
\* a list of before, and no list has a page after which to ask.
FirstComesFirst ==
  (\E a \in asks : a.kind = "first") =>
    /\ \A m \in more : m.late
    /\ \A x \in Sections \ stray : rows[x] = <<>> /\ cursor[x] = 0

\* A page that is in time continues its list, and no other does.
MoreContinues ==
  /\ \A x \in Sections \ stray : cursor[x] # 0 => cursor[x] = Len(rows[x]) + 1
  /\ \A m \in more : ~ m.late /\ m.section \notin stray =>
       /\ m.vps = shown.vps /\ m.page = Len(rows[m.section]) + 1
       /\ \A o \in more : ~ o.late /\ o.section = m.section => o = m

\* The inductive invariant of the page, with the parts of PageIsOfTheHost it needs.
PageInv == /\ PageIsTyped /\ AsksAreOfTheHost /\ FirstComesFirst /\ MoreContinues
           /\ SelectionIsLive /\ ChartIsOfTheSelection /\ RowsAreContiguous

\* The page opens with nothing shown and two questions out.
LEMMA PageOpens == PInit => PageInv
<1> SUFFICES ASSUME PInit PROVE PageInv
  OBVIOUS
<1> USE DEF PInit
<1>1. PageIsTyped
  <2>1. asks \subseteq Question
    BY DEF Question, Ask
  <2>2. rows \in [Sections -> Seq(PageRow)] /\ cursor \in [Sections -> 0 .. LastPage]
    BY PageAssumption
  <2> QED
    BY <2>1, <2>2 DEF PageIsTyped
<1>2. AsksAreOfTheHost
  BY PageAssumption DEF AsksAreOfTheHost, Ask, Nobody
<1>3. FirstComesFirst /\ MoreContinues
  BY DEF FirstComesFirst, MoreContinues
<1>4. SelectionIsLive /\ ChartIsOfTheSelection /\ RowsAreContiguous
  BY DEF SelectionIsLive, ChartIsOfTheSelection, RowsAreContiguous, Ask
<1> QED
  BY <1>1, <1>2, <1>3, <1>4 DEF PageInv

\* A chart is asked of a container of the VPS it is asked for.
LEMMA ChartAsked ==
  ASSUME NEW s \in [vps : Vpses, on : BOOLEAN], NEW t, t.keys \subseteq Keys, NEW c, NEW a \in ChartAsks(s, t, c)
  PROVE  /\ a \in Question
         /\ a.kind = "chart" /\ a.vps = s.vps /\ a.key = c
BY DEF ChartAsks, Ask, TargetsFor, Question

\* Another VPS, another setting of the switch, a refresh: what is out is
\* cancelled or becomes late, and the lists begin anew.
LEMMA RerunKeeps ==
  ASSUME PageInv, NEW s \in [vps : Vpses, on : BOOLEAN], Rerun(s), pressed' \in [turns : Nat, more : Nat]
  PROVE  PageInv'
<1> DEFINE t == [targets EXCEPT !.loading = s.on, !.scope = IF s.on THEN @ ELSE Nobody]
           c == IF s.on THEN chosen ELSE Nobody
           new == IF s.on THEN {Ask("first", s.vps, Nobody), Ask("targets", s.vps, Nobody)} ELSE {}
<1>1. /\ shown' = s /\ rows' = [x \in Sections |-> <<>>] /\ cursor' = [x \in Sections |-> 0]
      /\ targets' = t /\ chosen' = c /\ chart' = {} /\ stray' = {} /\ moreOf' = moreOf
      /\ more' = {[m EXCEPT !.late = TRUE] : m \in more}
  BY DEF Rerun
<1>2. asks' = ChartAsks(s, t, c) \cup new
  <2>1. Cancel({"first", "targets", "chart"}) = {}
    BY DEF Cancel, PageInv, PageIsTyped, Question
  <2> QED
    BY <2>1 DEF Rerun
<1>3. t \in [scope : Vpses \cup {Nobody}, keys : SUBSET Keys, loading : BOOLEAN]
      /\ t.keys = targets.keys /\ t.loading = s.on /\ t.scope \in {targets.scope, Nobody}
  BY DEF PageInv, PageIsTyped
<1>4. c \in Keys \cup {Nobody} /\ (~ s.on => c = Nobody)
  BY DEF PageInv, PageIsTyped
<1>5. \A a \in new : /\ a \in Question
                     /\ a.vps = s.vps /\ a.key = Nobody /\ a.kind # "chart"
  BY DEF Ask, Question
<1>6. \A a \in ChartAsks(s, t, c) :
        /\ a \in Question
        /\ a.kind = "chart" /\ a.vps = s.vps /\ a.key = c
  <2>1. t.keys \subseteq Keys
    BY <1>3 DEF PageInv, PageIsTyped
  <2> HIDE DEF t, c
  <2> QED
    BY <2>1, ChartAsked
<1> HIDE DEF t, c, new
<1>7. /\ more' \subseteq Wanted
      /\ \A m \in more' : m.late
  <2>1. \A m \in Wanted : [m EXCEPT !.late = TRUE] \in Wanted /\ [m EXCEPT !.late = TRUE].late
    BY DEF Wanted
  <2> SUFFICES ASSUME NEW o \in more' PROVE o \in Wanted /\ o.late
    OBVIOUS
  <2>2. PICK m \in more : o = [m EXCEPT !.late = TRUE]
    BY <1>1
  <2> QED
    BY <2>1, <2>2 DEF PageInv, PageIsTyped
<1>8. PageIsTyped'
  <2>1. asks' \subseteq Question
    BY <1>2, <1>5, <1>6
  <2>2. rows' \in [Sections -> Seq(PageRow)]
        /\ cursor' \in [Sections -> 0 .. LastPage]
    BY <1>1, PageAssumption
  <2> QED
    BY <1>1, <1>3, <1>4, <1>7, <2>1, <2>2 DEF PageInv, PageIsTyped
<1>9. AsksAreOfTheHost'
  <2>1. Nobody \notin Vpses
    BY PageAssumption DEF Nobody
  <2> QED
    BY <1>1, <1>2, <1>3, <1>5, <1>6, <2>1 DEF PageInv, AsksAreOfTheHost
<1>10. FirstComesFirst' /\ MoreContinues'
  BY <1>1, <1>7 DEF FirstComesFirst, MoreContinues
<1>11. SelectionIsLive'
  BY <1>1, <1>3, <1>4 DEF SelectionIsLive
<1>12. ChartIsOfTheSelection'
  BY <1>1, <1>2, <1>5, <1>6 DEF ChartIsOfTheSelection
<1>13. RowsAreContiguous'
  BY <1>1 DEF RowsAreContiguous
<1> QED
  BY <1>8, <1>9, <1>10, <1>11, <1>12, <1>13 DEF PageInv

\* The three turns of the page.
LEMMA TurnsKeep ==
  ASSUME PageInv, GoTo \/ Switch \/ RefreshPage
  PROVE  PageInv'
<1>1. shown \in [vps : Vpses, on : BOOLEAN] /\ pressed \in [turns : Nat, more : Nat]
  BY DEF PageInv, PageIsTyped
<1>2. ASSUME NEW s \in [vps : Vpses, on : BOOLEAN], Turn(s) PROVE PageInv'
  <2>1. pressed' \in [turns : Nat, more : Nat]
    BY <1>1, <1>2 DEF Turn
  <2> QED
    BY <1>2, <2>1, RerunKeeps DEF Turn
<1>3. CASE GoTo
  BY <1>1, <1>2, <1>3 DEF GoTo
<1>4. CASE Switch
  BY <1>1, <1>2, <1>4 DEF Switch
<1>5. CASE RefreshPage
  BY <1>1, <1>2, <1>5 DEF RefreshPage
<1> QED
  BY <1>3, <1>4, <1>5

\* The first pages begin the lists they are of.
LEMMA FirstPagesKeep ==
  ASSUME PageInv, FirstPages
  PROVE  PageInv'
<1>1. PICK a \in asks, ok \in SUBSET Sections, rest \in SUBSET Sections :
        /\ a.kind = "first"
        /\ asks' = asks \ {a}
        /\ rows' = [x \in Sections |-> IF x \in ok THEN <<[vps |-> a.vps, page |-> 1]>> ELSE rows[x]]
        /\ cursor' = [x \in Sections |-> IF x \in ok \cap rest THEN 2 ELSE 0]
        /\ stray' = stray \ ok
        /\ UNCHANGED <<shown, more, moreOf, targets, chosen, chart, pressed>>
  BY DEF FirstPages
<1>2. a.vps = shown.vps /\ shown.vps \in Vpses
  BY DEF PageInv, AsksAreOfTheHost, PageIsTyped
<1>3. /\ \A m \in more : m.late
      /\ \A x \in Sections \ stray : rows[x] = <<>> /\ cursor[x] = 0
  BY <1>1 DEF PageInv, FirstComesFirst
<1>4. PageIsTyped'
  <2>1. \A x \in Sections : rows'[x] \in Seq(PageRow)
    <3> SUFFICES ASSUME NEW x \in Sections PROVE rows'[x] \in Seq(PageRow)
      OBVIOUS
    <3>1. [vps |-> a.vps, page |-> 1] \in PageRow
      BY <1>2, PageAssumption DEF PageRow
    <3>2. rows[x] \in Seq(PageRow)
      BY DEF PageInv, PageIsTyped
    <3> DEFINE r == [vps |-> a.vps, page |-> 1]
    <3>3. rows'[x] = <<r>> \/ rows'[x] = rows[x]
      BY <1>1
    <3> HIDE DEF r
    <3>4. r \in PageRow => <<r>> \in Seq(PageRow)
      OBVIOUS
    <3> QED
      BY <3>1, <3>2, <3>3, <3>4 DEF r
  <2>2. cursor' \in [Sections -> 0 .. LastPage]
    BY <1>1, PageAssumption
  <2> QED
    BY <1>1, <2>1, <2>2 DEF PageInv, PageIsTyped
<1>5. AsksAreOfTheHost' /\ SelectionIsLive' /\ ChartIsOfTheSelection'
  BY <1>1 DEF PageInv, AsksAreOfTheHost, SelectionIsLive, ChartIsOfTheSelection
<1>6. FirstComesFirst'
  <2>1. \A b \in asks : b.kind = "first" => b = a
    <3>1. \A b \in Question : b = [kind |-> b.kind, vps |-> b.vps, key |-> b.key]
      BY DEF Question
    <3>2. \A b \in asks : b \in Question /\ b.vps = shown.vps /\ (b.kind # "chart" => b.key = Nobody)
      BY DEF PageInv, AsksAreOfTheHost, PageIsTyped
    <3> QED
      BY <1>1, <3>1, <3>2
  <2> QED
    BY <1>1, <2>1 DEF FirstComesFirst
<1>7. MoreContinues'
  <2>1. \A x \in ok : x \in Sections /\ Len(rows'[x]) = 1
    BY <1>1
  <2>2. \A x \in Sections \ stray' : cursor'[x] # 0 => cursor'[x] = Len(rows'[x]) + 1
    BY <1>1, <2>1
  <2> QED
    BY <1>1, <1>3, <2>2 DEF MoreContinues
<1>8. RowsAreContiguous'
  <2> SUFFICES ASSUME NEW x \in Sections \ stray', NEW i \in 1 .. Len(rows'[x])
               PROVE  rows'[x][i] = [vps |-> shown'.vps, page |-> i]
    BY DEF RowsAreContiguous
  <2>1. CASE x \in ok
    <3>1. rows'[x] = <<[vps |-> a.vps, page |-> 1]>>
      BY <1>1, <2>1
    <3>2. i = 1
      BY <3>1
    <3> QED
      BY <1>1, <1>2, <3>1, <3>2
  <2>2. CASE x \notin ok
    BY <1>1, <1>3, <2>2
  <2> QED
    BY <2>1, <2>2
<1> QED
  BY <1>4, <1>5, <1>6, <1>7, <1>8 DEF PageInv

\* The targets come or go: the selection stays only if it is among them.
LEMMA TargetsKeep ==
  ASSUME PageInv, TargetsArrive
  PROVE  PageInv'
<1>1. PICK a \in asks : a.kind = "targets" /\ \E keys \in SUBSET KeysOf[a.vps] : SetTargets(a, keys)
  BY DEF TargetsArrive
<1>2. PICK keys \in SUBSET KeysOf[a.vps] : SetTargets(a, keys)
  BY <1>1
<1> DEFINE t == [scope |-> a.vps, keys |-> keys, loading |-> FALSE]
           c == Kept(chosen, t, shown.vps)
<1>3. /\ targets' = t /\ chosen' = c /\ chart' = {}
      /\ asks' = (Cancel({"chart"}) \ {a}) \cup ChartAsks(shown, t, c)
      /\ UNCHANGED <<shown, more, rows, cursor, moreOf, stray, pressed>>
  BY <1>2 DEF SetTargets
<1>4. a.vps = shown.vps /\ shown \in [vps : Vpses, on : BOOLEAN] /\ keys \subseteq Keys
  BY DEF PageInv, AsksAreOfTheHost, PageIsTyped, Keys
<1>5. c \in {chosen, Nobody} /\ (c # Nobody => c \in keys)
  BY <1>4 DEF Kept, TargetsFor
<1>6. \A b \in ChartAsks(shown, t, c) :
        /\ b \in Question
        /\ b.kind = "chart" /\ b.vps = shown.vps /\ b.key = c
  BY <1>4, ChartAsked
<1>7. Cancel({"chart"}) \subseteq asks /\ \A b \in Cancel({"chart"}) : b.kind # "chart"
  BY DEF Cancel
<1>8. t.scope = shown.vps /\ t.keys = keys /\ t \in [scope : Vpses \cup {Nobody}, keys : SUBSET Keys, loading : BOOLEAN]
  BY <1>4
<1> HIDE DEF t, c
<1>9. PageIsTyped'
  BY <1>3, <1>5, <1>6, <1>7, <1>8 DEF PageInv, PageIsTyped
<1>10. AsksAreOfTheHost'
  BY <1>3, <1>4, <1>6, <1>7, <1>8 DEF PageInv, AsksAreOfTheHost
<1>11. FirstComesFirst' /\ MoreContinues'
  BY <1>3, <1>6, <1>7 DEF PageInv, FirstComesFirst, MoreContinues
<1>12. SelectionIsLive'
  BY <1>3, <1>4, <1>5, <1>8 DEF SelectionIsLive
<1>13. ChartIsOfTheSelection' /\ RowsAreContiguous'
  BY <1>3, <1>6, <1>7 DEF PageInv, ChartIsOfTheSelection, RowsAreContiguous
<1> QED
  BY <1>9, <1>10, <1>11, <1>12, <1>13 DEF PageInv

\* The user selects a container of the VPS shown, or none.
LEMMA ChooseKeeps ==
  ASSUME PageInv, Choose
  PROVE  PageInv'
<1>1. PICK c \in TargetsFor(targets, shown.vps) \cup {Nobody} :
        /\ chosen' = c /\ chart' = {}
        /\ asks' = Cancel({"chart"}) \cup ChartAsks(shown, targets, c)
        /\ UNCHANGED <<shown, more, rows, cursor, moreOf, targets, stray, pressed>>
  BY DEF Choose
<1>2. shown \in [vps : Vpses, on : BOOLEAN] /\ targets.keys \subseteq Keys
  BY DEF PageInv, PageIsTyped
<1>3. c # Nobody => targets.scope = shown.vps /\ c \in targets.keys \cap KeysOf[shown.vps]
  BY <1>2 DEF PageInv, AsksAreOfTheHost, TargetsFor
<1>4. \A b \in ChartAsks(shown, targets, c) :
        /\ b \in Question
        /\ b.kind = "chart" /\ b.vps = shown.vps /\ b.key = c
  BY <1>2, ChartAsked
<1>5. Cancel({"chart"}) \subseteq asks /\ \A b \in Cancel({"chart"}) : b.kind # "chart"
  BY DEF Cancel
<1>6. PageIsTyped'
  BY <1>1, <1>2, <1>3, <1>4, <1>5 DEF PageInv, PageIsTyped
<1>7. AsksAreOfTheHost'
  BY <1>1, <1>4, <1>5 DEF PageInv, AsksAreOfTheHost
<1>8. FirstComesFirst' /\ MoreContinues'
  BY <1>1, <1>4, <1>5 DEF PageInv, FirstComesFirst, MoreContinues
<1>9. SelectionIsLive' /\ ChartIsOfTheSelection' /\ RowsAreContiguous'
  BY <1>1, <1>3, <1>4, <1>5 DEF PageInv, SelectionIsLive, ChartIsOfTheSelection, RowsAreContiguous
<1> QED
  BY <1>6, <1>7, <1>8, <1>9 DEF PageInv

\* The history arrives, of the container that is still selected.
LEMMA ChartKeeps ==
  ASSUME PageInv, ChartArrives
  PROVE  PageInv'
<1>1. PICK a \in asks :
        /\ a.kind = "chart" /\ asks' = asks \ {a}
        /\ chart' = {[vps |-> a.vps, key |-> a.key]} \/ chart' = chart
        /\ UNCHANGED <<shown, more, rows, cursor, moreOf, targets, chosen, stray, pressed>>
  BY DEF ChartArrives
<1>2. PageIsTyped' /\ AsksAreOfTheHost'
  BY <1>1 DEF PageInv, PageIsTyped, AsksAreOfTheHost
<1>3. FirstComesFirst' /\ MoreContinues' /\ SelectionIsLive' /\ RowsAreContiguous'
  BY <1>1 DEF PageInv, FirstComesFirst, MoreContinues, SelectionIsLive, RowsAreContiguous
<1>4. ChartIsOfTheSelection'
  BY <1>1 DEF PageInv, ChartIsOfTheSelection
<1> QED
  BY <1>2, <1>3, <1>4 DEF PageInv

\* "Load more" asks for the page that comes next, or knows that it is late.
LEMMA LoadMoreKeeps ==
  ASSUME PageInv, LoadMore
  PROVE  PageInv'
<1>1. PICK x \in Sections :
        /\ cursor[x] # 0
        /\ more' = more \cup {[section |-> x, vps |-> shown.vps, page |-> cursor[x], n |-> pressed.more,
                               late |-> x \in stray \/ \E m \in more : m.section = x /\ m.page = cursor[x]]}
        /\ moreOf' = x
        /\ pressed' = [pressed EXCEPT !.more = @ + 1]
        /\ UNCHANGED <<shown, asks, rows, cursor, targets, chosen, chart, stray>>
  BY DEF LoadMore
<1> DEFINE late == x \in stray \/ \E m \in more : m.section = x /\ m.page = cursor[x]
           q == [section |-> x, vps |-> shown.vps, page |-> cursor[x], n |-> pressed.more, late |-> late]
<1>2. /\ q.section = x /\ q.vps = shown.vps /\ q.page = cursor[x] /\ q.late = late
      /\ q \in Wanted
  BY <1>1, PageAssumption DEF PageInv, PageIsTyped, Wanted
<1>3. more' = more \cup {q}
  BY <1>1
<1>4. PageIsTyped'
  <2>1. pressed' \in [turns : Nat, more : Nat]
    BY <1>1 DEF PageInv, PageIsTyped
  <2>2. more' \subseteq Wanted
    BY <1>2, <1>3 DEF PageInv, PageIsTyped
  <2> QED
    BY <1>1, <2>1, <2>2 DEF PageInv, PageIsTyped
<1>5. ~ late => x \notin stray /\ \A m \in more : m.section = x => m.page # cursor[x]
  OBVIOUS
<1> HIDE DEF q, late
<1>6. AsksAreOfTheHost' /\ SelectionIsLive' /\ ChartIsOfTheSelection' /\ RowsAreContiguous'
  BY <1>1 DEF PageInv, AsksAreOfTheHost, SelectionIsLive, ChartIsOfTheSelection, RowsAreContiguous
<1>7. FirstComesFirst'
  <2> SUFFICES ASSUME \E a \in asks' : a.kind = "first"
               PROVE  \A m \in more' : m.late
    BY <1>1 DEF FirstComesFirst, PageInv
  <2>1. x \in stray
    BY <1>1 DEF PageInv, FirstComesFirst
  <2>2. late
    BY <2>1 DEF late
  <2> QED
    BY <1>1, <1>2, <1>3, <2>2 DEF PageInv, FirstComesFirst
<1>8. MoreContinues'
  <2>1. ASSUME ~ late PROVE cursor[x] = Len(rows[x]) + 1
    BY <1>1, <1>5, <2>1 DEF PageInv, MoreContinues
  <2>2. ASSUME NEW m \in more, ~ m.late, m.section = x, ~ late PROVE FALSE
    BY <1>1, <1>5, <2>1, <2>2 DEF PageInv, MoreContinues
  <2> SUFFICES ASSUME NEW m \in more', ~ m.late, m.section \notin stray
               PROVE  /\ m.vps = shown.vps /\ m.page = Len(rows[m.section]) + 1
                      /\ \A o \in more' : ~ o.late /\ o.section = m.section => o = m
    BY <1>1 DEF MoreContinues, PageInv
  <2>3. CASE m \in more
    <3>1. ~ (m.section = x /\ ~ late)
      BY <2>2, <2>3
    <3> QED
      BY <1>2, <1>3, <2>3, <3>1 DEF PageInv, MoreContinues
  <2>4. CASE m = q
    BY <1>2, <1>3, <2>1, <2>2, <2>4
  <2> QED
    BY <1>3, <2>3, <2>4
<1> QED
  BY <1>4, <1>6, <1>7, <1>8 DEF PageInv

\* A page that comes is put after the last one of its list.
LEMMA MorePagesKeep ==
  ASSUME PageInv, MorePages
  PROVE  PageInv'
<1>1. PICK m \in more :
        /\ more' = more \ {m} /\ moreOf' = Nobody
        /\ rows' = [rows EXCEPT ![m.section] = Extended(m.section, m)]
        /\ \E last \in BOOLEAN :
              cursor' = [cursor EXCEPT ![m.section] = IF last \/ m.page = LastPage THEN 0 ELSE m.page + 1]
        /\ stray' = IF m.late THEN stray \cup {m.section} ELSE stray
        /\ UNCHANGED <<shown, asks, targets, chosen, chart, pressed>>
  BY DEF MorePages
<1> DEFINE s == m.section
           r == [vps |-> m.vps, page |-> m.page]
<1>2. /\ s \in Sections /\ m.page \in 1 .. LastPage /\ m.vps \in Vpses /\ m.late \in BOOLEAN
      /\ rows \in [Sections -> Seq(PageRow)]
      /\ cursor \in [Sections -> 0 .. LastPage] /\ stray \subseteq Sections
  BY DEF PageInv, PageIsTyped, Wanted
<1>3. /\ rows' = [rows EXCEPT ![s] = Append(rows[s], r)]
      /\ rows'[s] = Append(rows[s], r) /\ \A x \in Sections \ {s} : rows'[x] = rows[x]
      /\ Len(rows'[s]) = Len(rows[s]) + 1 /\ Len(rows[s]) \in Nat
      /\ r \in PageRow
  <2>1. Extended(m.section, m) = Append(rows[s], r)
    BY DEF Extended
  <2>2. rows[s] \in Seq(PageRow)
    BY <1>2
  <2>3. r \in PageRow
    BY <1>2 DEF PageRow
  <2> QED
    BY <1>1, <1>2, <2>1, <2>2, <2>3
<1>4. /\ cursor' \in [Sections -> 0 .. LastPage] /\ cursor'[s] \in {0, m.page + 1}
      /\ \A x \in Sections \ {s} : cursor'[x] = cursor[x]
  <2>1. PICK last \in BOOLEAN :
          cursor' = [cursor EXCEPT ![s] = IF last \/ m.page = LastPage THEN 0 ELSE m.page + 1]
    BY <1>1
  <2>2. (IF last \/ m.page = LastPage THEN 0 ELSE m.page + 1) \in 0 .. LastPage
    BY <1>2, PageAssumption
  <2> QED
    BY <1>2, <2>1, <2>2
<1>5. ASSUME s \notin stray' PROVE /\ ~ m.late /\ s \notin stray /\ m.vps = shown.vps /\ m.page = Len(rows[s]) + 1
                                  /\ \A o \in more' : ~ (~ o.late /\ o.section = s)
  BY <1>1, <1>5 DEF PageInv, MoreContinues
<1>6. stray \subseteq stray' /\ stray' \subseteq Sections
  BY <1>1, <1>2
<1> HIDE DEF s, r
<1>7. PageIsTyped'
  <2>1. rows' \in [Sections -> Seq(PageRow)]
    <3>1. Append(rows[s], r) \in Seq(PageRow)
      BY <1>2, <1>3
    <3> QED
      BY <1>2, <1>3, <3>1
  <2> QED
    BY <1>1, <1>4, <1>6, <2>1 DEF PageInv, PageIsTyped
<1>8. AsksAreOfTheHost' /\ SelectionIsLive' /\ ChartIsOfTheSelection'
  BY <1>1 DEF PageInv, AsksAreOfTheHost, SelectionIsLive, ChartIsOfTheSelection
<1>9. FirstComesFirst'
  <2> SUFFICES ASSUME \E a \in asks' : a.kind = "first"
               PROVE  /\ \A o \in more' : o.late
                      /\ \A x \in Sections \ stray' : rows'[x] = <<>> /\ cursor'[x] = 0
    BY DEF FirstComesFirst
  <2>1. (\A o \in more : o.late) /\ \A x \in Sections \ stray : rows[x] = <<>> /\ cursor[x] = 0
    BY <1>1 DEF PageInv, FirstComesFirst
  <2>2. s \in stray'
    BY <1>5, <2>1
  <2> QED
    BY <1>1, <1>3, <1>4, <1>6, <2>1, <2>2
<1>10. MoreContinues'
  <2>1. \A x \in Sections \ stray' : cursor'[x] # 0 => cursor'[x] = Len(rows'[x]) + 1
    <3> SUFFICES ASSUME NEW x \in Sections \ stray', cursor'[x] # 0 PROVE cursor'[x] = Len(rows'[x]) + 1
      OBVIOUS
    <3>1. CASE x = s
      BY <1>3, <1>4, <1>5, <3>1
    <3>2. CASE x # s
      BY <1>3, <1>4, <1>6, <3>2 DEF PageInv, MoreContinues
    <3> QED
      BY <3>1, <3>2
  <2>2. ASSUME NEW o \in more', ~ o.late, o.section \notin stray'
        PROVE  /\ o.vps = shown.vps /\ o.page = Len(rows'[o.section]) + 1
               /\ \A z \in more' : ~ z.late /\ z.section = o.section => z = o
    <3>1. o \in more /\ o.section \in Sections /\ o.section \notin stray /\ more' \subseteq more
      BY <1>1, <1>6, <2>2 DEF PageInv, PageIsTyped, Wanted
    <3>2. o.section # s
      BY <1>5, <2>2
    <3> QED
      BY <1>1, <1>3, <2>2, <3>1, <3>2 DEF PageInv, MoreContinues
  <2> QED
    BY <1>1, <2>1, <2>2 DEF MoreContinues
<1>11. RowsAreContiguous'
  <2> SUFFICES ASSUME NEW x \in Sections \ stray', NEW i \in 1 .. Len(rows'[x])
               PROVE  rows'[x][i] = [vps |-> shown.vps, page |-> i]
    BY <1>1 DEF RowsAreContiguous
  <2>1. CASE x # s
    BY <1>3, <1>6, <2>1 DEF PageInv, RowsAreContiguous
  <2>2. CASE x = s /\ i = Len(rows[s]) + 1
    <3>1. rows'[x][i] = r
      BY <1>2, <1>3, <2>2
    <3>2. s \notin stray'
      BY <2>2
    <3> QED
      BY <1>5, <2>2, <3>1, <3>2 DEF r
  <2>3. CASE x = s /\ i # Len(rows[s]) + 1
    <3>1. i \in 1 .. Len(rows[s]) /\ rows'[x][i] = rows[s][i] /\ s \in Sections \ stray
      BY <1>2, <1>3, <1>6, <2>3
    <3> QED
      BY <3>1 DEF PageInv, RowsAreContiguous
  <2> QED
    BY <2>1, <2>2, <2>3
<1> QED
  BY <1>7, <1>8, <1>9, <1>10, <1>11 DEF PageInv

\* A page that cannot be read changes nothing but what is out.
LEMMA MoreFailsKeeps ==
  ASSUME PageInv, MoreFails
  PROVE  PageInv'
<1>1. PICK m \in more :
        /\ more' = more \ {m} /\ moreOf' = Nobody
        /\ UNCHANGED <<shown, asks, rows, cursor, targets, chosen, chart, stray, pressed>>
  BY DEF MoreFails
<1>2. PageIsTyped' /\ FirstComesFirst' /\ MoreContinues'
  BY <1>1 DEF PageInv, PageIsTyped, FirstComesFirst, MoreContinues
<1>3. AsksAreOfTheHost' /\ SelectionIsLive' /\ ChartIsOfTheSelection' /\ RowsAreContiguous'
  BY <1>1 DEF PageInv, AsksAreOfTheHost, SelectionIsLive, ChartIsOfTheSelection, RowsAreContiguous
<1> QED
  BY <1>2, <1>3 DEF PageInv

\* Every step of the page keeps the invariant.
LEMMA PageKeeps == PageInv /\ [PNext]_pageVars => PageInv'
<1> SUFFICES ASSUME PageInv, [PNext]_pageVars PROVE PageInv'
  OBVIOUS
<1>1. CASE UNCHANGED pageVars
  <2>1. PageIsTyped' /\ AsksAreOfTheHost'
    BY <1>1 DEF pageVars, PageInv, PageIsTyped, AsksAreOfTheHost
  <2>2. FirstComesFirst' /\ MoreContinues'
    BY <1>1 DEF pageVars, PageInv, FirstComesFirst, MoreContinues
  <2>3. SelectionIsLive' /\ ChartIsOfTheSelection' /\ RowsAreContiguous'
    BY <1>1 DEF pageVars, PageInv, SelectionIsLive, ChartIsOfTheSelection, RowsAreContiguous
  <2> QED
    BY <2>1, <2>2, <2>3 DEF PageInv
<1> QED
  BY <1>1, TurnsKeep, FirstPagesKeep, TargetsKeep, ChooseKeeps, ChartKeeps, LoadMoreKeeps,
     MorePagesKeep, MoreFailsKeeps DEF PNext

\* What the Docker page shows is of the VPS and the container selected: no answer to
\* a question of before is shown, and a list is its pages in order, unless a
\* page was put into it that had been asked for twice or of an earlier list.
THEOREM PageStaysOfTheHost == PInit /\ [][PNext]_pageVars => []PageIsOfTheHost
<1>1. PageInv => PageIsOfTheHost
  <2> SUFFICES ASSUME PageInv PROVE PageIsOfTheHost
    OBVIOUS
  <2>1. PageTypeOK
    <3>1. ASSUME NEW x \in Sections PROVE /\ cursor[x] \in 0 .. LastPage
                                          /\ \A i \in 1 .. Len(rows[x]) : rows[x][i].page \in 1 .. LastPage
      <4>1. cursor[x] \in 0 .. LastPage /\ rows[x] \in Seq(PageRow)
        BY DEF PageInv, PageIsTyped
      <4>2. \A i \in 1 .. Len(rows[x]) : rows[x][i] \in PageRow
        BY <4>1
      <4> QED
        BY <4>1, <4>2 DEF PageRow
    <3> QED
      BY <3>1 DEF PageInv, PageIsTyped, PageTypeOK, Question
  <2> QED
    BY <2>1 DEF PageInv, PageIsOfTheHost
<1> QED
  BY <1>1, PageOpens, PageKeeps, PTL

-----------------------------------------------------------------------------
(* DockerPanel *)

\* An operation, a status lookup that is out, a log load that is out.
Operation  == [vps : Hosts \cup {Unset}, key : AllKeys \cup {Unset}, status : 0 .. Last]
LookupAsk  == [n : 1 .. used.ops, id : Nat, status : 0 .. Last, read : BOOLEAN]
LogAsk     == [vps : Hosts, key : AllKeys \cup {Unset}, aborted : BOOLEAN, id : Nat]
\* The log loads that were not taken back.
LiveAsks(asked) == {a \in asked : ~ a.aborted}

\* What the panel holds has its type, whatever has been asked.
PanelIsTyped ==
  /\ host \in Hosts /\ enabled \in BOOLEAN
  /\ capability \in [state : {"none", "loading", "error", "ready"}, keys : SUBSET AllKeys]
  /\ target \in AllKeys \cup {Unset}
  /\ dialog \in BOOLEAN /\ busy \in BOOLEAN /\ checking \in BOOLEAN /\ logsLoading \in BOOLEAN /\ cut \in BOOLEAN
  /\ op \in [n : 0 .. MaxOps, vps : Hosts \cup {Unset}, key : AllKeys \cup {Unset}, status : 0 .. Last]
  /\ ops \in [1 .. MaxOps -> Operation]
  /\ used \in [goes : Nat, ops : 0 .. MaxOps, looks : Nat]
  /\ requests \subseteq 1 .. used.ops /\ lookups \subseteq LookupAsk /\ logAsks \subseteq LogAsk
  /\ logs = {} \/ \E x : logs = {x}

\* The check that is out is of the VPS shown, and so is what it said: until it
\* answers nothing is rendered, and the effect takes back a target it has not.
ChecksAreOfTheHost ==
  /\ probe \in {{}, {host}}
  /\ ~ enabled => probe = {} /\ capability.state = "none"
  /\ probe # {} => capability.state = "loading"
  /\ capability.state = "ready" => capability.keys \subseteq KeysAt[host]
  /\ capability.state = "ready" => target \in capability.keys \cup {Unset}

\* What is shown of an operation, or will be by a lookup, is of that operation
\* and no newer than it is.
ShownIsBehind ==
  /\ op.n # 0 => /\ op.n \in 1 .. used.ops
                 /\ op.vps = ops[op.n].vps /\ op.key = ops[op.n].key /\ op.status <= ops[op.n].status
  /\ op.n = 0 => op.status = 0
  /\ \A l \in lookups : l.status <= ops[l.n].status

\* Every operation was asked of a VPS, for a container of it.
ActionsAreAsked == \A n \in 1 .. used.ops : ops[n].vps \in Hosts /\ ops[n].key \in KeysAt[ops[n].vps]

\* An operation is shown only once its request is answered.
AnsweredFirst == op.n \notin requests /\ \A l \in lookups : l.n \notin requests

\* One log load can still change the panel.
OneLoadIsLive ==
  /\ \A a, b \in LiveAsks(logAsks) : a = b
  /\ LiveAsks(logAsks) # {} => logsLoading
  /\ logsLoading => LiveAsks(logAsks) # {} \/ cut

\* While the page stays on its VPS, one thing is asked at a time, and the
\* lookup that is out reads what is at least as new as what is shown.
OneAtATime ==
  used.goes = 0 =>
    /\ enabled /\ (probe # {} => target = Unset)
    /\ (dialog => ~ checking) /\ (requests # {} => dialog /\ busy) /\ (\A m, n \in requests : m = n)
    /\ (lookups # {} => checking) /\ (\A k, l \in lookups : k = l)
    /\ \A l \in lookups : l.read /\ l.n = op.n => l.status >= op.status

\* The inductive invariant of the panel.
PanelInv == /\ PanelIsTyped /\ ChecksAreOfTheHost /\ ActionsAreAsked /\ ShownIsBehind /\ AnsweredFirst
            /\ OneLoadIsLive /\ OneAtATime

\* The panel opens with its check out.
LEMMA PanelOpens == NInit => PanelInv
<1> SUFFICES ASSUME NInit PROVE PanelInv
  OBVIOUS
<1> USE DEF NInit, Unset, NoOp, Last
<1>0. MaxOps \in Nat
  BY PanelAssumption
<1>1. PanelIsTyped
  <2>1. /\ op \in [n : 0 .. MaxOps, vps : Hosts \cup {Unset}, key : AllKeys \cup {Unset}, status : 0 .. Last]
        /\ used \in [goes : Nat, ops : 0 .. MaxOps, looks : Nat]
        /\ capability \in [state : {"none", "loading", "error", "ready"}, keys : SUBSET AllKeys]
    BY <1>0
  <2>2. ops \in [1 .. MaxOps -> Operation]
    BY <1>0 DEF Operation
  <2> QED
    BY <2>1, <2>2 DEF PanelIsTyped
<1>2. ChecksAreOfTheHost /\ ActionsAreAsked /\ ShownIsBehind /\ AnsweredFirst
  BY <1>0 DEF ChecksAreOfTheHost, ActionsAreAsked, ShownIsBehind, AnsweredFirst
<1>3. OneLoadIsLive /\ OneAtATime
  BY DEF OneLoadIsLive, OneAtATime, LiveAsks
<1> QED
  BY <1>1, <1>2, <1>3 DEF PanelInv

\* Every operation asked is one of the API's.
LEMMA OperationsAreKnown ==
  ASSUME PanelInv
  PROVE  /\ MaxOps \in Nat /\ used.ops \in 0 .. MaxOps
         /\ \A n \in 1 .. used.ops : n \in 1 .. MaxOps /\ ops[n] \in Operation /\ ops[n].status \in 0 .. Last
<1>1. MaxOps \in Nat /\ used.ops \in 0 .. MaxOps
  BY PanelAssumption DEF PanelInv, PanelIsTyped
<1>2. \A n \in 1 .. used.ops : n \in 1 .. MaxOps
  BY <1>1
<1> QED
  BY <1>1, <1>2 DEF PanelInv, PanelIsTyped, Operation

\* A load that is taken back can change nothing.
LEMMA AbortedAreDead ==
  ASSUME PanelInv
  PROVE  /\ Aborted(logAsks) \subseteq LogAsk
         /\ LiveAsks(Aborted(logAsks)) = {}
<1>1. \A a \in LogAsk : [a EXCEPT !.aborted = TRUE] \in LogAsk /\ [a EXCEPT !.aborted = TRUE].aborted
  BY DEF LogAsk
<1>2. \A b \in Aborted(logAsks) : b \in LogAsk /\ b.aborted
  <2> SUFFICES ASSUME NEW b \in Aborted(logAsks) PROVE b \in LogAsk /\ b.aborted
    OBVIOUS
  <2>1. PICK a \in logAsks : b = [a EXCEPT !.aborted = TRUE]
    BY DEF Aborted
  <2> QED
    BY <1>1, <2>1 DEF PanelInv, PanelIsTyped
<1> QED
  BY <1>2 DEF LiveAsks

\* A panel whose only change is to what was asked of logs explains its loading
\* if the loads were taken back and that is remembered.
LEMMA TakenBack ==
  ASSUME PanelInv, logAsks' = Aborted(logAsks), UNCHANGED logsLoading,
         cut' = (cut \/ \E a \in logAsks : ~ a.aborted)
  PROVE  logAsks' \subseteq LogAsk /\ cut' \in BOOLEAN /\ OneLoadIsLive'
<1>1. logAsks' \subseteq LogAsk /\ LiveAsks(logAsks') = {}
  BY AbortedAreDead
<1>2. cut' \in BOOLEAN
  BY DEF PanelInv, PanelIsTyped
<1>3. logsLoading => cut'
  BY DEF PanelInv, OneLoadIsLive, LiveAsks
<1> QED
  BY <1>1, <1>2, <1>3 DEF OneLoadIsLive

\* Another VPS: its check replaces the one that is out.
LEMMA GoToHostKeeps == PanelInv /\ GoToHost => PanelInv'
<1> SUFFICES ASSUME PanelInv, GoToHost PROVE PanelInv'
  OBVIOUS
<1>1. PICK v \in Hosts \ {host} :
        /\ used' = [used EXCEPT !.goes = @ + 1] /\ host' = v
        /\ IF enabled THEN Check(v) ELSE UNCHANGED <<probe, capability>>
        /\ UNCHANGED <<enabled, target, dialog, operationVars, logVars>>
  BY DEF GoToHost
<1>2. used'.ops = used.ops /\ used'.goes # 0 /\ used' \in [goes : Nat, ops : 0 .. MaxOps, looks : Nat]
  BY <1>1 DEF PanelInv, PanelIsTyped
<1>3. PanelIsTyped' /\ ChecksAreOfTheHost'
  <2>1. capability' \in [state : {"none", "loading", "error", "ready"}, keys : SUBSET AllKeys]
    BY <1>1 DEF PanelInv, PanelIsTyped, Check
  <2>2. PanelIsTyped'
    BY <1>1, <1>2, <2>1 DEF PanelInv, PanelIsTyped, operationVars, logVars, LookupAsk
  <2>3. CASE enabled
    BY <1>1, <2>2, <2>3 DEF PanelInv, PanelIsTyped, ChecksAreOfTheHost, Check
  <2>4. CASE ~ enabled
    BY <1>1, <2>2, <2>4 DEF PanelInv, PanelIsTyped, ChecksAreOfTheHost
  <2> QED
    BY <2>2, <2>3, <2>4
<1>4. ActionsAreAsked' /\ ShownIsBehind' /\ AnsweredFirst' /\ OneLoadIsLive' /\ OneAtATime'
  BY <1>1, <1>2 DEF PanelInv, ActionsAreAsked, ShownIsBehind, AnsweredFirst, OneLoadIsLive, OneAtATime,
     operationVars, logVars
<1> QED
  BY <1>3, <1>4 DEF PanelInv

\* The switch is turned off: everything shown is taken back.
LEMMA DisableKeeps == PanelInv /\ Disable => PanelInv'
<1> SUFFICES ASSUME PanelInv, Disable PROVE PanelInv'
  OBVIOUS
<1>1. used'.ops = used.ops /\ used'.goes # 0 /\ used' \in [goes : Nat, ops : 0 .. MaxOps, looks : Nat]
  BY DEF Disable, PanelInv, PanelIsTyped
<1>2. logAsks' \subseteq LogAsk /\ cut' \in BOOLEAN /\ OneLoadIsLive'
  BY TakenBack DEF Disable
<1>3. PanelIsTyped'
  <2>1. op' \in [n : 0 .. MaxOps, vps : Hosts \cup {Unset}, key : AllKeys \cup {Unset}, status : 0 .. Last]
    BY PanelAssumption DEF Disable, NoOp, Last
  <2> QED
    BY <1>1, <1>2, <2>1 DEF Disable, PanelInv, PanelIsTyped, LookupAsk
<1>4. ChecksAreOfTheHost' /\ OneAtATime'
  BY <1>1 DEF Disable, PanelInv, PanelIsTyped, ChecksAreOfTheHost, OneAtATime
<1>5. ActionsAreAsked' /\ ShownIsBehind' /\ AnsweredFirst'
  BY <1>1, PanelAssumption DEF Disable, NoOp, PanelInv, PanelIsTyped, ActionsAreAsked, ShownIsBehind, AnsweredFirst
<1> QED
  BY <1>2, <1>3, <1>4, <1>5 DEF PanelInv

\* On again, or another try: the check is asked anew.
LEMMA ChecksKeep == PanelInv /\ (Enable \/ Retry) => PanelInv'
<1> SUFFICES ASSUME PanelInv, Enable \/ Retry PROVE PanelInv'
  OBVIOUS
<1>1. /\ enabled' = TRUE /\ Check(host)
      /\ UNCHANGED <<host, target, dialog, operationVars, logVars>>
  BY DEF Enable, Retry, PanelInv, PanelIsTyped
<1>2. used'.ops = used.ops /\ used'.goes # 0 /\ used' \in [goes : Nat, ops : 0 .. MaxOps, looks : Nat]
  <2>1. CASE Enable
    BY <2>1 DEF Enable, PanelInv, PanelIsTyped, OneAtATime
  <2>2. CASE Retry
    BY <2>2 DEF Retry, PanelInv, PanelIsTyped
  <2> QED
    BY <2>1, <2>2
<1>3. PanelIsTyped'
  <2>1. capability' \in [state : {"none", "loading", "error", "ready"}, keys : SUBSET AllKeys]
    BY <1>1 DEF PanelInv, PanelIsTyped, Check
  <2> QED
    BY <1>1, <1>2, <2>1 DEF PanelInv, PanelIsTyped, operationVars, logVars, LookupAsk
<1>4. ChecksAreOfTheHost'
  BY <1>1 DEF PanelInv, PanelIsTyped, ChecksAreOfTheHost, Check
<1>5. ActionsAreAsked' /\ ShownIsBehind' /\ AnsweredFirst' /\ OneLoadIsLive' /\ OneAtATime'
  BY <1>1, <1>2 DEF PanelInv, ActionsAreAsked, ShownIsBehind, AnsweredFirst, OneLoadIsLive, OneAtATime,
     operationVars, logVars
<1> QED
  BY <1>3, <1>4, <1>5 DEF PanelInv

\* The check answers: a target that is not of the VPS is taken back.
LEMMA CapabilityKeeps == PanelInv /\ CapabilityArrives => PanelInv'
<1> SUFFICES ASSUME PanelInv, CapabilityArrives PROVE PanelInv'
  OBVIOUS
<1>1. PICK v \in probe, keys \in SUBSET AllKeys, state \in {"ready", "error"} :
        /\ keys \subseteq KeysAt[v]
        /\ probe' = {} /\ capability' = [state |-> state, keys |-> keys]
        /\ Cleanup(keys)
        /\ UNCHANGED <<host, enabled, operationVars, logsLoading, used>>
  BY DEF CapabilityArrives
<1>2. v = host /\ enabled
  BY <1>1 DEF PanelInv, PanelIsTyped, ChecksAreOfTheHost
<1>3. /\ target' \in {target, Unset} /\ target' \in keys \cup {Unset} /\ (target = Unset => UNCHANGED <<target, dialog>>)
      /\ dialog' \in {dialog, FALSE} /\ (logs' = {} \/ logs' = logs)
      /\ logAsks' \subseteq LogAsk /\ cut' \in BOOLEAN /\ OneLoadIsLive'
  <2>1. CASE target = Unset \/ target \in keys
    BY <1>1, <2>1 DEF Cleanup, PanelInv, PanelIsTyped, OneLoadIsLive
  <2>2. CASE ~ (target = Unset \/ target \in keys)
    BY <1>1, <2>2, TakenBack DEF Cleanup
  <2> QED
    BY <2>1, <2>2
<1>4. PanelIsTyped'
  <2>1. UNCHANGED <<host, enabled, op, busy, checking, ops, requests, lookups, logsLoading, used>>
    BY <1>1 DEF operationVars
  <2>2. PanelIsTyped
    BY DEF PanelInv
  <2>3. capability' \in [state : {"none", "loading", "error", "ready"}, keys : SUBSET AllKeys]
    BY <1>1
  <2>4. /\ target' \in AllKeys \cup {Unset} /\ dialog' \in BOOLEAN
        /\ logs' = {} \/ \E x : logs' = {x}
    BY <1>3, <2>2 DEF PanelIsTyped
  <2>5. LookupAsk' = LookupAsk /\ lookups' \subseteq LookupAsk
    BY <2>1, <2>2 DEF PanelIsTyped, LookupAsk
  <2>6. /\ op' \in [n : 0 .. MaxOps, vps : Hosts \cup {Unset}, key : AllKeys \cup {Unset}, status : 0 .. Last]
        /\ ops' \in [1 .. MaxOps -> Operation]
        /\ used' \in [goes : Nat, ops : 0 .. MaxOps, looks : Nat]
    BY <2>1, <2>2 DEF PanelIsTyped
  <2>7. /\ host' \in Hosts /\ enabled' \in BOOLEAN /\ busy' \in BOOLEAN /\ checking' \in BOOLEAN
        /\ logsLoading' \in BOOLEAN /\ requests' \subseteq 1 .. used'.ops
    BY <2>1, <2>2 DEF PanelIsTyped
  <2> QED
    BY <1>3, <2>3, <2>4, <2>5, <2>6, <2>7 DEF PanelIsTyped
<1>5. ChecksAreOfTheHost'
  BY <1>1, <1>2, <1>3 DEF ChecksAreOfTheHost
<1>6. ActionsAreAsked' /\ ShownIsBehind' /\ AnsweredFirst'
  BY <1>1 DEF PanelInv, ActionsAreAsked, ShownIsBehind, AnsweredFirst, operationVars
<1>7. OneAtATime'
  BY <1>1, <1>3 DEF PanelInv, OneAtATime, operationVars
<1> QED
  BY <1>3, <1>4, <1>5, <1>6, <1>7 DEF PanelInv

\* The buttons that change nothing but what is selected and whether the dialog
\* is open.
LEMMA PressesKeep == PanelInv /\ (Pick \/ Press \/ CancelDialog) => PanelInv'
<1> SUFFICES ASSUME PanelInv, Pick \/ Press \/ CancelDialog PROVE PanelInv'
  OBVIOUS
<1> DEFINE Buttons == /\ UNCHANGED <<host, enabled, capability, probe, operationVars, logVars, used>>
                      /\ target' \in capability.keys \cup {target, Unset}
                      /\ dialog' \in BOOLEAN
                      /\ Rendered
                      /\ dialog' => (dialog \/ ~ checking)
                      /\ dialog' \/ ~ dialog \/ ~ busy
<1>0. dialog \in BOOLEAN
  BY DEF PanelInv, PanelIsTyped
<1>1. Buttons
  <2>1. CASE Pick
    BY <1>0, <2>1 DEF Pick, CanPress
  <2>2. CASE Press
    BY <1>0, <2>2 DEF Press, CanPress
  <2>3. CASE CancelDialog
    BY <1>0, <2>3 DEF CancelDialog
  <2> QED
    BY <2>1, <2>2, <2>3
<1>2. PanelIsTyped' /\ ChecksAreOfTheHost'
  BY <1>1 DEF PanelInv, PanelIsTyped, ChecksAreOfTheHost, operationVars, logVars, Rendered, LookupAsk
<1>3. ActionsAreAsked' /\ ShownIsBehind' /\ AnsweredFirst' /\ OneLoadIsLive'
  BY <1>1 DEF PanelInv, ActionsAreAsked, ShownIsBehind, AnsweredFirst, OneLoadIsLive, operationVars, logVars
<1>4. OneAtATime'
  <2>1. probe = {}
    BY <1>1 DEF PanelInv, ChecksAreOfTheHost, Rendered
  <2> QED
    BY <1>1, <2>1 DEF PanelInv, OneAtATime, operationVars
<1> QED
  BY <1>2, <1>3, <1>4 DEF PanelInv

\* Confirmed: the operation is asked of the VPS whose container was selected.
LEMMA ConfirmKeeps == PanelInv /\ Confirm => PanelInv'
<1> SUFFICES ASSUME PanelInv, Confirm PROVE PanelInv'
  OBVIOUS
<1> DEFINE n == used.ops + 1
           o == [vps |-> host, key |-> target, status |-> 0]
<1>1. /\ Rendered /\ dialog /\ Selected /\ ~ busy /\ busy' = TRUE
      /\ ops' = [ops EXCEPT ![n] = o] /\ requests' = requests \cup {n}
      /\ used' = [used EXCEPT !.ops = n]
      /\ UNCHANGED <<host, enabled, capability, probe, target, dialog, op, checking, lookups, logVars>>
  BY DEF Confirm
<1>2. /\ used.ops \in Nat /\ n \in 1 .. MaxOps /\ n \notin 1 .. used.ops /\ 1 .. n = (1 .. used.ops) \cup {n}
      /\ used' \in [goes : Nat, ops : 0 .. MaxOps, looks : Nat] /\ used'.ops = n /\ used'.goes = used.goes
  <2>1. used.ops < MaxOps
    BY DEF Confirm
  <2>2. used.ops \in Nat /\ n \in 1 .. MaxOps /\ n \notin 1 .. used.ops /\ 1 .. n = (1 .. used.ops) \cup {n}
    BY <2>1, OperationsAreKnown
  <2> QED
    BY <1>1, <2>2, OperationsAreKnown DEF PanelInv, PanelIsTyped
<1>3. o \in Operation /\ o.vps = host /\ o.key = target /\ target \in KeysAt[host]
  <2>1. target \in KeysAt[host]
    BY <1>1 DEF Rendered, Selected, PanelInv, PanelIsTyped, ChecksAreOfTheHost
  <2> QED
    BY <2>1 DEF Operation, Last, PanelInv, PanelIsTyped
<1>4. ops'[n] = o /\ \A m \in 1 .. used.ops : ops'[m] = ops[m]
  BY <1>1, <1>2 DEF PanelInv, PanelIsTyped
<1>5. lookups \subseteq LookupAsk' /\ \A l \in lookups : l.n \in 1 .. used.ops
  BY <1>2 DEF PanelInv, PanelIsTyped, LookupAsk
<1> HIDE DEF n, o
<1>6. PanelIsTyped'
  <2>1. ops' \in [1 .. MaxOps -> Operation]
    BY <1>1, <1>2, <1>3 DEF PanelInv, PanelIsTyped
  <2>2. requests' \subseteq 1 .. n
    BY <1>1, <1>2 DEF PanelInv, PanelIsTyped
  <2> QED
    BY <1>1, <1>2, <1>5, <2>1, <2>2 DEF PanelInv, PanelIsTyped, logVars
<1>7. ChecksAreOfTheHost' /\ OneLoadIsLive'
  BY <1>1 DEF PanelInv, ChecksAreOfTheHost, OneLoadIsLive, logVars
<1>8. ActionsAreAsked'
  BY <1>1, <1>2, <1>3, <1>4 DEF PanelInv, PanelIsTyped, ActionsAreAsked
<1>9. ShownIsBehind' /\ AnsweredFirst'
  <2>1. op.n \notin requests' /\ \A l \in lookups : l.n \notin requests'
    BY <1>1, <1>2, <1>5, PanelAssumption DEF PanelInv, ShownIsBehind, AnsweredFirst, PanelIsTyped
  <2> QED
    BY <1>1, <1>2, <1>4, <1>5, <2>1 DEF PanelInv, ShownIsBehind, AnsweredFirst
<1>10. OneAtATime'
  BY <1>1, <1>2 DEF PanelInv, OneAtATime, PanelIsTyped
<1> QED
  BY <1>6, <1>7, <1>8, <1>9, <1>10 DEF PanelInv

\* The request is answered: its operation is shown, or what was stays.
LEMMA ConfirmedKeeps == PanelInv /\ Confirmed => PanelInv'
<1> SUFFICES ASSUME PanelInv, Confirmed PROVE PanelInv'
  OBVIOUS
<1>1. PICK n \in requests :
        /\ requests' = requests \ {n} /\ busy' = FALSE /\ dialog' = FALSE
        /\ \/ op' = [n |-> n, vps |-> ops[n].vps, key |-> ops[n].key, status |-> 0] /\ checking' = FALSE
           \/ UNCHANGED <<op, checking>>
        /\ UNCHANGED <<host, enabled, capability, probe, target, ops, lookups, logVars, used>>
  BY DEF Confirmed
<1>2. n \in 1 .. used.ops /\ n \in 1 .. MaxOps /\ ops[n] \in Operation /\ used.ops \in Nat
  <2>1. n \in 1 .. used.ops
    BY DEF PanelInv, PanelIsTyped
  <2> QED
    BY <2>1, OperationsAreKnown
<1>3. PanelIsTyped'
  <2>1. op' \in [n : 0 .. MaxOps, vps : Hosts \cup {Unset}, key : AllKeys \cup {Unset}, status : 0 .. Last]
    BY <1>1, <1>2 DEF PanelInv, PanelIsTyped, Operation, Last
  <2> QED
    BY <1>1, <2>1 DEF PanelInv, PanelIsTyped, logVars, LookupAsk
<1>4. ChecksAreOfTheHost' /\ ActionsAreAsked' /\ OneLoadIsLive'
  BY <1>1 DEF PanelInv, ChecksAreOfTheHost, ActionsAreAsked, OneLoadIsLive, logVars
<1>5. ShownIsBehind' /\ AnsweredFirst'
  <2>1. ops[n].status \in Nat
    BY <1>2 DEF Operation, Last
  <2>2. ShownIsBehind'
    BY <1>1, <1>2, <2>1 DEF PanelInv, ShownIsBehind
  <2>3. AnsweredFirst'
    BY <1>1 DEF PanelInv, AnsweredFirst
  <2> QED
    BY <2>2, <2>3
<1>6. OneAtATime'
  BY <1>1 DEF PanelInv, OneAtATime
<1> QED
  BY <1>3, <1>4, <1>5, <1>6 DEF PanelInv

\* An operation moves on: what is shown of it is further behind.
LEMMA OperationKeeps == PanelInv /\ OperationMoves => PanelInv'
<1> SUFFICES ASSUME PanelInv, OperationMoves PROVE PanelInv'
  OBVIOUS
<1>1. PICK n \in 1 .. used.ops :
        /\ ops[n].status < Last /\ ops' = [ops EXCEPT ![n].status = @ + 1]
        /\ UNCHANGED <<host, enabled, capability, probe, target, dialog, op, busy, checking,
                       requests, lookups, logVars, used>>
  BY DEF OperationMoves
<1>2. \A m \in 1 .. used.ops : /\ m \in 1 .. MaxOps /\ ops[m] \in Operation /\ ops'[m] \in Operation
                               /\ ops'[m].vps = ops[m].vps /\ ops'[m].key = ops[m].key
                               /\ ops[m].status <= ops'[m].status
  <2> SUFFICES ASSUME NEW m \in 1 .. used.ops
               PROVE  /\ m \in 1 .. MaxOps /\ ops[m] \in Operation /\ ops'[m] \in Operation
                      /\ ops'[m].vps = ops[m].vps /\ ops'[m].key = ops[m].key
                      /\ ops[m].status <= ops'[m].status
    OBVIOUS
  <2>1. m \in 1 .. MaxOps /\ ops[m] \in Operation /\ ops \in [1 .. MaxOps -> Operation]
    BY OperationsAreKnown DEF PanelInv, PanelIsTyped
  <2>2. ops[m].status \in 0 .. Last
    BY <2>1 DEF Operation
  <2>3. ops'[m] = IF m = n THEN [ops[m] EXCEPT !.status = @ + 1] ELSE ops[m]
    BY <1>1, <2>1
  <2> QED
    BY <1>1, <2>1, <2>2, <2>3 DEF Operation, Last
<1>3. PanelIsTyped'
  <2>1. \A m \in 1 .. MaxOps : ops'[m] \in Operation
    BY <1>1, <1>2 DEF PanelInv, PanelIsTyped
  <2>2. ops' = [m \in 1 .. MaxOps |-> ops'[m]]
    BY <1>1 DEF PanelInv, PanelIsTyped
  <2>3. ops' \in [1 .. MaxOps -> Operation]
    BY <2>1, <2>2
  <2>4. UNCHANGED <<host, enabled, capability, probe, target, dialog, op, busy, checking, requests, lookups, logs,
                    logAsks, logsLoading, cut, used>>
    BY <1>1 DEF logVars
  <2>5. LookupAsk' = LookupAsk
    BY <2>4 DEF LookupAsk
  <2> QED
    BY <2>3, <2>4, <2>5 DEF PanelInv, PanelIsTyped
<1>4. ChecksAreOfTheHost' /\ OneLoadIsLive' /\ AnsweredFirst' /\ OneAtATime'
  BY <1>1 DEF PanelInv, ChecksAreOfTheHost, OneLoadIsLive, AnsweredFirst, OneAtATime, logVars
<1>5. ActionsAreAsked'
  BY <1>1, <1>2 DEF PanelInv, ActionsAreAsked
<1>6. ShownIsBehind'
  <2>1. \A m \in 1 .. used.ops : ops[m].status \in Int /\ ops'[m].status \in Int
    BY <1>2 DEF Operation, Last
  <2>2. \A l \in lookups : l.n \in 1 .. used.ops /\ l.status \in Int
    BY DEF PanelInv, PanelIsTyped, LookupAsk, Last
  <2>3. op.status \in Int
    BY DEF PanelInv, PanelIsTyped, Last
  <2> QED
    BY <1>1, <1>2, <2>1, <2>2, <2>3 DEF PanelInv, ShownIsBehind
<1> QED
  BY <1>3, <1>4, <1>5, <1>6 DEF PanelInv

\* A lookup is asked of the operation shown, while no other is out.
LEMMA LookUpKeeps == PanelInv /\ LookUp => PanelInv'
<1> SUFFICES ASSUME PanelInv, LookUp PROVE PanelInv'
  OBVIOUS
<1> DEFINE l == [n |-> op.n, id |-> used.looks, status |-> 0, read |-> FALSE]
<1>1. /\ CanPress /\ Visible /\ ~ checking /\ checking' = TRUE
      /\ lookups' = lookups \cup {l}
      /\ used' = [used EXCEPT !.looks = @ + 1]
      /\ UNCHANGED <<host, enabled, capability, probe, target, dialog, op, busy, ops, requests, logVars>>
  BY DEF LookUp
<1>2. used' \in [goes : Nat, ops : 0 .. MaxOps, looks : Nat] /\ used'.ops = used.ops /\ used'.goes = used.goes
  BY <1>1 DEF PanelInv, PanelIsTyped
<1>3. op.n \in 1 .. used.ops /\ op.n \in 1 .. MaxOps /\ ops[op.n].status \in Nat
  <2>1. op.n \in 1 .. used.ops
    BY <1>1 DEF Visible, PanelInv, ShownIsBehind
  <2>2. op.n \in 1 .. MaxOps
    BY <2>1 DEF PanelInv, PanelIsTyped
  <2> QED
    BY <2>1, <2>2 DEF PanelInv, PanelIsTyped, Operation, Last
<1>4. l \in LookupAsk /\ l.n = op.n /\ l.status = 0 /\ ~ l.read
  BY <1>3 DEF LookupAsk, Last, PanelInv, PanelIsTyped
<1> HIDE DEF l
<1>5. PanelIsTyped'
  BY <1>1, <1>2, <1>4 DEF PanelInv, PanelIsTyped, logVars, LookupAsk
<1>6. ChecksAreOfTheHost' /\ OneLoadIsLive' /\ ActionsAreAsked'
  BY <1>1, <1>2 DEF PanelInv, ChecksAreOfTheHost, OneLoadIsLive, ActionsAreAsked, logVars
<1>7. ShownIsBehind' /\ AnsweredFirst'
  BY <1>1, <1>2, <1>3, <1>4 DEF PanelInv, ShownIsBehind, AnsweredFirst
<1>8. OneAtATime'
  BY <1>1, <1>2, <1>4 DEF PanelInv, OneAtATime, CanPress
<1> QED
  BY <1>5, <1>6, <1>7, <1>8 DEF PanelInv

\* The lookup reads the operation as it is now.
LEMMA LookUpReadsKeeps == PanelInv /\ LookUpReads => PanelInv'
<1> SUFFICES ASSUME PanelInv, LookUpReads PROVE PanelInv'
  OBVIOUS
<1>1. PICK l \in lookups :
        /\ lookups' = (lookups \ {l}) \cup {[l EXCEPT !.read = TRUE, !.status = ops[l.n].status]}
        /\ UNCHANGED <<host, enabled, capability, probe, target, dialog, op, busy, checking, ops,
                       requests, logVars, used>>
  BY DEF LookUpReads
<1>0. UNCHANGED <<host, enabled, capability, probe, target, dialog, op, busy, checking, ops, requests, logVars, used>>
  BY <1>1
<1> DEFINE r == [l EXCEPT !.read = TRUE, !.status = ops[l.n].status]
<1>2. l \in LookupAsk /\ l.n \in 1 .. used.ops /\ l.n \in 1 .. MaxOps /\ ops[l.n].status \in 0 .. Last
  <2>1. l \in LookupAsk /\ l.n \in 1 .. used.ops
    BY DEF PanelInv, PanelIsTyped, LookupAsk
  <2> QED
    BY <2>1, OperationsAreKnown
<1>3. r \in LookupAsk /\ r.n = l.n /\ r.status = ops[l.n].status
  BY <1>2 DEF LookupAsk
<1>4. lookups' = (lookups \ {l}) \cup {r}
  BY <1>1
<1> HIDE DEF r
<1>5. PanelIsTyped'
  <2>1. LookupAsk' = LookupAsk /\ lookups' \subseteq LookupAsk
    BY <1>0, <1>3, <1>4 DEF LookupAsk, PanelInv, PanelIsTyped
  <2>2. UNCHANGED <<logs, logAsks, logsLoading, cut>>
    BY <1>0 DEF logVars
  <2>3. PanelIsTyped
    BY DEF PanelInv
  <2>4. ops' \in [1 .. MaxOps -> Operation] /\ used' \in [goes : Nat, ops : 0 .. MaxOps, looks : Nat]
    BY <1>0, <2>3 DEF PanelIsTyped
  <2>5. op' \in [n : 0 .. MaxOps, vps : Hosts \cup {Unset}, key : AllKeys \cup {Unset}, status : 0 .. Last]
    BY <1>0, <2>3 DEF PanelIsTyped
  <2>6. capability' \in [state : {"none", "loading", "error", "ready"}, keys : SUBSET AllKeys]
    BY <1>0, <2>3 DEF PanelIsTyped
  <2>7. /\ host' \in Hosts /\ enabled' \in BOOLEAN
        /\ target' \in AllKeys \cup {Unset}
        /\ dialog' \in BOOLEAN /\ busy' \in BOOLEAN /\ checking' \in BOOLEAN
        /\ logsLoading' \in BOOLEAN /\ cut' \in BOOLEAN
    BY <1>0, <2>2, <2>3 DEF PanelIsTyped
  <2>8. /\ requests' \subseteq 1 .. used'.ops /\ logAsks' \subseteq LogAsk
        /\ logs' = {} \/ \E x : logs' = {x}
    BY <1>0, <2>2, <2>3 DEF PanelIsTyped
  <2> QED
    BY <2>1, <2>4, <2>5, <2>6, <2>7, <2>8 DEF PanelIsTyped
<1>6. ChecksAreOfTheHost' /\ OneLoadIsLive' /\ ActionsAreAsked'
  BY <1>1 DEF PanelInv, ChecksAreOfTheHost, OneLoadIsLive, ActionsAreAsked, logVars
<1>7. ShownIsBehind' /\ AnsweredFirst'
  <2>1. \A k \in lookups' : k.n \notin requests
    BY <1>3, <1>4 DEF PanelInv, AnsweredFirst
  <2>2. \A k \in lookups' : k.status <= ops[k.n].status
    BY <1>2, <1>3, <1>4 DEF PanelInv, ShownIsBehind, Last
  <2> QED
    BY <1>1, <2>1, <2>2 DEF PanelInv, ShownIsBehind, AnsweredFirst
<1>8. OneAtATime'
  <2>1. r.n = op.n => r.status >= op.status
    BY <1>2, <1>3 DEF PanelInv, ShownIsBehind, PanelIsTyped, Last
  <2> QED
    BY <1>1, <1>4, <2>1 DEF PanelInv, OneAtATime
<1> QED
  BY <1>5, <1>6, <1>7, <1>8 DEF PanelInv

\* The lookup answers: the operation is shown as it was read.
LEMMA LookedUpKeeps == PanelInv /\ LookedUp => PanelInv'
<1> SUFFICES ASSUME PanelInv, LookedUp PROVE PanelInv'
  OBVIOUS
<1>1. PICK l \in lookups :
        /\ lookups' = lookups \ {l} /\ checking' = FALSE
        /\ \/ l.read /\ op' = [n |-> l.n, vps |-> ops[l.n].vps, key |-> ops[l.n].key, status |-> l.status]
           \/ UNCHANGED op
        /\ UNCHANGED <<host, enabled, capability, probe, target, dialog, busy, ops, requests, logVars, used>>
  BY DEF LookedUp
<1>2. /\ l \in LookupAsk /\ l.n \in 1 .. used.ops /\ l.n \in 1 .. MaxOps /\ ops[l.n] \in Operation
      /\ l.status \in 0 .. Last
  <2>1. l \in LookupAsk /\ l.n \in 1 .. used.ops /\ l.status \in 0 .. Last
    BY DEF PanelInv, PanelIsTyped, LookupAsk
  <2> QED
    BY <2>1, OperationsAreKnown
<1>3. PanelIsTyped'
  <2>1. op' \in [n : 0 .. MaxOps, vps : Hosts \cup {Unset}, key : AllKeys \cup {Unset}, status : 0 .. Last]
    <3>1. CASE UNCHANGED op
      BY <3>1 DEF PanelInv, PanelIsTyped
    <3>2. CASE op' = [n |-> l.n, vps |-> ops[l.n].vps, key |-> ops[l.n].key, status |-> l.status]
      BY <1>2, <3>2 DEF Operation
    <3> QED
      BY <1>1, <3>1, <3>2
  <2> QED
    BY <1>1, <2>1 DEF PanelInv, PanelIsTyped, logVars, LookupAsk
<1>4. ChecksAreOfTheHost' /\ OneLoadIsLive' /\ ActionsAreAsked'
  BY <1>1 DEF PanelInv, ChecksAreOfTheHost, OneLoadIsLive, ActionsAreAsked, logVars
<1>5. ShownIsBehind' /\ AnsweredFirst'
  BY <1>1, <1>2 DEF PanelInv, ShownIsBehind, AnsweredFirst
<1>6. OneAtATime'
  BY <1>1 DEF PanelInv, OneAtATime
<1> QED
  BY <1>3, <1>4, <1>5, <1>6 DEF PanelInv

\* The three steps of the logs: one load is live, and its flag goes with it.
LEMMA LogsKeep == PanelInv /\ (LoadLogs \/ LogsArrive \/ ClearLogs) => PanelInv'
<1> SUFFICES ASSUME PanelInv, LoadLogs \/ LogsArrive \/ ClearLogs PROVE PanelInv'
  OBVIOUS
<1>1. /\ UNCHANGED <<host, enabled, capability, probe, target, dialog, operationVars>>
      /\ used' \in [goes : Nat, ops : 0 .. MaxOps, looks : Nat] /\ used'.ops = used.ops /\ used'.goes = used.goes
  BY DEF LoadLogs, LogsArrive, ClearLogs, PanelInv, PanelIsTyped
<1>2. /\ logAsks' \subseteq LogAsk /\ logsLoading' \in BOOLEAN /\ cut' \in BOOLEAN
      /\ logs' = {} \/ \E x : logs' = {x}
      /\ OneLoadIsLive'
  <2>1. CASE LoadLogs
    <3> DEFINE a == [vps |-> host, key |-> target, aborted |-> FALSE, id |-> used.looks]
    <3>1. a \in LogAsk
      BY DEF LogAsk, PanelInv, PanelIsTyped
    <3>2. logAsks' = Aborted(logAsks) \cup {a} /\ logsLoading' /\ cut' = FALSE /\ logs' = logs
      BY <2>1 DEF LoadLogs
    <3> HIDE DEF a
    <3>3. logAsks' \subseteq LogAsk /\ LiveAsks(logAsks') \subseteq {a}
      BY <3>1, <3>2, AbortedAreDead DEF LiveAsks
    <3>4. a \in LiveAsks(logAsks')
      <4>1. ~ [vps |-> host, key |-> target, aborted |-> FALSE, id |-> used.looks].aborted
        OBVIOUS
      <4> QED
        BY <3>2, <4>1 DEF a, LiveAsks
    <3> QED
      BY <2>1, <3>2, <3>3, <3>4 DEF OneLoadIsLive, PanelInv, PanelIsTyped, LoadLogs
  <2>2. CASE LogsArrive
    <3>1. PICK a \in logAsks :
            /\ logAsks' = logAsks \ {a}
            /\ IF a.aborted THEN UNCHANGED <<logs, logsLoading>>
               ELSE /\ logs' \in {logs, {[vps |-> a.vps, key |-> a.key]}}
                    /\ logsLoading' = FALSE
            /\ UNCHANGED cut
      BY <2>2 DEF LogsArrive
    <3> DEFINE x == [vps |-> a.vps, key |-> a.key]
    <3>2. logs' \in {logs, {x}}
      BY <3>1
    <3> HIDE DEF x
    <3>3. logs' = {} \/ \E y : logs' = {y}
      BY <3>2 DEF PanelInv, PanelIsTyped
    <3>4. logAsks' \subseteq LogAsk /\ logsLoading' \in BOOLEAN /\ cut' \in BOOLEAN
      BY <3>1 DEF PanelInv, PanelIsTyped
    <3>5. OneLoadIsLive'
      BY <3>1 DEF PanelInv, OneLoadIsLive, LiveAsks
    <3> QED
      BY <3>3, <3>4, <3>5
  <2>3. CASE ClearLogs
    BY <2>3, AbortedAreDead DEF ClearLogs, OneLoadIsLive
  <2> QED
    BY <2>1, <2>2, <2>3
<1>3. PanelIsTyped'
  BY <1>1, <1>2 DEF PanelInv, PanelIsTyped, operationVars, LookupAsk
<1>4. ChecksAreOfTheHost' /\ ActionsAreAsked' /\ ShownIsBehind' /\ AnsweredFirst' /\ OneAtATime'
  BY <1>1 DEF PanelInv, ChecksAreOfTheHost, ActionsAreAsked, ShownIsBehind, AnsweredFirst, OneAtATime, operationVars
<1> QED
  BY <1>2, <1>3, <1>4 DEF PanelInv

\* Every step of the panel keeps what it holds.
LEMMA PanelKeeps == PanelInv /\ [NNext]_panelVars => PanelInv'
<1>1. ASSUME PanelInv, UNCHANGED panelVars PROVE PanelInv'
  <2>1. PanelIsTyped'
    BY <1>1 DEF panelVars, PanelInv, PanelIsTyped, LookupAsk
  <2>2. ChecksAreOfTheHost' /\ ActionsAreAsked' /\ ShownIsBehind' /\ AnsweredFirst'
    BY <1>1 DEF panelVars, PanelInv, ChecksAreOfTheHost, ActionsAreAsked, ShownIsBehind, AnsweredFirst
  <2>3. OneLoadIsLive' /\ OneAtATime'
    BY <1>1 DEF panelVars, PanelInv, OneLoadIsLive, OneAtATime
  <2> QED
    BY <2>1, <2>2, <2>3 DEF PanelInv
<1> QED
  BY <1>1, GoToHostKeeps, DisableKeeps, ChecksKeep, CapabilityKeeps, PressesKeep, ConfirmKeeps, ConfirmedKeeps,
     OperationKeeps, LookUpKeeps, LookUpReadsKeeps, LookedUpKeeps, LogsKeep DEF NNext

\* A set with one element at most is that small.
LEMMA AtMostOne == \A S : S = {} \/ (\E x : S = {x}) => Cardinality(S) <= 1
<1> SUFFICES ASSUME NEW S, S = {} \/ \E x : S = {x} PROVE Cardinality(S) <= 1
  OBVIOUS
<1>1. CASE S = {}
  BY <1>1, FS_EmptySet
<1>2. CASE \E x : S = {x}
  BY <1>2, FS_Singleton
<1> QED
  BY <1>1, <1>2

\* What the panel holds is what the user may rely on.
LEMMA PanelIsWhatItSays == PanelInv => PanelIsOfTheHost
<1> SUFFICES ASSUME PanelInv PROVE PanelIsOfTheHost
  OBVIOUS
<1>1. PanelTypeOK
  <2>1. Cardinality(probe) <= 1
    BY AtMostOne DEF PanelInv, ChecksAreOfTheHost
  <2>2. Cardinality(logs) <= 1
    BY AtMostOne DEF PanelInv, PanelIsTyped
  <2>3. probe \subseteq Hosts
    BY DEF PanelInv, PanelIsTyped, ChecksAreOfTheHost
  <2>4. requests \subseteq 1 .. MaxOps
    BY OperationsAreKnown DEF PanelInv, PanelIsTyped
  <2> QED
    BY <2>1, <2>2, <2>3, <2>4 DEF PanelInv, PanelIsTyped, PanelTypeOK
<1>2. ActionsHitTheirHost
  BY DEF PanelInv, ActionsAreAsked, ActionsHitTheirHost
<1>3. ShownIsOfTheHost
  <2> SUFFICES ASSUME Rendered, target # Unset
               PROVE  /\ target \in capability.keys \cap KeysAt[host]
                      /\ Visible => op.vps = host
    BY DEF ShownIsOfTheHost
  <2>1. target \in capability.keys \cap KeysAt[host]
    BY DEF Rendered, PanelInv, ChecksAreOfTheHost
  <2>2. ASSUME Visible PROVE op.vps = host
    <3>1. target \in KeysAt[op.vps] /\ op.vps \in Hosts
      BY <2>2 DEF Visible, PanelInv, ShownIsBehind, ActionsAreAsked
    <3> QED
      BY <2>1, <3>1, PanelAssumption DEF PanelInv, PanelIsTyped
  <2> QED
    BY <2>1, <2>2
<1>4. LoadingIsExplained
  <2>1. LiveAsks(logAsks) = {} \/ \E a : LiveAsks(logAsks) = {a}
    BY DEF PanelInv, OneLoadIsLive
  <2>2. Cardinality(LiveAsks(logAsks)) <= 1
    BY <2>1, AtMostOne
  <2> QED
    BY <2>2 DEF LoadingIsExplained, PanelInv, OneLoadIsLive, LiveAsks
<1> QED
  BY <1>1, <1>2, <1>3, <1>4 DEF PanelIsOfTheHost

\* While the page stays on its VPS, what is shown of an operation goes forward.
LEMMA StatusGoesForward ==
  PanelInv /\ [NNext]_panelVars => [used'.goes = 0 /\ op'.n = op.n => op'.status >= op.status]_panelVars
<1> SUFFICES ASSUME PanelInv, NNext, used'.goes = 0, op'.n = op.n PROVE op'.status >= op.status
  OBVIOUS
<1>1. op.status \in Int
  BY DEF PanelInv, PanelIsTyped, Last
<1>2. CASE UNCHANGED op
  BY <1>1, <1>2
<1>3. CASE Disable
  BY <1>3 DEF Disable, PanelInv, PanelIsTyped
<1>4. CASE Confirmed
  BY <1>1, <1>4 DEF Confirmed, PanelInv, AnsweredFirst
<1>5. CASE LookedUp
  <2>1. PICK l \in lookups :
          /\ \/ l.read /\ op' = [n |-> l.n, vps |-> ops[l.n].vps, key |-> ops[l.n].key, status |-> l.status]
             \/ UNCHANGED op
          /\ UNCHANGED used
    BY <1>5 DEF LookedUp
  <2> QED
    BY <1>1, <2>1 DEF PanelInv, OneAtATime
<1> QED
  BY <1>2, <1>3, <1>4, <1>5 DEF NNext, GoToHost, Enable, Retry, CapabilityArrives, Pick, Press, CancelDialog, Confirm,
     OperationMoves, LookUp, LookUpReads, LoadLogs, LogsArrive, ClearLogs, operationVars

\* The panel renders and sends only what is of the VPS it is on, in whatever
\* order its requests are answered (DockerManagementPanel).
THEOREM PanelStaysOfTheHost == NSpec => []PanelIsOfTheHost
<1>1. NSpec => []PanelInv
  BY PanelOpens, PanelKeeps, PTL DEF NSpec
<1> QED
  BY <1>1, PanelIsWhatItSays, PTL

\* While the page stays on its VPS no late lookup takes what is shown of an
\* operation back to an earlier status (DockerManagementPanel).
THEOREM StatusAlwaysFollows == NSpec => StatusFollows
<1>1. NSpec => []PanelInv
  BY PanelOpens, PanelKeeps, PTL DEF NSpec
<1> QED
  BY <1>1, StatusGoesForward, PTL DEF NSpec, StatusFollows

-----------------------------------------------------------------------------
(* UpgradeCard *)

\* The stages of a job; a host and its catalogue; a job as the API has it, and
\* as a page read it.
JobStages == {"queued", "restarting", "succeeded", "rolled_back", "rollback_unverified", "failed"}
Site      == [arch : BOOLEAN, release : Nat, api : BOOLEAN, artifact : BOOLEAN, fresh : BOOLEAN, build : Nat,
              updater : {"absent", "sick", "healthy"}]
RunOf     == [stage : JobStages, rev : Nat, swapped : BOOLEAN, release : Nat]
RunSeen   == [id : Nat, stage : JobStages \cup {"none"}, rev : Nat]

\* What the API tells of a host in a given state.
HostOf(s) == [available |-> IF Released(s) THEN s.release ELSE 0, artifact |-> Released(s) /\ s.artifact,
              reason |-> Reason(s), state |-> UpdateState(s), updater |-> s.updater]
Told(h)   == h = NoHost \/ \E s \in Site : h = HostOf(s)

\* j is no run, or a run as it was: no newer than the run, ended only if the
\* run has, failed only if it has.
SeenOf(runs, j) ==
  \/ j = NoRun
  \/ /\ j \in RunSeen /\ j.id \in 1 .. Len(runs)
     /\ j.rev <= runs[j.id].rev
     /\ Over(j.stage) => Over(runs[j.id].stage)
     /\ j.stage = "failed" => runs[j.id].stage = "failed"

\* The later runs continue the earlier ones.
Continues(old, new) ==
  /\ Len(old) <= Len(new)
  /\ \A i \in 1 .. Len(old) : /\ old[i].rev <= new[i].rev
                              /\ Over(old[i].stage) => Over(new[i].stage)
                              /\ old[i].stage = "failed" => new[i].stage = "failed"

\* What exists has its type; a job that is queued or failed has swapped nothing.
CardIsTyped ==
  /\ site \in Site
  /\ upgradeRuns \in Seq(RunOf)
  /\ \A i \in 1 .. Len(upgradeRuns) : upgradeRuns[i].stage \in {"queued", "failed"} => ~ upgradeRuns[i].swapped
  /\ left \in [upgrades : Nat, moves : Nat, losses : Nat]

\* What the page holds or is on its way to it was told by the API.
AllIsSeen ==
  /\ card = [status |-> card.status, job |-> card.job, dialog |-> card.dialog] /\ Told(card.status)
  /\ SeenOf(upgradeRuns, card.job)
  /\ \A j \in readings : SeenOf(upgradeRuns, j) /\ j.id = card.job.id /\ Live(card.job)
  /\ \A v \in views : Told(v.host) /\ SeenOf(upgradeRuns, v.job)

\* The request that creates a job is in one of its steps.
AskIsSound ==
  /\ ask \in [step : {"none", "sent", "answered", "reading"}, release : Nat,
              answer : {"none", "created", "active_job_exists", "release_changed", "refused"}, run : RunSeen]
  /\ ask.step = "answered" => ask.answer # "none"
  /\ ask.answer = "active_job_exists" => ask.run.id # 0
  /\ SeenOf(upgradeRuns, ask.run)

\* The inductive invariant of the card.
CardInv == CardIsTyped /\ AllIsSeen /\ AskIsSound

\* The card opens with nothing shown and nothing asked.
LEMMA CardOpens == CardInit => CardInv
<1> SUFFICES ASSUME CardInit PROVE CardInv
  OBVIOUS
<1>1. CardIsTyped
  BY CardAssumption DEF CardInit, CardIsTyped, Site
<1>2. AllIsSeen
  BY DEF CardInit, AllIsSeen, Blank, Told, SeenOf
<1>3. AskIsSound
  BY DEF CardInit, AskIsSound, NoAsk, NoRun, RunSeen, SeenOf
<1> QED
  BY <1>1, <1>2, <1>3 DEF CardInv

\* What was seen of a run stays true of it when the runs go on.
LEMMA SeenStays ==
  ASSUME NEW old, NEW new, Len(old) \in Nat, Len(new) \in Nat, Continues(old, new),
         \A i \in 1 .. Len(old) : old[i].rev \in Nat /\ new[i].rev \in Nat,
         NEW j, SeenOf(old, j)
  PROVE  SeenOf(new, j)
<1>1. CASE j = NoRun
  BY <1>1 DEF SeenOf
<1>2. CASE j # NoRun
  <2>1. j \in RunSeen /\ j.id \in 1 .. Len(old) /\ j.rev \in Nat /\ j.rev <= old[j.id].rev
    BY <1>2 DEF SeenOf, RunSeen
  <2>2. j.id \in 1 .. Len(new) /\ j.rev <= new[j.id].rev
    BY <2>1 DEF Continues
  <2> QED
    BY <1>2, <2>1, <2>2 DEF SeenOf, Continues
<1> QED
  BY <1>1, <1>2

\* A run that is read now is seen as it is.
LEMMA ReadIsSeen ==
  ASSUME CardInv, NEW i \in 1 .. Len(upgradeRuns)
  PROVE  SeenOf(upgradeRuns, ReadRun(i)) /\ ReadRun(i) \in RunSeen /\ ReadRun(i).id = i
<1>1. upgradeRuns[i] \in RunOf /\ i \in Nat
  BY DEF CardInv, CardIsTyped
<1>2. ReadRun(i) \in RunSeen /\ ReadRun(i).id = i
  BY <1>1 DEF ReadRun, RunOf, RunSeen
<1> QED
  BY <1>1, <1>2 DEF SeenOf, ReadRun, RunOf

\* So is the newest of them, if there is one.
LEMMA NewestIsSeen ==
  ASSUME CardInv
  PROVE  SeenOf(upgradeRuns, Newest) /\ Newest \in RunSeen
<1>1. CASE upgradeRuns = <<>>
  BY <1>1 DEF Newest, SeenOf, NoRun, RunSeen
<1>2. CASE upgradeRuns # <<>>
  <2>1. Len(upgradeRuns) \in 1 .. Len(upgradeRuns)
    BY <1>2 DEF CardInv, CardIsTyped
  <2> QED
    BY <1>2, <2>1, ReadIsSeen DEF Newest
<1> QED
  BY <1>1, <1>2

\* What the API answers about the host is what it tells of it now.
LEMMA ViewIsTold ==
  ASSUME CardInv
  PROVE  Told(View.host) /\ SeenOf(upgradeRuns, View.job)
<1>1. HostStatus = HostOf(site)
  BY DEF HostStatus, HostOf
<1> QED
  BY <1>1, NewestIsSeen DEF View, Told, CardInv, CardIsTyped

\* The runs go on while the page holds what it held.
LEMMA RunsGoOn ==
  ASSUME CardInv, CardIsTyped', Continues(upgradeRuns, upgradeRuns'), UNCHANGED <<card, readings, views>>
  PROVE  AllIsSeen' /\ \A j : SeenOf(upgradeRuns, j) => SeenOf(upgradeRuns', j)
<1>1. /\ Len(upgradeRuns) \in Nat /\ Len(upgradeRuns') \in Nat
      /\ \A i \in 1 .. Len(upgradeRuns) : upgradeRuns[i].rev \in Nat /\ upgradeRuns'[i].rev \in Nat
  <2>1. upgradeRuns \in Seq(RunOf) /\ upgradeRuns' \in Seq(RunOf) /\ Len(upgradeRuns) <= Len(upgradeRuns')
    BY DEF CardInv, CardIsTyped, Continues
  <2>2. \A i \in 1 .. Len(upgradeRuns) : upgradeRuns[i] \in RunOf /\ upgradeRuns'[i] \in RunOf
    BY <2>1
  <2>3. \A r \in RunOf : r.rev \in Nat
    BY DEF RunOf
  <2>4. Len(upgradeRuns) \in Nat /\ Len(upgradeRuns') \in Nat
    BY <2>1
  <2> QED
    BY <2>2, <2>3, <2>4
<1>2. \A j : SeenOf(upgradeRuns, j) => SeenOf(upgradeRuns', j)
  BY <1>1, SeenStays
<1> QED
  BY <1>2 DEF CardInv, AllIsSeen

\* A job is queued.
LEMMA QueueKeeps ==
  ASSUME CardInv, NEW release \in Nat, Queue(release), left.upgrades # 0, UNCHANGED <<site, card, readings, views>>
  PROVE  /\ CardIsTyped' /\ AllIsSeen'
         /\ \A j : SeenOf(upgradeRuns, j) => SeenOf(upgradeRuns', j)
         /\ SeenOf(upgradeRuns', [id |-> Len(upgradeRuns) + 1, stage |-> "queued", rev |-> 1])
<1> DEFINE r == [stage |-> "queued", rev |-> 1, swapped |-> FALSE, release |-> release]
           n == Len(upgradeRuns)
<1>1. r \in RunOf /\ r.stage = "queued" /\ r.rev = 1 /\ ~ r.swapped
  BY DEF RunOf, JobStages
<1>2. upgradeRuns' = Append(upgradeRuns, r) /\ left' = [left EXCEPT !.upgrades = @ - 1]
  BY DEF Queue
<1>3. upgradeRuns \in Seq(RunOf)
  BY DEF CardInv, CardIsTyped
<1> HIDE DEF r
<1>4. /\ n \in Nat /\ Len(upgradeRuns') = n + 1 /\ upgradeRuns'[n + 1] = r
      /\ \A i \in 1 .. n : upgradeRuns'[i] = upgradeRuns[i] /\ upgradeRuns[i] \in RunOf
      /\ upgradeRuns' \in Seq(RunOf)
  BY <1>1, <1>2, <1>3
<1>5. CardIsTyped'
  <2>1. left' \in [upgrades : Nat, moves : Nat, losses : Nat]
    BY <1>2 DEF CardInv, CardIsTyped
  <2>2. \A i \in 1 .. Len(upgradeRuns') : upgradeRuns'[i].stage \in {"queued", "failed"} => ~ upgradeRuns'[i].swapped
    <3>1. \A i \in 1 .. Len(upgradeRuns') : i \in 1 .. n \/ i = n + 1
      BY <1>4
    <3> QED
      BY <1>1, <1>4, <3>1 DEF CardInv, CardIsTyped
  <2> QED
    BY <1>4, <2>1, <2>2 DEF CardInv, CardIsTyped
<1>6. Continues(upgradeRuns, upgradeRuns')
  BY <1>4 DEF Continues, RunOf
<1>7. SeenOf(upgradeRuns', [id |-> Len(upgradeRuns) + 1, stage |-> "queued", rev |-> 1])
  <2> DEFINE j == [id |-> n + 1, stage |-> "queued", rev |-> 1]
  <2>1. j \in RunSeen /\ j.id = n + 1 /\ j.stage = "queued" /\ j.rev = 1
    BY <1>4 DEF RunSeen, JobStages
  <2> HIDE DEF j
  <2>2. j.id \in 1 .. Len(upgradeRuns') /\ j.rev <= upgradeRuns'[j.id].rev /\ ~ Over(j.stage)
    BY <1>1, <1>4, <2>1 DEF Over
  <2>3. SeenOf(upgradeRuns', j)
    BY <2>1, <2>2 DEF SeenOf
  <2> QED
    BY <2>3 DEF j
<1> QED
  BY <1>5, <1>6, <1>7, RunsGoOn

\* Another page creates a job.
LEMMA QueuedElsewhereKeeps == CardInv /\ QueuedElsewhere => CardInv'
<1> SUFFICES ASSUME CardInv, QueuedElsewhere PROVE CardInv'
  OBVIOUS
<1>1. site.release \in Nat /\ left.upgrades # 0 /\ Queue(site.release)
      /\ UNCHANGED <<site, card, ask, views, readings>>
  BY DEF QueuedElsewhere, Verdict, CardInv, CardIsTyped, Site
<1>2. CardIsTyped' /\ AllIsSeen' /\ \A j : SeenOf(upgradeRuns, j) => SeenOf(upgradeRuns', j)
  BY <1>1, QueueKeeps
<1> QED
  BY <1>1, <1>2 DEF CardInv, AskIsSound

\* A job moves on: it ends for good, and swaps before it can have succeeded.
LEMMA RunMovesKeeps == CardInv /\ RunMoves => CardInv'
<1> SUFFICES ASSUME CardInv, RunMoves PROVE CardInv'
  OBVIOUS
<1>0. PICK i \in DOMAIN upgradeRuns : \E stage \in NextStages(upgradeRuns[i].stage) \cap Stages :
        /\ upgradeRuns' = [upgradeRuns EXCEPT ![i].stage = stage, ![i].rev = @ + 1,
                                              ![i].swapped = @ \/ stage = "restarting"]
        /\ site' = IF stage = "succeeded"
                   THEN [site EXCEPT !.build = upgradeRuns[i].release, !.fresh = TRUE] ELSE site
        /\ UNCHANGED <<card, ask, views, readings, left>>
  BY DEF RunMoves
<1>1. PICK stage \in NextStages(upgradeRuns[i].stage) \cap Stages :
        /\ upgradeRuns' = [upgradeRuns EXCEPT ![i].stage = stage, ![i].rev = @ + 1,
                                              ![i].swapped = @ \/ stage = "restarting"]
        /\ site' = IF stage = "succeeded"
                   THEN [site EXCEPT !.build = upgradeRuns[i].release, !.fresh = TRUE] ELSE site
        /\ UNCHANGED <<card, ask, views, readings, left>>
  BY <1>0
<1>2. upgradeRuns \in Seq(RunOf) /\ i \in 1 .. Len(upgradeRuns) /\ Len(upgradeRuns) \in Nat /\ upgradeRuns[i] \in RunOf
  BY DEF CardInv, CardIsTyped
<1> DEFINE r == upgradeRuns[i]
           s == [r EXCEPT !.stage = stage, !.rev = @ + 1, !.swapped = @ \/ stage = "restarting"]
<1>3. /\ stage \in JobStages
      /\ Over(r.stage) => Over(stage)
      /\ r.stage # "failed"
      /\ stage \in {"queued", "failed"} => r.stage = "queued" /\ stage # "restarting"
  BY <1>2 DEF NextStages, RunOf, JobStages, Over
<1>4. /\ s \in RunOf /\ s.stage = stage /\ r.rev <= s.rev
      /\ s.stage \in {"queued", "failed"} => ~ s.swapped
  <2>1. r.stage = "queued" => ~ r.swapped
    BY <1>2 DEF CardInv, CardIsTyped
  <2>2. r \in RunOf /\ r = [stage |-> r.stage, rev |-> r.rev, swapped |-> r.swapped, release |-> r.release]
        /\ r.rev \in Nat /\ r.swapped \in BOOLEAN /\ r.release \in Nat
    BY <1>2 DEF RunOf
  <2> DEFINE w == r.swapped \/ stage = "restarting"
  <2>3. w \in BOOLEAN
    OBVIOUS
  <2>4. s = [r EXCEPT !.stage = stage, !.rev = r.rev + 1, !.swapped = w]
    OBVIOUS
  <2>5. stage \in {"queued", "failed"} => ~ w
    BY <1>3, <2>1, <2>2
  <2> HIDE DEF w, r, s
  <2>6. s = [stage |-> stage, rev |-> r.rev + 1, swapped |-> w, release |-> r.release]
    BY <2>2, <2>4
  <2>7. s \in RunOf
    BY <1>3, <2>2, <2>3, <2>6 DEF RunOf
  <2>8. s.stage = stage /\ s.rev = r.rev + 1 /\ s.swapped = w
    BY <2>6
  <2> QED
    BY <2>2, <2>5, <2>7, <2>8
<1>5. upgradeRuns' = [upgradeRuns EXCEPT ![i] = s]
  BY <1>1, <1>2
<1>6. UNCHANGED <<card, ask, views, readings, left>>
  BY <1>1
<1>7. site' \in Site
  <2>1. r.release \in Nat
    BY <1>2 DEF RunOf
  <2> QED
    BY <1>1, <2>1 DEF CardInv, CardIsTyped, Site
<1> HIDE DEF s
<1>8. /\ Len(upgradeRuns') = Len(upgradeRuns) /\ upgradeRuns' \in Seq(RunOf)
      /\ \A k \in 1 .. Len(upgradeRuns) : upgradeRuns'[k] = IF k = i THEN s ELSE upgradeRuns[k]
  BY <1>2, <1>4, <1>5
<1>9. CardIsTyped'
  BY <1>2, <1>4, <1>6, <1>7, <1>8 DEF CardInv, CardIsTyped
<1>10. Continues(upgradeRuns, upgradeRuns')
  <2> SUFFICES ASSUME NEW k \in 1 .. Len(upgradeRuns)
               PROVE  /\ upgradeRuns[k].rev <= upgradeRuns'[k].rev
                      /\ Over(upgradeRuns[k].stage) => Over(upgradeRuns'[k].stage)
                      /\ upgradeRuns[k].stage = "failed" => upgradeRuns'[k].stage = "failed"
    BY <1>2, <1>8 DEF Continues
  <2>1. CASE k = i
    BY <1>3, <1>4, <1>8, <2>1
  <2>2. CASE k # i
    <3>1. upgradeRuns'[k] = upgradeRuns[k] /\ upgradeRuns[k] \in RunOf
      BY <1>2, <1>8, <2>2
    <3>2. upgradeRuns[k].rev \in Nat
      BY <3>1 DEF RunOf
    <3> QED
      BY <3>1, <3>2
  <2> QED
    BY <2>1, <2>2
<1>11. AllIsSeen' /\ \A j : SeenOf(upgradeRuns, j) => SeenOf(upgradeRuns', j)
  BY <1>6, <1>9, <1>10, RunsGoOn
<1> QED
  BY <1>6, <1>9, <1>11 DEF CardInv, AskIsSound

\* The host and the catalogue change.
LEMMA SiteMovesKeeps == CardInv /\ SiteMoves => CardInv'
<1> SUFFICES ASSUME CardInv, SiteMoves PROVE CardInv'
  OBVIOUS
<1>1. CardIsTyped'
  BY CardAssumption DEF SiteMoves, CardInv, CardIsTyped, Site
<1>2. AllIsSeen' /\ AskIsSound'
  BY DEF SiteMoves, CardInv, AllIsSeen, AskIsSound
<1> QED
  BY <1>1, <1>2 DEF CardInv

\* What was read is shown: its polls go on, and its end has the status read.
LEMMA ShownKeeps ==
  ASSUME CardInv, UNCHANGED <<site, upgradeRuns>>, left' \in [upgrades : Nat, moves : Nat, losses : Nat],
         NEW j, SeenOf(upgradeRuns, j), NEW h, Told(h), NEW b, NEW polls, polls \subseteq readings,
         NEW rest, rest \subseteq views \cup {View},
         card' = [status |-> h, job |-> j, dialog |-> b],
         readings' = PollsAfter(j, polls), views' \subseteq ViewsAfter(j, rest)
  PROVE  CardIsTyped' /\ AllIsSeen'
<1>1. CardIsTyped'
  BY DEF CardInv, CardIsTyped
<1>2. views' \subseteq views \cup {View}
  BY DEF ViewsAfter
<1>3. \A v \in views' : Told(v.host) /\ SeenOf(upgradeRuns', v.job)
  BY <1>2, ViewIsTold DEF CardInv, AllIsSeen
<1>4. \A p \in readings' : SeenOf(upgradeRuns', p) /\ p.id = j.id /\ Live(j)
  BY DEF PollsAfter, CardInv, AllIsSeen
<1> HIDE DEF PollsAfter
<1>5. card'.status = h /\ card'.job = j /\ card'.dialog = b
  OBVIOUS
<1> QED
  BY <1>1, <1>3, <1>4, <1>5 DEF AllIsSeen

\* What was on its way is dropped, or the status is asked for.
LEMMA DroppedKeeps ==
  ASSUME CardInv, UNCHANGED <<site, upgradeRuns>>, left' \in [upgrades : Nat, moves : Nat, losses : Nat],
         card' = card, readings' \subseteq readings, views' \subseteq views \cup {View}
  PROVE  CardIsTyped' /\ AllIsSeen'
<1>1. CardIsTyped'
  BY DEF CardInv, CardIsTyped
<1>2. \A v \in views' : Told(v.host) /\ SeenOf(upgradeRuns', v.job)
  BY ViewIsTold DEF CardInv, AllIsSeen
<1> QED
  BY <1>1, <1>2 DEF CardInv, AllIsSeen

\* The reads of the page: asked, arrived or lost.
LEMMA ReadsKeep ==
  CardInv /\ (LoadStatus \/ (\E v \in views : StatusArrives(v)) \/ StatusLost
             \/ PollJob \/ (\E j \in readings : JobArrives(j)) \/ PollLost) => CardInv'
<1> SUFFICES ASSUME CardInv,
                    LoadStatus \/ (\E v \in views : StatusArrives(v)) \/ StatusLost
                    \/ PollJob \/ (\E j \in readings : JobArrives(j)) \/ PollLost
             PROVE  CardInv'
  OBVIOUS
<1>0. left \in [upgrades : Nat, moves : Nat, losses : Nat] /\ UNCHANGED <<site, upgradeRuns, ask>>
  BY DEF CardInv, CardIsTyped, LoadStatus, StatusArrives, StatusLost, PollJob, JobArrives, PollLost
<1>1. AskIsSound'
  BY <1>0 DEF CardInv, AskIsSound
<1>2. CASE LoadStatus
  BY <1>0, <1>1, <1>2, DroppedKeeps DEF LoadStatus, CardInv
<1>3. CASE StatusLost \/ PollLost
  <2>1. left' \in [upgrades : Nat, moves : Nat, losses : Nat]
    BY <1>0, <1>3 DEF StatusLost, PollLost
  <2> QED
    BY <1>0, <1>1, <1>3, <2>1, DroppedKeeps DEF StatusLost, PollLost, CardInv
<1>4. CASE PollJob
  <2>1. card.job.id \in 1 .. Len(upgradeRuns)
    BY <1>4 DEF PollJob, Live, CardInv, AllIsSeen, SeenOf, NoRun
  <2>2. SeenOf(upgradeRuns, ReadRun(card.job.id)) /\ ReadRun(card.job.id).id = card.job.id
    BY <2>1, ReadIsSeen
  <2> QED
    BY <1>1, <1>4, <2>2 DEF PollJob, CardInv, CardIsTyped, AllIsSeen
<1>5. CASE \E v \in views : StatusArrives(v)
  <2>1. PICK v \in views : StatusArrives(v)
    BY <1>5
  <2> DEFINE j == Merged(v.job)
             rest == views \ {v}
  <2>2. SeenOf(upgradeRuns, j) /\ Told(v.host)
    BY DEF Merged, CardInv, AllIsSeen
  <2>3. /\ card' = [card EXCEPT !.status = v.host, !.job = j]
        /\ readings' = PollsAfter(j, readings) /\ views' = ViewsAfter(j, rest) /\ left' = left
    BY <2>1 DEF StatusArrives
  <2> HIDE DEF j
  <2>4. card' = [status |-> v.host, job |-> j, dialog |-> card.dialog]
    BY <2>3 DEF CardInv, AllIsSeen
  <2> QED
    BY <1>0, <1>1, <2>2, <2>3, <2>4, ShownKeeps DEF CardInv
<1>6. CASE \E j \in readings : JobArrives(j)
  <2>1. PICK j \in readings : JobArrives(j)
    BY <1>6
  <2>2. SeenOf(upgradeRuns, j) /\ Told(card.status)
    BY DEF CardInv, AllIsSeen
  <2>3. /\ card' = [card EXCEPT !.job = j]
        /\ readings' = PollsAfter(j, readings \ {j}) /\ views' = ViewsAfter(j, views) /\ left' = left
    BY <2>1 DEF JobArrives
  <2>4. card' = [status |-> card.status, job |-> j, dialog |-> card.dialog]
    BY <2>3 DEF CardInv, AllIsSeen
  <2>5. readings \ {j} \subseteq readings
    OBVIOUS
  <2> QED
    BY <1>0, <1>1, <2>2, <2>3, <2>4, <2>5, ShownKeeps DEF CardInv
<1> QED
  BY <1>2, <1>3, <1>4, <1>5, <1>6

\* The dialog and the request: opened, closed, sent.
LEMMA ConfirmsKeep == CardInv /\ (OpenConfirm \/ CancelConfirm \/ ConfirmUpgrade) => CardInv'
<1> SUFFICES ASSUME CardInv, OpenConfirm \/ CancelConfirm \/ ConfirmUpgrade PROVE CardInv'
  OBVIOUS
<1>1. /\ UNCHANGED <<site, upgradeRuns, views, readings, left>>
      /\ card' = card \/ \E b : card' = [card EXCEPT !.dialog = b]
  BY DEF OpenConfirm, CancelConfirm, ConfirmUpgrade
<1>2. /\ card' = [status |-> card'.status, job |-> card'.job, dialog |-> card'.dialog]
      /\ card'.status = card.status /\ card'.job = card.job
  BY <1>1 DEF CardInv, AllIsSeen
<1>3. CardIsTyped' /\ AllIsSeen'
  BY <1>1, <1>2 DEF CardInv, CardIsTyped, AllIsSeen
<1>4. AskIsSound'
  <2>1. CASE ConfirmUpgrade
    <3>1. card.status.available \in Nat
      BY DEF CardInv, AllIsSeen, Told, NoHost, HostOf, Site
    <3>2. ask' = [step |-> "sent", release |-> card.status.available, answer |-> "none", run |-> NoRun]
      BY <2>1 DEF ConfirmUpgrade, NoAsk
    <3>3. NoRun \in RunSeen /\ SeenOf(upgradeRuns', NoRun)
      BY DEF NoRun, RunSeen, SeenOf
    <3> QED
      BY <3>1, <3>2, <3>3 DEF AskIsSound
  <2>2. CASE OpenConfirm \/ CancelConfirm
    BY <1>1, <2>2 DEF OpenConfirm, CancelConfirm, CardInv, AskIsSound
  <2> QED
    BY <2>1, <2>2
<1> QED
  BY <1>3, <1>4 DEF CardInv

\* No request is a request in its first step.
LEMMA NoAskIsSound == CardInv /\ ask' = NoAsk => AskIsSound'
BY DEF AskIsSound, NoAsk, NoRun, RunSeen, SeenOf, CardInv

\* The API creates the job, or says why not.
LEMMA CreateServedKeeps == CardInv /\ CreateServed => CardInv'
<1> SUFFICES ASSUME CardInv, CreateServed PROVE CardInv'
  OBVIOUS
<1> DEFINE verdict == Verdict(ask.release)
           run == CASE verdict = "created" -> [id |-> Len(upgradeRuns) + 1, stage |-> "queued", rev |-> 1]
                    [] verdict = "active_job_exists" -> Newest
                    [] OTHER -> NoRun
<1>1. /\ IF verdict = "created" THEN Queue(ask.release) ELSE UNCHANGED <<upgradeRuns, left>>
      /\ ask' = [ask EXCEPT !.step = "answered", !.answer = verdict, !.run = run]
      /\ UNCHANGED <<site, card, views, readings>>
  BY DEF CreateServed
<1>2. /\ verdict \in {"created", "active_job_exists", "release_changed", "refused"}
      /\ verdict = "active_job_exists" => Newest.id # 0
      /\ verdict = "created" => left.upgrades # 0
  BY DEF Verdict, Ongoing
<1>3. ask.release \in Nat /\ Len(upgradeRuns) \in Nat
  BY DEF CardInv, AskIsSound, CardIsTyped
<1>4. /\ verdict = "created" => run = [id |-> Len(upgradeRuns) + 1, stage |-> "queued", rev |-> 1]
      /\ verdict = "active_job_exists" => run = Newest
      /\ verdict \notin {"created", "active_job_exists"} => run = NoRun
  OBVIOUS
<1> HIDE DEF verdict, run
<1>5. CardIsTyped' /\ AllIsSeen' /\ SeenOf(upgradeRuns', run) /\ run \in RunSeen
  <2>1. CASE verdict = "created"
    <3>1. [id |-> Len(upgradeRuns) + 1, stage |-> "queued", rev |-> 1] \in RunSeen
      BY <1>3 DEF RunSeen, JobStages
    <3> QED
      BY <1>1, <1>2, <1>3, <1>4, <2>1, <3>1, QueueKeeps
  <2>2. CASE verdict # "created"
    <3>1. NoRun \in RunSeen /\ SeenOf(upgradeRuns, NoRun)
      BY DEF NoRun, RunSeen, SeenOf
    <3>2. CardIsTyped' /\ AllIsSeen'
      BY <1>1, <2>2 DEF CardInv, CardIsTyped, AllIsSeen
    <3> QED
      BY <1>1, <1>2, <1>4, <2>2, <3>1, <3>2, NewestIsSeen
  <2> QED
    BY <2>1, <2>2
<1>6. AskIsSound'
  BY <1>1, <1>2, <1>4, <1>5 DEF CardInv, AskIsSound
<1> QED
  BY <1>5, <1>6 DEF CardInv

\* The answer is dealt with.
LEMMA CreateAnsweredKeeps == CardInv /\ CreateAnswered => CardInv'
<1> SUFFICES ASSUME CardInv, CreateAnswered PROVE CardInv'
  OBVIOUS
<1>0. left' \in [upgrades : Nat, moves : Nat, losses : Nat] /\ UNCHANGED <<site, upgradeRuns>>
  BY DEF CreateAnswered, CardInv, CardIsTyped
<1>1. ask.answer \in {"created", "active_job_exists", "release_changed", "refused"}
  BY DEF CreateAnswered, CardInv, AskIsSound
<1>2. CASE ask.answer = "created"
  <2>1. /\ card' = [card EXCEPT !.job = ask.run, !.dialog = FALSE]
        /\ readings' = PollsAfter(ask.run, readings) /\ views' = ViewsAfter(ask.run, views) /\ ask' = NoAsk
    BY <1>2 DEF CreateAnswered
  <2>2. card' = [status |-> card.status, job |-> ask.run, dialog |-> FALSE]
    BY <2>1 DEF CardInv, AllIsSeen
  <2>3. SeenOf(upgradeRuns, ask.run) /\ Told(card.status)
    BY DEF CardInv, AskIsSound, AllIsSeen
  <2> QED
    BY <1>0, <2>1, <2>2, <2>3, ShownKeeps, NoAskIsSound DEF CardInv
<1>3. CASE ask.answer = "active_job_exists"
  <2>1. /\ card' = [card EXCEPT !.dialog = FALSE]
        /\ ask' = [ask EXCEPT !.step = "reading", !.run = ReadRun(ask.run.id)]
        /\ UNCHANGED <<views, readings>>
    BY <1>3 DEF CreateAnswered
  <2>2. card' = [status |-> card.status, job |-> card.job, dialog |-> FALSE]
    BY <2>1 DEF CardInv, AllIsSeen
  <2>3. CardIsTyped' /\ AllIsSeen'
    BY <1>0, <2>1, <2>2 DEF CardInv, CardIsTyped, AllIsSeen
  <2>4. ask.run.id \in 1 .. Len(upgradeRuns)
    BY <1>3 DEF CardInv, AskIsSound, SeenOf, NoRun
  <2>5. /\ SeenOf(upgradeRuns, ReadRun(ask.run.id)) /\ ReadRun(ask.run.id) \in RunSeen
        /\ ReadRun(ask.run.id).id # 0
    BY <2>4, ReadIsSeen
  <2>6. AskIsSound'
    BY <1>0, <2>1, <2>5 DEF CardInv, AskIsSound
  <2> QED
    BY <2>3, <2>6 DEF CardInv
<1>4. CASE ask.answer \in {"release_changed", "refused"}
  <2>1. card' = card /\ readings' = readings /\ views' \subseteq views \cup {View} /\ ask' = NoAsk
    BY <1>4 DEF CreateAnswered
  <2> QED
    BY <1>0, <2>1, DroppedKeeps, NoAskIsSound DEF CardInv
<1> QED
  BY <1>1, <1>2, <1>3, <1>4

\* The job that runs is shown, the request is lost, the page is loaded anew.
LEMMA EndsKeep == CardInv /\ (ExistingRead \/ AskLost \/ ReloadCard) => CardInv'
<1> SUFFICES ASSUME CardInv, ExistingRead \/ AskLost \/ ReloadCard PROVE CardInv'
  OBVIOUS
<1>0. /\ left' \in [upgrades : Nat, moves : Nat, losses : Nat] /\ UNCHANGED <<site, upgradeRuns>>
      /\ AskIsSound'
  BY NoAskIsSound DEF ExistingRead, AskLost, ReloadCard, CardInv, CardIsTyped
<1>1. CASE ExistingRead
  <2>1. card' = [status |-> card.status, job |-> ask.run, dialog |-> card.dialog]
    BY <1>1 DEF ExistingRead, CardInv, AllIsSeen
  <2>2. SeenOf(upgradeRuns, ask.run) /\ Told(card.status)
    BY DEF CardInv, AskIsSound, AllIsSeen
  <2> QED
    BY <1>0, <1>1, <2>1, <2>2, ShownKeeps DEF ExistingRead, CardInv
<1>2. CASE AskLost
  BY <1>0, <1>2, DroppedKeeps DEF AskLost, CardInv
<1>3. CASE ReloadCard
  <2>1. /\ card' = [status |-> NoHost, job |-> NoRun, dialog |-> FALSE]
        /\ readings' = {} /\ views' = {View}
    BY <1>3 DEF ReloadCard, Blank
  <2>2. AllIsSeen'
    BY <1>0, <2>1, ViewIsTold DEF AllIsSeen, Told, SeenOf
  <2> QED
    BY <1>0, <2>2 DEF CardInv, CardIsTyped
<1> QED
  BY <1>1, <1>2, <1>3

\* Every step of the card, the API and the jobs keeps the invariant.
LEMMA CardKeeps == CardInv /\ [CardNext]_cardVars => CardInv'
<1>1. ASSUME CardInv, UNCHANGED cardVars PROVE CardInv'
  BY <1>1 DEF cardVars, CardInv, CardIsTyped, AllIsSeen, AskIsSound
<1> QED
  BY <1>1, QueuedElsewhereKeeps, RunMovesKeeps, SiteMovesKeeps, ReadsKeep, ConfirmsKeep, CreateServedKeeps,
     CreateAnsweredKeeps, EndsKeep DEF CardNext

\* What a status can say: which state goes with which reason and updater.
LEMMA StatusMakesSense ==
  ASSUME NEW h, Told(h)
  PROVE  /\ h.state \in {"none", "incompatible", "release_unavailable", "unknown", "current", "available",
                         "updater_unavailable"}
         /\ h.state = "incompatible" => h.reason \in {"api_incompatible", "unsupported_architecture"}
         /\ h.state = "available" => h.updater = "healthy" /\ h.available # 0
         /\ h.state = "updater_unavailable" => h.updater # "healthy" /\ h.available # 0 /\ h.artifact
         /\ h.state = "unknown" => h.available # 0
         /\ h.state = "none" => h.available = 0 /\ h.updater = "absent"
<1>1. CASE h = NoHost
  BY <1>1 DEF NoHost
<1>2. CASE \E s \in Site : h = HostOf(s)
  <2>1. PICK s \in Site : h = HostOf(s)
    BY <1>2
  <2>2. /\ h.available = IF Released(s) THEN s.release ELSE 0
        /\ h.artifact = (Released(s) /\ s.artifact)
        /\ h.reason = Reason(s) /\ h.state = UpdateState(s) /\ h.updater = s.updater
    BY <2>1 DEF HostOf
  <2> QED
    BY <2>1, <2>2 DEF Released, Reason, UpdateState, Site
<1> QED
  BY <1>1, <1>2 DEF Told

\* What the page holds was told by the API, so it makes sense.
LEMMA CardIsWhatItSays == CardInv => CardIsTrue
<1> SUFFICES ASSUME CardInv PROVE CardIsTrue
  OBVIOUS
<1> DEFINE h == card.status
<1>1. Told(h) /\ SeenOf(upgradeRuns, card.job)
  BY DEF CardInv, AllIsSeen
<1>2. CardTypeOK
  <2>1. card.job.id \in 0 .. Len(upgradeRuns)
    BY <1>1 DEF SeenOf, NoRun, CardInv, CardIsTyped
  <2> QED
    BY <2>1 DEF CardInv, CardIsTyped, AskIsSound, CardTypeOK, Site
<1>3. /\ h.state \in {"none", "incompatible", "release_unavailable", "unknown", "current", "available",
                      "updater_unavailable"}
      /\ h.state = "incompatible" => h.reason \in {"api_incompatible", "unsupported_architecture"}
      /\ h.state = "available" => h.updater = "healthy" /\ h.available # 0
      /\ h.state = "updater_unavailable" => h.updater # "healthy" /\ h.available # 0 /\ h.artifact
      /\ h.state = "unknown" => h.available # 0
      /\ h.state = "none" => h.available = 0 /\ h.updater = "absent"
  BY <1>1, StatusMakesSense
<1>4. ReasonsAreTrue
  BY <1>3 DEF ReasonsAreTrue, DisplayedReason, UpgradeReason, ShowsUpgrade, UpgradeEnabled
<1>5. NoDeadEnd
  BY <1>3 DEF NoDeadEnd, DisplayedReason, UpgradeReason, ShowsUpgrade, UpgradeEnabled, ShowsInstructions, Instructed
<1>6. ShownIsReal
  <2>1. Over(card.job.stage) => Over(upgradeRuns[card.job.id].stage)
    BY <1>1 DEF SeenOf, NoRun, Over
  <2>2. \A j \in readings \cup {card.job} : j.id # 0 => j.rev <= upgradeRuns[j.id].rev
    BY <1>1 DEF CardInv, AllIsSeen, SeenOf, NoRun
  <2>3. Message = "failed before the swap" => card.job.stage = "failed"
    BY DEF Message
  <2>4. card.job.stage = "failed" => ~ upgradeRuns[card.job.id].swapped
    BY <1>1 DEF SeenOf, NoRun, CardInv, CardIsTyped
  <2> QED
    BY <2>1, <2>2, <2>3, <2>4 DEF ShownIsReal, CardInv, AllIsSeen
<1> QED
  BY <1>2, <1>4, <1>5, <1>6 DEF CardIsTrue

\* A job that is shown ended is replaced by no earlier reading of it, unless
\* the request of the user is being dealt with.
LEMMA OutcomeStays ==
  CardInv /\ [CardNext]_cardVars
    => [Over(card.job.stage) /\ card'.job.id = card.job.id /\ ~(Submitting /\ ask' = NoAsk)
          => card'.job.rev >= card.job.rev]_cardVars
<1> SUFFICES ASSUME CardInv, CardNext, Over(card.job.stage), card'.job.id = card.job.id,
                    ~ (Submitting /\ ask' = NoAsk)
             PROVE  card'.job.rev >= card.job.rev
  OBVIOUS
<1>1. card.job \in RunSeen /\ card.job.id # 0 /\ ~ Live(card.job) /\ card.job.rev \in Nat
  BY DEF CardInv, AllIsSeen, SeenOf, NoRun, Over, RunSeen, Live
<1>2. CASE UNCHANGED card \/ OpenConfirm \/ CancelConfirm
  <2>1. card'.job = card.job
    BY <1>2 DEF OpenConfirm, CancelConfirm, CardInv, AllIsSeen
  <2> QED
    BY <1>1, <2>1
<1>3. CASE \E v \in views : StatusArrives(v)
  <2>1. PICK v \in views : StatusArrives(v)
    BY <1>3
  <2>2. card'.job = Merged(v.job)
    BY <2>1 DEF StatusArrives, CardInv, AllIsSeen
  <2>3. v.job.id # 0 => v.job.rev \in Nat
    BY DEF CardInv, AllIsSeen, SeenOf, NoRun, RunSeen
  <2> QED
    BY <1>1, <2>2, <2>3 DEF Merged
<1>4. CASE \E j \in readings : JobArrives(j)
  BY <1>1, <1>4 DEF CardInv, AllIsSeen
<1>5. CASE CreateAnswered
  <2>1. ask.answer \in {"created", "active_job_exists", "release_changed", "refused"} /\ Submitting
    BY <1>5 DEF CreateAnswered, Submitting, CardInv, AskIsSound
  <2>2. ask.answer = "active_job_exists"
    BY <1>5, <2>1 DEF CreateAnswered
  <2>3. card' = [card EXCEPT !.dialog = FALSE]
    BY <1>5, <2>2 DEF CreateAnswered
  <2> QED
    BY <1>1, <2>3 DEF CardInv, AllIsSeen
<1>6. CASE ExistingRead
  BY <1>6 DEF ExistingRead, Submitting
<1>7. CASE ReloadCard
  BY <1>1, <1>7 DEF ReloadCard, Blank, NoRun
<1> QED
  BY <1>2, <1>3, <1>4, <1>5, <1>6, <1>7 DEF CardNext, QueuedElsewhere, RunMoves, SiteMoves, LoadStatus, StatusLost,
     PollJob, PollLost, ConfirmUpgrade, CreateServed, AskLost

\* The card shows jobs as they once were, and offers what can be done, in
\* whatever order its polls are answered (LocalUpgradeCard).
THEOREM CardStaysTrue == CardInit /\ [][CardNext]_cardVars => []CardIsTrue
<1>1. CardInit /\ [][CardNext]_cardVars => []CardInv
  BY CardOpens, CardKeeps, PTL
<1> QED
  BY <1>1, CardIsWhatItSays, PTL

\* An outcome that is shown is not taken back by a poll that comes late.
THEOREM OutcomeIsAlwaysKept == CardInit /\ [][CardNext]_cardVars => OutcomeIsKept
<1>1. CardInit /\ [][CardNext]_cardVars => []CardInv
  BY CardOpens, CardKeeps, PTL
<1> QED
  BY <1>1, OutcomeStays, PTL DEF OutcomeIsKept

-----------------------------------------------------------------------------
(* ReleaseCatalog *)

\* The text of a manifest, a snapshot kept, a refresh under way, a call.
TextKept   == [signature : {"unreadable", "none", "invalid", "valid"}, schema : BOOLEAN,
               release : {0} \cup Releases, channel : {"none", "stable", "other"}]
SnapshotOf == [text : TextKept, named : {0} \cup Releases, at : Nat]
FetchOf    == [step : {"none", "requested", "reading"}, document : {"none", "pointer", "manifest"}, url : Urls,
               hop : 0 .. MaxHops, size : 0 .. Cap, named : {0} \cup Releases, began : Nat]
CallOf     == [step : {"idle", "waiting", "answered"}, began : Nat, want : {0} \cup Releases,
               status : {"none", "ok", "unavailable", "not_found"}, release : {0} \cup Releases, at : Nat]

\* The catalogue's state has its type.
CatalogIsTyped ==
  /\ config \in {"enabled", "disabled"} /\ clock \in 1 .. MaxClock
  /\ snapshot \in SnapshotOf /\ fetch \in FetchOf
  /\ refreshes \in 0 .. MaxRefreshes /\ failedAt \in Nat /\ until \in Nat
  /\ calling \in [Callers -> CallOf]

\* A snapshot kept is one that was verified.
SnapshotIsVouched ==
  snapshot.at # 0 => /\ snapshot.text.signature = "valid" /\ snapshot.text.schema
                     /\ snapshot.text.release = snapshot.named

\* A call that is answered with a release was answered from such a snapshot in
\* its time.
AnswerIsVouched(call) ==
  call.status = "ok" => /\ config = "enabled" /\ call.want \in {0, call.release}
                        /\ call.at # 0 /\ call.began < call.at + TTL

\* A call that waits was made before, of a service that is enabled and refreshes.
CallIsSound(call) ==
  /\ AnswerIsVouched(call)
  /\ call.step = "waiting" => /\ call.status = "none" /\ call.began <= clock
                              /\ config = "enabled" /\ fetch.step # "none"

\* A refresh goes only where it may, and not before a failure is waited out.
FetchIsSound ==
  /\ ~ strayed
  /\ fetch.step # "none" => config = "enabled"
  /\ failedAt # 0 => failed # "none" /\ until = failedAt + Backoff
  /\ fetch.step # "none" /\ failedAt # 0 => fetch.began >= failedAt + Backoff

\* The inductive invariant of the catalogue.
CatalogInv == CatalogIsTyped /\ SnapshotIsVouched /\ (\A c \in Callers : CallIsSound(calling[c])) /\ FetchIsSound

\* The bounds are numbers.
LEMMA CatalogBounds ==
  /\ TTL \in Nat /\ TTL # 0 /\ MaxClock \in Nat /\ MaxClock # 0
  /\ Backoff \in Nat /\ MaxHops \in Nat /\ Cap \in Nat /\ MaxRefreshes \in Nat
BY CatalogAssumption

\* No refresh, no call.
LEMMA NothingYet == NoFetch \in FetchOf /\ NoFetch.step = "none" /\ NoCall \in CallOf
BY CatalogBounds DEF NoFetch, FetchOf, NoCall, CallOf, Urls

\* The service begins with nothing.
LEMMA CatalogOpens == CatalogInit => CatalogInv
<1> SUFFICES ASSUME CatalogInit PROVE CatalogInv
  OBVIOUS
<1>1. config \in {"enabled", "disabled"}
  BY DEF CatalogInit, ParsedConfig
<1>2. CatalogIsTyped
  <2>1. NoSnapshot \in SnapshotOf
    BY DEF NoSnapshot, NoText, SnapshotOf, TextKept
  <2> QED
    BY <1>1, <2>1, NothingYet, CatalogBounds DEF CatalogInit, CatalogIsTyped
<1>3. SnapshotIsVouched /\ FetchIsSound
  BY NothingYet DEF CatalogInit, SnapshotIsVouched, FetchIsSound, NoSnapshot
<1>4. \A c \in Callers : CallIsSound(calling[c])
  BY DEF CatalogInit, CallIsSound, AnswerIsVouched, NoCall
<1> QED
  BY <1>2, <1>3, <1>4 DEF CatalogInv

\* A call answered from a snapshot in its time.
LEMMA AnswersInTime ==
  ASSUME NEW call \in CallOf, NEW s \in SnapshotOf, s.at # 0, call.began < s.at + TTL
  PROVE  /\ Answer(call, s) \in CallOf /\ Answer(call, s).step = "answered"
         /\ Answer(call, s).status = "ok" =>
              /\ Answer(call, s).want \in {0, Answer(call, s).release}
              /\ Answer(call, s).at # 0 /\ Answer(call, s).began < Answer(call, s).at + TTL
<1> DEFINE right == IF call.want = 0 THEN s.text.channel = "stable" ELSE s.text.release = call.want
           verdict == CASE right -> "ok"
                        [] ~right /\ call.want = 0 -> "unavailable"
                        [] ~right /\ call.want # 0 -> "not_found"
           release == IF right THEN s.text.release ELSE 0
           time == IF right THEN s.at ELSE 0
<1>1. Answer(call, s) = [call EXCEPT !.step = "answered", !.status = verdict, !.release = release, !.at = time]
  BY DEF Answer
<1>2. verdict \in {"ok", "unavailable", "not_found"} /\ (verdict = "ok" => right)
  OBVIOUS
<1>3. release \in {0} \cup Releases /\ time \in Nat /\ s.at \in Nat
  BY DEF SnapshotOf, TextKept
<1>4. right => release = s.text.release /\ time = s.at /\ call.want \in {0, release}
  OBVIOUS
<1> HIDE DEF right, verdict, release, time
<1>5. Answer(call, s) = [step |-> "answered", began |-> call.began, want |-> call.want, status |-> verdict,
                         release |-> release, at |-> time]
  BY <1>1 DEF CallOf
<1> QED
  BY <1>2, <1>3, <1>4, <1>5 DEF CallOf

\* A call that is told there is none.
LEMMA ToldUnavailable ==
  ASSUME NEW call \in CallOf
  PROVE  Unavailable(call) \in CallOf /\ Unavailable(call).step = "answered" /\ Unavailable(call).status = "unavailable"
BY DEF Unavailable, CallOf

\* Calls: from the snapshot, with the refresh, or told that there is none.
LEMMA CallKeeps == CatalogInv /\ (\E c \in Callers : Call(c)) => CatalogInv'
<1> SUFFICES ASSUME CatalogInv, NEW c \in Callers, Call(c) PROVE CatalogInv'
  OBVIOUS
<1> DEFINE call(want) == [NoCall EXCEPT !.began = clock, !.want = want]
<1>1. PICK want \in {0} \cup Releases :
           \/ /\ config = "disabled"
              /\ calling' = [calling EXCEPT ![c] = Unavailable(call(want))]
              /\ UNCHANGED <<fetch, refreshes, strayed>>
           \/ /\ config = "enabled" /\ Cached
              /\ calling' = [calling EXCEPT ![c] = Answer(call(want), snapshot)]
              /\ UNCHANGED <<fetch, refreshes, strayed>>
           \/ /\ config = "enabled" /\ ~Cached /\ Refreshing
              /\ calling' = [calling EXCEPT ![c] = [call(want) EXCEPT !.step = "waiting"]]
              /\ UNCHANGED <<fetch, refreshes, strayed>>
           \/ /\ config = "enabled" /\ ~Cached /\ ~Refreshing /\ WaitsOut
              /\ calling' = [calling EXCEPT ![c] = Unavailable(call(want))]
              /\ UNCHANGED <<fetch, refreshes, strayed>>
           \/ /\ config = "enabled" /\ ~Cached /\ ~Refreshing /\ ~WaitsOut
              /\ refreshes < MaxRefreshes
              /\ refreshes' = refreshes + 1
              /\ calling' = [calling EXCEPT ![c] = [call(want) EXCEPT !.step = "waiting"]]
              /\ fetch' = [NoFetch EXCEPT !.step = "requested", !.document = "pointer", !.began = clock]
              /\ UNCHANGED strayed
  BY DEF Call
<1>2. UNCHANGED <<config, clock, snapshot, failed, until, failedAt>>
  BY DEF Call
<1> DEFINE k == call(want)
           w == [k EXCEPT !.step = "waiting"]
           f == [NoFetch EXCEPT !.step = "requested", !.document = "pointer", !.began = clock]
<1>3. clock \in Nat /\ clock # 0
  BY CatalogBounds DEF CatalogInv, CatalogIsTyped
<1>4. NoCall.status = "none"
  BY DEF NoCall
<1>5. k \in CallOf /\ k.began = clock /\ k.status = "none"
  BY <1>3, <1>4, NothingYet DEF CallOf
<1> HIDE DEF k
<1>6. w \in CallOf /\ w.step = "waiting" /\ w.began = clock /\ w.status = "none"
  BY <1>5 DEF CallOf
<1>7. f \in FetchOf /\ f.step = "requested" /\ f.began = clock
  <2>1. 0 \in 0 .. MaxHops /\ 0 \in 0 .. Cap
    BY CatalogBounds
  <2> QED
    BY <1>3, <2>1, NothingYet DEF FetchOf
<1>8. PICK a : /\ calling' = [calling EXCEPT ![c] = a] /\ a \in CallOf
               /\ a.step = "waiting" => a = w /\ config = "enabled" /\ (fetch' = f \/ (fetch.step # "none" /\ fetch' = fetch))
               /\ AnswerIsVouched(a)
  <2>1. CASE calling' = [calling EXCEPT ![c] = Unavailable(k)]
    BY <1>5, <2>1, ToldUnavailable DEF k, AnswerIsVouched
  <2>2. CASE config = "enabled" /\ Cached /\ calling' = [calling EXCEPT ![c] = Answer(k, snapshot)]
    <3>1. snapshot \in SnapshotOf /\ snapshot.at # 0 /\ snapshot.at \in Nat /\ clock < snapshot.at + TTL
      BY <1>3, <2>2, CatalogBounds DEF Cached, CatalogInv, CatalogIsTyped, SnapshotOf
    <3> QED
      BY <1>5, <2>2, <3>1, AnswersInTime DEF AnswerIsVouched
  <2>3. CASE config = "enabled" /\ calling' = [calling EXCEPT ![c] = w] /\ (fetch' = f \/ (fetch.step # "none" /\ fetch' = fetch))
    BY <1>6, <2>3 DEF AnswerIsVouched
  <2> HIDE DEF w, f
  <2> QED
    BY <1>1, <2>1, <2>2, <2>3 DEF Refreshing, w, f, k
<1>9. /\ fetch' \in FetchOf /\ (fetch.step # "none" => fetch' = fetch)
      /\ refreshes' \in 0 .. MaxRefreshes /\ strayed' = strayed
      /\ fetch' # fetch => fetch' = f /\ ~ WaitsOut /\ config = "enabled"
  <2> HIDE DEF f
  <2>1. refreshes \in 0 .. MaxRefreshes /\ fetch \in FetchOf
    BY DEF CatalogInv, CatalogIsTyped
  <2> QED
    BY <1>1, <1>7, <2>1, CatalogBounds DEF f, Refreshing
<1> HIDE DEF w, f
<1>10. CatalogIsTyped'
  BY <1>2, <1>8, <1>9 DEF CatalogInv, CatalogIsTyped
<1>11. SnapshotIsVouched'
  BY <1>2 DEF CatalogInv, SnapshotIsVouched
<1>12. \A d \in Callers : CallIsSound(calling[d])'
  <2> SUFFICES ASSUME NEW d \in Callers PROVE CallIsSound(calling[d])'
    OBVIOUS
  <2>1. calling \in [Callers -> CallOf]
    BY DEF CatalogInv, CatalogIsTyped
  <2>2. CASE d = c
    <3>1. calling'[d] = a
      BY <1>8, <2>1, <2>2
    <3>2. a.step = "waiting" => a.status = "none" /\ a.began <= clock' /\ config' = "enabled" /\ fetch'.step # "none"
      BY <1>2, <1>3, <1>6, <1>7, <1>8
    <3>3. AnswerIsVouched(a)'
      BY <1>2, <1>8 DEF AnswerIsVouched
    <3> QED
      BY <3>1, <3>2, <3>3 DEF CallIsSound, AnswerIsVouched
  <2>3. CASE d # c
    <3>1. calling'[d] = calling[d]
      BY <1>8, <2>1, <2>3
    <3>2. CallIsSound(calling[d])
      BY DEF CatalogInv
    <3> QED
      BY <1>2, <1>9, <3>1, <3>2 DEF CallIsSound, AnswerIsVouched
  <2> QED
    BY <2>2, <2>3
<1>13. FetchIsSound'
  <2>1. CASE fetch' = fetch
    BY <1>2, <1>9, <2>1 DEF CatalogInv, FetchIsSound
  <2>2. CASE fetch' # fetch
    <3>1. failedAt # 0 => clock >= failedAt + Backoff
      BY <1>3, <1>9, <2>2, CatalogBounds DEF WaitsOut, CatalogInv, CatalogIsTyped, FetchIsSound
    <3> QED
      BY <1>2, <1>7, <1>9, <2>2, <3>1 DEF CatalogInv, FetchIsSound
  <2> QED
    BY <2>1, <2>2
<1> QED
  BY <1>10, <1>11, <1>12, <1>13 DEF CatalogInv

\* A refresh that fails: all who wait are told that there is none.
LEMMA FailKeeps ==
  ASSUME CatalogInv, NEW reason, reason # "none", Fail(reason)
  PROVE  CatalogInv'
<1>0. UNCHANGED <<config, clock, snapshot, refreshes, strayed>> /\ fetch' = NoFetch
      /\ failed' = reason /\ until' = clock + Backoff /\ failedAt' = clock
  BY DEF Fail, BackoffFrom
<1>1. clock \in Nat /\ clock # 0
  BY CatalogBounds DEF CatalogInv, CatalogIsTyped
<1>2. \A c \in Callers : /\ calling[c] \in CallOf
                         /\ calling'[c] = IF calling[c].step = "waiting" THEN Unavailable(calling[c]) ELSE calling[c]
  BY DEF Fail, CatalogInv, CatalogIsTyped
<1>3. \A c \in Callers : /\ calling'[c] \in CallOf /\ calling'[c].step # "waiting"
                         /\ calling'[c].status = "ok" => calling'[c] = calling[c]
  BY <1>2, ToldUnavailable
<1>4. CatalogIsTyped'
  <2>1. calling' \in [Callers -> CallOf]
    BY <1>3 DEF Fail
  <2> QED
    BY <1>0, <1>1, <2>1, NothingYet, CatalogBounds DEF CatalogInv, CatalogIsTyped
<1>5. SnapshotIsVouched' /\ FetchIsSound'
  BY <1>0, NothingYet DEF CatalogInv, SnapshotIsVouched, FetchIsSound
<1>6. \A c \in Callers : CallIsSound(calling[c])'
  BY <1>0, <1>3 DEF CatalogInv, CallIsSound, AnswerIsVouched
<1> QED
  BY <1>4, <1>5, <1>6 DEF CatalogInv

\* A refresh that succeeds: all who wait are answered from what it verified.
LEMMA SucceedKeeps ==
  ASSUME CatalogInv, NEW s \in SnapshotOf, s.at = clock, s.text.signature = "valid", s.text.schema,
         s.text.release = s.named, Succeed(s)
  PROVE  CatalogInv'
<1>0. UNCHANGED <<config, clock, refreshes, strayed>> /\ fetch' = NoFetch
      /\ snapshot' = s /\ failed' = "none" /\ until' = 0 /\ failedAt' = 0
  BY DEF Succeed
<1>1. clock \in Nat /\ clock # 0
  BY CatalogBounds DEF CatalogInv, CatalogIsTyped
<1>2. \A c \in Callers : /\ calling[c] \in CallOf /\ calling[c].began \in Nat
                         /\ calling'[c] = IF calling[c].step = "waiting" THEN Answer(calling[c], s) ELSE calling[c]
                         /\ calling[c].step = "waiting" => calling[c].began <= clock /\ config = "enabled"
  BY DEF Succeed, CatalogInv, CatalogIsTyped, CallIsSound, CallOf
<1>3. \A c \in Callers : calling'[c] \in CallOf /\ calling'[c].step # "waiting" /\ AnswerIsVouched(calling'[c])
  <2> SUFFICES ASSUME NEW c \in Callers
               PROVE  calling'[c] \in CallOf /\ calling'[c].step # "waiting" /\ AnswerIsVouched(calling'[c])
    OBVIOUS
  <2>1. CASE calling[c].step = "waiting"
    <3>1. calling[c].began < s.at + TTL /\ calling'[c] = Answer(calling[c], s) /\ config = "enabled"
      BY <1>1, <1>2, <2>1, CatalogBounds
    <3> QED
      BY <1>1, <1>2, <3>1, AnswersInTime DEF AnswerIsVouched
  <2>2. CASE calling[c].step # "waiting"
    BY <1>2, <2>2 DEF CatalogInv, CallIsSound
  <2> QED
    BY <2>1, <2>2
<1>4. CatalogIsTyped'
  <2>1. calling' \in [Callers -> CallOf]
    BY <1>3 DEF Succeed
  <2> QED
    BY <1>0, <1>1, <2>1, NothingYet, CatalogBounds DEF CatalogInv, CatalogIsTyped
<1>5. SnapshotIsVouched' /\ FetchIsSound'
  BY <1>0, NothingYet DEF CatalogInv, SnapshotIsVouched, FetchIsSound
<1>6. \A c \in Callers : CallIsSound(calling[c])'
  BY <1>0, <1>3 DEF CallIsSound, AnswerIsVouched
<1> QED
  BY <1>4, <1>5, <1>6 DEF CatalogInv

\* A refresh that goes on, where it may.
LEMMA FetchGoesOn ==
  ASSUME CatalogInv, fetch.step # "none", fetch' \in FetchOf, fetch'.step # "none", fetch'.began = fetch.began,
         UNCHANGED fetchOnly, ~ strayed'
  PROVE  CatalogInv'
<1>1. CatalogIsTyped' /\ SnapshotIsVouched' /\ FetchIsSound'
  BY DEF fetchOnly, CatalogInv, CatalogIsTyped, SnapshotIsVouched, FetchIsSound
<1>2. \A c \in Callers : CallIsSound(calling[c])'
  BY DEF fetchOnly, CatalogInv, CallIsSound, AnswerIsVouched
<1> QED
  BY <1>1, <1>2 DEF CatalogInv

\* A URL that passes has nothing wrong with it.
LEMMA AllowedIsClean == \A u \in Urls : AllowedUrl(u) => u = {}
BY DEF Urls, AllowedUrl

\* The steps of a refresh.
LEMMA RefreshKeeps ==
  CatalogInv /\ (FetchFails \/ FetchRedirects \/ BodyBegins \/ ChunkArrives \/ PointerRead \/ ManifestRead) => CatalogInv'
<1> SUFFICES ASSUME CatalogInv,
                    FetchFails \/ FetchRedirects \/ BodyBegins \/ ChunkArrives \/ PointerRead \/ ManifestRead
             PROVE  CatalogInv'
  OBVIOUS
<1>0. fetch \in FetchOf /\ ~ strayed
  BY DEF CatalogInv, CatalogIsTyped, FetchIsSound
<1>1. CASE FetchFails
  BY <1>1, FailKeeps DEF FetchFails
<1>2. CASE FetchRedirects
  <2>1. PICK u \in Urls :
          /\ fetch.step = "requested"
          /\ IF ~AllowedUrl(u) THEN Fail("url_rejected")
             ELSE IF fetch.hop = MaxHops THEN Fail("too_many_redirects")
             ELSE /\ fetch' = [fetch EXCEPT !.hop = @ + 1, !.url = u]
                  /\ strayed' = (strayed \/ u # {})
                  /\ UNCHANGED fetchOnly
    BY <1>2 DEF FetchRedirects
  <2>2. CASE ~ AllowedUrl(u) \/ fetch.hop = MaxHops
    BY <2>1, <2>2, FailKeeps
  <2>3. CASE AllowedUrl(u) /\ fetch.hop # MaxHops
    <3>1. ~ strayed' /\ UNCHANGED fetchOnly
      BY <1>0, <2>1, <2>3, AllowedIsClean
    <3>2. fetch' \in FetchOf /\ fetch'.step = fetch.step /\ fetch'.began = fetch.began
      <4>1. /\ fetch.hop + 1 \in 0 .. MaxHops
            /\ fetch' = [fetch EXCEPT !.hop = @ + 1, !.url = u]
        BY <1>0, <2>1, <2>3, CatalogBounds DEF FetchOf
      <4> QED
        BY <1>0, <4>1 DEF FetchOf
    <3> QED
      BY <2>1, <3>1, <3>2, FetchGoesOn
  <2> QED
    BY <2>2, <2>3
<1>3. CASE BodyBegins
  <2>1. \/ Fail("too_large")
        \/ /\ fetch.step = "requested" /\ fetch' = [fetch EXCEPT !.step = "reading", !.size = 0]
           /\ UNCHANGED <<fetchOnly, strayed>>
    BY <1>3 DEF BodyBegins
  <2>2. CASE fetch.step = "requested" /\ fetch' = [fetch EXCEPT !.step = "reading", !.size = 0]
             /\ UNCHANGED <<fetchOnly, strayed>>
    <3>1. fetch' \in FetchOf /\ fetch'.step = "reading" /\ fetch'.began = fetch.began
      <4>1. 0 \in 0 .. Cap /\ fetch' = [fetch EXCEPT !.step = "reading", !.size = 0]
        BY <2>2, CatalogBounds
      <4> QED
        BY <1>0, <4>1 DEF FetchOf
    <3> QED
      BY <1>0, <2>2, <3>1, FetchGoesOn
  <2> QED
    BY <2>1, <2>2, FailKeeps
<1>4. CASE ChunkArrives
  <2>1. CASE Overflows(fetch.size + 1)
    BY <1>4, <2>1, FailKeeps DEF ChunkArrives
  <2>2. CASE ~ Overflows(fetch.size + 1)
    <3>1. /\ fetch.step = "reading" /\ fetch' = [fetch EXCEPT !.size = @ + 1]
          /\ UNCHANGED <<fetchOnly, strayed>>
      BY <1>4, <2>2 DEF ChunkArrives
    <3>2. fetch' \in FetchOf /\ fetch'.step = "reading" /\ fetch'.began = fetch.began
      BY <1>0, <2>2, <3>1, CatalogBounds DEF FetchOf, Overflows
    <3> QED
      BY <1>0, <3>1, <3>2, FetchGoesOn
  <2> QED
    BY <2>1, <2>2
<1>5. CASE PointerRead
  <2>1. CASE Fail("invalid_encoding") \/ Fail("invalid_pointer") \/ Fail("url_rejected")
    BY <2>1, FailKeeps
  <2>2. ASSUME NEW r \in Releases, NEW u \in Urls, AllowedUrl(u), fetch.step = "reading",
               fetch' = [fetch EXCEPT !.step = "requested", !.document = "manifest", !.url = u,
                                      !.hop = 0, !.size = 0, !.named = r],
               strayed' = (strayed \/ u # {}), UNCHANGED fetchOnly
        PROVE  CatalogInv'
    <3>1. ~ strayed'
      BY <1>0, <2>2, AllowedIsClean
    <3>2. fetch' \in FetchOf /\ fetch'.step = "requested" /\ fetch'.began = fetch.began
      <4>1. 0 \in 0 .. Cap /\ 0 \in 0 .. MaxHops
        BY CatalogBounds
      <4>2. fetch' = [fetch EXCEPT !.step = "requested", !.document = "manifest", !.url = u,
                                   !.hop = 0, !.size = 0, !.named = r]
        BY <2>2
      <4> QED
        BY <1>0, <4>1, <4>2 DEF FetchOf
    <3> QED
      BY <2>2, <3>1, <3>2, FetchGoesOn
  <2> QED
    BY <1>5, <2>1, <2>2 DEF PointerRead
<1>6. CASE ManifestRead
  <2>1. CASE Fail("invalid_encoding") \/ Fail("manifest_invalid") \/ Fail("pointer_release_mismatch")
    BY <2>1, FailKeeps
  <2>2. ASSUME NEW text \in Texts, Fail(TextVerdict(text)) PROVE CatalogInv'
    <3>1. TextVerdict(text) # "none"
      BY DEF TextVerdict, Texts
    <3> QED
      BY <2>2, <3>1, FailKeeps
  <2>3. ASSUME NEW text \in Texts, TextVerdict(text) = "ok", text.schema, text.release = fetch.named,
               Succeed([text |-> text, named |-> fetch.named, at |-> clock])
        PROVE  CatalogInv'
    <3> DEFINE s == [text |-> text, named |-> fetch.named, at |-> clock]
    <3>1. text \in TextKept /\ text.signature = "valid"
      BY <2>3 DEF TextVerdict, Texts, TextKept
    <3>2. s \in SnapshotOf /\ s.at = clock /\ s.text = text /\ s.named = fetch.named
      BY <1>0, <3>1, CatalogBounds DEF SnapshotOf, FetchOf, CatalogInv, CatalogIsTyped
    <3> HIDE DEF s
    <3>3. Succeed(s)
      BY <2>3 DEF s
    <3> QED
      BY <2>3, <3>1, <3>2, <3>3, SucceedKeeps
  <2> QED
    BY <1>6, <2>1, <2>2, <2>3 DEF ManifestRead
<1> QED
  BY <1>1, <1>2, <1>3, <1>4, <1>5, <1>6

\* Every step of the service and the passing of time keep the invariant.
LEMMA CatalogKeeps == CatalogInv /\ [CatalogNext]_catalogVars => CatalogInv'
<1>1. ASSUME CatalogInv, ClockTicks PROVE CatalogInv'
  <2>1. clock' \in 1 .. MaxClock /\ clock <= clock' /\ clock \in Nat /\ clock' \in Nat
    BY <1>1, CatalogBounds DEF ClockTicks, CatalogInv, CatalogIsTyped
  <2>2. CatalogIsTyped' /\ SnapshotIsVouched' /\ FetchIsSound'
    BY <1>1, <2>1 DEF ClockTicks, CatalogInv, CatalogIsTyped, SnapshotIsVouched, FetchIsSound
  <2>3. \A c \in Callers : calling[c].began \in Nat
    BY <1>1 DEF CatalogInv, CatalogIsTyped, CallOf
  <2>4. \A c \in Callers : CallIsSound(calling[c])'
    BY <1>1, <2>1, <2>3 DEF ClockTicks, CatalogInv, CallIsSound, AnswerIsVouched
  <2> QED
    BY <2>2, <2>4 DEF CatalogInv
<1>2. ASSUME CatalogInv, UNCHANGED catalogVars PROVE CatalogInv'
  <2>1. CatalogIsTyped' /\ SnapshotIsVouched' /\ FetchIsSound'
    BY <1>2 DEF catalogVars, CatalogInv, CatalogIsTyped, SnapshotIsVouched, FetchIsSound
  <2>2. \A c \in Callers : CallIsSound(calling[c])'
    BY <1>2 DEF catalogVars, CatalogInv, CallIsSound, AnswerIsVouched
  <2> QED
    BY <2>1, <2>2 DEF CatalogInv
<1> QED
  BY <1>1, <1>2, CallKeeps, RefreshKeeps DEF CatalogNext

\* The invariant says what a caller may rely on.
LEMMA CatalogIsWhatItSays == CatalogInv => ReleasesAreVouched
<1> SUFFICES ASSUME CatalogInv PROVE ReleasesAreVouched
  OBVIOUS
<1>1. CatalogTypeOK
  BY DEF CatalogInv, CatalogIsTyped, CatalogTypeOK, FetchOf, CallOf
<1>2. OnlyVouchedIsServed /\ NobodyIsForgotten
  BY DEF CatalogInv, SnapshotIsVouched, CallIsSound, AnswerIsVouched, OnlyVouchedIsServed, NobodyIsForgotten
<1>3. FetchesAreBounded
  <2>1. fetch.size <= Cap
    BY CatalogBounds DEF CatalogInv, CatalogIsTyped, FetchOf
  <2> QED
    BY <2>1 DEF CatalogInv, FetchIsSound, FetchesAreBounded
<1> QED
  BY <1>1, <1>2, <1>3 DEF ReleasesAreVouched

\* No release is served that was not verified, or after its time; no refresh
\* goes where it may not, and no caller is forgotten (ReleaseCatalogService).
THEOREM ReleasesStayVouched == CatalogSpec => []ReleasesAreVouched
<1>1. CatalogSpec => []CatalogInv
  BY CatalogOpens, CatalogKeeps, PTL DEF CatalogSpec
<1> QED
  BY <1>1, CatalogIsWhatItSays, PTL

-----------------------------------------------------------------------------
(* VpsWorkspace *)

\* The states of the jobs, what is brought of them, a GET that is out.
JobStates == [Works -> 0 .. Done]
Brought   == [jobs : JobStates, audit : SUBSET Works]
GetOf     == [vps : Servers, what : Scopes, read : BOOLEAN, found : Brought]

\* What was brought of a VPS is of it, and no state in it is invented.
OfVps(p, v, state) == /\ \A w \in Works : p.jobs[w] <= state[w] /\ (p.jobs[w] # 0 => OwnerOf[w] = v)
                      /\ p.audit \subseteq WorkOf(v)

\* In every set of rows there is one that none of them was written after.
NewestIsThere(rs, after) == \A S \in SUBSET rs : S # {} => \E x \in S : \A y \in S : <<y, x>> \notin after

\* What the dashboard and the workspace hold has its type.
WorkIsTyped ==
  /\ truth = [state |-> truth.state, stored |-> truth.stored, written |-> truth.written, recorded |-> truth.recorded]
  /\ truth.state \in JobStates /\ truth.stored \subseteq Trail
  /\ dash \in [loaded : BOOLEAN, known : BOOLEAN, jobs : JobStates, audit : SUBSET Works]
  /\ at \in Servers \cup {Elsewhere} /\ booted \subseteq Servers
  /\ calls \subseteq GetOf /\ prefill \in [Servers -> Brought]

\* What the dashboard and the prefill hold is true of the VPS it is of.
HeldIsTrue ==
  /\ \A w \in Works : dash.jobs[w] <= truth.state[w]
  /\ \A v \in Servers : OfVps(prefill[v], v, truth.state)
  /\ \A c \in calls : OfVps(c.found, c.vps, truth.state)

\* The GETs out are of the VPS in view, one of each kind, and what they bring
\* is not there yet.
OneOfEach ==
  /\ \A c \in calls : /\ c.vps = at /\ c.vps \in booted
                      /\ IF c.what = "jobs" THEN prefill[c.vps].jobs = NoWork ELSE prefill[c.vps].audit = {}
  /\ \A c, d \in calls : c.what = d.what => c = d
  /\ \A v \in Servers \ booted : prefill[v] = Empty

\* The inductive invariant of the workspace.
WorkInv == WorkIsTyped /\ HeldIsTrue /\ OneOfEach /\ NewestIsThere(truth.stored, truth.written)

\* Nothing is brought yet.
LEMMA EmptyIsTrue ==
  /\ NoWork \in JobStates /\ Empty \in Brought /\ Empty.jobs = NoWork /\ Empty.audit = {}
  /\ \A v \in Servers : \A state \in JobStates : OfVps(Empty, v, state)
<1>1. 0 \in 0 .. Done /\ Done \in Nat
  BY WorkspaceAssumption
<1>2. NoWork \in JobStates /\ \A w \in Works : NoWork[w] = 0
  BY <1>1 DEF NoWork, JobStates
<1>3. Empty \in Brought /\ Empty.jobs = NoWork /\ Empty.audit = {}
  BY <1>2 DEF Empty, Brought
<1>4. \A state \in JobStates : \A w \in Works : 0 <= state[w]
  BY <1>1 DEF JobStates
<1> QED
  BY <1>2, <1>3, <1>4 DEF OfVps

\* The workspace opens with nothing brought.
LEMMA WorkOpens == WorkInit => WorkInv
<1> SUFFICES ASSUME WorkInit PROVE WorkInv
  OBVIOUS
<1>1. /\ truth = [state |-> NoWork, stored |-> {}, written |-> {}, recorded |-> {}]
      /\ dash = [loaded |-> FALSE, known |-> FALSE, jobs |-> NoWork, audit |-> {}]
      /\ at = Elsewhere /\ booted = {} /\ calls = {}
      /\ prefill = [v \in Servers |-> Empty]
  BY DEF WorkInit
<1>2. WorkIsTyped
  <2>1. dash \in [loaded : BOOLEAN, known : BOOLEAN, jobs : JobStates, audit : SUBSET Works]
    BY <1>1, EmptyIsTrue
  <2> QED
    BY <1>1, <2>1, EmptyIsTrue DEF WorkIsTyped
<1>3. HeldIsTrue
  <2>1. \A w \in Works : NoWork[w] <= NoWork[w]
    BY DEF NoWork
  <2> QED
    BY <1>1, <2>1, EmptyIsTrue DEF HeldIsTrue
<1>4. OneOfEach /\ NewestIsThere(truth.stored, truth.written)
  BY <1>1 DEF OneOfEach, NewestIsThere
<1> QED
  BY <1>2, <1>3, <1>4 DEF WorkInv

\* What a list of some jobs says is true.
LEMMA StatesAreTrue ==
  ASSUME WorkInv, NEW ws
  PROVE  /\ States(ws) \in JobStates
         /\ \A w \in Works : /\ States(ws)[w] \in {0, truth.state[w]} /\ States(ws)[w] <= truth.state[w]
                             /\ States(ws)[w] # 0 => w \in ws
<1>1. truth.state \in JobStates /\ Done \in Nat
  BY WorkspaceAssumption DEF WorkInv, WorkIsTyped
<1> QED
  BY <1>1 DEF States, JobStates

\* A GET brings rows of its VPS.
LEMMA FoundIsTrue ==
  ASSUME WorkInv, NEW c \in calls
  PROVE  Found(c) \in Brought /\ OfVps(Found(c), c.vps, truth.state)
<1>1. truth.state \in JobStates /\ c \in GetOf /\ c.vps \in Servers
  BY DEF WorkInv, WorkIsTyped, GetOf
<1>2. OfVps(Empty, c.vps, truth.state) /\ Empty \in Brought
  BY <1>1, EmptyIsTrue
<1>3. CASE c.what = "jobs"
  <2> DEFINE j == JobsOfVps(c.vps)
  <2>1. j \in JobStates /\ \A w \in Works : j[w] <= truth.state[w] /\ (j[w] # 0 => OwnerOf[w] = c.vps)
    <3> DEFINE ws == FirstRows(truth.stored \cap WorkOf(c.vps), truth.written)
    <3>1. \A w \in ws : OwnerOf[w] = c.vps
      BY DEF FirstRows, NewestRows, WorkOf
    <3>2. j = States(ws)
      BY DEF JobsOfVps
    <3> HIDE DEF ws, j
    <3> QED
      BY <3>1, <3>2, StatesAreTrue
  <2>2. Found(c) = [Empty EXCEPT !.jobs = j]
    BY <1>3 DEF Found
  <2> HIDE DEF j
  <2>3. Found(c) \in Brought /\ Found(c).jobs = j /\ Found(c).audit = Empty.audit
    BY <1>2, <2>1, <2>2 DEF Brought
  <2> QED
    BY <1>2, <2>1, <2>3 DEF OfVps
<1>4. CASE c.what # "jobs"
  <2> DEFINE e == AuditOfVps(c.vps)
  <2>1. e \subseteq Works /\ e \subseteq WorkOf(c.vps)
    BY DEF AuditOfVps, FirstRows, NewestRows, Trail
  <2>2. Found(c) = [Empty EXCEPT !.audit = e]
    BY <1>4 DEF Found
  <2> HIDE DEF e
  <2>3. Found(c) \in Brought /\ Found(c).jobs = Empty.jobs /\ Found(c).audit = e
    BY <1>2, <2>1, <2>2 DEF Brought
  <2> QED
    BY <1>2, <2>1, <2>3 DEF OfVps
<1> QED
  BY <1>3, <1>4

\* The prefill of a VPS is asked for once, when nothing of it is there.
LEMMA BootKeeps ==
  ASSUME WorkInv, NEW v \in Servers \cup {Elsewhere}, NEW loaded, Boot(v, loaded, booted), at' = v, UNCHANGED <<truth, prefill>>,
         dash' \in [loaded : BOOLEAN, known : BOOLEAN, jobs : JobStates, audit : SUBSET Works],
         \A w \in Works : dash'.jobs[w] <= truth.state[w]
  PROVE  WorkInv'
<1>1. \A c \in CallsFor(v) : c.vps = v /\ c.what \in Scopes /\ ~ c.read /\ c.found = Empty
                             /\ c = [vps |-> v, what |-> c.what, read |-> FALSE, found |-> Empty]
  BY DEF CallsFor
<1>2. /\ booted \subseteq booted' /\ booted' \subseteq booted \cup {v} /\ booted' \subseteq Servers
      /\ calls' # {} => v \in Servers \ booted /\ v \in booted'
      /\ calls' \subseteq CallsFor(v)
  BY DEF Boot, WorkInv, WorkIsTyped
<1>3. v \in Servers => \A c \in CallsFor(v) : c \in GetOf
  <2> SUFFICES ASSUME v \in Servers, NEW s \in Scopes
               PROVE  [vps |-> v, what |-> s, read |-> FALSE, found |-> Empty] \in GetOf
    BY DEF CallsFor
  <2>1. Empty \in Brought
    BY EmptyIsTrue
  <2> QED
    BY <2>1 DEF GetOf
<1>4. WorkIsTyped'
  BY <1>2, <1>3 DEF WorkInv, WorkIsTyped, Trail
<1>5. HeldIsTrue'
  <2>1. truth.state \in JobStates
    BY DEF WorkInv, WorkIsTyped
  <2>2. \A c \in calls' : OfVps(c.found, c.vps, truth.state)
    BY <1>1, <1>2, <2>1, EmptyIsTrue
  <2> QED
    BY <2>2 DEF WorkInv, HeldIsTrue
<1>6. OneOfEach'
  <2>1. \A c \in calls' : c.vps = v /\ v \in booted' /\ prefill[c.vps] = Empty
    BY <1>1, <1>2 DEF WorkInv, OneOfEach
  <2>2. \A c, d \in calls' : c.what = d.what => c = d
    <3> SUFFICES ASSUME NEW c \in CallsFor(v), NEW d \in CallsFor(v), c.what = d.what PROVE c = d
      BY <1>2
    <3>1. PICK s \in Scopes : c = [vps |-> v, what |-> s, read |-> FALSE, found |-> Empty]
      BY DEF CallsFor
    <3>2. PICK t \in Scopes : d = [vps |-> v, what |-> t, read |-> FALSE, found |-> Empty]
      BY DEF CallsFor
    <3>3. c.what = s /\ d.what = t
      BY <3>1, <3>2
    <3> QED
      BY <3>1, <3>2, <3>3
  <2>3. \A u \in Servers \ booted' : prefill[u] = Empty
    BY <1>2 DEF WorkInv, OneOfEach
  <2>4. Empty.jobs = NoWork /\ Empty.audit = {}
    BY EmptyIsTrue
  <2> QED
    BY <2>1, <2>2, <2>3, <2>4 DEF OneOfEach
<1> QED
  BY <1>4, <1>5, <1>6 DEF WorkInv

\* Into another VPS, or out of the workspace.
LEMMA VisitsKeep == WorkInv /\ (Enter \/ LeaveWorkspace) => WorkInv'
<1> SUFFICES ASSUME WorkInv, Enter \/ LeaveWorkspace PROVE WorkInv'
  OBVIOUS
<1>1. CASE Enter
  <2>1. PICK v \in Servers : at' = v /\ Boot(v, dash.loaded, booted) /\ UNCHANGED <<truth, dash, news, prefill>>
    BY <1>1 DEF Enter
  <2> QED
    BY <2>1, BootKeeps DEF WorkInv, WorkIsTyped, HeldIsTrue
<1>2. CASE LeaveWorkspace
  <2>1. /\ at' = Elsewhere /\ booted' = {} /\ calls' = {} /\ prefill' = [v \in Servers |-> Empty]
        /\ UNCHANGED <<truth, dash>>
    BY <1>2 DEF LeaveWorkspace
  <2>2. WorkIsTyped'
    BY <2>1, EmptyIsTrue DEF WorkInv, WorkIsTyped, Trail
  <2>3. truth.state \in JobStates
    BY DEF WorkInv, WorkIsTyped
  <2>4. HeldIsTrue' /\ OneOfEach'
    BY <2>1, <2>3, EmptyIsTrue DEF WorkInv, HeldIsTrue, OneOfEach
  <2> QED
    BY <2>1, <2>2, <2>4 DEF WorkInv
<1> QED
  BY <1>1, <1>2

\* A GET is read, arrives, or is lost.
LEMMA GetsKeep == WorkInv /\ (CallRead \/ CallArrives \/ CallMissed) => WorkInv'
<1> SUFFICES ASSUME WorkInv, CallRead \/ CallArrives \/ CallMissed PROVE WorkInv'
  OBVIOUS
<1>0. UNCHANGED <<truth, dash, at, booted>>
  BY DEF CallRead, CallArrives, CallMissed
<1>1. CASE CallRead
  <2>1. PICK c \in calls : calls' = (calls \ {c}) \cup {[c EXCEPT !.read = TRUE, !.found = Found(c)]} /\ prefill' = prefill
    BY <1>1 DEF CallRead
  <2> DEFINE r == [c EXCEPT !.read = TRUE, !.found = Found(c)]
  <2>2. c \in GetOf /\ Found(c) \in Brought
    BY FoundIsTrue DEF WorkInv, WorkIsTyped
  <2>3. r \in GetOf /\ r.vps = c.vps /\ r.what = c.what /\ r.found = Found(c)
    BY <2>2 DEF GetOf
  <2>4. calls' = (calls \ {c}) \cup {r}
    BY <2>1
  <2> HIDE DEF r
  <2>5. WorkIsTyped'
    BY <1>0, <2>1, <2>3, <2>4 DEF WorkInv, WorkIsTyped, Trail
  <2>6. HeldIsTrue'
    BY <1>0, <2>1, <2>3, <2>4, FoundIsTrue DEF WorkInv, HeldIsTrue
  <2>7. OneOfEach'
    BY <1>0, <2>1, <2>3, <2>4 DEF WorkInv, OneOfEach
  <2> QED
    BY <1>0, <2>5, <2>6, <2>7 DEF WorkInv
<1>2. CASE CallArrives
  <2>1. PICK c \in calls :
          /\ c.read /\ calls' = calls \ {c}
          /\ prefill' = [prefill EXCEPT ![c.vps] =
               IF c.what = "jobs" THEN [@ EXCEPT !.jobs = c.found.jobs] ELSE [@ EXCEPT !.audit = c.found.audit]]
    BY <1>2 DEF CallArrives
  <2> DEFINE p == prefill[c.vps]
             q == IF c.what = "jobs" THEN [p EXCEPT !.jobs = c.found.jobs] ELSE [p EXCEPT !.audit = c.found.audit]
  <2>2. c.vps \in Servers /\ c.found \in Brought /\ p \in Brought /\ prefill \in [Servers -> Brought] /\ c.vps \in booted
        /\ c.what \in Scopes
    BY DEF WorkInv, WorkIsTyped, OneOfEach, GetOf
  <2>3. /\ q \in Brought
        /\ c.what = "jobs" => q.jobs = c.found.jobs /\ q.audit = p.audit
        /\ c.what # "jobs" => q.audit = c.found.audit /\ q.jobs = p.jobs
    BY <2>2 DEF Brought
  <2>4. prefill' = [prefill EXCEPT ![c.vps] = q]
    BY <2>1
  <2> HIDE DEF q
  <2>5. prefill' \in [Servers -> Brought] /\ \A v \in Servers : prefill'[v] = IF v = c.vps THEN q ELSE prefill[v]
    BY <2>2, <2>3, <2>4
  <2>6. WorkIsTyped'
    BY <1>0, <2>1, <2>5 DEF WorkInv, WorkIsTyped, Trail
  <2>7. HeldIsTrue'
    <3>1. OfVps(p, c.vps, truth.state) /\ OfVps(c.found, c.vps, truth.state)
      BY <2>2 DEF WorkInv, HeldIsTrue
    <3>2. OfVps(q, c.vps, truth.state)
      BY <2>3, <3>1 DEF OfVps
    <3> QED
      BY <1>0, <2>1, <2>5, <3>2 DEF WorkInv, HeldIsTrue
  <2>8. OneOfEach'
    <3>1. \A d \in calls' : d.vps = c.vps /\ d.what \in Scopes /\ d.what # c.what
      BY <2>1 DEF WorkInv, WorkIsTyped, OneOfEach, GetOf
    <3> QED
      BY <1>0, <2>1, <2>2, <2>3, <2>5, <3>1 DEF WorkInv, OneOfEach, Scopes
  <2> QED
    BY <1>0, <2>6, <2>7, <2>8 DEF WorkInv
<1>3. CASE CallMissed
  <2>1. calls' \subseteq calls /\ prefill' = prefill
    BY <1>3 DEF CallMissed
  <2> QED
    BY <1>0, <2>1 DEF WorkInv, WorkIsTyped, HeldIsTrue, OneOfEach, Trail
<1> QED
  BY <1>1, <1>2, <1>3

\* The dashboard learns nothing but what is true.
LEMMA DashLearns ==
  ASSUME WorkInv, Load \/ LoadLost \/ Snapshot \/ JobsFrame
  PROVE  /\ dash' \in [loaded : BOOLEAN, known : BOOLEAN, jobs : JobStates, audit : SUBSET Works]
         /\ \A w \in Works : /\ dash'.jobs[w] <= truth.state[w]
                             /\ dash'.jobs[w] \in {0, dash.jobs[w], truth.state[w]}
         /\ UNCHANGED <<truth, at, prefill>>
<1>0. dash \in [loaded : BOOLEAN, known : BOOLEAN, jobs : JobStates, audit : SUBSET Works] /\ truth.state \in JobStates
      /\ \A w \in Works : dash.jobs[w] <= truth.state[w]
  BY DEF WorkInv, WorkIsTyped, HeldIsTrue
<1>1. CASE Load
  <2> DEFINE a == FirstRows(Trail, truth.recorded)
             j == States(FirstRows(truth.stored, truth.written))
  <2>1. dash' = [dash EXCEPT !.loaded = TRUE, !.known = TRUE, !.audit = a, !.jobs = j] /\ UNCHANGED <<truth, at, prefill>>
    BY <1>1 DEF Load, Sync
  <2>2. a \subseteq Works
    BY DEF FirstRows, NewestRows, Trail
  <2>3. j \in JobStates /\ \A w \in Works : j[w] <= truth.state[w] /\ j[w] \in {0, truth.state[w]}
    BY StatesAreTrue
  <2> HIDE DEF a, j
  <2>4. dash' \in [loaded : BOOLEAN, known : BOOLEAN, jobs : JobStates, audit : SUBSET Works] /\ dash'.jobs = j
    BY <1>0, <2>1, <2>2, <2>3
  <2> QED
    BY <2>1, <2>3, <2>4
<1>2. CASE LoadLost
  <2>1. dash' = [dash EXCEPT !.loaded = TRUE] /\ UNCHANGED <<truth, at, prefill>>
    BY <1>2 DEF LoadLost, Sync
  <2> QED
    BY <1>0, <2>1
<1>3. CASE Snapshot
  <2> DEFINE j == States(truth.stored)
  <2>1. dash' = [dash EXCEPT !.known = TRUE, !.jobs = j, !.audit = {}] /\ UNCHANGED <<truth, at, prefill>>
    BY <1>3 DEF Snapshot, Sync
  <2>2. j \in JobStates /\ \A w \in Works : j[w] <= truth.state[w] /\ j[w] \in {0, truth.state[w]}
    BY StatesAreTrue
  <2> HIDE DEF j
  <2>3. dash' \in [loaded : BOOLEAN, known : BOOLEAN, jobs : JobStates, audit : SUBSET Works] /\ dash'.jobs = j
    BY <1>0, <2>1, <2>2
  <2> QED
    BY <2>1, <2>2, <2>3
<1>4. CASE JobsFrame
  <2> DEFINE j == [w \in Works |-> IF w \in news THEN truth.state[w] ELSE dash.jobs[w]]
  <2>1. dash' = [dash EXCEPT !.jobs = j] /\ UNCHANGED <<truth, at, prefill>>
    BY <1>4 DEF JobsFrame
  <2>2. \A w \in Works : truth.state[w] \in 0 .. Done /\ dash.jobs[w] \in 0 .. Done
    BY <1>0 DEF JobStates
  <2>3. j \in JobStates /\ \A w \in Works : j[w] <= truth.state[w] /\ j[w] \in {dash.jobs[w], truth.state[w]}
    BY <1>0, <2>2, WorkspaceAssumption DEF JobStates
  <2> HIDE DEF j
  <2>4. dash' \in [loaded : BOOLEAN, known : BOOLEAN, jobs : JobStates, audit : SUBSET Works] /\ dash'.jobs = j
    BY <1>0, <2>1, <2>3
  <2> QED
    BY <2>1, <2>3, <2>4
<1> QED
  BY <1>1, <1>2, <1>3, <1>4

\* The load and the stream of the dashboard bring what is true, of any VPS.
LEMMA DashKeeps == WorkInv /\ (Load \/ LoadLost \/ Snapshot \/ JobsFrame) => WorkInv'
<1> SUFFICES ASSUME WorkInv, Load \/ LoadLost \/ Snapshot \/ JobsFrame PROVE WorkInv'
  OBVIOUS
<1>1. /\ dash' \in [loaded : BOOLEAN, known : BOOLEAN, jobs : JobStates, audit : SUBSET Works]
      /\ \A w \in Works : dash'.jobs[w] <= truth.state[w]
      /\ UNCHANGED <<truth, at, prefill>>
  BY DashLearns
<1>2. UNCHANGED <<booted, calls>> \/ Boot(at, TRUE, booted)
  BY DEF Load, LoadLost, Snapshot, JobsFrame, Sync
<1>3. CASE UNCHANGED <<booted, calls>>
  BY <1>1, <1>3 DEF WorkInv, WorkIsTyped, HeldIsTrue, OneOfEach, Trail
<1>4. CASE Boot(at, TRUE, booted)
  BY <1>1, <1>4, BootKeeps DEF WorkInv, WorkIsTyped
<1> QED
  BY <1>2, <1>3, <1>4

\* The row written last comes first, and the others keep their order.
LEMMA FrontKeepsOrder ==
  ASSUME NEW rs, NEW after, NEW w, NEW some, some \subseteq rs \cup {w}, NewestIsThere(rs, after)
  PROVE  NewestIsThere(some, Front(after, w, rs))
<1> SUFFICES ASSUME NEW S \in SUBSET some, S # {} PROVE \E x \in S : \A y \in S : <<y, x>> \notin Front(after, w, rs)
  BY DEF NewestIsThere
<1>1. CASE w \in S
  <2>1. \A y : <<y, w>> \notin Front(after, w, rs)
    <3> SUFFICES ASSUME NEW y, <<y, w>> \in Front(after, w, rs) PROVE FALSE
      OBVIOUS
    <3>1. <<y, w>>[2] = w /\ <<y, w>>[1] = y
      OBVIOUS
    <3>2. PICK x \in rs \ {w} : <<y, w>> = <<w, x>>
      BY <3>1 DEF Front
    <3> QED
      BY <3>2
  <2> QED
    BY <1>1, <2>1
<1>2. CASE w \notin S
  <2>1. PICK x \in S : \A y \in S : <<y, x>> \notin after
    BY <1>2 DEF NewestIsThere
  <2>2. \A y \in S : <<y, x>> \notin Front(after, w, rs)
    <3> SUFFICES ASSUME NEW y \in S, <<y, x>> \in Front(after, w, rs) PROVE FALSE
      OBVIOUS
    <3>1. ~ \E z \in rs \ {w} : <<y, x>> = <<w, z>>
      BY <1>2
    <3>2. <<y, x>> \in after
      BY <3>1 DEF Front
    <3> QED
      BY <2>1, <3>2
  <2> QED
    BY <2>2
<1> QED
  BY <1>1, <1>2

\* The API's jobs go on: what is held of them is true still.
LEMMA TruthGoesOn ==
  ASSUME WorkInv, WorkIsTyped', UNCHANGED <<dash, at, booted, calls, prefill>>,
         \A w \in Works : truth.state[w] <= truth'.state[w],
         NewestIsThere(truth'.stored, truth'.written)
  PROVE  WorkInv'
<1>1. \A w \in Works : truth.state[w] \in Int /\ truth'.state[w] \in Int
  BY DEF WorkInv, WorkIsTyped, JobStates
<1>2. ASSUME NEW p \in Brought, NEW v, OfVps(p, v, truth.state) PROVE OfVps(p, v, truth'.state)
  <2>1. \A w \in Works : p.jobs[w] \in Int
    BY DEF Brought, JobStates
  <2> QED
    BY <1>1, <1>2, <2>1 DEF OfVps
<1>3. HeldIsTrue'
  <2>1. \A w \in Works : dash.jobs[w] \in Int
    BY DEF WorkInv, WorkIsTyped, JobStates
  <2>2. \A w \in Works : dash'.jobs[w] <= truth'.state[w]
    BY <1>1, <2>1 DEF WorkInv, HeldIsTrue
  <2>3. \A v \in Servers : OfVps(prefill[v], v, truth'.state)
    BY <1>2 DEF WorkInv, HeldIsTrue, WorkIsTyped
  <2>4. \A c \in calls : OfVps(c.found, c.vps, truth'.state)
    BY <1>2 DEF WorkInv, HeldIsTrue, WorkIsTyped, GetOf
  <2> QED
    BY <2>2, <2>3, <2>4 DEF HeldIsTrue
<1>4. OneOfEach'
  BY DEF WorkInv, OneOfEach
<1> QED
  BY <1>3, <1>4 DEF WorkInv

\* A job is created: it is the last written, and the trim drops others only.
LEMMA CreatedKeeps == WorkInv /\ WorkCreated => WorkInv'
<1> SUFFICES ASSUME WorkInv, WorkCreated PROVE WorkInv'
  OBVIOUS
<1>1. PICK w \in Works :
        /\ truth.state[w] = 0
        /\ LET state   == [truth.state EXCEPT ![w] = 1]
               written == Front(truth.written, w, truth.stored)
           IN  truth' = [state |-> state, stored |-> Trimmed(truth.stored \cup {w}, written, state),
                         written |-> written, recorded |-> Front(truth.recorded, w, Trail)]
        /\ UNCHANGED <<dash, at, booted, calls, prefill, walked>>
  BY DEF WorkCreated
<1> DEFINE state == [truth.state EXCEPT ![w] = 1]
           written == Front(truth.written, w, truth.stored)
           stored == Trimmed(truth.stored \cup {w}, written, state)
           recorded == Front(truth.recorded, w, Trail)
<1>2. truth' = [state |-> state, stored |-> stored, written |-> written, recorded |-> recorded]
  BY <1>1
<1>3. stored \subseteq truth.stored \cup {w}
  BY DEF Trimmed, NewestRows
<1>4. /\ state \in JobStates
      /\ \A x \in Works : state[x] = IF x = w THEN 1 ELSE truth.state[x]
  BY WorkspaceAssumption DEF WorkInv, WorkIsTyped, JobStates
<1> HIDE DEF state, written, stored, recorded
<1>5. truth'.state = state /\ truth'.stored = stored /\ truth'.written = written
  BY <1>2
<1>6. WorkIsTyped'
  <2>1. stored \subseteq Trail'
    <3>1. Trail' = {x \in Works : state[x] # 0}
      BY <1>5 DEF Trail
    <3> QED
      BY <1>3, <1>4, <3>1 DEF WorkInv, WorkIsTyped, Trail
  <2> QED
    BY <1>1, <1>2, <1>4, <1>5, <2>1 DEF WorkInv, WorkIsTyped
<1>7. NewestIsThere(stored, written)
  BY <1>3, FrontKeepsOrder DEF WorkInv, written
<1>8. \A x \in Works : truth.state[x] <= truth'.state[x]
  BY <1>1, <1>4, <1>5 DEF WorkInv, WorkIsTyped, JobStates
<1> QED
  BY <1>1, <1>5, <1>6, <1>7, <1>8, TruthGoesOn

\* A job is written: it is the last written.
LEMMA MovesKeep == WorkInv /\ WorkMoves => WorkInv'
<1> SUFFICES ASSUME WorkInv, WorkMoves PROVE WorkInv'
  OBVIOUS
<1>1. PICK w \in truth.stored :
        /\ truth.state[w] < Done
        /\ truth' = [truth EXCEPT !.state[w] = @ + 1, !.written = Front(@, w, truth.stored)]
        /\ UNCHANGED <<dash, at, booted, calls, prefill, walked>>
  BY DEF WorkMoves
<1> DEFINE state == [truth.state EXCEPT ![w] = @ + 1]
           written == Front(truth.written, w, truth.stored)
<1>2. truth' = [state |-> state, stored |-> truth.stored, written |-> written, recorded |-> truth.recorded]
  BY <1>1 DEF WorkInv, WorkIsTyped
<1>3. w \in Works /\ truth.state \in JobStates /\ \A x \in Works : truth.state[x] \in 0 .. Done
  BY DEF WorkInv, WorkIsTyped, Trail, JobStates
<1>4. /\ state \in JobStates
      /\ \A x \in Works : state[x] = IF x = w THEN truth.state[x] + 1 ELSE truth.state[x]
  BY <1>1, <1>3, WorkspaceAssumption DEF JobStates
<1> HIDE DEF state, written
<1>5. truth'.state = state /\ truth'.stored = truth.stored /\ truth'.written = written
  BY <1>2
<1>6. WorkIsTyped'
  <2>1. truth.stored \subseteq Trail'
    <3>1. Trail' = {x \in Works : state[x] # 0}
      BY <1>5 DEF Trail
    <3> QED
      BY <1>3, <1>4, <3>1 DEF WorkInv, WorkIsTyped, Trail
  <2> QED
    BY <1>1, <1>2, <1>4, <1>5, <2>1 DEF WorkInv, WorkIsTyped
<1>7. NewestIsThere(truth.stored, written)
  <2>1. truth.stored \subseteq truth.stored \cup {w}
    OBVIOUS
  <2> QED
    BY <2>1, FrontKeepsOrder DEF WorkInv, written
<1>8. \A x \in Works : truth.state[x] <= truth'.state[x]
  BY <1>3, <1>4, <1>5
<1> QED
  BY <1>1, <1>5, <1>6, <1>7, <1>8, TruthGoesOn

\* Every step of the dashboard, the workspace and the API keeps the invariant.
LEMMA WorkKeeps == WorkInv /\ [WorkNext]_workVars => WorkInv'
<1>1. ASSUME WorkInv, UNCHANGED workVars PROVE WorkInv'
  BY <1>1 DEF workVars, WorkInv, WorkIsTyped, HeldIsTrue, OneOfEach, Trail
<1> QED
  BY <1>1, VisitsKeep, GetsKeep, DashKeeps, CreatedKeeps, MovesKeep DEF WorkNext

\* What is shown of a job, spelled out.
LEMMA ShownSpelled ==
  ASSUME WorkInv, at \in Servers
  PROVE  \A w \in Works : ShownJobs[w] = IF OwnerOf[w] = at /\ dash.jobs[w] # 0 THEN dash.jobs[w] ELSE prefill[at].jobs[w]
BY DEF ShownJobs, MergeById, GlobalJobs

\* What is merged for the VPS in view is of it, and true.
LEMMA WorkIsWhatItSays == WorkInv => WorkspaceIsOfTheHost
<1> SUFFICES ASSUME WorkInv PROVE WorkspaceIsOfTheHost
  OBVIOUS
<1>1. WorkTypeOK
  BY DEF WorkInv, WorkIsTyped, WorkTypeOK, JobStates, Brought
<1>2. \A c \in calls : c.vps = at
  BY DEF WorkInv, OneOfEach
<1>3. ASSUME InView
      PROVE  /\ \A w \in Works : ShownJobs[w] # 0 => OwnerOf[w] = at /\ ShownJobs[w] <= truth.state[w]
             /\ \A e \in ShownAudit : OwnerOf[e] = at
  <2>1. at \in Servers
    BY <1>3 DEF InView, WorkInv, WorkIsTyped
  <2>2. OfVps(prefill[at], at, truth.state)
    BY <2>1 DEF WorkInv, HeldIsTrue
  <2>3. \A w \in Works : ShownJobs[w] # 0 => OwnerOf[w] = at /\ ShownJobs[w] <= truth.state[w]
    BY <2>1, <2>2, ShownSpelled DEF OfVps, WorkInv, HeldIsTrue
  <2>4. \A e \in ShownAudit : OwnerOf[e] = at
    BY <2>2 DEF OfVps, ShownAudit, GlobalAudit, WorkOf
  <2> QED
    BY <2>3, <2>4
<1>4. ASSUME NEW v \in Servers, truth.stored \cap WorkOf(v) # {} PROVE JobsOfVps(v) # NoWork
  <2> DEFINE S == truth.stored \cap WorkOf(v)
  <2>1. PICK x \in S : \A y \in S : <<y, x>> \notin truth.written
    BY <1>4 DEF WorkInv, NewestIsThere
  <2>2. {y \in S : <<y, x>> \in truth.written} = {}
    BY <2>1
  <2>3. Cardinality({y \in S : <<y, x>> \in truth.written}) < ListLimit
    <3>1. ListLimit \in Nat /\ ListLimit # 0
      BY WorkspaceAssumption
    <3>2. Cardinality({y \in S : <<y, x>> \in truth.written}) = 0
      BY <2>2, FS_EmptySet
    <3> QED
      BY <3>1, <3>2
  <2>4. x \in FirstRows(S, truth.written)
    BY <2>1, <2>3 DEF FirstRows, NewestRows
  <2>5. x \in Works /\ truth.state[x] # 0
    BY <2>1 DEF WorkInv, WorkIsTyped, Trail
  <2>6. JobsOfVps(v)[x] # 0
    BY <2>4, <2>5 DEF JobsOfVps, States
  <2>7. NoWork[x] = 0
    BY <2>5 DEF NoWork
  <2> QED
    BY <2>6, <2>7
<1> QED
  BY <1>1, <1>2, <1>3, <1>4 DEF WorkspaceIsOfTheHost

\* What is shown of a job goes back only when the dashboard's own copy does.
LEMMA ShownGoesForward ==
  WorkInv /\ WorkInv' /\ [WorkNext]_workVars =>
    [InView /\ InView' /\ at' = at =>
       /\ \A w \in Works : ShownJobs'[w] < ShownJobs[w] => dash'.jobs[w] < dash.jobs[w]
       /\ prefill[at].audit \subseteq ShownAudit']_workVars
<1> SUFFICES ASSUME WorkInv, WorkInv', WorkNext, InView, at' = at
             PROVE  /\ \A w \in Works : ShownJobs'[w] < ShownJobs[w] => dash'.jobs[w] < dash.jobs[w]
                    /\ prefill[at].audit \subseteq ShownAudit'
  OBVIOUS
<1>1. at \in Servers /\ Done \in Nat
  BY WorkspaceAssumption DEF InView, WorkInv, WorkIsTyped
<1>2. \A w \in Works : /\ dash.jobs[w] \in 0 .. Done /\ dash'.jobs[w] \in 0 .. Done
                       /\ prefill[at].jobs[w] \in 0 .. Done /\ prefill'[at].jobs[w] \in 0 .. Done
  BY <1>1 DEF WorkInv, WorkIsTyped, JobStates, Brought
<1>3. \A w \in Works : /\ ShownJobs[w] = IF OwnerOf[w] = at /\ dash.jobs[w] # 0 THEN dash.jobs[w] ELSE prefill[at].jobs[w]
                       /\ ShownJobs'[w] = IF OwnerOf[w] = at /\ dash'.jobs[w] # 0 THEN dash'.jobs[w] ELSE prefill'[at].jobs[w]
  BY <1>1 DEF ShownJobs, MergeById, GlobalJobs
<1>4. ShownAudit' = {e \in dash'.audit : OwnerOf[e] = at} \cup prefill'[at].audit
  BY DEF ShownAudit, GlobalAudit
<1>5. ~ Enter /\ ~ LeaveWorkspace
  BY DEF Enter, LeaveWorkspace
<1>6. CASE CallArrives
  <2>1. PICK c \in calls :
          /\ prefill' = [prefill EXCEPT ![c.vps] =
               IF c.what = "jobs" THEN [@ EXCEPT !.jobs = c.found.jobs] ELSE [@ EXCEPT !.audit = c.found.audit]]
          /\ UNCHANGED dash
    BY <1>6 DEF CallArrives
  <2>2. /\ c.vps = at /\ prefill \in [Servers -> Brought] /\ prefill[at] \in Brought
        /\ IF c.what = "jobs" THEN prefill[at].jobs = NoWork ELSE prefill[at].audit = {}
    BY <1>1 DEF WorkInv, WorkIsTyped, OneOfEach
  <2>3. /\ c.what = "jobs" => prefill'[at].audit = prefill[at].audit
        /\ c.what # "jobs" => prefill'[at].jobs = prefill[at].jobs
    BY <1>1, <2>1, <2>2 DEF Brought
  <2>4. prefill[at].audit \subseteq prefill'[at].audit
    BY <2>2, <2>3
  <2>5. \A w \in Works : prefill[at].jobs[w] <= prefill'[at].jobs[w]
    BY <1>2, <2>2, <2>3 DEF NoWork
  <2> QED
    BY <1>2, <1>3, <1>4, <2>1, <2>4, <2>5
<1>7. CASE Load \/ LoadLost \/ Snapshot \/ JobsFrame
  <2>1. prefill' = prefill /\ \A w \in Works : dash'.jobs[w] \in {0, dash.jobs[w], truth.state[w]}
    BY <1>7, DashLearns
  <2>2. \A w \in Works : prefill[at].jobs[w] <= truth.state[w] /\ truth.state[w] \in 0 .. Done
    BY <1>1 DEF WorkInv, WorkIsTyped, HeldIsTrue, OfVps, JobStates
  <2> QED
    BY <1>2, <1>3, <1>4, <2>1, <2>2
<1>8. CASE UNCHANGED <<dash, prefill>>
  BY <1>2, <1>3, <1>4, <1>8
<1> QED
  BY <1>5, <1>6, <1>7, <1>8 DEF WorkNext, CallRead, CallMissed, WorkCreated, WorkMoves

\* The workspace shows jobs and audit rows of the VPS in view only, none of
\* them invented, whichever GET is answered when (the VPS workspace's boot).
THEOREM WorkspaceStaysOfTheHost == WorkSpec => []WorkspaceIsOfTheHost
<1>1. WorkSpec => []WorkInv
  BY WorkOpens, WorkKeeps, PTL DEF WorkSpec
<1> QED
  BY <1>1, WorkIsWhatItSays, PTL

\* While a VPS stays in view, no late GET takes a job shown back to an earlier
\* state, and no audit row of its prefill is lost.
THEOREM WorkspaceAlwaysFollows == WorkSpec => WorkspaceFollows
<1>1. WorkSpec => []WorkInv
  BY WorkOpens, WorkKeeps, PTL DEF WorkSpec
<1> QED
  BY <1>1, ShownGoesForward, PTL DEF WorkSpec, WorkspaceFollows

-----------------------------------------------------------------------------
(* All of them *)

\* Whatever is in focus, each module takes its own steps or none: the run's
\* behaviours are behaviours of each of them.
LEMMA WebIsItsModules ==
  WebSpec => /\ LiveSpec /\ PInit /\ [][PNext]_pageVars /\ NSpec
             /\ CardInit /\ [][CardNext]_cardVars /\ CatalogSpec /\ WorkSpec
<1>1. WebInit => LiveInit /\ PInit /\ NInit /\ CardInit /\ CatalogInit /\ WorkInit
  BY DEF WebInit, LiveRests, PageRests, PanelRests, CardRests, CatalogRests
<1>2. [WebNext]_everything => /\ [LiveNext]_liveVars /\ [PNext]_pageVars /\ [NNext]_panelVars /\ [CardNext]_cardVars
                              /\ [CatalogNext]_catalogVars /\ [WorkNext]_workVars
  <2> SUFFICES ASSUME [WebNext]_everything
               PROVE  /\ LiveNext \/ UNCHANGED liveVars
                      /\ PNext \/ UNCHANGED pageVars
                      /\ NNext \/ UNCHANGED panelVars
                      /\ CardNext \/ UNCHANGED cardVars
                      /\ CatalogNext \/ UNCHANGED catalogVars
                      /\ WorkNext \/ UNCHANGED workVars
    OBVIOUS
  <2>1. CASE UNCHANGED everything
    BY <2>1 DEF everything
  <2>2. CASE WebNext
    BY <2>2 DEF WebNext
  <2> QED
    BY <2>1, <2>2
<1> QED
  BY <1>1, <1>2, PTL DEF WebSpec, LiveSpec, NSpec, CatalogSpec, WorkSpec

\* The pages show, and act on, the VPS they are of; the upgrade card shows jobs
\* as they were and always says what can be done; releases are vouched for.
THEOREM PagesAlwaysShowTheirHost == WebSpec => []PagesShowTheirHost
  BY PageStaysOfTheHost, PanelStaysOfTheHost, CardStaysTrue, ReleasesStayVouched, WorkspaceStaysOfTheHost,
     WebIsItsModules, PTL DEF PagesShowTheirHost

\* What is shown of an operation, of an upgrade's outcome and of a job in the
\* workspace never goes back by an answer that comes late.
THEOREM ShownAlwaysMovesForward == WebSpec => ShownMovesForward
  BY StatusAlwaysFollows, OutcomeIsAlwaysKept, WorkspaceAlwaysFollows, WebIsItsModules, PTL DEF ShownMovesForward

\* So does the stream stay whole in the behaviours of the run.
THEOREM StreamAlwaysWhole == WebSpec => []StreamIsWhole
  BY StreamStaysWhole, WebIsItsModules, PTL
=============================================================================
