---------------------------- MODULE DockerIngest ----------------------------
(***************************************************************************)
(* Docker observations on their way from one host to the history of the    *)
(* API.  The agent numbers its snapshots with a durable sequence and keeps *)
(* at most one batch of events pending until it is acknowledged; the API   *)
(* keeps a ledger of snapshots, the newest of them and a watermark per     *)
(* instance of the agent, in a JSON file or in Postgres.                   *)
(*                                                                         *)
(* A request may be lost, answered too late or served after its retry; the *)
(* agent may crash or be installed anew under another identity; monitoring *)
(* may be switched off, which deletes the history, and on.                 *)
(*                                                                         *)
(* The end of an event window is a reading of the clock: it is the number  *)
(* of the collection.  Host metrics are not kept.  MaxSnaps bounds the     *)
(* collections, MaxTrouble the mishaps, MaxRows the size of the JSON file. *)
(***************************************************************************)
EXTENDS Integers, Sequences, FiniteSets

CONSTANTS None, Instances, Backends, MaxSnaps, MaxTrouble, MaxRows

ASSUME IngestAssumption ==
  /\ MaxSnaps \in Nat /\ MaxTrouble \in Nat /\ MaxRows \in Nat
  /\ Backends \subseteq {"json", "postgres"}
  /\ None \notin Instances /\ IsFiniteSet(Instances)

VARIABLES
  backend,   \* the repository in use
  store,     \* what it holds of the host
  enabled,   \* dockerMetricsEnabled
  clearing,  \* an update has deleted the history and not yet switched off
  agent,     \* the agent: durable state and where its loop stands
  calls,     \* requests no handler has finished
  snaps,     \* collections so far
  retired,   \* instances that are gone
  trouble,   \* mishaps so far
  stored,    \* history: the payloads committed since the last deletion
  written,   \* history: the snapshots ever committed
  acked      \* history: the batches the agent has settled

vars == << backend, store, enabled, clearing, agent, calls, snaps, retired,
           trouble, stored, written, acked >>

api == <<backend, store, enabled, clearing, stored, written>>

-----------------------------------------------------------------------------
(* State *)

Snaps == 1 .. MaxSnaps
Sequences1 == 1 .. 2 * MaxSnaps + 1

\* A batch carries the events of a window, a minimal snapshot none; `bulky'
\* says that it names containers or events.
Payload == [ snap : Snaps, inst : Instances, seq : Sequences1, batch : BOOLEAN,
             from : {0} \cup Snaps, to : Snaps, bulky : BOOLEAN ]

\* A request: its payload, whether its handler has read the host, what the
\* switch said then, and whether the agent still waits.  Two requests that are
\* alike count as one.
Call == [ load : Payload \cup {None}, read : BOOLEAN, on : BOOLEAN,
          waited : BOOLEAN ]

Agent == [ inst : Instances, seq : Sequences1, mark : {0} \cup Snaps,
           pending : Payload \cup {None},
           on : BOOLEAN,       \* what the last answer said of the switch
           busy : BOOLEAN ]    \* a push has not been answered

Entry == [ snap : Snaps, inst : Instances, seq : Sequences1,
           status : {"committed", "replay_ignored"} ]

Latest == [inst : Instances, seq : Sequences1, snap : Snaps]

ASSUME NoneAssumption == None \notin Payload /\ None \notin Latest /\ None \notin Snaps

Store == [ ledger : SUBSET Entry,
           batches : SUBSET Snaps,
           latest : Latest \cup {None},
           marks : [Instances -> {0} \cup Snaps \cup {None}],
           rows : SUBSET Snaps ]

EmptyStore == [ ledger |-> {}, batches |-> {}, latest |-> None,
                marks |-> [i \in Instances |-> None], rows |-> {} ]

NewAgent(i) == [ inst |-> i, seq |-> 1, mark |-> 0, pending |-> None,
                 on |-> FALSE, busy |-> FALSE ]

\* The digest of a request covers its containers and events, each with the
\* millisecond at which the API received it: a retry that has any never has the
\* digest of the request before it.
SameDigest(c) == ~ c.load.bulky

-----------------------------------------------------------------------------
(* The ingest of one unit: the store after it, and the answer *)

Same(s, answer) == [store |-> s, answer |-> answer]

Known(s, c) == { l \in s.ledger : l.snap = c.load.snap }
KnownBatch(s, c) == c.load.batch /\ c.load.snap \in s.batches

\* Faulty: the agent takes a replay for a refusal.
Accepted_First == {"committed", "replay_ignored"}

Accepted == {"committed", "already_committed", "replay_ignored"}

\* JSON: a snapshot, or else a batch, that is known already.
JsonReplay(s, c) ==
  LET ignored == \E l \in Known(s, c) : l.status = "replay_ignored"
  IN Same(s, CASE ~ SameDigest(c) /\ Known(s, c) # {} -> "snapshot_conflict"
               [] ~ SameDigest(c) -> "request_digest_mismatch"
               [] ignored -> "replay_ignored"
               [] OTHER -> "already_committed")

\* Another instance has reported the same or a later sequence.
Displaced(s, c) ==
  /\ s.latest # None
  /\ s.latest.inst # c.load.inst /\ c.load.seq <= s.latest.seq

\* The same instance has reported a later sequence.
Overtaken(s, c) ==
  /\ s.latest # None
  /\ s.latest.inst = c.load.inst /\ c.load.seq < s.latest.seq

\* Faulty: windows are taken as they come.
Disjoint_Never(s, c) == FALSE

\* The window does not start where the last one ended.
Disjoint(s, c) ==
  /\ c.load.batch
  /\ s.marks[c.load.inst] \notin {None, c.load.from}

\* JSON: an overtaken snapshot goes into the ledger, and into nothing else.
JsonIgnore(s, c) ==
  Same([s EXCEPT !.ledger = @ \cup {[ snap |-> c.load.snap, inst |-> c.load.inst,
                                      seq |-> c.load.seq, status |-> "replay_ignored" ]}],
       "replay_ignored")

\* What a commit adds: samples and events, the watermark, the newest snapshot,
\* and the entries of the ledgers.
Committed(s, c) ==
  [ ledger |-> s.ledger \cup {[ snap |-> c.load.snap, inst |-> c.load.inst,
                                seq |-> c.load.seq, status |-> "committed" ]},
    batches |-> IF c.load.batch THEN s.batches \cup {c.load.snap} ELSE s.batches,
    latest |-> [inst |-> c.load.inst, seq |-> c.load.seq, snap |-> c.load.snap],
    marks |-> IF c.load.batch THEN [s.marks EXCEPT ![c.load.inst] = c.load.to]
              ELSE s.marks,
    rows |-> s.rows \cup {c.load.snap} ]

JsonIngest(s, c) ==
  CASE Known(s, c) # {} \/ KnownBatch(s, c) -> JsonReplay(s, c)
    [] OTHER ->
       CASE Displaced(s, c) -> Same(s, "active_instance_conflict")
         [] Overtaken(s, c) -> JsonIgnore(s, c)
         [] Disjoint(s, c) -> Same(s, "watermark_conflict")
         [] Cardinality(s.rows) >= MaxRows -> Same(s, "history_capacity_refused")
         [] OTHER -> Same(Committed(s, c), "committed")

\* Postgres: a known batch, or else a known snapshot, answers with its result.
PgReplay(s, c) ==
  Same(s, IF SameDigest(c) THEN "committed" ELSE "request_digest_mismatch")

\* The unique constraint of docker_snapshot_ledger.
Repeated(s, c) ==
  \E l \in s.ledger : l.inst = c.load.inst /\ l.seq = c.load.seq

PgIngest(s, c) ==
  CASE Known(s, c) # {} \/ KnownBatch(s, c) -> PgReplay(s, c)
    [] OTHER ->
       CASE Overtaken(s, c) -> Same(s, "replay_ignored")
         [] Displaced(s, c) -> Same(s, "active_instance_conflict")
         [] Disjoint(s, c) -> Same(s, "watermark_conflict")
         [] Repeated(s, c) -> Same(s, "unique_violation")
         [] OTHER -> Same(Committed(s, c), "committed")

IngestUnit(s, c) == IF backend = "json" THEN JsonIngest(s, c) ELSE PgIngest(s, c)

-----------------------------------------------------------------------------
(* The agent *)

Transmit(load) ==
  calls' = calls \cup {[load |-> load, read |-> FALSE, on |-> FALSE, waited |-> TRUE]}

\* A full cycle: the batch is bound to the durable sequence and kept before
\* it is sent.
CollectBatch ==
  /\ ~ agent.busy /\ agent.on /\ agent.pending = None /\ snaps < MaxSnaps
  /\ snaps' = snaps + 1
  /\ \E bulky \in BOOLEAN :
       LET load == [ snap |-> snaps + 1, inst |-> agent.inst, seq |-> agent.seq,
                     batch |-> TRUE, from |-> agent.mark, to |-> snaps + 1,
                     bulky |-> bulky ]
       IN /\ agent' = [ agent EXCEPT !.pending = load, !.seq = @ + 1, !.busy = TRUE ]
          /\ Transmit(load)
  /\ UNCHANGED <<api, retired, trouble, acked>>

\* A cycle without events: the sequence is reserved before it is used.
CollectMinimal ==
  /\ ~ agent.busy /\ agent.on /\ agent.pending = None /\ snaps < MaxSnaps
  /\ snaps' = snaps + 1
  /\ agent' = [agent EXCEPT !.seq = @ + 1, !.busy = TRUE]
  /\ Transmit([ snap |-> snaps + 1, inst |-> agent.inst, seq |-> agent.seq,
                batch |-> FALSE, from |-> 0, to |-> snaps + 1, bulky |-> FALSE ])
  /\ UNCHANGED <<api, retired, trouble, acked>>

\* While a batch is pending, a cycle sends it again and nothing else.
Replay ==
  /\ ~ agent.busy /\ agent.pending # None
  /\ agent' = [agent EXCEPT !.busy = TRUE]
  /\ Transmit(agent.pending)
  /\ UNCHANGED <<api, snaps, retired, trouble, acked>>

\* A cycle of a collector that is switched off, or has not been told.
PushHost ==
  /\ ~ agent.busy /\ agent.pending = None /\ ~ agent.on
  /\ agent' = [agent EXCEPT !.busy = TRUE]
  /\ Transmit(None)
  /\ UNCHANGED <<api, snaps, retired, trouble, acked>>

Mishap == trouble < MaxTrouble /\ trouble' = trouble + 1

Unwaited == { IF c.waited THEN [c EXCEPT !.waited = FALSE] ELSE c : c \in calls }

\* The request times out; PushWithRetry sends it again, or the cycle ends.
TimeOut ==
  /\ agent.busy /\ Mishap
  /\ \/ /\ calls' = Unwaited
        /\ agent' = [agent EXCEPT !.busy = FALSE]
     \/ \E c \in calls :
          /\ c.waited
          /\ calls' = Unwaited \cup {[c EXCEPT !.read = FALSE, !.on = FALSE]}
          /\ UNCHANGED agent
  /\ UNCHANGED <<api, snaps, retired, acked>>

\* A request never arrives.
Lose ==
  \E c \in calls :
    /\ ~ c.read /\ ~ c.waited
    /\ calls' = calls \ {c}
    /\ UNCHANGED <<api, agent, snaps, retired, trouble, acked>>

\* A crash forgets the switch and the request; the durable state survives.
Crash ==
  /\ Mishap
  /\ agent' = [agent EXCEPT !.on = FALSE, !.busy = FALSE]
  /\ calls' = Unwaited
  /\ UNCHANGED <<api, snaps, retired, acked>>

\* A new installation has a new identity and starts counting at one.
Reinstall ==
  /\ Mishap
  /\ \E i \in Instances \ (retired \cup {agent.inst}) : agent' = NewAgent(i)
  /\ retired' = retired \cup {agent.inst}
  /\ calls' = Unwaited
  /\ UNCHANGED <<api, snaps, acked>>

\* An acknowledgement that names the pending batch settles it.
Acknowledge(c, answer) ==
  IF answer \in Accepted /\ c.load.batch /\ c.load = agent.pending
  THEN /\ agent' = [ agent EXCEPT !.busy = FALSE, !.on = c.on, !.seq = @ + 1,
                                  !.mark = c.load.to, !.pending = None ]
       /\ acked' = acked \cup {c.load.snap}
  ELSE /\ agent' = [ agent EXCEPT !.busy = FALSE,
                                  !.on = IF answer \in Accepted THEN c.on ELSE @ ]
       /\ UNCHANGED acked

-----------------------------------------------------------------------------
(* The API *)

\* ingestMetric reads the host, and with it the switch.
ReadHost ==
  \E c \in calls :
    /\ ~ c.read
    /\ calls' = (calls \ {c}) \cup {[c EXCEPT !.read = TRUE, !.on = enabled]}
    /\ UNCHANGED <<api, agent, snaps, retired, trouble, acked>>

\* A push without Docker, or to a host with monitoring off: metrics only.
ServeHost ==
  \E c \in calls :
    /\ c.read /\ (c.load = None \/ ~ c.on)
    /\ calls' = calls \ {c}
    /\ agent' = IF c.waited THEN [agent EXCEPT !.busy = FALSE, !.on = c.on] ELSE agent
    /\ UNCHANGED <<api, snaps, retired, trouble, acked>>

\* A push with Docker: one transaction of the repository, and its answer.
ServeDocker ==
  \E c \in calls :
    /\ c.read /\ c.load # None /\ c.on
    /\ calls' = calls \ {c}
    /\ LET r == IngestUnit(store, c)
       IN /\ store' = r.store
          /\ IF r.answer = "committed" /\ r.store # store
             THEN stored' = Append(stored, c.load) /\ written' = written \cup {c.load.snap}
             ELSE UNCHANGED <<stored, written>>
          /\ IF c.waited THEN Acknowledge(c, r.answer) ELSE UNCHANGED <<agent, acked>>
    /\ UNCHANGED <<backend, enabled, clearing, snaps, retired, trouble>>

\* update deletes the history first and then writes the switch.
ClearHistory ==
  /\ enabled /\ ~ clearing /\ Mishap
  /\ store' = EmptyStore /\ stored' = << >>
  /\ clearing' = TRUE
  /\ UNCHANGED <<backend, enabled, written, agent, calls, snaps, retired, acked>>

SwitchOff ==
  /\ clearing
  /\ enabled' = FALSE /\ clearing' = FALSE
  /\ UNCHANGED <<backend, store, stored, written, agent, calls, snaps, retired, trouble, acked>>

SwitchOn ==
  /\ ~ enabled
  /\ enabled' = TRUE
  /\ UNCHANGED <<backend, store, clearing, stored, written, agent, calls, snaps, retired, trouble, acked>>

\* Maintenance removes the oldest samples; the ledgers stay.
Maintain ==
  /\ store.rows # {}
  /\ \E cutoff \in store.rows :
       store' = [store EXCEPT !.rows = { r \in @ : r > cutoff }]
  /\ UNCHANGED <<backend, enabled, clearing, stored, written, agent, calls, snaps, retired, trouble, acked>>

-----------------------------------------------------------------------------
Init ==
  /\ backend \in Backends
  /\ store = EmptyStore /\ enabled = TRUE /\ clearing = FALSE
  /\ \E i \in Instances : agent = NewAgent(i)
  /\ calls = {} /\ snaps = 0 /\ retired = {} /\ trouble = 0
  /\ stored = << >> /\ written = {} /\ acked = {}

Next ==
  \/ CollectBatch \/ CollectMinimal \/ Replay \/ PushHost
  \/ TimeOut \/ Lose \/ Crash \/ Reinstall
  \/ ReadHost \/ ServeHost \/ ServeDocker
  \/ ClearHistory \/ SwitchOff \/ SwitchOn \/ Maintain

Spec == Init /\ [][Next]_vars

\* The loop of the agent goes on, a request is served or never arrives, and an
\* update that has begun ends.
IngestFairness ==
  /\ WF_vars(Replay) /\ WF_vars(ReadHost) /\ WF_vars(ServeHost) /\ WF_vars(ServeDocker)
  /\ WF_vars(SwitchOff)

FairSpec == Spec /\ IngestFairness

-----------------------------------------------------------------------------
(* Properties *)

\* Type invariant.
TypeOK ==
  /\ backend \in Backends
  /\ store \in Store
  /\ enabled \in BOOLEAN /\ clearing \in BOOLEAN
  /\ agent \in Agent
  /\ calls \subseteq Call
  /\ snaps \in {0} \cup Snaps
  /\ retired \subseteq Instances
  /\ trouble \in 0 .. MaxTrouble
  /\ stored \in Seq(Payload)
  /\ written \subseteq Snaps /\ acked \subseteq Snaps

\* A batch the agent forgets was committed: an acknowledgement of a replay, or
\* of a snapshot taken for an old one, never costs a window of events.
AckedWindowsWereStored == acked \subseteq written

\* However often a snapshot is sent, and in whatever order the copies arrive,
\* the history takes it once.
CommittedOnce ==
  \A i, j \in DOMAIN stored : stored[i].snap = stored[j].snap => i = j

\* The i-th and the j-th payload of the history are batches of one instance, and
\* none between them is.
Successive(i, j) ==
  /\ i < j /\ stored[i].batch /\ stored[j].batch /\ stored[i].inst = stored[j].inst
  /\ \A k \in i + 1 .. j - 1 : ~ (stored[k].batch /\ stored[k].inst = stored[i].inst)

\* The windows of events of one instance follow each other without a gap and
\* without an overlap from one deletion of the history to the next.
WindowsAreContiguous ==
  \A i, j \in DOMAIN stored : Successive(i, j) => stored[j].from = stored[i].to

\* What the dashboard shows as the present is the newest snapshot of its
\* instance that was committed, though a late one may arrive after it.
LatestIsNewest ==
  \A l \in store.ledger :
    (l.status = "committed" /\ l.inst = store.latest.inst) => l.seq <= store.latest.seq

\* No two snapshots of one instance come with the same sequence, over crashes
\* and lost answers: Postgres has a unique constraint on it, JSON would not see
\* the difference.
SequencesAreFresh ==
  \A a, b \in store.ledger :
    (a.inst = b.inst /\ a.seq = b.seq) => a.snap = b.snap

\* The payloads that may still be ingested.
InFlight == ({agent.pending} \cup { c.load : c \in calls }) \ {None}

\* The agent counts on: a pending batch has the last sequence it gave, and no
\* retired identity is its own.
AgentCounts ==
  /\ agent.inst \notin retired
  /\ agent.seq <= 2 * snaps + 1
  /\ agent.pending # None =>
       /\ agent.pending.inst = agent.inst /\ agent.pending.seq = agent.seq - 1
       /\ agent.seq <= 2 * snaps

\* A number already given: by the agent there is, or by one that is gone.
Counted(a) ==
  /\ a.snap <= snaps /\ a.inst \in retired \cup {agent.inst}
  /\ a.inst = agent.inst => a.seq < agent.seq

\* A payload and another payload or entry of one sequence are of one snapshot.
Fresh(a, b) == a.inst = b.inst /\ a.seq = b.seq => a.snap = b.snap

\* What is under way was numbered by the agent, each number once.
LoadsAreNumbered ==
  /\ \A a \in InFlight : Counted(a)
  /\ \A l \in store.ledger : Counted(l)
  /\ \A a, b \in InFlight : (a.snap = b.snap => a = b) /\ Fresh(a, b)
  /\ \A a \in InFlight, l \in store.ledger : Fresh(a, l)

\* The ledgers know what was committed, the newest has the highest sequence, and
\* a pending batch is never among what was ignored.
LedgerIsKept ==
  /\ \A l \in store.ledger :
       IF l.status = "committed"
       THEN /\ l.snap \in written
            /\ store.latest # None /\ l.seq <= store.latest.seq
       ELSE agent.pending # None => l.snap # agent.pending.snap
  /\ store.batches \subseteq written
  /\ store.latest # None =>
       \E l \in store.ledger : l.inst = store.latest.inst /\ l.seq = store.latest.seq
  /\ \A k \in DOMAIN stored : \E l \in store.ledger : l.snap = stored[k].snap

\* The k-th payload of the history is the last batch of its instance.
LastBatch(k) ==
  /\ stored[k].batch
  /\ \A j \in k + 1 .. Len(stored) : ~ (stored[j].batch /\ stored[j].inst = stored[k].inst)

\* The watermark of an instance is the end of its last batch.
MarksFollow ==
  \A k \in DOMAIN stored : LastBatch(k) => store.marks[stored[k].inst] = stored[k].to

\* Delivery as a whole: what was acknowledged is stored, once, without gaps, and
\* the present shown is the newest of it, as the agent numbers what it sends and
\* the ledgers know what came.
DeliveryIsExact ==
  /\ TypeOK
  /\ AgentCounts /\ LoadsAreNumbered /\ LedgerIsKept /\ MarksFollow
  /\ AckedWindowsWereStored /\ CommittedOnce /\ WindowsAreContiguous
  /\ LatestIsNewest /\ SequencesAreFresh

\* Why the API refuses the pending batch for good.
Refusals == { "snapshot_conflict", "request_digest_mismatch", "active_instance_conflict",
              "watermark_conflict", "history_capacity_refused" }

Wedged ==
  LET c == [load |-> agent.pending, read |-> TRUE, on |-> TRUE, waited |-> TRUE]
  IN ~ enabled \/ IngestUnit(store, c).answer \in Refusals

\* A pending batch is settled in the end, unless the API is bound to refuse it:
\* the switch is off, its digest has changed, another instance is ahead, its
\* window does not fit the watermark, or the file is full.
EveryBatchSettles ==
  (agent.pending # None) ~> (agent.pending = None \/ Wedged)

\* Violated: an exact retry of a snapshot that is in the history is acknowledged.
RetriesAreAcknowledged ==
  \A c \in calls :
    (c.load # None /\ c.read /\ c.on /\ \E l \in Known(store, c) : l.status = "committed")
      => IngestUnit(store, c).answer \in Accepted

\* Violated: a new installation takes over from the one before it.
NewInstanceIsHeard ==
  \A c \in calls :
    (c.load # None /\ c.read /\ c.on /\ c.load.inst = agent.inst)
      => IngestUnit(store, c).answer # "active_instance_conflict"

=============================================================================
