----------------------- MODULE DockerMonitoring_proofs -----------------------
(***************************************************************************)
(* Theorems about the modules of the Docker monitoring and the inventory   *)
(* that has its switches.                                                  *)
(*                                                                         *)
(* DockerIngest, for every number of collections, mishaps and identities   *)
(* of the agent: DeliveryIsExact is inductive.  The agent numbers what it  *)
(* sends, so a copy that comes late carries the number of its original;    *)
(* the ledgers know every number that was committed, so the history takes  *)
(* it once; and a batch that is still pending has the last number of its   *)
(* agent, so no answer but that of its own commit makes the agent forget   *)
(* it.                                                                     *)
(*                                                                         *)
(* DockerAlerts, for every kind of rule, either repository and every bound *)
(* on the rows: a window is the end of what was seen, a quiet run is of    *)
(* observations against the condition, and an alert that evidence can      *)
(* clear has not had all it takes, so AlertsFollowTheRule holds.           *)
(*                                                                         *)
(* DockerHistory, for every size of a page, cap and bound on the rows: how *)
(* many rows are newer tells the place of a row, so sorting puts them in   *)
(* order; a page is the beginning of an ordered sequence of the rows below *)
(* its cursor; so a walk has shown each row that stands or has it before   *)
(* it, whatever was written between two of its pages.                      *)
(*                                                                         *)
(* VpsInventory, for every number of requests, pushes and starts: a script *)
(* holds the record as it is until the API writes, no two edits overlap    *)
(* unless it is remembered, and an edit about to turn the metrics off has  *)
(* cleaned up or finds them off.                                           *)
(***************************************************************************)
EXTENDS MCDocker, FiniteSetTheorems, SequenceTheorems, TLAPS


-----------------------------------------------------------------------------
(* State *)

\* The numbers of what is under way and in the ledger.
LEMMA StateTyped ==
  ASSUME TypeOK
  PROVE  /\ MaxSnaps \in Nat /\ snaps \in Nat /\ snaps <= MaxSnaps
         /\ agent \in Agent /\ agent.inst \in Instances /\ agent.seq \in Nat
         /\ agent.pending \in Payload \cup {None}
         /\ \A a \in InFlight : /\ a \in Payload /\ a.snap \in Nat /\ a.seq \in Nat
                                /\ a.inst \in Instances
         /\ store \in Store
         /\ \A l \in store.ledger : l \in Entry /\ l.snap \in Nat /\ l.seq \in Nat
         /\ store.latest # None => store.latest \in Latest /\ store.latest.seq \in Nat
<1>1. MaxSnaps \in Nat /\ Snaps \subseteq Nat /\ Sequences1 \subseteq Nat
  BY IngestAssumption DEF Snaps, Sequences1
<1>2. snaps \in Nat /\ snaps <= MaxSnaps
  BY <1>1 DEF TypeOK, Snaps
<1>3. /\ agent \in Agent /\ agent.inst \in Instances /\ agent.seq \in Nat
      /\ agent.pending \in Payload \cup {None}
  BY <1>1 DEF TypeOK, Agent
<1>4. \A a \in InFlight : a \in Payload
  BY <1>3 DEF InFlight, TypeOK, Call
<1>5. \A a \in Payload : a.snap \in Nat /\ a.seq \in Nat /\ a.inst \in Instances
  BY <1>1 DEF Payload
<1>6. store \in Store
  BY DEF TypeOK
<1>7. /\ \A l \in store.ledger : l \in Entry
      /\ store.latest # None => store.latest \in Latest
  BY <1>6 DEF Store
<1>8. \A l \in Entry : l.snap \in Nat /\ l.seq \in Nat
  BY <1>1 DEF Entry
<1>9. \A l \in Latest : l.seq \in Nat
  BY <1>1 DEF Latest
<1> QED
  BY <1>1, <1>2, <1>3, <1>4, <1>5, <1>6, <1>7, <1>8, <1>9

-----------------------------------------------------------------------------
(* Frames *)

\* The numbers stay in order when nothing new is under way, and what the ledger
\* gains was.
LEMMA NumbersStay ==
  ASSUME LoadsAreNumbered, SequencesAreFresh,
         \A a \in InFlight \cup store.ledger : Counted(a)',
         InFlight' \subseteq InFlight,
         \A l \in store'.ledger :
           \/ l \in store.ledger
           \/ \E a \in InFlight : l.snap = a.snap /\ l.inst = a.inst /\ l.seq = a.seq
  PROVE  LoadsAreNumbered' /\ SequencesAreFresh'
<1>1. \A l \in store'.ledger : Counted(l)'
  BY DEF Counted
<1>2. \A a \in InFlight', l \in store'.ledger : Fresh(a, l)
  BY DEF LoadsAreNumbered, Fresh
<1>3. SequencesAreFresh'
  BY DEF LoadsAreNumbered, Fresh, SequencesAreFresh
<1>4. \A a \in InFlight' : Counted(a)'
  OBVIOUS
<1> QED
  BY <1>1, <1>2, <1>3, <1>4 DEF LoadsAreNumbered

\* What the history and the ledgers hold.
HistoryStays ==
  /\ UNCHANGED <<stored, written, acked>>
  /\ store'.ledger = store.ledger /\ store'.batches = store.batches
  /\ store'.latest = store.latest /\ store'.marks = store.marks

\* The history is as it was, and a batch that becomes pending is a new one.
LEMMA HistoryIsKept ==
  ASSUME DeliveryIsExact, HistoryStays,
         agent'.pending # None =>
           agent'.pending = agent.pending \/ agent'.pending.snap > snaps
  PROVE  /\ LedgerIsKept' /\ MarksFollow' /\ AckedWindowsWereStored'
         /\ CommittedOnce' /\ WindowsAreContiguous' /\ LatestIsNewest'
<1>1. /\ TypeOK /\ LedgerIsKept /\ MarksFollow /\ AckedWindowsWereStored
      /\ CommittedOnce /\ WindowsAreContiguous /\ LatestIsNewest
      /\ \A l \in store.ledger : Counted(l)
  BY DEF DeliveryIsExact, LoadsAreNumbered
<1>2. snaps \in Nat /\ \A l \in store.ledger : l.snap \in Nat /\ l.snap <= snaps
  BY <1>1, StateTyped DEF Counted
<1>3. ASSUME NEW l \in store.ledger, agent'.pending # None, l.status # "committed"
      PROVE  l.snap # agent'.pending.snap
  <2>1. CASE agent'.pending = agent.pending
    BY <1>1, <1>3, <2>1 DEF LedgerIsKept
  <2>2. CASE agent'.pending.snap > snaps
    BY <1>2, <2>2
  <2> QED
    BY <1>3, <2>1, <2>2
<1>4. LedgerIsKept'
  BY <1>1, <1>3 DEF LedgerIsKept, HistoryStays
<1>5. MarksFollow' /\ AckedWindowsWereStored' /\ LatestIsNewest'
  BY <1>1 DEF MarksFollow, LastBatch, AckedWindowsWereStored, LatestIsNewest, HistoryStays
<1>6. CommittedOnce' /\ WindowsAreContiguous'
  BY <1>1 DEF CommittedOnce, WindowsAreContiguous, Successive, HistoryStays
<1> QED
  BY <1>4, <1>5, <1>6

\* A step that numbers nothing and stores nothing.
LEMMA QuietStep ==
  ASSUME DeliveryIsExact, TypeOK', HistoryStays, InFlight' \subseteq InFlight,
         UNCHANGED <<snaps, retired>>,
         agent'.inst = agent.inst, agent'.seq = agent.seq, agent'.pending = agent.pending
  PROVE  DeliveryIsExact'
<1>1. AgentCounts /\ LoadsAreNumbered /\ SequencesAreFresh
  BY DEF DeliveryIsExact
<1>2. snaps' = snaps /\ retired' = retired /\ store'.ledger = store.ledger
  BY DEF HistoryStays
<1>3. AgentCounts'
  BY <1>1, <1>2 DEF AgentCounts
<1>4. \A a \in InFlight \cup store.ledger : Counted(a)'
  BY <1>1, <1>2 DEF LoadsAreNumbered, Counted
<1>5. LoadsAreNumbered' /\ SequencesAreFresh'
  BY <1>1, <1>2, <1>4, NumbersStay
<1> QED
  BY <1>3, <1>5, HistoryIsKept DEF DeliveryIsExact

-----------------------------------------------------------------------------
(* The agent *)

\* What is under way when the calls are about what they were about.
LEMMA SameLoads ==
  ASSUME \A d \in calls' : \E c \in calls : d.load = c.load,
         agent'.pending = None \/ agent'.pending = agent.pending
  PROVE  InFlight' \subseteq InFlight
BY DEF InFlight

\* The agent stops waiting: its requests are as they were.
LEMMA UnwaitedLoads ==
  ASSUME TypeOK
  PROVE  Unwaited \subseteq Call /\ \A d \in Unwaited : \E c \in calls : d.load = c.load
<1> SUFFICES ASSUME NEW d \in Unwaited PROVE d \in Call /\ \E c \in calls : d.load = c.load
  OBVIOUS
<1>1. PICK c \in calls : d = IF c.waited THEN [c EXCEPT !.waited = FALSE] ELSE c
  BY DEF Unwaited
<1>2. c \in Call
  BY DEF TypeOK
<1>3. d \in Call /\ d.load = c.load
  BY <1>1, <1>2 DEF Call
<1> QED
  BY <1>3

\* A request that is sent.
LEMMA SentLoad ==
  ASSUME TypeOK, NEW load \in Payload \cup {None}, Transmit(load)
  PROVE  calls' \subseteq Call /\ \A d \in calls' : d \in calls \/ d.load = load
<1> DEFINE n == [load |-> load, read |-> FALSE, on |-> FALSE, waited |-> TRUE]
<1>1. n \in Call /\ n.load = load
  BY DEF Call
<1>2. calls' = calls \cup {n}
  BY DEF Transmit
<1> HIDE DEF n
<1> QED
  BY <1>1, <1>2 DEF TypeOK

\* A collection: its number and its sequence are new.
LEMMA CollectionStep ==
  ASSUME DeliveryIsExact, TypeOK', HistoryStays, NEW load \in Payload,
         load.snap = snaps + 1, load.inst = agent.inst, load.seq = agent.seq,
         InFlight' \subseteq InFlight \cup {load},
         snaps' = snaps + 1, retired' = retired,
         agent'.inst = agent.inst, agent'.seq = agent.seq + 1,
         agent'.pending \in {None, load}
  PROVE  DeliveryIsExact'
<1>1. /\ TypeOK /\ AgentCounts /\ LoadsAreNumbered /\ SequencesAreFresh
      /\ store'.ledger = store.ledger
  BY DEF DeliveryIsExact, HistoryStays
<1>2. /\ snaps \in Nat /\ agent.seq \in Nat
      /\ \A a \in InFlight : a.snap \in Nat /\ a.seq \in Nat
      /\ \A l \in store.ledger : l.snap \in Nat /\ l.seq \in Nat
  BY <1>1, StateTyped
<1>3. AgentCounts'
  <2>1. agent.seq <= 2 * snaps + 1
    BY <1>1 DEF AgentCounts
  <2>2. agent'.seq <= 2 * snaps' /\ agent'.seq - 1 = agent.seq
    BY <1>2, <2>1
  <2>3. agent'.seq <= 2 * snaps' + 1
    BY <1>2, <2>2
  <2> QED
    BY <1>1, <2>2, <2>3 DEF AgentCounts
<1>4. ASSUME NEW a \in InFlight \cup store.ledger
      PROVE  /\ Counted(a)' /\ a.snap # load.snap
             /\ ~ (a.inst = load.inst /\ a.seq = load.seq)
  <2>1. Counted(a) /\ a.snap \in Nat /\ a.seq \in Nat
    BY <1>1, <1>2 DEF LoadsAreNumbered
  <2>2. a.snap <= snaps /\ (a.inst = agent.inst => a.seq < agent.seq)
    BY <2>1 DEF Counted
  <2> QED
    BY <1>2, <2>1, <2>2 DEF Counted
<1>5. Counted(load)'
  BY <1>2 DEF Counted
<1>6. LoadsAreNumbered'
  <2>1. \A a, b \in InFlight' : (a.snap = b.snap => a = b) /\ Fresh(a, b)
    BY <1>1, <1>4 DEF LoadsAreNumbered, Fresh
  <2>2. \A a \in InFlight', l \in store'.ledger : Fresh(a, l)
    BY <1>1, <1>4 DEF LoadsAreNumbered, Fresh
  <2> QED
    BY <1>1, <1>4, <1>5, <2>1, <2>2 DEF LoadsAreNumbered
<1>7. SequencesAreFresh'
  BY <1>1 DEF SequencesAreFresh
<1>8. agent'.pending # None => agent'.pending.snap > snaps
  BY <1>2
<1> QED
  BY <1>3, <1>6, <1>7, <1>8, HistoryIsKept DEF DeliveryIsExact

\* A batch is collected, and pending.
LEMMA CollectBatchStep ==
  ASSUME DeliveryIsExact, CollectBatch
  PROVE  DeliveryIsExact'
<1>1. /\ TypeOK /\ AgentCounts /\ snaps < MaxSnaps /\ snaps' = snaps + 1
      /\ agent.pending = None
      /\ UNCHANGED <<backend, store, enabled, clearing, stored, written, retired, trouble, acked>>
  BY DEF DeliveryIsExact, CollectBatch, api
<1>0. PICK bulky \in BOOLEAN : \E load :
        /\ load = [ snap |-> snaps + 1, inst |-> agent.inst, seq |-> agent.seq,
                    batch |-> TRUE, from |-> agent.mark, to |-> snaps + 1,
                    bulky |-> bulky ]
        /\ agent' = [ agent EXCEPT !.pending = load, !.seq = @ + 1, !.busy = TRUE ]
        /\ Transmit(load)
  BY DEF CollectBatch
<1>2. PICK load :
        /\ load = [ snap |-> snaps + 1, inst |-> agent.inst, seq |-> agent.seq,
                    batch |-> TRUE, from |-> agent.mark, to |-> snaps + 1,
                    bulky |-> bulky ]
        /\ agent' = [ agent EXCEPT !.pending = load, !.seq = @ + 1, !.busy = TRUE ]
        /\ Transmit(load)
  BY <1>0
<1>3. /\ agent \in Agent /\ snaps \in Nat /\ MaxSnaps \in Nat /\ agent.seq \in Nat
      /\ agent.seq <= 2 * snaps + 1 /\ agent.mark \in {0} \cup Snaps
      /\ agent.inst \in Instances /\ agent.seq \in Sequences1
  BY <1>1, StateTyped DEF AgentCounts, Agent
<1>4. snaps + 1 \in Snaps /\ agent.seq + 1 \in Sequences1
  BY <1>1, <1>3 DEF Snaps, Sequences1
<1>5. /\ load \in Payload /\ load.snap = snaps + 1 /\ load.inst = agent.inst
      /\ load.seq = agent.seq
  BY <1>2, <1>3, <1>4 DEF Payload
<1>6. /\ agent' \in Agent /\ agent'.inst = agent.inst /\ agent'.seq = agent.seq + 1
      /\ agent'.pending = load
  BY <1>2, <1>3, <1>4, <1>5 DEF Agent
<1>7. calls' \subseteq Call /\ \A d \in calls' : d \in calls \/ d.load = load
  BY <1>1, <1>2, <1>5, SentLoad
<1>8. InFlight' \subseteq InFlight \cup {load}
  BY <1>6, <1>7 DEF InFlight
<1>9. TypeOK'
  BY <1>1, <1>4, <1>6, <1>7 DEF TypeOK
<1>10. HistoryStays
  BY <1>1 DEF HistoryStays
<1> QED
  BY <1>1, <1>5, <1>6, <1>8, <1>9, <1>10, CollectionStep

\* A minimal snapshot is collected.
LEMMA CollectMinimalStep ==
  ASSUME DeliveryIsExact, CollectMinimal
  PROVE  DeliveryIsExact'
<1>1. /\ TypeOK /\ AgentCounts /\ snaps < MaxSnaps /\ snaps' = snaps + 1
      /\ agent.pending = None /\ agent' = [agent EXCEPT !.seq = @ + 1, !.busy = TRUE]
      /\ UNCHANGED <<backend, store, enabled, clearing, stored, written, retired, trouble, acked>>
  BY DEF DeliveryIsExact, CollectMinimal, api
<1>2. PICK load :
        /\ load = [ snap |-> snaps + 1, inst |-> agent.inst, seq |-> agent.seq,
                    batch |-> FALSE, from |-> 0, to |-> snaps + 1, bulky |-> FALSE ]
        /\ Transmit(load)
  BY DEF CollectMinimal
<1>3. /\ agent \in Agent /\ snaps \in Nat /\ MaxSnaps \in Nat /\ agent.seq \in Nat
      /\ agent.seq <= 2 * snaps + 1
      /\ agent.inst \in Instances /\ agent.seq \in Sequences1
  BY <1>1, StateTyped DEF AgentCounts, Agent
<1>4. snaps + 1 \in Snaps /\ agent.seq + 1 \in Sequences1
  BY <1>1, <1>3 DEF Snaps, Sequences1
<1>5. /\ load \in Payload /\ load.snap = snaps + 1 /\ load.inst = agent.inst
      /\ load.seq = agent.seq
  BY <1>2, <1>3, <1>4 DEF Payload
<1>6. /\ agent' \in Agent /\ agent'.inst = agent.inst /\ agent'.seq = agent.seq + 1
      /\ agent'.pending = None
  BY <1>1, <1>3, <1>4 DEF Agent
<1>7. calls' \subseteq Call /\ \A d \in calls' : d \in calls \/ d.load = load
  BY <1>1, <1>2, <1>5, SentLoad
<1>8. InFlight' \subseteq InFlight \cup {load}
  BY <1>6, <1>7 DEF InFlight
<1>9. TypeOK'
  BY <1>1, <1>4, <1>6, <1>7 DEF TypeOK
<1>10. HistoryStays
  BY <1>1 DEF HistoryStays
<1> QED
  BY <1>1, <1>5, <1>6, <1>8, <1>9, <1>10, CollectionStep

\* The pending batch is sent again, or a push without Docker is sent.
LEMMA ResendStep ==
  ASSUME DeliveryIsExact, Replay \/ PushHost
  PROVE  DeliveryIsExact'
<1>1. /\ TypeOK /\ agent \in Agent /\ agent.pending \in Payload \cup {None}
      /\ agent' = [agent EXCEPT !.busy = TRUE]
      /\ UNCHANGED <<backend, store, enabled, clearing, stored, written,
                     snaps, retired, trouble, acked>>
  BY StateTyped DEF DeliveryIsExact, Replay, PushHost, api
<1>2. PICK load \in {agent.pending, None} : Transmit(load)
  BY DEF Replay, PushHost
<1>3. /\ agent' \in Agent /\ agent'.inst = agent.inst /\ agent'.seq = agent.seq
      /\ agent'.pending = agent.pending
  BY <1>1 DEF Agent
<1>4. calls' \subseteq Call /\ \A d \in calls' : d \in calls \/ d.load = load
  BY <1>1, <1>2, SentLoad
<1>5. InFlight' \subseteq InFlight
  BY <1>2, <1>3, <1>4 DEF InFlight
<1>6. TypeOK'
  BY <1>1, <1>3, <1>4 DEF TypeOK
<1>7. HistoryStays
  BY <1>1 DEF HistoryStays
<1> QED
  BY <1>1, <1>3, <1>5, <1>6, <1>7, QuietStep

\* A mishap is counted within its bound.
LEMMA MishapCounts ==
  ASSUME TypeOK, Mishap
  PROVE  trouble' \in 0 .. MaxTrouble
BY IngestAssumption DEF TypeOK, Mishap

\* The agent gives up waiting, retries, or crashes.
LEMMA GiveUpStep ==
  ASSUME DeliveryIsExact, TimeOut \/ Crash
  PROVE  DeliveryIsExact'
<1>1. /\ TypeOK /\ agent \in Agent /\ trouble' \in 0 .. MaxTrouble
      /\ UNCHANGED <<backend, store, enabled, clearing, stored, written,
                     snaps, retired, acked>>
  <2>1. TypeOK /\ Mishap
    BY DEF DeliveryIsExact, TimeOut, Crash
  <2>2. UNCHANGED <<backend, store, enabled, clearing, stored, written,
                    snaps, retired, acked>>
    BY DEF TimeOut, Crash, api
  <2> QED
    BY <2>1, <2>2, MishapCounts, StateTyped
<1>2. \/ agent' = agent \/ agent' = [agent EXCEPT !.busy = FALSE]
      \/ agent' = [agent EXCEPT !.on = FALSE, !.busy = FALSE]
  BY DEF TimeOut, Crash
<1>3. /\ agent' \in Agent /\ agent'.inst = agent.inst /\ agent'.seq = agent.seq
      /\ agent'.pending = agent.pending
  BY <1>1, <1>2 DEF Agent
<1>4. calls' \subseteq Call /\ \A d \in calls' : \E c \in calls : d.load = c.load
  <2>1. Unwaited \subseteq Call /\ \A d \in Unwaited : \E c \in calls : d.load = c.load
    BY <1>1, UnwaitedLoads
  <2>2. CASE calls' = Unwaited
    BY <2>1, <2>2
  <2>3. CASE \E c \in calls : calls' = Unwaited \cup {[c EXCEPT !.read = FALSE, !.on = FALSE]}
    <3>1. PICK c \in calls : calls' = Unwaited \cup {[c EXCEPT !.read = FALSE, !.on = FALSE]}
      BY <2>3
    <3> DEFINE n == [c EXCEPT !.read = FALSE, !.on = FALSE]
    <3>2. c \in Call
      BY <1>1 DEF TypeOK
    <3>3. n \in Call /\ n.load = c.load
      BY <3>2 DEF Call
    <3>4. calls' = Unwaited \cup {n}
      BY <3>1
    <3> HIDE DEF n
    <3> QED
      BY <2>1, <3>3, <3>4
  <2> QED
    BY <2>2, <2>3 DEF TimeOut, Crash
<1>5. InFlight' \subseteq InFlight
  BY <1>3, <1>4, SameLoads
<1>6. TypeOK'
  BY <1>1, <1>3, <1>4 DEF TypeOK
<1>7. HistoryStays
  BY <1>1 DEF HistoryStays
<1> QED
  BY <1>1, <1>3, <1>5, <1>6, <1>7, QuietStep

\* A request is lost, or its handler reads the host, or serves a push that has
\* no Docker in it.
LEMMA HandleStep ==
  ASSUME DeliveryIsExact, Lose \/ ReadHost \/ ServeHost
  PROVE  DeliveryIsExact'
<1>1. /\ TypeOK /\ agent \in Agent
      /\ UNCHANGED <<backend, store, enabled, clearing, stored, written,
                     snaps, retired, trouble, acked>>
  BY StateTyped DEF DeliveryIsExact, Lose, ReadHost, ServeHost, api
<1>2. PICK c \in calls :
        /\ \/ calls' = calls \ {c}
           \/ calls' = (calls \ {c}) \cup {[c EXCEPT !.read = TRUE, !.on = enabled]}
        /\ agent' = agent \/ agent' = [agent EXCEPT !.busy = FALSE, !.on = c.on]
  BY DEF Lose, ReadHost, ServeHost
<1>3. c \in Call /\ c.on \in BOOLEAN /\ enabled \in BOOLEAN
  BY <1>1 DEF TypeOK, Call
<1>4. /\ agent' \in Agent /\ agent'.inst = agent.inst /\ agent'.seq = agent.seq
      /\ agent'.pending = agent.pending
  BY <1>1, <1>2, <1>3 DEF Agent
<1>5. calls' \subseteq Call /\ \A d \in calls' : \E b \in calls : d.load = b.load
  <2> DEFINE n == [c EXCEPT !.read = TRUE, !.on = enabled]
  <2>1. n \in Call /\ n.load = c.load
    BY <1>3 DEF Call
  <2>2. calls' \subseteq calls \cup {n}
    BY <1>2
  <2> HIDE DEF n
  <2> QED
    BY <1>1, <2>1, <2>2 DEF TypeOK
<1>6. InFlight' \subseteq InFlight
  BY <1>4, <1>5, SameLoads
<1>7. TypeOK'
  BY <1>1, <1>4, <1>5 DEF TypeOK
<1>8. HistoryStays
  BY <1>1 DEF HistoryStays
<1> QED
  BY <1>1, <1>4, <1>6, <1>7, <1>8, QuietStep

\* A new installation: its identity is in no payload and no entry.
LEMMA ReinstallStep ==
  ASSUME DeliveryIsExact, Reinstall
  PROVE  DeliveryIsExact'
<1>1. /\ TypeOK /\ AgentCounts /\ LoadsAreNumbered /\ SequencesAreFresh
      /\ agent \in Agent /\ trouble' \in 0 .. MaxTrouble /\ calls' = Unwaited
      /\ retired' = retired \cup {agent.inst} /\ retired \subseteq Instances
      /\ agent.inst \in Instances /\ snaps \in Nat
      /\ UNCHANGED <<backend, store, enabled, clearing, stored, written, snaps, acked>>
  BY StateTyped, IngestAssumption DEF DeliveryIsExact, Reinstall, Mishap, api, TypeOK
<1>2. PICK i \in Instances \ (retired \cup {agent.inst}) : agent' = NewAgent(i)
  BY DEF Reinstall
<1>3. /\ agent' \in Agent /\ agent'.inst = i /\ agent'.seq = 1 /\ agent'.pending = None
  BY <1>2, IngestAssumption DEF NewAgent, Agent, Sequences1
<1>4. calls' \subseteq Call /\ \A d \in calls' : \E c \in calls : d.load = c.load
  BY <1>1, UnwaitedLoads
<1>5. InFlight' \subseteq InFlight
  BY <1>3, <1>4, SameLoads
<1>6. TypeOK'
  BY <1>1, <1>3, <1>4 DEF TypeOK
<1>7. AgentCounts'
  BY <1>1, <1>2, <1>3 DEF AgentCounts
<1>8. \A a \in InFlight \cup store.ledger : Counted(a)'
  BY <1>1, <1>2, <1>3 DEF LoadsAreNumbered, Counted
<1>9. LoadsAreNumbered' /\ SequencesAreFresh'
  BY <1>1, <1>5, <1>8, NumbersStay
<1>10. HistoryStays
  BY <1>1 DEF HistoryStays
<1> QED
  BY <1>3, <1>6, <1>7, <1>9, <1>10, HistoryIsKept DEF DeliveryIsExact

-----------------------------------------------------------------------------
(* The API *)

\* The switch is written, or maintenance removes samples.
LEMMA UpkeepStep ==
  ASSUME DeliveryIsExact, SwitchOff \/ SwitchOn \/ Maintain
  PROVE  DeliveryIsExact'
<1>1. /\ TypeOK /\ store \in Store
      /\ UNCHANGED <<backend, stored, written, agent, calls, snaps, retired, trouble, acked>>
      /\ enabled' \in BOOLEAN /\ clearing' \in BOOLEAN
  BY StateTyped DEF DeliveryIsExact, SwitchOff, SwitchOn, Maintain, TypeOK
<1>2. /\ store' \in Store /\ store'.ledger = store.ledger /\ store'.batches = store.batches
      /\ store'.latest = store.latest /\ store'.marks = store.marks
  <2>1. CASE store' = store
    BY <1>1, <2>1
  <2>2. CASE \E cutoff \in store.rows :
               store' = [store EXCEPT !.rows = { r \in @ : r > cutoff }]
    BY <1>1, <2>2 DEF Store
  <2> QED
    BY <2>1, <2>2 DEF SwitchOff, SwitchOn, Maintain
<1>3. TypeOK' /\ InFlight' \subseteq InFlight
  BY <1>1, <1>2 DEF TypeOK, InFlight
<1> QED
  BY <1>1, <1>2, <1>3, QuietStep DEF HistoryStays

\* The history is deleted, with the ledgers and the watermarks.
LEMMA ClearHistoryStep ==
  ASSUME DeliveryIsExact, ClearHistory
  PROVE  DeliveryIsExact'
<1>1. /\ TypeOK /\ AgentCounts /\ LoadsAreNumbered /\ SequencesAreFresh
      /\ AckedWindowsWereStored /\ trouble' \in 0 .. MaxTrouble
      /\ store' = EmptyStore /\ stored' = << >> /\ clearing' = TRUE
      /\ UNCHANGED <<backend, enabled, written, agent, calls, snaps, retired, acked>>
  BY MishapCounts DEF DeliveryIsExact, ClearHistory
<1>2. /\ store' \in Store /\ store'.ledger = {} /\ store'.batches = {}
      /\ store'.latest = None
  BY <1>1 DEF EmptyStore, Store
<1>3. stored' \in Seq(Payload) /\ DOMAIN stored' = {}
  BY <1>1, EmptySeq
<1>4. TypeOK'
  BY <1>1, <1>2, <1>3 DEF TypeOK
<1>5. AgentCounts' /\ AckedWindowsWereStored'
  BY <1>1 DEF AgentCounts, AckedWindowsWereStored
<1>6. LoadsAreNumbered' /\ SequencesAreFresh'
  <2>1. \A a \in InFlight \cup store.ledger : Counted(a)'
    BY <1>1 DEF LoadsAreNumbered, Counted
  <2>2. InFlight' \subseteq InFlight
    BY <1>1 DEF InFlight
  <2> QED
    BY <1>1, <1>2, <2>1, <2>2, NumbersStay
<1>7. LedgerIsKept' /\ MarksFollow'
  BY <1>2, <1>3 DEF LedgerIsKept, MarksFollow
<1>8. CommittedOnce' /\ WindowsAreContiguous' /\ LatestIsNewest'
  BY <1>2, <1>3 DEF CommittedOnce, WindowsAreContiguous, LatestIsNewest
<1> QED
  BY <1>4, <1>5, <1>6, <1>7, <1>8 DEF DeliveryIsExact

\* The entry of an ingested payload.
EntryOf(c, status) ==
  [snap |-> c.load.snap, inst |-> c.load.inst, seq |-> c.load.seq, status |-> status]

\* The payload is in a ledger already, or the newest snapshot overtook it.
Settles(c) ==
  \/ \E l \in store.ledger : l.snap = c.load.snap
  \/ c.load.batch /\ c.load.snap \in store.batches
  \/ Overtaken(store, c)

\* The outcomes of an ingest: nothing is stored, and the answer accepts only what
\* is settled; or an overtaken snapshot goes into the ledger; or a new one that
\* fits is committed.
LEMMA IngestOutcomes ==
  ASSUME NEW c
  PROVE  LET r == IngestUnit(store, c) IN
         \/ r.store = store /\ (r.answer \in Accepted => Settles(c))
         \/ /\ r.store = [store EXCEPT !.ledger = @ \cup {EntryOf(c, "replay_ignored")}]
            /\ r.answer = "replay_ignored" /\ Overtaken(store, c)
         \/ /\ r.store = Committed(store, c) /\ r.answer = "committed"
            /\ Known(store, c) = {} /\ ~ Displaced(store, c) /\ ~ Overtaken(store, c)
            /\ ~ Disjoint(store, c)
<1> DEFINE r == IngestUnit(store, c)
<1>1. \A s, answer : Same(s, answer).store = s /\ Same(s, answer).answer = answer
  BY DEF Same
<1>2. CASE Known(store, c) # {} \/ KnownBatch(store, c)
  <2>1. Settles(c)
    BY <1>2 DEF Settles, Known, KnownBatch
  <2>2. r.store = store
    <3>1. CASE backend = "json"
      <4>1. r = JsonReplay(store, c)
        BY <1>2, <3>1 DEF IngestUnit, JsonIngest
      <4> QED
        BY <1>1, <4>1 DEF JsonReplay
    <3>2. CASE backend # "json"
      <4>1. r = PgReplay(store, c)
        BY <1>2, <3>2 DEF IngestUnit, PgIngest
      <4> QED
        BY <1>1, <4>1 DEF PgReplay
    <3> QED
      BY <3>1, <3>2
  <2> QED
    BY <2>1, <2>2
<1>3. CASE ~ (Known(store, c) # {} \/ KnownBatch(store, c)) /\ backend = "json"
  <2>1. \/ r = Same(store, "active_instance_conflict")
        \/ r = JsonIgnore(store, c) /\ Overtaken(store, c)
        \/ r = Same(store, "watermark_conflict")
        \/ r = Same(store, "history_capacity_refused")
        \/ /\ r = Same(Committed(store, c), "committed") /\ ~ Displaced(store, c)
           /\ ~ Overtaken(store, c) /\ ~ Disjoint(store, c)
    BY <1>3 DEF IngestUnit, JsonIngest
  <2> QED
    BY <1>1, <1>3, <2>1 DEF JsonIgnore, EntryOf, Accepted
<1>4. CASE ~ (Known(store, c) # {} \/ KnownBatch(store, c)) /\ backend # "json"
  <2>1. \/ r = Same(store, "replay_ignored") /\ Overtaken(store, c)
        \/ r = Same(store, "active_instance_conflict")
        \/ r = Same(store, "watermark_conflict")
        \/ r = Same(store, "unique_violation")
        \/ /\ r = Same(Committed(store, c), "committed") /\ ~ Displaced(store, c)
           /\ ~ Overtaken(store, c) /\ ~ Disjoint(store, c)
    BY <1>4 DEF IngestUnit, PgIngest
  <2> QED
    BY <1>1, <1>4, <2>1 DEF Accepted, Settles
<1> QED
  BY <1>2, <1>3, <1>4

\* The agent takes the answer, if it still waits: only the acknowledgement of the
\* pending batch settles it, and then its sequence goes one further.
LEMMA AnswerTaken ==
  ASSUME TypeOK, AgentCounts, NEW c \in calls, c.load # None, NEW answer,
         IF c.waited THEN Acknowledge(c, answer) ELSE UNCHANGED <<agent, acked>>,
         UNCHANGED <<snaps, retired>>
  PROVE  /\ agent' \in Agent /\ agent'.inst = agent.inst /\ AgentCounts'
         /\ acked' \subseteq Snaps
         /\ \/ /\ agent'.pending = agent.pending /\ agent'.seq = agent.seq
               /\ acked' = acked
            \/ /\ agent'.pending = None /\ agent'.seq = agent.seq + 1
               /\ acked' = acked \cup {c.load.snap}
               /\ answer \in Accepted /\ c.load = agent.pending
<1>1. /\ agent \in Agent /\ agent.seq \in Nat /\ snaps \in Nat /\ snaps <= MaxSnaps
      /\ MaxSnaps \in Nat /\ agent.seq <= 2 * snaps + 1
      /\ c.load \in Payload /\ c.on \in BOOLEAN /\ acked \subseteq Snaps
  BY StateTyped DEF AgentCounts, TypeOK, Call
<1>2. CASE /\ agent' = [ agent EXCEPT !.busy = FALSE, !.on = c.on, !.seq = @ + 1,
                                      !.mark = c.load.to, !.pending = None ]
           /\ acked' = acked \cup {c.load.snap}
           /\ answer \in Accepted /\ c.load = agent.pending
  <2>1. agent.seq <= 2 * snaps
    BY <1>1, <1>2 DEF AgentCounts
  <2>2. agent.seq + 1 \in Sequences1 /\ agent.seq + 1 <= 2 * snaps + 1
    BY <1>1, <2>1 DEF Sequences1
  <2>3. c.load.to \in {0} \cup Snaps /\ c.load.snap \in Snaps
    BY <1>1 DEF Payload
  <2>4. /\ agent' \in Agent /\ agent'.inst = agent.inst /\ agent'.pending = None
        /\ agent'.seq = agent.seq + 1
    BY <1>1, <1>2, <2>2, <2>3 DEF Agent
  <2>5. AgentCounts'
    BY <2>2, <2>4 DEF AgentCounts
  <2> QED
    BY <1>1, <1>2, <2>3, <2>4, <2>5
<1>3. CASE /\ \/ agent' = agent \/ agent' = [agent EXCEPT !.busy = FALSE]
              \/ agent' = [agent EXCEPT !.busy = FALSE, !.on = c.on]
           /\ acked' = acked
  <2>1. /\ agent' \in Agent /\ agent'.inst = agent.inst /\ agent'.pending = agent.pending
        /\ agent'.seq = agent.seq
    BY <1>1, <1>3 DEF Agent
  <2> QED
    BY <1>1, <1>3, <2>1 DEF AgentCounts
<1>4. CASE answer \in Accepted
  BY <1>2, <1>3, <1>4 DEF Acknowledge
<1>5. CASE answer \notin Accepted
  <2>1. c.waited => agent' = [agent EXCEPT !.busy = FALSE, !.on = agent.on] /\ acked' = acked
    BY <1>5 DEF Acknowledge
  <2>2. agent.on \in BOOLEAN
    BY <1>1 DEF Agent
  <2>3. [agent EXCEPT !.busy = FALSE, !.on = agent.on] = [agent EXCEPT !.busy = FALSE]
    BY <1>1, <2>2 DEF Agent
  <2> QED
    BY <1>3, <2>1, <2>3
<1> QED
  BY <1>4, <1>5

\* A pending batch is not overtaken; if a ledger knows it, it was committed.
LEMMA PendingIsLast ==
  ASSUME DeliveryIsExact, NEW c \in calls, c.load # None, c.load = agent.pending
  PROVE  ~ Overtaken(store, c) /\ (Settles(c) => c.load.snap \in written)
<1>1. /\ TypeOK /\ AgentCounts /\ LoadsAreNumbered /\ LedgerIsKept
      /\ agent.seq \in Nat /\ agent.pending.inst = agent.inst
      /\ agent.pending.seq = agent.seq - 1
      /\ \A l \in store.ledger : l.seq \in Nat
  BY StateTyped DEF DeliveryIsExact, AgentCounts
<1>2. ~ Overtaken(store, c)
  <2> SUFFICES ASSUME store.latest # None, store.latest.inst = agent.inst,
                      c.load.seq < store.latest.seq
               PROVE  FALSE
    BY <1>1 DEF Overtaken
  <2>1. PICK l \in store.ledger : l.inst = store.latest.inst /\ l.seq = store.latest.seq
    BY <1>1 DEF LedgerIsKept
  <2>2. l.seq < agent.seq
    BY <1>1, <2>1 DEF LoadsAreNumbered, Counted
  <2> QED
    BY <1>1, <2>1, <2>2
<1> QED
  BY <1>1, <1>2 DEF Settles, LedgerIsKept

\* Of a payload under way, the ledgers gain at most its own entry.
LEMMA ServedNumbers ==
  ASSUME DeliveryIsExact, NEW c \in calls, c.load # None, NEW status,
         store'.ledger \subseteq store.ledger \cup {EntryOf(c, status)},
         InFlight' \subseteq InFlight, UNCHANGED <<snaps, retired>>,
         agent'.inst = agent.inst,
         agent'.seq = agent.seq \/ agent'.seq = agent.seq + 1
  PROVE  LoadsAreNumbered' /\ SequencesAreFresh'
<1>1. /\ TypeOK /\ LoadsAreNumbered /\ SequencesAreFresh /\ agent.seq \in Nat
      /\ \A a \in InFlight : a.seq \in Nat
      /\ \A l \in store.ledger : l.seq \in Nat
  BY StateTyped DEF DeliveryIsExact
<1>2. \A a \in InFlight \cup store.ledger : Counted(a)'
  BY <1>1 DEF LoadsAreNumbered, Counted
<1>3. c.load \in InFlight
  BY DEF InFlight
<1>4. \A l \in store'.ledger :
        \/ l \in store.ledger
        \/ \E a \in InFlight : l.snap = a.snap /\ l.inst = a.inst /\ l.seq = a.seq
  BY <1>3 DEF EntryOf
<1> QED
  BY <1>1, <1>2, <1>4, NumbersStay

\* An overtaken snapshot is put down as ignored: it is not the pending batch.
LEMMA IgnoreStep ==
  ASSUME DeliveryIsExact, NEW c \in calls, c.load # None, Overtaken(store, c),
         store' = [store EXCEPT !.ledger = @ \cup {EntryOf(c, "replay_ignored")}],
         UNCHANGED <<stored, written>>,
         agent'.pending \in {agent.pending, None}
  PROVE  /\ store' \in Store /\ LedgerIsKept' /\ MarksFollow'
         /\ CommittedOnce' /\ WindowsAreContiguous' /\ LatestIsNewest'
<1> DEFINE e == EntryOf(c, "replay_ignored")
<1>1. /\ TypeOK /\ LedgerIsKept /\ MarksFollow /\ CommittedOnce /\ WindowsAreContiguous
      /\ LatestIsNewest /\ LoadsAreNumbered /\ store \in Store /\ c.load \in Payload
      /\ c.load \in InFlight
  BY StateTyped DEF DeliveryIsExact, InFlight
<1>2. e \in Entry /\ e.status = "replay_ignored" /\ e.snap = c.load.snap
  BY <1>1 DEF EntryOf, Entry, Payload
<1>3. /\ store'.ledger = store.ledger \cup {e} /\ store'.batches = store.batches
      /\ store'.latest = store.latest /\ store'.marks = store.marks /\ store' \in Store
  BY <1>1, <1>2 DEF Store
<1> HIDE DEF e
<1>4. agent'.pending # None => e.snap # agent'.pending.snap
  <2> SUFFICES ASSUME agent.pending # None, c.load.snap = agent.pending.snap PROVE FALSE
    BY <1>2
  <2>1. agent.pending \in InFlight
    BY DEF InFlight
  <2>2. c.load = agent.pending
    BY <1>1, <2>1 DEF LoadsAreNumbered
  <2> QED
    BY <2>2, PendingIsLast
<1>5. LedgerIsKept'
  BY <1>1, <1>2, <1>3, <1>4 DEF LedgerIsKept
<1>6. MarksFollow' /\ CommittedOnce' /\ WindowsAreContiguous'
  BY <1>1, <1>3 DEF MarksFollow, LastBatch, CommittedOnce, WindowsAreContiguous, Successive
<1>7. LatestIsNewest'
  BY <1>1, <1>2, <1>3 DEF LatestIsNewest
<1> QED
  BY <1>3, <1>5, <1>6, <1>7

\* A payload of a new snapshot is committed: the windows go on where the
\* watermark is, and no sequence of the ledger is higher.
LEMMA CommitStep ==
  ASSUME DeliveryIsExact, NEW c \in calls, c.load # None,
         Known(store, c) = {}, ~ Displaced(store, c), ~ Overtaken(store, c),
         ~ Disjoint(store, c), store' = Committed(store, c),
         stored' = Append(stored, c.load), written' = written \cup {c.load.snap},
         agent'.pending \in {agent.pending, None}
  PROVE  /\ store' \in Store /\ stored' \in Seq(Payload) /\ written' \subseteq Snaps
         /\ LedgerIsKept' /\ MarksFollow'
         /\ CommittedOnce' /\ WindowsAreContiguous' /\ LatestIsNewest'
<1> DEFINE e == EntryOf(c, "committed")
           n == [inst |-> c.load.inst, seq |-> c.load.seq, snap |-> c.load.snap]
<1>1. /\ TypeOK /\ LedgerIsKept /\ MarksFollow /\ CommittedOnce /\ WindowsAreContiguous
      /\ LatestIsNewest /\ store \in Store /\ c.load \in Payload /\ written \subseteq Snaps
      /\ c.load.snap \in Snaps /\ c.load.inst \in Instances /\ c.load.seq \in Nat
      /\ c.load.to \in Snaps /\ c.load.batch \in BOOLEAN
      /\ \A l \in store.ledger : l.seq \in Nat
      /\ store.latest # None => store.latest.seq \in Nat
      /\ None \notin Snaps /\ None \notin Latest
      /\ store.marks \in [Instances -> {0} \cup Snaps \cup {None}]
  <2>1. c.load \in InFlight
    BY DEF InFlight
  <2> QED
    BY <2>1, StateTyped, NoneAssumption DEF DeliveryIsExact, TypeOK, Payload, Store
<1>2. /\ e \in Entry /\ e.status = "committed" /\ e.snap = c.load.snap
      /\ e.inst = c.load.inst /\ e.seq = c.load.seq
      /\ n \in Latest /\ n.inst = c.load.inst /\ n.seq = c.load.seq
  BY <1>1 DEF EntryOf, Entry, Latest, Payload
<1>3. /\ store'.ledger = store.ledger \cup {e} /\ store'.latest = n
      /\ store'.batches = IF c.load.batch THEN store.batches \cup {c.load.snap}
                          ELSE store.batches
      /\ store'.marks = IF c.load.batch THEN [store.marks EXCEPT ![c.load.inst] = c.load.to]
                        ELSE store.marks
      /\ store'.rows = store.rows \cup {c.load.snap}
  BY DEF Committed, EntryOf
<1>4. store' \in Store
  <2>1. store' = [ ledger |-> store'.ledger, batches |-> store'.batches,
                   latest |-> store'.latest, marks |-> store'.marks, rows |-> store'.rows ]
    BY DEF Committed
  <2>2. /\ store'.ledger \subseteq Entry /\ store'.batches \subseteq Snaps
        /\ store'.latest \in Latest /\ store'.rows \subseteq Snaps
        /\ store'.marks \in [Instances -> {0} \cup Snaps \cup {None}]
    BY <1>1, <1>2, <1>3 DEF Store
  <2> HIDE DEF n, e
  <2> QED
    BY <2>1, <2>2 DEF Store
<1> HIDE DEF e, n
<1>5. /\ stored \in Seq(Payload) /\ Len(stored) \in Nat
      /\ DOMAIN stored = 1 .. Len(stored)
      /\ stored' \in Seq(Payload) /\ DOMAIN stored' = 1 .. Len(stored) + 1
      /\ Len(stored') = Len(stored) + 1
      /\ \A k \in 1 .. Len(stored) : stored'[k] = stored[k] /\ stored[k] \in Payload
      /\ stored'[Len(stored) + 1] = c.load
  <2>1. stored \in Seq(Payload) /\ Len(stored) \in Nat /\ DOMAIN stored = 1 .. Len(stored)
        /\ stored \in [1 .. Len(stored) -> Payload]
    BY <1>1, LenProperties DEF TypeOK
  <2>2. /\ stored' \in Seq(Payload) /\ Len(stored') = Len(stored) + 1
        /\ \A k \in 1 .. Len(stored) : stored'[k] = stored[k]
        /\ stored'[Len(stored) + 1] = c.load
    BY <1>1, <2>1, AppendProperties
  <2>3. DOMAIN stored' = 1 .. Len(stored')
    BY <2>2, LenProperties
  <2> QED
    BY <2>1, <2>2, <2>3
<1>6. \A l \in store.ledger : l.snap # c.load.snap
  BY DEF Known
<1>7. \A l \in store.ledger : l.status = "committed" => l.seq <= c.load.seq
  <2> SUFFICES ASSUME NEW l \in store.ledger, l.status = "committed"
               PROVE  l.seq <= c.load.seq
    OBVIOUS
  <2>1. store.latest # None /\ l.seq <= store.latest.seq
    BY <1>1 DEF LedgerIsKept
  <2>2. store.latest.seq <= c.load.seq
    BY <1>1, <2>1 DEF Displaced, Overtaken
  <2> QED
    BY <1>1, <2>1, <2>2
<1>8. LedgerIsKept'
  <2>1. \A l \in store'.ledger :
          IF l.status = "committed"
          THEN /\ l.snap \in written' /\ store'.latest # None
               /\ l.seq <= store'.latest.seq
          ELSE agent'.pending # None => l.snap # agent'.pending.snap
    BY <1>1, <1>2, <1>3, <1>7 DEF LedgerIsKept
  <2>2. store'.batches \subseteq written'
    BY <1>1, <1>3 DEF LedgerIsKept
  <2>3. \E l \in store'.ledger : l.inst = store'.latest.inst /\ l.seq = store'.latest.seq
    BY <1>2, <1>3
  <2>4. \A k \in DOMAIN stored' : \E l \in store'.ledger : l.snap = stored'[k].snap
    <3> SUFFICES ASSUME NEW k \in DOMAIN stored'
                 PROVE  \E l \in store'.ledger : l.snap = stored'[k].snap
      OBVIOUS
    <3>1. CASE k \in 1 .. Len(stored)
      BY <1>1, <1>3, <1>5, <3>1 DEF LedgerIsKept
    <3>2. CASE k = Len(stored) + 1
      BY <1>2, <1>3, <1>5, <3>2
    <3> QED
      BY <1>5, <3>1, <3>2
  <2> QED
    BY <2>1, <2>2, <2>3, <2>4 DEF LedgerIsKept
<1>9. LatestIsNewest'
  BY <1>8 DEF LedgerIsKept, LatestIsNewest
<1>10. CommittedOnce'
  <2>1. \A k \in 1 .. Len(stored) : stored[k].snap # c.load.snap
    BY <1>1, <1>5, <1>6 DEF LedgerIsKept
  <2>2. ASSUME NEW i \in DOMAIN stored', NEW j \in DOMAIN stored',
               stored'[i].snap = stored'[j].snap
        PROVE  i = j
    <3>1. CASE i \in 1 .. Len(stored) /\ j \in 1 .. Len(stored)
      BY <1>1, <1>5, <2>2, <3>1 DEF CommittedOnce
    <3> QED
      BY <1>5, <2>1, <2>2, <3>1
  <2> QED
    BY <2>2 DEF CommittedOnce
<1>11. ASSUME NEW k \in 1 .. Len(stored),
              stored[k].batch, c.load.batch => stored[k].inst # c.load.inst,
              \A j \in k + 1 .. Len(stored) :
                ~ (stored[j].batch /\ stored[j].inst = stored[k].inst)
       PROVE  store'.marks[stored[k].inst] = stored[k].to
  <2>1. store.marks[stored[k].inst] = stored[k].to
    BY <1>1, <1>5, <1>11 DEF MarksFollow, LastBatch
  <2> QED
    BY <1>1, <1>3, <1>11, <2>1
<1>12. MarksFollow'
  <2> SUFFICES ASSUME NEW k \in 1 .. Len(stored) + 1, LastBatch(k)'
               PROVE  store'.marks[stored'[k].inst] = stored'[k].to
    BY <1>5 DEF MarksFollow
  <2>1. CASE k = Len(stored) + 1
    BY <1>1, <1>3, <1>5, <2>1 DEF LastBatch
  <2>2. CASE k \in 1 .. Len(stored)
    <3>1. stored[k].batch /\ stored'[k] = stored[k]
      BY <1>5, <2>2 DEF LastBatch
    <3>2. \A j \in k + 1 .. Len(stored) :
            ~ (stored[j].batch /\ stored[j].inst = stored[k].inst)
      BY <1>5, <2>2, <3>1 DEF LastBatch
    <3>3. Len(stored) + 1 \in k + 1 .. Len(stored')
      BY <1>5, <2>2
    <3>4. ~ (c.load.batch /\ c.load.inst = stored[k].inst)
      BY <1>5, <3>1, <3>3 DEF LastBatch
    <3> QED
      BY <1>11, <2>2, <3>1, <3>2, <3>4
  <2> QED
    BY <1>5, <2>1, <2>2
<1>13. WindowsAreContiguous'
  <2> SUFFICES ASSUME NEW i \in 1 .. Len(stored) + 1, NEW j \in 1 .. Len(stored) + 1,
                      Successive(i, j)'
               PROVE  stored'[j].from = stored'[i].to
    BY <1>5 DEF WindowsAreContiguous
  <2>1. /\ i < j /\ stored'[i].batch /\ stored'[j].batch /\ stored'[i].inst = stored'[j].inst
        /\ \A k \in i + 1 .. j - 1 : ~ (stored'[k].batch /\ stored'[k].inst = stored'[i].inst)
    BY DEF Successive
  <2>2. i \in 1 .. Len(stored) /\ stored'[i] = stored[i] /\ stored[i] \in Payload
    BY <1>5, <2>1
  <2>3. \A k \in i + 1 .. j - 1 : ~ (stored[k].batch /\ stored[k].inst = stored[i].inst)
    <3> SUFFICES ASSUME NEW k \in i + 1 .. j - 1
                 PROVE  ~ (stored[k].batch /\ stored[k].inst = stored[i].inst)
      OBVIOUS
    <3>1. k \in 1 .. Len(stored)
      BY <1>5, <2>2
    <3> QED
      BY <1>5, <2>1, <2>2, <3>1
  <2>4. CASE j \in 1 .. Len(stored)
    <3>1. stored'[j] = stored[j]
      BY <1>5, <2>4
    <3>2. Successive(i, j)
      BY <2>1, <2>2, <2>3, <3>1 DEF Successive
    <3> QED
      BY <1>1, <1>5, <2>2, <2>4, <3>1, <3>2 DEF WindowsAreContiguous
  <2>5. CASE j = Len(stored) + 1
    <3>1. LastBatch(i)
      BY <1>5, <2>1, <2>2, <2>3, <2>5 DEF LastBatch
    <3>2. store.marks[stored[i].inst] = stored[i].to
      BY <1>1, <1>5, <2>2, <3>1 DEF MarksFollow
    <3>3. stored[i].to \in Snaps /\ stored[i].inst = c.load.inst /\ c.load.batch
      BY <1>5, <2>1, <2>2, <2>5 DEF Payload
    <3>4. stored[i].to = c.load.from
      BY <1>1, <3>2, <3>3 DEF Disjoint
    <3> QED
      BY <1>5, <2>2, <2>5, <3>4
  <2> QED
    BY <1>5, <2>4, <2>5
<1>14. written' \subseteq Snaps
  BY <1>1
<1> QED
  BY <1>4, <1>5, <1>8, <1>9, <1>10, <1>12, <1>13, <1>14

\* A push with Docker is served.
LEMMA ServeDockerStep ==
  ASSUME DeliveryIsExact, ServeDocker
  PROVE  DeliveryIsExact'
<1>1. PICK c \in calls :
        /\ c.load # None /\ calls' = calls \ {c}
        /\ LET r == IngestUnit(store, c)
           IN /\ store' = r.store
              /\ IF r.answer = "committed" /\ r.store # store
                 THEN stored' = Append(stored, c.load) /\ written' = written \cup {c.load.snap}
                 ELSE UNCHANGED <<stored, written>>
              /\ IF c.waited THEN Acknowledge(c, r.answer) ELSE UNCHANGED <<agent, acked>>
        /\ UNCHANGED <<backend, enabled, clearing, snaps, retired, trouble>>
  BY DEF ServeDocker
<1>2. PICK answer : answer = IngestUnit(store, c).answer
  OBVIOUS
<1>3. TypeOK /\ AgentCounts /\ AckedWindowsWereStored
  BY DEF DeliveryIsExact
<1>4. /\ agent' \in Agent /\ agent'.inst = agent.inst /\ AgentCounts'
      /\ acked' \subseteq Snaps
      /\ \/ /\ agent'.pending = agent.pending /\ agent'.seq = agent.seq
            /\ acked' = acked
         \/ /\ agent'.pending = None /\ agent'.seq = agent.seq + 1
            /\ acked' = acked \cup {c.load.snap}
            /\ answer \in Accepted /\ c.load = agent.pending
  BY <1>1, <1>2, <1>3, AnswerTaken
<1>5. calls' \subseteq Call /\ InFlight' \subseteq InFlight
  BY <1>1, <1>3, <1>4 DEF TypeOK, InFlight
<1>6. ASSUME store' \in Store, stored' \in Seq(Payload), written' \subseteq Snaps
      PROVE  TypeOK'
  BY <1>1, <1>3, <1>4, <1>5, <1>6 DEF TypeOK
<1>7. CASE store' = store /\ (answer \in Accepted => Settles(c))
  <2>1. UNCHANGED <<stored, written>>
    BY <1>1, <1>7
  <2>2. TypeOK'
    BY <1>3, <1>6, <1>7, <2>1 DEF TypeOK
  <2>3. AckedWindowsWereStored'
    BY <1>1, <1>3, <1>4, <1>7, <2>1, PendingIsLast DEF AckedWindowsWereStored
  <2>4. LoadsAreNumbered' /\ SequencesAreFresh'
    BY <1>1, <1>4, <1>5, <1>7, ServedNumbers
  <2>5. /\ LedgerIsKept' /\ MarksFollow'
        /\ CommittedOnce' /\ WindowsAreContiguous' /\ LatestIsNewest'
    BY <1>4, <1>7, <2>1 DEF DeliveryIsExact, LedgerIsKept, MarksFollow, LastBatch, CommittedOnce,
                       WindowsAreContiguous, Successive, LatestIsNewest
  <2> QED
    BY <1>4, <2>2, <2>3, <2>4, <2>5 DEF DeliveryIsExact
<1>8. CASE /\ store' = [store EXCEPT !.ledger = @ \cup {EntryOf(c, "replay_ignored")}]
           /\ answer = "replay_ignored" /\ Overtaken(store, c)
  <2>1. UNCHANGED <<stored, written>>
    BY <1>1, <1>2, <1>8
  <2>2. /\ store' \in Store /\ LedgerIsKept' /\ MarksFollow'
        /\ CommittedOnce' /\ WindowsAreContiguous' /\ LatestIsNewest'
    BY <1>1, <1>4, <1>8, <2>1, IgnoreStep
  <2>3. TypeOK'
    BY <1>3, <1>6, <2>1, <2>2 DEF TypeOK
  <2>4. AckedWindowsWereStored'
    BY <1>1, <1>3, <1>4, <1>8, <2>1, PendingIsLast DEF AckedWindowsWereStored
  <2>5. store'.ledger \subseteq store.ledger \cup {EntryOf(c, "replay_ignored")}
    BY <1>3, <1>8 DEF TypeOK, Store
  <2>6. LoadsAreNumbered' /\ SequencesAreFresh'
    BY <1>1, <1>4, <1>5, <2>5, ServedNumbers
  <2> QED
    BY <1>4, <2>2, <2>3, <2>4, <2>6 DEF DeliveryIsExact
<1>9. CASE /\ store' = Committed(store, c) /\ answer = "committed"
           /\ Known(store, c) = {} /\ ~ Displaced(store, c) /\ ~ Overtaken(store, c)
           /\ ~ Disjoint(store, c)
  <2>1. store'.ledger = store.ledger \cup {EntryOf(c, "committed")}
    BY <1>9 DEF Committed, EntryOf
  <2>2. store' # store
    <3>1. EntryOf(c, "committed") \in store'.ledger
      BY <2>1
    <3>2. EntryOf(c, "committed") \notin store.ledger
      BY <1>9 DEF Known, EntryOf
    <3> QED
      BY <3>1, <3>2
  <2>3. stored' = Append(stored, c.load) /\ written' = written \cup {c.load.snap}
    BY <1>1, <1>2, <1>9, <2>2
  <2>4. /\ store' \in Store /\ stored' \in Seq(Payload) /\ written' \subseteq Snaps
        /\ LedgerIsKept' /\ MarksFollow'
        /\ CommittedOnce' /\ WindowsAreContiguous' /\ LatestIsNewest'
    BY <1>1, <1>4, <1>9, <2>3, CommitStep
  <2>5. TypeOK'
    BY <1>6, <2>4
  <2>6. AckedWindowsWereStored'
    BY <1>3, <1>4, <2>3 DEF AckedWindowsWereStored
  <2>7. LoadsAreNumbered' /\ SequencesAreFresh'
    BY <1>1, <1>4, <1>5, <2>1, ServedNumbers
  <2> QED
    BY <1>4, <2>4, <2>5, <2>6, <2>7 DEF DeliveryIsExact
<1> QED
  BY <1>1, <1>2, <1>7, <1>8, <1>9, IngestOutcomes

-----------------------------------------------------------------------------
(* Theorems *)

\* Nothing is numbered, known or stored in the beginning.
LEMMA InitIsExact == Init => DeliveryIsExact
<1> SUFFICES ASSUME Init PROVE DeliveryIsExact
  OBVIOUS
<1>1. PICK i \in Instances : agent = NewAgent(i)
  BY DEF Init
<1>2. /\ agent \in Agent /\ agent.pending = None /\ agent.seq = 1
  BY <1>1, IngestAssumption DEF NewAgent, Agent, Sequences1
<1>3. /\ store \in Store /\ store.ledger = {} /\ store.batches = {} /\ store.latest = None
  BY DEF Init, EmptyStore, Store
<1>4. /\ stored \in Seq(Payload) /\ DOMAIN stored = {}
  BY EmptySeq DEF Init
<1>5. TypeOK
  <2>1. trouble \in 0 .. MaxTrouble /\ snaps \in {0} \cup Snaps
    BY IngestAssumption DEF Init
  <2> QED
    BY <1>2, <1>3, <1>4, <2>1 DEF Init, TypeOK
<1>6. InFlight = {}
  BY <1>2 DEF InFlight, Init
<1>7. AgentCounts /\ LoadsAreNumbered
  BY <1>2, <1>3, <1>6 DEF AgentCounts, LoadsAreNumbered, Init
<1>8. LedgerIsKept /\ MarksFollow
  BY <1>2, <1>3, <1>4 DEF LedgerIsKept, MarksFollow
<1>9. AckedWindowsWereStored /\ CommittedOnce /\ WindowsAreContiguous
      /\ LatestIsNewest /\ SequencesAreFresh
  BY <1>3, <1>4 DEF Init, AckedWindowsWereStored, CommittedOnce, WindowsAreContiguous,
                    LatestIsNewest, SequencesAreFresh
<1> QED
  BY <1>5, <1>7, <1>8, <1>9 DEF DeliveryIsExact

\* Every step keeps it.
LEMMA NextIsExact == DeliveryIsExact /\ [Next]_vars => DeliveryIsExact'
<1> SUFFICES ASSUME DeliveryIsExact, [Next]_vars PROVE DeliveryIsExact'
  OBVIOUS
<1>1. CASE UNCHANGED vars
  <2>1. /\ UNCHANGED <<backend, store, enabled, clearing, agent, calls, snaps, retired,
                       trouble, stored, written, acked>>
    BY <1>1 DEF vars
  <2>2. TypeOK' /\ InFlight' \subseteq InFlight /\ HistoryStays
    BY <2>1 DEF DeliveryIsExact, TypeOK, InFlight, HistoryStays
  <2> QED
    BY <2>1, <2>2, QuietStep
<1> QED
  BY <1>1, CollectBatchStep, CollectMinimalStep, ResendStep, GiveUpStep, HandleStep,
     ReinstallStep, UpkeepStep, ClearHistoryStep, ServeDockerStep DEF Next

\* However often snapshots are sent, lost, delayed or overtaken, over crashes and
\* new installations of the agent: what it forgets was stored, once, in
\* contiguous windows, and the present shown is the newest of it.
THEOREM DeliveryStaysExact == Spec => []DeliveryIsExact
<1> QED
  BY InitIsExact, NextIsExact, PTL DEF Spec

-----------------------------------------------------------------------------
(* Alerts: windows and counts *)

\* The last k of x were all against the condition.
Trails(x, k) == k <= Len(x) /\ \A i \in Len(x) - k + 1 .. Len(x) : x[i] = "negative"

\* The last q of x were against the condition, or quiet.
EndsAgainst(x, q) == q <= Len(x) /\ \A i \in Len(x) - q + 1 .. Len(x) : x[i] \in Against

\* The last n of x, or all of it.
Recent(w, x, n) ==
  /\ Len(w) = IF Len(x) < n THEN Len(x) ELSE n
  /\ \A i \in 1 .. Len(w) : w[i] = x[Len(x) - Len(w) + i]

\* The window is the end of what was seen.
WindowIsRecent == Recent(rule.window, seen, Limits.window)

QuietKinds == {"docker_event_gap", "container_restart_loop"}

\* The quiet run is of observations against the condition, and is kept by two rules.
QuietIsRecent == EndsAgainst(seen, rule.quiet) /\ (kind \notin QuietKinds => rule.quiet = 0)

\* An alert that evidence can clear has not had all it takes.  The quiet run of a
\* restart loop may be one short: it starts again when the container is removed,
\* and the alert may open again on the next observation.
Lingering(x, r) ==
  Clearable /\ r.alert # "none" =>
    /\ kind # "docker_event_gap"
    /\ kind = "container_restart_loop" =>
         ~ Trails(x, 4) /\ \A k \in 1 .. 3 : Trails(x, k) => k <= r.quiet + 1
    /\ kind # "container_restart_loop" => ~ Trails(x, Limits.clear)

Lingers == Lingering(seen, rule)

AlertInv ==
  /\ AlertTypeOK /\ RowsFollowTheRule /\ OpensOnEvidence /\ ClearsOnEvidence
  /\ WindowIsRecent /\ QuietIsRecent /\ Lingers

\* A bounded sequence is a sequence of no more than so many elements.
LEMMA BoundedSequence ==
  ASSUME NEW S, NEW n \in Nat, NEW x
  PROVE  x \in SeqOf(S, n) <=> x \in Seq(S) /\ Len(x) <= n
<1>1. SeqOf(S, n) = UNION { [1 .. m -> S] : m \in 0 .. n }
  BY Zenon DEF SeqOf
<1>2. ASSUME x \in SeqOf(S, n) PROVE x \in Seq(S) /\ Len(x) <= n
  <2>1. PICK m \in 0 .. n : x \in [1 .. m -> S]
    BY <1>1, <1>2
  <2>2. m \in Nat /\ m <= n
    BY <2>1
  <2>3. x \in Seq(S) /\ DOMAIN x = 1 .. m
    BY <2>1, <2>2
  <2>4. Len(x) = m
    BY <2>2, <2>3, LenProperties
  <2> QED
    BY <2>2, <2>3, <2>4
<1>3. ASSUME x \in Seq(S), Len(x) <= n PROVE x \in SeqOf(S, n)
  <2>1. Len(x) \in 0 .. n /\ x \in [1 .. Len(x) -> S]
    BY <1>3, LenProperties
  <2>2. \E k \in 0 .. n : x \in [1 .. k -> S]
    BY <2>1, Zenon
  <2> QED
    BY <1>1, <2>2
<1> QED
  BY <1>2, <1>3

\* What the rules ask for.
LEMMA LimitsAre ==
  ASSUME kind \in AllKinds
  PROVE  /\ Limits.window \in 1 .. 5 /\ Limits.open \in 1 .. 3 /\ Limits.clear \in 2 .. 3
         /\ Limits.cooldown \in 0 .. 2
         /\ kind \in QuietKinds => Limits.clear = 3
         /\ kind = "docker_event_gap" => Limits.open = 1 /\ Limits.window = 1
         /\ kind = "container_restart_loop" => Limits.open = 3 /\ Limits.window = 5
         /\ Clearable /\ kind \notin QuietKinds =>
              Limits.clear <= Limits.window /\ Limits.open > Limits.window - Limits.clear
<1>1. CASE kind = "docker_unavailable"
  BY <1>1 DEF Limits, Thresholds, QuietKinds
<1>2. CASE kind = "container_unhealthy"
  BY <1>2 DEF Limits, Thresholds, QuietKinds, Clearable
<1>3. CASE kind = "container_restart_loop"
  BY <1>3 DEF Limits, Thresholds, QuietKinds
<1>4. CASE kind = "container_cpu_high"
  BY <1>4 DEF Limits, Thresholds, QuietKinds
<1>5. CASE kind = "container_memory_high"
  BY <1>5 DEF Limits, Thresholds, QuietKinds
<1>6. CASE kind = "docker_storage_pressure"
  BY <1>6 DEF Limits, Thresholds, QuietKinds
<1>7. CASE kind = "docker_event_gap"
  BY <1>7 DEF Limits, Thresholds, QuietKinds
<1> QED
  BY <1>1, <1>2, <1>3, <1>4, <1>5, <1>6, <1>7 DEF AllKinds

\* What the repositories feed the rules.
LEMMA FeedsAre ==
  ASSUME kind \in AllKinds, NEW o \in Feeds
  PROVE  /\ o \in Observations
         /\ kind \in QuietKinds => o # "neutral"
         /\ kind = "docker_event_gap" /\ "negative" \in Feeds => o # "positive"
<1>1. CASE kind = "docker_unavailable"
  BY <1>1 DEF Feeds, JsonFeeds, PgFeeds, Observations, Admissible, QuietKinds
<1>2. CASE kind = "container_unhealthy"
  BY <1>2 DEF Feeds, JsonFeeds, PgFeeds, Observations, Admissible, QuietKinds
<1>3. CASE kind = "container_restart_loop"
  BY <1>3 DEF Feeds, JsonFeeds, PgFeeds, Observations, Admissible, QuietKinds
<1>4. CASE kind = "container_cpu_high"
  BY <1>4 DEF Feeds, JsonFeeds, PgFeeds, Observations, Admissible, QuietKinds
<1>5. CASE kind = "container_memory_high"
  BY <1>5 DEF Feeds, JsonFeeds, PgFeeds, Observations, Admissible, QuietKinds
<1>6. CASE kind = "docker_storage_pressure"
  BY <1>6 DEF Feeds, JsonFeeds, PgFeeds, Observations, Admissible, QuietKinds
<1>7. CASE kind = "docker_event_gap"
  BY <1>7 DEF Feeds, JsonFeeds, PgFeeds, Observations, Admissible, QuietKinds
<1> QED
  BY <1>1, <1>2, <1>3, <1>4, <1>5, <1>6, <1>7 DEF AllKinds

\* A sequence y is x with s at its end and no more than its last n elements.
Pushed(x, s, n, y) ==
  /\ y \in Seq(Admissible) /\ Len(y) = IF Len(x) < n THEN Len(x) + 1 ELSE n
  /\ y[Len(y)] = s
  /\ \A i \in 1 .. Len(y) - 1 : y[i] = x[i + Len(x) + 1 - Len(y)]

\* The end of a sequence that has become one too long.
LEMMA EndOfLonger ==
  ASSUME NEW x \in Seq(Admissible), NEW s \in Admissible, NEW n \in Nat \ {0}, Len(x) = n
  PROVE  Pushed(x, s, n, SubSeq(Append(x, s), 2, n + 1))
<1> DEFINE z == Append(x, s)  y == SubSeq(z, 2, n + 1)
<1>1. /\ z \in Seq(Admissible) /\ Len(z) = n + 1 /\ z[n + 1] = s
      /\ \A i \in 1 .. n : z[i] = x[i]
  BY AppendProperties
<1>2. \A i \in 2 .. n + 1 : z[i] \in Admissible
  <2> HIDE DEF z
  <2>1. \A i \in 2 .. n + 1 : i \in 1 .. Len(z)
    BY <1>1
  <2> QED
    BY <1>1, <2>1, ElementOfSeq
<1> HIDE DEF z
<1>3. /\ y \in Seq(Admissible) /\ Len(y) = n /\ \A i \in 1 .. n : y[i] = z[2 + i - 1]
  <2>1. 2 \in Int /\ n + 1 \in Int
    OBVIOUS
  <2>2. /\ SubSeq(z, 2, n + 1) \in Seq(Admissible)
        /\ Len(SubSeq(z, 2, n + 1)) = IF 2 <= n + 1 THEN n + 1 - 2 + 1 ELSE 0
        /\ \A i \in 1 .. n + 1 - 2 + 1 : SubSeq(z, 2, n + 1)[i] = z[2 + i - 1]
    BY <1>2, <2>1, SubSeqProperties
  <2>3. (IF 2 <= n + 1 THEN n + 1 - 2 + 1 ELSE 0) = n /\ n + 1 - 2 + 1 = n
    OBVIOUS
  <2> QED
    BY <2>2, <2>3
<1> HIDE DEF y
<1>4. y[n] = s
  <2>1. n \in 1 .. n /\ 2 + n - 1 = n + 1
    OBVIOUS
  <2> QED
    BY <1>1, <1>3, <2>1
<1>5. \A i \in 1 .. n - 1 : y[i] = x[i + Len(x) + 1 - n]
  <2> SUFFICES ASSUME NEW i \in 1 .. n - 1 PROVE y[i] = x[i + Len(x) + 1 - n]
    OBVIOUS
  <2>1. i \in 1 .. n /\ 2 + i - 1 = i + 1 /\ i + 1 \in 1 .. n /\ i + Len(x) + 1 - n = i + 1
    OBVIOUS
  <2> QED
    BY <1>1, <1>3, <2>1
<1>6. Len(y) = n /\ ~ (Len(x) < n)
  BY <1>3
<1> QED
  BY <1>3, <1>4, <1>5, <1>6 DEF Pushed, y, z

\* A sequence with room gets one longer.
LEMMA LongerByOne ==
  ASSUME NEW x \in Seq(Admissible), NEW s \in Admissible, NEW n \in Nat, Len(x) < n
  PROVE  Pushed(x, s, n, Append(x, s))
<1> DEFINE z == Append(x, s)
<1>1. /\ z \in Seq(Admissible) /\ Len(z) = Len(x) + 1 /\ z[Len(x) + 1] = s
      /\ \A i \in 1 .. Len(x) : z[i] = x[i]
  BY AppendProperties
<1>2. Len(x) \in Nat
  BY LenProperties
<1> HIDE DEF z
<1>3. \A i \in 1 .. Len(z) - 1 : z[i] = x[i + Len(x) + 1 - Len(z)]
  <2> SUFFICES ASSUME NEW i \in 1 .. Len(z) - 1 PROVE z[i] = x[i + Len(x) + 1 - Len(z)]
    OBVIOUS
  <2>1. i \in 1 .. Len(x) /\ i + Len(x) + 1 - Len(z) = i
    BY <1>1, <1>2
  <2> QED
    BY <1>1, <2>1
<1> QED
  BY <1>1, <1>3 DEF Pushed, z

\* The window slides.
LEMMA WindowSlides ==
  ASSUME kind \in AllKinds, NEW w \in Seq(Admissible), Len(w) <= Limits.window,
         NEW s \in Admissible
  PROVE  Pushed(w, s, Limits.window, Slide(w, s))
<1> DEFINE n == Limits.window
<1>1. n \in Nat \ {0}
  BY LimitsAre
<1>2. Len(w) \in Nat /\ Len(Append(w, s)) = Len(w) + 1
  BY LenProperties, AppendProperties
<1>3. Slide(w, s) = IF Len(Append(w, s)) <= n THEN Append(w, s)
                    ELSE SubSeq(Append(w, s), Len(Append(w, s)) - n + 1, Len(Append(w, s)))
  BY DEF Slide
<1> HIDE DEF n
<1>4. CASE Len(w) < n
  <2>1. Len(Append(w, s)) <= n
    BY <1>1, <1>2, <1>4
  <2>2. Slide(w, s) = Append(w, s)
    BY <1>3, <2>1, Zenon
  <2>3. Pushed(w, s, n, Append(w, s))
    BY <1>1, <1>4, LongerByOne
  <2> QED
    BY <2>2, <2>3 DEF n
<1>5. CASE Len(w) = n
  <2>1. Len(Append(w, s)) = n + 1 /\ ~ (n + 1 <= n) /\ (n + 1) - n + 1 = 2
    BY <1>1, <1>2, <1>5
  <2>2. Slide(w, s) = SubSeq(Append(w, s), (n + 1) - n + 1, n + 1)
    BY <1>3, <2>1, Zenon
  <2>3. Pushed(w, s, n, SubSeq(Append(w, s), 2, n + 1))
    BY <1>1, <1>5, EndOfLonger
  <2>4. Slide(w, s) = SubSeq(Append(w, s), 2, n + 1)
    BY <2>1, <2>2, Zenon
  <2> QED
    BY <2>3, <2>4 DEF n
<1>6. Len(w) < n \/ Len(w) = n
  BY <1>1, <1>2 DEF n
<1> QED
  BY <1>4, <1>5, <1>6 DEF n

\* What was seen slides as a window of five.
LEMMA SeenSlides ==
  ASSUME NEW x \in Seq(Admissible), Len(x) <= 5, NEW s \in Admissible
  PROVE  Pushed(x, s, 5, Remember(x, s))
<1>1. Len(x) \in Nat /\ Append(x, s) \in Seq(Admissible) /\ Len(Append(x, s)) = Len(x) + 1
  BY LenProperties, AppendProperties
<1>2. Remember(x, s) = IF Len(x) + 1 <= 5 THEN Append(x, s) ELSE Tail(Append(x, s))
  BY <1>1 DEF Remember
<1>3. CASE Len(x) < 5
  <2>1. Len(x) + 1 <= 5 /\ 5 \in Nat
    BY <1>1, <1>3
  <2> QED
    BY <1>2, <1>3, <2>1, LongerByOne
<1>4. CASE Len(x) = 5
  <2>1. ~ (Len(x) + 1 <= 5) /\ 5 \in Nat \ {0} /\ 5 + 1 = 6
    BY <1>4
  <2>2. Pushed(x, s, 5, SubSeq(Append(x, s), 2, 6))
    <3>1. Pushed(x, s, 5, SubSeq(Append(x, s), 2, 5 + 1))
      BY <1>4, <2>1, EndOfLonger
    <3> QED
      BY <2>1, <3>1
  <2>3. Tail(Append(x, s)) = SubSeq(Append(x, s), 2, 6)
    <3> DEFINE z == Append(x, s)
    <3>1. Len(z) = 6 /\ z \in Seq(Admissible)
      BY <1>1, <1>4
    <3> HIDE DEF z
    <3>2. Tail(z) = SubSeq(z, 2, Len(z))
      <4>1. Len(<< >>) = 0 /\ 0 # 6
        OBVIOUS
      <4>2. z # << >>
        BY <3>1, <4>1, Zenon
      <4> QED
        BY <3>1, <4>2, TailIsSubSeq
    <3> QED
      BY <3>1, <3>2 DEF z
  <2> QED
    BY <1>2, <2>1, <2>2, <2>3
<1>5. \A k \in Nat : k <= 5 => k < 5 \/ k = 5
  OBVIOUS
<1> QED
  BY <1>1, <1>3, <1>4, <1>5

\* A count is at most what may be counted.
LEMMA CountAtMost ==
  ASSUME NEW w \in Seq(Admissible), NEW S, NEW m \in Nat,
         \A i \in 1 .. Len(w) : w[i] \in S => i <= m
  PROVE  Count(w, S) \in Nat /\ Count(w, S) <= m
<1> DEFINE A == { i \in DOMAIN w : w[i] \in S }
<1>1. DOMAIN w = 1 .. Len(w)
  BY LenProperties
<1>2. A \in SUBSET (1 .. m)
  BY <1>1
<1>3. IsFiniteSet(1 .. m) /\ Cardinality(1 .. m) = m
  <2>1. 1 \in Int /\ m \in Int /\ (IF 1 > m THEN 0 ELSE m - 1 + 1) = m
    OBVIOUS
  <2> QED
    BY <2>1, FS_Interval
<1> HIDE DEF A
<1>4. IsFiniteSet(A) /\ Cardinality(A) <= Cardinality(1 .. m)
  BY <1>2, <1>3, FS_Subset
<1>5. Cardinality(A) \in Nat
  BY <1>4, FS_CardinalityType
<1>6. Count(w, S) = Cardinality(A)
  BY DEF Count, A
<1> QED
  BY <1>3, <1>4, <1>5, <1>6

\* A count is at least the length of an end that is counted.
LEMMA CountAtLeast ==
  ASSUME NEW w \in Seq(Admissible), NEW S, NEW m \in 0 .. Len(w),
         \A i \in Len(w) - m + 1 .. Len(w) : w[i] \in S
  PROVE  Count(w, S) \in Nat /\ m <= Count(w, S)
<1> DEFINE A == { i \in DOMAIN w : w[i] \in S }  n == Len(w)  B == n - m + 1 .. n
<1>1. DOMAIN w = 1 .. n /\ n \in Nat
  BY LenProperties
<1>2. A \in SUBSET (1 .. n)
  BY <1>1
<1>3. m \in Nat /\ m <= n
  <2> HIDE DEF n
  <2>1. m \in 0 .. n
    BY DEF n
  <2> QED
    BY <1>1, <2>1
<1>4. B \in SUBSET A
  <2>1. \A i \in B : w[i] \in S
    OBVIOUS
  <2>2. \A i \in B : i \in 1 .. n
    <3> HIDE DEF n
    <3> QED
      BY <1>1, <1>3
  <2> HIDE DEF B, n
  <2> QED
    BY <1>1, <2>1, <2>2
<1> HIDE DEF A, n
<1>5. IsFiniteSet(1 .. n) /\ IsFiniteSet(A)
  <2>1. 1 \in Int /\ n \in Int
    BY <1>1
  <2>2. IsFiniteSet(1 .. n)
    BY <2>1, FS_Interval
  <2> QED
    BY <1>2, <2>2, FS_Subset
<1>6. Cardinality(B) = m
  <2>1. n - m + 1 \in Int /\ n \in Int /\ (IF n - m + 1 > n THEN 0 ELSE n - (n - m + 1) + 1) = m
    BY <1>1, <1>3
  <2> QED
    BY <2>1, FS_Interval
<1> HIDE DEF B
<1>7. Cardinality(B) <= Cardinality(A) /\ Cardinality(A) \in Nat
  BY <1>4, <1>5, FS_Subset, FS_CardinalityType
<1>8. Count(w, S) = Cardinality(A)
  BY DEF Count, A
<1> QED
  BY <1>6, <1>7, <1>8

\* What the end of a sequence counts, the sequence does.
LEMMA CountOfTheEnd ==
  ASSUME NEW w \in Seq(Admissible), NEW x \in Seq(Admissible), NEW S, Len(w) <= Len(x),
         \A i \in 1 .. Len(w) : w[i] = x[Len(x) - Len(w) + i]
  PROVE  /\ Count(w, S) \in Nat /\ Count(x, S) \in Nat /\ Count(w, S) <= Count(x, S)
<1> DEFINE A == { i \in DOMAIN w : w[i] \in S }  B == { i \in DOMAIN x : x[i] \in S }
           n == Len(x)  d == Len(x) - Len(w)  f == [i \in A |-> d + i]
<1>1. DOMAIN w = 1 .. Len(w) /\ DOMAIN x = 1 .. n /\ n \in Nat /\ Len(w) \in Nat
  BY LenProperties
<1>2. d \in Nat
  BY <1>1
<1>3. A \in SUBSET (1 .. Len(w)) /\ B \in SUBSET (1 .. n)
  BY <1>1
<1>4. \A i \in A : d + i \in B
  <2> SUFFICES ASSUME NEW i \in A PROVE d + i \in B
    OBVIOUS
  <2>1. i \in 1 .. Len(w) /\ w[i] \in S
    BY <1>1
  <2>2. x[d + i] \in S
    BY <2>1
  <2>3. d + i \in 1 .. n
    BY <1>1, <2>1
  <2> QED
    BY <1>1, <2>2, <2>3
<1> HIDE DEF A, B, d, n
<1>5. IsFiniteSet(B) /\ IsFiniteSet(A)
  <2>1. 1 \in Int /\ n \in Int /\ Len(w) \in Int
    BY <1>1
  <2>2. IsFiniteSet(1 .. n) /\ IsFiniteSet(1 .. Len(w))
    BY <2>1, FS_Interval
  <2> QED
    BY <1>3, <2>2, FS_Subset
<1>6. f \in Injection(A, B)
  <2>1. f \in [A -> B]
    BY <1>4
  <2>2. \A i, j \in A : f[i] = f[j] => i = j
    <3>1. \A i \in A : i \in Nat
      BY <1>3
    <3> QED
      BY <1>2, <3>1
  <2> HIDE DEF f
  <2> QED
    BY <2>1, <2>2 DEF Injection, IsInjective
<1>7. Cardinality(A) <= Cardinality(B) /\ Cardinality(A) \in Nat /\ Cardinality(B) \in Nat
  <2> HIDE DEF f
  <2>1. Cardinality(A) <= Cardinality(B)
    BY <1>5, <1>6, FS_Injection
  <2> QED
    BY <1>5, <2>1, FS_CardinalityType
<1>8. Count(w, S) = Cardinality(A) /\ Count(x, S) = Cardinality(B)
  BY DEF Count, A, B
<1> QED
  BY <1>7, <1>8

-----------------------------------------------------------------------------
(* Alerts: what an observation makes of the rule *)

Alerts == {"none", "open", "acknowledged"}

\* Any rule, however long its window.
AnyRule == [ window : Seq(Admissible), quiet : 0 .. 3, cooldown : 0 .. 2, alert : Alerts ]

\* A rule with these fields.
Is(x, w, q, c, a) ==
  x \in AnyRule /\ x.window = w /\ x.quiet = q /\ x.cooldown = c /\ x.alert = a

\* A rule has its own fields.
LEMMA OwnFields ==
  ASSUME NEW r \in AnyRule
  PROVE  Is(r, r.window, r.quiet, r.cooldown, r.alert)
BY DEF Is

\* A rule with its window changed.
LEMMA WindowChanged ==
  ASSUME NEW x, NEW w, NEW q, NEW c, NEW a, Is(x, w, q, c, a), NEW v \in Seq(Admissible)
  PROVE  Is([x EXCEPT !.window = v], v, q, c, a)
BY DEF AnyRule, Is

\* A rule with its quiet run changed.
LEMMA QuietChanged ==
  ASSUME NEW x, NEW w, NEW q, NEW c, NEW a, Is(x, w, q, c, a), NEW v \in 0 .. 3
  PROVE  Is([x EXCEPT !.quiet = v], w, v, c, a)
BY DEF AnyRule, Is

\* A rule with its cooldown changed.
LEMMA CooldownChanged ==
  ASSUME NEW x, NEW w, NEW q, NEW c, NEW a, Is(x, w, q, c, a), NEW v \in 0 .. 2
  PROVE  Is([x EXCEPT !.cooldown = v], w, q, v, a)
BY DEF AnyRule, Is

\* A rule with its alert changed.
LEMMA AlertChanged ==
  ASSUME NEW x, NEW w, NEW q, NEW c, NEW a, Is(x, w, q, c, a), NEW v \in Alerts
  PROVE  Is([x EXCEPT !.alert = v], w, q, c, v)
BY DEF AnyRule, Is

\* The quiet run after an observation.
Quieter(q, s) == IF s = "positive" THEN 0 ELSE IF q < 3 THEN q + 1 ELSE 3

\* The end of the window that clears a threshold.
Cleared(w) ==
  Len(w) >= Limits.clear /\ \A i \in Len(w) - Limits.clear + 1 .. Len(w) : w[i] = "negative"

\* The three transitions on evidence, and what they rest on.
Opens(r, s, w, res) ==
  /\ res.transition = "opened" /\ r.alert = "none" /\ res.rule.alert = "open"
  /\ Count(w, {"positive"}) >= Limits.open
  /\ kind = "docker_event_gap" => s = "positive"
  /\ kind = "container_restart_loop" => res.rule.quiet = Quieter(r.quiet, s)

Resolves(r, s, w, res) ==
  /\ res.transition = "resolved" /\ r.alert # "none" /\ res.rule.alert = "none"
  /\ \/ Count(w, Against) >= Limits.clear
     \/ Cleared(w)
     \/ kind \in QuietKinds /\ Quieter(r.quiet, s) = 3

Stays(r, s, w, res) ==
  /\ res.transition = "none" /\ res.rule.alert = r.alert
  /\ r.alert # "none" =>
       /\ kind = "docker_unavailable" => ~ (Count(w, Against) >= Limits.clear)
       /\ kind = "container_restart_loop" =>
            /\ ~ (s = "negative" /\ Quieter(r.quiet, s) = 3)
            /\ res.rule.quiet = Quieter(r.quiet, s)
       /\ kind \notin QuietKinds \cup {"docker_unavailable"} => ~ Cleared(w)

Judged(r, s, w, res) ==
  /\ res.rule \in AnyRule /\ res.rule.window = w
  /\ kind \in QuietKinds => res.rule.quiet \in {0, Quieter(r.quiet, s)}
  /\ kind \notin QuietKinds => res.rule.quiet \in {0, r.quiet}
  /\ Opens(r, s, w, res) \/ Resolves(r, s, w, res) \/ Stays(r, s, w, res)

\* Counts are numbers.
LEMMA CountIsNumber ==
  ASSUME NEW w \in Seq(Admissible), NEW S
  PROVE  Count(w, S) \in Nat
<1>1. Len(w) \in Nat /\ \A i \in 1 .. Len(w) : w[i] \in S => i <= Len(w)
  BY LenProperties
<1> QED
  BY <1>1, CountAtMost

\* The rule of an unreachable engine counts its window.
LEMMA UnavailableJudges ==
  ASSUME kind = "docker_unavailable", NEW r \in AnyRule, NEW s \in Admissible,
         Slide(r.window, s) \in Seq(Admissible)
  PROVE  Judged(r, s, Slide(r.window, s), Unavailable(r, s))
<1> DEFINE w == Slide(r.window, s)  against == Count(w, Against)  for == Count(w, {"positive"})
           res == Unavailable(r, s)
           same == [r EXCEPT !.window = w]
           up == [same EXCEPT !.alert = "open"]  down == [same EXCEPT !.alert = "none"]
<1>1. res = CASE r.alert # "none" /\ against >= Limits.clear -> Result(down, "resolved")
              [] r.alert = "none" /\ for >= Limits.open -> Result(up, "opened")
              [] OTHER -> Result(same, "none")
  BY DEF Unavailable
<1>2. kind \notin QuietKinds
  BY DEF QuietKinds
<1>0. w \in Seq(Admissible)
  OBVIOUS
<1> HIDE DEF w, against, for, res
<1>4. r.quiet \in 0 .. 3 /\ r.cooldown \in 0 .. 2 /\ "open" \in Alerts /\ "none" \in Alerts
  BY DEF AnyRule, Alerts
<1>3a. Is(same, w, r.quiet, r.cooldown, r.alert)
  BY <1>0, OwnFields, WindowChanged
<1> HIDE DEF same
<1>3b. /\ Is(up, w, r.quiet, r.cooldown, "open") /\ Is(down, w, r.quiet, r.cooldown, "none")
  BY <1>3a, <1>4, AlertChanged
<1>3. /\ Is(same, w, r.quiet, r.cooldown, r.alert)
      /\ Is(up, w, r.quiet, r.cooldown, "open") /\ Is(down, w, r.quiet, r.cooldown, "none")
  BY <1>3a, <1>3b
<1> HIDE DEF up, down
<1>5. CASE r.alert # "none" /\ against >= Limits.clear
  <2>1. res = Result(down, "resolved")
    BY <1>1, <1>5
  <2>2. res.rule = down /\ res.transition = "resolved"
    BY <2>1 DEF Result
  <2>3. Resolves(r, s, w, res)
    BY <1>3, <1>5, <2>2 DEF Resolves, Is, against
  <2> QED
    BY <1>2, <1>3, <1>4, <2>2, <2>3 DEF Judged, Is, w, res
<1>6. CASE r.alert = "none" /\ for >= Limits.open
  <2>1. res = Result(up, "opened")
    BY <1>1, <1>6
  <2>2. res.rule = up /\ res.transition = "opened"
    BY <2>1 DEF Result
  <2>3. Opens(r, s, w, res)
    BY <1>3, <1>6, <2>2 DEF Opens, Is, for
  <2> QED
    BY <1>2, <1>3, <1>4, <2>2, <2>3 DEF Judged, Is, w, res
<1>7. CASE /\ ~ (r.alert # "none" /\ against >= Limits.clear)
           /\ ~ (r.alert = "none" /\ for >= Limits.open)
  <2>1. res = Result(same, "none")
    BY <1>1, <1>7
  <2>2. res.rule = same /\ res.transition = "none"
    BY <2>1 DEF Result
  <2>3. Stays(r, s, w, res)
    BY <1>3, <1>7, <2>2 DEF Stays, Is, against
  <2> QED
    BY <1>2, <1>3, <1>4, <2>2, <2>3 DEF Judged, Is, w, res
<1> QED
  BY <1>5, <1>6, <1>7

\* The rule of a gap in the events counts its quiet run.
LEMMA EventGapJudges ==
  ASSUME kind = "docker_event_gap", NEW r \in AnyRule, NEW s \in Admissible,
         Slide(r.window, s) \in Seq(Admissible),
         s = "positive" => Count(Slide(r.window, s), {"positive"}) >= Limits.open
  PROVE  Judged(r, s, Slide(r.window, s), EventGap(r, s))
<1> DEFINE w == Slide(r.window, s)  q == Quieter(r.quiet, s)  res == EventGap(r, s)
           after == [r EXCEPT !.window = w, !.quiet = q]
           up == [after EXCEPT !.alert = "open"]  zero == [after EXCEPT !.quiet = 0]
           down == [zero EXCEPT !.alert = "none"]
<1>0. [r EXCEPT !.window = Slide(@, s), !.quiet = q] = after
  BY DEF AnyRule
<1>1. res = CASE r.alert # "none" /\ q >= 3 -> Result(down, "resolved")
              [] r.alert = "none" /\ s = "positive" -> Result(up, "opened")
              [] OTHER -> Result(after, "none")
  BY DEF EventGap, Quieter
<1>2. kind \in QuietKinds
  BY DEF QuietKinds
<1>3. q \in 0 .. 3
  BY DEF Quieter, AnyRule
<1>0w. w \in Seq(Admissible)
  OBVIOUS
<1> HIDE DEF w, q, res
<1>6. r.cooldown \in 0 .. 2 /\ "open" \in Alerts /\ "none" \in Alerts /\ 0 \in 0 .. 3
  BY DEF AnyRule, Alerts
<1>4. Is(after, w, q, r.cooldown, r.alert)
  <2> DEFINE x == [r EXCEPT !.window = w]
  <2>1. Is(x, w, r.quiet, r.cooldown, r.alert)
    BY <1>0w, OwnFields, WindowChanged
  <2>2. after = [x EXCEPT !.quiet = q]
    OBVIOUS
  <2> HIDE DEF x, after
  <2>3. Is([x EXCEPT !.quiet = q], w, q, r.cooldown, r.alert)
    BY <1>3, <2>1, QuietChanged
  <2> QED
    BY <2>2, <2>3
<1> HIDE DEF after
<1>5a. Is(up, w, q, r.cooldown, "open") /\ Is(zero, w, 0, r.cooldown, r.alert)
  BY <1>4, <1>6, AlertChanged, QuietChanged
<1> HIDE DEF zero
<1>5b. Is(down, w, 0, r.cooldown, "none")
  BY <1>5a, <1>6, AlertChanged
<1>5. Is(up, w, q, r.cooldown, "open") /\ Is(down, w, 0, r.cooldown, "none")
  BY <1>5a, <1>5b
<1> HIDE DEF up, down
<1>7. CASE r.alert # "none" /\ q >= 3
  <2>1. res = Result(down, "resolved")
    BY <1>1, <1>7
  <2>2. res.rule = down /\ res.transition = "resolved"
    BY <2>1 DEF Result
  <2>3. q = 3
    BY <1>3, <1>7
  <2>4. Resolves(r, s, w, res)
    BY <1>2, <1>5, <1>7, <2>2, <2>3 DEF Resolves, Is, q
  <2> QED
    BY <1>2, <1>3, <1>5, <1>6, <2>2, <2>4 DEF Judged, Is, w, res, q
<1>8. CASE r.alert = "none" /\ s = "positive"
  <2>1. res = Result(up, "opened")
    BY <1>1, <1>8
  <2>2. res.rule = up /\ res.transition = "opened"
    BY <2>1 DEF Result
  <2>3. Opens(r, s, w, res)
    BY <1>5, <1>8, <2>2 DEF Opens, Is, w
  <2> QED
    BY <1>2, <1>3, <1>5, <1>6, <2>2, <2>3 DEF Judged, Is, w, res, q
<1>9. CASE ~ (r.alert # "none" /\ q >= 3) /\ ~ (r.alert = "none" /\ s = "positive")
  <2>1. res = Result(after, "none")
    BY <1>1, <1>9
  <2>2. res.rule = after /\ res.transition = "none"
    BY <2>1 DEF Result
  <2>3. Stays(r, s, w, res)
    BY <1>2, <1>4, <1>9, <2>2 DEF Stays, Is
  <2> QED
    BY <1>2, <1>3, <1>4, <1>6, <2>2, <2>3 DEF Judged, Is, w, res, q
<1> QED
  BY <1>7, <1>8, <1>9

\* The rule of a restart loop opens on its window and clears on its quiet run.
LEMMA RestartLoopJudges ==
  ASSUME kind = "container_restart_loop", NEW r \in AnyRule, NEW s \in Admissible,
         Slide(r.window, s) \in Seq(Admissible)
  PROVE  Judged(r, s, Slide(r.window, s), RestartLoop(r, s))
<1> DEFINE w == Slide(r.window, s)  q == Quieter(r.quiet, s)  res == RestartLoop(r, s)
           clear == s = "negative" /\ q >= 3  for == Count(w, {"positive"})  cool == Limits.cooldown
           after == [r EXCEPT !.window = w, !.quiet = q]
           up == [after EXCEPT !.alert = "open"]  zero == [after EXCEPT !.quiet = 0]
           still == [zero EXCEPT !.cooldown = cool]  down == [still EXCEPT !.alert = "none"]
           tick == [after EXCEPT !.cooldown = @ - 1]
<1>1. res = CASE r.alert # "none" /\ clear -> Result(down, "resolved")
              [] r.alert # "none" /\ ~ clear -> Result(after, "none")
              [] r.alert = "none" /\ r.cooldown > 0 -> Result(tick, "none")
              [] r.alert = "none" /\ r.cooldown = 0 /\ for >= Limits.open -> Result(up, "opened")
              [] OTHER -> Result(after, "none")
  BY DEF RestartLoop, Quieter
<1>2. kind \in QuietKinds /\ kind # "docker_event_gap" /\ kind # "docker_unavailable"
  BY DEF QuietKinds
<1>3. q \in 0 .. 3
  BY DEF Quieter, AnyRule
<1>4. cool \in 0 .. 2
  BY LimitsAre DEF AllKinds
<1>0w. w \in Seq(Admissible)
  OBVIOUS
<1> HIDE DEF w, q, res, for, cool
<1>7. r.cooldown \in 0 .. 2 /\ "open" \in Alerts /\ "none" \in Alerts /\ 0 \in 0 .. 3
  BY DEF AnyRule, Alerts
<1>5. Is(after, w, q, r.cooldown, r.alert)
  <2> DEFINE x == [r EXCEPT !.window = w]
  <2>1. Is(x, w, r.quiet, r.cooldown, r.alert)
    BY <1>0w, OwnFields, WindowChanged
  <2>2. after = [x EXCEPT !.quiet = q]
    OBVIOUS
  <2> HIDE DEF x, after
  <2>3. Is([x EXCEPT !.quiet = q], w, q, r.cooldown, r.alert)
    BY <1>3, <2>1, QuietChanged
  <2> QED
    BY <2>2, <2>3
<1> HIDE DEF after
<1>6a. Is(up, w, q, r.cooldown, "open") /\ Is(zero, w, 0, r.cooldown, r.alert)
  BY <1>5, <1>7, AlertChanged, QuietChanged
<1> HIDE DEF zero
<1>6b. Is(still, w, 0, cool, r.alert)
  BY <1>4, <1>6a, CooldownChanged
<1> HIDE DEF still
<1>6c. Is(down, w, 0, cool, "none")
  BY <1>6b, <1>7, AlertChanged
<1>6d. ASSUME r.cooldown > 0 PROVE Is(tick, w, q, r.cooldown - 1, r.alert)
  <2>1. r.cooldown - 1 \in 0 .. 2
    BY <1>7, <1>6d
  <2>2. tick = [after EXCEPT !.cooldown = r.cooldown - 1]
    BY <1>5 DEF Is
  <2>3. Is([after EXCEPT !.cooldown = r.cooldown - 1], w, q, r.cooldown - 1, r.alert)
    BY <1>5, <2>1, CooldownChanged
  <2> QED
    BY <2>2, <2>3
<1>6. /\ Is(up, w, q, r.cooldown, "open") /\ Is(down, w, 0, cool, "none")
      /\ r.cooldown > 0 => Is(tick, w, q, r.cooldown - 1, r.alert)
  BY <1>6a, <1>6c, <1>6d
<1> HIDE DEF up, down, tick
<1>8. CASE r.alert # "none" /\ clear
  <2>1. res = Result(down, "resolved")
    BY <1>1, <1>8
  <2>2. res.rule = down /\ res.transition = "resolved"
    BY <2>1 DEF Result
  <2>3. q = 3
    BY <1>3, <1>8
  <2>4. Resolves(r, s, w, res)
    BY <1>2, <1>6, <1>8, <2>2, <2>3 DEF Resolves, Is, q
  <2> QED
    BY <1>2, <1>3, <1>4, <1>6, <2>2, <2>4 DEF Judged, Is, w, res, q
<1>9. CASE r.alert # "none" /\ ~ clear
  <2>1. res = Result(after, "none")
    BY <1>1, <1>9
  <2>2. res.rule = after /\ res.transition = "none"
    BY <2>1 DEF Result
  <2>3. ~ (s = "negative" /\ q = 3)
    BY <1>3, <1>9
  <2>4. Stays(r, s, w, res)
    BY <1>2, <1>5, <2>2, <2>3 DEF Stays, Is, q
  <2> QED
    BY <1>2, <1>3, <1>5, <1>7, <2>2, <2>4 DEF Judged, Is, w, res, q
<1>10. CASE r.alert = "none" /\ r.cooldown > 0
  <2>1. res = Result(tick, "none")
    <3> HIDE DEF clear
    <3>1. ~ (r.alert # "none") /\ ~ (r.alert = "none" /\ r.cooldown = 0)
      BY <1>7, <1>10
    <3> QED
      BY <1>1, <1>10, <3>1
  <2>2. res.rule = tick /\ res.transition = "none"
    BY <2>1 DEF Result
  <2>3. r.cooldown - 1 \in 0 .. 2
    BY <1>7, <1>10
  <2>4. Stays(r, s, w, res)
    BY <1>6, <1>10, <2>2 DEF Stays, Is
  <2> QED
    BY <1>2, <1>3, <1>6, <2>2, <2>3, <2>4 DEF Judged, Is, w, res, q
<1>11. CASE r.alert = "none" /\ ~ (r.cooldown > 0) /\ for >= Limits.open
  <2>1. res = Result(up, "opened")
    <3> HIDE DEF clear
    <3>1. r.cooldown = 0
      BY <1>7, <1>11
    <3> QED
      BY <1>1, <1>11, <3>1
  <2>2. res.rule = up /\ res.transition = "opened"
    BY <2>1 DEF Result
  <2>3. Opens(r, s, w, res)
    BY <1>2, <1>6, <1>11, <2>2 DEF Opens, Is, for, q
  <2> QED
    BY <1>2, <1>3, <1>6, <1>7, <2>2, <2>3 DEF Judged, Is, w, res, q
<1>12. CASE r.alert = "none" /\ ~ (r.cooldown > 0) /\ ~ (for >= Limits.open)
  <2>1. res = Result(after, "none")
    <3> HIDE DEF clear
    <3> QED
      BY <1>1, <1>12
  <2>2. res.rule = after /\ res.transition = "none"
    BY <2>1 DEF Result
  <2>3. Stays(r, s, w, res)
    BY <1>5, <1>12, <2>2 DEF Stays, Is
  <2> QED
    BY <1>2, <1>3, <1>5, <1>7, <2>2, <2>3 DEF Judged, Is, w, res, q
<1> QED
  BY <1>8, <1>9, <1>10, <1>11, <1>12

\* The other rules open on their window and clear on its end.
LEMMA SimpleThresholdJudges ==
  ASSUME kind \in AllKinds \ (QuietKinds \cup {"docker_unavailable"}), NEW r \in AnyRule,
         NEW s \in Admissible, Slide(r.window, s) \in Seq(Admissible)
  PROVE  Judged(r, s, Slide(r.window, s), SimpleThreshold(r, s))
<1> DEFINE w == Slide(r.window, s)  res == SimpleThreshold(r, s)
           clear == Cleared(w)  for == Count(w, {"positive"})  cool == Limits.cooldown
           after == [r EXCEPT !.window = w]
           still == [after EXCEPT !.quiet = 0]  up == [still EXCEPT !.alert = "open"]
           cold == [still EXCEPT !.cooldown = cool]  down == [cold EXCEPT !.alert = "none"]
           tick == [after EXCEPT !.cooldown = @ - 1]
<1>1. res = CASE r.alert = "none" /\ s = "neutral" -> Result(still, "none")
              [] r.alert # "none" /\ clear -> Result(down, "resolved")
              [] r.alert # "none" /\ ~ clear -> Result(after, "none")
              [] r.alert = "none" /\ s # "neutral" /\ r.cooldown > 0 -> Result(tick, "none")
              [] r.alert = "none" /\ s # "neutral" /\ r.cooldown = 0 /\ for >= Limits.open ->
                   Result(up, "opened")
              [] OTHER -> Result(after, "none")
  BY DEF SimpleThreshold, Cleared
<1>2. kind \notin QuietKinds /\ kind # "docker_unavailable" /\ kind # "docker_event_gap"
      /\ kind # "container_restart_loop"
  BY DEF QuietKinds
<1>3. cool \in 0 .. 2
  BY LimitsAre
<1>0w. w \in Seq(Admissible)
  OBVIOUS
<1> HIDE DEF w, res, for, cool, clear
<1>6. /\ r.cooldown \in 0 .. 2 /\ r.quiet \in 0 .. 3 /\ 0 \in 0 .. 3
      /\ "open" \in Alerts /\ "none" \in Alerts
  BY DEF AnyRule, Alerts
<1>4. Is(after, w, r.quiet, r.cooldown, r.alert)
  BY <1>0w, OwnFields, WindowChanged
<1> HIDE DEF after
<1>5a. Is(still, w, 0, r.cooldown, r.alert)
  BY <1>4, <1>6, QuietChanged
<1> HIDE DEF still
<1>5b. Is(up, w, 0, r.cooldown, "open") /\ Is(cold, w, 0, cool, r.alert)
  BY <1>3, <1>5a, <1>6, AlertChanged, CooldownChanged
<1> HIDE DEF cold
<1>5c. Is(down, w, 0, cool, "none")
  BY <1>5b, <1>6, AlertChanged
<1>5d. ASSUME r.cooldown > 0 PROVE Is(tick, w, r.quiet, r.cooldown - 1, r.alert)
  <2>1. r.cooldown - 1 \in 0 .. 2
    BY <1>6, <1>5d
  <2>2. tick = [after EXCEPT !.cooldown = r.cooldown - 1]
    BY <1>4 DEF Is
  <2>3. Is([after EXCEPT !.cooldown = r.cooldown - 1], w, r.quiet, r.cooldown - 1, r.alert)
    BY <1>4, <2>1, CooldownChanged
  <2> QED
    BY <2>2, <2>3
<1>5. /\ Is(up, w, 0, r.cooldown, "open") /\ Is(down, w, 0, cool, "none")
      /\ Is(still, w, 0, r.cooldown, r.alert)
      /\ r.cooldown > 0 => Is(tick, w, r.quiet, r.cooldown - 1, r.alert)
  BY <1>5a, <1>5b, <1>5c, <1>5d
<1> HIDE DEF up, down, tick
<1>7. CASE r.alert = "none" /\ s = "neutral"
  <2>1. res = Result(still, "none")
    BY <1>1, <1>7
  <2>2. res.rule = still /\ res.transition = "none"
    BY <2>1 DEF Result
  <2>3. Stays(r, s, w, res)
    BY <1>5, <1>7, <2>2 DEF Stays, Is
  <2> QED
    BY <1>2, <1>5, <1>6, <2>2, <2>3 DEF Judged, Is, w, res
<1>8. CASE r.alert # "none" /\ clear
  <2>1. res = Result(down, "resolved")
    BY <1>1, <1>8
  <2>2. res.rule = down /\ res.transition = "resolved"
    BY <2>1 DEF Result
  <2>3. Resolves(r, s, w, res)
    BY <1>5, <1>8, <2>2 DEF Resolves, Is, clear
  <2> QED
    BY <1>2, <1>3, <1>5, <2>2, <2>3 DEF Judged, Is, w, res
<1>9. CASE r.alert # "none" /\ ~ clear
  <2>1. res = Result(after, "none")
    BY <1>1, <1>9
  <2>2. res.rule = after /\ res.transition = "none"
    BY <2>1 DEF Result
  <2>3. Stays(r, s, w, res)
    BY <1>2, <1>4, <1>9, <2>2 DEF Stays, Is, clear
  <2> QED
    BY <1>2, <1>4, <1>6, <2>2, <2>3 DEF Judged, Is, w, res
<1>10. CASE r.alert = "none" /\ s # "neutral" /\ r.cooldown > 0
  <2>1. res = Result(tick, "none")
    <3>1. ~ (r.alert # "none") /\ ~ (r.cooldown = 0)
      BY <1>6, <1>10
    <3> QED
      BY <1>1, <1>10, <3>1
  <2>2. res.rule = tick /\ res.transition = "none"
    BY <2>1 DEF Result
  <2>3. r.cooldown - 1 \in 0 .. 2
    BY <1>6, <1>10
  <2>4. Stays(r, s, w, res)
    BY <1>5, <1>10, <2>2 DEF Stays, Is
  <2> QED
    BY <1>2, <1>5, <1>6, <2>2, <2>3, <2>4 DEF Judged, Is, w, res
<1>11. CASE r.alert = "none" /\ s # "neutral" /\ ~ (r.cooldown > 0) /\ for >= Limits.open
  <2>1. res = Result(up, "opened")
    <3>1. r.cooldown = 0
      BY <1>6, <1>11
    <3> QED
      BY <1>1, <1>11, <3>1
  <2>2. res.rule = up /\ res.transition = "opened"
    BY <2>1 DEF Result
  <2>3. Opens(r, s, w, res)
    BY <1>2, <1>5, <1>11, <2>2 DEF Opens, Is, for
  <2> QED
    BY <1>2, <1>5, <1>6, <2>2, <2>3 DEF Judged, Is, w, res
<1>12. CASE r.alert = "none" /\ s # "neutral" /\ ~ (r.cooldown > 0) /\ ~ (for >= Limits.open)
  <2>1. res = Result(after, "none")
    BY <1>1, <1>12
  <2>2. res.rule = after /\ res.transition = "none"
    BY <2>1 DEF Result
  <2>3. Stays(r, s, w, res)
    BY <1>4, <1>12, <2>2 DEF Stays, Is
  <2> QED
    BY <1>2, <1>4, <1>6, <2>2, <2>3 DEF Judged, Is, w, res
<1> QED
  BY <1>7, <1>8, <1>9, <1>10, <1>11, <1>12

\* What evidence makes of the rule, whatever the rule is.
LEMMA EvidenceJudges ==
  ASSUME kind \in AllKinds, NEW r \in AnyRule, Len(r.window) <= Limits.window, NEW s \in Admissible
  PROVE  /\ Pushed(r.window, s, Limits.window, Slide(r.window, s))
         /\ Judged(r, s, Slide(r.window, s), Evaluate(r, s))
<1> DEFINE w == Slide(r.window, s)
<1>1. r.window \in Seq(Admissible)
  BY DEF AnyRule
<1>2. Pushed(r.window, s, Limits.window, w)
  BY <1>1, WindowSlides
<1>3. w \in Seq(Admissible)
  BY <1>2 DEF Pushed
<1>4. s # "frozen" /\ s # "removed"
  BY DEF Admissible
<1>5. CASE kind = "docker_unavailable"
  <2>1. Evaluate(r, s) = Unavailable(r, s)
    BY <1>4, <1>5 DEF Evaluate
  <2> QED
    BY <1>2, <1>3, <1>5, <2>1, UnavailableJudges
<1>6. CASE kind = "docker_event_gap"
  <2>1. Evaluate(r, s) = EventGap(r, s)
    BY <1>4, <1>6 DEF Evaluate
  <2>2. Limits.open = 1 /\ Limits.window = 1
    BY <1>6, LimitsAre
  <2>3. ASSUME s = "positive" PROVE Count(w, {"positive"}) >= Limits.open
    <3>1. Len(w) = 1 /\ w[1] = "positive"
      <4>1. Len(r.window) \in Nat
        BY <1>1, LenProperties
      <4>2. Len(w) = IF Len(r.window) < 1 THEN Len(r.window) + 1 ELSE 1
        BY <1>2, <2>2 DEF Pushed
      <4>3. Len(w) = 1
        <5> HIDE DEF w
        <5> QED
          BY <4>1, <4>2
      <4> QED
        BY <1>2, <2>3, <4>3 DEF Pushed
    <3> HIDE DEF w
    <3>2. 1 \in 0 .. Len(w) /\ \A i \in Len(w) - 1 + 1 .. Len(w) : w[i] \in {"positive"}
      <4>1. \A i \in 1 - 1 + 1 .. 1 : i = 1
        OBVIOUS
      <4>2. 1 \in 0 .. 1
        OBVIOUS
      <4> QED
        BY <3>1, <4>1, <4>2
    <3>3. Count(w, {"positive"}) \in Nat /\ 1 <= Count(w, {"positive"})
      BY <1>3, <3>2, CountAtLeast
    <3> QED
      BY <2>2, <3>3
  <2> QED
    BY <1>2, <1>3, <1>6, <2>1, <2>3, EventGapJudges
<1>7. CASE kind = "container_restart_loop"
  <2>1. Evaluate(r, s) = RestartLoop(r, s)
    BY <1>4, <1>7 DEF Evaluate
  <2> QED
    BY <1>2, <1>3, <1>7, <2>1, RestartLoopJudges
<1>8. CASE kind \notin QuietKinds \cup {"docker_unavailable"}
  <2>1. Evaluate(r, s) = SimpleThreshold(r, s)
    BY <1>4, <1>8 DEF Evaluate, QuietKinds
  <2>2. kind \in AllKinds \ (QuietKinds \cup {"docker_unavailable"})
    BY <1>8
  <2> QED
    BY <1>2, <1>3, <2>1, <2>2, SimpleThresholdJudges
<1> QED
  BY <1>5, <1>6, <1>7, <1>8 DEF QuietKinds

-----------------------------------------------------------------------------
(* Alerts: what is seen, and its end *)

\* The window stays the end of what was seen.
LEMMA RecentKept ==
  ASSUME NEW w \in Seq(Admissible), NEW x \in Seq(Admissible), NEW s \in Admissible,
         NEW n \in 1 .. 5, NEW v, NEW y, Len(x) <= 5, Recent(w, x, n),
         Pushed(w, s, n, v), Pushed(x, s, 5, y)
  PROVE  Recent(v, y, n)
<1> DEFINE lw == Len(w)  lx == Len(x)  lv == Len(v)  ly == Len(y)
<1>1. lw \in Nat /\ lx \in Nat /\ lx <= 5
  BY LenProperties
<1>2. /\ lw = IF lx < n THEN lx ELSE n
      /\ lv = IF lw < n THEN lw + 1 ELSE n
      /\ ly = IF lx < 5 THEN lx + 1 ELSE 5
  BY DEF Recent, Pushed
<1>3. /\ \A i \in 1 .. lw : w[i] = x[lx - lw + i]
      /\ v[lv] = s /\ \A i \in 1 .. lv - 1 : v[i] = w[i + lw + 1 - lv]
      /\ y[ly] = s /\ \A i \in 1 .. ly - 1 : y[i] = x[i + lx + 1 - ly]
  BY DEF Recent, Pushed
<1> HIDE DEF lw, lx, lv, ly
<1>4. lv = IF ly < n THEN ly ELSE n
  BY <1>1, <1>2
<1>5. ASSUME NEW i \in 1 .. lv PROVE v[i] = y[ly - lv + i]
  <2>1. CASE i = lv
    <3>1. ly - lv + i = ly
      BY <1>1, <1>2, <2>1
    <3> QED
      BY <1>3, <2>1, <3>1
  <2>2. CASE i # lv
    <3>1. /\ i \in 1 .. lv - 1 /\ i + lw + 1 - lv \in 1 .. lw
          /\ ly - lv + i \in 1 .. ly - 1
          /\ lx - lw + (i + lw + 1 - lv) = (ly - lv + i) + lx + 1 - ly
      BY <1>1, <1>2, <2>2
    <3>2. v[i] = x[lx - lw + (i + lw + 1 - lv)]
      BY <1>3, <3>1
    <3>3. y[ly - lv + i] = x[(ly - lv + i) + lx + 1 - ly]
      BY <1>3, <3>1
    <3> QED
      BY <3>1, <3>2, <3>3
  <2> QED
    BY <2>1, <2>2
<1> QED
  BY <1>4, <1>5 DEF Recent, lv, ly

\* The quiet run stays one.
LEMMA QuietKept ==
  ASSUME NEW x \in Seq(Admissible), NEW s \in Admissible \ {"neutral"}, NEW y, NEW q \in 0 .. 3,
         Len(x) <= 5, EndsAgainst(x, q), Pushed(x, s, 5, y)
  PROVE  EndsAgainst(y, Quieter(q, s))
<1> DEFINE lx == Len(x)  ly == Len(y)  p == Quieter(q, s)
<1>1. lx \in Nat /\ lx <= 5 /\ q <= lx
  BY LenProperties DEF EndsAgainst
<1>2. ly = IF lx < 5 THEN lx + 1 ELSE 5
  BY DEF Pushed
<1>3. /\ \A i \in lx - q + 1 .. lx : x[i] \in Against
      /\ y[ly] = s /\ \A i \in 1 .. ly - 1 : y[i] = x[i + lx + 1 - ly]
  BY DEF EndsAgainst, Pushed
<1>4. p \in 0 .. 3 /\ p <= q + 1 /\ (p > 0 => s \in Against)
  BY DEF Quieter, Against, Admissible
<1> HIDE DEF lx, ly, p
<1>5. p <= ly
  BY <1>1, <1>2, <1>4
<1>6. ASSUME NEW i \in ly - p + 1 .. ly PROVE y[i] \in Against
  <2>1. p > 0
    BY <1>1, <1>2, <1>4
  <2>2. CASE i = ly
    BY <1>3, <1>4, <2>1, <2>2
  <2>3. CASE i # ly
    <3>1. i \in 1 .. ly - 1 /\ i + lx + 1 - ly \in lx - q + 1 .. lx
      BY <1>1, <1>2, <1>4, <1>5, <2>3
    <3> QED
      BY <1>3, <3>1
  <2> QED
    BY <2>2, <2>3
<1> QED
  BY <1>5, <1>6 DEF EndsAgainst, ly, p

\* What is against the condition at the end was so before.
LEMMA TrailsBack ==
  ASSUME NEW x \in Seq(Admissible), NEW s \in Admissible, NEW y, NEW k \in 1 .. 5,
         Len(x) <= 5, Pushed(x, s, 5, y), Trails(y, k)
  PROVE  s = "negative" /\ Trails(x, k - 1)
<1> DEFINE lx == Len(x)  ly == Len(y)
<1>1. lx \in Nat /\ lx <= 5
  BY LenProperties
<1>2. ly = IF lx < 5 THEN lx + 1 ELSE 5
  BY DEF Pushed
<1>3. /\ k <= ly /\ \A i \in ly - k + 1 .. ly : y[i] = "negative"
      /\ y[ly] = s /\ \A i \in 1 .. ly - 1 : y[i] = x[i + lx + 1 - ly]
  BY DEF Trails, Pushed
<1> HIDE DEF lx, ly
<1>4. s = "negative"
  <2>1. ly \in ly - k + 1 .. ly
    BY <1>1, <1>2
  <2> QED
    BY <1>3, <2>1
<1>5. k - 1 <= lx
  BY <1>1, <1>2, <1>3
<1>6. ASSUME NEW i \in lx - (k - 1) + 1 .. lx PROVE x[i] = "negative"
  <2>1. /\ i + ly - lx - 1 \in 1 .. ly - 1 /\ i + ly - lx - 1 \in ly - k + 1 .. ly
        /\ (i + ly - lx - 1) + lx + 1 - ly = i
    BY <1>1, <1>2, <1>3
  <2>2. y[i + ly - lx - 1] = x[(i + ly - lx - 1) + lx + 1 - ly]
    BY <1>3, <2>1
  <2>3. y[i + ly - lx - 1] = "negative"
    BY <1>3, <2>1
  <2> QED
    BY <2>1, <2>2, <2>3
<1> QED
  BY <1>4, <1>5, <1>6 DEF Trails, lx

\* The window ends as what was seen does, and then holds few observations of the condition.
LEMMA WindowTrails ==
  ASSUME NEW w \in Seq(Admissible), NEW x \in Seq(Admissible), NEW n \in 1 .. 5, NEW k \in 1 .. n,
         Recent(w, x, n), Trails(x, k)
  PROVE  /\ Trails(w, k)
         /\ Count(w, {"positive"}) \in Nat /\ Count(w, {"positive"}) <= n - k
         /\ Count(w, Against) \in Nat /\ k <= Count(w, Against)
<1> DEFINE lw == Len(w)  lx == Len(x)
<1>1. lw \in Nat /\ lx \in Nat
  BY LenProperties
<1>2. /\ lw = IF lx < n THEN lx ELSE n
      /\ \A i \in 1 .. lw : w[i] = x[lx - lw + i]
      /\ k <= lx /\ \A i \in lx - k + 1 .. lx : x[i] = "negative"
  BY DEF Recent, Trails
<1> HIDE DEF lw, lx
<1>3. k <= lw /\ lw <= n /\ k \in 0 .. lw
  BY <1>1, <1>2
<1>4. ASSUME NEW i \in lw - k + 1 .. lw PROVE w[i] = "negative"
  <2>1. i \in 1 .. lw /\ lx - lw + i \in lx - k + 1 .. lx
    BY <1>1, <1>2, <1>3
  <2> QED
    BY <1>2, <2>1
<1>5. Trails(w, k)
  BY <1>3, <1>4 DEF Trails, lw
<1>6. Count(w, {"positive"}) \in Nat /\ Count(w, {"positive"}) <= lw - k
  <2>1. \A i \in 1 .. lw : w[i] \in {"positive"} => i <= lw - k
    <3> SUFFICES ASSUME NEW i \in 1 .. lw, ~ (i <= lw - k) PROVE w[i] \notin {"positive"}
      OBVIOUS
    <3>1. i \in lw - k + 1 .. lw
      BY <1>1
    <3> QED
      BY <1>4, <3>1
  <2>2. lw - k \in Nat
    BY <1>1, <1>3
  <2> QED
    BY <2>1, <2>2, CountAtMost DEF lw
<1>7. Count(w, Against) \in Nat /\ k <= Count(w, Against)
  <2>1. \A i \in lw - k + 1 .. lw : w[i] \in Against
    BY <1>4 DEF Against
  <2> QED
    BY <1>3, <2>1, CountAtLeast DEF lw
<1>8. Count(w, {"positive"}) <= n - k
  BY <1>1, <1>3, <1>6
<1> QED
  BY <1>5, <1>6, <1>7, <1>8

\* An alert that evidence can clear lingers through evidence that does not clear it.
LEMMA LingersOn ==
  ASSUME kind \in AllKinds, NEW r \in AnyRule, NEW s \in Feeds \cap Admissible,
         NEW x \in Seq(Admissible), Len(x) <= 5, NEW w, NEW y, NEW res,
         Pushed(x, s, 5, y), w \in Seq(Admissible), Recent(w, y, Limits.window),
         Judged(r, s, w, res), Lingering(x, r)
  PROVE  Lingering(y, res.rule)
<1> SUFFICES ASSUME Clearable, res.rule.alert # "none"
             PROVE  /\ kind # "docker_event_gap"
                    /\ kind = "container_restart_loop" =>
                         /\ ~ Trails(y, 4)
                         /\ \A k \in 1 .. 3 : Trails(y, k) => k <= res.rule.quiet + 1
                    /\ kind # "container_restart_loop" => ~ Trails(y, Limits.clear)
  BY DEF Lingering
<1>1. Limits.window \in 1 .. 5 /\ Limits.open \in 1 .. 3 /\ Limits.clear \in 2 .. 3
  BY LimitsAre
<1>2. Opens(r, s, w, res) \/ Stays(r, s, w, res)
  BY DEF Judged, Resolves
<1>3. y \in Seq(Admissible)
  BY DEF Pushed
<1>4. kind # "docker_event_gap"
  <2> SUFFICES ASSUME kind = "docker_event_gap" PROVE FALSE
    OBVIOUS
  <2>1. s # "positive"
    BY FeedsAre DEF Clearable
  <2>2. Stays(r, s, w, res)
    BY <1>2, <2>1 DEF Opens
  <2>3. r.alert # "none"
    BY <2>2 DEF Stays
  <2> QED
    BY <2>3 DEF Lingering
<1>5. ASSUME kind = "container_restart_loop"
      PROVE  /\ ~ Trails(y, 4)
             /\ \A k \in 1 .. 3 : Trails(y, k) => k <= res.rule.quiet + 1
  <2>1. Limits.window = 5 /\ Limits.open = 3
    BY <1>5, LimitsAre
  <2>2. r.quiet \in 0 .. 3
    BY DEF AnyRule
  <2>3. res.rule.quiet = Quieter(r.quiet, s)
    BY <1>2, <1>5 DEF Opens, Stays, Judged
  <2>4. ASSUME NEW k \in 1 .. 4, Trails(y, k) PROVE s = "negative" /\ Trails(x, k - 1)
    <3>1. k \in 1 .. 5
      OBVIOUS
    <3> QED
      BY <2>4, <3>1, TrailsBack
  <2>5. CASE Opens(r, s, w, res)
    <3>1. Count(w, {"positive"}) >= 3
      BY <2>1, <2>5 DEF Opens
    <3>2. ASSUME NEW k \in 1 .. 4, Trails(y, k) PROVE k <= 2
      <4>1. 5 \in 1 .. 5 /\ k \in 1 .. 5 /\ Recent(w, y, 5)
        BY <2>1
      <4>2. Count(w, {"positive"}) \in Nat /\ Count(w, {"positive"}) <= 5 - k
        BY <1>3, <3>2, <4>1, WindowTrails
      <4> QED
        BY <3>1, <4>2
    <3>3. ~ Trails(y, 4)
      BY <3>2
    <3>4. ASSUME NEW k \in 1 .. 3, Trails(y, k) PROVE k <= res.rule.quiet + 1
      <4>1. k <= 2 /\ s = "negative"
        BY <2>4, <3>2, <3>4
      <4>2. Quieter(r.quiet, s) >= 1
        BY <2>2, <4>1 DEF Quieter
      <4>3. Quieter(r.quiet, s) \in 0 .. 3
        BY <2>2 DEF Quieter
      <4> QED
        BY <2>3, <4>1, <4>2, <4>3
    <3> QED
      BY <3>3, <3>4
  <2>6. CASE Stays(r, s, w, res)
    <3>1. r.alert # "none" /\ ~ (s = "negative" /\ Quieter(r.quiet, s) = 3)
      BY <1>5, <2>6 DEF Stays
    <3>2. ~ Trails(x, 4) /\ \A k \in 1 .. 3 : Trails(x, k) => k <= r.quiet + 1
      BY <1>5, <3>1 DEF Lingering
    <3>3. ~ Trails(y, 4)
      <4> SUFFICES ASSUME Trails(y, 4) PROVE FALSE
        OBVIOUS
      <4>1. 4 \in 1 .. 4 /\ 4 - 1 = 3 /\ 3 \in 1 .. 3
        OBVIOUS
      <4>2. s = "negative" /\ Trails(x, 3)
        BY <2>4, <4>1
      <4>3. 3 <= r.quiet + 1
        BY <3>2, <4>1, <4>2
      <4>4. Quieter(r.quiet, s) = 3
        BY <2>2, <4>2, <4>3 DEF Quieter
      <4> QED
        BY <3>1, <4>2, <4>4
    <3>4. ASSUME NEW k \in 1 .. 3, Trails(y, k) PROVE k <= res.rule.quiet + 1
      <4>1. k \in 1 .. 4
        OBVIOUS
      <4>2. s = "negative" /\ Trails(x, k - 1)
        BY <2>4, <3>4, <4>1
      <4>3. Quieter(r.quiet, s) = IF r.quiet < 3 THEN r.quiet + 1 ELSE 3
        BY <4>2 DEF Quieter
      <4>4. CASE k = 1
        BY <2>2, <2>3, <4>3, <4>4
      <4>5. CASE k # 1
        <5>1. k - 1 \in 1 .. 3
          BY <4>5
        <5>2. k - 1 <= r.quiet + 1
          BY <3>2, <4>2, <5>1
        <5> QED
          BY <2>2, <2>3, <4>3, <5>2
      <4> QED
        BY <4>4, <4>5
    <3> QED
      BY <3>3, <3>4
  <2> QED
    BY <1>2, <2>5, <2>6
<1>6. ASSUME kind # "container_restart_loop", Trails(y, Limits.clear) PROVE FALSE
  <2>1. kind \notin QuietKinds
    BY <1>4, <1>6 DEF QuietKinds
  <2>2. Limits.clear <= Limits.window /\ Limits.open > Limits.window - Limits.clear
    BY <2>1, LimitsAre
  <2>3. Limits.clear \in 1 .. Limits.window
    BY <1>1, <2>2
  <2>4. /\ Trails(w, Limits.clear)
        /\ Count(w, {"positive"}) \in Nat /\ Count(w, {"positive"}) <= Limits.window - Limits.clear
        /\ Count(w, Against) \in Nat /\ Limits.clear <= Count(w, Against)
    BY <1>1, <1>3, <1>6, <2>3, WindowTrails
  <2>5. CASE Opens(r, s, w, res)
    <3>1. Count(w, {"positive"}) >= Limits.open
      BY <2>5 DEF Opens
    <3>2. \A c \in Nat, o \in 1 .. 3, d \in Int : ~ (c <= d /\ o > d /\ c >= o)
      OBVIOUS
    <3>3. Limits.window - Limits.clear \in Int
      BY <1>1
    <3>4. Count(w, {"positive"}) \in Nat /\ Limits.open \in 1 .. 3
      BY <1>1, <2>4
    <3> QED
      BY <2>2, <2>4, <3>1, <3>2, <3>3, <3>4, Zenon
  <2>6. CASE Stays(r, s, w, res)
    <3>1. r.alert # "none"
      BY <2>6 DEF Stays
    <3>2. CASE kind = "docker_unavailable"
      <4>1. ~ (Count(w, Against) >= Limits.clear)
        BY <2>6, <3>1, <3>2 DEF Stays
      <4> QED
        BY <1>1, <2>4, <4>1
    <3>3. CASE kind # "docker_unavailable"
      <4>1. ~ Cleared(w)
        BY <2>1, <2>6, <3>1, <3>3 DEF Stays
      <4>2. Len(w) \in Nat
        BY LenProperties
      <4>3. Cleared(w)
        BY <1>1, <2>4, <4>2 DEF Trails, Cleared
      <4> QED
        BY <4>1, <4>3
    <3> QED
      BY <3>2, <3>3
  <2> QED
    BY <1>2, <2>5, <2>6
<1> QED
  BY <1>4, <1>5, <1>6

\* The recent part of what was seen is its end.
LEMMA EndIsTheWindow ==
  ASSUME NEW w \in Seq(Admissible), NEW x \in Seq(Admissible), NEW n \in 1 .. 5, Recent(w, x, n)
  PROVE  SubSeq(x, Len(x) - Len(w) + 1, Len(x)) = w
<1> DEFINE lw == Len(w)  lx == Len(x)  a == lx - lw + 1  y == SubSeq(x, a, lx)
<1>1. lw \in Nat /\ lx \in Nat
  BY LenProperties
<1>2a. /\ lw = IF lx < n THEN lx ELSE n
       /\ \A i \in 1 .. lw : w[i] = x[lx - lw + i]
  BY DEF Recent
<1>3. \A i \in 1 .. lx : x[i] \in Admissible
  BY ElementOfSeq
<1> HIDE DEF lw, lx
<1>2. lw <= lx /\ \A i \in 1 .. lw : w[i] = x[lx - lw + i]
  <2>1. lw <= lx
    BY <1>1, <1>2a
  <2> QED
    BY <1>2a, <2>1
<1>4. a \in Int /\ lx \in Int /\ (IF a <= lx THEN lx - a + 1 ELSE 0) = lw /\ lx - a + 1 = lw
  BY <1>1, <1>2
<1>5. \A i \in a .. lx : x[i] \in Admissible
  BY <1>1, <1>2, <1>3
<1>6. \A i \in 1 .. lw : a + i - 1 = lx - lw + i
  BY <1>1
<1> HIDE DEF a
<1>7. /\ y \in Seq(Admissible) /\ Len(y) = IF a <= lx THEN lx - a + 1 ELSE 0
      /\ \A i \in 1 .. lx - a + 1 : y[i] = x[a + i - 1]
  BY <1>4, <1>5, SubSeqProperties
<1> HIDE DEF y
<1>8. Len(y) = Len(w)
  BY <1>4, <1>7 DEF lw
<1>9. \A i \in 1 .. Len(y) : y[i] = w[i]
  BY <1>2, <1>4, <1>6, <1>7, <1>8 DEF lw
<1>10. y = w
  BY <1>7, <1>8, <1>9, SeqEqual
<1> QED
  BY <1>10 DEF y, a, lw, lx

\* What resolves an alert was seen.
LEMMA ResolvedOnEvidence ==
  ASSUME kind \in AllKinds, NEW r \in AnyRule, NEW s \in Feeds \cap Admissible,
         NEW x \in Seq(Admissible), Len(x) <= 5, NEW w, NEW y, NEW res,
         Pushed(x, s, 5, y), w \in Seq(Admissible), Recent(w, y, Limits.window),
         EndsAgainst(x, r.quiet), Resolves(r, s, w, res)
  PROVE  Count(y, Against) >= Limits.clear
<1>1. Limits.window \in 1 .. 5 /\ Limits.clear \in 2 .. 3
  BY LimitsAre
<1>2. y \in Seq(Admissible)
  BY DEF Pushed
<1>3. /\ Len(w) <= Len(y)
      /\ \A i \in 1 .. Len(w) : w[i] = y[Len(y) - Len(w) + i]
      /\ Len(w) \in Nat /\ Len(y) \in Nat
  <2>1. Len(w) \in Nat /\ Len(y) \in Nat
    BY <1>2, LenProperties
  <2>2. Len(w) = IF Len(y) < Limits.window THEN Len(y) ELSE Limits.window
    BY DEF Recent
  <2>3. Len(w) <= Len(y)
    <3> DEFINE a == Len(w)  b == Len(y)  n == Limits.window
    <3>1. a \in Nat /\ b \in Nat /\ n \in 1 .. 5 /\ a = IF b < n THEN b ELSE n
      BY <1>1, <2>1, <2>2
    <3> HIDE DEF a, b, n
    <3>2. a <= b
      BY <3>1
    <3> QED
      BY <3>2 DEF a, b
  <2> QED
    BY <2>1, <2>3 DEF Recent
<1>4. /\ Count(w, Against) \in Nat /\ Count(y, Against) \in Nat
      /\ Count(w, Against) <= Count(y, Against)
  BY <1>2, <1>3, CountOfTheEnd
<1>5. \A a \in Nat, b \in Nat, c \in 2 .. 3 : a >= c /\ a <= b => b >= c
  OBVIOUS
<1>6. CASE Count(w, Against) >= Limits.clear
  BY <1>1, <1>4, <1>5, <1>6, Zenon
<1>7. CASE Cleared(w)
  <2>1. Limits.clear \in 0 .. Len(w)
    BY <1>1, <1>3, <1>7 DEF Cleared
  <2>2. \A i \in Len(w) - Limits.clear + 1 .. Len(w) : w[i] \in Against
    BY <1>7 DEF Cleared, Against
  <2>3. Limits.clear <= Count(w, Against)
    BY <2>1, <2>2, CountAtLeast
  <2>4. \A a \in Nat, c \in 2 .. 3 : c <= a => a >= c
    OBVIOUS
  <2>5. Count(w, Against) >= Limits.clear
    BY <1>1, <1>4, <2>3, <2>4, Zenon
  <2> QED
    BY <1>6, <2>5
<1>8. CASE kind \in QuietKinds /\ Quieter(r.quiet, s) = 3
  <2>1. s # "neutral" /\ Limits.clear = 3
    BY <1>8, FeedsAre, LimitsAre
  <2>2. s \in Admissible \ {"neutral"} /\ r.quiet \in 0 .. 3
    BY <2>1 DEF AnyRule
  <2>3. EndsAgainst(y, 3)
    BY <1>8, <2>2, QuietKept
  <2>4. 3 \in 0 .. Len(y) /\ \A i \in Len(y) - 3 + 1 .. Len(y) : y[i] \in Against
    BY <1>3, <2>3 DEF EndsAgainst
  <2>5. 3 <= Count(y, Against)
    BY <1>2, <2>4, CountAtLeast
  <2>6. \A a \in Nat : 3 <= a => a >= 3
    OBVIOUS
  <2> QED
    BY <1>4, <2>1, <2>5, <2>6, Zenon
<1> QED
  BY <1>6, <1>7, <1>8 DEF Resolves

-----------------------------------------------------------------------------
(* Alerts: the rows *)

RowStates == {"open", "acknowledged", "resolved"}

\* There is one active row for an alert, and none without.
Follows(rs, a) ==
  /\ a = "none" => ActiveRows(rs) = {}
  /\ a # "none" => \E i \in 1 .. Len(rs) : ActiveRows(rs) = {i}

\* Which rows are active.
LEMMA WhichAreActive ==
  ASSUME NEW rs \in Seq(RowStates)
  PROVE  /\ Len(rs) \in Nat /\ \A i \in 1 .. Len(rs) : rs[i] \in RowStates
         /\ ActiveRows(rs) \in SUBSET (1 .. Len(rs)) /\ IsFiniteSet(ActiveRows(rs))
         /\ \A i \in 1 .. Len(rs) : i \in ActiveRows(rs) <=> rs[i] \in Active
<1>1. Len(rs) \in Nat /\ DOMAIN rs = 1 .. Len(rs)
  BY LenProperties
<1>2. ActiveRows(rs) = { i \in 1 .. Len(rs) : rs[i] \in Active }
  BY <1>1 DEF ActiveRows
<1>3. \A i \in 1 .. Len(rs) : rs[i] \in RowStates
  BY ElementOfSeq
<1>4. IsFiniteSet(1 .. Len(rs))
  BY <1>1, FS_Interval
<1>5. ActiveRows(rs) \in SUBSET (1 .. Len(rs))
  BY <1>2
<1>6. IsFiniteSet(ActiveRows(rs))
  BY <1>4, <1>5, FS_Subset
<1> QED
  BY <1>1, <1>2, <1>3, <1>5, <1>6

\* The count of active rows says the same.
LEMMA CountOfActive ==
  ASSUME NEW rs \in Seq(RowStates), NEW a
  PROVE  Cardinality(ActiveRows(rs)) = (IF a = "none" THEN 0 ELSE 1) <=> Follows(rs, a)
<1> DEFINE A == ActiveRows(rs)
<1>1. IsFiniteSet(A) /\ A \in SUBSET (1 .. Len(rs))
  BY WhichAreActive
<1> HIDE DEF A
<1>2. Cardinality(A) = 0 <=> A = {}
  BY <1>1, FS_EmptySet
<1>3. Cardinality(A) = 1 <=> \E i \in 1 .. Len(rs) : A = {i}
  <2>1. Cardinality(A) = 1 <=> \E x : A = {x}
    BY <1>1, FS_Singleton, Zenon
  <2>2. ASSUME NEW x, A = {x} PROVE x \in 1 .. Len(rs)
    BY <1>1, <2>2
  <2> QED
    BY <2>1, <2>2
<1>4. CASE a = "none"
  BY <1>2, <1>4 DEF Follows, A
<1>5. CASE a # "none"
  BY <1>3, <1>5 DEF Follows, A
<1> QED
  BY <1>4, <1>5

\* Which rows of a sequence are active says what it follows.
LEMMA SameActive ==
  ASSUME NEW rs \in Seq(RowStates), NEW ts \in Seq(RowStates), NEW a,
         Len(ts) = Len(rs), Follows(rs, a),
         \A i \in 1 .. Len(rs) : ts[i] \in Active <=> rs[i] \in Active
  PROVE  Follows(ts, a)
<1>1. ActiveRows(ts) = ActiveRows(rs)
  BY WhichAreActive
<1> QED
  BY <1>1 DEF Follows

\* Rewriting the active rows.
LEMMA Rewritten ==
  ASSUME NEW rs \in Seq(RowStates), NEW b \in RowStates, NEW a, Follows(rs, a)
  PROVE  LET ts == [i \in DOMAIN rs |-> IF rs[i] \in Active THEN b ELSE rs[i]]
         IN /\ ts \in Seq(RowStates) /\ Len(ts) = Len(rs)
            /\ b \in Active => Follows(ts, a)
            /\ b \notin Active => Follows(ts, "none")
<1> DEFINE ts == [i \in DOMAIN rs |-> IF rs[i] \in Active THEN b ELSE rs[i]]  n == Len(rs)
<1>1. /\ n \in Nat /\ \A i \in 1 .. n : rs[i] \in RowStates
      /\ DOMAIN rs = 1 .. n
  BY WhichAreActive, LenProperties
<1>2. /\ ts \in [1 .. n -> RowStates]
      /\ \A i \in 1 .. n : ts[i] = IF rs[i] \in Active THEN b ELSE rs[i]
  <2> HIDE DEF n
  <2> QED
    BY <1>1
<1> HIDE DEF ts, n
<1>3. ts \in Seq(RowStates) /\ DOMAIN ts = 1 .. n
  BY <1>1, <1>2
<1>4. Len(ts) = n
  BY <1>1, <1>3, LenProperties
<1>5. ASSUME b \in Active PROVE Follows(ts, a)
  <2>1. \A i \in 1 .. n : ts[i] \in Active <=> rs[i] \in Active
    BY <1>2, <1>5
  <2> QED
    BY <1>3, <1>4, <2>1, SameActive DEF n
<1>6. ASSUME b \notin Active PROVE Follows(ts, "none")
  <2>1. \A i \in 1 .. n : ts[i] \notin Active
    BY <1>2, <1>6
  <2>2. ActiveRows(ts) = {}
    BY <1>3, <1>4, <2>1, WhichAreActive
  <2> QED
    BY <2>2 DEF Follows
<1> QED
  BY <1>3, <1>4, <1>5, <1>6 DEF ts, n

\* A row is added where none is active.
LEMMA RowAdded ==
  ASSUME NEW rs \in Seq(RowStates), NEW b \in Active, Follows(rs, "none")
  PROVE  Append(rs, b) \in Seq(RowStates) /\ Follows(Append(rs, b), b)
<1> DEFINE ts == Append(rs, b)  n == Len(rs)
<1>1. b \in RowStates /\ b # "none"
  BY DEF Active, RowStates
<1>2. /\ ts \in Seq(RowStates) /\ Len(ts) = n + 1 /\ ts[n + 1] = b
      /\ \A i \in 1 .. n : ts[i] = rs[i]
  BY <1>1, AppendProperties
<1>3. n \in Nat /\ \A i \in 1 .. n : rs[i] \notin Active
  BY WhichAreActive DEF Follows
<1> HIDE DEF ts, n
<1>4. ActiveRows(ts) = {n + 1}
  <2>1. \A i \in 1 .. n + 1 : i \in ActiveRows(ts) <=> i = n + 1
    <3>1. \A i \in 1 .. n + 1 : i \in ActiveRows(ts) <=> ts[i] \in Active
      BY <1>2, WhichAreActive
    <3>2. \A i \in 1 .. n + 1 : i # n + 1 => i \in 1 .. n
      BY <1>3
    <3> QED
      BY <1>2, <1>3, <3>1, <3>2
  <2>2. ActiveRows(ts) \in SUBSET (1 .. n + 1) /\ n + 1 \in 1 .. n + 1
    BY <1>2, <1>3, WhichAreActive
  <2> QED
    BY <2>1, <2>2
<1>5. n + 1 \in 1 .. Len(ts)
  BY <1>2, <1>3
<1> QED
  BY <1>1, <1>2, <1>4, <1>5 DEF Follows, ts

\* One active row is one.
LEMMA OneRow ==
  ASSUME NEW b \in Active
  PROVE  << b >> \in Seq(RowStates) /\ Len(<< b >>) = 1 /\ Follows(<< b >>, b)
<1>1. << b >> \in Seq(RowStates) /\ Len(<< b >>) = 1 /\ << b >>[1] = b
  BY DEF Active, RowStates
<1>2. ActiveRows(<< b >>) = {1}
  <2> DEFINE ts == << b >>
  <2>1. ts \in Seq(RowStates) /\ Len(ts) = 1 /\ ts[1] = b
    BY <1>1
  <2> HIDE DEF ts
  <2>2. /\ ActiveRows(ts) \in SUBSET (1 .. 1)
        /\ \A i \in 1 .. 1 : i \in ActiveRows(ts) <=> ts[i] \in Active
    BY <2>1, WhichAreActive
  <2>3. ActiveRows(ts) = {1}
    BY <2>1, <2>2
  <2> QED
    BY <2>3 DEF ts
<1>3. b # "none" /\ 1 \in 1 .. 1
  BY DEF Active
<1> QED
  BY <1>1, <1>2, <1>3 DEF Follows

\* What a transition makes of the alert.
Moves(a, transition, b) ==
  \/ transition = "none" /\ b = a
  \/ transition = "opened" /\ a = "none" /\ b \in Active
  \/ transition \in {"resolved", "removed"} /\ a # "none" /\ b = "none"

\* The rows follow the rule through a transition, in either repository.
LEMMA RecordFollows ==
  ASSUME NEW rs \in Seq(RowStates), NEW a \in Alerts, NEW res, Follows(rs, a),
         res.rule.alert \in Alerts, Moves(a, res.transition, res.rule.alert)
  PROVE  Record(rs, res) \in Seq(RowStates) /\ Follows(Record(rs, res), res.rule.alert)
<1> DEFINE b == res.rule.alert  t == res.transition
           ts(c) == [i \in DOMAIN rs |-> IF rs[i] \in Active THEN c ELSE rs[i]]
<1>1. Record(rs, res) = IF place = "json"
                        THEN IF b # "none"
                             THEN IF ActiveRows(rs) # {} THEN ts(b) ELSE Append(rs, b)
                             ELSE IF t \in {"resolved", "removed"} THEN ts("resolved") ELSE rs
                        ELSE IF b # "none" THEN << b >>
                             ELSE IF t \in {"resolved", "removed"} THEN ts("resolved") ELSE rs
  BY DEF Record, JsonRecord, PgRecord
<1>2. \A c \in RowStates : /\ ts(c) \in Seq(RowStates)
                           /\ c \in Active => Follows(ts(c), a)
                           /\ c \notin Active => Follows(ts(c), "none")
  BY Rewritten
<1>3. /\ Moves(a, t, b) /\ b \in Alerts
      /\ "resolved" \in RowStates \ Active /\ Active \subseteq RowStates
      /\ \A c \in Alerts : c # "none" => c \in Active
  BY DEF RowStates, Active, Alerts
<1>4. a # "none" => ActiveRows(rs) # {}
  BY DEF Follows
<1> HIDE DEF b, t, ts
<1>5. CASE b # "none"
  <2>1. b \in Active
    BY <1>3, <1>5
  <2>2. CASE place # "json"
    <3>1. Record(rs, res) = << b >>
      BY <1>1, <1>5, <2>2
    <3> QED
      BY <2>1, <3>1, OneRow DEF b
  <2>3. CASE place = "json" /\ ActiveRows(rs) # {}
    <3>1. Record(rs, res) = ts(b)
      BY <1>1, <1>5, <2>3
    <3>2. ts(b) \in Seq(RowStates) /\ Follows(ts(b), a)
      BY <1>2, <1>3, <2>1
    <3>3. a # "none"
      BY <2>3 DEF Follows
    <3>4. Follows(ts(b), b)
      BY <1>5, <3>2, <3>3 DEF Follows
    <3> QED
      BY <3>1, <3>2, <3>4 DEF b
  <2>4. CASE place = "json" /\ ActiveRows(rs) = {}
    <3>1. Record(rs, res) = Append(rs, b)
      BY <1>1, <1>5, <2>4
    <3>2. Follows(rs, "none")
      BY <2>4 DEF Follows
    <3> QED
      BY <2>1, <3>1, <3>2, RowAdded DEF b
  <2> QED
    BY <2>2, <2>3, <2>4
<1>6. CASE b = "none" /\ t \in {"resolved", "removed"}
  <2>1. Record(rs, res) = ts("resolved")
    BY <1>1, <1>6
  <2>2. ts("resolved") \in Seq(RowStates) /\ Follows(ts("resolved"), "none")
    BY <1>2, <1>3
  <2> QED
    BY <1>6, <2>1, <2>2 DEF b
<1>7. CASE b = "none" /\ t \notin {"resolved", "removed"}
  <2>1. Record(rs, res) = rs
    BY <1>1, <1>7
  <2>2. a = b
    BY <1>3, <1>7 DEF Moves, Active
  <2> QED
    BY <2>1, <2>2 DEF b
<1> QED
  BY <1>5, <1>6, <1>7

\* To acknowledge an alert leaves its row active.
LEMMA AcknowledgedFollows ==
  ASSUME NEW rs \in Seq(RowStates), rs # << >>, NEW a, Follows(rs, a)
  PROVE  /\ Acknowledged(rs) \in Seq(RowStates) /\ Len(Acknowledged(rs)) = Len(rs)
         /\ Follows(Acknowledged(rs), a)
<1>1. CASE Head(rs) # "open"
  BY <1>1 DEF Acknowledged
<1>2. CASE Head(rs) = "open"
  <2> DEFINE one == << "acknowledged" >>  tail == Tail(rs)  ts == one \o tail
  <2>1. one \in Seq(RowStates) /\ Len(one) = 1 /\ one[1] = "acknowledged"
    BY DEF RowStates
  <2>2. /\ tail \in Seq(RowStates) /\ Len(tail) = Len(rs) - 1 /\ Len(rs) \in Nat
        /\ \A i \in 1 .. Len(tail) : tail[i] = rs[i + 1]
    BY HeadTailProperties, LenProperties
  <2>3. Head(rs) = rs[1]
    OBVIOUS
  <2> HIDE DEF one, tail
  <2>4. /\ ts \in Seq(RowStates) /\ Len(ts) = Len(one) + Len(tail)
        /\ \A i \in 1 .. Len(one) + Len(tail) :
             ts[i] = IF i <= Len(one) THEN one[i] ELSE tail[i - Len(one)]
    <3>1. one \in Seq(RowStates) /\ tail \in Seq(RowStates)
      BY <2>1, <2>2
    <3> QED
      BY <3>1, ConcatProperties, Zenon
  <2> HIDE DEF ts
  <2>5. Len(ts) = Len(rs)
    BY <2>1, <2>2, <2>4
  <2>6. \A i \in 1 .. Len(rs) : ts[i] \in Active <=> rs[i] \in Active
    <3> SUFFICES ASSUME NEW i \in 1 .. Len(rs) PROVE ts[i] \in Active <=> rs[i] \in Active
      OBVIOUS
    <3>1. CASE i = 1
      <4>1. ts[1] = "acknowledged" /\ rs[1] = "open"
        BY <1>2, <2>1, <2>2, <2>3, <2>4, <3>1
      <4> QED
        BY <3>1, <4>1 DEF Active
    <3>2. CASE i # 1
      <4>1. i - 1 \in 1 .. Len(tail) /\ i - 1 + 1 = i /\ ~ (i <= 1) /\ i \in 1 .. 1 + Len(tail)
        BY <2>2, <3>2
      <4>2. ts[i] = rs[i]
        BY <2>1, <2>2, <2>4, <4>1
      <4> QED
        BY <4>2
    <3> QED
      BY <3>1, <3>2
  <2>7. Acknowledged(rs) = ts
    BY <1>2 DEF Acknowledged, ts, one, tail
  <2> QED
    BY <2>4, <2>5, <2>6, <2>7, SameActive
<1> QED
  BY <1>1, <1>2

\* To remove a resolved row leaves the active one.
LEMMA PrunedFollows ==
  ASSUME NEW rs \in Seq(RowStates), rs # << >>, Head(rs) = "resolved", NEW a, Follows(rs, a)
  PROVE  /\ Tail(rs) \in Seq(RowStates) /\ Len(Tail(rs)) = Len(rs) - 1
         /\ Follows(Tail(rs), a)
<1> DEFINE ts == Tail(rs)
<1>1. /\ ts \in Seq(RowStates) /\ Len(ts) = Len(rs) - 1 /\ Len(rs) \in Nat \ {0}
      /\ \A i \in 1 .. Len(ts) : ts[i] = rs[i + 1]
  BY HeadTailProperties, EmptySeq
<1>2. rs[1] = "resolved"
  OBVIOUS
<1> HIDE DEF ts
<1>3. 1 \notin ActiveRows(rs)
  BY <1>1, <1>2, WhichAreActive DEF Active
<1>4. \A i \in 1 .. Len(ts) : i \in ActiveRows(ts) <=> i + 1 \in ActiveRows(rs)
  <2> SUFFICES ASSUME NEW i \in 1 .. Len(ts) PROVE i \in ActiveRows(ts) <=> i + 1 \in ActiveRows(rs)
    OBVIOUS
  <2>1. i + 1 \in 1 .. Len(rs)
    BY <1>1
  <2> QED
    BY <1>1, <2>1, WhichAreActive
<1>5. ActiveRows(ts) \in SUBSET (1 .. Len(ts)) /\ ActiveRows(rs) \in SUBSET (1 .. Len(rs))
  BY <1>1, WhichAreActive
<1>6. CASE a = "none"
  <2>1. ActiveRows(rs) = {}
    BY <1>6 DEF Follows
  <2>2. ActiveRows(ts) = {}
    BY <1>4, <1>5, <2>1
  <2> QED
    BY <1>1, <1>6, <2>2 DEF Follows, ts
<1>7. CASE a # "none"
  <2>1. PICK j \in 1 .. Len(rs) : ActiveRows(rs) = {j}
    BY <1>7 DEF Follows
  <2>2. j # 1
    BY <1>3, <2>1
  <2>3. j - 1 \in 1 .. Len(ts) /\ \A i \in 1 .. Len(ts) : i + 1 = j <=> i = j - 1
    BY <1>1, <2>2
  <2>4. ActiveRows(ts) = {j - 1}
    BY <1>4, <1>5, <2>1, <2>3
  <2> QED
    BY <1>1, <1>7, <2>3, <2>4 DEF Follows, ts
<1> QED
  BY <1>6, <1>7

-----------------------------------------------------------------------------
(* Alerts: the invariant *)

\* What the invariant says, in the words of the lemmas.
AlertParts(r, rs, x) ==
  /\ r \in AnyRule /\ Len(r.window) <= 5
  /\ rs \in Seq(RowStates) /\ Len(rs) <= MaxAlerts
  /\ x \in Seq(Admissible) /\ Len(x) <= 5
  /\ Follows(rs, r.alert)
  /\ Recent(r.window, x, Limits.window)
  /\ EndsAgainst(x, r.quiet) /\ (kind \notin QuietKinds => r.quiet = 0)
  /\ Lingering(x, r)

Turns == Observations \cup { "opened", "resolved", "acknowledge", "prune", "cleanup" }

\* A rule is any rule with a short window.
LEMMA RuleIsAny ==
  ASSUME NEW r
  PROVE  r \in Rule <=> r \in AnyRule /\ Len(r.window) <= 5
<1>1. ASSUME NEW w PROVE w \in SeqOf(Admissible, 5) <=> w \in Seq(Admissible) /\ Len(w) <= 5
  BY BoundedSequence
<1>2. ASSUME r \in Rule PROVE r \in AnyRule /\ Len(r.window) <= 5
  <2>1. r.window \in SeqOf(Admissible, 5)
    BY <1>2 DEF Rule
  <2>2. r.window \in Seq(Admissible) /\ Len(r.window) <= 5
    BY <1>1, <2>1
  <2>3. /\ r = [ window |-> r.window, quiet |-> r.quiet, cooldown |-> r.cooldown, alert |-> r.alert ]
        /\ r.quiet \in 0 .. 3 /\ r.cooldown \in 0 .. 2 /\ r.alert \in Alerts
    BY <1>2 DEF Rule, Alerts
  <2> QED
    BY <2>2, <2>3 DEF AnyRule
<1>3. ASSUME r \in AnyRule, Len(r.window) <= 5 PROVE r \in Rule
  <2>1. /\ r = [ window |-> r.window, quiet |-> r.quiet, cooldown |-> r.cooldown, alert |-> r.alert ]
        /\ r.quiet \in 0 .. 3 /\ r.cooldown \in 0 .. 2 /\ r.alert \in Alerts
        /\ r.window \in Seq(Admissible)
    BY <1>3 DEF AnyRule
  <2>2. r.window \in SeqOf(Admissible, 5)
    BY <1>1, <1>3, <2>1
  <2> QED
    BY <2>1, <2>2 DEF Rule, Alerts
<1> QED
  BY <1>2, <1>3

\* The invariant has its parts.
LEMMA InvHasParts ==
  ASSUME AlertInv
  PROVE  /\ kind \in AllKinds /\ place \in {"json", "postgres"} /\ turn \in Turns
         /\ AlertParts(rule, rows, seen)
<1>1. kind \in AllKinds /\ place \in {"json", "postgres"} /\ turn \in Turns /\ MaxAlerts \in Nat
  BY AlertAssumption DEF AlertInv, AlertTypeOK, Turns
<1>2. rule \in AnyRule /\ Len(rule.window) <= 5
  BY RuleIsAny DEF AlertInv, AlertTypeOK
<1>3. rows \in Seq(RowStates) /\ Len(rows) <= MaxAlerts
  BY <1>1, BoundedSequence DEF AlertInv, AlertTypeOK, RowStates
<1>4. seen \in Seq(Admissible) /\ Len(seen) <= 5
  BY BoundedSequence DEF AlertInv, AlertTypeOK
<1>5. Follows(rows, rule.alert)
  BY <1>3, CountOfActive DEF AlertInv, RowsFollowTheRule
<1> QED
  BY <1>1, <1>2, <1>3, <1>4, <1>5
  DEF AlertParts, AlertInv, WindowIsRecent, QuietIsRecent, Lingers

\* A step that leads to the parts, for reasons, leads to the invariant.
LEMMA PartsMakeInv ==
  ASSUME place \in Stores, kind \in Kinds, place' = place, kind' = kind,
         turn' \in Turns, AlertParts(rule', rows', seen'),
         turn' = "opened" => Count(rule'.window, {"positive"}) >= Limits.open,
         turn' = "resolved" => Count(seen', Against) >= Limits.clear
  PROVE  AlertInv'
<1>1. kind \in AllKinds /\ MaxAlerts \in Nat
  BY AlertAssumption
<1>2. Limits' = Limits /\ Feeds' = Feeds /\ (kind' \in QuietKinds <=> kind \in QuietKinds)
  BY DEF Limits, Feeds
<1>3. Clearable' <=> Clearable
  BY <1>2 DEF Clearable
<1>4. AlertTypeOK'
  <2>1. rule' \in Rule
    BY RuleIsAny DEF AlertParts
  <2>2. rows' \in SeqOf(RowStates, MaxAlerts)
    BY <1>1, BoundedSequence DEF AlertParts
  <2>3. seen' \in SeqOf(Admissible, 5)
    BY BoundedSequence DEF AlertParts
  <2> QED
    BY <2>1, <2>2, <2>3 DEF AlertTypeOK, RowStates, Turns
<1>5. RowsFollowTheRule'
  <2>1. rows' \in Seq(RowStates) /\ Follows(rows', rule'.alert)
    BY DEF AlertParts
  <2>2. Cardinality(ActiveRows(rows')) = IF rule'.alert = "none" THEN 0 ELSE 1
    BY <2>1, CountOfActive
  <2> QED
    BY <2>2 DEF RowsFollowTheRule
<1>6. WindowIsRecent'
  BY <1>2 DEF AlertParts, WindowIsRecent
<1>7. OpensOnEvidence'
  <2> SUFFICES ASSUME turn' = "opened"
               PROVE  LET n == IF Len(seen') < Limits.window THEN Len(seen') ELSE Limits.window
                      IN Count(SubSeq(seen', Len(seen') - n + 1, Len(seen')), {"positive"})
                           >= Limits.open
    BY <1>2 DEF OpensOnEvidence
  <2> DEFINE n == IF Len(seen') < Limits.window THEN Len(seen') ELSE Limits.window
             w == rule'.window  x == seen'
  <2>1. w \in Seq(Admissible) /\ x \in Seq(Admissible) /\ Recent(w, x, Limits.window)
    BY DEF AlertParts, AnyRule
  <2>2. Limits.window \in 1 .. 5
    BY <1>1, LimitsAre
  <2>3. n = Len(w)
    BY <2>1 DEF Recent
  <2> HIDE DEF n, w, x
  <2>4. SubSeq(x, Len(x) - Len(w) + 1, Len(x)) = w
    BY <2>1, <2>2, EndIsTheWindow
  <2>5. Count(SubSeq(x, Len(x) - n + 1, Len(x)), {"positive"}) >= Limits.open
    BY <2>3, <2>4 DEF w
  <2> QED
    BY <2>5 DEF n, x
<1>8. ClearsOnEvidence'
  BY <1>2 DEF ClearsOnEvidence
<1>9. QuietIsRecent'
  BY <1>2 DEF AlertParts, QuietIsRecent
<1>10. Lingers'
  <2>1. Lingering(seen', rule')
    BY DEF AlertParts
  <2> QED
    BY <1>2, <1>3, <2>1 DEF Lingers, Lingering
<1> QED
  BY <1>4, <1>5, <1>6, <1>7, <1>8, <1>9, <1>10 DEF AlertInv

\* A rule with no window, quiet run or alert.
LEMMA NewRuleIs ==
  /\ NewRule \in AnyRule /\ NewRule.window = << >> /\ NewRule.quiet = 0 /\ NewRule.alert = "none"
BY DEF NewRule, AnyRule, Alerts

\* The beginning, and a clean-up.
LEMMA NothingSeen ==
  ASSUME kind \in AllKinds
  PROVE  AlertParts(NewRule, << >>, << >>)
<1>1. \A S : << >> \in Seq(S)
  BY EmptySeq
<1>2. Len(<< >>) = 0 /\ MaxAlerts \in Nat
  BY AlertAssumption
<1>3. Follows(<< >>, "none")
  BY DEF Follows, ActiveRows
<1>4. Recent(<< >>, << >>, Limits.window)
  BY <1>2, LimitsAre DEF Recent
<1>5. EndsAgainst(<< >>, 0)
  BY <1>2 DEF EndsAgainst
<1>6. Lingering(<< >>, NewRule)
  BY NewRuleIs DEF Lingering
<1> QED
  BY <1>1, <1>2, <1>3, <1>4, <1>5, <1>6, NewRuleIs DEF AlertParts

\* The initial states satisfy the invariant.
LEMMA AInitInv == AInit => AlertInv
<1> SUFFICES ASSUME AInit PROVE AlertInv
  OBVIOUS
<1>1. /\ kind \in AllKinds /\ place \in Stores /\ kind \in Kinds /\ MaxAlerts \in Nat
      /\ rule = NewRule /\ rows = << >> /\ seen = << >> /\ turn = "cleanup"
  BY AlertAssumption DEF AInit
<1>2. AlertParts(rule, rows, seen)
  BY <1>1, NothingSeen
<1>3. AlertTypeOK
  <2>1. rule \in Rule
    BY <1>2, RuleIsAny DEF AlertParts
  <2>2. rows \in SeqOf(RowStates, MaxAlerts) /\ seen \in SeqOf(Admissible, 5)
    BY <1>1, <1>2, BoundedSequence DEF AlertParts
  <2> QED
    BY <1>1, <2>1, <2>2 DEF AlertTypeOK, RowStates
<1>4. RowsFollowTheRule
  BY <1>2, CountOfActive DEF AlertParts, RowsFollowTheRule
<1>5. OpensOnEvidence /\ ClearsOnEvidence
  BY <1>1 DEF OpensOnEvidence, ClearsOnEvidence
<1> QED
  BY <1>2, <1>3, <1>4, <1>5 DEF AlertParts, AlertInv, WindowIsRecent, QuietIsRecent, Lingers

\* An acknowledgement changes rows, and no rule.
LEMMA AcknowledgeKeeps ==
  ASSUME AlertInv, AcknowledgeAlert
  PROVE  AlertInv'
<1>1. AlertParts(rule, rows, seen)
  BY InvHasParts
<1>2. /\ rows # << >> /\ rows' = Acknowledged(rows) /\ turn' = "acknowledge"
      /\ rule' = rule /\ seen' = seen /\ place' = place /\ kind' = kind
  BY DEF AcknowledgeAlert
<1>3. /\ rows' \in Seq(RowStates) /\ Len(rows') <= MaxAlerts /\ Follows(rows', rule.alert)
  BY <1>1, <1>2, AcknowledgedFollows DEF AlertParts
<1>4. AlertParts(rule', rows', seen')
  BY <1>1, <1>2, <1>3 DEF AlertParts
<1>5. place \in Stores /\ kind \in Kinds /\ turn' \in Turns /\ turn' # "opened" /\ turn' # "resolved"
  BY <1>2 DEF AlertInv, AlertTypeOK, Turns
<1> QED
  BY <1>2, <1>4, <1>5, PartsMakeInv

\* Maintenance removes a row that is not active.
LEMMA PruneAlertsKeeps ==
  ASSUME AlertInv, PruneAlerts
  PROVE  AlertInv'
<1>1. AlertParts(rule, rows, seen)
  BY InvHasParts
<1>2. /\ rows # << >> /\ Head(rows) = "resolved" /\ rows' = Tail(rows) /\ turn' = "prune"
      /\ rule' = rule /\ seen' = seen /\ place' = place /\ kind' = kind
  BY DEF PruneAlerts
<1>3. rows' \in Seq(RowStates) /\ Len(rows') = Len(rows) - 1 /\ Follows(rows', rule.alert)
  BY <1>1, <1>2, PrunedFollows DEF AlertParts
<1>4. Len(rows') <= MaxAlerts
  <2>1. Len(rows) \in Nat /\ MaxAlerts \in Nat /\ Len(rows) <= MaxAlerts
    BY <1>1, LenProperties, AlertAssumption DEF AlertParts
  <2> QED
    BY <1>3, <2>1
<1>5. AlertParts(rule', rows', seen')
  BY <1>1, <1>2, <1>3, <1>4 DEF AlertParts
<1>6. place \in Stores /\ kind \in Kinds /\ turn' \in Turns /\ turn' # "opened" /\ turn' # "resolved"
  BY <1>2 DEF AlertInv, AlertTypeOK, Turns
<1> QED
  BY <1>2, <1>5, <1>6, PartsMakeInv

\* Nothing is left by a clean-up.
LEMMA CleanupAlertsKeeps ==
  ASSUME AlertInv, CleanupAlerts
  PROVE  AlertInv'
<1>1. kind \in AllKinds
  BY InvHasParts
<1>2. /\ rule' = NewRule /\ rows' = << >> /\ seen' = << >> /\ turn' = "cleanup"
      /\ place' = place /\ kind' = kind
  BY DEF CleanupAlerts
<1>3. AlertParts(rule', rows', seen')
  BY <1>1, <1>2, NothingSeen
<1>4. place \in Stores /\ kind \in Kinds /\ turn' \in Turns /\ turn' # "opened" /\ turn' # "resolved"
  BY <1>2 DEF AlertInv, AlertTypeOK, Turns
<1> QED
  BY <1>2, <1>3, <1>4, PartsMakeInv

\* An observation that is none, frozen or of a removal, ends an alert or leaves it.
LEMMA NoEvidenceKeeps ==
  ASSUME AlertInv, Observe, NEW o \in Feeds \ Admissible,
         LET result == Evaluate(rule, o)
         IN /\ Len(Record(rows, result)) <= MaxAlerts
            /\ rule' = result.rule /\ rows' = Record(rows, result) /\ seen' = Remember(seen, o)
            /\ turn' = IF result.transition = "none" THEN o ELSE result.transition
  PROVE  AlertInv'
<1> DEFINE res == Evaluate(rule, o)
<1>1. /\ kind \in AllKinds /\ AlertParts(rule, rows, seen)
      /\ place \in Stores /\ kind \in Kinds /\ place' = place /\ kind' = kind
  BY InvHasParts DEF AlertInv, AlertTypeOK, Observe
<1>2. o \in {"frozen", "removed"}
  BY <1>1, FeedsAre DEF Observations
<1>3. seen' = seen
  BY DEF Remember
<1>4. \/ res.rule = rule /\ res.transition = "none"
      \/ /\ res.transition = "removed" /\ rule.alert # "none"
         /\ res.rule \in AnyRule /\ res.rule.window = rule.window
         /\ res.rule.quiet = 0 /\ res.rule.alert = "none"
  <2>1. rule \in AnyRule
    BY <1>1 DEF AlertParts
  <2>2. CASE o = "frozen" \/ rule.alert = "none"
    <3>1. res = Result(rule, "none")
      <4>1. CASE o = "frozen"
        BY <4>1 DEF Evaluate, Admissible
      <4>2. CASE o = "removed" /\ rule.alert = "none"
        BY <4>2 DEF Evaluate, Admissible, Removed
      <4> QED
        BY <1>2, <2>2, <4>1, <4>2
    <3> QED
      BY <3>1 DEF Result
  <2>3. CASE o = "removed" /\ rule.alert # "none"
    <3> DEFINE one == [rule EXCEPT !.quiet = 0]  two == [one EXCEPT !.cooldown = 0]
               three == [two EXCEPT !.alert = "none"]
    <3>0. 0 \in 0 .. 3 /\ 0 \in 0 .. 2 /\ "none" \in Alerts
      BY DEF Alerts
    <3>1. Is(one, rule.window, 0, rule.cooldown, rule.alert)
      BY <2>1, <3>0, OwnFields, QuietChanged
    <3>2. res = Result(three, "removed")
      BY <2>3 DEF Evaluate, Admissible, Removed
    <3> HIDE DEF one, res
    <3>3. Is(two, rule.window, 0, 0, rule.alert)
      BY <3>0, <3>1, CooldownChanged
    <3> HIDE DEF two
    <3>4. Is(three, rule.window, 0, 0, "none")
      BY <3>0, <3>3, AlertChanged
    <3>5. res.rule = three /\ res.transition = "removed"
      BY <3>2 DEF Result
    <3> HIDE DEF three
    <3> QED
      BY <2>3, <3>4, <3>5 DEF Is, res
  <2> QED
    BY <1>2, <2>2, <2>3
<1>5. /\ rule' = res.rule /\ rows' = Record(rows, res) /\ Len(rows') <= MaxAlerts
      /\ turn' = IF res.transition = "none" THEN o ELSE res.transition
  OBVIOUS
<1> HIDE DEF res
<1>6. rule.alert \in Alerts /\ res.rule.alert \in Alerts /\ Moves(rule.alert, res.transition, res.rule.alert)
  BY <1>1, <1>4 DEF AlertParts, AnyRule, Alerts, Moves
<1>7. rows' \in Seq(RowStates) /\ Follows(rows', rule'.alert)
  BY <1>1, <1>5, <1>6, RecordFollows DEF AlertParts
<1>8. /\ rule' \in AnyRule /\ Len(rule'.window) <= 5
      /\ Recent(rule'.window, seen, Limits.window) /\ EndsAgainst(seen, rule'.quiet)
      /\ kind \notin QuietKinds => rule'.quiet = 0
      /\ Lingering(seen, rule')
  <2>1. CASE rule' = rule
    BY <1>1, <2>1 DEF AlertParts
  <2>2. CASE rule' # rule
    <3>1. /\ rule' \in AnyRule /\ rule'.window = rule.window
          /\ rule'.quiet = 0 /\ rule'.alert = "none"
      BY <1>4, <1>5, <2>2
    <3>2. EndsAgainst(seen, 0)
      <4>1. Len(seen) \in Nat
        BY <1>1, LenProperties DEF AlertParts
      <4> QED
        BY <4>1 DEF EndsAgainst
    <3> QED
      BY <1>1, <3>1, <3>2 DEF AlertParts, Lingering
  <2> QED
    BY <2>1, <2>2
<1>9. AlertParts(rule', rows', seen')
  BY <1>1, <1>3, <1>5, <1>7, <1>8 DEF AlertParts
<1>10. turn' \in Turns /\ turn' # "opened" /\ turn' # "resolved"
  BY <1>2, <1>4, <1>5 DEF Turns, Observations
<1> QED
  BY <1>1, <1>9, <1>10, PartsMakeInv

\* Evidence opens the alert, resolves it or leaves it, and each for its reasons.
LEMMA EvidenceKeeps ==
  ASSUME AlertInv, Observe, NEW s \in Feeds \cap Admissible,
         LET result == Evaluate(rule, s)
         IN /\ Len(Record(rows, result)) <= MaxAlerts
            /\ rule' = result.rule /\ rows' = Record(rows, result) /\ seen' = Remember(seen, s)
            /\ turn' = IF result.transition = "none" THEN s ELSE result.transition
  PROVE  AlertInv'
<1> DEFINE res == Evaluate(rule, s)  w == Slide(rule.window, s)
<1>1. /\ kind \in AllKinds /\ AlertParts(rule, rows, seen)
      /\ place \in Stores /\ kind \in Kinds /\ place' = place /\ kind' = kind
  BY InvHasParts DEF AlertInv, AlertTypeOK, Observe
<1>2. /\ rule' = res.rule /\ rows' = Record(rows, res) /\ Len(rows') <= MaxAlerts
      /\ turn' = IF res.transition = "none" THEN s ELSE res.transition
      /\ seen' = Remember(seen, s)
  OBVIOUS
<1>3. Limits.window \in 1 .. 5
  BY <1>1, LimitsAre
<1>4. /\ rule \in AnyRule /\ seen \in Seq(Admissible) /\ Len(seen) <= 5
      /\ rule.window \in Seq(Admissible) /\ rule.quiet \in 0 .. 3 /\ rule.alert \in Alerts
      /\ Recent(rule.window, seen, Limits.window) /\ EndsAgainst(seen, rule.quiet)
      /\ Follows(rows, rule.alert) /\ rows \in Seq(RowStates) /\ Lingering(seen, rule)
      /\ kind \notin QuietKinds => rule.quiet = 0
  BY <1>1 DEF AlertParts, AnyRule
<1>5. Len(rule.window) <= Limits.window
  <2> DEFINE a == Len(rule.window)  b == Len(seen)  n == Limits.window
  <2>1. a = (IF b < n THEN b ELSE n) /\ b \in Nat /\ n \in 1 .. 5
    BY <1>3, <1>4, LenProperties DEF Recent
  <2> HIDE DEF a, b, n
  <2>2. a <= n
    BY <2>1
  <2> QED
    BY <2>2 DEF a, n
<1>6. Pushed(rule.window, s, Limits.window, w) /\ Judged(rule, s, w, res)
  BY <1>1, <1>4, <1>5, EvidenceJudges
<1>7. Pushed(seen, s, 5, seen')
  BY <1>2, <1>4, SeenSlides
<1> HIDE DEF res, w
<1>8. w \in Seq(Admissible) /\ seen' \in Seq(Admissible) /\ Len(seen') <= 5
  <2>1. w \in Seq(Admissible) /\ seen' \in Seq(Admissible)
    BY <1>6, <1>7 DEF Pushed
  <2>2. Len(seen') = IF Len(seen) < 5 THEN Len(seen) + 1 ELSE 5
    BY <1>7 DEF Pushed
  <2>3. Len(seen) \in Nat
    BY <1>4, LenProperties
  <2>4. Len(seen') <= 5
    BY <2>2, <2>3
  <2> QED
    BY <2>1, <2>4
<1>9. Recent(w, seen', Limits.window)
  BY <1>3, <1>4, <1>6, <1>7, RecentKept
<1>10. /\ res.rule \in AnyRule /\ res.rule.window = w
       /\ kind \in QuietKinds => res.rule.quiet \in {0, Quieter(rule.quiet, s)}
       /\ kind \notin QuietKinds => res.rule.quiet \in {0, rule.quiet}
       /\ Opens(rule, s, w, res) \/ Resolves(rule, s, w, res) \/ Stays(rule, s, w, res)
  BY <1>6 DEF Judged
<1>11. Len(res.rule.window) <= 5
  <2> DEFINE a == Len(w)  b == Len(seen')  n == Limits.window
  <2>1. a = (IF b < n THEN b ELSE n) /\ b \in Nat /\ n \in 1 .. 5
    BY <1>3, <1>8, <1>9, LenProperties DEF Recent
  <2> HIDE DEF a, b, n
  <2>2. a <= 5
    BY <2>1
  <2> QED
    BY <1>10, <2>2 DEF a
<1>12. /\ EndsAgainst(seen', res.rule.quiet)
       /\ kind \notin QuietKinds => res.rule.quiet = 0
  <2>1. EndsAgainst(seen', 0)
    <3>1. Len(seen') \in Nat
      BY <1>8, LenProperties
    <3> QED
      BY <3>1 DEF EndsAgainst
  <2>2. CASE kind \notin QuietKinds
    BY <1>4, <1>10, <2>1, <2>2
  <2>3. CASE kind \in QuietKinds
    <3>1. s # "neutral"
      BY <1>1, <2>3, FeedsAre
    <3>2. EndsAgainst(seen', Quieter(rule.quiet, s))
      BY <1>4, <1>7, <3>1, QuietKept
    <3> QED
      BY <1>10, <2>1, <2>3, <3>2
  <2> QED
    BY <2>2, <2>3
<1>13. Lingering(seen', res.rule)
  BY <1>1, <1>4, <1>6, <1>7, <1>8, <1>9, LingersOn
<1>14. Moves(rule.alert, res.transition, res.rule.alert) /\ res.rule.alert \in Alerts
  BY <1>10 DEF Moves, Opens, Resolves, Stays, Active, AnyRule
<1>15. rows' \in Seq(RowStates) /\ Follows(rows', res.rule.alert)
  BY <1>2, <1>4, <1>14, RecordFollows
<1>16. AlertParts(rule', rows', seen')
  BY <1>2, <1>8, <1>9, <1>10, <1>11, <1>12, <1>13, <1>15 DEF AlertParts
<1>17. s \in Turns /\ s # "opened" /\ s # "resolved"
  BY DEF Turns, Observations, Admissible
<1>18. turn' \in Turns
  BY <1>2, <1>10, <1>17 DEF Turns, Opens, Resolves, Stays
<1>19. turn' = "opened" => Count(rule'.window, {"positive"}) >= Limits.open
  BY <1>2, <1>10, <1>17 DEF Opens, Resolves, Stays
<1>20. turn' = "resolved" => Count(seen', Against) >= Limits.clear
  <2>1. turn' = "resolved" => Resolves(rule, s, w, res)
    BY <1>2, <1>10, <1>17 DEF Opens, Stays
  <2> QED
    BY <1>1, <1>4, <1>7, <1>8, <1>9, <2>1, ResolvedOnEvidence
<1> QED
  BY <1>1, <1>16, <1>18, <1>19, <1>20, PartsMakeInv

\* An observation is of evidence or of none.
LEMMA ObserveKeeps ==
  ASSUME AlertInv, Observe
  PROVE  AlertInv'
<1>1. PICK o \in Feeds :
        LET result == Evaluate(rule, o)
        IN /\ Len(Record(rows, result)) <= MaxAlerts
           /\ rule' = result.rule /\ rows' = Record(rows, result) /\ seen' = Remember(seen, o)
           /\ turn' = IF result.transition = "none" THEN o ELSE result.transition
  BY DEF Observe
<1>2. CASE o \in Admissible
  <2>1. o \in Feeds \cap Admissible
    BY <1>2
  <2> QED
    BY <1>1, <2>1, EvidenceKeeps
<1>3. CASE o \notin Admissible
  <2>1. o \in Feeds \ Admissible
    BY <1>3
  <2> QED
    BY <1>1, <2>1, NoEvidenceKeeps
<1> QED
  BY <1>2, <1>3

\* The invariant is inductive.
LEMMA ANextInv == AlertInv /\ [ANext]_avars => AlertInv'
<1> SUFFICES ASSUME AlertInv, [ANext]_avars PROVE AlertInv'
  OBVIOUS
<1>1. CASE Observe
  BY <1>1, ObserveKeeps
<1>2. CASE AcknowledgeAlert
  BY <1>2, AcknowledgeKeeps
<1>3. CASE PruneAlerts
  BY <1>3, PruneAlertsKeeps
<1>4. CASE CleanupAlerts
  BY <1>4, CleanupAlertsKeeps
<1>5. CASE UNCHANGED avars
  BY <1>5 DEF avars, AlertInv, AlertTypeOK, RowsFollowTheRule, OpensOnEvidence, ClearsOnEvidence,
              WindowIsRecent, QuietIsRecent, Lingers, Lingering, Clearable, Feeds, Limits
<1> QED
  BY <1>1, <1>2, <1>3, <1>4, <1>5 DEF ANext

\* Five observations against the condition are an end against it.
LEMMA FiveAgainst ==
  ASSUME NEW x \in Seq(Admissible), Len(x) = 5, Count(x, {"negative"}) = 5, NEW k \in 1 .. 5
  PROVE  Trails(x, k)
<1> DEFINE A == { i \in DOMAIN x : x[i] \in {"negative"} }
<1>1. DOMAIN x = 1 .. 5
  BY LenProperties
<1>2. Cardinality(A) = 5 /\ A \in SUBSET (1 .. 5)
  BY <1>1 DEF Count
<1>3. IsFiniteSet(1 .. 5) /\ Cardinality(1 .. 5) = 5
  <2>1. 1 \in Int /\ 5 \in Int /\ (IF 1 > 5 THEN 0 ELSE 5 - 1 + 1) = 5
    OBVIOUS
  <2> QED
    BY <2>1, FS_Interval
<1>4. A = 1 .. 5
  <2> HIDE DEF A
  <2> QED
    BY <1>2, <1>3, FS_Subset
<1>5. \A i \in 1 .. 5 : x[i] = "negative"
  BY <1>4
<1>6. \A i \in 5 - k + 1 .. 5 : i \in 1 .. 5
  OBVIOUS
<1> QED
  BY <1>5, <1>6 DEF Trails

\* An alert that lingers has not seen five observations against its condition.
LEMMA LingersEnough == AlertInv => GoneIsResolved
<1> SUFFICES ASSUME AlertInv, Clearable, Len(seen) = 5, Count(seen, {"negative"}) = 5,
                    rule.alert # "none"
             PROVE  FALSE
  BY DEF GoneIsResolved
<1>1. kind \in AllKinds /\ seen \in Seq(Admissible) /\ Lingering(seen, rule)
  BY InvHasParts DEF AlertParts
<1>2. Limits.clear \in 2 .. 3
  BY <1>1, LimitsAre
<1>3. Limits.clear \in 1 .. 5 /\ 4 \in 1 .. 5
  BY <1>2
<1>4. Trails(seen, 4) /\ Trails(seen, Limits.clear)
  BY <1>1, <1>3, FiveAgainst
<1> QED
  BY <1>1, <1>4 DEF Lingering

\* Whatever order evidence, removals, acknowledgements, maintenance and clean-ups
\* come in, for every kind of rule and in either repository, an alert opens and
\* clears on the evidence its rule asks for, does not outlive five observations
\* against it where it can be cleared, and has one active row as long as it lasts.
THEOREM AlertsStayTrue == ASpec => []AlertsFollowTheRule
<1>1. AlertInv => AlertsFollowTheRule
  BY LingersEnough DEF AlertInv, AlertsFollowTheRule
<1> QED
  BY <1>1, AInitInv, ANextInv, PTL DEF ASpec

-----------------------------------------------------------------------------
(* The order of the rows *)

\* The bounds on the rows are numbers.
LEMMA RowBounds ==
  /\ MaxTime \in Nat \ {0} /\ MaxId \in Nat \ {0} /\ Cap \in Nat \ {0} /\ PageSize \in Nat \ {0}
  /\ \A r \in Row : r.at \in Nat /\ r.id \in Nat
<1>1. {MaxTime, MaxId, Cap, PageSize} \subseteq Nat \ {0}
  BY HistoryAssumption
<1> QED
  BY <1>1 DEF Row

\* Of two rows one is the newer, and what is newer than a newer row is newer.
LEMMA NewerOrders ==
  ASSUME NEW a \in Row, NEW b \in Row, NEW c \in Row
  PROVE  /\ ~ Newer(a, a)
         /\ Newer(a, b) => ~ Newer(b, a)
         /\ Newer(a, b) /\ Newer(b, c) => Newer(a, c)
         /\ a = b \/ Newer(a, b) \/ Newer(b, a)
<1>1. /\ a.at \in Nat /\ a.id \in Nat /\ b.at \in Nat /\ b.id \in Nat
      /\ c.at \in Nat /\ c.id \in Nat
  BY RowBounds
<1>2. a.at = b.at /\ a.id = b.id => a = b
  BY DEF Row
<1> QED
  BY <1>1, <1>2 DEF Newer

\* A sequence of rows in order, and the rows of a set in order.
Descends(s) == \A i, j \in DOMAIN s : i < j => Newer(s[i], s[j])

Orders(s, S) ==
  s \in Seq(Row) /\ Descends(s) /\ ToSet(s) = S /\ Len(s) = Cardinality(S)

\* The rows of a sequence are finitely many.
LEMMA RowsAreFinite ==
  ASSUME NEW s \in Seq(Row)
  PROVE  IsFiniteSet(ToSet(s)) /\ ToSet(s) \subseteq Row
<1>1. Len(s) \in Nat /\ s \in [1 .. Len(s) -> Row] /\ DOMAIN s = 1 .. Len(s)
  BY LenProperties
<1>2. ToSet(s) = { s[i] : i \in 1 .. Len(s) }
  BY <1>1 DEF ToSet
<1>3. s \in Surjection(1 .. Len(s), ToSet(s))
  BY <1>1, <1>2 DEF Surjection
<1>4. IsFiniteSet(1 .. Len(s))
  BY <1>1, FS_Interval
<1>5. IsFiniteSet(ToSet(s))
  BY <1>3, <1>4, FS_Surjection
<1> QED
  BY <1>1, <1>2, <1>5

\* How many rows of a set are newer than one of them tells its place.
LEMMA RanksAreAPlace ==
  ASSUME NEW S, S \subseteq Row, IsFiniteSet(S),
         NEW rank, rank = [r \in S |-> Cardinality({ q \in S : Newer(q, r) })]
  PROVE  /\ \A a, b \in S : Newer(a, b) => rank[a] < rank[b]
         /\ rank \in Injection(S, 0 .. Cardinality(S) - 1)
<1> DEFINE Above(r) == { q \in S : Newer(q, r) }
<1>1. Cardinality(S) \in Nat
  BY FS_CardinalityType
<1>2. \A r \in S : IsFiniteSet(Above(r)) /\ Cardinality(Above(r)) \in Nat
  BY FS_Subset, FS_CardinalityType
<1>3. ASSUME NEW r \in S PROVE Cardinality(Above(r)) <= Cardinality(S) - 1
  <2>1. Above(r) \in SUBSET (S \ {r})
    BY NewerOrders
  <2>2. IsFiniteSet(S \ {r}) /\ Cardinality(S \ {r}) = Cardinality(S) - 1
    BY FS_RemoveElement
  <2> QED
    BY <2>1, <2>2, FS_Subset
<1>4. ASSUME NEW a \in S, NEW b \in S, Newer(a, b)
      PROVE  Cardinality(Above(a)) < Cardinality(Above(b))
  <2>1. Above(a) \in SUBSET Above(b)
    BY <1>4, NewerOrders
  <2>2. a \in Above(b) /\ a \notin Above(a)
    BY <1>4, NewerOrders
  <2>3. /\ Cardinality(Above(a)) <= Cardinality(Above(b))
        /\ Cardinality(Above(b)) = Cardinality(Above(a)) => Above(b) = Above(a)
    BY <1>2, <2>1, FS_Subset
  <2> QED
    BY <1>2, <2>2, <2>3
<1>5. \A r \in S : rank[r] = Cardinality(Above(r))
  OBVIOUS
<1> HIDE DEF Above
<1>6. \A a, b \in S : Newer(a, b) => rank[a] < rank[b]
  BY <1>4, <1>5
<1>7. rank \in [S -> 0 .. Cardinality(S) - 1]
  <2>1. \A r \in S : rank[r] \in 0 .. Cardinality(S) - 1
    BY <1>1, <1>2, <1>3, <1>5
  <2> QED
    BY <2>1
<1>8. ASSUME NEW a \in S, NEW b \in S, rank[a] = rank[b] PROVE a = b
  <2>1. rank[a] \in Nat /\ rank[b] \in Nat
    BY <1>2, <1>5
  <2>2. ~ Newer(a, b) /\ ~ Newer(b, a)
    BY <1>6, <1>8, <2>1
  <2> QED
    BY <2>2, NewerOrders
<1> QED
  BY <1>6, <1>7, <1>8 DEF Injection, IsInjective

\* NewestFirst puts the rows of a set in order.
LEMMA NewestFirstOrders ==
  ASSUME NEW S, S \subseteq Row, IsFiniteSet(S)
  PROVE  Orders(NewestFirst(S), S)
<1> DEFINE rank == [r \in S |-> Cardinality({ q \in S : Newer(q, r) })]
           n == Cardinality(S)
           At(i) == CHOOSE r \in S : Cardinality({ q \in S : Newer(q, r) }) = i - 1
           s == [i \in 1 .. n |-> At(i)]
<1>1. n \in Nat
  BY FS_CardinalityType
<1>2. NewestFirst(S) = s
  BY DEF NewestFirst
<1>3. /\ \A a, b \in S : Newer(a, b) => rank[a] < rank[b]
      /\ rank \in Injection(S, 0 .. n - 1)
  BY RanksAreAPlace
<1>3a. \A r \in S : Cardinality({ q \in S : Newer(q, r) }) = rank[r]
  OBVIOUS
<1> HIDE DEF rank
<1>4. \A r \in S : rank[r] \in 0 .. n - 1
  BY <1>3 DEF Injection
<1>5. rank \in Surjection(S, 0 .. n - 1)
  <2>1. ASSUME NEW m \in Nat PROVE IsFiniteSet(0 .. m - 1) /\ Cardinality(0 .. m - 1) = m
    <3>1. m - 1 \in Int /\ (0 > m - 1 <=> m = 0) /\ (m - 1) - 0 + 1 = m
      OBVIOUS
    <3> QED
      BY <3>1, FS_Interval
  <2> QED
    BY <1>1, <1>3, <2>1, FS_Injection
<1>6. ASSUME NEW i \in 1 .. n PROVE At(i) \in S /\ rank[At(i)] = i - 1
  <2>1. i - 1 \in 0 .. n - 1
    BY <1>1
  <2>2. \E r \in S : rank[r] = i - 1
    BY <1>5, <2>1 DEF Surjection
  <2>3. \E r \in S : Cardinality({ q \in S : Newer(q, r) }) = i - 1
    BY <1>3a, <2>2
  <2>4. At(i) \in S /\ Cardinality({ q \in S : Newer(q, At(i)) }) = i - 1
    BY <2>3
  <2> QED
    BY <1>3a, <2>4
<1> HIDE DEF At, n
<1>7. s \in Seq(Row)
  BY <1>1, <1>6, IsASeq
<1>8. Len(s) = n /\ DOMAIN s = 1 .. n
  <2>1. DOMAIN s = 1 .. n /\ s \in [1 .. n -> Row]
    BY <1>6
  <2> QED
    BY <1>1, <1>7, <2>1, LenProperties
<1>9. ToSet(s) = S
  <2>1. ASSUME NEW r \in S PROVE r \in ToSet(s)
    <3>1. rank[r] + 1 \in 1 .. n
      BY <1>1, <1>4
    <3>2. rank[At(rank[r] + 1)] = rank[r] /\ At(rank[r] + 1) \in S
      BY <1>4, <1>6, <3>1
    <3>3. At(rank[r] + 1) = r
      BY <1>3, <3>2 DEF Injection, IsInjective
    <3> QED
      BY <1>8, <3>1, <3>3 DEF ToSet
  <2>2. ASSUME NEW r \in ToSet(s) PROVE r \in S
    BY <1>6, <1>8 DEF ToSet
  <2> QED
    BY <2>1, <2>2
<1>10. Descends(s)
  <2>1. ASSUME NEW i \in 1 .. n, NEW j \in 1 .. n, i < j PROVE Newer(At(i), At(j))
    <3>1. rank[At(i)] = i - 1 /\ rank[At(j)] = j - 1 /\ At(i) \in S /\ At(j) \in S
      BY <1>6
    <3>2. i - 1 < j - 1 /\ ~ (j - 1 < i - 1) /\ i - 1 # j - 1
      BY <1>1, <2>1
    <3>3. At(i) # At(j) /\ ~ Newer(At(j), At(i))
      BY <1>3, <3>1, <3>2
    <3> QED
      BY <3>1, <3>3, NewerOrders
  <2> QED
    BY <1>8, <2>1 DEF Descends
<1> QED
  BY <1>2, <1>7, <1>8, <1>9, <1>10 DEF Orders, n

\* The first rows of a sequence in order: none of the rest is as new.
LEMMA FirstIs ==
  ASSUME NEW s \in Seq(Row), Descends(s), NEW n \in Nat \ {0}
  PROVE  /\ First(n, s) \in Seq(Row) /\ Descends(First(n, s))
         /\ Len(First(n, s)) = Least(n, Len(s)) /\ Len(First(n, s)) <= n
         /\ Len(s) > n => Len(First(n, s)) = n
         /\ ToSet(First(n, s)) \subseteq ToSet(s)
         /\ Len(s) <= n => ToSet(First(n, s)) = ToSet(s)
         /\ \A a \in ToSet(First(n, s)), r \in ToSet(s) \ ToSet(First(n, s)) : Newer(a, r)
<1> DEFINE l == Len(s)
           k == Least(n, l)
           f == SubSeq(s, 1, k)
<1>1. l \in Nat
  BY LenProperties
<1>2. DOMAIN s = 1 .. l
  BY LenProperties
<1>3. \A i \in 1 .. l : s[i] \in Row
  BY ElementOfSeq
<1>4. First(n, s) = f
  BY DEF First
<1> HIDE DEF l
<1>5. /\ k \in Nat /\ k <= l /\ k <= n
      /\ l > n => k = n
      /\ l <= n => k = l
  BY <1>1 DEF Least
<1>6. Least(n, Len(s)) = k
  BY DEF l
<1> HIDE DEF k
<1>7. \A i \in 1 .. k : i \in 1 .. l
  BY <1>1, <1>5
<1>8. /\ f \in Seq(Row) /\ Len(f) = (IF 1 <= k THEN k - 1 + 1 ELSE 0)
      /\ \A i \in 1 .. k - 1 + 1 : f[i] = s[1 + i - 1]
  <2>1. \A i \in 1 .. k : s[i] \in Row
    BY <1>3, <1>7
  <2> QED
    BY <1>5, <2>1, SubSeqProperties
<1>9. Len(f) = k
  <2>1. (IF 1 <= k THEN k - 1 + 1 ELSE 0) = k
    BY <1>5
  <2> QED
    BY <1>8, <2>1
<1>10. \A i \in 1 .. k : f[i] = s[i]
  <2>1. \A i \in 1 .. k : i \in 1 .. k - 1 + 1 /\ 1 + i - 1 = i
    BY <1>5
  <2> QED
    BY <1>8, <2>1
<1>11. DOMAIN f = 1 .. k
  BY <1>8, <1>9, LenProperties
<1> HIDE DEF f
<1>12. Descends(f)
  <2>1. ASSUME NEW i \in 1 .. k, NEW j \in 1 .. k, i < j PROVE Newer(f[i], f[j])
    <3>1. i \in DOMAIN s /\ j \in DOMAIN s /\ f[i] = s[i] /\ f[j] = s[j]
      BY <1>2, <1>7, <1>10, Zenon
    <3>2. Newer(s[i], s[j])
      BY <2>1, <3>1, Zenon DEF Descends
    <3> QED
      BY <3>1, <3>2
  <2> QED
    BY <1>11, <2>1, Zenon DEF Descends
<1>13. ToSet(f) \subseteq ToSet(s)
  BY <1>2, <1>7, <1>10, <1>11, Zenon DEF ToSet
<1>14. ASSUME l <= n PROVE ToSet(f) = ToSet(s)
  <2>1. k = l
    BY <1>5, <1>14
  <2> QED
    BY <1>2, <1>10, <1>11, <2>1, Zenon DEF ToSet
<1>15. ASSUME NEW a \in ToSet(f), NEW r \in ToSet(s) \ ToSet(f) PROVE Newer(a, r)
  <2>1. PICK i \in 1 .. k : a = f[i]
    BY <1>11 DEF ToSet
  <2>2. PICK j \in 1 .. l : r = s[j]
    BY <1>2 DEF ToSet
  <2>3. ~ (j \in 1 .. k)
    BY <1>10, <1>11, <2>2, Zenon DEF ToSet
  <2>4. i < j
    BY <1>1, <1>5, <2>3
  <2>5. i \in DOMAIN s /\ j \in DOMAIN s
    BY <1>2, <1>7
  <2> QED
    BY <1>10, <2>1, <2>2, <2>4, <2>5, Zenon DEF Descends
<1> QED
  BY <1>4, <1>5, <1>6, <1>8, <1>9, <1>12, <1>13, <1>14, <1>15 DEF l

\* The end of a sequence in order.
LEMMA RestIs ==
  ASSUME NEW s \in Seq(Row), Descends(s), NEW m \in 1 .. Len(s) + 1
  PROVE  LET t == SubSeq(s, m, Len(s))
         IN  /\ t \in Seq(Row) /\ Descends(t) /\ Len(t) = (Len(s) + 1) - m
             /\ ToSet(t) = { s[i] : i \in m .. Len(s) }
<1> DEFINE n == Len(s)
           t == SubSeq(s, m, n)
<1>1. n \in Nat
  BY LenProperties
<1>2. DOMAIN s = 1 .. n
  BY LenProperties
<1>3. \A i \in 1 .. n : s[i] \in Row
  BY ElementOfSeq
<1>4. m \in 1 .. n + 1
  OBVIOUS
<1> HIDE DEF n
<1>5. m \in Int /\ 1 <= m /\ m <= n + 1
  BY <1>1, <1>4
<1>6. /\ t \in Seq(Row) /\ Len(t) = (IF m <= n THEN n - m + 1 ELSE 0)
      /\ \A i \in 1 .. n - m + 1 : t[i] = s[m + i - 1]
  <2>1. \A i \in m .. n : i \in 1 .. n
    BY <1>1, <1>5
  <2>2. \A i \in m .. n : s[i] \in Row
    BY <1>3, <2>1
  <2> QED
    BY <1>1, <1>5, <2>2, SubSeqProperties
<1>7. /\ (IF m <= n THEN n - m + 1 ELSE 0) = (n + 1) - m
      /\ n - m + 1 = (n + 1) - m
  BY <1>1, <1>5
<1>8. Len(t) = (n + 1) - m
  BY <1>6, <1>7
<1>9. \A i \in 1 .. (n + 1) - m : t[i] = s[m + i - 1]
  BY <1>6, <1>7
<1>10. DOMAIN t = 1 .. (n + 1) - m
  BY <1>6, <1>8, LenProperties
<1> HIDE DEF t
<1>11. \A i \in 1 .. (n + 1) - m : m + i - 1 \in m .. n /\ m + i - 1 \in 1 .. n
  BY <1>1, <1>5
<1>12. \A i, j \in 1 .. (n + 1) - m : i < j => m + i - 1 < m + j - 1
  BY <1>1, <1>5
<1>13. Descends(t)
  BY <1>2, <1>9, <1>10, <1>11, <1>12, Zenon DEF Descends
<1>14. \A j \in m .. n : /\ (j - m) + 1 \in 1 .. (n + 1) - m
                         /\ m + ((j - m) + 1) - 1 = j
  BY <1>1, <1>5
<1>15. ToSet(t) = { s[i] : i \in m .. n }
  <2>1. \A i \in DOMAIN t : t[i] \in { s[j] : j \in m .. n }
    BY <1>9, <1>10, <1>11, Zenon
  <2>2. ASSUME NEW j \in m .. n PROVE s[j] \in ToSet(t)
    <3>1. (j - m) + 1 \in DOMAIN t /\ t[(j - m) + 1] = s[j]
      <4>1. t[(j - m) + 1] = s[m + ((j - m) + 1) - 1]
        BY <1>9, <1>14, Zenon
      <4> QED
        BY <1>10, <1>14, <4>1
    <3> QED
      BY <3>1, Zenon DEF ToSet
  <2> QED
    BY <2>1, <2>2, Zenon DEF ToSet
<1> QED
  BY <1>6, <1>8, <1>13, <1>15 DEF n, t

-----------------------------------------------------------------------------
(* The pages *)

\* The rows a page is taken from: all of them, or those below its cursor.
Below(last) == { r \in ToSet(table) : last = NoRow \/ Newer(last, r) }

\* What is behind a page: its rows are the first of a sequence in order, of rows
\* below the cursor, all of them unless the row of the cursor is gone.
PageOf(page, last, t) ==
  /\ t \in Seq(Row) /\ Descends(t) /\ ToSet(t) \subseteq Below(last)
  /\ page.rows = First(PageSize, t)
  /\ page.more = (Len(t) > PageSize)
  /\ page.lost \in BOOLEAN
  /\ ~ page.lost => ToSet(t) = Below(last)
  /\ page.lost => Len(t) = 0

\* A page of Postgres is one of the rows below the cursor.
LEMMA PgPageIs ==
  ASSUME NEW last \in Row \cup {NoRow}, table \in Seq(Row)
  PROVE  \E t : PageOf(PgPage(last), last, t)
<1> DEFINE t == NewestFirst(Below(last))
<1>1. Below(last) \subseteq Row /\ IsFiniteSet(Below(last))
  <2>1. IsFiniteSet(ToSet(table)) /\ ToSet(table) \subseteq Row
    BY RowsAreFinite
  <2>2. Below(last) \in SUBSET ToSet(table)
    BY DEF Below
  <2> QED
    BY <2>1, <2>2, FS_Subset
<1>2. Orders(t, Below(last))
  BY <1>1, NewestFirstOrders
<1>3. PgPage(last) = [ rows |-> First(PageSize, t), more |-> Cardinality(Below(last)) > PageSize,
                       lost |-> FALSE ]
  BY DEF PgPage, Below
<1> HIDE DEF t
<1>4. PageOf(PgPage(last), last, t)
  BY <1>2, <1>3 DEF Orders, PageOf
<1> QED
  BY <1>4

\* A page of the file is one of the rows after the row of its cursor.
LEMMA JsonPageIs ==
  ASSUME NEW last \in Row \cup {NoRow}, table \in Seq(Row)
  PROVE  \E t : PageOf(JsonPage(last), last, t)
<1> DEFINE rowSet == ToSet(table)
           s == NewestFirst(rowSet)
           start == CASE last = NoRow -> 1
                      [] last # NoRow /\ last \in rowSet -> 1 + CHOOSE i \in DOMAIN s : s[i] = last
                      [] OTHER -> Len(s) + 1
           t == SubSeq(s, start, Len(s))
           shown == First(PageSize, t)
<1>1. JsonPage(last) = [ rows |-> shown, more |-> start + Len(shown) <= Len(s),
                         lost |-> last # NoRow /\ last \notin rowSet ]
  BY DEF JsonPage
<1>2. Orders(s, rowSet)
  BY RowsAreFinite, NewestFirstOrders
<1>3. NoRow \notin Row
  BY DEF Row, NoRow
<1> HIDE DEF s, rowSet
<1>4. s \in Seq(Row) /\ Descends(s) /\ ToSet(s) = rowSet
  BY <1>2 DEF Orders
<1>5. Len(s) \in Nat /\ DOMAIN s = 1 .. Len(s)
  BY <1>4, LenProperties
<1>6. \A i \in 1 .. Len(s) : s[i] \in Row /\ s[i] \in rowSet
  BY <1>4, <1>5, ElementOfSeq DEF ToSet
<1>7. Below(last) = { r \in rowSet : last = NoRow \/ Newer(last, r) }
  BY DEF Below, rowSet
<1>8. /\ start \in 1 .. Len(s) + 1
      /\ (last = NoRow \/ last \in rowSet) => { s[i] : i \in start .. Len(s) } = Below(last)
      /\ ~ (last = NoRow \/ last \in rowSet) => start = Len(s) + 1
  <2>1. CASE last = NoRow
    <3>1. start = 1
      BY <2>1
    <3>2. Below(last) = rowSet
      BY <1>7, <2>1
    <3>3. { s[i] : i \in 1 .. Len(s) } = rowSet
      BY <1>4, <1>5 DEF ToSet
    <3>4. 1 \in 1 .. Len(s) + 1
      BY <1>5
    <3> QED
      BY <2>1, <3>1, <3>2, <3>3, <3>4
  <2>2. CASE last # NoRow /\ last \in rowSet
    <3> DEFINE p == CHOOSE i \in DOMAIN s : s[i] = last
    <3>1. p \in 1 .. Len(s) /\ s[p] = last
      <4>1. \E i \in DOMAIN s : s[i] = last
        BY <1>4, <2>2 DEF ToSet
      <4> QED
        BY <1>5, <4>1
    <3>2. start = 1 + p
      BY <2>2
    <3> HIDE DEF p
    <3>3. \A i \in 1 .. Len(s) : i \in 1 + p .. Len(s) <=> p < i
      BY <1>5, <3>1
    <3>4. \A i \in 1 + p .. Len(s) : i \in 1 .. Len(s)
      BY <1>5, <3>1
    <3>5. ASSUME NEW i \in 1 .. Len(s) PROVE p < i <=> Newer(last, s[i])
      <4>1. CASE p < i
        BY <1>4, <1>5, <3>1, <4>1 DEF Descends
      <4>2. CASE p = i
        BY <1>6, <3>1, <4>2, NewerOrders
      <4>3. CASE i < p
        <5>1. Newer(s[i], last)
          BY <1>4, <1>5, <3>1, <4>3 DEF Descends
        <5>2. ~ Newer(last, s[i]) /\ ~ (p < i)
          <6>1. s[i] \in Row /\ last \in Row
            BY <1>6, <3>1
          <6>2. ~ Newer(last, s[i])
            BY <5>1, <6>1, NewerOrders
          <6> QED
            BY <1>5, <3>1, <4>3, <6>2
        <5> QED
          BY <5>2
      <4>4. p \in Int /\ i \in Int
        BY <3>1
      <4> QED
        BY <4>1, <4>2, <4>3, <4>4
    <3>6. { s[i] : i \in 1 + p .. Len(s) } = Below(last)
      <4>1. ASSUME NEW r \in Below(last) PROVE r \in { s[i] : i \in 1 + p .. Len(s) }
        <5>1. r \in rowSet /\ Newer(last, r)
          BY <1>7, <2>2
        <5>2. PICK i \in 1 .. Len(s) : r = s[i]
          BY <1>4, <1>5, <5>1 DEF ToSet
        <5> QED
          BY <3>3, <3>5, <5>1, <5>2
      <4>2. ASSUME NEW i \in 1 + p .. Len(s) PROVE s[i] \in Below(last)
        <5>1. i \in 1 .. Len(s) /\ p < i
          BY <3>3, <3>4
        <5> QED
          BY <1>6, <1>7, <3>5, <5>1
      <4> QED
        BY <4>1, <4>2
    <3>7. 1 + p \in 1 .. Len(s) + 1
      BY <1>5, <3>1
    <3> QED
      BY <2>2, <3>2, <3>6, <3>7
  <2>3. CASE last # NoRow /\ last \notin rowSet
    <3>1. start = Len(s) + 1
      BY <2>3
    <3>2. Len(s) + 1 \in 1 .. Len(s) + 1
      BY <1>5
    <3> QED
      BY <2>3, <3>1, <3>2
  <2> QED
    BY <2>1, <2>2, <2>3
<1> HIDE DEF start
<1>9. /\ t \in Seq(Row) /\ Descends(t) /\ Len(t) = (Len(s) + 1) - start
      /\ ToSet(t) = { s[i] : i \in start .. Len(s) }
  BY <1>4, <1>8, RestIs
<1> HIDE DEF t
<1>10. ToSet(t) \subseteq Below(last)
  <2>1. CASE last = NoRow \/ last \in rowSet
    BY <1>8, <1>9, <2>1
  <2>2. CASE ~ (last = NoRow \/ last \in rowSet)
    <3>1. start .. Len(s) = {}
      BY <1>5, <1>8, <2>2
    <3> QED
      BY <1>9, <3>1
  <2> QED
    BY <2>1, <2>2
<1>11. ASSUME ~ (last = NoRow \/ last \in rowSet) PROVE Len(t) = 0
  BY <1>5, <1>8, <1>9, <1>11
<1>12. (start + Len(shown) <= Len(s)) = (Len(t) > PageSize)
  <2>1. PageSize \in Nat \ {0} /\ Len(t) \in Nat
    BY <1>9, RowBounds, LenProperties
  <2>2. Len(shown) = Least(PageSize, Len(t))
    BY <1>9, <2>1, FirstIs
  <2> HIDE DEF shown
  <2>3. Least(PageSize, Len(t)) = IF PageSize < Len(t) THEN PageSize ELSE Len(t)
    BY DEF Least
  <2>4. start \in Nat /\ Len(s) = (Len(t) + start) - 1
    BY <1>5, <1>8, <1>9
  <2> QED
    BY <2>1, <2>2, <2>3, <2>4
<1> HIDE DEF shown
<1>13. PageOf(JsonPage(last), last, t)
  <2> DEFINE page == JsonPage(last)
  <2>1. /\ page.rows = shown
        /\ page.more = (start + Len(shown) <= Len(s))
        /\ page.lost = (last # NoRow /\ last \notin rowSet)
    BY <1>1
  <2> HIDE DEF page
  <2>2. page.rows = First(PageSize, t) /\ page.more = (Len(t) > PageSize)
    BY <1>12, <2>1 DEF shown
  <2>3. page.lost \in BOOLEAN /\ (page.lost <=> ~ (last = NoRow \/ last \in rowSet))
    BY <2>1
  <2>4. ~ page.lost => ToSet(t) = Below(last)
    BY <1>8, <1>9, <2>3
  <2>5. page.lost => Len(t) = 0
    BY <1>11, <2>3
  <2>6. PageOf(page, last, t)
    BY <1>9, <1>10, <2>2, <2>3, <2>4, <2>5, Zenon DEF PageOf
  <2> QED
    BY <2>6 DEF page
<1> QED
  BY <1>13

\* What a reader is given: rows below the cursor and in order; if there are more,
\* the page is not empty, its cursor was found, and the others are below its last row;
\* if there are none and the cursor was found, every row below it.
LEMMA PageIs ==
  ASSUME NEW last \in Row \cup {NoRow}, table \in Seq(Row), home \in {"json", "postgres"}
  PROVE  LET page == Page(last)
         IN  /\ page.rows \in Seq(Row) /\ Descends(page.rows)
             /\ ToSet(page.rows) \subseteq Below(last)
             /\ page.more \in BOOLEAN /\ page.lost \in BOOLEAN
             /\ page.more => /\ Len(page.rows) \in Nat \ {0} /\ ~ page.lost
                             /\ \A r \in Below(last) : \/ r \in ToSet(page.rows)
                                                       \/ Newer(Last(page.rows), r)
             /\ ~ page.more /\ ~ page.lost => ToSet(page.rows) = Below(last)
<1> DEFINE page == Page(last)
<1>1. PICK t : PageOf(page, last, t)
  <2>1. CASE home = "json"
    BY <2>1, JsonPageIs DEF Page
  <2>2. CASE home = "postgres"
    BY <2>2, PgPageIs DEF Page
  <2> QED
    BY <2>1, <2>2
<1> HIDE DEF page
<1>2. /\ t \in Seq(Row) /\ Descends(t) /\ ToSet(t) \subseteq Below(last)
      /\ page.rows = First(PageSize, t)
      /\ page.more = (Len(t) > PageSize)
      /\ page.lost \in BOOLEAN
      /\ ~ page.lost => ToSet(t) = Below(last)
      /\ page.lost => Len(t) = 0
  BY <1>1 DEF PageOf
<1>3. PageSize \in Nat \ {0}
  BY RowBounds
<1>4. Len(t) \in Nat
  BY <1>2, LenProperties
<1>4a. page.more <=> Len(t) > PageSize
  BY <1>2, Zenon
<1> DEFINE f == First(PageSize, t)
<1>5. /\ f \in Seq(Row) /\ Descends(f)
      /\ Len(t) > PageSize => Len(f) = PageSize
      /\ ToSet(f) \subseteq ToSet(t)
      /\ Len(t) <= PageSize => ToSet(f) = ToSet(t)
      /\ \A a \in ToSet(f), r \in ToSet(t) \ ToSet(f) : Newer(a, r)
  BY <1>2, <1>3, FirstIs
<1>6. page.rows = f
  BY <1>2
<1> HIDE DEF f
<1>7. page.more \in BOOLEAN
  BY <1>2
<1>8. ASSUME page.more
      PROVE  /\ Len(f) \in Nat \ {0} /\ ~ page.lost
             /\ \A r \in Below(last) : r \in ToSet(f) \/ Newer(Last(f), r)
  <2>1. Len(t) > PageSize /\ Len(t) # 0
    BY <1>3, <1>4, <1>8, <1>4a
  <2>2. Len(f) = PageSize /\ Len(f) \in Nat \ {0}
    BY <1>3, <1>5, <2>1
  <2>3. ~ page.lost /\ ToSet(t) = Below(last)
    BY <1>2, <2>1
  <2>4. Last(f) \in ToSet(f)
    <3>1. DOMAIN f = 1 .. Len(f)
      BY <1>5, LenProperties
    <3>2. Len(f) \in DOMAIN f
      BY <2>2, <3>1
    <3> QED
      BY <3>2 DEF Last, ToSet
  <2> QED
    BY <1>5, <2>2, <2>3, <2>4
<1>9. ASSUME ~ page.more, ~ page.lost PROVE ToSet(f) = Below(last)
  <2>1. Len(t) <= PageSize
    BY <1>3, <1>4, <1>9, <1>4a
  <2> QED
    BY <1>2, <1>5, <1>9, <2>1
<1>10. ToSet(f) \subseteq Below(last)
  BY <1>2, <1>5
<1>11. /\ page.rows \in Seq(Row) /\ Descends(page.rows)
       /\ ToSet(page.rows) \subseteq Below(last)
       /\ page.more \in BOOLEAN /\ page.lost \in BOOLEAN
       /\ page.more => /\ Len(page.rows) \in Nat \ {0} /\ ~ page.lost
                       /\ \A r \in Below(last) : \/ r \in ToSet(page.rows)
                                                 \/ Newer(Last(page.rows), r)
       /\ ~ page.more /\ ~ page.lost => ToSet(page.rows) = Below(last)
  BY <1>2, <1>5, <1>6, <1>7, <1>8, <1>9, <1>10
<1> QED
  BY <1>11 DEF page

-----------------------------------------------------------------------------
(* A reader of the history *)

\* What holds between two pages: the rows that stand are in the table, and a walk
\* has shown each of them or has it before it.
HistoryInv ==
  /\ HistoryTypeOK /\ WalksDescend /\ WalksAreComplete
  /\ standing \subseteq ToSet(table)
  /\ walk.state = "open" =>
       /\ walk.got # << >> /\ walk.last = Last(walk.got) /\ ~ walk.lost
       /\ \A r \in standing : r \in ToSet(walk.got) \/ Newer(walk.last, r)

\* The parts of the type invariant, and of a walk.
LEMMA HistoryTyped ==
  ASSUME HistoryTypeOK
  PROVE  /\ home \in Homes /\ list \in Lists /\ home \in {"json", "postgres"}
         /\ table \in Seq(Row) /\ Len(table) \in Nat /\ DOMAIN table = 1 .. Len(table)
         /\ walk.state \in {"none", "open", "done", "failed"}
         /\ walk.last \in Row \cup {NoRow} /\ walk.got \in Seq(Row) /\ walk.lost \in BOOLEAN
         /\ standing \subseteq Row
<1>1. table \in Seq(Row)
  BY DEF HistoryTypeOK
<1>2. home \in {"json", "postgres"}
  BY HistoryAssumption DEF HistoryTypeOK
<1>3. walk \in Walk
  BY DEF HistoryTypeOK
<1>4. /\ walk.state \in {"none", "open", "done", "failed"}
      /\ walk.last \in Row \cup {NoRow} /\ walk.got \in Seq(Row) /\ walk.lost \in BOOLEAN
  BY <1>3 DEF Walk
<1> QED
  BY <1>1, <1>2, <1>4, LenProperties DEF HistoryTypeOK

\* A reader that has no page yet.
LEMMA NoWalkIs ==
  /\ NoWalk \in Walk /\ NoWalk.state = "none" /\ NoWalk.last = NoRow
  /\ NoWalk.got = << >> /\ NoWalk.got \in Seq(Row) /\ NoWalk.lost = FALSE
  /\ \A i \in DOMAIN NoWalk.got : FALSE
<1>1. << >> \in Seq(Row) /\ Len(<< >>) = 0
  BY EmptySeq
<1>2. DOMAIN << >> = 1 .. 0
  BY <1>1, LenProperties
<1> QED
  BY <1>1, <1>2 DEF NoWalk, Walk

\* Initially nothing is kept or shown.
LEMMA HistoryOpens == HInit => HistoryInv
<1> SUFFICES ASSUME HInit PROVE HistoryInv
  OBVIOUS
<1>1. << >> \in Seq(Row) /\ Len(<< >>) = 0 /\ Cap \in Nat
  BY EmptySeq, RowBounds
<1>2. HistoryTypeOK
  BY <1>1, NoWalkIs DEF HInit, HistoryTypeOK
<1> QED
  BY <1>2, NoWalkIs DEF HInit, HistoryInv, WalksDescend, WalksAreComplete

\* What a walk has been given stays in order when a page of older rows is added,
\* and holds the rows of both.
LEMMA PageAdds ==
  ASSUME NEW s \in Seq(Row), NEW t \in Seq(Row), Descends(s), Descends(t),
         \A i \in DOMAIN s, r \in ToSet(t) : Newer(s[i], r)
  PROVE  /\ s \o t \in Seq(Row) /\ Descends(s \o t)
         /\ ToSet(s \o t) = ToSet(s) \cup ToSet(t)
         /\ Len(t) \in Nat \ {0} => s \o t # << >> /\ Last(s \o t) = Last(t)
<1> DEFINE m == Len(s)
           n == Len(t)
           u == s \o t
<1>1. m \in Nat /\ n \in Nat /\ DOMAIN s = 1 .. m /\ DOMAIN t = 1 .. n
  BY LenProperties
<1>2. u \in Seq(Row) /\ Len(u) = m + n
  BY ConcatProperties
<1>3. DOMAIN u = 1 .. m + n
  BY <1>2, LenProperties
<1>4. \A i \in 1 .. m + n : u[i] = IF i <= m THEN s[i] ELSE t[i - m]
  BY ConcatProperties
<1> HIDE DEF m, n, u
<1>5. \A i \in 1 .. m + n : \/ i \in 1 .. m /\ u[i] = s[i]
                            \/ i - m \in 1 .. n /\ i > m /\ u[i] = t[i - m]
  BY <1>1, <1>4
<1>6. \A i \in 1 .. n : t[i] \in ToSet(t)
  BY <1>1 DEF ToSet
<1>7. ASSUME NEW i \in 1 .. m + n, NEW j \in 1 .. m + n, i < j
      PROVE  Newer(u[i], u[j])
  <2>1. CASE j \in 1 .. m /\ u[j] = s[j]
    <3>1. i \in 1 .. m /\ ~ (i > m)
      BY <1>1, <1>7, <2>1
    <3>2. u[i] = s[i]
      BY <1>5, <3>1
    <3> QED
      BY <1>1, <1>7, <2>1, <3>1, <3>2 DEF Descends
  <2>2. CASE j - m \in 1 .. n /\ j > m /\ u[j] = t[j - m]
    <3>1. CASE i \in 1 .. m /\ u[i] = s[i]
      BY <1>1, <1>6, <2>2, <3>1
    <3>2. CASE i - m \in 1 .. n /\ i > m /\ u[i] = t[i - m]
      <4>1. i - m < j - m
        BY <1>1, <1>7
      <4> QED
        BY <1>1, <2>2, <3>2, <4>1 DEF Descends
    <3> QED
      BY <1>5, <3>1, <3>2
  <2> QED
    BY <1>5, <2>1, <2>2
<1>8. Descends(u)
  BY <1>3, <1>7 DEF Descends
<1>9. ToSet(u) = ToSet(s) \cup ToSet(t)
  <2>1. \A i \in 1 .. m : i \in 1 .. m + n /\ u[i] = s[i]
    BY <1>1, <1>4
  <2>2. \A i \in 1 .. n : i + m \in 1 .. m + n /\ u[i + m] = t[i]
    <3>1. \A i \in 1 .. n : i + m \in 1 .. m + n /\ ~ (i + m <= m) /\ (i + m) - m = i
      BY <1>1
    <3> QED
      BY <1>4, <3>1
  <2>3. \A i \in 1 .. m + n : u[i] \in ToSet(s) \cup ToSet(t)
    BY <1>1, <1>5, <1>6 DEF ToSet
  <2>4. \A r \in ToSet(s) : r \in ToSet(u)
    BY <1>1, <1>3, <2>1 DEF ToSet
  <2>5. \A r \in ToSet(t) : r \in ToSet(u)
    BY <1>1, <1>3, <2>2 DEF ToSet
  <2>6. \A r \in ToSet(u) : r \in ToSet(s) \cup ToSet(t)
    BY <1>3, <2>3 DEF ToSet
  <2> QED
    BY <2>4, <2>5, <2>6
<1>10. ASSUME n \in Nat \ {0} PROVE u # << >> /\ Last(u) = Last(t)
  <2>1. m + n \in 1 .. m + n /\ ~ (m + n <= m) /\ (m + n) - m = n /\ m + n # 0
    BY <1>1, <1>10
  <2>2. u[m + n] = t[n]
    BY <1>4, <2>1
  <2>3. Len(<< >>) = 0
    BY EmptySeq
  <2> QED
    BY <1>2, <2>1, <2>2, <2>3 DEF Last, n
<1> QED
  BY <1>2, <1>8, <1>9, <1>10 DEF u, n

\* A page more: what it shows is in order, a walk that goes on has before it what it
\* has not shown, and one that is done has shown what stood.
LEMMA TurnIs ==
  ASSUME NEW w \in Walk, Descends(w.got), table \in Seq(Row), home \in {"json", "postgres"},
         \A i \in DOMAIN w.got, r \in Below(w.last) : Newer(w.got[i], r),
         NEW T, \A r \in T : r \in ToSet(w.got) \/ r \in Below(w.last)
  PROVE  LET v == Turned(w)
         IN  /\ v \in Walk /\ Descends(v.got)
             /\ v.state = "open" =>
                  /\ v.got # << >> /\ v.last = Last(v.got) /\ ~ v.lost
                  /\ \A r \in T : r \in ToSet(v.got) \/ Newer(v.last, r)
             /\ v.state = "done" /\ ~ v.lost => T \subseteq ToSet(v.got)
<1> DEFINE page == Page(w.last)
           shown == w.got \o page.rows
           v == Turned(w)
<1>1. w.last \in Row \cup {NoRow} /\ w.got \in Seq(Row) /\ w.lost \in BOOLEAN
  BY DEF Walk
<1>2. /\ page.rows \in Seq(Row) /\ Descends(page.rows)
      /\ ToSet(page.rows) \subseteq Below(w.last)
      /\ page.more \in BOOLEAN /\ page.lost \in BOOLEAN
      /\ page.more => /\ Len(page.rows) \in Nat \ {0} /\ ~ page.lost
                      /\ \A r \in Below(w.last) : \/ r \in ToSet(page.rows)
                                                  \/ Newer(Last(page.rows), r)
      /\ ~ page.more /\ ~ page.lost => ToSet(page.rows) = Below(w.last)
  BY <1>1, PageIs
<1>3. /\ page.more /\ ~ Names(page.rows) => v = [w EXCEPT !.state = "failed"]
      /\ page.more /\ Names(page.rows) =>
           v = [ state |-> "open", last |-> Last(page.rows), got |-> shown, lost |-> page.lost ]
      /\ ~ page.more =>
           v = [ state |-> "done", last |-> NoRow, got |-> shown, lost |-> page.lost ]
  BY DEF Turned
<1> HIDE DEF page
<1>4. \A i \in DOMAIN w.got, r \in ToSet(page.rows) : Newer(w.got[i], r)
  BY <1>2
<1>5. /\ shown \in Seq(Row) /\ Descends(shown)
      /\ ToSet(shown) = ToSet(w.got) \cup ToSet(page.rows)
      /\ Len(page.rows) \in Nat \ {0} => shown # << >> /\ Last(shown) = Last(page.rows)
  BY <1>1, <1>2, <1>4, PageAdds
<1> HIDE DEF shown, v
<1> DEFINE Good(x) ==
      /\ x \in Walk /\ Descends(x.got)
      /\ x.state = "open" =>
           /\ x.got # << >> /\ x.last = Last(x.got) /\ ~ x.lost
           /\ \A r \in T : r \in ToSet(x.got) \/ Newer(x.last, r)
      /\ x.state = "done" /\ ~ x.lost => T \subseteq ToSet(x.got)
<1>6. ASSUME page.more, ~ Names(page.rows) PROVE Good(v)
  <2>1. v \in Walk /\ v.state = "failed" /\ v.got = w.got
    BY <1>3, <1>6 DEF Walk
  <2> QED
    BY <2>1
<1>7. ASSUME page.more, Names(page.rows) PROVE Good(v)
  <2>1. Last(page.rows) \in Row
    <3>1. Len(page.rows) \in 1 .. Len(page.rows)
      BY <1>2, <1>7
    <3> QED
      BY <1>2, <3>1, ElementOfSeq DEF Last
  <2>2. v \in Walk
    BY <1>2, <1>3, <1>5, <1>7, <2>1 DEF Walk
  <2>3. v.state = "open" /\ v.got = shown /\ v.last = Last(page.rows) /\ v.lost = page.lost
    BY <1>3, <1>7
  <2>4. shown # << >> /\ Last(shown) = Last(page.rows) /\ ~ page.lost
    BY <1>2, <1>5, <1>7
  <2>5. \A r \in T : r \in ToSet(shown) \/ Newer(Last(page.rows), r)
    BY <1>2, <1>5, <1>7
  <2> QED
    BY <1>5, <2>2, <2>3, <2>4, <2>5
<1>8. ASSUME ~ page.more PROVE Good(v)
  <2>1. v \in Walk
    BY <1>2, <1>3, <1>5, <1>8 DEF Walk
  <2>2. v.state = "done" /\ v.got = shown /\ v.lost = page.lost
    BY <1>3, <1>8
  <2>3. ~ page.lost => T \subseteq ToSet(shown)
    BY <1>2, <1>5, <1>8
  <2> QED
    BY <1>5, <2>1, <2>2, <2>3
<1>9. Good(v)
  BY <1>2, <1>6, <1>7, <1>8
<1> QED
  BY <1>9 DEF v

\* The reader keeps it.
LEMMA ReadsKeep == HistoryInv /\ (FirstPage \/ NextPage \/ Leave) => HistoryInv'
<1> SUFFICES ASSUME HistoryInv, FirstPage \/ NextPage \/ Leave PROVE HistoryInv'
  OBVIOUS
<1>1. /\ home \in {"json", "postgres"} /\ table \in Seq(Row)
      /\ walk.last \in Row \cup {NoRow} /\ walk.got \in Seq(Row) /\ standing \subseteq Row
      /\ DOMAIN walk.got = 1 .. Len(walk.got) /\ Len(walk.got) \in Nat
      /\ walk \in Walk
  BY HistoryTyped, LenProperties DEF HistoryInv, HistoryTypeOK
<1>2. ToSet(table) \subseteq Row
  BY <1>1, RowsAreFinite
<1> DEFINE Told(w, T) ==
      /\ w \in Walk /\ Descends(w.got)
      /\ w.state = "open" =>
           /\ w.got # << >> /\ w.last = Last(w.got) /\ ~ w.lost
           /\ \A r \in T : r \in ToSet(w.got) \/ Newer(w.last, r)
      /\ w.state = "done" /\ ~ w.lost => T \subseteq ToSet(w.got)
<1>3. ASSUME Told(walk', standing'), UNCHANGED <<home, list, table>>,
             standing' \subseteq ToSet(table)
      PROVE  HistoryInv'
  <2>1. HistoryTypeOK'
    BY <1>2, <1>3 DEF HistoryInv, HistoryTypeOK
  <2>2. WalksDescend' /\ WalksAreComplete'
    BY <1>3 DEF WalksDescend, WalksAreComplete, Descends
  <2> QED
    BY <1>3, <2>1, <2>2 DEF HistoryInv
<1>4. CASE FirstPage
  <2>1. /\ walk' = Turned(NoWalk) /\ standing' = ToSet(table)
        /\ UNCHANGED <<home, list, table>>
    BY <1>4 DEF FirstPage
  <2>2. Below(NoWalk.last) = ToSet(table)
    BY NoWalkIs DEF Below
  <2>3. Descends(NoWalk.got) /\ \A i \in DOMAIN NoWalk.got, r \in ToSet(table) :
                                    Newer(NoWalk.got[i], r)
    BY NoWalkIs DEF Descends
  <2>4. Told(Turned(NoWalk), ToSet(table))
    BY <1>1, <2>2, <2>3, NoWalkIs, TurnIs
  <2> HIDE DEF Told
  <2> QED
    BY <1>3, <2>1, <2>4
<1>5. CASE NextPage
  <2>1. /\ walk.state = "open" /\ walk' = Turned(walk)
        /\ UNCHANGED <<home, list, table, standing>>
    BY <1>5 DEF NextPage
  <2>2. /\ walk.got # << >> /\ walk.last = Last(walk.got) /\ standing \subseteq ToSet(table)
        /\ \A r \in standing : r \in ToSet(walk.got) \/ Newer(walk.last, r)
        /\ Descends(walk.got)
    BY <2>1 DEF HistoryInv, WalksDescend, Descends
  <2>3. Len(walk.got) \in 1 .. Len(walk.got)
    BY <1>1, <2>2, EmptySeq
  <2>4. walk.last \in Row /\ walk.last = walk.got[Len(walk.got)]
    BY <1>1, <2>2, <2>3, ElementOfSeq DEF Last
  <2>5. NoRow \notin Row
    BY DEF Row, NoRow
  <2>6. Below(walk.last) = { r \in ToSet(table) : Newer(walk.last, r) }
    BY <2>4, <2>5 DEF Below
  <2>7. ASSUME NEW i \in DOMAIN walk.got, NEW r \in Below(walk.last)
        PROVE  Newer(walk.got[i], r)
    <3>1. r \in Row /\ Newer(walk.last, r)
      BY <1>2, <2>6
    <3>2. walk.got[i] \in Row
      BY <1>1, ElementOfSeq
    <3>3. CASE i = Len(walk.got)
      BY <2>4, <3>1, <3>3
    <3>4. CASE i # Len(walk.got)
      <4>1. i < Len(walk.got)
        BY <1>1, <3>4
      <4>2. Newer(walk.got[i], walk.last)
        BY <1>1, <2>2, <2>3, <2>4, <4>1 DEF Descends
      <4> QED
        BY <2>4, <3>1, <3>2, <4>2, NewerOrders
    <3> QED
      BY <3>3, <3>4
  <2>8. \A r \in standing : r \in ToSet(walk.got) \/ r \in Below(walk.last)
    BY <2>2, <2>6
  <2>9. Told(Turned(walk), standing)
    BY <1>1, <2>2, <2>7, <2>8, TurnIs
  <2> HIDE DEF Told
  <2> QED
    BY <1>3, <2>1, <2>2, <2>9
<1>6. CASE Leave
  <2>1. walk' = NoWalk /\ standing' = {} /\ UNCHANGED <<home, list, table>>
    BY <1>6 DEF Leave
  <2>2. Told(NoWalk, {})
    BY NoWalkIs DEF Descends
  <2> HIDE DEF Told
  <2> QED
    BY <1>3, <2>1, <2>2
<1> QED
  BY <1>4, <1>5, <1>6

-----------------------------------------------------------------------------
(* The writers of the history *)

\* Rows that become the table are what a reader finds there.
LEMMA BecomingKeeps ==
  ASSUME HistoryInv, NEW kept \in Seq(Row), home = "json" => Len(kept) <= Cap, Becomes(kept)
  PROVE  HistoryInv' /\ ToSet(table') = ToSet(kept)
<1>1. /\ table' = IF home = "json" THEN kept ELSE NewestFirst(ToSet(kept))
      /\ standing' = standing \cap ToSet(kept)
      /\ UNCHANGED <<home, list, walk>>
  BY DEF Becomes
<1>2. Orders(NewestFirst(ToSet(kept)), ToSet(kept))
  BY RowsAreFinite, NewestFirstOrders
<1>3. /\ table' \in Seq(Row) /\ ToSet(table') = ToSet(kept)
      /\ home = "json" => Len(table') <= Cap
  BY <1>1, <1>2 DEF Orders
<1>4. HistoryTypeOK'
  BY <1>1, <1>3 DEF HistoryInv, HistoryTypeOK
<1>5. WalksDescend' /\ WalksAreComplete'
  BY <1>1 DEF HistoryInv, WalksDescend, WalksAreComplete
<1> QED
  BY <1>1, <1>3, <1>4, <1>5 DEF HistoryInv

\* A row more: the file drops what it has kept longest.
LEMMA InsertKeeps == HistoryInv /\ Insert => HistoryInv'
<1> SUFFICES ASSUME HistoryInv, Insert PROVE HistoryInv'
  OBVIOUS
<1>1. PICK r \in Row : Becomes(Truncated(Append(table, r)))
  BY DEF Insert
<1>2. table \in Seq(Row) /\ Cap \in Nat \ {0}
  BY HistoryTyped, RowBounds DEF HistoryInv
<1> DEFINE more == Append(table, r)
           cut == SubSeq(more, Len(more) - Cap + 1, Len(more))
<1>3. more \in Seq(Row)
  BY <1>2, AppendProperties
<1>4. Len(more) \in Nat
  BY <1>3, LenProperties
<1>5. Truncated(more) = IF home = "json" /\ Len(more) > Cap THEN cut ELSE more
  BY DEF Truncated
<1> HIDE DEF more
<1>6. ASSUME Len(more) > Cap PROVE cut \in Seq(Row) /\ Len(cut) = Cap
  <2> DEFINE n == Len(more)
             m == n - Cap + 1
  <2>1. n \in Nat /\ m \in Int /\ m <= n /\ n - m + 1 = Cap /\ n \in Int
    BY <1>2, <1>4, <1>6
  <2>2. \A i \in m .. n : i \in 1 .. n
    BY <1>2, <1>4, <1>6
  <2>3. \A i \in m .. n : more[i] \in Row
    BY <1>3, <2>2, ElementOfSeq
  <2> HIDE DEF n, m
  <2>4. /\ SubSeq(more, m, n) \in Seq(Row)
        /\ Len(SubSeq(more, m, n)) = IF m <= n THEN n - m + 1 ELSE 0
    BY <2>1, <2>3, SubSeqProperties
  <2>5. SubSeq(more, m, n) \in Seq(Row) /\ Len(SubSeq(more, m, n)) = Cap
    BY <2>1, <2>4
  <2> QED
    BY <2>5 DEF m, n
<1>7. /\ Truncated(more) \in Seq(Row)
      /\ home = "json" => Len(Truncated(more)) <= Cap
  <2>1. CASE home = "json" /\ Len(more) > Cap
    BY <1>2, <1>5, <1>6, <2>1
  <2>2. CASE ~ (home = "json" /\ Len(more) > Cap)
    BY <1>2, <1>3, <1>4, <1>5, <2>2
  <2> QED
    BY <2>1, <2>2
<1> QED
  BY <1>1, <1>7, BecomingKeeps DEF more

\* An alert observed again.
LEMMA TouchKeeps == HistoryInv /\ Touch => HistoryInv'
<1> SUFFICES ASSUME HistoryInv, Touch PROVE HistoryInv'
  OBVIOUS
<1>1. PICK i \in DOMAIN table, at \in 1 .. MaxTime : Becomes([table EXCEPT ![i].at = at])
  BY DEF Touch
<1>2. /\ table \in Seq(Row) /\ DOMAIN table = 1 .. Len(table)
      /\ home = "json" => Len(table) <= Cap
  BY HistoryTyped DEF HistoryInv, HistoryTypeOK
<1>3. table[i] \in Row
  BY <1>2, ElementOfSeq
<1>4. [table[i] EXCEPT !.at = at] \in Row
  BY <1>3 DEF Row
<1>5. /\ [table EXCEPT ![i] = [table[i] EXCEPT !.at = at]] \in Seq(Row)
      /\ Len([table EXCEPT ![i] = [table[i] EXCEPT !.at = at]]) = Len(table)
  BY <1>2, <1>4, ExceptSeq
<1>6. [table EXCEPT ![i].at = at] = [table EXCEPT ![i] = [table[i] EXCEPT !.at = at]]
  OBVIOUS
<1> QED
  BY <1>1, <1>2, <1>5, <1>6, BecomingKeeps

\* What maintenance keeps of a history: rows since the cutoff, and of those the newest.
LEMMA PrunedIs ==
  ASSUME table \in Seq(Row), NEW cutoff \in Cutoffs
  PROVE  /\ Pruned(cutoff) \in Seq(Row) /\ Len(Pruned(cutoff)) <= Cap
         /\ \A r \in ToSet(Pruned(cutoff)), q \in ToSet(table) \ ToSet(Pruned(cutoff)) : Newer(r, q)
<1> DEFINE since == { r \in ToSet(table) : r.at >= cutoff }
           s == NewestFirst(since)
           f == First(Cap, s)
<1>1. IsFiniteSet(ToSet(table)) /\ ToSet(table) \subseteq Row
  BY RowsAreFinite
<1>2. since \in SUBSET ToSet(table)
  OBVIOUS
<1>3. IsFiniteSet(since) /\ since \subseteq Row
  BY <1>1, <1>2, FS_Subset
<1>4. Pruned(cutoff) = f
  BY DEF Pruned
<1>5. Orders(s, since)
  BY <1>3, NewestFirstOrders
<1>6. s \in Seq(Row) /\ Descends(s) /\ ToSet(s) = since
  BY <1>5 DEF Orders
<1>7. /\ f \in Seq(Row) /\ Len(f) <= Cap /\ ToSet(f) \subseteq since
      /\ \A a \in ToSet(f), r \in since \ ToSet(f) : Newer(a, r)
  BY <1>6, RowBounds, FirstIs
<1>8. cutoff \in Nat
  BY DEF Cutoffs
<1>9. ASSUME NEW a \in ToSet(f), NEW q \in ToSet(table) \ ToSet(f) PROVE Newer(a, q)
  <2>1. CASE q \in since
    BY <1>7, <2>1
  <2>2. CASE q \notin since
    <3>1. a.at \in Nat /\ q.at \in Nat /\ a.at >= cutoff /\ ~ (q.at >= cutoff)
      BY <1>1, <1>7, <2>2, RowBounds
    <3> QED
      BY <1>8, <3>1 DEF Newer
  <2> QED
    BY <2>1, <2>2
<1> QED
  BY <1>4, <1>7, <1>9

\* A sequence with one row removed.
LEMMA RemovingIs ==
  ASSUME NEW s \in Seq(Row), NEW i \in DOMAIN s
  PROVE  RemoveAt(s, i) \in Seq(Row) /\ Len(RemoveAt(s, i)) = Len(s) - 1
<1> DEFINE n == Len(s)
           a == SubSeq(s, 1, i - 1)
           b == SubSeq(s, i + 1, n)
<1>1. n \in Nat /\ DOMAIN s = 1 .. n /\ (\A j \in 1 .. n : s[j] \in Row)
  BY LenProperties, ElementOfSeq
<1>2. RemoveAt(s, i) = a \o b
  BY DEF RemoveAt
<1> HIDE DEF n
<1>3. n \in Nat /\ i \in Int /\ 1 <= i /\ i <= n
  BY <1>1
<1>4. /\ i - 1 \in Int /\ i + 1 \in Int /\ n \in Int
      /\ \A j \in 1 .. i - 1 : j \in 1 .. n
      /\ \A j \in i + 1 .. n : j \in 1 .. n
  BY <1>3
<1>5. a \in Seq(Row) /\ Len(a) = IF 1 <= i - 1 THEN i - 1 - 1 + 1 ELSE 0
  BY <1>1, <1>4, SubSeqProperties
<1>6. b \in Seq(Row) /\ Len(b) = IF i + 1 <= n THEN n - (i + 1) + 1 ELSE 0
  BY <1>1, <1>4, SubSeqProperties
<1> HIDE DEF a, b
<1>7. Len(a) = i - 1
  BY <1>3, <1>5
<1>8. Len(b) = n - i
  BY <1>3, <1>6
<1>9. a \o b \in Seq(Row) /\ Len(a \o b) = Len(a) + Len(b)
  BY <1>5, <1>6, ConcatProperties
<1>10. Len(a \o b) = n - 1
  <2>1. (i - 1) + (n - i) = n - 1
    BY <1>3
  <2> QED
    BY <1>7, <1>8, <1>9, <2>1, Zenon
<1> QED
  BY <1>2, <1>9, <1>10 DEF n

\* Maintenance and the switch.
LEMMA CleaningKeeps == HistoryInv /\ (PruneHistory \/ ClearRows) => HistoryInv'
<1> SUFFICES ASSUME HistoryInv, PruneHistory \/ ClearRows PROVE HistoryInv'
  OBVIOUS
<1>1. /\ table \in Seq(Row) /\ Len(table) \in Nat /\ Cap \in Nat
      /\ home = "json" => Len(table) <= Cap
  BY HistoryTyped, RowBounds DEF HistoryInv, HistoryTypeOK
<1>2. CASE PruneHistory /\ list # "alerts"
  <2>1. PICK cutoff \in Cutoffs : Becomes(Pruned(cutoff))
    BY <1>2 DEF PruneHistory
  <2> QED
    BY <1>1, <2>1, PrunedIs, BecomingKeeps
<1>3. CASE PruneHistory /\ list = "alerts"
  <2>1. PICK i \in DOMAIN table : Becomes(RemoveAt(table, i))
    BY <1>3 DEF PruneHistory
  <2>2. RemoveAt(table, i) \in Seq(Row) /\ Len(RemoveAt(table, i)) = Len(table) - 1
    BY <1>1, RemovingIs
  <2>3. home = "json" => Len(RemoveAt(table, i)) <= Cap
    BY <1>1, <2>2
  <2> QED
    BY <2>1, <2>2, <2>3, BecomingKeeps
<1>4. CASE ClearRows
  <2>1. << >> \in Seq(Row) /\ Len(<< >>) <= Cap
    BY <1>1, EmptySeq
  <2> QED
    BY <1>4, <2>1, BecomingKeeps DEF ClearRows
<1> QED
  BY <1>2, <1>3, <1>4

\* Every step keeps it.
LEMMA HistoryKeeps == HistoryInv /\ [HNext]_hvars => HistoryInv'
<1> SUFFICES ASSUME HistoryInv, [HNext]_hvars PROVE HistoryInv'
  OBVIOUS
<1>1. CASE UNCHANGED hvars
  BY <1>1 DEF hvars, HistoryInv, HistoryTypeOK, WalksDescend, WalksAreComplete
<1>2. CASE ListHostSamples \/ ListContainerSamples \/ ListEvents \/ ListAlerts
  BY <1>2, ReadsKeep
     DEF ListHostSamples, ListContainerSamples, ListEvents, ListAlerts, Reads
<1>3. CASE Leave
  BY <1>3, ReadsKeep
<1>4. CASE Insert
  BY <1>4, InsertKeeps
<1>5. CASE Touch
  BY <1>5, TouchKeeps
<1>6. CASE PruneHistory \/ ClearRows
  BY <1>6, CleaningKeeps
<1> QED
  BY <1>1, <1>2, <1>3, <1>4, <1>5, <1>6 DEF HNext

\* A walk over the pages of a history shows every row at most once and in order, and
\* one that comes to its end, its cursors found, every row that stood all the while,
\* whatever snapshots, maintenance and the switch did between two pages.
THEOREM WalksStayExact == HSpec => []WalksAreExact
<1>1. HistoryInv => WalksAreExact
  BY DEF HistoryInv, WalksAreExact
<1> QED
  BY <1>1, HistoryOpens, HistoryKeeps, PTL DEF HSpec

\* A step of maintenance gives up no row for an older one.
LEMMA PruningIsFair ==
  ASSUME HistoryInv, PruneHistory, list # "alerts"
  PROVE  \A gone \in ToSet(table) \ ToSet(table'), kept \in ToSet(table') : Newer(kept, gone)
<1>1. table \in Seq(Row)
  BY HistoryTyped DEF HistoryInv
<1>2. PICK cutoff \in Cutoffs : Becomes(Pruned(cutoff))
  BY DEF PruneHistory
<1>3. /\ Pruned(cutoff) \in Seq(Row) /\ Len(Pruned(cutoff)) <= Cap
      /\ \A r \in ToSet(Pruned(cutoff)), q \in ToSet(table) \ ToSet(Pruned(cutoff)) : Newer(r, q)
  BY <1>1, PrunedIs
<1>4. ToSet(table') = ToSet(Pruned(cutoff))
  BY <1>2, <1>3, BecomingKeeps
<1> QED
  BY <1>3, <1>4

\* Maintenance never gives up a row of the history for an older one.
THEOREM PruningAlwaysKeepsTheNewest == HSpec => PruningKeepsTheNewest
<1>1. HistoryInv =>
        ((PruneHistory /\ list # "alerts")
           => \A gone \in ToSet(table) \ ToSet(table'), kept \in ToSet(table') :
                Newer(kept, gone))
  BY PruningIsFair
<1> QED
  BY <1>1, HistoryOpens, HistoryKeeps, PTL DEF HSpec, PruningKeepsTheNewest

-----------------------------------------------------------------------------
(* The inventory: what its record, its requests and its pushes can be *)

Edit == [ at : {"idle", "read", "clean", "write"}, op : {"update", "delete", "mark"},
          patch : Patches \cup {<< >>}, old : BOOLEAN, cleaned : BOOLEAN ]

Beat == [ id : 1 .. MaxBeats, at : {"sent", "docker", "locate", "mark"}, on : BOOLEAN,
          now : 0 .. MaxBeats ]

SentBeats == { b \in beats : b.at = "sent" }

\* The clock is taken once for each push that has been read.
ClockIsCounted ==
  /\ used \in [edits : Nat, beats : Nat, ensures : Nat, slips : Nat, clock : Nat]
  /\ used.beats <= MaxBeats
  /\ IsFiniteSet(SentBeats) /\ used.clock + Cardinality(SentBeats) <= used.beats
  /\ \A b \in beats : b.id <= used.beats

\* A script holds the record of the local host, as it is until the API writes.
ScriptHoldsTheRecord ==
  script # Nobody => script.kind = "local" /\ (~ crossed => rec = script)

Busy(e) == edits[e].at # "idle"

AloneUnlessOverlapped == ~ overlapped => \A d, e \in Editors : Busy(d) /\ Busy(e) => d = e

TurnsOff(e) ==
  edits[e].op = "update" /\ "metrics" \in DOMAIN edits[e].patch /\ ~ edits[e].patch.metrics

\* An edit about to turn the metrics off has cleaned up, or they are off.
OffWasCleaned ==
  ~ overlapped /\ ~ crossed =>
    \A e \in Editors : (edits[e].at = "write" /\ TurnsOff(e) /\ rec # Nobody)
                         => (rec.metrics => edits[e].cleaned)

InventoryInv ==
  /\ keptIn \in Inventories
  /\ rec \in VpsRecord \cup {Nobody} /\ script \in VpsRecord \cup {Nobody}
  /\ dockerRows \in BOOLEAN /\ crossed \in BOOLEAN /\ overlapped \in BOOLEAN
  /\ edits \in [Editors -> Edit] /\ beats \subseteq Beat
  /\ ClockIsCounted /\ ScriptHoldsTheRecord /\ AloneUnlessOverlapped /\ OffWasCleaned

\* The invariant is what the type invariant asks for, and more.
LEMMA InventoryIsTyped == InventoryInv => InventoryTypeOK
<1> SUFFICES ASSUME InventoryInv PROVE InventoryTypeOK
  OBVIOUS
<1>1. \A e \in Editors : edits[e] \in Edit
  BY DEF InventoryInv
<1>2. \A e \in Editors : edits[e].at \in {"idle", "read", "clean", "write"}
  BY <1>1 DEF Edit
<1>3. \A b \in beats : b.at \in {"sent", "docker", "locate", "mark"} /\ b.id \in 1 .. MaxBeats
  BY DEF InventoryInv, Beat
<1> QED
  BY <1>2, <1>3 DEF InventoryInv, InventoryTypeOK

\* No record is the absence of one.
LEMMA NobodyIsNone ==
  /\ Nobody \notin VpsRecord /\ Nobody.kind = "none"
  /\ \A r \in VpsRecord : r.kind \in {"local", "remote"}
BY DEF Nobody, VpsRecord

\* The bounds are numbers.
LEMMA PushBounds ==
  MaxEdits \in Nat /\ MaxBeats \in Nat /\ MaxEnsures \in Nat /\ MaxSlips \in Nat
<1>1. {MaxEdits, MaxBeats, MaxEnsures, MaxSlips} \subseteq Nat
  BY InventoryAssumption
<1> QED
  BY <1>1

\* The fields of a record.
Fields == {"kind", "metrics", "management", "endpoint", "key", "located", "seen"}

\* A record with the fields of a patch replaced is a record, and the fields the
\* patch does not name are as they were.
LEMMA MergingIs ==
  ASSUME NEW r \in VpsRecord, NEW patch \in Patches \cup {<< >>}
  PROVE  /\ Merged(r, patch) \in VpsRecord /\ DOMAIN r = Fields
         /\ \A f \in Fields : f \notin DOMAIN patch => Merged(r, patch)[f] = r[f]
         /\ DOMAIN patch \cap {"kind", "key", "located", "seen"} = {}
         /\ Merged(r, patch).metrics
              = IF "metrics" \in DOMAIN patch THEN patch.metrics ELSE r.metrics
<1>1. DOMAIN r = Fields
  BY DEF VpsRecord, Fields
<1>2. DOMAIN << >> = {}
  <2>1. << >> \in Seq({}) /\ Len(<< >>) = 0
    BY EmptySeq
  <2>2. DOMAIN << >> = 1 .. 0
    BY <2>1, LenProperties
  <2> QED
    BY <2>2
<1>3. /\ DOMAIN patch \cap {"kind", "key", "located", "seen"} = {}
      /\ "metrics" \in DOMAIN patch => patch["metrics"] \in BOOLEAN
      /\ "management" \in DOMAIN patch => patch["management"] \in BOOLEAN
      /\ "endpoint" \in DOMAIN patch => patch["endpoint"] \in Addresses
  <2>1. CASE patch \in [{"metrics"} -> BOOLEAN]
    BY <2>1
  <2>2. CASE patch \in [{"management"} -> BOOLEAN]
    BY <2>2
  <2>3. CASE patch \in [{"endpoint"} -> Addresses]
    BY <2>3
  <2>4. CASE patch = [metrics |-> FALSE, endpoint |-> "here"]
    BY <2>4 DEF Addresses
  <2>5. CASE patch = << >>
    BY <1>2, <2>5
  <2> QED
    BY <2>1, <2>2, <2>3, <2>4, <2>5 DEF Patches
<1> DEFINE m == Merged(r, patch)
<1>4. /\ m = [f \in DOMAIN r |-> IF f \in DOMAIN patch THEN patch[f] ELSE r[f]]
      /\ m = [f \in Fields |-> IF f \in DOMAIN patch THEN patch[f] ELSE r[f]]
  BY <1>1 DEF Merged
<1>5. /\ \A f \in Fields : m[f] = IF f \in DOMAIN patch THEN patch[f] ELSE r[f]
      /\ DOMAIN m = Fields
  BY <1>4
<1> HIDE DEF m
<1>6. /\ m["kind"] = r["kind"] /\ m["key"] = r["key"] /\ m["located"] = r["located"]
      /\ m["seen"] = r["seen"]
  BY <1>3, <1>5 DEF Fields
<1>7. /\ m["metrics"] \in BOOLEAN /\ m["management"] \in BOOLEAN /\ m["endpoint"] \in Addresses
  BY <1>3, <1>5 DEF Fields, VpsRecord
<1>8. m \in VpsRecord
  <2>1. m = [ kind |-> m["kind"], metrics |-> m["metrics"], management |-> m["management"],
              endpoint |-> m["endpoint"], key |-> m["key"], located |-> m["located"],
              seen |-> m["seen"] ]
    BY <1>4, <1>5 DEF Fields
  <2> QED
    BY <1>6, <1>7, <2>1 DEF VpsRecord
<1>9. m["metrics"] = IF "metrics" \in DOMAIN patch THEN patch["metrics"] ELSE r["metrics"]
  BY <1>5 DEF Fields
<1> QED
  BY <1>1, <1>3, <1>5, <1>8, <1>9 DEF m

\* What starts make of a record: that of the local host, with its switches.
LEMMA EnsuringIs ==
  ASSUME NEW r \in VpsRecord \cup {Nobody}
  PROVE  /\ Ensured(r) \in VpsRecord /\ Ensured(r).kind = "local"
         /\ r # Nobody => /\ Ensured(r).metrics = r.metrics /\ Ensured(r).located = r.located
                          /\ \A f \in Fields \ {"kind", "endpoint"} : Ensured(r)[f] = r[f]
         /\ r = Nobody => Ensured(r).metrics = FALSE
<1> DEFINE q == IF r = Nobody THEN NewVps ELSE r
<1>1. NewVps \in VpsRecord /\ NewVps.metrics = FALSE
  BY PushBounds DEF NewVps, VpsRecord, Addresses
<1>2. q \in VpsRecord
  BY <1>1
<1>3. Ensured(r) = [q EXCEPT !.kind = "local", !.endpoint = "here"]
  BY DEF Ensured
<1>4. (r # Nobody => q = r) /\ (r = Nobody => q.metrics = FALSE)
  BY <1>1
<1> HIDE DEF q
<1>5. /\ Ensured(r) \in VpsRecord /\ Ensured(r).kind = "local"
      /\ Ensured(r).metrics = q.metrics /\ Ensured(r).located = q.located
      /\ \A f \in Fields \ {"kind", "endpoint"} : Ensured(r)[f] = q[f]
  BY <1>2, <1>3 DEF VpsRecord, Fields, Addresses
<1> QED
  BY <1>4, <1>5

-----------------------------------------------------------------------------
(* The requests of the dashboard *)

\* The parts that say what the variables can be.
InventoryTyped ==
  /\ keptIn \in Inventories
  /\ rec \in VpsRecord \cup {Nobody} /\ script \in VpsRecord \cup {Nobody}
  /\ dockerRows \in BOOLEAN /\ crossed \in BOOLEAN /\ overlapped \in BOOLEAN
  /\ edits \in [Editors -> Edit] /\ beats \subseteq Beat

LEMMA NoEditIs == NoEdit \in Edit /\ NoEdit.at = "idle"
BY DEF NoEdit, Edit

\* Initially nobody is busy and no push is under way.
LEMMA InventoryOpens == IInit => InventoryInv
<1> SUFFICES ASSUME IInit PROVE InventoryInv
  OBVIOUS
<1>1. NewVps \in VpsRecord /\ Ensured(Nobody) \in VpsRecord
  <2>1. NewVps \in VpsRecord
    BY PushBounds DEF NewVps, VpsRecord, Addresses
  <2>2. Ensured(Nobody) \in VpsRecord
    BY EnsuringIs
  <2> QED
    BY <2>1, <2>2
<1>2. InventoryTyped
  BY <1>1, NoEditIs DEF IInit, InventoryTyped
<1>3. ClockIsCounted
  <2>1. SentBeats = {}
    BY DEF IInit, SentBeats
  <2>2. IsFiniteSet({}) /\ Cardinality({}) = 0
    BY FS_EmptySet
  <2>3. /\ used \in [edits : Nat, beats : Nat, ensures : Nat, slips : Nat, clock : Nat]
        /\ used.beats = 0 /\ used.clock = 0
    BY DEF IInit
  <2> QED
    BY <2>1, <2>2, <2>3, PushBounds DEF ClockIsCounted, IInit
<1>4. \A e \in Editors : edits[e].at = "idle"
  BY NoEditIs DEF IInit
<1>5. ScriptHoldsTheRecord /\ AloneUnlessOverlapped /\ OffWasCleaned
  BY <1>4 DEF IInit, ScriptHoldsTheRecord, AloneUnlessOverlapped, OffWasCleaned, Busy
<1> QED
  BY <1>2, <1>3, <1>5 DEF InventoryInv, InventoryTyped

\* An edit that moves on: the others are as they were.
LEMMA EditMoves ==
  ASSUME InventoryInv, NEW e \in Editors, NEW x \in Edit,
         edits' = [edits EXCEPT ![e] = x], UNCHANGED overlapped,
         Busy(e) \/ x.at = "idle"
  PROVE  /\ edits' \in [Editors -> Edit] /\ edits'[e] = x
         /\ \A d \in Editors : d # e => edits'[d] = edits[d]
         /\ AloneUnlessOverlapped'
<1>1. edits \in [Editors -> Edit]
  BY DEF InventoryInv
<1>2. /\ edits' \in [Editors -> Edit] /\ edits'[e] = x
      /\ \A d \in Editors : d # e => edits'[d] = edits[d]
  BY <1>1
<1>3. \A d \in Editors : Busy(d)' => Busy(d)
  BY <1>2 DEF Busy
<1>4. AloneUnlessOverlapped'
  BY <1>3 DEF InventoryInv, AloneUnlessOverlapped
<1> QED
  BY <1>2, <1>4

\* What an edit has cleaned stands while the record does, or keeps its switch.
LEMMA CleanedStays ==
  ASSUME InventoryInv, UNCHANGED overlapped, crossed \in BOOLEAN, ~ crossed' => ~ crossed,
         (rec' # Nobody /\ rec'.metrics) => (rec # Nobody /\ rec.metrics),
         \A d \in Editors : \/ edits'[d] = edits[d] \/ edits'[d].at # "write"
  PROVE  OffWasCleaned'
<1>1. ASSUME ~ overlapped', ~ crossed', NEW d \in Editors, edits'[d].at = "write",
             TurnsOff(d)', rec' # Nobody, rec'.metrics
      PROVE  edits'[d].cleaned
  <2>1. edits'[d] = edits[d]
    BY <1>1
  <2>2. edits[d].at = "write" /\ TurnsOff(d) /\ rec # Nobody /\ rec.metrics
    BY <1>1, <2>1 DEF TurnsOff
  <2>3. ~ overlapped /\ ~ crossed
    BY <1>1
  <2>4. edits[d].cleaned
    BY <2>2, <2>3 DEF InventoryInv, OffWasCleaned
  <2> QED
    BY <2>1, <2>4
<1> QED
  BY <1>1 DEF OffWasCleaned

\* A request comes in.
LEMMA RequestKeeps == InventoryInv /\ RequestEdit => InventoryInv'
<1> SUFFICES ASSUME InventoryInv, RequestEdit PROVE InventoryInv'
  OBVIOUS
<1>1. PICK e \in Editors, op \in {"update", "delete", "mark"} :
        /\ edits[e].at = "idle"
        /\ \E patch \in IF op = "update" THEN Patches ELSE {<< >>} :
             edits' = [edits EXCEPT ![e] = Asked(op, patch)]
  BY DEF RequestEdit
<1>2. PICK patch \in IF op = "update" THEN Patches ELSE {<< >>} :
        edits' = [edits EXCEPT ![e] = Asked(op, patch)]
  BY <1>1
<1> DEFINE x == Asked(op, patch)
<1>3. patch \in Patches \cup {<< >>}
  OBVIOUS
<1>4. x \in Edit /\ x.at = "read"
  BY <1>3 DEF Asked, NoEdit, Edit
<1>5. edits' = [edits EXCEPT ![e] = x]
  BY <1>2
<1> HIDE DEF x
<1>6. /\ used' = [used EXCEPT !.edits = @ + 1]
      /\ overlapped' = (overlapped \/ \E d \in Editors : edits[d].at # "idle")
      /\ UNCHANGED <<keptIn, rec, dockerRows, beats, script, crossed>>
  BY DEF RequestEdit
<1>7. /\ edits' \in [Editors -> Edit] /\ edits'[e] = x
      /\ \A d \in Editors : d # e => edits'[d] = edits[d]
  BY <1>4, <1>5 DEF InventoryInv
<1>8. InventoryTyped'
  BY <1>6, <1>7 DEF InventoryInv, InventoryTyped
<1>9. ClockIsCounted'
  BY <1>6 DEF InventoryInv, ClockIsCounted, SentBeats
<1>10. ScriptHoldsTheRecord'
  BY <1>6 DEF InventoryInv, ScriptHoldsTheRecord
<1>11. AloneUnlessOverlapped'
  BY <1>6, <1>7 DEF AloneUnlessOverlapped, Busy
<1>12. OffWasCleaned'
  <2>1. \A d \in Editors : edits'[d] = edits[d] \/ edits'[d].at # "write"
    BY <1>4, <1>7
  <2>2. ASSUME ~ overlapped' PROVE UNCHANGED overlapped
    BY <1>6, <2>2 DEF InventoryInv
  <2>3. CASE ~ overlapped'
    BY <1>6, <2>1, <2>2, <2>3, CleanedStays DEF InventoryInv
  <2>4. CASE overlapped'
    BY <2>4 DEF OffWasCleaned
  <2> QED
    BY <2>3, <2>4
<1> QED
  BY <1>8, <1>9, <1>10, <1>11, <1>12 DEF InventoryInv, InventoryTyped

\* A request reads the record.
LEMMA ReadingKeeps ==
  ASSUME InventoryInv, NEW e \in Editors, ReadRecord(e)
  PROVE  InventoryInv'
<1>1. /\ edits[e].at = "read"
      /\ IF Refused(e) \/ (edits[e].op = "update" /\ StandsAsAsked(e)) THEN Over(e)
         ELSE Edited(e, IF Disables(e) THEN "clean" ELSE "write")
      /\ UNCHANGED <<keptIn, rec, dockerRows, beats, script, used, crossed, overlapped>>
  BY DEF ReadRecord
<1>2. edits \in [Editors -> Edit] /\ edits[e] \in Edit
  BY DEF InventoryInv
<1>3. PICK x \in Edit :
        /\ edits' = [edits EXCEPT ![e] = x]
        /\ \/ x.at # "write"
           \/ x.op = edits[e].op /\ x.patch = edits[e].patch /\ ~ Disables(e) /\ rec # Nobody
  <2>1. CASE Over(e)
    BY <2>1, NoEditIs DEF Over
  <2>2. ASSUME NEW step \in {"clean", "write"}, Edited(e, step),
               step = "write" => ~ Disables(e) /\ rec # Nobody
        PROVE  \E x \in Edit :
                 /\ edits' = [edits EXCEPT ![e] = x]
                 /\ \/ x.at # "write"
                    \/ /\ x.op = edits[e].op /\ x.patch = edits[e].patch
                       /\ ~ Disables(e) /\ rec # Nobody
    <3> DEFINE x == [edits[e] EXCEPT !.at = step]
    <3>1. x \in Edit /\ x.at = step /\ x.op = edits[e].op /\ x.patch = edits[e].patch
      BY <1>2 DEF Edit
    <3>2. edits' = [edits EXCEPT ![e] = x]
      BY <2>2 DEF Edited
    <3> HIDE DEF x
    <3> QED
      BY <2>2, <3>1, <3>2
  <2>3. CASE ~ Over(e)
    <3>1. ~ Refused(e) /\ Edited(e, IF Disables(e) THEN "clean" ELSE "write")
      BY <1>1, <2>3
    <3>2. rec # Nobody
      BY <3>1 DEF Refused
    <3>3. CASE Disables(e)
      BY <2>2, <3>1, <3>3
    <3>4. CASE ~ Disables(e)
      BY <2>2, <3>1, <3>2, <3>4
    <3> QED
      BY <3>3, <3>4
  <2> QED
    BY <2>1, <2>3
<1>4. Busy(e)
  BY <1>1 DEF Busy
<1>5. /\ edits' \in [Editors -> Edit] /\ edits'[e] = x
      /\ \A d \in Editors : d # e => edits'[d] = edits[d]
      /\ AloneUnlessOverlapped'
  BY <1>1, <1>3, <1>4, EditMoves
<1>6. InventoryTyped'
  BY <1>1, <1>5 DEF InventoryInv, InventoryTyped
<1>7. ClockIsCounted' /\ ScriptHoldsTheRecord'
  BY <1>1 DEF InventoryInv, ClockIsCounted, SentBeats, ScriptHoldsTheRecord
<1>8. ASSUME ~ overlapped', ~ crossed', NEW d \in Editors, edits'[d].at = "write",
             TurnsOff(d)', rec' # Nobody, rec'.metrics
      PROVE  edits'[d].cleaned
  <2>1. CASE d # e
    <3>1. edits'[d] = edits[d] /\ UNCHANGED <<rec, overlapped, crossed>>
      BY <1>1, <1>5, <2>1
    <3>2. edits[d].at = "write" /\ TurnsOff(d) /\ rec # Nobody /\ rec.metrics
      BY <1>8, <3>1 DEF TurnsOff
    <3> QED
      BY <1>8, <3>1, <3>2 DEF InventoryInv, OffWasCleaned
  <2>2. CASE d = e
    <3>1. x.at = "write" /\ rec.metrics
      BY <1>1, <1>5, <1>8, <2>2
    <3>2. x.op = edits[e].op /\ x.patch = edits[e].patch /\ ~ Disables(e)
      BY <1>3, <3>1
    <3>3. TurnsOff(e)
      BY <1>5, <1>8, <2>2, <3>2 DEF TurnsOff
    <3>4. Disables(e)
      BY <3>1, <3>3 DEF TurnsOff, Disables
    <3> QED
      BY <3>2, <3>4
  <2> QED
    BY <2>1, <2>2
<1>9. OffWasCleaned'
  BY <1>8 DEF OffWasCleaned
<1> QED
  BY <1>5, <1>6, <1>7, <1>9 DEF InventoryInv, InventoryTyped

\* The history is deleted, or not.
LEMMA CleaningUpKeeps ==
  ASSUME InventoryInv, NEW e \in Editors, CleanHistory(e)
  PROVE  InventoryInv'
<1>1. /\ edits[e].at = "clean"
      /\ \/ /\ dockerRows' = FALSE
            /\ edits' = [edits EXCEPT ![e].at = "write", ![e].cleaned = TRUE]
            /\ UNCHANGED used
         \/ /\ used' = [used EXCEPT !.slips = @ + 1]
            /\ Over(e) /\ UNCHANGED dockerRows
      /\ UNCHANGED <<keptIn, rec, beats, script, crossed, overlapped>>
  BY DEF CleanHistory
<1>2. edits \in [Editors -> Edit] /\ edits[e] \in Edit
  BY DEF InventoryInv
<1>3. PICK x \in Edit : edits' = [edits EXCEPT ![e] = x] /\ (x.at # "write" \/ x.cleaned)
  <2>1. CASE Over(e)
    BY <2>1, NoEditIs DEF Over
  <2>2. CASE edits' = [edits EXCEPT ![e].at = "write", ![e].cleaned = TRUE]
    <3> DEFINE x == [edits[e] EXCEPT !.at = "write", !.cleaned = TRUE]
    <3>1. x \in Edit /\ x.cleaned
      BY <1>2 DEF Edit
    <3>2. edits' = [edits EXCEPT ![e] = x]
      BY <1>2, <2>2
    <3> HIDE DEF x
    <3> QED
      BY <3>1, <3>2
  <2> QED
    BY <1>1, <2>1, <2>2
<1>4. Busy(e)
  BY <1>1 DEF Busy
<1>5. /\ edits' \in [Editors -> Edit] /\ edits'[e] = x
      /\ \A d \in Editors : d # e => edits'[d] = edits[d]
      /\ AloneUnlessOverlapped'
  BY <1>1, <1>3, <1>4, EditMoves
<1>6. InventoryTyped'
  BY <1>1, <1>5 DEF InventoryInv, InventoryTyped
<1>7. ScriptHoldsTheRecord'
  BY <1>1 DEF InventoryInv, ScriptHoldsTheRecord
<1>8. ClockIsCounted'
  BY <1>1 DEF InventoryInv, ClockIsCounted, SentBeats
<1>9. ASSUME ~ overlapped', ~ crossed', NEW d \in Editors, edits'[d].at = "write",
             TurnsOff(d)', rec' # Nobody, rec'.metrics
      PROVE  edits'[d].cleaned
  <2>1. CASE d # e
    <3>1. edits'[d] = edits[d] /\ UNCHANGED <<rec, overlapped, crossed>>
      BY <1>1, <1>5, <2>1
    <3>2. edits[d].at = "write" /\ TurnsOff(d) /\ rec # Nobody /\ rec.metrics
      BY <1>9, <3>1 DEF TurnsOff
    <3> QED
      BY <1>9, <3>1, <3>2 DEF InventoryInv, OffWasCleaned
  <2>2. CASE d = e
    BY <1>3, <1>5, <1>9, <2>2
  <2> QED
    BY <2>1, <2>2
<1>10. OffWasCleaned'
  BY <1>9 DEF OffWasCleaned
<1> QED
  BY <1>5, <1>6, <1>7, <1>8, <1>10 DEF InventoryInv, InventoryTyped

\* What a request writes is a record, and only what it was asked to write differs.
LEMMA PatchingIs ==
  ASSUME InventoryInv, NEW e \in Editors, rec # Nobody
  PROVE  /\ Patched(rec, e) \in VpsRecord /\ DOMAIN rec = Fields
         /\ Patched(rec, e).located = rec.located
         /\ \A f \in Fields : Patched(rec, e)[f] # rec[f] =>
              f \in DOMAIN edits[e].patch \/ (f = "key" /\ edits[e].op = "mark")
         /\ rec.metrics /\ ~ Patched(rec, e).metrics
              => "metrics" \in DOMAIN edits[e].patch /\ ~ edits[e].patch.metrics
                 /\ edits[e].op # "mark"
<1>1. rec \in VpsRecord /\ edits[e] \in Edit
  BY DEF InventoryInv
<1>2. edits[e].patch \in Patches \cup {<< >>}
  BY <1>1 DEF Edit
<1>3. CASE edits[e].op = "mark"
  <2>1. Patched(rec, e) = [rec EXCEPT !.key = TRUE]
    BY <1>3 DEF Patched
  <2>2. /\ Patched(rec, e) \in VpsRecord /\ DOMAIN rec = Fields
        /\ Patched(rec, e).located = rec.located /\ Patched(rec, e).metrics = rec.metrics
        /\ \A f \in Fields : f # "key" => Patched(rec, e)[f] = rec[f]
    BY <1>1, <2>1 DEF VpsRecord, Fields
  <2> QED
    BY <1>3, <2>2
<1>4. CASE edits[e].op # "mark"
  <2> DEFINE patch == edits[e].patch
             m == Merged(rec, patch)
  <2>1. Patched(rec, e) = m
    BY <1>4 DEF Patched
  <2>2. patch \in Patches \cup {<< >>}
    BY <1>2
  <2> HIDE DEF patch
  <2>3. /\ m \in VpsRecord /\ DOMAIN rec = Fields
        /\ \A f \in Fields : f \notin DOMAIN patch => m[f] = rec[f]
        /\ DOMAIN patch \cap {"kind", "key", "located", "seen"} = {}
        /\ m.metrics = IF "metrics" \in DOMAIN patch THEN patch.metrics ELSE rec.metrics
    BY <1>1, <2>2, MergingIs
  <2> HIDE DEF m
  <2>4. m["located"] = rec["located"]
    BY <2>3 DEF Fields
  <2>5. ASSUME rec.metrics, ~ m.metrics PROVE "metrics" \in DOMAIN patch /\ ~ patch.metrics
    BY <2>3, <2>5
  <2>6. \A f \in Fields : m[f] # rec[f] => f \in DOMAIN patch
    BY <2>3
  <2> QED
    BY <1>4, <2>1, <2>3, <2>4, <2>5, <2>6 DEF patch
<1> QED
  BY <1>3, <1>4

\* A request writes by the id.
LEMMA WritingKeeps ==
  ASSUME InventoryInv, NEW e \in Editors, WriteRecord(e)
  PROVE  InventoryInv'
<1>1. /\ edits[e].at = "write" /\ edits' = [edits EXCEPT ![e] = NoEdit]
      /\ rec' = IF rec = Nobody \/ edits[e].op = "delete" THEN Nobody ELSE Patched(rec, e)
      /\ dockerRows' = (dockerRows /\ ~ (edits[e].op = "delete" /\ keptIn = "postgres"))
      /\ crossed' = (crossed \/ script # Nobody)
      /\ UNCHANGED <<keptIn, beats, script, used, overlapped>>
  BY DEF WriteRecord, Over, Crosses
<1>2. /\ edits' \in [Editors -> Edit] /\ edits'[e] = NoEdit
      /\ \A d \in Editors : d # e => edits'[d] = edits[d]
      /\ AloneUnlessOverlapped'
  BY <1>1, NoEditIs, EditMoves
<1>3. rec' \in VpsRecord \cup {Nobody}
  BY <1>1, PatchingIs
<1>4. dockerRows' \in BOOLEAN /\ crossed' \in BOOLEAN
  BY <1>1 DEF InventoryInv
<1>5. InventoryTyped'
  BY <1>1, <1>2, <1>3, <1>4 DEF InventoryInv, InventoryTyped
<1>6. ClockIsCounted'
  BY <1>1 DEF InventoryInv, ClockIsCounted, SentBeats
<1>7. ScriptHoldsTheRecord'
  BY <1>1 DEF InventoryInv, ScriptHoldsTheRecord
<1>8. ASSUME ~ overlapped', NEW d \in Editors PROVE edits'[d].at # "write"
  <2>1. CASE d = e
    BY <1>2, <2>1, NoEditIs
  <2>2. CASE d # e
    <3>1. Busy(e) /\ ~ overlapped
      BY <1>1, <1>8 DEF Busy
    <3>2. ~ Busy(d)
      BY <2>2, <3>1 DEF InventoryInv, AloneUnlessOverlapped
    <3> QED
      BY <1>2, <2>2, <3>2 DEF Busy
  <2> QED
    BY <2>1, <2>2
<1>9. OffWasCleaned'
  BY <1>8 DEF OffWasCleaned
<1> QED
  BY <1>2, <1>5, <1>6, <1>7, <1>9 DEF InventoryInv, InventoryTyped

-----------------------------------------------------------------------------
(* The pushes of the agent *)

\* A push that goes on, or ends, after it was read.
LEMMA PushMoves ==
  ASSUME InventoryInv, NEW b \in beats, b.at # "sent", NEW c \in Beat, c.at # "sent",
         c.id = b.id, beats' = beats \ {b} \/ GoesOn(b, c), UNCHANGED used
  PROVE  ClockIsCounted' /\ beats' \subseteq Beat
<1>1. beats' \subseteq beats \cup {c} /\ beats \ {b} \subseteq beats'
  BY DEF GoesOn
<1>2. SentBeats' = SentBeats
  BY <1>1 DEF SentBeats
<1>3. \A a \in beats' : a.id <= used.beats
  BY <1>1 DEF InventoryInv, ClockIsCounted
<1> QED
  BY <1>1, <1>2, <1>3 DEF InventoryInv, ClockIsCounted

\* A push comes in.
LEMMA PushKeeps == InventoryInv /\ PushBeat => InventoryInv'
<1> SUFFICES ASSUME InventoryInv, PushBeat PROVE InventoryInv'
  OBVIOUS
<1> DEFINE c == [ id |-> used.beats + 1, at |-> "sent", on |-> FALSE, now |-> 0 ]
<1>1. /\ used.beats < MaxBeats /\ used' = [used EXCEPT !.beats = @ + 1]
      /\ beats' = beats \cup {c}
      /\ UNCHANGED <<keptIn, rec, dockerRows, edits, script, crossed, overlapped>>
  BY DEF PushBeat
<1>2. /\ used \in [edits : Nat, beats : Nat, ensures : Nat, slips : Nat, clock : Nat]
      /\ IsFiniteSet(SentBeats) /\ used.clock + Cardinality(SentBeats) <= used.beats
      /\ \A b \in beats : b.id <= used.beats
      /\ used.beats \in Nat /\ used.clock \in Nat
  BY DEF InventoryInv, ClockIsCounted
<1>3. used.beats + 1 \in 1 .. MaxBeats /\ 0 \in 0 .. MaxBeats
  BY <1>1, <1>2, PushBounds
<1>4. c \in Beat /\ c.at = "sent" /\ c.id = used.beats + 1
  BY <1>3 DEF Beat
<1> HIDE DEF c
<1>5. c \notin SentBeats
  BY <1>2, <1>4 DEF SentBeats
<1>6. SentBeats' = SentBeats \cup {c}
  BY <1>1, <1>4 DEF SentBeats
<1>7. IsFiniteSet(SentBeats') /\ Cardinality(SentBeats') = Cardinality(SentBeats) + 1
  BY <1>2, <1>5, <1>6, FS_AddElement
<1>8. Cardinality(SentBeats) \in Nat
  BY <1>2, FS_CardinalityType
<1>9. /\ used' \in [edits : Nat, beats : Nat, ensures : Nat, slips : Nat, clock : Nat]
      /\ used'.beats = used.beats + 1 /\ used'.clock = used.clock
  BY <1>1, <1>2
<1>10. used'.clock + Cardinality(SentBeats') <= used'.beats
  BY <1>2, <1>7, <1>8, <1>9
<1>11. \A b \in beats' : b.id <= used'.beats
  <2>1. \A b \in beats : b.id \in Nat
    BY PushBounds DEF InventoryInv, Beat
  <2>2. \A b \in beats : b.id <= used'.beats
    BY <1>2, <1>9, <2>1
  <2>3. c.id <= used'.beats
    BY <1>2, <1>4, <1>9
  <2> QED
    BY <1>1, <2>2, <2>3
<1>12. used'.beats <= MaxBeats
  BY <1>1, <1>2, <1>9, PushBounds
<1>13. ClockIsCounted'
  BY <1>7, <1>9, <1>10, <1>11, <1>12 DEF ClockIsCounted
<1>14. InventoryTyped'
  BY <1>1, <1>4 DEF InventoryInv, InventoryTyped
<1>15. ScriptHoldsTheRecord' /\ AloneUnlessOverlapped' /\ OffWasCleaned'
  BY <1>1 DEF InventoryInv, ScriptHoldsTheRecord, AloneUnlessOverlapped, Busy, OffWasCleaned,
              TurnsOff
<1> QED
  BY <1>13, <1>14, <1>15 DEF InventoryInv, InventoryTyped

\* A push is read: the time is taken, once.
LEMMA SettingsKeep ==
  ASSUME InventoryInv, NEW b \in beats, ReadSettings(b)
  PROVE  InventoryInv'
<1> DEFINE c == [b EXCEPT !.at = "docker", !.on = rec.metrics, !.now = used.clock + 1]
<1>1. /\ b.at = "sent"
      /\ \/ rec = Nobody /\ beats' = beats \ {b} /\ used' = used
         \/ /\ rec # Nobody /\ used' = [used EXCEPT !.clock = @ + 1]
            /\ beats' = (beats \ {b}) \cup {c}
      /\ UNCHANGED <<keptIn, rec, dockerRows, edits, script, crossed, overlapped>>
  BY DEF ReadSettings, GoesOn
<1>2. /\ used \in [edits : Nat, beats : Nat, ensures : Nat, slips : Nat, clock : Nat]
      /\ IsFiniteSet(SentBeats) /\ used.clock + Cardinality(SentBeats) <= used.beats
      /\ \A a \in beats : a.id <= used.beats
      /\ used.beats \in Nat /\ used.clock \in Nat /\ used.beats <= MaxBeats
  BY DEF InventoryInv, ClockIsCounted
<1>3. b \in SentBeats /\ b \in Beat /\ beats \subseteq Beat
  BY <1>1 DEF SentBeats, InventoryInv
<1>4. /\ IsFiniteSet(SentBeats \ {b})
      /\ Cardinality(SentBeats \ {b}) = Cardinality(SentBeats) - 1
  BY <1>2, <1>3, FS_RemoveElement
<1>5. Cardinality(SentBeats) \in Nat /\ Cardinality(SentBeats \ {b}) \in Nat
  BY <1>2, <1>4, FS_CardinalityType
<1>6. used.clock + 1 \in 0 .. MaxBeats
  BY <1>2, <1>4, <1>5, PushBounds
<1>7. ASSUME rec # Nobody PROVE c \in Beat /\ c.at = "docker" /\ c.id = b.id
  <2>1. rec \in VpsRecord
    BY <1>7 DEF InventoryInv
  <2>2. rec.metrics \in BOOLEAN
    BY <2>1 DEF VpsRecord
  <2> QED
    BY <1>3, <1>6, <2>2 DEF Beat
<1> HIDE DEF c
<1>8. beats' \subseteq Beat /\ \A a \in beats' : a.id <= used.beats
  <2>1. CASE rec = Nobody
    BY <1>1, <1>2, <1>3, <2>1
  <2>2. CASE rec # Nobody
    BY <1>1, <1>2, <1>3, <1>7, <2>2
  <2> QED
    BY <2>1, <2>2
<1>9. SentBeats' = SentBeats \ {b}
  <2>1. CASE rec = Nobody
    BY <1>1, <2>1 DEF SentBeats
  <2>2. CASE rec # Nobody
    <3>1. c.at # "sent" /\ beats' = (beats \ {b}) \cup {c}
      BY <1>1, <1>7, <2>2
    <3> QED
      BY <3>1 DEF SentBeats
  <2> QED
    BY <2>1, <2>2
<1>10. /\ used' \in [edits : Nat, beats : Nat, ensures : Nat, slips : Nat, clock : Nat]
       /\ used'.beats = used.beats
       /\ used'.clock = used.clock \/ used'.clock = used.clock + 1
  BY <1>1, <1>2
<1>11. used'.clock + Cardinality(SentBeats') <= used'.beats
  <2>1. Cardinality(SentBeats') = Cardinality(SentBeats) - 1
    BY <1>4, <1>9
  <2> QED
    BY <1>2, <1>5, <1>10, <2>1
<1>12. ClockIsCounted'
  BY <1>2, <1>4, <1>8, <1>9, <1>10, <1>11 DEF ClockIsCounted
<1>13. InventoryTyped'
  BY <1>1, <1>8 DEF InventoryInv, InventoryTyped
<1>14. ScriptHoldsTheRecord' /\ AloneUnlessOverlapped' /\ OffWasCleaned'
  BY <1>1 DEF InventoryInv, ScriptHoldsTheRecord, AloneUnlessOverlapped, Busy, OffWasCleaned,
              TurnsOff
<1> QED
  BY <1>12, <1>13, <1>14 DEF InventoryInv, InventoryTyped

\* The record is written, a script or none in the way, and keeps its switch.
LEMMA RecordMoves ==
  ASSUME InventoryInv, rec' \in VpsRecord \cup {Nobody}, crossed' = (crossed \/ script # Nobody),
         (rec' # Nobody /\ rec'.metrics) => (rec # Nobody /\ rec.metrics),
         UNCHANGED <<keptIn, edits, script, overlapped, dockerRows>>,
         beats' \subseteq Beat, ClockIsCounted'
  PROVE  InventoryInv'
<1>1. crossed' \in BOOLEAN
  BY DEF InventoryInv
<1>2. InventoryTyped'
  BY <1>1 DEF InventoryInv, InventoryTyped
<1>3. ScriptHoldsTheRecord' /\ AloneUnlessOverlapped'
  BY DEF InventoryInv, ScriptHoldsTheRecord, AloneUnlessOverlapped, Busy
<1>4. OffWasCleaned'
  BY CleanedStays DEF InventoryInv
<1> QED
  BY <1>2, <1>3, <1>4 DEF InventoryInv, InventoryTyped

\* The Docker rows of a push are stored.
LEMMA StoringKeeps ==
  ASSUME InventoryInv, NEW b \in beats, StoreDocker(b)
  PROVE  InventoryInv'
<1> DEFINE c == [b EXCEPT !.at = "locate"]
<1>1. /\ b.at = "docker"
      /\ beats' = beats \ {b} \/ GoesOn(b, c)
      /\ dockerRows' = (dockerRows \/ (b.on /\ ~ (rec = Nobody /\ keptIn = "postgres")))
      /\ UNCHANGED <<keptIn, rec, edits, script, used, crossed, overlapped>>
  BY DEF StoreDocker
<1>2. b \in Beat
  BY DEF InventoryInv
<1>3. c \in Beat /\ c.at = "locate" /\ c.id = b.id
  BY <1>2 DEF Beat
<1> HIDE DEF c
<1>4. ClockIsCounted' /\ beats' \subseteq Beat
  BY <1>1, <1>3, PushMoves
<1>5. dockerRows' \in BOOLEAN
  BY <1>1, <1>2 DEF InventoryInv, Beat
<1>6. InventoryTyped'
  BY <1>1, <1>4, <1>5 DEF InventoryInv, InventoryTyped
<1>7. ScriptHoldsTheRecord' /\ AloneUnlessOverlapped' /\ OffWasCleaned'
  BY <1>1 DEF InventoryInv, ScriptHoldsTheRecord, AloneUnlessOverlapped, Busy, OffWasCleaned,
              TurnsOff
<1> QED
  BY <1>4, <1>6, <1>7 DEF InventoryInv, InventoryTyped

\* A push writes where the agent is.
LEMMA LocatingKeeps ==
  ASSUME InventoryInv, NEW b \in beats, UpdateAgentLocation(b)
  PROVE  InventoryInv'
<1> DEFINE c == [b EXCEPT !.at = "mark"]
<1>1. /\ b.at = "locate" /\ GoesOn(b, c)
      /\ rec' = IF rec # Nobody /\ NotOlder(b) THEN [rec EXCEPT !.located = b.id] ELSE rec
      /\ crossed' = (crossed \/ script # Nobody)
      /\ UNCHANGED <<keptIn, dockerRows, edits, script, used, overlapped>>
  BY DEF UpdateAgentLocation, Crosses
<1>2. b \in Beat /\ rec \in VpsRecord \cup {Nobody}
  BY DEF InventoryInv
<1>3. c \in Beat /\ c.at = "mark" /\ c.id = b.id
  BY <1>2 DEF Beat
<1> HIDE DEF c
<1>4. ClockIsCounted' /\ beats' \subseteq Beat
  BY <1>1, <1>3, PushMoves
<1>5. b.id \in 0 .. MaxBeats
  BY <1>2, PushBounds DEF Beat
<1>6. /\ rec' \in VpsRecord \cup {Nobody}
      /\ (rec' # Nobody /\ rec'.metrics) => (rec # Nobody /\ rec.metrics)
  <2>1. CASE rec # Nobody /\ NotOlder(b)
    <3>1. rec' = [rec EXCEPT !.located = b.id] /\ rec \in VpsRecord
      BY <1>1, <1>2, <2>1
    <3>2. rec' \in VpsRecord /\ rec'.metrics = rec.metrics
      BY <1>5, <3>1 DEF VpsRecord
    <3> QED
      BY <2>1, <3>2
  <2>2. CASE ~ (rec # Nobody /\ NotOlder(b))
    BY <1>1, <1>2, <2>2
  <2> QED
    BY <2>1, <2>2
<1> QED
  BY <1>1, <1>4, <1>6, RecordMoves

\* A push writes that the agent was seen.
LEMMA SeeingKeeps ==
  ASSUME InventoryInv, NEW b \in beats, MarkSeen(b)
  PROVE  InventoryInv'
<1>1. /\ b.at = "mark" /\ beats' = beats \ {b}
      /\ rec' = IF rec # Nobody THEN [rec EXCEPT !.seen = b.now] ELSE rec
      /\ crossed' = (crossed \/ script # Nobody)
      /\ UNCHANGED <<keptIn, dockerRows, edits, script, used, overlapped>>
  BY DEF MarkSeen, Crosses
<1>2. b \in Beat /\ rec \in VpsRecord \cup {Nobody}
  BY DEF InventoryInv
<1>3. ClockIsCounted' /\ beats' \subseteq Beat
  BY <1>1, <1>2, PushMoves
<1>4. /\ rec' \in VpsRecord \cup {Nobody}
      /\ (rec' # Nobody /\ rec'.metrics) => (rec # Nobody /\ rec.metrics)
  <2>1. CASE rec # Nobody
    <3>1. rec' = [rec EXCEPT !.seen = b.now] /\ rec \in VpsRecord
      BY <1>1, <1>2, <2>1
    <3>2. rec' \in VpsRecord /\ rec'.metrics = rec.metrics
      BY <1>2, <3>1 DEF VpsRecord, Beat
    <3> QED
      BY <2>1, <3>2
  <2>2. CASE rec = Nobody
    BY <1>1, <2>2
  <2> QED
    BY <2>1, <2>2
<1> QED
  BY <1>1, <1>3, <1>4, RecordMoves

-----------------------------------------------------------------------------
(* The local host *)

\* The API starts, or a script reads or writes back the file.
LEMMA StartsKeep ==
  InventoryInv /\ (EnsureLocalHost \/ ScriptReads \/ ScriptWrites) => InventoryInv'
<1> SUFFICES ASSUME InventoryInv, EnsureLocalHost \/ ScriptReads \/ ScriptWrites
             PROVE  InventoryInv'
  OBVIOUS
<1>1. /\ rec \in VpsRecord \cup {Nobody} /\ script \in VpsRecord \cup {Nobody}
      /\ beats \subseteq Beat /\ crossed \in BOOLEAN
  BY DEF InventoryInv
<1>2. ASSUME Starts, UNCHANGED beats PROVE ClockIsCounted'
  BY <1>2 DEF Starts, InventoryInv, ClockIsCounted, SentBeats
<1>3. CASE EnsureLocalHost
  <2>1. /\ Starts /\ rec' = Ensured(rec) /\ crossed' = (crossed \/ script # Nobody)
        /\ UNCHANGED <<keptIn, dockerRows, edits, beats, script, overlapped>>
    BY <1>3 DEF EnsureLocalHost, Crosses
  <2>2. /\ rec' \in VpsRecord \cup {Nobody}
        /\ (rec' # Nobody /\ rec'.metrics) => (rec # Nobody /\ rec.metrics)
    BY <1>1, <2>1, EnsuringIs
  <2> QED
    BY <1>1, <1>2, <2>1, <2>2, RecordMoves
<1>4. CASE ScriptReads
  <2>1. /\ Starts /\ script = Nobody /\ rec.kind = "local" /\ script' = rec
        /\ UNCHANGED <<keptIn, rec, dockerRows, edits, beats, crossed, overlapped>>
    BY <1>4 DEF ScriptReads
  <2>2. ClockIsCounted'
    BY <1>2, <2>1
  <2>3. InventoryTyped'
    BY <1>1, <2>1 DEF InventoryInv, InventoryTyped
  <2>4. ScriptHoldsTheRecord' /\ AloneUnlessOverlapped' /\ OffWasCleaned'
    BY <2>1 DEF InventoryInv, ScriptHoldsTheRecord, AloneUnlessOverlapped, Busy, OffWasCleaned,
                TurnsOff
  <2> QED
    BY <2>2, <2>3, <2>4 DEF InventoryInv, InventoryTyped
<1>5. CASE ScriptWrites
  <2>1. /\ script # Nobody /\ script' = Nobody /\ rec' = Ensured(script)
        /\ UNCHANGED <<keptIn, dockerRows, edits, beats, used, crossed, overlapped>>
    BY <1>5 DEF ScriptWrites
  <2>2. rec' \in VpsRecord /\ rec'.metrics = script.metrics
    BY <1>1, <2>1, EnsuringIs
  <2>3. ClockIsCounted'
    BY <2>1 DEF InventoryInv, ClockIsCounted, SentBeats
  <2>4. InventoryTyped'
    BY <1>1, <2>1, <2>2 DEF InventoryInv, InventoryTyped
  <2>5. ScriptHoldsTheRecord' /\ AloneUnlessOverlapped'
    BY <2>1 DEF InventoryInv, ScriptHoldsTheRecord, AloneUnlessOverlapped, Busy
  <2>6. OffWasCleaned'
    <3>1. CASE crossed'
      BY <3>1 DEF OffWasCleaned
    <3>2. CASE ~ crossed'
      <4>1. ~ crossed /\ rec = script
        BY <2>1, <3>2 DEF InventoryInv, ScriptHoldsTheRecord
      <4>2. rec'.metrics => rec # Nobody /\ rec.metrics
        BY <2>1, <2>2, <4>1
      <4> QED
        BY <1>1, <2>1, <4>1, <4>2, CleanedStays
    <3> QED
      BY <3>1, <3>2
  <2> QED
    BY <2>3, <2>4, <2>5, <2>6 DEF InventoryInv, InventoryTyped
<1> QED
  BY <1>3, <1>4, <1>5

\* Every step keeps it.
LEMMA InventoryKeeps == InventoryInv /\ [INext]_ivars => InventoryInv'
<1> SUFFICES ASSUME InventoryInv, [INext]_ivars PROVE InventoryInv'
  OBVIOUS
<1>1. CASE UNCHANGED ivars
  BY <1>1 DEF ivars, InventoryInv, ClockIsCounted, SentBeats, ScriptHoldsTheRecord,
              AloneUnlessOverlapped, Busy, OffWasCleaned, TurnsOff
<1>2. CASE RequestEdit
  BY <1>2, RequestKeeps
<1>3. CASE PushBeat
  BY <1>3, PushKeeps
<1>4. CASE EnsureLocalHost \/ ScriptReads \/ ScriptWrites
  BY <1>4, StartsKeep
<1>5. CASE \E e \in Editors : ReadRecord(e) \/ CleanHistory(e) \/ WriteRecord(e)
  BY <1>5, ReadingKeeps, CleaningUpKeeps, WritingKeeps
<1>6. CASE \E b \in beats : \/ ReadSettings(b) \/ StoreDocker(b)
                            \/ UpdateAgentLocation(b) \/ MarkSeen(b)
  BY <1>6, SettingsKeep, StoringKeeps, LocatingKeeps, SeeingKeeps
<1> QED
  BY <1>1, <1>2, <1>3, <1>4, <1>5, <1>6 DEF INext

-----------------------------------------------------------------------------
(* What a step may do to the record *)

\* Handlers touch what they were asked to, and a switch goes off after the clean-up.
OwnStep ==
  ~ crossed' =>
        /\ rec = Nobody /\ rec' # Nobody => rec'.kind = "local"
        /\ rec # Nobody /\ rec' # Nobody =>
             /\ \A f \in DOMAIN rec : rec'[f] # rec[f] => Writes(f)
             /\ rec'.located >= rec.located

CleanStep ==
  \A e \in Editors :
        /\ ~ overlapped /\ ~ crossed /\ edits[e].at = "write" /\ edits'[e].at # "write"
        /\ rec # Nobody /\ rec' # Nobody
        => (rec.metrics /\ ~ rec'.metrics => edits[e].cleaned)

\* A step that leaves the record, and the edits that are about to write it.
LEMMA RecordRests ==
  ASSUME InventoryInv, UNCHANGED rec
  PROVE  OwnStep /\ CleanStep
<1>1. CleanStep
  BY DEF CleanStep
<1>2. rec # Nobody => rec.located \in Nat
  BY PushBounds DEF InventoryInv, VpsRecord
<1>3. OwnStep
  BY <1>2 DEF OwnStep
<1> QED
  BY <1>1, <1>3

\* A step that leaves the edits.
LEMMA EditsRest ==
  ASSUME UNCHANGED edits
  PROVE  CleanStep
BY DEF CleanStep

\* A record where one field is replaced by a push.
LEMMA PushWrites ==
  ASSUME InventoryInv, NEW b \in beats, UpdateAgentLocation(b) \/ MarkSeen(b)
  PROVE  OwnStep /\ CleanStep
<1>1. UNCHANGED edits /\ beats' # beats
  <2>1. CASE UpdateAgentLocation(b)
    <3> DEFINE c == [b EXCEPT !.at = "mark"]
    <3>1. b.at = "locate" /\ beats' = (beats \ {b}) \cup {c} /\ UNCHANGED edits
      BY <2>1 DEF UpdateAgentLocation, GoesOn
    <3>2. c.at = "mark"
      BY DEF InventoryInv, Beat
    <3>3. b \notin beats'
      BY <3>1, <3>2
    <3> QED
      BY <3>1, <3>3
  <2>2. CASE MarkSeen(b)
    BY <2>2 DEF MarkSeen
  <2> QED
    BY <2>1, <2>2
<1>2. b \in Beat /\ rec \in VpsRecord \cup {Nobody}
  BY DEF InventoryInv
<1>3. CASE rec = Nobody
  <2>1. UNCHANGED rec
    BY <1>3 DEF UpdateAgentLocation, MarkSeen
  <2> QED
    BY <2>1, RecordRests
<1>4. CASE rec # Nobody
  <2>1. rec \in VpsRecord /\ DOMAIN rec = Fields /\ rec.located \in Nat /\ b.id \in Nat
    BY <1>2, <1>4, PushBounds DEF VpsRecord, Fields, Beat
  <2>2. /\ \A f \in Fields \ {"located", "seen"} : rec'[f] = rec[f]
        /\ rec'.located >= rec.located
    <3>1. CASE rec' = [rec EXCEPT !.located = b.id] /\ NotOlder(b)
      BY <2>1, <3>1 DEF VpsRecord, Fields, NotOlder
    <3>2. CASE rec' = [rec EXCEPT !.seen = b.now]
      BY <2>1, <3>2 DEF VpsRecord, Fields
    <3>3. CASE rec' = rec
      BY <2>1, <3>3
    <3> QED
      BY <1>4, <3>1, <3>2, <3>3 DEF UpdateAgentLocation, MarkSeen
  <2>3. \A f \in {"located", "seen"} : Writes(f)
    BY <1>1 DEF Writes
  <2>4. OwnStep
    BY <1>4, <2>1, <2>2, <2>3 DEF OwnStep
  <2> QED
    BY <1>1, <2>4, EditsRest
<1> QED
  BY <1>3, <1>4

\* A request writes what it was asked to.
LEMMA RequestWrites ==
  ASSUME InventoryInv, NEW e \in Editors, WriteRecord(e)
  PROVE  OwnStep /\ CleanStep
<1>1. /\ edits[e].at = "write" /\ edits' = [edits EXCEPT ![e] = NoEdit]
      /\ rec' = IF rec = Nobody \/ edits[e].op = "delete" THEN Nobody ELSE Patched(rec, e)
      /\ UNCHANGED overlapped
  BY DEF WriteRecord, Over
<1>2. edits \in [Editors -> Edit] /\ edits[e] \in Edit
  BY DEF InventoryInv
<1>3. /\ edits'[e].at # "write"
      /\ \A d \in Editors : d # e => edits'[d] = edits[d]
  BY <1>1, <1>2, NoEditIs
<1>4. rec = Nobody => rec' = Nobody
  BY <1>1
<1>5. ASSUME rec # Nobody, rec' # Nobody
      PROVE  /\ \A f \in DOMAIN rec : rec'[f] # rec[f] => Writes(f)
             /\ rec'.located >= rec.located
             /\ ~ overlapped /\ ~ crossed /\ rec.metrics /\ ~ rec'.metrics => edits[e].cleaned
  <2>1. rec' = Patched(rec, e) /\ edits[e].op # "delete"
    BY <1>1, <1>5
  <2>2. /\ DOMAIN rec = Fields /\ rec'.located = rec.located
        /\ \A f \in Fields : rec'[f] # rec[f] =>
             f \in DOMAIN edits[e].patch \/ (f = "key" /\ edits[e].op = "mark")
        /\ rec.metrics /\ ~ rec'.metrics
             => "metrics" \in DOMAIN edits[e].patch /\ ~ edits[e].patch.metrics
                /\ edits[e].op # "mark"
    BY <1>5, <2>1, PatchingIs
  <2>3. \A f \in DOMAIN rec : rec'[f] # rec[f] => Writes(f)
    BY <1>1, <1>3, <2>2 DEF Writes
  <2>4. rec.located \in Nat
    BY <1>5, PushBounds DEF InventoryInv, VpsRecord
  <2>5. ASSUME ~ overlapped, ~ crossed, rec.metrics, ~ rec'.metrics PROVE edits[e].cleaned
    <3>1. edits[e].op \in {"update", "delete", "mark"}
      BY <1>2 DEF Edit
    <3>2. TurnsOff(e)
      BY <2>1, <2>2, <2>5, <3>1 DEF TurnsOff
    <3> QED
      BY <1>1, <1>5, <2>5, <3>2 DEF InventoryInv, OffWasCleaned
  <2> QED
    BY <2>2, <2>3, <2>4, <2>5
<1>6. OwnStep
  BY <1>4, <1>5 DEF OwnStep
<1>7. CleanStep
  BY <1>3, <1>5 DEF CleanStep
<1> QED
  BY <1>6, <1>7

\* A start, or a script that writes back what it has read.
LEMMA StartWrites ==
  ASSUME InventoryInv, EnsureLocalHost \/ ScriptWrites
  PROVE  OwnStep /\ CleanStep
<1>1. /\ rec \in VpsRecord \cup {Nobody} /\ script \in VpsRecord \cup {Nobody}
      /\ UNCHANGED edits
  BY DEF InventoryInv, EnsureLocalHost, ScriptWrites
<1>2. CASE crossed'
  BY <1>1, <1>2, EditsRest DEF OwnStep
<1>3. CASE ~ crossed'
  <2>1. rec' = Ensured(rec) /\ (used'.ensures # used.ensures \/ script' # script)
    <3>1. CASE EnsureLocalHost
      <4>1. rec' = Ensured(rec) /\ used' = [used EXCEPT !.ensures = @ + 1]
        BY <3>1 DEF EnsureLocalHost, Starts
      <4>2. used \in [edits : Nat, beats : Nat, ensures : Nat, slips : Nat, clock : Nat]
        BY DEF InventoryInv, ClockIsCounted
      <4>3. used'.ensures = used.ensures + 1 /\ used.ensures \in Nat
        BY <4>1, <4>2
      <4> QED
        BY <4>1, <4>3
    <3>2. CASE ScriptWrites
      <4>1. script # Nobody /\ script' = Nobody /\ rec' = Ensured(script) /\ ~ crossed
        BY <1>3, <3>2 DEF ScriptWrites
      <4> QED
        BY <4>1 DEF InventoryInv, ScriptHoldsTheRecord
    <3> QED
      BY <3>1, <3>2
  <2>2. /\ rec'.kind = "local"
        /\ rec # Nobody => /\ rec'.located = rec.located
                           /\ \A f \in Fields \ {"kind", "endpoint"} : rec'[f] = rec[f]
    BY <1>1, <2>1, EnsuringIs
  <2>3. rec # Nobody => DOMAIN rec = Fields /\ rec.located \in Nat
    BY <1>1, PushBounds DEF VpsRecord, Fields
  <2>4. \A f \in {"kind", "endpoint"} : Writes(f)
    BY <2>1 DEF Writes
  <2>5. OwnStep
    BY <2>2, <2>3, <2>4 DEF OwnStep
  <2> QED
    BY <1>1, <2>5, EditsRest
<1> QED
  BY <1>2, <1>3

\* Every step.
LEMMA StepsAreOwn == InventoryInv /\ [INext]_ivars => OwnStep /\ CleanStep
<1> SUFFICES ASSUME InventoryInv, [INext]_ivars PROVE OwnStep /\ CleanStep
  OBVIOUS
<1>1. CASE UNCHANGED rec
  BY <1>1, RecordRests
<1>2. CASE \E e \in Editors : WriteRecord(e)
  BY <1>2, RequestWrites
<1>3. CASE \E b \in beats : UpdateAgentLocation(b) \/ MarkSeen(b)
  BY <1>3, PushWrites
<1>4. CASE EnsureLocalHost \/ ScriptWrites
  BY <1>4, StartWrites
<1>5. ASSUME rec' # rec
      PROVE  \/ \E e \in Editors : WriteRecord(e)
             \/ \E b \in beats : UpdateAgentLocation(b) \/ MarkSeen(b)
             \/ EnsureLocalHost \/ ScriptWrites
  <2>1. INext
    BY <1>5 DEF ivars
  <2>2. ~ RequestEdit /\ ~ PushBeat /\ ~ ScriptReads
    BY <1>5 DEF RequestEdit, PushBeat, ScriptReads
  <2>3. \A e \in Editors : ~ ReadRecord(e) /\ ~ CleanHistory(e)
    BY <1>5 DEF ReadRecord, CleanHistory
  <2>4. \A b \in beats : ~ ReadSettings(b) /\ ~ StoreDocker(b)
    BY <1>5 DEF ReadSettings, StoreDocker
  <2> QED
    BY <2>1, <2>2, <2>3, <2>4, Zenon DEF INext
<1> QED
  BY <1>1, <1>2, <1>3, <1>4, <1>5

\* Requests, pushes, starts and scripts, in whatever order: a deleted VPS does not
\* come back, a handler writes no field it was not asked to write, an older location
\* replaces no newer one, unless the API wrote while a script held the file; and the
\* Docker metrics go off only after their history, unless two edits overlapped.
THEOREM InventoryStaysKept == ISpec => InventoryIsKept
<1>1. InventoryInv /\ [INext]_ivars => [OwnStep]_ivars /\ [CleanStep]_ivars
  BY StepsAreOwn
<1>2. ISpec => [][OwnStep]_ivars /\ [][CleanStep]_ivars
  BY <1>1, InventoryOpens, InventoryKeeps, PTL DEF ISpec
<1>3. [][OwnStep]_ivars <=> WritesAreOwn
  BY DEF WritesAreOwn, OwnStep
<1>4. [][CleanStep]_ivars <=> OffIsCleaned
  BY DEF OffIsCleaned, CleanStep
<1> QED
  BY <1>2, <1>3, <1>4, PTL DEF InventoryIsKept

\* The record and the requests about it have their types.
THEOREM InventoryStaysTyped == ISpec => []InventoryTypeOK
  BY InventoryOpens, InventoryKeeps, InventoryIsTyped, PTL DEF ISpec

-----------------------------------------------------------------------------
(* The modules together *)

\* A behaviour of the run is one of each of its modules: those that are not in
\* focus rest in an initial state.
LEMMA MonitoringIsItsModules == MCSpec => Spec /\ ASpec /\ HSpec /\ ISpec
<1>1. MCInit => Init /\ AInit /\ HInit /\ IInit
  BY DEF MCInit, IngestRests, AlertsRest, HistoryRests, InventoryRests
<1>2. [MCNext]_all => [Next]_vars /\ [ANext]_avars /\ [HNext]_hvars /\ [INext]_ivars
  <2> SUFFICES ASSUME [MCNext]_all
               PROVE  /\ Next \/ UNCHANGED vars
                      /\ ANext \/ UNCHANGED avars
                      /\ HNext \/ UNCHANGED hvars
                      /\ INext \/ UNCHANGED ivars
    OBVIOUS
  <2>1. CASE UNCHANGED all
    BY <2>1 DEF all
  <2>2. CASE MCNext
    BY <2>2 DEF MCNext
  <2> QED
    BY <2>1, <2>2
<1> QED
  BY <1>1, <1>2, PTL DEF MCSpec, Spec, ASpec, HSpec, ISpec

\* Readers of the history are given what stands, once and in order, and the record
\* of the inventory is one.
THEOREM ReadingsStayExact == MCSpec => []ReadingsAreExact
  BY WalksStayExact, InventoryStaysTyped, MonitoringIsItsModules, PTL DEF ReadingsAreExact

\* A row gives way only to newer ones, a field of the record to a handler asked to
\* write it, and the metrics go off after their history.
THEOREM RecordsStayKept == MCSpec => RecordsAreKept
  BY PruningAlwaysKeepsTheNewest, InventoryStaysKept, MonitoringIsItsModules, PTL
     DEF RecordsAreKept
=============================================================================
