------------------------ MODULE AgentCommands_proofs ------------------------
(***************************************************************************)
(* Theorems about AgentCommands, for every number of instances, operations *)
(* and mishaps: RunsAreExact is inductive (a claim is held by one instance *)
(* only, so the lease of the last claim lets one of them run, and the      *)
(* claims that may still run are counted), and with it SuccessIsTrue and   *)
(* ReceiptOutlivesReport.                                                  *)
(***************************************************************************)
EXTENDS AgentCommands, FiniteSetTheorems, SequenceTheorems, WellFoundedInduction, TLAPS

-----------------------------------------------------------------------------
(* State *)

\* A resting worker is a worker.
LEMMA IdleWorker == Idle \in Worker /\ Idle.pc = "idle" /\ Idle.op = 0 /\ Idle.grant = 0
BY DEF Idle, Worker

\* The operations of the host, by number.
LEMMA OpsTyped ==
  ASSUME TypeOK
  PROVE  /\ Len(ops) \in Nat /\ DOMAIN ops = 1 .. Len(ops)
         /\ DOMAIN ops \subseteq OpIds
         /\ \A o \in DOMAIN ops : ops[o] \in Operation /\ ops[o].grant \in Nat
<1>1. ops \in Seq(Operation) /\ Len(ops) <= MaxOps
  BY DEF TypeOK
<1>2. /\ Len(ops) \in Nat /\ DOMAIN ops = 1 .. Len(ops)
      /\ ops \in [1 .. Len(ops) -> Operation]
  BY <1>1, LenProperties
<1>3. DOMAIN ops \subseteq OpIds
  BY <1>1, <1>2, BoundsAssumption DEF OpIds
<1> QED
  BY <1>2, <1>3 DEF Operation

\* What it takes to hold a claim.
LEMMA HeldIs ==
  ASSUME NEW i \in Instances, NEW h
  PROVE  h \in Held(i) <=>
           \/ worker[i].pc \in Unsaved \cup Saved /\ h = <<worker[i].op, worker[i].grant>>
           \/ receipt[i] # None /\ h = <<receipt[i].op, receipt[i].grant>>
BY DEF Held

\* A claim that may run is held.
LEMMA RunnableIsHeld ==
  ASSUME CommandsAreHeld, NEW i \in Instances, NEW o, NEW g, MayRun(i, o, g)
  PROVE  <<o, g>> \in Held(i) /\ o \in DOMAIN ops /\ g \in 1 .. ops[o].grant
<1>1. <<o, g>> \in Held(i)
  BY HeldIs DEF MayRun, Unsaved, Saved
<1> QED
  BY <1>1 DEF CommandsAreHeld, ClaimsAreOwned

\* Two instances never run one operation: both would hold its last claim.
LEMMA OwnersRunAlone ==
  ASSUME ClaimsAreOwned
  PROVE  OneRunner
<1> SUFFICES ASSUME NEW i \in Instances, NEW k \in Instances, i # k,
                    worker[i].pc = "answer", worker[k].pc = "answer",
                    worker[i].op = worker[k].op
             PROVE  FALSE
  BY DEF OneRunner
<1>1. worker[i].grant = worker[k].grant
  BY DEF ClaimsAreOwned, Expired
<1>2. <<worker[i].op, worker[i].grant>> \in Held(i)
      /\ <<worker[k].op, worker[k].grant>> \in Held(k)
  BY HeldIs DEF Saved
<1> QED
  BY <1>1, <1>2 DEF ClaimsAreOwned

-----------------------------------------------------------------------------
(* Frames *)

\* How the operations change in a step: none goes away, no claim is taken back,
\* and the lease of one that runs is left alone.
OpsEvolve ==
  /\ ops' \in Seq(Operation) /\ Len(ops') <= MaxOps
  /\ DOMAIN ops \subseteq DOMAIN ops'
  /\ \A o \in DOMAIN ops : ops'[o].grant >= ops[o].grant
  /\ \A i \in Instances : worker[i].pc = "answer" =>
       ops'[worker[i].op].lease /\ ops'[worker[i].op].grant = worker[i].grant
  /\ \A o \in DOMAIN ops' : ops'[o].status = "queued" => ~ ops'[o].lease

\* The operations after such a step, by number.
LEMMA NextOpsTyped ==
  ASSUME OpsEvolve
  PROVE  /\ Len(ops') \in Nat /\ DOMAIN ops' = 1 .. Len(ops')
         /\ DOMAIN ops' \subseteq OpIds
         /\ \A o \in DOMAIN ops' : ops'[o] \in Operation /\ ops'[o].grant \in Nat
<1>1. ops' \in Seq(Operation) /\ Len(ops') <= MaxOps
  BY DEF OpsEvolve
<1>2. /\ Len(ops') \in Nat /\ DOMAIN ops' = 1 .. Len(ops')
      /\ ops' \in [1 .. Len(ops') -> Operation]
  BY <1>1, LenProperties
<1>3. DOMAIN ops' \subseteq OpIds
  BY <1>1, <1>2, BoundsAssumption DEF OpIds
<1> QED
  BY <1>2, <1>3 DEF Operation

\* A set of claims of one operation is finite.
LEMMA ClaimsFinite ==
  ASSUME NEW n \in Nat, NEW S \in SUBSET (1 .. n)
  PROVE  IsFiniteSet(S) /\ Cardinality(S) \in Nat
<1>1. 1 \in Int /\ n \in Int
  OBVIOUS
<1>2. IsFiniteSet(1 .. n)
  BY <1>1, FS_Interval, Zenon
<1>3. IsFiniteSet(S)
  BY <1>2, FS_Subset
<1> QED
  BY <1>3, FS_CardinalityType

\* A step that leaves the operations alone.
LEMMA OpsStay ==
  ASSUME RunsAreExact, ops' = ops
  PROVE  OpsEvolve
<1>1. TypeOK /\ ClaimsAreOwned
  BY DEF RunsAreExact, CommandsAreHeld
<1>2. \A o \in DOMAIN ops : ops[o].grant \in Nat
  BY <1>1, OpsTyped
<1> QED
  BY <1>1, <1>2 DEF OpsEvolve, TypeOK, ClaimsAreOwned, Expired

\* Instance i moves; what it comes to hold was granted in this step.
LEMMA HoldersFrame ==
  ASSUME RunsAreExact, OpsEvolve, NEW i \in Instances,
         \A k \in Instances \ {i} : worker'[k] = worker[k] /\ receipt'[k] = receipt[k],
         ReceiptFollows(i)',
         \A h \in Held(i)' \ Held(i) :
           /\ h[1] \in DOMAIN ops' /\ h[2] \in 1 .. ops'[h[1]].grant
           /\ h[1] \in DOMAIN ops => h[2] > ops[h[1]].grant,
         worker'[i].pc = "answer" =>
           ops'[worker'[i].op].lease /\ ops'[worker'[i].op].grant = worker'[i].grant
  PROVE  (\A k \in Instances : ReceiptFollows(k))' /\ ClaimsAreOwned' /\ OneRunner'
<1>1. /\ TypeOK /\ ClaimsAreOwned /\ \A k \in Instances : ReceiptFollows(k)
      /\ Len(ops) \in Nat /\ DOMAIN ops = 1 .. Len(ops)
      /\ \A o \in DOMAIN ops : ops[o].grant \in Nat
  BY OpsTyped DEF RunsAreExact, CommandsAreHeld
<1>2. \A o \in DOMAIN ops' : ops'[o].grant \in Nat
  BY NextOpsTyped
<1>3. \A k \in Instances \ {i} : Held(k)' = Held(k)
  BY DEF Held
<1>4. (\A k \in Instances : ReceiptFollows(k))'
  <2> SUFFICES ASSUME NEW k \in Instances PROVE ReceiptFollows(k)'
    OBVIOUS
  <2>1. CASE k = i
    BY <2>1
  <2>2. CASE k # i
    <3>1. worker'[k] = worker[k] /\ receipt'[k] = receipt[k] /\ ReceiptFollows(k)
      BY <1>1, <2>2
    <3> QED
      BY <3>1 DEF ReceiptFollows
  <2> QED
    BY <2>1, <2>2
<1>5. ASSUME NEW k \in Instances, NEW h \in Held(k)'
      PROVE  h[1] \in DOMAIN ops' /\ h[2] \in 1 .. ops'[h[1]].grant
  <2>1. CASE h \in Held(k)
    <3>1. h[1] \in DOMAIN ops /\ h[2] \in 1 .. ops[h[1]].grant
      BY <1>1, <2>1 DEF ClaimsAreOwned
    <3>2. h[1] \in DOMAIN ops' /\ ops'[h[1]].grant >= ops[h[1]].grant
      BY <3>1 DEF OpsEvolve
    <3> QED
      BY <1>1, <1>2, <3>1, <3>2
  <2>2. CASE h \notin Held(k)
    BY <1>3, <1>5, <2>2
  <2> QED
    BY <2>1, <2>2
<1>6. ASSUME NEW k \in Instances \ {i}, NEW h \in Held(i)', h \in Held(k)
      PROVE  FALSE
  <2>1. h[1] \in DOMAIN ops /\ h[2] \in 1 .. ops[h[1]].grant
    BY <1>1, <1>6 DEF ClaimsAreOwned
  <2>2. h \notin Held(i)
    BY <1>1, <1>6 DEF ClaimsAreOwned
  <2>3. h[2] > ops[h[1]].grant
    BY <1>6, <2>1, <2>2
  <2> QED
    BY <1>1, <2>1, <2>3
<1>7. ASSUME NEW k \in Instances, NEW m \in Instances, k # m
      PROVE  Held(k)' \cap Held(m)' = {}
  BY <1>1, <1>3, <1>6, <1>7 DEF ClaimsAreOwned
<1>8. ASSUME NEW k \in Instances, worker'[k].pc = "answer"
      PROVE  ops'[worker'[k].op].lease /\ ops'[worker'[k].op].grant = worker'[k].grant
  <2>1. CASE k = i
    BY <1>8, <2>1
  <2>2. CASE k # i
    BY <1>8, <2>2 DEF OpsEvolve
  <2> QED
    BY <2>1, <2>2
<1>9. ClaimsAreOwned'
  BY <1>5, <1>7, <1>8 DEF ClaimsAreOwned, OpsEvolve, Expired
<1>10. OneRunner'
  <2>1. ClaimsAreOwned' => OneRunner'
    BY OwnersRunAlone, PTL
  <2> QED
    BY <1>9, <2>1
<1> QED
  BY <1>4, <1>9, <1>10

\* A claim is open after a step only if a claim that may run then was granted.
LEMMA OpenStays ==
  ASSUME RunsAreExact, OpsEvolve,
         NEW o \in DOMAIN ops', NEW g \in Open(o)',
         \A k \in Instances : MayRun(k, o, g)' => MayRun(k, o, g)
  PROVE  o \in DOMAIN ops /\ g \in Open(o)
<1>1. PICK k \in Instances : MayRun(k, o, g)'
  BY DEF Open
<1>2. MayRun(k, o, g)
  BY <1>1
<1> QED
  BY <1>2, RunnableIsHeld DEF Open, RunsAreExact

\* The runs stay accounted when, for each operation, no claim opens and none
\* runs, or one that was open runs, or one opens that is new or was forgotten.
LEMMA Account ==
  ASSUME RunsAreExact, OpsEvolve,
         ran' \in [OpIds -> Nat], forgotten' \in [OpIds -> Nat],
         \A o \in OpIds : forgotten'[o] >= forgotten[o],
         \A o \in DOMAIN ops :
           \/ Open(o)' \subseteq Open(o) /\ ran'[o] = ran[o]
           \/ \E g \in Open(o) : Open(o)' \subseteq Open(o) \ {g} /\ ran'[o] = ran[o] + 1
           \/ /\ \E g : Open(o)' \subseteq Open(o) \cup {g}
              /\ ran'[o] = ran[o]
              /\ ops'[o].grant + forgotten'[o] > ops[o].grant + forgotten[o],
         \A o \in DOMAIN ops' \ DOMAIN ops : Open(o)' = {},
         \A o \in OpIds \ DOMAIN ops : ran'[o] = ran[o]
  PROVE  RunsAreAccounted'
<1>1. /\ TypeOK /\ RunsAreAccounted
      /\ \A o \in DOMAIN ops : ops[o].grant \in Nat
      /\ DOMAIN ops \subseteq OpIds
      /\ ran \in [OpIds -> Nat] /\ forgotten \in [OpIds -> Nat]
  BY OpsTyped DEF RunsAreExact, TypeOK
<1>2. /\ DOMAIN ops' \subseteq OpIds
      /\ \A o \in DOMAIN ops' : ops'[o].grant \in Nat
  BY NextOpsTyped
<1>3. ASSUME NEW o \in DOMAIN ops
      PROVE  ran'[o] + Cardinality(Open(o)') <= ops'[o].grant + forgotten'[o]
  <2>1. /\ ran[o] \in Nat /\ forgotten[o] \in Nat /\ forgotten'[o] \in Nat
        /\ ops[o].grant \in Nat /\ ops'[o].grant \in Nat
        /\ ops'[o].grant >= ops[o].grant /\ forgotten'[o] >= forgotten[o]
        /\ ran[o] + Cardinality(Open(o)) <= ops[o].grant + forgotten[o]
    <3>1. o \in OpIds /\ o \in DOMAIN ops'
      BY <1>1 DEF OpsEvolve
    <3> QED
      BY <1>1, <1>2, <3>1 DEF RunsAreAccounted, OpsEvolve
  <2>2. IsFiniteSet(Open(o)) /\ Cardinality(Open(o)) \in Nat
    <3>1. Open(o) \in SUBSET (1 .. ops[o].grant) /\ ops[o].grant \in Nat
      BY <2>1 DEF Open
    <3> QED
      BY <3>1, ClaimsFinite
  <2>3. CASE Open(o)' \subseteq Open(o) /\ ran'[o] = ran[o]
    <3>1. IsFiniteSet(Open(o)') /\ Cardinality(Open(o)') <= Cardinality(Open(o))
      BY <2>2, <2>3, FS_Subset
    <3>2. Cardinality(Open(o)') \in Nat
      BY <3>1, FS_CardinalityType
    <3> QED
      BY <2>1, <2>2, <2>3, <3>1, <3>2
  <2>4. ASSUME NEW g \in Open(o), Open(o)' \subseteq Open(o) \ {g}, ran'[o] = ran[o] + 1
        PROVE  ran'[o] + Cardinality(Open(o)') <= ops'[o].grant + forgotten'[o]
    <3>1. /\ IsFiniteSet(Open(o) \ {g})
          /\ Cardinality(Open(o) \ {g}) = Cardinality(Open(o)) - 1
      BY <2>2, FS_RemoveElement
    <3>2. IsFiniteSet(Open(o)') /\ Cardinality(Open(o)') <= Cardinality(Open(o) \ {g})
      BY <2>4, <3>1, FS_Subset
    <3>3. Cardinality(Open(o)') \in Nat
      BY <3>2, FS_CardinalityType
    <3> QED
      BY <2>1, <2>2, <2>4, <3>1, <3>2, <3>3
  <2>5. ASSUME NEW g, Open(o)' \subseteq Open(o) \cup {g}, ran'[o] = ran[o],
               ops'[o].grant + forgotten'[o] > ops[o].grant + forgotten[o]
        PROVE  ran'[o] + Cardinality(Open(o)') <= ops'[o].grant + forgotten'[o]
    <3>1. /\ IsFiniteSet(Open(o) \cup {g})
          /\ \/ Cardinality(Open(o) \cup {g}) = Cardinality(Open(o)) + 1
             \/ Cardinality(Open(o) \cup {g}) = Cardinality(Open(o))
      BY <2>2, FS_AddElement
    <3>2. IsFiniteSet(Open(o)') /\ Cardinality(Open(o)') <= Cardinality(Open(o) \cup {g})
      BY <2>5, <3>1, FS_Subset
    <3>3. Cardinality(Open(o)') \in Nat
      BY <3>2, FS_CardinalityType
    <3> QED
      BY <2>1, <2>2, <2>5, <3>1, <3>2, <3>3
  <2> QED
    BY <2>3, <2>4, <2>5
<1>4. ASSUME NEW o \in DOMAIN ops' \ DOMAIN ops
      PROVE  ran'[o] + Cardinality(Open(o)') <= ops'[o].grant + forgotten'[o]
  <2>1. Open(o)' = {} /\ o \in OpIds
    BY <1>2
  <2>2. ran'[o] = 0 /\ forgotten'[o] \in Nat /\ ops'[o].grant \in Nat
    BY <1>1, <1>2, <2>1 DEF RunsAreAccounted
  <2> QED
    BY <2>1, <2>2, FS_EmptySet
<1>5. \A o \in OpIds \ DOMAIN ops' : ran'[o] = 0
  BY <1>1 DEF RunsAreAccounted, OpsEvolve
<1> QED
  BY <1>3, <1>4, <1>5 DEF RunsAreAccounted

\* No claim becomes open in a step that neither grants, runs nor forgets.
LEMMA QuietAccount ==
  ASSUME RunsAreExact, OpsEvolve, UNCHANGED <<ran, forgotten>>,
         \A k \in Instances, o \in OpIds, g \in Nat : MayRun(k, o, g)' => MayRun(k, o, g)
  PROVE  RunsAreAccounted'
<1>1. /\ ran' = ran /\ forgotten' = forgotten
      /\ ran \in [OpIds -> Nat] /\ forgotten \in [OpIds -> Nat]
      /\ DOMAIN ops \subseteq DOMAIN ops' /\ DOMAIN ops' \subseteq OpIds
      /\ \A o \in DOMAIN ops' : ops'[o].grant \in Nat
  BY NextOpsTyped DEF RunsAreExact, TypeOK, OpsEvolve
<1>2. ASSUME NEW o \in DOMAIN ops', NEW g \in Open(o)'
      PROVE  o \in DOMAIN ops /\ g \in Open(o)
  <2>1. o \in OpIds /\ g \in Nat
    BY <1>1 DEF Open
  <2>2. \A k \in Instances : MayRun(k, o, g)' => MayRun(k, o, g)
    BY <2>1
  <2> QED
    BY <2>2, OpenStays
<1>3. \A o \in DOMAIN ops : Open(o)' \subseteq Open(o)
  BY <1>1, <1>2
<1>4. \A o \in DOMAIN ops' \ DOMAIN ops : Open(o)' = {}
  BY <1>2
<1>5. \A o \in OpIds : forgotten'[o] >= forgotten[o]
  BY <1>1
<1> QED
  BY <1>1, <1>3, <1>4, <1>5, Account

\* Only instance i moves.
OnlyMoves(i) ==
  \A k \in Instances \ {i} : worker'[k] = worker[k] /\ receipt'[k] = receipt[k]

\* The calls after a step in which instance i moves: a call somebody waits for is
\* one of before, or one of i, which waits for no other.
LEMMA CallsFrame ==
  ASSUME RunsAreExact, OpsEvolve, calls' \subseteq Call, NEW i \in Instances, OnlyMoves(i),
         \A d \in calls' : d.kind = "result" => d.op \in DOMAIN ops' /\ d.state # None,
         \A d \in calls' : d.waited /\ d.by # i => d \in calls,
         \A d \in calls' : d.waited /\ d.by = i =>
           /\ worker'[i].pc = IF d.kind = "claim" THEN "claim" ELSE "report"
           /\ d.kind = "result" => receipt'[i] # None /\ receipt'[i].op = d.op
           /\ \A e \in calls' : e.waited /\ e.by = i => e = d
  PROVE  CallsAreAwaited'
<1>1. CallsAreAwaited
  BY DEF RunsAreExact, CommandsAreHeld
<1>2. ASSUME NEW d \in calls', d.waited
      PROVE  /\ worker'[d.by].pc = IF d.kind = "claim" THEN "claim" ELSE "report"
             /\ d.kind = "result" => receipt'[d.by] # None /\ receipt'[d.by].op = d.op
             /\ \A e \in calls' : e.waited /\ e.by = d.by => e = d
  <2>1. CASE d.by = i
    BY <1>2, <2>1
  <2>2. CASE d.by # i
    <3>1. d \in calls /\ d.by \in Instances
      BY <1>2, <2>2 DEF Call
    <3>2. worker'[d.by] = worker[d.by] /\ receipt'[d.by] = receipt[d.by]
      BY <2>2, <3>1 DEF OnlyMoves
    <3>3. \A e \in calls' : e.waited /\ e.by = d.by => e \in calls
      BY <2>2
    <3> QED
      BY <1>1, <1>2, <3>1, <3>2, <3>3 DEF CallsAreAwaited
  <2> QED
    BY <2>1, <2>2
<1> QED
  BY <1>2 DEF CallsAreAwaited

\* A whole step, from what the moving instance does.
LEMMA StepIsExact ==
  ASSUME RunsAreExact, OpsEvolve, TypeOK', RunsAreAccounted',
         NEW i \in Instances, OnlyMoves(i), ReceiptFollows(i)',
         \A h \in Held(i)' \ Held(i) :
           /\ h[1] \in DOMAIN ops' /\ h[2] \in 1 .. ops'[h[1]].grant
           /\ h[1] \in DOMAIN ops => h[2] > ops[h[1]].grant,
         worker'[i].pc = "answer" =>
           ops'[worker'[i].op].lease /\ ops'[worker'[i].op].grant = worker'[i].grant,
         CallsAreAwaited'
  PROVE  RunsAreExact'
<1>1. (\A k \in Instances : ReceiptFollows(k))' /\ ClaimsAreOwned' /\ OneRunner'
  BY HoldersFrame DEF OnlyMoves
<1> QED
  BY <1>1 DEF RunsAreExact, CommandsAreHeld

\* The same for a step in which no instance moves.
LEMMA StillStep ==
  ASSUME RunsAreExact, OpsEvolve, TypeOK', CallsAreAwaited',
         UNCHANGED <<worker, receipt, ran, forgotten>>
  PROVE  RunsAreExact'
<1>1. /\ worker' = worker /\ receipt' = receipt
      /\ ClaimsAreOwned /\ \A i \in Instances : ReceiptFollows(i)
  BY DEF RunsAreExact, CommandsAreHeld
<1>2. RunsAreAccounted'
  <2>1. \A k \in Instances, o \in OpIds, g \in Nat : MayRun(k, o, g)' => MayRun(k, o, g)
    BY <1>1 DEF MayRun, Finished
  <2> QED
    BY <2>1, QuietAccount
<1>3. CASE Instances = {}
  BY <1>2, <1>3 DEF RunsAreExact, CommandsAreHeld, ClaimsAreOwned, OneRunner, OpsEvolve
<1>4. CASE Instances # {}
  <2>1. PICK i \in Instances : TRUE
    BY <1>4
  <2>2. ReceiptFollows(i)' /\ Held(i)' = Held(i) /\ OnlyMoves(i)
    BY <1>1 DEF ReceiptFollows, Held, OnlyMoves
  <2>3. worker'[i].pc = "answer" =>
          ops'[worker'[i].op].lease /\ ops'[worker'[i].op].grant = worker'[i].grant
    BY <1>1 DEF OpsEvolve
  <2> QED
    BY <1>2, <2>2, <2>3, StepIsExact
<1> QED
  BY <1>3, <1>4

\* One operation changes: it is claimed no less often, and its lease is left
\* alone while it runs.
LEMMA OpsExcept ==
  ASSUME RunsAreExact, NEW o \in DOMAIN ops, NEW e \in Operation,
         ops' = [ops EXCEPT ![o] = e],
         e.grant >= ops[o].grant, e.status = "queued" => ~ e.lease,
         \A i \in Instances :
           worker[i].pc = "answer" /\ worker[i].op = o => e.lease /\ e.grant = ops[o].grant
  PROVE  /\ OpsEvolve /\ DOMAIN ops' = DOMAIN ops /\ ops'[o] = e
         /\ \A p \in DOMAIN ops : p # o => ops'[p] = ops[p]
<1>1. /\ TypeOK /\ ClaimsAreOwned /\ ops \in Seq(Operation) /\ Len(ops) <= MaxOps
      /\ Len(ops) \in Nat /\ DOMAIN ops = 1 .. Len(ops)
      /\ \A p \in DOMAIN ops : ops[p].grant \in Nat
  BY OpsTyped DEF RunsAreExact, CommandsAreHeld, TypeOK
<1>2. /\ ops' \in Seq(Operation) /\ Len(ops') = Len(ops)
      /\ \A p \in 1 .. Len(ops) : ops'[p] = IF p = o THEN e ELSE ops[p]
  BY <1>1, ExceptSeq
<1>3. DOMAIN ops' = DOMAIN ops
  BY <1>1, <1>2, LenProperties
<1>4. /\ ops'[o] = e
      /\ \A p \in DOMAIN ops : p # o => ops'[p] = ops[p]
  BY <1>1, <1>2
<1>5. \A p \in DOMAIN ops : ops'[p].grant >= ops[p].grant
  BY <1>1, <1>4
<1>6. \A p \in DOMAIN ops' : ops'[p].status = "queued" => ~ ops'[p].lease
  BY <1>1, <1>3, <1>4 DEF ClaimsAreOwned
<1>7. ASSUME NEW i \in Instances, worker[i].pc = "answer"
      PROVE  ops'[worker[i].op].lease /\ ops'[worker[i].op].grant = worker[i].grant
  <2>1. ops[worker[i].op].lease /\ ops[worker[i].op].grant = worker[i].grant
    BY <1>1, <1>7 DEF ClaimsAreOwned, Expired
  <2>2. <<worker[i].op, worker[i].grant>> \in Held(i)
    BY <1>7, HeldIs DEF Saved
  <2>3. worker[i].op \in DOMAIN ops
    BY <1>1, <2>2 DEF ClaimsAreOwned
  <2> QED
    BY <1>4, <1>7, <2>1, <2>3
<1> QED
  BY <1>1, <1>2, <1>3, <1>4, <1>5, <1>6, <1>7 DEF OpsEvolve

-----------------------------------------------------------------------------
(* The worker *)

\* What a worker holds that has a command in hand.
LEMMA InHandTyped ==
  ASSUME RunsAreExact, NEW i \in Instances, worker[i].pc \in Unsaved \cup Saved
  PROVE  /\ worker[i].op \in OpIds /\ worker[i].op \in DOMAIN ops
         /\ worker[i].grant \in Nat /\ worker[i].grant \in 1 .. ops[worker[i].op].grant
         /\ <<worker[i].op, worker[i].grant>> \in Held(i)
<1>1. TypeOK /\ ClaimsAreOwned /\ DOMAIN ops \subseteq OpIds
  BY OpsTyped DEF RunsAreExact, CommandsAreHeld
<1>2. <<worker[i].op, worker[i].grant>> \in Held(i)
  BY HeldIs
<1>3. /\ worker[i].op \in DOMAIN ops
      /\ worker[i].grant \in 1 .. ops[worker[i].op].grant
  BY <1>1, <1>2 DEF ClaimsAreOwned
<1> QED
  BY <1>1, <1>2, <1>3 DEF TypeOK, Worker

\* An instance that is not at a call has none that is waited for.
LEMMA NobodyWaits ==
  ASSUME RunsAreExact, NEW i \in Instances, worker[i].pc \notin {"claim", "report"}
  PROVE  \A d \in calls : d.waited => d.by # i
BY DEF RunsAreExact, CommandsAreHeld, CallsAreAwaited

\* Sending a call, from where the instance waits for none.
LEMMA SentCall ==
  ASSUME RunsAreExact, OpsEvolve, NEW i \in Instances, OnlyMoves(i),
         worker[i].pc \notin {"claim", "report"},
         NEW kind \in {"claim", "result"}, NEW o \in OpIds \cup {0},
         NEW state \in Reportable \cup {None}, NEW code \in Codes,
         Send(i, kind, o, state, code),
         worker'[i].pc = IF kind = "claim" THEN "claim" ELSE "report",
         kind = "result" => /\ o \in DOMAIN ops /\ state # None
                            /\ receipt'[i] # None /\ receipt'[i].op = o
  PROVE  CallsAreAwaited' /\ calls' \subseteq Call
<1> DEFINE c == [ by |-> i, kind |-> kind, op |-> o, state |-> state,
                  code |-> code, checked |-> FALSE, waited |-> TRUE ]
<1>1. calls' = calls \cup {c}
  BY DEF Send
<1>2. /\ c \in Call /\ c.by = i /\ c.kind = kind /\ c.op = o /\ c.state = state
      /\ c.waited
  BY DEF Call
<1>3. calls \subseteq Call /\ CallsAreAwaited /\ \A d \in calls : d.waited => d.by # i
  BY NobodyWaits DEF RunsAreExact, TypeOK, CommandsAreHeld
<1> HIDE DEF c
<1>4. calls' \subseteq Call
  BY <1>1, <1>2, <1>3
<1>5. \A d \in calls' : d.kind = "result" => d.op \in DOMAIN ops' /\ d.state # None
  BY <1>1, <1>2, <1>3 DEF CallsAreAwaited, OpsEvolve
<1>6. \A d \in calls' : d.waited /\ d.by # i => d \in calls
  BY <1>1, <1>2
<1>7. \A d \in calls' : d.waited /\ d.by = i => d = c
  BY <1>1, <1>3
<1> QED
  BY <1>2, <1>4, <1>5, <1>6, <1>7, CallsFrame

\* A worker at no call moves without sending one.
LEMMA NoCallSent ==
  ASSUME RunsAreExact, OpsEvolve, NEW i \in Instances, OnlyMoves(i),
         worker[i].pc \notin {"claim", "report"}, calls' = calls
  PROVE  CallsAreAwaited'
<1>1. calls \subseteq Call /\ CallsAreAwaited /\ \A d \in calls : d.waited => d.by # i
  BY NobodyWaits DEF RunsAreExact, TypeOK, CommandsAreHeld
<1> QED
  BY <1>1, CallsFrame DEF CallsAreAwaited, OpsEvolve

\* An outcome is saved and reported: the claim stays held and cannot run again.
LEMMA FinishStep ==
  ASSUME RunsAreExact, NEW i \in Instances, worker[i].pc \in Unsaved \cup Saved,
         NEW state \in Reportable, NEW code \in Codes, Finish(i, state, code),
         UNCHANGED <<ops, enabled, trouble, ran, forgotten>>, did' \subseteq OpIds
  PROVE  RunsAreExact'
<1> DEFINE w == worker[i]
           r == [ op |-> worker[i].op, grant |-> worker[i].grant,
                  state |-> state, code |-> code ]
<1>1. /\ TypeOK /\ ops' = ops /\ OpsEvolve /\ ran' = ran /\ forgotten' = forgotten
      /\ worker \in [Instances -> Worker]
      /\ receipt \in [Instances -> Receipt \cup {None}]
  BY OpsStay DEF RunsAreExact, TypeOK
<1>2. /\ w.op \in OpIds /\ w.op \in DOMAIN ops /\ w.grant \in Nat
      /\ <<w.op, w.grant>> \in Held(i) /\ w \in Worker
  BY <1>1, InHandTyped
<1>3. /\ worker' = [worker EXCEPT ![i].pc = "report"]
      /\ receipt' = [receipt EXCEPT ![i] = r]
      /\ Send(i, "result", w.op, state, code)
  BY DEF Finish, Persist, Goto
<1>4. /\ r \in Receipt /\ r.op = w.op /\ r.grant = w.grant /\ r.state = state
  BY <1>2 DEF Receipt
<1> HIDE DEF r
<1>5. /\ worker'[i] = [w EXCEPT !.pc = "report"] /\ receipt'[i] = r
      /\ worker' \in [Instances -> Worker]
      /\ receipt' \in [Instances -> Receipt \cup {None}]
      /\ OnlyMoves(i)
  BY <1>1, <1>2, <1>3, <1>4 DEF OnlyMoves, Worker
<1>6. worker'[i].pc = "report" /\ worker'[i].op = w.op /\ worker'[i].grant = w.grant
  BY <1>2, <1>5 DEF Worker
<1>7. r # None
  BY <1>4, NoneAssumption
<1>8. CallsAreAwaited' /\ calls' \subseteq Call
  <2>1. w.pc \notin {"claim", "report"} /\ state \in Reportable \cup {None} /\ state # None
    BY NoneAssumption DEF Unsaved, Saved
  <2> QED
    BY <1>1, <1>2, <1>3, <1>4, <1>5, <1>6, <1>7, <2>1, SentCall
<1>9. TypeOK'
  BY <1>1, <1>5, <1>8 DEF TypeOK
<1>10. RunsAreAccounted'
  <2>1. \A k \in Instances, o \in OpIds, g \in Nat : MayRun(k, o, g)' => MayRun(k, o, g)
    BY <1>5, <1>6 DEF MayRun, OnlyMoves, Finished
  <2> QED
    BY <1>1, <2>1, QuietAccount
<1>11. ReceiptFollows(i)'
  BY <1>4, <1>5, <1>6, <1>7 DEF ReceiptFollows, Unsaved, Saved, Finished
<1>12. Held(i)' \subseteq Held(i)
  BY <1>2, <1>4, <1>5, <1>6 DEF Held, Unsaved, Saved
<1> QED
  BY <1>1, <1>5, <1>6, <1>8, <1>9, <1>10, <1>11, <1>12, StepIsExact

\* The receipt is saved before the daemon is asked: the claim stays held, and
\* may run as before.
LEMMA SaveStep ==
  ASSUME RunsAreExact, NEW i \in Instances, worker[i].pc \in {"start", "execute"},
         NEW state \in {"claimed", "executing"}, NEW pc \in {"execute", "act"},
         Persist(i, state, ""), Goto(i, pc),
         UNCHANGED <<ops, enabled, calls, trouble, ran, forgotten, did>>
  PROVE  RunsAreExact'
<1> DEFINE w == worker[i]
           r == [ op |-> worker[i].op, grant |-> worker[i].grant,
                  state |-> state, code |-> "" ]
<1>1. /\ TypeOK /\ ops' = ops /\ OpsEvolve /\ calls' = calls
      /\ ran' = ran /\ forgotten' = forgotten
      /\ worker \in [Instances -> Worker]
      /\ receipt \in [Instances -> Receipt \cup {None}]
  BY OpsStay DEF RunsAreExact, TypeOK
<1>2. /\ w.op \in OpIds /\ w.op \in DOMAIN ops /\ w.grant \in Nat
      /\ <<w.op, w.grant>> \in Held(i) /\ w \in Worker
  BY <1>1, InHandTyped DEF Unsaved, Saved
<1>3. /\ worker' = [worker EXCEPT ![i].pc = pc]
      /\ receipt' = [receipt EXCEPT ![i] = r]
  BY DEF Persist, Goto
<1>4. r \in Receipt /\ r.op = w.op /\ r.grant = w.grant /\ r.state = state /\ r # None
  <2>1. r \in Receipt /\ r.op = w.op /\ r.grant = w.grant /\ r.state = state
    BY <1>2 DEF Receipt, Codes
  <2> QED
    BY <2>1, NoneAssumption
<1> HIDE DEF r
<1>5. /\ worker'[i] = [w EXCEPT !.pc = pc] /\ receipt'[i] = r
      /\ worker' \in [Instances -> Worker]
      /\ receipt' \in [Instances -> Receipt \cup {None}]
      /\ OnlyMoves(i)
  BY <1>1, <1>2, <1>3, <1>4 DEF OnlyMoves, Worker
<1>6. worker'[i].pc = pc /\ worker'[i].op = w.op /\ worker'[i].grant = w.grant
  BY <1>2, <1>5 DEF Worker
<1>7. CallsAreAwaited'
  BY <1>1, <1>5, NoCallSent
<1>8. TypeOK'
  BY <1>1, <1>5 DEF TypeOK
<1>9. RunsAreAccounted'
  <2>1. \A k \in Instances, o \in OpIds, g \in Nat : MayRun(k, o, g)' => MayRun(k, o, g)
    BY <1>5, <1>6 DEF MayRun, OnlyMoves
  <2> QED
    BY <1>1, <2>1, QuietAccount
<1>10. ReceiptFollows(i)'
  BY <1>4, <1>5, <1>6 DEF ReceiptFollows, Unsaved, Saved, Finished, Reportable
<1>11. Held(i)' \subseteq Held(i)
  BY <1>2, <1>4, <1>5, <1>6 DEF Held, Unsaved, Saved
<1> QED
  BY <1>1, <1>5, <1>6, <1>7, <1>8, <1>9, <1>10, <1>11, StepIsExact

\* A claim is taken up, or reported too late.
LEMMA StartStep ==
  ASSUME RunsAreExact, NEW i \in Instances, Start(i)
  PROVE  RunsAreExact'
<1>1. did' \subseteq OpIds /\ UNCHANGED <<ops, enabled, trouble, ran, forgotten, did>>
  BY DEF RunsAreExact, TypeOK, Start, history
<1>2. CASE Finish(i, "failed", "deadline_exceeded")
  BY <1>1, <1>2, FinishStep DEF Start, Unsaved, Reportable, Codes
<1>3. CASE Persist(i, "claimed", "") /\ Goto(i, "execute") /\ UNCHANGED calls
  BY <1>1, <1>3, SaveStep DEF Start
<1> QED
  BY <1>2, <1>3 DEF Start

\* The command's target fails to resolve, its time is up, or it is about to run.
LEMMA ExecuteStep ==
  ASSUME RunsAreExact, NEW i \in Instances, Execute(i)
  PROVE  RunsAreExact'
<1>1. did' \subseteq OpIds /\ UNCHANGED <<ops, enabled, trouble, ran, forgotten, did>>
  BY DEF RunsAreExact, TypeOK, Execute, history
<1>2. ASSUME NEW code \in {"deadline_exceeded", "target_mismatch"}, Finish(i, "failed", code)
      PROVE  RunsAreExact'
  BY <1>1, <1>2, FinishStep DEF Execute, Saved, Reportable, Codes
<1>3. CASE Persist(i, "executing", "") /\ Goto(i, "act") /\ UNCHANGED calls
  BY <1>1, <1>3, SaveStep DEF Execute
<1> QED
  BY <1>2, <1>3 DEF Execute

\* The daemon answers, or the call ends without an answer.
LEMMA ActAnsweredStep ==
  ASSUME RunsAreExact, NEW i \in Instances, ActAnswered(i)
  PROVE  RunsAreExact'
<1>1. worker[i].pc \in Unsaved \cup Saved
  BY DEF ActAnswered, Saved
<1>2. worker[i].op \in OpIds
  BY <1>1, InHandTyped
<1>3. did' \subseteq OpIds /\ UNCHANGED <<ops, enabled, trouble, ran, forgotten>>
  BY <1>2 DEF RunsAreExact, TypeOK, ActAnswered
<1>4. \E state \in Reportable, code \in Codes : Finish(i, state, code)
  BY DEF ActAnswered, Reportable, Codes
<1> QED
  BY <1>1, <1>3, <1>4, FinishStep

\* The request goes out while the lease of the last claim is held: the one open
\* claim of this instance becomes a run.
LEMMA ActStep ==
  ASSUME RunsAreExact, NEW i \in Instances, Act(i)
  PROVE  RunsAreExact'
<1>0. PICK o, n : o = worker[i].op /\ n = worker[i].grant
  OBVIOUS
<1>1. /\ worker[i].pc = "act" /\ UNCHANGED <<ops, enabled, trouble, forgotten, did>>
      /\ worker[i].pc \in Unsaved \cup Saved
  BY DEF Act, Saved
<1>2. CASE Expired(o, n)
  <2>1. /\ Finish(i, "uncertain", "uncertain_outcome") /\ ran' = ran /\ did' \subseteq OpIds
    BY <1>0, <1>1, <1>2 DEF Act, RunsAreExact, TypeOK
  <2> QED
    BY <1>1, <2>1, FinishStep DEF Reportable, Codes
<1>3. CASE ~ Expired(o, n)
  <2>1. /\ ran' = [ran EXCEPT ![o] = @ + 1] /\ worker' = [worker EXCEPT ![i].pc = "answer"]
        /\ receipt' = receipt /\ calls' = calls /\ ops' = ops /\ forgotten' = forgotten
    BY <1>0, <1>1, <1>3 DEF Act, Goto
  <2>2. /\ TypeOK /\ OpsEvolve /\ ClaimsAreOwned /\ ReceiptFollows(i)
        /\ worker \in [Instances -> Worker] /\ worker[i] \in Worker
        /\ ran \in [OpIds -> Nat] /\ forgotten \in [OpIds -> Nat]
        /\ DOMAIN ops \subseteq OpIds
    BY <2>1, OpsStay, OpsTyped DEF RunsAreExact, TypeOK, CommandsAreHeld
  <2>3. /\ o \in OpIds /\ o \in DOMAIN ops /\ n \in 1 .. ops[o].grant
        /\ <<o, n>> \in Held(i)
    BY <1>0, <1>1, InHandTyped
  <2>4. /\ worker' \in [Instances -> Worker] /\ OnlyMoves(i)
        /\ worker'[i].pc = "answer" /\ worker'[i].op = o /\ worker'[i].grant = n
    BY <1>0, <2>1, <2>2 DEF OnlyMoves, Worker
  <2>5. ran' \in [OpIds -> Nat] /\ ran'[o] = ran[o] + 1
        /\ \A p \in OpIds : p # o => ran'[p] = ran[p]
    BY <2>1, <2>2, <2>3
  <2>6. TypeOK'
    BY <1>1, <2>1, <2>2, <2>4, <2>5 DEF TypeOK
  <2>7. ReceiptFollows(i)' /\ Held(i)' = Held(i)
    BY <1>0, <1>1, <2>1, <2>2, <2>4 DEF ReceiptFollows, Held, Unsaved, Saved, Finished
  <2>8. CallsAreAwaited'
    BY <1>1, <2>1, <2>2, <2>4, NoCallSent
  <2>9. RunsAreAccounted'
    <3>1. ASSUME NEW k \in Instances, NEW p, NEW g, MayRun(k, p, g)'
          PROVE  MayRun(k, p, g) /\ k # i
      BY <2>1, <2>4, <3>1 DEF MayRun, OnlyMoves
    <3>2. ASSUME NEW p \in DOMAIN ops, NEW g \in Open(p)' PROVE g \in Open(p)
      BY <2>1, <3>1, <3>2 DEF Open
    <3>3. n \in Open(o)
      BY <1>0, <1>1, <2>3 DEF Open, MayRun
    <3>4. n \notin Open(o)'
      <4> SUFFICES ASSUME n \in Open(o)' PROVE FALSE
        OBVIOUS
      <4>1. PICK k \in Instances : MayRun(k, o, n)'
        BY DEF Open
      <4>2. MayRun(k, o, n) /\ k # i
        BY <3>1, <4>1
      <4>3. <<o, n>> \in Held(k)
        BY <4>2, RunnableIsHeld DEF RunsAreExact
      <4> QED
        BY <2>2, <2>3, <4>2, <4>3 DEF ClaimsAreOwned
    <3>5. \A p \in DOMAIN ops :
            \/ Open(p)' \subseteq Open(p) /\ ran'[p] = ran[p]
            \/ \E g \in Open(p) : Open(p)' \subseteq Open(p) \ {g} /\ ran'[p] = ran[p] + 1
      <4> SUFFICES ASSUME NEW p \in DOMAIN ops
                   PROVE  \/ Open(p)' \subseteq Open(p) /\ ran'[p] = ran[p]
                          \/ \E g \in Open(p) : /\ Open(p)' \subseteq Open(p) \ {g}
                                                /\ ran'[p] = ran[p] + 1
        OBVIOUS
      <4>1. CASE p # o
        BY <2>2, <2>5, <3>2, <4>1
      <4>2. CASE p = o
        <5>1. Open(p)' \subseteq Open(p) \ {n}
          BY <3>2, <3>4, <4>2
        <5> QED
          BY <2>5, <3>3, <4>2, <5>1
      <4> QED
        BY <4>1, <4>2
    <3>6. \A p \in OpIds : forgotten'[p] >= forgotten[p]
      BY <2>1, <2>2
    <3> QED
      BY <2>1, <2>2, <2>3, <2>5, <3>5, <3>6, Account
  <2>10. ops'[o].lease /\ ops'[o].grant = n
    BY <1>3, <2>1 DEF Expired
  <2> QED
    BY <2>2, <2>4, <2>6, <2>7, <2>8, <2>9, <2>10, StepIsExact
<1> QED
  BY <1>2, <1>3

\* A cycle of the worker: it claims, reports a finished receipt again, or goes on
\* with the command of an unfinished one.
LEMMA BeginStep ==
  ASSUME RunsAreExact, NEW i \in Instances, Begin(i)
  PROVE  RunsAreExact'
<1> DEFINE r == receipt[i]
<1>1. /\ worker[i].pc = "idle" /\ ops' = ops /\ receipt' = receipt
      /\ enabled' = enabled /\ trouble' = trouble
      /\ ran' = ran /\ forgotten' = forgotten /\ did' = did
  BY DEF Begin, history
<1>2. /\ TypeOK /\ OpsEvolve /\ ClaimsAreOwned /\ CallsAreAwaited
      /\ worker \in [Instances -> Worker] /\ worker[i] \in Worker
      /\ receipt[i] \in Receipt \cup {None}
  BY <1>1, OpsStay DEF RunsAreExact, TypeOK, CommandsAreHeld
<1>3. ASSUME r # None
      PROVE  /\ r \in Receipt /\ r.op \in OpIds /\ r.grant \in Nat
             /\ r.state \in {"claimed", "executing"} \cup Reportable /\ r.code \in Codes
             /\ <<r.op, r.grant>> \in Held(i) /\ r.op \in DOMAIN ops
             /\ r.grant \in 1 .. ops[r.op].grant
  <2>1. <<r.op, r.grant>> \in Held(i)
    BY <1>3, HeldIs
  <2> QED
    BY <1>2, <1>3, <2>1 DEF ClaimsAreOwned, Receipt
<1>4. ASSUME OnlyMoves(i), worker' \in [Instances -> Worker], calls' \subseteq Call,
             CallsAreAwaited', ReceiptFollows(i)', Held(i)' \subseteq Held(i),
             worker'[i].pc # "answer",
             \A o \in OpIds, g \in Nat : MayRun(i, o, g)' => MayRun(i, o, g)
      PROVE  RunsAreExact'
  <2>1. TypeOK'
    BY <1>1, <1>2, <1>4 DEF TypeOK
  <2>2. \A k \in Instances, o \in OpIds, g \in Nat : MayRun(k, o, g)' => MayRun(k, o, g)
    BY <1>4 DEF MayRun, OnlyMoves
  <2>3. RunsAreAccounted'
    BY <1>1, <1>2, <2>2, QuietAccount
  <2> QED
    BY <1>2, <1>4, <2>1, <2>3, StepIsExact
<1>5. CASE r = None
  <2>1. Send(i, "claim", 0, None, "") /\ worker' = [worker EXCEPT ![i].pc = "claim"]
    BY <1>1, <1>5 DEF Begin, Goto
  <2>2. /\ OnlyMoves(i) /\ worker' \in [Instances -> Worker] /\ worker'[i].pc = "claim"
    BY <1>1, <1>2, <2>1 DEF OnlyMoves, Worker
  <2>3. CallsAreAwaited' /\ calls' \subseteq Call
    <3>1. 0 \in OpIds \cup {0} /\ None \in Reportable \cup {None} /\ "" \in Codes
          /\ "claim" \in {"claim", "result"} /\ worker[i].pc \notin {"claim", "report"}
      BY <1>1 DEF Codes
    <3> QED
      BY <1>2, <2>1, <2>2, <3>1, SentCall
  <2>4. ReceiptFollows(i)'
    BY <1>1, <1>5, <2>2 DEF ReceiptFollows, Saved
  <2>5. Held(i)' \subseteq Held(i)
    BY <1>1, <2>2 DEF Held, Unsaved, Saved
  <2>6. \A o \in OpIds, g \in Nat : ~ MayRun(i, o, g)'
    BY <2>2 DEF MayRun
  <2> QED
    BY <1>4, <2>2, <2>3, <2>4, <2>5, <2>6
<1>6. CASE r # None /\ Finished(r)
  <2>1. /\ Send(i, "result", r.op, r.state, r.code)
        /\ worker' = [worker EXCEPT ![i].pc = "report"]
    BY <1>1, <1>6 DEF Begin, Goto
  <2>2. /\ OnlyMoves(i) /\ worker' \in [Instances -> Worker] /\ worker'[i].pc = "report"
    BY <1>1, <1>2, <2>1 DEF OnlyMoves, Worker
  <2>3. CallsAreAwaited' /\ calls' \subseteq Call
    <3>1. /\ r.op \in OpIds \cup {0} /\ r.state \in Reportable \cup {None} /\ r.code \in Codes
          /\ "result" \in {"claim", "result"} /\ worker[i].pc \notin {"claim", "report"}
          /\ r.state # None
      BY <1>1, <1>3, <1>6, NoneAssumption DEF Finished
    <3>2. receipt'[i] # None /\ receipt'[i].op = r.op /\ r.op \in DOMAIN ops
      BY <1>1, <1>3, <1>6
    <3> QED
      BY <1>2, <2>1, <2>2, <3>1, <3>2, SentCall
  <2>4. ReceiptFollows(i)'
    BY <1>1, <1>6, <2>2 DEF ReceiptFollows, Saved, Unsaved, Finished
  <2>5. Held(i)' \subseteq Held(i)
    BY <1>1, <2>2 DEF Held, Unsaved, Saved
  <2>6. \A o \in OpIds, g \in Nat : ~ MayRun(i, o, g)'
    BY <2>2 DEF MayRun
  <2> QED
    BY <1>4, <2>2, <2>3, <2>4, <2>5, <2>6
<1>7. CASE r # None /\ ~ Finished(r)
  <2>1. /\ worker' = [worker EXCEPT ![i] =
                        [pc |-> "execute", op |-> r.op, grant |-> r.grant]]
        /\ calls' = calls
    BY <1>1, <1>7 DEF Begin
  <2>2. [pc |-> "execute", op |-> r.op, grant |-> r.grant] \in Worker
    BY <1>3, <1>7 DEF Worker
  <2>3. /\ OnlyMoves(i) /\ worker' \in [Instances -> Worker]
        /\ worker'[i].pc = "execute" /\ worker'[i].op = r.op /\ worker'[i].grant = r.grant
    BY <1>1, <1>2, <2>1, <2>2 DEF OnlyMoves
  <2>4. CallsAreAwaited' /\ calls' \subseteq Call
    BY <1>1, <1>2, <2>1, <2>3, NoCallSent DEF TypeOK
  <2>5. ReceiptFollows(i)'
    BY <1>1, <1>7, <2>3 DEF ReceiptFollows, Saved, Unsaved, Finished
  <2>6. Held(i)' \subseteq Held(i)
    BY <1>1, <1>3, <1>7, <2>3 DEF Held, Unsaved, Saved
  <2>7. \A o \in OpIds, g \in Nat : MayRun(i, o, g)' => MayRun(i, o, g)
    BY <1>1, <1>7, <2>3 DEF MayRun
  <2> QED
    BY <1>4, <2>3, <2>4, <2>5, <2>6, <2>7
<1> QED
  BY <1>5, <1>6, <1>7

\* The steps of a worker.
LEMMA WorkerStep ==
  ASSUME RunsAreExact, NEW i \in Instances, WorkerSteps(i)
  PROVE  RunsAreExact'
BY BeginStep, StartStep, ExecuteStep, ActStep, ActAnsweredStep DEF WorkerSteps

-----------------------------------------------------------------------------
(* Surroundings *)

\* Calls nobody waits for any more are as good as awaited.
LEMMA UnwaitedCalls ==
  ASSUME RunsAreExact, OpsEvolve, NEW i \in Instances, OnlyMoves(i), calls' = Unwaited(i)
  PROVE  CallsAreAwaited' /\ calls' \subseteq Call
<1>1. calls \subseteq Call /\ CallsAreAwaited
  BY DEF RunsAreExact, TypeOK, CommandsAreHeld
<1>2. ASSUME NEW d \in calls'
      PROVE  /\ d \in Call
             /\ d.kind = "result" => d.op \in DOMAIN ops' /\ d.state # None
             /\ d.waited /\ d.by # i => d \in calls
             /\ ~ (d.waited /\ d.by = i)
  <2>1. PICK c \in calls : d = IF c.by = i THEN [c EXCEPT !.waited = FALSE] ELSE c
    BY <1>2 DEF Unwaited
  <2>2. c \in Call /\ (c.kind = "result" => c.op \in DOMAIN ops /\ c.state # None)
    BY <1>1, <2>1 DEF CallsAreAwaited
  <2>3. CASE c.by = i
    <3>1. d = [c EXCEPT !.waited = FALSE]
      BY <2>1, <2>3
    <3>2. d \in Call /\ d.kind = c.kind /\ d.op = c.op /\ d.state = c.state /\ ~ d.waited
      BY <2>2, <3>1 DEF Call
    <3> QED
      BY <2>2, <3>2 DEF OpsEvolve
  <2>4. CASE c.by # i
    BY <2>1, <2>2, <2>4 DEF OpsEvolve
  <2> QED
    BY <2>3, <2>4
<1>3. calls' \subseteq Call
  BY <1>2
<1> QED
  BY <1>2, <1>3, CallsFrame

\* The worker's memory is lost, the receipt is not.
LEMMA DropStep ==
  ASSUME RunsAreExact, NEW i \in Instances, Mishap, calls' = Unwaited(i),
         worker' = [worker EXCEPT ![i] = Idle],
         UNCHANGED <<ops, enabled, receipt, ran, did>>,
         forgotten' = IF worker[i].pc = "answer"
                      THEN [forgotten EXCEPT ![worker[i].op] = @ + 1] ELSE forgotten
  PROVE  RunsAreExact'
<1>1. /\ TypeOK /\ OpsEvolve /\ ClaimsAreOwned /\ ReceiptFollows(i) /\ CommandsAreHeld
      /\ worker \in [Instances -> Worker] /\ worker[i] \in Worker
      /\ receipt' = receipt /\ ops' = ops /\ ran' = ran
      /\ ran \in [OpIds -> Nat] /\ forgotten \in [OpIds -> Nat] /\ DOMAIN ops \subseteq OpIds
      /\ \A o \in DOMAIN ops : ops[o].grant \in Nat
  BY OpsStay, OpsTyped DEF RunsAreExact, TypeOK, CommandsAreHeld
<1>2. /\ OnlyMoves(i) /\ worker' \in [Instances -> Worker] /\ worker'[i].pc = "idle"
  BY <1>1, IdleWorker DEF OnlyMoves
<1>3. CallsAreAwaited' /\ calls' \subseteq Call
  BY <1>1, <1>2, UnwaitedCalls
<1>4. worker[i].pc = "answer" => worker[i].op \in OpIds /\ worker[i].op \in DOMAIN ops
  BY InHandTyped DEF Saved
<1>5. /\ forgotten' \in [OpIds -> Nat]
      /\ \A o \in OpIds : forgotten'[o] >= forgotten[o]
      /\ worker[i].pc = "answer" => forgotten'[worker[i].op] = forgotten[worker[i].op] + 1
  BY <1>1, <1>4
<1>6. TypeOK'
  <2>1. trouble' \in 0 .. MaxTrouble
    BY <1>1, BoundsAssumption DEF Mishap, TypeOK
  <2> QED
    BY <1>1, <1>2, <1>3, <1>5, <2>1 DEF TypeOK
<1>7. ReceiptFollows(i)' /\ Held(i)' \subseteq Held(i)
  BY <1>1, <1>2 DEF ReceiptFollows, Held, Unsaved, Saved
<1>8. ASSUME NEW k \in Instances, NEW o, NEW g, MayRun(k, o, g)'
      PROVE  \/ MayRun(k, o, g)
             \/ worker[i].pc = "answer" /\ o = worker[i].op /\ g = worker[i].grant
  <2>1. CASE k # i
    BY <1>1, <1>2, <1>8, <2>1 DEF MayRun, OnlyMoves
  <2>2. CASE k = i
    <3>1. /\ receipt[i] # None /\ ~ Finished(receipt[i])
          /\ receipt[i].op = o /\ receipt[i].grant = g
      BY <1>1, <1>2, <1>8, <2>2 DEF MayRun
    <3> QED
      BY <1>1, <2>2, <3>1 DEF ReceiptFollows, MayRun, Worker, Unsaved, Saved
  <2> QED
    BY <2>1, <2>2
<1>9. RunsAreAccounted'
  <2>1. CASE worker[i].pc # "answer"
    <3>1. \A k \in Instances, o \in OpIds, g \in Nat : MayRun(k, o, g)' => MayRun(k, o, g)
      BY <1>8, <2>1
    <3> QED
      BY <1>1, <2>1, <3>1, QuietAccount
  <2>2. CASE worker[i].pc = "answer"
    <3>1. PICK n : n = worker[i].grant
      OBVIOUS
    <3>2. ASSUME NEW o \in DOMAIN ops, NEW g \in Open(o)'
          PROVE  g \in Open(o) \/ (o = worker[i].op /\ g = n)
      <4>1. PICK k \in Instances : MayRun(k, o, g)'
        BY <3>2 DEF Open
      <4>2. g \in 1 .. ops[o].grant
        BY <1>1, <3>2 DEF Open
      <4> QED
        BY <1>8, <3>1, <4>1, <4>2 DEF Open
    <3>3. \A o \in DOMAIN ops :
            \/ Open(o)' \subseteq Open(o) /\ ran'[o] = ran[o]
            \/ /\ \E g : Open(o)' \subseteq Open(o) \cup {g}
               /\ ran'[o] = ran[o]
               /\ ops'[o].grant + forgotten'[o] > ops[o].grant + forgotten[o]
      <4> SUFFICES ASSUME NEW o \in DOMAIN ops
                   PROVE  \/ Open(o)' \subseteq Open(o)
                          \/ /\ Open(o)' \subseteq Open(o) \cup {n}
                             /\ ops[o].grant + forgotten'[o] > ops[o].grant + forgotten[o]
        BY <1>1
      <4>1. CASE o # worker[i].op
        BY <3>2, <4>1
      <4>2. CASE o = worker[i].op
        <5>1. Open(o)' \subseteq Open(o) \cup {n}
          BY <3>2
        <5>2. forgotten'[o] = forgotten[o] + 1 /\ forgotten[o] \in Nat /\ ops[o].grant \in Nat
          BY <1>1, <1>5, <2>2, <4>2
        <5> QED
          BY <5>1, <5>2
      <4> QED
        BY <4>1, <4>2
    <3> QED
      BY <1>1, <1>5, <3>3, Account
  <2> QED
    BY <2>1, <2>2
<1> QED
  BY <1>1, <1>2, <1>3, <1>6, <1>7, <1>9, StepIsExact

\* The agent gives up waiting.
LEMMA GiveUpStep ==
  ASSUME RunsAreExact, NEW i \in Instances, GiveUp(i)
  PROVE  RunsAreExact'
BY DropStep DEF GiveUp, history

\* The agent crashes.
LEMMA CrashStep ==
  ASSUME RunsAreExact, NEW i \in Instances, Crash(i)
  PROVE  RunsAreExact'
BY DropStep DEF Crash

\* A call nobody waits for is lost.
LEMMA CallLostStep ==
  ASSUME RunsAreExact, CallLost
  PROVE  RunsAreExact'
<1>1. /\ TypeOK /\ OpsEvolve /\ CallsAreAwaited /\ calls' \subseteq calls
      /\ UNCHANGED <<ops, enabled, receipt, worker, trouble, ran, forgotten, did>>
  BY OpsStay DEF RunsAreExact, CommandsAreHeld, CallLost, history
<1>2. TypeOK' /\ CallsAreAwaited'
  BY <1>1 DEF TypeOK, CallsAreAwaited
<1> QED
  BY <1>1, <1>2, StillStep

\* The policy is switched.
LEMMA SwitchPolicyStep ==
  ASSUME RunsAreExact, SwitchPolicy
  PROVE  RunsAreExact'
<1>1. /\ TypeOK /\ OpsEvolve /\ CallsAreAwaited /\ enabled' = ~ enabled
      /\ UNCHANGED <<ops, calls, receipt, worker, ran, forgotten, did>>
  BY OpsStay DEF RunsAreExact, CommandsAreHeld, SwitchPolicy, history
<1>2. trouble' \in 0 .. MaxTrouble /\ enabled' \in BOOLEAN
  BY <1>1, BoundsAssumption DEF SwitchPolicy, Mishap, TypeOK
<1>3. TypeOK' /\ CallsAreAwaited'
  BY <1>1, <1>2 DEF TypeOK, CallsAreAwaited
<1> QED
  BY <1>1, <1>3, StillStep

\* A new operation is queued behind the others and unclaimed.
LEMMA CreateStep ==
  ASSUME RunsAreExact, Create
  PROVE  RunsAreExact'
<1>1. /\ TypeOK /\ ClaimsAreOwned /\ CallsAreAwaited /\ Len(ops) < MaxOps
      /\ Len(ops) \in Nat /\ DOMAIN ops = 1 .. Len(ops)
      /\ \A o \in DOMAIN ops : ops[o].grant \in Nat
      /\ UNCHANGED <<enabled, calls, receipt, worker, trouble, ran, forgotten, did>>
  BY OpsTyped DEF RunsAreExact, CommandsAreHeld, Create, history
<1>2. PICK e \in Operation :
        /\ ops' = Append(ops, e) /\ e.status = "queued" /\ ~ e.lease
  <2>1. PICK t \in Targets :
          ops' = Append(ops, [ status |-> "queued", target |-> t, by |-> None,
                               lease |-> FALSE, grant |-> 0, message |-> "" ])
    BY DEF Create
  <2> DEFINE e == [ status |-> "queued", target |-> t, by |-> None,
                    lease |-> FALSE, grant |-> 0, message |-> "" ]
  <2>2. e \in Operation /\ e.status = "queued" /\ ~ e.lease
    BY DEF Operation, Codes
  <2> QED
    BY <2>1, <2>2
<1>3. /\ ops' \in Seq(Operation) /\ Len(ops') = Len(ops) + 1
      /\ \A o \in 1 .. Len(ops) : ops'[o] = ops[o]
      /\ ops'[Len(ops) + 1] = e
  BY <1>1, <1>2, AppendProperties DEF TypeOK
<1>4. DOMAIN ops' = 1 .. Len(ops) + 1
  BY <1>1, <1>3, LenProperties
<1>5. Len(ops') <= MaxOps
  BY <1>1, <1>3, BoundsAssumption
<1>6. ASSUME NEW i \in Instances, worker[i].pc = "answer"
      PROVE  ops'[worker[i].op].lease /\ ops'[worker[i].op].grant = worker[i].grant
  <2>1. worker[i].op \in DOMAIN ops
    BY <1>6, InHandTyped DEF Saved
  <2> QED
    BY <1>1, <1>3, <1>6, <2>1 DEF ClaimsAreOwned, Expired
<1>7. \A o \in DOMAIN ops' : ops'[o].status = "queued" => ~ ops'[o].lease
  BY <1>1, <1>2, <1>3, <1>4 DEF ClaimsAreOwned
<1>8. OpsEvolve
  BY <1>1, <1>3, <1>4, <1>5, <1>6, <1>7 DEF OpsEvolve
<1>9. TypeOK' /\ CallsAreAwaited'
  BY <1>1, <1>3, <1>5, <1>8 DEF TypeOK, CallsAreAwaited, OpsEvolve
<1> QED
  BY <1>1, <1>8, <1>9, StillStep

\* The lease of an operation that is not running ends.
LEMMA LeaseExpiresStep ==
  ASSUME RunsAreExact, NEW o \in OpIds, LeaseExpires(o)
  PROVE  RunsAreExact'
<1>1. /\ TypeOK /\ CallsAreAwaited /\ o \in DOMAIN ops
      /\ \A i \in Instances : ~ (worker[i].pc = "answer" /\ worker[i].op = o)
      /\ ops' = [ops EXCEPT ![o].lease = FALSE]
      /\ UNCHANGED <<enabled, calls, receipt, worker, trouble, ran, forgotten, did>>
  BY DEF RunsAreExact, CommandsAreHeld, LeaseExpires, history
<1>2. ops[o] \in Operation /\ ops[o].grant \in Nat
  BY <1>1, OpsTyped
<1> DEFINE e == [ops[o] EXCEPT !.lease = FALSE]
<1>3. e \in Operation /\ e.grant = ops[o].grant /\ ~ e.lease
  BY <1>2 DEF Operation
<1>4. ops' = [ops EXCEPT ![o] = e]
  BY <1>1
<1> HIDE DEF e
<1>5. e.grant >= ops[o].grant
  BY <1>2, <1>3
<1>6. OpsEvolve /\ DOMAIN ops' = DOMAIN ops
  <2>1. e.status = "queued" => ~ e.lease
    BY <1>3
  <2>2. \A i \in Instances :
          worker[i].pc = "answer" /\ worker[i].op = o => e.lease /\ e.grant = ops[o].grant
    BY <1>1
  <2> QED
    BY <1>1, <1>3, <1>4, <1>5, <2>1, <2>2, OpsExcept
<1>7. TypeOK' /\ CallsAreAwaited'
  BY <1>1, <1>6 DEF TypeOK, CallsAreAwaited, OpsEvolve
<1> QED
  BY <1>1, <1>6, <1>7, StillStep

-----------------------------------------------------------------------------
(* The API *)

\* The calls after the answer to c.
LEMMA AnsweredCalls ==
  ASSUME RunsAreExact, OpsEvolve, NEW c \in calls, calls' = calls \ {c}, OnlyMoves(c.by),
         ~ c.waited => worker' = worker /\ receipt' = receipt
  PROVE  CallsAreAwaited'
<1>1. calls \subseteq Call /\ CallsAreAwaited /\ c.by \in Instances
  BY DEF RunsAreExact, TypeOK, CommandsAreHeld, Call
<1>2. ASSUME NEW d \in calls', d.waited, d.by = c.by
      PROVE  ~ c.waited
  BY <1>1, <1>2 DEF CallsAreAwaited
<1> QED
  BY <1>1, <1>2, CallsFrame DEF CallsAreAwaited, OpsEvolve

\* A handler that has read goes on to its write; nothing else happens.
LEMMA ProceedStep ==
  ASSUME RunsAreExact, NEW c \in calls, Proceed(c),
         UNCHANGED <<ops, enabled, receipt, trouble, ran, forgotten, did>>
  PROVE  RunsAreExact'
<1> DEFINE n == [c EXCEPT !.checked = TRUE]
<1>1. /\ TypeOK /\ OpsEvolve /\ calls \subseteq Call /\ CallsAreAwaited
      /\ calls' = (calls \ {c}) \cup {n} /\ worker' = worker /\ receipt' = receipt
  BY OpsStay DEF RunsAreExact, TypeOK, CommandsAreHeld, Proceed
<1>2. /\ n \in Call /\ n.by = c.by /\ n.kind = c.kind /\ n.op = c.op
      /\ n.state = c.state /\ n.waited = c.waited
  BY <1>1 DEF Call
<1> HIDE DEF n
<1>3. TypeOK'
  BY <1>1, <1>2 DEF TypeOK
<1>4. CallsAreAwaited'
  <2>1. c.by \in Instances /\ calls' \subseteq Call /\ OnlyMoves(c.by)
    BY <1>1, <1>2 DEF Call, OnlyMoves
  <2>2. \A d \in calls' : d.kind = "result" => d.op \in DOMAIN ops' /\ d.state # None
    <3>1. \A d \in calls : d.kind = "result" => d.op \in DOMAIN ops' /\ d.state # None
      BY <1>1 DEF CallsAreAwaited, OpsEvolve
    <3>2. n.kind = "result" => n.op \in DOMAIN ops' /\ n.state # None
      BY <1>2, <3>1
    <3> QED
      BY <1>1, <3>1, <3>2
  <2>3. \A d \in calls' : d.waited /\ d.by # c.by => d \in calls
    BY <1>1, <1>2
  <2>4. ASSUME NEW d \in calls', d.waited, d.by = c.by
        PROVE  /\ worker'[c.by].pc = IF d.kind = "claim" THEN "claim" ELSE "report"
               /\ d.kind = "result" => receipt'[c.by] # None /\ receipt'[c.by].op = d.op
               /\ \A e \in calls' : e.waited /\ e.by = c.by => e = d
    <3>1. PICK b \in calls :
            /\ b.waited /\ b.by = c.by /\ b.kind = d.kind /\ b.op = d.op
            /\ d = IF b = c THEN n ELSE b
      BY <1>1, <1>2, <2>4
    <3>2. \A e \in calls : e.waited /\ e.by = c.by => e = b
      BY <1>1, <3>1 DEF CallsAreAwaited
    <3>3. \A e \in calls' : e.waited /\ e.by = c.by => e = d
      BY <1>1, <1>2, <3>1, <3>2
    <3> QED
      BY <1>1, <3>1, <3>3 DEF CallsAreAwaited
  <2> QED
    BY <1>1, <2>1, <2>2, <2>3, <2>4, CallsFrame
<1> QED
  BY <1>1, <1>3, <1>4, StillStep

\* A call is answered without a command: whoever waits goes back to rest, with
\* its receipt or, after the echo of its result, without.
LEMMA RestStep ==
  ASSUME RunsAreExact, OpsEvolve, NEW c \in calls, Reply(c, Idle),
         \/ receipt' = receipt
         \/ receipt' = IF c.waited THEN [receipt EXCEPT ![c.by] = None] ELSE receipt,
         UNCHANGED <<enabled, trouble, ran, forgotten, did>>
  PROVE  RunsAreExact'
<1>1. /\ TypeOK /\ c \in Call /\ c.by \in Instances /\ CallsAreAwaited
      /\ ReceiptFollows(c.by)
      /\ worker \in [Instances -> Worker] /\ worker[c.by] \in Worker
      /\ receipt \in [Instances -> Receipt \cup {None}]
      /\ calls' = calls \ {c} /\ calls' \subseteq Call
      /\ worker' = IF c.waited THEN [worker EXCEPT ![c.by] = Idle] ELSE worker
      /\ ran' = ran /\ forgotten' = forgotten
  BY DEF RunsAreExact, TypeOK, CommandsAreHeld, Call, Reply
<1>2. /\ OnlyMoves(c.by) /\ worker' \in [Instances -> Worker]
      /\ receipt' \in [Instances -> Receipt \cup {None}]
      /\ receipt'[c.by] \in {receipt[c.by], None}
      /\ ~ c.waited => worker' = worker /\ receipt' = receipt
      /\ c.waited => worker'[c.by].pc = "idle" /\ worker[c.by].pc \in {"claim", "report"}
  BY <1>1, IdleWorker DEF OnlyMoves, CallsAreAwaited
<1>3. CallsAreAwaited'
  BY <1>1, <1>2, AnsweredCalls
<1>4. TypeOK'
  BY <1>1, <1>2, <1>3 DEF TypeOK, OpsEvolve
<1>5. ReceiptFollows(c.by)' /\ Held(c.by)' \subseteq Held(c.by)
  <2>1. CASE c.waited
    BY <1>1, <1>2, <2>1 DEF ReceiptFollows, Held, Unsaved, Saved
  <2>2. CASE ~ c.waited
    <3>1. worker' = worker /\ receipt' = receipt
      BY <1>2, <2>2
    <3> QED
      BY <1>1, <3>1 DEF ReceiptFollows, Held, Unsaved, Saved
  <2> QED
    BY <2>1, <2>2
<1>6. \A k \in Instances, o \in OpIds, g \in Nat : MayRun(k, o, g)' => MayRun(k, o, g)
  <2> SUFFICES ASSUME NEW k \in Instances, NEW o \in OpIds, NEW g \in Nat, MayRun(k, o, g)'
               PROVE  MayRun(k, o, g)
    OBVIOUS
  <2>1. CASE worker'[k] = worker[k] /\ receipt'[k] = receipt[k]
    BY <2>1 DEF MayRun
  <2>2. CASE k = c.by /\ c.waited
    <3>1. receipt[k] # None /\ ~ Finished(receipt[k])
      BY <1>2, <2>2 DEF MayRun
    <3> QED
      BY <1>1, <1>2, <2>2, <3>1 DEF ReceiptFollows
  <2> QED
    BY <1>2, <2>1, <2>2 DEF OnlyMoves
<1>7. RunsAreAccounted'
  BY <1>1, <1>6, QuietAccount
<1>8. worker'[c.by].pc = "answer" =>
        ops'[worker'[c.by].op].lease /\ ops'[worker'[c.by].op].grant = worker'[c.by].grant
  BY <1>1, <1>2 DEF OpsEvolve
<1> QED
  BY <1>1, <1>2, <1>3, <1>4, <1>5, <1>7, <1>8, StepIsExact

\* The oldest of some operations is one of them.
LEMMA OldestIsOne ==
  ASSUME TypeOK, NEW S \in SUBSET DOMAIN ops, S # {}
  PROVE  Oldest(S) \in S
<1> DEFINE R == {ss \in Nat \X Nat : ss[1] < ss[2]}
<1>1. S \subseteq Nat
  BY OpsTyped
<1>2. IsWellFoundedOn(R, Nat)
  BY NatLessThanWellFounded DEF OpToRel
<1> HIDE DEF R
<1>3. PICK o \in S : \A p \in S : ~ (<<p, o>> \in R)
  BY <1>1, <1>2, WFMin
<1>4. ASSUME NEW p \in S, ~ (o <= p) PROVE FALSE
  <2>1. p \in Nat /\ o \in Nat /\ p < o
    BY <1>1, <1>4
  <2>2. <<p, o>> \in R
    BY <2>1 DEF R
  <2> QED
    BY <1>3, <2>2
<1> QED
  BY <1>4 DEF Oldest

\* A claim is granted: the next number of the operation, which nobody holds; the
\* instance has it in hand if it still waits.
LEMMA GrantStep ==
  ASSUME RunsAreExact, NEW c \in calls, c.kind = "claim", NEW o \in Claimable(c.by),
         NEW granted, granted = [ops[o] EXCEPT !.status = "claimed", !.by = c.by,
                                               !.lease = TRUE, !.grant = @ + 1],
         ops' = [ops EXCEPT ![o] = granted],
         Reply(c, [pc |-> "start", op |-> o, grant |-> granted.grant]),
         UNCHANGED <<enabled, receipt, trouble, ran, forgotten, did>>
  PROVE  RunsAreExact'
<1> DEFINE i == c.by
           w == [pc |-> "start", op |-> o, grant |-> granted.grant]
<1>1. /\ TypeOK /\ ClaimsAreOwned /\ CallsAreAwaited /\ c \in Call /\ i \in Instances
      /\ ReceiptFollows(i)
      /\ worker \in [Instances -> Worker] /\ receipt' = receipt
      /\ ran' = ran /\ forgotten' = forgotten
      /\ ran \in [OpIds -> Nat] /\ forgotten \in [OpIds -> Nat]
      /\ calls' = calls \ {c} /\ calls' \subseteq Call
      /\ worker' = IF c.waited THEN [worker EXCEPT ![i] = w] ELSE worker
  BY DEF RunsAreExact, TypeOK, CommandsAreHeld, Call, Reply
<1>2. /\ o \in DOMAIN ops /\ o \in OpIds /\ ops[o] \in Operation /\ ops[o].grant \in Nat
      /\ ops[o].status = "queued" \/ ~ ops[o].lease
      /\ DOMAIN ops \subseteq OpIds
  BY <1>1, OpsTyped DEF Claimable
<1>3. ~ ops[o].lease
  BY <1>1, <1>2 DEF ClaimsAreOwned
<1>4. /\ granted \in Operation /\ granted.status = "claimed"
      /\ granted.grant = ops[o].grant + 1
  <2> DEFINE q == ops[o]
             e == [ status |-> "claimed", target |-> q.target, by |-> c.by, lease |-> TRUE,
                    grant |-> q.grant + 1, message |-> q.message ]
  <2>1. c.by \in Instances /\ q \in Operation
    BY <1>1, <1>2
  <2>2. e \in Operation
    BY <2>1 DEF Operation
  <2>3. granted = e
    BY <2>1 DEF Operation
  <2> QED
    BY <2>2, <2>3
<1>5. ASSUME NEW k \in Instances, worker[k].pc = "answer" PROVE worker[k].op # o
  BY <1>1, <1>3, <1>5 DEF ClaimsAreOwned, Expired
<1>6. /\ OpsEvolve /\ DOMAIN ops' = DOMAIN ops /\ ops'[o] = granted
      /\ \A p \in DOMAIN ops : p # o => ops'[p] = ops[p]
  <2>1. granted.grant >= ops[o].grant /\ granted.status # "queued"
    BY <1>2, <1>4
  <2>2. \A k \in Instances : worker[k].pc = "answer" /\ worker[k].op = o =>
          granted.lease /\ granted.grant = ops[o].grant
    BY <1>5
  <2>3. granted \in Operation /\ o \in DOMAIN ops
    BY <1>2, <1>4
  <2>4. (granted.status = "queued" => ~ granted.lease) /\ ops' = [ops EXCEPT ![o] = granted]
    BY <2>1
  <2> HIDE DEF i, w
  <2> QED
    BY <2>1, <2>2, <2>3, <2>4, OpsExcept, ZenonT(60)
<1>7. /\ w \in Worker /\ w.pc = "start" /\ w.op = o /\ w.grant = granted.grant
  BY <1>2, <1>4 DEF Worker
<1> HIDE DEF w, i
<1>8. /\ OnlyMoves(i) /\ worker' \in [Instances -> Worker]
      /\ c.waited => worker'[i] = w
      /\ ~ c.waited => worker' = worker
  BY <1>1, <1>7 DEF OnlyMoves
<1>9. c.waited => worker[i].pc = "claim" /\ receipt[i] = None
  BY <1>1 DEF CallsAreAwaited, ReceiptFollows, i
<1>10. CallsAreAwaited'
  BY <1>1, <1>6, <1>8, AnsweredCalls DEF i
<1>11. TypeOK'
  BY <1>1, <1>6, <1>8 DEF TypeOK, OpsEvolve
<1>12. ReceiptFollows(i)'
  BY <1>1, <1>7, <1>8, <1>9 DEF ReceiptFollows, Unsaved, Saved
<1>13. ASSUME NEW h \in Held(i)' \ Held(i)
       PROVE  /\ h[1] \in DOMAIN ops' /\ h[2] \in 1 .. ops'[h[1]].grant
              /\ h[1] \in DOMAIN ops => h[2] > ops[h[1]].grant
  <2>1. c.waited /\ h = <<o, granted.grant>>
    BY <1>1, <1>7, <1>8, <1>9, <1>13 DEF Held, Unsaved, Saved
  <2>2. h[1] = o /\ h[2] = ops[o].grant + 1 /\ ops'[h[1]].grant = ops[o].grant + 1
    BY <1>4, <1>6, <2>1
  <2> QED
    BY <1>2, <1>6, <2>2
<1>14. worker'[i].pc # "answer" \/ worker'[i] = worker[i]
  BY <1>7, <1>8
<1>15. ASSUME NEW k \in Instances, NEW p, NEW g, MayRun(k, p, g)'
       PROVE  MayRun(k, p, g) \/ (p = o /\ g = granted.grant)
  BY <1>1, <1>7, <1>8, <1>15 DEF MayRun, OnlyMoves
<1>16. RunsAreAccounted'
  <2>1. PICK n : n = granted.grant
    OBVIOUS
  <2>2. ASSUME NEW p \in DOMAIN ops, NEW g \in Open(p)'
        PROVE  g \in Open(p) \/ (p = o /\ g = n)
    <3>1. PICK k \in Instances : MayRun(k, p, g)'
      BY <2>2 DEF Open
    <3>2. CASE MayRun(k, p, g)
      BY <3>2, RunnableIsHeld DEF Open, RunsAreExact
    <3> QED
      BY <1>15, <2>1, <3>1, <3>2
  <2>3. \A p \in DOMAIN ops :
          \/ Open(p)' \subseteq Open(p) /\ ran'[p] = ran[p]
          \/ /\ \E g : Open(p)' \subseteq Open(p) \cup {g}
             /\ ran'[p] = ran[p]
             /\ ops'[p].grant + forgotten'[p] > ops[p].grant + forgotten[p]
    <3> SUFFICES ASSUME NEW p \in DOMAIN ops
                 PROVE  \/ Open(p)' \subseteq Open(p)
                        \/ /\ Open(p)' \subseteq Open(p) \cup {n}
                           /\ ops'[p].grant + forgotten'[p] > ops[p].grant + forgotten[p]
      BY <1>1
    <3>1. CASE p # o
      BY <2>2, <3>1
    <3>2. CASE p = o
      <4>1. forgotten'[p] = forgotten[p] /\ forgotten[p] \in Nat
            /\ ops'[p].grant = ops[p].grant + 1 /\ ops[p].grant \in Nat
        BY <1>1, <1>2, <1>4, <1>6, <3>2
      <4> QED
        BY <2>2, <4>1
    <3> QED
      BY <3>1, <3>2
  <2>4. \A p \in OpIds : forgotten'[p] >= forgotten[p]
    BY <1>1
  <2> QED
    BY <1>1, <1>6, <2>3, <2>4, Account
<1>17. worker'[i].pc = "answer" =>
         ops'[worker'[i].op].lease /\ ops'[worker'[i].op].grant = worker'[i].grant
  BY <1>1, <1>6, <1>14 DEF OpsEvolve
<1> QED
  BY <1>1, <1>6, <1>8, <1>10, <1>11, <1>12, <1>13, <1>16, <1>17, StepIsExact

\* The queue serves a claim: nothing, or the oldest operation it may hand out.
LEMMA ServeClaimStep ==
  ASSUME RunsAreExact, NEW c \in calls, ServeClaim(c)
  PROVE  RunsAreExact'
<1>1. /\ TypeOK /\ c.kind = "claim"
      /\ UNCHANGED <<enabled, receipt, trouble, ran, forgotten, did>>
  BY DEF RunsAreExact, ServeClaim, history
<1>2. CASE ops' = ops /\ Proceed(c)
  BY <1>1, <1>2, ProceedStep
<1>3. CASE ops' = ops /\ Reply(c, Idle)
  BY <1>1, <1>3, OpsStay, RestStep
<1>4. CASE ~ (ops' = ops /\ (Proceed(c) \/ Reply(c, Idle)))
  <2> DEFINE o == Oldest(Claimable(c.by))
             granted == [ops[o] EXCEPT !.status = "claimed", !.by = c.by,
                                       !.lease = TRUE, !.grant = @ + 1]
  <2>1. /\ Claimable(c.by) # {} /\ ops' = [ops EXCEPT ![o] = granted]
        /\ Reply(c, [pc |-> "start", op |-> o, grant |-> granted.grant])
    BY <1>4 DEF ServeClaim
  <2>2. o \in Claimable(c.by)
    BY <1>1, <2>1, OldestIsOne DEF Claimable
  <2> QED
    BY <1>1, <2>1, <2>2, GrantStep
<1> QED
  BY <1>2, <1>3, <1>4

\* A result is refused, echoed, checked, or stored over whatever is there.
LEMMA ServeResultStep ==
  ASSUME RunsAreExact, NEW c \in calls, ServeResult(c)
  PROVE  RunsAreExact'
<1>1. /\ TypeOK /\ c.kind = "result" /\ c \in Call /\ c.op \in DOMAIN ops
      /\ ops[c.op] \in Operation /\ ops[c.op].grant \in Nat
      /\ UNCHANGED <<enabled, trouble, ran, forgotten, did>>
  BY OpsTyped DEF RunsAreExact, ServeResult, history, TypeOK, CommandsAreHeld, CallsAreAwaited
<1>2. CASE ops' = ops /\ receipt' = receipt /\ Proceed(c)
  BY <1>1, <1>2, ProceedStep
<1>3. CASE ops' = ops /\ receipt' = receipt /\ Reply(c, Idle)
  BY <1>1, <1>3, OpsStay, RestStep
<1>4. CASE ops' = ops /\ Echo(c)
  BY <1>1, <1>4, OpsStay, RestStep DEF Echo
<1>5. CASE /\ ops' = [ops EXCEPT ![c.op].status = StatusOf(c), ![c.op].message = c.code]
           /\ Echo(c)
  <2> DEFINE e == [ops[c.op] EXCEPT !.status = StatusOf(c), !.message = c.code]
  <2>1. StatusOf(c) \in Settled /\ c.code \in Codes
    BY <1>1 DEF StatusOf, Settled, Call
  <2>2. e \in Operation /\ e.status = StatusOf(c)
        /\ e.lease = ops[c.op].lease /\ e.grant = ops[c.op].grant
    BY <1>1, <2>1 DEF Operation
  <2>3. ops' = [ops EXCEPT ![c.op] = e]
    BY <1>1, <1>5
  <2> HIDE DEF e
  <2>4. e.status # "queued" /\ e.grant >= ops[c.op].grant
    BY <1>1, <2>1, <2>2 DEF Settled
  <2>5. \A k \in Instances : worker[k].pc = "answer" /\ worker[k].op = c.op =>
          e.lease /\ e.grant = ops[c.op].grant
    BY <2>2 DEF RunsAreExact, CommandsAreHeld, ClaimsAreOwned, Expired
  <2>6. OpsEvolve
    <3>1. e.status # "queued" /\ c.op \in DOMAIN ops /\ e \in Operation
      BY <1>1, <2>2, <2>4
    <3> QED
      BY <2>3, <2>4, <2>5, <3>1, OpsExcept
  <2> QED
    BY <1>1, <1>5, <2>6, RestStep DEF Echo
<1> QED
  BY <1>2, <1>3, <1>4, <1>5 DEF ServeResult, Echo

-----------------------------------------------------------------------------
(* Every step *)

\* The host starts with nothing queued, held or on its way.
LEMMA InitIsExact == Init => RunsAreExact
<1> SUFFICES ASSUME Init PROVE RunsAreExact
  OBVIOUS
<1>1. /\ ops = <<>> /\ calls = {} /\ DOMAIN ops = {}
      /\ \A i \in Instances : worker[i] = Idle /\ receipt[i] = None
      /\ \A o \in OpIds : ran[o] = 0
  BY DEF Init
<1>2. ops \in Seq(Operation) /\ Len(ops) = 0
  BY <1>1, EmptySeq
<1>3. TypeOK
  BY <1>2, IdleWorker, BoundsAssumption DEF Init, TypeOK
<1>4. \A i \in Instances : ReceiptFollows(i) /\ Held(i) = {}
  BY <1>1, IdleWorker DEF ReceiptFollows, Held, Unsaved, Saved
<1>5. ClaimsAreOwned
  BY <1>1, <1>4, IdleWorker DEF ClaimsAreOwned
<1> QED
  BY <1>1, <1>3, <1>4, <1>5, OwnersRunAlone
     DEF RunsAreExact, CommandsAreHeld, CallsAreAwaited, RunsAreAccounted

\* Every step keeps it.
LEMMA NextIsExact == RunsAreExact /\ [Next]_vars => RunsAreExact'
<1> SUFFICES ASSUME RunsAreExact, [Next]_vars PROVE RunsAreExact'
  OBVIOUS
<1>1. CASE Create \/ CallLost \/ SwitchPolicy
  BY <1>1, CreateStep, CallLostStep, SwitchPolicyStep
<1>2. ASSUME NEW i \in Instances, WorkerSteps(i) \/ GiveUp(i) \/ Crash(i)
      PROVE  RunsAreExact'
  BY <1>2, WorkerStep, GiveUpStep, CrashStep
<1>3. ASSUME NEW i \in Instances, Serve(i) PROVE RunsAreExact'
  BY <1>3, ServeClaimStep, ServeResultStep DEF Serve
<1>4. ASSUME NEW o \in OpIds, LeaseExpires(o) PROVE RunsAreExact'
  BY <1>4, LeaseExpiresStep
<1>5. CASE UNCHANGED vars
  <2>1. OpsEvolve /\ TypeOK' /\ CallsAreAwaited'
        /\ UNCHANGED <<worker, receipt, ran, forgotten>>
    BY <1>5, OpsStay DEF vars, RunsAreExact, TypeOK, CommandsAreHeld, CallsAreAwaited
  <2> QED
    BY <2>1, StillStep
<1> QED
  BY <1>1, <1>2, <1>3, <1>4, <1>5 DEF Next

-----------------------------------------------------------------------------
(* Success *)

\* A step after which every success was one before, or is of an operation the
\* daemon has confirmed.
SuccessesGrow ==
  /\ did \subseteq did'
  /\ \A o \in DOMAIN ops' : ops'[o].status = "succeeded" =>
       o \in did' \/ (o \in DOMAIN ops /\ ops[o].status = "succeeded")
  /\ \A i \in Instances : receipt'[i] # None /\ receipt'[i].state = "succeeded" =>
       receipt'[i].op \in did' \/ receipt'[i] = receipt[i]
  /\ \A c \in calls' : c.state = "succeeded" =>
       \/ c.op \in did'
       \/ \E d \in calls : d.state = c.state /\ d.op = c.op

\* Such a step keeps every success true.
LEMMA GrownIsTrue ==
  ASSUME SuccessIsTrue, SuccessesGrow
  PROVE  SuccessIsTrue'
BY DEF SuccessIsTrue, SuccessesGrow

\* The operations of the host are a function of their numbers.
LEMMA OpsAre ==
  ASSUME RunsAreExact
  PROVE  ops \in [DOMAIN ops -> Operation] /\ receipt \in [Instances -> Receipt \cup {None}]
<1>1. ops \in Seq(Operation) /\ receipt \in [Instances -> Receipt \cup {None}]
  BY DEF RunsAreExact, TypeOK
<1>2. ops \in [1 .. Len(ops) -> Operation] /\ DOMAIN ops = 1 .. Len(ops)
  BY <1>1, LenProperties
<1> QED
  BY <1>1, <1>2

\* What a worker saves and reports is a success only once the daemon confirmed it.
LEMMA FinishGrows ==
  ASSUME RunsAreExact, NEW i \in Instances, NEW state, NEW code, Finish(i, state, code),
         ops' = ops, did \subseteq did',
         state = "succeeded" => worker[i].op \in did'
  PROVE  SuccessesGrow
<1>1. receipt \in [Instances -> Receipt \cup {None}]
  BY OpsAre
<1> DEFINE r == [ op |-> worker[i].op, grant |-> worker[i].grant, state |-> state,
                  code |-> code ]
           n == [ by |-> i, kind |-> "result", op |-> worker[i].op, state |-> state,
                  code |-> code, checked |-> FALSE, waited |-> TRUE ]
<1>2. receipt' = [receipt EXCEPT ![i] = r] /\ calls' = calls \cup {n}
  BY DEF Finish, Persist, Send
<1>3. r.op = worker[i].op /\ r.state = state /\ n.op = worker[i].op /\ n.state = state
  OBVIOUS
<1> HIDE DEF r, n
<1>4. receipt'[i] = r /\ \A k \in Instances \ {i} : receipt'[k] = receipt[k]
  BY <1>1, <1>2
<1>5. \A k \in Instances : receipt'[k] # None /\ receipt'[k].state = "succeeded" =>
        receipt'[k].op \in did' \/ receipt'[k] = receipt[k]
  BY <1>3, <1>4
<1>6. \A c \in calls' : c.state = "succeeded" =>
        c.op \in did' \/ \E d \in calls : d.state = c.state /\ d.op = c.op
  BY <1>2, <1>3
<1> QED
  BY <1>5, <1>6 DEF SuccessesGrow

\* A receipt without an outcome is no success.
LEMMA SaveGrows ==
  ASSUME RunsAreExact, NEW i \in Instances, NEW state \in {"claimed", "executing"}, NEW code,
         Persist(i, state, code), ops' = ops, calls' = calls, did' = did
  PROVE  SuccessesGrow
<1>1. receipt \in [Instances -> Receipt \cup {None}]
  BY OpsAre
<1>2. /\ receipt'[i].state = state /\ state # "succeeded"
      /\ \A k \in Instances \ {i} : receipt'[k] = receipt[k]
  BY <1>1 DEF Persist
<1> QED
  BY <1>2 DEF SuccessesGrow

\* The worker's steps.
LEMMA WorkerGrows ==
  ASSUME RunsAreExact, SuccessIsTrue, NEW i \in Instances, WorkerSteps(i)
  PROVE  SuccessesGrow
<1>1. CASE Begin(i)
  <2>1. ops' = ops /\ receipt' = receipt /\ did' = did
    BY <1>1 DEF Begin, history
  <2>2. \A c \in calls' : c.state = "succeeded" => c.op \in did' \/ c \in calls
    <3>1. CASE calls' = calls
      BY <3>1
    <3>2. CASE receipt[i] = None /\ Send(i, "claim", 0, None, "")
      <4>1. None # "succeeded"
        BY NoneAssumption DEF Reportable
      <4> DEFINE n == [ by |-> i, kind |-> "claim", op |-> 0, state |-> None,
                        code |-> "", checked |-> FALSE, waited |-> TRUE ]
      <4>2. calls' = calls \cup {n}
        BY <3>2 DEF Send
      <4>3. n.state = None
        OBVIOUS
      <4> HIDE DEF n
      <4> QED
        BY <4>1, <4>2, <4>3
    <3>3. CASE receipt[i] # None /\ Send(i, "result", receipt[i].op, receipt[i].state, receipt[i].code)
      BY <2>1, <3>3 DEF Send, SuccessIsTrue
    <3> QED
      BY <1>1, <3>1, <3>2, <3>3 DEF Begin
  <2> QED
    BY <2>1, <2>2 DEF SuccessesGrow
<1>2. CASE Start(i) \/ Execute(i)
  <2>1. ops' = ops /\ did' = did
    BY <1>2 DEF Start, Execute, history
  <2>2. CASE Finish(i, "failed", "deadline_exceeded") \/ Finish(i, "failed", "target_mismatch")
    BY <2>1, <2>2, FinishGrows
  <2>3. CASE (Persist(i, "claimed", "") \/ Persist(i, "executing", "")) /\ UNCHANGED calls
    BY <2>1, <2>3, SaveGrows
  <2> QED
    BY <1>2, <2>2, <2>3 DEF Start, Execute
<1>3. CASE Act(i)
  <2>1. ops' = ops /\ did' = did
    BY <1>3 DEF Act
  <2>2. CASE Finish(i, "uncertain", "uncertain_outcome")
    BY <2>1, <2>2, FinishGrows
  <2>3. CASE receipt' = receipt /\ calls' = calls
    BY <2>1, <2>3 DEF SuccessesGrow
  <2> QED
    BY <1>3, <2>2, <2>3 DEF Act
<1>4. CASE ActAnswered(i)
  <2>1. ops' = ops /\ did \subseteq did'
    BY <1>4 DEF ActAnswered
  <2>2. CASE Finish(i, "succeeded", "") /\ did' = did \cup {worker[i].op}
    BY <2>1, <2>2, FinishGrows
  <2>3. CASE Finish(i, "failed", "action_failed") \/ Finish(i, "uncertain", "uncertain_outcome")
    BY <2>1, <2>3, FinishGrows
  <2> QED
    BY <1>4, <2>2, <2>3 DEF ActAnswered
<1> QED
  BY <1>1, <1>2, <1>3, <1>4 DEF WorkerSteps

\* A call that goes on to its write says what it said.
LEMMA ProceedSaysSame ==
  ASSUME RunsAreExact, NEW c \in calls, Proceed(c)
  PROVE  \A n \in calls' : \E d \in calls : d.state = n.state /\ d.op = n.op
<1>1. c \in Call
  BY DEF RunsAreExact, TypeOK
<1> DEFINE n == [c EXCEPT !.checked = TRUE]
<1>2. n.state = c.state /\ n.op = c.op
  BY <1>1 DEF Call
<1>3. calls' \subseteq calls \cup {n}
  BY DEF Proceed
<1> HIDE DEF n
<1> QED
  BY <1>2, <1>3

\* The API's steps: what it stores as succeeded is what a call said.
LEMMA ServeGrows ==
  ASSUME RunsAreExact, SuccessIsTrue, NEW i \in Instances, Serve(i)
  PROVE  SuccessesGrow
<1>1. PICK c \in calls : c.by = i /\ (ServeClaim(c) \/ ServeResult(c))
  BY DEF Serve
<1>2. did' = did
  BY <1>1 DEF ServeClaim, ServeResult, history
<1>3. \A n \in calls' : \E d \in calls : d.state = n.state /\ d.op = n.op
  <2>1. CASE Proceed(c)
    BY <2>1, ProceedSaysSame
  <2>2. CASE calls' = calls \ {c}
    BY <2>2
  <2> QED
    BY <1>1, <2>1, <2>2 DEF ServeClaim, ServeResult, Reply, Echo
<1>4. \A k \in Instances : receipt'[k] # None => receipt'[k] = receipt[k]
  <2>1. receipt \in [Instances -> Receipt \cup {None}]
    BY OpsAre
  <2>2. CASE receipt' = receipt
    BY <2>2
  <2>3. CASE receipt' = [receipt EXCEPT ![c.by] = None]
    BY <2>1, <2>3
  <2> QED
    BY <1>1, <2>2, <2>3 DEF ServeClaim, ServeResult, Echo
<1>5. \A o \in DOMAIN ops' : ops'[o].status = "succeeded" =>
        o \in did' \/ (o \in DOMAIN ops /\ ops[o].status = "succeeded")
  <2>1. ops \in [DOMAIN ops -> Operation]
    BY OpsAre
  <2>2. CASE ops' = ops
    BY <2>2
  <2>3. ASSUME NEW o, NEW granted, granted.status = "claimed",
               ops' = [ops EXCEPT ![o] = granted]
        PROVE  \A p \in DOMAIN ops' : ops'[p].status = "succeeded" =>
                 p \in DOMAIN ops /\ ops[p].status = "succeeded"
    BY <2>1, <2>3
  <2>4. CASE c.checked /\ ServeClaim(c) /\ ops' # ops
    <3> DEFINE o == Oldest(Claimable(c.by))
               granted == [ops[o] EXCEPT !.status = "claimed", !.by = c.by,
                                         !.lease = TRUE, !.grant = @ + 1]
    <3>1. Claimable(c.by) # {} /\ ops' = [ops EXCEPT ![o] = granted]
      BY <2>4 DEF ServeClaim
    <3>2. TypeOK /\ o \in DOMAIN ops
      BY <3>1, OldestIsOne DEF Claimable, RunsAreExact
    <3>3. granted.status = "claimed"
      BY <2>1, <3>2 DEF Operation
    <3> QED
      BY <2>3, <3>1, <3>3
  <2>5. CASE c.checked /\ ServeResult(c)
    <3>1. ops' = [ops EXCEPT ![c.op].status = StatusOf(c), ![c.op].message = c.code]
      BY <2>5 DEF ServeResult
    <3>2. c.op \in DOMAIN ops
      BY <2>5 DEF RunsAreExact, CommandsAreHeld, CallsAreAwaited, ServeResult
    <3>3. DOMAIN ops' = DOMAIN ops /\ \A p \in DOMAIN ops : p # c.op => ops'[p] = ops[p]
      BY <2>1, <3>1
    <3>4. ops'[c.op].status = StatusOf(c)
      BY <2>1, <3>1, <3>2 DEF Operation
    <3>5. StatusOf(c) = "succeeded" => c.op \in did
      BY DEF StatusOf, SuccessIsTrue
    <3> QED
      BY <1>2, <3>3, <3>4, <3>5
  <2> QED
    BY <1>1, <2>2, <2>4, <2>5 DEF ServeClaim, ServeResult
<1> QED
  BY <1>2, <1>3, <1>4, <1>5 DEF SuccessesGrow

\* What happens around them adds no success.
LEMMA SurroundingsGrow ==
  ASSUME RunsAreExact,
         \/ Create \/ CallLost \/ SwitchPolicy \/ UNCHANGED vars
         \/ \E i \in Instances : GiveUp(i) \/ Crash(i)
         \/ \E o \in OpIds : LeaseExpires(o)
  PROVE  SuccessesGrow
<1>1. ops \in [DOMAIN ops -> Operation] /\ calls \subseteq Call
  BY OpsAre DEF RunsAreExact, TypeOK
<1>2. receipt' = receipt /\ did' = did
  BY DEF Create, CallLost, SwitchPolicy, GiveUp, Crash, LeaseExpires, vars, history
<1>3. CASE Create
  <2>1. ops \in Seq(Operation) /\ Len(ops) \in Nat /\ calls' = calls
    BY <1>3, LenProperties DEF RunsAreExact, TypeOK, Create
  <2>2. PICK e \in Operation : ops' = Append(ops, e) /\ e.status = "queued"
    <3>1. PICK t \in Targets :
            ops' = Append(ops, [ status |-> "queued", target |-> t, by |-> None,
                                 lease |-> FALSE, grant |-> 0, message |-> "" ])
      BY <1>3 DEF Create
    <3> DEFINE e == [ status |-> "queued", target |-> t, by |-> None,
                      lease |-> FALSE, grant |-> 0, message |-> "" ]
    <3>2. e \in Operation /\ e.status = "queued"
      BY DEF Operation, Codes
    <3> QED
      BY <3>1, <3>2
  <2>3. /\ ops' \in Seq(Operation) /\ Len(ops') = Len(ops) + 1
        /\ \A o \in 1 .. Len(ops) : ops'[o] = ops[o]
        /\ ops'[Len(ops) + 1] = e
    BY <2>1, <2>2, AppendProperties
  <2>4. DOMAIN ops' = 1 .. Len(ops) + 1 /\ DOMAIN ops = 1 .. Len(ops)
    BY <2>1, <2>3, LenProperties
  <2> QED
    BY <1>2, <2>1, <2>2, <2>3, <2>4 DEF SuccessesGrow
<1>4. CASE CallLost \/ SwitchPolicy \/ UNCHANGED vars
  <2>1. ops' = ops /\ calls' \subseteq calls
    BY <1>4 DEF CallLost, SwitchPolicy, vars
  <2> QED
    BY <1>2, <2>1 DEF SuccessesGrow
<1>5. ASSUME NEW i \in Instances, GiveUp(i) \/ Crash(i) PROVE SuccessesGrow
  <2>1. ops' = ops /\ calls' = Unwaited(i)
    BY <1>5 DEF GiveUp, Crash
  <2>2. ASSUME NEW n \in calls' PROVE \E d \in calls : d.state = n.state /\ d.op = n.op
    <3>1. PICK c \in calls : n = IF c.by = i THEN [c EXCEPT !.waited = FALSE] ELSE c
      BY <2>1, <2>2 DEF Unwaited
    <3>2. c \in Call
      BY <1>1
    <3>3. n.state = c.state /\ n.op = c.op
      BY <3>1, <3>2 DEF Call
    <3> QED
      BY <3>3
  <2> QED
    BY <1>2, <2>1, <2>2 DEF SuccessesGrow
<1>6. ASSUME NEW o \in OpIds, LeaseExpires(o) PROVE SuccessesGrow
  <2>1. /\ o \in DOMAIN ops /\ calls' = calls
        /\ ops' = [ops EXCEPT ![o].lease = FALSE]
    BY <1>6 DEF LeaseExpires
  <2>2. DOMAIN ops' = DOMAIN ops /\ \A p \in DOMAIN ops : ops'[p].status = ops[p].status
    BY <1>1, <2>1 DEF Operation
  <2> QED
    BY <1>2, <2>1, <2>2 DEF SuccessesGrow
<1> QED
  BY <1>3, <1>4, <1>5, <1>6

\* No step makes a success of what the daemon did not confirm.
LEMMA NextIsTrue == RunsAreExact /\ SuccessIsTrue /\ [Next]_vars => SuccessIsTrue'
<1> SUFFICES ASSUME RunsAreExact, SuccessIsTrue, [Next]_vars PROVE SuccessIsTrue'
  OBVIOUS
<1>1. SuccessesGrow
  BY WorkerGrows, ServeGrows, SurroundingsGrow DEF Next
<1> QED
  BY <1>1, GrownIsTrue

-----------------------------------------------------------------------------
(* Receipts *)

\* The receipts dropped in a step are those of operations with a result.
DropsAreStored ==
  \A i \in Instances :
    receipt[i] # None /\ receipt'[i] = None
      => ops'[receipt[i].op].status \in Settled

\* Only the echo of a stored result drops a receipt: of the operation it is about,
\* as the instance waits for no other call.
LEMMA EchoDrops ==
  ASSUME RunsAreExact, NEW c \in calls, c.kind = "result", Echo(c),
         ops'[c.op].status \in Settled
  PROVE  DropsAreStored
<1>1. receipt \in [Instances -> Receipt \cup {None}] /\ CallsAreAwaited
  BY OpsAre DEF RunsAreExact, CommandsAreHeld
<1>2. CASE c.waited
  <2>1. receipt' = [receipt EXCEPT ![c.by] = None] /\ receipt[c.by].op = c.op
    BY <1>1, <1>2 DEF Echo, CallsAreAwaited
  <2> QED
    BY <1>1, <2>1 DEF DropsAreStored
<1>3. CASE ~ c.waited
  BY <1>3 DEF Echo, DropsAreStored
<1> QED
  BY <1>2, <1>3

\* A saved receipt is there: the worker goes on with it.
LEMMA SavedStays ==
  ASSUME RunsAreExact, RunsAreExact', NEW i \in Instances, NEW state, NEW code,
         Persist(i, state, code), NEW pc \in {"execute", "act", "report"}, Goto(i, pc)
  PROVE  DropsAreStored
<1>1. receipt \in [Instances -> Receipt \cup {None}] /\ worker \in [Instances -> Worker]
  BY OpsAre DEF RunsAreExact, TypeOK
<1>2. worker'[i].pc = pc
  BY <1>1 DEF Goto, Worker
<1>3. receipt'[i] # None
  BY <1>2 DEF RunsAreExact, CommandsAreHeld, ReceiptFollows, Saved
<1>4. \A k \in Instances \ {i} : receipt'[k] = receipt[k]
  BY <1>1 DEF Persist
<1> QED
  BY <1>3, <1>4 DEF DropsAreStored

\* Every step drops only receipts whose operation has a result.
LEMMA NextDrops == RunsAreExact /\ [Next]_vars => DropsAreStored
<1> SUFFICES ASSUME RunsAreExact, [Next]_vars PROVE DropsAreStored
  OBVIOUS
<1>1. CASE receipt' = receipt
  BY <1>1 DEF DropsAreStored
<1>2. ASSUME NEW i \in Instances, NEW state, NEW code, Persist(i, state, code),
             NEW pc \in {"execute", "act", "report"}, Goto(i, pc)
      PROVE  DropsAreStored
  BY <1>2, SavedStays, NextIsExact
<1>3. ASSUME NEW c \in calls, ServeResult(c) PROVE DropsAreStored
  <2>1. c.kind = "result" /\ c.op \in DOMAIN ops /\ ops \in [DOMAIN ops -> Operation]
    BY <1>3, OpsAre DEF ServeResult, RunsAreExact, CommandsAreHeld, CallsAreAwaited
  <2>2. StatusOf(c) \in Settled
    BY DEF StatusOf, Settled
  <2>3. CASE ops' = ops /\ Identical(c) /\ Echo(c)
    BY <2>1, <2>2, <2>3, EchoDrops DEF Identical
  <2>4. CASE /\ ops' = [ops EXCEPT ![c.op].status = StatusOf(c), ![c.op].message = c.code]
             /\ Echo(c)
    <3>1. ops'[c.op].status = StatusOf(c)
      BY <2>1, <2>4 DEF Operation
    <3> QED
      BY <2>1, <2>2, <2>4, <3>1, EchoDrops
  <2> QED
    BY <1>1, <1>3, <2>3, <2>4 DEF ServeResult
<1>4. ASSUME NEW i \in Instances, WorkerSteps(i) PROVE DropsAreStored
  BY <1>1, <1>2, <1>4 DEF WorkerSteps, Begin, Start, Execute, Act, ActAnswered, Finish
<1>5. ASSUME NEW i \in Instances, Serve(i) PROVE DropsAreStored
  <2>1. PICK c \in calls : ServeClaim(c) \/ ServeResult(c)
    BY <1>5 DEF Serve
  <2>2. CASE ServeClaim(c)
    BY <1>1, <2>2 DEF ServeClaim
  <2> QED
    BY <1>3, <2>1, <2>2
<1>6. CASE \/ Create \/ CallLost \/ SwitchPolicy \/ UNCHANGED vars
           \/ \E i \in Instances : GiveUp(i) \/ Crash(i)
           \/ \E o \in OpIds : LeaseExpires(o)
  BY <1>1, <1>6 DEF Create, CallLost, SwitchPolicy, GiveUp, Crash, LeaseExpires, vars
<1> QED
  BY <1>4, <1>5, <1>6 DEF Next

-----------------------------------------------------------------------------
(* Theorems *)

\* However many instances serve a host, crash and lose calls, an operation is run
\* by one of them at a time, once for each claim and for each crash that kept an
\* outcome from being recorded.
THEOREM RunsStayExact == Spec => []RunsAreExact
<1> QED
  BY InitIsExact, NextIsExact, PTL DEF Spec

\* What is stored, kept or reported as a success was confirmed by the daemon.
THEOREM SuccessesAreTrue == Spec => []SuccessIsTrue
<1>1. Init => SuccessIsTrue
  BY DEF Init, SuccessIsTrue
<1> QED
  BY <1>1, RunsStayExact, NextIsTrue, PTL DEF Spec

\* A receipt is dropped only once the API has a result for its operation.
THEOREM ReceiptsOutliveReports == Spec => ReceiptOutlivesReport
<1>1. RunsAreExact /\ [Next]_vars =>
        [\A i \in Instances :
           receipt[i] # None /\ receipt'[i] = None
             => ops'[receipt[i].op].status \in Settled]_vars
  BY NextDrops DEF DropsAreStored
<1> QED
  BY <1>1, RunsStayExact, PTL DEF Spec, ReceiptOutlivesReport

=============================================================================
