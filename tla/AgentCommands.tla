--------------------------- MODULE AgentCommands ---------------------------
(***************************************************************************)
(* Docker commands from the queue of the API to the daemon of a host: an   *)
(* operation is created, claimed under a lease by an instance of the       *)
(* agent, executed, and reported back.                                     *)
(*                                                                         *)
(* The agent's worker handles one command at a time and keeps one durable  *)
(* receipt; a crash may come before and after each write of it and each    *)
(* request to the daemon.  A call to the API is served in two steps, as    *)
(* its handler awaits a read and then a write; the agent may give up       *)
(* waiting or crash before either, and never learn of what was written.    *)
(*                                                                         *)
(* Several instances may serve one host, as after a new installation.      *)
(* Their clocks agree with the API's.  MaxOps bounds the operations (fewer *)
(* than operationsPerVps, so none is trimmed), MaxTrouble the crashes, the *)
(* calls given up and the changes of the policy.                           *)
(***************************************************************************)
EXTENDS Integers, Sequences, FiniteSets

CONSTANTS
  None,
  Instances,    \* the instances of the agent
  Targets,      \* the values of target.agentInstanceId, None when absent
  MaxOps,
  MaxTrouble

ASSUME BoundsAssumption ==
  /\ MaxOps \in Nat /\ MaxTrouble \in Nat
  /\ None \notin Instances /\ Targets \subseteq Instances \cup {None}

VARIABLES
  ops,       \* the operations of the host, oldest first
  enabled,   \* dockerManagementEnabled of the host
  calls,     \* calls the API has not answered
  receipt,   \* the durable receipt of each instance
  worker,    \* the memory of each instance's worker
  trouble,   \* mishaps so far
  ran,       \* history: how often the daemon was asked to run an operation
  forgotten, \* history: how many of these a crash kept from being recorded
  did        \* history: operations the daemon has confirmed

vars == <<ops, enabled, calls, receipt, worker, trouble, ran, forgotten, did>>

history == <<ran, forgotten, did>>

-----------------------------------------------------------------------------
(* State *)

OpIds == 1 .. MaxOps

Settled == {"succeeded", "failed"}

Codes == {"", "deadline_exceeded", "target_mismatch", "action_failed", "uncertain_outcome"}

\* `grant' counts the claims; `lease' says that the time of the last is not up.
Operation == [ status : {"queued", "claimed"} \cup Settled,
               target : Targets,
               by     : Instances \cup {None},   \* claimedBy
               lease  : BOOLEAN, grant : Nat,
               message : Codes ]                 \* of the result

Reportable == {"succeeded", "failed", "uncertain"}

Receipt == [ op : OpIds, grant : Nat, state : {"claimed", "executing"} \cup Reportable,
             code : Codes ]

ASSUME NoneAssumption == None \notin Receipt /\ None \notin Reportable

\* Where a worker stands, and the command it was given.
Worker == [ pc : {"idle", "claim", "start", "execute", "act", "answer", "report"},
            op : OpIds \cup {0}, grant : Nat ]

Idle == [pc |-> "idle", op |-> 0, grant |-> 0]

\* A call: claim or report, whether its handler has read, whether the agent waits.
Call == [ by : Instances, kind : {"claim", "result"}, op : OpIds \cup {0},
          state : Reportable \cup {None}, code : Codes,
          checked : BOOLEAN, waited : BOOLEAN ]

Mishap == trouble < MaxTrouble /\ trouble' = trouble + 1

\* The absolute deadline of a claim is the end of its lease.
Expired(o, grant) == ~ (ops[o].lease /\ ops[o].grant = grant)

-----------------------------------------------------------------------------
(* The API *)

\* create: a repeated request finds its operation by its idempotency key and
\* changes nothing.
Create ==
  /\ enabled /\ Len(ops) < MaxOps
  /\ \E t \in Targets :
       ops' = Append(ops, [ status |-> "queued", target |-> t, by |-> None,
                            lease |-> FALSE, grant |-> 0, message |-> "" ])
  /\ UNCHANGED <<enabled, calls, receipt, worker, trouble, history>>

\* Faulty: a claimed operation is handed out whatever its lease.
Claimable_IgnoresLease(i) ==
  { o \in DOMAIN ops : /\ ops[o].target \in {i, None}
                       /\ ops[o].status \in {"queued", "claimed"} }

\* Faulty: an operation whose lease ran out is not handed out again.
Claimable_QueuedOnly(i) ==
  { o \in DOMAIN ops : ops[o].target \in {i, None} /\ ops[o].status = "queued" }

\* claimNextQueued: what instance i may claim.
Claimable(i) ==
  { o \in DOMAIN ops : /\ ops[o].target \in {i, None}
                       /\ \/ ops[o].status = "queued"
                          \/ ops[o].status = "claimed" /\ ~ ops[o].lease }

Oldest(S) == CHOOSE o \in S : \A p \in S : o <= p

\* Call c is answered: a worker that still waits takes the command `next'.
Reply(c, next) ==
  /\ calls' = calls \ {c}
  /\ worker' = IF c.waited THEN [worker EXCEPT ![c.by] = next] ELSE worker

\* The echo of a result commits the receipt of the worker that waits for it.
Echo(c) ==
  /\ Reply(c, Idle)
  /\ receipt' = IF c.waited THEN [receipt EXCEPT ![c.by] = None] ELSE receipt

\* The handler has read what it decides on and goes on to its write.
Proceed(c) ==
  /\ calls' = (calls \ {c}) \cup {[c EXCEPT !.checked = TRUE]}
  /\ UNCHANGED worker

\* claimForAgent reads the policy, then claims.
ServeClaim(c) ==
  /\ c.kind = "claim"
  /\ \/ /\ ~ c.checked
        /\ IF enabled THEN Proceed(c) ELSE Reply(c, Idle)
        /\ UNCHANGED ops
     \/ /\ c.checked /\ Claimable(c.by) = {}
        /\ Reply(c, Idle) /\ UNCHANGED ops
     \/ /\ c.checked /\ Claimable(c.by) # {}
        /\ LET o == Oldest(Claimable(c.by))
               granted == [ops[o] EXCEPT !.status = "claimed", !.by = c.by,
                                         !.lease = TRUE, !.grant = @ + 1]
           IN /\ ops' = [ops EXCEPT ![o] = granted]
              /\ Reply(c, [pc |-> "start", op |-> o, grant |-> granted.grant])
  /\ UNCHANGED <<enabled, receipt, trouble, history>>

\* Faulty: a result that is not certain is stored as a success.
StatusOf_Lenient(c) == IF c.state = "failed" THEN "failed" ELSE "succeeded"

\* The status of an operation whose result is reported.
StatusOf(c) == IF c.state = "succeeded" THEN "succeeded" ELSE "failed"

\* Another instance's operation.
Foreign(c) ==
  LET o == ops[c.op] IN o.target \notin {c.by, None} \/ o.by \notin {c.by, None}

\* The result that is already stored.
Identical(c) == ops[c.op].status = StatusOf(c) /\ ops[c.op].message = c.code

\* resultForAgent reads the operation and checks, then setResult overwrites it.
ServeResult(c) ==
  /\ c.kind = "result"
  /\ \/ /\ ~ c.checked /\ (Foreign(c) \/ (ops[c.op].status \in Settled /\ ~ Identical(c)))
        /\ Reply(c, Idle) /\ UNCHANGED <<ops, receipt>>
     \/ /\ ~ c.checked /\ ~ Foreign(c) /\ Identical(c)
        /\ Echo(c) /\ UNCHANGED ops
     \/ /\ ~ c.checked /\ ~ Foreign(c) /\ ops[c.op].status = "claimed"
        /\ Proceed(c) /\ UNCHANGED <<ops, receipt>>
     \/ /\ c.checked
        /\ ops' = [ops EXCEPT ![c.op].status = StatusOf(c), ![c.op].message = c.code]
        /\ Echo(c)
  /\ UNCHANGED <<enabled, trouble, history>>

Serve(i) == \E c \in calls : c.by = i /\ (ServeClaim(c) \/ ServeResult(c))

-----------------------------------------------------------------------------
(* The worker *)

Goto(i, pc) == worker' = [worker EXCEPT ![i].pc = pc]

\* A call of i, which waits for its answer.
Send(i, kind, o, state, code) ==
  calls' = calls \cup {[ by |-> i, kind |-> kind, op |-> o, state |-> state,
                         code |-> code, checked |-> FALSE, waited |-> TRUE ]}

\* Save the receipt of the command in hand.
Persist(i, state, code) ==
  receipt' = [receipt EXCEPT ![i] = [ op |-> worker[i].op, grant |-> worker[i].grant,
                                      state |-> state, code |-> code ]]

\* Save the receipt of an outcome, then report it (reportTerminal).
Finish(i, state, code) ==
  /\ Persist(i, state, code)
  /\ Send(i, "result", worker[i].op, state, code)
  /\ Goto(i, "report")

\* A receipt with an outcome is reported, never executed.
Finished(r) == r.state \in Reportable

\* ProcessOne: resume with the receipt, or claim.  No receipt says Executed
\* before it has an outcome, so resume's promotion to uncertain is never taken.
Begin(i) ==
  LET r == receipt[i] IN
  /\ worker[i].pc = "idle"
  /\ \/ /\ r = None
        /\ Send(i, "claim", 0, None, "") /\ Goto(i, "claim")
     \/ /\ r # None /\ Finished(r)
        /\ Send(i, "result", r.op, r.state, r.code) /\ Goto(i, "report")
     \/ /\ r # None /\ ~ Finished(r)
        /\ worker' = [worker EXCEPT ![i] = [pc |-> "execute", op |-> r.op, grant |-> r.grant]]
        /\ UNCHANGED calls
  /\ UNCHANGED <<ops, enabled, receipt, trouble, history>>

\* start
Start(i) ==
  /\ worker[i].pc = "start"
  /\ IF Expired(worker[i].op, worker[i].grant)
     THEN Finish(i, "failed", "deadline_exceeded")
     ELSE Persist(i, "claimed", "") /\ Goto(i, "execute") /\ UNCHANGED calls
  /\ UNCHANGED <<ops, enabled, trouble, history>>

\* execute, up to the call of the daemon: the target may not resolve.
Execute(i) ==
  /\ worker[i].pc = "execute"
  /\ \/ Finish(i, "failed", "target_mismatch")
     \/ IF Expired(worker[i].op, worker[i].grant)
        THEN Finish(i, "failed", "deadline_exceeded")
        ELSE Persist(i, "executing", "") /\ Goto(i, "act") /\ UNCHANGED calls
  /\ UNCHANGED <<ops, enabled, trouble, history>>

\* Act sends the request, unless the deadline has cancelled its context.
Act(i) ==
  LET o == worker[i].op IN
  /\ worker[i].pc = "act"
  /\ IF Expired(o, worker[i].grant)
     THEN Finish(i, "uncertain", "uncertain_outcome") /\ UNCHANGED ran
     ELSE /\ ran' = [ran EXCEPT ![o] = @ + 1]
          /\ Goto(i, "answer") /\ UNCHANGED <<receipt, calls>>
  /\ UNCHANGED <<ops, enabled, trouble, forgotten, did>>

\* The daemon's answer, or none.
ActAnswered(i) ==
  /\ worker[i].pc = "answer"
  /\ \/ Finish(i, "succeeded", "") /\ did' = did \cup {worker[i].op}
     \/ Finish(i, "failed", "action_failed") /\ UNCHANGED did
     \/ Finish(i, "uncertain", "uncertain_outcome") /\ UNCHANGED did
  /\ UNCHANGED <<ops, enabled, trouble, ran, forgotten>>

-----------------------------------------------------------------------------
(* Surroundings *)

\* The calls of i once nobody waits for their answer.
Unwaited(i) == { IF c.by = i THEN [c EXCEPT !.waited = FALSE] ELSE c : c \in calls }

\* Faulty: the receipt of an outcome is dropped although its report failed.
GiveUp_DropsReceipt(i) ==
  /\ worker[i].pc \in {"claim", "report"} /\ Mishap
  /\ calls' = Unwaited(i)
  /\ worker' = [worker EXCEPT ![i] = Idle]
  /\ receipt' = [receipt EXCEPT ![i] = None]
  /\ UNCHANGED <<ops, enabled, history>>

\* The request times out at the agent; the receipt stays.
GiveUp(i) ==
  /\ worker[i].pc \in {"claim", "report"} /\ Mishap
  /\ calls' = Unwaited(i)
  /\ worker' = [worker EXCEPT ![i] = Idle]
  /\ UNCHANGED <<ops, enabled, receipt, history>>

\* A call nobody waits for never arrives, or its handler dies.
CallLost ==
  /\ \E c \in calls : ~ c.waited /\ calls' = calls \ {c}
  /\ UNCHANGED <<ops, enabled, receipt, worker, trouble, history>>

\* The agent dies, or a write of the receipt fails and ends the cycle: the
\* receipt stays as it was, the memory of the command is gone.
Crash(i) ==
  /\ worker[i].pc # "idle" /\ Mishap
  /\ calls' = Unwaited(i)
  /\ worker' = [worker EXCEPT ![i] = Idle]
  /\ forgotten' = IF worker[i].pc = "answer"
                  THEN [forgotten EXCEPT ![worker[i].op] = @ + 1] ELSE forgotten
  /\ UNCHANGED <<ops, enabled, receipt, ran, did>>

\* execContext ends the daemon's call 500 ms before the lease.
LeaseExpires(o) ==
  /\ o \in DOMAIN ops /\ ops[o].lease
  /\ \A i \in Instances : ~ (worker[i].pc = "answer" /\ worker[i].op = o)
  /\ ops' = [ops EXCEPT ![o].lease = FALSE]
  /\ UNCHANGED <<enabled, calls, receipt, worker, trouble, history>>

\* Management of the host is switched off or on.
SwitchPolicy ==
  /\ Mishap
  /\ enabled' = ~ enabled
  /\ UNCHANGED <<ops, calls, receipt, worker, history>>

-----------------------------------------------------------------------------
Init ==
  /\ ops = <<>>
  /\ enabled = TRUE
  /\ calls = {}
  /\ receipt = [i \in Instances |-> None]
  /\ worker = [i \in Instances |-> Idle]
  /\ trouble = 0
  /\ ran = [o \in OpIds |-> 0]
  /\ forgotten = [o \in OpIds |-> 0]
  /\ did = {}

WorkerSteps(i) ==
  Begin(i) \/ Start(i) \/ Execute(i) \/ Act(i) \/ ActAnswered(i)

Next ==
  \/ Create \/ CallLost \/ SwitchPolicy
  \/ \E i \in Instances : WorkerSteps(i) \/ Serve(i) \/ GiveUp(i) \/ Crash(i)
  \/ \E o \in OpIds : LeaseExpires(o)

Spec == Init /\ [][Next]_vars

\* The worker's ticker and the API run on, and time passes.
FairSpec ==
  /\ Spec
  /\ \A i \in Instances : WF_vars(WorkerSteps(i)) /\ WF_vars(Serve(i))
  /\ \A o \in OpIds : WF_vars(LeaseExpires(o))

-----------------------------------------------------------------------------
(* Properties *)

\* Every variable has its type.
TypeOK ==
  /\ ops \in Seq(Operation) /\ Len(ops) <= MaxOps
  /\ enabled \in BOOLEAN
  /\ calls \subseteq Call
  /\ receipt \in [Instances -> Receipt \cup {None}]
  /\ worker \in [Instances -> Worker]
  /\ trouble \in 0 .. MaxTrouble
  /\ ran \in [OpIds -> Nat] /\ forgotten \in [OpIds -> Nat] /\ did \subseteq OpIds

\* Where a worker has a command in hand: first without a receipt, then with one.
Unsaved == {"start"}
Saved   == {"execute", "act", "answer"}

\* The receipt a worker wrote is the one of its command, and it has an outcome
\* exactly when the worker reports (a crash or a lost report leaves it as it is).
ReceiptFollows(i) ==
  LET w == worker[i]  r == receipt[i] IN
  /\ w.pc \in {"claim"} \cup Unsaved => r = None
  /\ w.pc \in Saved => r # None /\ r.op = w.op /\ r.grant = w.grant /\ ~ Finished(r)
  /\ w.pc = "report" => r # None /\ Finished(r)

\* The claims, by operation and grant, that i has in hand or in its receipt.
Held(i) ==
  { <<worker[i].op, worker[i].grant>> : pc \in {worker[i].pc} \cap (Unsaved \cup Saved) }
    \cup { <<r.op, r.grant>> : r \in {receipt[i]} \ {None} }

\* A claim that is held was granted, and to no other instance, however often the
\* operation was claimed again since; one that runs still has its lease.
ClaimsAreOwned ==
  /\ \A i \in Instances : \A h \in Held(i) :
       h[1] \in DOMAIN ops /\ h[2] \in 1 .. ops[h[1]].grant
  /\ \A i, k \in Instances : i # k => Held(i) \cap Held(k) = {}
  /\ \A i \in Instances :
       worker[i].pc = "answer" => ~ Expired(worker[i].op, worker[i].grant)
  /\ \A o \in DOMAIN ops : ops[o].status = "queued" => ~ ops[o].lease

\* A call the agent still waits for is its only one, and the one its worker is
\* at; a result on its way is about an operation of the host.
CallsAreAwaited ==
  \A c \in calls :
    /\ c.kind = "result" => c.op \in DOMAIN ops /\ c.state # None
    /\ c.waited =>
         /\ worker[c.by].pc = IF c.kind = "claim" THEN "claim" ELSE "report"
         /\ c.kind = "result" => receipt[c.by] # None /\ receipt[c.by].op = c.op
         /\ \A d \in calls : d.waited /\ d.by = c.by => d = c

\* Whatever instances serve the host, the daemon is never asked to run one
\* operation by two of them at the same time (claimNextQueued, execContext).
OneRunner ==
  \A i, k \in Instances :
    i # k /\ worker[i].pc = "answer" /\ worker[k].pc = "answer"
      => worker[i].op # worker[k].op

\* Instance i may yet send the request of claim g of operation o.
MayRun(i, o, g) ==
  \/ /\ worker[i].pc \in {"start", "execute", "act"}
     /\ worker[i].op = o /\ worker[i].grant = g
  \/ /\ worker[i].pc = "idle" /\ receipt[i] # None /\ ~ Finished(receipt[i])
     /\ receipt[i].op = o /\ receipt[i].grant = g

\* The claims of o that may still lead to a request.
Open(o) == {g \in 1 .. ops[o].grant : \E i \in Instances : MayRun(i, o, g)}

\* Each claim runs the operation once, and once more for every crash that came
\* between the action and the receipt of its outcome (resume, execute).
RunsAreAccounted ==
  /\ \A o \in DOMAIN ops : ran[o] + Cardinality(Open(o)) <= ops[o].grant + forgotten[o]
  /\ \A o \in OpIds \ DOMAIN ops : ran[o] = 0

\* What the instances hold is what the queue granted them and what they wait for.
CommandsAreHeld ==
  /\ \A i \in Instances : ReceiptFollows(i)
  /\ ClaimsAreOwned
  /\ CallsAreAwaited

\* What runs, runs in one place and is accounted for by its claims and crashes.
RunsAreExact == TypeOK /\ CommandsAreHeld /\ OneRunner /\ RunsAreAccounted

\* An operation stored as succeeded was confirmed by the daemon, however late,
\* often or by whomever it was reported (resultForAgent, execute); so were the
\* successes still in receipts and in calls, whoever waits for them.
SuccessIsTrue ==
  /\ \A o \in DOMAIN ops : ops[o].status = "succeeded" => o \in did
  /\ \A i \in Instances :
       receipt[i] # None /\ receipt[i].state = "succeeded" => receipt[i].op \in did
  /\ \A c \in calls : c.state = "succeeded" => c.op \in did

\* The agent drops a receipt only when the API has a result for its operation,
\* whatever calls were lost, given up or refused (reportTerminal).
ReceiptOutlivesReport ==
  [][\A i \in Instances :
       receipt[i] # None /\ receipt'[i] = None
         => ops'[receipt[i].op].status \in Settled]_vars

\* The receipt names an operation another instance has taken over.
Wedged(i) == receipt[i] # None /\ ops[receipt[i].op].by # i

\* The queue is closed, or it serves no more than an instance whose receipt can
\* never be reported.
Blocked(o) == ~ enabled \/ (ops[o].target # None /\ Wedged(ops[o].target))

\* Every operation is settled, unless the policy closes the queue or another
\* instance's claim keeps the one it is addressed to busy for ever
\* (claimForAgent, ProcessOne).
EveryOperationSettles ==
  \A o \in OpIds :
    o \in DOMAIN ops ~> o \in DOMAIN ops /\ (ops[o].status \in Settled \/ Blocked(o))

-----------------------------------------------------------------------------
(* What the documentation says and the code does not keep *)

\* The command worker "reports uncertain outcomes without replaying a mutation"
\* (architecture.md): with one instance, an operation is run at most once.
MutationNotReplayed == \A o \in DOMAIN ops : ran[o] <= 1

=============================================================================
