---------------------------- MODULE DockerPanel ----------------------------
(***************************************************************************)
(* The container management panel of the web dashboard                     *)
(* (DockerContainerManagementPanel.tsx): the capability of a VPS, the      *)
(* target selected of it, the action confirmed on it, the operation whose  *)
(* status is looked up by hand, and the logs loaded by hand.               *)
(*                                                                         *)
(* The component outlives a change of VPS: its state belongs to whichever  *)
(* VPS it was made for until an effect takes it back.  What the user can   *)
(* press is what is rendered: nothing while the capability is checked, and *)
(* nothing behind the dialog.  A container key belongs to one VPS.         *)
(*                                                                         *)
(* Left out: the number of log lines, error texts, the three actions (one  *)
(* stands for them), a capability without logs.                            *)
(***************************************************************************)
EXTENDS Naturals, FiniteSets

CONSTANTS Hosts,            \* the VPSs the user goes between
          KeysAt,           \* the container keys of each
          MaxGoes,          \* bound: changes of VPS, of the switch, retries
          MaxOps,           \* bound: operations requested
          MaxLooks          \* bound: status lookups and log loads

ASSUME PanelAssumption ==
  /\ {MaxGoes, MaxOps, MaxLooks} \subseteq Nat
  /\ \A v, w \in Hosts : KeysAt[v] \cap KeysAt[w] # {} => v = w

VARIABLES host, enabled,    \* the VPS shown, management enabled for it
          capability,       \* [state, keys]: what its last check said
          probe,            \* the check in flight, by VPS
          target,           \* the container selected
          dialog,           \* the confirmation is open
          op,               \* [n, vps, key, status]: the operation shown (n = 0: none)
          busy, checking,   \* a request, a lookup is out
          ops,              \* the operations of the API
          requests,         \* actions asked, answers to come: operation numbers
          lookups,          \* status lookups out
          logs,             \* the logs shown, by container (none or one)
          logAsks,          \* log loads out
          logsLoading, cut, \* shown as loading; ghost: a load was taken back by an effect
          used              \* what is used of the bounds

panelVars == <<host, enabled, capability, probe, target, dialog, op, busy, checking, ops,
               requests, lookups, logs, logAsks, logsLoading, cut, used>>

Unset   == "unset"
NoOp    == [n |-> 0, vps |-> Unset, key |-> Unset, status |-> 0]
AllKeys == UNION {KeysAt[v] : v \in Hosts}
Last    == 2                \* queued 0, claimed 1, finished 2

Rendered == enabled /\ capability.state = "ready"
Selected == target \in capability.keys
CanPress == Rendered /\ ~dialog
Visible  == op.n # 0 /\ op.key = target

operationVars == <<op, busy, checking, ops, requests, lookups>>
logVars       == <<logs, logAsks, logsLoading, cut>>

Aborted(asked) == {[a EXCEPT !.aborted = TRUE] : a \in asked}

\* The effect of a new capability: a target it does not have is taken back,
\* with the dialog and the logs.  The load it aborts stays shown as loading.
Cleanup(keys) ==
    IF target = Unset \/ target \in keys THEN UNCHANGED <<target, dialog, logs, logAsks, cut>>
    ELSE /\ target' = Unset
         /\ dialog' = FALSE
         /\ logs' = {}
         /\ logAsks' = Aborted(logAsks)
         /\ cut' = (cut \/ \E a \in logAsks : ~a.aborted)

\* The check of the capability: what was asked before is cancelled; until
\* the answer the panel shows nothing but that it is checking.
Check(v) == probe' = {v} /\ capability' = [capability EXCEPT !.state = "loading"]
----------------------------------------------------------------------------
GoToHost ==
    \E v \in Hosts \ {host} :
        /\ used.goes < MaxGoes
        /\ used' = [used EXCEPT !.goes = @ + 1]
        /\ host' = v
        /\ IF enabled THEN Check(v) ELSE UNCHANGED <<probe, capability>>
        /\ UNCHANGED <<enabled, target, dialog, operationVars, logVars>>

\* Disabled: everything is taken back, the flag of a log load excepted.
Disable ==
    /\ enabled /\ used.goes < MaxGoes
    /\ used' = [used EXCEPT !.goes = @ + 1]
    /\ enabled' = FALSE
    /\ probe' = {}
    /\ capability' = [state |-> "none", keys |-> {}]
    /\ target' = Unset
    /\ dialog' = FALSE
    /\ op' = NoOp /\ busy' = FALSE /\ checking' = FALSE
    /\ logs' = {}
    /\ logAsks' = Aborted(logAsks)
    /\ cut' = (cut \/ \E a \in logAsks : ~a.aborted)
    /\ UNCHANGED <<host, ops, requests, lookups, logsLoading>>

Enable ==
    /\ ~enabled
    /\ enabled' = TRUE
    /\ Check(host)
    /\ UNCHANGED <<host, target, dialog, operationVars, logVars, used>>

Retry ==
    /\ enabled /\ capability.state = "error" /\ used.goes < MaxGoes
    /\ used' = [used EXCEPT !.goes = @ + 1]
    /\ Check(host)
    /\ UNCHANGED <<host, enabled, target, dialog, operationVars, logVars>>

CapabilityArrives ==
    \E v \in probe, keys \in SUBSET AllKeys, state \in {"ready", "error"} :
        /\ keys \subseteq KeysAt[v] /\ (state = "error" => keys = {})
        /\ probe' = {}
        /\ capability' = [state |-> state, keys |-> keys]
        /\ Cleanup(keys)
        /\ UNCHANGED <<host, enabled, operationVars, logsLoading, used>>

Pick ==
    \E k \in capability.keys \cup {Unset} :
        /\ CanPress /\ target' = k
        /\ UNCHANGED <<host, enabled, capability, probe, dialog, operationVars, logVars, used>>
----------------------------------------------------------------------------
(* Actions and their operation.                                            *)

Press ==
    /\ CanPress /\ Selected /\ ~busy /\ ~checking /\ used.ops < MaxOps
    /\ dialog' = TRUE
    /\ UNCHANGED <<host, enabled, capability, probe, target, operationVars, logVars, used>>

CancelDialog ==
    /\ Rendered /\ dialog /\ ~busy
    /\ dialog' = FALSE
    /\ UNCHANGED <<host, enabled, capability, probe, target, operationVars, logVars, used>>

\* Confirmed: one request, for the VPS and the target of the dialog.
Confirm ==
    /\ Rendered /\ dialog /\ Selected /\ ~busy /\ used.ops < MaxOps
    /\ busy' = TRUE
    /\ ops' = [ops EXCEPT ![used.ops + 1] = [vps |-> host, key |-> target, status |-> 0]]
    /\ requests' = requests \cup {used.ops + 1}
    /\ used' = [used EXCEPT !.ops = @ + 1]
    /\ UNCHANGED <<host, enabled, capability, probe, target, dialog, op, checking, lookups, logVars>>

\* The answer is the operation shown, or an error keeps the last one.
Confirmed ==
    \E n \in requests :
        /\ requests' = requests \ {n}
        /\ busy' = FALSE /\ dialog' = FALSE
        /\ \/ op' = [n |-> n, vps |-> ops[n].vps, key |-> ops[n].key, status |-> 0] /\ checking' = FALSE
           \/ UNCHANGED <<op, checking>>
        /\ UNCHANGED <<host, enabled, capability, probe, target, ops, lookups, logVars, used>>

\* The agent claims the operation and reports its end.
OperationMoves ==
    \E n \in 1 .. used.ops :
        /\ ops[n].status < Last
        /\ ops' = [ops EXCEPT ![n].status = @ + 1]
        /\ UNCHANGED <<host, enabled, capability, probe, target, dialog, op, busy, checking,
                       requests, lookups, logVars, used>>

\* Faulty: a lookup does not wait for the one that is out.
LookUp_Again ==
    /\ CanPress /\ Visible /\ used.looks < MaxLooks
    /\ checking' = TRUE
    /\ lookups' = lookups \cup {[n |-> op.n, id |-> used.looks, status |-> 0, read |-> FALSE]}
    /\ used' = [used EXCEPT !.looks = @ + 1]
    /\ UNCHANGED <<host, enabled, capability, probe, target, dialog, op, busy, ops, requests, logVars>>

LookUp ==
    /\ CanPress /\ Visible /\ ~checking /\ used.looks < MaxLooks
    /\ checking' = TRUE
    /\ lookups' = lookups \cup {[n |-> op.n, id |-> used.looks, status |-> 0, read |-> FALSE]}
    /\ used' = [used EXCEPT !.looks = @ + 1]
    /\ UNCHANGED <<host, enabled, capability, probe, target, dialog, op, busy, ops, requests, logVars>>

LookUpReads ==
    \E l \in lookups :
        /\ ~l.read
        /\ lookups' = (lookups \ {l}) \cup {[l EXCEPT !.read = TRUE, !.status = ops[l.n].status]}
        /\ UNCHANGED <<host, enabled, capability, probe, target, dialog, op, busy, checking, ops,
                       requests, logVars, used>>

LookedUp ==
    \E l \in lookups :
        /\ lookups' = lookups \ {l}
        /\ checking' = FALSE
        /\ \/ l.read /\ op' = [n |-> l.n, vps |-> ops[l.n].vps, key |-> ops[l.n].key, status |-> l.status]
           \/ UNCHANGED op
        /\ UNCHANGED <<host, enabled, capability, probe, target, dialog, busy, ops, requests, logVars, used>>
----------------------------------------------------------------------------
(* Logs.                                                                   *)

LoadLogs ==
    /\ CanPress /\ Selected /\ ~logsLoading /\ used.looks < MaxLooks
    /\ logAsks' = Aborted(logAsks) \cup {[vps |-> host, key |-> target, aborted |-> FALSE, id |-> used.looks]}
    /\ logsLoading' = TRUE
    /\ cut' = FALSE
    /\ used' = [used EXCEPT !.looks = @ + 1]
    /\ UNCHANGED <<host, enabled, capability, probe, target, dialog, operationVars, logs>>

\* The logs arrive or fail; an aborted load changes nothing.
LogsArrive ==
    \E a \in logAsks :
        /\ logAsks' = logAsks \ {a}
        /\ IF a.aborted THEN UNCHANGED <<logs, logsLoading>>
           ELSE /\ logs' \in {logs, {[vps |-> a.vps, key |-> a.key]}}
                /\ logsLoading' = FALSE
        /\ UNCHANGED <<host, enabled, capability, probe, target, dialog, operationVars, cut, used>>

ClearLogs ==
    /\ CanPress /\ logs # {}
    /\ logs' = {}
    /\ logAsks' = Aborted(logAsks)
    /\ logsLoading' = FALSE
    /\ cut' = FALSE
    /\ UNCHANGED <<host, enabled, capability, probe, target, dialog, operationVars, used>>
----------------------------------------------------------------------------
NInit ==
    /\ host \in Hosts /\ enabled = TRUE
    /\ capability = [state |-> "loading", keys |-> {}]
    /\ probe = {host}
    /\ target = Unset /\ dialog = FALSE
    /\ op = NoOp /\ busy = FALSE /\ checking = FALSE
    /\ ops = [n \in 1 .. MaxOps |-> [vps |-> Unset, key |-> Unset, status |-> 0]]
    /\ requests = {} /\ lookups = {}
    /\ logs = {} /\ logAsks = {} /\ logsLoading = FALSE /\ cut = FALSE
    /\ used = [goes |-> 0, ops |-> 0, looks |-> 0]

NNext == GoToHost \/ Disable \/ Enable \/ Retry \/ CapabilityArrives \/ Pick
         \/ Press \/ CancelDialog \/ Confirm \/ Confirmed \/ OperationMoves
         \/ LookUp \/ LookUpReads \/ LookedUp \/ LoadLogs \/ LogsArrive \/ ClearLogs

NSpec == NInit /\ [][NNext]_panelVars
----------------------------------------------------------------------------
PanelTypeOK ==
    /\ host \in Hosts /\ enabled \in BOOLEAN
    /\ capability.state \in {"none", "loading", "error", "ready"} /\ capability.keys \subseteq AllKeys
    /\ probe \subseteq Hosts /\ Cardinality(probe) <= 1
    /\ target \in AllKeys \cup {Unset} /\ {dialog, busy, checking, logsLoading, cut} \subseteq BOOLEAN
    /\ op.n \in 0 .. MaxOps /\ op.status \in 0 .. Last
    /\ requests \subseteq 1 .. MaxOps /\ Cardinality(logs) <= 1

\* Every operation was confirmed for a container of the VPS it was asked
\* of, however the page was switched under the dialog.
ActionsHitTheirHost == \A n \in 1 .. used.ops : ops[n].key \in KeysAt[ops[n].vps]

\* What the panel shows is of the VPS shown: the target, and the operation
\* that goes with it.
ShownIsOfTheHost ==
    Rendered => /\ target # Unset => target \in capability.keys \cap KeysAt[host]
                /\ target # Unset /\ Visible => op.vps = host

\* At most one log load can still change the panel, and it is the one
\* shown as loading; a panel that loads with none out had its load taken
\* back by an effect (and loads for ever: only an unmount or the Clear
\* button, which needs logs to clear, ends it).
LoadingIsExplained ==
    LET live == {a \in logAsks : ~a.aborted}
    IN  Cardinality(live) <= 1 /\ (live # {} => logsLoading) /\ (logsLoading => live # {} \/ cut)

\* What the panel does and shows is of its VPS.
PanelIsOfTheHost == PanelTypeOK /\ ActionsHitTheirHost /\ ShownIsOfTheHost /\ LoadingIsExplained

\* While the page stays on its VPS, the status shown of an operation
\* follows the operation: it never goes back.
StatusFollows == [][used'.goes = 0 /\ op'.n = op.n => op'.status >= op.status]_panelVars

\* "Target + log cleanup on scope change": the logs shown are of the target.
LogsAreOfTheTarget == \A x \in logs : Rendered => x.key = target
=============================================================================
