-------------------------- MODULE TerminalSessions --------------------------
(***************************************************************************)
(* Web terminals of the API: a WebSocket upgrade holds one of a few        *)
(* pending slots until its first message, the message opens a session,     *)
(* the session takes a place in the registry, dials the host over SSH and  *)
(* is torn down by one cleanup routine, whoever calls it first.  Between   *)
(* any two awaits of an opening the socket may close, the dashboard        *)
(* session be revoked, a timer fire or the server shut down.               *)
(*                                                                         *)
(* Time is left out: a timer that is set may fire.  A connection is opened *)
(* once; its dashboard session and its host are those of the constants.    *)
(* What flows through an open session is in TerminalFlow.                  *)
(***************************************************************************)
EXTENDS Integers, FiniteSets

CONSTANTS Conns,          \* upgrade requests
          Dash, Host,     \* the dashboard session and the host of each
          GlobalLimit, DashLimit, HostLimit, PendingLimit

ASSUME TerminalAssumption ==
  /\ IsFiniteSet(Conns)
  /\ DOMAIN Dash = Conns /\ DOMAIN Host = Conns
  /\ {GlobalLimit, DashLimit, HostLimit, PendingLimit} \subseteq Nat \ {0}

VARIABLES
  conn,      \* the connections
  pending,   \* the counter of reserved slots
  registry,  \* the connections the registry lists
  alive,     \* the dashboard sessions neither revoked nor expired
  stop       \* the shutdown: "no", "closing" the registry, or done

tvars == <<conn, pending, registry, alive, stop>>

-----------------------------------------------------------------------------
(* State *)

Dashes == { Dash[c] : c \in Conns }

\* pc is the await an upgrade or an opening stands at.
Steps == { "none", "lookup", "greeting", "stranded", "requested", "auth",
           "target", "dialling", "opened", "running", "failing", "done" }

\* Those at which an upgrade holds a slot.
SlotSteps == {"lookup", "greeting", "stranded"}

Connection ==
  [ pc : Steps,
    state : {"new", "opening", "ready", "closed"},
    socket : {"open", "closing", "closed"},
    known : BOOLEAN,       \* what the lookup of the session answered
    late : BOOLEAN,        \* admitted after its own cleanup
    timer : BOOLEAN,       \* the opening may time out
    polls : BOOLEAN,       \* the revocation poll and the lifetime run
    shell : {"none", "live", "closed"} ]

Fresh == [ pc |-> "none", state |-> "new", socket |-> "open", known |-> FALSE,
           late |-> FALSE, timer |-> FALSE, polls |-> FALSE, shell |-> "none" ]

Set(c, s) == conn' = [conn EXCEPT ![c] = s]
ConnAt(c, step) == conn[c].pc = step

-----------------------------------------------------------------------------
(* The registry *)

\* admit refuses.
Full(c) ==
  \/ Cardinality(registry) >= GlobalLimit
  \/ Cardinality({ r \in registry : Dash[r] = Dash[c] }) >= DashLimit
  \/ Cardinality({ r \in registry : Host[r] = Host[c] }) >= HostLimit

\* cleanup: the first caller does everything, the others nothing.  Timers set
\* so far are cleared, the shell is closed, the socket told to close.
Cleaned(s) ==
  IF s.state = "closed" THEN s
  ELSE [s EXCEPT !.state = "closed", !.timer = FALSE, !.polls = FALSE,
                 !.shell = IF @ = "live" THEN "closed" ELSE @,
                 !.socket = IF @ = "open" THEN "closing" ELSE @]

\* One session cleans up and gives its place back.
CleanUp(c) ==
  /\ Set(c, Cleaned(conn[c]))
  /\ registry' = registry \ {c}

-----------------------------------------------------------------------------
(* The upgrade *)

\* onUpgrade reserves a slot before it looks the session up.
Upgrade(c) ==
  /\ ConnAt(c, "none")
  /\ IF stop # "no" \/ pending >= PendingLimit
     THEN /\ Set(c, [conn[c] EXCEPT !.pc = "done", !.socket = "closed"])
          /\ UNCHANGED pending
     ELSE /\ Set(c, [conn[c] EXCEPT !.pc = "lookup"])
          /\ pending' = pending + 1
  /\ UNCHANGED <<registry, alive, stop>>

\* The lookup fails or answers.  handleUpgrade calls back only for a socket that is
\* still there: otherwise nobody releases the slot.
LookedUp(c) ==
  /\ ConnAt(c, "lookup")
  /\ \/ /\ Set(c, [conn[c] EXCEPT !.pc = "done", !.socket = "closed"])
        /\ pending' = pending - 1
     \/ /\ Dash[c] \in alive /\ stop = "no"
        /\ Set(c, [conn[c] EXCEPT !.pc = IF conn[c].socket = "open"
                                         THEN "greeting" ELSE "stranded"])
        /\ UNCHANGED pending
  /\ UNCHANGED <<registry, alive, stop>>

\* No message, or not an open request for this host.
BadGreeting(c) ==
  /\ ConnAt(c, "greeting")
  /\ Set(c, [conn[c] EXCEPT !.pc = "done", !.socket = "closed"])
  /\ pending' = pending - 1
  /\ UNCHANGED <<registry, alive, stop>>

\* Faulty: the slot is kept for the life of the session.
Greeting_Kept(c) ==
  /\ ConnAt(c, "greeting")
  /\ Set(c, [conn[c] EXCEPT !.pc = "requested", !.state = "opening"])
  /\ UNCHANGED <<pending, registry, alive, stop>>

\* The open request: the slot is released, open() installs the handlers of the
\* socket and audits the request.
Greeting(c) ==
  /\ ConnAt(c, "greeting")
  /\ Set(c, [conn[c] EXCEPT !.pc = "requested", !.state = "opening"])
  /\ pending' = pending - 1
  /\ UNCHANGED <<registry, alive, stop>>

-----------------------------------------------------------------------------
(* The opening *)

\* authenticateById reads the session.
Authenticate(c) ==
  /\ ConnAt(c, "requested")
  /\ Set(c, [conn[c] EXCEPT !.pc = "auth", !.known = Dash[c] \in alive])
  /\ UNCHANGED <<pending, registry, alive, stop>>

\* The answer is checked, then the registry asked: both in one turn.
AdmitTerminal(c) ==
  /\ ConnAt(c, "auth")
  /\ IF ~ conn[c].known \/ Full(c)
     THEN /\ Set(c, [conn[c] EXCEPT !.pc = "failing"])
          /\ UNCHANGED registry
     ELSE /\ Set(c, [conn[c] EXCEPT !.pc = "target", !.timer = TRUE,
                                    !.late = conn[c].state = "closed"])
          /\ registry' = registry \cup {c}
  /\ UNCHANGED <<pending, alive, stop>>

\* The host and its key are read; a session closed meanwhile returns.
Target(c) ==
  /\ ConnAt(c, "target")
  /\ \/ Set(c, [conn[c] EXCEPT !.pc = "failing"])
     \/ Set(c, [conn[c] EXCEPT !.pc = IF conn[c].state = "opening"
                                      THEN "dialling" ELSE "done"])
  /\ UNCHANGED <<pending, registry, alive, stop>>

\* openManagedShell fails, or delivers a shell: closed at once if the session
\* has ended, otherwise the session is ready, with its idle and heartbeat timers.
Dialled(c) ==
  /\ ConnAt(c, "dialling")
  /\ \/ Set(c, [conn[c] EXCEPT !.pc = "failing"])
     \/ /\ conn[c].state = "opening"
        /\ Set(c, [conn[c] EXCEPT !.pc = "opened", !.state = "ready",
                                  !.shell = "live", !.timer = FALSE])
     \/ /\ conn[c].state # "opening"
        /\ Set(c, [conn[c] EXCEPT !.pc = "done", !.shell = "closed"])
  /\ UNCHANGED <<pending, registry, alive, stop>>

\* After the audit of the opening: the lifetime, the revocation poll and the
\* handlers of the channel, whether or not the session is still ready.
Wire(c) ==
  /\ ConnAt(c, "opened")
  /\ Set(c, [conn[c] EXCEPT !.pc = "running", !.polls = TRUE])
  /\ UNCHANGED <<pending, registry, alive, stop>>

\* open() has thrown: the failure is audited, the socket told to close.
FailOpen(c) ==
  /\ ConnAt(c, "failing")
  /\ Set(c, [conn[c] EXCEPT !.pc = "done",
                            !.socket = IF @ = "open" THEN "closing" ELSE @])
  /\ UNCHANGED <<pending, registry, alive, stop>>

-----------------------------------------------------------------------------
(* The ends of a session *)

\* The socket is closed by the browser, the network or the answer to close():
\* its handlers clean up.
SocketClosed(c) ==
  /\ conn[c].socket # "closed" /\ ~ ConnAt(c, "none")
  /\ LET gone == [conn[c] EXCEPT !.socket = "closed"]
     IN IF ConnAt(c, "greeting")
        THEN /\ Set(c, [gone EXCEPT !.pc = "done"])
             /\ pending' = pending - 1
             /\ UNCHANGED registry
        ELSE /\ UNCHANGED pending
             /\ IF conn[c].state \in {"opening", "ready"}
                THEN Set(c, Cleaned(gone)) /\ registry' = registry \ {c}
                ELSE Set(c, gone) /\ UNCHANGED registry
  /\ UNCHANGED <<alive, stop>>

\* The opening takes too long.
OpenTimeout(c) ==
  /\ conn[c].timer /\ conn[c].state = "opening"
  /\ CleanUp(c)
  /\ UNCHANGED <<pending, alive, stop>>

\* A message out of place, a disconnect, an idle or heartbeat timeout, an
\* overflow, an error or the close of the channel.
SessionEnds(c) ==
  /\ conn[c].state \in {"opening", "ready"}
  /\ CleanUp(c)
  /\ UNCHANGED <<pending, alive, stop>>

\* The lifetime is over.
LifetimeOver(c) ==
  /\ conn[c].polls /\ conn[c].state = "ready"
  /\ CleanUp(c)
  /\ UNCHANGED <<pending, alive, stop>>

\* Faulty: the poll does not act on what it reads.
RevocationPoll_Ignored(c) == FALSE /\ UNCHANGED tvars

\* The poll finds the dashboard session gone.
RevocationPoll(c) ==
  /\ conn[c].polls /\ conn[c].state = "ready"
  /\ Dash[c] \notin alive
  /\ CleanUp(c)
  /\ UNCHANGED <<pending, alive, stop>>

\* A logout, an expiry or a change of the password.
Revoke(d) ==
  /\ d \in alive
  /\ alive' = alive \ {d}
  /\ UNCHANGED <<conn, pending, registry, stop>>

-----------------------------------------------------------------------------
(* The shutdown *)

\* close(): upgrades in their lookup are cut, every listed session is closed
\* and taken off the list.
ShutDown ==
  /\ stop = "no"
  /\ stop' = "closing"
  /\ conn' = [c \in Conns |->
                IF c \in registry THEN Cleaned(conn[c])
                ELSE IF ConnAt(c, "lookup") THEN [conn[c] EXCEPT !.socket = "closed"]
                ELSE conn[c]]
  /\ registry' = {}
  /\ UNCHANGED <<pending, alive>>

\* Then the clients of the WebSocket server are told to close.
CloseClients ==
  /\ stop = "closing"
  /\ stop' = "done"
  /\ conn' = [c \in Conns |->
                IF ConnAt(c, "none") \/ conn[c].socket # "open" THEN conn[c]
                ELSE [conn[c] EXCEPT !.socket = "closing"]]
  /\ UNCHANGED <<pending, registry, alive>>

-----------------------------------------------------------------------------
TInit ==
  /\ conn = [c \in Conns |-> Fresh]
  /\ pending = 0
  /\ registry = {}
  /\ alive = Dashes
  /\ stop = "no"

TNext ==
  \/ \E c \in Conns :
       \/ Upgrade(c) \/ LookedUp(c) \/ BadGreeting(c) \/ Greeting(c)
       \/ Authenticate(c) \/ AdmitTerminal(c) \/ Target(c) \/ Dialled(c)
       \/ Wire(c) \/ FailOpen(c)
       \/ SocketClosed(c) \/ OpenTimeout(c) \/ SessionEnds(c)
       \/ LifetimeOver(c) \/ RevocationPoll(c)
  \/ \E d \in Dashes : Revoke(d)
  \/ ShutDown \/ CloseClients

TSpec == TInit /\ [][TNext]_tvars

\* Database calls, audits and dials return; sockets told to close do; the timers
\* of an opening and the poll fire; a dashboard session expires.  Browsers and
\* users owe nothing, and the lifetime of a session, hours, is not counted on.
TerminalFairness ==
  \A c \in Conns :
    /\ WF_tvars(LookedUp(c)) /\ WF_tvars(BadGreeting(c))
    /\ WF_tvars(Authenticate(c)) /\ WF_tvars(AdmitTerminal(c))
    /\ WF_tvars(Target(c)) /\ WF_tvars(Dialled(c)) /\ WF_tvars(Wire(c))
    /\ WF_tvars(FailOpen(c)) /\ WF_tvars(OpenTimeout(c))
    /\ WF_tvars(RevocationPoll(c)) /\ WF_tvars(Revoke(Dash[c]))
    /\ WF_tvars(conn[c].socket = "closing" /\ SocketClosed(c))

TFairSpec == TSpec /\ TerminalFairness

-----------------------------------------------------------------------------
(* Properties *)

\* The state of the module stays what its declarations say.
TerminalTypeOK ==
  /\ conn \in [Conns -> Connection]
  /\ pending \in 0 .. PendingLimit
  /\ registry \subseteq Conns
  /\ alive \subseteq Dashes
  /\ stop \in {"no", "closing", "done"}

\* What the position of an opening says of its session, and the other way round.
OpeningsAreSound ==
  \A c \in Conns :
    /\ conn[c].pc \in {"none", "lookup", "greeting", "stranded"} =>
         conn[c].state = "new" /\ conn[c].shell = "none" /\ c \notin registry
    /\ conn[c].state = "new" =>
         conn[c].pc \in {"none", "lookup", "greeting", "stranded", "done"}
    /\ conn[c].pc = "greeting" \/ conn[c].state \in {"opening", "ready"} =>
         conn[c].socket # "closed"
    /\ conn[c].state = "opening" /\ conn[c].pc \in {"target", "dialling"} => c \in registry
    /\ conn[c].state = "ready" => c \in registry
    /\ stop = "done" /\ conn[c].pc # "none" => conn[c].socket # "open"

\* The registry lists no more than it may.
PlacesWithinLimits ==
  /\ Cardinality(registry) <= GlobalLimit
  /\ \A c \in Conns :
       /\ Cardinality({ r \in registry : Dash[r] = Dash[c] }) <= DashLimit
       /\ Cardinality({ r \in registry : Host[r] = Host[c] }) <= HostLimit

Shells(S) == Cardinality({ c \in S : conn[c].shell = "live" })

\* However openings interleave with each other's awaits and cleanups, no more
\* shells are open at once, in all, for a dashboard session and for a host, than
\* the registry (terminal-registry.ts) may list.
ShellsWithinLimits ==
  /\ Shells(Conns) <= GlobalLimit
  /\ \A c \in Conns :
       /\ Shells({ x \in Conns : Dash[x] = Dash[c] }) <= DashLimit
       /\ Shells({ x \in Conns : Host[x] = Host[c] }) <= HostLimit

\* A shell is open only in a ready session whose socket has not been closed and
\* which the registry lists, so that a shutdown finds it: a dial that answers
\* after its session has ended leaves no shell behind (terminal-session.service).
NoOrphanShell ==
  \A c \in Conns :
    conn[c].shell = "live" =>
      /\ conn[c].state = "ready" /\ conn[c].socket # "closed"
      /\ c \in registry

\* The counter of pending slots is the number of upgrades before their first
\* message: no path releases twice or forgets to, but for the upgrade whose
\* socket went away during the lookup (terminal-websocket.ts).
SlotsAreAccounted ==
  pending = Cardinality({ c \in Conns : conn[c].pc \in SlotSteps })

\* After the shutdown a shell is open only while its socket is being closed.
StopLeavesNoShell ==
  stop = "done" =>
    \A c \in Conns : conn[c].shell = "live" => conn[c].socket = "closing"

\* A session that has ended keeps no place in the registry: the sessions
\* "converge on one idempotent cleanup routine".
EndedIsReleased == \A c \in registry : conn[c].state # "closed"

\* A place is kept after the end only by a session admitted after its own
\* cleanup had run.
OnlyLateKeepPlaces ==
  \A c \in registry : conn[c].state = "closed" => conn[c].late

\* Shells, slots and places are counted, and none outlives its session.
ShellsAreAccounted ==
  /\ TerminalTypeOK /\ OpeningsAreSound /\ PlacesWithinLimits
  /\ ShellsWithinLimits /\ NoOrphanShell /\ SlotsAreAccounted
  /\ StopLeavesNoShell /\ OnlyLateKeepPlaces

\* Once its dashboard session is revoked a terminal loses its shell: logout only
\* marks the session, the poll must find it.
RevokedSessionEnds ==
  \A c \in Conns : Dash[c] \notin alive ~> conn[c].shell # "live"

\* A session that was admitted in time gives its place back.
PlacesReturn ==
  \A c \in Conns :
    (c \in registry /\ ~ conn[c].late) ~> (c \notin registry)
=============================================================================
