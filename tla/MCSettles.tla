------------------------------ MODULE MCSettles ------------------------------
(* An instance for TLC of what must come to an end: the upgrade job at the   *)
(* API, the host's job, Docker batches, lifecycle operations, terminals, the *)
(* dashboard's stream and its upgrade card.  They share nothing here: a      *)
(* behaviour is one of the module in focus, and only that module owes steps. *)
EXTENDS AgentLifecycle, TerminalSessions, TerminalFlow, LiveDashboard, UpgradeCard, TLC

CONSTANTS OldBuild, NewBuild, Builds, Keys, Requests, Phases,
          LeaseTTL, OverallDeadline, FreshTTL, UpdaterTTL, MaxTime, MaxCalls, MaxBeats,
          Instances, Backends, MaxSnaps, MaxTrouble, MaxRows,
          c1, c2

\* Two terminals of one dashboard session on one host.
OneDashboard == [c \in {c1, c2} |-> "d1"]
OneHost      == [c \in {c1, c2} |-> "h1"]

\* A host with an update to take; one request is lost.
OneSite == {[arch |-> TRUE, release |-> 2, api |-> TRUE, artifact |-> TRUE,
             fresh |-> TRUE, build |-> 1, updater |-> "healthy"]}
OneLoss == {[upgrades |-> 1, moves |-> 0, losses |-> 1]}

VARIABLES
  focus,
  now, upgrades, heartbeat, arriving, heard, updaterSeen, req, started,
  backend, store, enabled, clearing, dockerAgent, calls, snaps, retired,
  trouble, stored, written, acked

apiVars == <<now, upgrades, heartbeat, arriving, heard, updaterSeen, req, started>>

ingestVars == << backend, store, enabled, clearing, dockerAgent, calls, snaps,
                 retired, trouble, stored, written, acked >>

Api == INSTANCE MCLocalUpgradeApi WITH
  jobs <- upgrades, agent <- heartbeat, calls <- started,
  PhaseTimeout <- [s \in {"queued", "claimed", "downloading", "verifying", "staging",
                          "restarting", "rolling_back"} |-> 1]

Ingest == INSTANCE DockerIngest WITH agent <- dockerAgent

-----------------------------------------------------------------------------
\* The modules that are not in focus rest in one of their initial states.
RestApi       == Api!IdleHost
RestIngest    == Ingest!Init /\ backend = "json" /\ dockerAgent.inst = CHOOSE i \in Instances : TRUE
RestLifecycle == LInit /\ place = "remote" /\ procs = {}
RestLive      == LiveInit /\ scoped = "none"

SettlesInit ==
  /\ focus \in {"api", "ingest", "lifecycle", "terminal", "flow", "live", "card"}
  /\ IF focus = "api" THEN Api!ClaimedHost ELSE RestApi
  /\ IF focus = "ingest" THEN Ingest!Init ELSE RestIngest
  /\ IF focus = "lifecycle" THEN LInit ELSE RestLifecycle
  /\ IF focus = "live" THEN LiveInit ELSE RestLive
  /\ TInit /\ FInit /\ CardInit

SettlesNext ==
  \/ /\ focus = "api" /\ Api!Next
     /\ UNCHANGED <<focus, ingestVars, lvars, tvars, fvars, liveVars, cardVars>>
  \/ /\ focus = "ingest" /\ Ingest!Next
     /\ UNCHANGED <<focus, apiVars, lvars, tvars, fvars, liveVars, cardVars>>
  \/ /\ focus = "lifecycle" /\ LNext
     /\ UNCHANGED <<focus, apiVars, ingestVars, tvars, fvars, liveVars, cardVars>>
  \/ /\ focus = "terminal" /\ TNext
     /\ UNCHANGED <<focus, apiVars, ingestVars, lvars, fvars, liveVars, cardVars>>
  \/ /\ focus = "flow" /\ FNext
     /\ UNCHANGED <<focus, apiVars, ingestVars, lvars, tvars, liveVars, cardVars>>
  \/ /\ focus = "live" /\ LiveNext
     /\ UNCHANGED <<focus, apiVars, ingestVars, lvars, tvars, fvars, cardVars>>
  \/ /\ focus = "card" /\ CardNext
     /\ UNCHANGED <<focus, apiVars, ingestVars, lvars, tvars, fvars, liveVars>>

whole == <<focus, apiVars, ingestVars, lvars, tvars, fvars, liveVars, cardVars>>

\* The fairness of the module in focus, as that module states it.
Owed(f, A) == focus = f /\ A

SettlesFairness ==
  /\ \A r \in Requests : WF_apiVars(Owed("api", Api!Continue(r)))
  /\ WF_apiVars(Owed("api", \E r \in Requests : Api!BeginRead(r)))
  /\ WF_apiVars(Owed("api", Api!Tick))
  /\ WF_ingestVars(Owed("ingest", Ingest!Replay))
  /\ WF_ingestVars(Owed("ingest", Ingest!ReadHost))
  /\ WF_ingestVars(Owed("ingest", Ingest!ServeHost))
  /\ WF_ingestVars(Owed("ingest", Ingest!ServeDocker))
  /\ WF_ingestVars(Owed("ingest", Ingest!SwitchOff))
  /\ WF_lvars(Owed("lifecycle", Handler)) /\ WF_lvars(Owed("lifecycle", Operation))
  /\ \A c \in Conns :
       /\ WF_tvars(Owed("terminal", LookedUp(c))) /\ WF_tvars(Owed("terminal", BadGreeting(c)))
       /\ WF_tvars(Owed("terminal", Authenticate(c)))
       /\ WF_tvars(Owed("terminal", AdmitTerminal(c)))
       /\ WF_tvars(Owed("terminal", Target(c))) /\ WF_tvars(Owed("terminal", Dialled(c)))
       /\ WF_tvars(Owed("terminal", Wire(c))) /\ WF_tvars(Owed("terminal", FailOpen(c)))
       /\ WF_tvars(Owed("terminal", OpenTimeout(c)))
       /\ WF_tvars(Owed("terminal", RevocationPoll(c)))
       /\ WF_tvars(Owed("terminal", Revoke(Dash[c])))
       /\ WF_tvars(Owed("terminal", conn[c].socket = "closing" /\ SocketClosed(c)))
  /\ WF_fvars(Owed("flow", Attach))
  /\ WF_fvars(Owed("flow", SendDone))
  /\ WF_fvars(Owed("flow", PollOutput))
  /\ WF_liveVars(Owed("live", Connect)) /\ WF_liveVars(Owed("live", ReadOverview))
  /\ WF_liveVars(Owed("live", SendSnapshot))
  /\ WF_liveVars(Owed("live", StartTick)) /\ WF_liveVars(Owed("live", SendTick))
  /\ WF_liveVars(Owed("live", Flush)) /\ WF_liveVars(Owed("live", FlushDocker))
  /\ WF_liveVars(Owed("live", Receive)) /\ WF_liveVars(Owed("live", Answered))
  /\ WF_liveVars(Owed("live", InvalidationDue))
  /\ WF_liveVars(Owed("live", LoadRead)) /\ WF_liveVars(Owed("live", LoadDone))
  /\ WF_cardVars(Owed("card", LoadStatus))
  /\ WF_cardVars(Owed("card", \E v \in views : StatusArrives(v)))
  /\ WF_cardVars(Owed("card", PollJob))
  /\ WF_cardVars(Owed("card", \E j \in readings : JobArrives(j)))
  /\ WF_cardVars(Owed("card", CreateServed)) /\ WF_cardVars(Owed("card", CreateAnswered))
  /\ WF_cardVars(Owed("card", ExistingRead))

SettlesSpec == SettlesInit /\ [][SettlesNext]_whole /\ SettlesFairness

-----------------------------------------------------------------------------
(* Properties *)

\* Every upgrade job whose deadline passes is settled, once somebody reads it.
UpgradesSettle == Api!EveryJobSettles

\* Every batch of Docker events the agent holds is delivered, refused or given up.
BatchesSettle == Ingest!EveryBatchSettles

\* Terminals move on: the shell of a revoked session ends, the place of a session
\* returns, and output held back for a slow browser flows again.
TerminalsMakeProgress ==
  /\ RevokedSessionEnds
  /\ PlacesReturn
  /\ PausedOutputResumes

\* The page shows what is stored unless its stream broke, and the upgrade card
\* shows the newest job and the host as they are.
PageFollows == (focus = "live" => PageCatchesUp) /\ (focus = "card" => CardCatchesUp)
=============================================================================
