------------------------------ MODULE MCAccess ------------------------------
(* Instances for TLC of the modules behind the dashboard's doors: terminals, *)
(* logins, rate limits.  They share nothing here: a behaviour is one of the  *)
(* module in focus.                                                          *)
EXTENDS TerminalSessions, TerminalFlow, DashboardAuth, RateLimit, TLC

CONSTANTS c1, c2, c3

\* Two dashboard sessions and two hosts behind three terminals.
Browsers == c1 :> "d1" @@ c2 :> "d1" @@ c3 :> "d2"
Machines == c1 :> "h1" @@ c2 :> "h2" @@ c3 :> "h2"

LimitOf == "mutation" :> 1 @@ "agent" :> 2

VARIABLE focus

\* The modules that are not in focus rest in one of their initial states.
AuthRests == driver = "json" /\ credential = Nothing /\ UInit

AccessInit ==
  /\ focus \in {"terminal", "flow", "auth", "rate"}
  /\ TInit /\ FInit /\ RInit
  /\ IF focus = "auth" THEN UInit ELSE AuthRests

AccessNext ==
  \/ focus = "terminal" /\ TNext /\ UNCHANGED <<focus, fvars, uvars, rvars>>
  \/ focus = "flow" /\ FNext /\ UNCHANGED <<focus, tvars, uvars, rvars>>
  \/ focus = "auth" /\ UNext /\ UNCHANGED <<focus, tvars, fvars, rvars>>
  \/ focus = "rate" /\ RNext /\ UNCHANGED <<focus, tvars, fvars, uvars>>

everything == <<focus, tvars, fvars, uvars, rvars>>

AccessSpec == AccessInit /\ [][AccessNext]_everything
=============================================================================
