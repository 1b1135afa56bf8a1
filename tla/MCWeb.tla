------------------------------- MODULE MCWeb --------------------------------
(* Instances for TLC of the web dashboard's modules and of the catalogue of  *)
(* releases.  They share nothing here: a behaviour is one of the module in   *)
(* focus.                                                                    *)
EXTENDS LiveDashboard, DockerPage, DockerPanel, UpgradeCard, ReleaseCatalog,
        VpsWorkspace, TLC

CONSTANTS v1, v2, k1, k2, k3

\* The containers of two VPSs.
Containers == v1 :> {k1, k2} @@ v2 :> {k3}

\* A job of each.
Owners == "a" :> v1 @@ "b" :> v2

\* Hosts and catalogues the upgrade card meets: an update to take, a newer
\* release, and what stands in its way.
Plain == [arch |-> TRUE, release |-> 2, api |-> TRUE, artifact |-> TRUE,
          fresh |-> TRUE, build |-> 1, updater |-> "healthy"]
SitesMet ==
  {Plain, [Plain EXCEPT !.release = 3], [Plain EXCEPT !.release = 0],
   [Plain EXCEPT !.updater = "sick"], [Plain EXCEPT !.updater = "absent"],
   [Plain EXCEPT !.arch = FALSE], [Plain EXCEPT !.api = FALSE],
   [Plain EXCEPT !.fresh = FALSE, !.updater = "absent"],
   [Plain EXCEPT !.artifact = FALSE, !.updater = "sick"]}

\* Either the site moves, or on the plain site two upgrades follow each other or
\* one request is lost.
SparingAllowances ==
  {[upgrades |-> 1, moves |-> 1, losses |-> 0], [upgrades |-> 2, moves |-> 0, losses |-> 0],
   [upgrades |-> 1, moves |-> 0, losses |-> 1]}

\* The rest are met by a move.
SitesFirst == {Plain, [Plain EXCEPT !.release = 0], [Plain EXCEPT !.updater = "sick"],
               [Plain EXCEPT !.fresh = FALSE, !.updater = "absent"]}

VARIABLE focus

\* The modules that are not in focus rest in one of their initial states.
LiveRests  == scoped = "none" /\ LiveInit
PageRests  == shown = [vps |-> v1, on |-> TRUE] /\ PInit
PanelRests == host = v1 /\ NInit
CardRests  == CardInit /\ site = Plain /\ left.upgrades = 2
CatalogRests == CatalogInit /\ config = "enabled"

WebInit ==
  /\ focus \in {"live", "page", "panel", "card", "catalog", "workspace"}
  /\ IF focus = "live" THEN LiveInit ELSE LiveRests
  /\ IF focus = "page" THEN PInit ELSE PageRests
  /\ IF focus = "panel" THEN NInit ELSE PanelRests
  /\ IF focus = "card" THEN CardInit ELSE CardRests
  /\ site \in SitesFirst /\ (left.upgrades = 2 \/ left.losses = 1 => site = Plain)
  /\ IF focus = "catalog" THEN CatalogInit ELSE CatalogRests
  /\ WorkInit

WebNext ==
  /\ UNCHANGED focus
  /\ \/ focus = "live" /\ LiveNext /\ UNCHANGED <<pageVars, panelVars, cardVars, catalogVars, workVars>>
     \/ focus = "page" /\ PNext /\ UNCHANGED <<liveVars, panelVars, cardVars, catalogVars, workVars>>
     \/ focus = "panel" /\ NNext /\ UNCHANGED <<liveVars, pageVars, cardVars, catalogVars, workVars>>
     \/ focus = "card" /\ CardNext /\ UNCHANGED <<liveVars, pageVars, panelVars, catalogVars, workVars>>
     \/ focus = "catalog" /\ CatalogNext /\ UNCHANGED <<liveVars, pageVars, panelVars, cardVars, workVars>>
     \/ focus = "workspace" /\ WorkNext /\ UNCHANGED <<liveVars, pageVars, panelVars, cardVars, catalogVars>>

everything == <<focus, liveVars, pageVars, panelVars, cardVars, catalogVars, workVars>>

WebSpec == WebInit /\ [][WebNext]_everything

\* What the Docker pages show, and what is done from them, is of the VPS and
\* the container on screen; the upgrade card shows jobs as they were and says
\* why nothing can be done when nothing can, of releases that are vouched for.
PagesShowTheirHost == PageIsOfTheHost /\ PanelIsOfTheHost /\ CardIsTrue /\ ReleasesAreVouched
                      /\ WorkspaceIsOfTheHost

\* What is shown of an operation, and the outcome shown of an upgrade, never
\* goes back; what a workspace shows of a job does only with the dashboard.
ShownMovesForward == StatusFollows /\ OutcomeIsKept /\ WorkspaceFollows
=============================================================================
