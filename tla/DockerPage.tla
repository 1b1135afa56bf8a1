----------------------------- MODULE DockerPage -----------------------------
(***************************************************************************)
(* The Docker page of one VPS in the web dashboard                         *)
(* (VpsWorkspaceContext.tsx): what it loads, what it drops, and what it    *)
(* may show of another VPS.                                                *)
(*                                                                         *)
(* Each effect of the page asks when what it depends on changes and        *)
(* cancels its earlier question then: a cancelled answer is dropped.  The  *)
(* "load more" buttons are no effect: nothing cancels their questions, and *)
(* one variable names the one section that is loading.                     *)
(*                                                                         *)
(* A list is the sequence of its pages, each with the VPS it was asked     *)
(* of; a container key is the key of one VPS only.  Left out: the totals,  *)
(* error texts, storage card and rendering.                                *)
(***************************************************************************)
EXTENDS Naturals, Sequences, FiniteSets

CONSTANTS Vpses,            \* the VPSs the user goes between
          KeysOf,           \* the container keys of each
          Sections,         \* lists with pages: history, rollups, events, alerts
          LastPage,         \* bound: pages of a list
          MaxTurns,         \* bound: changes of VPS or of its switch, refreshes
          MaxMore           \* bound: presses of "load more"

ASSUME PageAssumption ==
  /\ LastPage \in Nat \ {0, 1} /\ {MaxTurns, MaxMore} \subseteq Nat
  /\ "nobody" \notin Vpses \cup UNION {KeysOf[v] : v \in Vpses} /\ "nobody" \notin Sections

VARIABLES shown,            \* [vps, on]: the VPS of the page, its monitoring switch
          asks,             \* questions of effects, answered or not cancelled yet
          more,             \* questions of "load more"
          rows, cursor,     \* per section: pages shown, next page (0: none)
          moreOf,           \* the section "load more" shows as loading
          targets,          \* the containers to select: [scope, keys, loading]
          chosen, chart,    \* the container selected, the histories shown (none or one)
          stray,            \* ghost: sections a late page was put into
          pressed           \* what is used of the bounds

pageVars == <<shown, asks, more, rows, cursor, moreOf, targets, chosen, chart, stray, pressed>>

Nobody == "nobody"
Ask(kind, vps, key) == [kind |-> kind, vps |-> vps, key |-> key]
Keys    == UNION {KeysOf[v] : v \in Vpses}

\* Faulty: what the history's effect asked before it ran again is still applied.
Cancel_NoChart(kinds) == {a \in asks : a.kind \notin kinds \/ a.kind = "chart"}

Cancel(kinds) == {a \in asks : a.kind \notin kinds}

\* The targets count for the VPS they were asked of.
TargetsFor(t, vps) == IF t.scope = vps THEN t.keys ELSE {}

\* A selection is kept while targets load, and cleared when it is none.
Kept(c, t, vps) == IF ~t.loading /\ c \notin TargetsFor(t, vps) THEN Nobody ELSE c

\* The effect of the container history: it runs again when the selection,
\* the targets or the VPS change, forgets what it shows and asks again.
ChartAsks(s, t, c) ==
    IF s.on /\ c \in TargetsFor(t, s.vps) THEN {Ask("chart", s.vps, c)} ELSE {}

\* The page runs its effects for another VPS, switch or refresh.
Rerun(s) ==
    LET t == [targets EXCEPT !.loading = s.on, !.scope = IF s.on THEN @ ELSE Nobody]
        c == IF s.on THEN chosen ELSE Nobody
    IN  /\ shown' = s
        /\ rows' = [x \in Sections |-> <<>>]
        /\ cursor' = [x \in Sections |-> 0]
        /\ targets' = t
        /\ chosen' = c
        /\ chart' = {}
        /\ asks' = Cancel({"first", "targets", "chart"}) \cup ChartAsks(s, t, c)
                   \cup (IF s.on THEN {Ask("first", s.vps, Nobody), Ask("targets", s.vps, Nobody)} ELSE {})
        /\ more' = {[m EXCEPT !.late = TRUE] : m \in more}
        /\ stray' = {}
        /\ UNCHANGED moreOf
----------------------------------------------------------------------------
Turn(s) == /\ pressed.turns < MaxTurns
           /\ pressed' = [pressed EXCEPT !.turns = @ + 1]
           /\ Rerun(s)

GoTo    == \E v \in Vpses \ {shown.vps} : Turn([shown EXCEPT !.vps = v])
Switch  == Turn([shown EXCEPT !.on = ~@])
RefreshPage == shown.on /\ Turn(shown)       \* a Docker event of this VPS

\* The first pages arrive; each section may have failed.
FirstPages ==
    \E a \in asks, ok \in SUBSET Sections, rest \in SUBSET Sections :
        /\ a.kind = "first"
        /\ asks' = asks \ {a}
        /\ rows' = [x \in Sections |-> IF x \in ok THEN <<[vps |-> a.vps, page |-> 1]>> ELSE rows[x]]
        /\ cursor' = [x \in Sections |-> IF x \in ok \cap rest THEN 2 ELSE 0]
        /\ stray' = stray \ ok
        /\ UNCHANGED <<shown, more, moreOf, targets, chosen, chart, pressed>>

\* The targets arrive, or fail: then none can be selected.
SetTargets(a, keys) ==
    LET t == [scope |-> a.vps, keys |-> keys, loading |-> FALSE]
        c == Kept(chosen, t, shown.vps)
    IN  /\ targets' = t
        /\ chosen' = c
        /\ chart' = {}
        /\ asks' = (Cancel({"chart"}) \ {a}) \cup ChartAsks(shown, t, c)
        /\ UNCHANGED <<shown, more, rows, cursor, moreOf, stray, pressed>>

TargetsArrive ==
    \E a \in asks : a.kind = "targets" /\ \E keys \in SUBSET KeysOf[a.vps] : SetTargets(a, keys)

\* The user selects a container, or takes the selection back.
Choose ==
    \E c \in TargetsFor(targets, shown.vps) \cup {Nobody} :
        /\ shown.on /\ c # chosen
        /\ chosen' = c
        /\ chart' = {}
        /\ asks' = Cancel({"chart"}) \cup ChartAsks(shown, targets, c)
        /\ UNCHANGED <<shown, more, rows, cursor, moreOf, targets, stray, pressed>>

ChartArrives ==
    \E a \in asks :
        /\ a.kind = "chart"
        /\ asks' = asks \ {a}
        /\ \/ chart' = {[vps |-> a.vps, key |-> a.key]}
           \/ UNCHANGED chart
        /\ UNCHANGED <<shown, more, rows, cursor, moreOf, targets, chosen, stray, pressed>>

\* "Load more" asks for the page after the last, unless this very section
\* is the one shown as loading.  A question for a page that another one is
\* out for already is the second of its kind; one that continues a page of
\* another VPS uses that VPS's cursor.
LoadMore ==
    \E x \in Sections :
        /\ shown.on /\ cursor[x] # 0 /\ moreOf # x /\ pressed.more < MaxMore
        /\ more' = more \cup {[section |-> x, vps |-> shown.vps, page |-> cursor[x], n |-> pressed.more,
                               late |-> x \in stray \/ \E m \in more : m.section = x /\ m.page = cursor[x]]}
        /\ moreOf' = x
        /\ pressed' = [pressed EXCEPT !.more = @ + 1]
        /\ UNCHANGED <<shown, asks, rows, cursor, targets, chosen, chart, stray>>

Extended(x, m) == Append(rows[x], [vps |-> m.vps, page |-> m.page])

MorePages ==
    \E m \in more :
        /\ more' = more \ {m}
        /\ moreOf' = Nobody
        /\ rows' = [rows EXCEPT ![m.section] = Extended(m.section, m)]
        /\ \E last \in BOOLEAN :
              cursor' = [cursor EXCEPT ![m.section] = IF last \/ m.page = LastPage THEN 0 ELSE m.page + 1]
        /\ stray' = IF m.late THEN stray \cup {m.section} ELSE stray
        /\ UNCHANGED <<shown, asks, targets, chosen, chart, pressed>>

MoreFails ==
    \E m \in more :
        /\ more' = more \ {m}
        /\ moreOf' = Nobody
        /\ UNCHANGED <<shown, asks, rows, cursor, targets, chosen, chart, stray, pressed>>
----------------------------------------------------------------------------
PInit ==
    /\ shown \in [vps : Vpses, on : {TRUE}]
    /\ asks = {Ask("first", shown.vps, Nobody), Ask("targets", shown.vps, Nobody)}
    /\ more = {}
    /\ rows = [x \in Sections |-> <<>>]
    /\ cursor = [x \in Sections |-> 0]
    /\ moreOf = Nobody
    /\ targets = [scope |-> Nobody, keys |-> {}, loading |-> TRUE]
    /\ chosen = Nobody
    /\ chart = {}
    /\ stray = {}
    /\ pressed = [turns |-> 0, more |-> 0]

PNext == GoTo \/ Switch \/ RefreshPage \/ FirstPages \/ TargetsArrive \/ Choose \/ ChartArrives
         \/ LoadMore \/ MorePages \/ MoreFails

PSpec == PInit /\ [][PNext]_pageVars
----------------------------------------------------------------------------
PageTypeOK ==
    /\ shown \in [vps : Vpses, on : BOOLEAN]
    /\ asks \subseteq [kind : {"first", "targets", "chart"}, vps : Vpses, key : Keys \cup {Nobody}]
    /\ \A x \in Sections : /\ cursor[x] \in 0 .. LastPage
                           /\ \A i \in 1 .. Len(rows[x]) : rows[x][i].page \in 1 .. LastPage
    /\ moreOf \in Sections \cup {Nobody}
    /\ targets.keys \subseteq Keys /\ targets.scope \in Vpses \cup {Nobody}
    /\ chosen \in Keys \cup {Nobody} /\ stray \subseteq Sections

\* "A selection must always resolve to a live current target": once the
\* targets have arrived it is a container of the VPS shown.
SelectionIsLive ==
    chosen # Nobody /\ ~targets.loading =>
        targets.scope = shown.vps /\ chosen \in targets.keys \cap KeysOf[shown.vps]

\* The history shown, and each one still asked for that will be shown, is
\* that of the container selected on this VPS.
ChartIsOfTheSelection ==
    /\ chart \subseteq {[vps |-> shown.vps, key |-> chosen]}
    /\ \A a \in asks : a.kind = "chart" => a.vps = shown.vps /\ a.key = chosen

\* A list is the pages 1 .. n of the VPS shown, each once and in order,
\* unless a page was put into it that had been asked for before the list
\* was started again, or twice.
RowsAreContiguous ==
    \A x \in Sections \ stray : \A i \in 1 .. Len(rows[x]) :
        rows[x][i] = [vps |-> shown.vps, page |-> i]

\* What the page shows is of the VPS and the container selected.
PageIsOfTheHost == PageTypeOK /\ SelectionIsLive /\ ChartIsOfTheSelection /\ RowsAreContiguous

\* "Reset scope state so a previous VPS never flashes through".
ScopeIsKept == \A x \in Sections : \A i \in 1 .. Len(rows[x]) : rows[x][i].vps = shown.vps
=============================================================================
