---------------------------- MODULE DockerHistory ----------------------------
(***************************************************************************)
(* One list of one host's Docker history, in a JSON file or in Postgres,   *)
(* and a reader that walks it page by page with a cursor while snapshots   *)
(* come in, maintenance prunes and monitoring is switched off.             *)
(*                                                                         *)
(* A row is its key: the time the list is ordered by, and the id.  What    *)
(* else a row holds, and the filters a cursor is bound to, is left out.    *)
(* The rollups have no writer in production.  Ids are random: a new row    *)
(* may have any id not in use.  Late says whether a row may come with an   *)
(* earlier time than another, as after a host set its clock back.  MaxTime *)
(* and MaxId bound the rows, Cap is what a host may keep, PageSize the     *)
(* limit of a page.                                                        *)
(***************************************************************************)
EXTENDS Integers, Sequences, FiniteSets, SequencesExt

CONSTANTS Homes, Lists, Late, MaxTime, MaxId, Cap, PageSize

ASSUME HistoryAssumption ==
  /\ Homes \subseteq {"json", "postgres"}
  /\ Lists \subseteq {"host", "container", "events", "alerts"}
  /\ Late \in BOOLEAN
  /\ {MaxTime, MaxId, Cap, PageSize} \subseteq Nat \ {0}

VARIABLES
  home,     \* the repository in use
  list,     \* the list
  table,    \* its rows, in the order the file keeps them
  walk,     \* the reader
  standing  \* history: the rows that have been there since the walk began

hvars == <<home, list, table, walk, standing>>

-----------------------------------------------------------------------------
Row == [at : 1 .. MaxTime, id : 1 .. MaxId]

NoRow == [at |-> 0, id |-> 0]

\* A walk: its state, the row its cursor names, what it has been given, and
\* whether the cursor named a row that was gone.
Walk == [ state : {"none", "open", "done", "failed"}, last : Row \cup {NoRow},
          got : Seq(Row), lost : BOOLEAN ]

NoWalk == [state |-> "none", last |-> NoRow, got |-> << >>, lost |-> FALSE]

Newer(a, b) == a.at > b.at \/ (a.at = b.at /\ a.id > b.id)

\* In order: as many rows are newer than a row as stand before it.
NewestFirst(rows) ==
  [i \in 1 .. Cardinality(rows) |->
     CHOOSE r \in rows : Cardinality({ q \in rows : Newer(q, r) }) = i - 1]

Least(a, b) == IF a < b THEN a ELSE b

\* The first n of a sequence.
First(n, s) == SubSeq(s, 1, Least(n, Len(s)))

\* Alerts are named by their fingerprint, whose colons a cursor does not allow.
Names(cursor) == list # "alerts"

-----------------------------------------------------------------------------
(* A page: its rows, whether there are more, whether the cursor was found *)

\* JSON: a page starts after the row of the cursor, and at the end without it.
JsonPage(last) ==
  LET sorted == NewestFirst(ToSet(table))
      start == CASE last = NoRow -> 1
                 [] last # NoRow /\ last \in ToSet(table) ->
                      1 + CHOOSE i \in DOMAIN sorted : sorted[i] = last
                 [] OTHER -> Len(sorted) + 1
      rows == First(PageSize, SubSeq(sorted, start, Len(sorted)))
  IN [ rows |-> rows, more |-> start + Len(rows) <= Len(sorted),
       lost |-> last # NoRow /\ last \notin ToSet(table) ]

\* Faulty: the cursor is its time only.
PgPage_TimeOnly(last) ==
  LET below == { r \in ToSet(table) : last = NoRow \/ last.at > r.at }
  IN [ rows |-> First(PageSize, NewestFirst(below)),
       more |-> Cardinality(below) > PageSize, lost |-> FALSE ]

\* Postgres: a page holds the rows below the key of the cursor.
PgPage(last) ==
  LET below == { r \in ToSet(table) : last = NoRow \/ Newer(last, r) }
  IN [ rows |-> First(PageSize, NewestFirst(below)),
       more |-> Cardinality(below) > PageSize, lost |-> FALSE ]

Page(last) == IF home = "json" THEN JsonPage(last) ELSE PgPage(last)

\* Encoding the cursor of the next page refuses an id it does not allow.
Turned(w) ==
  LET page == Page(w.last)
      got == w.got \o page.rows
  IN CASE page.more /\ ~ Names(page.rows) -> [w EXCEPT !.state = "failed"]
       [] page.more /\ Names(page.rows) ->
            [ state |-> "open", last |-> Last(page.rows), got |-> got, lost |-> page.lost ]
       [] OTHER -> [state |-> "done", last |-> NoRow, got |-> got, lost |-> page.lost]

FirstPage ==
  /\ walk.state # "open"
  /\ walk' = Turned(NoWalk)
  /\ standing' = ToSet(table)
  /\ UNCHANGED <<home, list, table>>

NextPage ==
  /\ walk.state = "open"
  /\ walk' = Turned(walk)
  /\ UNCHANGED <<home, list, table, standing>>

\* The lists, each with its own order and filters.
Reads == FirstPage \/ NextPage
ListHostSamples == list = "host" /\ Reads
ListContainerSamples == list = "container" /\ Reads
ListEvents == list = "events" /\ Reads
ListAlerts == list = "alerts" /\ Reads

\* A reader of the dashboard that does not ask for the next page.
Leave ==
  /\ walk.state = "open"
  /\ walk' = NoWalk /\ standing' = {}
  /\ UNCHANGED <<home, list, table>>

-----------------------------------------------------------------------------
(* The writers *)

\* The file drops what it has kept longest; Postgres drops nothing here.
Truncated(rows) ==
  IF home = "json" /\ Len(rows) > Cap
  THEN SubSeq(rows, Len(rows) - Cap + 1, Len(rows)) ELSE rows

\* Postgres keeps no order of its own.
Becomes(rows) ==
  /\ table' = IF home = "json" THEN rows ELSE NewestFirst(ToSet(rows))
  /\ standing' = standing \cap ToSet(rows)
  /\ UNCHANGED <<home, list, walk>>

\* A snapshot adds a row.
Insert ==
  \E r \in Row :
    /\ \A i \in DOMAIN table : table[i].id # r.id /\ (Late \/ r.at >= table[i].at)
    /\ Becomes(Truncated(Append(table, r)))

\* An alert that goes on is observed later than before.
Touch ==
  /\ list = "alerts"
  /\ \E i \in DOMAIN table, at \in 1 .. MaxTime :
       at > table[i].at /\ Becomes([table EXCEPT ![i].at = at])

\* Faulty: the cap is taken from the wrong end.
Pruned_Oldest(cutoff) ==
  Reverse(First(Cap, Reverse(NewestFirst({ r \in ToSet(table) : r.at >= cutoff }))))

\* The newest of the rows since the cutoff; the file keeps them newest first.
Pruned(cutoff) == First(Cap, NewestFirst({ r \in ToSet(table) : r.at >= cutoff }))

\* The retention counts days back from the time of the run.
Cutoffs == { now - days : now \in 1 .. MaxTime + 1, days \in 1 .. MaxTime + 1 } \cap Nat

\* Of the alerts, maintenance removes some that are resolved.
PruneHistory ==
  \/ /\ list # "alerts"
     /\ \E cutoff \in Cutoffs : Becomes(Pruned(cutoff))
  \/ /\ list = "alerts"
     /\ \E i \in DOMAIN table : Becomes(RemoveAt(table, i))

ClearRows == Becomes(<< >>)

HInit ==
  /\ home \in Homes /\ list \in Lists
  /\ table = << >> /\ walk = NoWalk /\ standing = {}

HNext ==
  \/ ListHostSamples \/ ListContainerSamples \/ ListEvents \/ ListAlerts \/ Leave
  \/ Insert \/ Touch \/ PruneHistory \/ ClearRows

HSpec == HInit /\ [][HNext]_hvars

-----------------------------------------------------------------------------
(* Properties *)

\* Type invariant; the file never keeps more than its cap.
HistoryTypeOK ==
  /\ home \in Homes /\ list \in Lists
  /\ table \in Seq(Row) /\ (home = "json" => Len(table) <= Cap)
  /\ walk \in Walk
  /\ standing \subseteq Row

\* A walk shows every row at most once and in order, whatever is written,
\* pruned or cleared between two of its pages.
WalksDescend ==
  \A i, j \in DOMAIN walk.got : i < j => Newer(walk.got[i], walk.got[j])

\* A walk that has come to its end has shown every row that stood from its
\* first page to its last; in the file only if the rows its cursors named were
\* still there.
WalksAreComplete ==
  (walk.state = "done" /\ ~ walk.lost) => standing \subseteq ToSet(walk.got)

\* A walk over the pages shows what stands, once and in order.
WalksAreExact == HistoryTypeOK /\ WalksDescend /\ WalksAreComplete

\* Maintenance never gives up a row for an older one.
PruningKeepsTheNewest ==
  [][ (PruneHistory /\ list # "alerts")
        => \A gone \in ToSet(table) \ ToSet(table'), kept \in ToSet(table') :
             Newer(kept, gone) ]_hvars

\* Violated: no row is given up for one of an earlier time, where the times of
\* the rows only move forward.
CapsKeepTheNewest ==
  [][ (list # "alerts" /\ table' # << >>)
        => \A gone \in ToSet(table) \ ToSet(table'), kept \in ToSet(table') :
             kept.at >= gone.at ]_hvars

\* Violated: a list longer than a page can be read.
PagesCanFollow == walk.state # "failed"

=============================================================================
