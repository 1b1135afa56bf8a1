----------------------------- MODULE VpsInventory -----------------------------
(***************************************************************************)
(* One record of the VPS inventory and its writers: the dashboard's edits  *)
(* and its deletion, the mark of an installed key, the pushes of the agent *)
(* (location, Docker rows, last seen), and ensureLocalHost, which the API  *)
(* runs as it starts and the bootstrap scripts run beside it.              *)
(*                                                                         *)
(* A handler reads the record, awaits, and writes by the id; each write of *)
(* the API is atomic (a lock around the file, or one statement).  A script *)
(* is another process: it reads the whole file and writes it back.         *)
(*                                                                         *)
(* The endpoint stands for what a dashboard may edit besides the Docker    *)
(* switches; provider, tags, names and the audit are left out, the pins    *)
(* that go with an endpoint are SshTrust's.  The id of the local host is   *)
(* fixed, that of another VPS new: one that is deleted has no successor.   *)
(* MaxEdits bounds the requests, MaxBeats the pushes, MaxEnsures the       *)
(* starts and scripts, MaxSlips the clean-ups that fail.                   *)
(***************************************************************************)
EXTENDS Naturals, FiniteSets

CONSTANTS Inventories,   \* the drivers: a JSON file, Postgres
          Editors,       \* requests served at the same time
          MaxEdits, MaxBeats, MaxEnsures, MaxSlips

ASSUME InventoryAssumption ==
  /\ Inventories \subseteq {"json", "postgres"}
  /\ {MaxEdits, MaxBeats, MaxEnsures, MaxSlips} \subseteq Nat

VARIABLES
  keptIn,      \* the driver
  rec,         \* the record
  dockerRows,  \* there is Docker history of the VPS
  edits,       \* the requests of the dashboard
  beats,       \* the pushes with the API
  script,      \* the file as a script has read it
  used,        \* what is used of the bounds, and the time of the API
  overlapped,  \* history: two edits have overlapped
  crossed      \* history: the API has written while a script held the file

ivars == <<keptIn, rec, dockerRows, edits, beats, script, used, overlapped, crossed>>

-----------------------------------------------------------------------------
(* State *)

Nobody    == [kind |-> "none"]
Addresses == {"here", "there"}

VpsRecord == [ kind : {"local", "remote"}, metrics : BOOLEAN, management : BOOLEAN,
             endpoint : Addresses, key : BOOLEAN, located : 0 .. MaxBeats, seen : 0 .. MaxBeats ]

NewVps == [ kind |-> "remote", metrics |-> FALSE, management |-> FALSE, endpoint |-> "there",
            key |-> FALSE, located |-> 0, seen |-> 0 ]

\* What an edit may ask for; the local host has only its switches.
Switches == {"metrics", "management"}
Patches  == [{"metrics"} -> BOOLEAN] \cup [{"management"} -> BOOLEAN]
            \cup [{"endpoint"} -> Addresses]
            \cup { [metrics |-> FALSE, endpoint |-> "here"] }

NoEdit  == [at |-> "idle", op |-> "update", patch |-> << >>, old |-> FALSE, cleaned |-> FALSE]
Asked(op, patch) == [NoEdit EXCEPT !.at = "read", !.op = op, !.patch = patch]
Edited(e, step) == edits' = [edits EXCEPT ![e].at = step]
Over(e) == edits' = [edits EXCEPT ![e] = NoEdit]

Merged(r, patch) == [f \in DOMAIN r |-> IF f \in DOMAIN patch THEN patch[f] ELSE r[f]]

\* A write by the API while a script holds an older copy of the file.
Crosses == crossed' = (crossed \/ script # Nobody)

-----------------------------------------------------------------------------
(* Requests of the dashboard *)

RequestEdit ==
  /\ used.edits < MaxEdits
  /\ \E e \in Editors, op \in {"update", "delete", "mark"} :
       /\ edits[e].at = "idle"
       /\ \E patch \in IF op = "update" THEN Patches ELSE {<< >>} :
            edits' = [edits EXCEPT ![e] = Asked(op, patch)]
  /\ used' = [used EXCEPT !.edits = @ + 1]
  /\ overlapped' = (overlapped \/ \E e \in Editors : edits[e].at # "idle")
  /\ UNCHANGED <<keptIn, rec, dockerRows, beats, script, crossed>>

\* The local host is neither deleted nor provisioned, nor edited otherwise.
Refused(e) ==
  \/ rec = Nobody
  \/ /\ rec.kind = "local"
     /\ \/ edits[e].op # "update"
        \/ ~ DOMAIN edits[e].patch \subseteq Switches

\* Nothing to do: a local host whose switches stand as asked.
StandsAsAsked(e) ==
  /\ rec.kind = "local" /\ \A f \in DOMAIN edits[e].patch : edits[e].patch[f] = rec[f]

\* The history goes before the switch is written.
Disables(e) == /\ edits[e].op = "update" /\ "metrics" \in DOMAIN edits[e].patch
               /\ rec.metrics /\ ~ edits[e].patch.metrics

ReadRecord(e) ==
  /\ edits[e].at = "read"
  /\ IF Refused(e) \/ (edits[e].op = "update" /\ StandsAsAsked(e)) THEN Over(e)
     ELSE Edited(e, IF Disables(e) THEN "clean" ELSE "write")
  /\ UNCHANGED <<keptIn, rec, dockerRows, beats, script, used, crossed, overlapped>>

\* A clean-up that fails leaves the switch on.
CleanHistory(e) ==
  /\ edits[e].at = "clean"
  /\ \/ /\ dockerRows' = FALSE
        /\ edits' = [edits EXCEPT ![e].at = "write", ![e].cleaned = TRUE]
        /\ UNCHANGED used
     \/ /\ used.slips < MaxSlips /\ used' = [used EXCEPT !.slips = @ + 1]
        /\ Over(e) /\ UNCHANGED dockerRows
  /\ UNCHANGED <<keptIn, rec, beats, script, crossed, overlapped>>

Patched(r, e) == IF edits[e].op = "mark" THEN [r EXCEPT !.key = TRUE]
                 ELSE Merged(r, edits[e].patch)

\* By id, whatever the record has become; Postgres drops the rows with it.
WriteRecord(e) ==
  /\ edits[e].at = "write" /\ Over(e)
  /\ rec' = IF rec = Nobody \/ edits[e].op = "delete" THEN Nobody ELSE Patched(rec, e)
  /\ dockerRows' = (dockerRows /\ ~ (edits[e].op = "delete" /\ keptIn = "postgres"))
  /\ Crosses
  /\ UNCHANGED <<keptIn, beats, script, used, overlapped>>

-----------------------------------------------------------------------------
(* Pushes: what the agent detected last, when the API took it in *)

PushBeat ==
  /\ used.beats < MaxBeats /\ used' = [used EXCEPT !.beats = @ + 1]
  /\ rec # Nobody
  /\ beats' = beats \cup {[ id |-> used.beats + 1, at |-> "sent", on |-> FALSE, now |-> 0 ]}
  /\ UNCHANGED <<keptIn, rec, dockerRows, edits, script, crossed, overlapped>>

GoesOn(b, c) == beats' = (beats \ {b}) \cup {c}

\* The record says whether Docker data is wanted; then the time is taken.
ReadSettings(b) ==
  /\ b.at = "sent"
  /\ IF rec = Nobody THEN beats' = beats \ {b} /\ UNCHANGED used
     ELSE /\ used' = [used EXCEPT !.clock = @ + 1]
          /\ GoesOn(b, [b EXCEPT !.at = "docker", !.on = rec.metrics, !.now = used.clock + 1])
  /\ UNCHANGED <<keptIn, rec, dockerRows, edits, script, crossed, overlapped>>

\* Postgres refuses rows of a VPS that is gone.
StoreDocker(b) ==
  /\ b.at = "docker"
  /\ IF b.on /\ rec = Nobody /\ keptIn = "postgres" THEN beats' = beats \ {b}
     ELSE GoesOn(b, [b EXCEPT !.at = "locate"])
  /\ dockerRows' = (dockerRows \/ (b.on /\ ~ (rec = Nobody /\ keptIn = "postgres")))
  /\ UNCHANGED <<keptIn, rec, edits, script, used, crossed, overlapped>>

NotOlder(b) == rec.located <= b.id

UpdateAgentLocation(b) ==
  /\ b.at = "locate" /\ GoesOn(b, [b EXCEPT !.at = "mark"])
  /\ rec' = IF rec # Nobody /\ NotOlder(b) THEN [rec EXCEPT !.located = b.id] ELSE rec
  /\ Crosses
  /\ UNCHANGED <<keptIn, dockerRows, edits, script, used, overlapped>>

MarkSeen(b) ==
  /\ b.at = "mark" /\ beats' = beats \ {b}
  /\ rec' = IF rec # Nobody THEN [rec EXCEPT !.seen = b.now] ELSE rec
  /\ Crosses
  /\ UNCHANGED <<keptIn, dockerRows, edits, script, used, overlapped>>

-----------------------------------------------------------------------------
(* The local host *)

\* Whatever has the id becomes the local host; switches and observations stay.
Ensured(r) ==
  [ (IF r = Nobody THEN NewVps ELSE r) EXCEPT !.kind = "local", !.endpoint = "here" ]

Starts == used.ensures < MaxEnsures /\ used' = [used EXCEPT !.ensures = @ + 1]

\* Only the record of the local host has its id.
EnsureLocalHost ==
  /\ Starts /\ rec.kind # "remote"
  /\ rec' = Ensured(rec) /\ Crosses
  /\ UNCHANGED <<keptIn, dockerRows, edits, beats, script, overlapped>>

\* The script has the file in its hands; an empty one is not told from none here.
ScriptReads ==
  /\ Starts /\ keptIn = "json" /\ script = Nobody /\ rec.kind = "local"
  /\ script' = rec
  /\ UNCHANGED <<keptIn, rec, dockerRows, edits, beats, crossed, overlapped>>

ScriptWrites ==
  /\ script # Nobody /\ script' = Nobody
  /\ rec' = Ensured(script)
  /\ UNCHANGED <<keptIn, dockerRows, edits, beats, used, crossed, overlapped>>

IInit ==
  /\ keptIn \in Inventories
  /\ rec \in { Nobody, NewVps, Ensured(Nobody) }
  /\ dockerRows = FALSE /\ edits = [e \in Editors |-> NoEdit] /\ beats = {}
  /\ script = Nobody /\ crossed = FALSE /\ overlapped = FALSE
  /\ used = [edits |-> 0, beats |-> 0, ensures |-> 0, slips |-> 0, clock |-> 0]

INext ==
  \/ RequestEdit \/ PushBeat \/ EnsureLocalHost \/ ScriptReads \/ ScriptWrites
  \/ \E e \in Editors : ReadRecord(e) \/ CleanHistory(e) \/ WriteRecord(e)
  \/ \E b \in beats : ReadSettings(b) \/ StoreDocker(b) \/ UpdateAgentLocation(b) \/ MarkSeen(b)

ISpec == IInit /\ [][INext]_ivars

-----------------------------------------------------------------------------
(* Properties *)

\* Every variable has its type.
InventoryTypeOK ==
  /\ keptIn \in Inventories /\ rec \in VpsRecord \cup {Nobody} /\ script \in VpsRecord \cup {Nobody}
  /\ {dockerRows, crossed, overlapped} \subseteq BOOLEAN
  /\ \A e \in Editors : edits[e].at \in {"idle", "read", "clean", "write"}
  /\ \A b \in beats : b.at \in {"sent", "docker", "locate", "mark"} /\ b.id \in 1 .. MaxBeats

\* Who writes a field: the edits that name it, the pushes, the starts.
Writes(f) ==
  \/ \E e \in Editors : /\ edits[e].at = "write" /\ edits'[e].at # "write"
                        /\ f \in DOMAIN edits[e].patch \/ (f = "key" /\ edits[e].op = "mark")
  \/ f \in {"located", "seen"} /\ beats' # beats
  \/ f \in {"kind", "endpoint"} /\ (used'.ensures # used.ensures \/ script' # script)

\* Handlers that read a record and write it after an await neither bring a deleted
\* VPS back nor touch a field they were not asked to write, and an older location
\* never replaces a newer one, unless a script has written back the file it had read before.
WritesAreOwn ==
  [][ ~ crossed' =>
        /\ rec = Nobody /\ rec' # Nobody => rec'.kind = "local"
        /\ rec # Nobody /\ rec' # Nobody =>
             /\ \A f \in DOMAIN rec : rec'[f] # rec[f] => Writes(f)
             /\ rec'.located >= rec.located
    ]_ivars

\* Docker metrics are switched off only after the history was deleted; edits that
\* overlap set aside, one that read the switch before another turned it on.
OffIsCleaned ==
  [][ \A e \in Editors :
        /\ ~ overlapped /\ ~ crossed /\ edits[e].at = "write" /\ edits'[e].at # "write"
        /\ rec # Nobody /\ rec' # Nobody
        => (rec.metrics /\ ~ rec'.metrics => edits[e].cleaned)
    ]_ivars

InventoryIsKept == WritesAreOwn /\ OffIsCleaned

\* Violated: "Clean up monitoring history only on an explicit metrics disable
\* transition ... so the persisted configuration remains consistent": a push that
\* read the switch while it was on stores its rows after the clean-up.
OffIsClean == rec # Nobody /\ ~ rec.metrics => ~ dockerRows

\* Violated: a push that is overtaken by a later one moves the time back.
SeenMovesForward == [][rec # Nobody /\ rec' # Nobody => rec'.seen >= rec.seen]_ivars
=============================================================================
