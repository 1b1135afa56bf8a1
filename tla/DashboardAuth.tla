--------------------------- MODULE DashboardAuth ---------------------------
(***************************************************************************)
(* Dashboard sessions and the admin password.  Logins and logouts run in   *)
(* the API; the script that sets the password is a process of its own, so  *)
(* the per-file lock of the JSON store, a promise chain in memory, does    *)
(* not order it with them.  In Postgres every change is one statement.     *)
(*                                                                         *)
(* A login is one attempt and the session it may create; a user enters the *)
(* right password of the moment.  Sessions do not expire here.  MaxRuns    *)
(* bounds the runs of the script.                                          *)
(***************************************************************************)
EXTENDS Integers, FiniteSets

CONSTANTS Nothing, Logins, Passwords, Drivers, MaxRuns

ASSUME AuthAssumption ==
  /\ Nothing \notin Passwords \cup Logins /\ MaxRuns \in Nat
  /\ Drivers \subseteq {"json", "postgres"}

VARIABLES
  driver,      \* the storage driver
  table,       \* the stored sessions
  credential,  \* the stored password
  lock,        \* the request that holds the lock of the sessions file
  req,         \* where each login, and the logout of its session, stands
  seen,        \* what a task that holds the lock has read of the file
  cli,         \* the script
  runs,        \* runs of the script so far
  opened,      \* history: the password each session was opened with
  swept,       \* history: sessions were swept since the password was stored
  raced,       \* history: the script and the API have written one file at once
  late         \* history: sessions created since the password was stored

uvars == <<driver, table, credential, lock, req, seen, cli, runs, opened, swept, raced, late>>

-----------------------------------------------------------------------------
Row == {"none", "live", "revoked"}
Table == [Logins -> Row]
NoTable == [l \in Logins |-> "none"]

Idle == [pc |-> "off", password |-> Nothing, seen |-> NoTable]

\* Faulty: the new session replaces the others.
Added_Alone(t, l) == [NoTable EXCEPT ![l] = "live"]

Added(t, l) == [t EXCEPT ![l] = "live"]
Revoked(t, l) == IF t[l] = "none" THEN t ELSE [t EXCEPT ![l] = "revoked"]

\* Faulty: nothing is revoked.
Swept_None(t) == t

\* revokeAll
Swept(t) == [l \in Logins |-> IF t[l] = "live" THEN "revoked" ELSE t[l]]

-----------------------------------------------------------------------------
(* Logins and logouts *)

\* The stored credential is read and the password verified against it.
Verify(l) ==
  /\ req[l] = "none" /\ credential # Nothing
  /\ req' = [req EXCEPT ![l] = "verified"]
  /\ opened' = [opened EXCEPT ![l] = credential]
  /\ UNCHANGED <<driver, table, credential, lock, seen, cli, runs, swept, raced, late>>

\* The guard has found the session of the request, and so has logout.
Logout(l) ==
  /\ req[l] = "in" /\ table[l] = "live"
  /\ req' = [req EXCEPT ![l] = "leaving"]
  /\ UNCHANGED <<driver, table, credential, lock, seen, cli, runs, opened, swept, raced, late>>

Unlocked == lock = Nothing

\* withFileLock: a task waits for its turn, then reads the file.
BeginWrite(l) ==
  /\ driver = "json" /\ Unlocked
  /\ req[l] \in {"verified", "leaving"}
  /\ lock' = l
  /\ seen' = [seen EXCEPT ![l] = table]
  /\ req' = [req EXCEPT ![l] = IF @ = "verified" THEN "adding" ELSE "removing"]
  /\ UNCHANGED <<driver, table, credential, cli, runs, opened, swept, raced, late>>

\* What the task has read, changed, becomes the file.
EndWrite(l) ==
  /\ req[l] \in {"adding", "removing"}
  /\ lock' = Nothing
  /\ table' = IF req[l] = "adding" THEN Added(seen[l], l) ELSE Revoked(seen[l], l)
  /\ req' = [req EXCEPT ![l] = IF @ = "adding" THEN "in" ELSE "out"]
  /\ seen' = [seen EXCEPT ![l] = NoTable]
  /\ late' = IF req[l] = "adding" THEN late \cup {l} ELSE late
  /\ UNCHANGED <<driver, credential, cli, runs, opened, swept, raced>>

\* Postgres: INSERT or UPDATE.
Statement(l) ==
  /\ driver = "postgres" /\ req[l] \in {"verified", "leaving"}
  /\ table' = IF req[l] = "verified" THEN Added(table, l) ELSE Revoked(table, l)
  /\ req' = [req EXCEPT ![l] = IF @ = "verified" THEN "in" ELSE "out"]
  /\ late' = IF req[l] = "verified" THEN late \cup {l} ELSE late
  /\ UNCHANGED <<driver, credential, lock, seen, cli, runs, opened, swept, raced>>

-----------------------------------------------------------------------------
(* set-dashboard-password *)

\* With --skip-if-same a password that is stored already ends the script.
CliStart(p, skip) ==
  /\ cli.pc \in {"off", "done"} /\ runs < MaxRuns
  /\ runs' = runs + 1
  /\ cli' = [Idle EXCEPT !.pc = IF skip /\ credential = p THEN "done" ELSE "hashed",
                         !.password = p]
  /\ UNCHANGED <<driver, table, credential, lock, req, seen, opened, swept, raced, late>>

CliUpsert ==
  /\ cli.pc = "hashed"
  /\ credential' = cli.password
  /\ cli' = [cli EXCEPT !.pc = "stored"]
  /\ swept' = FALSE /\ late' = {}
  /\ UNCHANGED <<driver, table, lock, req, seen, runs, opened, raced>>

\* revokeAll reads the file under the lock of its own process.
CliRead ==
  /\ cli.pc = "stored" /\ driver = "json"
  /\ cli' = [cli EXCEPT !.pc = "sweeping", !.seen = table]
  /\ UNCHANGED <<driver, table, credential, lock, req, seen, runs, opened, swept, raced, late>>

CliSweep ==
  /\ \/ /\ cli.pc = "sweeping" /\ table' = Swept(cli.seen)
     \/ /\ cli.pc = "stored" /\ driver = "postgres" /\ table' = Swept(table)
  /\ cli' = [cli EXCEPT !.pc = "done", !.seen = NoTable]
  /\ swept' = TRUE
  /\ raced' = (raced \/ (driver = "json" /\ (lock # Nothing \/ cli.seen # table)))
  /\ UNCHANGED <<driver, credential, lock, req, seen, runs, opened, late>>

\* The script is killed, or a write of it fails.
CliDies ==
  /\ cli.pc \notin {"off", "done"}
  /\ cli' = Idle
  /\ UNCHANGED <<driver, table, credential, lock, req, seen, runs, opened, swept, raced, late>>

-----------------------------------------------------------------------------
UInit ==
  /\ driver \in Drivers
  /\ table = NoTable /\ credential \in Passwords \cup {Nothing} /\ lock = Nothing
  /\ req = [l \in Logins |-> "none"]
  /\ seen = [l \in Logins |-> NoTable]
  /\ cli = Idle /\ runs = 0
  /\ opened = [l \in Logins |-> Nothing]
  /\ swept = TRUE /\ raced = FALSE /\ late = {}

UNext ==
  \/ \E l \in Logins :
       Verify(l) \/ Logout(l) \/ BeginWrite(l) \/ EndWrite(l) \/ Statement(l)
  \/ \E p \in Passwords, skip \in BOOLEAN : CliStart(p, skip)
  \/ CliUpsert \/ CliRead \/ CliSweep \/ CliDies

USpec == UInit /\ [][UNext]_uvars

-----------------------------------------------------------------------------
(* Properties *)

\* The state of the module stays what its declarations say.
AuthTypeOK ==
  /\ table \in Table /\ seen \in [Logins -> Table]
  /\ credential \in Passwords \cup {Nothing}
  /\ lock \in Logins \cup {Nothing}
  /\ req \in [Logins -> { "none", "verified", "adding", "in", "leaving",
                          "removing", "out" }]
  /\ \A l \in Logins : req[l] \in {"adding", "removing"} <=> lock = l
  /\ cli \in [pc : {"off", "hashed", "stored", "sweeping", "done"},
              password : Passwords \cup {Nothing}, seen : Table]
  /\ late \subseteq Logins /\ {swept, raced} \subseteq BOOLEAN

\* "Changing the password revokes existing sessions" (README): when the script
\* has ended well, no session older than the stored password is live.
PasswordChangeRevokes ==
  cli.pc = "done" =>
    \A l \in Logins : table[l] = "live" /\ opened[l] # credential => l \in late

\* In Postgres, once a run has swept the sessions, those that were stored before
\* the password are dead; what lives of an old one is a login that had verified it.
SweepEndsOldSessions ==
  driver = "postgres" /\ swept =>
    \A l \in Logins : table[l] = "live" /\ opened[l] # credential => l \in late

\* Whatever a write may put into the table is of logins that got that far: no
\* read of the file, however old, knows a session before its login added it.
ReadsAreOfThePast ==
  \A l \in Logins : req[l] \in {"none", "verified", "adding"} =>
    /\ table[l] = "none" /\ cli.seen[l] = "none"
    /\ \A m \in Logins : seen[m][l] = "none"

\* What the holder of the lock has read is the file still, unless the script has
\* written it; in Postgres nothing is read to be written back.
HolderIsUpToDate ==
  /\ ~raced => \A l \in Logins : lock = l => seen[l] = table
  /\ driver # "json" => lock = Nothing /\ cli.pc # "sweeping"
  /\ cli.pc = "hashed" => cli.password # Nothing

\* The same, of sessions and locks as they should be.
SweepIsFinal == AuthTypeOK /\ ReadsAreOfThePast /\ HolderIsUpToDate /\ SweepEndsOldSessions

\* A session is created once and revoked for good, whatever requests interleave:
\* no write undoes another's, unless the script has written the JSON file at the
\* same time.
SessionsMoveOn ==
  [][ ~ raced' =>
        \A l \in Logins :
          /\ table[l] = "live" => table'[l] # "none"
          /\ table[l] = "revoked" => table'[l] = "revoked" ]_uvars
=============================================================================
