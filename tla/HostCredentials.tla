-------------------------- MODULE HostCredentials --------------------------
(***************************************************************************)
(* The credentials of the host the API itself runs on, and the commands    *)
(* that issue and revoke them: bootstrap-local-agent, bootstrap-local-     *)
(* updater, create-agent-token, revoke-agent-credentials, and install.sh,  *)
(* which strings them together.  Each is a process of its own beside the   *)
(* API: its locks on the JSON files hold nobody else back, so a write puts *)
(* back the file as the process has read it.                               *)
(*                                                                         *)
(* A credential is the number of its issue, a token the number of its      *)
(* credential; 0 is none.                                                  *)
(***************************************************************************)
EXTENDS Integers, FiniteSets

CONSTANTS
  Stores,       \* storage drivers: "json", "postgres"
  Shells,       \* commands run at the same time
  MaxRuns,      \* commands in all, per storage driver
  MaxBreakdowns \* commands that die or whose call fails

ASSUME CredentialsAssumption == MaxRuns \in [Stores -> Nat] /\ MaxBreakdowns \in Nat

Scopes  == {"agent", "local-updater"}
CredIds == UNION { 1..MaxRuns[s] : s \in Stores } \* a command issues at most one

NoCred  == [scope |-> "none", status |-> "none"]
NoTable == [c \in CredIds |-> NoCred]
NotRead == [c \in {} |-> NoCred]

VARIABLES
  driver,   \* the storage driver
  row,      \* the VPS record with the id of the local host: absent, local or remote
  table,    \* the stored credentials
  issued,   \* credentials issued so far
  config,   \* per scope, the token in the configuration on the host
  service,  \* and the one its running service was started with
  shell,    \* the commands
  inApi,    \* what the API has read and is about to write back
  runs,     \* commands so far
  breakdowns,
  raced,    \* two commands ran at the same time
  lost      \* a write has put back an old file

credvars == <<driver, row, table, issued, config, service, shell, inApi, runs, breakdowns, raced, lost>>

\* What the operator asks for.  A URL is https, http to the loopback, or plain
\* http to somewhere else.  What a kind of command does not read has one value.
CommandLines ==
  { r \in [kind: {"install", "agent", "updater", "token", "revoke"}, url: {"https", "loopback", "plain"},
           rotate: BOOLEAN, keepPrevious: BOOLEAN, scope: Scopes, keep: {0} \cup CredIds] :
      /\ r.kind \in {"token", "revoke"} => r.url = "https" /\ ~r.rotate
      /\ r.kind # "updater" => ~r.keepPrevious
      /\ r.kind # "revoke" => r.keep = 0 /\ (r.scope = "local-updater" <=> r.kind = "updater") }

Shell == [kind |-> "none", rotate |-> FALSE, keepPrevious |-> FALSE, scope |-> "agent", id |-> 0,
          step |-> "idle", read |-> NotRead, todo |-> {}]

Working(p) == shell[p].step \notin {"idle", "done"}
Live(c) == c \in CredIds /\ table[c].status = "active"
LiveOf(scope) == { c \in CredIds : Live(c) /\ table[c].scope = scope }

Reached(p, s) == shell[p].step = s
Goto(p, s)    == shell' = [shell EXCEPT ![p].step = s]
Succeeds(p)   == shell' = [shell EXCEPT ![p].step = "done"]
GivesUp(p)    == shell' = [shell EXCEPT ![p] = Shell]

-----------------------------------------------------------------------------
(* The commands *)

\* The backend has https, or is on this host.
BackendAllowed(url) == url \in {"https", "loopback"}

\* Whoever revokes by hand may mistype the credential to keep, but not so that it
\* is another live one.
Sensible(r) == r.kind = "revoke" /\ r.keep \in LiveOf(r.scope) => r.keep = service[r.scope]

\* Where a command begins.
Begins(r) ==
  CASE ~BackendAllowed(r.url)                                    -> "refused"
    [] r.kind = "updater" /\ r.keepPrevious /\ ~r.rotate         -> "refused"
    [] r.kind = "install" /\ config["agent"] # 0 /\ ~r.rotate    -> "config"
    [] r.kind = "token"   /\ row = "absent"                      -> "refused"
    [] r.kind = "token"                                          -> "create"
    [] r.kind = "revoke"                                         -> "check"
    [] OTHER                                                     -> "host"

\* A cutover of the updater whose token has not reached the host.
CutsOver(p) ==
  /\ shell[p].kind = "updater" /\ shell[p].rotate /\ ~shell[p].keepPrevious
  /\ shell[p].id # 0 /\ config["local-updater"] # shell[p].id

\* install.sh passes --rotate; without --rotate-agent it reuses a configuration.
\* A cutover is brought to its end before the next command.
StartCommand(p, r) ==
  /\ runs < MaxRuns[driver] /\ Sensible(r)
  /\ \A q \in Shells : CutsOver(q) => Working(q)
  /\ ~Working(p) /\ p = CHOOSE q \in Shells : ~Working(q) \* the shells are interchangeable
  /\ runs' = runs + 1
  /\ shell' = [shell EXCEPT ![p] = IF Begins(r) = "refused" THEN Shell ELSE [Shell EXCEPT
       !.kind = r.kind, !.rotate = r.rotate \/ (r.kind = "install" /\ Begins(r) = "host"), !.keepPrevious = r.keepPrevious,
       !.scope = r.scope, !.step = Begins(r),
       !.id = IF r.kind = "revoke" THEN r.keep ELSE IF Begins(r) = "config" THEN config["agent"] ELSE 0]]
  /\ raced' = (raced \/ \E q \in Shells \ {p} : Working(q))
  /\ UNCHANGED <<driver, row, table, issued, config, service, inApi, breakdowns, lost>>

\* The record becomes the local host's, whatever it was.
EnsureLocalHost(p) ==
  /\ Reached(p, "host") /\ row' = "local"
  /\ Goto(p, "list")
  /\ UNCHANGED <<driver, table, issued, config, service, inApi, runs, breakdowns, raced, lost>>

\* The raw token of an active credential cannot be had again.  bootstrap-local-
\* agent looks at credentials of either scope.
Blocking(p) ==
  IF shell[p].kind = "updater" THEN LiveOf("local-updater") ELSE { c \in CredIds : Live(c) }

ListCredentials(p) ==
  /\ Reached(p, "list")
  /\ IF Blocking(p) # {} /\ ~shell[p].rotate THEN GivesUp(p) ELSE Goto(p, "create")
  /\ UNCHANGED <<driver, row, table, issued, config, service, inApi, runs, breakdowns, raced, lost>>

\* A write of the JSON file begins with a read of it.
ReadFile(p) ==
  /\ driver = "json" /\ shell[p].read = NotRead
  /\ Reached(p, "create") \/ (Reached(p, "revoke") /\ shell[p].todo # {})
  /\ shell' = [shell EXCEPT ![p].read = table]
  /\ UNCHANGED <<driver, row, table, issued, config, service, inApi, runs, breakdowns, raced, lost>>

\* What a write of p is made on.
Base(p) == IF driver = "json" THEN shell[p].read ELSE table
MayWrite(p) == driver = "json" => shell[p].read # NotRead

\* What follows the creation: the updater's cutover revokes the others at once.
AfterCreate(p) ==
  IF shell[p].kind = "updater" /\ shell[p].rotate /\ ~shell[p].keepPrevious THEN "check" ELSE "print"

CreateCredential(p) ==
  /\ Reached(p, "create") /\ MayWrite(p)
  /\ issued' = issued + 1
  /\ table' = [Base(p) EXCEPT ![issued + 1] = [scope |-> shell[p].scope, status |-> "active"]]
  /\ lost' = (lost \/ Base(p) # table)
  /\ shell' = [shell EXCEPT ![p].id = issued + 1, ![p].step = AfterCreate(p), ![p].read = NotRead]
  /\ UNCHANGED <<driver, row, config, service, inApi, runs, breakdowns, raced>>

\* The token is printed, once; install.sh puts it into a configuration.
PrintToken(p) ==
  /\ Reached(p, "print")
  /\ IF shell[p].kind = "install" THEN Goto(p, "config") ELSE Succeeds(p)
  /\ UNCHANGED <<driver, row, table, issued, config, service, inApi, runs, breakdowns, raced, lost>>

-----------------------------------------------------------------------------
(* revokeScopedAgentCredentials *)

KeepStands(p) == Live(shell[p].id) /\ table[shell[p].id].scope = shell[p].scope

ToRevoke(p) == LiveOf(shell[p].scope) \ {shell[p].id}

CheckKeep(p) ==
  /\ Reached(p, "check")
  /\ IF KeepStands(p)
     THEN shell' = [shell EXCEPT ![p].step = "revoke", ![p].todo = ToRevoke(p)]
     ELSE GivesUp(p)
  /\ UNCHANGED <<driver, row, table, issued, config, service, inApi, runs, breakdowns, raced, lost>>

\* One at a time; a credential that is not found is passed over.
RevokeCredential(p) ==
  /\ Reached(p, "revoke") /\ MayWrite(p)
  /\ \E c \in shell[p].todo :
       /\ IF Base(p)[c] = NoCred
          THEN UNCHANGED <<table, lost>>
          ELSE /\ table' = [Base(p) EXCEPT ![c].status = "revoked"]
               /\ lost' = (lost \/ Base(p) # table)
       /\ shell' = [shell EXCEPT ![p].todo = @ \ {c}, ![p].read = NotRead]
  /\ UNCHANGED <<driver, row, issued, config, service, inApi, runs, breakdowns, raced>>

AllRevoked(p) ==
  /\ Reached(p, "revoke") /\ shell[p].todo = {}
  /\ IF shell[p].kind = "updater" THEN Goto(p, "print") ELSE Succeeds(p)
  /\ UNCHANGED <<driver, row, table, issued, config, service, inApi, runs, breakdowns, raced, lost>>

-----------------------------------------------------------------------------
(* The host *)

InstallConfig(p) ==
  /\ Reached(p, "config")
  /\ config' = [config EXCEPT !["agent"] = shell[p].id]
  /\ Goto(p, "restart")
  /\ UNCHANGED <<driver, row, table, issued, service, inApi, runs, breakdowns, raced, lost>>

\* Only then install.sh revokes, and only if it has made the configuration.
RestartService(p) ==
  /\ Reached(p, "restart")
  /\ service' = [service EXCEPT !["agent"] = config["agent"]]
  /\ IF shell[p].rotate THEN Goto(p, "check") ELSE Succeeds(p)
  /\ UNCHANGED <<driver, row, table, issued, config, inApi, runs, breakdowns, raced, lost>>

\* An operator copies the newest printed token into the configuration and restarts
\* the service.
InstallToken(p) ==
  /\ Reached(p, "done") /\ shell[p].kind \in {"agent", "updater"}
  /\ \A q \in Shells : ~Working(q)
  /\ \A c \in CredIds : c > shell[p].id => table[c].scope # shell[p].scope
  /\ config' = [config EXCEPT ![shell[p].scope] = shell[p].id]
  /\ service' = [service EXCEPT ![shell[p].scope] = shell[p].id]
  /\ UNCHANGED <<driver, row, table, issued, shell, inApi, runs, breakdowns, raced, lost>>

\* A call fails, the script stops at an error, or the command is killed.
BreakDown(p) ==
  /\ Working(p) /\ breakdowns < MaxBreakdowns
  /\ breakdowns' = breakdowns + 1
  /\ GivesUp(p)
  /\ UNCHANGED <<driver, row, table, issued, config, service, inApi, runs, raced, lost>>

\* The API rewrites the same file at every push: state, system info, last use.
ApiReads ==
  /\ driver = "json" /\ inApi = NotRead
  /\ service["agent"] # 0 /\ \E p \in Shells : Working(p)
  /\ inApi' = table
  /\ UNCHANGED <<driver, row, table, issued, config, service, shell, runs, breakdowns, raced, lost>>

ApiWrites ==
  /\ inApi # NotRead
  /\ table' = inApi /\ inApi' = NotRead
  /\ lost' = (lost \/ table # inApi)
  /\ UNCHANGED <<driver, row, issued, config, service, shell, runs, breakdowns, raced>>

-----------------------------------------------------------------------------
CInit ==
  /\ driver \in Stores /\ row \in {"absent", "remote"}
  /\ table = NoTable /\ issued = 0
  /\ config = [s \in Scopes |-> 0] /\ service = [s \in Scopes |-> 0]
  /\ shell = [p \in Shells |-> Shell] /\ inApi = NotRead
  /\ runs = 0 /\ breakdowns = 0 /\ raced = FALSE /\ lost = FALSE

CNext ==
  \/ \E p \in Shells, r \in CommandLines : StartCommand(p, r)
  \/ \E p \in Shells : EnsureLocalHost(p) \/ ListCredentials(p) \/ ReadFile(p) \/ CreateCredential(p)
  \/ \E p \in Shells : PrintToken(p) \/ CheckKeep(p) \/ RevokeCredential(p) \/ AllRevoked(p)
  \/ \E p \in Shells : InstallConfig(p) \/ RestartService(p) \/ InstallToken(p) \/ BreakDown(p)
  \/ ApiReads \/ ApiWrites

CSpec == CInit /\ [][CNext]_credvars

-----------------------------------------------------------------------------
(* Properties *)

\* One command at a time, none of them broken off, and no write over another: the
\* running services can authenticate throughout, the updater's save for the cutover
\* its operator asked for.
ServicesAuthenticate ==
  ~raced /\ ~lost /\ breakdowns = 0 =>
    /\ service["agent"] # 0 => Live(service["agent"])
    /\ service["local-updater"] # 0 => Live(service["local-updater"]) \/ \E p \in Shells : CutsOver(p)

\* A command that revoked and said so has left one credential of its scope, the one
\* it kept, until the next command.
OneIsLeft ==
  ~raced /\ ~lost =>
    \A p \in Shells :
      /\ Reached(p, "done") /\ shell[p].rotate /\ ~shell[p].keepPrevious /\ shell[p].kind # "agent"
      /\ \A q \in Shells : ~Working(q)
      /\ issued = shell[p].id
      => LiveOf(shell[p].scope) = {shell[p].id}

\* Types, and the two above.
CredentialsServe ==
  /\ row \in {"absent", "local", "remote"}
  /\ \A c \in CredIds : table[c] = NoCred \/ table[c] \in [scope: Scopes, status: {"active", "revoked"}]
  /\ ServicesAuthenticate
  /\ OneIsLeft

\* A step that revokes is one of a command for that scope, which keeps another that
\* was issued; install.sh revokes only when the service has the new token.
RevocationIsScoped ==
  [][\A c \in CredIds :
       Live(c) /\ table'[c].status = "revoked" /\ ~lost' =>
         \E p \in Shells :
           /\ Reached(p, "revoke") /\ shell[p].scope = table[c].scope
           /\ shell[p].id # c /\ shell[p].id \in 1..issued
           /\ shell[p].kind = "install" /\ ~raced => service["agent"] = shell[p].id]_credvars

\* Violated: "refuse if the record at this id is remote" (bootstrap-local-updater.ts:303);
\* ensureLocalHost has made it local before the question is asked.
RemoteIsRefused == [][row = "remote" => row' = "remote"]_credvars

\* Violated: "if the subsequent revocation step fails, the host still holds a valid
\* credential" (bootstrap-local-updater.ts:188): its token was not printed.
HostHoldsAToken ==
  ~raced /\ ~lost /\ service["local-updater"] # 0 =>
    \/ Live(service["local-updater"])
    \/ \E p \in Shells : Working(p) \/ (shell[p].kind = "updater" /\ Reached(p, "done"))

\* Violated: two rotations at the same time revoke each other's credential.
RaceLeavesOne == issued > 0 /\ (\A p \in Shells : ~Working(p)) => \E c \in CredIds : Live(c)
=============================================================================
