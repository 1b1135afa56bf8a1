--------------------------- MODULE DockerStatePair ---------------------------
(***************************************************************************)
(* The identity of a host's Docker monitoring and the runtime keys derived *)
(* from it: two files that buildDockerStateProvisionCommand makes before   *)
(* an agent is started or replaced, and that no later run may change.      *)
(*                                                                         *)
(* The script looks at its privileges and at both files, then calls the    *)
(* agent's -provision-docker-state, as root or as the login user, and as   *)
(* root gives the files their owners and asks once more.  The API may have *)
(* crashed or given up and started another operation while a script still  *)
(* runs: scripts overlap.  A script may die anywhere; administrators grant *)
(* and withdraw sudo; an uninstallation removes the directory.             *)
(*                                                                         *)
(* A file is its owner and the generation of the key it holds or derives   *)
(* from, 0 where there is none.  The guards look at both files at once.    *)
(* Modes, contents nobody wrote here and foreign owners are left out: the  *)
(* script refuses them.  MaxScripts bounds the scripts started, MaxEvents  *)
(* the deaths, removals and changes of sudo.                               *)
(***************************************************************************)
EXTENDS Naturals, FiniteSets

CONSTANTS Scripts, MaxScripts, MaxEvents

ASSUME PairAssumption == Scripts \subseteq Nat /\ MaxScripts \in Nat /\ MaxEvents \in Nat

VARIABLES
  login,        \* the user of the SSH connection
  sudo,         \* may it become root without a password
  identity,     \* the two files
  runtimeKeys,
  scripts,      \* the provisioning scripts
  generated,    \* keys generated so far
  launched,     \* scripts so far
  events,       \* deaths, removals and changes so far
  disturbed       \* history: sudo or the directory changed under a script

pairvars == <<login, sudo, identity, runtimeKeys, scripts, generated, launched, events, disturbed>>

Users == {"root", "user"}
Keys  == 0 .. 2 * MaxScripts
NoFileYet == [key |-> 0, owner |-> "root"]
There(file) == file.key # 0

\* Where a script stands, who runs its calls of the agent, the owner they expect
\* of the runtime keys, the key they hold, and whether owners are to be given.
Script == [ at : {"none", "look", "read", "identity", "keys", "check", "own", "hand", "ready"},
            as : Users, expect : Users, key : Keys, gives : BOOLEAN ]

NotRunning == [at |-> "none", as |-> "user", expect |-> "user", key |-> 0, gives |-> FALSE]
Provisioned == [NotRunning EXCEPT !.at = "ready"]

\* One script takes a step, and what it runs through sudo is refused without.
Turn(s, step, next) ==
  /\ scripts[s].at = step
  /\ scripts' = [ scripts EXCEPT ![s] =
                    IF scripts[s].as = "root" /\ ~ (login = "root" \/ sudo) THEN NotRunning ELSE next ]

Moved(s, step) == [scripts[s] EXCEPT !.at = step]
Files == <<identity, runtimeKeys>>
Aside == <<login, sudo, launched, events, disturbed>>

\* Whether the step of the script is taken.
MayAct(s) == scripts[s].as = "root" => login = "root" \/ sudo

LaunchScript ==
  /\ launched < MaxScripts /\ launched' = launched + 1
  /\ \E s \in Scripts : /\ scripts[s].at \in {"none", "ready"}
                        /\ scripts' = [scripts EXCEPT ![s] = [NotRunning EXCEPT !.at = "look"]]
  /\ UNCHANGED <<login, sudo, Files, generated, events, disturbed>>

\* One file without the other is refused; root expects the owner there is.
AsRoot ==
  IF There(identity) # There(runtimeKeys) THEN NotRunning
  ELSE [ at |-> "read", as |-> "root", key |-> 0, gives |-> TRUE,
         expect |-> IF There(runtimeKeys) THEN runtimeKeys.owner ELSE "root" ]

\* Without privilege nobody can see whether the user's keys match the identity of
\* root: the split is taken as root's word.
Split == There(identity) /\ identity.owner = "root" /\ There(runtimeKeys) /\ runtimeKeys.owner = "user"

\* A user provisions a pair of its own or none at all, and leaves a split pair as
\* it is; everything else is refused.
AsUser ==
  LET existing == { f \in {identity, runtimeKeys} : There(f) }
      own == There(identity) = There(runtimeKeys) /\ \A f \in existing : f.owner = "user"
  IN CASE own -> [at |-> "read", as |-> "user", expect |-> "user", key |-> 0, gives |-> FALSE]
       [] Split -> Provisioned
       [] OTHER -> NotRunning

LookAtPair(s) ==
  /\ Turn(s, "look", IF login = "root" \/ sudo THEN AsRoot ELSE AsUser)
  /\ UNCHANGED <<Files, generated, Aside>>

\* What exists must have its owner; the key is the one of the identity, or new.
Owned(s) ==
  /\ There(identity) => identity.owner = scripts[s].as
  /\ There(runtimeKeys) => runtimeKeys.owner = scripts[s].expect

ReadIdentity(s) ==
  LET new == MayAct(s) /\ Owned(s) /\ ~ There(identity)
  IN /\ Turn(s, "read", IF Owned(s)
                        THEN [ Moved(s, "identity") EXCEPT
                                 !.key = IF new THEN generated + 1 ELSE identity.key ]
                        ELSE NotRunning)
     /\ generated' = IF new THEN generated + 1 ELSE generated
     /\ UNCHANGED <<Files, Aside>>

\* A link never replaces a file that is there.
Published(file, s) ==
  IF There(file) THEN file ELSE [key |-> scripts[s].key, owner |-> scripts[s].as]

PublishIdentity(s) ==
  /\ Turn(s, "identity", Moved(s, "keys"))
  /\ identity' = IF MayAct(s) THEN Published(identity, s) ELSE identity
  /\ UNCHANGED <<runtimeKeys, generated, Aside>>

PublishKeys(s) ==
  /\ Turn(s, "keys", Moved(s, "check"))
  /\ runtimeKeys' = IF MayAct(s) THEN Published(runtimeKeys, s) ELSE runtimeKeys
  /\ UNCHANGED <<identity, generated, Aside>>

Matched == There(identity) /\ identity.key = runtimeKeys.key

CheckPair(s) ==
  /\ Turn(s, "check", IF ~ (Matched /\ Owned(s)) THEN NotRunning
                      ELSE IF scripts[s].gives THEN Moved(s, "own") ELSE Provisioned)
  /\ UNCHANGED <<Files, generated, Aside>>

\* chown fails on a file that is gone.
OwnIdentity(s) ==
  /\ Turn(s, "own", IF There(identity) THEN Moved(s, "hand") ELSE NotRunning)
  /\ identity' = IF MayAct(s) /\ There(identity) THEN [identity EXCEPT !.owner = "root"] ELSE identity
  /\ UNCHANGED <<runtimeKeys, generated, Aside>>

\* The keys go to the user who runs the agent, as whom they are checked again.
HandKeys(s) ==
  /\ Turn(s, "hand", IF There(runtimeKeys)
                     THEN [ scripts[s] EXCEPT !.at = "read", !.key = 0, !.gives = FALSE,
                                              !.expect = login ]
                     ELSE NotRunning)
  /\ runtimeKeys' = IF MayAct(s) /\ There(runtimeKeys)
                    THEN [runtimeKeys EXCEPT !.owner = login] ELSE runtimeKeys
  /\ UNCHANGED <<identity, generated, Aside>>

Happens == events < MaxEvents /\ events' = events + 1

Disturbs == disturbed' = (disturbed \/ \E s \in Scripts : scripts[s].at \notin {"none", "ready"})

ScriptDies(s) ==
  /\ Happens /\ scripts[s].at \notin {"none", "ready"}
  /\ scripts' = [scripts EXCEPT ![s] = NotRunning]
  /\ UNCHANGED <<login, sudo, Files, generated, launched, disturbed>>

ChangeSudo ==
  /\ Happens /\ login = "user" /\ sudo' = ~ sudo
  /\ Disturbs
  /\ UNCHANGED <<login, Files, scripts, generated, launched>>

RemovePair ==
  /\ Happens /\ {identity, runtimeKeys} # {NoFileYet}
  /\ identity' = NoFileYet /\ runtimeKeys' = NoFileYet /\ Disturbs
  /\ UNCHANGED <<login, sudo, scripts, generated, launched>>

PairInit ==
  /\ login \in Users /\ sudo \in BOOLEAN /\ (login = "root" => sudo)
  /\ identity = NoFileYet /\ runtimeKeys = NoFileYet
  /\ scripts = [s \in Scripts |-> NotRunning]
  /\ generated = 0 /\ launched = 0 /\ events = 0 /\ disturbed = FALSE

PairNext ==
  \/ LaunchScript \/ ChangeSudo \/ RemovePair
  \/ \E s \in Scripts :
       \/ LookAtPair(s) \/ ReadIdentity(s) \/ PublishIdentity(s) \/ PublishKeys(s)
       \/ CheckPair(s) \/ OwnIdentity(s) \/ HandKeys(s) \/ ScriptDies(s)

PairSpec == PairInit /\ [][PairNext]_pairvars

-----------------------------------------------------------------------------
\* Every variable has its type.
PairTypeOK ==
  /\ login \in Users /\ sudo \in BOOLEAN
  /\ {identity, runtimeKeys} \subseteq [key : Keys, owner : Users]
  /\ scripts \in [Scripts -> Script]
  /\ generated \in Keys /\ launched \in 0 .. MaxScripts /\ events \in 0 .. MaxEvents
  /\ disturbed \in BOOLEAN

\* What a run without privilege takes on trust is true: keys of the user beside
\* an identity of root were derived from it, whatever died or overlapped before,
\* unless sudo or the directory changed under a running script.
SplitIsVouched == ~ disturbed /\ Split => Matched

PairIsSound == PairTypeOK /\ SplitIsVouched

\* The agent, which runs as the login user, can load its keys and is who it was.
Loadable == Matched /\ runtimeKeys.owner = login

\* A script that ends well leaves keys the agent can load, and only a removal
\* takes such keys away or puts others in their place: no upgrade, overlapping
\* script or change of sudo rotates the identity or locks the agent out.
KeysAreKept ==
  [][ /\ \A s \in Scripts :
           ~ disturbed /\ scripts[s].at # "ready" /\ scripts'[s].at = "ready" => Loadable'
      /\ Loadable /\ There(identity') => Loadable' /\ identity'.key = identity.key
    ]_pairvars

\* Violated: "a valid existing pair is preserved byte-for-byte, then ownership and
\* mode are enforced": a script never refuses keys the agent can load.
LoadableIsAccepted ==
  [][ \A s \in Scripts :
        Loadable /\ scripts[s].at # "none" /\ scripts'[s].at = "none" =>
          events' # events \/ ~ MayAct(s)
    ]_pairvars

\* Violated: "The agent validates content and the runtime-identity match": scripts
\* with and without privilege that overlap leave a split pair that does not match,
\* and the runs that follow take it on trust.
SplitIsAlwaysVouched == Split => Matched

\* Violated: "a partial pair is completed without rotating the existing identity":
\* a pair without one of its files is not refused for ever.
PartialIsCompleted ==
  [][ \A s \in Scripts :
        scripts[s].at = "look" /\ scripts'[s].at = "none" /\ events' = events =>
          There(identity) = There(runtimeKeys)
    ]_pairvars
=============================================================================
