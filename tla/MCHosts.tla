------------------------------ MODULE MCHosts ------------------------------
(* Instances for TLC of the modules about the managed hosts: the agent's     *)
(* lifecycle, the files of its Docker identity, the SSH policy, pins and     *)
(* keys, and the host of the API with its credentials and its stand-in for   *)
(* an agent.  They share nothing here: a behaviour is one of the module in   *)
(* focus.                                                                    *)
EXTENDS AgentLifecycle, SshHostPolicy, SshTrust, SshKeys, HostCredentials,
        LocalSupervisor, DockerStatePair, TLC

CONSTANTS v1, v2, e1, e2, r1, r2

\* Commands against each driver.
RunsOf == "json" :> 2 @@ "postgres" :> 3

KeyTypes == "ed" :> "ed25519" @@ "rsa" :> "rsa" @@ "new" :> "ed25519"

\* VPSs, endpoints and requests about them are interchangeable.
Interchangeable ==
  Permutations({v1, v2}) \cup Permutations({e1, e2}) \cup Permutations({r1, r2})

VARIABLE focus

\* The modules that are not in focus rest in one of their initial states.
LifecycleRests == place = "remote" /\ machine = Bare /\ LInit
TrustRests     == store = "json" /\ inventory = [v \in Hosts |-> Gone] /\ HInit
KeysRest       == provisioned = FALSE /\ KInit
PolicyRests ==
  /\ literal = [parts |-> <<Empty, Empty, 1>>, suffix |-> NoSuffix]
  /\ names = <<>> /\ privateAllowed = FALSE /\ verdict = Unasked
CredentialsRest == driver = "json" /\ row = "absent" /\ CInit
SupervisorRests == keeps = "json" /\ SInit
PairRests == login = "root" /\ PairInit

HostsInit ==
  /\ focus \in {"lifecycle", "policy", "trust", "keys", "credentials", "supervisor", "pair"}
  /\ IF focus = "lifecycle" THEN LInit ELSE LifecycleRests
  /\ IF focus = "policy" THEN YInit ELSE PolicyRests
  /\ IF focus = "trust" THEN HInit ELSE TrustRests
  /\ IF focus = "keys" THEN KInit ELSE KeysRest
  /\ IF focus = "credentials" THEN CInit ELSE CredentialsRest
  /\ IF focus = "supervisor" THEN SInit ELSE SupervisorRests
  /\ IF focus = "pair" THEN PairInit ELSE PairRests

HostsNext ==
  \/ /\ focus = "lifecycle" /\ LNext
     /\ UNCHANGED <<focus, yvars, hvars, keyvars, credvars, svars, pairvars>>
  \/ /\ focus = "policy" /\ YNext
     /\ UNCHANGED <<focus, lvars, hvars, keyvars, credvars, svars, pairvars>>
  \/ /\ focus = "trust" /\ HNext
     /\ UNCHANGED <<focus, lvars, yvars, keyvars, credvars, svars, pairvars>>
  \/ /\ focus = "keys" /\ KNext
     /\ UNCHANGED <<focus, lvars, yvars, hvars, credvars, svars, pairvars>>
  \/ /\ focus = "credentials" /\ CNext
     /\ UNCHANGED <<focus, lvars, yvars, hvars, keyvars, svars, pairvars>>
  \/ /\ focus = "supervisor" /\ SNext
     /\ UNCHANGED <<focus, lvars, yvars, hvars, keyvars, credvars, pairvars>>
  \/ /\ focus = "pair" /\ PairNext
     /\ UNCHANGED <<focus, lvars, yvars, hvars, keyvars, credvars, svars>>

everything == <<focus, lvars, yvars, hvars, keyvars, credvars, svars, pairvars>>

HostsSpec == HostsInit /\ [][HostsNext]_everything

\* The managed host keeps an agent, and its Docker identity stays what it was.
HostIsSound == LifecycleIsSound /\ PairIsSound

\* The API's own host: its services can authenticate, its stand-in signs off.
OwnHostIsServed == CredentialsServe /\ StoppedIsOffline

\* What is stored is given up only by those it belongs to: pins not by requests
\* about another VPS, a key pair that opens the machine not by a request that
\* only wants one, a credential not by a command of another scope, the heartbeat
\* of an agent not by its stand-in, a Docker identity not by provisioning it again.
StoredIsKept ==
  PinsAreOwned /\ PairIsKept /\ RevocationIsScoped /\ AgentKeepsItsBeat /\ KeysAreKept
=============================================================================
