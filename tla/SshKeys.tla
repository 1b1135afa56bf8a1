------------------------------ MODULE SshKeys ------------------------------
(***************************************************************************)
(* The key pair the API has for one VPS, and its installation there: two    *)
(* files beside the API, read and made on demand, and the authorized_keys   *)
(* of the machine, read and rewritten over SFTP.  writeFile empties a file  *)
(* before it fills it, here and there.                                      *)
(*                                                                         *)
(* A key pair is the number of its generation; 0 is the pair of an old      *)
(* release, in a format that is not supported any more.                     *)
(***************************************************************************)
EXTENDS Integers, FiniteSets

CONSTANTS
  Callers,     \* requests to provision served at the same time
  Admins,      \* keys the machine's own users have added, or will
  MaxCalls,    \* requests in all
  MaxFailures  \* connections that are cut, and crashes of the API

\* Pairs are numbered; no key of a user is one of them.
ASSUME KeysAssumption ==
  /\ MaxCalls \in Nat /\ MaxFailures \in Nat
  /\ \A k \in Admins : k \notin Int

\* What a file without a pair holds: nothing, or it is not there.
Blank == -1
NoFile == -2

VARIABLES
  private,     \* the file of the private key
  public,      \* and that of the public one
  authorized,  \* the keys of authorized_keys
  added,       \* the keys the users have added
  provisioned, \* the VPS is marked as provisioned
  call,        \* the requests in progress
  calls,       \* requests so far
  failures,    \* cut connections and crashes so far
  pairs,       \* pairs generated so far
  overlapped,  \* two requests, or a request and an edit, overlapped
  cut          \* a failure left one of the files empty, or the pair half made

keyvars == <<private, public, authorized, added, provisioned, call, calls, failures, pairs, overlapped, cut>>

Caller == [step |-> "idle", pair |-> NoFile, private |-> NoFile, seen |-> {}, result |-> "none"]
Active == { t \in Callers : call[t].step # "idle" }

Stands(t, s) == call[t].step = s
To(t, s) == call' = [call EXCEPT ![t].step = s]
Done(t, r) == call' = [call EXCEPT ![t] = [Caller EXCEPT !.result = r]]

-----------------------------------------------------------------------------
(* ensureKeyPair *)

Provision(t) ==
  /\ Stands(t, "idle") /\ calls < MaxCalls
  /\ calls' = calls + 1
  /\ call' = [call EXCEPT ![t] = [Caller EXCEPT !.step = "private"]]
  /\ overlapped' = (overlapped \/ Active # {})
  /\ UNCHANGED <<private, public, authorized, added, provisioned, failures, pairs, cut>>

ReadPrivate(t) ==
  /\ Stands(t, "private")
  /\ call' = [call EXCEPT ![t].private = private, ![t].step = "public"]
  /\ UNCHANGED <<private, public, authorized, added, provisioned, calls, failures, pairs, overlapped, cut>>

\* Both files are there, and the format is supported: an empty one is.
WholePair(priv, pub) == priv # NoFile /\ pub # NoFile /\ priv # 0

ReadPublic(t) ==
  /\ Stands(t, "public")
  /\ IF WholePair(call[t].private, public)
     THEN call' = [call EXCEPT ![t].pair = public, ![t].step = "dial"]
     ELSE To(t, "make")
  /\ UNCHANGED <<private, public, authorized, added, provisioned, calls, failures, pairs, overlapped, cut>>

\* writeNewKeyPair
Make(t) ==
  /\ Stands(t, "make")
  /\ pairs' = pairs + 1
  /\ private' = Blank
  /\ call' = [call EXCEPT ![t].pair = pairs', ![t].step = "fillPrivate"]
  /\ UNCHANGED <<public, authorized, added, provisioned, calls, failures, overlapped, cut>>

FillPrivate(t) ==
  /\ Stands(t, "fillPrivate")
  /\ private' = call[t].pair /\ To(t, "openPublic")
  /\ UNCHANGED <<public, authorized, added, provisioned, calls, failures, pairs, overlapped, cut>>

OpenPublic(t) ==
  /\ Stands(t, "openPublic")
  /\ public' = Blank /\ To(t, "fillPublic")
  /\ UNCHANGED <<private, authorized, added, provisioned, calls, failures, pairs, overlapped, cut>>

FillPublic(t) ==
  /\ Stands(t, "fillPublic")
  /\ public' = call[t].pair /\ To(t, "dial")
  /\ UNCHANGED <<private, authorized, added, provisioned, calls, failures, pairs, overlapped, cut>>

-----------------------------------------------------------------------------
(* installPublicKeyViaSftp *)

\* The connection is refused before anything is touched: host key, password.
Refused(t) ==
  /\ Stands(t, "dial")
  /\ Done(t, "failed")
  /\ UNCHANGED <<private, public, authorized, added, provisioned, calls, failures, pairs, overlapped, cut>>

\* A missing file is an empty one.
ReadRemote(t) ==
  /\ Stands(t, "dial")
  /\ call' = [call EXCEPT ![t].seen = authorized, ![t].step = "openRemote"]
  /\ UNCHANGED <<private, public, authorized, added, provisioned, calls, failures, pairs, overlapped, cut>>

OpenRemote(t) ==
  /\ Stands(t, "openRemote")
  /\ authorized' = {} /\ To(t, "fillRemote")
  /\ UNCHANGED <<private, public, added, provisioned, calls, failures, pairs, overlapped, cut>>

\* Faulty: the file is rewritten with the one key.
Lines_One(seen, pair) == {pair}

\* An empty key is an empty line, which the next reader drops.
Lines(seen, pair) == IF pair = Blank THEN seen ELSE seen \cup {pair}

FillRemote(t) ==
  /\ Stands(t, "fillRemote")
  /\ authorized' = Lines(call[t].seen, call[t].pair) /\ To(t, "mark")
  /\ UNCHANGED <<private, public, added, provisioned, calls, failures, pairs, overlapped, cut>>

\* markKeyProvisioned, after the last chmod.
Mark(t) ==
  /\ Stands(t, "mark")
  /\ provisioned' = TRUE /\ Done(t, "ok")
  /\ UNCHANGED <<private, public, authorized, added, calls, failures, pairs, overlapped, cut>>

-----------------------------------------------------------------------------
(* Failures and the machine's users *)

\* The connection is lost: what was written stays as it is.
Cut(t) ==
  /\ call[t].step \in {"openRemote", "fillRemote", "mark"} /\ failures < MaxFailures
  /\ failures' = failures + 1 /\ Done(t, "failed")
  /\ cut' = (cut \/ Stands(t, "fillRemote"))
  /\ UNCHANGED <<private, public, authorized, added, provisioned, calls, pairs, overlapped>>

CrashApi ==
  /\ Active # {} /\ failures < MaxFailures
  /\ failures' = failures + 1
  /\ call' = [t \in Callers |-> Caller]
  /\ cut' = (cut \/ \E t \in Active : call[t].step \in
              {"fillPrivate", "openPublic", "fillPublic", "fillRemote"})
  /\ UNCHANGED <<private, public, authorized, added, provisioned, calls, pairs, overlapped>>

\* A user adds a key; an edit while the file is rewritten may be overwritten.
Edit(k) ==
  /\ k \notin added
  /\ added' = added \cup {k} /\ authorized' = authorized \cup {k}
  /\ overlapped' = (overlapped \/ \E t \in Callers : call[t].step \in {"openRemote", "fillRemote"})
  /\ UNCHANGED <<private, public, provisioned, call, calls, failures, pairs, cut>>

KInit ==
  /\ \/ private = NoFile /\ public = NoFile /\ provisioned = FALSE /\ authorized = {}
     \/ private = 0 /\ public = 0 /\ provisioned = TRUE /\ authorized = {0}
  /\ added = {} /\ call = [t \in Callers |-> Caller]
  /\ calls = 0 /\ failures = 0 /\ pairs = 0 /\ overlapped = FALSE /\ cut = FALSE

KNext ==
  \/ \E t \in Callers :
       \/ Provision(t) \/ ReadPrivate(t) \/ ReadPublic(t)
       \/ Make(t) \/ FillPrivate(t) \/ OpenPublic(t) \/ FillPublic(t)
       \/ Refused(t) \/ ReadRemote(t) \/ OpenRemote(t) \/ FillRemote(t) \/ Mark(t) \/ Cut(t)
  \/ CrashApi
  \/ \E k \in Admins : Edit(k)

KSpec == KInit /\ [][KNext]_keyvars

-----------------------------------------------------------------------------
(* Properties *)

\* A file holds a pair that was generated, or none.
KeysTypeOK ==
  /\ private \in NoFile .. pairs /\ public \in NoFile .. pairs
  /\ \A k \in authorized : k \in added \/ k \in 0 .. pairs
  /\ added \subseteq Admins
  /\ provisioned \in BOOLEAN /\ calls \in 0 .. MaxCalls /\ failures \in 0 .. MaxFailures

\* A request that has succeeded leaves a pair that opens the machine, unless
\* requests overlapped or a failure left a file empty (provisionKey).
SuccessOpensTheHost ==
  Active = {} /\ ~ overlapped /\ ~ cut /\ (\E t \in Callers : call[t].result = "ok") =>
    private = public /\ private \in authorized \ {0}

\* A pair that opened the machine is given up only for another one, and only
\* because its format is not supported (ensureKeyPair): a second request reuses
\* the files it finds, after a failure before the last of them too.
PairIsKept ==
  [][private' # private /\ private \in authorized /\ ~ overlapped => private = 0]_keyvars

\* The keys the machine's users have added stay, whatever the API does with the
\* file, unless an edit came between its read and its write or a write was cut.
UsersKeysStay ==
  added \subseteq authorized \/ overlapped \/ cut \/ \E t \in Callers : Stands(t, "fillRemote")

\* The API's key opens the machine, and its users' keys still do.
KeysOpenTheHost == KeysTypeOK /\ SuccessOpensTheHost /\ UsersKeysStay
=============================================================================
